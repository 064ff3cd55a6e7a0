-------------------------- MODULE MCInterfaceTable --------------------------
EXTENDS InterfaceTable, TLC

CONSTANTS callback, surface, shell

Symmetry == Permutations(Threads)

\* One interface without types, one that names it after an untyped argument,
\* one that names both.
MCMessages ==
  callback :> << << >> >> @@ surface :> << << None, callback >>, << >> >>
    @@ shell :> << << surface, callback >> >>
MCBelow == {<< callback, surface >>, << callback, shell >>, << surface, shell >>}
=============================================================================
