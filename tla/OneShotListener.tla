--------------------------- MODULE OneShotListener ---------------------------
(***************************************************************************)
(* What a DestroyListener promises its user: armed on an object, it is     *)
(* called at most once, and an object is not gone before every listener    *)
(* still armed on it has been called.  The promise ends when the user      *)
(* breaks the rules.                                                       *)
(***************************************************************************)
CONSTANTS Objects, Listeners, None

VARIABLES armed,      \* armed[l]: the object whose destruction l waits for
          called,     \* the listeners called since they were last armed
          condemned,  \* the objects being destroyed or destroyed
          gone,       \* the objects destroyed
          void        \* nothing is promised any more

promised == << armed, called, condemned, gone >>
vars == << promised, void >>

Init ==
  /\ armed = [l \in Listeners |-> None]
  /\ called = {}
  /\ condemned = {}
  /\ gone = {}
  /\ void = FALSE

Arm(l, o) ==
  /\ armed[l] = None
  /\ o \notin gone
  /\ armed' = [armed EXCEPT ![l] = o]
  /\ called' = called \ {l}
  /\ UNCHANGED << condemned, gone >>

Disarm(l) ==
  /\ armed[l] # None
  /\ armed' = [armed EXCEPT ![l] = None]
  /\ UNCHANGED << called, condemned, gone >>

Condemn(o) ==
  /\ o \notin condemned
  /\ condemned' = condemned \cup {o}
  /\ UNCHANGED << armed, called, gone >>

Call(l) ==
  /\ armed[l] \in condemned
  /\ armed' = [armed EXCEPT ![l] = None]
  /\ called' = called \cup {l}
  /\ UNCHANGED << condemned, gone >>

Free(o) ==
  /\ o \in condemned \ gone
  /\ \A l \in Listeners : armed[l] # o
  /\ gone' = gone \cup {o}
  /\ UNCHANGED << armed, called, condemned >>

Keeping ==
  \/ \E l \in Listeners, o \in Objects : Arm(l, o)
  \/ \E l \in Listeners : Disarm(l) \/ Call(l)
  \/ \E o \in Objects : Condemn(o) \/ Free(o)

\* Steps keep the promise until one of them voids it.
Next == void' \/ (~void /\ ~void' /\ Keeping)

Fairness ==
  /\ \A l \in Listeners : WF_promised(~void /\ Call(l))
  /\ \A o \in Objects : WF_promised(~void /\ Free(o))

Spec == Init /\ [][Next]_vars /\ Fairness
=============================================================================
