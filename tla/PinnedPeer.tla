----------------------------- MODULE PinnedPeer -----------------------------
(***************************************************************************)
(* What the library promises of a Java object that stands for a native one *)
(* it calls back into: proxies, globals, and the wrappers of clients and   *)
(* event loops.                                                            *)
(*                                                                         *)
(* A global reference in the native's user data pins the object from the   *)
(* moment the native lives; the garbage collector reclaims it only after   *)
(* the native has ended and the reference is gone.  Several natives may    *)
(* end in one step.  Where the promise is prompt the reference goes with   *)
(* the native.                                                             *)
(***************************************************************************)
CONSTANTS Peers,   \* Java objects, each constructed at most once
          Prompt   \* the end of the native deletes the reference

VARIABLES
  life,      \* life[p]: p's native: "unborn", "live" or "ended"
  pinned,    \* the peers a global reference keeps
  reclaimed  \* the peers the garbage collector has reclaimed

vars == << life, pinned, reclaimed >>

Living == {p \in Peers : life[p] = "live"}

Init ==
  /\ life = [p \in Peers |-> "unborn"]
  /\ pinned = {}
  /\ reclaimed = {}

Begin(p) ==
  /\ life[p] = "unborn"
  /\ life' = [life EXCEPT ![p] = "live"]
  /\ pinned' = pinned \cup {p}
  /\ UNCHANGED reclaimed

\* The constructor fails and leaves nothing behind.
Abort(p) ==
  /\ life[p] = "unborn"
  /\ life' = [life EXCEPT ![p] = "ended"]
  /\ UNCHANGED << pinned, reclaimed >>

End(gone) ==
  /\ gone \subseteq Living
  /\ life' = [p \in Peers |-> IF p \in gone THEN "ended" ELSE life[p]]
  /\ \E released \in SUBSET gone :
       /\ Prompt => released = gone
       /\ pinned' = pinned \ released
  /\ UNCHANGED reclaimed

Reclaim(p) ==
  /\ life[p] = "ended"
  /\ p \notin pinned
  /\ reclaimed' = reclaimed \cup {p}
  /\ UNCHANGED << life, pinned >>

Next ==
  \/ \E p \in Peers : Begin(p) \/ Abort(p) \/ Reclaim(p)
  \/ \E gone \in SUBSET Peers : End(gone)

Spec == Init /\ [][Next]_vars

-----------------------------------------------------------------------------
(* What the promise is good for. *)

\* Whatever the native hands to Java is there; the callback never finds a
\* reclaimed object.
LivingIsThere == \A p \in Living : p \in pinned /\ p \notin reclaimed

\* A prompt reference keeps nothing longer than it is needed.
PromptPinsNoLonger == Prompt => pinned = Living

Promise ==
  /\ life \in [Peers -> {"unborn", "live", "ended"}]
  /\ pinned \subseteq Peers
  /\ reclaimed \subseteq Peers
  /\ \A p \in pinned : life[p] # "unborn"
  /\ \A p \in reclaimed : life[p] = "ended"
  /\ LivingIsThere
  /\ PromptPinsNoLonger
=============================================================================
