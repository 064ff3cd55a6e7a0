--------------------------- MODULE DestroyListener ---------------------------
(***************************************************************************)
(* org.freedesktop.wayland.server.DestroyListener on the destroy signals   *)
(* of libwayland.                                                          *)
(*                                                                         *)
(* Destroying an object emits its signal: libwayland walks the object's    *)
(* listener list with wl_list_for_each_safe, which reads the next node     *)
(* before it calls the current one, and frees the object after the walk.   *)
(* listener.c calls onDestroy for a node and then detaches it.  onDestroy  *)
(* is application code: it may attach and detach listeners and destroy     *)
(* other objects, whose walks nest in the first.                           *)
(***************************************************************************)
EXTENDS Naturals, Sequences, WlList

CONSTANTS Objects,       \* native objects with a destroy signal
          Listeners,     \* DestroyListener objects
          Nil,
          ListenerMoves  \* what the application does beyond the plain use

\* "throw": onDestroy throws.  "detachNext": it detaches the node a walk has
\* read ahead.  "attachDying": it attaches to an object being destroyed.
\* "rearm": it detaches its own listener and attaches it anew.
ASSUME ListenerAssumption ==
  /\ Nil \notin Objects \cup Listeners
  /\ ListenerMoves \subseteq {"throw", "detachNext", "attachDying", "rearm"}

VARIABLES
  obj,     \* obj[o]: "live", "dying" (its signal is being emitted) or "dead"
  queue,   \* queue[o]: the listeners linked into o's signal, in order
  walks,   \* the emissions under way, innermost first
  served,  \* the listeners notified since they were last attached (history)
  listenerMade,  \* the moves made so far (history)
  listenerFault  \* freed memory was followed

listenerVars == << obj, queue, walks, served, listenerMade, listenerFault >>

\* A walk of the signal of object "of": onDestroy of listener "at" is next to
\* run ("loop") or running ("callback"), "ahead" is the node read before it,
\* and "stale" tells that this node has been freed since.  Nil is the head.
Walks == [of : Objects, at : Listeners \cup {Nil}, ahead : Listeners \cup {Nil},
          stale : BOOLEAN, phase : {"loop", "callback"}]

ListenerTypeOK ==
  /\ obj \in [Objects -> {"live", "dying", "dead"}]
  /\ queue \in [Objects -> Seq(Listeners)]
  /\ walks \in Seq(Walks)
  /\ \A i \in DOMAIN walks : walks[i].at = Nil => walks[i].phase = "loop"
  /\ served \in SUBSET Listeners
  /\ listenerMade \subseteq ListenerMoves
  /\ listenerFault \in BOOLEAN

ListenerInit ==
  /\ obj = [o \in Objects |-> "live"]
  /\ queue = [o \in Objects |-> << >>]
  /\ walks = << >>
  /\ served = {}
  /\ listenerMade = {}
  /\ listenerFault = FALSE

-----------------------------------------------------------------------------
(* Lists. *)

LinkedTo(o) == {queue[o][i] : i \in DOMAIN queue[o]}

\* isAttached: listener_ptr # 0.  Attaching sets it and links the node in one
\* call, detaching undoes both.
Attached(l) == \E o \in Objects : l \in LinkedTo(o)

\* The node after l in a list.
After(list, l) ==
  LET next == {j \in 2..Len(list) : list[j - 1] = l}
  IN IF next = {} THEN Nil ELSE list[CHOOSE j \in next : TRUE]

First(list) == IF list = << >> THEN Nil ELSE Head(list)

\* l's node is unlinked and freed.
Unlinked(l) == [o \in Objects |-> Without(queue[o], l)]

\* Unlinking writes to the neighbours: memory that is gone if l is still in the
\* list of a freed object.
LinkedToDead(l) == \E o \in Objects : obj[o] = "dead" /\ l \in LinkedTo(o)

\* What freeing l's node does to the walks that have read it ahead.
Overtaken(l) ==
  [i \in DOMAIN walks |-> [walks[i] EXCEPT !.stale = @ \/ walks[i].ahead = l]]

-----------------------------------------------------------------------------
(* The application, outside any walk or in the onDestroy of the innermost. *)

MayAct == ~listenerFault /\ (walks # << >> => Head(walks).phase = "callback")

\* The listeners whose onDestroy is running.
Running == {walks[i].at : i \in DOMAIN walks}

\* What the application does counts as these moves.
Move(one, other) ==
  /\ one \cup other \subseteq ListenerMoves
  /\ listenerMade' = listenerMade \cup one \cup other

\* addDestroyListener: "already attached" if it is, else linked at the tail.
Attach(l, o) ==
  /\ MayAct
  /\ obj[o] # "dead"
  /\ ~Attached(l)
  /\ Move(IF obj[o] = "dying" THEN {"attachDying"} ELSE {},
          IF l \in Running THEN {"rearm"} ELSE {})
  /\ queue' = [queue EXCEPT ![o] = Append(@, l)]
  /\ served' = served \ {l}
  /\ UNCHANGED << obj, walks, listenerFault >>

\* DestroyListener.detach
Detach(l) ==
  /\ MayAct
  /\ Attached(l)
  /\ Move(IF \E i \in DOMAIN walks : walks[i].ahead = l THEN {"detachNext"} ELSE {}, {})
  /\ queue' = Unlinked(l)
  /\ walks' = Overtaken(l)
  /\ listenerFault' = LinkedToDead(l)
  /\ UNCHANGED << obj, served >>

\* The object is destroyed: by the application, or by libwayland outside it.
Destroy(o) ==
  /\ MayAct
  /\ obj[o] = "live"
  /\ obj' = [obj EXCEPT ![o] = "dying"]
  /\ walks' = << [of |-> o, at |-> First(queue[o]),
                  ahead |-> After(queue[o], First(queue[o])),
                  stale |-> FALSE, phase |-> "loop"] >> \o walks
  /\ UNCHANGED << listenerMade, queue, served, listenerFault >>

-----------------------------------------------------------------------------
(* The innermost walk. *)

\* listener_notify_func calls onDestroy.
Notify ==
  /\ ~listenerFault
  /\ walks # << >>
  /\ Head(walks).phase = "loop"
  /\ Head(walks).at # Nil
  /\ walks' = [walks EXCEPT ![1].phase = "callback"]
  /\ served' = served \cup {Head(walks).at}
  /\ UNCHANGED << listenerMade, obj, queue, listenerFault >>

MutUnsafeWalk(lists, ws) ==
  walks' = [ws EXCEPT ![1].at = After(lists[ws[1].of], ws[1].at),
                      ![1].ahead = Nil,
                      ![1].stale = FALSE,
                      ![1].phase = "loop"]

MutRestartWalk(lists, ws) ==
  walks' = [ws EXCEPT ![1].at = First(lists[ws[1].of]),
                      ![1].ahead = After(lists[ws[1].of], First(lists[ws[1].of])),
                      ![1].stale = FALSE,
                      ![1].phase = "loop"]

\* The innermost of the walks ws goes on to the node it had read ahead, which
\* it finds in the lists "lists".
Advance(lists, ws) ==
  LET w == ws[1]
  IN walks' = [ws EXCEPT ![1] =
                 [of |-> w.of, at |-> w.ahead, ahead |-> After(lists[w.of], w.ahead),
                  stale |-> FALSE, phase |-> "loop"]]

MutReturnKeepsNode ==
  /\ ~listenerFault
  /\ walks # << >>
  /\ Head(walks).phase = "callback"
  /\ Advance(queue, walks)
  /\ listenerFault' = Head(walks).stale
  /\ UNCHANGED << listenerMade, obj, queue, served >>

\* onDestroy returns and the listener is detached, through its Java object:
\* wherever it is attached by now.
Return ==
  /\ ~listenerFault
  /\ walks # << >>
  /\ Head(walks).phase = "callback"
  /\ LET l == Head(walks).at
     IN /\ queue' = Unlinked(l)
        /\ Advance(Unlinked(l), Overtaken(l))
        /\ listenerFault' = (Head(Overtaken(l)).stale \/ LinkedToDead(l))
  /\ UNCHANGED << listenerMade, obj, served >>

\* onDestroy throws: the exception is described, the listener not detached.
Throw ==
  /\ ~listenerFault
  /\ Move({"throw"}, {})
  /\ walks # << >>
  /\ Head(walks).phase = "callback"
  /\ Advance(queue, walks)
  /\ listenerFault' = Head(walks).stale
  /\ UNCHANGED << obj, queue, served >>

\* The walk is over and the object is freed.
Finish ==
  /\ ~listenerFault
  /\ walks # << >>
  /\ Head(walks).phase = "loop"
  /\ Head(walks).at = Nil
  /\ obj' = [obj EXCEPT ![Head(walks).of] = "dead"]
  /\ walks' = Tail(walks)
  /\ UNCHANGED << listenerMade, queue, served, listenerFault >>

Emission == Notify \/ Return \/ Throw \/ Finish

Application ==
  \/ \E l \in Listeners, o \in Objects : Attach(l, o)
  \/ \E l \in Listeners : Detach(l)
  \/ \E o \in Objects : Destroy(o)

ListenerNext == Application \/ Emission

\* Every onDestroy returns or throws in the end, and libwayland goes on.
ListenerSpec == ListenerInit /\ [][ListenerNext]_listenerVars /\ WF_listenerVars(Emission)

-----------------------------------------------------------------------------
(* Properties. *)

\* The object l waits for: attached to it and not notified since.
Armed(l) ==
  IF l \notin served /\ Attached(l)
  THEN CHOOSE o \in Objects : l \in LinkedTo(o) ELSE Nil

\* Up to here no onDestroy threw, detached ahead of a walk or attached to an
\* object whose destruction had begun.
Ruled == listenerMade \cap {"throw", "detachNext", "attachDying"} = {}

OneShot ==
  INSTANCE OneShotListener
  WITH None <- Nil,
       armed <- [l \in Listeners |-> Armed(l)],
       called <- served,
       condemned <- {o \in Objects : obj[o] # "live"},
       gone <- {o \in Objects : obj[o] = "dead"},
       void <- ~Ruled

\* A listener is called at most once per attachment, and no object goes before
\* the listeners attached to it were called; each of those calls, and the end
\* of the object, does come.  The promise is void once an onDestroy throws or
\* changes the list it is called from ahead of itself or at its end.
ImplementsOneShot == OneShot!Spec

\* Nothing freed is followed, neither the node a walk read ahead nor the list
\* of an object that is gone, unless an onDestroy throws or detaches ahead.
NoFault == Ruled => ~listenerFault

\* Whatever onDestroy does, short of attaching to a dying object for ever, an
\* object whose destruction has begun is freed or memory is corrupted first.
DyingIsFreed ==
  \A o \in Objects :
    obj[o] = "dying" ~> obj[o] = "dead" \/ listenerFault \/ "attachDying" \in listenerMade

=============================================================================
