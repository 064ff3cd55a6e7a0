---------------------------- MODULE ClientProxy ----------------------------
(***************************************************************************)
(* org.freedesktop.wayland.client: Proxy objects and the dispatch of their *)
(* events (client/proxy.c, client/display.c).                              *)
(*                                                                         *)
(* libwayland-client queues the events a connection brings and, inside a   *)
(* call of Display.dispatch, hands them one by one to the dispatcher in    *)
(* proxy.c, which calls the Java listener.  The listener creates, destroys *)
(* and drops proxies, throws, or dispatches again.  A listener that throws *)
(* leaves the exception pending: no Java runs until the C frames below     *)
(* have returned to the Java caller of dispatch.                           *)
(*                                                                         *)
(* The Java Proxy and its struct wl_proxy are made together, so p names    *)
(* both.  One thread uses the connection.  A crash sets fault and the      *)
(* process takes no further step.                                          *)
(***************************************************************************)
EXTENDS Naturals, Sequences

CONSTANTS Proxies,    \* proxies, each constructed at most once
          None,       \* no proxy: NULL, null
          MaxEvents,  \* bound: events that arrive
          MaxDepth,   \* bound: dispatch calls inside each other
          MaxRaised,  \* bound: exceptions
          Moves       \* "noNative", "noRef", "memory": an allocation fails in
                      \* createNative, NewGlobalRef, the dispatcher
                      \* "throw": listeners throw
                      \* "noListener": events for proxies without a listener
                      \* "useDead": proxies are used after Display.disconnect

ASSUME ProxyAssumption ==
  /\ None \notin Proxies
  /\ MaxEvents \in Nat /\ MaxDepth \in Nat /\ MaxRaised \in Nat
  /\ Moves \subseteq {"noNative", "noRef", "memory", "throw", "noListener",
                      "useDead"}

VARIABLES
  native,     \* native[p]: the wl_proxy: "unborn", "live" or "destroyed"
  field,      \* the proxies whose proxy_ptr is not 0
  userData,   \* the proxies whose user_data is a global reference to the peer
  listener,   \* the proxies whose field listener is set
  held,       \* the Java objects the application holds
  collected,  \* the Java objects the garbage collector reclaimed
  connected,  \* the wl_display exists
  queue,      \* the queued events
  arrived,    \* how many have been queued
  stack,      \* the running dispatch calls, innermost first: the event whose
              \* listener runs, or NoEvent between two
  pending,    \* an exception is pending in the JNI environment
  raised,     \* how many exceptions the dispatcher and listeners raised
  reported,   \* how many a Java caller of dispatch received
  fault       \* "none", "memory" (freed memory), "jni" (NULL where it crashes)
peerVars == << native, field, userData, listener, held, collected >>
loopVars == << queue, arrived, stack, pending, raised, reported >>
vars == << peerVars, connected, loopVars, fault >>

\* What an event carries: nothing the model needs, an object, an object that
\* may be null, or a new object the server made.
Event == [target : Proxies, kind : {"plain", "newId"}, arg : {None}]
    \cup [target : Proxies, kind : {"object"}, arg : Proxies]
    \cup [target : Proxies, kind : {"nullable"}, arg : Proxies \cup {None}]
NoEvent == [target |-> None, kind |-> "none", arg |-> None]

TypeOK ==
  /\ native \in [Proxies -> {"unborn", "live", "destroyed"}]
  /\ field \in SUBSET Proxies
  /\ userData \in SUBSET Proxies
  /\ listener \in SUBSET Proxies
  /\ held \in SUBSET Proxies
  /\ collected \in SUBSET Proxies
  /\ connected \in BOOLEAN
  /\ queue \in Seq(Event)
  /\ arrived \in 0..MaxEvents
  /\ stack \in Seq(Event \cup {NoEvent})
  /\ pending \in BOOLEAN
  /\ raised \in 0..MaxRaised
  /\ reported \in 0..MaxRaised
  /\ fault \in {"none", "memory", "jni"}

\* Display.connect
Init ==
  /\ native = [p \in Proxies |-> "unborn"]
  /\ field = {} /\ userData = {} /\ listener = {}
  /\ held = {} /\ collected = {}
  /\ connected = TRUE
  /\ queue = << >> /\ arrived = 0 /\ stack = << >>
  /\ pending = FALSE /\ raised = 0 /\ reported = 0
  /\ fault = "none"

-----------------------------------------------------------------------------

\* Java code runs: outside of dispatch or in the listener of an event.
InListener == stack # << >> /\ Head(stack) # NoEvent
JavaRuns == fault = "none" /\ (stack = << >> \/ InListener)

\* The loop of wl_display_dispatch is between two events.
BetweenEvents == fault = "none" /\ stack # << >> /\ Head(stack) = NoEvent

Live(p) == p # None /\ native[p] = "live"

Fault(kind) ==
  /\ fault' = kind
  /\ UNCHANGED << peerVars, connected, loopVars >>

-----------------------------------------------------------------------------
(* Java code. *)

MutCreateUsesLocalRef(p) ==
  /\ JavaRuns /\ connected
  /\ native[p] = "unborn"
  /\ native' = [native EXCEPT ![p] = "live"]
  /\ field' = field \cup {p}
  /\ held' = held \cup {p}
  /\ UNCHANGED << userData, listener, collected, connected, loopVars, fault >>

\* new Proxy(factory, iface), createNative
Create(p) ==
  /\ JavaRuns /\ connected
  /\ native[p] = "unborn"
  /\ native' = [native EXCEPT ![p] = "live"]
  /\ field' = field \cup {p}
  /\ userData' = userData \cup {p}
  /\ held' = held \cup {p}
  /\ UNCHANGED << listener, collected, connected, loopVars, fault >>

\* wl_proxy_create returns NULL; createNative throws and goes on with it.
CreateWithoutNative(p) ==
  /\ "noNative" \in Moves
  /\ JavaRuns /\ connected
  /\ native[p] = "unborn"
  /\ Fault("jni")

\* NewGlobalRef fails: the native proxy is destroyed, the constructor throws.
CreateWithoutRef(p) ==
  /\ "noRef" \in Moves
  /\ JavaRuns /\ connected
  /\ native[p] = "unborn"
  /\ native' = [native EXCEPT ![p] = "destroyed"]
  /\ UNCHANGED << field, userData, listener, held, collected, connected,
                  loopVars, fault >>

\* addListener throws when the listener is set.
AddListener(p) ==
  /\ JavaRuns
  /\ p \in held \ listener
  /\ listener' = listener \cup {p}
  /\ UNCHANGED << native, field, userData, held, collected, connected,
                  loopVars, fault >>

MutDestroyLeavesField(p) ==
  /\ JavaRuns /\ connected
  /\ p \in held \cap field
  /\ native' = [native EXCEPT ![p] = "destroyed"]
  /\ userData' = userData \ {p}
  /\ UNCHANGED << field, listener, held, collected, connected, loopVars, fault >>

MutDestroyKeepsRef(p) ==
  /\ JavaRuns /\ connected
  /\ p \in held \cap field
  /\ native' = [native EXCEPT ![p] = "destroyed"]
  /\ field' = field \ {p}
  /\ UNCHANGED << userData, listener, held, collected, connected, loopVars,
                  fault >>

\* Proxy.destroy; on a destroyed proxy it does nothing.
Destroy(p) ==
  /\ JavaRuns /\ connected
  /\ p \in held \cap field
  /\ native' = [native EXCEPT ![p] = "destroyed"]
  /\ userData' = userData \ {p}
  /\ field' = field \ {p}
  /\ UNCHANGED << listener, held, collected, connected, loopVars, fault >>

\* marshal, getID, setQueue and destroy go to the wl_proxy when proxy_ptr is
\* not 0, and throw otherwise.  They reach a wl_proxy in order unless it, or
\* the wl_display it points to, has been freed.
UseDead(p) ==
  /\ JavaRuns
  /\ p \in held \cap field
  /\ \/ ~Live(p)
     \/ ~connected /\ "useDead" \in Moves
  /\ Fault("memory")

\* Display.disconnect: the wl_display and its queue are freed, the proxies are
\* not told.  Bound: not from inside a dispatch call.
Disconnect ==
  /\ JavaRuns /\ connected /\ stack = << >>
  /\ connected' = FALSE
  /\ queue' = << >>
  /\ UNCHANGED << peerVars, arrived, stack, pending, raised, reported, fault >>

Drop(p) ==
  /\ JavaRuns
  /\ p \in held
  /\ held' = held \ {p}
  /\ UNCHANGED << native, field, userData, listener, collected, connected,
                  loopVars, fault >>

\* The listeners that run have local references to their target and argument.
OnStack(p) == \E k \in 1..Len(stack) : p \in {stack[k].target, stack[k].arg}

Collect(p) ==
  /\ fault = "none"
  /\ native[p] # "unborn"
  /\ p \notin held \cup userData \cup collected
  /\ ~OnStack(p)
  /\ collected' = collected \cup {p}
  /\ UNCHANGED << native, field, userData, listener, held, connected,
                  loopVars, fault >>

-----------------------------------------------------------------------------
(* libwayland-client. *)

\* An event is read from the connection and queued for a proxy that exists;
\* an object argument was alive when it was looked up.
Arrive(e) ==
  /\ fault = "none" /\ connected
  /\ arrived < MaxEvents
  /\ Live(e.target)
  /\ e.arg = None \/ Live(e.arg)
  /\ "noListener" \in Moves \/ e.target \in listener
  /\ queue' = Append(queue, e)
  /\ arrived' = arrived + 1
  /\ UNCHANGED << peerVars, connected, stack, pending, raised, reported, fault >>

\* Display.dispatch, roundtrip and their kin.
Dispatch ==
  /\ JavaRuns /\ connected
  /\ Len(stack) < MaxDepth
  /\ stack' = << NoEvent >> \o stack
  /\ UNCHANGED << peerVars, connected, queue, arrived, pending, raised,
                  reported, fault >>

\* The loop hands the next event to the dispatcher of its target.
Handing ==
  /\ BetweenEvents
  /\ queue # << >>
  /\ Live(Head(queue).target)

\* An argument destroyed since the event was queued is replaced by NULL.
Handed == [Head(queue) EXCEPT !.arg = IF Live(@) THEN @ ELSE None]

\* The event of a proxy destroyed since is dropped.
SkipDestroyed ==
  /\ BetweenEvents
  /\ queue # << >>
  /\ ~Live(Head(queue).target)
  /\ queue' = Tail(queue)
  /\ UNCHANGED << peerVars, connected, arrived, stack, pending, raised,
                  reported, fault >>

-----------------------------------------------------------------------------
(* wl_jni_proxy_dispatcher. *)

\* An exception is raised below the listener, and stays pending.  One raised
\* while another is pending replaces it.
Raise ==
  /\ raised < MaxRaised
  /\ pending' = TRUE
  /\ raised' = IF pending THEN raised ELSE raised + 1

MutPendingIgnored == FALSE

\* The checks after wl_jni_proxy_to_java and GetObjectField.
MustNotCall == pending

\* NULL for an object that must not be null.
ArgumentMissing == Handed.kind = "object" /\ Handed.arg = None

\* NULL where the dispatcher follows it: for an object that may be null, or for
\* the listener.
Crashes ==
  \/ Handed.kind = "nullable" /\ Handed.arg = None
  \/ Handed.target \notin listener

\* An exception is pending or the arguments cannot be had: the event is lost.
Lose ==
  /\ Handing
  /\ \/ MustNotCall /\ UNCHANGED << pending, raised >>
     \/ ~MustNotCall /\ (ArgumentMissing \/ "memory" \in Moves) /\ Raise
  /\ queue' = Tail(queue)
  /\ UNCHANGED << peerVars, connected, arrived, stack, reported, fault >>

\* The listener is called with the proxy and the arguments.  The new object of
\* an event has no peer: the listener gets null for it.
Call ==
  /\ Handing
  /\ ~MustNotCall /\ ~ArgumentMissing /\ ~Crashes
  /\ queue' = Tail(queue)
  /\ stack' = [stack EXCEPT ![1] = Handed]
  /\ held' = held \cup ({Handed.target, Handed.arg} \ {None})
  /\ UNCHANGED << native, field, userData, listener, collected, connected,
                  arrived, pending, raised, reported, fault >>

CallCrashes ==
  /\ Handing
  /\ ~MustNotCall /\ ~ArgumentMissing /\ Crashes
  /\ Fault("jni")

Return ==
  /\ fault = "none" /\ InListener
  /\ stack' = [stack EXCEPT ![1] = NoEvent]
  /\ UNCHANGED << peerVars, connected, queue, arrived, pending, raised,
                  reported, fault >>

MutThrowIsCleared ==
  /\ "throw" \in Moves
  /\ fault = "none" /\ InListener
  /\ raised < MaxRaised
  /\ raised' = raised + 1
  /\ stack' = [stack EXCEPT ![1] = NoEvent]
  /\ UNCHANGED << peerVars, connected, queue, arrived, pending, reported,
                  fault >>

\* The listener throws; the dispatcher returns -1, which libwayland ignores.
Throw ==
  /\ "throw" \in Moves
  /\ fault = "none" /\ InListener
  /\ Raise
  /\ stack' = [stack EXCEPT ![1] = NoEvent]
  /\ UNCHANGED << peerVars, connected, queue, arrived, reported, fault >>

\* The queue is empty: dispatch returns to Java, which sees the exception.
DispatchReturns ==
  /\ BetweenEvents
  /\ queue = << >>
  /\ stack' = Tail(stack)
  /\ pending' = FALSE
  /\ reported' = IF pending THEN reported + 1 ELSE reported
  /\ UNCHANGED << peerVars, connected, queue, arrived, raised, fault >>

-----------------------------------------------------------------------------

Java ==
  \/ \E p \in Proxies : Create(p) \/ CreateWithoutNative(p) \/ CreateWithoutRef(p)
  \/ \E p \in Proxies : AddListener(p) \/ Destroy(p) \/ UseDead(p) \/ Drop(p)
  \/ Dispatch
  \/ Disconnect

\* What C does between two events.
DispatchLoop ==
  \/ SkipDestroyed
  \/ Call
  \/ CallCrashes
  \/ Lose
  \/ DispatchReturns

ListenerEnds == Return \/ Throw

Next ==
  \/ Java
  \/ DispatchLoop
  \/ ListenerEnds
  \/ \E e \in Event : Arrive(e)
  \/ \E p \in Proxies : Collect(p)

\* C goes on, a listener does not dispatch for ever, and the garbage collector
\* runs.
Fairness == /\ WF_vars(DispatchLoop)
            /\ SF_vars(ListenerEnds)
            /\ \A p \in Proxies : WF_vars(Collect(p))

Spec == Init /\ [][Next]_vars /\ Fairness

-----------------------------------------------------------------------------
(* Properties. *)

\* The Java peer of a wl_proxy is kept from the collector exactly as long as
\* the wl_proxy lives, and is reclaimed only after it: an event always finds its
\* proxy, whatever the listeners destroy and whatever fails on the way.
PinnedProxy ==
  INSTANCE PinnedPeer WITH
    Peers <- Proxies, Prompt <- TRUE, pinned <- userData, reclaimed <- collected,
    life <- [p \in Proxies |-> IF native[p] = "destroyed" THEN "ended" ELSE native[p]]

ImplementsPinnedPeer == PinnedProxy!Spec

\* As long as the connection lasts no freed wl_proxy is used: neither by a Java
\* method of a proxy destroyed earlier nor for an event queued before that.
NothingFreedWhileConnected == fault = "memory" => ~connected

\* No listener runs, and no dispatch call is entered, while an exception is
\* pending, across events and nested dispatch calls.
NoJavaWhilePending == pending /\ fault = "none" => BetweenEvents

\* Every exception reaches one caller of dispatch: none is swallowed in C, none
\* leaks into a later call.
ExceptionsReachTheCaller == raised = reported + (IF pending THEN 1 ELSE 0)

\* The peer of a destroyed proxy is reclaimed once the application has let go
\* of it for good.
DestroyedIsReclaimed ==
  \A p \in Proxies :
    <>[](native[p] = "destroyed" /\ p \notin held /\ fault = "none")
      => <>(p \in collected)
=============================================================================
