---------------------------- MODULE ServerPeers -----------------------------
(***************************************************************************)
(* The Java peers of struct wl_client and struct wl_event_loop, which      *)
(* share one registry and one heap of native memory.                       *)
(*                                                                         *)
(* A client comes with a connection or from new Client, a display's event  *)
(* loop lives as long as the display, and new EventLoop() makes a loop of  *)
(* its own.  Three actors run against each other: libwayland, which        *)
(* accepts clients and destroys them when they hang up; the application,   *)
(* which constructs, looks up, uses, destroys and drops peers and          *)
(* displays; and the JVM's finalizer thread.  Every action but the two     *)
(* halves of the finalizer is one native call.                             *)
(*                                                                         *)
(* A call through a pointer to freed memory, or to memory that is by now   *)
(* an object of the other kind, sets fault and the process takes no        *)
(* further step: nothing is claimed of what follows.                       *)
(***************************************************************************)
EXTENDS NativeObjectWrapper

CONSTANTS DisplayLoops,  \* event loops of displays
          OwnLoops,      \* event loops made by new EventLoop()
          LoopPeers      \* the Java objects of class EventLoop

ASSUME PeersAssumption ==
  /\ DisplayLoops \subseteq Natives
  /\ OwnLoops \subseteq Natives
  /\ DisplayLoops \cap OwnLoops = {}
  /\ LoopPeers \subseteq Peers

Clients == Natives \ (DisplayLoops \cup OwnLoops)

\* p is of the class that stands for n.
Wraps(p, n) == p \in LoopPeers <=> n \notin Clients

Running == fault = "none"

-----------------------------------------------------------------------------
(* libwayland. *)

\* A connection is accepted on a socket of the display; no Java object yet.
ClientConnects(n, a) ==
  /\ Running
  /\ n \in Clients
  /\ Allocate(n, a)
  /\ UNCHANGED << heap, held, wrapperVars, fault >>

\* The connection is lost and libwayland calls wl_client_destroy.
ClientHangsUp(n) ==
  /\ Running
  /\ n \in Live \cap Clients
  /\ Die(n)
  /\ UNCHANGED << addr, heap, held, fault >>

-----------------------------------------------------------------------------
(* The application. *)

\* new Display(): wl_display_create makes its event loop.
DisplayCreate(n, a) ==
  /\ Running
  /\ n \in DisplayLoops
  /\ Allocate(n, a)
  /\ UNCHANGED << heap, held, wrapperVars, fault >>

\* Display.destroy: wl_display_destroy destroys the event loop, which emits
\* its destroy signal.
DisplayDestroy(n) ==
  /\ Running
  /\ n \in Live \cap DisplayLoops
  /\ Die(n)
  /\ UNCHANGED << addr, heap, held, fault >>

\* new Client(display, fd), called by Java or by startClient.
Construct(p, n, a) ==
  /\ Running
  /\ n \in Clients /\ Wraps(p, n)
  /\ heap[p] = "unborn"
  /\ Allocate(n, a)
  /\ \E ref \in GlobalRefResults : Own(p, n, a, pairs[a], ref)
  /\ heap' = [heap EXCEPT ![p] = "alive"]
  /\ held' = held \cup {p}
  /\ UNCHANGED fault

\* new EventLoop(): the loop is neither owned nor listened to.  If set_data
\* fails the loop is left to itself.
ConstructLoop(p, n, a) ==
  /\ Running
  /\ n \in OwnLoops /\ Wraps(p, n)
  /\ heap[p] = "unborn"
  /\ Allocate(n, a)
  /\ heap' = [heap EXCEPT ![p] = "alive"]
  /\ \/ /\ data' = [data EXCEPT ![p] = a]
        /\ pairs' = [pairs EXCEPT ![a] = Register(@, p)]
        /\ held' = held \cup {p}
     \/ /\ "wrapper" \in Failures
        /\ UNCHANGED << data, pairs, held >>
  /\ UNCHANGED << selfRef, listening, fault >>

\* wl_client_create or wl_event_loop_create fails: the constructor throws, and
\* the object nobody holds still has a finalizer.
ConstructWithoutNative(p) ==
  /\ Running
  /\ "native" \in Failures
  /\ heap[p] = "unborn"
  /\ heap' = [heap EXCEPT ![p] = "alive"]
  /\ UNCHANGED << native, addr, held, wrapperVars, fault >>

\* set_data fails: the client just created is destroyed again.
ConstructWithoutWrapper(p, n) ==
  /\ Running
  /\ "wrapper" \in Failures
  /\ n \in Clients /\ Wraps(p, n)
  /\ heap[p] = "unborn"
  /\ native[n] = "unborn"
  /\ native' = [native EXCEPT ![n] = "freed"]
  /\ heap' = [heap EXCEPT ![p] = "alive"]
  /\ UNCHANGED << addr, held, wrapperVars, fault >>

\* Pointers are looked up for the clients of requests and binds, and for the
\* event loop of a display.
LookedUp == Live \ OwnLoops

MutLookupOwns(n) ==
  /\ Running
  /\ n \in LookedUp
  /\ LET p == FindReference(addr[n])
     IN /\ p # None
        /\ held' = held \cup {p}
        /\ selfRef' = selfRef \cup {p}
  /\ UNCHANGED << native, addr, heap, data, listening, pairs, fault >>

\* wl_jni_client_to_java or Display.getEventLoop finds a Java object registered
\* for the pointer, and takes it for one of its class.
LookupFinds(n) ==
  /\ Running
  /\ n \in LookedUp
  /\ LET p == FindReference(addr[n])
     IN /\ p # None
        /\ held' = held \cup {p}
        /\ fault' = IF Wraps(p, n) THEN fault ELSE "app"
  /\ UNCHANGED << native, addr, heap, wrapperVars >>

\* They find none and make one, with Client(long) or wl_jni_event_loop_create.
LookupCreates(n, p) ==
  /\ Running
  /\ n \in LookedUp /\ Wraps(p, n)
  /\ FindReference(addr[n]) = None
  /\ heap[p] = "unborn"
  /\ \E ref \in GlobalRefResults :
       Own(p, n, addr[n], StackAfterFind(addr[n]), ref)
  /\ heap' = [heap EXCEPT ![p] = "alive"]
  /\ held' = held \cup {p}
  /\ UNCHANGED << native, addr, fault >>

\* As LookupCreates, but set_data fails and the exception reaches the caller.
LookupFails(n, p) ==
  /\ Running
  /\ "wrapper" \in Failures
  /\ n \in LookedUp /\ Wraps(p, n)
  /\ FindReference(addr[n]) = None
  /\ heap[p] = "unborn"
  /\ pairs' = [pairs EXCEPT ![addr[n]] = StackAfterFind(addr[n])]
  /\ heap' = [heap EXCEPT ![p] = "alive"]
  /\ UNCHANGED << native, addr, held, data, selfRef, listening, fault >>

\* What p's class takes for its native: whoever lives at that address now.
Behind(p) == {n \in At(data[p]) : Wraps(p, n)}

\* wl_client_destroy or wl_event_loop_destroy through p's wrapper.
DestroyThrough(p, actor) ==
  IF data[p] = None
  THEN UNCHANGED << native, wrapperVars, fault >>
  ELSE \/ \E n \in Behind(p) : Die(n) /\ UNCHANGED fault
       \/ /\ Behind(p) = {}
          /\ fault' = actor
          /\ UNCHANGED << native, wrapperVars >>

\* Client.destroy; an EventLoop has no such method.
Destroy(p) ==
  /\ Running
  /\ p \in held \ LoopPeers
  /\ data[p] # None
  /\ DestroyThrough(p, "app")
  /\ UNCHANGED << addr, heap, held >>

\* Client.flush, getDisplay and addDestroyListener and the methods of EventLoop
\* follow the pointer unchecked, a null one included.
UseDead(p) ==
  /\ Running
  /\ p \in held
  /\ Behind(p) = {}
  /\ fault' = "app"
  /\ UNCHANGED << native, addr, heap, held, wrapperVars >>

Drop(p) ==
  /\ Running
  /\ p \in held
  /\ held' = held \ {p}
  /\ UNCHANGED << native, addr, heap, wrapperVars, fault >>

-----------------------------------------------------------------------------
(* The garbage collector and its finalizer thread. *)

\* Client.finalize, first half: if (isValid()) destroy();
\* EventLoop.finalize: _destroy();
FinalizePeer(p) ==
  /\ Running
  /\ heap[p] = "alive"
  /\ Unreachable(p)
  /\ heap' = [heap EXCEPT ![p] = "finalizing"]
  /\ DestroyThrough(p, "finalizer")
  /\ UNCHANGED << addr, held >>

\* Second half: super.finalize() frees the wrapper.  The event loop may have
\* handed the object out again in between.
FinalizeWrapper(p) ==
  /\ Running
  /\ heap[p] = "finalizing"
  /\ heap' = [heap EXCEPT ![p] = "finalized"]
  /\ DestroyWrapper(p)
  /\ UNCHANGED << native, addr, held, fault >>

\* The finalized object is found unreachable again and reclaimed; its weak
\* references are cleared.
Collect(p) ==
  /\ Running
  /\ heap[p] = "finalized"
  /\ Unreachable(p)
  /\ heap' = [heap EXCEPT ![p] = "collected"]
  /\ UNCHANGED << native, addr, held, wrapperVars, fault >>

-----------------------------------------------------------------------------

Libwayland ==
  \/ \E n \in Natives, a \in Addrs : ClientConnects(n, a)
  \/ \E n \in Natives : ClientHangsUp(n)

Application ==
  \/ \E n \in Natives, a \in Addrs : DisplayCreate(n, a)
  \/ \E n \in Natives : DisplayDestroy(n)
  \/ \E p \in Peers, n \in Natives, a \in Addrs : Construct(p, n, a)
  \/ \E p \in Peers, n \in Natives, a \in Addrs : ConstructLoop(p, n, a)
  \/ \E p \in Peers : ConstructWithoutNative(p)
  \/ \E p \in Peers, n \in Natives : ConstructWithoutWrapper(p, n)
  \/ \E n \in Natives : LookupFinds(n)
  \/ \E n \in Natives, p \in Peers : LookupCreates(n, p)
  \/ \E n \in Natives, p \in Peers : LookupFails(n, p)
  \/ \E p \in Peers : Destroy(p)
  \/ \E p \in Peers : UseDead(p)
  \/ \E p \in Peers : Drop(p)

Collector ==
  \/ \E p \in Peers : FinalizePeer(p)
  \/ \E p \in Peers : FinalizeWrapper(p)
  \/ \E p \in Peers : Collect(p)

Next == Libwayland \/ Application \/ Collector

Spec == WrapperInit /\ [][Next]_vars

-----------------------------------------------------------------------------
(* Properties. *)

\* A live client, or event loop of a live display, that has been given a peer
\* of its own keeps it: any lookup of its pointer returns that one peer, of the
\* right class, whose wrapper is allocated and points back.  So it never gets a
\* second peer, and its destroy signal never runs into a freed wrapper.
SeenNativeResolves ==
  \A n \in Live, p \in Peers :
    listening[p] = n => /\ FindReference(addr[n]) = p
                        /\ Wraps(p, n)
                        /\ data[p] = addr[n]

\* While global references can be had, the peer of a live client or display is
\* pinned: its finalizer, which would destroy the client or the loop the
\* display runs on, has not started.
LiveNativePinsPeer ==
  "globalRef" \notin Failures =>
    \A n \in Live, p \in Peers :
      listening[p] = n => p \in selfRef /\ heap[p] = "alive"

\* "This should never happen" (destroyNative): a finalized wrapper is owned.
FinalizedIsNotOwned ==
  \A p \in Peers : heap[p] \in {"finalizing", "finalized"} => p \notin selfRef

\* Client.finalize calls destroy only under isValid(), _destroy does nothing for
\* a NULL loop, and a wrapper owned with destroyed_by_owner is to be invalidated
\* when its native is destroyed: the finalizer never destroys through a dangling
\* pointer.
FinalizerStaysOffFreedMemory == fault # "finalizer"

\* A peer's native, as PinnedPeer knows it, is the client or loop whose destroy
\* signal its wrapper is linked to; a loop of new EventLoop() has no link.
PinnedWrapper == INSTANCE PinnedPeer WITH
  Prompt <- TRUE,
  life <- [p \in Peers |-> IF heap[p] = "unborn" THEN "unborn"
                           ELSE IF listening[p] \in Live THEN "live" ELSE "ended"],
  pinned <- selfRef,
  reclaimed <- {p \in Peers : heap[p] = "collected"}

\* While global references can be had, the wrappers of clients and loops keep
\* the promise of PinnedPeer: the reference comes with the link, goes with the
\* native, and only then is the Java object collected.
ImplementsPinnedPeer == PinnedWrapper!Spec
=============================================================================
