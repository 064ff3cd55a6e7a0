--------------------------- MODULE ServerEventLoop ---------------------------
(***************************************************************************)
(* org.freedesktop.wayland.server.EventLoop: Java handlers on a            *)
(* wl_event_loop.                                                          *)
(*                                                                         *)
(* Each addX allocates a struct event_handler that four parties then point *)
(* at: the event source of libwayland, the loop's destroy signal, the Java *)
(* EventSource and the dispatch that is running it.  event_loop.c frees it *)
(* when the loop is destroyed and, for an idle handler, after its one run. *)
(* Sources of libwayland are external: an idle source stays queued until   *)
(* its function has returned, and a source that waits for a descriptor or  *)
(* a signal fires at most once in each dispatch.                           *)
(***************************************************************************)
EXTENDS Naturals, Sequences, WlList

CONSTANTS Handlers,       \* the calls of addX, one struct event_handler each
          Kind,           \* Kind[h]: "idle", "fd" or "signal"
          MaxDispatches,  \* bound on the dispatches the application makes
          None,
          Moves           \* what may happen beyond the plain use

\* "throw": a descriptor or signal handler throws.  "nest", "nestIdle": such a
\* handler, or an idle one, calls dispatch or dispatchIdle of its own loop.
\* "noRef", "noObject": the global reference or the EventSource object of an addX
\* cannot be allocated.
ASSUME LoopAssumption ==
  /\ None \notin Handlers
  /\ Kind \in [Handlers -> {"idle", "fd", "signal"}]
  /\ MaxDispatches \in Nat
  /\ Moves \subseteq {"throw", "nest", "nestIdle", "noRef", "noObject"}

VARIABLES
  loop,        \* "live" or "gone"
  held,        \* the application has a reference to the EventLoop
  mem,         \* mem[h]: the struct is "unborn", "live" or "freed"
  refs,        \* the handlers whose jhandler global reference exists
  links,       \* the destroy_listener list of the loop, in order
  sources,     \* the handlers whose event source exists
  idle,        \* the idle sources of the loop, in order
  frames,      \* the dispatches under way, innermost first
  pending,     \* a Java exception is pending in native code
  made,        \* the moves made so far (history)
  dispatches,  \* the dispatches made so far (bound)
  fault        \* "memory": freed memory was used, "jni": JNI was called with
               \* an exception pending, "none" if nothing went wrong

vars == << loop, held, mem, refs, links, sources, idle, frames, pending,
           made, dispatches, fault >>

\* A dispatch runs the idle sources ("idle") or those ready in this round
\* ("events"); "in" is the handler that is running.
Frames == [pass : {"idle", "events"}, in : Handlers \cup {None}, ready : SUBSET Handlers]

TypeOK ==
  /\ loop \in {"live", "gone"}
  /\ held \in BOOLEAN
  /\ mem \in [Handlers -> {"unborn", "live", "freed"}]
  /\ refs \in SUBSET Handlers
  /\ links \in Seq(Handlers)
  /\ sources \in SUBSET Handlers
  /\ idle \in Seq({h \in Handlers : Kind[h] = "idle"})
  /\ frames \in Seq(Frames)
  /\ pending \in BOOLEAN
  /\ dispatches \in 0..MaxDispatches
  /\ made \subseteq Moves
  /\ fault \in {"none", "memory", "jni"}

\* new EventLoop()
Init ==
  /\ loop = "live"
  /\ held = TRUE
  /\ mem = [h \in Handlers |-> "unborn"]
  /\ refs = {}
  /\ links = << >>
  /\ sources = {}
  /\ idle = << >>
  /\ frames = << >>
  /\ pending = FALSE
  /\ dispatches = 0
  /\ made = {}
  /\ fault = "none"

-----------------------------------------------------------------------------

Linked(h) == In(h, links)

\* The nodes that linking at the tail or unlinking h writes to.
LastLinked == IF links = << >> THEN {} ELSE {links[Len(links)]}
Neighbours(h) ==
  {links[j] : j \in {i \in DOMAIN links : \E k \in {i - 1, i + 1} \cap DOMAIN links :
                                            links[k] = h}}

Dangling(nodes) == \E h \in nodes : mem[h] = "freed"

FaultIf(corrupting) == IF corrupting THEN "memory" ELSE "none"

\* Java code of the application runs: outside any dispatch, or in the handler
\* of the innermost.
AppRuns == fault = "none" /\ held /\ (frames # << >> => Head(frames).in # None)

Top == Head(frames)

-----------------------------------------------------------------------------
(* addFileDescriptor, addSignal and addIdle. *)

\* create_source_wrapper, after the source of h was made.
Linking(h) ==
  /\ mem' = [mem EXCEPT ![h] = "live"]
  /\ refs' = refs \cup {h}
  /\ links' = Append(links, h)
  /\ fault' = FaultIf(Dangling(LastLinked))

AddFileDescriptor(h) ==
  /\ AppRuns
  /\ Kind[h] = "fd"
  /\ mem[h] = "unborn"
  /\ Linking(h)
  /\ sources' = sources \cup {h}
  /\ UNCHANGED << made, loop, held, idle, frames, pending, dispatches >>

AddSignal(h) ==
  /\ AppRuns
  /\ Kind[h] = "signal"
  /\ mem[h] = "unborn"
  /\ Linking(h)
  /\ sources' = sources \cup {h}
  /\ UNCHANGED << made, loop, held, idle, frames, pending, dispatches >>

AddIdle(h) ==
  /\ AppRuns
  /\ Kind[h] = "idle"
  /\ mem[h] = "unborn"
  /\ Linking(h)
  /\ sources' = sources \cup {h}
  /\ idle' = Append(idle, h)
  /\ UNCHANGED << made, loop, held, frames, pending, dispatches >>

\* create_source_wrapper fails in NewGlobalRef: everything is undone.
AddWithoutRef(h) ==
  /\ AppRuns
  /\ "noRef" \in Moves
  /\ made' = made \cup {"noRef"}
  /\ mem[h] = "unborn"
  /\ mem' = [mem EXCEPT ![h] = "freed"]
  /\ UNCHANGED << loop, held, refs, links, sources, idle, frames, pending, dispatches, fault >>

\* It fails in NewObject, after the handler was linked: the caller frees the
\* handler and removes the source, and leaves the link and the reference.
AddWithoutObject(h) ==
  /\ AppRuns
  /\ "noObject" \in Moves
  /\ made' = made \cup {"noObject"}
  /\ mem[h] = "unborn"
  /\ mem' = [mem EXCEPT ![h] = "freed"]
  /\ refs' = refs \cup {h}
  /\ links' = Append(links, h)
  /\ fault' = FaultIf(Dangling(LastLinked))
  /\ UNCHANGED << loop, held, sources, idle, frames, pending, dispatches >>

-----------------------------------------------------------------------------
(* dispatch and dispatchIdle. *)

\* The moves it takes to dispatch now.
Nesting == IF frames = << >> THEN {} ELSE IF Top.pass = "idle" THEN {"nestIdle"} ELSE {"nest"}

Enter(new) ==
  /\ AppRuns
  /\ Nesting \subseteq Moves
  /\ made' = made \cup Nesting
  /\ dispatches < MaxDispatches
  /\ dispatches' = dispatches + 1
  /\ frames' = new \o frames
  /\ UNCHANGED << loop, held, mem, refs, links, sources, idle, pending, fault >>

IdlePass == [pass |-> "idle", in |-> None, ready |-> {}]
EventsPass(ready) == [pass |-> "events", in |-> None, ready |-> ready]

DispatchIdle == Enter(<< IdlePass >>)

\* wl_event_loop_dispatch runs the idle sources before it looks for events.
Dispatch ==
  \E ready \in SUBSET {h \in sources : Kind[h] # "idle"} :
    Enter(<< IdlePass, EventsPass(ready) >>)

\* wl_event_loop_dispatch_idle: the function of the first idle source is called
\* while the source is still queued.
IdleCall ==
  /\ fault = "none"
  /\ frames # << >> /\ Top.pass = "idle" /\ Top.in = None
  /\ idle # << >>
  /\ LET h == Head(idle)
     IN /\ frames' = [frames EXCEPT ![1].in = h]
        /\ fault' = FaultIf(Dangling({h}))
  /\ UNCHANGED << made, loop, held, mem, refs, links, sources, idle, pending, dispatches >>

MutIdleReturnKeepsLink ==
  /\ fault = "none"
  /\ frames # << >> /\ Top.pass = "idle" /\ Top.in # None
  /\ LET h == Top.in
     IN /\ mem' = [mem EXCEPT ![h] = "freed"]
        /\ refs' = refs \ {h}
        /\ sources' = sources \ {h}
        /\ idle' = Without(idle, h)
        /\ fault' = FaultIf(Dangling({h}) \/ h \notin sources)
  /\ frames' = [frames EXCEPT ![1].in = None]
  /\ UNCHANGED << made, loop, held, links, pending, dispatches >>

MutIdleReturnKeepsRef ==
  /\ fault = "none"
  /\ frames # << >> /\ Top.pass = "idle" /\ Top.in # None
  /\ LET h == Top.in
     IN /\ mem' = [mem EXCEPT ![h] = "freed"]
        /\ links' = Without(links, h)
        /\ sources' = sources \ {h}
        /\ idle' = Without(idle, h)
        /\ fault' = FaultIf(Dangling({h} \cup Neighbours(h)) \/ h \notin sources)
  /\ frames' = [frames EXCEPT ![1].in = None]
  /\ UNCHANGED << made, loop, held, refs, pending, dispatches >>

\* handleIdle returns or throws.  The handler is destroyed, an exception is
\* described and cleared, and libwayland removes the source.
IdleReturn ==
  /\ fault = "none"
  /\ frames # << >> /\ Top.pass = "idle" /\ Top.in # None
  /\ LET h == Top.in
     IN /\ mem' = [mem EXCEPT ![h] = "freed"]
        /\ refs' = refs \ {h}
        /\ links' = Without(links, h)
        /\ sources' = sources \ {h}
        /\ idle' = Without(idle, h)
        /\ fault' = FaultIf(Dangling({h} \cup Neighbours(h)) \/ h \notin sources)
  /\ frames' = [frames EXCEPT ![1].in = None]
  /\ UNCHANGED << made, loop, held, pending, dispatches >>

\* A source of this round fires.
EventCall ==
  /\ fault = "none"
  /\ frames # << >> /\ Top.pass = "events" /\ Top.in = None
  /\ \E h \in Top.ready :
       /\ frames' = [frames EXCEPT ![1].in = h, ![1].ready = @ \ {h}]
       /\ fault' = IF pending THEN "jni" ELSE FaultIf(Dangling({h}))
  /\ UNCHANGED << made, loop, held, mem, refs, links, sources, idle, pending, dispatches >>

\* Its handler returns, or throws, which nobody looks at before the next call.
EventReturn ==
  /\ fault = "none"
  /\ frames # << >> /\ Top.pass = "events" /\ Top.in # None
  /\ frames' = [frames EXCEPT ![1].in = None]
  /\ pending' \in IF "throw" \in Moves THEN BOOLEAN ELSE {FALSE}
  /\ made' = IF pending' THEN made \cup {"throw"} ELSE made
  /\ UNCHANGED << loop, held, mem, refs, links, sources, idle, dispatches, fault >>

\* A pass is over; with the last one the native call returns to Java, where a
\* pending exception is thrown.
PassDone ==
  /\ fault = "none"
  /\ frames # << >> /\ Top.in = None
  /\ Top.pass = "idle" => idle = << >>
  /\ Top.pass = "events" => Top.ready = {}
  /\ frames' = Tail(frames)
  /\ pending' = FALSE
  /\ UNCHANGED << made, loop, held, mem, refs, links, sources, idle, dispatches, fault >>

-----------------------------------------------------------------------------
(* The end of the loop. *)

Drop ==
  /\ AppRuns
  /\ frames = << >>
  /\ held' = FALSE
  /\ UNCHANGED << made, loop, mem, refs, links, sources, idle, frames, pending, dispatches, fault >>

MutFinalizeKeepsRefs ==
  /\ fault = "none"
  /\ ~held
  /\ loop = "live"
  /\ loop' = "gone"
  /\ mem' = [h \in Handlers |-> IF Linked(h) THEN "freed" ELSE mem[h]]
  /\ links' = << >>
  /\ sources' = {}
  /\ idle' = << >>
  /\ fault' = FaultIf(Dangling({h \in Handlers : Linked(h)}))
  /\ UNCHANGED << made, held, refs, frames, pending, dispatches >>

\* EventLoop.finalize: wl_event_loop_destroy emits the destroy signal, whose
\* listeners destroy the handlers.
Finalize ==
  /\ fault = "none"
  /\ ~held
  /\ loop = "live"
  /\ loop' = "gone"
  /\ mem' = [h \in Handlers |-> IF Linked(h) THEN "freed" ELSE mem[h]]
  /\ refs' = {h \in refs : ~Linked(h)}
  /\ links' = << >>
  /\ sources' = {}
  /\ idle' = << >>
  /\ fault' = FaultIf(Dangling({h \in Handlers : Linked(h)}))
  /\ UNCHANGED << made, held, frames, pending, dispatches >>

LoopSteps == IdleCall \/ IdleReturn \/ EventCall \/ EventReturn \/ PassDone

Next ==
  \/ \E h \in Handlers : \/ AddFileDescriptor(h) \/ AddSignal(h) \/ AddIdle(h)
                         \/ AddWithoutRef(h) \/ AddWithoutObject(h)
  \/ DispatchIdle \/ Dispatch
  \/ LoopSteps
  \/ Drop \/ Finalize

\* Handlers return, and the garbage collector gets to a loop that was dropped.
Spec == Init /\ [][Next]_vars /\ WF_vars(LoopSteps) /\ WF_vars(Finalize)

-----------------------------------------------------------------------------
(* Properties. *)

Unmade(moves) == made \cap moves = {}

\* No handler is used after it was freed or freed twice, whatever handlers throw
\* and add and however they nest dispatches, as long as no idle handler dispatches
\* its own loop, whose source is still queued, so that it is run and freed again,
\* and every EventSource can be made.
MemorySafe == Unmade({"nestIdle", "noObject"}) => fault # "memory"

\* A Java handler is kept from the collector exactly as long as its struct
\* lives, and a struct lives as long as a source or the loop can lead to it, under
\* the same conditions.
HandlersOwned ==
  Unmade({"nestIdle", "noObject"}) =>
    /\ refs = {h \in Handlers : mem[h] = "live"}
    /\ sources \subseteq refs
    /\ \A h \in Handlers : Linked(h) <=> h \in refs

\* A loop the application lets go is destroyed by its finalizer, and with it
\* every handler and its hold on the Java object, under the same conditions.
DroppedLoopIsReleased ==
  ~held ~> \/ loop = "gone" /\ refs = {}
           \/ ~Unmade({"nestIdle", "noObject"})
=============================================================================
