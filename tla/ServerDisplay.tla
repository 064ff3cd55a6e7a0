--------------------------- MODULE ServerDisplay ---------------------------
(***************************************************************************)
(* org.freedesktop.wayland.server: Display and the Global objects a client *)
(* can bind on it (server/display.c, server/global.c).                     *)
(*                                                                         *)
(* A Display is registered with a strong reference under its pointer, by   *)
(* which C finds it again; a Global has a global reference in its user     *)
(* data.  wl_display_destroy frees the globals of the display without a    *)
(* word to Java.  Display.destroy frees the display first and unregisters  *)
(* its pointer, which malloc may have given out again, afterwards.         *)
(* Display.create checks neither of the two calls it makes.                *)
(*                                                                         *)
(* Each Java object and its native are made together: d and g name both.   *)
(***************************************************************************)
EXTENDS Naturals, Sequences

CONSTANTS Displays,  \* displays, each constructed at most once
          Globals,   \* globals, each constructed at most once
          Addrs,     \* addresses of struct wl_display
          None,      \* NULL
          Moves      \* "noDisplay": wl_display_create may return NULL
                     \* "noPair": wl_jni_register_reference may fail
                     \* "noGlobal": wl_global_create may fail
                     \* "noHandler": new Global(..., null)
                     \* "stale": globals are used after their display
                     \* "again": globals are destroyed twice
                     \* "threads": a display is made while another one dies

ASSUME DisplayAssumption ==
  /\ None \notin Displays \cup Globals \cup Addrs
  /\ Displays \cap Globals = {}
  /\ Moves \subseteq {"noDisplay", "noPair", "noGlobal", "noHandler", "stale",
                     "again", "threads"}

VARIABLES
  display,    \* display[d]: "unborn", "live", "stray" (live, but its constructor
              \* threw), "freed" (not yet unregistered), "destroyed", or "null"
              \* (constructed without a wl_display)
  addr,       \* addr[d]: where the wl_display of d is or was
  registry,   \* registry[a]: the Displays registered for a, newest first
  crossed,    \* history: displays made where a freed one was still registered
  global,     \* global[g]: the wl_global: "unborn", "live" or "freed"
  home,       \* home[g]: the display g was made on
  field,      \* the globals whose global_ptr is not 0
  reference,  \* the globals a global reference keeps
  handler,    \* the globals whose handler is set
  held,       \* the Java objects the application holds
  collected,  \* the Java objects the garbage collector reclaimed
  binding,    \* the global whose bind handler runs, None otherwise
  fault       \* "none", "freed" or "null": the pointer that crashed
globalVars == << global, home, field, reference, handler >>
vars == << display, addr, registry, crossed, globalVars, held, collected,
           binding, fault >>

TypeOK ==
  /\ display \in
       [Displays -> {"unborn", "live", "stray", "freed", "destroyed", "null"}]
  /\ addr \in [Displays -> Addrs \cup {None}]
  /\ registry \in [Addrs \cup {None} -> Seq(Displays)]
  /\ crossed \in SUBSET Displays
  /\ global \in [Globals -> {"unborn", "live", "freed"}]
  /\ home \in [Globals -> Displays \cup {None}]
  /\ field \in SUBSET Globals
  /\ reference \in SUBSET Globals
  /\ handler \in SUBSET Globals
  /\ held \in SUBSET (Displays \cup Globals)
  /\ collected \in SUBSET (Displays \cup Globals)
  /\ binding \in Globals \cup {None}
  /\ fault \in {"none", "freed", "null"}

Init ==
  /\ display = [d \in Displays |-> "unborn"]
  /\ addr = [d \in Displays |-> None]
  /\ registry = [a \in Addrs \cup {None} |-> << >>]
  /\ crossed = {}
  /\ global = [g \in Globals |-> "unborn"]
  /\ home = [g \in Globals |-> None]
  /\ field = {} /\ reference = {} /\ handler = {}
  /\ held = {} /\ collected = {}
  /\ binding = None
  /\ fault = "none"

-----------------------------------------------------------------------------

Running == fault = "none"
Live == {d \in Displays : display[d] = "live"}
\* Displays that have a wl_display, known to the application or not.
Standing == {d \in Displays : display[d] \in {"live", "stray"}}
FreedAt(a) == {d \in Displays : display[d] = "freed" /\ addr[d] = a}
GlobalsOf(d) == {g \in Globals : global[g] = "live" /\ home[g] = d}

\* wl_jni_display_to_java: the first pair with that pointer.
Found(a) == IF registry[a] = << >> THEN None ELSE Head(registry[a])

Fault(kind) ==
  /\ fault' = kind
  /\ UNCHANGED << display, addr, registry, crossed, globalVars, held, collected,
                  binding >>

-----------------------------------------------------------------------------
(* Display. *)

\* wl_display_create: an address nobody has, or NULL.
Allocates(d, a) ==
  /\ display[d] = "unborn"
  /\ IF a = None THEN "noDisplay" \in Moves
                 ELSE \A e \in Standing : addr[e] # a
  /\ "threads" \in Moves \/ \A e \in Displays : display[e] # "freed"
  /\ addr' = [addr EXCEPT ![d] = a]
  /\ crossed' = IF FreedAt(a) # {} THEN crossed \cup {d} ELSE crossed

\* new Display(): wl_display_create, then wl_jni_register_reference, of NULL if
\* need be.
CreateDisplay(d, a) ==
  /\ Running
  /\ Allocates(d, a)
  /\ display' = [display EXCEPT ![d] = IF a = None THEN "null" ELSE "live"]
  /\ registry' = [registry EXCEPT ![a] = << d >> \o @]
  /\ held' = held \cup {d}
  /\ UNCHANGED << globalVars, collected, binding, fault >>

\* The registration throws; create goes on and sets display_ptr before the
\* constructor gives up.
CreateDisplayUnregistered(d, a) ==
  /\ "noPair" \in Moves
  /\ Running
  /\ Allocates(d, a)
  /\ display' = [display EXCEPT ![d] = IF a = None THEN "destroyed" ELSE "stray"]
  /\ UNCHANGED << registry, globalVars, held, collected, binding, fault >>

\* As before, but GetFieldID, called over the exception, returns NULL, and
\* SetLongField uses it.
CreateDisplayCrashes(d) ==
  /\ "noPair" \in Moves
  /\ Running
  /\ display[d] = "unborn"
  /\ Fault("null")

\* No method but destroy and finalize checks display_ptr.
UseDisplayWithoutNative(d) ==
  /\ Running
  /\ d \in held
  /\ d \in Displays
  /\ display[d] = "null"
  /\ Fault("null")

\* Client.getDisplay finds the Display of a pointer.
GetDisplay(d) ==
  /\ Running
  /\ d \in Live
  /\ Found(addr[d]) # None
  /\ held' = held \cup {Found(addr[d])}
  /\ UNCHANGED << display, addr, registry, crossed, globalVars, collected, binding, fault >>

\* wl_display_destroy, which frees the globals of the display.
Frees(d) ==
  /\ display' = [display EXCEPT ![d] = "freed"]
  /\ global' = [g \in Globals |-> IF g \in GlobalsOf(d) THEN "freed" ELSE global[g]]
  /\ UNCHANGED << addr, registry, crossed, home, field, reference, handler, held,
                  collected, binding, fault >>

\* Display.destroy, first half.  Bound: not from a bind handler of this display.
DestroyDisplay(d) ==
  /\ Running
  /\ d \in held \cap Live
  /\ binding \notin {g \in Globals : home[g] = d}
  /\ Frees(d)

MutUnregisterNothing(a) == registry

MutUnregisterAll(a) == [b \in Addrs \cup {None} |-> << >>]

\* wl_jni_unregister_reference removes the first pair with the pointer.
Unregistered(a) ==
  [registry EXCEPT ![a] = IF @ = << >> THEN @ ELSE Tail(@)]

\* Display.destroy, second half; a further call finds display_ptr 0.
Unregister(d) ==
  /\ Running
  /\ display[d] = "freed"
  /\ display' = [display EXCEPT ![d] = "destroyed"]
  /\ registry' = Unregistered(addr[d])
  /\ UNCHANGED << addr, crossed, globalVars, held, collected, binding, fault >>

-----------------------------------------------------------------------------
(* Global. *)

MutCreateGlobalWithoutRef(g, d, set) ==
  /\ Running
  /\ global[g] = "unborn"
  /\ d \in held \cap Live
  /\ global' = [global EXCEPT ![g] = "live"]
  /\ home' = [home EXCEPT ![g] = d]
  /\ field' = field \cup {g}
  /\ handler' = IF set THEN handler \cup {g} ELSE handler
  /\ held' = IF set THEN held \cup {g} ELSE held
  /\ UNCHANGED << display, addr, registry, crossed, reference, collected, binding, fault >>

\* new Global(display, iface, version, handler): createNative has made the
\* global when the constructor throws for a null handler.
CreateGlobal(g, d, set) ==
  /\ Running
  /\ global[g] = "unborn"
  /\ d \in held \cap Live
  /\ set \/ "noHandler" \in Moves
  /\ global' = [global EXCEPT ![g] = "live"]
  /\ home' = [home EXCEPT ![g] = d]
  /\ field' = field \cup {g}
  /\ reference' = reference \cup {g}
  /\ handler' = IF set THEN handler \cup {g} ELSE handler
  /\ held' = IF set THEN held \cup {g} ELSE held
  /\ UNCHANGED << display, addr, registry, crossed, collected, binding, fault >>

\* wl_global_create fails: the reference is deleted, the constructor throws.
CreateGlobalFails(g, d) ==
  /\ "noGlobal" \in Moves
  /\ Running
  /\ global[g] = "unborn"
  /\ d \in held \cap Live
  /\ global' = [global EXCEPT ![g] = "freed"]
  /\ UNCHANGED << display, addr, registry, crossed, home, field, reference, handler,
                  held, collected, binding, fault >>

\* Global.destroy.  DeleteGlobalRef is the operand of the return before it,
\* taken only with an exception pending: the reference stays.
DestroyGlobal(g) ==
  /\ Running
  /\ g \in held \cap field
  /\ global[g] = "live"
  /\ global' = [global EXCEPT ![g] = "freed"]
  /\ field' = field \ {g}
  /\ UNCHANGED << display, addr, registry, crossed, home, reference, handler, held,
                  collected, binding, fault >>

\* global_ptr leads to memory wl_display_destroy has freed.
DestroyFreedGlobal(g) ==
  /\ Running
  /\ g \in held \cap field
  /\ global[g] = "freed"
  /\ "stale" \in Moves \/ display[home[g]] = "live"
  /\ Fault("freed")

\* global_ptr is 0.
DestroyGlobalAgain(g) ==
  /\ "again" \in Moves
  /\ Running
  /\ g \in held \ field
  /\ g \in Globals
  /\ Fault("null")

\* wl_jni_global_bind_func calls Global.bindClient, which runs the handler.
Bind(g) ==
  /\ Running
  /\ binding = None
  /\ global[g] = "live"
  /\ g \in handler
  /\ binding' = g
  /\ held' = held \cup {g}
  /\ UNCHANGED << display, addr, registry, crossed, globalVars, collected, fault >>

\* The handler returns or throws: what it throws is described and cleared.  So
\* is the exception bindClient throws for a global without handler, which
\* changes nothing here: its client goes without its resource.
BindReturns ==
  /\ Running
  /\ binding # None
  /\ binding' = None
  /\ UNCHANGED << display, addr, registry, crossed, globalVars, held, collected, fault >>

-----------------------------------------------------------------------------
(* The Java heap. *)

Drop(x) ==
  /\ Running
  /\ x \in held
  /\ held' = held \ {x}
  /\ UNCHANGED << display, addr, registry, crossed, globalVars, collected, binding, fault >>

\* The Displays in the registry.  Display.finalize runs for none of them.
Registered ==
  UNION {{registry[a][k] : k \in 1..Len(registry[a])} : a \in Addrs \cup {None}}

\* Display.finalize calls destroy: for a display whose constructor threw, or that
\* lost its pair to another, it frees the wl_display.
FinalizeDisplay(d) ==
  /\ Running
  /\ d \in Standing
  /\ d \notin held \cup Registered
  /\ binding \notin {g \in Globals : home[g] = d}
  /\ Frees(d)

\* For the others finalize finds display_ptr 0.
Born(x) == IF x \in Displays THEN display[x] # "unborn" ELSE global[x] # "unborn"
Collect(x) ==
  /\ Running
  /\ Born(x)
  /\ x \notin held \cup reference \cup Registered \cup collected \cup {binding}
  /\ x \in Displays => display[x] = "destroyed"
  /\ collected' = collected \cup {x}
  /\ UNCHANGED << display, addr, registry, crossed, globalVars, held, binding, fault >>

-----------------------------------------------------------------------------

Next ==
  \/ \E d \in Displays, a \in Addrs \cup {None} :
       CreateDisplay(d, a) \/ CreateDisplayUnregistered(d, a)
  \/ \E d \in Displays : CreateDisplayCrashes(d) \/ UseDisplayWithoutNative(d)
  \/ \E d \in Displays : GetDisplay(d) \/ DestroyDisplay(d) \/ Unregister(d)
  \/ \E d \in Displays : FinalizeDisplay(d)
  \/ \E g \in Globals, d \in Displays, set \in BOOLEAN : CreateGlobal(g, d, set)
  \/ \E g \in Globals, d \in Displays : CreateGlobalFails(g, d)
  \/ \E g \in Globals : DestroyGlobal(g) \/ DestroyFreedGlobal(g)
  \/ \E g \in Globals : DestroyGlobalAgain(g)
  \/ \E g \in Globals : Bind(g)
  \/ BindReturns
  \/ \E x \in Displays \cup Globals : Drop(x)
  \/ \E x \in Displays \cup Globals : Collect(x)

\* Display.destroy goes on to its end, the finalizer and the garbage collector run.
Fairness == /\ \A d \in Displays : WF_vars(Unregister(d)) /\ WF_vars(FinalizeDisplay(d))
            /\ \A x \in Displays \cup Globals : WF_vars(Collect(x))

Spec == Init /\ [][Next]_vars /\ Fairness

-----------------------------------------------------------------------------
(* Properties. *)

\* A client that binds a global finds its Java object: it is kept from the
\* collector as long as the global is advertised, also when its display takes it
\* along.  The promise is not prompt: nothing ever deletes the reference.
PinnedGlobal ==
  INSTANCE PinnedPeer WITH
    Peers <- Globals, Prompt <- FALSE, pinned <- reference,
    reclaimed <- collected \cap Globals,
    life <- [g \in Globals |-> IF global[g] = "freed" THEN "ended" ELSE global[g]]

ImplementsPinnedPeer == PinnedGlobal!Spec

\* The pointer of a display the application got leads C to its own Display,
\* whatever addresses are used again and registrations fail, but for one made while
\* the last display at its address was between free and unregister.  What those
\* two do to each other's pairs ends with them: the next display there is found.
DisplayResolves == \A d \in Live \ crossed : Found(addr[d]) = d

\* A display that was destroyed, or whose constructor threw, is found under no
\* pointer and its object is reclaimed once the application lets go of it.  One
\* made without a wl_display is not: destroy does nothing for it, and its strong
\* registration under NULL stays.
Gone(d) == display[d] \in {"stray", "freed", "destroyed"}
DestroyedDisplayIsReclaimed ==
  \A d \in Displays :
    <>[](/\ Gone(d) /\ d \notin held /\ fault = "none"
         /\ \A e \in crossed : addr[e] # addr[d])
      => <>(d \in collected)
=============================================================================
