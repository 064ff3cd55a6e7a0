------------------------ MODULE NativeObjectWrapper ------------------------
(***************************************************************************)
(* The lifetime of a Java peer of a libwayland server object.              *)
(*                                                                         *)
(* native_object_wrapper.c ties three lives together: the native object    *)
(* (freed by libwayland, its address open to reuse by the next malloc),    *)
(* the Java object (kept by the application's references or by the global  *)
(* reference self_ref, otherwise finalized and then collected) and the     *)
(* struct wl_jni_object_wrapper between them.  wayland-jni.c adds a list   *)
(* of (pointer, weak reference) pairs by which C finds the Java object of  *)
(* a native pointer.                                                       *)
(*                                                                         *)
(* This module has the state and the pieces of code every kind of wrapped  *)
(* object shares; ServerPeers makes a specification out of them.           *)
(***************************************************************************)
EXTENDS Naturals, Sequences

CONSTANTS Natives,   \* native objects, each allocated at most once
          Addrs,     \* addresses malloc can return for one of them
          Peers,     \* Java objects, each constructed at most once
          None,      \* NULL
          Failures   \* the calls allowed to fail

ASSUME WrapperAssumption ==
  /\ None \notin Natives \cup Addrs \cup Peers
  /\ Failures \subseteq {"native", "wrapper", "globalRef"}

VARIABLES
  native,      \* native[n]: "unborn", "live" or "freed"
  addr,        \* addr[n]: the address n was allocated at
  heap,        \* heap[p]: where the garbage collector is with Java object p
  held,        \* the Java objects the application (or a running frame) holds
  data,        \* data[p]: wrapper->data, None when data_ptr is 0 (no wrapper)
  selfRef,     \* the peers whose wrapper->self_ref is a global reference
  listening,   \* listening[p]: the native in whose destroy signal's listener
               \* list wrapper->destroy_listener is linked
  pairs,       \* pairs[a]: the registered peers of address a, newest first
  fault        \* who took memory for a native object it is not, "none" if nobody

wrapperVars == << data, selfRef, listening, pairs >>
vars == << native, addr, heap, held, wrapperVars, fault >>

TypeOK ==
  /\ native \in [Natives -> {"unborn", "live", "freed"}]
  /\ addr \in [Natives -> Addrs \cup {None}]
  /\ heap \in [Peers -> {"unborn", "alive", "finalizing", "finalized",
                         "collected"}]
  /\ held \in SUBSET Peers
  /\ data \in [Peers -> Addrs \cup {None}]
  /\ selfRef \in SUBSET Peers
  /\ listening \in [Peers -> Natives \cup {None}]
  /\ pairs \in [Addrs -> Seq(Peers)]
  /\ fault \in {"none", "app", "finalizer"}

\* JNI_OnLoad leaves ptr_jobject_list empty.
WrapperInit ==
  /\ native = [n \in Natives |-> "unborn"]
  /\ addr = [n \in Natives |-> None]
  /\ heap = [p \in Peers |-> "unborn"]
  /\ held = {}
  /\ data = [p \in Peers |-> None]
  /\ selfRef = {}
  /\ listening = [p \in Peers |-> None]
  /\ pairs = [a \in Addrs |-> << >>]
  /\ fault = "none"

-----------------------------------------------------------------------------
(* Native memory and the Java heap. *)

Live == {n \in Natives : native[n] = "live"}

\* The native object a pointer leads to: empty when the pointer dangles.
At(a) == {n \in Live : addr[n] = a}

\* malloc returns memory no live object occupies.
Allocate(n, a) ==
  /\ native[n] = "unborn"
  /\ At(a) = {}
  /\ native' = [native EXCEPT ![n] = "live"]
  /\ addr' = [addr EXCEPT ![n] = a]

\* No strong path leads to p: neither the application's nor a global reference.
Unreachable(p) == p \notin held /\ p \notin selfRef

-----------------------------------------------------------------------------
(* The registry of wayland-jni.c.  A lookup reads only the pairs of its own *)
(* pointer, and insertion is at the head of the list, so the list is kept   *)
(* as one stack per pointer.  Each function holds object_cache_mutex while  *)
(* it is in the list: it is one step.                                       *)

Register(stack, p) == << p >> \o stack

\* A weak global reference becomes NULL only when the object is reclaimed,
\* which is after its finalizer has completed.
Cleared(p) == heap[p] = "collected"

FindReference(a) ==
  IF pairs[a] # << >> /\ ~Cleared(Head(pairs[a])) THEN Head(pairs[a]) ELSE None

\* A lookup that meets a cleared reference deletes that pair and gives up.
StackAfterFind(a) ==
  IF pairs[a] # << >> /\ Cleared(Head(pairs[a])) THEN Tail(pairs[a]) ELSE pairs[a]

-----------------------------------------------------------------------------
(* The wrapper. *)

\* What NewGlobalRef can return.
GlobalRefResults == IF "globalRef" \in Failures THEN BOOLEAN ELSE {TRUE}

\* wl_jni_object_wrapper_owned never stores its argument destroyed_by_owner
\* and set_data has zeroed the field.
DestroyedByOwner(p) == FALSE

MutOwnWithoutRef(p, n, a, stack, ref) ==
  /\ data' = [data EXCEPT ![p] = a]
  /\ pairs' = [pairs EXCEPT ![a] = Register(stack, p)]
  /\ selfRef' = selfRef
  /\ listening' = [listening EXCEPT ![p] = n]

MutForgetRegistration(p, n, a, stack, ref) ==
  /\ data' = [data EXCEPT ![p] = a]
  /\ pairs' = [pairs EXCEPT ![a] = stack]
  /\ selfRef' = IF ref THEN selfRef \cup {p} ELSE selfRef
  /\ listening' = [listening EXCEPT ![p] = n]

\* wl_jni_object_wrapper_set_data, wl_jni_object_wrapper_owned and the
\* registration of the destroy listener, in the order every caller makes them.
Own(p, n, a, stack, ref) ==
  /\ data' = [data EXCEPT ![p] = a]
  /\ pairs' = [pairs EXCEPT ![a] = Register(stack, p)]
  /\ selfRef' = IF ref THEN selfRef \cup {p} ELSE selfRef
  /\ listening' = [listening EXCEPT ![p] = n]

\* The wrappers native_object_wrapper_destroy_notify disowns when n emits its
\* destroy signal: one without self_ref "exits silently", still linked.
Disowned(n) == {p \in selfRef : listening[p] = n}

MutDieKeepsRef(n) ==
  /\ native' = [native EXCEPT ![n] = "freed"]
  /\ listening' = [p \in Peers |-> IF p \in Disowned(n) THEN None ELSE listening[p]]
  /\ UNCHANGED << data, selfRef, pairs >>

\* n emits its destroy signal and is freed.
Die(n) ==
  /\ native' = [native EXCEPT ![n] = "freed"]
  /\ selfRef' = selfRef \ Disowned(n)
  /\ listening' = [p \in Peers |-> IF p \in Disowned(n) THEN None ELSE listening[p]]
  /\ data' = [p \in Peers |-> IF p \in Disowned(n) /\ DestroyedByOwner(p)
                              THEN None ELSE data[p]]
  /\ UNCHANGED pairs

\* NativeObjectWrapper.destroyNative: an owned wrapper is disowned first,
\* then the wrapper is freed, linked or not.
DestroyWrapper(p) ==
  /\ selfRef' = selfRef \ {p}
  /\ listening' = IF p \in selfRef THEN [listening EXCEPT ![p] = None] ELSE listening
  /\ data' = [data EXCEPT ![p] = None]
  /\ UNCHANGED pairs
=============================================================================
