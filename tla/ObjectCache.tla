---------------------------- MODULE ObjectCache ----------------------------
(***************************************************************************)
(* The JNI object cache of wayland-jni.c and the helpers that read it.     *)
(*                                                                         *)
(* Classes, method IDs and the UTF-8 charset are looked up on first use,   *)
(* under object_cache_mutex behind a flag that is also read without it.    *)
(* A lookup can throw, a NewGlobalRef can return NULL without throwing,    *)
(* and an attempt that fails is repeated, over its own results, by the     *)
(* next call of any thread: the application's or the finalizer's.          *)
(* wl_jni_throw_OutOfMemoryError reads its class with no lock at all, and  *)
(* is itself called with the mutex held.  fixed.c has a cache of its own,  *)
(* without lock or check.                                                  *)
(***************************************************************************)
EXTENDS Naturals, Sequences, FiniteSets

CONSTANTS Threads,
          None,
          Calls,        \* the helpers the threads call
          Moves,        \* what may go wrong
          MaxFailures   \* bound on the attempts to load that fail

\* "lookup": FindClass, GetMethodID, GetFieldID or a JVM call throws.
\* "globalRef": NewGlobalRef returns NULL, throwing nothing.
\* "malloc": malloc returns NULL.  "reorder": a thread that saw the flag
\* without the mutex does not see all that was stored before it (the race on
\* the flag is undefined behaviour; such builds exist, for ARM for one).
\* "overlap": a thread converts a Fixed while another converts the first.
ASSUME CacheAssumption ==
  /\ None \notin Threads
  /\ Calls \subseteq {"OutOfMemory", "NullPointer", "IllegalArgument", "IllegalState",
                      "IO", "Runtime", "fromUtf8", "toUtf8", "toDefault", "unbox",
                      "registry", "fixed"}
  /\ Moves \subseteq {"lookup", "globalRef", "malloc", "reorder", "overlap"}
  /\ MaxFailures \in Nat

VARIABLES
  loaded,     \* jni_object_cache_loaded
  cached,     \* the entries of the cache that are not NULL
  mutex,      \* the thread that holds object_cache_mutex
  fixed,      \* the entries of fixed.c's cache that are not NULL
  pc,         \* pc[t]: where thread t is
  call,       \* call[t]: the helper it runs
  at,         \* at[t]: the entry it loads next, an index of Entries
  pending,    \* the threads with an exception pending
  synced,     \* the threads that have taken the mutex after the cache was loaded
  converted,  \* a string conversion has succeeded
  failures,   \* failed attempts so far (bounded)
  made,       \* which of "globalRef" and "overlap" have happened, and
              \* "fixedLookup": a lookup of fixed.c has thrown (history)
  fault       \* the helper that followed a NULL, "none" if none did

load == << loaded, cached, mutex, synced >>
vars == << load, fixed, pc, call, at, pending, converted, failures, made, fault >>

MutEntries == << "utf8", "OutOfMemoryError", "NullPointerException", "IllegalArgumentException",
                 "IllegalStateException", "RuntimeException", "Integer.intValue",
                 "IOException", "String", "String.<init>", "String.getBytes",
                 "String.getBytes(charset)" >>

\* The cache in the order it is filled.
Entries == << "OutOfMemoryError", "NullPointerException", "IllegalArgumentException",
              "IllegalStateException", "RuntimeException", "Integer.intValue",
              "IOException", "String", "String.<init>", "String.getBytes",
              "String.getBytes(charset)", "utf8" >>

AllEntries == {Entries[i] : i \in DOMAIN Entries}

\* Entries kept through NewGlobalRef: its NULL is silent.  The others are
\* method IDs: their NULL comes with an exception.
References == {"OutOfMemoryError", "NullPointerException", "IllegalArgumentException",
               "IllegalStateException", "RuntimeException", "IOException", "String", "utf8"}

\* fixed.c stores them in this order.
FixedEntries == {"class", "data", "init"}

Conversions == {"fromUtf8", "toUtf8", "toDefault"}

\* The entries a helper hands to JNI.  wl_jni_throw_from_errno is one of the
\* throwers, by its errno; it asks for the cache once more than they do.
Needs(c) ==
  CASE c = "OutOfMemory"     -> {"OutOfMemoryError"}
    [] c = "NullPointer"     -> {"NullPointerException"}
    [] c = "IllegalArgument" -> {"IllegalArgumentException"}
    [] c = "IllegalState"    -> {"IllegalStateException"}
    [] c = "IO"              -> {"IOException"}
    [] c = "Runtime"         -> {"RuntimeException"}
    [] c = "fromUtf8"        -> {"String", "String.<init>", "utf8"}
    [] c = "toUtf8"          -> {"String.getBytes(charset)", "utf8"}
    [] c = "toDefault"       -> {"String.getBytes"}
    [] c = "unbox"           -> {"Integer.intValue"}
    [] OTHER                 -> {}

Steps == {"idle", "test", "check", "lock", "load", "inside", "use", "list", "failed",
          "fixed", "fixedData", "fixedInit", "fixedUse"}

TypeOK ==
  /\ loaded \in BOOLEAN
  /\ cached \in SUBSET AllEntries
  /\ mutex \in Threads \cup {None}
  /\ fixed \in SUBSET FixedEntries
  /\ pc \in [Threads -> Steps]
  /\ call \in [Threads -> Calls \cup {"OutOfMemory", "none"}]
  /\ at \in [Threads -> 1..(Len(Entries) + 1)]
  /\ pending \in SUBSET Threads
  /\ synced \in SUBSET Threads
  /\ converted \in BOOLEAN
  /\ failures \in 0..MaxFailures
  /\ made \subseteq {"globalRef", "overlap", "fixedLookup"}
  /\ fault \in Calls \cup {"OutOfMemory", "none", "stale", "fixed", "fixedClass"}

\* JNI_OnLoad
Init ==
  /\ loaded = FALSE
  /\ cached = {}
  /\ mutex = None
  /\ fixed = {}
  /\ pc = [t \in Threads |-> "idle"]
  /\ call = [t \in Threads |-> "none"]
  /\ at = [t \in Threads |-> 1]
  /\ pending = {}
  /\ synced = {}
  /\ converted = FALSE
  /\ failures = 0
  /\ made = {}
  /\ fault = "none"

Running == fault = "none"

At(t, step) == Running /\ pc[t] = step
Goto(t, step) == pc' = [pc EXCEPT ![t] = step]

\* The helper returns to Java, which sees the pending exception.
Return(t) ==
  /\ Goto(t, "idle")
  /\ call' = [call EXCEPT ![t] = "none"]
  /\ at' = [at EXCEPT ![t] = 1]
  /\ pending' = pending \ {t}

Move(m) == m \in Moves /\ made' = made \cup {m}

\* A failed attempt to load.
AttemptFails == failures < MaxFailures /\ failures' = failures + 1

-----------------------------------------------------------------------------
(* The calls. *)

\* A thread calls a helper.  Integers are unboxed for a message whose
\* signature was converted from Java; the registry of references only takes
\* the mutex.
FirstStep(c) ==
  CASE c = "OutOfMemory" -> "test"
    [] c = "unbox"       -> "use"
    [] c = "registry"    -> "list"
    [] c = "fixed"       -> "fixed"
    [] OTHER             -> "check"

Call(t, c) ==
  /\ At(t, "idle")
  /\ c = "unbox" => converted
  /\ call' = [call EXCEPT ![t] = c]
  /\ Goto(t, FirstStep(c))
  /\ UNCHANGED << load, fixed, at, pending, converted, failures, made, fault >>

\* malloc fails in a conversion to C or in a registration: OutOfMemoryError is
\* to be thrown.
MallocFails(t) ==
  /\ \/ At(t, "use") /\ call[t] \in {"toUtf8", "toDefault"} /\ Needs(call[t]) \subseteq cached
     \/ At(t, "list")
  /\ "malloc" \in Moves
  /\ call' = [call EXCEPT ![t] = "OutOfMemory"]
  /\ Goto(t, "test")
  /\ UNCHANGED << load, fixed, at, pending, converted, failures, made, fault >>

\* wl_jni_throw_OutOfMemoryError looks at the class before anything else.
TestClass(t) ==
  /\ At(t, "test")
  /\ Goto(t, IF "OutOfMemoryError" \in cached THEN "use" ELSE "check")
  /\ UNCHANGED << load, fixed, call, at, pending, converted, failures, made, fault >>

\* The call is over: the helper hands its entries to JNI, which throws or
\* converts, unless one of them is NULL.
Use(t) ==
  /\ At(t, "use")
  /\ \/ /\ Needs(call[t]) \subseteq cached
        /\ Return(t)
        /\ converted' = (converted \/ call[t] \in Conversions)
        /\ UNCHANGED fault
     \/ /\ ~(Needs(call[t]) \subseteq cached)
        /\ fault' = call[t]
        /\ UNCHANGED << pc, call, at, pending, converted >>
  /\ UNCHANGED << load, fixed, failures, made >>

\* The JVM throws instead of converting.
UseThrows(t) ==
  /\ At(t, "use")
  /\ call[t] \in Conversions
  /\ Needs(call[t]) \subseteq cached
  /\ "lookup" \in Moves
  /\ Return(t)
  /\ UNCHANGED << load, fixed, converted, failures, made, fault >>

\* An entry stored before the flag is read as NULL.
UseStale(t) ==
  /\ At(t, "use")
  /\ loaded
  /\ t \notin synced
  /\ Needs(call[t]) # {}
  /\ "reorder" \in Moves
  /\ fault' = "stale"
  /\ UNCHANGED << load, fixed, pc, call, at, pending, converted, failures, made >>

\* wl_jni_register_weak_reference, wl_jni_find_reference and
\* wl_jni_unregister_reference, with the mutex.
List(t) ==
  /\ At(t, "list")
  /\ mutex = None
  /\ Return(t)
  /\ synced' = IF loaded THEN synced \cup {t} ELSE synced
  /\ UNCHANGED << loaded, cached, mutex, fixed, converted, failures, made, fault >>

\* "return NULL; /* Exception Thrown */"
ReturnFailed(t) ==
  /\ At(t, "failed")
  /\ Return(t)
  /\ UNCHANGED << load, fixed, converted, failures, made, fault >>

-----------------------------------------------------------------------------
(* wl_jni_ensure_object_cache *)

\* The flag is read without the mutex.
CheckFlag(t) ==
  /\ At(t, "check")
  /\ Goto(t, IF loaded THEN "use" ELSE "lock")
  /\ UNCHANGED << load, fixed, call, at, pending, converted, failures, made, fault >>

MutLockWithoutRecheck(t) ==
  /\ At(t, "lock")
  /\ mutex = None
  /\ mutex' = t
  /\ Goto(t, "load")
  /\ at' = [at EXCEPT ![t] = 1]
  /\ UNCHANGED << loaded, cached, synced, fixed, call, pending, converted, failures, made, fault >>

MutLockPublishes(t) ==
  /\ At(t, "lock")
  /\ mutex = None
  /\ loaded' = TRUE
  /\ \/ /\ loaded
        /\ Goto(t, "use")
        /\ synced' = synced \cup {t}
        /\ UNCHANGED << mutex, at >>
     \/ /\ ~loaded
        /\ mutex' = t
        /\ Goto(t, "load")
        /\ at' = [at EXCEPT ![t] = 1]
        /\ UNCHANGED synced
  /\ UNCHANGED << cached, fixed, call, pending, converted, failures, made, fault >>

\* With the mutex it is read again: "Don't load it twice".
Lock(t) ==
  /\ At(t, "lock")
  /\ mutex = None
  /\ \/ /\ loaded
        /\ Goto(t, "use")
        /\ synced' = synced \cup {t}
        /\ UNCHANGED << mutex, at >>
     \/ /\ ~loaded
        /\ mutex' = t
        /\ Goto(t, "load")
        /\ at' = [at EXCEPT ![t] = 1]
        /\ UNCHANGED synced
  /\ UNCHANGED << loaded, cached, fixed, call, pending, converted, failures, made, fault >>

\* The next entry is stored, over that of an earlier attempt.
LoadEntry(t) ==
  /\ At(t, "load")
  /\ at[t] \in DOMAIN Entries
  /\ cached' = cached \cup {Entries[at[t]]}
  /\ at' = [at EXCEPT ![t] = @ + 1]
  /\ UNCHANGED << loaded, mutex, synced, fixed, pc, call, pending, converted, failures,
                  made, fault >>

\* The lookup of an entry throws: "goto exception".  FindClass leaves the
\* entry alone, GetMethodID returns the NULL that is stored.
LoadThrows(t) ==
  /\ At(t, "load")
  /\ at[t] \in DOMAIN Entries
  /\ "lookup" \in Moves /\ AttemptFails
  /\ \/ UNCHANGED cached
     \/ Entries[at[t]] \notin References /\ cached' = cached \ {Entries[at[t]]}
  /\ pending' = pending \cup {t}
  /\ mutex' = None
  /\ Goto(t, "failed")
  /\ UNCHANGED << loaded, synced, fixed, call, at, converted, made, fault >>

MutLoadSilent(t) ==
  /\ At(t, "load")
  /\ at[t] \in DOMAIN Entries
  /\ Entries[at[t]] \in References
  /\ Move("globalRef") /\ AttemptFails
  /\ cached' = cached \ {Entries[at[t]]}
  /\ Goto(t, "failed")
  /\ mutex' = None
  /\ UNCHANGED << loaded, synced, fixed, call, at, pending, converted, fault >>

\* NewGlobalRef returns NULL: "goto exception", with none pending.  Only the
\* charset's failure is thrown, before the mutex is released.
LoadSilent(t) ==
  /\ At(t, "load")
  /\ at[t] \in DOMAIN Entries
  /\ Entries[at[t]] \in References
  /\ Move("globalRef") /\ AttemptFails
  /\ cached' = cached \ {Entries[at[t]]}
  /\ \/ Entries[at[t]] = "utf8" /\ Goto(t, "inside") /\ UNCHANGED mutex
     \/ Entries[at[t]] # "utf8" /\ Goto(t, "failed") /\ mutex' = None
  /\ UNCHANGED << loaded, synced, fixed, call, at, pending, converted, fault >>

\* wl_jni_throw_OutOfMemoryError under the mutex: without the class it would
\* load the cache, and wait for the mutex it holds.
ThrowInside(t) ==
  /\ At(t, "inside")
  /\ IF "OutOfMemoryError" \in cached
     THEN /\ pending' = pending \cup {t}
          /\ mutex' = None
          /\ Goto(t, "failed")
     ELSE /\ Goto(t, "lock")
          /\ UNCHANGED << pending, mutex >>
  /\ UNCHANGED << loaded, cached, synced, fixed, call, at, converted, failures, made, fault >>

\* Everything is stored: the flag is set and the mutex released.
Publish(t) ==
  /\ At(t, "load")
  /\ at[t] \notin DOMAIN Entries
  /\ loaded' = TRUE
  /\ mutex' = None
  /\ synced' = synced \cup {t}
  /\ Goto(t, "use")
  /\ UNCHANGED << cached, fixed, call, at, pending, converted, failures, made, fault >>

-----------------------------------------------------------------------------
(* The cache of fixed.c. *)

ConvertingFixed == {t \in Threads : pc[t] \in {"fixed", "fixedData", "fixedInit", "fixedUse"}}

\* ensure_object_cache asks for the class only, and stores it first.
FixedClass(t) ==
  /\ At(t, "fixed")
  /\ IF ConvertingFixed # {t} /\ "init" \notin fixed THEN Move("overlap") ELSE UNCHANGED made
  /\ \/ "class" \in fixed /\ Goto(t, "fixedUse") /\ UNCHANGED fixed
     \/ "class" \notin fixed /\ Goto(t, "fixedData") /\ fixed' = fixed \cup {"class"}
  /\ UNCHANGED << load, call, at, pending, converted, failures, fault >>

\* FindClass throws or NewGlobalRef fails: GetFieldID gets a NULL class.
FixedClassFails(t) ==
  /\ At(t, "fixed")
  /\ "class" \notin fixed
  /\ {"lookup", "globalRef"} \cap Moves # {}
  /\ fault' = "fixedClass"
  /\ UNCHANGED << load, fixed, pc, call, at, pending, converted, failures, made >>

FixedData(t) ==
  /\ At(t, "fixedData")
  /\ fixed' = fixed \cup {"data"}
  /\ Goto(t, "fixedInit")
  /\ UNCHANGED << load, call, at, pending, converted, failures, made, fault >>

FixedInit(t) ==
  /\ At(t, "fixedInit")
  /\ fixed' = fixed \cup {"init"}
  /\ Goto(t, "fixedUse")
  /\ UNCHANGED << load, call, at, pending, converted, failures, made, fault >>

\* The lookup after the class throws: NULL is stored, the class stays, and the
\* thread goes on.  No later call looks it up again.
FixedThrows(t, entry) ==
  /\ "lookup" \in Moves
  /\ fixed' = fixed \ {entry}
  /\ pending' = pending \cup {t}
  /\ made' = made \cup {"fixedLookup"}
  /\ UNCHANGED << load, call, at, converted, failures, fault >>

FixedDataThrows(t) ==
  /\ At(t, "fixedData")
  /\ FixedThrows(t, "data")
  /\ Goto(t, "fixedInit")

FixedInitThrows(t) ==
  /\ At(t, "fixedInit")
  /\ FixedThrows(t, "init")
  /\ Goto(t, "fixedUse")

\* wl_jni_fixed_from_java reads the field, wl_jni_fixed_to_java constructs.
FixedUse(t) ==
  /\ At(t, "fixedUse")
  /\ \E entry \in {"data", "init"} :
       \/ entry \in fixed /\ Return(t) /\ UNCHANGED fault
       \/ entry \notin fixed /\ fault' = "fixed" /\ UNCHANGED << pc, call, at, pending >>
  /\ UNCHANGED << load, fixed, converted, failures, made >>

-----------------------------------------------------------------------------

Helper(t) ==
  \/ MallocFails(t) \/ TestClass(t) \/ Use(t) \/ UseThrows(t) \/ UseStale(t)
  \/ List(t) \/ ReturnFailed(t)

Ensure(t) ==
  \/ CheckFlag(t) \/ Lock(t) \/ LoadEntry(t) \/ LoadThrows(t) \/ LoadSilent(t)
  \/ ThrowInside(t) \/ Publish(t)

FixedConversion(t) ==
  \/ FixedClass(t) \/ FixedClassFails(t)
  \/ FixedData(t) \/ FixedDataThrows(t) \/ FixedInit(t) \/ FixedInitThrows(t)
  \/ FixedUse(t)

Step(t) == Helper(t) \/ Ensure(t) \/ FixedConversion(t)

Next ==
  \/ \E t \in Threads, c \in Calls : Call(t, c)
  \/ \E t \in Threads : Step(t)

\* A thread in a helper goes on running.
Spec == Init /\ [][Next]_vars /\ \A t \in Threads : WF_vars(Step(t))

-----------------------------------------------------------------------------
(* Properties. *)

\* No helper hands JNI a NULL class or method ID, but for: OutOfMemoryError
\* thrown while another thread's repeated attempt fails to keep its class; the
\* first Fixed converted by two threads or without its class; any Fixed after a
\* lookup of the first has thrown; and stores seen after the flag.
UsesLoaded ==
  \/ fault \in {"none", "stale", "fixedClass"}
  \/ fault = "OutOfMemory" /\ "globalRef" \in made
  \/ fault = "fixed" /\ made \cap {"overlap", "fixedLookup"} # {}

\* A helper that gives up leaves an exception for its caller to find, unless
\* NewGlobalRef returned NULL for another entry than the charset.
FailureIsReported ==
  \A t \in Threads :
    pc[t] = "failed" =>
      \/ t \in pending
      \/ "globalRef" \in made /\ at[t] # Len(Entries)

\* Every call returns: in particular, throwing OutOfMemoryError with the mutex
\* held does not ask for the mutex, and an attempt that fails releases it.
CallsReturn ==
  \A t \in Threads : pc[t] # "idle" ~> pc[t] = "idle" \/ ~Running

\* Once the flag is set no thread touches the cache: entries may be read
\* without the mutex.
StableOnceLoaded == [][loaded => loaded' /\ cached' = cached]_vars
=============================================================================
