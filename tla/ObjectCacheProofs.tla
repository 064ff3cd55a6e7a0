------------------------- MODULE ObjectCacheProofs -------------------------
(***************************************************************************)
(* Proofs that the invariant of the object cache is inductive, for every   *)
(* set of threads, every choice of helpers and failures, and any number of *)
(* attempts to load; and that the filled cache is never written again.     *)
(***************************************************************************)
EXTENDS ObjectCache, TLAPS

-----------------------------------------------------------------------------
(* The inductive invariant. *)

\* One thread loads at a time: the one that holds the mutex.
LoaderHoldsMutex ==
  \A t \in Threads : pc[t] \in {"load", "inside"} <=> mutex = t

\* Loading has not been finished before, and what precedes the entry at hand
\* is stored: OutOfMemoryError, the first, when the last one fails.
LoadsInOrder ==
  \A t \in Threads :
    mutex = t => /\ ~loaded
                 /\ \A i \in 1..(at[t] - 1) : Entries[i] \in cached
                 /\ pc[t] = "inside" => at[t] = Len(Entries)

\* The flag tells the truth, and a string is converted only after it is set.
FlagIsTrue ==
  /\ loaded => cached = AllEntries
  /\ converted => loaded

\* Who is about to read an entry has found the flag set, or the class of
\* OutOfMemoryError, which goes only when NewGlobalRef fails.
UserHasChecked ==
  \A t \in Threads :
    /\ pc[t] = "test" => call[t] = "OutOfMemory"
    /\ pc[t] = "use" => \/ loaded
                        \/ call[t] = "OutOfMemory" /\ ("OutOfMemoryError" \in cached
                                                       \/ "globalRef" \in made)

\* A thread in fixed.c past its check finds the entries, unless two threads
\* overlap or a lookup has thrown.
FixedInOrder ==
  /\ \A t \in Threads : pc[t] = "fixedData" => "class" \in fixed
  /\ "fixedLookup" \notin made =>
       /\ "init" \in fixed => "data" \in fixed
       /\ \A t \in Threads :
            /\ pc[t] = "fixedInit" => "data" \in fixed
            /\ pc[t] = "fixedUse" => {"data", "init"} \subseteq fixed \/ "overlap" \in made
       /\ "class" \in fixed /\ ~({"data", "init"} \subseteq fixed) =>
            \E t \in Threads : pc[t] \in {"fixedData", "fixedInit"}

IInv ==
  /\ TypeOK
  /\ LoaderHoldsMutex
  /\ LoadsInOrder
  /\ FlagIsTrue
  /\ UserHasChecked
  /\ FixedInOrder
  /\ UsesLoaded
  /\ FailureIsReported

USE CacheAssumption

-----------------------------------------------------------------------------
(* The order of the entries. *)

\* OutOfMemoryError comes first and the charset last.
LEMMA EntriesOrder ==
  /\ Len(Entries) = 12
  /\ DOMAIN Entries = 1..12
  /\ Entries[1] = "OutOfMemoryError"
  /\ Entries[12] = "utf8"
  /\ \A i \in 1..11 : Entries[i] # "utf8"
  /\ \A i \in 2..12 : Entries[i] # "OutOfMemoryError"
BY DEF Entries

\* Every entry is one of AllEntries.
LEMMA EntriesRange ==
  /\ \A i \in 1..12 : Entries[i] \in AllEntries
  /\ \A e \in AllEntries : \E i \in 1..12 : Entries[i] = e
BY EntriesOrder DEF AllEntries

\* OutOfMemoryError is kept by reference.
LEMMA OutOfMemoryIsReference == "OutOfMemoryError" \in References
BY DEF References

\* What a helper needs is in the full cache.
LEMMA NeedsAreEntries ==
  /\ \A c \in Calls \cup {"OutOfMemory", "none"} : Needs(c) \subseteq AllEntries
  /\ Needs("OutOfMemory") = {"OutOfMemoryError"}
BY DEF Needs, AllEntries, Entries

-----------------------------------------------------------------------------
(* The inductive invariant. *)

\* When the library is loaded nothing is cached and nobody has asked.
LEMMA InitIInv == Init => IInv
<1> SUFFICES ASSUME Init PROVE IInv
  OBVIOUS
<1>1. TypeOK
  <2>1. /\ pc \in [Threads -> Steps] /\ call \in [Threads -> Calls \cup {"OutOfMemory", "none"}]
        /\ at \in [Threads -> 1..(Len(Entries) + 1)]
    BY EntriesOrder DEF Init, Steps
  <2>2. /\ fault \in Calls \cup {"OutOfMemory", "none", "stale", "fixed", "fixedClass"}
        /\ failures \in 0..MaxFailures
    BY DEF Init
  <2> QED
    BY <2>1, <2>2 DEF Init, TypeOK
<1>2. \A t \in Threads : mutex # t /\ pc[t] = "idle"
  BY DEF Init
<1> QED
  BY <1>1, <1>2
  DEF Init, IInv, LoaderHoldsMutex, LoadsInOrder, FlagIsTrue, UserHasChecked, FixedInOrder,
      UsesLoaded, FailureIsReported

\* A call is entered.
LEMMA CallIInv == ASSUME IInv, NEW t \in Threads, NEW c \in Calls, Call(t, c) PROVE IInv'
<1>1. /\ FirstStep(c) \in {"test", "use", "list", "fixed", "check"}
      /\ FirstStep(c) = "use" => loaded
      /\ FirstStep(c) = "test" => c = "OutOfMemory"
  BY DEF FirstStep, Call, IInv, FlagIsTrue
<1> QED
  BY <1>1, EntriesOrder
  DEF Call, IInv, At, Goto, load, TypeOK, LoaderHoldsMutex, LoadsInOrder, FlagIsTrue,
      UserHasChecked, FixedInOrder, UsesLoaded, FailureIsReported, Steps

\* A helper whose entries are cached returns; another follows a NULL, which
\* only OutOfMemoryError's can be.
LEMMA UseIInv == ASSUME IInv, NEW t \in Threads, Use(t) PROVE IInv'
<1> USE DEF IInv, At, Goto, Return, load
<1>1. CASE Needs(call[t]) \subseteq cached
  <2>1. converted' \in BOOLEAN /\ (converted' => loaded)
    <3>1. CASE call[t] \in Conversions
      <4>1. loaded
        BY <3>1 DEF Use, UserHasChecked, Conversions
      <4> QED
        BY <1>1, <4>1 DEF Use, TypeOK
    <3>2. CASE call[t] \notin Conversions
      BY <1>1, <3>2 DEF Use, TypeOK, FlagIsTrue
    <3> QED
      BY <3>1, <3>2
  <2>2. /\ pc' = [pc EXCEPT ![t] = "idle"] /\ call' = [call EXCEPT ![t] = "none"]
        /\ at' = [at EXCEPT ![t] = 1] /\ pending' = pending \ {t}
        /\ pc[t] = "use"
        /\ UNCHANGED << loaded, cached, mutex, synced, fixed, failures, made, fault >>
    BY <1>1 DEF Use
  <2> HIDE DEF Return, At, Goto
  <2> QED
    BY <2>1, <2>2, EntriesOrder
    DEF TypeOK, LoaderHoldsMutex, LoadsInOrder, FlagIsTrue, UserHasChecked, FixedInOrder,
        UsesLoaded, FailureIsReported, Steps
<1>2. CASE ~(Needs(call[t]) \subseteq cached)
  <2>1. ~loaded
    BY <1>2, NeedsAreEntries DEF TypeOK, FlagIsTrue
  <2>2. fault' = "OutOfMemory" /\ "globalRef" \in made
    BY <1>2, <2>1, NeedsAreEntries DEF Use, UserHasChecked
  <2>3. UNCHANGED << loaded, cached, mutex, synced, fixed, pc, call, at, pending, converted,
                     failures, made >>
    BY <1>2 DEF Use
  <2> QED
    BY <2>2, <2>3
    DEF TypeOK, LoaderHoldsMutex, LoadsInOrder, FlagIsTrue, UserHasChecked, FixedInOrder,
        UsesLoaded, FailureIsReported
<1> QED
  BY <1>1, <1>2

\* The other steps of the helpers leave the cache alone.
LEMMA HelperIInv == ASSUME IInv, NEW t \in Threads, Helper(t) PROVE IInv'
<1> USE EntriesOrder
    DEF IInv, At, Goto, Return, load, TypeOK, LoaderHoldsMutex, LoadsInOrder, FlagIsTrue,
        UserHasChecked, FixedInOrder, UsesLoaded, FailureIsReported, Steps
<1>1. CASE MallocFails(t)
  BY <1>1 DEF MallocFails
<1>2. CASE TestClass(t)
  <2>1. /\ pc[t] = "test"
        /\ \/ pc' = [pc EXCEPT ![t] = "use"] /\ "OutOfMemoryError" \in cached
           \/ pc' = [pc EXCEPT ![t] = "check"]
        /\ UNCHANGED << load, fixed, call, at, pending, converted, failures, made, fault >>
    BY <1>2 DEF TestClass
  <2>2. call[t] = "OutOfMemory"
    BY <2>1
  <2> QED
    BY <2>1, <2>2
<1>3. CASE Use(t)
  BY <1>3, UseIInv
<1>4. CASE UseThrows(t)
  BY <1>4 DEF UseThrows
<1>5. CASE UseStale(t)
  BY <1>5 DEF UseStale
<1>6. CASE List(t)
  BY <1>6 DEF List
<1>7. CASE ReturnFailed(t)
  BY <1>7 DEF ReturnFailed
<1> QED
  BY <1>1, <1>2, <1>3, <1>4, <1>5, <1>6, <1>7 DEF Helper

\* The steps of wl_jni_ensure_object_cache.
LEMMA EnsureIInv == ASSUME IInv, NEW t \in Threads, Ensure(t) PROVE IInv'
<1> USE EntriesOrder
    DEF IInv, At, Goto, load, TypeOK, LoaderHoldsMutex, LoadsInOrder, FlagIsTrue,
        UserHasChecked, FixedInOrder, UsesLoaded, FailureIsReported, Steps
<1>1. CASE CheckFlag(t)
  BY <1>1 DEF CheckFlag
<1>2. CASE Lock(t)
  BY <1>2 DEF Lock
<1>3. CASE LoadEntry(t)
  BY <1>3, EntriesRange DEF LoadEntry
<1>4. CASE LoadThrows(t)
  BY <1>4, OutOfMemoryIsReference DEF LoadThrows, AttemptFails
<1>5. CASE LoadSilent(t)
  BY <1>5 DEF LoadSilent, AttemptFails, Move
<1>6. CASE ThrowInside(t)
  BY <1>6 DEF ThrowInside
<1>7. CASE Publish(t)
  <2>1. /\ pc[t] = "load" /\ mutex = t /\ at[t] \in 1..13 /\ at[t] \notin 1..12
        /\ loaded' = TRUE /\ mutex' = None /\ synced' = synced \cup {t}
        /\ pc' = [pc EXCEPT ![t] = "use"]
    BY <1>7 DEF Publish
  <2>2. UNCHANGED << cached, fixed, call, at, pending, converted, failures, made, fault >>
    BY <1>7 DEF Publish
  <2>3. at[t] = 13
    BY <2>1
  <2>4. \A i \in 1..12 : Entries[i] \in cached
    BY <2>1, <2>3
  <2>5. cached = AllEntries
    BY <2>4, EntriesRange
  <2>6. TypeOK' /\ LoaderHoldsMutex'
    BY <2>1, <2>2
  <2>7. LoadsInOrder' /\ FlagIsTrue' /\ UserHasChecked' /\ FixedInOrder'
    BY <2>1, <2>2, <2>5
  <2>8. UsesLoaded' /\ FailureIsReported'
    BY <2>1, <2>2
  <2> QED
    BY <2>6, <2>7, <2>8
<1> QED
  BY <1>1, <1>2, <1>3, <1>4, <1>5, <1>6, <1>7 DEF Ensure

\* The steps of fixed.c.
LEMMA FixedIInv == ASSUME IInv, NEW t \in Threads, FixedConversion(t) PROVE IInv'
<1> USE EntriesOrder
    DEF IInv, At, Goto, Return, load, TypeOK, LoaderHoldsMutex, LoadsInOrder, FlagIsTrue,
        UserHasChecked, FixedInOrder, UsesLoaded, FailureIsReported, Steps
<1>1. CASE FixedClass(t)
  <2>1. UNCHANGED << loaded, cached, mutex, synced, call, at, pending, converted, failures, fault >>
    BY <1>1 DEF FixedClass
  <2>2. made' \in {made, made \cup {"overlap"}} /\ pc[t] = "fixed"
    BY <1>1 DEF FixedClass, Move
  <2>3. CASE "class" \in fixed
    <3>1. pc' = [pc EXCEPT ![t] = "fixedUse"] /\ fixed' = fixed
      BY <1>1, <2>3 DEF FixedClass
    <3>2. \/ {"data", "init"} \subseteq fixed
          \/ made' \cap {"overlap", "fixedLookup"} # {}
      <4> SUFFICES ASSUME ~({"data", "init"} \subseteq fixed), "fixedLookup" \notin made
                   PROVE  "overlap" \in made'
        BY <2>2
      <4>1. PICK u \in Threads : pc[u] \in {"fixedData", "fixedInit"}
        BY <2>3
      <4>2. u # t /\ u \in ConvertingFixed /\ "init" \notin fixed
        BY <2>2, <4>1 DEF ConvertingFixed
      <4> QED
        BY <1>1, <4>2 DEF FixedClass, Move
    <3> QED
      BY <2>1, <2>2, <2>3, <3>1, <3>2
  <2>4. CASE "class" \notin fixed
    <3>1. pc' = [pc EXCEPT ![t] = "fixedData"] /\ fixed' = fixed \cup {"class"}
      BY <1>1, <2>4 DEF FixedClass
    <3> QED
      BY <2>1, <2>2, <2>4, <3>1 DEF FixedEntries
  <2> QED
    BY <2>3, <2>4
<1>2. CASE FixedClassFails(t)
  BY <1>2 DEF FixedClassFails
<1>3. CASE FixedData(t)
  BY <1>3 DEF FixedData, FixedEntries
<1>4. CASE FixedInit(t)
  BY <1>4 DEF FixedInit, FixedEntries
<1>5. CASE FixedDataThrows(t) \/ FixedInitThrows(t)
  <2>1. /\ UNCHANGED << loaded, cached, mutex, synced, call, at, converted, failures, fault >>
        /\ made' = made \cup {"fixedLookup"} /\ pending' = pending \cup {t}
    BY <1>5 DEF FixedDataThrows, FixedInitThrows, FixedThrows
  <2>2. PICK entry \in {"data", "init"} : fixed' = fixed \ {entry}
    BY <1>5 DEF FixedDataThrows, FixedInitThrows, FixedThrows
  <2>3. PICK step \in {"fixedInit", "fixedUse"} :
          pc' = [pc EXCEPT ![t] = step] /\ pc[t] \in {"fixedData", "fixedInit"}
    BY <1>5 DEF FixedDataThrows, FixedInitThrows
  <2>4. TypeOK'
    BY <2>1, <2>2, <2>3
  <2>5. LoaderHoldsMutex' /\ LoadsInOrder' /\ FlagIsTrue' /\ UserHasChecked'
    BY <2>1, <2>3
  <2>6. \A u \in Threads : pc'[u] = "fixedData" => pc[u] = "fixedData" /\ "class" \in fixed
    BY <2>3
  <2>7. FixedInOrder'
    BY <2>1, <2>2, <2>6
  <2>8. UsesLoaded' /\ FailureIsReported'
    BY <2>1, <2>3
  <2> QED
    BY <2>4, <2>5, <2>7, <2>8
<1>6. CASE FixedUse(t)
  <2>1. PICK entry \in {"data", "init"} :
          \/ entry \in fixed /\ Return(t) /\ UNCHANGED fault
          \/ entry \notin fixed /\ fault' = "fixed" /\ UNCHANGED << pc, call, at, pending >>
    BY <1>6 DEF FixedUse
  <2>2. pc[t] = "fixedUse" /\ UNCHANGED << load, fixed, converted, failures, made >>
    BY <1>6 DEF FixedUse
  <2>3. CASE entry \in fixed
    BY <2>1, <2>2, <2>3
  <2>4. CASE entry \notin fixed
    <3>1. made \cap {"overlap", "fixedLookup"} # {}
      BY <2>2, <2>4
    <3> QED
      BY <2>1, <2>2, <2>4, <3>1
  <2> QED
    BY <2>3, <2>4
<1> QED
  BY <1>1, <1>2, <1>3, <1>4, <1>5, <1>6 DEF FixedConversion

\* Every step preserves the invariant.
LEMMA NextIInv == IInv /\ [Next]_vars => IInv'
<1> SUFFICES ASSUME IInv, [Next]_vars PROVE IInv'
  OBVIOUS
<1>1. CASE UNCHANGED vars
  BY <1>1 DEF vars, load, IInv, TypeOK, LoaderHoldsMutex, LoadsInOrder, FlagIsTrue,
              UserHasChecked, FixedInOrder, UsesLoaded, FailureIsReported
<1> QED
  BY <1>1, CallIInv, HelperIInv, EnsureIInv, FixedIInv DEF Next, Step

\* The invariant holds in every reachable state.
THEOREM Inductive == Spec => []IInv
BY InitIInv, NextIInv, PTL DEF Spec

-----------------------------------------------------------------------------
(* What it gives. *)

\* No helper hands JNI a NULL it has not been warned of: whatever fails, in
\* whatever order the threads run.
THEOREM CacheIsLoadedWhenUsed == Spec => []UsesLoaded
<1>1. IInv => UsesLoaded
  BY DEF IInv
<1> QED
  BY <1>1, Inductive, PTL

\* A helper that gives up leaves an exception, unless a NewGlobalRef failed.
THEOREM FailuresReachJava == Spec => []FailureIsReported
<1>1. IInv => FailureIsReported
  BY DEF IInv
<1> QED
  BY <1>1, Inductive, PTL

\* A thread that takes the mutex does not hold it.
NoSelfWait == \A t \in Threads : pc[t] \in {"lock", "list"} => mutex # t

\* No thread waits for the mutex it holds, throwing inside included.
THEOREM NobodyWaitsForItself == Spec => []NoSelfWait
<1>1. IInv => NoSelfWait
  BY DEF IInv, TypeOK, LoaderHoldsMutex, NoSelfWait
<1> QED
  BY <1>1, Inductive, PTL

\* Once the flag is set no thread writes an entry or clears the flag.
THEOREM CacheIsStable == Spec => StableOnceLoaded
<1>1. IInv /\ [Next]_vars => [loaded => loaded' /\ cached' = cached]_vars
  <2> SUFFICES ASSUME IInv, Next, loaded PROVE loaded' /\ cached' = cached
    BY DEF vars
  <2> USE DEF load
  <2>1. mutex \notin Threads
    BY DEF IInv, LoadsInOrder
  <2>2. \A t \in Threads : pc[t] \notin {"load", "inside"}
    BY <2>1 DEF IInv, LoaderHoldsMutex
  <2>3. ASSUME NEW t \in Threads, NEW c \in Calls, Call(t, c)
        PROVE  loaded' /\ cached' = cached
    BY <2>3 DEF Call
  <2>4. ASSUME NEW t \in Threads, Helper(t) PROVE loaded' /\ cached' = cached
    BY <2>4 DEF Helper, MallocFails, TestClass, Use, UseThrows, UseStale, List, ReturnFailed
  <2>5. ASSUME NEW t \in Threads, Ensure(t) PROVE loaded' /\ cached' = cached
    BY <2>2, <2>5 DEF Ensure, CheckFlag, Lock, LoadEntry, LoadThrows, LoadSilent, ThrowInside,
                      Publish, At
  <2>6. ASSUME NEW t \in Threads, FixedConversion(t) PROVE loaded' /\ cached' = cached
    BY <2>6 DEF FixedConversion, FixedClass, FixedClassFails, FixedData, FixedInit, FixedUse,
                     FixedDataThrows, FixedInitThrows, FixedThrows
  <2> QED
    BY <2>3, <2>4, <2>5, <2>6 DEF Next, Step
<1> QED
  BY <1>1, Inductive, PTL DEF Spec, StableOnceLoaded
=============================================================================
