----------------------- MODULE ServerEventLoopProofs ------------------------
(***************************************************************************)
(* Proofs about the two users of wl_list.  ServerEventLoop: for any number *)
(* of handlers, and dispatches nested to any depth, handlers are freed     *)
(* once and owned while they live, as long as no idle handler dispatches   *)
(* its own loop.  DestroyListener, in the second half: for any number of   *)
(* objects and listeners, and walks nested to any depth, no walk follows a *)
(* freed node, and every step is one that OneShotListener allows.          *)
(***************************************************************************)
EXTENDS ServerEventLoop, DestroyListener, SequenceTheorems, TLAPS

-----------------------------------------------------------------------------
(* The inductive invariant. *)

\* A handler not added yet is nowhere.
UnbornIsBlank ==
  \A h \in Handlers : mem[h] = "unborn" =>
    /\ h \notin refs /\ h \notin sources 
    /\ ~Linked(h) /\ ~In(h, idle)
    /\ \A i \in DOMAIN frames : h \notin frames[i].ready

\* Idle handlers run from the idle list only, and nothing else does.
PassesMatchKinds ==
  \A i \in DOMAIN frames :
    /\ frames[i].pass = "idle" =>
         /\ frames[i].ready = {}
         /\ frames[i].in # None => Kind[frames[i].in] = "idle"
    /\ frames[i].pass = "events" =>
         /\ \A h \in frames[i].ready : Kind[h] # "idle"
         /\ frames[i].in # None => Kind[frames[i].in] # "idle"

\* An idle handler that runs does so in the innermost dispatch.
IdleIsInnermost ==
  Unmade({"nestIdle"}) =>
    \A i \in DOMAIN frames : i # 1 /\ frames[i].pass = "idle" => frames[i].in = None

\* Whoever is queued, ready or running still has its source.
RunsFromSources ==
  Unmade({"nestIdle", "noObject"}) =>
    /\ \A h \in Handlers : In(h, idle) => h \in sources
    /\ \A i \in DOMAIN frames :
         /\ frames[i].ready \subseteq sources
         /\ frames[i].in # None => frames[i].in \in sources

\* A loop that was dropped is not dispatching.
DroppedIsQuiet == ~held => frames = << >>

IInv ==
  /\ TypeOK
  /\ Distinct(links) /\ Distinct(idle)
  /\ UnbornIsBlank
  /\ PassesMatchKinds
  /\ IdleIsInnermost
  /\ RunsFromSources
  /\ DroppedIsQuiet
  /\ HandlersOwned
  /\ MemorySafe

USE LoopAssumption

-----------------------------------------------------------------------------
(* The lists. *)

\* What wl_list_insert at the tail does.
LEMMA Appended ==
  ASSUME NEW S, NEW list \in Seq(S), NEW h \in S
  PROVE  /\ Append(list, h) \in Seq(S)
         /\ \A g : In(g, Append(list, h)) <=> In(g, list) \/ g = h
         /\ Distinct(list) /\ ~In(h, list) => Distinct(Append(list, h))
<1>1. /\ Append(list, h) \in Seq(S) /\ Len(Append(list, h)) = Len(list) + 1
      /\ \A i \in 1..Len(list) : Append(list, h)[i] = list[i]
      /\ Append(list, h)[Len(list) + 1] = h
      /\ Len(list) \in Nat
      /\ DOMAIN list = 1..Len(list) /\ DOMAIN Append(list, h) = 1..(Len(list) + 1)
  BY AppendProperties
<1>2. ASSUME NEW g PROVE In(g, Append(list, h)) <=> In(g, list) \/ g = h
  BY <1>1 DEF In
<1>3. ASSUME Distinct(list), ~In(h, list) PROVE Distinct(Append(list, h))
  BY <1>1, <1>3 DEF In, Distinct
<1> QED
  BY <1>1, <1>2, <1>3

\* What wl_list_remove does, place by place.
LEMMA RemovedAt ==
  ASSUME NEW S, NEW list \in Seq(S), Distinct(list), NEW i \in DOMAIN list
  PROVE  /\ Without(list, list[i]) \in Seq(S)
         /\ Len(Without(list, list[i])) = Len(list) - 1
         /\ \A k \in 1..(Len(list) - 1) :
              Without(list, list[i])[k] = IF k < i THEN list[k] ELSE list[k + 1]
<1> DEFINE n == Len(list)
           front == SubSeq(list, 1, i - 1)
           rest == SubSeq(list, i + 1, n)
           w == front \o rest
<1>1. n \in Nat /\ i \in 1..n /\ DOMAIN list = 1..n /\ \A k \in 1..n : list[k] \in S
  OBVIOUS
<1>2. Without(list, list[i]) = w
  <2>1. In(list[i], list)
    BY DEF In
  <2>2. i = CHOOSE j \in DOMAIN list : list[j] = list[i]
    BY DEF Distinct
  <2> QED
    BY <2>1, <2>2 DEF Without
<1> HIDE DEF n
<1>3. /\ front \in Seq(S) /\ Len(front) = i - 1
      /\ \A k \in 1..(i - 1) : front[k] = list[k]
  <2>1. /\ 1 \in Int /\ i - 1 \in Int /\ \A k \in 1..(i - 1) : list[k] \in S
    BY <1>1
  <2>2. /\ front \in Seq(S) /\ Len(front) = IF 1 <= i - 1 THEN i - 1 - 1 + 1 ELSE 0
        /\ \A k \in 1..(i - 1 - 1 + 1) : front[k] = list[1 + k - 1]
    BY <2>1, SubSeqProperties
  <2> HIDE DEF front
  <2> QED
    BY <1>1, <2>2
<1>4. /\ rest \in Seq(S) /\ Len(rest) = n - i
      /\ \A k \in 1..(n - i) : rest[k] = list[i + k]
  <2>1. /\ i + 1 \in Int /\ n \in Int /\ \A k \in (i + 1)..n : list[k] \in S
    BY <1>1
  <2>2. /\ rest \in Seq(S) /\ Len(rest) = IF i + 1 <= n THEN n - (i + 1) + 1 ELSE 0
        /\ \A k \in 1..(n - (i + 1) + 1) : rest[k] = list[(i + 1) + k - 1]
    BY <2>1, SubSeqProperties
  <2> HIDE DEF rest
  <2>3. n - (i + 1) + 1 = n - i /\ \A k \in 1..(n - i) : (i + 1) + k - 1 = i + k
    BY <1>1
  <2> QED
    BY <1>1, <2>2, <2>3
<1> HIDE DEF front, rest
<1>5. /\ w \in Seq(S) /\ Len(w) = n - 1
      /\ \A k \in 1..(n - 1) : w[k] = IF k <= i - 1 THEN front[k] ELSE rest[k - (i - 1)]
  <2>1. /\ w \in Seq(S) /\ Len(w) = Len(front) + Len(rest)
        /\ \A k \in 1..(Len(front) + Len(rest)) :
             w[k] = IF k <= Len(front) THEN front[k] ELSE rest[k - Len(front)]
    <3>1. front \in Seq(S) /\ rest \in Seq(S)
      BY <1>3, <1>4
    <3> QED
      BY <3>1, ConcatProperties
  <2> HIDE DEF w
  <2> QED
    BY <1>1, <1>3, <1>4, <2>1
<1> HIDE DEF w
<1>6. ASSUME NEW k \in 1..(n - 1) PROVE w[k] = IF k < i THEN list[k] ELSE list[k + 1]
  <2>1. CASE k < i
    BY <1>1, <1>3, <1>5, <2>1
  <2>2. CASE ~(k < i)
    <3>1. k - (i - 1) \in 1..(n - i) /\ i + (k - (i - 1)) = k + 1 /\ ~(k <= i - 1)
      BY <1>1, <2>2
    <3> QED
      BY <1>4, <1>5, <2>2, <3>1
  <2> QED
    BY <2>1, <2>2
<1> QED
  BY <1>2, <1>5, <1>6 DEF n

\* What wl_list_remove does.
LEMMA Removed ==
  ASSUME NEW S, NEW list \in Seq(S), NEW h, Distinct(list)
  PROVE  /\ Without(list, h) \in Seq(S)
         /\ Distinct(Without(list, h))
         /\ \A g : In(g, Without(list, h)) <=> In(g, list) /\ g # h
<1>1. CASE ~In(h, list)
  BY <1>1 DEF Without, In
<1>2. CASE In(h, list)
  <2> DEFINE n == Len(list)
             w == Without(list, h)
  <2>1. PICK i \in DOMAIN list : list[i] = h
    BY <1>2 DEF In
  <2>2. n \in Nat /\ i \in 1..n /\ DOMAIN list = 1..n
    OBVIOUS
  <2>3. /\ w \in Seq(S) /\ Len(w) = n - 1 /\ DOMAIN w = 1..(n - 1)
        /\ \A k \in 1..(n - 1) : w[k] = IF k < i THEN list[k] ELSE list[k + 1]
    <3>1. /\ w \in Seq(S) /\ Len(w) = n - 1
          /\ \A k \in 1..(n - 1) : w[k] = IF k < i THEN list[k] ELSE list[k + 1]
      BY <2>1, RemovedAt
    <3> HIDE DEF w
    <3> QED
      BY <3>1
  <2> HIDE DEF n, w
  <2>4. Distinct(w)
    <3> DEFINE from(k) == IF k < i THEN k ELSE k + 1
    <3>1. \A k \in 1..(n - 1) : from(k) \in 1..n /\ w[k] = list[from(k)]
      BY <2>2, <2>3
    <3>2. \A j, k \in 1..(n - 1) : from(j) = from(k) => j = k
      BY <2>2
    <3> HIDE DEF from
    <3> QED
      BY <2>2, <2>3, <3>1, <3>2 DEF Distinct
  <2>5. ASSUME NEW g, In(g, w) PROVE In(g, list) /\ g # h
    <3>1. PICK k \in 1..(n - 1) : w[k] = g
      BY <2>3, <2>5 DEF In
    <3>2. CASE k < i
      BY <2>1, <2>2, <2>3, <3>1, <3>2 DEF In, Distinct
    <3>3. CASE ~(k < i)
      <4>1. k + 1 \in 1..n /\ k + 1 # i /\ list[k + 1] = g
        BY <2>2, <2>3, <3>1, <3>3
      <4> QED
        BY <2>1, <2>2, <4>1 DEF In, Distinct
    <3> QED
      BY <3>2, <3>3
  <2>6. ASSUME NEW g, In(g, list), g # h PROVE In(g, w)
    <3>1. PICK k \in 1..n : list[k] = g
      BY <2>2, <2>6 DEF In
    <3>2. CASE k < i
      BY <2>2, <2>3, <3>1, <3>2 DEF In
    <3>3. CASE ~(k < i)
      <4>1. k # i
        BY <2>1, <2>6, <3>1
      <4>2. k - 1 \in 1..(n - 1) /\ ~(k - 1 < i) /\ (k - 1) + 1 = k
        BY <2>2, <3>3, <4>1
      <4> QED
        BY <2>3, <3>1, <4>2 DEF In
    <3> QED
      BY <3>2, <3>3
  <2> QED
    BY <2>3, <2>4, <2>5, <2>6 DEF w
<1> QED
  BY <1>1, <1>2

-----------------------------------------------------------------------------
(* The invariant. *)

\* A loop has no handlers at first.
LEMMA InitIInv == Init => IInv
<1> SUFFICES ASSUME Init PROVE IInv
  OBVIOUS
<1>1. links = << >> /\ idle = << >> /\ frames = << >>
  BY DEF Init
<1>2. Len(<< >>) = 0 /\ \A i : i \notin DOMAIN << >>
  OBVIOUS
<1>3. \A h : ~In(h, links) /\ ~In(h, idle)
  BY <1>1, <1>2 DEF In
<1>4. TypeOK
  <2>1. /\ links \in Seq(Handlers) /\ frames \in Seq(Frames)
        /\ idle \in Seq({h \in Handlers : Kind[h] = "idle"})
    BY <1>1, EmptySeq
  <2>2. 0 \in 0..MaxDispatches /\ 0 \in 0..2
    OBVIOUS
  <2> QED
    BY <2>1, <2>2 DEF Init, TypeOK
<1>5. Distinct(links) /\ Distinct(idle) /\ PassesMatchKinds /\ IdleIsInnermost /\ DroppedIsQuiet
  BY <1>1, <1>2 DEF Distinct, PassesMatchKinds, IdleIsInnermost, DroppedIsQuiet
<1>6. UnbornIsBlank
  BY <1>3 DEF Init, UnbornIsBlank, Linked
<1>7. RunsFromSources
  BY <1>1, <1>2, <1>3 DEF RunsFromSources
<1>8. HandlersOwned /\ MemorySafe
  BY <1>3 DEF Init, HandlersOwned, MemorySafe, Linked
<1> QED
  BY <1>4, <1>5, <1>6, <1>7, <1>8 DEF IInv

\* Moves are not unmade.
LEMMA StillMade ==
  ASSUME NEW moves, Unmade(moves)', made \subseteq made'
  PROVE  Unmade(moves)
BY DEF Unmade

\* A handler is added: its node goes to the end of the loop's list, and an idle
\* source to the end of the queue.
LEMMA Added ==
  ASSUME IInv, AppRuns, NEW h \in Handlers, mem[h] = "unborn", Linking(h),
         sources' = sources \cup {h},
         idle' = IF Kind[h] = "idle" THEN Append(idle, h) ELSE idle,
         UNCHANGED << made, loop, held, frames, pending, dispatches >>
  PROVE  IInv'
<1> USE DEF Linked
<1>1. links \in Seq(Handlers) /\ idle \in Seq({g \in Handlers : Kind[g] = "idle"})
  BY DEF IInv, TypeOK
<1>2. ~In(h, links) /\ ~In(h, idle) /\ h \notin refs /\ h \notin sources 
  BY DEF IInv, UnbornIsBlank
<1>3. /\ links' \in Seq(Handlers) /\ Distinct(links)'
      /\ \A g : In(g, links)' <=> In(g, links) \/ g = h
  BY <1>1, <1>2, Appended DEF Linking, IInv
<1>4. /\ idle' \in Seq({g \in Handlers : Kind[g] = "idle"}) /\ Distinct(idle)'
      /\ \A g : In(g, idle)' <=> In(g, idle) \/ (g = h /\ Kind[h] = "idle")
  BY <1>1, <1>2, Appended DEF IInv
<1>5. /\ mem' = [mem EXCEPT ![h] = "live"] /\ refs' = refs \cup {h}
      /\ fault' = FaultIf(Dangling(LastLinked))
  BY DEF Linking
<1>6. TypeOK'
  BY <1>3, <1>4, <1>5 DEF IInv, TypeOK, FaultIf
<1>7. UnbornIsBlank'
  BY <1>3, <1>4, <1>5 DEF IInv, TypeOK, UnbornIsBlank
<1>8. PassesMatchKinds' /\ IdleIsInnermost' /\ DroppedIsQuiet'
  BY DEF IInv, PassesMatchKinds, IdleIsInnermost, DroppedIsQuiet, Unmade
<1>9. RunsFromSources'
  BY <1>4 DEF IInv, RunsFromSources, Unmade
<1>11. HandlersOwned'
  BY <1>3, <1>5 DEF IInv, TypeOK, HandlersOwned, Unmade
<1>12. MemorySafe'
  <2> SUFFICES ASSUME Unmade({"nestIdle", "noObject"}) PROVE ~Dangling(LastLinked)
    BY <1>5 DEF MemorySafe, FaultIf, Unmade
  <2>1. CASE links = << >>
    BY <2>1 DEF Dangling, LastLinked
  <2>2. CASE links # << >>
    <3>1. Len(links) \in DOMAIN links /\ links[Len(links)] \in Handlers
      BY <1>1, <2>2
    <3>2. links[Len(links)] \in refs
      BY <3>1 DEF IInv, HandlersOwned, In
    <3>3. mem[links[Len(links)]] = "live"
      BY <3>2 DEF IInv, HandlersOwned
    <3> QED
      BY <2>2, <3>3 DEF Dangling, LastLinked
  <2> QED
    BY <2>1, <2>2
<1> QED
  BY <1>3, <1>4, <1>6, <1>7, <1>8, <1>9, <1>11, <1>12 DEF IInv

\* An addX fails, with or without what create_source_wrapper leaves behind.
LEMMA AddFailsIInv ==
  ASSUME IInv, NEW h \in Handlers, AddWithoutRef(h) \/ AddWithoutObject(h)
  PROVE  IInv'
<1> USE DEF Linked
<1>1. links \in Seq(Handlers) /\ mem[h] = "unborn" /\ AppRuns
      /\ mem' = [mem EXCEPT ![h] = "freed"]
      /\ UNCHANGED << loop, held, sources, idle, frames, pending, dispatches >>
  BY DEF IInv, TypeOK, AddWithoutRef, AddWithoutObject
<1>2. ~In(h, links) /\ ~In(h, idle) /\ h \notin refs /\ h \notin sources 
  BY <1>1 DEF IInv, UnbornIsBlank
<1>3. /\ made' \subseteq Moves /\ made \subseteq made'
      /\ \/ UNCHANGED << refs, links, fault >>
         \/ /\ "noObject" \in made' /\ refs' = refs \cup {h} /\ links' = Append(links, h)
            /\ fault' \in {"none", "memory"}
  BY DEF IInv, TypeOK, AddWithoutRef, AddWithoutObject, FaultIf
<1>4. /\ links' \in Seq(Handlers) /\ Distinct(links)'
      /\ \A g : In(g, links)' => In(g, links) \/ g = h
  <2>1. CASE UNCHANGED links
    BY <1>1, <2>1 DEF IInv, Distinct, In
  <2>2. CASE links' = Append(links, h)
    BY <1>1, <1>2, <2>2, Appended DEF IInv
  <2> QED
    BY <1>3, <2>1, <2>2
<1>5. TypeOK'
  BY <1>1, <1>3, <1>4 DEF IInv, TypeOK
<1>6. UnbornIsBlank'
  BY <1>1, <1>3, <1>4 DEF IInv, TypeOK, UnbornIsBlank
<1>7. Distinct(idle)' /\ PassesMatchKinds' /\ DroppedIsQuiet'
  BY <1>1 DEF IInv, PassesMatchKinds, DroppedIsQuiet
<1>8. IdleIsInnermost' /\ RunsFromSources'
  BY <1>1, <1>3 DEF IInv, IdleIsInnermost, RunsFromSources, Unmade, Top
<1>9. HandlersOwned' /\ MemorySafe'
  <2> SUFFICES ASSUME Unmade({"nestIdle", "noObject"})'
               PROVE  /\ refs' = {g \in Handlers : mem'[g] = "live"}
                      /\ sources' \subseteq refs'
                      /\ \A g \in Handlers : In(g, links)' <=> g \in refs'
                      /\ fault' # "memory"
    BY DEF HandlersOwned, MemorySafe
  <2>1. Unmade({"nestIdle", "noObject"}) /\ UNCHANGED << refs, links, fault >>
    BY <1>3 DEF Unmade
  <2> QED
    BY <1>1, <1>2, <2>1 DEF IInv, TypeOK, HandlersOwned, MemorySafe
<1> QED
  BY <1>4, <1>5, <1>6, <1>7, <1>8, <1>9 DEF IInv

-----------------------------------------------------------------------------
(* Dispatches. *)

\* The innermost dispatch.
LEMMA Innermost ==
  ASSUME TypeOK, frames # << >>
  PROVE  /\ Len(frames) \in Nat /\ DOMAIN frames = 1..Len(frames) /\ 1 \in DOMAIN frames
         /\ Top = frames[1] /\ Top \in Frames
BY HeadTailProperties, LenProperties DEF TypeOK, Top

\* What a change of the innermost dispatch leaves.
LEMMA TopChanged ==
  ASSUME TypeOK, frames # << >>, NEW f \in Frames, frames' = [frames EXCEPT ![1] = f]
  PROVE  /\ frames' \in Seq(Frames) /\ Len(frames') = Len(frames)
         /\ DOMAIN frames' = DOMAIN frames /\ frames' # << >>
         /\ frames'[1] = f /\ Top' = f
         /\ \A i \in DOMAIN frames : i # 1 => frames'[i] = frames[i]
<1>1. Len(frames) \in Nat /\ DOMAIN frames = 1..Len(frames) /\ 1 \in DOMAIN frames
  BY Innermost
<1>2. frames' \in Seq(Frames) /\ Len(frames') = Len(frames) /\ frames'[1] = f
      /\ \A i \in DOMAIN frames : i # 1 => frames'[i] = frames[i]
  BY <1>1, ExceptSeq DEF TypeOK
<1>3. DOMAIN frames' = DOMAIN frames /\ frames' # << >>
  BY <1>1, <1>2, LenProperties
<1>4. Top' = f
  BY <1>2, <1>3, HeadTailProperties DEF Top
<1> QED
  BY <1>2, <1>3, <1>4

\* The passes of one dispatch.
LEMMA Pair ==
  ASSUME NEW S, NEW a \in S, NEW b \in S
  PROVE  /\ << a >> \in Seq(S) /\ Len(<< a >>) = 1 /\ << a >>[1] = a
         /\ << a, b >> \in Seq(S) /\ Len(<< a, b >>) = 2
         /\ << a, b >>[1] = a /\ << a, b >>[2] = b
OBVIOUS

\* dispatch or dispatchIdle begins.
LEMMA EnterIInv ==
  ASSUME IInv, DispatchIdle \/ Dispatch
  PROVE  IInv'
<1> DEFINE Ready == {h \in sources : Kind[h] # "idle"}
<1> PICK ready \in SUBSET Ready :
      Enter(<< IdlePass >>) \/ Enter(<< IdlePass, EventsPass(ready) >>)
  BY DEF DispatchIdle, Dispatch
<1>1. PICK new : new \in {<< IdlePass >>, << IdlePass, EventsPass(ready) >>} /\ Enter(new)
  OBVIOUS
<1>2. /\ frames \in Seq(Frames) /\ IdlePass \in Frames /\ EventsPass(ready) \in Frames
      /\ new \in Seq(Frames)
  <2>1. frames \in Seq(Frames) /\ IdlePass \in Frames /\ EventsPass(ready) \in Frames
    BY DEF IInv, TypeOK, Frames, IdlePass, EventsPass
  <2>2. << IdlePass >> \in Seq(Frames) /\ << IdlePass, EventsPass(ready) >> \in Seq(Frames)
    BY <2>1, Pair
  <2> QED
    BY <1>1, <2>1, <2>2, Zenon
<1>3. /\ frames' = new \o frames /\ held /\ made' \subseteq Moves /\ made \subseteq made'
      /\ frames # << >> => Top.in # None /\ (Top.pass = "idle" => "nestIdle" \in made')
      /\ dispatches' \in 0..MaxDispatches
      /\ UNCHANGED << loop, held, mem, refs, links, sources, idle, pending, fault >>
  <2>1. AppRuns /\ Nesting \subseteq Moves /\ made' = made \cup Nesting /\ Enter(new)
    BY <1>1 DEF Enter
  <2>2. made' \subseteq Moves /\ made \subseteq made'
    BY <2>1 DEF IInv, TypeOK
  <2>3. frames # << >> => Top.in # None /\ (Top.pass = "idle" => "nestIdle" \in made')
    BY <2>1 DEF AppRuns, Nesting, Top
  <2> QED
    BY <2>1, <2>2, <2>3 DEF Enter, AppRuns, IInv, TypeOK
<1>4. /\ frames' \in Seq(Frames)
      /\ \A i \in DOMAIN frames' :
           \/ frames'[i] \in {IdlePass, EventsPass(ready)}
           \/ \E j \in DOMAIN frames : frames'[i] = frames[j]
  <2>1. /\ Len(new) \in Nat /\ Len(frames) \in Nat /\ frames' \in Seq(Frames)
        /\ DOMAIN frames = 1..Len(frames) /\ DOMAIN frames' = 1..(Len(new) + Len(frames))
        /\ \A i \in 1..Len(new) : frames'[i] = new[i]
        /\ \A i \in (Len(new) + 1)..(Len(new) + Len(frames)) : frames'[i] = frames[i - Len(new)]
    BY <1>2, <1>3, ConcatProperties, LenProperties
  <2>2. \A i \in 1..Len(new) : new[i] \in {IdlePass, EventsPass(ready)}
    BY <1>1
  <2>3. ASSUME NEW i \in DOMAIN frames'
        PROVE  i \in 1..Len(new) \/ (i - Len(new) \in DOMAIN frames /\ frames'[i] = frames[i - Len(new)])
    BY <2>1
  <2> QED
    BY <2>1, <2>2, <2>3
<1>5. frames = << >> => frames' = new
  BY <1>2, <1>3, ConcatEmptySeq
<1>6. TypeOK' /\ Distinct(links)' /\ Distinct(idle)' /\ DroppedIsQuiet'
  BY <1>3, <1>4 DEF IInv, TypeOK, DroppedIsQuiet
<1>7. UnbornIsBlank'
  <2> SUFFICES ASSUME NEW h \in Handlers, mem[h] = "unborn", NEW i \in DOMAIN frames'
               PROVE  h \notin frames'[i].ready
    BY <1>3 DEF IInv, UnbornIsBlank, Linked
  <2>1. h \notin sources /\ \A j \in DOMAIN frames : h \notin frames[j].ready
    BY DEF IInv, UnbornIsBlank
  <2> QED
    BY <1>4, <2>1 DEF IdlePass, EventsPass
<1>8. PassesMatchKinds'
  BY <1>4 DEF IInv, PassesMatchKinds, IdlePass, EventsPass
<1>9. IdleIsInnermost'
  <2> SUFFICES ASSUME Unmade({"nestIdle"})', NEW i \in DOMAIN frames', i # 1,
                      frames'[i].pass = "idle"
               PROVE  frames'[i].in = None
    BY DEF IdleIsInnermost
  <2>1. CASE frames'[i] \in {IdlePass, EventsPass(ready)}
    BY <2>1 DEF IdlePass, EventsPass
  <2>2. CASE \E j \in DOMAIN frames : frames'[i] = frames[j]
    <3>1. PICK j \in DOMAIN frames : frames'[i] = frames[j]
      BY <2>2
    <3>2. frames # << >>
      BY <3>1
    <3>3. Top = frames[1] /\ Top.pass # "idle"
      BY <1>3, <3>2, Innermost DEF IInv, Unmade
    <3>4. j # 1 /\ frames[j].pass = "idle" /\ Unmade({"nestIdle"})
      BY <1>3, <3>1, <3>3 DEF Unmade
    <3> QED
      BY <3>1, <3>4 DEF IInv, IdleIsInnermost
  <2> QED
    BY <1>4, <2>1, <2>2
<1>10. RunsFromSources'
  <2> SUFFICES ASSUME Unmade({"nestIdle", "noObject"})'
               PROVE  /\ \A h \in Handlers : In(h, idle) => h \in sources
                      /\ \A i \in DOMAIN frames' :
                           /\ frames'[i].ready \subseteq sources
                           /\ frames'[i].in # None => frames'[i].in \in sources
    BY <1>3 DEF RunsFromSources
  <2>1. Unmade({"nestIdle", "noObject"})
    BY <1>3, StillMade
  <2> QED
    BY <1>4, <2>1 DEF IInv, RunsFromSources, IdlePass, EventsPass
<1>12. HandlersOwned' /\ MemorySafe'
  BY <1>3 DEF IInv, HandlersOwned, MemorySafe, Linked, Unmade
<1> QED
  BY <1>6, <1>7, <1>8, <1>9, <1>10, <1>12 DEF IInv

\* The first idle source is called.
LEMMA IdleCallIInv == IInv /\ IdleCall => IInv'
<1> SUFFICES ASSUME IInv, IdleCall PROVE IInv'
  OBVIOUS
<1> DEFINE h == Head(idle)
           f == [frames[1] EXCEPT !.in = h]
<1>1. /\ TypeOK /\ frames # << >> /\ Top.pass = "idle" /\ Top.in = None /\ idle # << >>
      /\ frames' = [frames EXCEPT ![1] = f]
      /\ fault' = FaultIf(Dangling({h}))
      /\ UNCHANGED << made, loop, held, mem, refs, links, sources, idle, pending, dispatches >>
  BY DEF IInv, IdleCall
<1>2. h \in Handlers /\ Kind[h] = "idle" /\ h # None
  BY <1>1, HeadTailProperties DEF TypeOK
<1>3. In(h, idle)
  <2>1. Len(idle) \in Nat \ {0} /\ DOMAIN idle = 1..Len(idle) /\ h = idle[1]
    BY <1>1, EmptySeq, LenProperties DEF TypeOK
  <2> QED
    BY <2>1 DEF In
<1>4. Top = frames[1] /\ 1 \in DOMAIN frames /\ frames[1] \in Frames /\ Len(frames) \in Nat
  BY <1>1, Innermost
<1>5. f \in Frames /\ f.in = h /\ f.pass = "idle" /\ f.ready = frames[1].ready
  BY <1>1, <1>2, <1>4 DEF Frames
<1> HIDE DEF f, h
<1>6. /\ frames' \in Seq(Frames) /\ Len(frames') = Len(frames)
      /\ DOMAIN frames' = DOMAIN frames /\ frames' # << >>
      /\ frames'[1] = f /\ Top' = f
      /\ \A i \in DOMAIN frames : i # 1 => frames'[i] = frames[i]
  BY <1>1, <1>5, TopChanged
<1>8. TypeOK'
  BY <1>1, <1>6 DEF TypeOK, FaultIf
<1>9. Distinct(links)' /\ Distinct(idle)' /\ DroppedIsQuiet'
  BY <1>1 DEF IInv, DroppedIsQuiet
<1>10. UnbornIsBlank'
  <2>1. mem[h] # "unborn"
    BY <1>2, <1>3 DEF IInv, UnbornIsBlank
  <2> QED
    BY <1>1, <1>4, <1>5, <1>6, <2>1 DEF IInv, UnbornIsBlank, Linked
<1>11. PassesMatchKinds'
  BY <1>1, <1>2, <1>4, <1>5, <1>6 DEF IInv, PassesMatchKinds
<1>12. IdleIsInnermost'
  BY <1>1, <1>6 DEF IInv, IdleIsInnermost, Unmade
<1>13. RunsFromSources'
  <2> SUFFICES ASSUME Unmade({"nestIdle", "noObject"}) PROVE RunsFromSources'
    BY <1>1 DEF RunsFromSources, Unmade
  <2>1. h \in sources
    BY <1>2, <1>3 DEF IInv, RunsFromSources
  <2> QED
    BY <1>1, <1>4, <1>5, <1>6, <2>1 DEF IInv, RunsFromSources
<1>17. HandlersOwned'
  BY <1>1 DEF IInv, HandlersOwned, Linked, Unmade
<1>18. MemorySafe'
  <2> SUFFICES ASSUME Unmade({"nestIdle", "noObject"}) PROVE ~Dangling({h})
    BY <1>1 DEF MemorySafe, FaultIf, Unmade
  <2>1. h \in refs
    BY <1>2, <1>3 DEF IInv, RunsFromSources, HandlersOwned
  <2> QED
    BY <2>1 DEF IInv, HandlersOwned, Dangling
<1> QED
  BY <1>8, <1>9, <1>10, <1>11, <1>12, <1>13, <1>17, <1>18 DEF IInv

\* handleIdle is over and its handler destroyed.
LEMMA IdleReturnIInv == IInv /\ IdleReturn => IInv'
<1> SUFFICES ASSUME IInv, IdleReturn PROVE IInv'
  OBVIOUS
<1> USE DEF Linked
<1> DEFINE h == Top.in
           f == [frames[1] EXCEPT !.in = None]
<1>1. /\ TypeOK /\ frames # << >> /\ Top.pass = "idle" /\ h # None
      /\ mem' = [mem EXCEPT ![h] = "freed"] /\ refs' = refs \ {h}
      /\ links' = Without(links, h) /\ idle' = Without(idle, h) /\ sources' = sources \ {h}
      /\ fault' = FaultIf(Dangling({h} \cup Neighbours(h)) \/ h \notin sources)
      /\ frames' = [frames EXCEPT ![1] = f]
      /\ UNCHANGED << made, loop, held, pending, dispatches >>
  BY DEF IInv, IdleReturn
<1>2. /\ Top = frames[1] /\ 1 \in DOMAIN frames /\ frames[1] \in Frames
      /\ Len(frames) \in Nat /\ DOMAIN frames = 1..Len(frames)
  BY <1>1, Innermost
<1>3. h \in Handlers /\ Kind[h] = "idle" /\ frames[1].ready = {} /\ frames[1].in = h
  BY <1>1, <1>2 DEF IInv, PassesMatchKinds, Frames
<1>4. f \in Frames /\ f.in = None /\ f.pass = "idle" /\ f.ready = {}
  BY <1>1, <1>2, <1>3 DEF Frames
<1> HIDE DEF f, h
<1>5. /\ frames' \in Seq(Frames) /\ Len(frames') = Len(frames)
      /\ DOMAIN frames' = DOMAIN frames /\ frames' # << >>
      /\ frames'[1] = f /\ Top' = f
      /\ \A i \in DOMAIN frames : i # 1 => frames'[i] = frames[i]
  BY <1>1, <1>4, TopChanged
<1>6. /\ links' \in Seq(Handlers) /\ Distinct(links)'
      /\ \A g : In(g, links)' <=> In(g, links) /\ g # h
  BY <1>1, Removed DEF IInv, TypeOK
<1>7. /\ idle' \in Seq({g \in Handlers : Kind[g] = "idle"}) /\ Distinct(idle)'
      /\ \A g : In(g, idle)' <=> In(g, idle) /\ g # h
  BY <1>1, Removed DEF IInv, TypeOK
<1>8. TypeOK'
  BY <1>1, <1>3, <1>5, <1>6, <1>7 DEF TypeOK, FaultIf
<1>9. UnbornIsBlank'
  BY <1>1, <1>2, <1>3, <1>4, <1>5, <1>6, <1>7 DEF IInv, TypeOK, UnbornIsBlank
<1>10. PassesMatchKinds' /\ DroppedIsQuiet'
  <2>1. PassesMatchKinds'
    BY <1>2, <1>4, <1>5 DEF IInv, PassesMatchKinds
  <2>2. DroppedIsQuiet'
    BY <1>1 DEF IInv, DroppedIsQuiet
  <2> QED
    BY <2>1, <2>2
<1>11. IdleIsInnermost'
  BY <1>1, <1>5 DEF IInv, IdleIsInnermost, Unmade
<1>12. RunsFromSources'
  <2> SUFFICES ASSUME Unmade({"nestIdle", "noObject"})
               PROVE  /\ \A g \in Handlers : In(g, idle)' => g \in sources'
                      /\ \A i \in DOMAIN frames' :
                           /\ frames'[i].ready \subseteq sources'
                           /\ frames'[i].in # None => frames'[i].in \in sources'
    BY <1>1 DEF RunsFromSources, Unmade
  <2>1. \A g \in Handlers : In(g, idle)' => g \in sources'
    BY <1>1, <1>7 DEF IInv, RunsFromSources
  <2>2. ASSUME NEW i \in DOMAIN frames', i # 1
        PROVE  /\ frames'[i].ready \subseteq sources'
               /\ frames'[i].in # None => frames'[i].in \in sources'
    <3>1. i \in DOMAIN frames /\ frames'[i] = frames[i] /\ frames[i] \in Frames
      BY <1>1, <1>5, <2>2 DEF TypeOK
    <3>2. /\ frames[i].ready \subseteq sources
          /\ frames[i].in # None => frames[i].in \in sources
      BY <3>1 DEF IInv, RunsFromSources
    <3>3. CASE frames[i].pass = "events"
      BY <1>1, <1>3, <3>1, <3>2, <3>3 DEF IInv, PassesMatchKinds
    <3>4. CASE frames[i].pass = "idle"
      BY <2>2, <3>1, <3>4 DEF IInv, PassesMatchKinds, IdleIsInnermost, Unmade
    <3> QED
      BY <3>1, <3>3, <3>4 DEF Frames
  <2> QED
    BY <1>4, <1>5, <2>1, <2>2
<1>15. HandlersOwned'
  <2> SUFFICES ASSUME Unmade({"nestIdle", "noObject"})
               PROVE  /\ refs' = {g \in Handlers : mem'[g] = "live"}
                      /\ sources' \subseteq refs'
                      /\ \A g \in Handlers : In(g, links)' <=> g \in refs'
    BY <1>1 DEF HandlersOwned, Unmade
  <2> QED
    BY <1>1, <1>3, <1>6 DEF IInv, TypeOK, HandlersOwned
<1>16. MemorySafe'
  <2> SUFFICES ASSUME Unmade({"nestIdle", "noObject"})
               PROVE  h \in sources /\ ~Dangling({h} \cup Neighbours(h))
    BY <1>1 DEF MemorySafe, FaultIf, Unmade
  <2>1. h \in sources
    BY <1>1, <1>2, <1>3 DEF IInv, RunsFromSources
  <2>2. \A g \in refs : mem[g] = "live"
    BY DEF IInv, HandlersOwned
  <2>3. Neighbours(h) \subseteq refs
    <3> SUFFICES ASSUME NEW j \in DOMAIN links PROVE links[j] \in refs
      BY DEF Neighbours
    <3>1. links[j] \in Handlers /\ In(links[j], links)
      BY <1>1 DEF TypeOK, In
    <3> QED
      BY <3>1 DEF IInv, HandlersOwned
  <2>4. h \in refs
    BY <2>1 DEF IInv, HandlersOwned
  <2> QED
    BY <2>1, <2>2, <2>3, <2>4 DEF Dangling
<1> QED
  BY <1>6, <1>7, <1>8, <1>9, <1>10, <1>11, <1>12, <1>15, <1>16 DEF IInv

\* A source of this round fires.
LEMMA EventCallIInv == IInv /\ EventCall => IInv'
<1> SUFFICES ASSUME IInv, EventCall PROVE IInv'
  OBVIOUS
<1>1. PICK h \in Top.ready :
        /\ frames' = [frames EXCEPT ![1].in = h, ![1].ready = @ \ {h}]
        /\ fault' = IF pending THEN "jni" ELSE FaultIf(Dangling({h}))
  BY DEF EventCall
<1> DEFINE f == [frames[1] EXCEPT !.in = h, !.ready = @ \ {h}]
<1>2. /\ TypeOK /\ frames # << >> /\ Top.pass = "events" /\ Top.in = None
      /\ UNCHANGED << made, loop, held, mem, refs, links, sources, idle, pending, dispatches >>
  BY DEF IInv, EventCall
<1>3. /\ Top = frames[1] /\ 1 \in DOMAIN frames /\ frames[1] \in Frames
      /\ Len(frames) \in Nat /\ DOMAIN frames = 1..Len(frames)
  BY <1>2, Innermost
<1>4. h \in Handlers /\ Kind[h] # "idle" /\ h \in frames[1].ready /\ h # None
  BY <1>1, <1>2, <1>3 DEF IInv, PassesMatchKinds, Frames
<1>5. f \in Frames /\ f.in = h /\ f.pass = "events" /\ f.ready = frames[1].ready \ {h}
  BY <1>2, <1>3, <1>4 DEF Frames
<1>6. frames' = [frames EXCEPT ![1] = f]
  BY <1>1, <1>2, <1>3
<1> HIDE DEF f
<1>7. /\ frames' \in Seq(Frames) /\ Len(frames') = Len(frames)
      /\ DOMAIN frames' = DOMAIN frames /\ frames' # << >>
      /\ frames'[1] = f /\ Top' = f
      /\ \A i \in DOMAIN frames : i # 1 => frames'[i] = frames[i]
  BY <1>2, <1>5, <1>6, TopChanged
<1>9. TypeOK'
  BY <1>1, <1>2, <1>7 DEF TypeOK, FaultIf
<1>10. Distinct(links)' /\ Distinct(idle)' /\ DroppedIsQuiet'
  BY <1>2 DEF IInv, DroppedIsQuiet
<1>11. UnbornIsBlank'
  <2>1. mem[h] # "unborn"
    BY <1>3, <1>4 DEF IInv, UnbornIsBlank
  <2> QED
    BY <1>2, <1>3, <1>5, <1>7, <2>1 DEF IInv, UnbornIsBlank, Linked
<1>12. PassesMatchKinds'
  BY <1>2, <1>3, <1>4, <1>5, <1>7 DEF IInv, PassesMatchKinds
<1>13. IdleIsInnermost'
  BY <1>2, <1>3, <1>7 DEF IInv, IdleIsInnermost, Unmade
<1>14. RunsFromSources'
  <2> SUFFICES ASSUME Unmade({"nestIdle", "noObject"}) PROVE RunsFromSources'
    BY <1>2 DEF RunsFromSources, Unmade
  <2>1. h \in sources
    BY <1>3, <1>4 DEF IInv, RunsFromSources
  <2> QED
    BY <1>2, <1>3, <1>5, <1>7, <2>1 DEF IInv, RunsFromSources
<1>18. HandlersOwned'
  BY <1>2 DEF IInv, HandlersOwned, Linked, Unmade
<1>19. MemorySafe'
  <2> SUFFICES ASSUME Unmade({"nestIdle", "noObject"}) PROVE ~Dangling({h})
    BY <1>1, <1>2 DEF MemorySafe, FaultIf, Unmade
  <2>1. h \in refs
    BY <1>3, <1>4 DEF IInv, RunsFromSources, HandlersOwned
  <2> QED
    BY <2>1 DEF IInv, HandlersOwned, Dangling
<1> QED
  BY <1>9, <1>10, <1>11, <1>12, <1>13, <1>14, <1>18, <1>19 DEF IInv

\* Its handler is over.
LEMMA EventReturnIInv == IInv /\ EventReturn => IInv'
<1> SUFFICES ASSUME IInv, EventReturn PROVE IInv'
  OBVIOUS
<1> DEFINE f == [frames[1] EXCEPT !.in = None]
<1>1. /\ TypeOK /\ frames # << >> /\ Top.pass = "events" /\ Top.in # None
      /\ frames' = [frames EXCEPT ![1] = f]
      /\ pending' \in BOOLEAN /\ made \subseteq made' /\ made' \subseteq Moves
      /\ UNCHANGED << loop, held, mem, refs, links, sources, idle, dispatches, fault >>
  BY DEF IInv, EventReturn, TypeOK
<1>2. /\ Top = frames[1] /\ 1 \in DOMAIN frames /\ frames[1] \in Frames
      /\ Len(frames) \in Nat /\ DOMAIN frames = 1..Len(frames)
  BY <1>1, Innermost
<1>3. f \in Frames /\ f.in = None /\ f.pass = "events" /\ f.ready = frames[1].ready
  BY <1>1, <1>2 DEF Frames
<1> HIDE DEF f
<1>4. /\ frames' \in Seq(Frames) /\ Len(frames') = Len(frames)
      /\ DOMAIN frames' = DOMAIN frames /\ frames' # << >>
      /\ frames'[1] = f /\ Top' = f
      /\ \A i \in DOMAIN frames : i # 1 => frames'[i] = frames[i]
  BY <1>1, <1>3, TopChanged
<1>5. TypeOK'
  BY <1>1, <1>4 DEF TypeOK
<1>6. Distinct(links)' /\ Distinct(idle)' /\ DroppedIsQuiet'
  BY <1>1 DEF IInv, DroppedIsQuiet
<1>7. UnbornIsBlank'
  BY <1>1, <1>2, <1>3, <1>4 DEF IInv, UnbornIsBlank, Linked
<1>8. PassesMatchKinds'
  BY <1>1, <1>2, <1>3, <1>4 DEF IInv, PassesMatchKinds
<1>9. IdleIsInnermost'
  BY <1>1, <1>2, <1>4 DEF IInv, IdleIsInnermost, Unmade
<1>10. RunsFromSources'
  <2> SUFFICES ASSUME Unmade({"nestIdle", "noObject"}) PROVE RunsFromSources'
    BY <1>1 DEF RunsFromSources, Unmade
  <2> QED
    BY <1>1, <1>2, <1>3, <1>4 DEF IInv, RunsFromSources
<1>12. HandlersOwned' /\ MemorySafe'
  BY <1>1 DEF IInv, HandlersOwned, MemorySafe, Linked, Unmade
<1> QED
  BY <1>5, <1>6, <1>7, <1>8, <1>9, <1>10, <1>12 DEF IInv

\* A pass is over.
LEMMA PassDoneIInv == IInv /\ PassDone => IInv'
<1> SUFFICES ASSUME IInv, PassDone PROVE IInv'
  OBVIOUS
<1>1. /\ TypeOK /\ frames # << >> /\ Top.in = None /\ frames' = Tail(frames)
      /\ pending' = FALSE
      /\ UNCHANGED << made, loop, held, mem, refs, links, sources, idle, dispatches,
                      fault >>
  BY DEF IInv, PassDone
<1>2. Len(frames) \in Nat \ {0} /\ DOMAIN frames = 1..Len(frames)
  BY <1>1, EmptySeq, LenProperties DEF TypeOK
<1>3. /\ frames' \in Seq(Frames) /\ Len(frames') = Len(frames) - 1
      /\ DOMAIN frames' = 1..(Len(frames) - 1)
      /\ \A i \in DOMAIN frames' : i + 1 \in DOMAIN frames /\ frames'[i] = frames[i + 1]
  BY <1>1, <1>2, HeadTailProperties, LenProperties DEF TypeOK
<1>4. TypeOK' /\ Distinct(links)' /\ Distinct(idle)'
  BY <1>1, <1>3 DEF IInv, TypeOK
<1>5. DroppedIsQuiet'
  BY <1>1 DEF IInv, DroppedIsQuiet
<1>6. UnbornIsBlank'
  BY <1>1, <1>3 DEF IInv, UnbornIsBlank, Linked
<1>7. PassesMatchKinds'
  BY <1>1, <1>3 DEF IInv, PassesMatchKinds
<1>8. IdleIsInnermost'
  BY <1>1, <1>2, <1>3 DEF IInv, IdleIsInnermost, Unmade
<1>9. RunsFromSources'
  <2> SUFFICES ASSUME Unmade({"nestIdle", "noObject"}) PROVE RunsFromSources'
    BY <1>1 DEF RunsFromSources, Unmade
  <2> QED
    BY <1>1, <1>3 DEF IInv, RunsFromSources
<1>11. HandlersOwned' /\ MemorySafe'
  BY <1>1 DEF IInv, HandlersOwned, MemorySafe, Linked, Unmade
<1> QED
  BY <1>4, <1>5, <1>6, <1>7, <1>8, <1>9, <1>11 DEF IInv

-----------------------------------------------------------------------------
(* The end of the loop. *)

\* The application lets the loop go.
LEMMA DropIInv == IInv /\ Drop => IInv'
<1> SUFFICES ASSUME IInv, Drop PROVE IInv'
  OBVIOUS
<1>1. /\ frames = << >> /\ held' = FALSE
      /\ UNCHANGED << made, loop, mem, refs, links, sources, idle, frames, pending,
                      dispatches, fault >>
  BY DEF Drop
<1>2. TypeOK' /\ Distinct(links)' /\ Distinct(idle)' /\ DroppedIsQuiet'
  BY <1>1 DEF IInv, TypeOK, DroppedIsQuiet
<1>3. UnbornIsBlank' /\ PassesMatchKinds' /\ IdleIsInnermost' /\ RunsFromSources'
  BY <1>1 DEF IInv, UnbornIsBlank, PassesMatchKinds, IdleIsInnermost, RunsFromSources, Linked, Unmade
<1>4. HandlersOwned' /\ MemorySafe'
  BY <1>1 DEF IInv, HandlersOwned, MemorySafe, Linked, Unmade, Top
<1> QED
  BY <1>2, <1>3, <1>4 DEF IInv

\* The loop is destroyed and with it every handler in its list.
LEMMA FinalizeIInv == IInv /\ Finalize => IInv'
<1> SUFFICES ASSUME IInv, Finalize PROVE IInv'
  OBVIOUS
<1>1. /\ frames = << >> /\ frames' = << >> /\ links' = << >> /\ idle' = << >> /\ sources' = {}
      /\ loop' = "gone"
      /\ mem' = [h \in Handlers |-> IF Linked(h) THEN "freed" ELSE mem[h]]
      /\ refs' = {h \in refs : ~Linked(h)}
      /\ fault' = FaultIf(Dangling({h \in Handlers : Linked(h)}))
      /\ UNCHANGED << made, held, pending, dispatches >>
  BY DEF IInv, DroppedIsQuiet, Finalize
<1>2. Len(<< >>) = 0 /\ \A i : i \notin DOMAIN << >>
  OBVIOUS
<1>3. \A h : ~In(h, links)' /\ ~In(h, idle)'
  BY <1>1, <1>2 DEF In
<1>4. TypeOK'
  <2>1. /\ links' \in Seq(Handlers) /\ frames' \in Seq(Frames)
        /\ idle' \in Seq({h \in Handlers : Kind[h] = "idle"})
    BY <1>1, EmptySeq
  <2> QED
    BY <1>1, <2>1 DEF IInv, TypeOK, FaultIf
<1>5. Distinct(links)' /\ Distinct(idle)' /\ PassesMatchKinds' /\ IdleIsInnermost' /\ DroppedIsQuiet'
  BY <1>1, <1>2 DEF Distinct, PassesMatchKinds, IdleIsInnermost, DroppedIsQuiet
<1>6. UnbornIsBlank'
  BY <1>1, <1>2, <1>3 DEF IInv, UnbornIsBlank, Linked
<1>7. RunsFromSources'
  BY <1>1, <1>2, <1>3 DEF RunsFromSources
<1>9. HandlersOwned'
  <2> SUFFICES ASSUME Unmade({"nestIdle", "noObject"})
               PROVE  /\ refs' = {h \in Handlers : mem'[h] = "live"}
                      /\ sources' \subseteq refs'
                      /\ \A h \in Handlers : Linked(h)' <=> h \in refs'
    BY <1>1 DEF HandlersOwned, Unmade
  <2>1. refs' = {} /\ \A h \in Handlers : mem'[h] # "live"
    BY <1>1 DEF IInv, HandlersOwned
  <2> QED
    BY <1>1, <1>3, <2>1 DEF Linked
<1>10. MemorySafe'
  BY <1>1 DEF IInv, HandlersOwned, MemorySafe, FaultIf, Dangling, Unmade
<1> QED
  BY <1>4, <1>5, <1>6, <1>7, <1>9, <1>10 DEF IInv

-----------------------------------------------------------------------------
(* The theorems. *)

\* Every step keeps the invariant.
LEMMA NextIInv == IInv /\ [Next]_vars => IInv'
<1> SUFFICES ASSUME IInv, [Next]_vars PROVE IInv'
  OBVIOUS
<1>1. CASE UNCHANGED vars
  BY <1>1
  DEF vars, IInv, TypeOK, Distinct, UnbornIsBlank, PassesMatchKinds, IdleIsInnermost,
      RunsFromSources, DroppedIsQuiet, HandlersOwned,
      MemorySafe, Linked, In, Unmade, Top
<1>2. ASSUME NEW h \in Handlers, AddFileDescriptor(h) \/ AddSignal(h) \/ AddIdle(h)
      PROVE  IInv'
  <2>1. /\ AppRuns /\ mem[h] = "unborn" /\ Linking(h) /\ sources' = sources \cup {h}
        /\ idle' = IF Kind[h] = "idle" THEN Append(idle, h) ELSE idle
        /\ UNCHANGED << made, loop, held, frames, pending, dispatches >>
    BY <1>2 DEF AddFileDescriptor, AddSignal, AddIdle
  <2> QED
    BY <2>1, Added
<1>3. ASSUME NEW h \in Handlers, AddWithoutRef(h) \/ AddWithoutObject(h) PROVE IInv'
  BY <1>3, AddFailsIInv
<1>4. CASE DispatchIdle \/ Dispatch
  BY <1>4, EnterIInv
<1>5. CASE LoopSteps
  BY <1>5, IdleCallIInv, IdleReturnIInv, EventCallIInv, EventReturnIInv, PassDoneIInv DEF LoopSteps
<1>6. CASE Drop \/ Finalize
  BY <1>6, DropIInv, FinalizeIInv
<1> QED
  BY <1>1, <1>2, <1>3, <1>4, <1>5, <1>6 DEF Next

\* The invariant holds of every behaviour of event_loop.c.
THEOREM Inductive == Spec => []IInv
BY InitIInv, NextIInv, PTL DEF Spec

\* event_handler_destroy frees a struct event_handler once, and nobody that can
\* still reach it uses it afterwards: source, loop, queue or dispatch.
THEOREM SafeMemory == Spec => []MemorySafe
<1>1. IInv => MemorySafe
  BY DEF IInv
<1> QED
  BY <1>1, Inductive, PTL

\* The global reference jhandler lives exactly as long as the struct, which the
\* loop's list holds as long.
THEOREM OwnedHandlers == Spec => []HandlersOwned
<1>1. IInv => HandlersOwned
  BY DEF IInv
<1> QED
  BY <1>1, Inductive, PTL

-----------------------------------------------------------------------------
(* The lists of the destroy signals, of any objects and listeners, and the *)
(* inductive invariant of their walks.                                     *)

\* A listener is linked at most once, and to no object that is gone.
LinkedOnce ==
  /\ \A o \in Objects : Distinct(queue[o])
  /\ \A l \in Listeners, o, p \in Objects : In(l, queue[o]) /\ In(l, queue[p]) => o = p
  /\ \A o \in Objects : obj[o] = "dead" => queue[o] = << >>

\* Each dying object has one walk, and only the innermost is not in onDestroy.
OneWalkEach ==
  /\ \A o \in Objects : obj[o] = "dying" <=> \E i \in DOMAIN walks : walks[i].of = o
  /\ \A i, j \in DOMAIN walks : walks[i].of = walks[j].of => i = j
  /\ \A i \in DOMAIN walks : i # 1 => walks[i].phase = "callback"

\* A walk is at the head of its list, or its listener has left the list from
\* there; what it read ahead is next in either case.
InPlace(w, list) ==
  /\ ~w.stale
  /\ IF w.phase = "callback" /\ ~In(w.at, list)
     THEN w.ahead = First(list)
     ELSE w.at = First(list) /\ w.ahead = After(list, w.at)

\* A walk inside another is not at a listener the other has still to call.
WalksInPlace ==
  /\ \A i \in DOMAIN walks : InPlace(walks[i], queue[walks[i].of])
  /\ \A i, j \in DOMAIN walks : i < j => ~In(walks[i].at, queue[walks[j].of])

Orderly == ~listenerFault /\ LinkedOnce /\ OneWalkEach /\ WalksInPlace

ListenerIInv == ListenerTypeOK /\ (Ruled => Orderly)

\* Nil is neither an object nor a listener.
LEMMA NilApart ==
  /\ Nil \notin Objects /\ Nil \notin Listeners
  /\ ListenerMoves \subseteq {"throw", "detachNext", "attachDying", "rearm"}
BY ListenerAssumption

-----------------------------------------------------------------------------
(* The head of a list, where a walk of it is. *)

Second(list) == IF Len(list) > 1 THEN list[2] ELSE Nil

\* The head of a list is in it, unless the list is empty.
LEMMA Heads ==
  ASSUME NEW list \in Seq(Listeners)
  PROVE  /\ First(list) = IF Len(list) > 0 THEN list[1] ELSE Nil
         /\ First(list) \in Listeners \cup {Nil}
         /\ In(First(list), list) <=> list # << >>
         /\ First(list) = Nil <=> list = << >>
         /\ \A l : In(l, list) => l \in Listeners
         /\ ~In(Nil, list)
<1>1. /\ Len(list) \in Nat /\ DOMAIN list = 1..Len(list)
      /\ \A k \in 1..Len(list) : list[k] \in Listeners
      /\ list = << >> <=> Len(list) = 0
  BY LenProperties, ElementOfSeq, EmptySeq
<1>2. First(list) = IF Len(list) > 0 THEN list[1] ELSE Nil
  BY <1>1 DEF First
<1>3. Len(list) > 0 => 1 \in DOMAIN list
  BY <1>1
<1>4. \A l : In(l, list) => l \in Listeners
  BY <1>1 DEF In
<1>5. ~In(Nil, list)
  BY <1>4, NilApart
<1> QED
  BY <1>1, <1>2, <1>3, <1>4, <1>5, NilApart DEF In

\* What follows a node is a listener or the head of the list.
LEMMA AfterType ==
  ASSUME NEW list \in Seq(Listeners), NEW l
  PROVE  After(list, l) \in Listeners \cup {Nil}
<1> DEFINE next == {j \in 2..Len(list) : list[j - 1] = l}
<1>1. CASE next = {}
  BY <1>1 DEF After
<1>2. CASE next # {}
  <2>1. (CHOOSE j \in next : TRUE) \in next
    BY <1>2
  <2>2. After(list, l) = list[CHOOSE j \in next : TRUE]
    BY <1>2 DEF After
  <2>3. \A j \in next : list[j] \in Listeners
    BY ElementOfSeq
  <2> QED
    BY <2>1, <2>2, <2>3
<1> QED
  BY <1>1, <1>2

\* What wl_list_for_each_safe reads ahead at the head.
LEMMA AfterFirst ==
  ASSUME NEW list \in Seq(Listeners), Distinct(list)
  PROVE  /\ After(list, First(list)) = Second(list)
         /\ Second(list) \in Listeners \cup {Nil}
         /\ Second(list) = Nil \/ In(Second(list), list)
         /\ list # << >> => Second(list) # First(list)
<1> DEFINE next == {j \in 2..Len(list) : list[j - 1] = First(list)}
<1>1. /\ Len(list) \in Nat /\ DOMAIN list = 1..Len(list)
      /\ \A k \in 1..Len(list) : list[k] \in Listeners
      /\ list = << >> <=> Len(list) = 0
  BY LenProperties, ElementOfSeq, EmptySeq
<1>2. First(list) = IF Len(list) > 0 THEN list[1] ELSE Nil
  BY Heads
<1>3. After(list, First(list)) =
        IF next = {} THEN Nil ELSE list[CHOOSE j \in next : TRUE]
  BY DEF After
<1>4. CASE Len(list) > 1
  <2>1. next = {2}
    <3>1. 2 \in next
      BY <1>1, <1>2, <1>4
    <3>2. ASSUME NEW j \in next PROVE j = 2
      <4>1. j \in 2..Len(list) /\ j - 1 \in 1..Len(list) /\ 1 \in 1..Len(list)
        BY <1>1
      <4>2. list[j - 1] = list[1]
        BY <1>1, <1>2, <1>4
      <4>3. j - 1 = 1
        BY <1>1, <4>1, <4>2 DEF Distinct
      <4> QED
        BY <4>1, <4>3
    <3> QED
      BY <3>1, <3>2
  <2>2. (CHOOSE j \in next : TRUE) = 2
    BY <2>1
  <2>3. After(list, First(list)) = list[2]
    BY <1>3, <2>1, <2>2
  <2>4. 1 \in DOMAIN list /\ 2 \in DOMAIN list /\ First(list) = list[1]
    BY <1>1, <1>2, <1>4
  <2>5. list[2] # list[1]
    BY <2>4 DEF Distinct
  <2>6. list[2] \in Listeners /\ In(list[2], list)
    BY <1>1, <2>4 DEF In
  <2> QED
    BY <1>4, <2>3, <2>4, <2>5, <2>6 DEF Second
<1>5. CASE ~(Len(list) > 1)
  <2>1. next = {}
    BY <1>1, <1>5
  <2>2. list # << >> => In(First(list), list) /\ First(list) \in Listeners
    BY Heads
  <2> QED
    BY <1>3, <1>5, <2>1, <2>2, NilApart DEF Second
<1> QED
  BY <1>1, <1>4, <1>5

\* Unlinking the first node makes the second one the first; unlinking another
\* leaves the first in place, and the second unless it is that one.
LEMMA HeadsRemoved ==
  ASSUME NEW list \in Seq(Listeners), Distinct(list),
         NEW l \in Listeners
  PROVE  /\ l = First(list) => First(Without(list, l)) = Second(list)
         /\ l # First(list) => First(Without(list, l)) = First(list)
         /\ l # First(list) /\ l # Second(list) =>
              Second(Without(list, l)) = Second(list)
<1> DEFINE w == Without(list, l)
<1>1. /\ Len(list) \in Nat /\ DOMAIN list = 1..Len(list)
      /\ First(list) = IF Len(list) > 0 THEN list[1] ELSE Nil
  BY LenProperties, Heads
<1>2. CASE ~In(l, list)
  <2>1. w = list
    BY <1>2 DEF Without
  <2>2. l # First(list)
    BY <1>1, <1>2, NilApart DEF In
  <2> QED
    BY <2>1, <2>2
<1>3. CASE In(l, list)
  <2>1. PICK i \in 1..Len(list) : list[i] = l
    BY <1>1, <1>3 DEF In
  <2>2. /\ w \in Seq(Listeners) /\ Len(w) = Len(list) - 1
        /\ \A k \in 1..(Len(list) - 1) : w[k] = IF k < i THEN list[k] ELSE list[k + 1]
    <3>1. /\ Without(list, list[i]) \in Seq(Listeners)
          /\ Len(Without(list, list[i])) = Len(list) - 1
          /\ \A k \in 1..(Len(list) - 1) :
               Without(list, list[i])[k] = IF k < i THEN list[k] ELSE list[k + 1]
      <4>1. i \in DOMAIN list
        BY <1>1
      <4> QED
        BY <4>1, RemovedAt
    <3> QED
      BY <2>1, <3>1
  <2>3. First(w) = IF Len(w) > 0 THEN w[1] ELSE Nil
    BY <2>2, Heads
  <2> HIDE DEF w
  <2>4. ASSUME l = First(list) PROVE First(w) = Second(list)
    <3>1. i = 1
      BY <1>1, <2>1, <2>4 DEF Distinct
    <3>2. CASE Len(list) > 1
      <4>1. 1 \in 1..(Len(list) - 1) /\ Len(w) > 0 /\ ~(1 < i) /\ 1 + 1 = 2
        BY <1>1, <2>2, <3>1, <3>2
      <4> QED
        BY <2>2, <2>3, <3>2, <4>1 DEF Second
    <3>3. CASE ~(Len(list) > 1)
      BY <1>1, <2>2, <2>3, <3>3 DEF Second
    <3> QED
      BY <3>2, <3>3
  <2>5. ASSUME l # First(list) PROVE First(w) = First(list) /\ i > 1 /\ Len(list) > 1
    <3>1. i > 1 /\ Len(list) > 1
      BY <1>1, <2>1, <2>5
    <3>2. 1 \in 1..(Len(list) - 1) /\ Len(w) > 0 /\ 1 < i
      BY <1>1, <2>2, <3>1
    <3> QED
      BY <1>1, <2>2, <2>3, <3>1, <3>2
  <2>6. ASSUME l # First(list), l # Second(list) PROVE Second(w) = Second(list)
    <3>1. i > 2 /\ Len(list) > 2
      BY <1>1, <2>1, <2>5, <2>6 DEF Second
    <3>2. 2 \in 1..(Len(list) - 1) /\ Len(w) > 1 /\ 2 < i
      BY <1>1, <2>2, <3>1
    <3> QED
      BY <1>1, <2>2, <3>1, <3>2 DEF Second
  <2> QED
    BY <2>4, <2>5, <2>6 DEF w
<1> QED
  BY <1>2, <1>3

\* A walk in onDestroy stays in place when a node it has not read ahead goes.
LEMMA StaysInPlace ==
  ASSUME NEW list \in Seq(Listeners), Distinct(list),
         NEW w \in Walks, w.phase = "callback", w.at # Nil, InPlace(w, list),
         NEW l \in Listeners, l # w.ahead
  PROVE  InPlace(w, Without(list, l))
<1> DEFINE u == Without(list, l)
<1>1. /\ u \in Seq(Listeners) /\ Distinct(u)
      /\ \A g : In(g, u) <=> In(g, list) /\ g # l
  BY Removed
<1>2. ~w.stale
  BY DEF InPlace
<1>3. CASE ~In(w.at, list)
  <2>1. w.ahead = First(list) /\ ~In(w.at, u)
    BY <1>1, <1>3 DEF InPlace
  <2>2. First(u) = First(list)
    BY <2>1, HeadsRemoved
  <2> QED
    BY <1>2, <2>1, <2>2 DEF InPlace
<1>4. CASE In(w.at, list)
  <2>1. w.at = First(list) /\ w.ahead = Second(list)
    BY <1>4, AfterFirst DEF InPlace
  <2>2. CASE l = w.at
    <3>1. ~In(w.at, u) /\ First(u) = Second(list)
      BY <1>1, <2>1, <2>2, HeadsRemoved
    <3> QED
      BY <1>2, <2>1, <3>1 DEF InPlace
  <2>3. CASE l # w.at
    <3>1. First(u) = First(list) /\ Second(u) = Second(list) /\ In(w.at, u)
      BY <1>1, <1>4, <2>1, <2>3, HeadsRemoved
    <3>2. After(u, First(u)) = Second(u)
      BY <1>1, AfterFirst
    <3> QED
      BY <1>2, <2>1, <3>1, <3>2 DEF InPlace
  <2> QED
    BY <2>2, <2>3
<1> QED
  BY <1>3, <1>4

\* A walk whose listener is detached finds what it read ahead at the head.
LEMMA GoesOn ==
  ASSUME NEW list \in Seq(Listeners), Distinct(list),
         NEW w \in Walks, w.phase = "callback", w.at \in Listeners, InPlace(w, list)
  PROVE  /\ w.ahead = First(Without(list, w.at))
         /\ w.ahead # w.at
         /\ w.ahead = Nil \/ In(w.ahead, list)
<1>1. CASE ~In(w.at, list)
  <2>1. w.ahead = First(list) /\ Without(list, w.at) = list
    BY <1>1 DEF InPlace, Without
  <2> QED
    BY <1>1, <2>1, Heads, NilApart
<1>2. CASE In(w.at, list)
  <2>1. w.at = First(list) /\ w.ahead = Second(list) /\ list # << >>
    BY <1>2, AfterFirst, Heads DEF InPlace, In
  <2> QED
    BY <2>1, AfterFirst, HeadsRemoved
<1> QED
  BY <1>1, <1>2

-----------------------------------------------------------------------------
(* The walks. *)

\* The listeners of an object are those in its list.
LEMMA LinkedIsIn ==
  ASSUME NEW o \in Objects, NEW l
  PROVE  l \in LinkedTo(o) <=> In(l, queue[o])
BY DEF LinkedTo, In

\* A walk goes on to what it read ahead.
OnTo(list, w) ==
  [of |-> w.of, at |-> w.ahead, ahead |-> After(list, w.ahead), stale |-> FALSE,
   phase |-> "loop"]

\* A walk that has gone on is a walk.
LEMMA OnToType ==
  ASSUME NEW list \in Seq(Listeners), NEW w \in Walks
  PROVE  OnTo(list, w) \in Walks
BY AfterType DEF OnTo, Walks

\* Freeing a node changes no walk that has not read it ahead.
LEMMA OvertakenWalks ==
  ASSUME ListenerTypeOK, NEW l
  PROVE  /\ Overtaken(l) \in Seq(Walks)
         /\ DOMAIN Overtaken(l) = DOMAIN walks
         /\ \A i \in DOMAIN walks :
              /\ Overtaken(l)[i].of = walks[i].of
              /\ Overtaken(l)[i].at = walks[i].at
              /\ Overtaken(l)[i].ahead = walks[i].ahead
              /\ Overtaken(l)[i].phase = walks[i].phase
              /\ ~walks[i].stale /\ walks[i].ahead # l => Overtaken(l)[i] = walks[i]
<1>1. /\ DOMAIN walks = 1..Len(walks) /\ Len(walks) \in Nat
      /\ \A i \in DOMAIN walks : walks[i] \in Walks
  BY LenProperties, ElementOfSeq DEF ListenerTypeOK
<1>2. ASSUME NEW i \in DOMAIN walks
      PROVE  LET w == [walks[i] EXCEPT !.stale = @ \/ walks[i].ahead = l]
             IN /\ w \in Walks
                /\ w.of = walks[i].of /\ w.at = walks[i].at /\ w.ahead = walks[i].ahead
                /\ w.phase = walks[i].phase
                /\ ~walks[i].stale /\ walks[i].ahead # l => w = walks[i]
  <2>1. walks[i] \in Walks
    BY <1>1
  <2>3. (walks[i].stale \/ (walks[i].ahead = l)) \in BOOLEAN
    OBVIOUS
  <2>4. ~walks[i].stale /\ walks[i].ahead # l =>
          (walks[i].stale \/ (walks[i].ahead = l)) = walks[i].stale
    <3>1. walks[i].stale \in BOOLEAN
      BY <2>1 DEF Walks
    <3> QED
      BY <3>1
  <2> DEFINE b == (walks[i].stale \/ (walks[i].ahead = l))
             w == [walks[i] EXCEPT !.stale = b]
  <2> HIDE DEF b
  <2>5. b \in BOOLEAN
    BY <2>3 DEF b
  <2>6. /\ w \in Walks
        /\ w.of = walks[i].of /\ w.at = walks[i].at /\ w.ahead = walks[i].ahead
        /\ w.phase = walks[i].phase
        /\ b = walks[i].stale => w = walks[i]
    BY <2>1, <2>5 DEF Walks
  <2> QED
    BY <2>4, <2>6 DEF b
<1> HIDE DEF Overtaken
<1>3. /\ DOMAIN Overtaken(l) = DOMAIN walks
      /\ \A i \in DOMAIN walks :
           Overtaken(l)[i] = [walks[i] EXCEPT !.stale = @ \/ walks[i].ahead = l]
  BY DEF Overtaken
<1>4. \A i \in DOMAIN walks : Overtaken(l)[i] \in Walks
  BY <1>2, <1>3
<1>5. Overtaken(l) \in [1..Len(walks) -> Walks]
  BY <1>1, <1>3, <1>4 DEF Overtaken
<1>6. Overtaken(l) \in Seq(Walks)
  BY <1>1, <1>5
<1> QED
  BY <1>2, <1>3, <1>6

\* The innermost walk comes first, and a walk in onDestroy is at a listener.
LEMMA WalkFacts ==
  ASSUME ListenerTypeOK
  PROVE  /\ DOMAIN walks = 1..Len(walks) /\ Len(walks) \in Nat
         /\ walks # << >> => 1 \in DOMAIN walks /\ Head(walks) = walks[1]
         /\ \A i \in DOMAIN walks :
              /\ walks[i] \in Walks
              /\ walks[i].of \in Objects
              /\ walks[i].phase = "callback" => walks[i].at \in Listeners
<1>1. /\ DOMAIN walks = 1..Len(walks) /\ Len(walks) \in Nat
      /\ \A i \in DOMAIN walks : walks[i] \in Walks
      /\ walks # << >> => Len(walks) # 0
  BY LenProperties, ElementOfSeq, EmptySeq DEF ListenerTypeOK
<1>2. walks # << >> => 1 \in DOMAIN walks /\ Head(walks) = walks[1]
  BY <1>1 DEF ListenerTypeOK
<1>3. \A i \in DOMAIN walks :
        walks[i].of \in Objects /\ (walks[i].phase = "callback" => walks[i].at \in Listeners)
  BY <1>1 DEF ListenerTypeOK, Walks
<1> QED
  BY <1>1, <1>2, <1>3

\* What detaching a listener leaves of each list.
LEMMA UnlinkedLists ==
  ASSUME ListenerTypeOK, NEW l
  PROVE  /\ Unlinked(l) \in [Objects -> Seq(Listeners)]
         /\ \A o \in Objects : Unlinked(l)[o] = Without(queue[o], l)
<1> SUFFICES ASSUME NEW o \in Objects PROVE Without(queue[o], l) \in Seq(Listeners)
  BY DEF Unlinked
<1>1. queue[o] \in Seq(Listeners)
  BY DEF ListenerTypeOK
<1> DEFINE list == queue[o]
<1>2. CASE ~In(l, list)
  BY <1>1, <1>2 DEF Without
<1>3. CASE In(l, list)
  <2> DEFINE i == CHOOSE j \in DOMAIN list : list[j] = l
  <2>1. i \in 1..Len(list) /\ Len(list) \in Nat
    BY <1>1, <1>3 DEF In
  <2>2. Without(list, l) = SubSeq(list, 1, i - 1) \o SubSeq(list, i + 1, Len(list))
    BY <1>3 DEF Without
  <2> HIDE DEF i
  <2>3. \A k \in 1..Len(list) : list[k] \in Listeners
    BY <1>1, ElementOfSeq
  <2>4. SubSeq(list, 1, i - 1) \in Seq(Listeners)
    BY <2>1, <2>3, SubSeqProperties
  <2>5. SubSeq(list, i + 1, Len(list)) \in Seq(Listeners)
    BY <2>1, <2>3, SubSeqProperties
  <2> QED
    BY <2>2, <2>4, <2>5, ConcatProperties
<1> QED
  BY <1>2, <1>3

\* At first no listener is attached and no object is being destroyed.
LEMMA ListenerInitIInv == ListenerInit => ListenerIInv
<1> SUFFICES ASSUME ListenerInit PROVE ListenerIInv
  OBVIOUS
<1>1. << >> \in Seq(Listeners) /\ << >> \in Seq(Walks) /\ DOMAIN << >> = {}
  BY EmptySeq
<1>2. ListenerTypeOK
  BY <1>1 DEF ListenerInit, ListenerTypeOK
<1>3. \A o \in Objects : queue[o] = << >> /\ Distinct(queue[o]) /\ \A l : ~In(l, queue[o])
  BY <1>1 DEF ListenerInit, Distinct, In
<1>4. Orderly
  BY <1>1, <1>3 DEF ListenerInit, Orderly, LinkedOnce, OneWalkEach, WalksInPlace
<1> QED
  BY <1>2, <1>4 DEF ListenerIInv

\* The moves made are never forgotten.
LEMMA OnceRuled == [ListenerNext]_listenerVars /\ Ruled' => Ruled
<1> SUFFICES ASSUME [ListenerNext]_listenerVars PROVE listenerMade \subseteq listenerMade'
  BY DEF Ruled
<1> QED
  BY DEF ListenerNext, Application, Emission, Attach, Detach, Destroy,
         Notify, Return, Throw, Finish, Move, listenerVars

\* Attaching puts the listener at the end of a list that no walk is in.
LEMMA AttachIInv ==
  ASSUME ListenerIInv, NEW l \in Listeners, NEW o \in Objects, Attach(l, o),
         Ruled' => Ruled
  PROVE  ListenerIInv'
<1>1. /\ queue \in [Objects -> Seq(Listeners)]
      /\ queue' = [queue EXCEPT ![o] = Append(queue[o], l)]
      /\ obj' = obj /\ walks' = walks /\ listenerFault' = listenerFault /\ obj[o] # "dead"
      /\ \A p \in Objects : ~In(l, queue[p])
  BY LinkedIsIn DEF Attach, ListenerIInv, ListenerTypeOK, Attached
<1>2. /\ Append(queue[o], l) \in Seq(Listeners)
      /\ \A g : In(g, Append(queue[o], l)) <=> In(g, queue[o]) \/ g = l
      /\ Distinct(queue[o]) => Distinct(Append(queue[o], l))
  BY <1>1, Appended
<1>3. /\ queue'[o] = Append(queue[o], l)
      /\ \A p \in Objects : p # o => queue'[p] = queue[p]
  BY <1>1
<1>4. ListenerTypeOK'
  BY <1>1, <1>2 DEF Attach, Move, ListenerIInv, ListenerTypeOK
<1>5. ASSUME Ruled' PROVE Orderly'
  <2>1. Orderly
    BY <1>5 DEF ListenerIInv
  <2>2. obj[o] = "live"
    BY <1>1, <1>5 DEF Attach, Move, Ruled, ListenerIInv, ListenerTypeOK
  <2>3. LinkedOnce'
    BY <1>1, <1>2, <1>3, <2>1, <2>2 DEF Orderly, LinkedOnce
  <2>4. OneWalkEach'
    BY <1>1, <2>1 DEF Orderly, OneWalkEach
  <2>5. \A i \in DOMAIN walks : walks[i].of \in Objects /\ walks[i].of # o
    BY <2>1, <2>2, WalkFacts DEF ListenerIInv, Orderly, OneWalkEach
  <2>6. \A i \in DOMAIN walks : queue'[walks[i].of] = queue[walks[i].of]
    BY <1>3, <2>5
  <2>7. WalksInPlace'
    BY <1>1, <2>1, <2>6 DEF Orderly, WalksInPlace
  <2> QED
    BY <1>1, <2>1, <2>3, <2>4, <2>7 DEF Orderly
<1> QED
  BY <1>4, <1>5 DEF ListenerIInv

\* What holds of the lists still does when a listener is unlinked.
LEMMA UnlinkLinkedOnce ==
  ASSUME ListenerTypeOK, LinkedOnce, NEW l \in Listeners, queue' = Unlinked(l), obj' = obj
  PROVE  /\ LinkedOnce'
         /\ \A o \in Objects : \A g : In(g, queue'[o]) <=> In(g, queue[o]) /\ g # l
         /\ ~LinkedToDead(l)
<1>1. \A o \in Objects : /\ queue[o] \in Seq(Listeners) /\ Distinct(queue[o])
                        /\ queue'[o] = Without(queue[o], l)
  BY UnlinkedLists DEF ListenerTypeOK, LinkedOnce
<1>2. \A o \in Objects : /\ Distinct(queue'[o])
                        /\ \A g : In(g, queue'[o]) <=> In(g, queue[o]) /\ g # l
  BY <1>1, Removed
<1>3. ASSUME NEW o \in Objects, obj[o] = "dead" PROVE queue'[o] = << >> /\ ~In(l, queue[o])
  <2>1. queue[o] = << >>
    BY <1>3 DEF LinkedOnce
  <2>2. ~In(l, queue[o])
    BY <2>1 DEF In
  <2> QED
    BY <1>1, <2>1, <2>2 DEF Without
<1>4. ~LinkedToDead(l)
  BY <1>3, LinkedIsIn DEF LinkedToDead
<1>5. LinkedOnce'
  BY <1>2, <1>3 DEF LinkedOnce
<1> QED
  BY <1>2, <1>4, <1>5

\* Detaching, within the rules, leaves each walk where it is.
LEMMA DetachIInv ==
  ASSUME ListenerIInv, NEW l \in Listeners, Detach(l),
         Ruled' => Ruled
  PROVE  ListenerIInv'
<1>1. /\ MayAct /\ queue' = Unlinked(l) /\ walks' = Overtaken(l)
      /\ listenerFault' = LinkedToDead(l) /\ obj' = obj /\ served' = served
      /\ ListenerTypeOK
  BY DEF Detach, ListenerIInv
<1>2. ListenerTypeOK'
  <2>1. queue' \in [Objects -> Seq(Listeners)]
    BY <1>1, UnlinkedLists
  <2>2. walks' \in Seq(Walks)
    BY <1>1, OvertakenWalks
  <2>3. \A i \in DOMAIN walks' : walks'[i].at = Nil => walks'[i].phase = "loop"
    BY <1>1, OvertakenWalks DEF ListenerTypeOK
  <2>4. listenerMade' \subseteq ListenerMoves /\ listenerFault' \in BOOLEAN
    BY <1>1 DEF Detach, Move, ListenerTypeOK, LinkedToDead
  <2> QED
    BY <1>1, <2>1, <2>2, <2>3, <2>4 DEF ListenerTypeOK
<1>3. ASSUME Ruled' PROVE Orderly'
  <2>1. Orderly
    BY <1>3 DEF ListenerIInv
  <2>2. \A i \in DOMAIN walks : walks[i].ahead # l
    BY <1>3 DEF Detach, Move, Ruled
  <2>3. /\ LinkedOnce' /\ ~LinkedToDead(l)
        /\ \A o \in Objects : \A g : In(g, queue'[o]) <=> In(g, queue[o]) /\ g # l
    BY <1>1, <2>1, UnlinkLinkedOnce DEF Orderly
  <2>4. DOMAIN walks' = DOMAIN walks /\ \A i \in DOMAIN walks : walks'[i] = walks[i]
    BY <1>1, <2>1, <2>2, OvertakenWalks DEF Orderly, WalksInPlace, InPlace
  <2>5. OneWalkEach'
    BY <1>1, <2>1, <2>4 DEF Orderly, OneWalkEach
  <2>6. ASSUME NEW i \in DOMAIN walks PROVE InPlace(walks[i], queue'[walks[i].of])
    <3> DEFINE w == walks[i]
               list == queue[w.of]
    <3>1. w.phase = "callback"
      BY <1>1, <2>1, WalkFacts DEF MayAct, Orderly, OneWalkEach
    <3>2. w \in Walks /\ w.of \in Objects /\ w.at \in Listeners
      BY <1>1, <3>1, WalkFacts
    <3>3. /\ list \in Seq(Listeners) /\ Distinct(list) /\ InPlace(w, list)
          /\ queue'[w.of] = Without(list, l)
      BY <1>1, <2>1, <3>2, UnlinkedLists DEF ListenerTypeOK, Orderly, LinkedOnce, WalksInPlace
    <3> QED
      BY <2>2, <3>1, <3>2, <3>3, StaysInPlace, NilApart
  <2>7. WalksInPlace'
    <3>1. \A i, j \in DOMAIN walks : i < j => ~In(walks[i].at, queue'[walks[j].of])
      BY <1>1, <2>1, <2>3, WalkFacts DEF Orderly, WalksInPlace
    <3> QED
      BY <2>4, <2>6, <3>1 DEF WalksInPlace
  <2> QED
    BY <1>1, <2>3, <2>5, <2>7 DEF Orderly
<1> QED
  BY <1>2, <1>3 DEF ListenerIInv

\* The walk of an object that begins to be destroyed starts at the head of its list.
LEMMA DestroyIInv ==
  ASSUME ListenerIInv, NEW o \in Objects, Destroy(o),
         Ruled' => Ruled
  PROVE  ListenerIInv'
<1> DEFINE new == [of |-> o, at |-> First(queue[o]),
                   ahead |-> After(queue[o], First(queue[o])),
                   stale |-> FALSE, phase |-> "loop"]
           n == Len(walks)
<1>1. /\ MayAct /\ ListenerTypeOK /\ obj[o] = "live" /\ obj' = [obj EXCEPT ![o] = "dying"]
      /\ queue' = queue /\ served' = served
      /\ listenerFault' = listenerFault /\ listenerMade' = listenerMade
      /\ walks' = << new >> \o walks
  BY DEF Destroy, ListenerIInv
<1>2. /\ DOMAIN walks = 1..n /\ n \in Nat
      /\ \A i \in 1..n : walks[i] \in Walks /\ walks[i].of \in Objects
  BY <1>1, WalkFacts
<1>3. queue[o] \in Seq(Listeners)
  BY <1>1 DEF ListenerTypeOK
<1>4. new \in Walks
  BY <1>3, Heads, AfterType DEF Walks
<1>5. /\ InPlace(new, queue[o]) /\ new.of = o /\ new.phase = "loop"
      /\ new.at = First(queue[o])
  BY DEF InPlace
<1> HIDE DEF new
<1>6. << new >> \in Seq(Walks) /\ Len(<< new >>) = 1 /\ << new >>[1] = new
  BY <1>4
<1>7. /\ walks' \in Seq(Walks) /\ DOMAIN walks' = 1..(n + 1)
      /\ walks'[1] = new
      /\ \A i \in 1..n : walks'[i + 1] = walks[i]
  <2>1. walks \in Seq(Walks)
    BY <1>1 DEF ListenerTypeOK
  <2>2. /\ walks' \in Seq(Walks) /\ Len(walks') = 1 + n
        /\ \A i \in 1..(1 + n) :
             walks'[i] = IF i <= 1 THEN << new >>[i] ELSE walks[i - 1]
    BY <1>1, <1>6, <2>1, ConcatProperties
  <2>3. 1 \in 1..(1 + n) /\ \A i \in 1..n : i + 1 \in 1..(1 + n) /\ ~(i + 1 <= 1) /\ i + 1 - 1 = i
    BY <1>2
  <2>4. DOMAIN walks' = 1..(n + 1)
    BY <1>2, <2>2
  <2> QED
    BY <1>6, <2>2, <2>3, <2>4
<1>8. \A i \in 1..(n + 1) : i = 1 \/ (i - 1 \in 1..n /\ walks'[i] = walks[i - 1])
  <2>1. \A i \in 1..(n + 1) : i = 1 \/ (i - 1 \in 1..n /\ (i - 1) + 1 = i)
    BY <1>2
  <2> QED
    BY <1>7, <2>1
<1>9. ListenerTypeOK'
  <2>1. \A i \in 1..(n + 1) : walks'[i].at = Nil => walks'[i].phase = "loop"
    <3>1. walks'[1].phase = "loop"
      BY <1>5, <1>7
    <3>2. \A i \in 1..n : walks[i].at = Nil => walks[i].phase = "loop"
      BY <1>1, <1>2 DEF ListenerTypeOK
    <3> QED
      BY <1>8, <3>1, <3>2
  <2> QED
    BY <1>1, <1>7, <2>1 DEF ListenerTypeOK
<1>10. ASSUME Ruled' PROVE Orderly'
  <2>1. Orderly
    BY <1>10 DEF ListenerIInv
  <2>2. \A i \in 1..n : walks[i].of # o /\ walks[i].phase = "callback"
    <3>1. \A i \in 1..n : walks[i].of # o
      BY <1>1, <1>2, <2>1 DEF Orderly, OneWalkEach
    <3>2. ASSUME NEW i \in 1..n PROVE walks[i].phase = "callback"
      <4>1. walks # << >>
        BY <1>2
      <4>2. walks[1].phase = "callback"
        BY <1>1, <4>1, WalkFacts DEF MayAct
      <4> QED
        BY <1>2, <2>1, <4>2 DEF Orderly, OneWalkEach
    <3> QED
      BY <3>1, <3>2
  <2>3. LinkedOnce'
    BY <1>1, <2>1 DEF Orderly, LinkedOnce, ListenerTypeOK
  <2>4. OneWalkEach'
    <3>1. ASSUME NEW p \in Objects
          PROVE  obj'[p] = "dying" <=> \E i \in 1..(n + 1) : walks'[i].of = p
      <4>1. CASE p = o
        <5>1. obj'[p] = "dying"
          BY <1>1, <4>1 DEF ListenerTypeOK
        <5>2. 1 \in 1..(n + 1) /\ walks'[1].of = p
          BY <1>2, <1>5, <1>7, <4>1
        <5> QED
          BY <5>1, <5>2
      <4>2. CASE p # o
        <5>1. obj'[p] = obj[p]
          BY <1>1, <4>2 DEF ListenerTypeOK
        <5>2. obj[p] = "dying" <=> \E i \in 1..n : walks[i].of = p
          BY <1>2, <2>1 DEF Orderly, OneWalkEach
        <5>3. (\E i \in 1..n : walks[i].of = p) => \E i \in 1..(n + 1) : walks'[i].of = p
          <6> SUFFICES ASSUME NEW i \in 1..n, walks[i].of = p
                       PROVE  \E j \in 1..(n + 1) : walks'[j].of = p
            OBVIOUS
          <6>1. i + 1 \in 1..(n + 1) /\ walks'[i + 1].of = p
            BY <1>2, <1>7
          <6> QED
            BY <6>1
        <5>4. (\E i \in 1..(n + 1) : walks'[i].of = p) => \E i \in 1..n : walks[i].of = p
          BY <1>5, <1>7, <1>8, <4>2
        <5> QED
          BY <5>1, <5>2, <5>3, <5>4
      <4> QED
        BY <4>1, <4>2
    <3>2. ASSUME NEW i \in 1..(n + 1), NEW j \in 1..(n + 1), walks'[i].of = walks'[j].of
          PROVE  i = j
      <4>1. CASE i = 1 /\ j # 1
        BY <1>5, <1>7, <1>8, <2>2, <3>2, <4>1
      <4>2. CASE i # 1 /\ j = 1
        BY <1>5, <1>7, <1>8, <2>2, <3>2, <4>2
      <4>3. CASE i # 1 /\ j # 1
        <5>1. /\ i - 1 \in 1..n /\ walks'[i] = walks[i - 1]
              /\ j - 1 \in 1..n /\ walks'[j] = walks[j - 1]
          BY <1>8, <4>3
        <5>2. i - 1 = j - 1
          BY <1>2, <2>1, <3>2, <5>1 DEF Orderly, OneWalkEach
        <5> QED
          BY <5>2
      <4> QED
        BY <4>1, <4>2, <4>3
    <3>3. \A i \in 1..(n + 1) : i # 1 => walks'[i].phase = "callback"
      BY <1>8, <2>2
    <3> QED
      BY <1>7, <3>1, <3>2, <3>3 DEF OneWalkEach
  <2>5. ASSUME NEW i \in 1..(n + 1) PROVE InPlace(walks'[i], queue[walks'[i].of])
    BY <1>2, <1>5, <1>7, <1>8, <2>1 DEF Orderly, WalksInPlace
  <2>6. ASSUME NEW i \in 1..(n + 1), NEW j \in 1..(n + 1), i < j
        PROVE  ~In(walks'[i].at, queue[walks'[j].of])
    <3>1. j - 1 \in 1..n /\ walks'[j] = walks[j - 1] /\ walks[j - 1].of # o
          /\ walks[j - 1].of \in Objects
      BY <1>2, <1>8, <2>2, <2>6
    <3>2. CASE i = 1
      <4>1. queue[walks[j - 1].of] \in Seq(Listeners)
        BY <1>1, <3>1 DEF ListenerTypeOK
      <4>2. walks'[i].at = First(queue[o])
        BY <1>5, <1>7, <3>2
      <4>3. \/ First(queue[o]) = Nil
            \/ First(queue[o]) \in Listeners /\ In(First(queue[o]), queue[o])
        BY <1>3, Heads
      <4>4. First(queue[o]) = Nil => ~In(First(queue[o]), queue[walks[j - 1].of])
        BY <4>1, Heads
      <4> QED
        BY <2>1, <3>1, <4>2, <4>3, <4>4 DEF Orderly, LinkedOnce
    <3>3. CASE i # 1
      <4>1. i - 1 \in 1..n /\ walks'[i] = walks[i - 1] /\ i - 1 < j - 1
        BY <1>8, <2>6, <3>3
      <4> QED
        BY <1>2, <2>1, <3>1, <4>1 DEF Orderly, WalksInPlace
    <3> QED
      BY <3>2, <3>3
  <2>7. WalksInPlace'
    BY <1>1, <1>7, <2>5, <2>6 DEF WalksInPlace
  <2> QED
    BY <1>1, <2>1, <2>3, <2>4, <2>7 DEF Orderly
<1> QED
  BY <1>9, <1>10 DEF ListenerIInv

\* The listener a walk calls is still the head of its list.
LEMMA NotifyIInv ==
  ASSUME ListenerIInv, Notify, Ruled' => Ruled
  PROVE  ListenerIInv'
<1> DEFINE w == [walks[1] EXCEPT !.phase = "callback"]
<1>1. /\ ListenerTypeOK /\ ~listenerFault
      /\ walks # << >> /\ walks[1].phase = "loop" /\ walks[1].at # Nil
      /\ walks' = [walks EXCEPT ![1] = w]
      /\ served' = served \cup {walks[1].at}
      /\ obj' = obj /\ queue' = queue
      /\ listenerFault' = listenerFault /\ listenerMade' = listenerMade
  BY WalkFacts DEF Notify, ListenerIInv
<1>2. /\ DOMAIN walks = 1..Len(walks) /\ Len(walks) \in Nat /\ 1 \in DOMAIN walks
      /\ \A i \in DOMAIN walks : walks[i] \in Walks /\ walks[i].of \in Objects
  BY <1>1, WalkFacts
<1>3. /\ w \in Walks /\ w.of = walks[1].of /\ w.at = walks[1].at /\ w.phase = "callback"
      /\ w.ahead = walks[1].ahead /\ w.stale = walks[1].stale
      /\ walks[1].at \in Listeners
  BY <1>1, <1>2 DEF Walks
<1> HIDE DEF w
<1>4. /\ walks' \in Seq(Walks) /\ DOMAIN walks' = DOMAIN walks
      /\ walks'[1] = w /\ \A i \in DOMAIN walks : i # 1 => walks'[i] = walks[i]
  BY <1>1, <1>2, <1>3 DEF ListenerTypeOK
<1>5. ListenerTypeOK'
  BY <1>1, <1>3, <1>4 DEF ListenerTypeOK
<1>6. ASSUME Ruled' PROVE Orderly'
  <2>1. Orderly
    BY <1>6 DEF ListenerIInv
  <2>2. LinkedOnce'
    BY <1>1, <2>1 DEF Orderly, LinkedOnce
  <2>3. \A i \in DOMAIN walks : walks'[i].of = walks[i].of /\ walks'[i].at = walks[i].at
    BY <1>3, <1>4
  <2>4. OneWalkEach'
    BY <1>1, <1>4, <2>1, <2>3 DEF Orderly, OneWalkEach
  <2>5. InPlace(w, queue[w.of])
    <3> DEFINE list == queue[w.of]
    <3>1. InPlace(walks[1], list)
      BY <1>2, <1>3, <2>1 DEF Orderly, WalksInPlace
    <3>2. w.at = First(list) /\ w.ahead = After(list, w.at) /\ ~w.stale
      BY <1>1, <1>3, <3>1 DEF InPlace
    <3>3. In(w.at, list)
      <4>1. list \in Seq(Listeners)
        BY <1>1, <1>2, <1>3 DEF ListenerTypeOK
      <4> QED
        BY <1>1, <1>3, <3>2, <4>1, Heads
    <3> QED
      BY <3>2, <3>3 DEF InPlace
  <2>6. WalksInPlace'
    BY <1>1, <1>2, <1>4, <2>1, <2>3, <2>5 DEF Orderly, WalksInPlace
  <2> QED
    BY <1>1, <2>1, <2>2, <2>4, <2>6 DEF Orderly
<1> QED
  BY <1>5, <1>6 DEF ListenerIInv

\* A walk whose listener has returned finds the one it read ahead at the head.
LEMMA ReturnIInv ==
  ASSUME ListenerIInv, Return, Ruled' => Ruled
  PROVE  ListenerIInv'
<1> DEFINE l == walks[1].at
           ws == Overtaken(l)
<1>1. /\ ListenerTypeOK /\ walks # << >> /\ walks[1].phase = "callback"
      /\ queue' = Unlinked(l)
      /\ walks' = [ws EXCEPT ![1] = OnTo(Unlinked(l)[ws[1].of], ws[1])]
      /\ listenerFault' = (Head(ws).stale \/ LinkedToDead(l))
      /\ obj' = obj /\ served' = served /\ listenerMade' = listenerMade
  BY WalkFacts DEF Return, Advance, OnTo, ListenerIInv
<1>2. /\ DOMAIN walks = 1..Len(walks) /\ Len(walks) \in Nat /\ 1 \in DOMAIN walks
      /\ \A i \in DOMAIN walks : walks[i] \in Walks /\ walks[i].of \in Objects
      /\ l \in Listeners
  BY <1>1, WalkFacts
<1>3. /\ ws \in Seq(Walks) /\ DOMAIN ws = DOMAIN walks
      /\ \A i \in DOMAIN walks :
           /\ ws[i].of = walks[i].of /\ ws[i].at = walks[i].at
           /\ ws[i].ahead = walks[i].ahead /\ ws[i].phase = walks[i].phase
           /\ ~walks[i].stale /\ walks[i].ahead # l => ws[i] = walks[i]
  BY <1>1, OvertakenWalks
<1>4. /\ Unlinked(l) \in [Objects -> Seq(Listeners)]
      /\ \A o \in Objects : Unlinked(l)[o] = Without(queue[o], l)
  BY <1>1, UnlinkedLists
<1> HIDE DEF ws
<1>5. ws # << >> /\ Head(ws) = ws[1]
  BY <1>2, <1>3
<1>9. OnTo(Unlinked(l)[ws[1].of], ws[1]) \in Walks
  BY <1>2, <1>3, <1>4, ElementOfSeq, OnToType
<1>6. /\ walks' \in Seq(Walks) /\ DOMAIN walks' = DOMAIN walks
      /\ walks'[1] = OnTo(Unlinked(l)[ws[1].of], ws[1])
      /\ \A i \in DOMAIN walks : i # 1 => walks'[i] = ws[i]
  BY <1>1, <1>2, <1>3, <1>9
<1>10. /\ walks'[1].of = walks[1].of /\ walks'[1].at = walks[1].ahead
       /\ walks'[1].ahead = After(queue'[walks[1].of], walks'[1].at)
       /\ ~walks'[1].stale /\ walks'[1].phase = "loop"
  BY <1>1, <1>2, <1>3, <1>6 DEF OnTo
<1>7. ListenerTypeOK'
  <2>1. \A i \in DOMAIN walks' : walks'[i].at = Nil => walks'[i].phase = "loop"
    <3>1. \A i \in DOMAIN walks : walks[i].at = Nil => walks[i].phase = "loop"
      BY <1>1 DEF ListenerTypeOK
    <3>2. walks'[1].phase = "loop"
      BY <1>10
    <3> QED
      BY <1>3, <1>6, <3>1, <3>2
  <2>2. listenerFault' \in BOOLEAN
    BY <1>1, <1>2, <1>3, <1>5, ElementOfSeq DEF Walks, LinkedToDead
  <2> QED
    BY <1>1, <1>4, <1>6, <2>1, <2>2 DEF ListenerTypeOK
<1>8. ASSUME Ruled' PROVE Orderly'
  <2>1. Orderly
    BY <1>8 DEF ListenerIInv
  <2>2. /\ LinkedOnce' /\ ~LinkedToDead(l)
        /\ \A o \in Objects : \A g : In(g, queue'[o]) <=> In(g, queue[o]) /\ g # l
    BY <1>1, <1>2, <2>1, UnlinkLinkedOnce DEF Orderly
  <2>3. ASSUME NEW i \in DOMAIN walks
        PROVE  LET w == walks[i]
               IN /\ w.phase = "callback" /\ InPlace(w, queue[w.of]) /\ ~w.stale
                  /\ w.ahead = First(Without(queue[w.of], w.at))
                  /\ w.ahead = Nil \/ In(w.ahead, queue[w.of])
                  /\ w.ahead # w.at
    <3>1. walks[i].phase = "callback" /\ InPlace(walks[i], queue[walks[i].of])
      BY <1>1, <2>1 DEF Orderly, OneWalkEach, WalksInPlace
    <3>2. /\ walks[i] \in Walks /\ walks[i].at \in Listeners /\ walks[i].of \in Objects
      BY <1>1, <3>1, WalkFacts
    <3>3. queue[walks[i].of] \in Seq(Listeners) /\ Distinct(queue[walks[i].of])
      BY <1>1, <2>1, <3>2 DEF ListenerTypeOK, Orderly, LinkedOnce
    <3>4. ~walks[i].stale
      BY <3>1 DEF InPlace
    <3> QED
      BY <3>1, <3>2, <3>3, <3>4, GoesOn
  <2>4. \A i \in DOMAIN walks : i # 1 => ~In(l, queue[walks[i].of])
    BY <1>2, <2>1 DEF Orderly, WalksInPlace
  <2>5. \A i \in DOMAIN walks : walks[i].ahead # l
    BY <1>2, <2>3, <2>4, NilApart
  <2>6. \A i \in DOMAIN walks : ws[i] = walks[i]
    BY <1>3, <2>3, <2>5
  <2>7. ~listenerFault'
    <3>1. ~Head(ws).stale
      BY <1>2, <1>5, <2>3, <2>6
    <3> QED
      BY <1>1, <2>2, <3>1
  <2>8. OneWalkEach'
    <3>1. \A i \in DOMAIN walks : walks'[i].of = walks[i].of
      BY <1>6, <1>10, <2>6
    <3> QED
      BY <1>1, <1>6, <2>1, <2>6, <3>1 DEF Orderly, OneWalkEach
  <2>9. ASSUME NEW i \in DOMAIN walks PROVE InPlace(walks'[i], queue'[walks'[i].of])
    <3>1. CASE i = 1
      <4>1. queue'[walks[1].of] = Without(queue[walks[1].of], l)
        BY <1>1, <1>2, <1>4
      <4>2. walks'[1].at = First(queue'[walks[1].of])
        BY <1>2, <1>10, <2>3, <4>1
      <4> QED
        BY <1>10, <3>1, <4>2 DEF InPlace
    <3>2. CASE i # 1
      <4>1. walks'[i] = walks[i]
        BY <1>6, <2>6, <3>2
      <4>2. queue'[walks[i].of] = queue[walks[i].of]
        BY <1>1, <1>2, <1>4, <2>4, <3>2 DEF Without
      <4> QED
        BY <2>3, <4>1, <4>2
    <3> QED
      BY <3>1, <3>2
  <2>10. ASSUME NEW i \in DOMAIN walks, NEW j \in DOMAIN walks, i < j
         PROVE  ~In(walks'[i].at, queue'[walks'[j].of])
    <3>1. j # 1 /\ walks'[j] = walks[j] /\ walks[j].of \in Objects
      BY <1>2, <1>6, <2>6, <2>10
    <3>2. CASE i = 1
      <4>1. walks'[1].at = walks[1].ahead
        BY <1>10
      <4>2. walks[1].of # walks[j].of
        BY <1>2, <2>1, <3>1 DEF Orderly, OneWalkEach
      <4>3. CASE walks[1].ahead = Nil
        <5>1. queue'[walks[j].of] \in Seq(Listeners)
          BY <1>1, <1>4, <3>1
        <5> QED
          BY <3>1, <3>2, <4>1, <4>3, <5>1, Heads
      <4>4. CASE walks[1].ahead # Nil
        <5>1. In(walks[1].ahead, queue[walks[1].of]) /\ walks[1].ahead \in Listeners
          BY <1>2, <2>3, <4>4 DEF Walks
        <5>2. ~In(walks[1].ahead, queue[walks[j].of])
          BY <1>2, <2>1, <3>1, <4>2, <5>1 DEF Orderly, LinkedOnce
        <5> QED
          BY <2>2, <3>1, <3>2, <4>1, <5>2
      <4> QED
        BY <4>3, <4>4
    <3>3. CASE i # 1
      <4>1. walks'[i] = walks[i]
        BY <1>6, <2>6, <3>3
      <4> QED
        BY <2>1, <2>2, <2>10, <3>1, <4>1 DEF Orderly, WalksInPlace
    <3> QED
      BY <3>2, <3>3
  <2>11. WalksInPlace'
    BY <1>6, <2>9, <2>10 DEF WalksInPlace
  <2> QED
    BY <2>2, <2>7, <2>8, <2>11 DEF Orderly
<1> QED
  BY <1>7, <1>8 DEF ListenerIInv

\* An onDestroy that throws breaks the rules.
LEMMA ThrowIInv ==
  ASSUME ListenerIInv, Throw
  PROVE  ListenerIInv' /\ ~Ruled'
<1>1. /\ ListenerTypeOK /\ walks # << >> /\ listenerFault' = Head(walks).stale
      /\ walks' = [walks EXCEPT ![1] = OnTo(queue[walks[1].of], walks[1])]
      /\ listenerMade' \subseteq ListenerMoves /\ "throw" \in listenerMade'
      /\ obj' = obj /\ queue' = queue /\ served' = served
  BY DEF Throw, Move, Advance, OnTo, ListenerIInv, ListenerTypeOK
<1>2. ~Ruled'
  BY <1>1 DEF Ruled
<1>3. /\ walks' \in Seq(Walks) /\ DOMAIN walks' = DOMAIN walks
      /\ walks'[1].phase = "loop"
      /\ \A i \in DOMAIN walks : i # 1 => walks'[i] = walks[i]
  <2>1. /\ 1 \in DOMAIN walks /\ walks[1] \in Walks /\ queue[walks[1].of] \in Seq(Listeners)
    BY <1>1, WalkFacts DEF ListenerTypeOK
  <2>2. OnTo(queue[walks[1].of], walks[1]) \in Walks
    BY <2>1, OnToType
  <2> QED
    BY <1>1, <2>1, <2>2 DEF ListenerTypeOK, OnTo
<1>4. listenerFault' \in BOOLEAN
  BY <1>1, WalkFacts DEF Walks
<1>5. ListenerTypeOK'
  BY <1>1, <1>3, <1>4 DEF ListenerTypeOK
<1> QED
  BY <1>2, <1>5 DEF ListenerIInv

\* A walk that is over leaves an empty list behind.
LEMMA FinishIInv ==
  ASSUME ListenerIInv, Finish, Ruled' => Ruled
  PROVE  ListenerIInv'
<1> DEFINE n == Len(walks)
           o == walks[1].of
<1>1. /\ ListenerTypeOK /\ ~listenerFault
      /\ walks # << >> /\ walks[1].phase = "loop" /\ walks[1].at = Nil
      /\ obj' = [obj EXCEPT ![o] = "dead"] /\ walks' = Tail(walks)
      /\ queue' = queue /\ served' = served
      /\ listenerFault' = listenerFault /\ listenerMade' = listenerMade
  BY WalkFacts DEF Finish, ListenerIInv
<1>2. /\ DOMAIN walks = 1..n /\ n \in Nat /\ 1 \in DOMAIN walks
      /\ \A i \in DOMAIN walks : walks[i] \in Walks /\ walks[i].of \in Objects
  BY <1>1, WalkFacts
<1>3. /\ walks' \in Seq(Walks) /\ DOMAIN walks' = 1..(n - 1)
      /\ \A i \in 1..(n - 1) : i + 1 \in 1..n /\ i + 1 # 1 /\ walks'[i] = walks[i + 1]
  <2>1. walks \in Seq(Walks) /\ walks # << >>
    BY <1>1 DEF ListenerTypeOK
  <2>2. /\ walks' \in Seq(Walks) /\ Len(walks') = n - 1
        /\ \A i \in 1..Len(walks') : walks'[i] = walks[i + 1]
    BY <1>1, <2>1, HeadTailProperties
  <2>3. DOMAIN walks' = 1..(n - 1)
    BY <1>2, <2>2
  <2>4. \A i \in 1..(n - 1) : i + 1 \in 1..n /\ i + 1 # 1
    BY <1>2
  <2> QED
    BY <2>2, <2>3, <2>4
<1>4. ListenerTypeOK'
  <2>1. \A i \in 1..(n - 1) : walks'[i].at = Nil => walks'[i].phase = "loop"
    <3>1. \A i \in 1..n : walks[i].at = Nil => walks[i].phase = "loop"
      BY <1>1, <1>2 DEF ListenerTypeOK
    <3>2. ASSUME NEW i \in 1..(n - 1), walks'[i].at = Nil PROVE walks'[i].phase = "loop"
      <4>1. i + 1 \in 1..n /\ walks'[i] = walks[i + 1]
        BY <1>3
      <4> QED
        BY <3>1, <3>2, <4>1
    <3> QED
      BY <3>2
  <2>2. obj' \in [Objects -> {"live", "dying", "dead"}]
    BY <1>1 DEF ListenerTypeOK
  <2>3. /\ queue' \in [Objects -> Seq(Listeners)] /\ served' \in SUBSET Listeners
        /\ listenerMade' \subseteq ListenerMoves /\ listenerFault' \in BOOLEAN
    BY <1>1 DEF ListenerTypeOK
  <2>4. \A i \in DOMAIN walks' : walks'[i].at = Nil => walks'[i].phase = "loop"
    BY <1>3, <2>1
  <2> QED
    BY <1>3, <2>2, <2>3, <2>4 DEF ListenerTypeOK
<1>5. ASSUME Ruled' PROVE Orderly'
  <2>1. Orderly
    BY <1>5 DEF ListenerIInv
  <2>2. queue[o] = << >>
    <3>1. queue[o] \in Seq(Listeners)
      BY <1>1, <1>2 DEF ListenerTypeOK
    <3>2. First(queue[o]) = Nil
      BY <1>1, <1>2, <2>1 DEF Orderly, WalksInPlace, InPlace
    <3> QED
      BY <3>1, <3>2, Heads
  <2>3. LinkedOnce'
    BY <1>1, <1>2, <2>1, <2>2 DEF Orderly, LinkedOnce, ListenerTypeOK
  <2>4. OneWalkEach'
    <3>1. ASSUME NEW p \in Objects
          PROVE  obj'[p] = "dying" <=> \E i \in 1..(n - 1) : walks'[i].of = p
      <4>1. obj[p] = "dying" <=> \E i \in 1..n : walks[i].of = p
        BY <1>2, <2>1 DEF Orderly, OneWalkEach
      <4>2. CASE p = o
        <5>1. obj'[p] = "dead"
          BY <1>1, <4>2 DEF ListenerTypeOK
        <5>2. \A i \in 1..(n - 1) : walks'[i].of # o
          BY <1>2, <1>3, <2>1 DEF Orderly, OneWalkEach
        <5> QED
          BY <4>2, <5>1, <5>2
      <4>3. CASE p # o
        <5>1. obj'[p] = obj[p]
          BY <1>1, <4>3 DEF ListenerTypeOK
        <5>2. (\E i \in 1..n : walks[i].of = p) => \E i \in 1..(n - 1) : walks'[i].of = p
          <6> SUFFICES ASSUME NEW i \in 1..n, walks[i].of = p
                       PROVE  \E j \in 1..(n - 1) : walks'[j].of = p
            OBVIOUS
          <6>1. i # 1
            BY <4>3
          <6>2. i - 1 \in 1..(n - 1) /\ (i - 1) + 1 = i
            BY <1>2, <6>1
          <6> QED
            BY <1>3, <6>2
        <5>3. (\E i \in 1..(n - 1) : walks'[i].of = p) => \E i \in 1..n : walks[i].of = p
          BY <1>3
        <5> QED
          BY <4>1, <5>1, <5>2, <5>3
      <4> QED
        BY <4>2, <4>3
    <3>2. ASSUME NEW i \in 1..(n - 1), NEW j \in 1..(n - 1), walks'[i].of = walks'[j].of
          PROVE  i = j
      <4>1. i + 1 = j + 1
        <5>1. i + 1 \in 1..n /\ j + 1 \in 1..n /\ walks[i + 1].of = walks[j + 1].of
          BY <1>3, <3>2
        <5> QED
          BY <1>2, <2>1, <5>1 DEF Orderly, OneWalkEach
      <4> QED
        BY <4>1
    <3>3. \A i \in 1..(n - 1) : i # 1 => walks'[i].phase = "callback"
      BY <1>2, <1>3, <2>1 DEF Orderly, OneWalkEach
    <3> QED
      BY <1>3, <3>1, <3>2, <3>3 DEF OneWalkEach
  <2>5. WalksInPlace'
    <3>1. \A i \in 1..(n - 1) : InPlace(walks'[i], queue[walks'[i].of])
      BY <1>2, <1>3, <2>1 DEF Orderly, WalksInPlace
    <3>2. ASSUME NEW i \in 1..(n - 1), NEW j \in 1..(n - 1), i < j
          PROVE  ~In(walks'[i].at, queue[walks'[j].of])
      <4>1. i + 1 \in DOMAIN walks /\ j + 1 \in DOMAIN walks /\ i + 1 < j + 1
        BY <1>2, <3>2
      <4>2. ~In(walks[i + 1].at, queue[walks[j + 1].of])
        BY <2>1, <4>1 DEF Orderly, WalksInPlace
      <4>3. walks'[i] = walks[i + 1] /\ walks'[j] = walks[j + 1]
        BY <1>3
      <4> QED
        BY <4>2, <4>3
    <3> QED
      BY <1>1, <1>3, <3>1, <3>2 DEF WalksInPlace
  <2> QED
    BY <1>1, <2>3, <2>4, <2>5 DEF Orderly
<1> QED
  BY <1>4, <1>5 DEF ListenerIInv

\* Every step keeps the invariant.
LEMMA ListenerNextIInv ==
  ListenerIInv /\ [ListenerNext]_listenerVars => ListenerIInv'
<1> SUFFICES ASSUME ListenerIInv, [ListenerNext]_listenerVars PROVE ListenerIInv'
  OBVIOUS
<1>1. Ruled' => Ruled
  BY OnceRuled
<1>2. CASE Application
  BY <1>1, <1>2, AttachIInv, DetachIInv, DestroyIInv DEF Application
<1>3. CASE Emission
  BY <1>1, <1>3, NotifyIInv, ReturnIInv, ThrowIInv, FinishIInv DEF Emission
<1>4. CASE UNCHANGED listenerVars
  <2>1. ListenerTypeOK'
    BY <1>4 DEF listenerVars, ListenerIInv, ListenerTypeOK
  <2>2. Ruled' => Orderly'
    BY <1>1, <1>4 DEF listenerVars, ListenerIInv, Orderly, LinkedOnce, OneWalkEach, WalksInPlace
  <2> QED
    BY <2>1, <2>2 DEF ListenerIInv
<1> QED
  BY <1>2, <1>3, <1>4 DEF ListenerNext

\* The invariant holds of every behaviour of the destroy signals.
THEOREM ListenerInductive == ListenerSpec => []ListenerIInv
BY ListenerInitIInv, ListenerNextIInv, PTL DEF ListenerSpec

\* Lists, walks and objects keep their types, whatever onDestroy does.
THEOREM TypesAreRight == ListenerSpec => []ListenerTypeOK
<1>1. ListenerIInv => ListenerTypeOK
  BY DEF ListenerIInv
<1> QED
  BY <1>1, ListenerInductive, PTL

\* No walk follows a freed node and no listener a freed list, however the walks
\* nest and whatever they attach, detach and destroy, within the rules.
THEOREM FreedMemoryIsLeftAlone == ListenerSpec => []NoFault
<1>1. ListenerIInv => NoFault
  BY DEF ListenerIInv, Orderly, NoFault
<1> QED
  BY <1>1, ListenerInductive, PTL

-----------------------------------------------------------------------------
(* The promise of OneShotListener, step by step. *)

ArmedWhereLinked ==
  \A l \in Listeners :
    /\ l \in served \/ ~Attached(l) => Armed(l) = Nil
    /\ \A o \in Objects : l \notin served /\ In(l, queue[o]) => Armed(l) = o

\* A listener in one list only is armed on the object of that list.
LEMMA LinkedOnceArmed == LinkedOnce => ArmedWhereLinked
<1> SUFFICES ASSUME LinkedOnce, NEW l \in Listeners
             PROVE  /\ l \in served \/ ~Attached(l) => Armed(l) = Nil
                    /\ \A o \in Objects : l \notin served /\ In(l, queue[o]) => Armed(l) = o
  BY DEF ArmedWhereLinked
<1>1. l \in served \/ ~Attached(l) => Armed(l) = Nil
  BY DEF Armed
<1>2. ASSUME NEW o \in Objects, l \notin served, In(l, queue[o])
      PROVE  Armed(l) = o
  <2>1. \A p \in Objects : l \in LinkedTo(p) <=> p = o
    BY <1>2, LinkedIsIn DEF LinkedOnce
  <2>2. Armed(l) = CHOOSE p \in Objects : l \in LinkedTo(p)
    BY <1>2, <2>1 DEF Armed, Attached
  <2> QED
    BY <2>1, <2>2
<1> QED
  BY <1>1, <1>2

\* What holds while the promise does.
Kept == ListenerTypeOK /\ Orderly /\ Ruled /\ ArmedWhereLinked

\* The invariant gives what the promise needs.
LEMMA RuledIsKept == ListenerIInv /\ Ruled => Kept
BY LinkedOnceArmed DEF ListenerIInv, Orderly, Kept

\* A listener that no list gains or loses stays as armed as it was.
LEMMA StaysArmed ==
  ASSUME Kept, Kept', NEW l \in Listeners, l \in served' <=> l \in served,
         \A o \in Objects : In(l, queue'[o]) <=> In(l, queue[o])
  PROVE  Armed(l)' = Armed(l)
<1>1. Attached(l) <=> \E o \in Objects : In(l, queue[o])
  BY LinkedIsIn DEF Attached
<1>2. Attached(l)' <=> \E o \in Objects : In(l, queue'[o])
  BY DEF Attached, LinkedTo, In
<1>3. CASE l \in served \/ ~Attached(l)
  BY <1>1, <1>2, <1>3 DEF Kept, ArmedWhereLinked
<1>4. CASE l \notin served /\ Attached(l)
  <2>1. PICK o \in Objects : In(l, queue[o])
    BY <1>1, <1>4
  <2> QED
    BY <1>4, <2>1 DEF Kept, ArmedWhereLinked
<1> QED
  BY <1>3, <1>4

\* A step that arms, calls and condemns nothing is no step of the promise.
LEMMA NothingPromised ==
  ASSUME Kept, Kept', served' = served, obj' = obj,
         \A l \in Listeners : Armed(l)' = Armed(l)
  PROVE  UNCHANGED OneShot!vars
<1>1. [l \in Listeners |-> Armed(l)]' = [l \in Listeners |-> Armed(l)]
  OBVIOUS
<1>2. (~Ruled)' = (~Ruled)
  BY DEF Kept
<1> QED
  BY <1>1, <1>2 DEF OneShot!vars, OneShot!promised

\* Attaching arms a listener that was not armed.
LEMMA AttachArms ==
  ASSUME Kept, Kept', NEW l \in Listeners, NEW o \in Objects, Attach(l, o)
  PROVE  OneShot!Arm(l, o)
<1>1. /\ queue \in [Objects -> Seq(Listeners)]
      /\ queue' = [queue EXCEPT ![o] = Append(queue[o], l)]
      /\ served' = served \ {l} /\ obj' = obj /\ obj[o] # "dead" /\ ~Attached(l)
  BY DEF Attach, Kept, ListenerTypeOK
<1>2. \A g : In(g, queue'[o]) <=> In(g, queue[o]) \/ g = l
  BY <1>1, Appended
<1>3. \A p \in Objects : p # o => queue'[p] = queue[p]
  BY <1>1
<1>4. Armed(l) = Nil
  BY <1>1 DEF Kept, ArmedWhereLinked
<1>5. Armed(l)' = o
  BY <1>1, <1>2 DEF Kept, ArmedWhereLinked
<1>6. \A k \in Listeners : k # l => Armed(k)' = Armed(k)
  BY <1>1, <1>2, <1>3, StaysArmed
<1>7. [k \in Listeners |-> Armed(k)]' = [[k \in Listeners |-> Armed(k)] EXCEPT ![l] = o]
  BY <1>5, <1>6
<1> QED
  BY <1>1, <1>4, <1>7 DEF OneShot!Arm

\* Unlinking disarms a listener, unless it was called before.
LEMMA UnlinkedDisarms ==
  ASSUME Kept, Kept', NEW l \in Listeners, queue' = Unlinked(l), obj' = obj,
         served' = served
  PROVE  OneShot!Disarm(l) \/ UNCHANGED OneShot!vars
<1>1. \A o \in Objects : \A g : In(g, queue'[o]) <=> In(g, queue[o]) /\ g # l
  BY UnlinkLinkedOnce DEF Kept, Orderly
<1>2. \A k \in Listeners : k # l => Armed(k)' = Armed(k)
  BY <1>1, StaysArmed
<1>3. Armed(l)' = Nil
  <2>1. ~Attached(l)'
    BY <1>1 DEF Attached, LinkedTo, In
  <2> QED
    BY <2>1 DEF Kept, ArmedWhereLinked
<1>4. CASE Armed(l) = Nil
  BY <1>2, <1>3, <1>4, NothingPromised
<1>5. CASE Armed(l) # Nil
  <2>1. [k \in Listeners |-> Armed(k)]' =
          [[k \in Listeners |-> Armed(k)] EXCEPT ![l] = Nil]
    BY <1>2, <1>3
  <2> QED
    BY <1>5, <2>1 DEF OneShot!Disarm
<1> QED
  BY <1>4, <1>5

\* Destroying condemns a live object.
LEMMA DestroyCondemns ==
  ASSUME Kept, Kept', NEW o \in Objects, Destroy(o)
  PROVE  OneShot!Condemn(o)
<1>1. /\ obj \in [Objects -> {"live", "dying", "dead"}] /\ obj[o] = "live"
      /\ obj' = [obj EXCEPT ![o] = "dying"] /\ queue' = queue /\ served' = served
  BY DEF Destroy, Kept, ListenerTypeOK
<1>2. \A k \in Listeners : Armed(k)' = Armed(k)
  BY <1>1, StaysArmed
<1>3. [k \in Listeners |-> Armed(k)]' = [k \in Listeners |-> Armed(k)]
  BY <1>2
<1>4. /\ {p \in Objects : obj[p] # "live"}' = {p \in Objects : obj[p] # "live"} \cup {o}
      /\ {p \in Objects : obj[p] = "dead"}' = {p \in Objects : obj[p] = "dead"}
  BY <1>1
<1> QED
  BY <1>1, <1>3, <1>4 DEF OneShot!Condemn

\* The listener a walk calls is armed on the object of the walk, or was
\* called since it was attached: it may only have been attached again.
LEMMA NotifyCalls ==
  ASSUME Kept, Kept', Notify
  PROVE  (\E l \in Listeners : OneShot!Call(l)) \/ UNCHANGED OneShot!vars
<1>1. /\ walks # << >> /\ walks[1].phase = "loop" /\ walks[1].at # Nil
      /\ served' = served \cup {walks[1].at} /\ obj' = obj /\ queue' = queue
  BY WalkFacts DEF Notify, Kept
<1>2. 1 \in DOMAIN walks /\ walks[1] \in Walks
  BY <1>1, WalkFacts DEF Kept
<1>3. PICK w \in Walks : w = walks[1]
  BY <1>2
<1> DEFINE l == w.at
<1>4. l \in Listeners /\ w.of \in Objects
  BY <1>1, <1>3 DEF Walks
<1>5. l # Nil /\ In(l, queue[w.of])
  <2>1. queue[w.of] \in Seq(Listeners)
    BY <1>4 DEF Kept, ListenerTypeOK
  <2>2. l = First(queue[w.of])
    BY <1>1, <1>2, <1>3 DEF Kept, Orderly, WalksInPlace, InPlace
  <2> QED
    BY <1>1, <1>3, <2>1, <2>2, Heads
<1>6. obj[w.of] = "dying"
  BY <1>2, <1>3, <1>4 DEF Kept, Orderly, OneWalkEach
<1>7. served' = served \cup {l}
  BY <1>1, <1>3
<1> HIDE DEF l
<1>8. \A k \in Listeners : k # l => Armed(k)' = Armed(k)
  BY <1>1, <1>7, StaysArmed
<1>9. Armed(l)' = Nil
  BY <1>4, <1>7 DEF Kept, ArmedWhereLinked
<1>10. CASE l \in served
  <2>1. served' = served /\ Armed(l) = Nil
    BY <1>4, <1>7, <1>10 DEF Kept, ArmedWhereLinked
  <2> QED
    BY <1>1, <1>8, <1>9, <2>1, NothingPromised
<1>11. CASE l \notin served
  <2>1. Armed(l) = w.of
    BY <1>4, <1>5, <1>11 DEF Kept, ArmedWhereLinked
  <2>2. [k \in Listeners |-> Armed(k)]' =
          [[k \in Listeners |-> Armed(k)] EXCEPT ![l] = Nil]
    BY <1>8, <1>9
  <2>3. w.of \in {p \in Objects : obj[p] # "live"}
    BY <1>6, <1>4
  <2>4. OneShot!Call(l)
    BY <1>1, <1>4, <1>7, <2>1, <2>2, <2>3 DEF OneShot!Call
  <2> QED
    BY <1>4, <2>4
<1> QED
  BY <1>10, <1>11

\* An object is freed when no listener is armed on it.
LEMMA FinishFrees ==
  ASSUME Kept, Kept', Finish
  PROVE  \E o \in Objects : OneShot!Free(o)
<1>1. /\ walks # << >> /\ walks[1].at = Nil /\ walks[1].phase = "loop"
      /\ obj' = [obj EXCEPT ![walks[1].of] = "dead"] /\ queue' = queue /\ served' = served
      /\ obj \in [Objects -> {"live", "dying", "dead"}]
  BY WalkFacts DEF Finish, Kept, ListenerTypeOK
<1>2. 1 \in DOMAIN walks /\ walks[1].of \in Objects
  BY <1>1, WalkFacts DEF Kept
<1>3. PICK o \in Objects : o = walks[1].of
  BY <1>2
<1>4. obj[o] = "dying"
  BY <1>2, <1>3 DEF Kept, Orderly, OneWalkEach
<1>5. \A l : ~In(l, queue[o])
  <2>1. queue[o] \in Seq(Listeners)
    BY DEF Kept, ListenerTypeOK
  <2>2. First(queue[o]) = Nil
    BY <1>1, <1>2, <1>3 DEF Kept, Orderly, WalksInPlace, InPlace
  <2>3. queue[o] = << >>
    BY <2>1, <2>2, Heads
  <2> QED
    BY <2>3 DEF In
<1>6. ASSUME NEW l \in Listeners PROVE Armed(l) # o
  <2>1. CASE l \in served \/ ~Attached(l)
    BY <2>1, NilApart DEF Kept, ArmedWhereLinked
  <2>2. CASE l \notin served /\ Attached(l)
    <3>1. PICK p \in Objects : In(l, queue[p])
      BY <2>2, LinkedIsIn DEF Attached
    <3>2. Armed(l) = p
      BY <2>2, <3>1 DEF Kept, ArmedWhereLinked
    <3> QED
      BY <1>5, <3>1, <3>2
  <2> QED
    BY <2>1, <2>2
<1>7. \A k \in Listeners : Armed(k)' = Armed(k)
  BY <1>1, StaysArmed
<1>8. [k \in Listeners |-> Armed(k)]' = [k \in Listeners |-> Armed(k)]
  BY <1>7
<1>9. /\ {p \in Objects : obj[p] # "live"}' = {p \in Objects : obj[p] # "live"}
      /\ {p \in Objects : obj[p] = "dead"}' = {p \in Objects : obj[p] = "dead"} \cup {o}
  BY <1>1, <1>3, <1>4
<1>10. o \in {p \in Objects : obj[p] # "live"} \ {p \in Objects : obj[p] = "dead"}
  BY <1>4
<1>11. OneShot!Free(o)
  BY <1>1, <1>6, <1>8, <1>9, <1>10 DEF OneShot!Free
<1> QED
  BY <1>11

\* Every step of the lists and walks is a step of the promise or none.
LEMMA NextPromise ==
  ListenerIInv /\ ListenerIInv' /\ [ListenerNext]_listenerVars => [OneShot!Next]_(OneShot!vars)
<1> SUFFICES ASSUME ListenerIInv, ListenerIInv', [ListenerNext]_listenerVars
             PROVE  OneShot!Next \/ UNCHANGED OneShot!vars
  OBVIOUS
<1>1. CASE ~Ruled'
  BY <1>1 DEF OneShot!Next
<1>2. CASE Ruled'
  <2>1. Ruled
    BY <1>2, OnceRuled
  <2>2. Kept /\ Kept'
    <3>1. ListenerIInv' /\ Ruled' => Kept'
      BY RuledIsKept, PTL
    <3> QED
      BY <1>2, <2>1, <3>1, RuledIsKept
  <2>3. SUFFICES OneShot!Keeping \/ UNCHANGED OneShot!vars
    BY <1>2, <2>1 DEF OneShot!Next
  <2>4. CASE Application
    <3>1. ASSUME NEW l \in Listeners, Detach(l)
          PROVE  OneShot!Disarm(l) \/ UNCHANGED OneShot!vars
      BY <2>2, <3>1, UnlinkedDisarms DEF Detach
    <3> QED
      BY <2>2, <2>4, <3>1, AttachArms, DestroyCondemns DEF Application, OneShot!Keeping
  <2>5. CASE Notify
    BY <2>2, <2>5, NotifyCalls DEF OneShot!Keeping
  <2>6. CASE Return
    <3>1. PICK l \in Listeners : queue' = Unlinked(l) /\ obj' = obj /\ served' = served
      BY <2>2, <2>6, WalkFacts DEF Return, Kept
    <3> QED
      BY <2>2, <3>1, UnlinkedDisarms DEF OneShot!Keeping
  <2>7. CASE Throw
    BY <1>2, <2>7, ThrowIInv
  <2>8. CASE Finish
    BY <2>2, <2>8, FinishFrees DEF OneShot!Keeping
  <2>9. CASE UNCHANGED listenerVars
    BY <2>2, <2>9, StaysArmed, NothingPromised DEF listenerVars
  <2> QED
    BY <2>4, <2>5, <2>6, <2>7, <2>8, <2>9 DEF ListenerNext, Emission
<1> QED
  BY <1>1, <1>2

\* Nothing is promised at first.
LEMMA InitPromise == ListenerInit => OneShot!Init
<1> SUFFICES ASSUME ListenerInit PROVE OneShot!Init
  OBVIOUS
<1>1. \A l \in Listeners : Armed(l) = Nil
  BY DEF ListenerInit, Armed, Attached, LinkedTo
<1>2. Ruled
  BY DEF ListenerInit, Ruled
<1>3. {o \in Objects : obj[o] # "live"} = {} /\ {o \in Objects : obj[o] = "dead"} = {}
  BY DEF ListenerInit
<1> QED
  BY <1>1, <1>2, <1>3 DEF ListenerInit, OneShot!Init

\* Every step of the lists and walks is one the promise allows: a listener is
\* called at most once per attachment, only when its object is condemned, and
\* no object is freed before the listeners attached to it were called.
THEOREM ListenersAreOneShot ==
  ListenerSpec => OneShot!Init /\ [][OneShot!Next]_(OneShot!vars)
BY InitPromise, NextPromise, ListenerInductive, PTL DEF ListenerSpec
=============================================================================
