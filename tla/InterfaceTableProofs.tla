------------------------ MODULE InterfaceTableProofs ------------------------
(***************************************************************************)
(* Proofs about InterfaceTable: IInv is inductive for any interfaces, any  *)
(* messages that name only what was constructed before, any number of      *)
(* threads and blocks, with failures, races and finalizers or without.     *)
(*                                                                         *)
(* Push, Publish and the steps that start nothing move frames in three     *)
(* ways; Pushed, Popped and Settles say how, and a lemma for each part of  *)
(* IInv says that it stays.                                                *)
(***************************************************************************)
EXTENDS InterfaceTable, SequenceTheorems, TLAPS

-----------------------------------------------------------------------------
(* The inductive invariant. *)

Owner(th, k) == owner[stack[th][k].table]

\* Each frame has a block to itself, and no field leads to one before it is
\* finished.
OwnBlocks ==
  /\ \A th \in Threads : \A k \in DOMAIN stack[th] : Owner(th, k) # None
  /\ \A th, other \in Threads : \A k \in DOMAIN stack[th], n \in DOMAIN stack[other] :
       stack[th][k].table = stack[other][n].table => th = other /\ k = n
  /\ \A i \in Interfaces :
       pointer[i] # None => owner[pointer[i]] = i /\ pointer[i] \notin Building

\* Frame f of interface i is within its messages, and has types only in one.
Within(f, i) ==
  LET n == Len(messages[f.table])
  IN /\ n <= Len(Messages[i])
     /\ f.types # << >> => n < Len(Messages[i])
     /\ n < Len(Messages[i]) => Len(f.types) <= Len(Messages[i][n + 1])

\* Frame f of interface i waits for the table of its next type, j.
WaitsFor(f, i, j) ==
  LET n == Len(messages[f.table])
  IN /\ n < Len(Messages[i])
     /\ Len(f.types) < Len(Messages[i][n + 1])
     /\ Messages[i][n + 1][Len(f.types) + 1] = j

\* Every frame but the innermost waits for the one inside it.
Nested ==
  \A th \in Threads : \A k \in DOMAIN stack[th] :
    /\ Within(stack[th][k], Owner(th, k))
    /\ k # 1 => WaitsFor(stack[th][k], Owner(th, k), Owner(th, k - 1))
    /\ \A n \in DOMAIN stack[th] : n < k => << Owner(th, n), Owner(th, k) >> \in Below

\* What stands for type j: a finished table of that interface.
Right(x, j) ==
  IF j = None THEN x = None ELSE x \in Tables \ Building /\ owner[x] = j

\* The messages in t are messages of i.
Filled(t, i) ==
  \A m \in DOMAIN messages[t] :
    /\ Len(messages[t][m]) = Len(Messages[i][m])
    /\ \A k \in DOMAIN messages[t][m] : Right(messages[t][m][k], Messages[i][m][k])

\* The types taken in frame f are those of the next message of i.
Taken(f, i) ==
  \A k \in DOMAIN f.types : Right(f.types[k], Messages[i][Len(messages[f.table]) + 1][k])

Frames(th) == {stack[th][k] : k \in DOMAIN stack[th]}

\* What was written for an interface that is reachable is right.
Contents ==
  /\ \A j \in Reachable, t \in Tables :
       pointer[j] = t => Len(messages[t]) = Len(Messages[j]) /\ Filled(t, j)
  /\ \A th \in Threads : \A f \in Frames(th), j \in Reachable :
       owner[f.table] = j => Filled(f.table, j) /\ Taken(f, j)

\* What is finalized stays out of reach and has no table.
Buried ==
  /\ Reachable \cap finalized = {}
  /\ \A i \in finalized : pointer[i] = None

\* Without races one thread builds, and what it builds is not there yet.
NoRace ==
  "race" \notin Moves =>
    /\ \A th, other \in Threads : stack[th] # << >> /\ stack[other] # << >> => th = other
    /\ \A th \in Threads : \A k \in DOMAIN stack[th] : pointer[Owner(th, k)] = None

\* A finished table is the one interface_ptr leads to, but for a race.
Found ==
  \A t \in Tables \ Building :
    owner[t] # None =>
      \/ pointer[owner[t]] = t
      \/ "race" \in Moves /\ (pointer[owner[t]] # None \/ owner[t] \in finalized)

\* Copies are left behind only where get_java_method may fail.
Explained == stray => "noMethod" \in Moves

IInv ==
  /\ TypeOK
  /\ OwnBlocks
  /\ Nested
  /\ Contents
  /\ Buried
  /\ NoRace
  /\ Found
  /\ Explained

-----------------------------------------------------------------------------
(* Proofs. *)

\* An interface needs itself, the types of its messages, and what they need.
LEMMA NeedsClosed ==
  ASSUME NEW j \in Interfaces
  PROVE  /\ Needs[j] \subseteq Interfaces
         /\ j \in Needs[j]
         /\ \A h \in Needs[j] : Names(h) \subseteq Needs[j] /\ Needs[h] \subseteq Needs[j]
<1>1. Needs[j] = {h \in Interfaces :
                    \A S \in SUBSET Interfaces : j \in S /\ Closed(S) => h \in S}
  BY DEF Needs
<1>2. ASSUME NEW h \in Needs[j], NEW g \in Names(h) PROVE g \in Needs[j]
  <2>1. g \in Interfaces
    BY DEF Names
  <2>2. ASSUME NEW S \in SUBSET Interfaces, j \in S, Closed(S) PROVE g \in S
    <3>1. h \in S
      BY <1>1, <2>2
    <3> QED
      BY <2>2, <3>1 DEF Closed
  <2> QED
    BY <1>1, <2>1, <2>2
<1>3. Needs[j] \in SUBSET Interfaces /\ Closed(Needs[j])
  BY <1>1, <1>2 DEF Closed
<1>4. ASSUME NEW h \in Needs[j], NEW g \in Needs[h] PROVE g \in Needs[j]
  <2>1. h \in Interfaces
    BY <1>1
  <2>2. Needs[h] = {f \in Interfaces :
                      \A S \in SUBSET Interfaces : h \in S /\ Closed(S) => f \in S}
    BY <2>1 DEF Needs
  <2> QED
    BY <1>3, <1>4, <2>2
<1> QED
  BY <1>1, <1>2, <1>4

-----------------------------------------------------------------------------
(* Frames. *)

\* A frame more at the head.
LEMMA FramePushed ==
  ASSUME NEW s \in Seq(Frame), NEW f \in Frame
  PROVE  /\ << f >> \o s \in Seq(Frame)
         /\ DOMAIN (<< f >> \o s) = 1 .. Len(s) + 1
         /\ << f >> \o s # << >>
         /\ (<< f >> \o s)[1] = f
         /\ \A k \in 1 .. Len(s) : (<< f >> \o s)[k + 1] = s[k]
<1>1. /\ << f >> \in Seq(Frame) /\ Len(<< f >>) = 1 /\ << f >>[1] = f
      /\ Len(s) \in Nat
  OBVIOUS
<1>2. /\ << f >> \o s \in Seq(Frame)
      /\ Len(<< f >> \o s) = Len(s) + 1
      /\ \A k \in 1 .. Len(s) + 1 : (<< f >> \o s)[k] = IF k <= 1 THEN << f >>[k] ELSE s[k - 1]
  BY <1>1, ConcatProperties
<1> QED
  BY <1>1, <1>2

\* The head goes.
LEMMA FramePopped ==
  ASSUME NEW s \in Seq(Frame), s # << >>
  PROVE  /\ Tail(s) \in Seq(Frame)
         /\ DOMAIN Tail(s) = 1 .. Len(s) - 1
         /\ \A k \in DOMAIN Tail(s) : Tail(s)[k] = s[k + 1] /\ k + 1 \in DOMAIN s
OBVIOUS

\* The types of the head change.
LEMMA FrameChanged ==
  ASSUME NEW s \in Seq(Frame), s # << >>, NEW v \in Seq(Tables \cup {None})
  PROVE  /\ WithTypes(s, v) \in Seq(Frame)
         /\ DOMAIN WithTypes(s, v) = DOMAIN s
         /\ WithTypes(s, v)[1] = [table |-> s[1].table, types |-> v]
         /\ \A k \in DOMAIN s : k # 1 => WithTypes(s, v)[k] = s[k]
<1> DEFINE new == WithTypes(s, v)
<1>1. DOMAIN s = 1 .. Len(s) /\ Len(s) \in Nat /\ 1 \in DOMAIN s
  OBVIOUS
<1>2. \A k \in DOMAIN s : s[k] \in Frame
  OBVIOUS
<1>3. /\ DOMAIN new = DOMAIN s
      /\ new[1] = [s[1] EXCEPT !.types = v]
      /\ \A k \in DOMAIN s : k # 1 => new[k] = s[k]
      /\ new = [k \in DOMAIN s |-> new[k]]
  BY <1>1 DEF WithTypes
<1> HIDE DEF new
<1>4. s[1] = [table |-> s[1].table, types |-> s[1].types] /\ s[1].table \in Tables
  BY <1>1, <1>2 DEF Frame
<1>5. new[1] = [table |-> s[1].table, types |-> v]
  BY <1>3, <1>4
<1>6. \A k \in 1 .. Len(s) : new[k] \in Frame
  BY <1>1, <1>2, <1>3, <1>4, <1>5 DEF Frame
<1>7. new \in [1 .. Len(s) -> Frame]
  BY <1>1, <1>3, <1>6
<1> QED
  BY <1>1, <1>3, <1>5, <1>7 DEF new

\* What the types say of a frame and of the interface it is for.
LEMMA FrameFacts ==
  ASSUME InterfaceAssumption, IInv, NEW th \in Threads,
         NEW k \in DOMAIN stack[th]
  PROVE  /\ stack[th][k] \in Frame
         /\ stack[th][k].table \in Tables
         /\ stack[th][k].table \in Building
         /\ stack[th][k].types \in Seq(Tables \cup {None})
         /\ Owner(th, k) \in Interfaces
         /\ Messages[Owner(th, k)] \in Seq(Seq(Interfaces \cup {None}))
         /\ messages[stack[th][k].table] \in Seq(Seq(Tables \cup {None}))
         /\ Within(stack[th][k], Owner(th, k))
<1>1. /\ stack[th] \in Seq(Frame) /\ DOMAIN stack[th] = 1 .. Len(stack[th])
  BY DEF IInv, TypeOK
<1>2. stack[th][k] \in Frame
  BY <1>1
<1>3. /\ stack[th][k].table \in Tables
      /\ stack[th][k].types \in Seq(Tables \cup {None})
  BY <1>2 DEF Frame
<1>4. stack[th][k].table \in Building
  BY <1>1 DEF Building, FrameTables
<1>5. Owner(th, k) \in Interfaces
  BY <1>3 DEF IInv, OwnBlocks, TypeOK, Owner
<1> QED
  BY <1>2, <1>3, <1>4, <1>5 DEF IInv, TypeOK, Nested, InterfaceAssumption

\* Where the blocks in use are.
LEMMA BuildingFacts ==
  ASSUME stack \in [Threads -> Seq(Frame)]
  PROVE  /\ \A t : t \in Building <=>
              \E th \in Threads : \E k \in DOMAIN stack[th] : t = stack[th][k].table
         /\ Building = {} <=> \A th \in Threads : stack[th] = << >>
<1>1. \A th \in Threads : stack[th] \in Seq(Frame) /\ DOMAIN stack[th] = 1 .. Len(stack[th])
  OBVIOUS
<1>2. \A t : t \in Building <=>
        \E th \in Threads : \E k \in DOMAIN stack[th] : t = stack[th][k].table
  BY <1>1 DEF Building, FrameTables
<1>3. ASSUME NEW th \in Threads
      PROVE  stack[th] # << >> <=> \E k \in DOMAIN stack[th] : TRUE
  <2>1. stack[th] # << >> => 1 \in 1 .. Len(stack[th])
    BY <1>1
  <2>2. stack[th] = << >> => 1 .. Len(stack[th]) = {}
    BY <1>1
  <2> QED
    BY <1>1, <2>1, <2>2
<1> QED
  BY <1>2, <1>3

\* Whatever a thread builds is reachable, and so are the types of what is
\* reachable.
LEMMA ReachableFacts ==
  ASSUME InterfaceAssumption, IInv
  PROVE  /\ Reachable \subseteq Interfaces
         /\ \A h \in Reachable : Needs[h] \subseteq Reachable
         /\ kept \subseteq Reachable
         /\ \A th \in Threads : \A k \in DOMAIN stack[th] :
              Owner(th, k) \in Reachable
         /\ \A h \in Reachable : h \notin finalized /\ Names(h) \subseteq Reachable
<1>1. \A th \in Threads : \A k \in DOMAIN stack[th] :
        Owner(th, k) \in Roots
  BY BuildingFacts DEF Roots, Owner, IInv, TypeOK
<1>2. Roots \subseteq Interfaces
  <2>1. kept \subseteq Interfaces
    BY DEF IInv, TypeOK
  <2>2. ASSUME NEW t \in Building
        PROVE  owner[t] \in Interfaces
    <3>1. PICK th \in Threads : \E k \in DOMAIN stack[th] : t = stack[th][k].table
      BY BuildingFacts DEF IInv, TypeOK
    <3>2. PICK k \in DOMAIN stack[th] : t = stack[th][k].table
      BY <3>1
    <3> QED
      BY <3>2, FrameFacts DEF Owner
  <2> QED
    BY <2>1, <2>2 DEF Roots
<1>3. \A j \in Roots : j \in Needs[j] /\ Needs[j] \subseteq Reachable
  BY <1>2, NeedsClosed DEF Reachable
<1>4. \A h \in Reachable :
        h \in Interfaces /\ Names(h) \subseteq Reachable /\ Needs[h] \subseteq Reachable
  BY <1>2, NeedsClosed DEF Reachable
<1>5. kept \subseteq Roots
  BY DEF Roots
<1>6. \A h \in Reachable : h \notin finalized
  BY DEF IInv, Buried
<1> QED
  BY <1>1, <1>3, <1>4, <1>5, <1>6

\* The same of the next state.
LEMMA BuildingNext ==
  ASSUME (stack \in [Threads -> Seq(Frame)])'
  PROVE  (/\ \A t : t \in Building <=>
               \E th \in Threads : \E k \in DOMAIN stack[th] : t = stack[th][k].table
          /\ Building = {} <=> \A th \in Threads : stack[th] = << >>)'
<1>1. \A th \in Threads : stack'[th] \in Seq(Frame) /\ DOMAIN stack'[th] = 1 .. Len(stack'[th])
  OBVIOUS
<1>2. \A t : t \in Building' <=>
        \E th \in Threads : \E k \in DOMAIN stack'[th] : t = stack'[th][k].table
  BY <1>1 DEF Building, FrameTables
<1>3. ASSUME NEW th \in Threads
      PROVE  stack'[th] # << >> <=> \E k \in DOMAIN stack'[th] : TRUE
  <2>1. stack'[th] # << >> => 1 \in 1 .. Len(stack'[th])
    BY <1>1
  <2>2. stack'[th] = << >> => 1 .. Len(stack'[th]) = {}
    BY <1>1
  <2> QED
    BY <1>1, <2>1, <2>2
<1> QED
  BY <1>2, <1>3

\* Nothing becomes reachable again when no thread starts on what is not
\* reachable.
LEMMA ReachableShrinks ==
  ASSUME InterfaceAssumption, IInv,
         kept' \subseteq kept,
         (stack \in [Threads -> Seq(Frame)])',
         \A th \in Threads : \A k \in DOMAIN stack'[th] :
           owner'[stack'[th][k].table] \in Reachable
  PROVE  Reachable' \subseteq Reachable
<1>1. \A h \in Roots' : h \in Reachable
  <2>1. \A t \in Building' :
          \E th \in Threads : \E k \in DOMAIN stack'[th] : t = stack'[th][k].table
    BY BuildingNext
  <2>2. \A t \in Building' : owner'[t] \in Reachable
    BY <2>1
  <2>3. kept' \subseteq Reachable
    BY ReachableFacts
  <2> QED
    BY <2>2, <2>3 DEF Roots
<1>2. \A h \in Reachable : Needs[h] \subseteq Reachable
  BY ReachableFacts
<1> QED
  BY <1>1, <1>2 DEF Reachable

-----------------------------------------------------------------------------
(* What a step leaves alone. *)

\* The finished tables of what is reachable stay as they are.
Steady ==
  \A x \in Tables \ Building :
    owner[x] \in Reachable =>
      owner'[x] = owner[x] /\ messages'[x] = messages[x] /\ x \notin Building'

\* A table that stands for a type of something reachable still does.
LEMMA RightKept ==
  ASSUME InterfaceAssumption, IInv, Steady,
         NEW h \in Reachable, NEW j \in Names(h) \cup {None}, NEW x, Right(x, j)
  PROVE  Right(x, j)'
<1>1. Names(h) \subseteq Reachable /\ Reachable \subseteq Interfaces
  BY ReachableFacts
<1>2. j # None => x \in Tables \ Building /\ owner[x] \in Reachable
  BY <1>1 DEF Right
<1> QED
  BY <1>2 DEF Steady, Right

\* The types of a message are among the names, or null.
LEMMA TypesAreNames ==
  ASSUME InterfaceAssumption, NEW h \in Interfaces,
         NEW m \in 1 .. Len(Messages[h]), NEW k \in 1 .. Len(Messages[h][m])
  PROVE  Messages[h][m][k] \in Names(h) \cup {None}
<1>1. /\ Messages[h] \in Seq(Seq(Interfaces \cup {None}))
  BY DEF InterfaceAssumption
<1>2. Messages[h][m] \in Seq(Interfaces \cup {None})
  BY <1>1
<1>3. Messages[h][m][k] \in Interfaces \cup {None}
  BY <1>2
<1> QED
  BY <1>3 DEF Names

\* Messages that were right are right afterwards.
LEMMA FilledKept ==
  ASSUME InterfaceAssumption, IInv, Steady,
         NEW h \in Reachable, NEW t \in Tables,
         Len(messages[t]) <= Len(Messages[h]), Filled(t, h),
         messages'[t] = messages[t]
  PROVE  Filled(t, h)'
<1>1. /\ messages[t] \in Seq(Seq(Tables \cup {None}))
      /\ h \in Interfaces /\ Messages[h] \in Seq(Seq(Interfaces \cup {None}))
  BY ReachableFacts DEF IInv, TypeOK, InterfaceAssumption
<1>2. ASSUME NEW m \in DOMAIN messages[t], NEW k \in DOMAIN messages[t][m]
      PROVE  Right(messages[t][m][k], Messages[h][m][k])'
  <2>1. m \in 1 .. Len(Messages[h])
    BY <1>1
  <2>2. messages[t][m] \in Seq(Tables \cup {None})
    BY <1>1
  <2>3. k \in 1 .. Len(Messages[h][m])
    BY <1>1, <2>2 DEF Filled
  <2>4. Messages[h][m][k] \in Names(h) \cup {None}
    BY <1>1, <2>1, <2>3, TypesAreNames
  <2> QED
    BY <2>4, RightKept DEF Filled
<1> QED
  BY <1>2 DEF Filled

\* Types that were taken are right afterwards.
LEMMA TakenKept ==
  ASSUME InterfaceAssumption, IInv, Steady,
         NEW h \in Reachable, NEW f \in Frame,
         Within(f, h), Taken(f, h), messages'[f.table] = messages[f.table]
  PROVE  Taken(f, h)'
<1>1. /\ f.table \in Tables /\ f.types \in Seq(Tables \cup {None})
      /\ messages[f.table] \in Seq(Seq(Tables \cup {None}))
      /\ h \in Interfaces /\ Messages[h] \in Seq(Seq(Interfaces \cup {None}))
  BY ReachableFacts DEF IInv, TypeOK, InterfaceAssumption, Frame
<1> DEFINE n == Len(messages[f.table])
<1>2. ASSUME NEW k \in DOMAIN f.types
      PROVE  Right(f.types[k], Messages[h][n + 1][k])'
  <2>1. n \in Nat /\ f.types # << >> /\ k \in 1 .. Len(f.types)
    BY <1>1
  <2>2. n + 1 \in 1 .. Len(Messages[h])
    BY <1>1, <2>1 DEF Within
  <2>3. Messages[h][n + 1] \in Seq(Interfaces \cup {None})
    BY <1>1, <2>2
  <2>4. k \in 1 .. Len(Messages[h][n + 1])
    BY <1>1, <2>1, <2>2, <2>3 DEF Within
  <2>5. Messages[h][n + 1][k] \in Names(h) \cup {None}
    BY <1>1, <2>2, <2>4, TypesAreNames
  <2> QED
    BY <2>5, RightKept DEF Taken
<1> QED
  BY <1>2 DEF Taken

\* The table of something reachable stays whole.
LEMMA PublishedKept ==
  ASSUME InterfaceAssumption, IInv, Steady,
         NEW h \in Reachable, NEW t \in Tables, pointer[h] = t
  PROVE  /\ Len(messages'[t]) = Len(Messages[h])
         /\ Filled(t, h)'
<1>1. h \in Interfaces
  BY ReachableFacts
<1>2. t \in Tables \ Building /\ owner[t] = h
  BY <1>1 DEF IInv, TypeOK, OwnBlocks, InterfaceAssumption
<1>3. messages'[t] = messages[t]
  BY <1>2 DEF Steady
<1>4. Len(messages[t]) = Len(Messages[h]) /\ Filled(t, h)
  BY DEF IInv, Contents
<1>5. Len(messages[t]) \in Nat
  BY <1>2 DEF IInv, TypeOK
<1>6. Len(messages[t]) <= Len(Messages[h])
  BY <1>4, <1>5
<1>7. t \in Tables
  BY <1>2
<1>8. Filled(t, h)'
  BY <1>3, <1>4, <1>6, <1>7, FilledKept
<1> QED
  BY <1>3, <1>4, <1>8

\* So does what an unchanged frame has built so far.
LEMMA FrameKept ==
  ASSUME InterfaceAssumption, IInv, Steady,
         NEW th \in Threads, NEW k \in DOMAIN stack[th],
         NEW f, f = stack[th][k], NEW h, h = Owner(th, k),
         messages'[f.table] = messages[f.table]
  PROVE  /\ Within(f, h)'
         /\ h \in Reachable => Filled(f.table, h)' /\ Taken(f, h)'
<1>1. /\ f \in Frame /\ f.table \in Tables /\ Within(f, h)
      /\ Len(messages[f.table]) <= Len(Messages[h])
  BY FrameFacts DEF Within
<1>2. Within(f, h)'
  BY <1>1 DEF Within
<1>3. h \in Reachable => Filled(f.table, h) /\ Taken(f, h)
  <2>1. f \in Frames(th) /\ owner[f.table] = h
    BY DEF Frames, Owner
  <2> QED
    BY <2>1 DEF IInv, Contents
<1> QED
  BY <1>1, <1>2, <1>3, FilledKept, TakenKept

\* When only the progress of frames changes, the rest of the invariant stays.
LEMMA SameFrames ==
  ASSUME InterfaceAssumption, IInv,
         (stack \in [Threads -> Seq(Frame)])',
         UNCHANGED << pointer, owner, kept, finalized, stray >>,
         \A th \in Threads :
           /\ DOMAIN stack'[th] = DOMAIN stack[th]
           /\ \A k \in DOMAIN stack[th] : stack'[th][k].table = stack[th][k].table
  PROVE  /\ Building' = Building
         /\ Reachable' \subseteq Reachable
         /\ \A th \in Threads : \A k \in DOMAIN stack[th] : Owner(th, k)' = Owner(th, k)
         /\ OwnBlocks' /\ Buried' /\ NoRace' /\ Found' /\ Explained'
<1>1. \A th \in Threads : \A k \in DOMAIN stack[th] : Owner(th, k)' = Owner(th, k)
  BY DEF Owner
<1>2. Building' = Building
  <2>1. \A t : t \in Building <=>
          \E th \in Threads : \E k \in DOMAIN stack[th] : t = stack[th][k].table
    BY BuildingFacts DEF IInv, TypeOK
  <2>2. \A t : t \in Building' <=>
          \E th \in Threads : \E k \in DOMAIN stack'[th] : t = stack'[th][k].table
    BY BuildingNext
  <2>3. ASSUME NEW t \in Building PROVE t \in Building'
    <3>1. PICK th \in Threads : \E k \in DOMAIN stack[th] : t = stack[th][k].table
      BY <2>1
    <3> QED
      BY <2>2, <3>1
  <2>4. ASSUME NEW t \in Building' PROVE t \in Building
    <3>1. PICK th \in Threads : \E k \in DOMAIN stack'[th] : t = stack'[th][k].table
      BY <2>2
    <3> QED
      BY <2>1, <3>1
  <2> QED
    BY <2>3, <2>4
<1>3. Reachable' \subseteq Reachable
  <2>1. \A th \in Threads : \A k \in DOMAIN stack'[th] :
          owner'[stack'[th][k].table] \in Reachable
    BY ReachableFacts DEF Owner
  <2> QED
    BY <2>1, ReachableShrinks
<1>4. \A th \in Threads : stack'[th] = << >> <=> stack[th] = << >>
  <2>1. \A th \in Threads : stack[th] \in Seq(Frame) /\ stack'[th] \in Seq(Frame)
    BY DEF IInv, TypeOK
  <2> QED
    BY <2>1
<1>5. OwnBlocks'
  <2>1. \A th \in Threads : \A k \in DOMAIN stack'[th] : Owner(th, k)' # None
    BY <1>1 DEF IInv, OwnBlocks
  <2>2. \A th, other \in Threads : \A k \in DOMAIN stack'[th], n \in DOMAIN stack'[other] :
          stack'[th][k].table = stack'[other][n].table => th = other /\ k = n
    <3>1. \A th, other \in Threads : \A k \in DOMAIN stack[th], n \in DOMAIN stack[other] :
            stack[th][k].table = stack[other][n].table => th = other /\ k = n
      BY DEF IInv, OwnBlocks
    <3> QED
      BY <3>1
  <2>3. \A h \in Interfaces :
          pointer[h] # None => owner[pointer[h]] = h /\ pointer[h] \notin Building'
    BY <1>2 DEF IInv, OwnBlocks
  <2> QED
    BY <2>1, <2>2, <2>3 DEF OwnBlocks
<1>6. Buried'
  BY <1>3 DEF IInv, Buried
<1>7. NoRace'
  <2> SUFFICES ASSUME "race" \notin Moves
               PROVE  /\ \A th, other \in Threads :
                           stack'[th] # << >> /\ stack'[other] # << >> => th = other
                      /\ \A th \in Threads : \A k \in DOMAIN stack'[th] :
                           pointer'[Owner(th, k)'] = None
    BY DEF NoRace
  <2>1. /\ \A th, other \in Threads : stack[th] # << >> /\ stack[other] # << >> => th = other
        /\ \A th \in Threads : \A k \in DOMAIN stack[th] : pointer[Owner(th, k)] = None
    BY DEF IInv, NoRace
  <2>2. \A th, other \in Threads :
          stack'[th] # << >> /\ stack'[other] # << >> => th = other
    BY <1>4, <2>1
  <2>3. ASSUME NEW th \in Threads, NEW k \in DOMAIN stack'[th]
        PROVE  pointer'[Owner(th, k)'] = None
    <3>1. k \in DOMAIN stack[th] /\ Owner(th, k)' = Owner(th, k) /\ pointer' = pointer
      BY <1>1
    <3> QED
      BY <2>1, <3>1
  <2> QED
    BY <2>2, <2>3
<1>8. Found' /\ Explained'
  BY <1>2 DEF IInv, Found, Explained
<1> QED
  BY <1>1, <1>2, <1>3, <1>5, <1>6, <1>7, <1>8

\* The innermost frame, as the actions see it.
LEMMA TopFacts ==
  ASSUME InterfaceAssumption, IInv, NEW th \in Threads, stack[th] # << >>
  PROVE  /\ 1 \in DOMAIN stack[th]
         /\ Top(th) = stack[th][1]
         /\ Current(th) = Messages[Owner(th, 1)]
         /\ Index(th) = Len(messages[stack[th][1].table]) + 1
         /\ stack[th] \in Seq(Frame)
<1>1. stack[th] \in Seq(Frame)
  BY DEF IInv, TypeOK
<1>2. 1 \in DOMAIN stack[th] /\ Head(stack[th]) = stack[th][1]
  BY <1>1
<1> QED
  BY <1>1, <1>2 DEF Top, Current, Index, Owner

-----------------------------------------------------------------------------
(* The steps. *)

\* The innermost frame of th, f for interface j, goes on as g with the types v.
GoesOn(th, f, j, v, g) ==
  /\ stack[th] # << >> /\ f = stack[th][1] /\ j = Owner(th, 1)
  /\ f \in Frame /\ g \in Frame /\ g.table = f.table /\ g.types = v
  /\ v \in Seq(Tables \cup {None})
  /\ stack' \in [Threads -> Seq(Frame)]
  /\ stack'[th] = WithTypes(stack[th], v)
  /\ \A other \in Threads \ {th} : stack'[other] = stack[other]
  /\ messages' \in [Tables -> Seq(Seq(Tables \cup {None}))]
  /\ \A t \in Tables \ {f.table} : messages'[t] = messages[t]
  /\ UNCHANGED << pointer, owner, kept, finalized, stray >>

\* What it has done is within the messages and right.
GoesOnRight(f, j, g) ==
  /\ Within(g, j)'
  /\ j \in Reachable /\ Steady => Filled(f.table, j)' /\ Taken(g, j)'

\* The innermost frame goes on, at its types or with a message more.
LEMMA TopChanged ==
  ASSUME InterfaceAssumption, IInv,
         NEW th \in Threads, NEW f, NEW j, NEW v, NEW g,
         GoesOn(th, f, j, v, g), GoesOnRight(f, j, g)
  PROVE  IInv' /\ Steady
<1>0. /\ 1 \in DOMAIN stack[th] /\ stack[th] \in Seq(Frame) /\ stack[th] # << >>
      /\ v \in Seq(Tables \cup {None})
      /\ stack'[th] = WithTypes(stack[th], v)
      /\ f = stack[th][1] /\ j = Owner(th, 1)
      /\ g \in Frame /\ g.table = f.table /\ g.types = v
  BY TopFacts DEF GoesOn
<1>1. /\ 1 \in DOMAIN stack[th] /\ stack[th] \in Seq(Frame)
      /\ f.table \in Tables /\ f.table \in Building /\ owner[f.table] = j
      /\ j # None
  <2>1. stack[th][1].table \in Tables /\ stack[th][1].table \in Building
    BY <1>0, FrameFacts
  <2>2. Owner(th, 1) # None
    BY <1>0 DEF IInv, OwnBlocks
  <2> QED
    BY <1>0, <2>1, <2>2 DEF Owner
<1>2. /\ stack'[th] \in Seq(Frame)
      /\ DOMAIN stack'[th] = DOMAIN stack[th]
      /\ stack'[th][1] = g
      /\ \A k \in DOMAIN stack[th] : k # 1 => stack'[th][k] = stack[th][k]
  <2>1. g = [table |-> f.table, types |-> v]
    BY <1>0 DEF Frame
  <2>2. /\ WithTypes(stack[th], v) \in Seq(Frame)
        /\ DOMAIN WithTypes(stack[th], v) = DOMAIN stack[th]
        /\ WithTypes(stack[th], v)[1] = [table |-> stack[th][1].table, types |-> v]
        /\ \A k \in DOMAIN stack[th] : k # 1 => WithTypes(stack[th], v)[k] = stack[th][k]
    <3>1. stack[th] \in Seq(Frame) /\ stack[th] # << >> /\ v \in Seq(Tables \cup {None})
      BY <1>0
    <3> QED
      BY <3>1, FrameChanged
  <2> QED
    BY <1>0, <2>1, <2>2
<1>3. \A other \in Threads : other # th => stack'[other] = stack[other]
  BY DEF GoesOn
<1>4. /\ (stack \in [Threads -> Seq(Frame)])'
      /\ messages' \in [Tables -> Seq(Seq(Tables \cup {None}))]
      /\ \A t \in Tables \ {f.table} : messages'[t] = messages[t]
      /\ UNCHANGED << pointer, owner, kept, finalized, stray >>
  BY DEF GoesOn
<1>5. \A other \in Threads :
        /\ DOMAIN stack'[other] = DOMAIN stack[other]
        /\ \A k \in DOMAIN stack[other] : stack'[other][k].table = stack[other][k].table
  <2>1. stack'[th][1].table = stack[th][1].table
    BY <1>0, <1>2
  <2> QED
    BY <1>2, <1>3, <2>1
<1>6. /\ Building' = Building
      /\ Reachable' \subseteq Reachable
      /\ \A other \in Threads : \A k \in DOMAIN stack[other] :
           Owner(other, k)' = Owner(other, k)
      /\ OwnBlocks' /\ Buried' /\ NoRace' /\ Found' /\ Explained'
  BY <1>4, <1>5, SameFrames
<1>7. Steady
  BY <1>1, <1>4, <1>6 DEF Steady
<1>8. TypeOK'
  BY <1>1, <1>4 DEF IInv, TypeOK
<1>9. ASSUME NEW other \in Threads, NEW k \in DOMAIN stack[other],
             other # th \/ k # 1
      PROVE  /\ stack'[other][k] = stack[other][k]
             /\ messages'[stack[other][k].table] = messages[stack[other][k].table]
  <2>1. stack[other][k].table # f.table
    BY <1>0, <1>1, <1>9 DEF IInv, OwnBlocks
  <2> QED
    BY <1>2, <1>3, <1>4, <1>9, <2>1, FrameFacts
<1>10. Owner(th, 1)' = j /\ stack'[th][1] = g /\ g.table = f.table
  BY <1>0, <1>1, <1>2, <1>6
<1>11. ASSUME NEW other \in Threads, NEW k \in DOMAIN stack'[other]
       PROVE  Within(stack[other][k], Owner(other, k))'
  <2>1. k \in DOMAIN stack[other] /\ Owner(other, k)' = Owner(other, k)
    BY <1>5, <1>6
  <2>2. CASE other = th /\ k = 1
    BY <1>10, <2>2 DEF GoesOnRight, Within
  <2>3. CASE other # th \/ k # 1
    <3>1. Within(stack[other][k], Owner(other, k))
      BY <2>1, FrameFacts
    <3>2. /\ stack'[other][k] = stack[other][k]
          /\ messages'[stack[other][k].table] = messages[stack[other][k].table]
      BY <1>9, <2>1, <2>3
    <3> QED
      BY <2>1, <3>1, <3>2 DEF Within
  <2> QED
    BY <2>2, <2>3
<1>12. ASSUME NEW other \in Threads, NEW k \in DOMAIN stack'[other], k # 1
       PROVE  WaitsFor(stack[other][k], Owner(other, k), Owner(other, k - 1))'
  <2>1. k \in DOMAIN stack[other] /\ k - 1 \in DOMAIN stack[other]
    <3>1. DOMAIN stack[other] = 1 .. Len(stack[other])
      BY DEF IInv, TypeOK
    <3> QED
      BY <1>5, <1>12, <3>1
  <2>2. Owner(other, k)' = Owner(other, k) /\ Owner(other, k - 1)' = Owner(other, k - 1)
    BY <1>6, <2>1
  <2>3. WaitsFor(stack[other][k], Owner(other, k), Owner(other, k - 1))
    BY <1>12, <2>1 DEF IInv, Nested
  <2>4. /\ stack'[other][k] = stack[other][k]
        /\ messages'[stack[other][k].table] = messages[stack[other][k].table]
    BY <1>9, <1>12, <2>1
  <2> QED
    BY <2>2, <2>3, <2>4 DEF WaitsFor
<1>13. Nested'
  <2>1. \A other \in Threads : \A k, m \in DOMAIN stack'[other] :
          m < k => << Owner(other, m)', Owner(other, k)' >> \in Below
    BY <1>5, <1>6 DEF IInv, Nested
  <2> QED
    BY <1>11, <1>12, <2>1 DEF Nested
<1>14. Contents'
  <2>1. ASSUME NEW h \in Reachable', NEW t \in Tables, pointer'[h] = t
        PROVE  Len(messages'[t]) = Len(Messages[h]) /\ Filled(t, h)'
    <3>1. h \in Reachable /\ pointer[h] = t
      BY <1>4, <1>6, <2>1
    <3> QED
      BY <1>7, <3>1, PublishedKept
  <2>2. ASSUME NEW other \in Threads, NEW e \in Frames(other)',
               NEW h \in Reachable',
               owner'[e.table] = h
        PROVE  Filled(e.table, h)' /\ Taken(e, h)'
    <3>1. PICK k \in DOMAIN stack[other] : e = stack'[other][k]
      BY <1>5 DEF Frames
    <3>2. h = Owner(other, k) /\ h \in Reachable
      <4>1. e.table = stack[other][k].table
        BY <1>5, <3>1
      <4> QED
        BY <1>4, <1>6, <2>2, <3>1, <4>1 DEF Owner
    <3>3. CASE other # th \/ k # 1
      <4>1. e = stack[other][k] /\ messages'[e.table] = messages[e.table]
        BY <1>9, <3>1, <3>3
      <4> QED
        BY <1>7, <3>1, <3>2, <4>1, FrameKept
    <3>4. CASE other = th /\ k = 1
      <4>1. e = g /\ h = j /\ g.table = f.table
        BY <1>0, <1>10, <3>1, <3>2, <3>4
      <4> QED
        BY <1>7, <3>2, <4>1 DEF GoesOnRight
    <3> QED
      BY <3>3, <3>4
  <2> QED
    BY <2>1, <2>2 DEF Contents
<1> QED
  BY <1>6, <1>7, <1>8, <1>13, <1>14 DEF IInv

\* The message list of an interface and each of its messages are sequences.
LEMMA MessageTypes ==
  ASSUME InterfaceAssumption, NEW j \in Interfaces
  PROVE  /\ Messages[j] \in Seq(Seq(Interfaces \cup {None}))
         /\ Len(Messages[j]) \in Nat
         /\ \A m \in 1 .. Len(Messages[j]) :
              /\ Messages[j][m] \in Seq(Interfaces \cup {None})
              /\ Len(Messages[j][m]) \in Nat
              /\ \A k \in 1 .. Len(Messages[j][m]) :
                   Messages[j][m][k] \in Interfaces \cup {None}
<1>1. Messages[j] \in Seq(Seq(Interfaces \cup {None}))
  BY DEF InterfaceAssumption
<1>2. Len(Messages[j]) \in Nat
  BY <1>1
<1>3. ASSUME NEW m \in 1 .. Len(Messages[j])
      PROVE  /\ Messages[j][m] \in Seq(Interfaces \cup {None})
             /\ Len(Messages[j][m]) \in Nat
             /\ \A k \in 1 .. Len(Messages[j][m]) :
                  Messages[j][m][k] \in Interfaces \cup {None}
  <2>1. Messages[j][m] \in Seq(Interfaces \cup {None})
    BY <1>1, <1>3
  <2>2. Len(Messages[j][m]) \in Nat
    BY <2>1
  <2>3. ASSUME NEW k \in 1 .. Len(Messages[j][m])
        PROVE  Messages[j][m][k] \in Interfaces \cup {None}
    BY <2>1, <2>3
  <2> QED
    BY <2>1, <2>2, <2>3
<1> QED
  BY <1>1, <1>2, <1>3

\* f is the innermost frame of th: it builds j's table and is at message n + 1.
Innermost(th, f, j, n) ==
  /\ f = stack[th][1] /\ j = Owner(th, 1) /\ n = Len(messages[f.table])
  /\ Top(th) = f /\ Current(th) = Messages[j] /\ Index(th) = n + 1
  /\ f.table \in Tables /\ f.table \in Building
  /\ f.types \in Seq(Tables \cup {None}) /\ Len(f.types) \in Nat
  /\ owner[f.table] = j
  /\ Messages[j] \in Seq(Seq(Interfaces \cup {None})) /\ Len(Messages[j]) \in Nat
  /\ messages[f.table] \in Seq(Seq(Tables \cup {None}))
  /\ Within(f, j)
  /\ j \in Reachable => Filled(f.table, j) /\ Taken(f, j)

\* The facts about the innermost frame that its steps start from.
LEMMA InnerFrame ==
  ASSUME InterfaceAssumption, IInv, NEW th \in Threads, stack[th] # << >>
  PROVE  \E f \in Frame, j \in Interfaces, n \in Nat : Innermost(th, f, j, n)
<1>1. PICK f, j, n :
        f = stack[th][1] /\ j = Owner(th, 1) /\ n = Len(messages[f.table])
  OBVIOUS
<1>2. 1 \in DOMAIN stack[th]
  BY TopFacts
<1>3. /\ f \in Frame /\ f.table \in Tables /\ f.table \in Building
      /\ f.types \in Seq(Tables \cup {None})
      /\ j \in Interfaces /\ Messages[j] \in Seq(Seq(Interfaces \cup {None}))
      /\ messages[f.table] \in Seq(Seq(Tables \cup {None}))
      /\ Within(f, j)
  BY <1>1, <1>2, FrameFacts
<1>4. n \in Nat /\ owner[f.table] = j
  BY <1>1, <1>3 DEF Owner
<1>5. j \in Reachable => Filled(f.table, j) /\ Taken(f, j)
  <2>1. f \in Frames(th)
    BY <1>1, <1>2 DEF Frames
  <2> QED
    BY <1>4, <2>1 DEF IInv, Contents
<1>6. Top(th) = f /\ Current(th) = Messages[j] /\ Index(th) = n + 1
  BY <1>1, TopFacts
<1>7. Len(f.types) \in Nat /\ Len(Messages[j]) \in Nat
  <2>1. Len(f.types) \in Nat
    BY <1>3
  <2> QED
    BY <1>3, <2>1, MessageTypes
<1> QED
  <2>1. Innermost(th, f, j, n)
    BY <1>1, <1>3, <1>4, <1>5, <1>6, <1>7 DEF Innermost
  <2> QED
    BY <1>3, <1>4, <2>1

\* A type is taken that is null or has a finished table.
LEMMA TakeTypeIInv ==
  ASSUME InterfaceAssumption, IInv, NEW th \in Threads, TakeType(th)
  PROVE  IInv' /\ Steady
<1>2. stack[th] # << >>
  BY DEF TakeType
<1>0. PICK f \in Frame, j \in Interfaces, n \in Nat : Innermost(th, f, j, n)
  BY <1>2, InnerFrame, Zenon
<1>3. /\ f = stack[th][1] /\ j = Owner(th, 1) /\ n = Len(messages[f.table])
      /\ Top(th) = f /\ Current(th) = Messages[j] /\ Index(th) = n + 1
      /\ f.table \in Tables
      /\ f.types \in Seq(Tables \cup {None})
      /\ Messages[j] \in Seq(Seq(Interfaces \cup {None}))
      /\ Within(f, j)
      /\ j \in Reachable => Filled(f.table, j) /\ Taken(f, j)
      /\ Len(f.types) \in Nat /\ Len(Messages[j]) \in Nat
  BY <1>0 DEF Innermost
<1> DEFINE type == Messages[j][n + 1][Len(f.types) + 1]
<1>4. n + 1 \in 1 .. Len(Messages[j])
  <2>1. n + 1 <= Len(Messages[j])
    BY <1>3, Zenon DEF TakeType
  <2>2. Len(Messages[j]) \in Nat
    BY <1>3
  <2> QED
    BY <2>1, <2>2
<1>5. /\ Len(Messages[j][n + 1]) \in Nat
      /\ \A k \in 1 .. Len(Messages[j][n + 1]) :
           Messages[j][n + 1][k] \in Interfaces \cup {None}
  BY <1>4, MessageTypes
<1>6. /\ Len(f.types) \in Nat /\ Len(Messages[j]) \in Nat
      /\ Len(f.types) + 1 \in 1 .. Len(Messages[j][n + 1])
      /\ type \in Interfaces \cup {None}
  <2>1. Len(f.types) < Len(Messages[j][n + 1])
    BY <1>3, Zenon DEF TakeType
  <2>2. Len(f.types) \in Nat /\ Len(Messages[j]) \in Nat
    BY <1>3
  <2>5. Len(Messages[j][n + 1]) \in Nat
    BY <1>5
  <2>3. Len(f.types) + 1 \in 1 .. Len(Messages[j][n + 1])
    BY <2>1, <2>2, <2>5
  <2>4. type \in Interfaces \cup {None}
    BY <1>5, <2>3
  <2> QED
    BY <2>2, <2>3, <2>4
<1>7. PICK x \in Tables \cup {None} :
        /\ stack' = [stack EXCEPT ![th] = WithTypes(@, Append(f.types, x))]
        /\ Right(x, type)
  <2>1. CASE type = None /\ StoreType(th, None)
    <3>1. Right(None, type)
      BY <2>1 DEF Right
    <3> QED
      BY <1>3, <2>1, <3>1 DEF StoreType
  <2>2. CASE type # None /\ pointer[type] # None /\ StoreType(th, pointer[type])
    <3> HIDE DEF type
    <3>1. type \in Interfaces
      BY <1>6, <2>2
    <3>2. pointer[type] \in Tables \cup {None}
      BY <3>1 DEF IInv, TypeOK
    <3>3. owner[pointer[type]] = type /\ pointer[type] \notin Building
      BY <2>2, <3>1 DEF IInv, OwnBlocks
    <3>4. Right(pointer[type], type)
      BY <2>2, <3>2, <3>3 DEF Right
    <3> QED
      BY <1>3, <2>2, <3>2, <3>4 DEF StoreType
  <2> QED
    BY <1>3, <2>1, <2>2, Zenon DEF TakeType
<1>8. UNCHANGED << pointer, owner, messages, kept, finalized, stray >>
  BY DEF TakeType
<1>9. PICK v, g : v = Append(f.types, x) /\ g = [table |-> f.table, types |-> v]
  OBVIOUS
<1>10. /\ v \in Seq(Tables \cup {None})
       /\ Len(v) = Len(f.types) + 1 /\ DOMAIN v = 1 .. Len(f.types) + 1
       /\ v[Len(f.types) + 1] = x
       /\ \A k \in 1 .. Len(f.types) : v[k] = f.types[k]
       /\ DOMAIN f.types = 1 .. Len(f.types)
  <2>1. v = Append(f.types, x) /\ x \in Tables \cup {None}
    BY <1>7, <1>9
  <2>2. f.types \in Seq(Tables \cup {None}) /\ Len(f.types) \in Nat
    BY <1>3
  <2> QED
    BY <2>1, <2>2
<1> HIDE DEF type
<1>11. Within(g, j)'
  <2>1. n < Len(Messages[j]) /\ Len(v) <= Len(Messages[j][n + 1])
    <3>1. Len(Messages[j][n + 1]) \in Nat
      BY <1>5
    <3> QED
      BY <1>4, <1>6, <1>10, <3>1
  <2> QED
    BY <1>3, <1>8, <1>9, <2>1 DEF Within
<1>12. ASSUME j \in Reachable, Steady
       PROVE  Filled(f.table, j)' /\ Taken(g, j)'
  <2>1. Filled(f.table, j)' /\ Taken(f, j)'
    <3>1. Len(messages[f.table]) <= Len(Messages[j]) /\ messages'[f.table] = messages[f.table]
      BY <1>3, <1>8 DEF Within
    <3> QED
      BY <1>3, <1>12, <3>1, FilledKept, TakenKept
  <2>2. type \in Names(j) \cup {None}
    BY <1>3, <1>4, <1>6, TypesAreNames DEF type
  <2>3. Right(x, type)'
    BY <1>7, <1>12, <2>2, RightKept
  <2>4. ASSUME NEW m \in DOMAIN v
        PROVE  Right(v[m], Messages[j][n + 1][m])'
    <3>1. CASE m \in DOMAIN f.types
      <4>1. v[m] = f.types[m]
        BY <1>10, <3>1
      <4>2. Right(f.types[m], Messages[j][n + 1][m])'
        BY <1>3, <1>8, <2>1, <3>1 DEF Taken
      <4> QED
        BY <4>1, <4>2
    <3>2. CASE m = Len(f.types) + 1
      <4>1. v[m] = x
        BY <1>10, <3>2
      <4> QED
        BY <2>3, <3>2, <4>1 DEF type
    <3>3. m \in DOMAIN f.types \/ m = Len(f.types) + 1
      <4>1. Len(f.types) \in Nat /\ m \in 1 .. Len(f.types) + 1
        BY <1>6, <1>10
      <4>2. DOMAIN f.types = 1 .. Len(f.types)
        BY <1>10
      <4> QED
        BY <4>1, <4>2
    <3> QED
      BY <3>1, <3>2, <3>3
  <2>5. Taken(g, j)'
    BY <1>3, <1>8, <1>9, <2>4 DEF Taken
  <2> QED
    BY <2>1, <2>5
<1>13. /\ stack'[th] = WithTypes(stack[th], v)
       /\ WithTypes(stack[th], v) \in Seq(Frame)
       /\ stack' \in [Threads -> Seq(Frame)]
       /\ \A other \in Threads \ {th} : stack'[other] = stack[other]
       /\ messages' \in [Tables -> Seq(Seq(Tables \cup {None}))]
       /\ \A t \in Tables \ {f.table} : messages'[t] = messages[t]
  <2>1. stack[th] \in Seq(Frame) /\ stack' = [stack EXCEPT ![th] = WithTypes(@, v)]
    BY <1>7, <1>9 DEF IInv, TypeOK
  <2>2. WithTypes(stack[th], v) \in Seq(Frame)
    BY <1>2, <1>10, <2>1, FrameChanged
  <2> QED
    BY <1>8, <2>1, <2>2 DEF IInv, TypeOK
<1>14. g \in Frame
  BY <1>3, <1>9, <1>10 DEF Frame
<1> QED
  <2>1. GoesOn(th, f, j, v, g)
    BY <1>2, <1>3, <1>8, <1>9, <1>10, <1>13, <1>14 DEF GoesOn
  <2>2. GoesOnRight(f, j, g)
    BY <1>11, <1>12 DEF GoesOnRight
  <2> QED
    BY <2>1, <2>2, TopChanged

\* A message is done: its types are what the frame has taken.
LEMMA FinishMessageIInv ==
  ASSUME InterfaceAssumption, IInv, NEW th \in Threads, FinishMessage(th)
  PROVE  IInv' /\ Steady
<1>1. stack[th] # << >>
  BY DEF FinishMessage, MessageReady
<1>0. PICK f \in Frame, j \in Interfaces, n \in Nat : Innermost(th, f, j, n)
  BY <1>1, InnerFrame, Zenon
<1>2. /\ f = stack[th][1] /\ j = Owner(th, 1) /\ n = Len(messages[f.table])
      /\ Top(th) = f /\ Current(th) = Messages[j] /\ Index(th) = n + 1
      /\ f.table \in Tables
      /\ f.types \in Seq(Tables \cup {None})
      /\ Messages[j] \in Seq(Seq(Interfaces \cup {None}))
      /\ messages[f.table] \in Seq(Seq(Tables \cup {None}))
      /\ Within(f, j)
      /\ j \in Reachable => Filled(f.table, j) /\ Taken(f, j)
      /\ Len(f.types) \in Nat /\ Len(Messages[j]) \in Nat
  BY <1>0 DEF Innermost
<1>3. n + 1 \in 1 .. Len(Messages[j])
  <2>1. n + 1 <= Len(Messages[j])
    BY <1>2, Zenon DEF FinishMessage, MessageReady
  <2>2. Len(Messages[j]) \in Nat
    BY <1>2
  <2> QED
    BY <2>1, <2>2
<1>4. Len(f.types) = Len(Messages[j][n + 1])
  BY <1>2, Zenon DEF FinishMessage, MessageReady
<1>5. PICK rows, g :
        /\ rows = Append(messages[f.table], f.types)
        /\ g = [table |-> f.table, types |-> << >>]
  OBVIOUS
<1>6. /\ rows \in Seq(Seq(Tables \cup {None}))
      /\ DOMAIN rows = 1 .. n + 1 /\ Len(rows) = n + 1
      /\ rows[n + 1] = f.types
      /\ \A m \in 1 .. n : rows[m] = messages[f.table][m]
      /\ DOMAIN messages[f.table] = 1 .. n
  <2>1. PICK old : old = messages[f.table]
    OBVIOUS
  <2>2. old \in Seq(Seq(Tables \cup {None})) /\ Len(old) = n
    BY <1>2, <2>1
  <2>3. f.types \in Seq(Tables \cup {None})
    BY <1>2
  <2>4. rows = Append(old, f.types)
    BY <1>5, <2>1
  <2>5. /\ rows \in Seq(Seq(Tables \cup {None})) /\ Len(rows) = n + 1
        /\ rows[n + 1] = f.types
        /\ \A m \in 1 .. n : rows[m] = old[m]
    BY <2>2, <2>3, <2>4, AppendProperties
  <2> QED
    BY <2>1, <2>2, <2>5
<1>7. << >> \in Seq(Tables \cup {None}) /\ Len(<< >>) = 0 /\ DOMAIN << >> = {}
  OBVIOUS
<1>8. /\ messages' = [messages EXCEPT ![f.table] = rows]
      /\ stack' = [stack EXCEPT ![th] = WithTypes(@, << >>)]
      /\ UNCHANGED << pointer, owner, kept, finalized, stray >>
  BY <1>2, <1>5 DEF FinishMessage
<1>9. /\ messages' \in [Tables -> Seq(Seq(Tables \cup {None}))]
      /\ messages'[f.table] = rows
      /\ \A t \in Tables \ {f.table} : messages'[t] = messages[t]
  BY <1>2, <1>6, <1>8 DEF IInv, TypeOK
<1>10. /\ stack' \in [Threads -> Seq(Frame)]
       /\ stack'[th] = WithTypes(stack[th], << >>)
       /\ \A other \in Threads \ {th} : stack'[other] = stack[other]
  <2>1. stack[th] \in Seq(Frame)
    BY DEF IInv, TypeOK
  <2>2. WithTypes(stack[th], << >>) \in Seq(Frame)
    BY <1>1, <1>7, <2>1, FrameChanged
  <2> QED
    BY <1>8, <2>2 DEF IInv, TypeOK
<1>11. g \in Frame /\ g.table = f.table /\ g.types = << >>
  BY <1>2, <1>5, <1>7 DEF Frame
<1>12. GoesOn(th, f, j, << >>, g)
  BY <1>1, <1>2, <1>7, <1>8, <1>9, <1>10, <1>11 DEF GoesOn
<1>13. Within(g, j)'
  <2>1. n + 1 <= Len(Messages[j])
    BY <1>3
  <2>2. n + 1 < Len(Messages[j]) => 0 <= Len(Messages[j][n + 2])
    <3>1. n + 1 < Len(Messages[j]) => n + 2 \in 1 .. Len(Messages[j])
      BY <1>3
    <3>2. n + 1 < Len(Messages[j]) => Len(Messages[j][n + 2]) \in Nat
      BY <3>1, MessageTypes
    <3> QED
      BY <3>2
  <2>3. n + 1 + 1 = n + 2
    OBVIOUS
  <2> QED
    BY <1>6, <1>7, <1>9, <1>11, <2>1, <2>2, <2>3 DEF Within
<1>14. ASSUME j \in Reachable, Steady
       PROVE  Filled(f.table, j)' /\ Taken(g, j)'
  <2>1. ASSUME NEW m \in DOMAIN rows, NEW k \in DOMAIN rows[m]
        PROVE  /\ Len(rows[m]) = Len(Messages[j][m])
               /\ Right(rows[m][k], Messages[j][m][k])
    <3>1. CASE m = n + 1
      <4>1. k \in DOMAIN f.types
        BY <1>6, <2>1, <3>1
      <4> QED
        BY <1>2, <1>4, <1>6, <1>14, <3>1, <4>1, Zenon DEF Taken
    <3>2. CASE m # n + 1
      <4>1. m \in DOMAIN messages[f.table] /\ rows[m] = messages[f.table][m]
        BY <1>6, <3>2
      <4> QED
        BY <1>2, <1>14, <2>1, <4>1 DEF Filled
    <3> QED
      BY <3>1, <3>2, Zenon
  <2>2. ASSUME NEW m \in DOMAIN rows
        PROVE  Len(rows[m]) = Len(Messages[j][m])
    <3>1. CASE m = n + 1
      BY <1>4, <1>6, <3>1
    <3>2. CASE m # n + 1
      <4>1. m \in DOMAIN messages[f.table] /\ rows[m] = messages[f.table][m]
        BY <1>6, <3>2
      <4> QED
        BY <1>2, <1>14, <4>1 DEF Filled
    <3> QED
      BY <3>1, <3>2
  <2>3. ASSUME NEW m \in DOMAIN rows, NEW k \in DOMAIN rows[m]
        PROVE  Right(rows[m][k], Messages[j][m][k])'
    <3>1. rows[m] \in Seq(Tables \cup {None})
      BY <1>6
    <3>2. m \in 1 .. Len(Messages[j]) /\ k \in 1 .. Len(Messages[j][m])
      BY <1>3, <1>6, <2>2, <3>1
    <3>3. Messages[j][m][k] \in Names(j) \cup {None}
      BY <3>2, TypesAreNames
    <3> QED
      BY <1>14, <2>1, <3>3, RightKept
  <2>4. Filled(f.table, j)'
    BY <1>9, <2>2, <2>3 DEF Filled
  <2>5. Taken(g, j)'
    BY <1>7, <1>11 DEF Taken
  <2> QED
    BY <2>4, <2>5
<1>15. GoesOnRight(f, j, g)
  BY <1>13, <1>14 DEF GoesOnRight
<1> QED
  BY <1>12, <1>15, TopChanged

\* Thread th starts on interface h with block t.
Pushed(th, h, t) ==
  /\ t \in Tables /\ owner[t] = None /\ messages[t] = << >>
  /\ owner' \in [Tables -> Interfaces \cup {None}] /\ owner'[t] = h
  /\ \A x \in Tables \ {t} : owner'[x] = owner[x]
  /\ stack' \in [Threads -> Seq(Frame)]
  /\ \A other \in Threads \ {th} : stack'[other] = stack[other]
  /\ DOMAIN stack'[th] = 1 .. Len(stack[th]) + 1
  /\ stack'[th][1] \in Frame /\ stack'[th][1].table = t
  /\ stack'[th][1].types = << >>
  /\ \A k \in DOMAIN stack[th] : stack'[th][k + 1] = stack[th][k]
  /\ UNCHANGED << pointer, messages, kept >>

\* What Push does.
LEMMA PushFacts ==
  ASSUME InterfaceAssumption, IInv, NEW th \in Threads, NEW h \in Interfaces,
         Push(th, h),
         UNCHANGED << pointer, messages, kept >>
  PROVE  \E t : Pushed(th, h, t)
<1>1. PICK t, f : t = Fresh /\ f = [table |-> t, types |-> << >>]
  OBVIOUS
<1>2. t \in Tables /\ owner[t] = None
  BY <1>1 DEF Push, Fresh, Unused
<1>3. messages[t] = << >>
  BY <1>2 DEF IInv, TypeOK
<1>4. f \in Frame /\ f.table = t /\ f.types = << >>
  BY <1>1, <1>2 DEF Frame
<1>5. /\ owner' = [owner EXCEPT ![t] = h]
      /\ stack' = [stack EXCEPT ![th] = << f >> \o @]
  BY <1>1 DEF Push
<1>6. /\ owner' \in [Tables -> Interfaces \cup {None}] /\ owner'[t] = h
      /\ \A x \in Tables \ {t} : owner'[x] = owner[x]
  BY <1>2, <1>5 DEF IInv, TypeOK
<1>7. stack[th] \in Seq(Frame) /\ DOMAIN stack[th] = 1 .. Len(stack[th])
  BY DEF IInv, TypeOK
<1>8. /\ << f >> \o stack[th] \in Seq(Frame)
      /\ DOMAIN (<< f >> \o stack[th]) = 1 .. Len(stack[th]) + 1
      /\ (<< f >> \o stack[th])[1] = f
      /\ \A k \in 1 .. Len(stack[th]) : (<< f >> \o stack[th])[k + 1] = stack[th][k]
  BY <1>4, <1>7, FramePushed
<1>9. /\ stack'[th] = << f >> \o stack[th]
      /\ \A other \in Threads \ {th} : stack'[other] = stack[other]
      /\ stack' \in [Threads -> Seq(Frame)]
  BY <1>5, <1>8 DEF IInv, TypeOK
<1> QED
  BY <1>2, <1>3, <1>4, <1>6, <1>7, <1>8, <1>9 DEF Pushed

\* Where the frames are afterwards: one more, h's in t, before those of th.
FrameMore(th, h, t) ==
  /\ t \notin Building
  /\ Building' = Building \cup {t}
  /\ \A other \in Threads : \A k \in DOMAIN stack'[other] :
       \/ other = th /\ k = 1
       \/ \E m \in DOMAIN stack[other] :
            /\ stack'[other][k] = stack[other][m]
            /\ Owner(other, k)' = Owner(other, m)
            /\ stack[other][m].table # t
            /\ m = IF other = th THEN k - 1 ELSE k
  /\ 1 \in DOMAIN stack'[th] /\ Owner(th, 1)' = h
  /\ h # None

\* A frame more, before those of th, and nothing else.
LEMMA PushedFrames ==
  ASSUME InterfaceAssumption, IInv, NEW th \in Threads, NEW h \in Interfaces,
         NEW t, Pushed(th, h, t)
  PROVE  FrameMore(th, h, t)
<1>1. h # None
  BY DEF InterfaceAssumption
<1>2. \A x \in Threads : stack[x] \in Seq(Frame) /\ DOMAIN stack[x] = 1 .. Len(stack[x])
  BY DEF IInv, TypeOK
<1>3. ASSUME NEW other \in Threads, NEW m \in DOMAIN stack[other]
      PROVE  /\ stack[other][m].table # t
             /\ stack[other][m].table \in Tables
             /\ owner'[stack[other][m].table] = Owner(other, m)
  <2>1. stack[other][m].table \in Tables /\ Owner(other, m) \in Interfaces
    BY FrameFacts
  <2>2. stack[other][m].table # t
    BY <2>1 DEF Owner, Pushed, InterfaceAssumption
  <2> QED
    BY <2>1, <2>2 DEF Owner, Pushed
<1>4. ASSUME NEW other \in Threads, NEW k \in DOMAIN stack'[other],
             other # th \/ k # 1
      PROVE  \E m \in DOMAIN stack[other] :
               /\ stack'[other][k] = stack[other][m]
               /\ Owner(other, k)' = Owner(other, m)
               /\ stack[other][m].table # t
               /\ m = IF other = th THEN k - 1 ELSE k
  <2>1. CASE other # th
    <3>1. stack'[other] = stack[other]
      BY <2>1 DEF Pushed
    <3> QED
      BY <1>3, <2>1, <3>1 DEF Owner
  <2>2. CASE other = th
    <3>1. k - 1 \in DOMAIN stack[th] /\ (k - 1) + 1 = k
      BY <1>2, <1>4, <2>2 DEF Pushed
    <3>2. stack'[th][k] = stack[th][k - 1]
      BY <3>1 DEF Pushed
    <3> QED
      BY <1>3, <2>2, <3>1, <3>2 DEF Owner
  <2> QED
    BY <2>1, <2>2
<1>5. 1 \in DOMAIN stack'[th] /\ Owner(th, 1)' = h /\ stack'[th][1].table = t
  BY <1>2 DEF Pushed, Owner
<1>6. /\ \A x : x \in Building <=>
           \E other \in Threads : \E k \in DOMAIN stack[other] : x = stack[other][k].table
      /\ \A x : x \in Building' <=>
           \E other \in Threads : \E k \in DOMAIN stack'[other] : x = stack'[other][k].table
  BY BuildingFacts, BuildingNext DEF IInv, TypeOK, Pushed
<1>7. t \notin Building
  BY <1>3, <1>6
<1>8. ASSUME NEW x \in Building PROVE x \in Building'
  <2>1. PICK other \in Threads : \E k \in DOMAIN stack[other] : x = stack[other][k].table
    BY <1>6
  <2>2. PICK k \in DOMAIN stack[other] : x = stack[other][k].table
    BY <2>1
  <2>3. \E m \in DOMAIN stack'[other] : stack'[other][m] = stack[other][k]
    <3>1. CASE other = th
      <4>1. k + 1 \in DOMAIN stack'[th] /\ stack'[th][k + 1] = stack[th][k]
        BY <1>2, <2>2, <3>1 DEF Pushed
      <4> QED
        BY <3>1, <4>1
    <3>2. CASE other # th
      BY <2>2, <3>2 DEF Pushed
    <3> QED
      BY <3>1, <3>2
  <2> QED
    BY <1>6, <2>2, <2>3
<1>9. ASSUME NEW x \in Building', x # t PROVE x \in Building
  <2>1. PICK other \in Threads : \E k \in DOMAIN stack'[other] : x = stack'[other][k].table
    BY <1>6
  <2>2. PICK k \in DOMAIN stack'[other] : x = stack'[other][k].table
    BY <2>1
  <2>3. other # th \/ k # 1
    BY <1>5, <1>9, <2>2
  <2>4. PICK m \in DOMAIN stack[other] : stack'[other][k] = stack[other][m]
    BY <1>4, <2>3
  <2> QED
    BY <1>6, <2>2, <2>4
<1>10. t \in Building'
  BY <1>5, <1>6
<1>11. Building' = Building \cup {t}
  BY <1>8, <1>9, <1>10
<1> QED
  BY <1>1, <1>4, <1>5, <1>7, <1>11 DEF FrameMore

\* The frames of the thread wait for the table of h.
Awaited(th, h) ==
  /\ stack[th] # << >> => WaitsFor(stack[th][1], Owner(th, 1), h)
  /\ \A k \in DOMAIN stack[th] : << h, Owner(th, k) >> \in Below

\* The new frame has a block of its own.
LEMMA PushedOwnBlocks ==
  ASSUME InterfaceAssumption, IInv, NEW th \in Threads, NEW h \in Interfaces,
         NEW t, Pushed(th, h, t)
  PROVE  OwnBlocks'
<1>1. FrameMore(th, h, t)
  BY PushedFrames
<1>2. ASSUME NEW other \in Threads, NEW k \in DOMAIN stack'[other]
      PROVE  Owner(other, k)' # None
  <2>1. CASE other = th /\ k = 1
    BY <1>1, <2>1 DEF FrameMore
  <2>2. CASE ~(other = th /\ k = 1)
    <3>1. PICK m \in DOMAIN stack[other] : Owner(other, k)' = Owner(other, m)
      BY <1>1, <1>2, <2>2 DEF FrameMore
    <3> QED
      BY <3>1 DEF IInv, OwnBlocks
  <2> QED
    BY <2>1, <2>2
<1>3. ASSUME NEW a \in Threads, NEW b \in Threads,
             NEW k \in DOMAIN stack'[a], NEW n \in DOMAIN stack'[b],
             stack'[a][k].table = stack'[b][n].table
      PROVE  a = b /\ k = n
  <2>1. stack'[th][1].table = t
    BY DEF Pushed
  <2>2. CASE a = th /\ k = 1
    <3>1. ASSUME ~(b = th /\ n = 1) PROVE stack'[b][n].table # t
      <4>1. PICK m \in DOMAIN stack[b] :
              stack'[b][n] = stack[b][m] /\ stack[b][m].table # t
        BY <1>1, <3>1 DEF FrameMore
      <4> QED
        BY <4>1
    <3> QED
      BY <1>3, <2>1, <2>2, <3>1
  <2>3. CASE b = th /\ n = 1
    <3>1. ASSUME ~(a = th /\ k = 1) PROVE stack'[a][k].table # t
      <4>1. PICK m \in DOMAIN stack[a] :
              stack'[a][k] = stack[a][m] /\ stack[a][m].table # t
        BY <1>1, <3>1 DEF FrameMore
      <4> QED
        BY <4>1
    <3> QED
      BY <1>3, <2>1, <2>3, <3>1
  <2>4. CASE ~(a = th /\ k = 1) /\ ~(b = th /\ n = 1)
    <3>1. PICK m \in DOMAIN stack[a] :
            stack'[a][k] = stack[a][m] /\ m = IF a = th THEN k - 1 ELSE k
      BY <1>1, <1>3, <2>4 DEF FrameMore
    <3>2. PICK l \in DOMAIN stack[b] :
            stack'[b][n] = stack[b][l] /\ l = IF b = th THEN n - 1 ELSE n
      BY <1>1, <1>3, <2>4 DEF FrameMore
    <3>3. a = b /\ m = l
      BY <1>3, <3>1, <3>2 DEF IInv, OwnBlocks
    <3>4. DOMAIN stack'[a] \subseteq Int
      <4>1. stack'[a] \in Seq(Frame)
        BY DEF Pushed
      <4> QED
        BY <4>1
    <3> QED
      BY <1>3, <3>1, <3>2, <3>3, <3>4
  <2> QED
    BY <2>2, <2>3, <2>4
<1>4. ASSUME NEW j \in Interfaces, pointer'[j] # None
      PROVE  owner'[pointer'[j]] = j /\ pointer'[j] \notin Building'
  <2>1. pointer[j] # None /\ pointer' = pointer
    BY <1>4 DEF Pushed
  <2>2. owner[pointer[j]] = j /\ pointer[j] \notin Building /\ pointer[j] \in Tables
    BY <2>1 DEF IInv, OwnBlocks, TypeOK
  <2>3. pointer[j] # t
    BY <2>2 DEF Pushed, InterfaceAssumption
  <2> QED
    BY <1>1, <2>1, <2>2, <2>3 DEF Pushed, FrameMore
<1> QED
  BY <1>2, <1>3, <1>4 DEF OwnBlocks

\* The new frame is the one the frames around it wait for.
LEMMA PushedNested ==
  ASSUME InterfaceAssumption, IInv, NEW th \in Threads, NEW h \in Interfaces,
         NEW t, Pushed(th, h, t), Awaited(th, h)
  PROVE  Nested'
<1>1. FrameMore(th, h, t)
  BY PushedFrames
<1>2. /\ \A other \in Threads : DOMAIN stack'[other] = 1 .. Len(stack'[other])
      /\ \A other \in Threads : DOMAIN stack[other] = 1 .. Len(stack[other])
      /\ messages' = messages
  BY DEF Pushed, IInv, TypeOK
<1>3. ASSUME NEW other \in Threads, NEW k \in DOMAIN stack'[other]
      PROVE  Within(stack[other][k], Owner(other, k))'
  <2>1. CASE other = th /\ k = 1
    <3>1. /\ messages'[stack'[th][1].table] = << >>
          /\ stack'[th][1].types = << >>
      BY <1>2 DEF Pushed
    <3>2. Messages[h] \in Seq(Seq(Interfaces \cup {None}))
      BY DEF InterfaceAssumption
    <3>3. Len(Messages[h]) \in Nat /\ (0 < Len(Messages[h]) => Len(Messages[h][1]) \in Nat)
      BY <3>2
    <3>4. Len(<< >>) = 0 /\ 0 + 1 = 1
      OBVIOUS
    <3> QED
      BY <1>1, <2>1, <3>1, <3>3, <3>4 DEF Within, FrameMore
  <2>2. CASE ~(other = th /\ k = 1)
    <3>1. PICK m \in DOMAIN stack[other] :
            /\ stack'[other][k] = stack[other][m]
            /\ Owner(other, k)' = Owner(other, m)
      BY <1>1, <1>3, <2>2 DEF FrameMore
    <3>2. Within(stack[other][m], Owner(other, m))
      BY FrameFacts
    <3> QED
      BY <1>2, <3>1, <3>2 DEF Within
  <2> QED
    BY <2>1, <2>2
<1>4. ASSUME NEW other \in Threads, NEW k \in DOMAIN stack'[other], k # 1
      PROVE  WaitsFor(stack[other][k], Owner(other, k), Owner(other, k - 1))'
  <2>1. k - 1 \in DOMAIN stack'[other] /\ k \in Int
    BY <1>2, <1>4
  <2>2. PICK m \in DOMAIN stack[other] :
          /\ stack'[other][k] = stack[other][m]
          /\ Owner(other, k)' = Owner(other, m)
          /\ m = IF other = th THEN k - 1 ELSE k
    BY <1>1, <1>4 DEF FrameMore
  <2>3. CASE other = th /\ k = 2
    <3>1. m = 1 /\ Owner(other, k - 1)' = h
      BY <1>1, <2>2, <2>3 DEF FrameMore
    <3>2. stack[th] # << >>
      BY <2>2, <2>3
    <3>3. WaitsFor(stack[th][1], Owner(th, 1), h)
      BY <3>2, Zenon DEF Awaited
    <3> QED
      BY <1>2, <2>2, <2>3, <3>1, <3>3, Zenon DEF WaitsFor
  <2>4. CASE other # th \/ k # 2
    <3>1. ~(other = th /\ k - 1 = 1)
      BY <2>1, <2>4
    <3>2. PICK l \in DOMAIN stack[other] :
            /\ Owner(other, k - 1)' = Owner(other, l)
            /\ l = IF other = th THEN k - 1 - 1 ELSE k - 1
      BY <1>1, <2>1, <3>1 DEF FrameMore
    <3>3. l = m - 1 /\ m # 1
      BY <1>4, <2>1, <2>2, <2>4, <3>2
    <3>4. WaitsFor(stack[other][m], Owner(other, m), Owner(other, m - 1))
      BY <3>3 DEF IInv, Nested
    <3> QED
      BY <1>2, <2>2, <3>2, <3>3, <3>4, Zenon DEF WaitsFor
  <2> QED
    BY <2>3, <2>4
<1>5. ASSUME NEW other \in Threads, NEW k \in DOMAIN stack'[other],
             NEW n \in DOMAIN stack'[other], n < k
      PROVE  << Owner(other, n)', Owner(other, k)' >> \in Below
  <2>1. k \in Int /\ n \in Int /\ n >= 1 /\ k # 1
    BY <1>2, <1>5
  <2>2. PICK m \in DOMAIN stack[other] :
          /\ Owner(other, k)' = Owner(other, m)
          /\ m = IF other = th THEN k - 1 ELSE k
    BY <1>1, <2>1 DEF FrameMore
  <2>3. CASE other = th /\ n = 1
    BY <1>1, <2>2, <2>3 DEF Awaited, FrameMore
  <2>4. CASE ~(other = th /\ n = 1)
    <3>1. PICK l \in DOMAIN stack[other] :
            /\ Owner(other, n)' = Owner(other, l)
            /\ l = IF other = th THEN n - 1 ELSE n
      BY <1>1, <1>5, <2>4 DEF FrameMore
    <3>2. l < m
      BY <1>5, <2>1, <2>2, <3>1
    <3> QED
      BY <2>2, <3>1, <3>2 DEF IInv, Nested
  <2> QED
    BY <2>3, <2>4
<1> QED
  BY <1>3, <1>4, <1>5 DEF Nested

\* A new frame gets a block nobody has.
LEMMA PushedSteady ==
  ASSUME InterfaceAssumption, IInv, NEW th \in Threads, NEW h \in Interfaces,
         NEW t, Pushed(th, h, t)
  PROVE  Steady
<1>1. FrameMore(th, h, t)
  BY PushedFrames
<1>2. ASSUME NEW x \in Tables \ Building, owner[x] \in Reachable PROVE x # t
  BY <1>2, ReachableFacts DEF Pushed, InterfaceAssumption
<1> QED
  BY <1>1, <1>2 DEF Steady, Pushed, FrameMore

\* Nothing is written yet in a new frame.
LEMMA PushedContents ==
  ASSUME InterfaceAssumption, IInv, NEW th \in Threads, NEW h \in Interfaces,
         NEW t, Pushed(th, h, t), Reachable' \subseteq Reachable
  PROVE  Contents'
<1>1. FrameMore(th, h, t)
  BY PushedFrames
<1>2. messages' = messages /\ pointer' = pointer
  BY DEF Pushed
<1>3. Steady
  BY PushedSteady
<1>4. ASSUME NEW j \in Reachable', NEW x \in Tables, pointer'[j] = x
      PROVE  Len(messages'[x]) = Len(Messages[j]) /\ Filled(x, j)'
  <2>1. j \in Reachable /\ pointer[j] = x
    BY <1>2, <1>4
  <2> QED
    BY <1>3, <2>1, PublishedKept
<1>5. ASSUME NEW other \in Threads, NEW e \in Frames(other)',
             NEW j \in Reachable',
             owner'[e.table] = j
      PROVE  Filled(e.table, j)' /\ Taken(e, j)'
  <2>1. PICK k \in DOMAIN stack'[other] : e = stack'[other][k]
    BY DEF Frames
  <2>2. j = Owner(other, k)' /\ j \in Reachable
    BY <1>5, <2>1 DEF Owner
  <2>3. CASE other = th /\ k = 1
    <3>1. messages'[e.table] = << >> /\ e.types = << >> /\ DOMAIN << >> = {}
      BY <1>2, <2>1, <2>3 DEF Pushed
    <3> QED
      BY <3>1 DEF Filled, Taken
  <2>4. CASE ~(other = th /\ k = 1)
    <3>1. PICK m \in DOMAIN stack[other] : e = stack[other][m] /\ j = Owner(other, m)
      BY <1>1, <2>1, <2>2, <2>4 DEF FrameMore
    <3>2. messages'[e.table] = messages[e.table]
      BY <1>2
    <3> QED
      BY <1>3, <2>2, <3>1, <3>2, FrameKept
  <2> QED
    BY <2>3, <2>4
<1> QED
  BY <1>4, <1>5 DEF Contents

\* A thread starts only on what is reachable.
LEMMA PushedReachable ==
  ASSUME InterfaceAssumption, IInv, NEW th \in Threads, NEW h \in Interfaces,
         NEW t, Pushed(th, h, t), h \in Reachable
  PROVE  Reachable' \subseteq Reachable
<1>1. FrameMore(th, h, t)
  BY PushedFrames
<1>2. ASSUME NEW other \in Threads, NEW k \in DOMAIN stack'[other]
      PROVE  owner'[stack'[other][k].table] \in Reachable
  <2>1. owner'[stack'[other][k].table] = Owner(other, k)'
    BY DEF Owner
  <2>2. CASE other = th /\ k = 1
    BY <1>1, <2>1, <2>2 DEF FrameMore
  <2>3. CASE ~(other = th /\ k = 1)
    <3>1. PICK m \in DOMAIN stack[other] : Owner(other, k)' = Owner(other, m)
      BY <1>1, <1>2, <2>3 DEF FrameMore
    <3>2. Owner(other, m) \in Reachable
      BY ReachableFacts
    <3> QED
      BY <2>1, <3>1, <3>2
  <2> QED
    BY <2>2, <2>3
<1>3. kept' \subseteq kept /\ (stack \in [Threads -> Seq(Frame)])'
  BY DEF Pushed
<1> QED
  BY <1>2, <1>3, ReachableShrinks

\* Without races the thread that starts is the only one that builds.
LEMMA PushedNoRace ==
  ASSUME InterfaceAssumption, IInv, NEW th \in Threads, NEW h \in Interfaces,
         NEW t, Pushed(th, h, t), pointer[h] = None,
         "race" \in Moves \/ \A other \in Threads \ {th} : stack[other] = << >>
  PROVE  NoRace'
<1> SUFFICES ASSUME "race" \notin Moves
             PROVE  /\ \A a, b \in Threads :
                         stack'[a] # << >> /\ stack'[b] # << >> => a = b
                    /\ \A a \in Threads : \A k \in DOMAIN stack'[a] :
                         pointer'[Owner(a, k)'] = None
  BY DEF NoRace
<1>1. FrameMore(th, h, t)
  BY PushedFrames
<1>2. \A a \in Threads : stack'[a] # << >> => a = th
  BY DEF Pushed
<1>3. ASSUME NEW a \in Threads, NEW k \in DOMAIN stack'[a]
      PROVE  pointer'[Owner(a, k)'] = None
  <2>1. pointer' = pointer
    BY DEF Pushed
  <2>2. CASE a = th /\ k = 1
    BY <1>1, <2>1, <2>2 DEF FrameMore
  <2>3. CASE ~(a = th /\ k = 1)
    <3>1. PICK m \in DOMAIN stack[a] : Owner(a, k)' = Owner(a, m)
      BY <1>1, <1>3, <2>3 DEF FrameMore
    <3> QED
      BY <2>1, <3>1 DEF IInv, NoRace
  <2> QED
    BY <2>2, <2>3
<1> QED
  BY <1>2, <1>3

\* A new frame, for an interface without a table that the thread may build.
LEMMA PushedIInv ==
  ASSUME InterfaceAssumption, IInv, NEW th \in Threads, NEW h \in Interfaces,
         NEW t, Pushed(th, h, t), Awaited(th, h), pointer[h] = None,
         "race" \in Moves \/ \A other \in Threads \ {th} : stack[other] = << >>,
         h \in Reachable, UNCHANGED << finalized, stray >>
  PROVE  IInv' /\ Steady
<1>1. OwnBlocks' /\ Nested' /\ NoRace'
  BY PushedOwnBlocks, PushedNested, PushedNoRace
<1>2. Contents'
  BY PushedReachable, PushedContents
<1>3. TypeOK'
  <2>1. \A x \in Tables : (owner[x] = None => messages[x] = << >>)'
    BY DEF IInv, TypeOK, Pushed
  <2> QED
    BY <2>1 DEF IInv, TypeOK, Pushed
<1>4. Found'
  <2>1. Building' = Building \cup {t}
    BY PushedFrames DEF FrameMore
  <2>2. ASSUME NEW x \in Tables \ Building', owner'[x] # None
        PROVE  \/ pointer'[owner'[x]] = x
               \/ "race" \in Moves /\ (pointer'[owner'[x]] # None \/ owner'[x] \in finalized')
    <3>1. x # t /\ x \notin Building
      BY <2>1, <2>2
    <3>2. owner'[x] = owner[x] /\ pointer' = pointer
      BY <3>1 DEF Pushed
    <3>3. \/ pointer[owner[x]] = x
          \/ "race" \in Moves /\ (pointer[owner[x]] # None \/ owner[x] \in finalized)
      BY <2>2, <3>1, <3>2 DEF IInv, Found
    <3> QED
      BY <3>2, <3>3
  <2> QED
    BY <2>2 DEF Found
<1>5. Buried' /\ Explained'
  <2>1. Reachable' \subseteq Reachable
    BY PushedReachable
  <2>2. UNCHANGED << pointer, finalized, stray >>
    BY DEF Pushed
  <2> QED
    BY <2>1, <2>2 DEF IInv, Buried, Explained
<1> QED
  BY <1>1, <1>2, <1>3, <1>4, <1>5, PushedSteady DEF IInv

\* wl_jni_interface_from_java starts on an interface the application holds.
LEMMA AskIInv ==
  ASSUME InterfaceAssumption, IInv, NEW th \in Threads, NEW h \in Interfaces,
         Ask(th, h)
  PROVE  IInv' /\ Steady
<1>1. PICK t : Pushed(th, h, t)
  BY PushFacts DEF Ask
<1>2. /\ stack[th] = << >> /\ pointer[h] = None
      /\ UNCHANGED << finalized, stray >>
  BY DEF Ask
<1>3. Awaited(th, h)
  <2>1. DOMAIN stack[th] = {}
    BY <1>2
  <2> QED
    BY <1>2, <2>1 DEF Awaited
<1>4. h \in Reachable
  BY ReachableFacts DEF Ask
<1>5. "race" \in Moves \/ \A other \in Threads \ {th} : stack[other] = << >>
  BY BuildingFacts DEF Ask, IInv, TypeOK
<1> QED
  BY <1>1, <1>2, <1>3, <1>4, <1>5, PushedIInv

\* A frame starts on the type it is at, inside itself.
LEMMA BuildTypeIInv ==
  ASSUME InterfaceAssumption, IInv, NEW th \in Threads, BuildType(th)
  PROVE  IInv' /\ Steady
<1>1. stack[th] # << >> /\ UNCHANGED << pointer, messages, kept, finalized, stray >>
  BY DEF BuildType
<1>0. PICK f \in Frame, j \in Interfaces, n \in Nat : Innermost(th, f, j, n)
  BY <1>1, InnerFrame, Zenon
<1>2. /\ f = stack[th][1] /\ j = Owner(th, 1) /\ n = Len(messages[f.table])
      /\ Top(th) = f /\ Current(th) = Messages[j] /\ Index(th) = n + 1
      /\ f.types \in Seq(Tables \cup {None})
      /\ Messages[j] \in Seq(Seq(Interfaces \cup {None}))
      /\ Len(f.types) \in Nat /\ Len(Messages[j]) \in Nat
  BY <1>0 DEF Innermost
<1> DEFINE h == Messages[j][n + 1][Len(f.types) + 1]
<1>3. n + 1 \in 1 .. Len(Messages[j])
  <2>1. n + 1 <= Len(Messages[j])
    BY <1>2, Zenon DEF BuildType
  <2>2. Len(Messages[j]) \in Nat
    BY <1>2
  <2> QED
    BY <2>1, <2>2
<1>4. /\ Len(Messages[j][n + 1]) \in Nat
      /\ \A k \in 1 .. Len(Messages[j][n + 1]) :
           Messages[j][n + 1][k] \in Interfaces \cup {None}
  BY <1>3, MessageTypes
<1>5. /\ Len(f.types) < Len(Messages[j][n + 1])
      /\ h # None /\ pointer[h] = None /\ Push(th, h)
  BY <1>2, Zenon DEF BuildType
<1>6. Len(f.types) + 1 \in 1 .. Len(Messages[j][n + 1])
  <2>1. Len(f.types) \in Nat
    BY <1>2
  <2>2. Len(Messages[j][n + 1]) \in Nat
    BY <1>4
  <2> QED
    BY <1>5, <2>1, <2>2
<1>7. h \in Interfaces
  BY <1>4, <1>5, <1>6
<1>8. h \in Names(j)
  <2>1. h \in Names(j) \cup {None}
    BY <1>3, <1>6, TypesAreNames
  <2> QED
    BY <1>5, <2>1
<1>9. << h, j >> \in Below
  <2>1. \A m \in 1 .. Len(Messages[j]) : \A k \in 1 .. Len(Messages[j][m]) :
          Messages[j][m][k] # None => << Messages[j][m][k], j >> \in Below
    BY DEF InterfaceAssumption
  <2> QED
    BY <1>3, <1>5, <1>6, <2>1
<1>10. WaitsFor(f, j, h)
  <2>1. n < Len(Messages[j])
    <3>1. Len(Messages[j]) \in Nat
      BY <1>2
    <3> QED
      BY <1>3, <3>1
  <2> QED
    BY <1>2, <1>5, <2>1, Zenon DEF WaitsFor
<1> HIDE DEF h
<1>11. PICK t : Pushed(th, h, t)
  BY <1>1, <1>5, <1>7, PushFacts
<1>12. Awaited(th, h)
  <2>1. ASSUME NEW k \in DOMAIN stack[th] PROVE << h, Owner(th, k) >> \in Below
    <3>1. CASE k = 1
      BY <1>2, <1>9, <3>1
    <3>2. CASE k # 1
      <4>1. DOMAIN stack[th] = 1 .. Len(stack[th])
        BY DEF IInv, TypeOK
      <4>2. 1 \in DOMAIN stack[th] /\ 1 < k
        BY <2>1, <3>2, <4>1
      <4>3. << j, Owner(th, k) >> \in Below
        BY <1>2, <4>2 DEF IInv, Nested
      <4>4. Owner(th, k) \in Interfaces
        BY FrameFacts
      <4> QED
        BY <1>7, <1>9, <4>3, <4>4 DEF InterfaceAssumption
    <3> QED
      BY <3>1, <3>2
  <2> QED
    BY <1>2, <1>10, <2>1 DEF Awaited
<1>13. 1 \in DOMAIN stack[th]
  BY <1>1, TopFacts
<1>14. h \in Reachable
  BY <1>2, <1>8, <1>13, ReachableFacts
<1>15. "race" \in Moves \/ \A other \in Threads \ {th} : stack[other] = << >>
  BY <1>1 DEF IInv, NoRace
<1> QED
  BY <1>1, <1>5, <1>7, <1>11, <1>12, <1>14, <1>15, PushedIInv

\* A step that starts nothing: a thread keeps its frames with their blocks or
\* gives all of them up, and what is reachable keeps its tables.
Settles ==
  /\ stack' \in [Threads -> Seq(Frame)]
  /\ \A th \in Threads : stack'[th] = stack[th] \/ stack'[th] = << >>
  /\ kept' \subseteq kept
  /\ \A th \in Threads : \A k \in DOMAIN stack'[th] :
       /\ owner'[stack[th][k].table] = owner[stack[th][k].table]
       /\ messages'[stack[th][k].table] = messages[stack[th][k].table]
  /\ \A x \in Tables \ Building :
       owner[x] \in Reachable => owner'[x] = owner[x] /\ messages'[x] = messages[x]
  /\ \A h \in Interfaces :
       /\ h \in Reachable => pointer'[h] = pointer[h]
       /\ pointer'[h] # None => pointer'[h] = pointer[h] /\ owner'[pointer[h]] = h

\* Such a step leaves the frames that stay and the tables in order.
LEMMA SettlesKeeps ==
  ASSUME InterfaceAssumption, IInv, Settles
  PROVE  /\ Building' \subseteq Building
         /\ Reachable' \subseteq Reachable
         /\ OwnBlocks' /\ Nested' /\ Contents' /\ NoRace'
         /\ Steady
<1>1. ASSUME NEW th \in Threads, NEW k \in DOMAIN stack'[th]
      PROVE  /\ stack'[th] = stack[th] /\ k \in DOMAIN stack[th]
             /\ DOMAIN stack'[th] = DOMAIN stack[th]
             /\ stack'[th][k] = stack[th][k]
             /\ Owner(th, k)' = Owner(th, k)
             /\ messages'[stack[th][k].table] = messages[stack[th][k].table]
  <2>1. stack'[th] = stack[th]
    <3>1. stack'[th] # << >>
      OBVIOUS
    <3> QED
      BY <3>1 DEF Settles
  <2> QED
    BY <2>1 DEF Settles, Owner
<1>2. /\ \A x : x \in Building <=>
           \E other \in Threads : \E k \in DOMAIN stack[other] : x = stack[other][k].table
      /\ \A x : x \in Building' <=>
           \E other \in Threads : \E k \in DOMAIN stack'[other] : x = stack'[other][k].table
  BY BuildingFacts, BuildingNext DEF IInv, TypeOK, Settles
<1>3. Building' \subseteq Building
  <2>1. ASSUME NEW x \in Building' PROVE x \in Building
    <3>1. PICK th \in Threads : \E k \in DOMAIN stack'[th] : x = stack'[th][k].table
      BY <1>2
    <3>2. PICK k \in DOMAIN stack'[th] : x = stack'[th][k].table
      BY <3>1
    <3>3. k \in DOMAIN stack[th] /\ x = stack[th][k].table
      BY <1>1, <3>2
    <3> QED
      BY <1>2, <3>3
  <2> QED
    BY <2>1
<1>4. Reachable' \subseteq Reachable
  <2>1. ASSUME NEW th \in Threads, NEW k \in DOMAIN stack'[th]
        PROVE  owner'[stack'[th][k].table] \in Reachable
    <3>1. /\ owner'[stack'[th][k].table] = Owner(th, k)'
          /\ Owner(th, k)' = Owner(th, k)
          /\ k \in DOMAIN stack[th]
      BY <1>1 DEF Owner
    <3>2. Owner(th, k) \in Reachable
      BY <3>1, ReachableFacts
    <3> QED
      BY <3>1, <3>2
  <2>2. kept' \subseteq kept /\ (stack \in [Threads -> Seq(Frame)])'
    BY DEF Settles
  <2> QED
    BY <2>1, <2>2, ReachableShrinks
<1>5. Steady
  BY <1>3 DEF Steady, Settles
<1>6. OwnBlocks'
  <2>1. ASSUME NEW th \in Threads, NEW k \in DOMAIN stack'[th]
        PROVE  Owner(th, k)' # None
    BY <1>1 DEF IInv, OwnBlocks
  <2>2. ASSUME NEW a \in Threads, NEW b \in Threads,
               NEW k \in DOMAIN stack'[a], NEW n \in DOMAIN stack'[b],
               stack'[a][k].table = stack'[b][n].table
        PROVE  a = b /\ k = n
    <3>1. /\ stack'[a][k] = stack[a][k] /\ stack'[b][n] = stack[b][n]
          /\ k \in DOMAIN stack[a] /\ n \in DOMAIN stack[b]
      BY <1>1
    <3> QED
      BY <2>2, <3>1 DEF IInv, OwnBlocks
  <2>3. ASSUME NEW h \in Interfaces, pointer'[h] # None
        PROVE  owner'[pointer'[h]] = h /\ pointer'[h] \notin Building'
    <3>1. pointer'[h] = pointer[h] /\ owner'[pointer[h]] = h
      BY <2>3 DEF Settles
    <3>2. pointer[h] \notin Building
      BY <2>3, <3>1 DEF IInv, OwnBlocks
    <3> QED
      BY <1>3, <3>1, <3>2
  <2> QED
    BY <2>1, <2>2, <2>3 DEF OwnBlocks
<1>7. Nested'
  <2>1. ASSUME NEW th \in Threads, NEW k \in DOMAIN stack'[th]
        PROVE  Within(stack[th][k], Owner(th, k))'
    <3>1. /\ stack'[th][k] = stack[th][k] /\ Owner(th, k)' = Owner(th, k)
          /\ messages'[stack[th][k].table] = messages[stack[th][k].table]
          /\ k \in DOMAIN stack[th]
      BY <1>1
    <3>2. Within(stack[th][k], Owner(th, k))
      BY <3>1, FrameFacts
    <3> QED
      BY <3>1, <3>2 DEF Within
  <2>2. ASSUME NEW th \in Threads, NEW k \in DOMAIN stack'[th], k # 1
        PROVE  WaitsFor(stack[th][k], Owner(th, k), Owner(th, k - 1))'
    <3>1. /\ stack'[th][k] = stack[th][k] /\ Owner(th, k)' = Owner(th, k)
          /\ messages'[stack[th][k].table] = messages[stack[th][k].table]
          /\ k \in DOMAIN stack[th] /\ DOMAIN stack'[th] = DOMAIN stack[th]
      BY <1>1
    <3>2. k - 1 \in DOMAIN stack'[th]
      <4>1. DOMAIN stack'[th] = 1 .. Len(stack'[th])
        BY DEF Settles
      <4> QED
        BY <2>2, <4>1
    <3>3. Owner(th, k - 1)' = Owner(th, k - 1)
      BY <1>1, <3>2
    <3>4. WaitsFor(stack[th][k], Owner(th, k), Owner(th, k - 1))
      BY <2>2, <3>1 DEF IInv, Nested
    <3> QED
      BY <3>1, <3>3, <3>4 DEF WaitsFor
  <2>3. ASSUME NEW th \in Threads, NEW k \in DOMAIN stack'[th],
               NEW n \in DOMAIN stack'[th], n < k
        PROVE  << Owner(th, n)', Owner(th, k)' >> \in Below
    <3>1. /\ k \in DOMAIN stack[th] /\ Owner(th, k)' = Owner(th, k)
          /\ n \in DOMAIN stack[th] /\ Owner(th, n)' = Owner(th, n)
      BY <1>1
    <3> QED
      BY <2>3, <3>1 DEF IInv, Nested
  <2> QED
    BY <2>1, <2>2, <2>3 DEF Nested
<1>8. Contents'
  <2>1. ASSUME NEW h \in Reachable', NEW t \in Tables, pointer'[h] = t
        PROVE  Len(messages'[t]) = Len(Messages[h]) /\ Filled(t, h)'
    <3>1. h \in Reachable /\ h \in Interfaces
      BY <1>4, ReachableFacts
    <3>2. pointer[h] = t
      BY <2>1, <3>1 DEF Settles
    <3> QED
      BY <1>5, <3>1, <3>2, PublishedKept
  <2>2. ASSUME NEW th \in Threads, NEW e \in Frames(th)', NEW h \in Reachable',
               owner'[e.table] = h
        PROVE  Filled(e.table, h)' /\ Taken(e, h)'
    <3>1. PICK k \in DOMAIN stack'[th] : e = stack'[th][k]
      BY DEF Frames
    <3>2. /\ e = stack[th][k] /\ h = Owner(th, k) /\ k \in DOMAIN stack[th]
          /\ messages'[e.table] = messages[e.table]
      BY <1>1, <2>2, <3>1 DEF Owner
    <3>3. h \in Reachable
      BY <1>4
    <3> QED
      BY <1>5, <3>2, <3>3, FrameKept
  <2> QED
    BY <2>1, <2>2 DEF Contents
<1>9. NoRace'
  <2> SUFFICES ASSUME "race" \notin Moves
               PROVE  /\ \A a, b \in Threads :
                         stack'[a] # << >> /\ stack'[b] # << >> => a = b
                      /\ \A a \in Threads : \A k \in DOMAIN stack'[a] :
                           pointer'[Owner(a, k)'] = None
    BY DEF NoRace
  <2>1. \A a \in Threads : stack'[a] # << >> => stack[a] # << >>
    BY DEF Settles
  <2>2. ASSUME NEW a \in Threads, NEW k \in DOMAIN stack'[a]
        PROVE  pointer'[Owner(a, k)'] = None
    <3>1. Owner(a, k)' = Owner(a, k) /\ k \in DOMAIN stack[a]
      BY <1>1
    <3>2. pointer[Owner(a, k)] = None
      BY <3>1 DEF IInv, NoRace
    <3>3. Owner(a, k) \in Interfaces
      BY <3>1, FrameFacts
    <3> QED
      BY <3>1, <3>2, <3>3 DEF Settles
  <2> QED
    BY <2>1, <2>2 DEF IInv, NoRace
<1> QED
  BY <1>1, <1>3, <1>4, <1>5, <1>6, <1>7, <1>8, <1>9

\* A failure frees the blocks of every frame of the thread.
LEMMA UndoIInv ==
  ASSUME InterfaceAssumption, IInv, NEW th \in Threads, Undo(th),
         stray' \in BOOLEAN, Explained'
  PROVE  IInv' /\ Steady
<1>1. PICK out : out = FrameTables(th)
  OBVIOUS
<1>2. /\ owner' = [t \in Tables |-> IF t \in out THEN None ELSE owner[t]]
      /\ messages' = [t \in Tables |-> IF t \in out THEN << >> ELSE messages[t]]
      /\ stack' = [stack EXCEPT ![th] = << >>]
      /\ UNCHANGED << pointer, kept, finalized >>
  BY <1>1 DEF Undo
<1>3. out \subseteq Building
  BY <1>1 DEF Building
<1>4. ASSUME NEW x \in out PROVE \E k \in DOMAIN stack[th] : x = stack[th][k].table
  <2>1. DOMAIN stack[th] = 1 .. Len(stack[th])
    BY DEF IInv, TypeOK
  <2> QED
    BY <1>1, <1>4, <2>1 DEF FrameTables
<1>5. /\ stack' \in [Threads -> Seq(Frame)]
      /\ stack'[th] = << >>
      /\ \A other \in Threads \ {th} : stack'[other] = stack[other]
  <2>1. << >> \in Seq(Frame)
    OBVIOUS
  <2> QED
    BY <1>2, <2>1 DEF IInv, TypeOK
<1>6. TypeOK'
  <2>1. << >> \in Seq(Seq(Tables \cup {None}))
    OBVIOUS
  <2>2. owner' \in [Tables -> Interfaces \cup {None}]
    BY <1>2 DEF IInv, TypeOK
  <2>3. messages' \in [Tables -> Seq(Seq(Tables \cup {None}))]
    BY <1>2, <2>1 DEF IInv, TypeOK
  <2>4. \A t \in Tables : owner'[t] = None => messages'[t] = << >>
    BY <1>2 DEF IInv, TypeOK
  <2> QED
    BY <1>2, <1>5, <2>2, <2>3, <2>4 DEF IInv, TypeOK
<1>7. \A x \in Tables \ Building : owner'[x] = owner[x] /\ messages'[x] = messages[x]
  BY <1>2, <1>3
<1>8. ASSUME NEW other \in Threads, NEW k \in DOMAIN stack'[other]
      PROVE  /\ owner'[stack[other][k].table] = owner[stack[other][k].table]
             /\ messages'[stack[other][k].table] = messages[stack[other][k].table]
  <2>1. other # th /\ k \in DOMAIN stack[other]
    <3>1. DOMAIN << >> = {}
      OBVIOUS
    <3> QED
      BY <1>5, <1>8, <3>1
  <2>2. stack[other][k].table \notin out
    <3> SUFFICES ASSUME stack[other][k].table \in out PROVE FALSE
      OBVIOUS
    <3>1. PICK n \in DOMAIN stack[th] : stack[other][k].table = stack[th][n].table
      BY <1>4
    <3> QED
      BY <2>1, <3>1 DEF IInv, OwnBlocks
  <2>3. stack[other][k].table \in Tables
    BY <2>1, FrameFacts
  <2> QED
    BY <1>2, <2>2, <2>3
<1>9. ASSUME NEW h \in Interfaces,
             pointer[h] # None PROVE owner'[pointer[h]] = h
  <2>1. pointer[h] \in Tables \ Building /\ owner[pointer[h]] = h
    BY <1>9 DEF IInv, OwnBlocks, TypeOK
  <2> QED
    BY <1>7, <2>1
<1>10. Settles
  BY <1>2, <1>5, <1>7, <1>8, <1>9 DEF Settles
<1>11. /\ Building' \subseteq Building
       /\ Reachable' \subseteq Reachable
       /\ OwnBlocks' /\ Nested' /\ Contents' /\ NoRace' /\ Steady
  BY <1>10, SettlesKeeps
<1>12. Buried'
  BY <1>2, <1>11 DEF IInv, Buried
<1>13. Found'
  <2>1. ASSUME NEW x \in Tables \ Building', owner'[x] # None
        PROVE  \/ pointer'[owner'[x]] = x
               \/ "race" \in Moves /\ (pointer'[owner'[x]] # None \/ owner'[x] \in finalized')
    <3>1. x \notin out
      BY <1>2, <2>1
    <3>2. x \notin Building
      <4> SUFFICES ASSUME x \in Building PROVE FALSE
        OBVIOUS
      <4>1. PICK other \in Threads : x \in FrameTables(other)
        BY DEF Building
      <4>2. other # th
        BY <1>1, <3>1, <4>1
      <4>3. stack'[other] = stack[other]
        BY <1>5, <4>2
      <4>4. x \in FrameTables(other)'
        BY <4>1, <4>3 DEF FrameTables
      <4> QED
        BY <2>1, <4>4 DEF Building
    <3>3. owner'[x] = owner[x]
      BY <1>7, <3>2
    <3> QED
      BY <1>2, <2>1, <3>2, <3>3 DEF IInv, Found
  <2> QED
    BY <2>1 DEF Found
<1> QED
  BY <1>6, <1>11, <1>12, <1>13 DEF IInv

\* The application lets an interface go.
LEMMA DropIInv ==
  ASSUME InterfaceAssumption, IInv, NEW h \in Interfaces, Drop(h)
  PROVE  IInv' /\ Steady
<1>1. /\ kept' \subseteq kept
      /\ UNCHANGED << pointer, owner, messages, stack, finalized, stray >>
  BY DEF Drop
<1>2. Settles
  <2>1. \A j \in Interfaces : pointer[j] # None => owner[pointer[j]] = j
    BY DEF IInv, OwnBlocks
  <2> QED
    BY <1>1, <2>1 DEF Settles, IInv, TypeOK
<1>3. /\ Reachable' \subseteq Reachable
      /\ OwnBlocks' /\ Nested' /\ Contents' /\ NoRace' /\ Steady
  BY <1>2, SettlesKeeps
<1>4. TypeOK'
  BY <1>1 DEF IInv, TypeOK
<1>5. Building' = Building
  BY <1>1 DEF Building, FrameTables
<1>6. Buried' /\ Found' /\ Explained'
  BY <1>1, <1>3, <1>5 DEF IInv, Buried, Found, Explained
<1> QED
  BY <1>3, <1>4, <1>6 DEF IInv

\* The finalizer of an interface nothing reaches frees its table.
LEMMA FinalizeIInv ==
  ASSUME InterfaceAssumption, IInv, NEW h \in Interfaces, Finalize(h)
  PROVE  IInv' /\ Steady
<1>1. PICK out : out = IF pointer[h] = None THEN {} ELSE FreedWith(h)
  OBVIOUS
<1>2. /\ h \notin Reachable /\ finalized' = finalized \cup {h}
      /\ owner' = [t \in Tables |-> IF t \in out THEN None ELSE owner[t]]
      /\ messages' = [t \in Tables |-> IF t \in out THEN << >> ELSE messages[t]]
      /\ pointer' = [pointer EXCEPT ![h] = None]
      /\ UNCHANGED << stack, kept, stray >>
  BY <1>1 DEF Finalize
<1>4. \A x \in out : owner[x] = h /\ x \notin Building /\ x = pointer[h]
  BY <1>1 DEF FreedWith, IInv, OwnBlocks
<1>5. /\ pointer' \in [Interfaces -> Tables \cup {None}]
      /\ pointer'[h] = None
      /\ \A x \in Interfaces \ {h} : pointer'[x] = pointer[x]
  BY <1>2 DEF IInv, TypeOK
<1>6. TypeOK'
  <2>1. << >> \in Seq(Seq(Tables \cup {None}))
    OBVIOUS
  <2>2. owner' \in [Tables -> Interfaces \cup {None}]
    BY <1>2 DEF IInv, TypeOK
  <2>3. messages' \in [Tables -> Seq(Seq(Tables \cup {None}))]
    BY <1>2, <2>1 DEF IInv, TypeOK
  <2>4. \A t \in Tables : owner'[t] = None => messages'[t] = << >>
    BY <1>2 DEF IInv, TypeOK
  <2> QED
    BY <1>2, <1>5, <2>2, <2>3, <2>4 DEF IInv, TypeOK
<1>7. \A x \in Tables \ out : owner'[x] = owner[x] /\ messages'[x] = messages[x]
  BY <1>2
<1>8. ASSUME NEW th \in Threads, NEW k \in DOMAIN stack'[th]
      PROVE  /\ owner'[stack[th][k].table] = owner[stack[th][k].table]
             /\ messages'[stack[th][k].table] = messages[stack[th][k].table]
  <2>1. stack[th][k].table \in Tables /\ stack[th][k].table \in Building
    BY <1>2, FrameFacts
  <2> QED
    BY <1>4, <1>7, <2>1
<1>9. ASSUME NEW x \in Interfaces, pointer'[x] # None
      PROVE  pointer'[x] = pointer[x] /\ owner'[pointer[x]] = x
  <2>1. x # h /\ pointer'[x] = pointer[x]
    BY <1>5, <1>9
  <2>2. pointer[x] \in Tables /\ owner[pointer[x]] = x
    BY <1>9, <2>1 DEF IInv, OwnBlocks, TypeOK
  <2> QED
    BY <1>4, <1>7, <2>1, <2>2
<1>10. Settles
  <2>1. ASSUME NEW x \in Tables \ Building, owner[x] \in Reachable
        PROVE  owner'[x] = owner[x] /\ messages'[x] = messages[x]
    BY <1>2, <1>4, <1>7, <2>1
  <2>2. \A x \in Reachable : x \in Interfaces /\ pointer'[x] = pointer[x]
    BY <1>2, <1>5, ReachableFacts
  <2> QED
    BY <1>2, <1>8, <1>9, <2>1, <2>2 DEF Settles, IInv, TypeOK
<1>11. /\ Reachable' \subseteq Reachable
       /\ OwnBlocks' /\ Nested' /\ Contents' /\ NoRace' /\ Steady
  BY <1>10, SettlesKeeps
<1>12. Building' = Building
  BY <1>2 DEF Building, FrameTables
<1>13. Buried'
  BY <1>2, <1>5, <1>11 DEF IInv, Buried, TypeOK
<1>14. Found'
  <2>1. ASSUME NEW x \in Tables \ Building', owner'[x] # None
        PROVE  \/ pointer'[owner'[x]] = x
               \/ "race" \in Moves /\ (pointer'[owner'[x]] # None \/ owner'[x] \in finalized')
    <3>1. x \notin out /\ owner'[x] = owner[x] /\ x \notin Building
      BY <1>2, <1>12, <2>1
    <3>2. owner[x] \in Interfaces
      BY <2>1, <3>1 DEF IInv, TypeOK
    <3>3. \/ pointer[owner[x]] = x
          \/ "race" \in Moves /\ (pointer[owner[x]] # None \/ owner[x] \in finalized)
      BY <2>1, <3>1 DEF IInv, Found
    <3>4. CASE owner[x] = h
      <4>1. pointer[h] # x
        <5>1. x # None
          BY DEF InterfaceAssumption
        <5> QED
          BY <1>1, <3>1, <5>1 DEF FreedWith
      <4> QED
        BY <1>2, <3>1, <3>3, <3>4, <4>1
    <3>5. CASE owner[x] # h
      BY <1>2, <1>5, <3>1, <3>2, <3>3, <3>5
    <3> QED
      BY <3>4, <3>5
  <2> QED
    BY <2>1 DEF Found
<1>15. Explained'
  BY <1>2 DEF IInv, Explained
<1> QED
  BY <1>6, <1>11, <1>13, <1>14, <1>15 DEF IInv

\* Thread th publishes t, the table of interface j, and the frame around it, if
\* there is one, takes it.
Popped(th, j, t) ==
  /\ stack[th] # << >> /\ t = stack[th][1].table /\ j = Owner(th, 1)
  /\ Len(messages[t]) = Len(Messages[j])
  /\ stack' \in [Threads -> Seq(Frame)]
  /\ \A other \in Threads \ {th} : stack'[other] = stack[other]
  /\ DOMAIN stack'[th] = 1 .. Len(stack[th]) - 1
  /\ \A k \in DOMAIN stack'[th] :
       /\ k + 1 \in DOMAIN stack[th]
       /\ stack'[th][k].table = stack[th][k + 1].table
       /\ k # 1 => stack'[th][k] = stack[th][k + 1]
       /\ k = 1 => stack'[th][k].types = Append(stack[th][k + 1].types, t)
  /\ pointer' \in [Interfaces -> Tables \cup {None}] /\ pointer'[j] = t
  /\ \A h \in Interfaces \ {j} : pointer'[h] = pointer[h]
  /\ UNCHANGED << owner, messages, kept, finalized, stray >>

\* What Publish does.
LEMMA PublishFacts ==
  ASSUME InterfaceAssumption, IInv, NEW th \in Threads, Publish(th)
  PROVE  \E j \in Interfaces, t \in Tables : Popped(th, j, t)
<1>1. stack[th] # << >>
  BY DEF Publish
<1>0. PICK f \in Frame, j \in Interfaces, n \in Nat : Innermost(th, f, j, n)
  BY <1>1, InnerFrame, Zenon
<1>2. /\ f = stack[th][1] /\ j = Owner(th, 1) /\ n = Len(messages[f.table])
      /\ Top(th) = f /\ Current(th) = Messages[j] /\ Index(th) = n + 1
      /\ f.table \in Tables /\ owner[f.table] = j
      /\ Messages[j] \in Seq(Seq(Interfaces \cup {None}))
      /\ Within(f, j)
      /\ Len(f.types) \in Nat /\ Len(Messages[j]) \in Nat
  BY <1>0 DEF Innermost
<1>3. Len(messages[f.table]) = Len(Messages[j])
  <2>1. n + 1 > Len(Messages[j]) /\ n <= Len(Messages[j])
    BY <1>2 DEF Publish, Within
  <2>2. Len(Messages[j]) \in Nat
    BY <1>2
  <2> QED
    BY <1>2, <2>1, <2>2
<1>4. PICK s, t : s = Tail(stack[th]) /\ t = f.table
  OBVIOUS
<1>5. /\ pointer' = [pointer EXCEPT ![j] = t]
      /\ stack' = [stack EXCEPT ![th] =
                     IF s = << >> THEN << >>
                     ELSE WithTypes(s, Append(Head(s).types, t))]
      /\ UNCHANGED << owner, messages, kept, finalized, stray >>
  BY <1>2, <1>4 DEF Publish, ReturnTo
<1>6. /\ stack[th] \in Seq(Frame) /\ Len(stack[th]) \in Nat
      /\ stack[th] # << >> => Len(stack[th]) # 0
  BY DEF IInv, TypeOK
<1>7. /\ s \in Seq(Frame) /\ DOMAIN s = 1 .. Len(stack[th]) - 1
      /\ \A k \in DOMAIN s : s[k] = stack[th][k + 1] /\ k + 1 \in DOMAIN stack[th]
  <2>1. /\ Tail(stack[th]) \in Seq(Frame)
        /\ DOMAIN Tail(stack[th]) = 1 .. Len(stack[th]) - 1
        /\ \A k \in DOMAIN Tail(stack[th]) :
             Tail(stack[th])[k] = stack[th][k + 1] /\ k + 1 \in DOMAIN stack[th]
    BY <1>1, <1>6, FramePopped
  <2> QED
    BY <1>4, <2>1
<1>8. PICK new : new = IF s = << >> THEN << >> ELSE WithTypes(s, Append(Head(s).types, t))
  OBVIOUS
<1>9. /\ new \in Seq(Frame)
      /\ DOMAIN new = DOMAIN s
      /\ \A k \in DOMAIN new :
           /\ new[k].table = s[k].table
           /\ k # 1 => new[k] = s[k]
           /\ k = 1 => new[k].types = Append(s[k].types, t)
  <2>1. CASE s = << >>
    <3>1. << >> \in Seq(Frame) /\ DOMAIN << >> = {}
      OBVIOUS
    <3> QED
      BY <1>8, <2>1, <3>1
  <2>2. CASE s # << >>
    <3>1. Head(s) = s[1] /\ 1 \in DOMAIN s /\ s[1] \in Frame
      BY <1>7, <2>2
    <3>2. PICK v : v = Append(Head(s).types, t)
      OBVIOUS
    <3>3. v \in Seq(Tables \cup {None})
      BY <1>2, <1>4, <3>1, <3>2 DEF Frame
    <3>4. /\ WithTypes(s, v) \in Seq(Frame)
          /\ DOMAIN WithTypes(s, v) = DOMAIN s
          /\ WithTypes(s, v)[1] = [table |-> s[1].table, types |-> v]
          /\ \A k \in DOMAIN s : k # 1 => WithTypes(s, v)[k] = s[k]
      <4>1. s \in Seq(Frame) /\ s # << >> /\ v \in Seq(Tables \cup {None})
        BY <1>7, <2>2, <3>3
      <4> QED
        BY <4>1, FrameChanged
    <3>5. new = WithTypes(s, v)
      BY <1>8, <2>2, <3>2
    <3>6. new[1].table = s[1].table /\ new[1].types = Append(s[1].types, t)
      BY <3>1, <3>2, <3>4, <3>5
    <3> QED
      BY <3>4, <3>5, <3>6
  <2> QED
    BY <2>1, <2>2
<1>10. /\ stack' \in [Threads -> Seq(Frame)]
       /\ stack'[th] = new
       /\ \A other \in Threads \ {th} : stack'[other] = stack[other]
  BY <1>5, <1>8, <1>9 DEF IInv, TypeOK
<1>11. /\ pointer' \in [Interfaces -> Tables \cup {None}] /\ pointer'[j] = t
       /\ \A h \in Interfaces \ {j} : pointer'[h] = pointer[h]
  BY <1>2, <1>4, <1>5 DEF IInv, TypeOK
<1>12. \A k \in DOMAIN new :
         /\ k + 1 \in DOMAIN stack[th]
         /\ new[k].table = stack[th][k + 1].table
         /\ k # 1 => new[k] = stack[th][k + 1]
         /\ k = 1 => new[k].types = Append(stack[th][k + 1].types, t)
  BY <1>7, <1>9
<1> QED
  <2>1. t \in Tables
    BY <1>2, <1>4
  <2>2. Popped(th, j, t)
    BY <1>1, <1>2, <1>3, <1>4, <1>5, <1>7, <1>9, <1>10, <1>11, <1>12, Zenon DEF Popped
  <2> QED
    BY <2>1, <2>2, Zenon

\* Where the frames are afterwards: the first of th, j's in t, is gone.
FrameLess(th, j, t) ==
  /\ t \in Building /\ owner[t] = j
  /\ Building' = Building \ {t}
  /\ \A other \in Threads : \A k \in DOMAIN stack'[other] :
       \E m \in DOMAIN stack[other] :
         /\ m = IF other = th THEN k + 1 ELSE k
         /\ stack'[other][k].table = stack[other][m].table
         /\ other # th \/ k # 1 => stack'[other][k] = stack[other][m]
         /\ stack[other][m].table # t
         /\ Owner(other, k)' = Owner(other, m)

\* A frame less, the first of th, and nothing else.
LEMMA PoppedFrames ==
  ASSUME InterfaceAssumption, IInv, NEW th \in Threads, NEW j \in Interfaces,
         NEW t \in Tables,
         Popped(th, j, t)
  PROVE  FrameLess(th, j, t)
<1>1. \A other \in Threads :
        stack[other] \in Seq(Frame) /\ DOMAIN stack[other] = 1 .. Len(stack[other])
  BY DEF IInv, TypeOK
<1>2. 1 \in DOMAIN stack[th] /\ t = stack[th][1].table /\ owner[t] = j
  BY <1>1 DEF Popped, Owner
<1>3. ASSUME NEW other \in Threads, NEW k \in DOMAIN stack'[other]
      PROVE  \E m \in DOMAIN stack[other] :
               /\ m = IF other = th THEN k + 1 ELSE k
               /\ stack'[other][k].table = stack[other][m].table
               /\ other # th \/ k # 1 => stack'[other][k] = stack[other][m]
               /\ stack[other][m].table # t
               /\ Owner(other, k)' = Owner(other, m)
  <2>1. PICK m : m = IF other = th THEN k + 1 ELSE k
    OBVIOUS
  <2>2. /\ m \in DOMAIN stack[other]
        /\ stack'[other][k].table = stack[other][m].table
        /\ other # th \/ k # 1 => stack'[other][k] = stack[other][m]
    <3>1. CASE other = th
      BY <1>3, <2>1, <3>1 DEF Popped
    <3>2. CASE other # th
      <4>1. stack'[other] = stack[other]
        BY <3>2 DEF Popped
      <4> QED
        BY <1>3, <2>1, <3>2, <4>1
    <3> QED
      BY <3>1, <3>2
  <2>3. other = th => m # 1
    <3>1. DOMAIN stack'[th] = 1 .. Len(stack[th]) - 1
      BY DEF Popped
    <3> QED
      BY <1>1, <1>3, <2>1, <3>1
  <2>4. stack[other][m].table # t
    BY <1>2, <2>2, <2>3 DEF IInv, OwnBlocks
  <2>5. Owner(other, k)' = Owner(other, m)
    BY <2>2 DEF Popped, Owner
  <2> QED
    BY <2>1, <2>2, <2>4, <2>5
<1>4. /\ \A x : x \in Building <=>
           \E other \in Threads : \E k \in DOMAIN stack[other] : x = stack[other][k].table
      /\ \A x : x \in Building' <=>
           \E other \in Threads : \E k \in DOMAIN stack'[other] : x = stack'[other][k].table
  BY BuildingFacts, BuildingNext DEF IInv, TypeOK, Popped
<1>5. t \in Building
  BY <1>2, <1>4
<1>6. ASSUME NEW x \in Building' PROVE x \in Building /\ x # t
  <2>1. PICK other \in Threads : \E k \in DOMAIN stack'[other] : x = stack'[other][k].table
    BY <1>4
  <2>2. PICK k \in DOMAIN stack'[other] : x = stack'[other][k].table
    BY <2>1
  <2>3. PICK m \in DOMAIN stack[other] :
          stack'[other][k].table = stack[other][m].table /\ stack[other][m].table # t
    BY <1>3
  <2> QED
    BY <1>4, <2>2, <2>3
<1>7. ASSUME NEW x \in Building, x # t PROVE x \in Building'
  <2>1. PICK other \in Threads : \E k \in DOMAIN stack[other] : x = stack[other][k].table
    BY <1>4
  <2>2. PICK k \in DOMAIN stack[other] : x = stack[other][k].table
    BY <2>1
  <2>3. \E m \in DOMAIN stack'[other] : stack'[other][m].table = x
    <3>1. CASE other = th
      <4>1. k # 1
        BY <1>2, <1>7, <2>2, <3>1
      <4>2. k - 1 \in 1 .. Len(stack[th]) - 1 /\ k - 1 + 1 = k
        BY <1>1, <2>2, <3>1, <4>1
      <4>3. k - 1 \in DOMAIN stack'[th] /\ stack'[th][k - 1].table = stack[th][k].table
        BY <4>2 DEF Popped
      <4> QED
        BY <2>2, <3>1, <4>3
    <3>2. CASE other # th
      <4>1. stack'[other] = stack[other]
        BY <3>2 DEF Popped
      <4> QED
        BY <2>2, <4>1
    <3> QED
      BY <3>1, <3>2
  <2> QED
    BY <1>4, <2>3
<1>8. Building' = Building \ {t}
  BY <1>6, <1>7
<1> QED
  BY <1>2, <1>3, <1>5, <1>8 DEF FrameLess

\* A table published leaves what is reachable, and every other table, alone.
LEMMA PoppedSteady ==
  ASSUME InterfaceAssumption, IInv, NEW th \in Threads, NEW j \in Interfaces,
         NEW t \in Tables,
         Popped(th, j, t)
  PROVE  Reachable' \subseteq Reachable /\ Steady
<1>1. FrameLess(th, j, t)
  BY PoppedFrames
<1>2. ASSUME NEW other \in Threads, NEW k \in DOMAIN stack'[other]
      PROVE  owner'[stack'[other][k].table] \in Reachable
  <2>1. owner'[stack'[other][k].table] = Owner(other, k)'
    BY DEF Owner
  <2>2. PICK m \in DOMAIN stack[other] : Owner(other, k)' = Owner(other, m)
    BY <1>1 DEF FrameLess
  <2>3. Owner(other, m) \in Reachable
    BY ReachableFacts
  <2> QED
    BY <2>1, <2>2, <2>3
<1>3. kept' \subseteq kept /\ (stack \in [Threads -> Seq(Frame)])'
  BY DEF Popped
<1>4. Reachable' \subseteq Reachable
  BY <1>2, <1>3, ReachableShrinks
<1>5. Steady
  BY <1>1 DEF Steady, Popped, FrameLess
<1> QED
  BY <1>4, <1>5

\* The block published leaves the frames, and its owner's field leads to it.
LEMMA PoppedOwnBlocks ==
  ASSUME InterfaceAssumption, IInv, NEW th \in Threads, NEW j \in Interfaces,
         NEW t \in Tables,
         Popped(th, j, t)
  PROVE  OwnBlocks'
<1>1. FrameLess(th, j, t)
  BY PoppedFrames
<1>2. ASSUME NEW other \in Threads, NEW k \in DOMAIN stack'[other]
      PROVE  Owner(other, k)' # None
  <2>1. PICK m \in DOMAIN stack[other] : Owner(other, k)' = Owner(other, m)
    BY <1>1 DEF FrameLess
  <2> QED
    BY <2>1 DEF IInv, OwnBlocks
<1>3. ASSUME NEW a \in Threads, NEW b \in Threads,
             NEW k \in DOMAIN stack'[a], NEW n \in DOMAIN stack'[b],
             stack'[a][k].table = stack'[b][n].table
      PROVE  a = b /\ k = n
  <2>1. PICK m \in DOMAIN stack[a] :
          /\ m = IF a = th THEN k + 1 ELSE k
          /\ stack'[a][k].table = stack[a][m].table
    BY <1>1 DEF FrameLess
  <2>2. PICK l \in DOMAIN stack[b] :
          /\ l = IF b = th THEN n + 1 ELSE n
          /\ stack'[b][n].table = stack[b][l].table
    BY <1>1 DEF FrameLess
  <2>3. a = b /\ m = l
    <3>1. stack[a][m].table = stack[b][l].table
      BY <1>3, <2>1, <2>2
    <3> QED
      BY <3>1 DEF IInv, OwnBlocks
  <2>4. k \in Int /\ n \in Int
    <3>1. /\ DOMAIN stack'[a] = 1 .. Len(stack'[a])
          /\ DOMAIN stack'[b] = 1 .. Len(stack'[b])
      BY DEF Popped
    <3> QED
      BY <3>1
  <2> QED
    BY <2>1, <2>2, <2>3, <2>4
<1>4. ASSUME NEW h \in Interfaces, pointer'[h] # None
      PROVE  owner'[pointer'[h]] = h /\ pointer'[h] \notin Building'
  <2>1. CASE h = j
    BY <1>1, <2>1 DEF Popped, FrameLess
  <2>2. CASE h # j
    <3>1. pointer'[h] = pointer[h] /\ owner' = owner
      BY <2>2 DEF Popped
    <3> QED
      BY <1>1, <1>4, <3>1 DEF IInv, OwnBlocks, FrameLess
  <2> QED
    BY <2>1, <2>2
<1> QED
  BY <1>2, <1>3, <1>4 DEF OwnBlocks

\* The second frame f, for h, takes t as the type j it was waiting for in its
\* message n + 1, and is the first as g.
Resumed(th, j, t, f, g, h, n) ==
  /\ 2 \in DOMAIN stack[th] /\ f = stack[th][2] /\ h = Owner(th, 2)
  /\ h = Owner(th, 1)'
  /\ g = stack'[th][1] /\ g.table = f.table /\ g.types = Append(f.types, t)
  /\ f.table \in Tables /\ f.types \in Seq(Tables \cup {None})
  /\ n = Len(messages[f.table])
  /\ n + 1 \in 1 .. Len(Messages[h]) /\ n < Len(Messages[h])
  /\ Len(f.types) + 1 \in 1 .. Len(Messages[h][n + 1])
  /\ Messages[h][n + 1][Len(f.types) + 1] = j
  /\ Within(f, h)

\* The frame around was waiting for this table.
LEMMA PoppedNext ==
  ASSUME InterfaceAssumption, IInv, NEW th \in Threads, NEW j \in Interfaces,
         NEW t \in Tables,
         Popped(th, j, t), 1 \in DOMAIN stack'[th]
  PROVE  \E f \in Frame, g \in Frame, h \in Interfaces, n \in Nat :
           Resumed(th, j, t, f, g, h, n)
<1>1. FrameLess(th, j, t)
  BY PoppedFrames
<1>2. PICK f, g, h, n :
        /\ f = stack[th][2]
        /\ g = stack'[th][1]
        /\ h = Owner(th, 2)
        /\ n = Len(messages[f.table])
  OBVIOUS
<1>3. 2 \in DOMAIN stack[th]
  <2>1. 1 + 1 \in DOMAIN stack[th]
    BY DEF Popped
  <2> QED
    BY <2>1
<1>4. g.table = f.table /\ g.types = Append(f.types, t)
  <2>1. /\ stack'[th][1].table = stack[th][1 + 1].table
        /\ stack'[th][1].types = Append(stack[th][1 + 1].types, t)
    BY DEF Popped
  <2>2. 1 + 1 = 2
    OBVIOUS
  <2> QED
    BY <1>2, <2>1, <2>2
<1>5. h = Owner(th, 1)'
  <2>1. PICK m \in DOMAIN stack[th] : m = 1 + 1 /\ Owner(th, 1)' = Owner(th, m)
    BY <1>1 DEF FrameLess
  <2> QED
    BY <1>2, <2>1
<1>6. /\ f \in Frame /\ f.table \in Tables
      /\ f.types \in Seq(Tables \cup {None})
      /\ h \in Interfaces /\ Messages[h] \in Seq(Seq(Interfaces \cup {None}))
      /\ messages[f.table] \in Seq(Seq(Tables \cup {None}))
      /\ Within(f, h)
  BY <1>2, <1>3, FrameFacts
<1>7. g \in Frame
  BY <1>2 DEF Popped
<1>8. n \in Nat /\ Len(f.types) \in Nat /\ Len(Messages[h]) \in Nat
  <2>1. n = Len(messages[f.table])
    BY <1>2
  <2>2. Len(messages[f.table]) \in Nat
    BY <1>6
  <2>3. Len(f.types) \in Nat
    BY <1>6
  <2>4. Len(Messages[h]) \in Nat
    BY <1>6
  <2> QED
    BY <2>1, <2>2, <2>3, <2>4
<1>9. WaitsFor(f, h, j)
  <2>1. WaitsFor(stack[th][2], Owner(th, 2), Owner(th, 2 - 1))
    BY <1>3 DEF IInv, Nested
  <2>2. Owner(th, 2 - 1) = j
    BY DEF Popped
  <2> QED
    BY <1>2, <2>1, <2>2
<1>10. /\ n < Len(Messages[h]) /\ Len(f.types) < Len(Messages[h][n + 1])
       /\ Messages[h][n + 1][Len(f.types) + 1] = j
  BY <1>2, <1>9 DEF WaitsFor
<1>11. n + 1 \in 1 .. Len(Messages[h])
  BY <1>8, <1>10
<1>12. Len(Messages[h][n + 1]) \in Nat
  BY <1>6, <1>11
<1>13. Len(f.types) + 1 \in 1 .. Len(Messages[h][n + 1])
  BY <1>8, <1>10, <1>12
<1> QED
  <2>1. Resumed(th, j, t, f, g, h, n)
    BY <1>2, <1>3, <1>4, <1>5, <1>6, <1>10, <1>11, <1>13 DEF Resumed
  <2> QED
    BY <1>6, <1>7, <1>8, <2>1

\* The frame that took the table is within its messages.
LEMMA PoppedNested ==
  ASSUME InterfaceAssumption, IInv, NEW th \in Threads, NEW j \in Interfaces,
         NEW t \in Tables,
         Popped(th, j, t)
  PROVE  Nested'
<1>1. FrameLess(th, j, t)
  BY PoppedFrames
<1>2. /\ messages' = messages
      /\ \A other \in Threads : DOMAIN stack'[other] = 1 .. Len(stack'[other])
  BY DEF Popped
<1>3. ASSUME NEW other \in Threads, NEW k \in DOMAIN stack'[other]
      PROVE  Within(stack[other][k], Owner(other, k))'
  <2>1. CASE other = th /\ k = 1
    <3>0. PICK f \in Frame, g \in Frame, h \in Interfaces, n \in Nat :
            Resumed(th, j, t, f, g, h, n)
      <4>1. 1 \in DOMAIN stack'[th]
        BY <2>1
      <4> QED
        BY <4>1, PoppedNext
    <3>1. /\ h = Owner(th, 1)'
          /\ g = stack'[th][1] /\ g.table = f.table
          /\ g.types = Append(f.types, t)
          /\ f.types \in Seq(Tables \cup {None})
          /\ n = Len(messages[f.table]) /\ n < Len(Messages[h])
          /\ Len(f.types) + 1 \in 1 .. Len(Messages[h][n + 1])
      BY <3>0 DEF Resumed
    <3>2. Len(g.types) = Len(f.types) + 1
      BY <3>1
    <3>3. Len(g.types) <= Len(Messages[h][n + 1]) /\ n <= Len(Messages[h])
      BY <3>1, <3>2
    <3>4. Within(g, h)'
      BY <1>2, <3>1, <3>3 DEF Within
    <3> QED
      BY <2>1, <3>1, <3>4 DEF Within
  <2>2. CASE other # th \/ k # 1
    <3>1. PICK m \in DOMAIN stack[other] :
            /\ stack'[other][k] = stack[other][m]
            /\ Owner(other, k)' = Owner(other, m)
      BY <1>1, <2>2 DEF FrameLess
    <3>2. Within(stack[other][m], Owner(other, m))
      BY FrameFacts
    <3> QED
      BY <1>2, <3>1, <3>2 DEF Within
  <2> QED
    BY <2>1, <2>2
<1>4. ASSUME NEW other \in Threads, NEW k \in DOMAIN stack'[other], k # 1
      PROVE  WaitsFor(stack[other][k], Owner(other, k), Owner(other, k - 1))'
  <2>1. k - 1 \in DOMAIN stack'[other] /\ k \in Int
    BY <1>2, <1>4
  <2>2. PICK m \in DOMAIN stack[other] :
          /\ m = IF other = th THEN k + 1 ELSE k
          /\ stack'[other][k] = stack[other][m]
          /\ Owner(other, k)' = Owner(other, m)
    BY <1>1, <1>4 DEF FrameLess
  <2>3. PICK l \in DOMAIN stack[other] :
          /\ l = IF other = th THEN k - 1 + 1 ELSE k - 1
          /\ Owner(other, k - 1)' = Owner(other, l)
    <3>1. \A x \in DOMAIN stack'[other] : \E l \in DOMAIN stack[other] :
            l = (IF other = th THEN x + 1 ELSE x) /\ Owner(other, x)' = Owner(other, l)
      BY <1>1 DEF FrameLess
    <3> QED
      BY <2>1, <3>1
  <2>4. l = m - 1 /\ m # 1
    <3>1. DOMAIN stack[other] = 1 .. Len(stack[other])
      BY DEF IInv, TypeOK
    <3>2. m \in Int /\ l \in Int /\ l >= 1
      BY <3>1
    <3>3. CASE other = th
      BY <2>1, <2>2, <2>3, <3>2, <3>3
    <3>4. CASE other # th
      BY <1>4, <2>1, <2>2, <2>3, <3>2, <3>4
    <3> QED
      BY <3>3, <3>4
  <2>5. WaitsFor(stack[other][m], Owner(other, m), Owner(other, m - 1))
    BY <2>4 DEF IInv, Nested
  <2> QED
    BY <1>2, <2>2, <2>3, <2>4, <2>5 DEF WaitsFor
<1>5. ASSUME NEW other \in Threads, NEW k \in DOMAIN stack'[other],
             NEW n \in DOMAIN stack'[other], n < k
      PROVE  << Owner(other, n)', Owner(other, k)' >> \in Below
  <2>1. k \in Int /\ n \in Int
    BY <1>2
  <2>2. PICK m \in DOMAIN stack[other] :
          /\ m = (IF other = th THEN k + 1 ELSE k)
          /\ Owner(other, k)' = Owner(other, m)
    BY <1>1 DEF FrameLess
  <2>3. PICK l \in DOMAIN stack[other] :
          /\ l = (IF other = th THEN n + 1 ELSE n)
          /\ Owner(other, n)' = Owner(other, l)
    BY <1>1 DEF FrameLess
  <2>4. l < m
    BY <1>5, <2>1, <2>2, <2>3
  <2> QED
    BY <2>2, <2>3, <2>4 DEF IInv, Nested
<1> QED
  BY <1>3, <1>4, <1>5 DEF Nested

\* The table published is whole, and right where the frame around took it.
LEMMA PoppedContents ==
  ASSUME InterfaceAssumption, IInv, NEW th \in Threads, NEW j \in Interfaces,
         NEW t \in Tables,
         Popped(th, j, t)
  PROVE  Contents'
<1>1. FrameLess(th, j, t)
  BY PoppedFrames
<1>2. Reachable' \subseteq Reachable /\ Steady
  BY PoppedSteady
<1>3. messages' = messages /\ owner' = owner
  BY DEF Popped
<1>4. /\ 1 \in DOMAIN stack[th] /\ stack[th][1].table = t /\ Owner(th, 1) = j
      /\ Len(messages[t]) = Len(Messages[j]) /\ Len(messages[t]) \in Nat
  <2>1. stack[th] # << >>
    BY DEF Popped
  <2>2. 1 \in DOMAIN stack[th]
    BY <2>1, TopFacts
  <2>3. messages[t] \in Seq(Seq(Tables \cup {None}))
    BY DEF IInv, TypeOK
  <2>4. Len(messages[t]) \in Nat
    BY <2>3
  <2> QED
    BY <2>2, <2>4 DEF Popped
<1>5. j \in Reachable => Filled(t, j)'
  <2> SUFFICES ASSUME j \in Reachable PROVE Filled(t, j)'
    OBVIOUS
  <2>1. PICK f : f = stack[th][1]
    OBVIOUS
  <2>2. messages'[f.table] = messages[f.table] /\ f.table = t /\ j = Owner(th, 1)
    BY <1>3, <1>4, <2>1
  <2>3. Filled(f.table, j)'
    BY <1>2, <1>4, <2>1, <2>2, FrameKept
  <2> QED
    BY <2>2, <2>3
<1>6. ASSUME NEW h \in Reachable', NEW x \in Tables, pointer'[h] = x
      PROVE  Len(messages'[x]) = Len(Messages[h]) /\ Filled(x, h)'
  <2>1. h \in Reachable /\ h \in Interfaces
    BY <1>2, ReachableFacts
  <2>2. CASE h = j
    BY <1>3, <1>4, <1>5, <1>6, <2>1, <2>2 DEF Popped
  <2>3. CASE h # j
    <3>1. pointer[h] = x
      BY <1>6, <2>1, <2>3 DEF Popped
    <3> QED
      BY <1>2, <2>1, <3>1, PublishedKept
  <2> QED
    BY <2>2, <2>3
<1>7. ASSUME NEW other \in Threads, NEW e \in Frames(other)',
             NEW h \in Reachable',
             owner'[e.table] = h
      PROVE  Filled(e.table, h)' /\ Taken(e, h)'
  <2>1. PICK k \in DOMAIN stack'[other] : e = stack'[other][k]
    BY DEF Frames
  <2>2. PICK m \in DOMAIN stack[other] :
          /\ m = IF other = th THEN k + 1 ELSE k
          /\ stack'[other][k].table = stack[other][m].table
          /\ other # th \/ k # 1 => stack'[other][k] = stack[other][m]
          /\ Owner(other, k)' = Owner(other, m)
    BY <1>1 DEF FrameLess
  <2>3. h = Owner(other, m) /\ h \in Reachable
    BY <1>2, <1>7, <2>1, <2>2 DEF Owner
  <2>4. PICK d : d = stack[other][m]
    OBVIOUS
  <2>5. Filled(d.table, h)' /\ Taken(d, h)' /\ e.table = d.table
    <3>1. Filled(d.table, h)' /\ Taken(d, h)'
      BY <1>2, <1>3, <2>3, <2>4, FrameKept
    <3> QED
      BY <2>1, <2>2, <2>4, <3>1
  <2>6. CASE other # th \/ k # 1
    <3>1. e = d
      BY <2>1, <2>2, <2>4, <2>6
    <3> QED
      BY <2>5, <3>1
  <2>7. CASE other = th /\ k = 1
    <3>0. PICK f \in Frame, g \in Frame, y \in Interfaces, n \in Nat :
            Resumed(th, j, t, f, g, y, n)
      <4>1. 1 \in DOMAIN stack'[th]
        BY <2>1, <2>7
      <4> QED
        BY <4>1, PoppedNext
    <3>1. /\ f = stack[th][2] /\ g = stack'[th][1] /\ g.table = f.table
          /\ y = Owner(th, 1)' /\ g.types = Append(f.types, t)
          /\ f.types \in Seq(Tables \cup {None})
          /\ n = Len(messages[f.table])
          /\ Messages[y][n + 1][Len(f.types) + 1] = j
      BY <3>0 DEF Resumed
    <3>2. m = 2 /\ d = f /\ e = g /\ y = h
      BY <2>1, <2>2, <2>3, <2>4, <2>7, <3>1
    <3>3. /\ DOMAIN g.types = 1 .. Len(f.types) + 1
          /\ DOMAIN f.types = 1 .. Len(f.types)
          /\ Len(f.types) \in Nat /\ g.types[Len(f.types) + 1] = t
          /\ \A l \in 1 .. Len(f.types) : g.types[l] = f.types[l]
      <4>1. f.types \in Seq(Tables \cup {None}) /\ g.types = Append(f.types, t)
        BY <3>1
      <4> QED
        BY <4>1
    <3>4. Right(t, j)'
      <4>1. j # None
        BY DEF InterfaceAssumption
      <4> QED
        BY <1>1, <1>3, <4>1 DEF Right, FrameLess
    <3>5. n = Len(messages'[g.table]) /\ n = Len(messages'[f.table])
      BY <1>3, <3>1
    <3>6. ASSUME NEW l \in DOMAIN g.types
          PROVE  Right(g.types[l], Messages[h][n + 1][l])'
      <4>1. CASE l = Len(f.types) + 1
        <5>1. g.types[l] = t /\ Messages[h][n + 1][l] = j
          BY <3>1, <3>2, <3>3, <4>1
        <5> QED
          BY <3>4, <5>1
      <4>2. CASE l # Len(f.types) + 1
        <5>0. l \in 1 .. Len(f.types)
          <6>1. l \in 1 .. Len(f.types) + 1
            BY <3>3, <3>6
          <6> QED
            BY <3>3, <4>2, <6>1
        <5>1. l \in DOMAIN f.types /\ g.types[l] = f.types[l]
          BY <3>3, <5>0
        <5>2. Right(f.types[l], Messages[h][n + 1][l])'
          BY <2>5, <3>2, <3>5, <5>1 DEF Taken
        <5> QED
          BY <5>1, <5>2
      <4> QED
        BY <4>1, <4>2
    <3>7. Taken(g, h)'
      BY <3>5, <3>6 DEF Taken
    <3>8. Filled(g.table, h)'
      BY <2>5, <3>1, <3>2
    <3> QED
      BY <3>2, <3>7, <3>8
  <2> QED
    BY <2>6, <2>7
<1> QED
  BY <1>6, <1>7 DEF Contents

\* A table is published.
LEMMA PublishIInv ==
  ASSUME InterfaceAssumption, IInv, NEW th \in Threads, Publish(th)
  PROVE  IInv' /\ Steady
<1>1. PICK j \in Interfaces, t \in Tables : Popped(th, j, t)
  BY PublishFacts
<1>2. FrameLess(th, j, t)
  BY <1>1, PoppedFrames
<1>3. /\ OwnBlocks' /\ Nested' /\ Contents'
      /\ Reachable' \subseteq Reachable /\ Steady
  BY <1>1, PoppedOwnBlocks, PoppedNested, PoppedContents, PoppedSteady
<1>4. /\ stack[th] # << >> /\ t = stack[th][1].table /\ j = Owner(th, 1)
      /\ 1 \in DOMAIN stack[th] /\ j # None /\ t # None
      /\ pointer'[j] = t
      /\ \A h \in Interfaces \ {j} : pointer'[h] = pointer[h]
      /\ UNCHANGED << owner, messages, kept, finalized, stray >>
      /\ stack' \in [Threads -> Seq(Frame)]
      /\ \A other \in Threads \ {th} : stack'[other] = stack[other]
  <2>1. 1 \in DOMAIN stack[th]
    BY <1>1, TopFacts DEF Popped
  <2> QED
    BY <1>1, <2>1 DEF Popped, InterfaceAssumption
<1>5. TypeOK'
  BY <1>1 DEF Popped, IInv, TypeOK
<1>6. Buried'
  <2>1. j \in Reachable
    BY <1>4, ReachableFacts
  <2> QED
    BY <1>3, <1>4, <2>1 DEF IInv, Buried, TypeOK
<1>7. NoRace'
  <2> SUFFICES ASSUME "race" \notin Moves
               PROVE  /\ \A a, b \in Threads :
                         stack'[a] # << >> /\ stack'[b] # << >> => a = b
                      /\ \A a \in Threads : \A k \in DOMAIN stack'[a] :
                           pointer'[Owner(a, k)'] = None
    BY DEF NoRace
  <2>1. \A a \in Threads \ {th} : stack[a] = << >> /\ stack'[a] = << >>
    BY <1>4 DEF IInv, NoRace
  <2>2. ASSUME NEW a \in Threads, NEW k \in DOMAIN stack'[a]
        PROVE  pointer'[Owner(a, k)'] = None
    <3>1. a = th
      <4>1. DOMAIN << >> = {}
        OBVIOUS
      <4> QED
        BY <2>1, <2>2, <4>1
    <3>2. PICK m \in DOMAIN stack[th] : m = k + 1 /\ Owner(th, k)' = Owner(th, m)
      BY <1>2, <3>1 DEF FrameLess
    <3>3. 1 < m
      <4>1. stack'[th] \in Seq(Frame)
        BY <1>4
      <4>2. k \in Nat /\ k >= 1
        BY <3>1, <4>1
      <4> QED
        BY <3>2, <4>2
    <3>4. << j, Owner(th, m) >> \in Below
      BY <1>4, <3>3 DEF IInv, Nested
    <3>5. Owner(th, m) \in Interfaces /\ Owner(th, m) # j
      BY <3>4, FrameFacts DEF InterfaceAssumption
    <3>6. pointer[Owner(th, m)] = None
      BY DEF IInv, NoRace
    <3> QED
      BY <1>4, <3>1, <3>2, <3>5, <3>6
  <2> QED
    BY <2>1, <2>2
<1>8. Found'
  <2>1. ASSUME NEW x \in Tables \ Building', owner'[x] # None
        PROVE  \/ pointer'[owner'[x]] = x
               \/ "race" \in Moves /\ (pointer'[owner'[x]] # None \/ owner'[x] \in finalized')
    <3>1. owner'[x] = owner[x] /\ owner[x] \in Interfaces
      BY <1>4, <2>1 DEF IInv, TypeOK
    <3>2. CASE x = t
      BY <1>2, <1>4, <3>2 DEF FrameLess
    <3>3. CASE x # t
      <4>1. x \notin Building
        BY <1>2, <2>1, <3>3 DEF FrameLess
      <4>2. \/ pointer[owner[x]] = x
            \/ "race" \in Moves /\ (pointer[owner[x]] # None \/ owner[x] \in finalized)
        BY <2>1, <3>1, <4>1 DEF IInv, Found
      <4>3. CASE owner[x] = j
        <5>1. "race" \in Moves
          <6>1. x # None
            BY DEF InterfaceAssumption
          <6>2. "race" \notin Moves => pointer[j] = None
            BY <1>4 DEF IInv, NoRace
          <6> QED
            BY <4>2, <4>3, <6>1, <6>2
        <5> QED
          BY <1>4, <3>1, <4>3, <5>1
      <4>4. CASE owner[x] # j
        BY <1>4, <3>1, <4>2, <4>4
      <4> QED
        BY <4>3, <4>4
    <3> QED
      BY <3>2, <3>3
  <2> QED
    BY <2>1 DEF Found
<1>9. Explained'
  BY <1>4 DEF IInv, Explained
<1> QED
  BY <1>3, <1>5, <1>6, <1>7, <1>8, <1>9 DEF IInv

-----------------------------------------------------------------------------
(* The theorems. *)

\* At first there are no tables.
LEMMA InitIInv ==
  ASSUME InterfaceAssumption, Init
  PROVE  IInv
<1>1. << >> \in Seq(Seq(Tables \cup {None})) /\ << >> \in Seq(Frame) /\ DOMAIN << >> = {}
  OBVIOUS
<1>2. TypeOK
  BY <1>1 DEF Init, TypeOK
<1>3. \A th \in Threads : stack[th] = << >> /\ DOMAIN stack[th] = {}
  BY <1>1 DEF Init
<1>4. \A h \in Interfaces : pointer[h] = None
  BY DEF Init
<1>5. OwnBlocks /\ Nested /\ NoRace
  BY <1>3, <1>4 DEF OwnBlocks, Nested, NoRace
<1>6. kept = Interfaces /\ finalized = {} /\ stray = FALSE /\ \A t \in Tables : owner[t] = None
  BY DEF Init
<1>7. Buried /\ Found /\ Explained
  BY <1>6 DEF Buried, Found, Explained
<1>8. Contents
  <2>1. Roots \subseteq Interfaces
    <3>1. \A th \in Threads : FrameTables(th) = {}
      <4>1. \A th \in Threads : 1 .. Len(stack[th]) = {}
        BY <1>3
      <4> QED
        BY <4>1 DEF FrameTables
    <3> QED
      BY <1>6, <3>1 DEF Roots, Building
  <2>2. Reachable \subseteq Interfaces
    BY <2>1, NeedsClosed DEF Reachable
  <2>3. \A th \in Threads : Frames(th) = {}
    BY <1>3 DEF Frames
  <2>4. \A t \in Tables : t # None
    BY DEF InterfaceAssumption
  <2> QED
    BY <1>4, <2>2, <2>3, <2>4 DEF Contents
<1> QED
  BY <1>2, <1>5, <1>7, <1>8 DEF IInv

\* Every step keeps IInv, and the finished tables of what is reachable.
LEMMA NextIInv ==
  ASSUME InterfaceAssumption, IInv, [Next]_vars
  PROVE  IInv' /\ Steady
<1>1. ASSUME NEW th \in Threads, NEW h \in Interfaces, Ask(th, h) PROVE IInv' /\ Steady
  BY <1>1, AskIInv
<1>2. ASSUME NEW th \in Threads, Advance(th) PROVE IInv' /\ Steady
  <2>1. CASE TakeType(th)
    BY <2>1, TakeTypeIInv
  <2>2. CASE BuildType(th)
    BY <2>2, BuildTypeIInv
  <2>3. CASE FinishMessage(th)
    BY <2>3, FinishMessageIInv
  <2>4. CASE Publish(th)
    BY <2>4, PublishIInv
  <2> QED
    BY <1>2, <2>1, <2>2, <2>3, <2>4 DEF Advance
<1>3. ASSUME NEW th \in Threads, Fail(th) PROVE IInv' /\ Steady
  <2>1. Undo(th)
    BY <1>3 DEF Fail, OutOfMemory, MethodMissing
  <2>2. stray' \in BOOLEAN /\ Explained'
    <3>1. CASE OutOfMemory(th)
      BY <3>1 DEF OutOfMemory, IInv, TypeOK, Explained
    <3>2. CASE MethodMissing(th)
      BY <3>2 DEF MethodMissing, Explained
    <3> QED
      BY <1>3, <3>1, <3>2 DEF Fail
  <2> QED
    BY <2>1, <2>2, UndoIInv
<1>4. ASSUME NEW h \in Interfaces, Drop(h) \/ Finalize(h) PROVE IInv' /\ Steady
  BY <1>4, DropIInv, FinalizeIInv
<1>5. CASE UNCHANGED vars
  <2>1. /\ UNCHANGED << pointer, owner, messages, stack, finalized, stray >>
        /\ kept' \subseteq kept
        /\ kept' = kept
    BY <1>5 DEF vars
  <2>2. Settles
    <3>1. \A j \in Interfaces : pointer[j] # None => owner[pointer[j]] = j
      BY DEF IInv, OwnBlocks
    <3> QED
      BY <2>1, <3>1 DEF Settles, IInv, TypeOK
  <2>3. /\ Reachable' \subseteq Reachable
        /\ OwnBlocks' /\ Nested' /\ Contents' /\ NoRace' /\ Steady
    BY <2>2, SettlesKeeps
  <2>4. TypeOK'
    BY <2>1 DEF IInv, TypeOK
  <2>5. Building' = Building
    BY <2>1 DEF Building, FrameTables
  <2>6. Buried' /\ Found' /\ Explained'
    BY <2>1, <2>3, <2>5 DEF IInv, Buried, Found, Explained
  <2> QED
    BY <2>3, <2>4, <2>6 DEF IInv
<1> QED
  BY <1>1, <1>2, <1>3, <1>4, <1>5 DEF Next

\* IInv holds in every reachable state, whatever the interfaces and their
\* messages are and whatever fails, races or is finalized.
THEOREM Inductive ==
  ASSUME InterfaceAssumption
  PROVE  Spec => []IInv
<1>1. Init => IInv
  BY InitIInv
<1>2. IInv /\ [Next]_vars => IInv'
  BY NextIInv
<1> QED
  BY <1>1, <1>2, PTL DEF Spec

\* Fields, blocks and frames have their types, and a free block holds nothing.
THEOREM TypesHold ==
  ASSUME InterfaceAssumption
  PROVE  Spec => []TypeOK
<1>1. IInv => TypeOK
  BY DEF IInv
<1> QED
  BY <1>1, Inductive, PTL

\* A table that create_native_interface has published is finished, and as long
\* as its Interface is reachable its types lead to allocated tables of the right
\* interfaces.
THEOREM ReadableTablesAreWhole ==
  ASSUME InterfaceAssumption
  PROVE  Spec => []ReadableIsWhole
<1>1. ASSUME IInv PROVE ReadableIsWhole
  <2> SUFFICES ASSUME NEW h \in Reachable, pointer[h] # None
               PROVE  Describes(pointer[h], h)
    BY DEF ReadableIsWhole
  <2> USE <1>1
  <2>1. h \in Interfaces /\ Messages[h] \in Seq(Seq(Interfaces \cup {None}))
    BY ReachableFacts DEF InterfaceAssumption
  <2>2. PICK t : t = pointer[h]
    OBVIOUS
  <2>3. t \in Tables /\ owner[t] = h /\ messages[t] \in Seq(Seq(Tables \cup {None}))
    BY <2>1, <2>2 DEF IInv, OwnBlocks, TypeOK
  <2>4. Len(messages[t]) = Len(Messages[h]) /\ Filled(t, h)
    BY <2>2, <2>3 DEF IInv, Contents
  <2>5. ASSUME NEW m \in 1 .. Len(Messages[h])
        PROVE  /\ Len(messages[t][m]) = Len(Messages[h][m])
               /\ \A k \in 1 .. Len(Messages[h][m]) :
                    Right(messages[t][m][k], Messages[h][m][k])
    <3>1. m \in DOMAIN messages[t]
      BY <2>3, <2>4
    <3>2. messages[t][m] \in Seq(Tables \cup {None})
      BY <2>3, <3>1
    <3>3. Len(messages[t][m]) = Len(Messages[h][m])
      BY <2>4, <3>1 DEF Filled
    <3>4. DOMAIN messages[t][m] = 1 .. Len(Messages[h][m])
      BY <3>2, <3>3
    <3> QED
      BY <2>4, <3>1, <3>3, <3>4 DEF Filled
  <2>6. \A m \in 1 .. Len(Messages[h]) : \A k \in 1 .. Len(Messages[h][m]) :
          IF Messages[h][m][k] = None THEN messages[t][m][k] = None
          ELSE messages[t][m][k] \in Tables /\ owner[messages[t][m][k]] = Messages[h][m][k]
    BY <2>5 DEF Right
  <2> QED
    BY <2>2, <2>3, <2>4, <2>5, <2>6 DEF Describes
<1> QED
  BY <1>1, Inductive, PTL

\* Only a race can leave a table nobody will free; no failure does, however deep
\* it is, and none but one of get_java_method leaves the copy of a message.
THEOREM OnlyRacesLeaveTables ==
  ASSUME InterfaceAssumption
  PROVE  Spec => []OnlyRacesLose
<1>1. ASSUME IInv PROVE OnlyRacesLose
  <2>1. ASSUME NEW t \in Tables, Lost(t)
        PROVE  /\ "race" \in Moves
               /\ pointer[owner[t]] # t
               /\ pointer[owner[t]] # None \/ owner[t] \in finalized
    <3>1. /\ owner[t] # None /\ t \in Tables \ Building /\ t # None
          /\ pointer[owner[t]] # t \/ owner[t] \in finalized
      BY <2>1 DEF Lost, InterfaceAssumption
    <3>2. pointer[owner[t]] # t
      BY <1>1, <3>1 DEF IInv, Buried
    <3> QED
      BY <1>1, <3>1, <3>2 DEF IInv, Found
  <2> QED
    BY <1>1, <2>1 DEF OnlyRacesLose, IInv, Explained
<1> QED
  BY <1>1, Inductive, PTL

\* A struct wl_interface that libwayland was given stays allocated and as it is
\* while its Interface is reachable, whatever fails, races or is finalized.
THEOREM TablesAreLeftAlone ==
  ASSUME InterfaceAssumption
  PROVE  Spec => TablesStay
<1>1. ASSUME IInv, [Next]_vars
      PROVE  \A t \in Tables \ Building :
               owner[t] \in Reachable =>
                 t \notin Building' /\ owner'[t] = owner[t] /\ messages'[t] = messages[t]
  BY <1>1, NextIInv DEF Steady
<1> QED
  BY <1>1, Inductive, PTL DEF Spec, TablesStay
=============================================================================
