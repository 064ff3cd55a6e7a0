-------------------------- MODULE ClientProxyProofs --------------------------
(***************************************************************************)
(* Proofs about the client's side.  ClientProxy: IInv is inductive for any *)
(* number of proxies and events and any depth of dispatch calls, and the   *)
(* proxies keep the promise of PinnedPeer.  PinnedPeer: the promise keeps  *)
(* natives and peers together, whoever makes it.  ShmPool, whose pools a   *)
(* client hands to the server: PoolIInv is inductive for any of them.      *)
(***************************************************************************)
EXTENDS ClientProxy, ShmPool, SequenceTheorems, WellFoundedInduction, TLAPS

-----------------------------------------------------------------------------
(* The inductive invariant. *)

\* proxy_ptr and the user data change together with the wl_proxy, so the field is
\* a test for life; what is collected was neither.
FieldTellsLife ==
  \A p \in Proxies :
    /\ p \in field <=> native[p] = "live"
    /\ p \in userData <=> native[p] = "live"
    /\ p \in collected => native[p] = "destroyed" /\ p \notin held

\* The safety properties and what makes them inductive.
IInv ==
  /\ TypeOK
  /\ FieldTellsLife
  /\ NothingFreedWhileConnected
  /\ NoJavaWhilePending
  /\ ExceptionsReachTheCaller

-----------------------------------------------------------------------------
(* Proofs. *)

USE DEF peerVars, loopVars

\* A running dispatch call that Java has not left is not between two events.
LEMMA JavaIsNotBetween == JavaRuns => ~BetweenEvents
BY DEF JavaRuns, BetweenEvents, InListener

\* The event the dispatcher passes on is an event the dispatcher knows, unless
\* the object it must carry is missing.
LEMMA HandedIsEvent ==
  ASSUME TypeOK, Handing, ~ArgumentMissing
  PROVE  Handed \in Event
<1>1. Head(queue) \in Event
  BY DEF TypeOK, Handing
<1>2. CASE Head(queue).kind = "object"
  BY <1>1, <1>2 DEF Event, Handed, ArgumentMissing
<1>3. CASE Head(queue).kind = "nullable"
  BY <1>1, <1>3 DEF Event, Handed
<1>4. CASE Head(queue).kind \in {"plain", "newId"}
  BY <1>1, <1>4 DEF Event, Handed, Live
<1> QED
  BY <1>1, <1>2, <1>3, <1>4 DEF Event

\* What Handed names lives.
LEMMA HandedLives ==
  ASSUME TypeOK, Handing
  PROVE  /\ Handed.target \in Proxies /\ native[Handed.target] = "live"
         /\ Handed.arg # None => /\ Handed.arg \in Proxies
                                 /\ native[Handed.arg] = "live"
<1>1. Head(queue) \in Event
  BY DEF TypeOK, Handing
<1> QED
  BY <1>1 DEF Event, Handed, Handing, Live

\* Nothing lives and nothing is pending when the connection is made.
LEMMA InitIInv == Init => IInv
<1> SUFFICES ASSUME Init PROVE IInv
  OBVIOUS
<1>1. queue \in Seq(Event) /\ stack \in Seq(Event \cup {NoEvent})
  BY EmptySeq DEF Init
<1>2. /\ native \in [Proxies -> {"unborn", "live", "destroyed"}]
      /\ field = {} /\ userData = {} /\ listener = {} /\ held = {}
      /\ collected = {} /\ connected = TRUE /\ pending = FALSE
      /\ fault = "none"
  BY DEF Init
<1>3. arrived \in 0..MaxEvents /\ raised \in 0..MaxRaised /\ reported \in 0..MaxRaised
  BY ProxyAssumption DEF Init
<1>4. TypeOK
  BY <1>1, <1>2, <1>3 DEF TypeOK
<1> QED
  BY <1>4 DEF Init, IInv, FieldTellsLife, NothingFreedWhileConnected,
              NoJavaWhilePending, ExceptionsReachTheCaller

-----------------------------------------------------------------------------

\* Java code creates, uses and drops proxies.
LEMMA JavaStep == ASSUME IInv, Java PROVE IInv'
<1> USE ProxyAssumption, JavaIsNotBetween
    DEF IInv, TypeOK, FieldTellsLife, NothingFreedWhileConnected,
        NoJavaWhilePending, ExceptionsReachTheCaller
<1>1. ASSUME NEW p \in Proxies, Create(p) PROVE IInv'
  BY <1>1 DEF Create, BetweenEvents
<1>2. ASSUME NEW p \in Proxies, CreateWithoutNative(p) PROVE IInv'
  BY <1>2 DEF CreateWithoutNative, Fault
<1>3. ASSUME NEW p \in Proxies, CreateWithoutRef(p) PROVE IInv'
  BY <1>3 DEF CreateWithoutRef, BetweenEvents
<1>4. ASSUME NEW p \in Proxies, AddListener(p) PROVE IInv'
  BY <1>4 DEF AddListener, BetweenEvents
<1>5. ASSUME NEW p \in Proxies, Destroy(p) PROVE IInv'
  BY <1>5 DEF Destroy, BetweenEvents
<1>6. ASSUME NEW p \in Proxies, UseDead(p) PROVE IInv'
  BY <1>6 DEF UseDead, Fault, Live
<1>7. ASSUME NEW p \in Proxies, Drop(p) PROVE IInv'
  BY <1>7 DEF Drop, BetweenEvents
<1>8. CASE Dispatch
  <2>1. stack' \in Seq(Event \cup {NoEvent})
    BY <1>8, ConcatProperties DEF Dispatch
  <2>2. ~pending
    BY <1>8 DEF Dispatch, JavaRuns
  <2> QED
    BY <1>8, <2>1, <2>2 DEF Dispatch
<1>9. CASE Disconnect
  <2>1. queue' \in Seq(Event)
    BY <1>9, EmptySeq DEF Disconnect
  <2> QED
    BY <1>9, <2>1 DEF Disconnect, BetweenEvents
<1> QED
  BY <1>1, <1>2, <1>3, <1>4, <1>5, <1>6, <1>7, <1>8, <1>9 DEF Java

\* The loop hands events on, skips or loses them, and returns.
LEMMA LoopStep == ASSUME IInv, DispatchLoop PROVE IInv'
<1> USE ProxyAssumption
    DEF IInv, TypeOK, FieldTellsLife, NothingFreedWhileConnected,
        NoJavaWhilePending, ExceptionsReachTheCaller
<1>1. CASE SkipDestroyed
  BY <1>1, HeadTailProperties DEF SkipDestroyed, BetweenEvents
<1>2. CASE Call
  <2>1. Handed \in Event
    BY <1>2, HandedIsEvent DEF Call
  <2>2. stack' \in Seq(Event \cup {NoEvent})
    BY <1>2, <2>1, ExceptSeq DEF Call, Handing, BetweenEvents
  <2>3. /\ held' \subseteq Proxies
        /\ \A p \in collected : p \notin held'
    BY <1>2, HandedLives DEF Call
  <2>4. queue' \in Seq(Event)
    BY <1>2, HeadTailProperties DEF Call, Handing
  <2>5. ~pending'
    BY <1>2 DEF Call, MustNotCall
  <2> QED
    BY <1>2, <2>2, <2>3, <2>4, <2>5 DEF Call
<1>3. CASE CallCrashes
  BY <1>3 DEF CallCrashes, Fault
<1>4. CASE Lose
  <2>1. queue' \in Seq(Event)
    BY <1>4, HeadTailProperties DEF Lose, Handing
  <2>2. BetweenEvents'
    BY <1>4 DEF Lose, Handing, BetweenEvents
  <2>3. /\ pending' \in BOOLEAN /\ raised' \in 0..MaxRaised
        /\ ExceptionsReachTheCaller'
    <3>1. CASE pending /\ UNCHANGED << pending, raised >>
      BY <1>4, <3>1 DEF Lose
    <3>2. CASE ~pending /\ Raise
      BY <1>4, <3>2 DEF Lose, Raise
    <3> QED
      BY <1>4, <3>1, <3>2 DEF Lose, MustNotCall
  <2> QED
    BY <1>4, <2>1, <2>2, <2>3 DEF Lose
<1>5. CASE DispatchReturns
  <2>1. stack' \in Seq(Event \cup {NoEvent})
    BY <1>5, HeadTailProperties DEF DispatchReturns, BetweenEvents
  <2>2. reported' \in 0..MaxRaised /\ ExceptionsReachTheCaller'
    BY <1>5 DEF DispatchReturns
  <2> QED
    BY <1>5, <2>1, <2>2 DEF DispatchReturns
<1> QED
  BY <1>1, <1>2, <1>3, <1>4, <1>5 DEF DispatchLoop

\* A listener returns or throws.
LEMMA ListenerStep == ASSUME IInv, ListenerEnds PROVE IInv'
<1> USE ProxyAssumption
    DEF IInv, TypeOK, FieldTellsLife, NothingFreedWhileConnected,
        NoJavaWhilePending, ExceptionsReachTheCaller
<1>1. /\ stack' \in Seq(Event \cup {NoEvent})
      /\ stack' # << >> /\ Head(stack') = NoEvent
  <2>1. stack # << >> /\ stack' = [stack EXCEPT ![1] = NoEvent]
    BY DEF ListenerEnds, Return, Throw, InListener
  <2>2. stack' \in Seq(Event \cup {NoEvent}) /\ Len(stack') = Len(stack)
    BY <2>1, ExceptSeq
  <2> QED
    BY <2>1, <2>2
<1>2. CASE Return
  <2>1. ~pending
    BY <1>2 DEF Return, InListener, BetweenEvents
  <2> QED
    BY <1>1, <1>2, <2>1 DEF Return
<1>3. CASE Throw
  <2>1. raised' \in 0..MaxRaised /\ ExceptionsReachTheCaller'
    BY <1>3 DEF Throw, Raise
  <2> QED
    BY <1>1, <1>3, <2>1 DEF Throw, Raise, BetweenEvents
<1> QED
  BY <1>2, <1>3 DEF ListenerEnds

\* Every step keeps IInv.
LEMMA NextIInv == IInv /\ [Next]_vars => IInv'
<1> SUFFICES ASSUME IInv, [Next]_vars PROVE IInv'
  OBVIOUS
<1> USE DEF IInv, TypeOK, FieldTellsLife, NothingFreedWhileConnected,
            NoJavaWhilePending, ExceptionsReachTheCaller
<1>1. ASSUME NEW e \in Event, Arrive(e) PROVE IInv'
  <2>1. queue' \in Seq(Event)
    BY <1>1, AppendProperties DEF Arrive
  <2> QED
    BY <1>1, <2>1, ProxyAssumption DEF Arrive, BetweenEvents
<1>2. ASSUME NEW p \in Proxies, Collect(p) PROVE IInv'
  BY <1>2 DEF Collect, BetweenEvents
<1>3. CASE UNCHANGED vars
  BY <1>3 DEF vars, BetweenEvents
<1> QED
  BY <1>1, <1>2, <1>3, JavaStep, LoopStep, ListenerStep DEF Next

-----------------------------------------------------------------------------

\* Field, user data and wl_proxy agree in every reachable state.
THEOREM Inductive == Spec => []IInv
BY InitIInv, NextIInv, PTL DEF Spec

\* While the connection lasts, no freed wl_proxy is used.
THEOREM ConnectionKeepsMemory == Spec => []NothingFreedWhileConnected
<1>1. IInv => NothingFreedWhileConnected
  BY DEF IInv
<1> QED
  BY <1>1, Inductive, PTL

\* No listener runs while an exception is pending.
THEOREM PendingStopsJava == Spec => []NoJavaWhilePending
<1>1. IInv => NoJavaWhilePending
  BY DEF IInv
<1> QED
  BY <1>1, Inductive, PTL

\* No exception of a listener is lost.
THEOREM NoExceptionIsLost == Spec => []ExceptionsReachTheCaller
<1>1. IInv => ExceptionsReachTheCaller
  BY DEF IInv
<1> QED
  BY <1>1, Inductive, PTL

-----------------------------------------------------------------------------

\* At first no proxy exists, in either specification.
LEMMA InitRefines == Init => PinnedProxy!Init
BY DEF Init, PinnedProxy!Init

\* Each step begins, aborts, ends or reclaims one peer, or none.
LEMMA NextRefines ==
  IInv /\ [Next]_vars => [PinnedProxy!Next]_PinnedProxy!vars
<1> SUFFICES ASSUME IInv, [Next]_vars PROVE [PinnedProxy!Next]_PinnedProxy!vars
  OBVIOUS
<1> DEFINE life == [p \in Proxies |-> IF native[p] = "destroyed" THEN "ended" ELSE native[p]]
<1>1. CASE UNCHANGED << native, userData, collected >>
  BY <1>1 DEF PinnedProxy!vars
<1>2. ASSUME NEW p \in Proxies, Create(p) PROVE PinnedProxy!Next
  <2>1. PinnedProxy!Begin(p)
    BY <1>2 DEF Create, PinnedProxy!Begin, IInv, TypeOK
  <2> QED
    BY <2>1 DEF PinnedProxy!Next
<1>3. ASSUME NEW p \in Proxies, CreateWithoutRef(p) PROVE PinnedProxy!Next
  <2>1. PinnedProxy!Abort(p)
    BY <1>3 DEF CreateWithoutRef, PinnedProxy!Abort, IInv, TypeOK
  <2> QED
    BY <2>1 DEF PinnedProxy!Next
<1>4. ASSUME NEW p \in Proxies, Destroy(p) PROVE PinnedProxy!Next
  <2>1. {p} \subseteq PinnedProxy!Living
    BY <1>4 DEF Destroy, PinnedProxy!Living, IInv, FieldTellsLife
  <2>2. life' = [q \in Proxies |-> IF q \in {p} THEN "ended" ELSE life[q]]
    BY <1>4 DEF Destroy, IInv, TypeOK
  <2>3. PinnedProxy!End({p})
    BY <1>4, <2>1, <2>2 DEF Destroy, PinnedProxy!End
  <2> QED
    BY <2>3 DEF PinnedProxy!Next
<1>5. ASSUME NEW p \in Proxies, Collect(p) PROVE PinnedProxy!Next
  <2>1. PinnedProxy!Reclaim(p)
    BY <1>5 DEF Collect, PinnedProxy!Reclaim, IInv, TypeOK, FieldTellsLife
  <2> QED
    BY <2>1 DEF PinnedProxy!Next
<1>6. CASE Java
  BY <1>1, <1>2, <1>3, <1>4, <1>6
     DEF Java, CreateWithoutNative, AddListener, UseDead, Drop, Dispatch,
         Disconnect, Fault
<1>7. CASE DispatchLoop \/ ListenerEnds \/ \E e \in Event : Arrive(e)
  BY <1>1, <1>7
     DEF DispatchLoop, SkipDestroyed, Call, CallCrashes, Lose, DispatchReturns,
         ListenerEnds, Return, Throw, Arrive, Fault
<1>8. CASE UNCHANGED vars
  BY <1>1, <1>8 DEF vars
<1> QED
  BY <1>5, <1>6, <1>7, <1>8 DEF Next

\* The proxies of a connection keep the promise of PinnedPeer.
THEOREM ProxiesArePinned == Spec => ImplementsPinnedPeer
BY InitRefines, NextRefines, Inductive, PTL
   DEF Spec, ImplementsPinnedPeer, PinnedProxy!Spec

\* An event finds the Java object of its proxy, whatever happens on the way, and
\* that object is kept no longer than the wl_proxy.
THEOREM LivingProxiesAreThere ==
  Spec => [](PinnedProxy!LivingIsThere /\ PinnedProxy!PromptPinsNoLonger)
<1>1. IInv => PinnedProxy!LivingIsThere /\ PinnedProxy!PromptPinsNoLonger
  BY DEF IInv, TypeOK, FieldTellsLife, PinnedProxy!LivingIsThere,
         PinnedProxy!PromptPinsNoLonger, PinnedProxy!Living
<1> QED
  BY <1>1, Inductive, PTL

-----------------------------------------------------------------------------
(* The promise itself, of any peers: not only of proxies, and prompt or not. *)

CONSTANTS Peers, Prompt
VARIABLES life, pinned, reclaimed

Pinned == INSTANCE PinnedPeer

\* At first no native lives.
LEMMA InitPromise == Pinned!Init => Pinned!Promise
BY DEF Pinned!Init, Pinned!Promise, Pinned!LivingIsThere, Pinned!PromptPinsNoLonger,
   Pinned!Living

\* Each step keeps the promise.
LEMMA NextPromise == Pinned!Promise /\ [Pinned!Next]_Pinned!vars => Pinned!Promise'
<1> SUFFICES ASSUME Pinned!Promise, [Pinned!Next]_Pinned!vars PROVE Pinned!Promise'
  OBVIOUS
<1> USE DEF Pinned!Promise, Pinned!LivingIsThere, Pinned!PromptPinsNoLonger,
            Pinned!Living
<1>1. ASSUME NEW p \in Peers, Pinned!Begin(p) PROVE Pinned!Promise'
  BY <1>1 DEF Pinned!Begin
<1>2. ASSUME NEW p \in Peers, Pinned!Abort(p) PROVE Pinned!Promise'
  BY <1>2 DEF Pinned!Abort
<1>3. ASSUME NEW p \in Peers, Pinned!Reclaim(p) PROVE Pinned!Promise'
  BY <1>3 DEF Pinned!Reclaim
<1>4. ASSUME NEW gone \in SUBSET Peers, Pinned!End(gone) PROVE Pinned!Promise'
  <2>1. PICK released \in SUBSET gone : /\ Prompt => released = gone
                                        /\ pinned' = pinned \ released
    BY <1>4 DEF Pinned!End
  <2>2. life' = [p \in Peers |-> IF p \in gone THEN "ended" ELSE life[p]]
        /\ gone \subseteq Pinned!Living /\ reclaimed' = reclaimed
    BY <1>4 DEF Pinned!End
  <2>3. Pinned!Living' = Pinned!Living \ gone
    BY <2>2
  <2>4. Pinned!LivingIsThere' /\ \A p \in pinned' : life'[p] # "unborn"
    BY <2>1, <2>2
  <2>5. Pinned!PromptPinsNoLonger'
    <3> SUFFICES ASSUME Prompt PROVE pinned' = Pinned!Living'
      OBVIOUS
    <3>1. released = gone /\ pinned = Pinned!Living
      BY <2>1
    <3> QED
      BY <3>1, <2>1, <2>3
  <2>6. /\ life' \in [Peers -> {"unborn", "live", "ended"}]
        /\ pinned' \subseteq Peers
        /\ reclaimed' \subseteq Peers
        /\ \A p \in reclaimed' : life'[p] = "ended"
    BY <2>1, <2>2
  <2> QED
    BY <2>4, <2>5, <2>6
<1>5. CASE UNCHANGED Pinned!vars
  BY <1>5 DEF Pinned!vars
<1> QED
  BY <1>1, <1>2, <1>3, <1>4, <1>5 DEF Pinned!Next

\* A native that calls into Java finds its Java object, and where references
\* go with their natives nothing is kept longer.
THEOREM PromiseIsKept ==
  Pinned!Spec => [](Pinned!LivingIsThere /\ Pinned!PromptPinsNoLonger)
<1>1. Pinned!Promise => Pinned!LivingIsThere /\ Pinned!PromptPinsNoLonger
  BY DEF Pinned!Promise
<1> QED
  BY <1>1, InitPromise, NextPromise, PTL DEF Pinned!Spec

-----------------------------------------------------------------------------
(* The memory a client shares with the server, ShmPool: any number of pools, *)
(* files, addresses and descriptors, whatever the kernel returns.            *)

\* Until one is closed behind its back, the descriptor of an open pool is one of
\* the file the pool was made for.
DescriptorsKept ==
  made = {} =>
    \A p \in Pools : buffer[p] # Nil =>
      /\ fd[p] \in Fds
      /\ table[fd[p]] = of[p]
      /\ of[p] \in Files

\* The safety properties and what makes them inductive.
PoolIInv ==
  /\ PoolTypeOK
  /\ NoRegionLeaks
  /\ ReadsItsFile
  /\ DescriptorsKept

USE PoolAssumption DEF PoolAssumption, kernel

\* The lowest free descriptor is one.
LEMMA NextFdIsFree ==
  ASSUME FreeFds # {}
  PROVE  NextFd \in FreeFds
<1>1. FreeFds \in SUBSET Nat
  BY DEF FreeFds, Fds
<1> DEFINE Less == {pair \in Nat \X Nat : pair[1] < pair[2]}
<1>2. IsWellFoundedOn(Less, Nat)
  BY NatLessThanWellFounded DEF OpToRel
<1>3. \E n \in FreeFds : \A m \in FreeFds : ~(<< m, n >> \in Less)
  <2> HIDE DEF Less
  <2> QED
    BY <1>1, <1>2, WFMin
<1>4. \E n \in FreeFds : \A m \in FreeFds : n <= m
  <2>1. PICK n \in FreeFds : \A m \in FreeFds : ~(<< m, n >> \in Less)
    BY <1>3
  <2>2. ASSUME NEW m \in FreeFds PROVE n <= m
    <3>1. m \in Nat /\ n \in Nat /\ ~(<< m, n >> \in Less)
      BY <1>1, <2>1
    <3>2. << m, n >> \in Nat \X Nat => (m < n => << m, n >> \in Less)
      OBVIOUS
    <3> QED
      BY <3>1, <3>2
  <2> QED
    BY <2>2
<1> QED
  BY <1>4 DEF NextFd, Min

\* Nothing is mapped at first.
LEMMA PoolsInit == PoolInit => PoolIInv
BY DEF PoolInit, PoolIInv, PoolTypeOK, NoRegionLeaks,
       ReadsItsFile, DescriptorsKept

-----------------------------------------------------------------------------

\* What mapping a new region for a new pool does.
LEMMA BornMapped ==
  ASSUME PoolIInv, NEW p \in Pools, NEW f \in Files,
         NEW d \in Fds, NEW a \in Addrs,
         heap[p] = "unborn", maps[a] = Nil,
         maps' = [maps EXCEPT ![a] = [pool |-> p, file |-> f]],
         buffer' = [buffer EXCEPT ![p] = a],
         fd' = [fd EXCEPT ![p] = d],
         of' = [of EXCEPT ![p] = f],
         heap' = [heap EXCEPT ![p] = "alive"],
         heldPools' = heldPools \cup {p},
         table' \in [Fds -> Files \cup {Nil}], table'[d] = f,
         \A e \in Fds : table[e] # Nil => table'[e] = table[e],
         mine' \in [Pools -> SUBSET Fds],
         used' \in SUBSET Files, made' = made
  PROVE  PoolIInv'
<1>1. PoolTypeOK'
  <2>1. [pool |-> p, file |-> f] \in [pool : Pools \cup {Nil}, file : Files]
    OBVIOUS
  <2>2. maps' \in [Addrs -> [pool : Pools \cup {Nil}, file : Files] \cup {Nil}]
    BY <2>1 DEF PoolIInv, PoolTypeOK
  <2>3. /\ buffer' \in [Pools -> Addrs \cup {Nil}]
        /\ heap' \in [Pools -> {"unborn", "alive", "finalized"}]
        /\ fd' \in [Pools -> Fds \cup {Nil}]
        /\ of' \in [Pools -> Files \cup {Nil}]
    BY DEF PoolIInv, PoolTypeOK
  <2> QED
    BY <2>2, <2>3 DEF PoolIInv, PoolTypeOK
<1>2. buffer[p] = Nil
  BY DEF PoolIInv, PoolTypeOK
<1>3. NoRegionLeaks'
  BY <1>2 DEF PoolIInv, PoolTypeOK, NoRegionLeaks
<1>4. ASSUME made = {}, NEW q \in Pools, buffer'[q] # Nil
      PROVE  /\ maps'[buffer'[q]] = [pool |-> q, file |-> of'[q]]
             /\ fd'[q] \in Fds /\ table'[fd'[q]] = of'[q]
             /\ of'[q] \in Files
  <2>1. CASE q = p
    BY <2>1 DEF PoolIInv, PoolTypeOK
  <2>2. CASE q # p
    <3>1. /\ buffer[q] # Nil /\ buffer'[q] = buffer[q]
          /\ of'[q] = of[q] /\ fd'[q] = fd[q]
      BY <1>4, <2>2 DEF PoolIInv, PoolTypeOK
    <3>2. /\ maps[buffer[q]] = [pool |-> q, file |-> of[q]]
          /\ fd[q] \in Fds /\ table[fd[q]] = of[q] /\ of[q] \in Files
      BY <1>4, <3>1 DEF PoolIInv, ReadsItsFile, DescriptorsKept
    <3>3. buffer[q] \in Addrs /\ buffer[q] # a
      BY <3>1, <3>2 DEF PoolIInv, PoolTypeOK
    <3> QED
      BY <3>1, <3>2, <3>3 DEF PoolIInv, PoolTypeOK
  <2> QED
    BY <2>1, <2>2
<1> QED
  BY <1>1, <1>3, <1>4 DEF PoolIInv, ReadsItsFile, DescriptorsKept

\* new ShmPool(size)
LEMMA CreateStep ==
  ASSUME PoolIInv, NEW p \in Pools, NEW f \in Files,
         NewPool(p, f)
  PROVE  PoolIInv'
<1>1. NextFd \in Fds /\ table[NextFd] = Nil
  BY NextFdIsFree DEF NewPool, FreeFds
<1>2. /\ table' = [table EXCEPT ![NextFd] = f]
      /\ mine' = [mine EXCEPT ![p] = {NextFd}]
      /\ used' = used \cup {f} /\ made' = made
  BY DEF NewPool
<1>3. /\ table' \in [Fds -> Files \cup {Nil}] /\ table'[NextFd] = f
      /\ \A e \in Fds : table[e] # Nil => table'[e] = table[e]
      /\ mine' \in [Pools -> SUBSET Fds]
      /\ used' \in SUBSET Files
  BY <1>1, <1>2 DEF PoolIInv, PoolTypeOK
<1>4. PICK a \in Free(maps) :
        /\ maps' = [maps EXCEPT ![a] = [pool |-> p, file |-> f]]
        /\ buffer' = [buffer EXCEPT ![p] = a]
  BY DEF NewPool
<1>5. a \in Addrs /\ maps[a] = Nil
  BY DEF Free
<1> QED
  BY <1>1, <1>2, <1>3, <1>4, <1>5, BornMapped DEF NewPool, Born

\* ShmPool.fromFileDescriptor
LEMMA FromFileDescriptorStep ==
  ASSUME PoolIInv, NEW p \in Pools, NEW d \in Fds,
         NEW dupFD \in BOOLEAN,
         FromFileDescriptor(p, d, dupFD)
  PROVE  PoolIInv'
<1>1. table[d] \in Files
  BY DEF PoolIInv, PoolTypeOK, FromFileDescriptor
<1>2. /\ table' \in [Fds -> Files \cup {Nil}] /\ table'[d] = table[d]
      /\ \A e \in Fds : table[e] # Nil => table'[e] = table[e]
      /\ mine' \in [Pools -> SUBSET Fds]
  <2>1. CASE dupFD
    <3>1. NextFd \in Fds /\ table[NextFd] = Nil
      BY <2>1, NextFdIsFree DEF FromFileDescriptor, FreeFds
    <3>2. /\ table' = [table EXCEPT ![NextFd] = table[d]]
          /\ mine' = [mine EXCEPT ![p] = {NextFd}]
      BY <2>1 DEF FromFileDescriptor
    <3> QED
      BY <1>1, <3>1, <3>2 DEF PoolIInv, PoolTypeOK
  <2>2. CASE ~dupFD
    BY <2>2 DEF FromFileDescriptor, PoolIInv, PoolTypeOK
  <2> QED
    BY <2>1, <2>2
<1>3. PICK a \in Free(maps) :
        /\ maps' = [maps EXCEPT ![a] = [pool |-> p, file |-> table[d]]]
        /\ buffer' = [buffer EXCEPT ![p] = a]
  BY DEF FromFileDescriptor
<1>4. a \in Addrs /\ maps[a] = Nil
  BY DEF Free
<1>5. used' \in SUBSET Files
  BY DEF FromFileDescriptor, PoolIInv, PoolTypeOK
<1> QED
  BY <1>1, <1>2, <1>3, <1>4, <1>5, BornMapped DEF FromFileDescriptor,
                                                  Born

\* A region without a buffer disturbs no pool.
LEMMA RegionLost ==
  ASSUME PoolIInv, NEW f \in Files, NEW regions, LosesRegion(regions, f),
         regions = maps \/ made' # {},
         regions \in [Addrs -> [pool : Pools \cup {Nil}, file : Files] \cup {Nil}],
         \A b \in Addrs : regions[b] # Nil => regions[b] = maps[b],
         made' = {} => made = {}, UNCHANGED << buffer, of >>
  PROVE  /\ maps' \in [Addrs -> [pool : Pools \cup {Nil}, file : Files] \cup {Nil}]
         /\ NoRegionLeaks' /\ ReadsItsFile'
<1>1. PICK a \in Free(regions) : maps' = [regions EXCEPT ![a] = [pool |-> Nil, file |-> f]]
  BY DEF LosesRegion
<1>2. /\ a \in Addrs
      /\ regions \in [Addrs -> [pool : Pools \cup {Nil}, file : Files] \cup {Nil}]
      /\ \A b \in Addrs : regions[b] # Nil => regions[b] = maps[b]
  BY <1>1 DEF Free
<1>3. maps' \in [Addrs -> [pool : Pools \cup {Nil}, file : Files] \cup {Nil}]
  BY <1>1, <1>2
<1>4. \A b \in Addrs :
        maps'[b] # Nil /\ maps'[b].pool # Nil => maps'[b] = maps[b] /\ maps[b] # Nil
  BY <1>1, <1>2
<1>5. NoRegionLeaks'
  BY <1>4 DEF PoolIInv, NoRegionLeaks
<1>6. ReadsItsFile'
  <2> SUFFICES ASSUME made' = {}, NEW q \in Pools, buffer[q] # Nil
               PROVE  maps'[buffer[q]] = [pool |-> q, file |-> of[q]]
    BY DEF ReadsItsFile
  <2>0. buffer[q] \in Addrs
    BY DEF PoolIInv, PoolTypeOK
  <2>1. regions = maps
    OBVIOUS
  <2>2. maps[buffer[q]] = [pool |-> q, file |-> of[q]] /\ maps[buffer[q]] # Nil
    <3>1. maps[buffer[q]] = [pool |-> q, file |-> of[q]]
      BY <2>0 DEF PoolIInv, ReadsItsFile
    <3>2. of[q] \in Files
      BY DEF PoolIInv, DescriptorsKept
    <3>3. [pool |-> q, file |-> of[q]] \in [pool : Pools \cup {Nil}, file : Files]
      BY <3>2
    <3> QED
      BY <3>1, <3>3
  <2>3. buffer[q] # a
    BY <1>1, <2>1, <2>2 DEF Free
  <2> QED
    BY <1>1, <1>2, <2>0, <2>1, <2>2, <2>3
<1> QED
  BY <1>3, <1>5, <1>6

\* A constructor that fails leaves a pool without a region, and perhaps a region
\* without a pool.
LEMMA FailsStep ==
  ASSUME PoolIInv, NEW p \in Pools, NEW d \in Fds,
         heap[p] = "unborn", heap' = [heap EXCEPT ![p] = "alive"],
         fd' = [fd EXCEPT ![p] = d],
         table' \in [Fds -> Files \cup {Nil}],
         \A e \in Fds : table[e] # Nil => table'[e] = table[e],
         mine' \in [Pools -> SUBSET Fds], used' \in SUBSET Files,
         UNCHANGED maps \/ \E f \in Files : LosesRegion(maps, f),
         UNCHANGED << heldPools, buffer, of, made >>
  PROVE  PoolIInv'
<1>1. /\ maps' \in [Addrs -> [pool : Pools \cup {Nil}, file : Files] \cup {Nil}]
      /\ NoRegionLeaks' /\ ReadsItsFile'
  <2>1. CASE UNCHANGED maps
    BY <2>1 DEF PoolIInv, PoolTypeOK, NoRegionLeaks, ReadsItsFile
  <2>2. CASE \E f \in Files : LosesRegion(maps, f)
    BY <2>2, RegionLost DEF PoolIInv, PoolTypeOK
  <2> QED
    BY <2>1, <2>2
<1>2. PoolTypeOK'
  BY <1>1 DEF PoolIInv, PoolTypeOK
<1>3. DescriptorsKept'
  BY DEF PoolIInv, PoolTypeOK, DescriptorsKept
<1> QED
  BY <1>1, <1>2, <1>3 DEF PoolIInv

-----------------------------------------------------------------------------

\* ShmPool.resize moves the region of the pool and no other.
LEMMA ResizeStep ==
  ASSUME PoolIInv, NEW p \in Pools, Resize(p)
  PROVE  PoolIInv'
<1>1. PICK a \in Free(Unmapped(buffer[p])) :
        /\ maps' = [Unmapped(buffer[p]) EXCEPT ![a] = [pool |-> p, file |-> table[fd[p]]]]
        /\ buffer' = [buffer EXCEPT ![p] = a]
  BY DEF Resize
<1>2. /\ a \in Addrs /\ buffer[p] \in Addrs /\ table[fd[p]] \in Files
      /\ heap[p] = "alive"
  BY DEF Free, Resize, PoolIInv, PoolTypeOK
<1>3. /\ maps'[a] = [pool |-> p, file |-> table[fd[p]]]
      /\ \A b \in Addrs : b # a =>
           maps'[b] = IF b = buffer[p] THEN Nil ELSE maps[b]
      /\ maps' \in [Addrs -> [pool : Pools \cup {Nil}, file : Files] \cup {Nil}]
  BY <1>1, <1>2 DEF Unmapped, PoolIInv, PoolTypeOK
<1>4. a = buffer[p] \/ maps[a] = Nil
  BY <1>2 DEF Free, Unmapped, PoolIInv, PoolTypeOK
<1>5. UNCHANGED << table, used, heap, heldPools, fd, of, mine, made >>
  BY DEF Resize
<1>6. PoolTypeOK'
  BY <1>1, <1>2, <1>3, <1>5 DEF PoolIInv, PoolTypeOK
<1>7. NoRegionLeaks'
  <2> SUFFICES ASSUME NEW b \in Addrs, maps'[b] # Nil, maps'[b].pool # Nil
               PROVE  buffer'[maps'[b].pool] = b
    BY DEF NoRegionLeaks
  <2>1. CASE b = a
    BY <2>1, <1>1, <1>3 DEF PoolIInv, PoolTypeOK
  <2>2. CASE b # a
    <3>1. maps'[b] = maps[b] /\ b # buffer[p] /\ maps[b].pool \in Pools
      BY <2>2, <1>3 DEF PoolIInv, PoolTypeOK
    <3>2. buffer[maps[b].pool] = b
      BY <3>1 DEF PoolIInv, NoRegionLeaks
    <3> QED
      BY <3>1, <3>2, <1>1 DEF PoolIInv, PoolTypeOK
  <2> QED
    BY <2>1, <2>2
<1>8. ReadsItsFile' /\ DescriptorsKept'
  <2> SUFFICES ASSUME made = {}, NEW q \in Pools, buffer'[q] # Nil
               PROVE  /\ maps'[buffer'[q]] = [pool |-> q, file |-> of[q]]
                      /\ fd[q] \in Fds /\ table[fd[q]] = of[q]
                      /\ of[q] \in Files
    BY <1>5 DEF ReadsItsFile, DescriptorsKept
  <2>1. CASE q = p
    BY <2>1, <1>1, <1>2, <1>3 DEF PoolIInv, PoolTypeOK, DescriptorsKept,
                                  Resize
  <2>2. CASE q # p
    <3>1. buffer[q] # Nil /\ buffer'[q] = buffer[q] /\ buffer[q] \in Addrs
      BY <2>2, <1>1 DEF PoolIInv, PoolTypeOK
    <3>2. maps[buffer[q]] = [pool |-> q, file |-> of[q]]
      BY <3>1 DEF PoolIInv, ReadsItsFile
    <3>3. maps[buffer[p]] = [pool |-> p, file |-> of[p]]
      BY <1>2 DEF PoolIInv, ReadsItsFile
    <3>4. buffer[q] # buffer[p]
      BY <2>2, <3>2, <3>3
    <3>5. buffer[q] # a
      BY <3>1, <3>2, <3>4, <1>4 DEF PoolIInv, DescriptorsKept
    <3> QED
      BY <3>1, <3>2, <3>4, <3>5, <1>3 DEF PoolIInv, DescriptorsKept
  <2> QED
    BY <2>1, <2>2
<1> QED
  BY <1>6, <1>7, <1>8 DEF PoolIInv

\* A failed resize only unmaps; it never fails for an open pool whose descriptor
\* is kept and whose system calls succeed.
LEMMA ResizeFailsStep ==
  ASSUME PoolIInv, NEW p \in Pools, ResizeFails(p)
  PROVE  PoolIInv'
<1>1. buffer[p] \in Addrs
  BY DEF PoolIInv, PoolTypeOK, ResizeFails
<1>2. maps' = [maps EXCEPT ![buffer[p]] = Nil]
  BY DEF ResizeFails, Unmapped
<1>3. made' # {}
  <2>1. CASE made = {} /\ table[fd[p]] = Nil
    BY <2>1 DEF PoolIInv, DescriptorsKept, ResizeFails
  <2>2. CASE made # {} \/ table[fd[p]] # Nil
    BY <2>2 DEF ResizeFails
  <2> QED
    BY <2>1, <2>2
<1>4. made' \subseteq {"resizeFails", "closeOriginal"}
  BY DEF ResizeFails, PoolIInv, PoolTypeOK
<1>5. PoolTypeOK'
  BY <1>1, <1>2, <1>4 DEF PoolIInv, PoolTypeOK, ResizeFails
<1>6. NoRegionLeaks'
  BY <1>1, <1>2 DEF PoolIInv, PoolTypeOK, NoRegionLeaks, ResizeFails
<1> QED
  BY <1>3, <1>5, <1>6 DEF PoolIInv, ReadsItsFile, DescriptorsKept

\* A resize that loses the region it mapped unmaps the old one and no other.
LEMMA ResizeLosesRegionStep ==
  ASSUME PoolIInv, NEW p \in Pools, ResizeLosesRegion(p)
  PROVE  PoolIInv'
<1>1. /\ buffer[p] # Nil /\ table[fd[p]] \in Files
      /\ LosesRegion(Unmapped(buffer[p]), table[fd[p]])
      /\ made' = made \cup {"resizeFails"}
      /\ UNCHANGED << table, used, heap, heldPools, fd, buffer, of, mine >>
  BY DEF ResizeLosesRegion, PoolIInv, PoolTypeOK
<1>2. made' # {}
  BY <1>1
<1>3. /\ Unmapped(buffer[p])
           \in [Addrs -> [pool : Pools \cup {Nil}, file : Files] \cup {Nil}]
      /\ \A b \in Addrs :
           Unmapped(buffer[p])[b] # Nil => Unmapped(buffer[p])[b] = maps[b]
  BY DEF Unmapped, PoolIInv, PoolTypeOK
<1>4. /\ maps' \in [Addrs -> [pool : Pools \cup {Nil}, file : Files] \cup {Nil}]
      /\ NoRegionLeaks' /\ ReadsItsFile'
  BY <1>1, <1>2, <1>3, RegionLost
<1>5. PoolTypeOK'
  BY <1>1, <1>4 DEF PoolIInv, PoolTypeOK
<1> QED
  BY <1>2, <1>4, <1>5 DEF PoolIInv, DescriptorsKept

\* close, and the finalizer, unmap the region of the pool and no other.
LEMMA ClosingStep ==
  ASSUME PoolIInv, NEW p \in Pools, Closing(p),
         UNCHANGED << of, mine, made >>,
         heldPools' \in SUBSET Pools, heap' \in [Pools -> {"unborn", "alive",
         "finalized"}],
         \A q \in Pools : q # p => heap'[q] = heap[q]
  PROVE  PoolIInv'
<1>1. CASE buffer[p] = Nil
  <2>1. UNCHANGED << table, maps, used, fd, buffer >>
    BY <1>1 DEF Closing
  <2>2. PoolTypeOK'
    BY <1>1, <2>1 DEF PoolIInv, PoolTypeOK
  <2> QED
    BY <2>1, <2>2 DEF PoolIInv, NoRegionLeaks, ReadsItsFile,
                      DescriptorsKept
<1>2. CASE buffer[p] # Nil
  <2>1. /\ maps' = [maps EXCEPT ![buffer[p]] = Nil]
        /\ fd' = [fd EXCEPT ![p] = Nil]
        /\ buffer' = [buffer EXCEPT ![p] = Nil]
        /\ UNCHANGED << table, used >>
    BY <1>2 DEF Closing, Unmapped
  <2>2. buffer[p] \in Addrs
    BY <1>2 DEF PoolIInv, PoolTypeOK
  <2>3. PoolTypeOK'
    BY <2>1, <2>2 DEF PoolIInv, PoolTypeOK
  <2>4. NoRegionLeaks'
    <3> SUFFICES ASSUME NEW b \in Addrs, maps'[b] # Nil, maps'[b].pool # Nil
                 PROVE  buffer'[maps'[b].pool] = b
      BY DEF NoRegionLeaks
    <3>1. maps'[b] = maps[b] /\ b # buffer[p] /\ maps[b].pool \in Pools
      BY <2>1, <2>2 DEF PoolIInv, PoolTypeOK
    <3>2. buffer[maps[b].pool] = b
      BY <3>1 DEF PoolIInv, NoRegionLeaks
    <3> QED
      BY <3>1, <3>2, <2>1 DEF PoolIInv, PoolTypeOK
  <2>5. ReadsItsFile' /\ DescriptorsKept'
    <3> SUFFICES ASSUME made = {}, NEW q \in Pools, buffer'[q] # Nil
                 PROVE  /\ maps'[buffer'[q]] = [pool |-> q, file |-> of[q]]
                        /\ fd'[q] \in Fds /\ table[fd'[q]] = of[q]
                        /\ of[q] \in Files
      BY <2>1 DEF ReadsItsFile, DescriptorsKept
    <3>1. /\ q # p /\ buffer'[q] = buffer[q] /\ buffer[q] \in Addrs
          /\ fd'[q] = fd[q]
      BY <2>1 DEF PoolIInv, PoolTypeOK
    <3>2. /\ maps[buffer[q]] = [pool |-> q, file |-> of[q]]
          /\ maps[buffer[p]] = [pool |-> p, file |-> of[p]]
      BY <3>1, <1>2 DEF PoolIInv, ReadsItsFile
    <3>3. buffer[q] # buffer[p]
      BY <3>1, <3>2
    <3> QED
      BY <3>1, <3>2, <3>3, <2>1, <2>2 DEF PoolIInv, PoolTypeOK,
                                          DescriptorsKept
  <2> QED
    BY <2>3, <2>4, <2>5 DEF PoolIInv
<1> QED
  BY <1>1, <1>2

\* Every step keeps IInv.
LEMMA PoolsNext == PoolIInv /\ [PoolNext]_poolVars => PoolIInv'
<1> SUFFICES ASSUME PoolIInv, [PoolNext]_poolVars PROVE PoolIInv'
  OBVIOUS
<1>1. ASSUME NEW p \in Pools, NEW f \in Files,
             CreateFails(p, f) PROVE PoolIInv'
  <2>1. NextFd \in Fds
    BY <1>1, NextFdIsFree DEF CreateFails, FreeFds
  <2>2. used' \in SUBSET Files
    BY <1>1 DEF CreateFails, PoolIInv, PoolTypeOK
  <2> QED
    BY <1>1, <2>1, <2>2, FailsStep DEF CreateFails, Born, PoolIInv,
                                       PoolTypeOK
<1>2. ASSUME NEW p \in Pools, NEW f \in Files,
             CreateFailsUnchecked(p, f) PROVE PoolIInv'
  <2>1. NextFd \in Fds /\ table[NextFd] = Nil
    BY <1>2, NextFdIsFree DEF CreateFailsUnchecked, FreeFds
  <2>2. /\ used' \in SUBSET Files /\ mine' \in [Pools -> SUBSET Fds]
        /\ table' \in [Fds -> Files \cup {Nil}]
        /\ \A e \in Fds : table[e] # Nil => table'[e] = table[e]
    BY <1>2, <2>1 DEF CreateFailsUnchecked, PoolIInv, PoolTypeOK
  <2> QED
    BY <1>2, <2>1, <2>2, FailsStep DEF CreateFailsUnchecked, Born
<1>3. ASSUME NEW p \in Pools, NEW d \in Fds,
             FromFileDescriptorFails(p, d) PROVE PoolIInv'
  BY <1>3, FailsStep DEF FromFileDescriptorFails, Born, PoolIInv,
                         PoolTypeOK
<1>4. ASSUME NEW p \in Pools, Close(p) PROVE PoolIInv'
  BY <1>4, ClosingStep DEF Close, PoolIInv, PoolTypeOK
<1>5. ASSUME NEW p \in Pools, Finalize(p) PROVE PoolIInv'
  BY <1>5, ClosingStep DEF Finalize, PoolIInv, PoolTypeOK
<1>6. ASSUME NEW p \in Pools, DropPool(p) PROVE PoolIInv'
  BY <1>6 DEF DropPool, PoolIInv, PoolTypeOK, NoRegionLeaks,
              ReadsItsFile, DescriptorsKept
<1>7. ASSUME NEW p \in Pools, CloseOriginal(p) PROVE PoolIInv'
  BY <1>7 DEF CloseOriginal, PoolIInv, PoolTypeOK, NoRegionLeaks,
              ReadsItsFile, DescriptorsKept
<1>8. ASSUME NEW p \in Pools, NEW f \in Files,
             CreateLosesRegion(p, f) PROVE PoolIInv'
  <2>1. NextFd \in Fds /\ table[NextFd] = Nil
    BY <1>8, NextFdIsFree DEF CreateLosesRegion, FreeFds
  <2>2. /\ used' \in SUBSET Files /\ mine' \in [Pools -> SUBSET Fds]
        /\ table' \in [Fds -> Files \cup {Nil}]
        /\ \A e \in Fds : table[e] # Nil => table'[e] = table[e]
    BY <1>8, <2>1 DEF CreateLosesRegion, PoolIInv, PoolTypeOK
  <2> QED
    BY <1>8, <2>1, <2>2, FailsStep DEF CreateLosesRegion, Born
<1>9. ASSUME NEW p \in Pools, NEW d \in Fds, NEW dupFD \in BOOLEAN,
             FromFileDescriptorLosesRegion(p, d, dupFD) PROVE PoolIInv'
  <2>1. table[d] \in Files
    BY <1>9 DEF FromFileDescriptorLosesRegion, PoolIInv, PoolTypeOK
  <2>2. /\ mine' \in [Pools -> SUBSET Fds] /\ used' \in SUBSET Files
        /\ table' \in [Fds -> Files \cup {Nil}]
        /\ \A e \in Fds : table[e] # Nil => table'[e] = table[e]
    <3>1. CASE dupFD
      <4>1. NextFd \in Fds /\ table[NextFd] = Nil
        BY <1>9, <3>1, NextFdIsFree DEF FromFileDescriptorLosesRegion, FreeFds
      <4> QED
        BY <1>9, <2>1, <3>1, <4>1 DEF FromFileDescriptorLosesRegion, PoolIInv, PoolTypeOK
    <3>2. CASE ~dupFD
      BY <1>9, <3>2 DEF FromFileDescriptorLosesRegion, PoolIInv, PoolTypeOK
    <3> QED
      BY <3>1, <3>2
  <2> QED
    BY <1>9, <2>1, <2>2, FailsStep DEF FromFileDescriptorLosesRegion, Born
<1>10. CASE UNCHANGED poolVars
  BY <1>10 DEF poolVars, PoolIInv, PoolTypeOK, NoRegionLeaks,
              ReadsItsFile, DescriptorsKept
<1> QED
  BY <1>1, <1>2, <1>3, <1>4, <1>5, <1>6, <1>7, <1>8, <1>9, <1>10, CreateStep,
     FromFileDescriptorStep, ResizeStep, ResizeFailsStep, ResizeLosesRegionStep
  DEF PoolNext

-----------------------------------------------------------------------------

\* Regions, descriptors and pools agree in every reachable state.
THEOREM PoolsInductive == PoolSpec => []PoolIInv
BY PoolsInit, PoolsNext, PTL DEF PoolSpec

\* A pool that is closed, finalized or half constructed keeps no region whose
\* buffer it got.
THEOREM RegionsAreGivenBack == PoolSpec => []NoRegionLeaks
<1>1. PoolIInv => NoRegionLeaks
  BY DEF PoolIInv
<1> QED
  BY <1>1, PoolsInductive, PTL

\* An open pool shows its file.
THEOREM PoolsReadTheirFiles == PoolSpec => []ReadsItsFile
<1>1. PoolIInv => ReadsItsFile
  BY DEF PoolIInv
<1> QED
  BY <1>1, PoolsInductive, PTL
=============================================================================
