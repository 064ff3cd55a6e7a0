------------------------- MODULE ServerPeersProofs --------------------------
(***************************************************************************)
(* Proofs that IInv is inductive and implies the safety properties of      *)
(* ServerPeers, for every set of clients, event loops, addresses and peers *)
(* and for every choice of failing calls.                                  *)
(***************************************************************************)
EXTENDS ServerPeers, TLAPS

-----------------------------------------------------------------------------
(* The inductive invariant. *)

\* Live natives occupy distinct addresses.
AddressesDistinct ==
  /\ \A n \in Live : addr[n] \in Addrs
  /\ \A m, n \in Live : addr[m] = addr[n] => m = n

\* An object that was never constructed has left no trace.
UnbornIsBlank ==
  \A p \in Peers : heap[p] = "unborn" => /\ p \notin selfRef
                                         /\ data[p] = None
                                         /\ listening[p] = None

\* A listener is linked only into the list of a native that was allocated, and
\* of the kind its class stands for.
LinkedWasBorn ==
  \A p \in Peers : listening[p] # None => /\ native[listening[p]] # "unborn"
                                          /\ Wraps(p, listening[p])

\* The peer linked to a live native is the newest registration of the
\* native's pointer and has not been touched by the finalizer.
LinkedIsNewest ==
  \A n \in Live, p \in Peers :
    listening[p] = n => /\ data[p] = addr[n]
                        /\ pairs[addr[n]] # << >>
                        /\ Head(pairs[addr[n]]) = p
                        /\ heap[p] = "alive"
                        /\ "globalRef" \notin Failures => p \in selfRef

\* A wrapper holds its peer only while it is linked to a live native.
OwnedIsLinked == \A p \in selfRef : listening[p] \in Live

\* The inductive strengthening of the properties above: what the four say of
\* wrappers together with where addresses, registrations and links come from.
IInv ==
  /\ TypeOK
  /\ AddressesDistinct
  /\ UnbornIsBlank
  /\ LinkedWasBorn
  /\ LinkedIsNewest
  /\ OwnedIsLinked

USE WrapperAssumption, PeersAssumption

-----------------------------------------------------------------------------
(* The pieces of native_object_wrapper.c. *)

\* A lookup leaves a stack of peers behind it.
LEMMA StackAfterFindType ==
  ASSUME TypeOK, NEW a \in Addrs
  PROVE  StackAfterFind(a) \in Seq(Peers)
BY DEF TypeOK, StackAfterFind

\* A lookup that finds returns a peer.
LEMMA FindReferenceType ==
  ASSUME TypeOK, NEW a \in Addrs
  PROVE  FindReference(a) \in Peers \cup {None}
BY DEF TypeOK, FindReference

\* No peer is linked to a native whose lookup finds nothing: LookupCreates
\* cannot give a client its second peer.
LEMMA NotFoundIsUnlinked ==
  ASSUME IInv, NEW n \in Live, FindReference(addr[n]) = None
  PROVE  \A q \in Peers : listening[q] # n
BY DEF IInv, TypeOK, LinkedIsNewest, AddressesDistinct, FindReference, Cleared

\* The destroy signal of n preserves the invariant: n is live no longer and
\* the wrappers of other clients keep their registration.
LEMMA DieKeepsIInv ==
  ASSUME IInv, NEW n \in Live, Die(n),
         heap' \in [Peers -> {"unborn", "alive", "finalizing", "finalized",
                              "collected"}],
         \A p \in Peers : \/ heap'[p] = heap[p]
                          \/ /\ p \notin selfRef
                             /\ data[p] = addr[n]
                             /\ heap'[p] # "unborn",
         addr' = addr, held' = held, fault' = fault
  PROVE  IInv'
<1> USE DEF IInv
<1>1. Live' = Live \ {n}
  BY DEF Die, Live, TypeOK
<1>2. TypeOK'
  BY DEF TypeOK, Die, Live, DestroyedByOwner, Disowned
<1>3. AddressesDistinct'
  BY <1>1 DEF AddressesDistinct
<1>4. UnbornIsBlank'
  BY DEF UnbornIsBlank, Die, Disowned, DestroyedByOwner, TypeOK
<1>5. LinkedWasBorn'
  BY DEF LinkedWasBorn, Die, Disowned, TypeOK, Live
<1>6. LinkedIsNewest'
  BY <1>1 DEF LinkedIsNewest, AddressesDistinct, Die, Disowned, DestroyedByOwner,
              TypeOK, Live
<1>7. OwnedIsLinked'
  BY <1>1 DEF OwnedIsLinked, Die, Disowned, TypeOK, Live
<1> QED
  BY <1>2, <1>3, <1>4, <1>5, <1>6, <1>7

\* Native n at address a gets peer p, whose wrapper is linked to it: all of
\* Construct, and of LookupCreates.
GivesPeer(p, n, a, stack, ref) ==
  /\ heap[p] = "unborn" /\ Wraps(p, n)
  /\ \A q \in Peers : listening[q] # n
  /\ \A m \in Live : m = n \/ addr[m] # a
  /\ native' = [native EXCEPT ![n] = "live"]
  /\ addr' = [addr EXCEPT ![n] = a]
  /\ Own(p, n, a, stack, ref)
  /\ heap' = [heap EXCEPT ![p] = "alive"]
  /\ held' = held \cup {p}
  /\ fault' = fault

\* Giving a native that no wrapper is linked to its peer preserves the
\* invariant: the native is fresh (Construct) or was looked up in vain.
LEMMA GivesPeerKeepsIInv ==
  ASSUME IInv, NEW p \in Peers, NEW n \in Natives, NEW a \in Addrs,
         NEW stack \in Seq(Peers), NEW ref \in GlobalRefResults,
         GivesPeer(p, n, a, stack, ref)
  PROVE  IInv'
<1> USE DEF IInv, GivesPeer
<1>1. Live' = Live \cup {n}
  BY DEF Live, TypeOK
<1>2. pairs' = [pairs EXCEPT ![a] = << p >> \o stack] /\ << p >> \o stack \in Seq(Peers)
      /\ << p >> \o stack # << >> /\ Head(<< p >> \o stack) = p
  BY DEF Own, Register
<1>3. TypeOK'
  <2>1. pairs' \in [Addrs -> Seq(Peers)]
    BY <1>2 DEF TypeOK
  <2>2. data' \in [Peers -> Addrs \cup {None}] /\ listening' \in [Peers -> Natives \cup {None}]
    BY DEF TypeOK, Own
  <2>3. selfRef' \in SUBSET Peers
    BY DEF TypeOK, Own
  <2> QED
    BY <2>1, <2>2, <2>3 DEF TypeOK
<1>4. AddressesDistinct'
  BY <1>1 DEF AddressesDistinct, TypeOK, Live
<1>5. UnbornIsBlank'
  BY DEF UnbornIsBlank, Own, TypeOK
<1>6. LinkedWasBorn'
  BY DEF LinkedWasBorn, Own, TypeOK
<1>7. LinkedIsNewest'
  <2> SUFFICES ASSUME NEW m \in Live', NEW q \in Peers, listening'[q] = m
               PROVE  /\ data'[q] = addr'[m]
                      /\ pairs'[addr'[m]] # << >>
                      /\ Head(pairs'[addr'[m]]) = q
                      /\ heap'[q] = "alive"
                      /\ "globalRef" \notin Failures => q \in selfRef'
    BY DEF LinkedIsNewest
  <2>1. CASE m = n
    <3>1. q = p
      BY <2>1 DEF Own, TypeOK
    <3>2. "globalRef" \notin Failures => ref
      BY DEF GlobalRefResults
    <3> QED
      BY <1>2, <2>1, <3>1, <3>2 DEF Own, TypeOK
  <2>2. CASE m # n
    <3>1. m \in Live /\ listening[q] = m /\ q # p
      BY <1>1, <2>2 DEF Own, TypeOK
    <3>2. addr'[m] = addr[m] /\ addr[m] # a /\ addr[m] \in Addrs
      BY <2>2, <3>1 DEF TypeOK, AddressesDistinct, Live
    <3> QED
      BY <1>2, <3>1, <3>2 DEF LinkedIsNewest, Own, TypeOK
  <2> QED
    BY <2>1, <2>2
<1>8. OwnedIsLinked'
  BY <1>1 DEF OwnedIsLinked, Own, TypeOK
<1> QED
  BY <1>3, <1>4, <1>5, <1>6, <1>7, <1>8

\* A native nobody has a peer for appears: a client that connects or the event
\* loop of a new display.
LEMMA AppearsKeepsIInv ==
  ASSUME IInv, NEW n \in Natives, NEW a \in Addrs, Allocate(n, a),
         UNCHANGED << heap, held, wrapperVars, fault >>
  PROVE  IInv'
<1> USE DEF IInv
<1>1. Live' = Live \cup {n} /\ n \notin Live
  BY DEF Allocate, Live, TypeOK
<1>2. UNCHANGED wrapperVars /\ UNCHANGED << heap, held, fault >>
  OBVIOUS
<1>3. TypeOK'
  BY <1>2 DEF Allocate, TypeOK, wrapperVars
<1>4. AddressesDistinct'
  BY <1>1 DEF Allocate, AddressesDistinct, At, TypeOK, Live
<1>5. UnbornIsBlank'
  BY <1>2 DEF UnbornIsBlank, wrapperVars
<1>6. LinkedWasBorn' /\ \A q \in Peers : listening[q] # n
  BY <1>2 DEF Allocate, LinkedWasBorn, wrapperVars, TypeOK
<1>7. LinkedIsNewest'
  BY <1>1, <1>2, <1>6 DEF Allocate, LinkedIsNewest, wrapperVars,
                                 TypeOK, Live
<1>8. OwnedIsLinked'
  BY <1>1, <1>2 DEF OwnedIsLinked, wrapperVars
<1> QED
  BY <1>3, <1>4, <1>5, <1>6, <1>7, <1>8

-----------------------------------------------------------------------------
(* The inductive invariant. *)

\* At JNI_OnLoad there is nothing.
LEMMA InitIInv == WrapperInit => IInv
BY DEF WrapperInit, IInv, TypeOK, AddressesDistinct, UnbornIsBlank, LinkedWasBorn,
       LinkedIsNewest, OwnedIsLinked, Live

\* Every call of the application, of libwayland and of the collector
\* preserves the invariant.
LEMMA NextIInv == IInv /\ [Next]_vars => IInv'
<1> SUFFICES ASSUME IInv, [Next]_vars PROVE IInv'
  OBVIOUS
<1> USE DEF IInv
<1>1. ASSUME NEW n \in Natives, NEW a \in Addrs, ClientConnects(n, a) PROVE IInv'
  BY <1>1, AppearsKeepsIInv DEF ClientConnects
<1>2. ASSUME NEW n \in Natives, ClientHangsUp(n) PROVE IInv'
  <2>1. n \in Live /\ Die(n) /\ UNCHANGED << addr, heap, held, fault >>
    BY <1>2 DEF ClientHangsUp
  <2>2. /\ heap' \in [Peers -> {"unborn", "alive", "finalizing", "finalized", "collected"}]
        /\ \A q \in Peers : heap'[q] = heap[q]
    BY <2>1 DEF TypeOK
  <2> QED
    BY <2>1, <2>2, DieKeepsIInv
<1>3. ASSUME NEW p \in Peers, NEW n \in Natives, NEW a \in Addrs, Construct(p, n, a)
      PROVE  IInv'
  <2>1. PICK ref \in GlobalRefResults : Own(p, n, a, pairs[a], ref)
    BY <1>3 DEF Construct
  <2>2. \A q \in Peers : listening[q] # n
    BY <1>3 DEF Construct, Allocate, LinkedWasBorn, TypeOK
  <2>3. \A m \in Live : addr[m] # a
    BY <1>3 DEF Construct, Allocate, At
  <2>4. pairs[a] \in Seq(Peers)
    BY DEF TypeOK
  <2>5. GivesPeer(p, n, a, pairs[a], ref)
    BY <1>3, <2>1, <2>2, <2>3 DEF Construct, Allocate, GivesPeer
  <2> QED
    BY <2>4, <2>5, GivesPeerKeepsIInv
<1>4. ASSUME NEW p \in Peers, ConstructWithoutNative(p) PROVE IInv'
  BY <1>4 DEF ConstructWithoutNative, wrapperVars, TypeOK, AddressesDistinct,
              UnbornIsBlank, LinkedWasBorn, LinkedIsNewest, OwnedIsLinked, Live
<1>5. ASSUME NEW p \in Peers, NEW n \in Natives, ConstructWithoutWrapper(p, n)
      PROVE  IInv'
  <2>1. Live' = Live
    BY <1>5 DEF ConstructWithoutWrapper, Live, TypeOK
  <2> QED
    BY <1>5, <2>1 DEF ConstructWithoutWrapper, wrapperVars, TypeOK, AddressesDistinct,
                      UnbornIsBlank, LinkedWasBorn, LinkedIsNewest, OwnedIsLinked
<1>6. ASSUME NEW n \in Natives, LookupFinds(n) PROVE IInv'
  <2>1. Live' = Live
    BY <1>6 DEF LookupFinds, Live
  <2>2. PICK p \in Peers : /\ p = FindReference(addr[n])
                           /\ held' = held \cup {p}
    BY <1>6, FindReferenceType DEF LookupFinds, LookedUp, AddressesDistinct
  <2> QED
    BY <1>6, <2>1, <2>2
    DEF LookupFinds, wrapperVars, TypeOK, AddressesDistinct, UnbornIsBlank,
        LinkedWasBorn, LinkedIsNewest, OwnedIsLinked
<1>7. ASSUME NEW n \in Natives, NEW p \in Peers, LookupCreates(n, p) PROVE IInv'
  <2>1. n \in Live /\ addr[n] \in Addrs /\ StackAfterFind(addr[n]) \in Seq(Peers)
    BY <1>7, StackAfterFindType DEF LookupCreates, LookedUp, AddressesDistinct
  <2>2. PICK a \in Addrs, stack \in Seq(Peers) :
          a = addr[n] /\ stack = StackAfterFind(addr[n])
    BY <2>1
  <2>3. PICK ref \in GlobalRefResults : Own(p, n, a, stack, ref)
    BY <1>7, <2>2 DEF LookupCreates
  <2>4. \A q \in Peers : listening[q] # n
    BY <1>7, <2>1, NotFoundIsUnlinked DEF LookupCreates
  <2>5. \A m \in Live : m = n \/ addr[m] # a
    BY <2>1, <2>2 DEF AddressesDistinct
  <2>6. native' = [native EXCEPT ![n] = "live"] /\ addr' = [addr EXCEPT ![n] = a]
    BY <1>7, <2>1, <2>2 DEF LookupCreates, TypeOK, Live
  <2>7. /\ heap[p] = "unborn" /\ heap' = [heap EXCEPT ![p] = "alive"]
        /\ held' = held \cup {p} /\ fault' = fault
    BY <1>7 DEF LookupCreates
  <2>9. Wraps(p, n)
    BY <1>7 DEF LookupCreates
  <2>8. GivesPeer(p, n, a, stack, ref)
    BY <2>3, <2>4, <2>5, <2>6, <2>7, <2>9 DEF GivesPeer
  <2> QED
    BY <2>8, GivesPeerKeepsIInv
<1>8. ASSUME NEW n \in Natives, NEW p \in Peers, LookupFails(n, p) PROVE IInv'
  <2>1. n \in Live /\ addr[n] \in Addrs /\ StackAfterFind(addr[n]) \in Seq(Peers)
    BY <1>8, StackAfterFindType DEF LookupFails, LookedUp, AddressesDistinct
  <2>2. \A q \in Peers : listening[q] # n
    BY <1>8, <2>1, NotFoundIsUnlinked DEF LookupFails
  <2>3. Live' = Live
    BY <1>8 DEF LookupFails, Live
  <2>4. TypeOK'
    BY <1>8, <2>1 DEF LookupFails, TypeOK
  <2>5. LinkedIsNewest'
    BY <1>8, <2>1, <2>2, <2>3 DEF LookupFails, LinkedIsNewest, AddressesDistinct, TypeOK
  <2> QED
    BY <1>8, <2>3, <2>4, <2>5
    DEF LookupFails, TypeOK, AddressesDistinct, UnbornIsBlank, LinkedWasBorn, OwnedIsLinked
<1>9. ASSUME NEW p \in Peers, Destroy(p) PROVE IInv'
  <2>1. CASE \E n \in Behind(p) : Die(n) /\ UNCHANGED fault
    <3>1. PICK n \in Live : Die(n) /\ fault' = fault
      BY <2>1 DEF Behind, At
    <3>2. heap' = heap /\ addr' = addr /\ held' = held
      BY <1>9 DEF Destroy
    <3>3. /\ heap' \in [Peers -> {"unborn", "alive", "finalizing", "finalized", "collected"}]
          /\ \A q \in Peers : heap'[q] = heap[q]
      BY <3>2 DEF TypeOK
    <3> QED
      BY <3>1, <3>2, <3>3, DieKeepsIInv
  <2>2. CASE /\ fault' = "app"
             /\ UNCHANGED << native, wrapperVars >>
    BY <1>9, <2>2 DEF Destroy, wrapperVars, TypeOK, AddressesDistinct, UnbornIsBlank,
                      LinkedWasBorn, LinkedIsNewest, OwnedIsLinked, Live
  <2> QED
    BY <1>9, <2>1, <2>2 DEF Destroy, DestroyThrough
<1>10. ASSUME NEW p \in Peers, UseDead(p) PROVE IInv'
  BY <1>10 DEF UseDead, wrapperVars, TypeOK, AddressesDistinct, UnbornIsBlank,
               LinkedWasBorn, LinkedIsNewest, OwnedIsLinked, Live
<1>11. ASSUME NEW p \in Peers, Drop(p) PROVE IInv'
  BY <1>11 DEF Drop, wrapperVars, TypeOK, AddressesDistinct, UnbornIsBlank,
               LinkedWasBorn, LinkedIsNewest, OwnedIsLinked, Live
<1>12. ASSUME NEW p \in Peers, FinalizePeer(p) PROVE IInv'
  <2>1. /\ heap[p] = "alive" /\ p \notin selfRef
        /\ heap' = [heap EXCEPT ![p] = "finalizing"]
        /\ UNCHANGED << addr, held >>
    BY <1>12 DEF FinalizePeer, Unreachable
  <2>2. CASE \E n \in Behind(p) : Die(n) /\ UNCHANGED fault
    <3>1. PICK n \in Live : addr[n] = data[p] /\ Die(n) /\ UNCHANGED fault
      BY <2>2 DEF Behind, At
    <3>2. /\ heap' \in [Peers -> {"unborn", "alive", "finalizing", "finalized", "collected"}]
          /\ \A q \in Peers : \/ heap'[q] = heap[q]
                              \/ /\ q \notin selfRef
                                 /\ data[q] = addr[n]
                                 /\ heap'[q] # "unborn"
      BY <2>1, <3>1 DEF TypeOK
    <3> QED
      BY <2>1, <3>1, <3>2, DieKeepsIInv
  <2>3. CASE /\ Behind(p) = {}
             /\ UNCHANGED << native, wrapperVars >>
             /\ fault' \in {"none", "app", "finalizer"}
    <3>1. \A n \in Live : listening[p] # n
      <4> SUFFICES ASSUME NEW n \in Live, listening[p] = n PROVE FALSE
        OBVIOUS
      <4>1. n \in Natives /\ n # None
        BY DEF Live
      <4>2. Wraps(p, n) /\ data[p] = addr[n]
        BY <4>1 DEF LinkedWasBorn, LinkedIsNewest
      <4> QED
        BY <2>3, <4>2 DEF Behind, At
    <3>2. Live' = Live
      BY <2>3 DEF Live
    <3> QED
      BY <2>1, <2>3, <3>1, <3>2
      DEF wrapperVars, TypeOK, AddressesDistinct, UnbornIsBlank, LinkedWasBorn,
          LinkedIsNewest, OwnedIsLinked
  <2>4. None \notin Addrs /\ fault \in {"none", "app", "finalizer"}
    BY DEF TypeOK
  <2>5. data[p] = None => Behind(p) = {}
    BY <2>4 DEF Behind, At, AddressesDistinct
  <2> QED
    BY <1>12, <2>2, <2>3, <2>4, <2>5 DEF FinalizePeer, DestroyThrough
<1>13. ASSUME NEW p \in Peers, FinalizeWrapper(p) PROVE IInv'
  <2>1. \A n \in Live : listening[p] # n
    BY <1>13 DEF FinalizeWrapper, LinkedIsNewest
  <2>2. p \notin selfRef
    BY <2>1 DEF OwnedIsLinked
  <2>3. Live' = Live
    BY <1>13 DEF FinalizeWrapper, Live
  <2> QED
    BY <1>13, <2>1, <2>2, <2>3
    DEF FinalizeWrapper, DestroyWrapper, TypeOK, AddressesDistinct, UnbornIsBlank,
        LinkedWasBorn, LinkedIsNewest, OwnedIsLinked
<1>14. ASSUME NEW p \in Peers, Collect(p) PROVE IInv'
  BY <1>14 DEF Collect, wrapperVars, TypeOK, AddressesDistinct, UnbornIsBlank,
               LinkedWasBorn, LinkedIsNewest, OwnedIsLinked, Live
<1>16. ASSUME NEW n \in Natives, NEW a \in Addrs, DisplayCreate(n, a) PROVE IInv'
  BY <1>16, AppearsKeepsIInv DEF DisplayCreate
<1>17. ASSUME NEW n \in Natives, DisplayDestroy(n) PROVE IInv'
  <2>1. n \in Live /\ Die(n) /\ UNCHANGED << addr, heap, held, fault >>
    BY <1>17 DEF DisplayDestroy
  <2>2. /\ heap' \in [Peers -> {"unborn", "alive", "finalizing", "finalized", "collected"}]
        /\ \A q \in Peers : heap'[q] = heap[q]
    BY <2>1 DEF TypeOK
  <2> QED
    BY <2>1, <2>2, DieKeepsIInv
<1>18. ASSUME NEW p \in Peers, NEW n \in Natives, NEW a \in Addrs, ConstructLoop(p, n, a)
       PROVE  IInv'
  <2>1. Live' = Live \cup {n} /\ n \notin Live
    BY <1>18 DEF ConstructLoop, Allocate, Live, TypeOK
  <2>2. /\ UNCHANGED << selfRef, listening, fault >>
        /\ heap' = [heap EXCEPT ![p] = "alive"] /\ heap[p] = "unborn"
        /\ data' \in {data, [data EXCEPT ![p] = a]}
        /\ held' \in {held, held \cup {p}}
        /\ native' = [native EXCEPT ![n] = "live"]
        /\ addr' = [addr EXCEPT ![n] = a]
        /\ \A m \in Live : addr[m] # a
    <3>1. \A m \in Live : addr[m] # a
      BY <1>18 DEF ConstructLoop, Allocate, At
    <3>2. data' \in {data, [data EXCEPT ![p] = a]} /\ held' \in {held, held \cup {p}}
      BY <1>18 DEF ConstructLoop
    <3>3. native' = [native EXCEPT ![n] = "live"] /\ addr' = [addr EXCEPT ![n] = a]
      BY <1>18 DEF ConstructLoop, Allocate
    <3> QED
      BY <1>18, <3>1, <3>2, <3>3 DEF ConstructLoop
  <2>3. pairs' \in [Addrs -> Seq(Peers)] /\ \A b \in Addrs : b # a => pairs'[b] = pairs[b]
    <3>1. pairs' = pairs \/ pairs' = [pairs EXCEPT ![a] = << p >> \o pairs[a]]
      BY <1>18 DEF ConstructLoop, Register
    <3>2. pairs \in [Addrs -> Seq(Peers)] /\ << p >> \o pairs[a] \in Seq(Peers)
      BY DEF TypeOK
    <3>3. CASE pairs' = pairs
      BY <3>2, <3>3
    <3>4. CASE pairs' = [pairs EXCEPT ![a] = << p >> \o pairs[a]]
      <4> DEFINE stack == << p >> \o pairs[a]
      <4>1. stack \in Seq(Peers) /\ pairs' = [pairs EXCEPT ![a] = stack]
        BY <3>2, <3>4
      <4> HIDE DEF stack
      <4> QED
        BY <3>2, <4>1
    <3> QED
      BY <3>1, <3>3, <3>4
  <2>4. TypeOK'
    <3>1. data' \in [Peers -> Addrs \cup {None}]
      <4>1. data' = data \/ data' = [data EXCEPT ![p] = a]
        BY <2>2
      <4> QED
        BY <4>1 DEF TypeOK
    <3>2. held' \in SUBSET Peers
      <4>1. held' = held \/ held' = held \cup {p}
        BY <2>2
      <4> QED
        BY <4>1 DEF TypeOK
    <3> QED
      BY <2>2, <2>3, <3>1, <3>2 DEF TypeOK
  <2>5. AddressesDistinct'
    BY <2>1, <2>2 DEF AddressesDistinct, TypeOK, Live
  <2>6. UnbornIsBlank'
    BY <2>2 DEF UnbornIsBlank, TypeOK
  <2>7. LinkedWasBorn' /\ \A q \in Peers : listening[q] # n
    BY <1>18, <2>2 DEF ConstructLoop, Allocate, LinkedWasBorn, TypeOK
  <2>8. \A m \in Live, q \in Peers : listening[q] = m => q # p
    BY <2>2 DEF LinkedIsNewest
  <2>9. LinkedIsNewest'
    BY <2>1, <2>2, <2>3, <2>7, <2>8 DEF LinkedIsNewest, AddressesDistinct, TypeOK, Live
  <2>10. OwnedIsLinked'
    BY <2>1, <2>2 DEF OwnedIsLinked
  <2> QED
    BY <2>4, <2>5, <2>6, <2>7, <2>9, <2>10
<1>15. CASE UNCHANGED vars
  BY <1>15 DEF vars, wrapperVars, TypeOK, AddressesDistinct, UnbornIsBlank,
               LinkedWasBorn, LinkedIsNewest, OwnedIsLinked, Live
<1> QED
  BY <1>1, <1>2, <1>3, <1>4, <1>5, <1>6, <1>7, <1>8, <1>9, <1>10, <1>11, <1>12,
     <1>13, <1>14, <1>15, <1>16, <1>17, <1>18
  DEF Next, Libwayland, Application, Collector

\* The invariant holds in every reachable state.
THEOREM Inductive == Spec => []IInv
BY InitIInv, NextIInv, PTL DEF Spec

-----------------------------------------------------------------------------
(* What it gives. *)

\* Variables keep their types whatever fails.
THEOREM TypeCorrect == Spec => []TypeOK
<1>1. IInv => TypeOK
  BY DEF IInv
<1> QED
  BY <1>1, Inductive, PTL

\* A lookup of a live client or display loop that has a peer of its own returns
\* that peer, of the right class, and the peer's wrapper leads back.
THEOREM NativeResolves == Spec => []SeenNativeResolves
<1>1. IInv => SeenNativeResolves
  <2> SUFFICES ASSUME IInv, NEW n \in Live, NEW p \in Peers, listening[p] = n
               PROVE  /\ FindReference(addr[n]) = p
                      /\ Wraps(p, n)
                      /\ data[p] = addr[n]
    BY DEF SeenNativeResolves
  <2>1. n # None
    BY DEF Live
  <2>2. Wraps(p, n)
    BY <2>1 DEF IInv, LinkedWasBorn
  <2> QED
    BY <2>2 DEF IInv, LinkedIsNewest, FindReference, Cleared
<1> QED
  BY <1>1, Inductive, PTL

\* As long as JNI gives out global references, the finalizer of the
\* peer of a live client or display does not start.
THEOREM NativePinsPeer == Spec => []LiveNativePinsPeer
<1>1. IInv => LiveNativePinsPeer
  BY DEF IInv, LiveNativePinsPeer, LinkedIsNewest
<1> QED
  BY <1>1, Inductive, PTL

\* The branch of destroyNative under "This should never happen" is dead code
\* for clients and event loops.
THEOREM NeverFinalizedOwned == Spec => []FinalizedIsNotOwned
<1>1. IInv => FinalizedIsNotOwned
  BY DEF IInv, TypeOK, FinalizedIsNotOwned, OwnedIsLinked, LinkedIsNewest
<1> QED
  BY <1>1, Inductive, PTL

-----------------------------------------------------------------------------
(* ServerPeers implements PinnedPeer as long as JNI gives out global          *)
(* references.                                                                *)

PeerLife == [p \in Peers |-> IF heap[p] = "unborn" THEN "unborn"
                             ELSE IF listening[p] \in Live THEN "live" ELSE "ended"]

CollectedPeers == {p \in Peers : heap[p] = "collected"}

\* At first no peer exists, in either specification.
LEMMA InitRefines == WrapperInit => PinnedWrapper!Init
BY DEF WrapperInit, PinnedWrapper!Init

\* A step that only moves peers about on the Java heap, and leaves whether they
\* are born or collected alone, is a stutter of the promise.
LEMMA HeapStepStutters ==
  ASSUME IInv, selfRef' = selfRef, listening' = listening,
         \A q \in Peers : listening[q] \in Live' <=> listening[q] \in Live,
         \A q \in Peers : /\ heap'[q] = "unborn" <=> heap[q] = "unborn"
                          /\ heap'[q] = "collected" <=> heap[q] = "collected"
  PROVE  UNCHANGED PinnedWrapper!vars
<1>1. PeerLife' = PeerLife
  BY DEF PeerLife
<1>2. CollectedPeers' = CollectedPeers
  BY DEF CollectedPeers
<1> QED
  BY <1>1, <1>2 DEF PinnedWrapper!vars, PeerLife, CollectedPeers

\* The destroy signal of n ends every peer linked to it, and its reference with
\* it.
LEMMA DieEnds ==
  ASSUME IInv, "globalRef" \notin Failures, NEW n \in Live, Die(n),
         \A q \in Peers : /\ heap'[q] = "unborn" <=> heap[q] = "unborn"
                          /\ heap'[q] = "collected" <=> heap[q] = "collected"
  PROVE  PinnedWrapper!Next
<1>0. PICK gone \in SUBSET Peers : gone = Disowned(n)
  BY DEF Disowned, IInv, TypeOK
<1>1. Live' = Live \ {n}
  BY DEF Die, Live, IInv, TypeOK
<1>2. \A q \in Peers : listening[q] = n <=> q \in gone
  BY <1>0 DEF Disowned, IInv, LinkedIsNewest, TypeOK
<1>3. \A q \in gone : heap[q] # "unborn" /\ listening[q] \in Live
  BY <1>0 DEF Disowned, IInv, TypeOK, UnbornIsBlank
<1>4. gone \subseteq PinnedWrapper!Living
  BY <1>3 DEF PinnedWrapper!Living
<1>5. \A q \in Peers : /\ q \in gone => listening'[q] \notin Live'
                       /\ q \notin gone => (listening'[q] \in Live' <=> listening[q] \in Live)
  <2>1. None \notin Live
    BY WrapperAssumption DEF Live
  <2> QED
    BY <1>0, <1>1, <1>2, <2>1 DEF Die
<1>6. PeerLife' = [q \in Peers |-> IF q \in gone THEN "ended" ELSE PeerLife[q]]
  BY <1>3, <1>5 DEF PeerLife
<1>7. CollectedPeers' = CollectedPeers
  BY DEF CollectedPeers
<1>8. selfRef' = selfRef \ gone
  BY <1>0 DEF Die
<1>9. PinnedWrapper!End(gone)
  BY <1>4, <1>6, <1>7, <1>8 DEF PinnedWrapper!End, PeerLife, CollectedPeers
<1> QED
  BY <1>9 DEF PinnedWrapper!Next

\* A native that no wrapper is linked to gets its peer, and the reference that
\* pins it.
LEMMA GivesPeerBegins ==
  ASSUME IInv, "globalRef" \notin Failures,
         NEW p \in Peers, NEW n \in Natives, NEW a \in Addrs,
         NEW stack \in Seq(Peers), NEW ref \in GlobalRefResults,
         GivesPeer(p, n, a, stack, ref)
  PROVE  PinnedWrapper!Next
<1>1. Live' = Live \cup {n}
  BY DEF GivesPeer, Live, IInv, TypeOK
<1>2. ref = TRUE
  BY DEF GlobalRefResults
<1>3. /\ listening' = [listening EXCEPT ![p] = n] /\ selfRef' = selfRef \cup {p}
      /\ heap' = [heap EXCEPT ![p] = "alive"] /\ heap[p] = "unborn"
      /\ \A q \in Peers : listening[q] # n
  BY <1>2 DEF GivesPeer, Own
<1>4. PeerLife[p] = "unborn" /\ PeerLife' = [PeerLife EXCEPT ![p] = "live"]
  <2>1. ASSUME NEW q \in Peers, q # p
        PROVE  /\ heap'[q] = heap[q]
               /\ listening'[q] \in Live' <=> listening[q] \in Live
    BY <1>1, <1>3, <2>1 DEF IInv, TypeOK
  <2>2. heap'[p] = "alive" /\ listening'[p] \in Live'
    BY <1>1, <1>3 DEF IInv, TypeOK
  <2> QED
    BY <1>3, <2>1, <2>2 DEF PeerLife
<1>5. CollectedPeers' = CollectedPeers
  BY <1>3 DEF CollectedPeers, IInv, TypeOK
<1>6. PinnedWrapper!Begin(p)
  BY <1>3, <1>4, <1>5 DEF PinnedWrapper!Begin, PeerLife, CollectedPeers
<1> QED
  BY <1>6 DEF PinnedWrapper!Next

\* An object that is constructed without a link to a native is one the promise
\* says nothing of.
LEMMA UnlinkedAborts ==
  ASSUME IInv, NEW p \in Peers, heap[p] = "unborn",
         heap' = [heap EXCEPT ![p] = "alive"],
         selfRef' = selfRef, listening' = listening,
         \A q \in Peers : listening[q] \in Live' <=> listening[q] \in Live
  PROVE  PinnedWrapper!Next
<1>1. listening[p] \notin Live
  BY WrapperAssumption DEF IInv, UnbornIsBlank, Live
<1>2. PeerLife[p] = "unborn" /\ PeerLife' = [PeerLife EXCEPT ![p] = "ended"]
  BY <1>1 DEF PeerLife, IInv, TypeOK
<1>3. CollectedPeers' = CollectedPeers
  BY DEF CollectedPeers, IInv, TypeOK
<1>4. PinnedWrapper!Abort(p)
  BY <1>2, <1>3 DEF PinnedWrapper!Abort, PeerLife, CollectedPeers
<1> QED
  BY <1>4 DEF PinnedWrapper!Next

\* Nothing is linked to a native that has not been born.
LEMMA FreshIsUnlinked ==
  ASSUME IInv, NEW n \in Natives, native[n] = "unborn"
  PROVE  \A q \in Peers : listening[q] # n
BY DEF IInv, TypeOK, LinkedWasBorn

\* Each step begins, aborts or reclaims one peer, ends the peers of one native,
\* or leaves them all.
LEMMA NextRefines ==
  ASSUME "globalRef" \notin Failures
  PROVE  IInv /\ [Next]_vars => [PinnedWrapper!Next]_PinnedWrapper!vars
<1> SUFFICES ASSUME IInv, [Next]_vars
             PROVE  [PinnedWrapper!Next]_PinnedWrapper!vars
  OBVIOUS
<1> DEFINE Same == UNCHANGED PinnedWrapper!vars
<1> USE DEF wrapperVars
<1>1. ASSUME NEW n \in Natives, NEW a \in Addrs, ClientConnects(n, a) \/ DisplayCreate(n, a)
      PROVE  Same
  <2>1. native[n] = "unborn" /\ UNCHANGED << heap, selfRef, listening >>
    BY <1>1 DEF ClientConnects, DisplayCreate, Allocate
  <2>2. Live' = Live \cup {n}
    BY <1>1 DEF ClientConnects, DisplayCreate, Allocate, Live, IInv, TypeOK
  <2> QED
    BY <2>1, <2>2, FreshIsUnlinked, HeapStepStutters
<1>2. ASSUME NEW n \in Natives, ClientHangsUp(n) \/ DisplayDestroy(n)
      PROVE  PinnedWrapper!Next
  BY <1>2, DieEnds DEF ClientHangsUp, DisplayDestroy
<1>3. ASSUME NEW p \in Peers, NEW n \in Natives, NEW a \in Addrs, Construct(p, n, a)
      PROVE  PinnedWrapper!Next
  <2>1. PICK ref \in GlobalRefResults : Own(p, n, a, pairs[a], ref)
    BY <1>3 DEF Construct
  <2>2. \A q \in Peers : listening[q] # n
    BY <1>3, FreshIsUnlinked DEF Construct, Allocate
  <2>3. \A m \in Live : addr[m] # a
    BY <1>3 DEF Construct, Allocate, At
  <2>4. pairs[a] \in Seq(Peers)
    BY DEF IInv, TypeOK
  <2>5. GivesPeer(p, n, a, pairs[a], ref)
    BY <1>3, <2>1, <2>2, <2>3 DEF Construct, Allocate, GivesPeer
  <2> QED
    BY <2>4, <2>5, GivesPeerBegins
<1>4. ASSUME NEW p \in Peers, NEW n \in Natives, NEW a \in Addrs, ConstructLoop(p, n, a)
      PROVE  PinnedWrapper!Next
  <2>1. native[n] = "unborn" /\ Live' = Live \cup {n}
    BY <1>4 DEF ConstructLoop, Allocate, Live, IInv, TypeOK
  <2> QED
    BY <1>4, <2>1, FreshIsUnlinked, UnlinkedAborts DEF ConstructLoop
<1>5. ASSUME NEW p \in Peers, ConstructWithoutNative(p) PROVE PinnedWrapper!Next
  <2>1. Live' = Live
    BY <1>5 DEF ConstructWithoutNative, Live
  <2> QED
    BY <1>5, <2>1, UnlinkedAborts DEF ConstructWithoutNative
<1>6. ASSUME NEW p \in Peers, NEW n \in Natives, ConstructWithoutWrapper(p, n)
      PROVE  PinnedWrapper!Next
  <2>1. Live' = Live
    BY <1>6 DEF ConstructWithoutWrapper, Live, IInv, TypeOK
  <2> QED
    BY <1>6, <2>1, UnlinkedAborts DEF ConstructWithoutWrapper
<1>7. ASSUME NEW n \in Natives, NEW p \in Peers, LookupCreates(n, p)
      PROVE  PinnedWrapper!Next
  <2>1. n \in Live /\ addr[n] \in Addrs /\ StackAfterFind(addr[n]) \in Seq(Peers)
    BY <1>7, StackAfterFindType DEF LookupCreates, LookedUp, IInv, AddressesDistinct
  <2>2. PICK a \in Addrs, stack \in Seq(Peers) :
          a = addr[n] /\ stack = StackAfterFind(addr[n])
    BY <2>1
  <2>3. PICK ref \in GlobalRefResults : Own(p, n, a, stack, ref)
    BY <1>7, <2>2 DEF LookupCreates
  <2>4. \A q \in Peers : listening[q] # n
    BY <1>7, <2>1, NotFoundIsUnlinked DEF LookupCreates
  <2>5. \A m \in Live : m = n \/ addr[m] # a
    BY <2>1, <2>2 DEF IInv, AddressesDistinct
  <2>6. native' = [native EXCEPT ![n] = "live"] /\ addr' = [addr EXCEPT ![n] = a]
    BY <1>7, <2>1, <2>2 DEF LookupCreates, IInv, TypeOK, Live
  <2>7. GivesPeer(p, n, a, stack, ref)
    BY <1>7, <2>3, <2>4, <2>5, <2>6 DEF LookupCreates, GivesPeer
  <2> QED
    BY <2>7, GivesPeerBegins
<1>8. ASSUME NEW n \in Natives, NEW p \in Peers, LookupFails(n, p)
      PROVE  PinnedWrapper!Next
  <2>1. Live' = Live
    BY <1>8 DEF LookupFails, Live
  <2> QED
    BY <1>8, <2>1, UnlinkedAborts DEF LookupFails
<1>9. ASSUME NEW p \in Peers,
             \/ Destroy(p)
             \/ FinalizePeer(p)
      PROVE  PinnedWrapper!Next \/ Same
  <2>1. \A q \in Peers : /\ heap'[q] = "unborn" <=> heap[q] = "unborn"
                         /\ heap'[q] = "collected" <=> heap[q] = "collected"
    BY <1>9 DEF Destroy, FinalizePeer, IInv, TypeOK
  <2>2. CASE \E n \in Behind(p) : Die(n)
    BY <2>1, <2>2, DieEnds DEF Behind, At
  <2>3. CASE UNCHANGED << native, wrapperVars >>
    <3>1. Live' = Live
      BY <2>3 DEF Live
    <3> QED
      BY <2>1, <2>3, <3>1, HeapStepStutters
  <2> QED
    BY <1>9, <2>2, <2>3 DEF Destroy, FinalizePeer, DestroyThrough
<1>10. ASSUME NEW p \in Peers, UseDead(p) \/ Drop(p) PROVE Same
  <2>1. UNCHANGED << native, heap, selfRef, listening >>
    BY <1>10 DEF UseDead, Drop
  <2>2. Live' = Live
    BY <2>1 DEF Live
  <2> QED
    BY <2>1, <2>2, HeapStepStutters
<1>11. ASSUME NEW p \in Peers, FinalizeWrapper(p) PROVE Same
  <2>1. \A n \in Live : listening[p] # n
    BY <1>11 DEF FinalizeWrapper, IInv, LinkedIsNewest
  <2>2. p \notin selfRef
    BY <2>1 DEF IInv, OwnedIsLinked
  <2>3. UNCHANGED << selfRef, listening >> /\ Live' = Live
    BY <1>11, <2>2 DEF FinalizeWrapper, DestroyWrapper, Live, IInv, TypeOK
  <2>4. \A q \in Peers : /\ heap'[q] = "unborn" <=> heap[q] = "unborn"
                         /\ heap'[q] = "collected" <=> heap[q] = "collected"
    BY <1>11 DEF FinalizeWrapper, IInv, TypeOK
  <2> QED
    BY <2>3, <2>4, HeapStepStutters
<1>12. ASSUME NEW p \in Peers, Collect(p) PROVE PinnedWrapper!Next
  <2>1. heap[p] = "finalized" /\ p \notin selfRef /\ Live' = Live
    BY <1>12 DEF Collect, Unreachable, Live
  <2>2. listening[p] \notin Live
    BY <2>1 DEF IInv, LinkedIsNewest
  <2>3. PeerLife[p] = "ended" /\ PeerLife' = PeerLife
    BY <1>12, <2>1, <2>2 DEF Collect, PeerLife, IInv, TypeOK
  <2>4. CollectedPeers' = CollectedPeers \cup {p}
    BY <1>12 DEF Collect, CollectedPeers, IInv, TypeOK
  <2>5. PinnedWrapper!Reclaim(p)
    BY <1>12, <2>1, <2>3, <2>4
       DEF Collect, PinnedWrapper!Reclaim, PeerLife, CollectedPeers
  <2> QED
    BY <2>5 DEF PinnedWrapper!Next
<1>13. ASSUME NEW n \in Natives, LookupFinds(n) PROVE Same
  <2>1. UNCHANGED << native, heap, selfRef, listening >>
    BY <1>13 DEF LookupFinds
  <2>2. Live' = Live
    BY <2>1 DEF Live
  <2> QED
    BY <2>1, <2>2, HeapStepStutters
<1>14. CASE UNCHANGED vars
  <2>1. Live' = Live
    BY <1>14 DEF vars, Live
  <2> QED
    BY <1>14, <2>1, HeapStepStutters DEF vars
<1>15. CASE Libwayland
  BY <1>1, <1>2, <1>15 DEF Libwayland
<1>16. CASE Application
  BY <1>1, <1>2, <1>3, <1>4, <1>5, <1>6, <1>7, <1>8, <1>9, <1>10, <1>13, <1>16
  DEF Application
<1>17. CASE Collector
  BY <1>9, <1>11, <1>12, <1>17 DEF Collector
<1> QED
  BY <1>14, <1>15, <1>16, <1>17 DEF Next

\* The wrappers of clients and event loops keep the promise of PinnedPeer.
THEOREM WrappersArePinned ==
  ASSUME "globalRef" \notin Failures
  PROVE  Spec => ImplementsPinnedPeer
BY InitRefines, NextRefines, Inductive, PTL
   DEF Spec, ImplementsPinnedPeer, PinnedWrapper!Spec

\* The destroy signal of a client or loop finds the Java object it is for, and
\* no object stays pinned without a live native: no wrapper leaks its reference.
THEOREM LivingWrappersAreThere ==
  ASSUME "globalRef" \notin Failures
  PROVE  Spec => [](PinnedWrapper!LivingIsThere /\ PinnedWrapper!PromptPinsNoLonger)
<1>1. IInv => PinnedWrapper!LivingIsThere /\ PinnedWrapper!PromptPinsNoLonger
  BY DEF IInv, TypeOK, UnbornIsBlank, LinkedIsNewest, OwnedIsLinked,
         PinnedWrapper!LivingIsThere, PinnedWrapper!PromptPinsNoLonger,
         PinnedWrapper!Living
<1> QED
  BY <1>1, Inductive, PTL
=============================================================================
