------------------------- MODULE ServerDisplayProofs -------------------------
(***************************************************************************)
(* Proofs about ServerDisplay: IInv is inductive for any number of         *)
(* displays, globals and addresses, whatever calls fail and threads cross; *)
(* the pointer of a display leads to it but for those that crossed         *)
(* another, and globals keep the promise of PinnedPeer.                    *)
(***************************************************************************)
EXTENDS ServerDisplay, FiniteSetTheorems, SequenceTheorems, TLAPS

-----------------------------------------------------------------------------
(* The inductive invariant. *)

\* What is reclaimed was a global without a reference, or never advertised.
AdvertisedIsKept ==
  \A g \in Globals :
    /\ global[g] = "live" => g \in reference /\ g \in field
    /\ g \in reference => global[g] # "unborn"
    /\ g \in collected => g \notin reference /\ global[g] = "freed"

\* Whoever has a wl_display, or had it until a moment ago, has an address, and
\* shares it with no other that has one.
AddressesDistinct ==
  /\ \A d \in Displays : display[d] \in {"live", "stray", "freed"} => addr[d] \in Addrs
  /\ \A d, e \in Standing : addr[d] = addr[e] => d = e

\* Those that will still take a pair of the address away.
Keepers(a) == {d \in Displays : display[d] \in {"live", "freed"} /\ addr[d] = a}

\* No more pairs than displays that take one away: an address all have left has
\* none, whoever took which.
PairsAreTakenAway ==
  \A a \in Addrs : /\ IsFiniteSet(Keepers(a))
                   /\ Len(registry[a]) <= Cardinality(Keepers(a))

\* A live display that crossed no other has the one pair of its address.
OneRegistration ==
  \A d \in Live \ crossed : registry[addr[d]] = << d >> /\ FreedAt(addr[d]) = {}

\* The safety properties and what makes them inductive.
IInv ==
  /\ TypeOK
  /\ AdvertisedIsKept
  /\ AddressesDistinct
  /\ PairsAreTakenAway
  /\ OneRegistration

-----------------------------------------------------------------------------
(* Proofs. *)

USE DisplayAssumption DEF globalVars

\* No display is made and no global advertised at first.
LEMMA InitIInv == Init => IInv
<1> SUFFICES ASSUME Init PROVE IInv
  OBVIOUS
<1>1. registry \in [Addrs \cup {None} -> Seq(Displays)]
  BY EmptySeq DEF Init
<1>2. TypeOK
  BY <1>1 DEF Init, TypeOK
<1>3. AdvertisedIsKept /\ AddressesDistinct /\ OneRegistration
  BY DEF Init, AdvertisedIsKept, AddressesDistinct, OneRegistration, Standing, Live
<1>4. \A a \in Addrs : Keepers(a) = {} /\ registry[a] = << >>
  BY DEF Init, Keepers
<1>5. PairsAreTakenAway
  <2>1. IsFiniteSet({}) /\ Len(<< >>) = 0 /\ Cardinality({}) = 0
    BY FS_EmptySet, EmptySeq
  <2>2. \A a \in Addrs : /\ IsFiniteSet(Keepers(a))
                         /\ Len(registry[a]) = 0 /\ Cardinality(Keepers(a)) = 0
    BY <1>4, <2>1, Zenon
  <2> QED
    BY <2>2 DEF PairsAreTakenAway
<1> QED
  BY <1>2, <1>3, <1>5 DEF IInv

-----------------------------------------------------------------------------

\* The registry's part of the invariant.
Registrations == AddressesDistinct /\ PairsAreTakenAway /\ OneRegistration

\* Steps that leave the displays and the registry alone keep the registrations.
LEMMA RegistrationsUnchanged ==
  ASSUME Registrations, UNCHANGED << display, addr, registry, crossed >>
  PROVE  Registrations'
BY DEF Registrations, AddressesDistinct, PairsAreTakenAway, OneRegistration,
       Standing, Live, FreedAt, Keepers

\* An address given out is nobody's, and without a freed display it has no pair.
LEMMA FreshAddress ==
  ASSUME IInv, NEW d \in Displays, NEW a \in Addrs, Allocates(d, a)
  PROVE  /\ \A e \in Standing : addr[e] # a /\ e # d
         /\ d \notin Keepers(a)
         /\ FreedAt(a) = {} => registry[a] = << >>
<1>1. /\ \A e \in Standing : addr[e] # a /\ e # d
      /\ d \notin Keepers(a)
  BY DEF Allocates, Standing, Keepers
<1>2. ASSUME FreedAt(a) = {} PROVE registry[a] = << >>
  <2>1. Keepers(a) = {}
    BY <1>1, <1>2 DEF Keepers, FreedAt, Standing
  <2>2. Len(registry[a]) <= 0
    BY <2>1, FS_EmptySet DEF IInv, PairsAreTakenAway
  <2>3. registry[a] \in Seq(Displays)
    BY DEF IInv, TypeOK
  <2> QED
    BY <2>2, <2>3, EmptySeq
<1> QED
  BY <1>1, <1>2

\* A new display pushes a pair of its address.
LEMMA CreateDisplayStep ==
  ASSUME IInv, NEW d \in Displays, NEW a \in Addrs, CreateDisplay(d, a)
  PROVE  IInv'
<1>1. /\ Allocates(d, a) /\ display[d] = "unborn" /\ a # None
      /\ addr' = [addr EXCEPT ![d] = a]
      /\ display' = [display EXCEPT ![d] = "live"]
      /\ registry' = [registry EXCEPT ![a] = << d >> \o registry[a]]
  BY DEF CreateDisplay, Allocates
<1>2. /\ registry \in [Addrs \cup {None} -> Seq(Displays)]
      /\ << d >> \in Seq(Displays) /\ Len(<< d >>) = 1
  BY DEF IInv, TypeOK
<1>3. /\ << d >> \o registry[a] \in Seq(Displays)
      /\ Len(<< d >> \o registry[a]) = Len(registry[a]) + 1
  BY <1>2, ConcatProperties
<1>4. TypeOK'
  BY <1>1, <1>2, <1>3 DEF IInv, TypeOK, CreateDisplay, Allocates
<1>5. AdvertisedIsKept'
  BY DEF IInv, AdvertisedIsKept, CreateDisplay
<1>6. \A e \in Displays : e # d => display'[e] = display[e] /\ addr'[e] = addr[e]
  BY <1>1 DEF IInv, TypeOK
<1>7. display'[d] = "live" /\ addr'[d] = a
  BY <1>1 DEF IInv, TypeOK
<1>8. AddressesDistinct'
  BY <1>1, <1>6, <1>7, FreshAddress DEF IInv, AddressesDistinct, Standing
<1>9. PairsAreTakenAway'
  <2> SUFFICES ASSUME NEW b \in Addrs
               PROVE  /\ IsFiniteSet(Keepers(b)')
                      /\ Len(registry'[b]) <= Cardinality(Keepers(b)')
    BY DEF PairsAreTakenAway
  <2>1. IsFiniteSet(Keepers(b)) /\ Len(registry[b]) <= Cardinality(Keepers(b))
    BY DEF IInv, PairsAreTakenAway
  <2>2. CASE b = a
    <3>1. Keepers(a)' = Keepers(a) \cup {d}
      BY <1>6, <1>7 DEF Keepers
    <3>2. d \notin Keepers(a)
      BY <1>1, FreshAddress
    <3>3. Cardinality(Keepers(a)') = Cardinality(Keepers(a)) + 1 /\ IsFiniteSet(Keepers(a)')
      BY <2>1, <2>2, <3>1, <3>2, FS_AddElement
    <3>4. Len(registry'[a]) = Len(registry[a]) + 1
      BY <1>1, <1>2, <1>3
    <3>5. Len(registry[a]) \in Nat /\ Cardinality(Keepers(a)) \in Nat
      BY <1>2, <2>1, <2>2, FS_CardinalityType, LenProperties
    <3> QED
      BY <2>1, <2>2, <3>3, <3>4, <3>5
  <2>3. CASE b # a
    <3>1. Keepers(b)' = Keepers(b) /\ registry'[b] = registry[b]
      BY <1>1, <1>2, <1>6, <1>7, <2>3 DEF Keepers
    <3> QED
      BY <2>1, <3>1
  <2> QED
    BY <2>2, <2>3
<1>10. OneRegistration'
  <2> SUFFICES ASSUME NEW e \in Displays, display'[e] = "live", e \notin crossed'
               PROVE  registry'[addr'[e]] = << e >> /\ FreedAt(addr[e])' = {}
    BY DEF OneRegistration, Live
  <2>1. CASE e = d
    <3>1. FreedAt(a) = {}
      BY <2>1, <1>1 DEF Allocates
    <3>2. registry[a] = << >>
      BY <1>1, <3>1, FreshAddress
    <3>3. registry'[a] = << d >>
      BY <1>1, <1>2, <3>2
    <3>4. FreedAt(a)' = {}
      BY <1>6, <1>7, <3>1 DEF FreedAt
    <3> QED
      BY <1>7, <2>1, <3>3, <3>4
  <2>2. CASE e # d
    <3>1. e \in Live /\ e \in Standing /\ e \notin crossed /\ addr'[e] = addr[e]
      BY <1>1, <1>6, <2>2 DEF Live, Standing, Allocates
    <3>2. addr[e] # a /\ addr[e] \in Addrs
      BY <1>1, <3>1, FreshAddress DEF IInv, AddressesDistinct, Live
    <3>3. registry[addr[e]] = << e >> /\ FreedAt(addr[e]) = {}
      BY <3>1 DEF IInv, OneRegistration
    <3>4. FreedAt(addr[e])' = {}
      BY <1>6, <1>7, <3>1, <3>3 DEF FreedAt
    <3> QED
      BY <1>1, <1>2, <3>1, <3>2, <3>3, <3>4
  <2> QED
    BY <2>1, <2>2
<1> QED
  BY <1>4, <1>5, <1>8, <1>9, <1>10 DEF IInv

\* One whose constructor throws, or that has no wl_display, has no pair there.
LEMMA NoPairStep ==
  ASSUME IInv, NEW d \in Displays, NEW a \in Addrs \cup {None},
         \/ CreateDisplayUnregistered(d, a)
         \/ CreateDisplay(d, a) /\ a = None
  PROVE  IInv'
<1>1. /\ Allocates(d, a) /\ display[d] = "unborn"
      /\ addr' = [addr EXCEPT ![d] = a]
      /\ display' = [display EXCEPT ![d] = display'[d]]
      /\ \/ display'[d] = "stray" /\ a \in Addrs
         \/ display'[d] \in {"destroyed", "null"}
  BY DEF CreateDisplayUnregistered, CreateDisplay, Allocates, IInv, TypeOK
<1>2. registry' \in [Addrs \cup {None} -> Seq(Displays)]
  <2>1. registry \in [Addrs \cup {None} -> Seq(Displays)] /\ << d >> \in Seq(Displays)
    BY DEF IInv, TypeOK
  <2>2. << d >> \o registry[a] \in Seq(Displays)
    BY <2>1, ConcatProperties
  <2> QED
    BY <2>1, <2>2 DEF CreateDisplayUnregistered, CreateDisplay
<1>3. \A b \in Addrs : registry'[b] = registry[b]
  BY DEF CreateDisplayUnregistered, CreateDisplay, IInv, TypeOK
<1>4. TypeOK'
  BY <1>1, <1>2 DEF IInv, TypeOK, CreateDisplayUnregistered, CreateDisplay, Allocates
<1>5. AdvertisedIsKept'
  BY DEF IInv, AdvertisedIsKept, CreateDisplayUnregistered, CreateDisplay
<1>6. \A e \in Displays : e # d => display'[e] = display[e] /\ addr'[e] = addr[e]
  BY <1>1 DEF IInv, TypeOK
<1>7. addr'[d] = a
  BY <1>1 DEF IInv, TypeOK
<1>8. AddressesDistinct'
  BY <1>1, <1>6, <1>7, FreshAddress DEF IInv, AddressesDistinct, Standing
<1>9. \A b \in Addrs : Keepers(b)' = Keepers(b) /\ FreedAt(b)' = FreedAt(b)
  BY <1>1, <1>6 DEF Keepers, FreedAt
<1>10. PairsAreTakenAway'
  BY <1>3, <1>9 DEF IInv, PairsAreTakenAway
<1>11. OneRegistration'
  <2>1. Live' = Live /\ crossed \subseteq crossed'
    BY <1>1, <1>6 DEF Live, Allocates
  <2>2. \A e \in Live : addr'[e] = addr[e] /\ addr[e] \in Addrs
    BY <1>1, <1>6 DEF IInv, AddressesDistinct, Live
  <2> QED
    BY <1>3, <1>9, <2>1, <2>2 DEF IInv, OneRegistration
<1> QED
  BY <1>4, <1>5, <1>8, <1>10, <1>11 DEF IInv

\* wl_display_destroy takes the globals along; the pair, if there is one, stays.
LEMMA FreesStep ==
  ASSUME IInv, NEW d \in Standing, Frees(d)
  PROVE  IInv'
<1>1. /\ d \in Displays /\ display' = [display EXCEPT ![d] = "freed"]
      /\ UNCHANGED << addr, registry, crossed >>
  BY DEF Frees, Standing
<1>2. TypeOK'
  BY <1>1 DEF IInv, TypeOK, Frees
<1>3. AdvertisedIsKept'
  BY DEF IInv, AdvertisedIsKept, TypeOK, Frees, GlobalsOf
<1>4. display'[d] = "freed" /\ \A e \in Displays : e # d => display'[e] = display[e]
  BY <1>1 DEF IInv, TypeOK
<1>5. AddressesDistinct'
  BY <1>1, <1>4 DEF IInv, AddressesDistinct, Standing
<1>6. PairsAreTakenAway'
  <2> SUFFICES ASSUME NEW a \in Addrs
               PROVE  /\ IsFiniteSet(Keepers(a)')
                      /\ Len(registry[a]) <= Cardinality(Keepers(a)')
    BY <1>1 DEF PairsAreTakenAway
  <2>1. IsFiniteSet(Keepers(a)) /\ Len(registry[a]) <= Cardinality(Keepers(a))
    BY DEF IInv, PairsAreTakenAway
  <2>2. Keepers(a)' = Keepers(a) \/ Keepers(a)' = Keepers(a) \cup {d}
    BY <1>1, <1>4 DEF Keepers
  <2>3. /\ IsFiniteSet(Keepers(a) \cup {d})
        /\ Cardinality(Keepers(a) \cup {d}) \in {Cardinality(Keepers(a)),
                                                Cardinality(Keepers(a)) + 1}
    BY <2>1, FS_AddElement
  <2>4. Len(registry[a]) \in Nat /\ Cardinality(Keepers(a)) \in Nat
    BY <2>1, FS_CardinalityType, LenProperties DEF IInv, TypeOK
  <2>5. CASE Keepers(a)' = Keepers(a)
    BY <2>1, <2>5
  <2>6. CASE Keepers(a)' = Keepers(a) \cup {d}
    BY <2>1, <2>3, <2>4, <2>6
  <2> QED
    BY <2>2, <2>5, <2>6
<1>7. OneRegistration'
  <2> SUFFICES ASSUME NEW e \in Displays, display'[e] = "live", e \notin crossed
               PROVE  registry[addr[e]] = << e >> /\ FreedAt(addr[e])' = {}
    BY <1>1 DEF OneRegistration, Live
  <2>1. e # d /\ e \in Live /\ e \in Standing
    BY <1>4 DEF Live, Standing
  <2>2. addr[e] # addr[d]
    BY <2>1 DEF IInv, AddressesDistinct
  <2>3. registry[addr[e]] = << e >> /\ FreedAt(addr[e]) = {}
    BY <2>1 DEF IInv, OneRegistration
  <2>4. FreedAt(addr[e])' = {}
    BY <1>1, <1>4, <2>2, <2>3 DEF FreedAt
  <2> QED
    BY <2>3, <2>4
<1> QED
  BY <1>2, <1>3, <1>5, <1>6, <1>7 DEF IInv

\* Unregister removes the newest pair of the address, its own or another's.
LEMMA UnregisterStep ==
  ASSUME IInv, NEW d \in Displays, Unregister(d)
  PROVE  IInv'
<1> DEFINE a == addr[d]
<1>1. /\ display[d] = "freed" /\ a \in Addrs /\ d \in Keepers(a) /\ d \in FreedAt(a)
      /\ display' = [display EXCEPT ![d] = "destroyed"]
      /\ UNCHANGED << addr, crossed >>
  BY DEF IInv, AddressesDistinct, Unregister, Keepers, FreedAt
<1>2. registry[a] \in Seq(Displays) /\ registry \in [Addrs \cup {None} -> Seq(Displays)]
  BY <1>1 DEF IInv, TypeOK
<1>3. registry' = [registry EXCEPT ![a] = IF registry[a] = << >> THEN registry[a]
                                          ELSE Tail(registry[a])]
  BY DEF Unregister, Unregistered
<1>4. /\ registry'[a] \in Seq(Displays)
      /\ \/ registry[a] = << >> /\ registry'[a] = << >>
         \/ Len(registry'[a]) = Len(registry[a]) - 1
  BY <1>1, <1>2, <1>3, HeadTailProperties
<1>5. \A b \in Addrs \cup {None} : b # a => registry'[b] = registry[b]
  BY <1>2, <1>3
<1>6. registry' \in [Addrs \cup {None} -> Seq(Displays)]
  BY <1>1, <1>2, <1>3, <1>4
<1>7. TypeOK'
  BY <1>1, <1>6 DEF IInv, TypeOK, Unregister
<1>8. AdvertisedIsKept'
  BY DEF IInv, AdvertisedIsKept, Unregister
<1>9. /\ display'[d] = "destroyed"
      /\ \A e \in Displays : e # d => display'[e] = display[e]
  BY <1>1 DEF IInv, TypeOK
<1>10. AddressesDistinct'
  BY <1>1, <1>9 DEF IInv, AddressesDistinct, Standing
<1>11. PairsAreTakenAway'
  <2> SUFFICES ASSUME NEW b \in Addrs
               PROVE  /\ IsFiniteSet(Keepers(b)')
                      /\ Len(registry'[b]) <= Cardinality(Keepers(b)')
    BY DEF PairsAreTakenAway
  <2>1. IsFiniteSet(Keepers(b)) /\ Len(registry[b]) <= Cardinality(Keepers(b))
    BY DEF IInv, PairsAreTakenAway
  <2>2. CASE b = a
    <3>1. Keepers(a)' = Keepers(a) \ {d}
      BY <1>1, <1>9 DEF Keepers
    <3>2. /\ IsFiniteSet(Keepers(a)')
          /\ Cardinality(Keepers(a)') = Cardinality(Keepers(a)) - 1
      BY <1>1, <2>1, <2>2, <3>1, FS_RemoveElement
    <3>3. Cardinality(Keepers(a)') \in Nat /\ Cardinality(Keepers(a)) \in Nat
      BY <2>1, <2>2, <3>2, FS_CardinalityType
    <3>4. Len(registry[a]) \in Nat /\ Len(<< >>) = 0
      BY <1>2, LenProperties, EmptySeq
    <3>5. Len(registry[a]) <= Cardinality(Keepers(a))
      BY <2>1, <2>2
    <3> DEFINE before == Len(registry[a])
                after == Len(registry'[a])
                keepers == Cardinality(Keepers(a))
                rest == Cardinality(Keepers(a)')
    <3>6. /\ before \in Nat /\ keepers \in Nat /\ rest \in Nat
          /\ before <= keepers /\ rest = keepers - 1
          /\ (before = 0 /\ after = 0) \/ after = before - 1
      BY <1>4, <3>2, <3>3, <3>4, <3>5
    <3>7. after <= rest
      <4> HIDE DEF before, after, keepers, rest
      <4> QED
        BY <3>6
    <3>8. Keepers(b)' = Keepers(a)' /\ registry'[b] = registry'[a]
      BY <1>1, <2>2 DEF Keepers
    <3> QED
      BY <3>2, <3>7, <3>8
  <2>3. CASE b # a
    <3>1. Keepers(b)' = Keepers(b) /\ registry'[b] = registry[b]
      BY <1>1, <1>5, <1>9, <2>3 DEF Keepers
    <3> QED
      BY <2>1, <3>1
  <2> QED
    BY <2>2, <2>3
<1>12. OneRegistration'
  <2> SUFFICES ASSUME NEW e \in Displays, display'[e] = "live", e \notin crossed
               PROVE  registry'[addr[e]] = << e >> /\ FreedAt(addr[e])' = {}
    BY <1>1 DEF OneRegistration, Live
  <2>1. e \in Live
    BY <1>9 DEF Live
  <2>2. registry[addr[e]] = << e >> /\ FreedAt(addr[e]) = {} /\ addr[e] \in Addrs
    BY <2>1 DEF IInv, OneRegistration, AddressesDistinct, Live
  <2>3. addr[e] # a
    BY <1>1, <2>2
  <2>4. FreedAt(addr[e])' = {}
    BY <1>1, <1>9, <2>2 DEF FreedAt
  <2> QED
    BY <1>5, <2>2, <2>3, <2>4
<1> QED
  BY <1>7, <1>8, <1>10, <1>11, <1>12 DEF IInv

\* Every step keeps IInv.
LEMMA NextIInv == IInv /\ [Next]_vars => IInv'
<1> SUFFICES ASSUME IInv, [Next]_vars PROVE IInv'
  OBVIOUS
<1> USE RegistrationsUnchanged DEF IInv, Registrations, TypeOK, AdvertisedIsKept
<1>1. ASSUME NEW d \in Displays, GetDisplay(d) PROVE IInv'
  <2>1. Found(addr[d]) \in Displays
    BY <1>1, HeadTailProperties DEF GetDisplay, Found, Live, AddressesDistinct
  <2> QED
    BY <1>1, <2>1 DEF GetDisplay
<1>2. ASSUME NEW g \in Globals, NEW d \in Displays, NEW set \in BOOLEAN,
             CreateGlobal(g, d, set)
      PROVE  IInv'
  BY <1>2 DEF CreateGlobal
<1>3. ASSUME NEW g \in Globals, NEW d \in Displays, CreateGlobalFails(g, d)
      PROVE  IInv'
  BY <1>3 DEF CreateGlobalFails
<1>4. ASSUME NEW g \in Globals, DestroyGlobal(g) PROVE IInv'
  BY <1>4 DEF DestroyGlobal
<1>5. ASSUME NEW g \in Globals, DestroyFreedGlobal(g) PROVE IInv'
  BY <1>5 DEF DestroyFreedGlobal, Fault
<1>6. ASSUME NEW g \in Globals, DestroyGlobalAgain(g) PROVE IInv'
  BY <1>6 DEF DestroyGlobalAgain, Fault
<1>7. ASSUME NEW g \in Globals, Bind(g) PROVE IInv'
  BY <1>7 DEF Bind
<1>8. CASE BindReturns
  BY <1>8 DEF BindReturns
<1>9. ASSUME NEW x \in Displays \cup Globals, Drop(x) PROVE IInv'
  BY <1>9 DEF Drop
<1>10. ASSUME NEW x \in Displays \cup Globals, Collect(x) PROVE IInv'
  BY <1>10 DEF Collect, Born
<1>11. ASSUME NEW d \in Displays,
              CreateDisplayCrashes(d) \/ UseDisplayWithoutNative(d)
       PROVE  IInv'
  BY <1>11 DEF CreateDisplayCrashes, UseDisplayWithoutNative, Fault
<1>12. ASSUME NEW d \in Displays, NEW a \in Addrs \cup {None},
              CreateDisplay(d, a) \/ CreateDisplayUnregistered(d, a)
       PROVE  IInv'
  BY <1>12, CreateDisplayStep, NoPairStep
<1>13. ASSUME NEW d \in Displays, DestroyDisplay(d) \/ FinalizeDisplay(d) PROVE IInv'
  BY <1>13, FreesStep DEF DestroyDisplay, FinalizeDisplay, Live, Standing
<1>14. CASE UNCHANGED vars
  BY <1>14 DEF vars
<1> HIDE DEF IInv, Registrations, TypeOK, AdvertisedIsKept
<1> QED
  BY <1>1, <1>2, <1>3, <1>4, <1>5, <1>6, <1>7, <1>8, <1>9, <1>10, <1>11, <1>12,
     <1>13, <1>14, UnregisterStep DEF Next

-----------------------------------------------------------------------------

\* Registrations and references are right in every reachable state.
THEOREM Inductive == Spec => []IInv
BY InitIInv, NextIInv, PTL DEF Spec

\* The pointer of a live display leads to its Display, but for one that was made
\* while another was leaving its address.
THEOREM PointersResolve == Spec => []DisplayResolves
<1>1. IInv => DisplayResolves
  <2> SUFFICES ASSUME IInv, NEW d \in Live \ crossed
               PROVE  Found(addr[d]) = d
    BY DEF DisplayResolves
  <2>1. registry[addr[d]] = << d >>
    BY DEF IInv, OneRegistration
  <2> QED
    BY <2>1 DEF Found
<1> QED
  BY <1>1, Inductive, PTL

-----------------------------------------------------------------------------

\* At first no global exists, in either specification.
LEMMA InitRefines == Init => PinnedGlobal!Init
BY DEF Init, PinnedGlobal!Init

\* Each step begins, aborts or reclaims one global, ends some, or none of it.
LEMMA NextRefines ==
  IInv /\ [Next]_vars => [PinnedGlobal!Next]_PinnedGlobal!vars
<1> SUFFICES ASSUME IInv, [Next]_vars PROVE [PinnedGlobal!Next]_PinnedGlobal!vars
  OBVIOUS
<1> DEFINE life == [g \in Globals |-> IF global[g] = "freed" THEN "ended" ELSE global[g]]
<1>1. CASE UNCHANGED << global, reference, collected >>
  BY <1>1 DEF PinnedGlobal!vars
<1>2. ASSUME NEW g \in Globals, NEW d \in Displays, NEW set \in BOOLEAN,
             CreateGlobal(g, d, set)
      PROVE  PinnedGlobal!Next
  <2>1. PinnedGlobal!Begin(g)
    BY <1>2 DEF CreateGlobal, PinnedGlobal!Begin, IInv, TypeOK
  <2> QED
    BY <2>1 DEF PinnedGlobal!Next
<1>3. ASSUME NEW g \in Globals, NEW d \in Displays, CreateGlobalFails(g, d)
      PROVE  PinnedGlobal!Next
  <2>1. PinnedGlobal!Abort(g)
    BY <1>3 DEF CreateGlobalFails, PinnedGlobal!Abort, IInv, TypeOK
  <2> QED
    BY <2>1 DEF PinnedGlobal!Next
<1>4. ASSUME NEW gone \in SUBSET Globals, \A g \in gone : global[g] = "live",
             global' = [g \in Globals |-> IF g \in gone THEN "freed" ELSE global[g]],
             reference' = reference, collected' = collected
      PROVE  PinnedGlobal!Next
  <2>1. gone \subseteq PinnedGlobal!Living
    BY <1>4 DEF PinnedGlobal!Living
  <2>2. life' = [q \in Globals |-> IF q \in gone THEN "ended" ELSE life[q]]
    BY <1>4
  <2>3. reference' = reference \ {} /\ {} \in SUBSET gone
    BY <1>4
  <2>4. PinnedGlobal!End(gone)
    BY <1>4, <2>1, <2>2, <2>3 DEF PinnedGlobal!End
  <2> QED
    BY <2>4 DEF PinnedGlobal!Next
<1>5. ASSUME NEW d \in Displays, DestroyDisplay(d) \/ FinalizeDisplay(d)
      PROVE  PinnedGlobal!Next
  <2>1. /\ GlobalsOf(d) \in SUBSET Globals
        /\ \A g \in GlobalsOf(d) : global[g] = "live"
    BY DEF GlobalsOf
  <2> QED
    BY <1>4, <1>5, <2>1 DEF DestroyDisplay, FinalizeDisplay, Frees
<1>6. ASSUME NEW g \in Globals, DestroyGlobal(g) PROVE PinnedGlobal!Next
  <2>1. global' = [q \in Globals |-> IF q \in {g} THEN "freed" ELSE global[q]]
    BY <1>6 DEF DestroyGlobal, IInv, TypeOK
  <2> QED
    BY <1>4, <1>6, <2>1 DEF DestroyGlobal
<1>7. ASSUME NEW x \in Displays, Collect(x) PROVE UNCHANGED PinnedGlobal!vars
  <2>1. x \notin Globals
    BY <1>7
  <2>2. (collected \cap Globals)' = collected \cap Globals
    BY <1>7, <2>1 DEF Collect
  <2> QED
    BY <1>7, <2>2 DEF Collect, PinnedGlobal!vars
<1>8. ASSUME NEW g \in Globals, Collect(g) PROVE PinnedGlobal!Next
  <2>1. life[g] = "ended" /\ g \notin reference
    BY <1>8 DEF Collect, Born, IInv, TypeOK, AdvertisedIsKept
  <2>2. (collected \cap Globals)' = (collected \cap Globals) \cup {g}
    BY <1>8 DEF Collect
  <2>3. PinnedGlobal!Reclaim(g)
    BY <1>8, <2>1, <2>2 DEF Collect, PinnedGlobal!Reclaim
  <2> QED
    BY <2>3 DEF PinnedGlobal!Next
<1>9. ASSUME NEW d \in Displays,
             \/ \E a \in Addrs \cup {None} :
                  CreateDisplay(d, a) \/ CreateDisplayUnregistered(d, a)
             \/ CreateDisplayCrashes(d) \/ UseDisplayWithoutNative(d)
             \/ GetDisplay(d) \/ Unregister(d)
      PROVE  UNCHANGED << global, reference, collected >>
  BY <1>9 DEF CreateDisplay, CreateDisplayUnregistered, CreateDisplayCrashes,
              UseDisplayWithoutNative, Fault, GetDisplay, Unregister
<1>10. ASSUME NEW g \in Globals,
              DestroyFreedGlobal(g) \/ DestroyGlobalAgain(g) \/ Bind(g) \/ BindReturns
       PROVE  UNCHANGED << global, reference, collected >>
  BY <1>10 DEF DestroyFreedGlobal, DestroyGlobalAgain, Bind, BindReturns, Fault
<1>11. ASSUME BindReturns \/ UNCHANGED vars \/ \E x \in Displays \cup Globals : Drop(x)
       PROVE  UNCHANGED << global, reference, collected >>
  BY <1>11 DEF BindReturns, vars, Drop
<1> QED
  BY <1>1, <1>2, <1>3, <1>5, <1>6, <1>7, <1>8, <1>9, <1>10, <1>11 DEF Next

\* The globals of a server keep the promise of PinnedPeer.
THEOREM GlobalsArePinned == Spec => ImplementsPinnedPeer
BY InitRefines, NextRefines, Inductive, PTL
   DEF Spec, ImplementsPinnedPeer, PinnedGlobal!Spec

\* A client that binds a global finds its Java object.
THEOREM AdvertisedGlobalsAreThere == Spec => []PinnedGlobal!LivingIsThere
<1>1. IInv => PinnedGlobal!LivingIsThere
  BY DEF IInv, TypeOK, AdvertisedIsKept, PinnedGlobal!LivingIsThere, PinnedGlobal!Living
<1> QED
  BY <1>1, Inductive, PTL
=============================================================================
