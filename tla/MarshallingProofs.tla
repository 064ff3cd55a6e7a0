-------------------------- MODULE MarshallingProofs --------------------------
(***************************************************************************)
(* Proofs about Marshalling: whatever the versions and however many the    *)
(* arguments, a message of the first version arrives whole, one that is    *)
(* newer than its resource is not sent, and nothing a conversion made is   *)
(* left behind.                                                            *)
(***************************************************************************)
EXTENDS Marshalling, FiniteSetTheorems, SequenceTheorems, TLAPS

-----------------------------------------------------------------------------
(* The inductive invariant. *)

Kinds == Letters \cup {"null", "unset"}

Calls == [caller : Callers, msg : Messages, bound : Versions, null : SUBSET (1 .. MaxArgs)]

\* What the types say, each list of slots with the length the caller counted.
Typed ==
  /\ call \in Calls
  /\ call.null \subseteq {k \in DOMAIN call.msg.args : call.msg.args[k].type \in {"s", "o"}}
  /\ pc \in {"start", "convert", "undo", "post", "call", "done"}
  /\ i \in 0 .. count
  /\ args = << >> \/ args \in [1 .. count -> Kinds]
  /\ refs \in Nat
  /\ block \in BOOLEAN
  /\ pending \in BOOLEAN
  /\ outcome \in {"none", "sent", "called", "thrown", "crashed"}

\* Where the call stands: once an exception is pending nothing more is
\* converted, and only a conversion that came to its end is sent or called.
Stages ==
  /\ pc = "start" =>
       i = 0 /\ refs = 0 /\ ~pending
  /\ pc \in {"convert", "undo", "post", "call"} => args \in [1 .. count -> Kinds]
  /\ pc \in {"undo", "post"} => Outgoing
  /\ pc = "call" => ~Outgoing
  /\ pc = "convert" =>
       (pending <=> TooNew) /\ (pending => i = 0)
  /\ pc = "post" => i = count
  /\ outcome # "none" => pc \in {"post", "call", "done"}
  /\ outcome \in {"sent", "called"} => i = count /\ args \in [1 .. count -> Kinds]
  /\ outcome = "called" => ~Outgoing

\* Only strings and arrays that were converted are owned, and none is at the end.
Owned ==
  /\ owned \subseteq Freed(i)
  /\ ~Outgoing => owned = {}
  /\ pc \in {"start", "done"} => owned = {}

\* A slot of a message of the first version holds what was passed.
Converts ==
  call.msg.since = 1 /\ args \in [1 .. count -> Kinds] =>
    \A k \in 1 .. i :
      args[k] = IF k \in call.null THEN "null" ELSE call.msg.args[k].type

\* A dispatcher stops at the version, and at null where it is not allowed.
Legal ==
  ~Outgoing =>
    /\ call.msg.since # 1 => i = 0
    /\ call.msg.since = 1 => \A k \in 1 .. i : k \in call.null => call.msg.args[k].nullable

\* Each reference but the dispatcher's two is to an object converted.
Referred(n) == {k \in 1 .. n : sig[k].type \in RefLetters(call.caller)}

Refs ==
  /\ Outgoing => refs = 0
  /\ refs <= Cardinality(Referred(i)) + 2

Newer == outcome = "sent" => ~TooNew

IInv ==
  /\ Typed
  /\ Stages
  /\ Owned
  /\ Converts
  /\ Legal
  /\ Refs
  /\ Newer

USE MarshallingAssumption

-----------------------------------------------------------------------------
(* Messages and their signatures. *)

Items == [type : Letters \cup {"since"}, nullable : BOOLEAN]

\* An argument of a request is an item of a signature.
LEMMA ArgsAreItems ==
  \A arg \in Args : arg \in Items /\ arg.type \in Letters
BY DEF Args, Items, Letters

\* A list of arguments is a sequence of items, of a length within the bound.
LEMMA ArgListIsSeq ==
  ASSUME NEW msg \in Messages
  PROVE  /\ msg.args \in Seq(Args)
         /\ Len(msg.args) \in 0 .. MaxArgs
         /\ DOMAIN msg.args = 1 .. Len(msg.args)
         /\ \A k \in DOMAIN msg.args : msg.args[k] \in Args
<1>1. PICK n \in 0 .. MaxArgs : msg.args \in [1 .. n -> Args]
  BY DEF Messages, ArgLists
<1> QED
  BY <1>1

\* An item for the version comes first, unless the version is the first.
LEMMA SignatureItems ==
  ASSUME NEW msg \in Messages
  PROVE  /\ Signature(msg) \in Seq(Items)
         /\ msg.since = 1 => Signature(msg) = msg.args
         /\ msg.since # 1 =>
              /\ Len(Signature(msg)) = Len(msg.args) + 1
              /\ Signature(msg)[1].type = "since"
              /\ \A k \in 1 .. Len(msg.args) : Signature(msg)[k + 1] = msg.args[k]
<1>1. msg.args \in Seq(Items) /\ Len(msg.args) \in Nat
  <2>1. /\ msg.args \in Seq(Args) /\ Len(msg.args) \in Nat
        /\ Args \subseteq Items
    BY ArgListIsSeq, ArgsAreItems
  <2> QED
    BY <2>1, SeqMonotonic
<1>2. CASE msg.since = 1
  <2>1. Signature(msg) = << >> \o msg.args
    BY <1>2 DEF Signature
  <2>2. << >> \o msg.args = msg.args
    BY <1>1, ConcatEmptySeq
  <2> QED
    BY <1>1, <1>2, <2>1, <2>2
<1>3. CASE msg.since # 1
  <2> DEFINE version == << [type |-> "since", nullable |-> FALSE] >>
  <2>1. /\ version \in Seq(Items) /\ Len(version) = 1
        /\ version[1].type = "since"
    BY DEF Items
  <2>2. Signature(msg) = version \o msg.args
    BY <1>3 DEF Signature
  <2> HIDE DEF version
  <2>3. /\ version \o msg.args \in Seq(Items)
        /\ Len(version \o msg.args) = 1 + Len(msg.args)
        /\ \A k \in 1 .. 1 + Len(msg.args) :
             (version \o msg.args)[k] = IF k <= 1 THEN version[k] ELSE msg.args[k - 1]
    BY <1>1, <2>1, ConcatProperties
  <2>4. \A k \in 1 .. Len(msg.args) : k + 1 \in 1 .. 1 + Len(msg.args) /\ ~(k + 1 <= 1) /\ k + 1 - 1 = k
    BY <1>1
  <2>5. 1 \in 1 .. 1 + Len(msg.args)
    BY <1>1
  <2> QED
    BY <1>1, <1>3, <2>1, <2>2, <2>3, <2>4, <2>5
<1> QED
  BY <1>2, <1>3

\* Every caller but marshal counts the arguments of the message; marshal counts
\* the version as well.
LEMMA CountIsExact ==
  ASSUME NEW msg \in Messages, NEW caller \in AllCallers
  PROVE  LET n == ArgCount(caller, Signature(msg))
         IN /\ n \in 0 .. Len(Signature(msg))
            /\ caller # "marshal" \/ msg.since = 1 => n = Len(msg.args)
<1> DEFINE sg == Signature(msg)
           len == Len(msg.args)
           letters == {k \in DOMAIN sg : sg[k].type \in Letters}
<1>1. /\ sg \in Seq(Items) /\ Len(sg) \in Nat /\ DOMAIN sg = 1 .. Len(sg)
  BY SignatureItems
<1>2. /\ len \in Nat /\ DOMAIN msg.args = 1 .. len
      /\ \A k \in 1 .. len : msg.args[k].type \in Letters
  BY ArgListIsSeq, ArgsAreItems
<1>3. CASE caller = "marshal"
  <2>1. ArgCount(caller, sg) = Len(sg)
    BY <1>3 DEF ArgCount
  <2>2. msg.since = 1 => Len(sg) = len
    BY SignatureItems
  <2> QED
    BY <1>1, <1>3, <2>1, <2>2
<1>4. CASE caller # "marshal" /\ msg.since = 1
  <2>1. sg = msg.args
    BY <1>4, SignatureItems
  <2>2. letters = 1 .. len
    BY <1>2, <2>1
  <2>3. Cardinality(1 .. len) = len
    BY <1>2, FS_Interval
  <2>4. ArgCount(caller, sg) = len
    BY <1>4, <2>2, <2>3 DEF ArgCount
  <2> QED
    BY <1>2, <2>1, <2>4
<1>5. CASE caller # "marshal" /\ msg.since # 1
  <2>1. /\ Len(sg) = len + 1 /\ sg[1].type = "since"
        /\ \A k \in 1 .. len : sg[k + 1] = msg.args[k]
    BY <1>5, SignatureItems
  <2>2. letters = 2 .. len + 1
    <3>1. ASSUME NEW k \in 2 .. len + 1 PROVE sg[k].type \in Letters
      <4>1. k - 1 \in 1 .. len /\ (k - 1) + 1 = k
        BY <1>2
      <4> QED
        BY <1>2, <2>1, <4>1
    <3>2. "since" \notin Letters
      BY DEF Letters
    <3>3. \A k \in 1 .. len + 1 : k = 1 \/ k \in 2 .. len + 1
      BY <1>2
    <3>4. \A k \in 2 .. len + 1 : k \in 1 .. len + 1 /\ k # 1
      BY <1>2
    <3> QED
      BY <1>1, <2>1, <3>1, <3>2, <3>3, <3>4
  <2>3. Cardinality(2 .. len + 1) = len
    <3> DEFINE b == len + 1
    <3>1. 2 \in Int /\ b \in Int
      BY <1>2
    <3>2. (IF 2 > b THEN 0 ELSE b - 2 + 1) = len
      BY <1>2
    <3> HIDE DEF b
    <3>3. Cardinality(2 .. b) = len
      BY <3>1, <3>2, FS_Interval
    <3> QED
      BY <3>3 DEF b
  <2>4. ArgCount(caller, sg) = len
    BY <1>5, <2>2, <2>3 DEF ArgCount
  <2> QED
    BY <1>2, <2>1, <2>4
<1> QED
  BY <1>3, <1>4, <1>5

-----------------------------------------------------------------------------
(* The facts about a call that the inductive invariant holds. *)

\* What the types say of the call under way.
LEMMA CallFacts ==
  ASSUME Typed
  PROVE  /\ call.msg \in Messages /\ call.caller \in AllCallers
         /\ DOMAIN sig = 1 .. Len(sig) /\ Len(sig) \in Nat
         /\ count \in 0 .. Len(sig)
         /\ \A k \in 1 .. Len(sig) : sig[k] \in Items
         /\ DOMAIN call.msg.args = 1 .. Len(call.msg.args)
         /\ call.msg.since = 1 => sig = call.msg.args
         /\ call.msg.since = 1 \/ ~Outgoing => count = Len(call.msg.args)
         /\ call.msg.since # 1 => sig[1].type = "since"
<1>1. call.msg \in Messages /\ call.caller \in AllCallers
  BY DEF Typed, Calls
<1>2. /\ sig \in Seq(Items)
      /\ call.msg.since = 1 => sig = call.msg.args
      /\ call.msg.since # 1 => sig[1].type = "since"
  BY <1>1, SignatureItems DEF sig
<1>3. /\ count \in 0 .. Len(sig)
      /\ call.caller # "marshal" \/ call.msg.since = 1 => count = Len(call.msg.args)
  BY <1>1, CountIsExact DEF count, sig
<1>4. ~Outgoing => call.caller # "marshal"
  BY DEF Outgoing
<1>5. DOMAIN call.msg.args = 1 .. Len(call.msg.args)
  BY <1>1, ArgListIsSeq
<1>6. /\ DOMAIN sig = 1 .. Len(sig) /\ Len(sig) \in Nat
      /\ \A k \in 1 .. Len(sig) : sig[k] \in Items
  BY <1>2, LenProperties, ElementOfSeq
<1> QED
  BY <1>1, <1>2, <1>3, <1>4, <1>5, <1>6

\* The call itself never changes.
LEMMA CallIsFixed ==
  ASSUME call' = call
  PROVE  /\ sig' = sig /\ count' = count
         /\ Outgoing' = Outgoing /\ TooNew' = TooNew
         /\ \A n : Freed(n)' = Freed(n)
         /\ \A n : Referred(n)' = Referred(n)
<1>1. sig' = sig
  BY DEF sig
<1> QED
  BY <1>1 DEF count, Outgoing, TooNew, Freed, Referred

\* The items converted so far that need a reference are finitely many, and one
\* more when the next does.
LEMMA OneMoreReferred ==
  ASSUME NEW n \in Nat
  PROVE  /\ Cardinality(Referred(n)) \in Nat
         /\ Cardinality(Referred(n + 1)) \in Nat
         /\ Cardinality(Referred(n)) <= Cardinality(Referred(n + 1))
         /\ sig[n + 1].type \in RefLetters(call.caller) =>
              Cardinality(Referred(n + 1)) = Cardinality(Referred(n)) + 1
<1>1. /\ IsFiniteSet(1 .. n) /\ IsFiniteSet(1 .. n + 1)
  <2>1. n \in Int /\ n + 1 \in Int /\ 1 \in Int
    OBVIOUS
  <2> QED
    BY <2>1, FS_Interval
<1>2. /\ Referred(n) \subseteq 1 .. n /\ Referred(n + 1) \subseteq 1 .. n + 1
      /\ Referred(n) \subseteq Referred(n + 1)
  BY DEF Referred
<1>3. IsFiniteSet(Referred(n)) /\ IsFiniteSet(Referred(n + 1))
  BY <1>1, <1>2, FS_Subset
<1>4. /\ Cardinality(Referred(n)) \in Nat
      /\ Cardinality(Referred(n + 1)) \in Nat
      /\ Cardinality(Referred(n)) <= Cardinality(Referred(n + 1))
  BY <1>2, <1>3, FS_Subset, FS_CardinalityType
<1>5. ASSUME sig[n + 1].type \in RefLetters(call.caller)
      PROVE  Cardinality(Referred(n + 1)) = Cardinality(Referred(n)) + 1
  <2>1. Referred(n + 1) = Referred(n) \cup {n + 1}
    BY <1>5 DEF Referred
  <2>2. n + 1 \notin Referred(n)
    BY DEF Referred
  <2> QED
    BY <1>3, <2>1, <2>2, FS_AddElement
<1> QED
  BY <1>4, <1>5

\* Nothing is under way at first.
LEMMA InitIInv == Init => IInv
<1> SUFFICES ASSUME Init PROVE IInv
  OBVIOUS
<1>1. /\ call \in Calls
      /\ call.null \subseteq {k \in DOMAIN call.msg.args : call.msg.args[k].type \in {"s", "o"}}
      /\ pc = "start" /\ i = 0 /\ args = << >> /\ owned = {} /\ refs = 0
      /\ pending = FALSE /\ block = FALSE /\ outcome = "none"
  BY DEF Init, Calls
<1>2. call.msg \in Messages /\ call.caller \in AllCallers
  BY <1>1 DEF Calls
<1>3. count \in 0 .. Len(sig) /\ Len(sig) \in Nat
  BY <1>2, CountIsExact, SignatureItems, LenProperties DEF count, sig
<1>4. Typed
  <2>1. i \in 0 .. count
    BY <1>1, <1>3
  <2>2. refs \in Nat /\ block \in BOOLEAN /\ pending \in BOOLEAN
    BY <1>1
  <2> QED
    BY <1>1, <2>1, <2>2 DEF Typed
<1>5. Cardinality(Referred(0)) \in Nat
  BY OneMoreReferred
<1>6. Stages /\ Owned /\ Converts /\ Legal /\ Refs /\ Newer
  BY <1>1, <1>5 DEF Stages, Owned, Converts, Legal, Refs, Newer
<1> QED
  BY <1>4, <1>6 DEF IInv

\* Every step keeps the invariant.
LEMMA StepIInv == IInv /\ [Next]_vars => IInv'
<1> SUFFICES ASSUME IInv, [Next]_vars PROVE IInv'
  OBVIOUS
<1> USE DEF IInv
<1>1. call' = call
  BY DEF Next, vars, Start, StartFails, ConvertOut, ConvertOutFails, Undo, Converted,
     Posted, StartIn, StartInFails, ConvertInCrashes, ConvertIn, ConvertInFails, Call, Return
<1> DEFINE len == Len(call.msg.args)
<1>2. /\ DOMAIN sig = 1 .. Len(sig) /\ Len(sig) \in Nat /\ count \in 0 .. Len(sig)
      /\ \A k \in 1 .. Len(sig) : sig[k] \in Items
      /\ call.msg.since = 1 => sig = call.msg.args
      /\ call.msg.since = 1 \/ ~Outgoing => count = len
      /\ call.msg.since # 1 => sig[1].type = "since"
      /\ DOMAIN call.msg.args = 1 .. len
  BY CallFacts
<1>3. /\ sig' = sig /\ count' = count /\ Outgoing' = Outgoing /\ TooNew' = TooNew
      /\ \A n : Freed(n)' = Freed(n)
      /\ \A n : Referred(n)' = Referred(n)
  BY <1>1, CallIsFixed
<1>4. i \in Nat /\ count \in Nat /\ i <= count
  BY <1>2 DEF Typed
<1>5. /\ Cardinality(Referred(i)) \in Nat
      /\ Cardinality(Referred(i + 1)) \in Nat
      /\ Cardinality(Referred(i)) <= Cardinality(Referred(i + 1))
      /\ sig[i + 1].type \in RefLetters(call.caller) =>
           Cardinality(Referred(i + 1)) = Cardinality(Referred(i)) + 1
  BY <1>4, OneMoreReferred
<1>6. /\ Freed(0) = {} /\ Freed(i) \subseteq Freed(i + 1)
      /\ sig[i + 1].type \in {"s", "a"} => i + 1 \in Freed(i + 1)
  BY <1>4 DEF Freed
<1>7. ASSUME Converting
      PROVE  /\ i + 1 \in 1 .. count /\ i + 1 \in 1 .. Len(sig)
             /\ Type \in Letters \cup {"since"}
             /\ call.msg.since = 1 => Type = call.msg.args[i + 1].type /\ Type \in Letters
             /\ args \in [1 .. count -> Kinds]
  <2>1. i + 1 \in 1 .. count /\ i + 1 \in 1 .. Len(sig)
    BY <1>2, <1>4, <1>7 DEF Converting
  <2>2. Type \in Letters \cup {"since"}
    BY <1>2, <2>1 DEF Type, Items
  <2>3. call.msg.since = 1 => Type = call.msg.args[i + 1].type
    BY <1>2 DEF Type
  <2>4. call.msg.since = 1 => Type \in Letters
    <3>1. call.msg \in Messages
      BY DEF Typed, Calls
    <3> QED
      BY <1>2, <2>1, <2>3, <3>1, ArgListIsSeq, ArgsAreItems
  <2> QED
    BY <1>7, <2>1, <2>2, <2>3, <2>4 DEF Stages, Converting
<1>8. CASE Start
  <2> DEFINE slots == [k \in 1 .. count |-> "unset"]
  <2>1. slots \in [1 .. count -> Kinds]
    BY DEF Kinds
  <2> HIDE DEF slots
  <2>2. /\ pc = "start" /\ Outgoing /\ pending' = TooNew /\ block' = TRUE /\ args' = slots
        /\ pc' = "convert" /\ i' = i /\ owned' = owned /\ refs' = refs /\ outcome' = outcome
    BY <1>8 DEF Start, slots
  <2>3. Typed'
    BY <1>1, <1>2, <1>3, <2>1, <2>2 DEF Typed, TooNew
  <2>4. Stages' /\ Owned' /\ Converts' /\ Legal' /\ Newer'
    BY <1>1, <1>3, <1>4, <2>1, <2>2 DEF Typed, Stages, Owned, Converts, Legal, Newer
  <2>5. Refs'
    BY <1>1, <1>3, <1>5, <2>2 DEF Refs
  <2> QED
    BY <2>3, <2>4, <2>5
<1>9. CASE StartFails
  <2>1. Typed'
    BY <1>1, <1>3, <1>9 DEF Typed, StartFails
  <2>2. Stages' /\ Owned' /\ Converts' /\ Legal' /\ Newer'
    BY <1>1, <1>3, <1>9 DEF Typed, Stages, Owned, Converts, Legal, Newer, StartFails
  <2>3. Refs'
    BY <1>1, <1>3, <1>9 DEF Refs, StartFails
  <2> QED
    BY <2>1, <2>2, <2>3
<1>10. CASE ConvertOut
  <2> DEFINE null == i + 1 \in call.null /\ Type \in {"s", "o"}
             kind == IF null THEN "null" ELSE Type
  <2>1. /\ Converting /\ Outgoing /\ ~pending
        /\ args' = IF Type = "since" THEN args ELSE [args EXCEPT ![i + 1] = kind]
        /\ owned' = IF Type = "a" \/ (Type = "s" /\ ~null) THEN owned \cup {i + 1} ELSE owned
        /\ i' = i + 1 /\ pc' = pc /\ block' = block /\ refs' = refs /\ pending' = pending
        /\ outcome' = outcome
    BY <1>10 DEF ConvertOut
  <2>2. /\ i + 1 \in 1 .. count /\ Type \in Letters \cup {"since"}
        /\ call.msg.since = 1 => Type = call.msg.args[i + 1].type /\ Type \in Letters
        /\ args \in [1 .. count -> Kinds]
    BY <1>7, <2>1
  <2>3. args' \in [1 .. count -> Kinds]
    BY <2>1, <2>2 DEF Kinds
  <2>4. Typed'
    BY <1>1, <1>3, <1>4, <2>1, <2>2, <2>3 DEF Typed
  <2>5. Stages'
    BY <1>1, <1>3, <2>1, <2>3 DEF Stages, Converting
  <2>6. Owned'
    BY <1>1, <1>3, <1>6, <2>1 DEF Owned, Type, Converting
  <2>7. Converts'
    <3> SUFFICES ASSUME call.msg.since = 1, NEW k \in 1 .. i + 1
                 PROVE  args'[k] = IF k \in call.null THEN "null" ELSE call.msg.args[k].type
      BY <1>1, <1>3, <2>1 DEF Converts
    <3>1. args' = [args EXCEPT ![i + 1] = kind]
      BY <2>1, <2>2 DEF Letters
    <3>2. CASE k = i + 1
      <4>1. i + 1 \in call.null => Type \in {"s", "o"}
        BY <2>2 DEF Typed
      <4> QED
        BY <2>2, <3>1, <3>2, <4>1
    <3>3. CASE k # i + 1
      <4>1. k \in 1 .. i /\ args'[k] = args[k]
        BY <1>4, <2>2, <3>1, <3>3
      <4> QED
        BY <2>2, <4>1 DEF Converts
    <3> QED
      BY <3>2, <3>3
  <2>8. Legal' /\ Newer'
    BY <1>1, <1>3, <2>1 DEF Legal, Newer
  <2>9. Refs'
    BY <1>1, <1>3, <1>5, <2>1 DEF Refs, Typed
  <2> QED
    BY <2>4, <2>5, <2>6, <2>7, <2>8, <2>9
<1>11. CASE ConvertOutFails
  <2>1. /\ Converting /\ Outgoing /\ pending' = TRUE /\ pc' = "undo"
        /\ i' = i /\ args' = args /\ owned' = owned /\ block' = block /\ refs' = refs
        /\ outcome' = outcome
    BY <1>11 DEF ConvertOutFails
  <2>2. Typed'
    BY <1>1, <1>3, <2>1 DEF Typed
  <2>3. Stages' /\ Owned' /\ Converts' /\ Legal' /\ Newer' /\ Refs'
    BY <1>1, <1>3, <2>1 DEF Stages, Owned, Converts, Legal, Newer, Refs, Converting
  <2> QED
    BY <2>2, <2>3
<1>12. CASE Undo
  <2>1. /\ pc = "undo" /\ owned' = owned \ Freed(i) /\ outcome' = "thrown" /\ pc' = "done"
        /\ i' = i /\ args' = args /\ block' = block /\ refs' = refs /\ pending' = pending
    BY <1>12 DEF Undo
  <2>2. Typed'
    BY <1>1, <1>3, <2>1 DEF Typed
  <2>3. owned' = {}
    BY <2>1 DEF Owned
  <2>4. Stages' /\ Owned' /\ Converts' /\ Legal' /\ Newer' /\ Refs'
    BY <1>1, <1>3, <2>1, <2>3 DEF Stages, Owned, Converts, Legal, Newer, Refs
  <2> QED
    BY <2>2, <2>4
<1>13. CASE Converted
  <2>1. /\ pc = "convert" /\ i = count /\ Outgoing
        /\ outcome' = (IF pending THEN "thrown" ELSE "sent")
        /\ pc' = (IF pending THEN "done" ELSE "post")
        /\ i' = i /\ args' = args /\ owned' = owned /\ block' = block /\ refs' = refs
        /\ pending' = pending
    BY <1>13 DEF Converted
  <2>2. Typed'
    BY <1>1, <1>3, <2>1 DEF Typed
  <2>3. pending => i = 0
    BY <2>1 DEF Stages
  <2>4. pending => owned = {}
    BY <1>6, <2>3 DEF Owned
  <2>5. Stages' /\ Newer'
    BY <1>1, <1>3, <2>1, <2>2 DEF Stages, Newer, Typed
  <2>6. Owned' /\ Converts' /\ Legal' /\ Refs'
    BY <1>1, <1>3, <2>1, <2>4 DEF Owned, Converts, Legal, Refs
  <2> QED
    BY <2>2, <2>5, <2>6
<1>14. CASE Posted
  <2>1. /\ pc = "post" /\ owned' = owned \ Freed(count) /\ block' = FALSE /\ pc' = "done"
        /\ i' = i /\ args' = args /\ refs' = refs /\ pending' = pending /\ outcome' = outcome
    BY <1>14 DEF Posted
  <2>2. Typed'
    BY <1>1, <1>3, <2>1 DEF Typed
  <2>3. owned' = {}
    BY <2>1 DEF Owned, Stages
  <2>4. Stages' /\ Owned' /\ Converts' /\ Legal' /\ Newer' /\ Refs'
    BY <1>1, <1>3, <2>1, <2>3 DEF Stages, Owned, Converts, Legal, Newer, Refs
  <2> QED
    BY <2>2, <2>4
<1>15. CASE StartIn
  <2> DEFINE slots == [k \in 1 .. count |-> "unset"]
  <2>1. slots \in [1 .. count -> Kinds]
    BY DEF Kinds
  <2> HIDE DEF slots
  <2>2. /\ pc = "start" /\ ~Outgoing /\ block' = TRUE /\ args' = slots /\ refs' = 2
        /\ pc' = "convert" /\ i' = i /\ owned' = owned /\ pending' = pending
        /\ outcome' = outcome
    BY <1>15 DEF StartIn, slots
  <2>3. ~TooNew
    BY <2>2 DEF Outgoing, TooNew
  <2>4. Typed'
    BY <1>1, <1>3, <2>1, <2>2 DEF Typed
  <2>5. Stages' /\ Owned' /\ Converts' /\ Legal' /\ Newer'
    BY <1>1, <1>3, <1>4, <2>1, <2>2, <2>3 DEF Typed, Stages, Owned, Converts, Legal, Newer
  <2>6. Refs'
    BY <1>1, <1>3, <1>5, <2>2 DEF Refs
  <2> QED
    BY <2>4, <2>5, <2>6
<1>16. CASE StartInFails
  <2>1. Typed'
    BY <1>1, <1>3, <1>16 DEF Typed, StartInFails
  <2>2. Stages' /\ Owned' /\ Converts' /\ Legal' /\ Newer'
    BY <1>1, <1>3, <1>16 DEF Stages, Owned, Converts, Legal, Newer, StartInFails
  <2>3. Refs'
    BY <1>1, <1>3, <1>16 DEF Refs, StartInFails
  <2> QED
    BY <2>1, <2>2, <2>3
<1>17. CASE ConvertIn
  <2> DEFINE null == i + 1 \in call.null /\ Type \in {"s", "o"}
             kind == IF null THEN "null" ELSE Type
  <2>1. /\ Converting /\ ~Outgoing /\ ~Illegal
        /\ args' = [args EXCEPT ![i + 1] = kind]
        /\ refs' = IF Type \in ObjectLetters /\ ~null THEN refs + 1 ELSE refs
        /\ i' = i + 1 /\ pc' = pc /\ owned' = owned /\ block' = block /\ pending' = pending
        /\ outcome' = outcome
    BY <1>17 DEF ConvertIn
  <2>2. /\ i + 1 \in 1 .. count /\ Type \in Letters \cup {"since"}
        /\ call.msg.since = 1 => Type = call.msg.args[i + 1].type /\ Type \in Letters
        /\ args \in [1 .. count -> Kinds]
    BY <1>7, <2>1
  <2>3. call.msg.since = 1
    <3> SUFFICES ASSUME call.msg.since # 1 PROVE FALSE
      OBVIOUS
    <3>1. i = 0
      BY <2>1 DEF Legal
    <3>2. Type = "since"
      BY <1>2, <3>1 DEF Type
    <3> QED
      BY <2>1, <3>2 DEF Illegal
  <2>4. args' \in [1 .. count -> Kinds]
    BY <2>1, <2>2, <2>3 DEF Kinds
  <2>5. Typed'
    BY <1>1, <1>3, <1>4, <2>1, <2>2, <2>4 DEF Typed
  <2>6. Stages'
    BY <1>1, <1>3, <2>1, <2>4 DEF Stages, Converting, Typed, TooNew, Outgoing
  <2>7. Owned' /\ Newer'
    BY <1>1, <1>3, <2>1 DEF Owned, Newer
  <2>8. i + 1 \in call.null => Type \in {"s", "o"}
    BY <2>2, <2>3 DEF Typed
  <2>9. Converts'
    <3> SUFFICES ASSUME NEW k \in 1 .. i + 1
                 PROVE  args'[k] = IF k \in call.null THEN "null" ELSE call.msg.args[k].type
      BY <1>1, <1>3, <2>1 DEF Converts
    <3>1. CASE k = i + 1
      BY <2>1, <2>2, <2>3, <2>8, <3>1
    <3>2. CASE k # i + 1
      <4>1. k \in 1 .. i /\ args'[k] = args[k]
        BY <1>4, <2>1, <2>2, <3>2
      <4> QED
        BY <2>2, <2>3, <4>1 DEF Converts
    <3> QED
      BY <3>1, <3>2
  <2>10. Legal'
    <3> SUFFICES ASSUME NEW k \in 1 .. i + 1, k \in call.null
                 PROVE  call.msg.args[k].nullable
      BY <1>1, <1>3, <2>1, <2>3 DEF Legal
    <3>1. CASE k = i + 1
      BY <1>2, <2>1, <2>3, <2>8, <3>1 DEF Illegal
    <3>2. CASE k # i + 1
      <4>1. k \in 1 .. i
        BY <1>4, <3>2
      <4> QED
        BY <2>1, <2>3, <4>1 DEF Legal
    <3> QED
      BY <3>1, <3>2
  <2>11. Refs'
    <3>1. Type \in ObjectLetters => sig[i + 1].type \in RefLetters(call.caller)
      BY DEF Type, ObjectLetters, RefLetters
    <3> QED
      BY <1>1, <1>3, <1>5, <2>1, <3>1 DEF Refs, Typed
  <2> QED
    BY <2>5, <2>6, <2>7, <2>9, <2>10, <2>11
<1>18. CASE ConvertInCrashes
  <2>1. /\ Converting /\ ~Outgoing /\ outcome' = "crashed" /\ pc' = "done"
        /\ i' = i /\ args' = args /\ owned' = owned /\ block' = block /\ refs' = refs
        /\ pending' = pending
    BY <1>18 DEF ConvertInCrashes
  <2>2. Typed'
    BY <1>1, <1>3, <2>1 DEF Typed
  <2>3. Stages' /\ Owned' /\ Converts' /\ Legal' /\ Newer' /\ Refs'
    BY <1>1, <1>3, <2>1 DEF Stages, Owned, Converts, Legal, Newer, Refs
  <2> QED
    BY <2>2, <2>3
<1>19. CASE ConvertInFails
  <2>1. /\ Converting /\ ~Outgoing /\ pending' = TRUE /\ block' = FALSE /\ refs' = 0
        /\ outcome' = "thrown" /\ pc' = "done" /\ i' = i /\ args' = args /\ owned' = owned
    BY <1>19 DEF ConvertInFails
  <2>2. Typed'
    BY <1>1, <1>3, <2>1 DEF Typed
  <2>3. Stages' /\ Owned' /\ Converts' /\ Legal' /\ Newer'
    BY <1>1, <1>3, <2>1 DEF Stages, Owned, Converts, Legal, Newer
  <2>4. Refs'
    BY <1>1, <1>3, <1>5, <2>1 DEF Refs
  <2> QED
    BY <2>2, <2>3, <2>4
<1>20. CASE Call
  <2>1. /\ pc = "convert" /\ i = count /\ ~Outgoing /\ outcome' = "called" /\ pc' = "call"
        /\ i' = i /\ args' = args /\ owned' = owned /\ block' = block /\ refs' = refs
        /\ pending' = pending
    BY <1>20 DEF Call
  <2>2. Typed'
    BY <1>1, <1>3, <2>1 DEF Typed
  <2>3. Stages' /\ Owned' /\ Converts' /\ Legal' /\ Newer' /\ Refs'
    BY <1>1, <1>3, <2>1 DEF Stages, Owned, Converts, Legal, Newer, Refs
  <2> QED
    BY <2>2, <2>3
<1>21. CASE Return
  <2>1. /\ pc = "call" /\ block' = FALSE /\ refs' = 0 /\ pc' = "done"
        /\ i' = i /\ args' = args /\ owned' = owned /\ pending' = pending
        /\ outcome' = outcome
    BY <1>21 DEF Return
  <2>2. Typed'
    BY <1>1, <1>3, <2>1 DEF Typed
  <2>3. Stages' /\ Owned' /\ Converts' /\ Legal' /\ Newer'
    BY <1>1, <1>3, <2>1 DEF Stages, Owned, Converts, Legal, Newer
  <2>4. Refs'
    BY <1>1, <1>3, <1>5, <2>1 DEF Refs
  <2> QED
    BY <2>2, <2>3, <2>4
<1>22. CASE UNCHANGED vars
  <2>1. Typed'
    BY <1>1, <1>3, <1>22 DEF Typed, vars
  <2>2. Stages' /\ Owned' /\ Converts' /\ Legal' /\ Newer' /\ Refs'
    BY <1>1, <1>3, <1>22 DEF Stages, Owned, Converts, Legal, Newer, Refs, vars
  <2> QED
    BY <2>1, <2>2
<1> QED
  BY <1>8, <1>9, <1>10, <1>11, <1>12, <1>13, <1>14, <1>15, <1>16, <1>17, <1>18, <1>19,
     <1>20, <1>21, <1>22 DEF Next

-----------------------------------------------------------------------------
(* What follows from it. *)

\* The parts of the invariant give the types.
LEMMA IInvTypeOK == IInv => TypeOK
<1> SUFFICES ASSUME IInv PROVE TypeOK
  OBVIOUS
<1> USE DEF IInv
<1>1. count \in 0 .. Len(sig) /\ Len(sig) \in Nat
  BY CallFacts
<1>2. i \in 0 .. count /\ i \in Nat /\ i \in 0 .. Len(sig)
  BY <1>1 DEF Typed
<1>3. args \in Seq(Kinds) /\ (args \in [1 .. count -> Kinds] => DOMAIN args = 1 .. count)
  <2>1. CASE args = << >>
    <3>1. DOMAIN args = 1 .. 0
      BY <2>1
    <3> QED
      BY <2>1, <3>1
  <2>2. CASE args \in [1 .. count -> Kinds]
    BY <1>1, <2>2
  <2> QED
    BY <2>1, <2>2 DEF Typed
<1>4. owned \subseteq DOMAIN args
  <2>1. CASE pc \in {"start", "done"}
    BY <2>1 DEF Owned
  <2>2. CASE pc \notin {"start", "done"}
    <3>1. DOMAIN args = 1 .. count
      BY <1>3, <2>2 DEF Typed, Stages
    <3>2. Freed(i) \subseteq 1 .. count
      BY <1>1, <1>2 DEF Freed
    <3> QED
      BY <3>1, <3>2 DEF Owned
  <2> QED
    BY <2>1, <2>2
<1>5. refs \in 0 .. Len(sig) + 2
  <2>1. IsFiniteSet(1 .. i) /\ Cardinality(1 .. i) = i
    BY <1>2, FS_Interval
  <2>2. Referred(i) \subseteq 1 .. i
    BY DEF Referred
  <2>3. Cardinality(Referred(i)) \in Nat /\ Cardinality(Referred(i)) <= i
    BY <1>2, <2>1, <2>2, FS_Subset, OneMoreReferred
  <2> QED
    BY <1>1, <1>2, <2>3 DEF Typed, Refs
<1> QED
  BY <1>2, <1>3, <1>4, <1>5 DEF TypeOK, Typed, Calls, Kinds

\* A list converted to its end is the message, if that is of the first version.
LEMMA EndIsComplete ==
  ASSUME IInv, i = count, args \in [1 .. count -> Kinds],
         call.msg.since = 1 \/ (~Outgoing /\ count = 0)
  PROVE  Complete
<1>1. count = Len(call.msg.args) /\ count \in Nat
  BY CallFacts DEF IInv
<1>2. Len(args) = count /\ DOMAIN args = 1 .. count
  BY <1>1
<1>3. \A k \in 1 .. count :
        args[k] = IF k \in call.null THEN "null" ELSE call.msg.args[k].type
  BY <1>1 DEF IInv, Converts
<1> QED
  BY <1>1, <1>2, <1>3 DEF Complete

\* A message of the first version goes out with all its arguments.
LEMMA IInvFirstVersionIsComplete == IInv => FirstVersionIsComplete
BY EndIsComplete DEF IInv, Stages, FirstVersionIsComplete, SentIsComplete

\* A handler is called with all the arguments, null where the protocol allows it.
LEMMA IInvCalledIsLegal == IInv => CalledIsLegal
<1> SUFFICES ASSUME IInv, outcome = "called" PROVE CalledIsLegal
  BY DEF CalledIsLegal
<1>1. i = count /\ args \in [1 .. count -> Kinds] /\ ~Outgoing
  BY DEF IInv, Stages
<1>2. count = Len(call.msg.args) /\ count \in Nat /\ DOMAIN call.msg.args = 1 .. count
  BY <1>1, CallFacts DEF IInv
<1>3. call.msg.since # 1 => count = 0
  BY <1>1 DEF IInv, Legal
<1>4. Complete
  BY <1>1, <1>3, EndIsComplete
<1>5. ASSUME NEW k \in call.null PROVE call.msg.args[k].nullable
  <2>1. k \in 1 .. count
    BY <1>2, <1>5 DEF IInv, Typed
  <2>2. call.msg.since = 1
    BY <1>3, <2>1
  <2> QED
    BY <1>1, <1>5, <2>1, <2>2 DEF IInv, Legal
<1> QED
  BY <1>4, <1>5 DEF CalledIsLegal

\* The references taken are those of converted arguments, for which there is room.
LEMMA IInvRefsFit == IInv => RefsFit
<1> SUFFICES ASSUME IInv PROVE refs <= Room(call.caller, sig)
  BY DEF RefsFit
<1> DEFINE All == {k \in DOMAIN sig : sig[k].type \in RefLetters(call.caller)}
<1>1. /\ count \in 0 .. Len(sig) /\ Len(sig) \in Nat /\ DOMAIN sig = 1 .. Len(sig)
      /\ i \in 0 .. count
  BY CallFacts DEF IInv, Typed
<1>2. Referred(i) \subseteq All
  BY <1>1 DEF Referred
<1>3. IsFiniteSet(1 .. Len(sig))
  BY <1>1, FS_Interval
<1>4. All \subseteq 1 .. Len(sig)
  BY <1>1
<1>5. IsFiniteSet(All)
  BY <1>3, <1>4, FS_Subset
<1>6. /\ Cardinality(All) \in Nat /\ Cardinality(Referred(i)) \in Nat
      /\ Cardinality(Referred(i)) <= Cardinality(All)
  BY <1>2, <1>5, FS_Subset, FS_CardinalityType
<1>7. Room(call.caller, sig) = Cardinality(All) + 2
  BY DEF Room
<1>8. refs \in Nat /\ refs <= Cardinality(Referred(i)) + 2
  BY DEF IInv, Typed, Refs
<1> HIDE DEF All
<1> QED
  BY <1>6, <1>7, <1>8

\* The k-th position from a on.
LEMMA NthOfInterval ==
  ASSUME NEW a \in Nat, NEW b \in Nat, NEW k \in 1 .. b - a + 1
  PROVE  Nth(a .. b, k) = a + k - 1
<1> DEFINE upto(p) == {q \in a .. b : q <= p}
<1>1. ASSUME NEW p \in a .. b PROVE Cardinality(upto(p)) = p - a + 1
  <2>1. upto(p) = a .. p
    OBVIOUS
  <2>2. Cardinality(a .. p) = IF a > p THEN 0 ELSE p - a + 1
    BY FS_Interval
  <2>3. Cardinality(a .. p) = p - a + 1
    BY <2>2
  <2> QED
    BY <2>1, <2>3
<1>2. a + k - 1 \in a .. b
  OBVIOUS
<1>3. \A p \in a .. b : Cardinality(upto(p)) = k <=> p = a + k - 1
  <2>1. \A p \in a .. b : p - a + 1 = k <=> p = a + k - 1
    OBVIOUS
  <2> QED
    BY <1>1, <2>1
<1>4. Nth(a .. b, k) = CHOOSE p \in a .. b : Cardinality(upto(p)) = k
  BY DEF Nth
<1> HIDE DEF upto
<1> QED
  BY <1>2, <1>3, <1>4

\* The types a dispatcher looks the handler up with are those of the arguments,
\* one by one, the version left out.
LEMMA FoundTypes ==
  ASSUME NEW msg \in Messages, \A k \in DOMAIN msg.args : msg.args[k].type # "a"
  PROVE  MethodTypes("dispatchRequest", msg) = RequestTypes(msg)
<1> DEFINE sg == Signature(msg)
           len == Len(msg.args)
           a == IF msg.since = 1 THEN 1 ELSE 2
           letter(k) == sg[Nth(Known(sg), k)].type
<1>1. /\ len \in Nat /\ DOMAIN msg.args = 1 .. len
      /\ \A k \in 1 .. len : msg.args[k].type \in Letters \ {"a"}
  BY ArgListIsSeq, ArgsAreItems
<1>2. /\ DOMAIN sg = 1 .. Len(sg)
      /\ Len(sg) = len + a - 1
      /\ \A k \in 1 .. len : sg[k + a - 1] = msg.args[k]
      /\ a = 2 => sg[1].type = "since"
  <2>1. DOMAIN sg = 1 .. Len(sg)
    BY SignatureItems, LenProperties
  <2>2. CASE msg.since = 1
    <3>1. sg = msg.args
      BY <2>2, SignatureItems
    <3>2. \A k \in 1 .. len : k + 1 - 1 = k
      BY <1>1
    <3> QED
      BY <1>1, <2>1, <2>2, <3>1, <3>2
  <2>3. CASE msg.since # 1
    <3>1. \A k \in 1 .. len : k + 2 - 1 = k + 1
      BY <1>1
    <3> QED
      BY <1>1, <2>1, <2>3, <3>1, SignatureItems
  <2> QED
    BY <2>2, <2>3
<1> DEFINE known == Known(sg)
<1>0. \A k : k \in known <=> k \in DOMAIN sg /\ sg[k].type \in Letters \ {"a"}
  BY DEF Known
<1>9. a \in {1, 2}
  OBVIOUS
<1> HIDE DEF sg, len, a, known
<1>3. known = a .. len + a - 1
  <2>1. ASSUME NEW k \in a .. len + a - 1 PROVE k \in known
    <3>1. k - a + 1 \in 1 .. len /\ (k - a + 1) + a - 1 = k /\ k \in 1 .. Len(sg)
      BY <1>1, <1>2, <1>9
    <3>2. sg[k] = msg.args[k - a + 1]
      BY <1>2, <3>1
    <3> QED
      BY <1>0, <1>1, <1>2, <3>1, <3>2
  <2>2. ASSUME NEW k \in known PROVE k \in a .. len + a - 1
    <3>1. k \in 1 .. len + a - 1 /\ sg[k].type # "since"
      BY <1>0, <1>2, <2>2 DEF Letters
    <3>2. a = 2 => k # 1
      BY <1>2, <3>1
    <3> QED
      BY <1>1, <1>9, <3>1, <3>2
  <2> QED
    BY <2>1, <2>2
<1>4. Cardinality(known) = len
  <2> DEFINE b == len + a - 1
  <2>1. a \in Int /\ b \in Int /\ known = a .. b
    BY <1>1, <1>3, <1>9
  <2>2. (IF a > b THEN 0 ELSE b - a + 1) = len
    BY <1>1, <1>9
  <2> HIDE DEF b
  <2> QED
    BY <2>1, <2>2, FS_Interval
<1>5. ASSUME NEW k \in 1 .. len PROVE letter(k) = msg.args[k].type
  <2>1. a \in Nat /\ len + a - 1 \in Nat /\ (len + a - 1) - a + 1 = len
    BY <1>1, <1>9
  <2>2. Nth(a .. len + a - 1, k) = a + k - 1
    BY <2>1, NthOfInterval
  <2>3. a + k - 1 = k + a - 1
    BY <1>1, <2>1
  <2> QED
    BY <1>2, <1>3, <2>2, <2>3 DEF known
<1>6. DOMAIN MethodTypes("dispatchRequest", msg) = DOMAIN RequestTypes(msg)
  BY <1>1, <1>4 DEF MethodTypes, RequestTypes, known, sg
<1>7. ASSUME NEW k \in 1 .. len
      PROVE  MethodTypes("dispatchRequest", msg)[k] = RequestTypes(msg)[k]
  <2>1. MethodTypes("dispatchRequest", msg)[k] =
          CASE letter(k) = "i" -> "int"
            [] letter(k) = "f" -> "Fixed"
            [] letter(k) = "s" -> "String"
            [] letter(k) = "o" -> "Resource"
            [] letter(k) = "n" -> "int"
    BY <1>4 DEF MethodTypes, NewIdType, known, sg
  <2>2. RequestTypes(msg)[k] =
          CASE msg.args[k].type \in {"i", "n"} -> "int"
            [] msg.args[k].type = "f" -> "Fixed"
            [] msg.args[k].type = "s" -> "String"
            [] msg.args[k].type = "o" -> "Resource"
            [] msg.args[k].type = "a" -> "ByteBuffer"
    BY <1>1 DEF RequestTypes
  <2> QED
    BY <1>1, <1>5, <2>1, <2>2 DEF Letters
<1>8. MethodTypes("dispatchRequest", msg) =
        [k \in 1 .. len |-> MethodTypes("dispatchRequest", msg)[k]]
  <2> DEFINE type(k) ==
          CASE letter(k) = "i" -> "int"
            [] letter(k) = "f" -> "Fixed"
            [] letter(k) = "s" -> "String"
            [] letter(k) = "o" ->
                 IF "dispatchRequest" = "dispatchEvent" THEN "Proxy" ELSE "Resource"
            [] letter(k) = "n" -> NewIdType("dispatchRequest")
  <2>1. MethodTypes("dispatchRequest", msg) = [k \in 1 .. len |-> type(k)]
    BY <1>4 DEF MethodTypes, known, sg
  <2> HIDE DEF type
  <2> QED
    BY <2>1
<1>10. RequestTypes(msg) = [k \in 1 .. len |-> RequestTypes(msg)[k]]
  <2> DEFINE type(k) ==
          CASE msg.args[k].type \in {"i", "n"} -> "int"
            [] msg.args[k].type = "f" -> "Fixed"
            [] msg.args[k].type = "s" -> "String"
            [] msg.args[k].type = "o" -> "Resource"
            [] msg.args[k].type = "a" -> "ByteBuffer"
  <2>1. RequestTypes(msg) = [k \in 1 .. len |-> type(k)]
    BY <1>1 DEF RequestTypes
  <2> HIDE DEF type
  <2> QED
    BY <2>1
<1> QED
  BY <1>7, <1>8, <1>10

\* The types looked up are those the scanner wrote, arrays aside.
LEMMA IInvHandlerIsFound == IInv => HandlerIsFound
BY FoundTypes DEF IInv, Typed, Calls, HandlerIsFound

-----------------------------------------------------------------------------
(* The theorems. *)

\* The invariant holds of every call that object.c, resource.c and proxy.c make.
THEOREM Inductive == Spec => []IInv
BY InitIInv, StepIInv, PTL DEF Spec

\* Whatever the message, the conversions write the slots the caller counted, and
\* only those.
THEOREM TypesAreRight == Spec => []TypeOK
BY Inductive, IInvTypeOK, PTL

\* A message of the first version of an interface is sent whole, by postEvent and
\* by marshal, whatever its arguments.
THEOREM FirstVersionArrives == Spec => []FirstVersionIsComplete
BY Inductive, IInvFirstVersionIsComplete, PTL

\* A handler sees the message as it was sent, and null only where the signature
\* has '?'.
THEOREM HandlersSeeLegalCalls == Spec => []CalledIsLegal
BY Inductive, IInvCalledIsLegal, PTL

\* Resource.postEvent goes on with an exception pending, and yet sends no event
\* that is newer than the resource.
THEOREM NewerStaysHome == Spec => []NewerIsNotSent
<1>1. IInv => NewerIsNotSent
  BY DEF IInv, Newer, NewerIsNotSent
<1> QED
  BY <1>1, Inductive, PTL

\* wl_jni_arguments_from_java_destroy frees what wl_jni_arguments_from_java
\* allocated, on the way out and when the conversion fails midway.
THEOREM NothingIsLeftBehind == Spec => []ElementsAreFreed
<1>1. IInv => ElementsAreFreed
  BY DEF IInv, Owned, ElementsAreFreed
<1> QED
  BY <1>1, Inductive, PTL

\* PushLocalFrame is asked for as many references as the conversion needs.
THEOREM FramesAreLargeEnough == Spec => []RefsFit
BY Inductive, IInvRefsFit, PTL

\* For every request without an array, the method that get_java_method looks up
\* has the parameters Request.writeInterfaceMethod gives it.
THEOREM HandlersAreFound == Spec => []HandlerIsFound
BY Inductive, IInvHandlerIsFound, PTL
=============================================================================
