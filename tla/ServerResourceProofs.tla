------------------------ MODULE ServerResourceProofs ------------------------
(***************************************************************************)
(* Proofs about ServerResource: for any number of clients and resources,   *)
(* and calls nested as deep as they like, references go with resources and *)
(* no freed resource is met before the application has done what it must   *)
(* not.                                                                    *)
(***************************************************************************)
EXTENDS ServerResource, SequenceTheorems, TLAPS

-----------------------------------------------------------------------------
(* The inductive invariant. *)

\* Each destruction on the stack is of a dying resource, the only one of that
\* resource, and under the sweep of its client unless Resource.destroy began it.
Destruction(i) == calls[i].kind \in {"destroy", "release"}
DyingOnStack ==
  Running =>
    /\ \A i \in DOMAIN calls : Destruction(i) =>
         /\ native[calls[i].of] = "dying"
         /\ \A j \in DOMAIN calls :
              Destruction(j) /\ calls[j].of = calls[i].of => j = i
         /\ calls[i].kind = "release" =>
              /\ i < Len(calls)
              /\ calls[i + 1] = [kind |-> "sweep", of |-> owner[calls[i].of]]
    /\ \A r \in Resources : native[r] = "dying" =>
         \E i \in DOMAIN calls : Destruction(i) /\ calls[i].of = r

\* The safety properties and what makes them inductive.
IInv == TypeOK /\ KeptWhileNative /\ DyingOnStack

-----------------------------------------------------------------------------
(* Proofs. *)

USE ResourceAssumption

\* Nothing exists at first.
LEMMA InitIInv == Init => IInv
<1> SUFFICES ASSUME Init PROVE IInv
  OBVIOUS
<1>1. calls \in Seq(Calls) /\ calls = << >>
  BY EmptySeq DEF Init
<1>2. TypeOK
  BY <1>1 DEF Init, TypeOK
<1>3. KeptWhileNative
  BY DEF Init, KeptWhileNative, Exists
<1>4. DyingOnStack
  <2>1. DOMAIN calls = {}
    BY <1>1
  <2> QED
    BY <2>1 DEF Init, DyingOnStack
<1> QED
  BY <1>2, <1>3, <1>4 DEF IInv

-----------------------------------------------------------------------------
(* The stack. *)

\* A call that is entered goes on top of the others.
LEMMA Pushed ==
  ASSUME TypeOK, NEW call \in Calls, calls' = << call >> \o calls
  PROVE  /\ calls' \in Seq(Calls)
         /\ Len(calls') = Len(calls) + 1
         /\ calls'[1] = call
         /\ \A i \in 1..Len(calls) : calls'[i + 1] = calls[i]
<1>1. << call >> \in Seq(Calls) /\ calls \in Seq(Calls)
  BY DEF TypeOK
<1> QED
  BY <1>1, ConcatProperties

\* A call that ends uncovers those below it.
LEMMA Popped ==
  ASSUME TypeOK, calls # << >>, calls' = Tail(calls)
  PROVE  /\ calls' \in Seq(Calls)
         /\ Len(calls') = Len(calls) - 1
         /\ \A i \in 1..Len(calls') : calls'[i] = calls[i + 1]
BY HeadTailProperties DEF TypeOK

\* A call that goes on in another way.
LEMMA Replaced ==
  ASSUME TypeOK, calls # << >>, NEW call \in Calls, calls' = << call >> \o Tail(calls)
  PROVE  /\ calls' \in Seq(Calls) /\ Len(calls') = Len(calls) /\ calls'[1] = call
         /\ \A i \in 2..Len(calls) : calls'[i] = calls[i]
<1>1. Tail(calls) \in Seq(Calls) /\ << call >> \in Seq(Calls)
  BY HeadTailProperties DEF TypeOK
<1> QED
  BY <1>1, ConcatProperties, HeadTailProperties DEF TypeOK

\* The call on top.
LEMMA Top ==
  ASSUME TypeOK, NEW kind, In(kind)
  PROVE  /\ calls # << >> /\ Head(calls) = calls[1] /\ calls[1].kind = kind
         /\ calls[1] \in Calls /\ 1 \in 1..Len(calls) /\ Len(calls) \in Nat
         /\ kind \in {"request", "destroy", "release"} => calls[1].of \in Resources
         /\ kind \in {"farewell", "sweep"} => calls[1].of \in Clients
<1>1. calls \in Seq(Calls) /\ calls # << >> /\ Head(calls).kind = kind
  BY DEF TypeOK, In
<1>2. Head(calls) = calls[1] /\ calls[1] \in Calls /\ 1 \in 1..Len(calls) /\ Len(calls) \in Nat
  BY <1>1
<1> QED
  BY <1>1, <1>2 DEF Calls

\* Destructions keep their order and neighbours, k places up or down the stack.
\* The dying resources other than x are the same, and x dies in the call at place
\* m only, if that is a place at all.
Shift(k, x, m) ==
  /\ calls' \in Seq(Calls) /\ owner' = owner
  /\ \A r \in Resources \ {x} : native'[r] = "dying" <=> native[r] = "dying"
  /\ m = 1 => /\ 1 \in DOMAIN calls' /\ Destruction(1)' /\ calls'[1].of = x
              /\ native'[x] = "dying"
              /\ calls'[1].kind = "release" =>
                   /\ 1 < Len(calls')
                   /\ calls'[2] = [kind |-> "sweep", of |-> owner[x]]
  /\ m = 0 => x \notin Resources \/ native'[x] # "dying"
  /\ \A i \in DOMAIN calls' : Destruction(i)' /\ ~(m = 1 /\ i = 1) =>
       /\ i + k \in DOMAIN calls /\ calls'[i] = calls[i + k] /\ calls'[i].of # x
       /\ i + k < Len(calls) => i < Len(calls') /\ calls'[i + 1] = calls[i + k + 1]
  /\ \A j \in DOMAIN calls : Destruction(j) /\ calls[j].of # x =>
       j - k \in DOMAIN calls' /\ calls'[j - k] = calls[j]

\* Destructions that are shifted stay right.
LEMMA Shifted ==
  ASSUME IInv, Running, NEW k \in {-1, 0, 1}, NEW x, NEW m \in {0, 1}, Shift(k, x, m)
  PROVE  DyingOnStack'
<1> USE DEF Shift
<1>1. DyingOnStack
  BY DEF IInv
<1>2. /\ DOMAIN calls = 1..Len(calls) /\ Len(calls) \in Nat
      /\ DOMAIN calls' = 1..Len(calls') /\ Len(calls') \in Nat
      /\ \A i \in DOMAIN calls : calls[i] \in Calls
  BY DEF IInv, TypeOK
<1>3. \A i \in DOMAIN calls : Destruction(i) => calls[i].of \in Resources
  BY <1>2, ResourceAssumption DEF Destruction, Calls
<1>4. ASSUME NEW i \in DOMAIN calls', Destruction(i)', ~(m = 1 /\ i = 1)
      PROVE  /\ native'[calls'[i].of] = "dying"
             /\ \A j \in DOMAIN calls' :
                  Destruction(j)' /\ calls'[j].of = calls'[i].of => j = i
             /\ calls'[i].kind = "release" =>
                  /\ i < Len(calls')
                  /\ calls'[i + 1] = [kind |-> "sweep", of |-> owner'[calls'[i].of]]
  <2>1. /\ i + k \in DOMAIN calls /\ calls'[i] = calls[i + k] /\ calls'[i].of # x
        /\ i + k < Len(calls) => i < Len(calls') /\ calls'[i + 1] = calls[i + k + 1]
    BY <1>4
  <2>2. Destruction(i + k) /\ calls[i + k].of \in Resources
    BY <1>3, <1>4, <2>1 DEF Destruction
  <2>3. native[calls[i + k].of] = "dying"
    BY <1>1, <2>1, <2>2 DEF DyingOnStack
  <2>4. native'[calls'[i].of] = "dying"
    BY <2>1, <2>2, <2>3
  <2>5. ASSUME NEW j \in DOMAIN calls', Destruction(j)', calls'[j].of = calls'[i].of
        PROVE  j = i
    <3>1. ~(m = 1 /\ j = 1)
      BY <2>1, <2>5
    <3>2. j + k \in DOMAIN calls /\ calls'[j] = calls[j + k]
      BY <2>5, <3>1
    <3>3. Destruction(j + k) /\ calls[j + k].of = calls[i + k].of
      BY <2>1, <2>5, <3>2 DEF Destruction
    <3>4. j + k = i + k
      BY <1>1, <2>1, <2>2, <3>2, <3>3 DEF DyingOnStack
    <3> QED
      BY <3>4, <1>2
  <2>6. ASSUME calls'[i].kind = "release"
        PROVE  /\ i < Len(calls')
               /\ calls'[i + 1] = [kind |-> "sweep", of |-> owner'[calls'[i].of]]
    <3>1. calls[i + k].kind = "release"
      BY <2>1, <2>6
    <3>2. /\ i + k < Len(calls)
          /\ calls[i + k + 1] = [kind |-> "sweep", of |-> owner[calls[i + k].of]]
      BY <1>1, <2>1, <2>2, <3>1 DEF DyingOnStack
    <3> QED
      BY <3>2, <2>1
  <2> QED
    BY <2>4, <2>5, <2>6
<1>5. ASSUME m = 1
      PROVE  /\ native'[calls'[1].of] = "dying"
             /\ \A j \in DOMAIN calls' :
                  Destruction(j)' /\ calls'[j].of = calls'[1].of => j = 1
             /\ calls'[1].kind = "release" =>
                  /\ 1 < Len(calls')
                  /\ calls'[1 + 1] = [kind |-> "sweep", of |-> owner'[calls'[1].of]]
  BY <1>5
<1>6. ASSUME NEW r \in Resources, native'[r] = "dying"
      PROVE  \E i \in DOMAIN calls' : Destruction(i)' /\ calls'[i].of = r
  <2>1. CASE r = x
    BY <1>6, <2>1
  <2>2. CASE r # x
    <3>1. PICK j \in DOMAIN calls : Destruction(j) /\ calls[j].of = r
      BY <1>1, <1>6, <2>2 DEF DyingOnStack
    <3>2. j - k \in DOMAIN calls' /\ calls'[j - k] = calls[j]
      BY <2>2, <3>1
    <3>3. Destruction(j - k)' /\ calls'[j - k].of = r
      BY <3>1, <3>2 DEF Destruction
    <3> QED
      BY <3>2, <3>3
  <2> QED
    BY <2>1, <2>2
<1>7. ASSUME NEW i \in DOMAIN calls', Destruction(i)'
      PROVE  /\ native'[calls'[i].of] = "dying"
             /\ \A j \in DOMAIN calls' :
                  Destruction(j)' /\ calls'[j].of = calls'[i].of => j = i
             /\ calls'[i].kind = "release" =>
                  /\ i < Len(calls')
                  /\ calls'[i + 1] = [kind |-> "sweep", of |-> owner'[calls'[i].of]]
  <2>1. CASE m = 1 /\ i = 1
    BY <1>5, <2>1
  <2>2. CASE ~(m = 1 /\ i = 1)
    BY <1>4, <1>7, <2>2
  <2> QED
    BY <2>1, <2>2
<1> QED
  BY <1>6, <1>7 DEF DyingOnStack

\* Entering a call that destroys no resource.
LEMMA PushHarmless ==
  ASSUME IInv, Running, NEW call \in Calls, calls' = << call >> \o calls,
         call.kind \notin {"destroy", "release"}, UNCHANGED << native, owner >>
  PROVE  DyingOnStack'
<1>1. /\ calls' \in Seq(Calls) /\ Len(calls') = Len(calls) + 1 /\ calls'[1] = call
      /\ \A i \in 1..Len(calls) : calls'[i + 1] = calls[i]
  BY Pushed DEF IInv
<1>2. DOMAIN calls = 1..Len(calls) /\ DOMAIN calls' = 1..Len(calls') /\ Len(calls) \in Nat
  BY <1>1 DEF IInv, TypeOK
<1>3. None \notin Resources
  OBVIOUS
<1>4. ~Destruction(1)'
  BY <1>1 DEF Destruction
<1>5. \A i \in DOMAIN calls : calls[i].kind \in {"destroy", "release"} => calls[i].of # None
  BY DEF IInv, TypeOK, Calls
<1>6. ASSUME NEW i \in DOMAIN calls', Destruction(i)'
      PROVE  /\ i + (-1) \in DOMAIN calls /\ calls'[i] = calls[i + (-1)]
             /\ calls'[i].of # None
             /\ i + (-1) < Len(calls) => i < Len(calls') /\ calls'[i + 1] = calls[i + (-1) + 1]
  <2>1. i - 1 \in DOMAIN calls /\ i \in Nat
    BY <1>2, <1>1, <1>4, <1>6
  <2>2. calls'[i] = calls[i - 1]
    BY <1>1, <1>2, <2>1
  <2>3. calls'[i].of # None
    BY <1>5, <1>6, <2>1, <2>2 DEF Destruction
  <2>4. i - 1 < Len(calls) => i < Len(calls') /\ calls'[i + 1] = calls[i]
    BY <1>1, <1>2, <2>1
  <2> QED
    BY <2>1, <2>2, <2>3, <2>4
<1>7. \A j \in DOMAIN calls : j - (-1) \in DOMAIN calls' /\ calls'[j - (-1)] = calls[j]
  BY <1>1, <1>2
<1>8. Shift(-1, None, 0)
  BY <1>1, <1>3, <1>6, <1>7 DEF Shift
<1> QED
  BY <1>8, Shifted

\* Leaving a call that destroys no resource.
LEMMA PopHarmless ==
  ASSUME IInv, Running, calls # << >>, calls' = Tail(calls),
         calls[1].kind \notin {"destroy", "release"}, UNCHANGED << native, owner >>
  PROVE  DyingOnStack'
<1>1. /\ calls' \in Seq(Calls) /\ Len(calls') = Len(calls) - 1
      /\ \A i \in 1..Len(calls') : calls'[i] = calls[i + 1]
  BY Popped DEF IInv
<1>2. DOMAIN calls = 1..Len(calls) /\ DOMAIN calls' = 1..Len(calls') /\ Len(calls) \in Nat \ {0}
  BY <1>1 DEF IInv, TypeOK
<1>3. \A i \in DOMAIN calls : calls[i].kind \in {"destroy", "release"} => calls[i].of # None
  BY DEF IInv, TypeOK, Calls
<1>4. ASSUME NEW i \in DOMAIN calls', Destruction(i)'
      PROVE  /\ i + 1 \in DOMAIN calls /\ calls'[i] = calls[i + 1]
             /\ calls'[i].of # None
             /\ i + 1 < Len(calls) => i < Len(calls') /\ calls'[i + 1] = calls[i + 1 + 1]
  BY <1>1, <1>2, <1>3, <1>4 DEF Destruction
<1>5. ASSUME NEW j \in DOMAIN calls, Destruction(j)
      PROVE  j - 1 \in DOMAIN calls' /\ calls'[j - 1] = calls[j]
  <2>1. j # 1
    BY <1>5 DEF Destruction
  <2> QED
    BY <2>1, <1>1, <1>2
<1>6. Shift(1, None, 0)
  BY <1>1, <1>4, <1>5 DEF Shift
<1> QED
  BY <1>6, Shifted

\* The destroy signal of a client is over and its resources are next.
LEMMA ReplaceHarmless ==
  ASSUME IInv, Running, calls # << >>, NEW call \in Calls,
         calls' \in Seq(Calls), Len(calls') = Len(calls), calls'[1] = call,
         \A i \in 2..Len(calls) : calls'[i] = calls[i],
         calls[1].kind \notin {"destroy", "release"},
         call.kind \notin {"destroy", "release"}, UNCHANGED << native, owner >>
  PROVE  DyingOnStack'
<1>3. DOMAIN calls = 1..Len(calls) /\ DOMAIN calls' = 1..Len(calls) /\ Len(calls) \in Nat \ {0}
  BY DEF IInv, TypeOK
<1>4. \A i \in DOMAIN calls : calls[i].kind \in {"destroy", "release"} => calls[i].of # None
  BY DEF IInv, TypeOK, Calls
<1>5. ASSUME NEW i \in DOMAIN calls', Destruction(i)'
      PROVE  /\ i \in DOMAIN calls /\ calls'[i] = calls[i]
             /\ calls'[i].of # None
             /\ i < Len(calls) => i < Len(calls') /\ calls'[i + 1] = calls[i + 1]
  <2>1. i # 1
    BY <1>5 DEF Destruction
  <2> QED
    BY <2>1, <1>3, <1>4, <1>5 DEF Destruction
<1>6. ASSUME NEW j \in DOMAIN calls, Destruction(j)
      PROVE  j \in DOMAIN calls' /\ calls'[j] = calls[j]
  <2>1. j # 1
    BY <1>6 DEF Destruction
  <2> QED
    BY <2>1, <1>3
<1>7. Shift(0, None, 0)
  BY <1>3, <1>5, <1>6 DEF Shift
<1> QED
  BY <1>7, Shifted

\* The destruction of a resource that lives begins.
LEMMA PushDestruction ==
  ASSUME IInv, Running, NEW x \in Resources, native[x] = "live",
         NEW call \in Calls, calls' = << call >> \o calls,
         call.kind \in {"destroy", "release"}, call.of = x,
         call.kind = "release" =>
           calls # << >> /\ calls[1] = [kind |-> "sweep", of |-> owner[x]],
         native' = [native EXCEPT ![x] = "dying"], owner' = owner
  PROVE  DyingOnStack'
<1>1. /\ calls' \in Seq(Calls) /\ Len(calls') = Len(calls) + 1 /\ calls'[1] = call
      /\ \A i \in 1..Len(calls) : calls'[i + 1] = calls[i]
  BY Pushed DEF IInv
<1>2. DOMAIN calls = 1..Len(calls) /\ DOMAIN calls' = 1..Len(calls') /\ Len(calls) \in Nat
  BY <1>1 DEF IInv, TypeOK
<1>3. /\ native'[x] = "dying"
      /\ \A r \in Resources \ {x} : native'[r] = "dying" <=> native[r] = "dying"
  BY DEF IInv, TypeOK
<1>4. \A i \in DOMAIN calls : Destruction(i) => calls[i].of # x
  BY DEF IInv, DyingOnStack
<1>5. /\ 1 \in DOMAIN calls' /\ Destruction(1)' /\ calls'[1].of = x
      /\ calls'[1].kind = "release" =>
           /\ 1 < Len(calls')
           /\ calls'[2] = [kind |-> "sweep", of |-> owner[x]]
  <2>1. calls # << >> => Len(calls) > 0 /\ calls'[1 + 1] = calls[1]
    BY <1>1, <1>2 DEF IInv, TypeOK
  <2> QED
    BY <1>1, <1>2, <2>1 DEF Destruction
<1>6. ASSUME NEW i \in DOMAIN calls', Destruction(i)', i # 1
      PROVE  /\ i + (-1) \in DOMAIN calls /\ calls'[i] = calls[i + (-1)]
             /\ calls'[i].of # x
             /\ i + (-1) < Len(calls) => i < Len(calls') /\ calls'[i + 1] = calls[i + (-1) + 1]
  <2>1. i - 1 \in DOMAIN calls /\ i \in Nat
    BY <1>1, <1>2, <1>6
  <2>2. calls'[i] = calls[i - 1]
    BY <1>1, <1>2, <2>1
  <2>3. calls'[i].of # x
    BY <1>4, <1>6, <2>1, <2>2 DEF Destruction
  <2>4. i - 1 < Len(calls) => i < Len(calls') /\ calls'[i + 1] = calls[i]
    BY <1>1, <1>2, <2>1
  <2> QED
    BY <2>1, <2>2, <2>3, <2>4
<1>7. ASSUME NEW j \in DOMAIN calls
      PROVE  j - (-1) \in DOMAIN calls' /\ calls'[j - (-1)] = calls[j]
  BY <1>1, <1>2
<1>8. Shift(-1, x, 1)
  BY <1>1, <1>3, <1>5, <1>6, <1>7 DEF Shift
<1> QED
  BY <1>8, Shifted

\* The destruction of a resource is over.
LEMMA PopDestruction ==
  ASSUME IInv, Running, calls # << >>, calls' = Tail(calls),
         calls[1].kind \in {"destroy", "release"},
         native' = [native EXCEPT ![calls[1].of] = "freed"], owner' = owner
  PROVE  DyingOnStack'
<1> DEFINE x == calls[1].of
<1>1. /\ calls' \in Seq(Calls) /\ Len(calls') = Len(calls) - 1
      /\ \A i \in 1..Len(calls') : calls'[i] = calls[i + 1]
  BY Popped DEF IInv
<1>2. DOMAIN calls = 1..Len(calls) /\ DOMAIN calls' = 1..Len(calls') /\ Len(calls) \in Nat \ {0}
  BY <1>1 DEF IInv, TypeOK
<1>3. /\ x \in Resources => native'[x] # "dying"
      /\ \A r \in Resources \ {x} : native'[r] = "dying" <=> native[r] = "dying"
  BY DEF IInv, TypeOK
<1>4. Destruction(1) /\ 1 \in DOMAIN calls
  BY <1>2 DEF Destruction
<1>5. \A i \in DOMAIN calls : Destruction(i) /\ calls[i].of = x => i = 1
  BY <1>4 DEF IInv, DyingOnStack
<1>6. ASSUME NEW i \in DOMAIN calls', Destruction(i)'
      PROVE  /\ i + 1 \in DOMAIN calls /\ calls'[i] = calls[i + 1]
             /\ calls'[i].of # x
             /\ i + 1 < Len(calls) => i < Len(calls') /\ calls'[i + 1] = calls[i + 1 + 1]
  <2>1. i + 1 \in DOMAIN calls /\ calls'[i] = calls[i + 1] /\ i \in Nat \ {0}
    BY <1>1, <1>2
  <2>2. Destruction(i + 1)
    BY <1>6, <2>1 DEF Destruction
  <2>3. calls'[i].of # x
    BY <1>5, <2>1, <2>2
  <2>4. i + 1 < Len(calls) => i < Len(calls') /\ calls'[i + 1] = calls[i + 1 + 1]
    BY <1>1, <1>2
  <2> QED
    BY <2>1, <2>3, <2>4
<1>7. ASSUME NEW j \in DOMAIN calls, Destruction(j), calls[j].of # x
      PROVE  j - 1 \in DOMAIN calls' /\ calls'[j - 1] = calls[j]
  <2>1. j # 1
    BY <1>7
  <2> QED
    BY <2>1, <1>1, <1>2
<1>8. Shift(1, x, 0)
  BY <1>1, <1>3, <1>6, <1>7 DEF Shift
<1> QED
  BY <1>8, Shifted

-----------------------------------------------------------------------------
(* The steps. *)

\* A step that leaves the stack alone and begins or ends no destruction.
LEMMA StackUnchanged ==
  ASSUME IInv, calls' = calls,
         \A r \in Resources : native'[r] = "dying" <=> native[r] = "dying",
         \A r \in Resources : native[r] = "dying" => owner'[r] = owner[r],
         fault' = "none" => fault = "none"
  PROVE  DyingOnStack'
<1> SUFFICES ASSUME fault = "none", fault' = "none" PROVE DyingOnStack'
  BY DEF DyingOnStack, Running
<1>1. DyingOnStack /\ Running
  BY DEF IInv, Running
<1>2. \A i \in DOMAIN calls : Destruction(i) => calls[i].of \in Resources
  BY DEF IInv, TypeOK, Destruction, Calls
<1>3. \A i \in DOMAIN calls : Destruction(i) =>
        native'[calls[i].of] = "dying" /\ owner'[calls[i].of] = owner[calls[i].of]
  BY <1>1, <1>2 DEF DyingOnStack
<1>4. \A i \in DOMAIN calls : Destruction(i)' <=> Destruction(i)
  BY DEF Destruction
<1> QED
  BY <1>1, <1>3, <1>4 DEF DyingOnStack, Running

\* The application constructs, uses and destroys resources and clients.
LEMMA ApplicationStep == ASSUME IInv, Application PROVE IInv'
<1>1. ASSUME NEW r \in Resources, NEW c \in Clients, Construct(r, c) PROVE IInv'
  <2>1. TypeOK'
    BY <1>1 DEF IInv, TypeOK, Construct
  <2>2. KeptWhileNative'
    BY <1>1 DEF IInv, TypeOK, KeptWhileNative, Exists, Construct
  <2>3. DyingOnStack'
    BY <1>1, StackUnchanged DEF IInv, TypeOK, Construct
  <2> QED
    BY <2>1, <2>2, <2>3 DEF IInv
<1>2. ASSUME NEW r \in Resources, NEW c \in Clients, ConstructFails(r, c) PROVE IInv'
  <2>1. TypeOK' /\ KeptWhileNative'
    BY <1>2 DEF IInv, TypeOK, KeptWhileNative, Exists, ConstructFails
  <2>2. DyingOnStack'
    BY <1>2, StackUnchanged DEF IInv, TypeOK, ConstructFails
  <2> QED
    BY <2>1, <2>2 DEF IInv
<1>3. ASSUME NEW r \in Resources,
             SetImplementation(r) \/ PostError(r) \/ UseDead(r) \/ DestroyAgain(r)
      PROVE  IInv'
  <2>1. UNCHANGED << client, owner, native, ptr, ref, calls >> /\ fault = "none"
    BY <1>3 DEF SetImplementation, PostError, UseDead, DestroyAgain, AppRuns, Running
  <2>2. TypeOK'
    BY <1>3, <2>1
       DEF IInv, TypeOK, SetImplementation, PostError, UseDead, DestroyAgain,
           Posted, Errors
  <2>3. KeptWhileNative'
    BY <2>1 DEF IInv, KeptWhileNative, Exists
  <2>4. DyingOnStack'
    BY <2>1, StackUnchanged
  <2> QED
    BY <2>2, <2>3, <2>4 DEF IInv
<1>4. ASSUME NEW r \in Resources, Destroy(r) PROVE IInv'
  <2> DEFINE call == [kind |-> "destroy", of |-> r]
  <2>1. call \in Calls /\ calls' = << call >> \o calls
    BY <1>4 DEF Calls, Destroy
  <2>2. TypeOK'
    BY <1>4, <2>1, Pushed DEF IInv, TypeOK, Destroy
  <2>3. KeptWhileNative'
    BY <1>4 DEF IInv, TypeOK, KeptWhileNative, Exists, Destroy
  <2>4. DyingOnStack'
    BY <1>4, <2>1, PushDestruction DEF Destroy, AppRuns
  <2> QED
    BY <2>2, <2>3, <2>4 DEF IInv
<1>5. ASSUME NEW c \in Clients, DestroyClient(c) PROVE IInv'
  <2> DEFINE call == [kind |-> "farewell", of |-> c]
  <2>1. call \in Calls /\ calls' = << call >> \o calls
    BY <1>5 DEF Calls, DestroyClient
  <2>2. TypeOK'
    BY <1>5, <2>1, Pushed DEF IInv, TypeOK, DestroyClient
  <2>3. KeptWhileNative'
    BY <1>5 DEF IInv, KeptWhileNative, Exists, DestroyClient
  <2>4. DyingOnStack'
    BY <1>5, <2>1, PushHarmless DEF DestroyClient, AppRuns
  <2> QED
    BY <2>2, <2>3, <2>4 DEF IInv
<1> QED
  BY <1>1, <1>2, <1>3, <1>4, <1>5 DEF Application

\* The errors of a request are posted to a client, or described.
LEMMA HandledErrors ==
  ASSUME TypeOK, NEW r, NEW e \in Errors \cup {"other"}, HandleErrors(r, e)
  PROVE  /\ error' \in [Clients -> Errors \cup {None}]
         /\ fault' \in {"none", "app", "dispatcher"}
         /\ fault' = fault \/ fault' = "dispatcher"
BY DEF TypeOK, HandleErrors, Posted, Errors

\* Requests arrive.
LEMMA ArrivalsStep == ASSUME IInv, Arrivals PROVE IInv'
<1>1. ASSUME NEW r \in Resources, Request(r) PROVE IInv'
  <2> DEFINE call == [kind |-> "request", of |-> r]
  <2>1. call \in Calls /\ calls = << >> /\ calls' = << call >>
    BY <1>1 DEF Calls, Request, Arrives
  <2>2. calls' = << call >> \o calls
    <3>1. << call >> \in Seq(Calls)
      BY <2>1
    <3> QED
      BY <2>1, <3>1, ConcatEmptySeq
  <2>3. TypeOK'
    BY <1>1, <2>1, <2>2, Pushed DEF IInv, TypeOK, Request
  <2>4. KeptWhileNative'
    BY <1>1 DEF IInv, KeptWhileNative, Exists, Request
  <2>5. DyingOnStack'
    BY <1>1, <2>1, <2>2, PushHarmless DEF Request, Arrives
  <2> QED
    BY <2>3, <2>4, <2>5 DEF IInv
<1>2. ASSUME NEW r \in Resources, RequestUnset(r) PROVE IInv'
  <2>1. TypeOK' /\ KeptWhileNative'
    BY <1>2 DEF IInv, TypeOK, KeptWhileNative, Exists, RequestUnset
  <2>2. DyingOnStack'
    BY <1>2 DEF RequestUnset, DyingOnStack, Running
  <2> QED
    BY <2>1, <2>2 DEF IInv
<1>3. ASSUME NEW r \in Resources, RequestFails(r) PROVE IInv'
  <2>1. PICK e \in Errors \cup {"other"} : HandleErrors(r, e)
    BY <1>3 DEF RequestFails, Errors
  <2>2. /\ error' \in [Clients -> Errors \cup {None}]
        /\ fault' \in {"none", "app", "dispatcher"}
        /\ fault' = fault \/ fault' = "dispatcher"
    BY <2>1, HandledErrors DEF IInv
  <2>3. UNCHANGED << client, owner, native, ptr, ref, impl, calls, misused >>
    BY <1>3 DEF RequestFails
  <2>4. TypeOK'
    BY <2>2, <2>3 DEF IInv, TypeOK
  <2>5. KeptWhileNative'
    BY <2>3 DEF IInv, KeptWhileNative, Exists
  <2>6. DyingOnStack'
    BY <2>2, <2>3, StackUnchanged
  <2> QED
    BY <2>4, <2>5, <2>6 DEF IInv
<1> QED
  BY <1>1, <1>2, <1>3 DEF Arrivals

\* The innermost call ends or goes on.
LEMMA ProgressStep == ASSUME IInv, Progress PROVE IInv'
<1>1. CASE ResourceDestroyed
  <2>1. /\ calls # << >> /\ Head(calls) = calls[1] /\ calls[1].of \in Resources
        /\ calls[1].kind \in {"destroy", "release"}
    BY <1>1, Top DEF IInv, ResourceDestroyed
  <2>2. /\ native' = [native EXCEPT ![calls[1].of] = "freed"]
        /\ ref' = ref \ {calls[1].of} /\ calls' = Tail(calls)
        /\ ptr' \in SUBSET Resources
        /\ UNCHANGED << client, error, owner, impl, misused, fault >>
    BY <1>1, <2>1 DEF IInv, TypeOK, ResourceDestroyed
  <2>3. TypeOK'
    BY <2>1, <2>2, Popped DEF IInv, TypeOK
  <2>4. KeptWhileNative'
    BY <2>1, <2>2 DEF IInv, TypeOK, KeptWhileNative, Exists
  <2>5. DyingOnStack'
    BY <1>1, <2>1, <2>2, PopDestruction DEF ResourceDestroyed
  <2> QED
    BY <2>3, <2>4, <2>5 DEF IInv
<1>2. CASE FarewellDone
  <2> DEFINE call == [kind |-> "sweep", of |-> calls[1].of]
  <2>1. /\ calls # << >> /\ Head(calls) = calls[1] /\ calls[1].of \in Clients
        /\ calls[1].kind = "farewell"
    BY <1>2, Top DEF IInv, FarewellDone
  <2>2. /\ calls' = << call >> \o Tail(calls) /\ call \in Calls
        /\ UNCHANGED << client, error, owner, native, ptr, ref, impl, misused, fault >>
    BY <1>2, <2>1 DEF FarewellDone, Calls
  <2>3. /\ calls' \in Seq(Calls) /\ Len(calls') = Len(calls) /\ calls'[1] = call
        /\ \A i \in 2..Len(calls) : calls'[i] = calls[i]
    BY <2>1, <2>2, Replaced DEF IInv
  <2>4. TypeOK' /\ KeptWhileNative'
    BY <2>2, <2>3 DEF IInv, TypeOK, KeptWhileNative, Exists
  <2>5. DyingOnStack'
    <3>1. call.kind \notin {"destroy", "release"} /\ Running
      BY <1>2 DEF FarewellDone
    <3> HIDE DEF call
    <3> QED
      BY <2>1, <2>2, <2>3, <3>1, ReplaceHarmless
  <2> QED
    BY <2>4, <2>5 DEF IInv
<1>3. CASE Sweep
  <2>1. /\ calls # << >> /\ Head(calls) = calls[1] /\ calls[1].of \in Clients
        /\ calls[1].kind = "sweep" /\ calls[1] \in Calls /\ Running
    BY <1>3, Top DEF IInv, Sweep
  <2>2. PICK r \in Resources :
          /\ owner[r] = calls[1].of /\ Exists(r)
          /\ native' = [native EXCEPT ![r] = "dying"]
          /\ calls' = << [kind |-> "release", of |-> r] >> \o calls
          /\ fault' = IF native[r] = "dying" THEN "app" ELSE fault
    BY <1>3, <2>1 DEF Sweep
  <2> DEFINE call == [kind |-> "release", of |-> r]
  <2>3. call \in Calls /\ UNCHANGED << client, error, owner, ptr, ref, impl, misused >>
    BY <1>3 DEF Calls, Sweep
  <2>4. TypeOK'
    BY <2>2, <2>3, Pushed DEF IInv, TypeOK
  <2>5. KeptWhileNative'
    BY <2>2, <2>3 DEF IInv, TypeOK, KeptWhileNative, Exists
  <2>6. CASE native[r] = "dying"
    BY <2>2, <2>6, <2>4, <2>5 DEF IInv, DyingOnStack, Running
  <2>7. CASE native[r] = "live"
    <3>1. calls[1] = [kind |-> "sweep", of |-> owner[r]]
      BY <2>1, <2>2 DEF Calls
    <3>2. DyingOnStack'
      BY <2>1, <2>2, <2>3, <2>7, <3>1, PushDestruction
    <3> QED
      BY <2>4, <2>5, <3>2 DEF IInv
  <2> QED
    BY <2>2, <2>6, <2>7 DEF Exists
<1>4. CASE ClientDestroyed
  <2>1. /\ calls # << >> /\ Head(calls) = calls[1] /\ calls[1].of \in Clients
        /\ calls[1].kind = "sweep" /\ Running
    BY <1>4, Top DEF IInv, ClientDestroyed
  <2>2. /\ client' = [client EXCEPT ![calls[1].of] = "gone"] /\ calls' = Tail(calls)
        /\ UNCHANGED << error, owner, native, ptr, ref, impl, misused, fault >>
    BY <1>4, <2>1 DEF ClientDestroyed
  <2>3. TypeOK' /\ KeptWhileNative'
    BY <2>1, <2>2, Popped DEF IInv, TypeOK, KeptWhileNative, Exists
  <2>4. DyingOnStack'
    BY <2>1, <2>2, PopHarmless
  <2> QED
    BY <2>3, <2>4 DEF IInv
<1>5. ASSUME HandlerReturns \/ \E e \in Errors \cup {"other"} : HandlerThrows(e)
      PROVE  IInv'
  <2>1. /\ calls # << >> /\ calls[1].kind = "request" /\ Running
    BY <1>5, Top DEF IInv, HandlerReturns, HandlerThrows
  <2>2. calls' = Tail(calls) /\ UNCHANGED << client, owner, native, ptr, ref, impl, misused >>
    BY <1>5 DEF HandlerReturns, HandlerThrows
  <2>3. /\ error' \in [Clients -> Errors \cup {None}]
        /\ fault' \in {"none", "app", "dispatcher"}
    BY <1>5, HandledErrors DEF IInv, TypeOK, HandlerReturns, HandlerThrows
  <2>4. TypeOK' /\ KeptWhileNative'
    BY <2>1, <2>2, <2>3, Popped DEF IInv, TypeOK, KeptWhileNative, Exists
  <2>5. DyingOnStack'
    BY <2>1, <2>2, PopHarmless
  <2> QED
    BY <2>4, <2>5 DEF IInv
<1> QED
  BY <1>1, <1>2, <1>3, <1>4, <1>5 DEF Progress

\* Every step keeps IInv.
LEMMA NextIInv == IInv /\ [Next]_vars => IInv'
<1> SUFFICES ASSUME IInv, [Next]_vars PROVE IInv'
  OBVIOUS
<1>1. CASE UNCHANGED vars
  <2>1. TypeOK' /\ KeptWhileNative'
    BY <1>1 DEF vars, IInv, TypeOK, KeptWhileNative, Exists
  <2>2. DyingOnStack'
    BY <1>1, StackUnchanged DEF vars
  <2> QED
    BY <2>1, <2>2 DEF IInv
<1> QED
  BY <1>1, ApplicationStep, ArrivalsStep, ProgressStep DEF Next

-----------------------------------------------------------------------------

\* References, resources and the stack agree in every reachable state.
THEOREM Inductive == Spec => []IInv
BY InitIInv, NextIInv, PTL DEF Spec

\* The Java object of a resource is kept exactly as long as the resource.
THEOREM ResourcesAreKept == Spec => []KeptWhileNative
<1>1. IInv => KeptWhileNative
  BY DEF IInv
<1> QED
  BY <1>1, Inductive, PTL

-----------------------------------------------------------------------------
(* Clients on the stack. *)

Leaving(i) == calls[i].kind \in {"farewell", "sweep"}

\* A client leaves in one call of the stack, and resources on it have an owner.
\* Without misuse no handler and no Resource.destroy of one of its resources is
\* below that call, and handlers return to clients that are still there.
ClientsOnStack ==
  Running =>
    /\ \A i \in DOMAIN calls : Leaving(i) => client[calls[i].of] = "dying"
    /\ \A i, j \in DOMAIN calls :
         Leaving(i) /\ Leaving(j) /\ calls[i].of = calls[j].of => i = j
    /\ \A i \in DOMAIN calls : ~Leaving(i) => owner[calls[i].of] \in Clients
    /\ ~misused =>
         /\ \A i, j \in DOMAIN calls :
              /\ Leaving(i) /\ calls[j].kind \in {"request", "destroy"}
              /\ owner[calls[j].of] = calls[i].of
              => j < i
         /\ \A i \in DOMAIN calls :
              calls[i].kind = "request" => client[owner[calls[i].of]] # "gone"

\* resource_ptr leads to a freed resource only when its client is leaving.
ZeroedUnlessLeaving ==
  Running => \A r \in ptr : native[r] = "freed" => client[owner[r]] # "live"

\* What exists or existed was constructed for a client, and what is not has no pointer.
Owned ==
  Running => \A r \in Resources :
    IF native[r] = "unborn" THEN r \notin ptr ELSE owner[r] \in Clients

Nested == ClientsOnStack /\ ZeroedUnlessLeaving /\ Owned /\ FaultsAreMisuse

LEMMA InitNested == Init => Nested
BY DEF Init, Nested, ClientsOnStack, ZeroedUnlessLeaving, Owned, FaultsAreMisuse

\* What the calls on the stack are of.
LEMMA CallsTyped ==
  ASSUME TypeOK, NEW i \in DOMAIN calls
  PROVE  IF Leaving(i) THEN calls[i].of \in Clients
         ELSE calls[i].of \in Resources /\ calls[i].kind \in {"request", "destroy", "release"}
<1>1. calls[i] \in Calls
  BY DEF TypeOK
<1> QED
  BY <1>1 DEF Leaving, Calls

\* A call for a resource is entered.
LEMMA PushCall ==
  ASSUME IInv, ClientsOnStack, Running, NEW call \in Calls, calls' = << call >> \o calls,
         call.kind \in {"request", "destroy", "release"}, owner[call.of] \in Clients,
         call.kind = "request" => client[owner[call.of]] # "gone",
         UNCHANGED << client, owner, misused >>
  PROVE  ClientsOnStack'
<1>1. /\ calls' \in Seq(Calls) /\ Len(calls') = Len(calls) + 1 /\ calls'[1] = call
      /\ \A i \in 1..Len(calls) : calls'[i + 1] = calls[i]
  BY Pushed DEF IInv
<1>2. DOMAIN calls = 1..Len(calls) /\ DOMAIN calls' = 1..Len(calls') /\ Len(calls) \in Nat
  BY <1>1 DEF IInv, TypeOK
<1>3. \A i \in DOMAIN calls' : i = 1 \/ (i - 1 \in DOMAIN calls /\ calls'[i] = calls[i - 1])
  <2> TAKE i \in DOMAIN calls'
  <2>1. CASE i # 1
    <3>1. i - 1 \in 1..Len(calls) /\ i - 1 + 1 = i
      BY <1>1, <1>2, <2>1
    <3> QED
      BY <1>1, <1>2, <3>1
  <2> QED
    BY <2>1
<1>4. /\ ~Leaving(1)'
      /\ \A i \in DOMAIN calls' : i # 1 => (Leaving(i)' <=> Leaving(i - 1))
  BY <1>1, <1>3 DEF Leaving
<1>5. \A i \in DOMAIN calls' : i \in Nat
  BY <1>2, <1>1
<1>6. \A i \in DOMAIN calls' : Leaving(i)' => client'[calls'[i].of] = "dying"
  BY <1>3, <1>4 DEF ClientsOnStack
<1>7. \A i, j \in DOMAIN calls' :
        Leaving(i)' /\ Leaving(j)' /\ calls'[i].of = calls'[j].of => i = j
  BY <1>3, <1>4, <1>5 DEF ClientsOnStack
<1>8. \A i \in DOMAIN calls' : ~Leaving(i)' => owner'[calls'[i].of] \in Clients
  BY <1>1, <1>3, <1>4 DEF ClientsOnStack
<1>9. ASSUME ~misused', NEW i \in DOMAIN calls', NEW j \in DOMAIN calls', Leaving(i)',
             calls'[j].kind \in {"request", "destroy"}, owner'[calls'[j].of] = calls'[i].of
      PROVE  j < i
  <2>1. /\ i - 1 \in DOMAIN calls /\ calls'[i] = calls[i - 1] /\ Leaving(i - 1)
        /\ i - 1 \in Nat \ {0}
    BY <1>2, <1>3, <1>4, <1>9
  <2>2. CASE j = 1
    BY <1>5, <2>1, <2>2
  <2>3. CASE j # 1
    <3>1. j - 1 \in DOMAIN calls /\ calls'[j] = calls[j - 1]
      BY <1>3, <2>3
    <3>2. j - 1 < i - 1
      BY <1>9, <2>1, <3>1 DEF ClientsOnStack
    <3> QED
      BY <3>2, <1>5
  <2> QED
    BY <2>2, <2>3
<1>10. ASSUME ~misused', NEW i \in DOMAIN calls', calls'[i].kind = "request"
       PROVE  client'[owner'[calls'[i].of]] # "gone"
  BY <1>1, <1>3, <1>10 DEF ClientsOnStack
<1> QED
  BY <1>6, <1>7, <1>8, <1>9, <1>10 DEF ClientsOnStack

\* A client begins to leave; under one of its own calls, it is misuse.
LEMMA PushFarewell ==
  ASSUME IInv, ClientsOnStack, Running, NEW c \in Clients, client[c] = "live",
         client' = [client EXCEPT ![c] = "dying"],
         calls' = << [kind |-> "farewell", of |-> c] >> \o calls,
         misused' = (misused \/ Busy(c)), owner' = owner
  PROVE  ClientsOnStack'
<1> DEFINE call == [kind |-> "farewell", of |-> c]
<1>0. call \in Calls
  BY DEF Calls
<1>1. /\ calls' \in Seq(Calls) /\ Len(calls') = Len(calls) + 1 /\ calls'[1] = call
      /\ \A i \in 1..Len(calls) : calls'[i + 1] = calls[i]
  BY <1>0, Pushed DEF IInv
<1>2. DOMAIN calls = 1..Len(calls) /\ DOMAIN calls' = 1..Len(calls') /\ Len(calls) \in Nat
  BY <1>1 DEF IInv, TypeOK
<1>3. \A i \in DOMAIN calls' : i = 1 \/ (i - 1 \in DOMAIN calls /\ calls'[i] = calls[i - 1])
  <2> TAKE i \in DOMAIN calls'
  <2>1. CASE i # 1
    <3>1. i - 1 \in 1..Len(calls) /\ i - 1 + 1 = i
      BY <1>1, <1>2, <2>1
    <3> QED
      BY <1>1, <1>2, <3>1
  <2> QED
    BY <2>1
<1>4. /\ Leaving(1)' /\ calls'[1].of = c /\ calls'[1].kind = "farewell"
      /\ \A i \in DOMAIN calls' : i # 1 => (Leaving(i)' <=> Leaving(i - 1))
  BY <1>1, <1>3 DEF Leaving
<1>5. \A i \in DOMAIN calls' : i \in Nat
  BY <1>2, <1>1
<1>6. /\ client'[c] = "dying"
      /\ \A d \in Clients : d # c => client'[d] = client[d]
      /\ \A d \in Clients : client'[d] = "gone" => client[d] = "gone"
  BY DEF IInv, TypeOK
<1>7. \A i \in DOMAIN calls : Leaving(i) => calls[i].of # c /\ calls[i].of \in Clients
  BY CallsTyped DEF ClientsOnStack, IInv
<1>8. \A i \in DOMAIN calls' : i # 1 /\ Leaving(i)' => calls'[i].of # c /\ calls'[i].of \in Clients
  BY <1>3, <1>4, <1>7
<1>9. \A i \in DOMAIN calls' : Leaving(i)' => client'[calls'[i].of] = "dying"
  BY <1>3, <1>4, <1>6, <1>8 DEF ClientsOnStack
<1>10. \A i, j \in DOMAIN calls' :
         Leaving(i)' /\ Leaving(j)' /\ calls'[i].of = calls'[j].of => i = j
  BY <1>3, <1>4, <1>5, <1>8 DEF ClientsOnStack
<1>11. \A i \in DOMAIN calls' : ~Leaving(i)' => owner'[calls'[i].of] \in Clients
  BY <1>3, <1>4 DEF ClientsOnStack
<1>12. ASSUME ~misused', NEW i \in DOMAIN calls', NEW j \in DOMAIN calls', Leaving(i)',
              calls'[j].kind \in {"request", "destroy"}, owner'[calls'[j].of] = calls'[i].of
       PROVE  j < i
  <2>1. j # 1
    BY <1>4, <1>12
  <2>2. CASE i = 1
    BY <1>3, <1>4, <1>12, <2>1, <2>2 DEF Busy
  <2>3. CASE i # 1
    <3>1. /\ i - 1 \in DOMAIN calls /\ calls'[i] = calls[i - 1] /\ Leaving(i - 1)
          /\ j - 1 \in DOMAIN calls /\ calls'[j] = calls[j - 1]
      BY <1>3, <1>4, <1>12, <2>1, <2>3
    <3>2. j - 1 < i - 1
      BY <1>12, <3>1 DEF ClientsOnStack
    <3> QED
      BY <3>2, <1>5
  <2> QED
    BY <2>2, <2>3
<1>13. ASSUME ~misused', NEW i \in DOMAIN calls', calls'[i].kind = "request"
       PROVE  client'[owner'[calls'[i].of]] # "gone"
  <2>1. i - 1 \in DOMAIN calls /\ calls'[i] = calls[i - 1]
    BY <1>3, <1>4, <1>13
  <2>2. owner[calls[i - 1].of] \in Clients /\ client[owner[calls[i - 1].of]] # "gone"
    BY <1>13, <2>1 DEF ClientsOnStack, Leaving
  <2> QED
    BY <2>1, <2>2, <1>6
<1> QED
  BY <1>9, <1>10, <1>11, <1>12, <1>13 DEF ClientsOnStack

\* The innermost call returns, and its client is gone if it was a sweep.
LEMMA PopCall ==
  ASSUME IInv, ClientsOnStack, Running, calls # << >>, calls' = Tail(calls),
         \/ client' = client
         \/ Leaving(1) /\ client' = [client EXCEPT ![calls[1].of] = "gone"],
         UNCHANGED << owner, misused >>
  PROVE  ClientsOnStack'
<1>1. /\ calls' \in Seq(Calls) /\ Len(calls') = Len(calls) - 1
      /\ \A i \in 1..Len(calls') : calls'[i] = calls[i + 1]
  BY Popped DEF IInv
<1>2. /\ DOMAIN calls = 1..Len(calls) /\ DOMAIN calls' = 1..Len(calls')
      /\ Len(calls) \in Nat \ {0}
  BY <1>1 DEF IInv, TypeOK
<1>3. \A i \in DOMAIN calls' :
        i \in Nat \ {0} /\ i + 1 \in DOMAIN calls /\ calls'[i] = calls[i + 1]
        /\ (Leaving(i)' <=> Leaving(i + 1))
  BY <1>1, <1>2 DEF Leaving
<1>4. 1 \in DOMAIN calls
  BY <1>2
<1>5. \A i \in DOMAIN calls' : Leaving(i)' =>
        calls'[i].of \in Clients /\ (Leaving(1) => calls'[i].of # calls[1].of)
  <2> TAKE i \in DOMAIN calls'
  <2> HAVE Leaving(i)'
  <2>1. Leaving(i + 1) /\ i + 1 # 1 /\ i + 1 \in DOMAIN calls /\ calls'[i] = calls[i + 1]
    BY <1>3
  <2> QED
    BY <2>1, <1>4 DEF ClientsOnStack, IInv, TypeOK, Leaving, Calls
<1>6. \A i \in DOMAIN calls' : Leaving(i)' => client'[calls'[i].of] = "dying"
  <2> TAKE i \in DOMAIN calls'
  <2> HAVE Leaving(i)'
  <2>1. client[calls'[i].of] = "dying"
    BY <1>3 DEF ClientsOnStack
  <2> QED
    BY <2>1, <1>5 DEF IInv, TypeOK
<1>7. \A i, j \in DOMAIN calls' :
        Leaving(i)' /\ Leaving(j)' /\ calls'[i].of = calls'[j].of => i = j
  <2> TAKE i, j \in DOMAIN calls'
  <2> HAVE Leaving(i)' /\ Leaving(j)' /\ calls'[i].of = calls'[j].of
  <2>1. i + 1 = j + 1
    BY <1>3 DEF ClientsOnStack
  <2> QED
    BY <2>1, <1>3
<1>8. \A i \in DOMAIN calls' : ~Leaving(i)' => owner'[calls'[i].of] \in Clients
  BY <1>3 DEF ClientsOnStack
<1>9. ASSUME ~misused', NEW i \in DOMAIN calls', NEW j \in DOMAIN calls', Leaving(i)',
             calls'[j].kind \in {"request", "destroy"}, owner'[calls'[j].of] = calls'[i].of
      PROVE  j < i
  <2>1. j + 1 < i + 1
    BY <1>3, <1>9 DEF ClientsOnStack
  <2> QED
    BY <2>1, <1>3
<1>10. ASSUME ~misused', NEW i \in DOMAIN calls', calls'[i].kind = "request"
       PROVE  client'[owner'[calls'[i].of]] # "gone"
  <2>1. /\ i + 1 \in DOMAIN calls /\ calls'[i] = calls[i + 1] /\ ~(i + 1 < 1)
        /\ client[owner[calls[i + 1].of]] # "gone" /\ owner[calls[i + 1].of] \in Clients
    BY <1>3, <1>10 DEF ClientsOnStack, Leaving
  <2>2. Leaving(1) => owner[calls[i + 1].of] # calls[1].of
    BY <1>4, <1>10, <2>1 DEF ClientsOnStack
  <2> QED
    BY <2>1, <2>2 DEF IInv, TypeOK
<1> QED
  BY <1>6, <1>7, <1>8, <1>9, <1>10 DEF ClientsOnStack

\* The farewell of a client becomes its sweep.
LEMMA ReplaceFarewell ==
  ASSUME IInv, ClientsOnStack, Running, calls # << >>, calls[1].kind = "farewell",
         calls' = << [kind |-> "sweep", of |-> calls[1].of] >> \o Tail(calls),
         UNCHANGED << client, owner, misused >>
  PROVE  ClientsOnStack'
<1> DEFINE call == [kind |-> "sweep", of |-> calls[1].of]
<1>0. call \in Calls
  BY DEF IInv, TypeOK, Calls
<1>1. /\ calls' \in Seq(Calls) /\ Len(calls') = Len(calls) /\ calls'[1] = call
      /\ \A i \in 2..Len(calls) : calls'[i] = calls[i]
  BY <1>0, Replaced DEF IInv
<1>2. DOMAIN calls = 1..Len(calls) /\ DOMAIN calls' = DOMAIN calls /\ Len(calls) \in Nat
  BY <1>1 DEF IInv, TypeOK
<1>3. \A i \in DOMAIN calls :
        i # 1 => calls'[i] = calls[i]
  BY <1>1, <1>2
<1>4. \A i \in DOMAIN calls : calls'[i].of = calls[i].of /\ (Leaving(i)' <=> Leaving(i))
  BY <1>1, <1>3 DEF Leaving
<1>5. \A i \in DOMAIN calls : calls'[i].kind \in {"request", "destroy"} => calls'[i] = calls[i]
  BY <1>1, <1>3
<1>6. \A i \in DOMAIN calls : Leaving(i)' => client'[calls'[i].of] = "dying"
  BY <1>4 DEF ClientsOnStack
<1>7. \A i, j \in DOMAIN calls :
        Leaving(i)' /\ Leaving(j)' /\ calls'[i].of = calls'[j].of => i = j
  BY <1>4 DEF ClientsOnStack
<1>8. \A i \in DOMAIN calls : ~Leaving(i)' => owner'[calls'[i].of] \in Clients
  BY <1>4 DEF ClientsOnStack
<1>9. ASSUME ~misused', NEW i \in DOMAIN calls, NEW j \in DOMAIN calls, Leaving(i)',
             calls'[j].kind \in {"request", "destroy"}, owner'[calls'[j].of] = calls'[i].of
      PROVE  j < i
  BY <1>4, <1>5, <1>9 DEF ClientsOnStack
<1>10. ASSUME ~misused', NEW i \in DOMAIN calls, calls'[i].kind = "request"
       PROVE  client'[owner'[calls'[i].of]] # "gone"
  BY <1>5, <1>10 DEF ClientsOnStack
<1> QED
  BY <1>2, <1>6, <1>7, <1>8, <1>9, <1>10 DEF ClientsOnStack

\* A step that leaves the stack, the clients and the owners on it alone.
LEMMA ClientsUnchanged ==
  ASSUME IInv, ClientsOnStack, Running, UNCHANGED << calls, client, misused >>,
         \A r \in Resources : owner[r] \in Clients => owner'[r] = owner[r]
  PROVE  ClientsOnStack'
<1>1. \A i \in DOMAIN calls : ~Leaving(i) => owner'[calls[i].of] = owner[calls[i].of]
  BY DEF ClientsOnStack, IInv, TypeOK, Leaving, Calls
<1>2. \A i \in DOMAIN calls :
        calls[i].kind \in {"request", "destroy"} => ~Leaving(i)
  BY DEF Leaving
<1>3. \A i \in DOMAIN calls : Leaving(i)' <=> Leaving(i)
  BY DEF Leaving
<1> QED
  BY <1>1, <1>2, <1>3 DEF ClientsOnStack

\* Every step keeps the clients on the stack apart from the calls of their own.
LEMMA NestedClients == ASSUME IInv, Nested, [Next]_vars PROVE ClientsOnStack'
<1> SUFFICES ASSUME Running' PROVE ClientsOnStack'
  BY DEF ClientsOnStack
<1>0. ClientsOnStack
  BY DEF Nested
<1>1. ASSUME NEW r \in Resources, NEW c \in Clients, Construct(r, c) \/ ConstructFails(r, c)
      PROVE  ClientsOnStack'
  <2>1. \A x \in Resources : owner[x] \in Clients => owner'[x] = owner[x]
    BY <1>1 DEF Construct, ConstructFails, IInv, TypeOK
  <2> QED
    BY <1>0, <1>1, <2>1, ClientsUnchanged DEF Construct, ConstructFails, AppRuns
<1>2. ASSUME NEW r \in Resources, SetImplementation(r) \/ PostError(r)
      PROVE  ClientsOnStack'
  BY <1>0, <1>2, ClientsUnchanged DEF SetImplementation, PostError, AppRuns
<1>3. ASSUME NEW r \in Resources, UseDead(r) \/ DestroyAgain(r) \/ RequestUnset(r)
      PROVE  ClientsOnStack'
  BY <1>3 DEF UseDead, DestroyAgain, RequestUnset, Running
<1>4. ASSUME NEW r \in Resources, Destroy(r) PROVE ClientsOnStack'
  <2> DEFINE call == [kind |-> "destroy", of |-> r]
  <2>1. call \in Calls /\ calls' = << call >> \o calls /\ Running
    BY <1>4 DEF Calls, Destroy, AppRuns
  <2>2. owner[r] \in Clients
    BY <1>4 DEF Nested, Owned, Destroy, AppRuns
  <2>3. UNCHANGED << client, owner, misused >>
    BY <1>4 DEF Destroy
  <2>4. call.kind = "destroy" /\ call.of = r
    OBVIOUS
  <2> HIDE DEF call
  <2> QED
    BY <1>0, <2>1, <2>2, <2>3, <2>4, PushCall
<1>5. ASSUME NEW c \in Clients, DestroyClient(c) PROVE ClientsOnStack'
  BY <1>0, <1>5, PushFarewell DEF DestroyClient, AppRuns
<1>6. ASSUME NEW r \in Resources, Request(r) PROVE ClientsOnStack'
  <2> DEFINE call == [kind |-> "request", of |-> r]
  <2>1. call \in Calls /\ calls = << >> /\ calls' = << call >> /\ Running
    BY <1>6 DEF Calls, Request, Arrives
  <2>2. calls' = << call >> \o calls
    <3>1. << call >> \in Seq(Calls)
      BY <2>1
    <3> QED
      BY <2>1, <3>1, ConcatEmptySeq
  <2>3. owner[r] \in Clients /\ client[owner[r]] # "gone"
    BY <1>6 DEF Nested, Owned, Request, Arrives
  <2>4. UNCHANGED << client, owner, misused >>
    BY <1>6 DEF Request
  <2>5. call.kind = "request" /\ call.of = r
    OBVIOUS
  <2> HIDE DEF call
  <2> QED
    BY <1>0, <2>1, <2>2, <2>3, <2>4, <2>5, PushCall
<1>7. ASSUME NEW r \in Resources, RequestFails(r) PROVE ClientsOnStack'
  BY <1>0, <1>7, ClientsUnchanged DEF RequestFails, Arrives
<1>8. CASE ResourceDestroyed
  BY <1>0, <1>8, PopCall, Top DEF ResourceDestroyed, IInv
<1>9. CASE FarewellDone
  <2>1. calls # << >> /\ Head(calls) = calls[1] /\ calls[1].kind = "farewell"
    BY <1>9, Top DEF FarewellDone, IInv
  <2> QED
    BY <1>0, <1>9, <2>1, ReplaceFarewell DEF FarewellDone
<1>10. CASE Sweep
  <2>1. PICK r \in Resources :
          /\ owner[r] = Head(calls).of
          /\ calls' = << [kind |-> "release", of |-> r] >> \o calls
    BY <1>10 DEF Sweep
  <2> DEFINE call == [kind |-> "release", of |-> r]
  <2>2. call \in Calls /\ Head(calls).of \in Clients /\ Running
    BY <1>10, Top DEF Sweep, IInv, Calls
  <2>3. UNCHANGED << client, owner, misused >>
    BY <1>10 DEF Sweep
  <2>4. call.kind = "release" /\ call.of = r /\ calls' = << call >> \o calls
    BY <2>1
  <2> HIDE DEF call
  <2> QED
    BY <1>0, <2>1, <2>2, <2>3, <2>4, PushCall
<1>11. CASE ClientDestroyed
  <2>1. /\ calls # << >> /\ Head(calls) = calls[1] /\ calls[1].kind = "sweep"
        /\ Running
    BY <1>11, Top DEF ClientDestroyed, IInv
  <2>2. Leaving(1) /\ client' = [client EXCEPT ![calls[1].of] = "gone"]
    BY <1>11, <2>1 DEF ClientDestroyed, Leaving
  <2>3. calls' = Tail(calls) /\ UNCHANGED << owner, misused >>
    BY <1>11 DEF ClientDestroyed
  <2> QED
    BY <1>0, <2>1, <2>2, <2>3, PopCall
<1>12. ASSUME HandlerReturns \/ \E e \in Errors \cup {"other"} : HandlerThrows(e)
       PROVE  ClientsOnStack'
  <2>1. /\ calls # << >> /\ Running /\ calls' = Tail(calls)
        /\ UNCHANGED << client, owner, misused >>
    BY <1>12 DEF HandlerReturns, HandlerThrows, In
  <2> QED
    BY <1>0, <2>1, PopCall
<1>13. CASE UNCHANGED vars
  <2>1. Running /\ UNCHANGED << calls, client, misused, owner >>
    BY <1>13 DEF vars, Running
  <2> QED
    BY <1>0, <2>1, ClientsUnchanged
<1>14. CASE Application
  BY <1>1, <1>2, <1>3, <1>4, <1>5, <1>14 DEF Application
<1>15. CASE Arrivals
  BY <1>3, <1>6, <1>7, <1>15 DEF Arrivals
<1>16. CASE Progress
  BY <1>8, <1>9, <1>10, <1>11, <1>12, <1>16 DEF Progress
<1> QED
  BY <1>13, <1>14, <1>15, <1>16 DEF Next

\* Every step keeps the owners of resources and the pointers to them.
LEMMA NestedPointers ==
  ASSUME IInv, Nested, [Next]_vars PROVE Owned' /\ ZeroedUnlessLeaving'
<1> SUFFICES ASSUME Running' PROVE Owned' /\ ZeroedUnlessLeaving'
  BY DEF Owned, ZeroedUnlessLeaving
<1>1. ASSUME NEW r \in Resources, NEW c \in Clients, Construct(r, c) \/ ConstructFails(r, c)
      PROVE  Owned' /\ ZeroedUnlessLeaving'
  BY <1>1 DEF Construct, ConstructFails, Nested, Owned, ZeroedUnlessLeaving, AppRuns,
              IInv, TypeOK
<1>2. ASSUME Running, UNCHANGED << native, owner, ptr, client >>
      PROVE  Owned' /\ ZeroedUnlessLeaving'
  BY <1>2 DEF Nested, Owned, ZeroedUnlessLeaving
<1>3. ASSUME Running, NEW r \in Resources, Exists(r),
             native' = [native EXCEPT ![r] = "dying"], UNCHANGED << owner, ptr, client >>
      PROVE  Owned' /\ ZeroedUnlessLeaving'
  BY <1>3 DEF Nested, Owned, ZeroedUnlessLeaving, Exists, IInv, TypeOK
<1>4. ASSUME Running, NEW c \in Clients, NEW s \in {"dying", "gone"},
             client' = [client EXCEPT ![c] = s], UNCHANGED << native, owner, ptr >>
      PROVE  Owned' /\ ZeroedUnlessLeaving'
  BY <1>4 DEF Nested, Owned, ZeroedUnlessLeaving, IInv, TypeOK
<1>5. CASE ResourceDestroyed
  <2>1. /\ Head(calls) = calls[1] /\ calls[1].of \in Resources /\ 1 \in 1..Len(calls)
        /\ calls[1].kind \in {"destroy", "release"} /\ calls # << >>
    BY <1>5, Top DEF IInv, ResourceDestroyed
  <2> DEFINE x == calls[1].of
  <2>2. /\ native' = [native EXCEPT ![x] = "freed"] /\ Running
        /\ ptr' = IF calls[1].kind = "destroy" THEN ptr \ {x} ELSE ptr
        /\ UNCHANGED << owner, client >>
    BY <1>5, <2>1 DEF ResourceDestroyed, In
  <2>3. 1 \in DOMAIN calls /\ Destruction(1) /\ DOMAIN calls = 1..Len(calls) /\ Len(calls) \in Nat
    BY <2>1 DEF IInv, TypeOK, Destruction
  <2>4. native[x] = "dying"
    BY <2>2, <2>3 DEF IInv, DyingOnStack
  <2>5. ASSUME calls[1].kind = "release" PROVE client[owner[x]] # "live"
    <3>1. 2 \in DOMAIN calls /\ calls[2] = [kind |-> "sweep", of |-> owner[x]]
      BY <2>2, <2>3, <2>5 DEF IInv, DyingOnStack
    <3>2. Leaving(2) /\ calls[2].of = owner[x]
      BY <3>1 DEF Leaving
    <3> QED
      BY <2>2, <3>1, <3>2 DEF Nested, ClientsOnStack
  <2>6. Owned'
    BY <2>1, <2>2, <2>4 DEF Nested, Owned, IInv, TypeOK
  <2>7. ASSUME NEW q \in ptr', native'[q] = "freed" PROVE client'[owner'[q]] # "live"
    <3>1. CASE q = x
      BY <2>1, <2>2, <2>5, <2>7, <3>1
    <3>2. CASE q # x
      BY <2>1, <2>2, <2>7, <3>2 DEF Nested, ZeroedUnlessLeaving, IInv, TypeOK
    <3> QED
      BY <3>1, <3>2
  <2> QED
    BY <2>6, <2>7 DEF ZeroedUnlessLeaving
<1>6. CASE Application
  <2>1. ASSUME NEW r \in Resources, Destroy(r) PROVE Owned' /\ ZeroedUnlessLeaving'
    BY <1>3, <2>1 DEF Destroy, Exists, AppRuns
  <2>2. ASSUME NEW c \in Clients, DestroyClient(c) PROVE Owned' /\ ZeroedUnlessLeaving'
    BY <1>4, <2>2 DEF DestroyClient, AppRuns
  <2>3. ASSUME NEW r \in Resources,
               SetImplementation(r) \/ PostError(r) \/ UseDead(r) \/ DestroyAgain(r)
        PROVE  Owned' /\ ZeroedUnlessLeaving'
    BY <1>2, <2>3 DEF SetImplementation, PostError, UseDead, DestroyAgain, AppRuns
  <2> QED
    BY <1>1, <1>6, <2>1, <2>2, <2>3 DEF Application
<1>7. CASE Arrivals
  BY <1>2, <1>7 DEF Arrivals, Request, RequestUnset, RequestFails, Arrives
<1>8. CASE Sweep
  BY <1>3, <1>8 DEF Sweep
<1>9. CASE ClientDestroyed
  <2>1. Head(calls).of \in Clients
    BY <1>9, Top DEF IInv, ClientDestroyed
  <2> QED
    BY <1>4, <1>9, <2>1 DEF ClientDestroyed
<1>10. CASE Progress
  BY <1>2, <1>5, <1>8, <1>9, <1>10 DEF Progress, FarewellDone, HandlerReturns, HandlerThrows
<1>11. CASE UNCHANGED vars
  BY <1>2, <1>11 DEF vars, Running
<1> QED
  BY <1>6, <1>7, <1>10, <1>11 DEF Next

\* No step faults before misuse.
LEMMA NestedFaults == ASSUME IInv, Nested, [Next]_vars PROVE FaultsAreMisuse'
<1>2. misused => misused'
  BY DEF Next, Application, Arrivals, Progress, Construct, ConstructFails, SetImplementation,
         Destroy, PostError, UseDead, DestroyAgain, DestroyClient, Request, RequestUnset,
         RequestFails, ResourceDestroyed, FarewellDone, Sweep, ClientDestroyed,
         HandlerReturns, HandlerThrows, vars
<1>3. ASSUME fault' \in {fault, "dispatcher"} PROVE FaultsAreMisuse'
  BY <1>2, <1>3 DEF Nested, FaultsAreMisuse
<1>4. ASSUME NEW r \in Resources, UseDead(r) PROVE misused'
  BY <1>4 DEF UseDead, AppRuns, Nested, ZeroedUnlessLeaving
<1>5. CASE Sweep
  <2>1. /\ calls # << >> /\ Head(calls) = calls[1] /\ calls[1].of \in Clients
        /\ calls[1].kind = "sweep" /\ Running /\ 1 \in DOMAIN calls /\ Leaving(1)
        /\ DOMAIN calls = 1..Len(calls) /\ Len(calls) \in Nat
    BY <1>5, Top DEF IInv, Sweep, TypeOK, Leaving
  <2>2. PICK r \in Resources :
          /\ owner[r] = calls[1].of
          /\ fault' = IF native[r] = "dying" THEN "app" ELSE fault
    BY <1>5, <2>1 DEF Sweep
  <2>3. ASSUME native[r] = "dying" PROVE misused
    <3>1. PICK i \in DOMAIN calls : Destruction(i) /\ calls[i].of = r
      BY <2>1, <2>3 DEF IInv, DyingOnStack
    <3>2. i # 1 /\ i \in Nat /\ ~(i < 1)
      BY <2>1, <3>1 DEF Destruction
    <3>3. CASE calls[i].kind = "destroy"
      BY <2>1, <2>2, <3>1, <3>2, <3>3 DEF Nested, ClientsOnStack
    <3>4. CASE calls[i].kind = "release"
      <4>1. i + 1 \in DOMAIN calls /\ calls[i + 1] = [kind |-> "sweep", of |-> owner[r]]
        BY <2>1, <3>1, <3>2, <3>4 DEF IInv, DyingOnStack
      <4>2. Leaving(i + 1) /\ calls[i + 1].of = calls[1].of
        BY <2>2, <4>1 DEF Leaving
      <4>3. i + 1 = 1
        BY <2>1, <4>1, <4>2 DEF Nested, ClientsOnStack
      <4> QED
        BY <3>2, <4>3
    <3> QED
      BY <3>1, <3>3, <3>4 DEF Destruction
  <2> QED
    BY <1>2, <1>3, <2>2, <2>3 DEF FaultsAreMisuse
<1>6. CASE HandlerReturns
  <2>1. /\ Head(calls) = calls[1] /\ calls[1].kind = "request" /\ 1 \in DOMAIN calls
        /\ Running
    BY <1>6, Top DEF IInv, TypeOK, HandlerReturns
  <2>2. client[owner[calls[1].of]] = "gone" => misused
    BY <2>1 DEF Nested, ClientsOnStack
  <2> QED
    BY <1>2, <1>3, <1>6, <2>1, <2>2 DEF HandlerReturns, FaultsAreMisuse
<1>7. CASE Application
  <2>1. ASSUME NEW r \in Resources, DestroyAgain(r) PROVE misused'
    BY <2>1 DEF DestroyAgain
  <2> QED
    BY <1>3, <1>4, <1>7, <2>1
       DEF Application, Construct, ConstructFails, SetImplementation, Destroy, PostError,
           DestroyClient, FaultsAreMisuse
<1>8. CASE Arrivals
  BY <1>3, <1>8 DEF Arrivals, Request, RequestUnset, RequestFails, HandleErrors
<1>9. CASE Progress
  BY <1>3, <1>5, <1>6, <1>9
     DEF Progress, ResourceDestroyed, FarewellDone, ClientDestroyed, HandlerThrows,
         HandleErrors
<1>10. CASE UNCHANGED vars
  BY <1>3, <1>10 DEF vars
<1> QED
  BY <1>7, <1>8, <1>9, <1>10 DEF Next

\* The application meets a freed resource only after misuse, in any order of
\* handlers, listeners and destructions, nested as deep as they like.
THEOREM NoFaultBeforeMisuse == Spec => []FaultsAreMisuse
<1>1. IInv /\ Nested /\ [Next]_vars => Nested'
  BY NestedClients, NestedPointers, NestedFaults DEF Nested
<1>2. Nested => FaultsAreMisuse
  BY DEF Nested
<1> QED
  BY <1>1, <1>2, InitNested, Inductive, PTL DEF Spec
=============================================================================
