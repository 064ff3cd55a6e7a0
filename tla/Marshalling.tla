----------------------------- MODULE Marshalling -----------------------------
(***************************************************************************)
(* One message on its way between Java and the wire.                       *)
(*                                                                         *)
(* object.c converts the arguments of a message along its signature, a     *)
(* string the scanner derives from the protocol: the version that          *)
(* introduced the message, if that is not 1, and a letter for each         *)
(* argument, after '?' where null is allowed.  Four callers share the two  *)
(* conversions and count the arguments each in its own way:                *)
(* Resource.postEvent and Proxy.marshal on the way out, the dispatchers of *)
(* resources and of proxies on the way in.  The letters u and h behave     *)
(* like i and are left out; a new_id without an interface is three         *)
(* arguments, s, u and n.                                                  *)
(***************************************************************************)
EXTENDS Naturals, Sequences, FiniteSets

CONSTANTS Callers,   \* the callers looked at
          Versions,  \* versions of interfaces
          MaxArgs    \* bound on the arguments of a message

AllCallers == {"postEvent", "marshal", "dispatchRequest", "dispatchEvent"}

ASSUME MarshallingAssumption ==
  /\ Callers \subseteq AllCallers
  /\ Versions \subseteq Nat \ {0}
  /\ MaxArgs \in Nat

-----------------------------------------------------------------------------
(* Messages and their signatures. *)

Letters == {"i", "f", "s", "o", "n", "a"}

\* Only strings and objects may be declared nullable.
Args ==
  [type : Letters, nullable : {FALSE}] \cup [type : {"s", "o"}, nullable : {TRUE}]

\* The arguments of a message as they are passed, in order.
ArgLists == UNION {[1 .. n -> Args] : n \in 0 .. MaxArgs}

Messages == [since : Versions, args : ArgLists]

\* writeMessageInfo, as get_next_argument reads it back: the version is an item
\* of its own, '?' is not.
Signature(msg) ==
  (IF msg.since = 1 THEN << >> ELSE << [type |-> "since", nullable |-> FALSE] >>)
    \o msg.args

MutCountForgetsArray(caller, sig) ==
  Cardinality({k \in DOMAIN sig : sig[k].type \in Letters \ {"a"}})

\* How many arguments the caller counts: Proxy.marshal whatever is not a '?',
\* the others only letters.
ArgCount(caller, sig) ==
  IF caller = "marshal" THEN Len(sig)
  ELSE Cardinality({k \in DOMAIN sig : sig[k].type \in Letters})

MutRefLetters(caller) == {"f", "s", "o", "a"}

\* The local references the dispatchers make room for, beside two of their own.
RefLetters(caller) ==
  {"f", "s", "o", "a"} \cup (IF caller = "dispatchEvent" THEN {"n"} ELSE {})

Room(caller, sig) ==
  Cardinality({k \in DOMAIN sig : sig[k].type \in RefLetters(caller)}) + 2

MutNewIdType(caller) == IF caller = "dispatchEvent" THEN "Proxy" ELSE "Resource"

\* A new object is there already in a client, and yet to be made in a server.
NewIdType(caller) == IF caller = "dispatchEvent" THEN "Proxy" ELSE "int"

\* The k-th of a set of positions.
Nth(positions, k) ==
  CHOOSE p \in positions : Cardinality({q \in positions : q <= p}) = k

\* The positions whose letter get_java_method knows; it skips the others.
Known(sig) == {k \in DOMAIN sig : sig[k].type \in Letters \ {"a"}}

\* The Java type that each letter stands for in the method that get_java_method
\* looks up, for a request in a server and an event in a client.
MethodTypes(caller, msg) ==
  LET sig == Signature(msg)
      letter(k) == sig[Nth(Known(sig), k)].type
  IN [k \in 1 .. Cardinality(Known(sig)) |->
        CASE letter(k) = "i" -> "int"
          [] letter(k) = "f" -> "Fixed"
          [] letter(k) = "s" -> "String"
          [] letter(k) = "o" -> IF caller = "dispatchEvent" THEN "Proxy" ELSE "Resource"
          [] letter(k) = "n" -> NewIdType(caller)]

\* The parameters of the interface method the scanner writes for a request.
RequestTypes(msg) ==
  [k \in DOMAIN msg.args |->
     CASE msg.args[k].type \in {"i", "n"} -> "int"
       [] msg.args[k].type = "f" -> "Fixed"
       [] msg.args[k].type = "s" -> "String"
       [] msg.args[k].type = "o" -> "Resource"
       [] msg.args[k].type = "a" -> "ByteBuffer"]

-----------------------------------------------------------------------------

VARIABLES
  call,     \* the caller, the message, the version its object is bound to and
            \* the arguments that are null
  pc,       \* "start", "convert", "undo", "post", "call" or "done"
  i,        \* the arguments converted so far
  args,     \* args[k]: what slot k was converted as, "unset" if it was not
  owned,    \* the slots that point to memory the conversion allocated
  block,    \* the array of the slots is allocated
  refs,     \* the local references held in the dispatcher's frame
  pending,  \* a Java exception is pending
  outcome   \* "none" yet, "sent", "called", "thrown" or "crashed"

vars == << call, pc, i, args, owned, block, refs, pending, outcome >>

sig == Signature(call.msg)
count == ArgCount(call.caller, sig)
Outgoing == call.caller \in {"postEvent", "marshal"}

TypeOK ==
  /\ call \in [caller : Callers, msg : Messages, bound : Versions,
               null : SUBSET (1 .. MaxArgs)]
  /\ pc \in {"start", "convert", "undo", "post", "call", "done"}
  /\ i \in 0 .. Len(sig)
  /\ args \in Seq(Letters \cup {"null", "unset"})
  /\ owned \subseteq DOMAIN args
  /\ block \in BOOLEAN
  /\ refs \in 0 .. Len(sig) + 2
  /\ pending \in BOOLEAN
  /\ outcome \in {"none", "sent", "called", "thrown", "crashed"}

\* Null comes where a string or an object is expected, allowed or not.
Init ==
  /\ call \in [caller : Callers, msg : Messages, bound : Versions,
               null : SUBSET (1 .. MaxArgs)]
  /\ call.null \subseteq {k \in DOMAIN call.msg.args : call.msg.args[k].type \in {"s", "o"}}
  /\ pc = "start"
  /\ i = 0
  /\ args = << >>
  /\ owned = {}
  /\ block = FALSE
  /\ refs = 0
  /\ pending = FALSE
  /\ outcome = "none"

-----------------------------------------------------------------------------
(* The way out. *)

\* Resource.postEvent throws for an event newer than its resource, and goes on.
TooNew == call.caller = "postEvent" /\ call.msg.since > call.bound

Start ==
  /\ pc = "start"
  /\ Outgoing
  /\ pending' = TooNew
  /\ block' = TRUE
  /\ args' = [k \in 1 .. count |-> "unset"]
  /\ pc' = "convert"
  /\ UNCHANGED << call, i, owned, refs, outcome >>

\* malloc fails.
StartFails ==
  /\ pc = "start"
  /\ pending' = TRUE
  /\ outcome' = "thrown"
  /\ pc' = "done"
  /\ UNCHANGED << call, i, args, owned, block, refs >>

Converting == pc = "convert" /\ i < count
Type == sig[i + 1].type

MutConvertOutStoresAll ==
  /\ Converting /\ Outgoing
  /\ ~pending
  /\ i < Len(call.msg.args)
  /\ args' = [args EXCEPT ![i + 1] = Type]
  /\ i' = i + 1
  /\ UNCHANGED << call, pc, owned, block, refs, pending, outcome >>

\* The argument that is next in the Java array, if there is one and no exception
\* is pending, is stored as the next item of the signature demands; the version
\* demands nothing.  (If that is not what the argument is, JNI may do anything.)
ConvertOut ==
  /\ Converting /\ Outgoing
  /\ ~pending
  /\ i < Len(call.msg.args)
  /\ LET null == i + 1 \in call.null /\ Type \in {"s", "o"}
     IN /\ args' = CASE Type = "since" -> args
                     [] null -> [args EXCEPT ![i + 1] = "null"]
                     [] OTHER -> [args EXCEPT ![i + 1] = Type]
        /\ owned' = IF Type = "a" \/ (Type = "s" /\ ~null) THEN owned \cup {i + 1} ELSE owned
  /\ i' = i + 1
  /\ UNCHANGED << call, pc, block, refs, pending, outcome >>

\* An exception is pending, or the Java array is too short, or there is no
\* memory for a string or an array.
ConvertOutFails ==
  /\ Converting /\ Outgoing
  /\ pending \/ i >= Len(call.msg.args) \/ Type \in {"s", "a"}
  /\ pending' = TRUE
  /\ pc' = "undo"
  /\ UNCHANGED << call, i, args, owned, block, refs, outcome >>

MutFreedSkipsOne(n) == {k \in 1 .. n - 1 : sig[k].type \in {"s", "a"}}

\* The slots wl_jni_arguments_from_java_destroy frees.
Freed(n) == {k \in 1 .. n : sig[k].type \in {"s", "a"}}

\* The conversion failed at argument i + 1: those before it are freed, and the
\* caller returns with the exception; the array of the slots stays allocated.
Undo ==
  /\ pc = "undo"
  /\ owned' = owned \ Freed(i)
  /\ outcome' = "thrown"
  /\ pc' = "done"
  /\ UNCHANGED << call, i, args, block, refs, pending >>

MutConvertedUnchecked ==
  /\ pc = "convert" /\ i = count
  /\ Outgoing
  /\ outcome' = "sent"
  /\ pc' = "post"
  /\ UNCHANGED << call, i, args, owned, block, refs, pending >>

\* All arguments are converted; an exception that is pending prevails.
Converted ==
  /\ pc = "convert" /\ i = count
  /\ Outgoing
  /\ outcome' = IF pending THEN "thrown" ELSE "sent"
  /\ pc' = IF pending THEN "done" ELSE "post"
  /\ UNCHANGED << call, i, args, owned, block, refs, pending >>

\* The message is sent, and what the conversion allocated is freed.
Posted ==
  /\ pc = "post"
  /\ owned' = owned \ Freed(count)
  /\ block' = FALSE
  /\ pc' = "done"
  /\ UNCHANGED << call, i, args, refs, pending, outcome >>

-----------------------------------------------------------------------------
(* The way in. *)

\* PushLocalFrame fails: the slots are not freed.
StartInFails ==
  /\ pc = "start"
  /\ ~Outgoing
  /\ pending' = TRUE
  /\ block' = TRUE
  /\ outcome' = "thrown"
  /\ pc' = "done"
  /\ UNCHANGED << call, i, args, owned, refs >>

\* The dispatcher has its own two references: the object and what it calls.
StartIn ==
  /\ pc = "start"
  /\ ~Outgoing
  /\ block' = TRUE
  /\ args' = [k \in 1 .. count |-> "unset"]
  /\ refs' = 2
  /\ pc' = "convert"
  /\ UNCHANGED << call, i, owned, pending, outcome >>

MutIllegal == Type = "since"

Illegal ==
  \/ Type = "since"
  \/ i + 1 \in call.null /\ Type \in {"s", "o"} /\ ~sig[i + 1].nullable

\* The letters whose Java value is an object.
ObjectLetters ==
  {"f", "s", "o", "a"} \cup (IF call.caller = "dispatchEvent" THEN {"n"} ELSE {})

\* A proxy, unlike a resource, is looked up without regard for null.
Crashes == call.caller = "dispatchEvent" /\ Type = "o" /\ i + 1 \in call.null

ConvertIn ==
  /\ Converting /\ ~Outgoing
  /\ ~Illegal /\ ~Crashes
  /\ LET null == i + 1 \in call.null /\ Type \in {"s", "o"}
     IN /\ args' = [args EXCEPT ![i + 1] = IF null THEN "null" ELSE Type]
        /\ refs' = IF Type \in ObjectLetters /\ ~null THEN refs + 1 ELSE refs
  /\ i' = i + 1
  /\ UNCHANGED << call, pc, owned, block, pending, outcome >>

ConvertInCrashes ==
  /\ Converting /\ ~Outgoing
  /\ ~Illegal /\ Crashes
  /\ outcome' = "crashed"
  /\ pc' = "done"
  /\ UNCHANGED << call, i, args, owned, block, refs, pending >>

\* NullPointerException, IllegalArgumentException for the version, or no memory
\* for an object: the frame is popped and the slots are freed.
ConvertInFails ==
  /\ Converting /\ ~Outgoing
  /\ Illegal \/ Type \in ObjectLetters
  /\ pending' = TRUE
  /\ block' = FALSE
  /\ refs' = 0
  /\ outcome' = "thrown"
  /\ pc' = "done"
  /\ UNCHANGED << call, i, args, owned >>

\* The handler is called.
Call ==
  /\ pc = "convert" /\ i = count
  /\ ~Outgoing
  /\ outcome' = "called"
  /\ pc' = "call"
  /\ UNCHANGED << call, i, args, owned, block, refs, pending >>

Return ==
  /\ pc = "call"
  /\ block' = FALSE
  /\ refs' = 0
  /\ pc' = "done"
  /\ UNCHANGED << call, i, args, owned, pending, outcome >>

Next ==
  \/ Start \/ StartFails \/ ConvertOut \/ ConvertOutFails \/ Undo \/ Converted \/ Posted
  \/ StartIn \/ StartInFails \/ ConvertInCrashes \/ ConvertIn \/ ConvertInFails \/ Call \/ Return

Spec == Init /\ [][Next]_vars

-----------------------------------------------------------------------------
(* Properties. *)

\* The slots hold the message, argument by argument.
Complete ==
  /\ Len(args) = Len(call.msg.args)
  /\ \A k \in DOMAIN args :
       args[k] = IF k \in call.null THEN "null" ELSE call.msg.args[k].type

\* wl_jni_arguments_from_java "converts the java array of java-formatted
\* arguments to wayland-formatted arguments and stores them in args".
SentIsComplete == outcome = "sent" => Complete

\* The same of the messages the first version of an interface has.
FirstVersionIsComplete == call.msg.since = 1 => SentIsComplete

\* A handler sees the message as it was sent, and null only where the protocol
\* allows it.
CalledIsLegal ==
  outcome = "called" =>
    /\ Complete
    /\ \A k \in call.null : call.msg.args[k].nullable

\* An event that is newer than its resource never goes out: the exception
\* postEvent leaves pending stops it, however many arguments there are.
NewerIsNotSent == outcome = "sent" => ~TooNew

\* No string or array that a conversion made outlives the call, wherever the
\* conversion stopped.
ElementsAreFreed == pc = "done" => owned = {}

\* The frame of local references the dispatcher asks for is large enough.
RefsFit == ~Outgoing => refs <= Room(call.caller, sig)

\* The method looked up for a request is the one the scanner wrote, unless an
\* array is among its arguments.
HandlerIsFound ==
  call.caller = "dispatchRequest"
    /\ (\A k \in DOMAIN call.msg.args : call.msg.args[k].type # "a")
  => MethodTypes(call.caller, call.msg) = RequestTypes(call.msg)
=============================================================================
