--------------------------- MODULE ServerResource ---------------------------
(***************************************************************************)
(* org.freedesktop.wayland.server.Resource: the Java peers of the          *)
(* wl_resources of a client, and the dispatcher that calls their           *)
(* implementations.                                                        *)
(*                                                                         *)
(* The thread of the event loop is a stack of calls that alternate between *)
(* libwayland and Java.  libwayland dispatches a request of a client, and  *)
(* destroys a client with all its resources; both run application code: a  *)
(* handler, or the onDestroy of a listener, which may construct, use and   *)
(* destroy resources in turn.  A global reference keeps the Java object of *)
(* a resource; Resource.resource_ptr is zeroed by Resource.destroy only.   *)
(***************************************************************************)
EXTENDS Naturals, Sequences

CONSTANTS Clients,    \* clients of the display
          Resources,  \* Resource objects, each constructed at most once
          None,
          Moves       \* what may happen beyond the plain use

\* "throw": a request cannot be converted, or its handler throws.
\* "noReport": the message of an exception cannot be had.
\* "noNative": the constructor of a Resource fails.
\* "unset": a request arrives for a resource without an implementation.
\* "useDead": the application uses a Resource whose native is gone or going.
\* "throwDead": a handler destroys its resource and throws.
\* "ownClient": a handler or a listener of a resource destroys its client.
ASSUME ResourceAssumption ==
  /\ None \notin Clients \cup Resources
  /\ Clients \cap Resources = {}
  /\ Moves \subseteq {"throw", "noReport", "noNative", "unset", "useDead",
                      "throwDead", "ownClient"}

VARIABLES
  client,  \* client[c]: "live", "dying" or "gone"
  error,   \* error[c]: the protocol error posted first to c
  owner,   \* owner[r]: the client r was constructed for
  native,  \* native[r]: "unborn", "live", "dying" (its destroy signal is being
           \* emitted) or "freed"
  ptr,     \* the Resource objects whose resource_ptr is not 0
  ref,     \* the Resource objects a global reference keeps
  impl,    \* the Resource objects with an implementation
  calls,   \* the calls in progress, innermost first
  misused, \* history: the application has done what it must not (FaultsAreMisuse)
  fault    \* who followed a pointer to nowhere, "none" if nobody

vars == << client, error, owner, native, ptr, ref, impl, calls, misused, fault >>

Errors == {"request", "method", "memory"}

\* "request": the handler of a request for the resource "of" runs.  "destroy"
\* and "release": its destroy listeners run, in Resource.destroy and in the
\* destruction of the client.  "farewell": the destroy listeners of the client
\* "of" run; "sweep": libwayland destroys its resources.
Calls == [kind : {"request", "destroy", "release"}, of : Resources]
           \cup [kind : {"farewell", "sweep"}, of : Clients]

TypeOK ==
  /\ client \in [Clients -> {"live", "dying", "gone"}]
  /\ error \in [Clients -> Errors \cup {None}]
  /\ owner \in [Resources -> Clients \cup {None}]
  /\ native \in [Resources -> {"unborn", "live", "dying", "freed"}]
  /\ ptr \in SUBSET Resources
  /\ ref \in SUBSET Resources
  /\ impl \in SUBSET Resources
  /\ calls \in Seq(Calls)
  /\ misused \in BOOLEAN
  /\ fault \in {"none", "app", "dispatcher"}

Init ==
  /\ client = [c \in Clients |-> "live"]
  /\ error = [c \in Clients |-> None]
  /\ owner = [r \in Resources |-> None]
  /\ native = [r \in Resources |-> "unborn"]
  /\ ptr = {}
  /\ ref = {}
  /\ impl = {}
  /\ calls = << >>
  /\ misused = FALSE
  /\ fault = "none"

-----------------------------------------------------------------------------

Running == fault = "none"

In(kind) == calls # << >> /\ Head(calls).kind = kind

\* Java code of the application runs.
AppRuns == Running /\ ~In("sweep")

\* The function that marks c with error e; the first error stands.
Posted(c, e) == [error EXCEPT ![c] = IF @ = None THEN e ELSE @]

Exists(r) == native[r] \in {"live", "dying"}

\* Resources can be added to c.  (libwayland does not support adding one while
\* it walks over those of the client.)
Open(c) == client[c] = "live" \/ \E i \in DOMAIN calls : calls[i] = [kind |-> "farewell", of |-> c]

\* A handler or Resource.destroy of a resource of c is in progress.
Busy(c) ==
  \E i \in DOMAIN calls :
    calls[i].kind \in {"request", "destroy"} /\ owner[calls[i].of] = c

-----------------------------------------------------------------------------
(* The application. *)

\* new Resource(client, iface, version, id)
Construct(r, c) ==
  /\ AppRuns
  /\ native[r] = "unborn" /\ owner[r] = None
  /\ Open(c)
  /\ native' = [native EXCEPT ![r] = "live"]
  /\ owner' = [owner EXCEPT ![r] = c]
  /\ ptr' = ptr \cup {r}
  /\ ref' = ref \cup {r}
  /\ UNCHANGED << client, error, impl, calls, misused, fault >>

\* A null client or interface, no global reference or no wl_resource: the
\* reference, if there was one, is deleted and the constructor throws.
ConstructFails(r, c) ==
  /\ AppRuns
  /\ "noNative" \in Moves
  /\ native[r] = "unborn" /\ owner[r] = None
  /\ owner' = [owner EXCEPT ![r] = c]
  /\ UNCHANGED << client, error, native, ptr, ref, impl, calls, misused, fault >>

\* Resource.setImplementation: only the first counts.
SetImplementation(r) ==
  /\ AppRuns
  /\ native[r] # "unborn"
  /\ r \notin impl
  /\ impl' = impl \cup {r}
  /\ UNCHANGED << client, error, owner, native, ptr, ref, calls, misused, fault >>

\* Resource.destroy, up to the listeners of the destroy signal.
Destroy(r) ==
  /\ AppRuns
  /\ r \in ptr
  /\ native[r] = "live"
  /\ native' = [native EXCEPT ![r] = "dying"]
  /\ calls' = << [kind |-> "destroy", of |-> r] >> \o calls
  /\ UNCHANGED << client, error, owner, ptr, ref, impl, misused, fault >>

\* Resource.postError
PostError(r) ==
  /\ AppRuns
  /\ r \in ptr
  /\ Exists(r)
  /\ error' = Posted(owner[r], "request")
  /\ UNCHANGED << client, owner, native, ptr, ref, impl, calls, misused, fault >>

\* Any method that goes through resource_ptr when the native is gone: only
\* getClient, getId and destroy look for a null pointer, none for a freed one.
\* It is misuse if the object shows that its native is gone, or the client is.
UseDead(r) ==
  /\ AppRuns
  /\ "useDead" \in Moves
  /\ native[r] = "freed"
  /\ misused' = (misused \/ r \notin ptr \/ client[owner[r]] # "live")
  /\ fault' = "app"
  /\ UNCHANGED << client, error, owner, native, ptr, ref, impl, calls >>

\* Resource.destroy in a listener of the same resource destroys it twice.
DestroyAgain(r) ==
  /\ AppRuns
  /\ "useDead" \in Moves
  /\ r \in ptr
  /\ native[r] = "dying"
  /\ misused' = TRUE
  /\ fault' = "app"
  /\ UNCHANGED << client, error, owner, native, ptr, ref, impl, calls >>

-----------------------------------------------------------------------------
(* The end of a resource. *)

MutResourceDestroyedKeepsPtr ==
  /\ Running
  /\ In("destroy") \/ In("release")
  /\ LET r == Head(calls).of
     IN /\ native' = [native EXCEPT ![r] = "freed"]
        /\ ref' = ref \ {r}
  /\ calls' = Tail(calls)
  /\ UNCHANGED << client, error, owner, ptr, impl, misused, fault >>

MutResourceDestroyedKeepsRef ==
  /\ Running
  /\ In("destroy") \/ In("release")
  /\ LET r == Head(calls).of
     IN /\ native' = [native EXCEPT ![r] = "freed"]
        /\ ptr' = IF In("destroy") THEN ptr \ {r} ELSE ptr
  /\ calls' = Tail(calls)
  /\ UNCHANGED << client, error, owner, ref, impl, misused, fault >>

\* The listeners have returned: resource_destroyed deletes the reference,
\* libwayland frees the resource and Resource.destroy zeroes the pointer.
ResourceDestroyed ==
  /\ Running
  /\ In("destroy") \/ In("release")
  /\ LET r == Head(calls).of
     IN /\ native' = [native EXCEPT ![r] = "freed"]
        /\ ref' = ref \ {r}
        /\ ptr' = IF In("destroy") THEN ptr \ {r} ELSE ptr
  /\ calls' = Tail(calls)
  /\ UNCHANGED << client, error, owner, impl, misused, fault >>

-----------------------------------------------------------------------------
(* The end of a client. *)

\* wl_client_destroy: by libwayland when the client hangs up or has an error
\* posted, or by the application; emits the destroy signal of the client.  It
\* is misuse where a call for a resource of the client is still to return.
DestroyClient(c) ==
  /\ AppRuns
  /\ client[c] = "live"
  /\ Busy(c) => "ownClient" \in Moves
  /\ client' = [client EXCEPT ![c] = "dying"]
  /\ calls' = << [kind |-> "farewell", of |-> c] >> \o calls
  /\ misused' = (misused \/ Busy(c))
  /\ UNCHANGED << error, owner, native, ptr, ref, impl, fault >>

FarewellDone ==
  /\ Running
  /\ In("farewell")
  /\ calls' = << [kind |-> "sweep", of |-> Head(calls).of] >> \o Tail(calls)
  /\ UNCHANGED << client, error, owner, native, ptr, ref, impl, misused, fault >>

\* The next of the client's resources goes: a second time, if it is the one
\* whose Resource.destroy led here.
Sweep ==
  /\ Running
  /\ In("sweep")
  /\ \E r \in Resources :
       /\ owner[r] = Head(calls).of
       /\ Exists(r)
       /\ native' = [native EXCEPT ![r] = "dying"]
       /\ calls' = << [kind |-> "release", of |-> r] >> \o calls
       /\ fault' = IF native[r] = "dying" THEN "app" ELSE fault
  /\ UNCHANGED << client, error, owner, ptr, ref, impl, misused >>

ClientDestroyed ==
  /\ Running
  /\ In("sweep")
  /\ LET c == Head(calls).of
     IN /\ \A r \in Resources : owner[r] = c => ~Exists(r)
        /\ client' = [client EXCEPT ![c] = "gone"]
  /\ calls' = Tail(calls)
  /\ UNCHANGED << error, owner, native, ptr, ref, impl, misused, fault >>

-----------------------------------------------------------------------------
(* wl_jni_resource_dispatcher. *)

\* libwayland has a request for r.
Arrives(r) ==
  /\ Running
  /\ calls = << >>
  /\ native[r] = "live"
  /\ client[owner[r]] = "live"

\* The arguments are converted and the handler is called.
Request(r) ==
  /\ Arrives(r)
  /\ r \in impl
  /\ calls' = << [kind |-> "request", of |-> r] >>
  /\ UNCHANGED << client, error, owner, native, ptr, ref, impl, misused, fault >>

\* The handler is called on a null implementation.
RequestUnset(r) ==
  /\ Arrives(r)
  /\ "unset" \in Moves
  /\ r \notin impl
  /\ fault' = "dispatcher"
  /\ UNCHANGED << client, error, owner, native, ptr, ref, impl, calls, misused >>

\* handle_resource_errors: an OutOfMemoryError, a NoSuchMethodError and a
\* RequestError become protocol errors, the latter two if their message can be
\* had; any other exception is only described.
HandleErrors(r, e) ==
  \/ /\ e # "other"
     /\ error' = Posted(owner[r], e)
     /\ fault' = IF Exists(r) THEN fault ELSE "dispatcher"
  \/ /\ e = "other" \/ (e # "memory" /\ "noReport" \in Moves)
     /\ UNCHANGED << error, fault >>

\* No memory for the arguments, or an argument is no legal Java value.
RequestFails(r) ==
  /\ Arrives(r)
  /\ "throw" \in Moves
  /\ \E e \in {"memory", "other"} : HandleErrors(r, e)
  /\ UNCHANGED << client, owner, native, ptr, ref, impl, calls, misused >>

\* libwayland looks at the client again after the dispatch.
HandlerReturns ==
  /\ Running
  /\ In("request")
  /\ calls' = Tail(calls)
  /\ fault' = IF client[owner[Head(calls).of]] = "gone" THEN "app" ELSE fault
  /\ UNCHANGED << client, error, owner, native, ptr, ref, impl, misused >>

HandlerThrows(e) ==
  /\ Running
  /\ "throw" \in Moves
  /\ In("request")
  /\ Exists(Head(calls).of) \/ "throwDead" \in Moves
  /\ client[owner[Head(calls).of]] # "gone"
  /\ HandleErrors(Head(calls).of, e)
  /\ calls' = Tail(calls)
  /\ UNCHANGED << client, owner, native, ptr, ref, impl, misused >>

-----------------------------------------------------------------------------

Application ==
  \/ \E r \in Resources, c \in Clients : Construct(r, c) \/ ConstructFails(r, c)
  \/ \E r \in Resources : \/ SetImplementation(r) \/ Destroy(r) \/ PostError(r)
                          \/ UseDead(r) \/ DestroyAgain(r)
  \/ \E c \in Clients : DestroyClient(c)

Arrivals ==
  \E r \in Resources : Request(r) \/ RequestUnset(r) \/ RequestFails(r)

\* What ends the innermost call.
Progress ==
  \/ ResourceDestroyed
  \/ FarewellDone \/ Sweep \/ ClientDestroyed
  \/ HandlerReturns \/ \E e \in Errors \cup {"other"} : HandlerThrows(e)

Next == Application \/ Arrivals \/ Progress

\* Handlers and listeners return, and libwayland goes on.
Spec == Init /\ [][Next]_vars /\ WF_vars(Progress)

-----------------------------------------------------------------------------
(* Properties. *)

\* The Java object of a resource is kept from the collector exactly as long as
\* libwayland can dispatch to it, whoever destroys the resource and however the
\* destructions nest.
KeptWhileNative == ref = {r \in Resources : Exists(r)}

\* The application meets a freed resource, and a resource is destroyed twice or a
\* client under its own request, only after misuse: to use what it has destroyed
\* or what went with its client, to destroy a resource in its own onDestroy, or a
\* client in a handler or a Resource.destroy of one of its resources.  Every other
\* order in which handlers and listeners destroy resources and clients is safe.
FaultsAreMisuse == fault = "app" => misused

\* A client whose destruction has begun goes, with its resources and the
\* references to their objects, whatever else the listeners destroy on the way.
DyingClientReleases ==
  \A c \in Clients :
    client[c] = "dying" ~>
      \/ ~Running
      \/ client[c] = "gone" /\ \A r \in ref : owner[r] # c
=============================================================================
