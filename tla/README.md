# A TLA+ model of wayland-java

wayland-java binds libwayland to Java: native code (`wayland/src/main/native/src`)
keeps Java objects and the C objects of libwayland together, calls Java handlers
from the loops of libwayland, and converts messages between the two; a scanner
writes the Java classes of a protocol. Nearly everything that can go wrong is about
*lifetimes*: an object has a native life (libwayland frees it when it likes), a Java
life (references, the finalizer thread, the collector) and pointers, registrations
and global references between the two, and every callback runs application code
that may end any of these lives half-way through a C function.

The modules here model those lives, and the conversion of messages, one component
at a time. They are checked by TLC on small instances; the safety properties of all
of them are proved for every instance, and for three of them that they implement
one abstract promise.

Paths below are relative to `src/wayland/src/main/`: `c/` stands for
`native/src/`, `j/` for `java/org/freedesktop/wayland/`.

## 1. The system

| component | state it keeps | operations | who else acts on it | correct when |
|---|---|---|---|---|
| object wrappers and registry: `c/server/native_object_wrapper.c`, `c/wayland-jni.c`, `j/server/NativeObjectWrapper.java` | `data_ptr` of the Java object, the wrapper's `data`, `self_ref`, listener link; the list of (pointer, reference) pairs | set data, own, disown, register, find, unregister | destroy signals, finalizer thread | a pointer is found as the peer of the object that lives there now, once Java has seen that object |
| peers of clients and event loops: `c/server/client.c`, `j/server/Client.java`, `getEventLoop` in `c/server/display.c`, `c/server/event_loop.c` | the above for `wl_client` and `wl_event_loop`, in one registry | create, look up, flush, destroy, finalize, startClient | clients that connect and hang up, displays that are destroyed with their loops | one peer for each native Java has seen, of its class, kept while the native lives, never used through a dead pointer |
| object cache and helpers: `c/wayland-jni.c`, `c/fixed.c` | classes and method IDs, a flag, a mutex; three more of `fixed.c` | load on first use, throw, convert strings, unbox, convert a `Fixed` | other threads, the finalizer's among them | each call returns, no entry is used before it is there, who fails has thrown |
| destroy listeners: `c/server/listener.c` | `listener_ptr`, a node in a signal's list | add, detach, notify | libwayland's walk of the list, nested destructions | called once per attachment, nothing freed is followed |
| shared memory pools: `c/shm_pool.c`, `j/ShmPool.java` | descriptor, mapping, buffer | create, from descriptor, resize, close, finalize | the kernel's reuse of descriptors and addresses | unmaps only its own, shows its own file, keeps no region without a buffer |
| event loops: `c/server/event_loop.c` | one `event_handler` per source | add a descriptor, a signal, an idle handler; dispatch; finalize | handlers, the idle pass, the finalizer | each handler freed once, owned as long as it lives |
| resources: `c/server/resource.c` | `resource_ptr`, a global reference in the user data, implementation | create, destroy, post, dispatch | clients that go, handlers that destroy | referenced exactly until destroyed, and no freed one met by an application that keeps to the rules |
| message conversion: `c/object.c`, callers in `resource.c`, `proxy.c`; scanner `Message.java`, `Argument.java`, `Request.java` | slots, allocations, local references | convert out, convert in, free | exceptions, nulls, failing allocations | what arrives is what was given; everything allocated is freed |
| interface tables: `c/interface.c`, `j/Interface.java` | `interface_ptr`, tables that point to tables | build on demand, free in the finalizer | other threads, the finalizer | every table that can be read is whole |
| client proxies and connection: `c/client/proxy.c`, `c/client/display.c` | `proxy_ptr`, a global reference in the user data, listener; event queue | create, destroy, marshal, dispatch, disconnect | listeners, nested dispatch | events find their proxy, no Java runs over an exception |
| displays and globals: `c/server/display.c`, `c/server/global.c` | strong registration of the display, a global reference per global | create, destroy, bind, look up, finalize | clients that bind, other threads, the finalizer | the pointer of a display leads to its own object |
| event queues, `Fixed` arithmetic, library loading, scanner output, example, builds | | | | not modelled, see section 7 |

What is hard here: calls nest (libwayland inside Java inside libwayland); the
finalizer thread runs beside the loop; addresses and descriptors are used again; an
exception pending in native code forbids most calls until it is handled; a failing
allocation leaves a half-made object; lists are walked while their nodes are freed.
`PROJECT.json` lists each such place with its line under `hazards`.

## 2. The modules

| module | code | what it is |
|---|---|---|
| `NativeObjectWrapper` | wrappers and registry | the state and the pieces of code shared by wrapped objects |
| `ServerPeers` | `Client`, peers of `EventLoop` | the specification made of them: libwayland, application and collector |
| `ObjectCache` | `wayland-jni.c`, `fixed.c` | threads that run the helpers, step by step |
| `DestroyListener` | `DestroyListener` | the walk of a signal and the code run in it |
| `OneShotListener` | | the abstract promise `DestroyListener` implements |
| `ShmPool` | `ShmPool` | pools over the process's descriptors and mappings |
| `ServerEventLoop` | `EventLoop` | handlers and nested dispatches |
| `ServerResource` | `Resource`, dispatcher | a stack of calls of libwayland and Java |
| `Marshalling` | `object.c` and its four callers | one message on its way |
| `InterfaceTable` | `interface.c` | tables built by threads and freed by the finalizer |
| `ClientProxy` | `Proxy`, `Display.dispatch` | proxies, event queue, nested dispatch |
| `ServerDisplay` | server `Display`, `Global` | registration by pointer and global references |
| `PinnedPeer` | | the abstract promise of proxies, globals and the wrappers of clients and loops |
| `WlList` | `wl_list` | lists of distinct nodes, shared by `ServerEventLoop` and `DestroyListener` |
| `...Proofs` | | the theorems about `ServerPeers`, `ObjectCache`, `ClientProxy`, `ServerDisplay`, `ServerResource`, `ServerEventLoop`, `Marshalling`, `InterfaceTable`; those about `DestroyListener` are in the second half of `ServerEventLoopProofs`, those about `PinnedPeer` and `ShmPool` in `ClientProxyProofs` |
| `MC...` | | instances for TLC |

How they compose:

* `ServerPeers` extends `NativeObjectWrapper` and puts its two users, clients and
  event loops, over one heap, one allocator and one registry: an address a client
  gave up may become a loop's, and the pair left in the registry must not lead the
  lookup of the loop to a `Client`. The loop of a display dies with its display; a loop
  made by `new EventLoop()` is destroyed by its finalizer only.
* `ClientProxy`, `ServerDisplay` and `ServerPeers` each instantiate `PinnedPeer`
  under a refinement mapping: a Java object whose native calls back into it is pinned by
  a global reference as long as the native lives, and reclaimed only afterwards.
  For proxies and the wrappers of clients and loops the promise is prompt (the
  reference goes with the native), for globals it is not: `global.c` never deletes it.
  `ServerResource` has no collector, and states the same of resources directly
  (`KeptWhileNative`).
* `DestroyListener` instantiates `OneShotListener`. That every step of the one is a step or
  a stutter of the other is proved; the liveness of the promise is left to TLC.
* `DestroyListener` and `ShmPool` give their definitions names no other module has
  (`ListenerInit`, `PoolSpec`, ...), so that `ServerEventLoopProofs` and `ClientProxyProofs` can extend
  them next to the module they are named for; nothing composes the two.
* `ObjectCache` has the registry as one of its helpers (`"registry"`), since
  `wl_jni_register_weak_reference` takes the same mutex; `NativeObjectWrapper` relies on
  that each of these functions is one step.
* `ServerResource` has the destruction of a client, `ServerDisplay` that of a display:
  the part of the neighbour that matters to them.

### How state and actions correspond to the code

An action is one native call, or, where the call runs application code, the part of it
between two such points. What follows the callback is an action of its own, with the locals
the code still has kept in a stack frame (`walks`, `frames`, `calls`, `stack`). In
`ObjectCache`, where threads interleave inside the native code, a step is one access to the
shared cache, the flag or the mutex. A whole function with its early returns, error paths
and cleanup is in its action; a call that fails is a variant of the action with a guard on
the constant `Moves` (or `Failures`), so that a cfg can be read as the list of things that
may go wrong. Where the code does not check the call the variant goes on as the code does:
`Display.create` with no `wl_display` or no registration, `fixed.c` with a NULL class, field
or method, `mapNative` with a region and no buffer. Failures with the same effect share a
variant, and those of plain JNI accesses to fields the class is known to have are left out.
History variables (`made`, `served`, `mine`, `of`, `raised`, `reported`, `crossed`, `stray`,
`misused`) are marked as such.

* **Native memory.** An object is `unborn`, `live` or `freed`, and may have an
  address. Each model value is allocated once; the *address* is what is used
  again (`ServerPeers`, `ServerDisplay`, `ShmPool`), because it is by address that
  the code finds things.
* **Java heap.** `held` is what the application can reach, global references are
  their own sets, and an object neither holds can be finalized and later collected.
  In `ServerPeers` the finalizer is two steps, `Client.finalize` or `EventLoop.finalize` and
  `NativeObjectWrapper.finalize`: the object is not yet cleared from weak references
  between them and can be handed out again.
* **Registry.** The list of pairs is one stack per pointer, since lookups read only
  the pairs of their pointer and insertion is at the head. Each function of
  `wayland-jni.c` holds the mutex and is one step (its threads are in `ObjectCache`).
* **Faults.** A step that follows a dangling or null pointer, or calls Java
  with an exception pending, sets `fault`, and the process takes no further step.
  Properties about faults say when there is none.
* **libwayland.** Modelled as the code uses it and marked external in the map:
  `wl_list_for_each_safe` reads the next node first; an idle source stays queued
  until its function returns; `wl_client_destroy` emits the signal and then destroys
  the resources; an event of a destroyed proxy is dropped and a destroyed argument
  becomes NULL; `wl_display_destroy` frees the globals.

## 3. The runs

All runs finish in under three minutes with two workers. Deadlock is not checked in
any: objects are constructed at most once and get used up, and after a fault
the process stops.

| run | instance | distinct states | properties |
|---|---|---|---|
| `peers` | 2 clients, the loops of 2 displays and 1 loop of its own; 2 addresses; 2 `Client` and 2 `EventLoop` objects; creation and wrapper may fail | 794420 (symmetry) | `SeenNativeResolves`, `LiveNativePinsPeer`, `FinalizedIsNotOwned`, `ImplementsPinnedPeer` |
| `peers_finalizer` | the same, no failures | violation | `FinalizerStaysOffFreedMemory` |
| `cache` | 2 threads, 5 helpers, 2 failed attempts, all moves | 592484 | `UsesLoaded`, `FailureIsReported`, `CallsReturn`, `StableOnceLoaded` |
| `listener` | 2 objects, 3 listeners, all moves | 132567 | `ImplementsOneShot` (refinement with liveness), `NoFault`, `DyingIsFreed` |
| `pool` | 3 pools, 3 files, 3 addresses, 4 descriptors, all moves | 144510 (symmetry) | `ReadsItsFile`, `NoRegionLeaks` |
| `loop` | 2 idle, 1 descriptor, 1 signal handler, 3 dispatches, all moves | 178164 | `MemorySafe`, `HandlersOwned`, `DroppedLoopIsReleased` |
| `resource` | 2 clients, 2 resources, all moves | 142694 | `KeptWhileNative`, `FaultsAreMisuse`, `DyingClientReleases` |
| `marshalling` | 4 callers, 2 versions, messages of up to 3 arguments, of which an untyped `new_id` is three | 247045 | `FirstVersionIsComplete`, `CalledIsLegal`, `NewerIsNotSent`, `ElementsAreFreed`, `RefsFit`, `HandlerIsFound` |
| `marshalling_versions` | the two outgoing callers | violation | `SentIsComplete` |
| `interface` | 3 interfaces that name each other, 2 threads and the finalizer, 5 blocks | 973280 (symmetry) | `ReadableIsWhole`, `OnlyRacesLose`, `TablesStay` |
| `proxy` | 2 proxies, 2 events, nesting 2, 2 exceptions, all moves | 80907 | `NothingFreedWhileConnected`, `NoJavaWhilePending`, `ExceptionsReachTheCaller`, `ImplementsPinnedPeer`, `DestroyedIsReclaimed` |
| `display` | 3 displays, 1 global, 2 addresses, all moves | 490786 | `DisplayResolves`, `ImplementsPinnedPeer`, `DestroyedDisplayIsReclaimed` |

`marshalling` also checks the `TypeOK` of its module. Every module has an inductive
invariant that gives the types of its variables and is proved for every instance (section 6), so the
other runs leave it out. The invariants stand at the head of the proof modules. Whoever
changes a module states its invariant in a module that extends it and runs it as an
INVARIANT first: TLC finds in seconds what a proof would fail on.

### Why the bounds are enough

* `peers`: two addresses for five natives, so that an address passes from client to
  loop and back while the Java object of the first is still being finalized, and a loop
  that nobody but its finalizer destroys; two objects of each class so that a dead one
  is registered under the pointer a second one is looked up by. The theorems remove
  the bounds.
* `cache`: two threads make every race on the flag, the class of `OutOfMemoryError` and
  the cache of `fixed.c`; two failures give a second attempt over the results of the
  first and a third that succeeds. The helpers left out of the cfg follow the paths of
  those in it (`"IO"` and `"NullPointer"`, which only throw, that of `"toUtf8"` where it throws;
  `"toDefault"` all of it).
  The safety half is proved without these bounds.
* `listener`: two objects nest their walks (a third would nest once more in the same
  way); three listeners give a walk a node it is at, one it has read ahead and one
  behind or in the other list.
* `pool`: a pool that owns a file, one that borrowed its descriptor and a third that
  gets an address or a descriptor the first gave up; three addresses leave one for a
  region nobody owns.
* `loop`: two idle handlers so that one runs while the other waits, a descriptor
  and a signal handler in one round, three dispatches, nested or one after the other.
* `resource`: a resource destroyed in the handler of another, of the same and of
  another client; the stack is bounded by the number of objects.
* `marshalling`: the slots of a message are independent but for the version digit and
  the two extra arguments of an untyped `new_id`; three arguments give a failure
  after a success and before another argument, and an untyped `new_id` alone. The theorems
  are for every `MaxArgs`.
* `interface`: nesting three deep with a shared innermost type and a null type. A table is
  begun only while a block is left: five let two threads build the same tables at once.
  The theorems are for any set of blocks.
* `proxy`: two events so that one follows an exception, nesting two deep so that an
  exception leaves an inner dispatch; two proxies so that a listener destroys its own
  target, the argument, or the target of the queued event.
* `display`: two displays that cross at an address and a third that takes it after them;
  a second address for one that crosses nobody. One global is enough: globals share nothing
  but their display, whose end is one step for all of them; that step is in the proof of
  `GlobalsArePinned` for any number.

### Fairness

`DestroyListener`, `ServerEventLoop` and `ServerResource`: weak fairness of the steps C
makes by itself (the walk, the loop, the stack of calls). It includes the return of a
handler: that `onDestroy`, `handleX` and request handlers return is the application's part,
and the thread has nothing else to do meanwhile. `ClientProxy`: weak fairness of the
dispatch loop, and strong fairness of the end of a listener, which may be suspended in a
dispatch of its own again and again but does not dispatch for ever. `Finalize`, `Collect`:
weak fairness, an unreachable object is found in the end; Java promises no more than that of
a collector under memory pressure, and the properties that need it say "is reclaimed", not
when. `ServerDisplay`: `Display.destroy` goes on to its end, and the finalizer of a display
nobody holds runs (`FinalizeDisplay`). `ObjectCache`: weak fairness of the step of each
thread. That is enough for a thread that waits for the mutex, though another may take it in
between: attempts that fail are bounded by `MaxFailures`, a successful one is the last, and
the registry holds the mutex for one step that does not wait. There is no fairness of the
application, of arrivals or of failures, and no property needs it.

### Restrictions that are assumptions about the application

No resource is added to a client while libwayland sweeps its resources; `disconnect`
is not called from inside a dispatch call; a display is not destroyed by a bind
handler of its own; one thread uses a connection or a loop. Each is a guard in the
module with a comment. Some moves drop such a restriction, and the properties say what is
then lost, with the move done and not only allowed: `threads` (`ServerDisplay`: displays
that crossed another, `crossed`), `overlap` (`ObjectCache`), `nestIdle`
(`ServerEventLoop`: an idle handler that dispatches its own loop), `useDead` and
`ownClient` (`ServerResource`: `misused`), `useDead` (`ClientProxy`), `throw`, `detachNext`
and `attachDying` (`DestroyListener`).

## 4. What the violations show

* **A finalizer destroys a freed client or loop** (`peers_finalizer`).
  `wl_jni_object_wrapper_owned` drops its parameter `destroyed_by_owner`. When a
  client hangs up, or a display is destroyed with its loop, the wrapper is disowned and
  its `data_ptr` is not zeroed as the branch `if (destroy)` of
  `wl_jni_object_wrapper_disowned` would. `isValid()` stays true, and `Client.finalize`
  calls `wl_client_destroy`, or `EventLoop.finalize` `wl_event_loop_destroy`, on
  what was freed, or on the next native at that address.
* **Messages newer than version 1 are sent shifted** (`marshalling_versions`).
  The digit of the signature is converted as the first argument.

Three more contradict no line of the repository and are in the models as what the code
does:

* `Display.destroy` frees the display and unregisters the pointer afterwards; a display
  another thread makes meanwhile at the same address loses its registration, and the
  lookup finds the dead one (`crossed`). `DisplayResolves` is about all others, those
  that come to the address later among them.
* `Display.create` checks neither of its calls. Without a `wl_display` the object is
  registered under NULL, and stays, since `destroy` does nothing for it; without
  the registration the constructor throws, and the finalizer destroys the `wl_display`.
* `ShmPool.resize` unmaps first and assigns `buffer` last, so
  that a resize that fails leaves an open pool without a mapping, whose `close`
  unmaps the address again; when `NewDirectByteBuffer` fails after `mmap` the new region
  has no owner and stays mapped; and descriptors run out: `close` forgets the descriptor
  without closing it, though `ShmPool` is `Closeable`, an unchecked exception in the
  constructor skips its `closeNative`, and a duplicate made for `dupFD` is never closed.
  `NoRegionLeaks` holds with all of these among the moves, `ReadsItsFile` until a resize fails.

Where the code simply has no check (a null implementation, a request error posted by a
handler that destroyed its resource, a null nullable argument of an event, a `Global`
destroyed after its display, a `Display` that has no `wl_display`), the model has the step
and its `fault`, and the properties say what is still true: see the notes of the hazards.

## 5. What the properties say together

*Server.* A live client, or the loop of a live display, that Java has seen resolves to one
peer of its class, and that peer is not finalized while global references can be had
(`ServerPeers`). (One that Java has *not* seen may be taken for the dead native before it at
the address, whose pair is still registered: the code has nothing against it.) Resources
keep their Java objects exactly while they exist, are gone when the client is, and are met
freed only by an application that uses what it has destroyed, or destroys a resource or a
client from under itself (`ServerResource`). Listeners on any of these signals are one-shot
(`DestroyListener`). Handlers of the loop are owned exactly while they are allocated
(`ServerEventLoop`), but for an idle handler that dispatches its own loop. Displays that
crossed no other, and advertised globals, are found by the pointers libwayland has
(`ServerDisplay`).

*Client.* An event always finds the Java object of a live proxy, and no freed proxy is
used before the display is disconnected; an exception stops
every later listener of the batch, in nested dispatch calls too, and reaches exactly one
Java caller (`ClientProxy`).

*Both.* The tables libwayland reads are whole whatever fails or races
(`InterfaceTable`), and the messages converted along them are complete, legal and
freed (`Marshalling`), from version 1 of an interface. The classes and methods JNI is
given are there (`ObjectCache`), but for the cases `UsesLoaded` names: a silent failure
of `NewGlobalRef`, two threads converting the first `Fixed`, any `Fixed` after a lookup of
`fixed.c` has thrown, and stores seen out of order.

## 6. Proofs

Each proof module has the same plan: an inductive invariant `IInv`, stated at its head
(`PoolIInv` and `ListenerIInv` before the proofs they belong to), whose conjuncts are named
facts; `InitIInv` and `NextIInv`, the latter from one lemma for each action or group of
actions; `Inductive`, `Spec => []IInv`; and the properties as its consequences. The
assumptions are those of the modules (`WrapperAssumption`, `CacheAssumption`, ...): `None`
is no object, the bounds are naturals and the moves are among the named ones. Sets of
objects, threads, addresses, moves, nesting and numbers of events are arbitrary.

**`ServerPeersProofs`** (`NativeResolves`, `NativePinsPeer`, `NeverFinalizedOwned`,
`WrappersArePinned`, `LivingWrappersAreThere`).
That a lookup returns the peer of a native depends on its pair being the *newest* of
that address, which holds because only an object made for the address pushes a
pair, and an address is given out only when nobody lives there; that its finalizer
has not started depends on the wrapper holding a global reference, which goes only
with the native. `IInv` adds these facts: live natives have distinct addresses
(`AddressesDistinct`), objects not constructed have left no trace (`UnbornIsBlank`),
listeners are linked to natives that were born and are of the object's kind
(`LinkedWasBorn`), the linked peer is the newest registration, alive and referenced
(`LinkedIsNewest`), and a wrapper holds its peer only while linked to a live native
(`OwnedIsLinked`). `DieKeepsIInv` is shared by the ways a native dies,
`GivesPeerKeepsIInv` by the ways it gets a peer, `AppearsKeepsIInv` by the ways it is
born. `WrappersArePinned` is the refinement of `PinnedPeer` with `Prompt` TRUE: a native
lives for it from the step that gives it a peer (`GivesPeerBegins`) to the step in which it
dies (`DieEnds`), a construction whose native or wrapper could not be had is one
that was given up (`UnlinkedAborts`), and what finalizers, lookups and the collector do is
no step of the promise but the reclaiming of an unpinned object (`HeapStepStutters`). It
needs `"globalRef" \notin Failures`: a wrapper that got no global reference pins nothing,
which `wl_jni_object_wrapper_owned` does not check. `LivingWrappersAreThere` is what
the promise gives, for the destroy signal that calls `wl_jni_object_wrapper_disowned`.

**`ObjectCacheProofs`** (`CacheIsLoadedWhenUsed`, `FailuresReachJava`, `CacheIsStable`,
`NobodyWaitsForItself`). One thread loads, the one with the mutex (`LoaderHoldsMutex`); what
precedes its entry is stored (`LoadsInOrder`); the flag means that all is (`FlagIsTrue`);
who is about to use an entry has seen the flag or checked the one class that is used without
it (`UserHasChecked`); `fixed.c`'s three entries come in order, until two threads overlap or
a lookup throws (`FixedInOrder`). That no thread waits for the mutex it holds is the order
of `Entries`: the class of `OutOfMemoryError` is first, and only the failure of the last
entry is reported under the mutex.

**`ClientProxyProofs`** (`ConnectionKeepsMemory`, `PendingStopsJava`,
`NoExceptionIsLost`, `ProxiesArePinned`). `FieldTellsLife` is the strengthening: the
field of the Java object, the global reference and the `wl_proxy` come and go
together. An event of the queue is handed out only for a proxy that lives
(`HandedLives`). The refinement `ProxiesArePinned` maps each step to one of
`PinnedPeer` or to a stutter, with `Prompt` TRUE. `PromiseIsKept`, in the same module, is
what the abstract specification gives to whoever implements it: the object of a living native
is pinned and not reclaimed, and under a prompt promise nothing else is pinned.
`LivingProxiesAreThere` draws that conclusion for proxies, as
`LivingWrappersAreThere` and `AdvertisedGlobalsAreThere` do in their modules.

**Pools** (last part of `ClientProxyProofs`: `RegionsAreGivenBack`, `PoolsReadTheirFiles`,
about `ShmPool`). The strengthening is `DescriptorsKept`: until a resize fails or a borrowed
descriptor is closed, an open pool's descriptor still means its file. A region
`NewDirectByteBuffer` failed for has no pool, and both theorems are about the regions that
have one.

**`ServerDisplayProofs`** (`PointersResolve`, `GlobalsArePinned`). `OneRegistration`: a
live display that crossed no other has the one pair of its address. It is not inductive by
itself, because displays that crossed take each other's pairs. What survives
them is a count: an address never has more pairs than displays that will still take one
away (`Keepers`, `PairsAreTakenAway`), so that it has none once they are all gone and
the next display starts clean; one whose registration failed counts from the moment its
finalizer has freed it. Those that have a `wl_display` have distinct addresses
(`AddressesDistinct`). `GlobalsArePinned` is the refinement
with `Prompt` FALSE; the destruction of a display ends several globals at once.

**`ServerResourceProofs`** (`ResourcesAreKept`, `NoFaultBeforeMisuse`).
`DyingOnStack` relates the resources that are dying to the
frames of the stack of calls, one to one, and a destruction inside a sweep to the sweep of
its client below it. The lemmas `Pushed`, `Popped` and `Replaced` say what each change
of the stack does to its positions, `PushHarmless` and the others what it leaves of the
invariant. `NoFaultBeforeMisuse` rests on a second invariant, `Nested`, over the first: as
long as nothing was misused, a client leaves in one frame of the stack, with no request or
`Resource.destroy` of a resource of its own below it, so that handlers return to clients
that are still there (`ClientsOnStack`); `resource_ptr` leads to a freed resource only when
the client is leaving or has left (`ZeroedUnlessLeaving`); and what was constructed has its
client (`Owned`).

**`ServerEventLoopProofs`** (`SafeMemory`, `OwnedHandlers`). The two properties need each
other and: no list has a handler twice (`Distinct`), what was not added is nowhere
(`UnbornIsBlank`), idle handlers run from the idle queue only (`PassesMatchKinds`), an idle
handler that runs is in the innermost dispatch, since none dispatches (`IdleIsInnermost`),
whoever is queued, ready or running has its source (`RunsFromSources`), and a loop that was
dropped dispatches nothing (`DroppedIsQuiet`). `Appended` and `Removed` say what
`wl_list_insert` and `wl_list_remove` do to the members of a list.

**Listeners** (second half of `ServerEventLoopProofs`: `ListenerInductive`, `TypesAreRight`,
`FreedMemoryIsLeftAlone`, `ListenersAreOneShot`). The signals of libwayland are lists of the
same kind as the loop's, and the proof about `DestroyListener` uses the same lemmas about
them. The promise is `Ruled`: until an `onDestroy` throws, detaches ahead of a walk or
attaches to a dying object, a listener is in at most one list and once (`LinkedOnce`), a
dying object has one walk (`OneWalkEach`), and each walk is at the head of its list or its
listener has just left the list there (`WalksInPlace`). The last is what makes the node that
was read ahead the next in any case, so that it is not freed, and it holds although the
walks nest, because a walk inside another is of another object. `HeadsRemoved` and
`AfterFirst` say what a removal does to the head of a list and to what follows it,
`StaysInPlace` and `GoesOn` what it does to the walks. `ListenersAreOneShot` maps every step
to one of `OneShotListener` or a stutter: it is the refinement without the fairness of
either side.

**`MarshallingProofs`** (`Inductive`, `TypesAreRight`, `FirstVersionArrives`,
`HandlersSeeLegalCalls`, `NewerStaysHome`, `NothingIsLeftBehind`, `FramesAreLargeEnough`,
`HandlersAreFound`). The slots are as many as the caller counted (`Typed`); nothing is converted
after an exception, and only a conversion that came to its end is sent or called
(`Stages`), which is why an event newer than its resource stays at home though `postEvent`
does not return; what is owned was converted (`Owned`); converted slots hold
what was given (`Converts`), null only where a dispatcher accepts it (`Legal`); a reference of
the dispatcher's frame is one of an object converted, or of the two it keeps (`Refs`). The
counts are cardinalities of sets of positions, so that the lemmas about the version digit and
the arguments (`SignatureItems` and those after it) need no induction.

**`InterfaceTableProofs`** (`Inductive`, `TypesHold`, `ReadableTablesAreWhole`,
`OnlyRacesLeaveTables`, `TablesAreLeftAlone`). The tables are as deep and as many as the
interfaces allow; what the proof takes from them is that a message names only interfaces
constructed before its own (`Below`), which is how the generated classes are initialised.
Each frame of the recursion builds in a block of its own that no field leads to yet
(`OwnBlocks`), and each but the innermost waits for the table the one inside it builds, of
the type it is at (`Nested`), so that the pointer it takes back is of the right interface.
What was written for an interface that is *reachable* is right (`Contents`): its types are
reachable too, and a reachable interface is not finalized, so that their tables stay. That
reachability only shrinks is `ReachableShrinks`: the application may drop interfaces, and a
frame is begun for one that is reachable. `Buried` has what was finalized out of reach and
without a table. Without `"race"` in the moves no table is built twice (`NoRace`); a
finished table is the one the field leads to, but for a race (`Found`), which is
`OnlyRacesLose`; `Explained` has its second half. A step moves the frames in one of three
ways, `Pushed` (`Ask`, `BuildType`), `Popped` (`Publish`) or not deeper (`Undo`, `Drop` and
`Finalize`, through `Settles`; a type or message done, through `TopChanged`), and a lemma
for each part of the invariant says that it stays. Each of these lemmas also concludes
`Steady`, that the step leaves the finished tables of reachable interfaces as they are: a
block is filled only while its frame builds it (`OwnBlocks`), and freed only by the frame
that built it or by the finalizer of its interface, which is not reachable.
`TablesAreLeftAlone` is that of every step: what libwayland was given stays, also when a
race publishes a second table for the interface.

Only model-checked: all liveness (properties under fairness are out of the prover's
reach), and with it the fairness of `OneShotListener`. Every safety invariant and every
action property of the runs that pass is a theorem.

## 7. Not modelled

* `Client.startClient`: forks and runs a program, then constructs a `Client`. Its error
  paths look up `java/lang/io/IOException`, a class that does not exist (`client.c:129`),
  and leave the descriptors of the socket pair open.
* Timers and the operations of `EventSource`: declared in `EventLoop.java` without a
  native of that name. `EventLoop.dispatch` is declared to return an `int` and its
  native returns nothing; the model has no use for the value.
* `addSocket`, `run`, `terminate`, `flushClients`, serials, `getFD`, `flush`: direct
  calls into libwayland.
* `EventQueue`: one that Java constructs has a null pointer, the function that
  would make one of a native queue has no caller and asks for a constructor the class does
  not have, and `destroy` has no native. `setQueue` and `dispatchQueue` can mean only the
  display's own queue, the one `ClientProxy` has.
* The arithmetic of `Fixed`: no state. (`value << 8` wraps, and `(int)(value * 256 + 0.5)`
  truncates toward zero, so that `new Fixed(-1.0f)` holds -255 and not -256; the
  conversions of `fixed.c`, which have state, are in `ObjectCache`.)
* The reads without a mutex are modelled where the code makes them (the object cache,
  `fixed.c`, the field `interface_ptr`); elsewhere one thread uses a connection, a loop or
  an object, besides the finalizer's.
* `Native`, the text the scanner writes, the Android project, the builds: nothing that
  outlives a call. The example is a user of the library.
* Values of arguments and the contents of buffers, names and messages.

## 8. Plan

Modelled, checked and, but for liveness, proved: see above. What would add most
from here:

1. *Model:* the two buffers of the example's `Window` over `ClientProxy`; the strong
   references of `ServerDisplay` and the wrappers of `ServerPeers` over one registry;
   `InterfaceTable` under the globals and resources that hold its tables, where an `Interface`
   no Java class holds would be collected under libwayland.
2. *Prove:* the compositions of item 1. `TablesAreLeftAlone`, `WrappersArePinned` and
   `PointersResolve` are the halves they would be put together from.
