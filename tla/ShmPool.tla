------------------------------ MODULE ShmPool ------------------------------
(***************************************************************************)
(* org.freedesktop.wayland.ShmPool: files mapped into the process.         *)
(*                                                                         *)
(* A pool is three resources of the process tied together by one Java      *)
(* object: a descriptor, the file behind it and a mapping of the file.     *)
(* Descriptors and addresses are reused as the kernel reuses them, the     *)
(* lowest free descriptor and any free address, so that a pool that keeps  *)
(* one it no longer owns meets another pool's.                             *)
(***************************************************************************)
EXTENDS Naturals, FiniteSets, FiniteSetsExt

CONSTANTS Pools,   \* ShmPool objects, each constructed at most once
          Files,   \* files, each created at most once
          Addrs,   \* addresses mmap can return
          MaxFds,  \* bound on the descriptors open at a time
          Nil,
          PoolMoves \* what may happen beyond the plain use

\* "createFails", "resizeFails": a system call of that operation fails.
\* "noBuffer": NewDirectByteBuffer fails after mmap.
\* "closeOriginal": the caller of fromFileDescriptor(fd, .., dupFD, ..) closes
\* its fd when it gave the pool a duplicate.
ASSUME PoolAssumption ==
  /\ Nil \notin Pools \cup Files \cup Addrs \cup Nat
  /\ Nil \notin [pool : Pools \cup {Nil}, file : Files]
  /\ MaxFds \in Nat
  /\ PoolMoves \subseteq {"createFails", "resizeFails", "noBuffer", "closeOriginal"}

Fds == 0 .. MaxFds - 1

VARIABLES
  table,   \* table[d]: the file descriptor d is open on
  maps,    \* maps[a]: the file mapped at a and the pool that got the buffer,
           \* Nil if none did
  used,    \* the files created so far
  heap,    \* heap[p]: "unborn", "alive" or "finalized"
  heldPools, \* the pools the application has a reference to
  fd,      \* fd[p]: ShmPool.fd, Nil for -1
  buffer,  \* buffer[p]: the address in ShmPool.buffer, Nil for null
  of,      \* of[p]: the file p was made for (history)
  mine,    \* mine[p]: the descriptors the constructors opened for p (history)
  made     \* "resizeFails", "closeOriginal": which have happened (history)

kernel == << table, maps, used >>
poolVars == << kernel, heap, heldPools, fd, buffer, of, mine, made >>

PoolTypeOK ==
  /\ table \in [Fds -> Files \cup {Nil}]
  /\ maps \in [Addrs -> [pool : Pools \cup {Nil}, file : Files] \cup {Nil}]
  /\ used \in SUBSET Files
  /\ heap \in [Pools -> {"unborn", "alive", "finalized"}]
  /\ heldPools \in SUBSET Pools
  /\ fd \in [Pools -> Fds \cup {Nil}]
  /\ buffer \in [Pools -> Addrs \cup {Nil}]
  /\ of \in [Pools -> Files \cup {Nil}]
  /\ mine \in [Pools -> SUBSET Fds]
  /\ made \subseteq {"resizeFails", "closeOriginal"}
  /\ \A p \in Pools : heap[p] # "alive" => buffer[p] = Nil

PoolInit ==
  /\ table = [d \in Fds |-> Nil]
  /\ maps = [a \in Addrs |-> Nil]
  /\ used = {}
  /\ heap = [p \in Pools |-> "unborn"]
  /\ heldPools = {}
  /\ fd = [p \in Pools |-> Nil]
  /\ buffer = [p \in Pools |-> Nil]
  /\ of = [p \in Pools |-> Nil]
  /\ mine = [p \in Pools |-> {}]
  /\ made = {}

-----------------------------------------------------------------------------
(* The kernel. *)

FreeFds == {d \in Fds : table[d] = Nil}

\* open and dup return the lowest free descriptor.
NextFd == Min(FreeFds)

\* munmap succeeds, whoever the region belongs to.
Unmapped(a) == [maps EXCEPT ![a] = Nil]

Free(regions) == {a \in Addrs : regions[a] = Nil}

\* mapNative: the file is mapped, and NewDirectByteBuffer throws an unchecked
\* exception.  Nobody unmaps the region, and the catch clause of the constructor
\* does not see the exception.
LosesRegion(regions, f) ==
  /\ "noBuffer" \in PoolMoves
  /\ \E a \in Free(regions) : maps' = [regions EXCEPT ![a] = [pool |-> Nil, file |-> f]]

Born(p) == heap' = [heap EXCEPT ![p] = "alive"]

-----------------------------------------------------------------------------
(* Construction. *)

\* new ShmPool(size)
NewPool(p, f) ==
  /\ heap[p] = "unborn"
  /\ f \notin used
  /\ FreeFds # {}
  /\ table' = [table EXCEPT ![NextFd] = f]
  /\ used' = used \cup {f}
  /\ \E a \in Free(maps) :
       /\ maps' = [maps EXCEPT ![a] = [pool |-> p, file |-> f]]
       /\ buffer' = [buffer EXCEPT ![p] = a]
  /\ fd' = [fd EXCEPT ![p] = NextFd]
  /\ of' = [of EXCEPT ![p] = f]
  /\ mine' = [mine EXCEPT ![p] = {NextFd}]
  /\ heldPools' = heldPools \cup {p}
  /\ Born(p)
  /\ UNCHANGED made

\* createTmpFileNative, ftruncate or mmap fails with an errno that becomes an
\* IOException: the descriptor, if there is one, is closed again.
CreateFails(p, f) ==
  /\ "createFails" \in PoolMoves
  /\ heap[p] = "unborn"
  /\ f \notin used
  /\ FreeFds # {}
  /\ used' = used \cup {f}
  /\ fd' = [fd EXCEPT ![p] = NextFd]
  /\ Born(p)
  /\ UNCHANGED << table, maps, heldPools, buffer, of, mine, made >>

\* ftruncate or mmap fails with one that becomes an unchecked exception
\* (EINVAL for size 0, ENOMEM, ...), which the catch clause does not see.
CreateFailsUnchecked(p, f) ==
  /\ "createFails" \in PoolMoves
  /\ heap[p] = "unborn"
  /\ f \notin used
  /\ FreeFds # {}
  /\ table' = [table EXCEPT ![NextFd] = f]
  /\ used' = used \cup {f}
  /\ fd' = [fd EXCEPT ![p] = NextFd]
  /\ mine' = [mine EXCEPT ![p] = {NextFd}]
  /\ Born(p)
  /\ UNCHANGED << maps, heldPools, buffer, of, made >>

CreateLosesRegion(p, f) ==
  /\ heap[p] = "unborn"
  /\ f \notin used
  /\ FreeFds # {}
  /\ LosesRegion(maps, f)
  /\ table' = [table EXCEPT ![NextFd] = f]
  /\ used' = used \cup {f}
  /\ fd' = [fd EXCEPT ![p] = NextFd]
  /\ mine' = [mine EXCEPT ![p] = {NextFd}]
  /\ Born(p)
  /\ UNCHANGED << heldPools, buffer, of, made >>

\* ShmPool.fromFileDescriptor(d, size, dupFD, readOnly) for a descriptor some
\* pool gave out.  Only the mapping is made through the duplicate; the pool
\* keeps d and nobody keeps the duplicate.
FromFileDescriptor(p, d, dupFD) ==
  /\ heap[p] = "unborn"
  /\ d \in {fd[q] : q \in heldPools} \cap Fds
  /\ table[d] # Nil
  /\ dupFD => FreeFds # {}
  /\ table' = IF dupFD THEN [table EXCEPT ![NextFd] = table[d]] ELSE table
  /\ mine' = IF dupFD THEN [mine EXCEPT ![p] = {NextFd}] ELSE mine
  /\ \E a \in Free(maps) :
       /\ maps' = [maps EXCEPT ![a] = [pool |-> p, file |-> table[d]]]
       /\ buffer' = [buffer EXCEPT ![p] = a]
  /\ fd' = [fd EXCEPT ![p] = d]
  /\ of' = [of EXCEPT ![p] = table[d]]
  /\ heldPools' = heldPools \cup {p}
  /\ Born(p)
  /\ UNCHANGED << used, made >>

\* mapNative fails: it closes the duplicate itself.
FromFileDescriptorFails(p, d) ==
  /\ "createFails" \in PoolMoves
  /\ heap[p] = "unborn"
  /\ d \in {fd[q] : q \in heldPools} \cap Fds
  /\ fd' = [fd EXCEPT ![p] = d]
  /\ Born(p)
  /\ UNCHANGED << kernel, heldPools, buffer, of, mine, made >>

\* The duplicate stays open as well.
FromFileDescriptorLosesRegion(p, d, dupFD) ==
  /\ heap[p] = "unborn"
  /\ d \in {fd[q] : q \in heldPools} \cap Fds
  /\ table[d] # Nil
  /\ dupFD => FreeFds # {}
  /\ LosesRegion(maps, table[d])
  /\ table' = IF dupFD THEN [table EXCEPT ![NextFd] = table[d]] ELSE table
  /\ mine' = IF dupFD THEN [mine EXCEPT ![p] = {NextFd}] ELSE mine
  /\ fd' = [fd EXCEPT ![p] = d]
  /\ Born(p)
  /\ UNCHANGED << used, heldPools, buffer, of, made >>

-----------------------------------------------------------------------------
(* Use. *)

MutResizeMapsFirst(p) ==
  /\ p \in heldPools
  /\ buffer[p] # Nil
  /\ fd[p] \in Fds /\ table[fd[p]] # Nil
  /\ \E a \in Free(maps) :
       /\ maps' = [maps EXCEPT ![a] = [pool |-> p, file |-> table[fd[p]]]]
       /\ buffer' = [buffer EXCEPT ![p] = a]
  /\ UNCHANGED << table, used, heap, heldPools, fd, of, mine, made >>

\* ShmPool.resize: the old mapping goes before the new one is made, of
\* whatever file the descriptor is open on now.
Resize(p) ==
  /\ p \in heldPools
  /\ buffer[p] # Nil
  /\ fd[p] \in Fds /\ table[fd[p]] # Nil
  /\ \E a \in Free(Unmapped(buffer[p])) :
       /\ maps' = [Unmapped(buffer[p]) EXCEPT ![a] = [pool |-> p, file |-> table[fd[p]]]]
       /\ buffer' = [buffer EXCEPT ![p] = a]
  /\ UNCHANGED << table, used, heap, heldPools, fd, of, mine, made >>

\* ftruncate or mmap fails, because the descriptor is closed or otherwise: the
\* pool keeps the buffer it has unmapped.
ResizeFails(p) ==
  /\ p \in heldPools
  /\ buffer[p] # Nil
  /\ "resizeFails" \in PoolMoves \/ table[fd[p]] = Nil
  /\ maps' = Unmapped(buffer[p])
  /\ made' = IF table[fd[p]] = Nil THEN made ELSE made \cup {"resizeFails"}
  /\ UNCHANGED << table, used, heap, heldPools, fd, buffer, of, mine >>

\* The file is mapped again, perhaps where it was, and the pool keeps the buffer
\* it has unmapped.
ResizeLosesRegion(p) ==
  /\ p \in heldPools
  /\ buffer[p] # Nil
  /\ fd[p] \in Fds /\ table[fd[p]] # Nil
  /\ LosesRegion(Unmapped(buffer[p]), table[fd[p]])
  /\ made' = made \cup {"resizeFails"}
  /\ UNCHANGED << table, used, heap, heldPools, fd, buffer, of, mine >>

MutCloseClosesFd(p) ==
  IF buffer[p] = Nil
  THEN UNCHANGED << kernel, fd, buffer >>
  ELSE /\ maps' = Unmapped(buffer[p])
       /\ table' = [table EXCEPT ![fd[p]] = Nil]
       /\ fd' = [fd EXCEPT ![p] = Nil]
       /\ buffer' = [buffer EXCEPT ![p] = Nil]
       /\ UNCHANGED used

\* ShmPool.close, without effect on a pool closed before.  The descriptor is
\* forgotten, not closed.
Closing(p) ==
  IF buffer[p] = Nil
  THEN UNCHANGED << kernel, fd, buffer >>
  ELSE /\ maps' = Unmapped(buffer[p])
       /\ fd' = [fd EXCEPT ![p] = Nil]
       /\ buffer' = [buffer EXCEPT ![p] = Nil]
       /\ UNCHANGED << table, used >>

Close(p) ==
  /\ p \in heldPools
  /\ Closing(p)
  /\ UNCHANGED << heap, heldPools, of, mine, made >>

DropPool(p) ==
  /\ p \in heldPools
  /\ heldPools' = heldPools \ {p}
  /\ UNCHANGED << kernel, heap, fd, buffer, of, mine, made >>

\* ShmPool.finalize
Finalize(p) ==
  /\ heap[p] = "alive"
  /\ p \notin heldPools
  /\ heap' = [heap EXCEPT ![p] = "finalized"]
  /\ Closing(p)
  /\ UNCHANGED << heldPools, of, mine, made >>

\* The caller closes a descriptor that it passed with dupFD.
CloseOriginal(p) ==
  /\ "closeOriginal" \in PoolMoves
  /\ mine[p] # {}
  /\ fd[p] \in Fds \ mine[p]
  /\ table' = [table EXCEPT ![fd[p]] = Nil]
  /\ made' = made \cup {"closeOriginal"}
  /\ UNCHANGED << maps, used, heap, heldPools, fd, buffer, of, mine >>

PoolNext ==
  \/ \E p \in Pools, f \in Files :
       \/ NewPool(p, f) \/ CreateFails(p, f)
       \/ CreateFailsUnchecked(p, f) \/ CreateLosesRegion(p, f)
  \/ \E p \in Pools, d \in Fds, dupFD \in BOOLEAN :
       FromFileDescriptor(p, d, dupFD) \/ FromFileDescriptorLosesRegion(p, d, dupFD)
  \/ \E p \in Pools, d \in Fds : FromFileDescriptorFails(p, d)
  \/ \E p \in Pools : \/ Resize(p) \/ ResizeFails(p) \/ ResizeLosesRegion(p)
                      \/ Close(p) \/ DropPool(p) \/ Finalize(p)
                      \/ CloseOriginal(p)

PoolSpec == PoolInit /\ [][PoolNext]_poolVars

-----------------------------------------------------------------------------
(* Properties. *)

\* A pool shows its file until it is closed, whatever becomes of the pool its
\* descriptor came from: what ShmPoolTest.readWrite relies on.  So close, resize
\* and finalize unmap no region of another pool, however often and in whatever
\* order they are called, until a resize fails or the descriptor a pool borrowed
\* is closed.
ReadsItsFile ==
  made = {} =>
    \A p \in Pools : buffer[p] # Nil =>
      maps[buffer[p]] = [pool |-> p, file |-> of[p]]

\* A region whose buffer a pool got is the buffer of that pool until it is
\* unmapped: closing, resizing or losing the last reference to a pool gives it
\* back, also when calls fail.  (The region of a failing NewDirectByteBuffer has
\* no pool, and goes only if an old buffer happens to lead to its address.)
NoRegionLeaks ==
  \A a \in Addrs :
    maps[a] # Nil /\ maps[a].pool # Nil => buffer[maps[a].pool] = a
=============================================================================
