------------------------------ MODULE VfsFiles ------------------------------
(***************************************************************************)
(* Open files, src/kernel/fs/vfs.c lines 103-281 and 399-404: the table of *)
(* open files (g_open) over the descriptors of two back ends, the memory   *)
(* file system (Ramfs) and the read-only ToyFS (ToyFs).                    *)
(***************************************************************************)
EXTENDS Ramfs, ToyFs

CONSTANTS
  SlotIds,   \* 0 .. VFS_MAX_OPEN - 1
  Removable  \* the paths below /removable

ASSUME VfsAssumption ==
  SlotIds \subseteq Nat /\ Removable \subseteq Paths

VARIABLES
  slots  \* g_open

vars == <<nodes, pool, top, fds, toyFiles, toyFds, given, slots>>
vfsVars == <<slots, toyVars>>

NoFile == [back |-> "none", fd |-> -1]

Init ==
  /\ RamInit
  /\ slots = [i \in SlotIds |-> NoFile]
  /\ ToyInit

\* alloc_slot
FreeSlots == Lowest({i \in SlotIds : slots[i].back = "none"})

Writes == UNION {[1..n -> Bytes] : n \in 0..MaxWrite}

-----------------------------------------------------------------------------

\* vfs_open: a path open for writing, or one the memory file system has, is
\* opened there.
OnRam(p, write) == p \notin Removable /\ (write \/ RamExists(p))

OpenRam(p, write, create) ==
  /\ OnRam(p, write)
  /\ \E i \in FreeSlots, f \in FdIds :
       /\ RamOpen(p, create, f)
       /\ slots' = [slots EXCEPT ![i] = [back |-> "ram", fd |-> f]]
  /\ UNCHANGED toyVars

\* Mutant: the descriptor is kept when there is no slot for it.
OpenRamFailsLeaking(p, write, create) ==
  /\ OnRam(p, write)
  /\ FreeSlots = {}
  /\ \E f \in FdIds : RamOpen(p, create, f)
  /\ UNCHANGED vfsVars

\* No descriptor, or no slot and the descriptor is given back: what remains is
\* the node ramfs_open created.
OpenRamFails(p, write, create) ==
  /\ OnRam(p, write)
  /\ FreeFds = {} \/ FreeSlots = {}
  /\ \E n \in NodeFor(p, create) : nodes' = NodesWith(p, n)
  /\ UNCHANGED <<pool, top, fds, vfsVars>>

OpenToy(p) ==
  /\ ~OnRam(p, FALSE)
  /\ \E i \in FreeSlots, f \in ToyFds :
       /\ ToyOpen(p, f)
       /\ slots' = [slots EXCEPT ![i] = [back |-> "toy", fd |-> f]]
  /\ UNCHANGED ramVars

ReadRam(i, n) ==
  /\ slots[i].back = "ram"
  /\ RamRead(slots[i].fd, n)
  /\ UNCHANGED vfsVars

ReadToy(i, n) ==
  /\ slots[i].back = "toy"
  /\ ToyRead(slots[i].fd, n)
  /\ UNCHANGED <<ramVars, slots>>

\* The flags the file was opened with are not looked at.
Write(i, s) ==
  /\ slots[i].back = "ram"
  /\ RamWrite(slots[i].fd, s)
  /\ UNCHANGED vfsVars

Close(i) ==
  /\ slots[i].back # "none"
  /\ IF slots[i].back = "ram"
     THEN RamClose(slots[i].fd) /\ UNCHANGED toyVars
     ELSE ToyClose(slots[i].fd) /\ UNCHANGED ramVars
  /\ slots' = [slots EXCEPT ![i] = NoFile]

WriteAll(p, s) == RamWriteAll(p, s) /\ UNCHANGED vfsVars
Mkdir(p)       == RamMkdir(p) /\ UNCHANGED vfsVars
Rename(p, q)   == RamRename(p, q) /\ UNCHANGED vfsVars

Next ==
  \/ \E p \in Paths :
       \/ \E write, create \in BOOLEAN : \/ OpenRam(p, write, create)
                                         \/ OpenRamFails(p, write, create)
       \/ OpenToy(p)
       \/ \E s \in Writes : WriteAll(p, s)
       \/ Mkdir(p)
       \/ \E q \in Paths : Rename(p, q)
  \/ \E i \in SlotIds : \/ \E n \in 1..MaxWrite : ReadRam(i, n) \/ ReadToy(i, n)
                        \/ \E s \in Writes : Write(i, s)
                        \/ Close(i)

Spec == Init /\ [][Next]_vars

-----------------------------------------------------------------------------
(* Properties.                                                             *)

Region(nd) == nd.off .. (nd.off + nd.cap - 1)

\* The regions of two files have no byte in common, and none has a byte that
\* g_pool_top gives to the next file, however often they were moved to grow.
RegionsDisjoint ==
  \A m \in NodeIds :
    /\ Region(nodes[m]) \subseteq 0 .. (top - 1)
    /\ \A n \in NodeIds : m # n => Region(nodes[m]) \cap Region(nodes[n]) = {}

Held(back) == {slots[i].fd : i \in {j \in SlotIds : slots[j].back = back}}

\* What reads put out through a descriptor of ToyFS is the file from its first
\* byte to the position, however the reads were cut at sectors that failed.
GivenInOrder ==
  \A f \in {g \in ToyFds : toyFds[g].used} :
    LET fl == toyFiles[toyFds[f].file]
    IN  given[f] = [i \in 1..toyFds[f].pos |-> fl.off + i - 1]

\* Every descriptor in use, of either back end, belongs to an open file: none is
\* left behind by an open that failed or by a close; and no byte of a file is
\* lost through one.
NoDescriptorLost ==
  /\ Held("ram") = {f \in FdIds : fds[f].used}
  /\ Held("toy") = {f \in ToyFds : toyFds[f].used}
  /\ GivenInOrder
  /\ \A i, j \in SlotIds : slots[i] = slots[j] /\ i # j => slots[i].back = "none"

\* The memory file system, with its pool, its nodes and the files moving about
\* in it, implements plain files.
Content(n) == [i \in 1..nodes[n].size |-> pool[nodes[n].off + i - 1]]
Texts == [p \in Paths |-> IF RamExists(p) THEN Content(CHOOSE n \in Find(p) : TRUE) ELSE <<Zero>>]
Handles == [f \in FdIds |-> IF fds[f].used
                           THEN [path |-> nodes[fds[f].node].path, pos |-> fds[f].pos]
                           ELSE NoFile]
Files == INSTANCE RamFiles WITH
  Handles <- FdIds, Absent <- <<Zero>>, Closed <- NoFile, content <- Texts, at <- Handles
ImplementsFiles == Files!Spec

=============================================================================
