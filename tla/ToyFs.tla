-------------------------------- MODULE ToyFs --------------------------------
(***************************************************************************)
(* The read-only file system of src/kernel/fs/toyfs.c: the table of files  *)
(* toyfs_mount reads from an image, and the descriptors.  A byte of the    *)
(* image is known by its offset, and nothing of the kernel calls           *)
(* toyfs_mount: the device mounted, or none, is left open here.            *)
(***************************************************************************)
EXTENDS Integers, Sequences

CONSTANTS
  ToyFds,     \* 0 .. MAX_FD - 1
  MaxFiles,   \* MAX_FILES
  SectorSize, \* 512
  Images,     \* what toyfs_mount may find: [magic, count, table]
  NoImage     \* no device, or one that does not give its first three sectors

ASSUME ToyAssumption ==
  /\ ToyFds \subseteq Nat
  /\ MaxFiles \in Nat /\ SectorSize \in Nat \ {0}
  /\ NoImage \notin Images
  \* The three sectors hold MaxFiles entries; an image may leave those it does not count.
  /\ \A im \in Images :
       /\ im.magic \in BOOLEAN /\ im.count \in Int
       /\ MaxFiles <= Len(im.table) \/ im.count <= Len(im.table)
       /\ \A i \in 1..Len(im.table) : im.table[i].off \in Nat /\ im.table[i].size \in Nat

VARIABLES
  toyFiles, \* g_files, the first g_file_count of them
  toyFds,   \* g_fd
  given     \* auxiliary: for each descriptor, the bytes its reads put out

toyVars == <<toyFiles, toyFds, given>>

FreeToyFd == [used |-> FALSE, file |-> 0, pos |-> 0]

\* toyfs_mount takes the count of the header, clamped, and that many entries.
TableOf(im) ==
  IF im = NoImage \/ ~im.magic \/ im.count <= 0 THEN <<>>
  ELSE [i \in 1 .. (IF im.count > MaxFiles THEN MaxFiles ELSE im.count) |-> im.table[i]]

ToyInit ==
  /\ \E im \in Images \cup {NoImage} : toyFiles = TableOf(im)
  /\ toyFds = [f \in ToyFds |-> FreeToyFd]
  /\ given = [f \in ToyFds |-> <<>>]

LowestOf(S) == {x \in S : \A y \in S : x <= y}

\* The first entry of that name: a second one is never seen.
ToyFind(p) == LowestOf({i \in DOMAIN toyFiles : toyFiles[i].name = p})
FreeToyFds == LowestOf({f \in ToyFds : ~toyFds[f].used})

ToyOpen(p, f) ==
  /\ f \in FreeToyFds
  /\ \E i \in ToyFind(p) :
       toyFds' = [toyFds EXCEPT ![f] = [used |-> TRUE, file |-> i, pos |-> 0]]
  /\ UNCHANGED <<toyFiles, given>>

Sector(off) == off \div SectorSize

\* How many of n bytes from an offset on are put out: all, or those before a
\* sector the device does not give.
Stops(from, n) ==
  {n} \cup {i \in 0..(n - 1) : i = 0 \/ Sector(from + i) # Sector(from + i - 1)}

\* The bytes are fetched a sector at a time.
ToyRead(f, n) ==
  LET fl   == toyFiles[toyFds[f].file]
      pos  == toyFds[f].pos
      asks == IF n > fl.size - pos THEN fl.size - pos ELSE n
      from == fl.off + pos
  IN  /\ toyFds[f].used
      /\ asks > 0
      /\ \E m \in Stops(from, asks) :
           /\ toyFds' = [toyFds EXCEPT ![f].pos = pos + m]
           /\ given' = [given EXCEPT ![f] = @ \o [i \in 1..m |-> from + i - 1]]
      /\ UNCHANGED toyFiles

\* What toyfs_close leaves in the entry is written anew by the next open.
ToyClose(f) ==
  /\ toyFds' = [toyFds EXCEPT ![f] = FreeToyFd]
  /\ given' = [given EXCEPT ![f] = <<>>]
  /\ UNCHANGED toyFiles

=============================================================================
