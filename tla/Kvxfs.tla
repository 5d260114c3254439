------------------------------- MODULE Kvxfs -------------------------------
(***************************************************************************)
(* KVXFS, the persistent file system of src/kernel/fs/kvxfs.c, over the    *)
(* sector device of src/kernel/block and src/kernel/drivers/ata_pio.c.     *)
(*                                                                         *)
(* The whole file system is one table of entries (g_meta) kept in memory   *)
(* and rewritten to the disk, sector by sector in ascending order, by each *)
(* operation that changes it (meta_write).  File contents are always       *)
(* written to sectors that were never handed out before (next_free_lba     *)
(* only grows), so an operation is a sequence of data sector writes        *)
(* followed by a sequence of metadata sector writes, and the machine may   *)
(* lose power, or a sector write may fail, between any two of them.        *)
(*                                                                         *)
(* Data sectors are numbered from KVX_DATA_LBA; a file's size is counted   *)
(* in sectors (the code's new_sectors); a path is the sequence of its      *)
(* names.  file_count, which the code maintains and never consults, is     *)
(* left out.                                                               *)
(***************************************************************************)
EXTENDS Integers, Sequences, FiniteSets

CONSTANTS
  Slots,      \* the entries of g_meta.ent the model uses
  Paths,      \* the paths users name
  Words,      \* what one data sector may hold
  MaxSectors, \* bound: the largest file, in sectors
  MetaSectors,                          \* KVX_META_SECTORS
  PathSec, StartSec, SizeSec, FlagSec,  \* the sector of each entry's fields
  Uids,       \* the user ids a session may carry
  ChmodBits,  \* bound: the others-read bits users set with chmod
  DirSize,    \* KVX_DIR_SIZE, the size that marks a directory
  Blank,      \* the content of a sector never written, or not readable
  DiskEnd,    \* the number of data sectors the disk really has
  MaxNext,    \* bound: next_free_lba
  MaxFaults   \* bound: failed sector transfers and power losses in a run

ASSUME SlotsAssumption == Slots \subseteq 0..255 /\ 0 \in Slots
ASSUME PathsAssumption == Paths \subseteq Seq(STRING) \ {<<>>}
ASSUME SizeAssumption  == DirSize \notin Nat /\ Blank \notin Words
ASSUME LayoutAssumption ==
  /\ MetaSectors \in Nat \ {0}
  /\ \A sec \in {PathSec, StartSec, SizeSec, FlagSec} :
       sec \in [Slots -> 0..(MetaSectors - 1)]
ASSUME BoundAssumption == /\ MaxSectors \in Nat
                          /\ DiskEnd \in Nat
                          /\ MaxNext \in Nat
                          /\ MaxFaults \in Nat
ASSUME UidsAssumption  == Uids \subseteq Nat /\ ChmodBits \subseteq BOOLEAN

VARIABLES
  disk,    \* the metadata sectors, read back as a kvx_meta_t
  data,    \* the data sectors
  mem,     \* g_meta
  inited,  \* g_inited
  job,     \* the file system call in progress, or the boot sequence
  torn,    \* history: a format stopped after it replaced the first sector
  faults   \* history: how many faults there have been

vars == <<disk, data, mem, inited, job, torn, faults>>

-----------------------------------------------------------------------------
(* The table of entries and where its fields lie on the disk.  The packed  *)
(* entries run over the sector boundaries; a boundary may fall between any *)
(* two of an entry's path, start, size and flags (the three bytes used,    *)
(* permissions, owner).  A path lies in the sector of its first bytes: the *)
(* paths named end before a boundary that cuts the 64 bytes of the field.  *)
(*                                                                         *)
(* A table carries one thing that is not on the disk: which of its entries *)
(* are a mixture of two versions (history).  An entry becomes one when it  *)
(* has reached the disk in part, and it stays one, mounted again as it is, *)
(* until the rest follows or a call gives the entry a new object.          *)

NoPath == <<>>

EmptyEntry == [path |-> NoPath, start |-> 0, size |-> 0, used |-> FALSE,
               others |-> FALSE, owner |-> 0]

Entry == [path : Paths \cup {NoPath}, start : Nat, size : Nat \cup {DirSize},
          used : BOOLEAN, others : BOOLEAN, owner : 0..255]

Meta == [magic : BOOLEAN, next : Nat, ent : [Slots -> Entry],
         mixed : SUBSET Slots]

EmptyMeta == [magic |-> FALSE, next |-> 0,
              ent |-> [e \in Slots |-> EmptyEntry], mixed |-> {}]

FormattedMeta == [EmptyMeta EXCEPT !.magic = TRUE]

\* Mutant: the size of the table is rounded down to whole sectors.
LastSecRoundedDown == MetaSectors - 2

\* The last of the sectors meta_write covers.
LastSec == MetaSectors - 1

\* The entries no sector boundary cuts.
Whole == {e \in Slots : /\ StartSec[e] = PathSec[e]
                      /\ SizeSec[e] = PathSec[e]
                      /\ FlagSec[e] = PathSec[e]}

\* What entry e is on the disk once sector s of the table in memory is there.
EntryThrough(s, e) ==
  LET new == mem.ent[e]
      old == disk.ent[e]
  IN  [path   |-> IF PathSec[e]  = s THEN new.path   ELSE old.path,
       start  |-> IF StartSec[e] = s THEN new.start  ELSE old.start,
       size   |-> IF SizeSec[e]  = s THEN new.size   ELSE old.size,
       used   |-> IF FlagSec[e]  = s THEN new.used   ELSE old.used,
       others |-> IF FlagSec[e]  = s THEN new.others ELSE old.others,
       owner  |-> IF FlagSec[e]  = s THEN new.owner  ELSE old.owner]

\* An entry that is now neither the one in memory nor the one that was on the
\* disk is a mixture.
MixedThrough(s) ==
  {e \in Slots : IF EntryThrough(s, e) = mem.ent[e] THEN e \in mem.mixed
                 ELSE EntryThrough(s, e) = disk.ent[e] => e \in disk.mixed}

\* Mutant: the header is sent after the entries.
WriteThroughHeaderLast(s) ==
  [magic |-> IF s = LastSec THEN mem.magic ELSE disk.magic,
   next  |-> IF s = LastSec THEN mem.next  ELSE disk.next,
   ent   |-> [e \in Slots |-> EntryThrough(s, e)],
   mixed |-> MixedThrough(s)]

\* The disk after sector s of the table in memory has been written to it.
WriteThrough(s) ==
  [magic |-> IF s = 0 THEN mem.magic ELSE disk.magic,
   next  |-> IF s = 0 THEN mem.next  ELSE disk.next,
   ent   |-> [e \in Slots |-> EntryThrough(s, e)],
   mixed |-> MixedThrough(s)]

Used(meta) == {e \in Slots : meta.ent[e].used}

\* find_ent and alloc_ent return the lowest entry that will do.
Holders(p) == {e \in Used(mem) : mem.ent[e].path = p}
FreeSlots  == Slots \ Used(mem)
Lowest(S)  == {e \in S : \A f \in S : e <= f}

IsDir(p) == \E e \in Lowest(Holders(p)) : mem.ent[e].size = DirSize

UnderEtc(p) == Len(p) > 1 /\ p[1] = "etc"

Extent(en) ==
  IF en.size = DirSize THEN {} ELSE en.start .. (en.start + en.size - 1)

\* The entries of a table whose start and size belong together: all but those
\* whose start and size lie in two sectors (73 and 201 of the 256) and of
\* which only one of these two sectors was replaced.
Coherent(meta) ==
  {e \in Slots : StartSec[e] = SizeSec[e] \/ e \notin meta.mixed}


-----------------------------------------------------------------------------
(* The call in progress.                                                   *)

Contents == UNION {[1..n -> Words] : n \in 0..MaxSectors}

\* A call is a record: its stage, the entry and the content it works on, the
\* data sectors written so far, whether one of those writes
\* failed (history), and the metadata sector it writes next.
Job == [pc : {"idle", "boot", "data", "meta"},
        op : {"none", "write", "mkdir", "remove", "chmod", "format"},
        slot : Slots, content : Contents,
        done : 0..MaxSectors, bad : BOOLEAN, sec : 0..LastSec]

NoJob == [pc |-> "idle", op |-> "none", slot |-> 0, content |-> <<>>,
          done |-> 0, bad |-> FALSE, sec |-> 0]
Boot  == [NoJob EXCEPT !.pc = "boot"]
WriteJob(e, c) ==
  [NoJob EXCEPT !.pc = "data", !.op = "write", !.slot = e, !.content = c]
MetaJob(op, e) == [NoJob EXCEPT !.pc = "meta", !.op = op, !.slot = e]

Idle  == job.pc = "idle"
Ready == Idle /\ inited

Init ==
  /\ disk = EmptyMeta
  /\ data = [l \in 0..(DiskEnd - 1) |-> Blank]
  /\ mem = EmptyMeta
  /\ inited = FALSE
  /\ job = Boot
  /\ torn = FALSE
  /\ faults = 0

-----------------------------------------------------------------------------
(* Calls that change the table, up to their first sector write.  A call    *)
(* refused by an early return (no such entry, table full, path in use)     *)
(* changes nothing and is a stuttering step.                               *)

Mkdir(p) ==
  /\ Ready
  /\ Holders(p) = {}
  /\ \E e \in Lowest(FreeSlots) :
     /\ mem' = [mem EXCEPT
          !.ent[e] = [EmptyEntry EXCEPT !.path = p, !.size = DirSize, !.used = TRUE],
          !.mixed = @ \ {e}]
     /\ job' = MetaJob("mkdir", e)
  /\ UNCHANGED <<disk, data, inited, torn, faults>>

\* A new file belongs to the caller (owner_uid is one byte); only files under
\* /etc are readable by others.
CreateFile(p, c, uid) ==
  /\ Holders(p) = {}
  /\ \E e \in Lowest(FreeSlots) :
     /\ mem' = [mem EXCEPT
          !.ent[e] = [@ EXCEPT !.path = p, !.used = TRUE, !.owner = uid % 256,
                               !.others = UnderEtc(p)]]
     /\ job' = WriteJob(e, c)

ReplaceFile(p, c) ==
  /\ \E e \in Lowest(Holders(p)) : job' = WriteJob(e, c)
  /\ UNCHANGED mem

WriteAll(p, c, uid) ==
  /\ Ready
  /\ mem.next + Len(c) <= MaxNext
  /\ CreateFile(p, c, uid) \/ ReplaceFile(p, c)
  /\ UNCHANGED <<disk, data, inited, torn, faults>>

Remove(p) ==
  /\ Ready
  /\ \E e \in Lowest(Holders(p)) :
     /\ mem' = [mem EXCEPT !.ent[e] = EmptyEntry, !.mixed = @ \ {e}]
     /\ job' = MetaJob("remove", e)
  /\ UNCHANGED <<disk, data, inited, torn, faults>>

Chmod(p, others) ==
  /\ Ready
  /\ \E e \in Lowest(Holders(p)) :
     /\ mem' = [mem EXCEPT !.ent[e].others = others]
     /\ job' = MetaJob("chmod", e)
  /\ UNCHANGED <<disk, data, inited, torn, faults>>

\* A directory as the target means "into it"; nothing checks that the target
\* is free, and the table is not written.
RenameTarget(p, q) == IF IsDir(q) THEN Append(q, p[Len(p)]) ELSE q

Rename(p, q) ==
  /\ Ready
  /\ RenameTarget(p, q) \in Paths          \* bound
  /\ \E e \in Lowest(Holders(p)) :
       mem' = [mem EXCEPT !.ent[e].path = RenameTarget(p, q)]
  /\ UNCHANGED <<disk, data, inited, job, torn, faults>>

\* kvxfs_force_format; fs_init_once calls it too.
StartFormat ==
  /\ mem' = FormattedMeta
  /\ inited' = FALSE
  /\ job' = MetaJob("format", 0)

Format ==
  /\ Idle
  /\ StartFormat
  /\ UNCHANGED <<disk, data, torn, faults>>

-----------------------------------------------------------------------------
(* The sector writes of the call in progress.                              *)

Fault == faults < MaxFaults /\ faults' = faults + 1

\* Mutant: a file that has sectors is overwritten in place.
NextLbaInPlace ==
  LET en == mem.ent[job.slot]
  IN  IF en.size = DirSize \/ en.size = 0 THEN mem.next + job.done
      ELSE en.start + job.done

\* Sector job.done of the content; the code ignores block_write's answer, so
\* a failed write (always, past the end of the disk) is passed over.
NextLba == mem.next + job.done

DataSector ==
  /\ job.pc = "data"
  /\ job.done < Len(job.content)
  /\ NextLba < DiskEnd
  /\ data' = [data EXCEPT ![NextLba] = job.content[job.done + 1]]
  /\ job' = [job EXCEPT !.done = @ + 1]
  /\ UNCHANGED <<disk, mem, inited, torn, faults>>

DataFault ==
  /\ job.pc = "data"
  /\ job.done < Len(job.content)
  /\ job' = [job EXCEPT !.done = @ + 1, !.bad = TRUE]
  /\ IF NextLba < DiskEnd THEN Fault ELSE UNCHANGED faults
  /\ UNCHANGED <<disk, data, mem, inited, torn>>

\* Mutant: the free pointer is not advanced.
LinkNoAdvance ==
  /\ job.pc = "data"
  /\ job.done = Len(job.content)
  /\ mem' = [mem EXCEPT !.ent[job.slot].start = mem.next,
                        !.ent[job.slot].size  = Len(job.content),
                        !.mixed = @ \ {job.slot}]
  /\ job' = [job EXCEPT !.pc = "meta"]
  /\ UNCHANGED <<disk, data, inited, torn, faults>>

\* Mutant: the entry keeps its old start.
LinkOldStart ==
  /\ job.pc = "data"
  /\ job.done = Len(job.content)
  /\ mem' = [mem EXCEPT !.ent[job.slot].size  = Len(job.content),
                        !.next = @ + Len(job.content),
                        !.mixed = @ \ {job.slot}]
  /\ job' = [job EXCEPT !.pc = "meta"]
  /\ UNCHANGED <<disk, data, inited, torn, faults>>

\* All sectors attempted: the entry is pointed at them.
Link ==
  /\ job.pc = "data"
  /\ job.done = Len(job.content)
  /\ mem' = [mem EXCEPT
       !.ent[job.slot] = [@ EXCEPT !.start = mem.next, !.size = Len(job.content)],
       !.next = @ + Len(job.content),
       !.mixed = @ \ {job.slot}]
  /\ job' = [job EXCEPT !.pc = "meta"]
  /\ UNCHANGED <<disk, data, inited, torn, faults>>

\* A format is torn from the moment it replaced some sector, not all of them.
TornAfter(sec) == IF job.op = "format" THEN sec # LastSec ELSE torn

\* Mutant: one sector too many is written.
MetaSectorOneMore ==
  /\ job.pc = "meta"
  /\ disk' = WriteThrough(job.sec)
  /\ torn' = TornAfter(job.sec)
  /\ IF job.sec = LastSec + 1
     THEN /\ job' = NoJob
          /\ inited' = TRUE
     ELSE /\ job' = [job EXCEPT !.sec = @ + 1]
          /\ UNCHANGED inited
  /\ UNCHANGED <<data, mem, faults>>

MetaSector ==
  /\ job.pc = "meta"
  /\ disk' = WriteThrough(job.sec)
  /\ torn' = TornAfter(job.sec)
  /\ IF job.sec = LastSec
     THEN /\ job' = NoJob
          /\ inited' = TRUE
     ELSE /\ job' = [job EXCEPT !.sec = @ + 1]
          /\ UNCHANGED inited
  /\ UNCHANGED <<data, mem, faults>>

\* The device reports an error, having written the sector or not: meta_write
\* gives up.  Only kvxfs_mkdir takes its change to the table back.
MetaFault ==
  /\ job.pc = "meta"
  /\ \/ disk' = WriteThrough(job.sec) /\ torn' = TornAfter(job.sec)
     \/ UNCHANGED <<disk, torn>>
  /\ mem' = IF job.op = "mkdir"
            THEN [mem EXCEPT !.ent[job.slot].used = FALSE]
            ELSE mem
  /\ job' = NoJob
  /\ Fault
  /\ UNCHANGED <<data, inited>>

-----------------------------------------------------------------------------
(* Power loss, and the mount at boot or at the first call after a failure. *)

Crash ==
  /\ mem' = EmptyMeta
  /\ inited' = FALSE
  /\ job' = Boot
  /\ Fault
  /\ UNCHANGED <<disk, data, torn>>

MountAtBoot ==
  /\ job.pc = "boot"
  /\ disk.magic
  /\ mem' = disk
  /\ inited' = TRUE
  /\ job' = NoJob
  /\ UNCHANGED <<disk, data, torn, faults>>

\* fs_init_once formats when kvxfs_init fails: no magic, or a failed read.
FormatAtBoot ==
  /\ job.pc = "boot"
  /\ StartFormat
  /\ IF disk.magic THEN Fault ELSE UNCHANGED faults
  /\ UNCHANGED <<disk, data, torn>>

\* Any call finds the table not mounted and reads it again.
Remount ==
  /\ Idle
  /\ ~inited
  /\ mem' = disk
  /\ inited' = disk.magic
  /\ UNCHANGED <<disk, data, job, torn, faults>>

Next ==
  \/ \E p \in Paths :
       \/ Mkdir(p)
       \/ \E c \in Contents, uid \in Uids : WriteAll(p, c, uid)
       \/ Remove(p)
       \/ \E others \in ChmodBits : Chmod(p, others)
       \/ \E q \in Paths : Rename(p, q)
  \/ Format
  \/ DataSector
  \/ DataFault
  \/ Link
  \/ MetaSector
  \/ MetaFault
  \/ Crash
  \/ MountAtBoot
  \/ FormatAtBoot
  \/ Remount

Spec == Init /\ [][Next]_vars

-----------------------------------------------------------------------------
(* Properties.                                                             *)

\* Every variable has its type; in particular the sector a call writes next
\* is one meta_write covers.
TypeOK ==
  /\ disk \in Meta
  /\ data \in [0..(DiskEnd - 1) -> Words \cup {Blank}]
  /\ mem \in Meta
  /\ inited \in BOOLEAN
  /\ job \in Job
  /\ torn \in BOOLEAN
  /\ faults \in 0..MaxFaults

\* What an entry of a table shows a reader: nothing, a directory, or a file
\* with the content its sectors hold.
SectorAt(l) == IF l < DiskEnd THEN data[l] ELSE Blank
View(en) ==
  IF ~en.used THEN <<"absent">>
  ELSE IF en.size = DirSize THEN <<"dir", en.path>>
  ELSE <<"file", en.path, [i \in 1..en.size |-> SectorAt(en.start + i - 1)]>>

\* On the disk, at every moment, the free pointer of the header lies past the
\* sectors of every coherent entry: meta_write sends the header (sector 0) before
\* the entries that depend on it, so a table cut short can leak sectors but
\* never hand them out twice.  An interrupted format can break this, and for
\* the entries 73 and 201 a stop between the sector of the start and that of
\* the size: the old size counts from the new start.
FreePointerPastFiles ==
  ~torn => \A e \in Coherent(disk) : \A l \in Extent(disk.ent[e]) : l < disk.next

\* No two coherent entries share a data sector, whether both are read from the
\* disk, both from memory, or one from each.
FilesDisjoint ==
  ~torn => \A x \in {disk, mem}, y \in {disk, mem} :
    \A e \in Coherent(x), f \in Coherent(y) :
      e # f => Extent(x.ent[e]) \cap Extent(y.ent[f]) = {}

\* A data write never lands on a sector that a coherent entry of the disk's
\* table refers to: until the new table is written the old file is intact.
CommittedDataKept ==
  [][~torn => \A e \in Coherent(disk) : \A l \in Extent(disk.ent[e]) \cap DOMAIN data :
       data'[l] = data[l]]_vars

\* A call returns success, and it is a write that does.
CallSucceeds  == MetaSector /\ job'.pc = "idle"
WriteSucceeds == CallSucceeds /\ job.op = "write"

\* When a call that writes the table reports success, the disk holds exactly
\* the table in memory, earlier renames and earlier failed calls included.
SuccessIsDurable ==
  [][CallSucceeds => disk' = mem']_vars

StoredAsGiven(e) ==
  View(disk.ent[e])' = <<"file", mem.ent[e].path, job.content>>

\* A write that reported success, none of its data sectors having failed, left
\* on the disk the file it was given under the path it was given.
GoodWriteIsStored ==
  [][WriteSucceeds /\ ~job.bad
     => \A e \in Slots : e = job.slot => StoredAsGiven(e)]_vars

\* A mixed entry that is in use may show anything.
ViewOf(meta) ==
  [e \in Slots |-> IF e \in meta.mixed /\ meta.ent[e].used THEN <<"mixed">>
                  ELSE View(meta.ent[e])]

Store == INSTANCE KvxStore WITH
  Cut <- Slots \ Whole, Absent <- <<"absent">>, Mixed <- <<"mixed">>,
  store <- ViewOf(disk), cache <- ViewOf(mem), lost <- torn

\* The table implements the abstract store: an entry that no boundary cuts has
\* on the disk its old object or its new one, whatever fails; one that is cut
\* may be caught in between, and then is all that is damaged.
ImplementsStore == Store!Spec

=============================================================================
