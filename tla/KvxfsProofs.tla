---------------------------- MODULE KvxfsProofs ----------------------------
(***************************************************************************)
(* Proofs about KVXFS, for every number of entries, layout of the table    *)
(* over the sectors, file size and number of faults.                       *)
(*                                                                         *)
(* The inductive invariant says what the order of the sector writes buys:  *)
(* while the table is being written, the fields that lie in the sectors    *)
(* already sent hold what they hold in memory, the header first of all, so *)
(* the free pointer on the disk is never behind an entry on the disk whose *)
(* start and size belong together.                                         *)
(***************************************************************************)
EXTENDS Kvxfs, TLAPS

-----------------------------------------------------------------------------
(* The inductive invariant.                                                *)

\* Every coherent entry of a table ends at or before the table's free pointer.
Bounded(meta) ==
  \A e \in Coherent(meta) : meta.ent[e].size \in Nat
                     => meta.ent[e].start + meta.ent[e].size <= meta.next

Stages ==
  /\ job.pc = "data" => inited /\ job.op = "write" /\ job.sec = 0
  /\ job.pc = "meta" => (inited <=> job.op # "format")
  /\ job.pc = "meta" /\ job.op = "format" => mem = FormattedMeta

\* Of each entry, cut by a sector boundary or not, the fields that lie in the
\* first n sectors hold on the disk what they hold in memory.
FieldsSent(d, m, n) ==
  \A e \in Slots :
    /\ PathSec[e]  < n => d.ent[e].path  = m.ent[e].path
    /\ StartSec[e] < n => d.ent[e].start = m.ent[e].start
    /\ SizeSec[e]  < n => d.ent[e].size  = m.ent[e].size
    /\ FlagSec[e]  < n => /\ d.ent[e].used   = m.ent[e].used
                          /\ d.ent[e].others = m.ent[e].others
                          /\ d.ent[e].owner  = m.ent[e].owner

HeaderSent(d, m) == d.magic = m.magic /\ d.next = m.next

SentFields ==
  job.pc = "meta" => /\ FieldsSent(disk, mem, job.sec)
                     /\ job.sec > 0 => HeaderSent(disk, mem)

\* The header went first; a format that has sent it has torn the old table.
SentPrefix ==
  job.pc = "meta" /\ job.sec > 0 => /\ disk.next = mem.next
                                    /\ job.op = "format" => torn

FreePointer ==
  ~torn => /\ Bounded(disk)
           /\ inited => Bounded(mem) /\ disk.next <= mem.next

IInv == TypeOK /\ Stages /\ SentFields /\ SentPrefix /\ FreePointer

-----------------------------------------------------------------------------
(* Facts about the operators.                                              *)

\* The content of a file has the length its sector count says.
LEMMA ContentLength ==
  ASSUME NEW c \in Contents
  PROVE  /\ Len(c) \in 0..MaxSectors
         /\ \A i \in 1..Len(c) : c[i] \in Words
  BY BoundAssumption DEF Contents

\* Jobs and tables are built from well-typed parts.
LEMMA JobTypes ==
  /\ NoJob \in Job
  /\ Boot \in Job
  /\ \A op \in {"mkdir", "remove", "chmod", "format"}, e \in Slots :
       MetaJob(op, e) \in Job
  /\ \A e \in Slots, c \in Contents : WriteJob(e, c) \in Job
  <1>1. <<>> \in Contents
    <2>1. <<>> \in [1..0 -> Words]
      OBVIOUS
    <2>2. 0 \in 0..MaxSectors
      BY BoundAssumption
    <2> QED  BY <2>1, <2>2 DEF Contents
  <1>2. 0 \in 0..MaxSectors /\ 0 \in 0..LastSec
    BY BoundAssumption, LayoutAssumption DEF LastSec
  <1>3. 0 \in Slots
    BY SlotsAssumption
  <1> QED  BY <1>1, <1>2, <1>3 DEF Job, NoJob, Boot, MetaJob, WriteJob

LEMMA TableTypes ==
  /\ EmptyEntry \in Entry
  /\ EmptyMeta \in Meta
  /\ FormattedMeta \in Meta
  <1>1. EmptyEntry \in Entry
    BY DEF EmptyEntry, Entry
  <1>2. EmptyMeta \in Meta
    BY <1>1 DEF EmptyMeta, Meta
  <1>3. FormattedMeta \in Meta
    BY <1>2 DEF FormattedMeta, Meta
  <1> QED  BY <1>1, <1>2, <1>3

\* Writing a sector through leaves a well-typed table on the disk.
LEMMA WriteThroughType ==
  ASSUME TypeOK, NEW s \in 0..LastSec
  PROVE  WriteThrough(s) \in Meta
  <1>1. \A e \in Slots : EntryThrough(s, e) \in Entry
    BY SMTT(30) DEF TypeOK, Meta, Entry, EntryThrough
  <1>2. MixedThrough(s) \in SUBSET Slots
    BY DEF MixedThrough
  <1> QED  BY <1>1, <1>2, SMTT(30) DEF WriteThrough, TypeOK, Meta

\* The header goes with sector 0, and the entries are those EntryThrough says.
LEMMA WriteThroughParts ==
  ASSUME NEW s
  PROVE  /\ WriteThrough(s).next = IF s = 0 THEN mem.next ELSE disk.next
         /\ WriteThrough(s).magic = IF s = 0 THEN mem.magic ELSE disk.magic
         /\ \A e \in Slots : WriteThrough(s).ent[e] = EntryThrough(s, e)
         /\ WriteThrough(s).mixed = MixedThrough(s)
  BY DEF WriteThrough

\* Start and size of an entry that is coherent on the disk now are those of the
\* entry in memory, coherent there, or those that were on the disk.
LEMMA WriteThroughCoherent ==
  ASSUME TypeOK, NEW s \in 0..LastSec, NEW e \in Coherent(WriteThrough(s))
  PROVE  \E m \in {mem, disk} : /\ e \in Coherent(m)
                               /\ WriteThrough(s).ent[e].start = m.ent[e].start
                               /\ WriteThrough(s).ent[e].size = m.ent[e].size
  <1>1. e \in Slots /\ WriteThrough(s).ent[e] = EntryThrough(s, e)
    BY WriteThroughParts DEF Coherent
  <1>2. CASE StartSec[e] = SizeSec[e]
    <2>1. e \in Coherent(mem) /\ e \in Coherent(disk)
      BY <1>1, <1>2 DEF Coherent
    <2>2. CASE StartSec[e] = s
      BY <1>1, <1>2, <2>1, <2>2 DEF EntryThrough
    <2>3. CASE StartSec[e] # s
      BY <1>1, <1>2, <2>1, <2>3 DEF EntryThrough
    <2> QED  BY <2>2, <2>3
  <1>3. CASE StartSec[e] # SizeSec[e]
    <2>1. e \notin MixedThrough(s)
      BY <1>3, WriteThroughParts DEF Coherent
    <2>2. CASE EntryThrough(s, e) = mem.ent[e]
      <3>1. e \in Coherent(mem)
        BY <1>1, <2>1, <2>2 DEF MixedThrough, Coherent
      <3> QED  BY <1>1, <2>2, <3>1
    <2>3. CASE EntryThrough(s, e) # mem.ent[e]
      <3>1. EntryThrough(s, e) = disk.ent[e] /\ e \in Coherent(disk)
        BY <1>1, <2>1, <2>3 DEF MixedThrough, Coherent
      <3> QED  BY <1>1, <3>1
    <2> QED  BY <2>2, <2>3
  <1> QED  BY <1>2, <1>3

LEMMA EntryOf ==
  ASSUME NEW m \in Meta, NEW e \in Slots
  PROVE  m.ent[e] \in Entry
  BY DEF Meta

\* What the calls do to an entry leaves an entry.
LEMMA EntryUpdates ==
  ASSUME NEW en \in Entry
  PROVE  /\ \A b \in BOOLEAN : [en EXCEPT !.others = b] \in Entry
         /\ \A b \in BOOLEAN : [en EXCEPT !.used = b] \in Entry
         /\ \A p \in Paths : [en EXCEPT !.path = p] \in Entry
  BY DEF Entry

LEMMA EntryMoved ==
  ASSUME NEW en \in Entry, NEW start \in Nat, NEW size \in Nat
  PROVE  [en EXCEPT !.start = start, !.size = size] \in Entry
  BY DEF Entry

\* The owner is stored in one byte.
LEMMA ByteRange == \A n \in Nat : n % 256 \in 0..255
  OBVIOUS

\* Changing one entry of a table leaves a table with that entry changed.
LEMMA ChangeEntry ==
  ASSUME NEW m \in Meta, NEW e \in Slots, NEW en \in Entry
  PROVE  /\ [m EXCEPT !.ent[e] = en] \in Meta
         /\ [m EXCEPT !.ent[e] = en].next = m.next
         /\ [m EXCEPT !.ent[e] = en].ent = [m.ent EXCEPT ![e] = en]
         /\ [m EXCEPT !.ent[e] = en].mixed = m.mixed
  BY DEF Meta

\* Giving an entry a new object, which is no mixture.
LEMMA RenewEntry ==
  ASSUME NEW m \in Meta, NEW e \in Slots, NEW en \in Entry,
         NEW r, r = [m EXCEPT !.ent[e] = en, !.mixed = @ \ {e}]
  PROVE  /\ r \in Meta
         /\ r.next = m.next
         /\ r.ent = [m.ent EXCEPT ![e] = en]
         /\ r.mixed = m.mixed \ {e}
  <1> DEFINE mm == [m EXCEPT !.ent[e] = en]
  <1>1. /\ mm \in Meta /\ mm.next = m.next
        /\ mm.ent = [m.ent EXCEPT ![e] = en] /\ mm.mixed = m.mixed
    BY ChangeEntry
  <1>2. r = [mm EXCEPT !.mixed = mm.mixed \ {e}]
    BY DEF Meta
  <1> HIDE DEF mm
  <1> QED  BY <1>1, <1>2 DEF Meta

LEMMA JobFault ==
  ASSUME NEW j \in Job, NEW d \in 0..MaxSectors
  PROVE  [j EXCEPT !.done = d, !.bad = TRUE] \in Job
  BY DEF Job

-----------------------------------------------------------------------------
(* Type correctness.                                                       *)

LEMMA InitType == Init => TypeOK
  <1> SUFFICES ASSUME Init PROVE TypeOK
    OBVIOUS
  <1>1. disk \in Meta /\ mem \in Meta
    BY TableTypes DEF Init
  <1>2. job \in Job
    BY JobTypes DEF Init
  <1>3. data \in [0..(DiskEnd - 1) -> Words \cup {Blank}]
    BY DEF Init
  <1>4. inited \in BOOLEAN /\ torn \in BOOLEAN
    BY Zenon DEF Init
  <1>5. faults \in 0..MaxFaults
    BY BoundAssumption DEF Init
  <1> QED  BY <1>1, <1>2, <1>3, <1>4, <1>5 DEF TypeOK

LEMMA TypeStep ==
  ASSUME TypeOK, [Next]_vars
  PROVE  TypeOK'
  <1> USE DEF TypeOK
  <1>1. ASSUME NEW p \in Paths, Mkdir(p) PROVE TypeOK'
    <2> PICK e \in Slots :
          /\ mem' = [mem EXCEPT !.ent[e] =
                 [EmptyEntry EXCEPT !.path = p, !.size = DirSize, !.used = TRUE],
                 !.mixed = @ \ {e}]
          /\ job' = MetaJob("mkdir", e)
      BY <1>1 DEF Mkdir, Lowest, FreeSlots
    <2>1. [EmptyEntry EXCEPT !.path = p, !.size = DirSize, !.used = TRUE] \in Entry
      BY TableTypes DEF Entry
    <2>2. mem' \in Meta
      BY <2>1, RenewEntry
    <2> QED  BY <1>1, <2>2, JobTypes DEF Mkdir
  <1>2. ASSUME NEW p \in Paths, NEW c \in Contents, NEW uid \in Uids, WriteAll(p, c, uid)
        PROVE  TypeOK'
    <2>1. CASE CreateFile(p, c, uid)
      <3> PICK e \in Slots :
            /\ mem' = [mem EXCEPT !.ent[e] =
                 [@ EXCEPT !.path = p, !.used = TRUE, !.owner = uid % 256,
                           !.others = UnderEtc(p)]]
            /\ job' = WriteJob(e, c)
        BY <2>1 DEF CreateFile, Lowest, FreeSlots
      <3>0. UnderEtc(p) \in BOOLEAN
        BY Zenon DEF UnderEtc
      <3>1. uid % 256 \in 0..255
        BY UidsAssumption, ByteRange
      <3>2. mem.ent[e] \in Entry
        BY EntryOf
      <3>3. [mem.ent[e] EXCEPT !.path = p, !.used = TRUE, !.owner = uid % 256,
                               !.others = UnderEtc(p)] \in Entry
        BY <3>0, <3>1, <3>2, ZenonT(60) DEF Entry
      <3>4. mem' \in Meta
        BY <3>3 DEF Meta
      <3> QED  BY <1>2, <3>4, JobTypes DEF WriteAll
    <2>2. CASE ReplaceFile(p, c)
      BY <1>2, <2>2, JobTypes DEF WriteAll, ReplaceFile, Lowest, Holders, Used
    <2> QED  BY <1>2, <2>1, <2>2 DEF WriteAll
  <1>3. ASSUME NEW p \in Paths, Remove(p) PROVE TypeOK'
    <2> PICK e \in Slots : /\ mem' = [mem EXCEPT !.ent[e] = EmptyEntry, !.mixed = @ \ {e}]
                           /\ job' = MetaJob("remove", e)
      BY <1>3 DEF Remove, Lowest, Holders, Used
    <2>1. mem' \in Meta
      BY TableTypes, RenewEntry
    <2> QED  BY <1>3, <2>1, JobTypes DEF Remove
  <1>4. ASSUME NEW p \in Paths, NEW others \in ChmodBits, Chmod(p, others) PROVE TypeOK'
    <2> PICK e \in Slots : /\ mem' = [mem EXCEPT !.ent[e].others = others]
                           /\ job' = MetaJob("chmod", e)
      BY <1>4 DEF Chmod, Lowest, Holders, Used
    <2>0. [mem.ent[e] EXCEPT !.others = others] \in Entry
      <3>1. mem.ent[e] \in Entry /\ others \in BOOLEAN
        BY EntryOf, UidsAssumption
      <3> QED  BY <3>1, EntryUpdates
    <2>1. mem' \in Meta
      BY <2>0, ChangeEntry
    <2> QED  BY <1>4, <2>1, JobTypes DEF Chmod
  <1>5. ASSUME NEW p \in Paths, NEW q \in Paths, Rename(p, q) PROVE TypeOK'
    <2> PICK e \in Slots : mem' = [mem EXCEPT !.ent[e].path = RenameTarget(p, q)]
      BY <1>5 DEF Rename, Lowest, Holders, Used
    <2>1. RenameTarget(p, q) \in Paths
      BY <1>5 DEF Rename
    <2>2. [mem.ent[e] EXCEPT !.path = RenameTarget(p, q)] \in Entry
      <3>1. mem.ent[e] \in Entry
        BY EntryOf
      <3> QED  BY <2>1, <3>1, EntryUpdates
    <2>3. mem' \in Meta
      BY <2>2, ChangeEntry
    <2> QED  BY <1>5, <2>3 DEF Rename
  <1>6. ASSUME StartFormat, UNCHANGED <<disk, data, torn>>, faults' \in 0..MaxFaults
        PROVE  TypeOK'
    <2>1. MetaJob("format", 0) \in Job
      BY JobTypes, SlotsAssumption
    <2> QED  BY <1>6, <2>1, TableTypes DEF StartFormat
  <1>7. Format => TypeOK'
    BY <1>6 DEF Format
  <1>8. FormatAtBoot => TypeOK'
    BY <1>6, BoundAssumption DEF FormatAtBoot, Fault
  <1>9. DataSector => TypeOK'
    <2> SUFFICES ASSUME DataSector PROVE TypeOK'
      OBVIOUS
    <2>1. /\ job.done \in 0..MaxSectors /\ job.content \in Contents
          /\ mem.next \in Nat
      BY DEF Job, Meta
    <2>2. job.done + 1 \in 0..MaxSectors /\ job.content[job.done + 1] \in Words
      <3>1. /\ Len(job.content) \in 0..MaxSectors
            /\ \A i \in 1..Len(job.content) : job.content[i] \in Words
        BY <2>1, ContentLength
      <3>2. job.done < Len(job.content)
        BY DEF DataSector
      <3>3. job.done + 1 \in 1..Len(job.content)
        BY <2>1, <3>1, <3>2, BoundAssumption
      <3> QED  BY <2>1, <3>1, <3>2, <3>3, BoundAssumption
    <2>3. data' \in [0..(DiskEnd - 1) -> Words \cup {Blank}]
      BY <2>2 DEF DataSector
    <2> QED  BY <2>2, <2>3 DEF DataSector, Job
  <1>10. DataFault => TypeOK'
    <2> SUFFICES ASSUME DataFault PROVE TypeOK'
      OBVIOUS
    <2>1. job.done \in 0..MaxSectors /\ job.content \in Contents
      BY DEF Job
    <2>2. job.done + 1 \in 0..MaxSectors
      <3>1. Len(job.content) \in 0..MaxSectors
        BY <2>1, ContentLength
      <3>2. job.done < Len(job.content)
        BY DEF DataFault
      <3> QED  BY <2>1, <3>1, <3>2, BoundAssumption
    <2>3. job' = [job EXCEPT !.done = job.done + 1, !.bad = TRUE]
      BY DEF DataFault
    <2>4. job' \in Job
      BY <2>2, <2>3, JobFault
    <2>5. faults' \in 0..MaxFaults
      BY BoundAssumption DEF DataFault, Fault
    <2> QED  BY <2>4, <2>5 DEF DataFault
  <1>11. Link => TypeOK'
    <2> SUFFICES ASSUME Link PROVE TypeOK'
      OBVIOUS
    <2>1. Len(job.content) \in Nat
      BY ContentLength, BoundAssumption DEF Job
    <2>2. job.slot \in Slots /\ mem.next \in Nat
      BY DEF Job, Meta
    <2>3. [mem.ent[job.slot] EXCEPT !.start = mem.next, !.size = Len(job.content)]
            \in Entry
      <3>1. mem.ent[job.slot] \in Entry
        BY <2>2, EntryOf
      <3> QED  BY <2>1, <2>2, <3>1, EntryMoved
    <2>4. mem.next + Len(job.content) \in Nat
      BY <2>1, <2>2
    <2>5. mem' \in Meta
      BY <2>2, <2>3, <2>4 DEF Link, Meta
    <2>6. job' \in Job
      BY DEF Link, Job
    <2> QED  BY <2>5, <2>6 DEF Link
  <1>12. MetaSector => TypeOK'
    <2> SUFFICES ASSUME MetaSector PROVE TypeOK'
      OBVIOUS
    <2>1. job.sec \in 0..LastSec
      BY DEF Job
    <2>2. disk' \in Meta
      BY <2>1, WriteThroughType DEF MetaSector
    <2>3. job' \in Job
      <3>1. CASE job.sec = LastSec
        BY <3>1, JobTypes DEF MetaSector
      <3>2. CASE job.sec # LastSec
        <4>1. job.sec + 1 \in 0..LastSec
          BY <2>1, <3>2, LayoutAssumption, SMTT(30) DEF LastSec
        <4> QED  BY <3>2, <4>1 DEF MetaSector, Job
      <3> QED  BY <3>1, <3>2
    <2> QED  BY <2>2, <2>3 DEF MetaSector, TornAfter
  <1>13. MetaFault => TypeOK'
    <2> SUFFICES ASSUME MetaFault PROVE TypeOK'
      OBVIOUS
    <2>1. job.sec \in 0..LastSec
      BY DEF Job
    <2>2. disk' \in Meta
      BY <2>1, WriteThroughType DEF MetaFault
    <2> DEFINE en == [mem.ent[job.slot] EXCEPT !.used = FALSE]
    <2>3. job.slot \in Slots /\ en \in Entry
      <3>1. job.slot \in Slots
        BY DEF Job
      <3>2. mem.ent[job.slot] \in Entry
        BY <3>1, EntryOf
      <3> QED  BY <3>1, <3>2, ZenonT(60) DEF Entry
    <2>4. mem' \in {mem, [mem EXCEPT !.ent[job.slot] = en]}
      BY DEF MetaFault
    <2>5. mem' \in Meta
      BY <2>3, <2>4, ChangeEntry
    <2>6. torn' \in BOOLEAN
      BY DEF MetaFault, TornAfter
    <2>7. faults' \in 0..MaxFaults
      BY BoundAssumption DEF MetaFault, Fault
    <2> QED  BY <2>2, <2>5, <2>6, <2>7, JobTypes DEF MetaFault
  <1>14. Crash => TypeOK'
    <2> SUFFICES ASSUME Crash PROVE TypeOK'
      OBVIOUS
    <2>1. faults' \in 0..MaxFaults
      BY BoundAssumption DEF Crash, Fault
    <2> QED  BY <2>1, JobTypes, TableTypes DEF Crash
  <1>15. MountAtBoot => TypeOK'
    BY JobTypes DEF MountAtBoot
  <1>16. Remount => TypeOK'
    BY DEF Remount, Meta
  <1>17. UNCHANGED vars => TypeOK'
    BY DEF vars
  <1> QED
    BY <1>1, <1>2, <1>3, <1>4, <1>5, <1>7, <1>8, <1>9, <1>10, <1>11, <1>12,
       <1>13, <1>14, <1>15, <1>16, <1>17 DEF Next

\* The state of the file system always has its type: no call leaves the table,
\* or the sector it writes next, out of range.
THEOREM TypeCorrect == Spec => []TypeOK
  <1>1. TypeOK /\ [Next]_vars => TypeOK'
    BY TypeStep
  <1> QED  BY InitType, <1>1, PTL DEF Spec

-----------------------------------------------------------------------------
(* What has been sent.                                                     *)

LEMMA SectorsInRange ==
  \A e \in Slots : /\ PathSec[e] \in 0..LastSec
                   /\ StartSec[e] \in 0..LastSec
                   /\ SizeSec[e] \in 0..LastSec
                   /\ FlagSec[e] \in 0..LastSec
  BY LayoutAssumption DEF LastSec

\* Before the first sector nothing has been sent.
LEMMA NothingSent == ASSUME NEW d, NEW m PROVE FieldsSent(d, m, 0)
  BY SectorsInRange DEF FieldsSent

\* A sector that reaches the disk brings the fields that lie in it.
LEMMA SectorSent ==
  ASSUME TypeOK, SentFields, job.pc = "meta"
  PROVE  /\ FieldsSent(WriteThrough(job.sec), mem, job.sec + 1)
         /\ HeaderSent(WriteThrough(job.sec), mem)
  <1>1. job.sec \in 0..LastSec
    BY DEF TypeOK, Job
  <1>2. HeaderSent(WriteThrough(job.sec), mem)
    BY <1>1 DEF HeaderSent, SentFields, WriteThrough
  <1>3. FieldsSent(disk, mem, job.sec)
    BY DEF SentFields
  <1>4. \A n \in Int : n < job.sec + 1 <=> n < job.sec \/ n = job.sec
    BY <1>1, LayoutAssumption DEF LastSec
  <1>5. \A e \in Slots : /\ PathSec[e] \in Int /\ StartSec[e] \in Int
                         /\ SizeSec[e] \in Int /\ FlagSec[e] \in Int
    BY LayoutAssumption
  <1>6. FieldsSent(WriteThrough(job.sec), mem, job.sec + 1)
    BY <1>3, <1>4, <1>5 DEF FieldsSent, WriteThrough, EntryThrough
  <1> QED  BY <1>2, <1>6

\* Once every sector has been sent the disk holds the table in memory.
LEMMA AllSent ==
  ASSUME NEW d \in Meta, NEW m \in Meta, FieldsSent(d, m, LastSec + 1), HeaderSent(d, m)
  PROVE  /\ \A e \in Slots : d.ent[e] = m.ent[e]
         /\ d.mixed = m.mixed => d = m
  <1>1. ASSUME NEW e \in Slots PROVE d.ent[e] = m.ent[e]
    <2>1. d.ent[e] \in Entry /\ m.ent[e] \in Entry
      BY EntryOf
    <2>2. /\ d.ent[e].path = m.ent[e].path
          /\ d.ent[e].start = m.ent[e].start
          /\ d.ent[e].size = m.ent[e].size
          /\ d.ent[e].used = m.ent[e].used
          /\ d.ent[e].others = m.ent[e].others
          /\ d.ent[e].owner = m.ent[e].owner
      BY SectorsInRange, LayoutAssumption DEF FieldsSent, LastSec
    <2> QED  BY <2>1, <2>2 DEF Entry
  <1>2. d.ent = m.ent
    BY <1>1 DEF Meta
  <1> QED  BY <1>1, <1>2 DEF Meta, HeaderSent

LEMMA LastSectorSent ==
  ASSUME TypeOK, SentFields, job.pc = "meta", job.sec = LastSec
  PROVE  WriteThrough(job.sec) = mem
  <1> DEFINE d == WriteThrough(job.sec)
  <1>1. d \in Meta /\ mem \in Meta
    BY WriteThroughType DEF TypeOK, Job
  <1>2. FieldsSent(d, mem, LastSec + 1) /\ HeaderSent(d, mem)
    BY SectorSent
  <1>3. \A e \in Slots : d.ent[e] = mem.ent[e]
    BY <1>1, <1>2, AllSent
  <1>4. d.mixed = MixedThrough(job.sec) /\ \A e \in Slots : d.ent[e] = EntryThrough(job.sec, e)
    BY WriteThroughParts
  <1>5. d.mixed = mem.mixed
    BY <1>1, <1>3, <1>4 DEF MixedThrough, Meta
  <1> HIDE DEF d
  <1>6. d = mem
    BY <1>1, <1>2, <1>5, AllSent
  <1> QED  BY <1>6 DEF d

LEMMA SentFieldsStep ==
  ASSUME TypeOK, Stages, SentFields, [Next]_vars
  PROVE  SentFields'
  <1>1. ASSUME job'.pc = "meta", job'.sec = 0 PROVE SentFields'
    BY <1>1, NothingSent DEF SentFields
  <1>2. ASSUME job'.pc # "meta" PROVE SentFields'
    BY <1>2 DEF SentFields
  <1>3. \A op, e : MetaJob(op, e).pc = "meta" /\ MetaJob(op, e).sec = 0
    BY DEF MetaJob, NoJob
  <1>4. \A e, c : WriteJob(e, c).pc = "data"
    BY DEF WriteJob, NoJob
  <1>5. ASSUME NEW p \in Paths, Mkdir(p) \/ Remove(p) \/ \E others \in ChmodBits : Chmod(p, others)
        PROVE  SentFields'
    <2>1. \E op, e : job' = MetaJob(op, e)
      BY <1>5, Zenon DEF Mkdir, Remove, Chmod
    <2> QED  BY <1>1, <1>3, <2>1
  <1>6. ASSUME NEW p \in Paths, NEW c \in Contents, NEW uid \in Uids, WriteAll(p, c, uid)
        PROVE  SentFields'
    BY <1>2, <1>4, <1>6 DEF WriteAll, CreateFile, ReplaceFile
  <1>7. ASSUME NEW p \in Paths, NEW q \in Paths, Rename(p, q) PROVE SentFields'
    BY <1>2, <1>7 DEF Rename, Ready, Idle
  <1>8. Format \/ FormatAtBoot => SentFields'
    BY <1>1, <1>3 DEF Format, FormatAtBoot, StartFormat
  <1>9. DataSector \/ DataFault => SentFields'
    BY <1>2 DEF DataSector, DataFault, TypeOK, Job
  <1>10. Link => SentFields'
    <2> SUFFICES ASSUME Link PROVE SentFields'
      OBVIOUS
    <2>1. job' = [job EXCEPT !.pc = "meta"]
      BY DEF Link
    <2>2. job.sec = 0
      BY DEF Link, Stages
    <2> QED  BY <1>1, <2>1, <2>2 DEF TypeOK, Job
  <1>11. MetaSector => SentFields'
    <2> SUFFICES ASSUME MetaSector PROVE SentFields'
      OBVIOUS
    <2>1. CASE job.sec = LastSec
      BY <1>2, <2>1 DEF MetaSector, NoJob
    <2>2. CASE job.sec # LastSec
      <3>1. job'.sec = job.sec + 1
        BY <2>2 DEF MetaSector, TypeOK, Job
      <3>2. disk' = WriteThrough(job.sec) /\ mem' = mem /\ job.pc = "meta"
        BY DEF MetaSector
      <3> QED  BY <3>1, <3>2, SectorSent DEF SentFields
    <2> QED  BY <2>1, <2>2
  <1>12. MetaFault \/ Crash \/ MountAtBoot => SentFields'
    BY <1>2 DEF MetaFault, Crash, MountAtBoot, NoJob, Boot
  <1>13. Remount => SentFields'
    BY <1>2 DEF Remount, Idle
  <1>14. UNCHANGED vars => SentFields'
    BY DEF vars, SentFields, FieldsSent, HeaderSent
  <1> QED
    BY <1>5, <1>6, <1>7, <1>8, <1>9, <1>10, <1>11, <1>12, <1>13, <1>14 DEF Next

-----------------------------------------------------------------------------
(* The free pointer.                                                       *)

Ordering == Stages /\ SentPrefix /\ FreePointer

LEMMA InitOrdering == Init => Ordering
  BY DEF Init, Ordering, Stages, SentPrefix, FreePointer, Bounded, Boot, NoJob,
         EmptyMeta, EmptyEntry, Coherent

\* Stages, the header and the free pointer do not see what a call changes in one
\* entry, as long as a coherent entry stays within the free pointer.
LEMMA CallKeepsOrdering ==
  ASSUME TypeOK, Ordering, Ready, NEW e \in Slots, NEW en \in Entry,
         NEW M \in {mem.mixed, mem.mixed \ {e}},
         ~torn /\ (StartSec[e] = SizeSec[e] \/ e \notin M) /\ en.size \in Nat
           => en.start + en.size <= mem.next,
         mem' \in Meta, mem'.next = mem.next, mem'.mixed = M,
         mem'.ent = [mem.ent EXCEPT ![e] = en],
         \/ job'.pc = "idle"
         \/ job'.pc = "data" /\ job'.op = "write" /\ job'.sec = 0
         \/ job'.pc = "meta" /\ job'.op # "format" /\ job'.sec = 0,
         UNCHANGED <<disk, inited, torn>>
  PROVE  Ordering'
  <1>2. inited /\ inited'
    BY DEF Ready
  <1>3. Stages'
    BY <1>2 DEF Stages
  <1>4. SentPrefix'
    BY DEF SentPrefix
  <1>5. FreePointer'
    <2> SUFFICES ASSUME ~torn
                 PROVE  Bounded(disk) /\ Bounded(mem') /\ disk.next <= mem'.next
      BY DEF FreePointer, Bounded, Coherent
    <2>1. Bounded(disk) /\ Bounded(mem) /\ disk.next <= mem.next
      BY <1>2 DEF Ordering, FreePointer
    <2>2. ASSUME NEW f \in Coherent(mem'), mem'.ent[f].size \in Nat
          PROVE  mem'.ent[f].start + mem'.ent[f].size <= mem'.next
      <3>1. f \in Slots /\ (StartSec[f] = SizeSec[f] \/ f \notin M)
        BY <2>2 DEF Coherent
      <3>2. CASE f = e
        <4>1. mem'.ent[f] = en
          BY <3>2 DEF TypeOK, Meta
        <4> QED  BY <2>2, <3>1, <3>2, <4>1
      <3>3. CASE f # e
        <4>1. mem'.ent[f] = mem.ent[f] /\ f \in Coherent(mem)
          BY <3>1, <3>3 DEF TypeOK, Meta, Coherent
        <4> QED  BY <2>1, <2>2, <4>1 DEF Bounded
      <3> QED  BY <3>2, <3>3
    <2>3. Bounded(mem')
      BY <2>2 DEF Bounded
    <2> QED  BY <2>1, <2>3
  <1> QED  BY <1>3, <1>4, <1>5 DEF Ordering

\* A new table in memory that is not mounted, or the disk's own table, puts no
\* demand on the free pointer.
LEMMA CacheReplaced ==
  ASSUME TypeOK, Ordering, UNCHANGED <<disk, torn>>,
         ~inited' \/ mem' = disk
  PROVE  FreePointer'
  BY DEF TypeOK, Meta, Ordering, FreePointer, Bounded, Coherent

LEMMA FormatKeepsOrdering ==
  ASSUME TypeOK, Ordering, StartFormat, UNCHANGED <<disk, torn>>
  PROVE  Ordering'
  <1>1. job'.pc = "meta" /\ job'.op = "format" /\ job'.sec = 0
    BY DEF StartFormat, MetaJob, NoJob
  <1>2. Stages'
    BY <1>1, Zenon DEF Stages, StartFormat
  <1>3. SentPrefix'
    BY <1>1 DEF SentPrefix
  <1>4. FreePointer'
    BY CacheReplaced DEF StartFormat
  <1> QED  BY <1>2, <1>3, <1>4 DEF Ordering

LEMMA NoWritesKeepOrdering ==
  ASSUME TypeOK, Ordering, job'.pc \in {"idle", "boot"},
         UNCHANGED <<disk, torn>>, ~inited' \/ mem' = disk
  PROVE  Ordering'
  BY CacheReplaced DEF Ordering, Stages, SentPrefix

\* Pointing an entry at the sectors just written.
LEMMA LinkKeepsOrdering ==
  ASSUME TypeOK, Ordering, Link
  PROVE  Ordering'
  <1> DEFINE size == Len(job.content)
             en == [mem.ent[job.slot] EXCEPT !.start = mem.next, !.size = size]
  <1>1. /\ size \in Nat /\ job.slot \in Slots /\ mem.next \in Nat
        /\ mem.next + size \in Nat
    BY ContentLength, BoundAssumption, SMTT(30) DEF TypeOK, Job, Meta
  <1>2. en \in Entry /\ en.start = mem.next /\ en.size = size
    <2>1. mem.ent[job.slot] \in Entry
      BY <1>1, EntryOf DEF TypeOK
    <2>2. en \in Entry
      BY <1>1, <2>1, EntryMoved
    <2> QED  BY <1>1, <2>1, <2>2 DEF Entry
  <1> HIDE DEF en
  <1>3. mem' = [mem EXCEPT !.ent[job.slot] = en, !.next = mem.next + size,
                           !.mixed = @ \ {job.slot}]
    BY DEF Link, en
  <1>4. inited /\ inited' /\ disk' = disk /\ torn' = torn
    BY DEF Ordering, Stages, Link
  <1>5. job'.pc = "meta" /\ job'.op = "write" /\ job'.sec = 0
    BY DEF Link, Ordering, Stages, TypeOK, Job
  <1>6. Stages'
    BY <1>4, <1>5 DEF Stages
  <1>7. SentPrefix'
    BY <1>5 DEF SentPrefix
  <1>8. /\ mem'.next = mem.next + size
        /\ mem'.ent = [mem.ent EXCEPT ![job.slot] = en]
        /\ mem'.mixed = mem.mixed \ {job.slot}
    BY <1>1, <1>2, <1>3 DEF TypeOK, Meta
  <1>9. FreePointer'
    <2> SUFFICES ASSUME ~torn
                 PROVE  Bounded(disk) /\ Bounded(mem') /\ disk.next <= mem'.next
      BY <1>4 DEF FreePointer, Bounded, Coherent
    <2>1. Bounded(disk) /\ Bounded(mem) /\ disk.next <= mem.next
      BY <1>4 DEF Ordering, FreePointer
    <2>2. ASSUME NEW f \in Coherent(mem'), mem'.ent[f].size \in Nat
          PROVE  mem'.ent[f].start + mem'.ent[f].size <= mem'.next
      <3>1. f \in Slots
        BY <2>2 DEF Coherent
      <3>2. CASE f = job.slot
        <4>1. mem'.ent[f] = en
          BY <1>1, <1>8, <3>2 DEF TypeOK, Meta
        <4> QED  BY <1>1, <1>2, <1>8, <4>1
      <3>3. CASE f # job.slot
        <4>1. mem'.ent[f] = mem.ent[f] /\ f \in Coherent(mem)
          BY <1>8, <2>2, <3>1, <3>3 DEF TypeOK, Meta, Coherent
        <4>2. mem.ent[f].start + mem.ent[f].size <= mem.next
          BY <2>1, <2>2, <4>1 DEF Bounded
        <4>3. mem.ent[f].start \in Nat /\ mem.ent[f].size \in Nat
          BY <2>2, <3>1, <4>1, EntryOf DEF TypeOK, Entry
        <4> HIDE DEF size
        <4> QED  BY <1>1, <1>8, <4>1, <4>2, <4>3, SMTT(30)
      <3> QED  BY <3>2, <3>3
    <2>3. Bounded(mem')
      BY <2>2 DEF Bounded
    <2>4. disk.next \in Nat
      BY DEF TypeOK, Meta
    <2> QED  BY <1>1, <1>8, <2>1, <2>3, <2>4
  <1> QED  BY <1>6, <1>7, <1>9 DEF Ordering

\* A sector of the table reaches the disk, the memory staying as it is.
LEMMA SentKeepsOrdering ==
  ASSUME TypeOK, Ordering, SentFields, job.pc = "meta",
         disk' = WriteThrough(job.sec), torn' = TornAfter(job.sec)
  PROVE  /\ job.sec >= 0 /\ disk'.next = mem.next
         /\ ~torn' => Bounded(disk') /\ Bounded(mem)
  <1>1. job.sec \in 0..LastSec
    BY DEF TypeOK, Job
  <1>3. disk'.next = mem.next
    BY <1>1, WriteThroughParts DEF Ordering, SentPrefix
  <1>5. ASSUME ~torn' PROVE Bounded(disk') /\ Bounded(mem)
    <2>1. CASE job.op = "format"
      <3>1. job.sec = LastSec
        BY <1>5, <2>1 DEF TornAfter
      <3>2. Bounded(mem)
        BY <2>1 DEF Ordering, Stages, Bounded, FormattedMeta, EmptyMeta, EmptyEntry, Coherent
      <3>3. disk' = mem
        BY <3>1, LastSectorSent
      <3> QED  BY <3>2, <3>3
    <2>2. CASE job.op # "format"
      <3>1. Bounded(disk) /\ Bounded(mem) /\ disk.next <= mem.next
        BY <1>5, <2>2 DEF TornAfter, Ordering, Stages, FreePointer
      <3>2. ASSUME NEW e \in Coherent(disk'), disk'.ent[e].size \in Nat
            PROVE  disk'.ent[e].start + disk'.ent[e].size <= disk'.next
        <4>1. PICK m \in {mem, disk} : /\ e \in Coherent(m)
                                       /\ disk'.ent[e].start = m.ent[e].start
                                       /\ disk'.ent[e].size = m.ent[e].size
          BY <1>1, <3>2, WriteThroughCoherent
        <4>2. m.ent[e].start + m.ent[e].size <= m.next
          BY <3>1, <3>2, <4>1 DEF Bounded
        <4>3. m.next <= mem.next /\ m.next \in Nat /\ mem.next \in Nat
          BY <3>1 DEF TypeOK, Meta
        <4>4. m.ent[e].start \in Nat
          <5>1. m \in Meta /\ e \in Slots
            BY <4>1 DEF TypeOK, Coherent
          <5> QED  BY <5>1, EntryOf DEF Entry
        <4> QED  BY <1>3, <3>2, <4>1, <4>2, <4>3, <4>4
      <3>3. Bounded(disk')
        BY <3>2 DEF Bounded
      <3> QED  BY <3>1, <3>3
    <2> QED  BY <2>1, <2>2
  <1> QED  BY <1>1, <1>3, <1>5

LEMMA EntryFits ==
  ASSUME TypeOK, Ordering, Ready, NEW e \in Slots
  PROVE  ~torn /\ (StartSec[e] = SizeSec[e] \/ e \notin mem.mixed)
           /\ mem.ent[e].size \in Nat
           => mem.ent[e].start + mem.ent[e].size <= mem.next
  BY DEF Ordering, FreePointer, Bounded, Ready, Coherent

LEMMA OrderingStep ==
  ASSUME TypeOK, Ordering, SentFields, [Next]_vars
  PROVE  Ordering'
  <1>1. ASSUME NEW p \in Paths, Mkdir(p) PROVE Ordering'
    <2> DEFINE en == [EmptyEntry EXCEPT !.path = p, !.size = DirSize, !.used = TRUE]
    <2> PICK e \in Slots : /\ mem' = [mem EXCEPT !.ent[e] = en, !.mixed = @ \ {e}]
                           /\ job' = MetaJob("mkdir", e)
      BY <1>1 DEF Mkdir, Lowest, FreeSlots
    <2>1. en \in Entry /\ en.size \notin Nat
      BY TableTypes, SizeAssumption, ZenonT(60) DEF EmptyEntry, Entry
    <2> HIDE DEF en
    <2>2. job'.pc = "meta" /\ job'.op = "mkdir" /\ job'.sec = 0
      BY DEF MetaJob, NoJob
    <2>3. /\ mem' \in Meta /\ mem'.next = mem.next
          /\ mem'.ent = [mem.ent EXCEPT ![e] = en] /\ mem'.mixed = mem.mixed \ {e}
      BY <2>1 DEF TypeOK, Meta
    <2> QED  BY <1>1, <2>1, <2>2, <2>3, CallKeepsOrdering DEF Mkdir
  <1>2. ASSUME NEW p \in Paths, NEW c \in Contents, NEW uid \in Uids, WriteAll(p, c, uid)
        PROVE  Ordering'
    <2>1. ASSUME NEW e \in Slots, job' = WriteJob(e, c)
          PROVE  job'.pc = "data" /\ job'.op = "write" /\ job'.sec = 0
      BY <2>1 DEF WriteJob, NoJob
    <2>2. CASE CreateFile(p, c, uid)
      <3> PICK e \in Slots :
            /\ mem' = [mem EXCEPT !.ent[e] =
                 [@ EXCEPT !.path = p, !.used = TRUE, !.owner = uid % 256,
                           !.others = UnderEtc(p)]]
            /\ job' = WriteJob(e, c)
        BY <2>2 DEF CreateFile, Lowest, FreeSlots
      <3> DEFINE en == [mem.ent[e] EXCEPT !.path = p, !.used = TRUE,
                          !.owner = uid % 256, !.others = UnderEtc(p)]
      <3>1. uid % 256 \in 0..255 /\ mem.ent[e] \in Entry
        BY UidsAssumption, ByteRange, EntryOf DEF TypeOK
      <3>2. UnderEtc(p) \in BOOLEAN
        BY Zenon DEF UnderEtc
      <3>3. en \in Entry
        BY <3>1, <3>2, ZenonT(60) DEF Entry
      <3>5. en.start = mem.ent[e].start /\ en.size = mem.ent[e].size
        BY <3>1 DEF Entry
      <3>4. mem' = [mem EXCEPT !.ent[e] = en]
        OBVIOUS
      <3> HIDE DEF en
      <3>6. /\ mem' \in Meta /\ mem'.next = mem.next
            /\ mem'.ent = [mem.ent EXCEPT ![e] = en] /\ mem'.mixed = mem.mixed
        BY <3>3, <3>4 DEF TypeOK, Meta
      <3> QED  BY <1>2, <2>1, <3>3, <3>5, <3>6, EntryFits, CallKeepsOrdering DEF WriteAll
    <2>3. CASE ReplaceFile(p, c)
      <3> PICK e \in Slots : job' = WriteJob(e, c) /\ mem' = mem
        BY <2>3 DEF ReplaceFile, Lowest, Holders, Used
      <3>1. /\ mem' \in Meta /\ mem'.next = mem.next /\ mem'.mixed = mem.mixed
            /\ mem'.ent = [mem.ent EXCEPT ![e] = mem.ent[e]] /\ mem.ent[e] \in Entry
        BY EntryOf DEF TypeOK, Meta
      <3> QED  BY <1>2, <2>1, <3>1, EntryFits, CallKeepsOrdering DEF WriteAll
    <2> QED  BY <1>2, <2>2, <2>3 DEF WriteAll
  <1>3. ASSUME NEW p \in Paths, Remove(p) PROVE Ordering'
    <2> PICK e \in Slots : /\ mem' = [mem EXCEPT !.ent[e] = EmptyEntry, !.mixed = @ \ {e}]
                           /\ job' = MetaJob("remove", e)
      BY <1>3 DEF Remove, Lowest, Holders, Used
    <2>1. EmptyEntry \in Entry /\ EmptyEntry.start + EmptyEntry.size <= mem.next
      BY TableTypes DEF EmptyEntry, TypeOK, Meta
    <2>2. job'.pc = "meta" /\ job'.op = "remove" /\ job'.sec = 0
      BY DEF MetaJob, NoJob
    <2>3. /\ mem' \in Meta /\ mem'.next = mem.next
          /\ mem'.ent = [mem.ent EXCEPT ![e] = EmptyEntry] /\ mem'.mixed = mem.mixed \ {e}
      BY <2>1 DEF TypeOK, Meta
    <2> QED  BY <1>3, <2>1, <2>2, <2>3, CallKeepsOrdering DEF Remove
  <1>4. ASSUME NEW p \in Paths, NEW others \in ChmodBits, Chmod(p, others)
        PROVE  Ordering'
    <2> PICK e \in Slots : /\ mem' = [mem EXCEPT !.ent[e].others = others]
                           /\ job' = MetaJob("chmod", e)
      BY <1>4 DEF Chmod, Lowest, Holders, Used
    <2> DEFINE en == [mem.ent[e] EXCEPT !.others = others]
    <2>1. mem.ent[e] \in Entry /\ others \in BOOLEAN
      BY EntryOf, UidsAssumption DEF TypeOK
    <2>2. en \in Entry /\ en.start = mem.ent[e].start /\ en.size = mem.ent[e].size
      BY <2>1 DEF Entry
    <2>3. mem' = [mem EXCEPT !.ent[e] = en]
      OBVIOUS
    <2> HIDE DEF en
    <2>4. job'.pc = "meta" /\ job'.op = "chmod" /\ job'.sec = 0
      BY DEF MetaJob, NoJob
    <2>5. /\ mem' \in Meta /\ mem'.next = mem.next
          /\ mem'.ent = [mem.ent EXCEPT ![e] = en] /\ mem'.mixed = mem.mixed
      BY <2>2, <2>3 DEF TypeOK, Meta
    <2> QED  BY <1>4, <2>2, <2>4, <2>5, EntryFits, CallKeepsOrdering DEF Chmod
  <1>5. ASSUME NEW p \in Paths, NEW q \in Paths, Rename(p, q) PROVE Ordering'
    <2> PICK e \in Slots : mem' = [mem EXCEPT !.ent[e].path = RenameTarget(p, q)]
      BY <1>5 DEF Rename, Lowest, Holders, Used
    <2> DEFINE en == [mem.ent[e] EXCEPT !.path = RenameTarget(p, q)]
    <2>1. mem.ent[e] \in Entry /\ RenameTarget(p, q) \in Paths
      BY <1>5, EntryOf DEF TypeOK, Rename
    <2>2. en \in Entry /\ en.start = mem.ent[e].start /\ en.size = mem.ent[e].size
      BY <2>1 DEF Entry
    <2>3. mem' = [mem EXCEPT !.ent[e] = en]
      OBVIOUS
    <2> HIDE DEF en
    <2>4. job'.pc = "idle"
      BY <1>5 DEF Rename, Ready, Idle
    <2>5. /\ mem' \in Meta /\ mem'.next = mem.next
          /\ mem'.ent = [mem.ent EXCEPT ![e] = en] /\ mem'.mixed = mem.mixed
      BY <2>2, <2>3 DEF TypeOK, Meta
    <2> QED  BY <1>5, <2>2, <2>4, <2>5, EntryFits, CallKeepsOrdering DEF Rename
  <1>6. Format \/ FormatAtBoot => Ordering'
    BY FormatKeepsOrdering DEF Format, FormatAtBoot
  <1>7. DataSector \/ DataFault => Ordering'
    <2> SUFFICES ASSUME DataSector \/ DataFault PROVE Ordering'
      OBVIOUS
    <2>1. /\ job'.pc = "data" /\ job.pc = "data"
          /\ job'.op = job.op /\ job'.sec = job.sec
          /\ UNCHANGED <<disk, mem, inited, torn>>
      BY DEF DataSector, DataFault, TypeOK, Job
    <2> QED  BY <2>1 DEF Ordering, Stages, SentPrefix, FreePointer, Bounded, Coherent
  <1>8. Link => Ordering'
    BY LinkKeepsOrdering
  <1>9. MetaSector => Ordering'
    <2> SUFFICES ASSUME MetaSector PROVE Ordering'
      OBVIOUS
    <2>1. /\ disk'.next = mem.next
          /\ ~torn' => Bounded(disk') /\ Bounded(mem)
          /\ mem' = mem
      BY SentKeepsOrdering DEF MetaSector
    <2>2. FreePointer'
      BY <2>1 DEF FreePointer, Bounded, Coherent, TypeOK, Meta
    <2>3. CASE job.sec = LastSec
      <3>1. job'.pc = "idle"
        BY <2>3 DEF MetaSector, NoJob
      <3> QED  BY <2>2, <3>1 DEF Ordering, Stages, SentPrefix
    <2>4. CASE job.sec # LastSec
      <3>1. /\ job'.pc = "meta" /\ job'.op = job.op /\ job'.sec = job.sec + 1
            /\ inited' = inited /\ job.pc = "meta"
        BY <2>4 DEF MetaSector, TypeOK, Job
      <3>2. Stages'
        BY <2>1, <3>1, Zenon DEF Ordering, Stages
      <3>3. SentPrefix'
        BY <2>1, <2>4, <3>1 DEF SentPrefix, MetaSector, TornAfter
      <3> QED  BY <2>2, <3>2, <3>3 DEF Ordering
    <2> QED  BY <2>3, <2>4
  <1>10. MetaFault => Ordering'
    <2> SUFFICES ASSUME MetaFault PROVE Ordering'
      OBVIOUS
    <2>1. job'.pc = "idle" /\ inited' = inited /\ job.pc = "meta"
      BY DEF MetaFault, NoJob
    <2>2. mem'.next = mem.next /\ (Bounded(mem) => Bounded(mem'))
      <3>1. CASE mem' = mem
        BY <3>1 DEF Bounded
      <3>2. CASE mem' = [mem EXCEPT !.ent[job.slot].used = FALSE]
        <4>1. job.slot \in Slots
          BY DEF TypeOK, Job
        <4>2. mem'.next = mem.next
          BY <3>2 DEF TypeOK, Meta
        <4>3. \A e \in Slots : /\ mem'.ent[e].start = mem.ent[e].start
                               /\ mem'.ent[e].size = mem.ent[e].size
          BY <3>2, <4>1 DEF TypeOK, Meta, Entry
        <4>4. mem'.mixed = mem.mixed
          BY <3>2 DEF TypeOK, Meta
        <4> QED  BY <4>2, <4>3, <4>4 DEF Bounded, Coherent
      <3> QED  BY <3>1, <3>2 DEF MetaFault
    <2>3. CASE disk' = WriteThrough(job.sec) /\ torn' = TornAfter(job.sec)
      <3>1. disk'.next = mem.next /\ (~torn' => Bounded(disk') /\ Bounded(mem))
        BY <2>1, <2>3, SentKeepsOrdering
      <3>2. FreePointer'
        BY <2>2, <3>1 DEF FreePointer, Bounded, Coherent, TypeOK, Meta
      <3> QED  BY <2>1, <3>2 DEF Ordering, Stages, SentPrefix
    <2>4. CASE UNCHANGED <<disk, torn>>
      <3>1. FreePointer'
        BY <2>1, <2>2, <2>4 DEF Ordering, FreePointer, Bounded, Coherent
      <3> QED  BY <2>1, <3>1 DEF Ordering, Stages, SentPrefix
    <2> QED  BY <2>3, <2>4 DEF MetaFault
  <1>11. Crash => Ordering'
    BY NoWritesKeepOrdering DEF Crash, Boot, NoJob
  <1>12. MountAtBoot => Ordering'
    BY NoWritesKeepOrdering DEF MountAtBoot, NoJob
  <1>13. Remount => Ordering'
    BY NoWritesKeepOrdering DEF Remount, Idle
  <1>14. UNCHANGED vars => Ordering'
    BY DEF vars, Ordering, Stages, SentPrefix, FreePointer, Bounded, Coherent
  <1> QED
    BY <1>1, <1>2, <1>3, <1>4, <1>5, <1>6, <1>7, <1>8, <1>9, <1>10, <1>11,
       <1>12, <1>13, <1>14 DEF Next

\* The parts of the inductive invariant hold together.
LEMMA IInvAlways == Spec => []IInv
  <1>1. Init => IInv
    BY InitType, InitOrdering DEF IInv, Ordering, SentFields, Init, Boot, NoJob
  <1>2. IInv /\ [Next]_vars => IInv'
    BY TypeStep, OrderingStep, SentFieldsStep DEF IInv, Ordering
  <1> QED  BY <1>1, <1>2, PTL DEF Spec

LEMMA PastFiles == IInv => FreePointerPastFiles
  <1> SUFFICES ASSUME IInv, ~torn, NEW e \in Coherent(disk), NEW l \in Extent(disk.ent[e])
               PROVE  l < disk.next
    BY DEF FreePointerPastFiles
  <1>1. disk.ent[e] \in Entry
    BY EntryOf DEF IInv, TypeOK, Coherent
  <1>2. disk.ent[e].size \in Nat /\ disk.ent[e].start \in Nat
    BY <1>1 DEF Extent, Entry
  <1>3. disk.ent[e].start + disk.ent[e].size <= disk.next
    BY <1>2 DEF IInv, FreePointer, Bounded
  <1>4. disk.next \in Nat
    BY DEF IInv, TypeOK, Meta
  <1> QED  BY <1>2, <1>3, <1>4, SizeAssumption DEF Extent

\* On the disk, at every moment, the free pointer of the header lies past every
\* file, whatever write failed or power was lost before.
THEOREM FreePointerCorrect == Spec => []FreePointerPastFiles
  BY PastFiles, IInvAlways, PTL

\* No step of any call, fault or restart changes a sector that a file on the
\* disk refers to.
THEOREM CommittedDataCorrect == Spec => CommittedDataKept
  <1> DEFINE Kept == ~torn => \A e \in Coherent(disk) :
                       \A l \in Extent(disk.ent[e]) \cap DOMAIN data : data'[l] = data[l]
  <1>1. ASSUME IInv, [Next]_vars, ~torn, NEW e \in Coherent(disk),
               NEW l \in Extent(disk.ent[e]) \cap DOMAIN data
        PROVE  data'[l] = data[l]
    <2>1. CASE DataSector
      <3>1. l < disk.next
        BY <1>1, PastFiles DEF FreePointerPastFiles
      <3>2. disk.next <= mem.next
        BY <1>1, <2>1 DEF IInv, Stages, FreePointer, DataSector
      <3>3. /\ disk.next \in Nat /\ mem.next \in Nat /\ job.done \in Nat
            /\ l \in 0..(DiskEnd - 1) /\ data \in [0..(DiskEnd - 1) -> Words \cup {Blank}]
        BY <1>1, BoundAssumption DEF IInv, TypeOK, Meta, Job
      <3>4. l # mem.next + job.done
        BY <3>1, <3>2, <3>3, BoundAssumption, SMTT(30)
      <3> QED  BY <2>1, <3>3, <3>4 DEF DataSector, NextLba
    <2>2. CASE ~DataSector
      BY <1>1, <2>2, Zenon DEF Next, vars, Mkdir, WriteAll, Remove, Chmod, Rename, Format,
         DataFault, Link, MetaSector, MetaFault, Crash, MountAtBoot, FormatAtBoot, Remount
    <2> QED  BY <2>1, <2>2
  <1>2. IInv /\ [Next]_vars => [Kept]_vars
    BY <1>1
  <1> QED  BY <1>2, IInvAlways, PTL DEF Spec, CommittedDataKept

-----------------------------------------------------------------------------
(* Files share no sector.                                                  *)

\* No two coherent entries, one of each table, share a data sector.
Apart(one, other) ==
  \A e \in Coherent(one), f \in Coherent(other) :
    e # f => Extent(one.ent[e]) \cap Extent(other.ent[f]) = {}

AllApart == ~torn => Apart(disk, disk) /\ Apart(mem, mem) /\ Apart(disk, mem)

\* Only the sectors an entry has matter, and both tables are looked at alike.
LEMMA ApartIsSymmetric ==
  ASSUME NEW one, NEW other, Apart(one, other)
  PROVE  Apart(other, one)
  BY DEF Apart

LEMMA DisjointIsApart == FilesDisjoint <=> AllApart
  BY ApartIsSymmetric DEF FilesDisjoint, AllApart, Apart

\* A table without files is apart from every other.
LEMMA NoFilesApart ==
  ASSUME NEW one, NEW other, \A e \in Slots : Extent(one.ent[e]) = {}
  PROVE  Apart(one, other) /\ Apart(other, one)
  BY DEF Apart, Coherent

LEMMA NewTablesHaveNoFiles ==
  \A e \in Slots : Extent(EmptyMeta.ent[e]) = {} /\ Extent(FormattedMeta.ent[e]) = {}
  BY DEF Extent, EmptyMeta, FormattedMeta, EmptyEntry

\* A call that gives no entry a new sector, and makes no entry with sectors
\* coherent.
LEMMA NoNewSectorKeepsApart ==
  ASSUME AllApart, UNCHANGED <<disk, torn>>,
         \A f \in Coherent(mem') :
            \/ Extent(mem'.ent[f]) = {}
            \/ f \in Coherent(mem) /\ Extent(mem'.ent[f]) \subseteq Extent(mem.ent[f])
  PROVE  AllApart'
  <1> SUFFICES ASSUME ~torn
               PROVE  Apart(disk, disk) /\ Apart(mem', mem') /\ Apart(disk, mem')
    BY DEF AllApart, Apart, Coherent
  <1>1. Apart(disk, disk) /\ Apart(mem, mem) /\ Apart(disk, mem)
    BY DEF AllApart
  <1>2. Apart(mem', mem')
    BY <1>1, ZenonT(60) DEF Apart
  <1>3. Apart(disk, mem')
    BY <1>1, ZenonT(60) DEF Apart
  <1> QED  BY <1>1, <1>2, <1>3

\* A call that changes one entry gives it no new sector.
LEMMA EntryChangeKeepsApart ==
  ASSUME TypeOK, AllApart, NEW e \in Slots, NEW en \in Entry,
         Extent(en) \subseteq Extent(mem.ent[e]),
         mem' = [mem EXCEPT !.ent[e] = en], UNCHANGED <<disk, torn>>
  PROVE  AllApart'
  <1>1. mem'.ent = [mem.ent EXCEPT ![e] = en] /\ mem'.mixed = mem.mixed
    BY ChangeEntry DEF TypeOK
  <1>2. \A f \in Slots : Extent(mem'.ent[f]) \subseteq Extent(mem.ent[f])
    BY <1>1 DEF TypeOK, Meta
  <1>3. \A f \in Coherent(mem') : f \in Slots /\ f \in Coherent(mem)
    BY <1>1 DEF Coherent
  <1> QED  BY <1>2, <1>3, NoNewSectorKeepsApart

LEMMA RenewedKeepsApart ==
  ASSUME TypeOK, AllApart, NEW e \in Slots, NEW en \in Entry, Extent(en) = {},
         mem' = [mem EXCEPT !.ent[e] = en, !.mixed = @ \ {e}], UNCHANGED <<disk, torn>>
  PROVE  AllApart'
  <1>1. mem'.ent = [mem.ent EXCEPT ![e] = en] /\ mem'.mixed = mem.mixed \ {e}
    BY DEF TypeOK, Meta
  <1>2. \A f \in Slots : mem'.ent[f] = IF f = e THEN en ELSE mem.ent[f]
    BY <1>1 DEF TypeOK, Meta
  <1>3. ASSUME NEW f \in Coherent(mem'), f # e
        PROVE  f \in Coherent(mem) /\ mem'.ent[f] = mem.ent[f]
    BY <1>1, <1>2, <1>3 DEF Coherent
  <1>4. ASSUME NEW f \in Coherent(mem'), f = e
        PROVE  Extent(mem'.ent[f]) = {}
    BY <1>2, <1>4
  <1> QED  BY <1>3, <1>4, NoNewSectorKeepsApart

\* The table in memory is replaced by an empty one or by the one on the disk.
LEMMA CacheReplacedApart ==
  ASSUME AllApart, mem' \in {EmptyMeta, FormattedMeta, disk}, UNCHANGED <<disk, torn>>
  PROVE  AllApart'
  <1>1. CASE mem' = disk
    BY <1>1 DEF AllApart, Apart, Coherent
  <1>2. CASE mem' # disk
    <2>1. \A e \in Slots : Extent(mem'.ent[e]) = {}
      BY <1>2, NewTablesHaveNoFiles
    <2>2. Apart(mem', mem') /\ Apart(disk, mem')
      BY <2>1, NoFilesApart
    <2> QED  BY <2>2 DEF AllApart, Apart, Coherent
  <1> QED  BY <1>1, <1>2

\* Below the free pointer there is no room for the new file.
LEMMA BelowPointer ==
  ASSUME NEW m \in Meta, NEW next \in Nat, Bounded(m), m.next <= next,
         NEW e \in Coherent(m), NEW l \in Extent(m.ent[e])
  PROVE  l < next
  <1>1. m.ent[e] \in Entry
    BY EntryOf DEF Coherent
  <1>2. m.ent[e].size \in Nat /\ m.ent[e].start \in Nat
    BY <1>1 DEF Extent, Entry
  <1>3. m.ent[e].start + m.ent[e].size <= m.next
    BY <1>2 DEF Bounded
  <1>4. m.next \in Nat
    BY DEF Meta
  <1> QED  BY <1>2, <1>3, <1>4, SizeAssumption DEF Extent

LEMMA LinkKeepsApart ==
  ASSUME TypeOK, Ordering, AllApart, Link
  PROVE  AllApart'
  <1> SUFFICES ASSUME ~torn PROVE Apart(disk, disk) /\ Apart(mem', mem') /\ Apart(disk, mem')
    BY DEF AllApart, Apart, Coherent, Link
  <1> DEFINE s == job.slot
             size == Len(job.content)
             en == [mem.ent[s] EXCEPT !.start = mem.next, !.size = size]
  <1>1. s \in Slots /\ mem.next \in Nat /\ size \in Nat
    BY ContentLength, BoundAssumption DEF TypeOK, Job, Meta
  <1>2. Bounded(disk) /\ Bounded(mem) /\ disk.next <= mem.next
    BY DEF Ordering, Stages, FreePointer, Link
  <1>3. \A m \in {disk, mem} : \A e \in Coherent(m) : \A l \in Extent(m.ent[e]) :
           l < mem.next
    BY <1>1, <1>2, BelowPointer DEF TypeOK, Meta
  <1>4. /\ mem'.mixed = mem.mixed \ {s}
        /\ \A e \in Slots \ {s} : mem'.ent[e] = mem.ent[e]
        /\ mem'.ent[s].start = mem.next /\ mem'.ent[s].size = size
    <2>1. mem.ent[s] \in Entry
      BY <1>1, EntryOf DEF TypeOK
    <2>2. en \in Entry /\ en.start = mem.next /\ en.size = size
      BY <1>1, <2>1, EntryMoved DEF Entry
    <2>3. mem.next + size \in Nat
      BY <1>1
    <2>4. mem' = [mem EXCEPT !.ent[s] = en, !.next = mem.next + size, !.mixed = @ \ {s}]
      BY DEF Link
    <2> HIDE DEF en, size
    <2>5. mem'.ent = [mem.ent EXCEPT ![s] = en] /\ mem'.mixed = mem.mixed \ {s}
      BY <1>1, <2>2, <2>3, <2>4 DEF TypeOK, Meta
    <2> QED  BY <1>1, <2>2, <2>5 DEF TypeOK, Meta
  <1>5. \A l \in Extent(mem'.ent[s]) : l \in Int /\ mem.next <= l
    BY <1>1, <1>4 DEF Extent
  <1>6. ASSUME NEW m \in {disk, mem}, NEW e \in Coherent(m)
        PROVE  Extent(mem'.ent[s]) \cap Extent(m.ent[e]) = {}
    <2> SUFFICES ASSUME NEW l \in Extent(mem'.ent[s]), l \in Extent(m.ent[e])
                 PROVE  FALSE
      OBVIOUS
    <2>1. l < mem.next /\ mem.next <= l /\ l \in Int
      BY <1>3, <1>5, <1>6
    <2> QED  BY <1>1, <2>1
  <1>7. Apart(disk, disk) /\ Apart(mem, mem) /\ Apart(disk, mem)
    BY DEF AllApart
  <1>8. ASSUME NEW e \in Coherent(mem'), e # s
        PROVE  e \in Coherent(mem) /\ mem'.ent[e] = mem.ent[e]
    BY <1>4, <1>8 DEF Coherent
  <1>9. Apart(mem', mem')
    <2> SUFFICES ASSUME NEW e \in Coherent(mem'), NEW f \in Coherent(mem'), e # f
                 PROVE  Extent(mem'.ent[e]) \cap Extent(mem'.ent[f]) = {}
      BY DEF Apart
    <2>1. CASE e = s
      BY <1>6, <1>8, <2>1
    <2>2. CASE f = s
      <3>1. Extent(mem'.ent[s]) \cap Extent(mem.ent[e]) = {}
        BY <1>6, <1>8, <2>2
      <3> QED  BY <1>8, <2>2, <3>1
    <2>3. CASE e # s /\ f # s
      BY <1>7, <1>8, <2>3 DEF Apart
    <2> QED  BY <2>1, <2>2, <2>3
  <1>10. Apart(disk, mem')
    <2> SUFFICES ASSUME NEW e \in Coherent(disk), NEW f \in Coherent(mem'), e # f
                 PROVE  Extent(disk.ent[e]) \cap Extent(mem'.ent[f]) = {}
      BY DEF Apart
    <2>1. CASE f = s
      <3>1. Extent(mem'.ent[s]) \cap Extent(disk.ent[e]) = {}
        BY <1>6
      <3> QED  BY <2>1, <3>1
    <2>2. CASE f # s
      BY <1>7, <1>8, <2>2 DEF Apart
    <2> QED  BY <2>1, <2>2
  <1> QED  BY <1>7, <1>9, <1>10

\* A sector of the table reaches the disk: the sectors of each coherent entry
\* there are now those it has in memory or those it had; a format leaves no file.
LEMMA SentKeepsApart ==
  ASSUME TypeOK, Ordering, SentFields, AllApart, job.pc = "meta",
         disk' = WriteThrough(job.sec), torn' = TornAfter(job.sec), ~torn'
  PROVE  Apart(disk', disk') /\ Apart(mem, mem) /\ Apart(disk', mem)
  <1>1. job.sec \in 0..LastSec
    BY DEF TypeOK, Job
  <1>2. \A e \in Coherent(disk') :
           \/ e \in Coherent(mem) /\ Extent(disk'.ent[e]) = Extent(mem.ent[e])
           \/ e \in Coherent(disk) /\ Extent(disk'.ent[e]) = Extent(disk.ent[e])
    BY <1>1, WriteThroughCoherent DEF Extent
  <1>3. CASE job.op = "format"
    <2>1. job.sec = LastSec
      BY <1>3 DEF TornAfter
    <2>2. disk' = mem /\ mem = FormattedMeta
      BY <1>3, <2>1, LastSectorSent DEF Ordering, Stages
    <2>3. \A e \in Slots : Extent(disk'.ent[e]) = {} /\ Extent(mem.ent[e]) = {}
      BY <2>2, NewTablesHaveNoFiles
    <2> QED  BY <2>3, NoFilesApart
  <1>4. CASE job.op # "format"
    <2>1. Apart(disk, disk) /\ Apart(mem, mem) /\ Apart(disk, mem)
      BY <1>4 DEF AllApart, TornAfter
    <2>2. Apart(mem, disk)
      BY <2>1, ApartIsSymmetric
    <2>3. Apart(disk', disk')
      <3> SUFFICES ASSUME NEW e \in Coherent(disk'), NEW f \in Coherent(disk'), e # f
                   PROVE  Extent(disk'.ent[e]) \cap Extent(disk'.ent[f]) = {}
        BY DEF Apart
      <3>1. CASE e \in Coherent(mem) /\ Extent(disk'.ent[e]) = Extent(mem.ent[e])
        BY <1>2, <2>1, <2>2, <3>1 DEF Apart
      <3>2. CASE e \in Coherent(disk) /\ Extent(disk'.ent[e]) = Extent(disk.ent[e])
        BY <1>2, <2>1, <2>2, <3>2 DEF Apart
      <3> QED  BY <1>2, <3>1, <3>2
    <2>4. Apart(disk', mem)
      BY <1>2, <2>1, <2>2, ZenonT(60) DEF Apart
    <2> QED  BY <2>1, <2>3, <2>4
  <1> QED  BY <1>3, <1>4

LEMMA ApartStep ==
  ASSUME TypeOK, Ordering, SentFields, AllApart, [Next]_vars
  PROVE  AllApart'
  <1>1. ASSUME NEW p \in Paths, Mkdir(p) PROVE AllApart'
    <2> DEFINE en == [EmptyEntry EXCEPT !.path = p, !.size = DirSize, !.used = TRUE]
    <2> PICK e \in Slots : mem' = [mem EXCEPT !.ent[e] = en, !.mixed = @ \ {e}]
      BY <1>1 DEF Mkdir, Lowest, FreeSlots
    <2>1. en \in Entry /\ Extent(en) = {}
      BY TableTypes DEF EmptyEntry, Entry, Extent
    <2> HIDE DEF en
    <2> QED  BY <1>1, <2>1, RenewedKeepsApart DEF Mkdir
  <1>2. ASSUME NEW p \in Paths, NEW c \in Contents, NEW uid \in Uids, WriteAll(p, c, uid)
        PROVE  AllApart'
    <2>1. CASE CreateFile(p, c, uid)
      <3> PICK e \in Slots :
            mem' = [mem EXCEPT !.ent[e] =
                 [@ EXCEPT !.path = p, !.used = TRUE, !.owner = uid % 256,
                           !.others = UnderEtc(p)]]
        BY <2>1, ZenonT(60) DEF CreateFile, Lowest, FreeSlots
      <3> DEFINE en == [mem.ent[e] EXCEPT !.path = p, !.used = TRUE,
                          !.owner = uid % 256, !.others = UnderEtc(p)]
      <3>1. uid % 256 \in 0..255 /\ mem.ent[e] \in Entry
        BY UidsAssumption, ByteRange, EntryOf DEF TypeOK
      <3>2. UnderEtc(p) \in BOOLEAN
        BY Zenon DEF UnderEtc
      <3>3. en \in Entry
        BY <3>1, <3>2, ZenonT(60) DEF Entry
      <3>4. Extent(en) = Extent(mem.ent[e])
        BY <3>1 DEF Entry, Extent
      <3>5. mem' = [mem EXCEPT !.ent[e] = en]
        OBVIOUS
      <3> HIDE DEF en
      <3> QED  BY <1>2, <3>3, <3>4, <3>5, EntryChangeKeepsApart DEF WriteAll
    <2>2. CASE ReplaceFile(p, c)
      BY <1>2, <2>2 DEF WriteAll, ReplaceFile, AllApart, Apart, Coherent
    <2> QED  BY <1>2, <2>1, <2>2 DEF WriteAll
  <1>3. ASSUME NEW p \in Paths, Remove(p) PROVE AllApart'
    <2> PICK e \in Slots : mem' = [mem EXCEPT !.ent[e] = EmptyEntry, !.mixed = @ \ {e}]
      BY <1>3 DEF Remove, Lowest, Holders, Used
    <2>1. EmptyEntry \in Entry /\ Extent(EmptyEntry) = {}
      BY TableTypes DEF EmptyEntry, Extent
    <2> QED  BY <1>3, <2>1, RenewedKeepsApart DEF Remove
  <1>4. ASSUME NEW p \in Paths, NEW others \in ChmodBits, Chmod(p, others)
        PROVE  AllApart'
    <2> PICK e \in Slots : mem' = [mem EXCEPT !.ent[e].others = others]
      BY <1>4 DEF Chmod, Lowest, Holders, Used
    <2> DEFINE en == [mem.ent[e] EXCEPT !.others = others]
    <2>1. mem.ent[e] \in Entry /\ others \in BOOLEAN
      BY EntryOf, UidsAssumption DEF TypeOK
    <2>2. en \in Entry /\ Extent(en) = Extent(mem.ent[e])
      BY <2>1 DEF Entry, Extent
    <2>3. mem' = [mem EXCEPT !.ent[e] = en]
      OBVIOUS
    <2> HIDE DEF en
    <2> QED  BY <1>4, <2>2, <2>3, EntryChangeKeepsApart DEF Chmod
  <1>5. ASSUME NEW p \in Paths, NEW q \in Paths, Rename(p, q) PROVE AllApart'
    <2> PICK e \in Slots : mem' = [mem EXCEPT !.ent[e].path = RenameTarget(p, q)]
      BY <1>5 DEF Rename, Lowest, Holders, Used
    <2> DEFINE en == [mem.ent[e] EXCEPT !.path = RenameTarget(p, q)]
    <2>1. mem.ent[e] \in Entry /\ RenameTarget(p, q) \in Paths
      BY <1>5, EntryOf DEF TypeOK, Rename
    <2>2. en \in Entry /\ Extent(en) = Extent(mem.ent[e])
      BY <2>1 DEF Entry, Extent
    <2>3. mem' = [mem EXCEPT !.ent[e] = en]
      OBVIOUS
    <2> HIDE DEF en
    <2> QED  BY <1>5, <2>2, <2>3, EntryChangeKeepsApart DEF Rename
  <1>6. Format \/ FormatAtBoot \/ Crash \/ MountAtBoot \/ Remount => AllApart'
    BY CacheReplacedApart DEF Format, FormatAtBoot, StartFormat, Crash, MountAtBoot, Remount
  <1>7. DataSector \/ DataFault \/ UNCHANGED vars => AllApart'
    <2>1. UNCHANGED <<disk, mem, torn>> => AllApart'
      BY SMTT(30) DEF AllApart, Apart, Coherent
    <2> QED  BY <2>1 DEF DataSector, DataFault, vars
  <1>8. Link => AllApart'
    BY LinkKeepsApart
  <1>9. MetaSector => AllApart'
    <2> SUFFICES ASSUME MetaSector, ~torn'
                 PROVE  Apart(disk', disk') /\ Apart(mem', mem') /\ Apart(disk', mem')
      BY DEF AllApart, Apart, Coherent
    <2> QED  BY SentKeepsApart DEF MetaSector
  <1>10. MetaFault => AllApart'
    <2> SUFFICES ASSUME MetaFault, ~torn'
                 PROVE  Apart(disk', disk') /\ Apart(mem', mem') /\ Apart(disk', mem')
      BY DEF AllApart, Apart, Coherent
    <2>1. /\ \A e \in Slots : Extent(mem'.ent[e]) = Extent(mem.ent[e])
          /\ mem'.mixed = mem.mixed
      <3>1. CASE mem' = mem
        BY <3>1
      <3>2. CASE mem' = [mem EXCEPT !.ent[job.slot].used = FALSE]
        BY <3>2 DEF TypeOK, Meta, Entry, Job, Extent
      <3> QED  BY <3>1, <3>2 DEF MetaFault
    <2>2. Apart(disk', disk') /\ Apart(mem, mem) /\ Apart(disk', mem)
      <3>1. CASE disk' = WriteThrough(job.sec) /\ torn' = TornAfter(job.sec)
        BY <3>1, SentKeepsApart DEF MetaFault
      <3>2. CASE UNCHANGED <<disk, torn>>
        BY <3>2 DEF AllApart
      <3> QED  BY <3>1, <3>2 DEF MetaFault
    <2> QED  BY <2>1, <2>2 DEF Apart, Coherent
  <1> QED
    BY <1>1, <1>2, <1>3, <1>4, <1>5, <1>6, <1>7, <1>8, <1>9, <1>10 DEF Next

\* No two coherent entries share a data sector, whatever was interrupted: an
\* entry is only ever pointed at sectors past the free pointer.
THEOREM FilesDisjointCorrect == Spec => []FilesDisjoint
  <1>1. Init => AllApart
    <2> SUFFICES ASSUME Init PROVE AllApart
      OBVIOUS
    <2>1. \A e \in Slots : Extent(disk.ent[e]) = {} /\ Extent(mem.ent[e]) = {}
      BY NewTablesHaveNoFiles DEF Init
    <2> QED  BY <2>1, NoFilesApart DEF AllApart
  <1>2. IInv /\ AllApart /\ [Next]_vars => AllApart'
    BY ApartStep DEF IInv, Ordering
  <1>3. AllApart => FilesDisjoint
    BY DisjointIsApart
  <1> QED  BY <1>1, <1>2, <1>3, IInvAlways, PTL DEF Spec

-----------------------------------------------------------------------------
(* Success is durable.                                                     *)

LEMMA SuccessWritesAll ==
  ASSUME TypeOK, TypeOK', SentFields, CallSucceeds
  PROVE  disk' = mem'
  <1>1. job.pc = "meta" /\ job.sec = LastSec
    BY DEF CallSucceeds, MetaSector, TypeOK, Job
  <1>2. disk' = WriteThrough(job.sec) /\ mem' = mem
    BY DEF CallSucceeds, MetaSector
  <1> QED  BY <1>1, <1>2, LastSectorSent

\* When a call that writes the table reports success, the disk holds exactly
\* the table in memory, for every layout of the entries over the sectors.
THEOREM SuccessIsDurableCorrect == Spec => SuccessIsDurable
  <1>1. IInv /\ IInv' => [CallSucceeds => disk' = mem']_vars
    BY SuccessWritesAll DEF IInv
  <1> QED  BY <1>1, IInvAlways, PTL DEF Spec, SuccessIsDurable

-----------------------------------------------------------------------------
(* A good write is stored.                                                 *)

\* The first n sectors of the content lie in the data sectors from lba on.
Stored(lba, n) ==
  \A i \in 1..n : lba + i - 1 < DiskEnd /\ data[lba + i - 1] = job.content[i]

\* While the sectors of a file are written, and no write has failed, those
\* attempted lie where the entry will point; then the entry points at them.
Placed ==
  /\ job.pc = "data" => /\ mem.ent[job.slot].used
                        /\ ~job.bad => Stored(mem.next, job.done)
  /\ job.pc = "meta" /\ job.op = "write" =>
       /\ mem.ent[job.slot].used
       /\ mem.ent[job.slot].size = Len(job.content)
       /\ ~job.bad => Stored(mem.ent[job.slot].start, Len(job.content))

LEMMA DataSectorPlaces ==
  ASSUME TypeOK, Placed, DataSector
  PROVE  Placed'
  <1>1. /\ job.pc = "data" /\ job'.pc = "data" /\ mem' = mem
        /\ job'.slot = job.slot /\ job'.content = job.content /\ job'.bad = job.bad
        /\ job'.done = job.done + 1
    BY DEF DataSector, TypeOK, Job
  <1>2. /\ mem.next \in Nat /\ job.done \in Nat
        /\ data \in [0..(DiskEnd - 1) -> Words \cup {Blank}]
    BY BoundAssumption DEF TypeOK, Meta, Job
  <1>3. ASSUME ~job.bad, NEW i \in 1..(job.done + 1)
        PROVE  mem.next + i - 1 < DiskEnd /\ data'[mem.next + i - 1] = job.content[i]
    <2>1. CASE i = job.done + 1
      <3>1. mem.next + i - 1 = NextLba /\ NextLba \in 0..(DiskEnd - 1) /\ NextLba < DiskEnd
        <4>1. NextLba \in Nat /\ NextLba < DiskEnd
          BY <1>2 DEF NextLba, DataSector
        <4>2. mem.next + i - 1 = NextLba
          BY <1>2, <2>1 DEF NextLba
        <4> QED  BY <4>1, <4>2, BoundAssumption
      <3> QED  BY <1>2, <2>1, <3>1 DEF DataSector
    <2>2. CASE i \in 1..job.done
      <3>1. mem.next + i - 1 < DiskEnd /\ data[mem.next + i - 1] = job.content[i]
        BY <1>1, <1>3, <2>2 DEF Placed, Stored
      <3>2. mem.next + i - 1 \in 0..(DiskEnd - 1) /\ mem.next + i - 1 # NextLba
        BY <1>2, <2>2, <3>1, BoundAssumption, SMTT(30) DEF NextLba
      <3> QED  BY <1>2, <3>1, <3>2 DEF DataSector
    <2> QED  BY <1>2, <2>1, <2>2
  <1> QED  BY <1>1, <1>3 DEF Placed, Stored

LEMMA LinkPlaces ==
  ASSUME TypeOK, Placed, Link
  PROVE  Placed'
  <1>1. job.slot \in Slots /\ mem.next \in Nat /\ mem.ent[job.slot] \in Entry
    BY EntryOf DEF TypeOK, Job, Meta
  <1>2. /\ mem'.ent[job.slot].used = mem.ent[job.slot].used
        /\ mem'.ent[job.slot].size = Len(job.content)
        /\ mem'.ent[job.slot].start = mem.next
    BY <1>1 DEF Link, TypeOK, Meta, Entry
  <1>3. /\ job'.pc = "meta" /\ job'.slot = job.slot /\ job'.content = job.content
        /\ job'.bad = job.bad /\ data' = data
        /\ job.pc = "data" /\ job.done = Len(job.content)
    BY DEF Link, TypeOK, Job
  <1> QED  BY <1>2, <1>3 DEF Placed, Stored

LEMMA PlacedStep ==
  ASSUME TypeOK, Placed, [Next]_vars
  PROVE  Placed'
  <1>1. ASSUME job'.pc \notin {"data", "meta"} PROVE Placed'
    BY <1>1 DEF Placed
  <1>2. ASSUME NEW op, NEW e, op # "write", job' = MetaJob(op, e) PROVE Placed'
    BY <1>2 DEF MetaJob, NoJob, Placed
  <1>3. ASSUME NEW p \in Paths, Mkdir(p) \/ Remove(p) \/ \E others \in ChmodBits : Chmod(p, others)
        PROVE  Placed'
    BY <1>2, <1>3 DEF Mkdir, Remove, Chmod
  <1>4. ASSUME NEW p \in Paths, NEW c \in Contents, NEW uid \in Uids, WriteAll(p, c, uid)
        PROVE  Placed'
    <2>1. PICK e \in Slots : job' = WriteJob(e, c) /\ mem'.ent[e].used
      <3>1. CASE CreateFile(p, c, uid)
        <4>1. PICK e \in Slots :
              /\ mem' = [mem EXCEPT !.ent[e] =
                   [@ EXCEPT !.path = p, !.used = TRUE, !.owner = uid % 256,
                             !.others = UnderEtc(p)]]
              /\ job' = WriteJob(e, c)
          BY <3>1 DEF CreateFile, Lowest, FreeSlots
        <4>2. mem.ent[e] \in Entry
          BY EntryOf DEF TypeOK
        <4>3. mem'.ent[e] = [mem.ent[e] EXCEPT !.path = p, !.used = TRUE,
                               !.owner = uid % 256, !.others = UnderEtc(p)]
          BY <4>1 DEF TypeOK, Meta
        <4>4. mem'.ent[e].used
          BY <4>2, <4>3 DEF Entry
        <4> QED  BY <4>1, <4>4
      <3>2. CASE ReplaceFile(p, c)
        BY <3>2 DEF ReplaceFile, Lowest, Holders, Used
      <3> QED  BY <1>4, <3>1, <3>2 DEF WriteAll
    <2>2. /\ job'.pc = "data" /\ job'.slot = e /\ job'.done = 0
      BY <2>1 DEF WriteJob, NoJob
    <2> QED  BY <2>1, <2>2 DEF Placed, Stored
  <1>5. ASSUME NEW p \in Paths, NEW q \in Paths, Rename(p, q) PROVE Placed'
    BY <1>1, <1>5 DEF Rename, Ready, Idle
  <1>6. Format \/ FormatAtBoot => Placed'
    BY <1>2 DEF Format, FormatAtBoot, StartFormat
  <1>7. DataSector => Placed'
    BY DataSectorPlaces
  <1>8. DataFault => Placed'
    <2> SUFFICES ASSUME DataFault PROVE Placed'
      OBVIOUS
    <2>1. /\ job.pc = "data" /\ job'.pc = "data" /\ job'.bad /\ job'.slot = job.slot
          /\ mem' = mem
      BY DEF DataFault, TypeOK, Job
    <2> QED  BY <2>1 DEF Placed
  <1>9. Link => Placed'
    BY LinkPlaces
  <1>10. MetaSector => Placed'
    <2> SUFFICES ASSUME MetaSector PROVE Placed'
      OBVIOUS
    <2>1. CASE job.sec = LastSec
      BY <1>1, <2>1 DEF MetaSector, NoJob
    <2>2. CASE job.sec # LastSec
      <3>1. /\ job.pc = "meta" /\ job'.pc = "meta" /\ job'.op = job.op
            /\ job'.slot = job.slot /\ job'.content = job.content /\ job'.bad = job.bad
            /\ mem' = mem /\ data' = data
        BY <2>2 DEF MetaSector, TypeOK, Job
      <3> QED  BY <3>1 DEF Placed, Stored
    <2> QED  BY <2>1, <2>2
  <1>11. MetaFault \/ Crash \/ MountAtBoot => Placed'
    BY <1>1 DEF MetaFault, Crash, MountAtBoot, NoJob, Boot
  <1>12. Remount => Placed'
    BY <1>1 DEF Remount, Idle
  <1>13. UNCHANGED vars => Placed'
    BY DEF vars, Placed, Stored
  <1> QED
    BY <1>3, <1>4, <1>5, <1>6, <1>7, <1>8, <1>9, <1>10, <1>11, <1>12, <1>13 DEF Next

LEMMA PlacedAlways == Spec => []Placed
  <1>1. Init => Placed
    BY DEF Init, Placed, Boot, NoJob
  <1>2. IInv /\ Placed /\ [Next]_vars => Placed'
    BY PlacedStep DEF IInv
  <1> QED  BY <1>1, <1>2, IInvAlways, PTL DEF Spec

\* An entry that points at a stored content shows it.
LEMMA StoredIsShown ==
  ASSUME TypeOK, NEW en \in Entry, en.used, en.size = Len(job.content),
         Stored(en.start, Len(job.content))
  PROVE  View(en) = <<"file", en.path, job.content>>
  <1>1. job.content \in Contents
    BY DEF TypeOK, Job
  <1>2. /\ Len(job.content) \in Nat
        /\ job.content = [i \in 1..Len(job.content) |-> job.content[i]]
    BY <1>1, BoundAssumption DEF Contents
  <1>3. en.size # DirSize
    BY <1>2, SizeAssumption
  <1>4. [i \in 1..en.size |-> SectorAt(en.start + i - 1)]
          = [i \in 1..Len(job.content) |-> job.content[i]]
    BY DEF Stored, SectorAt
  <1> QED  BY <1>2, <1>3, <1>4 DEF View

\* A write that reported success, none of its data sectors having failed, left
\* on the disk the file it was given under the path it was given.
THEOREM GoodWriteCorrect == Spec => GoodWriteIsStored
  <1> DEFINE Good == WriteSucceeds /\ ~job.bad
                     => \A e \in Slots : e = job.slot => StoredAsGiven(e)
  <1>1. ASSUME IInv, Placed, TypeOK', WriteSucceeds, ~job.bad,
               NEW e \in Slots, e = job.slot
        PROVE  StoredAsGiven(e)
    <2>1. job.pc = "meta" /\ job.op = "write" /\ data' = data /\ mem' = mem
      BY <1>1 DEF WriteSucceeds, CallSucceeds, MetaSector
    <2>2. disk' = mem
      BY <1>1, <2>1, SuccessWritesAll DEF WriteSucceeds, IInv
    <2>3. mem.ent[e] \in Entry
      BY <1>1, EntryOf DEF IInv, TypeOK
    <2>4. View(mem.ent[e]) = <<"file", mem.ent[e].path, job.content>>
      BY <1>1, <2>1, <2>3, StoredIsShown DEF IInv, Placed
    <2>5. View(disk.ent[e])' = View(mem.ent[e])
      BY <2>1, <2>2 DEF View, SectorAt
    <2> QED  BY <2>4, <2>5 DEF StoredAsGiven
  <1>2. IInv /\ IInv' /\ Placed => [Good]_vars
    BY <1>1 DEF IInv
  <1> QED  BY <1>2, IInvAlways, PlacedAlways, PTL DEF Spec, GoodWriteIsStored

-----------------------------------------------------------------------------
(* The table implements the abstract store.                                *)

\* What slot e of the store holds.
Shown(meta, e) == IF e \in meta.mixed /\ meta.ent[e].used THEN <<"mixed">>
                  ELSE View(meta.ent[e])

\* A change to one slot of the cache, while some slots reach the disk as the
\* cache had them and some cut ones in part, is a step of the store's working.
LEMMA OneEntryWorks ==
  ASSUME ~torn, torn' = torn,
         NEW e \in Slots, \A f \in Slots \ {e} : Shown(mem, f)' = Shown(mem, f),
         NEW S \in SUBSET Slots, NEW T \in SUBSET (Slots \ Whole),
         \A f \in Slots : Shown(disk, f)' = IF f \in S THEN Shown(mem, f)
                            ELSE IF f \in T THEN <<"mixed">> ELSE Shown(disk, f)
  PROVE  [Store!Next]_(Store!vars)
  <1>1. ViewOf(disk)' = Store!Flushed(S, T)
    BY DEF ViewOf, Shown, Store!Flushed
  <1>2. \A f \in Slots \ {e} : ViewOf(mem)'[f] = ViewOf(mem)[f]
    BY DEF ViewOf, Shown
  <1>3. Store!Work
    BY <1>1, <1>2 DEF Store!Work
  <1> QED  BY <1>3 DEF Store!Next

\* The same, when nothing reaches the disk.
LEMMA CacheWorks ==
  ASSUME ~torn, UNCHANGED <<disk, data, torn>>, NEW e \in Slots,
         \A f \in Slots \ {e} : /\ mem'.ent[f] = mem.ent[f]
                                /\ f \in mem'.mixed <=> f \in mem.mixed
  PROVE  [Store!Next]_(Store!vars)
  <1>1. \A f \in Slots \ {e} : Shown(mem, f)' = Shown(mem, f)
    BY DEF Shown, View, SectorAt
  <1> DEFINE S == {}
             T == {}
  <1>2. \A f \in Slots : Shown(disk, f)' = IF f \in S THEN Shown(mem, f)
                            ELSE IF f \in T THEN <<"mixed">> ELSE Shown(disk, f)
    BY DEF Shown, View, SectorAt
  <1>3. S \in SUBSET Slots /\ T \in SUBSET (Slots \ Whole) /\ torn' = torn
    OBVIOUS
  <1> HIDE DEF S, T
  <1> QED  BY <1>1, <1>2, <1>3, OneEntryWorks

LEMMA TablesWithoutFiles ==
  /\ ViewOf(EmptyMeta) = Store!AllAbsent
  /\ ViewOf(FormattedMeta) = Store!AllAbsent
  BY DEF ViewOf, View, EmptyMeta, FormattedMeta, EmptyEntry, Store!AllAbsent

\* Power loss, and the start of a format.
LEMMA CacheDropped ==
  ASSUME mem' \in {EmptyMeta, FormattedMeta}, UNCHANGED <<disk, data, torn>>
  PROVE  Store!Drop
  <1>1. ViewOf(mem)' = Store!AllAbsent
    BY DEF ViewOf, View, EmptyMeta, FormattedMeta, EmptyEntry, Store!AllAbsent
  <1>2. ViewOf(disk)' = ViewOf(disk)
    BY DEF ViewOf, View, SectorAt
  <1> QED  BY <1>1, <1>2 DEF Store!Drop

LEMMA CacheMounted ==
  ASSUME mem' = disk, UNCHANGED <<disk, data, torn>>
  PROVE  Store!Mount
  <1>1. ViewOf(mem)' = ViewOf(disk) /\ ViewOf(disk)' = ViewOf(disk)
    BY DEF ViewOf, View, SectorAt
  <1> QED  BY <1>1 DEF Store!Mount

\* A data sector is written where no coherent entry of either table points.
LEMMA DataSectorUnseen ==
  ASSUME TypeOK, Ordering, ~torn, DataSector
  PROVE  [Store!Next]_(Store!vars)
  <1>1. Bounded(disk) /\ Bounded(mem) /\ disk.next <= mem.next
    BY DEF Ordering, Stages, FreePointer, DataSector
  <1>2. disk \in Meta /\ mem \in Meta /\ mem.next \in Nat /\ job.done \in Nat
    BY DEF TypeOK, Meta, Job
  <1>3. ASSUME NEW l \in Nat, l < mem.next PROVE SectorAt(l)' = SectorAt(l)
    <2>1. l # NextLba
      BY <1>2, <1>3 DEF NextLba
    <2> QED  BY <2>1, BoundAssumption DEF SectorAt, DataSector, TypeOK
  <1>4. ASSUME NEW m \in {disk, mem}, NEW e \in Coherent(m), m.ent[e].size \in Nat,
               NEW i \in 1..m.ent[e].size
        PROVE  m.ent[e].start + i - 1 \in Nat /\ m.ent[e].start + i - 1 < mem.next
    <2> DEFINE en == m.ent[e]
               l == en.start + i - 1
    <2>1. en \in Entry
      BY <1>2, EntryOf DEF Coherent
    <2>2. l \in Nat /\ l \in Extent(en)
      BY <2>1, <1>4, SizeAssumption DEF Extent, Entry
    <2>3. l < mem.next
      BY <1>1, <1>2, <2>2, BelowPointer
    <2> QED  BY <2>2, <2>3
  <1>5. ASSUME NEW e \in Slots PROVE Shown(mem, e)' = Shown(mem, e)
    <2>1. mem.ent[e].size \in Nat \cup {DirSize} /\ mem' = mem
      BY <1>2, <1>5, EntryOf DEF Entry, DataSector
    <2>2. CASE e \in mem.mixed
      BY <2>1, <2>2 DEF Shown, View
    <2>3. CASE e \notin mem.mixed
      <3>1. e \in Coherent(mem)
        BY <2>3 DEF Coherent
      <3>2. View(mem.ent[e])' = View(mem.ent[e])
        BY <1>3, <1>4, <2>1, <3>1 DEF View
      <3> QED  BY <2>1, <2>3, <3>2 DEF Shown
    <2> QED  BY <2>2, <2>3
  <1>6. ASSUME NEW e \in Slots PROVE Shown(disk, e)' = Shown(disk, e)
    <2>1. disk.ent[e].size \in Nat \cup {DirSize} /\ disk' = disk
      BY <1>2, <1>6, EntryOf DEF Entry, DataSector
    <2>2. CASE e \in disk.mixed
      BY <2>1, <2>2 DEF Shown, View
    <2>3. CASE e \notin disk.mixed
      <3>1. e \in Coherent(disk)
        BY <2>3 DEF Coherent
      <3>2. View(disk.ent[e])' = View(disk.ent[e])
        BY <1>3, <1>4, <2>1, <3>1 DEF View
      <3> QED  BY <2>1, <2>3, <3>2 DEF Shown
    <2> QED  BY <2>2, <2>3
  <1> DEFINE S == {}
             T == {}
  <1>7. /\ \A f \in Slots \ {0} : Shown(mem, f)' = Shown(mem, f)
        /\ \A f \in Slots : Shown(disk, f)' = IF f \in S THEN Shown(mem, f)
                            ELSE IF f \in T THEN <<"mixed">> ELSE Shown(disk, f)
    BY <1>5, <1>6
  <1>8. /\ 0 \in Slots /\ torn' = torn
        /\ S \in SUBSET Slots /\ T \in SUBSET (Slots \ Whole)
    BY SlotsAssumption DEF DataSector
  <1> HIDE DEF S, T
  <1> QED  BY <1>7, <1>8, OneEntryWorks

\* A whole entry is sent in one piece.
LEMMA WholeInOnePiece ==
  ASSUME TypeOK, NEW s \in 0..LastSec, NEW e \in Whole
  PROVE  EntryThrough(s, e) \in {mem.ent[e], disk.ent[e]}
  <1>1. e \in Slots /\ mem.ent[e] \in Entry /\ disk.ent[e] \in Entry
    BY EntryOf DEF Whole, TypeOK
  <1>2. StartSec[e] = PathSec[e] /\ SizeSec[e] = PathSec[e] /\ FlagSec[e] = PathSec[e]
    BY DEF Whole
  <1>3. CASE PathSec[e] = s
    BY <1>1, <1>2, <1>3 DEF EntryThrough, Entry
  <1>4. CASE PathSec[e] # s
    BY <1>1, <1>2, <1>4 DEF EntryThrough, Entry
  <1> QED  BY <1>3, <1>4

\* A sector of the table reaches the disk, while the entry of the call may
\* lose its mark of use.
LEMMA SectorReachesStore ==
  ASSUME TypeOK, Ordering, SentFields, job.pc = "meta", data' = data,
         disk' = WriteThrough(job.sec), torn' = TornAfter(job.sec),
         \A f \in Slots \ {job.slot} : mem'.ent[f] = mem.ent[f],
         mem'.mixed = mem.mixed,
         job.op = "format" => mem' = mem
  PROVE  [Store!Next]_(Store!vars)
  <1>1. job.sec \in 0..LastSec /\ job.slot \in Slots
    BY DEF TypeOK, Job
  <1> DEFINE Now(e) == EntryThrough(job.sec, e)
             S == {e \in Slots : Now(e) = mem.ent[e] \/ (FlagSec[e] = job.sec /\ ~Now(e).used)}
             T == {e \in Slots \ S : Now(e) # disk.ent[e] /\ Now(e).used}
  <1>2. \A e \in Slots : disk'.ent[e] = Now(e) /\ (e \in disk'.mixed <=> e \in MixedThrough(job.sec))
    BY WriteThroughParts
  <1>3. CASE ~torn /\ ~torn'
    <2>1. \A f \in Slots \ {job.slot} : Shown(mem, f)' = Shown(mem, f)
      BY DEF Shown, View, SectorAt
    <2>2. ASSUME NEW f \in Slots
          PROVE  Shown(disk, f)' = IF f \in S THEN Shown(mem, f)
                            ELSE IF f \in T THEN <<"mixed">> ELSE Shown(disk, f)
      <3>1. /\ Now(f).used = IF FlagSec[f] = job.sec THEN mem.ent[f].used ELSE disk.ent[f].used
            /\ \A en : View(en)' = View(en)
        BY DEF EntryThrough, View, SectorAt
      <3>2. Shown(disk, f)' = IF f \in MixedThrough(job.sec) /\ Now(f).used
                              THEN <<"mixed">> ELSE View(Now(f))
        BY <1>2, <3>1 DEF Shown
      <3>3. ASSUME NEW m, m.ent[f].used = Now(f).used, ~Now(f).used
            PROVE  Shown(m, f) = View(Now(f))
        BY <3>3 DEF Shown, View
      <3>4. CASE Now(f) = mem.ent[f]
        BY <3>2, <3>4 DEF MixedThrough, Shown
      <3>5. CASE Now(f) # mem.ent[f] /\ Now(f) = disk.ent[f]
        <4>1. f \in MixedThrough(job.sec) <=> f \in disk.mixed
          BY <3>5 DEF MixedThrough
        <4>2. Shown(disk, f)' = Shown(disk, f) /\ f \notin T
          BY <3>2, <3>5, <4>1 DEF Shown
        <4>3. f \in S => Shown(mem, f) = Shown(disk, f)
          BY <3>1, <3>3, <3>5, <4>2, <3>2
        <4> QED  BY <4>2, <4>3
      <3>6. CASE Now(f) # mem.ent[f] /\ Now(f) # disk.ent[f]
        <4>1. f \in MixedThrough(job.sec)
          BY <3>6 DEF MixedThrough
        <4>2. CASE Now(f).used
          BY <3>2, <3>6, <4>1, <4>2
        <4>3. CASE ~Now(f).used
          <5>1. Shown(disk, f)' = View(Now(f)) /\ f \notin T
            BY <3>2, <4>3
          <5>2. CASE FlagSec[f] = job.sec
            BY <3>1, <3>3, <4>3, <5>1, <5>2
          <5>3. CASE FlagSec[f] # job.sec
            BY <3>1, <3>3, <3>6, <4>3, <5>1, <5>3
          <5> QED  BY <5>2, <5>3
        <4> QED  BY <4>2, <4>3
      <3> QED  BY <3>4, <3>5, <3>6
    <2>3. torn' = torn
      BY <1>3 DEF TypeOK, TornAfter
    <2>4. S \in SUBSET Slots /\ T \in SUBSET (Slots \ Whole)
      <3>1. \A e \in Whole : e \in Slots /\ Now(e) \in {mem.ent[e], disk.ent[e]}
        BY <1>1, WholeInOnePiece DEF Whole
      <3> QED  BY <3>1
    <2> HIDE DEF S, T
    <2> QED  BY <1>1, <1>3, <2>1, <2>2, <2>3, <2>4, OneEntryWorks
  <1>4. CASE ~torn /\ torn'
    <2>1. job.op = "format"
      BY <1>4 DEF TornAfter
    <2>2. ViewOf(mem) = Store!AllAbsent
      BY <2>1, TablesWithoutFiles DEF Ordering, Stages
    <2> QED  BY <1>4, <2>2 DEF Store!FormatCutShort, Store!Next
  <1>5. CASE torn /\ torn'
    BY <1>5 DEF Store!Unreliable, Store!Next
  <1>6. CASE torn /\ ~torn'
    <2>1. job.op = "format" /\ job.sec = LastSec
      BY <1>6 DEF TornAfter
    <2>2. mem = FormattedMeta /\ mem' = FormattedMeta /\ disk' = mem
      BY <2>1, LastSectorSent DEF Ordering, Stages
    <2>5. ViewOf(disk)' = Store!AllAbsent /\ ViewOf(mem)' = Store!AllAbsent
      BY <2>2 DEF ViewOf, View, FormattedMeta, EmptyMeta, EmptyEntry, Store!AllAbsent
    <2> QED  BY <1>6, <2>5 DEF Store!FormatDone, Store!Next
  <1> QED  BY <1>3, <1>4, <1>5, <1>6

LEMMA StoreStep ==
  ASSUME TypeOK, Ordering, SentFields, [Next]_vars
  PROVE  [Store!Next]_(Store!vars)
  <1>1. ASSUME torn, torn' PROVE [Store!Next]_(Store!vars)
    BY <1>1 DEF Store!Unreliable, Store!Next
  <1>2. ASSUME NEW e \in Slots, NEW en, mem' = [mem EXCEPT !.ent[e] = en],
               UNCHANGED <<disk, data, torn>>
        PROVE  [Store!Next]_(Store!vars)
    <2>1. \A f \in Slots \ {e} : /\ mem'.ent[f] = mem.ent[f]
                                  /\ f \in mem'.mixed <=> f \in mem.mixed
      BY <1>2 DEF TypeOK, Meta
    <2> QED  BY <1>1, <1>2, <2>1, CacheWorks
  <1>12. ASSUME NEW e \in Slots, NEW en,
                mem' = [mem EXCEPT !.ent[e] = en, !.mixed = @ \ {e}],
                UNCHANGED <<disk, data, torn>>
        PROVE  [Store!Next]_(Store!vars)
    <2>1. \A f \in Slots \ {e} : /\ mem'.ent[f] = mem.ent[f]
                                  /\ f \in mem'.mixed <=> f \in mem.mixed
      BY <1>12 DEF TypeOK, Meta
    <2> QED  BY <1>1, <1>12, <2>1, CacheWorks
  <1>3. ASSUME NEW p \in Paths, NEW c \in Contents, NEW uid \in Uids, WriteAll(p, c, uid)
        PROVE  [Store!Next]_(Store!vars)
    <2>1. CASE CreateFile(p, c, uid)
      BY <1>2, <1>3, <2>1, ZenonT(60) DEF WriteAll, CreateFile, Lowest, FreeSlots
    <2>2. CASE ReplaceFile(p, c)
      <3>1. 0 \in Slots /\ mem' = mem
        BY <2>2, SlotsAssumption DEF ReplaceFile
      <3> QED  BY <1>1, <1>3, <3>1, CacheWorks DEF WriteAll
    <2> QED  BY <1>3, <2>1, <2>2 DEF WriteAll
  <1>4. ASSUME NEW p \in Paths,
               \/ Mkdir(p)
               \/ Remove(p)
               \/ \E others \in ChmodBits : Chmod(p, others)
               \/ \E q \in Paths : Rename(p, q)
        PROVE  [Store!Next]_(Store!vars)
    BY <1>2, <1>12, <1>4 DEF Mkdir, Remove, Chmod, Rename, Lowest, FreeSlots, Holders, Used
  <1>5. Format \/ FormatAtBoot \/ Crash => [Store!Next]_(Store!vars)
    <2> SUFFICES ASSUME Format \/ FormatAtBoot \/ Crash PROVE [Store!Next]_(Store!vars)
      OBVIOUS
    <2>1. Store!Drop /\ torn' = torn
      BY CacheDropped DEF Format, FormatAtBoot, StartFormat, Crash
    <2> QED  BY <1>1, <2>1 DEF Store!Next
  <1>6. MountAtBoot \/ Remount => [Store!Next]_(Store!vars)
    <2> SUFFICES ASSUME MountAtBoot \/ Remount PROVE [Store!Next]_(Store!vars)
      OBVIOUS
    <2>1. Store!Mount /\ torn' = torn
      BY CacheMounted DEF MountAtBoot, Remount
    <2> QED  BY <1>1, <2>1 DEF Store!Next
  <1>7. DataSector => [Store!Next]_(Store!vars)
    BY <1>1, DataSectorUnseen DEF DataSector
  <1>8. ASSUME UNCHANGED <<disk, data, mem, torn>> PROVE [Store!Next]_(Store!vars)
    BY <1>8 DEF Store!vars, ViewOf, View, SectorAt
  <1>9. Link => [Store!Next]_(Store!vars)
    <2> SUFFICES ASSUME Link PROVE [Store!Next]_(Store!vars)
      OBVIOUS
    <2>1. /\ job.slot \in Slots
          /\ \A f \in Slots \ {job.slot} : /\ mem'.ent[f] = mem.ent[f]
                                         /\ f \in mem'.mixed <=> f \in mem.mixed
      BY DEF Link, TypeOK, Meta, Job
    <2> QED  BY <1>1, <2>1, CacheWorks DEF Link
  <1>10. MetaSector => [Store!Next]_(Store!vars)
    BY SectorReachesStore DEF MetaSector
  <1>11. MetaFault => [Store!Next]_(Store!vars)
    <2> SUFFICES ASSUME MetaFault PROVE [Store!Next]_(Store!vars)
      OBVIOUS
    <2>1. /\ job.slot \in Slots
          /\ \A f \in Slots \ {job.slot} : /\ mem'.ent[f] = mem.ent[f]
                                         /\ f \in mem'.mixed <=> f \in mem.mixed
      BY DEF MetaFault, TypeOK, Meta, Job
    <2>2. (job.op = "format" => mem' = mem) /\ mem'.mixed = mem.mixed
      BY DEF MetaFault, TypeOK, Meta
    <2>3. CASE disk' = WriteThrough(job.sec) /\ torn' = TornAfter(job.sec)
      BY <2>1, <2>2, <2>3, SectorReachesStore DEF MetaFault
    <2>4. CASE UNCHANGED <<disk, torn>>
      BY <1>1, <2>1, <2>4, CacheWorks DEF MetaFault
    <2> QED  BY <2>3, <2>4 DEF MetaFault
  <1> QED
    BY <1>3, <1>4, <1>5, <1>6, <1>7, <1>8, <1>9, <1>10, <1>11 DEF Next, vars, DataFault

\* KVXFS implements the abstract store: whatever fails, an entry on the disk
\* shows its old object or its new one, or, when a sector boundary cuts it, may
\* be left a mixture of the two, until a format is cut short.
THEOREM StoreImplemented == Spec => ImplementsStore
  <1>1. Init => Store!Init
    <2> SUFFICES ASSUME Init PROVE Store!Init
      OBVIOUS
    <2>1. disk = EmptyMeta /\ mem = EmptyMeta /\ torn = FALSE
      BY DEF Init
    <2> QED  BY <2>1, TablesWithoutFiles DEF Store!Init
  <1>2. IInv /\ [Next]_vars => [Store!Next]_(Store!vars)
    BY StoreStep DEF IInv, Ordering
  <1> QED  BY <1>1, <1>2, IInvAlways, PTL DEF Spec, ImplementsStore, Store!Spec

=============================================================================
