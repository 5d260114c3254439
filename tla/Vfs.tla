-------------------------------- MODULE Vfs --------------------------------
(***************************************************************************)
(* The overlay of src/kernel/fs/vfs.c, as the shell's file commands use    *)
(* it: every path may have an object in the memory file system, in KVXFS   *)
(* and in the read-only ToyFS, and each operation has its own rule for     *)
(* which of them it looks at.                                              *)
(*                                                                         *)
(* The machine may be started with or without its disks: the start-up      *)
(* looks for drives (ata_pio.c) and the file systems live with what it     *)
(* finds.  ToyFS has the files of the image that toyfs_mount read; nothing *)
(* in src/ calls it, so both an image mounted and none are considered.     *)
(*                                                                         *)
(* The back ends are the tables Ramfs and Kvxfs are checked to implement:  *)
(* whole objects, changed in one step, and a disk that takes the whole     *)
(* KVXFS table whenever a call saves it.  Commands run one at a time, in   *)
(* the main loop, so a command is one step.  A path is the sequence of its *)
(* components; a component is one of the names the code compares against   *)
(* or none of them, not an extension of one, and does not begin with a dot.*)
(***************************************************************************)
EXTENDS Integers, Sequences, SequencesExt

CONSTANTS
  Paths,     \* the absolute paths of files and directories
  Images,    \* the ToyFS images toyfs_mount may have read: sequences of files
  Machines,  \* what may be attached to the ports when the machine starts
  RamSlots,  \* the nodes of the memory file system
  KvxSlots,  \* the entries of the KVXFS table
  Layout,    \* the directories fs_prepare_user_layout makes, in order
  Uids,      \* the users, 0 among them
  Pieces,    \* what commands write
  ToyText, PasswdText, \* what ToyFS files and a new /etc/passwd hold
  MaxText     \* APPEND_FINAL_CAP: what append keeps of a longer text

\* The order in which ata_pio_scan_all asks: master and slave of both channels.
Ports == <<"1F0 A0", "1F0 B0", "170 A0", "170 B0">>

ASSUME VfsAssumption ==
  /\ Paths \subseteq Seq(STRING)
  /\ Images \subseteq Seq(Paths) /\ <<>> \in Images
  /\ Machines \subseteq [ToSet(Ports) -> {"ata", "atapi", "none"}]
  /\ RamSlots \subseteq Nat /\ IsFiniteSet(RamSlots)
  /\ KvxSlots \subseteq Nat /\ IsFiniteSet(KvxSlots)
  /\ Layout \in Seq(Paths) /\ Len(Layout) <= Cardinality(RamSlots)
  /\ 0 \in Uids /\ Uids \subseteq Nat
  /\ Pieces \subseteq STRING /\ {ToyText, PasswdText} \subseteq Seq(STRING)
  /\ MaxText \in Nat \ {0}

VARIABLES
  ram,    \* g_nodes
  kvx,    \* g_meta.ent
  saved,  \* the KVXFS table on each disk
  root,   \* g_root_disk
  toy,    \* g_files of toyfs.c
  uid,    \* the user of the session
  said    \* history: the text a write of the path was reported to store

vfsVars == <<ram, kvx, saved, root, toy, uid, said>>

Root   == <<>>
PasswdFile == <<"etc", "passwd">>
None   == "none"

Top(p) == IF p = Root THEN "/" ELSE p[1]
Persist(p)   == Top(p) = "persist"
Removable(p) == Top(p) = "removable"

FreeNode == [used |-> FALSE, path |-> Root, dir |-> FALSE, text |-> <<>>]
FreeEnt  == [used |-> FALSE, path |-> Root, dir |-> FALSE, text |-> <<>>,
             owner |-> 0, others |-> FALSE]

Lowest(S) == {x \in S : \A y \in S : x <= y}
Find(table, p) == Lowest({i \in DOMAIN table : table[i].used /\ table[i].path = p})
FreeIn(table)  == Lowest({i \in DOMAIN table : ~table[i].used})
In(table, p)   == \E i \in DOMAIN table : table[i].used /\ table[i].path = p

-----------------------------------------------------------------------------
(* The disks.                                                              *)

\* A drive answers IDENTIFY, and with the signature of a hard disk.
Disks(m) == SelectSeq(Ports, LAMBDA p : m[p] = "ata")

\* The primary master, which is asked first, or else the first disk found.
NoDisk == "no disk"
RootDisk(m) == IF Disks(m) = <<>> THEN NoDisk ELSE Head(Disks(m))
Roots == {RootDisk(m) : m \in Machines} \ {NoDisk}

\* Without a disk kvxfs_init fails and nothing can be found or made: a table of
\* no entries.  A disk without KVXFS is formatted at once and counts as empty.
EmptyKvx == [i \in KvxSlots |-> FreeEnt]
Mounted(disks, d) == IF d = NoDisk THEN <<>> ELSE disks[d]

-----------------------------------------------------------------------------
(* Looking a path up.                                                      *)

\* ToyFS is seen at its own paths and again under /removable.
ToyPath(p) == IF Removable(p) THEN Tail(p) ELSE p
InToy(p)   == ToyPath(p) \in ToSet(toy)

\* vfs_stat: which back end answers for the path.  toyfs_iter without a
\* callback is never true, so a directory under /removable has no status.
Backend(p) ==
  CASE Removable(p) -> IF InToy(p) THEN "toy" ELSE None
    [] ~Removable(p) /\ In(ram, p) -> "ram"
    [] ~Removable(p) /\ ~In(ram, p) /\ In(kvx, p) -> "kvx"
    [] OTHER -> IF InToy(p) THEN "toy" ELSE None

Exists(p) == Backend(p) # None

\* kvxfs_stat tells of the entry that holds the path.
KvxStat(p) == kvx[CHOOSE i \in Find(kvx, p) : TRUE]

\* Only KVXFS knows owners: everything else is the superuser's.
Owner(p) == IF Backend(p) = "kvx" THEN KvxStat(p).owner ELSE 0

\* is_persist_path: KVXFS has directories, and takes new objects, anywhere but
\* there.
KvxTakes(p) == Top(p) \notin {"dev", "tmp"}
KvxIsDir(p) == p = Root \/ (KvxTakes(p) /\ \E i \in Find(kvx, p) : kvx[i].dir)

\* The byte of the owner is compared with the whole number of the reader.
KvxReads(p, u) ==
  \E i \in Find(kvx, p) :
    /\ ~kvx[i].dir
    /\ u = 0 \/ Top(p) = "etc" \/ kvx[i].owner = u \/ kvx[i].others

RamText(p) == ram[CHOOSE i \in Find(ram, p) : TRUE].text

\* Mutant: files of /persist are looked for in memory first.
ReadsKvxFirstNotPersist(p) == Top(p) \in {"home", "sys", "etc", "bin"}

\* vfs_read_all asks KVXFS first for these paths, and never for the others.
ReadsKvxFirst(p) == Top(p) \in {"persist", "home", "sys", "etc", "bin"}

\* What vfs_open finds for reading: /removable is ToyFS only, elsewhere memory
\* comes before ToyFS.
OpenedFrom(p) ==
  IF ~Removable(p) /\ In(ram, p) THEN "ram" ELSE IF InToy(p) THEN "toy" ELSE None

\* What user u gets from vfs_read_all; it has no text when it fails.
NoText == <<"no text">>
ReadAll(p, u) ==
  CASE Exists(p) /\ Owner(p) = 0 /\ p = PasswdFile /\ u # 0 -> NoText
    [] ReadsKvxFirst(p) /\ KvxReads(p, u) -> KvxStat(p).text
    [] OTHER -> CASE OpenedFrom(p) = "ram" -> RamText(p)
                  [] OpenedFrom(p) = "toy" -> ToyText
                  [] OTHER -> NoText

\* What ls shows.  ramfs_list goes on while its callback returns something, and
\* ls_cb never does: the first node below the directory, or the directory itself,
\* ends the list.
ListedRam(dir) ==
  {ram[i].path : i \in Lowest({j \in DOMAIN ram : ram[j].used /\ IsPrefix(dir, ram[j].path)})}

\* toyfs_iter hands out every file below; vfs_toyfs_iter_cb ends it at the
\* directory itself and at a file that memory has, too.
ToyBelow(dir)  == SelectSeq(toy, LAMBDA t : IsPrefix(dir, t))
Hides(dir, t)  == t = dir \/ In(ram, t)
ListedToy(dir) ==
  LET below == ToyBelow(dir)
  IN  {below[i] : i \in {j \in DOMAIN below : \A k \in 1..j : ~Hides(dir, below[k])}}

\* The path "/" counts as a child of itself, but the directory itself is passed over.
DirectChild(dir, p) ==
  IsPrefix(dir, p) /\ (Len(p) = Len(dir) + 1 \/ (dir = Root /\ p = Root))
Children(dir) ==
  {i \in DOMAIN kvx : kvx[i].used /\ kvx[i].path # dir /\ DirectChild(dir, kvx[i].path)}

\* kvxfs_list_callback ignores what the callback returns.
ListedKvx(dir) == {kvx[i].path : i \in Children(dir)}

\* What the loader gives to programs: the number of files of a directory on the
\* disk, and the name of the one that has so many before it.
FileCount(dir) == Cardinality(Children(dir))
FileNameAt(dir, index) ==
  {Last(kvx[i].path) :
     i \in {j \in Children(dir) : Cardinality({k \in Children(dir) : k < j}) = index}}

\* The mount view shows the paths of the image behind its own name.
ListedRemovable(dir) == {<<"removable">> \o t : t \in ToSet(ToyBelow(ToyPath(dir)))}

Listing(dir) ==
  IF Removable(dir) THEN ListedRemovable(dir)
  ELSE ListedRam(dir) \cup ListedToy(dir) \cup ListedKvx(dir)

\* The directory itself is passed over.
Ls(dir) == Listing(dir) \ {dir}

-----------------------------------------------------------------------------
(* Changing the tables.  The operators take a table and return it changed. *)

RamWrite(nodes, p, t) ==
  {[nodes EXCEPT ![i].text = t] : i \in Find(nodes, p)} \cup
  {[nodes EXCEPT ![i] = [FreeNode EXCEPT !.used = TRUE, !.path = p, !.text = t]] :
     i \in IF In(nodes, p) THEN {} ELSE FreeIn(nodes)}

RamMkdir(nodes, p) ==
  {[nodes EXCEPT ![i] = [FreeNode EXCEPT !.used = TRUE, !.path = p, !.dir = TRUE]] :
     i \in IF In(nodes, p) THEN {} ELSE FreeIn(nodes)}

\* owner_uid has one byte: user 1000 leaves 232 there, and user 256 the superuser's 0.
OwnerByte(u) == u % 256

KvxWrite(ents, p, t, u) ==
  {[ents EXCEPT ![i].text = t, ![i].dir = FALSE] :
     i \in IF KvxTakes(p) THEN Find(ents, p) ELSE {}} \cup
  {[ents EXCEPT ![i] = [FreeEnt EXCEPT !.used = TRUE, !.path = p, !.text = t,
                                       !.owner = OwnerByte(u), !.others = Top(p) = "etc"]] :
     i \in IF KvxTakes(p) /\ ~In(ents, p) THEN FreeIn(ents) ELSE {}}

KvxMkdir(ents, p) ==
  {[ents EXCEPT ![i] = [FreeEnt EXCEPT !.used = TRUE, !.path = p, !.dir = TRUE]] :
     i \in IF KvxTakes(p) /\ ~In(ents, p) THEN FreeIn(ents) ELSE {}}

\* Mutant: nothing is made in memory for a path KVXFS may hold.
MkdirOnDiskOnly(t, p) ==
  LET onDisk == IF Top(p) = "removable" THEN {} ELSE KvxMkdir(t.kvx, p)
      inRam  == IF KvxTakes(p) THEN {} ELSE RamMkdir(t.ram, p)
  IN  IF onDisk # {} THEN [t EXCEPT !.kvx = CHOOSE k \in onDisk : TRUE]
      ELSE IF inRam # {} THEN [t EXCEPT !.ram = CHOOSE n \in inRam : TRUE]
      ELSE t

\* vfs_mkdir on both tables: in memory if KVXFS refuses, for whatever reason.
MkdirIn(t, p) ==
  LET onDisk == IF Top(p) = "removable" THEN {} ELSE KvxMkdir(t.kvx, p)
      inRam  == RamMkdir(t.ram, p)
  IN  IF onDisk # {} THEN [t EXCEPT !.kvx = CHOOSE k \in onDisk : TRUE]
      ELSE IF inRam # {} THEN [t EXCEPT !.ram = CHOOSE n \in inRam : TRUE]
      ELSE t

\* kvxfs_write_all and kvxfs_mkdir save the table.
Save == saved' = [saved EXCEPT ![root] = kvx']

-----------------------------------------------------------------------------
(* The commands.                                                           *)

\* The paths vfs_read_all looks up where vfs_write_all writes; only of these is what was
\* written remembered.
OneBackend == {p \in Paths : Persist(p) \/ ~(ReadsKvxFirst(p) \/ Removable(p))}

\* What is known to be stored at p, in memory or on the disk that is there, from
\* the command that has just run.
Claims == ({p \in OneBackend : Persist(p)} \X Roots)
            \cup ({p \in OneBackend : ~Persist(p)} \X {"memory"})
Key(p) == <<p, IF Persist(p) THEN root ELSE "memory">>
Claim(p, t) == said' = [k \in Claims |-> IF k = Key(p) THEN t ELSE said[k]]
Disclaim(P) == said' = [k \in Claims |-> IF k \in {Key(p) : p \in P} THEN NoText ELSE said[k]]
Same == UNCHANGED <<root, toy>>

\* vfs_write_all: who may write, and where it goes.
Denied(p, u) == Exists(p) /\ Owner(p) = 0 /\ u # 0

WriteAllSucceeds(p, t) ==
  /\ ~Denied(p, uid)
  /\ IF Persist(p)
     THEN kvx' \in KvxWrite(kvx, p, t, uid) /\ Save /\ UNCHANGED ram
     ELSE ram' \in RamWrite(ram, p, t) /\ UNCHANGED <<kvx, saved>>

\* With no room in the pool the file is left empty.
WriteAllFails(p) ==
  \/ /\ \/ Denied(p, uid)
        \/ Persist(p) /\ KvxWrite(kvx, p, <<>>, uid) = {}
        \/ ~Persist(p) /\ RamWrite(ram, p, <<>>) = {}
     /\ UNCHANGED <<ram, kvx, saved>>
  \/ /\ ~Denied(p, uid) /\ ~Persist(p)
     /\ ram' \in RamWrite(ram, p, <<>>)
     /\ UNCHANGED <<kvx, saved>>

Store(p, t) ==
  /\ \/ WriteAllSucceeds(p, t) /\ Claim(p, t)
     \/ WriteAllFails(p) /\ Disclaim({p})
  /\ UNCHANGED uid /\ Same

Write(p, t) == Store(p, t)

\* append reads with one rule and writes with another; the text it can hold is
\* limited.
OldText(p) == IF ReadAll(p, uid) = NoText THEN <<>> ELSE ReadAll(p, uid)

Cut(t) == SubSeq(t, 1, IF Len(t) < MaxText THEN Len(t) ELSE MaxText)

AppendTo(p, t) == Store(p, Cut(OldText(p) \o t))

\* echo text > path goes to KVXFS, and so does touch.
Echo(p, t) ==
  /\ \/ kvx' \in KvxWrite(kvx, p, t, uid) /\ Save
        /\ IF Persist(p) THEN Claim(p, t) ELSE Disclaim({p})
     \/ KvxWrite(kvx, p, t, uid) = {} /\ Disclaim({p}) /\ UNCHANGED <<kvx, saved>>
  /\ UNCHANGED <<ram, uid>> /\ Same

Touch(p) == Echo(p, <<>>)

\* ramfs_mkdir answers -1 when its table is full, which cmd_mkdir takes for yes.
Mkdir(p) ==
  LET t == MkdirIn([ram |-> ram, kvx |-> kvx], p)
  IN  /\ ram' = t.ram
      /\ kvx' = t.kvx
      /\ IF t.kvx = kvx THEN UNCHANGED saved ELSE Save
      /\ UNCHANGED <<uid, said>> /\ Same

\* The paths cmd_rm and cmd_rmdir refuse to remove.
Critical == {Root, <<"home">>, <<"home", "anil">>, <<"sys">>}

\* vfs_remove is for /persist and /home only, and only in KVXFS.
VfsRemove(p) ==
  /\ \/ /\ Top(p) \in {"persist", "home"}
        /\ \E i \in Find(kvx, p) : kvx' = [kvx EXCEPT ![i] = FreeEnt]
        /\ Save
        /\ Disclaim({p})
     \/ /\ Top(p) \notin {"persist", "home"} \/ ~In(kvx, p)
        /\ UNCHANGED <<kvx, saved, said>>
  /\ UNCHANGED <<ram, uid>> /\ Same

\* Neither looks whether p is a directory, or an empty one.
Rm(p)    == p \notin Critical /\ VfsRemove(p)
Rmdir(p) == p \notin Critical /\ VfsRemove(p)

\* vfs_rename: the object in memory if there is one, unless its new name is taken
\* in memory; else the entry of KVXFS, whatever its new name holds.
VfsRename(p, q) ==
  /\ \/ /\ ~In(ram, q)
        /\ \E i \in Find(ram, p) : ram' = [ram EXCEPT ![i].path = q]
        /\ Disclaim({p, q})
        /\ UNCHANGED kvx
     \/ /\ ~In(ram, p)
        /\ LET r == IF KvxIsDir(q) THEN Append(q, Last(p)) ELSE q
           IN  /\ r \in Paths                    \* bound
               /\ \E i \in Find(kvx, p) : kvx' = [kvx EXCEPT ![i].path = r]
               /\ Disclaim({p, r})
        /\ UNCHANGED ram
     \/ /\ IF In(ram, p) THEN In(ram, q) ELSE ~In(kvx, p)
        /\ UNCHANGED <<ram, kvx, said>>
  /\ UNCHANGED <<saved, uid>> /\ Same

Mv(p, q) == p \notin {Root, <<"home">>, <<"sys">>} /\ VfsRename(p, q)

Chmod(p, others) ==
  /\ \E i \in Find(kvx, p) : kvx' = [kvx EXCEPT ![i].others = others]
  /\ Save
  /\ UNCHANGED <<ram, uid, said>> /\ Same

\* Another user logs in.
SwitchUser(u) ==
  /\ uid' = u
  /\ UNCHANGED <<ram, kvx, saved, said>> /\ Same

-----------------------------------------------------------------------------
(* Start-up.                                                               *)

EmptyRam == [i \in RamSlots |-> FreeNode]

\* The tables after so many directories of the layout, on those of a disk: a directory
\* the disk already has is made once more, in memory.
Made(disk) ==
  LET made[n \in 0..Len(Layout)] == IF n = 0 THEN [ram |-> EmptyRam, kvx |-> disk]
                                    ELSE MkdirIn(made[n - 1], Layout[n])
  IN  made

Laid(disk) == Made(disk)[Len(Layout)]

\* ... and /etc/passwd, unless some back end has it.
Prepared(disk) ==
  LET t == Laid(disk)
      w == KvxWrite(t.kvx, PasswdFile, PasswdText, 0)
  IN  IF PasswdFile \in Paths /\ ~In(t.kvx, PasswdFile) /\ ~InToy(PasswdFile) /\ w # {}
      THEN [t EXCEPT !.kvx = CHOOSE k \in w : TRUE] ELSE t

\* The start-up prints the tree of the disk: kvxfs_tree_walk calls itself for every
\* directory among the children, and comes to an end unless one is its own child,
\* as paths grow on the way down.
TreeEnds(disk) ==
  \A i \in DOMAIN disk : disk[i].used /\ disk[i].dir => ~DirectChild(disk[i].path, disk[i].path)

\* The disks after a start with m attached.
DisksAfter(disks, m) ==
  [d \in Roots |-> IF d = RootDisk(m) THEN Prepared(Mounted(disks, d)).kvx ELSE disks[d]]

\* The machine is switched off and on again, with m attached now.
Reboot ==
  /\ \E m \in Machines :
       LET t == Prepared(Mounted(saved, RootDisk(m)))
       IN  /\ TreeEnds(Mounted(saved, RootDisk(m)))
           /\ ram' = t.ram /\ kvx' = t.kvx /\ root' = RootDisk(m)
           /\ saved' = DisksAfter(saved, m)
  /\ uid' = 0
  /\ said' = [k \in Claims |-> IF k[2] = "memory" THEN NoText ELSE said[k]]
  /\ UNCHANGED toy

NewDisks == [d \in Roots |-> EmptyKvx]

VfsInit ==
  /\ \E m \in Machines :
       LET t == Prepared(Mounted(NewDisks, RootDisk(m)))
       IN  /\ ram = t.ram /\ kvx = t.kvx /\ root = RootDisk(m)
           /\ saved = DisksAfter(NewDisks, m)
  /\ toy \in Images
  /\ uid = 0
  /\ said = [k \in Claims |-> NoText]

VfsNext ==
  \/ \E p \in Paths :
       \/ \E x \in Pieces : Write(p, <<x>>) \/ AppendTo(p, <<x>>) \/ Echo(p, <<x>>)
       \/ Touch(p)
       \/ Mkdir(p)
       \/ Rm(p) \/ Rmdir(p)
       \/ \E q \in Paths \ {p} : Mv(p, q)
       \/ \E others \in BOOLEAN : Chmod(p, others)
  \/ \E u \in Uids : SwitchUser(u)
  \/ Reboot

VfsSpec == VfsInit /\ [][VfsNext]_vfsVars

-----------------------------------------------------------------------------
(* Properties.                                                             *)

\* A text that write, append or, for /persist, echo reported stored is what vfs_read_all
\* returns to the superuser, through every command on other paths and mkdir and chmod on
\* this one, until the path is written, moved or removed; for /persist also through
\* restarts, with the disk or without it in between, whenever the disk is there, and ls
\* of its directory shows it, as does asking for the names of the directory one by one.
\* It is returned to the other users, too, if it is in memory or kvxfs_read_all lets them
\* read; that need not be so for the one who wrote it, of whose number one byte is kept.
\* Paths that vfs_read_all looks up in another back end than the one vfs_write_all
\* writes are excepted.
WrittenReadsBack ==
  \A p \in OneBackend :
    Key(p) \in Claims /\ said[Key(p)] # NoText =>
      /\ \A u \in Uids : u = 0 \/ ~Persist(p) \/ KvxReads(p, u) => ReadAll(p, u) = said[Key(p)]
      /\ Persist(p) =>
           /\ p \in Ls(Front(p))
           /\ Last(p) \in UNION {FileNameAt(Front(p), n) : n \in 0..(FileCount(Front(p)) - 1)}

\* However the directories of the layout were moved or overwritten, however full
\* the disk's table is, and whether there is a disk at all, each of them exists
\* after a restart from here (fs_prepare_user_layout), in memory if the disk has no
\* room for it.
RestartHasLayout ==
  \A m \in Machines :
    LET t == Prepared(Mounted(saved, RootDisk(m)))
    IN  \A p \in ToSet(Layout) : InToy(p) \/ In(t.ram, p) \/ In(t.kvx, p)

\* fs_init.c:79: after the tree of the disk has been printed the directories of the
\* user layer are prepared.  A start from here gets that far: printing the tree comes
\* to an end, whatever was made, moved and removed before.
BootFinishes ==
  \A m \in Machines : TreeEnds(Mounted(saved, RootDisk(m)))

=============================================================================
