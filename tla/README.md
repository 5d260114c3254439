# KuvixOS-V2 verification project

KuvixOS-V2 is a 32-bit x86 kernel in C: a shell on the console, three file
systems under one tree, users and a login, PS/2 keyboard and mouse, an e1000
network card with a small IP stack, and programs loaded from disk into the
kernel's own address space.  It has one thread of control (the main loop of
`kernel/kmain.c`) and four interrupt handlers (timer, keyboard, mouse, and a
default one).  There are no tests and no design documents in the repository; the
comments, most of them Turkish, are the only statement of intent.

This directory holds TLA+ modules that model the kernel component by component,
TLC configurations that check them on small instances, and TLAPS proofs of
results that hold for every value of the constants.  `PROJECT.json` lists the
components, the runs, which source lines each definition stands for (`map`), a
mutant of the code for every property, the hazards of the code, and the places
where the code disagrees with what its comments say (`findings`).

    tlc -workers 2 -config kvxfs_crash.cfg MCKvxfs     # model-check one run
    tlapm KvxfsProofs.tla                              # check the proofs

## 1. The system

Paths below are relative to `src/`.

### Components

| Component | State | Operations | Hard behaviour |
|---|---|---|---|
| KVXFS (`kernel/fs/kvxfs.c`) | `g_meta`: 256 entries (path, first sector, size, flags) and the free pointer, in memory and on 39 metadata sectors; the data sectors | write_all, mkdir, remove, rename, chmod, format, init, read | one call writes many sectors; power loss and failed writes between them; entries cut in two by a sector boundary |
| ATA and block devices (`kernel/drivers/ata_pio.c`, `kernel/block/`) | the disks found, the root disk | probe, read and write of one sector | time-outs and errors of a transfer; a start without the disk |
| Heap (`kernel/memory/kmalloc.c`) | doubly linked list of blocks in the heap, counts of calls | kmalloc, kfree, statistics | splitting, merging, exhaustion |
| RAMFS (`kernel/fs/ramfs.c`) | nodes, descriptors, a pool that only grows | open, read, write, close, write_all, mkdir, rename, remove, list | regions that move as a file grows; pool, nodes and descriptors run out |
| ToyFS (`kernel/fs/toyfs.c`) | table of 32 files, 16 descriptors | mount, open, read, close, iterate | descriptors run out; a sector the device does not give |
| VFS (`kernel/fs/vfs.c`, `fs_init.c`) | open files, current directory; the choice of back end | open … close, write_all, read_all, mkdir, remove, rename, chmod, stat, list | three objects may have one path, and each operation looks at them in its own order |
| File commands (`kernel/commands/`) | none | append, echo, touch, mkdir, rm, rmdir, mv, chmod, cd, ls, format, font … | sequences of VFS calls, each of which may fail |
| Sessions (`init/session.c`, `kernel/user.c`, `cmd_sudo.c`, `cmd_passwd.c`, `cmd_exit.c`, `cmd_logout.c`) | who is logged in, the previous identity, the fields of the prompt, the state of `passwd` | a key at the prompt, login, F1, sudo, sudo su, passwd, exit, logout | static variables that survive from one session to the next |
| Shell (`lib/shell/`, `lib/commands/`) | line, cursor, history | a key, run a line | modal: the prompt, `passwd` and the shell share the keys |
| Keyboard and mouse (`kernel/drivers/input/`) | ring of events, modifier flags, packet under assembly, queue of packets | the start-up dialogue, the two interrupt handlers, `kbd_poll`, `ps2_mouse_poll` | handler against main loop; one controller with two devices; polling against interrupts |
| Interrupts and main loop (`kernel/arch/x86/idt.c`, `kernel/kmain.c`) | 8259, gates | dispatch, end of interrupt, `hlt` | lost wake-ups |
| Network card (`kernel/drivers/net/e1000.c`, `pci.c`) | two rings of descriptors shared with the card | scan of the bus, start of the card, send a frame, pop a frame | driver and card run in parallel; ring full, ring empty |
| Network stack (`kernel/drivers/net/net.c`) | ARP table, the ping and the UDP datagram awaited, DNS ids, one TCP connection | ping, resolve, TCP connect / send / recv / close | late, repeated, lost, reordered answers; time-outs and retries |
| Text console (`kernel/printk.c`, `kernel/drivers/video/fb_console.c`, `fb.c`) | back buffer, memory of the card, cursor, `g_dirty` | print, erase, flush, present a rectangle | what is drawn is not shown until somebody flushes |
| Clock (`kernel/time.c`, `kernel/drivers/rtc/`) | milliseconds since boot, the epoch at boot, time of day | timer interrupt, read of the real-time clock, conversion between epoch and date | the chip goes on between two of its registers; BCD and 12-hour codes; two records of the time of day |
| Services (`lib/service/`) | state and enabled flag of each service | start, stop, restart, enable | none: nothing calls them |
| Program loader (`kernel/exec/loader.c`) | table of drivers, fixed load addresses | load desktop, login screen, driver, command | programs call back into the loader |
| Background tasks (`cmd_exec.c`, `cmd_kill.c`) | table of 16 tasks, each with a buffer | exec, kill, task | table full, buffers owned by the table |

The rest — boot assembly, graphics, fonts, formatting, keyboard layouts, strings, SHA-256, power, unused headers, and the third-party
`stb_truetype.h` — draws, formats or computes, and is listed in `PROJECT.json`
with the reason it is left out.

### How they interact

* Every command runs to its end inside the main loop, called from the shell,
  called from `shell_tick`, called for each event popped from the keyboard's
  ring.  No interrupt handler touches a file system, the heap, the session or
  the network, so between commands those are at rest: this is why `Vfs`,
  `Session` and `Net` may take a call, or a poll within a call, as one step.
* Handlers and main loop share the keyboard's ring and modifiers, the mouse's
  queue, and the tick counter.  All gates are interrupt gates (0x8E), so a
  handler is never interrupted, and the main loop may be interrupted anywhere
  between `sti` and `hlt`.
* A program runs in place of the main loop and calls the keyboard and mouse
  drivers by polling, with interrupts on; while it runs the text console is
  off, and it draws through the same back buffer.
* The network is polled by the call that waits; the card is the only true
  concurrent actor.
* `vfs.c` calls RAMFS, KVXFS and ToyFS directly; KVXFS calls `block_write`, one
  512-byte sector at a time, which is the unit of atomicity on the disk.

### What makes each part correct

KVXFS: after power is lost anywhere, the table on the disk describes files whose
sectors were completely written and are not shared.  Heap: blocks tile the heap,
payloads do not overlap, nothing is lost.  RAMFS and VFS handles: a file holds
what was written to it, whatever other files do; descriptors are not lost.
VFS: what a command reports done can be read back by the next.  Session: the
identity is that of the user who typed the name and password, and every way back
leads to an identity this login had.  Input: every key reaches the reader, once,
in order, with the modifiers that were held.  Network card: frames go out and
come in, in order, none lost unless the ring is full.  Network: an answer is
attributed to the question it answers, and what is read of a stream is the peer's
and is all that was acknowledged for itself.
Console: whenever the processor halts the screen shows what was printed, and the
line on it is the line the editor has.  Clock: a date read is one the chip
showed, and the two records of the time of day agree.  Programs and tasks:
every buffer has one owner, and none is lost when a load fails half way.

## 2. The modules

| Module | Models | Instance for TLC | Proofs |
|---|---|---|---|
| `Kvxfs` | KVXFS over a sector device, sector by sector, with power loss and failed writes | `MCKvxfs` | `KvxfsProofs` |
| `KvxStore` | abstract: a table of objects whose slots reach the disk one by one | (through `Kvxfs`) | `KvxfsProofs` |
| `Kmalloc` | the heap | `MCKmalloc` | `KmallocProofs` |
| `Ramfs`, `ToyFs`, `VfsFiles` | RAMFS, ToyFS, and open files of the VFS over both | `MCVfsFiles` | `VfsFilesProofs` |
| `RamFiles` | abstract: files are sequences of bytes | (through `VfsFiles`) | `VfsFilesProofs` |
| `Vfs` | the overlay of three file systems as the commands use it, listing, users, disks and restarts | `MCVfs` | `ShellProofs` |
| `Session` | login prompt, session, sudo, passwd | `MCSession` | `ShellProofs` |
| `Console` | text console, frame buffer, line editors and what makes the screen current | `MCConsole` | `UserProofs` |
| `Input` | keyboard, mouse, controller, their start-up, interrupts, main loop | `MCInput` | `UserProofs` |
| `E1000` | the network card: the scan for it, its start, rings and driver | constants in the cfg | `E1000Proofs` |
| `FrameQueue` | abstract: a bounded queue of frames | (through `E1000`) | `E1000Proofs` |
| `Net`, `Tcp` | ARP, ping, UDP and DNS; the TCP connection over them | `MCTcp` | `TcpProofs` |
| `Clock` | the real-time clock and its reading, the calendar, the timer's count | `MCClock` | `ClockProofs` |
| `Exec` | loading of programs and drivers, background tasks | constants in the cfg | `VfsFilesProofs` |

A proof module may have the theorems of several components that share no variable,
each in a part of its own; their specifications then have names of their own
(`VfsSpec`, `ConsoleSpec`, `ExecSpec`).  Properties stand at the end of each module.  Beside a definition that a mutant
replaces stands the mutated form, marked "Mutant:"; it is used by no
specification.

### Kvxfs, KvxStore

`disk` and `mem` are the table on the disk and `g_meta`; `data` is the data
sectors; `job` is where the call in progress has got to.  Each call of
`kvxfs_write_all`, `kvxfs_mkdir`, … does its in-memory work in one step, up to
the first sector transfer; then `DataSector` writes a sector of content
(`DataFault` when the transfer fails, which the code ignores), `Link` puts the
entry into memory, and `MetaSector` writes the table in ascending order
(`MetaFault` when a transfer fails, which ends the call with failure and leaves
the memory ahead of the disk).  `Crash` may fall between any two; `MountAtBoot`
and `FormatAtBoot` are what `fs_init.c` does after it.  `kvxfs_rename` changes
memory and does not save it, which `Rename` keeps.

An entry takes 76 bytes at offset 16 + 76e of a packed structure, so its fields
may lie in two sectors: `PathSec`, `StartSec`, `SizeSec`, `FlagSec` say in which,
and `MCKvxfs` computes them from the real layout.  A path lies where its first
bytes do: no path in use reaches the boundary that cuts the 64 bytes of its field.
Contents count in sectors.  `torn` remembers that a format was cut short, `mixed`
which entries a stop or a failed transfer has left neither old nor new, on the disk
and, once mounted again, in memory; `faults` bounds crashes and failed transfers.
All three are history.

Of the 256 entries, 73 and 201 have `start_lba` at the end of one sector and `size` at
the beginning of the next (`StartsCut` in `MCKvxfs`).  A `kvxfs_write_all` that
shrinks such a file and stops between the two leaves the new start with the old size;
the extent then ends past `next_free_lba`, and the next file made is put into it.  So for
these two entries the code does not give what it gives for the others, and the
properties say which entries they hold for: the `Coherent` ones, whose start and size
belong together, being in one sector or not mixed.  Without that restriction TLC
finds the crash above in this instance.  A coherent entry may be cut elsewhere, or be a
mixture of an old path and new sectors; the properties cover it.

`ImplementsStore` is the refinement: the table is an array of objects, a call
changes one slot in memory, and a slot on the disk keeps its old object or has
its new one; a slot that is `Cut` may be `Mixed` instead, and no other slot is
touched by that.

### Kmalloc

Addresses are offsets in the heap and `hdr` is the memory that holds headers,
stale ones included.  `kmalloc` is a walk over the list, one block a step, then
`Take` (with the split) or `OutOfMemory`; `kfree` with its two merges is one
step.  `held` is `g_alloc_count` less `g_free_count`.  `Stats` is what
`kmalloc_get_stats` computes, the sums by `BytesFrom`, which follows the list from
block to block as the code does; `NothingLost` compares them with the heap and with
what callers hold at every moment.  A `size_t` is a number below `Modulus`, and the sum
in `Align16` wraps: the last fifteen sizes become 0, for which `kmalloc` looks for a
block of any size and returns a payload its caller may not use at all (`Usable`).
`exec` asks for such a size when a file says so (`cmd_exec.c:88`).

Callers are assumed to write in their own payload only, and then the branches that
guard against a corrupted header, which are left out, are never taken: that is what
`Tiling` says.  The assumption is about the rest of the kernel, which breaks it in
places: a file that is no ELF is copied into the middle of the heap (`loader.c:233`),
and `exec` writes before its buffer when an offset wraps (`cmd_exec.c:123`) or into a
payload of no bytes.

### Ramfs, ToyFs, VfsFiles, RamFiles

`nodes`, `pool`, `top`, `fds` are the statics of `ramfs.c`, `toyFiles` and `toyFds`
those of `toyfs.c`, and `slots` is `g_open` of `vfs.c`.  A byte of the ToyFS image is
known by its offset; a read goes sector by sector and ends at the first sector the
device does not give.  Nothing calls `toyfs_mount` at this commit, so the model
starts with any image mounted, a bad one or none.  `ramfs_remove` has no caller
and no action.  `RamFiles` is what the component promises: a file is a sequence
of bytes, a handle a position in one, and a rewrite that finds no room leaves
the file empty.

### Vfs

Objects of the three file systems at a small set of paths, the table each disk has
saved, which disk is the root, and the user.  Each action is a whole command with
every VFS call it makes, in order: for instance `AppendTo` is `vfs_read_all`
(KVXFS, then memory, then ToyFS), the join, the cut at `APPEND_FINAL_CAP`, then
`vfs_write_all` with its own choice of back end.  `Reboot` starts
the machine with any disks attached: `ata_pio_scan_all` looks for them, the first
is mounted or formatted, its tree is printed, and `fs_prepare_user_layout` runs on
empty memory.  `Ls` is what `ls` shows of the three file systems, `FileNameAt` what
programs are told.  Relative paths and `..` are resolved before the model
begins; which object a full pool turns away is left open.  `said` is history: the
text the last write of a path reported stored.  `Made` is the layout directory by
directory; of an owner the disk keeps the low byte (`OwnerByte`: `kvxfs.c:32`, `:254`),
against which `kvxfs_read_all` compares the whole identifier (`:289`), so a user whose
identifier is 1000 is refused a private file of his own; there are no fewer nodes in memory than directories in it
(`RAMFS_MAX_FILES` is 64, the layout has five), which `VfsAssumption` says.

### Session

One record `m` with the static variables of `session.c`, `cmd_passwd.c`, the
shell's name and the current directory; a step is one key at the prompt or in
`passwd`, and one command line in the shell.  History: what was typed since the
prompt appeared, who logged in, which identities the session has had.

### Console

`scr` is the back buffer, the memory of the card, which may have longer lines, and
the cursor; a cell stands for the pixels of a character.  `ed` is the line editor
that has the keys, in its five modes; a key, the command or the field it ends, and
the programs a command starts are steps, with the flushes the code makes and no
others, and `dirty` is `g_dirty`, which `shell_tick` acts on before the processor
halts.  Programs draw, present rectangles and start further programs.  Characters are
names; those that move the cursor or are drawn as something else are told apart
(`CharsAssumption`).  Prompts and typed letters are plain, and the kernel's message ends
its line (`PlainAssumption`); what commands and programs print may be any text.

### Input

Start-up is a sequence of commands to the mouse, each answered through the port the
keyboard uses too: a key pressed then may be taken for an answer, after which the
state of the controller is not known, and the model stops at "undefined"; it stops
there, too, when a polling program and the handler together push a byte past the end
of `packet`.  Both are in the list of disagreements below; `KeysAreHandled` excepts
them by name, and what the safety properties of `Input` say is checked up to there.

None of the variables the handlers share is volatile, so a C statement is not one access
or one at a time as written.  `ps2_mouse_update` is modelled as the flags of the
Makefile (`-O2`) compile it: `q_r` and `q_w` are read once, each word of a packet when
it is added up, and `q_r` is written at the end.  The mouse's handler, which drops the
oldest packet of a full queue by moving `q_r` itself, may run between any two of these:
it may come round to a slot still to be read, and its `q_r` is then overwritten.
`overrun` is the history of the first of these, which `BytesGoToTheirDevice` excepts.

`wire` is what the devices have still to send, `ctl` the controller's output
buffer, `pic` pending and in-service interrupts, `kbd` and `mouse` the statics of
the two drivers, `cpu` where the main loop is.  The keyboard handler reads the
port once and is atomic; the mouse handler reads until the buffer is empty and
is several steps; the queue is an array of slots with two indices; the main loop's access to each shared variable is a step; and so is
each access of a program that polls the keyboard or the mouse to a port or a shared
variable.  Mice are plain, with a wheel (packets of four bytes) or absent.

### E1000, FrameQueue, Net, Tcp

The scan of the PCI bus goes function by function over any population of it with
at most one card, and the start of the card register by register, with a link that
may come up, or not, at any time.  Then every access of the driver to a descriptor,
a buffer or a tail register is a step; the card moves on its own.  In `Net` a call is a state machine whose polls
may deliver any answer to any frame sent since the start, in any order, any
number of times or never; hosts answer truthfully.  A query that finds no free
descriptor fails before the datagram of the last lookup is thrown away
(`SendQueryFails`).  `Tcp` extends `Net` with
`g_tcp`, the calls on the connection and its handler, which any poll may reach; its
peers follow TCP and send as far as the window of the last acknowledgement allows
(`Window`, 4096 in the code), so several segments are under way, and each may come
never, late, often, before the one ahead of it, and during a later connection.
Sequence numbers are relative to the initial one of a connection, so they do not
wrap.

### Clock

`chip` is the real-time clock: the instant it shows, its update flag and its
coding (BCD or binary, 12 or 24 hours); `UpdateBegins` and `UpdateEnds` are its
own steps.  The chip begins at most `MaxDelay` updates while a call is under way: the
code reads a dozen registers with interrupts on, and nothing it can be interrupted by
takes a minute.  The bound is needed: two readings with a minute between them may
agree in the seconds and mix in the rest.  The instants are those of 2000 to 2037, the
years two digits and a signed 32-bit epoch can tell.  `rtc` is the call of `rtc_read_datetime` in progress, register by
register, with its second reading and its tries; `clock` is the statics of
`time.c`.  The calendar of the chip is written independently of the code's
(years that begin in March), so that `DaysSinceEpoch` and `FromEpoch` of the
code are compared with it.

### Exec

`call` is the `exec` or the load in progress, one fallible step at a time;
`running` is the stack of programs that have been called, for a command may load
a driver and a login screen a desktop; `tasks` is the table of background tasks,
`drivers` that of drivers.  `kmalloc` gives a payload nobody holds, or none: this
is what `Kmalloc` shows of it.  Which way a test of a file's content goes is left
open; an offset of a relocation near 2^32, for which the test of its range wraps and
the write goes before the buffer (`cmd_exec.c:123`), passes the test here as it does
there, and what it writes over is not modelled.  The addresses images are copied to are not modelled.

## 3. What the runs check

| Run | Bounds | Shows |
|---|---|---|
| `kvxfs_crash` | entry 0, in one sector, and 73, whose start and size a boundary separates; 2 paths, files of 0–2 sectors, 2 crashes or failed transfers | `TypeOK`; of the entries whose start and size belong together: the free pointer on the disk is past every file (`FreePointerPastFiles`), files share no sector (`FilesDisjoint`), a file on the disk is never written over (`CommittedDataKept`); a success is on the disk (`SuccessIsDurable`); with a good disk what was written is stored (`GoodWriteIsStored`); `KvxStore` is implemented (`ImplementsStore`) |
| `kmalloc` | 145 bytes with the real header and alignment: up to seven blocks, three of them with a payload; sizes 1, 32, 49 and, in a `size_t` of 8 bits, 250, which wraps | the list tiles the heap (`Tiling`); the bytes callers may use meet neither each other's nor a header (`PayloadsDisjoint`); all that is given back, once or twice, is free again and merged, the statistics account for every byte, and a kmalloc that fails missed no block that was large enough (`NothingLost`); `KmallocReturns` |
| `vfs_files` | 2 nodes, 2 memory descriptors, 1 ToyFS descriptor, 1 open file, a pool of 4 bytes; an image of more files than the table takes, with a file over two sectors, a bad image or none | files that grow and move share no byte (`RegionsDisjoint`); no descriptor is lost, nor a byte read through one of ToyFS (`NoDescriptorLost`); `RamFiles` is implemented (`ImplementsFiles`) |
| `vfs` | a path of the disk, one of the layout, a ToyFS file and its view, the image mounted or not; the disk attached or not at each start; 2 memory nodes, 1 entry on the disk; root, user 232 and user 1000, of whom the disk keeps 232; texts of one letter, an image file of two | what write, append and echo report stored is read back, on the disk also after restarts, by whoever may read it, and is listed by `ls` and to programs (`WrittenReadsBack`); after a restart, with the disk or without, the layout is there (`RestartHasLayout`) |
| `input` | a key, Shift and AltGr; ring of 3, mouse queue of 2; three strokes, or a stroke and a packet, or, while no program polls, a stroke and three packets (`MCBound`); a plain mouse, one with a wheel, none | the events popped come in the order of the strokes, and, unless a byte or an event was dropped, they are the strokes, each looked up with the modifiers held (`KeysInOrder`); two presses are never returned without a release between (`NoDoubleMake`); bytes go to their device, packets are whole and in the order the mouse sent them, and so is what an update reads of them, word by word, while the handler goes on (`BytesGoToTheirDevice`); no stroke waits for ever (`KeysAreHandled`) |
| `session_login` | 2 users, names and passwords of one key, buffers of 2 | the identity comes from the keys typed (`LoginByTypedKeys`); the identity `exit` restores is of this login (`PreviousIsFromThisLogin`); the prompt can read `/etc/passwd` (`PromptCanReadPasswd`); `passwd` ends with the user it began with (`PasswdKeepsUser`) |
| `console` | a screen of 3 by 2 cells over lines of 4, command lines of 4 characters, fields of 2, 2 drawing calls | whenever the processor halts the card shows what was drawn (`ScreenIsCurrent`); left of the cursor stands the editor's line (`LineShown`) |
| `e1000_rings` | a bus of 2 slots with 2 functions, 3 transmit and 4 receive slots, 4 sends, 7 arrivals | frames go out whole and in order (`TransmitsInOrder`); the receive ring is a `FrameQueue` (`ImplementsQueue`) |
| `net_calls` | 4 hosts, 2 ARP entries, 5 DNS ids, 4 calls, pings and lookups among the first 3; 2 services that send 3 and 1 segments of 2 bytes; a window of two of those segments; we send 1 or 3 bytes, of which 2 fit | frames go to the next hop (`FramesGoToNextHop`); a successful ping had a reply of its host (`PingMeansReply`); an address is the one asked for (`ResolvedIsAsked`); the datagram came while this call waited for it (`DatagramIsFresh`); what recv returns is of the service connected to (`ReceivedIsFromPeer`); a segment acknowledged for itself is one recv returns (`AckedIsReturned`); no two of our segments fill the same number (`SegmentsApart`) |
| `clock` | 3 instants, before midnight in a leap year, before a new year, before noon of a leap day; 4 codings, 3 updates of the chip, at most 3 of them during a call, 2 tries, 2 ticks a second | the date read was shown during the call (`ReadIsAnInstant`); a read fails only if the chip overtook it each time (`FailsOnlyIfOvertaken`); the epoch at boot is the chip's (`BootEpochIsTrue`); the timer's time of day and the calendar's agree (`DisplaysAgree`) |
| `exec` | 4 buffers, 2 tasks, 2 drivers, 4 identifiers | every payload belongs to one task or to the call in progress (`MemoryHasOneOwner`) |

One run ends in a violation; the comment it contradicts is quoted in `PROJECT.json`
under `findings`.

| Run | Bounds | The code |
|---|---|---|
| `vfs_boot` | the paths `/`, `/etc` and one below it, one machine with a disk | `mkdir /` makes a directory that is its own child, and the tree printed at the next start never ends (`BootFinishes`) |

### Other disagreements met while modelling

No run is kept for these; the models behave as the code does.

* A `kvxfs_write_all` that shrinks the file of entry 73 or 201 and is stopped between the
  sector of its start and that of its size leaves an extent past the free pointer, into
  which the next file is written (`kvxfs.c:26`, `:153`, `:265`).
* `kvxfs.c:254` keeps the owner in one byte, so user 1000 is not the owner that
  `kvxfs.c:290` says may always read; `kvxfs.c:271` does not look at the result
  of a data sector, so `cmd_echo.c:99` cannot report the disk error it has a
  message for; `kvxfs.c:466` removes a directory with files in it, which
  `cmd_rmdir.c:47` says is refused; a disk whose first sector cannot be read is
  formatted (`fs_init.c:62`).
* `vfs.c:195` calls `/removable` a read-only view, but `vfs.c:470` writes below
  it to memory; `rm` leaves the copy in memory (`vfs.c:621`); a directory made in
  memory cannot be entered (`vfs.c:293`); a file's maker may be refused a rewrite
  (`vfs.c:338` gives it to root, `vfs.c:459` asks for root); the node of a file in
  memory keeps the type of the node before it (`ramfs.c:57`).
* `append` reads `/home`, `/sys`, `/etc` and `/bin` from KVXFS first (`vfs.c:424`) and
  writes them to memory (`vfs.c:470`): the text added is not in what is read next.
* `toyfs_mount` and `g_toyfs_img` have no caller, so ToyFS is empty at this commit;
  `cmd_font.c:79` has its `vfs_close` commented out, which with an image would use up
  the sixteen descriptors; `cmd_ls.c:56` takes the 1 that `vfs_stat` returns for a
  failure, so `ls -l` shows defaults; `ls` shows at most one object of memory, because
  `ramfs_list` stops when the callback returns 0 and `ls_cb` always does; `init_system_font` runs before the file
  systems are there (`kmain.c:185`, `:198`).
* `sudo` cannot read root's line of `/etc/passwd` (`vfs.c:416`), and after running
  a command gives back the user id it saved even if the command changed the
  session (`cmd_sudo.c:108`); `passwd` writes a copy no login reads
  (`cmd_passwd.c:217`); F1 makes a session of user id 0 under the name anil
  (`session.c:360`); the home is read from a field the parser has no room for
  (`session.c:216`, `:253`); a second
  `sudo su` saves root over the user saved first, and `sudo` with a command saves
  nobody, though `cmd_sudo.c:68` says it keeps the real previous user, so `exit` does
  not bring that user back; `passwd` prints the new file (`cmd_passwd.c:230`).
* `ps2_mouse_update` reads a queue the handler writes (`mouse_ps2.c:97`): when more packets
  come during one update than the queue has room for, it adds up words of two packets,
  or takes a packet twice.
* `mouse_handler` drops a byte of the keyboard it finds (`mouse_ps2.c:228`), though
  `input.h:6` says the bytes are handed to both; `kbd_handler` that drops a byte
  of the mouse shifts every later packet (`keyboard.c:286`); `kbd_poll` and the
  handler share one prefix flag (`keyboard.c:262`); a key pressed while
  `ps2_mouse_init` runs is taken for an answer of the controller, possibly for its
  command byte; a packet is not resynchronised after a header with the overflow
  bits or after the last drain of the start-up; a program's `ps2_mouse_poll` and the
  handler can together push the index past `packet[4]` (`mouse_ps2.c:164`); the
  comment "Enable Auxiliary Device" stands at 0xA7, which disables it.
* With as many sends as slots before the card transmits, the tail meets the head
  and the card takes the ring for empty (`e1000.c:307`); a late reply to an
  earlier ping of the same host ends this one (`net.c:120`); a second card would be
  started on the same rings (`e1000.c`), and bus mastering is on before the reset.
* TCP (`net.c`): the peer's numbers are not compared with the one expected, so a
  segment that comes twice is stored twice, one that overtakes another is stored before
  it, and when one is lost or finds the buffer full and the next one under way is stored,
  the acknowledgement of that covers the missing one, which is never sent again; FIN with data counts as FIN alone for the
  number acknowledged; FIN that comes while the buffer is full ends the stream before
  that data; a FIN in answer to ours is ignored, so close waits its whole time;
  `net_tcp_send` counts the bytes beyond 1460 it cut off, and nothing is sent again;
  a SYN+ACK after the time-out establishes the connection; what exceeds the caller's
  buffer is lost though acknowledged (`net.c:714`); RST is not looked at.  So nothing is
  claimed of the order of a stream, nor that it is whole: `AckedIsReturned` says only
  that a segment is not acknowledged for itself, by its own end, unless it was stored.
* Text: `printk.c:47` says the minus sign is counted in the width, which is padded
  before it; `cmd_progress.c` relies on `\r`, which `fb_console.c:104` ignores; a tab
  at the login prompt is echoed as four blanks and erased as one; `de_api.h:49` names
  the corners of a rectangle where `fb_present_rect` takes its size (`loader.c:310`).
* Disk: the result of the cache flush after a write is that of a status that may be
  stale (`ata_pio.c`: ERR is not looked at after the data); `kvxfs_read_at` copies from
  one sector whatever length is asked for (`kvxfs.c:380`).
* A file that is no ELF is copied to 0x00800000 (`loader.c:18`, `:233`), inside the
  32 MB of the heap (`kmain.c:167`); `load_driver_module_named` reports success when
  the table of drivers is full (`loader.c:480`); the boot and `insmod` register
  the clock's driver as "unknown" (`loader.c:492`), so its fallback is not made;
  when a desktop started by a login screen ends, the console is on while the
  login screen goes on drawing (`loader.c:325`).

### Why the bounds are enough

* KVXFS: the hazards are between two entries (sharing sectors, overwriting, the
  order of writing) and between two sectors of the table; two entries in two
  sectors and files of two sectors have all of them, and two faults give a crash
  during the recovery from a failed write.  Of the entries cut by a boundary, 73 is the
  worst case, cut between start and size; the proofs hold for every layout and number of
  entries.
* Heap: seven blocks have a free block with used, free and no neighbours on both
  sides, one remainder too small to split, and blocks without a payload for the size
  that wraps.
* Rings: each is filled, emptied and wrapped within the strokes, sends and
  arrivals allowed.
* Net: two ARP entries for three stations of the subnet, so entries are replaced;
  one DNS id more than the calls: `ResolvedIsAsked` holds only while fewer
  questions are open than there are ids.
* TCP: the longer stream has three segments of which two are under way at a time, so one
  is lost or finds the buffer full between two that are stored, and the later one
  overtakes; four calls connect, use the connection and
  connect again, and segments of the first reach the second.
* Files: one file of memory grows while another stands behind it in a pool they can
  fill; the ToyFS file lies over two sectors, so a read crosses a boundary and may
  fail on either side of it.
* VFS: one path of every kind that the tests of `vfs.c` tell apart, and fewer nodes
  and entries than paths, so that every table fills up; users whose identifier fits a
  byte and not, with the same low byte.
* Session: buffers of two overflow at the third key.
* Input: the ring of three holds two events, so a third stroke overruns it, and the
  mouse's queue one, so a second packet does, and a third comes round to the slot an
  update began with; three strokes are a modifier, a key and
  the modifier's release; a packet and a stroke meet in the controller.  Strokes,
  packets and polling programs are not all combined: what a program that polls does to
  a packet needs one of each.
* Console: a command line of four with its prompt runs over the edge of three cells
  and over the bottom of two lines, and lines of the card are longer than the
  screen, so an offset computed from the wrong one shows.
* Clock: three updates let the chip change within and between the readings of
  both tries, and carry the time over the turn it starts at.
* Exec: two tasks fill the table with one buffer to spare for a load; a program,
  a program it starts and a picture hold at most one buffer besides.

### Fairness

`Kmalloc`: the walk goes on, as sequential code does.  `Input`: the controller
delivers bytes and interrupts, the timer ticks at 1 kHz, and the processor goes
on when it is not halted; a program that polls for ever is excepted in
`KeysAreHandled` itself.  No other specification has fairness, and no other
property needs it.

## 4. What is proved

Every safety property and every refinement that a run checks and that holds is a
theorem of the specification, for every value of the constants.  The constants
are assumed to be what the `ASSUME`s of the modules say, which TLC evaluates on every
instance; where a theorem assumes more, its statement says so.

| Module | Theorems | Property |
|---|---|---|
| `KvxfsProofs` | `TypeCorrect`, `FreePointerCorrect`, `CommittedDataCorrect`, `FilesDisjointCorrect`, `SuccessIsDurableCorrect`, `GoodWriteCorrect`, `StoreImplemented` | all of the run `kvxfs_crash` |
| `KmallocProofs` | `TilingCorrect`, `PayloadsDisjointCorrect`, `NothingLostCorrect` | the invariants of `kmalloc` |
| `VfsFilesProofs` | `RegionsCorrect`, `DescriptorsCorrect`, `FilesImplemented`, `StateCorrect` | all of `vfs_files` |
| | `OneOwner` | all of `exec` |
| `ShellProofs` | `PreviousCorrect`, `PromptCorrect`, `LoginCorrect`, `PasswdCorrect`, `StateCorrect` | all of `session_login` |
| | `WrittenReadsBackCorrect`, `RestartHasLayoutCorrect` | all of `vfs` |
| `E1000Proofs` | `TransmitCorrect`, `QueueImplemented`, `StateCorrect` | all of `e1000_rings` |
| `TcpProofs` | `NextHopCorrect`, `PingCorrect`, `DatagramCorrect`, `ResolvedCorrect`, `SegmentsCorrect`, `ReceivedFromPeerCorrect`, `AckedCorrect` | all of `net_calls` |
| `ClockProofs` | `InstantCorrect`, `FailsCorrect`, `BootEpochCorrect`, `DisplaysCorrect`, `StateCorrect` | all of `clock` |
| `UserProofs` | `KeysInOrderCorrect`, `NoDoubleMakeCorrect`, `BytesGoToTheirDeviceCorrect` | the invariants of `input` |
| | `ScreenCurrentCorrect`, `LineShownCorrect` | all of `console` |

`StateCorrect` is the inductive invariant itself, the types included.  Each proof
has one lemma per action or kind of action, and below it one step for each conjunct
the action can disturb; facts about the operators stand before them.

### KVXFS

For every number of slots, every layout of the entries over the sectors, every size
of file and disk, and any number of faults.  `FreePointerPastFiles` speaks of the
disk and is not inductive: a sector written now comes from memory, and whether it may
be written depends on which sectors went before it.  The inductive invariant is

    IInv == TypeOK /\ Stages /\ SentFields /\ SentPrefix /\ FreePointer

`Stages` ties the stage of a call to what memory holds; `SentFields` says, field by
field and for entries cut anywhere, that what lies in the sectors already sent is on
the disk as it is in memory; `SentPrefix` that past sector 0 the two free pointers are
equal; `FreePointer` bounds the coherent entries of the disk by the free pointer of the
disk and those of memory by that of memory.  Of the layout it needs only
that the free pointer is in sector 0, which is written first.  What a sector brings
to an entry is one lemma (`WriteThroughCoherent`): start and size of an entry that is
coherent on the disk afterwards are both those of memory, coherent there, or both those
the disk had.  Then

* `CommittedDataKept`: a data sector is always written at or past the free pointer of
  memory, which is at or past that of the disk;
* `FilesDisjoint` is inductive with it, because it compares the entries of the disk
  with those of memory, too (`AllApart`): a save leaves a mixture of both on the disk;
* `SuccessIsDurable` is what `SentFields` says once the last sector is sent;
* `GoodWriteIsStored` with `Placed`, where the sectors attempted lie;
* `ImplementsStore`: a step changes one slot of the cache, or takes a set of slots to
  the disk and leaves a set of cut ones mixed, or is a restart of `KvxStore`.

### The heap

For every heap, header and alignment and every set of sizes.  `Linked` describes the
list in both directions and says that a stale header off the list is marked free (so
a second `kfree` refuses it), `Separate` that no two neighbours are free, `Walking`
that the walk has passed no block that fits, `Holding` that the blocks in use are
those callers hold, `Counted` the counters.  The modulus at which sizes wrap is any that
the heap fits below.  Split and merge are lemmas about any
headers and any list.  The sums of the statistics are computed by following `next`;
that the walk's sum over the blocks from b on, with their headers, is what is left of
the heap from b on is shown by well-founded descent: of the blocks for which it
failed, there would be a last one.

### Files in memory

For every size of pool, number of nodes, descriptors, slots and image.  `RamInv` says
that each file ends in its own region and that the regions and what is still to be
handed out are apart; `ToyInv` what a descriptor of ToyFS has put out; `SlotsInv`
that descriptors and open files match one to one.  `FilesImplemented` assumes that no
path is cut (`Cut[p] = p`, paths of less than the 64 bytes of a node's name): two
paths that are cut to the same name are one file, which `RamFiles` does not have.
Its proof goes through the bytes of a file as seen through its node, and shows that a
move to another region, a write and a rewrite change them as `RamFiles` says and the
other files' not at all.

### The tree of files

For tables of any size and all paths, users, disks and images.  `WrittenReadsBack`
speaks of the disk that is there now; what carries it is what lies on the others.
The invariant `VfsInv` is the types (`VfsTypes`: without a disk the table of KVXFS
has no entries) and `SaidIsStored`: a text reported stored is in the slot that is
found for its path, in memory or on its disk, attached or not, and, while that disk
is the root, in the table in memory, too, which a rename may have taken ahead of the
disk.  A path may have several slots, and the lowest counts; so a command must be
shown not only to leave the slot of another path alone but to put no lower one in
front of it (`Kept`).  Every command but a restart is an instance of one relation,
`Done(S)`: it changes what is stored at no path outside S and reports of the paths in
S only what is so; the invariant is proved once, for `Done(S)`.  A restart makes the
layout on whatever the disk has.  That it loses no stored text, uses at most one node
a directory, and hence makes each of them if there are as many nodes as directories,
holds after every number of directories: of the numbers for which it failed there
would be a least (`LaidIs`).  `WrittenReadsBack` leaves out the paths that are written
by one back end and read through another (`OneBackend`; the paths of the
disagreement on `append`), and readers `kvxfs_read_all` turns away.

### Sessions

For any users, keys and size of buffers.  The invariant says that at the prompt
(`Waiting`) the session is the superuser's, `passwd` is off, nothing is saved and the
buffers hold what was typed, and that during a session the identity and the one saved
are among those this login has had.  A command line is treated as a relation between
the state before and after it (`Left`), because `sudo` runs another command within.

### The network card

For rings of any size, a bus of any size and any number of frames.  `TxInv` and
`RxInv` describe each ring from its head: of the places behind the head, those up to
the tail are the card's to send, or wait for the driver.  The refinement maps the
waiting places, in order, to the queue.  `BootInv` has the scan of the bus: the card
is found once, and no call runs before it is set up.

### The network

For any hosts, services, sizes of table and segment, and number of calls; frames may
come late, repeated or never.  The invariant comes in layers, each of which needs the
ones below: the table tells the truth (`HostInv`); the reply and the datagram noted
are of the call under way (`CallInv`); our numbers (`FillInv`); an acknowledgement that is
the end of a segment is so only of one that was returned or is in the buffer
(`DataInv`); the identifiers of
the questions (`IdInv`).  `ResolvedCorrect` assumes `MaxCalls < TxidCount`: once
65536 lookups have been made, an answer to an old one may be taken for that of the
new one, and the property is false.

### The clock

For every instant from 2000 to 2037, every coding, any number of tries and ticks.
`TriesInv` says that a try costs the chip a second or the two readings are equal;
`ReadInv` that the registers read first are of instants before one at which the chip
was at rest, and those read second of instants after it.  Two equal readings, less
than a minute apart, are then one instant: where a register that differs between them
could only have changed with all below it at zero.  `BootEpochCorrect` proves that
`datetime_to_epoch`, which counts days year by year and month by month, agrees with
the chip's calendar, whose years begin in March; `DisplaysCorrect` that the carry of
the timer from seconds to hours is division.

### Keyboard and mouse

For a ring and a queue of any length, any strokes and any packets.

* `NoDoubleMake` holds even while a program polls and bytes are lost: a code that was
  returned and not released since is in the set `kbd_get_char` keeps (`DownKept`).
* `BytesGoToTheirDevice`: while the start-up runs nothing comes from the mouse
  but the answers it waits for (`StartOk`), and the bytes that the mouse's handler has and those still to come are
  whole packets, one after the other (`Train`, `Aligned`), of which a stroke in between
  takes nothing; the packets in the queue come before them (`Collected`).  Every slot
  has an age, by which its packet has a number (`Numbered`), whatever the two indices
  do; the queue and an update under way begin at packets that were sent
  (`WithinSent`), and unless the handler came round to a slot the update has still to
  read, what it has added up ends where it goes on (`Applied`).
* `KeysInOrder`: the strokes, the events popped, those in the ring, the prefix the
  handler remembers and the bytes on their way are parts of one sequence (`Chain`,
  `Ordered`, and `AllThere` unless something was dropped).  The loop reads the oldest
  event, then moves the tail on, and a handler may run between the two: the slot still
  holds what was read (`AtAdvance`), because a full ring drops the new event, not an old
  one.  The modifiers are those the events returned have left (`Modified`).

### The console

For any size of screen and pitch, any prompts, messages and output.  `ConsoleInv`
says for each place the kernel can be at what holds there: while an editor has the
keys, either `g_dirty` is set or the card shows the back buffer (`Shown`), and the
characters behind the cursor are the end of the prompt and the line (`LineBehind`);
while a program runs, nothing is said of the screen, and what follows it must make
it current again.  Printing goes through a text character by character; the lemmas are
about one character, over the end of a line and the bottom of the screen, and
`PrintkSteps` carries them to a text.

### Programs and tasks

For any number of buffers, tasks, drivers and names.  The property does not say which
steps hold memory, nor that identifiers are never given twice, so the invariant adds
`HeldByStep` (a call has a buffer exactly from its kmalloc to its kfree) and
`IdsBelowNext` (every identifier in the table is below `g_next_task_id`).  `MaxIds`
bounds the identifiers; the width of `g_next_task_id` is therefore not part of the
statement.

### Only model-checked

* Liveness: `KmallocReturns` and `KeysAreHandled`.  Liveness under fairness, ENABLED
  and induction over data are outside what the prover's backends do.
* `BootFinishes`, which does not hold.

## 5. Not modelled

* *Services*: no function of `lib/service/` has a caller, and the callbacks of the one
  service of the table are empty; a model would be of a use nobody makes.
* *Boot assembly, descriptor tables, power*: they enter and leave the kernel; the only
  thing that could go wrong in between, power lost at any step, is in `Kvxfs` and `Vfs`.
* *Graphics, fonts, `stb_truetype.h`, layouts, strings, SHA-256, formatting*: functions
  from data to data without state that outlives a call.  What the models rely on (a
  comparison, a prefix, a cut at the end of a buffer) is stated where it is used.
* *The register bits of the ATA port*: a transfer of one sector succeeds or fails in
  `Kvxfs`; how the status register comes to say so is left open.
* *`krealloc`, `kcalloc`*: a kmalloc, a copy and a kfree; the branches of the heap for a
  damaged header are those `Tiling` shows are not taken.
* *Checksums, the text of names and addresses in the network stack*: a frame is either
  whole or not a frame.
* *Relative paths and `..`, the splitting of a line into words*: resolved before `Vfs`
  and `Session` begin.
* *Where an image is copied to* (`loader.c:233`): `Exec` gives buffers names, not
  addresses, so the overlap of 0x00800000 with the heap is in the list of disagreements
  only.

## 6. Plan

1. `Kvxfs`, `KvxStore`, with proofs — done.
2. `Kmalloc`, `Ramfs` with `ToyFs`, `RamFiles` and `VfsFiles`, `Session`, `E1000` with
   `FrameQueue`, `Clock`, `Exec`, with proofs; `Vfs` — done.
3. `Net` with `Tcp`, with proofs; `Input` with its start-up and polling programs,
   `Console`, the start of the card and the probing of disks — done.
4. Left to model: the splitting of a line and the current directory; `Exec` over
   `Kmalloc`, with addresses.
5. Proofs of `Console`, `Input` and `Vfs` — done; with them every safety property that
   a run checks and that holds is proved.
