-------------------------------- MODULE Exec --------------------------------
(***************************************************************************)
(* Programs in memory: src/kernel/exec/loader.c (drivers, commands, login  *)
(* screens and desktops), cmd_exec.c and cmd_kill.c (background tasks).    *)
(*                                                                         *)
(* kmalloc is abstracted to what Kmalloc shows of it: it gives a buffer    *)
(* nobody holds, or none.  What a file holds is known only when it is      *)
(* read, so each test of it may go either way.  The bytes a program is     *)
(* made of are left out, the copy to its address and the relocations       *)
(* included, and with them what they destroy when they do not lie in the   *)
(* payload (Kmalloc says which do not); so is the output.                  *)
(***************************************************************************)
EXTENDS Naturals, Sequences

CONSTANTS
  Buffers,     \* the payloads kmalloc has to give
  MaxTasks,    \* MAX_BACKGROUND_TASKS
  MaxDrivers,  \* MAX_LOADED_DRIVERS
  Names,       \* the names a command loads drivers under
  MaxIds       \* bound: the identifiers given to tasks

ASSUME ExecAssumption ==
  /\ MaxTasks \in Nat \ {0} /\ MaxDrivers \in Nat \ {0} /\ MaxIds \in Nat
  /\ "rtc" \in Names
  /\ "none" \notin Buffers

VARIABLES
  live,     \* the payloads in use
  tasks,    \* g_bg_tasks
  nextId,   \* g_next_task_id
  drivers,  \* g_drivers, the first g_driver_count of them
  running,  \* the programs that have been called and have not returned
  call      \* the exec or the load in progress

execVars == <<live, tasks, nextId, drivers, running, call>>

None   == "none"
Free   == [active |-> FALSE, id |-> 0, buffer |-> None]
NoCall == [op |-> "none", step |-> "none", buffer |-> None, name |-> None]
Idle   == call = NoCall
AtPrompt == Idle /\ running = <<>>
Runs(kind) == Idle /\ running # <<>> /\ running[Len(running)] = kind

ExecInit ==
  /\ live = {}
  /\ tasks = [t \in 1..MaxTasks |-> Free]
  /\ nextId = 1
  /\ drivers = <<>>
  /\ running = <<>>
  /\ call = NoCall

-----------------------------------------------------------------------------
(* The steps every loader shares: a buffer, and what becomes of it.        *)

Begin(op, step, name) ==
  /\ call' = [op |-> op, step |-> step, buffer |-> None, name |-> name]
  /\ UNCHANGED <<live, tasks, nextId, drivers, running>>

Kmalloc(next) ==
  \/ /\ \E b \in Buffers \ live :
          /\ live' = live \cup {b}
          /\ call' = [call EXCEPT !.buffer = b, !.step = next]
     /\ UNCHANGED <<tasks, nextId, drivers, running>>
  \/ /\ call' = NoCall
     /\ UNCHANGED <<live, tasks, nextId, drivers, running>>

\* The message, kfree and return of a failed step.
Fails ==
  /\ live' = live \ {call.buffer}
  /\ call' = NoCall
  /\ UNCHANGED <<tasks, nextId, drivers, running>>

Doing(op, step) == call.op = op /\ call.step = step
Step(next) == /\ call' = [call EXCEPT !.step = next]
              /\ UNCHANGED <<live, tasks, nextId, drivers, running>>

-----------------------------------------------------------------------------
(* cmd_exec: read the header, take memory, read the code and the table of  *)
(* relocations, relocate, and run the program or make it a task.           *)

Exec ==
  /\ AtPrompt
  /\ \/ Begin("exec", "header", None)
     \/ nextId <= MaxIds /\ Begin("exec &", "header", None)

Execs(step) == Doing("exec", step) \/ Doing("exec &", step)

\* The header cannot be read, is not that of a program, or is.
ExecHeader ==
  /\ Execs("header")
  /\ \/ Fails
     \/ Step("memory")
ExecMemory == Execs("memory") /\ Kmalloc("code")
ExecCode   == Execs("code") /\ (Fails \/ Step("table"))
ExecTable  == Execs("table") /\ (Fails \/ Step("relocate"))

\* Mutant: an offset out of range returns without kfree.
ExecRelocateKeeps ==
  /\ Execs("relocate")
  /\ \/ /\ call' = NoCall
        /\ UNCHANGED <<live, tasks, nextId, drivers, running>>
     \/ Step("start")

\* An offset past the code ends the call.  The test adds 4 in 32 bits, so the
\* last four offsets of all wrap and pass it: such a call goes on, and has
\* changed a word that begins before its buffer, in the header of the block.
ExecRelocate == Execs("relocate") /\ (Fails \/ Step("start"))

FreeTasks == {t \in 1..MaxTasks : ~tasks[t].active}

\* The task takes the first free entry.
ExecSaved ==
  /\ Doing("exec &", "start")
  /\ \E t \in FreeTasks :
       /\ \A u \in FreeTasks : t <= u
       /\ tasks' = [tasks EXCEPT ![t] =
                      [active |-> TRUE, id |-> nextId, buffer |-> call.buffer]]
  /\ nextId' = nextId + 1
  /\ call' = NoCall
  /\ UNCHANGED <<live, drivers, running>>

\* Every entry is taken.
ExecFull == Doing("exec &", "start") /\ FreeTasks = {} /\ Fails

\* The program runs to its end, and its memory is given back.
ExecRun == Doing("exec", "start") /\ Fails

\* cmd_kill: a task with this identifier ends and its memory is given back; an
\* identifier nobody has, 0 for a word that is no number, changes nothing.
Kill(id) ==
  /\ AtPrompt
  /\ \E t \in 1..MaxTasks :
       /\ tasks[t].active /\ tasks[t].id = id
       /\ live' = live \ {tasks[t].buffer}
       /\ tasks' = [tasks EXCEPT ![t] = Free]
  /\ UNCHANGED <<nextId, drivers, running, call>>

-----------------------------------------------------------------------------
(* load_elf_or_binary for each of its callers.                             *)

\* insmod and the boot name no driver; a command may load one by name.
Insmod == AtPrompt /\ Begin("driver", "memory", "unknown")
LoadDriver(name) == Runs("command") /\ Begin("driver", "memory", name)

\* A word that names a file of /bin is a command; kde and the session start a
\* desktop or a login screen, a login screen the desktop, and kls tries one out.
LoadCommand == AtPrompt /\ Begin("command", "memory", None)
LoadDesktop == (AtPrompt \/ Runs("login")) /\ Begin("desktop", "memory", None)
LoadLogin   == AtPrompt /\ Begin("login", "memory", None)
LoadKls     == AtPrompt /\ Begin("kls", "memory", None)

Loads == call.op \in {"driver", "command", "desktop", "login", "kls"}
LoadMemory == Loads /\ call.step = "memory" /\ Kmalloc("read")

\* The file cannot be read or is empty, or for kls no ELF file; or its image is
\* copied to its place and the buffer given back.
LoadRead ==
  /\ Loads /\ call.step = "read"
  /\ \/ Fails
     \/ /\ live' = live \ {call.buffer}
        /\ IF call.op = "driver"
           THEN /\ call' = [call EXCEPT !.buffer = None, !.step = "init"]
                /\ UNCHANGED running
           ELSE /\ call' = NoCall
                /\ running' = Append(running, call.op)
        /\ UNCHANGED <<tasks, nextId, drivers>>

\* register_driver_ops: an rtc driver without control gets the fallback.
Registered(name, control) ==
  IF Len(drivers) >= MaxDrivers THEN drivers
  ELSE Append(drivers, [name |-> name, control |-> control \/ name = "rtc"])

\* init_func succeeds, with or without a control, or fails.
DriverInit ==
  /\ Doing("driver", "init")
  /\ \/ \E control \in BOOLEAN : drivers' = Registered(call.name, control)
     \/ UNCHANGED drivers
  /\ call' = NoCall
  /\ UNCHANGED <<live, tasks, nextId, running>>

\* render_kbi of a desktop or a login screen: the picture is read into a buffer
\* that is given back on every way out.
RenderKbi ==
  /\ \E kind \in {"desktop", "login", "kls"} : Runs(kind)
  /\ Begin("picture", "memory", None)
PictureMemory == Doing("picture", "memory") /\ Kmalloc("draw")
PictureDrawn  == Doing("picture", "draw") /\ Fails

\* The program returns to who called it.
Returns ==
  /\ Idle /\ running # <<>>
  /\ running' = SubSeq(running, 1, Len(running) - 1)
  /\ UNCHANGED <<live, tasks, nextId, drivers, call>>

ExecNext ==
  \/ Exec \/ ExecHeader \/ ExecMemory \/ ExecCode \/ ExecTable \/ ExecRelocate
  \/ ExecSaved \/ ExecFull \/ ExecRun
  \/ \E id \in 0..MaxIds : Kill(id)
  \/ Insmod \/ LoadCommand \/ LoadDesktop \/ LoadLogin \/ LoadKls
  \/ \E name \in Names : LoadDriver(name)
  \/ LoadMemory \/ LoadRead \/ DriverInit
  \/ RenderKbi \/ PictureMemory \/ PictureDrawn
  \/ Returns

ExecSpec == ExecInit /\ [][ExecNext]_execVars

-----------------------------------------------------------------------------
(* Properties.                                                             *)

ActiveTasks == {t \in 1..MaxTasks : tasks[t].active}

\* Memory has one owner: what kmalloc gave out belongs to a task or to the call
\* in progress and to nobody twice, whatever failed on the way, and kill names
\* one task.  So killing every task gives back all memory.
MemoryHasOneOwner ==
  /\ live = {tasks[t].buffer : t \in ActiveTasks} \cup ({call.buffer} \ {None})
  /\ \A t \in ActiveTasks : tasks[t].buffer # call.buffer
  /\ \A t, u \in ActiveTasks :
       t # u => /\ tasks[t].buffer # tasks[u].buffer
                /\ tasks[t].id # tasks[u].id

=============================================================================
