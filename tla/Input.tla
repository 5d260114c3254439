------------------------------- MODULE Input -------------------------------
(***************************************************************************)
(* The PS/2 controller, the start-up of keyboard and mouse, their          *)
(* interrupts, the ring of keyboard.c between the interrupt handler and    *)
(* the main loop of kmain.c, and the packets mouse_ps2.c assembles.        *)
(*                                                                         *)
(* Interrupt gates clear the interrupt flag, so a handler is never         *)
(* interrupted, but the main loop may be between any two of its accesses   *)
(* to a port or a shared variable.  kbd_handler reads the controller once  *)
(* and is one step.  mouse_handler reads until the controller is empty,    *)
(* and the controller may refill while it does, so it is several.  A       *)
(* program the shell runs may poll the keyboard (kbd_poll) and the mouse   *)
(* (ps2_mouse_poll); each of its accesses to a port is a step, and so is   *)
(* each statement that shares a variable with a handler.  No such variable *)
(* is volatile: ps2_mouse_update is modelled as the flags of the Makefile  *)
(* compile it, with q_r and q_w read once and q_r written at the end, and  *)
(* each word of a packet read by itself.  Ctrl, Alt and Super are handled  *)
(* as Shift and AltGr are; the user does not press them here.              *)
(*                                                                         *)
(* What happens after a key was taken for an answer of the start-up        *)
(* dialogue, or after a byte was stored past the end of packet[], is not   *)
(* modelled: the processor stops at "undefined".                           *)
(*                                                                         *)
(* A byte carries the number of the key stroke or mouse packet it is part  *)
(* of, which the code cannot see.  An event (0xE000 | sc in the code) is   *)
(* the sequence of the bytes it was made from.                             *)
(***************************************************************************)
EXTENDS Integers, Sequences, FiniteSets, SequencesExt

CONSTANTS Keys,        \* the keys the user presses, of "A", "Shift", "Up", "Pad8", "AltGr"
          RingSize,    \* slots of kbd_buffer: 256 in the code
          MouseSlots,  \* MOUSE_QSIZE: 32 in the code
          Mice,        \* the mouse plugged in: "plain", "wheel" or "none"
          Bound(_, _, _)  \* bound: whether so many strokes and packets may come, with or
                          \* without a program that polls a port

ASSUME RingAssumption == RingSize \in Nat \ {0, 1} /\ MouseSlots \in Nat \ {0, 1}
ASSUME KeysAssumption == Keys \subseteq {"A", "Shift", "Up", "Pad8", "AltGr"}

VARIABLES wire,  \* what the devices have still to send, the keys held down, the mouse
          ctl,   \* the controller's output buffer: its byte, and whether it is full
          pic,   \* the interrupts pending and in service
          isr,   \* whether mouse_handler runs
          kbd,   \* the static variables of keyboard.c
          mouse, \* the static variables of mouse_ps2.c; the movements added up, and whether
                 \* a packet was written over one that an update had to read (history)
          cpu,   \* where kernel_main or a program is, and its locals
          sent, got, \* ghosts: strokes sent, events popped,
          lost, polled \* whose bytes or events were dropped, a program has polled a port

vars == <<wire, ctl, pic, isr, kbd, mouse, cpu, sent, got, lost, polled>>
ghosts == <<sent, got, lost, polled>>

E0 == 224
Extended == {"Up", "AltGr"}
Code == [k \in {"A", "Shift", "Up", "Pad8", "AltGr"} |->
           CASE k = "A" -> 30 [] k = "Shift" -> 42 [] k = "AltGr" -> 56 [] OTHER -> 72]

ACK == 250

Byte(src, val, n) == [src |-> src, val |-> val, n |-> n]
NoByte == Byte("kbd", 0, 0)

\* What the keyboard sends for a key: its code, plus 128 for the release.
Stroke(k, up, n) ==
  (IF k \in Extended THEN <<Byte("kbd", E0, n)>> ELSE <<>>)
    \o <<Byte("kbd", IF up THEN Code[k] + 128 ELSE Code[k], n)>>

\* What the mouse sends for the packet n: a header, the movement (to the side by 8, which
\* could be taken for a header), and with the wheel enabled a fourth byte.
Packet(w, head, n) ==
  <<Byte("mouse", head, n), Byte("mouse", 8, n), Byte("mouse", 0, n)>>
    \o IF w.wheel THEN <<Byte("mouse", 0, n)>> ELSE <<>>

Scancode(ev) == Last(ev).val
IsE0(ev) == Len(ev) = 2

-----------------------------------------------------------------------------
(* The devices and the controller. *)

Polling == polled \/ cpu.pc \in {"data", "source", "fetch"}
Room(strokes, packets) ==
  /\ cpu.pc # "undefined"
  /\ Bound(Len(sent) + strokes, wire.packets + packets, Polling)
MayPoll == Bound(Len(sent), wire.packets, TRUE)

\* A key goes down, repeats, or goes up.
Send(k, up) ==
  /\ Room(1, 0)
  /\ LET s == Stroke(k, up, Len(sent) + 1) IN
       /\ sent' = Append(sent, s)
       /\ wire' = [wire EXCEPT !.keys = @ \o s,
                               !.held = IF up THEN @ \ {k} ELSE @ \cup {k}]
  /\ UNCHANGED <<ctl, pic, isr, kbd, mouse, cpu, got, lost, polled>>

Press(k) == Send(k, FALSE)
Release(k) == k \in wire.held /\ Send(k, TRUE)

\* The mouse moves, perhaps too far for a packet (bit 6 of the header).
Move(head) ==
  /\ wire.reporting
  /\ Room(0, 1)
  /\ LET n == wire.packets + 1 IN
       wire' = [wire EXCEPT !.packets = n, !.moves = @ \o Packet(wire, head, n)]
  /\ UNCHANGED <<ctl, pic, isr, kbd, mouse, cpu, ghosts>>

\* The empty output buffer takes a byte of one device and raises its interrupt.
Load ==
  /\ ~ctl.full
  /\ \/ /\ wire.keys # <<>>
        /\ ctl' = [full |-> TRUE, byte |-> Head(wire.keys)]
        /\ wire' = [wire EXCEPT !.keys = Tail(@)]
        /\ pic' = [pic EXCEPT !.pending = @ \cup {"kbd"}]
     \/ /\ wire.moves # <<>>
        /\ ctl' = [full |-> TRUE, byte |-> Head(wire.moves)]
        /\ wire' = [wire EXCEPT !.moves = Tail(@)]
        /\ pic' = [pic EXCEPT !.pending =
                     @ \cup (IF Head(wire.moves).src = "mouse" THEN {"mouse"} ELSE {})]
  /\ UNCHANGED <<isr, kbd, mouse, cpu, ghosts>>

Aux == ctl.byte.src = "mouse"
DataRead == ctl' = [ctl EXCEPT !.full = FALSE]

-----------------------------------------------------------------------------
(* keyboard.c: the ring. *)

NextSlot(i) == (i + 1) % RingSize  \* (uint8_t)((i + 1) & 0xFF)

Queued == [i \in 1 .. (kbd.head - kbd.tail) % RingSize |->
             kbd.ring[(kbd.tail + i - 1) % RingSize]]

\* A full ring drops the new event.
Pushed(k, ev) ==
  IF NextSlot(k.head) = k.tail THEN k
  ELSE [k EXCEPT !.ring[k.head] = ev, !.head = NextSlot(@)]

RingFull(k) == NextSlot(k.head) = k.tail

Losing(src, b) == IF b THEN lost \cup {src} ELSE lost

\* An event leaves the ring: a modifier is noted, a repeated make is ignored,
\* anything else is returned.
IsModifier(ev) ==
  IF IsE0(ev) THEN Scancode(ev) % 128 = 56 ELSE Scancode(ev) % 128 \in {42, 56}

\* The table kbd_get_char and kbd_scancode_to_ascii look the key up in.
Table(k) == IF k.altgr THEN "altgr" ELSE IF k.shift THEN "shift" ELSE "normal"

\* kbd_get_char goes on after an event of a pair and after a release.
NoChar(ev) == IsE0(ev) \/ Scancode(ev) >= 128

Modifiers(k, ev) ==
  IF IsE0(ev) THEN [k EXCEPT !.altgr = Scancode(ev) < 128]
  ELSE IF Scancode(ev) % 128 = 42 THEN [k EXCEPT !.shift = Scancode(ev) < 128]
  ELSE k  \* Alt, which nothing here asks for

ReturnedUnfiltered(k, ev) == ~IsModifier(ev)

Returned(k, ev) ==
  ~IsModifier(ev) /\ (Scancode(ev) >= 128 \/ Scancode(ev) \notin k.down)

Popped(k, ev) ==
  LET t == [k EXCEPT !.tail = NextSlot(@)] IN
    IF IsModifier(ev) THEN Modifiers(t, ev)
    ELSE [t EXCEPT !.down = IF Scancode(ev) < 128 THEN @ \cup {Scancode(ev)}
                            ELSE @ \ {Scancode(ev) - 128}]

-----------------------------------------------------------------------------
(* The interrupt handlers. *)

\* Interrupts are off until kernel_main is through with ps2_mouse_init.
StartingUp == cpu.pc \in {"drain", "ask", "answer", "flush", "undefined"}

\* The processor takes the interrupt of highest priority, keyboard before mouse,
\* unless one of that priority or higher has not been ended.
Taken(i) ==
  /\ isr = "none" /\ ~StartingUp
  /\ i \in pic.pending
  /\ "kbd" \notin pic.service
  /\ i = "mouse" => "kbd" \notin pic.pending /\ "mouse" \notin pic.service

Begun(i) == [pending |-> pic.pending \ {i}, service |-> pic.service \cup {i}]
Ended(p, i) == [p EXCEPT !.service = @ \ {i}]
Woken == IF cpu.pc = "halted" THEN [cpu EXCEPT !.pc = "pop"] ELSE cpu

\* kbd_handler finds the first byte of a pair.
KbdPrefixNoEoi ==
  /\ Taken("kbd")
  /\ ctl.full /\ ~Aux /\ ctl.byte.val = E0
  /\ DataRead
  /\ kbd' = [kbd EXCEPT !.e0 = <<ctl.byte>>]
  /\ pic' = Begun("kbd") /\ cpu' = Woken
  /\ UNCHANGED <<wire, isr, mouse, ghosts>>

KbdPrefix ==
  /\ Taken("kbd")
  /\ ctl.full /\ ~Aux /\ ctl.byte.val = E0
  /\ DataRead
  /\ kbd' = [kbd EXCEPT !.e0 = <<ctl.byte>>]
  /\ pic' = Ended(Begun("kbd"), "kbd") /\ cpu' = Woken
  /\ UNCHANGED <<wire, isr, mouse, ghosts>>

KbdKeyKeepsPrefix ==
  /\ Taken("kbd")
  /\ ctl.full /\ ~Aux /\ ctl.byte.val # E0
  /\ DataRead
  /\ kbd' = Pushed(kbd, kbd.e0 \o <<ctl.byte>>)
  /\ lost' = Losing("kbd", RingFull(kbd))
  /\ pic' = Ended(Begun("kbd"), "kbd") /\ cpu' = Woken
  /\ UNCHANGED <<wire, isr, mouse, sent, got, polled>>

\* kbd_handler finds any other byte of the keyboard.
KbdKey ==
  /\ Taken("kbd")
  /\ ctl.full /\ ~Aux /\ ctl.byte.val # E0
  /\ DataRead
  /\ kbd' = Pushed([kbd EXCEPT !.e0 = <<>>], kbd.e0 \o <<ctl.byte>>)
  /\ lost' = Losing("kbd", RingFull(kbd))
  /\ pic' = Ended(Begun("kbd"), "kbd") /\ cpu' = Woken
  /\ UNCHANGED <<wire, isr, mouse, sent, got, polled>>

\* kbd_handler finds the buffer empty, or reads a byte of the mouse and drops it.
KbdForeign ==
  /\ Taken("kbd")
  /\ ctl.full => Aux
  /\ DataRead
  /\ lost' = Losing("mouse", ctl.full)
  /\ pic' = Ended(Begun("kbd"), "kbd") /\ cpu' = Woken
  /\ UNCHANGED <<wire, isr, kbd, mouse, sent, got, polled>>

MouseEnter ==
  /\ Taken("mouse")
  /\ isr' = "mouse" /\ pic' = Begun("mouse")
  /\ UNCHANGED <<wire, ctl, kbd, mouse, cpu, ghosts>>

\* ps2_mouse_handle_byte: a first byte must have bit 3 set and no overflow bit.
FirstByteOk(b) == (b.val \div 8) % 2 = 1 /\ b.val < 64

Refused(m, b) == m.packet = <<>> /\ ~FirstByteOk(b)

\* packet[packet_index++] = data: the array has four bytes.
PastTheEnd(m, b) == Len(m.packet) = 4 /\ ~Refused(m, b)
Stored(m, b) == IF Refused(m, b) THEN m ELSE [m EXCEPT !.packet = Append(@, b)]
Complete(m) == Len(m.packet) >= m.size
Read(m) == SubSeq(m.packet, 1, m.size)

NextPacket(i) == (i + 1) % MouseSlots

\* The slots an update has still to read.
Unread ==
  IF cpu.pc \in {"x", "y", "buttons"}
  THEN {i \in 0 .. MouseSlots - 1 :
          (i - cpu.from) % MouseSlots < (cpu.upto - cpu.from) % MouseSlots}
  ELSE {}

\* q_push: a full queue gives up its oldest packet.
Queue(m, p) ==
  [m EXCEPT !.r = IF NextPacket(m.w) = @ THEN NextPacket(@) ELSE @,
            !.q[m.w] = p, !.w = NextPacket(@),
            !.overrun = @ \/ m.w \in Unread]

Assembled(m, b) ==
  LET s == Stored(m, b) IN
    IF Refused(m, b) \/ ~Complete(s) THEN s
    ELSE Queue([s EXCEPT !.packet = <<>>], Read(s))

\* One turn of the loop of mouse_handler: a byte of the keyboard is read and dropped.
MouseByte ==
  /\ isr = "mouse" /\ ctl.full
  /\ DataRead
  /\ IF Aux /\ PastTheEnd(mouse, ctl.byte)
     THEN cpu' = [cpu EXCEPT !.pc = "undefined"] /\ UNCHANGED mouse
     ELSE UNCHANGED cpu /\ mouse' = IF Aux THEN Assembled(mouse, ctl.byte) ELSE mouse
  /\ lost' = IF Aux THEN Losing("mouse", Refused(mouse, ctl.byte)) ELSE lost \cup {"kbd"}
  /\ UNCHANGED <<wire, pic, isr, kbd, sent, got, polled>>

MouseLeave ==
  /\ isr = "mouse" /\ ~ctl.full
  /\ isr' = "none" /\ pic' = Ended(pic, "mouse") /\ cpu' = Woken
  /\ UNCHANGED <<wire, ctl, kbd, mouse, ghosts>>

-----------------------------------------------------------------------------
(* The start-up: kbd_init and ps2_mouse_init, with interrupts off. *)

Goto(label) == cpu' = [cpu EXCEPT !.pc = label]
At(label) == isr = "none" /\ cpu.pc = label

\* What ps2_mouse_init asks the controller ("config") and the mouse: defaults, the
\* three sample rates that turn the wheel on, the identity, reporting.
Script == <<"config", "defaults", "rate", "200", "rate", "100", "rate", "80", "id", "report">>
Asked == Script[cpu.step]
Answers == IF Asked = "id" THEN 2 ELSE 1

\* The mouse after a command, and what it answers.
Wheel(w) == w.mouse = "wheel" /\ SubSeq(w.rates, 1, 3) = <<"200", "100", "80">>
Commanded(w) ==
  CASE Asked = "defaults" -> [w EXCEPT !.rates = <<>>, !.wheel = FALSE]
    [] Asked \in {"200", "100", "80"} -> [w EXCEPT !.rates = Append(@, Asked)]
    [] Asked = "id" -> [w EXCEPT !.wheel = Wheel(w)]
    [] Asked = "report" -> [w EXCEPT !.reporting = TRUE]
    [] OTHER -> w

Answered(w) ==
  CASE Asked = "config" -> <<Byte("ctl", 71, 0)>>
    [] Asked # "config" /\ w.mouse = "none" -> <<>>
    [] Asked = "id" /\ w.mouse # "none" -> <<Byte("mouse", ACK, 0), Byte("mouse", IF Wheel(w) THEN 3 ELSE 0, 0)>>
    [] OTHER -> <<Byte("mouse", ACK, 0)>>

\* kbd_init and ps2_mouse_init read away what the devices sent before.
InitDrain ==
  /\ At("drain") /\ ctl.full
  /\ DataRead
  /\ lost' = lost \cup {ctl.byte.src}
  /\ UNCHANGED <<wire, pic, isr, kbd, mouse, cpu, sent, got, polled>>

InitDrained ==
  /\ At("drain") /\ ~ctl.full
  /\ Goto("ask")
  /\ UNCHANGED <<wire, ctl, pic, isr, kbd, mouse, ghosts>>

InitAsk ==
  /\ At("ask")
  /\ LET w == IF wire.mouse = "none" THEN wire ELSE Commanded(wire) IN
       wire' = [w EXCEPT !.moves = @ \o Answered(wire)]
  /\ cpu' = [cpu EXCEPT !.pc = "answer", !.left = Answers]
  /\ UNCHANGED <<ctl, pic, isr, kbd, mouse, ghosts>>

SizeAfterAck(v) == IF Asked = "id" /\ cpu.left = 2 THEN IF v = 3 THEN 4 ELSE 3 ELSE mouse.size

\* The answer is read, or, when none comes in time, what the port last held.  The last
\* answer to "id" gives the length of a packet.
SizeAfter(v) == IF Asked = "id" /\ cpu.left = 1 THEN IF v = 3 THEN 4 ELSE 3 ELSE mouse.size

InitAnswer ==
  /\ At("answer")
  /\ ctl.full \/ wire.moves = <<>>
  /\ DataRead
  /\ mouse' = [mouse EXCEPT !.size = SizeAfter(ctl.byte.val)]
  /\ cpu' = IF ctl.full /\ ctl.byte.src = "kbd" THEN [cpu EXCEPT !.pc = "undefined"]
            ELSE IF cpu.left > 1 THEN [cpu EXCEPT !.left = @ - 1]
            ELSE IF cpu.step < Len(Script) THEN [cpu EXCEPT !.pc = "ask", !.step = @ + 1]
            ELSE [cpu EXCEPT !.pc = "flush"]
  /\ UNCHANGED <<wire, pic, isr, kbd, ghosts>>

\* What has come since is read away, be it the first bytes of a packet; then packet_index
\* is cleared and kernel_main switches interrupts on.
InitFlush ==
  /\ At("flush") /\ ctl.full
  /\ DataRead
  /\ lost' = lost \cup {ctl.byte.src}
  /\ UNCHANGED <<wire, pic, isr, kbd, mouse, cpu, sent, got, polled>>

InitDone ==
  /\ At("flush") /\ ~ctl.full
  /\ mouse' = [mouse EXCEPT !.packet = <<>>]
  /\ Goto("pop")
  /\ UNCHANGED <<wire, ctl, pic, isr, kbd, ghosts>>

-----------------------------------------------------------------------------
(* The main loop, and programs that read or poll the keyboard. *)

\* kbd_pop_event finds the ring empty: the main loop goes on to hlt, a program's
\* kbd_get_char returns.
PopNothing ==
  /\ At("pop") /\ kbd.head = kbd.tail
  /\ Goto(IF cpu.program THEN "run" ELSE "idle")
  /\ UNCHANGED <<wire, ctl, pic, isr, kbd, mouse, ghosts>>

\* kbd_pop_event reads the oldest slot.
PopLook ==
  /\ At("pop") /\ kbd.head # kbd.tail
  /\ cpu' = [cpu EXCEPT !.pc = "advance", !.ev = kbd.ring[kbd.tail]]
  /\ UNCHANGED <<wire, ctl, pic, isr, kbd, mouse, ghosts>>

\* It gives the slot up, and swallows the event or returns it.  The shell may run a
\* program for the event; in one, kbd_get_char goes on after an E0 event and after a
\* release.
PopAdvance ==
  /\ At("advance")
  /\ kbd' = Popped(kbd, cpu.ev)
  /\ LET back == Returned(kbd, cpu.ev) IN
       /\ got' = Append(got, [ev |-> cpu.ev, returned |-> back, table |-> Table(kbd)])
       /\ \/ Goto("pop") /\ (cpu.program => ~back \/ NoChar(cpu.ev))
          \/ /\ back
             /\ cpu.program => ~NoChar(cpu.ev)
             /\ cpu' = [cpu EXCEPT !.pc = "run", !.program = TRUE]
  /\ UNCHANGED <<wire, ctl, pic, isr, mouse, sent, lost, polled>>

Halt ==
  /\ At("idle") /\ Goto("halted")
  /\ UNCHANGED <<wire, ctl, pic, isr, kbd, mouse, ghosts>>

\* The timer interrupt ends hlt (a thousand times a second).
Timer ==
  /\ At("halted") /\ Goto("pop")
  /\ UNCHANGED <<wire, ctl, pic, isr, kbd, mouse, ghosts>>

\* The program returns to the main loop.
EndProgram ==
  /\ At("run")
  /\ cpu' = [cpu EXCEPT !.pc = "pop", !.program = FALSE]
  /\ UNCHANGED <<wire, ctl, pic, isr, kbd, mouse, ghosts>>

\* kernel_get_key: kbd_poll reads the status port ...
PollStatus ==
  /\ At("run") /\ MayPoll
  /\ Goto(IF ctl.full /\ ~Aux THEN "data" ELSE "pop")
  /\ UNCHANGED <<wire, ctl, pic, isr, kbd, mouse, ghosts>>

\* ... the data port, which holds its last byte when nothing new has come ...
PollData ==
  /\ At("data")
  /\ DataRead
  /\ cpu' = [cpu EXCEPT !.pc = "join", !.ev = <<ctl.byte>>]
  /\ polled' = TRUE
  /\ UNCHANGED <<wire, pic, isr, kbd, mouse, sent, got, lost>>

\* ... remembers a first byte, or joins the byte to the one remembered ...
PollJoin ==
  /\ At("join")
  /\ IF Scancode(cpu.ev) = E0
     THEN kbd' = [kbd EXCEPT !.e0 = cpu.ev] /\ Goto("pop")
     ELSE /\ kbd' = [kbd EXCEPT !.e0 = <<>>]
          /\ cpu' = [cpu EXCEPT !.pc = "slot", !.ev = kbd.e0 \o @]
  /\ UNCHANGED <<wire, ctl, pic, isr, mouse, ghosts>>

\* ... and kbd_push16 looks for a free slot ...
PollSlot ==
  /\ At("slot")
  /\ lost' = Losing("kbd", RingFull(kbd))
  /\ cpu' = [cpu EXCEPT !.pc = IF RingFull(kbd) THEN "pop" ELSE "store", !.head = kbd.head]
  /\ UNCHANGED <<wire, ctl, pic, isr, kbd, mouse, sent, got, polled>>

\* ... stores the event ...
PollStore ==
  /\ At("store")
  /\ kbd' = [kbd EXCEPT !.ring[cpu.head] = cpu.ev]
  /\ Goto("publish")
  /\ UNCHANGED <<wire, ctl, pic, isr, mouse, ghosts>>

\* ... and moves the head it read past it.
PollPublish ==
  /\ At("publish")
  /\ kbd' = [kbd EXCEPT !.head = NextSlot(cpu.head)]
  /\ Goto("pop")
  /\ UNCHANGED <<wire, ctl, pic, isr, mouse, ghosts>>

-----------------------------------------------------------------------------
(* kernel_get_de_mouse and its like: ps2_mouse_poll, then ps2_mouse_update. *)

\* The loop reads the status ...
MousePoll ==
  /\ At("mouse") \/ (At("run") /\ (ctl.full => MayPoll))
  /\ Goto(IF ctl.full THEN "source" ELSE "update")
  /\ UNCHANGED <<wire, ctl, pic, isr, kbd, mouse, ghosts>>

\* ... again, for the device the byte came from ...
MouseSource ==
  /\ At("source")
  /\ cpu' = [cpu EXCEPT !.pc = "fetch", !.aux = Aux]
  /\ UNCHANGED <<wire, ctl, pic, isr, kbd, mouse, ghosts>>

\* ... and the data, which it drops unless it was to be the mouse's ...
MouseFetch ==
  /\ At("fetch")
  /\ DataRead
  /\ cpu' = [cpu EXCEPT !.pc = IF cpu.aux THEN "handle" ELSE "mouse", !.ev = <<ctl.byte>>]
  /\ polled' = TRUE
  /\ UNCHANGED <<wire, pic, isr, kbd, mouse, sent, got, lost>>

\* ... ps2_mouse_handle_byte stores it ...
MouseStore ==
  /\ At("handle")
  /\ LET b == Head(cpu.ev) IN
       IF PastTheEnd(mouse, b) THEN Goto("undefined") /\ UNCHANGED mouse
       ELSE /\ mouse' = Stored(mouse, b)
            /\ Goto(IF Refused(mouse, b) THEN "mouse" ELSE "complete")
  /\ UNCHANGED <<wire, ctl, pic, isr, kbd, ghosts>>

\* ... and reads the packet when it is complete ...
MouseComplete ==
  /\ At("complete")
  /\ IF Complete(mouse)
     THEN /\ mouse' = [mouse EXCEPT !.packet = <<>>]
          /\ cpu' = [cpu EXCEPT !.pc = "queue", !.ev = Read(mouse)]
     ELSE UNCHANGED mouse /\ Goto("mouse")
  /\ UNCHANGED <<wire, ctl, pic, isr, kbd, ghosts>>

MouseQueue ==
  /\ At("queue")
  /\ mouse' = Queue(mouse, cpu.ev)
  /\ Goto("mouse")
  /\ UNCHANGED <<wire, ctl, pic, isr, kbd, ghosts>>

\* ps2_mouse_update, ps2_mouse_pop within it: the slot of the oldest packet ...
UpdateLook ==
  /\ At("update")
  /\ cpu' = [cpu EXCEPT !.pc = "bound", !.from = mouse.r]
  /\ UNCHANGED <<wire, ctl, pic, isr, kbd, mouse, ghosts>>

\* ... and the one behind the newest ...
UpdateBound ==
  /\ At("bound")
  /\ cpu' = [cpu EXCEPT !.pc = IF cpu.from = mouse.w THEN "run" ELSE "x", !.upto = mouse.w]
  /\ UNCHANGED <<wire, ctl, pic, isr, kbd, mouse, ghosts>>

\* ... and of each packet in between the movement to the side ...
UpdateX ==
  /\ At("x")
  /\ cpu' = [cpu EXCEPT !.pc = "y", !.ev = <<mouse.q[cpu.from][2]>>]
  /\ UNCHANGED <<wire, ctl, pic, isr, kbd, mouse, ghosts>>

\* ... and the one up or down are added up ...
UpdateY ==
  /\ At("y")
  /\ mouse' = [mouse EXCEPT !.applied =
                 Append(@, [x |-> Head(cpu.ev), y |-> mouse.q[cpu.from][3]])]
  /\ cpu' = IF NextPacket(cpu.from) = cpu.upto THEN [cpu EXCEPT !.pc = "buttons"]
            ELSE [cpu EXCEPT !.pc = "x", !.from = NextPacket(@)]
  /\ UNCHANGED <<wire, ctl, pic, isr, kbd, ghosts>>

\* ... the buttons are those of the last ...
UpdateButtons ==
  /\ At("buttons")
  /\ mouse' = [mouse EXCEPT !.buttons = Head(mouse.q[cpu.from])]
  /\ Goto("give")
  /\ UNCHANGED <<wire, ctl, pic, isr, kbd, ghosts>>

\* ... and all slots read are given up.
UpdateGive ==
  /\ At("give")
  /\ mouse' = [mouse EXCEPT !.r = cpu.upto]
  /\ Goto("run")
  /\ UNCHANGED <<wire, ctl, pic, isr, kbd, ghosts>>

-----------------------------------------------------------------------------
NoEvent == <<NoByte>>
NoPacket == <<NoByte, NoByte, NoByte>>

Init ==
  /\ wire \in [keys : {<<>>}, held : {{}}, moves : {<<>>}, packets : {0},
               mouse : Mice, rates : {<<>>}, wheel : {FALSE}, reporting : {FALSE}]
  /\ ctl = [full |-> FALSE, byte |-> NoByte]
  /\ pic = [pending |-> {}, service |-> {}]
  /\ isr = "none"
  /\ kbd = [ring |-> [i \in 0 .. RingSize - 1 |-> NoEvent], head |-> 0, tail |-> 0,
            e0 |-> <<>>, shift |-> FALSE, altgr |-> FALSE, down |-> {}]
  /\ mouse = [packet |-> <<>>, size |-> 3, q |-> [i \in 0 .. MouseSlots - 1 |-> NoPacket],
              r |-> 0, w |-> 0, applied |-> <<>>, buttons |-> NoByte, overrun |-> FALSE]
  /\ cpu = [pc |-> "drain", program |-> FALSE, ev |-> NoEvent, head |-> 0, aux |-> FALSE,
            from |-> 0, upto |-> 0, step |-> 1, left |-> 0]
  /\ sent = <<>> /\ got = <<>> /\ lost = {} /\ polled = FALSE

User == \E k \in Keys : Press(k) \/ Release(k)
MouseMoves == \E head \in {8, 72} : Move(head)
KbdInterrupt == KbdPrefix \/ KbdKey \/ KbdForeign
MouseInterrupt == MouseEnter \/ MouseByte \/ MouseLeave
StartUp == InitDrain \/ InitDrained \/ InitAsk \/ InitAnswer \/ InitFlush \/ InitDone
Undefined == cpu.pc = "undefined" /\ UNCHANGED vars
MainLoop == PopNothing \/ PopLook \/ PopAdvance \/ Halt
Update == UpdateLook \/ UpdateBound \/ UpdateX \/ UpdateY \/ UpdateButtons \/ UpdateGive
Program ==
  \/ EndProgram
  \/ PollStatus \/ PollData \/ PollJoin \/ PollSlot \/ PollStore \/ PollPublish
  \/ MousePoll \/ MouseSource \/ MouseFetch \/ MouseStore \/ MouseComplete \/ MouseQueue
  \/ Update

Next ==
  \/ User \/ MouseMoves \/ Load
  \/ KbdInterrupt \/ MouseInterrupt \/ Timer
  \/ StartUp \/ MainLoop \/ Program \/ Undefined

\* The hardware delivers bytes, interrupts and ticks, and the processor goes on.
Spec ==
  /\ Init /\ [][Next]_vars
  /\ WF_vars(Load) /\ WF_vars(KbdInterrupt) /\ WF_vars(MouseInterrupt)
  /\ WF_vars(StartUp \/ MainLoop \/ Program) /\ WF_vars(Timer)

-----------------------------------------------------------------------------
(* Properties. *)

Events == [i \in 1 .. Len(got) |-> got[i].ev] \o Queued
SomeKeyWaits == wire.keys # <<>> \/ ctl.full \/ kbd.head # kbd.tail

\* The modifiers the events before the i-th left behind.
Held(i, c) ==
  \E j \in 1 .. i - 1 : /\ Scancode(got[j].ev) = Code[c] /\ IsE0(got[j].ev) = (c = "AltGr")
                        /\ \A k \in j + 1 .. i - 1 : Scancode(got[k].ev) = Code[c] + 128
                             => IsE0(got[k].ev) # (c = "AltGr")

\* While no program polls a port, the events popped come in the order of the strokes, none
\* twice; and unless one of the keyboard's bytes or events was dropped (by mouse_handler, by
\* the start-up, or at a full ring) the events are the strokes, none left out, and each is
\* looked up with the modifiers the strokes before it left held.  The handler and the loop
\* share the ring without a lock (kbd_push16, kbd_pop_event).
KeysInOrder ==
  ~polled =>
    /\ \A i, j \in 1 .. Len(Events) : i < j => Events[i][1].n < Events[j][1].n
    /\ "kbd" \notin lost =>
         /\ \A i \in 1 .. Len(Events) : Events[i] = sent[Events[i][1].n]
         /\ IsPrefix(Events, sent)
         /\ \A i \in 1 .. Len(got) : got[i].returned =>
              got[i].table = (IF Held(i, "AltGr") THEN "altgr"
                              ELSE IF Held(i, "Shift") THEN "shift" ELSE "normal")

\* Whatever is lost or mixed up on the way, two presses of a code are returned only with
\* a release of it in between ("duplicate make engelleme", keyboard.c:36).
NoDoubleMake ==
  \A i, j \in 1 .. Len(got) :
     /\ i < j /\ got[i].returned /\ got[j].returned
     /\ Scancode(got[i].ev) = Scancode(got[j].ev) /\ Scancode(got[i].ev) < 128
     => \E b \in i + 1 .. j - 1 :
          got[b].returned /\ Scancode(got[b].ev) = Scancode(got[i].ev) + 128

\* The packets of the queue from the slot i on, oldest first.
PacketsFrom(i) == [j \in 1 .. (mouse.w - i) % MouseSlots |-> mouse.q[(i + j - 1) % MouseSlots]]
Packets == PacketsFrom(mouse.r)

\* The first slot whose packet is still to be applied: an update gives all up at its end.
FirstLeft == CASE cpu.pc \in {"x", "y"} -> cpu.from
               [] cpu.pc \in {"buttons", "give"} -> cpu.upto
               [] OTHER -> mouse.r

\* The packets applied, then those left, by their numbers.
PacketNumbers == [i \in 1 .. Len(mouse.applied) |-> mouse.applied[i].x.n]
                   \o [i \in 1 .. Len(PacketsFrom(FirstLeft)) |-> PacketsFrom(FirstLeft)[i][1].n]

Rising(s) == \A i, j \in 1 .. Len(s) : i < j => s[i] < s[j]

\* While no program polls a port, no byte of the mouse becomes a key and none of the
\* keyboard a movement, though both come through one port and either handler may find the
\* other's byte there; and unless one of its bytes was dropped, each packet in the queue
\* is a whole one, in the form start-up agreed with the mouse.  An update reads the queue
\* word by word while the handler goes on writing, a full queue included: unless the
\* handler comes round to a slot that an update has still to read, both words of a
\* movement are of one packet, the buttons are those of the last, and no packet is taken
\* twice or before an earlier one.
BytesGoToTheirDevice ==
  ~polled =>
    /\ \A e \in Range(Events) : \A b \in Range(e) : b.src = "kbd"
    /\ \A p \in Range(Packets) \cup {mouse.packet} : \A b \in Range(p) : b.src = "mouse"
    /\ \A m \in Range(mouse.applied) : m.x.src = "mouse" /\ m.y.src = "mouse"
    /\ "mouse" \notin lost =>
         /\ \A p \in Range(Packets) : p = Packet(wire, 8, p[1].n)
         /\ Rising([i \in 1 .. Len(Packets) |-> Packets[i][1].n])
         /\ ~mouse.overrun =>
              /\ Rising(PacketNumbers)
              /\ \A m \in Range(mouse.applied) : m.x.n = m.y.n
              /\ cpu.pc = "give" => mouse.buttons.n = Last(mouse.applied).x.n

\* Every byte that arrives is taken, and the main loop pops all events, in spite of the
\* gap between finding the ring empty and hlt (kmain.c:215-221): no interrupt is left
\* without its end-of-interrupt, and the timer ends every hlt.  A program that never
\* returns is excepted, and so is what is not modelled.
KeysAreHandled == []<>(~cpu.program /\ cpu.pc # "undefined") => (SomeKeyWaits ~> ~SomeKeyWaits)

=============================================================================
