----------------------------- MODULE UserProofs -----------------------------
(***************************************************************************)
(* What the user works with, for any constants: the keyboard and the mouse *)
(* (Input), and the screen (Console).  The two share no variable; each     *)
(* part below proves its own theorems.                                     *)
(***************************************************************************)
EXTENDS Input, Console, SequenceTheorems, WellFoundedInduction, TLAPS

-----------------------------------------------------------------------------
(***************************************************************************)
(* Keyboard and mouse: the module Input.                                   *)
(***************************************************************************)

-----------------------------------------------------------------------------
(* Types.                                                                  *)

KeyNames == {"A", "Shift", "Up", "Pad8", "AltGr"}
Vals  == 0 .. 255
Bytes == [src : {"kbd", "mouse", "ctl"}, val : Vals, n : Nat]
Event == Seq(Bytes) \ {<<>>}
RingSlots == 0 .. RingSize - 1
Popping == [ev : Event, returned : BOOLEAN, table : {"altgr", "shift", "normal"}]

WireState == [keys : Seq(Bytes), held : SUBSET KeyNames, moves : Seq(Bytes), packets : Nat,
              mouse : Mice, rates : Seq({"200", "100", "80"}), wheel : BOOLEAN, reporting : BOOLEAN]
CtlState == [full : BOOLEAN, byte : Bytes]
KbdState == [ring : [RingSlots -> Event], head : RingSlots, tail : RingSlots, e0 : Seq(Bytes),
             shift : BOOLEAN, altgr : BOOLEAN, down : SUBSET Int]
Packed == {e \in Seq(Bytes) : Len(e) \in {3, 4}}
QueueSlots == 0 .. MouseSlots - 1
Movement == [x : Bytes, y : Bytes]
MouseState == [packet : Seq(Bytes), size : {3, 4}, q : [QueueSlots -> Packed], r : QueueSlots, w : QueueSlots,
               applied : Seq(Movement), buttons : Bytes, overrun : BOOLEAN]
Labels == {"drain", "ask", "answer", "flush", "undefined", "pop", "advance", "idle", "halted", "run",
           "data", "join", "slot", "store", "publish", "mouse", "source", "fetch", "handle", "complete",
           "queue", "update", "bound", "x", "y", "buttons", "give"}
CpuState == [pc : Labels, program : BOOLEAN, ev : Event, head : RingSlots, aux : BOOLEAN,
             from : QueueSlots, upto : QueueSlots, step : 1 .. 10, left : 0 .. 2]

InputTypes ==
  /\ wire \in WireState /\ ctl \in CtlState /\ isr \in {"none", "mouse"}
  /\ kbd \in KbdState /\ mouse \in MouseState /\ cpu \in CpuState
  /\ sent \in Seq(Event) /\ got \in Seq(Popping) /\ polled \in BOOLEAN
  /\ cpu.pc = "queue" => cpu.ev \in Packed

\* Who changes what.
LEMMA KbdChanges ==
  Next => \/ KbdPrefix \/ KbdKey \/ PopAdvance \/ PollJoin \/ PollStore \/ PollPublish
          \/ kbd' = kbd
  <1>1. User \/ MouseMoves => kbd' = kbd
    BY Zenon DEF User, MouseMoves, Press, Release, Send, Move
  <1>2. Load \/ Timer => kbd' = kbd
    BY Zenon DEF Load, Timer
  <1>3. KbdInterrupt \/ MouseInterrupt => KbdPrefix \/ KbdKey \/ kbd' = kbd
    BY Zenon DEF KbdInterrupt, KbdForeign, MouseInterrupt, MouseEnter, MouseByte, MouseLeave
  <1>4. StartUp => kbd' = kbd
    BY Zenon DEF StartUp, InitDrain, InitDrained, InitAsk, InitAnswer, InitFlush, InitDone
  <1>5. MainLoop => PopAdvance \/ kbd' = kbd
    BY Zenon DEF MainLoop, PopNothing, PopLook, Halt
  <1>6. Program => PollJoin \/ PollStore \/ PollPublish \/ kbd' = kbd
    BY Zenon DEF Program, EndProgram, PollStatus, PollData, PollSlot, MousePoll, MouseSource, MouseFetch, MouseStore,
                 MouseComplete, MouseQueue, Update, UpdateLook, UpdateBound, UpdateX, UpdateY, UpdateButtons,
                 UpdateGive
  <1>7. Undefined => kbd' = kbd
    BY Zenon DEF Undefined, vars
  <1> QED  BY <1>1, <1>2, <1>3, <1>4, <1>5, <1>6, <1>7, Zenon DEF Next

LEMMA WireChanges ==
  Next => \/ \E k \in KeyNames, up \in BOOLEAN : Send(k, up)
          \/ \E head \in {8, 72} : Move(head)
          \/ Load \/ InitAsk
          \/ wire' = wire
  <1>1. ASSUME User PROVE \E k \in KeyNames, up \in BOOLEAN : Send(k, up)
    <2>1. PICK k \in Keys : Press(k) \/ Release(k)
      BY <1>1, Zenon DEF User
    <2>2. k \in KeyNames /\ FALSE \in BOOLEAN /\ TRUE \in BOOLEAN
      BY KeysAssumption DEF KeyNames
    <2> QED  BY <2>1, <2>2, Zenon DEF Press, Release
  <1>2. ASSUME MouseMoves PROVE \E head \in {8, 72} : Move(head)
    BY <1>2, Zenon DEF MouseMoves
  <1>3. KbdInterrupt \/ MouseInterrupt \/ Timer => wire' = wire
    BY Zenon DEF KbdInterrupt, KbdPrefix, KbdKey, KbdForeign, MouseInterrupt, MouseEnter, MouseByte, MouseLeave, Timer
  <1>4. StartUp => InitAsk \/ wire' = wire
    BY Zenon DEF StartUp, InitDrain, InitDrained, InitAnswer, InitFlush, InitDone
  <1>5. MainLoop => wire' = wire
    BY Zenon DEF MainLoop, PopNothing, PopLook, PopAdvance, Halt
  <1>6. Program => wire' = wire
    BY Zenon DEF Program, EndProgram, PollStatus, PollData, PollJoin, PollSlot, PollStore, PollPublish,
                 MousePoll, MouseSource, MouseFetch, MouseStore, MouseComplete, MouseQueue, Update, UpdateLook, UpdateBound, UpdateX, UpdateY, UpdateButtons,
                 UpdateGive
  <1>7. Undefined => wire' = wire
    BY Zenon DEF Undefined, vars
  <1> QED  BY <1>1, <1>2, <1>3, <1>4, <1>5, <1>6, <1>7, Zenon DEF Next

LEMMA CtlChanges ==
  Next => Load \/ ctl' = [ctl EXCEPT !.full = FALSE] \/ ctl' = ctl
  <1>1. User \/ MouseMoves => ctl' = ctl
    BY Zenon DEF User, MouseMoves, Press, Release, Send, Move
  <1>2. KbdInterrupt \/ MouseInterrupt \/ Timer => ctl' = [ctl EXCEPT !.full = FALSE] \/ ctl' = ctl
    BY Zenon DEF KbdInterrupt, KbdPrefix, KbdKey, KbdForeign, MouseInterrupt, MouseEnter, MouseByte, MouseLeave, Timer,
                 DataRead
  <1>3. StartUp => ctl' = [ctl EXCEPT !.full = FALSE] \/ ctl' = ctl
    BY Zenon DEF StartUp, InitDrain, InitDrained, InitAsk, InitAnswer, InitFlush, InitDone, DataRead
  <1>4. MainLoop => ctl' = ctl
    BY Zenon DEF MainLoop, PopNothing, PopLook, PopAdvance, Halt
  <1>5. Program => ctl' = [ctl EXCEPT !.full = FALSE] \/ ctl' = ctl
    BY Zenon DEF Program, EndProgram, PollStatus, PollData, PollJoin, PollSlot, PollStore, PollPublish,
                 MousePoll, MouseSource, MouseFetch, MouseStore, MouseComplete, MouseQueue, Update, UpdateLook, UpdateBound, UpdateX, UpdateY, UpdateButtons,
                 UpdateGive, DataRead
  <1>6. Undefined => ctl' = ctl
    BY Zenon DEF Undefined, vars
  <1> QED  BY <1>1, <1>2, <1>3, <1>4, <1>5, <1>6, Zenon DEF Next

LEMMA MouseChanges ==
  Next => \/ MouseByte \/ InitAnswer \/ InitDone \/ MouseStore \/ MouseComplete \/ MouseQueue
          \/ UpdateY \/ UpdateButtons \/ UpdateGive
          \/ mouse' = mouse
  <1>1. User \/ MouseMoves \/ Load \/ Timer => mouse' = mouse
    BY Zenon DEF User, MouseMoves, Press, Release, Send, Move, Load, Timer
  <1>2. KbdInterrupt \/ MouseInterrupt => MouseByte \/ mouse' = mouse
    BY Zenon DEF KbdInterrupt, KbdPrefix, KbdKey, KbdForeign, MouseInterrupt, MouseEnter, MouseLeave
  <1>3. StartUp => InitAnswer \/ InitDone \/ mouse' = mouse
    BY Zenon DEF StartUp, InitDrain, InitDrained, InitAsk, InitFlush
  <1>4. MainLoop => mouse' = mouse
    BY Zenon DEF MainLoop, PopNothing, PopLook, PopAdvance, Halt
  <1>5. Program => MouseStore \/ MouseComplete \/ MouseQueue \/ UpdateY \/ UpdateButtons \/ UpdateGive
                      \/ mouse' = mouse
    BY Zenon DEF Program, EndProgram, PollStatus, PollData, PollJoin, PollSlot, PollStore, PollPublish,
                 MousePoll, MouseSource, MouseFetch, Update, UpdateLook, UpdateBound, UpdateX
  <1>6. Undefined => mouse' = mouse
    BY Zenon DEF Undefined, vars
  <1> QED  BY <1>1, <1>2, <1>3, <1>4, <1>5, <1>6, Zenon DEF Next

LEMMA GotChanges == Next => PopAdvance \/ got' = got
  <1>1. User \/ MouseMoves \/ Load \/ Timer => got' = got
    BY Zenon DEF User, MouseMoves, Press, Release, Send, Move, Load, Timer, ghosts
  <1>2. KbdInterrupt \/ MouseInterrupt => got' = got
    BY Zenon DEF KbdInterrupt, KbdPrefix, KbdKey, KbdForeign, MouseInterrupt, MouseEnter, MouseByte, MouseLeave, ghosts
  <1>3. StartUp => got' = got
    BY Zenon DEF StartUp, InitDrain, InitDrained, InitAsk, InitAnswer, InitFlush, InitDone, ghosts
  <1>4. MainLoop => PopAdvance \/ got' = got
    BY Zenon DEF MainLoop, PopNothing, PopLook, Halt, ghosts
  <1>5. Program => got' = got
    BY Zenon DEF Program, EndProgram, PollStatus, PollData, PollJoin, PollSlot, PollStore, PollPublish,
                 MousePoll, MouseSource, MouseFetch, MouseStore, MouseComplete, MouseQueue, Update, UpdateLook, UpdateBound, UpdateX, UpdateY, UpdateButtons,
                 UpdateGive, ghosts
  <1>6. Undefined => got' = got
    BY Zenon DEF Undefined, vars
  <1> QED  BY <1>1, <1>2, <1>3, <1>4, <1>5, <1>6, Zenon DEF Next

LEMMA SentChanges == Next => (\E k \in KeyNames, up \in BOOLEAN : Send(k, up)) \/ sent' = sent
  <1>1. ASSUME User PROVE \E k \in KeyNames, up \in BOOLEAN : Send(k, up)
    <2>1. PICK k \in Keys : Press(k) \/ Release(k)
      BY <1>1, Zenon DEF User
    <2>2. k \in KeyNames /\ FALSE \in BOOLEAN /\ TRUE \in BOOLEAN
      BY KeysAssumption DEF KeyNames
    <2> QED  BY <2>1, <2>2, Zenon DEF Press, Release
  <1>2. MouseMoves \/ Load \/ Timer => sent' = sent
    BY Zenon DEF MouseMoves, Move, Load, Timer, ghosts
  <1>3. KbdInterrupt \/ MouseInterrupt => sent' = sent
    BY Zenon DEF KbdInterrupt, KbdPrefix, KbdKey, KbdForeign, MouseInterrupt, MouseEnter, MouseByte, MouseLeave, ghosts
  <1>4. StartUp => sent' = sent
    BY Zenon DEF StartUp, InitDrain, InitDrained, InitAsk, InitAnswer, InitFlush, InitDone, ghosts
  <1>5. MainLoop => sent' = sent
    BY Zenon DEF MainLoop, PopNothing, PopLook, PopAdvance, Halt, ghosts
  <1>6. Program => sent' = sent
    BY Zenon DEF Program, EndProgram, PollStatus, PollData, PollJoin, PollSlot, PollStore, PollPublish,
                 MousePoll, MouseSource, MouseFetch, MouseStore, MouseComplete, MouseQueue, Update, UpdateLook, UpdateBound, UpdateX, UpdateY, UpdateButtons,
                 UpdateGive, ghosts
  <1>7. Undefined => sent' = sent
    BY Zenon DEF Undefined, vars
  <1> QED  BY <1>1, <1>2, <1>3, <1>4, <1>5, <1>6, <1>7, Zenon DEF Next

LEMMA BytesAre ==
  /\ \A b \in Bytes : b.src \in {"kbd", "mouse", "ctl"} /\ b.val \in Vals /\ b.n \in Nat
  /\ \A src \in {"kbd", "mouse", "ctl"}, val \in Vals, n \in Nat : Byte(src, val, n) \in Bytes
  /\ NoByte \in Bytes /\ NoEvent \in Event
  <1>1. \A b \in Bytes : b.src \in {"kbd", "mouse", "ctl"} /\ b.val \in Vals /\ b.n \in Nat
    BY Zenon DEF Bytes
  <1>2. \A src \in {"kbd", "mouse", "ctl"}, val \in Vals, n \in Nat : Byte(src, val, n) \in Bytes
    BY Zenon DEF Bytes, Byte
  <1>3. 0 \in Vals /\ 0 \in Nat
    BY DEF Vals
  <1>4. NoByte \in Bytes
    BY <1>2, <1>3 DEF NoByte
  <1> HIDE DEF NoByte
  <1>5. NoEvent \in Event
    BY <1>4 DEF NoEvent, Event
  <1> QED  BY <1>1, <1>2, <1>4, <1>5

LEMMA ValsAre == \A v \in Vals : v \in Int /\ v >= 0 /\ v < 256
  BY DEF Vals

LEMMA EventsAre ==
  /\ \A ev \in Event : Last(ev) \in Bytes /\ Scancode(ev) \in Vals /\ ev[1] \in Bytes /\ Len(ev) \in Nat /\ Len(ev) > 0
  /\ \A e \in Seq(Bytes), b \in Bytes : e \o <<b>> \in Event
  <1>1. \A ev \in Event : Last(ev) \in Bytes /\ ev[1] \in Bytes /\ Len(ev) \in Nat /\ Len(ev) > 0
    BY DEF Event, Last
  <1>2. \A ev \in Event : Scancode(ev) \in Vals
    BY <1>1, BytesAre, Zenon DEF Scancode
  <1>3. \A e \in Seq(Bytes), b \in Bytes : e \o <<b>> \in Event
    BY DEF Event
  <1> QED  BY <1>1, <1>2, <1>3

\* The codes of the keys, and the bytes of a stroke.
LEMMA CodesAre ==
  /\ \A k \in KeyNames : Code[k] \in {30, 42, 56, 72}
  /\ Code["AltGr"] = 56 /\ Code["Shift"] = 42
  BY DEF KeyNames, Code

LEMMA JoinedBytes ==
  ASSUME NEW a \in Bytes, NEW b \in Bytes
  PROVE  /\ <<>> \o <<b>> = <<b>> /\ <<a>> \o <<b>> = <<a, b>>
         /\ \A c \in Bytes : <<a, b, c>> \o <<c>> = <<a, b, c, c>> /\ <<a, b, c>> \o <<>> = <<a, b, c>>
  <1>1. <<>> \o <<b>> = <<b>>
    OBVIOUS
  <1>2. <<a>> \o <<b>> = <<a, b>>
    <2> DEFINE x == <<a>> \o <<b>>
               y == <<a, b>>
    <2>1. x \in Seq(Bytes) /\ Len(x) = 2 /\ x[1] = a /\ x[2] = b
      OBVIOUS
    <2>2. y \in Seq(Bytes) /\ Len(y) = 2 /\ y[1] = a /\ y[2] = b
      OBVIOUS
    <2> HIDE DEF x, y
    <2>3. \A i \in 1 .. 2 : x[i] = y[i]
      BY <2>1, <2>2
    <2> QED  BY <2>1, <2>2, <2>3, SeqEqual DEF x, y
  <1>3. ASSUME NEW c \in Bytes
        PROVE  <<a, b, c>> \o <<c>> = <<a, b, c, c>> /\ <<a, b, c>> \o <<>> = <<a, b, c>>
    <2> DEFINE x == <<a, b, c>> \o <<c>>
               y == <<a, b, c, c>>
    <2>1. x \in Seq(Bytes) /\ Len(x) = 4 /\ x[1] = a /\ x[2] = b /\ x[3] = c /\ x[4] = c
      OBVIOUS
    <2>2. y \in Seq(Bytes) /\ Len(y) = 4 /\ y[1] = a /\ y[2] = b /\ y[3] = c /\ y[4] = c
      OBVIOUS
    <2>3. <<a, b, c>> \o <<>> = <<a, b, c>>
      <3>1. <<a, b, c>> \in Seq(Bytes)
        OBVIOUS
      <3> QED  BY <3>1, ConcatEmptySeq
    <2> HIDE DEF x, y
    <2>4. \A i \in 1 .. 4 : x[i] = y[i]
      BY <2>1, <2>2
    <2> QED  BY <2>1, <2>2, <2>3, <2>4, SeqEqual DEF x, y
  <1> QED  BY <1>1, <1>2, <1>3

LEMMA StrokeIs ==
  ASSUME NEW k \in KeyNames, NEW up \in BOOLEAN, NEW n \in Nat
  PROVE  /\ Stroke(k, up, n) \in Event
         /\ \E b \in Bytes : /\ b.src = "kbd" /\ b.n = n /\ b.val # E0
                             /\ Stroke(k, up, n) \in {<<b>>, <<Byte("kbd", E0, n), b>>}
  <1> DEFINE v == IF up THEN Code[k] + 128 ELSE Code[k]
             b == Byte("kbd", v, n)
             a == Byte("kbd", E0, n)
  <1>1. v \in Vals /\ v # E0 /\ E0 \in Vals
    BY CodesAre DEF Vals, E0
  <1>2. b \in Bytes /\ a \in Bytes
    BY <1>1, BytesAre, Zenon
  <1>3. b.src = "kbd" /\ b.n = n /\ b.val # E0
    BY <1>1, Zenon DEF Byte
  <1>4. Stroke(k, up, n) = (IF k \in Extended THEN <<a>> ELSE <<>>) \o <<b>>
    BY Zenon DEF Stroke
  <1> HIDE DEF a, b, v
  <1>5. Stroke(k, up, n) \in {<<b>>, <<a, b>>}
    <2>1. <<>> \o <<b>> = <<b>> /\ <<a>> \o <<b>> = <<a, b>>
      BY <1>2, JoinedBytes
    <2>2. Stroke(k, up, n) = <<>> \o <<b>> \/ Stroke(k, up, n) = <<a>> \o <<b>>
      BY <1>4
    <2> QED  BY <2>1, <2>2
  <1>6. <<b>> \in Event /\ <<a, b>> \in Event
    BY <1>2 DEF Event
  <1> QED  BY <1>2, <1>3, <1>5, <1>6, Zenon DEF a

LEMMA PacketIs ==
  ASSUME NEW w, NEW head \in {8, 72}, NEW n \in Nat
  PROVE  /\ Packet(w, head, n) \in Seq(Bytes)
         /\ Packet(w, head, n) =
              IF w.wheel THEN <<Byte("mouse", head, n), Byte("mouse", 8, n), Byte("mouse", 0, n), Byte("mouse", 0, n)>>
              ELSE <<Byte("mouse", head, n), Byte("mouse", 8, n), Byte("mouse", 0, n)>>
  <1>1. head \in Vals /\ 8 \in Vals /\ 0 \in Vals
    BY DEF Vals
  <1>2. PICK a \in Bytes, b \in Bytes, c \in Bytes :
          a = Byte("mouse", head, n) /\ b = Byte("mouse", 8, n) /\ c = Byte("mouse", 0, n)
    BY <1>1, BytesAre, Zenon
  <1>3. Packet(w, head, n) = <<a, b, c>> \o IF w.wheel THEN <<c>> ELSE <<>>
    BY <1>2 DEF Packet
  <1>4. <<a, b, c>> \o <<c>> = <<a, b, c, c>> /\ <<a, b, c>> \o <<>> = <<a, b, c>>
    BY JoinedBytes
  <1>5. Packet(w, head, n) = IF w.wheel THEN <<a, b, c, c>> ELSE <<a, b, c>>
    BY <1>3, <1>4, Zenon
  <1>6. <<a, b, c, c>> \in Seq(Bytes) /\ <<a, b, c>> \in Seq(Bytes)
    BY <1>2
  <1> QED  BY <1>2, <1>5, <1>6, Zenon

LEMMA AnsweredIs ==
  /\ Answered(wire) \in Seq(Bytes)
  /\ \A i \in 1 .. Len(Answered(wire)) : Answered(wire)[i].src \in {"mouse", "ctl"}
  /\ Asked # "config" => \A i \in 1 .. Len(Answered(wire)) : Answered(wire)[i].src = "mouse"
  <1>1. 71 \in Vals /\ 0 \in Vals /\ 3 \in Vals /\ ACK \in Vals /\ 0 \in Nat
    BY DEF Vals, ACK
  <1>2. PICK a \in Bytes, b \in Bytes, c \in Bytes :
          /\ a = Byte("ctl", 71, 0) /\ b = Byte("mouse", ACK, 0)
          /\ c = Byte("mouse", IF Wheel(wire) THEN 3 ELSE 0, 0)
    BY <1>1, BytesAre, Zenon
  <1>3. a.src = "ctl" /\ b.src = "mouse" /\ c.src = "mouse"
    BY <1>2 DEF Byte
  <1>4. \/ Answered(wire) = <<a>> /\ Asked = "config"
        \/ Answered(wire) = <<>> \/ Answered(wire) = <<b, c>> \/ Answered(wire) = <<b>>
    BY <1>2, <1>3 DEF Answered
  <1>5. CASE Answered(wire) = <<a>> /\ Asked = "config"
    BY <1>2, <1>3, <1>5
  <1>6. CASE Answered(wire) = <<>>
    BY <1>6
  <1>7. CASE Answered(wire) = <<b, c>>
    <2>1. Answered(wire) \in Seq(Bytes) /\ \A i \in 1 .. Len(Answered(wire)) : i = 1 \/ i = 2
      BY <1>2, <1>7
    <2>2. Answered(wire)[1] = b /\ Answered(wire)[2] = c
      BY <1>7
    <2> QED  BY <1>3, <2>1, <2>2
  <1>8. CASE Answered(wire) = <<b>>
    BY <1>2, <1>3, <1>8
  <1> QED  BY <1>4, <1>5, <1>6, <1>7, <1>8

LEMMA SlotsAre ==
  /\ RingSize \in Nat /\ RingSize > 1
  /\ \A i \in RingSlots : NextSlot(i) \in RingSlots /\ NextSlot(i) = (IF i = RingSize - 1 THEN 0 ELSE i + 1)
  <1>1. RingSize \in Nat /\ RingSize > 1
    BY RingAssumption
  <1>2. ASSUME NEW i \in RingSlots
        PROVE  NextSlot(i) \in RingSlots /\ NextSlot(i) = (IF i = RingSize - 1 THEN 0 ELSE i + 1)
    BY <1>1 DEF RingSlots, NextSlot
  <1> QED  BY <1>1, <1>2

LEMMA PushedTyped ==
  ASSUME NEW k \in KbdState, NEW ev \in Event
  PROVE  Pushed(k, ev) \in KbdState
  <1>1. CASE NextSlot(k.head) = k.tail
    BY <1>1 DEF Pushed
  <1>2. CASE NextSlot(k.head) # k.tail
    <2>1. k.head \in RingSlots /\ k.ring \in [RingSlots -> Event]
      BY Zenon DEF KbdState
    <2>2. NextSlot(k.head) \in RingSlots
      BY <2>1, SlotsAre
    <2>3. PICK r \in [RingSlots -> Event] : r = [k.ring EXCEPT ![k.head] = ev]
      BY <2>1
    <2>4. Pushed(k, ev) = [k EXCEPT !.ring = r, !.head = NextSlot(k.head)]
      BY <1>2, <2>3, Zenon DEF Pushed
    <2> QED  BY <2>2, <2>4, Zenon DEF KbdState
  <1> QED  BY <1>1, <1>2

LEMMA StoredTyped ==
  ASSUME NEW m \in MouseState, NEW b \in Bytes
  PROVE  /\ Stored(m, b) \in MouseState
         /\ Refused(m, b) => Stored(m, b) = m
         /\ ~Refused(m, b) => /\ Stored(m, b).packet = Append(m.packet, b) /\ Stored(m, b).size = m.size
                              /\ Stored(m, b).q = m.q /\ Stored(m, b).applied = m.applied
                              /\ Stored(m, b).r = m.r /\ Stored(m, b).w = m.w
                              /\ Stored(m, b).buttons = m.buttons /\ Stored(m, b).overrun = m.overrun
  <1>1. m.packet \in Seq(Bytes)
    BY Zenon DEF MouseState
  <1>2. Append(m.packet, b) \in Seq(Bytes)
    BY <1>1
  <1> QED  BY <1>2, Zenon DEF Stored, MouseState

LEMMA PlacesAre ==
  /\ MouseSlots \in Nat /\ MouseSlots > 1 /\ 0 \in QueueSlots
  /\ \A i \in QueueSlots : NextPacket(i) \in QueueSlots /\ NextPacket(i) = (IF i = MouseSlots - 1 THEN 0 ELSE i + 1)
  <1>1. MouseSlots \in Nat /\ MouseSlots > 1 /\ 0 \in QueueSlots
    BY RingAssumption DEF QueueSlots
  <1>2. ASSUME NEW i \in QueueSlots
        PROVE  NextPacket(i) \in QueueSlots /\ NextPacket(i) = (IF i = MouseSlots - 1 THEN 0 ELSE i + 1)
    BY <1>1 DEF QueueSlots, NextPacket
  <1> QED  BY <1>1, <1>2

LEMMA PackedAre ==
  ASSUME NEW e \in Packed
  PROVE  e \in Event /\ e[1] \in Bytes /\ e[2] \in Bytes /\ e[3] \in Bytes /\ Head(e) = e[1]
  <1>1. e \in Seq(Bytes) /\ (Len(e) = 3 \/ Len(e) = 4)
    BY DEF Packed
  <1> QED  BY <1>1 DEF Event

\* n is m with the packet p in the queue.
Put(m, n, p) ==
  /\ n.q = [m.q EXCEPT ![m.w] = p] /\ n.w = NextPacket(m.w)
  /\ n.r = IF NextPacket(m.w) = m.r THEN NextPacket(m.r) ELSE m.r
  /\ n.overrun <=> m.overrun \/ m.w \in Unread
  /\ n.applied = m.applied /\ n.buttons = m.buttons /\ n.size = m.size

LEMMA QueueTyped ==
  ASSUME NEW m \in MouseState, NEW p \in Packed
  PROVE  Queue(m, p) \in MouseState /\ Put(m, Queue(m, p), p) /\ Queue(m, p).packet = m.packet
  <1> DEFINE r == IF NextPacket(m.w) = m.r THEN NextPacket(m.r) ELSE m.r
             w == NextPacket(m.w)
             o == m.overrun \/ m.w \in Unread
  <1>1. m.q \in [QueueSlots -> Packed] /\ m.w \in QueueSlots /\ m.r \in QueueSlots /\ m.overrun \in BOOLEAN
    BY Zenon DEF MouseState
  <1>2. r \in QueueSlots /\ w \in QueueSlots
    BY <1>1, PlacesAre, Zenon
  <1>3. PICK q \in [QueueSlots -> Packed] : q = [m.q EXCEPT ![m.w] = p]
    BY <1>1
  <1>4. Queue(m, p) = [m EXCEPT !.r = r, !.q = q, !.w = w, !.overrun = o]
    BY <1>3, Zenon DEF Queue
  <1>5. o \in BOOLEAN
    BY <1>1
  <1> HIDE DEF r, w, o
  <1>6. /\ Queue(m, p) \in MouseState /\ Queue(m, p).q = q /\ Queue(m, p).w = w /\ Queue(m, p).r = r
        /\ Queue(m, p).overrun = o /\ Queue(m, p).applied = m.applied /\ Queue(m, p).buttons = m.buttons
        /\ Queue(m, p).size = m.size /\ Queue(m, p).packet = m.packet
    BY <1>2, <1>4, <1>5, Zenon DEF MouseState
  <1> QED  BY <1>3, <1>6, Zenon DEF Put, r, w, o

LEMMA ReadTyped ==
  ASSUME NEW m \in MouseState, Complete(m)
  PROVE  /\ Read(m) \in Packed /\ Len(Read(m)) = m.size
         /\ \A i \in 1 .. m.size : Read(m)[i] = m.packet[i] /\ i \in 1 .. Len(m.packet)
  <1>1. m.packet \in Seq(Bytes) /\ m.size \in {3, 4}
    BY Zenon DEF MouseState
  <1>2. Len(m.packet) >= m.size
    BY DEF Complete
  <1> QED  BY <1>1, <1>2 DEF Read, Packed

LEMMA AssembledTyped ==
  ASSUME NEW m \in MouseState, NEW b \in Bytes
  PROVE  /\ Assembled(m, b) \in MouseState
         /\ \/ Refused(m, b) /\ Assembled(m, b) = m
            \/ ~Refused(m, b) /\ ~Complete(Stored(m, b)) /\ Assembled(m, b) = Stored(m, b)
            \/ /\ ~Refused(m, b) /\ Complete(Stored(m, b))
               /\ Assembled(m, b).packet = <<>> /\ Assembled(m, b).size = m.size
               /\ Put(m, Assembled(m, b), Read(Stored(m, b))) /\ Read(Stored(m, b)) \in Packed
  <1> DEFINE s == Stored(m, b)
  <1>1. s \in MouseState
    BY StoredTyped
  <1>2. CASE Refused(m, b)
    <2>1. Assembled(m, b) = m
      BY <1>2, StoredTyped, Zenon DEF Assembled
    <2> QED  BY <1>2, <2>1
  <1>3. CASE ~Refused(m, b) /\ ~Complete(s)
    <2>1. Assembled(m, b) = s
      BY <1>3, Zenon DEF Assembled
    <2> QED  BY <1>1, <1>3, <2>1, Zenon
  <1>4. CASE ~Refused(m, b) /\ Complete(s)
    <2> DEFINE e == [s EXCEPT !.packet = <<>>]
               p == Read(s)
    <2>1. Assembled(m, b) = Queue(e, p)
      BY <1>4, Zenon DEF Assembled
    <2>2. <<>> \in Seq(Bytes)
      OBVIOUS
    <2>3. /\ s.q = m.q /\ s.size = m.size /\ s.applied = m.applied
          /\ s.r = m.r /\ s.w = m.w /\ s.buttons = m.buttons /\ s.overrun = m.overrun
      BY <1>1, <1>4, StoredTyped, Zenon DEF MouseState
    <2>4. p \in Packed
      BY <1>1, <1>4, ReadTyped
    <2>5. /\ e \in MouseState /\ e.packet = <<>> /\ e.q = s.q /\ e.size = s.size /\ e.applied = s.applied
          /\ e.r = s.r /\ e.w = s.w /\ e.buttons = s.buttons /\ e.overrun = s.overrun
      <3> HIDE DEF s
      <3> QED  BY <1>1, <2>2, Zenon DEF MouseState
    <2> HIDE DEF e, p, s
    <2>6. Queue(e, p) \in MouseState /\ Put(e, Queue(e, p), p) /\ Queue(e, p).packet = e.packet
      BY <2>4, <2>5, QueueTyped
    <2>7. Put(m, Queue(e, p), p)
      <3>1. e.q = m.q /\ e.w = m.w /\ e.r = m.r /\ e.size = m.size /\ e.applied = m.applied /\ e.buttons = m.buttons
        BY <2>3, <2>5, Zenon
      <3>2. e.overrun = m.overrun
        BY <2>3, <2>5, Zenon
      <3>3. [e.q EXCEPT ![e.w] = p] = [m.q EXCEPT ![m.w] = p]
        BY <3>1, Zenon
      <3>4. NextPacket(e.w) = NextPacket(m.w) /\ NextPacket(e.r) = NextPacket(m.r)
        BY <3>1, Zenon
      <3> QED  BY <2>6, <3>1, <3>2, <3>3, <3>4 DEF Put
    <2>8. Put(m, Assembled(m, b), p) /\ Assembled(m, b) \in MouseState /\ Assembled(m, b).packet = <<>>
      BY <2>1, <2>5, <2>6, <2>7
    <2>9. Assembled(m, b).size = m.size
      BY <2>8, Zenon DEF Put
    <2> QED  BY <1>4, <2>4, <2>8, <2>9, Zenon DEF s, p
  <1> QED  BY <1>2, <1>3, <1>4

LEMMA KbdTyped ==
  ASSUME InputTypes, Next
  PROVE  kbd' \in KbdState
  <1>1. kbd \in KbdState /\ ctl.byte \in Bytes /\ cpu.ev \in Event /\ cpu.head \in RingSlots
    BY Zenon DEF InputTypes, CtlState, CpuState
  <1>2. CASE KbdPrefix
    <2>1. <<ctl.byte>> \in Seq(Bytes)
      BY <1>1
    <2> QED  BY <1>1, <1>2, <2>1, Zenon DEF KbdPrefix, KbdState
  <1>3. CASE KbdKey
    <2>1. kbd' = Pushed([kbd EXCEPT !.e0 = <<>>], kbd.e0 \o <<ctl.byte>>)
      BY <1>3, Zenon DEF KbdKey
    <2>0. <<>> \in Seq(Bytes)
      OBVIOUS
    <2>2. kbd.e0 \in Seq(Bytes) /\ <<>> \in Seq(Bytes)
      BY <1>1, <2>0, Zenon DEF KbdState
    <2>3. [kbd EXCEPT !.e0 = <<>>] \in KbdState
      BY <1>1, <2>2, Zenon DEF KbdState
    <2>4. kbd.e0 \o <<ctl.byte>> \in Event
      BY <1>1, <2>2, EventsAre
    <2> QED  BY <2>1, <2>3, <2>4, PushedTyped, Zenon
  <1>4. CASE PopAdvance
    <2>1. kbd' = Popped(kbd, cpu.ev)
      BY <1>4, Zenon DEF PopAdvance
    <2>2. NextSlot(kbd.tail) \in RingSlots
      BY <1>1, SlotsAre, Zenon DEF KbdState
    <2> DEFINE t == [kbd EXCEPT !.tail = NextSlot(@)]
    <2>3. t \in KbdState
      BY <1>1, <2>2, Zenon DEF KbdState
    <2>4. CASE IsModifier(cpu.ev)
      <3>1. kbd' = Modifiers(t, cpu.ev)
        BY <2>1, <2>4, Zenon DEF Popped
      <3>2. PICK v \in BOOLEAN : kbd' = [t EXCEPT !.altgr = v] \/ kbd' = [t EXCEPT !.shift = v] \/ kbd' = t
        <4>1. (Scancode(cpu.ev) < 128) \in BOOLEAN
          OBVIOUS
        <4> HIDE DEF t
        <4> QED  BY <3>1, <4>1, Zenon DEF Modifiers
      <3> HIDE DEF t
      <3> QED  BY <2>3, <3>2, Zenon DEF KbdState
    <2>5. CASE ~IsModifier(cpu.ev)
      <3> DEFINE d == IF Scancode(cpu.ev) < 128 THEN t.down \cup {Scancode(cpu.ev)}
                      ELSE t.down \ {Scancode(cpu.ev) - 128}
      <3>1. kbd' = [t EXCEPT !.down = d]
        BY <2>1, <2>5, Zenon DEF Popped
      <3>2. Scancode(cpu.ev) \in Int
        BY <1>1, EventsAre, ValsAre, Zenon
      <3>3. t.down \in SUBSET Int
        BY <2>3, Zenon DEF KbdState
      <3> HIDE DEF t
      <3>4. d \in SUBSET Int
        BY <3>2, <3>3
      <3> HIDE DEF d
      <3> QED  BY <2>3, <3>1, <3>4, Zenon DEF KbdState
    <2> QED  BY <2>4, <2>5
  <1>5. CASE PollJoin
    <2>1. <<>> \in Seq(Bytes) /\ cpu.ev \in Seq(Bytes)
      BY <1>1 DEF Event
    <2>2. kbd' = [kbd EXCEPT !.e0 = cpu.ev] \/ kbd' = [kbd EXCEPT !.e0 = <<>>]
      BY <1>5, Zenon DEF PollJoin
    <2> QED  BY <1>1, <2>1, <2>2, Zenon DEF KbdState
  <1>6. CASE PollStore
    <2>1. kbd.ring \in [RingSlots -> Event]
      BY <1>1, Zenon DEF KbdState
    <2>2. PICK r \in [RingSlots -> Event] : r = [kbd.ring EXCEPT ![cpu.head] = cpu.ev]
      BY <1>1, <2>1
    <2>3. kbd' = [kbd EXCEPT !.ring = r]
      BY <1>6, <2>2, Zenon DEF PollStore
    <2> QED  BY <1>1, <2>3, Zenon DEF KbdState
  <1>7. CASE PollPublish
    <2>1. NextSlot(cpu.head) \in RingSlots
      BY <1>1, SlotsAre
    <2> QED  BY <1>1, <1>7, <2>1, Zenon DEF PollPublish, KbdState
  <1>8. CASE kbd' = kbd
    BY <1>1, <1>8
  <1> QED  BY <1>2, <1>3, <1>4, <1>5, <1>6, <1>7, <1>8, KbdChanges

LEMMA WireTyped ==
  ASSUME InputTypes, Next
  PROVE  wire' \in WireState
  <1>1. wire \in WireState /\ sent \in Seq(Event) /\ Len(sent) + 1 \in Nat
    <2>1. wire \in WireState /\ sent \in Seq(Event)
      BY Zenon DEF InputTypes
    <2> QED  BY <2>1
  <1>2. wire.keys \in Seq(Bytes) /\ wire.moves \in Seq(Bytes) /\ wire.held \in SUBSET KeyNames /\ wire.packets \in Nat
    BY <1>1, Zenon DEF WireState
  <1>3. ASSUME NEW k \in KeyNames, NEW up \in BOOLEAN, Send(k, up) PROVE wire' \in WireState
    <2> DEFINE s == Stroke(k, up, Len(sent) + 1)
               h == IF up THEN wire.held \ {k} ELSE wire.held \cup {k}
    <2>1. s \in Event
      BY <1>1, StrokeIs, Zenon
    <2>2. wire' = [wire EXCEPT !.keys = @ \o s, !.held = h]
      BY <1>3, Zenon DEF Send
    <2>3. h \in SUBSET KeyNames
      BY <1>2
    <2> HIDE DEF s, h
    <2>4. wire.keys \o s \in Seq(Bytes)
      BY <1>2, <2>1 DEF Event
    <2> QED  BY <1>1, <2>2, <2>3, <2>4, Zenon DEF WireState
  <1>4. ASSUME NEW head \in {8, 72}, Move(head) PROVE wire' \in WireState
    <2> DEFINE n == wire.packets + 1
               p == Packet(wire, head, n)
    <2>1. wire' = [wire EXCEPT !.packets = n, !.moves = @ \o p]
      BY <1>4, Zenon DEF Move
    <2>2. n \in Nat
      BY <1>2
    <2>3. p \in Seq(Bytes)
      BY <2>2, PacketIs, Zenon
    <2> HIDE DEF n, p
    <2>4. wire.moves \o p \in Seq(Bytes)
      BY <1>2, <2>3
    <2> QED  BY <1>1, <2>1, <2>2, <2>4, Zenon DEF WireState
  <1>5. CASE Load
    <2>1. (wire.keys # <<>> /\ wire' = [wire EXCEPT !.keys = Tail(@)]) \/ (wire.moves # <<>> /\ wire' = [wire EXCEPT !.moves = Tail(@)])
      BY <1>5, Zenon DEF Load
    <2>2. wire.keys # <<>> => Tail(wire.keys) \in Seq(Bytes)
      BY <1>2
    <2>3. wire.moves # <<>> => Tail(wire.moves) \in Seq(Bytes)
      BY <1>2
    <2> QED  BY <1>1, <2>1, <2>2, <2>3, Zenon DEF WireState
  <1>6. CASE InitAsk
    <2> DEFINE w == IF wire.mouse = "none" THEN wire ELSE Commanded(wire)
    <2>1. wire' = [w EXCEPT !.moves = @ \o Answered(wire)]
      BY <1>6, Zenon DEF InitAsk
    <2>2. Commanded(wire) \in WireState
      <3>1. wire.rates \in Seq({"200", "100", "80"})
        BY <1>1, Zenon DEF WireState
      <3>2. <<>> \in Seq({"200", "100", "80"}) /\ TRUE \in BOOLEAN /\ FALSE \in BOOLEAN /\ Wheel(wire) \in BOOLEAN
        BY DEF Wheel
      <3>3. Asked \in {"200", "100", "80"} => Append(wire.rates, Asked) \in Seq({"200", "100", "80"})
        BY <3>1
      <3> QED  BY <1>1, <3>2, <3>3, Zenon DEF Commanded, WireState
    <2>3. w \in WireState
      BY <1>1, <2>2
    <2>4. Answered(wire) \in Seq(Bytes)
      BY AnsweredIs
    <2> HIDE DEF w
    <2>5. w.moves \o Answered(wire) \in Seq(Bytes)
      <3>1. w.moves \in Seq(Bytes)
        BY <2>3, Zenon DEF WireState
      <3> QED  BY <2>4, <3>1
    <2> QED  BY <2>1, <2>3, <2>5, Zenon DEF WireState
  <1> QED  BY <1>1, <1>3, <1>4, <1>5, <1>6, WireChanges, Zenon

LEMMA MouseTyped ==
  ASSUME InputTypes, Next
  PROVE  mouse' \in MouseState
  <1>1. mouse \in MouseState /\ ctl.byte \in Bytes /\ cpu \in CpuState /\ cpu.ev \in Event
        /\ cpu.from \in QueueSlots /\ cpu.upto \in QueueSlots /\ (cpu.pc = "queue" => cpu.ev \in Packed)
    BY Zenon DEF InputTypes, CtlState, CpuState
  <1>2. /\ mouse.packet \in Seq(Bytes) /\ mouse.size \in {3, 4} /\ mouse.q \in [QueueSlots -> Packed]
        /\ mouse.applied \in Seq(Movement)
    BY <1>1, Zenon DEF MouseState
  <1>3. <<>> \in Seq(Bytes)
    OBVIOUS
  <1>4. CASE MouseByte
    <2>1. mouse' = mouse \/ mouse' = Assembled(mouse, ctl.byte)
      BY <1>4, Zenon DEF MouseByte
    <2> QED  BY <1>1, <2>1, AssembledTyped
  <1>5. CASE InitAnswer
    <2>1. mouse' = [mouse EXCEPT !.size = SizeAfter(ctl.byte.val)]
      BY <1>5, Zenon DEF InitAnswer
    <2>2. SizeAfter(ctl.byte.val) \in {3, 4}
      BY <1>2 DEF SizeAfter
    <2> QED  BY <1>1, <2>1, <2>2, Zenon DEF MouseState
  <1>6. CASE InitDone \/ MouseComplete
    <2>1. mouse' = mouse \/ mouse' = [mouse EXCEPT !.packet = <<>>]
      BY <1>6, Zenon DEF InitDone, MouseComplete
    <2> QED  BY <1>1, <1>3, <2>1, Zenon DEF MouseState
  <1>7. CASE MouseStore
    <2>1. Head(cpu.ev) \in Bytes
      BY <1>1 DEF Event
    <2>2. mouse' = mouse \/ mouse' = Stored(mouse, Head(cpu.ev))
      BY <1>7, Zenon DEF MouseStore
    <2> QED  BY <1>1, <2>1, <2>2, StoredTyped
  <1>8. CASE MouseQueue
    <2>1. mouse' = Queue(mouse, cpu.ev) /\ cpu.pc = "queue"
      BY <1>8, Zenon DEF MouseQueue, At
    <2> QED  BY <1>1, <2>1, QueueTyped
  <1>9. CASE UpdateY
    <2> DEFINE a == [x |-> Head(cpu.ev), y |-> mouse.q[cpu.from][3]]
    <2>1. mouse' = [mouse EXCEPT !.applied = Append(@, a)]
      BY <1>9, Zenon DEF UpdateY
    <2>2. a \in Movement
      <3>1. mouse.q[cpu.from] \in Packed
        BY <1>1, <1>2
      <3>2. mouse.q[cpu.from][3] \in Bytes
        BY <3>1, PackedAre, Zenon
      <3>3. Head(cpu.ev) \in Bytes
        BY <1>1 DEF Event
      <3> QED  BY <3>2, <3>3, Zenon DEF Movement
    <2> HIDE DEF a
    <2>3. Append(mouse.applied, a) \in Seq(Movement)
      BY <1>2, <2>2
    <2> QED  BY <1>1, <2>1, <2>3, Zenon DEF MouseState
  <1>10. CASE UpdateButtons
    <2>1. mouse' = [mouse EXCEPT !.buttons = Head(mouse.q[cpu.from])]
      BY <1>10, Zenon DEF UpdateButtons
    <2>2. mouse.q[cpu.from] \in Packed
      BY <1>1, <1>2
    <2>3. Head(mouse.q[cpu.from]) \in Bytes
      BY <2>2, PackedAre, Zenon
    <2> QED  BY <1>1, <2>1, <2>3, Zenon DEF MouseState
  <1>11. CASE UpdateGive
    BY <1>1, <1>11, Zenon DEF UpdateGive, MouseState
  <1> QED  BY <1>1, <1>4, <1>5, <1>6, <1>7, <1>8, <1>9, <1>10, <1>11, MouseChanges, Zenon

\* Where kernel_main is after a step.
LEMMA CpuTo ==
  ASSUME NEW c \in CpuState, NEW l \in Labels
  PROVE  /\ [c EXCEPT !.pc = l] \in CpuState /\ [c EXCEPT !.pc = l].pc = l
         /\ \A ev \in Event : [c EXCEPT !.pc = l, !.ev = ev] \in CpuState
         /\ \A p \in BOOLEAN : [c EXCEPT !.pc = l, !.program = p] \in CpuState
         /\ \A h \in RingSlots : [c EXCEPT !.pc = l, !.head = h] \in CpuState
         /\ \A a \in BOOLEAN : [c EXCEPT !.pc = l, !.aux = a] \in CpuState
         /\ \A n \in 0 .. 2 : [c EXCEPT !.pc = l, !.left = n] \in CpuState
         /\ \A n \in 0 .. 2 : [c EXCEPT !.left = n] \in CpuState
         /\ \A n \in 1 .. 10 : [c EXCEPT !.pc = l, !.step = n] \in CpuState
         /\ \A i \in QueueSlots : [c EXCEPT !.pc = l, !.from = i] \in CpuState
         /\ \A i \in QueueSlots : [c EXCEPT !.pc = l, !.upto = i] \in CpuState
  BY Zenon DEF CpuState

LEMMA CpuTyped ==
  ASSUME InputTypes, Next
  PROVE  cpu' \in CpuState
  <1>1. /\ cpu \in CpuState /\ kbd \in KbdState /\ mouse \in MouseState
        /\ ctl.byte \in Bytes /\ cpu.ev \in Event /\ kbd.head \in RingSlots
        /\ mouse.q \in [QueueSlots -> Packed] /\ mouse.r \in QueueSlots /\ mouse.w \in QueueSlots
        /\ cpu.from \in QueueSlots
    BY Zenon DEF InputTypes, CtlState, CpuState, KbdState, MouseState
  <1>2. <<ctl.byte>> \in Event
    BY <1>1 DEF Event
  <1>3. User \/ MouseMoves \/ Load => cpu' = cpu
    BY Zenon DEF User, MouseMoves, Press, Release, Send, Move, Load
  <1>4. "pop" \in Labels /\ "undefined" \in Labels /\ "ask" \in Labels /\ "answer" \in Labels /\ "flush" \in Labels
    BY SMTT(30) DEF Labels
  <1>5. CASE KbdInterrupt \/ MouseInterrupt \/ Timer
    <2>1. \/ cpu' = cpu \/ cpu' = [cpu EXCEPT !.pc = "pop"] \/ cpu' = [cpu EXCEPT !.pc = "undefined"]
      BY <1>5, Zenon DEF KbdInterrupt, KbdPrefix, KbdKey, KbdForeign, MouseInterrupt, MouseEnter, MouseByte, MouseLeave,
                         Timer, Woken, Goto
    <2> QED  BY <1>1, <1>4, <2>1, CpuTo, ZenonT(40)
  <1>6. CASE StartUp
    <2>1. \/ cpu' = cpu
          \/ \E l \in {"ask", "pop", "undefined", "flush"} : cpu' = [cpu EXCEPT !.pc = l]
          \/ cpu' = [cpu EXCEPT !.pc = "answer", !.left = Answers]
          \/ cpu.left > 1 /\ cpu' = [cpu EXCEPT !.left = @ - 1]
          \/ cpu.step < Len(Script) /\ cpu' = [cpu EXCEPT !.pc = "ask", !.step = @ + 1]
      BY <1>6, Zenon DEF StartUp, InitDrain, InitDrained, InitAsk, InitAnswer, InitFlush, InitDone, Goto
    <2>2. Answers \in 0 .. 2 /\ Len(Script) = 10
      BY DEF Answers, Script
    <2>3. cpu.left \in 0 .. 2 /\ cpu.step \in 1 .. 10
      BY <1>1, Zenon DEF CpuState
    <2>4. cpu.left > 1 => cpu.left - 1 \in 0 .. 2
      BY <2>3
    <2>5. cpu.step < Len(Script) => cpu.step + 1 \in 1 .. 10
      BY <2>2, <2>3
    <2>6. {"ask", "pop", "undefined", "flush"} \subseteq Labels
      BY DEF Labels
    <2>7. ASSUME NEW l \in {"ask", "pop", "undefined", "flush"}, cpu' = [cpu EXCEPT !.pc = l]
          PROVE  cpu' \in CpuState
      BY <1>1, <2>6, <2>7, CpuTo, Zenon
    <2>8. CASE cpu' = [cpu EXCEPT !.pc = "answer", !.left = Answers]
      BY <1>1, <1>4, <2>2, <2>8, CpuTo, Zenon
    <2>9. CASE cpu.left > 1 /\ cpu' = [cpu EXCEPT !.left = @ - 1]
      BY <1>1, <1>4, <2>4, <2>9, CpuTo, Zenon
    <2>10. CASE cpu.step < Len(Script) /\ cpu' = [cpu EXCEPT !.pc = "ask", !.step = @ + 1]
      BY <1>1, <1>4, <2>5, <2>10, CpuTo, Zenon
    <2> QED  BY <1>1, <2>1, <2>7, <2>8, <2>9, <2>10, Zenon
  <1>7. CASE MainLoop
    <2>1. \/ \E l \in {"run", "idle", "pop", "halted"} : cpu' = [cpu EXCEPT !.pc = l]
          \/ cpu' = [cpu EXCEPT !.pc = "advance", !.ev = kbd.ring[kbd.tail]]
          \/ cpu' = [cpu EXCEPT !.pc = "run", !.program = TRUE]
      BY <1>7, Zenon DEF MainLoop, PopNothing, PopLook, PopAdvance, Halt, Goto
    <2>2. kbd.ring[kbd.tail] \in Event
      <3>1. kbd.ring \in [RingSlots -> Event] /\ kbd.tail \in RingSlots
        BY <1>1, Zenon DEF KbdState
      <3> QED  BY <3>1
    <2>3. {"run", "idle", "pop", "halted", "advance"} \subseteq Labels /\ TRUE \in BOOLEAN
      BY DEF Labels
    <2>4. ASSUME NEW l \in {"run", "idle", "pop", "halted"}, cpu' = [cpu EXCEPT !.pc = l]
          PROVE  cpu' \in CpuState
      BY <1>1, <2>3, <2>4, CpuTo, Zenon
    <2>5. CASE cpu' = [cpu EXCEPT !.pc = "advance", !.ev = kbd.ring[kbd.tail]]
      BY <1>1, <2>2, <2>3, <2>5, CpuTo, Zenon
    <2>6. CASE cpu' = [cpu EXCEPT !.pc = "run", !.program = TRUE]
      BY <1>1, <2>3, <2>6, CpuTo, Zenon
    <2> QED  BY <2>1, <2>4, <2>5, <2>6, Zenon
  <1>9. {"pop", "data", "join", "slot", "store", "publish", "update", "source", "fetch", "handle", "mouse",
         "undefined", "complete", "queue", "run"} \subseteq Labels
    BY DEF Labels
  <1>10. Aux \in BOOLEAN /\ FALSE \in BOOLEAN
    BY DEF Aux
  <1>11. kbd.e0 \o cpu.ev \in Event
    <2>1. kbd.e0 \in Seq(Bytes)
      BY <1>1, Zenon DEF KbdState
    <2> QED  BY <1>1, <2>1 DEF Event
  <1>12. CASE EndProgram \/ PollStatus \/ PollData \/ PollSlot \/ PollStore \/ PollPublish
    <2>1. CASE EndProgram
      <3>1. cpu' = [cpu EXCEPT !.pc = "pop", !.program = FALSE]
        BY <2>1, Zenon DEF EndProgram
      <3> QED  BY <1>1, <1>9, <1>10, <3>1, CpuTo, Zenon
    <2>2. CASE PollStatus \/ PollStore \/ PollPublish
      <3>1. PICK l \in {"pop", "data", "publish"} : cpu' = [cpu EXCEPT !.pc = l]
        BY <2>2, Zenon DEF PollStatus, PollStore, PollPublish, Goto
      <3> QED  BY <1>1, <1>9, <3>1, CpuTo, Zenon
    <2>3. CASE PollData
      BY <1>1, <1>2, <1>9, <2>3, CpuTo, Zenon DEF PollData
    <2>4. CASE PollSlot
      <3>1. PICK l \in {"pop", "store"} : cpu' = [cpu EXCEPT !.pc = l, !.head = kbd.head]
        BY <2>4, Zenon DEF PollSlot
      <3> QED  BY <1>1, <1>9, <3>1, CpuTo, Zenon
    <2> QED  BY <1>12, <2>1, <2>2, <2>3, <2>4, Zenon
  <1>13. CASE PollJoin
    <2>1. cpu' = [cpu EXCEPT !.pc = "pop"] \/ cpu' = [cpu EXCEPT !.pc = "slot", !.ev = kbd.e0 \o cpu.ev]
      BY <1>13, Zenon DEF PollJoin, Goto
    <2>2. CASE cpu' = [cpu EXCEPT !.pc = "pop"]
      BY <1>1, <1>9, <2>2, CpuTo, Zenon
    <2>3. CASE cpu' = [cpu EXCEPT !.pc = "slot", !.ev = kbd.e0 \o cpu.ev]
      BY <1>1, <1>9, <1>11, <2>3, CpuTo, Zenon
    <2> QED  BY <2>1, <2>2, <2>3, Zenon
  <1>14. CASE MousePoll \/ MouseSource \/ MouseFetch \/ MouseStore \/ MouseQueue
    <2>1. CASE MousePoll \/ MouseStore \/ MouseQueue
      <3>1. PICK l \in {"source", "update", "undefined", "mouse", "complete"} : cpu' = [cpu EXCEPT !.pc = l]
        BY <2>1, Zenon DEF MousePoll, MouseStore, MouseQueue, Goto
      <3> QED  BY <1>1, <1>9, <3>1, CpuTo, Zenon
    <2>2. CASE MouseSource
      BY <1>1, <1>9, <1>10, <2>2, CpuTo, Zenon DEF MouseSource
    <2>3. CASE MouseFetch
      <3>1. PICK l \in {"handle", "mouse"} : cpu' = [cpu EXCEPT !.pc = l, !.ev = <<ctl.byte>>]
        BY <2>3, Zenon DEF MouseFetch
      <3> QED  BY <1>1, <1>2, <1>9, <3>1, CpuTo, Zenon
    <2> QED  BY <1>14, <2>1, <2>2, <2>3, Zenon
  <1>15. CASE MouseComplete
    <2>1. \/ Complete(mouse) /\ cpu' = [cpu EXCEPT !.pc = "queue", !.ev = Read(mouse)]
          \/ cpu' = [cpu EXCEPT !.pc = "mouse"]
      BY <1>15, Zenon DEF MouseComplete, Goto
    <2>2. CASE Complete(mouse) /\ cpu' = [cpu EXCEPT !.pc = "queue", !.ev = Read(mouse)]
      <3>1. Read(mouse) \in Event
        BY <1>1, <2>2, ReadTyped, PackedAre
      <3> QED  BY <1>1, <1>9, <2>2, <3>1, CpuTo, Zenon
    <2>3. CASE cpu' = [cpu EXCEPT !.pc = "mouse"]
      BY <1>1, <1>9, <2>3, CpuTo, Zenon
    <2> QED  BY <2>1, <2>2, <2>3, Zenon
  <1>16. CASE Update
    <2>1. {"bound", "run", "x", "y", "buttons", "give"} \subseteq Labels
      BY DEF Labels
    <2>2. CASE UpdateLook
      BY <1>1, <2>1, <2>2, CpuTo, Zenon DEF UpdateLook
    <2>3. CASE UpdateBound
      <3>1. PICK l \in {"run", "x"} : cpu' = [cpu EXCEPT !.pc = l, !.upto = mouse.w]
        BY <2>3, Zenon DEF UpdateBound
      <3> QED  BY <1>1, <2>1, <3>1, CpuTo, Zenon
    <2>4. CASE UpdateX
      <3> DEFINE e == <<mouse.q[cpu.from][2]>>
      <3>1. cpu' = [cpu EXCEPT !.pc = "y", !.ev = e]
        BY <2>4, Zenon DEF UpdateX
      <3>2. mouse.q[cpu.from] \in Packed
        BY <1>1
      <3>3. mouse.q[cpu.from][2] \in Bytes
        BY <3>2, PackedAre, Zenon
      <3>4. e \in Event
        BY <3>3 DEF Event
      <3> HIDE DEF e
      <3> QED  BY <1>1, <2>1, <3>1, <3>4, CpuTo, Zenon
    <2>5. CASE UpdateY
      <3>1. \/ cpu' = [cpu EXCEPT !.pc = "buttons"]
            \/ cpu' = [cpu EXCEPT !.pc = "x", !.from = NextPacket(@)]
        BY <2>5, Zenon DEF UpdateY
      <3>2. NextPacket(cpu.from) \in QueueSlots
        BY <1>1, PlacesAre, Zenon
      <3>3. CASE cpu' = [cpu EXCEPT !.pc = "buttons"]
        BY <1>1, <2>1, <3>3, CpuTo, Zenon
      <3>4. CASE cpu' = [cpu EXCEPT !.pc = "x", !.from = NextPacket(@)]
        BY <1>1, <2>1, <3>2, <3>4, CpuTo, Zenon
      <3> QED  BY <3>1, <3>3, <3>4
    <2>6. CASE UpdateButtons \/ UpdateGive
      <3>1. PICK l \in {"give", "run"} : cpu' = [cpu EXCEPT !.pc = l]
        BY <2>6, Zenon DEF UpdateButtons, UpdateGive, Goto
      <3> QED  BY <1>1, <2>1, <3>1, CpuTo, Zenon
    <2> QED  BY <1>16, <2>2, <2>3, <2>4, <2>5, <2>6, Zenon DEF Update
  <1>17. CASE Undefined
    BY <1>1, <1>17, Zenon DEF Undefined, vars
  <1> QED
    BY <1>1, <1>3, <1>5, <1>6, <1>7, <1>12, <1>13, <1>14, <1>15, <1>16, <1>17, Zenon DEF Next, Program

LEMMA CtlTyped ==
  ASSUME InputTypes, Next
  PROVE  ctl' \in CtlState
  <1>1. ctl \in CtlState /\ wire \in WireState
    BY Zenon DEF InputTypes
  <1>2. wire.keys \in Seq(Bytes) /\ wire.moves \in Seq(Bytes)
    BY <1>1, Zenon DEF WireState
  <1>3. CASE Load
    <2>1. PICK s \in {wire.keys, wire.moves} : s # <<>> /\ ctl' = [full |-> TRUE, byte |-> Head(s)]
      BY <1>3, Zenon DEF Load
    <2>2. Head(s) \in Bytes
      BY <1>2, <2>1
    <2> QED  BY <2>1, <2>2, Zenon DEF CtlState
  <1>4. CASE ctl' = [ctl EXCEPT !.full = FALSE]
    BY <1>1, <1>4, Zenon DEF CtlState
  <1> QED  BY <1>1, <1>3, <1>4, CtlChanges, Zenon

LEMMA IsrTyped ==
  ASSUME InputTypes, Next
  PROVE  isr' \in {"none", "mouse"}
  <1>1. isr \in {"none", "mouse"}
    BY Zenon DEF InputTypes
  <1>2. User \/ MouseMoves \/ Load \/ Timer => isr' = isr
    BY Zenon DEF User, MouseMoves, Press, Release, Send, Move, Load, Timer
  <1>3. KbdInterrupt \/ MouseInterrupt => isr' = isr \/ isr' = "mouse" \/ isr' = "none"
    BY Zenon DEF KbdInterrupt, KbdPrefix, KbdKey, KbdForeign, MouseInterrupt, MouseEnter, MouseByte, MouseLeave
  <1>4. StartUp => isr' = isr
    BY Zenon DEF StartUp, InitDrain, InitDrained, InitAsk, InitAnswer, InitFlush, InitDone
  <1>5. MainLoop => isr' = isr
    BY Zenon DEF MainLoop, PopNothing, PopLook, PopAdvance, Halt
  <1>6. Program => isr' = isr
    BY Zenon DEF Program, EndProgram, PollStatus, PollData, PollJoin, PollSlot, PollStore, PollPublish,
                 MousePoll, MouseSource, MouseFetch, MouseStore, MouseComplete, MouseQueue, Update, UpdateLook, UpdateBound, UpdateX, UpdateY, UpdateButtons,
                 UpdateGive
  <1>7. Undefined => isr' = isr
    BY Zenon DEF Undefined, vars
  <1> QED  BY <1>1, <1>2, <1>3, <1>4, <1>5, <1>6, <1>7, Zenon DEF Next

LEMMA PolledChanges == Next => PollData \/ MouseFetch \/ polled' = polled
  <1>1. User \/ MouseMoves \/ Load \/ Timer => polled' = polled
    BY Zenon DEF User, MouseMoves, Press, Release, Send, Move, Load, Timer, ghosts
  <1>2. KbdInterrupt \/ MouseInterrupt => polled' = polled
    BY Zenon DEF KbdInterrupt, KbdPrefix, KbdKey, KbdForeign, MouseInterrupt, MouseEnter, MouseByte, MouseLeave, ghosts
  <1>3. StartUp => polled' = polled
    BY Zenon DEF StartUp, InitDrain, InitDrained, InitAsk, InitAnswer, InitFlush, InitDone, ghosts
  <1>4. MainLoop => polled' = polled
    BY Zenon DEF MainLoop, PopNothing, PopLook, PopAdvance, Halt, ghosts
  <1>5. Program => PollData \/ MouseFetch \/ polled' = polled
    BY Zenon DEF Program, EndProgram, PollStatus, PollJoin, PollSlot, PollStore, PollPublish,
                 MousePoll, MouseSource, MouseStore, MouseComplete, MouseQueue, Update, UpdateLook, UpdateBound, UpdateX, UpdateY, UpdateButtons,
                 UpdateGive, ghosts
  <1>6. Undefined => polled' = polled
    BY Zenon DEF Undefined, vars
  <1> QED  BY <1>1, <1>2, <1>3, <1>4, <1>5, <1>6, Zenon DEF Next

LEMMA GhostsTyped ==
  ASSUME InputTypes, Next
  PROVE  sent' \in Seq(Event) /\ got' \in Seq(Popping) /\ polled' \in BOOLEAN
  <1>1. sent \in Seq(Event) /\ got \in Seq(Popping) /\ polled \in BOOLEAN /\ cpu.ev \in Event
    BY Zenon DEF InputTypes, CpuState
  <1>2. sent' \in Seq(Event)
    <2>1. ASSUME NEW k \in KeyNames, NEW up \in BOOLEAN, Send(k, up) PROVE sent' \in Seq(Event)
      <3>0. Len(sent) + 1 \in Nat
        BY <1>1
      <3>1. PICK s \in Event : sent' = Append(sent, s)
        BY <2>1, <3>0, StrokeIs, Zenon DEF Send
      <3> QED  BY <1>1, <3>1
    <2> QED  BY <1>1, <2>1, SentChanges, Zenon
  <1>3. got' \in Seq(Popping)
    <2>1. CASE PopAdvance
      <3>1. Returned(kbd, cpu.ev) \in BOOLEAN
        BY Zenon DEF Returned
      <3>2. Table(kbd) \in {"altgr", "shift", "normal"}
        BY Zenon DEF Table
      <3>3. PICK g \in Popping : got' = Append(got, g)
        BY <1>1, <2>1, <3>1, <3>2, Zenon DEF PopAdvance, Popping
      <3> QED  BY <1>1, <3>3
    <2> QED  BY <1>1, <2>1, GotChanges
  <1>4. polled' \in BOOLEAN
    BY <1>1, PolledChanges, Zenon DEF PollData, MouseFetch
  <1> QED  BY <1>2, <1>3, <1>4

LEMMA PcTo ==
  ASSUME cpu \in CpuState
  PROVE  /\ \A l : Goto(l) => cpu'.pc = l
         /\ \A l, ev : cpu' = [cpu EXCEPT !.pc = l, !.ev = ev] => cpu'.pc = l /\ cpu'.ev = ev
         /\ \A l, p : cpu' = [cpu EXCEPT !.pc = l, !.program = p] => cpu'.pc = l
         /\ \A l, p : cpu' = [cpu EXCEPT !.pc = l, !.head = p] => cpu'.pc = l
         /\ \A l, p : cpu' = [cpu EXCEPT !.pc = l, !.aux = p] => cpu'.pc = l
         /\ \A l, p : cpu' = [cpu EXCEPT !.pc = l, !.left = p] => cpu'.pc = l
         /\ \A l, p : cpu' = [cpu EXCEPT !.pc = l, !.step = p] => cpu'.pc = l
         /\ \A l, p : cpu' = [cpu EXCEPT !.pc = l, !.from = p] => cpu'.pc = l
         /\ \A l, p : cpu' = [cpu EXCEPT !.pc = l, !.upto = p] => cpu'.pc = l
         /\ \A p : cpu' = [cpu EXCEPT !.left = p] => cpu'.pc = cpu.pc
  BY Zenon DEF CpuState, Goto

\* Where an action leaves the processor.
LEMMA PcNext ==
  ASSUME cpu \in CpuState
  PROVE  /\ InitDrain \/ InitFlush => cpu' = cpu /\ cpu'.pc \in {"drain", "flush"}
         /\ InitDrained => cpu'.pc = "ask"
         /\ InitAsk => cpu'.pc = "answer"
         /\ InitAnswer => cpu'.pc \in {"undefined", "answer", "ask", "flush"}
         /\ InitDone => cpu'.pc = "pop"
         /\ PopNothing => cpu'.pc \in {"run", "idle"}
         /\ PopLook => cpu'.pc = "advance"
         /\ PopAdvance => cpu'.pc \in {"pop", "run"}
         /\ Halt => cpu'.pc = "halted"
         /\ EndProgram => cpu'.pc = "pop"
         /\ PollStatus => cpu'.pc \in {"data", "pop"}
         /\ PollData => cpu'.pc = "join"
         /\ PollJoin => cpu'.pc \in {"pop", "slot"}
         /\ PollSlot => cpu'.pc \in {"pop", "store"}
         /\ PollStore => cpu'.pc = "publish"
         /\ PollPublish => cpu'.pc = "pop"
         /\ MousePoll => cpu'.pc \in {"source", "update"}
         /\ MouseSource => cpu'.pc = "fetch"
         /\ MouseFetch => cpu'.pc \in {"handle", "mouse"}
         /\ MouseStore => cpu'.pc \in {"undefined", "mouse", "complete"}
         /\ MouseComplete => cpu'.pc \in {"queue", "mouse"}
         /\ MouseQueue => cpu'.pc = "mouse"
         /\ UpdateLook => cpu'.pc = "bound"
         /\ UpdateBound => cpu'.pc \in {"run", "x"}
         /\ UpdateX => cpu'.pc = "y"
         /\ UpdateY => cpu'.pc \in {"buttons", "x"}
         /\ UpdateButtons => cpu'.pc = "give"
         /\ UpdateGive => cpu'.pc = "run"
  <1>1. InitDrain \/ InitFlush => cpu' = cpu /\ cpu'.pc \in {"drain", "flush"}
    BY Zenon DEF InitDrain, InitFlush, At
  <1>2. InitDrained => cpu'.pc = "ask"
    BY PcTo, Zenon DEF InitDrained
  <1>3. InitAsk => cpu'.pc = "answer"
    BY PcTo, Zenon DEF InitAsk
  <1>4. InitAnswer => cpu'.pc \in {"undefined", "answer", "ask", "flush"}
    <2> SUFFICES ASSUME InitAnswer PROVE cpu'.pc \in {"undefined", "answer", "ask", "flush"}
      OBVIOUS
    <2>1. \/ Goto("undefined") \/ Goto("flush")
          \/ cpu' = [cpu EXCEPT !.left = cpu.left - 1]
          \/ cpu' = [cpu EXCEPT !.pc = "ask", !.step = cpu.step + 1]
      BY Zenon DEF InitAnswer, Goto
    <2>2. cpu.pc = "answer"
      BY Zenon DEF InitAnswer, At
    <2>3. CASE cpu' = [cpu EXCEPT !.left = cpu.left - 1]
      BY <2>2, <2>3, PcTo, Zenon
    <2>4. CASE cpu' = [cpu EXCEPT !.pc = "ask", !.step = cpu.step + 1]
      BY <2>4, PcTo, Zenon
    <2> QED  BY <2>1, <2>3, <2>4, PcTo, Zenon
  <1>5. InitDone => cpu'.pc = "pop"
    BY PcTo, Zenon DEF InitDone
  <1>6. PopNothing => cpu'.pc \in {"run", "idle"}
    BY PcTo, Zenon DEF PopNothing
  <1>7. PopLook => cpu'.pc = "advance"
    BY PcTo, Zenon DEF PopLook
  <1>8. PopAdvance => cpu'.pc \in {"pop", "run"}
    BY PcTo, Zenon DEF PopAdvance
  <1>9. Halt => cpu'.pc = "halted"
    BY PcTo, Zenon DEF Halt
  <1>10. EndProgram => cpu'.pc = "pop"
    BY PcTo, Zenon DEF EndProgram
  <1>11. PollStatus => cpu'.pc \in {"data", "pop"}
    BY PcTo, Zenon DEF PollStatus
  <1>12. PollData => cpu'.pc = "join"
    BY PcTo, Zenon DEF PollData
  <1>13. PollJoin => cpu'.pc \in {"pop", "slot"}
    BY PcTo, Zenon DEF PollJoin
  <1>14. PollSlot => cpu'.pc \in {"pop", "store"}
    BY PcTo, Zenon DEF PollSlot
  <1>15. PollStore => cpu'.pc = "publish"
    BY PcTo, Zenon DEF PollStore
  <1>16. PollPublish => cpu'.pc = "pop"
    BY PcTo, Zenon DEF PollPublish
  <1>17. MousePoll => cpu'.pc \in {"source", "update"}
    BY PcTo, Zenon DEF MousePoll
  <1>18. MouseSource => cpu'.pc = "fetch"
    BY PcTo, Zenon DEF MouseSource
  <1>19. MouseFetch => cpu'.pc \in {"handle", "mouse"}
    BY PcTo, Zenon DEF MouseFetch
  <1>20. MouseStore => cpu'.pc \in {"undefined", "mouse", "complete"}
    BY PcTo, Zenon DEF MouseStore
  <1>21. MouseComplete => cpu'.pc \in {"queue", "mouse"}
    BY PcTo, Zenon DEF MouseComplete
  <1>22. MouseQueue => cpu'.pc = "mouse"
    BY PcTo, Zenon DEF MouseQueue
  <1>23. UpdateLook => cpu'.pc = "bound"
    <2>1. UpdateLook => cpu' = [cpu EXCEPT !.pc = "bound", !.from = mouse.r]
      BY Zenon DEF UpdateLook
    <2> QED  BY <2>1, PcTo, Zenon
  <1>24. UpdateBound => cpu'.pc \in {"run", "x"}
    BY PcTo, Zenon DEF UpdateBound
  <1>25. UpdateX => cpu'.pc = "y"
    BY PcTo, Zenon DEF UpdateX
  <1>26. UpdateY => cpu'.pc \in {"buttons", "x"}
    <2>1. UpdateY => \/ cpu' = [cpu EXCEPT !.pc = "buttons"]
                     \/ cpu' = [cpu EXCEPT !.pc = "x", !.from = NextPacket(@)]
      BY Zenon DEF UpdateY
    <2>2. cpu' = [cpu EXCEPT !.pc = "buttons"] => cpu'.pc = "buttons"
      BY PcTo, Zenon DEF Goto
    <2> QED  BY <2>1, <2>2, PcTo, Zenon
  <1>27. UpdateButtons => cpu'.pc = "give"
    BY PcTo, Zenon DEF UpdateButtons
  <1>28. UpdateGive => cpu'.pc = "run"
    BY PcTo, Zenon DEF UpdateGive
  <1> QED
    BY <1>1, <1>2, <1>3, <1>4, <1>5, <1>6, <1>7, <1>8, <1>9, <1>10, <1>11, <1>12, <1>13, <1>14, <1>15, <1>16, <1>17,
       <1>18, <1>19, <1>20, <1>21, <1>22, <1>23, <1>24, <1>25, <1>26, <1>27, <1>28, Zenon

\* What the handlers and the timer do to the processor.
LEMMA CpuChanges ==
  ASSUME cpu \in CpuState, Next
  PROVE  \/ cpu' = cpu \/ StartUp \/ MainLoop \/ Program
         \/ cpu.pc = "halted" /\ Goto("pop")
         \/ MouseByte /\ Goto("undefined")
  <1>1. User \/ MouseMoves \/ Load => cpu' = cpu
    BY Zenon DEF User, MouseMoves, Press, Release, Send, Move, Load
  <1>2. Timer => cpu.pc = "halted" /\ Goto("pop")
    BY Zenon DEF Timer, At
  <1>3. cpu' = Woken => cpu' = cpu \/ (cpu.pc = "halted" /\ Goto("pop"))
    BY Zenon DEF Woken, Goto
  <1>4. KbdInterrupt => cpu' = cpu \/ (cpu.pc = "halted" /\ Goto("pop"))
    BY <1>3, Zenon DEF KbdInterrupt, KbdPrefix, KbdKey, KbdForeign
  <1>5. MouseInterrupt => cpu' = cpu \/ (cpu.pc = "halted" /\ Goto("pop")) \/ (MouseByte /\ Goto("undefined"))
    BY <1>3, Zenon DEF MouseInterrupt, MouseEnter, MouseByte, MouseLeave, Goto
  <1>6. Undefined => cpu' = cpu
    BY Zenon DEF Undefined, vars
  <1> QED  BY <1>1, <1>2, <1>4, <1>5, <1>6, Zenon DEF Next

\* What the program is about to queue is a packet.
LEMMA PacketInHand ==
  ASSUME InputTypes, Next, cpu'.pc = "queue"
  PROVE  cpu'.ev \in Packed
  <1>1. cpu \in CpuState /\ mouse \in MouseState /\ (cpu.pc = "queue" => cpu.ev \in Packed)
    BY Zenon DEF InputTypes
  <1>2. CASE cpu' = cpu
    BY <1>1, <1>2
  <1>3. CASE StartUp
    BY <1>1, <1>3, PcNext, Zenon DEF StartUp
  <1>4. CASE MainLoop
    <2>1. cpu'.pc \in {"run", "idle", "pop", "advance", "halted"}
      BY <1>1, <1>4, PcTo, ZenonT(40) DEF MainLoop, PopNothing, PopLook, PopAdvance, Halt
    <2> QED  BY <2>1
  <1>5. CASE Program
    <2>1. MouseComplete \/ cpu'.pc # "queue"
      <3>1. Update => cpu'.pc \in {"bound", "run", "x", "y", "buttons", "give"}
        BY <1>1, PcNext, Zenon DEF Update
      <3>2. "queue" \notin {"bound", "run", "x", "y", "buttons", "give"}
        OBVIOUS
      <3> QED  BY <1>1, <1>5, <3>1, <3>2, PcNext, Zenon DEF Program
    <2>2. CASE MouseComplete
      <3>1. \/ Complete(mouse) /\ cpu' = [cpu EXCEPT !.pc = "queue", !.ev = Read(mouse)]
            \/ Goto("mouse")
        BY <2>2, Zenon DEF MouseComplete
      <3>2. Goto("mouse") => cpu'.pc = "mouse"
        BY <1>1, PcTo, Zenon
      <3>3. Complete(mouse) /\ cpu'.ev = Read(mouse)
        BY <1>1, <3>1, <3>2, PcTo, Zenon
      <3> QED  BY <1>1, <3>3, ReadTyped
    <2> QED  BY <2>1, <2>2
  <1>6. CASE Goto("pop") \/ Goto("undefined")
    BY <1>1, <1>6, PcTo
  <1> QED  BY <1>1, <1>2, <1>3, <1>4, <1>5, <1>6, CpuChanges, Zenon

LEMMA TypesStep ==
  ASSUME InputTypes, [Next]_vars
  PROVE  InputTypes'
  <1>1. CASE Next
    BY <1>1, KbdTyped, WireTyped, MouseTyped, CpuTyped, CtlTyped, IsrTyped, GhostsTyped, PacketInHand, Zenon DEF InputTypes
  <1>2. CASE UNCHANGED vars
    BY <1>2, Zenon DEF InputTypes, vars
  <1> QED  BY <1>1, <1>2

LEMMA TypesInit == Init => InputTypes
  <1> SUFFICES ASSUME Init PROVE InputTypes
    OBVIOUS
  <1>0. /\ <<>> \in Seq(Bytes) /\ <<>> \in Seq(Event) /\ <<>> \in Seq(Popping) /\ <<>> \in Seq({"200", "100", "80"})
        /\ {} \in SUBSET KeyNames /\ {} \in SUBSET Int /\ 0 \in Nat /\ 1 \in 1 .. 10 /\ 0 \in 0 .. 2 /\ 3 \in {3, 4}
        /\ NoEvent \in Event /\ "drain" \in Labels /\ "queue" # "drain"
    BY BytesAre DEF Labels
  <1>9. NoByte \in Bytes /\ NoPacket \in Packed /\ <<>> \in Seq(Movement) /\ FALSE \in BOOLEAN
    BY BytesAre DEF NoPacket, Packed
  <1>10. 0 \in QueueSlots /\ [i \in 0 .. MouseSlots - 1 |-> NoPacket] \in [QueueSlots -> Packed]
    BY <1>9, PlacesAre DEF QueueSlots
  <1>1. 0 \in RingSlots /\ [i \in 0 .. RingSize - 1 |-> NoEvent] \in [RingSlots -> Event]
    BY SlotsAre, <1>0 DEF RingSlots
  <1>2. wire \in WireState
    BY <1>0, Zenon DEF Init, WireState
  <1>3. ctl \in CtlState
    BY BytesAre, Zenon DEF Init, CtlState
  <1>4. kbd \in KbdState
    BY <1>0, <1>1, Zenon DEF Init, KbdState
  <1>5. mouse \in MouseState
    BY <1>0, <1>9, <1>10, Zenon DEF Init, MouseState
  <1>6. cpu \in CpuState /\ cpu.pc = "drain"
    BY <1>0, <1>1, <1>10, Zenon DEF Init, CpuState
  <1>7. sent \in Seq(Event) /\ got \in Seq(Popping) /\ polled \in BOOLEAN /\ isr \in {"none", "mouse"}
    BY <1>0, Zenon DEF Init
  <1> QED  BY <1>0, <1>2, <1>3, <1>4, <1>5, <1>6, <1>7, Zenon DEF InputTypes

THEOREM InputTyped == Spec => []InputTypes
  <1>1. InputTypes /\ [Next]_vars => InputTypes'
    BY TypesStep
  <1> QED  BY <1>1, TypesInit, PTL DEF Spec

-----------------------------------------------------------------------------
(* No repeated make.                                                       *)

\* A code returned as pressed and not as released since is in the set of kbd_get_char.
ReleasedBefore(g, i, m) ==
  \E b \in i + 1 .. m : g[b].returned /\ Scancode(g[b].ev) = Scancode(g[i].ev) + 128

DownKept ==
  \A i \in 1 .. Len(got) :
    got[i].returned /\ Scancode(got[i].ev) < 128
      => ReleasedBefore(got, i, Len(got)) \/ Scancode(got[i].ev) \in kbd.down

\* What popping an event does to the set of codes held down.
LEMMA PoppedDown ==
  ASSUME InputTypes, PopAdvance
  PROVE  /\ got' = Append(got, [ev |-> cpu.ev, returned |-> Returned(kbd, cpu.ev), table |-> Table(kbd)])
         /\ \/ ~Returned(kbd, cpu.ev) /\ kbd'.down = kbd.down
            \/ ~Returned(kbd, cpu.ev) /\ Scancode(cpu.ev) < 128 /\ Scancode(cpu.ev) \in kbd.down /\ kbd'.down = kbd.down
            \/ /\ Returned(kbd, cpu.ev) /\ Scancode(cpu.ev) < 128 /\ Scancode(cpu.ev) \notin kbd.down
               /\ kbd'.down = kbd.down \cup {Scancode(cpu.ev)}
            \/ /\ Returned(kbd, cpu.ev) /\ Scancode(cpu.ev) >= 128
               /\ kbd'.down = kbd.down \ {Scancode(cpu.ev) - 128}
  <1> DEFINE c == Scancode(cpu.ev)
             t == [kbd EXCEPT !.tail = NextSlot(@)]
  <1>1. kbd \in KbdState /\ c \in Int
    BY EventsAre, ValsAre, Zenon DEF InputTypes, CpuState
  <1>2. t.down = kbd.down /\ DOMAIN t = DOMAIN kbd /\ "down" \in DOMAIN kbd
    BY <1>1, Zenon DEF KbdState
  <1>3. kbd' = Popped(kbd, cpu.ev)
    BY Zenon DEF PopAdvance
  <1>4. CASE IsModifier(cpu.ev)
    <2>1. kbd' = Modifiers(t, cpu.ev) /\ ~Returned(kbd, cpu.ev)
      BY <1>3, <1>4, Zenon DEF Popped, Returned
    <2> HIDE DEF t, c
    <2>2. kbd'.down = kbd.down
      BY <1>2, <2>1, Zenon DEF Modifiers
    <2> QED  BY <2>1, <2>2, Zenon DEF PopAdvance
  <1>5. CASE ~IsModifier(cpu.ev)
    <2>1. kbd' = [t EXCEPT !.down = IF c < 128 THEN @ \cup {c} ELSE @ \ {c - 128}]
      BY <1>3, <1>5, Zenon DEF Popped
    <2>2. Returned(kbd, cpu.ev) <=> c >= 128 \/ c \notin kbd.down
      BY <1>5, Zenon DEF Returned
    <2>3. got' = Append(got, [ev |-> cpu.ev, returned |-> Returned(kbd, cpu.ev), table |-> Table(kbd)])
      BY Zenon DEF PopAdvance
    <2> HIDE DEF t, c
    <2>4. kbd'.down = IF c < 128 THEN kbd.down \cup {c} ELSE kbd.down \ {c - 128}
      BY <1>2, <2>1, Zenon
    <2>5. c < 128 \/ c >= 128
      BY <1>1
    <2>6. c < 128 => ~(c >= 128)
      BY <1>1
    <2>7. c < 128 /\ c \in kbd.down => kbd'.down = kbd.down
      BY <2>4
    <2> QED  BY <2>2, <2>3, <2>4, <2>5, <2>6, <2>7, Zenon DEF c
  <1> QED  BY <1>4, <1>5

LEMMA DownOnlyPopped ==
  ASSUME InputTypes, Next
  PROVE  PopAdvance \/ (kbd'.down = kbd.down /\ got' = got)
  <1>1. kbd \in KbdState
    BY Zenon DEF InputTypes
  <1>2. ASSUME NEW k \in KbdState, NEW ev PROVE Pushed(k, ev).down = k.down
    BY Zenon DEF Pushed, KbdState
  <1>3. CASE KbdPrefix \/ PollJoin \/ PollStore \/ PollPublish
    <2>1. kbd'.down = kbd.down
      BY <1>1, <1>3, Zenon DEF KbdPrefix, PollJoin, PollStore, PollPublish, KbdState
    <2>2. got' = got
      BY <1>3, Zenon DEF KbdPrefix, PollJoin, PollStore, PollPublish, ghosts
    <2> QED  BY <2>1, <2>2
  <1>4. CASE KbdKey
    <2>1. [kbd EXCEPT !.e0 = <<>>] \in KbdState
      <3>1. <<>> \in Seq(Bytes)
        OBVIOUS
      <3> QED  BY <1>1, <3>1, Zenon DEF KbdState
    <2>2. kbd'.down = [kbd EXCEPT !.e0 = <<>>].down
      BY <1>2, <1>4, <2>1, Zenon DEF KbdKey
    <2>3. kbd'.down = kbd.down
      BY <1>1, <2>2, Zenon DEF KbdState
    <2> QED  BY <1>4, <2>3, Zenon DEF KbdKey
  <1>5. kbd' = kbd => kbd'.down = kbd.down
    OBVIOUS
  <1> QED  BY <1>3, <1>4, <1>5, KbdChanges, GotChanges, Zenon

LEMMA DownStep ==
  ASSUME InputTypes, DownKept, NoDoubleMake, [Next]_vars
  PROVE  DownKept' /\ NoDoubleMake'
  <1>1. CASE kbd'.down = kbd.down /\ got' = got
    BY <1>1, ZenonT(40) DEF DownKept, NoDoubleMake, ReleasedBefore
  <1>2. CASE PopAdvance
    <2> DEFINE back == Returned(kbd, cpu.ev)
               c == Scancode(cpu.ev)
               C(i) == Scancode(got[i].ev)
               D(i) == Scancode(got'[i].ev)
               m == Len(got)
    <2>1. PICK g \in Popping : g.ev = cpu.ev /\ g.returned = back /\ got' = Append(got, g)
      <3>1. cpu.ev \in Event /\ Returned(kbd, cpu.ev) \in BOOLEAN /\ Table(kbd) \in {"altgr", "shift", "normal"}
        BY Zenon DEF InputTypes, CpuState, Returned, Table
      <3> QED  BY <1>2, <3>1, PoppedDown, Zenon DEF Popping
    <2>2. got \in Seq(Popping) /\ m \in Nat
      <3>1. got \in Seq(Popping)
        BY Zenon DEF InputTypes
      <3> QED  BY <3>1
    <2>3. /\ Len(got') = m + 1 /\ got'[m + 1] = g
          /\ \A i \in 1 .. m : got'[i] = got[i] /\ got[i] \in Popping
      BY <2>1, <2>2
    <2>4. c \in Int /\ \A i \in 1 .. m : C(i) \in Int
      BY <2>3, EventsAre, ValsAre, Zenon DEF InputTypes, CpuState, Popping
    <2>5. \/ ~back /\ kbd'.down = kbd.down
          \/ back /\ c < 128 /\ c \notin kbd.down /\ kbd'.down = kbd.down \cup {c}
          \/ back /\ c >= 128 /\ kbd'.down = kbd.down \ {c - 128}
      BY <1>2, PoppedDown, Zenon
    <2>6. D(m + 1) = c /\ got'[m + 1].returned = back /\ \A i \in 1 .. m : D(i) = C(i)
      BY <2>1, <2>3, Zenon
    <2>7. \A i \in 1 .. m : got[i].returned /\ C(i) < 128 =>
            C(i) \in kbd.down \/ \E b \in i + 1 .. m : got[b].returned /\ C(b) = C(i) + 128
      BY Zenon DEF DownKept, ReleasedBefore
    <2>8. \A i, j \in 1 .. m : i < j /\ got[i].returned /\ got[j].returned /\ C(i) = C(j) /\ C(i) < 128
            => \E b \in i + 1 .. j - 1 : got[b].returned /\ C(b) = C(i) + 128
      BY Zenon DEF NoDoubleMake
    <2> HIDE DEF c, C, D, m, back
    <2>9. ASSUME NEW i \in 1 .. m + 1, got'[i].returned, D(i) < 128
          PROVE  D(i) \in kbd'.down \/ \E b \in i + 1 .. m + 1 : got'[b].returned /\ D(b) = D(i) + 128
      <3>1. CASE i = m + 1
        BY <2>4, <2>5, <2>6, <2>9, <3>1
      <3>2. CASE i # m + 1
        <4>1. i \in 1 .. m /\ got[i].returned /\ C(i) < 128 /\ D(i) = C(i)
          BY <2>2, <2>3, <2>6, <2>9, <3>2
        <4>2. CASE C(i) \in kbd.down
          <5>1. CASE back /\ c >= 128 /\ c - 128 = C(i)
            <6>1. m + 1 \in i + 1 .. m + 1
              BY <2>2, <4>1
            <6>2. D(m + 1) = D(i) + 128
              BY <2>4, <2>6, <4>1, <5>1
            <6>3. got'[m + 1].returned
              BY <2>6, <5>1, Zenon
            <6> QED  BY <6>1, <6>2, <6>3
          <5>2. CASE ~(back /\ c >= 128 /\ c - 128 = C(i))
            BY <2>4, <2>5, <4>1, <4>2, <5>2
          <5> QED  BY <5>1, <5>2
        <4>3. CASE \E b \in i + 1 .. m : got[b].returned /\ C(b) = C(i) + 128
          <5>1. PICK b \in i + 1 .. m : got[b].returned /\ C(b) = C(i) + 128
            BY <4>3
          <5>2. b \in 1 .. m /\ b \in i + 1 .. m + 1
            BY <2>2, <4>1
          <5>3. got'[b].returned /\ D(b) = D(i) + 128
            BY <2>3, <2>6, <4>1, <5>1, <5>2
          <5> QED  BY <5>2, <5>3
        <4> QED  BY <2>7, <4>1, <4>2, <4>3
      <3> QED  BY <3>1, <3>2
    <2>10. ASSUME NEW i \in 1 .. m + 1, NEW j \in 1 .. m + 1, i < j, got'[i].returned, got'[j].returned,
                  D(i) = D(j), D(i) < 128
           PROVE  \E b \in i + 1 .. j - 1 : got'[b].returned /\ D(b) = D(i) + 128
      <3>1. i \in 1 .. m /\ got[i].returned /\ C(i) = D(i)
        BY <2>2, <2>3, <2>6, <2>10
      <3>2. \E b \in i + 1 .. j - 1 : got[b].returned /\ C(b) = C(i) + 128
        <4>1. CASE j = m + 1
          <5>1. C(i) = c /\ back
            BY <2>6, <2>10, <3>1, <4>1
          <5>2. C(i) \notin kbd.down
            BY <2>4, <2>5, <2>10, <3>1, <5>1
          <5>3. m = j - 1
            BY <2>2, <4>1
          <5> QED  BY <2>7, <2>10, <3>1, <5>2, <5>3
        <4>2. CASE j # m + 1
          <5>1. j \in 1 .. m
            BY <2>2, <4>2
          <5>2. got[j].returned /\ C(j) = D(j)
            BY <2>3, <2>6, <2>10, <5>1
          <5> QED  BY <2>8, <2>10, <3>1, <5>1, <5>2
        <4> QED  BY <4>1, <4>2
      <3>3. PICK b \in i + 1 .. j - 1 : got[b].returned /\ C(b) = C(i) + 128
        BY <3>2
      <3>4. b \in 1 .. m
        BY <2>2, <3>1
      <3> QED  BY <2>3, <2>6, <3>1, <3>3, <3>4
    <2>11. Len(got') = m + 1
      BY <2>3
    <2>12. DownKept'
      BY <2>9, <2>11, Zenon DEF DownKept, ReleasedBefore, D
    <2>13. NoDoubleMake'
      BY <2>10, <2>11, Zenon DEF NoDoubleMake, D
    <2> QED  BY <2>12, <2>13
  <1>3. CASE UNCHANGED vars
    <2>1. kbd'.down = kbd.down /\ got' = got
      BY <1>3, Zenon DEF vars
    <2> QED  BY <1>1, <2>1
  <1> QED  BY <1>1, <1>2, <1>3, DownOnlyPopped

\* Two presses of a code are returned only with a release of it in between.
THEOREM NoDoubleMakeCorrect == Spec => []NoDoubleMake
  <1>1. Init => DownKept /\ NoDoubleMake
    <2> SUFFICES ASSUME Init PROVE DownKept /\ NoDoubleMake
      OBVIOUS
    <2>1. got = <<>>
      BY Zenon DEF Init
    <2>2. Len(got) = 0
      BY <2>1
    <2>3. \A i \in 1 .. Len(got) : FALSE
      BY <2>2
    <2> QED  BY <2>3, Zenon DEF DownKept, NoDoubleMake
  <1>2. InputTypes /\ DownKept /\ NoDoubleMake /\ [Next]_vars => DownKept' /\ NoDoubleMake'
    BY DownStep
  <1> QED  BY <1>1, <1>2, InputTyped, PTL DEF Spec

-----------------------------------------------------------------------------
(* The steps while no program polls a port.                                *)

\* The labels a program reaches only after it has read the data port.
Quiet ==
  ~polled => cpu.pc \notin {"join", "slot", "store", "publish", "mouse", "handle", "complete", "queue"}

\* Where the processor waits with no event and no packet in hand.
Loop == {"pop", "idle", "halted", "run", "data", "source", "fetch", "update"}
CpuMoved == cpu' = cpu \/ (cpu.pc \in Loop /\ cpu'.pc \in Loop)
Still ==
  UNCHANGED <<wire, ctl, kbd, mouse, sent, got, lost>> /\ CpuMoved /\ (isr' = isr \/ ~StartingUp \/ isr = "mouse")

LEMMA QuietSteps ==
  ASSUME InputTypes, Quiet, [Next]_vars, ~polled'
  PROVE  /\ ~polled /\ Quiet'
         /\ \/ \E k \in KeyNames, up \in BOOLEAN : Send(k, up)
            \/ \E head \in {8, 72} : Move(head)
            \/ Load \/ KbdPrefix \/ KbdKey \/ KbdForeign \/ MouseByte \/ StartUp
            \/ PopLook \/ PopAdvance \/ Update \/ Still
  <1> DEFINE Noisy == {"join", "slot", "store", "publish", "mouse", "handle", "complete", "queue"}
  <1>0. cpu \in CpuState /\ ~PollData /\ ~MouseFetch /\ polled \in BOOLEAN
    BY Zenon DEF InputTypes, PollData, MouseFetch
  <1>1. ~polled
    BY <1>0, PolledChanges, Zenon DEF vars
  <1>2. cpu.pc \notin Noisy
    BY <1>1, Zenon DEF Quiet
  <1>3. ~PollJoin /\ ~PollSlot /\ ~PollStore /\ ~PollPublish /\ ~MouseStore /\ ~MouseComplete /\ ~MouseQueue
    BY <1>2, Zenon DEF PollJoin, PollSlot, PollStore, PollPublish, MouseStore, MouseComplete, MouseQueue, At
  <1>4. ASSUME CpuMoved PROVE cpu'.pc \notin Noisy
    <2>1. Loop \cap Noisy = {}
      BY DEF Loop
    <2> QED  BY <1>2, <1>4, <2>1 DEF CpuMoved
  <1>5. cpu' = Woken => CpuMoved
    <2>1. cpu' = Woken => cpu' = cpu \/ (cpu.pc = "halted" /\ Goto("pop"))
      BY Zenon DEF Woken, Goto
    <2>2. Goto("pop") => cpu'.pc = "pop"
      BY <1>0, PcTo, Zenon
    <2> QED  BY <2>1, <2>2 DEF CpuMoved, Loop
  <1>6. CASE User
    <2>1. \E k \in KeyNames, up \in BOOLEAN : Send(k, up)
      <3>1. PICK k \in Keys : Press(k) \/ Release(k)
        BY <1>6, Zenon DEF User
      <3>2. k \in KeyNames /\ FALSE \in BOOLEAN /\ TRUE \in BOOLEAN
        BY KeysAssumption DEF KeyNames
      <3> QED  BY <3>1, <3>2, Zenon DEF Press, Release
    <2>2. cpu' = cpu
      BY <2>1, Zenon DEF Send
    <2> QED  BY <1>1, <1>2, <2>1, <2>2, Zenon DEF Quiet
  <1>7. CASE MouseMoves
    <2>1. \E head \in {8, 72} : Move(head)
      BY <1>7, Zenon DEF MouseMoves
    <2>2. cpu' = cpu
      BY <2>1, Zenon DEF Move
    <2> QED  BY <1>1, <1>2, <2>1, <2>2, Zenon DEF Quiet
  <1>8. CASE Load
    <2>1. cpu' = cpu
      BY <1>8, Zenon DEF Load
    <2> QED  BY <1>1, <1>2, <1>8, <2>1, Zenon DEF Quiet
  <1>9. CASE KbdInterrupt
    <2>1. cpu' = Woken
      BY <1>9, Zenon DEF KbdInterrupt, KbdPrefix, KbdKey, KbdForeign
    <2> QED  BY <1>1, <1>4, <1>5, <1>9, <2>1, Zenon DEF Quiet, KbdInterrupt
  <1>10. CASE MouseEnter \/ MouseLeave
    <2>1. Still
      BY <1>5, <1>10, Zenon DEF MouseEnter, MouseLeave, Still, CpuMoved, Taken, ghosts
    <2>2. CpuMoved
      BY <2>1, Zenon DEF Still
    <2> QED  BY <1>1, <1>4, <2>1, <2>2, Zenon DEF Quiet
  <1>11. CASE MouseByte
    <2>1. cpu' = cpu \/ Goto("undefined")
      BY <1>11, Zenon DEF MouseByte, Goto
    <2>2. cpu'.pc = cpu.pc \/ cpu'.pc = "undefined"
      BY <1>0, <2>1, PcTo, Zenon
    <2>3. cpu'.pc \notin Noisy
      BY <1>2, <2>2
    <2> QED  BY <1>1, <1>11, <2>3, Zenon DEF Quiet
  <1>12. CASE StartUp
    <2>1. cpu'.pc \in {"drain", "ask", "answer", "flush", "undefined", "pop"}
      BY <1>0, <1>12, PcNext, Zenon DEF StartUp
    <2>2. cpu'.pc \notin Noisy
      BY <2>1
    <2> QED  BY <1>1, <1>12, <2>2, Zenon DEF Quiet
  <1>13. CASE Timer \/ PopNothing \/ Halt
    <2>1. UNCHANGED <<wire, ctl, kbd, mouse, sent, got, lost, isr>>
      BY <1>13, Zenon DEF Timer, PopNothing, Halt, ghosts
    <2>2. cpu.pc \in {"halted", "pop", "idle"} /\ cpu'.pc \in {"pop", "run", "idle", "halted"}
      BY <1>0, <1>13, PcNext, PcTo, Zenon DEF Timer, PopNothing, Halt, At
    <2>3. CpuMoved
      BY <2>2 DEF CpuMoved, Loop
    <2> QED  BY <1>1, <1>4, <2>1, <2>3, Zenon DEF Quiet, Still
  <1>14. CASE PopLook \/ PopAdvance
    <2>1. cpu'.pc \in {"advance", "pop", "run"}
      BY <1>0, <1>14, PcNext, Zenon
    <2>2. cpu'.pc \notin Noisy
      BY <2>1
    <2> QED  BY <1>1, <1>14, <2>2, Zenon DEF Quiet
  <1>15. CASE EndProgram \/ PollStatus \/ MousePoll \/ MouseSource
    <2>1. UNCHANGED <<wire, ctl, kbd, mouse, sent, got, lost, isr>>
      BY <1>15, Zenon DEF EndProgram, PollStatus, MousePoll, MouseSource, ghosts
    <2>2. cpu.pc \in {"run", "source"}
      <3>1. cpu.pc \in {"run", "source", "mouse"}
        BY <1>15, Zenon DEF EndProgram, PollStatus, MousePoll, MouseSource, At
      <3> QED  BY <1>2, <3>1
    <2>3. cpu'.pc \in {"pop", "data", "source", "update", "fetch"}
      BY <1>0, <1>15, PcNext, Zenon
    <2>4. CpuMoved
      BY <2>2, <2>3 DEF CpuMoved, Loop
    <2> QED  BY <1>1, <1>4, <2>1, <2>4, Zenon DEF Quiet, Still
  <1>16. CASE Update
    <2>1. cpu'.pc \in {"bound", "run", "x", "y", "buttons", "give"}
      BY <1>0, <1>16, PcNext, Zenon DEF Update
    <2>2. cpu'.pc \notin Noisy
      BY <2>1
    <2> QED  BY <1>1, <1>16, <2>2, Zenon DEF Quiet
  <1>17. CASE UNCHANGED vars
    <2>1. Still /\ CpuMoved
      BY <1>17, Zenon DEF vars, Still, CpuMoved
    <2> QED  BY <1>1, <1>4, <2>1, Zenon DEF Quiet
  <1>18. Undefined => UNCHANGED vars
    BY Zenon DEF Undefined
  <1>19. CASE KbdInterrupt \/ MouseInterrupt
    BY <1>9, <1>10, <1>11, <1>19, Zenon DEF MouseInterrupt
  <1>20. CASE Timer \/ MainLoop
    BY <1>13, <1>14, <1>20, Zenon DEF MainLoop
  <1>21. CASE Program
    BY <1>0, <1>3, <1>15, <1>16, <1>21, Zenon DEF Program
  <1> QED
    BY <1>6, <1>7, <1>8, <1>12, <1>17, <1>18, <1>19, <1>20, <1>21, Zenon DEF Next

\* What the steps of an update of the mouse do.
Reading == {"bound", "x", "y", "buttons", "give"}

LEMMA UpdateDoes ==
  ASSUME InputTypes
  PROVE  /\ UpdateLook => mouse' = mouse /\ cpu'.pc = "bound" /\ cpu'.from = mouse.r
         /\ UpdateBound => /\ cpu.pc = "bound" /\ mouse' = mouse
                           /\ \/ cpu.from = mouse.w /\ cpu'.pc = "run"
                              \/ cpu.from # mouse.w /\ cpu'.pc = "x" /\ cpu'.from = cpu.from /\ cpu'.upto = mouse.w
         /\ UpdateX => /\ cpu.pc = "x" /\ mouse' = mouse /\ cpu'.pc = "y"
                       /\ cpu'.from = cpu.from /\ cpu'.upto = cpu.upto /\ cpu'.ev[1] = mouse.q[cpu.from][2]
         /\ UpdateY => /\ cpu.pc = "y" /\ cpu'.upto = cpu.upto
                       /\ \/ NextPacket(cpu.from) = cpu.upto /\ cpu'.pc = "buttons" /\ cpu'.from = cpu.from
                          \/ /\ NextPacket(cpu.from) # cpu.upto
                             /\ cpu'.pc = "x" /\ cpu'.from = NextPacket(cpu.from)
                       /\ mouse'.applied = Append(mouse.applied, [x |-> cpu.ev[1], y |-> mouse.q[cpu.from][3]])
                       /\ mouse'.q = mouse.q /\ mouse'.r = mouse.r /\ mouse'.w = mouse.w
                       /\ mouse'.overrun = mouse.overrun
         /\ UpdateButtons => /\ cpu.pc = "buttons" /\ cpu'.pc = "give" /\ cpu'.upto = cpu.upto
                             /\ mouse'.buttons = mouse.q[cpu.from][1] /\ mouse'.applied = mouse.applied
                             /\ mouse'.q = mouse.q /\ mouse'.r = mouse.r /\ mouse'.w = mouse.w
                             /\ mouse'.overrun = mouse.overrun
         /\ UpdateGive => /\ cpu.pc = "give" /\ cpu'.pc = "run" /\ mouse'.r = cpu.upto
                          /\ mouse'.q = mouse.q /\ mouse'.w = mouse.w
                          /\ mouse'.overrun = mouse.overrun /\ mouse'.applied = mouse.applied
         /\ Update => /\ UNCHANGED <<wire, ctl, isr, kbd, sent, got, lost>>
                      /\ cpu.pc \in Reading \cup {"update"} /\ cpu'.pc \in Reading \cup {"run"}
                      /\ mouse'.packet = mouse.packet /\ mouse'.size = mouse.size
                      /\ cpu'.step = cpu.step /\ cpu'.left = cpu.left
  <1>1. cpu \in CpuState /\ mouse \in MouseState /\ cpu.from \in QueueSlots /\ Head(cpu.ev) = cpu.ev[1]
    BY EventsAre DEF InputTypes, CpuState
  <1>2. mouse.q[cpu.from] \in Packed /\ Head(mouse.q[cpu.from]) = mouse.q[cpu.from][1]
    BY <1>1, PackedAre DEF MouseState
  <1>3. ASSUME UpdateLook
        PROVE  /\ mouse' = mouse /\ cpu'.pc = "bound" /\ cpu'.from = mouse.r
               /\ cpu'.step = cpu.step /\ cpu'.left = cpu.left
    <2>1. mouse' = mouse /\ cpu' = [cpu EXCEPT !.pc = "bound", !.from = mouse.r]
      BY <1>3, Zenon DEF UpdateLook
    <2> QED  BY <1>1, <2>1 DEF CpuState
  <1>4. ASSUME UpdateBound
        PROVE  /\ cpu.pc = "bound" /\ mouse' = mouse /\ cpu'.step = cpu.step /\ cpu'.left = cpu.left
               /\ \/ cpu.from = mouse.w /\ cpu'.pc = "run"
                  \/ cpu.from # mouse.w /\ cpu'.pc = "x" /\ cpu'.from = cpu.from /\ cpu'.upto = mouse.w
    <2>1. /\ mouse' = mouse /\ cpu.pc = "bound"
          /\ cpu' = [cpu EXCEPT !.pc = IF cpu.from = mouse.w THEN "run" ELSE "x", !.upto = mouse.w]
      BY <1>4, Zenon DEF UpdateBound, At
    <2> QED  BY <1>1, <2>1 DEF CpuState
  <1>5. ASSUME UpdateX
        PROVE  /\ cpu.pc = "x" /\ mouse' = mouse /\ cpu'.pc = "y" /\ cpu'.step = cpu.step /\ cpu'.left = cpu.left
               /\ cpu'.from = cpu.from /\ cpu'.upto = cpu.upto /\ cpu'.ev[1] = mouse.q[cpu.from][2]
    <2>1. mouse' = mouse /\ cpu.pc = "x" /\ cpu' = [cpu EXCEPT !.pc = "y", !.ev = <<mouse.q[cpu.from][2]>>]
      BY <1>5, Zenon DEF UpdateX, At
    <2> QED  BY <1>1, <2>1 DEF CpuState
  <1>6. ASSUME UpdateY
        PROVE  /\ cpu.pc = "y" /\ cpu'.upto = cpu.upto /\ cpu'.step = cpu.step /\ cpu'.left = cpu.left
               /\ \/ NextPacket(cpu.from) = cpu.upto /\ cpu'.pc = "buttons" /\ cpu'.from = cpu.from
                  \/ /\ NextPacket(cpu.from) # cpu.upto
                     /\ cpu'.pc = "x" /\ cpu'.from = NextPacket(cpu.from)
               /\ mouse'.applied = Append(mouse.applied, [x |-> cpu.ev[1], y |-> mouse.q[cpu.from][3]])
               /\ mouse'.q = mouse.q /\ mouse'.r = mouse.r /\ mouse'.w = mouse.w
               /\ mouse'.overrun = mouse.overrun /\ mouse'.packet = mouse.packet /\ mouse'.size = mouse.size
    <2> DEFINE a == Append(mouse.applied, [x |-> cpu.ev[1], y |-> mouse.q[cpu.from][3]])
    <2>1. /\ cpu.pc = "y" /\ mouse' = [mouse EXCEPT !.applied = a]
          /\ cpu' = IF NextPacket(cpu.from) = cpu.upto THEN [cpu EXCEPT !.pc = "buttons"]
                    ELSE [cpu EXCEPT !.pc = "x", !.from = NextPacket(@)]
      BY <1>1, <1>6, Zenon DEF UpdateY, At
    <2>2. /\ cpu'.upto = cpu.upto /\ cpu'.step = cpu.step /\ cpu'.left = cpu.left
          /\ \/ NextPacket(cpu.from) = cpu.upto /\ cpu'.pc = "buttons" /\ cpu'.from = cpu.from
             \/ /\ NextPacket(cpu.from) # cpu.upto
                /\ cpu'.pc = "x" /\ cpu'.from = NextPacket(cpu.from)
      BY <1>1, <2>1 DEF CpuState
    <2> HIDE DEF a
    <2>3. /\ mouse'.applied = a /\ mouse'.q = mouse.q /\ mouse'.r = mouse.r /\ mouse'.w = mouse.w
          /\ mouse'.overrun = mouse.overrun /\ mouse'.packet = mouse.packet /\ mouse'.size = mouse.size
      BY <1>1, <2>1, Zenon DEF MouseState
    <2> QED  BY <2>1, <2>2, <2>3 DEF a
  <1>7. ASSUME UpdateButtons
        PROVE  /\ cpu.pc = "buttons" /\ cpu'.pc = "give" /\ cpu'.upto = cpu.upto
               /\ cpu'.step = cpu.step /\ cpu'.left = cpu.left
               /\ mouse'.buttons = mouse.q[cpu.from][1] /\ mouse'.applied = mouse.applied
               /\ mouse'.q = mouse.q /\ mouse'.r = mouse.r /\ mouse'.w = mouse.w
               /\ mouse'.overrun = mouse.overrun /\ mouse'.packet = mouse.packet /\ mouse'.size = mouse.size
    <2>1. /\ cpu.pc = "buttons" /\ mouse' = [mouse EXCEPT !.buttons = mouse.q[cpu.from][1]]
          /\ cpu' = [cpu EXCEPT !.pc = "give"]
      BY <1>2, <1>7, Zenon DEF UpdateButtons, At, Goto
    <2>2. cpu'.pc = "give" /\ cpu'.upto = cpu.upto /\ cpu'.step = cpu.step /\ cpu'.left = cpu.left
      BY <1>1, <2>1, Zenon DEF CpuState
    <2>3. /\ mouse'.buttons = mouse.q[cpu.from][1] /\ mouse'.applied = mouse.applied
          /\ mouse'.q = mouse.q /\ mouse'.r = mouse.r /\ mouse'.w = mouse.w
          /\ mouse'.overrun = mouse.overrun /\ mouse'.packet = mouse.packet /\ mouse'.size = mouse.size
      BY <1>1, <2>1, Zenon DEF MouseState
    <2> QED  BY <2>1, <2>2, <2>3
  <1>8. ASSUME UpdateGive
        PROVE  /\ cpu.pc = "give" /\ cpu'.pc = "run" /\ mouse'.r = cpu.upto
               /\ cpu'.step = cpu.step /\ cpu'.left = cpu.left
               /\ mouse'.q = mouse.q /\ mouse'.w = mouse.w /\ mouse'.overrun = mouse.overrun
               /\ mouse'.applied = mouse.applied /\ mouse'.packet = mouse.packet /\ mouse'.size = mouse.size
    <2>1. /\ cpu.pc = "give" /\ mouse' = [mouse EXCEPT !.r = cpu.upto] /\ cpu' = [cpu EXCEPT !.pc = "run"]
      BY <1>8, Zenon DEF UpdateGive, At, Goto
    <2>2. cpu'.pc = "run" /\ cpu'.step = cpu.step /\ cpu'.left = cpu.left
      BY <1>1, <2>1, Zenon DEF CpuState
    <2>3. /\ mouse'.r = cpu.upto /\ mouse'.q = mouse.q /\ mouse'.w = mouse.w
          /\ mouse'.overrun = mouse.overrun /\ mouse'.applied = mouse.applied
          /\ mouse'.packet = mouse.packet /\ mouse'.size = mouse.size
      BY <1>1, <2>1, Zenon DEF MouseState
    <2> QED  BY <2>1, <2>2, <2>3
  <1>9. ASSUME Update
        PROVE  /\ UNCHANGED <<wire, ctl, isr, kbd, sent, got, lost>>
               /\ cpu.pc \in Reading \cup {"update"} /\ cpu'.pc \in Reading \cup {"run"}
    <2>1. UNCHANGED <<wire, ctl, isr, kbd, sent, got, lost>>
      BY <1>9, Zenon DEF Update, UpdateLook, UpdateBound, UpdateX, UpdateY, UpdateButtons, UpdateGive, ghosts
    <2>2. UpdateLook => cpu.pc = "update"
      BY Zenon DEF UpdateLook, At
    <2>3. cpu.pc \in {"update", "bound", "x", "y", "buttons", "give"}
      BY <1>4, <1>5, <1>6, <1>7, <1>8, <1>9, <2>2, Zenon DEF Update
    <2>4. cpu'.pc \in {"bound", "run", "x", "y", "buttons", "give"}
      BY <1>3, <1>4, <1>5, <1>6, <1>7, <1>8, <1>9, Zenon DEF Update
    <2> QED  BY <2>1, <2>3, <2>4 DEF Reading
  <1>10. ASSUME Update
         PROVE  /\ mouse'.packet = mouse.packet /\ mouse'.size = mouse.size
                /\ cpu'.step = cpu.step /\ cpu'.left = cpu.left
    BY <1>3, <1>4, <1>5, <1>6, <1>7, <1>8, <1>10, Zenon DEF Update
  <1> QED  BY <1>3, <1>4, <1>5, <1>6, <1>7, <1>8, <1>9, <1>10, Zenon

-----------------------------------------------------------------------------
(* The bytes on their way.                                                 *)

\* The bytes the devices have still to deliver, the one in the controller first.
KeysComing == IF ctl.full /\ ctl.byte.src = "kbd" THEN <<ctl.byte>> \o wire.keys ELSE wire.keys
MovesComing == IF ctl.full /\ ctl.byte.src # "kbd" THEN <<ctl.byte>> \o wire.moves ELSE wire.moves

From(S, s) == \A i \in 1 .. Len(s) : s[i].src \in S

Devices == From({"kbd"}, wire.keys) /\ From({"mouse", "ctl"}, wire.moves)

LEMMA FrontIs ==
  ASSUME NEW s \in Seq(Bytes)
  PROVE  /\ \A b \in Bytes : /\ <<b>> \o s \in Seq(Bytes) /\ <<b>> \o s # <<>> /\ Head(<<b>> \o s) = b
                             /\ Tail(<<b>> \o s) = s /\ Len(<<b>> \o s) = Len(s) + 1
         /\ s # <<>> => Head(s) \in Bytes /\ Tail(s) \in Seq(Bytes) /\ <<Head(s)>> \o Tail(s) = s
  <1>1. ASSUME NEW b \in Bytes
        PROVE  /\ <<b>> \o s \in Seq(Bytes) /\ <<b>> \o s # <<>> /\ Head(<<b>> \o s) = b
               /\ Tail(<<b>> \o s) = s /\ Len(<<b>> \o s) = Len(s) + 1
    <2> DEFINE u == <<b>> \o s
    <2>1. u \in Seq(Bytes) /\ Len(u) = Len(s) + 1 /\ u[1] = b /\ \A i \in 1 .. Len(s) : u[i + 1] = s[i]
      OBVIOUS
    <2> HIDE DEF u
    <2>2. u # <<>> /\ Head(u) = b /\ Tail(u) \in Seq(Bytes) /\ Len(Tail(u)) = Len(s)
      BY <2>1
    <2>3. \A i \in 1 .. Len(s) : Tail(u)[i] = s[i]
      BY <2>1, <2>2
    <2>4. Tail(u) = s
      BY <2>2, <2>3, SeqEqual
    <2> QED  BY <2>1, <2>2, <2>4 DEF u
  <1>2. ASSUME s # <<>>
        PROVE  Head(s) \in Bytes /\ Tail(s) \in Seq(Bytes) /\ <<Head(s)>> \o Tail(s) = s
    <2> DEFINE u == <<Head(s)>> \o Tail(s)
    <2>1. Head(s) \in Bytes /\ Head(s) = s[1] /\ Tail(s) \in Seq(Bytes) /\ Len(Tail(s)) = Len(s) - 1 /\ Len(s) \in Nat \ {0}
      BY <1>2
    <2>2. u \in Seq(Bytes) /\ Len(u) = Len(s)
      BY <2>1
    <2>3. \A i \in 1 .. Len(s) : u[i] = s[i]
      <3> TAKE i \in 1 .. Len(s)
      <3>1. CASE i = 1
        BY <2>1, <3>1
      <3>2. CASE i # 1
        <4>1. u[i] = Tail(s)[i - 1] /\ i - 1 \in 1 .. Len(s) - 1
          BY <2>1, <3>2
        <4> QED  BY <1>2, <2>1, <4>1
      <3> QED  BY <3>1, <3>2
    <2> HIDE DEF u
    <2>4. u = s
      BY <2>2, <2>3, SeqEqual
    <2> QED  BY <2>1, <2>4 DEF u
  <1> QED  BY <1>1, <1>2

LEMMA TailIs ==
  ASSUME NEW S, NEW s \in Seq(S), s # <<>>
  PROVE  /\ Head(s) = s[1] /\ Head(s) \in S /\ Tail(s) \in Seq(S) /\ Len(Tail(s)) = Len(s) - 1 /\ Len(s) \in Nat \ {0}
         /\ \A i \in 1 .. Len(s) - 1 : Tail(s)[i] = s[i + 1]
  <1>1. /\ Head(s) = s[1] /\ Head(s) \in S /\ Tail(s) \in Seq(S) /\ Len(Tail(s)) = Len(s) - 1
        /\ Len(s) \in Nat \ {0}
    OBVIOUS
  <1>2. \A i \in 1 .. Len(s) - 1 : Tail(s)[i] = s[i + 1]
    BY HeadTailProperties, <1>1
  <1> QED  BY <1>1, <1>2

LEMMA FromIs ==
  ASSUME NEW S
  PROVE  /\ From(S, <<>>)
         /\ \A s \in Seq(Bytes), u \in Seq(Bytes) : From(S, s \o u) <=> From(S, s) /\ From(S, u)
         /\ \A b \in Bytes : From(S, <<b>>) <=> b.src \in S
         /\ \A s \in Seq(Bytes) : s # <<>> /\ From(S, s) => Head(s).src \in S /\ From(S, Tail(s))
  <1>1. From(S, <<>>)
    BY DEF From
  <1>2. ASSUME NEW s \in Seq(Bytes), NEW u \in Seq(Bytes) PROVE From(S, s \o u) <=> From(S, s) /\ From(S, u)
    <2>1. \A i \in 1 .. Len(s) : i \in 1 .. Len(s \o u) /\ (s \o u)[i] = s[i]
      OBVIOUS
    <2>2. \A i \in 1 .. Len(u) : i + Len(s) \in 1 .. Len(s \o u) /\ (s \o u)[i + Len(s)] = u[i]
      OBVIOUS
    <2>3. \A i \in 1 .. Len(s \o u) : i \in 1 .. Len(s) \/ (i - Len(s) \in 1 .. Len(u) /\ (s \o u)[i] = u[i - Len(s)])
      OBVIOUS
    <2>4. From(S, s) /\ From(S, u) => From(S, s \o u)
      BY <2>1, <2>3 DEF From
    <2>5. From(S, s \o u) => From(S, s) /\ From(S, u)
      BY <2>1, <2>2, Zenon DEF From
    <2> QED  BY <2>4, <2>5
  <1>3. ASSUME NEW b \in Bytes PROVE From(S, <<b>>) <=> b.src \in S
    <2>1. Len(<<b>>) = 1 /\ <<b>>[1] = b /\ 1 .. 1 = {1}
      OBVIOUS
    <2> QED  BY <2>1, Zenon DEF From
  <1>4. ASSUME NEW s \in Seq(Bytes), s # <<>>, From(S, s) PROVE Head(s).src \in S /\ From(S, Tail(s))
    <2>1. <<Head(s)>> \o Tail(s) = s /\ Head(s) \in Bytes /\ Tail(s) \in Seq(Bytes) /\ <<Head(s)>> \in Seq(Bytes)
      BY <1>4, FrontIs
    <2>2. From(S, <<Head(s)>>) /\ From(S, Tail(s))
      BY <1>2, <1>4, <2>1
    <2> QED  BY <1>3, <2>1, <2>2
  <1> QED  BY <1>1, <1>2, <1>3, <1>4

LEMMA PiecesFrom ==
  /\ \A k \in KeyNames, up \in BOOLEAN, n \in Nat : From({"kbd"}, Stroke(k, up, n))
  /\ \A w : \A head \in {8, 72}, n \in Nat : From({"mouse"}, Packet(w, head, n))
  /\ From({"mouse", "ctl"}, Answered(wire))
  /\ Asked # "config" => From({"mouse"}, Answered(wire))
  <1>1. ASSUME NEW k \in KeyNames, NEW up \in BOOLEAN, NEW n \in Nat PROVE From({"kbd"}, Stroke(k, up, n))
    <2>1. PICK b \in Bytes : b.src = "kbd" /\ Stroke(k, up, n) \in {<<b>>, <<Byte("kbd", E0, n), b>>}
      BY StrokeIs
    <2>2. Byte("kbd", E0, n).src = "kbd"
      BY Zenon DEF Byte
    <2> DEFINE a == Byte("kbd", E0, n)
    <2>3. a.src = "kbd" /\ (Stroke(k, up, n) = <<b>> \/ Stroke(k, up, n) = <<a, b>>)
      BY <2>1, <2>2
    <2> HIDE DEF a
    <2> QED  BY <2>1, <2>3 DEF From
  <1>2. ASSUME NEW w, NEW head \in {8, 72}, NEW n \in Nat
        PROVE  From({"mouse"}, Packet(w, head, n))
    <2>1. PICK a, b, c : /\ a = Byte("mouse", head, n) /\ b = Byte("mouse", 8, n) /\ c = Byte("mouse", 0, n)
      OBVIOUS
    <2>2. a.src = "mouse" /\ b.src = "mouse" /\ c.src = "mouse"
      BY <2>1, Zenon DEF Byte
    <2>3. Packet(w, head, n) = <<a, b, c, c>> \/ Packet(w, head, n) = <<a, b, c>>
      BY <2>1, PacketIs, ZenonT(40)
    <2> QED  BY <2>2, <2>3 DEF From
  <1>3. From({"mouse", "ctl"}, Answered(wire))
    BY AnsweredIs, Zenon DEF From
  <1>4. Asked # "config" => From({"mouse"}, Answered(wire))
    BY AnsweredIs DEF From
  <1> QED  BY <1>1, <1>2, <1>3, <1>4, Zenon

\* What Send, Move and InitAsk put on the way.
LEMMA WireGains ==
  ASSUME InputTypes
  PROVE  /\ \A k \in KeyNames, up \in BOOLEAN : Send(k, up) =>
              /\ wire'.keys = wire.keys \o Stroke(k, up, Len(sent) + 1)
              /\ wire'.moves = wire.moves /\ wire'.packets = wire.packets /\ wire'.mouse = wire.mouse
              /\ wire'.wheel = wire.wheel /\ wire'.reporting = wire.reporting
         /\ \A head \in {8, 72} : Move(head) =>
              /\ wire'.moves = wire.moves \o Packet(wire, head, wire.packets + 1)
              /\ wire'.keys = wire.keys /\ wire'.packets = wire.packets + 1 /\ wire'.mouse = wire.mouse
              /\ wire'.wheel = wire.wheel /\ wire'.reporting = wire.reporting
         /\ InitAsk => /\ wire'.moves = wire.moves \o Answered(wire)
                       /\ wire'.keys = wire.keys /\ wire'.packets = wire.packets /\ wire'.mouse = wire.mouse
                       /\ wire'.reporting = (wire.reporting \/ (wire.mouse # "none" /\ Asked = "report"))
                       /\ wire'.wheel = IF wire.mouse = "none" THEN wire.wheel
                                        ELSE IF Asked = "defaults" THEN FALSE
                                        ELSE IF Asked = "id" THEN Wheel(wire) ELSE wire.wheel
         /\ Load => /\ wire'.packets = wire.packets /\ wire'.mouse = wire.mouse
                    /\ wire'.wheel = wire.wheel /\ wire'.reporting = wire.reporting
  <1>1. wire \in WireState
    BY Zenon DEF InputTypes
  <1>2. ASSUME NEW k \in KeyNames, NEW up \in BOOLEAN, Send(k, up)
        PROVE  /\ wire'.keys = wire.keys \o Stroke(k, up, Len(sent) + 1)
               /\ wire'.moves = wire.moves /\ wire'.packets = wire.packets /\ wire'.mouse = wire.mouse
               /\ wire'.wheel = wire.wheel /\ wire'.reporting = wire.reporting
    <2> DEFINE s == Stroke(k, up, Len(sent) + 1)
               h == IF up THEN wire.held \ {k} ELSE wire.held \cup {k}
    <2>1. wire' = [wire EXCEPT !.keys = @ \o s, !.held = h]
      BY <1>2, Zenon DEF Send
    <2> HIDE DEF s, h
    <2>2. /\ wire'.keys = wire.keys \o s
          /\ wire'.moves = wire.moves /\ wire'.packets = wire.packets /\ wire'.mouse = wire.mouse
          /\ wire'.wheel = wire.wheel /\ wire'.reporting = wire.reporting
      BY <1>1, <2>1, Zenon DEF WireState
    <2> QED  BY <2>2 DEF s
  <1>3. ASSUME NEW head \in {8, 72}, Move(head)
        PROVE  /\ wire'.moves = wire.moves \o Packet(wire, head, wire.packets + 1)
               /\ wire'.keys = wire.keys /\ wire'.packets = wire.packets + 1 /\ wire'.mouse = wire.mouse
               /\ wire'.wheel = wire.wheel /\ wire'.reporting = wire.reporting
    <2>1. PICK p : p = Packet(wire, head, wire.packets + 1)
      OBVIOUS
    <2>2. wire' = [wire EXCEPT !.packets = wire.packets + 1, !.moves = @ \o p]
      BY <1>3, <2>1, Zenon DEF Move
    <2>3. /\ wire'.moves = wire.moves \o p
          /\ wire'.keys = wire.keys /\ wire'.packets = wire.packets + 1 /\ wire'.mouse = wire.mouse
          /\ wire'.wheel = wire.wheel /\ wire'.reporting = wire.reporting
      BY <1>1, <2>2, Zenon DEF WireState
    <2> QED  BY <2>1, <2>3
  <1>4. ASSUME InitAsk
        PROVE  /\ wire'.moves = wire.moves \o Answered(wire)
               /\ wire'.keys = wire.keys /\ wire'.packets = wire.packets /\ wire'.mouse = wire.mouse
               /\ wire'.reporting = (wire.reporting \/ (wire.mouse # "none" /\ Asked = "report"))
               /\ wire'.wheel = IF wire.mouse = "none" THEN wire.wheel
                                ELSE IF Asked = "defaults" THEN FALSE
                                ELSE IF Asked = "id" THEN Wheel(wire) ELSE wire.wheel
    <2> DEFINE w == IF wire.mouse = "none" THEN wire ELSE Commanded(wire)
    <2>1. wire' = [w EXCEPT !.moves = @ \o Answered(wire)]
      BY <1>4, Zenon DEF InitAsk
    <2>2. /\ DOMAIN w = DOMAIN wire /\ w.moves = wire.moves /\ w.keys = wire.keys /\ w.packets = wire.packets
          /\ w.mouse = wire.mouse
          /\ wire.reporting \in BOOLEAN
          /\ {"keys", "moves", "packets", "mouse", "wheel", "reporting", "rates"} \subseteq DOMAIN wire
      BY <1>1, Zenon DEF Commanded, WireState
    <2>3. w.wheel = IF wire.mouse = "none" THEN wire.wheel
                    ELSE IF Asked = "defaults" THEN FALSE
                    ELSE IF Asked = "id" THEN Wheel(wire) ELSE wire.wheel
      <3>1. "defaults" # "id" /\ "defaults" \notin {"200", "100", "80"} /\ "id" \notin {"200", "100", "80"}
        OBVIOUS
      <3> QED  BY <1>1, <3>1, Zenon DEF Commanded, WireState
    <2>4. w.reporting = (wire.reporting \/ (wire.mouse # "none" /\ Asked = "report"))
      <3>1. "report" \notin {"200", "100", "80", "defaults", "id"}
        OBVIOUS
      <3> QED  BY <1>1, <3>1, Zenon DEF Commanded, WireState
    <2> HIDE DEF w
    <2>5. /\ wire'.moves = wire.moves \o Answered(wire)
          /\ wire'.keys = w.keys /\ wire'.packets = w.packets /\ wire'.mouse = w.mouse
          /\ wire'.wheel = w.wheel /\ wire'.reporting = w.reporting
      BY <2>1, <2>2, Zenon
    <2> QED  BY <2>2, <2>3, <2>4, <2>5
  <1>5. ASSUME Load
        PROVE  /\ wire'.packets = wire.packets /\ wire'.mouse = wire.mouse
               /\ wire'.wheel = wire.wheel /\ wire'.reporting = wire.reporting
    <2>1. PICK s : wire' = [wire EXCEPT !.keys = s] \/ wire' = [wire EXCEPT !.moves = s]
      BY <1>5, Zenon DEF Load
    <2> QED  BY <1>1, <2>1, Zenon DEF WireState
  <1> QED  BY <1>2, <1>3, <1>4, <1>5

LEMMA DevicesStep ==
  ASSUME InputTypes, Devices, Next
  PROVE  Devices'
  <1>1. /\ wire.keys \in Seq(Bytes) /\ wire.moves \in Seq(Bytes)
        /\ Len(sent) + 1 \in Nat /\ wire.packets + 1 \in Nat
    <2>1. wire.keys \in Seq(Bytes) /\ wire.moves \in Seq(Bytes) /\ sent \in Seq(Event) /\ wire.packets \in Nat
      BY Zenon DEF InputTypes, WireState
    <2> QED  BY <2>1
  <1>2. From({"kbd"}, wire.keys) /\ From({"mouse", "ctl"}, wire.moves)
    BY Zenon DEF Devices
  <1>3. ASSUME NEW k \in KeyNames, NEW up \in BOOLEAN, Send(k, up) PROVE Devices'
    <2>1. PICK s \in Seq(Bytes) : s = Stroke(k, up, Len(sent) + 1)
      BY <1>1, StrokeIs, Zenon DEF Event
    <2>2. From({"kbd"}, s)
      BY <1>1, <2>1, PiecesFrom, Zenon
    <2>3. wire'.keys = wire.keys \o s /\ wire'.moves = wire.moves
      BY <1>3, <2>1, WireGains
    <2>4. From({"kbd"}, wire.keys \o s)
      BY <1>1, <1>2, <2>2, FromIs
    <2> QED  BY <1>2, <2>3, <2>4 DEF Devices, From
  <1>4. ASSUME NEW head \in {8, 72}, Move(head) PROVE Devices'
    <2>1. PICK s \in Seq(Bytes) : s = Packet(wire, head, wire.packets + 1)
      BY <1>1, PacketIs, ZenonT(40)
    <2>2. From({"mouse"}, s)
      <3>1. \A h \in {8, 72}, n \in Nat : From({"mouse"}, Packet(wire, h, n))
        BY PiecesFrom, Zenon
      <3>2. From({"mouse"}, Packet(wire, head, wire.packets + 1))
        BY <1>1, <3>1
      <3> QED  BY <2>1, <3>2
    <2>3. From({"mouse", "ctl"}, s)
      BY <2>2 DEF From
    <2>4. wire'.keys = wire.keys /\ wire'.moves = wire.moves \o s
      BY <1>4, <2>1, WireGains
    <2>5. From({"mouse", "ctl"}, wire.moves \o s)
      BY <1>1, <1>2, <2>3, FromIs, ZenonT(40)
    <2> QED  BY <1>2, <2>4, <2>5 DEF Devices, From
  <1>5. CASE InitAsk
    <2>1. Answered(wire) \in Seq(Bytes) /\ From({"mouse", "ctl"}, Answered(wire))
      BY AnsweredIs, PiecesFrom
    <2>2. wire'.keys = wire.keys /\ wire'.moves = wire.moves \o Answered(wire)
      BY <1>5, WireGains
    <2>3. From({"mouse", "ctl"}, wire.moves \o Answered(wire))
      BY <1>1, <1>2, <2>1, FromIs
    <2> QED  BY <1>2, <2>2, <2>3, Zenon DEF Devices, From
  <1>6. CASE Load
    <2>1. wire \in WireState
      BY Zenon DEF InputTypes
    <2>2. \/ wire.keys # <<>> /\ wire'.keys = Tail(wire.keys) /\ wire'.moves = wire.moves
          \/ wire.moves # <<>> /\ wire'.moves = Tail(wire.moves) /\ wire'.keys = wire.keys
      BY <1>6, <2>1, Zenon DEF Load, WireState
    <2>3. wire.keys # <<>> => From({"kbd"}, Tail(wire.keys))
      BY <1>1, <1>2, FromIs
    <2>4. wire.moves # <<>> => From({"mouse", "ctl"}, Tail(wire.moves))
      BY <1>1, <1>2, FromIs
    <2> QED  BY <1>2, <2>2, <2>3, <2>4, Zenon DEF Devices, From
  <1>7. CASE wire' = wire
    BY <1>2, <1>7, Zenon DEF Devices, From
  <1> QED  BY <1>3, <1>4, <1>5, <1>6, <1>7, WireChanges, Zenon

LEMMA ComingTyped ==
  ASSUME InputTypes
  PROVE  /\ KeysComing \in Seq(Bytes) /\ MovesComing \in Seq(Bytes)
         /\ wire.keys \in Seq(Bytes) /\ wire.moves \in Seq(Bytes) /\ ctl.byte \in Bytes /\ ctl.full \in BOOLEAN
  <1>1. wire.keys \in Seq(Bytes) /\ wire.moves \in Seq(Bytes) /\ ctl.byte \in Bytes /\ ctl.full \in BOOLEAN
    BY Zenon DEF InputTypes, WireState, CtlState
  <1> QED  BY <1>1, FrontIs, Zenon DEF KeysComing, MovesComing

LEMMA LoadKeeps ==
  ASSUME InputTypes, Devices, Load
  PROVE  KeysComing' = KeysComing /\ MovesComing' = MovesComing
  <1>1. wire \in WireState /\ ~ctl.full
    BY Zenon DEF InputTypes, Load
  <1>2. KeysComing = wire.keys /\ MovesComing = wire.moves
    BY <1>1, Zenon DEF KeysComing, MovesComing
  <1>3. CASE /\ wire.keys # <<>> /\ ctl' = [full |-> TRUE, byte |-> Head(wire.keys)]
             /\ wire' = [wire EXCEPT !.keys = Tail(@)]
    <2>1. Head(wire.keys).src = "kbd"
      <3>1. Head(wire.keys).src \in {"kbd"}
        BY <1>3, ComingTyped, FromIs, Zenon DEF Devices
      <3> QED  BY <3>1
    <2>2. wire'.keys = Tail(wire.keys) /\ wire'.moves = wire.moves /\ ctl'.full /\ ctl'.byte = Head(wire.keys)
      BY <1>1, <1>3, Zenon DEF WireState
    <2>3. <<Head(wire.keys)>> \o Tail(wire.keys) = wire.keys
      BY <1>3, ComingTyped, FrontIs
    <2> QED  BY <1>2, <2>1, <2>2, <2>3, Zenon DEF KeysComing, MovesComing
  <1>4. CASE /\ wire.moves # <<>> /\ ctl' = [full |-> TRUE, byte |-> Head(wire.moves)]
             /\ wire' = [wire EXCEPT !.moves = Tail(@)]
    <2>1. Head(wire.moves).src # "kbd"
      <3>1. Head(wire.moves).src \in {"mouse", "ctl"}
        BY <1>4, ComingTyped, FromIs, Zenon DEF Devices
      <3> QED  BY <3>1
    <2>2. wire'.moves = Tail(wire.moves) /\ wire'.keys = wire.keys /\ ctl'.full /\ ctl'.byte = Head(wire.moves)
      BY <1>1, <1>4, Zenon DEF WireState
    <2>3. <<Head(wire.moves)>> \o Tail(wire.moves) = wire.moves
      BY <1>4, ComingTyped, FrontIs
    <2> QED  BY <1>2, <2>1, <2>2, <2>3, Zenon DEF KeysComing, MovesComing
  <1> QED  BY <1>3, <1>4, Zenon DEF Load

\* Reading the data port takes the byte in the controller, if there is one.
LEMMA ReadTakes ==
  ASSUME InputTypes, DataRead, wire' = wire
  PROVE  /\ ~ctl.full => KeysComing' = KeysComing /\ MovesComing' = MovesComing
         /\ ctl.full /\ ctl.byte.src = "kbd" =>
              /\ KeysComing # <<>> /\ Head(KeysComing) = ctl.byte /\ KeysComing' = Tail(KeysComing)
              /\ KeysComing = <<ctl.byte>> \o KeysComing'
              /\ MovesComing' = MovesComing
         /\ ctl.full /\ ctl.byte.src # "kbd" =>
              /\ MovesComing # <<>> /\ Head(MovesComing) = ctl.byte /\ MovesComing' = Tail(MovesComing)
              /\ MovesComing = <<ctl.byte>> \o MovesComing'
              /\ KeysComing' = KeysComing
         /\ MovesComing' = wire.moves /\ KeysComing' = wire.keys /\ ~ctl'.full /\ ctl'.byte = ctl.byte
  <1>1. ctl \in CtlState
    BY Zenon DEF InputTypes
  <1>2. ~ctl'.full /\ ctl'.byte = ctl.byte
    BY <1>1, Zenon DEF DataRead, CtlState
  <1>3. MovesComing' = wire.moves /\ KeysComing' = wire.keys
    BY <1>2, Zenon DEF KeysComing, MovesComing
  <1>4. ~ctl.full => KeysComing' = KeysComing /\ MovesComing' = MovesComing
    BY <1>3, Zenon DEF KeysComing, MovesComing
  <1>5. ASSUME ctl.full, ctl.byte.src = "kbd"
        PROVE  /\ KeysComing # <<>> /\ Head(KeysComing) = ctl.byte /\ KeysComing' = Tail(KeysComing)
               /\ KeysComing = <<ctl.byte>> \o KeysComing' /\ MovesComing' = MovesComing
    <2>1. KeysComing = <<ctl.byte>> \o wire.keys /\ MovesComing = wire.moves
      BY <1>5, Zenon DEF KeysComing, MovesComing
    <2> QED  BY <1>3, <2>1, ComingTyped, FrontIs
  <1>6. ASSUME ctl.full, ctl.byte.src # "kbd"
        PROVE  /\ MovesComing # <<>> /\ Head(MovesComing) = ctl.byte /\ MovesComing' = Tail(MovesComing)
               /\ MovesComing = <<ctl.byte>> \o MovesComing' /\ KeysComing' = KeysComing
    <2>1. MovesComing = <<ctl.byte>> \o wire.moves /\ KeysComing = wire.keys
      BY <1>6, Zenon DEF KeysComing, MovesComing
    <2> QED  BY <1>3, <2>1, ComingTyped, FrontIs
  <1> QED  BY <1>2, <1>3, <1>4, <1>5, <1>6

LEMMA GainsCome ==
  ASSUME InputTypes, ctl' = ctl
  PROVE  /\ \A s \in Seq(Bytes) : wire'.keys = wire.keys \o s => KeysComing' = KeysComing \o s
         /\ \A s \in Seq(Bytes) : wire'.moves = wire.moves \o s => MovesComing' = MovesComing \o s
         /\ wire'.keys = wire.keys => KeysComing' = KeysComing
         /\ wire'.moves = wire.moves => MovesComing' = MovesComing
  <1>1. \A s \in Seq(Bytes), u \in Seq(Bytes), b \in Bytes : <<b>> \o (s \o u) = (<<b>> \o s) \o u
    <2> TAKE s \in Seq(Bytes), u \in Seq(Bytes), b \in Bytes
    <2>1. <<b>> \in Seq(Bytes)
      OBVIOUS
    <2> QED  BY <2>1, ConcatAssociative
  <1>2. ASSUME NEW s \in Seq(Bytes), wire'.keys = wire.keys \o s PROVE KeysComing' = KeysComing \o s
    <2>1. <<ctl.byte>> \o (wire.keys \o s) = (<<ctl.byte>> \o wire.keys) \o s
      BY <1>1, ComingTyped
    <2> QED  BY <1>2, <2>1, Zenon DEF KeysComing
  <1>3. ASSUME NEW s \in Seq(Bytes), wire'.moves = wire.moves \o s PROVE MovesComing' = MovesComing \o s
    <2>1. <<ctl.byte>> \o (wire.moves \o s) = (<<ctl.byte>> \o wire.moves) \o s
      BY <1>1, ComingTyped
    <2> QED  BY <1>3, <2>1, Zenon DEF MovesComing
  <1> QED  BY <1>2, <1>3, Zenon DEF KeysComing, MovesComing

-----------------------------------------------------------------------------
(* The dialogue of the start-up.                                           *)

\* Only the start-up moves along the script.
LEMMA ScriptKept ==
  ASSUME InputTypes, Next, ~StartUp
  PROVE  cpu'.step = cpu.step /\ cpu'.left = cpu.left
  <1>0. cpu \in CpuState
    BY Zenon DEF InputTypes
  <1> DEFINE Kept == cpu'.step = cpu.step /\ cpu'.left = cpu.left
  <1>1. /\ \A l : Goto(l) => Kept
        /\ \A l, ev : cpu' = [cpu EXCEPT !.pc = l, !.ev = ev] => Kept
        /\ \A l, p : cpu' = [cpu EXCEPT !.pc = l, !.program = p] => Kept
        /\ \A l, p : cpu' = [cpu EXCEPT !.pc = l, !.head = p] => Kept
        /\ \A l, p : cpu' = [cpu EXCEPT !.pc = l, !.aux = p] => Kept
        /\ cpu' = cpu => Kept
    BY <1>0, Zenon DEF CpuState, Goto
  <1> HIDE DEF Kept
  <1>2. CASE MainLoop
    <2>1. PopNothing \/ Halt => Kept
      BY <1>1, Zenon DEF PopNothing, Halt
    <2>2. PopLook => Kept
      BY <1>1, Zenon DEF PopLook
    <2>3. PopAdvance => Kept
      BY <1>1, Zenon DEF PopAdvance
    <2> QED  BY <1>2, <2>1, <2>2, <2>3, Zenon DEF MainLoop, Kept
  <1>3. CASE Program
    <2>1. EndProgram => Kept
      BY <1>1, Zenon DEF EndProgram
    <2>2. PollStatus \/ PollStore \/ PollPublish => Kept
      BY <1>1, Zenon DEF PollStatus, PollStore, PollPublish
    <2>3. PollData => Kept
      BY <1>1, Zenon DEF PollData
    <2>4. PollJoin => Kept
      BY <1>1, Zenon DEF PollJoin
    <2>5. PollSlot => Kept
      BY <1>1, Zenon DEF PollSlot
    <2>6. MousePoll \/ MouseQueue => Kept
      BY <1>1, Zenon DEF MousePoll, MouseQueue
    <2>7. MouseSource => Kept
      BY <1>1, Zenon DEF MouseSource
    <2>8. MouseFetch => Kept
      BY <1>1, Zenon DEF MouseFetch
    <2>9. MouseStore => Kept
      BY <1>1, Zenon DEF MouseStore
    <2>10. MouseComplete => Kept
      BY <1>1, Zenon DEF MouseComplete
    <2>11. Update => Kept
      BY UpdateDoes, Zenon DEF Kept
    <2> QED
      BY <1>3, <2>1, <2>2, <2>3, <2>4, <2>5, <2>6, <2>7, <2>8, <2>9, <2>10, <2>11, Zenon DEF Program, Kept
  <1> QED  BY <1>0, <1>1, <1>2, <1>3, CpuChanges, Zenon DEF Kept

StartUpLabels == {"drain", "ask", "answer", "flush", "undefined"}

\* What is still to come while the script is gone through, and what it has agreed with the
\* mouse in the end.
StartOk ==
  /\ wire.reporting => cpu.step = 10 /\ wire.mouse # "none" /\ cpu.pc \notin {"drain", "ask"}
  /\ wire.mouse # "none" /\ cpu.step = 10 => mouse.size = IF wire.wheel THEN 4 ELSE 3
  /\ ~wire.reporting => wire.packets = 0 /\ (cpu.pc \notin {"answer", "undefined"} => MovesComing = <<>>)
  /\ cpu.pc \notin {"answer", "undefined"} => From({"mouse"}, MovesComing)
  /\ cpu.pc = "answer" =>
       /\ cpu.left \in {1, 2} /\ (cpu.left = 2 => Asked = "id")
       /\ \/ ~wire.reporting /\ wire.mouse = "none" /\ Asked # "config" /\ MovesComing = <<>>
          \/ /\ ~wire.reporting /\ Len(MovesComing) = cpu.left
             /\ Asked # "config" => From({"mouse"}, MovesComing)
             /\ Asked = "id" => Last(MovesComing).val = IF wire.wheel THEN 3 ELSE 0
          \/ wire.reporting /\ cpu.left = 1 /\ MovesComing # <<>> /\ From({"mouse"}, MovesComing)

LEMMA ScriptIs ==
  ASSUME cpu \in CpuState
  PROVE  /\ Len(Script) = 10
         /\ (Asked = "config" <=> cpu.step = 1) /\ (Asked = "id" <=> cpu.step = 9) /\ (Asked = "report" <=> cpu.step = 10)
  <1>1. cpu.step \in 1 .. 10
    BY Zenon DEF CpuState
  <1>2. Len(Script) = 10
    BY DEF Script
  <1>3. /\ Script[1] = "config" /\ Script[2] = "defaults" /\ Script[3] = "rate" /\ Script[4] = "200" /\ Script[5] = "rate"
        /\ Script[6] = "100" /\ Script[7] = "rate" /\ Script[8] = "80" /\ Script[9] = "id" /\ Script[10] = "report"
    BY DEF Script
  <1>4. \/ cpu.step = 1 \/ cpu.step = 2 \/ cpu.step = 3 \/ cpu.step = 4 \/ cpu.step = 5
        \/ cpu.step = 6 \/ cpu.step = 7 \/ cpu.step = 8 \/ cpu.step = 9 \/ cpu.step = 10
    BY <1>1
  <1> QED  BY <1>2, <1>3, <1>4 DEF Asked

\* Steps that leave the script and what is to come alone, and the reads of a handler.
LEMMA StartFrame ==
  ASSUME InputTypes, StartOk,
         cpu'.step = cpu.step, cpu'.left = cpu.left, mouse'.size = mouse.size,
         wire'.mouse = wire.mouse, wire'.wheel = wire.wheel,
         wire'.reporting = wire.reporting, wire'.packets = wire.packets,
         \/ cpu'.pc = cpu.pc /\ MovesComing' = MovesComing
         \/ /\ cpu.pc \notin StartUpLabels /\ cpu'.pc \notin StartUpLabels \ {"undefined"}
            /\ MovesComing' = MovesComing \/ (MovesComing # <<>> /\ MovesComing' = Tail(MovesComing))
  PROVE  StartOk'
  <1>1. Asked' = Asked
    BY Zenon DEF Asked, Script
  <1>2. CASE cpu'.pc = cpu.pc /\ MovesComing' = MovesComing
    BY <1>1, <1>2, Zenon DEF StartOk, From, Last
  <1>3. CASE /\ cpu.pc \notin StartUpLabels /\ cpu'.pc \notin StartUpLabels \ {"undefined"}
             /\ MovesComing' = MovesComing \/ (MovesComing # <<>> /\ MovesComing' = Tail(MovesComing))
    <2>1. /\ cpu.pc \notin {"answer", "undefined", "drain", "ask"}
          /\ cpu'.pc \notin {"drain", "ask", "answer"}
      BY <1>3 DEF StartUpLabels
    <2>2. From({"mouse"}, MovesComing) /\ (~wire.reporting => MovesComing = <<>>)
      BY <2>1, Zenon DEF StartOk
    <2>3. MovesComing # <<>> => From({"mouse"}, Tail(MovesComing))
      BY <2>2, ComingTyped, FromIs
    <2>4. From({"mouse"}, MovesComing')
      BY <1>3, <2>2, <2>3, Zenon
    <2>5. ~wire.reporting => MovesComing' = <<>>
      BY <1>3, <2>2
    <2> QED  BY <2>1, <2>4, <2>5, Zenon DEF StartOk, From
  <1> QED  BY <1>2, <1>3

\* The answer to each line of the script.
LEMMA AnswersAre ==
  /\ wire.mouse = "none" /\ Asked # "config" => Answered(wire) = <<>>
  /\ wire.mouse # "none" \/ Asked = "config" => Len(Answered(wire)) = Answers
  /\ wire.mouse # "none" /\ Asked = "id" => Last(Answered(wire)).val = IF Wheel(wire) THEN 3 ELSE 0
  /\ Answers = IF Asked = "id" THEN 2 ELSE 1
  <1> DEFINE a == Byte("ctl", 71, 0)
             b == Byte("mouse", ACK, 0)
             c == Byte("mouse", IF Wheel(wire) THEN 3 ELSE 0, 0)
  <1>1. Answered(wire) = CASE Asked = "config" -> <<a>>
                           [] Asked # "config" /\ wire.mouse = "none" -> <<>>
                           [] Asked = "id" /\ wire.mouse # "none" -> <<b, c>>
                           [] OTHER -> <<b>>
    BY DEF Answered
  <1>2. c.val = IF Wheel(wire) THEN 3 ELSE 0
    BY Zenon DEF Byte
  <1> HIDE DEF a, b, c
  <1>3. Answers = IF Asked = "id" THEN 2 ELSE 1
    BY DEF Answers
  <1>4. Asked = "config" => Answered(wire) = <<a>> /\ Answers = 1
    BY <1>1, <1>3
  <1>5. wire.mouse = "none" /\ Asked # "config" => Answered(wire) = <<>>
    BY <1>1
  <1>6. wire.mouse # "none" /\ Asked = "id" => Answered(wire) = <<b, c>>
    BY <1>1
  <1>7. wire.mouse # "none" /\ Asked # "id" /\ Asked # "config" => Answered(wire) = <<b>>
    BY <1>1
  <1>8. Len(<<b, c>>) = 2 /\ Last(<<b, c>>) = c /\ Len(<<a>>) = 1 /\ Len(<<b>>) = 1
    BY DEF Last
  <1>9. wire.mouse # "none" \/ Asked = "config" => Len(Answered(wire)) = Answers
    BY <1>3, <1>4, <1>6, <1>7, <1>8
  <1> QED  BY <1>2, <1>3, <1>5, <1>6, <1>8, <1>9

LEMMA StartAsk ==
  ASSUME InputTypes, StartOk, InitAsk
  PROVE  StartOk'
  <1>1. cpu \in CpuState /\ cpu.pc = "ask" /\ wire.reporting \in BOOLEAN /\ wire.wheel \in BOOLEAN
    BY Zenon DEF InputTypes, InitAsk, At, WireState
  <1>2. cpu' = [cpu EXCEPT !.pc = "answer", !.left = Answers]
    BY Zenon DEF InitAsk
  <1>3. cpu'.pc = "answer" /\ cpu'.left = Answers /\ cpu'.step = cpu.step
    BY <1>1, <1>2, Zenon DEF CpuState
  <1>4. ~wire.reporting /\ MovesComing = <<>> /\ wire.packets = 0
    BY <1>1 DEF StartOk
  <1>5. MovesComing' = Answered(wire)
    <2>1. Answered(wire) \in Seq(Bytes) /\ wire'.moves = wire.moves \o Answered(wire) /\ ctl' = ctl
      BY AnsweredIs, WireGains, Zenon DEF InitAsk
    <2>2. MovesComing' = <<>> \o Answered(wire)
      BY <1>4, <2>1, GainsCome
    <2> QED  BY <2>1, <2>2, ConcatEmptySeq
  <1>6. /\ wire'.packets = wire.packets /\ wire'.mouse = wire.mouse /\ mouse' = mouse
        /\ wire'.reporting = (wire.mouse # "none" /\ Asked = "report")
        /\ wire.mouse # "none" /\ Asked = "id" => wire'.wheel = Wheel(wire)
        /\ Asked = "report" => wire'.wheel = wire.wheel
    <2>1. mouse' = mouse
      BY Zenon DEF InitAsk
    <2>2. "report" # "id" /\ "report" # "defaults" /\ "id" # "defaults"
      OBVIOUS
    <2> QED  BY <1>4, <2>1, <2>2, WireGains, Zenon
  <1>7. Asked' = Asked
    BY <1>3, Zenon DEF Asked, Script
  <1>8. Asked # "id" => Answers = 1
    BY AnswersAre
  <1>9. Asked = "id" => Answers = 2
    BY AnswersAre
  <1>10. ~wire'.reporting => wire'.packets = 0
    BY <1>4, <1>6
  <1>11. wire'.reporting => cpu'.step = 10 /\ wire'.mouse # "none"
    BY <1>1, <1>3, <1>6, ScriptIs
  <1>12. wire'.mouse # "none" /\ cpu'.step = 10 => mouse'.size = IF wire'.wheel THEN 4 ELSE 3
    BY <1>1, <1>3, <1>6, ScriptIs DEF StartOk
  <1>13. \/ ~wire'.reporting /\ wire'.mouse = "none" /\ Asked' # "config" /\ MovesComing' = <<>>
         \/ /\ ~wire'.reporting /\ Len(MovesComing') = cpu'.left
            /\ Asked' # "config" => From({"mouse"}, MovesComing')
            /\ Asked' = "id" => Last(MovesComing').val = IF wire'.wheel THEN 3 ELSE 0
         \/ wire'.reporting /\ cpu'.left = 1 /\ MovesComing' # <<>> /\ From({"mouse"}, MovesComing')
    <2>1. CASE wire.mouse = "none" /\ Asked # "config"
      BY <1>5, <1>6, <1>7, <2>1, AnswersAre
    <2>2. CASE Asked = "config"
      <3>1. ~wire'.reporting /\ Asked' # "id" /\ Asked' = "config"
        BY <1>6, <1>7, <2>2
      <3>2. Len(MovesComing') = cpu'.left
        BY <1>3, <1>5, <2>2, AnswersAre
      <3> QED  BY <3>1, <3>2
    <2>3. CASE wire.mouse # "none" /\ Asked # "config"
      <3>1. Len(MovesComing') = cpu'.left /\ From({"mouse"}, MovesComing')
        BY <1>3, <1>5, <2>3, AnswersAre, PiecesFrom
      <3>2. CASE Asked = "report"
        <4>1. wire'.reporting /\ cpu'.left = 1
          BY <1>3, <1>6, <1>8, <2>3, <3>2
        <4>2. MovesComing' # <<>>
          BY <3>1, <4>1
        <4> QED  BY <3>1, <4>1, <4>2
      <3>3. CASE Asked # "report"
        <4>1. ~wire'.reporting
          BY <1>6, <3>3
        <4>2. Asked' = "id" => Last(MovesComing').val = IF wire'.wheel THEN 3 ELSE 0
          BY <1>5, <1>6, <1>7, <2>3, AnswersAre
        <4> QED  BY <3>1, <4>1, <4>2
      <3> QED  BY <3>2, <3>3
    <2> QED  BY <2>1, <2>2, <2>3
  <1>14. cpu'.left \in {1, 2} /\ (cpu'.left = 2 => Asked' = "id")
    BY <1>3, <1>7, <1>8, <1>9
  <1>15. cpu'.pc \notin {"drain", "ask"} /\ cpu'.pc \in {"answer", "undefined"}
    BY <1>3
  <1> QED  BY <1>10, <1>11, <1>12, <1>13, <1>14, <1>15, Zenon DEF StartOk, From

LEMMA StartAnswer ==
  ASSUME InputTypes, StartOk, InitAnswer
  PROVE  StartOk'
  <1> DEFINE M == MovesComing
             size(v) == IF Asked = "id" /\ cpu.left = 1 THEN IF v = 3 THEN 4 ELSE 3 ELSE mouse.size
  <1>1. cpu \in CpuState /\ mouse \in MouseState /\ cpu.pc = "answer" /\ ctl.full \in BOOLEAN /\ wire' = wire
    BY ComingTyped, Zenon DEF InputTypes, InitAnswer, At
  <1>2. cpu.left \in {1, 2} /\ (cpu.left = 2 => Asked = "id") /\ cpu.step \in 1 .. 10
    BY <1>1, Zenon DEF StartOk, CpuState
  <1>3. M \in Seq(Bytes) /\ wire.moves \in Seq(Bytes)
    BY ComingTyped
  <1>4. mouse'.size = size(ctl.byte.val)
    <2>1. mouse' = [mouse EXCEPT !.size = SizeAfter(ctl.byte.val)]
      BY Zenon DEF InitAnswer
    <2>2. mouse'.size = SizeAfter(ctl.byte.val)
      BY <1>1, <2>1, Zenon DEF MouseState
    <2> QED  BY <2>2, Zenon DEF SizeAfter
  <1>5. DataRead /\ (ctl.full \/ wire.moves = <<>>)
    BY Zenon DEF InitAnswer
  <1>8. Len(Script) = 10
    BY <1>1, ScriptIs
  <1>6. CASE ctl.full /\ ctl.byte.src = "kbd"
    <2>1. cpu' = [cpu EXCEPT !.pc = "undefined"]
      BY <1>6, Zenon DEF InitAnswer
    <2>2. cpu'.pc = "undefined" /\ cpu'.step = cpu.step
      BY <1>1, <2>1, Zenon DEF CpuState
    <2>3. wire'.mouse # "none" /\ cpu'.step = 10 => mouse'.size = IF wire'.wheel THEN 4 ELSE 3
      BY <1>1, <1>4, <2>2, ScriptIs DEF StartOk
    <2>4. cpu'.pc \in {"answer", "undefined"} /\ cpu'.pc \notin {"answer", "drain", "ask"}
      BY <2>2
    <2> QED  BY <1>1, <2>2, <2>3, <2>4, Zenon DEF StartOk
  <1>7. CASE ~(ctl.full /\ ctl.byte.src = "kbd")
    <2>1. \/ cpu.left > 1 /\ cpu' = [cpu EXCEPT !.left = cpu.left - 1]
          \/ ~(cpu.left > 1) /\ cpu.step < Len(Script) /\ cpu' = [cpu EXCEPT !.pc = "ask", !.step = cpu.step + 1]
          \/ ~(cpu.left > 1) /\ ~(cpu.step < Len(Script)) /\ cpu' = [cpu EXCEPT !.pc = "flush"]
      BY <1>7, Zenon DEF InitAnswer
    <2>2. \/ cpu.left = 2 /\ cpu'.pc = "answer" /\ cpu'.left = 1 /\ cpu'.step = cpu.step
          \/ cpu.left = 1 /\ cpu.step < 10 /\ cpu'.pc = "ask" /\ cpu'.step = cpu.step + 1
          \/ cpu.left = 1 /\ cpu.step = 10 /\ cpu'.pc = "flush" /\ cpu'.step = cpu.step
      <3>1. CASE cpu.left > 1 /\ cpu' = [cpu EXCEPT !.left = cpu.left - 1]
        <4>1. cpu.left = 2 /\ cpu.left - 1 = 1
          BY <1>2, <3>1
        <4> QED  BY <1>1, <3>1, <4>1, Zenon DEF CpuState
      <3>2. CASE ~(cpu.left > 1) /\ cpu.step < Len(Script) /\ cpu' = [cpu EXCEPT !.pc = "ask", !.step = cpu.step + 1]
        <4>1. cpu.left = 1 /\ cpu.step < 10
          BY <1>2, <1>8, <3>2
        <4> QED  BY <1>1, <3>2, <4>1, Zenon DEF CpuState
      <3>3. CASE ~(cpu.left > 1) /\ ~(cpu.step < Len(Script)) /\ cpu' = [cpu EXCEPT !.pc = "flush"]
        <4>1. cpu.left = 1 /\ cpu.step = 10
          BY <1>2, <1>8, <3>3
        <4> QED  BY <1>1, <3>3, <4>1, Zenon DEF CpuState
      <3> QED  BY <2>1, <3>1, <3>2, <3>3
    <2>3. \/ M = <<>> /\ M' = <<>>
          \/ M # <<>> /\ M' = Tail(M) /\ ctl.byte = Head(M)
      <3>1. CASE ctl.full
        BY <1>1, <1>5, <1>7, <3>1, ReadTakes, Zenon
      <3>2. CASE ~ctl.full
        <4>1. M = <<>>
          BY <1>5, <3>2, Zenon DEF MovesComing
        <4>2. M' = <<>>
          BY <1>1, <1>5, <3>2, <4>1, ReadTakes, Zenon
        <4> QED  BY <4>1, <4>2
      <3> QED  BY <3>1, <3>2
    <2>4. Asked' = IF cpu'.step = cpu.step THEN Asked ELSE Script[cpu'.step]
      BY DEF Asked, Script
    <2>5. From({"mouse"}, <<>>) /\ (M # <<>> /\ From({"mouse"}, M) => From({"mouse"}, Tail(M)))
      BY <1>3, FromIs
    <2>6. CASE ~wire.reporting /\ wire.mouse = "none" /\ Asked # "config" /\ M = <<>>
      <3>1. M' = <<>>
        BY <2>3, <2>6
      <3>2. CASE cpu'.pc = "answer"
        <4>1. cpu'.left = 1 /\ Asked' # "config" /\ cpu'.left \in {1, 2} /\ cpu'.left # 2
          BY <2>2, <2>4, <2>6, <3>2
        <4>2. cpu'.pc \notin {"drain", "ask"} /\ cpu'.pc \in {"answer", "undefined"}
          BY <3>2
        <4> QED  BY <1>1, <2>6, <3>1, <4>1, <4>2, Zenon DEF StartOk
      <3>3. CASE cpu'.pc # "answer"
        BY <1>1, <2>5, <2>6, <3>1, <3>3, Zenon DEF StartOk
      <3> QED  BY <3>2, <3>3
    <2>7. CASE /\ ~wire.reporting /\ Len(M) = cpu.left
               /\ Asked # "config" => From({"mouse"}, M)
               /\ Asked = "id" => Last(M).val = IF wire.wheel THEN 3 ELSE 0
      <3>1. M # <<>> /\ M' = Tail(M) /\ ctl.byte = Head(M)
        BY <1>2, <1>3, <2>3, <2>7
      <3>2. Len(M') = cpu.left - 1 /\ M' \in Seq(Bytes)
        BY <1>3, <2>7, <3>1
      <3>3. CASE cpu.left = 2 /\ cpu'.pc = "answer" /\ cpu'.left = 1 /\ cpu'.step = cpu.step
        <4>1. Asked = "id" /\ Asked' = "id" /\ cpu.step = 9
          BY <1>1, <1>2, <2>4, <3>3, ScriptIs
        <4>2. Last(M') = Last(M)
          <5>1. Len(M) = 2 /\ Len(M') = 1
            BY <2>7, <3>2, <3>3
          <5>2. Tail(M)[1] = M[2]
            <6>1. \A i \in 1 .. Len(M) - 1 : Tail(M)[i] = M[i + 1]
              BY <1>3, <3>1, TailIs, Zenon
            <6>2. 1 \in 1 .. Len(M) - 1 /\ 1 + 1 = 2
              BY <5>1
            <6> QED  BY <6>1, <6>2
          <5> QED  BY <3>1, <5>1, <5>2, Zenon DEF Last
        <4>3. From({"mouse"}, M') /\ Last(M').val = (IF wire.wheel THEN 3 ELSE 0) /\ Len(M') = cpu'.left
          BY <2>5, <2>7, <3>1, <3>2, <3>3, <4>1, <4>2
        <4>4. cpu'.pc \notin {"drain", "ask"} /\ cpu'.pc \in {"answer", "undefined"} /\ cpu'.left \in {1, 2} /\ cpu'.step # 10
          BY <3>3, <4>1
        <4> QED  BY <1>1, <2>7, <4>1, <4>3, <4>4, Zenon DEF StartOk
      <3>4. CASE cpu.left = 1 /\ cpu'.pc \in {"ask", "flush"}
        <4>1. M' = <<>>
          BY <3>2, <3>4
        <4>2. wire'.mouse # "none" /\ cpu'.step = 10 => mouse'.size = IF wire'.wheel THEN 4 ELSE 3
          <5>1. CASE cpu.step = 9
            <6>1. Asked = "id" /\ Last(M) = Head(M)
              BY <1>1, <1>3, <2>7, <3>4, <5>1, ScriptIs DEF Last
            <6>2. ctl.byte.val = IF wire.wheel THEN 3 ELSE 0
              BY <2>7, <3>1, <6>1
            <6>3. mouse'.size = IF ctl.byte.val = 3 THEN 4 ELSE 3
              BY <1>4, <3>4, <6>1
            <6> QED  BY <1>1, <6>2, <6>3
          <5>2. CASE cpu.step # 9
            <6>1. cpu'.step = 10 => cpu.step = 10
              BY <1>2, <2>2, <5>2
            <6>2. mouse'.size = mouse.size
              BY <1>1, <1>4, <5>2, ScriptIs
            <6> QED  BY <1>1, <6>1, <6>2 DEF StartOk
          <5> QED  BY <5>1, <5>2
        <4>3. cpu'.pc # "answer"
          BY <3>4
        <4> QED  BY <1>1, <2>5, <2>7, <4>1, <4>2, <4>3, Zenon DEF StartOk
      <3> QED  BY <2>2, <3>3, <3>4
    <2>8. CASE wire.reporting /\ cpu.left = 1 /\ M # <<>> /\ From({"mouse"}, M)
      <3>1. cpu.step = 10 /\ wire.mouse # "none"
        BY <2>8, Zenon DEF StartOk
      <3>2. cpu'.pc = "flush" /\ cpu'.step = 10
        BY <2>2, <2>8, <3>1
      <3>3. mouse'.size = mouse.size
        BY <1>1, <1>4, <3>1, ScriptIs
      <3>4. From({"mouse"}, M')
        BY <2>3, <2>5, <2>8
      <3>5. mouse'.size = IF wire'.wheel THEN 4 ELSE 3
        BY <1>1, <3>1, <3>3, Zenon DEF StartOk
      <3>6. cpu'.pc \notin {"drain", "ask", "answer"}
        BY <3>2
      <3> QED  BY <1>1, <2>8, <3>1, <3>2, <3>4, <3>5, <3>6, Zenon DEF StartOk
    <2> QED  BY <1>1, <2>6, <2>7, <2>8 DEF StartOk
  <1> QED  BY <1>6, <1>7

\* Before interrupts are switched on nothing has been handled, and a packet never fills
\* the array.
Untouched ==
  cpu.pc \in StartUpLabels =>
    /\ isr = "none" /\ got = <<>> /\ kbd.head = kbd.tail /\ kbd.e0 = <<>>
    /\ mouse.packet = <<>> /\ mouse.r = mouse.w /\ mouse.applied = <<>>

Short == Len(mouse.packet) < mouse.size

\* mouse_handler takes a byte of the mouse, or drops one of the keyboard.
LEMMA MouseByteDoes ==
  ASSUME InputTypes, Short, MouseByte
  PROVE  /\ cpu' = cpu /\ isr = "mouse" /\ ctl.full /\ DataRead
         /\ UNCHANGED <<wire, kbd, sent, got, isr>>
         /\ \/ Aux /\ Refused(mouse, ctl.byte) /\ mouse' = mouse /\ lost' = lost \cup {"mouse"}
            \/ Aux /\ ~Refused(mouse, ctl.byte) /\ mouse' = Assembled(mouse, ctl.byte) /\ lost' = lost
            \/ ~Aux /\ mouse' = mouse /\ lost' = lost \cup {"kbd"}
  <1>1. mouse \in MouseState /\ ctl.byte \in Bytes
    BY Zenon DEF InputTypes, CtlState
  <1>2. ~PastTheEnd(mouse, ctl.byte)
    <2>1. mouse.packet \in Seq(Bytes) /\ mouse.size \in {3, 4}
      BY <1>1, Zenon DEF MouseState
    <2>2. Len(mouse.packet) # 4
      <3>1. Len(mouse.packet) \in Nat /\ Len(mouse.packet) < mouse.size
        BY <2>1 DEF Short
      <3> HIDE DEF Short
      <3> QED  BY <2>1, <3>1, SMTT(30)
    <2> QED  BY <2>2, Zenon DEF PastTheEnd
  <1>3. cpu' = cpu /\ mouse' = IF Aux THEN Assembled(mouse, ctl.byte) ELSE mouse
    BY <1>2, Zenon DEF MouseByte
  <1>4. /\ isr = "mouse" /\ ctl.full /\ DataRead /\ UNCHANGED <<wire, kbd, sent, got, isr>>
        /\ lost' = IF Aux THEN Losing("mouse", Refused(mouse, ctl.byte)) ELSE lost \cup {"kbd"}
    BY Zenon DEF MouseByte
  <1>5. Refused(mouse, ctl.byte) => Assembled(mouse, ctl.byte) = mouse
    BY <1>1, AssembledTyped
  <1> QED  BY <1>3, <1>4, <1>5, Zenon DEF Losing

LEMMA StartUpDoes ==
  ASSUME InputTypes, StartUp
  PROVE  /\ isr' = isr /\ isr = "none" /\ got' = got /\ kbd' = kbd /\ cpu.pc \in StartUpLabels
         /\ mouse'.r = mouse.r /\ mouse'.w = mouse.w /\ mouse'.applied = mouse.applied
         /\ mouse'.packet = mouse.packet \/ mouse'.packet = <<>>
         /\ mouse'.q = mouse.q /\ mouse'.overrun = mouse.overrun /\ mouse'.buttons = mouse.buttons
  <1>1. mouse \in MouseState
    BY Zenon DEF InputTypes
  <1>2. isr' = isr /\ got' = got /\ kbd' = kbd
    BY Zenon DEF StartUp, InitDrain, InitDrained, InitAsk, InitAnswer, InitFlush, InitDone, ghosts
  <1>3. isr = "none" /\ cpu.pc \in StartUpLabels
    BY Zenon DEF StartUp, InitDrain, InitDrained, InitAsk, InitAnswer, InitFlush, InitDone, At, StartUpLabels
  <1>4. \/ mouse' = mouse \/ mouse' = [mouse EXCEPT !.packet = <<>>]
        \/ mouse' = [mouse EXCEPT !.size = SizeAfter(ctl.byte.val)]
    BY Zenon DEF StartUp, InitDrain, InitDrained, InitAsk, InitAnswer, InitFlush, InitDone
  <1>5. /\ mouse'.r = mouse.r /\ mouse'.w = mouse.w /\ mouse'.applied = mouse.applied
        /\ mouse'.packet = mouse.packet \/ mouse'.packet = <<>>
        /\ mouse'.q = mouse.q /\ mouse'.overrun = mouse.overrun /\ mouse'.buttons = mouse.buttons
    BY <1>1, <1>4, Zenon DEF MouseState
  <1> QED  BY <1>2, <1>3, <1>5

LEMMA UntouchedStep ==
  ASSUME InputTypes, Quiet, Untouched, Short, [Next]_vars, ~polled'
  PROVE  Untouched'
  <1>0. cpu \in CpuState
    BY Zenon DEF InputTypes
  <1> DEFINE Frame == UNCHANGED <<kbd, mouse, got, isr>>
  <1>1. CASE Frame /\ cpu' = cpu
    BY <1>1, Zenon DEF Untouched
  <1>2. ASSUME NEW k \in KeyNames, NEW up \in BOOLEAN, Send(k, up) PROVE Untouched'
    BY <1>1, <1>2, Zenon DEF Send
  <1>3. ASSUME NEW head \in {8, 72}, Move(head) PROVE Untouched'
    BY <1>1, <1>3, Zenon DEF Move, ghosts
  <1>4. CASE Load
    BY <1>1, <1>4, Zenon DEF Load, ghosts
  <1>5. CASE KbdPrefix \/ KbdKey \/ KbdForeign
    <2>1. cpu' = Woken /\ cpu.pc \notin StartUpLabels
      BY <1>5, Zenon DEF KbdPrefix, KbdKey, KbdForeign, Taken, StartingUp, StartUpLabels
    <2>2. cpu' = cpu \/ Goto("pop")
      BY <2>1, Zenon DEF Woken, Goto
    <2>3. cpu'.pc = cpu.pc \/ cpu'.pc = "pop"
      BY <1>0, <2>2, PcTo, Zenon
    <2> QED  BY <2>1, <2>3 DEF Untouched, StartUpLabels
  <1>6. CASE MouseByte
    <2>1. cpu' = cpu /\ isr = "mouse"
      BY <1>6, MouseByteDoes
    <2>2. cpu.pc \notin StartUpLabels
      BY <2>1, Zenon DEF Untouched
    <2> QED  BY <2>1, <2>2, Zenon DEF Untouched
  <1>7. CASE StartUp
    <2>1. /\ isr' = isr /\ isr = "none" /\ got' = got /\ kbd' = kbd /\ cpu.pc \in StartUpLabels
          /\ mouse'.r = mouse.r /\ mouse'.w = mouse.w /\ mouse'.applied = mouse.applied
          /\ mouse'.packet = mouse.packet \/ mouse'.packet = <<>>
      BY <1>7, StartUpDoes
    <2> QED  BY <2>1, Zenon DEF Untouched
  <1>8. CASE PopLook \/ PopAdvance \/ Update
    <2>1. cpu'.pc \in {"advance", "pop", "run"} \/ cpu'.pc \in Reading \cup {"run"}
      BY <1>0, <1>8, PcNext, UpdateDoes, Zenon
    <2>2. cpu'.pc \notin StartUpLabels
      BY <2>1 DEF StartUpLabels, Reading
    <2> QED  BY <2>2, Zenon DEF Untouched
  <1>9. CASE Still
    <2>1. UNCHANGED <<kbd, mouse, got>> /\ CpuMoved /\ (isr' = isr \/ ~StartingUp \/ isr = "mouse")
      BY <1>9, Zenon DEF Still
    <2>2. CASE cpu' = cpu /\ isr' = isr
      BY <1>1, <2>1, <2>2, Zenon
    <2>3. CASE cpu' = cpu /\ (~StartingUp \/ isr = "mouse")
      <3>1. cpu.pc \notin StartUpLabels
        BY <2>3 DEF Untouched, StartingUp, StartUpLabels
      <3> QED  BY <2>3, <3>1, Zenon DEF Untouched
    <2>4. CASE cpu'.pc \in Loop
      <3>1. cpu'.pc \notin StartUpLabels
        BY <2>4 DEF Loop, StartUpLabels
      <3> QED  BY <3>1, Zenon DEF Untouched
    <2> QED  BY <2>1, <2>2, <2>3, <2>4, Zenon DEF CpuMoved
  <1> QED
    BY <1>2, <1>3, <1>4, <1>5, <1>6, <1>7, <1>8, <1>9, QuietSteps, Zenon

LEMMA ShortStep ==
  ASSUME InputTypes, Quiet, Untouched, Short, [Next]_vars, ~polled'
  PROVE  Short'
  <1>1. mouse \in MouseState /\ ctl.byte \in Bytes
    BY Zenon DEF InputTypes, CtlState
  <1>2. CASE mouse' = mouse
    BY <1>2, Zenon DEF Short
  <1>3. CASE MouseByte
    <2>1. CASE mouse' = Assembled(mouse, ctl.byte)
      <3> DEFINE s == Stored(mouse, ctl.byte)
                 m == Assembled(mouse, ctl.byte)
      <3>1. s \in MouseState /\ m \in MouseState
        BY <1>1, StoredTyped, AssembledTyped
      <3>2. Refused(mouse, ctl.byte) => m = mouse
        BY <1>1, AssembledTyped
      <3>3. ~Refused(mouse, ctl.byte) /\ ~Complete(s) => m = s
        BY <1>1, AssembledTyped
      <3>4. ~Refused(mouse, ctl.byte) /\ Complete(s) => m.packet = <<>> /\ m.size = mouse.size
        BY <1>1, AssembledTyped
      <3> HIDE DEF s, m
      <3>5. mouse.size \in {3, 4} /\ s.packet \in Seq(Bytes) /\ s.size \in {3, 4}
        BY <1>1, <3>1, Zenon DEF MouseState
      <3>6. ~Complete(s) => Len(s.packet) < s.size
        BY <3>5 DEF Complete
      <3>7. Len(<<>>) < mouse.size
        BY <3>5
      <3> QED  BY <2>1, <3>2, <3>3, <3>4, <3>6, <3>7, Zenon DEF Short, m
    <2> QED  BY <1>2, <1>3, <2>1, MouseByteDoes, Zenon
  <1>4. CASE StartUp
    <2>1. mouse'.packet = <<>> /\ mouse'.size \in {3, 4}
      <3>1. mouse.packet = <<>>
        BY <1>4, StartUpDoes DEF Untouched
      <3>2. mouse' \in MouseState
        BY <1>4, MouseTyped, Zenon DEF Next
      <3> QED  BY <1>4, <3>1, <3>2, StartUpDoes, Zenon DEF MouseState
    <2> QED  BY <2>1 DEF Short
  <1>5. CASE Update
    <2>1. mouse'.packet = mouse.packet /\ mouse'.size = mouse.size
      BY <1>5, UpdateDoes, Zenon
    <2> QED  BY <2>1, Zenon DEF Short
  <1>6. ASSUME NEW k \in KeyNames, NEW up \in BOOLEAN, Send(k, up) PROVE mouse' = mouse
    BY <1>6, Zenon DEF Send
  <1>7. ASSUME NEW head \in {8, 72}, Move(head) PROVE mouse' = mouse
    BY <1>7, Zenon DEF Move
  <1>8. Load \/ KbdPrefix \/ KbdKey \/ KbdForeign \/ PopLook \/ PopAdvance \/ Still => mouse' = mouse
    BY Zenon DEF Load, KbdPrefix, KbdKey, KbdForeign, PopLook, PopAdvance, Still
  <1> QED
    BY <1>2, <1>3, <1>4, <1>5, <1>6, <1>7, <1>8, QuietSteps, Zenon

LEMMA StartStep ==
  ASSUME InputTypes, Devices, Quiet, StartOk, Untouched, Short, [Next]_vars, ~polled'
  PROVE  StartOk'
  <1>0. cpu \in CpuState /\ mouse \in MouseState /\ ctl.byte \in Bytes
    BY Zenon DEF InputTypes, CtlState
  <1>1. CASE StartUp
    <2>1. CASE InitAsk
      BY <2>1, StartAsk
    <2>2. CASE InitAnswer
      BY <2>2, StartAnswer
    <2>3. CASE InitDrain \/ InitFlush
      <3>1. cpu' = cpu /\ cpu.pc \in {"drain", "flush"}
        BY <1>0, <2>3, PcNext, Zenon
      <3>2. wire' = wire /\ DataRead /\ mouse' = mouse /\ ctl.full
        BY <2>3, Zenon DEF InitDrain, InitFlush
      <3>3. MovesComing' = MovesComing \/ (MovesComing # <<>> /\ MovesComing' = Tail(MovesComing))
        BY <3>2, ReadTakes, Zenon
      <3>4. From({"mouse"}, MovesComing) /\ (~wire.reporting => MovesComing = <<>>) /\ cpu.pc # "answer"
        BY <3>1 DEF StartOk
      <3>5. From({"mouse"}, MovesComing')
        <4>1. MovesComing # <<>> => From({"mouse"}, Tail(MovesComing))
          BY <3>4, ComingTyped, FromIs
        <4> QED  BY <3>3, <3>4, <4>1, Zenon
      <3>6. ~wire.reporting => MovesComing' = <<>>
        BY <3>3, <3>4
      <3> QED  BY <3>1, <3>2, <3>4, <3>5, <3>6, Zenon DEF StartOk, From
    <2>4. CASE InitDrained \/ InitDone
      <3>1. \/ cpu.pc = "drain" /\ cpu'.pc = "ask"
            \/ cpu.pc = "flush" /\ cpu'.pc = "pop"
        BY <1>0, <2>4, PcNext, Zenon DEF InitDrained, InitDone, At
      <3>2. cpu'.step = cpu.step
        <4>1. PICK l : cpu' = [cpu EXCEPT !.pc = l]
          BY <2>4, Zenon DEF InitDrained, InitDone, Goto
        <4> QED  BY <1>0, <4>1, Zenon DEF CpuState
      <3>3. wire' = wire /\ ctl' = ctl /\ mouse'.size = mouse.size
        <4>1. mouse' = mouse \/ mouse' = [mouse EXCEPT !.packet = <<>>]
          BY <2>4, Zenon DEF InitDrained, InitDone
        <4> QED  BY <1>0, <2>4, <4>1, Zenon DEF InitDrained, InitDone, MouseState
      <3>4. MovesComing' = MovesComing
        BY <3>3, Zenon DEF MovesComing
      <3>5. From({"mouse"}, MovesComing) /\ (~wire.reporting => MovesComing = <<>>)
        BY <3>1 DEF StartOk
      <3>6. cpu'.pc # "answer" /\ (wire.reporting => cpu'.pc \notin {"drain", "ask"})
        BY <3>1 DEF StartOk
      <3> QED  BY <3>2, <3>3, <3>4, <3>5, <3>6, Zenon DEF StartOk, From
    <2> QED  BY <1>1, <2>1, <2>2, <2>3, <2>4, Zenon DEF StartUp
  <1>2. CASE ~StartUp
    <2> DEFINE Flags == /\ wire'.mouse = wire.mouse /\ wire'.wheel = wire.wheel
                        /\ wire'.reporting = wire.reporting /\ wire'.packets = wire.packets
               Steady == cpu'.step = cpu.step /\ cpu'.left = cpu.left
    <2>1. CASE Next
      <3>0. Steady
        BY <1>0, <1>2, <2>1, ScriptKept
      <3>1. ASSUME NEW k \in KeyNames, NEW up \in BOOLEAN, Send(k, up) PROVE StartOk'
        <4>1. Flags /\ wire'.moves = wire.moves
          BY <3>1, WireGains, Zenon
        <4>2. ctl' = ctl /\ mouse' = mouse /\ cpu' = cpu
          BY <3>1, Zenon DEF Send
        <4>3. MovesComing' = MovesComing
          BY <4>1, <4>2, GainsCome
        <4> QED  BY <3>0, <4>1, <4>2, <4>3, StartFrame
      <3>2. ASSUME NEW head \in {8, 72}, Move(head) PROVE StartOk'
        <4>0. wire.packets \in Nat
          BY Zenon DEF InputTypes, WireState
        <4>1. PICK s \in Seq(Bytes) : s = Packet(wire, head, wire.packets + 1) /\ From({"mouse"}, s)
          <5>1. wire.packets + 1 \in Nat
            BY <4>0
          <5>2. \A h \in {8, 72}, n \in Nat :
                  Packet(wire, h, n) \in Seq(Bytes) /\ From({"mouse"}, Packet(wire, h, n))
            BY PacketIs, PiecesFrom, Zenon
          <5>3. /\ Packet(wire, head, wire.packets + 1) \in Seq(Bytes)
                /\ From({"mouse"}, Packet(wire, head, wire.packets + 1))
            BY <3>2, <5>1, <5>2, ZenonT(40)
          <5> QED  BY <5>3, Zenon
        <4>2. /\ wire'.mouse = wire.mouse /\ wire'.wheel = wire.wheel /\ wire'.reporting = wire.reporting
              /\ wire'.moves = wire.moves \o s
          BY <3>2, <4>1, WireGains
        <4>3. ctl' = ctl /\ mouse' = mouse /\ cpu' = cpu /\ wire.reporting
          BY <3>2, Zenon DEF Move
        <4>4. MovesComing' = MovesComing \o s
          BY <4>2, <4>3, GainsCome
        <4>5. From({"mouse"}, MovesComing) => From({"mouse"}, MovesComing')
          <5>1. From({"mouse"}, MovesComing) => From({"mouse"}, MovesComing \o s)
            <6>1. \A r \in Seq(Bytes), u \in Seq(Bytes) : From({"mouse"}, r) /\ From({"mouse"}, u) => From({"mouse"}, r \o u)
              BY FromIs, Zenon
            <6> QED  BY <4>1, <6>1, ComingTyped, Zenon
          <5> QED  BY <4>4, <5>1, Zenon
        <4>6. MovesComing # <<>> => MovesComing' # <<>>
          BY <4>4, ComingTyped
        <4>7. Asked' = Asked
          BY <4>3, Zenon DEF Asked, Script
        <4>8. cpu.pc = "answer" => cpu.left = 1 /\ MovesComing # <<>> /\ From({"mouse"}, MovesComing)
          BY <4>3, Zenon DEF StartOk
        <4>9. cpu'.pc = "answer" => cpu'.left \in {1, 2} /\ (cpu'.left = 2 => Asked' = "id")
          BY <4>3, <4>7, Zenon DEF StartOk
        <4>10. cpu'.pc = "answer" => wire'.reporting /\ cpu'.left = 1 /\ MovesComing' # <<>> /\ From({"mouse"}, MovesComing')
          BY <4>2, <4>3, <4>5, <4>6, <4>8, Zenon
        <4> QED  BY <4>2, <4>3, <4>5, <4>9, <4>10, Zenon DEF StartOk, From
      <3>3. CASE Load
        <4>1. Flags /\ MovesComing' = MovesComing
          BY <3>3, WireGains, LoadKeeps, Zenon
        <4>2. mouse' = mouse /\ cpu' = cpu
          BY <3>3, Zenon DEF Load
        <4> QED  BY <3>0, <4>1, <4>2, StartFrame
      <3>4. CASE KbdPrefix \/ KbdKey \/ KbdForeign
        <4>1. cpu' = Woken /\ cpu.pc \notin StartUpLabels /\ wire' = wire /\ DataRead /\ mouse' = mouse
          BY <3>4, Zenon DEF KbdPrefix, KbdKey, KbdForeign, Taken, StartingUp, StartUpLabels
        <4>2. cpu' = cpu \/ Goto("pop")
          BY <4>1, Zenon DEF Woken, Goto
        <4>3. cpu'.pc = cpu.pc \/ cpu'.pc = "pop"
          BY <1>0, <4>2, PcTo, Zenon
        <4>4. cpu'.pc \notin StartUpLabels \ {"undefined"}
          BY <4>1, <4>3 DEF StartUpLabels
        <4>5. MovesComing' = MovesComing \/ (MovesComing # <<>> /\ MovesComing' = Tail(MovesComing))
          BY <4>1, ReadTakes, ComingTyped, Zenon
        <4> QED  BY <3>0, <4>1, <4>4, <4>5, StartFrame
      <3>5. CASE MouseByte /\ cpu.pc \notin StartUpLabels
        <4>1. cpu' = cpu /\ wire' = wire /\ DataRead /\ ctl.full
          BY <3>5, MouseByteDoes
        <4>2. mouse'.size = mouse.size
          <5>1. mouse' = mouse \/ mouse' = Assembled(mouse, ctl.byte)
            BY <3>5, MouseByteDoes
          <5>2. Assembled(mouse, ctl.byte).size = mouse.size
            BY <1>0, AssembledTyped, StoredTyped
          <5> QED  BY <5>1, <5>2
        <4>3. MovesComing' = MovesComing \/ (MovesComing # <<>> /\ MovesComing' = Tail(MovesComing))
          BY <4>1, ReadTakes, Zenon
        <4>4. cpu'.pc \notin StartUpLabels \ {"undefined"}
          BY <3>5, <4>1
        <4> QED  BY <3>0, <3>5, <4>1, <4>2, <4>3, <4>4, StartFrame
      <3>6. CASE PopLook \/ PopAdvance \/ Update
        <4>1. /\ cpu'.pc \in {"advance", "pop", "run"} \/ cpu'.pc \in Reading \cup {"run"}
              /\ cpu.pc \in {"pop", "advance"} \/ cpu.pc \in Reading \cup {"update"}
          BY <1>0, <3>6, PcNext, UpdateDoes, Zenon DEF PopLook, PopAdvance, At
        <4>2. wire' = wire /\ ctl' = ctl
          BY <3>6, UpdateDoes, Zenon DEF PopLook, PopAdvance
        <4>3. mouse'.size = mouse.size
          BY <3>6, UpdateDoes, Zenon DEF PopLook, PopAdvance
        <4>4. MovesComing' = MovesComing
          BY <4>2, Zenon DEF MovesComing
        <4>5. cpu.pc \notin StartUpLabels /\ cpu'.pc \notin StartUpLabels \ {"undefined"}
          BY <4>1 DEF StartUpLabels, Reading
        <4> QED  BY <3>0, <4>2, <4>3, <4>4, <4>5, StartFrame
      <3>7. CASE Still
        <4>1. wire' = wire /\ ctl' = ctl /\ mouse' = mouse /\ CpuMoved
          BY <3>7, Zenon DEF Still
        <4>2. MovesComing' = MovesComing
          BY <4>1, Zenon DEF MovesComing
        <4>3. \/ cpu'.pc = cpu.pc
              \/ cpu.pc \notin StartUpLabels /\ cpu'.pc \notin StartUpLabels \ {"undefined"}
          BY <4>1 DEF CpuMoved, Loop, StartUpLabels
        <4> QED  BY <3>0, <4>1, <4>2, <4>3, StartFrame
      <3>8. MouseByte => cpu.pc \notin StartUpLabels
        <4>1. isr = "mouse" => cpu.pc \notin StartUpLabels
          BY Zenon DEF Untouched
        <4> QED  BY <4>1, Zenon DEF MouseByte
      <3> QED  BY <1>2, <3>1, <3>2, <3>3, <3>4, <3>5, <3>6, <3>7, <3>8, QuietSteps, Zenon
    <2>2. CASE UNCHANGED vars
      <3>1. MovesComing' = MovesComing
        BY <2>2, Zenon DEF MovesComing, vars
      <3> QED  BY <2>2, <3>1, StartFrame DEF vars
    <2> QED  BY <2>1, <2>2
  <1> QED  BY <1>1, <1>2

-----------------------------------------------------------------------------
(* Whose bytes are where.                                                  *)

LEMMA RingAt ==
  ASSUME NEW k \in KbdState
  PROVE  /\ k.head \in RingSlots /\ k.tail \in RingSlots /\ k.ring \in [RingSlots -> Event]
         /\ k.ring[k.tail] \in Event /\ k.e0 \in Seq(Bytes)
  <1>1. k.head \in RingSlots /\ k.tail \in RingSlots /\ k.ring \in [RingSlots -> Event] /\ k.e0 \in Seq(Bytes)
    BY Zenon DEF KbdState
  <1> QED  BY <1>1

LEMMA KbdKeyDoes ==
  ASSUME InputTypes, KbdKey
  PROVE  /\ ~StartingUp /\ ctl.full /\ ~Aux /\ ctl.byte.val # E0 /\ DataRead /\ CpuMoved
         /\ UNCHANGED <<wire, mouse, sent, got, isr>>
         /\ kbd'.e0 = <<>> /\ kbd'.tail = kbd.tail /\ kbd'.shift = kbd.shift /\ kbd'.altgr = kbd.altgr
         /\ kbd.e0 \o <<ctl.byte>> \in Event
         /\ \/ /\ NextSlot(kbd.head) = kbd.tail /\ lost' = lost \cup {"kbd"}
               /\ kbd'.ring = kbd.ring /\ kbd'.head = kbd.head
            \/ /\ NextSlot(kbd.head) # kbd.tail /\ lost' = lost
               /\ kbd'.ring = [kbd.ring EXCEPT ![kbd.head] = kbd.e0 \o <<ctl.byte>>]
               /\ kbd'.head = NextSlot(kbd.head)
  <1> DEFINE k == [kbd EXCEPT !.e0 = <<>>]
             ev == kbd.e0 \o <<ctl.byte>>
  <1>1. kbd \in KbdState /\ ctl.byte \in Bytes /\ cpu \in CpuState
    BY Zenon DEF InputTypes, CtlState
  <1>2. ev \in Event
    BY <1>1, RingAt, EventsAre, Zenon
  <1>3. kbd' = Pushed(k, ev) /\ lost' = Losing("kbd", RingFull(kbd)) /\ cpu' = Woken
    BY Zenon DEF KbdKey
  <1>4. /\ k.e0 = <<>> /\ k.head = kbd.head /\ k.tail = kbd.tail /\ k.ring = kbd.ring
        /\ k.shift = kbd.shift /\ k.altgr = kbd.altgr
    BY <1>1, Zenon DEF KbdState
  <1>5. k \in KbdState
    <2>1. <<>> \in Seq(Bytes)
      OBVIOUS
    <2> QED  BY <1>1, <2>1, Zenon DEF KbdState
  <1> HIDE DEF k, ev
  <1>6. CASE NextSlot(kbd.head) = kbd.tail
    <2>1. kbd' = k /\ lost' = lost \cup {"kbd"}
      BY <1>3, <1>4, <1>6, Zenon DEF Pushed, RingFull, Losing
    <2>2. /\ kbd'.e0 = <<>> /\ kbd'.tail = kbd.tail /\ kbd'.shift = kbd.shift /\ kbd'.altgr = kbd.altgr
          /\ kbd'.ring = kbd.ring /\ kbd'.head = kbd.head
      BY <1>4, <2>1, Zenon
    <2>3. CpuMoved
      <3>1. cpu' = cpu \/ (cpu.pc = "halted" /\ Goto("pop"))
        BY <1>3, Zenon DEF Woken, Goto
      <3>2. Goto("pop") => cpu'.pc = "pop"
        BY <1>1, PcTo, Zenon
      <3> QED  BY <3>1, <3>2 DEF CpuMoved, Loop
    <2> QED  BY <1>2, <1>6, <2>1, <2>2, <2>3, Zenon DEF KbdKey, Taken, ev
  <1>7. CASE NextSlot(kbd.head) # kbd.tail
    <2>1. lost' = lost
      BY <1>3, <1>7, Zenon DEF RingFull, Losing
    <2>2. kbd' = [k EXCEPT !.ring[k.head] = ev, !.head = NextSlot(@)]
      BY <1>3, <1>4, <1>7, Zenon DEF Pushed
    <2>3. /\ kbd'.e0 = <<>> /\ kbd'.tail = kbd.tail /\ kbd'.shift = kbd.shift /\ kbd'.altgr = kbd.altgr
          /\ kbd'.ring = [kbd.ring EXCEPT ![kbd.head] = ev]
          /\ kbd'.head = NextSlot(kbd.head)
      BY <1>4, <1>5, <2>2, Zenon DEF KbdState
    <2>4. CpuMoved
      <3>1. cpu' = cpu \/ (cpu.pc = "halted" /\ Goto("pop"))
        BY <1>3, Zenon DEF Woken, Goto
      <3>2. Goto("pop") => cpu'.pc = "pop"
        BY <1>1, PcTo, Zenon
      <3> QED  BY <3>1, <3>2 DEF CpuMoved, Loop
    <2> QED  BY <1>2, <1>7, <2>1, <2>3, <2>4, Zenon DEF KbdKey, Taken, ev
  <1> QED  BY <1>6, <1>7

LEMMA KbdPrefixDoes ==
  ASSUME InputTypes, KbdPrefix
  PROVE  /\ ~StartingUp /\ ctl.full /\ ~Aux /\ ctl.byte.val = E0 /\ DataRead /\ CpuMoved
         /\ UNCHANGED <<wire, mouse, sent, got, isr, lost>>
         /\ kbd'.e0 = <<ctl.byte>> /\ kbd'.tail = kbd.tail /\ kbd'.shift = kbd.shift /\ kbd'.altgr = kbd.altgr
         /\ kbd'.ring = kbd.ring /\ kbd'.head = kbd.head
  <1>1. kbd \in KbdState /\ cpu \in CpuState
    BY Zenon DEF InputTypes
  <1>2. kbd' = [kbd EXCEPT !.e0 = <<ctl.byte>>] /\ cpu' = Woken
    BY Zenon DEF KbdPrefix
  <1>3. /\ kbd'.e0 = <<ctl.byte>> /\ kbd'.tail = kbd.tail /\ kbd'.shift = kbd.shift /\ kbd'.altgr = kbd.altgr
        /\ kbd'.ring = kbd.ring /\ kbd'.head = kbd.head
    BY <1>1, <1>2, Zenon DEF KbdState
  <1>4. CpuMoved
    <2>1. cpu' = cpu \/ (cpu.pc = "halted" /\ Goto("pop"))
      BY <1>2, Zenon DEF Woken, Goto
    <2>2. Goto("pop") => cpu'.pc = "pop"
      BY <1>1, PcTo, Zenon
    <2> QED  BY <2>1, <2>2 DEF CpuMoved, Loop
  <1> QED  BY <1>3, <1>4, Zenon DEF KbdPrefix, Taken, ghosts

LEMMA KbdForeignDoes ==
  ASSUME InputTypes, KbdForeign
  PROVE  /\ ~StartingUp /\ DataRead /\ CpuMoved
         /\ UNCHANGED <<wire, kbd, mouse, sent, got, isr>>
         /\ \/ ~ctl.full /\ lost' = lost
            \/ ctl.full /\ Aux /\ lost' = lost \cup {"mouse"}
  <1>1. cpu \in CpuState /\ cpu' = Woken
    BY Zenon DEF InputTypes, KbdForeign
  <1>2. CpuMoved
    <2>1. cpu' = cpu \/ (cpu.pc = "halted" /\ Goto("pop"))
      BY <1>1, Zenon DEF Woken, Goto
    <2>2. Goto("pop") => cpu'.pc = "pop"
      BY <1>1, PcTo, Zenon
    <2> QED  BY <2>1, <2>2 DEF CpuMoved, Loop
  <1> QED  BY <1>2, Zenon DEF KbdForeign, Taken, Losing

\* A make or break code of Shift.
OfShift(ev) == ~IsE0(ev) /\ Scancode(ev) % 128 = 42

LEMMA PopAdvanceDoes ==
  ASSUME InputTypes, PopAdvance
  PROVE  /\ cpu.pc = "advance" /\ cpu'.pc \in {"pop", "run"} /\ UNCHANGED <<wire, ctl, mouse, sent, lost, isr>>
         /\ got' = Append(got, [ev |-> cpu.ev, returned |-> Returned(kbd, cpu.ev), table |-> Table(kbd)])
         /\ kbd'.tail = NextSlot(kbd.tail) /\ kbd'.ring = kbd.ring /\ kbd'.head = kbd.head /\ kbd'.e0 = kbd.e0
         /\ kbd'.altgr = IF IsModifier(cpu.ev) /\ IsE0(cpu.ev) THEN Scancode(cpu.ev) < 128 ELSE kbd.altgr
         /\ kbd'.shift = IF OfShift(cpu.ev) THEN Scancode(cpu.ev) < 128 ELSE kbd.shift
  <1> DEFINE t == [kbd EXCEPT !.tail = NextSlot(@)]
             d == IF Scancode(cpu.ev) < 128 THEN t.down \cup {Scancode(cpu.ev)} ELSE t.down \ {Scancode(cpu.ev) - 128}
             v == Scancode(cpu.ev) < 128
  <1>1. kbd \in KbdState /\ cpu \in CpuState
    BY Zenon DEF InputTypes
  <1>2. kbd' = Popped(kbd, cpu.ev)
    BY Zenon DEF PopAdvance
  <1>3. t.tail = NextSlot(kbd.tail) /\ t.ring = kbd.ring /\ t.head = kbd.head /\ t.e0 = kbd.e0 /\ t.altgr = kbd.altgr
        /\ t.shift = kbd.shift /\ DOMAIN t = DOMAIN kbd /\ {"altgr", "shift", "down"} \subseteq DOMAIN kbd
    BY <1>1, Zenon DEF KbdState
  <1>10. t \in KbdState
    <2>1. NextSlot(kbd.tail) \in RingSlots
      BY <1>1, RingAt, SlotsAre, Zenon
    <2> QED  BY <1>1, <2>1, Zenon DEF KbdState
  <1>11. OfShift(cpu.ev) => IsModifier(cpu.ev) /\ ~IsE0(cpu.ev)
    BY DEF OfShift, IsModifier
  <1>4. \/ IsModifier(cpu.ev) /\ IsE0(cpu.ev) /\ ~OfShift(cpu.ev) /\ kbd' = [t EXCEPT !.altgr = v]
        \/ ~IsE0(cpu.ev) /\ OfShift(cpu.ev) /\ kbd' = [t EXCEPT !.shift = v]
        \/ ~IsE0(cpu.ev) /\ ~OfShift(cpu.ev) /\ kbd' = t
        \/ ~IsModifier(cpu.ev) /\ ~OfShift(cpu.ev) /\ kbd' = [t EXCEPT !.down = d]
    <2>1. CASE IsModifier(cpu.ev)
      <3>1. kbd' = Modifiers(t, cpu.ev)
        BY <1>2, <2>1, Zenon DEF Popped
      <3> HIDE DEF t, d
      <3> QED  BY <1>11, <2>1, <3>1, Zenon DEF Modifiers, OfShift
    <2>2. CASE ~IsModifier(cpu.ev)
      BY <1>2, <1>11, <2>2, Zenon DEF Popped
    <2> QED  BY <2>1, <2>2
  <1> HIDE DEF t, d, v
  <1>5. kbd'.tail = t.tail /\ kbd'.ring = t.ring /\ kbd'.head = t.head /\ kbd'.e0 = t.e0
    BY <1>4, <1>10, Zenon DEF KbdState
  <1>6. kbd'.altgr = IF IsModifier(cpu.ev) /\ IsE0(cpu.ev) THEN v ELSE t.altgr
    BY <1>3, <1>4, Zenon
  <1>7. kbd'.shift = IF OfShift(cpu.ev) THEN v ELSE t.shift
    BY <1>3, <1>4, Zenon
  <1>8. /\ cpu.pc = "advance" /\ UNCHANGED <<wire, ctl, mouse, sent, lost, isr>>
        /\ got' = Append(got, [ev |-> cpu.ev, returned |-> Returned(kbd, cpu.ev), table |-> Table(kbd)])
    BY Zenon DEF PopAdvance, At
  <1>9. cpu'.pc \in {"pop", "run"}
    BY <1>1, PcNext, Zenon
  <1> QED  BY <1>3, <1>5, <1>6, <1>7, <1>8, <1>9, Zenon DEF v

\* Once the dialogue is over, what is in the controller is of the keyboard or the mouse.
LEMMA HandlerByte ==
  ASSUME InputTypes, StartOk, cpu.pc \notin StartUpLabels, ctl.full
  PROVE  ctl.byte.src \in {"kbd", "mouse"}
  <1>1. From({"mouse"}, MovesComing)
    BY DEF StartOk, StartUpLabels
  <1>2. CASE ctl.byte.src # "kbd"
    <2>1. MovesComing = <<ctl.byte>> \o wire.moves
      BY <1>2, Zenon DEF MovesComing
    <2>2. MovesComing # <<>> /\ Head(MovesComing) = ctl.byte
      BY <2>1, ComingTyped, FrontIs
    <2>3. Head(MovesComing).src \in {"mouse"}
      BY <1>1, <2>2, ComingTyped, FromIs, Zenon
    <2> QED  BY <2>2, <2>3
  <1> QED  BY <1>2

KbdOnly ==
  /\ From({"kbd"}, kbd.e0)
  /\ \A s \in RingSlots : From({"kbd"}, kbd.ring[s])
  /\ cpu.pc = "advance" => From({"kbd"}, cpu.ev)
  /\ \A i \in 1 .. Len(got) : From({"kbd"}, got[i].ev)

LEMMA KbdOnlyStep ==
  ASSUME InputTypes, Quiet, StartOk, Untouched, Short, KbdOnly, [Next]_vars, ~polled'
  PROVE  KbdOnly'
  <1>0. cpu \in CpuState /\ kbd \in KbdState /\ ctl.byte \in Bytes /\ got \in Seq(Popping)
    BY Zenon DEF InputTypes, CtlState
  <1>1. CASE UNCHANGED <<kbd, got, cpu>>
    BY <1>1, Zenon DEF KbdOnly, From
  <1>2. CASE UNCHANGED <<kbd, got>> /\ cpu'.pc # "advance"
    BY <1>2, Zenon DEF KbdOnly, From
  <1>3. ASSUME NEW k \in KeyNames, NEW up \in BOOLEAN, Send(k, up) PROVE KbdOnly'
    BY <1>1, <1>3, Zenon DEF Send
  <1>4. ASSUME NEW head \in {8, 72}, Move(head) PROVE KbdOnly'
    BY <1>1, <1>4, Zenon DEF Move, ghosts
  <1>5. CASE Load
    BY <1>1, <1>5, Zenon DEF Load, ghosts
  <1>6. CASE KbdPrefix \/ KbdKey
    <2>1. /\ ~StartingUp /\ ctl.full /\ ~Aux /\ CpuMoved /\ got' = got
          /\ \/ kbd'.e0 = <<>>
             \/ kbd'.e0 = <<ctl.byte>>
          /\ \/ kbd'.ring = kbd.ring
             \/ kbd'.ring = [kbd.ring EXCEPT ![kbd.head] = kbd.e0 \o <<ctl.byte>>]
      BY <1>6, KbdPrefixDoes, KbdKeyDoes, Zenon
    <2>2. ctl.byte.src = "kbd"
      <3>1. ctl.byte.src \in {"kbd", "mouse"}
        BY <2>1, HandlerByte, Zenon DEF StartingUp, StartUpLabels
      <3> QED  BY <2>1, <3>1 DEF Aux
    <2>3. From({"kbd"}, <<ctl.byte>>) /\ From({"kbd"}, <<>>)
      BY <1>0, <2>2, FromIs
    <2>4. From({"kbd"}, kbd.e0 \o <<ctl.byte>>)
      <3>1. From({"kbd"}, kbd.e0) /\ kbd.e0 \in Seq(Bytes) /\ <<ctl.byte>> \in Seq(Bytes)
        BY <1>0, RingAt DEF KbdOnly
      <3> QED  BY <2>3, <3>1, FromIs
    <2>5. From({"kbd"}, kbd'.e0)
      BY <2>1, <2>3
    <2>6. \A s \in RingSlots : kbd'.ring[s] = kbd.ring[s] \/ kbd'.ring[s] = kbd.e0 \o <<ctl.byte>>
      <3>1. kbd.ring \in [RingSlots -> Event]
        BY <1>0, RingAt
      <3> QED  BY <2>1, <3>1
    <2>7. \A s \in RingSlots : From({"kbd"}, kbd'.ring[s])
      BY <2>4, <2>6, Zenon DEF KbdOnly
    <2>8. cpu' = cpu \/ cpu'.pc # "advance"
      BY <2>1 DEF CpuMoved, Loop
    <2> QED  BY <2>1, <2>5, <2>7, <2>8, Zenon DEF KbdOnly, From
  <1>7. CASE KbdForeign
    <2>1. UNCHANGED <<kbd, got>> /\ CpuMoved
      BY <1>7, KbdForeignDoes
    <2>2. cpu' = cpu \/ cpu'.pc # "advance"
      BY <2>1 DEF CpuMoved, Loop
    <2> QED  BY <1>1, <1>2, <2>1, <2>2, Zenon
  <1>8. CASE MouseByte
    BY <1>1, <1>8, MouseByteDoes
  <1>9. CASE StartUp
    <2>1. cpu'.pc # "advance"
      BY <1>0, <1>9, PcNext, Zenon DEF StartUp
    <2> QED  BY <1>2, <1>9, <2>1, StartUpDoes
  <1>10. CASE PopLook
    <2>1. cpu' = [cpu EXCEPT !.pc = "advance", !.ev = kbd.ring[kbd.tail]] /\ kbd' = kbd /\ got' = got
      BY <1>10, Zenon DEF PopLook, ghosts
    <2>2. cpu'.ev = kbd.ring[kbd.tail] /\ kbd.tail \in RingSlots
      BY <1>0, <2>1, PcTo, RingAt, Zenon
    <2> QED  BY <2>1, <2>2, Zenon DEF KbdOnly, From
  <1>11. CASE PopAdvance
    <2>1. PICK g : got' = Append(got, g) /\ g.ev = cpu.ev
      BY <1>11, PopAdvanceDoes
    <2>2. kbd'.e0 = kbd.e0 /\ kbd'.ring = kbd.ring /\ cpu'.pc \in {"pop", "run"} /\ cpu.pc = "advance"
      BY <1>11, PopAdvanceDoes
    <2>3. From({"kbd"}, cpu.ev)
      BY <2>2, Zenon DEF KbdOnly
    <2>4. \A i \in 1 .. Len(got') : (i \in 1 .. Len(got) /\ got'[i] = got[i]) \/ got'[i] = g
      BY <1>0, <2>1
    <2>5. \A i \in 1 .. Len(got') : From({"kbd"}, got'[i].ev)
      BY <2>1, <2>3, <2>4, Zenon DEF KbdOnly
    <2>6. cpu'.pc # "advance"
      BY <2>2
    <2> QED  BY <2>2, <2>5, <2>6, Zenon DEF KbdOnly, From
  <1>12. CASE Update
    <2>1. UNCHANGED <<kbd, got>> /\ cpu'.pc \in Reading \cup {"run"}
      BY <1>12, UpdateDoes
    <2>2. cpu'.pc # "advance"
      BY <2>1 DEF Reading
    <2> QED  BY <1>2, <2>1, <2>2
  <1>13. CASE Still
    <2>1. UNCHANGED <<kbd, got>> /\ CpuMoved
      BY <1>13, Zenon DEF Still
    <2>2. cpu' = cpu \/ cpu'.pc # "advance"
      BY <2>1 DEF CpuMoved, Loop
    <2> QED  BY <1>1, <1>2, <2>1, <2>2, Zenon
  <1> QED
    BY <1>3, <1>4, <1>5, <1>6, <1>7, <1>8, <1>9, <1>10, <1>11, <1>12, <1>13, QuietSteps, Zenon

\* An accepted byte is stored, and the packet it completes is queued.
LEMMA AssembledDoes ==
  ASSUME InputTypes, Short, NEW b \in Bytes, ~Refused(mouse, b), mouse' = Assembled(mouse, b)
  PROVE  LET p == Append(mouse.packet, b) IN
         /\ p \in Event /\ mouse'.size = mouse.size /\ mouse'.applied = mouse.applied
         /\ \/ /\ Len(p) < mouse.size /\ mouse'.packet = p
               /\ mouse'.q = mouse.q /\ mouse'.r = mouse.r /\ mouse'.w = mouse.w
               /\ mouse'.buttons = mouse.buttons /\ mouse'.overrun = mouse.overrun
            \/ Len(p) = mouse.size /\ mouse'.packet = <<>> /\ p \in Packed /\ Put(mouse, mouse', p)
  <1> DEFINE s == Stored(mouse, b)
             p == Append(mouse.packet, b)
  <1>1. mouse \in MouseState /\ mouse.packet \in Seq(Bytes) /\ mouse.size \in {3, 4}
    BY Zenon DEF InputTypes, MouseState
  <1>2. p \in Event /\ Len(p) = Len(mouse.packet) + 1
    BY <1>1 DEF Event
  <1>3. Len(mouse.packet) \in Nat /\ Len(mouse.packet) < mouse.size
    BY <1>1 DEF Short
  <1>4. /\ s \in MouseState /\ s.packet = p /\ s.size = mouse.size /\ s.q = mouse.q /\ s.applied = mouse.applied
        /\ s.r = mouse.r /\ s.w = mouse.w /\ s.buttons = mouse.buttons /\ s.overrun = mouse.overrun
    BY <1>1, StoredTyped
  <1>5. Complete(s) <=> Len(p) = mouse.size
    BY <1>1, <1>2, <1>3, <1>4 DEF Complete
  <1>6. ~Complete(s) => mouse' = s
    BY <1>1, AssembledTyped
  <1>7. Complete(s) => /\ mouse'.packet = <<>> /\ mouse'.size = mouse.size
                       /\ Put(mouse, mouse', Read(s)) /\ Read(s) \in Packed
    BY <1>1, AssembledTyped
  <1>8. Complete(s) => Read(s) = p
    <2>1. p \in Seq(Bytes)
      BY <1>2 DEF Event
    <2>2. SubSeq(p, 1, Len(p)) = p
      BY <2>1, SubSeqFull
    <2> QED  BY <1>4, <1>5, <2>2, Zenon DEF Read
  <1>9. ~Complete(s) => Len(p) < mouse.size
    BY <1>1, <1>2, <1>3, <1>5
  <1>10. Complete(s) => mouse'.applied = mouse.applied
    BY <1>7, Zenon DEF Put
  <1> HIDE DEF s, p
  <1>11. CASE Complete(s)
    BY <1>2, <1>5, <1>7, <1>8, <1>10, <1>11, Zenon DEF p
  <1>12. CASE ~Complete(s)
    BY <1>2, <1>4, <1>6, <1>9, <1>12, Zenon DEF p
  <1> QED  BY <1>11, <1>12

\* A byte of the mouse is put behind bytes of the mouse.
LEMMA Stretched ==
  ASSUME NEW s \in Seq(Bytes), NEW b \in Bytes, From({"mouse"}, s), b.src = "mouse"
  PROVE  Append(s, b) \in Event /\ From({"mouse"}, Append(s, b))
  <1>1. Append(s, b) \in Seq(Bytes) /\ Len(Append(s, b)) = Len(s) + 1 /\ Len(s) \in Nat
    OBVIOUS
  <1>2. Append(s, b) \in Event
    BY <1>1 DEF Event
  <1>3. \A i \in 1 .. Len(Append(s, b)) : (i \in 1 .. Len(s) /\ Append(s, b)[i] = s[i]) \/ Append(s, b)[i] = b
    OBVIOUS
  <1>4. \A i \in 1 .. Len(Append(s, b)) : Append(s, b)[i].src \in {"mouse"}
    BY <1>3, Zenon DEF From
  <1> QED  BY <1>2, <1>4 DEF From

\* The slots from i up to j, j excluded.
Between(i, j) == {s \in QueueSlots : IF i <= j THEN i <= s /\ s < j ELSE i <= s \/ s < j}

LEMMA BetweenIs ==
  ASSUME NEW i \in QueueSlots, NEW j \in QueueSlots
  PROVE  /\ Between(i, i) = {}
         /\ Between(i, NextPacket(j)) \subseteq Between(i, j) \cup {j}
         /\ i # j => i \in Between(i, j) /\ Between(NextPacket(i), j) \subseteq Between(i, j)
         /\ NextPacket(j) = i => Between(i, j) \cup {j} = QueueSlots
  <1>1. MouseSlots \in Nat /\ MouseSlots > 1
    BY PlacesAre
  <1>2. NextPacket(i) = (IF i = MouseSlots - 1 THEN 0 ELSE i + 1) /\ NextPacket(j) = (IF j = MouseSlots - 1 THEN 0 ELSE j + 1)
    BY PlacesAre
  <1>3. Between(i, i) = {}
    BY <1>1 DEF QueueSlots, Between
  <1>4. Between(i, NextPacket(j)) \subseteq Between(i, j) \cup {j}
    BY <1>1, <1>2 DEF QueueSlots, Between
  <1>5. i # j => i \in Between(i, j)
    BY <1>1 DEF QueueSlots, Between
  <1>6. i # j => Between(NextPacket(i), j) \subseteq Between(i, j)
    BY <1>1, <1>2 DEF QueueSlots, Between
  <1>7. NextPacket(j) = i => Between(i, j) \cup {j} = QueueSlots
    BY <1>1, <1>2 DEF QueueSlots, Between
  <1> QED  BY <1>3, <1>4, <1>5, <1>6, <1>7

\* The slots that are read before they are written again: those of the queue, and those
\* of an update that is under way.
Covered ==
  Between(mouse.r, mouse.w)
    \cup (IF cpu.pc = "bound" THEN Between(cpu.from, mouse.w) ELSE {})
    \cup (IF cpu.pc \in {"x", "y", "buttons", "give"} THEN Between(cpu.upto, mouse.w) ELSE {})
    \cup (IF cpu.pc \in {"x", "y"} THEN Between(cpu.from, cpu.upto) ELSE {})

MouseOnly ==
  /\ From({"mouse"}, mouse.packet)
  /\ \A i \in 1 .. Len(mouse.applied) : mouse.applied[i].x.src = "mouse" /\ mouse.applied[i].y.src = "mouse"
  /\ \A s \in Covered : From({"mouse"}, mouse.q[s])
  /\ cpu.pc \in {"x", "y"} => cpu.from # cpu.upto
  /\ cpu.pc = "y" => cpu.ev[1].src = "mouse"

LEMMA CoveredPut ==
  ASSUME InputTypes, cpu' = cpu, NEW p, Put(mouse, mouse', p)
  PROVE  /\ mouse'.q[mouse.w] = p
         /\ \A s \in Covered' : s \in QueueSlots /\ (s = mouse.w \/ (s \in Covered /\ mouse'.q[s] = mouse.q[s]))
  <1>1. /\ mouse.r \in QueueSlots /\ mouse.w \in QueueSlots /\ cpu.from \in QueueSlots /\ cpu.upto \in QueueSlots
        /\ mouse.q \in [QueueSlots -> Packed]
    BY Zenon DEF InputTypes, MouseState, CpuState
  <1>2. /\ mouse'.w = NextPacket(mouse.w) /\ mouse'.q = [mouse.q EXCEPT ![mouse.w] = p]
        /\ mouse'.r = mouse.r \/ (NextPacket(mouse.w) = mouse.r /\ mouse'.r = NextPacket(mouse.r))
    BY Zenon DEF Put
  <1>3. \A i \in QueueSlots : Between(i, mouse'.w) \subseteq Between(i, mouse.w) \cup {mouse.w}
    BY <1>1, <1>2, BetweenIs, Zenon
  <1>4. Between(mouse'.r, mouse'.w) \subseteq Between(mouse.r, mouse.w) \cup {mouse.w}
    <2>1. CASE mouse'.r = mouse.r
      BY <1>1, <1>3, <2>1
    <2>2. CASE NextPacket(mouse.w) = mouse.r
      <3>1. Between(mouse.r, mouse.w) \cup {mouse.w} = QueueSlots
        BY <1>1, <2>2, BetweenIs
      <3>2. Between(mouse'.r, mouse'.w) \subseteq QueueSlots
        BY Zenon DEF Between
      <3> QED  BY <3>1, <3>2, Zenon
    <2> QED  BY <1>2, <2>1, <2>2
  <1>5. Covered' \subseteq Covered \cup {mouse.w}
    <2>1. Covered' = Between(mouse'.r, mouse'.w)
                       \cup (IF cpu.pc = "bound" THEN Between(cpu.from, mouse'.w) ELSE {})
                       \cup (IF cpu.pc \in {"x", "y", "buttons", "give"} THEN Between(cpu.upto, mouse'.w) ELSE {})
                       \cup (IF cpu.pc \in {"x", "y"} THEN Between(cpu.from, cpu.upto) ELSE {})
      BY Zenon DEF Covered, Between, QueueSlots
    <2>2. /\ Between(cpu.from, mouse'.w) \subseteq Between(cpu.from, mouse.w) \cup {mouse.w}
          /\ Between(cpu.upto, mouse'.w) \subseteq Between(cpu.upto, mouse.w) \cup {mouse.w}
      BY <1>1, <1>3, Zenon
    <2> HIDE DEF Between
    <2> QED  BY <1>4, <2>1, <2>2 DEF Covered
  <1>6. \A i, j : Between(i, j) \subseteq QueueSlots
    BY DEF Between
  <1>7. Covered \subseteq QueueSlots
    BY <1>6, Zenon DEF Covered
  <1>8. mouse'.q[mouse.w] = p /\ \A s \in QueueSlots : s = mouse.w \/ mouse'.q[s] = mouse.q[s]
    BY <1>1, <1>2
  <1> QED  BY <1>1, <1>5, <1>7, <1>8

LEMMA MouseOnlyStep ==
  ASSUME InputTypes, Quiet, Untouched, Short, MouseOnly, [Next]_vars, ~polled'
  PROVE  MouseOnly'
  <1>0. /\ cpu \in CpuState /\ mouse \in MouseState /\ ctl.byte \in Bytes /\ cpu.ev \in Event
        /\ mouse.packet \in Seq(Bytes) /\ mouse.q \in [QueueSlots -> Packed] /\ mouse.applied \in Seq(Movement)
        /\ mouse.r \in QueueSlots /\ mouse.w \in QueueSlots /\ cpu.from \in QueueSlots /\ cpu.upto \in QueueSlots
    BY Zenon DEF InputTypes, CtlState, MouseState, CpuState
  <1>1. CASE UNCHANGED <<mouse, cpu>>
    BY <1>1, Zenon DEF MouseOnly, Covered, Between, QueueSlots, From
  <1>2. CASE /\ mouse'.q = mouse.q /\ mouse'.applied = mouse.applied /\ mouse'.r = mouse.r /\ mouse'.w = mouse.w
             /\ mouse'.packet = mouse.packet \/ mouse'.packet = <<>>
             /\ cpu'.pc \notin Reading
    <2>1. From({"mouse"}, <<>>)
      BY FromIs
    <2>2. Covered' = Between(mouse.r, mouse.w)
      BY <1>2 DEF Covered, Between, QueueSlots, Reading
    <2>3. Covered' \subseteq Covered
      BY <2>2, Zenon DEF Covered
    <2>4. cpu'.pc \notin {"x", "y"} /\ cpu'.pc # "y"
      BY <1>2 DEF Reading
    <2> QED  BY <1>2, <2>1, <2>3, <2>4, Zenon DEF MouseOnly, From
  <1>3. ASSUME NEW k \in KeyNames, NEW up \in BOOLEAN, Send(k, up) PROVE MouseOnly'
    BY <1>1, <1>3, Zenon DEF Send
  <1>4. ASSUME NEW head \in {8, 72}, Move(head) PROVE MouseOnly'
    BY <1>1, <1>4, Zenon DEF Move
  <1>5. CASE Load
    BY <1>1, <1>5, Zenon DEF Load
  <1>6. CASE KbdPrefix \/ KbdKey \/ KbdForeign \/ Still
    <2>1. mouse' = mouse /\ CpuMoved
      BY <1>6, KbdPrefixDoes, KbdKeyDoes, KbdForeignDoes, Zenon DEF Still
    <2>2. cpu' = cpu \/ cpu'.pc \notin Reading
      BY <2>1 DEF CpuMoved, Loop, Reading
    <2> QED  BY <1>1, <1>2, <2>1, <2>2, Zenon
  <1>7. CASE MouseByte
    <2>1. CASE Aux /\ ~Refused(mouse, ctl.byte) /\ mouse' = Assembled(mouse, ctl.byte)
      <3> DEFINE p == Append(mouse.packet, ctl.byte)
      <3>1. ctl.byte.src = "mouse" /\ From({"mouse"}, mouse.packet)
        BY <2>1, Zenon DEF Aux, MouseOnly
      <3>2. p \in Event /\ From({"mouse"}, p)
        BY <1>0, <3>1, Stretched, Zenon
      <3>3. /\ mouse'.applied = mouse.applied
            /\ \/ /\ mouse'.packet = p /\ mouse'.q = mouse.q /\ mouse'.r = mouse.r /\ mouse'.w = mouse.w
               \/ mouse'.packet = <<>> /\ Put(mouse, mouse', p)
        BY <1>0, <2>1, AssembledDoes
      <3> HIDE DEF p
      <3>4. From({"mouse"}, <<>>)
        BY FromIs
      <3>5. From({"mouse"}, mouse'.packet)
        BY <3>2, <3>3, <3>4, Zenon
      <3>6. cpu' = cpu
        BY <1>7, MouseByteDoes
      <3>7. \A s \in Covered' : From({"mouse"}, mouse'.q[s])
        <4>1. CASE mouse'.q = mouse.q /\ mouse'.r = mouse.r /\ mouse'.w = mouse.w
          <5>1. Covered' = Covered
            BY <3>6, <4>1, Zenon DEF Covered, Between, QueueSlots
          <5> QED  BY <4>1, <5>1, Zenon DEF MouseOnly
        <4>2. CASE Put(mouse, mouse', p)
          <5>1. /\ mouse'.q[mouse.w] = p
                /\ \A s \in Covered' : s \in QueueSlots /\ (s = mouse.w \/ (s \in Covered /\ mouse'.q[s] = mouse.q[s]))
            BY <3>6, <4>2, CoveredPut, Zenon
          <5> QED  BY <3>2, <5>1, Zenon DEF MouseOnly
        <4> QED  BY <3>3, <4>1, <4>2
      <3> QED  BY <3>3, <3>5, <3>6, <3>7, Zenon DEF MouseOnly, From
    <2> QED  BY <1>1, <1>7, <2>1, MouseByteDoes, Zenon
  <1>8. CASE StartUp
    <2>1. cpu'.pc \in {"drain", "ask", "answer", "flush", "undefined", "pop"}
      BY <1>0, <1>8, PcNext, Zenon DEF StartUp
    <2>2. cpu'.pc \notin Reading
      BY <2>1 DEF Reading
    <2> QED  BY <1>2, <1>8, <2>2, StartUpDoes
  <1>9. CASE PopLook \/ PopAdvance
    <2>1. mouse' = mouse /\ cpu'.pc \in {"advance", "pop", "run"}
      BY <1>0, <1>9, PcNext, Zenon DEF PopLook, PopAdvance
    <2>2. cpu'.pc \notin Reading
      BY <2>1 DEF Reading
    <2> QED  BY <1>2, <2>1, <2>2
  <1>10. CASE Update
    <2>1. mouse'.packet = mouse.packet
      BY <1>10, UpdateDoes, Zenon
    <2>2. From({"mouse"}, mouse'.packet)
      BY <2>1, Zenon DEF MouseOnly
    <2>3. \A s \in Covered : From({"mouse"}, mouse.q[s])
      BY Zenon DEF MouseOnly
    <2>4. CASE UpdateLook
      <3>1. mouse' = mouse /\ cpu'.pc = "bound" /\ cpu'.from = mouse.r
        BY <2>4, UpdateDoes, Zenon
      <3>2. Covered' = Between(mouse.r, mouse.w)
        BY <3>1 DEF Covered, Between, QueueSlots
      <3>3. Covered' \subseteq Covered
        BY <3>2, Zenon DEF Covered
      <3> QED  BY <2>2, <2>3, <3>1, <3>3 DEF MouseOnly
    <2>5. CASE UpdateBound
      <3>1. /\ cpu.pc = "bound" /\ mouse' = mouse
            /\ \/ cpu.from = mouse.w /\ cpu'.pc = "run"
               \/ cpu.from # mouse.w /\ cpu'.pc = "x" /\ cpu'.from = cpu.from /\ cpu'.upto = mouse.w
        BY <2>5, UpdateDoes, Zenon
      <3>2. CASE cpu'.pc = "run"
        <4>1. cpu'.pc \notin Reading
          BY <3>2 DEF Reading
        <4> QED  BY <1>2, <3>1, <4>1, Zenon
      <3>3. CASE cpu.from # mouse.w /\ cpu'.pc = "x" /\ cpu'.from = cpu.from /\ cpu'.upto = mouse.w
        <4>1. Covered' = Between(mouse.r, mouse.w) \cup Between(mouse.w, mouse.w) \cup Between(cpu.from, mouse.w)
          BY <3>1, <3>3 DEF Covered, Between, QueueSlots
        <4>2. Between(mouse.w, mouse.w) = {}
          BY <1>0, BetweenIs
        <4>3. Between(mouse.r, mouse.w) \subseteq Covered /\ Between(cpu.from, mouse.w) \subseteq Covered
          BY <3>1, Zenon DEF Covered
        <4>4. Covered' \subseteq Covered
          BY <4>1, <4>2, <4>3, Zenon
        <4> QED  BY <2>2, <2>3, <3>1, <3>3, <4>4 DEF MouseOnly
      <3> QED  BY <3>1, <3>2, <3>3
    <2>6. CASE UpdateX
      <3>1. /\ cpu.pc = "x" /\ mouse' = mouse /\ cpu'.pc = "y"
            /\ cpu'.from = cpu.from /\ cpu'.upto = cpu.upto /\ cpu'.ev[1] = mouse.q[cpu.from][2]
        BY <2>6, UpdateDoes, Zenon
      <3>2. Covered' = Covered
        BY <3>1 DEF Covered, Between, QueueSlots
      <3>3. cpu.from # cpu.upto
        BY <3>1, Zenon DEF MouseOnly
      <3>4. mouse.q[cpu.from][2].src = "mouse"
        <4>1. cpu.from \in Covered
          <5>1. cpu.from \in Between(cpu.from, cpu.upto)
            BY <1>0, <3>3, BetweenIs, Zenon
          <5> QED  BY <3>1, <5>1, Zenon DEF Covered
        <4>2. From({"mouse"}, mouse.q[cpu.from]) /\ mouse.q[cpu.from] \in Packed
          BY <1>0, <2>3, <4>1
        <4> QED  BY <4>2 DEF From, Packed
      <3> QED  BY <2>2, <2>3, <3>1, <3>2, <3>3, <3>4 DEF MouseOnly
    <2>7. CASE UpdateY
      <3> DEFINE a == [x |-> cpu.ev[1], y |-> mouse.q[cpu.from][3]]
      <3>1. /\ cpu.pc = "y" /\ cpu'.upto = cpu.upto
            /\ \/ NextPacket(cpu.from) = cpu.upto /\ cpu'.pc = "buttons" /\ cpu'.from = cpu.from
               \/ /\ NextPacket(cpu.from) # cpu.upto
                  /\ cpu'.pc = "x" /\ cpu'.from = NextPacket(cpu.from)
            /\ mouse'.applied = Append(mouse.applied, a)
            /\ mouse'.q = mouse.q /\ mouse'.r = mouse.r /\ mouse'.w = mouse.w
        BY <2>7, UpdateDoes, Zenon
      <3>2. cpu.from # cpu.upto /\ cpu.ev[1].src = "mouse"
        BY <3>1, Zenon DEF MouseOnly
      <3>3. mouse.q[cpu.from][3].src = "mouse"
        <4>1. cpu.from \in Covered
          <5>1. cpu.from \in Between(cpu.from, cpu.upto)
            BY <1>0, <3>2, BetweenIs, Zenon
          <5> QED  BY <3>1, <5>1, Zenon DEF Covered
        <4>2. From({"mouse"}, mouse.q[cpu.from]) /\ mouse.q[cpu.from] \in Packed
          BY <1>0, <2>3, <4>1
        <4> QED  BY <4>2 DEF From, Packed
      <3>4. a.x.src = "mouse" /\ a.y.src = "mouse" /\ a \in Movement
        <4>1. cpu.ev[1] \in Bytes
          BY <1>0 DEF Event
        <4>2. mouse.q[cpu.from] \in Packed
          BY <1>0
        <4>3. mouse.q[cpu.from][3] \in Bytes
          BY <4>2, PackedAre, Zenon
        <4> QED  BY <3>2, <3>3, <4>1, <4>3 DEF Movement
      <3> HIDE DEF a
      <3>5. \A i \in 1 .. Len(mouse'.applied) :
              \/ mouse'.applied[i] = a
              \/ i \in 1 .. Len(mouse.applied) /\ mouse'.applied[i] = mouse.applied[i]
        BY <1>0, <3>1, <3>4
      <3>6. \A i \in 1 .. Len(mouse'.applied) : mouse'.applied[i].x.src = "mouse" /\ mouse'.applied[i].y.src = "mouse"
        BY <3>4, <3>5, Zenon DEF MouseOnly
      <3>7. Covered' \subseteq Covered
        <4>1. CASE NextPacket(cpu.from) = cpu.upto /\ cpu'.pc = "buttons"
          <5>1. Covered' = Between(mouse.r, mouse.w) \cup Between(cpu.upto, mouse.w)
            BY <3>1, <4>1 DEF Covered, Between, QueueSlots
          <5> QED  BY <3>1, <5>1, Zenon DEF Covered
        <4>2. CASE cpu'.pc = "x" /\ cpu'.from = NextPacket(cpu.from)
          <5>1. Covered' = Between(mouse.r, mouse.w) \cup Between(cpu.upto, mouse.w)
                             \cup Between(NextPacket(cpu.from), cpu.upto)
            BY <3>1, <4>2 DEF Covered, Between, QueueSlots
          <5>2. Between(NextPacket(cpu.from), cpu.upto) \subseteq Between(cpu.from, cpu.upto)
            BY <1>0, <3>2, BetweenIs, Zenon
          <5>3. Covered = Between(mouse.r, mouse.w) \cup Between(cpu.upto, mouse.w) \cup Between(cpu.from, cpu.upto)
            <6> HIDE DEF Between
            <6> QED  BY <3>1 DEF Covered
          <5> QED  BY <5>1, <5>2, <5>3, Zenon
        <4> QED  BY <3>1, <4>1, <4>2, Zenon
      <3>8. cpu'.pc # "y" /\ (cpu'.pc \in {"x", "y"} => cpu'.from # cpu'.upto)
        BY <3>1
      <3> QED  BY <2>2, <2>3, <3>1, <3>6, <3>7, <3>8, Zenon DEF MouseOnly
    <2>8. CASE UpdateButtons
      <3>1. /\ cpu.pc = "buttons" /\ cpu'.pc = "give" /\ cpu'.upto = cpu.upto /\ mouse'.applied = mouse.applied
            /\ mouse'.q = mouse.q /\ mouse'.r = mouse.r /\ mouse'.w = mouse.w
        BY <2>8, UpdateDoes, Zenon
      <3>2. Covered' = Covered
        BY <3>1 DEF Covered, Between, QueueSlots
      <3> QED  BY <2>2, <2>3, <3>1, <3>2 DEF MouseOnly
    <2>9. CASE UpdateGive
      <3>1. /\ cpu.pc = "give" /\ cpu'.pc = "run" /\ mouse'.r = cpu.upto /\ mouse'.q = mouse.q /\ mouse'.w = mouse.w
            /\ mouse'.applied = mouse.applied
        BY <2>9, UpdateDoes, Zenon
      <3>2. Covered' = Between(cpu.upto, mouse.w)
        BY <3>1 DEF Covered, Between, QueueSlots
      <3>3. Covered' \subseteq Covered
        BY <3>1, <3>2, Zenon DEF Covered
      <3> QED  BY <2>2, <2>3, <3>1, <3>3 DEF MouseOnly
    <2> QED  BY <1>10, <2>4, <2>5, <2>6, <2>7, <2>8, <2>9, Zenon DEF Update
  <1> QED
    BY <1>3, <1>4, <1>5, <1>6, <1>7, <1>8, <1>9, <1>10, QuietSteps, Zenon
-----------------------------------------------------------------------------
(* The packets of the mouse, in order.                                     *)

\* A packet of the mouse begins behind the first o bytes of s.
WholeAt(w, s, o, n) ==
  /\ s[o + 1] = Byte("mouse", 8, n) \/ s[o + 1] = Byte("mouse", 72, n)
  /\ s[o + 2] = Byte("mouse", 8, n)
  /\ s[o + 3] = Byte("mouse", 0, n)
  /\ w => s[o + 4] = Byte("mouse", 0, n)

\* s is the packets m + 1 to n one after the other.
Aligned(w, s, m, n) ==
  IF w THEN Len(s) = 4 * (n - m) /\ \A k \in m + 1 .. n : WholeAt(w, s, 4 * (k - m - 1), k)
  ELSE Len(s) = 3 * (n - m) /\ \A k \in m + 1 .. n : WholeAt(w, s, 3 * (k - m - 1), k)

Whole(p) == p = Packet(wire, 8, p[1].n)

LEMMA JoinAt ==
  ASSUME NEW p \in Seq(Bytes), NEW r \in Seq(Bytes)
  PROVE  /\ p \o r \in Seq(Bytes) /\ Len(p \o r) = Len(p) + Len(r) /\ Len(r) \in Nat /\ Len(p) \in Nat
         /\ \A i \in 1 .. Len(p) : (p \o r)[i] = p[i]
         /\ \A i \in 1 .. Len(r) : (p \o r)[i + Len(p)] = r[i]
  <1>1. p \o r \in Seq(Bytes) /\ Len(p \o r) = Len(p) + Len(r) /\ Len(r) \in Nat /\ Len(p) \in Nat
    OBVIOUS
  <1>2. \A i \in 1 .. Len(p) : (p \o r)[i] = p[i]
    OBVIOUS
  <1>3. \A i \in 1 .. Len(r) : (p \o r)[i + Len(p)] = r[i]
    OBVIOUS
  <1> QED  BY <1>1, <1>2, <1>3

LEMMA JoinAssociates ==
  ASSUME NEW p \in Seq(Bytes), NEW q \in Seq(Bytes), NEW r \in Seq(Bytes)
  PROVE  p \o (q \o r) = (p \o q) \o r
  BY ConcatAssociative, SMTT(30)

LEMMA OnePut ==
  ASSUME NEW p \in Seq(Bytes), NEW b \in Bytes
  PROVE  Append(p, b) = p \o <<b>> /\ <<b>> \in Seq(Bytes)
  <1>1. <<b>> \in Seq(Bytes)
    OBVIOUS
  <1> QED  BY <1>1, AppendIsConcat

LEMMA AlignedGains ==
  ASSUME NEW s \in Seq(Bytes), NEW m \in Nat, NEW n \in Nat, m <= n, wire.wheel \in BOOLEAN,
         Aligned(wire.wheel, s, m, n), NEW head \in {8, 72}
  PROVE  Aligned(wire.wheel, s \o Packet(wire, head, n + 1), m, n + 1)
  <1> DEFINE w == wire.wheel
             p == Packet(wire, head, n + 1)
             t == s \o p
             a == Byte("mouse", head, n + 1)
             b == Byte("mouse", 8, n + 1)
             c == Byte("mouse", 0, n + 1)
  <1>1. p \in Seq(Bytes) /\ p = IF w THEN <<a, b, c, c>> ELSE <<a, b, c>>
    <2>1. n + 1 \in Nat
      OBVIOUS
    <2> QED  BY <2>1, PacketIs, ZenonT(40)
  <1>2. a = Byte("mouse", 8, n + 1) \/ a = Byte("mouse", 72, n + 1)
    OBVIOUS
  <1>3. b = Byte("mouse", 8, n + 1)
    OBVIOUS
  <1>4. c = Byte("mouse", 0, n + 1)
    OBVIOUS
  <1> HIDE DEF a, b, c, p
  <1>5. \A i \in 1 .. Len(s) : t[i] = s[i]
    BY <1>1
  <1>6. CASE w
    <2>1. p = <<a, b, c, c>>
      BY <1>1, <1>6
    <2>2. /\ Len(t) = Len(s) + 4 /\ t[Len(s) + 1] = a /\ t[Len(s) + 2] = b /\ t[Len(s) + 3] = c
          /\ t[Len(s) + 4] = c
      <3>1. /\ Len(p) = 4 /\ p[1] = a /\ p[2] = b /\ p[3] = c /\ p[4] = c
        BY <2>1
      <3> QED  BY <1>1, <3>1
    <2>3. Len(s) = 4 * (n - m) /\ \A k \in m + 1 .. n : WholeAt(w, s, 4 * (k - m - 1), k)
      BY <1>6 DEF Aligned
    <2> HIDE DEF t
    <2>4. ASSUME NEW k \in m + 1 .. n + 1 PROVE WholeAt(w, t, 4 * (k - m - 1), k)
      <3>1. CASE k = n + 1
        <4>1. 4 * (k - m - 1) = Len(s)
          BY <2>3, <3>1
        <4>2. WholeAt(w, t, Len(s), n + 1)
          BY <1>2, <1>3, <1>4, <2>2, Zenon DEF WholeAt
        <4> QED  BY <3>1, <4>1, <4>2
      <3>2. CASE k # n + 1
        <4>1. k \in m + 1 .. n
          BY <3>2
        <4>2. PICK o \in Nat : o = 4 * (k - m - 1) /\ o + 4 <= Len(s)
          BY <2>3, <4>1
        <4>3. WholeAt(w, s, o, k)
          BY <2>3, <4>1, <4>2
        <4>4. s[o + 1] = t[o + 1] /\ s[o + 2] = t[o + 2] /\ s[o + 3] = t[o + 3] /\ s[o + 4] = t[o + 4]
          BY <1>5, <4>2
        <4>5. WholeAt(w, t, o, k)
          BY <4>3, <4>4, Zenon DEF WholeAt
        <4> QED  BY <4>2, <4>5
      <3> QED  BY <3>1, <3>2
    <2>5. Len(t) = 4 * ((n + 1) - m)
      BY <2>2, <2>3
    <2>6. \A k \in m + 1 .. n + 1 : WholeAt(w, t, 4 * (k - m - 1), k)
      BY <2>4
    <2>7. Aligned(w, t, m, n + 1)
      BY <1>6, <2>5, <2>6, Zenon DEF Aligned
    <2> QED  BY <2>7 DEF t, p
  <1>7. CASE ~w
    <2>1. p = <<a, b, c>>
      BY <1>1, <1>7
    <2>2. Len(t) = Len(s) + 3 /\ t[Len(s) + 1] = a /\ t[Len(s) + 2] = b /\ t[Len(s) + 3] = c
      <3>1. Len(p) = 3 /\ p[1] = a /\ p[2] = b /\ p[3] = c
        BY <2>1
      <3> QED  BY <1>1, <3>1
    <2>3. Len(s) = 3 * (n - m) /\ \A k \in m + 1 .. n : WholeAt(w, s, 3 * (k - m - 1), k)
      BY <1>7 DEF Aligned
    <2> HIDE DEF t
    <2>4. ASSUME NEW k \in m + 1 .. n + 1 PROVE WholeAt(w, t, 3 * (k - m - 1), k)
      <3>1. CASE k = n + 1
        <4>1. 3 * (k - m - 1) = Len(s)
          BY <2>3, <3>1
        <4>2. WholeAt(w, t, Len(s), n + 1)
          BY <1>2, <1>3, <1>4, <1>7, <2>2, Zenon DEF WholeAt
        <4> QED  BY <3>1, <4>1, <4>2
      <3>2. CASE k # n + 1
        <4>1. k \in m + 1 .. n
          BY <3>2
        <4>2. PICK o \in Nat : o = 3 * (k - m - 1) /\ o + 3 <= Len(s)
          BY <2>3, <4>1
        <4>3. WholeAt(w, s, o, k)
          BY <2>3, <4>1, <4>2
        <4>4. s[o + 1] = t[o + 1] /\ s[o + 2] = t[o + 2] /\ s[o + 3] = t[o + 3]
          BY <1>5, <4>2
        <4>5. WholeAt(w, t, o, k)
          BY <1>7, <4>3, <4>4, Zenon DEF WholeAt
        <4> QED  BY <4>2, <4>5
      <3> QED  BY <3>1, <3>2
    <2>5. Len(t) = 3 * ((n + 1) - m)
      BY <2>2, <2>3
    <2>6. \A k \in m + 1 .. n + 1 : WholeAt(w, t, 3 * (k - m - 1), k)
      BY <2>4
    <2>7. Aligned(w, t, m, n + 1)
      BY <1>7, <2>5, <2>6 DEF Aligned
    <2> QED  BY <2>7 DEF t, p
  <1> QED  BY <1>6, <1>7

LEMMA AlignedTakes ==
  ASSUME NEW w \in BOOLEAN, NEW p \in Seq(Bytes), NEW r \in Seq(Bytes), NEW m \in Nat, NEW n \in Nat, m <= n,
         Len(p) = (IF w THEN 4 ELSE 3), Aligned(w, p \o r, m, n)
  PROVE  m + 1 <= n /\ WholeAt(w, p, 0, m + 1) /\ Aligned(w, r, m + 1, n)
  <1> DEFINE s == p \o r
  <1>1. Len(s) = Len(p) + Len(r) /\ Len(r) \in Nat /\ Len(p) \in Nat
    BY JoinAt, Zenon
  <1>2. \A i \in 1 .. Len(p) : s[i] = p[i]
    BY JoinAt, Zenon
  <1>3. \A i \in 1 .. Len(r) : s[i + Len(p)] = r[i]
    BY JoinAt, Zenon
  <1>4. Aligned(w, s, m, n)
    OBVIOUS
  <1> HIDE DEF s
  <1>5. CASE w
    <2>1. Len(s) = 4 * (n - m) /\ \A k \in m + 1 .. n : WholeAt(w, s, 4 * (k - m - 1), k)
      BY <1>4, <1>5 DEF Aligned
    <2>2. m + 1 <= n /\ Len(p) = 4 /\ Len(r) = 4 * (n - (m + 1))
      BY <1>1, <1>5, <2>1
    <2>3. WholeAt(w, s, 0, m + 1)
      <3>1. m + 1 \in m + 1 .. n /\ 4 * ((m + 1) - m - 1) = 0
        BY <2>2
      <3> QED  BY <2>1, <3>1
    <2>4. s[0 + 1] = p[0 + 1] /\ s[0 + 2] = p[0 + 2] /\ s[0 + 3] = p[0 + 3] /\ s[0 + 4] = p[0 + 4]
      BY <1>2, <2>2, SMTT(30)
    <2>5. WholeAt(w, p, 0, m + 1)
      BY <2>3, <2>4, Zenon DEF WholeAt
    <2>6. ASSUME NEW k \in m + 1 + 1 .. n PROVE WholeAt(w, r, 4 * (k - (m + 1) - 1), k)
      <3>1. PICK o \in Nat : o = 4 * (k - (m + 1) - 1) /\ o + 4 = 4 * (k - m - 1) /\ o + 4 <= Len(r)
        BY <2>2
      <3>2. WholeAt(w, s, o + 4, k)
        <4>1. k \in m + 1 .. n
          OBVIOUS
        <4> QED  BY <2>1, <3>1, <4>1
      <3>3. /\ s[(o + 4) + 1] = r[o + 1] /\ s[(o + 4) + 2] = r[o + 2] /\ s[(o + 4) + 3] = r[o + 3]
            /\ s[(o + 4) + 4] = r[o + 4]
        <4>1. o + 1 \in 1 .. Len(r) /\ o + 2 \in 1 .. Len(r) /\ o + 3 \in 1 .. Len(r) /\ o + 4 \in 1 .. Len(r)
          BY <1>1, <3>1
        <4>2. /\ s[(o + 1) + Len(p)] = r[o + 1] /\ s[(o + 2) + Len(p)] = r[o + 2]
              /\ s[(o + 3) + Len(p)] = r[o + 3] /\ s[(o + 4) + Len(p)] = r[o + 4]
          BY <1>3, <4>1, Zenon
        <4>3. /\ (o + 1) + Len(p) = (o + 4) + 1 /\ (o + 2) + Len(p) = (o + 4) + 2
              /\ (o + 3) + Len(p) = (o + 4) + 3 /\ (o + 4) + Len(p) = (o + 4) + 4
          BY <2>2, SMTT(30)
        <4> QED  BY <4>2, <4>3, Zenon
      <3>4. WholeAt(w, r, o, k)
        BY <3>2, <3>3, Zenon DEF WholeAt
      <3> QED  BY <3>1, <3>4
    <2>7. Aligned(w, r, m + 1, n)
      BY <1>5, <2>2, <2>6 DEF Aligned
    <2> QED  BY <2>2, <2>5, <2>7
  <1>6. CASE ~w
    <2>1. Len(s) = 3 * (n - m) /\ \A k \in m + 1 .. n : WholeAt(w, s, 3 * (k - m - 1), k)
      BY <1>4, <1>6 DEF Aligned
    <2>2. m + 1 <= n /\ Len(p) = 3 /\ Len(r) = 3 * (n - (m + 1))
      BY <1>1, <1>6, <2>1
    <2>3. WholeAt(w, s, 0, m + 1)
      <3>1. m + 1 \in m + 1 .. n /\ 3 * ((m + 1) - m - 1) = 0
        BY <2>2
      <3> QED  BY <2>1, <3>1
    <2>4. s[0 + 1] = p[0 + 1] /\ s[0 + 2] = p[0 + 2] /\ s[0 + 3] = p[0 + 3]
      BY <1>2, <2>2
    <2>5. WholeAt(w, p, 0, m + 1)
      BY <1>6, <2>3, <2>4, Zenon DEF WholeAt
    <2>6. ASSUME NEW k \in m + 1 + 1 .. n PROVE WholeAt(w, r, 3 * (k - (m + 1) - 1), k)
      <3>1. PICK o \in Nat : o = 3 * (k - (m + 1) - 1) /\ o + 3 = 3 * (k - m - 1) /\ o + 3 <= Len(r)
        BY <2>2
      <3>2. WholeAt(w, s, o + 3, k)
        <4>1. k \in m + 1 .. n
          OBVIOUS
        <4> QED  BY <2>1, <3>1, <4>1
      <3>3. s[(o + 3) + 1] = r[o + 1] /\ s[(o + 3) + 2] = r[o + 2] /\ s[(o + 3) + 3] = r[o + 3]
        <4>1. o + 1 \in 1 .. Len(r) /\ o + 2 \in 1 .. Len(r) /\ o + 3 \in 1 .. Len(r)
          BY <1>1, <3>1
        <4>2. /\ s[(o + 1) + Len(p)] = r[o + 1] /\ s[(o + 2) + Len(p)] = r[o + 2]
              /\ s[(o + 3) + Len(p)] = r[o + 3]
          BY <1>3, <4>1, Zenon
        <4>3. /\ (o + 1) + Len(p) = (o + 3) + 1 /\ (o + 2) + Len(p) = (o + 3) + 2
              /\ (o + 3) + Len(p) = (o + 3) + 3
          BY <2>2, SMTT(30)
        <4> QED  BY <4>2, <4>3, Zenon
      <3>4. WholeAt(w, r, o, k)
        BY <1>6, <3>2, <3>3, Zenon DEF WholeAt
      <3> QED  BY <3>1, <3>4
    <2>7. Aligned(w, r, m + 1, n)
      BY <1>6, <2>2, <2>6 DEF Aligned
    <2> QED  BY <2>2, <2>5, <2>7
  <1> QED  BY <1>5, <1>6

LEMMA WholeIs ==
  ASSUME NEW p \in Seq(Bytes), NEW n \in Nat, wire.wheel \in BOOLEAN,
         Len(p) = (IF wire.wheel THEN 4 ELSE 3), WholeAt(wire.wheel, p, 0, n), p[1].val = 8
  PROVE  Whole(p) /\ p[1].n = n
  <1> DEFINE w == wire.wheel
             a == Byte("mouse", 8, n)
             c == Byte("mouse", 0, n)
  <1>1. /\ p[1] = Byte("mouse", 8, n) \/ p[1] = Byte("mouse", 72, n)
        /\ p[2] = Byte("mouse", 8, n)
        /\ p[3] = Byte("mouse", 0, n)
        /\ w => p[4] = Byte("mouse", 0, n)
    BY DEF WholeAt
  <1>2. p[2] = Byte("mouse", 8, n)
    BY <1>1
  <1> DEFINE b == Byte("mouse", 8, n)
  <1>3. p[1] = a /\ a.n = n
    <2>1. Byte("mouse", 72, n).val = 72 /\ a.n = n
      BY Zenon DEF Byte
    <2> QED  BY <1>1, <2>1
  <1>4. Packet(wire, 8, n) = IF w THEN <<a, b, c, c>> ELSE <<a, b, c>>
    BY PacketIs
  <1>5. p[2] = b /\ p[3] = c /\ (w => p[4] = c)
    BY <1>1, <1>2
  <1>6. Packet(wire, 8, n) \in Seq(Bytes)
    BY PacketIs
  <1> HIDE DEF a, b, c
  <1> DEFINE t == Packet(wire, 8, n)
  <1>7. Len(t) = Len(p) /\ t \in Seq(Bytes)
    <2>1. w => t = <<a, b, c, c>> /\ Len(t) = 4
      BY <1>4
    <2>2. ~w => t = <<a, b, c>> /\ Len(t) = 3
      BY <1>4
    <2> QED  BY <1>6, <2>1, <2>2
  <1>8. \A i \in 1 .. Len(p) : t[i] = p[i]
    <2>1. CASE w
      <3>1. t[1] = a /\ t[2] = b /\ t[3] = c /\ t[4] = c /\ 1 .. Len(p) = {1, 2, 3, 4}
        BY <1>4, <2>1
      <3> QED  BY <1>3, <1>5, <2>1, <3>1
    <2>2. CASE ~w
      <3>1. t[1] = a /\ t[2] = b /\ t[3] = c /\ 1 .. Len(p) = {1, 2, 3}
        BY <1>4, <2>2
      <3> QED  BY <1>3, <1>5, <3>1
    <2> QED  BY <2>1, <2>2
  <1> HIDE DEF t
  <1>9. t = p
    BY <1>7, <1>8, SeqEqual
  <1>10. p[1].n = n
    BY <1>3
  <1>11. p = Packet(wire, 8, p[1].n)
    BY <1>9, <1>10 DEF t
  <1> QED  BY <1>10, <1>11, Zenon DEF Whole

\* How long ago the slot i was written, counted in packets, when w is the next to be
\* written; and how many slots there are from i up to w.
Age(i, w)    == IF i < w THEN w - i ELSE w - i + MouseSlots
Behind(i, w) == IF i <= w THEN w - i ELSE w - i + MouseSlots

LEMMA Turning ==
  ASSUME NEW i \in QueueSlots, NEW w \in QueueSlots
  PROVE  /\ Age(i, w) \in 1 .. MouseSlots /\ Behind(i, w) \in 0 .. MouseSlots - 1
         /\ i # w => Age(i, w) = Behind(i, w)
         /\ Age(w, w) = MouseSlots /\ Behind(w, w) = 0
         /\ i # w => Age(i, NextPacket(w)) = Age(i, w) + 1
         /\ Age(w, NextPacket(w)) = 1
         /\ Behind(i, NextPacket(w)) = IF Behind(i, w) = MouseSlots - 1 THEN 0 ELSE Behind(i, w) + 1
         /\ Behind(NextPacket(i), w) = Age(i, w) - 1
         /\ Age(i, w) > 1 => Age(NextPacket(i), w) = Age(i, w) - 1
         /\ NextPacket(w) = i => Behind(i, w) = MouseSlots - 1
  <1>1. MouseSlots \in Nat /\ MouseSlots > 1 /\ i \in Int /\ w \in Int
    BY PlacesAre DEF QueueSlots
  <1>2. 0 <= i /\ i < MouseSlots /\ 0 <= w /\ w < MouseSlots
    BY <1>1 DEF QueueSlots
  <1>3. /\ NextPacket(i) = (IF i = MouseSlots - 1 THEN 0 ELSE i + 1)
        /\ NextPacket(w) = (IF w = MouseSlots - 1 THEN 0 ELSE w + 1)
    BY PlacesAre
  <1>4. /\ Age(i, w) \in 1 .. MouseSlots /\ Behind(i, w) \in 0 .. MouseSlots - 1
        /\ i # w => Age(i, w) = Behind(i, w)
        /\ Age(w, w) = MouseSlots /\ Behind(w, w) = 0
    BY <1>1, <1>2 DEF Age, Behind
  <1>5. /\ i # w => Age(i, NextPacket(w)) = Age(i, w) + 1
        /\ Age(w, NextPacket(w)) = 1
    BY <1>1, <1>2, <1>3 DEF Age
  <1>6. Behind(i, NextPacket(w)) = IF Behind(i, w) = MouseSlots - 1 THEN 0 ELSE Behind(i, w) + 1
    BY <1>1, <1>2, <1>3 DEF Behind
  <1>7. Behind(NextPacket(i), w) = Age(i, w) - 1
    BY <1>1, <1>2, <1>3 DEF Age, Behind
  <1>8. Age(i, w) > 1 => Age(NextPacket(i), w) = Age(i, w) - 1
    BY <1>1, <1>2, <1>3 DEF Age
  <1>9. NextPacket(w) = i => Behind(i, w) = MouseSlots - 1
    BY <1>1, <1>2, <1>3 DEF Behind
  <1> QED  BY <1>4, <1>5, <1>6, <1>7, <1>8, <1>9

LEMMA OneBehind ==
  ASSUME NEW i \in QueueSlots, NEW j \in QueueSlots, NEW w \in QueueSlots, Behind(i, w) = Behind(j, w)
  PROVE  i = j
  <1>1. MouseSlots \in Nat /\ i \in Int /\ w \in Int /\ j \in Int
    BY PlacesAre DEF QueueSlots
  <1>2. 0 <= i /\ i < MouseSlots /\ 0 <= w /\ w < MouseSlots /\ 0 <= j /\ j < MouseSlots
    BY <1>1 DEF QueueSlots
  <1> QED  BY <1>1, <1>2 DEF Behind

\* The last slot written holds the packet m, the one before it m - 1, and so on.
Numbered(q, w, m) ==
  \A i \in QueueSlots : Age(i, w) <= m => Whole(q[i]) /\ q[i][1].n = m - Age(i, w) + 1

\* The queue, and an update under way, begin at packets the mouse has sent.
WithinSent(ms, c, m) ==
  /\ Behind(ms.r, ms.w) <= m
  /\ c.pc = "bound" => Behind(c.from, ms.w) <= m
  /\ c.pc \in {"x", "y", "buttons", "give"} => Behind(c.upto, ms.w) <= m

\* The number up to which the packets have been applied.
Up(ms, c, m) ==
  IF c.pc \in {"x", "y"} THEN m - Age(c.from, ms.w)
  ELSE IF c.pc \in {"buttons", "give"} THEN m - Behind(c.upto, ms.w)
  ELSE m - Behind(ms.r, ms.w)

\* What was applied is whole and in order, and the update goes on behind it.
Applied(ms, c, m) ==
  LET a == ms.applied  n == Len(ms.applied) IN
    /\ \A i \in 1 .. n, j \in 1 .. n : i < j => a[i].x.n < a[j].x.n
    /\ \A i \in 1 .. n : a[i].x.n = a[i].y.n /\ a[i].x.n <= Up(ms, c, m)
    /\ c.pc = "bound" => \A i \in 1 .. n : a[i].x.n <= m - Behind(c.from, ms.w)
    /\ c.pc \in {"x", "y", "buttons"} => c.from # c.upto /\ Age(c.from, ms.w) <= m
    /\ c.pc \in {"x", "y"} => Behind(c.upto, ms.w) < Age(c.from, ms.w)
    /\ c.pc = "y" => c.ev[1].n = m - Age(c.from, ms.w) + 1
    /\ c.pc = "buttons" => /\ Behind(c.upto, ms.w) = Age(c.from, ms.w) - 1
                           /\ n > 0 /\ a[n].x.n = m - Age(c.from, ms.w) + 1
    /\ c.pc = "give" => n > 0 /\ ms.buttons.n = a[n].x.n

LEMMA NumberedPut ==
  ASSUME NEW q \in [QueueSlots -> Packed], NEW w \in QueueSlots, NEW m \in Nat, NEW p \in Packed,
         Numbered(q, w, m), Whole(p), p[1].n = m + 1
  PROVE  Numbered([q EXCEPT ![w] = p], NextPacket(w), m + 1)
  <1> DEFINE t == [q EXCEPT ![w] = p]
  <1> SUFFICES ASSUME NEW i \in QueueSlots, Age(i, NextPacket(w)) <= m + 1
               PROVE  Whole(t[i]) /\ t[i][1].n = (m + 1) - Age(i, NextPacket(w)) + 1
    BY Zenon DEF Numbered
  <1>1. CASE i = w
    <2>1. t[i] = p
      BY <1>1
    <2>2. Age(i, NextPacket(w)) = 1 /\ (m + 1) - 1 + 1 = m + 1
      BY <1>1, Turning
    <2> QED  BY <2>1, <2>2
  <1>2. CASE i # w
    <2>1. t[i] = q[i]
      BY <1>2
    <2>2. Age(i, NextPacket(w)) = Age(i, w) + 1 /\ Age(i, w) \in Nat
      BY <1>2, Turning
    <2>3. Age(i, w) <= m /\ (m + 1) - Age(i, NextPacket(w)) + 1 = m - Age(i, w) + 1
      <3> HIDE DEF Age
      <3> QED  BY <2>2
    <2>4. Whole(q[i]) /\ q[i][1].n = m - Age(i, w) + 1
      BY <2>3, Zenon DEF Numbered
    <2> QED  BY <2>1, <2>3, <2>4, Zenon
  <1> QED  BY <1>1, <1>2

\* A packet more: no slot is further behind the numbers than it was.
LEMMA FurtherOn ==
  ASSUME NEW i \in QueueSlots, NEW w \in QueueSlots, NEW m \in Nat
  PROVE  /\ Behind(i, w) \in Nat /\ Age(i, w) \in Nat /\ Behind(i, NextPacket(w)) \in Nat /\ Age(i, NextPacket(w)) \in Nat
         /\ m - Behind(i, w) <= (m + 1) - Behind(i, NextPacket(w))
         /\ Behind(i, w) <= m => Behind(i, NextPacket(w)) <= m + 1
         /\ i # w => (m + 1) - Age(i, NextPacket(w)) = m - Age(i, w)
         /\ i # w /\ Age(i, w) <= m => Age(i, NextPacket(w)) <= m + 1
         /\ NextPacket(w) = i =>
              /\ m - Behind(i, w) <= (m + 1) - Behind(NextPacket(i), NextPacket(w))
              /\ Behind(i, w) <= m => Behind(NextPacket(i), NextPacket(w)) <= m + 1
  <1>1. NextPacket(w) \in QueueSlots /\ NextPacket(i) \in QueueSlots /\ MouseSlots \in Nat /\ MouseSlots > 1
    BY PlacesAre
  <1> DEFINE b == Behind(i, w)
             a == Age(i, w)
             b2 == Behind(i, NextPacket(w))
             a2 == Age(i, NextPacket(w))
             b3 == Behind(NextPacket(i), NextPacket(w))
  <1>2. /\ a \in 1 .. MouseSlots /\ b \in 0 .. MouseSlots - 1
        /\ b2 = IF b = MouseSlots - 1 THEN 0 ELSE b + 1
        /\ i # w => a2 = a + 1
        /\ NextPacket(w) = i => b = MouseSlots - 1
    BY Turning
  <1>3. a2 \in 1 .. MouseSlots
    BY <1>1, Turning
  <1>4. b3 = a2 - 1
    BY <1>1, Turning
  <1> HIDE DEF a, b, a2, b2, b3
  <1>5. /\ b \in Nat /\ a \in Nat /\ b2 \in Nat /\ a2 \in Nat
        /\ m - b <= (m + 1) - b2
        /\ b <= m => b2 <= m + 1
        /\ i # w => (m + 1) - a2 = m - a
        /\ i # w /\ a <= m => a2 <= m + 1
        /\ NextPacket(w) = i => m - b <= (m + 1) - b3 /\ (b <= m => b3 <= m + 1)
    BY <1>1, <1>2, <1>3, <1>4
  <1> QED  BY <1>5, Zenon DEF a, b, a2, b2, b3

\* m and n are the queue before and after a packet was put into it.
OneMore(ms, ns) ==
  /\ ns.w = NextPacket(ms.w) /\ ns.applied = ms.applied /\ ns.buttons = ms.buttons
  /\ ns.r = ms.r \/ (NextPacket(ms.w) = ms.r /\ ns.r = NextPacket(ms.r))

LEMMA WithinSentPut ==
  ASSUME NEW ms \in MouseState, NEW ns \in MouseState, NEW c \in CpuState, NEW m \in Nat,
         OneMore(ms, ns), WithinSent(ms, c, m)
  PROVE  WithinSent(ns, c, m + 1)
  <1>1. ms.r \in QueueSlots /\ ms.w \in QueueSlots /\ c.from \in QueueSlots /\ c.upto \in QueueSlots
    BY Zenon DEF MouseState, CpuState
  <1>2. ns.w = NextPacket(ms.w) /\ (ns.r = ms.r \/ (NextPacket(ms.w) = ms.r /\ ns.r = NextPacket(ms.r)))
    BY Zenon DEF OneMore
  <1>3. /\ Behind(ms.r, ms.w) <= m
        /\ c.pc = "bound" => Behind(c.from, ms.w) <= m
        /\ c.pc \in {"x", "y", "buttons", "give"} => Behind(c.upto, ms.w) <= m
    BY Zenon DEF WithinSent
  <1>4. /\ Behind(c.from, ms.w) <= m => Behind(c.from, NextPacket(ms.w)) <= m + 1
        /\ Behind(c.upto, ms.w) <= m => Behind(c.upto, NextPacket(ms.w)) <= m + 1
    BY <1>1, FurtherOn, Zenon
  <1>5. Behind(ns.r, ns.w) <= m + 1
    BY <1>1, <1>2, <1>3, FurtherOn, Zenon
  <1> QED  BY <1>2, <1>3, <1>4, <1>5, Zenon DEF WithinSent

LEMMA MovementsAre ==
  ASSUME NEW ms \in MouseState
  PROVE  /\ Len(ms.applied) \in Nat
         /\ \A i \in 1 .. Len(ms.applied) :
              ms.applied[i] \in Movement /\ ms.applied[i].x.n \in Nat /\ ms.applied[i].y.n \in Nat
  <1>1. ms.applied \in Seq(Movement)
    BY Zenon DEF MouseState
  <1>2. \A i \in 1 .. Len(ms.applied) : ms.applied[i] \in Movement
    BY <1>1
  <1>3. \A a \in Movement : a.x.n \in Nat /\ a.y.n \in Nat
    BY Zenon DEF Movement, Bytes
  <1> QED  BY <1>1, <1>2, <1>3

LEMMA AppliedPut ==
  ASSUME NEW ms \in MouseState, NEW ns \in MouseState, NEW c \in CpuState, NEW m \in Nat,
         OneMore(ms, ns), Applied(ms, c, m), c.pc \in {"x", "y", "buttons"} => c.from # ms.w
  PROVE  Applied(ns, c, m + 1)
  <1> DEFINE a == ms.applied
             n == Len(ms.applied)
             w == ms.w
             f == c.from
             u == c.upto
  <1>1. ms.r \in QueueSlots /\ w \in QueueSlots /\ f \in QueueSlots /\ u \in QueueSlots
    BY Zenon DEF MouseState, CpuState
  <1>2. /\ ns.w = NextPacket(w) /\ ns.applied = a /\ ns.buttons = ms.buttons
        /\ ns.r = ms.r \/ (NextPacket(w) = ms.r /\ ns.r = NextPacket(ms.r))
    BY Zenon DEF OneMore
  <1>3. n \in Nat /\ \A i \in 1 .. n : a[i].x.n \in Nat
    BY MovementsAre
  <1>4. /\ \A i \in 1 .. n, j \in 1 .. n : i < j => a[i].x.n < a[j].x.n
        /\ \A i \in 1 .. n : a[i].x.n = a[i].y.n /\ a[i].x.n <= Up(ms, c, m)
        /\ c.pc = "bound" => \A i \in 1 .. n : a[i].x.n <= m - Behind(f, w)
        /\ c.pc \in {"x", "y", "buttons"} => f # u /\ Age(f, w) <= m
        /\ c.pc \in {"x", "y"} => Behind(u, w) < Age(f, w)
        /\ c.pc = "y" => c.ev[1].n = m - Age(f, w) + 1
        /\ c.pc = "buttons" => Behind(u, w) = Age(f, w) - 1 /\ n > 0 /\ a[n].x.n = m - Age(f, w) + 1
        /\ c.pc = "give" => n > 0 /\ ms.buttons.n = a[n].x.n
    BY Zenon DEF Applied
  <1> DEFINE v == NextPacket(w)
             B == Behind(u, w)
             C == Behind(u, v)
             A == Age(f, w)
             D == Age(f, v)
             H == Behind(f, w)
             K == Behind(f, v)
             R == Behind(ms.r, w)
             S == Behind(ns.r, v)
  <1>5. /\ MouseSlots \in Nat /\ B \in 0 .. MouseSlots - 1 /\ A \in 1 .. MouseSlots
        /\ C = IF B = MouseSlots - 1 THEN 0 ELSE B + 1
        /\ f # w => D = A + 1
    BY <1>1, PlacesAre, Turning
  <1>6. /\ H \in Nat /\ K \in Nat /\ m - H <= (m + 1) - K /\ m - B <= (m + 1) - C /\ C \in Nat
    BY <1>1, FurtherOn, Zenon
  <1>7. v \in QueueSlots /\ ns.r \in QueueSlots
    BY <1>1, <1>2, PlacesAre, Zenon
  <1>8. R \in Nat /\ S \in Nat /\ m - R <= (m + 1) - S
    BY <1>1, <1>2, <1>7, FurtherOn, Zenon
  <1>9. D \in 1 .. MouseSlots
    BY <1>1, <1>7, Turning
  <1>10. /\ Up(ms, c, m) = IF c.pc \in {"x", "y"} THEN m - A ELSE IF c.pc \in {"buttons", "give"} THEN m - B ELSE m - R
         /\ Up(ns, c, m + 1) = IF c.pc \in {"x", "y"} THEN (m + 1) - D
                               ELSE IF c.pc \in {"buttons", "give"} THEN (m + 1) - C ELSE (m + 1) - S
    BY <1>2, Zenon DEF Up
  <1> HIDE DEF B, C, A, D, H, K, R, S, n
  <1>11. Up(ms, c, m) \in Int /\ Up(ns, c, m + 1) \in Int /\ Up(ms, c, m) <= Up(ns, c, m + 1)
    <2>1. CASE c.pc \in {"x", "y"}
      <3>1. Up(ms, c, m) = m - A /\ Up(ns, c, m + 1) = (m + 1) - D /\ f # w
        BY <1>10, <2>1
      <3> QED  BY <1>5, <1>9, <3>1
    <2>2. CASE c.pc \in {"buttons", "give"}
      <3>1. Up(ms, c, m) = m - B /\ Up(ns, c, m + 1) = (m + 1) - C
        BY <1>10, <2>2
      <3> QED  BY <1>5, <1>6, <3>1
    <2>3. CASE c.pc \notin {"x", "y", "buttons", "give"}
      <3>1. Up(ms, c, m) = m - R /\ Up(ns, c, m + 1) = (m + 1) - S
        BY <1>10, <2>3
      <3> QED  BY <1>8, <3>1
    <2> QED  BY <2>1, <2>2, <2>3
  <1>12. \A i \in 1 .. n : a[i].x.n = a[i].y.n /\ a[i].x.n <= Up(ns, c, m + 1)
    <2> TAKE i \in 1 .. n
    <2>1. a[i].x.n = a[i].y.n /\ a[i].x.n <= Up(ms, c, m) /\ a[i].x.n \in Nat
      BY <1>3, <1>4, Zenon
    <2> QED  BY <1>11, <2>1
  <1>13. c.pc = "bound" => \A i \in 1 .. n : a[i].x.n <= (m + 1) - K
    <2> SUFFICES ASSUME c.pc = "bound", NEW i \in 1 .. n PROVE a[i].x.n <= (m + 1) - K
      OBVIOUS
    <2>1. a[i].x.n \in Nat /\ a[i].x.n <= m - H
      BY <1>3, <1>4, Zenon DEF H
    <2> QED  BY <1>6, <2>1
  <1>14. c.pc \in {"x", "y", "buttons"} => f # u /\ D <= m + 1 /\ D = A + 1 /\ A <= m
    BY <1>4, <1>5, <1>9 DEF A
  <1>15. c.pc \in {"x", "y"} => C < D
    <2>1. c.pc \in {"x", "y"} => B < A
      BY <1>4, Zenon DEF A, B
    <2> QED  BY <1>5, <1>14, <2>1
  <1>16. c.pc = "y" => c.ev[1].n = (m + 1) - D + 1
    <2>1. c.pc = "y" => c.ev[1].n = m - A + 1
      BY <1>4, Zenon DEF A
    <2> QED  BY <1>5, <1>14, <2>1
  <1>17. c.pc = "buttons" => C = D - 1 /\ n > 0 /\ a[n].x.n = (m + 1) - D + 1
    <2>1. c.pc = "buttons" => B = A - 1 /\ n > 0 /\ a[n].x.n = m - A + 1
      BY <1>4, Zenon DEF A, B
    <2> QED  BY <1>5, <1>9, <1>14, <2>1
  <1>18. /\ \A i \in 1 .. n, j \in 1 .. n : i < j => a[i].x.n < a[j].x.n
         /\ c.pc = "give" => n > 0 /\ ns.buttons.n = a[n].x.n
    BY <1>2, <1>4, Zenon
  <1> QED  BY <1>2, <1>12, <1>13, <1>14, <1>15, <1>16, <1>17, <1>18, Zenon DEF Applied, n, C, D, K

\* The packets an update has taken or will take were sent in this order, the m-th the last.
Collected(m) ==
  /\ mouse.packet # <<>> => mouse.packet[1].val = 8
  /\ Numbered(mouse.q, mouse.w, m)
  /\ WithinSent(mouse, cpu, m)
  /\ ~mouse.overrun => Applied(mouse, cpu, m)

\* What mouse_handler will see: the bytes it has, and those that come.
Stream == IF cpu.pc = "answer" THEN IF wire.reporting THEN Tail(MovesComing) ELSE <<>>
          ELSE mouse.packet \o MovesComing

Train ==
  "mouse" \notin lost /\ cpu.pc # "undefined" =>
     \E m \in 0 .. wire.packets : Aligned(wire.wheel, Stream, m, wire.packets) /\ Collected(m)

LEMMA WholeSame == wire'.wheel = wire.wheel => \A p : Whole(p)' <=> Whole(p)
  BY Zenon DEF Whole, Packet

LEMMA NumberedSame ==
  ASSUME wire'.wheel = wire.wheel, NEW q, NEW w, NEW m, Numbered(q, w, m), mouse'.q = q, mouse'.w = w
  PROVE  Numbered(mouse.q, mouse.w, m)'
  <1>1. \A p : Whole(p)' <=> Whole(p)
    BY WholeSame
  <1>2. \A i \in QueueSlots : Age(i, w) <= m => Whole(q[i]) /\ q[i][1].n = m - Age(i, w) + 1
    BY Zenon DEF Numbered
  <1>3. \A i \in QueueSlots : Age(i, w) <= m => Whole(q[i])' /\ q[i][1].n = m - Age(i, w) + 1
    BY <1>1, <1>2, Zenon
  <1>4. \A i \in QueueSlots : Age(i, w)' = Age(i, w)
    BY Zenon DEF Age
  <1> QED  BY <1>3, <1>4, Zenon DEF Numbered, Whole, QueueSlots

\* The queue and what was taken from it stay as they are.
MouseKept ==
  /\ mouse'.q = mouse.q /\ mouse'.r = mouse.r /\ mouse'.w = mouse.w
  /\ mouse'.applied = mouse.applied /\ mouse'.buttons = mouse.buttons /\ (mouse'.overrun <=> mouse.overrun)

LEMMA CollectedSame ==
  ASSUME wire'.wheel = wire.wheel, NEW m, Collected(m), MouseKept,
         mouse'.packet # <<>> => mouse'.packet[1].val = 8,
         cpu' = cpu \/ (cpu.pc \notin Reading /\ cpu'.pc \notin Reading)
  PROVE  Collected(m)'
  <1>1. Numbered(mouse.q, mouse.w, m)'
    BY NumberedSame, Zenon DEF Collected, MouseKept
  <1>2. WithinSent(mouse, cpu, m) /\ (~mouse.overrun => Applied(mouse, cpu, m))
    BY Zenon DEF Collected
  <1>3. WithinSent(mouse, cpu', m) /\ (~mouse.overrun => Applied(mouse, cpu', m))
    <2>1. CASE cpu' = cpu
      BY <1>2, <2>1
    <2>2. CASE cpu.pc \notin Reading /\ cpu'.pc \notin Reading
      <3>1. /\ cpu.pc # "bound" /\ cpu.pc # "y" /\ cpu.pc # "buttons" /\ cpu.pc # "give"
            /\ cpu.pc \notin {"x", "y"} /\ cpu.pc \notin {"buttons", "give"} /\ cpu.pc \notin {"x", "y", "buttons"}
            /\ cpu.pc \notin {"x", "y", "buttons", "give"}
        BY <2>2 DEF Reading
      <3>2. /\ cpu'.pc # "bound" /\ cpu'.pc # "y" /\ cpu'.pc # "buttons" /\ cpu'.pc # "give"
            /\ cpu'.pc \notin {"x", "y"} /\ cpu'.pc \notin {"buttons", "give"} /\ cpu'.pc \notin {"x", "y", "buttons"}
            /\ cpu'.pc \notin {"x", "y", "buttons", "give"}
        BY <2>2 DEF Reading
      <3>3. WithinSent(mouse, cpu', m)
        BY <1>2, <3>1, <3>2, Zenon DEF WithinSent
      <3>4. Up(mouse, cpu, m) = m - Behind(mouse.r, mouse.w) /\ Up(mouse, cpu', m) = m - Behind(mouse.r, mouse.w)
        BY <3>1, <3>2, Zenon DEF Up
      <3>5. Applied(mouse, cpu, m) => Applied(mouse, cpu', m)
        <4> SUFFICES ASSUME Applied(mouse, cpu, m) PROVE Applied(mouse, cpu', m)
          OBVIOUS
        <4>1. \A i \in 1 .. Len(mouse.applied) :
                mouse.applied[i].x.n = mouse.applied[i].y.n /\ mouse.applied[i].x.n <= Up(mouse, cpu, m)
          BY Zenon DEF Applied
        <4>2. \A i \in 1 .. Len(mouse.applied) :
                mouse.applied[i].x.n = mouse.applied[i].y.n /\ mouse.applied[i].x.n <= Up(mouse, cpu', m)
          BY <3>4, <4>1, Zenon
        <4>3. \A i \in 1 .. Len(mouse.applied), j \in 1 .. Len(mouse.applied) :
                i < j => mouse.applied[i].x.n < mouse.applied[j].x.n
          BY Zenon DEF Applied
        <4> QED  BY <3>2, <4>2, <4>3, Zenon DEF Applied
      <3> QED  BY <1>2, <3>3, <3>5, Zenon
    <2> QED  BY <2>1, <2>2
  <1>4. WithinSent(mouse', cpu', m) /\ (~mouse'.overrun => Applied(mouse', cpu', m))
    BY <1>3, Zenon DEF WithinSent, Applied, Up, MouseKept
  <1>5. WithinSent(mouse, cpu, m)' /\ (~mouse'.overrun => Applied(mouse, cpu, m)')
    BY <1>4, Zenon DEF WithinSent, Applied, Up, Age, Behind
  <1> QED  BY <1>1, <1>2, <1>5, Zenon DEF Collected, MouseKept

LEMMA TrainSame ==
  ASSUME Train, Stream' = Stream, wire'.wheel = wire.wheel, wire'.packets = wire.packets, MouseKept,
         mouse'.packet = mouse.packet,
         cpu' = cpu \/ (cpu.pc \notin Reading /\ cpu'.pc \notin Reading),
         lost \subseteq lost', cpu.pc # "undefined" \/ cpu'.pc = "undefined"
  PROVE  Train'
  <1> SUFFICES ASSUME "mouse" \notin lost', cpu'.pc # "undefined"
               PROVE  \E m \in 0 .. wire'.packets : Aligned(wire'.wheel, Stream', m, wire'.packets) /\ Collected(m)'
    BY Zenon DEF Train
  <1>1. PICK m \in 0 .. wire.packets : Aligned(wire.wheel, Stream, m, wire.packets) /\ Collected(m)
    BY DEF Train
  <1>2. Collected(m)'
    <2>1. mouse'.packet # <<>> => mouse'.packet[1].val = 8
      BY <1>1, Zenon DEF Collected
    <2> QED  BY <1>1, <2>1, CollectedSame
  <1> QED  BY <1>1, <1>2, Zenon

\* While nothing has been sent, nothing is out of order.
LEMMA NothingCollected ==
  ASSUME NEW ms \in MouseState, NEW c, ms.r = ms.w, ms.applied = <<>>, c.pc \notin Reading
  PROVE  WithinSent(ms, c, 0) /\ Applied(ms, c, 0) /\ \A i \in QueueSlots : ~(Age(i, ms.w) <= 0)
  <1>1. ms.w \in QueueSlots
    BY Zenon DEF MouseState
  <1>2. \A i \in QueueSlots : ~(Age(i, ms.w) <= 0)
    <2> TAKE i \in QueueSlots
    <2>1. Age(i, ms.w) \in 1 .. MouseSlots /\ MouseSlots \in Nat
      BY <1>1, Turning, PlacesAre
    <2> HIDE DEF Age
    <2> QED  BY <2>1
  <1>3. Behind(ms.r, ms.w) <= 0
    <2>1. Behind(ms.r, ms.w) = 0
      BY <1>1, Turning
    <2> QED  BY <2>1
  <1>4. /\ c.pc # "bound" /\ c.pc # "y" /\ c.pc # "buttons" /\ c.pc # "give"
        /\ c.pc \notin {"x", "y"} /\ c.pc \notin {"x", "y", "buttons"} /\ c.pc \notin {"x", "y", "buttons", "give"}
    BY DEF Reading
  <1>5. \A i \in 1 .. Len(<<>>) : FALSE
    OBVIOUS
  <1> QED  BY <1>2, <1>3, <1>4, <1>5, Zenon DEF WithinSent, Applied

LEMMA NoTrainYet ==
  ASSUME InputTypes, StartOk, cpu.pc \in StartUpLabels \cup {"pop"}, ~wire.reporting, mouse.packet = <<>>,
         mouse.r = mouse.w, mouse.applied = <<>>
  PROVE  Train
  <1> SUFFICES ASSUME cpu.pc # "undefined"
               PROVE  \E m \in 0 .. wire.packets : Aligned(wire.wheel, Stream, m, wire.packets) /\ Collected(m)
    BY Zenon DEF Train
  <1>1. wire.packets = 0
    BY Zenon DEF StartOk
  <1>2. Stream = <<>>
    <2>1. cpu.pc # "answer" => MovesComing = <<>>
      BY Zenon DEF StartOk
    <2>2. <<>> \in Seq(Bytes) /\ <<>> \o <<>> = <<>>
      OBVIOUS
    <2> QED  BY <2>1, <2>2, Zenon DEF Stream
  <1>3. Aligned(wire.wheel, <<>>, 0, 0)
    <2>1. Len(<<>>) = 4 * (0 - 0) /\ Len(<<>>) = 3 * (0 - 0) /\ \A k \in 0 + 1 .. 0 : FALSE
      OBVIOUS
    <2> QED  BY <2>1, Zenon DEF Aligned
  <1>4. Collected(0)
    <2>1. cpu.pc \notin Reading
      BY DEF StartUpLabels, Reading
    <2>2. mouse \in MouseState
      BY Zenon DEF InputTypes
    <2>3. WithinSent(mouse, cpu, 0) /\ Applied(mouse, cpu, 0) /\ Numbered(mouse.q, mouse.w, 0)
      BY <2>1, <2>2, NothingCollected, Zenon DEF Numbered
    <2> QED  BY <2>3, Zenon DEF Collected
  <1>5. 0 \in 0 .. 0
    OBVIOUS
  <1> QED  BY <1>1, <1>2, <1>3, <1>4, <1>5, Zenon

LEMMA NothingThen ==
  ASSUME InputTypes', cpu'.pc \notin Reading, mouse'.packet = <<>>, mouse'.r = mouse'.w, mouse'.applied = <<>>
  PROVE  Collected(0)'
  <1>1. mouse' \in MouseState
    BY Zenon DEF InputTypes, MouseState, Packed, QueueSlots, Movement, Bytes, Vals
  <1>2. WithinSent(mouse', cpu', 0) /\ Applied(mouse', cpu', 0) /\ \A i \in QueueSlots : ~(Age(i, mouse'.w) <= 0)
    BY <1>1, NothingCollected, Zenon
  <1>3. WithinSent(mouse, cpu, 0)' /\ Applied(mouse, cpu, 0)' /\ Numbered(mouse.q, mouse.w, 0)'
    BY <1>2, Zenon DEF WithinSent, Applied, Up, Age, Behind, Numbered, QueueSlots
  <1> QED  BY <1>3, Zenon DEF Collected

LEMMA NoTrainThen ==
  ASSUME InputTypes', StartOk', cpu'.pc \in StartUpLabels \cup {"pop"}, ~wire'.reporting, mouse'.packet = <<>>,
         mouse'.r = mouse'.w, mouse'.applied = <<>>
  PROVE  Train'
  <1> SUFFICES ASSUME cpu'.pc # "undefined"
               PROVE  \E m \in 0 .. wire'.packets : Aligned(wire'.wheel, Stream', m, wire'.packets) /\ Collected(m)'
    BY Zenon DEF Train
  <1>1. wire'.packets = 0
    BY Zenon DEF StartOk
  <1>2. Stream' = <<>>
    <2>1. cpu'.pc # "answer" => MovesComing' = <<>>
      BY Zenon DEF StartOk
    <2>2. <<>> \in Seq(Bytes) /\ <<>> \o <<>> = <<>>
      OBVIOUS
    <2> QED  BY <2>1, <2>2, Zenon DEF Stream
  <1>3. Aligned(wire'.wheel, <<>>, 0, 0)
    <2>1. Len(<<>>) = 4 * (0 - 0) /\ Len(<<>>) = 3 * (0 - 0) /\ \A k \in 0 + 1 .. 0 : FALSE
      OBVIOUS
    <2> QED  BY <2>1, Zenon DEF Aligned
  <1>4. Collected(0)'
    <2>1. cpu'.pc \notin Reading
      BY DEF StartUpLabels, Reading
    <2> QED  BY <2>1, NothingThen
  <1>5. 0 \in 0 .. 0
    OBVIOUS
  <1> QED  BY <1>1, <1>2, <1>3, <1>4, <1>5, Zenon

LEMMA TrainStartUp ==
  ASSUME InputTypes, Devices, Quiet, StartOk, Untouched, Short, Train, StartUp, ~polled',
         InputTypes', StartOk', Untouched'
  PROVE  Train'
  <1>0. /\ cpu \in CpuState /\ mouse \in MouseState /\ wire \in WireState
        /\ wire'.wheel \in BOOLEAN /\ wire'.reporting \in BOOLEAN
    BY Zenon DEF InputTypes, WireState
  <1>1. /\ cpu.pc \in StartUpLabels /\ mouse'.q = mouse.q /\ mouse'.applied = mouse.applied
        /\ mouse'.r = mouse.r /\ mouse'.w = mouse.w /\ (mouse'.overrun <=> mouse.overrun)
        /\ mouse'.packet = mouse.packet \/ mouse'.packet = <<>>
        /\ mouse'.buttons = mouse.buttons
    BY StartUpDoes
  <1>2. mouse.r = mouse.w /\ mouse.applied = <<>> /\ mouse.packet = <<>>
    BY <1>1, Zenon DEF Untouched
  <1>3. mouse'.r = mouse'.w /\ mouse'.applied = <<>> /\ mouse'.packet = <<>> /\ mouse'.packet = mouse.packet /\ MouseKept
    BY <1>1, <1>2, Zenon DEF MouseKept
  <1>4. cpu'.pc \in StartUpLabels \cup {"pop"} /\ cpu'.pc \notin Reading /\ cpu.pc \notin Reading
    <2>1. cpu'.pc \in {"drain", "ask", "answer", "flush", "undefined", "pop"}
      BY <1>0, PcNext, Zenon DEF StartUp
    <2> QED  BY <1>1, <2>1 DEF StartUpLabels, Reading
  <1>5. CASE ~wire'.reporting
    BY <1>0, <1>3, <1>4, <1>5, NoTrainThen
  <1>6. CASE cpu'.pc = "undefined"
    BY <1>6, Zenon DEF Train
  <1>7. CASE wire'.reporting /\ cpu'.pc # "undefined"
    <2>1. CASE InitDrain \/ InitDrained
      <3>1. cpu.pc = "drain" /\ wire' = wire
        BY <2>1, Zenon DEF InitDrain, InitDrained, At
      <3>2. ~wire.reporting
        BY <3>1 DEF StartOk
      <3> QED  BY <1>7, <3>1, <3>2
    <2>2. CASE InitAsk
      <3>1. cpu.pc = "ask" /\ cpu'.pc = "answer"
        <4>1. cpu' = [cpu EXCEPT !.pc = "answer", !.left = Answers] /\ cpu.pc = "ask"
          BY <2>2, Zenon DEF InitAsk, At
        <4> QED  BY <1>0, <4>1, Zenon DEF CpuState
      <3>2. ~wire.reporting
        BY <3>1 DEF StartOk
      <3>3. wire.packets = 0 /\ MovesComing = <<>>
        BY <3>1, <3>2 DEF StartOk
      <3>4. wire'.packets = 0 /\ wire.mouse # "none" /\ Asked = "report"
        BY <1>7, <2>2, <3>2, <3>3, WireGains, Zenon
      <3>5. MovesComing' = Answered(wire)
        <4>1. Answered(wire) \in Seq(Bytes) /\ wire'.moves = wire.moves \o Answered(wire) /\ ctl' = ctl
          BY <2>2, AnsweredIs, WireGains, Zenon DEF InitAsk
        <4>2. MovesComing' = <<>> \o Answered(wire)
          BY <3>3, <4>1, GainsCome
        <4> QED  BY <4>1, <4>2, ConcatEmptySeq
      <3>6. Len(MovesComing') = 1 /\ MovesComing' \in Seq(Bytes)
        BY <3>4, <3>5, AnswersAre, AnsweredIs
      <3>7. Stream' = <<>>
        <4>1. Tail(MovesComing') = <<>>
          <5>1. ASSUME NEW s \in Seq(Bytes), Len(s) = 1
                PROVE  Tail(s) \in Seq(Bytes) /\ Len(Tail(s)) = 0
            <6>1. s # <<>>
              BY <5>1
            <6> QED  BY <5>1, <6>1, TailIs
          <5>2. \A s \in Seq(Bytes) : Len(s) = 0 => s = <<>>
            OBVIOUS
          <5> QED  BY <3>6, <5>1, <5>2, Zenon
        <4> QED  BY <1>7, <3>1, <4>1, Zenon DEF Stream
      <3>8. Aligned(wire'.wheel, <<>>, 0, 0)
        <4>1. Len(<<>>) = 4 * (0 - 0) /\ Len(<<>>) = 3 * (0 - 0) /\ \A k \in 0 + 1 .. 0 : FALSE
          OBVIOUS
        <4> QED  BY <4>1, Zenon DEF Aligned
      <3>9. Collected(0)'
        BY <1>3, <1>4, NothingThen
      <3>10. 0 \in 0 .. 0
        OBVIOUS
      <3> QED  BY <3>4, <3>7, <3>8, <3>9, <3>10, Zenon DEF Train
    <2>3. CASE InitAnswer
      <3> DEFINE M == MovesComing
      <3>1. cpu.pc = "answer" /\ wire' = wire /\ DataRead /\ (ctl.full \/ wire.moves = <<>>) /\ lost' = lost
        BY <2>3, Zenon DEF InitAnswer, At, ghosts
      <3>2. M # <<>> /\ cpu.left = 1 /\ cpu.step = 10
        BY <1>7, <3>1, Zenon DEF StartOk
      <3>3. ctl.full
        <4>1. ~ctl.full => M = wire.moves
          BY Zenon DEF MovesComing
        <4> QED  BY <3>1, <3>2, <4>1
      <3>4. ctl.byte.src # "kbd"
        <4>1. ctl.byte.src = "kbd" => cpu' = [cpu EXCEPT !.pc = "undefined"]
          BY <2>3, <3>3, Zenon DEF InitAnswer
        <4>2. ctl.byte.src = "kbd" => cpu'.pc = "undefined"
          BY <1>0, <4>1, Zenon DEF CpuState
        <4> QED  BY <1>7, <4>2
      <3>5. M' = Tail(M)
        BY <3>1, <3>3, <3>4, ReadTakes
      <3>6. cpu'.pc = "flush"
        <4>1. ~(cpu.left > 1) /\ ~(cpu.step < Len(Script))
          <5>1. Len(Script) = 10
            BY <1>0, ScriptIs
          <5> QED  BY <3>2, <5>1
        <4>2. cpu' = [cpu EXCEPT !.pc = "flush"]
          BY <2>3, <3>4, <4>1, Zenon DEF InitAnswer
        <4> QED  BY <1>0, <4>2, Zenon DEF CpuState
      <3>7. Stream' = <<>> \o M' /\ Stream = Tail(M)
        <4>1. "flush" # "answer"
          OBVIOUS
        <4> QED  BY <1>3, <1>7, <3>1, <3>6, <4>1, Zenon DEF Stream
      <3>8. Tail(M) \in Seq(Bytes)
        BY <3>2, ComingTyped
      <3>9. Stream' = Stream
        BY <3>5, <3>7, <3>8, ConcatEmptySeq
      <3> QED  BY <1>1, <1>2, <1>3, <1>4, <3>1, <3>9, TrainSame
    <2>4. CASE InitFlush
      <3>1. cpu.pc = "flush" /\ cpu' = cpu /\ wire' = wire /\ mouse' = mouse /\ DataRead /\ ctl.full /\ lost' = lost \cup {ctl.byte.src}
        BY <2>4, Zenon DEF InitFlush, At
      <3>2. cpu.pc \notin {"answer", "undefined"} /\ cpu.pc # "answer"
        BY <3>1
      <3>3. CASE ctl.byte.src = "kbd"
        <4>1. MovesComing' = MovesComing
          BY <3>1, <3>3, ReadTakes
        <4>2. Stream' = Stream
          BY <3>1, <4>1, Zenon DEF Stream
        <4> QED  BY <1>3, <1>4, <3>1, <3>2, <4>2, TrainSame
      <3>4. CASE ctl.byte.src # "kbd"
        <4>1. MovesComing # <<>> /\ Head(MovesComing) = ctl.byte
          BY <3>1, <3>4, ReadTakes
        <4>2. From({"mouse"}, MovesComing)
          BY <3>2, Zenon DEF StartOk
        <4>3. ctl.byte.src \in {"mouse"}
          BY <4>1, <4>2, ComingTyped, FromIs, Zenon
        <4>4. "mouse" \in lost'
          BY <3>1, <4>3
        <4> QED  BY <4>4, Zenon DEF Train
      <3> QED  BY <3>3, <3>4
    <2>5. CASE InitDone
      <3>1. cpu.pc = "flush" /\ wire' = wire /\ ctl' = ctl /\ lost' = lost /\ Goto("pop")
        BY <2>5, Zenon DEF InitDone, At, ghosts
      <3>2. cpu'.pc = "pop"
        BY <1>0, <3>1, PcTo, Zenon
      <3>3. Stream' = Stream
        <4>1. MovesComing' = MovesComing
          BY <3>1, Zenon DEF MovesComing
        <4>2. cpu.pc # "answer" /\ cpu'.pc # "answer"
          BY <3>1, <3>2
        <4> QED  BY <1>2, <1>3, <4>1, <4>2, Zenon DEF Stream
      <3>4. cpu.pc # "undefined"
        BY <3>1
      <3> QED  BY <1>1, <1>2, <1>3, <1>4, <3>1, <3>3, <3>4, TrainSame
    <2> QED  BY <2>1, <2>2, <2>3, <2>4, <2>5, Zenon DEF StartUp
  <1> QED  BY <1>0, <1>5, <1>6, <1>7

LEMMA TrainMove ==
  ASSUME InputTypes, StartOk, Train, NEW head \in {8, 72}, Move(head)
  PROVE  Train'
  <1> DEFINE s == Packet(wire, head, wire.packets + 1)
  <1>0. wire.packets \in Nat /\ wire.wheel \in BOOLEAN /\ mouse.packet \in Seq(Bytes) /\ wire.packets + 1 \in Nat
    <2>1. wire.packets \in Nat /\ wire.wheel \in BOOLEAN /\ mouse.packet \in Seq(Bytes)
      BY Zenon DEF InputTypes, WireState, MouseState
    <2> QED  BY <2>1
  <1>1. /\ wire'.moves = wire.moves \o s /\ wire'.packets = wire.packets + 1
        /\ wire'.wheel = wire.wheel /\ wire'.reporting = wire.reporting
    BY WireGains, Zenon
  <1>2. ctl' = ctl /\ mouse' = mouse /\ cpu' = cpu /\ lost' = lost /\ wire.reporting
    BY Zenon DEF Move, ghosts
  <1>3. s \in Seq(Bytes)
    BY <1>0, PacketIs
  <1> HIDE DEF s
  <1>4. MovesComing' = MovesComing \o s
    BY <1>1, <1>2, <1>3, GainsCome
  <1>5. Stream \in Seq(Bytes) /\ Stream' = Stream \o s
    <2>1. CASE cpu.pc = "answer"
      <3>1. MovesComing # <<>>
        BY <1>2, <2>1, Zenon DEF StartOk
      <3>2. Tail(MovesComing) \in Seq(Bytes) /\ Tail(MovesComing \o s) = Tail(MovesComing) \o s
        <4> DEFINE h == Head(MovesComing)
                   r == Tail(MovesComing)
        <4>1. h \in Bytes /\ r \in Seq(Bytes) /\ MovesComing = <<h>> \o r
          BY <3>1, ComingTyped, FrontIs
        <4> HIDE DEF h, r
        <4>2. MovesComing \o s = <<h>> \o (r \o s)
          <5>1. <<h>> \in Seq(Bytes)
            BY <4>1
          <5>2. (<<h>> \o r) \o s = <<h>> \o (r \o s)
            BY <1>3, <4>1, <5>1, ConcatAssociative
          <5> QED  BY <4>1, <5>2
        <4>3. r \o s \in Seq(Bytes)
          BY <1>3, <4>1
        <4>4. Tail(<<h>> \o (r \o s)) = r \o s
          BY <4>1, <4>3, FrontIs
        <4>5. Tail(MovesComing \o s) = r \o s
          BY <4>2, <4>4, Zenon
        <4> QED  BY <4>1, <4>5 DEF r
      <3> QED  BY <1>1, <1>2, <1>4, <2>1, <3>2, Zenon DEF Stream
    <2>2. CASE cpu.pc # "answer"
      <3>1. Stream = mouse.packet \o MovesComing /\ Stream' = mouse.packet \o (MovesComing \o s)
        BY <1>2, <1>4, <2>2, Zenon DEF Stream
      <3>2. mouse.packet \o (MovesComing \o s) = (mouse.packet \o MovesComing) \o s
        BY <1>0, <1>3, ComingTyped, JoinAssociates, Zenon
      <3>3. mouse.packet \o MovesComing \in Seq(Bytes)
        BY <1>0, ComingTyped, JoinAt, Zenon
      <3> QED  BY <3>1, <3>2, <3>3, Zenon
    <2> QED  BY <2>1, <2>2
  <1> SUFFICES ASSUME "mouse" \notin lost', cpu'.pc # "undefined"
               PROVE  \E m \in 0 .. wire'.packets : Aligned(wire'.wheel, Stream', m, wire'.packets) /\ Collected(m)'
    BY Zenon DEF Train
  <1>6. PICK m \in 0 .. wire.packets : Aligned(wire.wheel, Stream, m, wire.packets) /\ Collected(m)
    BY <1>2 DEF Train
  <1>7. m \in Nat /\ m <= wire.packets /\ m \in 0 .. wire.packets + 1
    BY <1>0
  <1>8. Aligned(wire.wheel, Stream \o s, m, wire.packets + 1)
    BY <1>0, <1>5, <1>6, <1>7, AlignedGains DEF s
  <1>9. Collected(m)'
    <2>1. mouse'.packet # <<>> => mouse'.packet[1].val = 8
      BY <1>2, <1>6, Zenon DEF Collected
    <2> QED  BY <1>1, <1>2, <1>6, <2>1, CollectedSame DEF MouseKept
  <1> QED  BY <1>1, <1>5, <1>7, <1>8, <1>9, Zenon

\* The slots an update has still to read include the first.
LEMMA FirstUnread ==
  ASSUME InputTypes, cpu.pc \in {"x", "y", "buttons"}, cpu.from # cpu.upto
  PROVE  cpu.from \in Unread
  <1>1. cpu.from \in QueueSlots /\ cpu.upto \in QueueSlots /\ MouseSlots \in Nat /\ MouseSlots > 1
    BY PlacesAre, Zenon DEF InputTypes, CpuState
  <1> DEFINE d == cpu.upto - cpu.from
  <1>2. d \in Int /\ d # 0 /\ d < MouseSlots /\ 0 < d + MouseSlots
    BY <1>1 DEF QueueSlots
  <1>3. d % MouseSlots = d \/ d % MouseSlots = d + MouseSlots
    <2> HIDE DEF d
    <2>1. CASE 0 <= d
      BY <1>1, <1>2, <2>1
    <2>2. CASE d < 0
      BY <1>1, <1>2, <2>2
    <2> QED  BY <1>2, <2>1, <2>2
  <1>4. d % MouseSlots >= 0 /\ d % MouseSlots \in Int
    <2> HIDE DEF d
    <2> QED  BY <1>1, <1>2
  <1>5. 0 < d % MouseSlots
    <2> HIDE DEF d
    <2> QED  BY <1>1, <1>2, <1>3, <1>4
  <1>6. (cpu.from - cpu.from) % MouseSlots = 0 /\ cpu.from \in 0 .. MouseSlots - 1
    BY <1>1 DEF QueueSlots
  <1> QED  BY <1>5, <1>6, Zenon DEF Unread, d

LEMMA CollectedPut ==
  ASSUME InputTypes, InputTypes', NEW m \in Nat, Collected(m), NEW p \in Packed, Put(mouse, mouse', p), cpu' = cpu,
         wire'.wheel = wire.wheel, mouse'.packet = <<>>, Whole(p), p[1].n = m + 1
  PROVE  Collected(m + 1)'
  <1>1. /\ mouse \in MouseState /\ cpu \in CpuState /\ mouse.q \in [QueueSlots -> Packed] /\ mouse.w \in QueueSlots
        /\ mouse.overrun \in BOOLEAN
    BY Zenon DEF InputTypes, MouseState
  <1>2. mouse' \in MouseState
    BY Zenon DEF InputTypes, MouseState, Packed, QueueSlots, Movement, Bytes, Vals
  <1>3. OneMore(mouse, mouse') /\ mouse'.q = [mouse.q EXCEPT ![mouse.w] = p] /\ mouse'.w = NextPacket(mouse.w)
    BY Zenon DEF Put, OneMore
  <1>4. /\ Numbered(mouse.q, mouse.w, m) /\ WithinSent(mouse, cpu, m)
        /\ ~mouse.overrun => Applied(mouse, cpu, m)
    BY Zenon DEF Collected
  <1>5. Numbered(mouse.q, mouse.w, m + 1)'
    <2>1. Numbered([mouse.q EXCEPT ![mouse.w] = p], NextPacket(mouse.w), m + 1)
      BY <1>1, <1>4, NumberedPut
    <2> QED  BY <1>3, <2>1, NumberedSame
  <1>6. WithinSent(mouse', cpu, m + 1)
    BY <1>1, <1>2, <1>3, <1>4, WithinSentPut
  <1>7. ~mouse'.overrun => Applied(mouse', cpu, m + 1)
    <2> SUFFICES ASSUME ~mouse'.overrun PROVE Applied(mouse', cpu, m + 1)
      OBVIOUS
    <2>1. ~mouse.overrun /\ mouse.w \notin Unread
      BY Zenon DEF Put
    <2>2. Applied(mouse, cpu, m)
      BY <1>4, <2>1
    <2>3. cpu.pc \in {"x", "y", "buttons"} => cpu.from # cpu.upto
      BY <2>2, Zenon DEF Applied
    <2>4. cpu.pc \in {"x", "y", "buttons"} => cpu.from # mouse.w
      BY <2>1, <2>3, FirstUnread, Zenon
    <2> QED  BY <1>1, <1>2, <1>3, <2>2, <2>4, AppliedPut
  <1>8. WithinSent(mouse, cpu, m + 1)' /\ (~mouse'.overrun => Applied(mouse, cpu, m + 1)')
    <2>1. WithinSent(mouse', cpu', m + 1) /\ (~mouse'.overrun => Applied(mouse', cpu', m + 1))
      BY <1>6, <1>7
    <2> QED  BY <2>1, Zenon DEF WithinSent, Applied, Up, Age, Behind
  <1> QED  BY <1>5, <1>8, Zenon DEF Collected

LEMMA TrainByte ==
  ASSUME InputTypes, StartOk, Short, Train, MouseByte, cpu.pc \notin StartUpLabels, InputTypes'
  PROVE  Train'
  <1>0. /\ mouse \in MouseState /\ mouse.packet \in Seq(Bytes) 
        /\ ctl.byte \in Bytes /\ wire.packets \in Nat /\ wire.wheel \in BOOLEAN /\ cpu \in CpuState
    BY Zenon DEF InputTypes, WireState, MouseState, CtlState
  <1>1. /\ cpu' = cpu /\ ctl.full /\ DataRead /\ wire' = wire
        /\ \/ Aux /\ Refused(mouse, ctl.byte) /\ mouse' = mouse /\ lost' = lost \cup {"mouse"}
           \/ Aux /\ ~Refused(mouse, ctl.byte) /\ mouse' = Assembled(mouse, ctl.byte) /\ lost' = lost
           \/ ~Aux /\ mouse' = mouse /\ lost' = lost \cup {"kbd"}
    BY MouseByteDoes
  <1>2. cpu.pc \notin {"answer", "undefined"}
    BY DEF StartUpLabels
  <1>3. CASE ~Aux /\ mouse' = mouse /\ lost' = lost \cup {"kbd"}
    <2>1. ctl.byte.src = "kbd"
      <3>1. ctl.byte.src \in {"kbd", "mouse"}
        BY <1>1, HandlerByte
      <3> QED  BY <1>3, <3>1 DEF Aux
    <2>2. MovesComing' = MovesComing
      BY <1>1, <2>1, ReadTakes
    <2>3. Stream' = Stream
      BY <1>1, <1>3, <2>2, Zenon DEF Stream
    <2> QED  BY <1>1, <1>2, <1>3, <2>3, TrainSame DEF MouseKept
  <1>4. CASE Aux /\ ~Refused(mouse, ctl.byte) /\ mouse' = Assembled(mouse, ctl.byte) /\ lost' = lost
    <2> DEFINE p == Append(mouse.packet, ctl.byte)
    <2>1. MovesComing = <<ctl.byte>> \o MovesComing' /\ MovesComing' \in Seq(Bytes)
      <3>1. ctl.byte.src # "kbd"
        BY <1>4 DEF Aux
      <3>2. MovesComing = <<ctl.byte>> \o MovesComing' /\ MovesComing' = wire.moves
        BY <1>1, <3>1, ReadTakes
      <3> QED  BY <3>2, ComingTyped
    <2>2. wire.reporting
      <3>1. MovesComing # <<>>
        BY <1>0, <2>1, FrontIs
      <3> QED  BY <1>2, <3>1 DEF StartOk
    <2>3. mouse.size = IF wire.wheel THEN 4 ELSE 3
      BY <2>2, Zenon DEF StartOk
    <2>4. /\ p \in Event /\ mouse'.size = mouse.size /\ mouse'.applied = mouse.applied
          /\ \/ Len(p) < mouse.size /\ mouse'.packet = p /\ MouseKept
             \/ Len(p) = mouse.size /\ mouse'.packet = <<>> /\ p \in Packed /\ Put(mouse, mouse', p)
      BY <1>0, <1>4, AssembledDoes, Zenon DEF MouseKept
    <2>5. Stream = p \o MovesComing'
      <3>1. Stream = mouse.packet \o (<<ctl.byte>> \o MovesComing')
        BY <1>2, <2>1 DEF Stream
      <3>2. p = mouse.packet \o <<ctl.byte>> /\ <<ctl.byte>> \in Seq(Bytes)
        BY <1>0, OnePut, Zenon
      <3>3. mouse.packet \o (<<ctl.byte>> \o MovesComing') = (mouse.packet \o <<ctl.byte>>) \o MovesComing'
        BY <1>0, <2>1, <3>2, JoinAssociates, Zenon
      <3> QED  BY <3>1, <3>2, <3>3, Zenon
    <2>6. Stream' = mouse'.packet \o MovesComing'
      BY <1>1, <1>2 DEF Stream
    <2>7. p \in Seq(Bytes) /\ p # <<>>
      BY <2>4 DEF Event
    <2> SUFFICES ASSUME "mouse" \notin lost, cpu.pc # "undefined"
                 PROVE  \E m \in 0 .. wire'.packets : Aligned(wire'.wheel, Stream', m, wire'.packets) /\ Collected(m)'
      BY <1>1, <1>4, Zenon DEF Train
    <2>9. PICK m \in 0 .. wire.packets : Aligned(wire.wheel, Stream, m, wire.packets) /\ Collected(m)
      BY DEF Train
    <2>10. m \in Nat /\ m <= wire.packets
      BY <1>0
    <2> HIDE DEF p
    <2>11. p[1].val = 8
      <3>1. CASE mouse.packet = <<>>
        <4>1. p[1] = ctl.byte
          BY <1>0, <3>1 DEF p
        <4>2. FirstByteOk(ctl.byte)
          BY <1>4, <3>1, Zenon DEF Refused
        <4>3. ctl.byte.val < 64
          BY <4>2 DEF FirstByteOk
        <4>4. Len(p) = 1
          BY <1>0, <3>1 DEF p
        <4>5. Stream \in Seq(Bytes) /\ Len(Stream) > 0 /\ Stream[1] = p[1]
          BY <2>1, <2>5, <2>7, <4>4, JoinAt
        <4>6. m + 1 \in m + 1 .. wire.packets
          BY <1>0, <2>9, <2>10, <4>5 DEF Aligned
        <4>7. WholeAt(wire.wheel, Stream, 0, m + 1)
          <5>1. 4 * ((m + 1) - m - 1) = 0 /\ 3 * ((m + 1) - m - 1) = 0
            BY <2>10
          <5> QED  BY <2>9, <4>6, <5>1 DEF Aligned
        <4>8. Stream[1] = Byte("mouse", 8, m + 1) \/ Stream[1] = Byte("mouse", 72, m + 1)
          BY <4>7 DEF WholeAt
        <4>9. Byte("mouse", 8, m + 1).val = 8 /\ Byte("mouse", 72, m + 1).val = 72
          BY Zenon DEF Byte
        <4> QED  BY <4>1, <4>3, <4>5, <4>8, <4>9
      <3>2. CASE mouse.packet # <<>>
        <4>1. p[1] = mouse.packet[1]
          BY <1>0, <3>2 DEF p
        <4> QED  BY <2>9, <3>2, <4>1, Zenon DEF Collected
      <3> QED  BY <3>1, <3>2
    <2>12. CASE Len(p) < mouse.size /\ mouse'.packet = p /\ MouseKept
      <3>1. Stream' = Stream
        BY <2>5, <2>6, <2>12
      <3>2. Collected(m)'
        BY <1>1, <2>9, <2>11, <2>12, CollectedSame
      <3> QED  BY <1>1, <2>9, <3>1, <3>2, Zenon
    <2>13. CASE Len(p) = mouse.size /\ mouse'.packet = <<>> /\ p \in Packed /\ Put(mouse, mouse', p)
      <3>1. Stream' = MovesComing'
        BY <2>1, <2>6, <2>13, ConcatEmptySeq
      <3>2. /\ m + 1 <= wire.packets /\ WholeAt(wire.wheel, p, 0, m + 1)
            /\ Aligned(wire.wheel, MovesComing', m + 1, wire.packets)
        <4>1. Aligned(wire.wheel, p \o MovesComing', m, wire.packets)
          BY <2>5, <2>9
        <4>2. Len(p) = IF wire.wheel THEN 4 ELSE 3
          BY <2>3, <2>13
        <4> QED  BY <1>0, <2>1, <2>7, <2>10, <4>1, <4>2, AlignedTakes
      <3>3. Whole(p) /\ p[1].n = m + 1 /\ m + 1 \in Nat /\ m + 1 \in 0 .. wire.packets
        <4>1. m + 1 \in Nat /\ m + 1 \in 0 .. wire.packets
          BY <1>0, <2>10, <3>2
        <4>2. Len(p) = IF wire.wheel THEN 4 ELSE 3
          BY <2>3, <2>13
        <4> QED  BY <1>0, <2>7, <2>11, <3>2, <4>1, <4>2, WholeIs
      <3>4. Collected(m + 1)'
        BY <1>1, <2>9, <2>10, <2>13, <3>3, CollectedPut
      <3> QED  BY <1>1, <3>1, <3>2, <3>3, <3>4, Zenon
    <2> QED  BY <2>4, <2>12, <2>13
  <1>5. CASE Refused(mouse, ctl.byte) /\ lost' = lost \cup {"mouse"}
    <2>1. "mouse" \in lost'
      BY <1>5
    <2> QED  BY <2>1, Zenon DEF Train
  <1> QED  BY <1>1, <1>3, <1>4, <1>5

LEMMA WholeParts ==
  ASSUME NEW p \in Packed, Whole(p)
  PROVE  p[2].n = p[1].n /\ p[3].n = p[1].n
  <1> DEFINE n == p[1].n
  <1>1. n \in Nat
    BY PackedAre, BytesAre
  <1>2. Packet(wire, 8, n) = IF wire.wheel THEN <<Byte("mouse", 8, n), Byte("mouse", 8, n), Byte("mouse", 0, n), Byte("mouse", 0, n)>>
                             ELSE <<Byte("mouse", 8, n), Byte("mouse", 8, n), Byte("mouse", 0, n)>>
    BY <1>1, PacketIs, Zenon
  <1>3. p = Packet(wire, 8, n)
    BY DEF Whole
  <1>4. Byte("mouse", 8, n).n = n /\ Byte("mouse", 0, n).n = n
    BY Zenon DEF Byte
  <1> DEFINE b == Byte("mouse", 8, n)
             c == Byte("mouse", 0, n)
  <1> HIDE DEF b, c, n
  <1>5. p = <<b, b, c, c>> \/ p = <<b, b, c>>
    BY <1>2, <1>3, Zenon DEF b, c
  <1>6. p[2] = b /\ p[3] = c
    BY <1>5
  <1> QED  BY <1>4, <1>6, Zenon DEF b, c, n

\* What was applied when nothing more has been.
LEMMA AppliedAre ==
  ASSUME NEW ms, NEW c, NEW m, Applied(ms, c, m)
  PROVE  /\ \A i \in 1 .. Len(ms.applied), j \in 1 .. Len(ms.applied) : i < j => ms.applied[i].x.n < ms.applied[j].x.n
         /\ \A i \in 1 .. Len(ms.applied) : ms.applied[i].x.n = ms.applied[i].y.n /\ ms.applied[i].x.n <= Up(ms, c, m)
         /\ c.pc = "bound" => \A i \in 1 .. Len(ms.applied) : ms.applied[i].x.n <= m - Behind(c.from, ms.w)
         /\ c.pc \in {"x", "y", "buttons"} => c.from # c.upto /\ Age(c.from, ms.w) <= m
         /\ c.pc \in {"x", "y"} => Behind(c.upto, ms.w) < Age(c.from, ms.w)
         /\ c.pc = "y" => c.ev[1].n = m - Age(c.from, ms.w) + 1
         /\ c.pc = "buttons" => /\ Behind(c.upto, ms.w) = Age(c.from, ms.w) - 1
                                /\ Len(ms.applied) > 0 /\ ms.applied[Len(ms.applied)].x.n = m - Age(c.from, ms.w) + 1
         /\ c.pc = "give" => Len(ms.applied) > 0 /\ ms.buttons.n = ms.applied[Len(ms.applied)].x.n
  BY Zenon DEF Applied

LEMMA WithinSentUpdate ==
  ASSUME InputTypes, NEW m \in Nat, WithinSent(mouse, cpu, m), Update
  PROVE  WithinSent(mouse', cpu', m)
  <1>1. mouse.w \in QueueSlots
    BY Zenon DEF InputTypes, MouseState
  <1>2. Behind(mouse.w, mouse.w) <= m
    <2>1. Behind(mouse.w, mouse.w) = 0
      BY <1>1, Turning
    <2> QED  BY <2>1
  <1>3. /\ Behind(mouse.r, mouse.w) <= m
        /\ cpu.pc = "bound" => Behind(cpu.from, mouse.w) <= m
        /\ cpu.pc \in {"x", "y", "buttons", "give"} => Behind(cpu.upto, mouse.w) <= m
    BY Zenon DEF WithinSent
  <1>4. CASE UpdateLook
    <2>1. mouse' = mouse /\ cpu'.pc = "bound" /\ cpu'.from = mouse.r
      BY <1>4, UpdateDoes, Zenon
    <2>2. cpu'.pc \notin {"x", "y", "buttons", "give"}
      BY <2>1
    <2> QED  BY <1>3, <2>1, <2>2, Zenon DEF WithinSent
  <1>5. CASE UpdateBound
    <2>1. mouse' = mouse /\ (cpu'.pc = "run" \/ (cpu'.pc = "x" /\ cpu'.upto = mouse.w))
      BY <1>5, UpdateDoes, Zenon
    <2>2. cpu'.pc # "bound" /\ (cpu'.pc \in {"x", "y", "buttons", "give"} => cpu'.upto = mouse.w)
      BY <2>1
    <2> QED  BY <1>2, <1>3, <2>1, <2>2, Zenon DEF WithinSent
  <1>6. CASE UpdateX \/ UpdateY \/ UpdateButtons
    <2>1. /\ cpu.pc \in {"x", "y", "buttons"} /\ cpu'.pc \in {"x", "y", "buttons", "give"} /\ cpu'.upto = cpu.upto
          /\ mouse'.r = mouse.r /\ mouse'.w = mouse.w
      BY <1>6, UpdateDoes
    <2>2. cpu'.pc # "bound" /\ cpu.pc \in {"x", "y", "buttons", "give"}
      BY <2>1
    <2> QED  BY <1>3, <2>1, <2>2, Zenon DEF WithinSent
  <1>7. CASE UpdateGive
    <2>1. cpu.pc = "give" /\ cpu'.pc = "run" /\ mouse'.r = cpu.upto /\ mouse'.w = mouse.w
      BY <1>7, UpdateDoes, Zenon
    <2>2. cpu.pc \in {"x", "y", "buttons", "give"} /\ cpu'.pc \notin {"x", "y", "buttons", "give"} /\ cpu'.pc # "bound"
      BY <2>1
    <2> QED  BY <1>3, <2>1, <2>2, Zenon DEF WithinSent
  <1> QED  BY <1>4, <1>5, <1>6, <1>7, Zenon DEF Update

LEMMA AppliedUpdate ==
  ASSUME InputTypes, NEW m \in Nat, WithinSent(mouse, cpu, m), Applied(mouse, cpu, m),
         Numbered(mouse.q, mouse.w, m), Update
  PROVE  Applied(mouse', cpu', m)
  <1> DEFINE a == mouse.applied
             n == Len(mouse.applied)
             w == mouse.w
             f == cpu.from
  <1>0. /\ mouse \in MouseState /\ w \in QueueSlots /\ f \in QueueSlots /\ mouse.q \in [QueueSlots -> Packed]
        /\ cpu.upto \in QueueSlots /\ cpu.ev \in Event /\ a \in Seq(Movement)
    BY Zenon DEF InputTypes, MouseState, CpuState
  <1>1. n \in Nat /\ \A i \in 1 .. n : a[i].x.n \in Nat
    BY <1>0, MovementsAre
  <1>2. /\ \A i \in 1 .. n, j \in 1 .. n : i < j => a[i].x.n < a[j].x.n
        /\ \A i \in 1 .. n : a[i].x.n = a[i].y.n /\ a[i].x.n <= Up(mouse, cpu, m)
        /\ cpu.pc = "bound" => \A i \in 1 .. n : a[i].x.n <= m - Behind(f, w)
        /\ cpu.pc \in {"x", "y", "buttons"} => f # cpu.upto /\ Age(f, w) <= m
        /\ cpu.pc \in {"x", "y"} => Behind(cpu.upto, w) < Age(f, w)
        /\ cpu.pc = "y" => cpu.ev[1].n = m - Age(f, w) + 1
        /\ cpu.pc = "buttons" => Behind(cpu.upto, w) = Age(f, w) - 1 /\ n > 0 /\ a[n].x.n = m - Age(f, w) + 1
        /\ cpu.pc = "give" => n > 0 /\ mouse.buttons.n = a[n].x.n
    BY AppliedAre, Zenon
  <1>3. Age(f, w) <= m => /\ mouse.q[f] \in Packed /\ mouse.q[f][1].n = m - Age(f, w) + 1
                          /\ mouse.q[f][2].n = m - Age(f, w) + 1 /\ mouse.q[f][3].n = m - Age(f, w) + 1
    <2>1. mouse.q[f] \in Packed
      BY <1>0
    <2>2. Age(f, w) <= m => Whole(mouse.q[f]) /\ mouse.q[f][1].n = m - Age(f, w) + 1
      BY <1>0, Zenon DEF Numbered
    <2>3. Whole(mouse.q[f]) => mouse.q[f][2].n = mouse.q[f][1].n /\ mouse.q[f][3].n = mouse.q[f][1].n
      BY <2>1, WholeParts
    <2> QED  BY <2>1, <2>2, <2>3, Zenon
  <1>4. CASE UpdateLook
    <2>1. mouse' = mouse /\ cpu'.pc = "bound" /\ cpu'.from = mouse.r /\ cpu.pc = "update"
      BY <1>4, UpdateDoes, Zenon DEF UpdateLook, At
    <2>2. /\ cpu'.pc \notin {"x", "y"} /\ cpu'.pc \notin {"buttons", "give"} /\ cpu'.pc \notin {"x", "y", "buttons"}
          /\ cpu'.pc # "y" /\ cpu'.pc # "buttons" /\ cpu'.pc # "give"
          /\ cpu.pc \notin {"x", "y"} /\ cpu.pc \notin {"buttons", "give"}
      BY <2>1
    <2>3. Up(mouse, cpu, m) = m - Behind(mouse.r, w) /\ Up(mouse', cpu', m) = m - Behind(mouse.r, w)
      BY <2>1, <2>2, Zenon DEF Up
    <2>4. \A i \in 1 .. n : a[i].x.n <= Up(mouse', cpu', m) /\ a[i].x.n <= m - Behind(cpu'.from, w)
      BY <1>2, <2>1, <2>3, Zenon
    <2> QED  BY <1>2, <2>1, <2>2, <2>4, Zenon DEF Applied
  <1>5. CASE UpdateBound
    <2>1. /\ cpu.pc = "bound" /\ mouse' = mouse
          /\ \/ cpu.from = mouse.w /\ cpu'.pc = "run"
             \/ cpu.from # mouse.w /\ cpu'.pc = "x" /\ cpu'.from = cpu.from /\ cpu'.upto = mouse.w
      BY <1>5, UpdateDoes, Zenon
    <2>2. cpu.pc \notin {"x", "y"} /\ cpu.pc \notin {"buttons", "give"}
      BY <2>1
    <2>3. Up(mouse, cpu, m) = m - Behind(mouse.r, w)
      BY <2>2, Zenon DEF Up
    <2>4. CASE cpu'.pc = "run"
      <3>1. /\ cpu'.pc \notin {"x", "y"} /\ cpu'.pc \notin {"buttons", "give"} /\ cpu'.pc \notin {"x", "y", "buttons"}
            /\ cpu'.pc # "y" /\ cpu'.pc # "buttons" /\ cpu'.pc # "give" /\ cpu'.pc # "bound"
        BY <2>4
      <3>2. Up(mouse', cpu', m) = m - Behind(mouse.r, w)
        BY <2>1, <3>1, Zenon DEF Up
      <3>3. \A i \in 1 .. n : a[i].x.n <= Up(mouse', cpu', m)
        BY <1>2, <2>3, <3>2, Zenon
      <3> QED  BY <1>2, <2>1, <3>1, <3>3, Zenon DEF Applied
    <2>5. CASE f # w /\ cpu'.pc = "x" /\ cpu'.from = f /\ cpu'.upto = w
      <3>1. Age(f, w) = Behind(f, w) /\ Age(f, w) \in 1 .. MouseSlots /\ Behind(w, w) = 0 /\ Behind(f, w) <= m
        BY <1>0, <2>1, <2>5, Turning DEF WithinSent
      <3>2. Behind(w, w) < Age(f, w) /\ Age(f, w) <= m
        BY <3>1, PlacesAre
      <3>3. cpu'.pc \in {"x", "y"} /\ cpu'.pc # "y" /\ cpu'.pc # "buttons" /\ cpu'.pc # "give" /\ cpu'.pc # "bound"
        BY <2>5
      <3>4. Up(mouse', cpu', m) = m - Behind(f, w)
        BY <2>1, <2>5, <3>1, <3>3, Zenon DEF Up
      <3>5. \A i \in 1 .. n : a[i].x.n <= Up(mouse', cpu', m)
        BY <1>2, <2>1, <3>4, Zenon
      <3> QED  BY <1>2, <2>1, <2>5, <3>2, <3>3, <3>5, Zenon DEF Applied
    <2> QED  BY <2>1, <2>4, <2>5, Zenon
  <1>6. CASE UpdateX
    <2>1. /\ cpu.pc = "x" /\ mouse' = mouse /\ cpu'.pc = "y"
          /\ cpu'.from = f /\ cpu'.upto = cpu.upto /\ cpu'.ev[1] = mouse.q[f][2]
      BY <1>6, UpdateDoes, Zenon
    <2>2. cpu.pc \in {"x", "y"} /\ cpu.pc \in {"x", "y", "buttons"} /\ cpu'.pc \in {"x", "y"}
      BY <2>1
    <2>3. cpu'.pc # "buttons" /\ cpu'.pc # "give" /\ cpu'.pc # "bound"
      BY <2>1
    <2>4. Up(mouse', cpu', m) = Up(mouse, cpu, m)
      BY <2>1, <2>2, Zenon DEF Up
    <2>5. cpu'.ev[1].n = m - Age(f, w) + 1
      BY <1>2, <1>3, <2>1, <2>2, Zenon
    <2> QED  BY <1>2, <2>1, <2>2, <2>3, <2>4, <2>5, Zenon DEF Applied
  <1>7. CASE UpdateY
    <2> DEFINE e == [x |-> cpu.ev[1], y |-> mouse.q[f][3]]
               t == Append(a, e)
    <2>1. /\ cpu.pc = "y" /\ cpu'.upto = cpu.upto /\ mouse'.applied = t /\ mouse'.r = mouse.r /\ mouse'.w = w
          /\ \/ NextPacket(f) = cpu.upto /\ cpu'.pc = "buttons" /\ cpu'.from = f
             \/ NextPacket(f) # cpu.upto /\ cpu'.pc = "x" /\ cpu'.from = NextPacket(f)
      BY <1>7, UpdateDoes, Zenon
    <2>2. cpu.pc \in {"x", "y"} /\ cpu.pc \in {"x", "y", "buttons"}
      BY <2>1
    <2> DEFINE A == Age(f, w)
               B == Behind(cpu.upto, w)
    <2>3. /\ f # cpu.upto /\ A <= m /\ B < A /\ A \in 1 .. MouseSlots /\ B \in 0 .. MouseSlots - 1 /\ MouseSlots \in Nat
          /\ Behind(NextPacket(f), w) = A - 1 /\ (A > 1 => Age(NextPacket(f), w) = A - 1)
      BY <1>0, <1>2, <2>2, Turning, PlacesAre
    <2>4. Up(mouse, cpu, m) = m - A
      BY <2>2, Zenon DEF Up
    <2>5. e.x.n = m - A + 1 /\ e.y.n = m - A + 1
      BY <1>2, <1>3, <2>1, <2>3, Zenon
    <2>6. e \in Movement
      <3>1. cpu.ev[1] \in Bytes /\ mouse.q[f][3] \in Bytes
        BY <1>0, <1>3, <2>3, EventsAre, PackedAre
      <3> QED  BY <3>1 DEF Movement
    <2> HIDE DEF e, A, B
    <2>7. Len(t) = n + 1 /\ t[n + 1] = e /\ \A i \in 1 .. n : t[i] = a[i]
      BY <1>0, <2>6
    <2> HIDE DEF t
    <2>8. \A i \in 1 .. n + 1 : i = n + 1 \/ i \in 1 .. n
      BY <1>1
    <2>9. \A i \in 1 .. n : a[i].x.n < m - A + 1
      <3> TAKE i \in 1 .. n
      <3>1. a[i].x.n <= m - A /\ a[i].x.n \in Nat
        BY <1>1, <1>2, <2>4, Zenon
      <3> QED  BY <2>3, <3>1
    <2>10. \A i \in 1 .. Len(t), j \in 1 .. Len(t) : i < j => t[i].x.n < t[j].x.n
      <3> SUFFICES ASSUME NEW i \in 1 .. n + 1, NEW j \in 1 .. n + 1, i < j PROVE t[i].x.n < t[j].x.n
        BY <2>7, Zenon
      <3>1. i \in 1 .. n
        BY <1>1
      <3>2. CASE j = n + 1
        BY <2>5, <2>7, <2>9, <3>1, <3>2, Zenon
      <3>3. CASE j \in 1 .. n
        BY <1>2, <2>7, <3>1, <3>3, Zenon
      <3> QED  BY <2>8, <3>2, <3>3, Zenon
    <2>11. \A i \in 1 .. Len(t) : t[i].x.n = t[i].y.n /\ t[i].x.n <= m - A + 1
      <3> SUFFICES ASSUME NEW i \in 1 .. n + 1 PROVE t[i].x.n = t[i].y.n /\ t[i].x.n <= m - A + 1
        BY <2>7, Zenon
      <3>1. CASE i = n + 1
        <4>1. m - A + 1 <= m - A + 1
          BY <2>3
        <4> QED  BY <2>5, <2>7, <3>1, <4>1, Zenon
      <3>2. CASE i \in 1 .. n
        <4>1. a[i].x.n < m - A + 1 /\ a[i].x.n \in Nat
          BY <1>1, <2>9, <3>2, Zenon
        <4>2. a[i].x.n <= m - A + 1
          BY <2>3, <4>1
        <4> QED  BY <1>2, <2>7, <3>2, <4>2, Zenon
      <3> QED  BY <2>8, <3>1, <3>2, Zenon
    <2>12. CASE NextPacket(f) = cpu.upto /\ cpu'.pc = "buttons" /\ cpu'.from = f
      <3>1. /\ cpu'.pc \in {"x", "y", "buttons"} /\ cpu'.pc \notin {"x", "y"} /\ cpu'.pc \in {"buttons", "give"}
            /\ cpu'.pc # "bound" /\ cpu'.pc # "y" /\ cpu'.pc # "give"
        BY <2>12
      <3>2. B = A - 1
        BY <2>3, <2>12, Zenon DEF B
      <3>3. Up(mouse', cpu', m) = m - B
        BY <2>1, <3>1, Zenon DEF Up, B
      <3>4. Up(mouse', cpu', m) = m - A + 1
        BY <2>3, <3>2, <3>3
      <3>5. Len(t) > 0 /\ t[Len(t)].x.n = m - A + 1
        BY <1>1, <2>5, <2>7
      <3> QED  BY <2>1, <2>3, <2>10, <2>11, <2>12, <3>1, <3>2, <3>4, <3>5, Zenon DEF Applied, A, B
    <2>13. CASE NextPacket(f) # cpu.upto /\ cpu'.pc = "x" /\ cpu'.from = NextPacket(f)
      <3>1. /\ cpu'.pc \in {"x", "y"} /\ cpu'.pc # "bound" /\ cpu'.pc # "y" /\ cpu'.pc # "buttons" /\ cpu'.pc # "give"
        BY <2>13
      <3>2. B # A - 1
        <4>1. NextPacket(f) \in QueueSlots
          BY <1>0, PlacesAre
        <4> QED  BY <1>0, <2>3, <2>13, <4>1, OneBehind DEF B
      <3>3. Age(NextPacket(f), w) = A - 1 /\ B < A - 1 /\ A - 1 <= m
        BY <2>3, <3>2
      <3>4. Up(mouse', cpu', m) = m - (A - 1) /\ m - (A - 1) = m - A + 1
        <4>1. Up(mouse', cpu', m) = m - Age(NextPacket(f), w)
          BY <2>1, <2>13, <3>1, Zenon DEF Up
        <4>2. m - (A - 1) = m - A + 1
          BY <2>3
        <4> QED  BY <3>3, <4>1, <4>2, Zenon
      <3> QED  BY <2>1, <2>10, <2>11, <2>13, <3>1, <3>3, <3>4, Zenon DEF Applied, B
    <2> QED  BY <2>1, <2>12, <2>13, Zenon
  <1>8. CASE UpdateButtons
    <2>1. /\ cpu.pc = "buttons" /\ cpu'.pc = "give" /\ cpu'.upto = cpu.upto
          /\ mouse'.buttons = mouse.q[f][1] /\ mouse'.applied = a /\ mouse'.w = w
      BY <1>8, UpdateDoes, Zenon
    <2>2. /\ cpu.pc \notin {"x", "y"} /\ cpu.pc \in {"buttons", "give"} /\ cpu.pc \in {"x", "y", "buttons"}
          /\ cpu'.pc \notin {"x", "y"} /\ cpu'.pc \in {"buttons", "give"} /\ cpu'.pc \notin {"x", "y", "buttons"}
          /\ cpu'.pc # "bound" /\ cpu'.pc # "y" /\ cpu'.pc # "buttons"
      BY <2>1
    <2>3. Up(mouse', cpu', m) = Up(mouse, cpu, m)
      BY <2>1, <2>2, Zenon DEF Up
    <2>4. n > 0 /\ mouse'.buttons.n = a[n].x.n
      BY <1>2, <1>3, <2>1, <2>2, Zenon
    <2> QED  BY <1>2, <2>1, <2>2, <2>3, <2>4, Zenon DEF Applied
  <1>9. CASE UpdateGive
    <2>1. cpu.pc = "give" /\ cpu'.pc = "run" /\ mouse'.r = cpu.upto /\ mouse'.w = w /\ mouse'.applied = a
      BY <1>9, UpdateDoes, Zenon
    <2>2. /\ cpu.pc \notin {"x", "y"} /\ cpu.pc \in {"buttons", "give"}
          /\ cpu'.pc \notin {"x", "y"} /\ cpu'.pc \notin {"buttons", "give"} /\ cpu'.pc \notin {"x", "y", "buttons"}
          /\ cpu'.pc # "bound" /\ cpu'.pc # "y" /\ cpu'.pc # "buttons" /\ cpu'.pc # "give"
      BY <2>1
    <2>3. Up(mouse', cpu', m) = Up(mouse, cpu, m)
      BY <2>1, <2>2, Zenon DEF Up
    <2> QED  BY <1>2, <2>1, <2>2, <2>3, Zenon DEF Applied
  <1> QED  BY <1>4, <1>5, <1>6, <1>7, <1>8, <1>9, Zenon DEF Update

LEMMA TrainUpdate ==
  ASSUME InputTypes, Train, Update
  PROVE  Train'
  <1>0. wire.packets \in Nat
    BY Zenon DEF InputTypes, WireState
  <1>1. /\ UNCHANGED <<wire, ctl, lost>> /\ cpu.pc \in Reading \cup {"update"} /\ cpu'.pc \in Reading \cup {"run"}
        /\ mouse'.packet = mouse.packet
    BY UpdateDoes, Zenon
  <1>2. cpu.pc # "answer" /\ cpu.pc # "undefined" /\ cpu'.pc # "answer"
    BY <1>1 DEF Reading
  <1>3. Stream' = Stream
    <2>1. MovesComing' = MovesComing
      BY <1>1, Zenon DEF MovesComing
    <2> QED  BY <1>1, <1>2, <2>1, Zenon DEF Stream
  <1> SUFFICES ASSUME "mouse" \notin lost
               PROVE  \E m \in 0 .. wire'.packets : Aligned(wire'.wheel, Stream', m, wire'.packets) /\ Collected(m)'
    BY <1>1, Zenon DEF Train
  <1>4. PICK m \in 0 .. wire.packets : Aligned(wire.wheel, Stream, m, wire.packets) /\ Collected(m)
    BY <1>2 DEF Train
  <1>5. m \in Nat
    BY <1>0
  <1>6. mouse'.q = mouse.q /\ mouse'.w = mouse.w /\ (mouse'.overrun <=> mouse.overrun)
    BY UpdateDoes, Zenon DEF Update
  <1>7. /\ mouse.packet # <<>> => mouse.packet[1].val = 8
        /\ Numbered(mouse.q, mouse.w, m) /\ WithinSent(mouse, cpu, m)
        /\ ~mouse.overrun => Applied(mouse, cpu, m)
    BY <1>4, Zenon DEF Collected
  <1>8. Numbered(mouse.q, mouse.w, m)'
    BY <1>1, <1>6, <1>7, NumberedSame
  <1>9. WithinSent(mouse', cpu', m) /\ (~mouse'.overrun => Applied(mouse', cpu', m))
    BY <1>5, <1>6, <1>7, WithinSentUpdate, AppliedUpdate
  <1>10. WithinSent(mouse, cpu, m)' /\ (~mouse'.overrun => Applied(mouse, cpu, m)')
    BY <1>9, Zenon DEF WithinSent, Applied, Up, Age, Behind
  <1>11. Collected(m)'
    BY <1>1, <1>7, <1>8, <1>10, Zenon DEF Collected
  <1> QED  BY <1>1, <1>3, <1>4, <1>11, Zenon

LEMMA TrainStep ==
  ASSUME InputTypes, Devices, Quiet, StartOk, Untouched, Short, Train, [Next]_vars, ~polled',
         InputTypes', StartOk', Untouched'
  PROVE  Train'
  <1>0. cpu \in CpuState
    BY Zenon DEF InputTypes
  <1>1. CASE StartUp
    BY <1>1, TrainStartUp
  <1>2. ASSUME NEW k \in KeyNames, NEW up \in BOOLEAN, Send(k, up) PROVE Train'
    <2>1. wire'.moves = wire.moves /\ wire'.packets = wire.packets /\ wire'.wheel = wire.wheel /\ wire'.reporting = wire.reporting
      BY <1>2, WireGains, Zenon
    <2>2. ctl' = ctl /\ mouse' = mouse /\ cpu' = cpu /\ lost' = lost
      BY <1>2, Zenon DEF Send
    <2>3. MovesComing' = MovesComing
      BY <2>1, <2>2, GainsCome
    <2>4. Stream' = Stream
      BY <2>1, <2>2, <2>3, Zenon DEF Stream
    <2> QED  BY <2>1, <2>2, <2>4, TrainSame DEF MouseKept
  <1>3. ASSUME NEW head \in {8, 72}, Move(head) PROVE Train'
    BY <1>3, TrainMove
  <1>4. CASE Load
    <2>1. /\ wire'.packets = wire.packets /\ wire'.wheel = wire.wheel /\ wire'.reporting = wire.reporting
          /\ MovesComing' = MovesComing
      BY <1>4, WireGains, LoadKeeps, Zenon
    <2>2. mouse' = mouse /\ cpu' = cpu /\ lost' = lost
      BY <1>4, Zenon DEF Load, ghosts
    <2>3. Stream' = Stream
      BY <2>1, <2>2, Zenon DEF Stream
    <2> QED  BY <2>1, <2>2, <2>3, TrainSame DEF MouseKept
  <1>5. CASE KbdPrefix \/ KbdKey \/ KbdForeign
    <2>1. ~StartingUp /\ DataRead /\ CpuMoved /\ UNCHANGED <<wire, mouse>> /\ lost \subseteq lost'
      <3>1. KbdPrefix => ~StartingUp /\ DataRead /\ CpuMoved /\ UNCHANGED <<wire, mouse, lost>>
        BY KbdPrefixDoes
      <3>2. KbdKey => ~StartingUp /\ DataRead /\ CpuMoved /\ UNCHANGED <<wire, mouse>> /\ (lost' = lost \/ lost' = lost \cup {"kbd"})
        BY KbdKeyDoes, Zenon
      <3>3. KbdForeign => ~StartingUp /\ DataRead /\ CpuMoved /\ UNCHANGED <<wire, mouse>> /\ (lost' = lost \/ lost' = lost \cup {"mouse"})
        BY KbdForeignDoes, Zenon
      <3> QED  BY <1>5, <3>1, <3>2, <3>3
    <2>2. cpu.pc \notin StartUpLabels
      BY <2>1, Zenon DEF StartingUp, StartUpLabels
    <2>3. cpu' = cpu \/ (cpu.pc \notin Reading /\ cpu'.pc \notin Reading /\ cpu'.pc # "answer")
      BY <2>1 DEF CpuMoved, Loop, Reading
    <2>4. cpu.pc # "answer" /\ cpu.pc # "undefined"
      BY <2>2 DEF StartUpLabels
    <2>5. CASE ctl.full => ctl.byte.src = "kbd"
      <3>1. MovesComing' = MovesComing
        BY <2>1, <2>5, ReadTakes, Zenon
      <3>2. Stream' = Stream
        BY <2>1, <2>3, <2>4, <3>1, Zenon DEF Stream
      <3>3. cpu' = cpu \/ (cpu.pc \notin Reading /\ cpu'.pc \notin Reading)
        BY <2>3
      <3> QED  BY <2>1, <2>4, <3>2, <3>3, TrainSame DEF MouseKept
    <2>6. CASE KbdForeign /\ lost' = lost \cup {"mouse"}
      <3>1. "mouse" \in lost'
        BY <2>6
      <3> QED  BY <3>1, Zenon DEF Train
    <2>7. CASE KbdForeign /\ ~ctl.full
      BY <2>5, <2>7
    <2>8. CASE KbdPrefix \/ KbdKey
      <3>1. ctl.full /\ ~Aux
        BY <2>8, KbdPrefixDoes, KbdKeyDoes, Zenon
      <3>2. ctl.byte.src \in {"kbd", "mouse"}
        BY <2>2, <3>1, HandlerByte
      <3>3. ctl.byte.src = "kbd"
        BY <3>1, <3>2 DEF Aux
      <3> QED  BY <2>5, <3>3
    <2>9. KbdForeign => ~ctl.full \/ lost' = lost \cup {"mouse"}
      BY KbdForeignDoes, Zenon
    <2> QED  BY <1>5, <2>6, <2>7, <2>8, <2>9, Zenon
  <1>6. CASE MouseByte
    <2>1. cpu.pc \notin StartUpLabels
      <3>1. isr = "mouse" => cpu.pc \notin StartUpLabels
        BY Zenon DEF Untouched
      <3> QED  BY <1>6, <3>1, Zenon DEF MouseByte
    <2> QED  BY <1>6, <2>1, TrainByte
  <1>7. CASE PopLook \/ PopAdvance
    <2>1. cpu'.pc \in {"advance", "pop", "run"} /\ cpu.pc \in {"pop", "advance"}
      BY <1>0, <1>7, PcNext, Zenon DEF PopLook, PopAdvance, At
    <2>2. UNCHANGED <<wire, ctl, mouse, lost>>
      BY <1>7, Zenon DEF PopLook, PopAdvance, ghosts
    <2>3. MovesComing' = MovesComing
      BY <2>2, Zenon DEF MovesComing
    <2>4. /\ cpu.pc # "answer" /\ cpu'.pc # "answer" /\ cpu.pc # "undefined"
          /\ cpu.pc \notin Reading /\ cpu'.pc \notin Reading
      BY <2>1 DEF Reading
    <2>5. Stream' = Stream
      BY <2>2, <2>3, <2>4, Zenon DEF Stream
    <2> QED  BY <2>2, <2>4, <2>5, TrainSame DEF MouseKept
  <1>8. CASE Update
    BY <1>8, TrainUpdate
  <1>9. CASE Still
    <2>1. UNCHANGED <<wire, ctl, mouse, lost>> /\ CpuMoved
      BY <1>9, Zenon DEF Still
    <2>2. MovesComing' = MovesComing
      BY <2>1, Zenon DEF MovesComing
    <2>3. \/ cpu' = cpu
          \/ /\ cpu.pc # "answer" /\ cpu'.pc # "answer" /\ cpu.pc # "undefined"
             /\ cpu.pc \notin Reading /\ cpu'.pc \notin Reading
      BY <2>1 DEF CpuMoved, Loop, Reading
    <2>4. Stream' = Stream
      BY <2>1, <2>2, <2>3, Zenon DEF Stream
    <2> QED  BY <2>1, <2>3, <2>4, TrainSame DEF MouseKept
  <1> QED
    BY <1>1, <1>2, <1>3, <1>4, <1>5, <1>6, <1>7, <1>8, <1>9, QuietSteps, Zenon

-----------------------------------------------------------------------------
(* The events popped and those in the ring.                                *)

Waiting(k) == IF k.tail <= k.head THEN k.head - k.tail ELSE k.head - k.tail + RingSize
SlotOf(k, i) == IF k.tail + i - 1 < RingSize THEN k.tail + i - 1 ELSE k.tail + i - 1 - RingSize
QueuedIn(k) == [i \in 1 .. (k.head - k.tail) % RingSize |-> k.ring[(k.tail + i - 1) % RingSize]]
EventsIn(g, k) == [i \in 1 .. Len(g) |-> g[i].ev] \o QueuedIn(k)

LEMMA TheEvents == Events = EventsIn(got, kbd) /\ Events' = EventsIn(got', kbd')
  BY Zenon DEF Events, EventsIn, Queued, QueuedIn

LEMMA RingModulo ==
  ASSUME NEW R \in Nat, R > 1
  PROVE  /\ \A x \in Int : 0 <= x /\ x < R => x % R = x
         /\ \A x \in Int : x < 0 /\ 0 <= x + R => x % R = x + R
         /\ \A x \in Int : R <= x /\ x < R + R => x % R = x - R
  <1>1. \A x \in Int : 0 <= x /\ x < R => x % R = x
    OBVIOUS
  <1>2. \A x \in Int : x < 0 /\ 0 <= x + R => x % R = x + R
    OBVIOUS
  <1>3. \A x \in Int : R <= x /\ x < R + R => x % R = x - R
    OBVIOUS
  <1> QED  BY <1>1, <1>2, <1>3

LEMMA QueuedIs ==
  ASSUME NEW k \in KbdState
  PROVE  /\ k.head \in RingSlots /\ k.tail \in RingSlots /\ Waiting(k) \in Nat /\ Waiting(k) < RingSize
         /\ \A i \in 1 .. Waiting(k) : SlotOf(k, i) \in RingSlots
         /\ QueuedIn(k) = [i \in 1 .. Waiting(k) |-> k.ring[SlotOf(k, i)]]
         /\ QueuedIn(k) \in Seq(Event) /\ Len(QueuedIn(k)) = Waiting(k)
  <1>1. RingSize \in Nat /\ RingSize > 1
    BY SlotsAre
  <1>2. k.head \in RingSlots /\ k.tail \in RingSlots /\ k.ring \in [RingSlots -> Event]
    BY RingAt, Zenon
  <1>3. k.head \in Int /\ k.tail \in Int /\ 0 <= k.head /\ k.head < RingSize /\ 0 <= k.tail /\ k.tail < RingSize
    BY <1>1, <1>2 DEF RingSlots
  <1>4. Waiting(k) = (k.head - k.tail) % RingSize
    <2>1. CASE k.tail <= k.head
      <3>1. k.head - k.tail \in Int /\ 0 <= k.head - k.tail /\ k.head - k.tail < RingSize
        BY <1>1, <1>3, <2>1
      <3>2. (k.head - k.tail) % RingSize = k.head - k.tail
        BY <1>1, <3>1, RingModulo
      <3> QED  BY <2>1, <3>2 DEF Waiting
    <2>2. CASE ~(k.tail <= k.head)
      <3>1. k.head - k.tail \in Int /\ k.head - k.tail < 0 /\ 0 <= (k.head - k.tail) + RingSize
        BY <1>1, <1>3, <2>2
      <3>2. (k.head - k.tail) % RingSize = (k.head - k.tail) + RingSize
        BY <1>1, <3>1, RingModulo
      <3> QED  BY <2>2, <3>2 DEF Waiting
    <2> QED  BY <2>1, <2>2
  <1>5. Waiting(k) \in Nat /\ Waiting(k) < RingSize
    BY <1>1, <1>3 DEF Waiting
  <1>6. ASSUME NEW i \in 1 .. Waiting(k)
        PROVE  SlotOf(k, i) \in RingSlots /\ SlotOf(k, i) = (k.tail + i - 1) % RingSize
    <2>1. i \in Int /\ 1 <= i /\ i < RingSize
      BY <1>1, <1>5
    <2>2. CASE k.tail + i - 1 < RingSize
      <3>1. k.tail + i - 1 \in Int /\ 0 <= k.tail + i - 1
        BY <1>3, <2>1
      <3>2. (k.tail + i - 1) % RingSize = k.tail + i - 1
        BY <1>1, <2>2, <3>1, RingModulo
      <3> QED  BY <1>1, <2>2, <3>1, <3>2 DEF SlotOf, RingSlots
    <2>3. CASE ~(k.tail + i - 1 < RingSize)
      <3>1. k.tail + i - 1 \in Int /\ RingSize <= k.tail + i - 1 /\ k.tail + i - 1 < RingSize + RingSize
        BY <1>1, <1>3, <2>1, <2>3
      <3>2. (k.tail + i - 1) % RingSize = (k.tail + i - 1) - RingSize
        BY <1>1, <3>1, RingModulo
      <3> QED  BY <1>1, <1>3, <2>1, <2>3, <3>1, <3>2 DEF SlotOf, RingSlots
    <2> QED  BY <2>2, <2>3
  <1>7. QueuedIn(k) = [i \in 1 .. Waiting(k) |-> k.ring[SlotOf(k, i)]]
    BY <1>4, <1>6 DEF QueuedIn
  <1> HIDE DEF Waiting, SlotOf, QueuedIn
  <1>8. \A i \in 1 .. Waiting(k) : k.ring[SlotOf(k, i)] \in Event
    BY <1>2, <1>6
  <1>9. QueuedIn(k) \in Seq(Event) /\ Len(QueuedIn(k)) = Waiting(k)
    BY <1>5, <1>7, <1>8
  <1> QED  BY <1>2, <1>5, <1>6, <1>7, <1>9

LEMMA JoinEvents ==
  ASSUME NEW p \in Seq(Event), NEW r \in Seq(Event)
  PROVE  /\ p \o r \in Seq(Event) /\ Len(p \o r) = Len(p) + Len(r)
         /\ \A i \in 1 .. Len(p) : (p \o r)[i] = p[i]
         /\ \A i \in 1 .. Len(r) : (p \o r)[i + Len(p)] = r[i]
  <1>1. p \o r \in Seq(Event) /\ Len(p \o r) = Len(p) + Len(r)
    OBVIOUS
  <1>2. \A i \in 1 .. Len(p) : (p \o r)[i] = p[i]
    OBVIOUS
  <1>3. \A i \in 1 .. Len(r) : (p \o r)[i + Len(p)] = r[i]
    OBVIOUS
  <1> QED  BY <1>1, <1>2, <1>3

\* An event for each number up to n makes a sequence.
LEMMA ListedEvents ==
  ASSUME NEW n \in Nat, NEW f \in [1 .. n -> Event]
  PROVE  f \in Seq(Event) /\ Len(f) = n
  OBVIOUS

LEMMA EventsAt ==
  ASSUME NEW g \in Seq(Popping), NEW k \in KbdState
  PROVE  /\ EventsIn(g, k) \in Seq(Event) /\ Len(EventsIn(g, k)) = Len(g) + Waiting(k) /\ Len(g) \in Nat
         /\ \A i \in 1 .. Len(g) : EventsIn(g, k)[i] = g[i].ev
         /\ \A i \in 1 .. Waiting(k) : EventsIn(g, k)[i + Len(g)] = k.ring[SlotOf(k, i)]
         /\ \A i \in 1 .. Len(EventsIn(g, k)) : i \in 1 .. Len(g) \/ i - Len(g) \in 1 .. Waiting(k)
  <1> DEFINE h == [i \in 1 .. Len(g) |-> g[i].ev]
  <1>1. Waiting(k) \in Nat /\ QueuedIn(k) = [i \in 1 .. Waiting(k) |-> k.ring[SlotOf(k, i)]] /\ QueuedIn(k) \in Seq(Event) /\ Len(QueuedIn(k)) = Waiting(k)
    BY QueuedIs
  <1>3. \A i \in 1 .. Len(g) : g[i] \in Popping
    OBVIOUS
  <1>4. \A i \in 1 .. Len(g) : g[i].ev \in Event
    BY <1>3, Zenon DEF Popping
  <1>5. Len(g) \in Nat
    OBVIOUS
  <1>6. h \in Seq(Event) /\ Len(h) = Len(g)
    <2>1. h \in [1 .. Len(g) -> Event]
      BY <1>4
    <2> QED  BY <1>5, <2>1, ListedEvents
  <1>7. \A i \in 1 .. Len(g) : h[i] = g[i].ev
    OBVIOUS
  <1>8. EventsIn(g, k) = h \o QueuedIn(k)
    BY Zenon DEF EventsIn
  <1> HIDE DEF h, QueuedIn, EventsIn, Waiting, SlotOf
  <1>9. EventsIn(g, k) \in Seq(Event) /\ Len(EventsIn(g, k)) = Len(h) + Len(QueuedIn(k))
    BY <1>1, <1>6, <1>8, JoinEvents
  <1>10. \A i \in 1 .. Len(h) : EventsIn(g, k)[i] = h[i]
    BY <1>1, <1>6, <1>8, JoinEvents
  <1>11. \A i \in 1 .. Len(QueuedIn(k)) : EventsIn(g, k)[i + Len(h)] = QueuedIn(k)[i]
    BY <1>1, <1>6, <1>8, JoinEvents
  <1>12. \A i \in 1 .. Waiting(k) : QueuedIn(k)[i] = k.ring[SlotOf(k, i)]
    BY <1>1
  <1>13. \A i \in 1 .. Len(EventsIn(g, k)) : i \in 1 .. Len(g) \/ i - Len(g) \in 1 .. Waiting(k)
    BY <1>1, <1>5, <1>6, <1>9
  <1> QED  BY <1>1, <1>5, <1>6, <1>7, <1>9, <1>10, <1>11, <1>12, <1>13

LEMMA EventsNow ==
  ASSUME InputTypes
  PROVE  /\ Events \in Seq(Event) /\ Len(Events) = Len(got) + Waiting(kbd) /\ Len(got) \in Nat /\ Waiting(kbd) \in Nat
         /\ \A i \in 1 .. Len(got) : Events[i] = got[i].ev
         /\ \A i \in 1 .. Waiting(kbd) : Events[i + Len(got)] = kbd.ring[SlotOf(kbd, i)] /\ SlotOf(kbd, i) \in RingSlots
         /\ \A i \in 1 .. Len(Events) : i \in 1 .. Len(got) \/ i - Len(got) \in 1 .. Waiting(kbd)
  <1>1. got \in Seq(Popping) /\ kbd \in KbdState
    BY Zenon DEF InputTypes
  <1> QED  BY <1>1, TheEvents, EventsAt, QueuedIs, Zenon

-----------------------------------------------------------------------------
(* The bytes go to their device.                                           *)

LEMMA EventsFromKbd ==
  ASSUME InputTypes, KbdOnly
  PROVE  \A e \in Range(Events) : \A b \in Range(e) : b.src = "kbd"
  <1>1. Events \in Seq(Event) /\ Len(Events) \in Nat
    <2>1. \A s \in Seq(Event) : Len(s) \in Nat
      OBVIOUS
    <2> QED  BY <2>1, EventsNow
  <1>2. ASSUME NEW i \in 1 .. Len(Events) PROVE From({"kbd"}, Events[i])
    <2>1. CASE i \in 1 .. Len(got)
      <3>1. Events[i] = got[i].ev
        BY <2>1, EventsNow
      <3>2. From({"kbd"}, got[i].ev)
        BY <2>1, Zenon DEF KbdOnly
      <3> QED  BY <3>1, <3>2
    <2>2. CASE i - Len(got) \in 1 .. Waiting(kbd)
      <3>1. PICK j \in 1 .. Waiting(kbd) : j = i - Len(got)
        BY <2>2
      <3>2. j + Len(got) = i
        BY <3>1, EventsNow
      <3>3. Events[i] = kbd.ring[SlotOf(kbd, j)] /\ SlotOf(kbd, j) \in RingSlots
        BY <3>1, <3>2, EventsNow, Zenon
      <3>4. From({"kbd"}, kbd.ring[SlotOf(kbd, j)])
        BY <3>3, Zenon DEF KbdOnly
      <3> QED  BY <3>3, <3>4
    <2> QED  BY <2>1, <2>2, EventsNow
  <1>3. ASSUME NEW e \in Range(Events), NEW b \in Range(e) PROVE b.src = "kbd"
    <2>1. DOMAIN Events = 1 .. Len(Events)
      BY <1>1
    <2>2. PICK i \in 1 .. Len(Events) : e = Events[i]
      BY <2>1, Zenon DEF Range
    <2>3. e \in Event /\ From({"kbd"}, e)
      BY <1>1, <1>2, <2>2
    <2>4. DOMAIN e = 1 .. Len(e)
      BY <2>3 DEF Event
    <2>5. PICK j \in 1 .. Len(e) : b = e[j]
      BY <2>4, Zenon DEF Range
    <2> QED  BY <2>3, <2>5 DEF From
  <1> QED  BY <1>3

LEMMA NumbersAre ==
  /\ \A ev \in Event : ev[1].n \in Nat
  /\ \A s \in Seq(Event) : \A i \in 1 .. Len(s) : s[i] \in Event /\ s[i][1].n \in Nat
  <1>1. \A ev \in Event : ev[1].n \in Nat
    BY EventsAre, BytesAre, Zenon
  <1>2. \A s \in Seq(Event) : \A i \in 1 .. Len(s) : s[i] \in Event
    OBVIOUS
  <1> QED  BY <1>1, <1>2, Zenon

\* The positions of a concatenation past its first part.
LEMMA SecondPart ==
  ASSUME NEW a \in Nat, NEW b \in Nat
  PROVE  \A i \in 1 .. (a + b) : i \in 1 .. a \/ \E j \in 1 .. b : i = j + a
  <1>1. ASSUME NEW i \in 1 .. (a + b), i \notin 1 .. a
        PROVE  \E j \in 1 .. b : i = j + a
    <2>1. i \in Int /\ i <= a + b /\ ~(i <= a)
      BY <1>1
    <2>2. i - a \in 1 .. b /\ i = (i - a) + a
      BY <2>1
    <2> QED  BY <2>2, Zenon
  <1> QED  BY <1>1, Zenon

\* The packets from the slot g on are those between g and the next to be written, each a
\* packet younger than the one before it.
LEMMA PacketsAt ==
  ASSUME InputTypes, NEW g \in QueueSlots
  PROVE  /\ Behind(g, mouse.w) \in Nat /\ PacketsFrom(g) \in Seq(Packed) /\ Len(PacketsFrom(g)) = Behind(g, mouse.w)
         /\ \A j \in 1 .. Behind(g, mouse.w) :
              \E s \in Between(g, mouse.w) : /\ PacketsFrom(g)[j] = mouse.q[s] /\ s \in QueueSlots
                                             /\ Age(s, mouse.w) = Behind(g, mouse.w) - j + 1
  <1> DEFINE w == mouse.w
             n == Behind(g, w)
             N == MouseSlots
             SlotNo(j) == (g + j - 1) % N
  <1>1. /\ N \in Nat /\ N > 1 /\ w \in Int /\ 0 <= w /\ w < N /\ g \in Int /\ 0 <= g /\ g < N
        /\ mouse.q \in [QueueSlots -> Packed]
    <2>1. w \in QueueSlots /\ mouse.q \in [QueueSlots -> Packed]
      BY Zenon DEF InputTypes, MouseState
    <2> QED  BY <2>1, PlacesAre DEF QueueSlots
  <1>2. n = (w - g) % N
    <2>1. CASE g <= w
      <3>1. w - g \in Int /\ 0 <= w - g /\ w - g < N
        BY <1>1, <2>1
      <3>2. (w - g) % N = w - g
        BY <1>1, <3>1, RingModulo
      <3> QED  BY <2>1, <3>2 DEF Behind
    <2>2. CASE ~(g <= w)
      <3>1. w - g \in Int /\ w - g < 0 /\ 0 <= (w - g) + N
        BY <1>1, <2>2
      <3>2. (w - g) % N = (w - g) + N
        BY <1>1, <3>1, RingModulo
      <3> QED  BY <2>2, <3>2 DEF Behind
    <2> QED  BY <2>1, <2>2
  <1>3. n \in Nat /\ n < N
    BY <1>1 DEF Behind
  <1>4. ASSUME NEW j \in 1 .. n
        PROVE  SlotNo(j) \in Between(g, w) /\ SlotNo(j) \in QueueSlots /\ Age(SlotNo(j), w) = n - j + 1
    <2>1. j \in Int /\ 1 <= j /\ j <= n /\ j < N
      BY <1>1, <1>3
    <2>2. CASE g + j - 1 < N
      <3>1. g + j - 1 \in Int /\ 0 <= g + j - 1
        BY <1>1, <2>1
      <3>2. SlotNo(j) = g + j - 1
        BY <1>1, <2>2, <3>1, RingModulo
      <3> HIDE DEF SlotNo
      <3> QED  BY <1>1, <2>1, <2>2, <3>2 DEF Between, QueueSlots, Behind, Age
    <2>3. CASE ~(g + j - 1 < N)
      <3>1. g + j - 1 \in Int /\ N <= g + j - 1 /\ g + j - 1 < N + N
        BY <1>1, <2>1, <2>3
      <3>2. SlotNo(j) = (g + j - 1) - N
        BY <1>1, <3>1, RingModulo
      <3> HIDE DEF SlotNo
      <3> QED  BY <1>1, <2>1, <2>3, <3>2 DEF Between, QueueSlots, Behind, Age
    <2> QED  BY <2>2, <2>3
  <1>5. PacketsFrom(g) = [j \in 1 .. n |-> mouse.q[SlotNo(j)]]
    BY <1>2, Zenon DEF PacketsFrom
  <1> HIDE DEF n, SlotNo
  <1>6. \A j \in 1 .. n : mouse.q[SlotNo(j)] \in Packed
    BY <1>1, <1>4
  <1>7. PacketsFrom(g) \in Seq(Packed) /\ Len(PacketsFrom(g)) = n
    BY <1>3, <1>5, <1>6
  <1>8. \A j \in 1 .. n : PacketsFrom(g)[j] = mouse.q[SlotNo(j)]
    BY <1>5
  <1> QED  BY <1>3, <1>4, <1>7, <1>8, Zenon DEF n

LEMMA PacketsFromMouse ==
  ASSUME InputTypes, MouseOnly
  PROVE  /\ \A p \in Range(Packets) \cup {mouse.packet} : \A b \in Range(p) : b.src = "mouse"
         /\ \A a \in Range(mouse.applied) : a.x.src = "mouse" /\ a.y.src = "mouse"
  <1>1. mouse.r \in QueueSlots /\ mouse.packet \in Seq(Bytes) /\ mouse.applied \in Seq(Movement)
    BY Zenon DEF InputTypes, MouseState
  <1>2. /\ Packets \in Seq(Packed)
        /\ \A j \in 1 .. Len(Packets) : \E s \in Between(mouse.r, mouse.w) : Packets[j] = mouse.q[s]
    BY <1>1, PacketsAt, Zenon DEF Packets
  <1>3. \A s \in Between(mouse.r, mouse.w) : From({"mouse"}, mouse.q[s])
    <2>1. Between(mouse.r, mouse.w) \subseteq Covered
      BY Zenon DEF Covered
    <2> QED  BY <2>1, Zenon DEF MouseOnly
  <1>4. ASSUME NEW p \in Seq(Bytes), From({"mouse"}, p), NEW b \in Range(p) PROVE b.src = "mouse"
    <2>1. DOMAIN p = 1 .. Len(p)
      OBVIOUS
    <2>2. PICK j \in 1 .. Len(p) : b = p[j]
      BY <2>1, Zenon DEF Range
    <2> QED  BY <1>4, <2>2 DEF From
  <1>5. ASSUME NEW p \in Range(Packets) PROVE p \in Seq(Bytes) /\ From({"mouse"}, p)
    <2>1. DOMAIN Packets = 1 .. Len(Packets)
      BY <1>2
    <2>2. PICK i \in 1 .. Len(Packets) : p = Packets[i]
      BY <2>1, Zenon DEF Range
    <2>3. Packets[i] \in Packed
      BY <1>2
    <2> QED  BY <1>2, <1>3, <2>2, <2>3, Zenon DEF Packed
  <1>6. From({"mouse"}, mouse.packet)
    BY Zenon DEF MouseOnly
  <1>7. \A a \in Range(mouse.applied) : a.x.src = "mouse" /\ a.y.src = "mouse"
    <2>1. DOMAIN mouse.applied = 1 .. Len(mouse.applied)
      BY <1>1
    <2> QED  BY <2>1, Zenon DEF Range, MouseOnly
  <1> QED  BY <1>1, <1>4, <1>5, <1>6, <1>7, Zenon

\* From a slot on that is within what was sent, the packets are whole and in order.
LEMMA PacketsNumbered ==
  ASSUME InputTypes, NEW m \in Nat, Numbered(mouse.q, mouse.w, m), NEW g \in QueueSlots, Behind(g, mouse.w) <= m
  PROVE  \A j \in 1 .. Len(PacketsFrom(g)) :
           Whole(PacketsFrom(g)[j]) /\ PacketsFrom(g)[j][1].n = m - Behind(g, mouse.w) + j
  <1> DEFINE n == Behind(g, mouse.w)
  <1>1. /\ n \in Nat /\ Len(PacketsFrom(g)) = n
        /\ \A j \in 1 .. n :
             \E s \in QueueSlots : PacketsFrom(g)[j] = mouse.q[s] /\ Age(s, mouse.w) = n - j + 1
    BY PacketsAt, Zenon
  <1> SUFFICES ASSUME NEW j \in 1 .. n
               PROVE  Whole(PacketsFrom(g)[j]) /\ PacketsFrom(g)[j][1].n = m - n + j
    BY <1>1
  <1>2. PICK s \in QueueSlots : PacketsFrom(g)[j] = mouse.q[s] /\ Age(s, mouse.w) = n - j + 1
    BY <1>1
  <1> HIDE DEF n
  <1>3. n <= m
    BY DEF n
  <1>4. n - j + 1 <= m /\ m - (n - j + 1) + 1 = m - n + j
    BY <1>1, <1>3
  <1>5. Whole(mouse.q[s]) /\ mouse.q[s][1].n = m - (n - j + 1) + 1
    BY <1>2, <1>4, Zenon DEF Numbered
  <1> QED  BY <1>2, <1>4, <1>5, Zenon

LEMMA JoinNumbers ==
  ASSUME NEW p \in Seq(Int), NEW r \in Seq(Int)
  PROVE  /\ Len(p \o r) = Len(p) + Len(r)
         /\ \A i \in 1 .. Len(p) : (p \o r)[i] = p[i]
         /\ \A i \in 1 .. Len(r) : (p \o r)[i + Len(p)] = r[i]
  <1>1. Len(p \o r) = Len(p) + Len(r)
    OBVIOUS
  <1>2. \A i \in 1 .. Len(p) : (p \o r)[i] = p[i]
    OBVIOUS
  <1>3. \A i \in 1 .. Len(r) : (p \o r)[i + Len(p)] = r[i]
    OBVIOUS
  <1> QED  BY <1>1, <1>2, <1>3

LEMMA JoinRising ==
  ASSUME NEW a \in Nat, NEW b \in Nat, NEW f \in [1 .. a -> Int], NEW g \in [1 .. b -> Int], NEW u \in Int,
         \A i, j \in 1 .. a : i < j => f[i] < f[j], \A i, j \in 1 .. b : i < j => g[i] < g[j],
         \A i \in 1 .. a : f[i] <= u, \A i \in 1 .. b : u < g[i]
  PROVE  Rising(f \o g)
  <1> DEFINE s == f \o g
  <1>1. f \in Seq(Int) /\ g \in Seq(Int) /\ Len(f) = a /\ Len(g) = b
    OBVIOUS
  <1>2. Len(s) = a + b /\ (\A i \in 1 .. a : s[i] = f[i])
    BY <1>1, JoinNumbers, Zenon
  <1>3. \A i \in 1 .. b : s[i + a] = g[i]
    BY <1>1, JoinNumbers, Zenon
  <1> HIDE DEF s
  <1> SUFFICES ASSUME NEW i \in 1 .. (a + b), NEW j \in 1 .. (a + b), i < j PROVE s[i] < s[j]
    BY <1>2, Zenon DEF Rising, s
  <1>4. CASE j \in 1 .. a
    <2>1. i \in 1 .. a
      BY <1>4
    <2> QED  BY <1>2, <1>4, <2>1, Zenon
  <1>5. CASE j \notin 1 .. a
    <2>1. PICK k \in 1 .. b : j = k + a
      BY <1>5, SecondPart, Zenon
    <2>2. s[j] = g[k] /\ u < g[k] /\ g[k] \in Int
      BY <1>3, <2>1
    <2>3. CASE i \in 1 .. a
      <3>1. s[i] = f[i] /\ f[i] <= u /\ f[i] \in Int
        BY <1>2, <2>3
      <3> QED  BY <2>2, <3>1
    <2>4. CASE i \notin 1 .. a
      <3>1. PICK h \in 1 .. b : i = h + a
        BY <2>4, SecondPart, Zenon
      <3>2. h < k
        BY <2>1, <3>1
      <3> QED  BY <1>3, <2>2, <3>1, <3>2, Zenon
    <2> QED  BY <2>3, <2>4
  <1> QED  BY <1>4, <1>5

\* The first slot left is within what was sent, and what was applied came before it.
LEMMA FirstLeftIs ==
  ASSUME InputTypes, NEW m \in Nat, WithinSent(mouse, cpu, m), Applied(mouse, cpu, m)
  PROVE  /\ FirstLeft \in QueueSlots /\ Behind(FirstLeft, mouse.w) \in Nat /\ Behind(FirstLeft, mouse.w) <= m
         /\ \A i \in 1 .. Len(mouse.applied) : mouse.applied[i].x.n <= m - Behind(FirstLeft, mouse.w)
  <1> DEFINE w == mouse.w
  <1>1. /\ mouse \in MouseState /\ mouse.r \in QueueSlots /\ w \in QueueSlots /\ cpu.from \in QueueSlots /\ cpu.upto \in QueueSlots
    BY Zenon DEF InputTypes, MouseState, CpuState
  <1>2. \A i \in 1 .. Len(mouse.applied) : mouse.applied[i].x.n \in Nat /\ mouse.applied[i].x.n <= Up(mouse, cpu, m)
    BY <1>1, MovementsAre, AppliedAre, Zenon
  <1>3. CASE cpu.pc \in {"x", "y"}
    <2>1. FirstLeft = cpu.from /\ Up(mouse, cpu, m) = m - Age(cpu.from, w) /\ Age(cpu.from, w) <= m
      BY <1>3 DEF FirstLeft, Up, Applied
    <2> DEFINE b == Behind(cpu.from, w)
               c == Age(cpu.from, w)
    <2>2. b \in Nat /\ c \in Nat /\ b <= c
      <3>1. b \in 0 .. MouseSlots - 1 /\ c \in 1 .. MouseSlots /\ MouseSlots \in Nat
        BY <1>1, Turning, PlacesAre
      <3>2. cpu.from # w => c = b
        BY <1>1, Turning
      <3>3. cpu.from = w => c = MouseSlots
        BY <1>1, Turning
      <3> HIDE DEF b, c
      <3> QED  BY <3>1, <3>2, <3>3
    <2> HIDE DEF b, c
    <2>3. b <= m
      BY <2>1, <2>2 DEF c
    <2>4. \A i \in 1 .. Len(mouse.applied) : mouse.applied[i].x.n <= m - b
      <3> TAKE i \in 1 .. Len(mouse.applied)
      <3>1. mouse.applied[i].x.n \in Nat /\ mouse.applied[i].x.n <= m - c
        BY <1>2, <2>1, Zenon DEF c
      <3> QED  BY <2>2, <3>1
    <2> QED  BY <1>1, <2>1, <2>2, <2>3, <2>4, Zenon DEF b
  <1>4. CASE cpu.pc \in {"buttons", "give"}
    <2>1. cpu.pc \notin {"x", "y"} /\ cpu.pc \in {"x", "y", "buttons", "give"}
      BY <1>4
    <2>2. FirstLeft = cpu.upto /\ Up(mouse, cpu, m) = m - Behind(cpu.upto, w) /\ Behind(cpu.upto, w) <= m
      BY <1>4, <2>1 DEF FirstLeft, Up, WithinSent
    <2>3. Behind(cpu.upto, w) \in Nat
      BY <1>1, FurtherOn, Zenon
    <2> QED  BY <1>1, <1>2, <2>2, <2>3, Zenon
  <1>5. CASE cpu.pc \notin {"x", "y", "buttons", "give"}
    <2>1. FirstLeft = mouse.r /\ Up(mouse, cpu, m) = m - Behind(mouse.r, w) /\ Behind(mouse.r, w) <= m
      BY <1>5 DEF FirstLeft, Up, WithinSent
    <2>2. Behind(mouse.r, w) \in Nat
      BY <1>1, FurtherOn, Zenon
    <2> QED  BY <1>1, <1>2, <2>1, <2>2, Zenon
  <1> QED  BY <1>3, <1>4, <1>5

LEMMA PacketsInOrder ==
  ASSUME InputTypes, NEW m \in Nat, Collected(m)
  PROVE  /\ \A p \in Range(Packets) : p = Packet(wire, 8, p[1].n)
         /\ Rising([i \in 1 .. Len(Packets) |-> Packets[i][1].n])
         /\ ~mouse.overrun => /\ Rising(PacketNumbers)
                              /\ \A a \in Range(mouse.applied) : a.x.n = a.y.n
                              /\ cpu.pc = "give" => mouse.buttons.n = Last(mouse.applied).x.n
  <1>0. mouse.r \in QueueSlots /\ mouse.applied \in Seq(Movement) /\ mouse \in MouseState
    BY Zenon DEF InputTypes, MouseState
  <1>1. /\ Numbered(mouse.q, mouse.w, m) /\ WithinSent(mouse, cpu, m) /\ Behind(mouse.r, mouse.w) <= m
        /\ ~mouse.overrun => Applied(mouse, cpu, m)
    BY Zenon DEF Collected, WithinSent
  <1>2. \A j \in 1 .. Len(Packets) : Whole(Packets[j]) /\ Packets[j][1].n = m - Behind(mouse.r, mouse.w) + j
    BY <1>0, <1>1, PacketsNumbered DEF Packets
  <1>3. Packets \in Seq(Packed) /\ Behind(mouse.r, mouse.w) \in Nat
    BY <1>0, PacketsAt, Zenon DEF Packets
  <1>4. \A p \in Range(Packets) : p = Packet(wire, 8, p[1].n)
    <2>1. DOMAIN Packets = 1 .. Len(Packets)
      BY <1>3
    <2> QED  BY <1>2, <2>1, Zenon DEF Range, Whole
  <1>5. Rising([i \in 1 .. Len(Packets) |-> Packets[i][1].n])
    <2> DEFINE f == [i \in 1 .. Len(Packets) |-> Packets[i][1].n]
               n == Len(Packets)
               b == Behind(mouse.r, mouse.w)
    <2>1. n \in Nat /\ b \in Nat
      BY <1>3
    <2>2. f \in [1 .. n -> Int] /\ \A i \in 1 .. n : f[i] = m - b + i
      <3>1. \A i \in 1 .. n : f[i] = m - b + i
        BY <1>2, Zenon
      <3>2. \A i \in 1 .. n : m - b + i \in Int
        BY <2>1
      <3> HIDE DEF n, b
      <3>3. \A i \in 1 .. n : Packets[i][1].n \in Int
        BY <1>2, <3>2, Zenon DEF n, b
      <3> QED  BY <3>1, <3>3, Zenon DEF n
    <2> HIDE DEF f, b, n
    <2>3. Len(f) = n
      BY <2>1, <2>2
    <2>4. \A i, j \in 1 .. n : i < j => f[i] < f[j]
      BY <2>1, <2>2
    <2>5. Rising(f)
      BY <2>3, <2>4, Zenon DEF Rising
    <2> QED  BY <2>5 DEF f
  <1>6. ASSUME ~mouse.overrun
        PROVE  /\ Rising(PacketNumbers)
               /\ \A a \in Range(mouse.applied) : a.x.n = a.y.n
               /\ cpu.pc = "give" => mouse.buttons.n = Last(mouse.applied).x.n
    <2>1. Applied(mouse, cpu, m)
      BY <1>1, <1>6
    <2> DEFINE a == Len(mouse.applied)
               g == FirstLeft
               c == Behind(g, mouse.w)
               b == Len(PacketsFrom(g))
               f == [i \in 1 .. a |-> mouse.applied[i].x.n]
               h == [i \in 1 .. b |-> PacketsFrom(g)[i][1].n]
    <2>2. g \in QueueSlots /\ c \in Nat /\ c <= m /\ \A i \in 1 .. a : mouse.applied[i].x.n <= m - c
      BY <1>1, <2>1, FirstLeftIs
    <2>3. b \in Nat /\ \A j \in 1 .. b : PacketsFrom(g)[j][1].n = m - c + j
      <3>1. b \in Nat
        BY <2>2, PacketsAt, Zenon
      <3> QED  BY <1>1, <2>2, <3>1, PacketsNumbered, Zenon
    <2>4. a \in Nat /\ \A i \in 1 .. a : mouse.applied[i].x.n \in Nat
      BY <1>0, MovementsAre
    <2>5. PacketNumbers = f \o h
      BY Zenon DEF PacketNumbers
    <2>6. f \in [1 .. a -> Int] /\ \A i \in 1 .. a : f[i] = mouse.applied[i].x.n
      <3>1. \A i \in 1 .. a : mouse.applied[i].x.n \in Int
        BY <2>4
      <3> QED  BY <3>1, Zenon
    <2>7. h \in [1 .. b -> Int] /\ \A i \in 1 .. b : h[i] = m - c + i
      <3>1. \A i \in 1 .. b : m - c + i \in Int
        BY <2>2, <2>3
      <3>2. \A i \in 1 .. b : PacketsFrom(g)[i][1].n \in Int
        BY <2>3, <3>1, Zenon
      <3> QED  BY <2>3, <3>2, Zenon
    <2> HIDE DEF a, b, c, f, g, h
    <2>8. \A i, j \in 1 .. a : i < j => f[i] < f[j]
      <3>1. \A i \in 1 .. a, j \in 1 .. a : i < j => mouse.applied[i].x.n < mouse.applied[j].x.n
        BY <2>1, AppliedAre, Zenon DEF a
      <3> QED  BY <2>6, <3>1, Zenon
    <2>9. /\ \A i, j \in 1 .. b : i < j => h[i] < h[j]
          /\ \A i \in 1 .. b : m - c < h[i]
          /\ m - c \in Int
      <3> DEFINE d == m - c
      <3>1. d \in Int
        BY <2>2
      <3>2. \A i \in 1 .. b : h[i] = d + i
        BY <2>7, Zenon
      <3> HIDE DEF d
      <3>3. (\A i, j \in 1 .. b : i < j => h[i] < h[j]) /\ \A i \in 1 .. b : d < h[i]
        BY <2>3, <3>1, <3>2
      <3> QED  BY <3>1, <3>3, Zenon DEF d
    <2>10. \A i \in 1 .. a : f[i] <= m - c
      BY <2>2, <2>6, Zenon
    <2>11. Rising(f \o h)
      BY <2>3, <2>4, <2>6, <2>7, <2>8, <2>9, <2>10, JoinRising
    <2>12. \A e \in Range(mouse.applied) : e.x.n = e.y.n
      <3>1. DOMAIN mouse.applied = 1 .. Len(mouse.applied)
        BY <1>0
      <3> QED  BY <2>1, <3>1, AppliedAre, Zenon DEF Range
    <2>13. cpu.pc = "give" => mouse.buttons.n = Last(mouse.applied).x.n
      BY <2>1, AppliedAre, Zenon DEF Last
    <2> QED  BY <2>5, <2>11, <2>12, <2>13
  <1> QED  BY <1>4, <1>5, <1>6

LEMMA NothingWhileUndefined ==
  ASSUME InputTypes, Untouched, cpu.pc = "undefined"
  PROVE  0 \in Nat /\ Collected(0)
  <1>1. mouse.applied = <<>> /\ mouse.r = mouse.w /\ mouse.packet = <<>>
    BY DEF Untouched, StartUpLabels
  <1>2. cpu.pc \notin Reading /\ mouse \in MouseState
    BY DEF Reading, InputTypes
  <1>3. WithinSent(mouse, cpu, 0) /\ Applied(mouse, cpu, 0) /\ Numbered(mouse.q, mouse.w, 0)
    BY <1>1, <1>2, NothingCollected, Zenon DEF Numbered
  <1> QED  BY <1>1, <1>3, Zenon DEF Collected

\* What holds while no program has read the data port.
CalmMouse == StartOk /\ Untouched /\ Short /\ KbdOnly /\ MouseOnly /\ Train

LEMMA CalmIsRight ==
  ASSUME InputTypes, CalmMouse, ~polled
  PROVE  BytesGoToTheirDevice
  <1>1. \A e \in Range(Events) : \A b \in Range(e) : b.src = "kbd"
    BY EventsFromKbd DEF CalmMouse
  <1>2. /\ \A p \in Range(Packets) \cup {mouse.packet} : \A b \in Range(p) : b.src = "mouse"
        /\ \A a \in Range(mouse.applied) : a.x.src = "mouse" /\ a.y.src = "mouse"
    BY PacketsFromMouse DEF CalmMouse
  <1>3. ASSUME "mouse" \notin lost PROVE \E m \in Nat : Collected(m)
    <2>1. CASE cpu.pc = "undefined"
      BY <2>1, NothingWhileUndefined, Zenon DEF CalmMouse
    <2>2. CASE cpu.pc # "undefined"
      <3>1. wire.packets \in Nat
        BY Zenon DEF InputTypes, WireState
      <3>2. PICK m \in 0 .. wire.packets : Collected(m)
        BY <1>3, <2>2, Zenon DEF CalmMouse, Train
      <3>3. m \in Nat
        BY <3>1
      <3> QED  BY <3>2, <3>3, Zenon
    <2> QED  BY <2>1, <2>2
  <1>4. "mouse" \notin lost =>
          /\ \A p \in Range(Packets) : p = Packet(wire, 8, p[1].n)
          /\ Rising([i \in 1 .. Len(Packets) |-> Packets[i][1].n])
          /\ ~mouse.overrun => /\ Rising(PacketNumbers)
                               /\ \A a \in Range(mouse.applied) : a.x.n = a.y.n
                               /\ cpu.pc = "give" => mouse.buttons.n = Last(mouse.applied).x.n
    BY <1>3, PacketsInOrder
  <1> QED  BY <1>1, <1>2, <1>4, Zenon DEF BytesGoToTheirDevice

LEMMA MouseInit ==
  ASSUME Init
  PROVE  Devices /\ Quiet /\ CalmMouse
  <1>0. /\ wire.keys = <<>> /\ wire.moves = <<>> /\ wire.packets = 0 /\ wire.reporting = FALSE /\ wire.wheel = FALSE
        /\ ctl.full = FALSE /\ isr = "none" /\ kbd.head = kbd.tail /\ kbd.e0 = <<>> /\ got = <<>>
        /\ mouse.packet = <<>> /\ mouse.r = 0 /\ mouse.w = 0 /\ mouse.applied = <<>> /\ mouse.size = 3
        /\ cpu.pc = "drain" /\ cpu.step = 1
    BY Zenon DEF Init
  <1>1. \A i \in 1 .. Len(<<>>) : FALSE
    OBVIOUS
  <1>2. \A S : From(S, <<>>)
    BY <1>1, Zenon DEF From
  <1>3. Devices
    BY <1>0, <1>2, Zenon DEF Devices
  <1>4. Quiet
    BY <1>0 DEF Quiet
  <1>5. MovesComing = <<>>
    BY <1>0, Zenon DEF MovesComing
  <1>6. StartOk
    BY <1>0, <1>2, <1>5 DEF StartOk
  <1>7. Untouched
    BY <1>0, Zenon DEF Untouched
  <1>8. Short
    <2>1. Len(<<>>) < 3
      OBVIOUS
    <2> QED  BY <1>0, <2>1, Zenon DEF Short
  <1>9. KbdOnly
    <2>1. \A s \in RingSlots : kbd.ring[s] = NoEvent
      BY Zenon DEF Init, RingSlots
    <2>2. From({"kbd"}, NoEvent)
      <3>1. NoByte.src = "kbd" /\ NoByte \in Bytes
        BY BytesAre DEF NoByte, Byte
      <3>2. From({"kbd"}, <<NoByte>>)
        BY <3>1, FromIs
      <3> QED  BY <3>2, Zenon DEF NoEvent
    <2>3. cpu.pc # "advance"
      BY <1>0
    <2> QED  BY <1>0, <1>1, <1>2, <2>1, <2>2, <2>3, Zenon DEF KbdOnly
  <1>10. MouseOnly
    <2>1. cpu.pc # "bound" /\ cpu.pc \notin {"x", "y", "buttons", "give"} /\ cpu.pc \notin {"x", "y"} /\ cpu.pc # "y"
      BY <1>0
    <2>2. Between(0, 0) = {}
      BY PlacesAre, BetweenIs
    <2>3. Covered = {}
      <3> HIDE DEF Between
      <3> QED  BY <1>0, <2>1, <2>2 DEF Covered
    <2> QED  BY <1>0, <1>1, <1>2, <2>1, <2>3, Zenon DEF MouseOnly
  <1>11. Train
    <2>1. cpu.pc \in StartUpLabels \cup {"pop"} /\ ~wire.reporting
      BY <1>0 DEF StartUpLabels
    <2> QED  BY <1>0, <1>6, <2>1, TypesInit, NoTrainYet
  <1> QED  BY <1>3, <1>4, <1>6, <1>7, <1>8, <1>9, <1>10, <1>11 DEF CalmMouse

LEMMA CalmStep ==
  ASSUME InputTypes, Devices, Quiet, CalmMouse, [Next]_vars, ~polled'
  PROVE  CalmMouse'
  <1>1. InputTypes'
    BY TypesStep
  <1>2. StartOk /\ Untouched /\ Short /\ KbdOnly /\ MouseOnly /\ Train
    BY Zenon DEF CalmMouse
  <1>3. StartOk' /\ Untouched' /\ Short' /\ KbdOnly' /\ MouseOnly'
    BY <1>2, StartStep, UntouchedStep, ShortStep, KbdOnlyStep, MouseOnlyStep
  <1>4. Train'
    BY <1>1, <1>2, <1>3, TrainStep
  <1> QED  BY <1>3, <1>4, Zenon DEF CalmMouse

MouseInv == InputTypes /\ Devices /\ Quiet /\ (~polled => CalmMouse)

LEMMA MouseInvStep ==
  ASSUME MouseInv, [Next]_vars
  PROVE  MouseInv'
  <1>1. InputTypes /\ Devices /\ Quiet /\ (~polled => CalmMouse)
    BY Zenon DEF MouseInv
  <1>2. InputTypes' /\ Devices'
    <2>1. UNCHANGED vars => Devices'
      BY <1>1, Zenon DEF vars, Devices, From
    <2> QED  BY <1>1, <2>1, TypesStep, DevicesStep
  <1>3. ASSUME ~polled' PROVE Quiet' /\ CalmMouse'
    <2>1. ~polled /\ Quiet'
      BY <1>1, <1>3, QuietSteps
    <2> QED  BY <1>1, <1>3, <2>1, CalmStep
  <1>4. polled' => Quiet'
    BY Zenon DEF Quiet
  <1> QED  BY <1>2, <1>3, <1>4, Zenon DEF MouseInv

\* However the keyboard's bytes and the mouse's interleave at the one port, and whichever of
\* kbd_handler and mouse_handler takes them, each goes to its own device; the packets in the
\* queue are whole and in the order the mouse sent them; and what ps2_mouse_update takes of
\* them word by word belongs together and is in order, unless the handler has come round to a
\* slot the update has still to read: for any ring, queue and input.
THEOREM BytesGoToTheirDeviceCorrect == Spec => []BytesGoToTheirDevice
  <1>1. Init => MouseInv
    BY TypesInit, MouseInit DEF MouseInv
  <1>2. MouseInv /\ [Next]_vars => MouseInv'
    BY MouseInvStep
  <1>3. MouseInv => BytesGoToTheirDevice
    <2> SUFFICES ASSUME MouseInv PROVE BytesGoToTheirDevice
      OBVIOUS
    <2>1. CASE polled
      BY <2>1, Zenon DEF BytesGoToTheirDevice
    <2>2. CASE ~polled
      BY <2>2, CalmIsRight, Zenon DEF MouseInv
    <2> QED  BY <2>1, <2>2
  <1> QED  BY <1>1, <1>2, <1>3, PTL DEF Spec

-----------------------------------------------------------------------------
(* The modifiers.                                                          *)

Makes(ev, c)  == Scancode(ev) = Code[c] /\ IsE0(ev) = (c = "AltGr")
Breaks(ev, c) == Scancode(ev) = Code[c] + 128 /\ IsE0(ev) = (c = "AltGr")
HeldIn(g, i, c) == \E j \in 1 .. i - 1 : Makes(g[j].ev, c) /\ \A k \in j + 1 .. i - 1 : ~Breaks(g[k].ev, c)

LEMMA HeldIs == \A i, c : (Held(i, c) <=> HeldIn(got, i, c)) /\ (Held(i, c)' <=> HeldIn(got', i, c))
  BY ZenonT(40) DEF Held, HeldIn, Makes, Breaks

\* One more event: what was held before the earlier ones stays, and after it a modifier is
\* held if it was pressed now, or was held and is not released now.
LEMMA HeldAppend ==
  ASSUME NEW g \in Seq(Popping), NEW r \in Popping, NEW c \in {"AltGr", "Shift"}
  PROVE  /\ \A i \in 1 .. Len(g) + 1 : HeldIn(Append(g, r), i, c) <=> HeldIn(g, i, c)
         /\ HeldIn(Append(g, r), Len(g) + 2, c) <=> Makes(r.ev, c) \/ (HeldIn(g, Len(g) + 1, c) /\ ~Breaks(r.ev, c))
  <1> DEFINE h == Append(g, r)
             n == Len(g)
  <1>1. n \in Nat /\ h[n + 1] = r /\ \A i \in 1 .. n : h[i] = g[i]
    OBVIOUS
  <1> HIDE DEF h, n
  <1>2. ASSUME NEW i \in 1 .. n + 1 PROVE HeldIn(h, i, c) <=> HeldIn(g, i, c)
    <2>1. \A j \in 1 .. i - 1 : h[j] = g[j] /\ \A k \in j + 1 .. i - 1 : h[k] = g[k]
      BY <1>1
    <2>2. (\E j \in 1 .. i - 1 : Makes(h[j].ev, c) /\ \A k \in j + 1 .. i - 1 : ~Breaks(h[k].ev, c))
            <=> (\E j \in 1 .. i - 1 : Makes(g[j].ev, c) /\ \A k \in j + 1 .. i - 1 : ~Breaks(g[k].ev, c))
      BY <2>1, Zenon
    <2> QED  BY <2>2, Zenon DEF HeldIn
  <1>3. ~(Makes(r.ev, c) /\ Breaks(r.ev, c))
    <2>1. Code[c] # Code[c] + 128
      BY CodesAre
    <2> QED  BY <2>1, Zenon DEF Makes, Breaks
  <1>4. ASSUME Makes(r.ev, c) PROVE HeldIn(h, n + 2, c)
    <2>1. n + 1 \in 1 .. (n + 2) - 1 /\ \A k \in (n + 1) + 1 .. (n + 2) - 1 : FALSE
      BY <1>1
    <2> QED  BY <1>1, <1>4, <2>1, Zenon DEF HeldIn
  <1>5. ASSUME HeldIn(g, n + 1, c), ~Breaks(r.ev, c) PROVE HeldIn(h, n + 2, c)
    <2>1. PICK j \in 1 .. (n + 1) - 1 : Makes(g[j].ev, c) /\ \A k \in j + 1 .. (n + 1) - 1 : ~Breaks(g[k].ev, c)
      BY <1>5, Zenon DEF HeldIn
    <2>2. j \in 1 .. (n + 2) - 1 /\ j \in 1 .. n
      BY <1>1
    <2>3. ASSUME NEW k \in j + 1 .. (n + 2) - 1 PROVE ~Breaks(h[k].ev, c)
      <3>1. CASE k = n + 1
        BY <1>1, <1>5, <3>1, Zenon
      <3>2. CASE k # n + 1
        <4>1. k \in j + 1 .. (n + 1) - 1 /\ k \in 1 .. n
          BY <1>1, <3>2
        <4> QED  BY <1>1, <2>1, <4>1, Zenon
      <3> QED  BY <3>1, <3>2
    <2> QED  BY <1>1, <2>1, <2>2, <2>3, Zenon DEF HeldIn
  <1>6. ASSUME HeldIn(h, n + 2, c), ~Makes(r.ev, c) PROVE HeldIn(g, n + 1, c) /\ ~Breaks(r.ev, c)
    <2>1. PICK j \in 1 .. (n + 2) - 1 : Makes(h[j].ev, c) /\ \A k \in j + 1 .. (n + 2) - 1 : ~Breaks(h[k].ev, c)
      BY <1>6, Zenon DEF HeldIn
    <2>2. j # n + 1
      BY <1>1, <1>6, <2>1, Zenon
    <2>3. j \in 1 .. n /\ j \in 1 .. (n + 1) - 1 /\ n + 1 \in j + 1 .. (n + 2) - 1
      BY <1>1, <2>2
    <2>4. ~Breaks(r.ev, c)
      BY <1>1, <2>1, <2>3, Zenon
    <2>5. \A k \in j + 1 .. (n + 1) - 1 : k \in j + 1 .. (n + 2) - 1 /\ k \in 1 .. n
      BY <1>1, <2>3
    <2>6. Makes(g[j].ev, c) /\ \A k \in j + 1 .. (n + 1) - 1 : ~Breaks(g[k].ev, c)
      BY <1>1, <2>1, <2>3, <2>5, Zenon
    <2> QED  BY <2>3, <2>4, <2>6, Zenon DEF HeldIn
  <1>7. HeldIn(h, n + 2, c) <=> Makes(r.ev, c) \/ (HeldIn(g, n + 1, c) /\ ~Breaks(r.ev, c))
    BY <1>4, <1>5, <1>6
  <1> QED  BY <1>2, <1>7, Zenon DEF h, n

\* The two flags of keyboard.c are the modifiers held after the events popped, and each
\* event was looked up with those held before it.
Modified ==
  /\ kbd.altgr <=> HeldIn(got, Len(got) + 1, "AltGr")
  /\ kbd.shift <=> HeldIn(got, Len(got) + 1, "Shift")
  /\ \A i \in 1 .. Len(got) :
       got[i].table = (IF HeldIn(got, i, "AltGr") THEN "altgr" ELSE IF HeldIn(got, i, "Shift") THEN "shift" ELSE "normal")

LEMMA ModifiedAdvance ==
  ASSUME InputTypes, Modified, PopAdvance
  PROVE  Modified'
  <1> DEFINE ev == cpu.ev
             r == [ev |-> cpu.ev, returned |-> Returned(kbd, cpu.ev), table |-> Table(kbd)]
             n == Len(got)
  <1>1. /\ got' = Append(got, r)
        /\ kbd'.altgr = IF IsModifier(ev) /\ IsE0(ev) THEN Scancode(ev) < 128 ELSE kbd.altgr
        /\ kbd'.shift = IF OfShift(ev) THEN Scancode(ev) < 128 ELSE kbd.shift
    BY PopAdvanceDoes, Zenon
  <1>2. ev \in Event /\ got \in Seq(Popping) /\ kbd.altgr \in BOOLEAN /\ kbd.shift \in BOOLEAN
    BY Zenon DEF InputTypes, CpuState, KbdState
  <1>3. r \in Popping
    <2>1. Returned(kbd, ev) \in BOOLEAN
      BY Zenon DEF Returned
    <2>2. Table(kbd) \in {"altgr", "shift", "normal"}
      BY Zenon DEF Table
    <2> QED  BY <1>2, <2>1, <2>2, Zenon DEF Popping
  <1>4. r.ev = ev /\ r.table = Table(kbd)
    BY Zenon
  <1> HIDE DEF r, ev
  <1>5. n \in Nat /\ Len(got') = n + 1 /\ got'[n + 1] = r /\ \A i \in 1 .. n : got'[i] = got[i]
    BY <1>1, <1>2
  <1> HIDE DEF n
  <1>6. \A c \in {"AltGr", "Shift"} : \A i \in 1 .. n + 1 : HeldIn(got', i, c) <=> HeldIn(got, i, c)
    BY <1>1, <1>2, <1>3, HeldAppend, Zenon DEF n
  <1>7. \A c \in {"AltGr", "Shift"} :
          HeldIn(got', n + 2, c) <=> Makes(ev, c) \/ (HeldIn(got, n + 1, c) /\ ~Breaks(ev, c))
    BY <1>1, <1>2, <1>3, <1>4, HeldAppend, Zenon DEF n
  <1>8. Scancode(ev) \in Vals
    BY <1>2, EventsAre, Zenon
  <1>9. /\ IsModifier(ev) /\ IsE0(ev) <=> Makes(ev, "AltGr") \/ Breaks(ev, "AltGr")
        /\ OfShift(ev) <=> Makes(ev, "Shift") \/ Breaks(ev, "Shift")
        /\ Makes(ev, "AltGr") \/ Makes(ev, "Shift") => Scancode(ev) < 128
        /\ Breaks(ev, "AltGr") \/ Breaks(ev, "Shift") => ~(Scancode(ev) < 128)
    <2>1. \A v \in Vals : (v % 128 = 56 <=> v = 56 \/ v = 56 + 128) /\ (v % 128 = 42 <=> v = 42 \/ v = 42 + 128)
      BY DEF Vals
    <2>2. /\ IsModifier(ev) /\ IsE0(ev) <=> IsE0(ev) /\ (Scancode(ev) = 56 \/ Scancode(ev) = 56 + 128)
          /\ OfShift(ev) <=> ~IsE0(ev) /\ (Scancode(ev) = 42 \/ Scancode(ev) = 42 + 128)
      BY <1>8, <2>1, Zenon DEF IsModifier, OfShift
    <2>3. IsE0(ev) \in BOOLEAN
      BY Zenon DEF IsE0
    <2>4. /\ Makes(ev, "AltGr") <=> Scancode(ev) = 56 /\ IsE0(ev)
          /\ Makes(ev, "Shift") <=> Scancode(ev) = 42 /\ ~IsE0(ev)
          /\ Breaks(ev, "AltGr") <=> Scancode(ev) = 56 + 128 /\ IsE0(ev)
          /\ Breaks(ev, "Shift") <=> Scancode(ev) = 42 + 128 /\ ~IsE0(ev)
      BY <2>3, CodesAre DEF Makes, Breaks
    <2>5. \A v \in {56, 42} : v < 128 /\ ~(v + 128 < 128)
      OBVIOUS
    <2>6. Makes(ev, "AltGr") \/ Makes(ev, "Shift") => Scancode(ev) < 128
      BY <2>4, <2>5
    <2>7. Breaks(ev, "AltGr") \/ Breaks(ev, "Shift") => ~(Scancode(ev) < 128)
      BY <2>4, <2>5
    <2>8. IsModifier(ev) /\ IsE0(ev) <=> Makes(ev, "AltGr") \/ Breaks(ev, "AltGr")
      BY <2>2, <2>4, Zenon
    <2>9. OfShift(ev) <=> Makes(ev, "Shift") \/ Breaks(ev, "Shift")
      BY <2>2, <2>4, Zenon
    <2> QED  BY <2>6, <2>7, <2>8, <2>9, Zenon
  <1>10. Len(got') + 1 = n + 2
    BY <1>5
  <1>11. kbd'.altgr <=> HeldIn(got', Len(got') + 1, "AltGr")
    <2>1. kbd.altgr <=> HeldIn(got, n + 1, "AltGr")
      BY Zenon DEF Modified, n
    <2> QED  BY <1>1, <1>2, <1>7, <1>9, <1>10, <2>1, Zenon
  <1>12. kbd'.shift <=> HeldIn(got', Len(got') + 1, "Shift")
    <2>1. kbd.shift <=> HeldIn(got, n + 1, "Shift")
      BY Zenon DEF Modified, n
    <2> QED  BY <1>1, <1>2, <1>7, <1>9, <1>10, <2>1, Zenon
  <1>13. ASSUME NEW i \in 1 .. Len(got')
         PROVE  got'[i].table = (IF HeldIn(got', i, "AltGr") THEN "altgr" ELSE IF HeldIn(got', i, "Shift") THEN "shift" ELSE "normal")
    <2>1. i \in 1 .. n + 1
      BY <1>5
    <2>2. (HeldIn(got', i, "AltGr") <=> HeldIn(got, i, "AltGr")) /\ (HeldIn(got', i, "Shift") <=> HeldIn(got, i, "Shift"))
      BY <1>6, <2>1, Zenon
    <2>3. CASE i = n + 1
      <3>1. (kbd.altgr <=> HeldIn(got, n + 1, "AltGr")) /\ (kbd.shift <=> HeldIn(got, n + 1, "Shift"))
        BY Zenon DEF Modified, n
      <3>2. got'[i].table = Table(kbd)
        BY <1>4, <1>5, <2>3, Zenon
      <3> QED  BY <2>2, <2>3, <3>1, <3>2, Zenon DEF Table
    <2>4. CASE i # n + 1
      <3>1. i \in 1 .. n
        BY <1>5, <2>1, <2>4
      <3>2. got'[i] = got[i]
        BY <1>5, <3>1, Zenon
      <3>3. got[i].table = (IF HeldIn(got, i, "AltGr") THEN "altgr" ELSE IF HeldIn(got, i, "Shift") THEN "shift" ELSE "normal")
        BY <3>1, Zenon DEF Modified, n
      <3> QED  BY <2>2, <3>2, <3>3, Zenon
    <2> QED  BY <2>3, <2>4
  <1> QED  BY <1>11, <1>12, <1>13, Zenon DEF Modified

LEMMA ModifiedStep ==
  ASSUME InputTypes, Modified, [Next]_vars
  PROVE  Modified'
  <1>1. CASE PopAdvance
    BY <1>1, ModifiedAdvance
  <1>2. CASE ~PopAdvance
    <2>1. got' = got
      BY <1>2, GotChanges, Zenon DEF vars
    <2>2. kbd'.altgr = kbd.altgr /\ kbd'.shift = kbd.shift
      <3>1. kbd \in KbdState
        BY Zenon DEF InputTypes
      <3>2. CASE KbdPrefix \/ KbdKey
        BY <3>2, KbdPrefixDoes, KbdKeyDoes, Zenon
      <3>3. CASE PollJoin \/ PollStore \/ PollPublish
        BY <3>1, <3>3, Zenon DEF PollJoin, PollStore, PollPublish, KbdState
      <3> QED  BY <1>2, <3>2, <3>3, KbdChanges, Zenon DEF vars
    <2> QED  BY <2>1, <2>2, Zenon DEF Modified
  <1> QED  BY <1>1, <1>2

LEMMA ModifiedInit == Init => Modified
  <1> SUFFICES ASSUME Init PROVE Modified
    OBVIOUS
  <1>1. got = <<>> /\ kbd.altgr = FALSE /\ kbd.shift = FALSE
    BY Zenon DEF Init
  <1>2. Len(got) = 0 /\ \A j \in 1 .. (Len(got) + 1) - 1 : FALSE
    BY <1>1
  <1>3. \A c : ~HeldIn(got, Len(got) + 1, c)
    BY <1>2, Zenon DEF HeldIn
  <1>4. \A i \in 1 .. Len(got) : FALSE
    BY <1>1
  <1> QED  BY <1>1, <1>3, <1>4, Zenon DEF Modified

-----------------------------------------------------------------------------
(* The ring: a push adds an event at the end, a pop moves the first one to *)
(* those popped.                                                           *)

Distance(h, t) == IF t <= h THEN h - t ELSE h - t + RingSize
SlotAt(t, i) == IF t + i - 1 < RingSize THEN t + i - 1 ELSE t + i - 1 - RingSize

LEMMA Distances ==
  /\ \A k : Waiting(k) = Distance(k.head, k.tail)
  /\ \A k, i : SlotOf(k, i) = SlotAt(k.tail, i)
  BY Zenon DEF Waiting, Distance, SlotOf, SlotAt

LEMMA HeadMoves ==
  ASSUME NEW h \in RingSlots, NEW t \in RingSlots, NextSlot(h) # t
  PROVE  /\ Distance(NextSlot(h), t) = Distance(h, t) + 1 /\ Distance(h, t) \in Nat
         /\ SlotAt(t, Distance(h, t) + 1) = h
         /\ \A i \in 1 .. Distance(h, t) : SlotAt(t, i) # h
  <1>1. RingSize \in Nat /\ RingSize > 1
    BY SlotsAre
  <1>2. h \in Int /\ t \in Int /\ 0 <= h /\ h < RingSize /\ 0 <= t /\ t < RingSize
    BY <1>1 DEF RingSlots
  <1>3. NextSlot(h) = IF h = RingSize - 1 THEN 0 ELSE h + 1
    BY SlotsAre, Zenon
  <1>4. Distance(NextSlot(h), t) = Distance(h, t) + 1 /\ Distance(h, t) \in Nat
    BY <1>1, <1>2, <1>3 DEF Distance
  <1>5. SlotAt(t, Distance(h, t) + 1) = h
    BY <1>1, <1>2 DEF Distance, SlotAt
  <1>6. \A i \in 1 .. Distance(h, t) : SlotAt(t, i) # h
    BY <1>1, <1>2 DEF Distance, SlotAt
  <1> QED  BY <1>4, <1>5, <1>6

LEMMA TailMoves ==
  ASSUME NEW h \in RingSlots, NEW t \in RingSlots, h # t
  PROVE  /\ Distance(h, t) = Distance(h, NextSlot(t)) + 1 /\ Distance(h, NextSlot(t)) \in Nat
         /\ SlotAt(t, 1) = t
         /\ \A i \in 1 .. Distance(h, NextSlot(t)) : SlotAt(NextSlot(t), i) = SlotAt(t, i + 1)
  <1>1. RingSize \in Nat /\ RingSize > 1
    BY SlotsAre
  <1>2. h \in Int /\ t \in Int /\ 0 <= h /\ h < RingSize /\ 0 <= t /\ t < RingSize
    BY <1>1 DEF RingSlots
  <1>3. NextSlot(t) = IF t = RingSize - 1 THEN 0 ELSE t + 1
    BY SlotsAre, Zenon
  <1>4. Distance(h, t) = Distance(h, NextSlot(t)) + 1 /\ Distance(h, NextSlot(t)) \in Nat
    BY <1>1, <1>2, <1>3 DEF Distance
  <1>5. SlotAt(t, 1) = t
    BY <1>1, <1>2 DEF SlotAt
  <1>6. \A i \in 1 .. Distance(h, NextSlot(t)) : SlotAt(NextSlot(t), i) = SlotAt(t, i + 1)
    <2>1. CASE t = RingSize - 1
      <3>1. NextSlot(t) = 0
        BY <1>3, <2>1
      <3>2. \A i \in 1 .. Distance(h, 0) : SlotAt(0, i) = SlotAt(t, i + 1)
        BY <1>1, <1>2, <2>1 DEF Distance, SlotAt
      <3> QED  BY <3>1, <3>2
    <2>2. CASE t # RingSize - 1
      <3>1. NextSlot(t) = t + 1
        BY <1>3, <2>2
      <3>2. \A i \in 1 .. Distance(h, t + 1) : SlotAt(t + 1, i) = SlotAt(t, i + 1)
        BY <1>1, <1>2, <2>2 DEF Distance, SlotAt
      <3> QED  BY <3>1, <3>2
    <2> QED  BY <2>1, <2>2
  <1> QED  BY <1>4, <1>5, <1>6

LEMMA SameEvents ==
  ASSUME NEW p \in Seq(Event), NEW q \in Seq(Event), Len(p) = Len(q), \A i \in 1 .. Len(p) : p[i] = q[i]
  PROVE  p = q
  BY SeqEqual

LEMMA LongerEvents ==
  ASSUME NEW p \in Seq(Event), NEW ev \in Event
  PROVE  /\ Append(p, ev) \in Seq(Event) /\ Len(Append(p, ev)) = Len(p) + 1 /\ Len(p) \in Nat
         /\ Append(p, ev)[Len(p) + 1] = ev /\ \A i \in 1 .. Len(p) : Append(p, ev)[i] = p[i]
  <1>1. Append(p, ev) \in Seq(Event) /\ Len(Append(p, ev)) = Len(p) + 1 /\ Len(p) \in Nat
    OBVIOUS
  <1>2. Append(p, ev)[Len(p) + 1] = ev
    OBVIOUS
  <1>3. \A i \in 1 .. Len(p) : Append(p, ev)[i] = p[i]
    OBVIOUS
  <1> QED  BY <1>1, <1>2, <1>3

LEMMA EventsPush ==
  ASSUME NEW g \in Seq(Popping), NEW k \in KbdState, NEW l \in KbdState, NEW ev \in Event,
         NextSlot(k.head) # k.tail, l.tail = k.tail, l.head = NextSlot(k.head), l.ring = [k.ring EXCEPT ![k.head] = ev]
  PROVE  EventsIn(g, l) = Append(EventsIn(g, k), ev)
  <1> DEFINE p == EventsIn(g, k)
             q == EventsIn(g, l)
             w == Waiting(k)
             n == Len(g)
  <1>1. k.head \in RingSlots /\ k.tail \in RingSlots /\ k.ring \in [RingSlots -> Event]
    BY RingAt
  <1>2. /\ Waiting(l) = w + 1 /\ w \in Nat /\ SlotOf(l, w + 1) = k.head
        /\ \A i \in 1 .. w : SlotOf(l, i) = SlotOf(k, i) /\ SlotOf(k, i) # k.head
    BY <1>1, HeadMoves, Distances, Zenon
  <1>3. \A i \in 1 .. w : SlotOf(k, i) \in RingSlots
    BY QueuedIs, Zenon
  <1>4. l.ring[k.head] = ev /\ \A s \in RingSlots : s # k.head => l.ring[s] = k.ring[s]
    BY <1>1, Zenon
  <1>5. /\ p \in Seq(Event) /\ Len(p) = n + w /\ n \in Nat
        /\ \A i \in 1 .. n : p[i] = g[i].ev
        /\ \A i \in 1 .. w : p[i + n] = k.ring[SlotOf(k, i)]
    BY EventsAt, Zenon
  <1>6. /\ q \in Seq(Event) /\ Len(q) = n + Waiting(l)
        /\ \A i \in 1 .. n : q[i] = g[i].ev
        /\ \A i \in 1 .. Waiting(l) : q[i + n] = l.ring[SlotOf(l, i)]
    BY EventsAt, Zenon
  <1> HIDE DEF p, q, w, n
  <1>7. /\ Append(p, ev) \in Seq(Event) /\ Len(Append(p, ev)) = n + w + 1
        /\ Append(p, ev)[n + w + 1] = ev /\ \A i \in 1 .. n + w : Append(p, ev)[i] = p[i]
    <2>1. /\ Append(p, ev) \in Seq(Event) /\ Len(Append(p, ev)) = Len(p) + 1
          /\ Append(p, ev)[Len(p) + 1] = ev /\ \A i \in 1 .. Len(p) : Append(p, ev)[i] = p[i]
      BY <1>5, LongerEvents, Zenon
    <2> QED  BY <1>5, <2>1
  <1>8. Len(q) = n + w + 1
    BY <1>2, <1>5, <1>6
  <1>9. q[n + w + 1] = ev
    <2>1. w + 1 \in 1 .. Waiting(l) /\ (w + 1) + n = n + w + 1
      BY <1>2, <1>5
    <2> QED  BY <1>2, <1>4, <1>6, <2>1, Zenon
  <1>10. ASSUME NEW i \in 1 .. n + w PROVE q[i] = p[i]
    <2>1. CASE i \in 1 .. n
      BY <1>5, <1>6, <2>1, Zenon
    <2>2. CASE i \notin 1 .. n
      <3>1. PICK j \in 1 .. w : i = j + n
        BY <1>2, <1>5, <2>2, SecondPart, Zenon
      <3>2. j \in 1 .. Waiting(l)
        BY <1>2
      <3>3. q[i] = l.ring[SlotOf(k, j)] /\ p[i] = k.ring[SlotOf(k, j)]
        BY <1>2, <1>5, <1>6, <3>1, <3>2, Zenon
      <3> QED  BY <1>2, <1>3, <1>4, <3>3, Zenon
    <2> QED  BY <2>1, <2>2
  <1>11. \A i \in 1 .. Len(q) : i \in 1 .. n + w \/ i = n + w + 1
    BY <1>2, <1>5, <1>8
  <1>12. \A i \in 1 .. Len(q) : q[i] = Append(p, ev)[i]
    BY <1>7, <1>9, <1>10, <1>11, Zenon
  <1>13. q = Append(p, ev)
    BY <1>6, <1>7, <1>8, <1>12, SameEvents, Zenon
  <1> QED  BY <1>13 DEF p, q

LEMMA EventsPop ==
  ASSUME NEW g \in Seq(Popping), NEW k \in KbdState, NEW l \in KbdState, NEW r \in Popping,
         k.head # k.tail, r.ev = k.ring[k.tail],
         l.tail = NextSlot(k.tail), l.head = k.head, l.ring = k.ring
  PROVE  EventsIn(Append(g, r), l) = EventsIn(g, k)
  <1> DEFINE p == EventsIn(g, k)
             h == Append(g, r)
             q == EventsIn(h, l)
             w == Waiting(l)
             n == Len(g)
  <1>1. k.head \in RingSlots /\ k.tail \in RingSlots
    BY RingAt
  <1>2. /\ Waiting(k) = w + 1 /\ w \in Nat /\ SlotOf(k, 1) = k.tail
        /\ \A i \in 1 .. w : SlotOf(l, i) = SlotOf(k, i + 1)
    <2>1. Waiting(k) = Distance(k.head, k.tail) /\ w = Distance(k.head, NextSlot(k.tail))
      BY Distances, Zenon
    <2>2. \A i : SlotOf(k, i) = SlotAt(k.tail, i) /\ SlotOf(l, i) = SlotAt(NextSlot(k.tail), i)
      BY Distances, Zenon
    <2>3. /\ Distance(k.head, k.tail) = Distance(k.head, NextSlot(k.tail)) + 1 /\ Distance(k.head, NextSlot(k.tail)) \in Nat
          /\ SlotAt(k.tail, 1) = k.tail
          /\ \A i \in 1 .. Distance(k.head, NextSlot(k.tail)) : SlotAt(NextSlot(k.tail), i) = SlotAt(k.tail, i + 1)
      BY <1>1, TailMoves, Zenon
    <2> HIDE DEF w
    <2> QED  BY <2>1, <2>2, <2>3, Zenon
  <1>3. h \in Seq(Popping) /\ Len(h) = n + 1 /\ h[n + 1] = r /\ \A i \in 1 .. n : h[i] = g[i]
    OBVIOUS
  <1> HIDE DEF h
  <1>5. /\ p \in Seq(Event) /\ Len(p) = n + Waiting(k) /\ n \in Nat
        /\ \A i \in 1 .. n : p[i] = g[i].ev
        /\ \A i \in 1 .. Waiting(k) : p[i + n] = k.ring[SlotOf(k, i)]
    BY EventsAt, Zenon
  <1>6. /\ q \in Seq(Event) /\ Len(q) = (n + 1) + w
        /\ \A i \in 1 .. n + 1 : q[i] = h[i].ev
        /\ \A i \in 1 .. w : q[i + (n + 1)] = l.ring[SlotOf(l, i)]
    <2>1. /\ q \in Seq(Event) /\ Len(q) = Len(h) + w
          /\ \A i \in 1 .. Len(h) : q[i] = h[i].ev
          /\ \A i \in 1 .. w : q[i + Len(h)] = l.ring[SlotOf(l, i)]
      BY <1>3, EventsAt, Zenon
    <2> QED  BY <1>3, <2>1, Zenon
  <1> HIDE DEF p, q, w, n
  <1>8. Len(q) = Len(p) /\ Len(p) = (n + 1) + w
    BY <1>2, <1>5, <1>6
  <1>9. q[n + 1] = p[n + 1]
    <2>1. 1 \in 1 .. Waiting(k) /\ 1 + n = n + 1 /\ n + 1 \in 1 .. n + 1
      BY <1>2, <1>5
    <2>2. p[n + 1] = k.ring[k.tail]
      BY <1>2, <1>5, <2>1, Zenon
    <2>3. q[n + 1] = r.ev
      BY <1>3, <1>6, <2>1, Zenon
    <2> QED  BY <2>2, <2>3
  <1>10. ASSUME NEW i \in 1 .. n PROVE q[i] = p[i]
    <2>1. i \in 1 .. n + 1
      BY <1>5
    <2> QED  BY <1>3, <1>5, <1>6, <2>1, Zenon
  <1>11. ASSUME NEW j \in 1 .. w PROVE q[j + (n + 1)] = p[j + (n + 1)]
    <2>1. j + 1 \in 1 .. Waiting(k) /\ (j + 1) + n = j + (n + 1)
      BY <1>2, <1>5
    <2>2. p[j + (n + 1)] = k.ring[SlotOf(k, j + 1)]
      BY <1>5, <2>1, Zenon
    <2> QED  BY <1>2, <1>6, <2>2, Zenon
  <1>12. ASSUME NEW i \in 1 .. Len(q) PROVE q[i] = p[i]
    <2>1. i \in 1 .. (n + 1) + w
      BY <1>8
    <2>2. n + 1 \in Nat
      BY <1>5
    <2>3. i \in 1 .. n + 1 \/ \E j \in 1 .. w : i = j + (n + 1)
      BY <1>2, <2>1, <2>2, SecondPart, Zenon
    <2>4. i \in 1 .. n + 1 => i \in 1 .. n \/ i = n + 1
      BY <1>5
    <2> QED  BY <1>9, <1>10, <1>11, <2>3, <2>4, Zenon
  <1>13. q = p
    BY <1>5, <1>6, <1>8, <1>12, SameEvents, Zenon
  <1> QED  BY <1>13 DEF p, q, h


-----------------------------------------------------------------------------
(* The strokes, their bytes on the way, and the events made of them.       *)

\* The n-th stroke: a byte that is no prefix, or the prefix and such a byte.
StrokeOk(s, n) ==
  /\ s[1].n = n
  /\ \/ Len(s) = 1 /\ s[1].val # E0
     \/ Len(s) = 2 /\ s[1].val = E0 /\ s[2].val # E0 /\ s[2].n = n
StrokesOk(S) == \A n \in 1 .. Len(S) : StrokeOk(S[n], n)

\* A byte of one of the strokes S, the one the keyboard sends after it, and the last of all.
IsPart(S, b) ==
  b.n \in 1 .. Len(S) /\ IF b.val = E0 THEN Len(S[b.n]) = 2 /\ b = S[b.n][1] ELSE b = S[b.n][Len(S[b.n])]
Follows(S, b, c) == IF b.val = E0 THEN c = S[b.n][2] ELSE b.n + 1 \in 1 .. Len(S) /\ c = S[b.n + 1][1]
Ends(S, b) == b.val # E0 /\ b.n = Len(S)

\* C is what is left of the bytes of the strokes S.
Chain(S, C) ==
  /\ \A i \in 1 .. Len(C) : IsPart(S, C[i])
  /\ \A i, j \in 1 .. Len(C) : j = i + 1 => Follows(S, C[i], C[j])
  /\ C # <<>> => Ends(S, C[Len(C)])

LEMMA StrokesAre ==
  ASSUME NEW S \in Seq(Event), StrokesOk(S), NEW n \in 1 .. Len(S)
  PROVE  /\ S[n] \in Event /\ S[n][1] \in Bytes /\ S[n][1].n = n /\ n \in Nat /\ Len(S) \in Nat
         /\ \/ Len(S[n]) = 1 /\ S[n][1].val # E0
            \/ Len(S[n]) = 2 /\ S[n][1].val = E0 /\ S[n][2].val # E0 /\ S[n][2].n = n /\ S[n][2] \in Bytes
         /\ S[n][Len(S[n])].n = n /\ S[n][Len(S[n])].val # E0
  <1>1. S[n] \in Event /\ n \in Nat /\ Len(S) \in Nat
    OBVIOUS
  <1>2. StrokeOk(S[n], n)
    BY Zenon DEF StrokesOk
  <1>3. S[n][1] \in Bytes /\ (Len(S[n]) = 2 => S[n][2] \in Bytes)
    BY <1>1 DEF Event
  <1> QED  BY <1>1, <1>2, <1>3, Zenon DEF StrokeOk

LEMMA ChainTail ==
  ASSUME NEW S, NEW C \in Seq(Bytes), C # <<>>, Chain(S, C)
  PROVE  /\ C[1] \in Bytes /\ IsPart(S, C[1]) /\ Tail(C) \in Seq(Bytes)
         /\ Tail(C) = <<>> => Ends(S, C[1])
         /\ Tail(C) # <<>> => Follows(S, C[1], Tail(C)[1])
         /\ Chain(S, Tail(C))
  <1> DEFINE T == Tail(C)
  <1>1. T \in Seq(Bytes) /\ Len(T) = Len(C) - 1 /\ Len(C) \in Nat \ {0} /\ C[1] \in Bytes
    BY TailIs
  <1>2. \A i \in 1 .. Len(C) - 1 : T[i] = C[i + 1]
    BY TailIs, Zenon
  <1> HIDE DEF T
  <1>3. \A i \in 1 .. Len(T) : T[i] = C[i + 1] /\ i + 1 \in 1 .. Len(C)
    BY <1>1, <1>2
  <1>4. \A i \in 1 .. Len(C) : IsPart(S, C[i])
    BY Zenon DEF Chain
  <1>5. \A i, j \in 1 .. Len(C) : j = i + 1 => Follows(S, C[i], C[j])
    BY Zenon DEF Chain
  <1>6. Ends(S, C[Len(C)])
    BY Zenon DEF Chain
  <1>7. IsPart(S, C[1])
    <2>1. 1 \in 1 .. Len(C)
      BY <1>1
    <2> QED  BY <1>4, <2>1, Zenon
  <1>8. T = <<>> => Ends(S, C[1])
    <2>1. T = <<>> => Len(C) = 1
      BY <1>1
    <2> QED  BY <1>6, <2>1, Zenon
  <1>9. ASSUME T # <<>> PROVE Follows(S, C[1], T[1]) /\ Ends(S, T[Len(T)])
    <2>1. 1 \in 1 .. Len(T) /\ Len(T) \in 1 .. Len(T) /\ 1 \in 1 .. Len(C) /\ Len(T) + 1 = Len(C)
      BY <1>1, <1>9
    <2> QED  BY <1>3, <1>5, <1>6, <2>1, Zenon
  <1>10. \A i, j \in 1 .. Len(T) : j = i + 1 => Follows(S, T[i], T[j])
    <2>1. ASSUME NEW i \in 1 .. Len(T), NEW j \in 1 .. Len(T), j = i + 1 PROVE Follows(S, T[i], T[j])
      <3>1. T[i] = C[i + 1] /\ T[j] = C[j + 1] /\ i + 1 \in 1 .. Len(C) /\ j + 1 \in 1 .. Len(C)
        BY <1>3, Zenon
      <3>2. j + 1 = (i + 1) + 1
        BY <2>1
      <3> QED  BY <1>5, <3>1, <3>2, Zenon
    <2> QED  BY <2>1
  <1>11. \A i \in 1 .. Len(T) : IsPart(S, T[i])
    BY <1>3, <1>4, Zenon
  <1>12. Chain(S, T)
    BY <1>9, <1>10, <1>11, Zenon DEF Chain
  <1> QED  BY <1>1, <1>7, <1>8, <1>9, <1>12 DEF T

LEMMA ChainSend ==
  ASSUME NEW S \in Seq(Event), NEW C \in Seq(Bytes), NEW st \in Event,
         StrokesOk(S), Chain(S, C), StrokeOk(st, Len(S) + 1)
  PROVE  StrokesOk(Append(S, st)) /\ Chain(Append(S, st), C \o st)
  <1> DEFINE R == Append(S, st)
             D == C \o st
             n == Len(S)
  <1>1. R \in Seq(Event) /\ Len(R) = n + 1 /\ n \in Nat /\ R[n + 1] = st /\ \A i \in 1 .. n : R[i] = S[i]
    BY LongerEvents, Zenon
  <1>2. st \in Seq(Bytes) /\ st # <<>>
    BY DEF Event
  <1>3. D \in Seq(Bytes) /\ Len(D) = Len(C) + Len(st) /\ Len(C) \in Nat /\ Len(st) \in Nat /\ (C = <<>> => Len(C) = 0) /\ D # <<>>
    BY <1>2
  <1>4. \A i \in 1 .. Len(C) : D[i] = C[i]
    BY <1>2
  <1>5. \A i \in 1 .. Len(st) : D[i + Len(C)] = st[i]
    BY <1>2
  <1>16. C # <<>> => Len(C) > 0
    OBVIOUS
  <1> HIDE DEF R, D, n
  <1>6. \A b : IsPart(S, b) => IsPart(R, b)
    <2>1. \A m \in 1 .. n : m \in 1 .. Len(R) /\ R[m] = S[m]
      BY <1>1
    <2> QED  BY <2>1, Zenon DEF IsPart, n
  <1>7. \A b, c : IsPart(S, b) /\ Follows(S, b, c) => Follows(R, b, c)
    <2>1. \A m \in 1 .. n : m \in 1 .. Len(R) /\ R[m] = S[m]
      BY <1>1
    <2> QED  BY <2>1, Zenon DEF IsPart, Follows, n
  <1>8. \A b : Ends(S, b) => Follows(R, b, st[1])
    <2>1. n + 1 \in 1 .. Len(R)
      BY <1>1
    <2> QED  BY <1>1, <2>1, Zenon DEF Ends, Follows, n
  <1>9. StrokeOk(st, n + 1)
    BY DEF n
  <1>10. /\ \A i \in 1 .. Len(st) : IsPart(R, st[i])
         /\ \A i, j \in 1 .. Len(st) : j = i + 1 => Follows(R, st[i], st[j])
         /\ Ends(R, st[Len(st)])
    <2>0. n + 1 \in 1 .. Len(R)
      BY <1>1
    <2>1. CASE Len(st) = 1 /\ st[1].val # E0
      <3>1. \A i \in 1 .. Len(st) : i = 1
        BY <2>1
      <3>2. ~(1 = 1 + 1)
        OBVIOUS
      <3>3. IsPart(R, st[1]) /\ Ends(R, st[1])
        BY <1>1, <1>9, <2>0, <2>1, Zenon DEF IsPart, Ends, StrokeOk
      <3> QED  BY <2>1, <3>1, <3>2, <3>3, Zenon
    <2>2. CASE Len(st) = 2 /\ st[1].val = E0 /\ st[2].val # E0 /\ st[2].n = n + 1
      <3>1. /\ \A i \in 1 .. Len(st) : i = 1 \/ i = 2
            /\ \A i, j \in 1 .. Len(st) : j = i + 1 => i = 1 /\ j = 2
        BY <2>2
      <3>2. IsPart(R, st[1]) /\ IsPart(R, st[2])
        BY <1>1, <1>9, <2>0, <2>2, Zenon DEF IsPart, StrokeOk
      <3>3. Follows(R, st[1], st[2]) /\ Ends(R, st[2])
        BY <1>1, <1>9, <2>2, Zenon DEF Follows, Ends, StrokeOk
      <3> QED  BY <2>2, <3>1, <3>2, <3>3, Zenon
    <2>3. \/ Len(st) = 1 /\ st[1].val # E0
          \/ Len(st) = 2 /\ st[1].val = E0 /\ st[2].val # E0 /\ st[2].n = n + 1
      BY <1>9, Zenon DEF StrokeOk
    <2> QED  BY <2>1, <2>2, <2>3, Zenon
  <1>11. \A i \in 1 .. Len(C) : IsPart(S, C[i])
    BY Zenon DEF Chain
  <1>12. \A i \in 1 .. Len(D) : i \in 1 .. Len(C) \/ \E j \in 1 .. Len(st) : i = j + Len(C)
    <2>1. \A i \in 1 .. (Len(C) + Len(st)) : i \in 1 .. Len(C) \/ \E j \in 1 .. Len(st) : i = j + Len(C)
      BY <1>3, SecondPart
    <2> QED  BY <1>3, <2>1, Zenon
  <1>13. \A i \in 1 .. Len(D) : IsPart(R, D[i])
    BY <1>4, <1>5, <1>6, <1>10, <1>11, <1>12, Zenon
  <1>14. ASSUME NEW i \in 1 .. Len(D), NEW j \in 1 .. Len(D), j = i + 1 PROVE Follows(R, D[i], D[j])
    <2>1. CASE j \in 1 .. Len(C)
      <3>1. i \in 1 .. Len(C)
        BY <1>14, <2>1
      <3>2. Follows(S, C[i], C[j])
        BY <1>14, <2>1, <3>1, Zenon DEF Chain
      <3> QED  BY <1>4, <1>7, <1>11, <2>1, <3>1, <3>2, Zenon
    <2>2. CASE \E b \in 1 .. Len(st) : j = b + Len(C)
      <3>1. PICK b \in 1 .. Len(st) : j = b + Len(C)
        BY <2>2
      <3>2. D[j] = st[b]
        BY <1>5, <3>1, Zenon
      <3>3. CASE b = 1
        <4>1. i = Len(C) /\ i \in 1 .. Len(C) /\ C # <<>>
          BY <1>3, <1>14, <3>1, <3>3
        <4>2. Ends(S, C[i])
          BY <4>1, Zenon DEF Chain
        <4> QED  BY <1>4, <1>8, <3>2, <3>3, <4>1, <4>2, Zenon
      <3>4. CASE b # 1
        <4>1. PICK a \in 1 .. Len(st) : b = a + 1 /\ i = a + Len(C)
          <5>1. b - 1 \in 1 .. Len(st) /\ b = (b - 1) + 1 /\ i = (b - 1) + Len(C)
            BY <1>3, <1>14, <3>1, <3>4
          <5> QED  BY <5>1, Zenon
        <4> QED  BY <1>5, <1>10, <3>2, <4>1, Zenon
      <3> QED  BY <3>3, <3>4
    <2> QED  BY <1>12, <2>1, <2>2, Zenon
  <1>15. Ends(R, D[Len(D)])
    <2>1. Len(st) \in 1 .. Len(st) /\ Len(st) + Len(C) = Len(D)
      BY <1>2, <1>3
    <2> QED  BY <1>5, <1>10, <2>1, Zenon
  <1>17. Chain(R, D)
    BY <1>13, <1>14, <1>15, Zenon DEF Chain
  <1>18. StrokesOk(R)
    <2>1. \A i \in 1 .. Len(R) : i \in 1 .. n \/ i = n + 1
      BY <1>1
    <2> QED  BY <1>1, <1>9, <2>1, Zenon DEF StrokesOk, n
  <1> QED  BY <1>17, <1>18 DEF R, D


\* The events E, with the prefix p kbd_handler remembers and the bytes C to come, are of
\* strokes in the order of S.
Ordered(S, E, p, C) ==
  /\ \A i \in 1 .. Len(E) : /\ E[i][1].n <= Len(S)
                            /\ C # <<>> => E[i][1].n < C[1].n
                            /\ p # <<>> => E[i][1].n < p[1].n
  /\ \A i, j \in 1 .. Len(E) : i < j => E[i][1].n < E[j][1].n
  /\ p # <<>> => p[1].n <= Len(S) /\ (C # <<>> => p[1].n <= C[1].n)

\* They are the strokes, none left out.
AllThere(S, E, p, C) ==
  /\ Len(E) <= Len(S) /\ \A i \in 1 .. Len(E) : E[i] = S[i]
  /\ Len(E) = Len(S) => p = <<>> /\ C = <<>>
  /\ Len(E) < Len(S) =>
       /\ C # <<>>
       /\ \/ p = <<>> /\ C[1] = S[Len(E) + 1][1]
          \/ Len(S[Len(E) + 1]) = 2 /\ p = <<S[Len(E) + 1][1]>> /\ C[1] = S[Len(E) + 1][2]

\* Where the number of the next byte lies.
LEMMA NextNumber ==
  ASSUME NEW S \in Seq(Event), StrokesOk(S), NEW C \in Seq(Bytes), C # <<>>, Chain(S, C)
  PROVE  /\ C[1] \in Bytes /\ C[1].n \in 1 .. Len(S) /\ C[1].n \in Nat /\ Len(S) \in Nat
         /\ Tail(C) # <<>> => /\ Tail(C)[1] \in Bytes /\ Tail(C)[1].n \in Nat
                              /\ Tail(C)[1].n = IF C[1].val = E0 THEN C[1].n ELSE C[1].n + 1
         /\ C[1].val = E0 => Tail(C) # <<>>
  <1> DEFINE T == Tail(C)
             b == C[1]
  <1>1. /\ b \in Bytes /\ IsPart(S, b) /\ T \in Seq(Bytes)
        /\ T = <<>> => Ends(S, b)
        /\ T # <<>> => Follows(S, b, T[1])
    BY ChainTail
  <1> HIDE DEF T, b
  <1>2. b.n \in 1 .. Len(S) /\ b.n \in Nat /\ Len(S) \in Nat
    <2>1. b.n \in 1 .. Len(S)
      BY <1>1, Zenon DEF IsPart
    <2> QED  BY <2>1, StrokesAre
  <1>3. b.val = E0 => T # <<>>
    BY <1>1, Zenon DEF Ends
  <1>4. T # <<>> => T[1] \in Bytes /\ T[1].n \in Nat
    <2>1. T # <<>> => T[1] \in Bytes
      BY <1>1
    <2>2. \A x \in Bytes : x.n \in Nat
      BY BytesAre, Zenon
    <2> QED  BY <2>1, <2>2, Zenon
  <1>5. ASSUME T # <<>>, b.val = E0 PROVE T[1].n = b.n
    <2>1. T[1] = S[b.n][2] /\ Len(S[b.n]) = 2
      BY <1>1, <1>5, Zenon DEF Follows, IsPart
    <2>2. S[b.n][2].n = b.n
      BY <1>2, <2>1, StrokesAre
    <2> QED  BY <2>1, <2>2
  <1>6. ASSUME T # <<>>, b.val # E0 PROVE T[1].n = b.n + 1
    <2>1. b.n + 1 \in 1 .. Len(S) /\ T[1] = S[b.n + 1][1]
      BY <1>1, <1>6, Zenon DEF Follows
    <2>2. \A n \in 1 .. Len(S) : S[n][1].n = n
      BY Zenon, StrokesAre
    <2> QED  BY <2>1, <2>2, Zenon
  <1>7. T # <<>> => T[1] \in Bytes /\ T[1].n \in Nat /\ T[1].n = IF b.val = E0 THEN b.n ELSE b.n + 1
    BY <1>4, <1>5, <1>6, Zenon
  <1> QED  BY <1>1, <1>2, <1>3, <1>7, Zenon DEF T, b

LEMMA OrderedSend ==
  ASSUME NEW S \in Seq(Event), NEW C \in Seq(Bytes), NEW E \in Seq(Event), NEW p \in Seq(Bytes), NEW st \in Event,
         StrokeOk(st, Len(S) + 1), Ordered(S, E, p, C)
  PROVE  Ordered(Append(S, st), E, p, C \o st)
  <1>1. Len(Append(S, st)) = Len(S) + 1 /\ Len(S) \in Nat
    OBVIOUS
  <1>2. \A i \in 1 .. Len(E) : E[i][1].n \in Nat
    BY NumbersAre, Zenon
  <1>3. st \in Seq(Bytes) /\ st # <<>> /\ st[1].n = Len(S) + 1
    BY Zenon DEF StrokeOk, Event
  <1>4. IF C = <<>> THEN (C \o st)[1] = st[1] ELSE (C \o st)[1] = C[1]
    BY <1>3
  <1>5. p # <<>> => p[1].n \in Nat
    BY BytesAre, TailIs, Zenon
  <1> DEFINE D == C \o st
             R == Append(S, st)
  <1> HIDE DEF D, R
  <1>6. \A i \in 1 .. Len(E) : E[i][1].n <= Len(R) /\ E[i][1].n < D[1].n /\ (p # <<>> => E[i][1].n < p[1].n)
    <2> TAKE i \in 1 .. Len(E)
    <2>1. E[i][1].n <= Len(S) /\ (C # <<>> => E[i][1].n < C[1].n) /\ (p # <<>> => E[i][1].n < p[1].n)
      BY Zenon DEF Ordered
    <2>2. E[i][1].n \in Nat
      BY <1>2
    <2>3. Len(R) = Len(S) + 1 /\ D[1].n = IF C = <<>> THEN Len(S) + 1 ELSE C[1].n
      BY <1>1, <1>3, <1>4, Zenon DEF D, R
    <2>4. E[i][1].n <= Len(R)
      BY <1>1, <2>1, <2>2, <2>3
    <2>5. E[i][1].n < D[1].n
      BY <1>1, <2>1, <2>2, <2>3
    <2> QED  BY <2>1, <2>4, <2>5, Zenon
  <1>7. p # <<>> => p[1].n <= Len(R) /\ p[1].n <= D[1].n
    <2> SUFFICES ASSUME p # <<>> PROVE p[1].n <= Len(R) /\ p[1].n <= D[1].n
      OBVIOUS
    <2>1. p[1].n <= Len(S) /\ (C # <<>> => p[1].n <= C[1].n)
      BY Zenon DEF Ordered
    <2> QED  BY <1>1, <1>3, <1>4, <1>5, <2>1, SMTT(30) DEF D, R
  <1>8. \A i, j \in 1 .. Len(E) : i < j => E[i][1].n < E[j][1].n
    BY Zenon DEF Ordered
  <1>9. Ordered(R, E, p, D)
    BY <1>6, <1>7, <1>8, Zenon DEF Ordered
  <1> QED  BY <1>9 DEF D, R

\* The next byte is read: dropped, remembered, or the last of an event, which may be dropped.
LEMMA OrderedTake ==
  ASSUME NEW S \in Seq(Event), StrokesOk(S), NEW C \in Seq(Bytes), C # <<>>, Chain(S, C),
         NEW E \in Seq(Event), NEW p \in Seq(Bytes), Ordered(S, E, p, C)
  PROVE  /\ Ordered(S, E, p, Tail(C))
         /\ C[1].val = E0 => Ordered(S, E, <<C[1]>>, Tail(C))
         /\ C[1].val # E0 => /\ Ordered(S, E, <<>>, Tail(C))
                             /\ Ordered(S, Append(E, p \o <<C[1]>>), <<>>, Tail(C))
  <1> DEFINE T == Tail(C)
             b == C[1]
             ev == p \o <<b>>
             F == Append(E, ev)
  <1>1. /\ b \in Bytes /\ b.n \in Nat /\ Len(S) \in Nat /\ b.n <= Len(S)
        /\ T # <<>> => T[1].n \in Nat /\ b.n <= T[1].n /\ (b.val # E0 => b.n < T[1].n)
    <2>1. /\ b \in Bytes /\ b.n \in 1 .. Len(S) /\ b.n \in Nat /\ Len(S) \in Nat
          /\ T # <<>> => T[1].n \in Nat /\ T[1].n = IF b.val = E0 THEN b.n ELSE b.n + 1
      BY NextNumber, Zenon
    <2> HIDE DEF b, T
    <2> QED  BY <2>1
  <1>2. ev \in Event /\ ev[1] = IF p = <<>> THEN b ELSE p[1]
    <2>1. ev \in Event
      BY <1>1, EventsAre, Zenon
    <2>2. ev[1] = IF p = <<>> THEN b ELSE p[1]
      BY <1>1
    <2> QED  BY <2>1, <2>2
  <1>3. <<b>> # <<>> /\ <<b>>[1] = b /\ ~(<<>> # <<>>)
    OBVIOUS
  <1>4. p # <<>> => p[1].n \in Nat
    BY BytesAre, TailIs, Zenon
  <1>5. /\ F \in Seq(Event) /\ Len(F) = Len(E) + 1 /\ Len(E) \in Nat
        /\ F[Len(E) + 1] = ev /\ \A i \in 1 .. Len(E) : F[i] = E[i]
    BY <1>2, LongerEvents, Zenon
  <1> HIDE DEF b, T, ev, F
  <1>6. ASSUME NEW i \in 1 .. Len(E)
        PROVE  /\ E[i][1].n \in Nat /\ E[i][1].n <= Len(S) /\ (p # <<>> => E[i][1].n < p[1].n) /\ E[i][1].n < b.n
               /\ T # <<>> => E[i][1].n < T[1].n
               /\ E[i][1].n < ev[1].n
    <2>1. E[i][1].n <= Len(S) /\ (p # <<>> => E[i][1].n < p[1].n) /\ E[i][1].n < b.n
      BY Zenon DEF Ordered, b
    <2>2. E[i][1].n \in Nat
      BY NumbersAre, Zenon
    <2> QED  BY <1>1, <1>2, <1>4, <2>1, <2>2
  <1>7. \A i, j \in 1 .. Len(E) : i < j => E[i][1].n < E[j][1].n
    BY Zenon DEF Ordered
  <1>8. p # <<>> => p[1].n <= Len(S) /\ p[1].n <= b.n /\ (T # <<>> => p[1].n <= T[1].n)
    <2>1. p # <<>> => p[1].n <= Len(S) /\ p[1].n <= b.n
      BY Zenon DEF Ordered, b
    <2> QED  BY <1>1, <1>4, <2>1
  <1>9. Ordered(S, E, p, T) /\ Ordered(S, E, <<>>, T)
    BY <1>3, <1>6, <1>7, <1>8, Zenon DEF Ordered
  <1>10. Ordered(S, E, <<b>>, T)
    BY <1>1, <1>3, <1>6, <1>7, Zenon DEF Ordered
  <1>11. ASSUME b.val # E0 PROVE Ordered(S, F, <<>>, T)
    <2>1. ev[1].n <= Len(S) /\ (T # <<>> => ev[1].n < T[1].n)
      BY <1>1, <1>2, <1>4, <1>8, <1>11
    <2>2. \A i \in 1 .. Len(F) : (i \in 1 .. Len(E) /\ F[i] = E[i]) \/ (i = Len(E) + 1 /\ F[i] = ev)
      BY <1>5
    <2>3. \A i \in 1 .. Len(F) : F[i][1].n <= Len(S) /\ (T # <<>> => F[i][1].n < T[1].n)
      BY <1>6, <2>1, <2>2, Zenon
    <2>4. ASSUME NEW i \in 1 .. Len(F), NEW j \in 1 .. Len(F), i < j PROVE F[i][1].n < F[j][1].n
      <3>1. i \in 1 .. Len(E) /\ F[i] = E[i]
        BY <1>5, <2>2, <2>4
      <3> QED  BY <1>6, <1>7, <2>2, <2>4, <3>1, Zenon
    <2> QED  BY <1>3, <2>3, <2>4, Zenon DEF Ordered
  <1> QED  BY <1>9, <1>10, <1>11 DEF b, T, ev, F


LEMMA SameBytes ==
  ASSUME NEW u \in Seq(Bytes), NEW v \in Seq(Bytes), Len(u) = Len(v), \A i \in 1 .. Len(u) : u[i] = v[i]
  PROVE  u = v
  BY SeqEqual

LEMMA AllSend ==
  ASSUME NEW S \in Seq(Event), NEW C \in Seq(Bytes), NEW E \in Seq(Event), NEW p, NEW st \in Event, AllThere(S, E, p, C)
  PROVE  AllThere(Append(S, st), E, p, C \o st)
  <1> DEFINE D == C \o st
             R == Append(S, st)
             m == Len(E)
             n == Len(S)
  <1>1. /\ R \in Seq(Event) /\ Len(R) = n + 1 /\ n \in Nat
        /\ R[n + 1] = st /\ \A i \in 1 .. n : R[i] = S[i]
    BY LongerEvents, Zenon
  <1>2. st \in Seq(Bytes) /\ st # <<>>
    BY DEF Event
  <1>3. D # <<>> /\ (IF C = <<>> THEN D[1] = st[1] ELSE D[1] = C[1]) /\ m \in Nat
    BY <1>2
  <1> HIDE DEF D, R, m, n
  <1>4. m <= n /\ \A i \in 1 .. m : E[i] = S[i]
    BY Zenon DEF AllThere, m, n
  <1>5. m <= Len(R) /\ ~(m = Len(R)) /\ \A i \in 1 .. m : E[i] = R[i]
    <2>1. m <= Len(R) /\ ~(m = Len(R)) /\ \A i \in 1 .. m : i \in 1 .. n
      BY <1>1, <1>3, <1>4
    <2> QED  BY <1>1, <1>4, <2>1, Zenon
  <1>6. CASE m = n
    <2>1. p = <<>> /\ C = <<>>
      BY <1>6, Zenon DEF AllThere, m, n
    <2> QED  BY <1>1, <1>3, <1>5, <1>6, <2>1, Zenon DEF AllThere, m, n, R, D
  <1>7. CASE m # n
    <2>1. m < n /\ m + 1 \in 1 .. n
      BY <1>1, <1>3, <1>4, <1>7
    <2>2. R[m + 1] = S[m + 1]
      BY <1>1, <2>1, Zenon
    <2>3. /\ C # <<>>
          /\ \/ p = <<>> /\ C[1] = S[m + 1][1]
             \/ Len(S[m + 1]) = 2 /\ p = <<S[m + 1][1]>> /\ C[1] = S[m + 1][2]
      BY <2>1, Zenon DEF AllThere, m, n
    <2>4. D # <<>> /\ ((p = <<>> /\ D[1] = R[m + 1][1]) \/ (Len(R[m + 1]) = 2 /\ p = <<R[m + 1][1]>> /\ D[1] = R[m + 1][2]))
      BY <1>3, <2>2, <2>3, Zenon
    <2>5. AllThere(R, E, p, D)
      BY <1>5, <2>4, Zenon DEF AllThere, m
    <2> QED  BY <2>5 DEF R, D
  <1> QED  BY <1>6, <1>7

LEMMA AllTake ==
  ASSUME NEW S \in Seq(Event), StrokesOk(S), NEW C \in Seq(Bytes), C # <<>>, Chain(S, C),
         NEW E \in Seq(Event), NEW p \in Seq(Bytes), AllThere(S, E, p, C)
  PROVE  /\ C[1].val = E0 => AllThere(S, E, <<C[1]>>, Tail(C))
         /\ C[1].val # E0 => AllThere(S, Append(E, p \o <<C[1]>>), <<>>, Tail(C))
  <1> DEFINE T == Tail(C)
             b == C[1]
             ev == p \o <<b>>
             F == Append(E, ev)
             m == Len(E)
             s == S[Len(E) + 1]
  <1>0. /\ b \in Bytes /\ IsPart(S, b) /\ T \in Seq(Bytes)
        /\ T = <<>> => Ends(S, b)
        /\ T # <<>> => Follows(S, b, T[1])
    BY ChainTail
  <1>1. ev \in Event /\ ev \in Seq(Bytes)
    <2>1. ev \in Event
      BY <1>0, EventsAre, Zenon
    <2> QED  BY <2>1, Zenon DEF Event
  <1>2. /\ F \in Seq(Event) /\ Len(F) = m + 1 /\ m \in Nat
        /\ F[m + 1] = ev /\ \A i \in 1 .. m : F[i] = E[i]
    BY <1>1, LongerEvents, Zenon
  <1>10. /\ p = <<>> => Len(ev) = 1 /\ ev[1] = b
         /\ \A a \in Bytes : p = <<a>> => Len(ev) = 2 /\ ev[1] = a /\ ev[2] = b
    <2>1. p = <<>> => Len(ev) = 1 /\ ev[1] = b
      BY <1>0
    <2>2. ASSUME NEW a \in Bytes, p = <<a>> PROVE Len(ev) = 2 /\ ev[1] = a /\ ev[2] = b
      BY <1>0, <2>2
    <2> QED  BY <2>1, <2>2
  <1> HIDE DEF T, b, ev, F, m, s
  <1>3. m < Len(S) /\ m + 1 \in 1 .. Len(S) /\ Len(S) \in Nat
    <2>1. m <= Len(S) /\ ~(m = Len(S))
      BY Zenon DEF AllThere, m
    <2> QED  BY <1>2, <2>1
  <1>4. (p = <<>> /\ b = s[1]) \/ (Len(s) = 2 /\ p = <<s[1]>> /\ b = s[2])
    BY <1>3, Zenon DEF AllThere, m, b, s
  <1>5. /\ s \in Event /\ s[1] \in Bytes /\ s[1].n = m + 1
        /\ \/ Len(s) = 1 /\ s[1].val # E0
           \/ Len(s) = 2 /\ s[1].val = E0 /\ s[2].val # E0 /\ s[2].n = m + 1 /\ s[2] \in Bytes
    BY <1>3, StrokesAre, Zenon DEF s, m
  <1>6. b.n = m + 1 /\ s = S[b.n] /\ \A i \in 1 .. m : E[i] = S[i]
    <2>1. b.n = m + 1
      BY <1>4, <1>5, Zenon
    <2> QED  BY <2>1, Zenon DEF AllThere, m, s
  <1>7. ASSUME b.val = E0 PROVE AllThere(S, E, <<b>>, T)
    <2>1. Len(s) = 2 /\ b = s[1]
      BY <1>4, <1>5, <1>7, Zenon
    <2>2. T # <<>> /\ T[1] = s[2]
      BY <1>0, <1>6, <1>7, Zenon DEF Ends, Follows
    <2>3. m <= Len(S) /\ ~(m = Len(S))
      BY <1>2, <1>3
    <2> QED  BY <1>6, <2>1, <2>2, <2>3, Zenon DEF AllThere, m, s
  <1>8. ASSUME b.val # E0 PROVE AllThere(S, F, <<>>, T)
    <2>1. ev = s
      <3>1. s \in Seq(Bytes)
        BY <1>5, Zenon DEF Event
      <3>2. CASE p = <<>> /\ b = s[1]
        <4>1. Len(s) = 1
          BY <1>5, <1>8, <3>2, Zenon
        <4>2. Len(ev) = 1 /\ \A i \in 1 .. 1 : i = 1
          BY <1>10, <3>2
        <4>3. \A i \in 1 .. Len(ev) : ev[i] = s[i]
          BY <1>10, <3>2, <4>2, Zenon
        <4> QED  BY <1>1, <1>10, <3>1, <3>2, <4>1, <4>3, SameBytes
      <3>3. CASE Len(s) = 2 /\ p = <<s[1]>> /\ b = s[2]
        <4>1. Len(ev) = 2 /\ ev[1] = s[1] /\ ev[2] = s[2]
          BY <1>5, <1>10, <3>3, Zenon
        <4>2. \A i \in 1 .. Len(ev) : i = 1 \/ i = 2
          BY <4>1
        <4>3. \A i \in 1 .. Len(ev) : ev[i] = s[i]
          BY <4>1, <4>2, Zenon
        <4> QED  BY <1>1, <3>1, <3>3, <4>1, <4>3, SameBytes
      <3> QED  BY <1>4, <3>2, <3>3, Zenon
    <2>2. Len(F) <= Len(S) /\ \A i \in 1 .. Len(F) : F[i] = S[i]
      <3>1. Len(F) <= Len(S) /\ \A i \in 1 .. Len(F) : i \in 1 .. m \/ i = m + 1
        BY <1>2, <1>3
      <3> QED  BY <1>2, <1>6, <2>1, <3>1, Zenon DEF s, m
    <2>3. Len(F) = Len(S) => T = <<>>
      <3>1. Len(F) = Len(S) => b.n + 1 \notin 1 .. Len(S)
        BY <1>2, <1>3, <1>6
      <3> QED  BY <1>0, <1>8, <3>1, Zenon DEF Follows
    <2>4. Len(F) < Len(S) => T # <<>> /\ T[1] = S[Len(F) + 1][1]
      <3>1. Len(F) < Len(S) => Len(F) = b.n /\ b.n # Len(S)
        BY <1>2, <1>3, <1>6
      <3> QED  BY <1>0, <1>8, <3>1, Zenon DEF Ends, Follows
    <2> QED  BY <2>2, <2>3, <2>4, Zenon DEF AllThere
  <1> QED  BY <1>7, <1>8 DEF b, T, ev, F


-----------------------------------------------------------------------------
(* The order of the events.                                                *)

\* A byte or an event of the keyboard is lost, or the processor stopped.
Lossy == "kbd" \in lost \/ cpu.pc = "undefined"

\* The slot kbd_pop_event has read is still the oldest, and still holds what it read.
AtAdvance == cpu.pc = "advance" => kbd.head # kbd.tail /\ cpu.ev = kbd.ring[kbd.tail]

InOrderOfStrokes ==
  /\ Chain(sent, KeysComing) /\ Ordered(sent, Events, kbd.e0, KeysComing)
  /\ ~Lossy => AllThere(sent, Events, kbd.e0, KeysComing)

LEMMA LossStays ==
  ASSUME InputTypes, Quiet, Untouched, Short, [Next]_vars, ~polled', Lossy
  PROVE  Lossy'
  <1>0. cpu \in CpuState
    BY Zenon DEF InputTypes
  <1> DEFINE Grows == \/ lost' = lost \/ lost' = lost \cup {"kbd"} \/ lost' = lost \cup {"mouse"}
                      \/ lost' = lost \cup {ctl.byte.src}
  <1>1. Grows
    <2>1. ASSUME NEW k \in KeyNames, NEW up \in BOOLEAN, Send(k, up) PROVE Grows
      BY <2>1, Zenon DEF Send
    <2>2. ASSUME NEW head \in {8, 72}, Move(head) PROVE Grows
      BY <2>2, Zenon DEF Move, ghosts
    <2>3. Load \/ PopLook \/ PopAdvance \/ Still \/ KbdPrefix => Grows
      BY Zenon DEF Load, PopLook, PopAdvance, Still, KbdPrefix, ghosts
    <2>8. Update => Grows
      BY UpdateDoes, Zenon
    <2>4. KbdKey => Grows
      BY Zenon DEF KbdKey, Losing
    <2>5. KbdForeign => Grows
      BY Zenon DEF KbdForeign, Losing
    <2>6. MouseByte => Grows
      BY Zenon DEF MouseByte, Losing
    <2>7. StartUp => Grows
      BY Zenon DEF StartUp, InitDrain, InitDrained, InitAsk, InitAnswer, InitFlush, InitDone, ghosts
    <2> HIDE DEF Grows
    <2> QED  BY <2>1, <2>2, <2>3, <2>4, <2>5, <2>6, <2>7, <2>8, QuietSteps, Zenon
  <1>2. ASSUME cpu.pc = "undefined" PROVE cpu'.pc = "undefined"
    <2>0. /\ cpu.pc \in StartUpLabels /\ StartingUp /\ isr = "none"
          /\ cpu.pc \notin Loop /\ cpu.pc \notin {"drain", "ask", "answer", "flush", "pop", "advance"}
          /\ cpu.pc \notin Reading \cup {"update"}
      BY <1>2 DEF Reading, StartUpLabels, StartingUp, Loop, Untouched
    <2>1. ASSUME NEW k \in KeyNames, NEW up \in BOOLEAN, Send(k, up) PROVE cpu' = cpu
      BY <2>1, Zenon DEF Send
    <2>2. ASSUME NEW head \in {8, 72}, Move(head) PROVE cpu' = cpu
      BY <2>2, Zenon DEF Move
    <2>3. Load => cpu' = cpu
      BY Zenon DEF Load
    <2>4. ~KbdPrefix /\ ~KbdKey /\ ~KbdForeign
      BY <2>0, Zenon DEF KbdPrefix, KbdKey, KbdForeign, Taken
    <2>5. ~MouseByte
      <3>1. "none" # "mouse"
        OBVIOUS
      <3> QED  BY <2>0, <3>1, Zenon DEF MouseByte
    <2>6. ~StartUp /\ ~PopLook /\ ~PopAdvance
      <3>1. /\ cpu.pc # "drain" /\ cpu.pc # "ask" /\ cpu.pc # "answer" /\ cpu.pc # "flush" /\ cpu.pc # "pop"
            /\ cpu.pc # "advance"
        BY <2>0
      <3> QED  BY <3>1, Zenon DEF StartUp, InitDrain, InitDrained, InitAsk, InitAnswer, InitFlush, InitDone, PopLook,
                                  PopAdvance, At
    <2>9. ~Update
      BY <2>0, UpdateDoes, Zenon
    <2>7. Still => cpu' = cpu
      BY <2>0, Zenon DEF Still, CpuMoved
    <2>8. cpu' = cpu
      BY <2>1, <2>2, <2>3, <2>4, <2>5, <2>6, <2>7, <2>9, QuietSteps, Zenon
    <2> QED  BY <1>2, <2>8
  <1> QED  BY <1>1, <1>2 DEF Lossy

LEMMA AdvanceStep ==
  ASSUME InputTypes, Quiet, Untouched, Short, AtAdvance, [Next]_vars, ~polled'
  PROVE  AtAdvance'
  <1>0. cpu \in CpuState /\ kbd \in KbdState
    BY Zenon DEF InputTypes
  <1>1. CASE kbd' = kbd /\ (cpu' = cpu \/ cpu'.pc # "advance")
    BY <1>1, Zenon DEF AtAdvance
  <1>2. CASE cpu'.pc # "advance"
    BY <1>2, Zenon DEF AtAdvance
  <1>3. ASSUME CpuMoved PROVE cpu' = cpu \/ cpu'.pc # "advance"
    BY <1>3 DEF CpuMoved, Loop
  <1>4. ASSUME NEW k \in KeyNames, NEW up \in BOOLEAN, Send(k, up) PROVE AtAdvance'
    BY <1>1, <1>4, Zenon DEF Send
  <1>5. ASSUME NEW head \in {8, 72}, Move(head) PROVE AtAdvance'
    BY <1>1, <1>5, Zenon DEF Move
  <1>6. CASE Load
    BY <1>1, <1>6, Zenon DEF Load
  <1>7. CASE KbdPrefix
    <2>1. CpuMoved /\ kbd'.tail = kbd.tail /\ kbd'.head = kbd.head /\ kbd'.ring = kbd.ring
      BY <1>7, KbdPrefixDoes
    <2> QED  BY <1>2, <1>3, <2>1, Zenon DEF AtAdvance
  <1>8. CASE KbdKey
    <2>1. CpuMoved /\ kbd'.tail = kbd.tail
      BY <1>8, KbdKeyDoes
    <2>2. \/ kbd'.ring = kbd.ring /\ kbd'.head = kbd.head
          \/ /\ NextSlot(kbd.head) # kbd.tail /\ kbd'.ring = [kbd.ring EXCEPT ![kbd.head] = kbd.e0 \o <<ctl.byte>>]
             /\ kbd'.head = NextSlot(kbd.head)
      BY <1>8, KbdKeyDoes
    <2>3. kbd.tail \in RingSlots /\ DOMAIN kbd.ring = RingSlots
      BY <1>0, RingAt, Zenon
    <2>4. kbd.head # kbd.tail => kbd'.head # kbd'.tail /\ kbd'.ring[kbd'.tail] = kbd.ring[kbd.tail]
      BY <2>1, <2>2, <2>3, Zenon
    <2> QED  BY <1>2, <1>3, <2>1, <2>4, Zenon DEF AtAdvance
  <1>9. CASE KbdForeign
    BY <1>1, <1>3, <1>9, KbdForeignDoes, Zenon
  <1>10. CASE MouseByte
    BY <1>1, <1>10, MouseByteDoes, Zenon
  <1>11. CASE StartUp
    <2>1. cpu'.pc \in {"drain", "ask", "answer", "flush", "undefined", "pop"}
      BY <1>0, <1>11, PcNext, Zenon DEF StartUp
    <2>2. cpu'.pc # "advance"
      BY <2>1
    <2> QED  BY <1>2, <2>2
  <1>12. CASE PopLook
    <2>1. kbd' = kbd /\ kbd.head # kbd.tail /\ cpu' = [cpu EXCEPT !.pc = "advance", !.ev = kbd.ring[kbd.tail]]
      BY <1>12, Zenon DEF PopLook
    <2>2. cpu'.ev = kbd.ring[kbd.tail]
      BY <1>0, <2>1, Zenon DEF CpuState
    <2> QED  BY <2>1, <2>2, Zenon DEF AtAdvance
  <1>13. CASE PopAdvance
    <2>1. cpu'.pc \in {"pop", "run"}
      BY <1>0, <1>13, PcNext, Zenon
    <2>2. cpu'.pc # "advance"
      BY <2>1
    <2> QED  BY <1>2, <2>2
  <1>15. CASE Update
    <2>1. cpu'.pc \in Reading \cup {"run"}
      BY <1>15, UpdateDoes, Zenon
    <2>2. cpu'.pc # "advance"
      BY <2>1 DEF Reading
    <2> QED  BY <1>2, <2>2
  <1>14. CASE Still
    BY <1>1, <1>3, <1>14, Zenon DEF Still
  <1> QED
    BY <1>4, <1>5, <1>6, <1>7, <1>8, <1>9, <1>10, <1>11, <1>12, <1>13, <1>14, <1>15, QuietSteps,
       Zenon


\* What a step does to the strokes sent, the bytes to come, the prefix and the events.
KeysKept == sent' = sent /\ KeysComing' = KeysComing /\ kbd'.e0 = kbd.e0 /\ Events' = Events
KeySent ==
  /\ \E st \in Event : StrokeOk(st, Len(sent) + 1) /\ sent' = Append(sent, st) /\ KeysComing' = KeysComing \o st
  /\ kbd'.e0 = kbd.e0 /\ Events' = Events
KeyTaken == sent' = sent /\ KeysComing # <<>> /\ KeysComing' = Tail(KeysComing)
KeyDropped == KeyTaken /\ kbd'.e0 = kbd.e0 /\ Events' = Events /\ Lossy'
PrefixRead == KeyTaken /\ KeysComing[1].val = E0 /\ kbd'.e0 = <<KeysComing[1]>> /\ Events' = Events
KeyRead ==
  /\ KeyTaken /\ KeysComing[1].val # E0 /\ kbd'.e0 = <<>>
  /\ \/ Events' = Append(Events, kbd.e0 \o <<KeysComing[1]>>)
     \/ Events' = Events /\ Lossy'

LEMMA EventsKept ==
  ASSUME got' = got, kbd'.head = kbd.head, kbd'.tail = kbd.tail, kbd'.ring = kbd.ring
  PROVE  Events' = Events
  BY TheEvents, Zenon DEF EventsIn, QueuedIn

LEMMA SendKeys ==
  ASSUME InputTypes, NEW k \in KeyNames, NEW up \in BOOLEAN, Send(k, up)
  PROVE  KeySent
  <1>1. sent \in Seq(Event)
    BY Zenon DEF InputTypes
  <1>2. Len(sent) + 1 \in Nat
    BY <1>1
  <1> DEFINE n == Len(sent) + 1
  <1> HIDE DEF n
  <1>3. PICK st : st = Stroke(k, up, n)
    OBVIOUS
  <1>4. st \in Event /\ StrokeOk(st, n)
    <2>1. PICK b \in Bytes : b.n = n /\ b.val # E0 /\ Stroke(k, up, n) \in {<<b>>, <<Byte("kbd", E0, n), b>>}
      BY <1>2, StrokeIs, Zenon DEF n
    <2> DEFINE a == Byte("kbd", E0, n)
    <2>2. a.n = n /\ a.val = E0
      BY Zenon DEF Byte
    <2>3. st = <<b>> \/ st = <<a, b>>
      BY <1>3, <2>1
    <2> HIDE DEF a
    <2>4. StrokeOk(st, n)
      <3>1. CASE st = <<b>>
        <4>1. Len(st) = 1 /\ st[1] = b
          BY <3>1
        <4> QED  BY <2>1, <4>1, Zenon DEF StrokeOk
      <3>2. CASE st = <<a, b>>
        <4>1. Len(st) = 2 /\ st[1] = a /\ st[2] = b
          BY <3>2
        <4> QED  BY <2>1, <2>2, <4>1, Zenon DEF StrokeOk
      <3> QED  BY <2>3, <3>1, <3>2
    <2> QED  BY <1>2, <1>3, <2>4, StrokeIs, Zenon DEF n
  <1>5. sent' = Append(sent, st) /\ wire'.keys = wire.keys \o st
    BY <1>3, WireGains, Zenon DEF Send, n
  <1>6. ctl' = ctl /\ kbd' = kbd /\ got' = got
    BY Zenon DEF Send
  <1>7. KeysComing' = KeysComing \o st
    <2>1. st \in Seq(Bytes)
      BY <1>4, Zenon DEF Event
    <2> QED  BY <1>5, <1>6, <2>1, GainsCome
  <1>8. Events' = Events
    BY <1>6, EventsKept, Zenon
  <1> QED  BY <1>4, <1>5, <1>6, <1>7, <1>8, Zenon DEF KeySent, n


LEMMA KbdKeys ==
  ASSUME InputTypes, InputTypes', StartOk, KbdPrefix \/ KbdKey \/ KbdForeign
  PROVE  KeysKept \/ PrefixRead \/ KeyRead
  <1>0. kbd \in KbdState /\ kbd' \in KbdState /\ got \in Seq(Popping)
    BY Zenon DEF InputTypes
  <1>1. KbdPrefix \/ KbdKey => /\ DataRead /\ wire' = wire /\ sent' = sent /\ ctl.full /\ ctl.byte.src = "kbd"
    <2>1. KbdPrefix \/ KbdKey => DataRead /\ wire' = wire /\ sent' = sent /\ ctl.full /\ ~Aux /\ ~StartingUp
      BY KbdPrefixDoes, KbdKeyDoes, Zenon
    <2>2. ctl.full /\ ~Aux /\ ~StartingUp => ctl.byte.src = "kbd"
      <3>1. ctl.full /\ ~StartingUp => ctl.byte.src \in {"kbd", "mouse"}
        BY HandlerByte, Zenon DEF StartingUp, StartUpLabels
      <3> QED  BY <3>1, Zenon DEF Aux
    <2> QED  BY <2>1, <2>2, Zenon
  <1>2. KbdPrefix \/ KbdKey => KeyTaken /\ KeysComing[1] = ctl.byte
    <2>1. KbdPrefix \/ KbdKey => KeysComing # <<>> /\ Head(KeysComing) = ctl.byte /\ KeysComing' = Tail(KeysComing)
      BY <1>1, ReadTakes, Zenon
    <2>2. KeysComing # <<>> => Head(KeysComing) = KeysComing[1]
      BY ComingTyped, TailIs, Zenon
    <2> QED  BY <1>1, <2>1, <2>2, Zenon DEF KeyTaken
  <1>3. CASE KbdPrefix
    <2>1. /\ kbd'.e0 = <<ctl.byte>> /\ ctl.byte.val = E0 /\ got' = got
          /\ kbd'.tail = kbd.tail /\ kbd'.ring = kbd.ring /\ kbd'.head = kbd.head
      BY <1>3, KbdPrefixDoes
    <2>2. Events' = Events
      BY <2>1, EventsKept
    <2> QED  BY <1>2, <1>3, <2>1, <2>2, Zenon DEF PrefixRead
  <1>4. CASE KbdKey
    <2>1. /\ kbd'.e0 = <<>> /\ ctl.byte.val # E0 /\ got' = got /\ kbd'.tail = kbd.tail
          /\ kbd.e0 \o <<ctl.byte>> \in Event
          /\ \/ /\ NextSlot(kbd.head) = kbd.tail /\ lost' = lost \cup {"kbd"}
                /\ kbd'.ring = kbd.ring /\ kbd'.head = kbd.head
             \/ /\ NextSlot(kbd.head) # kbd.tail
                /\ kbd'.ring = [kbd.ring EXCEPT ![kbd.head] = kbd.e0 \o <<ctl.byte>>]
                /\ kbd'.head = NextSlot(kbd.head)
      BY <1>4, KbdKeyDoes
    <2>2. CASE lost' = lost \cup {"kbd"} /\ kbd'.ring = kbd.ring /\ kbd'.head = kbd.head
      <3>1. Events' = Events
        BY <2>1, <2>2, EventsKept, Zenon
      <3>2. Lossy'
        <4>1. "kbd" \in lost \cup {"kbd"}
          OBVIOUS
        <4> QED  BY <2>2, <4>1, Zenon DEF Lossy
      <3> QED  BY <1>2, <1>4, <2>1, <3>1, <3>2, Zenon DEF KeyRead
    <2>3. CASE /\ NextSlot(kbd.head) # kbd.tail
               /\ kbd'.ring = [kbd.ring EXCEPT ![kbd.head] = kbd.e0 \o <<ctl.byte>>]
               /\ kbd'.head = NextSlot(kbd.head)
      <3> DEFINE ev == kbd.e0 \o <<ctl.byte>>
      <3>0. ev \in Event /\ kbd'.tail = kbd.tail /\ kbd'.ring = [kbd.ring EXCEPT ![kbd.head] = ev]
        BY <2>1, <2>3, Zenon
      <3> HIDE DEF ev
      <3>1. EventsIn(got, kbd') = Append(EventsIn(got, kbd), ev)
        <4>1. /\ kbd \in KbdState /\ kbd' \in KbdState /\ got \in Seq(Popping) /\ ev \in Event
              /\ NextSlot(kbd.head) # kbd.tail /\ kbd'.tail = kbd.tail /\ kbd'.head = NextSlot(kbd.head)
              /\ kbd'.ring = [kbd.ring EXCEPT ![kbd.head] = ev]
          BY <1>0, <2>3, <3>0, Zenon
        <4>2. ASSUME NEW l \in KbdState, l.tail = kbd.tail, l.head = NextSlot(kbd.head),
                     l.ring = [kbd.ring EXCEPT ![kbd.head] = ev]
              PROVE  EventsIn(got, l) = Append(EventsIn(got, kbd), ev)
          BY <4>1, <4>2, EventsPush
        <4> QED  BY <4>1, <4>2, Zenon
      <3>2. Events' = Append(Events, kbd.e0 \o <<ctl.byte>>)
        BY <2>1, <3>1, TheEvents, Zenon DEF ev
      <3> QED  BY <1>2, <1>4, <2>1, <3>2, Zenon DEF KeyRead
    <2> QED  BY <2>1, <2>2, <2>3, Zenon
  <1>5. CASE KbdForeign
    <2>1. DataRead /\ wire' = wire /\ kbd' = kbd /\ sent' = sent /\ got' = got /\ (ctl.full => Aux)
      BY <1>5, KbdForeignDoes
    <2>2. KeysComing' = KeysComing
      <3>1. "mouse" # "kbd"
        OBVIOUS
      <3> QED  BY <2>1, <3>1, ReadTakes, Zenon DEF Aux
    <2>3. Events' = Events
      BY <2>1, EventsKept, Zenon
    <2> QED  BY <2>1, <2>2, <2>3, Zenon DEF KeysKept
  <1> QED  BY <1>3, <1>4, <1>5

\* Reading the port and keeping nothing: a byte of the keyboard is dropped.
LEMMA ReadAway ==
  ASSUME InputTypes, DataRead, UNCHANGED <<wire, kbd, sent, got>>, ctl.full /\ ctl.byte.src = "kbd" => Lossy'
  PROVE  KeysKept \/ KeyDropped
  <1>1. Events' = Events
    BY EventsKept, Zenon
  <1>2. CASE ctl.full /\ ctl.byte.src = "kbd"
    <2>1. KeysComing # <<>> /\ KeysComing' = Tail(KeysComing)
      BY <1>2, ReadTakes
    <2> QED  BY <1>1, <1>2, <2>1, Zenon DEF KeyDropped, KeyTaken
  <1>3. CASE ~(ctl.full /\ ctl.byte.src = "kbd")
    <2>1. KeysComing' = KeysComing
      BY <1>3, ReadTakes, Zenon
    <2> QED  BY <1>1, <2>1, Zenon DEF KeysKept
  <1> QED  BY <1>2, <1>3

LEMMA ByteKeys ==
  ASSUME InputTypes, StartOk, Untouched, Short, MouseByte
  PROVE  KeysKept \/ KeyDropped
  <1>1. DataRead /\ UNCHANGED <<wire, kbd, sent, got>> /\ ctl.full /\ isr = "mouse" /\ (~Aux => lost' = lost \cup {"kbd"})
    BY MouseByteDoes, Zenon
  <1>2. ctl.byte.src = "kbd" => Lossy'
    <2>1. ctl.byte.src = "kbd" => ~Aux
      BY DEF Aux
    <2> QED  BY <1>1, <2>1 DEF Lossy
  <1> QED  BY <1>1, <1>2, ReadAway

LEMMA StartKeys ==
  ASSUME InputTypes, StartUp
  PROVE  KeysKept \/ KeyDropped
  <1>0. kbd' = kbd /\ got' = got /\ cpu \in CpuState
    BY StartUpDoes, Zenon DEF InputTypes
  <1>1. sent' = sent
    BY Zenon DEF StartUp, InitDrain, InitDrained, InitAsk, InitAnswer, InitFlush, InitDone, ghosts
  <1>2. CASE InitDrain \/ InitFlush
    <2>1. DataRead /\ wire' = wire /\ lost' = lost \cup {ctl.byte.src}
      BY <1>2, Zenon DEF InitDrain, InitFlush
    <2>2. ctl.byte.src = "kbd" => Lossy'
      BY <2>1 DEF Lossy
    <2> QED  BY <1>0, <1>1, <2>1, <2>2, ReadAway
  <1>3. CASE InitAnswer
    <2>1. DataRead /\ wire' = wire /\ (ctl.full /\ ctl.byte.src = "kbd" => cpu' = [cpu EXCEPT !.pc = "undefined"])
      BY <1>3, Zenon DEF InitAnswer
    <2>2. ctl.full /\ ctl.byte.src = "kbd" => Lossy'
      BY <1>0, <2>1, Zenon DEF Lossy, CpuState
    <2> QED  BY <1>0, <1>1, <2>1, <2>2, ReadAway
  <1>4. CASE InitAsk \/ InitDrained \/ InitDone
    <2>1. ctl' = ctl /\ wire'.keys = wire.keys
      <3>1. InitDrained \/ InitDone => ctl' = ctl /\ wire' = wire
        BY Zenon DEF InitDrained, InitDone
      <3>2. InitAsk => ctl' = ctl
        BY Zenon DEF InitAsk
      <3> QED  BY <1>4, <3>1, <3>2, WireGains, Zenon
    <2>2. KeysComing' = KeysComing /\ Events' = Events
      BY <1>0, <2>1, GainsCome, EventsKept, Zenon
    <2> QED  BY <1>0, <1>1, <2>2, Zenon DEF KeysKept
  <1> QED  BY <1>2, <1>3, <1>4, Zenon DEF StartUp

LEMMA PopKeys ==
  ASSUME InputTypes, InputTypes', AtAdvance, PopAdvance
  PROVE  KeysKept
  <1> DEFINE r == [ev |-> cpu.ev, returned |-> Returned(kbd, cpu.ev), table |-> Table(kbd)]
  <1>1. /\ cpu.pc = "advance" /\ UNCHANGED <<wire, ctl, sent>> /\ got' = Append(got, r)
        /\ kbd'.tail = NextSlot(kbd.tail) /\ kbd'.ring = kbd.ring /\ kbd'.head = kbd.head /\ kbd'.e0 = kbd.e0
    BY PopAdvanceDoes
  <1>2. kbd \in KbdState /\ kbd' \in KbdState /\ got \in Seq(Popping) /\ cpu.ev \in Event
    BY Zenon DEF InputTypes, CpuState
  <1>3. r \in Popping
    <2>1. Returned(kbd, cpu.ev) \in BOOLEAN
      BY Zenon DEF Returned
    <2>2. Table(kbd) \in {"altgr", "shift", "normal"}
      BY Zenon DEF Table
    <2> QED  BY <1>2, <2>1, <2>2, Zenon DEF Popping
  <1>4. r.ev = cpu.ev
    BY Zenon
  <1> HIDE DEF r
  <1>5. kbd.head # kbd.tail /\ r.ev = kbd.ring[kbd.tail]
    BY <1>1, <1>4, Zenon DEF AtAdvance
  <1>6. EventsIn(Append(got, r), kbd') = EventsIn(got, kbd)
    BY <1>1, <1>2, <1>3, <1>5, EventsPop
  <1>7. Events' = Events
    BY <1>1, <1>6, TheEvents, Zenon
  <1>8. KeysComing' = KeysComing
    BY <1>1, Zenon DEF KeysComing
  <1> QED  BY <1>1, <1>7, <1>8, Zenon DEF KeysKept

LEMMA KeysStep ==
  ASSUME InputTypes, InputTypes', Devices, Quiet, StartOk, Untouched, Short, AtAdvance, [Next]_vars, ~polled'
  PROVE  KeysKept \/ KeySent \/ KeyDropped \/ PrefixRead \/ KeyRead
  <1>1. ASSUME ctl' = ctl, wire'.keys = wire.keys, UNCHANGED <<kbd, got, sent>> PROVE KeysKept
    <2>1. KeysComing' = KeysComing /\ Events' = Events
      BY <1>1, GainsCome, EventsKept, Zenon
    <2> QED  BY <1>1, <2>1, Zenon DEF KeysKept
  <1>2. ASSUME NEW k \in KeyNames, NEW up \in BOOLEAN, Send(k, up) PROVE KeySent
    BY <1>2, SendKeys
  <1>3. ASSUME NEW head \in {8, 72}, Move(head) PROVE KeysKept
    <2>1. wire'.keys = wire.keys
      BY <1>3, WireGains, Zenon
    <2>2. ctl' = ctl /\ UNCHANGED <<kbd, got, sent>>
      BY <1>3, Zenon DEF Move, ghosts
    <2> QED  BY <1>1, <2>1, <2>2
  <1>4. ASSUME Load PROVE KeysKept
    <2>1. KeysComing' = KeysComing
      BY <1>4, LoadKeeps
    <2>2. UNCHANGED <<kbd, got, sent>>
      BY <1>4, Zenon DEF Load, ghosts
    <2>3. Events' = Events
      BY <2>2, EventsKept, Zenon
    <2> QED  BY <2>1, <2>2, <2>3, Zenon DEF KeysKept
  <1>5. ASSUME PopLook \/ Update \/ Still PROVE KeysKept
    <2>1. UNCHANGED <<wire, ctl, kbd, got, sent>>
      BY <1>5, UpdateDoes, Zenon DEF PopLook, Still, ghosts
    <2> QED  BY <1>1, <2>1, Zenon
  <1>6. KbdPrefix \/ KbdKey \/ KbdForeign => KeysKept \/ PrefixRead \/ KeyRead
    BY KbdKeys
  <1>7. MouseByte \/ StartUp => KeysKept \/ KeyDropped
    BY ByteKeys, StartKeys
  <1>8. PopAdvance => KeysKept
    BY PopKeys
  <1> QED
    BY <1>2, <1>3, <1>4, <1>5, <1>6, <1>7, <1>8, QuietSteps, Zenon


LEMMA StrokesStep ==
  ASSUME InputTypes, StrokesOk(sent), [Next]_vars
  PROVE  StrokesOk(sent')
  <1>1. CASE sent' = sent
    BY <1>1
  <1>2. ASSUME NEW k \in KeyNames, NEW up \in BOOLEAN, Send(k, up) PROVE StrokesOk(sent')
    <2>1. PICK st \in Event : StrokeOk(st, Len(sent) + 1) /\ sent' = Append(sent, st)
      BY <1>2, SendKeys, Zenon DEF KeySent
    <2>2. /\ Len(sent') = Len(sent) + 1 /\ Len(sent) \in Nat
          /\ sent'[Len(sent) + 1] = st /\ \A i \in 1 .. Len(sent) : sent'[i] = sent[i]
      <3>1. sent \in Seq(Event)
        BY Zenon DEF InputTypes
      <3> QED  BY <2>1, <3>1, LongerEvents, Zenon
    <2>3. \A i \in 1 .. Len(sent') : i \in 1 .. Len(sent) \/ i = Len(sent) + 1
      BY <2>2
    <2> QED  BY <2>1, <2>2, <2>3, Zenon DEF StrokesOk
  <1> QED  BY <1>1, <1>2, SentChanges, Zenon DEF vars

LEMMA OrderStep ==
  ASSUME InputTypes, StrokesOk(sent), InOrderOfStrokes, Lossy => Lossy',
         KeysKept \/ KeySent \/ KeyDropped \/ PrefixRead \/ KeyRead
  PROVE  InOrderOfStrokes'
  <1> DEFINE S == sent
             C == KeysComing
             p == kbd.e0
             E == Events
             Q(s, e, q, c) == Chain(s, c) /\ Ordered(s, e, q, c) /\ (~Lossy' => AllThere(s, e, q, c))
  <1>1. S \in Seq(Event) /\ C \in Seq(Bytes) /\ p \in Seq(Bytes) /\ E \in Seq(Event)
    <2>1. sent \in Seq(Event) /\ kbd.e0 \in Seq(Bytes)
      BY Zenon DEF InputTypes, KbdState
    <2> QED  BY <2>1, ComingTyped, EventsNow
  <1>2. Chain(S, C) /\ Ordered(S, E, p, C) /\ (~Lossy' => AllThere(S, E, p, C))
    BY Zenon DEF InOrderOfStrokes
  <1>3. Q(sent', Events', kbd'.e0, KeysComing') => InOrderOfStrokes'
    BY DEF InOrderOfStrokes
  <1>4. StrokesOk(S)
    OBVIOUS
  <1>5. CASE KeysKept
    <2>1. Q(S, E, p, C)
      BY <1>2
    <2> QED  BY <1>3, <1>5, <2>1, Zenon DEF KeysKept
  <1>6. CASE KeySent
    <2>1. PICK st \in Event : StrokeOk(st, Len(S) + 1) /\ sent' = Append(S, st) /\ KeysComing' = C \o st
      BY <1>6, Zenon DEF KeySent
    <2>2. Events' = E /\ kbd'.e0 = p
      BY <1>6, Zenon DEF KeySent
    <2> HIDE DEF S, C, p, E
    <2>3. Chain(Append(S, st), C \o st)
      BY <1>1, <1>2, <1>4, <2>1, ChainSend
    <2>4. Ordered(Append(S, st), E, p, C \o st)
      BY <1>1, <1>2, <2>1, OrderedSend
    <2>5. ~Lossy' => AllThere(Append(S, st), E, p, C \o st)
      BY <1>1, <1>2, AllSend
    <2> QED  BY <1>3, <2>1, <2>2, <2>3, <2>4, <2>5, Zenon
  <1>7. ASSUME KeyTaken
        PROVE  /\ sent' = S /\ C # <<>> /\ KeysComing' = Tail(C) /\ Chain(S, Tail(C)) /\ Ordered(S, E, p, Tail(C))
               /\ C[1].val = E0 => Ordered(S, E, <<C[1]>>, Tail(C))
               /\ C[1].val # E0 => /\ Ordered(S, E, <<>>, Tail(C))
                                   /\ Ordered(S, Append(E, p \o <<C[1]>>), <<>>, Tail(C))
               /\ ~Lossy' => /\ C[1].val = E0 => AllThere(S, E, <<C[1]>>, Tail(C))
                             /\ C[1].val # E0 => AllThere(S, Append(E, p \o <<C[1]>>), <<>>, Tail(C))
    <2>1. sent' = S /\ C # <<>> /\ KeysComing' = Tail(C)
      BY <1>7, Zenon DEF KeyTaken
    <2> HIDE DEF S, C, p, E
    <2>2. Chain(S, Tail(C))
      BY <1>1, <1>2, <2>1, ChainTail
    <2>3. /\ Ordered(S, E, p, Tail(C))
          /\ C[1].val = E0 => Ordered(S, E, <<C[1]>>, Tail(C))
          /\ C[1].val # E0 => /\ Ordered(S, E, <<>>, Tail(C))
                              /\ Ordered(S, Append(E, p \o <<C[1]>>), <<>>, Tail(C))
      BY <1>1, <1>2, <1>4, <2>1, OrderedTake
    <2>4. ~Lossy' => /\ C[1].val = E0 => AllThere(S, E, <<C[1]>>, Tail(C))
                     /\ C[1].val # E0 => AllThere(S, Append(E, p \o <<C[1]>>), <<>>, Tail(C))
      BY <1>1, <1>2, <1>4, <2>1, AllTake
    <2> QED  BY <2>1, <2>2, <2>3, <2>4
  <1>8. CASE KeyDropped
    <2>1. KeyTaken /\ kbd'.e0 = p /\ Events' = E /\ Lossy'
      BY <1>8, Zenon DEF KeyDropped
    <2> HIDE DEF S, C, p, E
    <2> QED  BY <1>3, <1>7, <2>1, Zenon
  <1>9. CASE PrefixRead
    <2>1. KeyTaken /\ C[1].val = E0 /\ kbd'.e0 = <<C[1]>> /\ Events' = E
      BY <1>9, Zenon DEF PrefixRead
    <2> HIDE DEF S, C, p, E
    <2> QED  BY <1>3, <1>7, <2>1, Zenon
  <1>10. CASE KeyRead
    <2>1. /\ KeyTaken /\ C[1].val # E0 /\ kbd'.e0 = <<>>
          /\ Events' = Append(E, p \o <<C[1]>>) \/ (Events' = E /\ Lossy')
      BY <1>10, Zenon DEF KeyRead
    <2> HIDE DEF S, C, p, E
    <2> QED  BY <1>3, <1>7, <2>1, Zenon
  <1> QED  BY <1>5, <1>6, <1>8, <1>9, <1>10

LEMMA OrderInit ==
  ASSUME Init
  PROVE  StrokesOk(sent) /\ AtAdvance /\ InOrderOfStrokes
  <1>1. /\ sent = <<>> /\ got = <<>> /\ kbd.head = 0 /\ kbd.tail = 0 /\ kbd.e0 = <<>> /\ cpu.pc = "drain"
        /\ ctl.full = FALSE /\ wire.keys = <<>>
    BY Zenon DEF Init
  <1>2. KeysComing = <<>>
    BY <1>1, Zenon DEF KeysComing
  <1>3. Len(Events) = 0
    <2>1. Len(Events) = Len(got) + Waiting(kbd)
      BY TypesInit, EventsNow
    <2>2. Waiting(kbd) = 0 /\ Len(got) = 0
      BY <1>1 DEF Waiting
    <2> QED  BY <2>1, <2>2
  <1>4. Len(<<>>) = 0 /\ \A i \in 1 .. 0 : FALSE
    OBVIOUS
  <1>5. 0 <= 0 /\ ~(0 < 0)
    OBVIOUS
  <1>6. StrokesOk(sent)
    BY <1>1, <1>4, Zenon DEF StrokesOk
  <1>7. AtAdvance
    BY <1>1 DEF AtAdvance
  <1>8. InOrderOfStrokes
    BY <1>1, <1>2, <1>3, <1>4, <1>5, Zenon DEF InOrderOfStrokes, Chain, Ordered, AllThere
  <1> QED  BY <1>6, <1>7, <1>8

\* What the theorem needs of a state.
KeysInv ==
  /\ MouseInv /\ Modified /\ StrokesOk(sent)
  /\ ~polled => AtAdvance /\ InOrderOfStrokes

LEMMA KeysInvStep ==
  ASSUME KeysInv, [Next]_vars
  PROVE  KeysInv'
  <1>1. InputTypes /\ Devices /\ Quiet /\ MouseInv /\ Modified /\ StrokesOk(sent)
    BY Zenon DEF KeysInv, MouseInv
  <1>2. MouseInv' /\ Modified' /\ StrokesOk(sent')
    BY <1>1, MouseInvStep, ModifiedStep, StrokesStep
  <1>3. ASSUME ~polled' PROVE AtAdvance' /\ InOrderOfStrokes'
    <2>1. ~polled
      BY <1>1, <1>3, QuietSteps
    <2>2. StartOk /\ Untouched /\ Short /\ AtAdvance /\ InOrderOfStrokes /\ InputTypes'
      BY <1>1, <1>2, <2>1, Zenon DEF KeysInv, MouseInv, CalmMouse
    <2>3. AtAdvance'
      BY <1>1, <1>3, <2>2, AdvanceStep
    <2>4. Lossy => Lossy'
      BY <1>1, <1>3, <2>2, LossStays
    <2>5. KeysKept \/ KeySent \/ KeyDropped \/ PrefixRead \/ KeyRead
      BY <1>1, <1>3, <2>2, KeysStep
    <2>6. InOrderOfStrokes'
      BY <1>1, <2>2, <2>4, <2>5, OrderStep
    <2> QED  BY <2>3, <2>6
  <1> QED  BY <1>2, <1>3 DEF KeysInv

LEMMA AllInOrder ==
  ASSUME InputTypes, Modified, StrokesOk(sent), Untouched, InOrderOfStrokes
  PROVE  KeysInOrder
  <1> DEFINE m == Len(Events)
  <1>0. sent \in Seq(Event) /\ Events \in Seq(Event) /\ Len(sent) \in Nat /\ m \in Nat
    <2>1. sent \in Seq(Event) /\ Events \in Seq(Event)
      BY EventsNow, Zenon DEF InputTypes
    <2> QED  BY <2>1
  <1> HIDE DEF m
  <1>1. \A i, j \in 1 .. m : i < j => Events[i][1].n < Events[j][1].n
    BY Zenon DEF InOrderOfStrokes, Ordered, m
  <1>2. ASSUME "kbd" \notin lost PROVE m <= Len(sent) /\ \A i \in 1 .. m : Events[i] = sent[i]
    <2>1. CASE cpu.pc = "undefined"
      <3>1. got = <<>> /\ kbd.head = kbd.tail
        BY <2>1 DEF Untouched, StartUpLabels
      <3>2. m = Len(got) + Waiting(kbd) /\ kbd \in KbdState
        BY EventsNow, Zenon DEF m, InputTypes
      <3>3. kbd.head \in Int
        BY <3>2, SlotsAre, RingAt DEF RingSlots
      <3>4. Waiting(kbd) = 0 /\ Len(got) = 0
        BY <3>1, <3>3 DEF Waiting
      <3>5. m = 0
        BY <3>2, <3>4
      <3> QED  BY <1>0, <3>5
    <2>2. CASE cpu.pc # "undefined"
      BY <1>2, <2>2, Zenon DEF InOrderOfStrokes, Lossy, AllThere, m
    <2> QED  BY <2>1, <2>2
  <1>3. ASSUME "kbd" \notin lost PROVE \A i \in 1 .. m : Events[i] = sent[Events[i][1].n]
    <2>1. \A i \in 1 .. m : i \in 1 .. Len(sent)
      BY <1>0, <1>2, <1>3
    <2>2. \A i \in 1 .. Len(sent) : sent[i][1].n = i
      BY <1>0, StrokesAre, Zenon
    <2> QED  BY <1>2, <1>3, <2>1, <2>2, Zenon
  <1>4. ASSUME "kbd" \notin lost PROVE IsPrefix(Events, sent)
    <2>1. m <= Len(sent) /\ \A i \in 1 .. m : Events[i] = sent[i]
      BY <1>2, <1>4
    <2>2. SubSeq(Events, 1, m) = SubSeq(sent, 1, m)
      <3>1. /\ SubSeq(Events, 1, m) \in Seq(Event) /\ Len(SubSeq(Events, 1, m)) = m
            /\ \A i \in 1 .. m : SubSeq(Events, 1, m)[i] = Events[i]
        BY <1>0 DEF m
      <3>2. /\ SubSeq(sent, 1, m) \in Seq(Event) /\ Len(SubSeq(sent, 1, m)) = m
            /\ \A i \in 1 .. m : SubSeq(sent, 1, m)[i] = sent[i]
        BY <1>0, <2>1
      <3> QED  BY <2>1, <3>1, <3>2, SameEvents, Zenon
    <2> QED  BY <2>1, <2>2, Zenon DEF IsPrefix, m
  <1>5. \A i \in 1 .. Len(got) :
          got[i].table = (IF Held(i, "AltGr") THEN "altgr" ELSE IF Held(i, "Shift") THEN "shift" ELSE "normal")
    BY HeldIs, Zenon DEF Modified
  <1> QED  BY <1>1, <1>3, <1>4, <1>5, Zenon DEF KeysInOrder, m

\* However handler and loop interleave at the ring, for any length of ring and input: the
\* events popped come in the order of the strokes, and unless a byte or an event of the
\* keyboard was dropped they are the strokes, each looked up with the modifiers then held.
THEOREM KeysInOrderCorrect == Spec => []KeysInOrder
  <1>1. Init => KeysInv
    BY TypesInit, MouseInit, ModifiedInit, OrderInit DEF KeysInv, MouseInv
  <1>2. KeysInv /\ [Next]_vars => KeysInv'
    BY KeysInvStep
  <1>3. KeysInv => KeysInOrder
    <2> SUFFICES ASSUME KeysInv PROVE KeysInOrder
      OBVIOUS
    <2>1. CASE polled
      BY <2>1, Zenon DEF KeysInOrder
    <2>2. CASE ~polled
      BY <2>2, AllInOrder, Zenon DEF KeysInv, MouseInv, CalmMouse
    <2> QED  BY <2>1, <2>2
  <1> QED  BY <1>1, <1>2, <1>3, PTL DEF Spec

-----------------------------------------------------------------------------
(***************************************************************************)
(* The screen: the module Console.                                         *)
(***************************************************************************)

-----------------------------------------------------------------------------
(* Printing.                                                               *)

Addresses == 0 .. Pitch * Rows - 1

ScrState(on) ==
  [back : [Cells -> Chars], lfb : [Addresses -> Chars],
   x : 0 .. Cols, y : 0 .. Rows - 1, on : on]

\* What holds of 0, and of k + 1 if it holds of k, holds up to n.
LEMMA UpTo ==
  ASSUME NEW n \in Nat, NEW S, 0 \in S, \A k \in 0 .. n - 1 : k \in S => k + 1 \in S
  PROVE  \A k \in 0 .. n : k \in S
  <1> DEFINE open == {k \in 0 .. n : k \notin S}
  <1>1. ASSUME open # {} PROVE FALSE
    <2>1. open \subseteq Nat
      OBVIOUS
    <2>2. PICK k \in open : \A j \in open : ~(<<j, k>> \in OpToRel(<, Nat))
      BY <1>1, <2>1, NatLessThanWellFounded, WFMin, Zenon
    <2>3. \A j \in open : ~(j < k)
      BY <2>1, <2>2, Zenon DEF OpToRel
    <2>4. k \in 0 .. n /\ k \notin S /\ k # 0
      OBVIOUS
    <2>5. k - 1 \in 0 .. n - 1 /\ k - 1 \in 0 .. n /\ k - 1 < k /\ (k - 1) + 1 = k
      BY <2>4
    <2>6. k - 1 \in S
      BY <2>3, <2>5
    <2> QED  BY <2>4, <2>5, <2>6
  <1> QED  BY <1>1

\* The screen after n characters, if f tells the screens before.
PrintedAt(f, t, text, n) == IF n = 0 THEN t ELSE Outc(f[n - 1], text[n])

LEMMA PrintingIsDefined ==
  ASSUME NEW t, NEW text \in Text
  PROVE  \E f : f = [n \in 0 .. Len(text) |-> PrintedAt(f, t, text, n)]
  <1> DEFINE Prints(f, k) == f = [n \in 0 .. k |-> PrintedAt(f, t, text, n)]
             S == {k \in Nat : \E f : Prints(f, k)}
  <1>0. Len(text) \in Nat
    BY DEF Text
  <1>1. 0 \in S
    <2> DEFINE f == [n \in 0 .. 0 |-> t]
    <2>1. \A n \in 0 .. 0 : PrintedAt(f, t, text, n) = t
      BY DEF PrintedAt
    <2>2. Prints(f, 0)
      BY <2>1
    <2> QED  BY <2>2
  <1>2. ASSUME NEW k \in Nat, k \in S PROVE k + 1 \in S
    <2>1. PICK f : Prints(f, k)
      BY <1>2
    <2> DEFINE g == [n \in 0 .. k + 1 |-> PrintedAt(f, t, text, n)]
    <2>2. \A n \in 0 .. k : g[n] = f[n]
      <3>1. ASSUME NEW n \in 0 .. k PROVE g[n] = f[n]
        <4>1. n \in 0 .. k + 1
          BY <1>2
        <4> QED  BY <2>1, <4>1, Zenon
      <3> QED  BY <3>1
    <2>3. ASSUME NEW n \in 0 .. k + 1
          PROVE  PrintedAt(f, t, text, n) = PrintedAt(g, t, text, n)
      <3>1. CASE n = 0
        BY <3>1 DEF PrintedAt
      <3>2. CASE n # 0
        <4>1. n - 1 \in 0 .. k
          BY <3>2
        <4>2. g[n - 1] = f[n - 1]
          BY <2>2, <4>1, Zenon
        <4> QED  BY <4>2, Zenon DEF PrintedAt
      <3> QED  BY <3>1, <3>2
    <2>4. Prints(g, k + 1)
      BY <2>3, Zenon
    <2> HIDE DEF g
    <2>5. k + 1 \in Nat
      BY <1>2
    <2> QED  BY <2>4, <2>5, Zenon
  <1> HIDE DEF S
  <1>3. \A k \in 0 .. Len(text) : k \in S
    <2>1. \A k \in 0 .. Len(text) - 1 : k \in S => k + 1 \in S
      BY <1>0, <1>2
    <2> QED  BY <1>0, <1>1, <2>1, UpTo
  <1>4. Len(text) \in S
    BY <1>0, <1>3
  <1> QED  BY <1>4, Zenon DEF S

\* What holds of t, and is kept from character to character, holds of what is printed.
LEMMA PrintkSteps ==
  ASSUME NEW t, NEW text \in Text, NEW S, t \in S[0],
         \A n \in 1 .. Len(text) : \A u \in S[n - 1] : Outc(u, text[n]) \in S[n]
  PROVE  Printk(t, text) \in S[Len(text)]
  <1> DEFINE Prints(f) == [n \in 0 .. Len(text) |-> PrintedAt(f, t, text, n)]
             printed == CHOOSE f : f = Prints(f)
  <1>0. Len(text) \in Nat
    BY DEF Text
  <1>1. Printk(t, text) = printed[Len(text)]
    BY DEF Printk, PrintedAt
  <1>2. printed = Prints(printed)
    BY PrintingIsDefined, Zenon
  <1> HIDE DEF printed
  <1> DEFINE good == {n \in 0 .. Len(text) : printed[n] \in S[n]}
  <1>3. 0 \in good
    <2>1. 0 \in 0 .. Len(text)
      BY <1>0
    <2>2. printed[0] = t
      BY <1>2, <2>1 DEF PrintedAt
    <2> QED  BY <2>1, <2>2
  <1>4. ASSUME NEW k \in 0 .. Len(text) - 1, k \in good PROVE k + 1 \in good
    <2>1. k + 1 \in 1 .. Len(text) /\ k + 1 \in 0 .. Len(text) /\ k + 1 # 0 /\ (k + 1) - 1 = k
      BY <1>0
    <2>2. printed[k + 1] = Outc(printed[k], text[k + 1])
      BY <1>2, <2>1, Zenon DEF PrintedAt
    <2>3. printed[k] \in S[k]
      BY <1>4
    <2>4. \A u \in S[k] : Outc(u, text[k + 1]) \in S[k + 1]
      BY <2>1
    <2> QED  BY <2>1, <2>2, <2>3, <2>4, Zenon
  <1> HIDE DEF good
  <1>5. \A k \in 0 .. Len(text) : k \in good
    BY <1>0, <1>3, <1>4, UpTo
  <1>6. Len(text) \in good
    BY <1>0, <1>5
  <1> QED  BY <1>1, <1>6 DEF good

-----------------------------------------------------------------------------
(* The console, call by call.                                              *)

LEMMA ScreenIs ==
  /\ Cols \in Nat /\ Cols > 0 /\ Rows \in Nat /\ Rows > 0 /\ Pitch \in Nat /\ Pitch >= Cols
  /\ <<0, 0>> \in Cells /\ Blank \in Chars
  <1>1. Blank \in Chars
    BY CharsAssumption
  <1>2. <<0, 0>> \in Cells
    BY ScreenAssumption DEF Cells
  <1> QED  BY ScreenAssumption, <1>1, <1>2

LEMMA ClearedIs ==
  ASSUME NEW on, NEW t \in ScrState(on)
  PROVE  Cleared(t) \in ScrState(on) /\ Cleared(t).x = t.x /\ Cleared(t).y = t.y
  BY ScreenIs DEF ScrState, Cleared

\* A move of the cursor changes nothing else.
Moved(t, x, y) == [t EXCEPT !.x = x, !.y = y]

LEMMA MovedIs ==
  ASSUME NEW on, NEW t \in ScrState(on), NEW x \in 0 .. Cols, NEW y \in 0 .. Rows - 1
  PROVE  /\ Moved(t, x, y) \in ScrState(on)
         /\ Moved(t, x, y).x = x /\ Moved(t, x, y).y = y /\ Moved(t, x, y).back = t.back
  BY Zenon DEF Moved, ScrState

LEMMA NewlineIs ==
  ASSUME NEW on, NEW t \in ScrState(on)
  PROVE  Newline(t) \in ScrState(on) /\ Newline(t).x = 0
  <1>1. CASE t.y + 2 > Rows
    <2>1. Newline(t) = Moved(Cleared(t), 0, 0)
      BY <1>1 DEF Newline, Moved
    <2>2. 0 \in 0 .. Cols /\ 0 \in 0 .. Rows - 1 /\ Cleared(t) \in ScrState(on)
      BY ClearedIs, ScreenIs
    <2> QED  BY <2>1, <2>2, MovedIs
  <1>2. CASE ~(t.y + 2 > Rows)
    <2>1. Newline(t) = Moved(t, 0, t.y + 1)
      BY <1>2 DEF Newline, Moved
    <2>2. t.y + 1 \in 0 .. Rows - 1 /\ 0 \in 0 .. Cols
      BY <1>2, ScreenIs DEF ScrState
    <2> QED  BY <2>1, <2>2, MovedIs
  <1> QED  BY <1>1, <1>2

LEMMA DrawnIs ==
  ASSUME NEW on, NEW t \in ScrState(on), NEW c \in Chars
  PROVE  /\ Drawn(t, c) \in ScrState(on)
         /\ Drawn(t, c).x = t.x /\ Drawn(t, c).y = t.y
         /\ \A d \in Cells : Drawn(t, c).back[d] = IF d = <<t.x, t.y>> THEN c ELSE t.back[d]
  <1>1. CASE <<t.x, t.y>> \in Cells
    <2> DEFINE b == [t.back EXCEPT ![<<t.x, t.y>>] = c]
    <2>1. t.back \in [Cells -> Chars]
      BY Zenon DEF ScrState
    <2>2. b \in [Cells -> Chars] /\ \A d \in Cells : b[d] = IF d = <<t.x, t.y>> THEN c ELSE t.back[d]
      BY <2>1
    <2>3. Drawn(t, c) = [t EXCEPT !.back = b]
      BY <1>1, Zenon DEF Drawn
    <2> HIDE DEF b
    <2>4. Drawn(t, c) \in ScrState(on) /\ Drawn(t, c).back = b /\ Drawn(t, c).x = t.x /\ Drawn(t, c).y = t.y
      BY <2>2, <2>3, Zenon DEF ScrState
    <2> QED  BY <2>2, <2>4
  <1>2. CASE <<t.x, t.y>> \notin Cells
    BY <1>2 DEF Drawn, ScrState
  <1> QED  BY <1>1, <1>2

LEMMA GlyphIs ==
  ASSUME NEW on, NEW t \in ScrState(on), NEW c \in Chars
  PROVE  /\ PutGlyph(t, c) \in ScrState(on)
         /\ \/ /\ t.x + 1 > Cols
               /\ PutGlyph(t, c).x = 1 /\ PutGlyph(t, c).back[<<0, PutGlyph(t, c).y>>] = c
            \/ /\ t.x < Cols /\ PutGlyph(t, c).x = t.x + 1 /\ PutGlyph(t, c).y = t.y
               /\ PutGlyph(t, c).back[<<t.x, t.y>>] = c
               /\ \A d \in Cells : d # <<t.x, t.y>> => PutGlyph(t, c).back[d] = t.back[d]
  <1> DEFINE u == IF t.x + 1 > Cols THEN Newline(t) ELSE t
  <1>1. u \in ScrState(on) /\ u.x < Cols
    BY NewlineIs, ScreenIs DEF ScrState
  <1>2. PutGlyph(t, c) = [Drawn(u, c) EXCEPT !.x = u.x + 1]
    BY DEF PutGlyph
  <1>3. (t.x + 1 > Cols /\ u.x = 0) \/ (t.x < Cols /\ u = t)
    <2>1. t.x \in 0 .. Cols
      BY Zenon DEF ScrState
    <2> QED  BY <2>1, NewlineIs, ScreenIs
  <1> HIDE DEF u
  <1>4. /\ Drawn(u, c) \in ScrState(on) /\ Drawn(u, c).y = u.y
        /\ \A d \in Cells : Drawn(u, c).back[d] = IF d = <<u.x, u.y>> THEN c ELSE u.back[d]
    BY <1>1, DrawnIs
  <1>5. <<u.x, u.y>> \in Cells /\ u.x + 1 \in 0 .. Cols /\ u.x \in Nat
    BY <1>1, ScreenIs DEF ScrState, Cells
  <1>6. /\ PutGlyph(t, c) \in ScrState(on) /\ PutGlyph(t, c).x = u.x + 1
        /\ PutGlyph(t, c).y = u.y /\ PutGlyph(t, c).back = Drawn(u, c).back
    BY <1>2, <1>4, <1>5 DEF ScrState
  <1>7. PutGlyph(t, c).back[<<u.x, u.y>>] = c
    BY <1>4, <1>5, <1>6
  <1>8. CASE u.x = 0 /\ t.x + 1 > Cols
    BY <1>6, <1>7, <1>8
  <1>9. CASE t.x < Cols /\ u = t
    BY <1>4, <1>6, <1>7, <1>9
  <1> QED  BY <1>3, <1>8, <1>9

LEMMA ErasedIs ==
  ASSUME NEW on, NEW t \in ScrState(on)
  PROVE  /\ Erased(t) \in ScrState(on)
         /\ Erased(t).x = (IF t.x >= 1 THEN t.x - 1 ELSE 0) /\ Erased(t).y = t.y
         /\ \A d \in Cells : d # <<Erased(t).x, t.y>> => Erased(t).back[d] = t.back[d]
  <1> DEFINE u == [t EXCEPT !.x = IF @ >= 1 THEN @ - 1 ELSE 0]
  <1>1. u \in ScrState(on) /\ u.x = (IF t.x >= 1 THEN t.x - 1 ELSE 0) /\ u.y = t.y /\ u.back = t.back
    BY ScreenIs DEF ScrState
  <1>2. Erased(t) = Drawn(u, Blank)
    BY DEF Erased
  <1> HIDE DEF u
  <1> QED  BY <1>1, <1>2, DrawnIs, ScreenIs

LEMMA PutcIs ==
  ASSUME NEW on, NEW t \in ScrState(on), NEW c \in Chars
  PROVE  /\ Putc(t, c) \in ScrState(on)
         /\ c = "nl" => Putc(t, c) = Newline(t)
         /\ c = "del" => Putc(t, c) = Erased(t)
         /\ c \notin Controls => Putc(t, c) = PutGlyph(t, c)
  <1>1. Blank \in Chars /\ "?" \in Chars
    BY CharsAssumption
  <1>2. CASE c = "nl"
    BY <1>2, NewlineIs DEF Putc, Controls
  <1>3. CASE c = "tab"
    <2> DEFINE p(u) == PutGlyph(u, Blank)
    <2>1. \A u \in ScrState(on) : p(u) \in ScrState(on)
      BY <1>1, GlyphIs
    <2>2. Putc(t, c) = p(p(p(p(t))))
      BY <1>3 DEF Putc
    <2> HIDE DEF p
    <2>3. Putc(t, c) \in ScrState(on)
      BY <2>1, <2>2
    <2> QED  BY <1>3, <2>3 DEF Controls
  <1>4. CASE c = "del"
    BY <1>4, ErasedIs DEF Putc, Controls
  <1>5. CASE c = "esc"
    BY <1>1, <1>5, GlyphIs DEF Putc, Controls
  <1>6. CASE c \notin Controls
    BY <1>6, GlyphIs DEF Putc, Controls
  <1> QED  BY <1>2, <1>3, <1>4, <1>5, <1>6 DEF Controls

\* The card shows what was drawn.
Shown(t) == \A c \in Cells : t.lfb[c[2] * Pitch + c[1]] = t.back[c]

LEMMA Divide ==
  ASSUME NEW n \in Nat, n > 0, NEW m \in Nat
  PROVE  m \div n \in Nat /\ m % n \in Nat /\ m = n * (m \div n) + (m % n)
  <1>1. m \div n \in Nat
    BY SMT
  <1>2. m % n \in Nat /\ m % n < n
    BY SMT
  <1>3. m = n * (m \div n) + (m % n)
    BY SMT
  <1> QED  BY <1>1, <1>2, <1>3

\* The address of a cell, and the cell of an address.
LEMMA CellAddress ==
  ASSUME NEW a \in 0 .. Cols - 1, NEW b \in 0 .. Rows - 1
  PROVE  /\ b * Pitch + a \in Addresses
         /\ (b * Pitch + a) % Pitch = a /\ (b * Pitch + a) \div Pitch = b
  <1> DEFINE i == b * Pitch + a
  <1>1. a \in Nat /\ b \in Nat /\ a < Pitch /\ Pitch \in Nat /\ Pitch > 0 /\ b + 1 <= Rows /\ Rows \in Nat
    BY ScreenIs
  <1>2. b * Pitch \in Nat /\ (b + 1) * Pitch = b * Pitch + Pitch /\ (b + 1) * Pitch <= Pitch * Rows
    BY <1>1
  <1>3. i \in Addresses
    BY <1>1, <1>2 DEF Addresses
  <1>4. i % Pitch = a /\ i \div Pitch = b
    BY <1>1
  <1> QED  BY <1>3, <1>4

LEMMA AddressCell ==
  ASSUME NEW i \in Addresses
  PROVE  i % Pitch \in Nat /\ i \div Pitch \in 0 .. Rows - 1
  <1>1. i \in Nat /\ Pitch \in Nat /\ Pitch > 0 /\ i < Pitch * Rows /\ Rows \in Nat
    BY ScreenIs DEF Addresses
  <1>2. i \div Pitch \in Nat /\ i % Pitch \in Nat /\ i = Pitch * (i \div Pitch) + (i % Pitch)
    BY <1>1, Divide
  <1>4. i = Pitch * (i \div Pitch) + (i % Pitch)
    BY <1>2
  <1>5. i \div Pitch < Rows
    <2>1. ASSUME i \div Pitch >= Rows PROVE FALSE
      <3>1. \A q \in Nat : q >= Rows => Pitch * q >= Pitch * Rows
        BY <1>1
      <3>2. Pitch * (i \div Pitch) >= Pitch * Rows
        BY <1>2, <2>1, <3>1, Zenon
      <3>3. PICK p \in Nat, m \in Nat, r \in Nat :
              p = Pitch * (i \div Pitch) /\ m = Pitch * Rows /\ r = i % Pitch
        BY <1>1, <1>2
      <3> QED  BY <1>1, <1>4, <3>2, <3>3
    <2> QED  BY <1>1, <1>2, <2>1
  <1> QED  BY <1>1, <1>2, <1>5

LEMMA PresentIs ==
  ASSUME NEW on, NEW t \in ScrState(on)
  PROVE  /\ Present(t) \in ScrState(on)
         /\ Present(t).back = t.back /\ Present(t).x = t.x /\ Present(t).y = t.y
         /\ Shown(Present(t))
  <1> DEFINE l == [i \in DOMAIN t.lfb |->
                    IF i % Pitch < Cols THEN t.back[<<i % Pitch, i \div Pitch>>] ELSE t.lfb[i]]
  <1>1. t.lfb \in [Addresses -> Chars] /\ t.back \in [Cells -> Chars] /\ DOMAIN t.lfb = Addresses
    BY Zenon DEF ScrState
  <1>2. ASSUME NEW i \in Addresses PROVE l[i] \in Chars
    <2>1. CASE i % Pitch < Cols
      <3>1. <<i % Pitch, i \div Pitch>> \in Cells
        BY <2>1, AddressCell, ScreenIs DEF Cells
      <3> QED  BY <1>1, <2>1, <3>1
    <2> QED  BY <1>1, <2>1
  <1>3. l \in [Addresses -> Chars]
    BY <1>1, <1>2
  <1>4. ASSUME NEW c \in Cells PROVE l[c[2] * Pitch + c[1]] = t.back[c]
    <2>1. PICK a \in 0 .. Cols - 1, b \in 0 .. Rows - 1 : c = <<a, b>>
      BY DEF Cells
    <2>2. /\ b * Pitch + a \in Addresses /\ (b * Pitch + a) % Pitch < Cols
          /\ <<(b * Pitch + a) % Pitch, (b * Pitch + a) \div Pitch>> = c
      BY <2>1, CellAddress, ScreenIs
    <2>3. l[b * Pitch + a] = t.back[c]
      BY <1>1, <2>2
    <2> QED  BY <2>1, <2>3
  <1>5. Present(t) = [t EXCEPT !.lfb = l]
    BY Zenon DEF Present
  <1> HIDE DEF l
  <1>6. /\ Present(t) \in ScrState(on) /\ Present(t).lfb = l
        /\ Present(t).back = t.back /\ Present(t).x = t.x /\ Present(t).y = t.y
    BY <1>3, <1>5, Zenon DEF ScrState
  <1> QED  BY <1>4, <1>6 DEF Shown

\* Putc shows nothing, Flush shows everything if the console is on.
LEMMA FlushIs ==
  ASSUME NEW on, on \subseteq BOOLEAN, NEW t \in ScrState(on)
  PROVE  /\ Flush(t) \in ScrState(on)
         /\ Flush(t).back = t.back /\ Flush(t).x = t.x /\ Flush(t).y = t.y
         /\ t \in ScrState({TRUE}) => Shown(Flush(t))
  <1>1. t.on => Flush(t) = Present(t)
    BY Zenon DEF Flush
  <1>2. ~ t.on => Flush(t) = t
    BY Zenon DEF Flush
  <1>3. t \in ScrState({TRUE}) => t.on
    BY Zenon DEF ScrState
  <1> QED  BY <1>1, <1>2, <1>3, PresentIs, Zenon

LEMMA OutcIs ==
  ASSUME NEW on, on \subseteq BOOLEAN, NEW t \in ScrState(on), NEW c \in Chars
  PROVE  /\ Outc(t, c) \in ScrState(on)
         /\ t \in ScrState({TRUE}) =>
              /\ c = "nl" => Shown(Outc(t, c)) /\ Outc(t, c).x = 0
              /\ c = "del" => Outc(t, c) = Erased(t)
              /\ c \notin Controls => Outc(t, c) = PutGlyph(t, c)
  <1>1. t \in ScrState({TRUE}) => t.on
    BY Zenon DEF ScrState
  <1>2. ~ t.on => Outc(t, c) = t
    BY Zenon DEF Outc
  <1>3. t.on /\ c = "nl" => Outc(t, c) = Flush(Putc(t, c))
    BY Zenon DEF Outc
  <1>4. t.on /\ c # "nl" => Outc(t, c) = Putc(t, c)
    BY Zenon DEF Outc
  <1>5. Outc(t, c) \in ScrState(on)
    BY <1>2, <1>3, <1>4, PutcIs, FlushIs, Zenon
  <1>6. ASSUME t \in ScrState({TRUE}), c = "nl"
        PROVE  Shown(Outc(t, c)) /\ Outc(t, c).x = 0
    <2>1. Putc(t, c) \in ScrState({TRUE}) /\ Putc(t, c) = Newline(t) /\ Newline(t).x = 0
      BY <1>6, PutcIs, NewlineIs, Zenon
    <2>2. {TRUE} \subseteq BOOLEAN
      OBVIOUS
    <2> QED  BY <1>1, <1>3, <1>6, <2>1, <2>2, FlushIs, Zenon
  <1>7. "del" # "nl" /\ "nl" \in Controls
    BY DEF Controls
  <1> QED  BY <1>1, <1>4, <1>5, <1>6, <1>7, PutcIs, Zenon

LEMMA PrintkIs ==
  ASSUME NEW on, on \subseteq BOOLEAN, NEW t \in ScrState(on), NEW text \in Text
  PROVE  Printk(t, text) \in ScrState(on)
  <1> DEFINE S == [n \in 0 .. Len(text) |-> ScrState(on)]
  <1>0. Len(text) \in Nat /\ \A n \in 1 .. Len(text) : text[n] \in Chars
    BY DEF Text
  <1>1. t \in S[0] /\ S[Len(text)] = ScrState(on)
    BY <1>0
  <1>2. ASSUME NEW n \in 1 .. Len(text), NEW u \in S[n - 1] PROVE Outc(u, text[n]) \in S[n]
    <2>1. n - 1 \in 0 .. Len(text) /\ n \in 0 .. Len(text)
      BY <1>0
    <2>2. u \in ScrState(on) /\ text[n] \in Chars /\ S[n] = ScrState(on)
      BY <1>0, <2>1
    <2> QED  BY <2>2, OutcIs, Zenon
  <1> HIDE DEF S
  <1>3. Printk(t, text) \in S[Len(text)]
    BY <1>1, <1>2, PrintkSteps
  <1> QED  BY <1>1, <1>3, Zenon

\* What ends with a line end is on the card, with the cursor in the first column.
LEMMA PrintkLine ==
  ASSUME NEW t \in ScrState({TRUE}), NEW text \in Text, text # <<>>, text[Len(text)] = "nl"
  PROVE  /\ Printk(t, text) \in ScrState({TRUE})
         /\ Shown(Printk(t, text)) /\ Printk(t, text).x = 0
  <1> DEFINE T == ScrState({TRUE})
             L == {u \in T : Shown(u) /\ u.x = 0}
             S == [n \in 0 .. Len(text) |-> IF n = Len(text) THEN L ELSE T]
  <1>0. Len(text) \in Nat /\ Len(text) # 0 /\ (\A n \in 1 .. Len(text) : text[n] \in Chars)
    BY DEF Text
  <1>1. t \in S[0] /\ S[Len(text)] = L
    BY <1>0
  <1>2. ASSUME NEW n \in 1 .. Len(text), NEW u \in S[n - 1] PROVE Outc(u, text[n]) \in S[n]
    <2>1. n - 1 \in 0 .. Len(text) /\ n \in 0 .. Len(text) /\ n - 1 # Len(text)
      BY <1>0
    <2>2. S[n] = IF n = Len(text) THEN L ELSE T
      BY <2>1
    <2>3. u \in T /\ text[n] \in Chars
      BY <1>0, <2>1
    <2>4. Outc(u, text[n]) \in T /\ (text[n] = "nl" => Outc(u, text[n]) \in L)
      <3>1. {TRUE} \subseteq BOOLEAN
        OBVIOUS
      <3> QED  BY <2>3, <3>1, OutcIs, Zenon
    <2> QED  BY <2>2, <2>4
  <1> HIDE DEF S
  <1>3. Printk(t, text) \in S[Len(text)]
    BY <1>1, <1>2, PrintkSteps
  <1> QED  BY <1>1, <1>3

LEMMA ClearConsoleIs ==
  ASSUME NEW on, on \subseteq BOOLEAN, NEW t \in ScrState(on)
  PROVE  ClearConsole(t) \in ScrState(on)
  <1> DEFINE home == [t EXCEPT !.x = 0, !.y = 0]
  <1>1. home = Moved(t, 0, 0)
    BY DEF Moved
  <1>2. 0 \in 0 .. Cols /\ 0 \in 0 .. Rows - 1
    BY ScreenIs
  <1>3. home \in ScrState(on)
    <2>1. Moved(t, 0, 0) \in ScrState(on)
      BY <1>2, MovedIs
    <2> HIDE DEF home
    <2> QED  BY <1>1, <2>1
  <1>4. ClearConsole(t) = IF t.on THEN Present(Cleared(home)) ELSE home
    BY Zenon DEF ClearConsole
  <1> HIDE DEF home
  <1> QED  BY <1>3, <1>4, ClearedIs, PresentIs, Zenon

\* Printing one character, and erasing one.
LEMMA PrintOne ==
  ASSUME NEW t, NEW c \in Chars
  PROVE  <<c>> \in Text /\ Printk(t, <<c>>) = Outc(t, c)
  <1> DEFINE S == [n \in 0 .. 1 |-> IF n = 0 THEN {t} ELSE {Outc(t, c)}]
  <1>1. <<c>> \in Text /\ Len(<<c>>) = 1 /\ <<c>>[1] = c
    BY DEF Text
  <1>2. t \in S[0] /\ S[1] = {Outc(t, c)}
    OBVIOUS
  <1>3. \A n \in 1 .. 1 : \A u \in S[n - 1] : Outc(u, <<c>>[n]) \in S[n]
    BY <1>1
  <1> HIDE DEF S
  <1>4. Printk(t, <<c>>) \in S[1]
    BY <1>1, <1>2, <1>3, PrintkSteps
  <1> QED  BY <1>1, <1>2, <1>4

LEMMA PrintErasure ==
  ASSUME NEW t
  PROVE  Erasure \in Text /\ Printk(t, Erasure) = Outc(Outc(Outc(t, "del"), Blank), "del")
  <1> DEFINE u == Outc(t, "del")
             v == Outc(u, Blank)
             w == Outc(v, "del")
             S == [n \in 0 .. 3 |-> IF n = 0 THEN {t} ELSE IF n = 1 THEN {u} ELSE IF n = 2 THEN {v} ELSE {w}]
  <1>1. Erasure \in Text /\ Len(Erasure) = 3 /\ Erasure[1] = "del" /\ Erasure[2] = Blank /\ Erasure[3] = "del"
    BY CharsAssumption DEF Text, Erasure, Controls
  <1>2. S[0] = {t} /\ S[1] = {u} /\ S[2] = {v} /\ S[3] = {w}
    OBVIOUS
  <1> HIDE DEF S
  <1>3. \A n \in 1 .. 3 : \A a \in S[n - 1] : Outc(a, Erasure[n]) \in S[n]
    <2>1. ASSUME NEW n \in 1 .. 3, NEW a \in S[n - 1] PROVE Outc(a, Erasure[n]) \in S[n]
      <3>1. n = 1 \/ n = 2 \/ n = 3
        OBVIOUS
      <3>2. CASE n = 1
        <4>1. a = t /\ Erasure[n] = "del" /\ S[n] = {u}
          BY <1>1, <1>2, <3>2
        <4> QED  BY <4>1
      <3>3. CASE n = 2
        <4>1. a = u /\ Erasure[n] = Blank /\ S[n] = {v}
          BY <1>1, <1>2, <3>3
        <4> QED  BY <4>1
      <3>4. CASE n = 3
        <4>1. a = v /\ Erasure[n] = "del" /\ S[n] = {w}
          BY <1>1, <1>2, <3>4
        <4> QED  BY <4>1
      <3> QED  BY <3>1, <3>2, <3>3, <3>4
    <2> QED  BY <2>1
  <1>4. Printk(t, Erasure) \in S[3]
    BY <1>1, <1>2, <1>3, PrintkSteps
  <1> QED  BY <1>1, <1>2, <1>4

-----------------------------------------------------------------------------
(* The line to the left of the cursor.                                     *)

Screens == ScrState({TRUE})

\* The n characters of s stand to the left of the cursor, as far as the line reaches.
BehindN(t, s, n) == \A i \in 1 .. n : i <= t.x => t.back[<<t.x - i, t.y>>] = s[n + 1 - i]

LEMMA GlyphBehind ==
  ASSUME NEW t \in Screens, NEW s, NEW n \in Nat, n > 0, BehindN(t, s, n - 1), s[n] \in Chars
  PROVE  BehindN(PutGlyph(t, s[n]), s, n)
  <1> DEFINE u == PutGlyph(t, s[n])
  <1>1. \/ u.x = 1 /\ u.back[<<0, u.y>>] = s[n]
        \/ /\ t.x < Cols /\ u.x = t.x + 1 /\ u.y = t.y /\ u.back[<<t.x, t.y>>] = s[n]
           /\ \A d \in Cells : d # <<t.x, t.y>> => u.back[d] = t.back[d]
    BY GlyphIs DEF Screens
  <1>2. t.x \in 0 .. Cols /\ t.y \in 0 .. Rows - 1 /\ Cols \in Nat /\ Rows \in Nat
    BY ScreenIs, Zenon DEF Screens, ScrState
  <1> HIDE DEF u
  <1>3. ASSUME NEW i \in 1 .. n, i <= u.x PROVE u.back[<<u.x - i, u.y>>] = s[n + 1 - i]
    <2>1. CASE u.x = 1 /\ u.back[<<0, u.y>>] = s[n]
      <3>1. i = 1 /\ u.x - i = 0 /\ n + 1 - i = n
        BY <1>3, <2>1
      <3> QED  BY <2>1, <3>1
    <2>2. CASE /\ t.x < Cols /\ u.x = t.x + 1 /\ u.y = t.y /\ u.back[<<t.x, t.y>>] = s[n]
               /\ \A d \in Cells : d # <<t.x, t.y>> => u.back[d] = t.back[d]
      <3>1. CASE i = 1
        <4>1. u.x - i = t.x /\ n + 1 - i = n
          BY <1>2, <2>2, <3>1
        <4> QED  BY <2>2, <4>1
      <3>2. CASE i > 1
        <4>1. /\ i - 1 \in 1 .. n - 1 /\ i - 1 <= t.x
              /\ t.x - (i - 1) = u.x - i /\ (n - 1) + 1 - (i - 1) = n + 1 - i
          BY <1>2, <1>3, <2>2, <3>2
        <4>2. t.back[<<u.x - i, t.y>>] = s[n + 1 - i]
          BY <4>1 DEF BehindN
        <4>3. u.x - i \in 0 .. Cols - 1 /\ u.x - i # t.x
          BY <1>2, <1>3, <2>2, <3>2
        <4>4. <<u.x - i, t.y>> \in Cells /\ <<u.x - i, t.y>> # <<t.x, t.y>>
          BY <1>2, <4>3 DEF Cells
        <4> QED  BY <2>2, <4>2, <4>4
      <3> QED  BY <3>1, <3>2
    <2> QED  BY <1>1, <2>1, <2>2
  <1> QED  BY <1>3 DEF u, BehindN

\* A plain text is printed to the left of the cursor.
LEMMA PrintPlain ==
  ASSUME NEW t \in Screens, NEW text \in Text, \A i \in 1 .. Len(text) : text[i] \notin Controls
  PROVE  Printk(t, text) \in Screens /\ BehindN(Printk(t, text), text, Len(text))
  <1> DEFINE S == [n \in 0 .. Len(text) |-> {u \in Screens : BehindN(u, text, n)}]
  <1>0. Len(text) \in Nat /\ \A n \in 1 .. Len(text) : text[n] \in Chars
    BY DEF Text
  <1>1. t \in S[0] /\ S[Len(text)] = {u \in Screens : BehindN(u, text, Len(text))}
    <2>1. BehindN(t, text, 0)
      BY DEF BehindN
    <2> QED  BY <1>0, <2>1
  <1>2. ASSUME NEW n \in 1 .. Len(text), NEW u \in S[n - 1] PROVE Outc(u, text[n]) \in S[n]
    <2>1. n - 1 \in 0 .. Len(text) /\ n \in 0 .. Len(text) /\ n \in Nat /\ n > 0
      BY <1>0
    <2>2. u \in Screens /\ BehindN(u, text, n - 1) /\ text[n] \in Chars /\ text[n] \notin Controls
      BY <1>0, <2>1
    <2>3. Outc(u, text[n]) = PutGlyph(u, text[n]) /\ Outc(u, text[n]) \in Screens
      <3>1. {TRUE} \subseteq BOOLEAN
        OBVIOUS
      <3> QED  BY <2>2, <3>1, OutcIs, Zenon DEF Screens
    <2>4. BehindN(Outc(u, text[n]), text, n)
      BY <2>1, <2>2, <2>3, GlyphBehind, Zenon
    <2> QED  BY <2>1, <2>3, <2>4
  <1> HIDE DEF S
  <1>3. Printk(t, text) \in S[Len(text)]
    BY <1>1, <1>2, PrintkSteps
  <1> QED  BY <1>1, <1>3

\* The erasure takes the last of the characters to the left of the cursor away.
LEMMA ErasureBehind ==
  ASSUME NEW t \in Screens, NEW s, NEW n \in Nat, n > 0, BehindN(t, s, n)
  PROVE  Printk(t, Erasure) \in Screens /\ BehindN(Printk(t, Erasure), s, n - 1)
  <1>1. /\ {TRUE} \subseteq BOOLEAN /\ "del" \in Chars /\ Blank \in Chars /\ Blank \notin Controls
        /\ "del" \in Controls
    BY CharsAssumption DEF Controls, Blank
  <1>2. PICK u \in Screens : u = Erased(t) /\ u = Outc(t, "del")
    BY <1>1, OutcIs, ErasedIs, Zenon DEF Screens
  <1>3. PICK v \in Screens : v = PutGlyph(u, Blank) /\ v = Outc(u, Blank)
    BY <1>1, OutcIs, GlyphIs, Zenon DEF Screens
  <1>4. PICK w \in Screens : w = Erased(v) /\ w = Outc(v, "del")
    BY <1>1, OutcIs, ErasedIs, Zenon DEF Screens
  <1>5. Printk(t, Erasure) = w
    BY <1>2, <1>3, <1>4, PrintErasure, Zenon
  <1>6. /\ t.x \in 0 .. Cols /\ t.y \in 0 .. Rows - 1 /\ Cols \in Nat /\ Cols > 0 /\ Rows \in Nat
    BY ScreenIs, Zenon DEF Screens, ScrState
  <1>7. /\ u.x = (IF t.x >= 1 THEN t.x - 1 ELSE 0) /\ u.y = t.y
        /\ \A d \in Cells : d # <<u.x, t.y>> => u.back[d] = t.back[d]
    BY <1>2, ErasedIs, ZenonT(40) DEF Screens
  <1>8. /\ v.x = u.x + 1 /\ v.y = u.y
        /\ \A d \in Cells : d # <<u.x, u.y>> => v.back[d] = u.back[d]
    <2>1. ~(u.x + 1 > Cols)
      BY <1>6, <1>7
    <2>2. \/ /\ u.x + 1 > Cols
             /\ PutGlyph(u, Blank).x = 1 /\ PutGlyph(u, Blank).back[<<0, PutGlyph(u, Blank).y>>] = Blank
          \/ /\ u.x < Cols /\ PutGlyph(u, Blank).x = u.x + 1 /\ PutGlyph(u, Blank).y = u.y
             /\ PutGlyph(u, Blank).back[<<u.x, u.y>>] = Blank
             /\ \A d \in Cells : d # <<u.x, u.y>> => PutGlyph(u, Blank).back[d] = u.back[d]
      BY <1>1, GlyphIs, SMTT(30) DEF Screens
    <2> QED  BY <1>3, <2>1, <2>2
  <1>9. /\ w.x = (IF v.x >= 1 THEN v.x - 1 ELSE 0) /\ w.y = v.y
        /\ \A d \in Cells : d # <<w.x, v.y>> => w.back[d] = v.back[d]
    BY <1>4, ErasedIs, ZenonT(40) DEF Screens
  <1>10. w.x = u.x /\ w.y = t.y
    BY <1>6, <1>7, <1>8, <1>9
  <1>11. \A d \in Cells : d # <<u.x, t.y>> => w.back[d] = t.back[d]
    BY <1>7, <1>8, <1>9, <1>10, Zenon
  <1>12. ASSUME NEW i \in 1 .. n - 1, i <= w.x PROVE w.back[<<w.x - i, w.y>>] = s[(n - 1) + 1 - i]
    <2>1. t.x >= 1 /\ w.x = t.x - 1
      BY <1>6, <1>7, <1>10, <1>12
    <2>2. i + 1 \in 1 .. n /\ i + 1 <= t.x /\ t.x - (i + 1) = w.x - i /\ n + 1 - (i + 1) = (n - 1) + 1 - i
      BY <1>6, <1>12, <2>1
    <2>3. t.back[<<w.x - i, t.y>>] = s[(n - 1) + 1 - i]
      BY <2>2 DEF BehindN
    <2>4. w.x - i \in 0 .. Cols - 1 /\ w.x - i # u.x
      BY <1>6, <1>10, <1>12, <2>1
    <2>5. <<w.x - i, t.y>> \in Cells /\ <<w.x - i, t.y>> # <<u.x, t.y>>
      BY <1>6, <2>4 DEF Cells
    <2> QED  BY <1>10, <1>11, <2>3, <2>5
  <1> QED  BY <1>5, <1>12 DEF BehindN

-----------------------------------------------------------------------------
(* The editors.                                                            *)

Editors == [mode : Modes, typed : Seq(Chars), prompt : Text]
LineModes == {"shell", "old", "new"}
LineOf(e) == e.prompt \o e.typed

\* What LineShown says of one screen and one editor.
LineBehind(t, e) == e.mode \in LineModes => BehindN(t, LineOf(e), Len(LineOf(e)))

LEMMA FlushLine ==
  ASSUME NEW t \in Screens
  PROVE  /\ Flush(t) \in Screens /\ Shown(Flush(t))
         /\ \A e : LineBehind(t, e) => LineBehind(Flush(t), e)
  <1>1. {TRUE} \subseteq BOOLEAN
    OBVIOUS
  <1>2. /\ Flush(t) \in Screens /\ Shown(Flush(t))
        /\ Flush(t).back = t.back /\ Flush(t).x = t.x /\ Flush(t).y = t.y
    BY <1>1, FlushIs, Zenon DEF Screens
  <1> QED  BY <1>2, Zenon DEF LineBehind, BehindN

\* A prompt and no characters.
LEMMA PromptLine ==
  ASSUME NEW t \in Screens, NEW m \in Modes
  PROVE  /\ Printk(t, Prompt[m]) \in Screens
         /\ Editing(m, Prompt[m]) \in Editors /\ Editing(m, Prompt[m]).mode = m
         /\ LineBehind(Printk(t, Prompt[m]), Editing(m, Prompt[m]))
  <1> DEFINE p == Prompt[m]
             e == Editing(m, p)
  <1>1. p \in Text /\ DOMAIN p = 1 .. Len(p)
    BY TextsAssumption DEF Text
  <1>2. \A i \in 1 .. Len(p) : p[i] \notin Controls
    BY <1>1, PlainAssumption
  <1>3. Printk(t, p) \in Screens /\ BehindN(Printk(t, p), p, Len(p))
    BY <1>1, <1>2, PrintPlain
  <1>4. e.mode = m /\ e.prompt = p /\ e.typed = <<>> /\ e \in Editors
    BY <1>1 DEF Editing, Editors
  <1>5. LineOf(e) = p
    BY <1>1, <1>4 DEF LineOf, Text
  <1> HIDE DEF p, e
  <1>6. LineBehind(Printk(t, p), e)
    BY <1>3, <1>5, Zenon DEF LineBehind
  <1> QED  BY <1>3, <1>4, <1>6 DEF p, e

LEMMA AppendLine ==
  ASSUME NEW p \in Seq(Chars), NEW q \in Seq(Chars), NEW c \in Chars
  PROVE  /\ Append(q, c) \in Seq(Chars) /\ Len(p \o q) \in Nat
         /\ Len(p \o Append(q, c)) = Len(p \o q) + 1
         /\ (p \o Append(q, c))[Len(p \o q) + 1] = c
         /\ \A i \in 1 .. Len(p \o q) : (p \o Append(q, c))[i] = (p \o q)[i]
  OBVIOUS

LEMMA FrontLine ==
  ASSUME NEW p \in Seq(Chars), NEW q \in Seq(Chars), q # <<>>
  PROVE  /\ Front(q) \in Seq(Chars) /\ Len(p \o q) \in Nat /\ Len(p \o q) > 0
         /\ Len(p \o Front(q)) = Len(p \o q) - 1
         /\ \A i \in 1 .. Len(p \o q) - 1 : (p \o Front(q))[i] = (p \o q)[i]
  BY DEF Front

\* One more character, which is echoed.
LEMMA TypedLine ==
  ASSUME NEW t \in Screens, NEW e \in Editors, NEW c \in Chars \ Controls, LineBehind(t, e)
  PROVE  /\ Printk(t, <<c>>) \in Screens
         /\ [e EXCEPT !.typed = Append(@, c)] \in Editors
         /\ LineBehind(Printk(t, <<c>>), [e EXCEPT !.typed = Append(@, c)])
  <1> DEFINE f == [e EXCEPT !.typed = Append(@, c)]
             n == Len(LineOf(e))
             u == Printk(t, <<c>>)
  <1>1. e.prompt \in Seq(Chars) /\ e.typed \in Seq(Chars) /\ e.mode \in Modes
    BY DEF Editors, Text
  <1>2. f.mode = e.mode /\ f.prompt = e.prompt /\ f.typed = Append(e.typed, c) /\ f \in Editors
    BY <1>1, AppendLine, Zenon DEF Editors, Text
  <1>3. u = Outc(t, c) /\ Outc(t, c) = PutGlyph(t, c) /\ u \in Screens
    <2>1. {TRUE} \subseteq BOOLEAN
      OBVIOUS
    <2> QED  BY <2>1, PrintOne, OutcIs, Zenon DEF Screens
  <1> HIDE DEF f, u
  <1>4. /\ n \in Nat /\ Len(LineOf(f)) = n + 1 /\ LineOf(f)[n + 1] = c
        /\ \A i \in 1 .. n : LineOf(f)[i] = LineOf(e)[i]
    <2>1. LineOf(f) = e.prompt \o Append(e.typed, c) /\ LineOf(e) = e.prompt \o e.typed
      BY <1>2 DEF LineOf
    <2>2. c \in Chars
      OBVIOUS
    <2>3. /\ Len(e.prompt \o e.typed) \in Nat
          /\ Len(e.prompt \o Append(e.typed, c)) = Len(e.prompt \o e.typed) + 1
          /\ (e.prompt \o Append(e.typed, c))[Len(e.prompt \o e.typed) + 1] = c
          /\ \A i \in 1 .. Len(e.prompt \o e.typed) :
               (e.prompt \o Append(e.typed, c))[i] = (e.prompt \o e.typed)[i]
      <3>1. PICK p \in Seq(Chars), q \in Seq(Chars) : p = e.prompt /\ q = e.typed
        BY <1>1
      <3>2. /\ Len(p \o q) \in Nat
            /\ Len(p \o Append(q, c)) = Len(p \o q) + 1
            /\ (p \o Append(q, c))[Len(p \o q) + 1] = c
            /\ \A i \in 1 .. Len(p \o q) : (p \o Append(q, c))[i] = (p \o q)[i]
        BY ONLY p \in Seq(Chars), q \in Seq(Chars), c \in Chars, AppendLine
      <3> QED  BY <3>1, <3>2, Zenon
    <2> QED  BY <2>1, <2>3, Zenon
  <1> HIDE DEF n
  <1>5. ASSUME e.mode \in LineModes PROVE BehindN(u, LineOf(f), n + 1)
    <2>1. BehindN(t, LineOf(e), n)
      BY <1>5 DEF LineBehind, n
    <2>2. BehindN(t, LineOf(f), n)
      <3>1. \A i \in 1 .. n : n + 1 - i \in 1 .. n
        BY <1>4
      <3> QED  BY <1>4, <2>1, <3>1, Zenon DEF BehindN
    <2>3. n + 1 \in Nat /\ n + 1 > 0 /\ (n + 1) - 1 = n
      BY <1>4
    <2> HIDE DEF LineOf
    <2>4. BehindN(PutGlyph(t, LineOf(f)[n + 1]), LineOf(f), n + 1)
      BY <1>4, <2>2, <2>3, GlyphBehind
    <2> QED  BY <1>3, <1>4, <2>4, Zenon
  <1>6. LineBehind(u, f)
    BY <1>2, <1>4, <1>5, Zenon DEF LineBehind
  <1> QED  BY <1>2, <1>3, <1>6 DEF f, u

\* The last character is erased.
LEMMA ErasedLine ==
  ASSUME NEW t \in Screens, NEW e \in Editors, e.typed # <<>>, LineBehind(t, e)
  PROVE  /\ Printk(t, Erasure) \in Screens
         /\ [e EXCEPT !.typed = Front(@)] \in Editors
         /\ LineBehind(Printk(t, Erasure), [e EXCEPT !.typed = Front(@)])
  <1> DEFINE f == [e EXCEPT !.typed = Front(@)]
             n == Len(LineOf(e))
             u == Printk(t, Erasure)
  <1>1. e.prompt \in Seq(Chars) /\ e.typed \in Seq(Chars) /\ e.mode \in Modes
    BY DEF Editors, Text
  <1>2. f.mode = e.mode /\ f.prompt = e.prompt /\ f.typed = Front(e.typed) /\ f \in Editors
    BY <1>1, FrontLine, Zenon DEF Editors, Text
  <1>3. u \in Screens
    <2>1. {TRUE} \subseteq BOOLEAN
      OBVIOUS
    <2> QED  BY <2>1, PrintErasure, PrintkIs, Zenon DEF Screens
  <1> HIDE DEF f, u
  <1>4. n \in Nat /\ n > 0 /\ Len(LineOf(f)) = n - 1 /\ \A i \in 1 .. n - 1 : LineOf(f)[i] = LineOf(e)[i]
    <2>1. LineOf(f) = e.prompt \o Front(e.typed) /\ LineOf(e) = e.prompt \o e.typed
      BY <1>2 DEF LineOf
    <2>2. /\ Len(e.prompt \o e.typed) \in Nat /\ Len(e.prompt \o e.typed) > 0
          /\ Len(e.prompt \o Front(e.typed)) = Len(e.prompt \o e.typed) - 1
          /\ \A i \in 1 .. Len(e.prompt \o e.typed) - 1 :
               (e.prompt \o Front(e.typed))[i] = (e.prompt \o e.typed)[i]
      BY <1>1, FrontLine
    <2> QED  BY <2>1, <2>2, Zenon
  <1> HIDE DEF n
  <1>5. ASSUME e.mode \in LineModes PROVE BehindN(u, LineOf(f), n - 1)
    <2>1. BehindN(t, LineOf(e), n)
      BY <1>5 DEF LineBehind, n
    <2>2. BehindN(u, LineOf(e), n - 1)
      BY <1>4, <2>1, ErasureBehind, Zenon DEF u
    <2>3. \A i \in 1 .. n - 1 : (n - 1) + 1 - i \in 1 .. n - 1
      BY <1>4
    <2> QED  BY <1>4, <2>2, <2>3, Zenon DEF BehindN
  <1>6. LineBehind(u, f)
    BY <1>2, <1>4, <1>5, Zenon DEF LineBehind
  <1> QED  BY <1>2, <1>3, <1>6 DEF f, u

-----------------------------------------------------------------------------
(* The invariant.                                                          *)

Programs == {"login", "desktop"}
AtBoot == phase = "boot" /\ progs = <<>> /\ scr \in Screens /\ ed.mode = "name" /\ dirty = FALSE
AtKeys ==
  /\ phase = "handling" /\ progs = <<>> /\ scr \in Screens
  /\ dirty = FALSE => Shown(scr)
  /\ LineBehind(scr, ed)
AtRest == phase = "halted" /\ progs = <<>> /\ scr \in Screens /\ Shown(scr) /\ LineBehind(scr, ed)
InKls == phase = "program" /\ progs = <<"kls">> /\ scr \in Screens
InProgram ==
  /\ phase = "program" /\ progs \in Seq(Programs) /\ progs # <<>> /\ scr \in ScrState(BOOLEAN)
  /\ ed.mode = "name" /\ dirty = FALSE

ConsoleInv ==
  /\ ed \in Editors /\ dirty \in BOOLEAN
  /\ AtBoot \/ AtKeys \/ AtRest \/ InKls \/ InProgram

LEMMA ConsoleInitially == ConsoleInit => ConsoleInv
  <1> SUFFICES ASSUME ConsoleInit PROVE ConsoleInv
    OBVIOUS
  <1>1. scr \in Screens
    <2> DEFINE b == [c \in Cells |-> Blank]
               l == [i \in 0 .. Pitch * Rows - 1 |-> Blank]
    <2>1. b \in [Cells -> Chars] /\ l \in [Addresses -> Chars]
      BY ScreenIs DEF Addresses
    <2>2. 0 \in 0 .. Cols /\ 0 \in 0 .. Rows - 1
      BY ScreenIs
    <2>3. scr = [back |-> b, lfb |-> l, x |-> 0, y |-> 0, on |-> TRUE]
      BY Zenon DEF ConsoleInit
    <2> HIDE DEF b, l
    <2> QED  BY <2>1, <2>2, <2>3, Zenon DEF Screens, ScrState
  <1>2. "name" \in Modes /\ <<>> \in Seq(Chars)
    BY DEF Modes
  <1>3. ed \in Editors /\ ed.mode = "name"
    BY <1>2, Zenon DEF ConsoleInit, Editing, Editors, Text
  <1> QED  BY <1>1, <1>3, Zenon DEF ConsoleInit, ConsoleInv, AtBoot

\* What is printed is text.
LEMMA TextsAre ==
  /\ Message \in Text /\ Message # <<>> /\ Message[Len(Message)] = "nl" /\ Outputs \subseteq Text
  /\ Message \o Message \in Text /\ <<"nl">> \o Message \in Text /\ Message \o <<"nl">> \in Text
  /\ Message \o <<"nl">> \o Message \in Text
  /\ <<"nl">> \in Text /\ <<"nl", "nl">> \in Text
  /\ \A m \in Modes : Prompt[m] \in Text
  <1>1. "nl" \in Chars
    BY CharsAssumption DEF Controls
  <1>2. Message \in Seq(Chars) /\ <<"nl">> \in Seq(Chars) /\ <<"nl", "nl">> \in Seq(Chars)
    BY <1>1, TextsAssumption DEF Text
  <1>3. /\ Message \o Message \in Seq(Chars) /\ <<"nl">> \o Message \in Seq(Chars)
        /\ Message \o <<"nl">> \in Seq(Chars) /\ Message \o <<"nl">> \o Message \in Seq(Chars)
    BY <1>2
  <1>4. Message # <<>> /\ Message[Len(Message)] = "nl"
    BY PlainAssumption DEF Last
  <1> QED  BY <1>2, <1>3, <1>4, TextsAssumption, Zenon DEF Text

LEMMA ScreensOn ==
  ASSUME NEW t \in Screens
  PROVE  /\ t \in ScrState(BOOLEAN) /\ ClearConsole(t) \in Screens
         /\ \A text \in Text : Printk(t, text) \in Screens
  <1>1. {TRUE} \subseteq BOOLEAN
    OBVIOUS
  <1>2. t \in ScrState(BOOLEAN)
    BY <1>1, Zenon DEF Screens, ScrState
  <1>3. ClearConsole(t) \in Screens
    BY <1>1, ClearConsoleIs, Zenon DEF Screens
  <1>4. \A text \in Text : Printk(t, text) \in Screens
    BY <1>1, PrintkIs, Zenon DEF Screens
  <1> QED  BY <1>2, <1>3, <1>4

LEMMA AskShellIs ==
  ASSUME NEW t \in Screens, AskShell(t)
  PROVE  scr' \in Screens /\ ed' \in Editors /\ dirty' = TRUE /\ LineBehind(scr', ed')
  <1>1. "shell" \in Modes
    BY DEF Modes
  <1> QED  BY <1>1, PromptLine, Zenon DEF AskShell

LEMMA AskIs ==
  ASSUME NEW t \in Screens, NEW m \in Modes, Ask(t, m)
  PROVE  scr' \in Screens /\ Shown(scr') /\ ed' \in Editors /\ ed'.mode = m /\ LineBehind(scr', ed')
  BY PromptLine, FlushLine, Zenon DEF Ask

LEMMA ShellStartsIs ==
  ASSUME NEW t \in Screens, ShellStarts(t)
  PROVE  /\ scr' \in Screens /\ Shown(scr') /\ ed' \in Editors /\ dirty' = FALSE
         /\ LineBehind(scr', ed')
  <1>1. "shell" \in Modes
    BY DEF Modes
  <1>2. Printk(ClearConsole(t), Message \o Message) \in Screens
    BY ScreensOn, TextsAre, Zenon
  <1> QED  BY <1>1, <1>2, PromptLine, FlushLine, Zenon DEF ShellStarts

LEMMA KeysStay ==
  ASSUME phase' = "handling", progs' = <<>>, scr' \in Screens, ed' \in Editors, dirty' \in BOOLEAN,
         dirty' = FALSE => Shown(scr'), LineBehind(scr', ed')
  PROVE  ConsoleInv'
  BY Zenon DEF ConsoleInv, AtKeys

\* While keys are handled.
LEMMA AtKeysIs ==
  ASSUME ConsoleInv, phase = "handling"
  PROVE  /\ ed \in Editors /\ dirty \in BOOLEAN /\ progs = <<>> /\ scr \in Screens
         /\ dirty = FALSE => Shown(scr)
         /\ LineBehind(scr, ed)
  BY DEF ConsoleInv, AtBoot, AtKeys, AtRest, InKls, InProgram

LEMMA KeysKeep ==
  ASSUME ConsoleInv, ConsoleNext, phase = "handling", phase' = "handling"
  PROVE  ConsoleInv'
  <1>1. /\ ed \in Editors /\ dirty \in BOOLEAN /\ progs = <<>> /\ scr \in Screens
        /\ dirty = FALSE => Shown(scr)
        /\ LineBehind(scr, ed)
    BY AtKeysIs, Zenon
  <1>2. Handling => progs' = <<>>
    BY <1>1, Zenon DEF Handling
  <1>3. /\ Letters \subseteq Chars \ Controls /\ "*" \in Chars \ Controls
        /\ "tab" \in Chars /\ "esc" \in Chars
    BY CharsAssumption, PlainAssumption DEF Controls
  <1>4. {"name", "password", "shell", "old", "new"} \subseteq Modes
    BY DEF Modes
  <1>5. Printk(scr, <<"nl">>) \in Screens
    BY <1>1, ScreensOn, TextsAre, Zenon
  <1>6. ASSUME NEW c \in Letters, ShellChar(c) PROVE ConsoleInv'
    <2>1. ed' = [ed EXCEPT !.typed = Append(@, c)] /\ scr' = Printk(scr, <<c>>) /\ dirty' = TRUE
      BY <1>6, Zenon DEF ShellChar, Echo, Typed
    <2>2. scr' \in Screens /\ ed' \in Editors /\ LineBehind(scr', ed')
      BY <1>1, <1>3, <2>1, TypedLine, Zenon
    <2> QED  BY <1>2, <1>6, <2>1, <2>2, KeysStay, Zenon DEF ShellChar
  <1>7. CASE ShellErase
    <2>1. ed.typed # <<>> /\ ed' = [ed EXCEPT !.typed = Front(@)] /\ scr' = Printk(scr, Erasure) /\ dirty' = TRUE
      BY <1>7, Zenon DEF ShellErase, Shortened
    <2>2. scr' \in Screens /\ ed' \in Editors /\ LineBehind(scr', ed')
      BY <1>1, <2>1, ErasedLine, Zenon
    <2> QED  BY <1>2, <1>7, <2>1, <2>2, KeysStay, Zenon DEF ShellErase
  <1>8. CASE ShellEnter
    <2>1. \E t \in Screens : AskShell(t)
      BY <1>5, <1>8, ScreensOn, TextsAre, Zenon DEF ShellEnter
    <2> QED  BY <1>2, <1>8, <2>1, AskShellIs, KeysStay, Zenon DEF ShellEnter
  <1>9. CASE PasswdStarts
    <2>1. Printk(scr, <<"nl", "nl">>) \in Screens
      BY <1>1, ScreensOn, TextsAre, Zenon
    <2> QED  BY <1>2, <1>4, <1>9, <2>1, AskIs, KeysStay DEF PasswdStarts
  <1>10. CASE Logout
    <2>1. Printk(ClearConsole(Printk(scr, <<"nl">> \o Message)), Message \o Message) \in Screens
      BY <1>1, ScreensOn, TextsAre, Zenon
    <2> QED  BY <1>2, <1>4, <1>10, <2>1, AskIs, KeysStay DEF Logout
  <1>11. ASSUME NEW c, PasswdChar(c) PROVE ConsoleInv'
    <2>1. ed' = [ed EXCEPT !.typed = Append(@, "*")] /\ scr' = Flush(Printk(scr, <<"*">>)) /\ dirty' = dirty
      BY <1>11, Zenon DEF PasswdChar, Typed
    <2>2. scr' \in Screens /\ Shown(scr') /\ ed' \in Editors /\ LineBehind(scr', ed')
      BY <1>1, <1>3, <2>1, TypedLine, FlushLine, Zenon
    <2> QED  BY <1>1, <1>2, <1>11, <2>1, <2>2, KeysStay, Zenon DEF PasswdChar
  <1>12. CASE PasswdErase
    <2>1. ed.typed # <<>> /\ ed' = [ed EXCEPT !.typed = Front(@)] /\ scr' = Flush(Printk(scr, Erasure)) /\ dirty' = dirty
      BY <1>12, Zenon DEF PasswdErase, Shortened
    <2>2. scr' \in Screens /\ Shown(scr') /\ ed' \in Editors /\ LineBehind(scr', ed')
      BY <1>1, <2>1, ErasedLine, FlushLine, Zenon
    <2> QED  BY <1>1, <1>2, <1>12, <2>1, <2>2, KeysStay, Zenon DEF PasswdErase
  <1>13. CASE PasswdEnter
    <2> DEFINE t == Printk(scr, <<"nl">>)
    <2>1. AskShell(Printk(t, Message)) \/ (Ask(t, "new") /\ dirty' = dirty) \/ AskShell(t)
      BY <1>13, Zenon DEF PasswdEnter
    <2>2. t \in Screens /\ Printk(t, Message) \in Screens
      BY <1>5, ScreensOn, TextsAre, Zenon
    <2> HIDE DEF t
    <2>3. CASE AskShell(Printk(t, Message)) \/ AskShell(t)
      BY <1>2, <1>13, <2>2, <2>3, AskShellIs, KeysStay, Zenon DEF PasswdEnter
    <2>4. CASE Ask(t, "new") /\ dirty' = dirty
      <3>1. "new" \in Modes
        BY <1>4
      <3> QED  BY <1>1, <1>2, <1>13, <2>2, <2>4, <3>1, AskIs, KeysStay, Zenon DEF PasswdEnter
    <2> QED  BY <2>1, <2>3, <2>4
  <1>14. ASSUME NEW c \in Letters \cup {"tab", "esc"}, LoginChar(c) PROVE ConsoleInv'
    <2>1. /\ ed' = [ed EXCEPT !.typed = Append(@, c)] /\ dirty' = dirty
          /\ scr' = Flush(IF ed.mode = "name" THEN Printk(scr, <<c>>) ELSE scr)
          /\ ed.mode \in {"name", "password"}
      BY <1>14, Zenon DEF LoginChar, Typed
    <2>2. c \in Chars
      BY <1>3
    <2>3. scr' \in Screens /\ Shown(scr')
      BY <1>1, <2>1, <2>2, ScreensOn, PrintOne, FlushLine, Zenon
    <2>4. ed' \in Editors /\ ed'.mode = ed.mode
      <3>1. Append(ed.typed, c) \in Seq(Chars)
        BY <1>1, <2>2 DEF Editors
      <3> QED  BY <1>1, <2>1, <3>1, Zenon DEF Editors
    <2>5. LineBehind(scr', ed')
      BY <2>1, <2>4 DEF LineBehind, LineModes
    <2> QED  BY <1>1, <1>2, <1>14, <2>1, <2>3, <2>4, <2>5, KeysStay, Zenon DEF LoginChar
  <1>15. CASE LoginErase
    <2>1. /\ ed.typed # <<>> /\ ed' = [ed EXCEPT !.typed = Front(@)] /\ dirty' = dirty
          /\ scr' = Flush(IF ed.mode = "name" THEN Printk(scr, Erasure) ELSE scr)
      BY <1>15, Zenon DEF LoginErase, Shortened
    <2>2. Printk(scr, Erasure) \in Screens /\ ed' \in Editors /\ LineBehind(Printk(scr, Erasure), ed')
      BY <1>1, <2>1, ErasedLine, Zenon
    <2>3. scr' \in Screens /\ Shown(scr')
      BY <1>1, <2>1, <2>2, FlushLine, Zenon
    <2>4. ed.mode \in {"name", "password"} /\ ed'.mode = ed.mode
      BY <1>1, <1>15, <2>1, Zenon DEF LoginErase, Editors
    <2>5. LineBehind(scr', ed')
      BY <2>4 DEF LineBehind, LineModes
    <2> QED  BY <1>1, <1>2, <1>15, <2>1, <2>2, <2>3, <2>5, KeysStay, Zenon DEF LoginErase
  <1>16. CASE LoginEnter
    <2> DEFINE t == Printk(scr, <<"nl">>)
    <2>1. \/ Ask(Printk(t, Message \o <<"nl">>), "name") /\ dirty' = dirty
          \/ Ask(t, "password") /\ dirty' = dirty
          \/ ShellStarts(Printk(t, <<"nl">> \o Message))
      BY <1>16, Zenon DEF LoginEnter
    <2>2. /\ t \in Screens /\ Printk(t, Message \o <<"nl">>) \in Screens
          /\ Printk(t, <<"nl">> \o Message) \in Screens
      BY <1>5, ScreensOn, TextsAre, Zenon
    <2> HIDE DEF t
    <2>3. "name" \in Modes /\ "password" \in Modes
      BY <1>4
    <2>4. scr' \in Screens /\ Shown(scr') /\ ed' \in Editors /\ dirty' \in BOOLEAN /\ LineBehind(scr', ed')
      <3>1. FALSE \in BOOLEAN
        OBVIOUS
      <3> QED  BY <1>1, <2>1, <2>2, <2>3, <3>1, AskIs, ShellStartsIs, Zenon
    <2> QED  BY <1>2, <1>16, <2>4, KeysStay, Zenon DEF LoginEnter
  <1>17. CASE LoginF1
    <2>1. Printk(scr, <<"nl">> \o Message) \in Screens
      BY <1>1, ScreensOn, TextsAre, Zenon
    <2>2. FALSE \in BOOLEAN
      OBVIOUS
    <2> QED  BY <1>2, <1>17, <2>1, <2>2, ShellStartsIs, KeysStay, Zenon DEF LoginF1
  <1>18. "handling" # "halted" /\ "handling" # "boot" /\ "handling" # "program"
    OBVIOUS
  <1>19. ~Tick /\ ~Wake /\ ~BootToText /\ ~BootToProgram /\ ~Running /\ ~Kls /\ ~KlsReturns
    BY <1>18, Zenon DEF Tick, Wake, BootToText, BootToProgram, Running, Kls, KlsReturns
  <1> QED
    BY <1>6, <1>7, <1>8, <1>9, <1>10, <1>11, <1>12, <1>13, <1>14, <1>15, <1>16, <1>17, <1>19, Zenon
       DEF ConsoleNext, Stepping, ProgramDraws, ProgramClears, ProgramPresents, ProgramPresentsRect, ProgramLogs,
           LoginStartsDesktop, ProgramReturns

\* What a program draws is a screen, with the console on or off as it was.
LEMMA ProgramCalls ==
  ASSUME NEW on, on \subseteq BOOLEAN, scr \in ScrState(on),
         ProgramDraws \/ ProgramClears \/ ProgramPresents \/ ProgramPresentsRect \/ ProgramLogs
  PROVE  scr' \in ScrState(on)
  <1>1. scr.back \in [Cells -> Chars] /\ scr.lfb \in [Addresses -> Chars] /\ DOMAIN scr.lfb = Addresses
    BY Zenon DEF ScrState
  <1>2. CASE ProgramDraws
    <2>1. PICK c \in Cells :
            scr' = [scr EXCEPT !.back = [d \in Cells |-> IF d[1] >= c[1] /\ d[2] >= c[2] THEN "#" ELSE @[d]]]
      BY <1>2, Zenon DEF ProgramDraws
    <2> DEFINE b == [d \in Cells |-> IF d[1] >= c[1] /\ d[2] >= c[2] THEN "#" ELSE scr.back[d]]
    <2>2. b \in [Cells -> Chars]
      <3>1. "#" \in Chars
        BY CharsAssumption
      <3> QED  BY <1>1, <3>1
    <2>3. scr' = [scr EXCEPT !.back = b]
      BY <2>1, Zenon
    <2> HIDE DEF b
    <2> QED  BY <2>2, <2>3, Zenon DEF ScrState
  <1>3. CASE ProgramClears
    BY <1>3, ClearedIs, Zenon DEF ProgramClears
  <1>4. CASE ProgramPresents
    BY <1>4, PresentIs, Zenon DEF ProgramPresents
  <1>5. CASE ProgramPresentsRect
    <2>1. PICK x \in {-1, 1}, w \in {1, Cols} : scr' = PresentRect(scr, x, 0, w, Rows)
      BY <1>5, Zenon DEF ProgramPresentsRect
    <2> DEFINE x0 == IF x < 0 THEN 0 ELSE x
               y0 == IF 0 < 0 THEN 0 ELSE 0
               x1 == IF x + w > Cols THEN Cols ELSE x + w
               y1 == IF 0 + Rows > Rows THEN Rows ELSE 0 + Rows
               inside == {<<a, b>> : a \in x0 .. x1 - 1, b \in y0 .. y1 - 1}
               l == [i \in DOMAIN scr.lfb |->
                      IF <<i % Pitch, i \div Pitch>> \in inside THEN scr.back[<<i % Pitch, i \div Pitch>>]
                      ELSE scr.lfb[i]]
    <2>2. scr' = [scr EXCEPT !.lfb = l]
      BY <2>1 DEF PresentRect
    <2>3. inside \subseteq Cells
      <3>1. x0 \in Nat /\ y0 \in Nat /\ x1 \in Int /\ y1 \in Int /\ x1 <= Cols /\ y1 <= Rows
        BY ScreenIs
      <3> HIDE DEF x0, y0, x1, y1
      <3>2. x0 .. x1 - 1 \subseteq 0 .. Cols - 1 /\ y0 .. y1 - 1 \subseteq 0 .. Rows - 1
        BY <3>1, ScreenIs
      <3> QED  BY <3>2 DEF Cells
    <2> HIDE DEF inside
    <2>4. l \in [Addresses -> Chars]
      BY <1>1, <2>3
    <2> HIDE DEF l
    <2> QED  BY <2>2, <2>4, Zenon DEF ScrState
  <1>6. CASE ProgramLogs
    BY <1>6, PrintkIs, TextsAre DEF ProgramLogs
  <1> QED  BY <1>2, <1>3, <1>4, <1>5, <1>6

\* A program that is started has an empty screen; one that is not leaves a message.
LEMMA StartIs ==
  ASSUME NEW on, on \subseteq BOOLEAN, NEW t \in ScrState(on), NEW kind, Start(t, kind)
  PROVE  \/ /\ scr' \in ScrState(BOOLEAN) /\ progs' = Append(progs, kind) /\ phase' = "program"
         \/ /\ scr' \in ScrState(on) /\ (t \in Screens => Shown(scr'))
            /\ phase' = (IF progs = <<>> THEN "handling" ELSE "program") /\ progs' = progs
  <1>1. CASE scr' = Present(Cleared([t EXCEPT !.on = FALSE])) /\ progs' = Append(progs, kind) /\ phase' = "program"
    <2>1. PICK u : u = [t EXCEPT !.on = FALSE]
      OBVIOUS
    <2>2. FALSE \in BOOLEAN
      OBVIOUS
    <2>3. u \in ScrState(BOOLEAN)
      BY <2>1, <2>2, Zenon DEF ScrState
    <2>4. Present(Cleared(u)) \in ScrState(BOOLEAN)
      BY <2>3, ClearedIs, PresentIs, Zenon
    <2> QED  BY <1>1, <2>1, <2>4, Zenon
  <1>2. CASE /\ scr' = Printk(t, Message) /\ phase' = (IF progs = <<>> THEN "handling" ELSE "program")
             /\ progs' = progs
    <2>1. Printk(t, Message) \in ScrState(on)
      BY TextsAre, PrintkIs, Zenon
    <2>2. t \in Screens => Shown(Printk(t, Message))
      BY TextsAre, PrintkLine, Zenon DEF Screens
    <2> QED  BY <1>2, <2>1, <2>2, Zenon
  <1> QED  BY <1>1, <1>2, Zenon DEF Start

LEMMA NameIsNoLine ==
  ASSUME NEW t, NEW e, e.mode = "name"
  PROVE  LineBehind(t, e)
  BY DEF LineBehind, LineModes

LEMMA BootKeeps ==
  ASSUME ConsoleInv, BootToText \/ BootToProgram
  PROVE  ConsoleInv'
  <1>1. /\ ed \in Editors /\ dirty \in BOOLEAN /\ progs = <<>> /\ scr \in Screens
        /\ dirty = FALSE /\ ed.mode = "name" /\ phase = "boot"
    BY DEF ConsoleInv, AtBoot, AtKeys, AtRest, InKls, InProgram, BootToText, BootToProgram
  <1>2. CASE BootToText
    <2>1. Printk(ClearConsole(scr), Message \o <<"nl">> \o Message) \in Screens
      BY <1>1, ScreensOn, TextsAre, Zenon
    <2>2. "name" \in Modes
      BY DEF Modes
    <2> QED  BY <1>1, <1>2, <2>1, <2>2, AskIs, KeysStay, Zenon DEF BootToText
  <1>3. CASE BootToProgram
    <2>1. Printk(ClearConsole(scr), Message \o Message) \in Screens
      BY <1>1, ScreensOn, TextsAre, Zenon
    <2>2. PICK kind \in Programs : Start(Printk(ClearConsole(scr), Message \o Message), kind)
      BY <1>3, Zenon DEF BootToProgram, Programs
    <2>3. ed' = ed /\ dirty' = dirty
      BY <1>3, Zenon DEF BootToProgram
    <2>4. \/ scr' \in ScrState(BOOLEAN) /\ progs' = Append(progs, kind) /\ phase' = "program"
          \/ /\ scr' \in Screens /\ Shown(scr') /\ progs' = progs
             /\ phase' = (IF progs = <<>> THEN "handling" ELSE "program")
      <3>1. {TRUE} \subseteq BOOLEAN
        OBVIOUS
      <3> QED  BY <2>1, <2>2, <3>1, StartIs, Zenon DEF Screens
    <2>5. CASE scr' \in ScrState(BOOLEAN) /\ progs' = Append(progs, kind) /\ phase' = "program"
      <3>1. progs' \in Seq(Programs) /\ progs' # <<>>
        BY <1>1, <2>5
      <3> QED  BY <1>1, <2>3, <2>5, <3>1, Zenon DEF ConsoleInv, InProgram
    <2>6. CASE /\ scr' \in Screens /\ Shown(scr') /\ progs' = progs
               /\ phase' = (IF progs = <<>> THEN "handling" ELSE "program")
      <3>1. phase' = "handling" /\ progs' = <<>> /\ LineBehind(scr', ed')
        BY <1>1, <2>3, <2>6, NameIsNoLine, Zenon
      <3> QED  BY <1>1, <2>3, <2>6, <3>1, KeysStay, Zenon
    <2> QED  BY <2>4, <2>5, <2>6
  <1> QED  BY <1>2, <1>3

\* shell_tick, and the interrupt after it.
LEMMA LoopKeeps ==
  ASSUME ConsoleInv, Tick \/ Wake
  PROVE  ConsoleInv'
  <1>1. CASE Tick
    <2>1. /\ ed \in Editors /\ dirty \in BOOLEAN /\ progs = <<>> /\ scr \in Screens
          /\ dirty = FALSE => Shown(scr)
          /\ LineBehind(scr, ed)
      BY <1>1, AtKeysIs, Zenon DEF Tick
    <2>2. scr' \in Screens /\ Shown(scr') /\ LineBehind(scr', ed)
      BY <1>1, <2>1, FlushLine, Zenon DEF Tick
    <2>3. FALSE \in BOOLEAN
      OBVIOUS
    <2> QED  BY <1>1, <2>1, <2>2, <2>3, Zenon DEF Tick, ConsoleInv, AtRest
  <1>2. CASE Wake
    <2>1. AtRest
      BY <1>2 DEF Wake, ConsoleInv, AtBoot, AtKeys, InKls, InProgram
    <2> QED  BY <1>2, <2>1, Zenon DEF Wake, AtRest, ConsoleInv, AtKeys
  <1> QED  BY <1>1, <1>2

LEMMA ProgramsKeep ==
  ASSUME ConsoleInv, phase = "program", ConsoleNext
  PROVE  ConsoleInv'
  <1>1. Running => phase = "program" /\ ed' = ed /\ dirty' = dirty
    BY DEF Running
  <1>2. InKls \/ InProgram
    BY DEF ConsoleInv, AtBoot, AtKeys, AtRest
  <1>3. ed \in Editors /\ dirty \in BOOLEAN
    BY DEF ConsoleInv
  <1>4. CASE ProgramDraws \/ ProgramClears \/ ProgramPresents \/ ProgramPresentsRect \/ ProgramLogs
    <2>0. Running
      BY <1>4 DEF Stepping, ProgramDraws, ProgramClears, ProgramPresents, ProgramPresentsRect, ProgramLogs
    <2>1. phase' = "program" /\ progs' = progs
      BY <1>4 DEF Stepping, ProgramDraws, ProgramClears, ProgramPresents, ProgramPresentsRect, ProgramLogs
    <2>2. \A on : on \subseteq BOOLEAN /\ scr \in ScrState(on) => scr' \in ScrState(on)
      BY <1>4, ProgramCalls
    <2>3. {TRUE} \subseteq BOOLEAN /\ BOOLEAN \subseteq BOOLEAN
      OBVIOUS
    <2> QED
      BY <1>1, <1>2, <1>3, <2>0, <2>1, <2>2, <2>3, Zenon DEF ConsoleInv, InKls, InProgram, Screens
  <1>5. CASE LoginStartsDesktop
    <2>1. InProgram
      <3>1. progs # <<"kls">>
        BY <1>5 DEF LoginStartsDesktop, Last
      <3> QED  BY <1>2, <3>1 DEF InKls
    <2>2. Printk(scr, Message \o Message) \in ScrState(BOOLEAN) /\ BOOLEAN \subseteq BOOLEAN
      BY <2>1, TextsAre, PrintkIs, Zenon DEF InProgram
    <2>3. \/ scr' \in ScrState(BOOLEAN) /\ progs' = Append(progs, "desktop") /\ phase' = "program"
          \/ /\ scr' \in ScrState(BOOLEAN) /\ progs' = progs
             /\ phase' = (IF progs = <<>> THEN "handling" ELSE "program")
      BY <1>5, <2>2, StartIs, Zenon DEF LoginStartsDesktop
    <2>4. Append(progs, "desktop") \in Seq(Programs) /\ Append(progs, "desktop") # <<>>
      BY <2>1 DEF InProgram, Programs
    <2> QED  BY <1>1, <1>3, <1>5, <2>1, <2>3, <2>4, Zenon DEF ConsoleInv, InProgram, LoginStartsDesktop
  <1>6. CASE ProgramReturns
    <2>1. InProgram
      <3>1. progs # <<"kls">>
        BY <1>6 DEF ProgramReturns, Last
      <3> QED  BY <1>2, <3>1 DEF InKls
    <2>2. progs' \in Seq(Programs)
      BY <1>6, <2>1 DEF InProgram, ProgramReturns, Front
    <2>3. scr' \in Screens /\ Shown(scr')
      <3>1. PICK u : u = [scr EXCEPT !.on = TRUE]
        OBVIOUS
      <3>2. scr \in ScrState(BOOLEAN)
        BY <2>1 DEF InProgram
      <3>3. u \in Screens
        BY <3>1, <3>2, Zenon DEF Screens, ScrState
      <3> QED  BY <1>6, <3>1, <3>3, TextsAre, PrintkLine, Zenon DEF ProgramReturns, Screens
    <2>4. CASE progs' = <<>>
      <3>1. phase' = "handling" /\ LineBehind(scr', ed')
        BY <1>1, <1>6, <2>1, <2>4, NameIsNoLine, Zenon DEF ProgramReturns, InProgram
      <3> QED  BY <1>1, <1>3, <1>6, <2>3, <2>4, <3>1, KeysStay, Zenon DEF ProgramReturns
    <2>5. CASE progs' # <<>>
      <3>1. phase' = "program" /\ scr' \in ScrState(BOOLEAN)
        BY <1>6, <2>3, <2>5, ScreensOn, Zenon DEF ProgramReturns
      <3> QED  BY <1>1, <1>3, <1>6, <2>1, <2>2, <2>5, <3>1, Zenon DEF ConsoleInv, InProgram, ProgramReturns
    <2> QED  BY <2>4, <2>5
  <1>7. phase # "handling" /\ phase # "boot" /\ phase # "halted"
    OBVIOUS
  <1>9. CASE KlsReturns
    <2>1. progs = <<"kls">> /\ AskShell(Printk(scr, Message)) /\ progs' = <<>> /\ phase' = "handling"
      BY <1>9, Zenon DEF KlsReturns
    <2>2. InKls
      <3>1. progs \notin Seq(Programs)
        BY <2>1 DEF Programs
      <3> QED  BY <1>2, <3>1 DEF InProgram
    <2>3. Printk(scr, Message) \in Screens
      BY <2>2, ScreensOn, TextsAre, Zenon DEF InKls
    <2> QED  BY <2>1, <2>3, AskShellIs, KeysStay, Zenon
  <1> QED
    BY <1>4, <1>5, <1>6, <1>7, <1>9, Zenon
       DEF ConsoleNext, Handling, ShellChar, ShellErase, ShellEnter, PasswdStarts, Logout, PasswdChar, PasswdErase,
           PasswdEnter, LoginChar, LoginErase, LoginEnter, LoginF1, Tick, Wake, BootToText, BootToProgram, Kls

LEMMA KlsKeeps ==
  ASSUME ConsoleInv, Kls
  PROVE  ConsoleInv'
  <1>1. ed \in Editors /\ scr \in Screens
    BY AtKeysIs, Zenon DEF Kls
  <1>2. scr' \in Screens /\ dirty' = TRUE /\ progs' = <<"kls">> /\ phase' = "program" /\ ed' = ed
    BY <1>1, ScreensOn, TextsAre, Zenon DEF Kls
  <1>3. TRUE \in BOOLEAN
    OBVIOUS
  <1> QED  BY <1>1, <1>2, <1>3, Zenon DEF ConsoleInv, InKls

\* The invariant behind both properties.
THEOREM ConsoleInvariant == ConsoleSpec => []ConsoleInv
  <1>1. ConsoleInv /\ [ConsoleNext]_consoleVars => ConsoleInv'
    <2> SUFFICES ASSUME ConsoleInv, [ConsoleNext]_consoleVars PROVE ConsoleInv'
      OBVIOUS
    <2>1. CASE UNCHANGED consoleVars
      BY <2>1, Zenon DEF consoleVars, ConsoleInv, AtBoot, AtKeys, AtRest, InKls, InProgram
    <2>2. CASE ConsoleNext
      <3>1. phase = "boot" \/ phase = "handling" \/ phase = "halted" \/ phase = "program"
        BY DEF ConsoleInv, AtBoot, AtKeys, AtRest, InKls, InProgram
      <3>2. CASE phase = "handling"
        <4>1. CASE Tick \/ Kls
          BY <4>1, LoopKeeps, KlsKeeps
        <4>2. CASE ~(Tick \/ Kls)
          <5>1. "handling" # "halted" /\ "handling" # "boot" /\ "handling" # "program"
            OBVIOUS
          <5>2. Handling
            BY <2>2, <3>2, <4>2, <5>1, Zenon
               DEF ConsoleNext, ShellChar, ShellErase, ShellEnter, PasswdStarts, Logout, PasswdChar, PasswdErase,
                   PasswdEnter, LoginChar, LoginErase, LoginEnter, LoginF1, Wake, BootToText, BootToProgram,
                   Running, Stepping, ProgramDraws, ProgramClears, ProgramPresents, ProgramPresentsRect, ProgramLogs,
                   LoginStartsDesktop, ProgramReturns, KlsReturns
          <5>3. phase' = "handling"
            BY <3>2, <5>2 DEF Handling
          <5> QED  BY <2>2, <3>2, <5>3, KeysKeep
        <4> QED  BY <4>1, <4>2
      <3>3. CASE phase = "program"
        BY <2>2, <3>3, ProgramsKeep
      <3>4. CASE phase = "boot" \/ phase = "halted"
        <4>1. phase # "handling" /\ phase # "program"
          BY <3>4
        <4>2. BootToText \/ BootToProgram \/ Wake
          BY <2>2, <4>1, Zenon
             DEF ConsoleNext, Handling, ShellChar, ShellErase, ShellEnter, PasswdStarts, Logout, PasswdChar,
                 PasswdErase, PasswdEnter, LoginChar, LoginErase, LoginEnter, LoginF1, Tick, Kls,
                 Running, Stepping, ProgramDraws, ProgramClears, ProgramPresents, ProgramPresentsRect, ProgramLogs,
                 LoginStartsDesktop, ProgramReturns, KlsReturns
        <4> QED  BY <4>2, BootKeeps, LoopKeeps
      <3> QED  BY <3>1, <3>2, <3>3, <3>4
    <2> QED  BY <2>1, <2>2
  <1> QED  BY <1>1, ConsoleInitially, PTL DEF ConsoleSpec

\* ScreenIsCurrent, whatever the editors, the commands and the programs print (shell.c,
\* session.c, cmd_passwd.c, printk.c, fb_console.c, fb.c).
THEOREM ScreenCurrentCorrect == ConsoleSpec => []ScreenIsCurrent
  <1>1. ConsoleInv => ScreenIsCurrent
    BY DEF ConsoleInv, AtBoot, AtKeys, AtRest, InKls, InProgram, Shown, ScreenIsCurrent
  <1> QED  BY <1>1, ConsoleInvariant, PTL

\* LineShown: the end of the prompt and the typed line stand to the left of the cursor.
THEOREM LineShownCorrect == ConsoleSpec => []LineShown
  <1>1. ConsoleInv => LineShown
    <2> SUFFICES ASSUME ConsoleInv, ed.mode \in LineModes, phase # "program" PROVE LineBehind(scr, ed)
      BY Zenon DEF LineShown, LineBehind, BehindN, LineOf, LineModes
    <2>1. AtBoot => ed.mode = "name"
      BY DEF AtBoot
    <2>2. ed.mode # "name"
      BY DEF LineModes
    <2> QED  BY <2>1, <2>2, Zenon DEF ConsoleInv, AtKeys, AtRest, InKls, InProgram
  <1> QED  BY <1>1, ConsoleInvariant, PTL

=============================================================================
