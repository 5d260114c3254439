---------------------------- MODULE E1000Proofs ----------------------------
(***************************************************************************)
(* Proofs about the network card, for rings and buses of every size and    *)
(* any number of frames: the card transmits what the driver gave it, in    *)
(* order, and the receive ring is the queue of FrameQueue.                 *)
(*                                                                         *)
(* A ring is described from its head: a descriptor is so many places       *)
(* behind it, and the places up to the tail are the card's (transmit) or   *)
(* wait for the driver (receive).                                          *)
(***************************************************************************)
EXTENDS E1000, SequenceTheorems, TLAPS

-----------------------------------------------------------------------------
(* Rings.                                                                  *)

\* The descriptor j places behind descriptor h in a ring of N.
Place(N, h, j) == IF h + j < N THEN h + j ELSE h + j - N

LEMMA PlaceIsSlot ==
  ASSUME NEW N \in Nat \ {0}, NEW h \in 0 .. N - 1, NEW j \in 0 .. N
  PROVE  Place(N, h, j) \in 0 .. N - 1
  BY DEF Place

LEMMA PlacesDiffer ==
  ASSUME NEW N \in Nat \ {0}, NEW h \in 0 .. N - 1, NEW i \in 0 .. N - 1, NEW j \in 0 .. N - 1, i # j
  PROVE  Place(N, h, i) # Place(N, h, j)
  BY DEF Place

\* A remainder within one turn of the ring.
LEMMA Remainder ==
  ASSUME NEW N \in Nat \ {0}, NEW x \in 1 - N .. 2 * N - 1
  PROVE  x % N = IF x < 0 THEN x + N ELSE IF x < N THEN x ELSE x - N
  <1>1. CASE x < 0
    <2>1. x \in (1 - N) .. (0 - 1)
      BY <1>1
    <2>2. x % N = x + N
      BY <2>1
    <2> QED  BY <1>1, <2>2
  <1>2. CASE x \in 0 .. N - 1
    BY <1>2
  <1>3. CASE x \in N .. 2 * N - 1
    <2>1. x % N = x - N
      BY <1>3
    <2> QED  BY <1>3, <2>1
  <1> QED  BY <1>1, <1>2, <1>3

LEMMA NextIsPlace ==
  ASSUME NEW N \in Nat \ {0, 1}, NEW h \in 0 .. N - 1
  PROVE  /\ (h + 1) % N = Place(N, h, 1)
         /\ (h + 1) % N \in 0 .. N - 1
         /\ \A j \in 0 .. N - 1 : /\ (Place(N, h, j) + 1) % N = Place(N, h, j + 1)
                                  /\ Place(N, (h + 1) % N, j) = Place(N, h, j + 1)
  <1>1. \A i \in 0 .. N - 1 : (i + 1) % N = IF i + 1 < N THEN i + 1 ELSE 0
    <2>1. SUFFICES ASSUME NEW i \in 0 .. N - 1
                   PROVE  (i + 1) % N = IF i + 1 < N THEN i + 1 ELSE 0
      OBVIOUS
    <2>2. PICK x \in 0 .. N : x = i + 1
      OBVIOUS
    <2>3. CASE x \in 0 .. N - 1
      BY <2>2, <2>3
    <2>4. CASE x = N
      <3>1. N % N = 0
        OBVIOUS
      <3> QED  BY <2>2, <2>4, <3>1
    <2> QED  BY <2>3, <2>4
  <1>2. (h + 1) % N = IF h + 1 < N THEN h + 1 ELSE 0
    BY <1>1
  <1>3. ASSUME NEW j \in 0 .. N - 1
        PROVE  /\ (Place(N, h, j) + 1) % N = Place(N, h, j + 1)
               /\ Place(N, (h + 1) % N, j) = Place(N, h, j + 1)
    <2>1. PICK i \in 0 .. N - 1 : i = Place(N, h, j)
      BY PlaceIsSlot
    <2>2. (i + 1) % N = IF i + 1 < N THEN i + 1 ELSE 0
      BY <1>1
    <2>3. (i + 1) % N = Place(N, h, j + 1)
      BY <2>1, <2>2 DEF Place
    <2>4. Place(N, (h + 1) % N, j) = Place(N, h, j + 1)
      BY <1>2 DEF Place
    <2> QED  BY <2>1, <2>3, <2>4
  <1>4. (h + 1) % N = Place(N, h, 1) /\ (h + 1) % N \in 0 .. N - 1
    BY <1>2 DEF Place
  <1> QED  BY <1>3, <1>4

-----------------------------------------------------------------------------
(* The types.                                                              *)

TxRing == 0 .. TxSlots - 1
RxRing == 0 .. RxSlots - 1

TxState == [buf : [TxRing -> Nat], dd : [TxRing -> BOOLEAN], next : TxRing]
RxState == [buf : [RxRing -> Nat], dd : [RxRing -> BOOLEAN], next : RxRing]
CardState ==
  [tdh : TxRing, tdt : TxRing, rdh : RxRing, rdt : RxRing, missed : Nat,
   on : SUBSET {"master", "link", "transmitter", "receiver"}, link : BOOLEAN]

ProbeLabels == {"command", "reset", "link up", "link wait", "tx ring", "tx on", "rx ring", "rx on", "ready"}
CallLabels == {"doorbell", "spin", "copy", "clear", "release"}
CpuState == [pc : {"scan", "idle"} \cup ProbeLabels \cup CallLabels, frame : Nat]

TypeInv ==
  /\ tx \in TxState /\ rx \in RxState /\ card \in CardState /\ cpu \in CpuState
  /\ sent \in Seq(Nat) /\ wire \in Seq(Nat) /\ arrived \in Nat /\ got \in Seq(Nat)

LEMMA MemoriesAreStates ==
  /\ \A done \in BOOLEAN : TxMemory(done) \in TxState
  /\ RxMemory \in RxState /\ PoweredOn \in CardState
  <1>1. 0 \in TxRing /\ 0 \in RxRing
    BY SlotsAssumption DEF TxRing, RxRing
  <1>2. ASSUME NEW done \in BOOLEAN PROVE TxMemory(done) \in TxState
    <2>1. [i \in TxRing |-> NoFrame] \in [TxRing -> Nat] /\ [i \in TxRing |-> done] \in [TxRing -> BOOLEAN]
      BY DEF NoFrame
    <2> QED  BY <1>1, <2>1 DEF TxMemory, TxState, TxRing
  <1>3. RxMemory \in RxState
    <2>1. [i \in RxRing |-> NoFrame] \in [RxRing -> Nat] /\ [i \in RxRing |-> FALSE] \in [RxRing -> BOOLEAN]
      BY DEF NoFrame
    <2> QED  BY <1>1, <2>1 DEF RxMemory, RxState, RxRing
  <1> QED  BY <1>1, <1>2, <1>3 DEF PoweredOn, CardState

LEMMA GotoMeans ==
  ASSUME cpu \in CpuState, NEW label \in {"scan", "idle"} \cup ProbeLabels \cup CallLabels, Goto(label)
  PROVE  cpu' \in CpuState /\ cpu'.pc = label /\ cpu'.frame = cpu.frame
  BY DEF Goto, CpuState

LEMMA SwitchOnMeans ==
  ASSUME card \in CardState, NEW part \in {"master", "link", "transmitter", "receiver"}, SwitchOn(part)
  PROVE  /\ card' \in CardState /\ card'.on = card.on \cup {part}
         /\ UNCHANGED <<card.tdh, card.tdt, card.rdh, card.rdt, card.missed, card.link>>
  <1>1. card.on \cup {part} \in SUBSET {"master", "link", "transmitter", "receiver"}
    BY DEF CardState
  <1> QED  BY <1>1 DEF SwitchOn, CardState

-----------------------------------------------------------------------------
(* The start: what the scan has seen, and what is set up.                  *)

Before(p, q) == p[1] < q[1] \/ (p[1] = q[1] /\ p[2] < q[2])

\* The card is found once: behind it the scan finds no other.
BootInv ==
  /\ cpu.pc \in {"scan"} \cup ProbeLabels =>
       /\ pci.at \in Nat \X Nat /\ DOMAIN pci = {"at", "fn", "multi"} /\ OneCard(pci)
       /\ cpu.pc # "scan" => ~ready /\ pci.at \in Functions /\ pci.fn[pci.at] = "e1000"
       /\ cpu.pc = "scan" /\ ready => \A p \in Functions : pci.fn[p] = "e1000" => Before(p, pci.at)
  /\ cpu.pc \in CallLabels => ready

LEMMA AfterIsLater ==
  ASSUME NEW p \in Nat \X Nat
  PROVE  /\ After(p) \in Nat \X Nat
         /\ \A q \in Nat \X Nat : Before(q, p) \/ q = p => Before(q, After(p))
  <1>1. p[1] \in Nat /\ p[2] \in Nat /\ p = <<p[1], p[2]>>
    OBVIOUS
  <1>2. After(p) = <<p[1] + 1, 0>> \/ After(p) = <<p[1], p[2] + 1>>
    BY DEF After, NextSlot, NextFunc
  <1>3. ASSUME NEW q \in Nat \X Nat, Before(q, p) \/ q = p
        PROVE  Before(q, After(p))
    <2>1. q[1] \in Nat /\ q[2] \in Nat
      OBVIOUS
    <2>2. q[1] < p[1] \/ (q[1] = p[1] /\ q[2] <= p[2])
      BY <1>1, <1>3, <2>1 DEF Before
    <2> QED  BY <1>1, <1>2, <2>1, <2>2 DEF Before
  <1> QED  BY <1>1, <1>2, <1>3

LEMMA FunctionsArePairs == Functions \subseteq Nat \X Nat
  BY BusAssumption DEF Functions

-----------------------------------------------------------------------------
(* What the steps do, field by field.                                      *)

LEMMA RingsAreNat ==
  /\ TxSlots \in Nat \ {0} /\ RxSlots \in Nat \ {0}
  /\ \A i \in TxRing : NextTx(i) \in TxRing
  /\ \A i \in RxRing : NextRx(i) \in RxRing
  BY SlotsAssumption, NextIsPlace DEF TxRing, RxRing, NextTx, NextRx

LEMMA FillMeans ==
  ASSUME TypeInv, SendFill
  PROVE  /\ tx' \in TxState /\ tx'.next = tx.next /\ tx.dd[tx.next] /\ ready
         /\ tx'.buf = [tx.buf EXCEPT ![tx.next] = Len(sent) + 1]
         /\ tx'.dd = [tx.dd EXCEPT ![tx.next] = FALSE]
         /\ cpu' \in CpuState /\ cpu.pc = "idle" /\ cpu'.pc = "doorbell" /\ cpu'.frame = cpu.frame
         /\ UNCHANGED <<rx, card, sent, wire, arrived, got>>
  <1>1. Len(sent) + 1 \in Nat
    BY DEF TypeInv
  <1> DEFINE buf == [tx.buf EXCEPT ![tx.next] = Len(sent) + 1]
             dd  == [tx.dd EXCEPT ![tx.next] = FALSE]
  <1>2. buf \in [TxRing -> Nat] /\ dd \in [TxRing -> BOOLEAN]
    BY <1>1 DEF TypeInv, TxState
  <1>3. tx' = [tx EXCEPT !.buf = buf, !.dd = dd]
    BY DEF SendFill, TypeInv, TxState
  <1> HIDE DEF buf, dd
  <1>4. tx' \in TxState /\ tx'.next = tx.next /\ tx'.buf = buf /\ tx'.dd = dd
    BY <1>2, <1>3 DEF TypeInv, TxState
  <1>5. cpu' \in CpuState /\ cpu.pc = "idle" /\ cpu'.pc = "doorbell" /\ cpu'.frame = cpu.frame
    BY GotoMeans DEF TypeInv, SendFill, At, CallLabels
  <1> QED  BY <1>4, <1>5 DEF SendFill, buf, dd

LEMMA DoorbellMeans ==
  ASSUME TypeInv, SendDoorbell
  PROVE  /\ card' \in CardState /\ card'.tdt = NextTx(tx.next)
         /\ UNCHANGED <<card.tdh, card.rdh, card.rdt, card.missed, card.on>>
         /\ sent' \in Seq(Nat) /\ sent' = Append(sent, tx.buf[tx.next])
         /\ cpu' \in CpuState /\ cpu.pc = "doorbell" /\ cpu'.pc = "spin" /\ cpu'.frame = cpu.frame
         /\ UNCHANGED <<tx, rx, wire, arrived, got>>
  <1> DEFINE tdt == NextTx(tx.next)
             f   == tx.buf[tx.next]
  <1>1. tdt \in TxRing /\ f \in Nat
    BY RingsAreNat DEF TypeInv, TxState
  <1>2. card' = [card EXCEPT !.tdt = tdt] /\ sent' = Append(sent, f)
    BY DEF SendDoorbell
  <1>3. cpu' \in CpuState /\ cpu.pc = "doorbell" /\ cpu'.pc = "spin" /\ cpu'.frame = cpu.frame
    BY GotoMeans DEF TypeInv, SendDoorbell, At, CallLabels
  <1> HIDE DEF tdt, f
  <1>4. /\ card' \in CardState /\ card'.tdt = tdt
        /\ UNCHANGED <<card.tdh, card.rdh, card.rdt, card.missed, card.on>>
    BY <1>1, <1>2 DEF TypeInv, CardState
  <1>5. sent' \in Seq(Nat)
    BY <1>1, <1>2 DEF TypeInv
  <1> QED  BY <1>2, <1>3, <1>4, <1>5 DEF SendDoorbell, tdt, f

LEMMA ReturnMeans ==
  ASSUME TypeInv, SendReturn
  PROVE  /\ tx' \in TxState /\ tx'.next = NextTx(tx.next) /\ tx'.buf = tx.buf /\ tx'.dd = tx.dd
         /\ cpu' \in CpuState /\ cpu.pc = "spin" /\ cpu'.pc = "idle" /\ cpu'.frame = cpu.frame
         /\ UNCHANGED <<rx, card, sent, wire, arrived, got>>
  <1> DEFINE next == NextTx(tx.next)
  <1>1. next \in TxRing
    BY RingsAreNat DEF TypeInv, TxState
  <1>2. tx' = [tx EXCEPT !.next = next]
    BY DEF SendReturn
  <1>3. cpu' \in CpuState /\ cpu.pc = "spin" /\ cpu'.pc = "idle" /\ cpu'.frame = cpu.frame
    BY GotoMeans DEF TypeInv, SendReturn, At
  <1> HIDE DEF next
  <1>4. tx' \in TxState /\ tx'.next = next /\ tx'.buf = tx.buf /\ tx'.dd = tx.dd
    BY <1>1, <1>2 DEF TypeInv, TxState
  <1> QED  BY <1>3, <1>4 DEF SendReturn, next

LEMMA TransmitsMeans ==
  ASSUME TypeInv, CardTransmits
  PROVE  /\ card' \in CardState /\ card'.tdh = NextTx(card.tdh) /\ card.tdh # card.tdt
         /\ UNCHANGED <<card.tdt, card.rdh, card.rdt, card.missed, card.on>>
         /\ "transmitter" \in card.on
         /\ wire' \in Seq(Nat) /\ wire' = Append(wire, tx.buf[card.tdh])
         /\ tx' \in TxState /\ tx'.next = tx.next /\ tx'.buf = tx.buf
         /\ tx'.dd = [tx.dd EXCEPT ![card.tdh] = TRUE]
         /\ UNCHANGED <<rx, cpu, sent, arrived, got>>
  <1> DEFINE tdh == NextTx(card.tdh)
             f   == tx.buf[card.tdh]
             dd  == [tx.dd EXCEPT ![card.tdh] = TRUE]
  <1>1. tdh \in TxRing /\ f \in Nat /\ dd \in [TxRing -> BOOLEAN]
    BY RingsAreNat DEF TypeInv, TxState, CardState
  <1>2. card' = [card EXCEPT !.tdh = tdh] /\ wire' = Append(wire, f)
    BY DEF CardTransmits
  <1>3. tx' = [tx EXCEPT !.dd = dd]
    BY DEF CardTransmits, TypeInv, TxState
  <1> HIDE DEF tdh, f, dd
  <1>4. /\ card' \in CardState /\ card'.tdh = tdh
        /\ UNCHANGED <<card.tdt, card.rdh, card.rdt, card.missed, card.on>>
    BY <1>1, <1>2 DEF TypeInv, CardState
  <1>5. tx' \in TxState /\ tx'.next = tx.next /\ tx'.buf = tx.buf /\ tx'.dd = dd
    BY <1>1, <1>3 DEF TypeInv, TxState
  <1>6. wire' \in Seq(Nat)
    BY <1>1, <1>2 DEF TypeInv
  <1> QED  BY <1>2, <1>4, <1>5, <1>6 DEF CardTransmits, tdh, f, dd

LEMMA ClearMeans ==
  ASSUME TypeInv, RxClear
  PROVE  /\ rx' \in RxState /\ rx'.next = rx.next /\ rx'.buf = rx.buf
         /\ rx'.dd = [rx.dd EXCEPT ![rx.next] = FALSE]
         /\ cpu' \in CpuState /\ cpu.pc = "clear" /\ cpu'.pc = "release" /\ cpu'.frame = cpu.frame
         /\ UNCHANGED <<tx, card, sent, wire, arrived, got>>
  <1> DEFINE dd == [rx.dd EXCEPT ![rx.next] = FALSE]
  <1>1. dd \in [RxRing -> BOOLEAN]
    BY DEF TypeInv, RxState
  <1>2. rx' = [rx EXCEPT !.dd = dd]
    BY DEF RxClear, TypeInv, RxState
  <1>3. cpu' \in CpuState /\ cpu.pc = "clear" /\ cpu'.pc = "release" /\ cpu'.frame = cpu.frame
    BY GotoMeans DEF TypeInv, RxClear, At, CallLabels
  <1> HIDE DEF dd
  <1>4. rx' \in RxState /\ rx'.next = rx.next /\ rx'.buf = rx.buf /\ rx'.dd = dd
    BY <1>1, <1>2 DEF TypeInv, RxState
  <1> QED  BY <1>3, <1>4 DEF RxClear, dd

LEMMA ReleaseMeans ==
  ASSUME TypeInv, RxRelease
  PROVE  /\ rx' \in RxState /\ rx'.next = NextRx(rx.next) /\ rx'.buf = rx.buf /\ rx'.dd = rx.dd
         /\ card' \in CardState /\ card'.rdt = rx.next
         /\ UNCHANGED <<card.tdh, card.tdt, card.rdh, card.missed, card.on>>
         /\ got' \in Seq(Nat) /\ got' = Append(got, cpu.frame)
         /\ cpu' \in CpuState /\ cpu.pc = "release" /\ cpu'.pc = "idle"
         /\ UNCHANGED <<tx, sent, wire, arrived>>
  <1> DEFINE next == NextRx(rx.next)
             rdt  == rx.next
  <1>1. next \in RxRing /\ rdt \in RxRing /\ cpu.frame \in Nat
    BY RingsAreNat DEF TypeInv, RxState, CpuState
  <1>2. rx' = [rx EXCEPT !.next = next] /\ card' = [card EXCEPT !.rdt = rdt]
    BY DEF RxRelease
  <1>3. cpu' = [pc |-> "idle", frame |-> NoFrame] /\ cpu.pc = "release"
    BY DEF RxRelease, At
  <1>4. cpu' \in CpuState /\ cpu'.pc = "idle"
    BY <1>3 DEF CpuState, NoFrame
  <1> HIDE DEF next, rdt
  <1>5. rx' \in RxState /\ rx'.next = next /\ rx'.buf = rx.buf /\ rx'.dd = rx.dd
    BY <1>1, <1>2 DEF TypeInv, RxState
  <1>6. /\ card' \in CardState /\ card'.rdt = rdt
        /\ UNCHANGED <<card.tdh, card.tdt, card.rdh, card.missed, card.on>>
    BY <1>1, <1>2 DEF TypeInv, CardState
  <1>7. got' \in Seq(Nat) /\ got' = Append(got, cpu.frame)
    BY <1>1 DEF RxRelease, TypeInv
  <1> QED  BY <1>3, <1>4, <1>5, <1>6, <1>7 DEF RxRelease, next, rdt

\* A frame that comes in is stored at the head, or missed.
LEMMA ReceivesMeans ==
  ASSUME TypeInv, CardReceives
  PROVE  /\ card' \in CardState /\ rx' \in RxState /\ rx'.next = rx.next /\ "receiver" \in card.on
         /\ UNCHANGED <<card.tdh, card.tdt, card.rdt, card.on>>
         /\ arrived' \in Nat /\ arrived' \in 1 .. MaxArrivals
         /\ UNCHANGED <<tx, cpu, sent, wire, got>>
         /\ \/ card.rdh = card.rdt /\ rx' = rx /\ card'.rdh = card.rdh /\ card'.missed = card.missed + 1
            \/ /\ card.rdh # card.rdt /\ card'.rdh = NextRx(card.rdh) /\ card'.missed = card.missed
               /\ rx'.buf = [rx.buf EXCEPT ![card.rdh] = arrived']
               /\ rx'.dd = [rx.dd EXCEPT ![card.rdh] = TRUE]
  <1>1. /\ arrived' \in Nat /\ arrived' \in 1 .. MaxArrivals /\ arrived' = arrived + 1
        /\ "receiver" \in card.on /\ UNCHANGED <<tx, cpu, sent, wire, got>>
    BY BoundsAssumption DEF CardReceives, TypeInv
  <1>2. CASE card.rdh = card.rdt
    <2> DEFINE missed == card.missed + 1
    <2>1. card' = [card EXCEPT !.missed = missed] /\ rx' = rx /\ missed \in Nat
      BY <1>2 DEF CardReceives, TypeInv, CardState
    <2> HIDE DEF missed
    <2>2. /\ card' \in CardState /\ card'.missed = missed
          /\ UNCHANGED <<card.tdh, card.tdt, card.rdh, card.rdt, card.on>>
      BY <2>1 DEF TypeInv, CardState
    <2> QED  BY <1>1, <1>2, <2>1, <2>2 DEF missed, TypeInv
  <1>3. CASE card.rdh # card.rdt
    <2> DEFINE rdh == NextRx(card.rdh)
               f   == arrived + 1
               buf == [rx.buf EXCEPT ![card.rdh] = f]
               dd  == [rx.dd EXCEPT ![card.rdh] = TRUE]
    <2>1. rdh \in RxRing /\ f \in Nat /\ dd \in [RxRing -> BOOLEAN]
      BY RingsAreNat DEF TypeInv, RxState, CardState
    <2>2. buf \in [RxRing -> Nat]
      <3> HIDE DEF f
      <3> QED  BY <2>1 DEF TypeInv, RxState
    <2>3. card' = [card EXCEPT !.rdh = rdh]
      BY <1>3 DEF CardReceives
    <2>4. rx' = [rx EXCEPT !.buf = buf, !.dd = dd]
      BY <1>3 DEF CardReceives, TypeInv, RxState
    <2> HIDE DEF rdh, buf, dd
    <2>5. /\ card' \in CardState /\ card'.rdh = rdh
          /\ UNCHANGED <<card.tdh, card.tdt, card.rdt, card.missed, card.on>>
      BY <2>1, <2>3 DEF TypeInv, CardState
    <2>6. rx' \in RxState /\ rx'.next = rx.next /\ rx'.buf = buf /\ rx'.dd = dd
      BY <2>1, <2>2, <2>4 DEF TypeInv, RxState
    <2> QED  BY <1>1, <1>3, <2>5, <2>6 DEF rdh, buf, dd
  <1> QED  BY <1>2, <1>3

LEMMA CopyMeans ==
  ASSUME TypeInv, RxCopy
  PROVE  /\ cpu' \in CpuState /\ cpu.pc = "copy" /\ cpu'.pc = "clear" /\ cpu'.frame = rx.buf[rx.next]
         /\ UNCHANGED <<tx, rx, card, sent, wire, arrived, got>>
  <1>1. rx.buf[rx.next] \in Nat
    BY DEF TypeInv, RxState
  <1> QED  BY <1>1 DEF RxCopy, At, CpuState, CallLabels

LEMMA FoundMeans ==
  ASSUME TypeInv, RxFound
  PROVE  /\ cpu' \in CpuState /\ cpu.pc = "idle" /\ cpu'.pc = "copy" /\ ready /\ rx.dd[rx.next]
         /\ UNCHANGED <<tx, rx, card, sent, wire, arrived, got>>
  BY GotoMeans DEF RxFound, TypeInv, At, CallLabels

LEMMA LinkUpMeans ==
  ASSUME TypeInv, CardLinkUp
  PROVE  /\ card' \in CardState
         /\ UNCHANGED <<card.tdh, card.tdt, card.rdh, card.rdt, card.missed, card.on>>
         /\ UNCHANGED <<tx, rx, cpu, sent, wire, arrived, got>>
  BY DEF CardLinkUp, TypeInv, CardState

\* The steps of the start, up to the rings: the heads and tails stay, and only the parts
\* named are switched on.
LEMMA ProbeMeans ==
  ASSUME TypeInv, ProbeCommand \/ ProbeReset \/ ForceLinkUp \/ LinkWaited
  PROVE  /\ card' \in CardState /\ UNCHANGED <<pci, ready, tx, rx>>
         /\ cpu' \in CpuState /\ cpu'.frame = cpu.frame
         /\ <<cpu.pc, cpu'.pc>> \in {<<"command", "reset">>, <<"reset", "link up">>,
                                     <<"link up", "link wait">>, <<"link wait", "tx ring">>}
         /\ card'.on \subseteq card.on \cup {"master", "link"}
         /\ card'.rdh \in {card.rdh, 0} /\ card'.missed \in {card.missed, 0}
  <1> USE DEF TypeInv, At, ProbeLabels
  <1>1. CASE ProbeCommand
    BY <1>1, GotoMeans, SwitchOnMeans DEF ProbeCommand
  <1>2. CASE ProbeReset
    <2> DEFINE on == card.on \cap {"master"}
    <2>1. card' = [PoweredOn EXCEPT !.on = on] /\ on \in SUBSET {"master", "link", "transmitter", "receiver"}
      BY <1>2 DEF ProbeReset
    <2>2. on \subseteq card.on
      OBVIOUS
    <2> HIDE DEF on
    <2>3. card' \in CardState /\ card'.on = on
      BY <2>1, MemoriesAreStates DEF CardState
    <2>4. card'.rdh = 0 /\ card'.missed = 0
      BY <2>1 DEF PoweredOn
    <2> QED  BY <1>2, <2>2, <2>3, <2>4, GotoMeans DEF ProbeReset
  <1>3. CASE ForceLinkUp
    BY <1>3, GotoMeans, SwitchOnMeans DEF ForceLinkUp
  <1>4. CASE LinkWaited
    BY <1>4, GotoMeans DEF LinkWaited
  <1> QED  BY <1>1, <1>2, <1>3, <1>4

LEMMA RingsMean ==
  ASSUME TypeInv, TxInit \/ TxOn \/ RxInit \/ RxOn
  PROVE  /\ card' \in CardState /\ UNCHANGED <<pci, ready>> /\ tx' \in TxState /\ rx' \in RxState
         /\ cpu' \in CpuState /\ cpu'.frame = cpu.frame /\ card'.missed = card.missed
         /\ \/ /\ cpu.pc = "tx ring" /\ cpu'.pc = "tx on"
               /\ tx' = TxMemory(TRUE) /\ card'.tdh = 0 /\ card'.tdt = 0
               /\ UNCHANGED <<rx, card.on, card.rdh, card.rdt>>
            \/ /\ cpu.pc = "tx on" /\ cpu'.pc = "rx ring" /\ card'.on = card.on \cup {"transmitter"}
               /\ UNCHANGED <<tx, rx, card.tdh, card.tdt, card.rdh, card.rdt>>
            \/ /\ cpu.pc = "rx ring" /\ cpu'.pc = "rx on"
               /\ rx' = RxMemory /\ card'.rdh = 0 /\ card'.rdt = RxSlots - 1
               /\ UNCHANGED <<tx, card.on, card.tdh, card.tdt>>
            \/ /\ cpu.pc = "rx on" /\ cpu'.pc = "ready" /\ card'.on = card.on \cup {"receiver"}
               /\ UNCHANGED <<tx, rx, card.tdh, card.tdt, card.rdh, card.rdt>>
  <1> USE DEF TypeInv, At, ProbeLabels
  <1>1. CASE TxInit
    <2>0. 0 \in TxRing
      BY SlotsAssumption DEF TxRing
    <2>1. card' = [card EXCEPT !.tdh = 0, !.tdt = 0]
      BY <1>1 DEF TxInit
    <2>2. /\ card' \in CardState /\ card'.tdh = 0 /\ card'.tdt = 0
          /\ UNCHANGED <<card.on, card.rdh, card.rdt, card.missed>>
      BY <2>0, <2>1 DEF CardState
    <2> QED  BY <1>1, <2>2, MemoriesAreStates, GotoMeans DEF TxInit
  <1>2. CASE TxOn
    BY <1>2, GotoMeans, SwitchOnMeans DEF TxOn
  <1>3. CASE RxInit
    <2> DEFINE last == RxSlots - 1
    <2>0. 0 \in RxRing /\ last \in RxRing
      BY SlotsAssumption DEF RxRing
    <2>1. card' = [card EXCEPT !.rdh = 0, !.rdt = last]
      BY <1>3 DEF RxInit
    <2> HIDE DEF last
    <2>2. /\ card' \in CardState /\ card'.rdh = 0 /\ card'.rdt = last
          /\ UNCHANGED <<card.on, card.tdh, card.tdt, card.missed>>
      BY <2>0, <2>1 DEF CardState
    <2> QED  BY <1>3, <2>2, MemoriesAreStates, GotoMeans DEF RxInit, last
  <1>4. CASE RxOn
    BY <1>4, GotoMeans, SwitchOnMeans DEF RxOn
  <1> QED  BY <1>1, <1>2, <1>3, <1>4

LEMMA ScanMeans ==
  ASSUME TypeInv, Scan \/ ProbeReady
  PROVE  /\ UNCHANGED <<tx, rx, card>> /\ cpu' \in CpuState /\ cpu'.frame = cpu.frame
         /\ \/ cpu.pc = "scan" /\ cpu'.pc \in {"scan", "command", "idle"} /\ ready' = ready
            \/ cpu.pc = "ready" /\ cpu'.pc = "scan" /\ ready' = TRUE
  <1> USE DEF TypeInv, At, ProbeLabels
  <1>1. CASE ScanPasses
    BY <1>1 DEF ScanPasses, Scanning
  <1>2. CASE ScanFinds
    BY <1>2, GotoMeans DEF ScanFinds, Scanning
  <1>3. CASE ScanEnds
    BY <1>3, GotoMeans DEF ScanEnds
  <1>4. CASE ProbeReady
    BY <1>4, GotoMeans DEF ProbeReady
  <1> QED  BY <1>1, <1>2, <1>3, <1>4 DEF Scan

-----------------------------------------------------------------------------

StartStep == (Scan \/ Probe) /\ UNCHANGED <<sent, wire, arrived, got>>
RunStep == (Send \/ Pop \/ CardLinkUp \/ CardTransmits \/ CardReceives) /\ UNCHANGED start

LEMMA TypeInit == ASSUME Init PROVE TypeInv
  <1>1. TxMemory(FALSE) \in TxState
    BY MemoriesAreStates
  <1>2. cpu \in CpuState /\ <<>> \in Seq(Nat)
    BY DEF Init, CpuState, NoFrame
  <1> QED  BY <1>1, <1>2, MemoriesAreStates DEF Init, TypeInv

LEMMA TypeStep ==
  ASSUME TypeInv, [Next]_vars
  PROVE  TypeInv'
  <1>1. CASE UNCHANGED vars
    BY <1>1 DEF vars, TypeInv
  <1>2. CASE StartStep
    <2>1. UNCHANGED <<sent, wire, arrived, got>> /\ card' \in CardState /\ cpu' \in CpuState
          /\ tx' \in TxState /\ rx' \in RxState
      BY <1>2, ScanMeans, ProbeMeans, RingsMean DEF StartStep, Probe, TypeInv
    <2> QED  BY <2>1 DEF TypeInv
  <1>3. CASE Send
    BY <1>3, FillMeans, DoorbellMeans, ReturnMeans DEF Send, TypeInv
  <1>4. CASE Pop
    BY <1>4, FoundMeans, CopyMeans, ClearMeans, ReleaseMeans DEF Pop, TypeInv
  <1>5. CASE CardLinkUp \/ CardTransmits \/ CardReceives
    BY <1>5, LinkUpMeans, TransmitsMeans, ReceivesMeans DEF TypeInv
  <1> QED  BY <1>1, <1>2, <1>3, <1>4, <1>5 DEF Next, StartStep

LEMMA BootInit == ASSUME Init PROVE BootInv
  <1>1. PICK bus \in Buses : OneCard(bus) /\ pci = bus
    BY DEF Init
  <1>2. pci.at = <<0, 0>> /\ DOMAIN pci = {"at", "fn", "multi"}
    BY <1>1 DEF Buses
  <1>3. pci.at \in Nat \X Nat
    BY <1>2
  <1> QED  BY <1>1, <1>2, <1>3 DEF Init, BootInv, ProbeLabels, CallLabels

LEMMA BootStep ==
  ASSUME TypeInv, BootInv, [Next]_vars
  PROVE  BootInv'
  <1>1. CASE UNCHANGED vars
    BY <1>1 DEF vars, BootInv, OneCard
  <1>2. CASE RunStep
    <2>1. cpu.pc \in {"idle"} \cup CallLabels \/ cpu' = cpu
      BY <1>2, FillMeans, DoorbellMeans, ReturnMeans, FoundMeans, CopyMeans, ClearMeans, ReleaseMeans,
         LinkUpMeans, TransmitsMeans, ReceivesMeans DEF RunStep, Send, Pop, CallLabels
    <2>2. CASE cpu' = cpu
      BY <1>2, <2>2 DEF RunStep, start, BootInv, OneCard
    <2>3. CASE cpu' # cpu
      <3>1. cpu'.pc \in {"idle"} \cup CallLabels /\ (cpu.pc = "idle" => ready)
        BY <1>2, <2>3, FillMeans, DoorbellMeans, ReturnMeans, FoundMeans, CopyMeans, ClearMeans, ReleaseMeans,
           LinkUpMeans, TransmitsMeans, ReceivesMeans DEF RunStep, Send, Pop, CallLabels
      <3>2. ready /\ ready' = ready
        BY <1>2, <2>1, <2>3, <3>1 DEF BootInv, RunStep, start, CallLabels
      <3>3. cpu'.pc \notin {"scan"} \cup ProbeLabels
        BY <3>1 DEF CallLabels, ProbeLabels
      <3> QED  BY <3>2, <3>3 DEF BootInv
    <2> QED  BY <2>2, <2>3
  <1>3. CASE StartStep
    <2>1. CASE ProbeCommand \/ ProbeReset \/ ForceLinkUp \/ LinkWaited
      <3>1. /\ UNCHANGED <<pci, ready>> /\ cpu.pc \in ProbeLabels /\ cpu'.pc \in ProbeLabels
        BY <2>1, ProbeMeans DEF ProbeLabels
      <3> QED  BY <3>1 DEF BootInv, ProbeLabels, CallLabels, OneCard
    <2>2. CASE TxInit \/ TxOn \/ RxInit \/ RxOn
      <3>1. /\ UNCHANGED <<pci, ready>> /\ cpu.pc \in ProbeLabels /\ cpu'.pc \in ProbeLabels
        BY <2>2, RingsMean DEF ProbeLabels
      <3> QED  BY <3>1 DEF BootInv, ProbeLabels, CallLabels, OneCard
    <2>3. CASE ScanFinds
      <3>1. /\ pci.at \in Functions /\ pci.fn[pci.at] = "e1000" /\ UNCHANGED <<pci, ready>>
            /\ cpu.pc = "scan" /\ cpu'.pc = "command"
        BY <2>3, GotoMeans DEF ScanFinds, Scanning, At, TypeInv, ProbeLabels
      <3>2. ~ready
        <4>1. ~Before(pci.at, pci.at)
          BY <3>1, FunctionsArePairs DEF Before
        <4> QED  BY <3>1, <4>1 DEF BootInv
      <3> QED  BY <3>1, <3>2 DEF BootInv, ProbeLabels, CallLabels, OneCard
    <2>4. CASE ScanEnds
      <3>1. cpu'.pc = "idle"
        BY <2>4, GotoMeans DEF ScanEnds, TypeInv
      <3> QED  BY <3>1 DEF BootInv, ProbeLabels, CallLabels
    <2>5. CASE ScanPasses \/ ProbeReady
      <3> DEFINE next == After(pci.at)
      <3>1. /\ pci.at \in Functions /\ cpu.pc \in {"scan", "ready"} /\ cpu'.pc = "scan"
            /\ pci' = [pci EXCEPT !.at = next]
            /\ cpu.pc = "scan" => pci.fn[pci.at] # "e1000" /\ ready' = ready
        BY <2>5, GotoMeans DEF ScanPasses, ProbeReady, Scanning, Passed, At, TypeInv, BootInv, ProbeLabels
      <3>2. pci.at \in Nat \X Nat /\ DOMAIN pci = {"at", "fn", "multi"} /\ OneCard(pci)
        BY <3>1 DEF BootInv, ProbeLabels
      <3>3. next \in Nat \X Nat /\ \A q \in Nat \X Nat : Before(q, pci.at) \/ q = pci.at => Before(q, next)
        BY <3>2, AfterIsLater
      <3> HIDE DEF next
      <3>4. pci'.at = next /\ pci'.fn = pci.fn /\ DOMAIN pci' = {"at", "fn", "multi"}
        BY <3>1, <3>2
      <3>5. OneCard(pci)'
        BY <3>2, <3>4 DEF OneCard
      <3>6. ASSUME NEW p \in Functions, ready', pci.fn[p] = "e1000"
            PROVE  Before(p, next)
        <4>1. p \in Nat \X Nat
          BY FunctionsArePairs
        <4>2. CASE cpu.pc = "scan"
          BY <3>1, <3>2, <3>3, <3>6, <4>1, <4>2 DEF BootInv
        <4>3. CASE cpu.pc = "ready"
          <5>1. pci.fn[pci.at] = "e1000"
            BY <4>3 DEF BootInv, ProbeLabels
          <5>2. p = pci.at
            BY <3>1, <3>2, <3>6, <5>1 DEF OneCard
          <5> QED  BY <3>3, <4>1, <5>2
        <4> QED  BY <3>1, <4>2, <4>3
      <3> QED  BY <3>1, <3>3, <3>4, <3>5, <3>6 DEF BootInv, ProbeLabels, CallLabels
    <2> QED  BY <1>3, <2>1, <2>2, <2>3, <2>4, <2>5 DEF StartStep, Scan, Probe
  <1> QED  BY <1>1, <1>2, <1>3 DEF Next, StartStep, RunStep

-----------------------------------------------------------------------------
(* Transmitting.                                                           *)

TxUp == ready \/ cpu.pc \in {"tx on", "rx ring", "rx on", "ready"}
Pending == Len(sent) - Len(wire)
Numbered(q) == \A k \in 1 .. Len(q) : q[k] = k

\* The descriptors from the head on hold the frames that are not transmitted yet, and the
\* next descriptor of the driver is the one behind them.
TxRunning ==
  /\ Numbered(sent) /\ Numbered(wire)
  /\ Pending \in 0 .. TxSlots /\ card.tdt = Place(TxSlots, card.tdh, Pending)
  /\ IF cpu.pc = "spin" THEN NextTx(tx.next) = card.tdt ELSE tx.next = card.tdt
  /\ \A j \in 0 .. Pending - 1 : /\ tx.buf[Place(TxSlots, card.tdh, j)] = Len(wire) + 1 + j
                                 /\ ~tx.dd[Place(TxSlots, card.tdh, j)]
  /\ cpu.pc = "doorbell" => Pending < TxSlots /\ tx.buf[tx.next] = Len(sent) + 1 /\ ~tx.dd[tx.next]

TxOff == "transmitter" \notin card.on /\ sent = <<>> /\ wire = <<>>

TxInv == IF TxUp THEN TxRunning ELSE TxOff

TxRest == cpu.pc \notin {"spin", "doorbell"}

LEMMA TxKept ==
  ASSUME TxInv, UNCHANGED <<tx, sent, wire, card.tdh, card.tdt>>, TxUp' <=> TxUp,
         "transmitter" \in card'.on => TxUp \/ "transmitter" \in card.on,
         cpu'.pc = cpu.pc \/ (TxRest /\ TxRest')
  PROVE  TxInv'
  BY DEF TxInv, TxRunning, TxOff, Pending, Numbered, TxRest

LEMMA TxPlaces ==
  ASSUME NEW h \in TxRing
  PROVE  /\ Place(TxSlots, h, 0) = h /\ Place(TxSlots, h, TxSlots) = h
         /\ NextTx(h) \in TxRing
         /\ \A j \in 0 .. TxSlots : Place(TxSlots, h, j) \in TxRing
         /\ \A i, j \in 0 .. TxSlots - 1 : i # j => Place(TxSlots, h, i) # Place(TxSlots, h, j)
         /\ \A j \in 0 .. TxSlots - 1 : /\ NextTx(Place(TxSlots, h, j)) = Place(TxSlots, h, j + 1)
                                        /\ Place(TxSlots, NextTx(h), j) = Place(TxSlots, h, j + 1)
  <1>1. TxSlots \in Nat \ {0, 1} /\ h \in 0 .. TxSlots - 1
    BY SlotsAssumption DEF TxRing
  <1>2. Place(TxSlots, h, 0) = h /\ Place(TxSlots, h, TxSlots) = h
    BY <1>1 DEF Place
  <1>3. \A j \in 0 .. TxSlots : Place(TxSlots, h, j) \in TxRing
    BY <1>1, PlaceIsSlot DEF TxRing
  <1>4. \A i, j \in 0 .. TxSlots - 1 : i # j => Place(TxSlots, h, i) # Place(TxSlots, h, j)
    BY <1>1, PlacesDiffer
  <1>5. /\ NextTx(h) \in TxRing
        /\ \A j \in 0 .. TxSlots - 1 : /\ NextTx(Place(TxSlots, h, j)) = Place(TxSlots, h, j + 1)
                                       /\ Place(TxSlots, NextTx(h), j) = Place(TxSlots, h, j + 1)
    BY <1>1, NextIsPlace DEF NextTx, TxRing
  <1> QED  BY <1>2, <1>3, <1>4, <1>5

LEMMA TxTypes ==
  ASSUME TypeInv, TxRunning
  PROVE  /\ TxSlots \in Nat \ {0, 1} /\ card.tdh \in TxRing /\ tx.next \in TxRing
         /\ tx.buf \in [TxRing -> Nat] /\ tx.dd \in [TxRing -> BOOLEAN]
         /\ Pending \in 0 .. TxSlots /\ Len(sent) \in Nat /\ Len(wire) \in Nat
         /\ Pending = Len(sent) - Len(wire)
  BY SlotsAssumption DEF TypeInv, TxState, CardState, TxRunning, Pending

LEMMA AppendNumbered ==
  ASSUME NEW q \in Seq(Nat), Numbered(q)
  PROVE  Numbered(Append(q, Len(q) + 1)) /\ Len(Append(q, Len(q) + 1)) = Len(q) + 1
  <1> DEFINE x == Len(q) + 1
  <1>1. x \in Nat /\ Len(q) \in Nat
    OBVIOUS
  <1>2. Len(Append(q, x)) = Len(q) + 1 /\ Append(q, x)[Len(q) + 1] = x
        /\ \A k \in 1 .. Len(q) : Append(q, x)[k] = q[k]
    BY <1>1
  <1>3. \A k \in 1 .. Len(q) + 1 : k \in 1 .. Len(q) \/ k = Len(q) + 1
    BY <1>1
  <1> QED  BY <1>2, <1>3 DEF Numbered

LEMMA TxFill ==
  ASSUME TypeInv, TxInv, SendFill, ready' = ready
  PROVE  TxInv'
  <1> DEFINE P(j) == Place(TxSlots, card.tdh, j)
  <1>1. /\ UNCHANGED <<card, sent, wire, tx.next>> /\ cpu.pc = "idle" /\ cpu'.pc = "doorbell" /\ ready
        /\ tx'.buf = [tx.buf EXCEPT ![tx.next] = Len(sent) + 1]
        /\ tx'.dd = [tx.dd EXCEPT ![tx.next] = FALSE] /\ tx.dd[tx.next]
    BY FillMeans
  <1>2. TxUp /\ TxUp' /\ TxRunning
    BY <1>1 DEF TxUp, TxInv
  <1>3. tx.next = card.tdt /\ tx.next = P(Pending)
    BY <1>1, <1>2 DEF TxRunning
  <1>4. Pending # TxSlots
    <2>1. SUFFICES ASSUME Pending = TxSlots
                   PROVE  FALSE
      OBVIOUS
    <2>2. P(TxSlots) = P(0) /\ 0 \in 0 .. Pending - 1
      BY <1>2, <2>1, TxTypes, TxPlaces
    <2>3. ~tx.dd[P(0)]
      BY <1>2, <2>2 DEF TxRunning
    <2> QED  BY <1>1, <1>3, <2>1, <2>2, <2>3
  <1>5. tx'.buf[tx.next] = Len(sent) + 1 /\ ~tx'.dd[tx.next]
    BY <1>1, <1>2, TxTypes
  <1>6. ASSUME NEW j \in 0 .. Pending - 1
        PROVE  tx'.buf[P(j)] = Len(wire) + 1 + j /\ ~tx'.dd[P(j)]
    <2>1. j \in 0 .. TxSlots - 1 /\ Pending \in 0 .. TxSlots - 1 /\ j # Pending
      BY <1>2, <1>4, TxTypes
    <2>2. P(j) # P(Pending) /\ P(j) \in TxRing
      <3>1. card.tdh \in TxRing /\ j \in 0 .. TxSlots
        BY <1>2, <2>1, TxTypes
      <3> HIDE DEF P
      <3>2. /\ \A k \in 0 .. TxSlots : P(k) \in TxRing
            /\ \A k, l \in 0 .. TxSlots - 1 : k # l => P(k) # P(l)
        BY <3>1, TxPlaces DEF P
      <3> QED  BY <2>1, <3>1, <3>2
    <2>3. tx.buf[P(j)] = Len(wire) + 1 + j /\ ~tx.dd[P(j)]
      BY <1>2 DEF TxRunning
    <2>4. tx'.buf[P(j)] = tx.buf[P(j)] /\ tx'.dd[P(j)] = tx.dd[P(j)]
      <3> HIDE DEF P
      <3> QED  BY <1>1, <1>2, <1>3, <2>2, TxTypes
    <2> QED  BY <2>3, <2>4
  <1>7. Pending < TxSlots
    BY <1>2, <1>4, TxTypes
  <1>8. TxRunning'
    BY <1>1, <1>2, <1>3, <1>5, <1>6, <1>7 DEF TxRunning, Numbered, Pending
  <1> QED  BY <1>2, <1>8 DEF TxInv

LEMMA TxDoorbell ==
  ASSUME TypeInv, BootInv, TxInv, SendDoorbell, ready' = ready
  PROVE  TxInv'
  <1> DEFINE P(j) == Place(TxSlots, card.tdh, j)
  <1>1. ready /\ cpu.pc = "doorbell" /\ cpu'.pc = "spin" /\ TxUp /\ TxUp' /\ TxRunning
    BY DoorbellMeans DEF BootInv, CallLabels, TxInv, TxUp
  <1>2. /\ Pending < TxSlots /\ tx.buf[tx.next] = Len(sent) + 1 /\ ~tx.dd[tx.next]
        /\ tx.next = P(Pending) /\ Pending \in 0 .. TxSlots - 1
    BY <1>1, TxTypes DEF TxRunning
  <1>3. /\ UNCHANGED <<tx, wire, card.tdh>> /\ sent' = Append(sent, Len(sent) + 1)
        /\ card'.tdt = NextTx(tx.next)
    BY <1>2, DoorbellMeans
  <1>4. Numbered(sent)' /\ Len(sent') = Len(sent) + 1
    BY <1>1, <1>3, AppendNumbered DEF TypeInv, TxRunning, Numbered
  <1>5. Pending' = Pending + 1
    BY <1>1, <1>3, <1>4, TxTypes DEF Pending
  <1>6. card'.tdt = P(Pending + 1)
    <2>1. card.tdh \in TxRing
      BY <1>1, TxTypes
    <2> HIDE DEF P
    <2>2. \A k \in 0 .. TxSlots - 1 : NextTx(P(k)) = P(k + 1)
      BY <2>1, TxPlaces DEF P
    <2> QED  BY <1>2, <1>3, <2>2
  <1>7. ASSUME NEW j \in 0 .. Pending
        PROVE  tx.buf[P(j)] = Len(wire) + 1 + j /\ ~tx.dd[P(j)]
    <2>1. CASE j = Pending
      BY <1>1, <1>2, <2>1, TxTypes
    <2>2. CASE j # Pending
      <3>1. j \in 0 .. Pending - 1
        BY <1>1, <2>2, TxTypes
      <3> QED  BY <1>1, <3>1 DEF TxRunning
    <2> QED  BY <2>1, <2>2
  <1>8. Pending + 1 \in 0 .. TxSlots /\ Pending + 1 - 1 = Pending /\ Pending \in Int
    BY <1>1, <1>2, TxTypes
  <1>9. \A j \in 0 .. Pending' - 1 : tx.buf[P(j)] = Len(wire) + 1 + j /\ ~tx.dd[P(j)]
    <2>1. Pending' - 1 = Pending
      BY <1>5, <1>8
    <2> HIDE DEF P
    <2>2. \A j \in 0 .. Pending : tx.buf[P(j)] = Len(wire) + 1 + j /\ ~tx.dd[P(j)]
      BY <1>7
    <2> QED  BY <2>1, <2>2
  <1>10. TxRunning'
    BY <1>1, <1>2, <1>3, <1>4, <1>5, <1>6, <1>8, <1>9 DEF TxRunning, Numbered
  <1> QED  BY <1>1, <1>10 DEF TxInv

LEMMA TxReturn ==
  ASSUME TypeInv, BootInv, TxInv, SendReturn, ready' = ready
  PROVE  TxInv'
  <1>1. ready /\ cpu.pc = "spin" /\ cpu'.pc = "idle" /\ TxUp /\ TxUp' /\ TxRunning
    BY ReturnMeans DEF BootInv, CallLabels, TxInv, TxUp
  <1>2. UNCHANGED <<card, sent, wire, tx.buf, tx.dd>> /\ tx'.next = NextTx(tx.next)
    BY ReturnMeans
  <1>3. TxRunning'
    BY <1>1, <1>2 DEF TxRunning, Pending, Numbered
  <1> QED  BY <1>1, <1>3 DEF TxInv

LEMMA TxTransmits ==
  ASSUME TypeInv, TxInv, CardTransmits, ready' = ready
  PROVE  TxInv'
  <1> DEFINE h == card.tdh
             P(j) == Place(TxSlots, card.tdh, j)
             Q(j) == Place(TxSlots, NextTx(card.tdh), j)
  <1>1. /\ TxUp /\ TxUp' /\ TxRunning /\ card.tdh # card.tdt
        /\ UNCHANGED <<cpu, sent, card.tdt, tx.buf, tx.next>> /\ card'.tdh = NextTx(h)
        /\ wire' = Append(wire, tx.buf[h]) /\ tx'.dd = [tx.dd EXCEPT ![h] = TRUE]
    BY TransmitsMeans DEF TxInv, TxOff, TxUp
  <1>2. card.tdt = P(Pending) /\ P(0) = h /\ P(TxSlots) = h
    BY <1>1, TxTypes, TxPlaces DEF TxRunning
  \* The head is not the tail: something is pending, but not a whole turn of the ring.
  <1>3. Pending \in 1 .. TxSlots - 1 /\ 0 \in 0 .. Pending - 1
    <2>1. card.tdh \in TxRing /\ Pending \in 0 .. TxSlots /\ TxSlots \in Nat \ {0, 1}
      BY <1>1, TxTypes
    <2> HIDE DEF P
    <2>2. Pending # 0 /\ Pending # TxSlots
      BY <1>1, <1>2
    <2> QED  BY <2>1, <2>2
  <1>4. tx.buf[h] = Len(wire) + 1 /\ ~tx.dd[h]
    <2>1. tx.buf[P(0)] = Len(wire) + 1 + 0 /\ ~tx.dd[P(0)]
      BY <1>1, <1>3 DEF TxRunning
    <2> QED  BY <1>1, <1>2, <2>1, TxTypes
  <1>5. Numbered(wire)' /\ Len(wire') = Len(wire) + 1
    BY <1>1, <1>4, AppendNumbered DEF TypeInv, TxRunning, Numbered
  <1>6. Pending' = Pending - 1
    BY <1>1, <1>5, TxTypes DEF Pending
  <1>7. \A j \in 0 .. TxSlots - 1 : Q(j) = P(j + 1)
    BY <1>1, TxTypes, TxPlaces
  <1>8. card.tdt = Q(Pending - 1)
    <2>1. Pending - 1 \in 0 .. TxSlots - 1 /\ (Pending - 1) + 1 = Pending
      BY <1>1, <1>3, TxTypes
    <2> HIDE DEF P, Q
    <2>2. Q(Pending - 1) = P((Pending - 1) + 1)
      BY <1>7, <2>1
    <2> QED  BY <1>2, <2>1, <2>2
  <1>9. ASSUME NEW j \in 0 .. Pending' - 1
        PROVE  /\ tx.buf[Q(j)] = Len(wire') + 1 + j
               /\ ~tx'.dd[Q(j)]
    <2>1. /\ j + 1 \in 0 .. Pending - 1 /\ j + 1 \in 0 .. TxSlots - 1 /\ j \in 0 .. TxSlots - 1
          /\ j + 1 # 0 /\ 0 \in 0 .. TxSlots - 1 /\ j \in Nat
      BY <1>1, <1>3, <1>6, TxTypes
    <2>2. Q(j) = P(j + 1)
      BY <1>7, <2>1
    <2>3. P(j + 1) # h /\ P(j + 1) \in TxRing
      BY <1>1, <1>2, <2>1, TxTypes, TxPlaces
    <2>4. tx.buf[P(j + 1)] = Len(wire) + 1 + (j + 1) /\ ~tx.dd[P(j + 1)]
      BY <1>1, <2>1 DEF TxRunning
    <2> HIDE DEF P, Q
    <2>5. tx'.dd[P(j + 1)] = tx.dd[P(j + 1)]
      BY <1>1, <2>3, TxTypes
    <2>6. Len(wire) + 1 + (j + 1) = Len(wire') + 1 + j
      BY <1>1, <1>5, <2>1, TxTypes
    <2> QED  BY <2>2, <2>4, <2>5, <2>6
  \* The driver's free descriptor is not the one transmitted.
  <1>10. cpu.pc = "doorbell" => Pending - 1 < TxSlots /\ tx'.dd[tx.next] = tx.dd[tx.next]
    <2>1. SUFFICES ASSUME cpu.pc = "doorbell"
                   PROVE  Pending - 1 < TxSlots /\ tx'.dd[tx.next] = tx.dd[tx.next]
      OBVIOUS
    <2>2. tx.next # h
      BY <1>1, <2>1 DEF TxRunning
    <2> QED  BY <1>1, <1>3, <2>2, TxTypes
  <1>11. Pending - 1 \in 0 .. TxSlots
    BY <1>1, <1>3, TxTypes
  <1> HIDE DEF P
  <1>12. TxRunning'
    BY <1>1, <1>5, <1>6, <1>8, <1>9, <1>10, <1>11 DEF TxRunning, Numbered
  <1> QED  BY <1>1, <1>12 DEF TxInv


\* The rings are set up before the transmitter is switched on.
LEMMA TxStartStep ==
  ASSUME TypeInv, BootInv, TxInv, StartStep
  PROVE  TxInv'
  <1>0. UNCHANGED <<sent, wire>>
    BY DEF StartStep
  <1>1. CASE Scan \/ ProbeReady
    <2>1. /\ UNCHANGED <<tx, card>>
          /\ \/ cpu.pc = "scan" /\ cpu'.pc \in {"scan", "command", "idle"} /\ ready' = ready
             \/ cpu.pc = "ready" /\ cpu'.pc = "scan" /\ ready' = TRUE
      BY <1>1, ScanMeans
    <2>2. TxRest /\ TxRest'
      BY <2>1 DEF TxRest
    <2>3. TxUp' <=> TxUp
      <3>1. CASE cpu.pc = "scan"
        <4>1. cpu'.pc \in {"scan", "command", "idle"} /\ ready' = ready
          BY <2>1, <3>1
        <4>2. cpu'.pc \notin {"tx on", "rx ring", "rx on", "ready"}
          BY <4>1
        <4> QED  BY <3>1, <4>1, <4>2 DEF TxUp
      <3>2. CASE cpu.pc = "ready"
        BY <2>1, <3>2 DEF TxUp
      <3> QED  BY <2>1, <3>1, <3>2
    <2> QED  BY <1>0, <2>1, <2>2, <2>3, TxKept
  <1>2. CASE ProbeCommand \/ ProbeReset \/ ForceLinkUp \/ LinkWaited
    <2>1. /\ <<cpu.pc, cpu'.pc>> \in {<<"command", "reset">>, <<"reset", "link up">>,
                                      <<"link up", "link wait">>, <<"link wait", "tx ring">>}
          /\ card'.on \subseteq card.on \cup {"master", "link"} /\ UNCHANGED <<ready, tx>>
      BY <1>2, ProbeMeans
    <2>2. ~ready
      BY <2>1 DEF BootInv, ProbeLabels
    <2>3. ~TxUp /\ ~TxUp'
      BY <2>1, <2>2 DEF TxUp
    <2> QED  BY <1>0, <2>1, <2>3 DEF TxInv, TxOff
  <1>3. CASE TxInit
    <2>1. /\ cpu.pc = "tx ring" /\ cpu'.pc = "tx on" /\ UNCHANGED ready
          /\ tx' = TxMemory(TRUE) /\ card'.tdh = 0 /\ card'.tdt = 0
      BY <1>3, RingsMean, GotoMeans DEF TxInit, At, ProbeLabels, TypeInv
    <2>2. ~ready
      BY <2>1 DEF BootInv, ProbeLabels
    <2>3. TxOff /\ TxUp'
      BY <2>1, <2>2 DEF TxUp, TxInv
    <2>4. sent' = <<>> /\ wire' = <<>> /\ Len(sent') = 0 /\ Len(wire') = 0 /\ tx'.next = 0
      BY <1>0, <2>1, <2>3 DEF TxOff, TxMemory
    <2>5. Pending' = 0
      BY <2>4 DEF Pending
    <2>6. Place(TxSlots, 0, 0) = 0 /\ 0 \in 0 .. TxSlots
      BY SlotsAssumption DEF Place
    <2>7. Numbered(sent)' /\ Numbered(wire)' /\ cpu'.pc \notin {"spin", "doorbell"}
      <3>1. \A k \in 1 .. 0 : FALSE
        OBVIOUS
      <3>2. \A k \in 1 .. Len(sent') : FALSE
        BY <2>4, <3>1
      <3>3. \A k \in 1 .. Len(wire') : FALSE
        BY <2>4, <3>1
      <3>4. cpu'.pc \notin {"spin", "doorbell"}
        BY <2>1
      <3> QED  BY <3>2, <3>3, <3>4 DEF Numbered
    <2>8. \A j \in 0 .. Pending' - 1 : FALSE
      BY <2>5
    <2>9. card'.tdt = Place(TxSlots, card'.tdh, Pending') /\ tx'.next = card'.tdt /\ Pending' \in 0 .. TxSlots
      BY <2>1, <2>4, <2>5, <2>6
    <2>10. TxRunning'
      BY <2>7, <2>8, <2>9 DEF TxRunning
    <2> QED  BY <2>3, <2>10 DEF TxInv
  <1>4. CASE TxOn \/ RxInit \/ RxOn
    <2>1. /\ <<cpu.pc, cpu'.pc>> \in {<<"tx on", "rx ring">>, <<"rx ring", "rx on">>, <<"rx on", "ready">>}
          /\ UNCHANGED <<ready, tx, card.tdh, card.tdt>>
      <3> USE DEF At, TypeInv, ProbeLabels
      <3>1. CASE TxOn
        BY <3>1, SwitchOnMeans, GotoMeans DEF TxOn
      <3>2. CASE RxInit
        BY <3>2, RingsMean, GotoMeans DEF RxInit
      <3>3. CASE RxOn
        BY <3>3, SwitchOnMeans, GotoMeans DEF RxOn
      <3> QED  BY <1>4, <3>1, <3>2, <3>3
    <2>2. TxUp /\ TxUp' /\ TxRest /\ TxRest'
      BY <2>1 DEF TxUp, TxRest
    <2> QED  BY <1>0, <2>1, <2>2, TxKept
  <1> QED  BY <1>1, <1>2, <1>3, <1>4 DEF StartStep, Probe

LEMMA TxStep ==
  ASSUME TypeInv, BootInv, TxInv, [Next]_vars
  PROVE  TxInv'
  <1>1. CASE UNCHANGED vars
    BY <1>1 DEF vars, TxInv, TxUp, TxRunning, TxOff, Pending, Numbered
  <1>2. CASE StartStep
    BY <1>2, TxStartStep
  <1>3. CASE Send /\ ready' = ready
    BY <1>3, TxFill, TxDoorbell, TxReturn DEF Send
  <1>4. CASE Pop /\ ready' = ready
    <2>1. /\ UNCHANGED <<tx, sent, wire, card.tdh, card.tdt, card.on>> /\ TxRest /\ TxRest'
          /\ cpu.pc \in {"idle", "copy", "clear", "release"}
          /\ cpu'.pc \in {"idle", "copy", "clear", "release"}
      BY <1>4, FoundMeans, CopyMeans, ClearMeans, ReleaseMeans DEF Pop, TxRest
    <2>2. TxUp' <=> TxUp
      BY <1>4, <2>1 DEF TxUp
    <2> QED  BY <2>1, <2>2, TxKept
  <1>5. CASE CardTransmits /\ ready' = ready
    BY <1>5, TxTransmits
  <1>6. CASE (CardLinkUp \/ CardReceives) /\ ready' = ready
    <2>1. UNCHANGED <<tx, cpu, sent, wire, card.tdh, card.tdt, card.on>>
      BY <1>6, LinkUpMeans, ReceivesMeans
    <2>2. (TxUp' <=> TxUp) /\ cpu'.pc = cpu.pc
      BY <1>6, <2>1 DEF TxUp
    <2> QED  BY <2>1, <2>2, TxKept
  <1> QED  BY <1>1, <1>2, <1>3, <1>4, <1>5, <1>6 DEF Next, StartStep, start

LEMMA TxStart == ASSUME Init PROVE TxInv
  BY DEF Init, TxInv, TxUp, TxOff, PoweredOn

LEMMA TxInvTransmitsInOrder == ASSUME TypeInv, TxInv PROVE TransmitsInOrder
  <1>1. Len(wire) \in Nat /\ Len(sent) \in Nat /\ Len(wire) <= Len(sent) /\ Numbered(sent) /\ Numbered(wire)
    <2>1. CASE TxUp
      <3>1. TxRunning
        BY <2>1 DEF TxInv
      <3> QED  BY <3>1 DEF TxRunning, Pending, TypeInv
    <2>2. CASE ~TxUp
      BY <2>2 DEF TxInv, TxOff, Numbered
    <2> QED  BY <2>1, <2>2
  <1>2. SubSeq(wire, 1, Len(wire)) = SubSeq(sent, 1, Len(wire))
    <2> DEFINE p == SubSeq(wire, 1, Len(wire))
               q == SubSeq(sent, 1, Len(wire))
    <2>1. /\ p \in Seq(Nat) /\ Len(p) = Len(wire)
          /\ q \in Seq(Nat) /\ Len(q) = Len(wire)
          /\ \A k \in 1 .. Len(wire) : p[k] = wire[k] /\ q[k] = sent[k]
      BY <1>1, SMTT(30) DEF TypeInv
    <2>2. \A k \in 1 .. Len(p) : p[k] = q[k]
      BY <1>1, <2>1 DEF Numbered
    <2> HIDE DEF p, q
    <2>3. p = q
      BY <2>1, <2>2, SeqEqual
    <2> QED  BY <2>3 DEF p, q
  <1> QED  BY <1>1, <1>2 DEF TransmitsInOrder, IsPrefix

-----------------------------------------------------------------------------
(* Receiving.                                                              *)

RxUp == ready \/ cpu.pc \in {"rx on", "ready"}
Held == (card.rdh - rx.next) % RxSlots
Slot(n, j) == Place(RxSlots, n, j)

\* From the driver's next descriptor on, Held descriptors hold frames; the others are the
\* card's, up to the tail, which is one turn behind less one.
RxRunning ==
  /\ card.rdt = Slot(rx.next, RxSlots - 1)
  /\ \A j \in Held .. RxSlots - 1 : ~rx.dd[Slot(rx.next, j)]
  /\ cpu.pc \in {"copy", "clear", "release"} => Held # 0
  /\ cpu.pc \in {"clear", "release"} => cpu.frame = rx.buf[rx.next]
  /\ cpu.pc = "release" => ~rx.dd[rx.next]

RxOff == "receiver" \notin card.on /\ rx = RxMemory /\ card.rdh = 0 /\ card.missed = 0 /\ got = <<>>

RxInv == IF RxUp THEN RxRunning ELSE RxOff

RxRest == cpu.pc \notin {"copy", "clear", "release"}

LEMMA RxKept ==
  ASSUME RxInv, UNCHANGED <<rx, got, cpu.frame, card.rdh, card.rdt, card.missed>>, RxUp' <=> RxUp,
         "receiver" \in card'.on => RxUp \/ "receiver" \in card.on,
         cpu'.pc = cpu.pc \/ (RxRest /\ RxRest')
  PROVE  RxInv'
  BY DEF RxInv, RxRunning, RxOff, Held, RxRest

LEMMA SlotFacts ==
  ASSUME NEW n \in RxRing
  PROVE  /\ RxSlots \in Nat \ {0, 1}
         /\ Slot(n, 0) = n /\ Slot(n, RxSlots) = n /\ NextRx(n) \in RxRing
         /\ \A j \in 0 .. RxSlots : Slot(n, j) \in RxRing
         /\ \A i, j \in 0 .. RxSlots - 1 : i # j => Slot(n, i) # Slot(n, j)
         /\ \A j \in 0 .. RxSlots - 1 : /\ NextRx(Slot(n, j)) = Slot(n, j + 1)
                                        /\ Slot(NextRx(n), j) = Slot(n, j + 1)
                                        /\ (Slot(n, j) - n) % RxSlots = j
                                        /\ (n + j) % RxSlots = Slot(n, j)
         /\ \A h \in RxRing : /\ (h - n) % RxSlots \in 0 .. RxSlots - 1
                              /\ h = Slot(n, (h - n) % RxSlots)
  <1>1. RxSlots \in Nat \ {0, 1} /\ n \in 0 .. RxSlots - 1
    BY SlotsAssumption DEF RxRing
  <1>2. Slot(n, 0) = n /\ Slot(n, RxSlots) = n
    BY <1>1 DEF Slot, Place
  <1>3. \A j \in 0 .. RxSlots : Slot(n, j) \in RxRing
    BY <1>1, PlaceIsSlot DEF RxRing, Slot
  <1>4. \A i, j \in 0 .. RxSlots - 1 : i # j => Slot(n, i) # Slot(n, j)
    BY <1>1, PlacesDiffer DEF Slot
  <1>5. /\ NextRx(n) \in RxRing
        /\ \A j \in 0 .. RxSlots - 1 : NextRx(Slot(n, j)) = Slot(n, j + 1) /\ Slot(NextRx(n), j) = Slot(n, j + 1)
    BY <1>1, NextIsPlace DEF NextRx, RxRing, Slot
  <1>6. ASSUME NEW j \in 0 .. RxSlots - 1
        PROVE  (Slot(n, j) - n) % RxSlots = j /\ (n + j) % RxSlots = Slot(n, j)
    <2> DEFINE x == Slot(n, j) - n
               y == n + j
    <2>1. x = (IF n + j < RxSlots THEN j ELSE j - RxSlots) /\ x \in 1 - RxSlots .. 2 * RxSlots - 1
      BY <1>1 DEF Slot, Place
    <2>2. y \in 1 - RxSlots .. 2 * RxSlots - 1 /\ y >= 0
      BY <1>1
    <2>3. Slot(n, j) = IF y < RxSlots THEN y ELSE y - RxSlots
      BY <1>1 DEF Slot, Place
    <2> HIDE DEF x, y
    <2>4. /\ x % RxSlots = IF x < 0 THEN x + RxSlots ELSE IF x < RxSlots THEN x ELSE x - RxSlots
          /\ y % RxSlots = IF y < 0 THEN y + RxSlots ELSE IF y < RxSlots THEN y ELSE y - RxSlots
      BY <1>1, <2>1, <2>2, Remainder
    <2>5. x % RxSlots = j
      BY <1>1, <2>1, <2>4
    <2>6. y % RxSlots = Slot(n, j)
      BY <1>1, <2>2, <2>3, <2>4
    <2> QED  BY <2>5, <2>6 DEF x, y
  <1>7. ASSUME NEW h \in RxRing
        PROVE  (h - n) % RxSlots \in 0 .. RxSlots - 1 /\ h = Slot(n, (h - n) % RxSlots)
    <2> DEFINE x == h - n
    <2>1. x \in 1 - RxSlots .. 2 * RxSlots - 1 /\ x < RxSlots /\ h \in 0 .. RxSlots - 1
      BY <1>1 DEF RxRing
    <2>2. x % RxSlots = IF x < 0 THEN x + RxSlots ELSE IF x < RxSlots THEN x ELSE x - RxSlots
      <3> HIDE DEF x
      <3> QED  BY <1>1, <2>1, Remainder
    <2>3. PICK j \in Int : j = x % RxSlots /\ j = (IF x < 0 THEN x + RxSlots ELSE x)
      BY <1>1, <2>1, <2>2
    <2>4. j \in 0 .. RxSlots - 1 /\ h = Slot(n, j)
      BY <1>1, <2>1, <2>3 DEF Slot, Place
    <2> QED  BY <2>3, <2>4
  <1> QED  BY <1>1, <1>2, <1>3, <1>4, <1>5, <1>6, <1>7

LEMMA RxTypes ==
  ASSUME TypeInv
  PROVE  /\ rx.next \in RxRing /\ card.rdh \in RxRing
         /\ rx.buf \in [RxRing -> Nat] /\ rx.dd \in [RxRing -> BOOLEAN]
         /\ RxSlots \in Nat \ {0, 1} /\ Held \in 0 .. RxSlots - 1 /\ card.rdh = Slot(rx.next, Held)
         /\ Slot(rx.next, 0) = rx.next
         /\ \A j \in 0 .. RxSlots - 1 : /\ Slot(rx.next, j) \in RxRing
                                        /\ NextRx(Slot(rx.next, j)) = Slot(rx.next, j + 1)
                                        /\ (Slot(rx.next, j) - rx.next) % RxSlots = j
         /\ \A i, j \in 0 .. RxSlots - 1 : i # j => Slot(rx.next, i) # Slot(rx.next, j)
  <1>1. /\ rx.next \in RxRing /\ card.rdh \in RxRing /\ RxSlots \in Nat
        /\ rx.buf \in [RxRing -> Nat] /\ rx.dd \in [RxRing -> BOOLEAN]
    BY SlotsAssumption DEF TypeInv, RxState, CardState
  <1>2. \A j \in 0 .. RxSlots - 1 : j \in 0 .. RxSlots
    BY <1>1
  <1> QED  BY <1>1, <1>2, SlotFacts, ZenonT(60) DEF Held

\* What waits in the ring, for the driver at n and the card at h.
Stored(buf, n, h) == [i \in 1 .. (h - n) % RxSlots |-> buf[(n + i - 1) % RxSlots]]

InRing(buf, n, h, w) ==
  /\ buf \in [RxRing -> Nat] /\ n \in RxRing /\ h \in RxRing
  /\ w \in 0 .. RxSlots - 1 /\ (h - n) % RxSlots = w

LEMMA StoredFrames ==
  ASSUME NEW buf, NEW n, NEW h, NEW w, InRing(buf, n, h, w)
  PROVE  /\ Stored(buf, n, h) \in Seq(Nat) /\ Len(Stored(buf, n, h)) = w
         /\ \A i \in 1 .. w : Stored(buf, n, h)[i] = buf[Slot(n, i - 1)]
  <1>0. /\ buf \in [RxRing -> Nat] /\ n \in RxRing /\ w \in 0 .. RxSlots - 1 /\ (h - n) % RxSlots = w
    BY DEF InRing
  <1>1. RxSlots \in Nat \ {0, 1} /\ n \in Nat
    BY <1>0, SlotsAssumption DEF RxRing
  <1>2. \A j \in 0 .. RxSlots - 1 : j \in 0 .. RxSlots /\ (n + j) % RxSlots = Slot(n, j) /\ Slot(n, j) \in RxRing
    <2>1. \A j \in 0 .. RxSlots - 1 : j \in 0 .. RxSlots
      BY <1>1
    <2> QED  BY <1>0, <2>1, SlotFacts
  <1>3. ASSUME NEW i \in 1 .. w
        PROVE  (n + i - 1) % RxSlots = Slot(n, i - 1) /\ buf[Slot(n, i - 1)] \in Nat
    <2>1. PICK j \in 0 .. RxSlots - 1 : j = i - 1
      BY <1>0, <1>1
    <2>2. n + i - 1 = n + j
      BY <1>1, <2>1
    <2>3. (n + j) % RxSlots = Slot(n, j) /\ Slot(n, j) \in RxRing
      BY <1>2
    <2>4. (n + i - 1) % RxSlots = (n + j) % RxSlots
      BY <2>2
    <2>5. Slot(n, i - 1) = Slot(n, j)
      BY <2>1
    <2> QED  BY <1>0, <2>3, <2>4, <2>5
  <1>4. Stored(buf, n, h) = [i \in 1 .. w |-> buf[Slot(n, i - 1)]]
    BY <1>0, <1>3 DEF Stored
  <1>5. w \in Nat
    BY <1>0, <1>1
  <1>6. [i \in 1 .. w |-> buf[Slot(n, i - 1)]] \in [1 .. w -> Nat]
    BY <1>3
  <1> QED  BY <1>4, <1>5, <1>6

LEMMA WaitingIsStored ==
  /\ Waiting = Stored(rx.buf, rx.next, card.rdh)
  /\ Waiting' = Stored(rx'.buf, rx'.next, card'.rdh)
  BY DEF Waiting, Stored

LEMMA WaitingFrames ==
  ASSUME TypeInv
  PROVE  /\ Waiting \in Seq(Nat) /\ Len(Waiting) = Held
         /\ \A i \in 1 .. Held : Waiting[i] = rx.buf[Slot(rx.next, i - 1)]
  <1>1. InRing(rx.buf, rx.next, card.rdh, Held)
    BY RxTypes DEF Held, InRing
  <1> QED  BY <1>1, StoredFrames, WaitingIsStored

LEMMA EmptyRing ==
  ASSUME rx = RxMemory, card.rdh = 0
  PROVE  /\ Held = 0 /\ rx.next = 0 /\ Waiting = <<>>
         /\ \A j \in RxRing : ~rx.dd[j]
         /\ Slot(0, RxSlots - 1) = RxSlots - 1
  <1>1. rx.next = 0 /\ \A j \in RxRing : ~rx.dd[j]
    BY DEF RxMemory, RxRing
  <1>2. RxSlots \in Nat \ {0, 1} /\ 0 \in RxRing
    BY SlotsAssumption DEF RxRing
  <1>3. (0 - 0) % RxSlots = 0
    BY <1>2
  <1>4. Held = 0
    BY <1>1, <1>3 DEF Held
  <1>5. Waiting = <<>>
    BY <1>4 DEF Waiting, Held
  <1>6. Slot(0, RxSlots - 1) = RxSlots - 1
    BY <1>2 DEF Slot, Place
  <1> QED  BY <1>1, <1>4, <1>5, <1>6

QueueStep == [Queue!Next]_<<Waiting, got, card.missed>>

LEMMA RxReceives ==
  ASSUME TypeInv, RxInv, CardReceives, UNCHANGED start
  PROVE  RxInv' /\ QueueStep
  <1> DEFINE n == rx.next
             w == Held
  <1>1. /\ UNCHANGED <<cpu, got, rx.next, card.rdt>> /\ "receiver" \in card.on
        /\ arrived' \in Nat /\ arrived' \in 1 .. MaxArrivals
    BY ReceivesMeans
  <1>2. RxUp /\ RxUp' /\ RxRunning
    BY <1>1 DEF RxInv, RxOff, RxUp, start
  <1>3. /\ RxSlots \in Nat \ {0, 1} /\ n \in RxRing /\ w \in 0 .. RxSlots - 1 /\ card.rdh = Slot(n, w)
        /\ rx.buf \in [RxRing -> Nat] /\ rx.dd \in [RxRing -> BOOLEAN]
    BY RxTypes
  <1>4. /\ Slot(n, 0) = n
        /\ \A j \in 0 .. RxSlots - 1 : Slot(n, j) \in RxRing /\ NextRx(Slot(n, j)) = Slot(n, j + 1)
                                       /\ (Slot(n, j) - n) % RxSlots = j
        /\ \A i, j \in 0 .. RxSlots - 1 : i # j => Slot(n, i) # Slot(n, j)
    BY RxTypes
  <1>5. CASE card.rdh = card.rdt
    <2>1. rx' = rx /\ card'.rdh = card.rdh /\ card'.missed = card.missed + 1
      BY <1>5, ReceivesMeans
    <2>2. w = RxSlots - 1
      <3>1. RxSlots - 1 \in 0 .. RxSlots - 1 /\ card.rdt = Slot(n, RxSlots - 1)
        BY <1>2, <1>3 DEF RxRunning
      <3> HIDE DEF w, n
      <3> QED  BY <1>3, <1>4, <1>5, <3>1
    <2>3. Waiting' = Waiting /\ Held' = Held
      BY <2>1 DEF Waiting, Held
    <2>4. Len(Waiting) = RxSlots - 1
      BY <2>2, WaitingFrames
    <2>5. QueueStep
      BY <1>1, <2>1, <2>3, <2>4 DEF QueueStep, Queue!Next, Queue!Miss
    <2>6. RxRunning'
      BY <1>1, <1>2, <2>1, <2>3 DEF RxRunning
    <2> QED  BY <1>2, <2>5, <2>6 DEF RxInv
  <1>6. CASE card.rdh # card.rdt
    <2>1. /\ card'.rdh = NextRx(card.rdh) /\ card'.missed = card.missed
          /\ rx'.buf = [rx.buf EXCEPT ![card.rdh] = arrived']
          /\ rx'.dd = [rx.dd EXCEPT ![card.rdh] = TRUE]
      BY <1>6, ReceivesMeans
    <2>2. w \in 0 .. RxSlots - 2 /\ w + 1 \in 0 .. RxSlots - 1
      <3>1. card.rdt = Slot(n, RxSlots - 1)
        BY <1>2 DEF RxRunning
      <3> HIDE DEF w, n
      <3>2. w # RxSlots - 1
        BY <1>3, <1>6, <3>1
      <3> QED  BY <1>3, <3>2
    <2>3. Held' = w + 1
      <3>1. card'.rdh = Slot(n, w + 1) /\ (Slot(n, w + 1) - n) % RxSlots = w + 1
        BY <1>3, <1>4, <2>1, <2>2
      <3> QED  BY <1>1, <3>1 DEF Held
    <2>4. /\ rx'.buf[Slot(n, w)] = arrived' /\ rx'.dd[Slot(n, w)] = TRUE
          /\ \A j \in 0 .. RxSlots - 1 : j # w => rx'.buf[Slot(n, j)] = rx.buf[Slot(n, j)]
                                                  /\ rx'.dd[Slot(n, j)] = rx.dd[Slot(n, j)]
      <3> HIDE DEF w, n
      <3> QED  BY <1>3, <1>4, <2>1
    <2>5. Waiting' = Append(Waiting, arrived')
      <3>1. /\ rx'.buf \in [RxRing -> Nat] /\ card'.rdh \in RxRing
            /\ (card'.rdh - n) % RxSlots = w + 1 /\ Waiting' = Stored(rx'.buf, n, card'.rdh)
        BY <1>1, <2>3, ReceivesMeans, WaitingIsStored DEF Held, RxState, CardState
      <3>2. /\ Waiting' \in Seq(Nat) /\ Len(Waiting') = w + 1
            /\ \A i \in 1 .. w + 1 : Waiting'[i] = rx'.buf[Slot(n, i - 1)]
        <4>1. InRing(rx'.buf, n, card'.rdh, w + 1)
          BY <1>3, <2>2, <3>1 DEF InRing
        <4> HIDE DEF w, n
        <4> QED  BY <3>1, <4>1, StoredFrames
      <3>3. /\ Waiting \in Seq(Nat) /\ Len(Waiting) = w
            /\ \A i \in 1 .. w : Waiting[i] = rx.buf[Slot(n, i - 1)]
        BY WaitingFrames
      <3>4. \A i \in 1 .. w + 1 : Waiting'[i] = Append(Waiting, arrived')[i]
        <4>1. SUFFICES ASSUME NEW i \in 1 .. w + 1
                       PROVE  Waiting'[i] = Append(Waiting, arrived')[i]
          OBVIOUS
        <4> HIDE DEF w, n
        <4>2. PICK j \in 0 .. RxSlots - 1 : j = i - 1 /\ Waiting'[i] = rx'.buf[Slot(n, j)]
          BY <1>3, <2>2, <3>2
        <4>3. CASE i = w + 1
          BY <1>1, <1>3, <2>4, <3>3, <4>2, <4>3
        <4>4. CASE i \in 1 .. w
          <5>1. Append(Waiting, arrived')[i] = Waiting[i] /\ Waiting[i] = rx.buf[Slot(n, j)] /\ j # w
            BY <1>1, <1>3, <3>3, <4>2, <4>4
          <5> QED  BY <2>4, <4>2, <5>1
        <4>5. w \in Nat /\ i \in 1 .. w + 1
          BY <1>3
        <4>6. i = w + 1 \/ i \in 1 .. w
          BY <4>5
        <4> QED  BY <4>3, <4>4, <4>6
      <3>5. Append(Waiting, arrived') \in Seq(Nat) /\ Len(Append(Waiting, arrived')) = w + 1
        BY <1>1, <3>3
      <3> HIDE DEF w, n
      <3> QED  BY <3>2, <3>4, <3>5, SeqEqual
    <2>6. QueueStep
      <3>1. Len(Waiting) < RxSlots - 1
        BY <2>2, <1>3, WaitingFrames
      <3> QED  BY <1>1, <2>1, <2>5, <3>1 DEF QueueStep, Queue!Next, Queue!Arrive
    <2>7. RxRunning'
      <3>1. \A j \in Held' .. RxSlots - 1 : ~rx'.dd[Slot(n, j)]
        <4>1. SUFFICES ASSUME NEW j \in w + 1 .. RxSlots - 1
                       PROVE  ~rx'.dd[Slot(n, j)]
          BY <2>3
        <4>2. j \in w .. RxSlots - 1 /\ j \in 0 .. RxSlots - 1 /\ j # w
          BY <1>3
        <4> QED  BY <1>2, <2>4, <4>2 DEF RxRunning
      <3>2. Held' # 0
        BY <1>3, <2>3
      <3>3. w # 0 => rx'.buf[n] = rx.buf[n] /\ rx'.dd[n] = rx.dd[n]
        BY <1>3, <1>4, <2>4
      <3> QED  BY <1>1, <1>2, <3>1, <3>2, <3>3 DEF RxRunning
    <2> QED  BY <1>2, <2>6, <2>7 DEF RxInv
  <1> QED  BY <1>5, <1>6

LEMMA RxReleases ==
  ASSUME TypeInv, BootInv, RxInv, RxRelease, UNCHANGED start
  PROVE  RxInv' /\ QueueStep
  <1> DEFINE n == rx.next
             w == Held
  <1>1. /\ rx'.next = NextRx(n) /\ rx'.buf = rx.buf /\ rx'.dd = rx.dd
        /\ card'.rdt = n /\ card'.rdh = card.rdh /\ card'.missed = card.missed
        /\ got' = Append(got, cpu.frame) /\ cpu.pc = "release" /\ cpu'.pc = "idle"
    BY ReleaseMeans
  <1>2. RxUp /\ RxUp' /\ RxRunning
    BY <1>1 DEF BootInv, CallLabels, RxInv, RxUp, start
  <1>3. /\ RxSlots \in Nat \ {0, 1} /\ n \in RxRing /\ w \in 0 .. RxSlots - 1 /\ card.rdh = Slot(n, w)
        /\ rx.buf \in [RxRing -> Nat] /\ Slot(n, 0) = n /\ card.rdh \in RxRing
    BY RxTypes
  <1>4. /\ w # 0 /\ cpu.frame = rx.buf[n] /\ ~rx.dd[n]
        /\ \A j \in w .. RxSlots - 1 : ~rx.dd[Slot(n, j)]
    BY <1>1, <1>2 DEF RxRunning
  <1>5. /\ NextRx(n) \in RxRing /\ Slot(n, RxSlots) = n
        /\ \A j \in 0 .. RxSlots - 1 : Slot(NextRx(n), j) = Slot(n, j + 1)
    BY <1>3, SlotFacts
  <1>6. w - 1 \in 0 .. RxSlots - 1 /\ RxSlots - 1 \in 0 .. RxSlots - 1 /\ (w - 1) + 1 = w /\ (RxSlots - 1) + 1 = RxSlots
    BY <1>3, <1>4
  <1>7. Held' = w - 1
    <2>1. card.rdh = Slot(NextRx(n), w - 1)
      <3> HIDE DEF w, n
      <3>1. Slot(NextRx(n), w - 1) = Slot(n, (w - 1) + 1)
        BY <1>5, <1>6
      <3> QED  BY <1>3, <1>6, <3>1
    <2>2. \A j \in 0 .. RxSlots - 1 : (Slot(NextRx(n), j) - NextRx(n)) % RxSlots = j
      BY <1>5, SlotFacts
    <2>3. (card.rdh - NextRx(n)) % RxSlots = w - 1
      BY <1>6, <2>1, <2>2
    <2> QED  BY <1>1, <2>3 DEF Held
  <1>8. Waiting # <<>> /\ Head(Waiting) = cpu.frame /\ Waiting' = Tail(Waiting)
    <2>1. /\ Waiting \in Seq(Nat) /\ Len(Waiting) = w
          /\ \A i \in 1 .. w : Waiting[i] = rx.buf[Slot(n, i - 1)]
      BY WaitingFrames
    <2>2. /\ Waiting' \in Seq(Nat) /\ Len(Waiting') = w - 1
          /\ \A i \in 1 .. w - 1 : Waiting'[i] = rx.buf[Slot(NextRx(n), i - 1)]
      <3>1. InRing(rx.buf, NextRx(n), card.rdh, w - 1)
        BY <1>1, <1>3, <1>5, <1>6, <1>7 DEF InRing, Held
      <3>2. Waiting' = Stored(rx.buf, NextRx(n), card.rdh)
        BY <1>1, WaitingIsStored
      <3> HIDE DEF w, n
      <3> QED  BY <3>1, <3>2, StoredFrames
    <2> HIDE DEF w, n
    <2>3. 1 \in 1 .. w /\ w \in Nat /\ w > 0
      BY <1>3, <1>4
    <2>4. Waiting # <<>> /\ Head(Waiting) = Waiting[1] /\ Waiting[1] = rx.buf[Slot(n, 1 - 1)]
      BY <2>1, <2>3
    <2>5. Tail(Waiting) \in Seq(Nat) /\ Len(Tail(Waiting)) = w - 1
          /\ \A i \in 1 .. w - 1 : Tail(Waiting)[i] = Waiting[i + 1]
      BY <2>1, <2>3, <2>4
    <2>6. ASSUME NEW i \in 1 .. w - 1
          PROVE  Waiting'[i] = Tail(Waiting)[i]
      <3>1. PICK j \in 0 .. RxSlots - 1 : j = i - 1 /\ j + 1 = i /\ i + 1 \in 1 .. w
        BY <1>3, <2>3
      <3>2. Waiting'[i] = rx.buf[Slot(n, i)]
        BY <1>5, <2>2, <3>1
      <3>3. Waiting[i + 1] = rx.buf[Slot(n, (i + 1) - 1)] /\ (i + 1) - 1 = i
        BY <2>1, <3>1
      <3> QED  BY <2>5, <3>2, <3>3
    <2>7. Waiting' = Tail(Waiting)
      BY <2>2, <2>5, <2>6, SeqEqual
    <2>8. Slot(n, 1 - 1) = n
      BY <1>3
    <2> QED  BY <1>4, <2>4, <2>7, <2>8
  <1>9. QueueStep
    BY <1>1, <1>8 DEF QueueStep, Queue!Next, Queue!Take
  <1>10. RxRunning'
    <2>1. Slot(NextRx(n), RxSlots - 1) = n
      <3>1. Slot(NextRx(n), RxSlots - 1) = Slot(n, (RxSlots - 1) + 1)
        BY <1>5, <1>6
      <3> QED  BY <1>5, <1>6, <3>1
    <2>2. ASSUME NEW j \in w - 1 .. RxSlots - 1
          PROVE  ~rx.dd[Slot(NextRx(n), j)]
      <3> HIDE DEF w, n
      <3>1. j \in 0 .. RxSlots - 1 /\ (j + 1 \in w .. RxSlots - 1 \/ j + 1 = RxSlots)
        BY <1>3, <1>4
      <3>2. Slot(NextRx(n), j) = Slot(n, j + 1)
        BY <1>5, <3>1
      <3> QED  BY <1>4, <1>5, <3>1, <3>2
    <2>3. \A j \in Held' .. RxSlots - 1 : ~rx'.dd[Slot(rx'.next, j)]
      BY <1>1, <1>7, <2>2
    <2> QED  BY <1>1, <2>1, <2>3 DEF RxRunning
  <1> QED  BY <1>2, <1>9, <1>10 DEF RxInv

\* The other steps of e1000_rx_pop leave the queue as it is.
LEMMA RxPops ==
  ASSUME TypeInv, BootInv, RxInv, RxFound \/ RxCopy \/ RxClear, UNCHANGED start
  PROVE  RxInv' /\ UNCHANGED <<Waiting, got, card.missed>>
  <1>1. RxUp /\ RxUp' /\ RxRunning
    BY FoundMeans, CopyMeans, ClearMeans DEF BootInv, CallLabels, RxInv, RxUp, start
  <1>2. UNCHANGED <<rx.buf, rx.next, card, got>>
    BY FoundMeans, CopyMeans, ClearMeans
  <1>3. Held' = Held /\ UNCHANGED <<Waiting, got, card.missed>>
    BY <1>2 DEF Held, Waiting
  <1>4. /\ rx.next \in RxRing /\ Held \in 0 .. RxSlots - 1 /\ RxSlots \in Nat /\ Slot(rx.next, 0) = rx.next
        /\ rx.dd \in [RxRing -> BOOLEAN]
        /\ \A j \in 0 .. RxSlots - 1 : Slot(rx.next, j) \in RxRing
    BY RxTypes
  <1>5. CASE RxFound
    <2>1. cpu.pc = "idle" /\ cpu'.pc = "copy" /\ rx.dd[rx.next] /\ rx' = rx /\ card' = card
      BY <1>5, FoundMeans
    \* The descriptor is done: it is none of the card's.
    <2>2. Held # 0
      <3>1. SUFFICES ASSUME Held = 0 PROVE FALSE
        OBVIOUS
      <3>2. 0 \in Held .. RxSlots - 1
        BY <3>1, SlotsAssumption
      <3> QED  BY <1>1, <1>4, <2>1, <3>2 DEF RxRunning
    <2>3. RxRunning'
      BY <1>1, <1>3, <2>1, <2>2 DEF RxRunning
    <2> QED  BY <1>1, <1>3, <2>3 DEF RxInv
  <1>6. CASE RxCopy
    <2>1. cpu.pc = "copy" /\ cpu'.pc = "clear" /\ cpu'.frame = rx.buf[rx.next] /\ rx' = rx /\ card' = card
      BY <1>6, CopyMeans
    <2>2. RxRunning'
      BY <1>1, <1>3, <2>1 DEF RxRunning
    <2> QED  BY <1>1, <1>3, <2>2 DEF RxInv
  <1>7. CASE RxClear
    <2>1. /\ cpu.pc = "clear" /\ cpu'.pc = "release" /\ cpu'.frame = cpu.frame
          /\ rx'.dd = [rx.dd EXCEPT ![rx.next] = FALSE]
      BY <1>7, ClearMeans
    <2>2. \A s \in RxRing : rx.dd[s] = FALSE => rx'.dd[s] = FALSE
      BY <1>4, <2>1
    <2>3. rx'.dd[rx.next] = FALSE
      BY <1>4, <2>1
    <2>4. ASSUME NEW j \in Held .. RxSlots - 1
          PROVE  ~rx'.dd[Slot(rx.next, j)]
      <3>1. j \in 0 .. RxSlots - 1 /\ ~rx.dd[Slot(rx.next, j)]
        BY <1>1, <1>4 DEF RxRunning
      <3> QED  BY <1>4, <2>2, <3>1
    <2>5. RxRunning'
      BY <1>1, <1>2, <1>3, <2>1, <2>3, <2>4 DEF RxRunning
    <2> QED  BY <1>1, <1>3, <2>5 DEF RxInv
  <1> QED  BY <1>5, <1>6, <1>7

LEMMA RxStartStep ==
  ASSUME TypeInv, BootInv, RxInv, StartStep
  PROVE  RxInv' /\ UNCHANGED <<Waiting, got, card.missed>>
  <1>0. got' = got
    BY DEF StartStep
  <1>1. CASE Scan \/ ProbeReady
    <2>1. /\ UNCHANGED <<rx, card, cpu.frame>>
          /\ \/ cpu.pc = "scan" /\ cpu'.pc \in {"scan", "command", "idle"} /\ ready' = ready
             \/ cpu.pc = "ready" /\ cpu'.pc = "scan" /\ ready' = TRUE
      BY <1>1, ScanMeans
    <2>2. RxRest /\ RxRest' /\ UNCHANGED <<Waiting, card.missed>>
      BY <2>1 DEF RxRest, Waiting
    <2>3. RxUp' <=> RxUp
      <3>1. CASE cpu.pc = "scan"
        <4>1. cpu'.pc \in {"scan", "command", "idle"} /\ ready' = ready
          BY <2>1, <3>1
        <4>2. cpu'.pc \notin {"rx on", "ready"}
          BY <4>1
        <4> QED  BY <3>1, <4>1, <4>2 DEF RxUp
      <3>2. CASE cpu.pc = "ready"
        BY <2>1, <3>2 DEF RxUp
      <3> QED  BY <2>1, <3>1, <3>2
    <2> QED  BY <1>0, <2>1, <2>2, <2>3, RxKept
  <1>2. CASE ProbeCommand \/ ProbeReset \/ ForceLinkUp \/ LinkWaited
    <2>1. /\ <<cpu.pc, cpu'.pc>> \in {<<"command", "reset">>, <<"reset", "link up">>,
                                      <<"link up", "link wait">>, <<"link wait", "tx ring">>}
          /\ card'.on \subseteq card.on \cup {"master", "link"} /\ UNCHANGED <<ready, rx>>
          /\ card'.rdh \in {card.rdh, 0} /\ card'.missed \in {card.missed, 0}
      BY <1>2, ProbeMeans
    <2>2. ~ready
      BY <2>1 DEF BootInv, ProbeLabels
    <2>3. ~RxUp /\ ~RxUp'
      BY <2>1, <2>2 DEF RxUp
    <2>4. RxOff /\ RxOff'
      BY <1>0, <2>1, <2>3 DEF RxInv, RxOff
    <2>5. UNCHANGED <<Waiting, card.missed>>
      BY <2>1, <2>4 DEF RxOff, Waiting
    <2> QED  BY <1>0, <2>3, <2>4, <2>5 DEF RxInv
  <1>3. CASE TxInit \/ TxOn
    <2>1. /\ <<cpu.pc, cpu'.pc>> \in {<<"tx ring", "tx on">>, <<"tx on", "rx ring">>}
          /\ card'.on \subseteq card.on \cup {"transmitter"}
          /\ UNCHANGED <<ready, rx, card.rdh, card.missed>>
      <3> USE DEF At, TypeInv, ProbeLabels
      <3>1. CASE TxInit
        BY <3>1, RingsMean, GotoMeans DEF TxInit
      <3>2. CASE TxOn
        BY <3>2, SwitchOnMeans, GotoMeans DEF TxOn
      <3> QED  BY <1>3, <3>1, <3>2
    <2>2. ~ready
      BY <2>1 DEF BootInv, ProbeLabels
    <2>3. ~RxUp /\ ~RxUp'
      BY <2>1, <2>2 DEF RxUp
    <2>4. RxOff'
      BY <1>0, <2>1, <2>3 DEF RxInv, RxOff
    <2> QED  BY <1>0, <2>1, <2>3, <2>4 DEF RxInv, Waiting
  <1>4. CASE RxInit
    <2>1. /\ cpu.pc = "rx ring" /\ cpu'.pc = "rx on" /\ rx' = RxMemory
          /\ card'.rdh = 0 /\ card'.rdt = RxSlots - 1 /\ UNCHANGED <<ready, card.missed>>
      BY <1>4, RingsMean, GotoMeans DEF RxInit, At, ProbeLabels, TypeInv
    <2>2. ~ready
      BY <2>1 DEF BootInv, ProbeLabels
    <2>3. RxOff /\ RxUp'
      BY <2>1, <2>2 DEF RxUp, RxInv
    <2>4. rx = RxMemory /\ card.rdh = 0 /\ UNCHANGED <<rx, card.rdh>>
      BY <2>1, <2>3 DEF RxOff
    <2>5. /\ Held = 0 /\ rx.next = 0 /\ Slot(0, RxSlots - 1) = RxSlots - 1
          /\ \A j \in RxRing : ~rx.dd[j]
      BY <2>4, EmptyRing
    <2>6. UNCHANGED <<Waiting, Held>>
      BY <2>4 DEF Waiting, Held
    <2>7. \A j \in 0 .. RxSlots - 1 : Slot(0, j) \in RxRing
      BY <2>5, RxTypes
    <2>8. RxRunning'
      BY <2>1, <2>4, <2>5, <2>6, <2>7 DEF RxRunning
    <2> QED  BY <1>0, <2>1, <2>3, <2>6, <2>8 DEF RxInv
  <1>5. CASE RxOn
    <2>1. /\ cpu.pc = "rx on" /\ cpu'.pc = "ready" /\ UNCHANGED <<ready, rx, cpu.frame>>
          /\ UNCHANGED <<card.rdh, card.rdt, card.missed>>
      BY <1>5, SwitchOnMeans, GotoMeans DEF RxOn, At, TypeInv, ProbeLabels
    <2>2. RxUp /\ RxUp' /\ RxRest /\ RxRest'
      BY <2>1 DEF RxUp, RxRest
    <2>3. RxInv'
      BY <1>0, <2>1, <2>2, RxKept
    <2> QED  BY <1>0, <2>1, <2>3 DEF Waiting
  <1> QED  BY <1>1, <1>2, <1>3, <1>4, <1>5 DEF StartStep, Probe

LEMMA RxStep ==
  ASSUME TypeInv, BootInv, RxInv, [Next]_vars
  PROVE  RxInv' /\ QueueStep
  <1>1. CASE UNCHANGED vars
    <2>1. UNCHANGED <<Waiting, got, card.missed>>
      BY <1>1 DEF vars, Waiting
    <2>2. RxInv'
      BY <1>1 DEF vars, RxInv, RxUp, RxRunning, RxOff, Held
    <2> QED  BY <2>1, <2>2 DEF QueueStep
  <1>2. CASE StartStep
    BY <1>2, RxStartStep DEF QueueStep
  <1>3. CASE Pop /\ UNCHANGED start
    BY <1>3, RxPops, RxReleases DEF Pop, QueueStep
  <1>4. CASE CardReceives /\ UNCHANGED start
    BY <1>4, RxReceives
  <1>5. CASE (Send \/ CardLinkUp \/ CardTransmits) /\ UNCHANGED start
    <2>1. /\ UNCHANGED <<rx, got, cpu.frame, card.rdh, card.rdt, card.missed, card.on, ready>>
          /\ \/ cpu'.pc = cpu.pc
             \/ cpu.pc \in {"idle", "doorbell", "spin"} /\ cpu'.pc \in {"idle", "doorbell", "spin"}
      <3>1. CASE Send
        BY <1>5, <3>1, FillMeans, DoorbellMeans, ReturnMeans DEF Send, start
      <3>2. CASE CardLinkUp
        BY <1>5, <3>2, LinkUpMeans DEF start
      <3>3. CASE CardTransmits
        BY <1>5, <3>3, TransmitsMeans DEF start
      <3> QED  BY <1>5, <3>1, <3>2, <3>3
    <2>2. (RxUp' <=> RxUp) /\ (cpu'.pc = cpu.pc \/ (RxRest /\ RxRest'))
      BY <2>1 DEF RxUp, RxRest
    <2>3. RxInv'
      BY <2>1, <2>2, RxKept
    <2>4. UNCHANGED <<Waiting, got, card.missed>>
      BY <2>1 DEF Waiting
    <2> QED  BY <2>3, <2>4 DEF QueueStep
  <1> QED  BY <1>1, <1>2, <1>3, <1>4, <1>5 DEF Next, StartStep

LEMMA RxStart == ASSUME Init PROVE RxInv /\ Queue!Init
  <1>1. rx = RxMemory /\ card.rdh = 0 /\ card.missed = 0 /\ got = <<>>
    BY DEF Init, PoweredOn
  <1>2. Waiting = <<>>
    BY <1>1, EmptyRing
  <1>3. RxInv
    BY <1>1 DEF Init, RxInv, RxUp, RxOff, PoweredOn
  <1> QED  BY <1>1, <1>2, <1>3 DEF Queue!Init

-----------------------------------------------------------------------------
(* The theorems.                                                           *)

\* The types; the card is found once, and no call runs before it is set up; and where the
\* heads and the tails of both rings stand.
IInv == TypeInv /\ BootInv /\ TxInv /\ RxInv

\* In every reachable state e1000_init, e1000_transmit and e1000_poll_rx find the rings as
\* they left them: every state satisfies the inductive invariant.
THEOREM StateCorrect == Spec => []IInv
  <1>1. Init => IInv
    BY TypeInit, BootInit, TxStart, RxStart DEF IInv
  <1>2. IInv /\ [Next]_vars => IInv'
    BY TypeStep, BootStep, TxStep, RxStep DEF IInv
  <1> QED  BY <1>1, <1>2, PTL DEF Spec

\* What the card has transmitted is always the first part of what e1000_send_eth took, in
\* rings of every size and for any number of frames.
THEOREM TransmitCorrect == Spec => []TransmitsInOrder
  <1>1. IInv => TransmitsInOrder
    BY TxInvTransmitsInOrder DEF IInv
  <1> QED  BY <1>1, StateCorrect, PTL

\* The receive ring is a queue of RxSlots - 1 frames: every step of the driver and of the
\* card is a step of FrameQueue or leaves the queue as it is.
THEOREM QueueImplemented == Spec => ImplementsQueue
  <1>1. Init => Queue!Init
    BY RxStart
  <1>2. IInv /\ [Next]_vars => [Queue!Next]_<<Waiting, got, card.missed>>
    BY RxStep DEF IInv, QueueStep
  <1> QED  BY <1>1, <1>2, StateCorrect, PTL DEF Spec, ImplementsQueue, Queue!Spec
=============================================================================
