------------------------------- MODULE E1000 -------------------------------
(***************************************************************************)
(* The driver of the e1000 network card (e1000.c) and the two rings of     *)
(* descriptors it shares with the card.  The driver polls; the card reads  *)
(* and writes the rings on its own, so every access of the driver to a     *)
(* descriptor, a buffer or a register that sets the card going is a step.  *)
(* The driver is started by the scan of the PCI bus (pci.c), which finds   *)
(* at most one card: a second would be given the same rings.               *)
(*                                                                         *)
(* A frame is its number; its headers are left out.  The card's side is    *)
(* external: once it is switched on and has a link, it owns the            *)
(* descriptors from its head up to the tail the driver wrote, and none     *)
(* when the two are equal.                                                 *)
(***************************************************************************)
EXTENDS Integers, Sequences, SequencesExt

CONSTANTS TxSlots,     \* TX_RING_SIZE: 8 in the code
          RxSlots,     \* RX_RING_SIZE: 32 in the code
          Slots,       \* slots of the bus, 32 on each of 256 buses in the code
          Funcs,       \* functions of a slot: 8 in the code
          MaxSends,    \* bound: frames the driver is asked to send
          MaxArrivals  \* bound: frames that come in

ASSUME SlotsAssumption == TxSlots \in Nat \ {0, 1} /\ RxSlots \in Nat \ {0, 1}
ASSUME BusAssumption == Slots \in Nat \ {0} /\ Funcs \in Nat \ {0}
ASSUME BoundsAssumption == MaxSends \in Nat /\ MaxArrivals \in Nat

VARIABLES pci,      \* what is on the bus, and where the scan is
          ready,    \* g_ready
          tx,       \* g_tx_ring, g_tx_bufs, g_tx_next
          rx,       \* g_rx_ring, g_rx_bufs, g_rx_next
          card,     \* the card's heads, the tail registers, its count of missed frames,
                    \* what is switched on, and whether it has a link
          cpu,      \* where the driver is, and the frame it handles
          sent,     \* ghost: frames e1000_send_eth took
          wire,     \* ghost: frames the card has transmitted
          arrived,  \* frames that have come in
          got       \* ghost: frames e1000_rx_pop returned

start == <<pci, ready>>
vars == <<pci, ready, tx, rx, card, cpu, sent, wire, arrived, got>>

NoFrame == 0

Functions == (0 .. Slots - 1) \X (0 .. Funcs - 1)
Scanned == [at |-> <<Slots, 0>>, fn |-> <<>>, multi |-> <<>>]
Buses == [at : {<<0, 0>>}, fn : [Functions -> {"none", "other", "e1000"}], multi : [0 .. Slots - 1 -> BOOLEAN]]
OneCard(bus) == \A p, q \in Functions : bus.fn[p] = "e1000" /\ bus.fn[q] = "e1000" => p = q

TxMemory(done) == [buf |-> [i \in 0 .. TxSlots - 1 |-> NoFrame], dd |-> [i \in 0 .. TxSlots - 1 |-> done], next |-> 0]
RxMemory == [buf |-> [i \in 0 .. RxSlots - 1 |-> NoFrame], dd |-> [i \in 0 .. RxSlots - 1 |-> FALSE], next |-> 0]
PoweredOn == [tdh |-> 0, tdt |-> 0, rdh |-> 0, rdt |-> 0, missed |-> 0, on |-> {}, link |-> FALSE]

Init ==
  /\ pci \in {bus \in Buses : OneCard(bus)} /\ ready = FALSE
  /\ tx = TxMemory(FALSE) /\ rx = RxMemory /\ card = PoweredOn
  /\ cpu = [pc |-> "scan", frame |-> NoFrame]
  /\ sent = <<>> /\ wire = <<>> /\ arrived = 0 /\ got = <<>>

NextTx(i) == (i + 1) % TxSlots
NextRx(i) == (i + 1) % RxSlots
At(label) == cpu.pc = label
Goto(label) == cpu' = [cpu EXCEPT !.pc = label]

SwitchOn(part) == card' = [card EXCEPT !.on = @ \cup {part}]

-----------------------------------------------------------------------------
(* pci_scan_dump_nics *)

NextSlot(p) == <<p[1] + 1, 0>>
NextFunc(p) == IF p[2] + 1 < Funcs THEN <<p[1], p[2] + 1>> ELSE NextSlot(p)

\* A slot without function 0, or whose function 0 says it is the only one, has no more.
After(p) == IF p[2] = 0 /\ (pci.fn[p] = "none" \/ ~pci.multi[p[1]]) THEN NextSlot(p) ELSE NextFunc(p)

Passed == pci' = [pci EXCEPT !.at = After(@)]
Scanning == At("scan") /\ pci.at \in Functions

ScanPasses ==
  /\ Scanning /\ pci.fn[pci.at] # "e1000" /\ Passed
  /\ UNCHANGED <<ready, tx, rx, card, cpu>>

ScanFinds ==
  /\ Scanning /\ pci.fn[pci.at] = "e1000" /\ Goto("command")
  /\ UNCHANGED <<pci, ready, tx, rx, card>>

\* What is on the bus matters no more.
ScanEnds ==
  /\ At("scan") /\ pci.at \notin Functions /\ pci' = Scanned /\ Goto("idle")
  /\ UNCHANGED <<ready, tx, rx, card>>

-----------------------------------------------------------------------------
(* e1000_probe *)

ProbeCommand ==
  /\ At("command") /\ SwitchOn("master") /\ Goto("reset")
  /\ UNCHANGED <<pci, ready, tx, rx>>

\* The reset leaves the command register of the bus alone.
ProbeReset ==
  /\ At("reset") /\ card' = [PoweredOn EXCEPT !.on = card.on \cap {"master"}] /\ Goto("link up")
  /\ UNCHANGED <<pci, ready, tx, rx>>

ForceLinkUp ==
  /\ At("link up") /\ SwitchOn("link") /\ Goto("link wait")
  /\ UNCHANGED <<pci, ready, tx, rx>>

\* The wait ends with the link up or with its turns run out.
LinkWaited ==
  /\ At("link wait") /\ Goto("tx ring")
  /\ UNCHANGED <<pci, ready, tx, rx, card>>

TxInit ==
  /\ At("tx ring") /\ tx' = TxMemory(TRUE)
  /\ card' = [card EXCEPT !.tdh = 0, !.tdt = 0] /\ Goto("tx on")
  /\ UNCHANGED <<pci, ready, rx>>

TxOn == At("tx on") /\ SwitchOn("transmitter") /\ Goto("rx ring") /\ UNCHANGED <<pci, ready, tx, rx>>

\* All descriptors but the last are the card's: were it all, head would equal tail.
RxInit ==
  /\ At("rx ring") /\ rx' = RxMemory
  /\ card' = [card EXCEPT !.rdh = 0, !.rdt = RxSlots - 1] /\ Goto("rx on")
  /\ UNCHANGED <<pci, ready, tx>>

RxOn == At("rx on") /\ SwitchOn("receiver") /\ Goto("ready") /\ UNCHANGED <<pci, ready, tx, rx>>

\* The scan goes on behind the card.
ProbeReady ==
  /\ At("ready") /\ ready' = TRUE /\ Passed /\ Goto("scan")
  /\ UNCHANGED <<tx, rx, card>>

-----------------------------------------------------------------------------
(* e1000_send_eth *)

\* Mutant: the descriptor may still be the card's.
SendFillUnchecked ==
  /\ At("idle") /\ ready /\ Len(sent) < MaxSends
  /\ tx' = [tx EXCEPT !.buf[tx.next] = Len(sent) + 1, !.dd[tx.next] = FALSE]
  /\ Goto("doorbell")
  /\ UNCHANGED <<rx, card, sent, wire, arrived, got>>

\* The next descriptor is free: the frame is written into its buffer.  Were it not,
\* the call would return 0.
SendFill ==
  /\ At("idle") /\ ready /\ Len(sent) < MaxSends
  /\ tx.dd[tx.next]
  /\ tx' = [tx EXCEPT !.buf[tx.next] = Len(sent) + 1, !.dd[tx.next] = FALSE]
  /\ Goto("doorbell")
  /\ UNCHANGED <<rx, card, sent, wire, arrived, got>>

\* The tail register is moved past it.
SendDoorbell ==
  /\ At("doorbell")
  /\ card' = [card EXCEPT !.tdt = NextTx(tx.next)]
  /\ sent' = Append(sent, tx.buf[tx.next])
  /\ Goto("spin")
  /\ UNCHANGED <<tx, rx, wire, arrived, got>>

\* The wait ends, with the frame transmitted or with the count of turns run out.
SendReturn ==
  /\ At("spin")
  /\ tx' = [tx EXCEPT !.next = NextTx(@)]
  /\ Goto("idle")
  /\ UNCHANGED <<rx, card, sent, wire, arrived, got>>

-----------------------------------------------------------------------------
(* e1000_rx_pop *)

\* The descriptor is done.  Were it not, the call would return 0.
RxFound ==
  /\ At("idle") /\ ready /\ rx.dd[rx.next]
  /\ Goto("copy")
  /\ UNCHANGED <<tx, rx, card, sent, wire, arrived, got>>

RxCopy ==
  /\ At("copy")
  /\ cpu' = [pc |-> "clear", frame |-> rx.buf[rx.next]]
  /\ UNCHANGED <<tx, rx, card, sent, wire, arrived, got>>

RxClear ==
  /\ At("clear")
  /\ rx' = [rx EXCEPT !.dd[rx.next] = FALSE]
  /\ Goto("release")
  /\ UNCHANGED <<tx, card, sent, wire, arrived, got>>

\* Mutant: the tail names the descriptor after the one given back.
RxReleaseNext ==
  /\ At("release")
  /\ card' = [card EXCEPT !.rdt = NextRx(rx.next)]
  /\ rx' = [rx EXCEPT !.next = NextRx(@)]
  /\ got' = Append(got, cpu.frame)
  /\ cpu' = [pc |-> "idle", frame |-> NoFrame]
  /\ UNCHANGED <<tx, sent, wire, arrived>>

\* The descriptor goes back to the card: the tail register names it.
RxRelease ==
  /\ At("release")
  /\ card' = [card EXCEPT !.rdt = rx.next]
  /\ rx' = [rx EXCEPT !.next = NextRx(@)]
  /\ got' = Append(got, cpu.frame)
  /\ cpu' = [pc |-> "idle", frame |-> NoFrame]
  /\ UNCHANGED <<tx, sent, wire, arrived>>

-----------------------------------------------------------------------------
(* The card. *)

CardLinkUp ==
  /\ "link" \in card.on /\ ~card.link /\ card' = [card EXCEPT !.link = TRUE]
  /\ UNCHANGED <<tx, rx, cpu, sent, wire, arrived, got>>

CardTransmits ==
  /\ {"master", "transmitter"} \subseteq card.on /\ card.link
  /\ card.tdh # card.tdt
  /\ wire' = Append(wire, tx.buf[card.tdh])
  /\ tx' = [tx EXCEPT !.dd[card.tdh] = TRUE]
  /\ card' = [card EXCEPT !.tdh = NextTx(@)]
  /\ UNCHANGED <<rx, cpu, sent, arrived, got>>

\* A frame comes in: it is stored if the card owns a descriptor.
CardReceives ==
  /\ {"master", "receiver"} \subseteq card.on /\ card.link
  /\ arrived < MaxArrivals
  /\ arrived' = arrived + 1
  /\ IF card.rdh = card.rdt
     THEN card' = [card EXCEPT !.missed = @ + 1] /\ UNCHANGED rx
     ELSE /\ rx' = [rx EXCEPT !.buf[card.rdh] = arrived + 1, !.dd[card.rdh] = TRUE]
          /\ card' = [card EXCEPT !.rdh = NextRx(@)]
  /\ UNCHANGED <<tx, cpu, sent, wire, got>>

-----------------------------------------------------------------------------
Send == SendFill \/ SendDoorbell \/ SendReturn
Pop == RxFound \/ RxCopy \/ RxClear \/ RxRelease
Scan == ScanPasses \/ ScanFinds \/ ScanEnds
Probe ==
  \/ ProbeCommand \/ ProbeReset \/ ForceLinkUp \/ LinkWaited
  \/ TxInit \/ TxOn \/ RxInit \/ RxOn \/ ProbeReady

Next ==
  \/ (Scan \/ Probe) /\ UNCHANGED <<sent, wire, arrived, got>>
  \/ (Send \/ Pop \/ CardLinkUp \/ CardTransmits \/ CardReceives) /\ UNCHANGED start

Spec == Init /\ [][Next]_vars

-----------------------------------------------------------------------------
(* Properties. *)

\* The card transmits the frames e1000_send_eth took, each once, in their order and with
\* what was written: no buffer is used again before the card is done with it, though a
\* call returns without waiting for that.
TransmitsInOrder == IsPrefix(wire, sent)

\* The receive ring is a queue of RX_RING_SIZE - 1 frames.
Waiting == [i \in 1 .. (card.rdh - rx.next) % RxSlots |-> rx.buf[(rx.next + i - 1) % RxSlots]]

Queue == INSTANCE FrameQueue WITH
  Frames <- 1 .. MaxArrivals, Capacity <- RxSlots - 1,
  waiting <- Waiting, taken <- got, missed <- card.missed

\* e1000_rx_pop returns the frames in the order they came, each once and whole, and a
\* frame is missed only with RX_RING_SIZE - 1 frames waiting (e1000_rx_pop gives a
\* descriptor back by naming it in the tail register).
ImplementsQueue == Queue!Spec
=============================================================================
