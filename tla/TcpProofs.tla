----------------------------- MODULE TcpProofs -----------------------------
(***************************************************************************)
(* Proofs about the network stack, for every set of hosts and services,    *)
(* every size of the ARP table, every length of a segment and every number *)
(* of calls.                                                               *)
(*                                                                         *)
(* The invariant comes in parts, each of which needs the ones before: what *)
(* the ARP table and the frames say of the hosts; what the calls of ping   *)
(* and nslookup wait for; how our sequence numbers and acknowledgements of *)
(* the current connection lie.                                             *)
(***************************************************************************)
EXTENDS Tcp, FiniteSetTheorems, TLAPS

-----------------------------------------------------------------------------
(* The types.                                                              *)

Hosts == Near \cup Far
Ends  == Services \cup {<<Gateway, 0>>}
Numbers == [isn : Nat, i : Nat]

Calls ==
  [call : {"none", "ping", "dns", "connect", "recv", "close"},
   pc : {"idle", "arp", "send", "first", "wait"}, dst : Hosts, name : Names \cup {NoName}]

TcpState ==
  [st : {"CLOSED", "SYN_SENT", "ESTABLISHED", "FIN_WAIT"}, dst : Ends, n : Nat, seq : Nat, ack : Numbers,
   connected : BOOLEAN, closed : BOOLEAN, rxready : BOOLEAN,
   rx : [n : Nat, i : Nat, from : Ends], from : Ends, taken : SUBSET Nat]

\* What a peer sends.
Arrival == [from : Ends, flags : SUBSET {"SYN", "ACK", "FIN"}, seq : Numbers, len : Nat]

TypeInv ==
  /\ op \in Calls
  /\ tcp \in TcpState
  /\ calls \in Nat
  /\ DOMAIN peers \subseteq 1..calls
  /\ \A n \in DOMAIN peers : peers[n] \in Services

LEMMA NextHopIsHost == ASSUME NEW h \in Hosts PROVE NextHop(h) \in Hosts
  BY HostsAssumption DEF NextHop, Hosts

LEMMA GatewayIsHost == Gateway \in Hosts
  BY HostsAssumption DEF Hosts

LEMMA FirstByteIsNat == ASSUME NEW i \in Nat \ {0} PROVE FirstByte(i) \in Nat /\ FirstByte(i) >= 1
  <1>1. i - 1 \in Nat /\ SegmentLen \in Nat
    BY LengthsAssumption
  <1>2. (i - 1) * SegmentLen \in Nat
    BY <1>1
  <1> QED  BY <1>2 DEF FirstByte

\* A segment that comes in: the answer to a SYN, or the segment of data or the end of
\* a stream.
LEMMA IncomingMeans ==
  ASSUME TypeInv, NEW n \in DOMAIN peers, NEW s \in Incoming(n)
  PROVE  /\ s \in Arrival /\ s.from = peers[n] /\ s.seq.isn = n
         /\ s.len \in {0, SegmentLen}
         /\ \/ s.flags = {"SYN", "ACK"} /\ s.seq = Number(n, 0) /\ s.len = 0
            \/ /\ "SYN" \notin s.flags
               /\ \E i \in Nat \ {0} : s.seq = Number(n, FirstByte(i))
  <1> DEFINE Seg(flags, i, len) ==
               [from |-> peers[n], flags |-> flags, seq |-> Number(n, i), len |-> len]
             last == Segments[peers[n]]
  <1>1. last \in Nat /\ n \in Nat /\ peers[n] \in Ends /\ SegmentLen \in Nat
    BY ServicesAssumption, LengthsAssumption DEF TypeInv, Ends
  <1>2. \/ s = Seg({"SYN", "ACK"}, 0, 0)
        \/ \E i \in Nat \ {0}, flags \in SUBSET {"ACK", "FIN"}, len \in {0, SegmentLen} :
             s = Seg(flags, FirstByte(i), len)
    <2> DEFINE End(j) == FirstByte(j) + SegmentLen
               Full == {j \in 1 .. last : Sendable(n, End(j) - 1)}
               Last == {j \in {last} \ {0} : Sendable(n, End(j))}
               Over == {j \in {last + 1} : Sendable(n, FirstByte(j))}
    <2>1. \/ s \in {Seg({"SYN", "ACK"}, 0, 0) : f \in {g \in Reached(n) : "SYN" \in g.flags}}
          \/ s \in {Seg({"ACK"}, FirstByte(i), SegmentLen) : i \in Full}
          \/ s \in {Seg({"ACK", "FIN"}, FirstByte(i), SegmentLen) : i \in Last}
          \/ s \in {Seg({"ACK", "FIN"}, FirstByte(i), 0) : i \in Over}
      BY Zenon DEF Incoming
    <2>2. \A i \in Full \cup Last \cup Over : i \in Nat \ {0}
      BY <1>1
    <2> HIDE DEF Full, Last, Over, Seg, last
    <2> QED  BY <2>1, <2>2
  <1> HIDE DEF last
  <1>3. CASE s = Seg({"SYN", "ACK"}, 0, 0)
    BY <1>1, <1>3 DEF Arrival, Number, Numbers
  <1>4. ASSUME NEW i \in Nat \ {0}, NEW flags \in SUBSET {"ACK", "FIN"}, NEW len \in {0, SegmentLen},
               s = Seg(flags, FirstByte(i), len)
        PROVE  /\ s \in Arrival /\ s.from = peers[n] /\ s.seq.isn = n /\ s.len = len
               /\ s.seq = Number(n, FirstByte(i)) /\ "SYN" \notin s.flags
    BY <1>1, <1>4, FirstByteIsNat DEF Arrival, Number, Numbers
  <1> HIDE DEF Seg
  <1> QED  BY <1>2, <1>3, <1>4

-----------------------------------------------------------------------------
(* What a segment does to g_tcp.                                           *)

\* Fields that no segment changes.
SameStream == tcp'.dst = tcp.dst /\ tcp'.n = tcp.n /\ tcp'.seq = tcp.seq /\ tcp'.taken = tcp.taken

LEMMA AfterIsNumber ==
  ASSUME NEW seq \in Numbers, NEW i \in Nat
  PROVE  After(seq, i) \in Numbers /\ After(seq, i).isn = seq.isn /\ After(seq, i).i = seq.i + i
  BY DEF After, Number, Numbers

LEMMA SynAckMeans ==
  ASSUME tcp \in TcpState, NEW s \in Arrival, GotSynAck(s)
  PROVE  /\ tcp' \in TcpState /\ SameStream
         /\ tcp'.rx = tcp.rx /\ tcp'.rxready = tcp.rxready
         /\ tcp'.ack = After(s.seq, 1)
         /\ \/ tcp'.from = tcp.from /\ tcp'.connected = tcp.connected
            \/ tcp'.from = s.from
  <1> DEFINE ack == After(s.seq, 1)
             from == s.from
  <1>1. ack \in Numbers /\ from \in Ends
    BY AfterIsNumber DEF Arrival
  <1>2. \/ tcp' = [tcp EXCEPT !.ack = ack, !.st = "ESTABLISHED", !.connected = TRUE, !.from = from]
        \/ tcp' = [tcp EXCEPT !.ack = ack]
    BY DEF GotSynAck
  <1> HIDE DEF ack, from
  <1>3. ASSUME tcp' = [tcp EXCEPT !.ack = ack, !.st = "ESTABLISHED", !.connected = TRUE, !.from = from]
        PROVE  /\ tcp' \in TcpState /\ SameStream
               /\ tcp'.rx = tcp.rx /\ tcp'.rxready = tcp.rxready /\ tcp'.ack = ack
               /\ tcp'.from = from
    BY <1>1, <1>3 DEF TcpState, SameStream
  <1>4. ASSUME tcp' = [tcp EXCEPT !.ack = ack]
        PROVE  /\ tcp' \in TcpState /\ SameStream
               /\ tcp'.rx = tcp.rx /\ tcp'.rxready = tcp.rxready /\ tcp'.ack = ack
               /\ tcp'.from = tcp.from /\ tcp'.connected = tcp.connected
    BY <1>1, <1>4 DEF TcpState, SameStream
  <1>5. /\ tcp' \in TcpState /\ SameStream
        /\ tcp'.rx = tcp.rx /\ tcp'.rxready = tcp.rxready /\ tcp'.ack = ack
        /\ \/ tcp'.from = tcp.from /\ tcp'.connected = tcp.connected
           \/ tcp'.from = from
    BY <1>2, <1>3, <1>4
  <1> QED  BY <1>5 DEF ack, from

\* The segment is stored in the free buffer, or not.
Stored(s) == s.len > 0 /\ ~tcp.rxready

LEMMA DataMeans ==
  ASSUME tcp \in TcpState, NEW s \in Arrival, GotData(s)
  PROVE  /\ tcp' \in TcpState /\ SameStream
         /\ tcp'.from = tcp.from /\ tcp'.connected = tcp.connected
         /\ tcp'.ack \in {tcp.ack, After(s.seq, 1)} \cup (IF Stored(s) THEN {After(s.seq, s.len)} ELSE {})
         /\ IF Stored(s)
            THEN tcp'.rx = [n |-> s.seq.isn, i |-> s.seq.i, from |-> s.from] /\ tcp'.rxready
            ELSE tcp'.rx = tcp.rx /\ tcp'.rxready = tcp.rxready
         /\ Acknowledge((IF Stored(s) THEN {After(s.seq, s.len)} ELSE {})
                          \cup (IF "FIN" \in s.flags THEN {After(s.seq, 1)} ELSE {}))
  <1> DEFINE fin == "FIN" \in s.flags
             got == [n |-> s.seq.isn, i |-> s.seq.i, from |-> s.from]
             rx  == IF Stored(s) THEN got ELSE tcp.rx
             ready == tcp.rxready \/ Stored(s)
             ack == CASE fin -> After(s.seq, 1) [] Stored(s) /\ ~fin -> After(s.seq, s.len)
                      [] OTHER -> tcp.ack
             closed == tcp.closed \/ fin
  <1>1. /\ After(s.seq, 1) \in Numbers /\ After(s.seq, s.len) \in Numbers
        /\ got \in [n : Nat, i : Nat, from : Ends]
    BY AfterIsNumber DEF Arrival, Numbers
  <1>2. tcp' = [tcp EXCEPT !.rx = rx, !.rxready = ready, !.ack = ack, !.closed = closed]
    BY DEF GotData, Stored
  <1>3. /\ rx \in [n : Nat, i : Nat, from : Ends]
        /\ ack \in Numbers
        /\ ack \in {tcp.ack, After(s.seq, 1)} \cup (IF Stored(s) THEN {After(s.seq, s.len)} ELSE {})
    BY <1>1 DEF TcpState
  <1>4. ready \in BOOLEAN /\ closed \in BOOLEAN
    OBVIOUS
  <1>5. IF Stored(s) THEN rx = got /\ ready ELSE rx = tcp.rx /\ ready = tcp.rxready
    BY DEF TcpState
  <1>6. Acknowledge((IF Stored(s) THEN {After(s.seq, s.len)} ELSE {})
                          \cup (IF "FIN" \in s.flags THEN {After(s.seq, 1)} ELSE {}))
    BY DEF GotData, Stored
  <1> HIDE DEF rx, ready, ack, closed, got
  <1>7. /\ tcp' \in TcpState /\ SameStream
        /\ tcp'.from = tcp.from /\ tcp'.connected = tcp.connected
        /\ tcp'.rx = rx /\ tcp'.rxready = ready /\ tcp'.ack = ack
    BY <1>2, <1>3, <1>4 DEF TcpState, SameStream
  <1> QED  BY <1>3, <1>5, <1>6, <1>7 DEF got

\* A segment that is handled comes from the end connected to.
LEMMA GotSegmentMeans ==
  ASSUME TypeInv, GotSegment
  PROVE  /\ tcp' \in TcpState /\ SameStream
         /\ \E n \in DOMAIN peers : \E s \in Incoming(n) :
              s \in Arrival /\ s.from = tcp.dst /\ (GotSynAck(s) \/ GotData(s))
  <1>0. PICK n \in DOMAIN peers : \E s \in Incoming(n) : Matches(s) /\ (GotSynAck(s) \/ GotData(s))
    BY DEF GotSegment
  <1>1. PICK s \in Incoming(n) : Matches(s) /\ (GotSynAck(s) \/ GotData(s))
    BY <1>0
  <1>2. s \in Arrival /\ s.from = tcp.dst
    BY <1>1, IncomingMeans DEF Matches
  <1> QED  BY <1>1, <1>2, SynAckMeans, DataMeans DEF TypeInv

-----------------------------------------------------------------------------
(* Stations and hosts.                                                     *)

ArpTrue ==
  /\ arp \in Seq([ip : Hosts, mac : Hosts])
  /\ \A i \in DOMAIN arp : arp[i].mac = arp[i].ip

OutTrue == \A f \in out : IF f.kind = "who" THEN f.to \in Hosts ELSE f.mac = NextHop(f.to)

\* The station of the next hop is known when a call sends, and connect dials the
\* host of g_tcp.
OpReady ==
  /\ op.pc = "send" => Known(NextHop(op.dst))
  /\ op.call = "connect" => op.dst = tcp.dst[1]

HostInv == ArpTrue /\ OutTrue /\ OpReady

\* What the table says of a host is true.
LEMMA ArpGetTrue ==
  ASSUME ArpTrue, NEW h, Known(h)
  PROVE  ArpGet(h) = h
  <1>1. EntryOf(h) \in DOMAIN arp /\ arp[EntryOf(h)].ip = h
    BY DEF Known, EntryOf
  <1> QED  BY <1>1 DEF ArpTrue, ArpGet

LEMMA ArpPutTrue ==
  ASSUME ArpTrue, NEW h \in Hosts, arp' = ArpPut(h, h)
  PROVE  ArpTrue'
  <1> DEFINE Entry == [ip : Hosts, mac : Hosts]
             e     == [ip |-> h, mac |-> h]
  <1>1. arp \in Seq(Entry) /\ e \in Entry /\ e.mac = e.ip
    BY DEF ArpTrue
  <1>2. CASE Known(h)
    <2>1. PICK i \in DOMAIN arp : i = EntryOf(h) /\ arp[i].ip = h
      BY <1>2 DEF Known, EntryOf
    <2>2. arp' = [arp EXCEPT ![i] = [arp[i] EXCEPT !.mac = h]]
      BY <1>2, <2>1 DEF ArpPut
    <2>3. i \in 1..Len(arp) /\ arp[i] \in Entry /\ arp[i].ip = h
      <3> HIDE DEF Entry
      <3>1. DOMAIN arp = 1..Len(arp) /\ \A k \in DOMAIN arp : arp[k] \in Entry
        BY <1>1
      <3> QED  BY <2>1, <3>1
    <2>4. [arp[i] EXCEPT !.mac = h] \in Entry /\ [arp[i] EXCEPT !.mac = h].mac = h
          /\ [arp[i] EXCEPT !.mac = h].ip = h
      BY <2>3
    <2> DEFINE x == [arp[i] EXCEPT !.mac = h]
    <2> HIDE DEF x
    <2> QED  BY <1>1, <2>2, <2>3, <2>4 DEF ArpTrue, x
  <1>3. CASE ~Known(h) /\ Len(arp) < ArpSlots
    <2>1. arp' = Append(arp, e)
      BY <1>3 DEF ArpPut
    <2> HIDE DEF e
    <2>2. arp' \in Seq(Entry) /\ Len(arp') = Len(arp) + 1
      BY <1>1, <2>1
    <2>3. \A i \in 1..Len(arp') : arp'[i] = IF i = Len(arp) + 1 THEN e ELSE arp[i]
      BY <1>1, <2>1, <2>2
    <2> QED  BY <1>1, <2>2, <2>3 DEF ArpTrue
  <1>4. CASE ~Known(h) /\ ~(Len(arp) < ArpSlots)
    <2>1. arp' = [arp EXCEPT ![1] = e]
      BY <1>4 DEF ArpPut
    <2>2. 1 \in 1..Len(arp)
      BY <1>1, <1>4, SizesAssumption
    <2> HIDE DEF e
    <2> QED  BY <1>1, <2>1, <2>2 DEF ArpTrue
  <1> QED  BY <1>2, <1>3, <1>4


\* The handlers of a poll that are not TCP's.
LEMMA HandledMeans ==
  ASSUME HostInv, Handled
  PROVE  ArpTrue'
  <1>1. PICK f \in out : \/ GotArp(f)
                         \/ GotEchoReply(f)
                         \/ \E found \in BOOLEAN : GotDatagram(f, found)
    BY DEF Handled
  <1>2. CASE GotArp(f)
    <2>1. f.to \in Hosts /\ arp' = ArpPut(f.to, f.to)
      BY <1>2 DEF HostInv, OutTrue, GotArp
    <2> QED  BY <2>1, ArpPutTrue DEF HostInv
  <1>3. CASE arp' = arp
    BY <1>3 DEF HostInv, ArpTrue
  <1> QED  BY <1>1, <1>2, <1>3 DEF GotEchoReply, GotDatagram

\* Every segment goes to the station of the host connected to.
LEMMA SegmentTrue ==
  ASSUME ArpTrue, Known(NextHop(tcp.dst[1])), NEW flags, NEW seq, NEW ack, NEW len
  PROVE  LET f == Segment(flags, seq, ack, len, ArpGet(NextHop(tcp.dst[1])))
         IN  f.kind = "tcp" /\ f.mac = NextHop(f.to)
  BY ArpGetTrue DEF Segment

LEMMA AcknowledgeTrue ==
  ASSUME HostInv, NEW acks, Acknowledge(acks)
  PROVE  OutTrue'
  <1>1. CASE ~PeerKnown
    BY <1>1 DEF Acknowledge, HostInv, OutTrue
  <1>2. CASE PeerKnown
    <2>1. \A f \in out' \ out : f.kind = "tcp" /\ f.mac = NextHop(f.to)
      BY <1>2, SegmentTrue DEF Acknowledge, PeerKnown, HostInv
    <2> QED  BY <2>1 DEF HostInv, OutTrue
  <1> QED  BY <1>1, <1>2

LEMMA PolledMeans ==
  ASSUME TypeInv, Poll
  PROVE  /\ op.pc # "send" /\ op.pc # "idle"
         /\ op' \in Calls /\ op'.call = op.call /\ op'.dst = op.dst /\ op'.name = op.name
         /\ op'.pc = IF op.pc = "first" THEN "wait" ELSE op.pc
  <1>1. /\ op \in Calls /\ op.pc \in {"arp", "first", "wait"}
        /\ op' = IF op.pc = "first" THEN [op EXCEPT !.pc = "wait"] ELSE op
    BY DEF Poll, Polling, Polled, TypeInv
  <1>2. CASE op.pc = "first"
    BY <1>1, <1>2 DEF Calls
  <1> QED  BY <1>1, <1>2

LEMMA PollHosts ==
  ASSUME TypeInv, HostInv, Poll
  PROVE  HostInv'
  <1>1. op.pc # "send" /\ op'.call = op.call /\ op'.dst = op.dst /\ op'.pc # "send"
    BY PolledMeans
  <1>2. CASE Handled /\ UNCHANGED <<out, tcp>>
    BY <1>1, <1>2, HandledMeans DEF HostInv, OutTrue, OpReady
  <1>3. CASE GotSegment
    <2>1. PICK s : GotSynAck(s) \/ GotData(s)
      BY <1>3 DEF GotSegment
    <2>2. OutTrue'
      BY <2>1, AcknowledgeTrue DEF GotSynAck, GotData
    <2>3. arp' = arp
      BY <1>3 DEF GotSegment
    <2>4. tcp'.dst = tcp.dst
      BY <1>3, GotSegmentMeans DEF SameStream
    <2> QED  BY <1>1, <2>2, <2>3, <2>4 DEF HostInv, ArpTrue, OpReady
  <1>4. CASE UNCHANGED <<arp, ping, udp, out, tcp>>
    BY <1>1, <1>4 DEF HostInv, ArpTrue, OutTrue, OpReady
  <1> QED  BY <1>2, <1>3, <1>4 DEF Poll

-----------------------------------------------------------------------------
(* The steps, and what each does to the call under way.                    *)

NetStep ==
  \/ \E h \in Hosts : PingCall(h) \/ DnsBadName(h) \/ \E name \in Names : DnsCall(h, name)
  \/ SendEcho \/ SendQuery \/ SendQueryFails \/ PingReplied \/ DnsReplied \/ ArpWaited \/ TimedOut

LEMMA Steps ==
  ASSUME Next
  PROVE  \/ NetStep /\ UNCHANGED <<tcp, peers>>
         \/ Poll \/ (\E s \in Services : Connect(s)) \/ SendSyn \/ Connected
         \/ (\E len \in SendLens : Send(len)) \/ Recv \/ Received \/ Close \/ Ended \/ TcpTimedOut
  <1>1. NetCall => NetStep
    BY HostsAssumption DEF NetCall, NetStep, Hosts
  <1> QED  BY <1>1 DEF Next

LEMMA NoCallIsCall == NoCall \in Calls
  BY GatewayIsHost DEF NoCall, Calls

\* A call that begins sends at once only to a station that is known.
LEMMA BeginMeans ==
  ASSUME TypeInv, HostInv, NEW call \in {"ping", "dns", "connect"}, NEW h \in Hosts,
         NEW name \in Names \cup {NoName}, Begin(call, h, name)
  PROVE  /\ op.call = "none" /\ calls' = calls + 1 /\ calls < MaxCalls
         /\ op' \in Calls /\ op'.call = call /\ op'.dst = h /\ op'.name = name
         /\ op'.pc \in {"send", "arp"} /\ (op'.pc = "send" => Known(NextHop(h)))
         /\ UNCHANGED <<arp, ping, udp, result>>
         /\ out' \in {out, out \cup {WhoHas(NextHop(h))}}
         /\ OutTrue'
  <1>1. /\ op' \in Calls /\ op'.call = call /\ op'.dst = h /\ op'.name = name
        /\ op'.pc \in {"send", "arp"} /\ (op'.pc = "send" => Known(NextHop(h)))
    BY DEF Begin, Calls
  <1>2. out' \in {out, out \cup {WhoHas(NextHop(h))}}
    BY DEF Begin
  <1>3. NextHop(h) \in Hosts
    BY NextHopIsHost
  <1>4. OutTrue'
    BY <1>2, <1>3 DEF OutTrue, HostInv, WhoHas
  <1> QED  BY <1>1, <1>2, <1>4 DEF Begin

\* The steps of ping and nslookup, by what they leave alone.
LEMMA NetTypes ==
  ASSUME TypeInv, HostInv, NetStep, UNCHANGED <<tcp, peers>>
  PROVE  TypeInv' /\ HostInv'
  <1> USE NoCallIsCall
  <1>0. /\ op \in Calls /\ calls \in Nat /\ DOMAIN peers \subseteq 1..calls
        /\ ArpTrue /\ OutTrue /\ OpReady
    BY DEF TypeInv, HostInv
  <1>1. ASSUME NEW h \in Hosts, PingCall(h) \/ \E name \in Names : DnsCall(h, name)
        PROVE  TypeInv' /\ HostInv'
    <2>1. PICK call \in {"ping", "dns"}, name \in Names \cup {NoName} : Begin(call, h, name)
      BY <1>1 DEF PingCall, DnsCall
    <2>2. /\ op' \in Calls /\ op'.call # "connect" /\ (op'.pc = "send" => Known(NextHop(op'.dst)))
          /\ arp' = arp /\ calls' = calls + 1 /\ OutTrue'
      BY <2>1, BeginMeans
    <2> QED  BY <1>0, <2>2 DEF TypeInv, HostInv, ArpTrue, OpReady, Known
  <1>2. ASSUME NEW h \in Hosts, DnsBadName(h)
        PROVE  TypeInv' /\ HostInv'
    BY <1>0, <1>2 DEF DnsBadName, TypeInv, HostInv, ArpTrue, OutTrue, OpReady, Known
  <1>3. CASE SendEcho \/ SendQuery
    <2>1. Known(NextHop(op.dst)) /\ ArpGet(NextHop(op.dst)) = NextHop(op.dst)
      BY <1>0, <1>3, ArpGetTrue DEF OpReady, SendEcho, SendQuery
    <2>2. /\ op' = [op EXCEPT !.pc = "wait"] /\ op.call # "connect" /\ UNCHANGED <<arp, calls>>
          /\ \A f \in out' \ out : f.kind # "who" /\ f.mac = NextHop(f.to)
      BY <1>3, <2>1 DEF SendEcho, SendQuery, Echo, Query
    <2>3. op' \in Calls /\ op'.call = op.call /\ op'.pc = "wait"
      BY <1>0, <2>2 DEF Calls
    <2> QED  BY <1>0, <2>2, <2>3 DEF TypeInv, HostInv, ArpTrue, OutTrue, OpReady, Known
  <1>4. CASE SendQueryFails \/ PingReplied \/ DnsReplied \/ TimedOut
    BY <1>0, <1>4 DEF SendQueryFails, PingReplied, DnsReplied, TimedOut, Return, TypeInv, HostInv, ArpTrue, OutTrue,
         OpReady, NoCall
  <1>5. CASE ArpWaited
    <2>1. UNCHANGED <<arp, out, calls>>
      BY <1>5 DEF ArpWaited
    <2>2. CASE Known(NextHop(op.dst)) /\ op' = [op EXCEPT !.pc = "send"]
      <3>1. op' \in Calls /\ op'.call = op.call /\ op'.dst = op.dst
        BY <1>0, <2>2 DEF Calls
      <3> QED  BY <1>0, <2>1, <2>2, <3>1 DEF TypeInv, HostInv, ArpTrue, OutTrue, OpReady, Known
    <2>3. CASE op' = NoCall
      BY <1>0, <2>1, <2>3 DEF TypeInv, HostInv, ArpTrue, OutTrue, OpReady, NoCall
    <2> QED  BY <1>5, <2>2, <2>3 DEF ArpWaited, Return
  <1> QED  BY <1>1, <1>2, <1>3, <1>4, <1>5 DEF NetStep

LEMMA BlankIsState == Blank \in TcpState
  BY DEF Blank, TcpState, None, Number, Numbers, NoSegment, Ends

\* The steps of the calls of TCP.
LEMMA TcpTypes ==
  ASSUME TypeInv, HostInv,
         \/ Poll \/ (\E s \in Services : Connect(s)) \/ SendSyn \/ Connected
         \/ (\E len \in SendLens : Send(len)) \/ Recv \/ Received \/ Close \/ Ended \/ TcpTimedOut
  PROVE  TypeInv' /\ HostInv'
  <1> USE NoCallIsCall
  <1>0. /\ op \in Calls /\ calls \in Nat /\ DOMAIN peers \subseteq 1..calls /\ tcp \in TcpState
        /\ ArpTrue /\ OutTrue /\ OpReady
    BY DEF TypeInv, HostInv
  <1>1. CASE Poll
    <2>1. HostInv'
      BY <1>1, PollHosts
    <2>2. op' \in Calls /\ UNCHANGED <<calls, peers>>
      BY <1>1, PolledMeans DEF Poll
    <2>3. tcp' \in TcpState
      BY <1>0, <1>1, GotSegmentMeans DEF Poll
    <2> QED  BY <2>1, <2>2, <2>3 DEF TypeInv
  <1>2. ASSUME NEW s \in Services, Connect(s)
        PROVE  TypeInv' /\ HostInv'
    <2>1. s[1] \in Hosts /\ s \in Ends
      BY ServicesAssumption DEF Hosts, Ends
    <2>2. /\ op' \in Calls /\ op'.dst = s[1] /\ (op'.pc = "send" => Known(NextHop(op'.dst)))
          /\ arp' = arp /\ calls' = calls + 1 /\ OutTrue'
      BY <1>2, <2>1, BeginMeans DEF Connect
    <2>3. tcp' = [Blank EXCEPT !.st = "SYN_SENT", !.dst = s, !.n = calls']
      BY <1>2 DEF Connect
    <2>4. tcp' \in TcpState /\ tcp'.dst = s
      <3> DEFINE n == calls'
      <3>1. n \in Nat /\ tcp' = [Blank EXCEPT !.st = "SYN_SENT", !.dst = s, !.n = n]
        BY <1>0, <2>2, <2>3
      <3> HIDE DEF n
      <3> QED  BY <2>1, <3>1, BlankIsState DEF TcpState
    <2>5. /\ DOMAIN peers' = DOMAIN peers \cup {calls'}
          /\ \A n \in DOMAIN peers' : peers'[n] = IF n = calls' THEN s ELSE peers[n]
      BY <1>2 DEF Connect
    <2>6. DOMAIN peers' \subseteq 1..calls' /\ \A n \in DOMAIN peers' : peers'[n] \in Services
      BY <1>0, <2>2, <2>5 DEF TypeInv
    <2> QED  BY <1>0, <2>2, <2>4, <2>6 DEF TypeInv, HostInv, ArpTrue, OpReady, Known
  <1>3. CASE SendSyn
    <2>1. Known(NextHop(tcp.dst[1])) /\ op.dst = tcp.dst[1] /\ op.call = "connect"
      BY <1>0, <1>3 DEF OpReady, SendSyn
    <2>2. \A f \in out' \ out : f.kind = "tcp" /\ f.mac = NextHop(f.to)
      BY <1>0, <1>3, <2>1, SegmentTrue DEF SendSyn
    <2>3. tcp' \in TcpState /\ tcp'.dst = tcp.dst
      BY <1>0, <1>3 DEF SendSyn, TcpState
    <2>4. op' \in Calls /\ op'.call = op.call /\ op'.dst = op.dst /\ op'.pc = "first"
      BY <1>0, <1>3 DEF SendSyn, Calls
    <2>5. UNCHANGED <<arp, calls, peers>> /\ OutTrue'
      BY <1>0, <1>3, <2>2 DEF SendSyn, OutTrue
    <2> QED  BY <1>0, <2>1, <2>3, <2>4, <2>5 DEF TypeInv, HostInv, ArpTrue, OpReady, Known
  <1>4. CASE Connected \/ Ended \/ TcpTimedOut
    <2>1. op' = NoCall /\ UNCHANGED <<arp, out, calls, tcp, peers>>
      BY <1>4 DEF Connected, Ended, TcpTimedOut, Return
    <2> QED  BY <1>0, <2>1 DEF TypeInv, HostInv, ArpTrue, OutTrue, OpReady, NoCall
  <1>5. ASSUME NEW len \in SendLens, Send(len)
        PROVE  TypeInv' /\ HostInv'
    <2>1. \A f \in out' \ out : f.kind = "tcp" /\ f.mac = NextHop(f.to)
      BY <1>0, <1>5, SegmentTrue DEF Send, PeerKnown
    <2>2. tcp' \in TcpState /\ tcp'.dst = tcp.dst
      <3>1. tcp' = [tcp EXCEPT !.seq = tcp.seq + len] /\ len \in Nat
        BY <1>5, LengthsAssumption DEF Send
      <3> QED  BY <1>0, <3>1 DEF TcpState
    <2>3. UNCHANGED <<arp, peers, op>> /\ calls' = calls + 1 /\ OutTrue'
      BY <1>0, <1>5, <2>1 DEF Send, OutTrue
    <2> QED  BY <1>0, <2>2, <2>3 DEF TypeInv, HostInv, ArpTrue, OpReady, Known
  <1>6. CASE Recv
    <2>1. op' \in Calls /\ op'.pc = "first" /\ op'.call = "recv"
      BY <1>6, GatewayIsHost DEF Recv, Calls
    <2> QED  BY <1>0, <1>6, <2>1 DEF Recv, TypeInv, HostInv, ArpTrue, OutTrue, OpReady
  <1>7. CASE Received
    <2>1. tcp' \in TcpState /\ tcp'.dst = tcp.dst
      <3> DEFINE taken == tcp.taken \cup (IF tcp.rx.n = tcp.n THEN {tcp.rx.i} ELSE {})
      <3>1. tcp' = [tcp EXCEPT !.rxready = FALSE, !.taken = taken]
        BY <1>7 DEF Received
      <3>2. taken \in SUBSET Nat
        BY <1>0 DEF TcpState
      <3> HIDE DEF taken
      <3> QED  BY <1>0, <3>1, <3>2 DEF TcpState
    <2> QED  BY <1>0, <1>7, <2>1 DEF Received, Return, TypeInv, HostInv, ArpTrue, OutTrue, OpReady, NoCall
  <1>8. CASE Close
    <2>1. \A f \in out' \ out : f.kind = "tcp" /\ f.mac = NextHop(f.to)
      BY <1>0, <1>8, SegmentTrue DEF Close, PeerKnown
    <2>2. tcp' \in TcpState /\ tcp'.dst = tcp.dst
      <3> DEFINE seq == tcp.seq + 1
      <3>1. seq \in Nat /\ tcp' = [tcp EXCEPT !.seq = seq, !.st = "FIN_WAIT"]
        BY <1>0, <1>8 DEF Close, TcpState
      <3> HIDE DEF seq
      <3> QED  BY <1>0, <3>1 DEF TcpState
    <2>3. op' \in Calls /\ op'.pc = "first" /\ op'.call = "close"
      BY <1>8, GatewayIsHost DEF Close, Calls
    <2>4. UNCHANGED <<arp, peers>> /\ calls' = calls + 1 /\ OutTrue'
      BY <1>0, <1>8, <2>1 DEF Close, OutTrue
    <2> QED  BY <1>0, <2>2, <2>3, <2>4 DEF TypeInv, HostInv, ArpTrue, OpReady
  <1> QED  BY <1>1, <1>2, <1>3, <1>4, <1>5, <1>6, <1>7, <1>8

BaseInv == TypeInv /\ HostInv

LEMMA BaseInit == ASSUME Init PROVE BaseInv
  BY NoCallIsCall, BlankIsState DEF Init, NetInit, BaseInv, TypeInv, HostInv, ArpTrue, OutTrue, OpReady, NoCall

LEMMA BaseStep ==
  ASSUME BaseInv, [Next]_vars
  PROVE  BaseInv'
  <1>1. CASE UNCHANGED vars
    BY <1>1 DEF vars, netVars, BaseInv, TypeInv, HostInv, ArpTrue, OutTrue, OpReady, Known
  <1>2. CASE Next
    BY <1>2, Steps, NetTypes, TcpTypes DEF BaseInv
  <1> QED  BY <1>1, <1>2

\* Every frame for a host goes to the station of its next hop: net.c keeps the station
\* that arp_get found, or asks again, and the table holds only what its hosts said.
THEOREM NextHopCorrect == Spec => []FramesGoToNextHop
  <1>1. BaseInv => FramesGoToNextHop
    BY DEF BaseInv, HostInv, OutTrue, FramesGoToNextHop
  <1> QED  BY <1>1, BaseInit, BaseStep, PTL DEF Spec

-----------------------------------------------------------------------------
(* What ping and nslookup wait for.                                        *)

\* The reply that was noted came from the host pinged last, and that is the one of the
\* ping under way; the datagram in the buffer of a lookup that waits came during it.
CallInv ==
  /\ ping \in [dst : Hosts, got : BOOLEAN, from : Hosts]
  /\ ping.got => ping.from = ping.dst
  /\ DOMAIN udp = {"listening", "ready", "at", "src", "id", "name", "found"}
  /\ op.call \in {"ping", "dns"} => op.pc # "first"
  /\ op.call = "ping" /\ op.pc = "wait" => ping.dst = op.dst
  /\ op.call = "dns" /\ op.pc = "wait" /\ udp.ready => udp.at = calls
  /\ PingMeansReply /\ DatagramIsFresh

LEMMA CallInit == ASSUME Init PROVE CallInv
  BY GatewayIsHost DEF Init, NetInit, CallInv, PingMeansReply, DatagramIsFresh, Nothing, NoCall

\* The results of the steps that return: only PingReplied and DnsReplied have one of the
\* two properties to show.
LEMMA CallReturns ==
  ASSUME CallInv, op \in Calls,
         \/ SendQueryFails \/ PingReplied \/ DnsReplied \/ TimedOut
         \/ ArpWaited /\ op' # [op EXCEPT !.pc = "send"]
  PROVE  CallInv'
  <1>1. CASE PingReplied
    <2>1. op' = NoCall /\ UNCHANGED <<ping, udp>> /\ op.dst = ping.dst /\ ping.from = ping.dst
      BY <1>1 DEF PingReplied, Return, CallInv
    <2>2. result'.from = ping.from /\ result'.dst = op.dst /\ result'.call = "ping"
      BY <1>1 DEF PingReplied, Return, Failed, Nothing
    <2> QED  BY <2>1, <2>2 DEF CallInv, NoCall, PingMeansReply, DatagramIsFresh
  <1>2. CASE DnsReplied
    <2>1. /\ op' = NoCall /\ ping' = ping /\ udp' = [udp EXCEPT !.ready = FALSE] /\ udp.at = calls
      BY <1>2 DEF DnsReplied, Return, CallInv
    <2>2. result'.n = udp.at /\ result'.try = calls /\ result'.call = "dns"
      BY <1>2 DEF DnsReplied, Return, Failed, Nothing
    <2>3. DOMAIN udp' = DOMAIN udp
      BY <2>1
    <2> QED  BY <2>1, <2>2, <2>3 DEF CallInv, NoCall, PingMeansReply, DatagramIsFresh
  <1>3. CASE op' = NoCall /\ result' = Failed /\ UNCHANGED <<ping, udp>>
    <2>1. result'.n = 0 /\ result'.try = 0 /\ result'.ok = FALSE
      BY <1>3 DEF Failed, Nothing
    <2> QED  BY <1>3, <2>1 DEF CallInv, NoCall, PingMeansReply, DatagramIsFresh
  <1> QED  BY <1>1, <1>2, <1>3 DEF SendQueryFails, ArpWaited, TimedOut, Return

LEMMA CallNet ==
  ASSUME BaseInv, CallInv, NetStep, UNCHANGED <<tcp, peers>>
  PROVE  CallInv'
  <1>0. /\ op \in Calls /\ TypeInv /\ HostInv
    BY DEF TypeInv, BaseInv
  <1>1. ASSUME NEW h \in Hosts, PingCall(h) \/ \E name \in Names : DnsCall(h, name)
        PROVE  CallInv'
    <2>1. PICK call \in {"ping", "dns"}, name \in Names \cup {NoName} : Begin(call, h, name)
      BY <1>1 DEF PingCall, DnsCall
    <2>2. op'.pc \in {"send", "arp"} /\ UNCHANGED <<ping, udp, result>>
      BY <1>0, <2>1, BeginMeans
    <2> QED  BY <2>2 DEF CallInv, PingMeansReply, DatagramIsFresh
  <1>2. ASSUME NEW h \in Hosts, DnsBadName(h)
        PROVE  CallInv'
    <2>1. UNCHANGED <<ping, udp, op>> /\ result'.n = 0 /\ result'.try = 0 /\ result'.ok = FALSE /\ op.call = "none"
      BY <1>2 DEF DnsBadName, Nothing
    <2> QED  BY <2>1 DEF CallInv, PingMeansReply, DatagramIsFresh
  <1>3. CASE SendEcho
    <2>1. op' \in Calls /\ op'.call = "ping" /\ op'.dst = op.dst /\ op.dst \in Hosts
      BY <1>0, <1>3 DEF SendEcho, Calls
    <2>2. ping' = [ping EXCEPT !.dst = op.dst, !.got = FALSE] /\ UNCHANGED <<udp, result>>
          /\ op' = [op EXCEPT !.pc = "wait"]
      BY <1>3 DEF SendEcho
    <2>3. /\ ping' \in [dst : Hosts, got : BOOLEAN, from : Hosts]
          /\ ping'.dst = op.dst /\ ping'.got = FALSE
      BY <2>1, <2>2 DEF CallInv
    <2>4. op'.pc = "wait"
      BY <1>0, <2>2 DEF Calls
    <2> QED  BY <2>1, <2>2, <2>3, <2>4 DEF CallInv, PingMeansReply, DatagramIsFresh
  <1>4. CASE SendQuery
    <2>1. op' \in Calls /\ op'.call = "dns" /\ op'.pc = "wait"
      BY <1>0, <1>4 DEF SendQuery, Calls
    <2>2. udp' = [udp EXCEPT !.listening = TRUE, !.ready = FALSE] /\ UNCHANGED <<ping, result>>
      BY <1>4 DEF SendQuery
    <2>3. DOMAIN udp' = DOMAIN udp /\ udp'.ready = FALSE
      BY <2>2 DEF CallInv
    <2> QED  BY <2>1, <2>2, <2>3 DEF CallInv, PingMeansReply, DatagramIsFresh
  <1>5. CASE SendQueryFails \/ PingReplied \/ DnsReplied \/ TimedOut
    BY <1>0, <1>5, CallReturns
  <1>6. CASE ArpWaited
    <2>1. CASE op' = [op EXCEPT !.pc = "send"]
      <3>1. op'.pc = "send" /\ UNCHANGED <<ping, udp>> /\ (result' = result \/ op' = NoCall)
        BY <1>0, <1>6, <2>1 DEF ArpWaited, Return, Calls
      <3> QED  BY <3>1 DEF CallInv, PingMeansReply, DatagramIsFresh, NoCall
    <2> QED  BY <1>0, <1>6, <2>1, CallReturns
  <1> QED  BY <1>1, <1>2, <1>3, <1>4, <1>5, <1>6 DEF NetStep

LEMMA CallPoll ==
  ASSUME BaseInv, CallInv, Poll
  PROVE  CallInv'
  <1>1. /\ op'.call = op.call /\ op'.dst = op.dst /\ UNCHANGED <<calls, result>>
        /\ op'.pc = IF op.pc = "first" THEN "wait" ELSE op.pc
    BY PolledMeans DEF BaseInv, Poll
  <1>2. CASE Handled
    <2>1. PICK f \in out : \/ GotArp(f)
                           \/ GotEchoReply(f)
                           \/ \E found \in BOOLEAN : GotDatagram(f, found)
      BY <1>2 DEF Handled
    <2>2. CASE GotArp(f)
      BY <1>1, <2>2 DEF GotArp, CallInv, PingMeansReply, DatagramIsFresh
    <2>3. CASE GotEchoReply(f)
      <3> DEFINE from == f.to
      <3>1. ping' = [ping EXCEPT !.got = TRUE, !.from = from] /\ from = ping.dst /\ udp' = udp
        BY <2>3 DEF GotEchoReply
      <3> HIDE DEF from
      <3>2. ping' \in [dst : Hosts, got : BOOLEAN, from : Hosts] /\ ping'.dst = ping.dst
            /\ ping'.from = ping.dst
        BY <3>1 DEF CallInv
      <3> QED  BY <1>1, <3>1, <3>2 DEF CallInv, PingMeansReply, DatagramIsFresh
    <2>4. ASSUME NEW found \in BOOLEAN, GotDatagram(f, found)
          PROVE  CallInv'
      <3>1. (op.call = "dns" /\ op.pc = "wait" => udp'.at = calls) /\ ping' = ping
            /\ DOMAIN udp' = {"listening", "ready", "at", "src", "id", "name", "found"}
        BY <2>4 DEF GotDatagram
      <3> QED  BY <1>1, <3>1 DEF CallInv, PingMeansReply, DatagramIsFresh
    <2> QED  BY <2>1, <2>2, <2>3, <2>4
  <1>3. CASE UNCHANGED <<ping, udp>>
    BY <1>1, <1>3 DEF CallInv, PingMeansReply, DatagramIsFresh
  <1> QED  BY <1>2, <1>3 DEF Poll, GotSegment

\* The calls of TCP leave alone what ping and nslookup use, and return results of their own.
LEMMA CallTcp ==
  ASSUME BaseInv, CallInv,
         \/ (\E s \in Services : Connect(s)) \/ SendSyn \/ Connected
         \/ (\E len \in SendLens : Send(len)) \/ Recv \/ Received \/ Close \/ Ended \/ TcpTimedOut
  PROVE  CallInv'
  <1>0. op \in Calls /\ TypeInv /\ HostInv
    BY DEF BaseInv, TypeInv
  <1>1. ASSUME NEW s \in Services, Connect(s)
        PROVE  CallInv'
    <2>1. s[1] \in Hosts
      BY ServicesAssumption DEF Hosts
    <2>2. op'.pc \in {"send", "arp"} /\ UNCHANGED <<ping, udp, result>>
      BY <1>0, <1>1, <2>1, BeginMeans DEF Connect
    <2> QED  BY <2>2 DEF CallInv, PingMeansReply, DatagramIsFresh
  <1>2. CASE SendSyn \/ Recv \/ Close \/ \E len \in SendLens : Send(len)
    <2>1. CASE SendSyn \/ Recv \/ Close
      <3>1. UNCHANGED <<ping, udp, result>> /\ op'.call \notin {"ping", "dns"}
        BY <1>0, <2>1 DEF SendSyn, Recv, Close, Calls
      <3> QED  BY <3>1 DEF CallInv, PingMeansReply, DatagramIsFresh
    <2>2. ASSUME NEW len \in SendLens, Send(len)
          PROVE  CallInv'
      <3>1. UNCHANGED <<ping, udp, op>> /\ op.call = "none" /\ result'.call = "send"
        BY <2>2 DEF Send, Outcome
      <3> QED  BY <3>1 DEF CallInv, PingMeansReply, DatagramIsFresh
    <2> QED  BY <1>2, <2>1, <2>2
  <1>3. CASE Connected \/ Received \/ Ended \/ TcpTimedOut
    <2>1. UNCHANGED <<ping, udp>> /\ op' = NoCall
      BY <1>3 DEF Connected, Received, Ended, TcpTimedOut, Return
    <2>2. CASE Connected \/ Ended \/ TcpTimedOut
      <3>1. result'.call \notin {"ping", "dns"}
        BY <2>2 DEF Connected, Ended, TcpTimedOut, Return, Outcome
      <3> QED  BY <2>1, <3>1 DEF CallInv, PingMeansReply, DatagramIsFresh, NoCall
    <2>3. CASE Received
      <3>1. result'.call = "recv"
        BY <2>3 DEF Received, Return, Outcome
      <3> QED  BY <2>1, <3>1 DEF CallInv, PingMeansReply, DatagramIsFresh, NoCall
    <2> QED  BY <1>3, <2>2, <2>3
  <1> QED  BY <1>1, <1>2, <1>3

LEMMA CallStep ==
  ASSUME BaseInv, CallInv, [Next]_vars
  PROVE  CallInv'
  <1>1. CASE UNCHANGED vars
    BY <1>1 DEF vars, netVars, CallInv, PingMeansReply, DatagramIsFresh
  <1>2. CASE Next
    BY <1>2, Steps, CallNet, CallPoll, CallTcp
  <1> QED  BY <1>1, <1>2

\* A ping that succeeds has had a reply of the host it was for, though perhaps to an earlier
\* ping of that host: handle_ipv4_icmp compares the source with g_ping_dst, which
\* net_ping_ipv4 sets before it clears g_ping_got.
THEOREM PingCorrect == Spec => []PingMeansReply
  <1>1. CallInv => PingMeansReply
    BY DEF CallInv
  <1> QED  BY <1>1, BaseInit, CallInit, BaseStep, CallStep, PTL DEF Spec

\* A lookup uses a datagram that came while it waited, after it sent its query: net_udp_recv
\* empties the buffer that pings, earlier lookups and the wait for a station may have filled.
THEOREM DatagramCorrect == Spec => []DatagramIsFresh
  <1>1. CallInv => DatagramIsFresh
    BY DEF CallInv
  <1> QED  BY <1>1, BaseInit, CallInit, BaseStep, CallStep, PTL DEF Spec

-----------------------------------------------------------------------------
(* Our sequence numbers.                                                   *)

Tcps == {f \in out : f.kind = "tcp"}

\* The segments of the current connection fill only numbers below the next one, and
\* a new connection has a number of its own.
FillInv ==
  /\ tcp.n <= calls
  /\ \A f \in Tcps : f.n \in Nat /\ f.n <= tcp.n
  /\ \A f \in Tcps : f.n = tcp.n => f.fills \subseteq 0 .. (tcp.seq - 1)
  /\ SegmentsApart

LEMMA FillInit == ASSUME Init PROVE FillInv
  BY DEF Init, NetInit, Blank, FillInv, Tcps, SegmentsApart

\* A step that sends no segment.
LEMMA FillKept ==
  ASSUME TypeInv, FillInv, Tcps' = Tcps, tcp'.n = tcp.n, tcp'.seq = tcp.seq,
         calls' \in {calls, calls + 1}
  PROVE  FillInv'
  <1>1. /\ tcp.n \in Nat /\ calls \in Nat
        /\ \A f, g \in Tcps : f.n = g.n /\ f # g => f.fills \cap g.fills = {}
    BY DEF TypeInv, TcpState, FillInv, SegmentsApart, Tcps
  <1>2. SegmentsApart'
    BY <1>1 DEF SegmentsApart, Tcps
  <1> QED  BY <1>1, <1>2 DEF FillInv

\* A step that sends segments from the next number on.
Sends(S) ==
  /\ out' = out \cup S
  /\ \A f \in S : f.kind = "tcp" /\ f.n = tcp.n /\ f.fills \subseteq tcp.seq .. (tcp'.seq - 1)
  /\ \A f, g \in S : f # g => f.fills \cap g.fills = {}
  /\ tcp'.n = tcp.n /\ tcp'.seq >= tcp.seq /\ calls' \in {calls, calls + 1}

LEMMA FillSent ==
  ASSUME TypeInv, FillInv, TypeInv', NEW S, Sends(S)
  PROVE  FillInv'
  <1> USE DEF Sends
  <1>1. /\ tcp.n \in Nat /\ tcp.seq \in Nat /\ tcp'.seq \in Nat /\ calls \in Nat
        /\ \A f, g \in Tcps : f.n = g.n /\ f # g => f.fills \cap g.fills = {}
    BY DEF TypeInv, TcpState, FillInv, SegmentsApart, Tcps
  <1>2. Tcps' = Tcps \cup S
    BY DEF Tcps
  <1>3. \A f \in Tcps : f.n = tcp.n => f.fills \cap (tcp.seq .. (tcp'.seq - 1)) = {}
    <2>1. (0 .. (tcp.seq - 1)) \cap (tcp.seq .. (tcp'.seq - 1)) = {}
      BY <1>1
    <2> QED  BY <2>1 DEF FillInv
  <1>4. \A f, g \in Tcps' : f.n = g.n /\ f # g => f.fills \cap g.fills = {}
    <2>1. SUFFICES ASSUME NEW f \in Tcps \cup S, NEW g \in Tcps \cup S, f.n = g.n, f # g
                   PROVE  f.fills \cap g.fills = {}
      BY <1>2
    <2> QED  BY <1>1, <1>3, <2>1
  <1>5. \A f \in Tcps' : f.n \in Nat /\ f.n <= tcp'.n
    BY <1>1, <1>2 DEF FillInv
  <1>6. \A f \in Tcps' : f.n = tcp'.n => f.fills \subseteq 0 .. (tcp'.seq - 1)
    <2>1. /\ (0 .. (tcp.seq - 1)) \subseteq 0 .. (tcp'.seq - 1)
          /\ (tcp.seq .. (tcp'.seq - 1)) \subseteq 0 .. (tcp'.seq - 1)
      BY <1>1
    <2> QED  BY <1>2, <2>1 DEF FillInv
  <1>7. tcp'.n <= calls'
    BY <1>1 DEF FillInv
  <1>8. SegmentsApart'
    BY <1>4 DEF SegmentsApart, Tcps
  <1> QED  BY <1>5, <1>6, <1>7, <1>8 DEF FillInv

\* A segment fills no more numbers than the code counts: its payload is cut, and of its
\* flags SYN and FIN take one each.
LEMMA SegmentFills ==
  ASSUME tcp.seq \in Nat, NEW len \in Nat, NEW ack, NEW mac
  PROVE  /\ Segment({"ACK"}, tcp.seq, ack, 0, mac).fills = {}
         /\ Segment({"SYN"}, tcp.seq, ack, 0, mac).fills \subseteq tcp.seq .. (tcp.seq + 1 - 1)
         /\ Segment({"FIN", "ACK"}, tcp.seq, ack, 0, mac).fills \subseteq tcp.seq .. (tcp.seq + 1 - 1)
         /\ Segment({"ACK", "PSH"}, tcp.seq, ack, len, mac).fills \subseteq tcp.seq .. (tcp.seq + len - 1)
  <1>1. Carried(0) = 0 /\ Carried(len) \in Nat /\ Carried(len) <= len
    BY LengthsAssumption DEF Carried
  <1>2. /\ Cardinality({"ACK"} \cap {"SYN", "FIN"}) = 0
        /\ Cardinality({"ACK", "PSH"} \cap {"SYN", "FIN"}) = 0
    <2>1. {"ACK"} \cap {"SYN", "FIN"} = {} /\ {"ACK", "PSH"} \cap {"SYN", "FIN"} = {}
      OBVIOUS
    <2> QED  BY <2>1, FS_EmptySet
  <1>3. Cardinality({"SYN"} \cap {"SYN", "FIN"}) = 1
    <2>1. {"SYN"} \cap {"SYN", "FIN"} = {"SYN"}
      OBVIOUS
    <2> QED  BY <2>1, FS_Singleton
  <1>4. Cardinality({"FIN", "ACK"} \cap {"SYN", "FIN"}) = 1
    <2>1. {"FIN", "ACK"} \cap {"SYN", "FIN"} = {"FIN"}
      OBVIOUS
    <2> QED  BY <2>1, FS_Singleton
  <1>5. Segment({"ACK"}, tcp.seq, ack, 0, mac).fills = tcp.seq .. tcp.seq + 0 + 0 - 1
    BY <1>1, <1>2 DEF Segment
  <1>6. Segment({"SYN"}, tcp.seq, ack, 0, mac).fills = tcp.seq .. tcp.seq + 0 + 1 - 1
    BY <1>1, <1>3 DEF Segment
  <1>7. Segment({"FIN", "ACK"}, tcp.seq, ack, 0, mac).fills = tcp.seq .. tcp.seq + 0 + 1 - 1
    BY <1>1, <1>4 DEF Segment
  <1>8. Segment({"ACK", "PSH"}, tcp.seq, ack, len, mac).fills = tcp.seq .. tcp.seq + Carried(len) + 0 - 1
    BY <1>1, <1>2 DEF Segment
  <1> QED  BY <1>1, <1>5, <1>6, <1>7, <1>8, SMTT(30)

LEMMA SegmentIsTcp ==
  ASSUME NEW flags, NEW seq, NEW ack, NEW len, NEW mac
  PROVE  LET f == Segment(flags, seq, ack, len, mac)
         IN  f.kind = "tcp" /\ f.n = tcp.n /\ f.ack = ack
  BY DEF Segment

LEMMA FillPoll ==
  ASSUME BaseInv, BaseInv', FillInv, Poll
  PROVE  FillInv'
  <1>1. calls' = calls /\ TypeInv /\ TypeInv' /\ tcp.seq \in Nat
    BY DEF Poll, BaseInv, TypeInv, TcpState
  <1>2. CASE GotSegment
    <2>1. SameStream
      BY <1>1, <1>2, GotSegmentMeans
    <2>2. PICK acks : Acknowledge(acks)
      BY <1>2 DEF GotSegment, GotSynAck, GotData
    <2>3. CASE out' = out
      BY <1>1, <2>1, <2>3, FillKept DEF SameStream, Tcps
    <2>4. CASE PeerKnown
      <3> DEFINE S == {Segment({"ACK"}, tcp.seq, a, 0, ArpGet(NextHop(tcp.dst[1]))) : a \in acks}
      <3>1. out' = out \cup S
        BY <2>2, <2>4 DEF Acknowledge
      <3>2. \A f \in S : f.kind = "tcp" /\ f.n = tcp.n /\ f.fills = {}
        BY <1>1, SegmentFills, SegmentIsTcp
      <3> HIDE DEF S
      <3>3. Sends(S)
        BY <1>1, <2>1, <3>1, <3>2 DEF SameStream, Sends
      <3> QED  BY <1>1, <3>3, FillSent
    <2> QED  BY <2>2, <2>3, <2>4 DEF Acknowledge
  <1>3. CASE UNCHANGED <<out, tcp>>
    BY <1>1, <1>3, FillKept DEF Tcps
  <1> QED  BY <1>2, <1>3 DEF Poll

LEMMA FillNet ==
  ASSUME BaseInv, FillInv, NetStep, UNCHANGED <<tcp, peers>>
  PROVE  FillInv'
  <1>1. TypeInv /\ HostInv
    BY DEF BaseInv
  <1>2. calls' \in {calls, calls + 1} /\ Tcps' = Tcps
    <2>1. ASSUME NEW h \in Hosts, PingCall(h) \/ \E name \in Names : DnsCall(h, name)
          PROVE  calls' = calls + 1 /\ Tcps' = Tcps
      BY <2>1 DEF PingCall, DnsCall, Begin, Tcps, WhoHas
    <2>2. ASSUME NEW h \in Hosts, DnsBadName(h)
          PROVE  calls' = calls + 1 /\ Tcps' = Tcps
      BY <2>2 DEF DnsBadName, Tcps
    <2>3. ASSUME SendEcho \/ SendQuery
          PROVE  calls' = calls /\ Tcps' = Tcps
      BY <2>3 DEF SendEcho, SendQuery, Tcps, Echo, Query
    <2>4. ASSUME SendQueryFails \/ PingReplied \/ DnsReplied \/ ArpWaited \/ TimedOut
          PROVE  calls' = calls /\ Tcps' = Tcps
      BY <2>4 DEF SendQueryFails, PingReplied, DnsReplied, ArpWaited, TimedOut, Tcps
    <2> QED  BY <2>1, <2>2, <2>3, <2>4 DEF NetStep
  <1> QED  BY <1>1, <1>2, FillKept

LEMMA FillConnect ==
  ASSUME BaseInv, FillInv, NEW s \in Services, Connect(s)
  PROVE  FillInv'
  <1>1. calls' = calls + 1 /\ tcp'.n = calls + 1 /\ Tcps' = Tcps
    BY DEF Connect, Begin, Tcps, WhoHas, Blank
  <1>2. tcp.n \in Nat /\ calls \in Nat
    BY DEF BaseInv, TypeInv, TcpState
  <1>3. \A f \in Tcps : f.n \in Nat /\ f.n <= calls
    BY <1>2 DEF FillInv
  <1>4. SegmentsApart'
    BY <1>1 DEF FillInv, SegmentsApart, Tcps
  <1> QED  BY <1>1, <1>2, <1>3, <1>4 DEF FillInv

LEMMA FillTcp ==
  ASSUME BaseInv, BaseInv', FillInv,
         \/ SendSyn \/ Connected
         \/ (\E len \in SendLens : Send(len)) \/ Recv \/ Received \/ Close \/ Ended \/ TcpTimedOut
  PROVE  FillInv'
  <1>0. TypeInv /\ TypeInv' /\ tcp \in TcpState /\ tcp.seq \in Nat /\ 0 \in Nat
    BY DEF BaseInv, TypeInv, TcpState
  <1>1. CASE SendSyn
    <2> DEFINE f == Segment({"SYN"}, tcp.seq, None, 0, ArpGet(NextHop(op.dst)))
    <2>1. out' = out \cup {f} /\ calls' = calls /\ tcp' = [tcp EXCEPT !.seq = tcp.seq + 1]
      BY <1>1 DEF SendSyn
    <2>2. tcp'.n = tcp.n /\ tcp'.seq = tcp.seq + 1
      BY <1>0, <2>1 DEF TcpState
    <2>3. f.kind = "tcp" /\ f.n = tcp.n /\ f.fills \subseteq tcp.seq .. (tcp'.seq - 1)
      BY <1>0, <2>2, SegmentFills, SegmentIsTcp
    <2> HIDE DEF f
    <2>4. Sends({f})
      BY <1>0, <2>1, <2>2, <2>3 DEF Sends
    <2> QED  BY <1>0, <2>4, FillSent
  <1>2. ASSUME NEW len \in SendLens, Send(len)
        PROVE  FillInv'
    <2> DEFINE f == Segment({"ACK", "PSH"}, tcp.seq, tcp.ack, len, ArpGet(NextHop(tcp.dst[1])))
    <2>0. len \in Nat
      BY LengthsAssumption
    <2>1. out' = out \cup {f} /\ calls' = calls + 1 /\ tcp' = [tcp EXCEPT !.seq = tcp.seq + len]
      BY <1>2 DEF Send
    <2>2. tcp'.n = tcp.n /\ tcp'.seq = tcp.seq + len
      BY <1>0, <2>1 DEF TcpState
    <2>3. f.kind = "tcp" /\ f.n = tcp.n /\ f.fills \subseteq tcp.seq .. (tcp'.seq - 1)
      BY <1>0, <2>0, <2>2, SegmentFills, SegmentIsTcp
    <2> HIDE DEF f
    <2>4. Sends({f})
      BY <1>0, <2>0, <2>1, <2>2, <2>3 DEF Sends
    <2> QED  BY <1>0, <2>4, FillSent
  <1>3. CASE Close
    <2> DEFINE f == Segment({"FIN", "ACK"}, tcp.seq, tcp.ack, 0, ArpGet(NextHop(tcp.dst[1])))
               seq == tcp.seq + 1
    <2>1. out' = out \cup {f} /\ calls' = calls + 1 /\ tcp' = [tcp EXCEPT !.seq = seq, !.st = "FIN_WAIT"]
      BY <1>3 DEF Close
    <2>2. tcp'.n = tcp.n /\ tcp'.seq = seq
      <3> HIDE DEF seq, f
      <3> QED  BY <1>0, <2>1 DEF TcpState
    <2>3. f.kind = "tcp" /\ f.n = tcp.n /\ f.fills \subseteq tcp.seq .. (tcp'.seq - 1)
      BY <1>0, <2>2, SegmentFills, SegmentIsTcp
    <2> HIDE DEF f
    <2>4. Sends({f})
      BY <1>0, <2>1, <2>2, <2>3 DEF Sends
    <2> QED  BY <1>0, <2>4, FillSent
  <1>4. CASE Connected \/ Recv \/ Ended \/ TcpTimedOut
    BY <1>0, <1>4, FillKept DEF Connected, Recv, Ended, TcpTimedOut, Tcps
  <1>5. CASE Received
    <2> DEFINE taken == tcp.taken \cup (IF tcp.rx.n = tcp.n THEN {tcp.rx.i} ELSE {})
    <2>1. tcp' = [tcp EXCEPT !.rxready = FALSE, !.taken = taken] /\ UNCHANGED <<calls, out>>
      BY <1>5 DEF Received
    <2> HIDE DEF taken
    <2>2. tcp'.n = tcp.n /\ tcp'.seq = tcp.seq
      BY <1>0, <2>1 DEF TcpState
    <2> QED  BY <1>0, <2>1, <2>2, FillKept DEF Tcps
  <1> QED  BY <1>1, <1>2, <1>3, <1>4, <1>5

LEMMA FillStep ==
  ASSUME BaseInv, FillInv, [Next]_vars
  PROVE  FillInv'
  <1>0. BaseInv' /\ TypeInv
    BY BaseStep DEF BaseInv
  <1>1. CASE UNCHANGED vars
    BY <1>0, <1>1, FillKept DEF vars, netVars, Tcps
  <1>2. CASE Next
    BY <1>0, <1>2, Steps, FillNet, FillPoll, FillConnect, FillTcp
  <1> QED  BY <1>1, <1>2

\* No two of our segments of one connection fill the same number, whatever lengths
\* net_tcp_send is given: it counts the bytes it cuts off, too, so that numbers are left
\* out but never used again, and the connection after it has a number of its own.
THEOREM SegmentsCorrect == Spec => []SegmentsApart
  <1>1. FillInv => SegmentsApart
    BY DEF FillInv
  <1> QED  BY <1>1, BaseInit, FillInit, BaseStep, FillStep, PTL DEF Spec

-----------------------------------------------------------------------------
(* The stream that recv returns.                                           *)

\* The first numbers of the segments of the current connection that recv has returned or
\* that lie in the buffer.
Held == tcp.taken \cup (IF tcp.rxready /\ tcp.rx.n = tcp.n THEN {tcp.rx.i} ELSE {})

\* An acknowledgement x that is the end of a segment of connection n is so of one of S.
Fine(x, n, S) ==
  \A j \in Nat \ {0} : x.isn = n /\ x.i = FirstByte(j) + SegmentLen => FirstByte(j) \in S

DataInv ==
  /\ tcp.connected => tcp.from = tcp.dst
  /\ tcp.rxready => tcp.rx.from = tcp.dst
  /\ Fine(tcp.ack, tcp.n, Held)
  /\ \A f \in Tcps : f.n = tcp.n => Fine(f.ack, tcp.n, Held)
  /\ ReceivedIsFromPeer

LEMMA FineKept ==
  ASSUME NEW x, NEW n, NEW S, NEW T, S \subseteq T, Fine(x, n, S)
  PROVE  Fine(x, n, T)
  BY DEF Fine

\* The numbers up to the first byte are no ends of segments, nor is that of FIN, which is
\* the second number of a segment.
LEMMA EarlyIsFine ==
  ASSUME NEW x, x.i \in {0, 1}, NEW n, NEW S
  PROVE  Fine(x, n, S)
  BY FirstByteIsNat, LengthsAssumption DEF Fine

LEMMA FinIsNoEnd ==
  ASSUME NEW i \in Nat \ {0}, NEW j \in Nat \ {0}
  PROVE  FirstByte(i) + 1 # FirstByte(j) + SegmentLen
  <1> DEFINE a == i - 1
             b == j - 1
             L == SegmentLen
  <1>1. a \in Nat /\ b \in Nat /\ L \in Nat /\ L > 1
    BY LengthsAssumption
  <1>2. FirstByte(i) = 1 + a * L /\ FirstByte(j) = 1 + b * L
    BY DEF FirstByte
  <1> HIDE DEF a, b, L
  <1>3. a * L + 1 # b * L + L
    <2>1. CASE b < a
      <3>1. a - b - 1 \in Nat /\ (a - b - 1) * L \in Nat
        BY <1>1, <2>1
      <3>2. (a - b - 1) * L = a * L - b * L - L
        BY <1>1
      <3> QED  BY <1>1, <3>1, <3>2
    <2>2. CASE b >= a
      <3>1. b - a \in Nat /\ (b - a) * L \in Nat
        BY <1>1, <2>2
      <3>2. (b - a) * L = b * L - a * L
        BY <1>1
      <3> QED  BY <1>1, <3>1, <3>2
    <2> QED  BY <1>1, <2>1, <2>2
  <1> QED  BY <1>1, <1>2, <1>3 DEF L

LEMMA FinIsFine ==
  ASSUME NEW x, NEW i \in Nat \ {0}, x.i = FirstByte(i) + 1, NEW n, NEW S
  PROVE  Fine(x, n, S)
  BY FinIsNoEnd DEF Fine

SameData ==
  UNCHANGED <<tcp.dst, tcp.n, tcp.taken, tcp.ack, tcp.rx, tcp.rxready, tcp.from, tcp.connected>>

\* A step that sends at most acknowledgements of before and returns no data.
LEMMA DataKept ==
  ASSUME DataInv, tcp' = tcp \/ SameData,
         \A f \in Tcps' : f \in Tcps \/ f.ack \in {tcp.ack, None},
         result' = result \/ result'.call \notin {"connect", "recv"} \/ ~result'.ok
  PROVE  DataInv'
  <1>1. UNCHANGED <<tcp.dst, tcp.n, tcp.taken, tcp.ack, tcp.rx, tcp.rxready, tcp.from, tcp.connected>>
    BY DEF SameData
  <1>2. Held' = Held
    BY <1>1 DEF Held
  <1>3. Fine(None, tcp.n, Held)
    <2>1. None.i \in {0, 1}
      BY DEF None, Number
    <2> QED  BY <2>1, EarlyIsFine
  <1>4. \A f \in Tcps' : f.n = tcp'.n => Fine(f.ack, tcp'.n, Held')
    BY <1>1, <1>2, <1>3 DEF DataInv
  <1>5. ReceivedIsFromPeer'
    BY DEF DataInv, ReceivedIsFromPeer
  <1> QED  BY <1>1, <1>2, <1>4, <1>5 DEF DataInv

LEMMA DataConnect ==
  ASSUME TypeInv, FillInv, DataInv, NEW s \in Services, Connect(s)
  PROVE  DataInv'
  <1>1. /\ tcp.n \in Nat /\ tcp.n <= calls /\ calls \in Nat
        /\ \A f \in Tcps : f.n \in Nat /\ f.n <= calls
    BY DEF TypeInv, TcpState, FillInv
  <1>2. /\ Tcps' = Tcps /\ result' = result
        /\ tcp'.n = calls + 1 /\ ~tcp'.connected /\ ~tcp'.rxready /\ tcp'.ack = None
    BY DEF Connect, Begin, Blank, Tcps, WhoHas
  <1>3. \A f \in Tcps' : f.n # tcp'.n
    BY <1>1, <1>2
  <1>4. tcp'.ack.i \in {0, 1}
    BY <1>2 DEF None, Number
  <1>5. Fine(tcp'.ack, tcp'.n, Held')
    BY <1>4, EarlyIsFine
  <1>6. ReceivedIsFromPeer'
    BY <1>2 DEF DataInv, ReceivedIsFromPeer
  <1> QED  BY <1>2, <1>3, <1>5, <1>6 DEF DataInv

\* The segment in the buffer is returned, and is counted as returned.
LEMMA DataReceived ==
  ASSUME TypeInv, DataInv, Received
  PROVE  DataInv'
  <1> DEFINE taken == tcp.taken \cup (IF tcp.rx.n = tcp.n THEN {tcp.rx.i} ELSE {})
  <1>1. /\ tcp \in TcpState /\ tcp.rxready /\ out' = out
        /\ tcp' = [tcp EXCEPT !.rxready = FALSE, !.taken = taken]
    BY DEF Received, TypeInv
  <1>2. Held = taken
    BY <1>1 DEF Held
  <1> HIDE DEF taken
  <1>3. /\ UNCHANGED <<tcp.dst, tcp.n, tcp.ack, tcp.from, tcp.connected>>
        /\ tcp'.taken = taken /\ ~tcp'.rxready
    BY <1>1 DEF TcpState
  <1>4. Held' = Held
    BY <1>2, <1>3 DEF Held
  <1>5. Tcps' = Tcps
    BY <1>1 DEF Tcps
  <1>6. ReceivedIsFromPeer'
    <2>1. result'.from = tcp.rx.from /\ result'.dst = tcp.dst
      BY DEF Received, Return, Outcome
    <2> QED  BY <1>1, <2>1 DEF DataInv, ReceivedIsFromPeer
  <1> QED  BY <1>3, <1>4, <1>5, <1>6 DEF DataInv

\* A segment that comes in is acknowledged for itself only if it is stored.
LEMMA DataArrived ==
  ASSUME BaseInv, DataInv, GotSegment, result' = result
  PROVE  DataInv'
  <1>0. TypeInv /\ tcp \in TcpState
    BY DEF BaseInv, TypeInv
  <1>1. PICK n \in DOMAIN peers : \E s \in Incoming(n) : Matches(s) /\ (GotSynAck(s) \/ GotData(s))
    BY DEF GotSegment
  <1>2. PICK s \in Incoming(n) : Matches(s) /\ (GotSynAck(s) \/ GotData(s))
    BY <1>1
  <1>3. /\ s \in Arrival /\ s.from = tcp.dst /\ s.seq.isn = n /\ s.len \in {0, SegmentLen}
        /\ \/ s.flags = {"SYN", "ACK"} /\ s.seq = Number(n, 0) /\ s.len = 0
           \/ "SYN" \notin s.flags /\ \E i \in Nat \ {0} : s.seq = Number(n, FirstByte(i))
    BY <1>0, <1>2, IncomingMeans DEF Matches
  \* What is left to show: that the new acknowledgements are fine and nothing held is lost.
  <1>4. ASSUME NEW acks, Acknowledge(acks), SameStream, Held \subseteq Held',
               \A a \in acks \cup {tcp'.ack} : a = tcp.ack \/ Fine(a, tcp.n, Held'),
               tcp'.connected => tcp'.from = tcp'.dst,
               tcp'.rxready => tcp'.rx.from = tcp'.dst
        PROVE  DataInv'
    <2>1. \A a \in acks \cup {tcp'.ack} : Fine(a, tcp.n, Held')
      BY <1>4, FineKept DEF DataInv
    <2>2. ASSUME NEW f \in Tcps', f.n = tcp'.n
          PROVE  Fine(f.ack, tcp.n, Held')
      <3>1. f \in Tcps \/ f.ack \in acks
        BY <1>4, <2>2, SegmentIsTcp DEF Acknowledge, Tcps
      <3>2. CASE f \in Tcps
        BY <1>4, <2>2, <3>2, FineKept DEF DataInv, SameStream
      <3> QED  BY <2>1, <3>1, <3>2
    <2>3. tcp'.n = tcp.n
      BY <1>4 DEF SameStream
    <2>4. ReceivedIsFromPeer'
      BY DEF DataInv, ReceivedIsFromPeer
    <2> QED  BY <1>4, <2>1, <2>2, <2>3, <2>4 DEF DataInv
  <1>5. CASE GotSynAck(s)
    <2>1. /\ SameStream /\ UNCHANGED <<tcp.rx, tcp.rxready>>
          /\ tcp'.ack = After(s.seq, 1)
          /\ (tcp'.from = tcp.from /\ tcp'.connected = tcp.connected) \/ tcp'.from = s.from
          /\ Acknowledge({After(s.seq, 1)})
      BY <1>0, <1>3, <1>5, SynAckMeans DEF GotSynAck
    <2>2. Held' = Held
      BY <2>1 DEF Held, SameStream
    <2>3. After(s.seq, 1).i \in {0, 1}
      BY <1>3, <1>5 DEF After, Number, GotSynAck
    <2>4. Fine(After(s.seq, 1), tcp.n, Held')
      BY <2>3, EarlyIsFine
    <2>5. tcp'.connected => tcp'.from = tcp'.dst
      BY <1>3, <2>1 DEF DataInv, SameStream
    <2>6. tcp'.rxready => tcp'.rx.from = tcp'.dst
      BY <2>1 DEF DataInv, SameStream
    <2> QED  BY <1>4, <2>1, <2>2, <2>4, <2>5, <2>6
  <1>6. CASE GotData(s)
    <2> DEFINE acks == (IF Stored(s) THEN {After(s.seq, s.len)} ELSE {})
                          \cup (IF "FIN" \in s.flags THEN {After(s.seq, 1)} ELSE {})
    <2>1. /\ SameStream /\ tcp'.from = tcp.from /\ tcp'.connected = tcp.connected
          /\ tcp'.ack \in {tcp.ack, After(s.seq, 1)} \cup (IF Stored(s) THEN {After(s.seq, s.len)} ELSE {})
          /\ IF Stored(s)
             THEN tcp'.rx = [n |-> s.seq.isn, i |-> s.seq.i, from |-> s.from] /\ tcp'.rxready
             ELSE tcp'.rx = tcp.rx /\ tcp'.rxready = tcp.rxready
          /\ Acknowledge(acks)
      BY <1>0, <1>3, <1>6, DataMeans
    <2>2. PICK i \in Nat \ {0} : s.seq = Number(n, FirstByte(i))
      BY <1>3, <1>6 DEF GotData
    <2>3. FirstByte(i) \in Nat /\ s.seq.i = FirstByte(i)
      BY <2>2, FirstByteIsNat DEF Number
    <2>4. Fine(After(s.seq, 1), tcp.n, Held')
      <3>1. After(s.seq, 1).i = FirstByte(i) + 1
        BY <2>3 DEF After, Number
      <3> QED  BY <3>1, FinIsFine
    <2>5. tcp'.connected => tcp'.from = tcp'.dst
      BY <2>1 DEF DataInv, SameStream
    <2>6. tcp'.rxready => tcp'.rx.from = tcp'.dst
      <3>1. tcp'.dst = tcp.dst
        BY <2>1 DEF SameStream
      <3>2. CASE Stored(s)
        <4>1. tcp'.rx.from = s.from
          BY <2>1, <3>2
        <4> QED  BY <1>3, <3>1, <4>1
      <3>3. CASE ~Stored(s)
        BY <2>1, <3>1, <3>3 DEF DataInv
      <3> QED  BY <3>2, <3>3
    <2>7. CASE Stored(s)
      <3>1. /\ tcp'.rx.n = n /\ tcp'.rx.i = FirstByte(i) /\ tcp'.rxready
            /\ ~tcp.rxready /\ s.len = SegmentLen /\ tcp'.n = tcp.n /\ tcp'.taken = tcp.taken
        BY <1>3, <2>1, <2>3, <2>7 DEF Stored, SameStream
      <3>2. Held \subseteq Held' /\ (n = tcp.n => FirstByte(i) \in Held')
        BY <3>1 DEF Held
      <3>3. After(s.seq, s.len).isn = n /\ After(s.seq, s.len).i = FirstByte(i) + SegmentLen
        BY <1>3, <2>3, <3>1 DEF After, Number
      <3>4. Fine(After(s.seq, s.len), tcp.n, Held')
        <4>1. \A j \in Nat \ {0} :
                FirstByte(i) + SegmentLen = FirstByte(j) + SegmentLen => FirstByte(j) = FirstByte(i)
          BY FirstByteIsNat, LengthsAssumption
        <4> QED  BY <3>2, <3>3, <4>1 DEF Fine
      <3>5. \A a \in acks \cup {tcp'.ack} : a \in {tcp.ack, After(s.seq, 1), After(s.seq, s.len)}
        BY <2>1
      <3> HIDE DEF acks
      <3> QED  BY <1>4, <2>1, <2>4, <2>5, <2>6, <3>2, <3>4, <3>5
    <2>8. CASE ~Stored(s)
      <3>1. Held' = Held
        BY <2>1, <2>8 DEF Held, SameStream
      <3>2. \A a \in acks \cup {tcp'.ack} : a \in {tcp.ack, After(s.seq, 1)}
        BY <2>1, <2>8
      <3> HIDE DEF acks
      <3> QED  BY <1>4, <2>1, <2>4, <2>5, <2>6, <3>1, <3>2
    <2> QED  BY <2>7, <2>8
  <1> QED  BY <1>2, <1>5, <1>6

LEMMA DataInit == ASSUME Init PROVE DataInv
  <1>1. tcp.ack.i \in {0, 1}
    BY DEF Init, Blank, None, Number
  <1>2. Fine(tcp.ack, tcp.n, Held)
    BY <1>1, EarlyIsFine
  <1> QED  BY <1>2 DEF Init, NetInit, Blank, DataInv, Tcps, Nothing, ReceivedIsFromPeer

\* The other steps send, if anything, a segment that acknowledges what was before, and
\* return no data.
LEMMA DataOther ==
  ASSUME BaseInv, BaseInv', DataInv,
         \/ NetStep /\ UNCHANGED <<tcp, peers>>
         \/ SendSyn \/ Connected
         \/ (\E len \in SendLens : Send(len)) \/ Recv \/ Close \/ Ended \/ TcpTimedOut
  PROVE  DataInv'
  <1>0. TypeInv /\ TypeInv' /\ tcp \in TcpState /\ op \in Calls
    BY DEF BaseInv, TypeInv
  <1>1. CASE NetStep /\ UNCHANGED tcp
    <2> DEFINE Kept == /\ Tcps' = Tcps
                       /\ result' = result \/ result'.call \notin {"connect", "recv"} \/ ~result'.ok
    <2>1. ASSUME NEW h \in Hosts, PingCall(h) \/ \E name \in Names : DnsCall(h, name)
          PROVE  Kept
      BY <2>1 DEF PingCall, DnsCall, Begin, Tcps, WhoHas
    <2>2. ASSUME NEW h \in Hosts, DnsBadName(h)
          PROVE  Kept
      BY <2>2 DEF DnsBadName, Tcps, Nothing
    <2>3. ASSUME SendEcho \/ SendQuery
          PROVE  Kept
      BY <2>3 DEF SendEcho, SendQuery, Tcps, Echo, Query
    <2>4. ASSUME PingReplied \/ DnsReplied
          PROVE  Kept
      BY <2>4 DEF PingReplied, DnsReplied, Return, Failed, Nothing, Tcps
    <2>5. ASSUME SendQueryFails \/ ArpWaited \/ TimedOut
          PROVE  Kept
      BY <2>5 DEF SendQueryFails, ArpWaited, TimedOut, Return, Failed, Nothing, Tcps
    <2>6. Kept
      BY <1>1, <2>1, <2>2, <2>3, <2>4, <2>5 DEF NetStep
    <2> QED  BY <1>0, <1>1, <2>6, DataKept
  <1>2. CASE SendSyn
    <2> DEFINE f == Segment({"SYN"}, tcp.seq, None, 0, ArpGet(NextHop(op.dst)))
    <2>1. out' = out \cup {f} /\ UNCHANGED <<calls, result>> /\ tcp' = [tcp EXCEPT !.seq = tcp.seq + 1]
      BY <1>2 DEF SendSyn
    <2>2. SameData
      BY <1>0, <2>1 DEF TcpState, SameData
    <2>3. f.ack = None
      BY SegmentIsTcp
    <2> HIDE DEF f
    <2> QED  BY <1>0, <2>1, <2>2, <2>3, DataKept DEF Tcps
  <1>3. ASSUME NEW len \in SendLens, Send(len)
        PROVE  DataInv'
    <2> DEFINE f == Segment({"ACK", "PSH"}, tcp.seq, tcp.ack, len, ArpGet(NextHop(tcp.dst[1])))
    <2>1. out' = out \cup {f} /\ calls' = calls + 1 /\ tcp' = [tcp EXCEPT !.seq = tcp.seq + len]
      BY <1>3 DEF Send
    <2>2. SameData
      BY <1>0, <2>1 DEF TcpState, SameData
    <2>3. f.ack = tcp.ack
      BY SegmentIsTcp
    <2>4. result'.call = "send"
      BY <1>3 DEF Send, Outcome
    <2> HIDE DEF f
    <2> QED  BY <1>0, <2>1, <2>2, <2>3, <2>4, DataKept DEF Tcps
  <1>4. CASE Close
    <2> DEFINE f == Segment({"FIN", "ACK"}, tcp.seq, tcp.ack, 0, ArpGet(NextHop(tcp.dst[1])))
               seq == tcp.seq + 1
    <2>1. /\ out' = out \cup {f} /\ calls' = calls + 1 /\ result' = result
          /\ tcp' = [tcp EXCEPT !.seq = seq, !.st = "FIN_WAIT"]
      BY <1>4 DEF Close
    <2>2. SameData
      <3> HIDE DEF seq, f
      <3> QED  BY <1>0, <2>1 DEF TcpState, SameData
    <2>3. f.ack = tcp.ack
      BY SegmentIsTcp
    <2> HIDE DEF f
    <2> QED  BY <1>0, <2>1, <2>2, <2>3, DataKept DEF Tcps
  <1>5. CASE Recv
    BY <1>0, <1>5, DataKept DEF Recv, Tcps
  <1>6. CASE Connected
    <2>1. /\ UNCHANGED <<tcp, out, calls>> /\ tcp.connected
          /\ result'.from = tcp.from /\ result'.dst = tcp.dst /\ result'.call = "connect"
      BY <1>6 DEF Connected, Return, Outcome
    <2> QED  BY <2>1 DEF DataInv, Held, Tcps, ReceivedIsFromPeer
  <1>7. CASE Ended \/ TcpTimedOut
    <2>1. UNCHANGED <<tcp, out, calls>> /\ result' = Outcome(op.call = "close")
      BY <1>7 DEF Ended, TcpTimedOut, Return
    <2>2. result'.call = op.call
      BY <2>1 DEF Outcome
    <2>3. CASE op.call = "close"
      BY <1>0, <2>1, <2>2, <2>3, DataKept DEF Tcps
    <2>4. CASE op.call # "close"
      <3>1. result' = Outcome(FALSE)
        BY <2>1, <2>4
      <3>2. ~result'.ok
        BY <3>1 DEF Outcome
      <3> QED  BY <1>0, <2>1, <3>2, DataKept DEF Tcps
    <2> QED  BY <2>3, <2>4
  <1> QED  BY <1>1, <1>2, <1>3, <1>4, <1>5, <1>6, <1>7

LEMMA DataStep ==
  ASSUME BaseInv, FillInv, DataInv, [Next]_vars
  PROVE  DataInv'
  <1>0. BaseInv' /\ TypeInv /\ TypeInv'
    <2>1. BaseInv'
      BY BaseStep
    <2> QED  BY <2>1 DEF BaseInv
  <1>1. CASE UNCHANGED vars
    BY <1>0, <1>1, DataKept DEF vars, netVars, Tcps
  <1>2. CASE Poll
    <2>1. CASE GotSegment
      BY <1>0, <1>2, <2>1, DataArrived DEF Poll
    <2>2. CASE UNCHANGED <<out, tcp>>
      BY <1>0, <1>2, <2>2, DataKept DEF Poll, Tcps
    <2> QED  BY <1>2, <2>1, <2>2 DEF Poll
  <1>3. CASE Next
    BY <1>0, <1>2, <1>3, Steps, DataOther, DataConnect, DataReceived
  <1> QED  BY <1>1, <1>3

\* What connect and recv report comes from the host and the port of the last connect, whatever
\* comes late from others: net_tcp_connect clears the buffer, and a segment of anyone else is
\* not looked at.
THEOREM ReceivedFromPeerCorrect == Spec => []ReceivedIsFromPeer
  <1>1. DataInv => ReceivedIsFromPeer
    BY DEF DataInv
  <1> QED  BY <1>1, BaseInit, FillInit, DataInit, BaseStep, FillStep, DataStep, PTL DEF Spec

\* Whatever the window lets the peer send, a segment whose end was acknowledged has been
\* returned by recv or lies in the buffer.
THEOREM AckedCorrect == Spec => []AckedIsReturned
  <1>1. DataInv => AckedIsReturned
    <2>1. SUFFICES ASSUME DataInv, NEW f \in {g \in out : g.kind = "tcp" /\ g.n = tcp.n}, NEW j \in 1 .. f.ack.i,
                          f.ack = Number(tcp.n, FirstByte(j) + SegmentLen)
                   PROVE  \/ FirstByte(j) \in tcp.taken
                          \/ tcp.rxready /\ tcp.rx.n = tcp.n /\ tcp.rx.i = FirstByte(j)
      BY DEF AckedIsReturned
    <2>2. j \in Nat \ {0}
      OBVIOUS
    <2>3. Fine(f.ack, tcp.n, Held)
      BY <2>1 DEF DataInv, Tcps
    <2> QED  BY <2>1, <2>2, <2>3 DEF Fine, Held, Number
  <1> QED  BY <1>1, BaseInit, FillInit, DataInit, BaseStep, FillStep, DataStep, PTL DEF Spec

-----------------------------------------------------------------------------
(* The identifiers of lookups.  They are 16 bits wide and come round after *)
(* 65535 lookups, when a late answer to an old question would be taken for *)
(* one to the new: the theorem is about fewer calls than identifiers.      *)

Queries == {f \in out : f.kind = "query"}

\* What bears the identifier of the lookup under way bears its name, and was sent by it.
IdFine(id, name) ==
  /\ id \in 0 .. txid
  /\ id = txid /\ op.call = "dns" => op.pc = "wait" /\ name = op.name

IdInv ==
  /\ calls \in Nat /\ calls <= MaxCalls /\ txid \in 0 .. calls
  /\ \A f \in Queries : IdFine(f.id, f.name)
  /\ udp.ready => IdFine(udp.id, udp.name)
  /\ ResolvedIsAsked

\* A step that asks nothing: the lookup under way goes on, or it is over.
LEMMA IdKept ==
  ASSUME IdInv, Queries' = Queries, txid' = txid, udp' = udp \/ ~udp'.ready,
         calls' \in Nat, calls' >= calls, calls' <= MaxCalls,
         op'.call = "dns" => op.call = "dns" /\ op'.name = op.name /\ (op.pc = "wait" => op'.pc = "wait"),
         result' = result \/ result'.call # "dns" \/ ~result'.ok
  PROVE  IdInv'
  <1>1. ASSUME NEW id, NEW name, IdFine(id, name)
        PROVE  /\ id \in 0 .. txid'
               /\ id = txid' /\ op'.call = "dns" => op'.pc = "wait" /\ name = op'.name
    BY <1>1 DEF IdFine
  <1>2. \A f \in Queries' : IdFine(f.id, f.name)'
    <2>1. SUFFICES ASSUME NEW f \in Queries'
                   PROVE  /\ f.id \in 0 .. txid'
                          /\ f.id = txid' /\ op'.call = "dns" => op'.pc = "wait" /\ f.name = op'.name
      BY DEF IdFine
    <2>2. IdFine(f.id, f.name)
      BY DEF IdInv
    <2> QED  BY <1>1, <2>2
  <1>3. udp'.ready => IdFine(udp.id, udp.name)'
    <2>1. SUFFICES ASSUME udp'.ready, udp' = udp
                   PROVE  IdFine(udp.id, udp.name)'
      OBVIOUS
    <2>2. IdFine(udp.id, udp.name)
      BY <2>1 DEF IdInv
    <2> QED  BY <1>1, <2>1, <2>2 DEF IdFine
  <1>4. ResolvedIsAsked'
    BY DEF IdInv, ResolvedIsAsked
  <1>5. txid' \in 0 .. calls'
    BY DEF IdInv
  <1> QED  BY <1>2, <1>3, <1>4, <1>5 DEF IdInv

\* A lookup takes an identifier above all that were used.
LEMMA IdTaken ==
  ASSUME MaxCalls \in Nat, MaxCalls < TxidCount,
         IdInv, Queries' = Queries, txid' = NextTxid, udp' = udp, calls < MaxCalls, calls' = calls + 1,
         result' = result \/ ~result'.ok
  PROVE  IdInv'
  <1>1. /\ calls \in Nat /\ txid \in Nat /\ txid <= calls /\ TxidCount \in Nat
        /\ txid' = txid + 1
    BY SizesAssumption DEF IdInv, NextTxid
  <1>2. \A id, name : IdFine(id, name) => id \in 0 .. txid' /\ id # txid'
    BY <1>1 DEF IdFine
  <1>3. \A f \in Queries' : IdFine(f.id, f.name)'
    BY <1>2 DEF IdInv, IdFine
  <1>4. udp'.ready => IdFine(udp.id, udp.name)'
    BY <1>2 DEF IdInv, IdFine
  <1>5. ResolvedIsAsked'
    BY DEF IdInv, ResolvedIsAsked
  <1> QED  BY <1>1, <1>3, <1>4, <1>5 DEF IdInv

LEMMA IdSendQuery ==
  ASSUME BaseInv, CallInv, IdInv, SendQuery
  PROVE  IdInv'
  <1> DEFINE q == Query(op.dst, ArpGet(NextHop(op.dst)), txid, op.name)
  <1>1. /\ op \in Calls /\ op.pc = "send" /\ op.call = "dns" /\ UNCHANGED <<txid, calls, result>>
        /\ op' = [op EXCEPT !.pc = "wait"] /\ out' = out \cup {q}
        /\ udp' = [udp EXCEPT !.listening = TRUE, !.ready = FALSE]
    BY DEF SendQuery, BaseInv, TypeInv
  <1>2. q.kind = "query" /\ q.id = txid /\ q.name = op.name
    BY DEF Query
  <1> HIDE DEF q
  <1>3. op'.call = "dns" /\ op'.pc = "wait" /\ op'.name = op.name
    BY <1>1 DEF Calls
  <1>4. ~udp'.ready
    BY <1>1 DEF CallInv
  <1>5. Queries' = Queries \cup {q}
    BY <1>1, <1>2 DEF Queries
  <1>6. txid \in 0 .. txid
    BY DEF IdInv
  <1>7. \A f \in Queries' : IdFine(f.id, f.name)'
    BY <1>1, <1>2, <1>3, <1>5, <1>6 DEF IdInv, IdFine
  <1>8. ResolvedIsAsked'
    BY <1>1 DEF IdInv, ResolvedIsAsked
  <1> QED  BY <1>1, <1>4, <1>7, <1>8 DEF IdInv

LEMMA IdDnsReplied ==
  ASSUME BaseInv, CallInv, IdInv, DnsReplied
  PROVE  IdInv'
  <1>1. /\ udp' = [udp EXCEPT !.ready = FALSE] /\ UNCHANGED <<out, txid, calls>> /\ op' = NoCall
        /\ op.pc = "wait" /\ op.call = "dns" /\ udp.ready
        /\ result' = [Failed EXCEPT !.ok = AnswerAccepted, !.value = udp.name, !.n = udp.at, !.try = calls]
    BY DEF DnsReplied, Return
  <1>2. ~udp'.ready /\ op'.call # "dns"
    BY <1>1 DEF CallInv, NoCall
  <1>3. result'.value = udp.name /\ result'.name = op.name
    BY <1>1 DEF Failed, Nothing
  <1>4. CASE AnswerAccepted
    <2>1. udp.id = txid
      BY <1>4 DEF AnswerAccepted
    <2>2. udp.name = op.name
      BY <1>1, <2>1 DEF IdInv, IdFine
    <2>3. ResolvedIsAsked'
      BY <1>3, <2>2 DEF ResolvedIsAsked
    <2>4. \A f \in Queries' : IdFine(f.id, f.name)'
      BY <1>1, <1>2 DEF IdInv, IdFine, Queries
    <2> QED  BY <1>1, <1>2, <2>3, <2>4 DEF IdInv
  <1>5. CASE ~AnswerAccepted
    <2>1. result' = [Failed EXCEPT !.ok = FALSE, !.value = udp.name, !.n = udp.at, !.try = calls]
      <3>1. AnswerAccepted = FALSE
        BY <1>5 DEF AnswerAccepted
      <3> QED  BY <1>1, <3>1
    <2>2. ~result'.ok
      BY <2>1 DEF Failed, Nothing
    <2> QED  BY <1>1, <1>2, <2>2, IdKept DEF Queries, IdInv
  <1> QED  BY <1>4, <1>5

LEMMA IdNet ==
  ASSUME MaxCalls \in Nat, MaxCalls < TxidCount, BaseInv, CallInv, IdInv, NetStep
  PROVE  IdInv'
  <1>0. TypeInv /\ HostInv /\ op \in Calls /\ calls \in Nat /\ calls <= MaxCalls
    BY DEF BaseInv, TypeInv, IdInv
  <1>1. ASSUME NEW h \in Hosts, PingCall(h)
        PROVE  IdInv'
    <2>1. /\ calls' = calls + 1 /\ calls < MaxCalls /\ op'.call = "ping"
          /\ UNCHANGED <<udp, txid, result>> /\ Queries' = Queries
      BY <1>1 DEF PingCall, Begin, Queries, WhoHas
    <2> QED  BY <1>0, <2>1, IdKept
  <1>2. ASSUME NEW h \in Hosts, NEW name \in Names, DnsCall(h, name)
        PROVE  IdInv'
    <2>1. /\ calls' = calls + 1 /\ calls < MaxCalls /\ txid' = NextTxid
          /\ UNCHANGED <<udp, result>> /\ Queries' = Queries
      BY <1>2 DEF DnsCall, Begin, Queries, WhoHas
    <2> QED  BY <2>1, IdTaken
  <1>3. ASSUME NEW h \in Hosts, DnsBadName(h)
        PROVE  IdInv'
    <2>1. /\ calls' = calls + 1 /\ calls < MaxCalls /\ txid' = NextTxid
          /\ UNCHANGED udp /\ Queries' = Queries /\ ~result'.ok
      BY <1>3 DEF DnsBadName, Queries, Nothing
    <2> QED  BY <2>1, IdTaken
  <1>4. CASE SendEcho
    <2>1. /\ UNCHANGED <<udp, txid, calls, result>> /\ Queries' = Queries /\ op'.call = "ping"
      BY <1>0, <1>4 DEF SendEcho, Queries, Echo, Calls
    <2> QED  BY <1>0, <2>1, IdKept
  <1>5. CASE ArpWaited
    <2>1. UNCHANGED <<udp, txid, calls>> /\ Queries' = Queries
      BY <1>5 DEF ArpWaited, Queries
    <2>2. \/ op'.call = op.call /\ op'.name = op.name /\ op.pc = "arp" /\ result' = result
          \/ op'.call = "none" /\ ~result'.ok
      <3>1. CASE op' = [op EXCEPT !.pc = "send"] /\ result' = result /\ op.pc = "arp"
        BY <1>0, <3>1 DEF Calls
      <3>2. CASE op' = NoCall /\ result' = Failed
        BY <3>2 DEF NoCall, Failed, Nothing
      <3> QED  BY <1>5, <3>1, <3>2 DEF ArpWaited, Return
    <2> QED  BY <1>0, <2>1, <2>2, IdKept
  <1>6. CASE SendQueryFails \/ PingReplied \/ TimedOut
    <2>1. /\ UNCHANGED <<udp, txid, calls>> /\ Queries' = Queries /\ op'.call = "none"
      BY <1>6 DEF SendQueryFails, PingReplied, TimedOut, Return, NoCall, Queries
    <2>2. CASE PingReplied
      <3>1. result'.call = "ping"
        BY <2>2 DEF PingReplied, Return, Failed, Nothing
      <3> QED  BY <1>0, <2>1, <3>1, IdKept
    <2>3. CASE SendQueryFails \/ TimedOut
      <3>1. ~result'.ok
        BY <2>3 DEF SendQueryFails, TimedOut, Return, Failed, Nothing
      <3> QED  BY <1>0, <2>1, <3>1, IdKept
    <2> QED  BY <1>6, <2>2, <2>3
  <1> QED  BY <1>1, <1>2, <1>3, <1>4, <1>5, <1>6, IdSendQuery, IdDnsReplied DEF NetStep

LEMMA IdPoll ==
  ASSUME BaseInv, IdInv, Poll
  PROVE  IdInv'
  <1>1. /\ UNCHANGED <<txid, calls, result>> /\ calls \in Nat /\ calls <= MaxCalls
        /\ op'.call = op.call /\ op'.name = op.name /\ (op.pc = "wait" => op'.pc = "wait")
    BY PolledMeans DEF Poll, BaseInv, IdInv
  <1>2. Queries' = Queries
    <2>1. CASE GotSegment
      <3>1. PICK acks : Acknowledge(acks)
        BY <2>1 DEF GotSegment, GotSynAck, GotData
      <3> QED  BY <3>1, SegmentIsTcp DEF Acknowledge, Queries
    <2>2. CASE out' = out
      BY <2>2 DEF Queries
    <2> QED  BY <2>1, <2>2 DEF Poll
  <1>3. CASE udp' = udp
    BY <1>1, <1>2, <1>3, IdKept
  <1>4. ASSUME NEW f \in out, NEW found \in BOOLEAN, GotDatagram(f, found)
        PROVE  IdInv'
    <2>1. f \in Queries /\ udp'.id = f.id /\ udp'.name = f.name
      BY <1>4 DEF GotDatagram, Queries
    <2>2. IdFine(f.id, f.name)
      BY <2>1 DEF IdInv
    <2>3. \A g \in Queries' : IdFine(g.id, g.name)'
      BY <1>1, <1>2 DEF IdInv, IdFine
    <2>4. IdFine(udp.id, udp.name)'
      BY <1>1, <2>1, <2>2 DEF IdFine
    <2>5. ResolvedIsAsked'
      BY <1>1 DEF IdInv, ResolvedIsAsked
    <2> QED  BY <1>1, <2>3, <2>4, <2>5 DEF IdInv
  <1> QED  BY <1>3, <1>4 DEF Poll, Handled, GotArp, GotEchoReply, GotSegment

LEMMA IdTcp ==
  ASSUME MaxCalls \in Nat, BaseInv, IdInv,
         \/ (\E s \in Services : Connect(s)) \/ SendSyn \/ Connected
         \/ (\E len \in SendLens : Send(len)) \/ Recv \/ Received \/ Close \/ Ended \/ TcpTimedOut
  PROVE  IdInv'
  <1>0. op \in Calls /\ calls \in Nat /\ calls <= MaxCalls
    BY DEF BaseInv, TypeInv, IdInv
  <1>1. ASSUME NEW s \in Services, Connect(s)
        PROVE  IdInv'
    <2>1. /\ calls' = calls + 1 /\ calls < MaxCalls /\ op'.call = "connect"
          /\ UNCHANGED <<udp, txid, result>>
          /\ out' \in {out, out \cup {WhoHas(NextHop(s[1]))}}
      BY <1>1 DEF Connect, Begin
    <2>2. Queries' = Queries
      BY <2>1 DEF Queries, WhoHas
    <2> QED  BY <1>0, <2>1, <2>2, IdKept
  <1>2. CASE SendSyn
    <2>1. /\ UNCHANGED <<udp, txid, result, calls>> /\ Queries' = Queries /\ op'.call = "connect"
      BY <1>0, <1>2, SegmentIsTcp DEF SendSyn, Queries, Calls
    <2> QED  BY <1>0, <2>1, IdKept
  <1>3. ASSUME NEW len \in SendLens, Send(len)
        PROVE  IdInv'
    <2>1. /\ UNCHANGED <<udp, txid, op>> /\ Queries' = Queries /\ calls' = calls + 1 /\ calls < MaxCalls
      BY <1>3, SegmentIsTcp DEF Send, Queries
    <2>2. result'.call = "send"
      BY <1>3 DEF Send, Outcome
    <2> QED  BY <1>0, <2>1, <2>2, IdKept
  <1>4. CASE Recv \/ Close
    <2>1. /\ UNCHANGED <<udp, txid, result>> /\ Queries' = Queries /\ op'.call # "dns"
          /\ calls' = calls + 1 /\ calls < MaxCalls
      BY <1>4, SegmentIsTcp DEF Recv, Close, Queries
    <2> QED  BY <1>0, <2>1, IdKept
  <1>5. CASE Connected \/ Ended \/ TcpTimedOut
    <2>1. /\ UNCHANGED <<udp, txid, calls>> /\ Queries' = Queries /\ op'.call = "none"
          /\ result'.call # "dns"
      BY <1>5 DEF Connected, Ended, TcpTimedOut, Return, Outcome, NoCall, Queries
    <2> QED  BY <1>0, <2>1, IdKept
  <1>6. CASE Received
    <2>1. /\ UNCHANGED <<udp, txid, calls>> /\ Queries' = Queries /\ op'.call = "none"
          /\ result'.call # "dns"
      BY <1>6 DEF Received, Return, Outcome, NoCall, Queries
    <2> QED  BY <1>0, <2>1, IdKept
  <1> QED  BY <1>1, <1>2, <1>3, <1>4, <1>5, <1>6

\* A lookup that succeeds returns the address of the name it asked for: no earlier question
\* has the identifier of the one under way, as long as they have not come round.
THEOREM ResolvedCorrect ==
  ASSUME MaxCalls \in Nat, MaxCalls < TxidCount
  PROVE  Spec => []ResolvedIsAsked
  <1>1. Init => IdInv
    BY DEF Init, NetInit, IdInv, IdFine, Queries, ResolvedIsAsked, Nothing
  <1>2. BaseInv /\ CallInv /\ IdInv /\ [Next]_vars => IdInv'
    <2>1. SUFFICES ASSUME BaseInv, CallInv, IdInv, [Next]_vars
                   PROVE  IdInv'
      OBVIOUS
    <2>2. CASE UNCHANGED vars
      BY <2>1, <2>2, IdKept DEF vars, netVars, Queries, IdInv
    <2>3. CASE Next
      BY <2>1, <2>3, Steps, IdNet, IdPoll, IdTcp
    <2> QED  BY <2>1, <2>2, <2>3
  <1>3. IdInv => ResolvedIsAsked
    BY DEF IdInv
  <1> QED  BY <1>1, <1>2, <1>3, BaseInit, CallInit, BaseStep, CallStep, PTL DEF Spec

=============================================================================
