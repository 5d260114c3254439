-------------------------------- MODULE Tcp --------------------------------
(***************************************************************************)
(* The one TCP connection of net.c, over the calls and polls of Net: a     *)
(* poll of any call, ping and nslookup included, hands an incoming segment *)
(* to tcp_handle_ipv4_tcp.  Peers are external and follow TCP: they answer *)
(* a SYN, send their data in segments of one length as far as the window   *)
(* of the last acknowledgement allows, and then FIN; a segment may come    *)
(* never, late, often or before the one ahead of it, also during a later   *)
(* connection.  Sequence numbers are relative to a peer's initial number,  *)
(* which is different for every connection and is written as the number of *)
(* the call that made it.  recv is given room for a whole segment.         *)
(***************************************************************************)
EXTENDS Net

CONSTANTS Services,    \* what is connected to, as <<host, port>>
          Segments,    \* of each service, the number of data segments it sends in a connection
          SegmentLen,  \* bytes of a peer's segment
          Window,      \* bytes a peer may send beyond what we acknowledged: 4096 in the code
          MaxPayload,  \* bytes a segment of ours carries: 1460 in the code
          MaxNetCalls, \* bound: ping and nslookup are among the first so many calls
          SendLens     \* lengths given to net_tcp_send

ASSUME ServicesAssumption == /\ \A s \in Services : s[1] \in Near \cup Far
                             /\ Segments \in [Services -> Nat]
ASSUME LengthsAssumption == /\ SegmentLen \in Nat /\ SegmentLen > 1 /\ Window \in Nat /\ MaxPayload \in Nat \ {0}
                            /\ SendLens \subseteq Nat

VARIABLES tcp,   \* g_tcp, and as ghosts the call that made the connection, who answered its SYN
                 \* and the first numbers of its segments that recv returned
          peers  \* the services connected to, by the call

vars == <<netVars, tcp, peers>>

Number(n, i) == [isn |-> n, i |-> i]  \* number i after the initial one of connection n
None == Number(0, 0)
NoSegment == [n |-> 0, i |-> 0, from |-> <<Gateway, 0>>]

\* tcp_send_segment cuts the payload.  A segment fills a range of our numbers, and SYN and
\* FIN fill one each.
Carried(len) == IF len > MaxPayload THEN MaxPayload ELSE len
Segment(flags, seq, ack, len, mac) ==
  [kind |-> "tcp", to |-> tcp.dst[1], port |-> tcp.dst[2], mac |-> mac, n |-> tcp.n, flags |-> flags,
   fills |-> seq .. seq + Carried(len) + Cardinality(flags \cap {"SYN", "FIN"}) - 1, ack |-> ack]

-----------------------------------------------------------------------------
(* What the peers send: everything that follows from the segments that reached them. *)

Reached(n) == {f \in out : f.kind = "tcp" /\ f.n = n /\ Reaches(f)}
FirstByte(i) == 1 + (i - 1) * SegmentLen
\* A peer may send up to the window that starts at an acknowledgement it has had.
Sendable(n, number) == \E f \in Reached(n) : f.ack.isn = n /\ number < f.ack.i + Window

Incoming(n) ==
  LET Seg(flags, i, len) == [from |-> peers[n], flags |-> flags, seq |-> Number(n, i), len |-> len]
      last == Segments[peers[n]]
      End(i) == FirstByte(i) + SegmentLen
  IN  {Seg({"SYN", "ACK"}, 0, 0) : f \in {g \in Reached(n) : "SYN" \in g.flags}}
      \cup {Seg({"ACK"}, FirstByte(i), SegmentLen) : i \in {j \in 1 .. last : Sendable(n, End(j) - 1)}}
      \cup {Seg({"ACK", "FIN"}, FirstByte(i), SegmentLen) : i \in {j \in {last} \ {0} : Sendable(n, End(j))}}
      \cup {Seg({"ACK", "FIN"}, FirstByte(i), 0) : i \in {j \in {last + 1} : Sendable(n, FirstByte(j))}}

-----------------------------------------------------------------------------
(* tcp_handle_ipv4_tcp. *)

After(seq, i) == Number(seq.isn, seq.i + i)
PeerKnown == Known(NextHop(tcp.dst[1]))
Acknowledge(acks) ==
  out' = IF PeerKnown
         THEN out \cup {Segment({"ACK"}, tcp.seq, a, 0, ArpGet(NextHop(tcp.dst[1]))) : a \in acks}
         ELSE out

\* The answer to our SYN, if the state is that of waiting for one.
GotSynAck(s) ==
  /\ tcp.st = "SYN_SENT" /\ {"SYN", "ACK"} \subseteq s.flags
  /\ Acknowledge({After(s.seq, 1)})
  /\ tcp' = IF PeerKnown
            THEN [tcp EXCEPT !.ack = After(s.seq, 1), !.st = "ESTABLISHED", !.connected = TRUE, !.from = s.from]
            ELSE [tcp EXCEPT !.ack = After(s.seq, 1)]

\* Mutant: data is acknowledged whether it is stored or not.
GotDataAckedUnstored(s) ==
  /\ tcp.st = "ESTABLISHED" /\ (s.len > 0 \/ "FIN" \in s.flags)
  /\ LET stored == s.len > 0 /\ ~tcp.rxready
         acks == (IF s.len > 0 THEN {After(s.seq, s.len)} ELSE {})
                   \cup (IF "FIN" \in s.flags THEN {After(s.seq, 1)} ELSE {})
     IN  /\ Acknowledge(acks)
         /\ tcp' = [tcp EXCEPT
              !.rx = IF stored THEN [n |-> s.seq.isn, i |-> s.seq.i, from |-> s.from] ELSE @,
              !.rxready = @ \/ stored,
              !.ack = IF "FIN" \in s.flags THEN After(s.seq, 1) ELSE After(s.seq, s.len),
              !.closed = @ \/ "FIN" \in s.flags]

\* Data is stored and acknowledged if the buffer is free.  FIN is acknowledged as the one
\* number after the segment's first, data or not.
GotData(s) ==
  /\ tcp.st = "ESTABLISHED" /\ (s.len > 0 \/ "FIN" \in s.flags)
  /\ LET stored == s.len > 0 /\ ~tcp.rxready
         fin == "FIN" \in s.flags
     IN  /\ Acknowledge((IF stored THEN {After(s.seq, s.len)} ELSE {})
                          \cup (IF fin THEN {After(s.seq, 1)} ELSE {}))
         /\ tcp' = [tcp EXCEPT
              !.rx = IF stored THEN [n |-> s.seq.isn, i |-> s.seq.i, from |-> s.from] ELSE @,
              !.rxready = @ \/ stored,
              !.ack = CASE fin -> After(s.seq, 1) [] stored /\ ~fin -> After(s.seq, s.len) [] OTHER -> @,
              !.closed = @ \/ fin]

\* A segment counts if it comes from the host and the port connected to.
Matches(s) == tcp.st # "CLOSED" /\ s.from = tcp.dst

GotSegment ==
  /\ \E n \in DOMAIN peers : \E s \in Incoming(n) : Matches(s) /\ (GotSynAck(s) \/ GotData(s))
  /\ UNCHANGED <<arp, ping, udp>>

-----------------------------------------------------------------------------
(* The polls of every call. *)

\* What a call waits for; its loop polls once before it looks.
TcpAnswered ==
  CASE op.call = "connect" -> tcp.connected
    [] op.call = "recv" -> tcp.rxready \/ tcp.closed
    [] op.call = "close" -> tcp.closed
    [] OTHER -> Answered

Polling == op.pc \in {"arp", "first"} \/ (op.pc = "wait" /\ ~TcpAnswered)

Polled == op' = IF op.pc = "first" THEN [op EXCEPT !.pc = "wait"] ELSE op

Poll ==
  /\ Polling
  /\ \/ Handled /\ UNCHANGED <<out, tcp>>
     \/ GotSegment
     \/ op.pc = "first" /\ UNCHANGED <<arp, ping, udp, out, tcp>>
  /\ Polled
  /\ UNCHANGED <<txid, calls, result, peers>>

-----------------------------------------------------------------------------
(* The calls of TCP. *)

Blank == [st |-> "CLOSED", dst |-> <<Gateway, 0>>, n |-> 0, seq |-> 0, ack |-> None, connected |-> FALSE,
          closed |-> FALSE, rxready |-> FALSE, rx |-> NoSegment, from |-> <<Gateway, 0>>, taken |-> {}]

\* Mutant: the buffer of the last connection is kept.
ConnectKeepingBuffer(s) ==
  /\ Begin("connect", s[1], NoName)
  /\ peers' = [n \in DOMAIN peers \cup {calls'} |-> IF n = calls' THEN s ELSE peers[n]]
  /\ tcp' = [Blank EXCEPT !.st = "SYN_SENT", !.dst = s, !.n = calls', !.rxready = tcp.rxready, !.rx = tcp.rx]
  /\ UNCHANGED txid

\* net_tcp_connect clears g_tcp first.  Our numbers start at the same one every time.
Connect(s) ==
  /\ Begin("connect", s[1], NoName)
  /\ peers' = [n \in DOMAIN peers \cup {calls'} |-> IF n = calls' THEN s ELSE peers[n]]
  /\ tcp' = [Blank EXCEPT !.st = "SYN_SENT", !.dst = s, !.n = calls']
  /\ UNCHANGED txid

\* Mutant: SYN takes no number.
SendSynUncounted ==
  /\ op.pc = "send" /\ op.call = "connect"
  /\ out' = out \cup {Segment({"SYN"}, tcp.seq, None, 0, ArpGet(NextHop(op.dst)))}
  /\ op' = [op EXCEPT !.pc = "first"]
  /\ UNCHANGED <<arp, ping, udp, txid, calls, result, peers, tcp>>

SendSyn ==
  /\ op.pc = "send" /\ op.call = "connect"
  /\ out' = out \cup {Segment({"SYN"}, tcp.seq, None, 0, ArpGet(NextHop(op.dst)))}
  /\ tcp' = [tcp EXCEPT !.seq = @ + 1]
  /\ op' = [op EXCEPT !.pc = "first"]
  /\ UNCHANGED <<arp, ping, udp, txid, calls, result, peers>>

Outcome(ok) == [call |-> op.call, ok |-> ok, dst |-> tcp.dst, from |-> tcp.from]

Connected ==
  /\ op.pc = "wait" /\ op.call = "connect" /\ tcp.connected
  /\ Return(Outcome(TRUE))
  /\ UNCHANGED <<arp, ping, udp, txid, out, calls, tcp, peers>>

\* net_tcp_send counts all of the bytes given to it, those it cuts off too.
Send(len) ==
  /\ op.call = "none" /\ calls < MaxCalls
  /\ tcp.st = "ESTABLISHED" /\ PeerKnown
  /\ calls' = calls + 1
  /\ out' = out \cup {Segment({"ACK", "PSH"}, tcp.seq, tcp.ack, len, ArpGet(NextHop(tcp.dst[1])))}
  /\ tcp' = [tcp EXCEPT !.seq = @ + len]
  /\ result' = [Outcome(TRUE) EXCEPT !.call = "send"]
  /\ UNCHANGED <<arp, ping, udp, txid, op, peers>>

Recv ==
  /\ op.call = "none" /\ calls < MaxCalls
  /\ calls' = calls + 1
  /\ op' = [call |-> "recv", pc |-> "first", dst |-> Gateway, name |-> NoName]
  /\ UNCHANGED <<arp, ping, udp, txid, out, result, tcp, peers>>

\* A stored segment is returned before the end of the stream is.  (A smaller maxlen than the
\* segment would cut off bytes that were acknowledged; nothing in src/ calls net_tcp_recv.)
Received ==
  /\ op.pc = "wait" /\ op.call = "recv" /\ tcp.rxready
  /\ Return([Outcome(TRUE) EXCEPT !.from = tcp.rx.from])
  /\ tcp' = [tcp EXCEPT !.rxready = FALSE, !.taken = @ \cup (IF tcp.rx.n = tcp.n THEN {tcp.rx.i} ELSE {})]
  /\ UNCHANGED <<arp, ping, udp, txid, out, calls, peers>>

\* net_tcp_close does nothing without a connection, and fails without a station.
Close ==
  /\ op.call = "none" /\ calls < MaxCalls
  /\ tcp.st = "ESTABLISHED" /\ PeerKnown
  /\ calls' = calls + 1
  /\ out' = out \cup {Segment({"FIN", "ACK"}, tcp.seq, tcp.ack, 0, ArpGet(NextHop(tcp.dst[1])))}
  /\ tcp' = [tcp EXCEPT !.seq = @ + 1, !.st = "FIN_WAIT"]
  /\ op' = [call |-> "close", pc |-> "first", dst |-> Gateway, name |-> NoName]
  /\ UNCHANGED <<arp, ping, udp, txid, result, peers>>

\* recv ends without data when the peer has closed; close ends when the peer has, too.
Ended ==
  /\ op.pc = "wait" /\ tcp.closed
  /\ op.call = "close" \/ (op.call = "recv" /\ ~tcp.rxready)
  /\ Return(Outcome(op.call = "close"))
  /\ UNCHANGED <<arp, ping, udp, txid, out, calls, tcp, peers>>

\* The polls are over; connect leaves the state SYN_SENT behind, and close does not fail.
TcpTimedOut ==
  /\ op.pc = "wait" /\ op.call \in {"connect", "recv", "close"} /\ ~TcpAnswered
  /\ Return(Outcome(op.call = "close"))
  /\ UNCHANGED <<arp, ping, udp, txid, out, calls, tcp, peers>>

-----------------------------------------------------------------------------
Init == NetInit /\ tcp = Blank /\ peers = <<>>

NetCall ==
  \/ calls < MaxNetCalls /\ \E h \in Near \cup Far : PingCall(h)
  \/ calls < MaxNetCalls /\ \E h \in Servers : DnsBadName(h) \/ \E name \in Names : DnsCall(h, name)
  \/ SendEcho \/ SendQuery \/ SendQueryFails \/ PingReplied \/ DnsReplied
  \/ ArpWaited \/ TimedOut

Next ==
  \/ NetCall /\ UNCHANGED <<tcp, peers>>
  \/ Poll
  \/ \E s \in Services : Connect(s)
  \/ SendSyn \/ Connected
  \/ \E len \in SendLens : Send(len)
  \/ Recv \/ Received \/ Close \/ Ended \/ TcpTimedOut

Spec == Init /\ [][Next]_vars

-----------------------------------------------------------------------------
(* Properties. *)

\* What connect and recv report comes from the host and the port of the last connect,
\* whatever comes late from others and whatever the last connection left in the buffer
\* (net_tcp_connect clears g_tcp).
ReceivedIsFromPeer ==
  result.call \in {"connect", "recv"} /\ result.ok => result.from = result.dst

\* A segment whose end we acknowledge is one that recv returned or will return: one that finds
\* the buffer full is not acknowledged for itself, with FIN or without, nor by what we send
\* later.  (It may be by the segment after it: no sequence number is compared.)
AckedIsReturned ==
  \A f \in {g \in out : g.kind = "tcp" /\ g.n = tcp.n} : \A j \in 1 .. f.ack.i :
    f.ack = Number(tcp.n, FirstByte(j) + SegmentLen)
      => \/ FirstByte(j) \in tcp.taken
         \/ tcp.rxready /\ tcp.rx.n = tcp.n /\ tcp.rx.i = FirstByte(j)

\* Of one connection, no two of our segments fill the same number, SYN, what net_tcp_send
\* sends and FIN: the peer never takes one of them for another sent again.
SegmentsApart ==
  \A f, g \in {h \in out : h.kind = "tcp"} : f.n = g.n /\ f # g => f.fills \cap g.fills = {}
=============================================================================
