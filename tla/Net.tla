-------------------------------- MODULE Net --------------------------------
(***************************************************************************)
(* ARP, ping and DNS over UDP (net.c), the part of the network stack under *)
(* Tcp, which composes the two.  The calls are synchronous: each polls     *)
(* the network while it waits, and what comes in, whatever it is, goes to  *)
(* the handlers.  The frames a call sends are kept in out and may be       *)
(* answered at any later poll, never, or often: so answers are lost, late, *)
(* repeated and out of order.  The hosts are external and answer           *)
(* truthfully.  A machine without a card is not modelled.                  *)
(***************************************************************************)
EXTENDS Integers, Sequences, FiniteSets

CONSTANTS Near,      \* hosts of the subnet, the gateway among them
          Far,       \* hosts behind the gateway
          Gateway,   \* g_gw
          Servers,   \* hosts that are asked for names
          Names,     \* the names asked for; a name also stands for its address
          ArpSlots,  \* entries of g_arp: 8 in the code
          TxidCount, \* values of g_dns_txid: 65536 in the code
          NoName,
          MaxCalls   \* bound: calls of ping and nslookup

ASSUME HostsAssumption == Gateway \in Near /\ Near \cap Far = {} /\ Servers \subseteq Near \cup Far
ASSUME SizesAssumption == ArpSlots \in Nat \ {0} /\ TxidCount \in Nat \ {0}

VARIABLES arp,    \* the valid entries of g_arp, a prefix of the array
          ping,   \* g_ping_dst, g_ping_got, and as a ghost whose reply set it
          udp,    \* g_udp, and as a ghost the lookup that waited when its datagram came, or 0
          txid,   \* g_dns_txid
          op,     \* the call under way
          out,    \* frames sent
          calls,  \* number of the call under way, or of the last
          result  \* what the last call returned

netVars == <<arp, ping, udp, txid, op, out, calls, result>>

NextHop(h) == IF h \in Near THEN h ELSE Gateway

\* arp_put replaces the entry of the address, takes a free one, or takes entry 0.
Known(h) == \E i \in DOMAIN arp : arp[i].ip = h
EntryOf(h) == CHOOSE i \in DOMAIN arp : arp[i].ip = h

\* Mutant: the address of a replaced entry is kept.
ArpPutPartly(h, mac) ==
  CASE Known(h) -> [arp EXCEPT ![EntryOf(h)].mac = mac]
    [] ~Known(h) /\ Len(arp) < ArpSlots -> Append(arp, [ip |-> h, mac |-> mac])
    [] OTHER -> [arp EXCEPT ![1].ip = h]

ArpPut(h, mac) ==
  CASE Known(h) -> [arp EXCEPT ![EntryOf(h)].mac = mac]
    [] ~Known(h) /\ Len(arp) < ArpSlots -> Append(arp, [ip |-> h, mac |-> mac])
    [] OTHER -> [arp EXCEPT ![1] = [ip |-> h, mac |-> mac]]

ArpGet(h) == arp[EntryOf(h)].mac

-----------------------------------------------------------------------------
(* The frames. *)

WhoHas(h) == [kind |-> "who", to |-> h]
Echo(h, mac) == [kind |-> "echo", to |-> h, mac |-> mac]
Query(h, mac, id, name) == [kind |-> "query", to |-> h, mac |-> mac, n |-> calls, id |-> id, name |-> name]

\* A unicast frame reaches its host if it goes to the station of the next hop.
Reaches(f) == f.kind = "who" \/ f.mac = NextHop(f.to)

-----------------------------------------------------------------------------
(* The handlers, called from net_poll_once. *)

GotArp(f) ==
  /\ f.kind = "who"
  /\ arp' = ArpPut(f.to, f.to)
  /\ UNCHANGED <<ping, udp>>

\* Mutant: the source of a reply is not compared.
GotEchoReplyOfAnyone(f) ==
  /\ f.kind = "echo"
  /\ ping' = [ping EXCEPT !.got = TRUE, !.from = f.to]
  /\ UNCHANGED <<arp, udp>>

\* An echo reply counts if it comes from the host pinged last: its number is always the same.
GotEchoReply(f) ==
  /\ f.kind = "echo" /\ f.to = ping.dst
  /\ ping' = [ping EXCEPT !.got = TRUE, !.from = f.to]
  /\ UNCHANGED <<arp, udp>>

\* A datagram for the port is kept if the last one has been fetched.
GotDatagram(f, found) ==
  /\ f.kind = "query" /\ udp.listening /\ ~udp.ready
  /\ udp' = [listening |-> TRUE, ready |-> TRUE,
             at |-> IF op.call = "dns" /\ op.pc = "wait" THEN calls ELSE 0,
             src |-> f.to, id |-> f.id, name |-> f.name, found |-> found]
  /\ UNCHANGED <<arp, ping>>

Answered == IF op.call = "ping" THEN ping.got ELSE udp.ready

\* The answer to any frame sent may come at any poll.
Handled ==
  \E f \in {g \in out : Reaches(g)} :
    \/ GotArp(f)
    \/ GotEchoReply(f)
    \/ \E found \in BOOLEAN : GotDatagram(f, found)

-----------------------------------------------------------------------------
(* The calls. *)

NoCall == [call |-> "none", pc |-> "idle", dst |-> Gateway, name |-> NoName]
Nothing == [call |-> "none", ok |-> FALSE, dst |-> Gateway, name |-> NoName,
            from |-> Gateway, n |-> 0, try |-> 0, value |-> NoName]
Return(r) == result' = r /\ op' = NoCall
Failed == [Nothing EXCEPT !.call = op.call, !.dst = op.dst, !.name = op.name]

\* A call looks up the station of the next hop, and asks for it if it is not known.
Begin(call, h, name) ==
  /\ op.call = "none" /\ calls < MaxCalls
  /\ calls' = calls + 1
  /\ op' = [call |-> call, pc |-> IF Known(NextHop(h)) THEN "send" ELSE "arp", dst |-> h, name |-> name]
  /\ out' = IF Known(NextHop(h)) THEN out ELSE out \cup {WhoHas(NextHop(h))}
  /\ UNCHANGED <<arp, ping, udp, result>>

\* net_ping_ipv4
PingCall(h) == Begin("ping", h, NoName) /\ UNCHANGED txid

\* net_dns_resolve_a takes the next identifier, but never zero.
NextTxid == IF txid + 1 = TxidCount THEN 1 ELSE txid + 1
DnsCall(h, name) == Begin("dns", h, name) /\ txid' = NextTxid

\* A name dns_write_qname cannot write (an empty label, one of 64 characters, one too
\* long) fails the call before anything is sent; the identifier has been taken.
DnsBadName(h) ==
  /\ op.call = "none" /\ calls < MaxCalls
  /\ calls' = calls + 1
  /\ txid' = NextTxid
  /\ result' = [Nothing EXCEPT !.call = "dns", !.dst = h]
  /\ UNCHANGED <<arp, ping, udp, op, out>>

\* The polls for the station are over.
ArpWaited ==
  /\ op.pc = "arp"
  /\ IF Known(NextHop(op.dst))
     THEN op' = [op EXCEPT !.pc = "send"] /\ UNCHANGED result
     ELSE Return(Failed)
  /\ UNCHANGED <<arp, ping, udp, txid, out, calls>>

SendEcho ==
  /\ op.pc = "send" /\ op.call = "ping"
  /\ ping' = [ping EXCEPT !.dst = op.dst, !.got = FALSE]
  /\ out' = out \cup {Echo(op.dst, ArpGet(NextHop(op.dst)))}
  /\ op' = [op EXCEPT !.pc = "wait"]
  /\ UNCHANGED <<arp, udp, txid, calls, result>>

\* Mutant: net_udp_recv does not empty its buffer.
SendQueryKeepingBuffer ==
  /\ op.pc = "send" /\ op.call = "dns"
  /\ udp' = [udp EXCEPT !.listening = TRUE]
  /\ out' = out \cup {Query(op.dst, ArpGet(NextHop(op.dst)), txid, op.name)}
  /\ op' = [op EXCEPT !.pc = "wait"]
  /\ UNCHANGED <<arp, ping, txid, calls, result>>

\* net_udp_send, then net_udp_recv, which first empties its buffer.
SendQuery ==
  /\ op.pc = "send" /\ op.call = "dns"
  /\ udp' = [udp EXCEPT !.listening = TRUE, !.ready = FALSE]
  /\ out' = out \cup {Query(op.dst, ArpGet(NextHop(op.dst)), txid, op.name)}
  /\ op' = [op EXCEPT !.pc = "wait"]
  /\ UNCHANGED <<arp, ping, txid, calls, result>>

\* e1000_send_eth finds no free descriptor, and the call fails before net_udp_recv: its
\* buffer is not emptied.  Ping and TCP do not look at what e1000_send_eth returns.
SendQueryFails ==
  /\ op.pc = "send" /\ op.call = "dns"
  /\ Return(Failed)
  /\ UNCHANGED <<arp, ping, udp, txid, out, calls>>

PingReplied ==
  /\ op.pc = "wait" /\ op.call = "ping" /\ ping.got
  /\ Return([Failed EXCEPT !.ok = TRUE, !.from = ping.from])
  /\ UNCHANGED <<arp, ping, udp, txid, out, calls>>

\* Mutant: the identifier is not compared.
AnswerAcceptedUnchecked == udp.src = op.dst /\ udp.found
AnswerAccepted == udp.src = op.dst /\ udp.id = txid /\ udp.found

\* The one datagram net_udp_recv returns is the answer, or the call has failed.
DnsReplied ==
  /\ op.pc = "wait" /\ op.call = "dns" /\ udp.ready
  /\ udp' = [udp EXCEPT !.ready = FALSE]
  /\ Return([Failed EXCEPT !.ok = AnswerAccepted, !.value = udp.name, !.n = udp.at, !.try = calls])
  /\ UNCHANGED <<arp, ping, txid, out, calls>>

TimedOut ==
  /\ op.pc = "wait" /\ op.call \in {"ping", "dns"} /\ ~Answered
  /\ Return(Failed)
  /\ UNCHANGED <<arp, ping, udp, txid, out, calls>>

NetInit ==
  /\ arp = <<>>
  /\ ping = [dst |-> Gateway, got |-> FALSE, from |-> Gateway]
  /\ udp = [listening |-> FALSE, ready |-> FALSE, at |-> 0,
            src |-> Gateway, id |-> 0, name |-> NoName, found |-> FALSE]
  /\ txid = 0 /\ op = NoCall /\ out = {} /\ calls = 0 /\ result = Nothing

-----------------------------------------------------------------------------
(* Properties. *)

\* Every frame for a host goes to the station of its next hop, through all the
\* replacements in the small table of arp_put.
FramesGoToNextHop == \A f \in out : f.kind # "who" => f.mac = NextHop(f.to)

\* A ping that succeeds has had a reply of the host it was for, and not a late one of another
\* host pinged before (handle_ipv4_icmp compares the source).  It may be a late reply to an
\* earlier ping of the same host: all of them bear one number.
PingMeansReply == result.call = "ping" /\ result.ok => result.from = result.dst

\* A lookup that succeeds returns the address of the name it asked for, whatever late
\* answers come to earlier questions (the identifier is compared).
ResolvedIsAsked == result.call = "dns" /\ result.ok => result.value = result.name

\* net_udp_recv returns a datagram that came while it waited, after the query of its lookup
\* was sent, though the port goes on listening between calls, and a ping, or the wait of the
\* lookup itself for a station, may fill the buffer (net_udp_recv empties it first).
DatagramIsFresh == result.call = "dns" => result.n = result.try
=============================================================================
