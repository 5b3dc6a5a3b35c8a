----------------------------- MODULE StunServer -----------------------------
(***************************************************************************)
(* The STUN binding servers (StunServer of stun_native.rs), one or an      *)
(* RFC 5780 pair: a loop per UDP socket, which hands a change-IP request   *)
(* to the change handler and so to the other server of the pair, a loop    *)
(* that accepts TCP connections into a bounded number of slots, and a task *)
(* per connection.                                                         *)
(*                                                                         *)
(* A UDP datagram is in net until it is delivered or lost; it may be       *)
(* delivered once more, and in any order.  A TCP connection is the         *)
(* messages on their way to the server (inbox) and back (outbox).          *)
(***************************************************************************)
EXTENDS StunCodec, FiniteSets

CONSTANTS
  Server,     \* their IPs
  Conn,       \* TCP connections
  server_of,  \* the server each goes to
  MAX_TCP_CONNECTIONS,
  OutCap,     \* replies a connection holds before write_all waits
  MaxAsk,     \* messages a client sends on a connection
  MaxFaults   \* datagrams lost, doubled or sent by strangers

Options == [alternate : BOOLEAN, handler : BOOLEAN, other : BOOLEAN, honours : BOOLEAN]

ASSUME ServerAssumption ==
  /\ IsFiniteSet(Server) /\ IsFiniteSet(Conn)
  /\ server_of \in [Conn -> Server]
  /\ MAX_TCP_CONNECTIONS \in Nat /\ OutCap \in Nat \ {0}
  /\ MaxAsk \in Nat /\ MaxFaults \in Nat
  /\ {None, Bad} \cap [ip : Server, port : {1, 2}] = {}

VARIABLES
  options,    \* StunServerOptions, and whether the server honours changes
  up,         \* the server's loops run
  net,        \* datagrams under way
  faults,     \* how many datagrams the network or a stranger has touched
  sending,    \* the reply a UDP loop is sending (send_to awaits), if any: <<reply>>
  handoffs,   \* ChangeRequestEvents on their way to the other server
  tcp_slots,  \* free permits
  conn,       \* the TCP connections
  metrics,    \* StunServerMetrics
  silent      \* per server: requests handed over or whose reply failed, and
              \* answers given for the other server (for the accounts only)

udpVars == <<options, up, net, faults, sending, handoffs>>
tcpVars == <<tcp_slots, conn>>
serverVars == <<udpVars, tcpVars, metrics, silent>>

Address(ip, port) == [ip |-> ip, port |-> port]
Socket == {"Primary", "Alternate"}
Bound(s) == IF options[s].alternate THEN Socket ELSE {"Primary"}
Addr(s, which) == Address(s, IF which = "Primary" THEN 1 ELSE 2)
Datagram(src, dst, msg) == [src |-> src, dst |-> dst, msg |-> msg]
PeerOf(s) == CHOOSE t \in Server : t # s

Count(s, fields) ==
  [metrics EXCEPT ![s] = [f \in DOMAIN @ |-> IF f \in fields THEN @[f] + 1 ELSE @[f]]]

InitServer ==   \* with any options
  /\ up = [s \in Server |-> TRUE]
  /\ net = {} /\ faults = 0 /\ handoffs = {}
  /\ sending = [s \in Server |-> [w \in Socket |-> <<>>]]
  /\ tcp_slots = [s \in Server |-> MAX_TCP_CONNECTIONS]
  /\ conn = [c \in Conn |-> [pc |-> "none", peer |-> "open", inbox |-> <<>>,
                             reply |-> None, outbox |-> <<>>, asked |-> 0]]
  /\ metrics = [s \in Server |->
       [requests |-> 0, responses |-> 0, errors |-> 0, change_requests |-> 0,
        tcp_connections |-> 0, dropped |-> 0]]
  /\ silent = [s \in Server |-> [handed |-> 0, failed |-> 0, answered |-> 0]]

-----------------------------------------------------------------------------
(* What a server answers. *)

(* The other server of the pair, from its primary socket's point of view.  *)
OtherAddress(s) == IF options[s].other THEN Addr(PeerOf(s), "Primary") ELSE None

Success(s, which, txid, client) ==
  encode_binding_success_with(txid, client, Addr(s, which), OtherAddress(s))

(* route_change.  A server that does not honour CHANGE-REQUEST is not one  *)
(* of ours: it ignores the attribute, as the prober has to expect.         *)
route_change_PortAlone(s, arrived_on, rfc5780) ==   \* mutant: port changed, not the IP
  LET change == IF rfc5780.change_request = None THEN NONE ELSE rfc5780.change_request
  IN CASE ~rfc5780.ok -> [to |-> "refuse", code |-> BAD_REQUEST]
       [] rfc5780.ok /\ (change = NONE \/ ~options[s].honours) ->
            [to |-> "answer", from |-> arrived_on]
       [] rfc5780.ok /\ change # NONE /\ options[s].honours ->
            IF change.change_port /\ options[s].alternate
            THEN [to |-> "answer",
                  from |-> IF arrived_on = "Primary" THEN "Alternate" ELSE "Primary"]
            ELSE [to |-> "refuse", code |-> UNKNOWN_ATTRIBUTE]

route_change(s, arrived_on, rfc5780) ==
  LET change == IF rfc5780.change_request = None THEN NONE ELSE rfc5780.change_request
  IN CASE ~rfc5780.ok -> [to |-> "refuse", code |-> BAD_REQUEST]
       [] rfc5780.ok /\ (change = NONE \/ ~options[s].honours) ->
            [to |-> "answer", from |-> arrived_on]
       [] rfc5780.ok /\ options[s].honours /\ change = PORT /\ options[s].alternate ->
            [to |-> "answer",
             from |-> IF arrived_on = "Primary" THEN "Alternate" ELSE "Primary"]
       [] rfc5780.ok /\ options[s].honours /\ change # NONE /\ change.change_ip
            /\ options[s].handler -> [to |-> "handler", change |-> change]
       [] OTHER -> [to |-> "refuse", code |-> UNKNOWN_ATTRIBUTE]

-----------------------------------------------------------------------------
(* UDP. *)

(* A datagram is consumed, or the network delivers it once more later.     *)
Consume(d, rest) ==
  \/ net' = (net \ {d}) \cup rest /\ UNCHANGED faults
  \/ faults < MaxFaults /\ faults' = faults + 1 /\ net' = net \cup rest

(* serve_udp: receive one datagram and decide; a reply is then being sent. *)
ServeUdp(s, which, d) ==
  LET rfc5780 == decode_rfc5780(d.msg)
      route == route_change(s, which, rfc5780)
      change == ~rfc5780.ok \/ rfc5780.change_request \notin {None, NONE}
      reply(from, msg) ==
        sending' = [sending EXCEPT ![s][which] =
                      <<[from |-> from, to |-> d.src, msg |-> msg]>>]
  IN /\ up[s] /\ which \in Bound(s) /\ sending[s][which] = <<>>
     /\ d \in net /\ d.dst = Addr(s, which)
     /\ Consume(d, {})
     /\ IF decode(d.msg).is # "request"
        THEN /\ metrics' = Count(s, {"dropped"})
             /\ UNCHANGED <<sending, handoffs, silent>>
        ELSE /\ metrics' = Count(s, {"requests"} \cup IF change THEN {"change_requests"} ELSE {})
             /\ CASE route.to = "answer" ->
                       /\ reply(route.from, Success(s, route.from, d.msg.txid, d.src))
                       /\ UNCHANGED <<handoffs, silent>>
                  [] route.to = "refuse" ->
                       /\ reply(which, encode_binding_error(d.msg.txid, route.code))
                       /\ UNCHANGED <<handoffs, silent>>
                  [] route.to = "handler" ->
                       /\ handoffs' = handoffs \cup
                            {[to |-> PeerOf(s), txid |-> d.msg.txid, client |-> d.src,
                              change |-> route.change]}
                       /\ silent' = [silent EXCEPT ![s].handed = @ + 1]
                       /\ UNCHANGED sending
     /\ UNCHANGED <<options, up, tcpVars>>

(* Inner::send: counted once it is sent; a failed send is only logged.     *)
SendReply(s, which) ==
  LET r == sending[s][which][1] IN
  /\ up[s] /\ sending[s][which] # <<>>
  /\ sending' = [sending EXCEPT ![s][which] = <<>>]
  /\ \/ /\ net' = net \cup {Datagram(Addr(s, r.from), r.to, r.msg)}
        /\ metrics' = Count(s, {IF r.msg.type = "success" THEN "responses" ELSE "errors"})
        /\ UNCHANGED <<faults, silent>>
     \/ /\ faults < MaxFaults /\ faults' = faults + 1
        /\ silent' = [silent EXCEPT ![s].failed = @ + 1]
        /\ UNCHANGED <<net, metrics>>
  /\ UNCHANGED <<options, up, handoffs, tcpVars>>

(* answer_for, called by whatever carries events between the two servers.  *)
(* It needs no loop: a server that has stopped serving still answers.      *)
answer_for(e) ==
  LET s == e.to
      from == IF e.change.change_port /\ options[s].alternate THEN "Alternate" ELSE "Primary"
  IN /\ e \in handoffs
     /\ handoffs' = handoffs \ {e}
     /\ net' = net \cup {Datagram(Addr(s, from), e.client, Success(s, from, e.txid, e.client))}
     /\ metrics' = Count(s, {"responses"})
     /\ silent' = [silent EXCEPT ![s].answered = @ + 1]
     /\ UNCHANGED <<options, up, faults, sending, tcpVars>>

(* The event or the answer is lost: the handler's rate limit, a link that  *)
(* is down, a send that fails.                                             *)
DropHandoff(e) ==
  /\ e \in handoffs /\ faults < MaxFaults
  /\ handoffs' = handoffs \ {e} /\ faults' = faults + 1
  /\ UNCHANGED <<options, up, net, sending, tcpVars, metrics, silent>>

(* serve: a socket fails, which ends every loop, a reply being sent too.   *)
SocketFails(s) ==
  /\ up[s] /\ faults < MaxFaults
  /\ up' = [up EXCEPT ![s] = FALSE] /\ faults' = faults + 1
  /\ sending' = [sending EXCEPT ![s] = [w \in Socket |-> <<>>]]
  /\ silent' = [silent EXCEPT ![s].failed =
                  @ + Cardinality({w \in Socket : sending[s][w] # <<>>})]
  /\ UNCHANGED <<options, net, handoffs, tcpVars, metrics>>

Lose(d) ==
  /\ d \in net /\ faults < MaxFaults
  /\ net' = net \ {d} /\ faults' = faults + 1
  /\ UNCHANGED <<options, up, sending, handoffs, tcpVars, metrics, silent>>

-----------------------------------------------------------------------------
(* TCP. *)

UNFRAMED == Message("unframed", 0, <<>>)  \* a header read_message refuses
HALF == Message("half", 0, <<>>)          \* a message whose rest never comes
Readable(c) == conn[c].inbox # <<>> /\ Head(conn[c].inbox) # HALF

(* The client's side. *)
Connect(c) ==
  /\ conn[c].pc = "none" /\ conn[c].peer = "open"
  /\ conn' = [conn EXCEPT ![c].pc = "backlog"]
  /\ UNCHANGED <<udpVars, tcp_slots, metrics, silent>>

Say(c, m) ==
  /\ conn[c].pc \in {"backlog", "reading", "replying"} /\ conn[c].peer = "open"
  /\ conn[c].asked < MaxAsk
  /\ conn' = [conn EXCEPT ![c].inbox = Append(@, m), ![c].asked = @ + 1]
  /\ UNCHANGED <<udpVars, tcp_slots, metrics, silent>>

TakeReply(c) ==
  /\ conn[c].peer = "open" /\ conn[c].outbox # <<>>
  /\ conn' = [conn EXCEPT ![c].outbox = Tail(@)]
  /\ UNCHANGED <<udpVars, tcp_slots, metrics, silent>>

HangUp(c) ==
  /\ conn[c].pc # "none" /\ conn[c].peer = "open"
  /\ conn' = [conn EXCEPT ![c].peer = "closed"]
  /\ UNCHANGED <<udpVars, tcp_slots, metrics, silent>>

(* serve_tcp: accept, take a slot or close at once.  A failed accept is    *)
(* that connection's failure.                                              *)
Accept_KeepsNoCount(c) ==   \* mutant: accepts whatever the free slots
  LET s == server_of[c] IN
  /\ up[s] /\ conn[c].pc = "backlog"
  /\ tcp_slots' = [tcp_slots EXCEPT ![s] = @ - 1]
  /\ metrics' = Count(s, {"tcp_connections"})
  /\ conn' = [conn EXCEPT ![c].pc = "reading"]
  /\ UNCHANGED <<udpVars, silent>>

Accept(c) ==
  LET s == server_of[c] IN
  /\ up[s] /\ conn[c].pc = "backlog"
  /\ IF tcp_slots[s] > 0
     THEN /\ tcp_slots' = [tcp_slots EXCEPT ![s] = @ - 1]
          /\ metrics' = Count(s, {"tcp_connections"})
          /\ conn' = [conn EXCEPT ![c].pc = "reading"]
     ELSE /\ metrics' = Count(s, {"dropped"})
          /\ conn' = [conn EXCEPT ![c].pc = "gone"]
          /\ UNCHANGED tcp_slots
  /\ UNCHANGED <<udpVars, silent>>

AcceptFails(c) ==
  /\ up[server_of[c]] /\ conn[c].pc = "backlog" /\ conn[c].peer = "closed"
  /\ conn' = [conn EXCEPT ![c].pc = "gone"]
  /\ UNCHANGED <<udpVars, tcp_slots, metrics, silent>>

(* serve_tcp_connection returns: the permit goes back, the stream closes.  *)
Return(c) ==
  /\ conn' = [conn EXCEPT ![c].pc = "gone"]
  /\ tcp_slots' = [tcp_slots EXCEPT ![server_of[c]] = @ + 1]

(* One message is read: an answer is being written, or the connection ends *)
(* because its framing cannot be trusted.                                  *)
ServeTcp(c) ==
  LET s == server_of[c]
      m == Head(conn[c].inbox)
      rfc5780 == decode_rfc5780(m)
      change == rfc5780.ok /\ rfc5780.change_request \notin {None, NONE}
      reply == CASE ~rfc5780.ok -> encode_binding_error(m.txid, BAD_REQUEST)
                 [] change -> encode_binding_error(m.txid, UNKNOWN_ATTRIBUTE)
                 [] OTHER  -> Success(s, "Primary", m.txid, Address("tcp", c))
  IN /\ conn[c].pc = "reading" /\ Readable(c)
     /\ IF decode(m).is = "request"
        THEN /\ metrics' = Count(s, {"requests"} \cup IF change THEN {"change_requests"} ELSE {})
             /\ conn' = [conn EXCEPT ![c].pc = "replying", ![c].reply = reply, ![c].inbox = Tail(@)]
             /\ UNCHANGED tcp_slots
        ELSE metrics' = Count(s, {"dropped"}) /\ Return(c)
     /\ UNCHANGED <<udpVars, silent>>

(* The stream ends or the client is idle; half a message is no message.    *)
Eof(c) ==
  /\ conn[c].pc = "reading" /\ ~Readable(c) /\ conn[c].peer = "closed"
  /\ Return(c)
  /\ UNCHANGED <<udpVars, metrics, silent>>

Idle_KeepsSlot(c) ==   \* mutant: the permit does not go back
  /\ conn[c].pc = "reading" /\ ~Readable(c)
  /\ conn' = [conn EXCEPT ![c].pc = "gone"]
  /\ UNCHANGED <<udpVars, tcp_slots, metrics, silent>>

Idle_AfterFirst(c) ==   \* mutant: a client that has asked once is waited for
  /\ conn[c].pc = "reading" /\ ~Readable(c) /\ conn[c].asked = 0
  /\ Return(c)
  /\ UNCHANGED <<udpVars, metrics, silent>>

Idle(c) ==   \* TCP_IDLE_TIMEOUT
  /\ conn[c].pc = "reading" /\ ~Readable(c)
  /\ Return(c)
  /\ UNCHANGED <<udpVars, metrics, silent>>

(* write_all: waits while the client does not read (nothing limits this    *)
(* wait), fails or goes unread once the client is gone.                    *)
WriteReply(c) ==
  LET s == server_of[c]
      r == conn[c].reply
  IN /\ conn[c].pc = "replying"
     /\ Len(conn[c].outbox) < OutCap
     /\ conn' = [conn EXCEPT ![c].pc = "reading", ![c].outbox = Append(@, r)]
     /\ metrics' = Count(s, {IF r.type = "success" THEN "responses" ELSE "errors"})
     /\ UNCHANGED <<udpVars, tcp_slots, silent>>

WriteFails(c) ==
  /\ conn[c].pc = "replying" /\ conn[c].peer = "closed"
  /\ Return(c)
  /\ silent' = [silent EXCEPT ![server_of[c]].failed = @ + 1]
  /\ UNCHANGED <<udpVars, metrics>>

-----------------------------------------------------------------------------
UdpServers ==
  \/ \E s \in Server, w \in Socket :
       \/ \E d \in net : ServeUdp(s, w, d)
       \/ SendReply(s, w)
  \/ \E e \in handoffs : answer_for(e)

TcpServers == \E c \in Conn :
  Accept(c) \/ ServeTcp(c) \/ Eof(c) \/ Idle(c) \/ WriteReply(c) \/ WriteFails(c)

Faults ==
  \/ \E d \in net : Lose(d)
  \/ \E e \in handoffs : DropHandoff(e)
  \/ \E s \in Server : SocketFails(s)
  \/ \E c \in Conn : AcceptFails(c)
=============================================================================
