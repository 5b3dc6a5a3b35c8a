---------------------------- MODULE StunExchange ----------------------------
(***************************************************************************)
(* The prober (probe_with, detect_mapping, detect_filtering, probe_tcp of  *)
(* stun_native.rs) behind a NAT, against the servers of StunServer.  One   *)
(* probing operation runs; it is chosen with the NAT in the initial state. *)
(*                                                                         *)
(* A transaction over UDP (transact) sends its request, waits, and sends   *)
(* it again with the same identifier; identifiers of different             *)
(* transactions differ.  A timeout may fire while an answer is under way.  *)
(***************************************************************************)
EXTENDS StunServer

CONSTANTS
  attempts,      \* ProbeConfig::attempts
  probe_conn,    \* the connection probe_tcp makes
  Scenarios      \* what the initial states are drawn from

Mappings  == {"none", "endpoint", "address", "both"}
Filtering == {"endpoint", "address", "both"}

ASSUME ProbeAssumption ==
  /\ attempts \in Nat \ {0} /\ probe_conn \in Conn
  /\ Server \cap {"c", "n"} = {}   \* the addresses of the client and of its NAT
  /\ {None, Bad} \cap ({Address("c", 1), Address("n", 1)} \cup
       [ip : {"n"}, port : Server \cup [ip : Server, port : {1, 2}]]) = {}
  /\ \A c \in Scenarios :
       /\ c.op \in {"mapping", "filtering", "tcp"}
       /\ c.options \in [Server -> Options]
       /\ \A s \in Server :   \* whoever names or needs another server has one
            c.options[s].other \/ c.options[s].handler => Server # {s}
       /\ c.nat \in [mapping : Mappings, filtering : Filtering] /\ c.wildcard \in BOOLEAN
       /\ c.targets \in Seq([ip : Server, port : {1, 2}]) /\ Len(c.targets) > 1

(* What an operation ends with: what it found, or a StunError; our servers *)
(* refuse with two codes.                                                  *)
NatMapping == {"Open", "EndpointIndependent", "EndpointDependent"}
NatFiltering == {"EndpointIndependent", "AddressDependent", "AddressAndPortDependent",
                 "AddressDependentOrStricter"}
StunError ==
  [is : {"error"}, why : {"Malformed", "TransactionMismatch", "Timeout", "Io",
                          "NoOtherAddress", "ChangeIgnored"}] \cup
  [is : {"error"}, why : {"ServerError"}, code : {BAD_REQUEST, UNKNOWN_ATTRIBUTE}]
Report == [is : {"found"}, kind : NatMapping \cup NatFiltering \cup {"Probed"}] \cup StunError

ASSUME ReportAssumption == None \notin Report

VARIABLES
  nat,        \* how the NAT maps and filters; "none" maps nothing
  wildcard,   \* the socket is bound to a wildcard address
  contacted,  \* the addresses the socket has sent to
  op,         \* mapping, filtering or tcp
  targets,    \* the servers given to the operation
  pc,         \* send, wait, done; tcp: connect, ask, wait, done
  step,       \* the transaction under way, also its identifier
  attempt,    \* how often its request was sent
  probes,     \* the mapped addresses learnt
  report,     \* the operation's result, or None
  disturbed   \* a datagram was touched, or a timeout overtook an answer

natVars == <<nat, wildcard, contacted>>
probeVars == <<op, targets, pc, step, attempt, probes, report>>
vars == <<serverVars, natVars, probeVars, disturbed>>

-----------------------------------------------------------------------------
(* The NAT. *)

Host == Address("c", 1)
local == IF wildcard THEN Address("0.0.0.0", 1) ELSE Host

MappedTo(dst) ==
  CASE nat.mapping = "none"     -> Host
    [] nat.mapping = "endpoint" -> Address("n", 1)
    [] nat.mapping = "address"  -> [ip |-> "n", port |-> dst.ip]
    [] nat.mapping = "both"     -> [ip |-> "n", port |-> dst]

(* Whom the NAT, or the host's firewall, lets in: the mapping must be one  *)
(* made for a destination that matches the source.                         *)
LetsIn(d) == \E dst \in contacted :
  /\ d.dst = MappedTo(dst)
  /\ CASE nat.filtering = "endpoint" -> TRUE
       [] nat.filtering = "address"  -> dst.ip = d.src.ip
       [] nat.filtering = "both"     -> dst = d.src

Inside == {"mapping", "filtering"}
ToClient(d) == d.dst.ip \in {"c", "n"}

NatDrops(d) ==
  /\ d \in net /\ ToClient(d) /\ ~LetsIn(d)
  /\ net' = net \ {d}
  /\ UNCHANGED <<options, up, faults, sending, handoffs, tcpVars, metrics, silent,
                 natVars, probeVars, disturbed>>

Init ==
  /\ InitServer
  /\ \E c \in Scenarios :
       /\ op = c.op /\ options = c.options /\ targets = c.targets
       /\ nat = c.nat /\ wildcard = c.wildcard
  /\ contacted = {}
  /\ pc = IF op = "tcp" THEN "connect" ELSE "send"
  /\ step = 1 /\ attempt = 0 /\ probes = <<>> /\ report = None
  /\ disturbed = FALSE

-----------------------------------------------------------------------------
(* One transaction. *)

Target == IF op = "mapping" THEN targets[step] ELSE targets[1]
Change == IF op # "filtering" THEN NONE ELSE <<NONE, IP_AND_PORT, PORT>>[step]

SendRequest ==
  /\ pc = "send"
  /\ net' = net \cup {Datagram(MappedTo(Target), Target,
                               encode_binding_request_with(step, Change))}
  /\ contacted' = contacted \cup {Target}
  /\ attempt' = attempt + 1 /\ pc' = "wait"
  /\ UNCHANGED <<options, up, faults, sending, handoffs, tcpVars, metrics, silent,
                 nat, wildcard, op, targets, step, probes, report, disturbed>>

(* What transact makes of a datagram: nothing (it reads on), an answer or  *)
(* a refusal.  Anything but the answer's identifier is ignored, and for a  *)
(* plain request any other source.                                         *)
Heard_AnyTransaction(d) ==   \* mutant: the identifier is not compared
  LET m == decode(d.msg) IN
  CASE Change = NONE /\ d.src # Target -> [is |-> "nothing"]
    [] m.is = "success" /\ (Change # NONE \/ d.src = Target) ->
         [is |-> "answer", from |-> d.src, mapped |-> m.mapped, extra |-> decode_rfc5780(d.msg)]
    [] OTHER -> [is |-> "nothing"]

Heard(d) ==
  LET m == decode(d.msg)
      mine == d.msg.txid = step /\ (Change # NONE \/ d.src = Target)
  IN CASE mine /\ m.is = "success" ->
            [is |-> "answer", from |-> d.src, mapped |-> m.mapped,
             extra |-> decode_rfc5780(d.msg)]
       [] mine /\ m.is = "error" -> [is |-> "refusal", code |-> m.code]
       [] OTHER -> [is |-> "nothing"]

Error(why) == [is |-> "error", why |-> why]
ServerError(code) == [is |-> "error", why |-> "ServerError", code |-> code]
Found(kind) == [is |-> "found", kind |-> kind]

Advance(found) ==
  /\ probes' = found /\ step' = step + 1 /\ attempt' = 0 /\ pc' = "send"
  /\ UNCHANGED <<op, targets, report>>
Finish(found, result) ==
  /\ probes' = found /\ report' = result /\ pc' = "done"
  /\ UNCHANGED <<op, targets, step, attempt>>

(* detect_mapping compares all answers with the first.                     *)
MappingOf(found) ==
  IF \E i \in DOMAIN found : found[i] # found[1] THEN "EndpointDependent"
  ELSE IF found[1] = local THEN "Open" ELSE "EndpointIndependent"

hole_punching_viable(mapping) == mapping # "EndpointDependent"
reflexive == IF hole_punching_viable(report.kind) THEN probes[1] ELSE None

MappingGoesOn(outcome) ==
  IF outcome.is # "answer" THEN Finish(probes, outcome)
  ELSE LET found == Append(probes, outcome.mapped)
       IN IF step < Len(targets) THEN Advance(found)
          ELSE Finish(found, Found(MappingOf(found)))

(* detect_filtering.  Test I learns the mapping and needs OTHER-ADDRESS    *)
(* (an answer with a malformed attribute counts as one without).           *)
TestI(outcome) ==
  IF outcome.is # "answer" THEN Finish(probes, outcome)
  ELSE IF ~outcome.extra.ok \/ outcome.extra.other_address = None
  THEN Finish(<<outcome.mapped>>, Error("NoOtherAddress"))
  ELSE Advance(<<outcome.mapped>>)

(* Test II: an answer from the other IP, silence, or a refusal.            *)
TestII(outcome) ==
  IF outcome.is = "answer" THEN
    Finish(probes, IF outcome.from.ip = Target.ip THEN Error("ChangeIgnored")
                   ELSE Found("EndpointIndependent"))
  ELSE IF outcome = Error("Timeout") THEN Advance(probes)
  ELSE Finish(probes, outcome)

(* Test III: an answer from the other port.                                *)
TestIII(outcome) ==
  Finish(probes,
    CASE outcome.is = "answer" -> IF outcome.from = Target THEN Error("ChangeIgnored")
                                  ELSE Found("AddressDependent")
      [] outcome = Error("Timeout") -> Found("AddressAndPortDependent")
      [] outcome = ServerError(UNKNOWN_ATTRIBUTE) -> Found("AddressDependentOrStricter")
      [] OTHER -> outcome)

GoesOn(outcome) ==
  CASE op = "mapping" -> MappingGoesOn(outcome)
    [] op = "filtering" /\ step = 1 -> TestI(outcome)
    [] op = "filtering" /\ step = 2 -> TestII(outcome)
    [] op = "filtering" /\ step = 3 -> TestIII(outcome)

Receive(d) ==
  /\ pc = "wait" /\ op \in Inside
  /\ d \in net /\ ToClient(d) /\ LetsIn(d)
  /\ Consume(d, {})
  /\ LET h == Heard(d) IN
     CASE h.is = "nothing" -> UNCHANGED probeVars
       [] h.is = "answer"  -> GoesOn(h)
       [] h.is = "refusal" -> GoesOn(ServerError(h.code))
  /\ UNCHANGED <<options, up, sending, handoffs, tcpVars, metrics, silent, natVars, disturbed>>

(* Something that belongs to this transaction and would be let in has not  *)
(* arrived yet.                                                            *)
UnderWay ==
  \/ \E d \in net : d.msg.txid = step /\ (ToClient(d) => LetsIn(d))
  \/ \E s \in Server, w \in Socket : sending[s][w] # <<>> /\ sending[s][w][1].msg.txid = step
  \/ \E e \in handoffs : e.txid = step

(* An attempt's deadline passes.                                           *)
TimeUp ==
  /\ pc = "wait" /\ op \in Inside
  /\ disturbed' = (disturbed \/ UnderWay)
  /\ IF attempt < attempts
     THEN pc' = "send" /\ UNCHANGED <<op, targets, step, attempt, probes, report>>
     ELSE GoesOn(Error("Timeout"))
  /\ UNCHANGED <<serverVars, natVars>>

(* The socket reports an error.                                            *)
SocketError ==
  /\ pc \in {"send", "wait"} /\ op \in Inside /\ faults < MaxFaults
  /\ faults' = faults + 1
  /\ GoesOn(Error("Io"))
  /\ UNCHANGED <<options, up, net, sending, handoffs, tcpVars, metrics, silent, natVars, disturbed>>

-----------------------------------------------------------------------------
(* probe_tcp: connect, ask and read under one deadline. *)

Client(c) == Address("tcp", c)

ProbeConnects ==
  /\ op = "tcp" /\ pc = "connect" /\ Connect(probe_conn)
  /\ pc' = "ask"
  /\ UNCHANGED <<natVars, op, targets, step, attempt, probes, report, disturbed>>

ProbeAsks ==
  /\ op = "tcp" /\ pc = "ask"
  /\ IF conn[probe_conn].pc = "gone"
     THEN Finish(probes, Error("Io")) /\ UNCHANGED serverVars
     ELSE /\ Say(probe_conn, encode_binding_request_with(step, NONE))
          /\ pc' = "wait" /\ UNCHANGED <<op, targets, step, attempt, probes, report>>
  /\ UNCHANGED <<natVars, disturbed>>

ProbeReads ==
  LET r == Head(conn[probe_conn].outbox)
      m == decode(r)
  IN /\ op = "tcp" /\ pc = "wait"
     /\ TakeReply(probe_conn)
     /\ CASE m.is = "success" /\ r.txid = step -> Finish(<<m.mapped>>, Found("Probed"))
          [] m.is = "error" /\ r.txid = step   -> Finish(probes, ServerError(m.code))
          [] m.is = "malformed"                -> Finish(probes, Error("Malformed"))
          [] OTHER                             -> Finish(probes, Error("TransactionMismatch"))
     /\ UNCHANGED <<natVars, disturbed>>

ProbeEof ==
  /\ op = "tcp" /\ pc = "wait"
  /\ conn[probe_conn].pc = "gone" /\ conn[probe_conn].outbox = <<>>
  /\ Finish(probes, Error("Io"))
  /\ UNCHANGED <<serverVars, natVars, disturbed>>

TcpDeadline_ConnectOnly ==   \* mutant: the reply has no deadline
  /\ op = "tcp" /\ pc = "connect"
  /\ Finish(probes, Error("Timeout"))
  /\ disturbed' = TRUE
  /\ UNCHANGED <<serverVars, natVars>>

TcpDeadline ==
  /\ op = "tcp" /\ pc \in {"connect", "wait"}
  /\ Finish(probes, Error("Timeout"))
  /\ disturbed' = TRUE
  /\ UNCHANGED <<serverVars, natVars>>

(* The server refuses or cannot be reached, or the connection breaks.      *)
ProbeBreaks ==
  /\ op = "tcp" /\ pc \in {"connect", "ask", "wait"}
  /\ Finish(probes, Error("Io"))
  /\ disturbed' = TRUE
  /\ UNCHANGED <<serverVars, natVars>>

(* The stream is dropped when probe_tcp returns.                           *)
ProbeLeaves ==
  /\ op = "tcp" /\ pc = "done" /\ HangUp(probe_conn)
  /\ UNCHANGED <<natVars, probeVars, disturbed>>

-----------------------------------------------------------------------------
(* Everybody else: strangers on UDP and the other TCP clients. *)

(* A reply to another transaction from the right address; and, to a server *)
(* that is asked for the mapping, something that is not STUN and a request *)
(* with a malformed attribute.                                             *)
Foreign(mapped) == Message("success", 0, <<Attr("XOR-MAPPED-ADDRESS", mapped)>>)
Strays ==
  {Datagram(Target, MappedTo(Target), Foreign(Address("x", 1)))} \cup
  IF op # "mapping" THEN {}
  ELSE {Datagram(Address("x", 1), Target, UNFRAMED),
        Datagram(Address("x", 1), Target, Message("request", 0, <<Attr("CHANGE-REQUEST", Bad)>>))}

Stray(d) ==
  /\ op \in Inside /\ pc = "wait" /\ faults < MaxFaults
  /\ net' = net \cup {d} /\ faults' = faults + 1
  /\ UNCHANGED <<options, up, sending, handoffs, tcpVars, metrics, silent, natVars,
                 probeVars, disturbed>>

Sayings ==
  {encode_binding_request_with(0, NONE), encode_binding_request_with(0, PORT),
   Message("request", 0, <<Attr("CHANGE-REQUEST", Bad)>>), Foreign(Address("x", 1)),
   UNFRAMED, HALF}

OtherClient(c) ==
  /\ op = "tcp" /\ c # probe_conn
  /\ \/ Connect(c)
     \/ \E m \in Sayings : Say(c, m)
     \/ TakeReply(c)
     \/ HangUp(c)
  /\ UNCHANGED <<natVars, probeVars, disturbed>>

-----------------------------------------------------------------------------
Prober ==
  \/ SendRequest \/ (\E d \in net : Receive(d))
  \/ ProbeConnects \/ ProbeAsks \/ ProbeReads \/ ProbeEof \/ ProbeLeaves
Deadlines == TimeUp \/ TcpDeadline
Servers == (UdpServers \/ TcpServers) /\ UNCHANGED <<natVars, probeVars, disturbed>>

Next ==
  \/ Prober \/ Deadlines \/ SocketError \/ ProbeBreaks \/ Servers
  \/ Faults /\ UNCHANGED <<natVars, probeVars, disturbed>>
  \/ \E d \in net : NatDrops(d)
  \/ \E d \in Strays : Stray(d)
  \/ \E c \in Conn : OtherClient(c)

Spec == Init /\ [][Next]_vars

(* Fairness: the prober's task runs and its timers fire; the tasks of the  *)
(* connections run, with their idle timers, and the accept loop while the  *)
(* server is up (together: each has finitely many steps).  Nothing is      *)
(* assumed of clients, datagrams or UDP loops.                             *)
FairSpec ==
  /\ Spec
  /\ WF_vars(Prober) /\ WF_vars(Deadlines)
  /\ WF_vars(TcpServers /\ UNCHANGED <<natVars, probeVars, disturbed>>)

-----------------------------------------------------------------------------
Metric == {"requests", "responses", "errors", "change_requests", "tcp_connections", "dropped"}

TypeOK ==
  /\ up \in [Server -> BOOLEAN]
  /\ faults \in 0..MaxFaults /\ tcp_slots \in [Server -> 0..MAX_TCP_CONNECTIONS]
  /\ metrics \in [Server -> [Metric -> Nat]]
  /\ \A d \in net : d.msg.txid \in 0..step
  /\ \A c \in Conn : /\ conn[c].pc \in {"none", "backlog", "reading", "replying", "gone"}
                     /\ Len(conn[c].outbox) <= OutCap /\ conn[c].asked <= MaxAsk
  /\ pc \in {"send", "wait", "done", "connect", "ask"}
  /\ attempt \in 0..attempts /\ Len(probes) <= Len(targets)
  /\ report \in Report \cup {None} /\ (report = None) <=> (pc # "done")

(* A report never claims more of the NAT than holds, whatever datagrams    *)
(* are lost, late, doubled or foreign: what it lists was seen of this      *)
(* socket by the server asked; the reflexive address it advertises is the  *)
(* one a peer would reach, unless the servers were too much alike to tell; *)
(* filtering is never reported looser than it is.                          *)
(* (detect_mapping counts its servers and does not look where they are:    *)
(* two ports of one host cannot tell address-dependent mapping from        *)
(* endpoint-independent, and one server given twice tells nothing.)        *)
OneHost == \A i \in DOMAIN targets : targets[i].ip = targets[1].ip
OneServer == \A i \in DOMAIN targets : targets[i] = targets[1]
TooAlike ==
  \/ nat.mapping = "address" /\ OneHost
  \/ nat.mapping = "both" /\ OneServer
ReportIsTrue ==
  /\ \A i \in DOMAIN probes :
       probes[i] = IF op = "tcp" THEN Client(probe_conn)
                   ELSE MappedTo(IF op = "mapping" THEN targets[i] ELSE targets[1])
  /\ report # None =>
       /\ op = "mapping" /\ report.is = "found" =>
            /\ report.kind = "Open" => nat.mapping = "none"
            /\ reflexive # None => MappedTo(Address("peer", 1)) = reflexive \/ TooAlike
       /\ op = "filtering" =>
            /\ report = Found("EndpointIndependent") => nat.filtering = "endpoint"
            /\ report = Found("AddressDependent") => nat.filtering # "both"

(* When nothing was lost, late or forged, mapping is classified as what it *)
(* is, except where the servers are too much alike to tell (then nothing   *)
(* is promised: the report may say EndpointIndependent of a NAT that is    *)
(* not) and except that the absence of a NAT is called EndpointIndependent *)
(* on a wildcard socket; and filtering is classified as what it is, or the *)
(* report says why this server cannot tell.                                *)
Quiet == report # None /\ faults = 0 /\ ~disturbed
Server1 == options[Target.ip]
QuietNetworkIsExact == Quiet =>
  /\ op = "mapping" /\ ~TooAlike =>
       report = Found(CASE nat.mapping = "none" -> IF wildcard THEN "EndpointIndependent" ELSE "Open"
                        [] nat.mapping = "endpoint" -> "EndpointIndependent"
                        [] nat.mapping \in {"address", "both"} -> "EndpointDependent")
  /\ op = "filtering" =>
       report = CASE ~Server1.other -> Error("NoOtherAddress")
                  [] Server1.other /\ ~Server1.honours -> Error("ChangeIgnored")
                  [] Server1.other /\ Server1.honours /\ ~Server1.handler ->
                       ServerError(UNKNOWN_ATTRIBUTE)
                  [] OTHER ->
                       Found(CASE nat.filtering = "endpoint" -> "EndpointIndependent"
                               [] nat.filtering # "endpoint" /\ ~Server1.alternate ->
                                    "AddressDependentOrStricter"
                               [] nat.filtering = "address" /\ Server1.alternate -> "AddressDependent"
                               [] nat.filtering = "both" /\ Server1.alternate -> "AddressAndPortDependent")

(* The metrics account for every request (answered, refused, handed over,  *)
(* failed, or still being answered), and every slot is free or held by a   *)
(* connection that is being served.                                        *)
Held(s) == {c \in Conn : server_of[c] = s /\ conn[c].pc \in {"reading", "replying"}}
BeingAnswered(s) ==
  Cardinality({w \in Socket : sending[s][w] # <<>>})
    + Cardinality({c \in Held(s) : conn[c].pc = "replying"})
Accounted ==
  \A s \in Server :
    /\ metrics[s].requests + silent[s].answered =
         metrics[s].responses + metrics[s].errors + silent[s].handed + silent[s].failed
           + BeingAnswered(s)
    /\ tcp_slots[s] + Cardinality(Held(s)) = MAX_TCP_CONNECTIONS

-----------------------------------------------------------------------------
(* Liveness. *)

(* Every probing operation ends, whatever becomes of the network and of    *)
(* the server, however much stray traffic arrives.                         *)
ProbeEnds == <>(pc = "done")

(* A client's connection that has a slot gives it back, however little its *)
(* client says and whether or not it leaves, unless the client leaves its  *)
(* replies unread: write_all has no time limit.  (MaxAsk ends what a       *)
(* client says; one that asks again within every TCP_IDLE_TIMEOUT keeps    *)
(* its slot for as long as it likes.)                                      *)
SlotsComeBack ==
  \A c \in Conn \ {probe_conn} :
    conn[c].pc \in {"reading", "replying"} ~>
      \/ conn[c].pc = "gone"
      \/ conn[c].pc = "replying" /\ Len(conn[c].outbox) = OutCap /\ conn[c].peer = "open"
=============================================================================
