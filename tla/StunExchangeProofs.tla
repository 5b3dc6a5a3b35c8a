------------------------- MODULE StunExchangeProofs -------------------------
(***************************************************************************)
(* The STUN servers and prober, for any finite set of servers and of       *)
(* connections, any NAT and any number of slots and faults.                *)
(***************************************************************************)
EXTENDS StunExchange, FiniteSetTheorems, SequenceTheorems, TLAPS

-----------------------------------------------------------------------------
(* The accounts of the servers. *)

Busy(s) == {w \in Socket : sending[s][w] # <<>>}
Answering(s) == {c \in Held(s) : conn[c].pc = "replying"}

Balanced(s) ==
  metrics[s].requests + silent[s].answered =
    metrics[s].responses + metrics[s].errors + silent[s].handed + silent[s].failed
      + (Cardinality(Busy(s)) + Cardinality(Answering(s)))
SlotsFit(s) == tcp_slots[s] + Cardinality(Held(s)) = MAX_TCP_CONNECTIONS

(* The inductive invariant: the counters are numbers, the replies of the   *)
(* loops and the connections have their fields, and the books balance.     *)
Counters ==
  /\ metrics \in [Server -> [Metric -> Nat]]
  /\ silent \in [Server -> [{"handed", "failed", "answered"} -> Nat]]
  /\ tcp_slots \in [Server -> Nat]
Loops == sending = [s \in Server |-> [w \in Socket |-> sending[s][w]]]
IsConnection(k) == k = [pc |-> k.pc, peer |-> k.peer, inbox |-> k.inbox,
                        reply |-> k.reply, outbox |-> k.outbox, asked |-> k.asked]
Connections ==
  /\ conn = [c \in Conn |-> conn[c]]
  /\ \A c \in Conn : IsConnection(conn[c])
AccountInv ==
  /\ Counters /\ Loops /\ Connections
  /\ \A s \in Server : Balanced(s) /\ SlotsFit(s)

LEMMA AccountsAreAccounted == (\A s \in Server : Balanced(s) /\ SlotsFit(s)) <=> Accounted
  BY DEF Balanced, SlotsFit, Accounted, BeingAnswered, Busy, Answering

(* The sets that are counted are finite. *)
LEMMA CountedSets ==
  ASSUME NEW s \in Server
  PROVE  /\ IsFiniteSet(Busy(s)) /\ Cardinality(Busy(s)) \in Nat
         /\ IsFiniteSet(Held(s)) /\ Cardinality(Held(s)) \in Nat
         /\ IsFiniteSet(Answering(s)) /\ Cardinality(Answering(s)) \in Nat
<1>1. IsFiniteSet(Socket)
  <2>1. Socket = {"Primary"} \cup {"Alternate"}
    BY DEF Socket
  <2>2. IsFiniteSet({"Primary"})
    BY FS_Singleton
  <2> QED BY <2>1, <2>2, FS_AddElement
<1>2. IsFiniteSet(Busy(s))
  BY <1>1, FS_Subset, Busy(s) \in SUBSET Socket DEF Busy
<1>3. IsFiniteSet(Conn)
  BY ServerAssumption
<1>4. IsFiniteSet(Held(s))
  BY <1>3, FS_Subset, Held(s) \in SUBSET Conn DEF Held
<1>5. IsFiniteSet(Answering(s))
  BY <1>4, FS_Subset, Answering(s) \in SUBSET Held(s) DEF Answering
<1> QED BY <1>2, <1>4, <1>5, FS_CardinalityType

(* One element more, one element less. *)
LEMMA OneMore ==
  ASSUME NEW S, NEW x, IsFiniteSet(S), x \notin S
  PROVE  Cardinality(S \cup {x}) = Cardinality(S) + 1
  BY FS_AddElement

LEMMA OneLess ==
  ASSUME NEW S, NEW x, IsFiniteSet(S), x \in S
  PROVE  Cardinality(S \ {x}) = Cardinality(S) - 1
  BY FS_RemoveElement

(* Count adds one to the fields it is given, at one server. *)
LEMMA CountAdds ==
  ASSUME Counters, NEW s, NEW fields
  PROVE  /\ Count(s, fields) \in [Server -> [Metric -> Nat]]
         /\ \A t \in Server : t # s => Count(s, fields)[t] = metrics[t]
         /\ s \in Server => \A f \in Metric : Count(s, fields)[s][f] =
              IF f \in fields THEN metrics[s][f] + 1 ELSE metrics[s][f]
<1>1. metrics \in [Server -> [Metric -> Nat]]
  BY DEF Counters
<1> DEFINE new == [f \in DOMAIN metrics[s] |-> IF f \in fields THEN metrics[s][f] + 1
                                               ELSE metrics[s][f]]
<1>2. Count(s, fields) = [metrics EXCEPT ![s] = new]
  BY DEF Count
<1>3. s \in Server => new \in [Metric -> Nat]
  BY <1>1
<1>4. s \in Server => \A f \in Metric : new[f] = IF f \in fields THEN metrics[s][f] + 1
                                                 ELSE metrics[s][f]
  BY <1>1
<1> HIDE DEF new
<1> QED BY <1>1, <1>2, <1>3, <1>4

(* The counters of a server are numbers. *)
LEMMA CountersAreNumbers ==
  ASSUME Counters, NEW s \in Server
  PROVE  /\ metrics[s].requests \in Nat /\ metrics[s].responses \in Nat
         /\ metrics[s].errors \in Nat /\ silent[s].answered \in Nat
         /\ silent[s].handed \in Nat /\ silent[s].failed \in Nat /\ tcp_slots[s] \in Nat
<1>1. metrics[s] \in [Metric -> Nat] /\ tcp_slots[s] \in Nat
      /\ silent[s] \in [{"handed", "failed", "answered"} -> Nat]
  BY DEF Counters
<1> QED BY <1>1 DEF Metric

(* An action has to balance the books of the server it belongs to only.    *)
OthersRest(s) == \A t \in Server : t # s =>
  /\ metrics'[t] = metrics[t] /\ silent'[t] = silent[t] /\ tcp_slots'[t] = tcp_slots[t]
  /\ Busy(t)' = Busy(t) /\ Held(t)' = Held(t) /\ Answering(t)' = Answering(t)

LEMMA Rebalanced ==
  ASSUME AccountInv, NEW s, OthersRest(s), Counters', Loops', Connections',
         s \in Server => Balanced(s)' /\ SlotsFit(s)'
  PROVE  AccountInv'
<1>1. ASSUME NEW t \in Server, t # s PROVE Balanced(t)' /\ SlotsFit(t)'
  <2>1. Balanced(t) /\ SlotsFit(t)
    BY DEF AccountInv
  <2>2. /\ metrics'[t] = metrics[t] /\ silent'[t] = silent[t] /\ tcp_slots'[t] = tcp_slots[t]
        /\ Busy(t)' = Busy(t) /\ Held(t)' = Held(t) /\ Answering(t)' = Answering(t)
    BY <1>1 DEF OthersRest
  <2> QED BY <2>1, <2>2 DEF Balanced, SlotsFit
<1> QED BY <1>1 DEF AccountInv

(* What a request that arrives, a message that does not ask, a reply that  *)
(* is counted, fails or is given for the other server do to the books.     *)
LEMMA CountedOther ==
  ASSUME Counters, NEW s \in Server, NEW fields,
         fields \cap {"requests", "responses", "errors"} = {},
         metrics' = Count(s, fields)
  PROVE  /\ metrics' \in [Server -> [Metric -> Nat]]
         /\ \A t \in Server : t # s => metrics'[t] = metrics[t]
         /\ metrics'[s].requests = metrics[s].requests
         /\ metrics'[s].responses = metrics[s].responses
         /\ metrics'[s].errors = metrics[s].errors
<1>1. \A f \in Metric : metrics'[s][f] = IF f \in fields THEN metrics[s][f] + 1
                                                       ELSE metrics[s][f]
  BY CountAdds
<1>2. metrics' \in [Server -> [Metric -> Nat]]
      /\ \A t \in Server : t # s => metrics'[t] = metrics[t]
  BY CountAdds
<1>3. {"requests", "responses", "errors"} \subseteq Metric
  BY DEF Metric
<1> QED BY <1>1, <1>2, <1>3

LEMMA CountedRequest ==
  ASSUME Counters, NEW s \in Server, NEW fields,
         fields \cap {"requests", "responses", "errors"} = {},
         metrics' = Count(s, {"requests"} \cup fields)
  PROVE  /\ metrics' \in [Server -> [Metric -> Nat]]
         /\ \A t \in Server : t # s => metrics'[t] = metrics[t]
         /\ metrics'[s].requests = metrics[s].requests + 1
         /\ metrics'[s].responses = metrics[s].responses
         /\ metrics'[s].errors = metrics[s].errors
<1>1. \A f \in Metric : metrics'[s][f] =
        IF f \in {"requests"} \cup fields THEN metrics[s][f] + 1 ELSE metrics[s][f]
  BY CountAdds
<1>2. metrics' \in [Server -> [Metric -> Nat]]
      /\ \A t \in Server : t # s => metrics'[t] = metrics[t]
  BY CountAdds
<1>3. {"requests", "responses", "errors"} \subseteq Metric
  BY DEF Metric
<1> QED BY <1>1, <1>2, <1>3

LEMMA CountedReply ==
  ASSUME Counters, NEW s \in Server, NEW b \in {"responses", "errors"},
         metrics' = Count(s, {b})
  PROVE  /\ metrics' \in [Server -> [Metric -> Nat]]
         /\ \A t \in Server : t # s => metrics'[t] = metrics[t]
         /\ metrics'[s].requests = metrics[s].requests
         /\ metrics'[s].responses + metrics'[s].errors =
              metrics[s].responses + metrics[s].errors + 1
<1>1. \A f \in Metric : metrics'[s][f] = IF f \in {b} THEN metrics[s][f] + 1
                                                    ELSE metrics[s][f]
  BY CountAdds
<1>2. metrics' \in [Server -> [Metric -> Nat]]
      /\ \A t \in Server : t # s => metrics'[t] = metrics[t]
  BY CountAdds
<1>3. {"requests", "responses", "errors"} \subseteq Metric
  BY DEF Metric
<1>4. metrics[s].responses \in Nat /\ metrics[s].errors \in Nat
  BY CountersAreNumbers
<1>5. metrics'[s].requests = metrics[s].requests
  BY <1>1, <1>3
<1> DEFINE sum == metrics'[s].responses + metrics'[s].errors =
                    metrics[s].responses + metrics[s].errors + 1
<1>6. ASSUME b = "responses" PROVE sum
  <2>1. /\ metrics'[s].responses = metrics[s].responses + 1
        /\ metrics'[s].errors = metrics[s].errors
    BY <1>1, <1>3, <1>6
  <2>2. sum
    BY <1>4, <2>1
  <2> HIDE DEF sum
  <2> QED BY <2>2
<1>7. ASSUME b = "errors" PROVE sum
  <2>1. /\ metrics'[s].responses = metrics[s].responses
        /\ metrics'[s].errors = metrics[s].errors + 1
    BY <1>1, <1>3, <1>7
  <2>2. sum
    BY <1>4, <2>1
  <2> HIDE DEF sum
  <2> QED BY <2>2
<1>8. sum
  <2> HIDE DEF sum
  <2> QED BY <1>6, <1>7
<1> QED BY <1>2, <1>5, <1>8

-----------------------------------------------------------------------------
(* UDP. *)

LEMMA SendingAt ==
  ASSUME Loops, NEW s \in Server, NEW w \in Socket, NEW v,
         sending' = [sending EXCEPT ![s][w] = v]
  PROVE  /\ Loops'
         /\ \A t \in Server : t # s => Busy(t)' = Busy(t)
         /\ v # <<>> => Busy(s)' = Busy(s) \cup {w}
         /\ v = <<>> => Busy(s)' = Busy(s) \ {w}
<1>1. sending = [t \in Server |-> [x \in Socket |-> sending[t][x]]]
  BY DEF Loops
<1>2. \A t \in Server : t # s => sending'[t] = sending[t]
  BY <1>1
<1>3. /\ \A x \in Socket : x # w => sending'[s][x] = sending[s][x]
      /\ sending'[s][w] = v
  BY <1>1
<1>4. Loops'
  BY <1>1 DEF Loops
<1> QED BY <1>2, <1>3, <1>4 DEF Busy

LEMMA ConnKeepsSets ==
  ASSUME NEW s, conn' = conn
  PROVE  Held(s)' = Held(s) /\ Answering(s)' = Answering(s)
  BY DEF Held, Answering

(* A request gets a reply, is refused or is handed over; anything else is  *)
(* dropped.                                                                *)
LEMMA RouteIsTaken ==
  ASSUME NEW s, NEW w, NEW rfc
  PROVE  route_change(s, w, rfc).to \in {"answer", "refuse", "handler"}
  BY DEF route_change

LEMMA ServeUdpCases ==
  ASSUME NEW s \in Server, NEW w \in Socket, NEW d, ServeUdp(s, w, d)
  PROVE  \/ metrics' = Count(s, {"dropped"}) /\ sending' = sending /\ silent' = silent
         \/ \E fields \in {{}, {"change_requests"}} :
              /\ metrics' = Count(s, {"requests"} \cup fields)
              /\ \/ (\E v : v # <<>> /\ sending' = [sending EXCEPT ![s][w] = v]) /\ silent' = silent
                 \/ sending' = sending /\ silent' = [silent EXCEPT ![s].handed = @ + 1]
<1> DEFINE rfc == decode_rfc5780(d.msg)
           change == ~rfc.ok \/ rfc.change_request \notin {None, NONE}
           extra == IF change THEN {"change_requests"} ELSE {}
<1>1. CASE decode(d.msg).is # "request"
  BY <1>1 DEF ServeUdp
<1>2. CASE decode(d.msg).is = "request"
  <2>1. metrics' = Count(s, {"requests"} \cup extra) /\ extra \in {{}, {"change_requests"}}
    BY <1>2 DEF ServeUdp
  <2>2. \/ (\E v : v # <<>> /\ sending' = [sending EXCEPT ![s][w] = v]) /\ silent' = silent
        \/ sending' = sending /\ silent' = [silent EXCEPT ![s].handed = @ + 1]
    <3>1. \/ \E v : sending' = [sending EXCEPT ![s][w] = <<v>>] /\ silent' = silent
          \/ sending' = sending /\ silent' = [silent EXCEPT ![s].handed = @ + 1]
      BY <1>2, RouteIsTaken DEF ServeUdp
    <3>2. \A v : <<v>> # <<>>
      OBVIOUS
    <3> QED BY <3>1, <3>2, Zenon
  <2> HIDE DEF extra
  <2> QED BY <2>1, <2>2
<1> QED BY <1>1, <1>2

LEMMA ServeUdpBalances ==
  ASSUME AccountInv, NEW s \in Server, NEW w \in Socket, NEW d, ServeUdp(s, w, d)
  PROVE  AccountInv'
<1>0. Counters /\ Loops /\ Connections /\ Balanced(s) /\ SlotsFit(s)
  BY DEF AccountInv
<1>1. tcp_slots' = tcp_slots /\ conn' = conn /\ sending[s][w] = <<>>
  BY DEF ServeUdp, tcpVars
<1>2. Connections'
  BY <1>0, <1>1 DEF Connections
<1>3. \A t : Held(t)' = Held(t) /\ Answering(t)' = Answering(t)
  BY <1>1, ConnKeepsSets
<1>4. SlotsFit(s)'
  BY <1>0, <1>1, <1>3 DEF SlotsFit
<1>5. /\ metrics \in [Server -> [Metric -> Nat]] /\ tcp_slots \in [Server -> Nat]
      /\ silent \in [Server -> [{"handed", "failed", "answered"} -> Nat]]
  BY <1>0 DEF Counters
<1>6. Cardinality(Busy(s)) \in Nat /\ Cardinality(Answering(s)) \in Nat
  BY CountedSets
<1>7. /\ metrics[s].requests \in Nat /\ metrics[s].responses \in Nat
      /\ metrics[s].errors \in Nat /\ silent[s].answered \in Nat
      /\ silent[s].handed \in Nat /\ silent[s].failed \in Nat /\ tcp_slots[s] \in Nat
  BY <1>0, CountersAreNumbers
<1>8. Cardinality(Answering(s))' = Cardinality(Answering(s))
  BY <1>3
<1>d. CASE metrics' = Count(s, {"dropped"}) /\ sending' = sending /\ silent' = silent
  <2>1. /\ metrics' \in [Server -> [Metric -> Nat]]
        /\ \A t \in Server : t # s => metrics'[t] = metrics[t]
        /\ metrics'[s].requests = metrics[s].requests
        /\ metrics'[s].responses = metrics[s].responses
        /\ metrics'[s].errors = metrics[s].errors
    BY <1>0, <1>d, CountedOther
  <2>1n. /\ metrics'[s].requests = metrics[s].requests
         /\ metrics'[s].responses = metrics[s].responses
         /\ metrics'[s].errors = metrics[s].errors
    BY <2>1
  <2>2. \A t : Busy(t)' = Busy(t)
    BY <1>d DEF Busy
  <2>3. Cardinality(Busy(s))' = Cardinality(Busy(s))
    BY <2>2
  <2>4. Balanced(s)'
    BY <1>0, <1>8, <1>d, <2>1n, <2>3 DEF Balanced
  <2>5. OthersRest(s)
    BY <1>1, <1>3, <1>d, <2>1, <2>2 DEF OthersRest
  <2>6. Counters' /\ Loops'
    <3>1. Counters'
      BY <1>1, <1>5, <1>d, <2>1 DEF Counters
    <3>2. Loops'
      BY <1>0, <1>d DEF Loops
    <3> QED BY <3>1, <3>2
  <2> QED BY <1>2, <1>4, <2>4, <2>5, <2>6, Rebalanced
<1>r. ASSUME NEW fields \in {{}, {"change_requests"}}, NEW v, v # <<>>,
             metrics' = Count(s, {"requests"} \cup fields),
             sending' = [sending EXCEPT ![s][w] = v], silent' = silent
      PROVE  AccountInv'
  <2>1. /\ metrics' \in [Server -> [Metric -> Nat]]
        /\ \A t \in Server : t # s => metrics'[t] = metrics[t]
        /\ metrics'[s].requests = metrics[s].requests + 1
        /\ metrics'[s].responses = metrics[s].responses
        /\ metrics'[s].errors = metrics[s].errors
    BY <1>0, <1>r, CountedRequest
  <2>1n. /\ metrics'[s].requests = metrics[s].requests + 1
         /\ metrics'[s].responses = metrics[s].responses
         /\ metrics'[s].errors = metrics[s].errors
    BY <2>1
  <2>3. /\ Loops' /\ Busy(s)' = Busy(s) \cup {w}
        /\ \A t \in Server : t # s => Busy(t)' = Busy(t)
    BY <1>0, <1>r, SendingAt
  <2>4. w \notin Busy(s) /\ IsFiniteSet(Busy(s))
    BY <1>1, CountedSets DEF Busy
  <2>5. Cardinality(Busy(s))' = Cardinality(Busy(s)) + 1
    BY <2>3, <2>4, OneMore
  <2>6. silent'[s] = silent[s]
    BY <1>r
  <2>7. Balanced(s)'
    BY <1>0, <1>6, <1>7, <1>8, <2>1n, <2>5, <2>6 DEF Balanced
  <2>8. OthersRest(s)
    BY <1>1, <1>3, <1>r, <2>1, <2>3 DEF OthersRest
  <2>9. Counters'
    BY <1>1, <1>5, <1>r, <2>1 DEF Counters
  <2> QED BY <1>2, <1>4, <2>3, <2>7, <2>8, <2>9, Rebalanced
<1>h. ASSUME NEW fields \in {{}, {"change_requests"}},
             metrics' = Count(s, {"requests"} \cup fields),
             sending' = sending, silent' = [silent EXCEPT ![s].handed = @ + 1]
      PROVE  AccountInv'
  <2>1. /\ metrics' \in [Server -> [Metric -> Nat]]
        /\ \A t \in Server : t # s => metrics'[t] = metrics[t]
        /\ metrics'[s].requests = metrics[s].requests + 1
        /\ metrics'[s].responses = metrics[s].responses
        /\ metrics'[s].errors = metrics[s].errors
    BY <1>0, <1>h, CountedRequest
  <2>1n. /\ metrics'[s].requests = metrics[s].requests + 1
         /\ metrics'[s].responses = metrics[s].responses
         /\ metrics'[s].errors = metrics[s].errors
    BY <2>1
  <2>2. \A t : Busy(t)' = Busy(t)
    BY <1>h DEF Busy
  <2>3. Cardinality(Busy(s))' = Cardinality(Busy(s))
    BY <2>2
  <2>4. /\ silent'[s].handed = silent[s].handed + 1
        /\ silent'[s].failed = silent[s].failed /\ silent'[s].answered = silent[s].answered
    BY <1>5, <1>h
  <2>u. silent' \in [Server -> [{"handed", "failed", "answered"} -> Nat]]
    BY <1>5, <1>7, <1>h
  <2>t. \A t \in Server : t # s => silent'[t] = silent[t]
    BY <1>5, <1>h
  <2>5. Balanced(s)'
    BY <1>0, <1>6, <1>7, <1>8, <2>1n, <2>3, <2>4 DEF Balanced
  <2>6. OthersRest(s)
    BY <1>1, <1>3, <2>1, <2>2, <2>t DEF OthersRest
  <2>7. Counters' /\ Loops'
    <3>1. Counters'
      BY <1>1, <1>5, <2>1, <2>u DEF Counters
    <3>2. Loops'
      BY <1>0, <1>h DEF Loops
    <3> QED BY <3>1, <3>2
  <2> QED BY <1>2, <1>4, <2>5, <2>6, <2>7, Rebalanced
<1>e. ASSUME NEW fields \in {{}, {"change_requests"}},
             metrics' = Count(s, {"requests"} \cup fields),
             \/ (\E v : v # <<>> /\ sending' = [sending EXCEPT ![s][w] = v]) /\ silent' = silent
             \/ sending' = sending /\ silent' = [silent EXCEPT ![s].handed = @ + 1]
      PROVE  AccountInv'
  BY <1>r, <1>h, <1>e, Zenon
<1> QED
  BY <1>d, <1>e, ServeUdpCases, Zenon

LEMMA SendReplyBalances ==
  ASSUME AccountInv, NEW s \in Server, NEW w \in Socket, SendReply(s, w)
  PROVE  AccountInv'
<1>0. Counters /\ Loops /\ Connections /\ Balanced(s) /\ SlotsFit(s)
  BY DEF AccountInv
<1>1. /\ tcp_slots' = tcp_slots /\ conn' = conn /\ sending[s][w] # <<>>
      /\ sending' = [sending EXCEPT ![s][w] = <<>>]
  BY DEF SendReply, tcpVars
<1>2. Connections'
  BY <1>0, <1>1 DEF Connections
<1>3. \A t : Held(t)' = Held(t) /\ Answering(t)' = Answering(t)
  BY <1>1, ConnKeepsSets
<1>4. SlotsFit(s)'
  BY <1>0, <1>1, <1>3 DEF SlotsFit
<1>5. /\ metrics \in [Server -> [Metric -> Nat]] /\ tcp_slots \in [Server -> Nat]
      /\ silent \in [Server -> [{"handed", "failed", "answered"} -> Nat]]
  BY <1>0 DEF Counters
<1>6. Cardinality(Busy(s)) \in Nat /\ Cardinality(Answering(s)) \in Nat
  BY CountedSets
<1>7. /\ metrics[s].requests \in Nat /\ metrics[s].responses \in Nat
      /\ metrics[s].errors \in Nat /\ silent[s].answered \in Nat
      /\ silent[s].handed \in Nat /\ silent[s].failed \in Nat
  BY <1>0, CountersAreNumbers
<1>8. Cardinality(Answering(s))' = Cardinality(Answering(s))
  BY <1>3
<1>9. /\ Loops' /\ Busy(s)' = Busy(s) \ {w}
      /\ \A t \in Server : t # s => Busy(t)' = Busy(t)
  BY <1>0, <1>1, SendingAt
<1>10. w \in Busy(s) /\ IsFiniteSet(Busy(s))
  BY <1>1, CountedSets DEF Busy
<1>11. Cardinality(Busy(s))' = Cardinality(Busy(s)) - 1
  BY <1>9, <1>10, OneLess
<1>a. CASE (\E b \in {"responses", "errors"} : metrics' = Count(s, {b})) /\ silent' = silent
  <2>1. PICK b \in {"responses", "errors"} : metrics' = Count(s, {b})
    BY <1>a
  <2>2. /\ metrics' \in [Server -> [Metric -> Nat]]
        /\ \A t \in Server : t # s => metrics'[t] = metrics[t]
        /\ metrics'[s].requests = metrics[s].requests
        /\ metrics'[s].responses + metrics'[s].errors =
             metrics[s].responses + metrics[s].errors + 1
    BY <1>0, <2>1, CountedReply
  <2>2n. /\ metrics'[s].requests = metrics[s].requests
         /\ metrics'[s].responses + metrics'[s].errors =
              metrics[s].responses + metrics[s].errors + 1
    BY <2>2
  <2>3. silent'[s] = silent[s]
    BY <1>a
  <2>n. metrics'[s].responses \in Nat /\ metrics'[s].errors \in Nat
    BY <2>2 DEF Metric
  <2>4. Balanced(s)'
    BY <1>0, <1>6, <1>7, <1>8, <1>11, <2>2n, <2>3, <2>n DEF Balanced
  <2>5. OthersRest(s)
    BY <1>1, <1>3, <1>9, <1>a, <2>2 DEF OthersRest
  <2>6. Counters'
    BY <1>1, <1>5, <1>a, <2>2 DEF Counters
  <2> QED BY <1>2, <1>4, <1>9, <2>4, <2>5, <2>6, Rebalanced
<1>b. CASE silent' = [silent EXCEPT ![s].failed = @ + 1] /\ metrics' = metrics
  <2>1. /\ silent'[s].failed = silent[s].failed + 1
        /\ silent'[s].handed = silent[s].handed /\ silent'[s].answered = silent[s].answered
    BY <1>5, <1>b
  <2>2. silent' \in [Server -> [{"handed", "failed", "answered"} -> Nat]]
    BY <1>5, <1>7, <1>b
  <2>3. \A t \in Server : t # s => silent'[t] = silent[t]
    BY <1>5, <1>b
  <2>4. metrics'[s] = metrics[s]
    BY <1>b
  <2>5. Balanced(s)'
    BY <1>0, <1>6, <1>7, <1>8, <1>11, <2>1, <2>4 DEF Balanced
  <2>6. OthersRest(s)
    BY <1>1, <1>3, <1>9, <1>b, <2>3 DEF OthersRest
  <2>7. Counters'
    BY <1>1, <1>5, <1>b, <2>2 DEF Counters
  <2> QED BY <1>2, <1>4, <1>9, <2>5, <2>6, <2>7, Rebalanced
<1> QED BY <1>a, <1>b DEF SendReply

LEMMA AnswerForBalances ==
  ASSUME AccountInv, NEW e, answer_for(e)
  PROVE  AccountInv'
<1> DEFINE s == e.to
<1>1. /\ tcp_slots' = tcp_slots /\ conn' = conn /\ sending' = sending
      /\ metrics' = Count(s, {"responses"}) /\ silent' = [silent EXCEPT ![s].answered = @ + 1]
  BY DEF answer_for, tcpVars
<1> HIDE DEF s
<1>2. Counters /\ Loops /\ Connections
  BY DEF AccountInv
<1>3. Connections' /\ Loops'
  BY <1>1, <1>2 DEF Connections, Loops
<1>4. \A t : Held(t)' = Held(t) /\ Answering(t)' = Answering(t) /\ Busy(t)' = Busy(t)
  BY <1>1, ConnKeepsSets DEF Busy
<1>5. /\ metrics \in [Server -> [Metric -> Nat]] /\ tcp_slots \in [Server -> Nat]
      /\ silent \in [Server -> [{"handed", "failed", "answered"} -> Nat]]
  BY <1>2 DEF Counters
<1>6. /\ metrics' \in [Server -> [Metric -> Nat]]
      /\ \A t \in Server : t # s => metrics'[t] = metrics[t]
  BY <1>1, <1>2, CountAdds
<1>7. \A t \in Server : t # s => silent'[t] = silent[t]
  BY <1>1, <1>5
<1>8. OthersRest(s)
  BY <1>1, <1>4, <1>6, <1>7 DEF OthersRest
<1>9. silent' \in [Server -> [{"handed", "failed", "answered"} -> Nat]]
  <2>1. CASE s \in Server
    <3>1. silent[s].answered \in Nat
      BY <1>2, <2>1, CountersAreNumbers
    <3> QED BY <1>1, <1>5, <2>1, <3>1
  <2>2. CASE s \notin Server
    <3>1. silent' = silent
      BY <1>1, <1>5, <2>2
    <3> QED BY <1>5, <3>1
  <2> QED BY <2>1, <2>2
<1>10. Counters'
  BY <1>1, <1>5, <1>6, <1>9 DEF Counters
<1>11. ASSUME s \in Server PROVE Balanced(s)' /\ SlotsFit(s)'
  <2>0. Balanced(s) /\ SlotsFit(s)
    BY <1>11 DEF AccountInv
  <2>1. /\ metrics'[s].requests = metrics[s].requests
        /\ metrics'[s].responses + metrics'[s].errors =
             metrics[s].responses + metrics[s].errors + 1
    BY <1>1, <1>2, <1>11, CountedReply
  <2>2. /\ silent'[s].answered = silent[s].answered + 1
        /\ silent'[s].handed = silent[s].handed /\ silent'[s].failed = silent[s].failed
    BY <1>1, <1>5, <1>11
  <2>3. /\ metrics[s].requests \in Nat /\ metrics[s].responses \in Nat
        /\ metrics[s].errors \in Nat /\ silent[s].answered \in Nat
        /\ silent[s].handed \in Nat /\ silent[s].failed \in Nat
    BY <1>2, <1>11, CountersAreNumbers
  <2>4. metrics'[s].responses \in Nat /\ metrics'[s].errors \in Nat
    BY <1>6, <1>11 DEF Metric
  <2>5. Cardinality(Busy(s)) \in Nat /\ Cardinality(Answering(s)) \in Nat
    BY <1>11, CountedSets
  <2>6. /\ Cardinality(Busy(s))' = Cardinality(Busy(s))
        /\ Cardinality(Answering(s))' = Cardinality(Answering(s))
    BY <1>4
  <2>7. Balanced(s)'
    BY <2>0, <2>1, <2>2, <2>3, <2>4, <2>5, <2>6 DEF Balanced
  <2>8. SlotsFit(s)'
    BY <1>1, <1>4, <2>0 DEF SlotsFit
  <2> QED BY <2>7, <2>8
<1> QED BY <1>3, <1>8, <1>10, <1>11, Rebalanced

LEMMA SocketFailsBalances ==
  ASSUME AccountInv, NEW s \in Server, SocketFails(s)
  PROVE  AccountInv'
<1>0. Counters /\ Loops /\ Connections /\ Balanced(s) /\ SlotsFit(s)
  BY DEF AccountInv
<1>1. /\ tcp_slots' = tcp_slots /\ conn' = conn /\ metrics' = metrics
      /\ sending' = [sending EXCEPT ![s] = [w \in Socket |-> <<>>]]
      /\ silent' = [silent EXCEPT ![s].failed = @ + Cardinality(Busy(s))]
  BY DEF SocketFails, tcpVars, Busy
<1>2. Connections'
  BY <1>0, <1>1 DEF Connections
<1>3. \A t : Held(t)' = Held(t) /\ Answering(t)' = Answering(t)
  BY <1>1, ConnKeepsSets
<1>4. SlotsFit(s)'
  BY <1>0, <1>1, <1>3 DEF SlotsFit
<1>5. silent \in [Server -> [{"handed", "failed", "answered"} -> Nat]]
  BY <1>0 DEF Counters
<1>6. Cardinality(Busy(s)) \in Nat /\ Cardinality(Answering(s)) \in Nat
  BY CountedSets
<1>7. /\ metrics[s].requests \in Nat /\ metrics[s].responses \in Nat
      /\ metrics[s].errors \in Nat /\ silent[s].answered \in Nat
      /\ silent[s].handed \in Nat /\ silent[s].failed \in Nat
  BY <1>0, CountersAreNumbers
<1>8. Cardinality(Answering(s))' = Cardinality(Answering(s))
  BY <1>3
<1>9. Loops' /\ Busy(s)' = {} /\ \A t \in Server : t # s => Busy(t)' = Busy(t)
  <2>1. sending = [t \in Server |-> [x \in Socket |-> sending[t][x]]]
    BY <1>0 DEF Loops
  <2>2. sending'[s] = [w \in Socket |-> <<>>] /\ \A t \in Server : t # s => sending'[t] = sending[t]
    BY <1>1, <2>1
  <2>3. Loops'
    BY <1>1, <2>1 DEF Loops
  <2> QED BY <2>2, <2>3 DEF Busy
<1>10. Cardinality(Busy(s))' = 0
  BY <1>9, FS_EmptySet
<1>11. /\ silent'[s].failed = silent[s].failed + Cardinality(Busy(s))
       /\ silent'[s].handed = silent[s].handed /\ silent'[s].answered = silent[s].answered
  BY <1>1, <1>5
<1>12. silent' \in [Server -> [{"handed", "failed", "answered"} -> Nat]]
  BY <1>1, <1>5, <1>6, <1>7
<1>13. \A t \in Server : t # s => silent'[t] = silent[t]
  BY <1>1, <1>5
<1>14. metrics'[s] = metrics[s]
  BY <1>1
<1>15. Balanced(s)'
  BY <1>0, <1>6, <1>7, <1>8, <1>10, <1>11, <1>14 DEF Balanced
<1>16. OthersRest(s)
  BY <1>1, <1>3, <1>9, <1>13 DEF OthersRest
<1>17. Counters'
  BY <1>0, <1>1, <1>12 DEF Counters
<1> QED BY <1>2, <1>4, <1>9, <1>15, <1>16, <1>17, Rebalanced

-----------------------------------------------------------------------------
(* TCP. *)

(* A connection that changes its state joins or leaves the counted sets.   *)
LEMMA ConnectionMoves ==
  ASSUME Connections, NEW c \in Conn, NEW k, IsConnection(k), conn' = [conn EXCEPT ![c] = k]
  PROVE  /\ Connections'
         /\ \A t \in Server : t # server_of[c] =>
              Held(t)' = Held(t) /\ Answering(t)' = Answering(t)
         /\ Held(server_of[c])' = IF k.pc \in {"reading", "replying"}
                                  THEN Held(server_of[c]) \cup {c} ELSE Held(server_of[c]) \ {c}
         /\ Answering(server_of[c])' = IF k.pc = "replying"
                                       THEN Answering(server_of[c]) \cup {c}
                                       ELSE Answering(server_of[c]) \ {c}
<1>1. conn = [b \in Conn |-> conn[b]] /\ \A b \in Conn : IsConnection(conn[b])
  BY DEF Connections
<1>2. conn'[c] = k /\ \A b \in Conn : b # c => conn'[b] = conn[b]
  BY <1>1
<1>3. conn' = [b \in Conn |-> conn'[b]]
  BY <1>1
<1>4. \A b \in Conn : IsConnection(conn'[b])
  BY <1>1, <1>2
<1>5. Connections'
  BY <1>3, <1>4 DEF Connections, IsConnection
<1>6. \A t \in Server : t # server_of[c] => Held(t)' = Held(t)
  BY <1>2 DEF Held
<1>7. \A t \in Server : t # server_of[c] => Answering(t)' = Answering(t)
  BY <1>2, <1>6 DEF Answering, Held
<1>8. Held(server_of[c])' = IF k.pc \in {"reading", "replying"}
                           THEN Held(server_of[c]) \cup {c} ELSE Held(server_of[c]) \ {c}
  BY <1>2 DEF Held
<1>9. Answering(server_of[c])' = IF k.pc = "replying"
                                THEN Answering(server_of[c]) \cup {c}
                                ELSE Answering(server_of[c]) \ {c}
  BY <1>2 DEF Answering, Held
<1> QED BY <1>5, <1>6, <1>7, <1>8, <1>9

(* The fields the actions change leave it a connection. *)
LEMMA SetPc ==
  ASSUME NEW k, IsConnection(k), NEW u
  PROVE  LET n == [k EXCEPT !.pc = u] IN
         IsConnection(n) /\ n.pc = u /\ n.reply = k.reply /\ n.outbox = k.outbox
  BY DEF IsConnection

LEMMA SetPeer ==
  ASSUME NEW k, IsConnection(k), NEW u
  PROVE  LET n == [k EXCEPT !.peer = u] IN
         IsConnection(n) /\ n.pc = k.pc /\ n.reply = k.reply /\ n.outbox = k.outbox
  BY DEF IsConnection

LEMMA SetInbox ==
  ASSUME NEW k, IsConnection(k), NEW u
  PROVE  LET n == [k EXCEPT !.inbox = u] IN
         IsConnection(n) /\ n.pc = k.pc /\ n.reply = k.reply /\ n.outbox = k.outbox
  BY DEF IsConnection

LEMMA SetReply ==
  ASSUME NEW k, IsConnection(k), NEW u
  PROVE  LET n == [k EXCEPT !.reply = u] IN
         IsConnection(n) /\ n.pc = k.pc /\ n.reply = u /\ n.outbox = k.outbox
  BY DEF IsConnection

LEMMA SetOutbox ==
  ASSUME NEW k, IsConnection(k), NEW u
  PROVE  LET n == [k EXCEPT !.outbox = u] IN
         IsConnection(n) /\ n.pc = k.pc /\ n.reply = k.reply /\ n.outbox = u
  BY DEF IsConnection

LEMMA SetAsked ==
  ASSUME NEW k, IsConnection(k), NEW u
  PROVE  LET n == [k EXCEPT !.asked = u] IN
         IsConnection(n) /\ n.pc = k.pc /\ n.reply = k.reply /\ n.outbox = k.outbox
  BY DEF IsConnection

LEMMA ConnectionServed ==
  ASSUME NEW c \in Conn
  PROVE  server_of[c] \in Server
  BY ServerAssumption

LEMMA SendingKeepsBusy ==
  ASSUME sending' = sending, Loops
  PROVE  Loops' /\ \A t : Busy(t)' = Busy(t)
  BY DEF Loops, Busy

(* A client's own steps, and a backlog that is given up: no slot is taken  *)
(* or returned and nothing is being answered that was not.                 *)
LEMMA QuietConnection ==
  ASSUME AccountInv, NEW c \in Conn, NEW k, IsConnection(k), conn' = [conn EXCEPT ![c] = k],
         \/ k.pc = conn[c].pc
         \/ {k.pc, conn[c].pc} \cap {"reading", "replying"} = {},
         tcp_slots' = tcp_slots, sending' = sending, silent' = silent,
         \/ metrics' = metrics
         \/ \E fields : /\ fields \cap {"requests", "responses", "errors"} = {}
                        /\ metrics' = Count(server_of[c], fields)
  PROVE  AccountInv'
<1> DEFINE s == server_of[c]
<1>s. s \in Server
  BY ConnectionServed
<1>0. Counters /\ Loops /\ Connections /\ Balanced(s) /\ SlotsFit(s)
  BY <1>s DEF AccountInv
<1>1. /\ Connections'
      /\ \A t \in Server : t # s => Held(t)' = Held(t) /\ Answering(t)' = Answering(t)
      /\ Held(s)' = IF k.pc \in {"reading", "replying"} THEN Held(s) \cup {c} ELSE Held(s) \ {c}
      /\ Answering(s)' = IF k.pc = "replying" THEN Answering(s) \cup {c}
                         ELSE Answering(s) \ {c}
  BY <1>0, ConnectionMoves
<1>2. Held(s)' = Held(s) /\ Answering(s)' = Answering(s)
  <2>1. CASE k.pc = conn[c].pc
    BY <1>1, <2>1 DEF Held, Answering
  <2>2. CASE {k.pc, conn[c].pc} \cap {"reading", "replying"} = {}
    BY <1>1, <2>2 DEF Held, Answering
  <2> QED BY <2>1, <2>2
<1>3. Loops' /\ \A t : Busy(t)' = Busy(t)
  BY <1>0, SendingKeepsBusy
<1>4. /\ metrics' \in [Server -> [Metric -> Nat]]
      /\ \A t \in Server : t # s => metrics'[t] = metrics[t]
      /\ metrics'[s].requests = metrics[s].requests
      /\ metrics'[s].responses = metrics[s].responses
      /\ metrics'[s].errors = metrics[s].errors
  <2>1. CASE metrics' = metrics
    BY <1>0, <2>1 DEF Counters
  <2>2. CASE \E fields : /\ fields \cap {"requests", "responses", "errors"} = {}
                         /\ metrics' = Count(s, fields)
    <3>1. PICK fields : /\ fields \cap {"requests", "responses", "errors"} = {}
                        /\ metrics' = Count(s, fields)
      BY <2>2
    <3> QED BY <1>0, <1>s, <3>1, CountedOther
  <2> QED BY <2>1, <2>2
<1>4n. /\ metrics'[s].requests = metrics[s].requests
       /\ metrics'[s].responses = metrics[s].responses
       /\ metrics'[s].errors = metrics[s].errors
  BY <1>4
<1>5. /\ Cardinality(Busy(s))' = Cardinality(Busy(s))
      /\ Cardinality(Answering(s))' = Cardinality(Answering(s))
      /\ Cardinality(Held(s))' = Cardinality(Held(s))
  BY <1>2, <1>3
<1>6. Balanced(s)'
  BY <1>0, <1>4n, <1>5 DEF Balanced
<1>7. SlotsFit(s)'
  BY <1>0, <1>5 DEF SlotsFit
<1>8. OthersRest(s)
  BY <1>1, <1>3, <1>4 DEF OthersRest
<1>9. Counters'
  BY <1>0, <1>4 DEF Counters
<1> HIDE DEF s
<1> QED BY <1>1, <1>3, <1>6, <1>7, <1>8, <1>9, Rebalanced

(* What a client does to its connection, and the backlog that is given up. *)
ClientMove(c, k) ==
  /\ IsConnection(k) /\ conn' = [conn EXCEPT ![c] = k]
  /\ \/ k.pc = conn[c].pc
     \/ {k.pc, conn[c].pc} \cap {"reading", "replying"} = {}
  /\ k.reply = conn[c].reply
  /\ \/ k.outbox = conn[c].outbox
     \/ conn[c].outbox # <<>> /\ k.outbox = Tail(conn[c].outbox)

LEMMA ClientMoves ==
  ASSUME Connections, NEW c \in Conn,
         \/ Connect(c) \/ (\E m : Say(c, m)) \/ TakeReply(c) \/ HangUp(c) \/ AcceptFails(c)
  PROVE  \E k : ClientMove(c, k)
<1>1. IsConnection(conn[c])
  BY DEF Connections
<1>2. CASE Connect(c)
  <2> DEFINE k == [conn[c] EXCEPT !.pc = "backlog"]
  <2>1. IsConnection(k) /\ k.pc = "backlog" /\ k.reply = conn[c].reply /\ k.outbox = conn[c].outbox
    BY <1>1, SetPc
  <2>2. conn' = [conn EXCEPT ![c] = k] /\ conn[c].pc = "none"
    BY <1>2 DEF Connect
  <2> HIDE DEF k
  <2>3. {k.pc, conn[c].pc} \cap {"reading", "replying"} = {}
    BY <2>1, <2>2
  <2> QED BY <2>1, <2>2, <2>3 DEF ClientMove
<1>3. CASE \E m : Say(c, m)
  <2>1. PICK m : Say(c, m)
    BY <1>3
  <2> DEFINE k1 == [conn[c] EXCEPT !.inbox = Append(conn[c].inbox, m)]
             k == [k1 EXCEPT !.asked = conn[c].asked + 1]
  <2>2. IsConnection(k1) /\ k1.pc = conn[c].pc /\ k1.reply = conn[c].reply /\ k1.outbox = conn[c].outbox
    BY <1>1, SetInbox
  <2>3. conn' = [conn EXCEPT ![c] = k]
    BY <2>1, Zenon DEF Say
  <2> HIDE DEF k1
  <2>4. IsConnection(k) /\ k.pc = conn[c].pc /\ k.reply = conn[c].reply /\ k.outbox = conn[c].outbox
    BY <2>2, SetAsked
  <2> HIDE DEF k
  <2> QED BY <2>3, <2>4 DEF ClientMove
<1>4. CASE TakeReply(c)
  <2> DEFINE k == [conn[c] EXCEPT !.outbox = Tail(conn[c].outbox)]
  <2>1. IsConnection(k) /\ k.pc = conn[c].pc /\ k.reply = conn[c].reply /\ k.outbox = Tail(conn[c].outbox)
    BY <1>1, SetOutbox
  <2>2. conn' = [conn EXCEPT ![c] = k] /\ conn[c].outbox # <<>>
    BY <1>4 DEF TakeReply
  <2> HIDE DEF k
  <2> QED BY <2>1, <2>2 DEF ClientMove
<1>5. CASE HangUp(c)
  <2> DEFINE k == [conn[c] EXCEPT !.peer = "closed"]
  <2>1. IsConnection(k) /\ k.pc = conn[c].pc /\ k.reply = conn[c].reply /\ k.outbox = conn[c].outbox
    BY <1>1, SetPeer
  <2>2. conn' = [conn EXCEPT ![c] = k]
    BY <1>5 DEF HangUp
  <2> HIDE DEF k
  <2> QED BY <2>1, <2>2 DEF ClientMove
<1>6. CASE AcceptFails(c)
  <2> DEFINE k == [conn[c] EXCEPT !.pc = "gone"]
  <2>1. IsConnection(k) /\ k.pc = "gone" /\ k.reply = conn[c].reply /\ k.outbox = conn[c].outbox
    BY <1>1, SetPc
  <2>2. conn' = [conn EXCEPT ![c] = k] /\ conn[c].pc = "backlog"
    BY <1>6 DEF AcceptFails
  <2> HIDE DEF k
  <2>3. {k.pc, conn[c].pc} \cap {"reading", "replying"} = {}
    BY <2>1, <2>2
  <2> QED BY <2>1, <2>2, <2>3 DEF ClientMove
<1> QED BY <1>2, <1>3, <1>4, <1>5, <1>6

LEMMA ClientBalances ==
  ASSUME AccountInv, NEW c \in Conn,
         \/ Connect(c) \/ (\E m : Say(c, m)) \/ TakeReply(c) \/ HangUp(c) \/ AcceptFails(c)
  PROVE  AccountInv'
<1>1. PICK k : ClientMove(c, k)
  BY ClientMoves DEF AccountInv
<1>2. /\ tcp_slots' = tcp_slots /\ sending' = sending
      /\ silent' = silent /\ metrics' = metrics
  BY DEF Connect, Say, TakeReply, HangUp, AcceptFails, udpVars
<1>3. /\ IsConnection(k) /\ conn' = [conn EXCEPT ![c] = k]
      /\ k.pc = conn[c].pc \/ {k.pc, conn[c].pc} \cap {"reading", "replying"} = {}
  BY <1>1 DEF ClientMove
<1> QED BY <1>2, <1>3, QuietConnection

(* A connection ends: its slot goes back. *)
LEMMA ReturnMoves ==
  ASSUME AccountInv, NEW c \in Conn, Return(c), conn[c].pc \in {"reading", "replying"},
         sending' = sending
  PROVE  LET s == server_of[c] IN
         /\ Connections' /\ Loops' /\ SlotsFit(s)'
         /\ tcp_slots' \in [Server -> Nat]
         /\ Busy(s)' = Busy(s) /\ Answering(s)' = Answering(s) \ {c}
         /\ \A t \in Server : t # s =>
              /\ tcp_slots'[t] = tcp_slots[t]
              /\ Held(t)' = Held(t) /\ Answering(t)' = Answering(t) /\ Busy(t)' = Busy(t)
<1> DEFINE s == server_of[c]
           k == [conn[c] EXCEPT !.pc = "gone"]
<1>s. s \in Server
  BY ConnectionServed
<1>0. Counters /\ Loops /\ Connections /\ SlotsFit(s) /\ IsConnection(conn[c])
  BY <1>s DEF AccountInv, Connections
<1>1. IsConnection(k) /\ k.pc = "gone"
  BY <1>0, SetPc, SetPeer, SetOutbox
<1>2. conn' = [conn EXCEPT ![c] = k] /\ tcp_slots' = [tcp_slots EXCEPT ![s] = @ + 1]
  BY DEF Return
<1> HIDE DEF k
<1>3. /\ Connections'
      /\ \A t \in Server : t # s => Held(t)' = Held(t) /\ Answering(t)' = Answering(t)
      /\ Held(s)' = Held(s) \ {c} /\ Answering(s)' = Answering(s) \ {c}
  BY <1>0, <1>1, <1>2, ConnectionMoves
<1>4. c \in Held(s) /\ IsFiniteSet(Held(s)) /\ Cardinality(Held(s)) \in Nat
  BY <1>s, CountedSets DEF Held
<1>5. Cardinality(Held(s))' = Cardinality(Held(s)) - 1
  BY <1>3, <1>4, OneLess
<1>6. tcp_slots[s] \in Nat
  BY <1>0, <1>s, CountersAreNumbers
<1>t. tcp_slots \in [Server -> Nat]
  BY <1>0 DEF Counters
<1>7. /\ tcp_slots'[s] = tcp_slots[s] + 1 /\ tcp_slots' \in [Server -> Nat]
      /\ \A t \in Server : t # s => tcp_slots'[t] = tcp_slots[t]
  BY <1>2, <1>6, <1>s, <1>t
<1>8. SlotsFit(s)'
  BY <1>0, <1>4, <1>5, <1>6, <1>7 DEF SlotsFit
<1>9. Loops' /\ \A t : Busy(t)' = Busy(t)
  BY <1>0, SendingKeepsBusy
<1> QED BY <1>3, <1>7, <1>8, <1>9

(* A connection that is read from ends without an answer. *)
LEMMA ReturnBalances ==
  ASSUME AccountInv, NEW c \in Conn, Return(c), conn[c].pc = "reading",
         sending' = sending, silent' = silent,
         \/ metrics' = metrics
         \/ \E fields : /\ fields \cap {"requests", "responses", "errors"} = {}
                        /\ metrics' = Count(server_of[c], fields)
  PROVE  AccountInv'
<1> DEFINE s == server_of[c]
<1>s. s \in Server
  BY ConnectionServed
<1>0. Counters /\ Balanced(s)
  BY <1>s DEF AccountInv
<1>1. /\ Connections' /\ Loops' /\ SlotsFit(s)'
      /\ tcp_slots' \in [Server -> Nat]
      /\ Busy(s)' = Busy(s) /\ Answering(s)' = Answering(s) \ {c}
      /\ \A t \in Server : t # s =>
           /\ tcp_slots'[t] = tcp_slots[t]
           /\ Held(t)' = Held(t) /\ Answering(t)' = Answering(t) /\ Busy(t)' = Busy(t)
  BY ReturnMoves
<1>2. Answering(s)' = Answering(s)
  BY <1>1 DEF Answering
<1>4. /\ metrics' \in [Server -> [Metric -> Nat]]
      /\ \A t \in Server : t # s => metrics'[t] = metrics[t]
      /\ metrics'[s].requests = metrics[s].requests
      /\ metrics'[s].responses = metrics[s].responses
      /\ metrics'[s].errors = metrics[s].errors
  <2>1. CASE metrics' = metrics
    BY <1>0, <2>1 DEF Counters
  <2>2. CASE \E fields : /\ fields \cap {"requests", "responses", "errors"} = {}
                         /\ metrics' = Count(s, fields)
    <3>1. PICK fields : /\ fields \cap {"requests", "responses", "errors"} = {}
                        /\ metrics' = Count(s, fields)
      BY <2>2
    <3> QED BY <1>0, <1>s, <3>1, CountedOther
  <2> QED BY <2>1, <2>2
<1>4n. /\ metrics'[s].requests = metrics[s].requests
       /\ metrics'[s].responses = metrics[s].responses
       /\ metrics'[s].errors = metrics[s].errors
  BY <1>4
<1>5. /\ Cardinality(Busy(s))' = Cardinality(Busy(s))
      /\ Cardinality(Answering(s))' = Cardinality(Answering(s))
  BY <1>1, <1>2
<1>6. Balanced(s)'
  BY <1>0, <1>4n, <1>5 DEF Balanced
<1>7. OthersRest(s)
  BY <1>1, <1>4 DEF OthersRest
<1>8. Counters'
  BY <1>0, <1>1, <1>4 DEF Counters
<1> HIDE DEF s
<1> QED BY <1>1, <1>6, <1>7, <1>8, Rebalanced

LEMMA AcceptBalances ==
  ASSUME AccountInv, NEW c \in Conn, Accept(c)
  PROVE  AccountInv'
<1> DEFINE s == server_of[c]
<1>s. s \in Server
  BY ConnectionServed
<1>0. Counters /\ Loops /\ Connections /\ Balanced(s) /\ SlotsFit(s) /\ IsConnection(conn[c])
  BY <1>s DEF AccountInv, Connections
<1>1. conn[c].pc = "backlog" /\ sending' = sending /\ silent' = silent
  BY DEF Accept, udpVars
<1>a. CASE tcp_slots[s] > 0
  <2> DEFINE k == [conn[c] EXCEPT !.pc = "reading"]
  <2>1. IsConnection(k) /\ k.pc = "reading"
    BY <1>0, SetPc, SetPeer, SetOutbox
  <2>2. /\ conn' = [conn EXCEPT ![c] = k] /\ tcp_slots' = [tcp_slots EXCEPT ![s] = @ - 1]
        /\ metrics' = Count(s, {"tcp_connections"})
    BY <1>a DEF Accept
  <2> HIDE DEF k
  <2>3. /\ Connections'
        /\ \A t \in Server : t # s => Held(t)' = Held(t) /\ Answering(t)' = Answering(t)
        /\ Held(s)' = Held(s) \cup {c} /\ Answering(s)' = Answering(s) \ {c}
    <3>1. /\ Connections'
          /\ \A t \in Server : t # s => Held(t)' = Held(t) /\ Answering(t)' = Answering(t)
          /\ Held(s)' = IF k.pc \in {"reading", "replying"} THEN Held(s) \cup {c} ELSE Held(s) \ {c}
          /\ Answering(s)' = IF k.pc = "replying" THEN Answering(s) \cup {c}
                             ELSE Answering(s) \ {c}
      BY <1>0, <2>1, <2>2, ConnectionMoves
    <3>2. k.pc \in {"reading", "replying"} /\ k.pc # "replying"
      BY <2>1
    <3> QED BY <3>1, <3>2
  <2>4. /\ c \notin Held(s) /\ IsFiniteSet(Held(s)) /\ Cardinality(Held(s)) \in Nat
        /\ c \notin Answering(s)
    BY <1>s, <1>1, CountedSets DEF Held, Answering
  <2>5. Cardinality(Held(s))' = Cardinality(Held(s)) + 1
    BY <2>3, <2>4, OneMore
  <2>6. tcp_slots[s] \in Nat
    BY <1>0, <1>s, CountersAreNumbers
  <2>t. tcp_slots \in [Server -> Nat]
    BY <1>0 DEF Counters
  <2>p. tcp_slots[s] - 1 \in Nat
    BY <1>a, <2>6
  <2>7. /\ tcp_slots'[s] = tcp_slots[s] - 1 /\ tcp_slots' \in [Server -> Nat]
        /\ \A t \in Server : t # s => tcp_slots'[t] = tcp_slots[t]
    BY <2>2, <2>p, <1>s, <2>t
  <2>8. SlotsFit(s)'
    BY <1>0, <2>4, <2>5, <2>6, <2>7 DEF SlotsFit
  <2>9. Loops' /\ \A t : Busy(t)' = Busy(t)
    BY <1>0, <1>1, SendingKeepsBusy
  <2>10. /\ metrics' \in [Server -> [Metric -> Nat]]
         /\ \A t \in Server : t # s => metrics'[t] = metrics[t]
         /\ metrics'[s].requests = metrics[s].requests
         /\ metrics'[s].responses = metrics[s].responses
         /\ metrics'[s].errors = metrics[s].errors
    BY <1>0, <1>s, <2>2, CountedOther
  <2>10n. /\ metrics'[s].requests = metrics[s].requests
          /\ metrics'[s].responses = metrics[s].responses
          /\ metrics'[s].errors = metrics[s].errors
    BY <2>10
  <2>11. /\ Cardinality(Busy(s))' = Cardinality(Busy(s))
         /\ Cardinality(Answering(s))' = Cardinality(Answering(s))
    BY <2>3, <2>4, <2>9
  <2>12. Balanced(s)'
    BY <1>0, <1>1, <2>10n, <2>11 DEF Balanced
  <2>13. OthersRest(s)
    BY <1>1, <2>3, <2>7, <2>9, <2>10 DEF OthersRest
  <2>14. Counters'
    BY <1>0, <1>1, <2>7, <2>10 DEF Counters
  <2> HIDE DEF s
  <2> QED BY <2>3, <2>8, <2>9, <2>12, <2>13, <2>14, Rebalanced
<1>b. CASE ~(tcp_slots[s] > 0)
  <2> DEFINE k == [conn[c] EXCEPT !.pc = "gone"]
  <2>1. IsConnection(k) /\ k.pc = "gone"
    BY <1>0, SetPc, SetPeer, SetOutbox
  <2>2. /\ conn' = [conn EXCEPT ![c] = k] /\ tcp_slots' = tcp_slots
        /\ metrics' = Count(s, {"dropped"})
    BY <1>b DEF Accept
  <2>3. {k.pc, conn[c].pc} \cap {"reading", "replying"} = {}
    BY <1>1, <2>1
  <2>4. {"dropped"} \cap {"requests", "responses", "errors"} = {}
    OBVIOUS
  <2> HIDE DEF k
  <2> QED BY <1>1, <2>1, <2>2, <2>3, <2>4, QuietConnection
<1> QED BY <1>a, <1>b

LEMMA EndsBalance ==
  ASSUME AccountInv, NEW c \in Conn, Eof(c) \/ Idle(c)
  PROVE  AccountInv'
<1>1. /\ Return(c) /\ conn[c].pc = "reading"
      /\ sending' = sending /\ silent' = silent /\ metrics' = metrics
  BY DEF Eof, Idle, udpVars
<1> QED BY <1>1, ReturnBalances

(* A request is read, or something that is not one and ends the connection. *)
LEMMA ServeTcpBalances ==
  ASSUME AccountInv, NEW c \in Conn, ServeTcp(c)
  PROVE  AccountInv'
<1> DEFINE s == server_of[c]
           m == Head(conn[c].inbox)
           rfc == decode_rfc5780(m)
           change == rfc.ok /\ rfc.change_request \notin {None, NONE}
           extra == IF change THEN {"change_requests"} ELSE {}
<1>s. s \in Server
  BY ConnectionServed
<1>0. Counters /\ Loops /\ Connections /\ Balanced(s) /\ SlotsFit(s) /\ IsConnection(conn[c])
  BY <1>s DEF AccountInv, Connections
<1>1. conn[c].pc = "reading" /\ sending' = sending /\ silent' = silent
  BY DEF ServeTcp, udpVars
<1>a. CASE decode(m).is = "request"
  <2>1. \E r : /\ conn' = [conn EXCEPT ![c].pc = "replying", ![c].reply = r, ![c].inbox = Tail(@)]
               /\ tcp_slots' = tcp_slots
    BY <1>a DEF ServeTcp
  <2>2. metrics' = Count(s, {"requests"} \cup extra)
    BY <1>a DEF ServeTcp
  <2>3. PICK r : /\ conn' = [conn EXCEPT ![c].pc = "replying", ![c].reply = r, ![c].inbox = Tail(@)]
                 /\ tcp_slots' = tcp_slots
    BY <2>1
  <2> DEFINE k1 == [conn[c] EXCEPT !.pc = "replying"]
             k2 == [k1 EXCEPT !.reply = r]
             k == [k2 EXCEPT !.inbox = Tail(conn[c].inbox)]
  <2>k. IsConnection(k1) /\ k1.pc = "replying"
    BY <1>0, SetPc
  <2>l. conn' = [conn EXCEPT ![c] = k]
    BY <2>3, Zenon
  <2> HIDE DEF k1
  <2>m. IsConnection(k2) /\ k2.pc = "replying"
    BY <2>k, SetReply
  <2> HIDE DEF k2
  <2>4. IsConnection(k) /\ k.pc = "replying"
    BY <2>m, SetInbox
  <2>5. conn' = [conn EXCEPT ![c] = k]
    BY <2>l
  <2>6. extra \cap {"requests", "responses", "errors"} = {}
    OBVIOUS
  <2> HIDE DEF k, extra
  <2>7. /\ Connections'
        /\ \A t \in Server : t # s => Held(t)' = Held(t) /\ Answering(t)' = Answering(t)
        /\ Held(s)' = Held(s) \cup {c} /\ Answering(s)' = Answering(s) \cup {c}
    BY <1>0, <2>4, <2>5, ConnectionMoves
  <2>8. c \in Held(s) /\ c \notin Answering(s)
    BY <1>s, <1>1 DEF Held, Answering
  <2>c. IsFiniteSet(Answering(s)) /\ Cardinality(Answering(s)) \in Nat /\ Cardinality(Busy(s)) \in Nat
    BY <1>s, CountedSets
  <2>9. Held(s)' = Held(s) /\ Cardinality(Answering(s))' = Cardinality(Answering(s)) + 1
    BY <2>7, <2>8, <2>c, OneMore
  <2>10. Loops' /\ \A t : Busy(t)' = Busy(t)
    BY <1>0, <1>1, SendingKeepsBusy
  <2>11. /\ metrics' \in [Server -> [Metric -> Nat]]
         /\ \A t \in Server : t # s => metrics'[t] = metrics[t]
         /\ metrics'[s].requests = metrics[s].requests + 1
         /\ metrics'[s].responses = metrics[s].responses
         /\ metrics'[s].errors = metrics[s].errors
    BY <1>0, <1>s, <2>2, <2>6, CountedRequest
  <2>11n. /\ metrics'[s].requests = metrics[s].requests + 1
          /\ metrics'[s].responses = metrics[s].responses
          /\ metrics'[s].errors = metrics[s].errors
    BY <2>11
  <2>12. /\ metrics[s].requests \in Nat /\ metrics[s].responses \in Nat
         /\ metrics[s].errors \in Nat /\ silent[s].answered \in Nat
         /\ silent[s].handed \in Nat /\ silent[s].failed \in Nat
    BY <1>0, <1>s, CountersAreNumbers
  <2>13. silent'[s] = silent[s] /\ Cardinality(Busy(s))' = Cardinality(Busy(s))
    BY <1>1, <2>10
  <2>14. Balanced(s)'
    <3> HIDE DEF s
    <3>1. Balanced(s) /\ Cardinality(Answering(s))' = Cardinality(Answering(s)) + 1
      BY <1>0, <2>9
    <3> QED BY <2>c, <2>11n, <2>12, <2>13, <3>1 DEF Balanced
  <2>15. SlotsFit(s)'
    BY <1>0, <2>3, <2>9 DEF SlotsFit
  <2>16. OthersRest(s)
    BY <1>1, <2>3, <2>7, <2>10, <2>11 DEF OthersRest
  <2>17. Counters'
    BY <1>0, <1>1, <2>3, <2>11 DEF Counters
  <2> HIDE DEF s
  <2> QED BY <2>7, <2>10, <2>14, <2>15, <2>16, <2>17, Rebalanced
<1>b. CASE decode(m).is # "request"
  <2>1. metrics' = Count(s, {"dropped"}) /\ Return(c)
    BY <1>b DEF ServeTcp
  <2>2. {"dropped"} \cap {"requests", "responses", "errors"} = {}
    OBVIOUS
  <2> QED BY <1>1, <2>1, <2>2, ReturnBalances
<1> QED BY <1>a, <1>b

LEMMA WriteReplyBalances ==
  ASSUME AccountInv, NEW c \in Conn, WriteReply(c)
  PROVE  AccountInv'
<1> DEFINE s == server_of[c]
<1>s. s \in Server
  BY ConnectionServed
<1>0. Counters /\ Loops /\ Connections /\ Balanced(s) /\ SlotsFit(s) /\ IsConnection(conn[c])
  BY <1>s DEF AccountInv, Connections
<1>1. /\ conn[c].pc = "replying" /\ tcp_slots' = tcp_slots
      /\ sending' = sending /\ silent' = silent
  BY DEF WriteReply, udpVars
<1>2. \E b \in {"responses", "errors"} : metrics' = Count(s, {b})
  BY DEF WriteReply
<1>3. PICK b \in {"responses", "errors"} : metrics' = Count(s, {b})
  BY <1>2
<1> DEFINE k1 == [conn[c] EXCEPT !.pc = "reading"]
           k == [k1 EXCEPT !.outbox = Append(conn[c].outbox, conn[c].reply)]
<1>k. IsConnection(k1) /\ k1.pc = "reading"
  BY <1>0, SetPc
<1>5. conn' = [conn EXCEPT ![c] = k]
  BY Zenon DEF WriteReply
<1> HIDE DEF k1
<1>4. IsConnection(k) /\ k.pc = "reading"
  BY <1>k, SetOutbox
<1> HIDE DEF k
<1>7. /\ Connections'
      /\ \A t \in Server : t # s => Held(t)' = Held(t) /\ Answering(t)' = Answering(t)
      /\ Held(s)' = Held(s) \cup {c} /\ Answering(s)' = Answering(s) \ {c}
  <2>1. /\ Connections'
        /\ \A t \in Server : t # s => Held(t)' = Held(t) /\ Answering(t)' = Answering(t)
        /\ Held(s)' = IF k.pc \in {"reading", "replying"} THEN Held(s) \cup {c} ELSE Held(s) \ {c}
        /\ Answering(s)' = IF k.pc = "replying" THEN Answering(s) \cup {c}
                           ELSE Answering(s) \ {c}
    BY <1>0, <1>4, <1>5, ConnectionMoves
  <2>2. k.pc \in {"reading", "replying"} /\ k.pc # "replying"
    BY <1>4
  <2> QED BY <2>1, <2>2
<1>8. c \in Held(s) /\ c \in Answering(s)
  BY <1>s, <1>1 DEF Held, Answering
<1>c. IsFiniteSet(Answering(s)) /\ Cardinality(Answering(s)) \in Nat /\ Cardinality(Busy(s)) \in Nat
  BY <1>s, CountedSets
<1>9. Held(s)' = Held(s) /\ Cardinality(Answering(s))' = Cardinality(Answering(s)) - 1
  BY <1>7, <1>8, <1>c, OneLess
<1>10. Loops' /\ \A t : Busy(t)' = Busy(t)
  BY <1>0, <1>1, SendingKeepsBusy
<1>11. /\ metrics' \in [Server -> [Metric -> Nat]]
       /\ \A t \in Server : t # s => metrics'[t] = metrics[t]
       /\ metrics'[s].requests = metrics[s].requests
       /\ metrics'[s].responses + metrics'[s].errors =
            metrics[s].responses + metrics[s].errors + 1
  BY <1>0, <1>s, <1>3, CountedReply
<1>11n. /\ metrics'[s].requests = metrics[s].requests
        /\ metrics'[s].responses + metrics'[s].errors =
             metrics[s].responses + metrics[s].errors + 1
  BY <1>11
<1>n. metrics'[s].responses \in Nat /\ metrics'[s].errors \in Nat
  BY <1>s, <1>11 DEF Metric
<1>12. /\ metrics[s].requests \in Nat /\ metrics[s].responses \in Nat
       /\ metrics[s].errors \in Nat /\ silent[s].answered \in Nat
       /\ silent[s].handed \in Nat /\ silent[s].failed \in Nat
  BY <1>0, <1>s, CountersAreNumbers
<1>13. silent'[s] = silent[s] /\ Cardinality(Busy(s))' = Cardinality(Busy(s))
  BY <1>1, <1>10
<1>14. Balanced(s)'
  BY <1>0, <1>c, <1>9, <1>11n, <1>n, <1>12, <1>13 DEF Balanced
<1>15. SlotsFit(s)'
  BY <1>0, <1>1, <1>9 DEF SlotsFit
<1>16. OthersRest(s)
  BY <1>1, <1>7, <1>10, <1>11 DEF OthersRest
<1>17. Counters'
  BY <1>0, <1>1, <1>11 DEF Counters
<1> HIDE DEF s
<1> QED BY <1>7, <1>10, <1>14, <1>15, <1>16, <1>17, Rebalanced

LEMMA WriteFailsBalances ==
  ASSUME AccountInv, NEW c \in Conn, WriteFails(c)
  PROVE  AccountInv'
<1> DEFINE s == server_of[c]
<1>s. s \in Server
  BY ConnectionServed
<1>0. Counters /\ Balanced(s) /\ SlotsFit(s)
  BY <1>s DEF AccountInv
<1>1. /\ conn[c].pc = "replying" /\ Return(c) /\ sending' = sending /\ metrics' = metrics
      /\ silent' = [silent EXCEPT ![s].failed = @ + 1]
  BY DEF WriteFails, udpVars
<1>2. /\ Connections' /\ Loops' /\ SlotsFit(s)'
      /\ tcp_slots' \in [Server -> Nat]
      /\ Busy(s)' = Busy(s) /\ Answering(s)' = Answering(s) \ {c}
      /\ \A t \in Server : t # s =>
           /\ tcp_slots'[t] = tcp_slots[t]
           /\ Held(t)' = Held(t) /\ Answering(t)' = Answering(t) /\ Busy(t)' = Busy(t)
  BY <1>1, ReturnMoves
<1>3. c \in Answering(s)
  BY <1>1 DEF Answering, Held
<1>c. IsFiniteSet(Answering(s)) /\ Cardinality(Answering(s)) \in Nat /\ Cardinality(Busy(s)) \in Nat
  BY <1>s, CountedSets
<1>4. /\ Cardinality(Answering(s))' = Cardinality(Answering(s)) - 1
      /\ Cardinality(Busy(s))' = Cardinality(Busy(s))
  BY <1>2, <1>3, <1>c, OneLess
<1>5. silent \in [Server -> [{"handed", "failed", "answered"} -> Nat]]
  BY <1>0 DEF Counters
<1>6. /\ metrics[s].requests \in Nat /\ metrics[s].responses \in Nat
      /\ metrics[s].errors \in Nat /\ silent[s].answered \in Nat
      /\ silent[s].handed \in Nat /\ silent[s].failed \in Nat
  BY <1>0, <1>s, CountersAreNumbers
<1>7. /\ silent'[s].failed = silent[s].failed + 1
      /\ silent'[s].handed = silent[s].handed /\ silent'[s].answered = silent[s].answered
  BY <1>1, <1>5, <1>s
<1>8. silent' \in [Server -> [{"handed", "failed", "answered"} -> Nat]]
  BY <1>1, <1>5, <1>6, <1>s
<1>9. \A t \in Server : t # s => silent'[t] = silent[t]
  BY <1>1, <1>5
<1>10. metrics'[s] = metrics[s]
  BY <1>1
<1>11. Balanced(s)'
  <2> HIDE DEF s
  <2>1. Balanced(s)
    BY <1>0
  <2> QED BY <1>c, <1>4, <1>6, <1>7, <1>10, <2>1 DEF Balanced
<1>12. OthersRest(s)
  BY <1>1, <1>2, <1>9 DEF OthersRest
<1>13. Counters'
  BY <1>0, <1>1, <1>2, <1>8 DEF Counters
<1> HIDE DEF s
<1> QED BY <1>2, <1>11, <1>12, <1>13, Rebalanced

-----------------------------------------------------------------------------
(* The rest of the specification. *)

LEMMA InitBalances ==
  ASSUME Init PROVE AccountInv
<1>1. InitServer
  BY DEF Init
<1>2. Counters
  BY <1>1, ServerAssumption DEF InitServer, Counters, Metric
<1>3. Loops
  BY <1>1 DEF InitServer, Loops
<1>4. Connections
  BY <1>1 DEF InitServer, Connections, IsConnection
<1>5. ASSUME NEW s \in Server PROVE Balanced(s) /\ SlotsFit(s)
  <2>1. Busy(s) = {}
    BY <1>1 DEF InitServer, Busy
  <2>2. Held(s) = {}
    BY <1>1 DEF InitServer, Held
  <2>3. Answering(s) = {}
    BY <2>2 DEF Answering
  <2>4. Cardinality({}) = 0
    BY FS_EmptySet
  <2>5. /\ metrics[s].requests = 0 /\ metrics[s].responses = 0 /\ metrics[s].errors = 0
        /\ silent[s].handed = 0 /\ silent[s].failed = 0 /\ silent[s].answered = 0
        /\ tcp_slots[s] = MAX_TCP_CONNECTIONS
    BY <1>1 DEF InitServer
  <2>6. Balanced(s)
    BY <2>1, <2>3, <2>4, <2>5 DEF Balanced
  <2>7. SlotsFit(s)
    BY <2>2, <2>4, <2>5, ServerAssumption DEF SlotsFit
  <2> QED BY <2>6, <2>7
<1> QED BY <1>2, <1>3, <1>4, <1>5 DEF AccountInv

(* Steps that touch no account: the NAT, the network, the prober over UDP. *)
LEMMA BooksUnchanged ==
  ASSUME AccountInv, UNCHANGED <<sending, tcp_slots, conn, metrics, silent>>
  PROVE  AccountInv'
<1>1. /\ sending' = sending /\ tcp_slots' = tcp_slots /\ conn' = conn
      /\ metrics' = metrics /\ silent' = silent
  OBVIOUS
<1>2. \A s : Busy(s)' = Busy(s) /\ Held(s)' = Held(s) /\ Answering(s)' = Answering(s)
  BY <1>1, ConnKeepsSets DEF Busy
<1> QED BY <1>1, <1>2
        DEF AccountInv, Counters, Loops, Connections, IsConnection, Balanced, SlotsFit

LEMMA NextBalances ==
  ASSUME AccountInv, [Next]_vars
  PROVE  AccountInv'
<1> USE DEF udpVars, tcpVars
<1>1. ASSUME NEW c \in Conn,
             \/ Connect(c) \/ (\E m : Say(c, m)) \/ TakeReply(c) \/ HangUp(c)
      PROVE  AccountInv'
  BY <1>1, ClientBalances
<1>2. probe_conn \in Conn
  BY ProbeAssumption
<1>3. CASE Prober
  <2>1. CASE SendRequest \/ \E d \in net : Receive(d)
    BY <2>1, BooksUnchanged DEF SendRequest, Receive
  <2>2. CASE ProbeConnects
    BY <1>1, <1>2, <2>2 DEF ProbeConnects
  <2>3. CASE ProbeAsks
    <3>1. Say(probe_conn, encode_binding_request_with(step, NONE)) \/ UNCHANGED serverVars
      BY <2>3 DEF ProbeAsks
    <3>2. CASE UNCHANGED serverVars
      BY <3>2, BooksUnchanged DEF serverVars
    <3> QED BY <1>1, <1>2, <3>1, <3>2
  <2>4. CASE ProbeReads
    BY <1>1, <1>2, <2>4 DEF ProbeReads
  <2>5. CASE ProbeEof
    BY <2>5, BooksUnchanged DEF ProbeEof, serverVars
  <2>6. CASE ProbeLeaves
    BY <1>1, <1>2, <2>6 DEF ProbeLeaves
  <2> QED BY <1>3, <2>1, <2>2, <2>3, <2>4, <2>5, <2>6 DEF Prober
<1>4. CASE Deadlines
  BY <1>4, BooksUnchanged DEF Deadlines, TimeUp, TcpDeadline, serverVars
<1>5. CASE SocketError
  BY <1>5, BooksUnchanged DEF SocketError
<1>12. CASE ProbeBreaks
  BY <1>12, BooksUnchanged DEF ProbeBreaks, serverVars
<1>6. CASE Servers
  <2>1. CASE UdpServers
    BY <2>1, ServeUdpBalances, SendReplyBalances, AnswerForBalances DEF UdpServers
  <2>2. CASE TcpServers
    BY <2>2, AcceptBalances, ServeTcpBalances, EndsBalance, WriteReplyBalances,
       WriteFailsBalances DEF TcpServers
  <2> QED BY <1>6, <2>1, <2>2 DEF Servers
<1>7. CASE Faults
  <2>1. CASE \E d \in net : Lose(d)
    BY <2>1, BooksUnchanged DEF Lose
  <2>2. CASE \E e \in handoffs : DropHandoff(e)
    BY <2>2, BooksUnchanged DEF DropHandoff
  <2>3. CASE \E s \in Server : SocketFails(s)
    BY <2>3, SocketFailsBalances
  <2>4. CASE \E c \in Conn : AcceptFails(c)
    BY <2>4, ClientBalances
  <2> QED BY <1>7, <2>1, <2>2, <2>3, <2>4 DEF Faults
<1>8. CASE \E d \in net : NatDrops(d)
  BY <1>8, BooksUnchanged DEF NatDrops
<1>9. CASE \E d \in Strays : Stray(d)
  BY <1>9, BooksUnchanged DEF Stray
<1>10. CASE \E c \in Conn : OtherClient(c)
  BY <1>1, <1>10 DEF OtherClient
<1>11. CASE UNCHANGED vars
  BY <1>11, BooksUnchanged DEF vars, serverVars
<1> QED BY <1>3, <1>4, <1>5, <1>6, <1>7, <1>8, <1>9, <1>10, <1>11, <1>12 DEF Next

(* For any servers and clients the metrics account for every request and   *)
(* every slot is free or held by one connection that is being served       *)
(* (Inner::send, answer_for, serve_tcp and serve_tcp_connection).          *)
THEOREM EveryRequestAccounted == Spec => []Accounted
<1>1. Init => AccountInv
  BY InitBalances
<1>2. AccountInv /\ [Next]_vars => AccountInv'
  BY NextBalances
<1>3. AccountInv => Accounted
  BY AccountsAreAccounted DEF AccountInv
<1> QED BY <1>1, <1>2, <1>3, PTL DEF Spec

-----------------------------------------------------------------------------
(* What a decoder finds in the messages the servers encode. *)
LEMMA IfPresentAttrs ==
  ASSUME NEW S, NEW attr, NEW value, Attr(attr, value) \in S
  PROVE  IfPresent(attr, value) \in Seq(S)
<1>1. <<>> \in Seq(S)
  BY EmptySeq
<1>2. \A e \in S : <<e>> \in Seq(S)
  OBVIOUS
<1>3. <<Attr(attr, value)>> \in Seq(S)
  BY <1>2
<1> QED BY <1>1, <1>3 DEF IfPresent

LEMMA SuccessAttrs ==
  ASSUME NEW txid, NEW mapped, NEW origin, NEW other
  PROVE  LET attrs == encode_binding_success_with(txid, mapped, origin, other).attrs IN
         /\ 1 \in DOMAIN attrs /\ attrs[1] = Attr("XOR-MAPPED-ADDRESS", mapped)
         /\ \A i \in DOMAIN attrs : attrs[i].attr # "MAPPED-ADDRESS"
         /\ DOMAIN attrs \subseteq Nat \ {0}
<1> DEFINE x == Attr("XOR-MAPPED-ADDRESS", mapped)
           o == IfPresent("RESPONSE-ORIGIN", origin)
           a == IfPresent("OTHER-ADDRESS", other)
           S == {x, Attr("RESPONSE-ORIGIN", origin), Attr("OTHER-ADDRESS", other)}
           attrs == <<x>> \o o \o a
<1>1. encode_binding_success_with(txid, mapped, origin, other).attrs = attrs
  BY DEF encode_binding_success_with, Message
<1>2. <<x>> \in Seq(S) /\ Len(<<x>>) = 1 /\ <<x>>[1] = x
  OBVIOUS
<1>3. o \in Seq(S) /\ a \in Seq(S)
  BY IfPresentAttrs
<1>4. \A s \in S : s.attr # "MAPPED-ADDRESS"
  BY DEF Attr
<1> HIDE DEF x, o, a, S
<1>5. /\ <<x>> \o o \in Seq(S) /\ Len(<<x>> \o o) = 1 + Len(o) /\ Len(o) \in Nat
      /\ (<<x>> \o o)[1] = x
  BY <1>2, <1>3, ConcatProperties, LenProperties
<1>6. /\ attrs \in Seq(S) /\ Len(attrs) = 1 + Len(o) + Len(a) /\ Len(a) \in Nat
      /\ attrs[1] = x
  BY <1>3, <1>5, ConcatProperties, LenProperties
<1>7. DOMAIN attrs = 1..Len(attrs) /\ \A i \in DOMAIN attrs : attrs[i] \in S
  BY <1>6
<1> HIDE DEF attrs
<1>8. 1 \in DOMAIN attrs /\ attrs[1] = x
  BY <1>5, <1>6, <1>7
<1>9. DOMAIN attrs \subseteq Nat \ {0} /\ \A i \in DOMAIN attrs : attrs[i].attr # "MAPPED-ADDRESS"
  BY <1>4, <1>7
<1> QED BY <1>1, <1>8, <1>9 DEF x

LEMMA SuccessIsMapped ==
  ASSUME NEW txid, NEW mapped, NEW origin, NEW other
  PROVE  LET m == encode_binding_success_with(txid, mapped, origin, other) IN
         m.type = "success" /\ m.txid = txid /\ MappedAddress(m) = mapped
<1> DEFINE m == encode_binding_success_with(txid, mapped, origin, other)
           xor == "XOR-MAPPED-ADDRESS"
<1>1. m.type = "success" /\ m.txid = txid
  BY DEF encode_binding_success_with, Message
<1>2. /\ 1 \in DOMAIN m.attrs /\ m.attrs[1] = Attr("XOR-MAPPED-ADDRESS", mapped)
      /\ \A i \in DOMAIN m.attrs : m.attrs[i].attr # "MAPPED-ADDRESS"
      /\ DOMAIN m.attrs \subseteq Nat \ {0}
  BY SuccessAttrs
<1> HIDE DEF m
<1>3. Has(m, xor) /\ First(m, "MAPPED-ADDRESS") = None
  BY <1>2 DEF Has, First, Attr
<1>4. Place(m, xor) = 1
  <2> DEFINE P(i) == m.attrs[i].attr = xor /\ \A j \in 1..(i - 1) : m.attrs[j].attr # xor
  <2>1. m.attrs[1].attr = xor
    BY <1>2 DEF Attr
  <2>2. P(1)
    BY <2>1
  <2>3. \A i \in DOMAIN m.attrs : P(i) => i = 1
    <3>1. ASSUME NEW i \in DOMAIN m.attrs, P(i), i # 1 PROVE FALSE
      <4>1. i \in Nat /\ 1 \in 1..(i - 1)
        BY <1>2, <3>1
      <4> QED BY <2>1, <3>1, <4>1
    <3> QED BY <3>1
  <2>4. Place(m, xor) = CHOOSE i \in DOMAIN m.attrs : P(i)
    BY DEF Place
  <2> HIDE DEF P
  <2> QED BY <1>2, <2>2, <2>3, <2>4
<1>5. First(m, xor) = mapped
  BY <1>2, <1>3, <1>4 DEF First, Attr
<1>6. MappedAddress(m) = mapped
  <2>1. Decodes(First(m, "MAPPED-ADDRESS"))
    BY <1>3, CodecAssumption DEF Decodes
  <2>2. Has(m, "XOR-MAPPED-ADDRESS") /\ First(m, "XOR-MAPPED-ADDRESS") = mapped
    BY <1>3, <1>5
  <2> QED BY <2>1, <2>2, Zenon DEF MappedAddress
<1> QED BY <1>1, <1>6 DEF m

LEMMA DecodedSuccess ==
  ASSUME NEW m, decode(m).is = "success"
  PROVE  m.type = "success" /\ decode(m).mapped = MappedAddress(m)
  BY DEF decode, Decoded

LEMMA DecodedRequest ==
  ASSUME NEW m, decode(m).is = "request"
  PROVE  m.type = "request"
  BY DEF decode, Decoded

-----------------------------------------------------------------------------
(* What the prober learns. *)

TargetOf(i) == IF op = "mapping" THEN targets[i] ELSE targets[1]
Seen(i) == MappedTo(TargetOf(i))
Endpoint == [ip : Server, port : {1, 2}]
Mappable == {MappedTo(t) : t \in Endpoint}

Fixed ==
  /\ op \in {"mapping", "filtering", "tcp"}
  /\ targets \in Seq(Endpoint) /\ Len(targets) > 1
  /\ nat \in [mapping : Mappings, filtering : Filtering]

(* One answer per transaction so far, nobody else contacted. *)
Progress ==
  /\ step \in Nat \ {0}
  /\ pc # "done" => report = None
  /\ op = "filtering" => contacted \subseteq {targets[1]}
  /\ op = "filtering" /\ pc # "done" => step <= 3
  /\ op = "mapping" => probes \in Seq(Mappable)
  /\ op = "mapping" /\ pc # "done" => step <= Len(targets) /\ Len(probes) = step - 1

Honest(m) == m.txid # 0 /\ m.type = "success" => MappedAddress(m) = Seen(m.txid)

IsAnswer(m) == m.type # "request" /\ Honest(m)

(* The mapping seen for one transaction, named by nobody else's, travels   *)
(* as the source of its requests and in the answers to them.               *)
Messages ==
  /\ \A d \in net : Honest(d.msg)
  /\ \A d \in net : d.msg.txid # 0 /\ d.msg.type = "request" => d.src = Seen(d.msg.txid)
  /\ \A s \in Server, w \in Socket : sending[s][w] # <<>> => IsAnswer(sending[s][w][1].msg)
  /\ \A e \in handoffs : e.txid # 0 => e.client = Seen(e.txid)

Truthful(m) == m.type = "success" => MappedAddress(m) = Client(probe_conn)
Replies ==
  /\ conn[probe_conn].pc = "replying" => Truthful(conn[probe_conn].reply)
  /\ \E S : conn[probe_conn].outbox \in Seq(S) /\ \A m \in S : Truthful(m)

(* The inductive invariant of the prober. *)
ProbeInv == Fixed /\ Progress /\ Messages /\ Replies /\ ReportIsTrue

LEMMA SeenStays ==
  ASSUME UNCHANGED <<nat, op, targets>>
  PROVE  /\ \A i : Seen(i)' = Seen(i)
         /\ \A t : MappedTo(t)' = MappedTo(t)
         /\ Mappable' = Mappable
         /\ \A m : Honest(m)' = Honest(m)
<1>1. \A t : MappedTo(t)' = MappedTo(t)
  BY DEF MappedTo
<1>2. \A i : TargetOf(i)' = TargetOf(i)
  BY DEF TargetOf
<1>3. \A i : Seen(i)' = Seen(i)
  BY <1>1, <1>2 DEF Seen
<1>4. Mappable' = Mappable
  BY <1>1 DEF Mappable
<1>5. \A m : Honest(m)' = Honest(m)
  BY <1>3 DEF Honest
<1> QED BY <1>1, <1>3, <1>4, <1>5

-----------------------------------------------------------------------------
(* A classification by what the servers saw is never looser than the NAT.  *)
LEMMA ClassifiedTrue ==
  ASSUME Fixed, NEW found, DOMAIN found = 1..Len(targets),
         \A i \in 1..Len(targets) : found[i] = MappedTo(targets[i])
  PROVE  /\ MappingOf(found) = "Open" => nat.mapping = "none"
         /\ MappingOf(found) # "EndpointDependent" =>
              MappedTo(Address("peer", 1)) = found[1] \/ TooAlike
<1>1. Len(targets) \in Nat /\ 1 \in 1..Len(targets) /\ DOMAIN targets = 1..Len(targets)
  BY LenProperties DEF Fixed
<1>2. nat.mapping \in {"none", "endpoint", "address", "both"}
  BY DEF Fixed, Mappings
<1>3. found[1] = MappedTo(targets[1])
  BY <1>1
<1>4. ASSUME MappingOf(found) # "EndpointDependent"
      PROVE  \A i \in 1..Len(targets) : MappedTo(targets[i]) = MappedTo(targets[1])
  BY <1>1, <1>3, <1>4 DEF MappingOf
<1>5. CASE nat.mapping = "none"
  BY <1>3, <1>5 DEF MappedTo
<1>6. CASE nat.mapping = "endpoint"
  <2>1. found[1] = Address("n", 1) /\ MappedTo(Address("peer", 1)) = Address("n", 1)
    BY <1>3, <1>6 DEF MappedTo
  <2>2. found[1] # local
    BY <2>1 DEF local, Host, Address
  <2> QED BY <2>1, <2>2 DEF MappingOf
<1>7. CASE nat.mapping = "address"
  <2>1. \A t : MappedTo(t) = [ip |-> "n", port |-> t.ip]
    BY <1>7 DEF MappedTo
  <2>2. found[1] # local
    BY <1>3, <2>1 DEF local, Host, Address
  <2>3. MappingOf(found) # "EndpointDependent" => OneHost
    BY <1>1, <1>4, <2>1 DEF OneHost
  <2> QED BY <1>7, <2>2, <2>3 DEF MappingOf, TooAlike
<1>8. CASE nat.mapping = "both"
  <2>1. \A t : MappedTo(t) = [ip |-> "n", port |-> t]
    BY <1>8 DEF MappedTo
  <2>2. found[1] # local
    BY <1>3, <2>1 DEF local, Host, Address
  <2>3. MappingOf(found) # "EndpointDependent" => OneServer
    BY <1>1, <1>4, <2>1 DEF OneServer
  <2> QED BY <1>8, <2>2, <2>3 DEF MappingOf, TooAlike
<1> QED BY <1>2, <1>5, <1>6, <1>7, <1>8

(* A report that is an error, or none, claims nothing. *)
LEMMA NothingClaimed ==
  ASSUME ReportIsTrue, UNCHANGED <<nat, op, targets, probes>>,
         report' = None \/ report'.is # "found"
  PROVE  ReportIsTrue'
<1>1. \A t : MappedTo(t)' = MappedTo(t)
  BY SeenStays
<1>2. \A k : report'.is # "found" => report' # Found(k)
  BY DEF Found
<1>3. (\A i \in DOMAIN probes :
        probes[i] = IF op = "tcp" THEN Client(probe_conn)
                    ELSE MappedTo(IF op = "mapping" THEN targets[i] ELSE targets[1]))'
  BY <1>1 DEF ReportIsTrue
<1> QED BY <1>2, <1>3 DEF ReportIsTrue

-----------------------------------------------------------------------------
(* What an outcome leads to.  It is right when an answer names the mapping *)
(* seen, and its source says no more of the filter than holds.             *)
RightOutcome(outcome) ==
  /\ outcome.is \in {"answer", "error"}
  /\ outcome.is = "answer" =>
       /\ outcome.mapped = Seen(step)
       /\ op = "filtering" /\ step # 1 /\ outcome.from.ip # Target.ip =>
            nat.filtering = "endpoint"
       /\ op = "filtering" /\ step # 1 /\ outcome.from # Target => nat.filtering # "both"

LEMMA ErrorIsRight == \A why, code : RightOutcome(Error(why)) /\ RightOutcome(ServerError(code))
  BY DEF RightOutcome, Error, ServerError

(* The operation ends with probes as they are and an error. *)
LEMMA FinishWithError ==
  ASSUME Fixed, Progress, ReportIsTrue, UNCHANGED <<nat, contacted>>, NEW result,
         result.is # "found", Finish(probes, result)
  PROVE  Progress' /\ ReportIsTrue'
<1>1. /\ probes' = probes /\ report' = result /\ pc' = "done"
      /\ op' = op /\ targets' = targets /\ step' = step
  BY DEF Finish
<1>2. ReportIsTrue'
  BY <1>1, NothingClaimed
<1>3. Mappable' = Mappable
  BY <1>1, SeenStays
<1>4. Progress'
  BY <1>1, <1>3 DEF Progress
<1> QED BY <1>2, <1>4

LEMMA MappingGoesOnTrue ==
  ASSUME Fixed, Progress, ReportIsTrue, UNCHANGED <<nat, wildcard, contacted>>,
         op = "mapping", pc # "done", NEW outcome, RightOutcome(outcome), MappingGoesOn(outcome)
  PROVE  Progress' /\ ReportIsTrue'
<1>1. CASE outcome.is # "answer"
  <2>1. outcome.is # "found" /\ Finish(probes, outcome)
    BY <1>1 DEF RightOutcome, MappingGoesOn
  <2> QED BY <2>1, FinishWithError
<1>2. CASE outcome.is = "answer"
  <2> DEFINE found == Append(probes, outcome.mapped)
  <2>1. outcome.mapped = MappedTo(targets[step])
    BY <1>2 DEF RightOutcome, Seen, TargetOf
  <2>2. /\ Len(targets) \in Nat /\ \A i \in 1..Len(targets) : targets[i] \in Endpoint
        /\ 1 \in 1..Len(targets)
    BY LenProperties, ElementOfSeq DEF Fixed
  <2>3. /\ step \in 1..Len(targets) /\ probes \in Seq(Mappable) /\ Len(probes) = step - 1
    BY <2>2 DEF Progress
  <2>4. outcome.mapped \in Mappable
    BY <2>1, <2>2, <2>3 DEF Mappable
  <2>5. /\ found \in Seq(Mappable) /\ Len(found) = step /\ DOMAIN found = 1..step
        /\ \A i \in 1..(step - 1) : found[i] = probes[i]
        /\ found[step] = outcome.mapped
    BY <2>3, <2>4, AppendProperties, LenProperties
  <2> HIDE DEF found
  <2>6. \A i \in 1..(step - 1) : probes[i] = MappedTo(targets[i])
    <3>1. DOMAIN probes = 1..(step - 1)
      BY <2>3, LenProperties
    <3> QED BY <3>1 DEF ReportIsTrue
  <2>7. \A i \in 1..step : found[i] = MappedTo(targets[i])
    <3> SUFFICES ASSUME NEW i \in 1..step PROVE found[i] = MappedTo(targets[i])
      OBVIOUS
    <3>1. i \in 1..(step - 1) \/ i = step
      BY <2>3
    <3> QED BY <2>1, <2>5, <2>6, <3>1
  <2>8. IF step < Len(targets) THEN Advance(found) ELSE Finish(found, Found(MappingOf(found)))
    BY <1>2 DEF MappingGoesOn, found
  <2>9. probes' = found /\ op' = op /\ targets' = targets
    BY <2>8 DEF Advance, Finish
  <2>10. Mappable' = Mappable /\ \A t : MappedTo(t)' = MappedTo(t)
    BY <2>9, SeenStays
  <2>11. (\A i \in DOMAIN probes :
           probes[i] = IF op = "tcp" THEN Client(probe_conn)
                       ELSE MappedTo(IF op = "mapping" THEN targets[i] ELSE targets[1]))'
    BY <2>5, <2>7, <2>9, <2>10
  <2>12. CASE step < Len(targets)
    <3>1. report' = report /\ step' = step + 1 /\ pc' = "send"
      BY <2>8, <2>12 DEF Advance
    <3>2. report' = None
      BY <3>1 DEF Progress
    <3>3. ReportIsTrue'
      BY <2>11, <3>2 DEF ReportIsTrue
    <3>4. Progress'
      BY <2>2, <2>3, <2>5, <2>9, <2>10, <2>12, <3>1, <3>2 DEF Progress
    <3> QED BY <3>3, <3>4
  <2>13. CASE ~(step < Len(targets))
    <3>1. /\ report' = Found(MappingOf(found)) /\ step' = step /\ pc' = "done"
          /\ step = Len(targets)
      BY <2>2, <2>3, <2>8, <2>13 DEF Finish
    <3>2. Progress'
      BY <2>5, <2>9, <2>10, <3>1 DEF Progress
    <3>3. /\ MappingOf(found) = "Open" => nat.mapping = "none"
          /\ MappingOf(found) # "EndpointDependent" =>
               MappedTo(Address("peer", 1)) = found[1] \/ TooAlike
      BY <2>5, <2>7, <3>1, ClassifiedTrue
    <3>4. report'.kind = MappingOf(found)
      BY <3>1 DEF Found
    <3>5. TooAlike' = TooAlike
      BY <2>9 DEF TooAlike, OneHost, OneServer
    <3>6. reflexive' = IF MappingOf(found) # "EndpointDependent" THEN found[1] ELSE None
      BY <2>9, <3>4 DEF reflexive, hole_punching_viable
    <3>7. ReportIsTrue'
      BY <2>9, <2>10, <2>11, <3>3, <3>4, <3>5, <3>6 DEF ReportIsTrue
    <3> QED BY <3>2, <3>7
  <2> QED BY <2>12, <2>13
<1> QED BY <1>1, <1>2

LEMMA FilteringGoesOnTrue ==
  ASSUME Fixed, Progress, ReportIsTrue, UNCHANGED <<nat, wildcard, contacted>>,
         op = "filtering", pc # "done", NEW outcome, RightOutcome(outcome), GoesOn(outcome)
  PROVE  Progress' /\ ReportIsTrue'
<1>1. step \in {1, 2, 3} /\ report = None
  BY DEF Progress
<1>2. \A why, code : Error(why).is = "error" /\ ServerError(code).is = "error"
  BY DEF Error, ServerError
<1>3. ASSUME NEW found, Advance(found), step # 3,
             \A i \in DOMAIN found : found[i] = MappedTo(targets[1])
      PROVE  Progress' /\ ReportIsTrue'
  <2>1. /\ probes' = found /\ step' = step + 1 /\ pc' = "send" /\ report' = None
        /\ op' = op /\ targets' = targets
    BY <1>1, <1>3 DEF Advance
  <2>2. Progress'
    BY <1>1, <1>3, <2>1 DEF Progress
  <2>3. \A t : MappedTo(t)' = MappedTo(t)
    BY <2>1, SeenStays
  <2>4. ReportIsTrue'
    BY <1>3, <2>1, <2>3 DEF ReportIsTrue
  <2> QED BY <2>2, <2>4
<1>4. ASSUME NEW found, NEW result, Finish(found, result),
             \A i \in DOMAIN found : found[i] = MappedTo(targets[1]),
             result = Found("EndpointIndependent") => nat.filtering = "endpoint",
             result = Found("AddressDependent") => nat.filtering # "both"
      PROVE  Progress' /\ ReportIsTrue'
  <2>1. /\ probes' = found /\ step' = step /\ pc' = "done" /\ report' = result
        /\ op' = op /\ targets' = targets
    BY <1>4 DEF Finish
  <2>2. Progress'
    BY <1>1, <2>1 DEF Progress
  <2>3. \A t : MappedTo(t)' = MappedTo(t)
    BY <2>1, SeenStays
  <2>4. ReportIsTrue'
    BY <1>4, <2>1, <2>3 DEF ReportIsTrue
  <2> QED BY <2>2, <2>4
<1>5. \A i \in DOMAIN probes : probes[i] = MappedTo(targets[1])
  BY DEF ReportIsTrue
<1>6. Target = targets[1]
  BY DEF Target
<1>7. \A r : r.is = "error" => r # Found("EndpointIndependent") /\ r # Found("AddressDependent")
  BY DEF Found
<1>a. CASE step = 1
  <2>1. TestI(outcome)
    BY <1>a DEF GoesOn
  <2>2. CASE outcome.is # "answer"
    <3>1. Finish(probes, outcome) /\ outcome.is = "error"
      BY <2>1, <2>2 DEF TestI, RightOutcome
    <3> QED BY <1>4, <1>5, <1>7, <3>1
  <2>3. CASE outcome.is = "answer"
    <3>1. outcome.mapped = MappedTo(targets[1])
      BY <2>3 DEF RightOutcome, Seen, TargetOf
    <3>2. \A i \in DOMAIN <<outcome.mapped>> : <<outcome.mapped>>[i] = MappedTo(targets[1])
      BY <3>1
    <3>3. Finish(<<outcome.mapped>>, Error("NoOtherAddress")) \/ Advance(<<outcome.mapped>>)
      BY <2>1, <2>3 DEF TestI
    <3>4. CASE Finish(<<outcome.mapped>>, Error("NoOtherAddress"))
      <4>1. Error("NoOtherAddress").is = "error"
        BY <1>2
      <4> QED BY <1>4, <1>7, <3>2, <3>4, <4>1
    <3>5. CASE Advance(<<outcome.mapped>>)
      BY <1>3, <1>a, <3>2, <3>5
    <3> QED BY <3>3, <3>4, <3>5
  <2> QED BY <2>2, <2>3
<1>b. CASE step = 2
  <2>1. TestII(outcome)
    BY <1>b DEF GoesOn
  <2>2. CASE outcome.is = "answer"
    <3>1. CASE outcome.from.ip = Target.ip
      <4>1. Finish(probes, Error("ChangeIgnored"))
        BY <2>1, <2>2, <3>1 DEF TestII
      <4>2. Error("ChangeIgnored").is = "error"
        BY <1>2
      <4> QED BY <1>4, <1>5, <1>7, <4>1, <4>2
    <3>2. CASE outcome.from.ip # Target.ip
      <4>1. Finish(probes, Found("EndpointIndependent"))
        BY <2>1, <2>2, <3>2 DEF TestII
      <4>2. nat.filtering = "endpoint"
        BY <1>b, <2>2, <3>2 DEF RightOutcome
      <4> QED BY <1>4, <1>5, <4>1, <4>2
    <3> QED BY <3>1, <3>2
  <2>3. CASE outcome.is # "answer" /\ outcome = Error("Timeout")
    BY <1>3, <1>5, <1>b, <2>1, <2>3 DEF TestII
  <2>4. CASE outcome.is # "answer" /\ outcome # Error("Timeout")
    <3>1. Finish(probes, outcome) /\ outcome.is = "error"
      BY <2>1, <2>4 DEF TestII, RightOutcome
    <3> QED BY <1>4, <1>5, <1>7, <3>1
  <2> QED BY <2>2, <2>3, <2>4
<1>c. CASE step = 3
  <2>1. TestIII(outcome)
    BY <1>c DEF GoesOn
  <2>2. CASE outcome.is = "answer"
    <3>0. outcome # Error("Timeout") /\ outcome # ServerError(UNKNOWN_ATTRIBUTE)
      BY <1>2, <2>2
    <3>1. CASE outcome.from = Target
      <4>1. Finish(probes, Error("ChangeIgnored"))
        BY <2>1, <2>2, <3>0, <3>1 DEF TestIII
      <4>2. Error("ChangeIgnored").is = "error"
        BY <1>2
      <4> QED BY <1>4, <1>5, <1>7, <4>1, <4>2
    <3>2. CASE outcome.from # Target
      <4>1. Finish(probes, Found("AddressDependent"))
        BY <2>1, <2>2, <3>0, <3>2 DEF TestIII
      <4>2. nat.filtering # "both"
        BY <1>c, <2>2, <3>2 DEF RightOutcome
      <4>3. Found("AddressDependent") # Found("EndpointIndependent")
        BY DEF Found
      <4> QED BY <1>4, <1>5, <4>1, <4>2, <4>3
    <3> QED BY <3>1, <3>2
  <2>3. CASE outcome.is # "answer"
    <3>1. PICK r : Finish(probes, r) /\ (r = outcome \/ r = Found("AddressAndPortDependent")
                                         \/ r = Found("AddressDependentOrStricter"))
      BY <2>1, <2>3 DEF TestIII
    <3>2. r # Found("EndpointIndependent") /\ r # Found("AddressDependent")
      <4>1. outcome.is = "error"
        BY <2>3 DEF RightOutcome
      <4> QED BY <1>7, <3>1, <4>1 DEF Found
    <3> QED BY <1>4, <1>5, <3>1, <3>2
  <2> QED BY <2>2, <2>3
<1> QED BY <1>1, <1>a, <1>b, <1>c

-----------------------------------------------------------------------------
(* Datagrams, replies and events under way. *)

GoodDatagram(d) ==
  Honest(d.msg) /\ (d.msg.txid # 0 /\ d.msg.type = "request" => d.src = Seen(d.msg.txid))
GoodHandoff(e) == e.txid # 0 => e.client = Seen(e.txid)

LEMMA MessagesKept ==
  ASSUME Messages, UNCHANGED <<nat, op, targets>>,
         \A d \in net' : d \in net \/ GoodDatagram(d),
         \A s \in Server, w \in Socket :
           \/ sending'[s][w] = <<>> \/ sending'[s][w] = sending[s][w]
           \/ IsAnswer(sending'[s][w][1].msg),
         \A e \in handoffs' : e \in handoffs \/ GoodHandoff(e)
  PROVE  Messages'
<1>1. /\ \A i : Seen(i)' = Seen(i)
      /\ \A m : Honest(m)' = Honest(m)
  BY SeenStays
<1>2. \A m : IsAnswer(m)' = IsAnswer(m)
  BY <1>1 DEF IsAnswer
<1>3. (\A d \in net : GoodDatagram(d))'
  <2>1. \A d \in net' : GoodDatagram(d)
    BY DEF Messages, GoodDatagram
  <2> QED BY <1>1, <2>1 DEF GoodDatagram
<1>4. (\A s \in Server, w \in Socket : sending[s][w] # <<>> => IsAnswer(sending[s][w][1].msg))'
  BY <1>2 DEF Messages
<1>5. (\A e \in handoffs : e.txid # 0 => e.client = Seen(e.txid))'
  BY <1>1 DEF Messages, GoodHandoff
<1> QED BY <1>3, <1>4, <1>5 DEF Messages, GoodDatagram

LEMMA SuccessIsAnswer ==
  ASSUME NEW s, NEW which, NEW txid, NEW client
  PROVE  LET m == Success(s, which, txid, client) IN
         m.type = "success" /\ m.txid = txid /\ MappedAddress(m) = client
  BY SuccessIsMapped DEF Success

LEMMA ErrorIsAnswer ==
  ASSUME NEW txid, NEW code
  PROVE  encode_binding_error(txid, code).type = "error"
  BY DEF encode_binding_error, Message

(* What a UDP loop does with a datagram. *)
LEMMA ServeUdpKeeps ==
  ASSUME Messages, Loops, UNCHANGED <<nat, op, targets>>,
         NEW s \in Server, NEW w \in Socket, NEW d, ServeUdp(s, w, d)
  PROVE  Messages'
<1> DEFINE rfc == decode_rfc5780(d.msg)
           route == route_change(s, w, rfc)
<1>1. d \in net /\ \A x \in net' : x \in net
  BY DEF ServeUdp, Consume
<1>2. GoodDatagram(d)
  BY <1>1 DEF Messages, GoodDatagram
<1>3. CASE sending' = sending /\ handoffs' = handoffs
  BY <1>1, <1>3, MessagesKept
<1>4. ASSUME NEW from, NEW m, IsAnswer(m), handoffs' = handoffs,
             sending' = [sending EXCEPT ![s][w] = <<[from |-> from, to |-> d.src, msg |-> m]>>]
      PROVE  Messages'
  <2>1. sending = [t \in Server |-> [x \in Socket |-> sending[t][x]]]
    BY DEF Loops
  <2> DEFINE r == [from |-> from, to |-> d.src, msg |-> m]
  <2>2. r.msg = m
    OBVIOUS
  <2> HIDE DEF r
  <2>3. sending' = [sending EXCEPT ![s][w] = <<r>>]
    BY <1>4 DEF r
  <2>4. /\ sending'[s][w] = <<r>>
        /\ \A t \in Server, x \in Socket : t # s \/ x # w => sending'[t][x] = sending[t][x]
    BY <2>1, <2>3
  <2>5. IsAnswer(sending'[s][w][1].msg)
    BY <1>4, <2>2, <2>4
  <2>6. \A t \in Server, x \in Socket :
          \/ sending'[t][x] = <<>> \/ sending'[t][x] = sending[t][x]
          \/ IsAnswer(sending'[t][x][1].msg)
    BY <2>4, <2>5
  <2> QED BY <1>1, <1>4, <2>6, MessagesKept
<1>5. ASSUME NEW e, GoodHandoff(e), sending' = sending, handoffs' = handoffs \cup {e}
      PROVE  Messages'
  BY <1>1, <1>5, MessagesKept
<1>6. CASE decode(d.msg).is = "request"
  <2>1. d.msg.txid # 0 => d.src = Seen(d.msg.txid)
    BY <1>2, <1>6, DecodedRequest DEF GoodDatagram
  <2>2. IsAnswer(Success(s, route.from, d.msg.txid, d.src))
    <3>1. LET m == Success(s, route.from, d.msg.txid, d.src) IN
          m.type = "success" /\ m.txid = d.msg.txid /\ MappedAddress(m) = d.src
      BY SuccessIsAnswer
    <3> QED BY <2>1, <3>1 DEF IsAnswer, Honest
  <2>3. IsAnswer(encode_binding_error(d.msg.txid, route.code))
    BY ErrorIsAnswer DEF IsAnswer, Honest
  <2> HIDE DEF route, rfc
  <2>4. CASE route.to = "answer"
    <3>1. handoffs' = handoffs /\ sending' = [sending EXCEPT ![s][w] =
            <<[from |-> route.from, to |-> d.src, msg |-> Success(s, route.from, d.msg.txid, d.src)]>>]
      BY <1>6, <2>4 DEF ServeUdp, route, rfc
    <3> QED BY <1>4, <2>2, <3>1
  <2>5. CASE route.to = "refuse"
    <3>1. handoffs' = handoffs /\ sending' = [sending EXCEPT ![s][w] =
            <<[from |-> w, to |-> d.src, msg |-> encode_binding_error(d.msg.txid, route.code)]>>]
      BY <1>6, <2>5 DEF ServeUdp, route, rfc
    <3> QED BY <1>4, <2>3, <3>1
  <2>6. CASE route.to = "handler"
    <3> DEFINE e == [to |-> PeerOf(s), txid |-> d.msg.txid, client |-> d.src, change |-> route.change]
    <3>1. sending' = sending /\ handoffs' = handoffs \cup {e}
      BY <1>6, <2>6 DEF ServeUdp, route, rfc
    <3>2. GoodHandoff(e)
      BY <2>1 DEF GoodHandoff
    <3> HIDE DEF e
    <3> QED BY <1>5, <3>1, <3>2
  <2>7. route.to \in {"answer", "refuse", "handler"}
    BY RouteIsTaken DEF route
  <2> QED BY <2>4, <2>5, <2>6, <2>7
<1>7. CASE decode(d.msg).is # "request"
  BY <1>3, <1>7 DEF ServeUdp
<1> QED BY <1>6, <1>7

LEMMA SendReplyKeeps ==
  ASSUME Messages, Loops, UNCHANGED <<nat, op, targets>>,
         NEW s \in Server, NEW w \in Socket, SendReply(s, w)
  PROVE  Messages'
<1> DEFINE r == sending[s][w][1]
           d == Datagram(Addr(s, r.from), r.to, r.msg)
<1>1. sending[s][w] # <<>> /\ sending' = [sending EXCEPT ![s][w] = <<>>] /\ handoffs' = handoffs
  BY DEF SendReply
<1>2. net' = net \/ net' = net \cup {d}
  BY DEF SendReply
<1>3. IsAnswer(r.msg)
  BY <1>1 DEF Messages
<1>4. GoodDatagram(d)
  BY <1>3 DEF GoodDatagram, Datagram, IsAnswer
<1>5. sending = [t \in Server |-> [x \in Socket |-> sending[t][x]]]
  BY DEF Loops
<1>6. \A t \in Server, x \in Socket : sending'[t][x] = <<>> \/ sending'[t][x] = sending[t][x]
  BY <1>1, <1>5
<1> HIDE DEF d
<1> QED BY <1>1, <1>2, <1>4, <1>6, MessagesKept

LEMMA AnswerForKeeps ==
  ASSUME Messages, UNCHANGED <<nat, op, targets>>, NEW e, answer_for(e)
  PROVE  Messages'
<1>1. PICK from : net' = net \cup {Datagram(Addr(e.to, from), e.client, Success(e.to, from, e.txid, e.client))}
  BY DEF answer_for
<1> DEFINE m == Success(e.to, from, e.txid, e.client)
           d == Datagram(Addr(e.to, from), e.client, m)
<1>2. e \in handoffs /\ handoffs' = handoffs \ {e} /\ sending' = sending
  BY DEF answer_for
<1>3. m.type = "success" /\ m.txid = e.txid /\ MappedAddress(m) = e.client
  BY SuccessIsAnswer
<1>4. d.msg = m
  BY DEF Datagram
<1>5. e.txid # 0 => e.client = Seen(e.txid)
  BY <1>2 DEF Messages
<1>6. net' = net \cup {d}
  BY <1>1
<1> HIDE DEF d, m
<1>7. GoodDatagram(d)
  BY <1>3, <1>4, <1>5 DEF GoodDatagram, Honest
<1> QED BY <1>2, <1>6, <1>7, MessagesKept

LEMMA SocketFailsKeeps ==
  ASSUME Messages, Loops, UNCHANGED <<nat, op, targets>>, NEW s \in Server, SocketFails(s)
  PROVE  Messages'
<1>1. /\ sending' = [sending EXCEPT ![s] = [w \in Socket |-> <<>>]]
      /\ net' = net /\ handoffs' = handoffs
  BY DEF SocketFails
<1>2. sending = [t \in Server |-> [x \in Socket |-> sending[t][x]]]
  BY DEF Loops
<1>3. \A t \in Server, x \in Socket : sending'[t][x] = <<>> \/ sending'[t][x] = sending[t][x]
  BY <1>1, <1>2
<1> QED BY <1>1, <1>3, MessagesKept

(* A request names its transaction and comes from the mapping made for it. *)
LEMMA SendRequestKeeps ==
  ASSUME Fixed, Messages, Progress, SendRequest
  PROVE  Messages'
<1> DEFINE m == encode_binding_request_with(step, Change)
           d == Datagram(MappedTo(Target), Target, m)
<1>1. /\ net' = net \cup {d} /\ sending' = sending /\ handoffs' = handoffs
      /\ nat' = nat /\ op' = op /\ targets' = targets
  BY DEF SendRequest
<1>2. m.type = "request" /\ m.txid = step
  BY DEF encode_binding_request_with, Message
<1>3. d.msg = m /\ d.src = MappedTo(Target)
  BY DEF Datagram
<1>4. Target = TargetOf(step)
  BY DEF Target, TargetOf
<1> HIDE DEF d, m
<1>5. GoodDatagram(d)
  BY <1>2, <1>3, <1>4 DEF GoodDatagram, Honest, Seen
<1> QED BY <1>1, <1>5, MessagesKept

LEMMA StrayKeeps ==
  ASSUME Messages, NEW d \in Strays, Stray(d)
  PROVE  Messages'
<1>1. /\ net' = net \cup {d} /\ sending' = sending /\ handoffs' = handoffs
      /\ nat' = nat /\ op' = op /\ targets' = targets
  BY DEF Stray, natVars, probeVars
<1>2. d.msg.txid = 0
  BY DEF Strays, Foreign, Datagram, Message, UNFRAMED
<1>3. GoodDatagram(d)
  BY <1>2 DEF GoodDatagram, Honest
<1> QED BY <1>1, <1>3, MessagesKept

(* What the prober hears within its transaction names the mapping seen for *)
(* it, and the filter let its source in.                                   *)
LEMMA HeardIsRight ==
  ASSUME Fixed, Progress, Messages, op \in Inside, NEW d \in net, LetsIn(d),
         Heard(d).is = "answer"
  PROVE  RightOutcome(Heard(d))
<1> DEFINE m == decode(d.msg)
           mine == d.msg.txid = step /\ (Change # NONE \/ d.src = Target)
<1>1. mine /\ m.is = "success"
  <2>1. CASE mine /\ m.is = "error"
    <3>1. ~(mine /\ m.is = "success")
      BY <2>1
    <3>2. Heard(d) = [is |-> "refusal", code |-> m.code]
      BY <2>1, <3>1 DEF Heard
    <3> QED BY <3>2
  <2>2. CASE ~(mine /\ m.is = "success") /\ ~(mine /\ m.is = "error")
    <3>1. Heard(d) = [is |-> "nothing"]
      BY <2>2 DEF Heard
    <3> QED BY <3>1
  <2> QED BY <2>1, <2>2
<1>2. ~(mine /\ m.is = "error")
  BY <1>1
<1>3. Heard(d) = [is |-> "answer", from |-> d.src, mapped |-> m.mapped,
                  extra |-> decode_rfc5780(d.msg)]
  BY <1>1, <1>2 DEF Heard
<1>4. d.msg.type = "success" /\ m.mapped = MappedAddress(d.msg)
  BY <1>1, DecodedSuccess
<1>5. d.msg.txid = step /\ step # 0
  BY <1>1 DEF Progress
<1>6. m.mapped = Seen(step)
  BY <1>4, <1>5 DEF Messages, Honest
<1> HIDE DEF m
<1>7. Heard(d).is = "answer" /\ Heard(d).mapped = Seen(step) /\ Heard(d).from = d.src
  BY <1>3, <1>6
<1>8. ASSUME op = "filtering"
      PROVE  /\ d.src.ip # Target.ip => nat.filtering = "endpoint"
             /\ d.src # Target => nat.filtering # "both"
  <2>1. contacted \subseteq {targets[1]} /\ Target = targets[1]
    BY <1>8 DEF Progress, Target
  <2>2. (CASE nat.filtering = "endpoint" -> TRUE
           [] nat.filtering = "address"  -> Target.ip = d.src.ip
           [] nat.filtering = "both"     -> Target = d.src)
    BY <2>1 DEF LetsIn
  <2>3. nat.filtering \in {"endpoint", "address", "both"}
    BY DEF Fixed, Filtering
  <2> QED BY <2>2, <2>3
<1> QED BY <1>7, <1>8 DEF RightOutcome

(* The operation goes on, or ends, truthfully. *)
LEMMA OperationStays ==
  ASSUME Progress, op \in Inside, pc # "done", NEW outcome, GoesOn(outcome)
  PROVE  UNCHANGED <<op, targets>>
<1>1. CASE op = "mapping"
  <2>1. MappingGoesOn(outcome)
    BY <1>1 DEF GoesOn
  <2> QED BY <2>1 DEF MappingGoesOn, Advance, Finish
<1>2. CASE op = "filtering"
  <2>1. step = 1 \/ step = 2 \/ step = 3
    BY <1>2 DEF Progress
  <2> QED BY <1>2, <2>1 DEF GoesOn, TestI, TestII, TestIII, Advance, Finish
<1> QED BY <1>1, <1>2 DEF Inside

LEMMA GoesOnTrue ==
  ASSUME Fixed, Progress, ReportIsTrue, UNCHANGED <<nat, wildcard, contacted>>,
         op \in Inside, pc # "done", NEW outcome, RightOutcome(outcome), GoesOn(outcome)
  PROVE  Fixed' /\ Progress' /\ ReportIsTrue'
<1>1. Fixed'
  BY OperationStays DEF Fixed
<1>2. CASE op = "mapping"
  <2>1. MappingGoesOn(outcome)
    BY <1>2 DEF GoesOn
  <2> QED BY <1>1, <1>2, <2>1, MappingGoesOnTrue
<1>3. CASE op = "filtering"
  BY <1>1, <1>3, FilteringGoesOnTrue
<1> QED BY <1>2, <1>3 DEF Inside

LEMMA ProberRests ==
  ASSUME Fixed, Progress, ReportIsTrue, UNCHANGED <<natVars, probeVars>>
  PROVE  Fixed' /\ Progress' /\ ReportIsTrue'
<1> USE DEF natVars, probeVars
<1>1. Fixed'
  BY DEF Fixed
<1>2. Mappable' = Mappable /\ \A t : MappedTo(t)' = MappedTo(t)
  BY SeenStays
<1>3. Progress'
  BY <1>2 DEF Progress
<1>4. reflexive' = reflexive
  BY DEF reflexive
<1>5. TooAlike' = TooAlike
  BY DEF TooAlike, OneHost, OneServer
<1>6. ReportIsTrue'
  BY <1>2, <1>4, <1>5 DEF ReportIsTrue
<1> QED BY <1>1, <1>3, <1>6

-----------------------------------------------------------------------------
(* The replies on the prober's TCP connection. *)

TruthfulBox(box) == \E S : box \in Seq(S) /\ \A m \in S : Truthful(m)

LEMMA TruthfulTail ==
  ASSUME NEW box, TruthfulBox(box), box # <<>>
  PROVE  TruthfulBox(Tail(box)) /\ Truthful(Head(box))
<1>1. PICK S : box \in Seq(S) /\ \A m \in S : Truthful(m)
  BY DEF TruthfulBox
<1>2. Tail(box) \in Seq(S) /\ Head(box) \in S
  BY <1>1, HeadTailProperties
<1> QED BY <1>1, <1>2 DEF TruthfulBox

LEMMA TruthfulAppend ==
  ASSUME NEW box, TruthfulBox(box), NEW r, Truthful(r)
  PROVE  TruthfulBox(Append(box, r))
<1>1. PICK S : box \in Seq(S) /\ \A m \in S : Truthful(m)
  BY DEF TruthfulBox
<1> DEFINE T == S \cup {r}
<1>2. box \in Seq(T) /\ \A m \in T : Truthful(m)
  BY <1>1
<1> HIDE DEF T
<1>3. Append(box, r) \in Seq(T)
  <2>1. r \in T
    BY DEF T
  <2> QED BY <1>2, <2>1, AppendProperties
<1> QED BY <1>2, <1>3 DEF TruthfulBox

LEMMA ReplyChange ==
  ASSUME Connections, Replies, NEW c \in Conn, NEW k, conn' = [conn EXCEPT ![c] = k],
         c = probe_conn => /\ k.pc = "replying" => Truthful(k.reply)
                           /\ TruthfulBox(k.outbox)
  PROVE  Replies'
<1>1. probe_conn \in Conn
  BY ProbeAssumption
<1>2. conn'[probe_conn] = IF c = probe_conn THEN k ELSE conn[probe_conn]
  BY <1>1 DEF Connections
<1>3. conn'[probe_conn].pc = "replying" => Truthful(conn'[probe_conn].reply)
  BY <1>2 DEF Replies
<1>4. TruthfulBox(conn[probe_conn].outbox)
  BY DEF Replies, TruthfulBox
<1>5. TruthfulBox(conn'[probe_conn].outbox)
  BY <1>2, <1>4
<1>6. \E S : conn'[probe_conn].outbox \in Seq(S) /\ \A m \in S : Truthful(m)
  BY <1>5 DEF TruthfulBox
<1> QED BY <1>3, <1>6 DEF Replies, Truthful

-----------------------------------------------------------------------------
(* The prober moves within its operation: nothing is reported yet. *)
LEMMA ProberMoves ==
  ASSUME Fixed, Progress, ReportIsTrue, pc # "done",
         UNCHANGED <<nat, wildcard, op, targets, step, probes, report>>,
         contacted' \subseteq contacted \cup {Target}
  PROVE  Fixed' /\ Progress' /\ ReportIsTrue'
<1>1. Fixed'
  BY DEF Fixed
<1>2. Mappable' = Mappable /\ report' = None
  BY SeenStays DEF Progress
<1>3. op = "filtering" => contacted' \subseteq {targets[1]}
  BY DEF Progress, Target
<1>4. Progress'
  BY <1>2, <1>3 DEF Progress
<1>5. ReportIsTrue'
  BY <1>2, NothingClaimed
<1> QED BY <1>1, <1>4, <1>5

LEMMA MessagesShrink ==
  ASSUME Messages, UNCHANGED <<nat, op, targets, sending>>,
         net' \subseteq net, handoffs' \subseteq handoffs
  PROVE  Messages'
  BY MessagesKept

LEMMA RepliesRest ==
  ASSUME Replies, conn' = conn PROVE Replies'
  BY DEF Replies, Truthful

(* A connection that is not being answered keeps its replies. *)
LEMMA PcReplies ==
  ASSUME Connections, Replies, NEW c \in Conn, NEW u, u # "replying",
         conn' = [conn EXCEPT ![c].pc = u]
  PROVE  Replies'
<1> DEFINE k == [conn[c] EXCEPT !.pc = u]
<1>1. IsConnection(conn[c])
  BY DEF Connections
<1>2. k.pc = u /\ k.outbox = conn[c].outbox
  BY <1>1, SetPc
<1>3. conn' = [conn EXCEPT ![c] = k]
  BY Zenon
<1> HIDE DEF k
<1>4. c = probe_conn => TruthfulBox(k.outbox)
  BY <1>2 DEF Replies, TruthfulBox
<1> QED BY <1>2, <1>3, <1>4, ReplyChange

LEMMA ClientReplies ==
  ASSUME Connections, Replies, NEW c \in Conn,
         \/ Connect(c) \/ (\E m : Say(c, m)) \/ TakeReply(c) \/ HangUp(c) \/ AcceptFails(c)
  PROVE  Replies'
<1>1. PICK k : ClientMove(c, k)
  BY ClientMoves
<1>2. ASSUME c = probe_conn
      PROVE  (k.pc = "replying" => Truthful(k.reply)) /\ TruthfulBox(k.outbox)
  <2>1. k.pc = "replying" => conn[c].pc = "replying" /\ k.reply = conn[c].reply
    BY <1>1 DEF ClientMove
  <2>2. TruthfulBox(conn[c].outbox)
    BY <1>2 DEF Replies, TruthfulBox
  <2>3. TruthfulBox(k.outbox)
    BY <1>1, <2>2, TruthfulTail DEF ClientMove
  <2> QED BY <1>2, <2>1, <2>3 DEF Replies
<1>3. conn' = [conn EXCEPT ![c] = k]
  BY <1>1 DEF ClientMove
<1> QED BY <1>2, <1>3, ReplyChange

(* A connection's task reads a request, or writes its reply. *)
LEMMA ServeTcpReplies ==
  ASSUME Connections, Replies, NEW c \in Conn, ServeTcp(c)
  PROVE  Replies'
<1> DEFINE m == Head(conn[c].inbox)
<1>1. CASE decode(m).is = "request"
  <2> DEFINE rfc5780 == decode_rfc5780(m)
             change == rfc5780.ok /\ rfc5780.change_request \notin {None, NONE}
             r == CASE ~rfc5780.ok -> encode_binding_error(m.txid, BAD_REQUEST)
                    [] change -> encode_binding_error(m.txid, UNKNOWN_ATTRIBUTE)
                    [] OTHER  -> Success(server_of[c], "Primary", m.txid, Address("tcp", c))
  <2>2. conn' = [conn EXCEPT ![c].pc = "replying", ![c].reply = r, ![c].inbox = Tail(@)]
    BY <1>1, Zenon DEF ServeTcp
  <2>3. c = probe_conn => Truthful(r)
    <3> HIDE DEF rfc5780
    <3>1. \A code : encode_binding_error(m.txid, code).type = "error"
      BY ErrorIsAnswer
    <3>2. \/ r.type = "error"
          \/ r = Success(server_of[c], "Primary", m.txid, Address("tcp", c))
      BY <3>1
    <3> HIDE DEF r
    <3>3. r.type = "error" \/ MappedAddress(r) = Address("tcp", c)
      BY <3>2, SuccessIsAnswer
    <3> QED BY <3>3 DEF Truthful, Client
  <2> HIDE DEF r
  <2> DEFINE k1 == [conn[c] EXCEPT !.pc = "replying"]
             k2 == [k1 EXCEPT !.reply = r]
             k == [k2 EXCEPT !.inbox = Tail(conn[c].inbox)]
  <2>4. IsConnection(conn[c])
    BY DEF Connections
  <2>5. IsConnection(k1) /\ k1.outbox = conn[c].outbox
    BY <2>4, SetPc
  <2>6. conn' = [conn EXCEPT ![c] = k]
    BY <2>2, Zenon
  <2> HIDE DEF k1
  <2>7. IsConnection(k2) /\ k2.reply = r /\ k2.outbox = conn[c].outbox
    BY <2>5, SetReply
  <2> HIDE DEF k2
  <2>8. k.reply = r /\ k.outbox = conn[c].outbox
    BY <2>7, SetInbox
  <2> HIDE DEF k
  <2>9. c = probe_conn => TruthfulBox(k.outbox)
    BY <2>8 DEF Replies, TruthfulBox
  <2> QED BY <2>3, <2>6, <2>8, <2>9, ReplyChange
<1>2. CASE decode(m).is # "request"
  <2>1. conn' = [conn EXCEPT ![c].pc = "gone"]
    BY <1>2 DEF ServeTcp, Return
  <2> QED BY <2>1, PcReplies
<1> QED BY <1>1, <1>2

LEMMA WriteReplyReplies ==
  ASSUME Connections, Replies, NEW c \in Conn, WriteReply(c)
  PROVE  Replies'
<1> DEFINE k1 == [conn[c] EXCEPT !.pc = "reading"]
           k == [k1 EXCEPT !.outbox = Append(conn[c].outbox, conn[c].reply)]
<1>1. IsConnection(conn[c])
  BY DEF Connections
<1>2. IsConnection(k1) /\ k1.pc = "reading"
  BY <1>1, SetPc
<1>3. conn' = [conn EXCEPT ![c] = k] /\ conn[c].pc = "replying"
  BY Zenon DEF WriteReply
<1> HIDE DEF k1
<1>4. k.pc = "reading" /\ k.outbox = Append(conn[c].outbox, conn[c].reply)
  BY <1>2, SetOutbox
<1> HIDE DEF k
<1>5. c = probe_conn => TruthfulBox(k.outbox)
  <2>1. c = probe_conn => TruthfulBox(conn[c].outbox) /\ Truthful(conn[c].reply)
    BY <1>3 DEF Replies, TruthfulBox
  <2> QED BY <1>4, <2>1, TruthfulAppend
<1> QED BY <1>3, <1>4, <1>5, ReplyChange

LEMMA TcpServersReplies ==
  ASSUME Connections, Replies, TcpServers
  PROVE  Replies'
<1>1. PICK c \in Conn : Accept(c) \/ ServeTcp(c) \/ Eof(c) \/ Idle(c) \/ WriteReply(c) \/ WriteFails(c)
  BY DEF TcpServers
<1>2. CASE Accept(c)
  <2>1. \/ conn' = [conn EXCEPT ![c].pc = "reading"]
        \/ conn' = [conn EXCEPT ![c].pc = "gone"]
    BY <1>2 DEF Accept
  <2> QED BY <2>1, PcReplies
<1>3. CASE Eof(c) \/ Idle(c) \/ WriteFails(c)
  <2>1. conn' = [conn EXCEPT ![c].pc = "gone"]
    BY <1>3 DEF Eof, Idle, WriteFails, Return
  <2> QED BY <2>1, PcReplies
<1> QED BY <1>1, <1>2, <1>3, ServeTcpReplies, WriteReplyReplies

-----------------------------------------------------------------------------
(* The steps of the operation over UDP. *)
LEMMA SendRequestTrue ==
  ASSUME ProbeInv, SendRequest PROVE ProbeInv'
<1> USE DEF ProbeInv
<1>1. Fixed' /\ Progress' /\ ReportIsTrue'
  BY ProberMoves DEF SendRequest
<1>2. Messages'
  BY SendRequestKeeps
<1>3. Replies'
  BY RepliesRest DEF SendRequest, tcpVars
<1> QED BY <1>1, <1>2, <1>3

LEMMA ReceiveTrue ==
  ASSUME ProbeInv, NEW d \in net, Receive(d) PROVE ProbeInv'
<1> DEFINE h == Heard(d)
<1>0. Fixed /\ Progress /\ Messages /\ Replies /\ ReportIsTrue
  BY DEF ProbeInv
<1>1. /\ pc = "wait" /\ op \in Inside /\ LetsIn(d) /\ UNCHANGED natVars
      /\ UNCHANGED <<sending, handoffs, tcpVars>> /\ net' \subseteq net
  BY DEF Receive, Consume
<1>2. Fixed' /\ Progress' /\ ReportIsTrue'
  <2>1. CASE h.is = "nothing"
    <3>1. UNCHANGED probeVars
      BY <2>1 DEF Receive
    <3> QED BY <1>0, <1>1, <3>1, ProberRests
  <2>2. CASE h.is = "answer"
    <3>1. GoesOn(h)
      BY <2>2 DEF Receive
    <3>2. RightOutcome(h)
      BY <1>0, <1>1, <2>2, HeardIsRight
    <3> HIDE DEF h
    <3> QED BY <1>0, <1>1, <3>1, <3>2, GoesOnTrue DEF natVars
  <2>3. CASE h.is = "refusal"
    <3>1. GoesOn(ServerError(h.code))
      BY <2>3 DEF Receive
    <3>2. RightOutcome(ServerError(h.code))
      BY ErrorIsRight
    <3> HIDE DEF h
    <3> QED BY <1>0, <1>1, <3>1, <3>2, GoesOnTrue DEF natVars
  <2>4. h.is \in {"nothing", "answer", "refusal"}
    BY DEF Heard
  <2> QED BY <2>1, <2>2, <2>3, <2>4
<1>3. UNCHANGED <<op, targets>>
  <2>1. UNCHANGED probeVars \/ \E o : GoesOn(o)
    <3>1. h.is \in {"nothing", "answer", "refusal"}
      BY DEF Heard
    <3> QED BY <3>1 DEF Receive
  <2> QED BY <1>0, <1>1, <2>1, OperationStays DEF probeVars
<1>4. Messages'
  BY <1>0, <1>1, <1>3, MessagesShrink DEF natVars
<1>5. Replies'
  BY <1>0, <1>1, RepliesRest DEF tcpVars
<1> QED BY <1>2, <1>4, <1>5 DEF ProbeInv

(* A deadline, or an error of the socket. *)
LEMMA TroubleTrue ==
  ASSUME ProbeInv, TimeUp \/ SocketError PROVE ProbeInv'
<1>0. Fixed /\ Progress /\ Messages /\ Replies /\ ReportIsTrue
  BY DEF ProbeInv
<1>1. /\ pc # "done" /\ op \in Inside /\ UNCHANGED <<nat, wildcard, contacted>>
      /\ UNCHANGED <<sending, handoffs, conn, net>>
  BY DEF TimeUp, SocketError, natVars, serverVars, udpVars, tcpVars
<1>2. \/ pc' = "send" /\ UNCHANGED <<op, targets, step, attempt, probes, report>>
      \/ \E why : GoesOn(Error(why))
  BY DEF TimeUp, SocketError
<1>3. /\ Fixed' /\ Progress' /\ ReportIsTrue' /\ UNCHANGED <<op, targets>>
  <2>1. CASE pc' = "send" /\ UNCHANGED <<op, targets, step, attempt, probes, report>>
    BY <1>0, <1>1, <2>1, ProberMoves
  <2>2. ASSUME NEW why, GoesOn(Error(why))
        PROVE  Fixed' /\ Progress' /\ ReportIsTrue' /\ UNCHANGED <<op, targets>>
    <3>1. RightOutcome(Error(why))
      BY ErrorIsRight
    <3> QED BY <1>0, <1>1, <2>2, <3>1, GoesOnTrue, OperationStays
  <2> QED BY <1>2, <2>1, <2>2
<1>4. Messages'
  BY <1>0, <1>1, <1>3, MessagesShrink
<1>5. Replies'
  BY <1>0, <1>1, RepliesRest
<1> QED BY <1>3, <1>4, <1>5 DEF ProbeInv

(* The steps of probe_tcp. *)
LEMMA ProbeTcpTrue ==
  ASSUME ProbeInv, Connections,
         \/ ProbeConnects \/ ProbeAsks \/ ProbeReads \/ ProbeEof \/ ProbeLeaves
         \/ TcpDeadline \/ ProbeBreaks
  PROVE  ProbeInv'
<1>0. Fixed /\ Progress /\ Messages /\ Replies /\ ReportIsTrue
  BY DEF ProbeInv
<1>1. op = "tcp" /\ UNCHANGED natVars /\ UNCHANGED udpVars /\ UNCHANGED <<op, targets>>
  BY DEF ProbeConnects, ProbeAsks, ProbeReads, ProbeEof, ProbeLeaves, TcpDeadline, ProbeBreaks,
     Connect, Say, TakeReply, HangUp, Finish, serverVars, probeVars
<1>2. Messages'
  BY <1>0, <1>1, MessagesShrink DEF natVars, udpVars
<1>3. Replies'
  <2>1. \/ Connect(probe_conn) \/ (\E m : Say(probe_conn, m))
        \/ TakeReply(probe_conn) \/ HangUp(probe_conn) \/ conn' = conn
    BY DEF ProbeConnects, ProbeAsks, ProbeReads, ProbeEof, ProbeLeaves, TcpDeadline, ProbeBreaks,
       serverVars, tcpVars
  <2>2. probe_conn \in Conn
    BY ProbeAssumption
  <2> QED BY <1>0, <2>1, <2>2, ClientReplies, RepliesRest
<1>4. Fixed' /\ Progress' /\ ReportIsTrue'
  <2>f. ASSUME NEW result, result.is # "found", Finish(probes, result)
        PROVE  Fixed' /\ Progress' /\ ReportIsTrue'
    BY <1>0, <1>1, <2>f, FinishWithError DEF natVars, Fixed
  <2>e. \A why, code : Error(why).is # "found" /\ ServerError(code).is # "found"
    BY DEF Error, ServerError
  <2>m. ASSUME pc # "done", UNCHANGED <<step, probes, report>>
        PROVE  Fixed' /\ Progress' /\ ReportIsTrue'
    BY <1>0, <1>1, <2>m, ProberMoves DEF natVars
  <2>1. CASE ProbeConnects
    BY <2>1, <2>m DEF ProbeConnects
  <2>2. CASE ProbeAsks
    <3>1. Finish(probes, Error("Io")) \/ (pc # "done" /\ UNCHANGED <<step, probes, report>>)
      BY <2>2 DEF ProbeAsks
    <3> QED BY <2>e, <2>f, <2>m, <3>1
  <2>3. CASE ProbeReads
    <3> DEFINE r == Head(conn[probe_conn].outbox)
               m == decode(r)
    <3>1. \/ m.is = "success" /\ Finish(<<m.mapped>>, Found("Probed"))
          \/ \E why, code : Finish(probes, Error(why)) \/ Finish(probes, ServerError(code))
      BY <2>3 DEF ProbeReads
    <3>2. CASE m.is = "success" /\ Finish(<<m.mapped>>, Found("Probed"))
      <4>1. conn[probe_conn].outbox # <<>> /\ TruthfulBox(conn[probe_conn].outbox)
        BY <1>0, <2>3 DEF ProbeReads, TakeReply, Replies, TruthfulBox
      <4>2. Truthful(r)
        BY <4>1, TruthfulTail
      <4>3. m.mapped = Client(probe_conn)
        BY <3>2, <4>2, DecodedSuccess DEF Truthful
      <4> HIDE DEF m
      <4>4. probes' = <<m.mapped>> /\ report' = Found("Probed") /\ pc' = "done" /\ step' = step
        BY <3>2 DEF Finish
      <4>5. Progress'
        BY <1>0, <1>1, <4>4 DEF Progress
      <4>6. (\A i \in DOMAIN probes : probes[i] = Client(probe_conn))'
        BY <4>3, <4>4 DEF Client
      <4>7. ReportIsTrue'
        BY <1>1, <4>6 DEF ReportIsTrue
      <4>8. Fixed'
        BY <1>0, <1>1 DEF Fixed, natVars
      <4> QED BY <4>5, <4>7, <4>8
    <3>3. CASE \E why, code : Finish(probes, Error(why)) \/ Finish(probes, ServerError(code))
      BY <2>e, <2>f, <3>3
    <3> QED BY <3>1, <3>2, <3>3
  <2>4. CASE ProbeEof
    BY <2>4, <2>e, <2>f DEF ProbeEof
  <2>5. CASE ProbeLeaves
    BY <1>0, <1>1, <2>5, ProberRests DEF ProbeLeaves
  <2>6. CASE TcpDeadline \/ ProbeBreaks
    BY <2>6, <2>e, <2>f DEF TcpDeadline, ProbeBreaks
  <2> QED BY <2>1, <2>2, <2>3, <2>4, <2>5, <2>6
<1> QED BY <1>2, <1>3, <1>4 DEF ProbeInv

(* Everybody else's steps. *)
LEMMA OthersTrue ==
  ASSUME ProbeInv, UNCHANGED <<natVars, probeVars>>, Messages', Replies'
  PROVE  ProbeInv'
  BY ProberRests DEF ProbeInv

LEMMA InitIsTrue ==
  ASSUME Init PROVE ProbeInv
<1>1. PICK c \in Scenarios : op = c.op /\ targets = c.targets /\ nat = c.nat
  BY DEF Init
<1>2. Fixed
  BY <1>1, ProbeAssumption DEF Fixed, Endpoint
<1>3. Progress
  <2>1. /\ step = 1 /\ report = None /\ contacted = {} /\ probes = <<>>
    BY DEF Init
  <2>2. Len(targets) \in Nat /\ Len(targets) > 1
    BY <1>2, LenProperties DEF Fixed
  <2>3. probes \in Seq(Mappable) /\ Len(probes) = 0
    BY <2>1, EmptySeq
  <2>4. step \in Nat \ {0} /\ step <= 3 /\ step <= Len(targets) /\ Len(probes) = step - 1
    BY <2>1, <2>2, <2>3
  <2> QED BY <2>1, <2>3, <2>4 DEF Progress
<1>4. Messages
  BY DEF Init, InitServer, Messages
<1>5. Replies
  <2>1. probe_conn \in Conn
    BY ProbeAssumption
  <2>2. conn[probe_conn].pc = "none" /\ conn[probe_conn].outbox = <<>>
    BY <2>1 DEF Init, InitServer
  <2>3. <<>> \in Seq({})
    BY EmptySeq
  <2>4. conn[probe_conn].outbox \in Seq({}) /\ \A m \in {} : Truthful(m)
    BY <2>2, <2>3
  <2>5. \E S : conn[probe_conn].outbox \in Seq(S) /\ \A m \in S : Truthful(m)
    BY <2>4
  <2> QED BY <2>2, <2>5 DEF Replies
<1>6. ReportIsTrue
  BY DEF Init, ReportIsTrue
<1> QED BY <1>2, <1>3, <1>4, <1>5, <1>6 DEF ProbeInv

LEMMA NextIsTrue ==
  ASSUME ProbeInv, AccountInv, [Next]_vars
  PROVE  ProbeInv'
<1>0. Connections /\ Loops /\ Messages /\ Replies
  BY DEF AccountInv, ProbeInv
<1>a. ASSUME UNCHANGED <<natVars, probeVars>> PROVE UNCHANGED <<nat, op, targets>>
  BY <1>a DEF natVars, probeVars
<1>1. CASE Prober
  BY <1>0, <1>1, SendRequestTrue, ReceiveTrue, ProbeTcpTrue DEF Prober
<1>2. CASE Deadlines
  BY <1>0, <1>2, TroubleTrue, ProbeTcpTrue DEF Deadlines
<1>3. CASE SocketError \/ ProbeBreaks
  BY <1>0, <1>3, TroubleTrue, ProbeTcpTrue
<1>4. CASE Servers
  <2>1. UNCHANGED <<natVars, probeVars>>
    BY <1>4 DEF Servers
  <2>2. CASE UdpServers
    <3>1. conn' = conn
      <4>1. CASE \E s \in Server, w \in Socket : \E d \in net : ServeUdp(s, w, d)
        BY <4>1 DEF ServeUdp, tcpVars
      <4>2. CASE \E s \in Server, w \in Socket : SendReply(s, w)
        BY <4>2 DEF SendReply, tcpVars
      <4>3. CASE \E e \in handoffs : answer_for(e)
        BY <4>3 DEF answer_for, tcpVars
      <4> QED BY <2>2, <4>1, <4>2, <4>3 DEF UdpServers
    <3>2. Messages'
      BY <1>0, <1>a, <2>1, <2>2, ServeUdpKeeps, SendReplyKeeps, AnswerForKeeps DEF UdpServers
    <3> QED BY <1>0, <2>1, <3>1, <3>2, RepliesRest, OthersTrue
  <2>3. CASE TcpServers
    <3>1. UNCHANGED <<net, sending, handoffs>>
      BY <2>3 DEF TcpServers, Accept, ServeTcp, Eof, Idle, WriteReply, WriteFails, udpVars
    <3>2. Messages'
      BY <1>0, <1>a, <2>1, <3>1, MessagesShrink
    <3>3. Replies'
      BY <1>0, <2>3, TcpServersReplies
    <3> QED BY <2>1, <3>2, <3>3, OthersTrue
  <2> QED BY <1>4, <2>2, <2>3 DEF Servers
<1>5. CASE Faults /\ UNCHANGED <<natVars, probeVars, disturbed>>
  <2>1. UNCHANGED <<natVars, probeVars>>
    BY <1>5
  <2>2. CASE (\E d \in net : Lose(d)) \/ (\E e \in handoffs : DropHandoff(e))
    <3>1. /\ sending' = sending /\ net' \subseteq net /\ handoffs' \subseteq handoffs
          /\ conn' = conn
      BY <2>2 DEF Lose, DropHandoff, tcpVars
    <3>2. Messages'
      BY <1>0, <1>a, <2>1, <3>1, MessagesShrink
    <3> QED BY <1>0, <2>1, <3>1, <3>2, RepliesRest, OthersTrue
  <2>3. CASE \E s \in Server : SocketFails(s)
    <3>1. conn' = conn
      BY <2>3 DEF SocketFails, tcpVars
    <3>2. Messages'
      BY <1>0, <1>a, <2>1, <2>3, SocketFailsKeeps
    <3> QED BY <1>0, <2>1, <3>1, <3>2, RepliesRest, OthersTrue
  <2>4. CASE \E c \in Conn : AcceptFails(c)
    <3>1. UNCHANGED <<net, sending, handoffs>>
      BY <2>4 DEF AcceptFails, udpVars
    <3>2. Messages'
      BY <1>0, <1>a, <2>1, <3>1, MessagesShrink
    <3>3. Replies'
      BY <1>0, <2>4, ClientReplies
    <3> QED BY <2>1, <3>2, <3>3, OthersTrue
  <2> QED BY <1>5, <2>2, <2>3, <2>4 DEF Faults
<1>6. CASE \E d \in net : NatDrops(d)
  <2>1. /\ UNCHANGED <<natVars, probeVars>> /\ conn' = conn
        /\ sending' = sending /\ net' \subseteq net /\ handoffs' \subseteq handoffs
    BY <1>6 DEF NatDrops, tcpVars
  <2>2. Messages'
    BY <1>0, <1>a, <2>1, MessagesShrink
  <2> QED BY <1>0, <2>1, <2>2, RepliesRest, OthersTrue
<1>7. CASE \E d \in Strays : Stray(d)
  <2>1. UNCHANGED <<natVars, probeVars>> /\ conn' = conn
    BY <1>7 DEF Stray, tcpVars
  <2>2. Messages'
    BY <1>0, <1>7, StrayKeeps
  <2> QED BY <1>0, <2>1, <2>2, RepliesRest, OthersTrue
<1>8. CASE \E c \in Conn : OtherClient(c)
  <2>1. PICK c \in Conn : OtherClient(c)
    BY <1>8
  <2>2. UNCHANGED <<natVars, probeVars>>
    BY <2>1 DEF OtherClient
  <2>3. Connect(c) \/ (\E m : Say(c, m)) \/ TakeReply(c) \/ HangUp(c)
    BY <2>1 DEF OtherClient
  <2>4. UNCHANGED <<net, sending, handoffs>>
    BY <2>3 DEF Connect, Say, TakeReply, HangUp, udpVars
  <2>5. Messages'
    BY <1>0, <1>a, <2>2, <2>4, MessagesShrink
  <2>6. Replies'
    BY <1>0, <2>3, ClientReplies
  <2> QED BY <2>2, <2>5, <2>6, OthersTrue
<1>9. CASE UNCHANGED vars
  <2>1. /\ UNCHANGED <<natVars, probeVars>> /\ conn' = conn
        /\ sending' = sending /\ net' \subseteq net /\ handoffs' \subseteq handoffs
    BY <1>9 DEF vars, serverVars, udpVars, tcpVars
  <2>2. Messages'
    BY <1>0, <1>a, <2>1, MessagesShrink
  <2> QED BY <1>0, <2>1, <2>2, RepliesRest, OthersTrue
<1> QED BY <1>1, <1>2, <1>3, <1>4, <1>5, <1>6, <1>7, <1>8, <1>9 DEF Next

(* Behind any NAT, with any servers, targets and faults, a report of the   *)
(* prober claims no more of the NAT than holds (transact, detect_mapping,  *)
(* detect_filtering, probe_tcp).                                           *)
THEOREM ReportsAreTrue == Spec => []ReportIsTrue
<1>1. Init => ProbeInv /\ AccountInv
  BY InitIsTrue, InitBalances
<1>2. ProbeInv /\ AccountInv /\ [Next]_vars => ProbeInv' /\ AccountInv'
  BY NextIsTrue, NextBalances
<1>3. ProbeInv => ReportIsTrue
  BY DEF ProbeInv
<1> QED BY <1>1, <1>2, <1>3, PTL DEF Spec

-----------------------------------------------------------------------------
(* What the other side reads in a message of either side.                  *)

Tuple(s) == \E n \in Nat : DOMAIN s = 1..n

(* An attribute that is there once is found.                               *)
LEMMA FoundOnce ==
  ASSUME NEW m, NEW a, Tuple(m.attrs), NEW i \in DOMAIN m.attrs, m.attrs[i].attr = a,
         \A j \in DOMAIN m.attrs : m.attrs[j].attr = a => j = i
  PROVE  Has(m, a) /\ First(m, a) = m.attrs[i].value
<1> DEFINE P(k) == m.attrs[k].attr = a /\ \A j \in 1..(k - 1) : m.attrs[j].attr # a
<1>1. PICK n \in Nat : DOMAIN m.attrs = 1..n
  BY DEF Tuple
<1>2. P(i)
  <2>1. \A j \in 1..(i - 1) : j \in DOMAIN m.attrs /\ j # i
    BY <1>1
  <2> QED BY <2>1
<1>3. \A k \in DOMAIN m.attrs : P(k) => k = i
  OBVIOUS
<1>4. Place(m, a) = CHOOSE k \in DOMAIN m.attrs : P(k)
  BY DEF Place
<1> HIDE DEF P
<1>5. Place(m, a) = i
  BY <1>2, <1>3, <1>4
<1> QED BY <1>5 DEF Has, First

LEMMA NotFound ==
  ASSUME NEW m, NEW a, \A j \in DOMAIN m.attrs : m.attrs[j].attr # a
  PROVE  ~Has(m, a) /\ First(m, a) = None
  BY DEF Has, First

LEMMA RequestDecoded ==
  ASSUME NEW txid, NEW change \in Flags
  PROVE  LET m == encode_binding_request_with(txid, change) IN
         /\ m.txid = txid /\ decode(m).is = "request" /\ decode_rfc5780(m).ok
         /\ decode_rfc5780(m).change_request = IF change = NONE THEN None ELSE change
<1> DEFINE m == encode_binding_request_with(txid, change)
           v == IF change = NONE THEN None ELSE change
           r == decode_rfc5780(m)
<1>1. m = [type |-> "request", txid |-> txid, attrs |-> IfPresent("CHANGE-REQUEST", v)]
  BY DEF encode_binding_request_with, Message
<1>2. m.type = "request" /\ m.txid = txid /\ m.attrs = IfPresent("CHANGE-REQUEST", v)
  BY <1>1
<1> HIDE DEF m
<1>3. First(m, "CHANGE-REQUEST") = v /\ First(m, "RESPONSE-ORIGIN") = None
      /\ First(m, "OTHER-ADDRESS") = None
  <2>1. CASE v = None
    <3>1. DOMAIN m.attrs = {}
      BY <1>2, <2>1 DEF IfPresent
    <3> QED BY <2>1, <3>1, NotFound
  <2>2. CASE v # None
    <3> DEFINE x == Attr("CHANGE-REQUEST", v)
    <3>1. m.attrs = <<x>>
      BY <1>2, <2>2 DEF IfPresent
    <3>2. x.attr = "CHANGE-REQUEST" /\ x.value = v
      BY DEF Attr
    <3> HIDE DEF x
    <3>3. DOMAIN m.attrs = 1..1 /\ m.attrs[1] = x
      BY <3>1
    <3>4. Tuple(m.attrs) /\ 1 \in DOMAIN m.attrs
          /\ \A j \in DOMAIN m.attrs : j = 1 /\ m.attrs[j].attr = "CHANGE-REQUEST"
      BY <3>2, <3>3 DEF Tuple
    <3>5. First(m, "CHANGE-REQUEST") = v
      BY <3>2, <3>3, <3>4, FoundOnce
    <3>6. First(m, "RESPONSE-ORIGIN") = None /\ First(m, "OTHER-ADDRESS") = None
      BY <3>4, NotFound
    <3> QED BY <3>5, <3>6
  <2> QED BY <2>1, <2>2
<1>4. decode(m).is = "request"
  BY <1>2 DEF decode, Decoded
<1>5. v # Bad
  BY CodecAssumption
<1> HIDE DEF v
<1>6. r.ok /\ r.change_request = v
  BY <1>2, <1>3, <1>5, CodecAssumption DEF decode_rfc5780, Decodes
<1> QED BY <1>2, <1>4, <1>6 DEF m, v

LEMMA EndpointsArePresent == ASSUME NEW a \in Endpoint PROVE a \notin {None, Bad}
  BY ServerAssumption DEF Endpoint

LEMMA MappedIsPresent ==
  ASSUME Fixed, NEW t \in Endpoint
  PROVE  MappedTo(t) \notin {None, Bad} /\ MappedTo(t).ip \in {"c", "n"}
<1> DEFINE A == {Address("c", 1), Address("n", 1)} \cup
                [ip : {"n"}, port : Server \cup [ip : Server, port : {1, 2}]]
<1>1. MappedTo(t) \in A
  BY DEF MappedTo, Host, Fixed, Mappings, Address, Endpoint
<1>2. \A a \in A : a.ip \in {"c", "n"}
  BY DEF Address
<1>3. {None, Bad} \cap A = {}
  BY ProbeAssumption
<1> HIDE DEF A
<1> QED BY <1>1, <1>2, <1>3

LEMMA Tuples ==
  ASSUME NEW p, NEW q, NEW r
  PROVE  /\ <<p>> \o <<>> = <<p>> /\ <<p>> \o <<q>> = <<p, q>>
         /\ <<p, q>> \o <<>> = <<p, q>> /\ <<p, q>> \o <<r>> = <<p, q, r>>
<1> DEFINE S == {p, q, r}
<1>1. /\ <<>> \in Seq(S) /\ <<p>> \in Seq(S) /\ <<q>> \in Seq(S) /\ <<r>> \in Seq(S)
      /\ <<p, q>> \in Seq(S) /\ <<p, q, r>> \in Seq(S)
  OBVIOUS
<1>2. <<p>> \o <<>> = <<p>> /\ <<p, q>> \o <<>> = <<p, q>>
  BY <1>1, ConcatEmptySeq
<1>3. <<p>> \o <<q>> = <<p, q>>
  <2> DEFINE c == <<p>> \o <<q>>
  <2>1. c \in Seq(S) /\ Len(c) = 2 /\ c[1] = p /\ c[2] = q
    BY <1>1, ConcatProperties
  <2> HIDE DEF c
  <2>2. c = <<p, q>>
    BY <1>1, <2>1, SeqEqual
  <2> QED BY <2>2 DEF c
<1>4. <<p, q>> \o <<r>> = <<p, q, r>>
  <2> DEFINE c == <<p, q>> \o <<r>>
  <2>1. c \in Seq(S) /\ Len(c) = 3 /\ c[1] = p /\ c[2] = q /\ c[3] = r
    BY <1>1, ConcatProperties
  <2> HIDE DEF c
  <2>2. c = <<p, q, r>>
    BY <1>1, <2>1, SeqEqual
  <2> QED BY <2>2 DEF c
<1> QED BY <1>2, <1>3, <1>4

LEMMA SuccessDecoded ==
  ASSUME NEW txid, NEW mapped, NEW origin, NEW other, mapped \notin {None, Bad},
         origin \notin {None, Bad}, other # Bad
  PROVE  LET m == encode_binding_success_with(txid, mapped, origin, other) IN
         /\ m.txid = txid /\ decode(m).is = "success" /\ decode(m).mapped = mapped
         /\ decode_rfc5780(m).ok /\ decode_rfc5780(m).other_address = other
<1> DEFINE m == encode_binding_success_with(txid, mapped, origin, other)
           x == Attr("XOR-MAPPED-ADDRESS", mapped)
           o == Attr("RESPONSE-ORIGIN", origin)
           a == Attr("OTHER-ADDRESS", other)
<1>1. m.type = "success" /\ m.txid = txid /\ MappedAddress(m) = mapped
  BY SuccessIsMapped
<1>2. decode(m).is = "success" /\ decode(m).mapped = mapped
  BY <1>1 DEF decode, Decoded
<1>3. m.attrs = IF other = None THEN <<x, o>> ELSE <<x, o, a>>
  <2>1. m.attrs = <<x>> \o <<o>> \o (IF other = None THEN <<>> ELSE <<a>>)
    BY DEF encode_binding_success_with, Message, IfPresent
  <2> HIDE DEF m, x, o, a
  <2>2. <<x>> \o <<o>> = <<x, o>> /\ <<x, o>> \o <<>> = <<x, o>> /\ <<x, o>> \o <<a>> = <<x, o, a>>
    BY Tuples
  <2> QED BY <2>1, <2>2
<1>4. /\ x.attr = "XOR-MAPPED-ADDRESS" /\ o.attr = "RESPONSE-ORIGIN" /\ a.attr = "OTHER-ADDRESS"
      /\ o.value = origin /\ a.value = other
  BY DEF Attr
<1> HIDE DEF m, x, o, a
<1>5. First(m, "CHANGE-REQUEST") = None /\ First(m, "RESPONSE-ORIGIN") = origin
      /\ First(m, "OTHER-ADDRESS") = other
  <2>1. CASE other = None
    <3>1. /\ DOMAIN m.attrs = 1..2 /\ m.attrs[1] = x /\ m.attrs[2] = o
      BY <1>3, <2>1
    <3>2. Tuple(m.attrs) /\ 2 \in DOMAIN m.attrs /\ \A j \in DOMAIN m.attrs : j = 1 \/ j = 2
      BY <3>1 DEF Tuple
    <3>3. First(m, "RESPONSE-ORIGIN") = origin
      BY <1>4, <3>1, <3>2, FoundOnce
    <3>4. \A j \in DOMAIN m.attrs : m.attrs[j].attr \notin {"CHANGE-REQUEST", "OTHER-ADDRESS"}
      BY <1>4, <3>1, <3>2
    <3> QED BY <2>1, <3>3, <3>4, NotFound
  <2>2. CASE other # None
    <3>1. /\ DOMAIN m.attrs = 1..3 /\ m.attrs[1] = x /\ m.attrs[2] = o /\ m.attrs[3] = a
      BY <1>3, <2>2
    <3>2. /\ Tuple(m.attrs) /\ 2 \in DOMAIN m.attrs /\ 3 \in DOMAIN m.attrs
          /\ \A j \in DOMAIN m.attrs : j = 1 \/ j = 2 \/ j = 3
      BY <3>1 DEF Tuple
    <3>3. First(m, "RESPONSE-ORIGIN") = origin
      BY <1>4, <3>1, <3>2, FoundOnce
    <3>4. First(m, "OTHER-ADDRESS") = other
      BY <1>4, <3>1, <3>2, FoundOnce
    <3>5. \A j \in DOMAIN m.attrs : m.attrs[j].attr # "CHANGE-REQUEST"
      BY <1>4, <3>1, <3>2
    <3> QED BY <3>3, <3>4, <3>5, NotFound
  <2> QED BY <2>1, <2>2
<1>6. decode_rfc5780(m).ok /\ decode_rfc5780(m).other_address = other
  BY <1>1, <1>5, CodecAssumption DEF decode_rfc5780, Decodes
<1> QED BY <1>1, <1>2, <1>6 DEF m

LEMMA ErrorDecoded ==
  ASSUME NEW txid, NEW code
  PROVE  LET m == encode_binding_error(txid, code) IN
         m.txid = txid /\ decode(m).is = "error" /\ decode(m).code = code
<1> DEFINE m == encode_binding_error(txid, code)
           e == Attr("ERROR-CODE", code)
           w == IF code = UNKNOWN_ATTRIBUTE THEN "CHANGE-REQUEST" ELSE None
           u == Attr("UNKNOWN-ATTRIBUTES", w)
<1>1. /\ m.type = "error" /\ m.txid = txid
      /\ m.attrs = <<e>> \o (IF w = None THEN <<>> ELSE <<u>>)
  BY DEF encode_binding_error, Message, IfPresent
<1>2. e.attr = "ERROR-CODE" /\ e.value = code /\ u.attr = "UNKNOWN-ATTRIBUTES"
  BY DEF Attr
<1> HIDE DEF m, e, u, w
<1>3. <<e>> \o <<>> = <<e>> /\ <<e>> \o <<u>> = <<e, u>>
  BY Tuples
<1>4. /\ \E n \in 1..2 : DOMAIN m.attrs = 1..n
      /\ m.attrs[1] = e
      /\ (2 \in DOMAIN m.attrs => m.attrs[2] = u)
  BY <1>1, <1>3
<1>5. Tuple(m.attrs) /\ 1 \in DOMAIN m.attrs /\ \A j \in DOMAIN m.attrs : j = 1 \/ j = 2
  BY <1>4 DEF Tuple
<1>6. Has(m, "ERROR-CODE") /\ First(m, "ERROR-CODE") = code
  <2>1. m.attrs[1].attr = "ERROR-CODE" /\ m.attrs[1].value = code
    BY <1>2, <1>4
  <2>2. \A j \in DOMAIN m.attrs : m.attrs[j].attr = "ERROR-CODE" => j = 1
    BY <1>2, <1>4, <1>5
  <2> QED BY <1>5, <2>1, <2>2, FoundOnce
<1>7. decode(m).is = "error" /\ decode(m).code = code
  BY <1>1, <1>6 DEF decode, Decoded
<1> QED BY <1>1, <1>7 DEF m

-----------------------------------------------------------------------------
(* A transaction in a quiet network: what is asked, what the server that   *)
(* is asked makes of it, and the answers it may give.                      *)
Question == encode_binding_request_with(step, Change)
Asking == Datagram(MappedTo(Target), Target, Question)
Which == IF Target = Addr(Target.ip, "Primary") THEN "Primary" ELSE "Alternate"
Verdict == route_change(Target.ip, Which, decode_rfc5780(Question))
Answer(s, from) ==
  Datagram(Addr(s, from), MappedTo(Target), Success(s, from, step, MappedTo(Target)))
Refusal == Datagram(Target, MappedTo(Target), encode_binding_error(step, Verdict.code))
Answers ==
  CASE Verdict.to = "answer"  -> {Answer(Target.ip, Verdict.from)}
    [] Verdict.to = "refuse"  -> {Refusal}
    [] Verdict.to = "handler" -> {Answer(PeerOf(Target.ip), w) : w \in Socket}
Silence == \A d \in Answers : ~LetsIn(d)

(* Only this transaction's traffic carries its identifier. *)
OwnDatagram(d) ==
  d.msg.txid \in 0..step /\ (d.msg.txid = step => d = Asking \/ d \in Answers)
OwnReply(s, r) ==
  /\ r.msg.txid \in 0..step
  /\ r.msg.txid = step => Datagram(Addr(s, r.from), r.to, r.msg) \in Answers
OwnHandoff(e) ==
  /\ e.txid \in 0..step
  /\ e.txid = step => \A from \in Socket :
       Datagram(Addr(e.to, from), e.client, Success(e.to, from, e.txid, e.client)) \in Answers
OwnTraffic ==
  /\ \A d \in net : OwnDatagram(d)
  /\ \A s \in Server, w \in Socket : sending[s][w] # <<>> => OwnReply(s, sending[s][w][1])
  /\ \A e \in handoffs : OwnHandoff(e)

(* Why detect_filtering has come this far, and what a waiting prober may   *)
(* count on: an answer is under way, or none will ever be let in.          *)
Reached == op = "filtering" =>
  /\ step > 1 => Server1.other
  /\ step > 2 => Server1.honours /\ Server1.handler /\ nat.filtering # "endpoint"
Expected == pc = "wait" => Target \in contacted /\ (UnderWay \/ Silence)

(* What a quiet network makes of a report.  The prober's classification of *)
(* mapping is named first, servers that are too much alike included: that  *)
(* is what its steps establish, and elsewhere it is the NAT's own kind.    *)
MappingKind ==
  CASE nat.mapping = "none" -> IF wildcard THEN "EndpointIndependent" ELSE "Open"
    [] nat.mapping = "endpoint" -> "EndpointIndependent"
    [] nat.mapping = "address" -> IF OneHost THEN "EndpointIndependent" ELSE "EndpointDependent"
    [] nat.mapping = "both" -> IF OneServer THEN "EndpointIndependent" ELSE "EndpointDependent"
FilteringResult ==
  CASE ~Server1.other -> Error("NoOtherAddress")
    [] Server1.other /\ ~Server1.honours -> Error("ChangeIgnored")
    [] Server1.other /\ Server1.honours /\ ~Server1.handler -> ServerError(UNKNOWN_ATTRIBUTE)
    [] OTHER ->
         Found(CASE nat.filtering = "endpoint" -> "EndpointIndependent"
                 [] nat.filtering # "endpoint" /\ ~Server1.alternate -> "AddressDependentOrStricter"
                 [] nat.filtering = "address" /\ Server1.alternate -> "AddressDependent"
                 [] nat.filtering = "both" /\ Server1.alternate -> "AddressAndPortDependent")

QuietReport ==
  Quiet => /\ op = "mapping" => report = Found(MappingKind)
           /\ op = "filtering" => report = FilteringResult

Configured ==
  /\ options \in [Server -> Options]
  /\ \A s \in Server : options[s].other \/ options[s].handler => Server # {s}
  /\ wildcard \in BOOLEAN /\ faults \in Nat
QuietInv == op \in Inside /\ faults = 0 /\ ~disturbed =>
  /\ pc # "done" => OwnTraffic /\ Reached /\ Expected
  /\ QuietReport

(* How a request is answered: as it was asked, by the other server, from   *)
(* the other port, or with a refusal.                                      *)
Plain  == Change = NONE \/ ~Server1.honours
Handed == ~Plain /\ Change = IP_AND_PORT /\ Server1.handler
Turned == ~Plain /\ Change = PORT /\ Server1.alternate

LEMMA FlagsDiffer ==
  NONE # PORT /\ NONE # IP_AND_PORT /\ PORT # IP_AND_PORT
  /\ {NONE, PORT, IP_AND_PORT} \subseteq Flags /\ IP_AND_PORT.change_ip /\ ~PORT.change_ip
  BY DEF NONE, PORT, IP_AND_PORT, Flags

LEMMA Asked ==
  ASSUME Fixed, Progress, op \in Inside, pc # "done"
  PROVE  /\ Target \in Endpoint /\ Target.ip \in Server
         /\ Target = TargetOf(step) /\ step \in Nat \ {0}
         /\ op = "mapping" => Change = NONE
         /\ op = "filtering" =>
              /\ step \in {1, 2, 3} /\ Target = targets[1]
              /\ Change = IF step = 1 THEN NONE ELSE IF step = 2 THEN IP_AND_PORT ELSE PORT
         /\ Change \in {NONE, PORT, IP_AND_PORT}
<1>1. Len(targets) \in Nat /\ DOMAIN targets = 1..Len(targets)
      /\ \A i \in 1..Len(targets) : targets[i] \in Endpoint
  BY LenProperties DEF Fixed
<1>2. step \in Nat \ {0} /\ (op = "mapping" => step \in 1..Len(targets))
      /\ (op = "filtering" => step \in {1, 2, 3})
  BY <1>1 DEF Progress
<1>3. Target = TargetOf(step) /\ (op = "filtering" => Target = targets[1])
  BY DEF Target, TargetOf
<1>4. Target \in Endpoint
  BY <1>1, <1>2 DEF Target, Inside, Fixed
<1>5. Target.ip \in Server
  BY <1>4 DEF Endpoint
<1>6. op = "filtering" => Change = IF step = 1 THEN NONE ELSE IF step = 2 THEN IP_AND_PORT ELSE PORT
  BY <1>2 DEF Change
<1>7. op = "mapping" => Change = NONE
  BY DEF Change
<1> QED BY <1>2, <1>3, <1>4, <1>5, <1>6, <1>7 DEF Inside

(* The socket a request arrives on. *)
LEMMA WhichIs ==
  ASSUME Target \in Endpoint
  PROVE  /\ Which \in Socket /\ Addr(Target.ip, Which) = Target
         /\ \A s \in Server, w \in Socket : Target = Addr(s, w) => s = Target.ip /\ w = Which
         /\ \A s \in Server, w \in Socket : Addr(s, w) \in Endpoint /\ Addr(s, w).ip = s
  BY DEF Which, Addr, Address, Endpoint, Socket

LEMMA PeerIs ==
  ASSUME Configured, NEW s \in Server, options[s].other \/ options[s].handler
  PROVE  PeerOf(s) \in Server /\ PeerOf(s) # s
<1>1. \E t \in Server : t # s
  BY DEF Configured
<1> QED BY <1>1 DEF PeerOf

(* What the server that is asked decides. *)
LEMMA VerdictIs ==
  ASSUME Fixed, Progress, Configured, op \in Inside, pc # "done"
  PROVE  /\ Plain => Verdict = [to |-> "answer", from |-> Which]
         /\ Handed => Verdict.to = "handler"
         /\ Turned => Verdict = [to |-> "answer",
                                 from |-> IF Which = "Primary" THEN "Alternate" ELSE "Primary"]
         /\ ~Plain /\ ~Handed /\ ~Turned =>
              Verdict = [to |-> "refuse", code |-> UNKNOWN_ATTRIBUTE]
<1> DEFINE rfc == decode_rfc5780(Question)
           change == IF rfc.change_request = None THEN NONE ELSE rfc.change_request
           s == Target.ip
<1>1. Change \in {NONE, PORT, IP_AND_PORT} /\ {NONE, PORT, IP_AND_PORT} \subseteq Flags
  BY Asked, FlagsDiffer
<1>2. rfc.ok /\ rfc.change_request = IF Change = NONE THEN None ELSE Change
  <2>1. Change \in Flags
    BY <1>1
  <2> QED BY <2>1, RequestDecoded DEF Question
<1>3. None \notin Flags
  BY CodecAssumption
<1>4. change = Change
  BY <1>1, <1>2, <1>3
<1>5. Server1 = options[s] /\ Verdict = route_change(s, Which, rfc)
  BY DEF Server1, Verdict
<1>6. options[s].honours \in BOOLEAN /\ options[s].handler \in BOOLEAN /\ options[s].alternate \in BOOLEAN
  BY Asked DEF Configured, Options
<1> HIDE DEF rfc, s
<1>7. CASE Plain
  BY <1>2, <1>4, <1>5, <1>7, FlagsDiffer DEF Plain, Handed, Turned, route_change
<1>8. CASE Handed
  BY <1>2, <1>4, <1>5, <1>8, FlagsDiffer DEF Plain, Handed, Turned, route_change
<1>9. CASE Turned
  BY <1>2, <1>4, <1>5, <1>9, FlagsDiffer DEF Plain, Handed, Turned, route_change
<1>10. CASE ~Plain /\ ~Handed /\ ~Turned
  <2>1. Change = PORT \/ Change = IP_AND_PORT
    BY <1>1, <1>10 DEF Plain
  <2>2. options[s].honours
    BY <1>5, <1>10 DEF Plain
  <2>3. Change = PORT => ~options[s].alternate
    BY <1>5, <1>10 DEF Turned
  <2>4. Change = IP_AND_PORT => ~options[s].handler
    BY <1>5, <1>10 DEF Handed
  <2> QED BY <1>2, <1>4, <1>5, <1>10, <2>1, <2>2, <2>3, <2>4, FlagsDiffer DEF route_change
<1> QED BY <1>7, <1>8, <1>9, <1>10

(* What the prober decodes from the answer it is given, and where it comes *)
(* from.                                                                   *)
Succeeds(d) ==
  /\ decode(d.msg).is = "success" /\ decode(d.msg).mapped = MappedTo(Target)
  /\ decode_rfc5780(d.msg).ok
  /\ d.src.ip = Target.ip => (decode_rfc5780(d.msg).other_address = None) = ~Server1.other

LEMMA OtherIsPresent ==
  ASSUME Configured, NEW s \in Server
  PROVE  OtherAddress(s) # Bad /\ (OtherAddress(s) = None) = ~options[s].other
<1>1. CASE options[s].other
  <2>1. PeerOf(s) \in Server
    BY <1>1, PeerIs
  <2>2. OtherAddress(s) \in Endpoint
    BY <1>1, <2>1 DEF OtherAddress, Addr, Address, Endpoint
  <2>3. OtherAddress(s) \notin {None, Bad}
    BY <2>2, EndpointsArePresent
  <2> QED BY <1>1, <2>3
<1>2. CASE ~options[s].other
  BY <1>2, CodecAssumption DEF OtherAddress
<1>3. options[s].other \in BOOLEAN
  BY DEF Configured, Options
<1> QED BY <1>1, <1>2, <1>3

LEMMA AnswerIs ==
  ASSUME Fixed, Progress, Configured, op \in Inside, pc # "done",
         NEW s \in Server, NEW w \in Socket
  PROVE  LET d == Answer(s, w) IN
         d.src = Addr(s, w) /\ d.dst = MappedTo(Target) /\ d.msg.txid = step /\ Succeeds(d)
<1> DEFINE d == Answer(s, w)
           m == Success(s, w, step, MappedTo(Target))
<1>1. d.src = Addr(s, w) /\ d.dst = MappedTo(Target) /\ d.msg = m
  BY DEF Answer, Datagram
<1>2. MappedTo(Target) \notin {None, Bad} /\ Addr(s, w) \notin {None, Bad}
      /\ OtherAddress(s) # Bad /\ (OtherAddress(s) = None) = ~options[s].other
  <2>1. Target \in Endpoint
    BY Asked
  <2>2. Addr(s, w) \in Endpoint
    BY DEF Addr, Address, Endpoint
  <2> QED BY <2>1, <2>2, MappedIsPresent, EndpointsArePresent, OtherIsPresent
<1>3. /\ m.txid = step /\ decode(m).is = "success" /\ decode(m).mapped = MappedTo(Target)
      /\ decode_rfc5780(m).ok /\ decode_rfc5780(m).other_address = OtherAddress(s)
  BY <1>2, SuccessDecoded DEF Success
<1>4. Addr(s, w).ip = s
  BY DEF Addr, Address
<1> HIDE DEF d, m
<1>5. Succeeds(d)
  BY <1>1, <1>2, <1>3, <1>4 DEF Succeeds, Server1
<1> QED BY <1>1, <1>3, <1>5 DEF d

LEMMA AnswersAre ==
  ASSUME Fixed, Progress, Configured, op \in Inside, pc # "done"
  PROVE  /\ Answers # {}
         /\ \A d \in Answers :
              /\ d.dst = MappedTo(Target) /\ d.msg.txid = step
              /\ Plain => d.src = Target /\ Succeeds(d)
              /\ Handed => d.src.ip # Target.ip /\ Succeeds(d)
              /\ Turned => d.src.ip = Target.ip /\ d.src # Target /\ Succeeds(d)
              /\ ~Plain /\ ~Handed /\ ~Turned =>
                   /\ d.src = Target /\ decode(d.msg).is = "error"
                   /\ decode(d.msg).code = UNKNOWN_ATTRIBUTE
<1>1. Target \in Endpoint /\ Target.ip \in Server
  BY Asked
<1>2. /\ Which \in Socket /\ Addr(Target.ip, Which) = Target
      /\ \A s \in Server, w \in Socket : Target = Addr(s, w) => s = Target.ip /\ w = Which
      /\ \A s \in Server, w \in Socket : Addr(s, w) \in Endpoint /\ Addr(s, w).ip = s
  BY <1>1, WhichIs
<1>3. ~(Plain /\ Handed) /\ ~(Plain /\ Turned) /\ ~(Handed /\ Turned)
  BY FlagsDiffer DEF Plain, Handed, Turned
<1>4. CASE Plain
  <2>1. Answers = {Answer(Target.ip, Which)}
    BY <1>4, VerdictIs DEF Answers
  <2>2. LET d == Answer(Target.ip, Which) IN
        d.src = Target /\ d.dst = MappedTo(Target) /\ d.msg.txid = step /\ Succeeds(d)
    BY <1>1, <1>2, AnswerIs
  <2> QED BY <1>3, <1>4, <2>1, <2>2
<1>5. CASE Handed
  <2>1. Verdict.to = "handler"
    BY <1>5, VerdictIs
  <2>2. Answers = {Answer(PeerOf(Target.ip), w) : w \in Socket}
    BY <2>1 DEF Answers
  <2>3. PeerOf(Target.ip) \in Server /\ PeerOf(Target.ip) # Target.ip
    BY <1>1, <1>5, PeerIs DEF Handed, Server1
  <2>4. \A w \in Socket : LET d == Answer(PeerOf(Target.ip), w) IN
          d.src.ip # Target.ip /\ d.dst = MappedTo(Target) /\ d.msg.txid = step /\ Succeeds(d)
    BY <1>2, <2>3, AnswerIs
  <2>5. Socket # {}
    BY DEF Socket
  <2> QED BY <1>3, <1>5, <2>2, <2>4, <2>5
<1>6. CASE Turned
  <2> DEFINE w == IF Which = "Primary" THEN "Alternate" ELSE "Primary"
  <2>1. Answers = {Answer(Target.ip, w)}
    BY <1>6, VerdictIs DEF Answers
  <2>2. w \in Socket /\ w # Which
    BY <1>2 DEF Socket
  <2> HIDE DEF w
  <2>3. LET d == Answer(Target.ip, w) IN
        d.src = Addr(Target.ip, w) /\ d.dst = MappedTo(Target) /\ d.msg.txid = step /\ Succeeds(d)
    BY <1>1, <2>2, AnswerIs
  <2>4. Addr(Target.ip, w).ip = Target.ip /\ Addr(Target.ip, w) # Target
    BY <1>1, <1>2, <2>2
  <2> QED BY <1>3, <1>6, <2>1, <2>3, <2>4
<1>7. CASE ~Plain /\ ~Handed /\ ~Turned
  <2>1. Verdict = [to |-> "refuse", code |-> UNKNOWN_ATTRIBUTE]
    BY <1>7, VerdictIs
  <2>2. Answers = {Refusal} /\ Verdict.code = UNKNOWN_ATTRIBUTE
    BY <2>1 DEF Answers
  <2> DEFINE m == encode_binding_error(step, UNKNOWN_ATTRIBUTE)
  <2>3. Refusal.src = Target /\ Refusal.dst = MappedTo(Target) /\ Refusal.msg = m
    BY <2>2 DEF Refusal, Datagram
  <2>4. m.txid = step /\ decode(m).is = "error" /\ decode(m).code = UNKNOWN_ATTRIBUTE
    BY ErrorDecoded
  <2> HIDE DEF m
  <2> QED BY <1>7, <2>2, <2>3, <2>4
<1> QED BY <1>4, <1>5, <1>6, <1>7

(* Whom the NAT lets in, for a target the socket has sent to: what comes   *)
(* from the target itself; and the filter treats all answers alike.        *)
LEMMA LetIn ==
  ASSUME Fixed, Progress, Configured, op \in Inside, pc # "done", Target \in contacted,
         NEW d \in Answers
  PROVE  /\ Plain \/ (~Handed /\ ~Turned) => LetsIn(d)
         /\ Handed => (LetsIn(d) <=> nat.filtering = "endpoint")
         /\ Turned => (LetsIn(d) <=> nat.filtering # "both")
<1>1. /\ d.dst = MappedTo(Target)
      /\ Plain => d.src = Target
      /\ Handed => d.src.ip # Target.ip
      /\ Turned => d.src.ip = Target.ip /\ d.src # Target
      /\ ~Plain /\ ~Handed /\ ~Turned => d.src = Target
  BY AnswersAre
<1>2. nat.filtering \in {"endpoint", "address", "both"}
  BY DEF Fixed, Filtering
<1> DEFINE F(t) == CASE nat.filtering = "endpoint" -> TRUE
                     [] nat.filtering = "address"  -> t.ip = d.src.ip
                     [] nat.filtering = "both"     -> t = d.src
<1>3. LetsIn(d) <=> \E t \in contacted : d.dst = MappedTo(t) /\ F(t)
  BY DEF LetsIn
<1>4. d.src = Target => F(Target)
  BY <1>2
<1>5. Handed \/ Turned => op = "filtering"
  BY Asked DEF Handed, Turned, Plain, Inside
<1>6. op = "filtering" => \A t \in contacted : t = Target
  BY DEF Progress, Target
<1>7. d.src.ip # Target.ip => (F(Target) <=> nat.filtering = "endpoint")
  BY <1>2
<1>8. d.src.ip = Target.ip /\ d.src # Target => (F(Target) <=> nat.filtering # "both")
  BY <1>2
<1> HIDE DEF F
<1>9. F(Target) => LetsIn(d)
  BY <1>1, <1>3
<1>10. op = "filtering" => (LetsIn(d) <=> F(Target))
  BY <1>1, <1>3, <1>6
<1> QED BY <1>1, <1>4, <1>5, <1>7, <1>8, <1>9, <1>10

LEMMA AllOrNone ==
  ASSUME Fixed, Progress, Configured, op \in Inside, pc # "done", Target \in contacted
  PROVE  /\ Silence \/ \A d \in Answers : LetsIn(d)
         /\ Plain \/ (~Handed /\ ~Turned) => ~Silence
         /\ Silence /\ Handed => nat.filtering # "endpoint"
         /\ Silence /\ Turned => nat.filtering = "both"
<1>1. Answers # {}
  BY AnswersAre
<1> QED BY <1>1, LetIn DEF Silence

-----------------------------------------------------------------------------
LEMMA QuietReportIsExact == QuietReport => QuietNetworkIsExact
<1>1. ~TooAlike => MappingKind =
        CASE nat.mapping = "none" -> IF wildcard THEN "EndpointIndependent" ELSE "Open"
          [] nat.mapping = "endpoint" -> "EndpointIndependent"
          [] nat.mapping \in {"address", "both"} -> "EndpointDependent"
  BY DEF TooAlike, MappingKind
<1> QED BY <1>1 DEF QuietReport, QuietNetworkIsExact, FilteringResult

LEMMA ResultsStay ==
  ASSUME UNCHANGED <<options, nat, wildcard, op, targets>>
  PROVE  MappingKind' = MappingKind /\ (op = "filtering" => FilteringResult' = FilteringResult)
<1>1. OneHost' = OneHost /\ OneServer' = OneServer
  BY DEF OneHost, OneServer
<1>2. op = "filtering" => Server1' = Server1
  BY DEF Server1, Target
<1>3. MappingKind' = MappingKind
  BY <1>1 DEF MappingKind
<1>4. op = "filtering" => FilteringResult' = FilteringResult
  BY <1>2 DEF FilteringResult
<1> QED BY <1>3, <1>4

(* detect_mapping's classification by what the servers saw is the NAT's.   *)
LEMMA ClassifiedExact ==
  ASSUME Fixed, Configured, NEW found, DOMAIN found = 1..Len(targets),
         \A i \in 1..Len(targets) : found[i] = MappedTo(targets[i])
  PROVE  MappingOf(found) = MappingKind
<1>1. Len(targets) \in Nat /\ 1 \in 1..Len(targets) /\ DOMAIN targets = 1..Len(targets)
  BY LenProperties DEF Fixed
<1>2. nat.mapping \in {"none", "endpoint", "address", "both"} /\ wildcard \in BOOLEAN
  BY DEF Fixed, Mappings, Configured
<1>3. found[1] = MappedTo(targets[1])
  BY <1>1
<1> DEFINE Same == \A i \in 1..Len(targets) : MappedTo(targets[i]) = MappedTo(targets[1])
<1>4. MappingOf(found) = IF ~Same THEN "EndpointDependent"
                         ELSE IF found[1] = local THEN "Open" ELSE "EndpointIndependent"
  BY <1>1, <1>3 DEF MappingOf
<1>5. CASE nat.mapping = "none"
  <2>1. Same /\ found[1] = Host
    BY <1>3, <1>5 DEF MappedTo
  <2>2. Host = local <=> ~wildcard
    BY DEF local, Host, Address
  <2> QED BY <1>2, <1>4, <1>5, <2>1, <2>2 DEF MappingKind
<1>6. CASE nat.mapping = "endpoint"
  <2>1. Same /\ found[1] = Address("n", 1)
    BY <1>3, <1>6 DEF MappedTo
  <2>2. found[1] # local
    BY <2>1 DEF local, Host, Address
  <2> QED BY <1>4, <1>6, <2>1, <2>2 DEF MappingKind
<1>7. CASE nat.mapping = "address"
  <2>1. \A t : MappedTo(t) = [ip |-> "n", port |-> t.ip]
    BY <1>7 DEF MappedTo
  <2>2. found[1] # local
    BY <1>3, <2>1 DEF local, Host, Address
  <2>3. Same <=> OneHost
    BY <1>1, <2>1 DEF OneHost
  <2> HIDE DEF Same
  <2> QED BY <1>4, <1>7, <2>2, <2>3 DEF MappingKind
<1>8. CASE nat.mapping = "both"
  <2>1. \A t : MappedTo(t) = [ip |-> "n", port |-> t]
    BY <1>8 DEF MappedTo
  <2>2. found[1] # local
    BY <1>3, <2>1 DEF local, Host, Address
  <2>3. Same <=> OneServer
    BY <1>1, <2>1 DEF OneServer
  <2> HIDE DEF Same
  <2> QED BY <1>4, <1>8, <2>2, <2>3 DEF MappingKind
<1> QED BY <1>2, <1>5, <1>6, <1>7, <1>8

(* The outcome of a transaction in a quiet network. *)
ExactOutcome(outcome) ==
  /\ Plain => /\ outcome.is = "answer" /\ outcome.from = Target
              /\ outcome.mapped = MappedTo(Target) /\ outcome.extra.ok
              /\ (outcome.extra.other_address = None) = ~Server1.other
  /\ Handed => IF nat.filtering = "endpoint"
               THEN outcome.is = "answer" /\ outcome.from.ip # Target.ip
               ELSE outcome = Error("Timeout")
  /\ Turned => IF nat.filtering # "both"
               THEN outcome.is = "answer" /\ outcome.from # Target
               ELSE outcome = Error("Timeout")
  /\ ~Plain /\ ~Handed /\ ~Turned => outcome = ServerError(UNKNOWN_ATTRIBUTE)

LEMMA HeardExact ==
  ASSUME Fixed, Progress, Configured, op \in Inside, pc # "done", Target \in contacted,
         NEW d \in Answers, LetsIn(d)
  PROVE  /\ Heard(d).is = "answer" => ExactOutcome(Heard(d))
         /\ Heard(d).is = "refusal" => ExactOutcome(ServerError(Heard(d).code))
         /\ Heard(d).is \in {"answer", "refusal"}
<1> DEFINE m == decode(d.msg)
           mine == d.msg.txid = step /\ (Change # NONE \/ d.src = Target)
<1>1. /\ d.msg.txid = step
      /\ Plain => d.src = Target /\ Succeeds(d)
      /\ Handed => d.src.ip # Target.ip /\ Succeeds(d)
      /\ Turned => d.src.ip = Target.ip /\ d.src # Target /\ Succeeds(d)
      /\ ~Plain /\ ~Handed /\ ~Turned =>
           d.src = Target /\ m.is = "error" /\ m.code = UNKNOWN_ATTRIBUTE
  BY AnswersAre
<1>2. Handed => nat.filtering = "endpoint"
  BY LetIn
<1>3. Turned => nat.filtering # "both"
  BY LetIn
<1>4. ~(Plain /\ Handed) /\ ~(Plain /\ Turned) /\ ~(Handed /\ Turned)
  BY FlagsDiffer DEF Plain, Handed, Turned
<1>5. mine
  BY <1>1 DEF Plain
<1>6. ASSUME Succeeds(d)
      PROVE  /\ Heard(d).is = "answer" /\ Heard(d).from = d.src
             /\ Heard(d).mapped = MappedTo(Target) /\ Heard(d).extra = decode_rfc5780(d.msg)
  <2>1. m.is = "success" /\ m.mapped = MappedTo(Target)
    BY <1>6 DEF Succeeds
  <2>2. ~(m.is = "error")
    BY <2>1
  <2>3. Heard(d) = [is |-> "answer", from |-> d.src, mapped |-> m.mapped,
                    extra |-> decode_rfc5780(d.msg)]
    BY <1>5, <2>1, <2>2 DEF Heard
  <2> HIDE DEF m
  <2> QED BY <2>1, <2>3
<1> HIDE DEF mine
<1>7. CASE Plain
  <2>1. /\ decode_rfc5780(d.msg).ok
        /\ (decode_rfc5780(d.msg).other_address = None) = ~Server1.other
    BY <1>1, <1>7 DEF Succeeds
  <2> QED BY <1>1, <1>4, <1>6, <1>7, <2>1 DEF ExactOutcome
<1>8. CASE Handed
  BY <1>1, <1>2, <1>4, <1>6, <1>8 DEF ExactOutcome
<1>9. CASE Turned
  BY <1>1, <1>3, <1>4, <1>6, <1>9 DEF ExactOutcome
<1>10. CASE ~Plain /\ ~Handed /\ ~Turned
  <2>1. m.is = "error" /\ m.code = UNKNOWN_ATTRIBUTE /\ ~(m.is = "success")
    BY <1>1, <1>10
  <2>2. Heard(d) = [is |-> "refusal", code |-> m.code]
    BY <1>5, <2>1 DEF Heard, mine
  <2> HIDE DEF m
  <2>3. Heard(d).is = "refusal" /\ Heard(d).code = UNKNOWN_ATTRIBUTE
    BY <2>1, <2>2
  <2> QED BY <1>10, <2>3 DEF ExactOutcome
<1> QED BY <1>7, <1>8, <1>9, <1>10

LEMMA SilenceExact ==
  ASSUME Fixed, Progress, Configured, op \in Inside, pc # "done", Target \in contacted, Silence
  PROVE  ExactOutcome(Error("Timeout"))
<1>1. ~Plain /\ (Handed \/ Turned)
  BY AllOrNone
<1>2. Handed => nat.filtering # "endpoint"
  BY AllOrNone
<1>3. Turned => nat.filtering = "both"
  BY AllOrNone
<1> QED BY <1>1, <1>2, <1>3 DEF ExactOutcome

-----------------------------------------------------------------------------
(* While the transaction stays the same, so do its question and answers.   *)
LEMMA SameTransaction ==
  ASSUME UNCHANGED <<options, nat, op, targets, step>>
  PROVE  /\ Target' = Target /\ Server1' = Server1 /\ Answers' = Answers
         /\ \A d : OwnDatagram(d)' <=> OwnDatagram(d)
         /\ \A s, r : OwnReply(s, r)' <=> OwnReply(s, r)
         /\ \A e : OwnHandoff(e)' <=> OwnHandoff(e)
<1>1. Target' = Target /\ Change' = Change
  BY DEF Target, Change
<1>2. MappedTo(Target)' = MappedTo(Target)
  BY <1>1 DEF MappedTo
<1>3. Server1' = Server1
  BY <1>1 DEF Server1
<1>4. Question' = Question /\ Which' = Which
  BY <1>1 DEF Question, Which
<1>5. Asking' = Asking
  BY <1>1, <1>2, <1>4 DEF Asking
<1>6. Verdict' = Verdict
  BY <1>1, <1>4 DEF Verdict, route_change
<1>7. \A s, w, txid, client : Success(s, w, txid, client)' = Success(s, w, txid, client)
  BY DEF Success, OtherAddress
<1>8. \A s, w : Answer(s, w)' = Answer(s, w)
  BY <1>2, <1>7 DEF Answer
<1>9. Refusal' = Refusal
  BY <1>1, <1>2, <1>6 DEF Refusal
<1>10. Answers' = Answers
  BY <1>1, <1>6, <1>8, <1>9 DEF Answers
<1> QED BY <1>1, <1>3, <1>5, <1>7, <1>10 DEF OwnDatagram, OwnReply, OwnHandoff

LEMMA TrafficKept ==
  ASSUME OwnTraffic, UNCHANGED <<options, nat, op, targets, step>>,
         \A d \in net' : d \in net \/ OwnDatagram(d),
         \A s \in Server, w \in Socket :
           \/ sending'[s][w] = <<>> \/ sending'[s][w] = sending[s][w]
           \/ OwnReply(s, sending'[s][w][1]),
         \A e \in handoffs' : e \in handoffs \/ OwnHandoff(e)
  PROVE  OwnTraffic'
<1>1. /\ \A d : OwnDatagram(d)' <=> OwnDatagram(d)
      /\ \A s, r : OwnReply(s, r)' <=> OwnReply(s, r)
      /\ \A e : OwnHandoff(e)' <=> OwnHandoff(e)
  BY SameTransaction
<1>2. \A d \in net' : OwnDatagram(d)'
  BY <1>1 DEF OwnTraffic
<1>3. \A s \in Server, w \in Socket : sending'[s][w] # <<>> => OwnReply(s, sending'[s][w][1])
  BY DEF OwnTraffic
<1>4. (\A s \in Server, w \in Socket : sending[s][w] # <<>> => OwnReply(s, sending[s][w][1]))'
  BY <1>1, <1>3
<1>5. \A e \in handoffs' : OwnHandoff(e)'
  BY <1>1 DEF OwnTraffic
<1> QED BY <1>2, <1>4, <1>5 DEF OwnTraffic

(* The next transaction starts with no traffic of its own. *)
LEMMA NextTransaction ==
  ASSUME OwnTraffic, step \in Nat, step' = step + 1,
         net' \subseteq net, sending' = sending, handoffs' = handoffs
  PROVE  OwnTraffic'
<1>1. \A n \in 0..step : n \in 0..step' /\ n # step'
  OBVIOUS
<1>2. \A d \in net' : OwnDatagram(d)'
  BY <1>1 DEF OwnTraffic, OwnDatagram
<1>3. (\A s \in Server, w \in Socket : sending[s][w] # <<>> => OwnReply(s, sending[s][w][1]))'
  <2>1. ASSUME NEW s \in Server, NEW w \in Socket, sending[s][w] # <<>>
        PROVE  sending[s][w][1].msg.txid \in 0..step
    BY <2>1 DEF OwnTraffic, OwnReply
  <2>2. \A s \in Server, w \in Socket : sending'[s][w] # <<>> =>
          /\ sending'[s][w][1].msg.txid \in 0..step'
          /\ sending'[s][w][1].msg.txid # step'
    BY <1>1, <2>1
  <2> QED BY <2>2 DEF OwnReply
<1>4. \A e \in handoffs' : OwnHandoff(e)'
  BY <1>1 DEF OwnTraffic, OwnHandoff
<1> QED BY <1>2, <1>3, <1>4 DEF OwnTraffic

(* What the operation makes of the outcome it has to have. *)
LEMMA MappingExact ==
  ASSUME Fixed, Progress, Configured, ReportIsTrue, UNCHANGED <<options, nat, wildcard>>,
         op = "mapping", pc # "done", NEW outcome, ExactOutcome(outcome), GoesOn(outcome)
  PROVE  /\ pc' # "done" => step' = step + 1 /\ pc' = "send" /\ report' = None
         /\ pc' = "done" => report' = Found(MappingKind)
<1>1. op \in Inside /\ Change = NONE /\ step \in Nat \ {0} /\ Target = TargetOf(step)
      /\ report = None
  BY Asked DEF Inside, Progress
<1>2. outcome.is = "answer" /\ outcome.mapped = MappedTo(Target)
  BY <1>1 DEF ExactOutcome, Plain
<1> DEFINE found == Append(probes, outcome.mapped)
<1>3. MappingGoesOn(outcome)
  BY DEF GoesOn
<1>4. IF step < Len(targets) THEN Advance(found) ELSE Finish(found, Found(MappingOf(found)))
  BY <1>2, <1>3 DEF MappingGoesOn
<1>5. CASE step < Len(targets)
  <2>1. Advance(found)
    BY <1>4, <1>5
  <2> QED BY <1>1, <2>1 DEF Advance
<1>6. CASE ~(step < Len(targets))
  <2>1. Finish(found, Found(MappingOf(found)))
    BY <1>4, <1>6
  <2>2. /\ Len(targets) \in Nat /\ probes \in Seq(Mappable) /\ Len(probes) = step - 1
        /\ step = Len(targets)
    BY <1>1, <1>6, LenProperties DEF Progress, Fixed
  <2>3. DOMAIN probes = 1..(step - 1) /\ \A i \in DOMAIN probes : probes[i] = MappedTo(targets[i])
    BY <2>2, LenProperties DEF ReportIsTrue
  <2>4. MappedTo(Target) \in Mappable
    BY <1>1, Asked DEF Mappable
  <2>5. /\ Len(found) = step /\ DOMAIN found = 1..step /\ found[step] = MappedTo(Target)
        /\ \A i \in 1..(step - 1) : found[i] = probes[i]
    BY <1>1, <1>2, <2>2, <2>4, AppendProperties
  <2>6. Target = targets[step]
    BY DEF Target
  <2> HIDE DEF found
  <2>7. \A i \in 1..Len(targets) : found[i] = MappedTo(targets[i])
    BY <1>1, <2>2, <2>3, <2>5, <2>6
  <2>8. MappingOf(found) = MappingKind
    BY <2>2, <2>5, <2>7, ClassifiedExact
  <2>9. report' = Found(MappingOf(found)) /\ pc' = "done"
    BY <2>1 DEF Finish
  <2> QED BY <2>8, <2>9
<1> QED BY <1>5, <1>6

LEMMA FilteringExact ==
  ASSUME Fixed, Progress, Configured, Reached, UNCHANGED <<options, nat, wildcard>>,
         op = "filtering", pc # "done", NEW outcome, ExactOutcome(outcome), GoesOn(outcome)
  PROVE  /\ pc' # "done" => step' = step + 1 /\ pc' = "send" /\ report' = None /\ Reached'
         /\ pc' = "done" => report' = FilteringResult
<1>1. /\ op \in Inside /\ step \in {1, 2, 3} /\ report = None
      /\ Change = IF step = 1 THEN NONE ELSE IF step = 2 THEN IP_AND_PORT ELSE PORT
  BY Asked DEF Inside, Progress
<1>2. /\ Error("Timeout").is # "answer" /\ Error("NoOtherAddress").is # "answer"
      /\ ServerError(UNKNOWN_ATTRIBUTE).is # "answer"
      /\ ServerError(UNKNOWN_ATTRIBUTE) # Error("Timeout")
  <2>1. ServerError(UNKNOWN_ATTRIBUTE).why = "ServerError" /\ Error("Timeout").why = "Timeout"
    BY DEF Error, ServerError
  <2> QED BY <2>1 DEF Error, ServerError
<1>3. /\ Server1.other \in BOOLEAN /\ Server1.honours \in BOOLEAN
      /\ Server1.handler \in BOOLEAN /\ Server1.alternate \in BOOLEAN
  BY <1>1, Asked DEF Configured, Options, Server1
<1>4. nat.filtering \in {"endpoint", "address", "both"}
  BY DEF Fixed, Filtering
<1>5. ASSUME NEW found, Advance(found)
      PROVE  /\ step' = step + 1 /\ pc' = "send" /\ report' = None
             /\ op' = op /\ Server1' = Server1
  <2>1. step' = step + 1 /\ pc' = "send" /\ report' = None /\ op' = op /\ targets' = targets
    BY <1>1, <1>5 DEF Advance
  <2> QED BY <2>1 DEF Server1, Target
<1>6. ASSUME NEW found, NEW result, Finish(found, result)
      PROVE  pc' = "done" /\ report' = result
  BY <1>6 DEF Finish
<1>7. CASE step = 1
  <2>1. TestI(outcome)
    BY <1>7 DEF GoesOn
  <2>2. /\ outcome.is = "answer" /\ outcome.extra.ok
        /\ (outcome.extra.other_address = None) = ~Server1.other
    BY <1>1, <1>7 DEF ExactOutcome, Plain
  <2>3. CASE ~Server1.other
    <3>1. Finish(<<outcome.mapped>>, Error("NoOtherAddress"))
      BY <2>1, <2>2, <2>3 DEF TestI
    <3> QED BY <1>6, <2>3, <3>1 DEF FilteringResult
  <2>4. CASE Server1.other
    <3>1. Advance(<<outcome.mapped>>)
      BY <2>1, <2>2, <2>4 DEF TestI
    <3> QED BY <1>5, <1>7, <2>4, <3>1 DEF Reached
  <2> QED BY <1>3, <2>3, <2>4
<1>8. CASE step = 2
  <2>1. TestII(outcome) /\ Server1.other
    BY <1>1, <1>8 DEF GoesOn, Reached
  <2>2. Change = IP_AND_PORT
    BY <1>1, <1>8
  <2>3. CASE ~Server1.honours
    <3>1. Plain
      BY <2>3 DEF Plain
    <3>2. outcome.is = "answer" /\ outcome.from = Target
      BY <3>1 DEF ExactOutcome
    <3>3. Finish(probes, Error("ChangeIgnored"))
      BY <2>1, <3>2 DEF TestII
    <3> QED BY <1>6, <2>1, <2>3, <3>3 DEF FilteringResult
  <2>4. CASE Server1.honours /\ ~Server1.handler
    <3>1. ~Plain /\ ~Handed /\ ~Turned
      BY <2>2, <2>4, FlagsDiffer DEF Plain, Handed, Turned
    <3>2. outcome = ServerError(UNKNOWN_ATTRIBUTE)
      BY <3>1 DEF ExactOutcome
    <3>3. Finish(probes, ServerError(UNKNOWN_ATTRIBUTE))
      BY <1>2, <2>1, <3>2 DEF TestII
    <3> QED BY <1>6, <2>1, <2>4, <3>3 DEF FilteringResult
  <2>5. CASE Server1.honours /\ Server1.handler
    <3>1. Handed
      BY <2>2, <2>5, FlagsDiffer DEF Plain, Handed
    <3>2. CASE nat.filtering = "endpoint"
      <4>1. outcome.is = "answer" /\ outcome.from.ip # Target.ip
        BY <3>1, <3>2 DEF ExactOutcome
      <4>2. Finish(probes, Found("EndpointIndependent"))
        BY <2>1, <4>1 DEF TestII
      <4> QED BY <1>6, <2>1, <2>5, <3>2, <4>2 DEF FilteringResult
    <3>3. CASE nat.filtering # "endpoint"
      <4>1. outcome = Error("Timeout")
        BY <3>1, <3>3 DEF ExactOutcome
      <4>2. Advance(probes)
        BY <1>2, <2>1, <4>1 DEF TestII
      <4> QED BY <1>5, <1>8, <2>1, <2>5, <3>3, <4>2 DEF Reached
    <3> QED BY <3>2, <3>3
  <2> QED BY <1>3, <2>3, <2>4, <2>5
<1>9. CASE step = 3
  <2>1. /\ TestIII(outcome)
        /\ Server1.other /\ Server1.honours /\ Server1.handler /\ nat.filtering # "endpoint"
    BY <1>1, <1>9 DEF GoesOn, Reached
  <2>2. Change = PORT
    BY <1>1, <1>9
  <2>3. CASE ~Server1.alternate
    <3>1. ~Plain /\ ~Handed /\ ~Turned
      BY <2>1, <2>2, <2>3, FlagsDiffer DEF Plain, Handed, Turned
    <3>2. outcome = ServerError(UNKNOWN_ATTRIBUTE)
      BY <3>1 DEF ExactOutcome
    <3>3. Finish(probes, Found("AddressDependentOrStricter"))
      BY <1>2, <2>1, <3>2 DEF TestIII
    <3> QED BY <1>6, <2>1, <2>3, <3>3 DEF FilteringResult
  <2>4. CASE Server1.alternate
    <3>1. Turned
      BY <2>1, <2>2, <2>4, FlagsDiffer DEF Plain, Turned
    <3>2. CASE nat.filtering = "address"
      <4>1. outcome.is = "answer" /\ outcome.from # Target
        BY <3>1, <3>2 DEF ExactOutcome
      <4>2. outcome # Error("Timeout") /\ outcome # ServerError(UNKNOWN_ATTRIBUTE)
        BY <1>2, <4>1
      <4>3. Finish(probes, Found("AddressDependent"))
        BY <2>1, <4>1, <4>2 DEF TestIII
      <4> QED BY <1>6, <2>1, <2>4, <3>2, <4>3 DEF FilteringResult
    <3>3. CASE nat.filtering = "both"
      <4>1. outcome = Error("Timeout")
        BY <3>1, <3>3 DEF ExactOutcome
      <4>2. Finish(probes, Found("AddressAndPortDependent"))
        BY <1>2, <2>1, <4>1 DEF TestIII
      <4> QED BY <1>6, <2>1, <2>4, <3>3, <4>2 DEF FilteringResult
    <3> QED BY <1>4, <2>1, <3>2, <3>3
  <2> QED BY <1>3, <2>3, <2>4
<1> QED BY <1>1, <1>7, <1>8, <1>9

LEMMA OutcomeQuiet ==
  ASSUME Fixed, Progress, Configured, ReportIsTrue, OwnTraffic, Reached,
         op \in Inside, pc # "done", UNCHANGED <<options, natVars>>,
         net' \subseteq net, sending' = sending, handoffs' = handoffs,
         NEW outcome, ExactOutcome(outcome), GoesOn(outcome)
  PROVE  QuietInv'
<1>1. op' = op /\ targets' = targets
  BY OperationStays
<1>2. UNCHANGED <<options, nat, wildcard, op, targets>>
  BY <1>1 DEF natVars
<1>3. step \in Nat
  BY Asked
<1>4. MappingKind' = MappingKind /\ (op = "filtering" => FilteringResult' = FilteringResult)
  BY <1>2, ResultsStay
<1>5. /\ pc' # "done" => step' = step + 1 /\ pc' = "send" /\ report' = None /\ Reached'
      /\ pc' = "done" /\ op = "mapping" => report' = Found(MappingKind)
      /\ pc' = "done" /\ op = "filtering" => report' = FilteringResult
  <2>1. CASE op = "mapping"
    <3>1. /\ pc' # "done" => step' = step + 1 /\ pc' = "send" /\ report' = None
          /\ pc' = "done" => report' = Found(MappingKind)
      BY <1>2, <2>1, MappingExact
    <3>2. Reached'
      BY <1>1, <2>1 DEF Reached
    <3> QED BY <2>1, <3>1, <3>2
  <2>2. CASE op = "filtering"
    BY <1>2, <2>2, FilteringExact
  <2> QED BY <2>1, <2>2 DEF Inside
<1>6. pc' # "done" => OwnTraffic'
  BY <1>3, <1>5, NextTransaction
<1>7. pc' # "done" => Expected'
  BY <1>5 DEF Expected
<1>8. QuietReport'
  <2>1. Quiet' => pc' = "done"
    BY <1>5 DEF Quiet
  <2>2. Quiet' => /\ op' = "mapping" => report' = Found(MappingKind')
                  /\ op' = "filtering" => report' = FilteringResult'
    BY <1>1, <1>4, <1>5, <2>1
  <2> QED BY <2>2 DEF QuietReport
<1> QED BY <1>5, <1>6, <1>7, <1>8 DEF QuietInv

-----------------------------------------------------------------------------
(* The steps of a quiet network, one transaction under way. *)
Working ==
  /\ Fixed /\ Progress /\ Configured /\ Loops /\ ReportIsTrue
  /\ op \in Inside /\ pc # "done" /\ OwnTraffic /\ Reached /\ Expected

LEMMA Seldom ==   \* a fault spoils the quiet
  ASSUME Configured, faults' = faults + 1
  PROVE  faults' # 0
  BY DEF Configured

(* What of this transaction is under way stays so, unless a step takes it. *)
LEMMA StillUnderWay ==
  ASSUME UnderWay, UNCHANGED <<natVars, step>>,
         \A d \in net : d.msg.txid = step /\ (ToClient(d) => LetsIn(d)) => d \in net',
         \A s \in Server, w \in Socket :
           sending[s][w] # <<>> /\ sending[s][w][1].msg.txid = step => sending'[s][w] = sending[s][w],
         \A e \in handoffs : e.txid = step => e \in handoffs'
  PROVE  UnderWay'
<1>1. \A d : LetsIn(d)' <=> LetsIn(d)
  BY DEF natVars, LetsIn, MappedTo
<1>2. CASE \E d \in net : d.msg.txid = step /\ (ToClient(d) => LetsIn(d))
  BY <1>1, <1>2 DEF UnderWay, ToClient
<1>3. CASE \E s \in Server, w \in Socket :
             sending[s][w] # <<>> /\ sending[s][w][1].msg.txid = step
  BY <1>3 DEF UnderWay
<1>4. CASE \E e \in handoffs : e.txid = step
  BY <1>4 DEF UnderWay
<1> QED BY <1>2, <1>3, <1>4 DEF UnderWay

(* Steps that leave the prober alone keep the invariant when they keep the *)
(* traffic and what is expected.                                           *)
LEMMA QuietStep ==
  ASSUME Configured, QuietInv, UNCHANGED <<options, natVars, probeVars, disturbed>>,
         faults' = 0 => faults = 0,
         Working /\ faults' = 0 => OwnTraffic' /\ (pc = "wait" => UnderWay' \/ Silence),
         Fixed, Progress, Loops, ReportIsTrue
  PROVE  QuietInv'
<1>1. UNCHANGED <<nat, wildcard, contacted, op, targets, pc, step, report>>
  BY DEF natVars, probeVars
<1>2. Server1' = Server1 /\ Target' = Target /\ Answers' = Answers
  BY <1>1, SameTransaction
<1>3. \A d : LetsIn(d)' <=> LetsIn(d)
  BY <1>1 DEF LetsIn, MappedTo
<1>4. Silence' <=> Silence
  BY <1>2, <1>3 DEF Silence
<1>5. Reached => Reached'
  BY <1>1, <1>2 DEF Reached
<1>6. MappingKind' = MappingKind /\ (op = "filtering" => FilteringResult' = FilteringResult)
  BY <1>1, ResultsStay
<1>7. ASSUME op' \in Inside, faults' = 0, ~disturbed'
      PROVE  QuietReport'
  <2>1. QuietReport /\ (Quiet' => Quiet)
    BY <1>1, <1>7 DEF QuietInv, Quiet
  <2> QED BY <1>1, <1>6, <2>1 DEF QuietReport
<1>8. ASSUME op' \in Inside, faults' = 0, ~disturbed', pc' # "done"
      PROVE  OwnTraffic' /\ Reached' /\ Expected'
  <2>1. Working
    BY <1>1, <1>8 DEF Working, QuietInv
  <2>2. OwnTraffic' /\ (pc = "wait" => UnderWay' \/ Silence)
    BY <1>8, <2>1
  <2>3. Reached' /\ (pc = "wait" => Target \in contacted)
    BY <1>5, <2>1 DEF Working, Expected
  <2>4. Expected'
    BY <1>1, <1>2, <1>4, <2>2, <2>3 DEF Expected
  <2> QED BY <2>2, <2>3, <2>4
<1> QED BY <1>7, <1>8 DEF QuietInv

(* A server's loop takes a datagram: the request, which it answers or      *)
(* hands over, or one of no concern to the transaction.                    *)
LEMMA ServeUdpQuiet ==
  ASSUME Working, UNCHANGED <<natVars, probeVars>>, faults' = 0, faults = 0,
         NEW s \in Server, NEW w \in Socket, NEW d, ServeUdp(s, w, d)
  PROVE  OwnTraffic' /\ (UnderWay => UnderWay')
<1> DEFINE rfc == decode_rfc5780(d.msg)
           route == route_change(s, w, rfc)
           good == Success(s, route.from, d.msg.txid, d.src)
           bad == encode_binding_error(d.msg.txid, route.code)
           e == [to |-> PeerOf(s), txid |-> d.msg.txid, client |-> d.src, change |-> route.change]
<1>1. /\ d \in net /\ d.dst = Addr(s, w) /\ sending[s][w] = <<>> /\ options' = options
      /\ net' = net \ {d}
  BY DEF ServeUdp, Consume
<1>2. /\ UNCHANGED <<options, nat, op, targets, step>>
      /\ sending = [t \in Server |-> [x \in Socket |-> sending[t][x]]]
      /\ OwnDatagram(d)
  BY <1>1 DEF natVars, probeVars, Working, Loops, OwnTraffic
<1>3. /\ Target \in Endpoint /\ Target.ip \in Server /\ step \in Nat
  BY Asked DEF Working
<1>n. d \notin Answers
  <2>1. Addr(s, w).ip \notin {"c", "n"}
    BY ProbeAssumption DEF Addr, Address
  <2>2. \A a \in Answers : a.dst.ip \in {"c", "n"}
    BY <1>3, AnswersAre, MappedIsPresent DEF Working
  <2> QED BY <1>1, <2>1, <2>2
<1>4. CASE decode(d.msg).is # "request"
  <2>1. sending' = sending /\ handoffs' = handoffs
    BY <1>4 DEF ServeUdp
  <2>2. OwnTraffic'
    BY <1>1, <1>2, <2>1, TrafficKept DEF Working
  <2>3. d.msg.txid # step
    <3>1. Change \in Flags
      BY Asked, FlagsDiffer DEF Working
    <3>2. decode(Question).is = "request"
      BY <3>1, RequestDecoded DEF Question
    <3>3. Asking.msg = Question
      BY DEF Asking, Datagram
    <3> QED BY <1>2, <1>4, <1>n, <3>2, <3>3 DEF OwnDatagram
  <2>4. UnderWay => UnderWay'
    BY <1>1, <1>2, <2>1, <2>3, StillUnderWay
  <2> QED BY <2>2, <2>4
<1>5. CASE decode(d.msg).is = "request"
  <2>1. /\ route.to = "answer" => handoffs' = handoffs /\
             sending' = [sending EXCEPT ![s][w] = <<[from |-> route.from, to |-> d.src, msg |-> good]>>]
        /\ route.to = "refuse" => handoffs' = handoffs /\
             sending' = [sending EXCEPT ![s][w] = <<[from |-> w, to |-> d.src, msg |-> bad]>>]
        /\ route.to = "handler" => sending' = sending /\ handoffs' = handoffs \cup {e}
    BY <1>5 DEF ServeUdp
  <2>2. route.to \in {"answer", "refuse", "handler"}
    BY RouteIsTaken
  <2>3. good.txid = d.msg.txid /\ bad.txid = d.msg.txid
    BY SuccessIsAnswer DEF encode_binding_error, Message
  <2>4. ASSUME d.msg.txid = step
        PROVE  d = Asking /\ s = Target.ip /\ w = Which /\ route = Verdict /\ d.src = MappedTo(Target)
    <3>2. d = Asking
      BY <1>2, <1>n, <2>4 DEF OwnDatagram
    <3>3. d.dst = Target /\ d.src = MappedTo(Target) /\ d.msg = Question
      BY <3>2 DEF Asking, Datagram
    <3>4. s = Target.ip /\ w = Which
      BY <1>1, <1>3, <3>3, WhichIs
    <3> QED BY <3>2, <3>3, <3>4 DEF Verdict
  <2> HIDE DEF rfc, route, good, bad
  <2>5. ASSUME NEW from, NEW m, m.txid = d.msg.txid, handoffs' = handoffs,
               d.msg.txid = step => Datagram(Addr(s, from), d.src, m) \in Answers,
               sending' = [sending EXCEPT ![s][w] = <<[from |-> from, to |-> d.src, msg |-> m]>>]
        PROVE  OwnTraffic' /\ (UnderWay => UnderWay')
    <3> DEFINE r == [from |-> from, to |-> d.src, msg |-> m]
    <3>1. r.from = from /\ r.to = d.src /\ r.msg = m
      OBVIOUS
    <3>2. sending' = [sending EXCEPT ![s][w] = <<r>>]
      BY <2>5
    <3> HIDE DEF r
    <3>3. /\ sending'[s][w] = <<r>> /\ <<r>>[1] = r /\ <<r>> # <<>>
          /\ \A t \in Server, x \in Socket : t # s \/ x # w => sending'[t][x] = sending[t][x]
      BY <1>2, <3>2
    <3>4. OwnReply(s, r)
      BY <1>2, <2>5, <3>1 DEF OwnReply, OwnDatagram
    <3>5. OwnTraffic'
      <4>1. \A t \in Server, x \in Socket :
              sending'[t][x] = sending[t][x] \/ OwnReply(t, sending'[t][x][1])
        BY <3>3, <3>4
      <4> QED BY <1>1, <1>2, <2>5, <4>1, TrafficKept DEF Working
    <3>6. ASSUME d.msg.txid = step PROVE UnderWay'
      <4>1. sending'[s][w] # <<>> /\ sending'[s][w][1].msg.txid = step'
        BY <1>2, <2>5, <3>1, <3>3, <3>6
      <4> QED BY <4>1 DEF UnderWay
    <3>7. ASSUME d.msg.txid # step, UnderWay PROVE UnderWay'
      <4>1. \A t \in Server, x \in Socket : sending[t][x] # <<>> => sending'[t][x] = sending[t][x]
        BY <1>1, <3>3
      <4>2. UNCHANGED <<natVars, step>> /\ \A x \in net : x.msg.txid = step => x \in net'
        BY <1>1, <1>2, <3>7
      <4>3. \A h \in handoffs : h \in handoffs'
        BY <2>5
      <4> QED BY <3>7, <4>1, <4>2, <4>3, StillUnderWay
    <3> QED BY <3>5, <3>6, <3>7
  <2>6. CASE route.to = "answer"
    <3>1. d.msg.txid = step => Datagram(Addr(s, route.from), d.src, good) \in Answers
      <4>1. ASSUME d.msg.txid = step
            PROVE  Datagram(Addr(s, route.from), d.src, good) = Answer(Target.ip, Verdict.from)
                   /\ Verdict.to = "answer"
        BY <2>4, <2>6, <4>1 DEF good, Answer
      <4> QED BY <4>1 DEF Answers
    <3> QED BY <2>1, <2>3, <2>5, <2>6, <3>1
  <2>7. CASE route.to = "refuse"
    <3>1. d.msg.txid = step => Datagram(Addr(s, w), d.src, bad) \in Answers
      <4>1. ASSUME d.msg.txid = step
            PROVE  Datagram(Addr(s, w), d.src, bad) = Refusal /\ Verdict.to = "refuse"
        BY <1>3, <2>4, <2>7, <4>1, WhichIs DEF bad, Refusal
      <4> QED BY <4>1 DEF Answers
    <3> QED BY <2>1, <2>3, <2>5, <2>7, <3>1
  <2>8. CASE route.to = "handler"
    <3>1. sending' = sending /\ handoffs' = handoffs \cup {e}
      BY <2>1, <2>8
    <3>2. e.to = PeerOf(s) /\ e.txid = d.msg.txid /\ e.client = d.src
      OBVIOUS
    <3> HIDE DEF e
    <3>3. OwnHandoff(e)
      <4>1. ASSUME e.txid = step, NEW from \in Socket
            PROVE  Datagram(Addr(e.to, from), e.client, Success(e.to, from, e.txid, e.client)) \in Answers
        <5>1. Verdict.to = "handler" /\ e.to = PeerOf(Target.ip) /\ e.client = MappedTo(Target)
          BY <2>4, <2>8, <3>2, <4>1
        <5>2. Answers = {Answer(PeerOf(Target.ip), x) : x \in Socket}
          BY <5>1 DEF Answers
        <5> QED BY <4>1, <5>1, <5>2 DEF Answer
      <4> QED BY <1>2, <3>2, <4>1 DEF OwnHandoff, OwnDatagram
    <3>4. OwnTraffic'
      BY <1>1, <1>2, <3>1, <3>3, TrafficKept DEF Working
    <3>5. ASSUME d.msg.txid = step PROVE UnderWay'
      BY <1>2, <3>1, <3>2, <3>5 DEF UnderWay
    <3>6. ASSUME d.msg.txid # step, UnderWay PROVE UnderWay'
      BY <1>1, <1>2, <3>1, <3>6, StillUnderWay
    <3> QED BY <3>4, <3>5, <3>6
  <2> QED BY <2>2, <2>6, <2>7, <2>8
<1> QED BY <1>4, <1>5

(* A datagram of the transaction goes out: it is let in, or none is.       *)
LEMMA SentQuiet ==
  ASSUME Working, UNCHANGED <<options, natVars, probeVars>>, NEW d \in net',
         d.msg.txid = step => d \in Answers
  PROVE  d.msg.txid = step /\ pc = "wait" => UnderWay' \/ Silence
<1>1. ASSUME d.msg.txid = step, pc = "wait", ~Silence PROVE UnderWay'
  <2>1. Target \in contacted
    BY <1>1 DEF Working, Expected
  <2>2. LetsIn(d)
    BY <1>1, <2>1, AllOrNone DEF Working
  <2>3. LetsIn(d)' /\ step' = step
    BY <2>2 DEF LetsIn, MappedTo, natVars, probeVars
  <2> QED BY <1>1, <2>3 DEF UnderWay
<1> QED BY <1>1

LEMMA SendReplyQuiet ==
  ASSUME Working, UNCHANGED <<natVars, probeVars>>, faults' = 0, faults = 0,
         NEW s \in Server, NEW w \in Socket, SendReply(s, w)
  PROVE  OwnTraffic' /\ (pc = "wait" => UnderWay' \/ Silence)
<1> DEFINE r == sending[s][w][1]
           d == Datagram(Addr(s, r.from), r.to, r.msg)
<1>1. /\ sending[s][w] # <<>> /\ sending' = [sending EXCEPT ![s][w] = <<>>]
      /\ handoffs' = handoffs /\ net' = net \cup {d} /\ options' = options
  BY DEF SendReply
<1>2. UNCHANGED <<options, natVars, nat, op, targets, step>>
  BY <1>1 DEF natVars, probeVars
<1>3. OwnReply(s, r) /\ d.msg = r.msg
  BY <1>1 DEF Working, OwnTraffic, Datagram
<1>4. OwnDatagram(d) /\ (d.msg.txid = step => d \in Answers)
  BY <1>3 DEF OwnReply, OwnDatagram
<1> HIDE DEF d
<1>5. /\ \A t \in Server, x \in Socket : sending'[t][x] = <<>> \/ sending'[t][x] = sending[t][x]
      /\ \A t \in Server, x \in Socket : t # s \/ x # w => sending'[t][x] = sending[t][x]
  BY <1>1 DEF Working, Loops
<1>6. OwnTraffic'
  BY <1>1, <1>2, <1>4, <1>5, TrafficKept DEF Working
<1>7. d.msg.txid = step /\ pc = "wait" => UnderWay' \/ Silence
  BY <1>1, <1>4, SentQuiet
<1>8. ASSUME d.msg.txid # step, UnderWay PROVE UnderWay'
  <2>1. \A t \in Server, x \in Socket :
          sending[t][x] # <<>> /\ sending[t][x][1].msg.txid = step => sending'[t][x] = sending[t][x]
    BY <1>3, <1>5, <1>8
  <2> QED BY <1>1, <1>2, <1>8, <2>1, StillUnderWay
<1> QED BY <1>6, <1>7, <1>8 DEF Working, Expected

LEMMA AnswerForQuiet ==
  ASSUME Working, UNCHANGED <<natVars, probeVars>>, NEW e, answer_for(e)
  PROVE  OwnTraffic' /\ (pc = "wait" => UnderWay' \/ Silence)
<1>1. PICK from \in Socket :
        net' = net \cup {Datagram(Addr(e.to, from), e.client, Success(e.to, from, e.txid, e.client))}
  BY DEF answer_for, Socket
<1> DEFINE m == Success(e.to, from, e.txid, e.client)
           d == Datagram(Addr(e.to, from), e.client, m)
<1>2. /\ e \in handoffs /\ handoffs' = handoffs \ {e} /\ net' = net \cup {d}
      /\ sending' = sending /\ options' = options
  BY <1>1 DEF answer_for
<1>3. UNCHANGED <<options, natVars, nat, op, targets, step>>
  BY <1>2 DEF natVars, probeVars
<1>4. OwnHandoff(e) /\ d.msg.txid = e.txid
  BY <1>2, SuccessIsAnswer DEF Working, OwnTraffic, Datagram
<1>5. OwnDatagram(d) /\ (d.msg.txid = step => d \in Answers)
  BY <1>4 DEF OwnHandoff, OwnDatagram
<1> HIDE DEF d, m
<1>6. OwnTraffic'
  BY <1>2, <1>3, <1>5, TrafficKept DEF Working
<1>7. d.msg.txid = step /\ pc = "wait" => UnderWay' \/ Silence
  BY <1>2, <1>5, SentQuiet
<1>8. ASSUME d.msg.txid # step, UnderWay PROVE UnderWay'
  BY <1>2, <1>3, <1>4, <1>8, StillUnderWay
<1> QED BY <1>6, <1>7, <1>8 DEF Working, Expected

(* Nothing happens to the datagrams but that the NAT drops one. *)
LEMMA RestQuiet ==
  ASSUME Working, UNCHANGED <<options, natVars, probeVars, sending, handoffs>>,
         net' \subseteq net, \A d \in net \ net' : ToClient(d) /\ ~LetsIn(d)
  PROVE  OwnTraffic' /\ (pc = "wait" => UnderWay' \/ Silence)
<1>1. UNCHANGED <<options, natVars, nat, op, targets, step>>
  BY DEF natVars, probeVars
<1>2. OwnTraffic'
  BY <1>1, TrafficKept DEF Working
<1>3. UnderWay => UnderWay'
  <2>1. \A d \in net : (ToClient(d) => LetsIn(d)) => d \in net'
    OBVIOUS
  <2> QED BY <1>1, <2>1, StillUnderWay
<1> QED BY <1>2, <1>3 DEF Working, Expected

LEMMA SendRequestQuiet ==
  ASSUME ProbeInv, Configured, QuietInv, SendRequest
  PROVE  QuietInv'
<1> SUFFICES ASSUME op' \in Inside, faults' = 0, ~disturbed'
             PROVE  QuietInv'
  BY DEF QuietInv
<1>1. /\ pc = "send" /\ net' = net \cup {Asking} /\ contacted' = contacted \cup {Target}
      /\ pc' = "wait" /\ sending' = sending /\ handoffs' = handoffs
      /\ UNCHANGED <<options, faults, disturbed, nat, op, targets, step, report>>
  BY DEF SendRequest, Asking, Question
<1>2. op \in Inside /\ OwnTraffic /\ Reached /\ Fixed /\ Progress /\ report = None
  BY <1>1 DEF QuietInv, ProbeInv, Progress
<1>3. Target \in Endpoint /\ Target.ip \in Server /\ step \in Nat
  BY <1>1, <1>2, Asked
<1>4. Asking.msg.txid = step /\ Asking.dst = Target
  BY DEF Asking, Question, Datagram, encode_binding_request_with, Message
<1>5. OwnDatagram(Asking)
  BY <1>3, <1>4 DEF OwnDatagram
<1>6. OwnTraffic'
  BY <1>1, <1>2, <1>5, TrafficKept
<1>7. Target' = Target /\ Server1' = Server1
  BY <1>1, SameTransaction
<1>8. Reached'
  BY <1>1, <1>2, <1>7 DEF Reached
<1>9. Expected'
  <2>1. Asking.dst.ip \notin {"c", "n"}
    BY <1>3, <1>4, ProbeAssumption
  <2>2. UnderWay'
    BY <1>1, <1>4, <2>1 DEF UnderWay, ToClient
  <2> QED BY <1>1, <1>7, <2>2 DEF Expected
<1>10. QuietReport'
  BY <1>1, <1>2 DEF QuietReport, Quiet
<1> QED BY <1>6, <1>8, <1>9, <1>10 DEF QuietInv

LEMMA ReceiveQuiet ==
  ASSUME ProbeInv, Loops, Configured, QuietInv, NEW d, Receive(d)
  PROVE  QuietInv'
<1> SUFFICES ASSUME faults' = 0, ~disturbed'
             PROVE  QuietInv'
  BY DEF QuietInv
<1>1. /\ pc = "wait" /\ op \in Inside /\ d \in net /\ ToClient(d) /\ LetsIn(d)
      /\ UNCHANGED <<options, sending, handoffs, natVars, disturbed>>
      /\ net' = net \ {d} /\ faults = 0
  BY Seldom DEF Receive, Consume
<1>2. Working
  BY <1>1 DEF Working, QuietInv, ProbeInv
<1>3. CASE d.msg.txid = step
  <2>1. d # Asking
    <3>1. Target.ip \notin {"c", "n"}
      BY <1>2, Asked, ProbeAssumption DEF Working
    <3>2. Asking.dst = Target
      BY DEF Asking, Datagram
    <3> QED BY <1>1, <3>1, <3>2 DEF ToClient
  <2>2. d \in Answers /\ Target \in contacted
    BY <1>1, <1>2, <1>3, <2>1 DEF Working, OwnTraffic, OwnDatagram, Expected
  <2>3. /\ Heard(d).is = "answer" => ExactOutcome(Heard(d))
        /\ Heard(d).is = "refusal" => ExactOutcome(ServerError(Heard(d).code))
        /\ Heard(d).is \in {"answer", "refusal"}
    BY <1>1, <1>2, <2>2, HeardExact DEF Working
  <2>4. PICK outcome : ExactOutcome(outcome) /\ GoesOn(outcome)
    <3>1. CASE Heard(d).is = "answer"
      BY <2>3, <3>1 DEF Receive
    <3>2. CASE Heard(d).is = "refusal"
      BY <2>3, <3>2 DEF Receive
    <3> QED BY <2>3, <3>1, <3>2
  <2> QED BY <1>1, <1>2, <2>4, OutcomeQuiet DEF Working
<1>4. CASE d.msg.txid # step
  <2>1. Heard(d).is = "nothing"
    BY <1>4 DEF Heard
  <2>2. UNCHANGED probeVars
    BY <2>1 DEF Receive
  <2>3. OwnTraffic'
    BY <1>1, <1>2, <2>2, TrafficKept DEF Working, natVars, probeVars
  <2>4. UnderWay => UnderWay'
    BY <1>1, <1>4, <2>2, StillUnderWay DEF probeVars
  <2>5. OwnTraffic' /\ (pc = "wait" => UnderWay' \/ Silence)
    BY <1>2, <2>3, <2>4 DEF Working, Expected
  <2> QED BY <1>1, <1>2, <2>2, <2>5, QuietStep DEF Working
<1> QED BY <1>3, <1>4

LEMMA TimeUpQuiet ==
  ASSUME ProbeInv, Loops, Configured, QuietInv, TimeUp
  PROVE  QuietInv'
<1> SUFFICES ASSUME faults' = 0, ~disturbed'
             PROVE  QuietInv'
  BY DEF QuietInv
<1>1. /\ pc = "wait" /\ op \in Inside /\ ~disturbed /\ ~UnderWay /\ faults = 0
      /\ UNCHANGED <<options, net, sending, handoffs, natVars>>
  BY DEF TimeUp, serverVars, udpVars
<1>2. Working
  BY <1>1 DEF Working, QuietInv, ProbeInv
<1>3. Silence /\ Target \in contacted
  BY <1>1, <1>2 DEF Working, Expected
<1>4. CASE attempt < attempts
  <2>1. pc' = "send" /\ UNCHANGED <<op, targets, step, report>>
    BY <1>4 DEF TimeUp
  <2>2. UNCHANGED <<options, nat, op, targets, step>>
    BY <1>1, <2>1 DEF natVars
  <2>3. OwnTraffic'
    BY <1>1, <1>2, <2>2, TrafficKept DEF Working
  <2>4. Reached'
    BY <1>2, <2>2, SameTransaction DEF Working, Reached
  <2>5. Expected' /\ QuietReport'
    BY <1>1, <1>2, <2>1 DEF Expected, QuietReport, Quiet, Working, Progress
  <2> QED BY <2>3, <2>4, <2>5 DEF QuietInv
<1>5. CASE ~(attempt < attempts)
  <2>1. GoesOn(Error("Timeout"))
    BY <1>5 DEF TimeUp
  <2>2. ExactOutcome(Error("Timeout"))
    BY <1>1, <1>2, <1>3, SilenceExact DEF Working
  <2> QED BY <1>1, <1>2, <2>1, <2>2, OutcomeQuiet DEF Working
<1> QED BY <1>4, <1>5

(* Once touched by a fault, or with no transaction over UDP, nothing is    *)
(* promised.                                                               *)
LEMMA NotQuiet ==
  ASSUME faults' # 0 \/ op' \notin Inside
  PROVE  QuietInv'
  BY DEF QuietInv

LEMMA UdpServersKeep ==
  ASSUME UdpServers
  PROVE  options' = options /\ (faults' = faults \/ faults' = faults + 1)
<1>1. CASE \E s \in Server, w \in Socket, d \in net : ServeUdp(s, w, d)
  <2>1. PICK s \in Server, w \in Socket, d \in net : ServeUdp(s, w, d)
    BY <1>1
  <2>2. Consume(d, {}) /\ options' = options
    BY <2>1 DEF ServeUdp
  <2> QED BY <2>2 DEF Consume
<1>2. CASE \E s \in Server, w \in Socket : SendReply(s, w)
  BY <1>2 DEF SendReply
<1>3. CASE \E e \in handoffs : answer_for(e)
  BY <1>3 DEF answer_for
<1> QED BY <1>1, <1>2, <1>3 DEF UdpServers

LEMMA ConfiguredStays ==
  ASSUME Configured, [Next]_vars
  PROVE  Configured'
<1>1. options' = options /\ wildcard' = wildcard /\ (faults' = faults \/ faults' = faults + 1)
  <2>1. CASE Prober
    BY <2>1 DEF Prober, SendRequest, Receive, Consume, ProbeConnects, ProbeAsks, ProbeReads,
       ProbeEof, ProbeLeaves, Connect, Say, TakeReply, HangUp, natVars, serverVars, udpVars
  <2>2. CASE Deadlines \/ SocketError \/ ProbeBreaks
    BY <2>2 DEF Deadlines, TimeUp, TcpDeadline, SocketError, ProbeBreaks, natVars, serverVars,
       udpVars
  <2>3. CASE Servers
    <3>1. CASE UdpServers
      BY <2>3, <3>1, UdpServersKeep DEF Servers, natVars
    <3>2. CASE TcpServers
      BY <2>3, <3>2 DEF Servers, TcpServers, Accept, ServeTcp, Eof, Idle, WriteReply, WriteFails,
         natVars, udpVars
    <3> QED BY <2>3, <3>1, <3>2 DEF Servers
  <2>4. CASE Faults /\ UNCHANGED <<natVars, probeVars, disturbed>>
    BY <2>4 DEF Faults, Lose, DropHandoff, SocketFails, AcceptFails, natVars, udpVars
  <2>5. CASE (\E d \in net : NatDrops(d)) \/ (\E d \in Strays : Stray(d))
    BY <2>5 DEF NatDrops, Stray, natVars
  <2>6. CASE \E c \in Conn : OtherClient(c)
    BY <2>6 DEF OtherClient, Connect, Say, TakeReply, HangUp, natVars, udpVars
  <2>7. CASE UNCHANGED vars
    BY <2>7 DEF vars, serverVars, udpVars, natVars
  <2> QED BY <2>1, <2>2, <2>3, <2>4, <2>5, <2>6, <2>7 DEF Next
<1>2. faults' \in Nat
  BY <1>1 DEF Configured
<1> QED BY <1>1, <1>2 DEF Configured

LEMMA InitIsQuiet == Init => Configured /\ QuietInv
<1> SUFFICES ASSUME Init PROVE Configured /\ QuietInv
  OBVIOUS
<1>1. PICK c \in Scenarios : op = c.op /\ options = c.options /\ wildcard = c.wildcard
  BY DEF Init
<1>2. faults = 0
  BY DEF Init, InitServer
<1>3. Configured
  BY <1>1, <1>2, ProbeAssumption DEF Configured
<1>4. OwnTraffic
  BY DEF Init, InitServer, OwnTraffic
<1>5. step = 1 /\ pc # "wait" /\ report = None
  BY DEF Init
<1>6. Reached /\ Expected /\ QuietReport
  BY <1>5 DEF Reached, Expected, QuietReport, Quiet
<1> QED BY <1>3, <1>4, <1>6 DEF QuietInv

LEMMA NextIsQuiet ==
  ASSUME ProbeInv, AccountInv, Configured, QuietInv, [Next]_vars
  PROVE  QuietInv'
<1>0. Fixed /\ Progress /\ Loops /\ ReportIsTrue
  BY DEF ProbeInv, AccountInv
<1>a. ASSUME UNCHANGED <<options, faults, natVars, probeVars, disturbed, sending, handoffs>>,
             net' \subseteq net, \A d \in net \ net' : ToClient(d) /\ ~LetsIn(d)
      PROVE  QuietInv'
  <2>1. Working => OwnTraffic' /\ (pc = "wait" => UnderWay' \/ Silence)
    BY <1>a, RestQuiet
  <2> QED BY <1>0, <1>a, <2>1, QuietStep
<1>1. CASE Prober
  <2>1. CASE SendRequest
    BY <2>1, SendRequestQuiet
  <2>2. CASE \E d \in net : Receive(d)
    BY <1>0, <2>2, ReceiveQuiet
  <2>3. CASE ProbeConnects \/ ProbeAsks \/ ProbeReads \/ ProbeEof \/ ProbeLeaves
    <3>1. op = "tcp" /\ op' = op
      BY <2>3 DEF ProbeConnects, ProbeAsks, ProbeReads, ProbeEof, ProbeLeaves, Finish, probeVars
    <3> QED BY <3>1, NotQuiet DEF Inside
  <2> QED BY <1>1, <2>1, <2>2, <2>3 DEF Prober
<1>2. CASE Deadlines
  <2>1. CASE TcpDeadline
    <3>1. op' = "tcp"
      BY <2>1 DEF TcpDeadline, Finish
    <3> QED BY <3>1, NotQuiet DEF Inside
  <2>2. CASE TimeUp
    BY <1>0, <2>2, TimeUpQuiet
  <2> QED BY <1>2, <2>1, <2>2 DEF Deadlines
<1>3. CASE SocketError \/ ProbeBreaks
  <2>1. ProbeBreaks => op' = "tcp"
    BY DEF ProbeBreaks, Finish
  <2> QED BY <1>3, <2>1, Seldom, NotQuiet DEF SocketError, Inside
<1>4. CASE Servers
  <2>1. UNCHANGED <<natVars, probeVars, disturbed>>
    BY <1>4 DEF Servers
  <2>2. CASE UdpServers
    <3>1. options' = options /\ (faults' = 0 => faults = 0)
      BY <2>2, UdpServersKeep, Seldom
    <3>2. ASSUME Working, faults' = 0
          PROVE  OwnTraffic' /\ (pc = "wait" => UnderWay' \/ Silence)
      <4>1. CASE \E s \in Server, w \in Socket, d \in net : ServeUdp(s, w, d)
        BY <2>1, <3>1, <3>2, <4>1, ServeUdpQuiet DEF Working, Expected
      <4>2. CASE \E s \in Server, w \in Socket : SendReply(s, w)
        BY <2>1, <3>1, <3>2, <4>2, SendReplyQuiet
      <4>3. CASE \E e \in handoffs : answer_for(e)
        BY <2>1, <3>2, <4>3, AnswerForQuiet
      <4> QED BY <2>2, <4>1, <4>2, <4>3 DEF UdpServers
    <3> QED BY <1>0, <2>1, <3>1, <3>2, QuietStep
  <2>3. CASE TcpServers
    <3>1. UNCHANGED udpVars
      BY <2>3 DEF TcpServers, Accept, ServeTcp, Eof, Idle, WriteReply, WriteFails
    <3> QED BY <1>a, <2>1, <3>1 DEF udpVars
  <2> QED BY <1>4, <2>2, <2>3 DEF Servers
<1>5. CASE Faults /\ UNCHANGED <<natVars, probeVars, disturbed>>
  <2>1. CASE \E c \in Conn : AcceptFails(c)
    BY <1>5, <1>a, <2>1 DEF AcceptFails, udpVars
  <2>2. CASE (\E d \in net : Lose(d)) \/ (\E e \in handoffs : DropHandoff(e))
             \/ (\E s \in Server : SocketFails(s))
    <3>1. faults' = faults + 1
      BY <2>2 DEF Lose, DropHandoff, SocketFails
    <3> QED BY <3>1, Seldom, NotQuiet
  <2> QED BY <1>5, <2>1, <2>2 DEF Faults
<1>6. CASE \E d \in net : NatDrops(d)
  BY <1>6, <1>a DEF NatDrops
<1>7. CASE \E d \in Strays : Stray(d)
  BY <1>7, Seldom, NotQuiet DEF Stray
<1>8. CASE \E c \in Conn : OtherClient(c)
  <2>1. op = "tcp" /\ op' = op
    BY <1>8 DEF OtherClient, probeVars
  <2> QED BY <2>1, NotQuiet DEF Inside
<1>9. CASE UNCHANGED vars
  BY <1>9, <1>a DEF vars, serverVars, udpVars
<1> QED BY <1>1, <1>2, <1>3, <1>4, <1>5, <1>6, <1>7, <1>8, <1>9 DEF Next

(* When no datagram is lost, doubled or forged and no timeout overtakes an *)
(* answer, behind any NAT: servers that are not too much alike to tell get *)
(* its mapping classified as what it is (no NAT at all, on a wildcard      *)
(* socket, as EndpointIndependent), and any server gets its filtering      *)
(* classified as what it is or the reason why it cannot tell               *)
(* (detect_mapping, detect_filtering, route_change, answer_for).           *)
THEOREM QuietNetworkIsRight == Spec => []QuietNetworkIsExact
<1> DEFINE Inv == ProbeInv /\ AccountInv /\ Configured /\ QuietInv
<1>1. Init => Inv
  BY InitIsTrue, InitBalances, InitIsQuiet
<1>2. Inv /\ [Next]_vars => Inv'
  BY NextIsTrue, NextBalances, ConfiguredStays, NextIsQuiet
<1>3. Inv => QuietNetworkIsExact
  <2>1. ProbeInv /\ op \notin Inside => op = "tcp"
    BY DEF ProbeInv, Fixed, Inside
  <2>2. op = "tcp" => QuietNetworkIsExact
    BY DEF QuietNetworkIsExact
  <2>3. ~(faults = 0 /\ ~disturbed) => QuietNetworkIsExact
    BY DEF QuietNetworkIsExact, Quiet
  <2> QED BY <2>1, <2>2, <2>3, QuietReportIsExact DEF QuietInv
<1> HIDE DEF Inv
<1> QED BY <1>1, <1>2, <1>3, PTL DEF Spec

-----------------------------------------------------------------------------
(* Type correctness.  It rests on the accounts (the counters are numbers,  *)
(* and the slots fit) and on what the prober learns; what is added is that *)
(* a refusal under way has a code of ours, that an identifier under way is *)
(* of this transaction or an earlier one, and that a new attempt is begun  *)
(* only while one is left.                                                 *)

Codes == {BAD_REQUEST, UNKNOWN_ATTRIBUTE}
Coded(m) == m.type = "error" => decode(m).code \in Codes
Numbered(m) == m.txid \in 0..step /\ Coded(m)

Running == up \in [Server -> BOOLEAN] /\ faults \in 0..MaxFaults

Traffic ==
  /\ \A d \in net : Numbered(d.msg)
  /\ \A s \in Server, w \in Socket : sending[s][w] # <<>> => Numbered(sending[s][w][1].msg)
  /\ \A e \in handoffs : e.txid \in 0..step

ConnStates == {"none", "backlog", "reading", "replying", "gone"}
CodedBox(box) == \E S : box \in Seq(S) /\ (\A m \in S : Coded(m)) /\ Len(box) <= OutCap
Served(k) ==
  /\ k.pc \in ConnStates /\ k.asked \in 0..MaxAsk
  /\ k.pc = "replying" => Coded(k.reply)
  /\ CodedBox(k.outbox)

Probing ==
  /\ pc \in {"send", "wait", "done", "connect", "ask"} /\ attempt \in 0..attempts
  /\ pc = "send" => attempt < attempts
  /\ Len(probes) \in Nat /\ Len(probes) <= Len(targets)
  /\ pc = "done" => report \in Report

ExchangeTypes == Running /\ Traffic /\ (\A c \in Conn : Served(conn[c])) /\ Probing

-----------------------------------------------------------------------------
(* The servers' loops and the faults. *)

LEMMA FaultsCounted ==
  ASSUME Running, up' = up, faults' = faults \/ (faults < MaxFaults /\ faults' = faults + 1)
  PROVE  Running'
<1>1. MaxFaults \in Nat
  BY ServerAssumption
<1>2. faults' \in 0..MaxFaults
  BY <1>1 DEF Running
<1>3. QED BY <1>2 DEF Running

LEMMA RunningStep == ASSUME Running, [Next]_vars PROVE Running'
<1>1. CASE \E s \in Server : SocketFails(s)
  <2>1. PICK s \in Server : SocketFails(s)
    BY <1>1
  <2>2. faults < MaxFaults /\ faults' = faults + 1 /\ up' = [up EXCEPT ![s] = FALSE]
    BY <2>1 DEF SocketFails
  <2>3. up' \in [Server -> BOOLEAN]
    BY <2>2 DEF Running
  <2>4. faults' \in 0..MaxFaults
    BY <2>2, ServerAssumption DEF Running
  <2>5. QED BY <2>3, <2>4 DEF Running
<1>2. CASE ~\E s \in Server : SocketFails(s)
  <2> DEFINE Kept == up' = up /\ (faults' = faults \/ (faults < MaxFaults /\ faults' = faults + 1))
  <2> SUFFICES Kept
    BY FaultsCounted
  <2>s. ASSUME UNCHANGED serverVars PROVE Kept
    BY <2>s DEF serverVars, udpVars
  <2>c. ASSUME NEW c, Connect(c) \/ (\E m : Say(c, m)) \/ TakeReply(c) \/ HangUp(c) PROVE Kept
    BY <2>c DEF Connect, Say, TakeReply, HangUp, udpVars
  <2>1. CASE Prober
    <3>1. CASE SendRequest
      BY <3>1 DEF SendRequest
    <3>2. CASE \E d \in net : Receive(d)
      BY <3>2 DEF Receive, Consume
    <3>3. CASE ProbeConnects \/ ProbeReads \/ ProbeLeaves
      BY <2>c, <3>3 DEF ProbeConnects, ProbeReads, ProbeLeaves
    <3>4. CASE ProbeAsks \/ ProbeEof
      BY <2>c, <2>s, <3>4 DEF ProbeAsks, ProbeEof
    <3>5. QED BY <2>1, <3>1, <3>2, <3>3, <3>4 DEF Prober
  <2>2. CASE Deadlines
    BY <2>2, <2>s DEF Deadlines, TimeUp, TcpDeadline
  <2>3. CASE SocketError \/ ProbeBreaks
    BY <2>3, <2>s DEF SocketError, ProbeBreaks
  <2>4. CASE Servers
    <3>1. CASE \E s \in Server, w \in Socket : \E d \in net : ServeUdp(s, w, d)
      BY <3>1 DEF ServeUdp, Consume
    <3>2. CASE \E s \in Server, w \in Socket : SendReply(s, w)
      BY <3>2 DEF SendReply
    <3>3. CASE \E e \in handoffs : answer_for(e)
      BY <3>3 DEF answer_for
    <3>4. CASE TcpServers
      BY <3>4 DEF TcpServers, Accept, ServeTcp, Eof, Idle, WriteReply, WriteFails, udpVars
    <3>5. QED BY <2>4, <3>1, <3>2, <3>3, <3>4 DEF Servers, UdpServers
  <2>5. CASE Faults
    <3>1. CASE \E d \in net : Lose(d)
      BY <3>1 DEF Lose
    <3>2. CASE \E e \in handoffs : DropHandoff(e)
      BY <3>2 DEF DropHandoff
    <3>3. CASE \E c \in Conn : AcceptFails(c)
      BY <3>3 DEF AcceptFails, udpVars
    <3>4. QED BY <1>2, <2>5, <3>1, <3>2, <3>3 DEF Faults
  <2>6. CASE \E d \in net : NatDrops(d)
    BY <2>6 DEF NatDrops
  <2>7. CASE \E d \in Strays : Stray(d)
    BY <2>7 DEF Stray
  <2>8. CASE \E c \in Conn : OtherClient(c)
    BY <2>8, <2>c DEF OtherClient
  <2>9. CASE UNCHANGED vars
    BY <2>9, <2>s DEF vars
  <2>10. QED BY <2>1, <2>2, <2>3, <2>4, <2>5, <2>6, <2>7, <2>8, <2>9 DEF Next
<1>3. QED BY <1>1, <1>2

-----------------------------------------------------------------------------
(* Datagrams, replies and events under way. *)

LEMMA TrafficStays ==
  ASSUME Traffic, step \in Nat, step' = step \/ step' = step + 1,
         \A d \in net' : d \in net \/ Numbered(d.msg),
         \A s \in Server, w \in Socket :
           \/ sending'[s][w] = <<>> \/ sending'[s][w] = sending[s][w]
           \/ Numbered(sending'[s][w][1].msg),
         \A e \in handoffs' : e \in handoffs \/ e.txid \in 0..step
  PROVE  Traffic'
<1>1. 0..step \subseteq 0..step'
  OBVIOUS
<1>2. \A m : Numbered(m) => m.txid \in 0..step' /\ Coded(m)
  BY <1>1 DEF Numbered
<1>3. \A d \in net' : d.msg.txid \in 0..step' /\ Coded(d.msg)
  BY <1>2 DEF Traffic
<1>4. \A s \in Server, w \in Socket : sending'[s][w] # <<>> =>
        sending'[s][w][1].msg.txid \in 0..step' /\ Coded(sending'[s][w][1].msg)
  BY <1>2 DEF Traffic
<1>5. \A e \in handoffs' : e.txid \in 0..step'
  BY <1>1 DEF Traffic
<1>6. (\A d \in net : Numbered(d.msg))'
  BY <1>3 DEF Numbered, Coded
<1>7. (\A s \in Server, w \in Socket : sending[s][w] # <<>> => Numbered(sending[s][w][1].msg))'
  BY <1>4 DEF Numbered, Coded
<1>8. QED BY <1>5, <1>6, <1>7 DEF Traffic

LEMMA TrafficShrinks ==
  ASSUME Traffic, step \in Nat, step' = step \/ step' = step + 1, sending' = sending,
         net' \subseteq net, handoffs' \subseteq handoffs
  PROVE  Traffic'
  BY TrafficStays

LEMMA SuccessCoded ==
  ASSUME NEW s, NEW w, NEW txid, NEW client
  PROVE  LET m == Success(s, w, txid, client) IN m.txid = txid /\ Coded(m)
<1>1. LET m == Success(s, w, txid, client) IN m.type = "success" /\ m.txid = txid
  BY SuccessIsAnswer
<1>2. QED BY <1>1 DEF Coded

LEMMA RefusalCoded ==
  ASSUME NEW txid, NEW code \in Codes
  PROVE  LET m == encode_binding_error(txid, code) IN m.txid = txid /\ Coded(m)
<1>1. LET m == encode_binding_error(txid, code) IN m.txid = txid /\ decode(m).code = code
  BY ErrorDecoded
<1>2. QED BY <1>1 DEF Coded

LEMMA RouteCode ==
  ASSUME NEW s, NEW w, NEW rfc, route_change(s, w, rfc).to = "refuse"
  PROVE  route_change(s, w, rfc).code \in Codes
  BY DEF route_change, Codes

LEMMA ServeUdpTraffic ==
  ASSUME Traffic, Loops, step \in Nat, step' = step,
         NEW s \in Server, NEW w \in Socket, NEW d, ServeUdp(s, w, d)
  PROVE  Traffic'
<1> DEFINE rfc == decode_rfc5780(d.msg)
           route == route_change(s, w, rfc)
<1>1. d \in net /\ \A x \in net' : x \in net
  BY DEF ServeUdp, Consume
<1>2. d.msg.txid \in 0..step
  BY <1>1 DEF Traffic, Numbered
<1>3. CASE sending' = sending /\ handoffs' = handoffs
  BY <1>1, <1>3, TrafficStays
<1>4. ASSUME NEW from, NEW m, Numbered(m), handoffs' = handoffs,
             sending' = [sending EXCEPT ![s][w] = <<[from |-> from, to |-> d.src, msg |-> m]>>]
      PROVE  Traffic'
  <2>1. sending = [t \in Server |-> [x \in Socket |-> sending[t][x]]]
    BY DEF Loops
  <2> DEFINE r == [from |-> from, to |-> d.src, msg |-> m]
  <2>2. r.msg = m
    OBVIOUS
  <2> HIDE DEF r
  <2>3. sending' = [sending EXCEPT ![s][w] = <<r>>]
    BY <1>4 DEF r
  <2>4. /\ sending'[s][w] = <<r>>
        /\ \A t \in Server, x \in Socket : t # s \/ x # w => sending'[t][x] = sending[t][x]
    BY <2>1, <2>3
  <2>5. Numbered(sending'[s][w][1].msg)
    BY <1>4, <2>2, <2>4
  <2>6. \A t \in Server, x \in Socket :
          \/ sending'[t][x] = <<>> \/ sending'[t][x] = sending[t][x]
          \/ Numbered(sending'[t][x][1].msg)
    BY <2>4, <2>5
  <2>7. QED BY <1>1, <1>4, <2>6, TrafficStays
<1>5. ASSUME NEW e, e.txid = d.msg.txid, sending' = sending, handoffs' = handoffs \cup {e}
      PROVE  Traffic'
  BY <1>1, <1>2, <1>5, TrafficStays
<1>6. CASE decode(d.msg).is = "request"
  <2>2. Numbered(Success(s, route.from, d.msg.txid, d.src))
    BY <1>2, SuccessCoded DEF Numbered
  <2>3. route.to = "refuse" => Numbered(encode_binding_error(d.msg.txid, route.code))
    BY <1>2, RouteCode, RefusalCoded DEF Numbered
  <2> HIDE DEF route, rfc
  <2>4. CASE route.to = "answer"
    <3>1. handoffs' = handoffs /\ sending' = [sending EXCEPT ![s][w] =
            <<[from |-> route.from, to |-> d.src, msg |-> Success(s, route.from, d.msg.txid, d.src)]>>]
      BY <1>6, <2>4 DEF ServeUdp, route, rfc
    <3>2. QED BY <1>4, <2>2, <3>1
  <2>5. CASE route.to = "refuse"
    <3>1. handoffs' = handoffs /\ sending' = [sending EXCEPT ![s][w] =
            <<[from |-> w, to |-> d.src, msg |-> encode_binding_error(d.msg.txid, route.code)]>>]
      BY <1>6, <2>5 DEF ServeUdp, route, rfc
    <3>2. QED BY <1>4, <2>3, <2>5, <3>1
  <2>6. CASE route.to = "handler"
    <3> DEFINE e == [to |-> PeerOf(s), txid |-> d.msg.txid, client |-> d.src, change |-> route.change]
    <3>1. sending' = sending /\ handoffs' = handoffs \cup {e}
      BY <1>6, <2>6 DEF ServeUdp, route, rfc
    <3>2. e.txid = d.msg.txid
      OBVIOUS
    <3> HIDE DEF e
    <3>3. QED BY <1>5, <3>1, <3>2
  <2>7. route.to \in {"answer", "refuse", "handler"}
    BY RouteIsTaken DEF route
  <2>8. QED BY <2>4, <2>5, <2>6, <2>7
<1>7. CASE decode(d.msg).is # "request"
  BY <1>3, <1>7 DEF ServeUdp
<1>8. QED BY <1>6, <1>7

LEMMA SendReplyTraffic ==
  ASSUME Traffic, Loops, step \in Nat, step' = step,
         NEW s \in Server, NEW w \in Socket, SendReply(s, w)
  PROVE  Traffic'
<1> DEFINE r == sending[s][w][1]
           d == Datagram(Addr(s, r.from), r.to, r.msg)
<1>1. sending[s][w] # <<>> /\ sending' = [sending EXCEPT ![s][w] = <<>>] /\ handoffs' = handoffs
  BY DEF SendReply
<1>2. net' = net \/ net' = net \cup {d}
  BY DEF SendReply
<1>3. Numbered(d.msg)
  BY <1>1 DEF Traffic, Datagram
<1>5. sending = [t \in Server |-> [x \in Socket |-> sending[t][x]]]
  BY DEF Loops
<1>6. \A t \in Server, x \in Socket : sending'[t][x] = <<>> \/ sending'[t][x] = sending[t][x]
  BY <1>1, <1>5
<1> HIDE DEF d
<1>7. QED BY <1>1, <1>2, <1>3, <1>6, TrafficStays

LEMMA AnswerForTraffic ==
  ASSUME Traffic, step \in Nat, step' = step, NEW e, answer_for(e)
  PROVE  Traffic'
<1>1. PICK from : net' = net \cup {Datagram(Addr(e.to, from), e.client, Success(e.to, from, e.txid, e.client))}
  BY DEF answer_for
<1> DEFINE m == Success(e.to, from, e.txid, e.client)
           d == Datagram(Addr(e.to, from), e.client, m)
<1>2. e \in handoffs /\ handoffs' = handoffs \ {e} /\ sending' = sending
  BY DEF answer_for
<1>3. m.txid = e.txid /\ Coded(m)
  BY SuccessCoded
<1>4. d.msg = m
  BY DEF Datagram
<1>5. e.txid \in 0..step
  BY <1>2 DEF Traffic
<1>6. net' = net \cup {d}
  BY <1>1
<1> HIDE DEF d, m
<1>7. Numbered(d.msg)
  BY <1>3, <1>4, <1>5 DEF Numbered
<1>8. QED BY <1>2, <1>6, <1>7, TrafficStays

LEMMA SocketFailsTraffic ==
  ASSUME Traffic, Loops, step \in Nat, step' = step, NEW s \in Server, SocketFails(s)
  PROVE  Traffic'
<1>1. /\ sending' = [sending EXCEPT ![s] = [w \in Socket |-> <<>>]]
      /\ net' = net /\ handoffs' = handoffs
  BY DEF SocketFails
<1>2. sending = [t \in Server |-> [x \in Socket |-> sending[t][x]]]
  BY DEF Loops
<1>3. \A t \in Server, x \in Socket : sending'[t][x] = <<>> \/ sending'[t][x] = sending[t][x]
  BY <1>1, <1>2
<1>4. QED BY <1>1, <1>3, TrafficStays

(* The prober's request has its own number, a stray datagram has none.     *)
LEMMA DatagramsTraffic ==
  ASSUME Traffic, step \in Nat, SendRequest \/ \E d \in Strays : Stray(d)
  PROVE  Traffic'
<1>1. CASE SendRequest
  <2> DEFINE m == encode_binding_request_with(step, Change)
             d == Datagram(MappedTo(Target), Target, m)
  <2>1. net' = net \cup {d} /\ sending' = sending /\ handoffs' = handoffs /\ step' = step
    BY <1>1 DEF SendRequest
  <2>2. m.type = "request" /\ m.txid = step /\ d.msg = m
    BY DEF encode_binding_request_with, Message, Datagram
  <2> HIDE DEF d, m
  <2>3. Numbered(d.msg)
    BY <2>2 DEF Numbered, Coded
  <2>4. QED BY <2>1, <2>3, TrafficStays
<1>2. CASE \E d \in Strays : Stray(d)
  <2>1. PICK d \in Strays : Stray(d)
    BY <1>2
  <2>2. net' = net \cup {d} /\ sending' = sending /\ handoffs' = handoffs /\ step' = step
    BY <2>1 DEF Stray, probeVars
  <2>3. d.msg.txid = 0 /\ d.msg.type # "error"
    BY <2>1 DEF Strays, Foreign, Datagram, Message, UNFRAMED
  <2>4. Numbered(d.msg)
    BY <2>3 DEF Numbered, Coded
  <2>5. QED BY <2>2, <2>4, TrafficStays
<1>3. QED BY <1>1, <1>2

(* The number of the transaction only grows. *)
LEMMA StepGrows ==
  ASSUME Progress, op \in Inside, pc # "done", NEW outcome, GoesOn(outcome)
  PROVE  step' = step \/ step' = step + 1
<1>1. CASE op = "mapping"
  <2>1. MappingGoesOn(outcome)
    BY <1>1 DEF GoesOn
  <2>2. QED BY <2>1 DEF MappingGoesOn, Advance, Finish
<1>2. CASE op = "filtering"
  <2>1. step = 1 \/ step = 2 \/ step = 3
    BY <1>2 DEF Progress
  <2>2. QED BY <1>2, <2>1 DEF GoesOn, TestI, TestII, TestIII, Advance, Finish
<1>3. QED BY <1>1, <1>2 DEF Inside

LEMMA TrafficStep ==
  ASSUME ProbeInv, Loops, Traffic, [Next]_vars
  PROVE  Traffic'
<1>0. step \in Nat /\ Progress
  BY DEF ProbeInv, Progress
<1>p. ASSUME UNCHANGED probeVars PROVE step' = step
  BY <1>p DEF probeVars
<1>u. ASSUME UNCHANGED udpVars, step' = step \/ step' = step + 1 PROVE Traffic'
  BY <1>0, <1>u, TrafficShrinks DEF udpVars
<1>c. ASSUME NEW c, Connect(c) \/ (\E m : Say(c, m)) \/ TakeReply(c) \/ HangUp(c)
      PROVE  UNCHANGED udpVars
  BY <1>c DEF Connect, Say, TakeReply, HangUp
<1>1. CASE Prober
  <2>1. CASE SendRequest
    BY <1>0, <2>1, DatagramsTraffic
  <2>2. CASE \E d \in net : Receive(d)
    <3>1. PICK d \in net : Receive(d)
      BY <2>2
    <3>2. pc = "wait" /\ op \in Inside /\ sending' = sending /\ handoffs' = handoffs
          /\ net' \subseteq net
      BY <3>1 DEF Receive, Consume
    <3>3. UNCHANGED probeVars \/ \E o : GoesOn(o)
      <4>1. Heard(d).is \in {"nothing", "answer", "refusal"}
        BY DEF Heard
      <4>2. QED BY <3>1, <4>1 DEF Receive
    <3>4. step' = step \/ step' = step + 1
      BY <1>0, <1>p, <3>2, <3>3, StepGrows
    <3>5. QED BY <1>0, <3>2, <3>4, TrafficShrinks
  <2>3. CASE ProbeConnects \/ ProbeAsks \/ ProbeReads \/ ProbeEof \/ ProbeLeaves
    <3>1. UNCHANGED udpVars
      BY <1>c, <2>3 DEF ProbeConnects, ProbeAsks, ProbeReads, ProbeEof, ProbeLeaves, serverVars
    <3>2. step' = step
      BY <1>p, <2>3 DEF ProbeConnects, ProbeAsks, ProbeReads, ProbeEof, ProbeLeaves, Finish
    <3>3. QED BY <1>u, <3>1, <3>2
  <2>4. QED BY <1>1, <2>1, <2>2, <2>3 DEF Prober
<1>2. CASE Deadlines \/ SocketError \/ ProbeBreaks
  <2>1. CASE TcpDeadline \/ ProbeBreaks
    BY <1>u, <2>1 DEF TcpDeadline, ProbeBreaks, Finish, serverVars
  <2>2. CASE TimeUp \/ SocketError
    <3>1. pc # "done" /\ op \in Inside /\ UNCHANGED <<net, sending, handoffs>>
      BY <2>2 DEF TimeUp, SocketError, serverVars, udpVars
    <3>2. step' = step \/ \E o : GoesOn(o)
      BY <2>2 DEF TimeUp, SocketError
    <3>3. step' = step \/ step' = step + 1
      BY <1>0, <3>1, <3>2, StepGrows
    <3>4. QED BY <1>0, <3>1, <3>3, TrafficShrinks
  <2>3. QED BY <1>2, <2>1, <2>2 DEF Deadlines
<1>3. CASE Servers
  <2>1. step' = step
    BY <1>3, <1>p DEF Servers
  <2>2. CASE UdpServers
    BY <1>0, <2>1, <2>2, ServeUdpTraffic, SendReplyTraffic, AnswerForTraffic DEF UdpServers
  <2>3. CASE TcpServers
    <3>1. UNCHANGED udpVars
      BY <2>3 DEF TcpServers, Accept, ServeTcp, Eof, Idle, WriteReply, WriteFails
    <3>2. QED BY <1>u, <2>1, <3>1
  <2>4. QED BY <1>3, <2>2, <2>3 DEF Servers
<1>4. CASE Faults /\ UNCHANGED <<natVars, probeVars, disturbed>>
  <2>1. step' = step
    BY <1>4, <1>p
  <2>2. CASE (\E d \in net : Lose(d)) \/ (\E e \in handoffs : DropHandoff(e))
    <3>1. sending' = sending /\ net' \subseteq net /\ handoffs' \subseteq handoffs
      BY <2>2 DEF Lose, DropHandoff
    <3>2. QED BY <1>0, <2>1, <3>1, TrafficShrinks
  <2>3. CASE \E s \in Server : SocketFails(s)
    BY <1>0, <2>1, <2>3, SocketFailsTraffic
  <2>4. CASE \E c \in Conn : AcceptFails(c)
    BY <1>u, <2>1, <2>4 DEF AcceptFails
  <2>5. QED BY <1>4, <2>2, <2>3, <2>4 DEF Faults
<1>5. CASE \E d \in net : NatDrops(d)
  <2>1. sending' = sending /\ net' \subseteq net /\ handoffs' \subseteq handoffs /\ step' = step
    BY <1>5 DEF NatDrops, probeVars
  <2>2. QED BY <1>0, <2>1, TrafficShrinks
<1>6. CASE \E d \in Strays : Stray(d)
  BY <1>0, <1>6, DatagramsTraffic
<1>7. CASE \E c \in Conn : OtherClient(c)
  <2>1. UNCHANGED udpVars /\ step' = step
    BY <1>7, <1>c, <1>p DEF OtherClient
  <2>2. QED BY <1>u, <2>1
<1>8. CASE UNCHANGED vars
  BY <1>8, <1>u DEF vars, serverVars, probeVars
<1>9. QED BY <1>1, <1>2, <1>3, <1>4, <1>5, <1>6, <1>7, <1>8 DEF Next

-----------------------------------------------------------------------------
(* The connections. *)

LEMMA BoxFacts ==
  ASSUME NEW box, CodedBox(box)
  PROVE  /\ Len(box) \in Nat /\ Len(box) <= OutCap
         /\ box # <<>> => Coded(Head(box)) /\ CodedBox(Tail(box))
         /\ \A r : Coded(r) /\ Len(box) < OutCap => CodedBox(Append(box, r))
<1>0. OutCap \in Nat
  BY ServerAssumption
<1>1. PICK S : box \in Seq(S) /\ (\A m \in S : Coded(m)) /\ Len(box) <= OutCap
  BY DEF CodedBox
<1>2. Len(box) \in Nat
  BY <1>1
<1>3. ASSUME box # <<>> PROVE Coded(Head(box)) /\ CodedBox(Tail(box))
  <2>1. Tail(box) \in Seq(S) /\ Head(box) \in S /\ Len(Tail(box)) = Len(box) - 1
    BY <1>1, <1>3, HeadTailProperties
  <2>2. Len(Tail(box)) <= OutCap
    BY <1>0, <1>1, <1>2, <2>1
  <2>3. QED BY <1>1, <2>1, <2>2 DEF CodedBox
<1>4. ASSUME NEW r, Coded(r), Len(box) < OutCap PROVE CodedBox(Append(box, r))
  <2> DEFINE T == S \cup {r}
  <2>1. box \in Seq(T) /\ r \in T /\ \A m \in T : Coded(m)
    BY <1>1, <1>4
  <2> HIDE DEF T
  <2>2. Append(box, r) \in Seq(T) /\ Len(Append(box, r)) = Len(box) + 1
    BY <2>1, AppendProperties
  <2>3. Len(Append(box, r)) <= OutCap
    BY <1>0, <1>2, <1>4, <2>2
  <2>4. QED BY <2>1, <2>2, <2>3 DEF CodedBox
<1>5. QED BY <1>1, <1>2, <1>3, <1>4

(* The fields that an action does not set. *)
LEMMA AskedKept ==
  ASSUME NEW k, IsConnection(k), NEW u
  PROVE  /\ [k EXCEPT !.pc = u].asked = k.asked /\ [k EXCEPT !.peer = u].asked = k.asked
         /\ [k EXCEPT !.inbox = u].asked = k.asked /\ [k EXCEPT !.reply = u].asked = k.asked
         /\ [k EXCEPT !.outbox = u].asked = k.asked /\ [k EXCEPT !.asked = u].asked = u
  BY DEF IsConnection

ServedAll == \A c \in Conn : Served(conn[c])

LEMMA ServedSet ==
  ASSUME Connections, ServedAll, NEW c \in Conn, NEW k, Served(k),
         conn' = [conn EXCEPT ![c] = k]
  PROVE  ServedAll'
<1>1. \A x \in Conn : conn'[x] = IF x = c THEN k ELSE conn[x]
  BY DEF Connections
<1>2. \A x \in Conn : Served(conn'[x])
  BY <1>1 DEF ServedAll
<1>3. QED BY <1>2 DEF ServedAll, Served, CodedBox, Coded

LEMMA ServedRest == ASSUME ServedAll, conn' = conn PROVE ServedAll'
  BY DEF ServedAll, Served, CodedBox, Coded

LEMMA PcServed ==
  ASSUME Connections, ServedAll, NEW c \in Conn, NEW u \in ConnStates \ {"replying"},
         conn' = [conn EXCEPT ![c].pc = u]
  PROVE  ServedAll'
<1> DEFINE k == [conn[c] EXCEPT !.pc = u]
<1>1. IsConnection(conn[c]) /\ Served(conn[c])
  BY DEF Connections, ServedAll
<1>2. k.pc = u /\ k.outbox = conn[c].outbox /\ k.asked = conn[c].asked
  BY <1>1, SetPc, AskedKept
<1>3. conn' = [conn EXCEPT ![c] = k]
  BY Zenon
<1> HIDE DEF k
<1>4. Served(k)
  BY <1>1, <1>2 DEF Served
<1>5. QED BY <1>3, <1>4, ServedSet

LEMMA ClientServed ==
  ASSUME Connections, ServedAll, NEW c \in Conn,
         \/ Connect(c) \/ (\E m : Say(c, m)) \/ TakeReply(c) \/ HangUp(c) \/ AcceptFails(c)
  PROVE  ServedAll'
<1>0. IsConnection(conn[c]) /\ Served(conn[c])
  BY DEF Connections, ServedAll
<1>1. CASE Connect(c) \/ AcceptFails(c)
  <2>1. \/ conn' = [conn EXCEPT ![c].pc = "backlog"]
        \/ conn' = [conn EXCEPT ![c].pc = "gone"]
    BY <1>1 DEF Connect, AcceptFails
  <2>2. {"backlog", "gone"} \subseteq ConnStates \ {"replying"}
    BY DEF ConnStates
  <2>3. QED BY <2>1, <2>2, PcServed
<1>2. CASE \E m : Say(c, m)
  <2>1. PICK m : Say(c, m)
    BY <1>2
  <2> DEFINE k1 == [conn[c] EXCEPT !.inbox = Append(conn[c].inbox, m)]
             k == [k1 EXCEPT !.asked = conn[c].asked + 1]
  <2>2. /\ IsConnection(k1) /\ k1.pc = conn[c].pc /\ k1.reply = conn[c].reply
        /\ k1.outbox = conn[c].outbox
    BY <1>0, SetInbox
  <2>3. conn' = [conn EXCEPT ![c] = k] /\ conn[c].asked < MaxAsk
    BY <2>1, Zenon DEF Say
  <2> HIDE DEF k1
  <2>4. /\ k.pc = conn[c].pc /\ k.reply = conn[c].reply /\ k.outbox = conn[c].outbox
        /\ k.asked = conn[c].asked + 1
    BY <2>2, SetAsked, AskedKept
  <2> HIDE DEF k
  <2>5. k.asked \in 0..MaxAsk
    <3>1. MaxAsk \in Nat /\ conn[c].asked \in 0..MaxAsk
      BY <1>0, ServerAssumption DEF Served
    <3>2. QED BY <2>3, <2>4, <3>1
  <2>6. Served(k)
    BY <1>0, <2>4, <2>5 DEF Served
  <2>7. QED BY <2>3, <2>6, ServedSet
<1>3. CASE TakeReply(c)
  <2> DEFINE k == [conn[c] EXCEPT !.outbox = Tail(conn[c].outbox)]
  <2>1. /\ k.pc = conn[c].pc /\ k.reply = conn[c].reply /\ k.outbox = Tail(conn[c].outbox)
        /\ k.asked = conn[c].asked
    BY <1>0, SetOutbox, AskedKept
  <2>2. conn' = [conn EXCEPT ![c] = k] /\ conn[c].outbox # <<>>
    BY <1>3 DEF TakeReply
  <2> HIDE DEF k
  <2>3. Served(k)
    BY <1>0, <2>1, <2>2, BoxFacts DEF Served
  <2>4. QED BY <2>2, <2>3, ServedSet
<1>4. CASE HangUp(c)
  <2> DEFINE k == [conn[c] EXCEPT !.peer = "closed"]
  <2>1. /\ k.pc = conn[c].pc /\ k.reply = conn[c].reply /\ k.outbox = conn[c].outbox
        /\ k.asked = conn[c].asked
    BY <1>0, SetPeer, AskedKept
  <2>2. conn' = [conn EXCEPT ![c] = k]
    BY <1>4 DEF HangUp
  <2> HIDE DEF k
  <2>3. Served(k)
    BY <1>0, <2>1 DEF Served
  <2>4. QED BY <2>2, <2>3, ServedSet
<1>5. QED BY <1>1, <1>2, <1>3, <1>4

LEMMA ServeTcpServed ==
  ASSUME Connections, ServedAll, NEW c \in Conn, ServeTcp(c)
  PROVE  ServedAll'
<1> DEFINE m == Head(conn[c].inbox)
<1>1. CASE decode(m).is = "request"
  <2> DEFINE rfc5780 == decode_rfc5780(m)
             change == rfc5780.ok /\ rfc5780.change_request \notin {None, NONE}
             r == CASE ~rfc5780.ok -> encode_binding_error(m.txid, BAD_REQUEST)
                    [] change -> encode_binding_error(m.txid, UNKNOWN_ATTRIBUTE)
                    [] OTHER  -> Success(server_of[c], "Primary", m.txid, Address("tcp", c))
  <2>2. conn' = [conn EXCEPT ![c].pc = "replying", ![c].reply = r, ![c].inbox = Tail(@)]
    BY <1>1, Zenon DEF ServeTcp
  <2>3. Coded(r)
    <3> HIDE DEF rfc5780
    <3>1. \A code \in Codes : Coded(encode_binding_error(m.txid, code))
      BY RefusalCoded
    <3>2. Coded(Success(server_of[c], "Primary", m.txid, Address("tcp", c)))
      BY SuccessCoded
    <3>3. BAD_REQUEST \in Codes /\ UNKNOWN_ATTRIBUTE \in Codes
      BY DEF Codes
    <3>4. \/ \E code \in Codes : r = encode_binding_error(m.txid, code)
          \/ r = Success(server_of[c], "Primary", m.txid, Address("tcp", c))
      BY <3>3
    <3> HIDE DEF r
    <3>5. QED BY <3>1, <3>2, <3>4
  <2> HIDE DEF r
  <2> DEFINE k1 == [conn[c] EXCEPT !.pc = "replying"]
             k2 == [k1 EXCEPT !.reply = r]
             k == [k2 EXCEPT !.inbox = Tail(conn[c].inbox)]
  <2>4. IsConnection(conn[c]) /\ Served(conn[c])
    BY DEF Connections, ServedAll
  <2>5. IsConnection(k1) /\ k1.outbox = conn[c].outbox /\ k1.pc = "replying"
        /\ k1.asked = conn[c].asked
    BY <2>4, SetPc, AskedKept
  <2>6. conn' = [conn EXCEPT ![c] = k]
    BY <2>2, Zenon
  <2> HIDE DEF k1
  <2>7. IsConnection(k2) /\ k2.reply = r /\ k2.outbox = conn[c].outbox /\ k2.pc = "replying"
        /\ k2.asked = conn[c].asked
    BY <2>5, SetReply, AskedKept
  <2> HIDE DEF k2
  <2>8. k.reply = r /\ k.outbox = conn[c].outbox /\ k.pc = "replying" /\ k.asked = conn[c].asked
    BY <2>7, SetInbox, AskedKept
  <2> HIDE DEF k
  <2>9. Served(k)
    BY <2>3, <2>4, <2>8 DEF Served, ConnStates
  <2>10. QED BY <2>6, <2>9, ServedSet
<1>2. CASE decode(m).is # "request"
  <2>1. conn' = [conn EXCEPT ![c].pc = "gone"]
    BY <1>2 DEF ServeTcp, Return
  <2>2. "gone" \in ConnStates \ {"replying"}
    BY DEF ConnStates
  <2>3. QED BY <2>1, <2>2, PcServed
<1>3. QED BY <1>1, <1>2

LEMMA WriteReplyServed ==
  ASSUME Connections, ServedAll, NEW c \in Conn, WriteReply(c)
  PROVE  ServedAll'
<1> DEFINE k1 == [conn[c] EXCEPT !.pc = "reading"]
           k == [k1 EXCEPT !.outbox = Append(conn[c].outbox, conn[c].reply)]
<1>1. IsConnection(conn[c]) /\ Served(conn[c])
  BY DEF Connections, ServedAll
<1>2. IsConnection(k1) /\ k1.pc = "reading" /\ k1.asked = conn[c].asked
  BY <1>1, SetPc, AskedKept
<1>3. conn' = [conn EXCEPT ![c] = k] /\ conn[c].pc = "replying" /\ Len(conn[c].outbox) < OutCap
  BY Zenon DEF WriteReply
<1> HIDE DEF k1
<1>4. k.pc = "reading" /\ k.outbox = Append(conn[c].outbox, conn[c].reply)
      /\ k.asked = conn[c].asked
  BY <1>2, SetOutbox, AskedKept
<1> HIDE DEF k
<1>5. CodedBox(k.outbox)
  BY <1>1, <1>3, <1>4, BoxFacts DEF Served
<1>6. Served(k)
  BY <1>1, <1>4, <1>5 DEF Served, ConnStates
<1>7. QED BY <1>3, <1>6, ServedSet

LEMMA ServedStep ==
  ASSUME Connections, ServedAll, [Next]_vars
  PROVE  ServedAll'
<1>r. ASSUME UNCHANGED tcpVars PROVE ServedAll'
  BY <1>r, ServedRest DEF tcpVars
<1>p. probe_conn \in Conn
  BY ProbeAssumption
<1>1. CASE Prober
  <2>1. CASE SendRequest \/ \E d \in net : Receive(d)
    BY <1>r, <2>1 DEF SendRequest, Receive
  <2>2. CASE ProbeConnects \/ ProbeAsks \/ ProbeReads \/ ProbeEof \/ ProbeLeaves
    <3>1. \/ Connect(probe_conn) \/ (\E m : Say(probe_conn, m))
          \/ TakeReply(probe_conn) \/ HangUp(probe_conn) \/ conn' = conn
      BY <2>2 DEF ProbeConnects, ProbeAsks, ProbeReads, ProbeEof, ProbeLeaves, serverVars, tcpVars
    <3>2. QED BY <1>p, <3>1, ClientServed, ServedRest
  <2>3. QED BY <1>1, <2>1, <2>2 DEF Prober
<1>2. CASE Deadlines \/ SocketError \/ ProbeBreaks
  BY <1>2, <1>r DEF Deadlines, TimeUp, TcpDeadline, SocketError, ProbeBreaks, serverVars
<1>3. CASE UdpServers
  <2>1. CASE \E s \in Server, w \in Socket : \E d \in net : ServeUdp(s, w, d)
    BY <1>r, <2>1 DEF ServeUdp
  <2>2. CASE \E s \in Server, w \in Socket : SendReply(s, w)
    BY <1>r, <2>2 DEF SendReply
  <2>3. CASE \E e \in handoffs : answer_for(e)
    BY <1>r, <2>3 DEF answer_for
  <2>4. QED BY <1>3, <2>1, <2>2, <2>3 DEF UdpServers
<1>4. ASSUME NEW c \in Conn,
             Accept(c) \/ ServeTcp(c) \/ Eof(c) \/ Idle(c) \/ WriteReply(c) \/ WriteFails(c)
      PROVE  ServedAll'
  <2>1. CASE Accept(c) \/ Eof(c) \/ Idle(c) \/ WriteFails(c)
    <3>1. \/ conn' = [conn EXCEPT ![c].pc = "reading"]
          \/ conn' = [conn EXCEPT ![c].pc = "gone"]
      BY <2>1 DEF Accept, Eof, Idle, WriteFails, Return
    <3>2. {"reading", "gone"} \subseteq ConnStates \ {"replying"}
      BY DEF ConnStates
    <3>3. QED BY <3>1, <3>2, PcServed
  <2>2. QED BY <1>4, <2>1, ServeTcpServed, WriteReplyServed
<1>5. CASE Faults
  <2>1. CASE (\E d \in net : Lose(d)) \/ (\E e \in handoffs : DropHandoff(e))
             \/ (\E s \in Server : SocketFails(s))
    BY <1>r, <2>1 DEF Lose, DropHandoff, SocketFails
  <2>2. CASE \E c \in Conn : AcceptFails(c)
    BY <2>2, ClientServed
  <2>3. QED BY <1>5, <2>1, <2>2 DEF Faults
<1>6. CASE (\E d \in net : NatDrops(d)) \/ \E d \in Strays : Stray(d)
  BY <1>6, <1>r DEF NatDrops, Stray
<1>7. CASE \E c \in Conn : OtherClient(c)
  <2>1. PICK c \in Conn : OtherClient(c)
    BY <1>7
  <2>2. Connect(c) \/ (\E m : Say(c, m)) \/ TakeReply(c) \/ HangUp(c)
    BY <2>1 DEF OtherClient
  <2>3. QED BY <2>2, ClientServed
<1>8. CASE UNCHANGED vars
  BY <1>8, <1>r DEF vars, serverVars
<1>9. QED BY <1>1, <1>2, <1>3, <1>4, <1>5, <1>6, <1>7, <1>8 DEF Next, Servers, TcpServers

-----------------------------------------------------------------------------
(* The prober. *)

LEMMA OneProbe == ASSUME NEW x PROVE Len(<<x>>) = 1
  OBVIOUS

LEMMA NoProbe == Len(<<>>) = 0
  OBVIOUS

LEMMA Finishes ==
  ASSUME Probing, NEW found, NEW result \in Report, Finish(found, result),
         Len(found) \in Nat, Len(found) <= Len(targets)
  PROVE  Probing'
  BY DEF Probing, Finish

LEMMA Advances ==
  ASSUME Probing, NEW found, Advance(found), Len(found) \in Nat, Len(found) <= Len(targets)
  PROVE  Probing'
<1>1. attempts \in Nat \ {0}
  BY ProbeAssumption
<1>2. 0 \in 0..attempts /\ 0 < attempts
  BY <1>1
<1>3. QED BY <1>2 DEF Probing, Advance

LEMMA Reported ==
  /\ StunError \subseteq Report
  /\ \A why \in {"Malformed", "TransactionMismatch", "Timeout", "Io", "NoOtherAddress",
                 "ChangeIgnored"} : Error(why) \in StunError
  /\ \A code \in Codes : ServerError(code) \in StunError
  /\ \A kind \in NatMapping \cup NatFiltering \cup {"Probed"} : Found(kind) \in Report
<1>1. StunError \subseteq Report
  BY DEF Report
<1>2. \A why \in {"Malformed", "TransactionMismatch", "Timeout", "Io", "NoOtherAddress",
                  "ChangeIgnored"} : Error(why) \in StunError
  BY DEF Error, StunError
<1>3. \A code \in Codes : ServerError(code) \in StunError
  BY DEF ServerError, StunError, Codes
<1>4. \A kind \in NatMapping \cup NatFiltering \cup {"Probed"} : Found(kind) \in Report
  BY DEF Found, Report
<1>5. QED BY <1>1, <1>2, <1>3, <1>4

(* Each outcome of a transaction leads to the next one or to a report. *)
LEMMA MappingProbes ==
  ASSUME Fixed, Progress, Probing, op = "mapping", pc # "done",
         NEW outcome, outcome.is = "answer" \/ outcome \in StunError, MappingGoesOn(outcome)
  PROVE  Probing'
<1>1. CASE outcome.is # "answer"
  <2>1. Finish(probes, outcome) /\ outcome \in Report
    BY <1>1, Reported DEF MappingGoesOn
  <2>2. QED BY <2>1, Finishes DEF Probing
<1>2. CASE outcome.is = "answer"
  <2> DEFINE x == outcome.mapped
             found == Append(probes, x)
             T == Mappable \cup {x}
  <2>1. /\ probes \in Seq(Mappable) /\ step <= Len(targets) /\ Len(probes) = step - 1
        /\ step \in Nat /\ Len(targets) \in Nat
    BY DEF Progress, Fixed
  <2>2. probes \in Seq(T) /\ x \in T
    BY <2>1
  <2>3. Len(found) = Len(probes) + 1
    <3> HIDE DEF T, x
    <3>1. QED BY <2>2, AppendProperties
  <2>4. Len(found) \in Nat /\ Len(found) <= Len(targets)
    BY <2>1, <2>3
  <2>5. Found(MappingOf(found)) \in Report
    BY Reported DEF MappingOf, NatMapping
  <2>6. Advance(found) \/ Finish(found, Found(MappingOf(found)))
    BY <1>2 DEF MappingGoesOn
  <2> HIDE DEF found
  <2>7. QED BY <2>4, <2>5, <2>6, Finishes, Advances
<1>3. QED BY <1>1, <1>2

LEMMA FilteringProbes ==
  ASSUME Fixed, Progress, Probing, op = "filtering", pc # "done",
         NEW outcome, outcome.is = "answer" \/ outcome \in StunError, GoesOn(outcome)
  PROVE  Probing'
<1>0. Len(targets) \in Nat /\ Len(targets) > 1 /\ Len(probes) \in Nat /\ Len(probes) <= Len(targets)
  BY DEF Fixed, Probing
<1>1. step = 1 \/ step = 2 \/ step = 3
  BY DEF Progress
<1>2. /\ \A x : Len(<<x>>) \in Nat /\ Len(<<x>>) <= Len(targets)
  <2>1. \A x : Len(<<x>>) = 1
    BY OneProbe
  <2>2. QED BY <1>0, <2>1
<1>3. /\ Error("NoOtherAddress") \in Report /\ Error("ChangeIgnored") \in Report
      /\ \A kind \in NatFiltering : Found(kind) \in Report
      /\ outcome.is # "answer" => outcome \in Report
  BY Reported
<1>4. CASE step = 1
  <2>1. TestI(outcome)
    BY <1>4 DEF GoesOn
  <2> DEFINE found == <<outcome.mapped>>
  <2>2. Len(found) \in Nat /\ Len(found) <= Len(targets)
    BY <1>2
  <2>3. \/ outcome.is # "answer" /\ Finish(probes, outcome)
        \/ Finish(found, Error("NoOtherAddress")) \/ Advance(found)
    BY <2>1 DEF TestI
  <2> HIDE DEF found
  <2>4. QED BY <1>0, <1>3, <2>2, <2>3, Finishes, Advances
<1>5. CASE step = 2 \/ step = 3
  <2>1. \/ \E result \in Report : Finish(probes, result)
        \/ Advance(probes)
    <3>1. CASE step = 2
      <4>1. TestII(outcome)
        BY <3>1 DEF GoesOn
      <4>2. QED BY <1>3, <4>1 DEF TestII, NatFiltering
    <3>2. CASE step = 3
      <4>1. TestIII(outcome)
        BY <3>2 DEF GoesOn
      <4>2. QED BY <1>3, <4>1 DEF TestIII, NatFiltering
    <3>3. QED BY <1>5, <3>1, <3>2
  <2>2. QED BY <1>0, <2>1, Finishes, Advances
<1>6. QED BY <1>1, <1>4, <1>5

LEMMA OutcomeProbes ==
  ASSUME Fixed, Progress, Probing, op \in Inside, pc # "done",
         NEW outcome, outcome.is = "answer" \/ outcome \in StunError, GoesOn(outcome)
  PROVE  Probing'
<1>1. CASE op = "mapping"
  <2>1. MappingGoesOn(outcome)
    BY <1>1 DEF GoesOn
  <2>2. QED BY <1>1, <2>1, MappingProbes
<1>2. CASE op = "filtering"
  BY <1>2, FilteringProbes
<1>3. QED BY <1>1, <1>2 DEF Inside

LEMMA ProbingRests ==
  ASSUME Probing, UNCHANGED probeVars PROVE Probing'
  BY DEF Probing, probeVars

(* It moves within its operation. *)
LEMMA ProbingMoves ==
  ASSUME Probing, UNCHANGED <<targets, probes>>, pc' \in {"send", "wait", "ask"},
         attempt' \in 0..attempts, pc' = "send" => attempt' < attempts
  PROVE  Probing'
  BY DEF Probing

LEMMA DecodedError ==
  ASSUME NEW m, Coded(m), decode(m).is = "error"
  PROVE  ServerError(decode(m).code) \in StunError
<1>1. m.type = "error"
  BY DEF decode, Decoded
<1>2. QED BY <1>1, Reported DEF Coded

LEMMA ReceiveProbes ==
  ASSUME Fixed, Progress, Probing, Traffic, NEW d \in net, Receive(d)
  PROVE  Probing'
<1> DEFINE h == Heard(d)
<1>1. pc = "wait" /\ op \in Inside
  BY DEF Receive
<1>2. CASE h.is = "nothing"
  BY <1>2, ProbingRests DEF Receive
<1>3. CASE h.is = "answer"
  <2>1. GoesOn(h)
    BY <1>3 DEF Receive
  <2> HIDE DEF h
  <2>2. QED BY <1>1, <1>3, <2>1, OutcomeProbes
<1>4. CASE h.is = "refusal"
  <2>1. GoesOn(ServerError(h.code))
    BY <1>4 DEF Receive
  <2>2. decode(d.msg).is = "error" /\ h.code = decode(d.msg).code
    BY <1>4 DEF Heard
  <2>3. Coded(d.msg)
    BY DEF Traffic, Numbered
  <2>4. ServerError(h.code) \in StunError
    BY <2>2, <2>3, DecodedError
  <2> HIDE DEF h
  <2>5. QED BY <1>1, <2>1, <2>4, OutcomeProbes
<1>5. h.is \in {"nothing", "answer", "refusal"}
  BY DEF Heard
<1>6. QED BY <1>2, <1>3, <1>4, <1>5

LEMMA TroubleProbes ==
  ASSUME Fixed, Progress, Probing, TimeUp \/ SocketError
  PROVE  Probing'
<1>1. pc # "done" /\ op \in Inside
  BY DEF TimeUp, SocketError
<1>2. \/ pc' = "send" /\ attempt < attempts /\ UNCHANGED <<targets, probes, attempt>>
      \/ GoesOn(Error("Timeout")) \/ GoesOn(Error("Io"))
  BY DEF TimeUp, SocketError
<1>3. CASE pc' = "send" /\ attempt < attempts /\ UNCHANGED <<targets, probes, attempt>>
  BY <1>3, ProbingMoves DEF Probing
<1>4. Error("Timeout") \in StunError /\ Error("Io") \in StunError
  BY Reported
<1>5. QED BY <1>1, <1>2, <1>3, <1>4, OutcomeProbes

LEMMA ProbeTcpProbes ==
  ASSUME Fixed, Probing, ServedAll,
         \/ ProbeConnects \/ ProbeAsks \/ ProbeReads \/ ProbeEof \/ ProbeLeaves
         \/ TcpDeadline \/ ProbeBreaks
  PROVE  Probing'
<1>e. /\ \A why \in {"Malformed", "TransactionMismatch", "Timeout", "Io"} : Error(why) \in Report
      /\ StunError \subseteq Report /\ Found("Probed") \in Report
  BY Reported
<1>f. ASSUME NEW result \in Report, Finish(probes, result) PROVE Probing'
  BY <1>f, Finishes DEF Probing
<1>m. ASSUME pc' \in {"ask", "wait"}, UNCHANGED <<targets, probes, attempt>> PROVE Probing'
  BY <1>m, ProbingMoves DEF Probing
<1>1. CASE ProbeConnects
  BY <1>1, <1>m DEF ProbeConnects
<1>2. CASE ProbeAsks
  BY <1>2, <1>e, <1>f, <1>m DEF ProbeAsks
<1>3. CASE ProbeReads
  <2> DEFINE box == conn[probe_conn].outbox
             m == decode(Head(box))
  <2>1. probe_conn \in Conn
    BY ProbeAssumption
  <2>2. box # <<>> /\ CodedBox(box)
    BY <1>3, <2>1 DEF ProbeReads, TakeReply, ServedAll, Served
  <2>3. Coded(Head(box))
    <3> HIDE DEF box
    <3>1. QED BY <2>2, BoxFacts
  <2>4. m.is = "error" => ServerError(m.code) \in Report
    BY <1>e, <2>3, DecodedError
  <2>5. \/ Finish(<<m.mapped>>, Found("Probed"))
        \/ m.is = "error" /\ Finish(probes, ServerError(m.code))
        \/ Finish(probes, Error("Malformed")) \/ Finish(probes, Error("TransactionMismatch"))
    BY <1>3 DEF ProbeReads
  <2>6. CASE Finish(<<m.mapped>>, Found("Probed"))
    <3> DEFINE found == <<m.mapped>>
    <3>1. Len(targets) \in Nat /\ Len(targets) > 1 /\ Len(found) = 1
      BY OneProbe DEF Fixed
    <3> HIDE DEF found
    <3>2. Len(found) \in Nat /\ Len(found) <= Len(targets)
      BY <3>1
    <3>3. Finish(found, Found("Probed"))
      BY <2>6 DEF found
    <3>4. QED BY <1>e, <3>2, <3>3, Finishes
  <2> HIDE DEF m
  <2>7. QED BY <1>e, <1>f, <2>4, <2>5, <2>6
<1>4. CASE ProbeEof \/ TcpDeadline \/ ProbeBreaks
  BY <1>4, <1>e, <1>f DEF ProbeEof, TcpDeadline, ProbeBreaks
<1>5. CASE ProbeLeaves
  BY <1>5, ProbingRests DEF ProbeLeaves
<1>6. QED BY <1>1, <1>2, <1>3, <1>4, <1>5

LEMMA ProbingStep ==
  ASSUME Fixed, Progress, Probing, Traffic, ServedAll, [Next]_vars
  PROVE  Probing'
<1>1. CASE SendRequest
  <2>1. attempts \in Nat /\ attempt \in 0..attempts /\ attempt < attempts
    BY <1>1, ProbeAssumption DEF SendRequest, Probing
  <2>2. /\ attempt' = attempt + 1 /\ pc' = "wait" /\ UNCHANGED <<targets, probes>>
    BY <1>1 DEF SendRequest
  <2>3. attempt' \in 0..attempts
    BY <2>1, <2>2
  <2>4. QED BY <2>2, <2>3, ProbingMoves
<1>2. CASE \E d \in net : Receive(d)
  BY <1>2, ReceiveProbes
<1>3. CASE TimeUp \/ SocketError
  BY <1>3, TroubleProbes
<1>4. CASE \/ ProbeConnects \/ ProbeAsks \/ ProbeReads \/ ProbeEof \/ ProbeLeaves
           \/ TcpDeadline \/ ProbeBreaks
  BY <1>4, ProbeTcpProbes
<1>5. CASE UNCHANGED probeVars
  BY <1>5, ProbingRests
<1>6. CASE Prober
  BY <1>1, <1>2, <1>4, <1>6, Zenon DEF Prober
<1>7. CASE Deadlines
  BY <1>3, <1>4, <1>7, Zenon DEF Deadlines
<1>8. CASE SocketError \/ ProbeBreaks
  BY <1>3, <1>4, <1>8, Zenon
<1>9. CASE Servers
  BY <1>5, <1>9 DEF Servers
<1>10. CASE Faults /\ UNCHANGED <<natVars, probeVars, disturbed>>
  BY <1>5, <1>10
<1>11. CASE (\E d \in net : NatDrops(d)) \/ (\E d \in Strays : Stray(d))
            \/ (\E c \in Conn : OtherClient(c))
  BY <1>5, <1>11 DEF NatDrops, Stray, OtherClient
<1>12. CASE UNCHANGED vars
  BY <1>5, <1>12 DEF vars
<1>13. QED BY <1>6, <1>7, <1>8, <1>9, <1>10, <1>11, <1>12 DEF Next

-----------------------------------------------------------------------------
LEMMA InitExchangeTypes == ASSUME Init PROVE ExchangeTypes
<1>1. Running
  BY ServerAssumption DEF Init, InitServer, Running
<1>2. Traffic
  BY DEF Init, InitServer, Traffic
<1>3. ASSUME NEW c \in Conn PROVE Served(conn[c])
  <2>1. conn[c] = [pc |-> "none", peer |-> "open", inbox |-> <<>>, reply |-> None,
                   outbox |-> <<>>, asked |-> 0]
    BY DEF Init, InitServer
  <2>2. MaxAsk \in Nat /\ OutCap \in Nat
    BY ServerAssumption
  <2>3. CodedBox(<<>>)
    <3> DEFINE empty == <<>>
               none == {}
    <3>1. empty \in Seq(none) /\ Len(empty) = 0
      BY NoProbe
    <3>2. \A m \in none : Coded(m)
      OBVIOUS
    <3> HIDE DEF empty, none
    <3>3. \E S : empty \in Seq(S) /\ (\A m \in S : Coded(m)) /\ Len(empty) <= OutCap
      BY <2>2, <3>1, <3>2
    <3>4. CodedBox(empty)
      BY <3>3, Zenon DEF CodedBox
    <3>5. QED BY <3>4 DEF empty
  <2>4. QED BY <2>1, <2>2, <2>3 DEF Served, ConnStates
<1>4. Probing
  <2>1. attempts \in Nat \ {0}
    BY ProbeAssumption
  <2>2. Fixed
    BY InitIsTrue DEF ProbeInv
  <2>3. Len(targets) \in Nat
    BY <2>2 DEF Fixed
  <2>4. pc \in {"connect", "send"} /\ attempt = 0 /\ probes = <<>>
    BY DEF Init
  <2>5. Len(probes) = 0
    BY <2>4, NoProbe
  <2>6. 0 \in 0..attempts /\ 0 < attempts
    BY <2>1
  <2>7. QED BY <2>3, <2>4, <2>5, <2>6 DEF Probing
<1>5. QED BY <1>1, <1>2, <1>3, <1>4 DEF ExchangeTypes

LEMMA ExchangeTypesStep ==
  ASSUME AccountInv, ProbeInv, ExchangeTypes, [Next]_vars
  PROVE  ExchangeTypes'
<1>1. /\ Running /\ Traffic /\ ServedAll /\ Probing
      /\ Connections /\ Loops /\ Fixed /\ Progress
  BY DEF ExchangeTypes, ServedAll, AccountInv, ProbeInv
<1>2. Running' /\ Traffic'
  BY <1>1, RunningStep, TrafficStep
<1>3. ServedAll' /\ Probing'
  BY <1>1, ServedStep, ProbingStep
<1>4. QED BY <1>2, <1>3 DEF ExchangeTypes, ServedAll

LEMMA ExchangeTypesSuffice ==
  ASSUME AccountInv, ProbeInv, ExchangeTypes
  PROVE  TypeOK
<1>1. ASSUME NEW s \in Server PROVE tcp_slots[s] \in 0..MAX_TCP_CONNECTIONS
  <2>1. /\ tcp_slots[s] \in Nat /\ Cardinality(Held(s)) \in Nat /\ MAX_TCP_CONNECTIONS \in Nat
        /\ tcp_slots[s] + Cardinality(Held(s)) = MAX_TCP_CONNECTIONS
    BY CountedSets, ServerAssumption DEF AccountInv, Counters, SlotsFit
  <2>2. QED BY <2>1
<1>2. tcp_slots \in [Server -> 0..MAX_TCP_CONNECTIONS]
  BY <1>1 DEF AccountInv, Counters
<1>3. metrics \in [Server -> [Metric -> Nat]]
  BY DEF AccountInv, Counters
<1>4. \A d \in net : d.msg.txid \in 0..step
  BY DEF ExchangeTypes, Traffic, Numbered
<1>5. ASSUME NEW c \in Conn
      PROVE  /\ conn[c].pc \in {"none", "backlog", "reading", "replying", "gone"}
             /\ Len(conn[c].outbox) <= OutCap /\ conn[c].asked <= MaxAsk
  <2>1. /\ conn[c].pc \in ConnStates /\ conn[c].asked \in 0..MaxAsk /\ MaxAsk \in Nat
        /\ CodedBox(conn[c].outbox)
    BY ServerAssumption DEF ExchangeTypes, Served
  <2>2. QED BY <2>1, BoxFacts DEF ConnStates
<1>6. report \in Report \cup {None} /\ (report = None <=> pc # "done")
  BY ReportAssumption DEF ProbeInv, Progress, ExchangeTypes, Probing
<1>7. QED BY <1>2, <1>3, <1>4, <1>5, <1>6 DEF TypeOK, ExchangeTypes, Running, Probing

(* Every variable of the servers, the network and the prober keeps its     *)
(* type: no attempt beyond the last, no more probes than targets, no reply *)
(* beyond what a connection holds, no slot beyond the limit, and a report, *)
(* of a kind of its own, exactly when the operation is done.               *)
THEOREM ExchangeTypeCorrect == Spec => []TypeOK
<1>1. Init => AccountInv /\ ProbeInv /\ ExchangeTypes
  BY InitBalances, InitIsTrue, InitExchangeTypes
<1>2. AccountInv /\ ProbeInv /\ ExchangeTypes /\ [Next]_vars
        => AccountInv' /\ ProbeInv' /\ ExchangeTypes'
  BY NextBalances, NextIsTrue, ExchangeTypesStep
<1>3. AccountInv /\ ProbeInv /\ ExchangeTypes => TypeOK
  BY ExchangeTypesSuffice
<1>4. QED BY <1>1, <1>2, <1>3, PTL DEF Spec
=============================================================================
