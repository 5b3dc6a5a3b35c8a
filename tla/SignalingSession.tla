-------------------------- MODULE SignalingSession --------------------------
(***************************************************************************)
(* What the signaling hub promises the peers of its rooms, without rooms,  *)
(* tasks, channels or locks: two peers are matched once and for all, each  *)
(* is told so before anything else, each then hears what the other says in *)
(* order with nothing missing after where it begins, and after the line    *)
(* that says the other has left it hears nothing more.  What a peer on a   *)
(* WebSocket says is heard line by line; what a peer on TCP says is heard  *)
(* in pieces cut anywhere, a line in two or two lines in one.              *)
(*                                                                         *)
(* A matched peer may already have left: the hub makes no promise there.   *)
(***************************************************************************)
EXTENDS Integers, Sequences

CONSTANTS Peer, NoPeer, Stream, MaxSend, LineEnds

VARIABLES
  partner,    \* peer -> the peer it is matched with, or NoPeer
  answerers,  \* the peers matched as answerer
  left,       \* the peers the hub has finished with
  sent,       \* peer -> how many parts of its text it has said
  view        \* peer -> the messages it was sent, in order

vars == <<partner, answerers, left, sent, view>>

HubLine(k) == [kind |-> k, from |-> NoPeer, n |-> 0, to |-> 0]
Relayed(p, i, j) == [kind |-> "relayed", from |-> p, n |-> i, to |-> j]

NextEnd(p, i, j) ==
  j \in LineEnds[p] /\ i <= j /\ LineEnds[p] \cap (i..(j - 1)) = {}
IsLine(p, i, j) == NextEnd(p, i, j) /\ (i = 1 \/ i - 1 \in LineEnds[p])

Init ==
  /\ partner = [p \in Peer |-> NoPeer]
  /\ answerers = {} /\ left = {}
  /\ sent = [p \in Peer |-> 0]
  /\ view = [p \in Peer |-> <<>>]

Match(p, q) ==
  /\ p # q /\ q \notin left
  /\ partner[p] = NoPeer /\ partner[q] = NoPeer
  /\ partner' = [partner EXCEPT ![p] = q, ![q] = p]
  /\ answerers' = answerers \cup {q}
  /\ UNCHANGED <<left, sent, view>>

Leave(p) ==
  /\ left' = left \cup {p}
  /\ UNCHANGED <<partner, answerers, sent, view>>

Say(p) ==
  /\ \E j \in 1..MaxSend : /\ NextEnd(p, sent[p] + 1, j)
                            /\ sent' = [sent EXCEPT ![p] = j]
  /\ UNCHANGED <<partner, answerers, left, view>>

ReadyLine(p) ==
  HubLine(IF p \in answerers THEN "READY:answerer" ELSE "READY:offerer")

(* What a peer may be sent of its partner's text from position i on.       *)
Pieces(q, i) ==
  {Relayed(q, i, j) : j \in {k \in i..sent[q] : q \in Stream \/ IsLine(q, i, k)}}

(* The messages a peer may be sent next. *)
NextLines(p) ==
  LET q == partner[p]
      last == view[p][Len(view[p])]
  IN IF view[p] = <<>>
     THEN (IF q = NoPeer THEN {} ELSE {ReadyLine(p)})
     ELSE (IF q \in left /\ q # NoPeer THEN {HubLine("PEER_LEFT")} ELSE {})
          \cup
          (CASE last = ReadyLine(p)      -> UNION {Pieces(q, i) : i \in 1..sent[q]}
             [] last.kind = "relayed"    -> Pieces(q, last.to + 1)
             [] OTHER                    -> {})

MayHear(p) ==
  view[p] = <<>> \/ view[p][Len(view[p])].kind # "PEER_LEFT"

Hear(p) ==
  /\ p \notin left /\ MayHear(p)
  /\ \E line \in NextLines(p) : view' = [view EXCEPT ![p] = Append(@, line)]
  /\ UNCHANGED <<partner, answerers, left, sent>>

(* The room is full: the refusal is the first line and the last.           *)
Refuse(p) ==
  /\ p \notin left /\ partner[p] = NoPeer /\ view[p] = <<>>
  /\ view' = [view EXCEPT ![p] = Append(@, HubLine("ERROR"))]
  /\ left' = left \cup {p}
  /\ UNCHANGED <<partner, answerers, sent>>

Next == \E p \in Peer : \/ Leave(p) \/ Say(p) \/ Hear(p) \/ Refuse(p)
                        \/ \E q \in Peer : Match(p, q)

Spec == Init /\ [][Next]_vars
=============================================================================
