---------------------------- MODULE SignalingHub ----------------------------
(***************************************************************************)
(* The signaling hub: one task per connected peer runs handle_peer, which  *)
(* registers the peer in a room, relays lines between the two peers of the *)
(* room and cleans up.  The tasks share the map of rooms behind one async  *)
(* mutex.  Each task owns the receiving half of an unbounded channel whose *)
(* sending half sits in the room's entry.                                  *)
(*                                                                         *)
(* A peer of the model is one connection.  A task is interrupted only at   *)
(* an await, so an action runs from one await to the next; the mutex is    *)
(* a variable because the READY and ERROR lines are sent while it is held. *)
(*                                                                         *)
(* What a peer says after its JOIN is one text, known by the positions of  *)
(* its parts.  recv returns a chunk of it: over a WebSocket one message,   *)
(* which is a line; over TCP any stretch of what has arrived, a part of a  *)
(* line as well as several lines.  The hub relays each chunk as a message  *)
(* of its own and gives it a newline if it has none.                       *)
(***************************************************************************)
EXTENDS Integers, Sequences

CONSTANTS
  Peer,      \* the connections made to the hub
  Room,      \* the room names their JOIN messages carry
  NoPeer,    \* the absence of a peer: an empty slot, a free lock
  Stream,    \* the peers connected over TCP, a stream without messages
  MaxSend,   \* bound: the parts of the text one peer sends after its JOIN
  LineEnds,  \* peer -> the positions in its text at which a line ends
  OutCap     \* messages a connection buffers before transport.send blocks

ASSUME HubAssumption ==
  /\ NoPeer \notin Peer
  /\ MaxSend \in Nat
  /\ LineEnds \in [Peer -> SUBSET (1..MaxSend)]
  /\ OutCap \in Nat \ {0}

VARIABLES
  peer_a,    \* room -> the peer whose channel is peer_a_tx (NoPeer: no entry)
  peer_b,    \* room -> the peer whose channel is peer_b_tx (NoPeer: None)
  lock,      \* the task that holds the rooms mutex across an await
  pc,        \* peer -> where its task is in handle_peer
  role,      \* peer -> the role the hub gave it
  queue,     \* peer -> the contents of its task's channel my_rx
  held,      \* peer -> the message its task holds between two awaits
  room,      \* peer -> the room its JOIN names
  conn,      \* peer -> the state of its connection
  inbound,   \* peer -> how many of the parts it sent its task may yet receive
  sent,      \* peer -> how many parts of its text it has sent
  view,      \* peer -> every message the hub delivered to it, in order
  unread     \* peer -> how many of those it has not read yet

hubVars  == <<peer_a, peer_b, lock, pc, role, queue, held>>
peerVars == <<room, conn, inbound, sent, view, unread>>
vars     == <<hubVars, peerVars>>

(***************************************************************************)
(* Messages.  A relayed one carries parts n to to of its sender's text; it *)
(* always ends in a newline, the sender's own if a line ends at to and     *)
(* otherwise one that the hub adds.  The hub's own lines carry no text.    *)
(***************************************************************************)
HubKinds == {"READY:offerer", "READY:answerer", "PEER_LEFT", "ERROR"}
HubLine(k) == [kind |-> k, from |-> NoPeer, n |-> 0, to |-> 0]
Relayed(p, i, j) == [kind |-> "relayed", from |-> p, n |-> i, to |-> j]
NoLine == [kind |-> "none", from |-> NoPeer, n |-> 0, to |-> 0]

Line == [kind : HubKinds \cup {"relayed", "none"},
         from : Peer \cup {NoPeer}, n : 0..MaxSend, to : 0..MaxSend]

(* The first line end of p's text from position i on is at j; and parts i  *)
(* to j are one line of it.                                                *)
NextEnd(p, i, j) ==
  j \in LineEnds[p] /\ i <= j /\ LineEnds[p] \cap (i..(j - 1)) = {}
IsLine(p, i, j) == NextEnd(p, i, j) /\ (i = 1 \/ i - 1 \in LineEnds[p])

PcValues == {"listener", "joining", "refuse", "announce", "select", "forward",
             "send", "cleanup", "return", "done"}

TypeOK ==
  /\ peer_a \in [Room -> Peer \cup {NoPeer}]
  /\ peer_b \in [Room -> Peer \cup {NoPeer}]
  /\ lock \in Peer \cup {NoPeer}
  /\ pc \in [Peer -> PcValues]
  /\ role \in [Peer -> {"none", "offerer", "answerer"}]
  /\ queue \in [Peer -> Seq(Line)]
  /\ held \in [Peer -> Line]
  /\ room \in [Peer -> Room]
  /\ conn \in [Peer -> {"idle", "open", "gone"}]
  /\ inbound \in [Peer -> 0..MaxSend]
  /\ sent \in [Peer -> 0..MaxSend]
  /\ \A p \in Peer : inbound[p] <= sent[p]
  /\ view \in [Peer -> Seq(Line)]
  /\ unread \in [Peer -> 0..OutCap]

Init ==
  /\ peer_a = [r \in Room |-> NoPeer]
  /\ peer_b = [r \in Room |-> NoPeer]
  /\ lock = NoPeer
  /\ pc = [p \in Peer |-> "listener"]
  /\ role = [p \in Peer |-> "none"]
  /\ queue = [p \in Peer |-> <<>>]
  /\ held = [p \in Peer |-> NoLine]
  /\ room \in [Peer -> Room]
  /\ conn = [p \in Peer |-> "idle"]
  /\ inbound = [p \in Peer |-> 0]
  /\ sent = [p \in Peer |-> 0]
  /\ view = [p \in Peer |-> <<>>]
  /\ unread = [p \in Peer |-> 0]

-----------------------------------------------------------------------------
(* Helpers. *)

Goto(p, l) == pc' = [pc EXCEPT ![p] = l]

(* The receiver of q's channel is dropped when handle_peer returns. *)
TxClosed(q) == pc[q] = "done"

(* UnboundedSender::send: the line is queued unless the receiver is gone. *)
Enqueue(q, line) ==
  queue' = IF TxClosed(q) THEN queue ELSE [queue EXCEPT ![q] = Append(@, line)]

(* The slot of the room that a task relays to (NoPeer when it is None). *)
OtherOf(p) == IF role[p] = "offerer" THEN peer_b[room[p]] ELSE peer_a[room[p]]

(* transport.send of a line: it completes when the connection has room for *)
(* it.  On a connection the peer has closed the bytes are lost, and the    *)
(* call may succeed (they only reached the local socket) or fail.          *)
SendDelivers(p, line) ==
  /\ conn[p] = "open"
  /\ unread[p] < OutCap
  /\ view' = [view EXCEPT ![p] = Append(@, line)]
  /\ unread' = [unread EXCEPT ![p] = @ + 1]

SendLost(p) ==
  /\ conn[p] = "gone"
  /\ UNCHANGED <<view, unread>>

SendFails(p) == SendLost(p)

-----------------------------------------------------------------------------
(* The peers. *)

(* The connection is accepted and its first message, a JOIN, has arrived:  *)
(* the listener starts the peer's task.                                    *)
Connect(p) ==
  /\ pc[p] = "listener"
  /\ conn' = [conn EXCEPT ![p] = "open"]
  /\ Goto(p, "joining")
  /\ UNCHANGED <<peer_a, peer_b, lock, role, queue, held,
                 room, inbound, sent, view, unread>>

(* The first message starts with JOIN: but does not parse (it lacks the    *)
(* second colon): the task ends before it registers anything.              *)
ConnectMalformed(p) ==
  /\ pc[p] = "listener"
  /\ conn' = [conn EXCEPT ![p] = "open"]
  /\ Goto(p, "return")
  /\ UNCHANGED <<peer_a, peer_b, lock, role, queue, held,
                 room, inbound, sent, view, unread>>

(* The peer sends its next line. *)
PeerSend(p) ==
  /\ conn[p] = "open"
  /\ \E j \in 1..MaxSend :
       /\ NextEnd(p, sent[p] + 1, j)
       /\ sent' = [sent EXCEPT ![p] = j]
       /\ inbound' = [inbound EXCEPT ![p] = @ + (j - sent[p])]
  /\ UNCHANGED <<hubVars, room, conn, view, unread>>

PeerRead(p) ==
  /\ conn[p] = "open"
  /\ unread[p] > 0
  /\ unread' = [unread EXCEPT ![p] = @ - 1]
  /\ UNCHANGED <<hubVars, room, conn, inbound, sent, view>>

(* The peer closes, or its connection breaks: it reads nothing more, and a *)
(* break (a reset) also discards what the hub has not received yet.        *)
PeerLeave(p) ==
  /\ conn[p] = "open"
  /\ conn' = [conn EXCEPT ![p] = "gone"]
  /\ \/ UNCHANGED inbound
     \/ inbound' = [inbound EXCEPT ![p] = 0]
  /\ unread' = [unread EXCEPT ![p] = 0]
  /\ UNCHANGED <<hubVars, room, sent, view>>

-----------------------------------------------------------------------------
(* handle_peer: registration, under the lock. *)

(* No entry: the peer creates the room as its offerer. *)
JoinAsOfferer(p) ==
  /\ pc[p] = "joining" /\ lock = NoPeer
  /\ peer_a[room[p]] = NoPeer
  /\ peer_a' = [peer_a EXCEPT ![room[p]] = p]
  /\ role' = [role EXCEPT ![p] = "offerer"]
  /\ Goto(p, "select")
  /\ UNCHANGED <<peer_b, lock, queue, held, peerVars>>

(* An entry without an answerer: the peer takes the slot, READY is queued  *)
(* for the offerer, and the lock stays held while the answerer's READY is  *)
(* sent on its transport.                                                  *)
TakeAnswererSlot(p) ==
  /\ peer_b' = [peer_b EXCEPT ![room[p]] = p]
  /\ role' = [role EXCEPT ![p] = "answerer"]
  /\ lock' = p
  /\ Goto(p, "announce")
  /\ UNCHANGED <<peer_a, held, peerVars>>

JoinAsAnswerer_NoFullCheck(p) ==   \* mutant: the slot may be taken already
  /\ pc[p] = "joining" /\ lock = NoPeer
  /\ peer_a[room[p]] # NoPeer
  /\ Enqueue(peer_a[room[p]], HubLine("READY:offerer"))
  /\ TakeAnswererSlot(p)

JoinAsAnswerer_OneReady(p) ==   \* mutant: only the answerer is told
  /\ pc[p] = "joining" /\ lock = NoPeer
  /\ peer_a[room[p]] # NoPeer /\ peer_b[room[p]] = NoPeer
  /\ TakeAnswererSlot(p) /\ UNCHANGED queue

JoinAsAnswerer(p) ==
  /\ pc[p] = "joining" /\ lock = NoPeer
  /\ peer_a[room[p]] # NoPeer /\ peer_b[room[p]] = NoPeer
  /\ Enqueue(peer_a[room[p]], HubLine("READY:offerer"))
  /\ TakeAnswererSlot(p)

SendReady(p) ==
  /\ pc[p] = "announce"
  /\ \/ SendDelivers(p, HubLine("READY:answerer")) /\ Goto(p, "select")
     \/ SendLost(p) /\ Goto(p, "select")
     \/ SendFails(p) /\ Goto(p, "return")   \* `?` skips cleanup_peer
  /\ lock' = NoPeer
  /\ UNCHANGED <<peer_a, peer_b, role, queue, held, room, conn, inbound, sent>>

AnnounceReady_InStep(p) ==   \* mutant: waits until the offerer has its READY
  pc[p] = "announce" /\ view[peer_a[room[p]]] # <<>> /\ SendReady(p)

AnnounceReady(p) == SendReady(p)

(* Both slots taken: the refusal is sent while the lock is held, and the   *)
(* result of the send is ignored.                                          *)
JoinFull(p) ==
  /\ pc[p] = "joining" /\ lock = NoPeer
  /\ peer_a[room[p]] # NoPeer /\ peer_b[room[p]] # NoPeer
  /\ lock' = p
  /\ Goto(p, "refuse")
  /\ UNCHANGED <<peer_a, peer_b, role, queue, held, peerVars>>

SendRefusal(p) ==
  /\ pc[p] = "refuse"
  /\ SendDelivers(p, HubLine("ERROR")) \/ SendLost(p)
  /\ lock' = NoPeer
  /\ Goto(p, "return")
  /\ UNCHANGED <<peer_a, peer_b, role, queue, held, room, conn, inbound, sent>>

-----------------------------------------------------------------------------
(* relay_loop: one select! over the transport and my_rx. *)

(* The position in p's text of the first part not yet received.            *)
First(p) == sent[p] - inbound[p] + 1

(* The transport branch: recv returned a chunk, one message of a WebSocket *)
(* or any number of the next parts of a stream.  Relaying it needs the     *)
(* lock.                                                                   *)
Receive(p) ==
  /\ pc[p] = "select"
  /\ \E k \in 1..inbound[p] : LET j == First(p) + (k - 1) IN
       /\ p \in Stream \/ NextEnd(p, First(p), j)
       /\ held' = [held EXCEPT ![p] = Relayed(p, First(p), j)]
       /\ inbound' = [inbound EXCEPT ![p] = @ - k]
  /\ Goto(p, "forward")
  /\ UNCHANGED <<peer_a, peer_b, lock, role, queue,
                 room, conn, sent, view, unread>>

(* Under the lock the message goes to the other slot's channel.  It is     *)
(* dropped when there is no entry or no other peer yet; when the other     *)
(* task is gone the loop returns.                                          *)
Forward(p) ==
  LET other == OtherOf(p) IN
  /\ pc[p] = "forward" /\ lock = NoPeer
  /\ held' = [held EXCEPT ![p] = NoLine]
  /\ IF peer_a[room[p]] = NoPeer \/ other = NoPeer
     THEN Goto(p, "select") /\ UNCHANGED queue
     ELSE /\ Goto(p, IF TxClosed(other) THEN "cleanup" ELSE "select")
          /\ Enqueue(other, held[p])
  /\ UNCHANGED <<peer_a, peer_b, lock, role, peerVars>>

(* The channel branch: a queued line is taken and sent to the peer. *)
TakeLine(p, line, rest) ==
  /\ pc[p] = "select"
  /\ queue[p] # <<>>
  /\ held' = [held EXCEPT ![p] = line]
  /\ queue' = [queue EXCEPT ![p] = rest]
  /\ Goto(p, "send")
  /\ UNCHANGED <<peer_a, peer_b, role>>

Take_UnderLock(p) ==   \* mutant: the send to the peer holds the rooms lock
  /\ TakeLine(p, Head(queue[p]), Tail(queue[p]))
  /\ lock = NoPeer /\ lock' = p /\ UNCHANGED peerVars

Take_CancelsReceive(p) ==   \* mutant: what recv had in hand is lost
  /\ TakeLine(p, Head(queue[p]), Tail(queue[p]))
  /\ inbound' = [inbound EXCEPT ![p] = 0]
  /\ UNCHANGED <<lock, room, conn, sent, view, unread>>

Take_NewestOnly(p) ==   \* mutant: drains the channel, keeps its last line
  TakeLine(p, queue[p][Len(queue[p])], <<>>) /\ UNCHANGED <<lock, peerVars>>

Take(p) ==
  TakeLine(p, Head(queue[p]), Tail(queue[p])) /\ UNCHANGED <<lock, peerVars>>

SendToPeer(p) ==
  /\ pc[p] = "send"
  /\ \/ SendDelivers(p, held[p]) /\ Goto(p, "select")
     \/ SendLost(p) /\ Goto(p, "select")
     \/ SendFails(p) /\ Goto(p, "cleanup")
  /\ held' = [held EXCEPT ![p] = NoLine]
  /\ UNCHANGED <<peer_a, peer_b, lock, role, queue, room, conn, inbound, sent>>

(* recv reports an error once everything that arrived has been received. *)
TransportClosed(p) == conn[p] = "gone" /\ inbound[p] = 0

(* my_rx.recv yields None once it is empty and no room holds its sender. *)
ChannelClosed(p) ==
  queue[p] = <<>> /\ \A r \in Room : p \notin {peer_a[r], peer_b[r]}

LeaveLoop_NoCleanup(p) ==   \* mutant: `?` returns from handle_peer
  /\ pc[p] = "select"
  /\ TransportClosed(p) \/ ChannelClosed(p)
  /\ Goto(p, "return")
  /\ UNCHANGED <<peer_a, peer_b, lock, role, queue, held, peerVars>>

LeaveLoop(p) ==
  /\ pc[p] = "select"
  /\ TransportClosed(p) \/ ChannelClosed(p)
  /\ Goto(p, "cleanup")
  /\ UNCHANGED <<peer_a, peer_b, lock, role, queue, held, peerVars>>

-----------------------------------------------------------------------------
(* cleanup_peer, and the return of handle_peer. *)

(* is_closed() of both senders of the room; a missing peer_b counts as     *)
(* closed.  The caller still owns its own receiver.                        *)
BothClosed(r) ==
  /\ TxClosed(peer_a[r])
  /\ peer_b[r] = NoPeer \/ TxClosed(peer_b[r])

RemoveRoom(r) ==
  /\ peer_a' = [peer_a EXCEPT ![r] = NoPeer]
  /\ peer_b' = [peer_b EXCEPT ![r] = NoPeer]

CleanupPeer(p) ==
  /\ pc[p] = "cleanup" /\ lock = NoPeer
  /\ IF peer_a[room[p]] # NoPeer /\ OtherOf(p) # NoPeer
     THEN Enqueue(OtherOf(p), HubLine("PEER_LEFT"))
     ELSE UNCHANGED queue
  /\ IF peer_a[room[p]] # NoPeer /\ BothClosed(room[p])
     THEN RemoveRoom(room[p])
     ELSE UNCHANGED <<peer_a, peer_b>>
  /\ Goto(p, "return")
  /\ UNCHANGED <<lock, role, held, peerVars>>

(* The task ends: its receiver and its transport are dropped. *)
Return(p) ==
  /\ pc[p] = "return"
  /\ Goto(p, "done")
  /\ queue' = [queue EXCEPT ![p] = <<>>]
  /\ conn' = [conn EXCEPT ![p] = "gone"]
  /\ inbound' = [inbound EXCEPT ![p] = 0]
  /\ unread' = [unread EXCEPT ![p] = 0]
  /\ UNCHANGED <<peer_a, peer_b, lock, role, held, room, sent, view>>

-----------------------------------------------------------------------------
(* The steps of a task that need the lock, and the others. *)
LockStep(p) == \/ JoinAsOfferer(p) \/ JoinAsAnswerer(p) \/ JoinFull(p)
               \/ Forward(p) \/ CleanupPeer(p)

PeerStep(p) == Connect(p) \/ ConnectMalformed(p) \/ PeerSend(p)
               \/ PeerRead(p) \/ PeerLeave(p)

TaskStep(p) == \/ LockStep(p) \/ AnnounceReady(p) \/ SendRefusal(p)
               \/ Receive(p) \/ Take(p) \/ SendToPeer(p) \/ LeaveLoop(p)
               \/ Return(p)

Next == \E p \in Peer : PeerStep(p) \/ TaskStep(p)

Spec == Init /\ [][Next]_vars

(***************************************************************************)
(* Fairness: a task that can run is eventually polled.  Nothing is assumed *)
(* of the peers, except in ReadingSpec, where a connected peer goes on     *)
(* reading.  (MaxSend makes every behaviour eventually quiet, so neither   *)
(* the FIFO order of tokio's mutex nor the random choice of select! among  *)
(* its ready branches has to be assumed on top.)                           *)
(***************************************************************************)
FairSpec == Spec /\ \A p \in Peer : WF_vars(TaskStep(p))

ReadingSpec == FairSpec /\ \A p \in Peer : WF_vars(PeerRead(p))
-----------------------------------------------------------------------------
(* Safety. *)

Registered(p) == pc[p] \in {"announce", "select", "forward", "send", "cleanup"}

(* Check-then-insert under the mutex never lets two connections share a    *)
(* slot: the slots of a room name peers that joined this room in that      *)
(* role, and a task that is registered still finds itself in its slot.     *)
SlotOwnership ==
  /\ \A r \in Room :
       /\ peer_a[r] # NoPeer => room[peer_a[r]] = r /\ role[peer_a[r]] = "offerer"
       /\ peer_b[r] # NoPeer => room[peer_b[r]] = r /\ role[peer_b[r]] = "answerer"
       /\ peer_b[r] # NoPeer => peer_a[r] # NoPeer
  /\ \A p \in Peer : Registered(p) =>
       p = IF role[p] = "offerer" THEN peer_a[room[p]] ELSE peer_b[room[p]]

(* The mutex is held across an await exactly by the task that is sending   *)
(* its own READY or ERROR line, the first line its connection gets: so the *)
(* send cannot be blocked by a peer that does not read.                    *)
LockHeldOnlyForFirstLine ==
  \A p \in Peer : (lock = p) => pc[p] \in {"announce", "refuse"}
                                  /\ view[p] = <<>> /\ unread[p] < OutCap

(* What is under way to q, oldest first: delivered, in q's task and in     *)
(* q's channel; and then what p's task holds for it.                       *)
Toward(q) ==
  view[q] \o (IF pc[q] = "send" THEN <<held[q]>> ELSE <<>>) \o queue[q]
InHand(p) == IF pc[p] = "forward" THEN <<held[p]>> ELSE <<>>
ChunksOf(p, s) == {i \in DOMAIN s : s[i].kind = "relayed" /\ s[i].from = p}

(* Between two matched peers with the receiving one connected, no part of  *)
(* a text is lost, duplicated or overtaken anywhere on its way: each chunk *)
(* begins where the one before it ended, and while the sender is connected *)
(* the last one ends where what is still to be received begins.  What a    *)
(* WebSocket peer says travels as the lines it sent; of a TCP peer only    *)
(* the text is kept, not where its lines end (see LinesStayWhole).         *)
NoLossOnTheWay ==
  \A p, q \in Peer :
    (role[p] # "none" /\ q = OtherOf(p) /\ conn[q] = "open") =>
      LET s == Toward(q) \o InHand(p)
          chunks == ChunksOf(p, s)
      IN /\ \A i, j \in chunks :
              (i < j /\ chunks \cap ((i + 1)..(j - 1)) = {}) => s[j].n = s[i].to + 1
         /\ \A i \in chunks :
              (conn[p] = "open" /\ chunks \cap ((i + 1)..Len(s)) = {}) => s[i].to + 1 = First(p)
         /\ \A i \in chunks : p \notin Stream => IsLine(p, s[i].n, s[i].to)

(* The hub implements what it promises. *)
Session == INSTANCE SignalingSession WITH
  partner   <- [p \in Peer |-> IF role[p] = "none" THEN NoPeer ELSE OtherOf(p)],
  answerers <- {p \in Peer : role[p] = "answerer"},
  left      <- {p \in Peer : pc[p] \in {"return", "done"}}
SessionSpec == Session!Spec

-----------------------------------------------------------------------------
(* What a comment of the source says and the code does not do. *)

(* "normalize here so relay is safe regardless" (relay_loop), "partial     *)
(* messages are preserved across calls" (TransportSignalingChannel): the   *)
(* newline that ends a message the hub relays ends a line of the sender.   *)
LinesStayWhole ==
  \A q \in Peer : \A i \in DOMAIN view[q] :
    view[q][i].kind = "relayed" => view[q][i].to \in LineEnds[view[q][i].from]

-----------------------------------------------------------------------------
(* Liveness. *)

(* No peer, slow, silent or broken, can keep another from being registered *)
(* or refused: FairSpec assumes nothing of the peers.                      *)
JoinIsDecided ==
  \A p \in Peer : pc[p] = "joining" ~> pc[p] # "joining"

(* When a peer that completed its registration disconnects, the hub tells  *)
(* the other one, or has closed the other one's connection.                *)
LeaverIsAnnounced ==
  \A p \in Peer : \A q \in Peer \ {p} :
    (Registered(q) /\ pc[q] # "announce" /\ conn[q] = "gone" /\ OtherOf(q) = p)
      ~> (HubLine("PEER_LEFT") \in {view[p][i] : i \in DOMAIN view[p]} \/ pc[p] = "done")

(* What is in a peer's channel reaches the peer unless the hub or the peer *)
(* closes the connection.                                                  *)
Carries(s, p, i) == \E k \in ChunksOf(p, s) : i \in s[k].n..s[k].to
Text(p) == {i \in 1..MaxSend : \E j \in LineEnds[p] : i <= j}
QueuedIsDelivered ==
  \A p \in Peer : \A q \in Peer \ {p} : \A i \in Text(p) :
    Carries(queue[q], p, i) ~> (Carries(view[q], p, i) \/ conn[q] = "gone")
=============================================================================
