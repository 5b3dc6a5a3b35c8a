------------------------- MODULE SignalingHubProofs -------------------------
(* Proofs about SignalingHub, for any set of peers, rooms and bounds. *)
EXTENDS SignalingHub, TLAPS, SequenceTheorems

(* Everything a step of the hub's tasks and their peers can be. *)
USE DEF Goto

LEMMA LineTypes ==
  ASSUME HubAssumption
  PROVE  /\ NoLine \in Line
         /\ \A k \in HubKinds : HubLine(k) \in Line
         /\ \A p \in Peer, i, j \in 0..MaxSend : Relayed(p, i, j) \in Line
  BY SMT DEF HubAssumption, NoLine, Line, HubLine, HubKinds, Relayed

LEMMA EnqueueType ==
  ASSUME TypeOK, NEW q \in Peer, NEW line \in Line, Enqueue(q, line)
  PROVE  queue' \in [Peer -> Seq(Line)]
  BY DEF TypeOK, Enqueue

LEMMA SendType ==
  ASSUME HubAssumption, TypeOK, NEW p \in Peer, NEW line \in Line,
         SendDelivers(p, line) \/ SendLost(p)
  PROVE  view' \in [Peer -> Seq(Line)] /\ unread' \in [Peer -> 0..OutCap]
<1>1. CASE SendDelivers(p, line)
  <2>1. view' \in [Peer -> Seq(Line)]
    BY <1>1 DEF TypeOK, SendDelivers
  <2>2. unread[p] \in 0..OutCap
    BY DEF TypeOK
  <2>3. unread[p] < OutCap /\ OutCap \in Nat
    BY <1>1 DEF SendDelivers, HubAssumption
  <2>4. unread[p] + 1 \in 0..OutCap
    BY <2>2, <2>3
  <2>5. unread' \in [Peer -> 0..OutCap]
    BY <1>1, <2>4 DEF TypeOK, SendDelivers
  <2>6. QED BY <2>1, <2>5
<1>2. CASE SendLost(p)
  BY <1>2 DEF TypeOK, SendLost
<1>3. QED BY <1>1, <1>2

(* Type correctness of one peer's step and of one task's step. *)
LEMMA PeerStepType ==
  ASSUME HubAssumption, TypeOK, NEW p \in Peer, PeerStep(p)
  PROVE  TypeOK'
<1> USE DEF TypeOK, PcValues, hubVars
<1>1. CASE Connect(p) BY <1>1 DEF Connect
<1>2. CASE ConnectMalformed(p) BY <1>2 DEF ConnectMalformed
<1>3. CASE PeerSend(p)
  <2>1. PICK j \in 1..MaxSend : /\ sent[p] + 1 <= j
                                /\ sent' = [sent EXCEPT ![p] = j]
                                /\ inbound' = [inbound EXCEPT ![p] = @ + (j - sent[p])]
    BY <1>3 DEF PeerSend, NextEnd
  <2>2. inbound[p] + (j - sent[p]) \in 0..j /\ j \in 0..MaxSend
    <3>1. inbound[p] \in Nat /\ sent[p] \in Nat /\ inbound[p] <= sent[p] /\ MaxSend \in Nat
      BY DEF HubAssumption
    <3>2. QED BY <2>1, <3>1
  <2>3. inbound' \in [Peer -> 0..MaxSend] /\ sent' \in [Peer -> 0..MaxSend]
    BY <2>1, <2>2 DEF HubAssumption
  <2>4. \A x \in Peer : inbound'[x] <= sent'[x]
    BY <2>1, <2>2
  <2>5. QED BY <1>3, <2>3, <2>4 DEF PeerSend
<1>4. CASE PeerRead(p)
  <2>1. unread[p] - 1 \in 0..OutCap
    BY <1>4 DEF PeerRead, HubAssumption
  <2>2. QED BY <1>4, <2>1 DEF PeerRead
<1>5. CASE PeerLeave(p)
  <2>1. /\ inbound' \in [Peer -> 0..MaxSend]
        /\ \A x \in Peer : inbound'[x] <= sent[x]
    <3>1. CASE UNCHANGED inbound
      BY <3>1
    <3>2. CASE inbound' = [inbound EXCEPT ![p] = 0]
      BY <3>2 DEF HubAssumption
    <3>3. QED BY <1>5, <3>1, <3>2 DEF PeerLeave
  <2>2. 0 \in 0..OutCap
    BY DEF HubAssumption
  <2>3. QED BY <1>5, <2>1, <2>2 DEF PeerLeave
<1>6. QED BY <1>1, <1>2, <1>3, <1>4, <1>5 DEF PeerStep

LEMMA TaskStepType ==
  ASSUME HubAssumption, TypeOK, NEW p \in Peer, TaskStep(p)
  PROVE  TypeOK'
<1> USE DEF TypeOK, PcValues, peerVars
<1>1. CASE JoinAsOfferer(p) BY <1>1 DEF JoinAsOfferer
<1>2. CASE JoinAsAnswerer(p)
  <2>1. peer_a[room[p]] \in Peer
    BY <1>2 DEF JoinAsAnswerer
  <2>2. HubLine("READY:offerer") \in Line
    BY LineTypes DEF HubKinds
  <2>3. queue' \in [Peer -> Seq(Line)]
    BY <1>2, <2>1, <2>2, EnqueueType DEF JoinAsAnswerer
  <2>4. QED BY <1>2, <2>3 DEF JoinAsAnswerer, TakeAnswererSlot
<1>3. CASE JoinFull(p) BY <1>3 DEF JoinFull
<1>4. CASE Forward(p)
  <2>1. CASE peer_a[room[p]] = NoPeer \/ OtherOf(p) = NoPeer
    BY <1>4, <2>1, LineTypes DEF Forward
  <2>2. CASE ~(peer_a[room[p]] = NoPeer \/ OtherOf(p) = NoPeer)
    <3>1. OtherOf(p) \in Peer
      BY <2>2 DEF OtherOf
    <3>2. queue' \in [Peer -> Seq(Line)]
      BY <1>4, <2>2, <3>1, EnqueueType DEF Forward
    <3>3. QED BY <1>4, <2>2, <3>2, LineTypes DEF Forward
  <2>3. QED BY <2>1, <2>2
<1>5. CASE CleanupPeer(p)
  <2>1. queue' \in [Peer -> Seq(Line)]
    <3>1. CASE peer_a[room[p]] # NoPeer /\ OtherOf(p) # NoPeer
      <4>1. OtherOf(p) \in Peer
        BY <3>1 DEF OtherOf
      <4>2. HubLine("PEER_LEFT") \in Line
        BY LineTypes DEF HubKinds
      <4>3. QED BY <1>5, <3>1, <4>1, <4>2, EnqueueType DEF CleanupPeer
    <3>2. CASE ~(peer_a[room[p]] # NoPeer /\ OtherOf(p) # NoPeer)
      BY <1>5, <3>2 DEF CleanupPeer
    <3>3. QED BY <3>1, <3>2
  <2>2. /\ peer_a' \in [Room -> Peer \cup {NoPeer}]
        /\ peer_b' \in [Room -> Peer \cup {NoPeer}]
    BY <1>5 DEF CleanupPeer, RemoveRoom
  <2>3. QED BY <1>5, <2>1, <2>2 DEF CleanupPeer
<1>6. CASE AnnounceReady(p)
  <2>1. HubLine("READY:answerer") \in Line
    BY LineTypes DEF HubKinds
  <2>2. view' \in [Peer -> Seq(Line)] /\ unread' \in [Peer -> 0..OutCap]
    BY <1>6, <2>1, SendType DEF AnnounceReady, SendReady, SendFails
  <2>3. QED BY <1>6, <2>2 DEF AnnounceReady, SendReady
<1>7. CASE SendRefusal(p)
  <2>1. HubLine("ERROR") \in Line
    BY LineTypes DEF HubKinds
  <2>2. view' \in [Peer -> Seq(Line)] /\ unread' \in [Peer -> 0..OutCap]
    BY <1>7, <2>1, SendType DEF SendRefusal
  <2>3. QED BY <1>7, <2>2 DEF SendRefusal
<1>8. CASE Receive(p)
  <2>1. PICK k \in 1..inbound[p] :
          /\ held' = [held EXCEPT ![p] = Relayed(p, First(p), First(p) + (k - 1))]
          /\ inbound' = [inbound EXCEPT ![p] = @ - k]
    BY <1>8 DEF Receive
  <2>2. inbound[p] - k \in 0..sent[p] /\ inbound[p] - k \in 0..MaxSend
        /\ First(p) \in 0..MaxSend /\ First(p) + (k - 1) \in 0..MaxSend
    <3>1. inbound[p] \in Nat /\ sent[p] \in 0..MaxSend /\ inbound[p] <= sent[p] /\ MaxSend \in Nat
      BY DEF HubAssumption
    <3>2. \A a, b, m, c \in Nat : (a <= b /\ b <= m /\ c \in 1..a) =>
            /\ a - c \in 0..b /\ a - c \in 0..m
            /\ b - a + 1 \in 0..m /\ b - a + 1 + (c - 1) \in 0..m
      OBVIOUS
    <3>3. k \in Nat /\ sent[p] \in Nat /\ sent[p] <= MaxSend
      BY <3>1
    <3> HIDE DEF TypeOK
    <3>4. QED BY <2>1, <3>1, <3>2, <3>3 DEF First
  <2>3. Relayed(p, First(p), First(p) + (k - 1)) \in Line
    BY <2>2, LineTypes
  <2>4. /\ held' \in [Peer -> Line] /\ inbound' \in [Peer -> 0..MaxSend]
        /\ \A x \in Peer : inbound'[x] <= sent[x]
    BY <2>1, <2>2, <2>3
  <2>5. QED BY <1>8, <2>4 DEF Receive
<1>9. CASE Take(p)
  <2>1. Head(queue[p]) \in Line /\ Tail(queue[p]) \in Seq(Line)
    BY <1>9 DEF Take, TakeLine
  <2>2. QED BY <1>9, <2>1 DEF Take, TakeLine
<1>10. CASE SendToPeer(p)
  <2>1. view' \in [Peer -> Seq(Line)] /\ unread' \in [Peer -> 0..OutCap]
    BY <1>10, SendType DEF SendToPeer, SendFails
  <2>2. QED BY <1>10, <2>1, LineTypes DEF SendToPeer
<1>11. CASE LeaveLoop(p) BY <1>11 DEF LeaveLoop
<1>12. CASE Return(p)
  <2>1. 0 \in 0..OutCap /\ 0 \in 0..MaxSend /\ \A x \in Peer : 0 <= sent[x]
    BY DEF HubAssumption
  <2>2. QED BY <1>12, <2>1 DEF Return
<1>13. QED BY <1>1, <1>2, <1>3, <1>4, <1>5, <1>6, <1>7, <1>8, <1>9, <1>10,
              <1>11, <1>12 DEF TaskStep, LockStep

(* Every variable of the hub keeps its type: in particular no connection   *)
(* ever buffers more than OutCap lines the hub has sent.                   *)
THEOREM TypeCorrect == Spec => []TypeOK
<1>1. Init => TypeOK
  BY HubAssumption, LineTypes DEF Init, TypeOK, PcValues, HubAssumption
<1>2. TypeOK /\ [Next]_vars => TypeOK'
  <2> SUFFICES ASSUME TypeOK, [Next]_vars PROVE TypeOK'
    OBVIOUS
  <2>1. CASE UNCHANGED vars
    BY <2>1 DEF TypeOK, vars, hubVars, peerVars
  <2>2. ASSUME NEW p \in Peer, PeerStep(p) PROVE TypeOK'
    BY <2>2, PeerStepType, HubAssumption
  <2>3. ASSUME NEW p \in Peer, TaskStep(p) PROVE TypeOK'
    BY <2>3, TaskStepType, HubAssumption
  <2>4. QED BY <2>1, <2>2, <2>3 DEF Next
<1>3. QED BY <1>1, <1>2, PTL DEF Spec

-----------------------------------------------------------------------------
(* What the two safety invariants rest on: a task holds the mutex exactly  *)
(* while it sends its own first line, and until then its connection has    *)
(* been sent nothing and it has no role.                                   *)
FirstLineInv ==
  \A p \in Peer :
    /\ lock = p <=> pc[p] \in {"announce", "refuse"}
    /\ pc[p] \in {"listener", "joining", "announce", "refuse"} =>
         view[p] = <<>> /\ unread[p] = 0
    /\ pc[p] \in {"listener", "joining", "refuse"} => role[p] = "none"

HubInv == TypeOK /\ FirstLineInv /\ SlotOwnership

LEMMA HubInvInit == ASSUME HubAssumption, Init PROVE FirstLineInv /\ SlotOwnership
  BY DEF HubAssumption, Init, FirstLineInv, SlotOwnership, Registered

LEMMA PeerStepFirstLine ==
  ASSUME HubAssumption, HubInv, NEW p \in Peer, PeerStep(p)
  PROVE  FirstLineInv' /\ SlotOwnership'
<1> USE DEF HubInv, TypeOK, FirstLineInv, SlotOwnership, Registered, hubVars, PcValues
<1>1. CASE Connect(p) BY <1>1 DEF Connect
<1>2. CASE ConnectMalformed(p)
  <2>1. pc[p] = "listener" /\ pc'[p] = "return" /\ \A q \in Peer \ {p} : pc'[q] = pc[q]
    BY <1>2 DEF ConnectMalformed
  <2>2. UNCHANGED <<peer_a, peer_b, lock, role, room, view, unread>>
    BY <1>2 DEF ConnectMalformed
  <2> HIDE DEF HubInv, TypeOK, FirstLineInv, SlotOwnership
  <2>3. FirstLineInv'
    BY <2>1, <2>2 DEF HubInv, FirstLineInv
  <2>4. SlotOwnership'
    BY <2>1, <2>2 DEF HubInv, SlotOwnership
  <2>5. QED BY <2>3, <2>4
<1>3. CASE PeerSend(p) BY <1>3 DEF PeerSend
<1>4. CASE PeerRead(p)
  <2>1. \A q \in Peer : unread[q] = 0 => unread'[q] = 0
    BY <1>4 DEF PeerRead
  <2>2. UNCHANGED <<peer_a, peer_b, lock, pc, role, room, view>>
    BY <1>4 DEF PeerRead
  <2> HIDE DEF HubInv, TypeOK, FirstLineInv, SlotOwnership
  <2>3. FirstLineInv'
    BY <2>1, <2>2 DEF HubInv, FirstLineInv
  <2>4. SlotOwnership'
    BY <2>2 DEF HubInv, SlotOwnership
  <2>5. QED BY <2>3, <2>4
<1>5. CASE PeerLeave(p) BY <1>5 DEF PeerLeave
<1>6. QED BY <1>1, <1>2, <1>3, <1>4, <1>5 DEF PeerStep

(* A step of a task that has had its first line, and moves on. *)
Later == PcValues \ {"listener", "joining", "announce", "refuse"}

LEMMA FirstLineKept ==
  ASSUME HubInv, NEW p \in Peer, pc[p] \in Later, NEW l \in Later, Goto(p, l),
         UNCHANGED <<lock, role, view, unread>>
  PROVE  FirstLineInv'
<1>1. pc'[p] = l /\ \A q \in Peer \ {p} : pc'[q] = pc[q]
  BY DEF HubInv, TypeOK
<1>2. QED BY <1>1 DEF HubInv, FirstLineInv, Later

LEMMA TaskStepFirstLine ==
  ASSUME HubAssumption, HubInv, NEW p \in Peer, TaskStep(p)
  PROVE  FirstLineInv'
<1> USE DEF HubInv, TypeOK, FirstLineInv, peerVars, PcValues, HubAssumption
<1>1. CASE JoinAsOfferer(p) BY <1>1 DEF JoinAsOfferer
<1>3. CASE JoinFull(p) BY <1>3 DEF JoinFull
<1> HIDE DEF HubInv, TypeOK, FirstLineInv
<1>2. CASE JoinAsAnswerer(p)
  <2>1. pc[p] = "joining" /\ lock = NoPeer /\ lock' = p /\ UNCHANGED <<view, unread>>
    BY <1>2 DEF JoinAsAnswerer, TakeAnswererSlot
  <2>2. pc'[p] = "announce"
    BY <1>2 DEF HubInv, TypeOK, JoinAsAnswerer, TakeAnswererSlot
  <2>3. \A q \in Peer \ {p} : pc'[q] = pc[q] /\ role'[q] = role[q]
    BY <1>2 DEF HubInv, TypeOK, JoinAsAnswerer, TakeAnswererSlot
  <2>4. view[p] = <<>> /\ unread[p] = 0 /\ \A q \in Peer : pc[q] \notin {"announce", "refuse"}
    BY <2>1 DEF HubInv, FirstLineInv
  <2>5. QED BY <2>1, <2>2, <2>3, <2>4 DEF HubInv, FirstLineInv
<1>4. CASE Forward(p)
  <2>1. pc[p] \in Later /\ UNCHANGED <<lock, role, view, unread>>
    BY <1>4 DEF Forward, Later
  <2>2. \E l \in {"select", "cleanup"} : Goto(p, l)
    BY <1>4 DEF Forward
  <2>3. QED BY <2>1, <2>2, FirstLineKept DEF Later
<1>5. CASE CleanupPeer(p)
  BY <1>5, FirstLineKept DEF CleanupPeer, Later
<1>6. CASE AnnounceReady(p)
  BY <1>6 DEF HubInv, TypeOK, FirstLineInv, AnnounceReady, SendReady,
              SendDelivers, SendFails, SendLost
<1>7. CASE SendRefusal(p)
  BY <1>7 DEF HubInv, TypeOK, FirstLineInv, SendRefusal, SendDelivers, SendLost
<1>8. CASE Receive(p) BY <1>8, FirstLineKept DEF Receive, Later
<1>9. CASE Take(p) BY <1>9, FirstLineKept DEF Take, TakeLine, Later
<1>10. CASE SendToPeer(p)
  <2>1. \A q \in Peer \ {p} :
          view'[q] = view[q] /\ unread'[q] = unread[q] /\ pc'[q] = pc[q]
    BY <1>10 DEF HubInv, TypeOK, SendToPeer, SendDelivers, SendFails, SendLost
  <2>2. pc[p] = "send" /\ pc'[p] \in {"select", "cleanup"}
    BY <1>10 DEF HubInv, TypeOK, SendToPeer
  <2>3. UNCHANGED <<lock, role>>
    BY <1>10 DEF SendToPeer
  <2>4. QED BY <2>1, <2>2, <2>3 DEF HubInv, FirstLineInv
<1>11. CASE LeaveLoop(p) BY <1>11, FirstLineKept DEF LeaveLoop, Later
<1>12. CASE Return(p)
  BY <1>12 DEF HubInv, TypeOK, FirstLineInv, Return
<1>13. QED BY <1>1, <1>2, <1>3, <1>4, <1>5, <1>6, <1>7, <1>8, <1>9, <1>10,
              <1>11, <1>12 DEF TaskStep, LockStep

(* The caller of cleanup_peer still owns its receiver, and its room still  *)
(* names it: the test for an empty room fails.                             *)
LEMMA CleanupKeepsRoom ==
  ASSUME HubAssumption, HubInv, NEW p \in Peer, CleanupPeer(p)
  PROVE  UNCHANGED <<peer_a, peer_b>>
<1>1. Registered(p)
  BY DEF CleanupPeer, Registered
<1>2. CASE role[p] = "offerer"
  <2>1. p = peer_a[room[p]]
    BY <1>1, <1>2 DEF HubInv, SlotOwnership
  <2>2. ~BothClosed(room[p])
    BY <2>1 DEF BothClosed, TxClosed, CleanupPeer
  <2>3. QED BY <2>2 DEF CleanupPeer
<1>3. CASE role[p] # "offerer"
  <2>1. p = peer_b[room[p]]
    BY <1>1, <1>3 DEF HubInv, SlotOwnership
  <2>2. ~BothClosed(room[p])
    BY <2>1 DEF BothClosed, TxClosed, CleanupPeer, HubAssumption
  <2>3. QED BY <2>2 DEF CleanupPeer
<1>4. QED BY <1>2, <1>3

(* A step that takes nobody's slot, and registers nobody. *)
LEMMA SlotsKept ==
  ASSUME HubInv, UNCHANGED <<peer_a, peer_b, role, room>>,
         \A q \in Peer : Registered(q)' => Registered(q)
  PROVE  SlotOwnership'
  BY DEF HubInv, SlotOwnership

LEMMA TaskStepSlots ==
  ASSUME HubAssumption, HubInv, NEW p \in Peer, TaskStep(p)
  PROVE  SlotOwnership'
<1>0. room \in [Peer -> Room] /\ peer_b \in [Room -> Peer \cup {NoPeer}]
  BY DEF HubInv, TypeOK
<1> USE DEF HubInv, TypeOK, SlotOwnership, Registered, peerVars, PcValues, HubAssumption
<1>1. CASE JoinAsOfferer(p) BY <1>1 DEF JoinAsOfferer, FirstLineInv
<1>2. CASE JoinAsAnswerer(p)
  <2>1. /\ pc[p] = "joining" /\ role[p] = "none"
        /\ peer_a[room[p]] # NoPeer /\ peer_b[room[p]] = NoPeer
    BY <1>2 DEF JoinAsAnswerer, FirstLineInv
  <2>2. /\ peer_b' = [peer_b EXCEPT ![room[p]] = p]
        /\ role' = [role EXCEPT ![p] = "answerer"]
        /\ pc' = [pc EXCEPT ![p] = "announce"]
        /\ UNCHANGED <<peer_a, room>>
    BY <1>2 DEF JoinAsAnswerer, TakeAnswererSlot
  <2>3. ASSUME NEW r \in Room PROVE peer_a[r] # p /\ peer_b[r] # p
    <3>1. peer_a[r] # NoPeer => role[peer_a[r]] = "offerer"
      OBVIOUS
    <3>2. peer_b[r] # NoPeer => role[peer_b[r]] = "answerer"
      OBVIOUS
    <3>3. p # NoPeer
      BY DEF HubAssumption
    <3>4. ASSUME peer_a[r] = p PROVE FALSE
      BY <2>1, <3>1, <3>3, <3>4, Zenon
    <3>5. ASSUME peer_b[r] = p PROVE FALSE
      BY <2>1, <3>2, <3>3, <3>5, Zenon
    <3>6. QED BY <3>4, <3>5, Zenon
  <2>4. ASSUME NEW r \in Room
        PROVE  /\ peer_a'[r] # NoPeer => room'[peer_a'[r]] = r /\ role'[peer_a'[r]] = "offerer"
               /\ peer_b'[r] # NoPeer => room'[peer_b'[r]] = r /\ role'[peer_b'[r]] = "answerer"
               /\ peer_b'[r] # NoPeer => peer_a'[r] # NoPeer
    <3>1. /\ peer_a[r] \in Peer \cup {NoPeer} /\ peer_a[r] # p
          /\ peer_a[r] # NoPeer => room[peer_a[r]] = r /\ role[peer_a[r]] = "offerer"
      BY <2>3
    <3>2. /\ peer_b[r] \in Peer \cup {NoPeer} /\ peer_b[r] # p
          /\ peer_b[r] # NoPeer => /\ room[peer_b[r]] = r
                                  /\ role[peer_b[r]] = "answerer"
                                  /\ peer_a[r] # NoPeer
      BY <2>3
    <3>3. CASE r = room[p] BY <2>1, <2>2, <3>1, <3>3
    <3>4. CASE r # room[p] BY <2>2, <3>1, <3>2, <3>4
    <3>5. QED BY <3>3, <3>4
  <2>5. ASSUME NEW q \in Peer, Registered(q)'
        PROVE  q = IF role'[q] = "offerer" THEN peer_a'[room'[q]] ELSE peer_b'[room'[q]]
    <3>1. CASE q = p BY <2>2, <3>1
    <3>2. CASE q # p
      <4>1. Registered(q) /\ role'[q] = role[q]
        BY <2>2, <2>5, <3>2
      <4>2. role[q] # "offerer" => peer_b[room[q]] = q
        BY <4>1
      <4>3. role[q] # "offerer" => room[q] # room[p]
        BY <2>1, <4>2
      <4>4. role[q] = "offerer" => peer_a[room[q]] = q
        BY <4>1
      <4> HIDE DEF HubInv, TypeOK, SlotOwnership, Registered
      <4>5. CASE role[q] = "offerer"
        BY <2>2, <4>1, <4>4, <4>5
      <4>6. CASE role[q] # "offerer"
        <5>1. peer_b'[room[q]] = peer_b[room[q]]
          BY <1>0, <2>2, <4>3, <4>6
        <5>2. QED BY <2>2, <4>1, <4>2, <4>6, <5>1
      <4>7. QED BY <4>5, <4>6
    <3>3. QED BY <3>1, <3>2
  <2>6. QED BY <2>4, <2>5
<1>3. CASE JoinFull(p) BY <1>3 DEF JoinFull
<1>4. CASE Forward(p)
  <2>1. \A q \in Peer : Registered(q)' => Registered(q)
    BY <1>4 DEF Forward
  <2>2. UNCHANGED <<peer_a, peer_b, role, room>>
    BY <1>4 DEF Forward
  <2>3. QED BY <2>1, <2>2, SlotsKept
<1>5. CASE CleanupPeer(p)
  <2>1. UNCHANGED <<peer_a, peer_b>>
    BY <1>5, CleanupKeepsRoom
  <2>2. QED BY <1>5, <2>1 DEF CleanupPeer
<1>6. CASE AnnounceReady(p)
  <2>1. \A q \in Peer : Registered(q)' => Registered(q)
    BY <1>6 DEF AnnounceReady, SendReady
  <2>2. UNCHANGED <<peer_a, peer_b, role, room>>
    BY <1>6 DEF AnnounceReady, SendReady
  <2>3. QED BY <2>1, <2>2, SlotsKept
<1>7. CASE SendRefusal(p) BY <1>7 DEF SendRefusal
<1>8. CASE Receive(p) BY <1>8 DEF Receive
<1>9. CASE Take(p) BY <1>9 DEF Take, TakeLine
<1>10. CASE SendToPeer(p)
  <2>1. \A q \in Peer : Registered(q)' => Registered(q)
    BY <1>10 DEF SendToPeer
  <2>2. UNCHANGED <<peer_a, peer_b, role, room>>
    BY <1>10 DEF SendToPeer
  <2>3. QED BY <2>1, <2>2, SlotsKept
<1>11. CASE LeaveLoop(p) BY <1>11 DEF LeaveLoop
<1>12. CASE Return(p) BY <1>12 DEF Return
<1>13. QED BY <1>1, <1>2, <1>3, <1>4, <1>5, <1>6, <1>7, <1>8, <1>9, <1>10,
              <1>11, <1>12 DEF TaskStep, LockStep

LEMMA HubInvariant == Spec => []HubInv
<1>1. Init => FirstLineInv /\ SlotOwnership
  BY HubInvInit, HubAssumption
<1>2. TypeOK /\ TypeOK' /\ FirstLineInv /\ SlotOwnership /\ [Next]_vars
        => FirstLineInv' /\ SlotOwnership'
  <2> SUFFICES ASSUME TypeOK, FirstLineInv, SlotOwnership, [Next]_vars
               PROVE  FirstLineInv' /\ SlotOwnership'
    OBVIOUS
  <2>0. HubInv
    BY DEF HubInv
  <2>1. CASE UNCHANGED vars
    BY <2>1 DEF FirstLineInv, SlotOwnership, Registered, vars, hubVars, peerVars
  <2>2. ASSUME NEW p \in Peer, PeerStep(p) PROVE FirstLineInv' /\ SlotOwnership'
    BY <2>0, <2>2, PeerStepFirstLine, HubAssumption
  <2>3. ASSUME NEW p \in Peer, TaskStep(p) PROVE FirstLineInv' /\ SlotOwnership'
    BY <2>0, <2>3, TaskStepFirstLine, TaskStepSlots, HubAssumption
  <2>4. QED BY <2>1, <2>2, <2>3 DEF Next
<1>3. QED BY <1>1, <1>2, TypeCorrect, PTL DEF Spec, HubInv

(* For any number of connections racing to join, no slot of a room is ever *)
(* shared or overwritten.                                                  *)
THEOREM SlotsAreOwned == Spec => []SlotOwnership
<1>1. HubInv => SlotOwnership
  BY DEF HubInv
<1>2. QED BY <1>1, HubInvariant, PTL

(* The mutex is held across an await only for a connection's first line,   *)
(* which its buffer has room for.                                          *)
THEOREM LockIsBrief == Spec => []LockHeldOnlyForFirstLine
<1>1. HubInv => LockHeldOnlyForFirstLine
  BY HubAssumption DEF HubInv, FirstLineInv, LockHeldOnlyForFirstLine, HubAssumption
<1>2. QED BY <1>1, HubInvariant, PTL

(* No task ever removes a room: once a name is used it has an entry, with  *)
(* the same offerer, for as long as the hub runs.                          *)
THEOREM RoomIsNeverRemoved ==
  Spec => [][\A r \in Room : peer_a[r] # NoPeer => peer_a'[r] = peer_a[r]]_vars
<1> DEFINE Kept == \A r \in Room : peer_a[r] # NoPeer => peer_a'[r] = peer_a[r]
<1>1. HubInv /\ [Next]_vars => [Kept]_vars
  <2> SUFFICES ASSUME HubInv, Next PROVE Kept
    OBVIOUS
  <2>1. ASSUME NEW p \in Peer, PeerStep(p) PROVE Kept
    BY <2>1 DEF PeerStep, Connect, ConnectMalformed, PeerSend, PeerRead,
                PeerLeave, hubVars
  <2>2. ASSUME NEW p \in Peer, TaskStep(p) PROVE Kept
    <3>1. CASE CleanupPeer(p)
      BY <3>1, CleanupKeepsRoom, HubAssumption
    <3>2. CASE JoinAsOfferer(p)
      BY <3>2 DEF JoinAsOfferer, HubInv, TypeOK
    <3>3. QED
      BY <2>2, <3>1, <3>2 DEF TaskStep, LockStep, JoinAsAnswerer, JoinFull, Forward,
           TakeAnswererSlot, AnnounceReady, SendReady, SendRefusal, Receive,
           Take, TakeLine, SendToPeer, LeaveLoop, Return
  <2>3. QED BY <2>1, <2>2 DEF Next
<1>2. QED BY <1>1, HubInvariant, PTL DEF Spec


-----------------------------------------------------------------------------
(* What a peer's task is to deliver, and what is to come from a peer. *)

(* A chunk of p's text, of which n parts were sent: one line of it when p  *)
(* is not on a stream.                                                     *)
Piece(p, n, l) ==
  /\ l = Relayed(p, l.n, l.to) /\ l.n \in 1..n /\ l.to \in l.n..n
  /\ p \notin Stream => IsLine(p, l.n, l.to)

(* The messages to a peer from p are a READY line, chunks of p's text that *)
(* fit together, and at the end the notice that p is gone, if it is.       *)
Chain(p, over, n, s) == \A i \in 2..Len(s) :
  \/ over /\ i = Len(s) /\ s[i] = HubLine("PEER_LEFT")
  \/ /\ Piece(p, n, s[i])
     /\ i > 2 => Piece(p, n, s[i - 1]) /\ s[i - 1].to + 1 = s[i].n

(* The last chunk relayed ends just before position k.                     *)
Meets(firm, k, s) == firm => \A i \in 2..Len(s) :
  s[i].kind = "relayed" /\ (i = Len(s) \/ s[i + 1].kind # "relayed") => s[i].to + 1 = k

LEMMA PieceParts ==
  ASSUME NEW p \in Peer, NEW n \in Nat, NEW l, Piece(p, n, l)
  PROVE  l.kind = "relayed" /\ l.from = p /\ l.n \in 1..n /\ l.to \in l.n..n
<1>1. l = Relayed(p, l.n, l.to) /\ l.n \in 1..n /\ l.to \in l.n..n
  BY DEF Piece
<1>2. Relayed(p, l.n, l.to).kind = "relayed" /\ Relayed(p, l.n, l.to).from = p
  BY DEF Relayed
<1>3. QED BY <1>1, <1>2

LEMMA PieceGrows ==
  ASSUME NEW p \in Peer, NEW n \in Nat, NEW n2 \in Nat, n <= n2, NEW l, Piece(p, n, l)
  PROVE  Piece(p, n2, l)
<1>1. /\ l = Relayed(p, l.n, l.to) /\ l.n \in 1..n /\ l.to \in l.n..n
      /\ p \notin Stream => IsLine(p, l.n, l.to)
  BY DEF Piece
<1>2. l.n \in 1..n2 /\ l.to \in l.n..n2
  BY <1>1
<1>3. QED BY <1>1, <1>2 DEF Piece

LEMMA ChainGrows ==
  ASSUME NEW p \in Peer, NEW o \in BOOLEAN, NEW o2 \in BOOLEAN, o => o2,
         NEW n \in Nat, NEW n2 \in Nat, n <= n2, NEW s \in Seq(Line), Chain(p, o, n, s)
  PROVE  Chain(p, o2, n2, s)
  BY PieceGrows DEF Chain

LEMMA ChainAppend ==
  ASSUME NEW p \in Peer, NEW n \in Nat, NEW l \in Line, Piece(p, n, l),
         NEW s \in Seq(Line), s # <<>>, Chain(p, FALSE, n, s), Meets(TRUE, l.n, s)
  PROVE  /\ Chain(p, FALSE, n, Append(s, l))
         /\ Meets(TRUE, l.to + 1, Append(s, l))
<1> DEFINE t == Append(s, l)
<1>1. /\ Len(t) = Len(s) + 1 /\ Len(s) \in Nat /\ t[Len(s) + 1] = l
      /\ \A i \in 1..Len(s) : t[i] = s[i]
  OBVIOUS
<1> HIDE DEF t
<1>3. ASSUME NEW i \in 2..Len(s)
      PROVE  /\ Piece(p, n, s[i]) /\ s[i].kind = "relayed"
             /\ i > 2 => Piece(p, n, s[i - 1]) /\ s[i - 1].to + 1 = s[i].n
  BY PieceParts DEF Chain
<1>4. ASSUME Len(s) > 1 PROVE Piece(p, n, s[Len(s)]) /\ s[Len(s)].to + 1 = l.n
  <2>1. Len(s) \in 2..Len(s)
    BY <1>1, <1>4
  <2>2. QED BY <1>3, <2>1 DEF Meets
<1>5. Chain(p, FALSE, n, t)
  <2>1. ASSUME NEW i \in 2..Len(t)
        PROVE  /\ Piece(p, n, t[i])
               /\ i > 2 => Piece(p, n, t[i - 1]) /\ t[i - 1].to + 1 = t[i].n
    <3>1. CASE i = Len(s) + 1
      <4>1. t[i] = l
        BY <1>1, <3>1
      <4>2. ASSUME i > 2 PROVE Piece(p, n, t[i - 1]) /\ t[i - 1].to + 1 = l.n
        <5>1. i - 1 = Len(s) /\ Len(s) > 1
          BY <1>1, <3>1, <4>2
        <5>2. t[i - 1] = s[Len(s)]
          BY <1>1, <5>1
        <5>3. QED BY <1>4, <5>1, <5>2
      <4>3. QED BY <4>1, <4>2
    <3>2. CASE i # Len(s) + 1
      <4>1. i \in 2..Len(s) /\ i - 1 \in 1..Len(s)
        BY <1>1, <3>2
      <4>2. t[i] = s[i] /\ t[i - 1] = s[i - 1]
        BY <1>1, <4>1
      <4>3. QED BY <1>3, <4>1, <4>2
    <3>3. QED BY <3>1, <3>2
  <2>2. QED BY <2>1 DEF Chain
<1>6. Meets(TRUE, l.to + 1, t)
  <2>1. ASSUME NEW i \in 2..Len(t), t[i].kind = "relayed", i = Len(t) \/ t[i + 1].kind # "relayed"
        PROVE  t[i].to + 1 = l.to + 1
    <3>1. CASE i = Len(s) + 1
      BY <1>1, <3>1
    <3>2. CASE i # Len(s) + 1
      <4>1. i + 1 \in 2..Len(t) /\ i # Len(t)
        BY <1>1, <3>2
      <4>2. Piece(p, n, t[i + 1])
        BY <1>5, <4>1 DEF Chain
      <4>3. t[i + 1].kind = "relayed"
        BY <4>2, PieceParts
      <4>4. QED BY <2>1, <4>1, <4>3
    <3>3. QED BY <3>1, <3>2
  <2>2. QED BY <2>1 DEF Meets
<1>7. QED BY <1>5, <1>6 DEF t

LEMMA ChainEnds ==
  ASSUME NEW p \in Peer, NEW n \in Nat, NEW f \in BOOLEAN, NEW k \in Int,
         NEW s \in Seq(Line), s # <<>>, Chain(p, FALSE, n, s), Meets(f, k, s)
  PROVE  /\ Chain(p, TRUE, n, Append(s, HubLine("PEER_LEFT")))
         /\ Meets(f, k, Append(s, HubLine("PEER_LEFT")))
<1> DEFINE t == Append(s, HubLine("PEER_LEFT"))
<1>1. /\ Len(t) = Len(s) + 1 /\ Len(s) \in Nat /\ t[Len(s) + 1] = HubLine("PEER_LEFT")
      /\ \A i \in 1..Len(s) : t[i] = s[i]
  OBVIOUS
<1>2. HubLine("PEER_LEFT").kind = "PEER_LEFT"
  BY DEF HubLine
<1> HIDE DEF t
<1>3. ASSUME NEW i \in 2..Len(s)
      PROVE  /\ Piece(p, n, s[i])
             /\ i > 2 => Piece(p, n, s[i - 1]) /\ s[i - 1].to + 1 = s[i].n
  BY DEF Chain
<1>4. Chain(p, TRUE, n, t)
  <2>1. ASSUME NEW i \in 2..Len(t), i # Len(t)
        PROVE  /\ Piece(p, n, t[i])
               /\ i > 2 => Piece(p, n, t[i - 1]) /\ t[i - 1].to + 1 = t[i].n
    <3>1. i \in 2..Len(s) /\ i - 1 \in 1..Len(s)
      BY <1>1, <2>1
    <3>2. t[i] = s[i] /\ t[i - 1] = s[i - 1]
      BY <1>1, <3>1
    <3>3. QED BY <1>3, <3>1, <3>2
  <2>2. t[Len(t)] = HubLine("PEER_LEFT")
    BY <1>1
  <2>3. QED BY <2>1, <2>2 DEF Chain
<1>5. Meets(f, k, t)
  <2>1. ASSUME f, NEW i \in 2..Len(t), t[i].kind = "relayed",
               i = Len(t) \/ t[i + 1].kind # "relayed"
        PROVE  t[i].to + 1 = k
    <3>1. i \in 2..Len(s)
      BY <1>1, <1>2, <2>1
    <3>2. t[i] = s[i] /\ (i < Len(s) => t[i + 1] = s[i + 1])
      BY <1>1, <3>1
    <3>3. s[i].kind = "relayed" /\ (i = Len(s) \/ s[i + 1].kind # "relayed")
      BY <1>1, <2>1, <3>1, <3>2
    <3>4. QED BY <2>1, <3>1, <3>2, <3>3 DEF Meets
  <2>2. QED BY <2>1 DEF Meets
<1>6. QED BY <1>4, <1>5 DEF t

(* A line on its way stays in its place in the flow.                       *)
LEMMA HeadFirst ==
  ASSUME NEW w \in Seq(Line), w # <<>>
  PROVE  <<Head(w)>> \o Tail(w) = <<>> \o w
<1>1. <<Head(w)>> \in Seq(Line) /\ Tail(w) \in Seq(Line) /\ Len(w) \in Nat \ {0}
  OBVIOUS
<1>2. <<Head(w)>> \o Tail(w) \in Seq(Line) /\ Len(<<Head(w)>> \o Tail(w)) = Len(w)
  BY <1>1
<1>3. \A i \in 1..Len(w) : (<<Head(w)>> \o Tail(w))[i] = w[i]
  BY <1>1
<1>4. <<Head(w)>> \o Tail(w) = w
  BY <1>2, <1>3, SeqEqual
<1>5. <<>> \o w = w
  BY ConcatEmptySeq
<1>6. QED BY <1>4, <1>5

LEMMA TakenFromQueue ==
  ASSUME NEW v \in Seq(Line), NEW w \in Seq(Line), w # <<>>
  PROVE  (v \o <<Head(w)>>) \o Tail(w) = (v \o <<>>) \o w
<1>1. <<Head(w)>> \in Seq(Line) /\ Tail(w) \in Seq(Line) /\ <<>> \in Seq(Line)
  OBVIOUS
<1>2. (v \o <<Head(w)>>) \o Tail(w) = v \o (<<Head(w)>> \o Tail(w))
  BY <1>1, ConcatAssociative
<1>3. (v \o <<>>) \o w = v \o (<<>> \o w)
  BY <1>1, ConcatAssociative
<1>4. QED BY <1>2, <1>3, HeadFirst

LEMMA HandedToPeer ==
  ASSUME NEW v \in Seq(Line), NEW w \in Seq(Line), NEW l \in Line
  PROVE  (Append(v, l) \o <<>>) \o w = (v \o <<l>>) \o w
<1>1. Append(v, l) = v \o <<l>> /\ Append(v, l) \in Seq(Line)
  BY AppendIsConcat
<1>2. Append(v, l) \o <<>> = Append(v, l)
  BY <1>1, ConcatEmptySeq
<1>3. QED BY <1>1, <1>2

LEMMA PutInQueue ==
  ASSUME NEW v \in Seq(Line), NEW w \in Seq(Line), NEW l \in Line
  PROVE  v \o Append(w, l) = Append(v \o w, l)
<1>1. Append(w, l) = w \o <<l>> /\ <<l>> \in Seq(Line) /\ v \o w \in Seq(Line)
  BY AppendIsConcat
<1>2. v \o (w \o <<l>>) = (v \o w) \o <<l>>
  BY <1>1, ConcatAssociative
<1>3. Append(v \o w, l) = (v \o w) \o <<l>>
  BY <1>1, AppendIsConcat
<1>4. QED BY <1>1, <1>2, <1>3

-----------------------------------------------------------------------------
(* The invariant. *)

SlotsKnown ==
  \A p \in Peer : /\ role[p] = "offerer" => peer_a[room[p]] = p
                  /\ role[p] = "answerer" => peer_b[room[p]] = p

TaskInv(p) ==
  /\ pc[p] = "listener" <=> conn[p] = "idle"
  /\ pc[p] = "listener" => inbound[p] = 0
  /\ pc[p] = "done" => conn[p] = "gone"
  /\ pc[p] = "announce" => role[p] = "answerer"
  /\ role[p] = "none" => /\ pc[p] \in {"listener", "joining", "refuse", "return", "done"}
                         /\ queue[p] = <<>>

(* What p's task holds is a chunk of p's text, which ends where the part   *)
(* still to be received begins unless that was lost with the connection.   *)
(* A peer that is not on a stream has lines under way, and nothing else.   *)
AtEnd(p, i) == i = 0 \/ i \in LineEnds[p]
AwaitInv(p) ==
  /\ pc[p] = "forward" =>
       /\ Piece(p, sent[p], held[p])
       /\ conn[p] = "open" \/ inbound[p] # 0 => held[p].to + 1 = First(p)
  /\ p \notin Stream => AtEnd(p, sent[p]) /\ AtEnd(p, sent[p] - inbound[p])

Over(p) == pc[p] \in {"return", "done"}
Firm(p) == conn[p] = "open" \/ pc[p] = "forward" \/ inbound[p] # 0
NextNum(p) == IF pc[p] = "forward" THEN held[p].n ELSE First(p)
ReadyFor(q) == HubLine(IF role[q] = "answerer" THEN "READY:answerer" ELSE "READY:offerer")

(* What is under way to q from its partner p: p's text after the READY     *)
(* line, and what is still under way from p fits on.                       *)
Flow(q, p) ==
  /\ Chain(p, Over(p), sent[p], Toward(q))
  /\ Meets(Firm(p), NextNum(p), Toward(q))

Matched(q, p) == role[q] # "none" /\ OtherOf(q) = p

HearInv(q) ==
  (conn[q] = "open" /\ role[q] # "none") =>
    /\ (Toward(q) = <<>>) <=> (OtherOf(q) = NoPeer \/ pc[q] = "announce")
    /\ (Toward(q) # <<>>) => (Toward(q)[1] = ReadyFor(q))
    /\ \A p \in Peer : Matched(q, p) => Flow(q, p)

RelayInv == SlotsKnown /\ \A p \in Peer : TaskInv(p) /\ AwaitInv(p) /\ HearInv(p)
FlowInv == HubInv /\ RelayInv

LEMMA FlowTypes ==
  ASSUME HubInv, NEW p \in Peer
  PROVE  Toward(p) \in Seq(Line) /\ sent[p] \in Nat
<1>1. held[p] \in Line /\ view[p] \in Seq(Line) /\ queue[p] \in Seq(Line)
  BY DEF HubInv, TypeOK
<1>2. \A b \in BOOLEAN : (IF b THEN <<held[p]>> ELSE <<>>) \in Seq(Line)
  BY <1>1
<1>3. Toward(p) \in Seq(Line)
  BY <1>1, <1>2, ConcatProperties DEF Toward
<1>4. QED BY <1>3 DEF HubInv, TypeOK

LEMMA InboundTypes ==
  ASSUME HubAssumption, HubInv, NEW p \in Peer
  PROVE  /\ sent[p] \in Nat /\ inbound[p] \in Nat /\ inbound[p] <= sent[p]
         /\ sent[p] \in 0..MaxSend /\ held[p] \in Line /\ First(p) \in 1..(sent[p] + 1)
<1>1. /\ sent[p] \in Nat /\ inbound[p] \in Nat /\ inbound[p] <= sent[p]
      /\ sent[p] \in 0..MaxSend /\ held[p] \in Line
  BY DEF HubAssumption, HubInv, TypeOK
<1>2. QED BY <1>1 DEF First

(* What is to come from p is what it was.                                  *)
StillComing(p) ==
  /\ inbound'[p] = inbound[p] /\ sent'[p] = sent[p] /\ conn'[p] = conn[p]
  /\ pc'[p] = "forward" <=> pc[p] = "forward"
  /\ pc[p] = "forward" => held'[p] = held[p]

LEMMA StillComingKept ==
  ASSUME NEW p \in Peer, StillComing(p), AwaitInv(p)
  PROVE  AwaitInv(p)' /\ Firm(p)' = Firm(p) /\ NextNum(p)' = NextNum(p)
  BY DEF StillComing, AwaitInv, Firm, NextNum, First

(* A match is mutual. *)
LEMMA Partners ==
  ASSUME HubAssumption, HubInv, SlotsKnown, NEW p \in Peer, role[p] # "none", OtherOf(p) # NoPeer
  PROVE  /\ OtherOf(p) \in Peer /\ OtherOf(p) # p
         /\ role[OtherOf(p)] # "none" /\ role[OtherOf(p)] # role[p]
         /\ OtherOf(OtherOf(p)) = p /\ room[OtherOf(p)] = room[p]
<1>1. /\ room[p] \in Room /\ role[p] \in {"offerer", "answerer"}
      /\ peer_a[room[p]] \in Peer \cup {NoPeer} /\ peer_b[room[p]] \in Peer \cup {NoPeer}
  BY DEF HubInv, TypeOK
<1>2. CASE role[p] = "offerer"
  <2>1. OtherOf(p) = peer_b[room[p]] /\ peer_a[room[p]] = p
    BY <1>2 DEF OtherOf, SlotsKnown
  <2>2. room[OtherOf(p)] = room[p] /\ role[OtherOf(p)] = "answerer"
    BY <1>1, <2>1 DEF HubInv, SlotOwnership
  <2>3. QED BY <1>1, <1>2, <2>1, <2>2 DEF OtherOf
<1>3. CASE role[p] = "answerer"
  <2>1. OtherOf(p) = peer_a[room[p]] /\ peer_b[room[p]] = p
    BY <1>3 DEF OtherOf, SlotsKnown
  <2>2. room[OtherOf(p)] = room[p] /\ role[OtherOf(p)] = "offerer"
    BY <1>1, <2>1 DEF HubInv, SlotOwnership
  <2>3. QED BY <1>1, <1>3, <2>1, <2>2 DEF OtherOf
<1>4. QED BY <1>1, <1>2, <1>3

(* An answerer has a partner. *)
LEMMA AnswererMatched ==
  ASSUME HubAssumption, HubInv, SlotsKnown, NEW p \in Peer, role[p] = "answerer"
  PROVE  OtherOf(p) # NoPeer
<1>1. peer_b[room[p]] = p /\ room[p] \in Room /\ p # NoPeer
  BY DEF SlotsKnown, HubInv, TypeOK, HubAssumption
<1>2. QED BY <1>1 DEF OtherOf, HubInv, SlotOwnership

-----------------------------------------------------------------------------
(* Steps that leave a flow as it is. *)

(* Nothing new has left p's task, and nothing of what is to come is lost   *)
(* while it matters.                                                       *)
Ahead(p) ==
  /\ sent[p] <= sent'[p] /\ (Over(p) => Over(p)')
  /\ Firm(p)' => Firm(p) /\ NextNum(p)' = NextNum(p)

Same(q) ==
  (role'[q] # "none" /\ conn'[q] = "open") =>
    /\ role[q] = role'[q] /\ conn[q] = "open"
    /\ Toward(q)' = Toward(q) /\ OtherOf(q)' = OtherOf(q)
    /\ (pc'[q] = "announce") <=> (pc[q] = "announce")

LEMMA HearKept ==
  ASSUME HubInv, HubInv', NEW q \in Peer, HearInv(q), Same(q),
         \A p \in Peer : Matched(q, p) => Ahead(p)
  PROVE  HearInv(q)'
<1> SUFFICES ASSUME conn'[q] = "open", role'[q] # "none" PROVE HearInv(q)'
  BY DEF HearInv
<1>1. /\ role[q] = role'[q] /\ conn[q] = "open" /\ Toward(q)' = Toward(q)
      /\ OtherOf(q)' = OtherOf(q) /\ (pc'[q] = "announce" <=> pc[q] = "announce")
  BY DEF Same
<1>2. ReadyFor(q)' = ReadyFor(q)
  BY <1>1 DEF ReadyFor
<1>3. ASSUME NEW p \in Peer, Matched(q, p)' PROVE Flow(q, p)'
  <2>1. Matched(q, p) /\ Ahead(p)
    BY <1>1, <1>3 DEF Matched
  <2>2. Chain(p, Over(p), sent[p], Toward(q)) /\ Meets(Firm(p), NextNum(p), Toward(q))
    BY <1>1, <2>1 DEF HearInv, Flow
  <2>3. sent[p] \in Nat /\ sent'[p] \in Nat /\ Toward(q) \in Seq(Line)
    <3>1. sent' \in [Peer -> 0..MaxSend]
      BY DEF HubInv, TypeOK
    <3>2. sent'[p] \in 0..MaxSend
      BY <3>1
    <3>3. QED BY <3>2, FlowTypes
  <2>4. Over(p) \in BOOLEAN /\ Over(p)' \in BOOLEAN
    BY DEF Over
  <2>5. sent[p] <= sent'[p] /\ (Over(p) => Over(p)')
    BY <2>1 DEF Ahead
  <2>6. Chain(p, Over(p)', sent'[p], Toward(q))
    BY <2>2, <2>3, <2>4, <2>5, ChainGrows
  <2>7. Meets(Firm(p)', NextNum(p)', Toward(q))
    BY <2>1, <2>2 DEF Ahead, Meets
  <2>8. QED BY <1>1, <2>6, <2>7 DEF Flow
<1>4. /\ (Toward(q) = <<>>) <=> (OtherOf(q) = NoPeer \/ pc[q] = "announce")
      /\ (Toward(q) # <<>>) => (Toward(q)[1] = ReadyFor(q))
  BY <1>1 DEF HearInv
<1>5. QED BY <1>1, <1>2, <1>3, <1>4 DEF HearInv

(* A peer whose task and connection a step leaves alone.                   *)
Untouched(x) ==
  /\ pc'[x] = pc[x] /\ held'[x] = held[x] /\ inbound'[x] = inbound[x]
  /\ sent'[x] = sent[x] /\ conn'[x] = conn[x] /\ role'[x] = role[x] /\ view'[x] = view[x]

LEMMA UntouchedKept ==
  ASSUME HubInv, NEW x \in Peer, Untouched(x), AwaitInv(x), TaskInv(x)
  PROVE  /\ Ahead(x) /\ AwaitInv(x)'
         /\ queue'[x] = queue[x] => TaskInv(x)' /\ Toward(x)' = Toward(x)
         /\ role[x] # "none" => TaskInv(x)'
<1>1. StillComing(x)
  BY DEF StillComing, Untouched
<1>2. AwaitInv(x)' /\ Firm(x)' = Firm(x) /\ NextNum(x)' = NextNum(x)
  BY <1>1, StillComingKept
<1>3. sent[x] \in Nat
  BY FlowTypes
<1>4. Ahead(x)
  BY <1>2, <1>3 DEF Ahead, Over, Untouched
<1>5. TaskInv(x)' <=> (TaskInv(x) /\ (role[x] = "none" => queue'[x] = <<>>))
  BY DEF TaskInv, Untouched
<1>6. queue'[x] = queue[x] => TaskInv(x)' /\ Toward(x)' = Toward(x)
  BY <1>5 DEF TaskInv, Untouched, Toward
<1>7. QED BY <1>2, <1>4, <1>5, <1>6

(* A step in which the lines to every peer stay in their places.           *)
LEMMA FlowKept ==
  ASSUME HubAssumption, FlowInv, HubInv', SlotsKnown',
         \A x \in Peer : TaskInv(x)' /\ AwaitInv(x)' /\ Same(x),
         \A x \in Peer : role[x] # "none" => Ahead(x)
  PROVE  RelayInv'
<1>1. ASSUME NEW q \in Peer PROVE HearInv(q)'
  <2>1. ASSUME NEW p \in Peer, Matched(q, p) PROVE Ahead(p)
    <3>1. p # NoPeer
      BY DEF HubAssumption
    <3>2. role[p] # "none"
      BY <2>1, <3>1, Partners DEF Matched, FlowInv, RelayInv
    <3>3. QED BY <3>2
  <2>2. HearInv(q) /\ Same(q) /\ HubInv
    BY DEF FlowInv, RelayInv
  <2>3. QED BY <2>1, <2>2, HearKept
<1>2. QED BY <1>1 DEF RelayInv

LEMMA FlowKeptBut ==
  ASSUME HubAssumption, FlowInv, HubInv', SlotsKnown', NEW X,
         \A x \in Peer : TaskInv(x)' /\ AwaitInv(x)',
         \A x \in Peer \cap X : HearInv(x)',
         \A x \in Peer \ X : Same(x),
         \A x \in Peer : role[x] # "none" /\ OtherOf(x) \notin X => Ahead(x)
  PROVE  RelayInv'
<1>1. ASSUME NEW q \in Peer \ X PROVE HearInv(q)'
  <2>1. ASSUME NEW p \in Peer, Matched(q, p) PROVE Ahead(p)
    <3>1. p # NoPeer
      BY DEF HubAssumption
    <3>2. role[p] # "none" /\ OtherOf(p) = q
      BY <2>1, <3>1, Partners DEF Matched, FlowInv, RelayInv
    <3>3. QED BY <3>2
  <2>2. HearInv(q) /\ Same(q) /\ HubInv
    BY DEF FlowInv, RelayInv
  <2>3. QED BY <2>1, <2>2, HearKept
<1>2. QED BY <1>1 DEF RelayInv

(* Most steps are one peer's own, and its slot is known.                   *)
LEMMA OneMoves ==
  ASSUME HubAssumption, FlowInv, HubInv', UNCHANGED <<peer_a, peer_b, role, room>>,
         NEW p \in Peer, TaskInv(p)', AwaitInv(p)', Same(p), role[p] # "none" => Ahead(p),
         \A x \in Peer \ {p} : Untouched(x) /\ queue'[x] = queue[x]
  PROVE  RelayInv'
<1>1. SlotsKnown'
  BY DEF FlowInv, RelayInv, SlotsKnown
<1>2. ASSUME NEW x \in Peer \ {p}
      PROVE  TaskInv(x)' /\ AwaitInv(x)' /\ Same(x) /\ Ahead(x)
  <2>1. Untouched(x) /\ queue'[x] = queue[x] /\ AwaitInv(x) /\ TaskInv(x) /\ HubInv
    BY DEF FlowInv, RelayInv
  <2>2. TaskInv(x)' /\ AwaitInv(x)' /\ Ahead(x) /\ Toward(x)' = Toward(x)
    BY <2>1, UntouchedKept
  <2>3. OtherOf(x)' = OtherOf(x)
    BY DEF OtherOf
  <2>4. Same(x)
    BY <2>1, <2>2, <2>3 DEF Same, Untouched
  <2>5. QED BY <2>2, <2>4
<1>3. QED BY <1>1, <1>2, FlowKept

-----------------------------------------------------------------------------
(* The steps of a peer. *)

LEMMA FlowParts ==
  ASSUME FlowInv, NEW p \in Peer
  PROVE  /\ HubInv /\ SlotsKnown /\ TaskInv(p) /\ AwaitInv(p) /\ HearInv(p)
         /\ Toward(p) \in Seq(Line) /\ sent[p] \in Nat
  BY FlowTypes DEF FlowInv, RelayInv

LEMMA ConnectKeepsFlow ==
  ASSUME HubAssumption, FlowInv, HubInv', NEW p \in Peer, Connect(p) \/ ConnectMalformed(p)
  PROVE  RelayInv'
<1>1. HubInv /\ SlotsKnown /\ TaskInv(p) /\ AwaitInv(p) /\ HearInv(p) /\ sent[p] \in Nat
  BY FlowParts
<1>2. /\ pc[p] = "listener" /\ pc'[p] \in {"joining", "return"} /\ conn'[p] = "open"
      /\ \A x \in Peer \ {p} : pc'[x] = pc[x] /\ conn'[x] = conn[x]
      /\ UNCHANGED <<peer_a, peer_b, lock, role, queue, held, room, inbound, sent, view, unread>>
  BY <1>1 DEF Connect, ConnectMalformed, HubInv, TypeOK, Goto
<1>3. role[p] = "none" /\ role'[p] = "none"
  BY <1>1, <1>2 DEF HubInv, FirstLineInv
<1>4. inbound[p] = 0
  BY <1>1, <1>2 DEF TaskInv
<1>6. AwaitInv(p)'
  BY <1>1, <1>2 DEF AwaitInv
<1>7. TaskInv(p)'
  BY <1>1, <1>2, <1>3 DEF TaskInv
<1>8. Same(p)
  BY <1>3 DEF Same
<1>9. \A x \in Peer \ {p} : Untouched(x) /\ queue'[x] = queue[x]
  BY <1>2 DEF Untouched
<1>10. QED BY <1>2, <1>3, <1>6, <1>7, <1>8, <1>9, OneMoves

(* A step that moves a task and takes nothing from anywhere.               *)
LEMMA MoveKeepsFlow ==
  ASSUME HubAssumption, FlowInv, HubInv', NEW p \in Peer,
         UNCHANGED <<peer_a, peer_b, role, room, queue, held, inbound, sent, conn>>,
         \A x \in Peer \ {p} : pc'[x] = pc[x] /\ view'[x] = view[x],
         conn[p] = "open" /\ role[p] # "none" => view'[p] = view[p],
         pc[p] \notin {"announce", "send", "forward", "listener", "done"},
         pc'[p] \notin {"announce", "send", "forward", "listener", "done"},
         role[p] = "none" => pc'[p] \in {"refuse", "return"},
         pc[p] = "return" => pc'[p] = "return"
  PROVE  RelayInv'
<1>1. HubInv /\ SlotsKnown /\ TaskInv(p) /\ AwaitInv(p) /\ HearInv(p) /\ sent[p] \in Nat
  BY FlowParts
<1>2. StillComing(p)
  BY DEF StillComing
<1>3. AwaitInv(p)' /\ Firm(p)' = Firm(p) /\ NextNum(p)' = NextNum(p)
  BY <1>1, <1>2, StillComingKept
<1>4. TaskInv(p)'
  BY <1>1 DEF TaskInv
<1>5. conn[p] = "open" /\ role[p] # "none" => Toward(p)' = Toward(p)
  BY DEF Toward
<1>6. OtherOf(p)' = OtherOf(p)
  BY DEF OtherOf
<1>7. Same(p)
  BY <1>5, <1>6 DEF Same
<1>8. Ahead(p)
  BY <1>1, <1>3 DEF Ahead, Over
<1>9. \A x \in Peer \ {p} : Untouched(x) /\ queue'[x] = queue[x]
  BY DEF Untouched
<1>10. QED BY <1>3, <1>4, <1>7, <1>8, <1>9, OneMoves

LEMMA PeerSendKeepsFlow ==
  ASSUME HubAssumption, FlowInv, HubInv', NEW p \in Peer, PeerSend(p)
  PROVE  RelayInv'
<1>1. /\ HubInv /\ TaskInv(p) /\ AwaitInv(p)
      /\ sent[p] \in Nat /\ inbound[p] \in Nat /\ inbound[p] <= sent[p]
  BY FlowParts, InboundTypes
<1>2. PICK j \in 1..MaxSend :
      /\ conn[p] = "open" /\ sent'[p] = j /\ j \in LineEnds[p] /\ sent[p] + 1 <= j
      /\ inbound'[p] = inbound[p] + (j - sent[p])
      /\ \A x \in Peer \ {p} : sent'[x] = sent[x] /\ inbound'[x] = inbound[x]
      /\ UNCHANGED <<peer_a, peer_b, pc, role, queue, held, room, conn, view>>
  BY <1>1 DEF PeerSend, NextEnd, hubVars, HubInv, TypeOK
<1>3. First(p)' = First(p) /\ sent'[p] - inbound'[p] = sent[p] - inbound[p] /\ sent'[p] \in Nat
  BY <1>1, <1>2 DEF First
<1>4. AwaitInv(p)'
  <2>1. ASSUME pc[p] = "forward"
        PROVE  Piece(p, sent'[p], held'[p]) /\ held'[p].to + 1 = First(p)'
    <3>1. Piece(p, sent[p], held[p]) /\ held[p].to + 1 = First(p)
      BY <1>1, <1>2, <2>1 DEF AwaitInv
    <3>2. Piece(p, sent'[p], held[p])
      BY <1>1, <1>2, <1>3, <3>1, PieceGrows
    <3>3. QED BY <1>2, <1>3, <3>1, <3>2
  <2>2. p \notin Stream => AtEnd(p, sent'[p]) /\ AtEnd(p, sent'[p] - inbound'[p])
    BY <1>1, <1>2, <1>3 DEF AwaitInv, AtEnd
  <2>3. QED BY <1>2, <2>1, <2>2 DEF AwaitInv, AtEnd
<1>6. TaskInv(p)'
  BY <1>1, <1>2 DEF TaskInv
<1>7. Toward(p)' = Toward(p) /\ OtherOf(p)' = OtherOf(p)
  BY <1>2 DEF Toward, OtherOf
<1>8. Same(p)
  BY <1>2, <1>7 DEF Same
<1>9. Ahead(p)
  BY <1>1, <1>2, <1>3 DEF Ahead, Over, Firm, NextNum
<1>10. \A x \in Peer \ {p} : Untouched(x) /\ queue'[x] = queue[x]
  BY <1>2 DEF Untouched
<1>11. QED BY <1>2, <1>4, <1>6, <1>8, <1>9, <1>10, OneMoves

LEMMA PeerLeaveKeepsFlow ==
  ASSUME HubAssumption, FlowInv, HubInv', NEW p \in Peer, PeerLeave(p)
  PROVE  RelayInv'
<1>1. HubInv /\ TaskInv(p) /\ AwaitInv(p) /\ sent[p] \in Nat
  BY FlowParts
<1>2. /\ conn[p] = "open" /\ conn'[p] = "gone" /\ inbound'[p] \in {inbound[p], 0}
      /\ \A x \in Peer \ {p} : conn'[x] = conn[x] /\ inbound'[x] = inbound[x]
      /\ UNCHANGED <<peer_a, peer_b, pc, role, queue, held, room, sent, view>>
  BY <1>1 DEF PeerLeave, hubVars, HubInv, TypeOK
<1>3. inbound'[p] # 0 => First(p)' = First(p)
  BY <1>2 DEF First
<1>4. sent[p] - 0 = sent[p]
  BY <1>1
<1>5. AwaitInv(p)'
  <2>1. pc[p] = "forward" => Piece(p, sent'[p], held'[p])
    BY <1>1, <1>2 DEF AwaitInv
  <2>2. pc[p] = "forward" /\ inbound'[p] # 0 => held'[p].to + 1 = First(p)'
    BY <1>1, <1>2, <1>3 DEF AwaitInv
  <2>3. p \notin Stream => AtEnd(p, sent'[p]) /\ AtEnd(p, sent'[p] - inbound'[p])
    BY <1>1, <1>2, <1>4 DEF AwaitInv
  <2>4. QED BY <1>2, <2>1, <2>2, <2>3 DEF AwaitInv, AtEnd
<1>6. TaskInv(p)'
  BY <1>1, <1>2 DEF TaskInv
<1>7. Same(p)
  BY <1>2 DEF Same
<1>8. Ahead(p)
  <2>1. Firm(p)
    BY <1>2 DEF Firm
  <2>2. Firm(p)' => NextNum(p)' = NextNum(p)
    BY <1>2, <1>3 DEF Firm, NextNum
  <2>3. QED BY <1>1, <1>2, <2>1, <2>2 DEF Ahead, Over
<1>9. \A x \in Peer \ {p} : Untouched(x) /\ queue'[x] = queue[x]
  BY <1>2 DEF Untouched
<1>10. QED BY <1>2, <1>5, <1>6, <1>7, <1>8, <1>9, OneMoves

-----------------------------------------------------------------------------
(* The steps of a task. *)

(* A chunk that recv may return is one of p's text, and one line of it     *)
(* when p is not on a stream.                                              *)
LEMMA ChunkIsPiece ==
  ASSUME HubAssumption, NEW p \in Peer, NEW n \in Nat, NEW i \in 1..n, NEW j \in i..n,
         p \in Stream \/ NextEnd(p, i, j), p \notin Stream => AtEnd(p, i - 1)
  PROVE  Piece(p, n, Relayed(p, i, j))
<1>1. Relayed(p, i, j).n = i /\ Relayed(p, i, j).to = j
  BY DEF Relayed
<1>2. p \notin Stream => IsLine(p, i, j)
  <2>1. i - 1 = 0 => i = 1
    OBVIOUS
  <2>2. QED BY <2>1 DEF IsLine, AtEnd
<1>3. QED BY <1>1, <1>2 DEF Piece

(* The transport branch takes the parts that were the first to come.       *)
LEMMA ReceiveKeepsFlow ==
  ASSUME HubAssumption, FlowInv, HubInv', NEW p \in Peer, Receive(p)
  PROVE  RelayInv'
<1>1. /\ HubInv /\ TaskInv(p) /\ AwaitInv(p) /\ First(p) \in 1..(sent[p] + 1)
      /\ sent[p] \in Nat /\ inbound[p] \in Nat /\ inbound[p] <= sent[p]
  BY FlowParts, InboundTypes
<1>2. PICK k \in 1..inbound[p] :
      /\ pc[p] = "select" /\ pc'[p] = "forward"
      /\ p \in Stream \/ NextEnd(p, First(p), First(p) + (k - 1))
      /\ held'[p] = Relayed(p, First(p), First(p) + (k - 1)) /\ inbound'[p] = inbound[p] - k
      /\ \A x \in Peer \ {p} : pc'[x] = pc[x] /\ held'[x] = held[x] /\ inbound'[x] = inbound[x]
      /\ UNCHANGED <<peer_a, peer_b, role, queue, room, conn, sent, view>>
  BY <1>1 DEF Receive, Goto, HubInv, TypeOK
<1>3. PICK i, j \in Int : i = First(p) /\ j = First(p) + (k - 1)
  BY <1>1
<1>4. /\ i \in 1..sent[p] /\ j \in i..sent[p] /\ First(p)' = j + 1
      /\ sent[p] - inbound[p] = i - 1 /\ sent[p] - inbound'[p] = j
  BY <1>1, <1>2, <1>3 DEF First
<1>5. held'[p] = Relayed(p, i, j) /\ held'[p].n = i /\ held'[p].to = j
  BY <1>2, <1>3 DEF Relayed
<1>6. p \in Stream \/ NextEnd(p, i, j)
  BY <1>2, <1>3
<1>7. AwaitInv(p)'
  <2>1. p \notin Stream => AtEnd(p, sent[p]) /\ AtEnd(p, i - 1)
    BY <1>1, <1>4 DEF AwaitInv
  <2>2. Piece(p, sent[p], held'[p])
    BY <1>1, <1>4, <1>5, <1>6, <2>1, ChunkIsPiece
  <2>3. p \notin Stream => AtEnd(p, j)
    BY <1>6 DEF AtEnd, NextEnd
  <2>4. p \notin Stream => AtEnd(p, sent[p]) /\ AtEnd(p, sent[p] - inbound'[p])
    BY <1>4, <2>1, <2>3
  <2>5. QED BY <1>2, <1>4, <1>5, <2>2, <2>4 DEF AwaitInv, AtEnd
<1>8. Toward(p)' = Toward(p) /\ OtherOf(p)' = OtherOf(p)
  BY <1>2 DEF Toward, OtherOf
<1>9. TaskInv(p)'
  BY <1>1, <1>2 DEF TaskInv
<1>10. Same(p)
  BY <1>2, <1>8 DEF Same
<1>11. Ahead(p)
  <2>1. Firm(p)
    BY <1>1, <1>2 DEF Firm
  <2>2. NextNum(p) = i /\ NextNum(p)' = i
    BY <1>2, <1>3, <1>5 DEF NextNum
  <2>3. QED BY <1>1, <1>2, <2>1, <2>2 DEF Ahead, Over
<1>12. \A x \in Peer \ {p} : Untouched(x) /\ queue'[x] = queue[x]
  BY <1>2 DEF Untouched
<1>13. QED BY <1>2, <1>7, <1>9, <1>10, <1>11, <1>12, OneMoves

(* The channel branch takes the line that was put there first.             *)
LEMMA TakeKeepsFlow ==
  ASSUME HubAssumption, FlowInv, HubInv', NEW p \in Peer, Take(p)
  PROVE  RelayInv'
<1>1. HubInv /\ TaskInv(p) /\ AwaitInv(p) /\ sent[p] \in Nat
  BY FlowParts
<1>2. /\ pc[p] = "select" /\ pc'[p] = "send" /\ queue[p] # <<>>
      /\ held'[p] = Head(queue[p]) /\ queue'[p] = Tail(queue[p])
      /\ \A x \in Peer \ {p} : pc'[x] = pc[x] /\ held'[x] = held[x] /\ queue'[x] = queue[x]
      /\ UNCHANGED <<peer_a, peer_b, role, inbound, room, conn, sent, view>>
  BY <1>1 DEF Take, TakeLine, peerVars, Goto, HubInv, TypeOK
<1>3. Toward(p)' = Toward(p)
  <2>1. queue[p] \in Seq(Line) /\ view[p] \in Seq(Line)
    BY <1>1 DEF HubInv, TypeOK
  <2>2. (view[p] \o <<Head(queue[p])>>) \o Tail(queue[p]) = (view[p] \o <<>>) \o queue[p]
    BY <1>2, <2>1, TakenFromQueue
  <2>3. QED BY <1>2, <2>2 DEF Toward
<1>4. OtherOf(p)' = OtherOf(p) /\ StillComing(p)
  BY <1>2 DEF OtherOf, StillComing
<1>5. AwaitInv(p)' /\ Firm(p)' = Firm(p) /\ NextNum(p)' = NextNum(p)
  BY <1>1, <1>4, StillComingKept
<1>6. TaskInv(p)'
  BY <1>1, <1>2 DEF TaskInv
<1>7. Same(p)
  BY <1>2, <1>3, <1>4 DEF Same
<1>8. Ahead(p)
  BY <1>1, <1>2, <1>5 DEF Ahead, Over
<1>9. \A x \in Peer \ {p} : Untouched(x) /\ queue'[x] = queue[x]
  BY <1>2 DEF Untouched
<1>10. QED BY <1>2, <1>5, <1>6, <1>7, <1>8, <1>9, OneMoves

LEMMA SendToPeerKeepsFlow ==
  ASSUME HubAssumption, FlowInv, HubInv', NEW p \in Peer, SendToPeer(p)
  PROVE  RelayInv'
<1>1. HubInv /\ TaskInv(p) /\ AwaitInv(p) /\ sent[p] \in Nat
  BY FlowParts
<1>2. /\ pc[p] = "send" /\ pc'[p] \in {"select", "cleanup"}
      /\ conn[p] = "open" => view'[p] = Append(view[p], held[p])
      /\ \A x \in Peer \ {p} : pc'[x] = pc[x] /\ held'[x] = held[x] /\ view'[x] = view[x]
      /\ UNCHANGED <<peer_a, peer_b, role, queue, inbound, room, conn, sent>>
  BY <1>1 DEF SendToPeer, SendDelivers, SendLost, SendFails, Goto, HubInv, TypeOK
<1>3. ASSUME conn[p] = "open" PROVE Toward(p)' = Toward(p)
  <2>1. queue[p] \in Seq(Line) /\ view[p] \in Seq(Line) /\ held[p] \in Line
    BY <1>1 DEF HubInv, TypeOK
  <2>2. (Append(view[p], held[p]) \o <<>>) \o queue[p] = (view[p] \o <<held[p]>>) \o queue[p]
    BY <2>1, HandedToPeer
  <2>3. QED BY <1>2, <1>3, <2>2 DEF Toward
<1>4. OtherOf(p)' = OtherOf(p) /\ StillComing(p)
  BY <1>2 DEF OtherOf, StillComing
<1>5. AwaitInv(p)' /\ Firm(p)' = Firm(p) /\ NextNum(p)' = NextNum(p)
  BY <1>1, <1>4, StillComingKept
<1>6. TaskInv(p)'
  BY <1>1, <1>2 DEF TaskInv
<1>7. Same(p)
  BY <1>2, <1>3, <1>4 DEF Same
<1>8. Ahead(p)
  BY <1>1, <1>2, <1>5 DEF Ahead, Over
<1>9. \A x \in Peer \ {p} : Untouched(x) /\ queue'[x] = queue[x]
  BY <1>2 DEF Untouched
<1>10. QED BY <1>2, <1>5, <1>6, <1>7, <1>8, <1>9, OneMoves

LEMMA ReturnKeepsFlow ==
  ASSUME HubAssumption, FlowInv, HubInv', NEW p \in Peer, Return(p)
  PROVE  RelayInv'
<1>1. HubInv /\ TaskInv(p) /\ AwaitInv(p) /\ sent[p] \in Nat
  BY FlowParts
<1>2. /\ pc[p] = "return" /\ pc'[p] = "done" /\ conn'[p] = "gone"
      /\ inbound'[p] = 0 /\ queue'[p] = <<>>
      /\ \A x \in Peer \ {p} : /\ pc'[x] = pc[x] /\ conn'[x] = conn[x]
                               /\ inbound'[x] = inbound[x] /\ queue'[x] = queue[x]
      /\ UNCHANGED <<peer_a, peer_b, role, held, room, sent, view>>
  BY <1>1 DEF Return, Goto, HubInv, TypeOK
<1>3. ~Firm(p)'
  BY <1>2 DEF Firm
<1>4. AwaitInv(p)'
  <2>1. sent[p] - 0 = sent[p]
    BY <1>1
  <2>2. QED BY <1>1, <1>2, <2>1 DEF AwaitInv, AtEnd
<1>5. TaskInv(p)'
  BY <1>1, <1>2 DEF TaskInv
<1>6. Same(p)
  BY <1>2 DEF Same
<1>7. Ahead(p)
  BY <1>1, <1>2, <1>3 DEF Ahead, Over
<1>8. \A x \in Peer \ {p} : Untouched(x) /\ queue'[x] = queue[x]
  BY <1>2 DEF Untouched
<1>9. QED BY <1>2, <1>4, <1>5, <1>6, <1>7, <1>8, OneMoves

LEMMA RefusalKeepsFlow ==
  ASSUME HubAssumption, FlowInv, HubInv', NEW p \in Peer, JoinFull(p) \/ SendRefusal(p)
  PROVE  RelayInv'
<1>1. HubInv
  BY FlowParts
<1>2. /\ pc[p] \in {"joining", "refuse"} /\ pc'[p] \in {"refuse", "return"}
      /\ \A x \in Peer \ {p} : pc'[x] = pc[x] /\ view'[x] = view[x]
      /\ UNCHANGED <<peer_a, peer_b, role, queue, held, inbound, room, conn, sent>>
  BY <1>1 DEF JoinFull, SendRefusal, SendDelivers, SendLost, peerVars, Goto, HubInv, TypeOK
<1>3. role[p] = "none"
  BY <1>1, <1>2 DEF HubInv, FirstLineInv
<1>4. QED BY <1>2, <1>3, MoveKeepsFlow

LEMMA LeaveLoopKeepsFlow ==
  ASSUME HubAssumption, FlowInv, HubInv', NEW p \in Peer, LeaveLoop(p)
  PROVE  RelayInv'
<1>1. HubInv /\ TaskInv(p)
  BY FlowParts
<1>2. /\ pc[p] = "select" /\ pc'[p] = "cleanup"
      /\ \A x \in Peer \ {p} : pc'[x] = pc[x]
      /\ UNCHANGED <<peer_a, peer_b, role, queue, held, inbound, room, conn, sent, view>>
  BY <1>1 DEF LeaveLoop, peerVars, Goto, HubInv, TypeOK
<1>3. role[p] # "none"
  BY <1>1, <1>2 DEF TaskInv
<1>4. QED BY <1>2, <1>3, MoveKeepsFlow

(* A peer that is not matched has been told nothing and nothing is queued. *)
LEMMA NothingToward ==
  ASSUME HubInv, NEW p \in Peer, TaskInv(p), role[p] = "none", pc[p] = "joining"
  PROVE  queue[p] = <<>> /\ view[p] = <<>> /\ (<<>> \o <<>>) \o <<>> = <<>>
<1>1. queue[p] = <<>> /\ view[p] = <<>>
  BY DEF TaskInv, HubInv, FirstLineInv
<1>2. <<>> \o <<>> = <<>>
  OBVIOUS
<1>3. QED BY <1>1, <1>2

LEMMA EmptyFlow ==
  ASSUME NEW p, NEW o, NEW n, NEW f, NEW k, NEW s \in Seq(Line), Len(s) < 2
  PROVE  Chain(p, o, n, s) /\ Meets(f, k, s)
<1>1. \A i \in 2..Len(s) : FALSE
  OBVIOUS
<1>2. QED BY <1>1 DEF Chain, Meets

LEMMA OffererKeepsFlow ==
  ASSUME HubAssumption, FlowInv, HubInv', NEW p \in Peer, JoinAsOfferer(p)
  PROVE  RelayInv'
<1>1. HubInv /\ SlotsKnown /\ TaskInv(p) /\ AwaitInv(p) /\ sent[p] \in Nat
  BY FlowParts
<1>2. /\ pc[p] = "joining" /\ pc'[p] = "select" /\ role'[p] = "offerer"
      /\ peer_a[room[p]] = NoPeer /\ peer_a'[room[p]] = p
      /\ \A r \in Room \ {room[p]} : peer_a'[r] = peer_a[r]
      /\ \A x \in Peer \ {p} : pc'[x] = pc[x] /\ role'[x] = role[x]
      /\ UNCHANGED <<peer_b, queue, held, inbound, room, conn, sent, view>>
      /\ room[p] \in Room
  BY <1>1 DEF JoinAsOfferer, peerVars, Goto, HubInv, TypeOK
<1>3. role[p] = "none" /\ peer_b[room[p]] = NoPeer
  BY <1>1, <1>2 DEF HubInv, FirstLineInv, SlotOwnership
<1>4. ASSUME NEW x \in Peer \ {p}, role[x] # "none"
      PROVE  room[x] # room[p] /\ peer_a'[room[x]] = peer_a[room[x]]
  <2>0. x # NoPeer /\ room[x] \in Room /\ role[x] \in {"offerer", "answerer"}
    BY <1>1, <1>4 DEF HubInv, TypeOK, HubAssumption
  <2>1. /\ x # NoPeer /\ room[x] \in Room /\ role[x] \in {"offerer", "answerer"}
        /\ role[x] = "offerer" => peer_a[room[x]] = x
        /\ role[x] = "answerer" => peer_b[room[x]] = x
    BY <1>1, <2>0 DEF SlotsKnown
  <2>2. room[x] # room[p]
    BY <1>2, <1>3, <2>1
  <2>3. QED BY <1>2, <2>1, <2>2
<1>5. SlotsKnown'
  <2>1. ASSUME NEW x \in Peer
        PROVE  /\ role'[x] = "offerer" => peer_a'[room'[x]] = x
               /\ role'[x] = "answerer" => peer_b'[room'[x]] = x
    <3>1. CASE x = p BY <1>2, <3>1
    <3>2. CASE x # p BY <1>1, <1>2, <1>4, <3>2 DEF SlotsKnown
    <3>3. QED BY <3>1, <3>2
  <2>2. QED BY <2>1 DEF SlotsKnown
<1>6. ASSUME NEW x \in Peer \ {p} PROVE TaskInv(x)' /\ AwaitInv(x)' /\ Same(x) /\ Ahead(x)
  <2>1. HubInv /\ TaskInv(x) /\ AwaitInv(x)
    BY FlowParts
  <2>2. Untouched(x) /\ queue'[x] = queue[x]
    BY <1>2 DEF Untouched
  <2>3. TaskInv(x)' /\ AwaitInv(x)' /\ Ahead(x) /\ Toward(x)' = Toward(x)
    BY <2>1, <2>2, UntouchedKept
  <2>4. role[x] # "none" => OtherOf(x)' = OtherOf(x)
    BY <1>2, <1>4 DEF OtherOf
  <2>5. QED BY <2>2, <2>3, <2>4 DEF Same, Untouched
<1>7. StillComing(p)
  BY <1>2 DEF StillComing
<1>8. AwaitInv(p)' /\ TaskInv(p)'
  BY <1>1, <1>2, <1>7, StillComingKept DEF TaskInv
<1>9. HearInv(p)'
  <2>1. Toward(p)' = <<>>
    BY <1>1, <1>2, <1>3, NothingToward DEF Toward
  <2>2. OtherOf(p)' = NoPeer
    BY <1>2, <1>3 DEF OtherOf
  <2>3. \A x \in Peer : ~Matched(p, x)'
    BY <2>2 DEF Matched, HubAssumption
  <2>4. QED BY <2>1, <2>2, <2>3 DEF HearInv
<1>10. QED
  <2>1. \A x \in Peer : TaskInv(x)' /\ AwaitInv(x)'
    BY <1>6, <1>8
  <2>2. \A x \in Peer : role[x] # "none" => Ahead(x)
    BY <1>3, <1>6
  <2>3. QED BY <1>5, <1>6, <1>9, <2>1, <2>2, FlowKeptBut

LEMMA AnswererKeepsFlow ==
  ASSUME HubAssumption, FlowInv, HubInv', NEW p \in Peer, JoinAsAnswerer(p)
  PROVE  RelayInv'
<1>0. PICK q \in Peer : q = peer_a[room[p]]
  BY FlowParts DEF JoinAsAnswerer, HubInv, TypeOK
<1>1. HubInv /\ SlotsKnown /\ TaskInv(p) /\ AwaitInv(p) /\ sent[p] \in Nat
  BY FlowParts
<1>2. /\ pc[p] = "joining" /\ lock = NoPeer /\ pc'[p] = "announce" /\ role'[p] = "answerer"
      /\ q # NoPeer /\ peer_b[room[p]] = NoPeer /\ peer_b'[room[p]] = p
      /\ \A r \in Room \ {room[p]} : peer_b'[r] = peer_b[r]
      /\ \A x \in Peer \ {p} : pc'[x] = pc[x] /\ role'[x] = role[x]
      /\ UNCHANGED <<peer_a, held, inbound, room, conn, sent, view>>
      /\ Enqueue(q, HubLine("READY:offerer")) /\ room[p] \in Room
  BY <1>0, <1>1 DEF JoinAsAnswerer, TakeAnswererSlot, peerVars, Goto, HubInv, TypeOK
<1>3. /\ role[p] = "none" /\ room[q] = room[p] /\ role[q] = "offerer" /\ q # p
      /\ pc[q] \notin {"announce", "joining"}
  <2>1. role[p] = "none" /\ room[q] = room[p] /\ role[q] = "offerer"
    BY <1>0, <1>1, <1>2 DEF HubInv, TypeOK, FirstLineInv, SlotOwnership, HubAssumption
  <2>2. pc[q] \notin {"announce", "joining"}
    BY <1>1, <1>2, <2>1 DEF HubInv, FirstLineInv, HubAssumption
  <2>3. QED BY <2>1, <2>2
<1>4. /\ \A x \in Peer \ {q} : queue'[x] = queue[x]
      /\ pc[q] # "done" => queue'[q] = Append(queue[q], HubLine("READY:offerer"))
  BY <1>1, <1>2, <1>3 DEF Enqueue, TxClosed, HubInv, TypeOK
<1>5. ASSUME NEW x \in Peer \ {p, q}, role[x] # "none"
      PROVE  room[x] # room[p] /\ peer_b'[room[x]] = peer_b[room[x]]
  <2>1. /\ x # NoPeer /\ room[x] \in Room /\ role[x] \in {"offerer", "answerer"}
        /\ role[x] = "offerer" => peer_a[room[x]] = x
        /\ role[x] = "answerer" => peer_b[room[x]] = x
    BY <1>1, <1>5 DEF HubInv, TypeOK, SlotsKnown, HubAssumption
  <2>2. room[x] # room[p]
    BY <1>0, <1>2, <1>3, <2>1
  <2>3. QED BY <1>2, <2>1, <2>2
<1>6. SlotsKnown'
  <2>1. ASSUME NEW x \in Peer
        PROVE  /\ role'[x] = "offerer" => peer_a'[room'[x]] = x
               /\ role'[x] = "answerer" => peer_b'[room'[x]] = x
    <3>1. CASE x = p BY <1>2, <3>1
    <3>2. CASE x = q BY <1>0, <1>2, <1>3, <3>2
    <3>3. CASE x \notin {p, q} BY <1>1, <1>2, <1>5, <3>3 DEF SlotsKnown
    <3>4. QED BY <3>1, <3>2, <3>3
  <2>2. QED BY <2>1 DEF SlotsKnown
<1>7. ASSUME NEW x \in Peer \ {p} PROVE TaskInv(x)' /\ AwaitInv(x)' /\ Ahead(x)
  <2>1. HubInv /\ TaskInv(x) /\ AwaitInv(x)
    BY FlowParts
  <2>2. Untouched(x)
    BY <1>2 DEF Untouched
  <2>3. x # q => queue'[x] = queue[x]
    BY <1>4
  <2>4. QED BY <1>3, <2>1, <2>2, <2>3, UntouchedKept
<1>8. ASSUME NEW x \in Peer \ {p, q} PROVE Same(x)
  <2>1. HubInv /\ TaskInv(x) /\ AwaitInv(x)
    BY FlowParts
  <2>2. Untouched(x) /\ queue'[x] = queue[x]
    BY <1>2, <1>4 DEF Untouched
  <2>3. Toward(x)' = Toward(x)
    BY <2>1, <2>2, UntouchedKept
  <2>4. role[x] # "none" => OtherOf(x)' = OtherOf(x)
    BY <1>2, <1>5 DEF OtherOf
  <2>5. QED BY <2>2, <2>3, <2>4 DEF Same, Untouched
<1>9. StillComing(p)
  BY <1>2 DEF StillComing
<1>10. AwaitInv(p)' /\ TaskInv(p)'
  BY <1>1, <1>2, <1>9, StillComingKept DEF TaskInv
<1>11. HearInv(p)'
  <2>1. Toward(p)' = <<>>
    BY <1>1, <1>2, <1>3, <1>4, NothingToward DEF Toward
  <2>2. Toward(p)' \in Seq(Line) /\ Len(Toward(p)') < 2
    BY <2>1
  <2>3. \A x \in Peer : Flow(p, x)'
    BY <2>2, EmptyFlow DEF Flow
  <2>4. QED BY <1>2, <2>1, <2>3 DEF HearInv
<1>12. HearInv(q)'
  <2> SUFFICES ASSUME conn'[q] = "open" PROVE HearInv(q)'
    BY DEF HearInv
  <2>1. HubInv /\ TaskInv(q) /\ HearInv(q) /\ Toward(q) \in Seq(Line)
    BY <1>3, FlowParts
  <2>2. OtherOf(q) = NoPeer /\ OtherOf(q)' = p /\ p # NoPeer
    BY <1>2, <1>3 DEF OtherOf, HubAssumption
  <2>3. conn[q] = "open" /\ pc[q] # "done"
    BY <1>2, <2>1 DEF TaskInv
  <2>4. Toward(q) = <<>>
    BY <1>3, <2>1, <2>2, <2>3 DEF HearInv
  <2> DEFINE R == HubLine("READY:offerer")
  <2>5. R \in Line
    BY LineTypes DEF HubKinds
  <2>6. Toward(q)' = Append(Toward(q), R)
    <3> DEFINE h == view[q] \o (IF pc[q] = "send" THEN <<held[q]>> ELSE <<>>)
    <3>1. view[q] \in Seq(Line) /\ held[q] \in Line /\ queue[q] \in Seq(Line)
      BY <1>3, <2>1 DEF HubInv, TypeOK
    <3>2. h \in Seq(Line)
      BY <3>1
    <3>3. Toward(q)' = h \o Append(queue[q], R)
      BY <1>2, <1>3, <1>4, <2>3 DEF Toward
    <3>4. Toward(q) = h \o queue[q]
      BY DEF Toward
    <3> DEFINE w == queue[q]
    <3>5. w \in Seq(Line) /\ Toward(q)' = h \o Append(w, R) /\ Toward(q) = h \o w
      BY <3>1, <3>3, <3>4
    <3> HIDE DEF h, R, w
    <3>6. h \o Append(w, R) = Append(h \o w, R)
      BY <2>5, <3>2, <3>5, PutInQueue
    <3>7. QED BY <3>5, <3>6, Zenon
  <2> HIDE DEF R
  <2>7. Toward(q)' = <<R>>
    BY <2>4, <2>5, <2>6
  <2>8. Toward(q)' \in Seq(Line) /\ Len(Toward(q)') < 2 /\ Toward(q)' # <<>> /\ Toward(q)'[1] = R
    BY <2>5, <2>7
  <2>9. \A x \in Peer : Flow(q, x)'
    BY <2>8, EmptyFlow DEF Flow
  <2>10. ReadyFor(q)' = R
    BY <1>2, <1>3 DEF ReadyFor, R
  <2>11. pc'[q] # "announce"
    BY <1>2, <1>3
  <2>12. QED BY <2>2, <2>8, <2>9, <2>10, <2>11 DEF HearInv
<1>13. QED
  <2>1. \A x \in Peer : TaskInv(x)' /\ AwaitInv(x)'
    BY <1>7, <1>10
  <2>2. \A x \in Peer : role[x] # "none" => Ahead(x)
    BY <1>3, <1>7
  <2>3. \A x \in Peer \cap {p, q} : HearInv(x)'
    BY <1>11, <1>12
  <2>4. QED BY <1>6, <1>8, <2>1, <2>2, <2>3, FlowKeptBut

LEMMA ReadyKeepsFlow ==
  ASSUME HubAssumption, FlowInv, HubInv', NEW p \in Peer, AnnounceReady(p)
  PROVE  RelayInv'
<1> DEFINE R == HubLine("READY:answerer")
<1>1. HubInv /\ SlotsKnown /\ TaskInv(p) /\ AwaitInv(p) /\ HearInv(p) /\ sent[p] \in Nat
  BY FlowParts
<1>2. /\ pc[p] = "announce" /\ pc'[p] \in {"select", "return"}
      /\ conn[p] = "open" => view'[p] = Append(view[p], R) /\ pc'[p] = "select"
      /\ \A x \in Peer \ {p} : pc'[x] = pc[x] /\ view'[x] = view[x]
      /\ UNCHANGED <<peer_a, peer_b, role, queue, held, inbound, room, conn, sent>>
  BY <1>1 DEF AnnounceReady, SendReady, SendDelivers, SendLost, SendFails, Goto, HubInv, TypeOK
<1>3. role[p] = "answerer" /\ view[p] = <<>>
  BY <1>1, <1>2 DEF TaskInv, HubInv, FirstLineInv
<1>4. OtherOf(p) # NoPeer /\ OtherOf(p)' = OtherOf(p)
  BY <1>1, <1>2, <1>3, AnswererMatched DEF OtherOf
<1>5. StillComing(p)
  BY <1>2 DEF StillComing
<1>6. AwaitInv(p)' /\ TaskInv(p)' /\ Firm(p)' = Firm(p) /\ NextNum(p)' = NextNum(p)
  BY <1>1, <1>2, <1>3, <1>5, StillComingKept DEF TaskInv
<1>7. Ahead(p)
  BY <1>1, <1>2, <1>6 DEF Ahead, Over
<1>8. SlotsKnown'
  BY <1>1, <1>2 DEF SlotsKnown
<1>9. ASSUME NEW x \in Peer \ {p} PROVE TaskInv(x)' /\ AwaitInv(x)' /\ Ahead(x) /\ Same(x)
  <2>1. HubInv /\ TaskInv(x) /\ AwaitInv(x)
    BY FlowParts
  <2>2. Untouched(x) /\ queue'[x] = queue[x] /\ OtherOf(x)' = OtherOf(x)
    BY <1>2 DEF Untouched, OtherOf
  <2>3. TaskInv(x)' /\ AwaitInv(x)' /\ Ahead(x) /\ Toward(x)' = Toward(x)
    BY <2>1, <2>2, UntouchedKept
  <2>4. QED BY <2>2, <2>3 DEF Same, Untouched
<1>10. HearInv(p)'
  <2> SUFFICES ASSUME conn'[p] = "open" PROVE HearInv(p)'
    BY DEF HearInv
  <2>1. Toward(p) = <<>>
    BY <1>1, <1>2, <1>3 DEF HearInv
  <2>2. queue[p] \in Seq(Line) /\ R \in Line
    BY <1>1, LineTypes DEF HubInv, TypeOK, HubKinds
  <2>3. queue[p] = <<>>
    <3>1. Toward(p) = (<<>> \o <<>>) \o queue[p]
      BY <1>2, <1>3 DEF Toward
    <3>2. Len((<<>> \o <<>>) \o queue[p]) = Len(queue[p])
      BY <2>2
    <3>3. QED BY <2>1, <2>2, <3>1, <3>2
  <2>4. Toward(p)' = (Append(<<>>, R) \o <<>>) \o <<>>
    BY <1>2, <1>3, <2>3 DEF Toward
  <2> HIDE DEF R
  <2>5. Toward(p)' = <<R>>
    BY <2>2, <2>4
  <2>6. Toward(p)' \in Seq(Line) /\ Len(Toward(p)') < 2 /\ Toward(p)' # <<>> /\ Toward(p)'[1] = R
    BY <2>2, <2>5
  <2>7. \A x \in Peer : Flow(p, x)'
    BY <2>6, EmptyFlow DEF Flow
  <2>8. ReadyFor(p)' = R
    BY <1>2, <1>3 DEF ReadyFor, R
  <2>9. pc'[p] # "announce"
    BY <1>2
  <2>10. QED BY <1>4, <2>6, <2>7, <2>8, <2>9 DEF HearInv
<1>11. QED
  <2>1. \A x \in Peer : TaskInv(x)' /\ AwaitInv(x)'
    BY <1>6, <1>9
  <2>2. \A x \in Peer : role[x] # "none" => Ahead(x)
    BY <1>7, <1>9
  <2>3. QED BY <1>8, <1>9, <1>10, <2>1, <2>2, FlowKeptBut

(* A line goes into the channel of the other task: it is queued unless     *)
(* that task has returned.                                                 *)
LEMMA TowardGrows ==
  ASSUME HubInv, NEW q \in Peer, NEW l \in Line, Enqueue(q, l), pc[q] # "done",
         view'[q] = view[q], held'[q] = held[q], pc'[q] = pc[q]
  PROVE  Toward(q)' = Append(Toward(q), l)
<1> DEFINE h == view[q] \o (IF pc[q] = "send" THEN <<held[q]>> ELSE <<>>)
<1>1. view[q] \in Seq(Line) /\ held[q] \in Line /\ queue[q] \in Seq(Line)
  BY DEF HubInv, TypeOK
<1>2. h \in Seq(Line)
  BY <1>1
<1>3. queue'[q] = Append(queue[q], l)
  BY DEF Enqueue, TxClosed, HubInv, TypeOK
<1>4. Toward(q)' = h \o Append(queue[q], l)
  BY <1>3 DEF Toward
<1>5. Toward(q) = h \o queue[q]
  BY DEF Toward
<1> DEFINE w == queue[q]
<1>6. w \in Seq(Line) /\ Toward(q)' = h \o Append(w, l) /\ Toward(q) = h \o w
  BY <1>1, <1>4, <1>5
<1> HIDE DEF h, w
<1>7. h \o Append(w, l) = Append(h \o w, l)
  BY <1>2, <1>6, PutInQueue
<1>8. QED BY <1>6, <1>7, Zenon

(* A step of p's that may add a line to the flow of its partner.           *)
LEMMA OtherHears ==
  ASSUME HubAssumption, FlowInv, HubInv', UNCHANGED <<peer_a, peer_b, role, room>>,
         NEW p \in Peer, TaskInv(p)', AwaitInv(p)', Same(p), role[p] # "none",
         \A x \in Peer \ {p} : Untouched(x),
         \A x \in Peer \ {OtherOf(p)} : queue'[x] = queue[x],
         \A q \in Peer : q = OtherOf(p) => HearInv(q)'
  PROVE  RelayInv'
<1>1. SlotsKnown' /\ SlotsKnown /\ HubInv
  BY DEF FlowInv, RelayInv, SlotsKnown
<1>2. \A x \in Peer : OtherOf(x)' = OtherOf(x)
  BY DEF OtherOf
<1>3. \A x \in Peer : x = OtherOf(p) => role[x] # "none" /\ x # p
  BY <1>1, Partners DEF HubAssumption
<1>4. ASSUME NEW x \in Peer \ {p} PROVE TaskInv(x)' /\ AwaitInv(x)' /\ Ahead(x)
  <2>1. HubInv /\ TaskInv(x) /\ AwaitInv(x) /\ Untouched(x)
    BY FlowParts
  <2>2. AwaitInv(x)' /\ Ahead(x)
    BY <2>1, UntouchedKept
  <2>3. CASE x = OtherOf(p)
    BY <1>3, <2>1, <2>2, <2>3, UntouchedKept
  <2>4. CASE x # OtherOf(p)
    BY <2>1, <2>2, <2>4, UntouchedKept
  <2>5. QED BY <2>2, <2>3, <2>4
<1>5. ASSUME NEW x \in Peer \ {p, OtherOf(p)} PROVE Same(x)
  <2>1. HubInv /\ TaskInv(x) /\ AwaitInv(x) /\ Untouched(x) /\ queue'[x] = queue[x]
    BY FlowParts
  <2>2. Toward(x)' = Toward(x)
    BY <2>1, UntouchedKept
  <2>3. QED BY <1>2, <2>1, <2>2 DEF Same, Untouched
<1>6. ASSUME NEW x \in Peer PROVE TaskInv(x)' /\ AwaitInv(x)'
  BY <1>4
<1>7. ASSUME NEW x \in Peer, OtherOf(x) # OtherOf(p) PROVE Ahead(x)
  BY <1>4, <1>7
<1>8. QED
  <2> DEFINE X == {OtherOf(p)}
  <2>1. \A x \in Peer \cap X : HearInv(x)'
    OBVIOUS
  <2>2. \A x \in Peer \ X : Same(x)
    BY <1>5
  <2>3. \A x \in Peer : role[x] # "none" /\ OtherOf(x) \notin X => Ahead(x)
    BY <1>7
  <2> HIDE DEF X
  <2>4. QED BY <1>1, <1>6, <2>1, <2>2, <2>3, FlowKeptBut

LEMMA ForwardKeepsFlow ==
  ASSUME HubAssumption, FlowInv, HubInv', NEW p \in Peer, Forward(p)
  PROVE  RelayInv'
<1>1. HubInv /\ SlotsKnown /\ TaskInv(p) /\ AwaitInv(p) /\ sent[p] \in Nat /\ held[p] \in Line
  BY FlowParts, InboundTypes
<1>2. /\ pc[p] = "forward" /\ lock = NoPeer /\ pc'[p] \in {"select", "cleanup"}
      /\ \A x \in Peer \ {p} : pc'[x] = pc[x] /\ held'[x] = held[x]
      /\ UNCHANGED <<peer_a, peer_b, role, inbound, room, conn, sent, view>>
  <2>1. pc \in [Peer -> PcValues] /\ held \in [Peer -> Line]
    BY <1>1 DEF HubInv, TypeOK
  <2>2. /\ pc[p] = "forward" /\ lock = NoPeer /\ held' = [held EXCEPT ![p] = NoLine]
        /\ UNCHANGED <<peer_a, peer_b, role, inbound, room, conn, sent, view>>
    BY DEF Forward, peerVars
  <2>3. \E l \in {"select", "cleanup"} : pc' = [pc EXCEPT ![p] = l]
    BY DEF Forward
  <2>4. QED BY <2>1, <2>2, <2>3
<1>3. role[p] # "none" /\ OtherOf(p) # p /\ OtherOf(p) \in Peer \cup {NoPeer}
  <2>1. role[p] # "none"
    BY <1>1, <1>2 DEF TaskInv
  <2>2. CASE OtherOf(p) = NoPeer
    BY <2>1, <2>2 DEF HubAssumption
  <2>3. CASE OtherOf(p) # NoPeer
    BY <1>1, <2>1, <2>3, Partners
  <2>4. QED BY <2>1, <2>2, <2>3
<1>4. /\ \A x \in Peer \ {OtherOf(p)} : queue'[x] = queue[x]
      /\ OtherOf(p) \in Peer => Enqueue(OtherOf(p), held[p]) \/ UNCHANGED queue
  <2>1. Enqueue(OtherOf(p), held[p]) \/ UNCHANGED queue
    BY DEF Forward
  <2>2. \A x \in Peer \ {OtherOf(p)} : queue'[x] = queue[x]
    BY <1>1, <2>1 DEF Enqueue, HubInv, TypeOK
  <2>3. QED BY <2>1, <2>2
<1>5. Piece(p, sent[p], held[p])
  BY <1>1, <1>2 DEF AwaitInv
<1>8. NextNum(p) = held[p].n /\ Firm(p)
  BY <1>2 DEF NextNum, Firm
<1>9. AwaitInv(p)'
  BY <1>1, <1>2 DEF AwaitInv, AtEnd
<1>10. Firm(p)' => NextNum(p)' = held[p].to + 1
  BY <1>1, <1>2 DEF Firm, NextNum, AwaitInv, First
<1>11. TaskInv(p)'
  BY <1>1, <1>2, <1>3 DEF TaskInv
<1>12. Same(p)
  <2>1. Toward(p)' = Toward(p) /\ OtherOf(p)' = OtherOf(p)
    BY <1>2, <1>3, <1>4 DEF Toward, OtherOf
  <2>2. QED BY <1>2, <2>1 DEF Same
<1>13. \A x \in Peer \ {p} : Untouched(x)
  BY <1>2 DEF Untouched
<1>14. ASSUME NEW q \in Peer, q = OtherOf(p) PROVE HearInv(q)'
  <2> SUFFICES ASSUME conn'[q] = "open" PROVE HearInv(q)'
    BY DEF HearInv
  <2>1. TaskInv(q) /\ HearInv(q) /\ Toward(q) \in Seq(Line)
    BY FlowParts
  <2>2. /\ q # p /\ role[q] # "none" /\ OtherOf(q) = p /\ OtherOf(q)' = p /\ p # NoPeer
        /\ conn[q] = "open" /\ pc'[q] = pc[q] /\ role'[q] = role[q]
    <3>1. q # p /\ role[q] # "none" /\ OtherOf(q) = p /\ p # NoPeer
      BY <1>1, <1>3, <1>14, Partners DEF HubAssumption
    <3>2. QED BY <1>2, <3>1 DEF OtherOf
  <2>3. pc[q] # "announce" /\ pc[q] # "done"
    BY <1>1, <1>2, <2>1, <2>2 DEF TaskInv, HubInv, FirstLineInv, HubAssumption
  <2>4. Toward(q) # <<>> /\ Toward(q)[1] = ReadyFor(q) /\ Flow(q, p)
    BY <2>1, <2>2, <2>3 DEF HearInv, Matched
  <2>5. Enqueue(q, held[p]) /\ held[p] \in Line
    <3>1. q # NoPeer
      BY DEF HubAssumption
    <3>2. peer_a[room[p]] # NoPeer
      BY <1>1, <1>14, <3>1 DEF OtherOf, HubInv, TypeOK, SlotOwnership
    <3>3. Enqueue(q, held[p])
      BY <1>14, <3>1, <3>2 DEF Forward
    <3>4. QED BY <1>1, <3>3 DEF HubInv, TypeOK
  <2>6. Toward(q)' = Append(Toward(q), held[p])
    BY <1>1, <1>2, <2>2, <2>3, <2>5, TowardGrows
  <2>7. ~Over(p) /\ ~Over(p)'
    BY <1>2 DEF Over
  <2>8. Chain(p, FALSE, sent[p], Toward(q)) /\ Meets(TRUE, held[p].n, Toward(q))
    BY <1>8, <2>4, <2>7 DEF Flow, Chain, Meets
  <2> DEFINE l == held[p]  s == Toward(q)
  <2>9. Chain(p, FALSE, sent[p], Append(s, l)) /\ Meets(TRUE, l.to + 1, Append(s, l))
    <3>1. Piece(p, sent[p], l) /\ l \in Line /\ s \in Seq(Line) /\ s # <<>> /\ sent[p] \in Nat
          /\ Chain(p, FALSE, sent[p], s) /\ Meets(TRUE, l.n, s)
      BY <1>1, <1>5, <2>1, <2>4, <2>8
    <3> HIDE DEF l, s
    <3>2. QED BY <3>1, ChainAppend
  <2>10. Flow(q, p)'
    <3>1. Toward(q)' = Append(s, l)
      BY <2>6
    <3> HIDE DEF s
    <3>2. Chain(p, Over(p)', sent'[p], Toward(q)')
      BY <1>2, <2>7, <2>9, <3>1 DEF Chain
    <3>3. Meets(Firm(p)', NextNum(p)', Toward(q)')
      BY <1>10, <2>9, <3>1 DEF Meets
    <3>4. QED BY <3>2, <3>3 DEF Flow
  <2>11. Toward(q)' # <<>> /\ Toward(q)'[1] = Toward(q)[1]
    BY <2>1, <2>4, <2>5, <2>6
  <2>12. ReadyFor(q)' = ReadyFor(q)
    BY <2>2 DEF ReadyFor
  <2>13. \A x \in Peer : Matched(q, x)' => x = p
    BY <2>2 DEF Matched
  <2>14. QED BY <2>2, <2>3, <2>4, <2>10, <2>11, <2>12, <2>13 DEF HearInv
<1>15. QED BY <1>2, <1>3, <1>4, <1>9, <1>11, <1>12, <1>13, <1>14, OtherHears

LEMMA CleanupKeepsFlow ==
  ASSUME HubAssumption, FlowInv, HubInv', NEW p \in Peer, CleanupPeer(p)
  PROVE  RelayInv'
<1> DEFINE L == HubLine("PEER_LEFT")
<1>1. HubInv /\ SlotsKnown /\ TaskInv(p) /\ AwaitInv(p) /\ sent[p] \in Nat
  BY FlowParts
<1>2. UNCHANGED <<peer_a, peer_b>>
  BY <1>1, CleanupKeepsRoom
<1>3. /\ pc[p] = "cleanup" /\ lock = NoPeer /\ pc'[p] = "return"
      /\ \A x \in Peer \ {p} : pc'[x] = pc[x]
      /\ UNCHANGED <<role, held, inbound, room, conn, sent, view>>
  BY <1>1 DEF CleanupPeer, peerVars, Goto, HubInv, TypeOK
<1>4. role[p] # "none" /\ OtherOf(p) # p /\ OtherOf(p) \in Peer \cup {NoPeer}
  <2>1. role[p] # "none"
    BY <1>1, <1>3 DEF TaskInv
  <2>2. CASE OtherOf(p) = NoPeer
    BY <2>1, <2>2 DEF HubAssumption
  <2>3. CASE OtherOf(p) # NoPeer
    BY <1>1, <2>1, <2>3, Partners
  <2>4. QED BY <2>1, <2>2, <2>3
<1>5. /\ \A x \in Peer \ {OtherOf(p)} : queue'[x] = queue[x]
      /\ OtherOf(p) \in Peer => Enqueue(OtherOf(p), L)
  <2>1. OtherOf(p) \in Peer => peer_a[room[p]] # NoPeer
    BY <1>1 DEF HubAssumption, OtherOf, HubInv, TypeOK, SlotOwnership
  <2>2. OtherOf(p) \in Peer => Enqueue(OtherOf(p), L)
    BY <2>1 DEF CleanupPeer, HubAssumption
  <2>3. OtherOf(p) \notin Peer => UNCHANGED queue
    BY <1>4 DEF CleanupPeer
  <2>4. QED BY <1>1, <1>4, <2>2, <2>3 DEF Enqueue, HubInv, TypeOK
<1>6. StillComing(p)
  BY <1>3 DEF StillComing
<1>7. AwaitInv(p)' /\ TaskInv(p)' /\ Firm(p)' = Firm(p) /\ NextNum(p)' = NextNum(p)
  BY <1>1, <1>3, <1>4, <1>6, StillComingKept DEF TaskInv
<1>8. Same(p)
  <2>1. Toward(p)' = Toward(p) /\ OtherOf(p)' = OtherOf(p)
    BY <1>2, <1>3, <1>4, <1>5 DEF Toward, OtherOf
  <2>2. QED BY <1>3, <2>1 DEF Same
<1>9. \A x \in Peer \ {p} : Untouched(x)
  BY <1>3 DEF Untouched
<1>10. ASSUME NEW q \in Peer, q = OtherOf(p) PROVE HearInv(q)'
  <2> SUFFICES ASSUME conn'[q] = "open" PROVE HearInv(q)'
    BY DEF HearInv
  <2>1. TaskInv(q) /\ HearInv(q) /\ Toward(q) \in Seq(Line)
    BY FlowParts
  <2>2. /\ q # p /\ role[q] # "none" /\ OtherOf(q) = p /\ OtherOf(q)' = p /\ p # NoPeer
        /\ conn[q] = "open" /\ pc'[q] = pc[q] /\ role'[q] = role[q]
    <3>1. q # p /\ role[q] # "none" /\ OtherOf(q) = p /\ p # NoPeer
      BY <1>1, <1>4, <1>10, Partners DEF HubAssumption
    <3>2. QED BY <1>2, <1>3, <3>1 DEF OtherOf
  <2>3. pc[q] # "announce" /\ pc[q] # "done"
    BY <1>1, <1>3, <2>1, <2>2 DEF TaskInv, HubInv, FirstLineInv, HubAssumption
  <2>4. Toward(q) # <<>> /\ Toward(q)[1] = ReadyFor(q) /\ Flow(q, p)
    BY <2>1, <2>2, <2>3 DEF HearInv, Matched
  <2>5. Enqueue(q, L) /\ L \in Line
    BY <1>5, <1>10, LineTypes DEF HubKinds
  <2>6. Toward(q)' = Append(Toward(q), L)
    BY <1>1, <1>3, <2>2, <2>3, <2>5, TowardGrows
  <2>7. ~Over(p) /\ Over(p)' /\ Firm(p)' = Firm(p) /\ NextNum(p)' = NextNum(p)
    BY <1>3, <1>7 DEF Over
  <2>8. Chain(p, FALSE, sent[p], Toward(q)) /\ Meets(Firm(p), NextNum(p), Toward(q))
    BY <2>4, <2>7 DEF Flow, Chain
  <2>9. Firm(p) \in BOOLEAN /\ NextNum(p) \in Int
    <3>1. First(p) \in 1..(sent[p] + 1) /\ pc[p] # "forward"
      BY <1>1, <1>3, InboundTypes
    <3>2. QED BY <1>1, <3>1 DEF Firm, NextNum
  <2>10. Flow(q, p)'
    <3> DEFINE s == Toward(q)  k == NextNum(p)  f == Firm(p)
    <3> HIDE DEF L, s, k, f
    <3>1. Chain(p, FALSE, sent[p], s) /\ Meets(f, k, s) /\ s \in Seq(Line) /\ s # <<>>
          /\ f \in BOOLEAN /\ k \in Int /\ sent[p] \in Nat
      BY <1>1, <2>1, <2>4, <2>8, <2>9 DEF s, k, f
    <3>2. /\ Chain(p, TRUE, sent[p], Append(s, HubLine("PEER_LEFT")))
          /\ Meets(f, k, Append(s, HubLine("PEER_LEFT")))
      BY <3>1, ChainEnds
    <3>3. Chain(p, Over(p)', sent'[p], Toward(q)')
      BY <1>3, <2>6, <2>7, <3>2 DEF Chain, s, L
    <3>4. Meets(Firm(p)', NextNum(p)', Toward(q)')
      BY <2>6, <2>7, <3>2 DEF s, L, f, k
    <3>5. QED BY <3>3, <3>4 DEF Flow
  <2>11. Toward(q)' # <<>> /\ Toward(q)'[1] = Toward(q)[1]
    BY <2>1, <2>4, <2>5, <2>6
  <2>12. ReadyFor(q)' = ReadyFor(q)
    BY <2>2 DEF ReadyFor
  <2>13. \A x \in Peer : Matched(q, x)' => x = p
    BY <2>2 DEF Matched
  <2>14. QED BY <2>2, <2>3, <2>4, <2>10, <2>11, <2>12, <2>13 DEF HearInv
<1>11. QED BY <1>2, <1>3, <1>4, <1>5, <1>7, <1>8, <1>9, <1>10, OtherHears

LEMMA StepKeepsFlow ==
  ASSUME HubAssumption, FlowInv, HubInv', NEW p \in Peer, PeerStep(p) \/ TaskStep(p)
  PROVE  RelayInv'
<1>1. CASE PeerRead(p)
  <2>1. UNCHANGED <<peer_a, peer_b, lock, pc, role, queue, held, room, conn, inbound, sent, view>>
    BY <1>1 DEF PeerRead, hubVars
  <2>2. SlotsKnown' /\ \A x \in Peer : Untouched(x) /\ queue'[x] = queue[x]
    BY <2>1 DEF FlowInv, RelayInv, SlotsKnown, Untouched
  <2>3. TaskInv(p)' /\ AwaitInv(p)' /\ Ahead(p) /\ Toward(p)' = Toward(p)
    BY <2>2, FlowParts, UntouchedKept
  <2>4. OtherOf(p)' = OtherOf(p)
    BY <2>1 DEF OtherOf
  <2>5. Same(p)
    BY <2>1, <2>3, <2>4 DEF Same
  <2>6. QED BY <2>1, <2>2, <2>3, <2>5, OneMoves
<1>2. QED
  BY <1>1, ConnectKeepsFlow, PeerSendKeepsFlow, PeerLeaveKeepsFlow, OffererKeepsFlow,
     AnswererKeepsFlow, RefusalKeepsFlow, ForwardKeepsFlow, CleanupKeepsFlow,
     ReadyKeepsFlow, ReceiveKeepsFlow, TakeKeepsFlow, SendToPeerKeepsFlow,
     LeaveLoopKeepsFlow, ReturnKeepsFlow
  DEF PeerStep, TaskStep, LockStep

LEMMA FlowInit == ASSUME HubAssumption, Init PROVE RelayInv
<1>1. SlotsKnown
  BY Zenon DEF Init, SlotsKnown
<1>2. ASSUME NEW p \in Peer PROVE TaskInv(p) /\ AwaitInv(p) /\ HearInv(p)
  <2>1. /\ pc[p] = "listener" /\ conn[p] = "idle" /\ inbound[p] = 0 /\ role[p] = "none"
        /\ queue[p] = <<>> /\ sent[p] = 0
    BY DEF Init
  <2>3. AwaitInv(p)
    BY <2>1 DEF AwaitInv, AtEnd
  <2>4. QED BY <2>1, <2>3 DEF TaskInv, HearInv
<1>3. QED BY <1>1, <1>2 DEF RelayInv

LEMMA FlowInvariant == Spec => []FlowInv
<1>1. Init => RelayInv
  BY FlowInit, HubAssumption
<1>2. HubInv /\ HubInv' /\ RelayInv /\ [Next]_vars => RelayInv'
  <2> SUFFICES ASSUME HubInv, HubInv', RelayInv, [Next]_vars PROVE RelayInv'
    OBVIOUS
  <2>1. FlowInv
    BY DEF FlowInv
  <2>2. CASE UNCHANGED vars
    <3>1. UNCHANGED <<peer_a, peer_b, lock, pc, role, queue, held, room, conn, inbound,
                      sent, view>>
      BY <2>2 DEF vars, hubVars, peerVars
    <3>2. SlotsKnown'
      BY <3>1 DEF RelayInv, SlotsKnown
    <3>3. \A x \in Peer : Toward(x)' = Toward(x) /\ First(x)' = First(x)
      BY <3>1 DEF Toward, First
    <3>4. \A x \in Peer : /\ OtherOf(x)' = OtherOf(x) /\ ReadyFor(x)' = ReadyFor(x)
                          /\ Over(x)' = Over(x) /\ Firm(x)' = Firm(x)
                          /\ NextNum(x)' = NextNum(x)
      BY <3>1, <3>3 DEF OtherOf, ReadyFor, Over, Firm, NextNum
    <3>5. \A x, y \in Peer : Matched(x, y)' <=> Matched(x, y)
      BY <3>1, <3>4 DEF Matched
    <3>6. \A x, y \in Peer : Flow(x, y)' <=> Flow(x, y)
      BY <3>1, <3>3, <3>4 DEF Flow
    <3>7. ASSUME NEW x \in Peer PROVE TaskInv(x)' /\ AwaitInv(x)' /\ HearInv(x)'
      <4>1. TaskInv(x) /\ AwaitInv(x) /\ HearInv(x)
        BY DEF RelayInv
      <4>2. TaskInv(x)' /\ AwaitInv(x)'
        BY <3>1, <3>3, <4>1 DEF TaskInv, AwaitInv
      <4>3. HearInv(x)'
        BY <3>1, <3>3, <3>4, <3>5, <3>6, <4>1 DEF HearInv
      <4>4. QED BY <4>2, <4>3
    <3>8. QED BY <3>2, <3>7 DEF RelayInv
  <2>3. ASSUME NEW p \in Peer, PeerStep(p) \/ TaskStep(p) PROVE RelayInv'
    BY <2>1, <2>3, StepKeepsFlow, HubAssumption
  <2>4. QED BY <2>2, <2>3 DEF Next
<1>3. QED BY <1>1, <1>2, HubInvariant, PTL DEF Spec, FlowInv

-----------------------------------------------------------------------------
(* What is under way, as one sequence. *)

(* The chunks of p in a flow fit together: each follows the READY line or  *)
(* the chunk that ends where it begins.                                    *)
LEMMA ChunksFit ==
  ASSUME NEW p \in Peer, NEW n \in Nat, NEW o \in BOOLEAN, NEW s \in Seq(Line),
         Chain(p, o, n, s), s # <<>>, s[1].kind # "relayed"
  PROVE  /\ \A i \in ChunksOf(p, s) :
              /\ i \in 2..Len(s) /\ Piece(p, n, s[i])
              /\ i > 2 => i - 1 \in ChunksOf(p, s) /\ s[i - 1].to + 1 = s[i].n
         /\ \A i \in 2..Len(s) : s[i].kind = "relayed" => i \in ChunksOf(p, s)
<1>1. Len(s) \in Nat \ {0} /\ DOMAIN s = 1..Len(s)
  OBVIOUS
<1>2. ASSUME NEW i \in 2..Len(s), s[i].kind = "relayed"
      PROVE  /\ i \in ChunksOf(p, s) /\ Piece(p, n, s[i])
             /\ i > 2 => i - 1 \in ChunksOf(p, s) /\ s[i - 1].to + 1 = s[i].n
  <2>1. s[i] # HubLine("PEER_LEFT")
    BY <1>2 DEF HubLine
  <2>2. Piece(p, n, s[i]) /\ (i > 2 => Piece(p, n, s[i - 1]) /\ s[i - 1].to + 1 = s[i].n)
    BY <2>1 DEF Chain
  <2>3. s[i].from = p /\ (i > 2 => s[i - 1].kind = "relayed" /\ s[i - 1].from = p)
    BY <2>2, PieceParts
  <2>4. i \in DOMAIN s /\ i - 1 \in DOMAIN s
    BY <1>1
  <2>5. QED BY <1>2, <2>2, <2>3, <2>4 DEF ChunksOf
<1>3. ASSUME NEW i \in ChunksOf(p, s) PROVE i \in 2..Len(s) /\ s[i].kind = "relayed"
  <2>1. i \in 1..Len(s) /\ s[i].kind = "relayed"
    BY <1>1 DEF ChunksOf
  <2>2. i # 1
    BY <2>1
  <2>3. QED BY <1>1, <2>1, <2>2
<1>4. QED BY <1>2, <1>3

LEMMA ChunksFollow ==
  ASSUME NEW p \in Peer, NEW n \in Nat, NEW o \in BOOLEAN, NEW s \in Seq(Line),
         Chain(p, o, n, s), s # <<>>, s[1].kind # "relayed",
         NEW f \in BOOLEAN, NEW k \in Int, Meets(f, k, s)
  PROVE  /\ \A i, j \in ChunksOf(p, s) :
              (i < j /\ ChunksOf(p, s) \cap ((i + 1)..(j - 1)) = {}) => s[j].n = s[i].to + 1
         /\ \A i \in ChunksOf(p, s) :
              (f /\ ChunksOf(p, s) \cap ((i + 1)..Len(s)) = {}) => s[i].to + 1 = k
<1> DEFINE chunks == ChunksOf(p, s)
<1>1. /\ \A i \in chunks : /\ i \in 2..Len(s) /\ Piece(p, n, s[i])
                           /\ i > 2 => i - 1 \in chunks /\ s[i - 1].to + 1 = s[i].n
      /\ \A i \in 2..Len(s) : s[i].kind = "relayed" => i \in chunks
  BY ChunksFit
<1>2. Len(s) \in Nat
  OBVIOUS
<1> HIDE DEF chunks
<1>3. ASSUME NEW i \in chunks, NEW j \in chunks, i < j, chunks \cap ((i + 1)..(j - 1)) = {}
      PROVE  s[j].n = s[i].to + 1
  <2>1. i \in 2..Len(s) /\ j \in 2..Len(s)
    BY <1>1
  <2>5. j > 2
    BY <1>2, <1>3, <2>1
  <2>2. j - 1 \in chunks /\ s[j - 1].to + 1 = s[j].n
    BY <1>1, <2>5
  <2>3. i = j - 1
    BY <1>2, <1>3, <2>1, <2>2
  <2>4. QED BY <2>2, <2>3
<1>4. ASSUME NEW i \in chunks, f, chunks \cap ((i + 1)..Len(s)) = {}
      PROVE  s[i].to + 1 = k
  <2>1. i \in 2..Len(s) /\ Piece(p, n, s[i])
    BY <1>1
  <2>2. s[i].kind = "relayed"
    BY <2>1, PieceParts
  <2>3. i = Len(s) \/ s[i + 1].kind # "relayed"
    <3> SUFFICES ASSUME i # Len(s), s[i + 1].kind = "relayed" PROVE FALSE
      OBVIOUS
    <3>1. i + 1 \in 2..Len(s)
      BY <1>2, <2>1
    <3>2. i + 1 \in chunks
      BY <1>1, <3>1
    <3>3. QED BY <1>4, <3>1, <3>2
  <2>4. QED BY <1>4, <2>1, <2>2, <2>3 DEF Meets
<1>5. QED BY <1>3, <1>4 DEF chunks

(* What is under way to q together with what p's task holds for it is a    *)
(* flow of its own.                                                        *)
LEMMA WholeFlow ==
  ASSUME HubAssumption, FlowInv, NEW p \in Peer, NEW q \in Peer, role[p] # "none",
         q = OtherOf(p), conn[q] = "open", NEW s, s = Toward(q) \o InHand(p), s # <<>>
  PROVE  /\ s \in Seq(Line) /\ Chain(p, Over(p), sent[p], s)
         /\ Meets(conn[p] = "open", First(p), s)
         /\ \/ s[1].kind # "relayed"
            \/ /\ Len(s) = 1 /\ Piece(p, sent[p], s[1])
               /\ conn[p] = "open" => s[1].to + 1 = First(p)
<1>1. /\ HubInv /\ SlotsKnown /\ AwaitInv(p) /\ sent[p] \in Nat /\ held[p] \in Line
      /\ HearInv(q) /\ Toward(q) \in Seq(Line)
  BY FlowParts, InboundTypes
<1>2. role[q] # "none" /\ OtherOf(q) = p
  <2>1. OtherOf(p) # NoPeer
    BY DEF HubAssumption
  <2>2. QED BY <1>1, <2>1, Partners
<1>3. Chain(p, Over(p), sent[p], Toward(q)) /\ Meets(Firm(p), NextNum(p), Toward(q))
  BY <1>1, <1>2 DEF HearInv, Matched, Flow
<1>4. Toward(q) # <<>> => Toward(q)[1].kind # "relayed"
  BY <1>1, <1>2 DEF HearInv, ReadyFor, HubLine
<1>5. CASE pc[p] # "forward"
  <2>1. s = Toward(q)
    BY <1>1, <1>5, ConcatEmptySeq DEF InHand
  <2>2. Meets(conn[p] = "open", First(p), Toward(q))
    BY <1>3, <1>5 DEF Firm, NextNum, Meets
  <2>3. QED BY <1>1, <1>3, <1>4, <2>1, <2>2
<1>6. CASE pc[p] = "forward"
  <2> DEFINE t == Toward(q)  l == held[p]
  <2>1. s = Append(t, l)
    BY <1>1, <1>6, AppendIsConcat DEF InHand
  <2>2. Piece(p, sent[p], l) /\ (conn[p] = "open" => l.to + 1 = First(p))
    BY <1>1, <1>6 DEF AwaitInv
  <2>3. ~Over(p) /\ Firm(p) /\ NextNum(p) = l.n
    BY <1>6 DEF Over, Firm, NextNum
  <2>4. Chain(p, FALSE, sent[p], t) /\ Meets(TRUE, l.n, t)
    BY <1>3, <2>3 DEF Chain, Meets
  <2>5. t \in Seq(Line) /\ l \in Line /\ sent[p] \in Nat
    BY <1>1
  <2>6. t # <<>> => t[1].kind # "relayed"
    BY <1>4
  <2> HIDE DEF t, l
  <2>7. s \in Seq(Line)
    BY <2>1, <2>5
  <2>8. CASE t = <<>>
    <3>1. s = <<l>> /\ Len(s) = 1 /\ s[1] = l
      BY <2>1, <2>5, <2>8
    <3>2. Chain(p, Over(p), sent[p], s) /\ Meets(conn[p] = "open", First(p), s)
      BY <3>1 DEF Chain, Meets
    <3>3. QED BY <2>2, <2>7, <3>1, <3>2
  <2>9. CASE t # <<>>
    <3>1. Chain(p, FALSE, sent[p], s) /\ Meets(TRUE, l.to + 1, s)
      BY <2>1, <2>2, <2>4, <2>5, <2>9, ChainAppend
    <3>2. Chain(p, Over(p), sent[p], s)
      BY <3>1 DEF Chain
    <3>3. Meets(conn[p] = "open", First(p), s)
      BY <2>2, <3>1 DEF Meets
    <3>4. s[1] = t[1]
      BY <2>1, <2>5, <2>9
    <3>5. QED BY <2>6, <2>7, <2>9, <3>2, <3>3, <3>4
  <2>10. QED BY <2>8, <2>9
<1>7. QED BY <1>5, <1>6

(* Between matched peers no part of a text is lost, doubled or overtaken   *)
(* on its way, and a peer that is not on a stream is relayed line by line, *)
(* for any number of peers, rooms and lines and any cuts: the relay loops  *)
(* of both tasks, their channels and the mutex never drop what a sender    *)
(* handed over.                                                            *)
THEOREM NothingLostOnTheWay == Spec => []NoLossOnTheWay
<1>1. FlowInv => NoLossOnTheWay
  <2> SUFFICES ASSUME FlowInv, NEW p \in Peer, NEW q \in Peer,
                      role[p] # "none", q = OtherOf(p), conn[q] = "open"
               PROVE  LET s == Toward(q) \o InHand(p)
                          chunks == ChunksOf(p, s)
                      IN /\ \A i, j \in chunks :
                              (i < j /\ chunks \cap ((i + 1)..(j - 1)) = {})
                                => s[j].n = s[i].to + 1
                         /\ \A i \in chunks :
                              (conn[p] = "open" /\ chunks \cap ((i + 1)..Len(s)) = {})
                                => s[i].to + 1 = First(p)
                         /\ \A i \in chunks : p \notin Stream => IsLine(p, s[i].n, s[i].to)
    BY DEF NoLossOnTheWay
  <2> DEFINE s == Toward(q) \o InHand(p)  chunks == ChunksOf(p, s)
             Told == /\ \A i, j \in chunks :
                          (i < j /\ chunks \cap ((i + 1)..(j - 1)) = {})
                            => s[j].n = s[i].to + 1
                     /\ \A i \in chunks :
                          (conn[p] = "open" /\ chunks \cap ((i + 1)..Len(s)) = {})
                            => s[i].to + 1 = First(p)
                     /\ \A i \in chunks : p \notin Stream => IsLine(p, s[i].n, s[i].to)
  <2>1. CASE s = <<>>
    BY <2>1 DEF ChunksOf
  <2>2. CASE s # <<>>
    <3>1. /\ s \in Seq(Line) /\ Chain(p, Over(p), sent[p], s)
          /\ Meets(conn[p] = "open", First(p), s)
          /\ \/ s[1].kind # "relayed"
             \/ /\ Len(s) = 1 /\ Piece(p, sent[p], s[1])
                /\ conn[p] = "open" => s[1].to + 1 = First(p)
      BY <2>2, WholeFlow, HubAssumption
    <3>2. sent[p] \in Nat /\ First(p) \in Int /\ Over(p) \in BOOLEAN /\ (conn[p] = "open") \in BOOLEAN
      BY FlowParts, InboundTypes, HubAssumption DEF Over
    <3> HIDE DEF s
    <3>3. ASSUME s[1].kind # "relayed" PROVE Told
      <4>1. /\ \A i, j \in chunks :
                 (i < j /\ chunks \cap ((i + 1)..(j - 1)) = {}) => s[j].n = s[i].to + 1
            /\ \A i \in chunks :
                 (conn[p] = "open" /\ chunks \cap ((i + 1)..Len(s)) = {}) => s[i].to + 1 = First(p)
        <5> DEFINE f == conn[p] = "open"  k == First(p)  o == Over(p)  n == sent[p]
        <5>1. /\ Chain(p, o, n, s) /\ Meets(f, k, s)
              /\ f \in BOOLEAN /\ k \in Int /\ o \in BOOLEAN /\ n \in Nat
          BY <3>1, <3>2
        <5> HIDE DEF f, k, o, n
        <5>2. /\ \A i, j \in chunks :
                   (i < j /\ chunks \cap ((i + 1)..(j - 1)) = {}) => s[j].n = s[i].to + 1
              /\ \A i \in chunks : (f /\ chunks \cap ((i + 1)..Len(s)) = {}) => s[i].to + 1 = k
          BY <2>2, <3>1, <3>3, <5>1, ChunksFollow
        <5>3. QED BY <5>2 DEF f, k
      <4>2. \A i \in chunks : Piece(p, sent[p], s[i])
        <5> DEFINE o == Over(p)  n == sent[p]
        <5>1. Chain(p, o, n, s) /\ o \in BOOLEAN /\ n \in Nat
          BY <3>1, <3>2
        <5> HIDE DEF o, n
        <5>2. \A i \in chunks : Piece(p, n, s[i])
          BY <2>2, <3>1, <3>3, <5>1, ChunksFit
        <5>3. QED BY <5>2 DEF n
      <4>3. \A i \in chunks : p \notin Stream => IsLine(p, s[i].n, s[i].to)
        BY <4>2, Zenon DEF Piece
      <4> HIDE DEF chunks
      <4>4. QED BY <4>1, <4>3
    <3>4. ASSUME s[1].kind = "relayed" PROVE Told
      <4>1. Len(s) = 1 /\ Piece(p, sent[p], s[1]) /\ (conn[p] = "open" => s[1].to + 1 = First(p))
        BY <3>1, <3>4
      <4>2. \A i \in chunks : i = 1
        BY <3>1, <4>1 DEF ChunksOf
      <4>3. \A i \in chunks : p \notin Stream => IsLine(p, s[i].n, s[i].to)
        BY <4>1, <4>2, Zenon DEF Piece
      <4>5. \A i, j \in chunks : ~(i < j)
        BY <4>2
      <4>6. \A i \in chunks : conn[p] = "open" => s[i].to + 1 = First(p)
        BY <4>1, <4>2, Zenon
      <4> HIDE DEF chunks
      <4>4. QED BY <4>3, <4>5, <4>6
    <3>5. Told
      BY <3>3, <3>4
    <3>6. QED BY <3>5 DEF s
  <2>3. QED BY <2>1, <2>2
<1>2. QED BY <1>1, FlowInvariant, PTL


-----------------------------------------------------------------------------
(* The hub implements the session. *)

PartnerOf(p) == IF role[p] = "none" THEN NoPeer ELSE OtherOf(p)
Partner   == [p \in Peer |-> PartnerOf(p)]
Answerers == {p \in Peer : role[p] = "answerer"}
Left      == {p \in Peer : pc[p] \in {"return", "done"}}

LEMMA SessionLines ==
  /\ \A k : Session!HubLine(k) = HubLine(k)
  /\ \A p, i, j : Session!Relayed(p, i, j) = Relayed(p, i, j)
  /\ \A p, i, j : Session!NextEnd(p, i, j) <=> NextEnd(p, i, j)
  /\ \A p, i, j : Session!IsLine(p, i, j) <=> IsLine(p, i, j)
<1>1. /\ \A k : Session!HubLine(k) = HubLine(k)
      /\ \A p, i, j : Session!Relayed(p, i, j) = Relayed(p, i, j)
      /\ \A p, i, j : Session!NextEnd(p, i, j) <=> NextEnd(p, i, j)
  BY Zenon DEF Session!HubLine, Session!Relayed, Session!NextEnd, HubLine, Relayed, NextEnd
<1>2. \A p, i, j : Session!IsLine(p, i, j) <=> IsLine(p, i, j)
  BY <1>1, Zenon DEF Session!IsLine, IsLine
<1>3. QED BY <1>1, <1>2

LEMMA SessionInit == ASSUME Init PROVE Session!Init
<1>1. \A p \in Peer : role[p] = "none" /\ pc[p] = "listener"
  BY DEF Init
<1>2. UNCHANGED <<>> /\ Partner = [p \in Peer |-> NoPeer] /\ Answerers = {} /\ Left = {}
  BY <1>1 DEF Partner, PartnerOf, Answerers, Left
<1>3. QED BY <1>2 DEF Init, Session!Init, Partner, PartnerOf, Answerers, Left

(* A step that matches nobody. *)
LEMMA MatchesKept ==
  ASSUME UNCHANGED <<peer_a, peer_b, role, room>>
  PROVE  Partner' = Partner /\ Answerers' = Answerers
<1>1. \A p \in Peer : PartnerOf(p)' = PartnerOf(p)
  BY DEF PartnerOf, OtherOf
<1>2. QED BY <1>1 DEF Partner, Answerers

LEMMA LeftKept ==
  ASSUME \A x \in Peer : Over(x)' <=> Over(x)
  PROVE  Left' = Left
  BY DEF Left, Over

LEMMA LeftGrows ==
  ASSUME NEW p \in Peer, pc'[p] \in {"return", "done"}, \A x \in Peer \ {p} : pc'[x] = pc[x]
  PROVE  Left' = Left \cup {p}
  BY DEF Left

LEMMA SessionLeave ==
  ASSUME NEW p \in Peer, UNCHANGED <<peer_a, peer_b, role, room, sent, view>>,
         pc'[p] \in {"return", "done"}, \A x \in Peer \ {p} : pc'[x] = pc[x]
  PROVE  Session!Next
<1>1. Partner' = Partner /\ Answerers' = Answerers /\ Left' = Left \cup {p}
  BY MatchesKept, LeftGrows
<1>2. Session!Leave(p)
  BY <1>1 DEF Session!Leave, Partner, PartnerOf, Answerers, Left
<1>3. QED BY <1>2 DEF Session!Next

LEMMA SessionStutter ==
  ASSUME UNCHANGED <<peer_a, peer_b, role, room, sent, view>>,
         \A x \in Peer : Over(x)' <=> Over(x)
  PROVE  UNCHANGED Session!vars
<1>1. Partner' = Partner /\ Answerers' = Answerers /\ Left' = Left
  BY MatchesKept, LeftKept
<1>2. QED BY <1>1 DEF Session!vars, Partner, PartnerOf, Answerers, Left

LEMMA SessionSay ==
  ASSUME HubInv, NEW p \in Peer, PeerSend(p)
  PROVE  Session!Next
<1>1. /\ \E j \in 1..MaxSend : /\ Session!NextEnd(p, sent[p] + 1, j)
                                /\ sent' = [sent EXCEPT ![p] = j]
      /\ UNCHANGED <<peer_a, peer_b, role, room, pc, view>>
  BY SessionLines DEF PeerSend, hubVars
<1>2. Partner' = Partner /\ Answerers' = Answerers /\ Left' = Left
  BY <1>1, MatchesKept, LeftKept DEF Over
<1>3. Session!Say(p)
  BY <1>1, <1>2 DEF Session!Say, Partner, PartnerOf, Answerers, Left
<1>4. QED BY <1>3 DEF Session!Next

(* A new offerer finds no answerer.                                        *)
LEMMA OffererIsAlone ==
  ASSUME HubAssumption, FlowInv, NEW p \in Peer, JoinAsOfferer(p)
  PROVE  UNCHANGED Session!vars
<1>1. HubInv /\ SlotsKnown
  BY DEF FlowInv, RelayInv
<1>2. /\ pc[p] = "joining" /\ pc'[p] = "select" /\ role'[p] = "offerer"
      /\ peer_a[room[p]] = NoPeer /\ peer_b[room[p]] = NoPeer
      /\ \A r \in Room \ {room[p]} : peer_a'[r] = peer_a[r]
      /\ \A x \in Peer \ {p} : pc'[x] = pc[x] /\ role'[x] = role[x]
      /\ UNCHANGED <<peer_b, room, sent, view>> /\ room[p] \in Room
  BY <1>1 DEF JoinAsOfferer, peerVars, Goto, HubInv, TypeOK, SlotOwnership
<1>3. role[p] = "none"
  BY <1>1, <1>2 DEF HubInv, FirstLineInv
<1>4. ASSUME NEW x \in Peer PROVE PartnerOf(x)' = PartnerOf(x)
  <2>1. CASE x = p
    BY <1>2, <1>3, <2>1 DEF PartnerOf, OtherOf
  <2>2. CASE x # p /\ role[x] = "answerer"
    <3>1. peer_b[room[x]] = x /\ x # NoPeer /\ room[x] \in Room
      BY <1>1, <2>2 DEF SlotsKnown, HubAssumption, HubInv, TypeOK
    <3>2. room[x] # room[p]
      BY <1>2, <3>1
    <3>3. peer_a'[room[x]] = peer_a[room[x]]
      BY <1>2, <3>1, <3>2
    <3>4. QED BY <1>2, <2>2, <3>3 DEF PartnerOf, OtherOf
  <2>3. CASE x # p /\ role[x] # "answerer"
    <3>1. role[x] \in {"none", "offerer"}
      BY <1>1, <2>3 DEF HubInv, TypeOK
    <3>2. QED BY <1>2, <2>3, <3>1 DEF PartnerOf, OtherOf
  <2>4. QED BY <2>1, <2>2, <2>3
<1>5. Partner' = Partner /\ Answerers' = Answerers /\ Left' = Left
  BY <1>2, <1>3, <1>4 DEF Partner, Answerers, Left
<1>6. QED BY <1>2, <1>5 DEF Session!vars, Partner, PartnerOf, Answerers, Left

(* A new answerer is matched with the offerer of its room.                 *)
LEMMA AnswererIsMatched ==
  ASSUME HubAssumption, FlowInv, NEW p \in Peer, JoinAsAnswerer(p)
  PROVE  Session!Next
<1>0. PICK q \in Peer : q = peer_a[room[p]]
  BY FlowParts DEF JoinAsAnswerer, HubInv, TypeOK
<1>1. HubInv /\ SlotsKnown
  BY DEF FlowInv, RelayInv
<1>2. /\ pc[p] = "joining" /\ pc'[p] = "announce" /\ role'[p] = "answerer"
      /\ q # NoPeer /\ peer_b[room[p]] = NoPeer /\ peer_b'[room[p]] = p
      /\ \A r \in Room \ {room[p]} : peer_b'[r] = peer_b[r]
      /\ \A x \in Peer \ {p} : pc'[x] = pc[x] /\ role'[x] = role[x]
      /\ UNCHANGED <<peer_a, room, sent, view>> /\ room[p] \in Room
  BY <1>0, <1>1 DEF JoinAsAnswerer, TakeAnswererSlot, peerVars, Goto, HubInv, TypeOK
<1>3. /\ role[p] = "none" /\ room[q] = room[p] /\ role[q] = "offerer" /\ q # p
  BY <1>0, <1>1, <1>2 DEF HubInv, TypeOK, FirstLineInv, SlotOwnership, HubAssumption
<1>4. ASSUME NEW x \in Peer \ {p, q} PROVE PartnerOf(x)' = PartnerOf(x)
  <2>1. CASE role[x] = "none"
    BY <1>2, <2>1 DEF PartnerOf
  <2>2. CASE role[x] # "none"
    <3>1. /\ x # NoPeer /\ room[x] \in Room /\ role[x] \in {"offerer", "answerer"}
          /\ role[x] = "offerer" => peer_a[room[x]] = x
          /\ role[x] = "answerer" => peer_b[room[x]] = x
      BY <1>1, <2>2 DEF HubInv, TypeOK, SlotsKnown, HubAssumption
    <3>2. room[x] # room[p]
      BY <1>0, <1>2, <1>3, <3>1
    <3>3. peer_b'[room[x]] = peer_b[room[x]]
      BY <1>2, <3>1, <3>2
    <3>4. QED BY <1>2, <2>2, <3>3 DEF PartnerOf, OtherOf
  <2>3. QED BY <2>1, <2>2
<1>5. /\ PartnerOf(p) = NoPeer /\ PartnerOf(q) = NoPeer
      /\ PartnerOf(p)' = q /\ PartnerOf(q)' = p
  BY <1>0, <1>2, <1>3 DEF PartnerOf, OtherOf
<1>6. Partner' = [Partner EXCEPT ![q] = p, ![p] = q]
  BY <1>3, <1>4, <1>5 DEF Partner
<1>7. Answerers' = Answerers \cup {p} /\ Left' = Left /\ p \notin Left
  BY <1>2 DEF Answerers, Left
<1>8. Partner[p] = NoPeer /\ Partner[q] = NoPeer
  BY <1>5 DEF Partner
<1>9. Session!Match(q, p)
  BY <1>2, <1>3, <1>6, <1>7, <1>8 DEF Session!Match, Partner, PartnerOf, Answerers, Left
<1>10. QED BY <1>9 DEF Session!Next

(* What a peer may be sent next.                                           *)
LEMMA SessionReady ==
  ASSUME NEW p \in Peer
  PROVE  Session!ReadyLine(p) = ReadyFor(p)
  BY DEF Session!ReadyLine, ReadyFor, Session!HubLine, HubLine

LEMMA MayHearFirst ==
  ASSUME NEW p \in Peer, view[p] = <<>>, PartnerOf(p) # NoPeer
  PROVE  ReadyFor(p) \in Session!NextLines(p)
<1>1. Partner[p] # NoPeer
  BY DEF Partner
<1>2. QED BY <1>1, SessionReady DEF Session!NextLines, Partner, PartnerOf

LEMMA MayHearLeft ==
  ASSUME HubAssumption, NEW p \in Peer, view[p] # <<>>,
         NEW q \in Peer, q = PartnerOf(p), Over(q)
  PROVE  HubLine("PEER_LEFT") \in Session!NextLines(p)
<1>1. Partner[p] = q /\ q \in Left /\ q # NoPeer
  BY DEF Partner, Left, Over, HubAssumption
<1>2. Partner[p] = [x \in Peer |-> IF role[x] = "none" THEN NoPeer ELSE OtherOf(x)][p]
  BY DEF Partner, PartnerOf
<1>3. QED BY <1>1, <1>2, SessionLines DEF Session!NextLines, Left

LEMMA MayHearPiece ==
  ASSUME NEW q \in Peer, sent[q] \in Nat, NEW l, Piece(q, sent[q], l)
  PROVE  l \in Session!Pieces(q, l.n)
<1>1. l = Session!Relayed(q, l.n, l.to) /\ l.to \in l.n..sent[q]
  BY SessionLines DEF Piece
<1>2. q \in Stream \/ Session!IsLine(q, l.n, l.to)
  BY SessionLines DEF Piece
<1>3. QED BY <1>1, <1>2 DEF Session!Pieces

LEMMA MayHearFirstLine ==
  ASSUME NEW p \in Peer, view[p] # <<>>, view[p][Len(view[p])] = ReadyFor(p),
         NEW q \in Peer, q = PartnerOf(p), sent[q] \in Nat, NEW l, Piece(q, sent[q], l)
  PROVE  l \in Session!NextLines(p)
<1>1. [x \in Peer |-> IF role[x] = "none" THEN NoPeer ELSE OtherOf(x)][p] = q
  BY DEF PartnerOf
<1>2. view[p][Len(view[p])] = Session!ReadyLine(p) /\ view[p][Len(view[p])].kind # "relayed"
  BY SessionReady DEF ReadyFor, HubLine
<1>3. l \in UNION {Session!Pieces(q, i) : i \in 1..sent[q]}
  BY MayHearPiece DEF Piece
<1>4. QED BY <1>1, <1>2, <1>3 DEF Session!NextLines

LEMMA MayHearNextLine ==
  ASSUME NEW p \in Peer, view[p] # <<>>,
         NEW q \in Peer, q = PartnerOf(p), sent[q] \in Nat, NEW l, Piece(q, sent[q], l),
         Piece(q, sent[q], view[p][Len(view[p])]), view[p][Len(view[p])].to + 1 = l.n
  PROVE  l \in Session!NextLines(p)
<1>1. [x \in Peer |-> IF role[x] = "none" THEN NoPeer ELSE OtherOf(x)][p] = q
  BY DEF PartnerOf
<1>2. view[p][Len(view[p])].kind = "relayed"
  BY PieceParts
<1>3. view[p][Len(view[p])] # Session!ReadyLine(p)
  BY <1>2, SessionReady DEF ReadyFor, HubLine
<1>4. l \in Session!Pieces(q, view[p][Len(view[p])].to + 1)
  BY MayHearPiece
<1>5. QED BY <1>1, <1>2, <1>3, <1>4 DEF Session!NextLines

LEMMA SessionHear ==
  ASSUME NEW p \in Peer, UNCHANGED <<peer_a, peer_b, role, room, sent>>,
         \A x \in Peer : Over(x)' <=> Over(x), ~Over(p),
         NEW l \in Session!NextLines(p), view' = [view EXCEPT ![p] = Append(@, l)],
         view[p] = <<>> \/ view[p][Len(view[p])].kind # "PEER_LEFT"
  PROVE  Session!Next
<1>1. Partner' = Partner /\ Answerers' = Answerers /\ Left' = Left /\ p \notin Left
  BY MatchesKept, LeftKept DEF Left, Over
<1>2. Session!MayHear(p)
  BY DEF Session!MayHear
<1>3. Session!Hear(p)
  BY <1>1, <1>2 DEF Session!Hear, Partner, PartnerOf, Answerers, Left
<1>4. QED BY <1>3 DEF Session!Next

(* The answerer's READY is its first line. *)
LEMMA ReadyIsHeard ==
  ASSUME HubAssumption, FlowInv, NEW p \in Peer, AnnounceReady(p)
  PROVE  Session!Next \/ UNCHANGED Session!vars
<1>1. HubInv /\ SlotsKnown /\ TaskInv(p)
  BY FlowParts
<1>2. /\ pc[p] = "announce" /\ UNCHANGED <<peer_a, peer_b, role, room, sent>>
      /\ \A x \in Peer \ {p} : pc'[x] = pc[x]
      /\ \/ /\ view' = [view EXCEPT ![p] = Append(@, HubLine("READY:answerer"))]
            /\ pc'[p] = "select"
         \/ view' = view /\ pc'[p] = "select"
         \/ view' = view /\ pc'[p] = "return"
  BY <1>1 DEF AnnounceReady, SendReady, SendDelivers, SendLost, SendFails, Goto, HubInv, TypeOK
<1>3. ASSUME pc'[p] = "select" PROVE \A x \in Peer : Over(x)' <=> Over(x)
  BY <1>2, <1>3 DEF Over
<1>4. CASE pc'[p] = "select" /\ view' = view
  BY <1>2, <1>3, <1>4, SessionStutter
<1>5. CASE pc'[p] = "return" /\ view' = view
  BY <1>2, <1>5, SessionLeave
<1>6. CASE pc'[p] = "select" /\ view' = [view EXCEPT ![p] = Append(@, HubLine("READY:answerer"))]
  <2>1. role[p] = "answerer" /\ view[p] = <<>>
    BY <1>1, <1>2 DEF TaskInv, HubInv, FirstLineInv
  <2>2. PartnerOf(p) # NoPeer
    BY <1>1, <2>1, AnswererMatched DEF PartnerOf
  <2>3. ReadyFor(p) = HubLine("READY:answerer")
    BY <2>1 DEF ReadyFor
  <2>4. HubLine("READY:answerer") \in Session!NextLines(p)
    BY <2>1, <2>2, <2>3, MayHearFirst
  <2>5. ~Over(p)
    BY <1>2 DEF Over
  <2>6. QED BY <1>2, <1>3, <1>6, <2>1, <2>4, <2>5, SessionHear
<1>7. QED BY <1>2, <1>4, <1>5, <1>6

(* A refusal is the first line and the last. *)
LEMMA RefusalIsHeard ==
  ASSUME HubAssumption, FlowInv, NEW p \in Peer, SendRefusal(p)
  PROVE  Session!Next
<1>1. HubInv
  BY FlowParts
<1>2. /\ pc[p] = "refuse" /\ pc'[p] = "return" /\ UNCHANGED <<peer_a, peer_b, role, room, sent>>
      /\ \A x \in Peer \ {p} : pc'[x] = pc[x]
      /\ view' = view \/ view' = [view EXCEPT ![p] = Append(@, HubLine("ERROR"))]
  BY <1>1 DEF SendRefusal, SendDelivers, SendLost, Goto, HubInv, TypeOK
<1>3. CASE view' = view
  BY <1>2, <1>3, SessionLeave
<1>4. CASE view' = [view EXCEPT ![p] = Append(@, HubLine("ERROR"))]
  <2>1. role[p] = "none" /\ view[p] = <<>>
    BY <1>1, <1>2 DEF HubInv, FirstLineInv
  <2>2. /\ Partner' = Partner /\ Answerers' = Answerers /\ Left' = Left \cup {p}
        /\ Partner[p] = NoPeer /\ p \notin Left
    BY <1>2, <2>1, MatchesKept, LeftGrows DEF Partner, PartnerOf, Left
  <2>3. Session!Refuse(p)
    BY <1>2, <1>4, <2>1, <2>2, SessionLines
    DEF Session!Refuse, Partner, PartnerOf, Answerers, Left
  <2>4. QED BY <2>3 DEF Session!Next
<1>5. QED BY <1>2, <1>3, <1>4

(* A line that its task sends on follows the one before. *)
LEMMA LineIsHeard ==
  ASSUME HubAssumption, FlowInv, NEW p \in Peer, SendToPeer(p)
  PROVE  Session!Next \/ UNCHANGED Session!vars
<1>1. HubInv /\ SlotsKnown /\ TaskInv(p) /\ HearInv(p) /\ Toward(p) \in Seq(Line)
  BY FlowParts
<1>2. /\ pc[p] = "send" /\ pc'[p] \in {"select", "cleanup"}
      /\ UNCHANGED <<peer_a, peer_b, role, room, sent>>
      /\ \A x \in Peer \ {p} : pc'[x] = pc[x]
      /\ \/ view' = view
         \/ conn[p] = "open" /\ view' = [view EXCEPT ![p] = Append(@, held[p])]
  BY <1>1 DEF SendToPeer, SendDelivers, SendLost, SendFails, Goto, HubInv, TypeOK
<1>3. (\A x \in Peer : Over(x)' <=> Over(x)) /\ ~Over(p)
  BY <1>2 DEF Over
<1>4. CASE view' = view
  BY <1>2, <1>3, <1>4, SessionStutter
<1>5. CASE conn[p] = "open" /\ view' = [view EXCEPT ![p] = Append(@, held[p])]
  <2>1. view[p] \in Seq(Line) /\ queue[p] \in Seq(Line) /\ held[p] \in Line
    BY <1>1 DEF HubInv, TypeOK
  <2> DEFINE v == view[p]  t == Toward(p)  k == Len(v) + 1
  <2>2. /\ \A i \in 1..Len(v) : t[i] = v[i]
        /\ t[k] = held[p] /\ k <= Len(t) /\ t # <<>> /\ Len(t) \in Nat /\ Len(v) \in Nat
    <3>1. t = (v \o <<held[p]>>) \o queue[p]
      BY <1>2 DEF Toward
    <3> HIDE DEF v, t
    <3>2. v \in Seq(Line)
      BY <2>1 DEF v
    <3>3. v \o <<held[p]>> \in Seq(Line) /\ Len(v \o <<held[p]>>) = Len(v) + 1
      BY <2>1, <3>2
    <3>4. /\ \A i \in 1..Len(v) : (v \o <<held[p]>>)[i] = v[i]
          /\ (v \o <<held[p]>>)[Len(v) + 1] = held[p]
      BY <2>1, <3>2
    <3>5. /\ t \in Seq(Line) /\ Len(t) = Len(v) + 1 + Len(queue[p])
          /\ \A i \in 1..(Len(v) + 1) : t[i] = (v \o <<held[p]>>)[i]
      BY <2>1, <3>1, <3>3, ConcatProperties
    <3>6. Len(v) \in Nat /\ Len(queue[p]) \in Nat
      BY <2>1, <3>2
    <3>7. k \in 1..(Len(v) + 1) /\ k <= Len(t) /\ Len(t) \in Nat /\ Len(t) # 0
          /\ \A i \in 1..Len(v) : i \in 1..(Len(v) + 1)
      <4>1. Len(t) = Len(v) + 1 + Len(queue[p])
        BY <3>5
      <4>2. \A a, b \in Nat : /\ a + 1 \in 1..(a + 1) /\ a + 1 <= a + 1 + b
                             /\ a + 1 + b \in Nat /\ a + 1 + b # 0
                             /\ \A i \in 1..a : i \in 1..(a + 1)
        OBVIOUS
      <4>3. QED BY <3>6, <4>1, <4>2, Zenon
    <3>8. t # <<>>
      BY <3>7
    <3>9. \A i \in 1..Len(v) : t[i] = v[i]
      BY <3>4, <3>5, <3>7
    <3>10. t[k] = held[p]
      BY <3>4, <3>5, <3>7
    <3>11. QED BY <3>6, <3>7, <3>8, <3>9, <3>10
  <2>3. role[p] # "none"
    BY <1>1, <1>2 DEF TaskInv
  <2>4. OtherOf(p) # NoPeer /\ t[1] = ReadyFor(p)
    BY <1>1, <1>5, <2>2, <2>3 DEF HearInv
  <2>5. PICK q \in Peer : q = OtherOf(p) /\ q = PartnerOf(p)
    BY <1>1, <2>3, <2>4, Partners DEF PartnerOf
  <2>10. sent[q] \in Nat
    BY FlowParts
  <2>6. Chain(q, Over(q), sent[q], t)
    BY <1>1, <1>5, <2>3, <2>5 DEF HearInv, Matched, Flow
  <2> HIDE DEF v, t, k
  <2>7. CASE v = <<>>
    <3>1. held[p] = ReadyFor(p) /\ view[p] = <<>>
      BY <2>2, <2>4, <2>7 DEF v, k
    <3>2. held[p] \in Session!NextLines(p)
      BY <2>5, <3>1, MayHearFirst, HubAssumption DEF HubAssumption
    <3>3. QED BY <1>2, <1>3, <1>5, <3>1, <3>2, SessionHear
  <2>8. CASE v # <<>>
    <3>1. view[p] # <<>> /\ k \in 2..Len(t) /\ Len(v) \in 1..Len(v) /\ k - 1 = Len(v)
      BY <2>1, <2>2, <2>8 DEF v, k
    <3>2. view[p][Len(view[p])] = t[k - 1]
      BY <2>2, <3>1 DEF v
    <3>3. t[k - 1].kind # "PEER_LEFT"
      <4>1. CASE k = 2
        BY <2>4, <4>1 DEF ReadyFor, HubLine
      <4>2. CASE k # 2
        <5>1. k - 1 \in 2..Len(t) /\ k - 1 # Len(t)
          BY <2>2, <3>1, <4>2
        <5>2. Piece(q, sent[q], t[k - 1])
          BY <2>6, <5>1 DEF Chain
        <5>3. QED BY <5>2, <2>10, PieceParts
      <4>3. QED BY <4>1, <4>2
    <3>4. held[p] \in Session!NextLines(p)
      <4>1. CASE Over(q) /\ t[k] = HubLine("PEER_LEFT")
        BY <2>2, <2>5, <3>1, <4>1, MayHearLeft
      <4>2. CASE ~(Over(q) /\ t[k] = HubLine("PEER_LEFT"))
        <5>1. /\ Piece(q, sent[q], t[k])
              /\ k > 2 => Piece(q, sent[q], t[k - 1]) /\ t[k - 1].to + 1 = t[k].n
          BY <2>6, <3>1, <4>2 DEF Chain
        <5>2. CASE k = 2
          <6>1. view[p][Len(view[p])] = ReadyFor(p)
            BY <2>4, <3>2, <5>2
          <6>2. QED BY <2>2, <2>5, <2>10, <3>1, <5>1, <6>1, MayHearFirstLine
        <5>3. CASE k # 2
          <6>1. k > 2
            BY <3>1, <5>3
          <6>2. Piece(q, sent[q], held[p]) /\ Piece(q, sent[q], view[p][Len(view[p])])
                /\ view[p][Len(view[p])].to + 1 = held[p].n
            BY <2>2, <3>2, <5>1, <6>1
          <6>3. QED BY <2>5, <2>10, <3>1, <6>2, MayHearNextLine
        <5>4. QED BY <5>2, <5>3
      <4>3. QED BY <4>1, <4>2
    <3>5. QED BY <1>2, <1>3, <1>5, <3>2, <3>3, <3>4, SessionHear
  <2>9. QED BY <2>7, <2>8
<1>6. QED BY <1>2, <1>4, <1>5

LEMMA StepIsSessionStep ==
  ASSUME HubAssumption, FlowInv, NEW p \in Peer, PeerStep(p) \/ TaskStep(p)
  PROVE  Session!Next \/ UNCHANGED Session!vars
<1>1. HubInv
  BY FlowParts
<1>2. CASE Connect(p) \/ PeerRead(p) \/ PeerLeave(p) \/ JoinFull(p) \/ Receive(p)
           \/ Take(p) \/ LeaveLoop(p) \/ Forward(p) \/ Return(p)
  <2>1. UNCHANGED <<peer_a, peer_b, role, room, sent, view>>
    BY <1>2 DEF Connect, PeerRead, PeerLeave, JoinFull, Receive, Take, TakeLine, LeaveLoop,
                Forward, Return, hubVars, peerVars
  <2>2. \A x \in Peer \ {p} : pc'[x] = pc[x]
    BY <1>1, <1>2 DEF Connect, PeerRead, PeerLeave, JoinFull, Receive, Take, TakeLine, LeaveLoop,
                Forward, Return, hubVars, Goto, HubInv, TypeOK
  <2>3. Over(p)' <=> Over(p)
    BY <1>1, <1>2 DEF Connect, PeerRead, PeerLeave, JoinFull, Receive, Take, TakeLine, LeaveLoop,
                Forward, Return, hubVars, Goto, HubInv, TypeOK, Over
  <2>4. \A x \in Peer : Over(x)' <=> Over(x)
    BY <2>2, <2>3 DEF Over
  <2>5. QED BY <2>1, <2>4, SessionStutter
<1>3. CASE ConnectMalformed(p) \/ CleanupPeer(p)
  <2>1. UNCHANGED <<peer_a, peer_b, role, room, sent, view>>
    BY <1>1, <1>3, CleanupKeepsRoom DEF ConnectMalformed, CleanupPeer, peerVars
  <2>2. pc'[p] = "return" /\ \A x \in Peer \ {p} : pc'[x] = pc[x]
    BY <1>1, <1>3 DEF ConnectMalformed, CleanupPeer, Goto, HubInv, TypeOK
  <2>3. QED BY <2>1, <2>2, SessionLeave
<1>4. QED
  BY <1>1, <1>2, <1>3, SessionSay, OffererIsAlone, AnswererIsMatched, ReadyIsHeard,
     RefusalIsHeard, LineIsHeard
  DEF PeerStep, TaskStep, LockStep

(* The hub implements the session it promises its peers: a match once and  *)
(* for all, READY before anything else, then the partner's text in order   *)
(* without a gap (in its own lines over a WebSocket), and nothing after    *)
(* the notice that it has left.                                            *)
THEOREM HubImplementsSession == Spec => SessionSpec
<1>1. Init => Session!Init
  BY SessionInit
<1>2. FlowInv /\ [Next]_vars => [Session!Next]_(Session!vars)
  <2> SUFFICES ASSUME FlowInv, [Next]_vars PROVE Session!Next \/ UNCHANGED Session!vars
    OBVIOUS
  <2>1. CASE UNCHANGED vars
    <3>1. UNCHANGED <<peer_a, peer_b, role, room, sent, view, pc>>
      BY <2>1 DEF vars, hubVars, peerVars
    <3>2. QED BY <3>1, SessionStutter DEF Over
  <2>2. ASSUME NEW p \in Peer, PeerStep(p) \/ TaskStep(p)
        PROVE  Session!Next \/ UNCHANGED Session!vars
    BY <2>2, StepIsSessionStep, HubAssumption
  <2>3. QED BY <2>1, <2>2 DEF Next
<1>3. QED BY <1>1, <1>2, FlowInvariant, PTL DEF Spec, SessionSpec, Session!Spec
=============================================================================
