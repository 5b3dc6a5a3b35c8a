---------------------------- MODULE AutoListener ----------------------------
(***************************************************************************)
(* AutoDetectListener under ServerBuilder::run: connections are accepted,  *)
(* looked at, and given to the signaling hub or to the application.        *)
(*                                                                         *)
(*   native  accept is one select! over new connections, each of which     *)
(*           gets a detection task that peeks at the first bytes, and the  *)
(*           channel through which the tasks report                        *)
(*   wasi    accept reads the first bytes itself, one connection after the *)
(*           other, and runs the hub for a peer before it goes on          *)
(*                                                                         *)
(* What a client sends first arrives in stages:                            *)
(*   0 nothing   1 less than detection looks at   2 enough to detect       *)
(*   3 the upgrade request (ws) or the message (tcp) is complete           *)
(*   4 the first message (ws)                                              *)
(***************************************************************************)
EXTENDS Integers, Sequences

CONSTANTS
  Conn,
  NoConn,
  Setups,        \* listener and server settings: records of Setup
  Clients,       \* who connects: connection -> Client
  channel_cap    \* capacity of the channel of detection results

Setup == [platform : {"native", "wasi"}, concurrent : BOOLEAN,
          signaling : BOOLEAN, allow_ws : BOOLEAN, allow_tcp : BOOLEAN]

Client == [proto : {"tcp", "ws"}, join : BOOLEAN]

ASSUME ListenerAssumption ==
  /\ NoConn \notin Conn
  /\ Setups \subseteq Setup /\ Clients \subseteq [Conn -> Client]
  /\ channel_cap \in Nat \ {0}

VARIABLES
  cfg,       \* the settings
  client,    \* connection -> its protocol, and whether it sends JOIN first
  stage,     \* connection -> how much has arrived
  alive,     \* connection -> the client is still there
  pc,        \* connection -> where its detection is
  owner,     \* connection -> who has the transport
  short,     \* connection -> detection saw less than it looks at
  late,      \* connection -> the wait for a first message timed out
  taken,     \* connection -> detection has consumed the first message
  replay,    \* connection -> its transport replays the first message
  partial,   \* connection -> the hub was given a part of the JOIN
  channel,   \* the detection results under way, oldest first
  server,    \* run: accepting, detecting (wasi), handling, ended
  current    \* the connection that run or accept is busy with

clientVars == <<client, stage, alive>>
noteVars   == <<short, late, taken, replay, partial>>
serverVars == <<channel, server, current>>
vars == <<cfg, clientVars, pc, owner, noteVars, serverVars>>

PcValues == {"backlog", "peek", "handshake", "first", "sigpeek", "joinread",
             "report app", "report none", "queued app", "queued none", "done"}

TypeOK ==
  /\ cfg \in Setups
  /\ client \in Clients
  /\ stage \in [Conn -> 0..4]
  /\ alive \in [Conn -> BOOLEAN] /\ short \in [Conn -> BOOLEAN]
  /\ late \in [Conn -> BOOLEAN] /\ taken \in [Conn -> BOOLEAN]
  /\ replay \in [Conn -> BOOLEAN] /\ partial \in [Conn -> BOOLEAN]
  /\ pc \in [Conn -> PcValues]
  /\ owner \in [Conn -> {"listener", "app", "hub", "closed"}]
  /\ channel \in Seq(Conn) /\ Len(channel) <= channel_cap
  /\ server \in {"accepting", "detecting", "handling", "ended"}
  /\ current \in Conn \cup {NoConn}

Init ==
  /\ cfg \in Setups
  /\ client \in Clients
  /\ stage = [c \in Conn |-> 0] /\ alive = [c \in Conn |-> TRUE]
  /\ pc = [c \in Conn |-> "backlog"]
  /\ owner = [c \in Conn |-> "listener"]
  /\ LET no == [c \in Conn |-> FALSE]
     IN short = no /\ late = no /\ taken = no /\ replay = no /\ partial = no
  /\ channel = <<>> /\ server = "accepting" /\ current = NoConn

-----------------------------------------------------------------------------
Native == cfg.platform = "native"
IsWs(c) == client[c].proto = "ws"
LastStage(c) == IF IsWs(c) THEN 4 ELSE 3
Set(f, c, v) == [f EXCEPT ![c] = v]
Goto(c, l) == pc' = Set(pc, c, l)

(* Nothing can be read, and nothing will be.  Of a client that has left,   *)
(* what had arrived may be lost as well (a reset).                         *)
Gone(c) == ~alive[c]

-----------------------------------------------------------------------------
(* Clients, until the application has the transport or it is closed. *)

Arrive(c) ==
  /\ alive[c] /\ stage[c] < LastStage(c) /\ owner[c] = "listener"
  /\ stage' = Set(stage, c, stage[c] + 1)
  /\ UNCHANGED <<cfg, client, alive, pc, owner, noteVars, serverVars>>

Leave(c) ==
  /\ alive[c] /\ owner[c] \in {"listener", "hub"}
  /\ alive' = Set(alive, c, FALSE)
  /\ UNCHANGED <<cfg, client, stage, pc, owner, noteVars, serverVars>>

-----------------------------------------------------------------------------
(* What detection decides.  A native task reports through the channel; on  *)
(* wasi accept returns the transport, or goes round its loop.              *)

ServeNext == IF cfg.concurrent THEN "accepting" ELSE "handling"

GiveToApp(c) ==
  /\ IF Native
     THEN Goto(c, "report app") /\ UNCHANGED <<owner, server, current>>
     ELSE /\ Goto(c, "done")
          /\ owner' = Set(owner, c, "app")
          /\ server' = ServeNext
          /\ current' = IF cfg.concurrent THEN NoConn ELSE c
  /\ UNCHANGED channel

Discard(c) ==
  /\ owner' = Set(owner, c, "closed")
  /\ IF Native THEN Goto(c, "report none") /\ UNCHANGED <<server, current>>
     ELSE Goto(c, "done") /\ server' = "accepting" /\ current' = NoConn
  /\ UNCHANGED channel

(* A native task spawns the hub's task; wasi runs handle_peer in accept.   *)
GiveToHub(c) ==
  /\ owner' = Set(owner, c, "hub")
  /\ Goto(c, IF Native THEN "report none" ELSE "done")
  /\ UNCHANGED serverVars

(* accept returns an error, and run with it: the listener is dropped, and  *)
(* with it the connections nobody has taken.                               *)
EndServer ==
  /\ server' = "ended" /\ current' = NoConn /\ channel' = <<>>
  /\ owner' = [c \in Conn |->
       IF owner[c] = "listener" /\ pc[c] \in {"backlog", "queued app"}
       THEN "closed" ELSE owner[c]]

(* wasi: an error of detection is an error of accept. *)
FailAccept(c) ==
  /\ server' = "ended" /\ current' = NoConn
  /\ owner' = [d \in Conn |->
       IF d = c \/ pc[d] = "backlog" THEN "closed" ELSE owner[d]]
  /\ Goto(c, "done")
  /\ UNCHANGED channel

-----------------------------------------------------------------------------
(* accept takes a new connection. *)

Accept_Inline(c) ==   \* mutant: detection is awaited before the next accept
  /\ server = "accepting" /\ pc[c] = "backlog"
  /\ \A d \in Conn : pc[d] \notin {"peek", "handshake", "first", "sigpeek", "joinread"}
  /\ Goto(c, "peek")
  /\ IF Native THEN UNCHANGED <<server, current>>
     ELSE server' = "detecting" /\ current' = c
  /\ UNCHANGED <<cfg, clientVars, owner, noteVars, channel>>

Accept(c) ==
  /\ server = "accepting" /\ pc[c] = "backlog"
  /\ Goto(c, "peek")
  /\ IF Native THEN UNCHANGED <<server, current>>
     ELSE server' = "detecting" /\ current' = c
  /\ UNCHANGED <<cfg, clientVars, owner, noteVars, channel>>

AcceptFails ==
  /\ server = "accepting"
  /\ EndServer
  /\ UNCHANGED <<cfg, clientVars, pc, noteVars>>

-----------------------------------------------------------------------------
(* Transport level: TCP or WebSocket. *)

LooksLikeWs(c) == IsWs(c) /\ stage[c] >= 2

Classify(c) ==
  IF LooksLikeWs(c)
  THEN IF cfg.allow_ws THEN Goto(c, "handshake") /\ UNCHANGED <<owner, serverVars>>
       ELSE Discard(c)
  ELSE IF ~cfg.allow_tcp THEN Discard(c)
  ELSE IF cfg.signaling THEN Goto(c, "sigpeek") /\ UNCHANGED <<owner, serverVars>>
  ELSE GiveToApp(c)

Peek_DropsShort(c) ==   \* mutant: fewer bytes than it asked for are no connection
  /\ pc[c] = "peek" /\ stage[c] > 0
  /\ short' = Set(short, c, Native /\ stage[c] < 2)
  /\ IF stage[c] < 2 THEN Discard(c) ELSE Classify(c)
  /\ UNCHANGED <<cfg, clientVars, late, taken, replay, partial>>

(* A native task looks at whatever has arrived; wasi reads until it has    *)
(* enough, or the client has closed.                                       *)
Peek(c) ==
  /\ pc[c] = "peek" /\ stage[c] > 0
  /\ Native \/ stage[c] >= 2 \/ Gone(c)
  /\ short' = Set(short, c, stage[c] < 2)
  /\ Classify(c)
  /\ UNCHANGED <<cfg, clientVars, late, taken, replay, partial>>

PeekNothing(c) ==
  /\ pc[c] = "peek" /\ Gone(c)
  /\ \/ Discard(c)
     \/ ~Native /\ FailAccept(c)
  /\ UNCHANGED <<cfg, clientVars, noteVars>>

Handshake(c) ==
  /\ pc[c] = "handshake" /\ stage[c] >= 3
  /\ IF cfg.signaling THEN Goto(c, "first") /\ UNCHANGED <<owner, serverVars>>
     ELSE GiveToApp(c)
  /\ UNCHANGED <<cfg, clientVars, noteVars>>

(* The wasi handshake does not wait: it fails when the request has not     *)
(* wholly arrived.                                                         *)
HandshakeFails(c) ==
  /\ pc[c] = "handshake"
  /\ Gone(c) \/ (~Native /\ stage[c] < 3)
  /\ IF Native THEN Discard(c) ELSE FailAccept(c)
  /\ UNCHANGED <<cfg, clientVars, noteVars>>

-----------------------------------------------------------------------------
(* Application level: a JOIN or not. *)

FirstMessage_NoReplay(c) ==   \* mutant: the first message is not replayed
  /\ pc[c] = "first" /\ stage[c] = 4
  /\ taken' = Set(taken, c, TRUE)
  /\ IF client[c].join THEN GiveToHub(c) ELSE GiveToApp(c)
  /\ UNCHANGED <<cfg, clientVars, short, late, replay, partial>>

FirstMessage(c) ==
  /\ pc[c] = "first" /\ stage[c] = 4
  /\ taken' = Set(taken, c, TRUE)
  /\ IF client[c].join THEN GiveToHub(c) /\ UNCHANGED replay
     ELSE GiveToApp(c) /\ replay' = Set(replay, c, TRUE)
  /\ UNCHANGED <<cfg, clientVars, short, late, partial>>

(* Five seconds without a message (native only). *)
FirstMessageTimeout(c) ==
  /\ pc[c] = "first" /\ Native /\ stage[c] < 4 /\ ~Gone(c)
  /\ late' = Set(late, c, TRUE)
  /\ GiveToApp(c)
  /\ UNCHANGED <<cfg, clientVars, short, taken, replay, partial>>

FirstMessageFails(c) ==
  /\ pc[c] = "first" /\ Gone(c)
  /\ Discard(c)
  /\ UNCHANGED <<cfg, clientVars, noteVars>>

(* tcp: five bytes are enough to know; a peek that fails counts as none.   *)
(* What wasi has read of another message is the transport's prefix.        *)
SigPeek(c) ==
  /\ pc[c] = "sigpeek"
  /\ \/ /\ ~IsWs(c) /\ client[c].join /\ stage[c] >= 2
        /\ Goto(c, "joinread") /\ UNCHANGED <<owner, serverVars>>
     \/ /\ IsWs(c) \/ ~client[c].join \/ stage[c] < 2 \/ (Native /\ Gone(c))
        /\ GiveToApp(c)
  /\ UNCHANGED <<cfg, clientVars, noteVars>>

(* The JOIN is whatever one more recv returns. *)
JoinRead(c) ==
  /\ pc[c] = "joinread"
  /\ taken' = Set(taken, c, TRUE)
  /\ partial' = Set(partial, c, stage[c] < 3)
  /\ GiveToHub(c)
  /\ UNCHANGED <<cfg, clientVars, short, late, replay>>

JoinReadFails(c) ==
  /\ pc[c] = "joinread" /\ Gone(c)
  /\ Discard(c)
  /\ UNCHANGED <<cfg, clientVars, noteVars>>

-----------------------------------------------------------------------------
(* The channel of results (native). *)

Report_Unbounded(c) ==   \* mutant: does not wait for room
  /\ pc[c] \in {"report app", "report none"} /\ server # "ended"
  /\ channel' = Append(channel, c)
  /\ Goto(c, IF pc[c] = "report app" THEN "queued app" ELSE "queued none")
  /\ UNCHANGED <<cfg, clientVars, owner, noteVars, server, current>>

Report(c) ==
  /\ pc[c] \in {"report app", "report none"} /\ server # "ended"
  /\ Len(channel) < channel_cap
  /\ channel' = Append(channel, c)
  /\ Goto(c, IF pc[c] = "report app" THEN "queued app" ELSE "queued none")
  /\ UNCHANGED <<cfg, clientVars, owner, noteVars, server, current>>

(* The receiver is gone: the result is dropped. *)
ReportNobody(c) ==
  /\ pc[c] \in {"report app", "report none"} /\ server = "ended"
  /\ owner' = IF pc[c] = "report app" THEN Set(owner, c, "closed") ELSE owner
  /\ Goto(c, "done")
  /\ UNCHANGED <<cfg, clientVars, noteVars, serverVars>>

(* accept returns the transport of a result, and skips the others. *)
TakeResult ==
  /\ server = "accepting" /\ channel # <<>>
  /\ channel' = Tail(channel)
  /\ LET c == Head(channel) IN
     /\ Goto(c, "done")
     /\ IF pc[c] = "queued app"
        THEN /\ owner' = Set(owner, c, "app")
             /\ server' = ServeNext
             /\ current' = IF cfg.concurrent THEN NoConn ELSE c
        ELSE UNCHANGED <<owner, server, current>>
  /\ UNCHANGED <<cfg, clientVars, noteVars>>

-----------------------------------------------------------------------------
(* Those who got the transport. *)

HandlerReturns ==
  /\ server = "handling"
  /\ server' = "accepting" /\ current' = NoConn
  /\ UNCHANGED <<cfg, clientVars, pc, owner, noteVars, channel>>

(* handle_peer returns for a JOIN it cannot parse, or once the peer left.  *)
HubReturns(c) ==
  /\ owner[c] = "hub" /\ (partial[c] \/ Gone(c))
  /\ owner' = Set(owner, c, "closed")
  /\ IF server = "detecting" /\ current = c
     THEN server' = "accepting" /\ current' = NoConn
     ELSE UNCHANGED <<server, current>>
  /\ UNCHANGED <<cfg, clientVars, pc, noteVars, channel>>

-----------------------------------------------------------------------------
Detection(c) ==
  \/ Peek(c) \/ PeekNothing(c) \/ Handshake(c) \/ HandshakeFails(c)
  \/ FirstMessage(c) \/ FirstMessageFails(c) \/ SigPeek(c)
  \/ JoinRead(c) \/ JoinReadFails(c) \/ Report(c) \/ ReportNobody(c)

Next ==
  \/ \E c \in Conn : \/ Arrive(c) \/ Leave(c) \/ Accept(c) \/ Detection(c)
                     \/ FirstMessageTimeout(c) \/ HubReturns(c)
  \/ AcceptFails \/ TakeResult \/ HandlerReturns

Spec == Init /\ [][Next]_vars

(* Fairness: detection tasks run, accept attends to both its sources, and  *)
(* the application's handler returns.  Nothing is assumed of clients.      *)
FairSpec ==
  /\ Spec
  /\ \A c \in Conn : WF_vars(Accept(c)) /\ WF_vars(Detection(c))
  /\ WF_vars(TakeResult) /\ WF_vars(HandlerReturns)

-----------------------------------------------------------------------------
(* Safety. *)

Allowed(c) == IF IsWs(c) THEN cfg.allow_ws ELSE cfg.allow_tcp

(* The hub gets peers that JOIN and no one else.  The application gets the *)
(* others with their first message, read or still to be read.  A JOIN      *)
(* "never reaches the application handler", says with_signaling; the code  *)
(* keeps that unless detection saw too little of it, it came after the     *)
(* five seconds, or the peer has left.                                     *)
RoutedByFirstMessage ==
  \A c \in Conn :
    /\ owner[c] = "hub" => cfg.signaling /\ client[c].join /\ taken[c]
    /\ owner[c] = "app" => /\ taken[c] = replay[c]
                           /\ ~client[c].join \/ ~cfg.signaling
                              \/ short[c] \/ late[c] \/ Gone(c)

(* A connection is closed without having been served only if its client    *)
(* left, its protocol is not allowed, the server has ended, or the first   *)
(* bytes or the JOIN were cut short by the network.                        *)
NobodyIsTurnedAway ==
  \A c \in Conn : owner[c] = "closed" =>
    \/ Gone(c) \/ ~Allowed(c) \/ server = "ended" \/ partial[c]
    \/ short[c] /\ IsWs(c) /\ ~cfg.allow_tcp

-----------------------------------------------------------------------------
(* Liveness. *)

(* A native client whose first message has arrived is routed, whatever     *)
(* other clients do or fail to do, unless accept itself fails.             *)
EveryTalkerIsRouted ==
  \A c \in Conn :
    (Native /\ stage[c] = LastStage(c)) ~> (owner[c] # "listener" \/ server = "ended")

=============================================================================
