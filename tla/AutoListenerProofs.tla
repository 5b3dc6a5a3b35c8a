-------------------------- MODULE AutoListenerProofs --------------------------
(* Proofs about AutoListener, for any set of connections, any settings and *)
(* clients, and any capacity of the channel of results.                    *)
EXTENDS AutoListener, TLAPS

USE DEF Goto, Set

(* Detection is looking at the connection.                                 *)
Detecting(c) ==
  pc[c] \in {"peek", "handshake", "first", "sigpeek", "joinread"}

(* What must hold of a connection that detection gives to the application. *)
AppMayHave(c) ==
  /\ taken[c] = replay[c]
  /\ ~client[c].join \/ ~cfg.signaling \/ short[c] \/ late[c] \/ Gone(c)

(* Where detection has got to tells what it knows: it is still fresh, a    *)
(* hub exists, the first bytes were those of a JOIN.                       *)
DetectionInv(c) ==
  /\ pc[c] = "backlog" \/ Detecting(c) => ~taken[c] /\ ~replay[c]
  /\ pc[c] = "backlog" => owner[c] = "listener" \/ server = "ended"
  /\ Detecting(c) \/ pc[c] = "report app" => owner[c] = "listener"
  /\ pc[c] \in {"first", "sigpeek", "joinread"} => cfg.signaling
  /\ pc[c] = "sigpeek" /\ (IsWs(c) \/ stage[c] < 2) => short[c]
  /\ pc[c] = "joinread" => client[c].join

(* On wasi accept is busy with the only connection that is detected; on    *)
(* native it never is.                                                     *)
ServerInv ==
  /\ server = "detecting" => ~Native
  /\ \A c \in Conn : ~Native /\ Detecting(c) => server = "detecting" /\ current = c
  /\ \A c \in Conn : ~Native => pc[c] \notin {"report app", "report none"}

Route(c) ==
  /\ DetectionInv(c)
  /\ pc[c] \in {"report app", "queued app"} \/ owner[c] = "app" => AppMayHave(c)
  /\ owner[c] = "hub" => cfg.signaling /\ client[c].join /\ taken[c]

RouteInv == \A c \in Conn : Route(c)

ListenerInv == TypeOK /\ ServerInv /\ RouteInv /\ NobodyIsTurnedAway

-----------------------------------------------------------------------------
LEMMA Settings ==
  ASSUME TypeOK
  PROVE  cfg \in Setup /\ \A c \in Conn : client[c] \in Client
  BY ListenerAssumption DEF TypeOK, ListenerAssumption

LEMMA InitListener == Init => ListenerInv
  BY ListenerAssumption
  DEF Init, ListenerInv, TypeOK, PcValues, ServerInv, RouteInv, Route, DetectionInv, Detecting,
      NobodyIsTurnedAway, ListenerAssumption

(* What happens to the channel: emptied, lengthened, shortened.            *)
LEMMA Channels ==
  ASSUME NEW S
  PROVE  /\ <<>> \in Seq(S) /\ Len(<<>>) = 0
         /\ \A s \in Seq(S) : Len(s) \in Nat
         /\ \A s \in Seq(S), x \in S :
              Append(s, x) \in Seq(S) /\ Len(Append(s, x)) = Len(s) + 1
         /\ \A s \in Seq(S) : s # <<>> =>
              Head(s) \in S /\ Tail(s) \in Seq(S) /\ Len(Tail(s)) = Len(s) - 1
  OBVIOUS

LEMMA StageMoves ==
  ASSUME TypeOK, NEW c \in Conn, Arrive(c)
  PROVE  stage' \in [Conn -> 0..4]
<1>1. stage \in [Conn -> 0..4] /\ stage[c] < LastStage(c)
  BY DEF TypeOK, Arrive
<1>2. LastStage(c) \in 0..4
  BY DEF LastStage
<1>3. stage' = [stage EXCEPT ![c] = stage[c] + 1]
  BY DEF Arrive
<1>4. stage[c] + 1 \in 0..4
  BY <1>1, <1>2
<1>5. QED BY <1>1, <1>3, <1>4

LEMMA ChannelMoves ==
  ASSUME TypeOK
  PROVE  /\ <<>> \in Seq(Conn) /\ Len(<<>>) <= channel_cap
         /\ \A c \in Conn : Report(c) =>
              channel' \in Seq(Conn) /\ Len(channel') <= channel_cap
         /\ TakeResult => /\ Head(channel) \in Conn
                         /\ channel' \in Seq(Conn) /\ Len(channel') <= channel_cap
<1>1. channel_cap \in Nat /\ channel \in Seq(Conn) /\ Len(channel) <= channel_cap
  BY ListenerAssumption DEF ListenerAssumption, TypeOK
<1>2. <<>> \in Seq(Conn) /\ Len(<<>>) <= channel_cap
  BY <1>1, Channels
<1>3. ASSUME NEW c \in Conn, Report(c)
      PROVE  channel' \in Seq(Conn) /\ Len(channel') <= channel_cap
  <2>1. channel' = Append(channel, c) /\ Len(channel) < channel_cap
    BY <1>3 DEF Report
  <2>2. QED BY <1>1, <2>1, Channels
<1>4. ASSUME TakeResult
      PROVE  /\ Head(channel) \in Conn
             /\ channel' \in Seq(Conn) /\ Len(channel') <= channel_cap
  <2>1. channel' = Tail(channel) /\ channel # <<>>
    BY <1>4 DEF TakeResult
  <2>2. QED BY <1>1, <2>1, Channels
<1>5. QED BY <1>2, <1>3, <1>4

LEMMA CutShort ==
  ASSUME NEW f \in [Conn -> BOOLEAN], NEW c \in Conn, NEW n
  PROVE  [f EXCEPT ![c] = stage[c] < n] \in [Conn -> BOOLEAN]
  OBVIOUS

(* Type correctness, one step per action. *)
LEMMA NextType == TypeOK /\ [Next]_vars => TypeOK'
<1> SUFFICES ASSUME TypeOK, [Next]_vars PROVE TypeOK'
  OBVIOUS
<1> USE DEF TypeOK, PcValues, clientVars, noteVars, serverVars
<1>a. ServeNext \in {"accepting", "handling"}
  BY DEF ServeNext
<1>b. ASSUME NEW c \in Conn, GiveToApp(c) \/ Discard(c) \/ GiveToHub(c)
      PROVE  /\ pc' \in [Conn -> PcValues]
             /\ owner' \in [Conn -> {"listener", "app", "hub", "closed"}]
             /\ channel' \in Seq(Conn) /\ Len(channel') <= channel_cap
             /\ server' \in {"accepting", "detecting", "handling", "ended"}
             /\ current' \in Conn \cup {NoConn}
  <2>1. CASE GiveToApp(c)
    BY <1>a, <2>1 DEF GiveToApp
  <2>2. CASE Discard(c)
    BY <2>2 DEF Discard
  <2>3. CASE GiveToHub(c)
    BY <2>3 DEF GiveToHub
  <2>4. QED BY <1>b, <2>1, <2>2, <2>3
<1>c. ASSUME NEW c \in Conn, FailAccept(c)
      PROVE  /\ pc' \in [Conn -> PcValues]
             /\ owner' \in [Conn -> {"listener", "app", "hub", "closed"}]
             /\ channel' = channel /\ server' = "ended" /\ current' = NoConn
  BY <1>c DEF FailAccept
<1>1. ASSUME NEW c \in Conn, Arrive(c) PROVE TypeOK'
  BY <1>1, StageMoves DEF Arrive
<1>2. ASSUME NEW c \in Conn, Leave(c) PROVE TypeOK'
  BY <1>2 DEF Leave
<1>3. ASSUME NEW c \in Conn, Accept(c) PROVE TypeOK'
  BY <1>3 DEF Accept
<1>4. ASSUME NEW c \in Conn, Peek(c) PROVE TypeOK'
  <2>1. /\ pc' \in [Conn -> PcValues]
        /\ owner' \in [Conn -> {"listener", "app", "hub", "closed"}]
        /\ channel' \in Seq(Conn) /\ Len(channel') <= channel_cap
        /\ server' \in {"accepting", "detecting", "handling", "ended"}
        /\ current' \in Conn \cup {NoConn}
    BY <1>4, <1>b DEF Peek, Classify
  <2>2. short' \in [Conn -> BOOLEAN]
    BY <1>4, CutShort DEF Peek
  <2>3. QED BY <1>4, <2>1, <2>2 DEF Peek
<1>5. ASSUME NEW c \in Conn, PeekNothing(c) PROVE TypeOK'
  BY <1>5, <1>b, <1>c DEF PeekNothing
<1>6. ASSUME NEW c \in Conn, Handshake(c) PROVE TypeOK'
  BY <1>6, <1>b DEF Handshake
<1>7. ASSUME NEW c \in Conn, HandshakeFails(c) PROVE TypeOK'
  BY <1>7, <1>b, <1>c DEF HandshakeFails
<1>8. ASSUME NEW c \in Conn, FirstMessage(c) PROVE TypeOK'
  BY <1>8, <1>b DEF FirstMessage
<1>9. ASSUME NEW c \in Conn, FirstMessageTimeout(c) PROVE TypeOK'
  BY <1>9, <1>b DEF FirstMessageTimeout
<1>10. ASSUME NEW c \in Conn, FirstMessageFails(c) PROVE TypeOK'
  BY <1>10, <1>b DEF FirstMessageFails
<1>11. ASSUME NEW c \in Conn, SigPeek(c) PROVE TypeOK'
  BY <1>11, <1>b DEF SigPeek
<1>12. ASSUME NEW c \in Conn, JoinRead(c) PROVE TypeOK'
  <2>1. taken' \in [Conn -> BOOLEAN] /\ partial' \in [Conn -> BOOLEAN]
    BY <1>12, CutShort DEF JoinRead
  <2>2. QED BY <1>12, <1>b, <2>1 DEF JoinRead
<1>13. ASSUME NEW c \in Conn, JoinReadFails(c) PROVE TypeOK'
  BY <1>13, <1>b DEF JoinReadFails
<1>14. ASSUME NEW c \in Conn, Report(c) PROVE TypeOK'
  <2>1. channel' \in Seq(Conn) /\ Len(channel') <= channel_cap
    BY <1>14, ChannelMoves
  <2>2. QED BY <1>14, <2>1 DEF Report
<1>15. ASSUME NEW c \in Conn, ReportNobody(c) PROVE TypeOK'
  BY <1>15 DEF ReportNobody
<1>16. ASSUME NEW c \in Conn, HubReturns(c) PROVE TypeOK'
  BY <1>16 DEF HubReturns
<1>17. ASSUME AcceptFails PROVE TypeOK'
  <2>1. channel' \in Seq(Conn) /\ Len(channel') <= channel_cap
    BY <1>17, ChannelMoves DEF AcceptFails, EndServer
  <2>2. QED BY <1>17, <2>1 DEF AcceptFails, EndServer
<1>18. ASSUME TakeResult PROVE TypeOK'
  <2>1. /\ Head(channel) \in Conn
        /\ channel' \in Seq(Conn) /\ Len(channel') <= channel_cap
    BY <1>18, ChannelMoves
  <2>2. QED BY <1>18, <1>a, <2>1 DEF TakeResult
<1>19. ASSUME HandlerReturns PROVE TypeOK'
  BY <1>19 DEF HandlerReturns
<1>20. CASE UNCHANGED vars
  BY <1>20 DEF vars
<1>21. QED
  BY <1>1, <1>2, <1>3, <1>4, <1>5, <1>6, <1>7, <1>8, <1>9, <1>10, <1>11, <1>12,
     <1>13, <1>14, <1>15, <1>16, <1>17, <1>18, <1>19, <1>20 DEF Next, Detection

-----------------------------------------------------------------------------
(* The variables as functions of the connection.                           *)
LEMMA Pointwise ==
  ASSUME TypeOK
  PROVE  /\ DOMAIN pc = Conn /\ DOMAIN owner = Conn /\ DOMAIN stage = Conn
         /\ DOMAIN alive = Conn /\ DOMAIN short = Conn /\ DOMAIN late = Conn
         /\ DOMAIN taken = Conn /\ DOMAIN replay = Conn /\ DOMAIN partial = Conn
         /\ \A c \in Conn : /\ stage[c] \in Int
                            /\ taken[c] \in BOOLEAN /\ replay[c] \in BOOLEAN
  BY DEF TypeOK

LEMMA ArrivesMore ==
  ASSUME TypeOK, NEW c \in Conn, NEW d \in Conn, Arrive(c)
  PROVE  stage'[d] < 2 => stage[d] < 2
<1>1. stage[d] \in Int /\ DOMAIN stage = Conn
  BY Pointwise
<1>2. stage' = [stage EXCEPT ![c] = stage[c] + 1]
  BY DEF Arrive
<1>3. stage'[d] = IF d = c THEN stage[d] + 1 ELSE stage[d]
  BY <1>1, <1>2
<1>4. QED BY <1>1, <1>3

LEMMA PeeksTooLittle ==
  ASSUME TypeOK, NEW c \in Conn, Peek(c)
  PROVE  /\ stage[c] < 2 => short'[c]
         /\ client[c].proto = "ws" /\ ~LooksLikeWs(c) => short'[c]
<1>1. stage[c] \in Int /\ DOMAIN short = Conn
  BY Pointwise
<1>2. short' = [short EXCEPT ![c] = stage[c] < 2]
  BY DEF Peek
<1>3. short'[c] <=> stage[c] < 2
  BY <1>1, <1>2
<1>4. QED BY <1>1, <1>3 DEF LooksLikeWs, IsWs

LEMMA ClassifyCloses ==
  ASSUME NEW c \in Conn, DOMAIN owner = Conn,
         Classify(c), owner'[c] # owner[c], owner'[c] # "app"
  PROVE  (LooksLikeWs(c) /\ ~cfg.allow_ws) \/ (~LooksLikeWs(c) /\ ~cfg.allow_tcp)
<1>1. ~GiveToApp(c) /\ ~(UNCHANGED <<owner, serverVars>>)
  BY DEF GiveToApp
<1>2. ~(LooksLikeWs(c) /\ cfg.allow_ws)
  BY <1>1 DEF Classify
<1>3. ~(~LooksLikeWs(c) /\ cfg.allow_tcp)
  BY <1>1 DEF Classify
<1>4. QED BY <1>2, <1>3

LEMMA NextServer == ListenerInv /\ [Next]_vars => ServerInv'
<1> SUFFICES ASSUME TypeOK, ServerInv, RouteInv, [Next]_vars PROVE ServerInv'
  BY DEF ListenerInv
<1> USE Pointwise DEF ServerInv, Detecting, Native, clientVars, noteVars, serverVars
<1>a. ASSUME NEW c \in Conn, Detecting(c), cfg' = cfg,
             GiveToApp(c) \/ Discard(c) \/ GiveToHub(c)
      PROVE  ServerInv'
  BY <1>a, ZenonT(40) DEF GiveToApp, Discard, GiveToHub, ServeNext
<1>b. ASSUME NEW c \in Conn, Detecting(c), cfg' = cfg, FailAccept(c), ~Native
      PROVE  ServerInv'
  BY <1>b DEF FailAccept
<1>c. ASSUME NEW c \in Conn, Detecting(c), cfg' = cfg, UNCHANGED serverVars,
             NEW l \in {"handshake", "first", "sigpeek", "joinread"}, Goto(c, l)
      PROVE  ServerInv'
  BY <1>c
<1>1. ASSUME NEW c \in Conn, Arrive(c) \/ Leave(c) PROVE ServerInv'
  BY <1>1 DEF Arrive, Leave
<1>2. ASSUME NEW c \in Conn, Accept(c) PROVE ServerInv'
  BY <1>2 DEF Accept
<1>3. ASSUME NEW c \in Conn, Peek(c) PROVE ServerInv'
  BY <1>3, <1>a, <1>c DEF Peek, Classify
<1>4. ASSUME NEW c \in Conn, PeekNothing(c) PROVE ServerInv'
  BY <1>4, <1>a, <1>b DEF PeekNothing
<1>5. ASSUME NEW c \in Conn, Handshake(c) PROVE ServerInv'
  BY <1>5, <1>a, <1>c DEF Handshake
<1>6. ASSUME NEW c \in Conn, HandshakeFails(c) PROVE ServerInv'
  BY <1>6, <1>a, <1>b DEF HandshakeFails
<1>7. ASSUME NEW c \in Conn, FirstMessage(c) PROVE ServerInv'
  BY <1>7, <1>a DEF FirstMessage
<1>8. ASSUME NEW c \in Conn, FirstMessageTimeout(c) PROVE ServerInv'
  BY <1>8, <1>a DEF FirstMessageTimeout
<1>9. ASSUME NEW c \in Conn, FirstMessageFails(c) PROVE ServerInv'
  BY <1>9, <1>a DEF FirstMessageFails
<1>10. ASSUME NEW c \in Conn, SigPeek(c) PROVE ServerInv'
  BY <1>10, <1>a, <1>c DEF SigPeek
<1>11. ASSUME NEW c \in Conn, JoinRead(c) PROVE ServerInv'
  BY <1>11, <1>a DEF JoinRead
<1>12. ASSUME NEW c \in Conn, JoinReadFails(c) PROVE ServerInv'
  BY <1>12, <1>a DEF JoinReadFails
<1>13. ASSUME NEW c \in Conn, Report(c) \/ ReportNobody(c) PROVE ServerInv'
  BY <1>13 DEF Report, ReportNobody
<1>14. ASSUME NEW c \in Conn, HubReturns(c) PROVE ServerInv'
  BY <1>14 DEF HubReturns, RouteInv, Route, DetectionInv
<1>15. ASSUME AcceptFails PROVE ServerInv'
  BY <1>15 DEF AcceptFails, EndServer
<1>16. ASSUME TakeResult PROVE ServerInv'
  BY <1>16, ChannelMoves DEF TakeResult, ServeNext
<1>17. ASSUME HandlerReturns PROVE ServerInv'
  BY <1>17 DEF HandlerReturns
<1>18. CASE UNCHANGED vars
  BY <1>18 DEF vars
<1>19. QED
  BY <1>1, <1>2, <1>3, <1>4, <1>5, <1>6, <1>7, <1>8, <1>9, <1>10, <1>11, <1>12,
     <1>13, <1>14, <1>15, <1>16, <1>17, <1>18 DEF Next, Detection

(* What detection notes of one connection does not touch the others.       *)
NotesKept(c) ==
  \A d \in Conn \ {c} :
    /\ short'[d] = short[d] /\ late'[d] = late[d] /\ taken'[d] = taken[d]
    /\ replay'[d] = replay[d] /\ partial'[d] = partial[d]

LEMMA NextRoute == ListenerInv /\ [Next]_vars => RouteInv'
<1> SUFFICES ASSUME TypeOK, ServerInv, RouteInv, [Next]_vars PROVE RouteInv'
  BY DEF ListenerInv
<1> DEFINE Still(c) == Detecting(c) /\ UNCHANGED <<cfg, clientVars>> /\ NotesKept(c)
<1> USE Pointwise DEF ServerInv, Native
<1>r. ASSUME NEW c \in Conn, Detecting(c) PROVE DetectionInv(c) /\ owner[c] = "listener"
  BY <1>r DEF RouteInv, Route, DetectionInv
<1>o. ASSUME NEW c \in Conn, Still(c),
             server' = server \/ server = "detecting",
             \A d \in Conn \ {c} :
               /\ pc'[d] = pc[d]
               /\ \/ owner'[d] = owner[d]
                  \/ pc[d] = "backlog" /\ owner'[d] = "closed" /\ server' = "ended"
      PROVE  \A d \in Conn \ {c} : Route(d)'
  <2> SUFFICES ASSUME NEW d \in Conn \ {c} PROVE Route(d)'
    OBVIOUS
  <2>1. Route(d) /\ pc'[d] = pc[d]
    BY <1>o DEF RouteInv
  <2>2. Detecting(d)' = Detecting(d)
    BY <2>1 DEF Detecting
  <2>3. AppMayHave(d)' = AppMayHave(d)
    BY <1>o DEF NotesKept, AppMayHave, Gone, clientVars
  <2>4. DetectionInv(d)'
    BY <2>1, <2>2, <1>o DEF Route, DetectionInv, NotesKept, IsWs, Detecting, clientVars
  <2>5. QED
    BY <2>1, <2>3, <2>4, <1>o DEF Route, NotesKept, clientVars
<1>a. ASSUME NEW c \in Conn, Still(c), GiveToApp(c), AppMayHave(c)'
      PROVE  RouteInv'
  <2>1. Route(c)'
    BY <1>a, <1>r, ZenonT(40) DEF GiveToApp, Route, DetectionInv, Detecting
  <2>2. \A d \in Conn \ {c} : Route(d)'
    BY <1>a, <1>o DEF GiveToApp
  <2>3. QED BY <2>1, <2>2 DEF RouteInv
<1>b. ASSUME NEW c \in Conn, Still(c), Discard(c)
      PROVE  RouteInv'
  <2>1. Route(c)'
    BY <1>b DEF Discard, Route, DetectionInv, Detecting
  <2>2. \A d \in Conn \ {c} : Route(d)'
    BY <1>b, <1>o DEF Discard
  <2>3. QED BY <2>1, <2>2 DEF RouteInv
<1>c. ASSUME NEW c \in Conn, Still(c), GiveToHub(c),
             cfg.signaling, client[c].join, taken'[c]
      PROVE  RouteInv'
  <2>1. Route(c)'
    BY <1>c DEF GiveToHub, Route, DetectionInv, Detecting, clientVars
  <2>2. \A d \in Conn \ {c} : Route(d)'
    BY <1>c, <1>o DEF GiveToHub, serverVars
  <2>3. QED BY <2>1, <2>2 DEF RouteInv
<1>d. ASSUME NEW c \in Conn, Still(c), FailAccept(c), ~Native
      PROVE  RouteInv'
  <2>1. Route(c)'
    BY <1>d DEF FailAccept, Route, DetectionInv, Detecting
  <2>2. \A d \in Conn \ {c} : Route(d)'
    BY <1>d, <1>o DEF FailAccept
  <2>3. QED BY <2>1, <2>2 DEF RouteInv
<1>e. ASSUME NEW c \in Conn, Still(c), UNCHANGED <<owner, taken, replay, serverVars>>,
             NEW l \in {"handshake", "first", "sigpeek", "joinread"}, Goto(c, l),
             l # "handshake" => cfg.signaling,
             l = "sigpeek" /\ (IsWs(c) \/ stage[c] < 2) => short'[c],
             l = "joinread" => client[c].join
      PROVE  RouteInv'
  <2>1. Route(c)'
    BY <1>e, <1>r DEF Route, DetectionInv, Detecting, IsWs, clientVars, serverVars
  <2>2. \A d \in Conn \ {c} : Route(d)'
    BY <1>e, <1>o DEF serverVars
  <2>3. QED BY <2>1, <2>2 DEF RouteInv
<1>s. ASSUME NEW c \in Conn, Detecting(c), UNCHANGED <<cfg, clientVars, noteVars>>
      PROVE  Still(c)
  BY <1>s DEF NotesKept, noteVars
<1>1. ASSUME NEW c \in Conn, Arrive(c) PROVE RouteInv'
  <2>1. UNCHANGED <<cfg, client, alive, pc, owner, noteVars, serverVars>>
    BY <1>1 DEF Arrive
  <2> SUFFICES ASSUME NEW d \in Conn PROVE Route(d)'
    BY DEF RouteInv
  <2>2. stage'[d] < 2 => stage[d] < 2
    BY <1>1, ArrivesMore
  <2>3. AppMayHave(d)' = AppMayHave(d) /\ Detecting(d)' = Detecting(d)
    BY <2>1 DEF AppMayHave, Gone, Detecting, noteVars
  <2>4. DetectionInv(d)'
    BY <2>1, <2>2, <2>3 DEF RouteInv, Route, DetectionInv, IsWs, noteVars, serverVars
  <2>5. QED
    BY <2>1, <2>3, <2>4 DEF RouteInv, Route, noteVars
<1>2. ASSUME NEW c \in Conn, Leave(c) PROVE RouteInv'
  BY <1>2 DEF Leave, RouteInv, Route, DetectionInv, AppMayHave, Detecting, Gone, IsWs,
              noteVars, serverVars
<1>3. ASSUME NEW c \in Conn, Accept(c) PROVE RouteInv'
  BY <1>3, ZenonT(40) DEF Accept, RouteInv, Route, DetectionInv, AppMayHave, Detecting, Gone, IsWs,
              clientVars, noteVars
<1>4. ASSUME NEW c \in Conn, Peek(c) PROVE RouteInv'
  <2>1. Detecting(c) /\ Still(c) /\ UNCHANGED <<taken, replay>> /\ (stage[c] < 2 => short'[c])
    BY <1>4 DEF Peek, Detecting, NotesKept
  <2>2. CASE cfg.signaling /\ Goto(c, "sigpeek") /\ UNCHANGED <<owner, serverVars>>
             /\ ~LooksLikeWs(c)
    <3>1. IsWs(c) \/ stage[c] < 2 => short'[c]
      BY <1>4, <2>2, PeeksTooLittle DEF IsWs
    <3>2. QED BY <2>1, <2>2, <3>1, <1>e
  <2>3. CASE Goto(c, "handshake") /\ UNCHANGED <<owner, serverVars>>
    BY <2>1, <2>3, <1>e
  <2>4. CASE Discard(c)
    BY <2>1, <2>4, <1>b
  <2>5. CASE GiveToApp(c) /\ ~cfg.signaling
    BY <2>1, <2>5, <1>a, <1>r DEF AppMayHave, DetectionInv
  <2>6. QED BY <1>4, <2>2, <2>3, <2>4, <2>5 DEF Peek, Classify
<1>5. ASSUME NEW c \in Conn, PeekNothing(c) PROVE RouteInv'
  BY <1>5, <1>s, <1>b, <1>d DEF PeekNothing, Detecting
<1>6. ASSUME NEW c \in Conn, Handshake(c) PROVE RouteInv'
  <2>1. Still(c) /\ UNCHANGED <<taken, replay>> /\ Detecting(c)
    BY <1>6, <1>s DEF Handshake, Detecting, noteVars
  <2>2. CASE GiveToApp(c) /\ ~cfg.signaling
    BY <2>1, <2>2, <1>a, <1>r DEF AppMayHave, DetectionInv
  <2>3. CASE cfg.signaling /\ Goto(c, "first") /\ UNCHANGED <<owner, serverVars>>
    BY <2>1, <2>3, <1>e
  <2>4. QED BY <1>6, <2>2, <2>3 DEF Handshake
<1>7. ASSUME NEW c \in Conn, HandshakeFails(c) PROVE RouteInv'
  BY <1>7, <1>s, <1>b, <1>d DEF HandshakeFails, Detecting
<1>8. ASSUME NEW c \in Conn, FirstMessage(c) PROVE RouteInv'
  <2>1. Still(c) /\ taken'[c] /\ Detecting(c) /\ cfg.signaling
    BY <1>8, <1>r DEF FirstMessage, Detecting, NotesKept, DetectionInv
  <2>2. CASE client[c].join /\ GiveToHub(c)
    BY <2>1, <2>2, <1>c
  <2>3. CASE ~client[c].join /\ GiveToApp(c) /\ replay' = [replay EXCEPT ![c] = TRUE]
    BY <2>1, <2>3, <1>a, <1>8 DEF AppMayHave, FirstMessage, clientVars
  <2>4. QED BY <1>8, <2>2, <2>3 DEF FirstMessage
<1>9. ASSUME NEW c \in Conn, FirstMessageTimeout(c) PROVE RouteInv'
  <2>1. Still(c) /\ late'[c] /\ UNCHANGED <<taken, replay>> /\ Detecting(c) /\ GiveToApp(c)
    BY <1>9 DEF FirstMessageTimeout, Detecting, NotesKept
  <2>2. AppMayHave(c)'
    BY <2>1, <1>r DEF AppMayHave, DetectionInv
  <2>3. QED BY <2>1, <2>2, <1>a
<1>10. ASSUME NEW c \in Conn, FirstMessageFails(c) PROVE RouteInv'
  BY <1>10, <1>s, <1>b DEF FirstMessageFails, Detecting
<1>11. ASSUME NEW c \in Conn, SigPeek(c) PROVE RouteInv'
  <2>1. Still(c) /\ UNCHANGED <<taken, replay, short>> /\ pc[c] = "sigpeek" /\ Detecting(c)
    BY <1>11, <1>s DEF SigPeek, Detecting, noteVars
  <2>2. CASE client[c].join /\ Goto(c, "joinread") /\ UNCHANGED <<owner, serverVars>>
    BY <2>1, <2>2, <1>e, <1>r DEF DetectionInv
  <2>3. CASE /\ IsWs(c) \/ ~client[c].join \/ stage[c] < 2 \/ (Native /\ Gone(c))
             /\ GiveToApp(c)
    <3>1. AppMayHave(c)'
      BY <2>1, <2>3, <1>r DEF AppMayHave, DetectionInv, Gone, clientVars
    <3>2. QED BY <2>1, <2>3, <3>1, <1>a
  <2>4. QED BY <1>11, <2>2, <2>3 DEF SigPeek
<1>12. ASSUME NEW c \in Conn, JoinRead(c) PROVE RouteInv'
  <2>1. Still(c) /\ taken'[c] /\ GiveToHub(c)
    BY <1>12 DEF JoinRead, Detecting, NotesKept
  <2>2. cfg.signaling /\ client[c].join
    BY <1>12, <1>r DEF JoinRead, Detecting, DetectionInv
  <2>3. QED BY <2>1, <2>2, <1>c
<1>13. ASSUME NEW c \in Conn, JoinReadFails(c) PROVE RouteInv'
  BY <1>13, <1>s, <1>b DEF JoinReadFails, Detecting
<1>14. ASSUME NEW c \in Conn, Report(c) PROVE RouteInv'
  BY <1>14, ZenonT(40) DEF Report, RouteInv, Route, DetectionInv, AppMayHave, Detecting, Gone, IsWs,
               clientVars, noteVars
<1>15. ASSUME NEW c \in Conn, ReportNobody(c) PROVE RouteInv'
  BY <1>15, ZenonT(40) DEF ReportNobody, RouteInv, Route, DetectionInv, AppMayHave, Detecting, Gone,
               IsWs, clientVars, noteVars, serverVars
<1>16. ASSUME NEW c \in Conn, HubReturns(c) PROVE RouteInv'
  BY <1>16 DEF HubReturns, RouteInv, Route, DetectionInv, AppMayHave, Detecting, Gone,
               IsWs, clientVars, noteVars
<1>17. ASSUME AcceptFails PROVE RouteInv'
  BY <1>17 DEF AcceptFails, EndServer, RouteInv, Route, DetectionInv, AppMayHave, Detecting,
               Gone, IsWs, clientVars, noteVars
<1>18. ASSUME TakeResult PROVE RouteInv'
  <2> DEFINE c == Head(channel)
  <2>1. c \in Conn
    BY <1>18, ChannelMoves
  <2>2. UNCHANGED <<cfg, clientVars, noteVars>> /\ server = "accepting" /\ Goto(c, "done")
        /\ IF pc[c] = "queued app" THEN owner' = [owner EXCEPT ![c] = "app"]
                                        /\ server' = ServeNext
           ELSE UNCHANGED <<owner, server, current>>
    BY <1>18 DEF TakeResult
  <2> HIDE DEF c
  <2> SUFFICES ASSUME NEW d \in Conn PROVE Route(d)'
    BY DEF RouteInv
  <2>3. AppMayHave(d)' = AppMayHave(d)
    BY <2>2 DEF AppMayHave, Gone, clientVars, noteVars
  <2>4. CASE d = c
    BY <2>1, <2>2, <2>3, <2>4
    DEF RouteInv, Route, DetectionInv, Detecting, clientVars, noteVars
  <2>5. CASE d # c
    <3>1. pc'[d] = pc[d] /\ owner'[d] = owner[d]
      BY <2>1, <2>2, <2>5
    <3>2. DetectionInv(d)'
      <4>1. pc[d] = "backlog" => owner[d] = "listener"
        BY <2>2 DEF RouteInv, Route, DetectionInv
      <4>2. QED
        BY <2>2, <3>1, <4>1
        DEF RouteInv, Route, DetectionInv, Detecting, IsWs, clientVars, noteVars
    <3>3. QED BY <2>2, <2>3, <3>1, <3>2 DEF RouteInv, Route, clientVars, noteVars
  <2>6. QED BY <2>4, <2>5
<1>19. ASSUME HandlerReturns PROVE RouteInv'
  BY <1>19 DEF HandlerReturns, RouteInv, Route, DetectionInv, AppMayHave, Detecting, Gone,
               IsWs, clientVars, noteVars
<1>20. CASE UNCHANGED vars
  BY <1>20 DEF vars, RouteInv, Route, DetectionInv, AppMayHave, Detecting, Gone, IsWs,
               clientVars, noteVars, serverVars
<1>21. QED
  BY <1>1, <1>2, <1>3, <1>4, <1>5, <1>6, <1>7, <1>8, <1>9, <1>10, <1>11, <1>12, <1>13,
     <1>14, <1>15, <1>16, <1>17, <1>18, <1>19, <1>20 DEF Next, Detection

LEMMA NextNobody == ListenerInv /\ [Next]_vars => NobodyIsTurnedAway'
<1> SUFFICES ASSUME TypeOK, ServerInv, RouteInv, NobodyIsTurnedAway, [Next]_vars
             PROVE  NobodyIsTurnedAway'
  BY DEF ListenerInv
<1> USE Pointwise DEF NobodyIsTurnedAway, ServerInv, RouteInv, Route, DetectionInv, Detecting,
                      Allowed, Native, Gone, IsWs, clientVars, noteVars, serverVars
<1>1. ASSUME NEW c \in Conn, Arrive(c) \/ Leave(c) PROVE NobodyIsTurnedAway'
  BY <1>1, ZenonT(40) DEF Arrive, Leave
<1>2. ASSUME NEW c \in Conn, Accept(c) PROVE NobodyIsTurnedAway'
  BY <1>2 DEF Accept, GiveToApp, GiveToHub, Discard, FailAccept
<1>3. ASSUME NEW c \in Conn, Peek(c) PROVE NobodyIsTurnedAway'
  <2>1. pc[c] = "peek" /\ owner[c] = "listener" /\ short' = [short EXCEPT ![c] = stage[c] < 2]
        /\ UNCHANGED <<cfg, clientVars, late, taken, replay, partial>>
    BY <1>3 DEF Peek
  <2> SUFFICES ASSUME NEW d \in Conn, owner'[d] = "closed"
               PROVE  \/ Gone(d) \/ ~Allowed(d) \/ server' = "ended" \/ partial[d]
                      \/ short'[d] /\ IsWs(d) /\ ~cfg.allow_tcp
    BY <2>1
  <2>3. CASE d = c
    <3>1. (LooksLikeWs(c) /\ ~cfg.allow_ws) \/ (~LooksLikeWs(c) /\ ~cfg.allow_tcp)
      <4>1. Classify(c) /\ owner'[c] # owner[c] /\ owner'[c] # "app"
        BY <1>3, <2>1, <2>3 DEF Peek
      <4>2. DOMAIN owner = Conn
        BY Pointwise
      <4>3. QED BY <4>1, <4>2, ClassifyCloses
    <3>2. CASE LooksLikeWs(c)
      <4>1. client[c].proto = "ws" /\ ~cfg.allow_ws
        <5>1. LooksLikeWs(c) => client[c].proto = "ws"
          BY DEF LooksLikeWs
        <5>2. QED BY <3>1, <3>2, <5>1
      <4>2. QED BY <2>3, <4>1
    <3>3. CASE ~LooksLikeWs(c)
      <4>1. client[c].proto = "ws" => short'[c]
        BY <1>3, <3>3, PeeksTooLittle
      <4>2. QED BY <2>3, <3>1, <3>3, <4>1
    <3>4. QED BY <3>2, <3>3
  <2>4. CASE d # c
    <3>1. owner[d] = "closed" /\ short'[d] = short[d]
      BY <1>3, <2>1, <2>4 DEF Peek, Classify, GiveToApp, Discard
    <3>2. server = "ended" => server' = "ended"
      BY <1>3, <2>1 DEF Peek, Classify, GiveToApp, Discard
    <3>3. QED BY <3>1, <3>2
  <2>5. QED BY <2>3, <2>4
<1>4. ASSUME NEW c \in Conn, PeekNothing(c) PROVE NobodyIsTurnedAway'
  BY <1>4 DEF PeekNothing, GiveToApp, GiveToHub, Discard, FailAccept
<1>5. ASSUME NEW c \in Conn, Handshake(c) PROVE NobodyIsTurnedAway'
  BY <1>5 DEF Handshake, GiveToApp, GiveToHub, Discard, FailAccept
<1>6. ASSUME NEW c \in Conn, HandshakeFails(c) PROVE NobodyIsTurnedAway'
  BY <1>6 DEF HandshakeFails, GiveToApp, GiveToHub, Discard, FailAccept
<1>7. ASSUME NEW c \in Conn, FirstMessage(c) PROVE NobodyIsTurnedAway'
  <2>1. GiveToHub(c) \/ GiveToApp(c)
    BY <1>7 DEF FirstMessage
  <2>2. pc[c] = "first" /\ UNCHANGED <<cfg, clientVars, short, partial>>
    BY <1>7 DEF FirstMessage
  <2>3. QED BY <2>1, <2>2, ZenonT(40) DEF GiveToApp, GiveToHub
<1>8. ASSUME NEW c \in Conn, FirstMessageTimeout(c) PROVE NobodyIsTurnedAway'
  BY <1>8 DEF FirstMessageTimeout, GiveToApp, GiveToHub, Discard, FailAccept
<1>9. ASSUME NEW c \in Conn, FirstMessageFails(c) PROVE NobodyIsTurnedAway'
  BY <1>9 DEF FirstMessageFails, GiveToApp, GiveToHub, Discard, FailAccept
<1>10. ASSUME NEW c \in Conn, SigPeek(c) PROVE NobodyIsTurnedAway'
  BY <1>10 DEF SigPeek, GiveToApp, GiveToHub, Discard, FailAccept
<1>11. ASSUME NEW c \in Conn, JoinRead(c) PROVE NobodyIsTurnedAway'
  BY <1>11 DEF JoinRead, GiveToApp, GiveToHub, Discard, FailAccept
<1>12. ASSUME NEW c \in Conn, JoinReadFails(c) PROVE NobodyIsTurnedAway'
  BY <1>12 DEF JoinReadFails, GiveToApp, GiveToHub, Discard, FailAccept
<1>13. ASSUME NEW c \in Conn, Report(c) PROVE NobodyIsTurnedAway'
  BY <1>13 DEF Report, GiveToApp, GiveToHub, Discard, FailAccept
<1>14. ASSUME NEW c \in Conn, ReportNobody(c) PROVE NobodyIsTurnedAway'
  BY <1>14 DEF ReportNobody, GiveToApp, GiveToHub, Discard, FailAccept
<1>15. ASSUME NEW c \in Conn, HubReturns(c) PROVE NobodyIsTurnedAway'
  BY <1>15 DEF HubReturns, GiveToApp, GiveToHub, Discard, FailAccept
<1>16. ASSUME AcceptFails PROVE NobodyIsTurnedAway'
  BY <1>16 DEF AcceptFails, EndServer
<1>17. ASSUME TakeResult PROVE NobodyIsTurnedAway'
  BY <1>17, ChannelMoves DEF TakeResult
<1>18. ASSUME HandlerReturns PROVE NobodyIsTurnedAway'
  BY <1>18 DEF HandlerReturns
<1>19. CASE UNCHANGED vars
  BY <1>19 DEF vars
<1>20. QED
  BY <1>1, <1>2, <1>3, <1>4, <1>5, <1>6, <1>7, <1>8, <1>9,
     <1>10, <1>11, <1>12, <1>13, <1>14, <1>15, <1>16, <1>17, <1>18, <1>19 DEF Next, Detection

-----------------------------------------------------------------------------
LEMMA Inductive == Spec => []ListenerInv
<1>1. Init => ListenerInv
  BY InitListener
<1>2. ListenerInv /\ [Next]_vars => ListenerInv'
  BY NextType, NextServer, NextRoute, NextNobody DEF ListenerInv
<1>3. QED BY <1>1, <1>2, PTL DEF Spec

(* Every variable of the listener keeps its type, and the channel of       *)
(* detection results never holds more than its capacity.                   *)
THEOREM ListenerTypeCorrect == Spec => []TypeOK
<1>1. ListenerInv => TypeOK
  BY DEF ListenerInv
<1>2. QED BY <1>1, Inductive, PTL

(* detect_and_route: the hub is given peers that sent a JOIN and nobody    *)
(* else; what the application is given has its first message, and is no    *)
(* JOIN unless detection was cut short or late, or the peer is gone.       *)
THEOREM RoutedCorrectly == Spec => []RoutedByFirstMessage
<1>1. ListenerInv => RoutedByFirstMessage
  BY DEF ListenerInv, RouteInv, Route, AppMayHave, RoutedByFirstMessage
<1>2. QED BY <1>1, Inductive, PTL

(* accept: no connection is closed unserved without one of the reasons the *)
(* code has for it.                                                        *)
THEOREM NoneTurnedAway == Spec => []NobodyIsTurnedAway
<1>1. ListenerInv => NobodyIsTurnedAway
  BY DEF ListenerInv
<1>2. QED BY <1>1, Inductive, PTL
=============================================================================
