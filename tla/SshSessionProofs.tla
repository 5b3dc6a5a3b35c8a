--------------------------- MODULE SshSessionProofs ---------------------------
(* Proofs about SshSession, for any connections and channels, any requests *)
(* and messages, and any bounds of the two queues.                         *)
EXTENDS SshSession, SequenceTheorems, FiniteSetTheorems, TLAPS

-----------------------------------------------------------------------------
(* Sequences: membership, and being in the order of another sequence.      *)

LEMMA SeqFacts ==
  ASSUME NEW S
  PROVE  /\ <<>> \in Seq(S) /\ ToSet(<<>>) = {}
         /\ \A s \in Seq(S) : DOMAIN s = 1..Len(s) /\ Len(s) \in Nat
         /\ \A s \in Seq(S), x \in S :
              /\ Append(s, x) \in Seq(S) /\ Len(Append(s, x)) = Len(s) + 1
              /\ Append(s, x)[Len(s) + 1] = x
              /\ \A i \in 1..Len(s) : Append(s, x)[i] = s[i]
         /\ \A s \in Seq(S) : s # <<>> =>
              /\ Head(s) = s[1] /\ Head(s) \in S /\ Len(s) >= 1
              /\ Tail(s) \in Seq(S) /\ Len(Tail(s)) = Len(s) - 1
              /\ \A i \in 1..(Len(s) - 1) : Tail(s)[i] = s[i + 1]
<1>1. <<>> \in Seq(S) /\ ToSet(<<>>) = {}
  BY DEF ToSet
<1>2. \A s \in Seq(S) : DOMAIN s = 1..Len(s) /\ Len(s) \in Nat
  OBVIOUS
<1>3. ASSUME NEW s \in Seq(S), NEW x \in S
      PROVE  /\ Append(s, x) \in Seq(S) /\ Len(Append(s, x)) = Len(s) + 1
             /\ Append(s, x)[Len(s) + 1] = x
             /\ \A i \in 1..Len(s) : Append(s, x)[i] = s[i]
  OBVIOUS
<1>4. ASSUME NEW s \in Seq(S), s # <<>>
      PROVE  /\ Head(s) = s[1] /\ Head(s) \in S /\ Len(s) >= 1
             /\ Tail(s) \in Seq(S) /\ Len(Tail(s)) = Len(s) - 1
             /\ \A i \in 1..(Len(s) - 1) : Tail(s)[i] = s[i + 1]
  <2>1. Head(s) = s[1] /\ Len(s) >= 1
    BY <1>4
  <2>2. QED BY <1>4, <2>1, HeadTailProperties
<1>5. QED BY <1>1, <1>2, <1>3, <1>4

LEMMA MembersOfAppend ==
  ASSUME NEW S, NEW s \in Seq(S), NEW x \in S
  PROVE  ToSet(Append(s, x)) = ToSet(s) \cup {x}
<1>1. DOMAIN s = 1..Len(s) /\ DOMAIN Append(s, x) = 1..(Len(s) + 1) /\ Len(s) \in Nat
  BY SeqFacts
<1>2. \A i \in 1..Len(s) : Append(s, x)[i] = s[i]
  BY SeqFacts
<1>3. Append(s, x)[Len(s) + 1] = x
  BY SeqFacts
<1>4. \A y \in ToSet(Append(s, x)) : y \in ToSet(s) \cup {x}
  BY <1>1, <1>2, <1>3 DEF ToSet
<1>5. \A y \in ToSet(s) \cup {x} : y \in ToSet(Append(s, x))
  BY <1>1, <1>2, <1>3 DEF ToSet
<1>6. QED BY <1>4, <1>5

LEMMA MembersOfTail ==
  ASSUME NEW S, NEW s \in Seq(S), s # <<>>
  PROVE  ToSet(s) = {Head(s)} \cup ToSet(Tail(s))
<1>1. /\ DOMAIN s = 1..Len(s) /\ DOMAIN Tail(s) = 1..(Len(s) - 1)
      /\ Len(s) \in Nat /\ Len(s) >= 1 /\ Head(s) = s[1]
  BY SeqFacts
<1>2. \A i \in 1..(Len(s) - 1) : Tail(s)[i] = s[i + 1]
  BY SeqFacts
<1>3. \A y \in ToSet(s) : y \in {Head(s)} \cup ToSet(Tail(s))
  <2> SUFFICES ASSUME NEW i \in 1..Len(s), i # 1 PROVE s[i] \in ToSet(Tail(s))
    BY <1>1 DEF ToSet
  <2>1. i - 1 \in 1..(Len(s) - 1) /\ Tail(s)[i - 1] = s[i]
    BY <1>1, <1>2
  <2>2. QED BY <1>1, <2>1 DEF ToSet
<1>4. \A y \in {Head(s)} \cup ToSet(Tail(s)) : y \in ToSet(s)
  <2>1. Head(s) \in ToSet(s)
    BY <1>1 DEF ToSet
  <2>2. ASSUME NEW i \in 1..(Len(s) - 1) PROVE Tail(s)[i] \in ToSet(s)
    <3>1. i + 1 \in 1..Len(s) /\ Tail(s)[i] = s[i + 1]
      BY <1>1, <1>2
    <3>2. QED BY <1>1, <3>1 DEF ToSet
  <2>3. QED BY <1>1, <2>1, <2>2 DEF ToSet
<1>5. QED BY <1>3, <1>4

(* a comes before b in the sequence o.                                     *)
Before(o, a, b) == \E x, y \in DOMAIN o : x < y /\ o[x] = a /\ o[y] = b

(* s is in the order of o.                                                 *)
InOrder(o, s) == \A i, j \in DOMAIN s : i < j => Before(o, s[i], s[j])

Unique(s) == \A i, j \in DOMAIN s : s[i] = s[j] => i = j

LEMMA BeforeGrows ==
  ASSUME NEW S, NEW o \in Seq(S), NEW x \in S, NEW a, NEW b
  PROVE  /\ Before(o, a, b) => Before(Append(o, x), a, b)
         /\ a \in ToSet(o) => Before(Append(o, x), a, x)
<1>1. DOMAIN o = 1..Len(o) /\ DOMAIN Append(o, x) = 1..(Len(o) + 1) /\ Len(o) \in Nat
  BY SeqFacts
<1>2. \A i \in 1..Len(o) : Append(o, x)[i] = o[i]
  BY SeqFacts
<1>3. Append(o, x)[Len(o) + 1] = x
  BY SeqFacts
<1>4. Before(o, a, b) => Before(Append(o, x), a, b)
  BY <1>1, <1>2 DEF Before
<1>5. ASSUME a \in ToSet(o) PROVE Before(Append(o, x), a, x)
  <2>1. PICK i \in 1..Len(o) : o[i] = a
    BY <1>1, <1>5 DEF ToSet
  <2>2. i \in 1..(Len(o) + 1) /\ Len(o) + 1 \in 1..(Len(o) + 1) /\ i < Len(o) + 1
    BY <1>1
  <2>3. Append(o, x)[i] = a
    BY <1>2, <2>1
  <2>4. QED BY <1>1, <1>3, <2>2, <2>3 DEF Before
<1>6. QED BY <1>4, <1>5

LEMMA OrderGrows ==
  ASSUME NEW S, NEW o \in Seq(S), NEW x \in S, NEW s, InOrder(o, s)
  PROVE  InOrder(Append(o, x), s)
  BY BeforeGrows DEF InOrder

LEMMA OrderOfAppend ==
  ASSUME NEW S, NEW s \in Seq(S), NEW x \in S, NEW o, InOrder(o, s),
         \A a \in ToSet(s) : Before(o, a, x)
  PROVE  InOrder(o, Append(s, x))
<1>1. DOMAIN s = 1..Len(s) /\ DOMAIN Append(s, x) = 1..(Len(s) + 1) /\ Len(s) \in Nat
  BY SeqFacts
<1>2. \A i \in 1..Len(s) : Append(s, x)[i] = s[i] /\ s[i] \in ToSet(s)
  BY <1>1, SeqFacts DEF ToSet
<1>3. Append(s, x)[Len(s) + 1] = x
  BY SeqFacts
<1> SUFFICES ASSUME NEW i \in 1..(Len(s) + 1), NEW j \in 1..(Len(s) + 1), i < j
             PROVE  Before(o, Append(s, x)[i], Append(s, x)[j])
  BY <1>1 DEF InOrder
<1>4. i \in 1..Len(s)
  BY <1>1
<1>5. CASE j = Len(s) + 1
  BY <1>2, <1>3, <1>4, <1>5
<1>6. CASE j \in 1..Len(s)
  BY <1>1, <1>2, <1>4, <1>6 DEF InOrder
<1>7. QED BY <1>1, <1>5, <1>6

LEMMA OrderOfTail ==
  ASSUME NEW S, NEW s \in Seq(S), s # <<>>, NEW o, InOrder(o, s)
  PROVE  InOrder(o, Tail(s)) /\ \A b \in ToSet(Tail(s)) : Before(o, Head(s), b)
<1>1. /\ DOMAIN s = 1..Len(s) /\ DOMAIN Tail(s) = 1..(Len(s) - 1)
      /\ Len(s) \in Nat /\ Len(s) >= 1 /\ Head(s) = s[1]
  BY SeqFacts
<1>2. \A i \in 1..(Len(s) - 1) : Tail(s)[i] = s[i + 1] /\ i + 1 \in 1..Len(s)
  BY <1>1, SeqFacts
<1>3. InOrder(o, Tail(s))
  <2> SUFFICES ASSUME NEW i \in 1..(Len(s) - 1), NEW j \in 1..(Len(s) - 1), i < j
               PROVE  Before(o, Tail(s)[i], Tail(s)[j])
    BY <1>1 DEF InOrder
  <2>1. i + 1 < j + 1
    BY <1>1
  <2>2. QED BY <1>1, <1>2, <2>1 DEF InOrder
<1>4. ASSUME NEW i \in 1..(Len(s) - 1) PROVE Before(o, Head(s), Tail(s)[i])
  <2>1. 1 \in 1..Len(s) /\ 1 < i + 1
    BY <1>1
  <2>2. QED BY <1>1, <1>2, <2>1 DEF InOrder
<1>5. QED BY <1>1, <1>3, <1>4 DEF ToSet

LEMMA UniqueAppend ==
  ASSUME NEW S, NEW s \in Seq(S), NEW x \in S, Unique(s), x \notin ToSet(s)
  PROVE  Unique(Append(s, x))
<1>1. DOMAIN s = 1..Len(s) /\ DOMAIN Append(s, x) = 1..(Len(s) + 1) /\ Len(s) \in Nat
  BY SeqFacts
<1>2. \A i \in 1..Len(s) : Append(s, x)[i] = s[i] /\ s[i] # x
  BY <1>1, SeqFacts DEF ToSet
<1>3. Append(s, x)[Len(s) + 1] = x
  BY SeqFacts
<1>4. \A i \in 1..(Len(s) + 1) : i \in 1..Len(s) \/ i = Len(s) + 1
  BY <1>1
<1>5. QED BY <1>1, <1>2, <1>3, <1>4 DEF Unique

LEMMA UniqueTail ==
  ASSUME NEW S, NEW s \in Seq(S), s # <<>>, Unique(s)
  PROVE  Unique(Tail(s)) /\ Head(s) \notin ToSet(Tail(s))
<1>1. /\ DOMAIN s = 1..Len(s) /\ DOMAIN Tail(s) = 1..(Len(s) - 1)
      /\ Len(s) \in Nat /\ Len(s) >= 1 /\ Head(s) = s[1]
  BY SeqFacts
<1>2. \A i \in 1..(Len(s) - 1) : /\ Tail(s)[i] = s[i + 1] /\ i + 1 \in 1..Len(s)
                               /\ i + 1 # 1
  BY <1>1, SeqFacts
<1>3. ASSUME NEW i \in 1..(Len(s) - 1), NEW j \in 1..(Len(s) - 1), Tail(s)[i] = Tail(s)[j]
      PROVE  i = j
  <2>1. i + 1 = j + 1
    BY <1>1, <1>2, <1>3 DEF Unique
  <2>2. QED BY <2>1
<1>4. Unique(Tail(s))
  BY <1>1, <1>3 DEF Unique
<1>5. 1 \in 1..Len(s)
  BY <1>1
<1>6. QED BY <1>1, <1>2, <1>4, <1>5 DEF Unique, ToSet

(* What has no duplicates puts nothing before itself.                      *)
LEMMA BeforeIsStrict ==
  ASSUME NEW S, NEW o \in Seq(S), Unique(o), NEW a
  PROVE  ~Before(o, a, a)
<1>1. DOMAIN o = 1..Len(o) /\ Len(o) \in Nat
  BY SeqFacts
<1>2. QED BY <1>1 DEF Before, Unique

-----------------------------------------------------------------------------
(* The inductive invariant.                                                *)

LineTypes ==
  /\ session \in [Conn -> {"handshake", "proven", "up", "ended"}]
  /\ conn_queue \in Seq(Conn) /\ Len(conn_queue) <= connection_backlog
  /\ accepted \subseteq Conn
  /\ chan_queue \in [Conn -> Seq(Chan)]
  /\ \A c \in Conn : Len(chan_queue[c]) <= channel_backlog
  /\ taking \in [Conn -> Chan \cup {NoChan}]
  /\ served \in [Conn -> Seq(Chan)]
  /\ opened \in [Conn -> Seq(Chan)]
  /\ opening \in [Chan -> Progress]
  /\ over \in [End -> BOOLEAN]

(* An authenticated connection is in the accept queue, once, or accepted.  *)
AcceptInv ==
  /\ Unique(conn_queue)
  /\ \A c \in ToSet(conn_queue) : c \notin accepted
  /\ \A c \in Conn : c \in ToSet(conn_queue) \cup accepted =>
       session[c] \in {"up", "ended"}
  /\ \A c \in Conn : session[c] = "up" => c \in ToSet(conn_queue) \cup accepted

(* The channel that next_channel is classifying, as a set.                 *)
Held(c) == {taking[c]} \ {NoChan}

(* The line of a connection: what next_channel has returned, what it is    *)
(* classifying, and what waits, each in the order of the opens.            *)
LineOrder(c) ==
  /\ InOrder(opened[c], served[c]) /\ InOrder(opened[c], chan_queue[c])
  /\ \A a \in ToSet(served[c]), b \in Held(c) \cup ToSet(chan_queue[c]) :
       Before(opened[c], a, b)
  /\ \A a \in Held(c), b \in ToSet(chan_queue[c]) : Before(opened[c], a, b)

(* It holds channels that were opened, which were opened once; one that is *)
(* not in it any more was abandoned, or is gone.                           *)
LineMembers(c) ==
  /\ ToSet(served[c]) \cup Held(c) \cup ToSet(chan_queue[c]) \subseteq ToSet(opened[c])
  /\ Unique(opened[c])
  /\ \A k \in ToSet(opened[c]) : opening[k] \notin {"closed", "asked"}
  /\ \A k \in ToSet(opened[c]) :
       \/ k \in ToSet(served[c]) \cup Held(c) \cup ToSet(chan_queue[c])
       \/ k \in abandoned \/ over[Server(k)]

LineInv == \A c \in Conn : LineOrder(c) /\ LineMembers(c)

SessionInv == LineTypes /\ AcceptInv /\ LineInv

LEMMA InitSession == Init => SessionInv
<1> SUFFICES ASSUME Init PROVE SessionInv
  OBVIOUS
<1> USE DEF Init, ChannelInit
<1>1. <<>> \in Seq(Conn) /\ <<>> \in Seq(Chan) /\ Len(<<>>) = 0
  BY SeqFacts
<1>2. 0 <= connection_backlog /\ 0 <= channel_backlog
  BY SessionAssumption DEF SessionAssumption
<1>3. LineTypes
  <2>1. conn_queue \in Seq(Conn) /\ Len(conn_queue) <= connection_backlog
    BY <1>1, <1>2
  <2>2. \A c \in Conn : Len(chan_queue[c]) <= channel_backlog
    BY <1>1, <1>2
  <2>3. /\ chan_queue \in [Conn -> Seq(Chan)] /\ served \in [Conn -> Seq(Chan)]
        /\ opened \in [Conn -> Seq(Chan)]
    BY <1>1
  <2>4. /\ session \in [Conn -> {"handshake", "proven", "up", "ended"}]
        /\ accepted \subseteq Conn /\ taking \in [Conn -> Chan \cup {NoChan}]
        /\ opening \in [Chan -> Progress] /\ over \in [End -> BOOLEAN]
    BY DEF Progress
  <2>5. QED BY <2>1, <2>2, <2>3, <2>4 DEF LineTypes
<1>4. ToSet(<<>>) = {}
  BY SeqFacts
<1>5. Unique(<<>>) /\ InOrder(<<>>, <<>>)
  BY DEF Unique, InOrder
<1>6. AcceptInv
  BY <1>4, <1>5 DEF AcceptInv
<1>7. ASSUME NEW c \in Conn PROVE LineOrder(c) /\ LineMembers(c)
  <2>1. served[c] = <<>> /\ chan_queue[c] = <<>> /\ opened[c] = <<>> /\ Held(c) = {}
    BY DEF Held
  <2>2. QED BY <1>4, <1>5, <2>1 DEF LineOrder, LineMembers
<1>8. QED BY <1>3, <1>6, <1>7 DEF SessionInv, LineInv

-----------------------------------------------------------------------------
(* The accept queue. *)

LEMMA AcceptStep ==
  ASSUME LineTypes, AcceptInv, [Next]_vars
  PROVE  AcceptInv'
<1>1. ASSUME UNCHANGED <<session, conn_queue, accepted>> PROVE AcceptInv'
  BY <1>1 DEF AcceptInv
<1>2. ASSUME NEW c \in Conn, session[c] \in {"handshake", "proven", "up"},
             NEW v \in {"proven", "ended"}, session[c] = "handshake" \/ v = "ended",
             session' = [session EXCEPT ![c] = v], UNCHANGED <<conn_queue, accepted>>
      PROVE  AcceptInv'
  BY <1>2 DEF AcceptInv, LineTypes
<1>3. ASSUME NEW c \in Conn, session[c] = "proven",
             session' = [session EXCEPT ![c] = "up"],
             conn_queue' = Append(conn_queue, c), UNCHANGED accepted
      PROVE  AcceptInv'
  <2>1. c \notin ToSet(conn_queue) \cup accepted
    BY <1>3 DEF AcceptInv
  <2>2. ToSet(conn_queue') = ToSet(conn_queue) \cup {c}
    BY <1>3, MembersOfAppend DEF LineTypes
  <2>3. Unique(conn_queue')
    BY <1>3, <2>1, UniqueAppend DEF LineTypes, AcceptInv
  <2>4. QED BY <1>3, <2>1, <2>2, <2>3 DEF AcceptInv, LineTypes
<1>4. ASSUME Accept PROVE AcceptInv'
  <2>1. conn_queue # <<>> /\ conn_queue \in Seq(Conn) /\ conn_queue' = Tail(conn_queue)
        /\ accepted' = accepted \cup {Head(conn_queue)} /\ session' = session
    BY <1>4 DEF Accept, LineTypes
  <2>2. ToSet(conn_queue) = {Head(conn_queue)} \cup ToSet(conn_queue')
    BY <2>1, MembersOfTail
  <2>3. Unique(conn_queue') /\ Head(conn_queue) \notin ToSet(conn_queue')
    BY <2>1, UniqueTail DEF AcceptInv
  <2>4. QED BY <2>1, <2>2, <2>3 DEF AcceptInv
<1>5. ASSUME NEW c \in Conn, Handler(c) \/ SessionEnds(c) \/ NextChannel(c) \/ CancelNext(c)
      PROVE  AcceptInv'
  <2>1. CASE AuthPublickey(c)
    BY <1>2, <2>1 DEF AuthPublickey
  <2>2. CASE AuthSucceeded(c)
    BY <1>2, <1>3, <2>2 DEF AuthSucceeded
  <2>3. CASE SessionEnds(c)
    BY <1>2, <2>3 DEF SessionEnds
  <2>4. CASE NextChannel(c) \/ CancelNext(c)
    BY <1>1, <2>4 DEF NextChannel, TakeChannel, Classify, PassOver, CancelNext
  <2>5. QED BY <1>5, <2>1, <2>2, <2>3, <2>4 DEF Handler
<1>6. ASSUME NEW k \in Chan, ClientOpen(k) \/ ChannelHandler(k) PROVE AcceptInv'
  BY <1>1, <1>6
  DEF ClientOpen, ClientOpens, ClientRequests, ClientGivesUp, WaitForReply, OpenFails,
      ChannelHandler, ChannelOpenSession, FirstRequestArrives, ShellRequestArrives,
      RequestArrives
<1>7. ASSUME NEW e \in End, Say(e) \/ ReadChannel(e) PROVE AcceptInv'
  BY <1>1, <1>7 DEF Say, ReadChannel, sessionVars
<1>8. CASE UNCHANGED vars
  BY <1>1, <1>8 DEF vars, sessionVars
<1>9. QED BY <1>4, <1>5, <1>6, <1>7, <1>8 DEF Next

-----------------------------------------------------------------------------
(* Type correctness of what the invariant speaks of. *)

LEMMA EndsOfChannel ==
  ASSUME NEW k \in Chan
  PROVE  Client(k) \in End /\ Server(k) \in End /\ Owner[k] \in Conn
  BY SessionAssumption DEF SessionAssumption, Client, Server

LEMMA QueueStep ==
  ASSUME NEW S, NEW s \in Seq(S), NEW n \in Nat, Len(s) <= n
  PROVE  /\ \A x \in S : Len(s) < n =>
              Append(s, x) \in Seq(S) /\ Len(Append(s, x)) <= n
         /\ s # <<>> => /\ Head(s) \in S
                        /\ Tail(s) \in Seq(S) /\ Len(Tail(s)) <= n
<1>1. Len(s) \in Nat
  BY SeqFacts
<1>2. ASSUME NEW x \in S, Len(s) < n
      PROVE  Append(s, x) \in Seq(S) /\ Len(Append(s, x)) <= n
  <2>1. Append(s, x) \in Seq(S) /\ Len(Append(s, x)) = Len(s) + 1
    BY SeqFacts
  <2>2. QED BY <1>1, <1>2, <2>1
<1>3. ASSUME s # <<>>
      PROVE  Head(s) \in S /\ Tail(s) \in Seq(S) /\ Len(Tail(s)) <= n
  <2>1. Head(s) \in S /\ Tail(s) \in Seq(S) /\ Len(Tail(s)) = Len(s) - 1
    BY <1>3, SeqFacts
  <2>2. QED BY <1>1, <2>1
<1>4. QED BY <1>2, <1>3

LEMMA OpenStep ==
  ASSUME LineTypes, NEW k \in Chan, ClientOpen(k) \/ ChannelHandler(k)
  PROVE  /\ opening' \in [Chan -> Progress]
         /\ over' \in [End -> BOOLEAN]
         /\ \A e \in End : over[e] => over'[e]
         /\ \A j \in Chan : opening[j] \notin {"closed", "asked"} =>
              opening'[j] \notin {"closed", "asked"}
<1> USE DEF LineTypes, Advance, Progress
<1>1. CASE ClientOpens(k)
  BY <1>1 DEF ClientOpens, chanVars
<1>2. CASE ClientRequests(k)
  BY <1>2 DEF ClientRequests, chanVars
<1>3. CASE ClientGivesUp(k)
  BY <1>3, EndsOfChannel DEF ClientGivesUp
<1>4. CASE WaitForReply(k)
  BY <1>4 DEF WaitForReply, AfterReply
<1>5. CASE OpenFails(k)
  BY <1>5 DEF OpenFails, chanVars
<1>6. CASE ChannelOpenSession(k)
  BY <1>6 DEF ChannelOpenSession, chanVars
<1>7. CASE FirstRequestArrives(k)
  BY <1>7 DEF FirstRequestArrives, RequestArrives
<1>8. CASE ShellRequestArrives(k)
  BY <1>8 DEF ShellRequestArrives, RequestArrives
<1>9. QED
  BY <1>1, <1>2, <1>3, <1>4, <1>5, <1>6, <1>7, <1>8 DEF ClientOpen, ChannelHandler

LEMMA OverGrows ==
  ASSUME LineTypes, [Next]_vars
  PROVE  over' \in [End -> BOOLEAN] /\ \A e \in End : over[e] => over'[e]
<1> USE DEF LineTypes
<1>1. ASSUME NEW c \in Conn, SessionEnds(c)
      PROVE  over' \in [End -> BOOLEAN] /\ \A e \in End : over[e] => over'[e]
  BY <1>1 DEF SessionEnds
<1>2. ASSUME NEW c \in Conn, Handler(c) \/ NextChannel(c) \/ CancelNext(c)
      PROVE  over' = over
  BY <1>2 DEF Handler, AuthPublickey, AuthSucceeded, NextChannel, TakeChannel, Classify,
              PassOver, CancelNext, chanVars
<1>3. Accept => over' = over
  BY DEF Accept, chanVars
<1>4. ASSUME NEW e \in End, Say(e) \/ ReadChannel(e) PROVE over' = over
  BY <1>4
  DEF Say, ReadChannel, Read, CallNextEvent, CallRecv, PopResize, CallStep, NextEvent,
      NextIsQueuedResize, NextIsClosed, NextIsMessage, Return, ReturnEvent, RecvCopies,
      RecvKeeps, RecvFails
<1>5. UNCHANGED vars => over' = over
  BY DEF vars, chanVars
<1>6. QED BY OpenStep, <1>1, <1>2, <1>3, <1>4, <1>5 DEF Next

LEMMA TypesStep ==
  ASSUME LineTypes, [Next]_vars
  PROVE  LineTypes'
<1>o. over' \in [End -> BOOLEAN]
  BY OverGrows
<1>q. connection_backlog \in Nat /\ channel_backlog \in Nat
  BY SessionAssumption DEF SessionAssumption
<1>1. ASSUME UNCHANGED sessionVars PROVE LineTypes'
  BY <1>o, <1>1 DEF LineTypes, sessionVars
<1>2. ASSUME NEW c \in Conn, AuthPublickey(c) \/ SessionEnds(c) PROVE LineTypes'
  BY <1>o, <1>2 DEF LineTypes, AuthPublickey, SessionEnds
<1>3. ASSUME NEW c \in Conn, AuthSucceeded(c) PROVE LineTypes'
  <2>1. conn_queue' \in Seq(Conn) /\ Len(conn_queue') <= connection_backlog
    <3>1. /\ conn_queue \in Seq(Conn) /\ Len(conn_queue) <= connection_backlog
          /\ \/ Len(conn_queue) < connection_backlog /\ conn_queue' = Append(conn_queue, c)
             \/ conn_queue' = conn_queue
      BY <1>3 DEF AuthSucceeded, LineTypes
    <3>2. QED BY <3>1, <1>q, QueueStep
  <2>2. session' \in [Conn -> {"handshake", "proven", "up", "ended"}]
    BY <1>3 DEF AuthSucceeded, LineTypes
  <2>3. QED BY <1>o, <1>3, <2>1, <2>2 DEF AuthSucceeded, LineTypes
<1>4. ASSUME Accept PROVE LineTypes'
  <2>1. /\ conn_queue' \in Seq(Conn) /\ Len(conn_queue') <= connection_backlog
        /\ Head(conn_queue) \in Conn
    BY <1>4, <1>q, QueueStep DEF Accept, LineTypes
  <2>2. QED BY <1>o, <1>4, <2>1 DEF Accept, LineTypes
<1>5. ASSUME NEW c \in Conn, TakeChannel(c) PROVE LineTypes'
  <2>1. /\ Head(chan_queue[c]) \in Chan
        /\ Tail(chan_queue[c]) \in Seq(Chan) /\ Len(Tail(chan_queue[c])) <= channel_backlog
    BY <1>5, <1>q, QueueStep DEF TakeChannel, LineTypes
  <2>2. chan_queue' \in [Conn -> Seq(Chan)]
        /\ \A d \in Conn : Len(chan_queue'[d]) <= channel_backlog
    <3>1. chan_queue' = [chan_queue EXCEPT ![c] = Tail(chan_queue[c])]
      BY <1>5 DEF TakeChannel
    <3>2. \A d \in Conn : chan_queue'[d] = IF d = c THEN Tail(chan_queue[c]) ELSE chan_queue[d]
      BY <3>1 DEF LineTypes
    <3>3. chan_queue' \in [Conn -> Seq(Chan)]
      BY <2>1, <3>1 DEF LineTypes
    <3>4. QED BY <2>1, <3>2, <3>3 DEF LineTypes
  <2>3. QED BY <1>o, <1>5, <2>1, <2>2 DEF TakeChannel, LineTypes
<1>6. ASSUME NEW c \in Conn, Classify(c) PROVE LineTypes'
  <2>1. taking[c] \in Chan => Append(served[c], taking[c]) \in Seq(Chan)
    BY SeqFacts DEF LineTypes
  <2>2. served' \in [Conn -> Seq(Chan)] /\ taking' \in [Conn -> Chan \cup {NoChan}]
    BY <1>6, <2>1 DEF Classify, LineTypes
  <2>3. QED BY <1>o, <1>6, <2>2 DEF Classify, LineTypes
<1>7. ASSUME NEW c \in Conn, PassOver(c) \/ CancelNext(c) PROVE LineTypes'
  BY <1>o, <1>7 DEF PassOver, CancelNext, LineTypes
<1>8. ASSUME NEW k \in Chan, ChannelOpenSession(k) PROVE LineTypes'
  <2> DEFINE c == Owner[k]
  <2>1. c \in Conn
    BY EndsOfChannel
  <2>2. /\ Append(opened[c], k) \in Seq(Chan)
        /\ Len(chan_queue[c]) < channel_backlog =>
             /\ Append(chan_queue[c], k) \in Seq(Chan)
             /\ Len(Append(chan_queue[c], k)) <= channel_backlog
    BY <1>q, <2>1, QueueStep, SeqFacts DEF LineTypes
  <2>3. /\ chan_queue' \in [Conn -> Seq(Chan)] /\ opened' \in [Conn -> Seq(Chan)]
        /\ \A d \in Conn : Len(chan_queue'[d]) <= channel_backlog
    BY <1>8, <2>1, <2>2 DEF ChannelOpenSession, LineTypes
  <2>4. opening' \in [Chan -> Progress]
    BY <1>8, OpenStep DEF ChannelHandler
  <2>5. QED BY <1>o, <1>8, <2>3, <2>4 DEF ChannelOpenSession, LineTypes
<1>9. ASSUME NEW k \in Chan,
             ClientOpen(k) \/ FirstRequestArrives(k) \/ ShellRequestArrives(k)
      PROVE  LineTypes'
  <2>1. opening' \in [Chan -> Progress]
    BY <1>9, OpenStep DEF ChannelHandler
  <2>2. UNCHANGED <<session, conn_queue, accepted, chan_queue, taking, served, opened>>
    BY <1>9
    DEF ClientOpen, ClientOpens, ClientRequests, ClientGivesUp, WaitForReply, OpenFails,
        FirstRequestArrives, ShellRequestArrives, RequestArrives
  <2>3. QED BY <1>o, <2>1, <2>2 DEF LineTypes
<1>10. ASSUME NEW e \in End, Say(e) \/ ReadChannel(e) PROVE LineTypes'
  BY <1>o, <1>1, <1>10 DEF Say, ReadChannel, LineTypes
<1>11. CASE UNCHANGED vars
  BY <1>1, <1>11 DEF vars
<1>12. QED
  BY <1>2, <1>3, <1>4, <1>5, <1>6, <1>7, <1>8, <1>9, <1>10, <1>11
  DEF Next, Handler, NextChannel, ChannelHandler

-----------------------------------------------------------------------------
(* The line. *)

lineVars == <<chan_queue, taking, served, opened, abandoned>>

LEMMA LineKept ==
  ASSUME LineTypes, LineInv, UNCHANGED lineVars,
         \A e \in End : over[e] => over'[e],
         \A k \in Chan : opening[k] \notin {"closed", "asked"} =>
           opening'[k] \notin {"closed", "asked"}
  PROVE  LineInv'
<1> SUFFICES ASSUME NEW c \in Conn PROVE LineOrder(c)' /\ LineMembers(c)'
  BY DEF LineInv
<1>1. \A k \in ToSet(opened[c]) : k \in Chan
  BY DEF ToSet, LineTypes
<1>2. \A k \in ToSet(opened[c]) : over[Server(k)] => over'[Server(k)]
  BY <1>1, EndsOfChannel
<1>3. LineOrder(c)'
  BY DEF LineInv, LineOrder, Held, lineVars
<1>4. LineMembers(c)'
  BY <1>1, <1>2 DEF LineInv, LineMembers, Held, lineVars
<1>5. QED BY <1>3, <1>4

(* The lines of the other connections are as they were.                    *)
LEMMA OtherLines ==
  ASSUME LineTypes, LineInv, NEW c \in Conn,
         \A d \in Conn \ {c} : /\ chan_queue'[d] = chan_queue[d] /\ taking'[d] = taking[d]
                               /\ served'[d] = served[d] /\ opened'[d] = opened[d],
         abandoned \subseteq abandoned',
         \A e \in End : over[e] => over'[e],
         \A k \in Chan : opening[k] \notin {"closed", "asked"} =>
           opening'[k] \notin {"closed", "asked"},
         LineOrder(c)', LineMembers(c)'
  PROVE  LineInv'
<1> SUFFICES ASSUME NEW d \in Conn, d # c PROVE LineOrder(d)' /\ LineMembers(d)'
  BY DEF LineInv
<1>1. \A k \in ToSet(opened[d]) : k \in Chan
  BY DEF ToSet, LineTypes
<1>2. \A k \in ToSet(opened[d]) : over[Server(k)] => over'[Server(k)]
  BY <1>1, EndsOfChannel
<1>3. /\ chan_queue'[d] = chan_queue[d] /\ taking'[d] = taking[d]
      /\ served'[d] = served[d] /\ opened'[d] = opened[d]
  OBVIOUS
<1>4. Held(d)' = Held(d)
  BY <1>3 DEF Held
<1>5. LineOrder(d)'
  BY <1>3, <1>4 DEF LineInv, LineOrder
<1>6. LineMembers(d)'
  BY <1>1, <1>2, <1>3, <1>4 DEF LineInv, LineMembers
<1>7. QED BY <1>5, <1>6

(* A confirmed channel joins the line at its end.                          *)
LEMMA JoinsTheLine ==
  ASSUME LineTypes, LineInv, [Next]_vars, NEW k \in Chan, ChannelOpenSession(k)
  PROVE  LineInv'
<1> DEFINE c == Owner[k]
<1>o. c \in Conn /\ opening[k] = "asked" /\ \A e \in End : over[e] => over'[e]
  BY EndsOfChannel, OverGrows DEF ChannelOpenSession
<1>m. \A j \in Chan : opening[j] \notin {"closed", "asked"} =>
        opening'[j] \notin {"closed", "asked"}
  BY OpenStep DEF ChannelHandler
<1>1. CASE UNCHANGED <<chan_queue, opened>>
  BY <1>o, <1>m, <1>1, LineKept DEF ChannelOpenSession, lineVars
<1>2. CASE /\ opening' = [opening EXCEPT ![k] = "confirmed"]
           /\ chan_queue' = [chan_queue EXCEPT ![c] = Append(chan_queue[c], k)]
           /\ opened' = [opened EXCEPT ![c] = Append(opened[c], k)]
  <2>1. UNCHANGED <<taking, served, abandoned>>
    BY DEF ChannelOpenSession
  <2>2. /\ chan_queue[c] \in Seq(Chan) /\ opened[c] \in Seq(Chan) /\ served[c] \in Seq(Chan)
        /\ DOMAIN chan_queue = Conn /\ DOMAIN opened = Conn /\ DOMAIN opening = Chan
    BY <1>o DEF LineTypes
  <2>3. /\ chan_queue'[c] = Append(chan_queue[c], k) /\ opened'[c] = Append(opened[c], k)
        /\ served'[c] = served[c] /\ Held(c)' = Held(c)
    BY <1>o, <1>2, <2>1, <2>2 DEF Held
  <2>4. /\ ToSet(chan_queue'[c]) = ToSet(chan_queue[c]) \cup {k}
        /\ ToSet(opened'[c]) = ToSet(opened[c]) \cup {k}
    BY <2>2, <2>3, MembersOfAppend
  <2>5. LineOrder(c) /\ LineMembers(c)
    BY <1>o DEF LineInv
  <2>6. \A a, b : /\ Before(opened[c], a, b) => Before(opened'[c], a, b)
                  /\ a \in ToSet(opened[c]) => Before(opened'[c], a, k)
    BY <2>2, <2>3, BeforeGrows
  <2>7. k \notin ToSet(opened[c])
    BY <1>o, <2>5 DEF LineMembers
  <2>8. LineOrder(c)'
    <3>1. InOrder(opened'[c], served'[c]) /\ InOrder(opened'[c], chan_queue[c])
      BY <2>2, <2>3, <2>5, OrderGrows DEF LineOrder
    <3>2. \A a \in ToSet(chan_queue[c]) : Before(opened'[c], a, k)
      BY <2>5, <2>6 DEF LineMembers
    <3>3. InOrder(opened'[c], chan_queue'[c])
      BY <2>2, <2>3, <3>1, <3>2, OrderOfAppend
    <3>4. \A a \in ToSet(served'[c]), b \in Held(c)' \cup ToSet(chan_queue'[c]) :
            Before(opened'[c], a, b)
      BY <2>3, <2>4, <2>5, <2>6 DEF LineOrder, LineMembers
    <3>5. \A a \in Held(c)', b \in ToSet(chan_queue'[c]) : Before(opened'[c], a, b)
      BY <2>3, <2>4, <2>5, <2>6 DEF LineOrder, LineMembers
    <3>6. QED BY <3>1, <3>3, <3>4, <3>5 DEF LineOrder
  <2>9. LineMembers(c)'
    <3>1. Unique(opened'[c])
      BY <2>2, <2>3, <2>5, <2>7, UniqueAppend DEF LineMembers
    <3>2. \A j \in ToSet(opened[c]) : j \in Chan
      BY <2>2 DEF ToSet
    <3>3. \A j \in ToSet(opened[c]) : over[Server(j)] => over'[Server(j)]
      BY <3>2, <1>o, EndsOfChannel
    <3>4. opening'[k] = "confirmed"
      BY <1>2, <2>2
    <3>5. \A j \in ToSet(opened'[c]) : opening'[j] \notin {"closed", "asked"}
      BY <1>m, <2>4, <2>5, <3>2, <3>4 DEF LineMembers
    <3>6. \A j \in ToSet(opened'[c]) :
            \/ j \in ToSet(served'[c]) \cup Held(c)' \cup ToSet(chan_queue'[c])
            \/ j \in abandoned' \/ over'[Server(j)]
      BY <2>1, <2>3, <2>4, <2>5, <3>3 DEF LineMembers
    <3>7. ToSet(served'[c]) \cup Held(c)' \cup ToSet(chan_queue'[c]) \subseteq ToSet(opened'[c])
      BY <2>3, <2>4, <2>5 DEF LineMembers
    <3>8. QED BY <3>1, <3>5, <3>6, <3>7 DEF LineMembers
  <2>10. \A d \in Conn \ {c} : /\ chan_queue'[d] = chan_queue[d] /\ taking'[d] = taking[d]
                               /\ served'[d] = served[d] /\ opened'[d] = opened[d]
    BY <1>2, <2>1, <2>2
  <2>11. QED BY <1>o, <1>m, <2>1, <2>8, <2>9, <2>10, OtherLines
<1>3. QED BY <1>1, <1>2 DEF ChannelOpenSession, Advance

(* next_channel takes the head of the queue.                               *)
LEMMA HeadIsTaken ==
  ASSUME LineTypes, LineInv, [Next]_vars, NEW c \in Conn, TakeChannel(c)
  PROVE  LineInv'
<1>1. /\ UNCHANGED <<served, opened, abandoned, opening>> /\ taking[c] = NoChan
      /\ chan_queue[c] # <<>> /\ chan_queue[c] \in Seq(Chan)
      /\ DOMAIN chan_queue = Conn /\ DOMAIN taking = Conn
      /\ \A e \in End : over[e] => over'[e]
  BY OverGrows DEF TakeChannel, LineTypes
<1>2. chan_queue'[c] = Tail(chan_queue[c]) /\ taking'[c] = Head(chan_queue[c])
  BY <1>1 DEF TakeChannel
<1>3. Head(chan_queue[c]) \in Chan /\ Head(chan_queue[c]) # NoChan
  BY <1>1, SeqFacts, SessionAssumption DEF SessionAssumption
<1>4. Held(c) = {} /\ Held(c)' = {Head(chan_queue[c])}
  BY <1>1, <1>2, <1>3 DEF Held
<1>5. ToSet(chan_queue[c]) = Held(c)' \cup ToSet(chan_queue'[c])
  BY <1>1, <1>2, <1>4, MembersOfTail
<1>6. LineOrder(c) /\ LineMembers(c)
  BY DEF LineInv
<1>7. InOrder(opened[c], chan_queue'[c])
      /\ \A b \in ToSet(chan_queue'[c]) : Before(opened[c], Head(chan_queue[c]), b)
  BY <1>1, <1>2, <1>6, OrderOfTail DEF LineOrder
<1>8. LineOrder(c)'
  BY <1>1, <1>4, <1>5, <1>6, <1>7 DEF LineOrder
<1>9. \A k \in ToSet(opened[c]) : over[Server(k)] => over'[Server(k)]
  <2>1. \A k \in ToSet(opened[c]) : k \in Chan
    BY DEF ToSet, LineTypes
  <2>2. QED BY <1>1, <2>1, EndsOfChannel
<1>10. LineMembers(c)'
  BY <1>1, <1>4, <1>5, <1>6, <1>9 DEF LineMembers
<1>11. \A d \in Conn \ {c} : /\ chan_queue'[d] = chan_queue[d] /\ taking'[d] = taking[d]
                             /\ served'[d] = served[d] /\ opened'[d] = opened[d]
  BY <1>1 DEF TakeChannel
<1>12. QED BY <1>1, <1>8, <1>10, <1>11, OtherLines

(* It returns the channel it has classified.                               *)
LEMMA HeldIsServed ==
  ASSUME LineTypes, LineInv, [Next]_vars, NEW c \in Conn, Classify(c)
  PROVE  LineInv'
<1> DEFINE k == taking[c]
<1>1. /\ UNCHANGED <<chan_queue, opened, abandoned, opening>> /\ k \in Chan /\ k # NoChan
      /\ served[c] \in Seq(Chan)
      /\ DOMAIN served = Conn /\ DOMAIN taking = Conn
      /\ \A e \in End : over[e] => over'[e]
  BY OverGrows DEF Classify, LineTypes
<1>2. CASE UNCHANGED <<served, taking>>
  BY <1>1, <1>2, LineKept DEF lineVars
<1>3. CASE /\ served' = [served EXCEPT ![c] = Append(served[c], k)]
           /\ taking' = [taking EXCEPT ![c] = NoChan]
  <2>1. served'[c] = Append(served[c], k) /\ Held(c) = {k} /\ Held(c)' = {}
    BY <1>1, <1>3 DEF Held
  <2>2. ToSet(served'[c]) = ToSet(served[c]) \cup {k}
    BY <1>1, <2>1, MembersOfAppend
  <2>3. LineOrder(c) /\ LineMembers(c)
    BY DEF LineInv
  <2>4. InOrder(opened[c], served'[c])
    BY <1>1, <2>1, <2>3, OrderOfAppend DEF LineOrder
  <2>5. LineOrder(c)'
    BY <1>1, <2>1, <2>2, <2>3, <2>4 DEF LineOrder
  <2>6. \A j \in ToSet(opened[c]) : over[Server(j)] => over'[Server(j)]
    <3>1. \A j \in ToSet(opened[c]) : j \in Chan
      BY DEF ToSet, LineTypes
    <3>2. QED BY <1>1, <3>1, EndsOfChannel
  <2>7. LineMembers(c)'
    BY <1>1, <2>1, <2>2, <2>3, <2>6 DEF LineMembers
  <2>8. \A d \in Conn \ {c} : /\ chan_queue'[d] = chan_queue[d] /\ taking'[d] = taking[d]
                              /\ served'[d] = served[d] /\ opened'[d] = opened[d]
    BY <1>1, <1>3
  <2>9. QED BY <1>1, <2>5, <2>7, <2>8, OtherLines
<1>4. QED BY <1>2, <1>3 DEF Classify

(* A channel that is gone is passed over; a cancelled call takes its       *)
(* channel with it.                                                        *)
LEMMA HeldIsDropped ==
  ASSUME LineTypes, LineInv, [Next]_vars, NEW c \in Conn, PassOver(c) \/ CancelNext(c)
  PROVE  LineInv'
<1> DEFINE k == taking[c]
<1>1. /\ UNCHANGED <<chan_queue, served, opened, opening>> /\ k \in Chan /\ k # NoChan
      /\ taking' = [taking EXCEPT ![c] = NoChan] /\ DOMAIN taking = Conn
      /\ abandoned \subseteq abandoned' /\ over' = over
  BY DEF PassOver, CancelNext, LineTypes, chanVars
<1>2. over[Server(k)] \/ k \in abandoned'
  BY DEF PassOver, CancelNext
<1>3. Held(c) = {k} /\ Held(c)' = {}
  BY <1>1 DEF Held
<1>4. LineOrder(c) /\ LineMembers(c)
  BY DEF LineInv
<1>5. LineOrder(c)'
  BY <1>1, <1>3, <1>4 DEF LineOrder
<1>6. LineMembers(c)'
  BY <1>1, <1>2, <1>3, <1>4 DEF LineMembers
<1>7. \A d \in Conn \ {c} : /\ chan_queue'[d] = chan_queue[d] /\ taking'[d] = taking[d]
                            /\ served'[d] = served[d] /\ opened'[d] = opened[d]
  BY <1>1
<1>8. QED BY <1>1, <1>5, <1>6, <1>7, OtherLines

LEMMA LineStep ==
  ASSUME LineTypes, LineInv, [Next]_vars
  PROVE  LineInv'
<1>o. \A e \in End : over[e] => over'[e]
  BY OverGrows
<1>1. ASSUME UNCHANGED <<lineVars, opening>> PROVE LineInv'
  BY <1>o, <1>1, LineKept
<1>2. ASSUME NEW c \in Conn, Handler(c) \/ SessionEnds(c) PROVE LineInv'
  BY <1>1, <1>2 DEF Handler, AuthPublickey, AuthSucceeded, SessionEnds, lineVars
<1>3. ASSUME NEW c \in Conn, NextChannel(c) \/ CancelNext(c) PROVE LineInv'
  BY <1>3, HeadIsTaken, HeldIsServed, HeldIsDropped DEF NextChannel
<1>4. ASSUME Accept PROVE LineInv'
  BY <1>1, <1>4 DEF Accept, lineVars
<1>5. ASSUME NEW k \in Chan,
             ClientOpen(k) \/ FirstRequestArrives(k) \/ ShellRequestArrives(k)
      PROVE  LineInv'
  <2>1. UNCHANGED lineVars
    BY <1>5
    DEF ClientOpen, ClientOpens, ClientRequests, ClientGivesUp, WaitForReply, OpenFails,
        FirstRequestArrives, ShellRequestArrives, RequestArrives, lineVars
  <2>2. \A j \in Chan : opening[j] \notin {"closed", "asked"} =>
          opening'[j] \notin {"closed", "asked"}
    BY <1>5, OpenStep DEF ChannelHandler
  <2>3. QED BY <1>o, <2>1, <2>2, LineKept
<1>6. ASSUME NEW k \in Chan, ChannelOpenSession(k) PROVE LineInv'
  BY <1>6, JoinsTheLine
<1>7. ASSUME NEW e \in End, Say(e) \/ ReadChannel(e) PROVE LineInv'
  BY <1>1, <1>7 DEF Say, ReadChannel, sessionVars, lineVars
<1>8. CASE UNCHANGED vars
  BY <1>1, <1>8 DEF vars, sessionVars, lineVars
<1>9. QED
  BY <1>2, <1>3, <1>4, <1>5, <1>6, <1>7, <1>8 DEF Next, ChannelHandler

LEMMA Inductive == Spec => []SessionInv
<1>1. Init => SessionInv
  BY InitSession
<1>2. SessionInv /\ [Next]_vars => SessionInv'
  BY TypesStep, AcceptStep, LineStep DEF SessionInv
<1>3. QED BY <1>1, <1>2, PTL DEF Spec

-----------------------------------------------------------------------------
(* The handlers refuse, they never wait: neither queue outgrows its bound. *)
THEOREM QueuesAreBounded ==
  Spec => [](/\ Len(conn_queue) <= connection_backlog
             /\ \A c \in Conn : Len(chan_queue[c]) <= channel_backlog)
<1>1. SessionInv => /\ Len(conn_queue) <= connection_backlog
                    /\ \A c \in Conn : Len(chan_queue[c]) <= channel_backlog
  BY DEF SessionInv, LineTypes
<1>2. QED BY <1>1, Inductive, PTL

(* A channel is in one place of the line only: the places are in the order *)
(* of the opens, and a channel is opened once.                             *)
LEMMA OnePlace ==
  ASSUME LineTypes, NEW c \in Conn, LineOrder(c), LineMembers(c), NEW k
  PROVE  /\ ~(k \in ToSet(served[c]) /\ k \in Held(c))
         /\ ~(k \in ToSet(served[c]) /\ k \in ToSet(chan_queue[c]))
         /\ ~(k \in Held(c) /\ k \in ToSet(chan_queue[c]))
<1>1. ~Before(opened[c], k, k)
  BY BeforeIsStrict DEF LineTypes, LineMembers
<1>2. QED BY <1>1 DEF LineOrder

(* auth_succeeded and channel_open_session, accept and next_channel: a     *)
(* connection that is told it is authenticated is queued or was accepted,  *)
(* and a channel that is confirmed is queued, being classified or was      *)
(* returned, in exactly one of these places, unless it closed before its   *)
(* first request or a cancelled next_channel took it along.                *)
THEOREM NoneForgotten == Spec => []NobodyIsForgotten
<1>1. ASSUME SessionInv PROVE NobodyIsForgotten
  <2>1. \A c \in Conn : session[c] = "up" => (c \in ToSet(conn_queue)) # (c \in accepted)
    BY <1>1 DEF SessionInv, AcceptInv
  <2>2. ASSUME NEW c \in Conn, NEW k \in ToSet(opened[c])
        PROVE  LET places == {p \in {"queue", "taking", "served"} :
                                CASE p = "queue"  -> k \in ToSet(chan_queue[c])
                                  [] p = "taking" -> k = taking[c]
                                  [] OTHER        -> k \in ToSet(served[c])}
               IN \/ Cardinality(places) = 1
                  \/ places = {} /\ (over[Server(k)] \/ k \in abandoned)
    <3> DEFINE places == {p \in {"queue", "taking", "served"} :
                            CASE p = "queue"  -> k \in ToSet(chan_queue[c])
                              [] p = "taking" -> k = taking[c]
                              [] OTHER        -> k \in ToSet(served[c])}
    <3>1. LineTypes /\ LineOrder(c) /\ LineMembers(c)
      BY <1>1 DEF SessionInv, LineInv
    <3>2. k \in Chan /\ k # NoChan
      BY <3>1, SessionAssumption DEF SessionAssumption, LineTypes, ToSet
    <3>3. k = taking[c] <=> k \in Held(c)
      BY <3>2 DEF Held
    <3>4. /\ "queue" \in places <=> k \in ToSet(chan_queue[c])
          /\ "taking" \in places <=> k \in Held(c)
          /\ "served" \in places <=> k \in ToSet(served[c])
      BY <3>3
    <3>5. places \subseteq {"queue", "taking", "served"}
      OBVIOUS
    <3> HIDE DEF places
    <3>6. \A p : Cardinality({p}) = 1
      BY FS_Singleton
    <3>7. CASE k \in ToSet(served[c]) \cup Held(c) \cup ToSet(chan_queue[c])
      <4>1. places \in {{"queue"}, {"taking"}, {"served"}}
        BY <3>1, <3>4, <3>5, <3>7, OnePlace
      <4>2. Cardinality(places) = 1
        BY <3>6, <4>1
      <4>3. QED BY <4>2 DEF places
    <3>8. CASE k \notin ToSet(served[c]) \cup Held(c) \cup ToSet(chan_queue[c])
      <4>1. places = {}
        BY <3>4, <3>5, <3>8
      <4>2. over[Server(k)] \/ k \in abandoned
        BY <3>1, <3>8 DEF LineMembers
      <4>3. QED BY <4>1, <4>2 DEF places
    <3>9. QED BY <3>7, <3>8
  <2>3. QED BY <2>1, <2>2 DEF NobodyIsForgotten
<1>2. QED BY <1>1, Inductive, PTL

(* next_channel returns the channels in the order their client opened      *)
(* them.                                                                   *)
THEOREM ReturnedInOrder == Spec => []ServedInTurn
<1>1. SessionInv => ServedInTurn
  BY DEF SessionInv, LineInv, LineOrder, InOrder, Before, ServedInTurn
<1>2. QED BY <1>1, Inductive, PTL

-----------------------------------------------------------------------------
(* Type correctness of the channels.  It needs what the numbers tell apart: *)
(* a Data message has bytes because it is an application's.                 *)

Feed == AppMessage \cup {Msg(k) : k \in Requests \cup Replies}
Event == AppMessage \cup {Msg("Close"), NoEvent}

FeedTypes ==
  /\ wire \in [End -> Seq(Feed)]
  /\ pending \in [End -> Seq(Byte)]
  /\ \A e \in End : Len(pending[e]) <= ChunkLen
  /\ resizes \in [End -> Seq(AppMessage)]
  /\ closed \in [End -> BOOLEAN]
  /\ reader \in [End -> {"none", "events", "bytes"}]
  /\ call \in [End -> {"none", "recv", "next_event", "finished"}]
  /\ event \in [End -> Event]
  /\ seen \in [End -> Seq(Message \cup Byte)]
  /\ popped \in [End -> Seq(AppMessage)]
  /\ abandoned \subseteq Chan
  /\ said \in [End -> 0..MaxSaid]

LEMMA FeedFacts ==
  /\ MaxSaid \in Nat /\ ChunkLen \in Nat /\ BufLen \in Nat
  /\ MaxSaid >= 1 /\ ChunkLen >= 1 /\ BufLen >= 1
  /\ AppMessage \subseteq Message /\ Feed \subseteq Message
  /\ Event \ {NoEvent} \subseteq Message
  /\ \A k \in Requests \cup Replies : Msg(k) \in Feed
  /\ \A m \in Feed : m.kind \in AppKinds => m \in AppMessage
  /\ \A m \in Event : IsData(m) \/ IsResize(m) => m \in AppMessage
<1>1. /\ MaxSaid \in Nat /\ ChunkLen \in Nat /\ BufLen \in Nat
      /\ MaxSaid >= 1 /\ ChunkLen >= 1 /\ BufLen >= 1
  BY ChannelAssumption DEF ChannelAssumption
<1>2. AppMessage \subseteq Message
  BY <1>1 DEF AppMessage, Message
<1>3. \A k \in Requests \cup Replies \cup {"Close"} : Msg(k) \in Message
  BY <1>1 DEF Msg, Message, AppKinds
<1>4. \A k \in Requests \cup Replies : Msg(k) \in Feed /\ Msg(k).kind = k
  BY DEF Feed, Msg
<1>5. \A k \in Requests \cup Replies : k \notin AppKinds
  BY DEF Requests, Replies, AppKinds
<1>6. \A m \in Feed : m.kind \in AppKinds => m \in AppMessage
  BY <1>4, <1>5 DEF Feed
<1>7. \A m \in Event : IsData(m) \/ IsResize(m) => m \in AppMessage
  BY DEF Event, IsData, IsResize, Msg, NoEvent
<1>8. Feed \subseteq Message /\ Event \ {NoEvent} \subseteq Message
  BY <1>2, <1>3 DEF Feed, Event
<1>9. QED BY <1>1, <1>2, <1>4, <1>6, <1>7, <1>8

LEMMA SeqWider ==
  ASSUME NEW S, NEW T, S \subseteq T
  PROVE  Seq(S) \subseteq Seq(T)
  BY SeqMonotonic

LEMMA BytesType ==
  ASSUME NEW m \in AppMessage
  PROVE  Bytes(m) \in Seq(Byte) /\ Len(Bytes(m)) = ChunkLen
<1>1. /\ MaxSaid \in Nat /\ ChunkLen \in Nat /\ MaxSaid >= 1 /\ ChunkLen >= 1
      /\ m.n \in 1..MaxSaid
  BY FeedFacts DEF AppMessage
<1>2. ASSUME NEW i \in 1..ChunkLen
      PROVE  (m.n - 1) * ChunkLen + i \in 1..(MaxSaid * ChunkLen)
  <2>1. m.n - 1 \in Nat /\ (m.n - 1) * ChunkLen \in Nat
    BY <1>1
  <2>2. (MaxSaid - m.n) * ChunkLen \in Nat
    <3>1. MaxSaid - m.n \in Nat
      BY <1>1
    <3>2. QED BY <1>1, <3>1
  <2>3. MaxSaid * ChunkLen = (MaxSaid - m.n) * ChunkLen + (m.n - 1) * ChunkLen + ChunkLen
    BY <1>1
  <2>4. QED BY <1>1, <2>1, <2>2, <2>3
<1>3. Bytes(m) \in [1..ChunkLen -> Byte]
  BY <1>2 DEF Bytes, Byte
<1>4. QED BY <1>1, <1>3

LEMMA PieceType ==
  ASSUME NEW S, NEW s \in Seq(S), NEW n \in Nat, n <= Len(s)
  PROVE  /\ SubSeq(s, 1, n) \in Seq(S)
         /\ SubSeq(s, n + 1, Len(s)) \in Seq(S)
         /\ Len(SubSeq(s, n + 1, Len(s))) <= Len(s)
<1>1. Len(s) \in Nat
  BY SeqFacts
<1>2. \A m \in 1..(Len(s) + 1) : \A k \in (m - 1)..Len(s) :
        SubSeq(s, m, k) \in Seq(S) /\ Len(SubSeq(s, m, k)) = k - m + 1
  BY SubSeqProperties
<1>3. QED BY <1>1, <1>2

LEMMA InitFeed == Init => FeedTypes
<1> SUFFICES ASSUME Init PROVE FeedTypes
  OBVIOUS
<1> USE DEF Init, ChannelInit
<1>1. /\ <<>> \in Seq(Feed) /\ <<>> \in Seq(Byte) /\ <<>> \in Seq(AppMessage)
      /\ <<>> \in Seq(Message \cup Byte) /\ Len(<<>>) = 0
  BY SeqFacts
<1>2. /\ wire \in [End -> Seq(Feed)] /\ pending \in [End -> Seq(Byte)]
      /\ resizes \in [End -> Seq(AppMessage)] /\ seen \in [End -> Seq(Message \cup Byte)]
      /\ popped \in [End -> Seq(AppMessage)]
  BY <1>1
<1>3. \A e \in End : Len(pending[e]) <= ChunkLen
  <2>1. 0 <= ChunkLen
    BY FeedFacts
  <2>2. \A e \in End : pending[e] = <<>>
    OBVIOUS
  <2>3. QED BY <1>1, <2>1, <2>2
<1>4. event \in [End -> Event]
  BY DEF Event
<1>5. said \in [End -> 0..MaxSaid]
  BY FeedFacts
<1>6. QED BY <1>2, <1>3, <1>4, <1>5 DEF FeedTypes

(* What a read disturbs.                                                   *)
LEMMA ReadTypes ==
  ASSUME FeedTypes, NEW e \in End, ReadChannel(e)
  PROVE  FeedTypes'
<1> USE DEF FeedTypes
<1>o. UNCHANGED <<abandoned, said>>
  BY DEF ReadChannel, sessionVars
<1>1. CASE CallNextEvent(e)
  BY <1>o, <1>1 DEF CallNextEvent
<1>2. CASE CallRecv(e)
  BY <1>o, <1>2 DEF CallRecv
<1>3. CASE PopResize(e)
  <2>1. CASE UNCHANGED <<popped, resizes>>
    BY <1>o, <1>3, <2>1 DEF PopResize
  <2>2. CASE resizes[e] # <<>>
    <3>1. resizes[e] \in Seq(AppMessage) /\ popped[e] \in Seq(AppMessage)
      OBVIOUS
    <3>2. Head(resizes[e]) \in AppMessage /\ Tail(resizes[e]) \in Seq(AppMessage)
      BY <2>2, <3>1, SeqFacts
    <3>3. Append(popped[e], Head(resizes[e])) \in Seq(AppMessage)
      BY <3>1, <3>2, SeqFacts
    <3>4. QED BY <1>o, <1>3, <2>2, <3>2, <3>3 DEF PopResize
  <2>3. QED BY <1>3, <2>1, <2>2 DEF PopResize
<1>4. CASE NextIsQueuedResize(e)
  <2>1. Head(resizes[e]) \in AppMessage /\ Tail(resizes[e]) \in Seq(AppMessage)
    <3>1. resizes[e] \in Seq(AppMessage) /\ resizes[e] # <<>>
      BY <1>4 DEF NextIsQueuedResize
    <3>2. QED BY <3>1, SeqFacts
  <2>2. Head(resizes[e]) \in Event
    BY <2>1 DEF Event
  <2>3. QED BY <1>o, <1>4, <2>1, <2>2 DEF NextIsQueuedResize
<1>5. CASE NextIsClosed(e)
  BY <1>o, <1>5 DEF NextIsClosed, Event
<1>6. CASE NextIsMessage(e)
  <2>1. Head(wire[e]) \in Feed /\ Tail(wire[e]) \in Seq(Feed)
    <3>1. wire[e] \in Seq(Feed) /\ wire[e] # <<>>
      BY <1>6 DEF NextIsMessage
    <3>2. QED BY <3>1, SeqFacts
  <2>2. (IF Head(wire[e]).kind \in AppKinds THEN Head(wire[e]) ELSE NoEvent) \in Event
    BY <2>1, FeedFacts DEF Event
  <2>3. event' \in [End -> Event] /\ closed' \in [End -> BOOLEAN]
    BY <1>6, <2>2 DEF NextIsMessage, Waited
  <2>4. QED BY <1>o, <1>6, <2>1, <2>3 DEF NextIsMessage
<1>7. CASE ReturnEvent(e)
  <2>1. event[e] \in Message
    BY <1>7, FeedFacts DEF ReturnEvent
  <2>2. seen[e] \in Seq(Message \cup Byte) /\ event[e] \in Message \cup Byte
    BY <2>1
  <2>3. Append(seen[e], event[e]) \in Seq(Message \cup Byte)
    BY <2>2, SeqFacts
  <2>4. NoEvent \in Event
    BY DEF Event
  <2>5. QED BY <1>o, <1>7, <2>3, <2>4 DEF ReturnEvent
<1>8. CASE RecvCopies(e)
  <2> DEFINE n == MinOf(Len(pending[e]), BufLen)
  <2>1. pending[e] \in Seq(Byte) /\ seen[e] \in Seq(Message \cup Byte)
        /\ Len(pending[e]) \in Nat /\ Len(pending[e]) <= ChunkLen
    BY SeqFacts
  <2>2. n \in Nat /\ n <= Len(pending[e])
    BY <2>1, FeedFacts DEF MinOf
  <2> HIDE DEF n
  <2>3. /\ SubSeq(pending[e], 1, n) \in Seq(Byte)
        /\ SubSeq(pending[e], n + 1, Len(pending[e])) \in Seq(Byte)
        /\ Len(SubSeq(pending[e], n + 1, Len(pending[e]))) <= Len(pending[e])
    BY <2>1, <2>2, PieceType
  <2>4. SubSeq(pending[e], 1, n) \in Seq(Message \cup Byte)
    BY <2>3, SeqWider
  <2>5. seen[e] \o SubSeq(pending[e], 1, n) \in Seq(Message \cup Byte)
    BY <2>1, <2>4
  <2>6. seen' \in [End -> Seq(Message \cup Byte)]
    BY <1>8, <2>5 DEF RecvCopies, n
  <2>7. pending' = [pending EXCEPT ![e] = SubSeq(pending[e], n + 1, Len(pending[e]))]
    BY <1>8 DEF RecvCopies, n
  <2>8. Len(SubSeq(pending[e], n + 1, Len(pending[e]))) <= ChunkLen
    <3>1. Len(SubSeq(pending[e], n + 1, Len(pending[e]))) \in Nat
      BY <2>3, SeqFacts
    <3>2. QED BY <2>1, <2>3, <3>1, FeedFacts
  <2>9. pending' \in [End -> Seq(Byte)] /\ \A f \in End : Len(pending'[f]) <= ChunkLen
    BY <2>3, <2>7, <2>8
  <2>10. QED BY <1>o, <1>8, <2>6, <2>9 DEF RecvCopies
<1>9. CASE RecvKeeps(e)
  <2>1. event[e] \in Event /\ resizes[e] \in Seq(AppMessage)
    OBVIOUS
  <2>2. IsData(event[e]) => /\ Bytes(event[e]) \in Seq(Byte)
                            /\ Len(Bytes(event[e])) <= ChunkLen
    BY <2>1, FeedFacts, BytesType
  <2>3. IsResize(event[e]) => Append(resizes[e], event[e]) \in Seq(AppMessage)
    BY <2>1, FeedFacts, SeqFacts
  <2>4. resizes' \in [End -> Seq(AppMessage)]
    BY <1>9, <2>3 DEF RecvKeeps
  <2>5. pending' \in [End -> Seq(Byte)] /\ \A f \in End : Len(pending'[f]) <= ChunkLen
    BY <1>9, <2>2 DEF RecvKeeps
  <2>6. NoEvent \in Event
    BY DEF Event
  <2>7. QED BY <1>o, <1>9, <2>4, <2>5, <2>6 DEF RecvKeeps
<1>10. CASE RecvFails(e)
  BY <1>o, <1>10 DEF RecvFails, Event
<1>11. QED
  BY <1>1, <1>2, <1>3, <1>4, <1>5, <1>6, <1>7, <1>8, <1>9, <1>10
  DEF ReadChannel, Read, CallStep, NextEvent, Return

LEMMA ModesOfEnd ==
  ASSUME NEW e \in End, NEW r \in Modes[e]
  PROVE  r \in {"none", "events", "bytes"}
  BY SessionAssumption DEF SessionAssumption

LEMMA FeedStep ==
  ASSUME LineTypes, FeedTypes, [Next]_vars
  PROVE  FeedTypes'
<1> USE DEF FeedTypes
<1>1. ASSUME UNCHANGED <<wire, pending, resizes, closed, reader, call, event, seen, popped,
                         abandoned, said>>
      PROVE  FeedTypes'
  BY <1>1
<1>2. ASSUME NEW c \in Conn, Handler(c) \/ SessionEnds(c) PROVE FeedTypes'
  BY <1>1, <1>2 DEF Handler, AuthPublickey, AuthSucceeded, SessionEnds, chanVars
<1>3. ASSUME NEW c \in Conn, TakeChannel(c) \/ PassOver(c) PROVE FeedTypes'
  BY <1>1, <1>3 DEF TakeChannel, PassOver, chanVars
<1>4. ASSUME NEW c \in Conn, CancelNext(c) PROVE FeedTypes'
  <2>1. taking[c] \in Chan
    BY <1>4 DEF CancelNext, LineTypes
  <2>2. QED BY <1>4, <2>1 DEF CancelNext, chanVars
<1>5. ASSUME NEW c \in Conn, Classify(c) PROVE FeedTypes'
  <2> DEFINE e == Server(taking[c])
  <2>1. e \in End
    BY <1>5, EndsOfChannel DEF Classify, LineTypes
  <2>2. wire[e] \in Seq(Feed) /\ wire[e] # <<>>
    BY <1>5, <2>1 DEF Classify
  <2>3. wire' = [wire EXCEPT ![e] = Tail(wire[e])] /\ Tail(wire[e]) \in Seq(Feed)
    BY <1>5, <2>2, SeqFacts DEF Classify
  <2>4. reader' \in [End -> {"none", "events", "bytes"}]
    <3>1. CASE UNCHANGED reader
      BY <3>1
    <3>2. CASE \E r \in Modes[e] : reader' = [reader EXCEPT ![e] = r]
      BY <2>1, <3>2, ModesOfEnd
    <3>3. QED BY <1>5, <3>1, <3>2 DEF Classify
  <2>5. UNCHANGED <<pending, resizes, closed, call, event, seen, popped, abandoned, said>>
    BY <1>5 DEF Classify
  <2>6. wire' \in [End -> Seq(Feed)]
    BY <2>3
  <2>7. QED BY <2>4, <2>5, <2>6
<1>6. ASSUME Accept PROVE FeedTypes'
  BY <1>1, <1>6 DEF Accept, chanVars
<1>7. ASSUME NEW k \in Chan, ClientOpens(k) \/ ClientRequests(k) \/ ClientGivesUp(k)
                             \/ OpenFails(k) \/ ChannelOpenSession(k)
      PROVE  FeedTypes'
  BY <1>1, <1>7 DEF ClientOpens, ClientRequests, ClientGivesUp, OpenFails,
                    ChannelOpenSession, chanVars
<1>8. ASSUME NEW k \in Chan, WaitForReply(k) PROVE FeedTypes'
  <2> DEFINE e == Client(k)
  <2>1. e \in End
    BY EndsOfChannel
  <2>2. wire[e] \in Seq(Feed) /\ wire[e] # <<>>
    BY <1>8, <2>1 DEF WaitForReply
  <2>3. wire' = [wire EXCEPT ![e] = Tail(wire[e])] /\ Tail(wire[e]) \in Seq(Feed)
    BY <1>8, <2>2, SeqFacts DEF WaitForReply
  <2>4. reader' \in [End -> {"none", "events", "bytes"}]
    <3> DEFINE b == Head(wire[e]).kind = "success" /\ AfterReply(k) = "open"
    <3>1. PICK r \in Modes[e] : reader' = [reader EXCEPT ![e] = IF b THEN r ELSE @]
      BY <1>8 DEF WaitForReply
    <3> HIDE DEF b
    <3>2. r \in {"none", "events", "bytes"}
      BY <2>1, ModesOfEnd
    <3>3. QED BY <2>1, <3>1, <3>2
  <2>5. QED BY <1>8, <2>3, <2>4 DEF WaitForReply
<1>9. ASSUME NEW k \in Chan, FirstRequestArrives(k) \/ ShellRequestArrives(k)
      PROVE  FeedTypes'
  <2>o. Kind[k] \in Requests /\ "shell" \in Requests
    BY SessionAssumption DEF SessionAssumption, Requests
  <2>1. PICK r \in Requests : RequestArrives(k, r)
    BY <1>9, <2>o DEF FirstRequestArrives, ShellRequestArrives
  <2>2. Server(k) \in End /\ Client(k) \in End
    BY EndsOfChannel
  <2>3. Msg(r) \in Feed /\ Msg("success") \in Feed
    BY FeedFacts DEF Replies
  <2>4. /\ Append(wire[Server(k)], Msg(r)) \in Seq(Feed)
        /\ Append(wire[Client(k)], Msg("success")) \in Seq(Feed)
    BY <2>2, <2>3, SeqFacts
  <2>5. wire' \in [End -> Seq(Feed)]
    <3>1. Client(k) # Server(k)
      BY DEF Client, Server
    <3>2. QED BY <2>1, <2>2, <2>4, <3>1 DEF RequestArrives
  <2>6. UNCHANGED <<abandoned, said>>
    BY <2>1 DEF RequestArrives
  <2>7. QED BY <2>1, <2>5, <2>6 DEF RequestArrives
<1>10. ASSUME NEW e \in End, Say(e) PROVE FeedTypes'
  <2>1. Says[e] \in Seq(AppMessage) /\ Len(Says[e]) \in Nat /\ Len(Says[e]) <= MaxSaid
    BY SessionAssumption, SeqFacts DEF SessionAssumption
  <2>2. said[e] + 1 \in 1..Len(Says[e]) /\ said[e] + 1 \in 0..MaxSaid
    BY <1>10, <2>1, FeedFacts DEF Say
  <2>3. Says[e][said[e] + 1] \in Feed
    BY <2>1, <2>2 DEF Feed
  <2>4. Append(wire[e], Says[e][said[e] + 1]) \in Seq(Feed)
    BY <2>3, SeqFacts
  <2>5. QED BY <1>10, <2>2, <2>4 DEF Say
<1>11. ASSUME NEW e \in End, ReadChannel(e) PROVE FeedTypes'
  BY <1>11, ReadTypes
<1>12. CASE UNCHANGED vars
  BY <1>1, <1>12 DEF vars, chanVars, sessionVars
<1>13. QED
  BY <1>2, <1>3, <1>4, <1>5, <1>6, <1>7, <1>8, <1>9, <1>10, <1>11, <1>12
  DEF Next, NextChannel, ClientOpen, ChannelHandler

LEMMA FeedInductive == Spec => []FeedTypes
<1>1. Init => FeedTypes
  BY InitFeed
<1>2. SessionInv /\ FeedTypes /\ [Next]_vars => FeedTypes'
  BY FeedStep DEF SessionInv
<1>3. QED BY <1>1, <1>2, Inductive, PTL DEF Spec

(* Every variable of the listener, its connections and the ends of their   *)
(* channels has its type; recv never has more bytes pending than a message *)
(* brings, and neither queue outgrows its bound.                           *)
THEOREM SessionTypeCorrect == Spec => []TypeOK
<1>1. ASSUME SessionInv, FeedTypes PROVE TypeOK
  <2>1. /\ Seq(Feed) \subseteq Seq(Message) /\ Seq(AppMessage) \subseteq Seq(Message)
    BY FeedFacts, SeqWider
  <2>2. wire \in [End -> Seq(Message)] /\ resizes \in [End -> Seq(Message)]
        /\ popped \in [End -> Seq(Message)]
    BY <1>1, <2>1 DEF FeedTypes
  <2>3. event \in [End -> Message \cup {NoEvent}]
    BY <1>1, FeedFacts DEF FeedTypes
  <2>4. ChannelTypeOK
    BY <1>1, <2>2, <2>3 DEF SessionInv, LineTypes, FeedTypes, ChannelTypeOK
  <2>5. QED BY <1>1, <2>4 DEF SessionInv, LineTypes, FeedTypes, TypeOK
<1>2. QED BY <1>1, Inductive, FeedInductive, PTL

-----------------------------------------------------------------------------
(* Only: what it selects, read off the positions of the selection.         *)

Places(s, M) == {i \in DOMAIN s : s[i] \in M}
Nth(I, k) == CHOOSE i \in I : Cardinality({j \in I : j <= i}) = k

LEMMA OnlyByPlace ==
  ASSUME NEW s, NEW M
  PROVE  Only(s, M) = [k \in 1..Cardinality(Places(s, M)) |-> s[Nth(Places(s, M), k)]]
  BY DEF Only, Places, Nth

(* A finite set of numbers is counted off in its order.                    *)
LEMMA CountedOff ==
  ASSUME NEW n \in Nat, NEW I \in SUBSET (1..n)
  PROVE  /\ Cardinality(I) \in Nat
         /\ \A k \in 1..Cardinality(I) :
              /\ Nth(I, k) \in I
              /\ \A m \in 1..Cardinality(I) : k < m => Nth(I, k) < Nth(I, m)
         /\ \A i \in I : \E k \in 1..Cardinality(I) : Nth(I, k) = i
<1> DEFINE Below(i) == {j \in I : j <= i}
           rank == [i \in I |-> Cardinality(Below(i))]
           c == Cardinality(I)
<1>1. IsFiniteSet(I) /\ c \in Nat
  <2>1. IsFiniteSet(1..n)
    BY FS_Interval
  <2>2. IsFiniteSet(I)
    BY <2>1, FS_Subset
  <2>3. QED BY <2>2, FS_CardinalityType
<1>2. ASSUME NEW i \in I PROVE rank[i] \in 1..c
  <2>1. Below(i) \in SUBSET I /\ i \in Below(i)
    OBVIOUS
  <2>2. IsFiniteSet(Below(i)) /\ Cardinality(Below(i)) <= c
    BY <1>1, <2>1, FS_Subset
  <2>3. Cardinality(Below(i)) \in Nat /\ Cardinality(Below(i)) # 0
    BY <2>1, <2>2, FS_CardinalityType, FS_EmptySet
  <2>4. QED BY <1>1, <2>2, <2>3
<1>3. ASSUME NEW i \in I, NEW j \in I, i < j PROVE rank[i] < rank[j]
  <2>1. Below(i) \in SUBSET Below(j) /\ j \in Below(j) /\ j \notin Below(i)
    <3>1. i \in Int /\ j \in Int /\ \A x \in I : x \in Int
      OBVIOUS
    <3>2. \A x \in I : x <= i => x <= j
      BY <1>3, <3>1
    <3>3. Below(i) \subseteq Below(j)
      BY <3>2
    <3>4. j <= j /\ ~(j <= i)
      BY <1>3, <3>1
    <3>5. QED BY <3>3, <3>4
  <2>2. IsFiniteSet(Below(j))
    BY <1>1, FS_Subset
  <2>3. Cardinality(Below(i)) <= Cardinality(Below(j))
        /\ Cardinality(Below(i)) # Cardinality(Below(j))
    BY <2>1, <2>2, FS_Subset
  <2>4. rank[i] \in Nat /\ rank[j] \in Nat
    BY <1>1, <1>2
  <2>5. QED BY <2>3, <2>4
<1>4. \A i, j \in I : rank[i] = rank[j] => i = j
  <2> SUFFICES ASSUME NEW i \in I, NEW j \in I, rank[i] = rank[j], i # j PROVE FALSE
    OBVIOUS
  <2>1. i < j \/ j < i
    OBVIOUS
  <2>2. rank[i] \in Nat /\ rank[j] \in Nat
    BY <1>1, <1>2
  <2>3. QED BY <1>3, <2>1, <2>2
<1> HIDE DEF c
<1>5. \A k \in 1..c : \E i \in I : rank[i] = k
  <2>1. rank \in Injection(I, 1..c)
    <3>1. rank \in [I -> 1..c]
      BY <1>2
    <3>2. QED BY <1>4, <3>1, Zenon DEF Injection, IsInjective
  <2>2. IsFiniteSet(1..c) /\ Cardinality(1..c) = c
    BY <1>1, FS_Interval
  <2>3. rank \in Surjection(I, 1..c)
    BY <2>1, <2>2, FS_Injection DEF c
  <2>4. QED BY <2>3, Zenon DEF Surjection
<1>6. \A k \in 1..c : Nth(I, k) \in I /\ rank[Nth(I, k)] = k
  BY <1>5 DEF Nth
<1>7. ASSUME NEW k \in 1..c, NEW m \in 1..c, k < m PROVE Nth(I, k) < Nth(I, m)
  <2>1. Nth(I, k) \in I /\ Nth(I, m) \in I
        /\ rank[Nth(I, k)] = k /\ rank[Nth(I, m)] = m
    BY <1>6
  <2> DEFINE x == Nth(I, k)
             y == Nth(I, m)
  <2> HIDE DEF x, y, rank
  <2>2. x \in I /\ y \in I /\ rank[x] = k /\ rank[y] = m
    BY <2>1 DEF x, y
  <2>3. x \in Int /\ y \in Int /\ k \in Int /\ m \in Int
    BY <2>2
  <2>4. ~(y < x) /\ y # x
    BY <1>3, <1>7, <2>2, <2>3
  <2>5. x < y
    BY <2>3, <2>4
  <2>6. QED BY <2>5 DEF x, y
<1>8. \A i \in I : \E k \in 1..c : Nth(I, k) = i
  BY <1>2, <1>4, <1>6
<1>9. QED BY <1>1, <1>6, <1>7, <1>8 DEF c

(* f counts off the places, in their order, of the members of t in s.      *)
CountsOff(f, t, s, M) ==
  /\ f \in [1..Len(t) -> Places(s, M)]
  /\ \A j, k \in 1..Len(t) : j < k => f[j] < f[k]
  /\ \A i \in Places(s, M) : \E k \in 1..Len(t) : f[k] = i
  /\ \A k \in 1..Len(t) : t[k] = s[f[k]]

LEMMA OnlyIs ==
  ASSUME NEW S, NEW s \in Seq(S), NEW M, NEW t \in Seq(S), NEW f,
         CountsOff(f, t, s, M)
  PROVE  Only(s, M) = t
<1> DEFINE I == Places(s, M)
           n == Len(t)
           Below(i) == {j \in I : j <= i}
<1>1. n \in Nat /\ Len(s) \in Nat /\ I \in SUBSET (1..Len(s)) /\ f \in [1..n -> I]
      /\ DOMAIN t = 1..n
  BY SeqFacts DEF Places, CountsOff
<1>o. /\ \A j, k \in 1..n : j < k => f[j] < f[k]
      /\ \A i \in I : \E k \in 1..n : f[k] = i
      /\ \A k \in 1..n : t[k] = s[f[k]]
  BY DEF CountsOff
<1> HIDE DEF I, n
<1>2. \A j, k \in 1..n : (f[j] <= f[k] <=> j <= k) /\ (f[j] = f[k] => j = k)
  <2> SUFFICES ASSUME NEW j \in 1..n, NEW k \in 1..n
               PROVE  (f[j] <= f[k] <=> j <= k) /\ (f[j] = f[k] => j = k)
    OBVIOUS
  <2>1. f[j] \in Int /\ f[k] \in Int /\ j \in Int /\ k \in Int
    <3>1. f[j] \in I /\ f[k] \in I
      BY <1>1
    <3>2. I \subseteq 1..Len(s)
      BY <1>1
    <3>3. 1..Len(s) \subseteq Int /\ 1..n \subseteq Int
      BY <1>1
    <3>4. QED BY <3>1, <3>2, <3>3
  <2>2. (j < k => f[j] < f[k]) /\ (k < j => f[k] < f[j])
    BY <1>o
  <2>3. QED BY <2>1, <2>2
<1>3. ASSUME NEW k \in 0..n, NEW T, T = {f[j] : j \in 1..k}
      PROVE  Cardinality(T) = k
  <2> DEFINE g == [j \in 1..k |-> f[j]]
  <2>1. \A j \in 1..k : j \in 1..n
    BY <1>1
  <2>2. g \in [1..k -> T]
    BY <1>3
  <2>3. \A i, j \in 1..k : g[i] = g[j] => i = j
    BY <1>2, <2>1
  <2>4. \A x \in T : \E j \in 1..k : g[j] = x
    BY <1>3
  <2> HIDE DEF g
  <2>5. g \in Bijection(1..k, T)
    <3>1. g \in Injection(1..k, T)
      BY <2>2, <2>3, Zenon DEF Injection, IsInjective
    <3>2. g \in Surjection(1..k, T)
      BY <2>2, <2>4, Zenon DEF Surjection
    <3>3. QED BY <3>1, <3>2 DEF Bijection
  <2>6. ExistsBijection(1..k, T)
    BY <2>5, Zenon DEF ExistsBijection
  <2>7. k \in Nat
    BY <1>1
  <2>8. QED BY <2>6, <2>7, FS_CountingElements
<1>4. Cardinality(I) = n
  <2>1. I = {f[j] : j \in 1..n}
    BY <1>1, <1>o
  <2>2. n \in 0..n
    BY <1>1
  <2>3. QED BY <1>3, <2>1, <2>2
<1>5. ASSUME NEW k \in 1..n PROVE Cardinality(Below(f[k])) = k
  <2>1. Below(f[k]) = {f[j] : j \in 1..k}
    <3>1. ASSUME NEW x \in Below(f[k]) PROVE x \in {f[j] : j \in 1..k}
      <4>1. PICK j \in 1..n : f[j] = x
        BY <1>o
      <4>2. j <= k
        BY <1>2, <4>1
      <4>3. j \in 1..k
        BY <1>1, <4>2
      <4>4. QED BY <4>1, <4>3
    <3>2. ASSUME NEW j \in 1..k PROVE f[j] \in Below(f[k])
      <4>1. j \in 1..n /\ j <= k
        BY <1>1
      <4>2. QED BY <1>1, <1>2, <4>1
    <3>3. QED BY <3>1, <3>2
  <2>2. k \in 0..n
    BY <1>1
  <2> HIDE DEF Below
  <2>3. QED BY <1>3, <2>1, <2>2
<1>6. ASSUME NEW k \in 1..n PROVE Nth(I, k) = f[k]
  <2>1. f[k] \in I /\ Cardinality(Below(f[k])) = k
    BY <1>1, <1>5
  <2>2. \A i \in I : Cardinality(Below(i)) = k => i = f[k]
    <3> SUFFICES ASSUME NEW i \in I, Cardinality(Below(i)) = k PROVE i = f[k]
      OBVIOUS
    <3>1. PICK j \in 1..n : f[j] = i
      BY <1>o
    <3>2. j = k
      BY <1>5, <3>1
    <3>3. QED BY <3>1, <3>2
  <2>3. QED BY <2>1, <2>2 DEF Nth
<1>7. Only(s, M) = [k \in 1..n |-> s[Nth(I, k)]]
  BY <1>4, OnlyByPlace DEF I
<1>8. Only(s, M) = [k \in 1..n |-> t[k]]
  BY <1>o, <1>6, <1>7
<1>9. t = [k \in 1..n |-> t[k]]
  BY <1>1
<1>10. QED BY <1>8, <1>9

(* It selects members, and selects each or not.                            *)
LEMMA OnlyType ==
  ASSUME NEW S, NEW s \in Seq(S), NEW M
  PROVE  /\ Only(s, M) \in Seq(S) /\ Only(s, M) \in Seq(M)
         /\ Len(Only(s, M)) = Cardinality(Places(s, M))
         /\ \A k \in 1..Len(Only(s, M)) : Only(s, M)[k] = s[Nth(Places(s, M), k)]
<1> DEFINE I == Places(s, M)
<1>1. Len(s) \in Nat /\ I \in SUBSET (1..Len(s)) /\ \A i \in I : s[i] \in S /\ s[i] \in M
  BY SeqFacts DEF Places
<1>2. Cardinality(I) \in Nat /\ \A k \in 1..Cardinality(I) : Nth(I, k) \in I
  BY <1>1, CountedOff
<1>3. Only(s, M) = [k \in 1..Cardinality(I) |-> s[Nth(I, k)]]
  BY OnlyByPlace
<1> HIDE DEF I
<1>4. Only(s, M) \in [1..Cardinality(I) -> S] /\ Only(s, M) \in [1..Cardinality(I) -> M]
  BY <1>1, <1>2, <1>3
<1>5. Only(s, M) \in Seq(S) /\ Only(s, M) \in Seq(M) /\ Len(Only(s, M)) = Cardinality(I)
  BY <1>2, <1>4
<1>6. \A k \in 1..Cardinality(I) : Only(s, M)[k] = s[Nth(I, k)]
  BY <1>3
<1>7. QED BY <1>5, <1>6 DEF I

(* Only takes what it selects of the one, then of the other.               *)
LEMMA OnlyConcat ==
  ASSUME NEW S, NEW s \in Seq(S), NEW t \in Seq(S), NEW M
  PROVE  Only(s \o t, M) = Only(s, M) \o Only(t, M)
<1> DEFINE I == Places(s, M)
           J == Places(t, M)
           a == Len(s)
           p == Cardinality(I)
           q == Cardinality(J)
           v == Only(s, M)
           w == Only(t, M)
           u == v \o w
           f == [k \in 1..(p + q) |-> IF k <= p THEN Nth(I, k) ELSE a + Nth(J, k - p)]
<1>1. /\ a \in Nat /\ Len(t) \in Nat
      /\ I \in SUBSET (1..a) /\ J \in SUBSET (1..Len(t))
  BY SeqFacts DEF Places
<1>2. /\ s \o t \in Seq(S) /\ Len(s \o t) = a + Len(t)
      /\ \A i \in 1..a : (s \o t)[i] = s[i]
      /\ \A i \in 1..Len(t) : (s \o t)[a + i] = t[i]
  <2>1. /\ s \o t \in Seq(S) /\ Len(s \o t) = a + Len(t)
        /\ \A i \in 1..(a + Len(t)) : (s \o t)[i] = IF i <= a THEN s[i] ELSE t[i - a]
    BY ConcatProperties
  <2>2. \A i \in 1..Len(t) : a + i \in 1..(a + Len(t)) /\ ~(a + i <= a) /\ (a + i) - a = i
    BY <1>1
  <2>3. \A i \in 1..a : i \in 1..(a + Len(t)) /\ i <= a
    BY <1>1
  <2>4. QED BY <2>1, <2>2, <2>3
<1>3. /\ p \in Nat /\ q \in Nat
      /\ \A k \in 1..p : Nth(I, k) \in I /\ \A m \in 1..p : k < m => Nth(I, k) < Nth(I, m)
      /\ \A k \in 1..q : Nth(J, k) \in J /\ \A m \in 1..q : k < m => Nth(J, k) < Nth(J, m)
      /\ \A i \in I : \E k \in 1..p : Nth(I, k) = i
      /\ \A i \in J : \E k \in 1..q : Nth(J, k) = i
  BY <1>1, CountedOff
<1>4. /\ v \in Seq(S) /\ w \in Seq(S) /\ Len(v) = p /\ Len(w) = q
      /\ \A k \in 1..p : v[k] = s[Nth(I, k)]
      /\ \A k \in 1..q : w[k] = t[Nth(J, k)]
  <2>1. /\ v \in Seq(S) /\ Len(v) = p
        /\ \A k \in 1..Len(v) : v[k] = s[Nth(I, k)]
    BY OnlyType
  <2>2. /\ w \in Seq(S) /\ Len(w) = q
        /\ \A k \in 1..Len(w) : w[k] = t[Nth(J, k)]
    BY OnlyType
  <2>3. QED BY <2>1, <2>2
<1> HIDE DEF v, w
<1>5. /\ u \in Seq(S) /\ Len(u) = p + q
      /\ \A k \in 1..(p + q) : u[k] = IF k <= p THEN s[Nth(I, k)] ELSE t[Nth(J, k - p)]
  <2>1. /\ u \in Seq(S) /\ Len(u) = p + q
        /\ \A k \in 1..(p + q) : u[k] = IF k <= p THEN v[k] ELSE w[k - p]
    <3> HIDE DEF p, q
    <3>1. /\ v \o w \in Seq(S) /\ Len(v \o w) = Len(v) + Len(w)
          /\ \A k \in 1..(Len(v) + Len(w)) :
               (v \o w)[k] = IF k <= Len(v) THEN v[k] ELSE w[k - Len(v)]
      BY <1>4, ConcatProperties
    <3>2. QED BY <1>4, <3>1
  <2>2. \A k \in 1..(p + q) : (k <= p => k \in 1..p) /\ (~(k <= p) => k - p \in 1..q)
    BY <1>3
  <2>3. QED BY <1>4, <2>1, <2>2
<1>6. Places(s \o t, M) = I \cup {a + j : j \in J}
  <2>1. DOMAIN (s \o t) = 1..(a + Len(t))
    BY <1>2, SeqFacts
  <2>2. ASSUME NEW i \in 1..(a + Len(t)), (s \o t)[i] \in M
        PROVE  i \in I \cup {a + j : j \in J}
    <3>1. CASE i <= a
      <4>1. i \in 1..a
        BY <1>1, <3>1
      <4>2. QED BY <1>2, <2>2, <4>1, SeqFacts DEF Places
    <3>2. CASE ~(i <= a)
      <4>1. i - a \in 1..Len(t) /\ a + (i - a) = i
        BY <1>1, <3>2
      <4>2. i - a \in J
        BY <1>2, <2>2, <4>1, SeqFacts DEF Places
      <4>3. QED BY <4>1, <4>2
    <3>3. QED BY <3>1, <3>2
  <2>3. ASSUME NEW i \in I PROVE i \in 1..(a + Len(t)) /\ (s \o t)[i] \in M
    <3>1. i \in 1..a /\ s[i] \in M
      BY <1>1 DEF Places
    <3>2. QED BY <1>1, <1>2, <3>1
  <2>4. ASSUME NEW j \in J PROVE a + j \in 1..(a + Len(t)) /\ (s \o t)[a + j] \in M
    <3>1. j \in 1..Len(t) /\ t[j] \in M
      BY <1>1 DEF Places
    <3>2. QED BY <1>1, <1>2, <3>1
  <2> HIDE DEF I, J
  <2>5. QED BY <2>1, <2>2, <2>3, <2>4 DEF Places
<1> HIDE DEF I, J, a, p, q, u
<1>7. \A k \in 1..(p + q) : /\ k <= p => k \in 1..p /\ f[k] = Nth(I, k)
                            /\ ~(k <= p) => k - p \in 1..q /\ f[k] = a + Nth(J, k - p)
  BY <1>3
<1>8. f \in [1..Len(u) -> Places(s \o t, M)]
  <2>1. \A k \in 1..(p + q) : f[k] \in I \cup {a + j : j \in J}
    BY <1>3, <1>7
  <2>2. f \in [1..(p + q) -> I \cup {a + j : j \in J}]
    BY <2>1
  <2>3. QED BY <1>5, <1>6, <2>2
<1>9. ASSUME NEW j \in 1..(p + q), NEW k \in 1..(p + q), j < k PROVE f[j] < f[k]
  <2>1. CASE k <= p
    <3>1. j <= p /\ j \in 1..p /\ k \in 1..p
      BY <1>3, <1>9, <2>1
    <3>2. Nth(I, j) < Nth(I, k)
      BY <1>3, <1>9, <3>1
    <3>3. QED BY <1>7, <2>1, <3>1, <3>2
  <2>2. CASE j <= p /\ ~(k <= p)
    <3>1. f[j] \in I /\ k - p \in 1..q /\ f[k] = a + Nth(J, k - p) /\ Nth(J, k - p) \in J
      BY <1>3, <1>7, <2>2
    <3>2. f[j] \in 1..a /\ Nth(J, k - p) \in 1..Len(t)
      BY <1>1, <3>1
    <3>3. QED BY <1>1, <3>1, <3>2
  <2>3. CASE ~(j <= p)
    <3>1. ~(k <= p) /\ j - p \in 1..q /\ k - p \in 1..q /\ j - p < k - p
      BY <1>3, <1>9, <2>3
    <3>2. Nth(J, j - p) < Nth(J, k - p) /\ Nth(J, j - p) \in J /\ Nth(J, k - p) \in J
      BY <1>3, <3>1
    <3>3. Nth(J, j - p) \in Int /\ Nth(J, k - p) \in Int
      <4>1. J \subseteq 1..Len(t) /\ 1..Len(t) \subseteq Int
        BY <1>1
      <4>2. QED BY <3>2, <4>1
    <3>4. f[j] = a + Nth(J, j - p) /\ f[k] = a + Nth(J, k - p)
      BY <1>7, <2>3, <3>1
    <3>5. QED BY <1>1, <3>2, <3>3, <3>4
  <2>4. QED BY <2>1, <2>2, <2>3
<1>10. ASSUME NEW i \in Places(s \o t, M) PROVE \E k \in 1..(p + q) : f[k] = i
  <2>1. CASE i \in I
    <3>1. PICK k \in 1..p : Nth(I, k) = i
      BY <1>3, <2>1
    <3>2. k \in 1..(p + q) /\ k <= p
      BY <1>3
    <3>3. QED BY <1>7, <3>1, <3>2
  <2>2. ASSUME NEW j \in J, i = a + j PROVE \E k \in 1..(p + q) : f[k] = i
    <3>1. PICK k \in 1..q : Nth(J, k) = j
      BY <1>3
    <3>2. p + k \in 1..(p + q) /\ ~(p + k <= p) /\ (p + k) - p = k
      BY <1>3
    <3>3. f[p + k] = a + j
      BY <1>7, <3>1, <3>2
    <3>4. QED BY <2>2, <3>2, <3>3
  <2>3. QED BY <1>6, <2>1, <2>2
<1>11. ASSUME NEW k \in 1..(p + q) PROVE u[k] = (s \o t)[f[k]]
  <2>1. CASE k <= p
    <3>1. f[k] = Nth(I, k) /\ f[k] \in 1..a
      BY <1>1, <1>3, <1>7, <2>1
    <3>2. QED BY <1>2, <1>5, <2>1, <3>1
  <2>2. CASE ~(k <= p)
    <3>1. f[k] = a + Nth(J, k - p) /\ Nth(J, k - p) \in 1..Len(t)
      BY <1>1, <1>3, <1>7, <2>2
    <3>2. QED BY <1>2, <1>5, <2>2, <3>1
  <2>3. QED BY <2>1, <2>2
<1> HIDE DEF f
<1>12. Only(s \o t, M) = u
  <2>1. /\ \A j, k \in 1..Len(u) : j < k => f[j] < f[k]
        /\ \A i \in Places(s \o t, M) : \E k \in 1..Len(u) : f[k] = i
        /\ \A k \in 1..Len(u) : u[k] = (s \o t)[f[k]]
    BY <1>5, <1>9, <1>10, <1>11
  <2>2. s \o t \in Seq(S) /\ u \in Seq(S)
    BY <1>2, <1>5
  <2> DEFINE st == s \o t
  <2>3. /\ st \in Seq(S) /\ f \in [1..Len(u) -> Places(st, M)]
        /\ \A j, k \in 1..Len(u) : j < k => f[j] < f[k]
        /\ \A i \in Places(st, M) : \E k \in 1..Len(u) : f[k] = i
        /\ \A k \in 1..Len(u) : u[k] = st[f[k]]
    BY <1>8, <2>1, <2>2
  <2> HIDE DEF st
  <2>4. CountsOff(f, u, st, M)
    BY <2>3, Zenon DEF CountsOff
  <2>5. Only(st, M) = u
    BY <2>2, <2>3, <2>4, OnlyIs
  <2>6. QED BY <2>5 DEF st
<1>13. QED BY <1>12 DEF u, v, w

LEMMA OnlyOne ==
  ASSUME NEW S, NEW x \in S, NEW M
  PROVE  /\ Only(<<>>, M) = <<>>
         /\ x \in M => Only(<<x>>, M) = <<x>>
         /\ x \notin M => Only(<<x>>, M) = <<>>
<1>1. /\ <<>> \in Seq(S) /\ Len(<<>>) = 0 /\ <<x>> \in Seq(S) /\ Len(<<x>>) = 1
      /\ DOMAIN <<x>> = 1..1 /\ <<x>>[1] = x
  OBVIOUS
<1>2. ASSUME NEW s \in Seq(S), Places(s, M) = {} PROVE Only(s, M) = <<>>
  <2>1. Len(Only(s, M)) = 0 /\ Only(s, M) \in Seq(S)
    BY <1>2, OnlyType, FS_EmptySet
  <2>2. QED BY <2>1
<1>3. Places(<<>>, M) = {}
  BY DEF Places
<1>4. x \notin M => Places(<<x>>, M) = {}
  BY <1>1 DEF Places
<1>5. ASSUME x \in M PROVE Only(<<x>>, M) = <<x>>
  <2>1. Places(<<x>>, M) = {1}
    BY <1>1, <1>5 DEF Places
  <2> DEFINE z == <<x>>
             o == Only(z, M)
  <2>s. z \in Seq(S) /\ Places(z, M) = {1} /\ z[1] = x
    BY <1>1, <2>1
  <2> HIDE DEF z
  <2>o. /\ o \in Seq(S) /\ Len(o) = Cardinality({1})
        /\ \A k \in 1..Len(o) : o[k] = z[Nth({1}, k)]
    <3>1. /\ o \in Seq(S) /\ Len(o) = Cardinality(Places(z, M))
          /\ \A k \in 1..Len(o) : o[k] = z[Nth(Places(z, M), k)]
      <4>1. z \in Seq(S)
        BY <2>s
      <4>2. QED BY <4>1, OnlyType
    <3>2. QED BY <2>s, <3>1
  <2> HIDE DEF o
  <2>c. Cardinality({1}) = 1
    BY FS_Singleton
  <2>2. Len(o) = 1 /\ o \in Seq(S) /\ o[1] = z[Nth({1}, 1)]
    BY <2>o, <2>c
  <2>3. Nth({1}, 1) = 1
    <3>0. {1} \in SUBSET (1..1)
      OBVIOUS
    <3>1. {1} \in SUBSET (1..1) /\ Cardinality({1}) = 1
      BY <2>c, <3>0
    <3>2. 1 \in Nat /\ 1 \in 1..1
      OBVIOUS
    <3>3. Nth({1}, 1) \in {1}
      BY <3>1, <3>2, CountedOff
    <3>4. QED BY <3>3
  <2>4. o[1] = x
    BY <2>2, <2>3, <2>s
  <2>5. o = <<x>>
    BY <1>1, <2>2, <2>4, SeqEqual
  <2>6. QED BY <2>5 DEF o, z
<1>6. QED BY <1>1, <1>2, <1>3, <1>4, <1>5

LEMMA OnlyNone ==
  ASSUME NEW S, NEW s \in Seq(S), NEW M, \A i \in DOMAIN s : s[i] \notin M
  PROVE  Only(s, M) = <<>>
<1>1. Places(s, M) = {}
  BY DEF Places
<1>2. Len(Only(s, M)) = 0 /\ Only(s, M) \in Seq(S)
  BY <1>1, OnlyType, FS_EmptySet
<1>3. QED BY <1>2

(* Division by a positive number.                                          *)
LEMMA QuotientIs ==
  ASSUME NEW n \in Nat, NEW a \in Nat, NEW c \in Nat, c >= 1,
         n * c <= a, a < n * c + c
  PROVE  a \div c = n /\ a % c = a - n * c
  OBVIOUS

LEMMA Quotient ==
  ASSUME NEW a \in Nat, NEW c \in Nat, c >= 1
  PROVE  /\ a \div c \in Nat /\ (a \div c) * c \in Nat
         /\ (a \div c) * c <= a /\ a < (a \div c) * c + c
         /\ a % c = a - (a \div c) * c /\ a % c \in 0..(c - 1)
<1> DEFINE n == a \div c
<1>1. n \in Nat /\ n * c <= a /\ a < n * c + c
  OBVIOUS
<1> HIDE DEF n
<1>2. a % c = a - n * c
  BY <1>1, QuotientIs
<1>3. n * c \in Nat
  BY <1>1
<1>4. a % c \in 0..(c - 1)
  BY <1>1, <1>2, <1>3
<1>5. QED BY <1>1, <1>2, <1>3, <1>4 DEF n

LEMMA QuotientBelow ==
  ASSUME NEW a \in Nat, NEW c \in Nat, c >= 1, NEW n \in Nat, a < n * c
  PROVE  a \div c < n
  OBVIOUS

LEMMA QuotientShift ==
  ASSUME NEW a \in Nat, NEW c \in Nat, c >= 1, NEW n \in Nat
  PROVE  /\ (a + n * c) \div c = n + a \div c
         /\ (a + n * c) % c = a % c
<1> DEFINE q == a \div c
<1>1. q \in Nat /\ q * c \in Nat /\ q * c <= a /\ a < q * c + c /\ a % c = a - q * c
  BY Quotient
<1> HIDE DEF q
<1>2. (n + q) * c = n * c + q * c /\ n * c \in Nat
  BY <1>1
<1> DEFINE b == a + n * c
           m == n + q
<1>3. b \in Nat /\ m \in Nat /\ m * c <= b /\ b < m * c + c /\ b - m * c = a - q * c
  BY <1>1, <1>2
<1> HIDE DEF b, m
<1>4. b \div c = m /\ b % c = a - q * c
  BY <1>3, QuotientIs
<1>5. QED BY <1>1, <1>4 DEF b, m, q

(* Where the bytes of n messages begin and end.                            *)
LEMMA Spans ==
  ASSUME NEW c \in Nat, c >= 1, NEW n \in Nat, NEW m \in Nat
  PROVE  /\ n * c \in Nat /\ m * c \in Nat /\ (n + m) * c = n * c + m * c
         /\ 0 * c = 0 /\ 1 * c = c
  OBVIOUS

-----------------------------------------------------------------------------
(* Stream: the bytes of one message, then of the next.                     *)

Unpack(d) ==
  [x \in 1..(Len(d) * ChunkLen) |->
     Bytes(d[(x - 1) \div ChunkLen + 1])[((x - 1) % ChunkLen) + 1]]

LEMMA StreamUnpacks == ASSUME NEW s PROVE Stream(s) = Unpack(Only(s, DataMessage))
  BY DEF Stream, Unpack

LEMMA Chunk == ChunkLen \in Nat /\ ChunkLen >= 1
  BY ChannelAssumption

(* Every byte lies in the span of one message.                             *)
LEMMA UnpackType ==
  ASSUME NEW d \in Seq(AppMessage)
  PROVE  /\ Unpack(d) \in Seq(Byte) /\ Len(Unpack(d)) = Len(d) * ChunkLen
         /\ \A x \in 1..(Len(d) * ChunkLen) :
              Unpack(d)[x] = Bytes(d[(x - 1) \div ChunkLen + 1])[((x - 1) % ChunkLen) + 1]
<1> DEFINE c == ChunkLen
           n == Len(d) * c
           at(x) == (x - 1) \div c + 1
           in(x) == ((x - 1) % c) + 1
<1>1. Len(d) \in Nat /\ n \in Nat
  BY Chunk, Spans
<1>2. ASSUME NEW x \in 1..n PROVE at(x) \in 1..Len(d) /\ in(x) \in 1..c
  <2>1. x - 1 \in Nat /\ x - 1 < n
    BY <1>1
  <2>2. (x - 1) \div c \in Nat /\ (x - 1) % c \in 0..(c - 1)
    BY <2>1, Chunk, Quotient
  <2>3. (x - 1) \div c < Len(d)
    BY <1>1, <2>1, Chunk, QuotientBelow
  <2>4. QED BY <1>1, <2>2, <2>3, Chunk
<1>3. ASSUME NEW x \in 1..n PROVE Bytes(d[at(x)])[in(x)] \in Byte
  <2>1. d[at(x)] \in AppMessage
    BY <1>1, <1>2
  <2>2. Bytes(d[at(x)]) \in [1..c -> Byte]
    <3>1. Bytes(d[at(x)]) \in Seq(Byte) /\ Len(Bytes(d[at(x)])) = c
      BY <2>1, BytesType
    <3>2. QED BY <3>1
  <2>3. QED BY <1>2, <2>2
<1>4. Unpack(d) = [x \in 1..n |-> Bytes(d[at(x)])[in(x)]]
  BY DEF Unpack
<1> HIDE DEF at, in, n
<1>5. Unpack(d) \in [1..n -> Byte]
  BY <1>3, <1>4
<1>6. Unpack(d) \in Seq(Byte) /\ Len(Unpack(d)) = n
  BY <1>1, <1>5
<1>7. QED BY <1>4, <1>6 DEF at, in, n

(* The bytes of the one sequence, then of the other.                       *)
LEMMA UnpackConcat ==
  ASSUME NEW d \in Seq(AppMessage), NEW g \in Seq(AppMessage)
  PROVE  Unpack(d \o g) = Unpack(d) \o Unpack(g)
<1> DEFINE c == ChunkLen
           p == Len(d) * c
           q == Len(g) * c
           h == d \o g
           u == Unpack(d)
           v == Unpack(g)
           w == Unpack(h)
<1>1. /\ Len(d) \in Nat /\ Len(g) \in Nat /\ p \in Nat /\ q \in Nat
      /\ h \in Seq(AppMessage) /\ Len(h) = Len(d) + Len(g)
      /\ \A i \in 1..Len(d) : h[i] = d[i]
      /\ \A i \in 1..Len(g) : h[Len(d) + i] = g[i]
  <2>1. Len(d) \in Nat /\ Len(g) \in Nat /\ p \in Nat /\ q \in Nat
    BY Chunk, Spans
  <2>2. /\ h \in Seq(AppMessage) /\ Len(h) = Len(d) + Len(g)
        /\ \A i \in 1..(Len(d) + Len(g)) : h[i] = IF i <= Len(d) THEN d[i] ELSE g[i - Len(d)]
    BY ConcatProperties
  <2>3. \A i \in 1..Len(g) : /\ Len(d) + i \in 1..(Len(d) + Len(g))
                             /\ ~(Len(d) + i <= Len(d)) /\ (Len(d) + i) - Len(d) = i
    BY <2>1
  <2>4. \A i \in 1..Len(d) : i \in 1..(Len(d) + Len(g)) /\ i <= Len(d)
    BY <2>1
  <2> HIDE DEF h, p, q
  <2>5. QED BY <2>1, <2>2, <2>3, <2>4
<1>2. Len(h) * c = p + q
  BY <1>1, Chunk, Spans
<1> HIDE DEF h
<1>3. /\ u \in Seq(Byte) /\ Len(u) = p
      /\ \A x \in 1..p : u[x] = Bytes(d[(x - 1) \div c + 1])[((x - 1) % c) + 1]
  BY UnpackType
<1>4. /\ v \in Seq(Byte) /\ Len(v) = q
      /\ \A x \in 1..q : v[x] = Bytes(g[(x - 1) \div c + 1])[((x - 1) % c) + 1]
  BY UnpackType
<1>5. /\ w \in Seq(Byte) /\ Len(w) = p + q
      /\ \A x \in 1..(p + q) : w[x] = Bytes(h[(x - 1) \div c + 1])[((x - 1) % c) + 1]
  <2>1. /\ w \in Seq(Byte) /\ Len(w) = Len(h) * c
        /\ \A x \in 1..(Len(h) * c) : w[x] = Bytes(h[(x - 1) \div c + 1])[((x - 1) % c) + 1]
    BY <1>1, UnpackType
  <2> HIDE DEF w, p, q, c
  <2>2. QED BY <1>2, <2>1
<1> HIDE DEF u, v, w
<1>6. ASSUME NEW x \in 1..p PROVE w[x] = u[x]
  <2>1. x - 1 \in Nat /\ x - 1 < p /\ x \in 1..(p + q)
    BY <1>1
  <2>2. (x - 1) \div c \in Nat
    BY <2>1, Chunk, Quotient
  <2>3. (x - 1) \div c < Len(d)
    BY <1>1, <2>1, Chunk, QuotientBelow
  <2>4. (x - 1) \div c + 1 \in 1..Len(d)
    BY <1>1, <2>2, <2>3
  <2>5. h[(x - 1) \div c + 1] = d[(x - 1) \div c + 1]
    BY <1>1, <2>4
  <2> HIDE DEF p, q, c
  <2>6. QED BY <1>3, <1>5, <2>1, <2>5
<1>7. ASSUME NEW x \in 1..q PROVE w[p + x] = v[x]
  <2> DEFINE a == x - 1
             b == a \div c
             r == a % c
  <2>1. a \in Nat /\ a < q /\ p + x \in 1..(p + q)
    BY <1>1
  <2>2. b \in Nat
    BY <2>1, Chunk, Quotient
  <2>3. b < Len(g)
    BY <1>1, <2>1, Chunk, QuotientBelow
  <2>t. a \in Nat /\ Len(d) \in Nat /\ c \in Nat /\ c >= 1
    BY <1>1, <2>1, Chunk
  <2>4. (a + p) \div c = Len(d) + b /\ (a + p) % c = r
    <3> HIDE DEF a, c
    <3>1. QED BY <2>t, QuotientShift
  <2>5. (p + x) - 1 = a + p
    BY <1>1
  <2> HIDE DEF b, r, c, p, q
  <2>6. b + 1 \in 1..Len(g)
    BY <1>1, <2>2, <2>3
  <2>7. h[Len(d) + (b + 1)] = g[b + 1]
    BY <1>1, <2>6
  <2>8. (Len(d) + b) + 1 = Len(d) + (b + 1)
    BY <1>1, <2>2
  <2>9. w[p + x] = Bytes(h[(Len(d) + b) + 1])[r + 1]
    <3>1. w[p + x] = Bytes(h[((p + x) - 1) \div c + 1])[(((p + x) - 1) % c) + 1]
      BY <1>5, <2>1
    <3>2. QED BY <2>4, <2>5, <3>1
  <2>10. v[x] = Bytes(g[b + 1])[r + 1]
    BY <1>4 DEF b, r
  <2>11. QED BY <2>7, <2>8, <2>9, <2>10
<1>8. w = u \o v
  <2>1. /\ u \o v \in Seq(Byte) /\ Len(u \o v) = p + q
        /\ \A x \in 1..(p + q) : (u \o v)[x] = IF x <= p THEN u[x] ELSE v[x - p]
    <3> HIDE DEF p, q
    <3>1. /\ u \o v \in Seq(Byte) /\ Len(u \o v) = Len(u) + Len(v)
          /\ \A x \in 1..(Len(u) + Len(v)) :
               (u \o v)[x] = IF x <= Len(u) THEN u[x] ELSE v[x - Len(u)]
      BY <1>3, <1>4, ConcatProperties
    <3>2. QED BY <1>3, <1>4, <3>1
  <2> HIDE DEF p, q
  <2>2. ASSUME NEW x \in 1..(p + q) PROVE w[x] = (u \o v)[x]
    <3>1. CASE x <= p
      <4>1. x \in 1..p
        BY <1>1, <3>1
      <4>2. QED BY <1>6, <2>1, <3>1, <4>1
    <3>2. CASE ~(x <= p)
      <4>1. x - p \in 1..q /\ p + (x - p) = x
        BY <1>1, <3>2
      <4>2. w[p + (x - p)] = v[x - p]
        BY <1>7, <4>1
      <4>3. QED BY <2>1, <3>2, <4>1, <4>2
    <3>3. QED BY <3>1, <3>2
  <2>3. QED BY <1>5, <2>1, <2>2, SeqEqual
<1>9. QED BY <1>8 DEF u, v, w, h

LEMMA UnpackOne ==
  /\ Unpack(<<>>) = <<>>
  /\ \A m \in AppMessage : Unpack(<<m>>) = Bytes(m)
<1>1. Unpack(<<>>) = <<>>
  <2>1. <<>> \in Seq(AppMessage) /\ Len(<<>>) = 0
    OBVIOUS
  <2>2. Unpack(<<>>) \in Seq(Byte) /\ Len(Unpack(<<>>)) = 0
    <3> DEFINE d == <<>>
    <3>1. d \in Seq(AppMessage) /\ Len(d) * ChunkLen = 0
      BY <2>1, Chunk, Spans
    <3> HIDE DEF d
    <3>2. Unpack(d) \in Seq(Byte) /\ Len(Unpack(d)) = Len(d) * ChunkLen
      BY <3>1, UnpackType
    <3>3. QED BY <3>1, <3>2 DEF d
  <2>3. QED BY <2>2
<1>2. ASSUME NEW m \in AppMessage PROVE Unpack(<<m>>) = Bytes(m)
  <2> DEFINE c == ChunkLen
             d == <<m>>
             u == Unpack(d)
  <2>1. d \in Seq(AppMessage) /\ Len(d) = 1 /\ d[1] = m
    OBVIOUS
  <2>2. 1 * c = c
    BY Chunk
  <2> HIDE DEF d
  <2>3. /\ u \in Seq(Byte) /\ Len(u) = Len(d) * c
        /\ \A x \in 1..(Len(d) * c) : u[x] = Bytes(d[(x - 1) \div c + 1])[((x - 1) % c) + 1]
    BY <2>1, UnpackType
  <2> HIDE DEF u
  <2>4. ASSUME NEW x \in 1..c PROVE u[x] = Bytes(m)[x]
    <3>1. x - 1 \in Nat /\ x - 1 < 0 * c + c /\ 0 * c <= x - 1 /\ 0 \in Nat
      BY Chunk
    <3>2. (x - 1) \div c = 0 /\ (x - 1) % c = (x - 1) - 0 * c
      BY <3>1, Chunk, QuotientIs
    <3>3. (x - 1) \div c + 1 = 1 /\ ((x - 1) % c) + 1 = x
      BY <3>2, Chunk
    <3> HIDE DEF c
    <3>4. QED BY <2>1, <2>2, <2>3, <3>3
  <2>5. Bytes(m) \in Seq(Byte) /\ Len(Bytes(m)) = c
    BY BytesType
  <2> HIDE DEF c
  <2>6. u \in Seq(Byte) /\ Len(u) = c
    BY <2>1, <2>2, <2>3
  <2>7. u = Bytes(m)
    BY <2>4, <2>5, <2>6, SeqEqual
  <2>8. QED BY <2>7 DEF u, d
<1>3. QED BY <1>1, <1>2

LEMMA Parts ==
  ASSUME NEW S
  PROVE  /\ \A s \in Seq(S), x \in S : Append(s, x) = s \o <<x>> /\ <<x>> \in Seq(S)
         /\ \A s \in Seq(S) : s # <<>> => s = <<Head(s)>> \o Tail(s)
         /\ \A s, t \in Seq(S) : s \o t \in Seq(S)
         /\ \A s \in Seq(S) : s \o <<>> = s /\ <<>> \o s = s
<1>1. ASSUME NEW s \in Seq(S), NEW x \in S
      PROVE  Append(s, x) = s \o <<x>> /\ <<x>> \in Seq(S)
  OBVIOUS
<1>2. ASSUME NEW s \in Seq(S), s # <<>> PROVE s = <<Head(s)>> \o Tail(s)
  <2>1. Len(s) \in Nat \ {0}
    BY <1>2, EmptySeq
  <2>2. SubSeq(s, 1, Len(s)) = <<s[1]>> \o SubSeq(s, 2, Len(s))
    <3>1. 1 \in 1..Len(s) /\ Len(s) \in 1..Len(s)
      BY <2>1
    <3>2. SubSeq(s, 1, Len(s)) = <<s[1]>> \o SubSeq(s, 1 + 1, Len(s))
      BY <3>1, SubSeqRecursiveFirst
    <3>3. QED BY <3>2
  <2>3. SubSeq(s, 1, Len(s)) = s /\ SubSeq(s, 2, Len(s)) = Tail(s)
    BY <1>2, SubSeqFull, TailIsSubSeq
  <2>4. Head(s) = s[1]
    BY <1>2, SeqFacts
  <2>5. QED BY <2>2, <2>3, <2>4
<1>3. ASSUME NEW s \in Seq(S), NEW t \in Seq(S) PROVE s \o t \in Seq(S)
  OBVIOUS
<1>4. ASSUME NEW s \in Seq(S) PROVE s \o <<>> = s /\ <<>> \o s = s
  BY ConcatEmptySeq
<1>5. QED BY <1>1, <1>2, <1>3, <1>4

(* The sequence of x if it is in M, or nothing.                            *)
One(x, M) == IF x \in M THEN <<x>> ELSE <<>>

LEMMA OnlyAppend ==
  ASSUME NEW S, NEW M, NEW s \in Seq(S), NEW x \in S
  PROVE  Only(Append(s, x), M) = Only(s, M) \o One(x, M)
<1> DEFINE y == <<x>>
<1>1. Append(s, x) = s \o y /\ y \in Seq(S)
  BY Parts
<1>2. Only(y, M) = One(x, M)
  BY OnlyOne DEF One
<1> HIDE DEF y
<1>3. Only(s \o y, M) = Only(s, M) \o Only(y, M)
  BY <1>1, OnlyConcat
<1>4. QED BY <1>1, <1>2, <1>3

LEMMA OnlyHead ==
  ASSUME NEW S, NEW M, NEW s \in Seq(S), s # <<>>
  PROVE  Only(s, M) = One(Head(s), M) \o Only(Tail(s), M)
<1> DEFINE x == Head(s)
           y == <<x>>
           t == Tail(s)
<1>1. s = y \o t
  BY Parts
<1>2. x \in S /\ t \in Seq(S)
  BY SeqFacts
<1> HIDE DEF x, t
<1>3. y \in Seq(S)
  BY <1>2, Parts
<1>4. Only(y, M) = One(x, M)
  BY <1>2, OnlyOne DEF One
<1> HIDE DEF y
<1>5. Only(y \o t, M) = Only(y, M) \o Only(t, M)
  BY <1>2, <1>3, OnlyConcat
<1>6. QED BY <1>1, <1>4, <1>5 DEF x, t

(* Only, Stream and Geometry follow a sequence as it grows and shrinks.    *)
LEMMA OnlySteps ==
  ASSUME NEW S, NEW M
  PROVE  /\ Only(<<>>, M) = <<>>
         /\ \A s \in Seq(S) : Only(s, M) \in Seq(M) /\ Only(s, M) \in Seq(S)
         /\ \A s, t \in Seq(S) : Only(s \o t, M) = Only(s, M) \o Only(t, M)
         /\ \A s \in Seq(S), x \in S : Only(Append(s, x), M) = Only(s, M) \o One(x, M)
         /\ \A s \in Seq(S) : s # <<>> => Only(s, M) = One(Head(s), M) \o Only(Tail(s), M)
         /\ \A x \in S : Only(<<x>>, M) = One(x, M)
<1>1. Only(<<>>, M) = <<>>
  <2>1. \A x \in {1} : Only(<<>>, M) = <<>>
    BY OnlyOne
  <2>2. QED BY <2>1
<1>2. ASSUME NEW s \in Seq(S) PROVE Only(s, M) \in Seq(M) /\ Only(s, M) \in Seq(S)
  BY OnlyType
<1>3. ASSUME NEW s \in Seq(S), NEW t \in Seq(S)
      PROVE  Only(s \o t, M) = Only(s, M) \o Only(t, M)
  BY OnlyConcat
<1>4. ASSUME NEW x \in S PROVE Only(<<x>>, M) = One(x, M)
  BY OnlyOne DEF One
<1>5. ASSUME NEW s \in Seq(S), NEW x \in S
      PROVE  Only(Append(s, x), M) = Only(s, M) \o One(x, M)
  BY OnlyAppend
<1>6. ASSUME NEW s \in Seq(S), s # <<>>
      PROVE  Only(s, M) = One(Head(s), M) \o Only(Tail(s), M)
  BY <1>6, OnlyHead
<1>7. QED BY <1>1, <1>2, <1>3, <1>4, <1>5, <1>6

LEMMA StreamFacts ==
  /\ Stream(<<>>) = <<>>
  /\ \A s \in Seq(AppMessage) : Stream(s) \in Seq(Byte)
  /\ \A s, t \in Seq(AppMessage) : Stream(s \o t) = Stream(s) \o Stream(t)
  /\ \A m \in AppMessage : Stream(<<m>>) = IF IsData(m) THEN Bytes(m) ELSE <<>>
<1> DEFINE data(s) == Only(s, DataMessage)
<1>1. \A s : Stream(s) = Unpack(data(s))
  BY StreamUnpacks
<1>2. \A s \in Seq(AppMessage) : data(s) \in Seq(AppMessage)
  BY OnlySteps
<1>3. data(<<>>) = <<>>
  BY OnlySteps
<1>4. ASSUME NEW s \in Seq(AppMessage), NEW t \in Seq(AppMessage)
      PROVE  data(s \o t) = data(s) \o data(t)
  BY OnlyConcat
<1>5. ASSUME NEW m \in AppMessage
      PROVE  data(<<m>>) = IF IsData(m) THEN <<m>> ELSE <<>>
  <2>1. data(<<m>>) = One(m, DataMessage)
    BY OnlySteps
  <2>2. QED BY <2>1 DEF One, DataMessage
<1> HIDE DEF data
<1>6. Stream(<<>>) = <<>>
  BY <1>1, <1>3, UnpackOne
<1>7. ASSUME NEW s \in Seq(AppMessage) PROVE Stream(s) \in Seq(Byte)
  BY <1>1, <1>2, UnpackType
<1>8. ASSUME NEW s \in Seq(AppMessage), NEW t \in Seq(AppMessage)
      PROVE  Stream(s \o t) = Stream(s) \o Stream(t)
  <2> DEFINE x == data(s)
             y == data(t)
  <2>1. x \in Seq(AppMessage) /\ y \in Seq(AppMessage) /\ data(s \o t) = x \o y
    BY <1>2, <1>4
  <2> HIDE DEF x, y
  <2>2. Unpack(x \o y) = Unpack(x) \o Unpack(y)
    BY <2>1, UnpackConcat
  <2>3. QED BY <1>1, <2>1, <2>2 DEF x, y
<1>9. ASSUME NEW m \in AppMessage
      PROVE  Stream(<<m>>) = IF IsData(m) THEN Bytes(m) ELSE <<>>
  BY <1>1, <1>5, UnpackOne
<1>10. QED BY <1>6, <1>7, <1>8, <1>9

LEMMA GeometryFacts ==
  /\ Geometry(<<>>) = <<>>
  /\ \A s \in Seq(AppMessage) : Geometry(s) \in Seq(ResizeMessage)
  /\ \A s, t \in Seq(AppMessage) : Geometry(s \o t) = Geometry(s) \o Geometry(t)
  /\ \A m \in AppMessage : Geometry(<<m>>) = IF IsResize(m) THEN <<m>> ELSE <<>>
  /\ \A s \in Seq(AppMessage) :
       (\A i \in DOMAIN s : ~IsResize(s[i])) => Geometry(s) = <<>>
<1>1. \A m \in AppMessage : m \in ResizeMessage <=> IsResize(m)
  BY DEF ResizeMessage
<1>2. ASSUME NEW s \in Seq(AppMessage), \A i \in DOMAIN s : ~IsResize(s[i])
      PROVE  Geometry(s) = <<>>
  <2>1. \A i \in DOMAIN s : s[i] \in AppMessage
    BY SeqFacts
  <2>2. \A i \in DOMAIN s : s[i] \notin ResizeMessage
    BY <1>1, <1>2, <2>1
  <2>3. QED BY <2>2, OnlyNone DEF Geometry
<1>3. \A m \in AppMessage : Geometry(<<m>>) = IF IsResize(m) THEN <<m>> ELSE <<>>
  BY <1>1, OnlySteps DEF Geometry, One
<1>4. Geometry(<<>>) = <<>>
  BY OnlySteps DEF Geometry
<1>5. \A s \in Seq(AppMessage) : Geometry(s) \in Seq(ResizeMessage)
  BY OnlySteps DEF Geometry
<1>6. ASSUME NEW s \in Seq(AppMessage), NEW t \in Seq(AppMessage)
      PROVE  Geometry(s \o t) = Geometry(s) \o Geometry(t)
  BY OnlyConcat DEF Geometry
<1>7. QED BY <1>2, <1>3, <1>4, <1>5, <1>6

-----------------------------------------------------------------------------
(* What was sent (t) against what was given and what is to come (d); when  *)
(* l holds, the first of it may be missing.                                *)

AsEvents(l, t, given, d) ==
  \E u \in Seq(AppMessage) : (l \/ u = <<>>) /\ t = u \o (given \o d)
AsBytes(l, t, given, d) ==
  \E u \in Seq(Byte) : (l \/ u = <<>>) /\ Stream(t) = u \o (given \o Stream(d))
AsResizes(t, p, queued, d) == p \o queued \o Geometry(d) = Geometry(t)

Associate(s, t, u) == (s \o t) \o u = s \o (t \o u)
Regroup(u, g, d, x) == (u \o (g \o d)) \o x = u \o (g \o (d \o x))

LEMMA Grouping ==
  ASSUME NEW S
  PROVE  /\ \A s, t, u \in Seq(S) : Associate(s, t, u)
         /\ \A u, g, d, x \in Seq(S) : Regroup(u, g, d, x)
         /\ \A s, t \in Seq(S) : s \o t \in Seq(S)
<1>1. ASSUME NEW s \in Seq(S), NEW t \in Seq(S), NEW u \in Seq(S)
      PROVE  Associate(s, t, u)
  BY ConcatAssociative DEF Associate
<1>2. ASSUME NEW u \in Seq(S), NEW g \in Seq(S), NEW d \in Seq(S), NEW x \in Seq(S)
      PROVE  Regroup(u, g, d, x)
  <2> DEFINE h == g \o d
  <2>1. h \in Seq(S)
    OBVIOUS
  <2>2. Associate(g, d, x)
    BY <1>1
  <2> HIDE DEF h
  <2>3. Associate(u, h, x)
    BY <1>1, <2>1
  <2>4. QED BY <2>2, <2>3 DEF h, Regroup, Associate
<1>3. ASSUME NEW s \in Seq(S), NEW t \in Seq(S) PROVE s \o t \in Seq(S)
  OBVIOUS
<1>4. QED BY <1>1, <1>2, <1>3

(* More is sent, and more is to come.                                      *)
LEMMA MoreEvents ==
  ASSUME NEW l, NEW t \in Seq(AppMessage), NEW g \in Seq(AppMessage),
         NEW d \in Seq(AppMessage), NEW x \in Seq(AppMessage), AsEvents(l, t, g, d)
  PROVE  AsEvents(l, t \o x, g, d \o x)
<1>1. PICK u \in Seq(AppMessage) : (l \/ u = <<>>) /\ t = u \o (g \o d)
  BY DEF AsEvents
<1>2. Regroup(u, g, d, x)
  BY Grouping
<1>3. QED BY <1>1, <1>2 DEF AsEvents, Regroup

LEMMA MoreBytes ==
  ASSUME NEW l, NEW t \in Seq(AppMessage), NEW b \in Seq(Byte),
         NEW d \in Seq(AppMessage), NEW x \in Seq(AppMessage), AsBytes(l, t, b, d)
  PROVE  AsBytes(l, t \o x, b, d \o x)
<1>1. PICK u \in Seq(Byte) : (l \/ u = <<>>) /\ Stream(t) = u \o (b \o Stream(d))
  BY DEF AsBytes
<1> DEFINE y == Stream(x)
           e == Stream(d)
<1>2. Stream(t \o x) = Stream(t) \o y /\ Stream(d \o x) = e \o y /\ y \in Seq(Byte)
      /\ e \in Seq(Byte)
  BY StreamFacts
<1>t. y \in Seq(Byte) /\ e \in Seq(Byte)
  BY <1>2
<1> HIDE DEF y, e
<1>3. Regroup(u, b, e, y)
  BY <1>t, Grouping
<1>4. Stream(t \o x) = u \o (b \o Stream(d \o x))
  BY <1>1, <1>2, <1>3 DEF e, Regroup
<1>5. QED BY <1>1, <1>4 DEF AsBytes

LEMMA MoreResizes ==
  ASSUME NEW t \in Seq(AppMessage), NEW p \in Seq(AppMessage), NEW r \in Seq(AppMessage),
         NEW d \in Seq(AppMessage), NEW x \in Seq(AppMessage), AsResizes(t, p, r, d)
  PROVE  AsResizes(t \o x, p, r, d \o x)
<1> DEFINE y == Geometry(x)
           e == Geometry(d)
<1>1. Geometry(t \o x) = Geometry(t) \o y /\ Geometry(d \o x) = e \o y
  BY GeometryFacts
<1>2. y \in Seq(AppMessage) /\ e \in Seq(AppMessage)
  BY OnlySteps DEF Geometry
<1> HIDE DEF y, e
<1>3. Associate(p \o r, e, y)
  <2>1. p \o r \in Seq(AppMessage)
    OBVIOUS
  <2>2. QED BY <1>2, <2>1, Grouping
<1>4. QED BY <1>1, <1>3 DEF AsResizes, e, Associate

(* An event is given.                                                      *)
LEMMA EventGiven ==
  ASSUME NEW l, NEW t \in Seq(AppMessage), NEW g \in Seq(AppMessage),
         NEW d \in Seq(AppMessage), NEW x \in Seq(AppMessage), AsEvents(l, t, g, x \o d)
  PROVE  AsEvents(l, t, g \o x, d)
<1>1. Associate(g, x, d)
  BY Grouping
<1>2. QED BY <1>1 DEF AsEvents, Associate

(* Something is lost before anything was given.                            *)
LEMMA EventLost ==
  ASSUME NEW t \in Seq(AppMessage), NEW d \in Seq(AppMessage), NEW x \in Seq(AppMessage),
         AsEvents(TRUE, t, <<>>, x \o d)
  PROVE  AsEvents(TRUE, t, <<>>, d)
<1>1. PICK u \in Seq(AppMessage) : t = u \o (<<>> \o (x \o d))
  BY DEF AsEvents
<1>2. <<>> \o (x \o d) = x \o d /\ <<>> \o d = d /\ x \o d \in Seq(AppMessage)
  BY Parts
<1>3. Associate(u, x, d) /\ u \o x \in Seq(AppMessage)
  BY Grouping
<1>4. t = (u \o x) \o (<<>> \o d)
  BY <1>1, <1>2, <1>3 DEF Associate
<1>5. QED BY <1>3, <1>4 DEF AsEvents

(* The reader takes to bytes.                                              *)
LEMMA EventsAsBytes ==
  ASSUME NEW l, NEW t \in Seq(AppMessage), NEW d \in Seq(AppMessage),
         AsEvents(l, t, <<>>, d)
  PROVE  /\ AsBytes(l, t, <<>>, d)
         /\ (~l \/ Geometry(t) = <<>>) => AsResizes(t, <<>>, <<>>, d)
<1>1. PICK u \in Seq(AppMessage) : (l \/ u = <<>>) /\ t = u \o (<<>> \o d)
  BY DEF AsEvents
<1>2. t = u \o d
  BY <1>1, Parts
<1>3. AsBytes(l, t, <<>>, d)
  <2>1. Stream(t) = Stream(u) \o Stream(d) /\ Stream(u) \in Seq(Byte) /\ Stream(d) \in Seq(Byte)
    BY <1>2, StreamFacts
  <2>2. <<>> \o Stream(d) = Stream(d)
    BY <2>1, Parts
  <2>3. l \/ Stream(u) = <<>>
    BY <1>1, StreamFacts
  <2>4. Stream(t) = Stream(u) \o (<<>> \o Stream(d))
    BY <2>1, <2>2
  <2>5. QED BY <2>1, <2>3, <2>4 DEF AsBytes
<1>4. ASSUME ~l \/ Geometry(t) = <<>> PROVE AsResizes(t, <<>>, <<>>, d)
  <2> DEFINE v == Geometry(u)
             e == Geometry(d)
  <2>1. Geometry(t) = v \o e
    BY <1>2, GeometryFacts
  <2>2. v \in Seq(ResizeMessage) /\ e \in Seq(ResizeMessage) /\ (u = <<>> => v = <<>>)
    BY GeometryFacts
  <2> HIDE DEF v, e
  <2>3. (<<>> \o <<>>) \o e = e /\ <<>> \o e = e
    <3>1. <<>> \o <<>> = <<>>
      OBVIOUS
    <3>2. QED BY <2>2, <3>1, Parts
  <2>4. CASE u = <<>>
    <3>1. Geometry(t) = e
      BY <2>1, <2>2, <2>3, <2>4
    <3>2. QED BY <2>3, <3>1 DEF AsResizes, e
  <2>5. CASE Geometry(t) = <<>>
    <3>1. v \o e = <<>>
      BY <2>1, <2>5
    <3>2. e = <<>>
      BY <2>2, <3>1, ConcatEqualIffEmpty
    <3>3. QED BY <2>3, <2>5, <3>2 DEF AsResizes, e
  <2>6. QED BY <1>1, <1>4, <2>4, <2>5
<1>5. QED BY <1>3, <1>4

(* A message at the head of what is to come, and its bytes.                *)
LEMMA BytesOfHead ==
  ASSUME NEW l, NEW t \in Seq(AppMessage), NEW b \in Seq(Byte),
         NEW d \in Seq(AppMessage), NEW m \in AppMessage
  PROVE  /\ IsData(m) => (AsBytes(l, t, b, <<m>> \o d) => AsBytes(l, t, b \o Bytes(m), d))
         /\ ~IsData(m) => (AsBytes(l, t, b, <<m>> \o d) <=> AsBytes(l, t, b, d))
<1> DEFINE e == Stream(d)
           y == Stream(<<m>>)
<1>1. e \in Seq(Byte) /\ y \in Seq(Byte) /\ Stream(<<m>> \o d) = y \o e
      /\ y = IF IsData(m) THEN Bytes(m) ELSE <<>>
  <2>1. <<m>> \in Seq(AppMessage)
    OBVIOUS
  <2>2. QED BY <2>1, StreamFacts
<1> HIDE DEF e, y
<1>2. Associate(b, y, e)
  BY <1>1, Grouping
<1>3. CASE IsData(m)
  BY <1>1, <1>2, <1>3 DEF AsBytes, Associate, e
<1>4. CASE ~IsData(m)
  <2>1. y \o e = e
    BY <1>1, <1>4, Parts
  <2>2. QED BY <1>1, <1>4, <2>1 DEF AsBytes, e
<1>5. QED BY <1>3, <1>4

LEMMA ResizesOfHead ==
  ASSUME NEW t \in Seq(AppMessage), NEW p \in Seq(AppMessage), NEW q \in Seq(AppMessage),
         NEW d \in Seq(AppMessage), NEW m \in AppMessage
  PROVE  /\ IsResize(m) => (AsResizes(t, p, <<>>, <<m>> \o d) <=> AsResizes(t, p, <<m>>, d))
         /\ ~IsResize(m) => (AsResizes(t, p, q, <<m>> \o d) <=> AsResizes(t, p, q, d))
<1> DEFINE e == Geometry(d)
           y == Geometry(<<m>>)
<1>1. e \in Seq(AppMessage) /\ y \in Seq(AppMessage) /\ Geometry(<<m>> \o d) = y \o e
      /\ y = IF IsResize(m) THEN <<m>> ELSE <<>>
  <2>1. <<m>> \in Seq(AppMessage)
    OBVIOUS
  <2>2. e \in Seq(AppMessage) /\ y \in Seq(AppMessage)
    BY <2>1, OnlySteps DEF Geometry
  <2>3. QED BY <2>1, <2>2, GeometryFacts
<1> HIDE DEF e, y
<1>2. CASE IsResize(m)
  <2>1. p \o <<>> = p
    BY Parts
  <2>2. Associate(p, y, e)
    BY <1>1, Grouping
  <2>3. QED BY <1>1, <1>2, <2>1, <2>2 DEF AsResizes, Associate, e
<1>3. CASE ~IsResize(m)
  <2>1. y \o e = e
    BY <1>1, <1>3, Parts
  <2>2. QED BY <1>1, <1>3, <2>1 DEF AsResizes, e
<1>4. QED BY <1>2, <1>3

LEMMA ResizePopped ==
  ASSUME NEW t, NEW d, NEW p \in Seq(AppMessage), NEW m \in AppMessage,
         AsResizes(t, p, <<m>>, d)
  PROVE  AsResizes(t, p \o <<m>>, <<>>, d)
<1>1. p \o <<m>> \in Seq(AppMessage)
  BY Parts
<1>2. (p \o <<m>>) \o <<>> = p \o <<m>>
  BY <1>1, Parts
<1>3. QED BY <1>2 DEF AsResizes

-----------------------------------------------------------------------------
(* The calls of an end: what a reader of each kind can have about.         *)

CallInv(e) ==
  /\ call[e] = "recv" => reader[e] = "bytes"
  /\ call[e] = "next_event" => reader[e] = "events"
  /\ reader[e] = "none" => call[e] = "none" /\ seen[e] = <<>>
  /\ reader[e] # "bytes" => pending[e] = <<>> /\ resizes[e] = <<>> /\ popped[e] = <<>>
  /\ reader[e] = "bytes" => seen[e] \in Seq(Byte)
  /\ event[e] # NoEvent => call[e] \in {"recv", "next_event"}
  /\ event[e] # NoEvent /\ call[e] = "recv" => pending[e] = <<>>
  /\ resizes[e] = <<>> \/ \E m \in ResizeMessage : resizes[e] = <<m>>
  /\ IsResize(event[e]) => resizes[e] = <<>>

(* Each step keeps it: what leaves the end alone, what sets its reader, and*)
(* what its reader does.                                                   *)
LEMMA CallKept ==
  ASSUME NEW e, CallInv(e), reader'[e] = reader[e], call'[e] = call[e],
         seen'[e] = seen[e], pending'[e] = pending[e], resizes'[e] = resizes[e],
         popped'[e] = popped[e], event'[e] = event[e]
  PROVE  CallInv(e)'
  BY DEF CallInv

LEMMA CallBegins ==
  ASSUME NEW e, NEW r, CallInv(e), reader[e] = "none", reader'[e] = r,
         r \in {"none", "events", "bytes"},
         call'[e] = call[e], seen'[e] = seen[e], pending'[e] = pending[e],
         resizes'[e] = resizes[e], popped'[e] = popped[e], event'[e] = event[e]
  PROVE  CallInv(e)'
<1>1. <<>> \in Seq(Byte)
  OBVIOUS
<1>2. /\ call[e] = "none" /\ seen[e] = <<>> /\ pending[e] = <<>> /\ resizes[e] = <<>>
      /\ popped[e] = <<>> /\ event[e] = NoEvent
  BY DEF CallInv
<1>3. ~IsResize(NoEvent)
  BY DEF IsResize, NoEvent
<1>4. QED BY <1>1, <1>2, <1>3 DEF CallInv

LEMMA CallRead ==
  ASSUME FeedTypes, NEW e \in End, CallInv(e), ReadChannel(e)
  PROVE  CallInv(e)'
<1> USE DEF FeedTypes
<1>n. ~IsResize(NoEvent) /\ ~IsResize(Msg("Close"))
  BY DEF IsResize, NoEvent, Msg
<1>1. CASE CallNextEvent(e)
  BY <1>1 DEF CallNextEvent, Reading, CallInv
<1>2. CASE CallRecv(e)
  BY <1>2 DEF CallRecv, Reading, CallInv
<1>t. \A m : Tail(<<m>>) = <<>> /\ Head(<<m>>) = m
  OBVIOUS
<1>3. CASE PopResize(e)
  <2>1. CASE UNCHANGED <<popped, resizes>>
    BY <1>3, <2>1, CallKept DEF PopResize
  <2>2. CASE resizes[e] # <<>>
    <3>1. resizes'[e] = <<>>
      <4>1. PICK m \in ResizeMessage : resizes[e] = <<m>>
        BY <2>2 DEF CallInv
      <4>2. resizes'[e] = Tail(resizes[e])
        BY <1>3, <2>2 DEF PopResize
      <4>3. QED BY <1>t, <4>1, <4>2
    <3>2. reader[e] = "bytes"
      BY <1>3 DEF PopResize, Reading
    <3>3. UNCHANGED <<reader, call, seen, pending, event>>
      BY <1>3 DEF PopResize
    <3>4. QED BY <3>1, <3>2, <3>3 DEF CallInv
  <2>3. QED BY <1>3, <2>1, <2>2 DEF PopResize
<1>4. CASE NextIsQueuedResize(e)
  <2>1. PICK m \in ResizeMessage : resizes[e] = <<m>>
    BY <1>4 DEF NextIsQueuedResize, CallInv
  <2>2. event'[e] = m /\ resizes'[e] = <<>>
    BY <1>4, <2>1, <1>t DEF NextIsQueuedResize
  <2>3. /\ UNCHANGED <<reader, call, seen, pending, popped>>
        /\ call[e] \in {"recv", "next_event"} /\ (call[e] = "recv" => pending[e] = <<>>)
    BY <1>4 DEF NextIsQueuedResize, Wants
  <2>4. QED BY <2>2, <2>3 DEF CallInv
<1>5. CASE NextIsClosed(e)
  <2>1. event'[e] = Msg("Close")
    BY <1>5 DEF NextIsClosed
  <2>2. /\ UNCHANGED <<reader, call, seen, pending, popped, resizes>>
        /\ call[e] \in {"recv", "next_event"} /\ (call[e] = "recv" => pending[e] = <<>>)
    BY <1>5 DEF NextIsClosed, Wants
  <2>3. QED BY <1>n, <2>1, <2>2 DEF CallInv
<1>6. CASE NextIsMessage(e)
  <2>2. /\ UNCHANGED <<reader, call, seen, pending, popped, resizes>> /\ resizes[e] = <<>>
        /\ call[e] \in {"recv", "next_event"} /\ (call[e] = "recv" => pending[e] = <<>>)
    BY <1>6 DEF NextIsMessage, Wants
  <2>3. QED BY <2>2 DEF CallInv
<1>7. CASE ReturnEvent(e)
  <2>1. event'[e] = NoEvent /\ reader[e] = "events" /\ call'[e] \in {"none", "finished"}
    BY <1>7 DEF ReturnEvent, CallInv
  <2>2. UNCHANGED <<reader, pending, popped, resizes>>
    BY <1>7 DEF ReturnEvent
  <2>3. QED BY <1>n, <2>1, <2>2 DEF CallInv
<1>8. CASE RecvCopies(e)
  <2> DEFINE n == MinOf(Len(pending[e]), BufLen)
             s == SubSeq(pending[e], 1, n)
  <2>1. pending[e] \in Seq(Byte) /\ Len(pending[e]) \in Nat
    BY SeqFacts
  <2>2. n \in Nat /\ n <= Len(pending[e])
    BY <2>1, FeedFacts DEF MinOf
  <2>3. reader[e] = "bytes" /\ seen[e] \in Seq(Byte)
    BY <1>8 DEF RecvCopies, CallInv
  <2> HIDE DEF n
  <2>4. s \in Seq(Byte)
    BY <2>1, <2>2, PieceType
  <2>5. seen'[e] = seen[e] \o s
    BY <1>8 DEF RecvCopies, n
  <2> HIDE DEF s
  <2>6. seen'[e] \in Seq(Byte)
    BY <2>3, <2>4, <2>5
  <2>7. UNCHANGED <<reader, event, popped, resizes>> /\ call'[e] = "none" /\ event[e] = NoEvent
    BY <1>8 DEF RecvCopies
  <2>8. QED BY <2>3, <2>6, <2>7 DEF CallInv
<1>9. CASE RecvKeeps(e)
  <2>1. reader[e] = "bytes" /\ call[e] = "recv" /\ event'[e] = NoEvent
    BY <1>9 DEF RecvKeeps, CallInv
  <2>2. UNCHANGED <<reader, call, seen, popped>>
    BY <1>9 DEF RecvKeeps
  <2>3. resizes'[e] = <<>> \/ \E m \in ResizeMessage : resizes'[e] = <<m>>
    <3>1. CASE IsResize(event[e])
      <4>1. event[e] \in ResizeMessage /\ resizes[e] = <<>>
        BY <3>1, FeedFacts DEF ResizeMessage, CallInv
      <4>2. resizes'[e] = Append(resizes[e], event[e])
        BY <1>9, <3>1 DEF RecvKeeps
      <4>3. resizes'[e] = <<event[e]>>
        BY <4>1, <4>2
      <4>4. QED BY <4>1, <4>3
    <3>2. CASE ~IsResize(event[e])
      BY <1>9, <3>2 DEF RecvKeeps, CallInv
    <3>3. QED BY <3>1, <3>2
  <2>4. QED BY <1>n, <2>1, <2>2, <2>3 DEF CallInv
<1>10. CASE RecvFails(e)
  BY <1>n, <1>10 DEF RecvFails, CallInv
<1>11. QED
  BY <1>1, <1>2, <1>3, <1>4, <1>5, <1>6, <1>7, <1>8, <1>9, <1>10
  DEF ReadChannel, Read, CallStep, NextEvent, Return

(* A read leaves the other ends, and what is said, alone; it only reads an *)
(* end that has a reader, and never adds to what is waiting.               *)
LEMMA ReadReach ==
  ASSUME FeedTypes, NEW e \in End, CallInv(e), ReadChannel(e)
  PROVE  /\ reader[e] # "none" /\ reader' = reader
         /\ UNCHANGED sessionVars
         /\ \A f \in End : f # e =>
              /\ wire'[f] = wire[f] /\ call'[f] = call[f] /\ seen'[f] = seen[f]
              /\ pending'[f] = pending[f] /\ resizes'[f] = resizes[f]
              /\ popped'[f] = popped[f] /\ event'[f] = event[f]
<1> USE DEF FeedTypes
<1>0. UNCHANGED sessionVars /\ Read(e)
  BY DEF ReadChannel
<1>1. reader[e] # "none"
  BY <1>0
  DEF CallInv, Read, CallNextEvent, CallRecv, PopResize, Reading, CallStep, NextEvent, Return,
      NextIsQueuedResize, NextIsClosed, NextIsMessage, Wants, ReturnEvent, RecvCopies,
      RecvKeeps, RecvFails
<1>2. /\ reader' = reader
      /\ \A f \in End : f # e =>
              /\ wire'[f] = wire[f] /\ call'[f] = call[f] /\ seen'[f] = seen[f]
              /\ pending'[f] = pending[f] /\ resizes'[f] = resizes[f]
              /\ popped'[f] = popped[f] /\ event'[f] = event[f]
  <2>1. CASE CallNextEvent(e) \/ CallRecv(e) \/ PopResize(e)
    BY <2>1 DEF CallNextEvent, CallRecv, PopResize
  <2>2. CASE NextEvent(e)
    BY <2>2 DEF NextEvent, NextIsQueuedResize, NextIsClosed, NextIsMessage, Waited
  <2>3. CASE Return(e)
    BY <2>3 DEF Return, ReturnEvent, RecvCopies, RecvKeeps, RecvFails
  <2>4. QED BY <1>0, <2>1, <2>2, <2>3 DEF Read, CallStep
<1>3. QED BY <1>0, <1>1, <1>2

-----------------------------------------------------------------------------
(* How far a channel has got: its open, next_channel, its two readers.     *)

Early == {"closed", "asked", "refused", "confirmed", "first sent"}
Requested == {"first await", "shell sent", "shell await", "open"}
Returned(k) == k \in ToSet(served[Owner[k]])

OwnersInv == \A c \in Conn : \A j \in ToSet(opened[c]) : Owner[j] = c

StageInv(k) ==
  /\ opening[k] \in Early =>
       wire[Client(k)] = <<>> /\ wire[Server(k)] = <<>> /\ ~Returned(k)
  /\ opening[k] \in Requested => wire[Server(k)] # <<>> \/ Returned(k)
  /\ ~Returned(k) =>
       /\ reader[Server(k)] = "none"
       /\ wire[Server(k)] # <<>> => Head(wire[Server(k)]).kind \in Requests
  /\ opening[k] # "open" => reader[Client(k)] = "none"
  /\ Kind[k] # "pty" =>
       /\ opening[k] \notin {"shell sent", "shell await"}
       /\ opening[k] = "first await" =>
            wire[Client(k)] # <<>> /\ Head(wire[Client(k)]).kind = "success"

LEMMA OwnersStep ==
  ASSUME LineTypes, OwnersInv, [Next]_vars
  PROVE  OwnersInv'
<1>1. ASSUME UNCHANGED opened PROVE OwnersInv'
  BY <1>1 DEF OwnersInv
<1>2. ASSUME NEW k \in Chan, ChannelOpenSession(k) PROVE OwnersInv'
  <2> DEFINE c == Owner[k]
  <2>1. c \in Conn
    BY EndsOfChannel
  <2>2. opened' = [opened EXCEPT ![c] = Append(opened[c], k)] \/ opened' = opened
    BY <1>2 DEF ChannelOpenSession
  <2>3. ASSUME opened' = [opened EXCEPT ![c] = Append(opened[c], k)],
               NEW d \in Conn, NEW j \in ToSet(opened'[d])
        PROVE  Owner[j] = d
    <3>1. CASE d = c
      <4>1. opened'[d] = Append(opened[c], k) /\ opened[c] \in Seq(Chan)
        BY <2>1, <2>3, <3>1 DEF LineTypes
      <4>2. ToSet(Append(opened[c], k)) = ToSet(opened[c]) \cup {k}
        BY <4>1, MembersOfAppend
      <4>3. QED BY <2>1, <2>3, <3>1, <4>1, <4>2 DEF OwnersInv
    <3>2. CASE d # c
      BY <2>3, <3>2 DEF OwnersInv, LineTypes
    <3>3. QED BY <3>1, <3>2
  <2>4. QED BY <1>1, <2>2, <2>3 DEF OwnersInv
<1>3. ASSUME NEW c \in Conn, Handler(c) \/ SessionEnds(c) \/ NextChannel(c) \/ CancelNext(c)
      PROVE  UNCHANGED opened
  BY <1>3 DEF Handler, AuthPublickey, AuthSucceeded, SessionEnds, NextChannel, TakeChannel,
              Classify, PassOver, CancelNext
<1>4. ASSUME NEW k \in Chan, ClientOpen(k) \/ FirstRequestArrives(k) \/ ShellRequestArrives(k)
      PROVE  UNCHANGED opened
  BY <1>4 DEF ClientOpen, ClientOpens, ClientRequests, ClientGivesUp, WaitForReply, OpenFails,
              FirstRequestArrives, ShellRequestArrives, RequestArrives
<1>5. ASSUME NEW e \in End, Say(e) \/ ReadChannel(e) PROVE UNCHANGED opened
  BY <1>5 DEF Say, ReadChannel, sessionVars
<1>6. Accept \/ UNCHANGED vars => UNCHANGED opened
  BY DEF Accept, vars, sessionVars
<1>7. QED
  BY <1>1, <1>2, <1>3, <1>4, <1>5, <1>6 DEF Next, ChannelHandler

(* What next_channel is classifying it has not returned.                   *)
LEMMA TakenIsNotReturned ==
  ASSUME LineTypes, LineInv, OwnersInv, NEW c \in Conn, taking[c] # NoChan
  PROVE  taking[c] \in Chan /\ Owner[taking[c]] = c /\ ~Returned(taking[c])
<1> DEFINE k == taking[c]
<1>1. k \in Chan /\ k \in Held(c)
  BY DEF LineTypes, Held
<1>2. LineOrder(c) /\ LineMembers(c)
  BY DEF LineInv
<1>3. k \in ToSet(opened[c])
  BY <1>1, <1>2 DEF LineMembers
<1>4. Owner[k] = c
  BY <1>3 DEF OwnersInv
<1>5. ~(k \in ToSet(served[c]))
  BY <1>1, <1>2, OnePlace
<1>6. QED BY <1>1, <1>4, <1>5 DEF Returned

LEMMA StageKept ==
  ASSUME NEW k, StageInv(k), opening'[k] = opening[k],
         wire'[Client(k)] = wire[Client(k)], wire'[Server(k)] = wire[Server(k)],
         reader'[Client(k)] = reader[Client(k)], reader'[Server(k)] = reader[Server(k)],
         Returned(k)' <=> Returned(k)
  PROVE  StageInv(k)'
<1>1. Client(k)' = Client(k) /\ Server(k)' = Server(k)
  BY DEF Client, Server
<1>2. QED BY <1>1 DEF StageInv

LEMMA EndsApart ==
  \A j, k : /\ Client(j) # Server(k)
            /\ Client(j) = Client(k) <=> j = k
            /\ Server(j) = Server(k) <=> j = k
  BY DEF Client, Server

(* The open moves on, and nothing arrives.                                 *)
LEMMA StageOpens ==
  ASSUME LineTypes, NEW k \in Chan, StageInv(k), NEW j \in Chan,
         ClientOpens(j) \/ ClientRequests(j) \/ ClientGivesUp(j) \/ OpenFails(j)
         \/ ChannelOpenSession(j)
  PROVE  StageInv(k)'
<1>1. UNCHANGED <<wire, reader, served>>
  BY DEF ClientOpens, ClientRequests, ClientGivesUp, OpenFails, ChannelOpenSession, chanVars
<1>2. Returned(k)' <=> Returned(k)
  BY <1>1 DEF Returned
<1>3. CASE j # k
  <2>1. opening'[k] = opening[k]
    BY <1>3 DEF ClientOpens, ClientRequests, ClientGivesUp, OpenFails, ChannelOpenSession,
                Advance, LineTypes
  <2>2. QED BY <1>1, <1>2, <2>1, StageKept
<1>4. CASE j = k
  <2>1. /\ opening'[k] \in Early \cup {"failed"}
        /\ opening'[k] \in Early => opening[k] \in Early
        /\ opening[k] # "open"
    BY <1>4 DEF ClientOpens, ClientRequests, ClientGivesUp, OpenFails, ChannelOpenSession,
                Advance, LineTypes, Early, Awaiting
  <2>2. Client(k)' = Client(k) /\ Server(k)' = Server(k)
    BY DEF Client, Server
  <2>3. opening'[k] \notin Requested
    BY <2>1 DEF Early, Requested
  <2>4. opening'[k] \notin {"shell sent", "shell await", "first await"}
    BY <2>1 DEF Early
  <2>5. QED BY <1>1, <1>2, <2>1, <2>2, <2>3, <2>4 DEF StageInv
<1>5. QED BY <1>3, <1>4

LEMMA HeadOfAppend ==
  ASSUME NEW S, NEW s \in Seq(S), NEW x \in S
  PROVE  /\ Append(s, x) # <<>>
         /\ Head(Append(s, x)) = IF s = <<>> THEN x ELSE Head(s)
<1>1. Append(s, x) \in Seq(S) /\ Len(Append(s, x)) = Len(s) + 1 /\ Len(s) \in Nat
  BY SeqFacts
<1>2. Append(s, x) # <<>>
  BY <1>1, EmptySeq
<1>3. Head(Append(s, x)) = Append(s, x)[1]
  BY <1>1, <1>2, SeqFacts
<1>4. CASE s = <<>>
  BY <1>2, <1>4
<1>5. CASE s # <<>>
  <2>1. 1 \in 1..Len(s) /\ Head(s) = s[1]
    BY <1>1, <1>5, SeqFacts
  <2>2. QED BY <1>2, <1>3, <1>5, <2>1, SeqFacts
<1>6. QED BY <1>4, <1>5

(* A request arrives.                                                      *)
LEMMA StageRequest ==
  ASSUME LineTypes, FeedTypes, NEW k \in Chan, StageInv(k), NEW j \in Chan,
         FirstRequestArrives(j) \/ ShellRequestArrives(j)
  PROVE  StageInv(k)'
<1>1. PICK r \in Requests : RequestArrives(j, r) /\ (opening[j] = "first sent" => r = Kind[j])
  BY SessionAssumption DEF SessionAssumption, Requests, FirstRequestArrives, ShellRequestArrives
<1>2. UNCHANGED <<reader, served>>
  BY <1>1 DEF RequestArrives
<1>3. Returned(k)' <=> Returned(k)
  BY <1>2 DEF Returned
<1>4. /\ Client(k) \in End /\ Server(k) \in End /\ Client(j) \in End /\ Server(j) \in End
      /\ wire[Client(k)] \in Seq(Feed) /\ wire[Server(k)] \in Seq(Feed)
  BY EndsOfChannel DEF FeedTypes
<1>5. \A e \in End : wire'[e] = IF e = Client(j) THEN Append(wire[e], Msg("success"))
                                ELSE IF e = Server(j) THEN Append(wire[e], Msg(r)) ELSE wire[e]
  BY <1>1, <1>4, EndsApart DEF RequestArrives, FeedTypes
<1>6. CASE j # k
  <2>1. opening'[k] = opening[k]
    BY <1>6 DEF FirstRequestArrives, ShellRequestArrives, Advance, LineTypes
  <2>2. wire'[Client(k)] = wire[Client(k)] /\ wire'[Server(k)] = wire[Server(k)]
    BY <1>4, <1>5, <1>6, EndsApart
  <2>3. QED BY <1>2, <1>3, <2>1, <2>2, StageKept
<1>7. CASE j = k
  <2>1. /\ wire'[Client(k)] = Append(wire[Client(k)], Msg("success"))
        /\ wire'[Server(k)] = Append(wire[Server(k)], Msg(r))
    BY <1>4, <1>5, <1>7, EndsApart
  <2>2. \/ opening[k] = "first sent" /\ opening'[k] = "first await"
        \/ opening[k] = "shell sent" /\ opening'[k] = "shell await"
    BY <1>7 DEF FirstRequestArrives, ShellRequestArrives, Advance, LineTypes
  <2>3. Client(k)' = Client(k) /\ Server(k)' = Server(k)
    BY DEF Client, Server
  <2>m. /\ Msg("success") \in Feed /\ Msg(r) \in Feed
        /\ Msg("success").kind = "success" /\ Msg(r).kind = r
    BY FeedFacts DEF Msg, Replies
  <2>4. /\ wire'[Server(k)] # <<>> /\ wire'[Client(k)] # <<>>
        /\ Head(wire'[Server(k)]) = IF wire[Server(k)] = <<>> THEN Msg(r) ELSE Head(wire[Server(k)])
        /\ Head(wire'[Client(k)]) = IF wire[Client(k)] = <<>> THEN Msg("success")
                                    ELSE Head(wire[Client(k)])
    BY <1>4, <2>1, <2>m, HeadOfAppend
  <2>5. /\ opening'[k] \notin Early /\ opening'[k] # "open" /\ opening[k] # "open"
    BY <2>2 DEF Early
  <2>6. ~Returned(k) => Head(wire'[Server(k)]).kind \in Requests
    BY <2>4, <2>m DEF StageInv
  <2>7. Kind[k] # "pty" => /\ opening'[k] \notin {"shell sent", "shell await"}
                           /\ opening'[k] = "first await" => Head(wire'[Client(k)]).kind = "success"
    BY <2>2, <2>4, <2>m DEF StageInv, Early
  <2>8. QED BY <1>2, <1>3, <2>3, <2>4, <2>5, <2>6, <2>7 DEF StageInv
<1>8. QED BY <1>6, <1>7
(* The client's wait takes a message.                                      *)
LEMMA WaitReach ==
  ASSUME LineTypes, FeedTypes, NEW j \in Chan, WaitForReply(j)
  PROVE  /\ Client(j) \in End /\ wire[Client(j)] \in Seq(Feed) /\ wire[Client(j)] # <<>>
         /\ opening[j] \in {"first sent", "first await", "shell sent", "shell await"}
         /\ \A e \in End : wire'[e] = IF e = Client(j) THEN Tail(wire[e]) ELSE wire[e]
         /\ \A e \in End : e # Client(j) => reader'[e] = reader[e]
         /\ \A k \in Chan : k # j => opening'[k] = opening[k]
         /\ IF Head(wire[Client(j)]).kind = "success"
            THEN opening'[j] = AfterReply(j) ELSE opening'[j] = opening[j]
         /\ reader'[Client(j)] = reader[Client(j)] \/
              /\ Head(wire[Client(j)]).kind = "success" /\ opening'[j] = "open"
              /\ reader'[Client(j)] \in {"none", "events", "bytes"}
         /\ UNCHANGED <<pending, resizes, call, event, seen, popped, served, said>>
<1> DEFINE e == Client(j)
           replied == Head(wire[e]).kind = "success"
<1>1. e \in End
  BY EndsOfChannel
<1>2. wire[e] \in Seq(Feed) /\ wire[e] # <<>> /\ wire' = [wire EXCEPT ![e] = Tail(wire[e])]
  BY <1>1 DEF WaitForReply, FeedTypes
<1>3. opening[j] \in {"first sent", "first await", "shell sent", "shell await"}
  BY DEF WaitForReply, Awaiting
<1>4. IF replied THEN opening' = [opening EXCEPT ![j] = AfterReply(j)] ELSE UNCHANGED opening
  BY DEF WaitForReply, Advance
<1>5. PICK r \in Modes[e] :
        reader' = [reader EXCEPT ![e] =
                     IF replied /\ AfterReply(j) = "open" THEN r ELSE reader[e]]
  BY DEF WaitForReply
<1>6. r \in {"none", "events", "bytes"}
  BY <1>1, ModesOfEnd
<1>7. UNCHANGED <<pending, resizes, call, event, seen, popped, served, said>>
  BY DEF WaitForReply
<1> HIDE DEF e, replied
<1>8. \A f \in End : wire'[f] = IF f = e THEN Tail(wire[f]) ELSE wire[f]
  BY <1>2 DEF FeedTypes
<1>9. /\ \A f \in End : f # e => reader'[f] = reader[f]
      /\ reader'[e] = IF replied /\ AfterReply(j) = "open" THEN r ELSE reader[e]
  BY <1>1, <1>5 DEF FeedTypes
<1>10. /\ \A k \in Chan : k # j => opening'[k] = opening[k]
       /\ IF replied THEN opening'[j] = AfterReply(j) ELSE opening'[j] = opening[j]
  BY <1>4 DEF LineTypes
<1>11. reader'[e] = reader[e] \/ (replied /\ opening'[j] = "open"
                                   /\ reader'[e] \in {"none", "events", "bytes"})
  BY <1>6, <1>9, <1>10
<1>12. QED BY <1>1, <1>2, <1>3, <1>7, <1>8, <1>9, <1>10, <1>11 DEF e, replied

(* A client that asked for no pty finds the reply first on its wire: its   *)
(* wait loses nothing.                                                     *)
LEMMA StageWaits ==
  ASSUME LineTypes, FeedTypes, NEW k \in Chan, StageInv(k), NEW j \in Chan, WaitForReply(j)
  PROVE  StageInv(k)'
<1>1. UNCHANGED served
  BY WaitReach
<1>2. Returned(k)' <=> Returned(k)
  BY <1>1 DEF Returned
<1>3. Client(k) \in End /\ Server(k) \in End
  BY EndsOfChannel
<1>w. /\ \A e \in End : wire'[e] = IF e = Client(j) THEN Tail(wire[e]) ELSE wire[e]
      /\ \A e \in End : e # Client(j) => reader'[e] = reader[e]
  BY WaitReach
<1>o. \A i \in Chan : i # j => opening'[i] = opening[i]
  BY WaitReach
<1>4. wire'[Server(k)] = wire[Server(k)] /\ reader'[Server(k)] = reader[Server(k)]
  <2>1. Server(k) # Client(j)
    BY EndsApart
  <2>2. QED BY <1>3, <1>w, <2>1
<1>5. CASE j # k
  <2>1. wire'[Client(k)] = wire[Client(k)] /\ reader'[Client(k)] = reader[Client(k)]
    <3>1. Client(k) # Client(j)
      BY <1>5, EndsApart
    <3>2. QED BY <1>3, <1>w, <3>1
  <2>2. opening'[k] = opening[k]
    BY <1>5, <1>o
  <2>3. QED BY <1>2, <1>4, <2>1, <2>2, StageKept
<1>6. CASE j = k
  <2>1. opening[k] \in {"first await", "shell sent", "shell await"}
    BY <1>6, WaitReach DEF StageInv, Early
  <2>2. reader[Client(k)] = "none"
    BY <2>1 DEF StageInv
  <2>3. /\ IF Head(wire[Client(k)]).kind = "success" THEN opening'[k] = AfterReply(k)
           ELSE opening'[k] = opening[k]
        /\ reader'[Client(k)] = reader[Client(k)] \/ opening'[k] = "open"
    BY <1>6, WaitReach
  <2>4. opening'[k] \in {"first await", "shell sent", "shell await", "open"}
    BY <2>1, <2>3 DEF AfterReply
  <2>5. Kind[k] # "pty" => opening'[k] = "open"
    BY <2>1, <2>3 DEF AfterReply, StageInv
  <2>6. Client(k)' = Client(k) /\ Server(k)' = Server(k)
    BY DEF Client, Server
  <2>7. opening'[k] \notin Early /\ opening[k] \in Requested
    BY <2>1, <2>4 DEF Early, Requested
  <2>8. wire[Server(k)] # <<>> \/ Returned(k)
    BY <2>7 DEF StageInv
  <2>9. opening'[k] # "open" => reader'[Client(k)] = "none"
    BY <2>2, <2>3
  <2>10. QED BY <1>2, <1>4, <2>5, <2>6, <2>7, <2>8, <2>9 DEF StageInv
<1>7. QED BY <1>5, <1>6

(* next_channel takes the first message of the channel it holds.           *)
LEMMA ClassifyReach ==
  ASSUME LineTypes, FeedTypes, LineInv, OwnersInv, NEW c \in Conn, Classify(c),
         \A j \in Chan : StageInv(j)
  PROVE  LET k == taking[c]
             e == Server(k)
         IN /\ k \in Chan /\ Owner[k] = c /\ ~Returned(k)
            /\ e \in End /\ wire[e] \in Seq(Feed) /\ wire[e] # <<>>
            /\ Head(wire[e]).kind \in Requests
            /\ \A f \in End : wire'[f] = IF f = e THEN Tail(wire[f]) ELSE wire[f]
            /\ \A f \in End : f # e => reader'[f] = reader[f]
            /\ reader[e] = "none" /\ reader'[e] \in {"none", "events", "bytes"}
            /\ \A j \in Chan : Returned(j)' <=> (Returned(j) \/ j = k)
            /\ UNCHANGED <<pending, resizes, call, event, seen, popped, opening, said>>
<1> DEFINE k == taking[c]
           e == Server(k)
<1>1. k # NoChan
  BY DEF Classify
<1>2. k \in Chan /\ Owner[k] = c /\ ~Returned(k)
  BY <1>1, TakenIsNotReturned
<1>3. e \in End
  BY <1>2, EndsOfChannel
<1>4. wire[e] \in Seq(Feed) /\ wire[e] # <<>> /\ wire' = [wire EXCEPT ![e] = Tail(wire[e])]
  BY <1>3 DEF Classify, FeedTypes
<1>5. Head(wire[e]).kind \in Requests /\ reader[e] = "none"
  BY <1>2, <1>4 DEF StageInv
<1>6. /\ served' = [served EXCEPT ![c] = Append(served[c], k)]
      /\ \E r \in Modes[e] : reader' = [reader EXCEPT ![e] = r]
  BY <1>5 DEF Classify
<1>7. UNCHANGED <<pending, resizes, call, event, seen, popped, opening, said>>
  BY DEF Classify
<1>8. \A j \in Chan : Returned(j)' <=> (Returned(j) \/ j = k)
  <2> SUFFICES ASSUME NEW j \in Chan PROVE Returned(j)' <=> (Returned(j) \/ j = k)
    OBVIOUS
  <2>1. served[c] \in Seq(Chan) /\ Owner[j] \in Conn
    BY EndsOfChannel DEF LineTypes
  <2>2. ToSet(Append(served[c], k)) = ToSet(served[c]) \cup {k}
    BY <1>2, <2>1, MembersOfAppend
  <2>3. served'[Owner[j]] = IF Owner[j] = c THEN Append(served[c], k) ELSE served[Owner[j]]
    BY <1>6, <2>1 DEF LineTypes
  <2> HIDE DEF k
  <2>4. QED BY <1>2, <2>2, <2>3 DEF Returned
<1> HIDE DEF k, e
<1>9. \A f \in End : wire'[f] = IF f = e THEN Tail(wire[f]) ELSE wire[f]
  BY <1>4 DEF FeedTypes
<1>10. /\ \A f \in End : f # e => reader'[f] = reader[f]
       /\ reader'[e] \in {"none", "events", "bytes"}
  BY <1>3, <1>6, ModesOfEnd DEF FeedTypes
<1>11. QED
  BY <1>2, <1>3, <1>4, <1>5, <1>7, <1>8, <1>9, <1>10 DEF k, e

(* A reader starts at the server's end only as the channel is returned.    *)
LEMMA StageClassify ==
  ASSUME LineTypes, FeedTypes, LineInv, OwnersInv, \A j \in Chan : StageInv(j),
         NEW c \in Conn, Classify(c), NEW k \in Chan
  PROVE  StageInv(k)'
<1> DEFINE j == taking[c]
<1>1. /\ j \in Chan /\ ~Returned(j) /\ wire[Server(j)] # <<>>
      /\ \A f \in End : wire'[f] = IF f = Server(j) THEN Tail(wire[f]) ELSE wire[f]
      /\ \A f \in End : f # Server(j) => reader'[f] = reader[f]
      /\ Returned(k)' <=> (Returned(k) \/ k = j)
      /\ opening' = opening
  BY ClassifyReach
<1> HIDE DEF j
<1>2. Client(k) \in End /\ Server(k) \in End /\ StageInv(k)
  BY EndsOfChannel
<1>3. wire'[Client(k)] = wire[Client(k)] /\ reader'[Client(k)] = reader[Client(k)]
  BY <1>1, <1>2, EndsApart
<1>4. CASE k # j
  <2>1. wire'[Server(k)] = wire[Server(k)] /\ reader'[Server(k)] = reader[Server(k)]
    BY <1>1, <1>2, <1>4, EndsApart
  <2>2. QED BY <1>1, <1>2, <1>3, <1>4, <2>1, StageKept
<1>5. CASE k = j
  <2>1. opening[k] \notin Early
    BY <1>1, <1>2, <1>5 DEF StageInv
  <2>2. Returned(k)'
    BY <1>1, <1>5
  <2>3. Client(k)' = Client(k) /\ Server(k)' = Server(k)
    BY DEF Client, Server
  <2>4. QED BY <1>1, <1>2, <1>3, <2>1, <2>2, <2>3 DEF StageInv
<1>6. QED BY <1>4, <1>5

(* An application speaks.                                                  *)
LEMMA SayReach ==
  ASSUME FeedTypes, NEW e \in End, Say(e)
  PROVE  /\ said[e] + 1 \in 1..Len(Says[e]) /\ Says[e] \in Seq(AppMessage)
         /\ Says[e][said[e] + 1] \in AppMessage
         /\ wire'[e] = Append(wire[e], Says[e][said[e] + 1]) /\ said'[e] = said[e] + 1
         /\ \A f \in End : f # e => wire'[f] = wire[f] /\ said'[f] = said[f]
         /\ UNCHANGED <<pending, resizes, call, event, seen, popped, reader, opening, served>>
<1>1. Says[e] \in Seq(AppMessage) /\ Len(Says[e]) \in Nat
  BY SessionAssumption, SeqFacts DEF SessionAssumption
<1>2. said[e] + 1 \in 1..Len(Says[e])
  BY <1>1, FeedFacts DEF Say, FeedTypes
<1>3. Says[e][said[e] + 1] \in AppMessage
  BY <1>1, <1>2
<1>4. QED BY <1>1, <1>2, <1>3 DEF Say, FeedTypes

LEMMA StageSay ==
  ASSUME LineTypes, FeedTypes, NEW k \in Chan, StageInv(k), NEW e \in End, Say(e)
  PROVE  StageInv(k)'
<1>1. UNCHANGED <<reader, opening, served>>
  BY SayReach
<1>2. Returned(k)' <=> Returned(k)
  BY <1>1 DEF Returned
<1>3. /\ Client(k) \in End /\ Server(k) \in End
      /\ wire[Client(k)] \in Seq(Feed) /\ wire[Server(k)] \in Seq(Feed)
  BY EndsOfChannel DEF FeedTypes
<1>4. CASE e # Client(k) /\ e # Server(k)
  <2>1. wire'[Client(k)] = wire[Client(k)] /\ wire'[Server(k)] = wire[Server(k)]
    BY <1>3, <1>4, SayReach
  <2>2. QED BY <1>1, <1>2, <2>1, StageKept
<1> DEFINE m == Says[e][said[e] + 1]
<1>5. m \in AppMessage /\ wire'[e] = Append(wire[e], m)
      /\ \A f \in End : f # e => wire'[f] = wire[f]
  BY SayReach
<1>m. m \in Feed
  BY <1>5 DEF Feed
<1> HIDE DEF m
<1>6. Client(k)' = Client(k) /\ Server(k)' = Server(k)
  BY DEF Client, Server
<1>7. CASE e = Client(k)
  <2>1. Returned(k)
    BY <1>7 DEF Say, Holds, Client, Returned, ToSet
  <2>2. opening[k] \notin Early
    BY <2>1 DEF StageInv
  <2>3. wire'[Client(k)] # <<>> /\ (wire[Client(k)] # <<>> =>
          Head(wire'[Client(k)]) = Head(wire[Client(k)]))
    BY <1>3, <1>5, <1>m, <1>7, HeadOfAppend
  <2>4. QED BY <1>1, <1>2, <1>6, <2>1, <2>2, <2>3 DEF StageInv
<1>8. CASE e = Server(k)
  <2>1. opening[k] = "open"
    BY <1>8 DEF Say, Holds, Server
  <2>2. wire[Server(k)] # <<>> \/ Returned(k)
    BY <2>1 DEF StageInv, Requested
  <2>3. wire'[Server(k)] # <<>> /\ (wire[Server(k)] # <<>> =>
          Head(wire'[Server(k)]) = Head(wire[Server(k)]))
    BY <1>3, <1>5, <1>m, <1>8, HeadOfAppend
  <2>4. wire'[Client(k)] = wire[Client(k)]
    BY <1>3, <1>5, <1>8, EndsApart
  <2>5. opening[k] \notin Early
    BY <2>1 DEF Early
  <2>6. QED BY <1>1, <1>2, <1>6, <2>1, <2>2, <2>3, <2>4, <2>5 DEF StageInv
<1>9. QED BY <1>4, <1>7, <1>8

(* A reader reads.                                                         *)
LEMMA StageRead ==
  ASSUME LineTypes, FeedTypes, NEW k \in Chan, StageInv(k), NEW e \in End, CallInv(e),
         ReadChannel(e)
  PROVE  StageInv(k)'
<1>1. /\ reader[e] # "none" /\ reader' = reader /\ UNCHANGED sessionVars
      /\ \A f \in End : f # e => wire'[f] = wire[f]
  BY ReadReach
<1>2. UNCHANGED <<opening, served>> /\ (Returned(k)' <=> Returned(k))
  BY <1>1 DEF sessionVars, Returned
<1>3. Client(k) \in End /\ Server(k) \in End
  BY EndsOfChannel
<1>4. CASE e # Client(k) /\ e # Server(k)
  <2>1. wire'[Client(k)] = wire[Client(k)] /\ wire'[Server(k)] = wire[Server(k)]
    BY <1>1, <1>3, <1>4
  <2>2. QED BY <1>1, <1>2, <2>1, StageKept
<1>5. Client(k)' = Client(k) /\ Server(k)' = Server(k)
  BY DEF Client, Server
<1>6. CASE e = Client(k)
  <2>1. opening[k] = "open"
    BY <1>1, <1>6 DEF StageInv
  <2>2. opening[k] \notin Early /\ wire'[Server(k)] = wire[Server(k)]
    BY <1>1, <1>3, <1>6, <2>1, EndsApart DEF Early
  <2>3. QED BY <1>1, <1>2, <1>5, <2>1, <2>2 DEF StageInv
<1>7. CASE e = Server(k)
  <2>1. Returned(k)
    BY <1>1, <1>7 DEF StageInv
  <2>2. opening[k] \notin Early /\ wire'[Client(k)] = wire[Client(k)]
    BY <1>1, <1>3, <1>7, <2>1, EndsApart DEF StageInv
  <2>3. QED BY <1>1, <1>2, <1>5, <2>1, <2>2 DEF StageInv
<1>8. QED BY <1>4, <1>6, <1>7

-----------------------------------------------------------------------------
(* What was sent is what was given and what is to come. *)

Late(e) == e[2] = "client" /\ Kind[e[1]] = "pty"

DeliveryInv(e) ==
  IF reader[e] = "bytes"
  THEN /\ AsBytes(Late(e), Told(e), seen[e] \o pending[e], ToCome(e))
       /\ AsResizes(Told(e), popped[e], resizes[e], ToCome(e))
  ELSE AsEvents(Late(e), Told(e), Only(seen[e], AppMessage), ToCome(e))

ComingOf(ev, w) == (IF ev = NoEvent THEN <<>> ELSE <<ev>>) \o w
ToComeOf(ev, w) == Only(ComingOf(ev, w), AppMessage)

(* What is to come, by its parts: the event at hand, then the wire.        *)
LEMMA ToComeIs ==
  ASSUME NEW ev \in Event, NEW w \in Seq(Feed)
  PROVE  /\ ToComeOf(ev, w) = One(ev, AppMessage) \o Only(w, AppMessage)
         /\ ToComeOf(ev, w) \in Seq(AppMessage) /\ Only(w, AppMessage) \in Seq(AppMessage)
         /\ One(ev, AppMessage) \in Seq(AppMessage)
<1> DEFINE S == Event \cup Feed
           p == IF ev = NoEvent THEN <<>> ELSE <<ev>>
<1>1. w \in Seq(S)
  BY SeqWider
<1>2. p \in Seq(S)
  <2>1. ev \in S
    OBVIOUS
  <2>2. <<>> \in Seq(S) /\ <<ev>> \in Seq(S)
    BY <2>1, Parts, SeqFacts
  <2>3. QED BY <2>2
<1>3. Only(p, AppMessage) = One(ev, AppMessage)
  <2>1. NoEvent \notin AppMessage
    BY DEF NoEvent, AppMessage
  <2>2. ev \in S
    OBVIOUS
  <2>3. Only(<<>>, AppMessage) = <<>> /\ Only(<<ev>>, AppMessage) = One(ev, AppMessage)
    BY <2>2, OnlySteps
  <2>4. QED BY <2>1, <2>3 DEF One
<1> HIDE DEF p, S
<1>4. Only(p \o w, AppMessage) = Only(p, AppMessage) \o Only(w, AppMessage)
  BY <1>1, <1>2, OnlyConcat
<1>5. Only(w, AppMessage) \in Seq(AppMessage) /\ Only(p, AppMessage) \in Seq(AppMessage)
  BY <1>1, <1>2, OnlySteps
<1>6. Only(p, AppMessage) \o Only(w, AppMessage) \in Seq(AppMessage)
  BY <1>5
<1>7. QED BY <1>3, <1>4, <1>5, <1>6 DEF ToComeOf, ComingOf, p

LEMMA ToComeNow ==
  ASSUME FeedTypes, NEW e \in End
  PROVE  /\ ToCome(e) = ToComeOf(event[e], wire[e])
         /\ event[e] \in Event /\ wire[e] \in Seq(Feed)
         /\ ToCome(e) = One(event[e], AppMessage) \o Only(wire[e], AppMessage)
         /\ ToCome(e) \in Seq(AppMessage) /\ One(event[e], AppMessage) \in Seq(AppMessage)
         /\ Only(wire[e], AppMessage) \in Seq(AppMessage)
<1>1. event[e] \in Event /\ wire[e] \in Seq(Feed)
  BY DEF FeedTypes
<1>2. ToCome(e) = ToComeOf(event[e], wire[e])
  BY DEF ToCome, Coming, ToComeOf, ComingOf
<1>3. QED BY <1>1, <1>2, ToComeIs

LEMMA ToComeNext ==
  ASSUME FeedTypes', NEW e \in End
  PROVE  /\ ToCome(e)' = One(event'[e], AppMessage) \o Only(wire'[e], AppMessage)
         /\ ToCome(e)' \in Seq(AppMessage)
<1>1. event'[e] \in Event /\ wire'[e] \in Seq(Feed)
  BY DEF FeedTypes
<1>2. ToCome(e)' = ToComeOf(event'[e], wire'[e])
  BY DEF ToCome, Coming, ToComeOf, ComingOf
<1>3. QED BY <1>1, <1>2, ToComeIs

(* What was said so far is of the script; clients say no resize.           *)
SaidInv(e) == said[e] \in 0..Len(Says[e])

LEMMA ToldFacts ==
  ASSUME NEW e \in End, NEW n \in 0..Len(Says[e])
  PROVE  LET t == SubSeq(Says[e], 1, n)
         IN /\ t \in Seq(AppMessage)
            /\ e[2] = "client" => Geometry(t) = <<>>
            /\ n < Len(Says[e]) => SubSeq(Says[e], 1, n + 1) = t \o <<Says[e][n + 1]>>
<1> DEFINE s == Says[e]
           t == SubSeq(s, 1, n)
<1>1. s \in Seq(AppMessage) /\ Len(s) \in Nat /\ n \in Nat /\ n <= Len(s)
  BY SessionAssumption, SeqFacts DEF SessionAssumption
<1>2. \A i \in 1..n : s[i] \in AppMessage
  BY <1>1
<1> HIDE DEF s
<1>3. t \in Seq(AppMessage) /\ Len(t) = n /\ \A i \in 1..n : t[i] = s[i]
  <2>1. t \in Seq(AppMessage) /\ Len(t) = (IF 1 <= n THEN n - 1 + 1 ELSE 0)
        /\ \A i \in 1..(n - 1 + 1) : t[i] = s[1 + i - 1]
    BY <1>1, <1>2, SubSeqProperties
  <2>2. \A i \in 1..n : 1 + i - 1 = i
    BY <1>1
  <2>3. QED BY <1>1, <2>1, <2>2
<1>4. ASSUME e[2] = "client" PROVE Geometry(t) = <<>>
  <2>1. PICK k \in Chan : e = <<k, "client">>
    BY <1>4, SessionAssumption DEF SessionAssumption
  <2>2. \A i \in DOMAIN s : ~IsResize(s[i])
    BY <2>1, SessionAssumption DEF SessionAssumption, s
  <2>3. \A i \in DOMAIN t : ~IsResize(t[i])
    <3>1. DOMAIN t = 1..n /\ DOMAIN s = 1..Len(s)
      BY <1>1, <1>3, SeqFacts
    <3>2. 1..n \subseteq 1..Len(s)
      BY <1>1
    <3>3. QED BY <1>3, <2>2, <3>1, <3>2
  <2> HIDE DEF t
  <2>4. QED BY <1>3, <2>3, GeometryFacts
<1>5. ASSUME n < Len(s) PROVE SubSeq(s, 1, n + 1) = t \o <<s[n + 1]>>
  <2>1. 1 \in 1..Len(s) /\ n + 1 \in 1..Len(s) /\ (n + 1) - 1 = n
    BY <1>1, <1>5
  <2>2. SubSeq(s, 1, n + 1) = SubSeq(s, 1, (n + 1) - 1) \o <<s[n + 1]>>
    BY <1>1, <2>1, SubSeqRecursiveSecond
  <2>3. QED BY <2>1, <2>2
<1>6. QED BY <1>3, <1>4, <1>5 DEF s

LEMMA ToldType ==
  ASSUME NEW e \in End, SaidInv(e)
  PROVE  /\ Told(e) \in Seq(AppMessage)
         /\ e[2] = "client" => Geometry(Told(e)) = <<>>
  BY ToldFacts DEF Told, SaidInv

(* What the delivery of an end speaks of, and its types.                   *)
LEMMA DeliveryTypes ==
  ASSUME FeedTypes, NEW e \in End, CallInv(e), SaidInv(e)
  PROVE  /\ Told(e) \in Seq(AppMessage) /\ ToCome(e) \in Seq(AppMessage)
         /\ Only(seen[e], AppMessage) \in Seq(AppMessage)
         /\ pending[e] \in Seq(Byte) /\ popped[e] \in Seq(AppMessage)
         /\ resizes[e] \in Seq(AppMessage)
         /\ reader[e] = "bytes" => seen[e] \in Seq(Byte) /\ seen[e] \o pending[e] \in Seq(Byte)
<1>1. seen[e] \in Seq(Message \cup Byte)
  BY DEF FeedTypes
<1>2. Only(seen[e], AppMessage) \in Seq(AppMessage)
  BY <1>1, OnlySteps
<1>3. pending[e] \in Seq(Byte) /\ popped[e] \in Seq(AppMessage) /\ resizes[e] \in Seq(AppMessage)
  BY DEF FeedTypes
<1>4. reader[e] = "bytes" => seen[e] \in Seq(Byte) /\ seen[e] \o pending[e] \in Seq(Byte)
  BY <1>3 DEF CallInv
<1>5. QED BY <1>2, <1>3, <1>4, ToldType, ToComeNow

(* An end whose delivery a step does not speak of.                         *)
LEMMA DeliveryKept ==
  ASSUME NEW e, DeliveryInv(e), ToCome(e)' = ToCome(e), said'[e] = said[e],
         reader'[e] = reader[e], seen'[e] = seen[e], pending'[e] = pending[e],
         resizes'[e] = resizes[e], popped'[e] = popped[e]
  PROVE  DeliveryInv(e)'
<1>1. Told(e)' = Told(e) /\ Late(e)' = Late(e)
  BY DEF Told, Late
<1>2. QED BY <1>1 DEF DeliveryInv

LEMMA WireKept ==
  ASSUME NEW e, DeliveryInv(e), wire'[e] = wire[e], event'[e] = event[e],
         said'[e] = said[e], reader'[e] = reader[e], seen'[e] = seen[e],
         pending'[e] = pending[e], resizes'[e] = resizes[e], popped'[e] = popped[e]
  PROVE  DeliveryInv(e)'
<1>1. ToCome(e)' = ToCome(e)
  BY DEF ToCome, Coming
<1>2. QED BY <1>1, DeliveryKept

(* An application speaks: more was sent, and more is to come.              *)
LEMMA DeliverySay ==
  ASSUME FeedTypes, FeedTypes', NEW e \in End, CallInv(e), SaidInv(e), DeliveryInv(e),
         NEW f \in End, Say(f)
  PROVE  DeliveryInv(e)' /\ SaidInv(e)'
<1>1. UNCHANGED <<pending, resizes, call, event, seen, popped, reader>>
  BY SayReach
<1>2. CASE e # f
  <2>1. wire'[e] = wire[e] /\ said'[e] = said[e]
    BY <1>2, SayReach
  <2>2. QED BY <1>1, <2>1, WireKept DEF SaidInv
<1> DEFINE m == Says[e][said[e] + 1]
<1>3. CASE e = f
  <2>1. /\ said[e] + 1 \in 1..Len(Says[e]) /\ m \in AppMessage
        /\ wire'[e] = Append(wire[e], m) /\ said'[e] = said[e] + 1
    BY <1>3, SayReach
  <2>n. said[e] \in 0..Len(Says[e]) /\ Len(Says[e]) \in Nat /\ said[e] < Len(Says[e])
    BY <2>1, SessionAssumption, SeqFacts DEF SaidInv, SessionAssumption
  <2>2. SaidInv(e)'
    BY <2>1, <2>n DEF SaidInv
  <2>3. Told(e)' = Told(e) \o <<m>>
    BY <2>1, <2>n, ToldFacts DEF Told
  <2> HIDE DEF m
  <2>4. <<m>> \in Seq(AppMessage) /\ One(m, AppMessage) = <<m>> /\ m \in Feed
    BY <2>1 DEF One, Feed
  <2>5. ToCome(e)' = ToCome(e) \o <<m>>
    <3> DEFINE o == One(event[e], AppMessage)
               w == Only(wire[e], AppMessage)
    <3>1. o \in Seq(AppMessage) /\ w \in Seq(AppMessage) /\ ToCome(e) = o \o w
          /\ wire[e] \in Seq(Feed)
      BY ToComeNow
    <3>2. Only(wire'[e], AppMessage) = w \o <<m>>
      <4>1. wire[e] \in Seq(Feed) /\ m \in Feed
        BY <2>4, <3>1
      <4>2. Only(Append(wire[e], m), AppMessage) = w \o One(m, AppMessage)
        BY <4>1, OnlyAppend
      <4>3. QED BY <2>1, <2>4, <4>2
    <3>3. ToCome(e)' = o \o Only(wire'[e], AppMessage)
      BY <1>1, ToComeNext
    <3> HIDE DEF o, w
    <3>4. Associate(o, w, <<m>>)
      BY <2>4, <3>1, Grouping
    <3>5. QED BY <3>1, <3>2, <3>3, <3>4 DEF Associate
  <2> DEFINE t == Told(e)
             d == ToCome(e)
             g == Only(seen[e], AppMessage)
             x == <<m>>
  <2>6. /\ t \in Seq(AppMessage) /\ d \in Seq(AppMessage) /\ g \in Seq(AppMessage)
        /\ pending[e] \in Seq(Byte) /\ popped[e] \in Seq(AppMessage)
        /\ resizes[e] \in Seq(AppMessage) /\ x \in Seq(AppMessage)
        /\ reader[e] = "bytes" => seen[e] \o pending[e] \in Seq(Byte)
    BY <2>4, DeliveryTypes
  <2>7. Late(e)' = Late(e)
    BY DEF Late
  <2> HIDE DEF t, d, g, x
  <2>8. CASE reader[e] = "bytes"
    <3>1. AsBytes(Late(e), t \o x, seen[e] \o pending[e], d \o x)
      <4>1. AsBytes(Late(e), t, seen[e] \o pending[e], d)
        BY <2>8 DEF DeliveryInv, t, d
      <4>2. QED BY <2>6, <2>8, <4>1, MoreBytes
    <3>2. AsResizes(t \o x, popped[e], resizes[e], d \o x)
      <4>1. AsResizes(t, popped[e], resizes[e], d)
        BY <2>8 DEF DeliveryInv, t, d
      <4>2. QED BY <2>6, <4>1, MoreResizes
    <3>3. QED BY <1>1, <2>2, <2>3, <2>5, <2>7, <2>8, <3>1, <3>2 DEF DeliveryInv, t, d, x
  <2>9. CASE reader[e] # "bytes"
    <3>1. AsEvents(Late(e), t, g, d)
      BY <2>9 DEF DeliveryInv, t, d, g
    <3>2. AsEvents(Late(e), t \o x, g, d \o x)
      BY <2>6, <3>1, MoreEvents
    <3>3. QED BY <1>1, <2>2, <2>3, <2>5, <2>7, <2>9, <3>2 DEF DeliveryInv, t, d, x, g
  <2>10. QED BY <2>8, <2>9
<1>4. QED BY <1>2, <1>3

(* What is no AppMessage is nobody's to be given.                          *)
LEMMA ChatterIsNotSaid ==
  ASSUME NEW m, m.kind \notin AppKinds \/ m.n = 0
  PROVE  m \notin AppMessage /\ One(m, AppMessage) = <<>>
<1>1. 0 \notin 1..MaxSaid
  BY FeedFacts
<1>2. m \notin AppMessage
  BY <1>1 DEF AppMessage
<1>3. QED BY <1>2 DEF One

(* Request and reply chatter comes and goes.                               *)
LEMMA ChatterComes ==
  ASSUME FeedTypes, FeedTypes', NEW e \in End, event'[e] = event[e],
         NEW m \in Feed, One(m, AppMessage) = <<>>, wire'[e] = Append(wire[e], m)
  PROVE  ToCome(e)' = ToCome(e)
<1>1. wire[e] \in Seq(Feed)
  BY ToComeNow
<1>2. Only(Append(wire[e], m), AppMessage) = Only(wire[e], AppMessage) \o One(m, AppMessage)
  BY <1>1, OnlyAppend
<1>3. Only(wire[e], AppMessage) \in Seq(AppMessage)
  BY ToComeNow
<1>4. Only(wire'[e], AppMessage) = Only(wire[e], AppMessage)
  BY <1>2, <1>3, Parts
<1>5. QED BY <1>4, ToComeNow, ToComeNext

LEMMA HeadGoes ==
  ASSUME FeedTypes, FeedTypes', NEW e \in End, wire[e] # <<>>, wire'[e] = Tail(wire[e])
  PROVE  /\ One(Head(wire[e]), AppMessage) \in Seq(AppMessage)
         /\ Only(wire'[e], AppMessage) \in Seq(AppMessage)
         /\ Only(wire[e], AppMessage)
              = One(Head(wire[e]), AppMessage) \o Only(wire'[e], AppMessage)
<1>1. wire[e] \in Seq(Feed) /\ wire'[e] \in Seq(Feed)
  BY DEF FeedTypes
<1>2. One(Head(wire[e]), AppMessage) \in Seq(AppMessage)
  BY Parts, SeqFacts DEF One
<1>3. Only(wire'[e], AppMessage) \in Seq(AppMessage)
  BY <1>1, OnlySteps
<1>4. Only(wire[e], AppMessage) = One(Head(wire[e]), AppMessage) \o Only(Tail(wire[e]), AppMessage)
  BY <1>1, OnlyHead
<1>5. QED BY <1>2, <1>3, <1>4

LEMMA ChatterGoes ==
  ASSUME FeedTypes, FeedTypes', NEW e \in End, event'[e] = event[e],
         wire[e] # <<>>, One(Head(wire[e]), AppMessage) = <<>>, wire'[e] = Tail(wire[e])
  PROVE  ToCome(e)' = ToCome(e)
<1>1. Only(wire'[e], AppMessage) = Only(wire[e], AppMessage)
  BY HeadGoes, Parts
<1>2. QED BY <1>1, ToComeNow, ToComeNext

(* An end that was given nothing yet may get its reader.                   *)
LEMMA DeliveryBegins ==
  ASSUME FeedTypes', NEW e \in End, SaidInv(e), said'[e] = said[e],
         AsEvents(Late(e), Told(e), <<>>, ToCome(e)'), seen'[e] = <<>>,
         pending'[e] = <<>>, resizes'[e] = <<>>, popped'[e] = <<>>
  PROVE  DeliveryInv(e)'
<1>1. Told(e)' = Told(e) /\ Late(e)' = Late(e)
  BY DEF Told, Late
<1>2. Told(e) \in Seq(AppMessage) /\ ToCome(e)' \in Seq(AppMessage)
  BY ToldType, ToComeNext
<1>3. Only(<<>>, AppMessage) = <<>> /\ <<>> \o <<>> = <<>>
  BY OnlySteps
<1>4. CASE reader'[e] = "bytes"
  <2>1. Late(e) => Geometry(Told(e)) = <<>>
    BY ToldType DEF Late
  <2>2. /\ AsBytes(Late(e), Told(e), <<>>, ToCome(e)')
        /\ AsResizes(Told(e), <<>>, <<>>, ToCome(e)')
    <3> DEFINE l == Late(e)
               t == Told(e)
               d == ToCome(e)'
    <3>1. t \in Seq(AppMessage) /\ d \in Seq(AppMessage) /\ AsEvents(l, t, <<>>, d)
          /\ (~l \/ Geometry(t) = <<>>)
      BY <1>2, <2>1
    <3> HIDE DEF l, t, d
    <3>2. AsBytes(l, t, <<>>, d) /\ AsResizes(t, <<>>, <<>>, d)
      BY <3>1, EventsAsBytes
    <3>3. QED BY <3>2 DEF l, t, d
  <2>3. QED BY <1>1, <1>3, <1>4, <2>2 DEF DeliveryInv
<1>5. CASE reader'[e] # "bytes"
  BY <1>1, <1>3, <1>5 DEF DeliveryInv
<1>6. QED BY <1>4, <1>5

LEMMA NothingGiven ==
  ASSUME NEW e, CallInv(e), reader[e] = "none", DeliveryInv(e)
  PROVE  /\ event[e] = NoEvent /\ seen[e] = <<>> /\ pending[e] = <<>>
         /\ resizes[e] = <<>> /\ popped[e] = <<>>
         /\ AsEvents(Late(e), Told(e), <<>>, ToCome(e))
<1>1. /\ event[e] = NoEvent /\ seen[e] = <<>> /\ pending[e] = <<>>
      /\ resizes[e] = <<>> /\ popped[e] = <<>>
  BY DEF CallInv
<1>2. Only(<<>>, AppMessage) = <<>>
  BY OnlySteps
<1>3. QED BY <1>1, <1>2 DEF DeliveryInv

(* A request arrives, the client waits for its reply, and next_channel     *)
(* takes the first message of a channel.                                   *)
LEMMA DeliveryRequest ==
  ASSUME LineTypes, FeedTypes, FeedTypes', NEW e \in End, DeliveryInv(e), SaidInv(e),
         NEW k \in Chan, FirstRequestArrives(k) \/ ShellRequestArrives(k)
  PROVE  DeliveryInv(e)' /\ SaidInv(e)'
<1>1. PICK r \in Requests : RequestArrives(k, r)
  BY SessionAssumption DEF SessionAssumption, Requests, FirstRequestArrives, ShellRequestArrives
<1>2. UNCHANGED <<reader, event, seen, pending, resizes, popped, said>>
  BY <1>1 DEF RequestArrives
<1>3. /\ Msg(r) \in Feed /\ One(Msg(r), AppMessage) = <<>>
      /\ Msg("success") \in Feed /\ One(Msg("success"), AppMessage) = <<>>
  BY FeedFacts, ChatterIsNotSaid DEF Msg, Replies
<1>4. wire'[e] = wire[e] \/ \E m \in {Msg(r), Msg("success")} : wire'[e] = Append(wire[e], m)
  BY <1>1, EndsApart DEF RequestArrives, FeedTypes
<1>5. CASE wire'[e] = wire[e]
  BY <1>2, <1>5, WireKept DEF SaidInv
<1>6. ASSUME NEW m \in {Msg(r), Msg("success")}, wire'[e] = Append(wire[e], m)
      PROVE  DeliveryInv(e)' /\ SaidInv(e)'
  <2>1. ToCome(e)' = ToCome(e)
    BY <1>2, <1>3, <1>6, ChatterComes
  <2>2. QED BY <1>2, <2>1, DeliveryKept DEF SaidInv
<1>7. QED BY <1>4, <1>5, <1>6

LEMMA DeliveryWait ==
  ASSUME LineTypes, FeedTypes, FeedTypes', NEW e \in End, CallInv(e), DeliveryInv(e),
         SaidInv(e), NEW k \in Chan, StageInv(k), WaitForReply(k)
  PROVE  DeliveryInv(e)' /\ SaidInv(e)'
<1>1. UNCHANGED <<event, seen, pending, resizes, popped, said>>
  BY WaitReach
<1>w. /\ \A f \in End : wire'[f] = IF f = Client(k) THEN Tail(wire[f]) ELSE wire[f]
      /\ \A f \in End : f # Client(k) => reader'[f] = reader[f]
  BY WaitReach
<1>2. CASE e # Client(k)
  <2>1. wire'[e] = wire[e] /\ reader'[e] = reader[e]
    BY <1>2, <1>w
  <2>2. QED BY <1>1, <2>1, WireKept DEF SaidInv
<1>3. CASE e = Client(k)
  <2>1. /\ wire[e] # <<>> /\ wire'[e] = Tail(wire[e])
        /\ opening[k] \in {"first sent", "first await", "shell sent", "shell await"}
    BY <1>3, WaitReach
  <2>2. reader[e] = "none" /\ opening[k] # "first sent"
    BY <1>3, <2>1 DEF StageInv, Early
  <2>3. /\ event[e] = NoEvent /\ seen[e] = <<>> /\ pending[e] = <<>>
        /\ resizes[e] = <<>> /\ popped[e] = <<>>
        /\ AsEvents(Late(e), Told(e), <<>>, ToCome(e))
    BY <2>2, NothingGiven
  <2>4. AsEvents(Late(e), Told(e), <<>>, ToCome(e)')
    <3>1. CASE Kind[k] # "pty"
      <4>1. Head(wire[e]).kind = "success"
        BY <1>3, <2>1, <2>2, <3>1 DEF StageInv
      <4>2. One(Head(wire[e]), AppMessage) = <<>>
        BY <4>1, ChatterIsNotSaid DEF AppKinds
      <4>3. ToCome(e)' = ToCome(e)
        BY <1>1, <2>1, <4>2, ChatterGoes
      <4>4. QED BY <2>3, <4>3
    <3>2. CASE Kind[k] = "pty"
      <4> DEFINE x == One(Head(wire[e]), AppMessage)
                 d == Only(wire'[e], AppMessage)
      <4>1. x \in Seq(AppMessage) /\ d \in Seq(AppMessage) /\ Only(wire[e], AppMessage) = x \o d
        BY <2>1, HeadGoes
      <4>2. One(NoEvent, AppMessage) = <<>>
        BY ChatterIsNotSaid DEF NoEvent
      <4>3. ToCome(e) = x \o d /\ ToCome(e)' = d
        <5>1. ToCome(e) = One(event[e], AppMessage) \o Only(wire[e], AppMessage)
          BY ToComeNow
        <5>2. ToCome(e)' = One(event'[e], AppMessage) \o d
          BY ToComeNext
        <5>3. Only(wire[e], AppMessage) \in Seq(AppMessage)
          BY ToComeNow
        <5>4. QED BY <1>1, <2>3, <4>1, <4>2, <5>1, <5>2, <5>3, Parts
      <4>4. Late(e) /\ Told(e) \in Seq(AppMessage)
        BY <1>3, <3>2, ToldType DEF Late, Client
      <4> HIDE DEF x, d
      <4>5. AsEvents(TRUE, Told(e), <<>>, x \o d)
        BY <2>3, <4>3, <4>4 DEF AsEvents
      <4>6. AsEvents(TRUE, Told(e), <<>>, d)
        BY <4>1, <4>4, <4>5, EventLost
      <4>7. QED BY <4>3, <4>4, <4>6 DEF AsEvents
    <3>3. QED BY <3>1, <3>2
  <2>5. QED BY <1>1, <2>3, <2>4, DeliveryBegins DEF SaidInv
<1>4. QED BY <1>2, <1>3

LEMMA DeliveryClassify ==
  ASSUME LineTypes, FeedTypes, FeedTypes', LineInv, OwnersInv, \A j \in Chan : StageInv(j),
         NEW e \in End, CallInv(e), DeliveryInv(e), SaidInv(e), NEW c \in Conn, Classify(c)
  PROVE  DeliveryInv(e)' /\ SaidInv(e)'
<1> DEFINE f == Server(taking[c])
<1>1. UNCHANGED <<event, seen, pending, resizes, popped, said>>
  BY ClassifyReach
<1>2. /\ wire[f] # <<>> /\ Head(wire[f]).kind \in Requests
      /\ \A g \in End : wire'[g] = IF g = f THEN Tail(wire[g]) ELSE wire[g]
      /\ \A g \in End : g # f => reader'[g] = reader[g]
      /\ reader[f] = "none"
  BY ClassifyReach
<1> HIDE DEF f
<1>3. CASE e # f
  <2>1. wire'[e] = wire[e] /\ reader'[e] = reader[e]
    BY <1>2, <1>3
  <2>2. QED BY <1>1, <2>1, WireKept DEF SaidInv
<1>4. CASE e = f
  <2>1. wire[e] # <<>> /\ wire'[e] = Tail(wire[e]) /\ reader[e] = "none"
    BY <1>2, <1>4
  <2>2. One(Head(wire[e]), AppMessage) = <<>>
    BY <1>2, <1>4, ChatterIsNotSaid DEF Requests, AppKinds
  <2>3. ToCome(e)' = ToCome(e)
    BY <1>1, <2>1, <2>2, ChatterGoes
  <2>4. /\ event[e] = NoEvent /\ seen[e] = <<>> /\ pending[e] = <<>>
        /\ resizes[e] = <<>> /\ popped[e] = <<>>
        /\ AsEvents(Late(e), Told(e), <<>>, ToCome(e))
    BY <2>1, NothingGiven
  <2>5. QED BY <1>1, <2>3, <2>4, DeliveryBegins DEF SaidInv
<1>5. QED BY <1>3, <1>4

LEMMA NoEventIsNothing == One(NoEvent, AppMessage) = <<>>
  BY ChatterIsNotSaid DEF NoEvent

(* An event that is produced, or has been dealt with, in terms of wire.    *)
LEMMA ToComeIdle ==
  ASSUME FeedTypes, NEW e \in End, event[e] = NoEvent
  PROVE  ToCome(e) = Only(wire[e], AppMessage)
<1> DEFINE w == Only(wire[e], AppMessage)
<1>1. w \in Seq(AppMessage) /\ ToCome(e) = One(event[e], AppMessage) \o w
  BY ToComeNow
<1> HIDE DEF w
<1>2. <<>> \o w = w
  BY <1>1, Parts
<1>3. QED BY <1>1, <1>2, NoEventIsNothing DEF w

LEMMA ToComeIdleNext ==
  ASSUME FeedTypes', NEW e \in End, event'[e] = NoEvent, wire'[e] = wire[e], FeedTypes
  PROVE  ToCome(e)' = Only(wire[e], AppMessage)
  BY ToComeNow, ToComeNext, NoEventIsNothing, Parts

(* What a reader does: it pops a resize, takes its next event, ends its call,*)
(* copies to the buffer, keeps a resize for later, or fails.               *)
LEMMA DeliveryPop ==
  ASSUME FeedTypes, FeedTypes', NEW e \in End, CallInv(e), DeliveryInv(e), SaidInv(e),
         PopResize(e), UNCHANGED sessionVars
  PROVE  DeliveryInv(e)'
<1>1. UNCHANGED <<wire, event, seen, pending, reader, said>> /\ reader[e] = "bytes"
  BY DEF PopResize, Reading, sessionVars
<1>2. CASE resizes[e] = <<>>
  BY <1>1, <1>2, WireKept DEF PopResize
<1>3. ASSUME NEW m \in ResizeMessage, resizes[e] = <<m>> PROVE DeliveryInv(e)'
  <2>1. resizes[e] # <<>> /\ Head(resizes[e]) = m /\ Tail(resizes[e]) = <<>>
    BY <1>3
  <2>2. popped[e] \in Seq(AppMessage) /\ m \in AppMessage
    BY DEF FeedTypes, ResizeMessage
  <2>3. popped'[e] = Append(popped[e], m) /\ resizes'[e] = <<>>
    BY <2>1 DEF PopResize, FeedTypes
  <2>4. popped'[e] = popped[e] \o <<m>>
    BY <2>2, <2>3, Parts
  <2>5. AsResizes(Told(e), popped[e], <<m>>, ToCome(e))
    BY <1>1, <1>3 DEF DeliveryInv
  <2>6. AsResizes(Told(e), popped[e] \o <<m>>, <<>>, ToCome(e))
    BY <2>2, <2>5, ResizePopped
  <2>7. Told(e)' = Told(e) /\ Late(e)' = Late(e) /\ ToCome(e)' = ToCome(e)
    BY <1>1 DEF Told, Late, ToCome, Coming
  <2>8. QED BY <1>1, <2>3, <2>4, <2>6, <2>7 DEF DeliveryInv
<1>4. QED BY <1>2, <1>3 DEF CallInv

LEMMA DeliveryQueued ==
  ASSUME FeedTypes, FeedTypes', NEW e \in End, CallInv(e), DeliveryInv(e), SaidInv(e),
         NextIsQueuedResize(e), UNCHANGED sessionVars
  PROVE  DeliveryInv(e)'
<1>1. /\ UNCHANGED <<wire, seen, pending, popped, reader, said>>
      /\ event[e] = NoEvent /\ resizes[e] # <<>>
  BY DEF NextIsQueuedResize, Wants, sessionVars
<1>2. reader[e] = "bytes"
  BY <1>1 DEF CallInv
<1>3. PICK m \in ResizeMessage : resizes[e] = <<m>>
  BY <1>1 DEF CallInv
<1>4. event'[e] = m /\ resizes'[e] = <<>>
  <2>1. Head(resizes[e]) = m /\ Tail(resizes[e]) = <<>>
    BY <1>3
  <2>2. QED BY <2>1 DEF NextIsQueuedResize, FeedTypes
<1>5. m \in AppMessage /\ IsResize(m) /\ ~IsData(m)
  BY DEF ResizeMessage, IsResize, IsData
<1> DEFINE d == ToCome(e)
           t == Told(e)
           b == seen[e] \o pending[e]
<1>6. t \in Seq(AppMessage) /\ d \in Seq(AppMessage) /\ b \in Seq(Byte)
      /\ popped[e] \in Seq(AppMessage)
  BY <1>2, DeliveryTypes
<1>7. ToCome(e)' = <<m>> \o d
  <2>1. d = Only(wire[e], AppMessage)
    BY <1>1, ToComeIdle
  <2>2. One(m, AppMessage) = <<m>>
    BY <1>5 DEF One
  <2>3. QED BY <1>1, <1>4, <2>1, <2>2, ToComeNext
<1>8. Told(e)' = t /\ Late(e)' = Late(e)
  BY <1>1 DEF Told, Late
<1>9. AsBytes(Late(e), t, b, d) /\ AsResizes(t, popped[e], <<m>>, d)
  BY <1>2, <1>3 DEF DeliveryInv
<1> HIDE DEF d, t, b
<1>10. AsBytes(Late(e), t, b, <<m>> \o d)
  BY <1>5, <1>6, <1>9, BytesOfHead
<1>11. AsResizes(t, popped[e], <<>>, <<m>> \o d)
  BY <1>5, <1>6, <1>9, ResizesOfHead
<1>12. QED BY <1>1, <1>2, <1>4, <1>7, <1>8, <1>10, <1>11 DEF DeliveryInv, b

LEMMA DeliveryNext ==
  ASSUME FeedTypes, FeedTypes', NEW e \in End, CallInv(e), DeliveryInv(e), SaidInv(e),
         NextIsClosed(e) \/ NextIsMessage(e), UNCHANGED sessionVars
  PROVE  DeliveryInv(e)'
<1>1. /\ UNCHANGED <<seen, pending, resizes, popped, reader, said>> /\ event[e] = NoEvent
  BY DEF NextIsClosed, NextIsMessage, Wants, sessionVars
<1>2. ToCome(e) = Only(wire[e], AppMessage) /\ ToCome(e) \in Seq(AppMessage)
  BY <1>1, ToComeIdle, ToComeNow
<1>3. CASE NextIsClosed(e)
  <2>1. wire'[e] = wire[e] /\ event'[e] = Msg("Close")
    BY <1>3 DEF NextIsClosed, FeedTypes
  <2>2. One(Msg("Close"), AppMessage) = <<>>
    BY ChatterIsNotSaid DEF Msg
  <2>3. ToCome(e)' = ToCome(e)
    BY <1>2, <2>1, <2>2, ToComeNext, Parts
  <2>4. QED BY <1>1, <2>3, DeliveryKept
<1>4. CASE NextIsMessage(e)
  <2> DEFINE m == Head(wire[e])
  <2>1. /\ wire[e] # <<>> /\ wire'[e] = Tail(wire[e])
        /\ event'[e] = IF m.kind \in AppKinds THEN m ELSE NoEvent
    BY <1>4 DEF NextIsMessage, Waited, FeedTypes
  <2>2. /\ Only(wire'[e], AppMessage) \in Seq(AppMessage)
        /\ Only(wire[e], AppMessage) = One(m, AppMessage) \o Only(wire'[e], AppMessage)
    BY <2>1, HeadGoes
  <2> HIDE DEF m
  <2>3. One(event'[e], AppMessage) = One(m, AppMessage)
    BY <2>1, NoEventIsNothing, ChatterIsNotSaid
  <2>4. ToCome(e)' = ToCome(e)
    BY <1>2, <2>2, <2>3, ToComeNext
  <2>5. QED BY <1>1, <2>4, DeliveryKept
<1>5. QED BY <1>3, <1>4

LEMMA DeliveryReturn ==
  ASSUME FeedTypes, FeedTypes', NEW e \in End, CallInv(e), DeliveryInv(e), SaidInv(e),
         ReturnEvent(e), UNCHANGED sessionVars
  PROVE  DeliveryInv(e)'
<1>1. /\ UNCHANGED <<wire, pending, resizes, popped, reader, said>>
      /\ event[e] # NoEvent /\ event'[e] = NoEvent /\ reader[e] = "events"
      /\ seen'[e] = Append(seen[e], event[e])
  BY DEF ReturnEvent, sessionVars, CallInv, FeedTypes
<1> DEFINE x == One(event[e], AppMessage)
           d == Only(wire[e], AppMessage)
           g == Only(seen[e], AppMessage)
           t == Told(e)
<1>2. /\ ToCome(e) = x \o d /\ x \in Seq(AppMessage) /\ d \in Seq(AppMessage)
      /\ g \in Seq(AppMessage) /\ t \in Seq(AppMessage)
  BY ToComeNow, DeliveryTypes
<1>3. ToCome(e)' = d
  BY <1>1, ToComeIdleNext
<1>4. Only(seen'[e], AppMessage) = g \o x
  <2>1. seen[e] \in Seq(Message \cup Byte) /\ event[e] \in Message \cup Byte
    BY <1>1, FeedFacts DEF FeedTypes
  <2>2. Only(Append(seen[e], event[e]), AppMessage) = g \o x
    BY <2>1, OnlyAppend
  <2>3. QED BY <1>1, <2>2
<1>5. AsEvents(Late(e), t, g, ToCome(e))
  BY <1>1 DEF DeliveryInv
<1>6. Told(e)' = t /\ Late(e)' = Late(e)
  BY <1>1 DEF Told, Late
<1> HIDE DEF x, d, g, t
<1>7. AsEvents(Late(e), t, g \o x, d)
  BY <1>2, <1>5, EventGiven
<1>8. QED BY <1>1, <1>3, <1>4, <1>6, <1>7 DEF DeliveryInv

LEMMA DeliveryCopies ==
  ASSUME FeedTypes, FeedTypes', NEW e \in End, CallInv(e), DeliveryInv(e), SaidInv(e),
         RecvCopies(e), UNCHANGED sessionVars
  PROVE  DeliveryInv(e)'
<1> DEFINE n == MinOf(Len(pending[e]), BufLen)
           p == pending[e]
           x == SubSeq(p, 1, n)
           y == SubSeq(p, n + 1, Len(p))
<1>1. /\ UNCHANGED <<wire, event, resizes, popped, reader, said>> /\ reader[e] = "bytes"
  BY DEF RecvCopies, sessionVars, CallInv
<1>2. seen'[e] = seen[e] \o x /\ pending'[e] = y
  BY DEF RecvCopies, FeedTypes
<1>3. p \in Seq(Byte) /\ Len(p) \in Nat /\ seen[e] \in Seq(Byte)
  BY <1>1, SeqFacts DEF FeedTypes, CallInv
<1>4. n \in Nat /\ n <= Len(p)
  BY <1>3, FeedFacts DEF MinOf
<1> HIDE DEF n, p
<1>5. x \o y = p /\ x \in Seq(Byte) /\ y \in Seq(Byte)
  <2>1. x \in Seq(Byte) /\ y \in Seq(Byte)
    BY <1>3, <1>4, PieceType
  <2>2. 1 \in 1..(Len(p) + 1) /\ n \in (1 - 1)..Len(p) /\ Len(p) \in n..Len(p)
    BY <1>3, <1>4
  <2>3. SubSeq(p, 1, n) \o SubSeq(p, n + 1, Len(p)) = SubSeq(p, 1, Len(p))
    BY <1>3, <2>2, ConcatAdjacentSubSeq
  <2>4. SubSeq(p, 1, Len(p)) = p
    BY <1>3, SubSeqFull
  <2>5. QED BY <2>1, <2>3, <2>4
<1> HIDE DEF x, y
<1>6. seen'[e] \o pending'[e] = seen[e] \o p
  <2>1. Associate(seen[e], x, y)
    BY <1>3, <1>5, Grouping
  <2>2. QED BY <1>2, <1>5, <2>1 DEF Associate
<1>7. Told(e)' = Told(e) /\ Late(e)' = Late(e) /\ ToCome(e)' = ToCome(e)
  BY <1>1 DEF Told, Late, ToCome, Coming
<1>8. QED BY <1>1, <1>6, <1>7 DEF DeliveryInv, p

LEMMA DeliveryKeeps ==
  ASSUME FeedTypes, FeedTypes', NEW e \in End, CallInv(e), DeliveryInv(e), SaidInv(e),
         RecvKeeps(e), UNCHANGED sessionVars
  PROVE  DeliveryInv(e)'
<1> DEFINE m == event[e]
           d == Only(wire[e], AppMessage)
           t == Told(e)
<1>1. /\ UNCHANGED <<wire, seen, popped, reader, said>> /\ reader[e] = "bytes"
      /\ event'[e] = NoEvent /\ m.kind \in AppKinds \ {"Eof", "Close"}
      /\ call[e] = "recv" /\ m # NoEvent
      /\ pending'[e] = IF IsData(m) THEN Bytes(m) ELSE pending[e]
      /\ resizes'[e] = IF IsResize(m) THEN Append(resizes[e], m) ELSE resizes[e]
  BY DEF RecvKeeps, sessionVars, CallInv, FeedTypes, NoEvent, AppKinds
<1>2. m \in AppMessage
  BY <1>1 DEF FeedTypes, Event, Msg, NoEvent
<1>3. pending[e] = <<>>
  BY <1>1 DEF CallInv
<1>4. /\ t \in Seq(AppMessage) /\ popped[e] \in Seq(AppMessage)
      /\ resizes[e] \in Seq(AppMessage) /\ seen[e] \in Seq(Byte) /\ Bytes(m) \in Seq(Byte)
      /\ d \in Seq(AppMessage)
  BY <1>1, <1>2, DeliveryTypes, BytesType, ToComeNow
<1>5. ToCome(e) = <<m>> \o d /\ ToCome(e)' = d
  <2>1. One(m, AppMessage) = <<m>>
    BY <1>2 DEF One
  <2>2. QED BY <1>1, <2>1, ToComeNow, ToComeIdleNext
<1>6. seen[e] \o pending[e] = seen[e]
  BY <1>3, <1>4, Parts
<1>7. AsBytes(Late(e), t, seen[e], <<m>> \o d) /\ AsResizes(t, popped[e], resizes[e], <<m>> \o d)
  BY <1>1, <1>5, <1>6 DEF DeliveryInv
<1>8. Told(e)' = t /\ Late(e)' = Late(e)
  BY <1>1 DEF Told, Late
<1> HIDE DEF m, d, t
<1>9. AsBytes(Late(e), t, seen[e] \o pending'[e], d)
  <2>1. CASE IsData(m)
    BY <1>1, <1>2, <1>4, <1>7, <2>1, BytesOfHead
  <2>2. CASE ~IsData(m)
    <3>1. AsBytes(Late(e), t, seen[e], d)
      BY <1>2, <1>4, <1>7, <2>2, BytesOfHead
    <3>2. QED BY <1>1, <1>6, <2>2, <3>1
  <2>3. QED BY <2>1, <2>2
<1>10. AsResizes(t, popped[e], resizes'[e], d)
  <2>1. CASE IsResize(m)
    <3>1. resizes[e] = <<>>
      BY <2>1 DEF CallInv, m
    <3>2. resizes'[e] = <<m>>
      BY <1>1, <2>1, <3>1
    <3>3. QED BY <1>2, <1>4, <1>7, <2>1, <3>1, <3>2, ResizesOfHead
  <2>2. CASE ~IsResize(m)
    BY <1>1, <1>2, <1>4, <1>7, <2>2, ResizesOfHead
  <2>3. QED BY <2>1, <2>2
<1>11. QED BY <1>1, <1>5, <1>8, <1>9, <1>10 DEF DeliveryInv

LEMMA DeliveryFails ==
  ASSUME FeedTypes, FeedTypes', NEW e \in End, CallInv(e), DeliveryInv(e), SaidInv(e),
         RecvFails(e), UNCHANGED sessionVars
  PROVE  DeliveryInv(e)'
<1> DEFINE m == event[e]
           d == Only(wire[e], AppMessage)
           t == Told(e)
           b == seen[e] \o pending[e]
<1>1. /\ UNCHANGED <<wire, seen, pending, resizes, popped, reader, said>> /\ reader[e] = "bytes"
      /\ event'[e] = NoEvent /\ m.kind \in {"Eof", "Close"}
  BY DEF RecvFails, sessionVars, CallInv, FeedTypes
<1>2. ~IsData(m) /\ ~IsResize(m)
  BY <1>1 DEF IsData, IsResize
<1>4. /\ t \in Seq(AppMessage) /\ popped[e] \in Seq(AppMessage)
      /\ resizes[e] \in Seq(AppMessage) /\ b \in Seq(Byte) /\ d \in Seq(AppMessage)
  BY <1>1, DeliveryTypes, ToComeNow
<1>5. ToCome(e) = One(m, AppMessage) \o d /\ ToCome(e)' = d
  BY <1>1, ToComeNow, ToComeIdleNext
<1>7. AsBytes(Late(e), t, b, One(m, AppMessage) \o d)
      /\ AsResizes(t, popped[e], resizes[e], One(m, AppMessage) \o d)
  BY <1>1, <1>5 DEF DeliveryInv
<1>8. Told(e)' = t /\ Late(e)' = Late(e)
  BY <1>1 DEF Told, Late
<1>b. b = seen'[e] \o pending'[e]
  BY <1>1
<1> HIDE DEF m, d, t, b
<1>9. AsBytes(Late(e), t, b, d) /\ AsResizes(t, popped[e], resizes[e], d)
  <2>1. CASE m \in AppMessage
    <3>1. One(m, AppMessage) = <<m>>
      BY <2>1 DEF One
    <3>2. AsBytes(Late(e), t, b, d)
      BY <1>2, <1>4, <1>7, <2>1, <3>1, BytesOfHead
    <3>3. AsResizes(t, popped[e], resizes[e], d)
      BY <1>2, <1>4, <1>7, <2>1, <3>1, ResizesOfHead
    <3>4. QED BY <3>2, <3>3
  <2>2. CASE m \notin AppMessage
    <3>1. One(m, AppMessage) \o d = d
      BY <1>4, <2>2, Parts DEF One
    <3>2. QED BY <1>7, <3>1
  <2>3. QED BY <2>1, <2>2
<1>10. QED BY <1>1, <1>5, <1>8, <1>9, <1>b DEF DeliveryInv

(* A reader reads.                                                         *)
LEMMA DeliveryRead ==
  ASSUME FeedTypes, FeedTypes', NEW e \in End, CallInv(e), DeliveryInv(e), SaidInv(e),
         NEW f \in End, CallInv(f), ReadChannel(f)
  PROVE  DeliveryInv(e)' /\ SaidInv(e)'
<1>1. UNCHANGED sessionVars /\ UNCHANGED said
  BY DEF ReadChannel, sessionVars
<1>2. SaidInv(e)'
  BY <1>1 DEF SaidInv
<1>3. CASE e # f
  <2>1. /\ wire'[e] = wire[e] /\ seen'[e] = seen[e] /\ pending'[e] = pending[e]
        /\ resizes'[e] = resizes[e] /\ popped'[e] = popped[e] /\ event'[e] = event[e]
        /\ reader'[e] = reader[e]
    BY <1>3, ReadReach
  <2>2. QED BY <1>1, <1>2, <2>1, WireKept
<1>4. CASE e = f
  <2>1. CASE CallNextEvent(e) \/ CallRecv(e)
    <3>1. UNCHANGED <<wire, seen, pending, resizes, popped, event, reader>>
      BY <2>1 DEF CallNextEvent, CallRecv
    <3>2. QED BY <1>1, <1>2, <3>1, WireKept
  <2>2. CASE PopResize(e)
    BY <1>1, <1>2, <2>2, DeliveryPop
  <2>3. CASE NextEvent(e)
    BY <1>1, <1>2, <2>3, DeliveryQueued, DeliveryNext DEF NextEvent
  <2>4. CASE Return(e)
    BY <1>1, <1>2, <2>4, DeliveryReturn, DeliveryCopies, DeliveryKeeps, DeliveryFails DEF Return
  <2>5. QED BY <1>4, <2>1, <2>2, <2>3, <2>4 DEF ReadChannel, Read, CallStep
<1>5. QED BY <1>3, <1>4

-----------------------------------------------------------------------------
(* The inductive invariant of the delivery: whose channels they are, how far*)
(* each has got, what its readers are about, and what each end was given.  *)

SurfaceInv ==
  /\ OwnersInv
  /\ \A k \in Chan : StageInv(k)
  /\ \A e \in End : CallInv(e) /\ SaidInv(e) /\ DeliveryInv(e)

LEMMA NoMessages == <<>> \in Seq(AppMessage) /\ <<>> \o <<>> = <<>>
<1>1. <<>> \in Seq(AppMessage)
  OBVIOUS
<1>2. QED BY <1>1, Parts

LEMMA InitSurface == Init => SurfaceInv
<1> SUFFICES ASSUME Init PROVE SurfaceInv
  OBVIOUS
<1>0. LineTypes /\ FeedTypes
  BY InitSession, InitFeed DEF SessionInv
<1> USE DEF Init, ChannelInit
<1>1. ToSet(<<>>) = {}
  BY SeqFacts
<1>2. OwnersInv
  BY <1>1 DEF OwnersInv
<1>3. ASSUME NEW k \in Chan PROVE StageInv(k)
  <2>1. Client(k) \in End /\ Server(k) \in End /\ Owner[k] \in Conn
    BY EndsOfChannel
  <2>2. ~Returned(k)
    BY <1>1, <2>1 DEF Returned
  <2>3. QED BY <2>1, <2>2 DEF StageInv, Early, Requested
<1>4. ASSUME NEW e \in End PROVE CallInv(e) /\ SaidInv(e) /\ DeliveryInv(e)
  <2>1. Says[e] \in Seq(AppMessage) /\ Len(Says[e]) \in Nat
    BY SessionAssumption, SeqFacts DEF SessionAssumption
  <2>2. SaidInv(e)
    BY <2>1 DEF SaidInv
  <2>3. ~IsResize(NoEvent)
    BY DEF IsResize, NoEvent
  <2>4. CallInv(e)
    BY <2>3 DEF CallInv
  <2>n. <<>> \in Seq(AppMessage) /\ <<>> \o <<>> = <<>>
    BY NoMessages
  <2>5. Only(<<>>, AppMessage) = <<>> /\ <<>> \o <<>> = <<>> /\ <<>> \in Seq(AppMessage)
    BY <2>n, OnlySteps
  <2>6. ToCome(e) = <<>>
    BY <1>0, <2>5, ToComeIdle
  <2>7. Told(e) = <<>>
    BY SubSeqEmpty DEF Told
  <2>8. AsEvents(Late(e), <<>>, <<>>, <<>>)
    BY <2>5 DEF AsEvents
  <2>9. DeliveryInv(e)
    BY <2>5, <2>6, <2>7, <2>8 DEF DeliveryInv
  <2>10. QED BY <2>2, <2>4, <2>9
<1>5. QED BY <1>2, <1>3, <1>4 DEF SurfaceInv

(* The steps that leave the ends of the channels and their readers alone.  *)
LEMMA SurfaceKept ==
  ASSUME SurfaceInv, OwnersInv', UNCHANGED <<wire, pending, resizes, reader, call, event, seen,
                                             popped, said>>
  PROVE  \A e \in End : (CallInv(e) /\ SaidInv(e) /\ DeliveryInv(e))'
<1> SUFFICES ASSUME NEW e \in End PROVE (CallInv(e) /\ SaidInv(e) /\ DeliveryInv(e))'
  OBVIOUS
<1>1. CallInv(e) /\ SaidInv(e) /\ DeliveryInv(e)
  BY DEF SurfaceInv
<1>2. CallInv(e)'
  BY <1>1, CallKept
<1>3. SaidInv(e)'
  BY <1>1 DEF SaidInv
<1>4. DeliveryInv(e)'
  BY <1>1, WireKept
<1>5. QED BY <1>2, <1>3, <1>4

(* Every step of Next keeps it.                                            *)
LEMMA SurfaceStep ==
  ASSUME SessionInv, FeedTypes, SurfaceInv, [Next]_vars
  PROVE  SurfaceInv'
<1>o. OwnersInv'
  BY OwnersStep DEF SessionInv, SurfaceInv
<1>t. LineTypes /\ LineInv /\ FeedTypes /\ FeedTypes' /\ OwnersInv
  BY FeedStep DEF SessionInv, SurfaceInv
<1>i. /\ \A k \in Chan : StageInv(k)
      /\ \A e \in End : CallInv(e) /\ SaidInv(e) /\ DeliveryInv(e)
  BY DEF SurfaceInv
<1>1. ASSUME UNCHANGED <<chanVars, opening, served, said>> PROVE SurfaceInv'
  <2>1. UNCHANGED <<wire, pending, resizes, reader, call, event, seen, popped>>
    BY <1>1 DEF chanVars
  <2>2. \A k \in Chan : StageInv(k)'
    <3> SUFFICES ASSUME NEW k \in Chan PROVE StageInv(k)'
      OBVIOUS
    <3>1. StageInv(k) /\ (Returned(k)' <=> Returned(k))
      BY <1>1, <1>i DEF Returned
    <3>2. QED BY <1>1, <2>1, <3>1, StageKept
  <2>3. \A e \in End : (CallInv(e) /\ SaidInv(e) /\ DeliveryInv(e))'
    BY <1>1, <1>o, <2>1, SurfaceKept
  <2>4. QED BY <1>o, <2>2, <2>3 DEF SurfaceInv
<1>2. ASSUME NEW c \in Conn, Handler(c) \/ TakeChannel(c) \/ PassOver(c) \/ CancelNext(c)
      PROVE  SurfaceInv'
  BY <1>1, <1>2 DEF Handler, AuthPublickey, AuthSucceeded, TakeChannel, PassOver, CancelNext
<1>3. ASSUME NEW c \in Conn, SessionEnds(c) PROVE SurfaceInv'
  <2>1. UNCHANGED <<wire, pending, resizes, reader, call, event, seen, popped, said, served,
                    opening>>
    BY <1>3 DEF SessionEnds
  <2>2. \A k \in Chan : StageInv(k)'
    <3> SUFFICES ASSUME NEW k \in Chan PROVE StageInv(k)'
      OBVIOUS
    <3>1. StageInv(k) /\ (Returned(k)' <=> Returned(k))
      BY <1>i, <2>1 DEF Returned
    <3>2. QED BY <2>1, <3>1, StageKept
  <2>3. \A e \in End : (CallInv(e) /\ SaidInv(e) /\ DeliveryInv(e))'
    BY <1>o, <2>1, SurfaceKept
  <2>4. QED BY <1>o, <2>2, <2>3 DEF SurfaceInv
<1>4. ASSUME NEW c \in Conn, Classify(c) PROVE SurfaceInv'
  <2>1. \A k \in Chan : StageInv(k)'
    BY <1>i, <1>t, <1>4, StageClassify
  <2>2. ASSUME NEW e \in End PROVE (CallInv(e) /\ SaidInv(e) /\ DeliveryInv(e))'
    <3>1. DeliveryInv(e)' /\ SaidInv(e)'
      BY <1>i, <1>t, <1>4, DeliveryClassify
    <3> DEFINE f == Server(taking[c])
    <3>2. /\ UNCHANGED <<pending, resizes, call, event, seen, popped>>
          /\ \A g \in End : g # f => reader'[g] = reader[g]
          /\ reader[f] = "none" /\ reader'[f] \in {"none", "events", "bytes"}
      BY <1>i, <1>t, <1>4, ClassifyReach
    <3> HIDE DEF f
    <3>3. CallInv(e)'
      <4>1. CASE e # f
        BY <1>i, <3>2, <4>1, CallKept
      <4>2. CASE e = f
        BY <1>i, <3>2, <4>2, CallBegins
      <4>3. QED BY <4>1, <4>2
    <3>4. QED BY <3>1, <3>3
  <2>3. QED BY <1>o, <2>1, <2>2 DEF SurfaceInv
<1>5. ASSUME Accept PROVE SurfaceInv'
  BY <1>1, <1>5 DEF Accept
<1>6. ASSUME NEW j \in Chan, ClientOpens(j) \/ ClientRequests(j) \/ ClientGivesUp(j)
                             \/ OpenFails(j) \/ ChannelOpenSession(j)
      PROVE  SurfaceInv'
  <2>1. \A k \in Chan : StageInv(k)'
    BY <1>i, <1>t, <1>6, StageOpens
  <2>2. UNCHANGED <<wire, pending, resizes, reader, call, event, seen, popped, said>>
    BY <1>6 DEF ClientOpens, ClientRequests, ClientGivesUp, OpenFails, ChannelOpenSession,
                chanVars
  <2>3. \A e \in End : (CallInv(e) /\ SaidInv(e) /\ DeliveryInv(e))'
    BY <1>o, <2>2, SurfaceKept
  <2>4. QED BY <1>o, <2>1, <2>3 DEF SurfaceInv
<1>7. ASSUME NEW j \in Chan, WaitForReply(j) PROVE SurfaceInv'
  <2>1. \A k \in Chan : StageInv(k)'
    BY <1>i, <1>t, <1>7, StageWaits
  <2>2. ASSUME NEW e \in End PROVE (CallInv(e) /\ SaidInv(e) /\ DeliveryInv(e))'
    <3>1. DeliveryInv(e)' /\ SaidInv(e)'
      BY <1>i, <1>t, <1>7, DeliveryWait
    <3>2. /\ UNCHANGED <<pending, resizes, call, event, seen, popped>>
          /\ e # Client(j) => reader'[e] = reader[e]
          /\ reader'[Client(j)] = reader[Client(j)]
             \/ reader'[Client(j)] \in {"none", "events", "bytes"}
          /\ opening[j] \in {"first sent", "first await", "shell sent", "shell await"}
      BY <1>t, <1>7, WaitReach
    <3>3. reader[Client(j)] = "none"
      BY <1>i, <3>2 DEF StageInv
    <3>4. CallInv(e)'
      <4>1. CASE reader'[e] = reader[e]
        BY <1>i, <3>2, <4>1, CallKept
      <4>2. CASE e = Client(j) /\ reader'[e] \in {"none", "events", "bytes"}
        BY <1>i, <3>2, <3>3, <4>2, CallBegins
      <4>3. QED BY <3>2, <4>1, <4>2
    <3>5. QED BY <3>1, <3>4
  <2>3. QED BY <1>o, <2>1, <2>2 DEF SurfaceInv
<1>8. ASSUME NEW j \in Chan, FirstRequestArrives(j) \/ ShellRequestArrives(j)
      PROVE  SurfaceInv'
  <2>1. \A k \in Chan : StageInv(k)'
    BY <1>i, <1>t, <1>8, StageRequest
  <2>2. ASSUME NEW e \in End PROVE (CallInv(e) /\ SaidInv(e) /\ DeliveryInv(e))'
    <3>1. DeliveryInv(e)' /\ SaidInv(e)'
      BY <1>i, <1>t, <1>8, DeliveryRequest
    <3>2. UNCHANGED <<pending, resizes, call, event, seen, popped, reader>>
      BY <1>8 DEF FirstRequestArrives, ShellRequestArrives, RequestArrives
    <3>3. CallInv(e)'
      BY <1>i, <3>2, CallKept
    <3>4. QED BY <3>1, <3>3
  <2>3. QED BY <1>o, <2>1, <2>2 DEF SurfaceInv
<1>9. ASSUME NEW f \in End, Say(f) PROVE SurfaceInv'
  <2>1. \A k \in Chan : StageInv(k)'
    BY <1>i, <1>t, <1>9, StageSay
  <2>2. ASSUME NEW e \in End PROVE (CallInv(e) /\ SaidInv(e) /\ DeliveryInv(e))'
    <3>1. DeliveryInv(e)' /\ SaidInv(e)'
      BY <1>i, <1>t, <1>9, DeliverySay
    <3>2. UNCHANGED <<pending, resizes, call, event, seen, popped, reader>>
      BY <1>t, <1>9, SayReach
    <3>3. CallInv(e)'
      BY <1>i, <3>2, CallKept
    <3>4. QED BY <3>1, <3>3
  <2>3. QED BY <1>o, <2>1, <2>2 DEF SurfaceInv
<1>10. ASSUME NEW f \in End, ReadChannel(f) PROVE SurfaceInv'
  <2>1. \A k \in Chan : StageInv(k)'
    BY <1>i, <1>t, <1>10, StageRead
  <2>2. ASSUME NEW e \in End PROVE (CallInv(e) /\ SaidInv(e) /\ DeliveryInv(e))'
    <3>1. DeliveryInv(e)' /\ SaidInv(e)'
      BY <1>i, <1>t, <1>10, DeliveryRead
    <3>2. CallInv(e)'
      <4>1. CASE e # f
        <5>1. /\ reader' = reader /\ call'[e] = call[e] /\ seen'[e] = seen[e]
              /\ pending'[e] = pending[e] /\ resizes'[e] = resizes[e]
              /\ popped'[e] = popped[e] /\ event'[e] = event[e]
          BY <1>i, <1>t, <1>10, <4>1, ReadReach
        <5>2. QED BY <1>i, <5>1, CallKept
      <4>2. CASE e = f
        BY <1>i, <1>t, <1>10, <4>2, CallRead
      <4>3. QED BY <4>1, <4>2
    <3>3. QED BY <3>1, <3>2
  <2>3. QED BY <1>o, <2>1, <2>2 DEF SurfaceInv
<1>11. CASE UNCHANGED vars
  BY <1>1, <1>11 DEF vars, sessionVars
<1>12. QED
  BY <1>2, <1>3, <1>4, <1>5, <1>6, <1>7, <1>8, <1>9, <1>10, <1>11
  DEF Next, NextChannel, ClientOpen, ChannelHandler

LEMMA SurfaceInductive == Spec => []SurfaceInv
<1>1. Init => SurfaceInv
  BY InitSurface
<1>2. SessionInv /\ FeedTypes /\ SurfaceInv /\ [Next]_vars => SurfaceInv'
  BY SurfaceStep
<1>3. QED BY <1>1, <1>2, Inductive, FeedInductive, PTL DEF Spec

(* What follows anything is a suffix.                                      *)
LEMMA SuffixIs ==
  ASSUME NEW S, NEW u \in Seq(S), NEW s \in Seq(S)
  PROVE  IsSuffix(s, u \o s)
<1> DEFINE t == u \o s
           a == Len(u)
           n == Len(s)
           x == Reverse(s)
           y == Reverse(t)
<1>1. /\ a \in Nat /\ n \in Nat /\ t \in Seq(S) /\ Len(t) = a + n
      /\ \A i \in 1..(a + n) : t[i] = IF i <= a THEN u[i] ELSE s[i - a]
  BY SeqFacts, ConcatProperties
<1> HIDE DEF t, a, n
<1>2. /\ x = [i \in 1..n |-> s[(n - i) + 1]]
      /\ y = [i \in 1..(a + n) |-> t[((a + n) - i) + 1]]
  BY <1>1 DEF Reverse, n
<1>3. x \in [1..n -> S] /\ y \in [1..(a + n) -> S]
  <2>1. \A i \in 1..n : (n - i) + 1 \in 1..n
    BY <1>1
  <2>2. \A i \in 1..n : s[i] \in S
    BY DEF n
  <2>3. \A i \in 1..(a + n) : ((a + n) - i) + 1 \in 1..(a + n)
    BY <1>1
  <2>4. \A i \in 1..(a + n) : t[i] \in S
    BY <1>1
  <2>5. QED BY <1>2, <2>1, <2>2, <2>3, <2>4
<1>4. /\ x \in Seq(S) /\ Len(x) = n /\ y \in Seq(S) /\ Len(y) = a + n
  BY <1>1, <1>3
<1>5. \A i \in 1..n : x[i] = y[i]
  <2> SUFFICES ASSUME NEW i \in 1..n PROVE x[i] = y[i]
    OBVIOUS
  <2> DEFINE j == ((a + n) - i) + 1
  <2>1. j \in 1..(a + n) /\ ~(j <= a) /\ j - a = (n - i) + 1 /\ i \in 1..(a + n)
    BY <1>1
  <2>2. t[j] = s[(n - i) + 1]
    BY <1>1, <2>1
  <2>3. QED BY <1>2, <2>1, <2>2
<1> HIDE DEF x, y
<1>6. SubSeq(x, 1, n) = SubSeq(y, 1, n)
  <2>1. SubSeq(x, 1, n) = x
    BY <1>4, SubSeqFull
  <2>2. /\ SubSeq(y, 1, n) \in Seq(S) /\ Len(SubSeq(y, 1, n)) = n
        /\ \A i \in 1..n : SubSeq(y, 1, n)[i] = y[i]
    <3>1. \A i \in 1..n : y[i] \in S
      BY <1>1, <1>3
    <3>2. /\ SubSeq(y, 1, n) \in Seq(S)
          /\ Len(SubSeq(y, 1, n)) = IF 1 <= n THEN n - 1 + 1 ELSE 0
          /\ \A i \in 1..(n - 1 + 1) : SubSeq(y, 1, n)[i] = y[1 + i - 1]
      BY <1>1, <3>1, SubSeqProperties
    <3>3. \A i \in 1..n : 1 + i - 1 = i
      BY <1>1
    <3>4. QED BY <1>1, <3>2, <3>3
  <2>3. QED BY <1>4, <1>5, <2>1, <2>2, SeqEqual
<1>7. Len(x) <= Len(y)
  BY <1>1, <1>4
<1>8. IsPrefix(x, y)
  BY <1>4, <1>6, <1>7 DEF IsPrefix
<1>9. QED BY <1>8 DEF IsSuffix, x, y, t

LEMMA PastLost ==
  ASSUME NEW S, NEW u \in Seq(S), NEW g \in Seq(S), NEW l, l \/ u = <<>>
  PROVE  IF l THEN IsSuffix(g, u \o g) ELSE g = u \o g
<1>1. IsSuffix(g, u \o g)
  BY SuffixIs
<1>2. <<>> \o g = g
  BY Parts
<1>3. QED BY <1>1, <1>2

(* What it says of an end is what the property says of it.                 *)
LEMMA SurfacePart ==
  ASSUME FeedTypes, SurfaceInv, NEW e \in End
  PROVE  /\ IF Late(e) THEN IsSuffix(Given(e), Due(e)) ELSE Given(e) = Due(e)
         /\ reader[e] = "bytes" =>
              popped[e] \o resizes[e] \o Geometry(ToCome(e)) = Geometry(Told(e))
<1>1. CallInv(e) /\ SaidInv(e) /\ DeliveryInv(e)
  BY DEF SurfaceInv
<1>2. /\ Told(e) \in Seq(AppMessage) /\ ToCome(e) \in Seq(AppMessage)
      /\ Only(seen[e], AppMessage) \in Seq(AppMessage)
      /\ reader[e] = "bytes" => seen[e] \o pending[e] \in Seq(Byte)
  BY <1>1, DeliveryTypes
<1>3. CASE reader[e] = "bytes"
  <2> DEFINE b == seen[e] \o pending[e]
             d == Stream(ToCome(e))
  <2>1. b \in Seq(Byte) /\ d \in Seq(Byte)
    BY <1>2, <1>3, StreamFacts
  <2>2. AsBytes(Late(e), Told(e), b, ToCome(e))
        /\ AsResizes(Told(e), popped[e], resizes[e], ToCome(e))
    BY <1>1, <1>3 DEF DeliveryInv
  <2>3. Given(e) = b \o d /\ Due(e) = Stream(Told(e))
    BY <1>3 DEF Given, Due
  <2> HIDE DEF b
  <2>4. PICK u \in Seq(Byte) : (Late(e) \/ u = <<>>) /\ Due(e) = u \o (b \o d)
    BY <2>2, <2>3 DEF AsBytes
  <2> HIDE DEF d
  <2> DEFINE g == b \o d
  <2>g. g \in Seq(Byte) /\ Given(e) = g /\ Due(e) = u \o g
    BY <2>1, <2>3, <2>4
  <2> HIDE DEF g
  <2>5. IF Late(e) THEN IsSuffix(g, u \o g) ELSE g = u \o g
    BY <2>4, <2>g, PastLost
  <2>6. QED BY <2>2, <2>5, <2>g DEF AsResizes
<1>4. CASE reader[e] # "bytes"
  <2> DEFINE b == Only(seen[e], AppMessage)
             d == ToCome(e)
  <2>1. b \in Seq(AppMessage) /\ d \in Seq(AppMessage)
    BY <1>2
  <2>2. AsEvents(Late(e), Told(e), b, d)
    BY <1>1, <1>4 DEF DeliveryInv
  <2>3. Given(e) = b \o d /\ Due(e) = Told(e)
    BY <1>4 DEF Given, Due
  <2> HIDE DEF b, d
  <2>4. PICK u \in Seq(AppMessage) : (Late(e) \/ u = <<>>) /\ Due(e) = u \o (b \o d)
    BY <2>2, <2>3 DEF AsEvents
  <2> DEFINE g == b \o d
  <2>g. g \in Seq(AppMessage) /\ Given(e) = g /\ Due(e) = u \o g
    BY <2>1, <2>3, <2>4
  <2> HIDE DEF g
  <2>5. IF Late(e) THEN IsSuffix(g, u \o g) ELSE g = u \o g
    BY <2>4, <2>g, PastLost
  <2>6. QED BY <1>4, <2>5, <2>g
<1>5. QED BY <1>3, <1>4

(* An end that reads bytes was given, has at hand and will be given exactly*)
(* the bytes of the Data messages sent to it, in order and through buffers *)
(* of any size, and the resizes apart, in order; an end that reads events  *)
(* exactly the events.  The client of a pty channel alone may have lost the*)
(* first of them to the wait for the reply to its shell request.           *)
THEOREM NothingLost == Spec => []NothingIsSwallowed
<1>1. FeedTypes /\ SurfaceInv => NothingIsSwallowed
  BY SurfacePart DEF NothingIsSwallowed, Late
<1>2. QED BY <1>1, FeedInductive, SurfaceInductive, PTL
=============================================================================
