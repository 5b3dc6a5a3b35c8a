----------------------------- MODULE SshSession -----------------------------
(***************************************************************************)
(* An SSH listener, its connections and their channels, from the TCP       *)
(* accept to the applications at both ends.                                *)
(*                                                                         *)
(* A session task per connection authenticates it and hands it to accept   *)
(* through a bounded queue; it hands every channel the client opens to     *)
(* next_channel through a bounded queue of the connection.  The handlers   *)
(* never wait: a full queue refuses.  next_channel takes the oldest        *)
(* channel and waits for its first request.  The session task answers the  *)
(* requests itself; the client's open_pty and its like wait for those      *)
(* answers on the channel that will carry the data (module SshChannel).    *)
(***************************************************************************)
EXTENDS SshChannel, SequencesExt

CONSTANTS
  Conn, Chan,
  NoChan,               \* next_channel holds no channel
  Owner,                \* channel -> the connection it is opened on
  Kind,                 \* channel -> what its client asks it to be
  Says,                 \* end -> the messages the other application sends to it
  Modes,                \* end -> the ways its application may read (none: it never does)
  connection_backlog,
  channel_backlog

ASSUME SessionAssumption ==
  /\ End = Chan \X {"client", "server"}
  /\ NoChan \notin Chan
  /\ Owner \in [Chan -> Conn]
  /\ Kind \in [Chan -> {"pty", "exec", "subsystem"}]
  /\ Says \in [End -> Seq(AppMessage)]
  /\ \A e \in End : Len(Says[e]) <= MaxSaid
  /\ \A k \in Chan : \A i \in DOMAIN Says[<<k, "client">>] :   \* only clients resize
       ~IsResize(Says[<<k, "client">>][i])
  /\ Modes \in [End -> SUBSET {"none", "events", "bytes"} \ {{}}]
  /\ connection_backlog \in Nat \ {0} /\ channel_backlog \in Nat \ {0}

VARIABLES
  session,     \* connection -> its session task: handshake, proven, up, ended
  conn_queue,  \* conn_tx: authenticated connections not accepted yet
  accepted,    \* the connections accept has returned
  chan_queue,  \* connection -> chan_tx: opened channels not taken yet
  taking,      \* connection -> the channel next_channel is classifying
  served,      \* connection -> the channels next_channel returned, in order
  abandoned,   \* channels that a cancelled next_channel took with it
  opened,      \* connection -> the channels confirmed to the client, in order
  opening,     \* channel -> how far the client's open has got
  said         \* end -> how much of Says the other application has sent

sessionVars == <<session, conn_queue, accepted, chan_queue, taking, served,
                 abandoned, opened, opening, said>>
vars == <<chanVars, sessionVars>>

Client(k) == <<k, "client">>
Server(k) == <<k, "server">>

Progress == {"closed", "asked", "refused", "confirmed", "first sent",
             "first await", "shell sent", "shell await", "open", "failed"}

TypeOK ==
  /\ ChannelTypeOK
  /\ session \in [Conn -> {"handshake", "proven", "up", "ended"}]
  /\ conn_queue \in Seq(Conn) /\ Len(conn_queue) <= connection_backlog
  /\ accepted \subseteq Conn
  /\ chan_queue \in [Conn -> Seq(Chan)]
  /\ \A c \in Conn : Len(chan_queue[c]) <= channel_backlog
  /\ taking \in [Conn -> Chan \cup {NoChan}]
  /\ abandoned \subseteq Chan
  /\ served \in [Conn -> Seq(Chan)]
  /\ opened \in [Conn -> Seq(Chan)]
  /\ opening \in [Chan -> Progress]
  /\ said \in [End -> 0..MaxSaid]

Init ==
  /\ ChannelInit
  /\ session = [c \in Conn |-> "handshake"]
  /\ conn_queue = <<>> /\ accepted = {}
  /\ chan_queue = [c \in Conn |-> <<>>]
  /\ taking = [c \in Conn |-> NoChan]
  /\ abandoned = {}
  /\ served = [c \in Conn |-> <<>>]
  /\ opened = [c \in Conn |-> <<>>]
  /\ opening = [k \in Chan |-> "closed"]
  /\ said = [e \in End |-> 0]

-----------------------------------------------------------------------------
(* The listener. *)

(* A proven key is admitted, or the attempt is rejected and the session    *)
(* ends.                                                                   *)
AuthPublickey(c) ==
  /\ session[c] = "handshake"
  /\ \E outcome \in {"proven", "ended"} : session' = [session EXCEPT ![c] = outcome]
  /\ UNCHANGED <<chanVars, conn_queue, accepted, chan_queue, taking, served,
                 opened, opening, said, abandoned>>

AuthSucceeded_NoBound(c) ==   \* mutant: an unbounded queue
  /\ session[c] = "proven"
  /\ session' = [session EXCEPT ![c] = "up"]
  /\ conn_queue' = Append(conn_queue, c)
  /\ UNCHANGED <<chanVars, accepted, chan_queue, taking, served, opened,
                 opening, said, abandoned>>

(* try_send: a full queue disconnects the client. *)
AuthSucceeded(c) ==
  /\ session[c] = "proven"
  /\ IF Len(conn_queue) < connection_backlog
     THEN /\ session' = [session EXCEPT ![c] = "up"]
          /\ conn_queue' = Append(conn_queue, c)
     ELSE /\ session' = [session EXCEPT ![c] = "ended"]
          /\ UNCHANGED conn_queue
  /\ UNCHANGED <<chanVars, accepted, chan_queue, taking, served, opened,
                 opening, said, abandoned>>

Accept ==
  /\ conn_queue # <<>>
  /\ accepted' = accepted \cup {Head(conn_queue)}
  /\ conn_queue' = Tail(conn_queue)
  /\ UNCHANGED <<chanVars, session, chan_queue, taking, served, opened,
                 opening, said, abandoned>>

(* The connection is closed or lost: wait() yields None on every end once  *)
(* what was delivered has been read.                                       *)
SessionEnds(c) ==
  /\ session[c] = "up"
  /\ session' = [session EXCEPT ![c] = "ended"]
  /\ over' = [e \in End |-> over[e] \/ Owner[e[1]] = c]
  /\ UNCHANGED <<wire, pending, resizes, closed, reader, call, event, seen,
                 popped, conn_queue, accepted, chan_queue, taking, served,
                 opened, opening, said, abandoned>>

-----------------------------------------------------------------------------
(* Opening a channel. *)

Advance(k, progress) == opening' = [opening EXCEPT ![k] = progress]

ClientOpens(k) ==
  /\ session[Owner[k]] = "up" /\ opening[k] = "closed"
  /\ Advance(k, "asked")
  /\ UNCHANGED <<chanVars, session, conn_queue, accepted, chan_queue, taking,
                 served, opened, said, abandoned>>

ChannelOpenSession_AcceptsFull(k) ==   \* mutant: accepts before it queues
  LET c == Owner[k] IN
  /\ session[c] = "up" /\ opening[k] = "asked"
  /\ Advance(k, "confirmed")
  /\ opened' = [opened EXCEPT ![c] = Append(@, k)]
  /\ chan_queue' = [chan_queue EXCEPT ![c] =
                      IF Len(@) < channel_backlog THEN Append(@, k) ELSE @]
  /\ UNCHANGED <<chanVars, session, conn_queue, accepted, taking, served, said,
                 abandoned>>

(* try_send again: a full queue refuses the channel. *)
ChannelOpenSession(k) ==
  LET c == Owner[k] IN
  /\ session[c] = "up" /\ opening[k] = "asked"
  /\ IF Len(chan_queue[c]) < channel_backlog
     THEN /\ Advance(k, "confirmed")
          /\ chan_queue' = [chan_queue EXCEPT ![c] = Append(@, k)]
          /\ opened' = [opened EXCEPT ![c] = Append(@, k)]
     ELSE Advance(k, "refused") /\ UNCHANGED <<chan_queue, opened>>
  /\ UNCHANGED <<chanVars, session, conn_queue, accepted, taking, served, said,
                 abandoned>>

(* The first request: the kind of the channel. *)
ClientRequests(k) ==
  /\ opening[k] = "confirmed" /\ ~over[Client(k)]
  /\ Advance(k, "first sent")
  /\ UNCHANGED <<chanVars, session, conn_queue, accepted, chan_queue, taking,
                 served, opened, said, abandoned>>

(* A client that closes the channel before it has asked for anything. *)
ClientGivesUp(k) ==
  /\ opening[k] = "confirmed" /\ ~over[Client(k)]
  /\ Advance(k, "failed")
  /\ over' = [over EXCEPT ![Client(k)] = TRUE, ![Server(k)] = TRUE]
  /\ UNCHANGED <<wire, pending, resizes, closed, reader, call, event, seen,
                 popped, session, conn_queue, accepted, chan_queue, taking,
                 served, opened, said, abandoned>>

(* The session task receives a request: it passes it to the channel, then  *)
(* answers it, whoever reads the channel.                                  *)
RequestArrives(k, request) ==
  /\ wire' = [wire EXCEPT ![Server(k)] = Append(@, Msg(request)),
                          ![Client(k)] = Append(@, Msg("success"))]
  /\ UNCHANGED <<over, pending, resizes, closed, reader, call, event, seen,
                 popped, session, conn_queue, accepted, chan_queue, taking,
                 served, opened, said, abandoned>>

FirstRequestArrives(k) ==
  /\ opening[k] = "first sent" /\ session[Owner[k]] = "up"
  /\ Advance(k, "first await")
  /\ RequestArrives(k, Kind[k])

ShellRequestArrives(k) ==
  /\ opening[k] = "shell sent" /\ session[Owner[k]] = "up"
  /\ Advance(k, "shell await")
  /\ RequestArrives(k, "shell")

Awaiting(k) ==
  opening[k] \in {"first sent", "first await", "shell sent", "shell await"}

(* wait_for_reply: the reply ends it, and every other message is passed    *)
(* over.  A pty is followed by the request for its shell.                  *)
AfterReply(k) ==
  IF opening[k] = "first await" /\ Kind[k] = "pty" THEN "shell sent" ELSE "open"

WaitForReply(k) ==
  LET e == Client(k)
      replied == Head(wire[e]).kind = "success"
  IN
  /\ Awaiting(k) /\ wire[e] # <<>>
  /\ wire' = [wire EXCEPT ![e] = Tail(@)]
  /\ IF replied THEN Advance(k, AfterReply(k)) ELSE UNCHANGED opening
  /\ \E r \in Modes[e] : reader' = [reader EXCEPT ![e] =
       IF replied /\ AfterReply(k) = "open" THEN r ELSE @]
  /\ UNCHANGED <<over, pending, resizes, closed, call, event, seen, popped,
                 session, conn_queue, accepted, chan_queue, taking, served,
                 opened, said, abandoned>>

(* None while the open is under way: ChannelClosed. *)
OpenFails(k) ==
  /\ opening[k] = "asked" \/ opening[k] = "confirmed" \/ Awaiting(k)
  /\ wire[Client(k)] = <<>>
  /\ over[Client(k)]
  /\ Advance(k, "failed")
  /\ UNCHANGED <<chanVars, session, conn_queue, accepted, chan_queue, taking,
                 served, opened, said, abandoned>>

-----------------------------------------------------------------------------
(* next_channel, which the server's application calls again and again. *)

TakeChannel_PutsBack(c) ==   \* mutant: a silent channel goes back in the queue
  /\ c \in accepted /\ chan_queue[c] # <<>>
  /\ taking[c] # NoChan => wire[Server(taking[c])] = <<>>
  /\ taking' = [taking EXCEPT ![c] = Head(chan_queue[c])]
  /\ chan_queue' = [chan_queue EXCEPT ![c] =
       IF taking[c] = NoChan THEN Tail(@) ELSE Append(Tail(@), taking[c])]
  /\ UNCHANGED <<chanVars, session, conn_queue, accepted, served, opened,
                 opening, said, abandoned>>

TakeChannel(c) ==
  /\ c \in accepted /\ taking[c] = NoChan
  /\ chan_queue[c] # <<>>
  /\ taking' = [taking EXCEPT ![c] = Head(chan_queue[c])]
  /\ chan_queue' = [chan_queue EXCEPT ![c] = Tail(@)]
  /\ UNCHANGED <<chanVars, session, conn_queue, accepted, served, opened,
                 opening, said, abandoned>>

(* The first request classifies the channel, and it is returned. *)
Classify(c) ==
  LET k == taking[c]
      e == Server(k)
  IN
  /\ k # NoChan /\ wire[e] # <<>>
  /\ wire' = [wire EXCEPT ![e] = Tail(@)]
  /\ IF Head(wire[e]).kind \in Requests
     THEN /\ served' = [served EXCEPT ![c] = Append(@, k)]
          /\ taking' = [taking EXCEPT ![c] = NoChan]
          /\ \E r \in Modes[e] : reader' = [reader EXCEPT ![e] = r]
     ELSE UNCHANGED <<served, taking, reader, abandoned>>
  /\ UNCHANGED <<over, pending, resizes, closed, call, event, seen, popped,
                 session, conn_queue, accepted, chan_queue, opened, opening, said,
                 abandoned>>

(* A channel that is gone before its first request is passed over. *)
PassOver_WaitsOn(c) ==   \* mutant: None goes round the inner loop
  taking[c] # NoChan /\ wire[Server(taking[c])] = <<>> /\ UNCHANGED vars

PassOver(c) ==
  LET e == Server(taking[c]) IN
  /\ taking[c] # NoChan
  /\ wire[e] = <<>> /\ over[e]
  /\ taking' = [taking EXCEPT ![c] = NoChan]
  /\ UNCHANGED <<chanVars, session, conn_queue, accepted, chan_queue, served,
                 opened, opening, said, abandoned>>

(* The application drops the call (a timeout, a select): the channel that  *)
(* was taken from the queue goes with it.                                  *)
CancelNext(c) ==
  /\ taking[c] # NoChan
  /\ taking' = [taking EXCEPT ![c] = NoChan]
  /\ abandoned' = abandoned \cup {taking[c]}
  /\ UNCHANGED <<chanVars, session, conn_queue, accepted, chan_queue, served,
                 opened, opening, said>>

-----------------------------------------------------------------------------
(* The applications send on a channel they hold. *)

Holds(e) ==   \* the other side of end e is in its application's hands
  IF e[2] = "server" THEN opening[e[1]] = "open"
  ELSE \E i \in DOMAIN served[Owner[e[1]]] : served[Owner[e[1]]][i] = e[1]

Say(e) ==
  /\ Holds(e) /\ ~over[e]
  /\ said[e] < Len(Says[e])
  /\ wire' = [wire EXCEPT ![e] = Append(@, Says[e][said[e] + 1])]
  /\ said' = [said EXCEPT ![e] = @ + 1]
  /\ UNCHANGED <<over, pending, resizes, closed, reader, call, event, seen,
                 popped, session, conn_queue, accepted, chan_queue, taking,
                 served, opened, opening, abandoned>>

ReadChannel(e) == Read(e) /\ UNCHANGED sessionVars

-----------------------------------------------------------------------------
Handler(c) == AuthPublickey(c) \/ AuthSucceeded(c)

ClientOpen(k) == \/ ClientOpens(k) \/ ClientRequests(k) \/ ClientGivesUp(k)
                 \/ WaitForReply(k) \/ OpenFails(k)

ChannelHandler(k) == \/ ChannelOpenSession(k) \/ FirstRequestArrives(k)
                     \/ ShellRequestArrives(k)

NextChannel(c) == TakeChannel(c) \/ Classify(c) \/ PassOver(c)

Next ==
  \/ \E c \in Conn : \/ Handler(c) \/ SessionEnds(c)
                     \/ NextChannel(c) \/ CancelNext(c)
  \/ Accept
  \/ \E k \in Chan : ClientOpen(k) \/ ChannelHandler(k)
  \/ \E e \in End : Say(e) \/ ReadChannel(e)

Spec == Init /\ [][Next]_vars

(* Fairness: the session tasks run, the server's application goes on       *)
(* accepting and calling next_channel, and a call runs on while it can.    *)
(* Nothing is assumed of clients.                                          *)
FairSpec ==
  /\ Spec
  /\ WF_vars(Accept)
  /\ \A c \in Conn : WF_vars(NextChannel(c))
  /\ \A k \in Chan : WF_vars(ChannelHandler(k))
  /\ \A e \in End : WF_vars(CallStep(e) /\ UNCHANGED sessionVars)

-----------------------------------------------------------------------------
(* Safety. *)

(* Refuse, never forget: a connection told it is authenticated is waiting  *)
(* for accept or was accepted, once; a channel confirmed to its client is  *)
(* queued, being classified, or returned by next_channel.  One that closed *)
(* before its first request was passed over, and one that a cancelled      *)
(* next_channel had taken is lost: the code does not put it back.          *)
NobodyIsForgotten ==
  /\ \A c \in Conn : session[c] = "up" =>
       (c \in ToSet(conn_queue)) # (c \in accepted)
  /\ \A c \in Conn : \A k \in ToSet(opened[c]) :
       LET places == {p \in {"queue", "taking", "served"} :
                        CASE p = "queue"  -> k \in ToSet(chan_queue[c])
                          [] p = "taking" -> k = taking[c]
                          [] OTHER        -> k \in ToSet(served[c])}
       IN \/ Cardinality(places) = 1
          \/ places = {} /\ (over[Server(k)] \/ k \in abandoned)

(* Channels are returned in the order the client opened them. *)
ServedInTurn ==
  \A c \in Conn : \A i, j \in DOMAIN served[c] : i < j =>
    \E x, y \in DOMAIN opened[c] :
      x < y /\ opened[c][x] = served[c][i] /\ opened[c][y] = served[c][j]

(* The messages of s that are in M, in the order of s.                     *)
Only(s, M) ==
  LET At == {i \in DOMAIN s : s[i] \in M}
      Nth(k) == CHOOSE i \in At : Cardinality({j \in At : j <= i}) = k
  IN [k \in 1..Cardinality(At) |-> s[Nth(k)]]

DataMessage == {m \in AppMessage : IsData(m)}
ResizeMessage == {m \in AppMessage : IsResize(m)}

(* What was sent to an end, and what its application makes of it: what it  *)
(* was given so far, then what is still to come (request and reply chatter *)
(* is not the application's, nor is a Close that stands for None).         *)
Told(e) == SubSeq(Says[e], 1, said[e])
Coming(e) == (IF event[e] = NoEvent THEN <<>> ELSE <<event[e]>>) \o wire[e]
ToCome(e) == Only(Coming(e), AppMessage)

(* The bytes of the Data messages of s, which are ChunkLen each.           *)
Stream(s) ==
  LET data == Only(s, DataMessage)
  IN [x \in 1..(Len(data) * ChunkLen) |->
        Bytes(data[(x - 1) \div ChunkLen + 1])[((x - 1) % ChunkLen) + 1]]
Geometry(s) == Only(s, ResizeMessage)

Given(e) ==
  IF reader[e] = "bytes" THEN seen[e] \o pending[e] \o Stream(ToCome(e))
  ELSE Only(seen[e], AppMessage) \o ToCome(e)
Due(e) == IF reader[e] = "bytes" THEN Stream(Told(e)) ELSE Told(e)

Reads(e) == reader[e] # "none"

(* "Everything is surfaced - never swallowed" (SshChannelEvent), as far as *)
(* it is so: an end that reads bytes gets exactly the bytes, through any   *)
(* buffer, and the resizes apart; an end that reads events gets exactly    *)
(* the events.  The client end of a pty channel gets a suffix of them: its *)
(* open may have passed over the first ones, those that the server's       *)
(* application writes between the pty and the shell request.               *)
NothingIsSwallowed ==
  \A e \in End : Reads(e) =>
    /\ IF e[2] = "client" /\ Kind[e[1]] = "pty"
       THEN IsSuffix(Given(e), Due(e)) ELSE Given(e) = Due(e)
    /\ reader[e] = "bytes" =>
         popped[e] \o resizes[e] \o Geometry(ToCome(e)) = Geometry(Told(e))

-----------------------------------------------------------------------------
(* Liveness. *)

Waiting(c) == ToSet(chan_queue[c]) \cup ({taking[c]} \ {NoChan})
Spoke(k) == wire[Server(k)] # <<>> \/ over[Server(k)]

(* Once every channel in the line has made its request or gone, none stays *)
(* in it (a silent channel at the head holds up the whole line).           *)
LineMovesOn ==
  \A k \in Chan :
    LET c == Owner[k] IN
    (k \in Waiting(c) /\ \A j \in Waiting(c) : Spoke(j)) ~> k \notin Waiting(c)

-----------------------------------------------------------------------------
(* What the comments of the source say and the code does not do. *)

(* "Resize events that arrived while recv was delivering bytes": recv goes *)
(* on delivering bytes when a resize has arrived before them.              *)
RecvReturns ==
  \A e \in End :
    (call[e] = "recv" /\ \E m \in ToSet(Coming(e)) : IsData(m)) ~> call[e] # "recv"
=============================================================================
