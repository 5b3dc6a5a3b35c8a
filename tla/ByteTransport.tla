---------------------------- MODULE ByteTransport ----------------------------
(***************************************************************************)
(* Transport::send and Transport::recv over one direction of a connection, *)
(* for each implementation the crate has:                                  *)
(*                                                                         *)
(*   tcp       TcpStreamNative: writes what the socket takes, yields when  *)
(*             it is full; a read returns any part of what has arrived     *)
(*   tcp_wasi  TcpStreamWasi: an output stream takes the buffer as a whole *)
(*             or would block                                              *)
(*   ws        WebSocketNative: what is sent is one message; a read        *)
(*             returns the head of a message, MessageBuffer keeps the tail *)
(*   ws_wasi   WebSocketWasi: the same, the messages put together by       *)
(*             tungstenite from what WasiSyncStream reads                  *)
(*   browser   WebSocketBrowser and RtcBrowser: callbacks put messages in  *)
(*             an unbounded queue and report the close                     *)
(*   rtc       RtcNative: the callback waits for room in a bounded queue,  *)
(*             and the close is only logged                                *)
(*                                                                         *)
(* What is sent is a unit: a frame, a line or a write of the bridge.  A    *)
(* byte is known by its unit and its place in it.                          *)
(***************************************************************************)
EXTENDS Integers, Sequences, FiniteSets, FiniteSetsExt

CONSTANTS
  Lengths,       \* the payload lengths of the units to send, as sequences
  HeaderLen,     \* HEADER_LEN of a frame
  ReadChunk,     \* the buffer that recv reads into
  NetCap,        \* bytes the connection holds before a write would block
  InboxCap       \* messages RtcNative's queue holds

ASSUME TransportAssumption ==
  /\ Lengths \subseteq Seq(Nat)
  /\ {HeaderLen, ReadChunk, NetCap, InboxCap} \subseteq Nat \ {0}

VARIABLES
  transport,  \* which implementation this run is about
  codec,      \* frames, lines or bridge: what is sent over it
  lens,       \* the payload lengths of this run's units
  sending,    \* bytes of the unit under way that are not written yet
  net,        \* bytes on the connection
  open,       \* the sender has not closed, and the connection is not broken
  inbox,      \* arrived and not received: the callback's queue, tungstenite's buffer
  closed,     \* browser: the close has been reported
  pending     \* MessageBuffer: the tail of a message

config  == <<transport, codec, lens>>
wireVars == <<sending, net, open, inbox, closed, pending>>

Transports == {"tcp", "tcp_wasi", "ws", "ws_wasi", "browser", "rtc"}
Streams    == {"tcp", "tcp_wasi"}
Callbacks  == {"browser", "rtc"}

(* A frame has a header; a line has a head (KIND:ROOM:) and a terminator.  *)
Size(f) == CASE codec = "frames" -> HeaderLen + lens[f]
             [] codec = "lines"  -> 2 + lens[f]
             [] codec = "bridge" -> lens[f]
Byte == UNION {{[f |-> f, at |-> i] : i \in 1..Size(f)} : f \in DOMAIN lens}
Unit(f) == [i \in 1..Size(f) |-> [f |-> f, at |-> i]]

WireOK ==
  /\ transport \in Transports /\ codec \in {"frames", "lines", "bridge"}
  /\ lens \in Lengths
  /\ {sending, net, inbox, pending} \subseteq Seq(Byte)
  /\ open \in BOOLEAN /\ closed \in BOOLEAN
  /\ transport = "tcp" => Len(net) <= NetCap
  /\ transport \in Streams => pending = <<>> /\ inbox = <<>>
  /\ closed => transport = "browser" /\ ~open

WireInit ==
  /\ sending = <<>> /\ net = <<>> /\ open = TRUE
  /\ inbox = <<>> /\ closed = FALSE /\ pending = <<>>

(* Sequences of bytes. *)
First(s, n) == SubSeq(s, 1, n)
Rest(s, n)  == SubSeq(s, n + 1, Len(s))
UpTo(n, s)  == Min({n, Len(s)})

-----------------------------------------------------------------------------
(* Sending. *)

(* tcp: the socket takes some of the bytes, as many as it has room for,    *)
(* and send waits (WouldBlock) while it has none.                          *)
WriteSome ==
  /\ transport = "tcp"
  /\ open /\ sending # <<>> /\ Len(net) < NetCap
  /\ \E n \in 1..UpTo(NetCap - Len(net), sending) :
       net' = net \o First(sending, n) /\ sending' = Rest(sending, n)
  /\ UNCHANGED <<open, inbox, closed, pending>>

(* All of it or, while the connection is full, nothing. *)
Whole ==
  /\ open /\ sending # <<>> /\ Len(net) < NetCap
  /\ net' = net \o sending
  /\ sending' = <<>>
  /\ UNCHANGED <<open, inbox, closed, pending>>

(* tcp_wasi: OutputStream::write reports no count, and send takes a write  *)
(* that succeeded for a whole one; it sleeps when the stream would block.  *)
WriteAssumedWhole == transport = "tcp_wasi" /\ Whole

(* ws_wasi: WasiSyncStream::write, under tungstenite, spins meanwhile.     *)
SyncWrite == transport = "ws_wasi" /\ Whole

(* ws: the message is handed to the library.                               *)
SendMessage == transport = "ws" /\ Whole

(* browser, rtc: so is the message on a channel that has not closed.       *)
SendOnChannel == transport \in Callbacks /\ ~closed /\ Whole

Write == WriteSome \/ WriteAssumedWhole \/ SyncWrite \/ SendMessage \/ SendOnChannel

(* The sender closes or dies, or the connection breaks: the rest of its    *)
(* unit is never written, and what has not been read may be lost.          *)
Break ==
  /\ open
  /\ open' = FALSE
  /\ sending' = <<>>
  /\ \/ UNCHANGED net
     \/ net' = <<>>
  /\ UNCHANGED <<inbox, closed, pending>>

-----------------------------------------------------------------------------
(* Messages arrive. *)

Message(s)    == First(s, Size(s[1].f))
HasMessage(s) == s # <<>> /\ Len(s) >= Size(s[1].f)
Messages(s)   == Cardinality({i \in DOMAIN s : s[i].at = 1})

(* rtc: on_message waits for room in the channel to recv.                  *)
QueueHasRoom == transport = "rtc" => Messages(inbox) < InboxCap

(* onmessage puts the message in the queue.                                *)
OnMessage ==
  /\ transport \in Callbacks /\ net # <<>>
  /\ QueueHasRoom
  /\ inbox' = inbox \o Message(net)
  /\ net' = Rest(net, Len(Message(net)))
  /\ UNCHANGED <<sending, open, closed, pending>>

OnClose_LogsOnly ==   \* mutant: the close is logged, and nothing else
  /\ transport = "browser" /\ ~open /\ net = <<>> /\ ~closed
  /\ UNCHANGED <<sending, net, open, inbox, closed, pending>>

(* browser: ready_state is CLOSED, RtcBrowser's closed flag is set, after  *)
(* the last message has been reported.                                     *)
OnClose ==
  /\ transport = "browser" /\ ~open /\ net = <<>> /\ ~closed
  /\ closed' = TRUE
  /\ UNCHANGED <<sending, net, open, inbox, pending>>

(* ws_wasi: tungstenite asks WasiSyncStream for bytes while it has no      *)
(* whole message; without any, read would block and recv sleeps.           *)
SyncRead ==
  /\ transport = "ws_wasi" /\ pending = <<>> /\ ~HasMessage(inbox)
  /\ \E k \in 1..UpTo(ReadChunk, net) :
       inbox' = inbox \o First(net, k) /\ net' = Rest(net, k)
  /\ UNCHANGED <<sending, open, closed, pending>>

-----------------------------------------------------------------------------
(* recv into a buffer of n bytes: the piece it may return, the tail it     *)
(* keeps, and what is left in the inbox and on the connection.             *)

(* MessageBuffer::deliver and drain_into. *)
Delivered(s, n, box, left) ==
  [piece |-> First(s, UpTo(n, s)), tail |-> Rest(s, UpTo(n, s)),
   inbox |-> box, net |-> left]

(* Any part of what has arrived (tcp, tcp_wasi). *)
ReadStream(n) ==
  {Delivered(First(net, k), n, inbox, Rest(net, k)) : k \in 1..UpTo(n, net)}

(* The next message (ws). *)
ReadMessage_DropsTail(n) ==   \* mutant: what does not fit the buffer is dropped
  IF net = <<>> THEN {}
  ELSE {[Delivered(Message(net), n, inbox, Rest(net, Len(Message(net))))
           EXCEPT !.tail = <<>>]}

ReadMessage(n) ==
  IF net = <<>> THEN {}
  ELSE {Delivered(Message(net), n, inbox, Rest(net, Len(Message(net))))}

(* The next message that the callback has queued, or tungstenite has put   *)
(* together.  (The browser's recv reports a timeout after 10000 attempts;  *)
(* nothing is consumed by then, and the caller asks again.)                *)
ReadQueued(n) ==
  IF HasMessage(inbox)
  THEN {Delivered(Message(inbox), n, Rest(inbox, Len(Message(inbox))), net)}
  ELSE {}

(* A retained tail comes first. *)
Reads(n) ==
  IF pending # <<>> THEN {Delivered(pending, n, inbox, net)}
  ELSE CASE transport \in Streams -> ReadStream(n)
         [] transport = "ws"      -> ReadMessage(n)
         [] OTHER                 -> ReadQueued(n)

Receives(r) == pending' = r.tail /\ inbox' = r.inbox /\ net' = r.net

(* RtcBrowser, like WebSocketBrowser, looks at the close only when its     *)
(* queue is empty.  RtcNative's queue has a sender in the callback for as  *)
(* long as it lives: recv is never told.                                   *)
BrowserAtEnd == ~HasMessage(inbox) /\ closed
NativeChannelAtEnd == FALSE

(* Nothing is left to read and nothing can come: recv returns an error.    *)
AtEnd ==
  /\ pending = <<>>
  /\ CASE transport = "rtc"     -> NativeChannelAtEnd
       [] transport = "browser" -> BrowserAtEnd
       [] OTHER                 -> ~open /\ net = <<>> /\ ~HasMessage(inbox)
=============================================================================
