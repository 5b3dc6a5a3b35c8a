---------------------------- MODULE FrameStream ----------------------------
(***************************************************************************)
(* What runs over a transport (ByteTransport):                             *)
(*                                                                         *)
(*   frames  FramedTransport: send_frame encodes a payload behind its      *)
(*           length, recv_frame cuts what arrives (after the bytes that    *)
(*           protocol detection consumed and BufferedTransport replays)    *)
(*           into frames, and an InboundBuffer takes them as it has room   *)
(*   lines   TransportSignalingChannel and SignalingClient: a message ends *)
(*           with a newline, and the receiver cuts its input at newlines   *)
(*   bridge  TransportBridge: AsyncWrite and AsyncRead over the transport  *)
(***************************************************************************)
EXTENDS ByteTransport

CONSTANTS
  max_frame,     \* the receiver's cap on a payload
  DetectLen,     \* the buffer protocol detection reads into
  AppBuf,        \* the buffer an AsyncRead caller reads into
  MultiLine,     \* a line's payload of this length or more has a break in it
  max_messages, max_bytes   \* the caps of the InboundBuffer

ASSUME StreamAssumption ==
  /\ {DetectLen, AppBuf, MultiLine, max_messages} \subseteq Nat \ {0}
  /\ MultiLine > 2
  /\ max_frame \in Nat /\ max_bytes \in Nat

VARIABLES
  checks,     \* the sender has the same cap (send_frame refuses above it)
  next,       \* the next unit to send
  sent,       \* the units that were accepted, in order
  resent,     \* the bridge has sent bytes again
  stage,      \* the receiver: connect, detect, frames, failed, unconnected
  prefix,     \* BufferedTransport: bytes to replay
  rbuf,       \* FramedTransport, the line channel, the bridge: bytes read ahead
  hand,       \* what recv_frame or recv_signal returned, until it is taken
  cut,        \* the messages that were returned without all their lines
  got,        \* bridge: bytes of the current unit that its reader has
  refused,    \* try_push has handed it back, and nothing was popped since
  queue,      \* InboundBuffer: frames
  bytes,      \* InboundBuffer: their bytes
  depth,      \* the queue_depth metric
  out         \* the units the consumer has taken

sendVars == <<next, sent, resent>>
recvVars == <<stage, prefix, rbuf, cut, got>>
bufVars  == <<refused, queue, bytes, depth, out>>
fixed    == <<config, checks>>
vars == <<fixed, wireVars, sendVars, recvVars, hand, bufVars>>

Frame == UNION {DOMAIN l : l \in Lengths}   \* a unit is its place in lens
NoFrame == 0

TypeOK ==
  /\ WireOK /\ checks \in BOOLEAN
  /\ next \in 1..(Len(lens) + 1)
  /\ {sent, out, queue} \subseteq Seq(DOMAIN lens)
  /\ {prefix, rbuf} \subseteq Seq(Byte)
  /\ Len(prefix) <= DetectLen
  /\ resent \in BOOLEAN /\ refused \in BOOLEAN
  /\ stage \in {"connect", "detect", "frames", "failed", "unconnected"}
  /\ hand \in DOMAIN lens \cup {NoFrame}
  /\ cut \subseteq DOMAIN lens /\ got \in Nat
  /\ refused => hand # NoFrame
  /\ bytes \in 0..max_bytes
  /\ depth \in 0..max_messages

(* A client begins by connecting; a server may begin by detecting the      *)
(* protocol, except that the native one peeks at a TCP stream.             *)
Stages ==
  {"frames"} \cup (IF transport \in {"tcp_wasi", "browser"} THEN {"connect"} ELSE {})
     \cup (IF codec = "frames" /\ transport \in {"tcp_wasi", "ws", "ws_wasi"}
           THEN {"detect"} ELSE {})

(* Bounds: the bridge is modelled over byte streams, where a write is of   *)
(* at least one byte.                                                      *)
Init ==
  /\ transport \in Transports
  /\ codec \in {"frames", "lines"} \cup
       (IF transport \in Streams THEN {"bridge"} ELSE {})
  /\ lens \in {l \in Lengths : codec = "bridge" => \A i \in DOMAIN l : l[i] > 0}
  /\ checks \in IF codec = "frames" THEN BOOLEAN ELSE {FALSE}
  /\ WireInit
  /\ next = 1 /\ sent = <<>> /\ resent = FALSE
  /\ stage \in Stages
  /\ prefix = <<>> /\ rbuf = <<>> /\ cut = {} /\ got = 0
  /\ hand = NoFrame /\ refused = FALSE
  /\ queue = <<>> /\ bytes = 0 /\ depth = 0 /\ out = <<>>

-----------------------------------------------------------------------------
(* The sender. *)

(* encode_frame refuses a payload above the sender's cap; send_signal and  *)
(* the first poll_write of a buffer take what they are given.              *)
Send ==
  /\ open /\ sending = <<>> /\ next <= Len(lens)
  /\ next' = next + 1
  /\ IF checks /\ lens[next] > max_frame THEN UNCHANGED <<sent, sending>>
     ELSE sent' = Append(sent, next) /\ sending' = Unit(next)
  /\ UNCHANGED <<fixed, net, open, inbox, closed, pending, resent, recvVars, hand,
                 bufVars>>

(* poll_write: the send future is pending, with some of the bytes written, *)
(* and is dropped; the caller's next poll_write has all of them again.     *)
PollWritePending ==
  /\ codec = "bridge" /\ transport = "tcp" /\ open
  /\ sending # <<>> /\ Len(net) = NetCap
  /\ sending # Unit(next - 1)
  /\ sending' = Unit(next - 1)
  /\ resent' = TRUE
  /\ UNCHANGED <<fixed, net, open, inbox, closed, pending, next, sent, recvVars,
                 hand, bufVars>>

(* What the transport does by itself. *)
Wire(A) == A /\ UNCHANGED <<fixed, sendVars, recvVars, hand, bufVars>>

-----------------------------------------------------------------------------
(* Is there a frame, a line, or anything, in rbuf? *)

(* decode_frame's header.  Bytes that are not a header read as whatever    *)
(* number they make: here one above the cap.                               *)
HeaderComplete == codec = "frames" /\ Len(rbuf) >= HeaderLen
Announced ==
  IF \A i \in 1..HeaderLen : rbuf[i].at = i THEN lens[rbuf[1].f] ELSE max_frame + 1

TooLarge_Never == FALSE   \* mutant: the length is not compared with the cap

TooLarge == HeaderComplete /\ Announced > max_frame

FrameComplete_OffByOne ==   \* mutant: waits for a byte past the frame
  HeaderComplete /\ ~TooLarge /\ Len(rbuf) > HeaderLen + Announced

FrameComplete == HeaderComplete /\ ~TooLarge /\ Len(rbuf) >= HeaderLen + Announced

(* A session description has several lines, and each ends with a newline.  *)
LineEnds ==
  {i \in DOMAIN rbuf : \/ rbuf[i].at = Size(rbuf[i].f)
                       \/ rbuf[i].at = 3 /\ lens[rbuf[i].f] >= MultiLine}
LineComplete == codec = "lines" /\ LineEnds # {}

Complete == \/ FrameComplete \/ LineComplete
            \/ codec = "bridge" /\ rbuf # <<>>

-----------------------------------------------------------------------------
(* The receiver. *)

(* TcpStreamWasi::connect polls finish_connect, WebSocketBrowser::connect  *)
(* waits for onopen.                                                       *)
Connected ==
  /\ stage = "connect" /\ open
  /\ stage' = "frames"
  /\ UNCHANGED <<fixed, wireVars, sendVars, prefix, rbuf, cut, got, hand, bufVars>>

(* It is refused, or not open after 5 seconds: then nobody will close it.  *)
ConnectFails ==
  /\ stage = "connect"
  /\ transport = "tcp_wasi" => ~open
  /\ stage' = "unconnected"
  /\ UNCHANGED <<fixed, wireVars, sendVars, prefix, rbuf, cut, got, hand, bufVars>>

(* Protocol detection reads the first message, or from a WASI stream as    *)
(* many bytes as it looks at; BufferedTransport takes them.                *)
Detect ==
  /\ stage = "detect"
  /\ \E r \in Reads(DetectLen - Len(prefix)) :
       prefix' = prefix \o r.piece /\ Receives(r)
  /\ stage' = IF transport \notin Streams \/ Len(prefix') = DetectLen
              THEN "frames" ELSE stage
  /\ UNCHANGED <<fixed, sending, open, closed, sendVars, rbuf, cut, got, hand, bufVars>>

(* It makes do with less when the stream ends. *)
DetectEnds ==
  /\ stage = "detect" /\ AtEnd /\ prefix # <<>>
  /\ stage' = "frames"
  /\ UNCHANGED <<fixed, wireVars, sendVars, prefix, rbuf, cut, got, hand, bufVars>>

Receiving == stage = "frames" /\ hand = NoFrame
Wanting   == Receiving /\ ~TooLarge /\ ~Complete

(* recv_frame has no complete frame: one more read, of the replayed bytes  *)
(* as long as there are any.                                               *)
ReplayPrefix ==
  /\ Wanting /\ prefix # <<>>
  /\ rbuf' = rbuf \o First(prefix, UpTo(ReadChunk, prefix))
  /\ prefix' = Rest(prefix, UpTo(ReadChunk, prefix))
  /\ UNCHANGED <<fixed, wireVars, sendVars, stage, cut, got, hand, bufVars>>

ReadMore ==
  /\ Wanting /\ prefix = <<>> /\ codec # "bridge"
  /\ \E r \in Reads(ReadChunk) : rbuf' = rbuf \o r.piece /\ Receives(r)
  /\ UNCHANGED <<fixed, sending, open, closed, sendVars, stage, prefix, cut, got,
                 hand, bufVars>>

(* ws_wasi reads only inside recv. *)
ReadAhead ==
  /\ stage = "detect" \/ (Wanting /\ prefix = <<>>)
  /\ Wire(SyncRead)

(* recv_frame returns the first frame and keeps what is behind it. *)
RecvFrame ==
  /\ Receiving /\ FrameComplete
  /\ hand' = rbuf[1].f
  /\ rbuf' = Rest(rbuf, HeaderLen + Announced)
  /\ UNCHANGED <<fixed, wireVars, sendVars, stage, prefix, cut, got, bufVars>>

(* Only a line that begins with a kind and a room is a message.            *)
Deserializes == rbuf[1].at = 1

(* recv_signal cuts off the first line and returns it if it parses.  Any   *)
(* other line is skipped.                                                  *)
RecvSignal ==
  /\ Receiving /\ LineComplete
  /\ LET end == Min(LineEnds)
         f   == rbuf[1].f
     IN /\ rbuf' = Rest(rbuf, end)
        /\ IF Deserializes
           THEN /\ hand' = f
                /\ cut' = cut \cup {f : i \in {end} \ {Size(f)}}
           ELSE UNCHANGED <<hand, cut>>
  /\ UNCHANGED <<fixed, wireVars, sendVars, stage, prefix, got, bufVars>>

(* The places in s of the last bytes of units, and the k-th of them.       *)
LastBytes(s) == {i \in DOMAIN s : s[i].at = Size(s[i].f)}
Nth(I, k) == CHOOSE i \in I : Cardinality({j \in I : j <= i}) = k

(* The caller of poll_read gets what fits its buffer of s; the rest stays  *)
(* in read_buffer.                                                         *)
Serve(s) ==
  LET piece == First(s, UpTo(AppBuf, s))
      ends  == LastBytes(piece)
      last  == piece[Len(piece)]
  IN /\ rbuf' = Rest(s, Len(piece))
     /\ out' = out \o [k \in 1..Cardinality(ends) |-> piece[Nth(ends, k)].f]
     /\ got' = last.at % Size(last.f)

PollRead ==
  /\ Receiving /\ codec = "bridge"
  /\ \/ rbuf # <<>> /\ Serve(rbuf) /\ UNCHANGED <<inbox, net, pending>>
     \/ /\ rbuf = <<>>
        /\ \E r \in Reads(ReadChunk) : Serve(r.piece) /\ Receives(r)
  /\ UNCHANGED <<fixed, sending, open, closed, sendVars, stage, prefix, cut, hand,
                 refused, queue, bytes, depth>>

(* FrameTooLarge, or the transport's error: recv_frame fails, and so would *)
(* the next call.                                                          *)
RecvFails ==
  /\ \/ Receiving /\ TooLarge
     \/ Wanting /\ prefix = <<>> /\ AtEnd
     \/ stage = "detect" /\ prefix = <<>> /\ AtEnd
  /\ stage' = "failed"
  /\ UNCHANGED <<fixed, wireVars, sendVars, prefix, rbuf, cut, got, hand, bufVars>>

-----------------------------------------------------------------------------
(* The consumer.  A message is processed as it comes; a frame goes to the  *)
(* InboundBuffer, and one that the buffer hands back is held, no more read *)
(* meanwhile, and offered again once the consumer has popped one.          *)

TakeSignal ==
  /\ codec = "lines" /\ hand # NoFrame
  /\ out' = Append(out, hand)
  /\ hand' = NoFrame
  /\ UNCHANGED <<fixed, wireVars, sendVars, recvVars, refused, queue, bytes, depth>>

HasRoom_CountOnly(f) == Len(queue) < max_messages   \* mutant: no cap on bytes

HasRoom(f) == Len(queue) < max_messages /\ bytes + lens[f] <= max_bytes

Offered == codec = "frames" /\ hand # NoFrame /\ ~refused

TryPush_DropsFull ==   \* mutant: a refused frame is dropped
  /\ Offered
  /\ hand' = NoFrame
  /\ IF HasRoom(hand)
     THEN /\ queue' = Append(queue, hand)
          /\ bytes' = bytes + lens[hand]
          /\ depth' = Len(queue')
     ELSE UNCHANGED <<queue, bytes, depth>>
  /\ UNCHANGED <<fixed, wireVars, sendVars, recvVars, refused, out>>

TryPush ==
  /\ Offered
  /\ IF HasRoom(hand)
     THEN /\ queue' = Append(queue, hand)
          /\ bytes' = bytes + lens[hand]
          /\ depth' = Len(queue')
          /\ hand' = NoFrame
          /\ UNCHANGED refused
     ELSE refused' = TRUE /\ UNCHANGED <<queue, bytes, depth, hand>>
  /\ UNCHANGED <<fixed, wireVars, sendVars, recvVars, out>>

TryPop ==
  /\ queue # <<>>
  /\ out' = Append(out, Head(queue))
  /\ queue' = Tail(queue)
  /\ bytes' = bytes - lens[Head(queue)]
  /\ depth' = Len(queue')
  /\ refused' = FALSE
  /\ UNCHANGED <<fixed, wireVars, sendVars, recvVars, hand>>

-----------------------------------------------------------------------------
Sender == Send \/ Wire(Write)
Arrival == Wire(OnMessage) \/ Wire(OnClose)
Dial == Connected \/ ConnectFails
Receiver == \/ Detect \/ DetectEnds \/ ReplayPrefix \/ ReadMore \/ ReadAhead
            \/ RecvFrame \/ RecvSignal \/ PollRead \/ RecvFails
Consumer == TakeSignal \/ TryPush \/ TryPop

Next == Sender \/ PollWritePending \/ Wire(Break) \/ Arrival \/ Dial \/ Receiver
        \/ Consumer

Spec == Init /\ [][Next]_vars

(* Fairness: a sender that is connected goes on sending, the callbacks run *)
(* and a connection attempt ends, the receiver goes on receiving, and the  *)
(* consumer on taking, offering and popping.                               *)
FairSpec == /\ Spec
            /\ WF_vars(Sender) /\ WF_vars(Arrival) /\ WF_vars(Dial)
            /\ WF_vars(Receiver)
            /\ WF_vars(TakeSignal) /\ WF_vars(TryPush) /\ WF_vars(TryPop)

-----------------------------------------------------------------------------
(* Safety. *)

Taken == Len(out) + Len(queue) + (IF hand = NoFrame THEN 0 ELSE 1)

(* The bytes between what the receiver has cut and the sender.             *)
Stream == rbuf \o prefix \o pending \o inbox \o net \o sending

Follows(b, c) ==
  \/ c = [b EXCEPT !.at = @ + 1]
  \/ b.at = Size(b.f) /\ c.at = 1
     /\ \E i \in 1..(Len(sent) - 1) : sent[i] = b.f /\ sent[i + 1] = c.f

(* It begins where the receiver is: at a unit, after the bytes a bridge's  *)
(* reader already has, or in the lines it will skip.                       *)
BeginsRight ==
  Stream # <<>> =>
    \/ /\ Taken < Len(sent)
       /\ Stream[1] = [f |-> sent[Taken + 1], at |-> got + 1]
    \/ Taken > 0 /\ Stream[1].f = sent[Taken] /\ Stream[1].f \in cut

(* Wherever the bytes are, and however writes and reads cut them, they are *)
(* the stream of what was sent, each byte followed by its successor; while *)
(* the connection is open it runs to the end of the last unit ("every byte *)
(* intact and in order", MessageBuffer).  A receiver that fails because    *)
(* the stream has ended has been given all that arrived.  And only a       *)
(* message with several lines is ever returned without all of them.  The   *)
(* exception is a bridge that has sent the head of a write again.          *)
BytesInOrder == ~resent =>
  /\ \A i \in 1..(Len(Stream) - 1) : Follows(Stream[i], Stream[i + 1])
  /\ BeginsRight
  /\ open => IF Stream = <<>> THEN Taken = Len(sent)
             ELSE LET f == sent[Len(sent)]
                  IN Stream[Len(Stream)] = [f |-> f, at |-> Size(f)]
  /\ stage = "failed" /\ ~TooLarge => ~Complete /\ ~HasMessage(inbox) /\ pending = <<>>
  /\ \A f \in cut : codec = "lines" /\ lens[f] >= MultiLine

(* n is what the units of q add up to, from the last to the first.         *)
IsTotal(n, q) ==
  \E left \in [1..(Len(q) + 1) -> 0..n] :
    /\ left[1] = n /\ left[Len(q) + 1] = 0
    /\ \A i \in DOMAIN q : left[i] = lens[q[i]] + left[i + 1]

(* "An oversized length prefix must never translate into an unbounded      *)
(* allocation": recv_frame never buffers a frame above the cap, nor more   *)
(* than one read past the largest frame it accepts; the bridge keeps less  *)
(* than one read.  The inbound buffer's caps hold on count and bytes       *)
(* together, and its byte count and depth metric are those of its frames.  *)
(* Between the connection and recv only the browser's queue has no bound.  *)
MemoryBounded ==
  /\ codec = "frames" => Len(rbuf) < HeaderLen + max_frame + ReadChunk
  /\ codec = "bridge" => Len(rbuf) < ReadChunk
  /\ Len(queue) <= max_messages /\ bytes <= max_bytes
  /\ IsTotal(bytes, queue)
  /\ depth = Len(queue)
  /\ transport = "rtc" => Messages(inbox) <= InboxCap
  /\ transport = "ws_wasi" /\ inbox # <<>> => Len(inbox) < Size(inbox[1].f) + ReadChunk

(* The stack implements the queue it promises. *)
Queue == INSTANCE FrameQueue
FrameQueueSpec == Queue!Spec

-----------------------------------------------------------------------------
(* Liveness. *)

(* What was accepted is taken by the consumer, unless the connection       *)
(* breaks, was never made, the receiver has refused a frame above its cap  *)
(* before, or a bridge has sent bytes again (a write that the socket never *)
(* has room for at once may then never end).                               *)
FramesArrive ==
  \A i \in Frame :
    Len(sent) >= i ~>
      \/ Len(out) >= i \/ ~open \/ stage = "unconnected" \/ resent
      \/ codec = "frames" /\ \E f \in Frame :
           f <= Len(sent) /\ f <= i /\ lens[sent[f]] > max_frame

(* A receiver is told when its connection is gone: no recv waits for ever. *)
(* Not so on the native data channel, whose close callback only logs.      *)
LossIsNoticed == ~open ~> stage \in {"failed", "unconnected"} \/ transport = "rtc"
=============================================================================
