----------------------------- MODULE SshChannel -----------------------------
(***************************************************************************)
(* An SSH channel as its two applications see it.  SshServerChannel and    *)
(* SshClientChannel are the same macro: next_event pulls one lifecycle or  *)
(* data event at a time, recv turns the events into a byte stream with a   *)
(* caller's buffer, and pop_resize gives a byte reader the resizes that    *)
(* recv came across.                                                       *)
(*                                                                         *)
(* An element of End is one side of one channel.  What the protocol layer  *)
(* has delivered for it waits in wire; when the channel is gone, wait()    *)
(* yields None after the last message.                                     *)
(***************************************************************************)
EXTENDS Integers, Sequences

CONSTANTS
  End,        \* the ends of the channels
  ChunkLen,   \* the bytes a Data message carries
  BufLen,     \* the length of the buffer that recv is given
  MaxSaid     \* bound: the messages an application sends to an end

ASSUME ChannelAssumption == {ChunkLen, BufLen, MaxSaid} \subseteq Nat \ {0}

VARIABLES
  wire,       \* end -> messages that wait() has not returned yet
  over,       \* end -> no more messages can come: wait() will yield None
  pending,    \* end -> bytes of the last Data event not consumed by recv
  resizes,    \* end -> resize events observed while reading bytes
  closed,     \* end -> the flag of that name
  reader,     \* end -> how its application reads: none yet, events or bytes
  call,       \* end -> the call under way; finished after Closed
  event,      \* end -> the event next_event has produced in that call
  seen,       \* end -> the events, or the bytes, the application was given
  popped      \* end -> the resizes pop_resize gave it

chanVars == <<wire, over, pending, resizes, closed, reader, call, event, seen,
              popped>>

(* A message carries a number: its place among those of its kind.  What an *)
(* application says is numbered from 1, what the two sides exchange on     *)
(* their own account (requests, replies, the end) is not numbered: 0.      *)
Requests == {"pty", "shell", "exec", "subsystem"}
Replies == {"success"}
AppKinds == {"Data", "ExtendedData", "WindowChange", "ExitStatus", "Eof", "Close"}
Message == [kind : Requests \cup Replies \cup AppKinds, n : 0..MaxSaid]
AppMessage == [kind : AppKinds, n : 1..MaxSaid]
Msg(k) == [kind |-> k, n |-> 0]
NoEvent == [kind |-> "none", n |-> 0]

IsData(m) == m.kind \in {"Data", "ExtendedData"}
IsResize(m) == m.kind = "WindowChange"

(* The bytes of the n-th Data message of an end, numbered through.         *)
Byte == [kind : {"byte"}, n : 1..(MaxSaid * ChunkLen)]
Bytes(m) ==
  [i \in 1..ChunkLen |-> [kind |-> "byte", n |-> (m.n - 1) * ChunkLen + i]]

ChannelTypeOK ==
  /\ wire \in [End -> Seq(Message)]
  /\ over \in [End -> BOOLEAN]
  /\ pending \in [End -> Seq(Byte)]
  /\ \A e \in End : Len(pending[e]) <= ChunkLen
  /\ resizes \in [End -> Seq(Message)]
  /\ closed \in [End -> BOOLEAN]
  /\ reader \in [End -> {"none", "events", "bytes"}]
  /\ call \in [End -> {"none", "recv", "next_event", "finished"}]
  /\ event \in [End -> Message \cup {NoEvent}]
  /\ seen \in [End -> Seq(Message \cup Byte)]
  /\ popped \in [End -> Seq(Message)]

ChannelInit ==
  /\ wire = [e \in End |-> <<>>]
  /\ over = [e \in End |-> FALSE]
  /\ pending = [e \in End |-> <<>>]
  /\ resizes = [e \in End |-> <<>>]
  /\ closed = [e \in End |-> FALSE]
  /\ reader = [e \in End |-> "none"]
  /\ call = [e \in End |-> "none"]
  /\ event = [e \in End |-> NoEvent]
  /\ seen = [e \in End |-> <<>>]
  /\ popped = [e \in End |-> <<>>]

-----------------------------------------------------------------------------
(* Calls. *)

Reading(e, mode) == reader[e] = mode /\ call[e] = "none"

CallNextEvent(e) ==
  /\ Reading(e, "events")
  /\ call' = [call EXCEPT ![e] = "next_event"]
  /\ UNCHANGED <<wire, over, pending, resizes, closed, reader, event, seen,
                 popped>>

CallRecv(e) ==
  /\ Reading(e, "bytes")
  /\ call' = [call EXCEPT ![e] = "recv"]
  /\ UNCHANGED <<wire, over, pending, resizes, closed, reader, event, seen,
                 popped>>

PopResize(e) ==
  /\ Reading(e, "bytes")
  /\ IF resizes[e] = <<>> THEN UNCHANGED <<popped, resizes>>   \* None
     ELSE /\ popped' = [popped EXCEPT ![e] = Append(@, Head(resizes[e]))]
          /\ resizes' = [resizes EXCEPT ![e] = Tail(@)]
  /\ UNCHANGED <<wire, over, pending, closed, reader, call, event, seen>>

-----------------------------------------------------------------------------
(* next_event, for its own caller and inside recv, which asks for an event *)
(* only when it has no pending bytes.                                      *)

Wants(e) ==
  /\ call[e] \in {"recv", "next_event"} /\ event[e] = NoEvent
  /\ call[e] = "recv" => pending[e] = <<>>

(* A queued resize comes first, whoever asks. *)
NextIsQueuedResize(e) ==
  /\ Wants(e) /\ resizes[e] # <<>>
  /\ event' = [event EXCEPT ![e] = Head(resizes[e])]
  /\ resizes' = [resizes EXCEPT ![e] = Tail(@)]
  /\ UNCHANGED <<wire, over, pending, closed, reader, call, seen, popped>>

(* None, or a channel already found closed. *)
NextIsClosed(e) ==
  /\ Wants(e) /\ resizes[e] = <<>>
  /\ closed[e] \/ (wire[e] = <<>> /\ over[e])
  /\ closed' = [closed EXCEPT ![e] = TRUE]
  /\ event' = [event EXCEPT ![e] = Msg("Close")]
  /\ UNCHANGED <<wire, over, pending, resizes, reader, call, seen, popped>>

Waited(e, m) ==
  /\ event' = [event EXCEPT ![e] = IF m.kind \in AppKinds THEN m ELSE NoEvent]
  /\ closed' = [closed EXCEPT ![e] = m.kind = "Close"]

(* wait() returns a message; request and reply chatter is skipped. *)
NextIsMessage(e) ==
  /\ Wants(e) /\ resizes[e] = <<>> /\ ~closed[e]
  /\ wire[e] # <<>>
  /\ Waited(e, Head(wire[e]))
  /\ wire' = [wire EXCEPT ![e] = Tail(@)]
  /\ UNCHANGED <<over, pending, resizes, reader, call, seen, popped>>

(* The event is returned.  After Closed the application calls no more. *)
ReturnEvent(e) ==
  /\ call[e] = "next_event" /\ event[e] # NoEvent
  /\ seen' = [seen EXCEPT ![e] = Append(@, event[e])]
  /\ call' = [call EXCEPT ![e] = IF event[e].kind = "Close" THEN "finished" ELSE "none"]
  /\ event' = [event EXCEPT ![e] = NoEvent]
  /\ UNCHANGED <<wire, over, pending, resizes, closed, reader, popped>>

-----------------------------------------------------------------------------
(* recv. *)

MinOf(a, b) == IF a < b THEN a ELSE b

RecvCopies_DropsRest(e) ==   \* mutant: what exceeds the buffer is dropped
  LET n == MinOf(Len(pending[e]), BufLen) IN
  /\ call[e] = "recv" /\ event[e] = NoEvent /\ pending[e] # <<>>
  /\ seen' = [seen EXCEPT ![e] = @ \o SubSeq(pending[e], 1, n)]
  /\ pending' = [pending EXCEPT ![e] = <<>>]
  /\ call' = [call EXCEPT ![e] = "none"]
  /\ UNCHANGED <<wire, over, resizes, closed, reader, event, popped>>

(* Pending bytes fill the buffer as far as they go, and the call returns.  *)
RecvCopies(e) ==
  LET n == MinOf(Len(pending[e]), BufLen) IN
  /\ call[e] = "recv" /\ event[e] = NoEvent /\ pending[e] # <<>>
  /\ seen' = [seen EXCEPT ![e] = @ \o SubSeq(pending[e], 1, n)]
  /\ pending' = [pending EXCEPT ![e] = SubSeq(@, n + 1, Len(@))]
  /\ call' = [call EXCEPT ![e] = "none"]
  /\ UNCHANGED <<wire, over, resizes, closed, reader, event, popped>>

(* An event that does not end the call: bytes become pending, a resize is  *)
(* queued for pop_resize, an exit status is ignored.                       *)
RecvKeeps(e) ==
  /\ call[e] = "recv" /\ event[e].kind \in AppKinds \ {"Eof", "Close"}
  /\ pending' = [pending EXCEPT ![e] = IF IsData(event[e]) THEN Bytes(event[e]) ELSE @]
  /\ resizes' = [resizes EXCEPT ![e] = IF IsResize(event[e])
                                       THEN Append(@, event[e]) ELSE @]
  /\ event' = [event EXCEPT ![e] = NoEvent]
  /\ UNCHANGED <<wire, over, closed, reader, call, seen, popped>>

(* Eof and Closed both end the stream: recv returns Err(Closed). *)
RecvFails(e) ==
  /\ call[e] = "recv" /\ event[e].kind \in {"Eof", "Close"}
  /\ call' = [call EXCEPT ![e] = "finished"]
  /\ event' = [event EXCEPT ![e] = NoEvent]
  /\ UNCHANGED <<wire, over, pending, resizes, closed, reader, seen, popped>>

NextEvent(e) == NextIsQueuedResize(e) \/ NextIsClosed(e) \/ NextIsMessage(e)

Return(e) == ReturnEvent(e) \/ RecvCopies(e) \/ RecvKeeps(e) \/ RecvFails(e)

(* What runs inside a call, and the calls an application makes. *)
CallStep(e) == NextEvent(e) \/ Return(e)

Read(e) == CallNextEvent(e) \/ CallRecv(e) \/ PopResize(e) \/ CallStep(e)
=============================================================================
