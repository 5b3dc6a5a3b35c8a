----------------------------- MODULE FrameQueue -----------------------------
(***************************************************************************)
(* What frames over a transport promise: the frames a sender gave to       *)
(* send_frame come out whole, in order and once, or, when the connection   *)
(* fails, not at all from some frame on.                                   *)
(***************************************************************************)
EXTENDS Integers, Sequences

CONSTANT Frame

VARIABLES sent, out

vars == <<sent, out>>

Init == sent = <<>> /\ out = <<>>

Send(f) == sent' = Append(sent, f) /\ UNCHANGED out

(* A caller that reads bytes may get the last bytes of several frames in   *)
(* one read.                                                               *)
Deliver ==
  /\ \E n \in (Len(out) + 1)..Len(sent) : out' = out \o SubSeq(sent, Len(out) + 1, n)
  /\ UNCHANGED sent

Next == Deliver \/ \E f \in Frame : Send(f)

Spec == Init /\ [][Next]_vars
=============================================================================
