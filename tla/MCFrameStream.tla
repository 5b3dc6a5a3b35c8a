---------------------------- MODULE MCFrameStream ----------------------------
(* Small instances of FrameStream: units with empty, short and maximal     *)
(* payloads, of one line or of several, and one above the cap.             *)
EXTENDS FrameStream

Payloads == {<<1, 0, 3>>, <<0, 0, 2, 1>>, <<3, 1, 1>>, <<1, 9, 0>>, <<3, 7>>}
=============================================================================
