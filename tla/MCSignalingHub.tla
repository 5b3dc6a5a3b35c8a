--------------------------- MODULE MCSignalingHub ---------------------------
(* SignalingHub for model checking: the configurations give its constants  *)
(* small sets of model values.  (No symmetry: the passing runs check       *)
(* liveness properties.)  p1 is connected over TCP and has two lines to    *)
(* say, the first in two parts; p2 has a WebSocket.                        *)
EXTENDS SignalingHub, TLC

CONSTANTS p1, p2

Silent == [p \in Peer |-> {}]
Texts  == p1 :> {2, 3} @@ p2 :> {1}
=============================================================================
