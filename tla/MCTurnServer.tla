----------------------------- MODULE MCTurnServer -----------------------------
(* Small instances of TurnServer: two credentials of alice, told apart by  *)
(* their expiry.  With a cap of two both may have an allocation when       *)
(* revoke_principal takes its snapshot; with a cap of one the two requests *)
(* race for the only slot.                                                 *)
EXTENDS TurnServer

Names == {"1:alice", "2:alice"}
AliceExpiry == [n \in Names |-> IF n = "1:alice" THEN 1 ELSE 2]
Static == {"1:alice"}
Alice == {"alice"}
PrincipalOfAlice == [n \in Names |-> "alice"]
=============================================================================
