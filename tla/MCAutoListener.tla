--------------------------- MODULE MCAutoListener ---------------------------
(* Small instances of AutoListener. *)
EXTENDS AutoListener

S(p, conc, sig, ws, tcp) ==
  [platform |-> p, concurrent |-> conc, signaling |-> sig,
   allow_ws |-> ws, allow_tcp |-> tcp]

(* Servers with a hub, and restricted ones; both modes, both platforms.    *)
SomeSetups ==
  {S("native", FALSE, TRUE, TRUE, TRUE), S("native", TRUE, TRUE, TRUE, FALSE),
   S("native", TRUE, FALSE, FALSE, TRUE), S("wasi", FALSE, TRUE, TRUE, TRUE),
   S("wasi", TRUE, FALSE, TRUE, TRUE)}

Says(p, j) == [proto |-> p, join |-> j]
Two(x, y) == [c \in Conn |-> IF c = "c1" THEN x ELSE y]

(* Two peers, or a peer and a client of the application.                   *)
SomeClients ==
  {Two(Says("ws", TRUE), Says("tcp", TRUE)), Two(Says("ws", TRUE), Says("tcp", FALSE)),
   Two(Says("ws", FALSE), Says("tcp", TRUE))}
=============================================================================
