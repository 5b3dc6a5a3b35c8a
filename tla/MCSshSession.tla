---------------------------- MODULE MCSshSession ----------------------------
(* Small instances of SshSession: a connection with two or three channels, *)
(* and one that competes with it for a place in the accept queue.          *)
EXTENDS SshSession

Ends == Chan \X {"client", "server"}
TwoChan == {"k1", "k2"}
OneChan == {"k1"}
OwnerOf == [k \in Chan |-> "c1"]

ShellAndExec == [k \in Chan |-> IF k = "k1" THEN "pty" ELSE "exec"]

M(k, n) == [kind |-> k, n |-> n]

(* The terminal's client types and resizes; the shell prints and exits.    *)
(* The command is opened, requested, queued and served, but never read.    *)
Dialogue ==
  [e \in Ends |->
     CASE e = <<"k1", "server">> -> <<M("Data", 1), M("WindowChange", 1)>>
       [] e = <<"k1", "client">> -> <<M("ExtendedData", 1)>>
       [] OTHER                  -> <<>>]

DialogueModes ==
  [e \in Ends |-> CASE e = <<"k1", "server">> -> {"bytes"}
                   [] e = <<"k1", "client">> -> {"events"}
                   [] OTHER                  -> {"none"}]
AnyMode == [e \in Ends |-> {"events", "bytes"}]

Resizing ==
  [e \in Ends |-> IF e = <<"k1", "server">>
                  THEN <<M("WindowChange", 1), M("Data", 1)>> ELSE <<>>]
=============================================================================
