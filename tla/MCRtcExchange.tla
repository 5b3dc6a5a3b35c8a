---------------------------- MODULE MCRtcExchange ----------------------------
(* The pairs of implementations the runs put together. *)
EXTENDS RtcExchange

AllPairs == Platform \X Platform
NativePair == {<<"native", "native">>}
BrowserPair == {<<"browser", "browser">>}
=============================================================================
