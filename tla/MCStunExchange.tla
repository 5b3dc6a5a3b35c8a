--------------------------- MODULE MCStunExchange ---------------------------
(* An RFC 5780 pair "a" and "b".  Mapping: every NAT, servers on two hosts *)
(* or on two ports of one (or one server twice), the socket bound to an    *)
(* address or a wildcard.                                                  *)
(* Filtering: every filter against a server with and without an alternate  *)
(* port, and servers that cannot be used.  TCP: a second client, one slot. *)
EXTENDS StunExchange

Pair == {"a", "b"}
Kind(alternate, handler, other, honours) ==
  [alternate |-> alternate, handler |-> handler, other |-> other, honours |-> honours]
Full == Kind(TRUE, TRUE, TRUE, TRUE)
TwoHosts == <<Address("a", 1), Address("b", 1)>>
TwoPorts == <<Address("a", 1), Address("a", 2)>>
Twice == <<Address("a", 1), Address("a", 1)>>

Scenario(ops, mappings, filters, wild, lists, kinds) ==
  {[op |-> o, nat |-> [mapping |-> m, filtering |-> f], wildcard |-> w, targets |-> l,
    options |-> [s \in Pair |-> IF s = "a" THEN k ELSE Full]] :
     o \in ops, m \in mappings, f \in filters, w \in wild, l \in lists, k \in kinds}

AllScenarios ==
  UNION {Scenario({"mapping"}, Mappings, {"both"}, {FALSE}, {TwoHosts, TwoPorts}, {Full}),
         Scenario({"mapping"}, {"both"}, {"both"}, {FALSE}, {Twice}, {Full}),
         Scenario({"mapping"}, {"none"}, {"both"}, {TRUE}, {TwoHosts}, {Full}),
         Scenario({"filtering"}, {"endpoint"}, Filtering, {FALSE}, {TwoHosts}, {Full}),
         Scenario({"filtering"}, {"endpoint"}, {"address", "both"}, {FALSE}, {TwoHosts},
                  {Kind(FALSE, TRUE, TRUE, TRUE)}),
         Scenario({"filtering"}, {"both"}, {"both"}, {FALSE}, {TwoHosts},
                  {Kind(TRUE, FALSE, TRUE, TRUE), Kind(FALSE, FALSE, FALSE, TRUE),
                   Kind(TRUE, FALSE, TRUE, FALSE)}),
         Scenario({"tcp"}, {"none"}, {"both"}, {FALSE}, {TwoHosts}, {Full})}
AllToA == [c \in Conn |-> "a"]
=============================================================================
