----------------------------- MODULE MCTopology -----------------------------
(***************************************************************************)
(* Topology for TLC: two clusters, mirrored one way or both ways.          *)
(***************************************************************************)
EXTENDS Topology

A2B == [src |-> "A", tgt |-> "B"]
B2A == [src |-> "B", tgt |-> "A"]

BothWays == <<A2B, B2A>>
OneWay == <<A2B>>

Orders == <<"orders">>
OneTopic == {[at |-> "A", name |-> Orders]}

None == {}
TheOrders == {Orders}
=============================================================================
