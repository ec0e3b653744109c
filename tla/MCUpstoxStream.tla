---------------------------- MODULE MCUpstoxStream ----------------------------
(* UpstoxStream for TLC: users in the order of a list of their ids.         *)
EXTENDS UpstoxStream, TLC

CONSTANTS u1, u2
OrderOfTwo(v, u) == v = u1 /\ u = u2
=============================================================================
