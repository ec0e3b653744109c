---------------------------- MODULE MCMarketRefresh ----------------------------
(* One security from the evening of the second day until that day has left  *)
(* the window, or two on the last day.                                      *)
EXTENDS MarketRefresh

MCStarts == {[hour |-> 7, supported |-> {1}], [hour |-> 17, supported |-> {1, 2}]}
=============================================================================
