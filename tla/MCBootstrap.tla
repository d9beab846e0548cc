---------------------------- MODULE MCBootstrap ----------------------------
(* A discounting curve with two helpers, given in the wrong order, and a     *)
(* projection curve with three, the last of which reads the discounting      *)
(* curve and looks beyond its pillar.  At the earlier date the first helper  *)
(* of each has expired.                                                      *)
EXTENDS Bootstrap

MCCurves == {"discount", "projection"}
MCHelpers == {"d1", "d2", "p1", "p2", "p3"}
MCInstruments == [discount |-> <<"d2", "d1">>, projection |-> <<"p1", "p2", "p3">>]
MCReads == [h \in MCHelpers |-> IF h = "p3" THEN {"discount"} ELSE {}]
MCRelative == {"d1", "p1", "p3"}
MCPillar == [d1 |-> <<1, 2>>, d2 |-> <<4, 4>>,
             p1 |-> <<1, 2>>, p2 |-> <<3, 3>>, p3 |-> <<4, 5>>]
MCLatest == [d1 |-> <<1, 2>>, d2 |-> <<4, 4>>,
             p1 |-> <<1, 2>>, p2 |-> <<3, 3>>, p3 |-> <<5, 6>>]
=============================================================================
