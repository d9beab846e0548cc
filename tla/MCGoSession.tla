---------------------------- MODULE MCGoSession ----------------------------
(* Two sessions and two goroutines; goroutines and callbacks all may close.  *)
EXTENDS GoSession

CONSTANTS s1, s2, g1, g2

MCSessions == {s1, s2}
MCGoroutines == {g1, g2}
MCClosers == MCSessions \cup MCGoroutines
=============================================================================
