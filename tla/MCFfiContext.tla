---------------------------- MODULE MCFfiContext ----------------------------
(* Two threads, two contexts, two registrations: a callback or a release of  *)
(* one context may make or try the other, and two owners share a curve.      *)
EXTENDS FfiContext, TLC

CONSTANTS t1, t2, c1, c2, r1, r2

MCThreads == {t1, t2}
MCContexts == {c1, c2}
MCRegistrations == {r1, r2}

Alike == Permutations(MCThreads) \cup Permutations(MCContexts)
           \cup Permutations(MCRegistrations)
=============================================================================
