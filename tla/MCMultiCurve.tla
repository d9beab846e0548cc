----------------------------- MODULE MCMultiCurve -----------------------------
(* Two contributors a and b, a cacher n built over a with a spread quote of  *)
(* its own, a client wa of a and b and a client wn of n:                     *)
(*   qa -> a, qb -> b, qn -> n; the hub beside each of them                   *)
EXTENDS MultiCurve, TLC

CONSTANTS qa, qb, qn, oa, ob, on,      \* subjects
          a, b, n, hub, wa, wn         \* observers

MCQuotes == {qa, qb, qn}
MCSubjects == MCQuotes \cup {oa, ob, on}
MCContributors == {a, b}
MCCachers == {n}
MCLazies == {a, b, n}
MCClients == {wa, wn}
MCObservers == MCLazies \cup MCClients \cup {hub}
MCBase == (n :> a)
MCOwn == (a :> oa) @@ (b :> ob) @@ (n :> on)
MCCurveInputs == (a :> {qa}) @@ (b :> {qb}) @@ (n :> {qn})
MCListens == (wa :> {a, b}) @@ (wn :> {n})
MCTarget == [f \in {} |-> a]
MCDiscarding == {hub}
MCWiring == [s \in MCSubjects |-> {}]
MCCallbacks == {<<wa, "read">>}
MCEagerCallbacks == {<<wa, "read">>, <<wn, "read">>}
=============================================================================
