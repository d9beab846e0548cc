---------------------------- MODULE MCPricingGraph ----------------------------
(* Two quotes, two curves, one handle, two engines, one instrument and a     *)
(* client observer of the instrument and of a curve:                         *)
(*   q1 -> {c1, e1}, q2 -> {c2, i}, c1 or c2 -> h -> {e1, e2} -> i -> w            *)
EXTENDS PricingGraph, TLC

CONSTANTS q1, q2, oc1, oc2, oh, oe1, oe2, oi,    \* subjects
          c1, c2, h, e1, e2, i, w                \* observers

MCQuotes == {q1, q2}
MCDates == {q2}
MCSubjects == {q1, q2, oc1, oc2, oh, oe1, oe2, oi}
MCObservers == {c1, c2, h, e1, e2, i, w}
MCClients == {w}
MCForwarders == {h, e1, e2}
MCCurves == {c1, c2}
MCInstruments == {i}
MCLazies == MCCurves \cup MCInstruments
MCHandles == {h}
MCEngines == {e1, e2}
MCTarget == (h :> oh) @@ (e1 :> oe1) @@ (e2 :> oe2)
MCOwn == (c1 :> oc1) @@ (c2 :> oc2) @@ (i :> oi)
MCCurveInputs == (c1 :> {q1}) @@ (c2 :> {q2})
MCEngineInputs == (e1 :> {q1}) @@ (e2 :> {})
MCDirectInputs == (i :> {q2})
MCEngineHandle == (e1 :> h) @@ (e2 :> h)
MCFirstCurve == (h :> c1)
MCFirstEngine == (i :> e1)
MCDiscarding == {i}
MCWiring == (q1 :> {c1, e1}) @@ (q2 :> {c2, i}) @@ (oc1 :> {h, w}) @@ (oc2 :> {})
            @@ (oh :> {e1, e2}) @@ (oe1 :> {i}) @@ (oe2 :> {}) @@ (oi :> {w})
\* Clients that read, and clients that change the market, inside update().
MCHabits == {{"read"}, {"relink", "engine", "silent", "freeze"}}
MCStaleHabits == {{"set", "read"}}

ASSUME HabitsAreApart == Habits # MCStaleHabits => ReadsApart
=============================================================================
