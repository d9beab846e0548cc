---------------------------- MODULE MCObservable ----------------------------
(* A diamond with a client observer, a discarding one and a delivering       *)
(* forwarder:  q -> {f, w, d},  f -> s -> {w, d},  r -> w by delivery.        *)
EXTENDS Observable, TLC

CONSTANTS q, s, f, r, w, d

MCSubjects == {q, s}
MCObservers == {f, r, w, d}
MCClients == {w, d}
MCForwarders == {f, r}
MCTarget == (f :> s) @@ (r :> w)
MCDiscarding == {d}
MCHoldable == {w}
MCDroppable == {w, d}
MCRegistrable == {w, d}
MCWiring == (q :> {f, d, r}) @@ (s :> {w, d})
=============================================================================
