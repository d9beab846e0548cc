------------------------------ MODULE MCSettings ------------------------------
(* Two indexes of different names, each with a client that observes it, and  *)
(* through it the evaluation date.  The first client sets its own date back. *)
EXTENDS Settings, TLC

CONSTANTS date, n1, n2, o1, o2,     \* subjects
          i1, i2, w1, w2,           \* observers
          k1, k2                    \* names

MCSubjects == {date, n1, n2, o1, o2}
MCObservers == {i1, i2, w1, w2}
MCClients == {w1, w2}
MCIndexes == {i1, i2}
MCTarget == (i1 :> o1) @@ (i2 :> o2)
MCKeys == {k1, k2}
MCKeyOf == (i1 :> k1) @@ (i2 :> k2)
MCNotifier == (k1 :> n1) @@ (k2 :> n2)
MCWatches == (w1 :> i1) @@ (w2 :> i2)
MCPins == (w1 :> 2) @@ (w2 :> 0)
\* One fixing, a close one, two of which one may conflict, two for one date, none.
MCBatches == {{<<1, 1>>}, {<<1, 2>>}, {<<1, 4>>, <<2, 1>>}, {<<1, 1>>, <<1, 2>>}, {}}
MCWiring == (date :> {i1, i2}) @@ (n1 :> {i1}) @@ (n2 :> {i2})
            @@ (o1 :> {w1}) @@ (o2 :> {w2})
=============================================================================
