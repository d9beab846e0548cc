----------------------------- MODULE PricingGraph -----------------------------
(***************************************************************************)
(* Market quotes, bootstrapped curves, relinkable handles, engines and     *)
(* instruments on the notification engine of Observable: who is told of a  *)
(* change, what is recomputed and from which inputs.                       *)
(*                                                                         *)
(*   quote -> curve -> handle -> engine -> instrument -> client observers  *)
(*                                                                         *)
(* A curve and an instrument are each a LazyObject behind an Updater; a    *)
(* handle's Link and an engine each observe through a ResetThenNotify.     *)
(* Values are abstracted to whether they derive from the present inputs.   *)
(* A computation calls nothing that notifies, so a read is one step; the   *)
(* interleavings of one lazy object's own calls are in LazyObject.         *)
(***************************************************************************)
EXTENDS LazyGraph

CONSTANTS
    Quotes,          \* the subjects that are a SimpleQuote
    Curves,          \* piecewise curves, each named by its CurveUpdater
    Instruments,     \* instruments, each named by its Updater
    Handles,         \* handles, each named by its Link's forwarder
    Engines,         \* engines, each named by its GenericEngine's forwarder
    CurveInputs,     \* CurveInputs[c]: quotes of the curve's helpers
    EngineInputs,    \* EngineInputs[e]: quotes the engine reads itself
    DirectInputs,    \* DirectInputs[i]: quotes the instrument registered with itself
    EngineHandle,    \* EngineHandle[e]: the handle the engine discounts on
    FirstCurve,      \* FirstCurve[h]: what the handle points at initially
    FirstEngine,     \* FirstEngine[i]: the engine attached initially
    Dates,           \* the quotes that are the evaluation date
    NoCurve,         \* where an empty handle points
    NoEngine,        \* what an instrument without an engine has
    Habits           \* sets of operations client code may use inside update()

GraphOps == {"set", "read", "relink", "engine", "silent", "freeze", "recalculate"}

ASSUME GraphConstants ==
    /\ Quotes \subseteq Subjects
    /\ Handles \cup Engines \subseteq Forwarders
    /\ Lazies = Curves \cup Instruments
    /\ CurveInputs \in [Curves -> SUBSET Quotes]
    /\ EngineInputs \in [Engines -> SUBSET Quotes]
    /\ DirectInputs \in [Instruments -> SUBSET Quotes]
    /\ EngineHandle \in [Engines -> Handles]
    /\ FirstCurve \in [Handles -> Curves]
    /\ FirstEngine \in [Instruments -> Engines]
    /\ Dates \subseteq Quotes
    /\ NoCurve \notin Curves /\ NoEngine \notin Engines
    /\ Habits \subseteq SUBSET GraphOps

\* Every object is constructed with an Observable of its own, and none is two
\* kinds of object.
ASSUME GraphObjects ==
    /\ Forwarders = Handles \cup Engines /\ Handles \cap Engines = {}
    /\ Curves \cap Instruments = {}
    /\ \A l, m \in Lazies : Own[l] = Own[m] => l = m
    /\ \A f, g \in Forwarders : Target[f] = Target[g] => f = g
    /\ \A f \in Forwarders : Target[f] \in Subjects \ (Quotes \cup Observers)
    /\ \A l \in Lazies : Own[l] \notin Quotes /\ \A f \in Forwarders : Own[l] # Target[f]
    /\ Discarding \cap (Forwarders \cup Curves) = {}

\* A Link registers with the curve it points at and an instrument with its engine;
\* whoever reads a quote or a handle registers with it; client code watches
\* instruments.
ASSUME GraphWiring ==
    /\ \A h \in Handles, c \in Curves : h \in Wiring[Own[c]] <=> FirstCurve[h] = c
    /\ \A i \in Instruments, e \in Engines : i \in Wiring[Target[e]] <=> FirstEngine[i] = e
    /\ \A c \in Curves : \A q \in CurveInputs[c] : c \in Wiring[q]
    /\ \A e \in Engines : \A q \in EngineInputs[e] : e \in Wiring[q]
    /\ \A i \in Instruments : \A q \in DirectInputs[i] : i \in Wiring[q]
    /\ \A e \in Engines : e \in Wiring[Target[EngineHandle[e]]]
    /\ \A i \in Instruments : Wiring[Own[i]] \subseteq Clients

VARIABLES
    points,     \* points[h]: the curve a handle points at, or NoCurve
    engine,     \* engine[i]: the engine attached to an instrument, or NoEngine
    expired,    \* the instruments whose last date is behind the evaluation date
    inUse,      \* inUse[i]: depth of a notification sent by a &mut self call, 0 none
    fresh,      \* history: the stored results derive from the present inputs
    habit       \* what the clients of this behaviour do inside update(): fixed

graphVars == <<points, engine, expired, inUse, fresh, habit>>
allVars == <<vars, lazyVars, graphVars>>

\* What an instrument is priced from.
CurveOf(i) == IF engine[i] = NoEngine THEN NoCurve ELSE points[EngineHandle[engine[i]]]
QuotesOf(i) ==
    DirectInputs[i]
      \cup (IF engine[i] = NoEngine THEN {} ELSE EngineInputs[engine[i]])
      \cup (IF CurveOf(i) = NoCurve THEN {} ELSE CurveInputs[CurveOf(i)])

\* The lazies whose value depends on a quote.
ReadersOf(q) == {c \in Curves : q \in CurveInputs[c]}
                  \cup {i \in Instruments : q \in QuotesOf(i)}

\* The instruments priced off a handle.
PricedOff(h) == {i \in Instruments : engine[i] # NoEngine /\ EngineHandle[engine[i]] = h}

MayCall(op) == ClientRuns /\ (stack = <<>> \/ op \in habit)

\* The calls that take the instrument by &mut self exclude each other.
MayMutate(op, i) == MayCall(op) /\ inUse[i] = 0

\* The inputs of the lazies in set changed.
Stale(set) ==
    /\ fresh' = [l \in Lazies |-> fresh[l] /\ l \notin set]
    /\ answer' = [l \in Lazies |->
                    IF l \in set /\ answer[l] = "current" THEN "stale" ELSE answer[l]]

-----------------------------------------------------------------------------
GraphInit ==
    /\ Init
    /\ LazyInit
    /\ points = FirstCurve
    /\ engine = FirstEngine
    /\ expired = {}
    /\ inUse = [i \in Instruments |-> 0]
    /\ fresh = [l \in Lazies |-> FALSE]
    /\ habit \in Habits

(* A step of the engine or of an updater; a &mut self call that returned     *)
(* gives its instrument back.                                                *)
LibraryStep ==
    /\ EngineStep \/ LazyHears \/ LazyReturns
    /\ inUse' = [i \in Instruments |-> IF inUse[i] > Len(stack') THEN 0 ELSE inUse[i]]
    /\ UNCHANGED <<points, engine, expired, fresh>>

-----------------------------------------------------------------------------
\* An observer moves its subscription between observables, each at most one.
Resubscribed(o, from, to) ==
    [s \in Subjects |->
       LET kept == IF s \in from THEN {x \in Pruned(registry[s]) : x.observer # o}
                                 ELSE registry[s]
       IN  IF s \in to THEN Pruned(kept) \cup {NewEntry(o)} ELSE kept]

CurveSubject(c) == IF c = NoCurve THEN {} ELSE {Own[c]}
EngineSubject(e) == IF e = NoEngine THEN {} ELSE {Target[e]}

(* SimpleQuote::set_value with a new value; or another evaluation date, on   *)
(* which instruments expire, or come back to life.                           *)
SetQuote(q) ==
    /\ MayCall("set")
    /\ Notify(q)
    /\ Stale(ReadersOf(q))
    /\ IF q \in Dates
         THEN expired' \in SUBSET {i \in Instruments : q \in DirectInputs[i]}
         ELSE UNCHANGED expired
    /\ UNCHANGED <<lazy, points, engine, guard, inUse>>

(* RelinkableHandle::link_to and reset: the Link's forwarder moves from the  *)
(* old curve's registry to the new one's, then the handle's observers are    *)
(* told.                                                                     *)
Relink(h, c) ==
    /\ MayCall("relink") /\ Edit
    /\ StartRound(Resubscribed(h, CurveSubject(points[h]), CurveSubject(c)), Target[h], stack)
    /\ points' = [points EXCEPT ![h] = c]
    /\ Stale(IF c = points[h] THEN {} ELSE PricedOff(h))
    /\ UNCHANGED <<draining, pending, held, dropped, notifies,
                   lazy, engine, expired, guard, inUse>>

\* What becomes of the price when the engine is swapped for e.
Repriced(i, e) == fresh' = [fresh EXCEPT ![i] = e = engine[i] /\ @]

\* Mutant: the old engine is still observed.
SetPricingEngineKeepsOld(i, e) ==
    /\ MayMutate("engine", i) /\ Edit
    /\ registry' = Resubscribed(i, {}, EngineSubject(e))
    /\ lazy' = [lazy EXCEPT ![i] = InvalidateSilently(@)]
    /\ engine' = [engine EXCEPT ![i] = e]
    /\ Repriced(i, e)
    /\ answer' = [answer EXCEPT ![i] = "none"]
    /\ UNCHANGED <<stack, depth, owed, draining, pending, held, dropped, notifies,
                   points, expired, guard, inUse>>

(* InstrumentBase::swap_engine, of set_pricing_engine and                    *)
(* detach_pricing_engine: the Updater moves from the old engine to the new   *)
(* one, then the instrument hears of it under a DeferredUpdate.              *)
SetPricingEngine(i, e) ==
    /\ MayMutate("engine", i) /\ Edit
    /\ LET moved == Resubscribed(i, EngineSubject(engine[i]), EngineSubject(e))
       IN IF Tells(lazy[i])
          THEN /\ StartRound(moved, Own[i], stack)
               /\ guard' = [guard EXCEPT ![i] = Len(stack')]
               /\ inUse' = [inUse EXCEPT ![i] = Len(stack')]
          ELSE /\ registry' = moved
               /\ UNCHANGED <<stack, depth, owed, guard, inUse>>
    /\ lazy' = [lazy EXCEPT ![i] = DeferredUpdate(@)]
    /\ engine' = [engine EXCEPT ![i] = e]
    /\ Repriced(i, e)
    /\ answer' = [answer EXCEPT ![i] =
                    IF Tells(lazy[i]) THEN "none"
                    ELSE IF e # engine[i] /\ @ = "current" THEN "stale" ELSE @]
    /\ UNCHANGED <<draining, pending, held, dropped, notifies, points, expired>>

(* InstrumentBase::set_pricing_engine_silent: the same, and nobody is told;  *)
(* whoever installs an engine this way answers for those who hold a price.   *)
SetPricingEngineSilent(i, e) ==
    /\ MayMutate("silent", i) /\ Edit
    /\ registry' = Resubscribed(i, EngineSubject(engine[i]), EngineSubject(e))
    /\ lazy' = [lazy EXCEPT ![i] = InvalidateSilently(@)]
    /\ engine' = [engine EXCEPT ![i] = e]
    /\ Repriced(i, e)
    /\ answer' = [answer EXCEPT ![i] = "none"]
    /\ UNCHANGED <<stack, depth, owed, draining, pending, held, dropped, notifies,
                   points, expired, guard, inUse>>

-----------------------------------------------------------------------------
\* A curve asked for a discount factor: from its cache, or by a bootstrap that
\* succeeds or fails.  Gives the flags and the freshness after it.
CurveOutcomes(c) ==
    IF MustCalculate(lazy[c])
    THEN {[flags |-> FinishOk(StartCalculation(lazy[c])), ok |-> TRUE, fresh |-> TRUE],
          [flags |-> FinishErr(StartCalculation(lazy[c])), ok |-> FALSE, fresh |-> fresh[c]]}
    ELSE {[flags |-> lazy[c], ok |-> TRUE, fresh |-> fresh[c]]}

ReadCurve(c) ==
    /\ MayCall("read")
    /\ \E r \in CurveOutcomes(c) :
         /\ lazy' = [lazy EXCEPT ![c] = r.flags]
         /\ fresh' = [fresh EXCEPT ![c] = r.fresh]
         /\ answer' = [answer EXCEPT ![c] = IF r.ok THEN Held(r.fresh) ELSE "none"]
    /\ UNCHANGED <<vars, points, engine, expired, guard, inUse>>

\* An instrument's calculation ends with an error, or with a price.
Failing(i, lz) ==
    [ok |-> FALSE, lazy |-> [lazy EXCEPT ![i] = FinishErr(StartCalculation(lz))], fresh |-> fresh]

\* perform_calculations, from flags lz: the engine reads its quotes and its
\* handle's curve, and fails if the curve does or by itself.
Pricings(i, lz) ==
    IF CurveOf(i) = NoCurve THEN {Failing(i, lz)}
    ELSE LET c == CurveOf(i)
         IN {[ok |-> r.ok /\ prices,
              lazy |-> [lazy EXCEPT ![c] = r.flags,
                                    ![i] = IF r.ok /\ prices THEN FinishOk(StartCalculation(lz))
                                                             ELSE FinishErr(StartCalculation(lz))],
              fresh |-> [fresh EXCEPT ![c] = r.fresh,
                                      ![i] = IF r.ok /\ prices THEN r.fresh ELSE @]]
               : r \in CurveOutcomes(c), prices \in BOOLEAN}

\* Instrument::calculate from flags lz: the cache; or, without a look at the engine
\* or at being frozen, nothing for what has expired; or pinned results; or a price.
\* Whether it has expired may not be known, which fails and leaves the flags alone.
Calculations(i, lz) ==
    LET asIs(ok) == [ok |-> ok, lazy |-> [lazy EXCEPT ![i] = lz], fresh |-> fresh]
    IN IF lz.calculated THEN {asIs(TRUE)}
       ELSE {asIs(FALSE)} \cup
            IF i \in expired
            THEN {[ok |-> TRUE, lazy |-> [lazy EXCEPT ![i] = MarkCalculated(lz)],
                   fresh |-> [fresh EXCEPT ![i] = TRUE]]}
            ELSE IF lz.frozen THEN {asIs(TRUE)} ELSE Pricings(i, lz)

(* Instrument::npv.                                                          *)
ReadInstrument(i) ==
    /\ MayMutate("read", i)
    /\ \E r \in Calculations(i, lazy[i]) :
         /\ lazy' = r.lazy
         /\ fresh' = r.fresh
         /\ answer' = [answer EXCEPT ![i] = IF r.ok THEN Held(r.fresh[i]) ELSE "none"]
    /\ UNCHANGED <<vars, points, engine, expired, guard, inUse>>

(* Instrument::recalculate: priced anew, frozen or not, and its observers    *)
(* told whatever came out.                                                   *)
Recalculate(i) ==
    /\ MayMutate("recalculate", i) /\ Edit
    /\ \E r \in Calculations(i, StartRecalculation(lazy[i])) :
         /\ lazy' = [r.lazy EXCEPT ![i] = FinishRecalculation(@, lazy[i].frozen)]
         /\ fresh' = r.fresh
    /\ StartRound(registry, Own[i], stack)
    /\ answer' = [answer EXCEPT ![i] = "none"]
    /\ inUse' = [inUse EXCEPT ![i] = Len(stack')]
    /\ UNCHANGED <<draining, pending, held, dropped, notifies, points, engine, expired, guard>>

FreezeInstrument(i) ==
    /\ MayMutate("freeze", i) /\ Edit
    /\ lazy' = [lazy EXCEPT ![i] = Freeze(@)]
    /\ UNCHANGED <<registry, stack, depth, draining, pending, held, dropped, owed, notifies,
                   points, engine, expired, guard, inUse, fresh, answer>>

\* Mutant: unfreezing tells nobody.
UnfreezeSilently(i) ==
    /\ MayMutate("freeze", i)
    /\ lazy[i].frozen
    /\ lazy' = [lazy EXCEPT ![i] = Unfreeze(@)]
    /\ UNCHANGED <<vars, points, engine, expired, guard, inUse, fresh, answer>>

UnfreezeInstrument(i) ==
    /\ MayMutate("freeze", i)
    /\ lazy[i].frozen
    /\ lazy' = [lazy EXCEPT ![i] = Unfreeze(@)]
    /\ StartRound(registry, Own[i], stack)
    /\ answer' = [answer EXCEPT ![i] = "none"]
    /\ inUse' = [inUse EXCEPT ![i] = Len(stack')]
    /\ UNCHANGED <<draining, pending, held, dropped, notifies, edits,
                   points, engine, expired, guard, fresh>>

-----------------------------------------------------------------------------
GraphStep ==
    \/ LibraryStep
    \/ \E q \in Quotes : SetQuote(q)
    \/ \E h \in Handles, c \in Curves \cup {NoCurve} : Relink(h, c)
    \/ \E i \in Instruments, e \in Engines \cup {NoEngine} : SetPricingEngine(i, e)
    \/ \E i \in Instruments, e \in Engines : SetPricingEngineSilent(i, e)
    \/ \E c \in Curves : ReadCurve(c)
    \/ \E i \in Instruments :
         \/ ReadInstrument(i) \/ Recalculate(i)
         \/ FreezeInstrument(i) \/ UnfreezeInstrument(i)

GraphNext == GraphStep /\ UNCHANGED habit

GraphSpec == GraphInit /\ [][GraphNext]_allVars

\* Library code and returns run, each step on the stack of calls; client code
\* need not call anything.
FairGraphSpec == GraphSpec /\ WF_stack(LibraryStep /\ UNCHANGED habit)

-----------------------------------------------------------------------------
GraphTypeOK ==
    /\ TypeOK
    /\ lazy \in [Lazies -> Lazy]
    /\ points \in [Handles -> Curves \cup {NoCurve}]
    /\ engine \in [Instruments -> Engines \cup {NoEngine}]
    /\ expired \subseteq Instruments
    /\ guard \in [Lazies -> Nat]
    /\ inUse \in [Instruments -> Nat]
    /\ fresh \in [Lazies -> BOOLEAN]
    /\ habit \in Habits
    /\ answer \in [Lazies -> Answers]

(* Once every call has returned, whatever says it is calculated was computed *)
(* from the present quotes, links and engine: an npv() read then is the      *)
(* price of the present market.                                              *)
CachesAreCurrent ==
    stack = <<>> => \A l \in Lazies : lazy[l].calculated => fresh[l]

\* What the code asks of client code, without saying so: the update() that changes
\* the market does not read prices too.
Reads == {"read", "recalculate"}
Changes == {"set", "relink", "engine", "silent"}
ReadsApart == \A H \in Habits : H \cap Reads = {} \/ H \cap Changes = {}

(* Once every call has returned, nobody keeps an answer that a later change  *)
(* made stale without having been told, unless the instrument is frozen.     *)
NoUnawareReader ==
    stack = <<>> => \A l \in Lazies : answer[l] = "stale" => lazy[l].frozen

(* Each instrument keeps exactly one subscription to an engine: the attached *)
(* one's, whatever was swapped from inside a notification; and each handle   *)
(* one to a curve, the one it points at.                                     *)
SubscribedToWhatIsRead ==
    /\ \A i \in Instruments, e \in Engines :
         (\E x \in registry[Target[e]] : x.observer = i) <=> engine[i] = e
    /\ \A h \in Handles, c \in Curves :
         (\E x \in registry[Own[c]] : x.observer = h) <=> points[h] = c

(* A market change reaches quiescence whatever the callbacks do with it.     *)
GraphTerminates == (stack # <<>>) ~> (stack = <<>>)
=============================================================================
