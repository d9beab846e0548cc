----------------------------- MODULE Bootstrap -----------------------------
(***************************************************************************)
(* Single-curve bootstraps: what IterativeBootstrap, LocalBootstrap and    *)
(* GlobalBootstrap do to the nodes of a piecewise curve, to its helpers    *)
(* and to its cache, from one calculation to the next.                     *)
(*                                                                         *)
(* The solvers are oracles: from any trial point they find a root or fail. *)
(* A node value is the seed, a solver's trial, or the record of the fit it *)
(* came from: which helpers, at which quotes and schedules, against which  *)
(* curve, over which stretch of the interpolation.  A curve whose helpers  *)
(* read another one starts that curve's bootstrap inside its own; the      *)
(* stack holds the active ones.                                            *)
(***************************************************************************)
EXTENDS Integers, FiniteSets, SequencesExt

CONSTANTS
  Curves, Helpers,
  Instruments,     \* curve |-> sequence of helpers, in the order they are given
  Reads,           \* helper |-> the other curves its price is read from
  Relative,        \* helpers whose schedule moves with the evaluation date
  Pillar, Latest,  \* helper |-> evaluation date |-> pillar, latest relevant date
  EvalDates, FirstDate,
  Quotes, NoQuote,
  Algorithms,      \* those a curve may be built with
  GlobalCurves,    \* curves whose interpolator is global
  RequiredPoints, Localisation, MaxIterations,
  MaxChanges       \* bound: market changes in a behaviour

ASSUME BootstrapTypes ==
  /\ \A c \in Curves : Instruments[c] \in Seq(Helpers)
  /\ Reads \in [Helpers -> SUBSET Curves]
  /\ Relative \subseteq Helpers
  /\ \A h \in Helpers : \A d \in EvalDates : Pillar[h][d] \in Int /\ Latest[h][d] \in Int
  /\ FirstDate \in Int
  /\ Algorithms \subseteq {"iterative", "local", "global"}
  /\ RequiredPoints \in Nat /\ Localisation \in Nat \ {0} /\ MaxIterations \in Nat

\* below[c]: the curves c reads, directly or through others.  A curve is not
\* below itself (MultiCurve has those that are), and it owns its helpers: it
\* shares none with a curve below it.
Layered(below) ==
  \A c \in Curves :
    /\ c \notin below[c]
    /\ \A h \in ToSet(Instruments[c]) : Reads[h] \subseteq below[c]
    /\ \A b \in below[c] : /\ below[b] \subseteq below[c]
                         /\ ToSet(Instruments[b]) \cap ToSet(Instruments[c]) = {}

ASSUME CurvesAreLayered == \E below \in [Curves -> SUBSET Curves] : Layered(below)

VARIABLES
  algorithm,       \* curve |-> its Bootstrap type parameter
  date,            \* Settings' evaluation date
  seen,            \* helper |-> the date its schedule was last built for
  untold,          \* helpers the broadcast of the date has not reached yet
  quote,           \* helper |-> its quote, or NoQuote
  on,              \* helper |-> term_structure, the curve it prices against
  cd,              \* curve |-> CurveData
  calculated,      \* curve |-> the flag of its LazyObject
  stack,           \* active bootstraps, the innermost first
  changes

market == <<date, seen, untold, quote, changes>>
vars == <<algorithm, on, cd, calculated, stack, market>>

Seed == [kind |-> "seed"]
Trial == [kind |-> "trial"]
Nobody == "nobody"

PillarDate(h) == Pillar[h][seen[h]]
LatestRelevantDate(h) == Latest[h][seen[h]]
Later(d, e) == IF d > e THEN d ELSE e
Increasing(s) == \A i \in 1 .. Len(s) - 1 : s[i] < s[i + 1]

-----------------------------------------------------------------------------
(* The node grid *)

EmptyData == [dates |-> <<>>, data |-> <<>>, upto |-> 0, maxDate |-> FirstDate,
              valid |-> FALSE]

\* The elements of the finite set of integers I in the order of their keys, equal
\* keys in their own order.
Precedes(j, i, key) == key[j] < key[i] \/ (key[j] = key[i] /\ j < i)

Ordered(I, key) ==
  LET n == Cardinality(I) IN
  CHOOSE s \in [1 .. n -> I] : \A k \in 1 .. n : \A j \in 1 .. k - 1 : Precedes(s[j], s[k], key)

\* The helpers hs[i], i \in I, by their keys: by pillar, or as they are given.
Arranged(hs, I, key) ==
  LET order == Ordered(I, key) IN [k \in 1 .. Cardinality(I) |-> hs[order[k]]]

sort_by_pillar_date(hs, I) == Arranged(hs, I, [i \in I |-> PillarDate(hs[i])])

IsAlive(h) == PillarDate(h) > FirstDate

\* The helpers an algorithm fits: LocalBootstrap has no expiry scan, and
\* GlobalBootstrap sorts its grid rather than its helpers.
Alive(c) ==
  LET hs == Instruments[c]
      unexpired == {i \in DOMAIN hs : IsAlive(hs[i])}
  IN  CASE algorithm[c] = "iterative" -> sort_by_pillar_date(hs, unexpired)
        [] algorithm[c] = "local"     -> sort_by_pillar_date(hs, DOMAIN hs)
        [] algorithm[c] = "global"    -> Arranged(hs, unexpired, [i \in unexpired |-> i])

Grid(c) ==
  LET hs == Alive(c)
      pillars == [i \in 1 .. Len(hs) |-> PillarDate(hs[i])]
  IN  IF algorithm[c] = "global"
      THEN LET ds == {FirstDate} \cup ToSet(pillars) IN Ordered(ds, [d \in ds |-> d])
      ELSE <<FirstDate>> \o pillars

Needs(h) == Later(PillarDate(h), LatestRelevantDate(h))

\* IterativeBootstrap overwrites the maximum with each helper's.
MaxDate(c) == IF algorithm[c] = "iterative" THEN Needs(Last(Alive(c)))
                                            ELSE Max({FirstDate} \cup {Needs(h) : h \in ToSet(Alive(c))})

NoDuplicates(hs) == \A i \in 1 .. Len(hs) - 1 : PillarDate(hs[i]) # PillarDate(hs[i + 1])

\* Each helper needs data later than all before it.
LatestAdvances(hs) ==
  \A i \in 1 .. Len(hs) :
    LatestRelevantDate(hs[i]) >
      IF i = 1 THEN FirstDate
               ELSE Later(PillarDate(hs[i - 1]), LatestRelevantDate(hs[i - 1]))

\* What is checked before anything is stored.
Accepted(c) ==
  LET hs == Alive(c) IN
  CASE algorithm[c] = "iterative" ->
         /\ Len(hs) > 0
         /\ Len(hs) + 1 >= RequiredPoints
         /\ NoDuplicates(hs)
         /\ LatestAdvances(hs)
    [] algorithm[c] = "local" ->
         /\ Len(hs) >= RequiredPoints
         /\ Len(hs) > Localisation
         /\ NoDuplicates(hs)
         /\ \A i \in 1 .. Len(hs) : quote[hs[i]] # NoQuote
    [] algorithm[c] = "global" -> Len(Grid(c)) >= RequiredPoints

\* A helper that needs data beyond its own pillar, or a global interpolator,
\* takes passes until the nodes stop moving.
LoopRequired(c) ==
  /\ algorithm[c] = "iterative"
  /\ \/ c \in GlobalCurves
     \/ \E h \in ToSet(Alive(c)) : PillarDate(h) < LatestRelevantDate(h)

-----------------------------------------------------------------------------
(* Starting a calculation *)

\* Mutant: a valid solution seeds a grid of any shape.
ReuseAnyShape(c) == algorithm[c] # "local" /\ cd[c].valid

Reuse(c) ==
  /\ algorithm[c] # "local"
  /\ cd[c].valid
  /\ Len(cd[c].data) = Len(Grid(c))

\* Mutant: the maximum date stops at the last pillar.
InstalledToLastPillar(c) ==
  [dates |-> Grid(c),
   data |-> IF Reuse(c) THEN cd[c].data ELSE [i \in 1 .. Len(Grid(c)) |-> Seed],
   upto |-> 0,
   maxDate |-> Last(Grid(c)),
   valid |-> Reuse(c)]

\* set_pillars, reset_data unless the old solution is a seed, set_max_date.
Installed(c) ==
  [dates |-> Grid(c),
   data |-> IF Reuse(c) THEN cd[c].data ELSE [i \in 1 .. Len(Grid(c)) |-> Seed],
   upto |-> 0,
   maxDate |-> MaxDate(c),
   valid |-> Reuse(c)]

\* The helpers told which curve to price against: all, or those before the
\* first whose quote is missing.
HandedTo(c) ==
  LET hs == Alive(c)
  IN  {hs[i] : i \in {k \in 1 .. Len(hs) : \A j \in 1 .. k : quote[hs[j]] # NoQuote}}

QuotesRead(c) == HandedTo(c) = ToSet(Alive(c))

Frame(c) ==
  [curve |-> c, alive |-> Alive(c), step |-> 1, pass |-> 1, valid |-> Reuse(c),
   loop |-> LoopRequired(c), tried |-> FALSE, lost |-> FALSE]

Frames == [curve : Curves, alive : Seq(Helpers), step : Nat, pass : Nat,
           valid : BOOLEAN, loop : BOOLEAN, tried : BOOLEAN, lost : BOOLEAN]

\* A bootstrap that fails inside another fails the fit that asked for it.
Lost(s) == IF s = <<>> THEN s ELSE <<[Head(s) EXCEPT !.lost = TRUE]>> \o Tail(s)

\* PiecewiseYieldCurve::calculate up to the first solve.  start_calculation
\* sets the flag; an error in the set-up unsets it.
Begin(c) ==
  /\ ~calculated[c]
  /\ IF ~Accepted(c)
     THEN stack' = Lost(stack) /\ UNCHANGED <<on, cd, calculated>>
     ELSE /\ cd' = [cd EXCEPT ![c] = Installed(c)]
          /\ on' = [h \in Helpers |-> IF h \in HandedTo(c) THEN c ELSE on[h]]
          /\ IF QuotesRead(c)
             THEN /\ stack' = <<Frame(c)>> \o stack
                  /\ calculated' = [calculated EXCEPT ![c] = TRUE]
             ELSE stack' = Lost(stack) /\ UNCHANGED calculated
  /\ UNCHANGED <<algorithm, market>>

\* A caller reads a curve.
Read(c) == stack = <<>> /\ Begin(c)

-----------------------------------------------------------------------------
(* The solves.  f is the innermost active bootstrap. *)

f == Head(stack)

Steps == CASE algorithm[f.curve] = "iterative" -> Len(f.alive)
           [] algorithm[f.curve] = "local"     -> Len(f.alive) - Localisation + 1
           [] algorithm[f.curve] = "global"    -> 1

\* The helpers the step fits, and the nodes it writes.
Fitted == CASE algorithm[f.curve] = "iterative" -> {f.step}
            [] algorithm[f.curve] = "local"     -> f.step .. f.step + Localisation - 1
            [] algorithm[f.curve] = "global"    -> DOMAIN f.alive

Written == IF algorithm[f.curve] = "global" THEN 2 .. Len(cd[f.curve].dates)
                                            ELSE {k + 1 : k \in Fitted}

\* How far the interpolation reaches: the solved prefix in a fresh pass of the
\* iterative bootstrap and in the local one, else all nodes.
Upto == CASE algorithm[f.curve] = "iterative" ->
               IF f.valid THEN Len(cd[f.curve].dates) ELSE f.step + 1
          [] algorithm[f.curve] = "local"  -> f.step + Localisation
          [] algorithm[f.curve] = "global" -> Len(cd[f.curve].dates)

Write(v) ==
  cd' = [cd EXCEPT ![f.curve].data = [i \in DOMAIN @ |-> IF i \in Written THEN v ELSE @[i]],
                   ![f.curve].upto = Upto]

Interpolable == Increasing(SubSeq(cd[f.curve].dates, 1, Upto))

\* The solver evaluates a trial point: the nodes are overwritten, the helpers
\* priced.
Try ==
  /\ stack # <<>> /\ f.step <= Steps /\ ~f.tried
  /\ Interpolable
  /\ Write(Trial)
  /\ stack' = [stack EXCEPT ![1].tried = TRUE]
  /\ UNCHANGED <<algorithm, on, calculated, market>>

\* Pricing a helper reads another curve, which is not calculated.
ReadOther(c) ==
  /\ stack # <<>> /\ f.tried /\ ~f.lost
  /\ \E i \in Fitted : c \in Reads[f.alive[i]]
  /\ Begin(c)

\* What a fit knows of one of its helpers.
Price(h) == [quote |-> quote[h], seen |-> seen[h], on |-> on[h],
             others |-> [c \in Reads[h] |-> cd[c].data]]

Fit == [kind |-> "fit", helpers |-> [h \in {f.alive[i] : i \in Fitted} |-> Price(h)], upto |-> Upto]

\* The solver returns and its answer is pinned.
Solve ==
  /\ stack # <<>> /\ f.tried /\ ~f.lost
  /\ \A i \in Fitted : \A c \in Reads[f.alive[i]] : calculated[c]
  /\ Write(Fit)
  /\ stack' = [stack EXCEPT ![1].tried = FALSE, ![1].step = @ + 1]
  /\ UNCHANGED <<algorithm, on, calculated, market>>

Abandon ==
  /\ calculated' = [calculated EXCEPT ![f.curve] = FALSE]
  /\ stack' = Lost(Tail(stack))
  /\ UNCHANGED <<algorithm, on, cd, market>>

\* The solver finds no root in its bracket, a helper cannot be priced, or the
\* interpolation cannot be built.
Fail ==
  /\ stack # <<>> /\ f.step <= Steps
  /\ f.tried \/ ~Interpolable
  /\ Abandon

\* The last statement of each algorithm; LocalBootstrap marks nothing valid.
Succeed ==
  /\ cd' = [cd EXCEPT ![f.curve].valid = @ \/ algorithm[f.curve] # "local"]
  /\ stack' = Tail(stack)
  /\ UNCHANGED <<algorithm, on, calculated, market>>

\* Mutant: the first pass counts as converged when it moved nothing.
MayStopAtOnce == TRUE

\* The nodes are compared with those before the pass only in a pass that
\* started from valid data.
MayStop == ~f.loop \/ f.valid

\* Mutant: nothing limits the passes.
EndPassUnlimited ==
  /\ stack # <<>> /\ f.step > Steps
  /\ \/ MayStop /\ Succeed
     \/ /\ f.loop
        /\ stack' = [stack EXCEPT ![1].step = 1, ![1].valid = TRUE]
        /\ UNCHANGED <<algorithm, on, cd, calculated, market>>

\* A full pass is over.  Whether the nodes have stopped moving is the solver's
\* arithmetic, so either is possible.
EndPass ==
  /\ stack # <<>> /\ f.step > Steps
  /\ \/ MayStop /\ Succeed
     \/ f.loop /\ f.pass = MaxIterations /\ Abandon
     \/ /\ f.loop /\ f.pass < MaxIterations
        /\ stack' = [stack EXCEPT ![1].step = 1, ![1].pass = @ + 1, ![1].valid = TRUE]
        /\ UNCHANGED <<algorithm, on, cd, calculated, market>>

-----------------------------------------------------------------------------
(* The market *)

\* A curve is invalidated by its helpers, which forward the curves they read:
\* the curves told of h are those with a helper in every set that holds h and is
\* closed under forwarding.
Tells(hs, c) == ToSet(Instruments[c]) \cap hs # {}

Closed(hs) == \A g \in Helpers : (\E c \in Reads[g] : Tells(hs, c)) => g \in hs

Dependents ==
  [h \in Helpers |->
     {c \in Curves : \A hs \in SUBSET Helpers : h \in hs /\ Closed(hs) => Tells(hs, c)}]

Invalidated(h) == [c \in Curves |-> calculated[c] /\ c \notin Dependents[h]]

\* The forwarder of a relative helper rebuilds the schedule, then broadcasts.
Rebuilt(h) == IF h \in Relative THEN [seen EXCEPT ![h] = date] ELSE seen

SetQuote(h, q) ==
  /\ stack = <<>> /\ changes < MaxChanges
  /\ q # quote[h]
  /\ quote' = [quote EXCEPT ![h] = q]
  /\ seen' = Rebuilt(h)
  /\ calculated' = Invalidated(h)
  /\ changes' = changes + 1
  /\ UNCHANGED <<algorithm, date, untold, on, cd, stack>>

SetDate(d) ==
  /\ stack = <<>> /\ untold = {} /\ changes < MaxChanges
  /\ d # date
  /\ date' = d
  /\ untold' = Relative
  /\ changes' = changes + 1
  /\ UNCHANGED <<algorithm, seen, quote, on, cd, calculated, stack>>

\* The broadcast reaches the helpers one by one; between two of them other
\* observers of the date may read the curves.
Tell(h) ==
  /\ stack = <<>> /\ h \in untold
  /\ untold' = untold \ {h}
  /\ seen' = Rebuilt(h)
  /\ calculated' = Invalidated(h)
  /\ UNCHANGED <<algorithm, date, quote, on, cd, stack, changes>>

Init ==
  /\ algorithm \in [Curves -> Algorithms]
  /\ date \in EvalDates /\ seen = [h \in Helpers |-> date]
  /\ untold = {}
  /\ quote \in [Helpers -> Quotes]
  /\ on = [h \in Helpers |-> Nobody]
  /\ cd = [c \in Curves |-> EmptyData]
  /\ calculated = [c \in Curves |-> FALSE]
  /\ stack = <<>> /\ changes = 0

Step == \/ Try \/ Solve \/ Fail \/ EndPass
        \/ \E c \in Curves : ReadOther(c)

Next == \/ Step
        \/ \E c \in Curves : Read(c)
        \/ \E h \in Helpers : Tell(h) \/ \E q \in Quotes \cup {NoQuote} : SetQuote(h, q)
        \/ \E d \in EvalDates : SetDate(d)

\* A bootstrap that has begun runs on.
Spec == Init /\ [][Next]_vars /\ WF_vars(Step)

-----------------------------------------------------------------------------
(* Properties *)

Solving(c) == \E i \in DOMAIN stack : stack[i].curve = c

\* The fit behind node value v took h as it is now, and as c's own.
FitsNow(v, h, c) ==
  /\ v.kind = "fit"
  /\ h \in DOMAIN v.helpers
  /\ v.helpers[h] = [quote |-> quote[h], seen |-> IF h \in untold THEN seen[h]
                                                 ELSE IF h \in Relative THEN date ELSE seen[h],
                     on |-> c, others |-> [b \in Reads[h] |-> cd[b].data]]

\* A curve that says it is calculated has, at the pillar of each helper it
\* fits, a node fitted to that helper: to its present quote and schedule,
\* against this curve and no other, over the other curves as they are, and
\* over the whole grid when some helper looks beyond its pillar.  Quotes,
\* dates, failures, half-broadcast dates and nested bootstraps all come
\* between (IterativeBootstrap::calculate, LocalBootstrap::calculate,
\* GlobalBootstrap::calculate).
CalculatedIsSolved ==
  \A c \in Curves : calculated[c] /\ ~Solving(c) =>
    \A h \in ToSet(Instruments[c]) :
      IsAlive(h) \/ algorithm[c] = "local" =>
        \E k \in DOMAIN cd[c].data :
          /\ cd[c].dates[k] = PillarDate(h)
          /\ FitsNow(cd[c].data[k], h, c)
          /\ LoopRequired(c) => cd[c].data[k].upto = Len(cd[c].data)

\* Whatever happened before, nodes and dates go together and the interpolation
\* stays within them: nothing is indexed past its end (CurveData::rebuild,
\* `data[i]` in the convergence test).
ShapesMatch ==
  \A c \in Curves : /\ Len(cd[c].data) = Len(cd[c].dates)
                    /\ cd[c].upto <= Len(cd[c].dates)

\* While a curve is solved, and afterwards, it reaches as far as every helper it
\* fits has to read: no helper fails the range check of the curve that asked it
\* (check_range_time under discount).  Afterwards its dates increase, whatever
\* expired or shares a pillar (the constructors of the interpolations).
RangeCoversHelpers ==
  \A c \in Curves : calculated[c] =>
    /\ \A h \in ToSet(Alive(c)) : cd[c].maxDate >= Needs(h)
    /\ Solving(c) \/ Increasing(cd[c].dates)

\* A bootstrap ends, however many passes its curve needs and whichever other
\* curves it has to bootstrap first.
BootstrapEnds == (stack # <<>>) ~> (stack = <<>>)

\* "Whether a previous bootstrap left a usable solution to seed the next one"
\* (CurveData::is_valid): what is marked valid came from fits.  Not so after a
\* bootstrap that started from valid data and failed.
ValidIsASolution ==
  \A c \in Curves : cd[c].valid /\ ~Solving(c) =>
    \A k \in 2 .. Len(cd[c].data) : cd[c].data[k].kind = "fit"

\* The types of the variables.
TypeOK ==
  /\ algorithm \in [Curves -> {"iterative", "local", "global"}]
  /\ date \in EvalDates /\ seen \in [Helpers -> EvalDates] /\ untold \subseteq Relative
  /\ quote \in [Helpers -> Quotes \cup {NoQuote}]
  /\ on \in [Helpers -> Curves \cup {Nobody}]
  /\ DOMAIN cd = Curves
  /\ \A c \in Curves : /\ cd[c].dates \in Seq(Int) /\ cd[c].maxDate \in Int
                      /\ cd[c].upto \in Nat /\ cd[c].valid \in BOOLEAN
  /\ calculated \in [Curves -> BOOLEAN]
  /\ stack \in Seq(Frames) /\ changes \in Nat
=============================================================================
