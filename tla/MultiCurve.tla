------------------------------ MODULE MultiCurve ------------------------------
(***************************************************************************)
(* Curves that depend on one another, solved jointly: MultiCurve           *)
(* (termstructures/multicurve.rs) and the MultiCurveBootstrap it owns      *)
(* (termstructures/globalbootstrap.rs), on the notification engine.        *)
(*                                                                         *)
(* Contributors are bootstrapped together: a read of any of them runs the  *)
(* solve of all.  Cachers are the other members: they are built over a     *)
(* contributor, cache what they derive, and are notified between the       *)
(* trials of a solve, which reads them.  Hub is the MultiCurveUpdater that *)
(* fans a market change out to every member.                               *)
(*                                                                         *)
(* A solve calls foreign code only when it notifies the cachers: it is a   *)
(* frame of the call stack, and its other stages are one step each.  Node  *)
(* values are abstracted to what they belong to: a trial point of the      *)
(* running solve, the solution for the present market, or neither.         *)
(***************************************************************************)
EXTENDS LazyGraph

CONSTANTS
    Quotes,          \* the subjects that are market quotes of the members
    Contributors,    \* bootstrapped members, each named by its CurveUpdater
    Cachers,         \* non-bootstrapped members that cache
    Base,            \* Base[n]: the contributor a cacher is built over
    Hub,             \* the MultiCurveUpdater
    CurveInputs,     \* CurveInputs[m]: the quotes a member registered with itself
    Listens,         \* Listens[w]: the members a client observes
    CallbackOps,     \* what client code does inside update(): <<client, op>> pairs
    MaxTrials        \* bound: trial points of one solve

Members == Contributors \cup Cachers

ASSUME MultiConstants ==
    /\ Quotes \subseteq Subjects
    /\ Contributors # {}
    /\ Lazies = Members
    /\ Contributors \cap Cachers = {}
    /\ \A l \in Members : Own[l] \notin Quotes /\ \A m \in Members : Own[l] = Own[m] => l = m
    /\ \A q \in Quotes : \E m \in Members : q \in CurveInputs[m]
    /\ Base \in [Cachers -> Contributors]
    /\ Hub \in Discarding \ (Members \cup Clients \cup Forwarders)
    /\ CurveInputs \in [Members -> SUBSET Quotes]
    /\ Listens \in [Clients -> SUBSET Members]
    /\ CallbackOps \subseteq Clients \X {"read", "set"}
    /\ MaxTrials \in Nat \ {0}

VARIABLES
    data,       \* data[m]: what the nodes of a member belong to
    fanout      \* members the running MultiCurve::update has still to reach

multiVars == <<data, fanout>>
allVars == <<vars, lazyVars, multiVars>>

\* Node values: Neither, the number of a trial point, or Solved.
Neither == 0
Solved == MaxTrials + 1

\* The stages of a solve: about to write a trial point, notifying the cachers,
\* trial evaluated.  asked is the member whose read it serves, for the curve
\* whose calculate it is.
SolveFrame == [op : {"solve"}, asked : Members, for : Contributors,
               stage : {"trial", "tell", "evaluated"}, todo : SUBSET Observers,
               trial : 0..MaxTrials, error : BOOLEAN]

Solving == \E i \in DOMAIN stack : stack[i].op = "solve"

MayCall(op) ==
    \/ stack = <<>>
    \/ TopIs("update") /\ <<Top.who, op>> \in CallbackOps

-----------------------------------------------------------------------------
\* Mutants: the hub observes the members themselves; nobody tells the hub.
UpstreamOfMembers(s) ==
    {m \in Members : s \in CurveInputs[m]}
      \cup (IF \E m \in Members : s \in CurveInputs[m] \/ s = Own[m] THEN {Hub} ELSE {})
UpstreamWithoutHub(s) == {m \in Members : s \in CurveInputs[m]}

\* The inputs of a member are observed by its own updater and, beside it, by
\* the hub (add_curve): never the member itself.
Upstream(s) ==
    {m \in Members : s \in CurveInputs[m]}
      \cup (IF \E m \in Members : s \in CurveInputs[m] THEN {Hub} ELSE {})

MultiInit ==
    /\ QuietWith([s \in Subjects |->
                    Upstream(s) \cup {w \in Clients : \E m \in Listens[w] : Own[m] = s}])
    /\ LazyInit
    /\ data = [m \in Members |-> Neither]
    /\ fanout = {}

LibraryStep ==
    /\ EngineStep \/ LazyHears \/ LazyReturns
    /\ UNCHANGED multiVars

-----------------------------------------------------------------------------
(* MultiCurve::update: each member's updater in turn, run here and not by a  *)
(* notification; one that is borrowed is skipped.                            *)
FanOut ==
    /\ TopIs("update") /\ Top.who = Hub /\ ~Top.sent
    /\ stack' = ReplaceTop([Top EXCEPT !.sent = TRUE])
    /\ fanout' = Members
    /\ UNCHANGED <<registry, depth, draining, pending, held, dropped, owed,
                   notifies, edits, lazyVars, data>>

FanOutToMember ==
    /\ TopIs("update") /\ Top.who = Hub
    /\ \E m \in fanout :
         /\ fanout' = fanout \ {m}
         /\ stack' = IF Busy(m) THEN stack ELSE Append(stack, UpdateFrame(m))
    /\ UNCHANGED <<registry, depth, draining, pending, held, dropped, owed,
                   notifies, edits, lazyVars, data>>

FanOutReturns ==
    /\ TopIs("update") /\ Top.who = Hub /\ Top.sent
    /\ fanout = {}
    /\ stack' = Below
    /\ UNCHANGED <<registry, depth, draining, pending, held, dropped, owed,
                   notifies, edits, lazyVars, multiVars>>

(* A quote changes.  A client that does it while it is notified by a solve   *)
(* would re-enter that solve; none does here.                                *)
SetQuote(q) ==
    /\ MayCall("set") /\ ~Solving
    /\ Notify(q)
    /\ data' = [m \in Members |-> IF data[m] = Solved THEN Neither ELSE data[m]]
    /\ answer' = [m \in Members |-> IF answer[m] = "current" THEN "stale" ELSE answer[m]]
    /\ UNCHANGED <<lazy, guard, fanout>>

-----------------------------------------------------------------------------
(* A member answers from its cache.                                          *)
ReadCached(m) ==
    /\ MayCall("read")
    /\ m \notin dropped
    /\ ~MustCalculate(lazy[m])
    /\ answer' = [answer EXCEPT ![m] = Held(data[m] = Solved)]
    /\ UNCHANGED <<vars, lazy, guard, multiVars>>

\* A cacher derives its nodes from its base, which is taken to be calculated.
Derives(n) == FinishOk(StartCalculation(lazy[n]))

ReadDerived(n) ==
    /\ MayCall("read")
    /\ n \notin dropped
    /\ MustCalculate(lazy[n])
    /\ ~MustCalculate(lazy[Base[n]]) /\ Base[n] \notin dropped
    /\ lazy' = [lazy EXCEPT ![n] = Derives(n)]
    /\ data' = [data EXCEPT ![n] = data[Base[n]]]
    /\ answer' = [answer EXCEPT ![n] = Held(data[Base[n]] = Solved)]
    /\ UNCHANGED <<vars, guard, fanout>>

(* Its base is gone, and the weak handle it read it through is empty.        *)
ReadBaseless(n) ==
    /\ MayCall("read")
    /\ n \notin dropped
    /\ MustCalculate(lazy[n])
    /\ Base[n] \in dropped
    /\ lazy' = [lazy EXCEPT ![n] = FinishErr(StartCalculation(@))]
    /\ answer' = [answer EXCEPT ![n] = "none"]
    /\ UNCHANGED <<vars, guard, multiVars>>

\* The contributor whose calculate a read of m runs, when it must.
SolvedFor(m) == IF m \in Contributors THEN m ELSE Base[m]
NeedsSolve(m) ==
    /\ {m, SolvedFor(m)} \cap dropped = {}
    /\ MustCalculate(lazy[m]) /\ MustCalculate(lazy[SolvedFor(m)])

\* The flags after a read of m failed, from flags lz.
Failed(lz, m) ==
    [k \in Lazies |-> IF k \in {m, SolvedFor(m)} THEN FinishErr(lz[k]) ELSE lz[k]]

(* MultiCurveBootstrap::run finds a contributor dropped: an error, before    *)
(* anything is marked.                                                       *)
RunRefused(m) ==
    /\ MayCall("read")
    /\ NeedsSolve(m)
    /\ Contributors \cap dropped # {}
    /\ lazy' = Failed(lazy, m)
    /\ answer' = [answer EXCEPT ![m] = "none"]
    /\ UNCHANGED <<vars, guard, multiVars>>

(* Some contributor cannot be set up (an invalid quote, too few points):     *)
(* those entered so far were marked, and are unmarked again.                 *)
SetupFails(m) ==
    /\ MayCall("read") /\ Edit
    /\ NeedsSolve(m)
    /\ Contributors \cap dropped = {}
    /\ \E entered \in SUBSET Contributors \ {{}} :
         /\ lazy' = Failed([k \in Lazies |-> IF k \in entered
                                               THEN InvalidateSilently(MarkCalculated(lazy[k]))
                                               ELSE lazy[k]], m)
         /\ data' = [k \in Members |-> IF k \in entered THEN Neither ELSE data[k]]
    /\ answer' = [answer EXCEPT ![m] = "none"]
    /\ UNCHANGED <<registry, stack, depth, draining, pending, held, dropped, owed, notifies,
                   guard, fanout>>

\* Mutant: the solve leaves out the contributors that are gone.
StartSolveWithoutDropped(m) ==
    /\ MayCall("read") /\ Edit
    /\ NeedsSolve(m)
    /\ stack' = Append(stack, [op |-> "solve", asked |-> m, for |-> SolvedFor(m),
                               stage |-> "trial", todo |-> {}, trial |-> 0, error |-> FALSE])
    /\ lazy' = [k \in Lazies |-> IF k \in Contributors THEN MarkCalculated(lazy[k])
                                 ELSE IF k = m THEN StartCalculation(lazy[k]) ELSE lazy[k]]
    /\ data' = [k \in Members |-> IF k \in Contributors THEN Neither ELSE data[k]]
    /\ UNCHANGED <<registry, depth, draining, pending, held, dropped, owed, notifies,
                   guard, answer, fanout>>

(* GlobalBootstrap::calculate, the parent branch, and the setups of run: the *)
(* curve asked for has started its calculation, and every contributor is     *)
(* marked calculated over a grid that no solve has finished.                 *)
StartSolve(m) ==
    /\ MayCall("read") /\ Edit
    /\ NeedsSolve(m)
    /\ Contributors \cap dropped = {}
    /\ stack' = Append(stack, [op |-> "solve", asked |-> m, for |-> SolvedFor(m),
                               stage |-> "trial", todo |-> {}, trial |-> 0, error |-> FALSE])
    /\ lazy' = [k \in Lazies |-> IF k \in Contributors THEN MarkCalculated(lazy[k])
                                 ELSE IF k = m THEN StartCalculation(lazy[k]) ELSE lazy[k]]
    /\ data' = [k \in Members |-> IF k \in Contributors THEN Neither ELSE data[k]]
    /\ UNCHANGED <<registry, depth, draining, pending, held, dropped, owed, notifies,
                   guard, answer, fanout>>

-----------------------------------------------------------------------------
\* The solve on top of the stack goes to stage with these cachers to notify.
Stage(stage, todo, trial, error) ==
    stack' = ReplaceTop([Top EXCEPT !.stage = stage, !.todo = todo,
                                    !.trial = trial, !.error = error])

AtStage(stage) == TopIs("solve") /\ Top.stage = stage

\* Mutant: the solve notifies the contributors too.
CachersAndContributors == Members \ dropped

\* The observers of the solve that are still alive.
SolveObservers == Cachers \ dropped

(* StackedCost writes a trial point into every contributor, all of them      *)
(* before anything is read.                                                  *)
SetArguments ==
    /\ AtStage("trial")
    /\ data' = [m \in Members |-> IF m \in Contributors THEN Top.trial + 1 ELSE data[m]]
    /\ Stage("tell", SolveObservers, Top.trial + 1, Top.error)
    /\ UNCHANGED <<registry, depth, draining, pending, held, dropped, owed,
                   notifies, edits, lazyVars, fanout>>

(* Writing one fails: the error is parked, the trial answers NaN.            *)
SetArgumentsFails ==
    /\ AtStage("trial")
    /\ \E written \in SUBSET Contributors :
         data' = [m \in Members |-> IF m \in written THEN Top.trial + 1 ELSE data[m]]
    /\ Stage("evaluated", {}, Top.trial + 1, TRUE)
    /\ UNCHANGED <<registry, depth, draining, pending, held, dropped, owed,
                   notifies, edits, lazyVars, fanout>>

(* A cacher's updater is borrowed and run, whatever else holds it; were it   *)
(* borrowed already the program would panic here.                            *)
TellCacher ==
    /\ AtStage("tell")
    /\ \E n \in Top.todo :
         /\ ~Busy(n)
         /\ stack' = Append(ReplaceTop([Top EXCEPT !.todo = @ \ {n}]), UpdateFrame(n))
    /\ UNCHANGED <<registry, depth, draining, pending, held, dropped, owed,
                   notifies, edits, lazyVars, multiVars>>

(* The residuals: helpers read the contributors, marked calculated, and some *)
(* cachers, which derive their nodes again from the trial point.  A helper   *)
(* that fails parks its error.  Were a contributor not marked, its read would *)
(* run this solve again from within: no step here.                           *)
Evaluate ==
    /\ AtStage("tell")
    /\ Top.todo = {}
    /\ \A k \in Contributors : ~MustCalculate(lazy[k])
    /\ \E read \in SUBSET SolveObservers, fails \in BOOLEAN :
         LET derived == {n \in read : MustCalculate(lazy[n])} IN
         /\ lazy' = [m \in Lazies |-> IF m \in derived THEN Derives(m) ELSE lazy[m]]
         /\ data' = [m \in Members |-> IF m \in derived THEN data[Base[m]] ELSE data[m]]
         /\ Stage("evaluated", {}, Top.trial, Top.error \/ fails)
    /\ UNCHANGED <<registry, depth, draining, pending, held, dropped, owed,
                   notifies, edits, guard, answer, fanout>>

(* The optimizer goes on to another point.                                   *)
NextTrial ==
    /\ AtStage("evaluated")
    /\ Top.trial < MaxTrials
    /\ Stage("trial", {}, Top.trial, Top.error)
    /\ UNCHANGED <<registry, depth, draining, pending, held, dropped, owed,
                   notifies, edits, lazyVars, multiVars>>

(* The optimizer succeeds: its last evaluation was at the solution, which    *)
(* set_to_valid writes into every contributor; the read is answered.         *)
Converge ==
    /\ AtStage("evaluated")
    /\ ~Top.error
    /\ LET m == Top.asked IN
         /\ lazy' = [k \in Lazies |-> IF k \in {m, Top.for} THEN FinishOk(lazy[k]) ELSE lazy[k]]
         /\ data' = [k \in Members |->
                       IF k \in Contributors \cup {m} \/ data[k] = Top.trial THEN Solved
                       ELSE IF data[k] = Solved THEN Solved ELSE Neither]
         /\ answer' = [answer EXCEPT ![m] = "current"]
    /\ stack' = Below
    /\ UNCHANGED <<registry, depth, draining, pending, held, dropped, owed,
                   notifies, edits, guard, fanout>>

\* Mutant: the contributors stay marked when the solve fails, as in C++.
GiveUpMarked ==
    /\ AtStage("evaluated")
    /\ lazy' = Failed(lazy, Top.asked)
    /\ data' = [k \in Members |-> IF k \in Contributors \/ data[k] # Solved
                                    THEN Neither ELSE data[k]]
    /\ answer' = [answer EXCEPT ![Top.asked] = "none"]
    /\ stack' = Below
    /\ UNCHANGED <<registry, depth, draining, pending, held, dropped, owed,
                   notifies, edits, guard, fanout>>

(* A parked error, no convergence, or a solution that cannot be written:     *)
(* every contributor is unmarked, silently, and the read fails.              *)
GiveUp ==
    /\ AtStage("evaluated")
    /\ lazy' = Failed([k \in Lazies |-> IF k \in Contributors
                                          THEN InvalidateSilently(lazy[k]) ELSE lazy[k]],
                      Top.asked)
    /\ data' = [k \in Members |-> IF k \in Contributors \/ data[k] # Solved
                                    THEN Neither ELSE data[k]]
    /\ answer' = [answer EXCEPT ![Top.asked] = "none"]
    /\ stack' = Below
    /\ UNCHANGED <<registry, depth, draining, pending, held, dropped, owed,
                   notifies, edits, guard, fanout>>

(* The MultiCurve is dropped, and with it every member nobody else holds.    *)
DropMultiCurve ==
    /\ stack = <<>> /\ Edit
    /\ Hub \notin dropped
    /\ \E alone \in SUBSET Members : dropped' = dropped \cup {Hub} \cup alone
    /\ UNCHANGED <<registry, stack, depth, draining, pending, held, owed, notifies,
                   lazyVars, multiVars>>

-----------------------------------------------------------------------------
SolveStep == SetArguments \/ SetArgumentsFails \/ TellCacher \/ Evaluate
             \/ NextTrial \/ Converge \/ GiveUp

Running == LibraryStep \/ FanOut \/ FanOutToMember \/ FanOutReturns \/ SolveStep

MultiNext ==
    \/ Running
    \/ \E q \in Quotes : SetQuote(q)
    \/ \E m \in Members : ReadCached(m) \/ RunRefused(m) \/ SetupFails(m) \/ StartSolve(m)
    \/ \E n \in Cachers : ReadDerived(n) \/ ReadBaseless(n)
    \/ DropMultiCurve

MultiSpec == MultiInit /\ [][MultiNext]_allVars

\* Library code runs, and the optimizer stops after finitely many points.
FairMultiSpec == MultiSpec /\ WF_allVars(Running)

-----------------------------------------------------------------------------
MultiTypeOK ==
    /\ registry \in [Subjects -> SUBSET Entry]
    /\ stack \in Seq(Frame \cup SolveFrame)
    /\ depth \in Nat
    /\ draining \in BOOLEAN
    /\ {pending, held, dropped, owed} \subseteq SUBSET Observers
    /\ lazy \in [Lazies -> Lazy]
    /\ guard \in [Lazies -> Nat]
    /\ answer \in [Lazies -> Answers]
    /\ data \in [Members -> Neither..Solved]
    /\ fanout \subseteq Members

(* Once every call has returned, a contributor that says it is calculated    *)
(* holds the joint solution for the present market: no failure leaves one    *)
(* marked over a grid no solve finished, and a change to the inputs of one   *)
(* member invalidates them all.                                              *)
ContributorsAreSolved ==
    stack = <<>> /\ Hub \notin dropped =>
        \A k \in Contributors : lazy[k].calculated => data[k] = Solved

(* The same of every member, whatever it was built from: refuted by a solve  *)
(* that fails after a cacher derived its nodes from a trial point.           *)
MembersAreSolved ==
    stack = <<>> /\ Hub \notin dropped =>
        \A m \in Members : lazy[m].calculated => data[m] = Solved

(* Nobody keeps an answer of a contributor that a market change made stale   *)
(* without being told, whichever member the change came in through, and none *)
(* is handed an answer that was stale or a trial point from the start.       *)
ReadersAreTold ==
    stack = <<>> /\ Hub \notin dropped => \A k \in Contributors : answer[k] # "stale"

(* A solve notifies through updaters nobody has borrowed: borrow_mut there   *)
(* would panic.                                                              *)
TellsFreeUpdaters == AtStage("tell") => \A n \in Top.todo : ~Busy(n)

(* Once a contributor is gone, no solve succeeds: never a silent fallback to *)
(* fewer curves.                                                             *)
NoSilentFallback ==
    [][\A k \in Contributors : data'[k] = Solved /\ data[k] # Solved
                                  => Contributors \cap dropped = {}]_allVars

(* Every read and every market change returns.                               *)
MultiTerminates == (stack # <<>>) ~> (stack = <<>>)
=============================================================================
