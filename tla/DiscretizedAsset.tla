-------------------------- MODULE DiscretizedAsset --------------------------
(***************************************************************************)
(* Assets rolled back through a lattice: the marks that keep an adjustment *)
(* from firing twice at one time, a swap that takes in its coupons on the  *)
(* way, an option that rolls the swap along behind it, and the engine that *)
(* prices a swaption with both.                                            *)
(*                                                                         *)
(* A step of the lattice is linear: it changes what a coupon is worth, not *)
(* which coupons a value counts.  A value is therefore the number of times *)
(* it counts each coupon, and an option's value the set of exercises it is *)
(* the best of, each with what the swap counted when it was taken.  Times  *)
(* are nodes of the grid, today being node 0.                              *)
(***************************************************************************)
EXTENDS Integers, Sequences

CONSTANTS
  LastNode,        \* the grid is 0 .. LastNode
  Deals,           \* swaps, exercises and settings: see DealsAssumption
  Users,           \* who works with the assets
  MaxInitialize    \* bound: initialisations of the swap

Times == 0 .. LastNode
Never == LastNode + 1        \* the marks of an asset never adjusted
NoStart == LastNode + 1

Coupon == [reset : Int, pay : Int, pass : {"pre", "post"}]

ASSUME GridAssumption == LastNode \in Nat
ASSUME DealsAssumption ==
  \A d \in Deals :
    /\ d.coupons \in Seq(Coupon)
    /\ d.exercise \in Seq(Int) \ {<<>>}
    /\ \A k \in DOMAIN d.exercise :
         /\ d.exercise[k] <= LastNode
         /\ \A j \in 1 .. k : d.exercise[j] <= d.exercise[k]
    /\ d.style = "American" => Len(d.exercise) = 2
    /\ d.includeTodays \in {"unset", "yes", "no"} /\ d.includeEvents \in BOOLEAN
    /\ d.lastPayment \in Times
    /\ \A i \in DOMAIN d.coupons :
         /\ d.coupons[i].reset < d.coupons[i].pay
         /\ d.coupons[i].pay <= d.lastPayment

VARIABLES
  deal, user,      \* fixed from the start
  swap,            \* its DiscretizedAssetBase: time, the two marks, the values
  option,          \* the same of the swaption
  phase,           \* "idle", or the loop that is running
  goal,            \* of the call that is running: the time, and whether it adjusts there
  inits,           \* initialisations of the swap
  start,           \* where the option was initialised
  failed,          \* the option could not roll the swap along
  engine           \* TreeSwaptionEngine::calculate: "new", "initialised", "rolling", "priced"

fixed == <<deal, user>>
vars == <<deal, user, swap, option, phase, goal, inits, start, failed, engine>>

-----------------------------------------------------------------------------
(* What a swap adjusts *)

Coupons == DOMAIN deal.coupons

\* Mutant: a coupon paid today is paid, whatever the settings say.
ResetInPastPaysLater(i) ==
  deal.coupons[i].reset < 0 /\ deal.coupons[i].pay > 0

\* A coupon that has begun and is still to be paid.
is_reset_time_in_past(i) ==
  LET c == deal.coupons[i]
  IN c.reset < 0 /\ (c.pay > 0 \/ (deal.includeTodays = "yes" /\ c.pay = 0))

CouponAdjustment(i) ==
  IF is_reset_time_in_past(i) THEN "post" ELSE deal.coupons[i].pass

\* The node of the grid that is nearest to t.
NearestNode(t) == IF t < 0 THEN 0 ELSE IF t > LastNode THEN LastNode ELSE t

is_on_time(t, time) == NearestNode(t) = time

\* Mutant: a coupon that began before today begins at its nearest node, today's.
BeginsAnywhere(i, pass, time) ==
  CouponAdjustment(i) = pass /\ is_on_time(deal.coupons[i].reset, time)

\* Coupon i begins at this time and is taken in by this pass.
Begins(i, pass, time) ==
  /\ CouponAdjustment(i) = pass
  /\ deal.coupons[i].reset >= 0
  /\ is_on_time(deal.coupons[i].reset, time)

\* A coupon already fixed is taken in as an amount where it is paid.
IsPaid(i, time) ==
  is_reset_time_in_past(i) /\ is_on_time(deal.coupons[i].pay, time)

\* What a pass adds to the values of the swap at a time.
Plus(values, pass, time) ==
  [i \in Coupons |->
     values[i] + IF Begins(i, pass, time) \/ (pass = "post" /\ IsPaid(i, time))
                   THEN 1 ELSE 0]

PreAdjusted(s) ==
  IF s.pre = s.time THEN s
  ELSE [s EXCEPT !.pre = s.time, !.values = Plus(s.values, "pre", s.time)]

\* Mutant: the mark is set and never looked at.
PostAdjustedUnmarked(s) ==
  [s EXCEPT !.post = s.time, !.values = Plus(s.values, "post", s.time)]

PostAdjusted(s) ==
  IF s.post = s.time THEN s
  ELSE [s EXCEPT !.post = s.time, !.values = Plus(s.values, "post", s.time)]

Adjusted(s) == PostAdjusted(PreAdjusted(s))
Settled(a) == a.pre = a.time /\ a.post = a.time
Stepped(a) == [a EXCEPT !.time = a.time - 1]

NoCoupons == [i \in Coupons |-> 0]

\* Zeroed at the last payment, then adjusted; the marks are kept.
SwapReset == Adjusted([swap EXCEPT !.time = deal.lastPayment, !.values = NoCoupons])

-----------------------------------------------------------------------------
(* The swap *)

SwapInitialize ==
  /\ phase = "idle" /\ user \in {"swap", "both"}
  /\ inits < MaxInitialize
  /\ swap' = SwapReset /\ inits' = inits + 1
  /\ UNCHANGED <<fixed, option, phase, goal, start, failed, engine>>

\* rollback(to) adjusts at its destination; partial_rollback(to) leaves that to
\* its caller, who does it (by a rollback to the same time) before going on.
RollSwap(to, adjust) ==
  /\ phase = "idle" /\ user \in {"swap", "both"} /\ inits > 0
  /\ IF to = swap.time THEN adjust ELSE to < swap.time /\ Settled(swap)
  /\ phase' = "swap" /\ goal' = [to |-> to, adjust |-> adjust]
  /\ UNCHANGED <<fixed, swap, option, inits, start, failed, engine>>

\* Mutant: the destination is adjusted like the slices before it, then again.
SliceAdjusted(s, to) == Adjusted(s)

\* Every slice but the destination is adjusted.
Slice(s, to) == IF s.time = to THEN s ELSE Adjusted(s)

RollTarget == IF phase = "swap" THEN goal.to ELSE option.time

StepSwap ==
  /\ phase \in {"swap", "underlying"}
  /\ swap.time > RollTarget
  /\ swap' = Slice(Stepped(swap), RollTarget)
  /\ UNCHANGED <<fixed, option, phase, goal, inits, start, failed, engine>>

SwapArrives ==
  /\ phase = "swap" /\ swap.time = goal.to
  /\ swap' = IF goal.adjust THEN Adjusted(swap) ELSE swap
  /\ phase' = "idle"
  /\ UNCHANGED <<fixed, option, goal, inits, start, failed, engine>>

-----------------------------------------------------------------------------
(* The option *)

\* May the option be exercised at this node?
Exercisable(t) ==
  IF deal.style = "American"
    THEN t >= deal.exercise[1] /\ t <= deal.exercise[2]
    ELSE \E k \in DOMAIN deal.exercise :
           deal.exercise[k] >= 0 /\ is_on_time(deal.exercise[k], t)

\* Its adjustment: nothing before, and after it the exercise, for which the
\* swap must first be rolled to this time.
AdjustOption(o) ==
  /\ option' = [o EXCEPT !.pre = o.time]
  /\ phase' = IF o.post = o.time THEN "option" ELSE "underlying"

\* The swap is initialised first, at its last payment.
InitializeOption(t) ==
  /\ inits < MaxInitialize
  /\ swap' = SwapReset /\ inits' = inits + 1
  /\ AdjustOption([time |-> t, pre |-> option.pre, post |-> option.post, values |-> {}])
  /\ goal' = [to |-> t, adjust |-> FALSE]
  /\ start' = t
  /\ UNCHANGED <<fixed, failed>>

RollOption(to, adjust) ==
  /\ start # NoStart
  /\ IF to = option.time THEN adjust ELSE to < option.time /\ Settled(option)
  /\ phase' = "option" /\ goal' = [to |-> to, adjust |-> adjust]
  /\ UNCHANGED <<fixed, swap, option, inits, start, failed>>

StepOption ==
  /\ phase = "option" /\ option.time > goal.to
  /\ IF Stepped(option).time = goal.to
       THEN option' = Stepped(option) /\ UNCHANGED phase
       ELSE AdjustOption(Stepped(option))
  /\ UNCHANGED <<fixed, swap, goal, inits, start, failed, engine>>

OptionArrives ==
  /\ phase = "option" /\ option.time = goal.to
  /\ IF goal.adjust
       THEN AdjustOption(option) /\ goal' = [to |-> goal.to, adjust |-> FALSE]
       ELSE phase' = "idle" /\ UNCHANGED <<option, goal>>
  /\ UNCHANGED <<fixed, swap, inits, start, failed, engine>>

\* Mutant: the exercise sees what the swap pays on the day.
SeenAfter(s) == Adjusted(s)

\* What an exercise sees: the swap before its post-adjustment.
Seen(s) == PreAdjusted(s)

Exercise ==
  /\ phase = "underlying" /\ swap.time = option.time
  /\ option' = [option EXCEPT
       !.post   = option.time,
       !.values = IF Exercisable(option.time)
                    THEN @ \cup {[at |-> option.time, sees |-> Seen(swap).values]}
                    ELSE @]
  /\ swap' = PostAdjusted(Seen(swap))
  /\ phase' = "option"
  /\ UNCHANGED <<fixed, goal, inits, start, failed, engine>>

\* The swap is already behind: "cannot roll the asset back".
ExerciseFails ==
  /\ phase = "underlying" /\ swap.time < option.time
  /\ phase' = "idle" /\ failed' = TRUE
  /\ UNCHANGED <<fixed, swap, option, goal, inits, start, engine>>

\* A user of the swaption itself, who has left no debt on the swap.
UserInitializesOption(t) ==
  /\ phase = "idle" /\ user \in {"option", "both"}
  /\ InitializeOption(t) /\ UNCHANGED engine

UserRollsOption(to, adjust) ==
  /\ phase = "idle" /\ user \in {"option", "both"} /\ Settled(swap)
  /\ RollOption(to, adjust) /\ UNCHANGED engine

-----------------------------------------------------------------------------
(* The engine: from the last exercise to the first that is not past *)

LastExercise == deal.exercise[Len(deal.exercise)]

\* Mutant of NextExercise: LastExercise, the swaption left where it starts.
NextExercise ==
  LET k == CHOOSE k \in DOMAIN deal.exercise :
             /\ deal.exercise[k] >= 0
             /\ \A j \in 1 .. k - 1 : deal.exercise[j] < 0
  IN deal.exercise[k]

EngineInitializes ==
  /\ user = "engine" /\ engine = "new" /\ phase = "idle"
  /\ LastExercise >= 0
  /\ InitializeOption(LastExercise)
  /\ engine' = "initialised"

EngineRolls ==
  /\ engine = "initialised" /\ phase = "idle" /\ ~failed
  /\ RollOption(NextExercise, TRUE)
  /\ engine' = "rolling"

\* The present value is read off the values where the option stands.
EnginePrices ==
  /\ engine = "rolling" /\ phase = "idle" /\ ~failed
  /\ engine' = "priced"
  /\ UNCHANGED <<fixed, swap, option, phase, goal, inits, start, failed>>

-----------------------------------------------------------------------------

Init ==
  /\ deal \in Deals /\ user \in Users
  /\ swap = [time |-> 0, pre |-> Never, post |-> Never, values |-> NoCoupons]
  /\ option = [time |-> 0, pre |-> Never, post |-> Never, values |-> {}]
  /\ phase = "idle" /\ goal = [to |-> 0, adjust |-> FALSE]
  /\ inits = 0 /\ start = NoStart /\ failed = FALSE /\ engine = "new"

Next ==
  \/ SwapInitialize \/ StepSwap \/ SwapArrives
  \/ StepOption \/ OptionArrives \/ Exercise \/ ExerciseFails
  \/ \E t \in Times, adjust \in BOOLEAN : RollSwap(t, adjust) \/ UserRollsOption(t, adjust)
  \/ \E t \in Times : UserInitializesOption(t)
  \/ EngineInitializes \/ EngineRolls \/ EnginePrices

Spec == Init /\ [][Next]_vars

-----------------------------------------------------------------------------
(* Properties *)

Mark(s, pass) == IF pass = "pre" THEN s.pre ELSE s.post

\* Where a swap takes coupon i in, if it does.
EntryTime(i) ==
  IF is_reset_time_in_past(i) THEN deal.coupons[i].pay ELSE deal.coupons[i].reset

\* Rolled to any time in any number of calls, by its user or by an option on it,
\* the swap counts every coupon that begins from there on, or began before today
\* and is paid from there on, exactly once, and no other: no adjustment fires
\* twice at a time, none is skipped (discretizedasset.rs:155-181, treelattice.rs:195).
SwapIsWhatIsLeft ==
  inits = 1 =>
    \A i \in Coupons :
      swap.values[i] =
        IF /\ EntryTime(i) >= 0
           /\ \/ EntryTime(i) > swap.time
              \/ EntryTime(i) = swap.time /\ Mark(swap, CouponAdjustment(i)) = swap.time
          THEN 1 ELSE 0

\* Who exercises receives every coupon that begins then or later exactly once, and
\* of the coupons begun before what is paid after that day, never on it: the order
\* of discretizedasset.rs:366-386.  At the last payment the swap has just been
\* initialised, which adjusts it in full; and an underlying that its own user rolls
\* ahead of the option shows it what that user left.
ExercisesSeeTheRest ==
  (user # "both" /\ inits = 1) =>
    \A e \in option.values : e.at < deal.lastPayment =>
      \A i \in Coupons :
        e.sees[i] = IF /\ EntryTime(i) >= 0
                       /\ \/ EntryTime(i) > e.at
                          \/ EntryTime(i) = e.at /\ CouponAdjustment(i) = "pre"
                      THEN 1 ELSE 0

ExerciseTimes == {e.at : e \in option.values}

NoExerciseIsLost ==
  (inits = 1 /\ start # NoStart /\ ~failed /\ option.post = option.time) =>
    ExerciseTimes = {t \in option.time .. start : Exercisable(t)}

EngineExercisesAll ==
  (engine = "priced" /\ (deal.style = "American" => deal.exercise[1] >= 0)) =>
    ExerciseTimes = {t \in Times : Exercisable(t)}

\* No exercise between where the option was initialised and where it stands is lost,
\* however its way was cut into calls, unless one of them failed; and the engine's
\* price counts every exercise there is, but for the window that opened before today
\* (treeswaptionengine.rs:147-155).
EveryExerciseCounts == NoExerciseIsLost /\ EngineExercisesAll

\* An American window that opened before today is open today.
WindowIsExercised ==
  (engine = "priced" /\ deal.style = "American") =>
    ExerciseTimes = {t \in Times : Exercisable(t)}

\* Coupons due where the swap is initialised are applied there, each time.
AppliedWhenInitialized ==
  (inits > 0 /\ phase = "idle" /\ swap.time = deal.lastPayment /\ Settled(swap)) =>
    \A i \in Coupons : EntryTime(i) = deal.lastPayment => swap.values[i] = 1

\* What a discounting engine leaves out, valuing on the evaluation date.
cash_flow_has_occurred(date) ==
  IF date # 0 THEN date < 0
  ELSE IF deal.includeTodays = "unset" THEN ~deal.includeEvents
  ELSE deal.includeTodays = "no"

\* Rolled back to today the swap counts the coupons that discounting counts, unless
\* only include_reference_date_events asks for what is paid today, which
\* discretizedswap.rs:54 does not read.
TreeAgreesWithDiscounting ==
  (/\ inits = 1 /\ swap.time = 0 /\ Settled(swap)
   /\ deal.includeTodays # "unset" \/ ~deal.includeEvents) =>
    \A i \in Coupons :
      swap.values[i] = IF cash_flow_has_occurred(deal.coupons[i].pay) THEN 0 ELSE 1
=============================================================================
