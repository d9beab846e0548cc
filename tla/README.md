# Verification of Lib-Itô-Fin: notification, caching, bootstraps, schedules, rollbacks and sessions

Lib-Itô-Fin is a Rust port of QuantLib (`crates/libitofin`) with a C ABI
(`crates/libitofin-ffi`), Python bindings (`crates/itofin-py`) and a Go SDK
(`sdk/go`).  Most of its lines are numerics: formulae over floating-point
numbers, which a model checker has nothing to say about.  What makes the
numbers *right or wrong at run time* is smaller: who is told when a market
input changes, what is recomputed, what is served from a cache, and, outside
the core, which thread owns the object graph and who may call it when.  That
part is what this directory models, checks and proves, with two parts whose
logic is exact: dates, calendars and the schedules built on them, and the order
in which a lattice takes coupons and exercises in.

## 1. The system

| Component | State | Operations | What is hard |
|---|---|---|---|
| Notification engine (`patterns/observable.rs`) | a registry of weak observers per observable; thread-local `DEPTH`, `DRAINING`, `PENDING` | register, unregister, `notify_observers`, `deliver`, `drain_pending`, `ResetThenNotify::update` | everything is re-entrant: an update may notify, register, drop, panic |
| Lazy objects (`patterns/lazyobject.rs`) | `calculated`, `frozen`, `failed`, `updating`, `always_forward` | `deferred_update`/`on_update`, `calculate`, `recalculate`, `freeze`, `unfreeze`, `mark_calculated`, `invalidate_silently` | no borrow is held while observers or the computation run |
| Quotes (`quotes/`) | a value | `set_value`, `reset` | notify only on a change |
| Handles (`handle.rs`) | the link, owning or weak, and a forwarder | `link_to`, `link_to_weak`, `reset` | the forwarder moves between registries during notifications |
| Engines (`pricingengine.rs`) | arguments, results, a forwarder | `reset`, `calculate`, `observer` | one engine may be shared by instruments |
| Instruments (`instrument.rs`) | a lazy object, results, an engine | `calculate`, `recalculate`, `set_pricing_engine`, `freeze`, `npv` | caching across engine swaps, expiry, freezing |
| Piecewise curves (`termstructures/**/piecewise*.rs`) | a lazy object, nodes | `calculate` (bootstrap), inspectors | the curve is read while it bootstraps |
| Joint bootstrap (`multicurve.rs`, `globalbootstrap.rs`) | members, the hub, what is dropped, the running solve | add a curve, the joint solve, `update` | members marked before they are solved; a solve notifies, and may be read from inside itself; partial failure |
| Single-curve bootstraps (`iterativebootstrap.rs`, `localbootstrap.rs`, `globalbootstrap.rs`, `bootstraptraits.rs`, `bootstraphelper.rs`) | the nodes of a curve with their dates, range and validity flag; each helper's schedule and the curve it prices against | `calculate`, `set_pillars`, `rebuild`, `set_term_structure` | helpers expire and move with the date; a former solution seeds the next; a residual may bootstrap another curve from inside; every error path leaves nodes behind |
| Dates, calendars, schedules (`time/`) | a calendar's added and removed holidays, shared by its clones; the dates and flags of a schedule | `Date + Period`, IMM codes, `adjust`, `advance`, `business_days_between`, `add_holiday`, `remove_holiday`, `Schedule::new`, `after`, `until` | ends of month, twentieths and third Wednesdays meet holidays and each other; flags must stay with their periods |
| Rollback on lattices (`discretizedasset.rs`, `treelattice.rs`, `pricingengines/swaption/`) | a time, two marks and the values of each asset; an option holds its underlying by a shared handle | `initialize`, `rollback`, `partial_rollback`, `pre_adjust_values`, `post_adjust_values`, `TreeSwaptionEngine::calculate` | an adjustment is owed once per node, whoever brings the asset there and in however many calls; an option moves its underlying between that one's two adjustments |
| Settings (`settings.rs`, `indexes/`) | evaluation date, fixing store, notifiers, flags | setters, `add_fixings`, `clear_fixing(s)`, `Index::fixing` | all-or-nothing insertion, what is told before and what after |
| C ABI (`libitofin-ffi`) | contexts with handle tables, a poison flag, the thread-local callback latch | `itofin_*` entry points, callbacks | thread confinement, panics, ownership of callbacks |
| Go session (`sdk/go/session.go`, `bootstrap_callbacks.go`) | gate, queue, `closed`, `callbackActive`, the worker | `NewSession`, `invoke`, `Close`, `runBootstrap` | the only truly concurrent code: goroutines, a worker thread, callbacks into user code |
| Everything else (market calendars, day counters, mathematics, other methods, models, processes, engines' formulae, cash flows) | none that outlives a call, or lazy objects and forwarders of the kinds above | pure functions | numerics |

The core is single-threaded by design (`Rc`/`RefCell`).  Its concurrency is the
call stack: an `update()` runs arbitrary code, which calls back.  A change of a
quote travels

    quote -> rate helper -> curve -> handle -> engine -> instrument -> observers

as nested `update()` calls, each hop either a *forwarder* (`ResetThenNotify`)
or a *lazy object* that invalidates itself and tells on.  Reads travel the
other way and recompute on demand.  The Go SDK adds real threads: one worker
per session, locked to an OS thread, that owns the native context.

### What makes each component correct

* Engine: no notification is lost; no observer is entered twice; one call
  drains, the outermost; every outermost call returns; a panic leaves no latch.
* Lazy object: what says it is calculated holds the results of the present
  inputs; whoever holds an answer is told when it becomes stale; frozen results
  stay; the recursion guard neither latches nor opens early.
* Graph: the same, end to end: after a market change has been digested every
  cache is current and no reader unaware; subscriptions follow what is read.
* Joint bootstrap: a member that reads as solved is solved, at the present
  market; a solve does not re-enter itself; a dropped member makes it fail,
  never solve less.
* Bootstraps: what says it is calculated fits the present market at every
  helper, over nodes that belong to their dates; the range reaches what every
  helper needs; every bootstrap ends.
* Dates: arithmetic agrees with the calendar and keeps order; a code names its
  date for as long as it may be asked.  Calendars: rolling keeps order and is
  stable, counting inverts advancing, whatever users added and removed.
  Schedules: dates are in order where the arguments let them be, cover the term,
  and every period flagged regular is a tenor; a schedule cut in two loses nothing.
* Rollback: a swap counts every coupon that is left exactly once; an exercise
  sees what follows it, not what its own day pays; no exercise is lost; what is
  left at today is what discounting would count.
* Settings: whoever reads a fixing is told of what changes it; a rejected batch
  leaves nothing behind.
* C boundary: a callback registration is deleted once and not used after; one
  call borrows a context; a panic seals it; handles are not reused.
* Session: no request on a freed context, no send on a closed queue, `Close`
  waits for whatever was admitted and is final, callbacks cannot deadlock the
  sessions, every call returns.

## 2. Modules

| Module | Models | State and actions |
|---|---|---|
| `Observable` | `patterns/observable.rs` | `registry`, `depth`, `draining`, `pending` are the code's; `stack` is the Rust call stack, one frame per active `notify_observers`, `update` or `drain_pending`; `held` and `dropped` are what callers do with their references. One action for each iteration and exit of the two loops, for a forwarder's two targets, and for each thing client code may do. |
| `LazyState` | the methods of `LazyObject` as functions on its flags | pure operators, shared by the two next modules |
| `LazyObject` | one lazy object with foreign code interleaved | `lazy` the flags, `input`/`result` version numbers, `stack` the active calls on the object, `foreign` the kind of observers and computation it meets |
| `CachedValue` | nothing: it is the abstract promise a lazy object makes its readers | `LazyObject` is shown to implement it (`ServesAsPromised`, with `answer <- lastRead`, `pinned <- Unpromised`) |
| `LazyGraph` | the observer half of every lazy object: `Updater`, `CurveUpdater` and the `DeferredUpdate` that outlives their borrow | EXTENDS `Observable` and `LazyState`; `guard` is the stack depth at which each `DeferredUpdate` is dropped |
| `PricingGraph` | `simplequote.rs`, `handle.rs`, `pricingengine.rs`, `instrument.rs`, `piecewiseyieldcurve.rs` composed on the engine | EXTENDS `LazyGraph`; `points` and `engine` are the links, which may be empty, `expired` what the evaluation date has left behind, `inUse` the instruments a `&mut self` call holds |
| `MultiCurve` | `multicurve.rs` and the joint solve of `globalbootstrap.rs` | EXTENDS `LazyGraph`; a solve is a frame of the stack with its stages, `data` what the nodes of a member belong to, `fanout` the loop of `MultiCurve::update` |
| `Bootstrap` | the three bootstraps of one curve, and of one inside another | `cd` is the code's `CurveData` with each node the record of the fit it came from; `on` the back-pointer of each helper, `seen` the date its schedule was built for; `stack` the active bootstraps; one action for a trial, a residual that calls another curve, an error, a fit, an end of pass |
| `Dates` | `date.rs`, `imm.rs`, `period.rs`, the Easter tables of `calendar.rs` | pure operators on serial numbers, and what they must satisfy |
| `Calendar` | `calendar.rs` | EXTENDS `Dates`; `added` and `removed` are the code's sets, one action per editing method; rolling, advancing and counting are operators on them |
| `Schedule` | `schedule.rs` | EXTENDS `Calendar`; `schedule` is the record in use; actions `New`, `FromDates`, `CutAfter`, `CutUntil` beside the calendar's |
| `DiscretizedAsset` | `discretizedasset.rs`, the loop of `treelattice.rs`, `discretizedswap.rs`, `discretizedswaption.rs`, `treeswaptionengine.rs`, `cash_flow_has_occurred` | `swap` and `option` are the two `DiscretizedAssetBase`s; `phase` the loop that runs (an option's adjustment runs one on its swap), `goal` its destination; `engine` how far `calculate` has come. One action per slice of a loop, per arrival, per call of a user |
| `CashFlowProofs` | | the theorems about `Calendar` and `Schedule`, and those about `DiscretizedAsset` |
| `Settings` | `settings.rs` and the forwarding and fixing rule of `interestrateindex.rs` | EXTENDS `Observable`; `evaluationDate`, `enforces` and `store` are the code's; a clear is a frame of the stack because it notifies before it removes |
| `SettingsProofs` | | the theorems about `Settings`, over those about the engine |
| `ObservableProofs` | | facts about a stack kept as a sequence, and the theorems about `Observable` |
| `LazyObjectProofs` | | the theorems about `LazyObject`, and that it implements `CachedValue` |
| `PricingGraphProofs` | | the theorems about `PricingGraph`, over those about the engine |
| `MultiCurveProofs` | | the theorems about `MultiCurve`, over facts about the engine |
| `BootstrapProofs` | | the theorems about `Bootstrap` |
| `FfiContext` | `boundary.rs`, `bootstrap_callbacks.rs`, `bootstrap_api.rs` and the cgo handles of `sdk/go/bootstrap.go` | contexts with `state`, `owner`, `objects`; `nextHandle` and `active` are `NEXT_HANDLE` and `ACTIVE`; `stack[t]` the active calls of each thread |
| `GoSession` | `session.go`, `bootstrap_callbacks.go` | one action per operation on shared memory: flag load, gate, queue, done channel, stopped channel |
| `BindingsProofs` | | the theorems about `FfiContext` and `GoSession` |
| `MCObservable`, `MCLazyObject`, `MCPricingGraph`, `MCMultiCurve`, `MCBootstrap`, `MCSchedule`, `MCDiscretizedAsset`, `MCSettings`, `MCFfiContext`, `MCGoSession` | | instances for TLC |

How they build on one another:

    Observable --+-- LazyGraph --+-- PricingGraph             CachedValue
                 |   LazyState --+-- MultiCurve                  ^ implements
                 +-- Settings                 LazyState -- LazyObject -- LazyObjectProofs
    Observable -- ObservableProofs --+-- PricingGraphProofs (with PricingGraph)
                                     +-- MultiCurveProofs   (with MultiCurve)
                                     +-- SettingsProofs     (with Settings)
    Bootstrap -- BootstrapProofs
    FfiContext --+-- BindingsProofs    Dates -- Calendar -- Schedule --+-- CashFlowProofs
    GoSession  --+                                  DiscretizedAsset --+

Definitions named after a bug, each preceded by a "Mutant" comment, are what
the definition after them must not be: replacing the definition by the mutant
makes TLC refute the property listed with it, which shows that the property
has teeth.

### Abstractions

* Registries, snapshots and the pending list are sets: every delivery order is
  explored, the registration order among them.
* Values are abstracted to the version of the inputs they derive from
  (`LazyObject`), or to whether they derive from the present ones
  (`PricingGraph`, `fresh`, `answer`).
* In `PricingGraph` a read is one step because neither an engine nor a
  bootstrap notifies; the interleavings inside one lazy object are
  `LazyObject`'s.  Rate helpers, which only forward, are elided: a curve
  observes its quotes.  Calls that take the instrument by `&mut self` exclude
  each other (`inUse`), as the borrow checker and `RefCell` enforce.  Which
  instruments a new evaluation date expires is left open, and so is whether
  `is_expired` knows; the results of an expired instrument are current.  After
  `set_pricing_engine_silent` its caller answers for those who hold a price.
* A panic in `Observable` unwinds the whole stack and is caught outside, as
  PyO3 and the C boundary do.  It drops the rest of the round it interrupts,
  which QuantLib would not; `owed` forgets it, so `NoNotificationDropped` says
  nothing about rounds that panicked.
* In `MultiCurve` node values are abstracted to the trial point or the market
  they belong to.  A solve is a frame that writes a trial point, notifies the
  caching members, reads the residuals and goes on, succeeds or fails; a client
  may read any member where the code runs foreign code.  A client that changes
  a quote during a solve, which would re-enter the solve over its borrowed
  state, is excluded.  In the run clients only read while they are notified: a
  client that reads one member and sets a quote of another inside one fan-out
  loses the invalidation, as `MCGraphStale.cfg` shows for instruments.
* In `Bootstrap` solvers and interpolators are oracles: from any trial point a
  solver finds a root or fails, and an interpolator accepts any nodes.  A node
  is the seed, a trial, or the record of its fit; two fits are the same number
  when their records are equal, which is what ends the passes.  A helper that
  prices against two curves in turn keeps one back-pointer (`on`), as the code
  does; that a curve shares one with a curve it reads is left out
  (`CurvesAreLayered`).  Additional dates, variables, penalties and weights of `GlobalBootstrap` are left out,
  and what a local bootstrap does with an expired helper, which its
  interpolation rejects, is an error like any other.
* A date is its serial number.  The tables of `date.rs` that follow a rule are
  the rule; Easter's are copied, and `EasterIsComputed` says what rule they
  follow.  A calendar's own holidays are a constant set; users change the
  status of the `Editable` dates only.  The loops that look for a business day
  go at most `Reach` days, and a generation at most `MaxPeriods` periods.  A
  `Schedule::new` whose assertions fail is no step.  `lower_bound` searches by
  halves: of dates in order there is one place where it may end, of others it
  may end at any date that is not before the one searched and follows one that
  is (`SearchesEnd`).
* In `DiscretizedAsset` a step of the lattice is linear: it changes what a
  coupon is worth and not which coupons a value counts.  The value of a swap is
  therefore the number of times it counts each coupon, and the value of an
  option the set of exercises it is the best of, each with what the swap counted
  then.  Both legs are one list of coupons.  Times are nodes of the grid, and
  the curve's reference date is the evaluation date.  Whoever calls
  `partial_rollback` adjusts before going on, as its documentation leaves to
  them.  The user `both` also holds the swap, through the public handle
  `DiscretizedOption::underlying`.  Dates snapped to exercises, which the code
  defers, are not there to model.
* In `Settings` an index name is its upper-case key, a rate is a number of
  which neighbours are `close`, an error of `Index::fixing` is an answer like
  any other, and a forecast is one value: what the forecasting curve does is
  `PricingGraph`'s.  A batch is a set; of two rates for one date in a batch
  either may come last.  The flag's setter notifies nobody, so an answer is
  compared under the flag it was read with.
* In `FfiContext` a refused call is no step, except where Go reacts to the
  refusal; that a caller does not use a context it freed is its contract.
* `LazyObject` has no panic inside the computation: the code does nothing about
  one, and the object then says it is calculated over what was there before.
* In `GoSession` the native calls are opaque and return or call back.  A
  callback is user code that may call any session; it may not wait in other
  ways for a goroutine that calls its own session.

## 3. Runs

| Run | Bounds | What it shows |
|---|---|---|
| `observable_engine` | a diamond of 2 subjects and 4 observers (a client, a discarding client, a broadcasting and a delivering forwarder); 2 notifications, 2 edits | the engine's safety properties and termination; re-entrancy through both subjects needs 2 notifications, an unregistration or a drop during a round 1 edit, a borrow that outlives a round 1 more |
| `lazy_object` | 4 input versions, 4 nested calls, both policies; the two largest kinds of foreign code the promises hold for (`Disciplined`, section 5): one that reads, recomputes, marks, freezes and invalidates but changes no input, and one that changes inputs and freezes but does not read, recompute or mark; both may panic in a notification | refinement of `CachedValue`, frozen results, currency, the recursion guard |
| `pricing_graph` | 2 quotes, 2 curves, a handle, 2 engines, an instrument, a client; one quote is the evaluation date; 2 changes, 2 edits (relinking to a curve or to none, attaching, detaching and silently installing an engine, freezing, recalculating); clients that read, or relink, swap engines and freeze, inside a notification. Clients that set a quote from inside are in `MCGraphStale.cfg` and `observable_engine` | 847 577 states: caches current, readers told, subscriptions, termination |
| `multicurve` | 2 contributors, a caching member over one of them, 2 clients, 3 quotes; 2 trial points, 2 changes, 2 edits | joint solves that fail at every stage, are read from inside and lose a member |
| `bootstrap` | a discounting curve of 2 helpers given out of order and a projection curve of 3, the last of which reads the first curve and looks beyond its pillar; 2 evaluation dates between which the first helper of each expires; each curve under any of the three bootstraps; 2 market changes, 3 passes | 196 545 states: what is calculated fits the market, shapes, range, and that every bootstrap ends |
| `bootstrap_seed` (violation) | the same | see Findings |
| `settings` | 2 names, each with an index and a client; 2 dates, rates of which two are close and one is not; 2 calls of client code (a third, 2.2 million states, shows nothing new), any of which may come from inside a notification, and a date set back without bound | readers told, whole batches, settling |
| `schedule` | 9 rules, 4 tenors (null, 1 week, 1 and 3 months; weeks for the term of a quarter only), 4 pairs of ends (ends of month, the day after an IMM date, twentieths, a holiday of two days), 7 pairs of stubs, also crossed and outside some of the terms, 3 pairs of conventions, ends of month or not: every combination `Schedule::new` accepts; 2 editable dates and overrides, one cut at 3 dates, one of them twice in some schedules. The arithmetic of dates is checked over the whole range of the type, that of periods, IMM codes and rolling over 61 days with a leap day, ends of month and an end of year | the six properties of dates, calendars and schedules. 876 schedules are built with the calendar as it is: of 644 `SchedulesAreOrdered` says that they are in order, of the others 81 are not. Deadlock is not checked: a user may stop |
| `schedule_flags` (violation) | the same | see Findings |
| `swaption_tree` | a grid of 5 nodes, one beyond the last payment; 5 swaps of up to 4 coupons begun or paid before, on and after today, some tagged for the post-adjustment; 8 exercises, Bermudan and American, on and between the swap's dates, repeated, past, today, after the last payment; the two settings about today's payments; the swap used alone, the swaption used alone, both at once, and the engine; each rollback to any node, with or without the final adjustment; one initialisation of the swap | 179 022 states: coupons and exercises are counted once and on the right side of the day, and the tree agrees with discounting. Deadlock is not checked: a user may stop, and at today there is nothing left to roll |
| `ffi_context` | 2 threads, 2 contexts, 2 registrations, 4 handles | ownership, exclusion, poisoning, handles |
| `go_session` | 2 sessions, 2 goroutines, one call each and one callback per session, everybody may close | all session properties and that every call returns |

Depth bounds are enough for the interesting cases: a nested call on a lazy
object within an observer within a computation within a read is depth 4;
versions beyond the fourth repeat the pattern of old, present and re-read.  Two
market changes let a bootstrap be asked again over the nodes of the last one
with fewer helpers, and a third adds no new shape; three passes are one to
move, one to settle, one to run out.  A second cut of a schedule meets what a
first may leave, a stub at an end, in the stubs that are generated.

### Configurations beside the runs

`MCGraphStale.cfg` (of `MCPricingGraph`), `MCMultiBorrow.cfg` and
`MCMultiTrial.cfg` (of `MCMultiCurve`), `MCSettingsClear.cfg` and
`MCSettingsNoOp.cfg` (of `MCSettings`), `MCScheduleOrder.cfg` (of `MCSchedule`:
one schedule of third Wednesdays every week), `MCDiscretizedWindow.cfg` and
`MCDiscretizedReinit.cfg` (of `MCDiscretizedAsset`) reproduce further findings:
`tlc -config MCMultiBorrow.cfg MCMultiCurve`.

### Fairness

`Observable` and the modules on it assume that the thread runs: a call that can
take its next step takes it (`WF` of the library's own steps).  Client code is
under no fairness: it need not call anything, but when it does it is bounded,
since an observer that writes back forever does not terminate, as
`notify_observers` says.  In `MultiCurve` the optimizer is assumed to stop
after finitely many trial points, as its iteration limit makes it.  `Bootstrap`
assumes that an active bootstrap takes its next step (`WF` of `Step`); that it
ends rests on the pass limit and on the curves it may nest, not on the solvers.
`GoSession` assumes that each goroutine and worker
runs and that requests and callbacks return, `WF` per caller and per worker.
Nobody has to begin a call, and Go's `RWMutex` lets a pending `Lock` block new
readers, which is in the model (`AnnounceLock`), so no strong fairness is
needed.

## 4. Findings

* `MCGraphStale.cfg`: an observer of an instrument that reads it and then changes a
  quote the instrument observes directly leaves it calculated at the old price:
  the instrument's `Updater` is on the stack and discards.
* `MCMultiBorrow.cfg`: a solve notifies the caching members with a plain
  `borrow_mut`; a client of such a member that reads it while it is being told
  starts a solve under that very borrow: the program panics.
* `MCMultiTrial.cfg`: a solve that fails unmarks the contributors, not the
  caching members its residuals read: one stays calculated over a trial point.
* `MCSettingsClear.cfg`: clears notify before they remove, so a client that reads
  inside the notification keeps a fixing that is gone, and is not told.
* `MCSettingsNoOp.cfg`: the documentation calls adding a close value a no-op; the
  code replaces the stored value and notifies.
* `bootstrap_seed`: a solve that fails returns over nodes its trial points have
  overwritten and leaves `is_valid` up, which "a usable solution to seed the
  next one" (`bootstraptraits.rs:506`) is not.
* `MCDiscretizedWindow.cfg`: `TreeSwaptionEngine` rolls an American swaption back
  to its first non-negative stopping time (`treeswaptionengine.rs:152`), so a
  window that opened before today is exercised at its end only, though an
  American exercise is "Exercisable at any time between two predefined dates."
  (`exercise.rs:35`).
* `MCDiscretizedReinit.cfg`: a swap initialised again at the time it was last
  adjusted at skips its adjustments, since the marks are not reset with the
  values; `discretizedswap.rs:256` says "coupons at the initialization time are
  applied immediately".
* `schedule_flags`: where the last two dates meet, the period before them is
  flagged regular because they met, whatever its length; a leg then pays a stub
  as a whole period;
* `MCScheduleOrder.cfg`: a schedule is "a non-decreasing sequence of dates"
  (`schedule.rs:24`), which `lower_bound` relies on, but where two dates snap to
  one third Wednesday before the effective date, or after the termination, only
  one of them is collapsed.  Stubs of that rule need only be IMM dates, within
  the term or not, and the stubs of `Backward` and `Forward` may cross: their
  dates decrease too.  A next-to-last date that snaps to an end of month beyond
  the termination, and two conventions of which one turns back alone, are the
  other ways.  `KeepsOrder` names them all, and `SchedulesAreOrdered` is about
  the rest.

Met while modelling, and shown by no run:

* a frozen instrument that expires and is read gets the results of an expired
  one over those it pinned: `Instrument::calculate` looks at `is_expired` before
  it looks at `frozen`, though `freeze` is said to pin "the currently cached
  results, suppressing recalculation" (`instrument.rs:169`);
* a panic in a computation leaves `calculated` set;
* a piecewise curve's updater keeps the default deferral policy although
  `Observer::defer_reentrant_update` asks lazy objects to discard, which costs a
  second round and breaks nothing;
* the order of periods is called a "genuine partial order" (`period.rs:12`) and
  is not transitive: 364 days are less than a year, a year less than 13 months,
  and 364 days against 13 months is undecided;
* `after` and `until` push a flag also on a schedule that has none
  (`from_dates`), after which the number of flags is neither 0 nor the number
  of periods, as `schedule.rs:79` asserts it is;
* whether a coupon paid today counts, `DiscretizedSwap` decides by
  `include_todays_cash_flows` alone, where discounting falls back on
  `include_reference_date_events` (`cashflow.rs:116`): `TreeAgreesWithDiscounting`
  leaves that one combination out;
* an option exercised at the swap's very last payment sees what is paid that day,
  which at any other date it does not: the swap is initialised there, and
  initialising adjusts in full before the exercise looks.

## 5. Proofs

`BindingsProofs` proves, for any number of sessions and goroutines and any
bounds, `SessionTypeCorrect`, `CloseLast`, `CloseFinal`, `SelfWaitFree` and
`WaitCycleFree`.  None of these is inductive.  The inductive invariant
`SessionInv` adds who is served by the worker (`Serving`), when the flag is up
(`CallingBack`),
who holds the gate (`Gate`), how far Close has come (`Closing`) and an order
(`Order`): a callback that waits for a session whose callback is running
started before that one.  Along the edges of a would-be cycle the start times
increase, so the member that started last waits for none; the start times are
bounded by the clock, so there is a last one even in an infinite set.  The
assumptions are that sessions and goroutines are distinct and the bounds
naturals (`SessionConstants`).

`ObservableProofs` proves, for any graph of subjects and observers, any depth of
re-entrance and observers that panic, `TypeCorrect`, `DrainsCorrect`,
`BorrowsCorrect` and `NothingDropped`.  `OutermostDrains` is inductive beside
`TypeOK`: that `DEPTH` is the number of rounds on the stack rests on the lemmas
that a push or a pop changes `Cardinality(RoundsOf(stack))` by one.
`NoNotificationDropped` speaks of an empty stack only; `OwedIsPromised` says at
every depth that whom a round found is still in some frame's snapshot or batch,
or in `PENDING`, or has died.  Assumed is `ConstantsAssumption`, the types of the
constants.

`LazyObjectProofs` proves, for any policies, any kinds of foreign code and any
bounds, `TypeCorrect` and `GuardCorrect` of `LazyObject`.  `GuardMatchesCalls` is
inductive beside `TypeOK`: `Guarded(set, s)` says that the flag `set` is up
exactly when one frame of `s` is a guarded notification; `Pushed` and `Popped`
say what a call that begins or returns does to it, and `GuardFlags` that of the
methods of `LazyObject` only `deferred_update`, and the drop of what it returns,
move the flag.  Of the foreign code these two assume `LazyConstants` only.

Three more assume `Disciplined`: `ResultsCorrect` (`CalculatedIsCurrent`),
`FrozenCorrect` (`FrozenResultsStay`) and `PromiseKept`, the refinement of
`CachedValue`, step by step.  The invariant is `Inv`: `TypeOK`,
`GuardMatchesCalls` and `Results`, which says at every depth of the stack that
what is marked calculated has the present version or that the change which made
it old is still to be heard of.  It has a form for foreign code that changes
inputs and one for foreign code that does not.  `Disciplined` is what the code
asks of foreign code without saying so, and TLC shows what happens without it: an
observer that changes an input and also reads or marks does so under the
guard, which swallows the invalidation, and stale results stay; a computation
that does the same overwrites newer results by older; one that freezes what it
computes loses what was pinned; one that recalculates itself and fails answers
its reader with nothing that was promised.  `MCLazyObject` assumes `Disciplined`
of the two kinds of foreign code of the run.

`PricingGraphProofs` proves, for any market (any quotes, curves, handles, engines,
instruments and clients, wired as the constructors wire them), `SubscriptionsCorrect`:
relinks and swaps, from inside any notification, leave each handle subscribed to
its curve and each instrument to its engine, and to no other.  It also proves
what the graph is for: `CachesCorrect` (`CachesAreCurrent`) and `ReadersCorrect`
(`NoUnawareReader`).  Both speak of the moment when the last call has returned;
the invariant `CacheInv` says for every moment before it why they will hold:

* `Ground`: the engine's own invariants, subscriptions and types; `Wired`,
  whoever reads a quote or a handle observes it, and only clients observe an
  instrument; `Flags`, everything forwards every notification and curves are
  never frozen; `Flow`, only the top call has something left to tell.
* `Guards`: the recursion guard of a lazy object is up exactly while the loop
  runs that tells of it, its own update's or that of a `&mut self` call which has
  left the instrument invalid.  A guard that outlived its loop would swallow the
  next change.
* `Modes`: where clients read inside `update()`, only clients are told above the
  update of an instrument; where they change the market there, an instrument that
  has told is invalid and nobody holds its answer.
* `NewsComes`: whatever is out of date (calculated and not fresh, or answered and
  stale) *will hear*: someone between it and the market, its engine, its handle,
  its curve or itself, is in `PENDING` or waits in a frame that is not above an
  update of its own.  The last words are the point: what is told above one's own
  running update is discarded, so such news would not count.

Each step then passes the news on (`RoundPasses`, `DrainPasses`, `TellsStep`,
`ForwardPasses`), tells of what it changed (`QuoteSteps`, `RelinkSteps`,
`InstallTells`), tells nobody because the instrument is invalid anyway
(`HearingHushed`, `InstallHushed`), or computes (`CurveSteps`, `PriceSteps`,
`RecalculationSteps`).  When no call is left and `PENDING` is empty, nothing can
be waiting, so nothing is out of date (`QuietIsCurrent`).  Assumed of the graph
are `GraphConstants`, `GraphObjects` (every object has an observable of its own)
and `GraphWiring` (who registers with whom at the start); of client code
`ReadsApart`: no client's `update()` both reads and changes the market.
`MCGraphStale.cfg` is what happens to one that does.  TLC checked `CacheInv` on
the instance of `pricing_graph` before it was proved.

`MultiCurveProofs` proves, for any members, quotes, clients and wiring,
`MultiTypeCorrect` and, of clients that do anything inside their updates,
`NoFallbackCorrect` (`NoSilentFallback`): while a solve is on the stack no
contributor is dropped (`Sound`), so whoever solves has them all.  Three more
assume `ReadersApart` of the clients: `UpdatersAreFree` (`TellsFreeUpdaters`),
`ContributorsCorrect` (`ContributorsAreSolved`) and `ReadersToldCorrect`
(`ReadersAreTold`).  Their invariant, `Inv`, has three parts beside the types:

* `Calls`: whoever is updated, or is about to be, ranks above everybody whose
  update is running.  The hub tells contributors, these tell the clients that
  read, a read starts a solve, a solve tells cachers, and these tell the other
  clients (`Rank`, `Rising`).  So nobody who is to be told is busy: the
  `borrow_mut` of a solve succeeds, `PENDING` stays empty, no update is skipped
  and no second solve starts over the first.
* `Guards`: the recursion guard of a member is up only while the loop right
  above its own update runs (`GuardAt`).  Ranks say that no second update of it
  can find the guard up, so every update it gets invalidates it.
* `NewsComes`: a contributor marked calculated without a solution is being
  solved or will hear, and whoever holds a stale answer of it will hear: the
  contributor or the hub is still in a snapshot, has begun its update and not
  told, or is left in the hub's loop (`Hears`).  A quote starts with the hub in
  its round whichever member it belongs to (`SetQuoteKeeps`); a solve ends with
  every contributor solved, or with none marked (`SolveEndKeeps`).

Assumed of the constants are `MultiConstants` (contributors and cachers are
apart, each member has an observable of its own and every quote belongs to a
member) and those of the engine and of lazy objects.  `ReadersApart` says that
a client that reads inside its update observes contributors only and that none
sets a quote there.  Both halves are needed: `MCMultiBorrow.cfg` shows the panic
when a client of a cacher reads, and a quote set while the hub is updating finds it
busy, which discards.  TLC checked `Inv` on the instance of `multicurve` before
it was proved.

`BootstrapProofs` proves, for any curves in layers, any helpers, schedules and
market, and any mix of the three algorithms, `TypeCorrect`, `ShapesAlwaysMatch`,
`RangeAlwaysCovers` and `CalculatedIsAlwaysSolved`: a curve that says it is
calculated is fitted to every helper at its present quote, schedule and curves.
The last is not inductive: it speaks of curves nobody is solving, and each
bootstrap runs through others, trial points and failures before its curve is one
of those.  The invariant `IInv` is, beside types and shapes:

* `Kept`, of every bootstrap on the stack: the helpers its pass has fitted so far
  (`PinnedBy`) are pinned, that is, priced by the fit whose node stands in the data,
  as the market, this curve and the curves they read are now, and those curves are
  calculated and nobody solves them; the dates rise as far as it has interpolated
  (`ReachedBy`).  A pass that starts from valid data pins over the whole grid, one
  that does not over the solved prefix, which is why a curve that needs passes may
  end only after one from valid data (`MayStop`).
* `Laid`, of every calculated curve, also while it is solved: its nodes are where
  `Grid` puts them for the present schedules, and its range is `MaxDate`.
* `Done`, of every calculated curve nobody solves: all its alive helpers are
  pinned, over the whole grid if the curve needs passes.
* `Descending`: the curve of each frame is below the curve of every frame under it.
  So a bootstrap writes neither what one under it has read nor the helpers'
  back-pointers of one (`Apart`, `ReadsRest`).
* `Told`: a helper whose schedule is of another date has not been told yet.

`BeginKeeps` is what starting a bootstrap, from outside or from inside a residual,
does to this; `WriteKeeps`, `TryKeeps` and `SolveKeeps` what trial points and fits do;
`EndPassKeeps`, `AbandonKeeps` and `LostKeeps` the ways out; `MarketKeeps`, with
`SparedIs`, that a quote or a date leaves calculated only curves that neither use a
helper it changed nor read a curve that does.  Of the operators it is proved
that sorting lists every helper once and in order (`OrderedIs`, `ArrangedIs`,
`GridIs`), and that the maximum date of each algorithm, which the iterative one
overwrites helper by helper, is no less than what any helper needs (`NeedsGrow`,
`MaxCovers`).  Assumed are `BootstrapTypes`, where a local bootstrap fits at least
one helper at a time (the code computes `self.localisation - 1` on an unsigned
number, `localbootstrap.rs:281`), and `CurvesAreLayered`: a curve is not below
itself, as those of `MultiCurve` are, and shares no helper with a curve below it.
The code says "The curve owns its helpers" (`bootstraphelper.rs:32`) and does not
enforce it; where it does not hold the inner bootstrap takes the helper's
back-pointer away from the outer one.  TLC checked `IInv` on the instance of
`bootstrap` before it was proved.

`SettingsProofs` proves, for any indexes, names, dates and fixings and for
clients that read, add, clear and set the date from inside whatever they are
told, `SettingsTypeCorrect` and `ReadersAreToldCorrect` (`ReadersAreTold`).  The
invariant has three parts.  `Calls` is what the engine keeps true around the
frames of the clears: nothing is held or lost, `depth` counts the rounds, a round
or a drain serves every update above it, and a drain runs over nothing but
clears, so that what is put off in `PENDING` has a round or a drain below it which
will take it.  `NewsComes` says at every depth what the property says when all
calls have returned: who keeps an answer and will not hear (is not in `PENDING`,
nor is its index, nor has a frame anything left for either) holds the present
one, and no clear on the stack is about to remove what it read without
telling its index first (`AllTell`).  The second half is what makes a clear safe
for everyone but those who read inside it: the names it has told are gone from
`todo` while the histories are still in `store`.  `Pushed` says what one frame adds
to each of these measures of a stack; `Moved` and `Returned` carry them through a
step that changes the top, `RoundCalls` and `RoundNews` through one that starts a
round, and there is one lemma for each action.  Assumed are `SettingsConstants`
and `SettingsWiring` (an index observes the date and the notifier of its name, a
client its index, and neither opts out of being told later when it is busy).

`BindingsProofs` also proves, for any threads, contexts and registrations,
`TypeCorrect`, `DeletesCorrect`, `CallbacksCorrect` and `BorrowsCorrect`.  Its
invariant adds `CallShape` (the latch keeps a thread to one entry point with at
most one callback or release above it), `Borrowing` (a context has one owner,
and the calls on it are that owner's) and `Books` (what Go and the library each
believe of a registration: offered once, adopted once, owned by one frame or one
table).  Then every owner of a registration is in one place, and the count of
deletions follows from where it is.

`CashFlowProofs` proves fourteen things of dates, and for any calendar, any overrides
and any schedule.  `OverridesEffective`: what users add and remove in any order is never
without effect; the invariant is inductive as it stands.
`RollingKeepsDatesInOrder`: Following, Preceding and Unadjusted keep the order of
any two dates and leave business days alone.  It rests on `NextIsFirst` and
`PreviousIsLast`, that the loops of `adjust` stop at the nearest business day,
and assumes of the two dates what the loops need to end (`Rollable`).
`CalendarsAgree`: `CalendarAnswersAgree` of every calendar, whatever users have made
of its days.  That `added` stays within the dates users edit is the invariant; all
else follows from the open days, which nobody closes.  A modified convention that
turns at an end of month, or in the middle of one, finds a business day on the
other side (`RollsStay`), and two neighbouring dates never cross, although one may
turn and the other not: `ModifiedFollowingOrder`, `ModifiedPrecedingOrder`,
`NearestOrder`.  These rest on the arithmetic of dates over the whole range of
the type: a serial number lies in the month `month` finds (`YearIs`, `DateIs`) and
dates between two of a month, or of its half, are of it (`BetweenIsSameMonth`,
`BetweenIsSameHalf`).  The same arithmetic gives `SerialNumbersNameDates`, that
serial numbers and dates are the same thing over the whole range, and
`MonthsKeepOrder`, that adding months lands in the month it names and keeps the
order of dates although it clamps them to the ends of months: a step of one day
either stays in its month or reaches the first of the next (`NextDay`), and months
counted from year 0 are in the order of their dates (`MonthsOrderDates`).
`SampleDatesAssumption`, which the second needs, has the months added lead to dates
of the type.  Counting inverts advancing because both walk a `Chain` of
business days with none between, as `AdvanceDays` does on (`WalkOnIsChain`) and back
(`WalkBackIsChain`).  Assumed is `OpenDaysAssumption`, of the sample dates: there are
open days in reach of the dates around, as the loops of `adjust` need to end, and
one in the half of the month, without which the modified conventions do leave it.
`DatesAlwaysFollowRules`: `DatesFollowRules`, of which these two are the first parts
and three more theorems the others.  `PeriodsKeepOrder`: wherever
`Period::partial_cmp` decides, the dates the periods lead to agree with it, for any
periods that stay within the type (`SamplePeriodsAssumption`).  It compares the
bounds of `days_min_max`, and from any date a period leads as far as they say
(`PeriodSpans`): a month on is 28 to 31 days, a year 365 or 366, although the day is
clamped to the month it lands in (`NextMonth`, `NextYear`), hence any number of
either (`MonthsSpan`, `YearsSpan`).  `ImmCodesName`: `next_imm_date` finds the first
third Wednesday of its cycle after a date and none earlier, and the code of what it
finds names it from that date and from nine years before.  A month has one third
Wednesday, and it is the only date that passes `is_imm_date` (`ThirdIs`,
`ImmDateIsThird`), so the search is one over months (`FromIs`, `NextIs`, with the
restart on the twenty-second); the one digit of the year in the code means the right
year or ten years less (`DigitNames`), and in that case the date is past
(`CodeNames`).  `EasterFollowsComputus`: both tables are the computus in each of their
299 years.  Easter falls on a day of spring, whose number in the year is known but
for the leap day (`DayOfSpring`); what is left is arithmetic on the year, which the
SMT solver evaluates against the table (`WesternTable`, `OrthodoxTable`).
`BuiltHasOneFlagPerPeriod`: whatever it is asked for, and whatever the calendar,
`Schedule::new` leaves one flag per period.  Each push adds a date and a flag or
neither (`Continues`), so the loop over the tenors does too (`FindsContinue`: were
there a first tenor after which it does not, it would be the one before), the
reversal keeps them (`ReversedMatches`), and what a collapse drops is one of each
(`CollapseLastMatches`, `CollapseFirstMatches`).  Assumed are
`SpecificationsAssumption`, what the arguments are, with terms as far from the ends
of the type as the sample dates (`InnerDates`), and `MaxPeriodsAssumption`.
`StubsStayIrregular`: `StubsAreNotRegular` of whatever is asked for.  Two dates of
the loop are one tenor apart counted from one of them, although each is counted
from the seed: adding months clamps the day to the month it lands in, and of two
neighbours the one in the longer month keeps more of it (`ConsecutiveTenors`,
`OnDayClamps`); no date that is not beyond the exit is out of the type
(`NotBeyondIsInType`), where clamping would lose the day.  So a generation never
finds a date twice nor flags what is not a tenor (`TenorsFlagged`), through pushes
(`PushDistinctKeepsFlags`), the loop (`FindsKeepFlags`) and the reversal
(`ReversedKeepsFlags`).  A collapse makes one period of two and would flag it if
its dates had met; where nothing rolls they only pass each other, which
`TenorsKept` carries from the first collapse to the second.
`TermStaysCovered`: `TermIsCovered` of whatever is asked for, under any overrides.
Neither rolling (`RolledEnds`) nor a collapse (`KeepsEnds`) changes which dates are
at the ends, so the ends of a schedule are those of its generation, rolled
(`BuiltEnds`).  On the twentieths these are at most three months from the term, on
its near side (`PreviousTwentiethIs`, `NextTwentiethIs`: twentieths of one month
after another are 28 to 31 days apart).  A first date that would roll past the
effective date is a quarter earlier instead, and no roll leads so far
(`StartCovers`); the last date is not before the termination, and each convention
keeps the order of all dates between the two (`RollsKeepOrder`, from the neighbours
of `CalendarsAgree`) and leaves what it has rolled (`RolledStays`), so it still is
not once both are rolled (`EndCovers`).  Assumed is `TermsAssumption`: around the
ends of the terms, as far as `HalfYear`, there are open days as around the sample
dates.
`CutsKeepOneFlagPerPeriod`: `Schedule::after` and `until` keep the flags one per
period, wherever the search ends and whatever the order of the dates
(`WithoutFirstIs`, `UntilIs`).  `CutsLoseNothing`: `HalvesMakeTheWhole` of whatever
was generated, however often it has been cut.  Its invariant, `CutsInv`, is that
what was generated is `Flagged`: dates, with one flag per period.  Of dates in order
a cut finds how many are earlier and how many are the date itself
(`LowerBoundCuts`, by `InOrder` and `SmallerComeFirst`) and finds it at one place
(`SearchesEndOnce`); what it leaves are parts of the sequences
(`Cuts`, `PartsOf`), in order again (`CutsKeep`), and the parts make the whole
(`HalvesOf`, `Glued`).
That `Schedule::new` builds one flag per period is proved (`NewIsFlagged`); that
what it builds are dates at all is the theorem's hypothesis (`DatesWhenBuilt`):
no assumption keeps the stubs, or what rolls where no business day is open, within
the type.  The proof found that the property had to say more: where
end-of-month snapping makes two dates meet inside a schedule, which nothing
collapses, a cut at that date leaves the empty period on both sides.
`MCSchedule` cuts at such a date since.  Assumed is `CutDatesAssumption`: dates are
serial numbers.  Facts about all numbers up to a bound are proved from the least
counterexample (`LeastNumber`, `StepByStep`), which needs no induction scheme.

It also proves, on any grid, for any deals and any way of cutting rollbacks into
calls, `SwapCounts`, `ExercisesCorrect` and `ExercisesAreTaken`.
That the swap counts right (`CountsRight`) holds after every pass
(`PreKeepsCount`, `PostKeepsCount`), because a pass takes in exactly the coupons
whose time it is and that are its own (`PassTakesItsOwn`), but survives the step
to the next node only from a swap adjusted in full (`StepKeepsCount`).  The
inductive invariant `IInv` therefore adds who may be where and what is adjusted
by then (`ControlOK`): all of the swap, except where a loop has just brought it
to its destination.  For the exercises it adds that an option about to be
exercised finds a swap that is not yet post-adjusted, unless that was just
initialised (`OptionLeads`).  `ExercisesAreTaken` needs `TakenOnTheWay` beside it:
nobody leaves a node before it is marked.  `ExercisesCount` adds the engine: its
start and stop enclose every exercise (`ExercisesBetween`), and `EngineOnItsWay`
says what its one call to roll back has reached.  `TreeIsDiscounting` follows from
`CountsRight` at node 0: a coupon enters at or after today exactly when
discounting counts it.  Assumed are `GridAssumption` and `DealsAssumption`: a
coupon is paid after it begins and not after the last payment; exercises are on
the grid and sorted, and an American one has two dates, which the constructors of
`exercise.rs` see to.

Only model-checked:

* liveness everywhere (`ENABLED` and fairness are out of the prover's reach);
* of `Schedule` that what `Schedule::new` generates is in order
  (`SchedulesAreOrdered`); that cuts keep it so is proved (`CutsKeep`).

The type invariants of the modules whose runs do not list one are defined there and
may be checked by adding them to a configuration.

## 6. Plan

Modules, in order:

1. an instance of `PricingGraph` with an engine shared by two instruments;
2. handles with unregistered links (`Handle::new_unregistered`); the weak links
   of the helpers are `Bootstrap`'s `on`;
3. cash flows and legs over `Schedule`;
4. helpers shared by nested curves, additional dates of `GlobalBootstrap`;
5. the notification of derived quotes and of inflation indexes;
6. `Solver1D`'s bracketing as an operator checked against a definition.

Theorems:

1. `Schedule`: `SchedulesAreOrdered`;
2. `Bootstrap` without its layers: curves that share helpers.

## 7. Not modelled

* Numerics (mathematics, methods, models, processes, the engines' formulae,
  cash flows): floating point and no state beyond the lazy objects and
  forwarders modelled above.
* The holiday rules of the markets, day counters, ECB and ASX dates, and the
  parsing and printing of dates.
* Entry points of the C ABI, the Go wrappers around `invoke` and the Python
  classes: argument conversion around the boundary, the session and the core.
* Solvers and interpolators, which are oracles in `Bootstrap`; there a failure
  of either is possible wherever the code can return one.
