------------------------------ MODULE LazyState ------------------------------
(***************************************************************************)
(* The flags of a LazyObject (patterns/lazyobject.rs) and what each of its *)
(* methods does to them, as functions from the flags before to the flags   *)
(* after.  LazyObject, and every module with a lazy instrument or curve,   *)
(* builds its steps from these.                                            *)
(***************************************************************************)

Lazy == [calculated : BOOLEAN,      \* the results are taken to be valid
         frozen : BOOLEAN,          \* recalculation is suppressed
         failed : BOOLEAN,          \* the last calculation returned an error
         updating : BOOLEAN,        \* a notification of its observers is running
         alwaysForward : BOOLEAN]   \* forward every notification, or the first only

NewLazy(always) == [calculated |-> FALSE, frozen |-> FALSE, failed |-> FALSE,
                    updating |-> FALSE, alwaysForward |-> always]

\* Mutant: no recursion guard.
InvalidatesUnguarded(lz) == lz.calculated \/ lz.failed \/ lz.alwaysForward

\* deferred_update: the recursion guard, then "is there anything to tell".
Invalidates(lz) == ~lz.updating /\ (lz.calculated \/ lz.failed \/ lz.alwaysForward)

\* A frozen object forgets its results' validity but tells nobody.
Tells(lz) == Invalidates(lz) /\ ~lz.frozen

DeferredUpdate(lz) ==
    IF Invalidates(lz)
    THEN [lz EXCEPT !.calculated = FALSE, !.failed = FALSE, !.updating = Tells(lz)]
    ELSE lz

EndUpdate(lz) == [lz EXCEPT !.updating = FALSE]

MarkCalculated(lz) == [lz EXCEPT !.calculated = TRUE, !.failed = FALSE]
InvalidateSilently(lz) == [lz EXCEPT !.calculated = FALSE, !.failed = FALSE]

\* Mutant: freezing does not stop a calculation.
MustCalculateFrozen(lz) == ~lz.calculated

MustCalculate(lz) == ~lz.calculated /\ ~lz.frozen

\* Set before the computation, so that a nested request finds it set.
StartCalculation(lz) == [lz EXCEPT !.calculated = TRUE]

\* Mutant: a success marks the results valid again.
FinishOkLatches(lz) == [lz EXCEPT !.calculated = TRUE, !.failed = FALSE]

\* A success leaves "calculated" to a re-entrant invalidation.
FinishOk(lz) == [lz EXCEPT !.failed = FALSE]
FinishErr(lz) == [lz EXCEPT !.calculated = FALSE, !.failed = TRUE]

StartRecalculation(lz) ==
    [lz EXCEPT !.calculated = FALSE, !.frozen = FALSE, !.failed = FALSE]
FinishRecalculation(lz, wasFrozen) == [lz EXCEPT !.frozen = wasFrozen]

Freeze(lz) == [lz EXCEPT !.frozen = TRUE]
Unfreeze(lz) == [lz EXCEPT !.frozen = FALSE]
=============================================================================
