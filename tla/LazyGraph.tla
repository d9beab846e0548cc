------------------------------ MODULE LazyGraph ------------------------------
(***************************************************************************)
(* Lazy objects on the notification engine: the observer half every lazy   *)
(* object has (InstrumentBase's Updater, a piecewise curve's CurveUpdater) *)
(* and the DeferredUpdate that guards the notification it sends.           *)
(* PricingGraph and MultiCurve add what reads and what is read.            *)
(***************************************************************************)
EXTENDS Observable, LazyState

CONSTANTS
    Lazies,     \* the lazy objects, each named by its updater
    Own         \* Own[l]: the observable a lazy object notifies through

ASSUME LazyGraphConstants ==
    /\ Lazies \subseteq Observers \ (Clients \cup Forwarders)
    /\ Own \in [Lazies -> Subjects]

VARIABLES
    lazy,       \* lazy[l]: the flags of each lazy object
    guard,      \* guard[l]: depth of the notification a DeferredUpdate guards, 0 none
    answer      \* history: what a reader holds since l last notified

lazyVars == <<lazy, guard, answer>>

Answers == {"none", "current", "stale"}

Held(isFresh) == IF isFresh THEN "current" ELSE "stale"

LazyInit ==
    /\ lazy = [l \in Lazies |-> NewLazy(TRUE)]
    /\ guard = [l \in Lazies |-> 0]
    /\ answer = [l \in Lazies |-> "none"]

\* Mutant: a guard outlives its notification by one frame.
ReleaseLate(depthLeft) ==
    /\ lazy' = [l \in Lazies |->
                  IF guard[l] > depthLeft + 1 THEN EndUpdate(lazy[l]) ELSE lazy[l]]
    /\ guard' = [l \in Lazies |-> IF guard[l] > depthLeft + 1 THEN 0 ELSE guard[l]]

(* Whatever returns drops what it owned: a DeferredUpdate clears "updating". *)
ReleaseBelow(depthLeft) ==
    /\ lazy' = [l \in Lazies |->
                  IF guard[l] > depthLeft THEN EndUpdate(lazy[l]) ELSE lazy[l]]
    /\ guard' = [l \in Lazies |-> IF guard[l] > depthLeft THEN 0 ELSE guard[l]]

EngineStep ==
    /\ Engine
    /\ ReleaseBelow(Len(stack'))
    /\ UNCHANGED answer

(* Updater::update and CurveUpdater::update: deferred_update, then notify    *)
(* while its guard lives.                                                    *)
LazyHears ==
    /\ TopIs("update") /\ Top.who \in Lazies /\ ~Top.sent
    /\ LET l == Top.who
           caller == ReplaceTop([Top EXCEPT !.sent = TRUE])
       IN /\ lazy' = [lazy EXCEPT ![l] = DeferredUpdate(@)]
          /\ IF Tells(lazy[l])
             THEN /\ StartRound(registry, Own[l], caller)
                  /\ guard' = [guard EXCEPT ![l] = Len(stack')]
                  /\ answer' = [answer EXCEPT ![l] = "none"]
             ELSE /\ stack' = caller
                  /\ UNCHANGED <<registry, depth, owed, guard, answer>>
    /\ UNCHANGED <<draining, pending, held, dropped, notifies, edits>>

LazyReturns ==
    /\ TopIs("update") /\ Top.who \in Lazies /\ Top.sent
    /\ stack' = Below
    /\ UNCHANGED <<registry, depth, draining, pending, held, dropped, owed,
                   notifies, edits, lazyVars>>
=============================================================================
