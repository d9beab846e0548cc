----------------------------- MODULE LazyObject -----------------------------
(***************************************************************************)
(* One LazyObject held behind a SharedMut (patterns/lazyobject.rs) and the *)
(* calls its holder makes: the notification of an input, calculate,        *)
(* recalculate, freeze and unfreeze, mark_calculated, invalidate_silently. *)
(*                                                                         *)
(* No borrow is held while observers or the computation run, so either may *)
(* call back into the object: the stack of active calls is a variable, and *)
(* so is the kind of foreign code the object meets, which never changes.   *)
(* A version number stands for the inputs and for the results computed     *)
(* from them.                                                              *)
(***************************************************************************)
EXTENDS LazyState, Naturals, Sequences

CONSTANTS
    Policies,        \* the notification policies to explore: always forward or not
    ForeignCode,     \* the kinds of foreign code to explore: what observers do
                     \* while they are notified, what the computation does to the
                     \* object it computes for, and whether observers may panic
    HolderOps,       \* what the holder does with no call active
    MaxInput,        \* bound: versions of the inputs
    MaxDepth         \* bound: nested calls

Ops == {"change", "read", "recalculate", "freeze", "unfreeze", "mark", "invalidate"}

ASSUME LazyConstants ==
    /\ Policies \subseteq BOOLEAN
    /\ ForeignCode \subseteq [observer : SUBSET Ops, perform : SUBSET Ops, panics : BOOLEAN]
    /\ HolderOps \subseteq Ops
    /\ MaxInput \in Nat \ {0}
    /\ MaxDepth \in Nat

VARIABLES
    lazy,       \* the flags
    input,      \* version of the inputs
    result,     \* version the stored results were computed from, 0 when none
    stack,      \* active calls on the object, outermost first
    lastRead,   \* history: version a reader got since it was last notified, 0 none
    foreign     \* the kind of foreign code this object meets

vars == <<lazy, input, result, stack, lastRead, foreign>>

Versions == 1..MaxInput

\* "update" lives as long as a DeferredUpdate; "notify" is a notification
\* outside any; "perform" is the caller's computation, "read" the version it
\* has read, and "again" whether recalculate runs it.
Frame == [op : {"update", "notify"}]
    \cup [op : {"perform"}, read : 0..MaxInput, again : BOOLEAN, wasFrozen : BOOLEAN]

Notifying == [op |-> "notify"]
Updating == [op |-> "update"]
Performing(again, wasFrozen) ==
    [op |-> "perform", read |-> 0, again |-> again, wasFrozen |-> wasFrozen]

Top == stack[Len(stack)]
Below == SubSeq(stack, 1, Len(stack) - 1)
TopIs(ops) == stack # <<>> /\ Top.op \in ops

Computing == \E i \in DOMAIN stack : stack[i].op = "perform"

\* Foreign code runs on top of the stack and wants to call op.
Calls(op) ==
    /\ Len(stack) < MaxDepth
    /\ \/ stack = <<>> /\ op \in HolderOps
       \/ TopIs({"update", "notify"}) /\ op \in foreign.observer
       \/ TopIs({"perform"}) /\ op \in foreign.perform

\* A nested read during the computation sees what the computation left so
\* far; only readers outside it hold an answer.
ReaderGets(version) == lastRead' = IF Computing THEN lastRead ELSE version

-----------------------------------------------------------------------------
Init ==
    /\ lazy \in {NewLazy(always) : always \in Policies}
    /\ input = 1
    /\ result = 0
    /\ stack = <<>>
    /\ lastRead = 0
    /\ foreign \in ForeignCode

(* An input changes and notifies the object: deferred_update, then the       *)
(* observers run under its guard.                                            *)
ChangeInput ==
    /\ Calls("change")
    /\ input < MaxInput
    /\ input' = input + 1
    /\ lazy' = DeferredUpdate(lazy)
    /\ stack' = IF Tells(lazy) THEN Append(stack, Updating) ELSE stack
    /\ lastRead' = IF Tells(lazy) THEN 0 ELSE lastRead
    /\ UNCHANGED result

(* The observers have run: DeferredUpdate is dropped, or a plain             *)
(* notification ends.                                                        *)
EndUpdating ==
    /\ TopIs({"update"})
    /\ lazy' = EndUpdate(lazy)
    /\ stack' = Below
    /\ UNCHANGED <<input, result, lastRead>>

EndNotifying ==
    /\ TopIs({"notify"})
    /\ stack' = Below
    /\ UNCHANGED <<lazy, input, result, lastRead>>

(* calculate: answered from the cache, or by a computation.                  *)
ReadCached ==
    /\ Calls("read")
    /\ ~MustCalculate(lazy)
    /\ ReaderGets(result)
    /\ UNCHANGED <<lazy, input, result, stack>>

Calculate ==
    /\ Calls("read")
    /\ MustCalculate(lazy)
    /\ lazy' = StartCalculation(lazy)
    /\ stack' = Append(stack, Performing(FALSE, FALSE))
    /\ UNCHANGED <<input, result, lastRead>>

Recalculate ==
    /\ Calls("recalculate")
    /\ lazy' = StartCalculation(StartRecalculation(lazy))
    /\ stack' = Append(stack, Performing(TRUE, lazy.frozen))
    /\ UNCHANGED <<input, result, lastRead>>

(* The computation reads its inputs once, at any point of its run.           *)
PerformReads ==
    /\ TopIs({"perform"})
    /\ Top.read = 0
    /\ stack' = Append(Below, [Top EXCEPT !.read = input])
    /\ UNCHANGED <<lazy, input, result, lastRead>>

\* The calculation is over with flags lz and results res.  A recalculation
\* thaws back and notifies, whatever the outcome; a read gets the answer.
Finish(lz, res, answer) ==
    /\ result' = res
    /\ IF Top.again
       THEN /\ lazy' = FinishRecalculation(lz, Top.wasFrozen)
            /\ stack' = Append(Below, Notifying)
            /\ lastRead' = 0
       ELSE /\ lazy' = lz
            /\ stack' = Below
            /\ lastRead' = IF \E i \in DOMAIN Below : Below[i].op = "perform"
                           THEN lastRead ELSE answer
    /\ UNCHANGED input

PerformOk ==
    /\ TopIs({"perform"})
    /\ Top.read # 0
    /\ Finish(FinishOk(lazy), Top.read, Top.read)

PerformErr ==
    /\ TopIs({"perform"})
    /\ Finish(FinishErr(lazy), result, 0)

(* An observer panics and the panic is caught outside every active call:     *)
(* DeferredUpdate's drop runs.  (A panic of the computation is not modelled: *)
(* it leaves "calculated" set over what was there before.)                   *)
Panic ==
    /\ foreign.panics
    /\ stack # <<>> /\ ~Computing
    /\ stack' = <<>>
    /\ lazy' = IF \E i \in DOMAIN stack : stack[i].op = "update"
               THEN EndUpdate(lazy) ELSE lazy
    /\ UNCHANGED <<input, result, lastRead>>

-----------------------------------------------------------------------------
FreezeResults ==
    /\ Calls("freeze")
    /\ lazy' = Freeze(lazy)
    /\ UNCHANGED <<input, result, stack, lastRead>>

\* Mutant: unfreezing tells nobody.
UnfreezeSilently ==
    /\ Calls("unfreeze")
    /\ lazy' = Unfreeze(lazy)
    /\ UNCHANGED <<stack, input, result, lastRead>>

UnfreezeResults ==
    /\ Calls("unfreeze")
    /\ lazy' = Unfreeze(lazy)
    /\ stack' = IF lazy.frozen THEN Append(stack, Notifying) ELSE stack
    /\ lastRead' = IF lazy.frozen THEN 0 ELSE lastRead
    /\ UNCHANGED <<input, result>>

(* The holder stores results it got another way (an expired instrument, a    *)
(* multicurve solved at once) and marks them valid, frozen or not.           *)
StoreResults ==
    /\ Calls("mark")
    /\ lazy' = MarkCalculated(lazy)
    /\ result' = input
    /\ UNCHANGED <<input, stack, lastRead>>

(* invalidate_silently: its callers all forward every notification.          *)
Invalidate ==
    /\ Calls("invalidate")
    /\ lazy.alwaysForward
    /\ lazy' = InvalidateSilently(lazy)
    /\ UNCHANGED <<input, result, stack, lastRead>>

Step ==
    \/ ChangeInput \/ EndUpdating \/ EndNotifying
    \/ ReadCached \/ Calculate \/ Recalculate
    \/ PerformReads \/ PerformOk \/ PerformErr \/ Panic
    \/ FreezeResults \/ UnfreezeResults \/ StoreResults \/ Invalidate

Next == Step /\ UNCHANGED foreign

Spec == Init /\ [][Next]_vars

-----------------------------------------------------------------------------
TypeOK ==
    /\ lazy \in Lazy
    /\ input \in Versions
    /\ result \in 0..MaxInput
    /\ stack \in Seq(Frame)
    /\ lastRead \in 0..MaxInput
    /\ foreign \in ForeignCode

(* is_calculated: the cached results are valid.  Between calls, an object    *)
(* that says so holds the results of the present inputs, frozen or not.      *)
CalculatedIsCurrent == stack = <<>> /\ lazy.calculated => result = input

(* The updating_ guard is set exactly while observers run under it, also     *)
(* after a panic: it never latches, and never opens early.                   *)
GuardMatchesCalls ==
    /\ lazy.updating <=> \E i \in DOMAIN stack : stack[i].op = "update"
    /\ \A i, j \in DOMAIN stack :
         stack[i].op = "update" /\ stack[j].op = "update" => i = j

\* Foreign code changes inputs of the object it is told about, or computes for.
WritesWithin == "change" \in foreign.observer \cup foreign.perform

(* What is pinned stays: results change under a frozen object only when the  *)
(* holder stores them.  (A computation that was running when an observer it  *)
(* made the object tell froze it does finish.)                               *)
FrozenResultsStay ==
    [][lazy.frozen /\ ~WritesWithin /\ result' # result => StoreResults]_vars

(* Readers are served as CachedValue promises: whoever holds an answer that  *)
(* a change made stale has been told, and is answered anew from the present  *)
(* inputs.  Nothing is promised of frozen results, nor to foreign code that  *)
(* itself invalidates what it is being told or asked to compute.             *)
Unpromised ==
    \/ WritesWithin
    \/ lazy.frozen
    \/ \E i \in DOMAIN stack : stack[i].op = "perform" /\ stack[i].wasFrozen

Promise == INSTANCE CachedValue WITH answer <- lastRead, pinned <- Unpromised

ServesAsPromised == Promise!Spec

(* What the code asks of foreign code, without saying so: who changes an     *)
(* input from within a notification or a computation does not also read the  *)
(* object there, recompute it or store its results; and a computation does   *)
(* not freeze, unfreeze or recompute what it computes.                       *)
Disciplined ==
    \A fc \in ForeignCode :
        LET within == fc.observer \cup fc.perform
        IN  IF "change" \in within
            THEN within \cap {"read", "recalculate", "mark"} = {}
            ELSE fc.perform \cap {"freeze", "unfreeze", "recalculate"} = {}
=============================================================================
