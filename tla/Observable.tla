------------------------------ MODULE Observable ------------------------------
(***************************************************************************)
(* The notification engine of patterns/observable.rs: registries of weak  *)
(* observers, notify_observers with its snapshot, the thread-local DEPTH,  *)
(* DRAINING and PENDING, drain_pending, and deliver.                       *)
(*                                                                         *)
(* There is one thread.  What interleaves is the call stack: an update()   *)
(* runs inside a notification, may run any client code, and that code may  *)
(* notify, register, unregister or drop again.  The stack is therefore a   *)
(* variable, one frame for each active call, and only its top moves.       *)
(*                                                                         *)
(* Abstraction: a registry, a snapshot and the pending list are sets, so   *)
(* every order of delivery is explored instead of the registration order.  *)
(***************************************************************************)
EXTENDS Naturals, Sequences, FiniteSets

CONSTANTS
    Subjects,      \* the Observable values of the graph
    Observers,     \* the observers of the graph
    Clients,       \* those whose update() is client code
    Forwarders,    \* those that are a ResetThenNotify: no user code of their own
    Target,        \* Target[f]: the Subject f broadcasts through (Broadcast), or
                   \* the observer it hands on to (Deliver)
    Discarding,    \* those whose defer_reentrant_update() returns false
    Holdable,      \* those a caller may keep borrowed across a notification
    Droppable,     \* those whose last strong reference a client may drop
    Registrable,   \* those client code registers and unregisters itself
    Wiring,        \* Wiring[s]: the observers registered with s at the start
    MaxNotify,     \* bound: notifications started by client code
    MaxEdits       \* bound: registrations, unregistrations, drops and holds

ASSUME ConstantsAssumption ==
    /\ Clients \subseteq Observers
    /\ Forwarders \subseteq Observers \ Clients
    /\ Discarding \subseteq Observers
    /\ Holdable \subseteq Observers
    /\ Droppable \subseteq Observers
    /\ Registrable \subseteq Observers
    /\ Target \in [Forwarders -> Subjects \cup Observers]
    /\ Wiring \in [Subjects -> SUBSET Observers]
    /\ MaxNotify \in Nat
    /\ MaxEdits \in Nat

VARIABLES
    registry,      \* registry[s]: the ObserverEntry set of subject s
    stack,         \* the active calls, outermost first
    depth,         \* DEPTH
    draining,      \* DRAINING
    pending,       \* PENDING
    held,          \* observers borrowed by code outside any update
    dropped,       \* observers no client holds a strong reference to
    owed,          \* history: in a snapshot, not updated (or discarded) since
    notifies, edits \* how much of the two bounds is used

engineVars == <<registry, stack, depth, draining, pending, held, dropped>>
vars == <<registry, stack, depth, draining, pending, held, dropped, owed,
          notifies, edits>>

Entry == [observer : Observers, defer : BOOLEAN]

\* A frame of notify_observers, of an update(), or of drain_pending.
Frame == [op : {"notify"}, todo : SUBSET Entry]
    \cup [op : {"update"}, who : Observers, sent : BOOLEAN]
    \cup [op : {"drain"}, batch : SUBSET Observers, stalled : SUBSET Observers]

NotifyFrame(snapshot) == [op |-> "notify", todo |-> snapshot]
UpdateFrame(v) == [op |-> "update", who |-> v, sent |-> FALSE]
DrainFrame == [op |-> "drain", batch |-> {}, stalled |-> {}]

-----------------------------------------------------------------------------
Top == stack[Len(stack)]
Below == SubSeq(stack, 1, Len(stack) - 1)

TopIs(op) == stack # <<>> /\ Top.op = op
ReplaceTop(frame) == Append(Below, frame)

OnStack(v) == \E i \in DOMAIN stack : stack[i].op = "update" /\ stack[i].who = v

\* try_borrow_mut fails: v's update is running, or a caller holds it.
Busy(v) == v \in held \/ OnStack(v)

\* A running round's snapshot and a running update hold strong references.
InSnapshot(v) ==
    \E i \in DOMAIN stack :
        stack[i].op = "notify" /\ \E e \in stack[i].todo : e.observer = v

Live(v) == v \notin dropped \/ InSnapshot(v) \/ OnStack(v)

Pruned(entries) == {e \in entries : Live(e.observer)}

\* The policy is read when the entry is made; a busy observer cannot be asked.
NewEntry(v) == [observer |-> v, defer |-> (Busy(v) \/ v \notin Discarding)]

\* User code runs at top level and inside the update of a client's observer.
ClientRuns ==
    \/ stack = <<>>
    \/ TopIs("update") /\ Top.who \in Clients

-----------------------------------------------------------------------------
\* Nothing runs, and the observers of each subject are those in wiring.
QuietWith(wiring) ==
    /\ registry = [s \in Subjects |->
                     {[observer |-> v, defer |-> v \notin Discarding] : v \in wiring[s]}]
    /\ stack = <<>>
    /\ depth = 0
    /\ draining = FALSE
    /\ pending = {}
    /\ held = {}
    /\ dropped = {}
    /\ owed = {}
    /\ notifies = 0
    /\ edits = 0

Init == QuietWith(Wiring)

(* notify_observers on a subject whose registry is in entries: prune, take   *)
(* the snapshot, enter the depth guard.                                      *)
StartRound(entries, s, below) ==
    LET snapshot == Pruned(entries[s]) IN
    /\ registry' = [entries EXCEPT ![s] = snapshot]
    /\ stack' = Append(below, NotifyFrame(snapshot))
    /\ depth' = depth + 1
    /\ owed' = owed \cup {e.observer : e \in snapshot}

Notify(s) ==
    /\ ClientRuns
    /\ notifies < MaxNotify
    /\ StartRound(registry, s, stack)
    /\ notifies' = notifies + 1
    /\ UNCHANGED <<draining, pending, held, dropped, edits>>

\* Mutant: the observer's borrow is not tried first.
RoundUpdateUnchecked ==
    /\ TopIs("notify")
    /\ \E e \in Top.todo :
         /\ stack' = Append(ReplaceTop([Top EXCEPT !.todo = @ \ {e}]),
                            UpdateFrame(e.observer))
         /\ owed' = owed \ {e.observer}
    /\ UNCHANGED <<registry, depth, draining, pending, held, dropped, notifies, edits>>

(* One entry of a round whose observer can be borrowed: its update() runs.   *)
RoundUpdate ==
    /\ TopIs("notify")
    /\ \E e \in Top.todo :
         /\ ~Busy(e.observer)
         /\ stack' = Append(ReplaceTop([Top EXCEPT !.todo = @ \ {e}]),
                            UpdateFrame(e.observer))
         /\ owed' = owed \ {e.observer}
    /\ UNCHANGED <<registry, depth, draining, pending, held, dropped, notifies, edits>>

(* One entry whose observer is busy: queued, or dropped on its own policy.   *)
RoundDefer ==
    /\ TopIs("notify")
    /\ \E e \in Top.todo :
         /\ Busy(e.observer)
         /\ e.defer
         /\ stack' = ReplaceTop([Top EXCEPT !.todo = @ \ {e}])
         /\ pending' = pending \cup {e.observer}
    /\ UNCHANGED <<registry, depth, draining, held, dropped, owed, notifies, edits>>

RoundDiscard ==
    /\ TopIs("notify")
    /\ \E e \in Top.todo :
         /\ Busy(e.observer)
         /\ ~e.defer
         /\ stack' = ReplaceTop([Top EXCEPT !.todo = @ \ {e}])
         /\ owed' = owed \ {e.observer}
    /\ UNCHANGED <<registry, depth, draining, pending, held, dropped, notifies, edits>>

(* The round is over: leave the depth guard; the outermost one drains.       *)
RoundEnd ==
    /\ TopIs("notify")
    /\ Top.todo = {}
    /\ depth' = depth - 1
    /\ LET drains == depth' = 0 /\ ~draining IN
         /\ stack' = IF drains THEN ReplaceTop(DrainFrame) ELSE Below
         /\ draining' = (draining \/ drains)
    /\ UNCHANGED <<registry, pending, held, dropped, owed, notifies, edits>>

-----------------------------------------------------------------------------

\* Mutant: the list is copied and not emptied.
DrainTakeCopies ==
    /\ TopIs("drain")
    /\ Top.batch = {}
    /\ pending # {}
    /\ stack' = ReplaceTop([Top EXCEPT !.batch = pending])
    /\ UNCHANGED <<registry, depth, draining, pending, held, dropped, owed, notifies, edits>>

(* drain_pending takes the whole list, then delivers it one by one.          *)
DrainTake ==
    /\ TopIs("drain")
    /\ Top.batch = {}
    /\ pending # {}
    /\ stack' = ReplaceTop([Top EXCEPT !.batch = pending])
    /\ pending' = {}
    /\ UNCHANGED <<registry, depth, draining, held, dropped, owed, notifies, edits>>

DrainUpdate ==
    /\ TopIs("drain")
    /\ \E v \in Top.batch :
         /\ Live(v)
         /\ ~Busy(v)
         /\ stack' = Append(ReplaceTop([Top EXCEPT !.batch = @ \ {v}]), UpdateFrame(v))
         /\ owed' = owed \ {v}
    /\ UNCHANGED <<registry, depth, draining, pending, held, dropped, notifies, edits>>

(* A dead observer is skipped; a borrowed one is set aside for later.        *)
DrainSkip ==
    /\ TopIs("drain")
    /\ \E v \in Top.batch :
         /\ ~Live(v)
         /\ stack' = ReplaceTop([Top EXCEPT !.batch = @ \ {v}])
    /\ UNCHANGED <<registry, depth, draining, pending, held, dropped, owed, notifies, edits>>

\* Mutant: a borrowed observer goes back to the list being drained.
DrainStallSpins ==
    /\ TopIs("drain")
    /\ \E v \in Top.batch :
         /\ Live(v)
         /\ Busy(v)
         /\ stack' = ReplaceTop([Top EXCEPT !.batch = @ \ {v}])
         /\ pending' = pending \cup {v}
    /\ UNCHANGED <<registry, depth, draining, held, dropped, owed, notifies, edits>>

DrainStall ==
    /\ TopIs("drain")
    /\ \E v \in Top.batch :
         /\ Live(v)
         /\ Busy(v)
         /\ stack' = ReplaceTop([Top EXCEPT !.batch = @ \ {v}, !.stalled = @ \cup {v}])
    /\ UNCHANGED <<registry, depth, draining, pending, held, dropped, owed, notifies, edits>>

\* Mutant: the stalled observers are forgotten.
DrainEndForgets ==
    /\ TopIs("drain")
    /\ Top.batch = {}
    /\ pending = {}
    /\ stack' = Below
    /\ draining' = FALSE
    /\ UNCHANGED <<registry, depth, pending, held, dropped, owed, notifies, edits>>

DrainEnd ==
    /\ TopIs("drain")
    /\ Top.batch = {}
    /\ pending = {}
    /\ stack' = Below
    /\ draining' = FALSE
    /\ pending' = Top.stalled
    /\ UNCHANGED <<registry, depth, held, dropped, owed, notifies, edits>>

-----------------------------------------------------------------------------
(* ResetThenNotify::update, Target::Broadcast.                               *)
ForwardBroadcast ==
    /\ TopIs("update") /\ Top.who \in Forwarders /\ ~Top.sent
    /\ Target[Top.who] \in Subjects
    /\ StartRound(registry, Target[Top.who], ReplaceTop([Top EXCEPT !.sent = TRUE]))
    /\ UNCHANGED <<draining, pending, held, dropped, notifies, edits>>

(* ResetThenNotify::update, Target::Deliver: deliver() asks for no policy.   *)
ForwardDeliver ==
    /\ TopIs("update") /\ Top.who \in Forwarders /\ ~Top.sent
    /\ Target[Top.who] \in Observers
    /\ LET v == Target[Top.who]
           caller == ReplaceTop([Top EXCEPT !.sent = TRUE])
       IN IF Busy(v)
          THEN stack' = caller /\ pending' = pending \cup {v} /\ owed' = owed \cup {v}
          ELSE stack' = Append(caller, UpdateFrame(v)) /\ UNCHANGED pending
               /\ owed' = owed \ {v}
    /\ UNCHANGED <<registry, depth, draining, held, dropped, notifies, edits>>

Return ==
    /\ TopIs("update")
    /\ Top.who \in Clients \/ (Top.who \in Forwarders /\ Top.sent)
    /\ stack' = Below
    /\ UNCHANGED <<registry, depth, draining, pending, held, dropped, owed, notifies, edits>>

\* Mutant: DRAINING is reset by code after the loop, which a panic skips.
PanicLatches ==
    /\ TopIs("update") /\ Top.who \in Clients
    /\ edits < MaxEdits
    /\ stack' = <<>>
    /\ depth' = 0
    /\ owed' = owed \cap pending
    /\ edits' = edits + 1
    /\ UNCHANGED <<registry, draining, pending, held, dropped, notifies>>

(* A panic in an observer unwinds every frame; the guards reset DEPTH and    *)
(* DRAINING.  Snapshots and batches on the stack die with it.                *)
Panic ==
    /\ TopIs("update") /\ Top.who \in Clients
    /\ edits < MaxEdits
    /\ stack' = <<>>
    /\ depth' = 0
    /\ draining' = FALSE
    /\ owed' = owed \cap pending
    /\ edits' = edits + 1
    /\ UNCHANGED <<registry, pending, held, dropped, notifies>>

-----------------------------------------------------------------------------
Edit ==
    /\ ClientRuns
    /\ edits < MaxEdits
    /\ edits' = edits + 1

RegisterObserver(v, s) ==
    /\ Edit
    /\ v \notin dropped
    /\ LET kept == Pruned(registry[s]) IN
         registry' = [registry EXCEPT ![s] =
             IF \E e \in kept : e.observer = v THEN kept ELSE kept \cup {NewEntry(v)}]
    /\ UNCHANGED <<stack, depth, draining, pending, held, dropped, owed, notifies>>

UnregisterObserver(v, s) ==
    /\ Edit
    /\ v \notin dropped
    /\ registry' = [registry EXCEPT ![s] = {e \in Pruned(@) : e.observer # v}]
    /\ UNCHANGED <<stack, depth, draining, pending, held, dropped, owed, notifies>>

Drop(v) ==
    /\ Edit
    /\ v \in Droppable \ (dropped \cup held)
    /\ dropped' = dropped \cup {v}
    /\ UNCHANGED <<registry, stack, depth, draining, pending, held, owed, notifies>>

(* A caller keeps a borrow across its next calls; only code outside any      *)
(* update does (the case notify_observers documents).                        *)
Hold(v) ==
    /\ Edit /\ stack = <<>>
    /\ v \in Holdable \ (held \cup dropped)
    /\ held' = held \cup {v}
    /\ UNCHANGED <<registry, stack, depth, draining, pending, dropped, owed, notifies>>

Release(v) ==
    /\ stack = <<>>
    /\ v \in held
    /\ held' = held \ {v}
    /\ UNCHANGED <<registry, stack, depth, draining, pending, dropped, owed, notifies, edits>>

-----------------------------------------------------------------------------
Engine ==
    \/ RoundUpdate \/ RoundDefer \/ RoundDiscard \/ RoundEnd
    \/ DrainTake \/ DrainUpdate \/ DrainSkip \/ DrainStall \/ DrainEnd
    \/ ForwardBroadcast \/ ForwardDeliver \/ Return

Client ==
    \/ \E s \in Subjects : Notify(s)
    \/ \E v \in Registrable, s \in Subjects :
         RegisterObserver(v, s) \/ UnregisterObserver(v, s)
    \/ \E v \in Observers : Drop(v) \/ Hold(v) \/ Release(v)
    \/ Panic

Next == Engine \/ Client

Spec == Init /\ [][Next]_vars

\* The thread runs: a call that can take its next step takes it.
FairSpec == Spec /\ WF_vars(Engine)

-----------------------------------------------------------------------------
TypeOK ==
    /\ registry \in [Subjects -> SUBSET Entry]
    /\ stack \in Seq(Frame)
    /\ depth \in Nat
    /\ draining \in BOOLEAN
    /\ pending \in SUBSET Observers
    /\ held \in SUBSET Observers
    /\ dropped \in SUBSET Observers
    /\ owed \in SUBSET Observers
    /\ notifies \in 0..MaxNotify
    /\ edits \in 0..MaxEdits

(* The work v is still promised by some active call or by PENDING.           *)
Promised(v) ==
    \/ v \in pending
    \/ InSnapshot(v)
    \/ \E i \in DOMAIN stack :
         stack[i].op = "drain" /\ v \in stack[i].batch \cup stack[i].stalled

(* No notification is dropped (observable.rs, module comment): an observer   *)
(* that a round found and that has not run since is, once all calls have     *)
(* returned, still queued, unless it died meanwhile.                         *)
NoNotificationDropped ==
    stack = <<>> => owed \subseteq pending \cup dropped

(* The invariant behind it, at every depth of the stack.                     *)
OwedIsPromised == \A v \in owed : Promised(v) \/ v \in dropped

(* DEPTH counts the rounds on the stack, DRAINING says a drain is running    *)
(* and a drain is always the outermost call: so exactly one call drains, and *)
(* none is left to nobody, also after a panic.                               *)
Rounds == {i \in DOMAIN stack : stack[i].op = "notify"}

OutermostDrains ==
    /\ depth = Cardinality(Rounds)
    /\ draining <=> \E i \in DOMAIN stack : stack[i].op = "drain"
    /\ \A i \in DOMAIN stack : stack[i].op = "drain" => i = 1
    /\ stack # <<>> => stack[1].op # "update"

(* No observer is inside its own update twice: the second &mut that          *)
(* RefCell would refuse is never taken, through however many subjects.       *)
NoSecondBorrow ==
    \A i, j \in DOMAIN stack :
        /\ stack[i].op = "update" => stack[i].who \notin held
        /\ stack[i].op = "update" /\ stack[j].op = "update" /\ stack[i].who = stack[j].who
             => i = j

(* Every outermost call returns, whatever the observers do with a bounded    *)
(* number of notifications (a forwarder cycle would not).                    *)
NotificationTerminates == (stack # <<>>) ~> (stack = <<>>)
=============================================================================
