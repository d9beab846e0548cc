------------------------------ MODULE FfiContext ------------------------------
(***************************************************************************)
(* The C boundary (libitofin-ffi, boundary.rs) and the callbacks it adopts *)
(* (bootstrap_callbacks.rs, bootstrap_api.rs; sdk/go/bootstrap.go): native *)
(* contexts with their handle tables, the thread-local latch ACTIVE, and   *)
(* the release of callback registrations by their last owner.              *)
(*                                                                         *)
(* Each thread has a stack of active calls: an entry point (call, free),   *)
(* and above it the foreign code it runs (callback, release), which may    *)
(* call entry points again.  A registration stands for the userdata of a   *)
(* set of callbacks, in Go a cgo.Handle, which must be deleted once.       *)
(*                                                                         *)
(* A refused call (wrong thread, poisoned, inside a callback, unknown      *)
(* handle) returns an error code and changes nothing: it is no step.       *)
(***************************************************************************)
EXTENDS Naturals, Sequences, FiniteSets

CONSTANTS
    Threads,
    Contexts,
    Registrations,
    LastHandle       \* the largest value of the handle counter

ASSUME FfiConstants == LastHandle \in Nat \ {0}

VARIABLES
    state,       \* state[c]: "none", "live", "poisoned" or "freed"
    owner,       \* owner[c]: the threads that may use c, one once it exists
    objects,     \* objects[c]: the handle table, the set of objects in it
    nextHandle,  \* NEXT_HANDLE
    active,      \* active[t]: ACTIVE
    stack,       \* stack[t]: the active calls of a thread, outermost first
    opened,      \* registrations Go has made
    adopted,     \* registrations whose "adopted" Go sees true
    deletes      \* deletes[r]: how often r was deleted, by Go or by release

vars == <<state, owner, objects, nextHandle, active, stack, opened, adopted, deletes>>
tables == <<state, owner, objects, nextHandle>>

\* An object in a handle table, with the registrations it keeps alive.
Object == [id : 1..LastHandle, keeps : SUBSET Registrations]

\* A call owns what it has built or removed until it drops it.
Frame == [op : {"call"}, ctx : Contexts, offer : SUBSET Registrations, owns : SUBSET Registrations,
          stage : {"entered", "making", "ending", "panicking"}]
    \cup [op : {"free"}, ctx : Contexts, owns : SUBSET Registrations]
    \cup [op : {"callback"}, reg : Registrations]
    \cup [op : {"release"}, reg : Registrations, was : BOOLEAN]

Entered(c, offer) ==
    [op |-> "call", ctx |-> c, offer |-> offer, owns |-> {}, stage |-> "entered"]

Top(t) == stack[t][Len(stack[t])]
Below(t) == SubSeq(stack[t], 1, Len(stack[t]) - 1)
TopIs(t, ops) == stack[t] # <<>> /\ Top(t).op \in ops
AtStage(t, stages) == TopIs(t, {"call"}) /\ Top(t).stage \in stages

Push(t, frame) == stack' = [stack EXCEPT ![t] = Append(@, frame)]
Pop(t) == stack' = [stack EXCEPT ![t] = Below(t)]
Becomes(t, frame) == stack' = [stack EXCEPT ![t] = Append(Below(t), frame)]

\* Foreign code runs: outside the library, in a callback or in a release.
ForeignRuns(t) == stack[t] = <<>> \/ TopIs(t, {"callback", "release"})

KeptIn(c) == UNION {o.keeps : o \in objects[c]}
OwnedBy(frame) == IF frame.op \in {"call", "free"} THEN frame.owns ELSE {}
Owned(r) ==
    \/ \E c \in Contexts : r \in KeptIn(c)
    \/ \E t \in Threads : \E i \in DOMAIN stack[t] : r \in OwnedBy(stack[t][i])

-----------------------------------------------------------------------------
Init ==
    /\ state = [c \in Contexts |-> "none"]
    /\ owner = [c \in Contexts |-> {}]
    /\ objects = [c \in Contexts |-> {}]
    /\ nextHandle = 1
    /\ active = [t \in Threads |-> FALSE]
    /\ stack = [t \in Threads |-> <<>>]
    /\ opened = {}
    /\ adopted = {}
    /\ deletes = [r \in Registrations |-> 0]

(* itofin_context_new asks for no latch: a callback may make a context.      *)
ContextNew(t, c) ==
    /\ ForeignRuns(t)
    /\ state[c] = "none"
    /\ state' = [state EXCEPT ![c] = "live"]
    /\ owner' = [owner EXCEPT ![c] = {t}]
    /\ UNCHANGED <<objects, nextHandle, active, stack, opened, adopted, deletes>>

\* ensure_not_active, then Context::check; that a freed context is not used is
\* the caller's contract.
MayEnter(t, c) == ~active[t] /\ t \in owner[c] /\ state[c] = "live"

(* with_context: an entry point begins, one that builds a curve with a       *)
(* registration just made on offer.                                          *)
Enter(t, c) ==
    /\ ForeignRuns(t)
    /\ MayEnter(t, c)
    /\ \E offer \in {{}} \cup {{r} : r \in Registrations \ opened} :
         /\ Push(t, Entered(c, offer))
         /\ opened' = opened \cup offer
    /\ UNCHANGED <<tables, active, adopted, deletes>>

(* The entry point refuses: "adopted" is false and Go deletes its handle.    *)
OfferRefused(t, c, r) ==
    /\ ForeignRuns(t)
    /\ state[c] \in {"live", "poisoned"}
    /\ ~MayEnter(t, c)
    /\ r \notin opened
    /\ opened' = opened \cup {r}
    /\ deletes' = [deletes EXCEPT ![r] = @ + 1]
    /\ UNCHANGED <<tables, active, stack, adopted>>

-----------------------------------------------------------------------------
\* Mutant: "adopted" is written with the handle, once all has gone well.
AdoptLate(t) ==
    /\ AtStage(t, {"entered"})
    /\ Top(t).offer # {}
    /\ Becomes(t, [Top(t) EXCEPT !.stage = "making", !.owns = Top(t).offer])
    /\ UNCHANGED <<tables, active, opened, adopted, deletes>>

(* itofin_global_curve_new: "adopted" is written before anything can fail    *)
(* that would drop the callbacks.                                            *)
Adopt(t) ==
    /\ AtStage(t, {"entered"})
    /\ Top(t).offer # {}
    /\ Becomes(t, [Top(t) EXCEPT !.stage = "making", !.owns = Top(t).offer])
    /\ adopted' = adopted \cup Top(t).offer
    /\ UNCHANGED <<tables, active, opened, deletes>>

(* Any other constructor: the new object shares what its arguments keep.     *)
Derive(t) ==
    /\ AtStage(t, {"entered"})
    /\ Top(t).offer = {}
    /\ \E from \in SUBSET objects[Top(t).ctx] :
         Becomes(t, [Top(t) EXCEPT !.stage = "making", !.owns = UNION {o.keeps : o \in from}])
    /\ UNCHANGED <<tables, active, opened, adopted, deletes>>

(* Context::insert: the last value of the counter is never given out.        *)
Insert(t) ==
    /\ AtStage(t, {"making"})
    /\ nextHandle < LastHandle
    /\ LET c == Top(t).ctx IN
         objects' = [objects EXCEPT ![c] = @ \cup {[id |-> nextHandle, keeps |-> Top(t).owns]}]
    /\ nextHandle' = nextHandle + 1
    /\ Becomes(t, [Top(t) EXCEPT !.stage = "ending", !.owns = {}])
    /\ UNCHANGED <<state, owner, active, opened, adopted, deletes>>

(* The construction fails, also for want of a handle: what it owns is dropped.*)
Fail(t) ==
    /\ AtStage(t, {"making"})
    /\ Becomes(t, [Top(t) EXCEPT !.stage = "ending"])
    /\ UNCHANGED <<tables, active, opened, adopted, deletes>>

(* itofin_handle_release: the object leaves the table and is dropped.        *)
HandleRelease(t) ==
    /\ AtStage(t, {"entered"})
    /\ Top(t).offer = {}
    /\ LET c == Top(t).ctx IN
         \E o \in objects[c] :
           /\ objects' = [objects EXCEPT ![c] = @ \ {o}]
           /\ Becomes(t, [Top(t) EXCEPT !.stage = "ending", !.owns = o.keeps])
    /\ UNCHANGED <<state, owner, nextHandle, active, opened, adopted, deletes>>

(* A panic in the library: unwinding drops what the call owns first.         *)
Panic(t) ==
    /\ AtStage(t, {"entered", "making"})
    /\ Becomes(t, [Top(t) EXCEPT !.stage = "panicking"])
    /\ UNCHANGED <<tables, active, opened, adopted, deletes>>

(* The entry point returns, contained panic or not, and Go's deferred check  *)
(* deletes what was not adopted.                                             *)
Leave(t) ==
    /\ AtStage(t, {"entered", "ending", "panicking"})
    /\ Top(t).owns = {}
    /\ Pop(t)
    /\ state' = IF Top(t).stage = "panicking"
                THEN [state EXCEPT ![Top(t).ctx] = "poisoned"] ELSE state
    /\ deletes' = [r \in Registrations |->
                     IF r \in Top(t).offer \ adopted THEN deletes[r] + 1 ELSE deletes[r]]
    /\ UNCHANGED <<owner, objects, nextHandle, active, opened, adopted>>

(* itofin_context_free, of a poisoned context too.  That the owner calls it  *)
(* once is its contract (GoSession shows the Go session keeps it).           *)
ContextFree(t, c) ==
    /\ ForeignRuns(t)
    /\ ~active[t]
    /\ t \in owner[c] /\ state[c] \in {"live", "poisoned"}
    /\ state' = [state EXCEPT ![c] = "freed"]
    /\ objects' = [objects EXCEPT ![c] = {}]
    /\ Push(t, [op |-> "free", ctx |-> c, owns |-> KeptIn(c)])
    /\ UNCHANGED <<owner, nextHandle, active, opened, adopted, deletes>>

ContextGone(t) ==
    /\ TopIs(t, {"free"})
    /\ Top(t).owns = {}
    /\ Pop(t)
    /\ UNCHANGED <<tables, active, opened, adopted, deletes>>

-----------------------------------------------------------------------------
Dropping(t) == AtStage(t, {"ending", "panicking"}) \/ TopIs(t, {"free"})

\* Other owners of r than the top frame of t.
OwnedElsewhere(t, r) ==
    \/ \E c \in Contexts : r \in KeptIn(c)
    \/ \E u \in Threads : \E i \in DOMAIN stack[u] :
         r \in OwnedBy(stack[u][i]) /\ ~(u = t /\ i = Len(stack[t]))

(* One of several owners goes.                                               *)
DropShared(t) ==
    /\ Dropping(t)
    /\ \E r \in Top(t).owns :
         /\ OwnedElsewhere(t, r)
         /\ Becomes(t, [Top(t) EXCEPT !.owns = @ \ {r}])
    /\ UNCHANGED <<tables, active, opened, adopted, deletes>>

\* Mutant: every owner that goes releases.
DropEvery(t) ==
    /\ Dropping(t)
    /\ \E r \in Top(t).owns :
         /\ stack' = [stack EXCEPT ![t] =
                        Below(t) \o <<[Top(t) EXCEPT !.owns = @ \ {r}],
                                      [op |-> "release", reg |-> r, was |-> active[t]]>>]
         /\ deletes' = [deletes EXCEPT ![r] = @ + 1]
    /\ active' = [active EXCEPT ![t] = TRUE]
    /\ UNCHANGED <<tables, opened, adopted>>

(* Drop of the last owner: release runs under the latch and, in Go, deletes  *)
(* the handle.                                                               *)
DropLast(t) ==
    /\ Dropping(t)
    /\ \E r \in Top(t).owns :
         /\ ~OwnedElsewhere(t, r)
         /\ stack' = [stack EXCEPT ![t] =
                        Below(t) \o <<[Top(t) EXCEPT !.owns = @ \ {r}],
                                      [op |-> "release", reg |-> r, was |-> active[t]]>>]
         /\ deletes' = [deletes EXCEPT ![r] = @ + 1]
    /\ active' = [active EXCEPT ![t] = TRUE]
    /\ UNCHANGED <<tables, opened, adopted>>

ReleaseReturns(t) ==
    /\ TopIs(t, {"release"})
    /\ active' = [active EXCEPT ![t] = Top(t).was]
    /\ Pop(t)
    /\ UNCHANGED <<tables, opened, adopted, deletes>>

\* Mutant: the latch is not set.
CallbackUnlatched(t) ==
    /\ AtStage(t, {"entered", "making"})
    /\ ~active[t]
    /\ \E r \in KeptIn(Top(t).ctx) \cup Top(t).owns :
         Push(t, [op |-> "callback", reg |-> r])
    /\ UNCHANGED <<tables, active, opened, adopted, deletes>>

(* Callbacks::call: a curve some object of the context keeps is bootstrapped.*)
Callback(t) ==
    /\ AtStage(t, {"entered", "making"})
    /\ ~active[t]
    /\ \E r \in KeptIn(Top(t).ctx) \cup Top(t).owns :
         Push(t, [op |-> "callback", reg |-> r])
    /\ active' = [active EXCEPT ![t] = TRUE]
    /\ UNCHANGED <<tables, opened, adopted, deletes>>

CallbackReturns(t) ==
    /\ TopIs(t, {"callback"})
    /\ active' = [active EXCEPT ![t] = FALSE]
    /\ Pop(t)
    /\ UNCHANGED <<tables, opened, adopted, deletes>>

-----------------------------------------------------------------------------
Inside(t) ==
    \/ Adopt(t) \/ Derive(t) \/ Insert(t) \/ Fail(t) \/ HandleRelease(t)
    \/ Panic(t) \/ Leave(t) \/ ContextGone(t)
    \/ DropShared(t) \/ DropLast(t) \/ ReleaseReturns(t)
    \/ Callback(t) \/ CallbackReturns(t)

Next ==
    \E t \in Threads :
        \/ Inside(t)
        \/ \E c \in Contexts :
             \/ ContextNew(t, c) \/ Enter(t, c) \/ ContextFree(t, c)
             \/ \E r \in Registrations : OfferRefused(t, c, r)

Spec == Init /\ [][Next]_vars

-----------------------------------------------------------------------------
TypeOK ==
    /\ state \in [Contexts -> {"none", "live", "poisoned", "freed"}]
    /\ owner \in [Contexts -> SUBSET Threads]
    /\ objects \in [Contexts -> SUBSET Object]
    /\ nextHandle \in 1..LastHandle
    /\ active \in [Threads -> BOOLEAN]
    /\ stack \in [Threads -> Seq(Frame)]
    /\ opened \subseteq Registrations
    /\ adopted \subseteq Registrations
    /\ deletes \in [Registrations -> Nat]

\* The call that was offered r has not returned, and has not adopted it.
OnOffer(r) ==
    /\ r \notin adopted
    /\ \E t \in Threads : \E i \in DOMAIN stack[t] :
         stack[t][i].op = "call" /\ r \in stack[t][i].offer

(* "The last native curve owner releases the callbacks", and Go those that   *)
(* were not adopted: whatever fails or panics, a registration is deleted     *)
(* once, and exactly when nobody is responsible for it any more.             *)
DeletedExactlyOnce ==
    \A r \in opened : deletes[r] = IF Owned(r) \/ OnOffer(r) THEN 0 ELSE 1

(* A callback never runs on a registration that was released.                *)
CallbacksAreAlive ==
    \A t \in Threads : \A i \in DOMAIN stack[t] :
        stack[t][i].op = "callback" => deletes[stack[t][i].reg] = 0

(* A context is borrowed mutably by one call at a time, of its owner thread, *)
(* whatever callbacks and releases call; nobody uses a freed one.            *)
Borrows(t, i, c) == stack[t][i].op \in {"call", "free"} /\ stack[t][i].ctx = c

ContextBorrowedOnce ==
    \A c \in Contexts, t, u \in Threads :
        \A i \in DOMAIN stack[t], j \in DOMAIN stack[u] :
            /\ Borrows(t, i, c) => t \in owner[c]
            /\ Borrows(t, i, c) /\ Borrows(u, j, c) => t = u /\ i = j
            /\ stack[t][i].op = "call" => state[stack[t][i].ctx] # "freed"
=============================================================================
