------------------------------ MODULE GoSession ------------------------------
(***************************************************************************)
(* The Go SDK's Session (sdk/go/session.go) with the bootstrap callbacks   *)
(* of sdk/go/bootstrap_callbacks.go: each session has one worker goroutine *)
(* locked to an OS thread, which owns the native context and serves one    *)
(* request at a time; any goroutine may invoke or Close any session; a     *)
(* request may call back into user code, which runs on the worker and may  *)
(* itself call sessions.                                                   *)
(*                                                                         *)
(* One action for each operation on shared memory: the load of             *)
(* callbackActive, the RWMutex "gate" (a pending Lock blocks new readers), *)
(* the unbuffered queue, a request's done channel, the stopped channel.    *)
(***************************************************************************)
EXTENDS Naturals

CONSTANTS
    Sessions,      \* the sessions
    Goroutines,    \* the client goroutines
    Closers,       \* those that call Close
    Nobody,        \* not a session or goroutine
    MaxCalls,      \* bound: calls a goroutine, or a session's callbacks, begin
    MaxCallbacks   \* bound: callbacks run by a session's requests

ASSUME SessionConstants ==
    /\ Closers \subseteq Sessions \cup Goroutines
    /\ Sessions \cap Goroutines = {}
    /\ Nobody \notin Sessions \cup Goroutines
    /\ MaxCalls \in Nat
    /\ MaxCallbacks \in Nat

\* A session calls in its own name when its worker runs a callback.
Callers == Sessions \cup Goroutines

VARIABLES
    pc,            \* pc[c]: where caller c is in invoke or Close
    on,            \* on[c]: the session it calls
    closing,       \* closing[c]: the call is Close
    result,        \* result[c]: what its last call returned
    callbackActive, \* callbackActive[s]: a bootstrap callback runs
    readers,       \* readers[s]: callers holding gate.RLock
    writer,        \* writer[s]: the caller in gate.Lock, waiting or holding
    closed,        \* closed[s]
    closeErr,      \* closeErr[s]
    queueOpen,     \* queueOpen[s]: the queue is not closed
    worker,        \* worker[s]: what the worker goroutine does
    serving,       \* serving[s]: whose request it runs
    context,       \* context[s]: the native context
    calls,         \* calls[c]: calls begun
    callbacks,     \* callbacks[s]: callbacks begun
    clock, since   \* history: since[s] orders the starts of the callbacks

callerVars == <<pc, on, closing, result>>
gateVars == <<readers, writer>>
closeVars == <<closed, closeErr, queueOpen>>
workerVars == <<worker, serving, context, callbackActive>>
boundVars == <<calls, callbacks, clock, since>>
sessionVars == <<callerVars, gateVars, closeVars, workerVars, boundVars>>

CallPC == {"idle", "load", "enter", "locking", "admitted", "sending", "waiting",
           "replied", "stopping", "leaving"}
Results == {"none", "reentry", "closed", "ok", "error"}

-----------------------------------------------------------------------------
(* NewSession has returned: the context exists, the worker serves.           *)
SessionInit ==
    /\ pc = [c \in Callers |-> "idle"]
    /\ on = [c \in Callers |-> Nobody]
    /\ closing = [c \in Callers |-> FALSE]
    /\ result = [c \in Callers |-> "none"]
    /\ callbackActive = [s \in Sessions |-> FALSE]
    /\ readers = [s \in Sessions |-> {}]
    /\ writer = [s \in Sessions |-> Nobody]
    /\ closed = [s \in Sessions |-> FALSE]
    /\ closeErr = [s \in Sessions |-> "ok"]
    /\ queueOpen = [s \in Sessions |-> TRUE]
    /\ worker = [s \in Sessions |-> "serve"]
    /\ serving = [s \in Sessions |-> Nobody]
    /\ context = [s \in Sessions |-> "live"]
    /\ calls = [c \in Callers |-> 0]
    /\ callbacks = [s \in Sessions |-> 0]
    /\ clock = 0
    /\ since = [s \in Sessions |-> 0]

Go(c, next) == pc' = [pc EXCEPT ![c] = next]
Returns(c, r) == Go(c, "idle") /\ result' = [result EXCEPT ![c] = r]

(* A goroutine, or the user code of a running callback, begins a call.       *)
Begin(c, s, close) ==
    /\ pc[c] = "idle"
    /\ c \in Sessions => worker[c] = "callback"
    /\ close => c \in Closers
    /\ calls[c] < MaxCalls
    /\ calls' = [calls EXCEPT ![c] = @ + 1]
    /\ Go(c, "load")
    /\ on' = [on EXCEPT ![c] = s]
    /\ closing' = [closing EXCEPT ![c] = close]
    /\ UNCHANGED <<result, gateVars, closeVars, workerVars, callbacks, clock, since>>

LoadFlag(c) ==
    /\ pc[c] = "load"
    /\ IF callbackActive[on[c]] THEN Returns(c, "reentry") ELSE Go(c, "enter") /\ UNCHANGED result
    /\ UNCHANGED <<on, closing, gateVars, closeVars, workerVars, boundVars>>

(* gate.RLock: waits while a writer holds the gate or waits for it.          *)
RLock(c) ==
    /\ pc[c] = "enter" /\ ~closing[c]
    /\ writer[on[c]] = Nobody
    /\ readers' = [readers EXCEPT ![on[c]] = @ \cup {c}]
    /\ Go(c, "admitted")
    /\ UNCHANGED <<on, closing, result, writer, closeVars, workerVars, boundVars>>

(* gate.Lock: one writer announces itself, then waits for the readers.       *)
AnnounceLock(c) ==
    /\ pc[c] = "enter" /\ closing[c]
    /\ writer[on[c]] = Nobody
    /\ writer' = [writer EXCEPT ![on[c]] = c]
    /\ Go(c, "locking")
    /\ UNCHANGED <<on, closing, result, readers, closeVars, workerVars, boundVars>>

\* Mutant: Close does not wait for the readers.
LockEarly(c) ==
    /\ pc[c] = "locking"
    /\ Go(c, "admitted")
    /\ UNCHANGED <<on, closing, result, gateVars, closeVars, workerVars, boundVars>>

Lock(c) ==
    /\ pc[c] = "locking"
    /\ readers[on[c]] = {}
    /\ Go(c, "admitted")
    /\ UNCHANGED <<on, closing, result, gateVars, closeVars, workerVars, boundVars>>

(* Under the gate: a closed session answers at once; Close marks it closed.  *)
AlreadyClosed(c) ==
    /\ pc[c] = "admitted"
    /\ closed[on[c]]
    /\ result' = [result EXCEPT ![c] = IF closing[c] THEN closeErr[on[c]] ELSE "closed"]
    /\ Go(c, "leaving")
    /\ UNCHANGED <<on, closing, gateVars, closeVars, workerVars, boundVars>>

Admit(c) ==
    /\ pc[c] = "admitted"
    /\ ~closed[on[c]]
    /\ closed' = [closed EXCEPT ![on[c]] = closing[c]]
    /\ Go(c, "sending")
    /\ UNCHANGED <<on, closing, result, gateVars, closeErr, queueOpen, workerVars, boundVars>>

(* s.queue <- r: caller and worker meet.                                     *)
Handover(c) ==
    LET s == on[c] IN
    /\ pc[c] = "sending"
    /\ worker[s] = "serve" /\ queueOpen[s]
    /\ Go(c, "waiting")
    /\ worker' = [worker EXCEPT ![s] = "run"]
    /\ serving' = [serving EXCEPT ![s] = c]
    /\ UNCHANGED <<on, closing, result, gateVars, closeVars, context, callbackActive, boundVars>>

-----------------------------------------------------------------------------

\* Mutant: the flag is not raised.
StartCallbackUnflagged(s) ==
    /\ worker[s] = "run" /\ ~closing[serving[s]]
    /\ callbacks[s] < MaxCallbacks
    /\ callbacks' = [callbacks EXCEPT ![s] = @ + 1]
    /\ worker' = [worker EXCEPT ![s] = "callback"]
    /\ clock' = clock + 1
    /\ since' = [since EXCEPT ![s] = clock + 1]
    /\ UNCHANGED <<callerVars, gateVars, closeVars, serving, context, callbackActive, calls>>

(* The request enters a bootstrap callback: runBootstrap sets the flag.      *)
StartCallback(s) ==
    /\ worker[s] = "run" /\ ~closing[serving[s]]
    /\ callbacks[s] < MaxCallbacks
    /\ callbacks' = [callbacks EXCEPT ![s] = @ + 1]
    /\ worker' = [worker EXCEPT ![s] = "callback"]
    /\ callbackActive' = [callbackActive EXCEPT ![s] = TRUE]
    /\ clock' = clock + 1
    /\ since' = [since EXCEPT ![s] = clock + 1]
    /\ UNCHANGED <<callerVars, gateVars, closeVars, serving, context, calls>>

EndCallback(s) ==
    /\ worker[s] = "callback"
    /\ pc[s] = "idle"
    /\ worker' = [worker EXCEPT ![s] = "run"]
    /\ callbackActive' = [callbackActive EXCEPT ![s] = FALSE]
    /\ UNCHANGED <<callerVars, gateVars, closeVars, serving, context, boundVars>>

(* The request's function returns; Close's frees the native context.         *)
Reply(s) ==
    LET c == serving[s] IN
    /\ worker[s] = "run"
    /\ Go(c, "replied")
    /\ \E r \in {"ok", "error"} : result' = [result EXCEPT ![c] = r]
    /\ context' = [context EXCEPT ![s] = IF closing[c] THEN "freed" ELSE @]
    /\ worker' = [worker EXCEPT ![s] = "serve"]
    /\ serving' = [serving EXCEPT ![s] = Nobody]
    /\ UNCHANGED <<on, closing, gateVars, closeVars, callbackActive, boundVars>>

(* range s.queue ends; the deferred close(s.stopped) runs.                   *)
WorkerExits(s) ==
    /\ worker[s] = "serve" /\ ~queueOpen[s]
    /\ worker' = [worker EXCEPT ![s] = "exited"]
    /\ UNCHANGED <<callerVars, gateVars, closeVars, serving, context, callbackActive, boundVars>>

-----------------------------------------------------------------------------

\* Mutant: Close does not close the queue.
ReceiveLeavesQueue(c) ==
    /\ pc[c] = "replied"
    /\ closeErr' = [closeErr EXCEPT ![on[c]] = IF closing[c] THEN result[c] ELSE @]
    /\ Go(c, IF closing[c] THEN "stopping" ELSE "leaving")
    /\ UNCHANGED <<on, closing, result, gateVars, closed, queueOpen, workerVars, boundVars>>

(* <-r.done in invoke; in Close, closeErr is kept and the queue closed.      *)
Receive(c) ==
    /\ pc[c] = "replied"
    /\ IF closing[c]
       THEN /\ closeErr' = [closeErr EXCEPT ![on[c]] = result[c]]
            /\ queueOpen' = [queueOpen EXCEPT ![on[c]] = FALSE]
            /\ Go(c, "stopping")
       ELSE Go(c, "leaving") /\ UNCHANGED <<closeErr, queueOpen>>
    /\ UNCHANGED <<on, closing, result, gateVars, closed, workerVars, boundVars>>

\* Mutant: Close does not wait for the worker.
StoppedEarly(c) ==
    /\ pc[c] = "stopping"
    /\ Go(c, "leaving")
    /\ UNCHANGED <<on, closing, result, gateVars, closeVars, workerVars, boundVars>>

Stopped(c) ==
    /\ pc[c] = "stopping"
    /\ worker[on[c]] = "exited"
    /\ Go(c, "leaving")
    /\ UNCHANGED <<on, closing, result, gateVars, closeVars, workerVars, boundVars>>

(* The deferred RUnlock or Unlock.                                           *)
Unlock(c) ==
    LET s == on[c] IN
    /\ pc[c] = "leaving"
    /\ Go(c, "idle")
    /\ readers' = [readers EXCEPT ![s] = @ \ {c}]
    /\ writer' = [writer EXCEPT ![s] = IF closing[c] THEN Nobody ELSE @]
    /\ UNCHANGED <<on, closing, result, closeVars, workerVars, boundVars>>

-----------------------------------------------------------------------------
CallStep(c) ==
    \/ LoadFlag(c) \/ RLock(c) \/ AnnounceLock(c) \/ Lock(c) \/ AlreadyClosed(c)
    \/ Admit(c) \/ Handover(c) \/ Receive(c) \/ Stopped(c) \/ Unlock(c)

WorkerStep(s) == EndCallback(s) \/ Reply(s) \/ WorkerExits(s)

SessionNext ==
    \/ \E c \in Callers, s \in Sessions, close \in BOOLEAN : Begin(c, s, close)
    \/ \E c \in Callers : CallStep(c)
    \/ \E s \in Sessions : StartCallback(s) \/ WorkerStep(s)

SessionSpec == SessionInit /\ [][SessionNext]_sessionVars

\* Every goroutine runs, and a request and a callback return.  Nobody has to
\* begin a call, so the calls that overtake another one are finitely many.
Fairness ==
    /\ \A c \in Callers : WF_sessionVars(CallStep(c))
    /\ \A s \in Sessions : WF_sessionVars(WorkerStep(s))

FairSessionSpec == SessionSpec /\ Fairness

-----------------------------------------------------------------------------
SessionTypeOK ==
    /\ pc \in [Callers -> CallPC]
    /\ on \in [Callers -> Sessions \cup {Nobody}]
    /\ \A c \in Callers : pc[c] # "idle" => on[c] # Nobody
    /\ closing \in [Callers -> BOOLEAN]
    /\ result \in [Callers -> Results]
    /\ callbackActive \in [Sessions -> BOOLEAN]
    /\ readers \in [Sessions -> SUBSET Callers]
    /\ writer \in [Sessions -> Callers \cup {Nobody}]
    /\ closed \in [Sessions -> BOOLEAN]
    /\ closeErr \in [Sessions -> {"ok", "error"}]
    /\ queueOpen \in [Sessions -> BOOLEAN]
    /\ worker \in [Sessions -> {"serve", "run", "callback", "exited"}]
    /\ serving \in [Sessions -> Callers \cup {Nobody}]
    /\ context \in [Sessions -> {"live", "freed"}]
    /\ calls \in [Callers -> Nat]
    /\ callbacks \in [Sessions -> Nat]
    /\ clock \in Nat
    /\ since \in [Sessions -> Nat]

(* A request other than Close's runs on a live context, and nobody is left   *)
(* sending to a closed queue, where Go would panic: whatever was admitted    *)
(* before Close has been served by then.                                     *)
CloseComesLast ==
    /\ \A s \in Sessions : worker[s] \in {"run", "callback"} => context[s] = "live"
    /\ \A c \in Callers : pc[c] = "sending" => queueOpen[on[c]]

(* Close returns only when the worker is gone and the context freed, the     *)
(* second and later ones included, and they return what the first returned.  *)
CloseIsFinal ==
    \A c \in Callers : closing[c] /\ pc[c] = "leaving" =>
        /\ worker[on[c]] = "exited"
        /\ context[on[c]] = "freed"
        /\ result[c] = closeErr[on[c]]

\* The call waits for something only session t's gate or worker will do.
WaitsFor(c, t) == on[c] = t /\ pc[c] \notin {"idle", "load", "leaving"}

(* A callback never waits for its own session.                               *)
NoSelfWait == \A s \in Sessions : ~WaitsFor(s, s)

(* No set of sessions is stuck with each one's callback waiting for another  *)
(* of them: the flag is raised before the callback's code runs, so the last  *)
(* of a would-be cycle finds its target's flag up and is refused.            *)
CallbackWaits(s, t) == worker[s] = "callback" /\ WaitsFor(s, t)

NoWaitCycle ==
    \A S \in SUBSET Sessions :
        S # {} => \E s \in S : \A t \in S : ~CallbackWaits(s, t)

(* Every call returns.                                                       *)
CallsReturn == \A c \in Callers : (pc[c] # "idle") ~> (pc[c] = "idle")
=============================================================================
