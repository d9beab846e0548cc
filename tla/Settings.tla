------------------------------- MODULE Settings -------------------------------
(***************************************************************************)
(* settings.rs on the notification engine: the evaluation date, the store  *)
(* of index fixings with one notifier for each index name, the indexes     *)
(* that forward both (InterestRateIndexBase), and clients that read        *)
(* Index::fixing and keep the answer until they are told of a change.      *)
(*                                                                         *)
(* Rates are numbers of which neighbours are close(), the outcome of an    *)
(* index's forecast is one value, and names are the upper-case keys.       *)
(***************************************************************************)
EXTENDS Observable, Integers

CONSTANTS
    Keys,         \* upper-case index names
    Indexes,      \* index objects, each named by its forwarder
    KeyOf,        \* KeyOf[i]: the key of an index's name
    DateSubject,  \* eval_date_observable
    Notifier,     \* Notifier[k]: the observable of fixing_notifier(k)
    Watches,      \* Watches[w]: the index a client observes and reads
    Pins,         \* Pins[w]: the date a client sets back inside update(), 0 none
    CallbackOps,  \* what else client code does inside update()
    MaxDay,       \* bound: dates are 1..MaxDay
    Rates,        \* the rates of fixings
    Batches       \* bound: what one add_fixings is handed, sets of <<day, rate>>

Days == 1..MaxDay

ASSUME SettingsConstants ==
    /\ Forwarders = Indexes
    /\ KeyOf \in [Indexes -> Keys]
    /\ DateSubject \in Subjects
    /\ Notifier \in [Keys -> Subjects]
    /\ Watches \in [Clients -> Indexes]
    /\ MaxDay \in Nat
    /\ Pins \in [Clients -> {0} \cup Days]
    /\ CallbackOps \subseteq {"read", "add", "clear", "date", "flag"}
    /\ Rates \subseteq Nat \ {0}
    /\ Batches \subseteq SUBSET (Days \X Rates)

\* InterestRateIndexBase::new registers the forwarder of an index with the date
\* and with the notifier of its name, and broadcasts through the index's own
\* observable, with which a client registers.  Neither opts out of being told
\* later when it is busy.
ASSUME SettingsWiring ==
    /\ \A i \in Indexes : /\ i \in Wiring[DateSubject] \cap Wiring[Notifier[KeyOf[i]]]
                          /\ Target[i] \in Subjects \ Observers
    /\ \A w \in Clients : w \in Wiring[Target[Watches[w]]]
    /\ Discarding \cap (Indexes \cup Clients) = {}

VARIABLES
    evaluationDate,   \* evaluation_date, NoDate for None
    enforces,         \* enforces_todays_historic_fixings
    store,            \* fixing_store: a history for each key that has one
    answer            \* history: what a client read and was not told to forget

settingsVars == <<evaluationDate, enforces, store, answer>>
allVars == <<vars, settingsVars>>

NoDate == 0
Missing == 0                  \* no fixing on record; as an answer, an error
Forecast == -1                \* the index's forecast

History == [Days -> Rates \cup {Missing}]
EmptyHistory == [d \in Days |-> Missing]

\* The frames of clear_fixing and clear_fixings: names still to be told, and
\* what is removed after.
ClearFrame == [op : {"clear"}, todo : SUBSET Keys, remove : SUBSET Keys]

Clearing == \E n \in DOMAIN stack : stack[n].op = "clear"

\* math/comparison.rs: close.
Close(r, s) == r - s \in -1..1

Recorded(k, d) == IF k \in DOMAIN store THEN store[k][d] ELSE Missing

\* Index::fixing of an interest-rate index.
Fixing(k, d, forecastToday, strict) ==
    IF evaluationDate = NoDate THEN Missing
    ELSE IF d > evaluationDate \/ (d = evaluationDate /\ forecastToday) THEN Forecast
    ELSE IF d < evaluationDate \/ strict \/ Recorded(k, d) # Missing THEN Recorded(k, d)
    ELSE Forecast

Fixings(w, strict) ==
    [d \in Days |-> [f \in BOOLEAN |-> Fixing(KeyOf[Watches[w]], d, f, strict)]]

Answers == [value : [Days -> [BOOLEAN -> Rates \cup {Missing, Forecast}]],
            read : BOOLEAN, strict : BOOLEAN, clearing : BOOLEAN]

Unread == [value |-> [d \in Days |-> [f \in BOOLEAN |-> Missing]],
           read |-> FALSE, strict |-> FALSE, clearing |-> FALSE]

-----------------------------------------------------------------------------
SettingsInit ==
    /\ Init
    /\ evaluationDate = NoDate
    /\ enforces = FALSE
    /\ store = [k \in {} |-> EmptyHistory]
    /\ answer = [w \in Clients |-> Unread]

MayCall(op) ==
    \/ stack = <<>>
    \/ TopIs("update") /\ Top.who \in Clients /\ op \in CallbackOps

\* What a client holds is void once its update() is entered.
EngineStep ==
    /\ Engine
    /\ answer' = [w \in Clients |->
          IF Len(stack') > Len(stack) /\ stack'[Len(stack')] = UpdateFrame(w)
          THEN Unread ELSE answer[w]]
    /\ UNCHANGED <<evaluationDate, enforces, store>>

Read(w) ==
    /\ MayCall("read")
    /\ stack # <<>> => Top.who = w
    /\ answer' = [answer EXCEPT ![w] =
          [value |-> Fixings(w, enforces), read |-> TRUE,
           strict |-> enforces, clearing |-> Clearing]]
    /\ UNCHANGED <<vars, evaluationDate, enforces, store>>

\* Counts a call of client code against the bound.
Counted == notifies < MaxNotify /\ notifies' = notifies + 1

-----------------------------------------------------------------------------
\* Mutant: a date that is already set is notified all the same.
AssignDateAlways(date) ==
    /\ evaluationDate' = date
    /\ StartRound(registry, DateSubject, stack)

(* set_evaluation_date and reset_evaluation_date: a changed date is stored,  *)
(* then notified; the same date does nothing.                                *)
AssignDate(date) ==
    /\ evaluationDate # date
    /\ evaluationDate' = date
    /\ StartRound(registry, DateSubject, stack)

SetEvaluationDate(date) ==
    /\ MayCall("date")
    /\ AssignDate(date)
    /\ Counted
    /\ UNCHANGED <<draining, pending, held, dropped, edits, enforces, store, answer>>

(* A client that insists on its date does not count against the bound.       *)
PinDate ==
    /\ TopIs("update") /\ Top.who \in Clients
    /\ Pins[Top.who] # NoDate
    /\ AssignDate(Pins[Top.who])
    /\ UNCHANGED <<draining, pending, held, dropped, notifies, edits,
                   enforces, store, answer>>

(* The flag's setter tells nobody.                                           *)
SetEnforcesTodaysHistoricFixings ==
    /\ MayCall("flag") /\ Edit
    /\ enforces' = ~enforces
    /\ UNCHANGED <<registry, stack, depth, draining, pending, held, dropped, owed,
                   notifies, evaluationDate, store, answer>>

-----------------------------------------------------------------------------
\* The histories a batch can make of history: the last of two rates handed over
\* for one date stays, and any of them may be the last.
After(history, batch) ==
    {h \in History : \A d \in Days :
        IF \E r \in Rates : <<d, r>> \in batch
        THEN <<d, h[d]>> \in batch
        ELSE h[d] = history[d]}

Accepted(k, batch) ==
    \A d \in Days, r \in Rates :
        <<d, r>> \in batch /\ Recorded(k, d) # Missing => Close(Recorded(k, d), r)

WithHistory(k, history) ==
    [n \in DOMAIN store \cup {k} |-> IF n = k THEN history ELSE store[n]]

HistoryOf(k) == [d \in Days |-> Recorded(k, d)]

\* Mutant: what precedes the rejected fixing is already stored.
AddFixingsPartly(k, batch) ==
    /\ MayCall("add") /\ Counted
    /\ \E part \in SUBSET batch :
         /\ Accepted(k, part)
         /\ Accepted(k, batch) => part = batch
         /\ \E history \in After(HistoryOf(k), part) : store' = WithHistory(k, history)
         /\ IF part = batch
            THEN StartRound(registry, Notifier[k], stack)
            ELSE UNCHANGED <<registry, stack, depth, owed>>
    /\ UNCHANGED <<draining, pending, held, dropped, edits,
                   evaluationDate, enforces, answer>>

(* add_fixings: all are checked, all inserted, the observers told once; one  *)
(* conflict leaves the store as it is and tells nobody.                      *)
AddFixings(k, batch) ==
    /\ MayCall("add") /\ Counted
    /\ Accepted(k, batch)
    /\ \E history \in After(HistoryOf(k), batch) : store' = WithHistory(k, history)
    /\ StartRound(registry, Notifier[k], stack)
    /\ UNCHANGED <<draining, pending, held, dropped, edits,
                   evaluationDate, enforces, answer>>

-----------------------------------------------------------------------------
(* clear_fixing and clear_fixings: observers are told first, name by name;   *)
(* what is removed is removed when all have been.                            *)
ClearFixing(k) ==
    /\ MayCall("clear") /\ Counted
    /\ stack' = Append(stack, [op |-> "clear", todo |-> {k}, remove |-> {k}])
    /\ UNCHANGED <<registry, depth, draining, pending, held, dropped, owed, edits,
                   settingsVars>>

ClearFixings ==
    /\ MayCall("clear") /\ Counted
    /\ stack' = Append(stack, [op |-> "clear", todo |-> DOMAIN store, remove |-> Keys])
    /\ UNCHANGED <<registry, depth, draining, pending, held, dropped, owed, edits,
                   settingsVars>>

ClearTells ==
    /\ TopIs("clear")
    /\ \E k \in Top.todo :
         StartRound(registry, Notifier[k], ReplaceTop([Top EXCEPT !.todo = @ \ {k}]))
    /\ UNCHANGED <<draining, pending, held, dropped, notifies, edits, settingsVars>>

ClearRemoves ==
    /\ TopIs("clear")
    /\ Top.todo = {}
    /\ store' = [k \in DOMAIN store \ Top.remove |-> store[k]]
    /\ stack' = Below
    /\ UNCHANGED <<registry, depth, draining, pending, held, dropped, owed,
                   notifies, edits, evaluationDate, enforces, answer>>

-----------------------------------------------------------------------------
LibraryStep == EngineStep \/ ClearTells \/ ClearRemoves

SettingsNext ==
    \/ LibraryStep
    \/ PinDate \/ SetEnforcesTodaysHistoricFixings \/ ClearFixings
    \/ \E w \in Clients : Read(w)
    \/ \E date \in Days \cup {NoDate} : SetEvaluationDate(date)
    \/ \E k \in Keys : ClearFixing(k)
    \/ \E k \in Keys, batch \in Batches : AddFixings(k, batch)

SettingsSpec == SettingsInit /\ [][SettingsNext]_allVars

\* Calls run to their end, and no client stays in its update() for ever.
FairSettingsSpec == SettingsSpec /\ WF_allVars(LibraryStep)

-----------------------------------------------------------------------------
SettingsTypeOK ==
    /\ registry \in [Subjects -> SUBSET Entry]
    /\ stack \in Seq(Frame \cup ClearFrame)
    /\ depth \in Nat
    /\ draining \in BOOLEAN
    /\ {pending, held, dropped, owed} \subseteq SUBSET Observers
    /\ evaluationDate \in {NoDate} \cup Days
    /\ enforces \in BOOLEAN
    /\ DOMAIN store \subseteq Keys
    /\ \A k \in DOMAIN store : store[k] \in History
    /\ answer \in [Clients -> Answers]

IsCurrent(w) == answer[w].read => answer[w].value = Fixings(w, answer[w].strict)

(* Once every call has returned, nobody holds a fixing that a change of the  *)
(* date or of the store made stale without having been told: whichever of a  *)
(* diamond of notifications came first, whatever was read, added or set back *)
(* inside them.  The flag's own changes, and what was read inside a clear,   *)
(* are not covered: the code tells nobody.                                   *)
ReadersAreTold ==
    stack = <<>> => \A w \in Clients : ~answer[w].clearing => IsCurrent(w)

(* The same of what is read while clear_fixing or clear_fixings notifies;    *)
(* the fixing read there is removed when the notification is over.           *)
ReadersOfAClearAreTold ==
    stack = <<>> => \A w \in Clients : IsCurrent(w)

(* add_fixings: "A fixing that repeats an existing date with a close value   *)
(* is a no-op": it would leave the value that is there.                      *)
CloseValueIsNoOp ==
    [][\A k \in DOMAIN store \cap DOMAIN store' : \A d \in Days :
          store[k][d] # Missing => store'[k][d] = store[k][d]]_allVars

(* A client that sets its own date back from inside the notification of a    *)
(* change does not keep the engine busy for ever: the same date is silent.   *)
DateSettles == (stack # <<>>) ~> (stack = <<>>)
=============================================================================
