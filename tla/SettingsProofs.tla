---------------------------- MODULE SettingsProofs ----------------------------
(***************************************************************************)
(* Proofs about Settings: for any number of indexes, names and clients,    *)
(* any dates and fixings, and clients that read, add, clear and set the    *)
(* date from inside the notifications they get.                            *)
(*                                                                         *)
(* The invariant says at every moment what ReadersAreTold says when all    *)
(* calls have returned: a client whose answer is not current, or is about  *)
(* to be removed by a clear that tells it nothing more, will hear.  Each   *)
(* step pushes a frame, replaces the top one or pops it; Pushed says what  *)
(* a frame adds to what is asked of the stack below it.                    *)
(***************************************************************************)
EXTENDS Settings, ObservableProofs

AnyFrame == Frame \cup ClearFrame

EntriesOf(observers) == {[observer |-> v, defer |-> v \notin Discarding] : v \in observers}

\* What the frames say of how a stack is nested: a round or a drain serves the
\* updates above it, and a drain runs over nothing but clears.
Serves(frame) == frame.op \in {"notify", "drain"}
Served(st) == \E n \in DOMAIN st : Serves(st[n])
Notifying(st) == \E n \in DOMAIN st : st[n].op = "notify"
OnlyClears(st) == \A n \in DOMAIN st : st[n].op = "clear"
InClear(st) == \E n \in DOMAIN st : st[n].op = "clear"
Updating(st, v) == \E n \in DOMAIN st : st[n].op = "update" /\ st[n].who = v

FrameOk(frame) ==
    /\ frame.op = "drain" => frame.stalled = {}
    /\ frame.op = "notify" => \A e \in frame.todo : e.defer \/ e.observer \in Discarding

Nested(st) ==
    \A n \in DOMAIN st :
        /\ FrameOk(st[n])
        /\ st[n].op = "drain" => \A m \in 1..n - 1 : st[m].op = "clear"
        /\ st[n].op = "update" => \E m \in 1..n - 1 : Serves(st[m])

NumRounds(st) == Cardinality(RoundsOf(st))

Calls ==
    /\ stack \in Seq(AnyFrame)
    /\ registry = [s \in Subjects |-> EntriesOf(Wiring[s])]
    /\ held = {} /\ dropped = {}
    /\ pending \in SUBSET Observers
    /\ depth = NumRounds(stack)
    /\ draining \in BOOLEAN /\ (draining <=> Draining(stack))
    /\ Nested(stack)
    /\ pending # {} => Served(stack)

\* The news a frame still has for a client: it is to be updated, or the index
\* it watches is, or that index is about to broadcast.
News(frame, w) ==
    \/ Holds(frame, w) \/ Holds(frame, Watches[w])
    \/ frame.op = "update" /\ frame.who = Watches[w] /\ ~frame.sent
NewsOf(st, w) == \E n \in DOMAIN st : News(st[n], w)
Hears(w) == {w, Watches[w]} \cap pending # {} \/ NewsOf(stack, w)

Key(w) == KeyOf[Watches[w]]

\* A clear that removes what a client reads has still to notify its index.
WillTell(frame, w) == frame.op = "clear" /\ Key(w) \in frame.remove => Key(w) \in frame.todo
AllTell(st, w) == \A n \in DOMAIN st : WillTell(st[n], w)

Keeps(w) == answer[w].read /\ ~answer[w].clearing

NewsComes ==
    \A w \in Clients :
        Keeps(w) /\ ~Hears(w) => /\ IsCurrent(w)
                                 /\ Key(w) \in DOMAIN store => AllTell(stack, w)

\* The types of what the calls do not determine.
DataTypes ==
    /\ owed \in SUBSET Observers
    /\ evaluationDate \in {NoDate} \cup Days
    /\ enforces \in BOOLEAN
    /\ DOMAIN store \subseteq Keys
    /\ \A k \in DOMAIN store : store[k] \in History
    /\ answer \in [Clients -> Answers]

-----------------------------------------------------------------------------
(* The kinds of frames.                                                      *)
LEMMA FrameKinds ==
  ASSUME NEW f \in AnyFrame
  PROVE  /\ f.op \in {"notify", "update", "drain", "clear"}
         /\ f.op # "clear" => f \in Frame
         /\ f.op = "clear" => f \in ClearFrame /\ f.todo \in SUBSET Keys /\ f.remove \in SUBSET Keys
  <1>1. CASE f \in Frame
    BY <1>1, FrameFields
  <1>2. CASE f \in ClearFrame
    BY <1>2 DEF ClearFrame
  <1> QED BY <1>1, <1>2 DEF AnyFrame

(* What a frame adds to a stack.                                             *)
LEMMA Pushed ==
  ASSUME NEW st \in Seq(AnyFrame), NEW f \in AnyFrame
  PROVE  LET p == Append(st, f)
         IN  /\ p \in Seq(AnyFrame) /\ p # <<>> /\ Len(p) = Len(st) + 1 /\ p[Len(p)] = f
             /\ Len(st) \in Nat
             /\ RoundsOf(p) = IF f.op = "notify" THEN RoundsOf(st) \cup {Len(st) + 1}
                                                 ELSE RoundsOf(st)
             /\ Draining(p) <=> Draining(st) \/ f.op = "drain"
             /\ Served(p) <=> Served(st) \/ Serves(f)
             /\ InClear(p) <=> InClear(st) \/ f.op = "clear"
             /\ \A v : Updating(p, v) <=> Updating(st, v) \/ (f.op = "update" /\ f.who = v)
             /\ Nested(p) <=> /\ Nested(st) /\ FrameOk(f)
                              /\ f.op = "drain" => OnlyClears(st)
                              /\ f.op = "update" => Served(st)
             /\ \A w : NewsOf(p, w) <=> NewsOf(st, w) \/ News(f, w)
             /\ \A w : AllTell(p, w) <=> AllTell(st, w) /\ WillTell(f, w)
  <1> DEFINE p == Append(st, f)
             n == Len(st)
  <1>1. /\ p \in Seq(AnyFrame) /\ Len(p) = n + 1 /\ n \in Nat
        /\ \A i \in 1..n : p[i] = st[i]
        /\ p[n + 1] = f /\ DOMAIN p = 1..n + 1 /\ DOMAIN st = 1..n
    BY PushProperties
  <1> HIDE DEF p, n
  <1>2. p # <<>>
    BY <1>1, EmptySeq
  <1>3. /\ \A i \in 1..n + 1 : i \in 1..n \/ i = n + 1
        /\ \A i \in 1..n : i \in 1..n + 1
        /\ n + 1 \in 1..n + 1 /\ (n + 1) - 1 = n /\ n + 1 \notin 1..n
        /\ \A i \in 1..n : \A m \in 1..i - 1 : m \in 1..n
    BY <1>1
  <1>4. RoundsOf(p) = IF f.op = "notify" THEN RoundsOf(st) \cup {n + 1} ELSE RoundsOf(st)
    BY <1>1, <1>3 DEF RoundsOf
  <1>5. /\ Draining(p) <=> Draining(st) \/ f.op = "drain"
        /\ Served(p) <=> Served(st) \/ Serves(f)
        /\ InClear(p) <=> InClear(st) \/ f.op = "clear"
    BY <1>1, <1>3 DEF Draining, Served, InClear
  <1>6. \A v : Updating(p, v) <=> Updating(st, v) \/ (f.op = "update" /\ f.who = v)
    BY <1>1, <1>3 DEF Updating
  <1>7. \A w : NewsOf(p, w) <=> NewsOf(st, w) \/ News(f, w)
    BY <1>1, <1>3 DEF NewsOf
  <1>8. \A w : AllTell(p, w) <=> AllTell(st, w) /\ WillTell(f, w)
    BY <1>1, <1>3 DEF AllTell
  <1>9. Nested(p) <=> /\ Nested(st) /\ FrameOk(f)
                      /\ f.op = "drain" => OnlyClears(st)
                      /\ f.op = "update" => Served(st)
    <2> DEFINE At(s, i) == /\ FrameOk(s[i])
                           /\ s[i].op = "drain" => \A m \in 1..i - 1 : s[m].op = "clear"
                           /\ s[i].op = "update" => \E m \in 1..i - 1 : Serves(s[m])
    <2>1. \A i \in 1..n : At(p, i) <=> At(st, i)
      BY <1>1, <1>3
    <2>2. At(p, n + 1) <=> /\ FrameOk(f)
                           /\ f.op = "drain" => OnlyClears(st)
                           /\ f.op = "update" => Served(st)
      BY <1>1, <1>3 DEF OnlyClears, Served
    <2>3. (Nested(p) <=> \A i \in 1..n + 1 : At(p, i)) /\ (Nested(st) <=> \A i \in 1..n : At(st, i))
      BY <1>1 DEF Nested
    <2> HIDE DEF At
    <2> QED BY <1>3, <2>1, <2>2, <2>3
  <1> QED BY <1>1, <1>2, <1>4, <1>5, <1>6, <1>7, <1>8, <1>9 DEF p, n

(* Nothing is asked of no call, and nothing is left by it.                   *)
LEMMA NoCalls ==
    /\ <<>> \in Seq(AnyFrame) /\ Nested(<<>>) /\ RoundsOf(<<>>) = {} /\ NumRounds(<<>>) = 0
    /\ ~Draining(<<>>) /\ ~Served(<<>>) /\ ~InClear(<<>>)
    /\ \A w : ~NewsOf(<<>>, w) /\ AllTell(<<>>, w)
  <1>1. <<>> \in Seq(AnyFrame) /\ DOMAIN <<>> = {}
    BY EmptySeq
  <1>2. RoundsOf(<<>>) = {}
    BY <1>1 DEF RoundsOf
  <1> QED BY <1>1, <1>2, FS_EmptySet
       DEF Nested, Draining, Served, InClear, NewsOf, AllTell, NumRounds

(* The rounds on a stack can be counted.                                     *)
LEMMA RoundCount ==
  ASSUME NEW st \in Seq(AnyFrame)
  PROVE  /\ NumRounds(st) \in Nat
         /\ NumRounds(st) = 0 <=> ~Notifying(st)
         /\ \A f \in AnyFrame : NumRounds(Append(st, f)) = IF f.op = "notify" THEN NumRounds(st) + 1
                                                                              ELSE NumRounds(st)
         /\ Served(st) <=> Notifying(st) \/ Draining(st)
  <1>1. Len(st) \in Nat /\ DOMAIN st = 1..Len(st)
    BY LenProperties
  <1>2. RoundsOf(st) \subseteq 1..Len(st)
    BY <1>1 DEF RoundsOf
  <1>3. IsFiniteSet(RoundsOf(st))
    <2>1. IsFiniteSet(1..Len(st))
      BY <1>1, FS_Interval
    <2> QED BY <1>2, <2>1, FS_Subset
  <1>4. NumRounds(st) \in Nat /\ (NumRounds(st) = 0 <=> RoundsOf(st) = {})
    BY <1>3, FS_CardinalityType, FS_EmptySet DEF NumRounds
  <1>5. RoundsOf(st) = {} <=> ~Notifying(st)
    BY DEF RoundsOf, Notifying
  <1>6. Len(st) + 1 \notin RoundsOf(st)
    BY <1>1, <1>2
  <1>7. Cardinality(RoundsOf(st) \cup {Len(st) + 1}) = Cardinality(RoundsOf(st)) + 1
    BY <1>3, <1>6, FS_AddElement
  <1>8. ASSUME NEW f \in AnyFrame
        PROVE  NumRounds(Append(st, f)) = IF f.op = "notify" THEN NumRounds(st) + 1 ELSE NumRounds(st)
    <2>1. RoundsOf(Append(st, f)) = IF f.op = "notify" THEN RoundsOf(st) \cup {Len(st) + 1}
                                                       ELSE RoundsOf(st)
      BY Pushed
    <2> QED BY <1>7, <2>1 DEF NumRounds
  <1>9. Served(st) <=> Notifying(st) \/ Draining(st)
    BY DEF Served, Serves, Notifying, Draining
  <1> QED BY <1>4, <1>5, <1>8, <1>9

(* Where nothing serves, nothing is updated: only clears are left.           *)
LEMMA Unserved ==
  ASSUME NEW st \in Seq(AnyFrame), Nested(st), ~Served(st)
  PROVE  OnlyClears(st)
  <1>1. DOMAIN st = 1..Len(st) /\ Len(st) \in Nat
    BY LenProperties
  <1>2. ASSUME NEW n \in DOMAIN st PROVE st[n].op = "clear"
    <2>1. st[n].op \in {"notify", "update", "drain", "clear"}
      BY <1>1, ElementOfSeq, FrameKinds
    <2>2. ~Serves(st[n]) /\ \A m \in 1..n - 1 : m \in DOMAIN st /\ ~Serves(st[m])
      BY <1>1 DEF Served
    <2> QED BY <2>1, <2>2 DEF Nested, Serves
  <1> QED BY <1>2 DEF OnlyClears

(* The stack is its top on what is below it.                                 *)
LEMMA TopOfStack ==
  ASSUME stack \in Seq(AnyFrame), stack # <<>>
  PROVE  /\ Below \in Seq(AnyFrame) /\ Top \in AnyFrame
         /\ stack = Append(Below, Top)
         /\ Len(stack) \in Nat /\ Len(Below) = Len(stack) - 1
  <1>1. /\ Below \in Seq(AnyFrame) /\ Len(Below) = Len(stack) - 1
        /\ \A i \in 1..Len(stack) - 1 : Below[i] = stack[i]
        /\ Len(stack) \in Nat \ {0} /\ Top \in AnyFrame /\ Top = stack[Len(stack)]
    BY FrontProperties DEF Below, Top
  <1> DEFINE r == Append(Below, Top)
  <1>2. /\ r \in Seq(AnyFrame) /\ Len(r) = Len(Below) + 1 /\ r[Len(Below) + 1] = Top
        /\ \A i \in 1..Len(Below) : r[i] = Below[i]
    BY <1>1, PushProperties
  <1> HIDE DEF r
  <1>3. Len(r) = Len(stack) /\ \A i \in 1..Len(stack) : r[i] = stack[i]
    <2>1. \A i \in 1..Len(stack) : i \in 1..Len(stack) - 1 \/ i = Len(stack)
      BY <1>1
    <2>2. Len(Below) + 1 = Len(stack)
      BY <1>1
    <2> QED BY <1>1, <1>2, <2>1, <2>2
  <1>4. r = stack
    BY <1>2, <1>3, SeqEqual
  <1> QED BY <1>1, <1>4 DEF r
-----------------------------------------------------------------------------
(* The entries of observers that registered while nothing ran.               *)
LEMMA EntriesProperties ==
  ASSUME NEW S \in SUBSET Observers
  PROVE  /\ EntriesOf(S) \in SUBSET Entry
         /\ \A v \in S : \E e \in EntriesOf(S) : e.observer = v
         /\ \A e \in EntriesOf(S) : e.defer \/ e.observer \in Discarding
  <1> DEFINE entry(v) == [observer |-> v, defer |-> v \notin Discarding]
  <1>1. \A v : entry(v).observer = v /\ (entry(v).defer \/ entry(v).observer \in Discarding)
    OBVIOUS
  <1>2. ASSUME NEW v \in S PROVE entry(v) \in Entry
    <2>1. v \in Observers /\ (v \notin Discarding) \in BOOLEAN
      OBVIOUS
    <2> QED BY <2>1 DEF Entry
  <1>3. EntriesOf(S) = {entry(v) : v \in S}
    BY DEF EntriesOf
  <1> HIDE DEF entry
  <1> QED BY <1>1, <1>2, <1>3

(* What the news of a frame are after a step of it, and when it has none.    *)
LEMMA NewsOfRounds ==
  ASSUME NEW f \in Frame, f.op = "notify", NEW w
  PROVE  /\ \A e \in Entry : News(f, w) => News(Done(f, e), w) \/ e.observer \in {w, Watches[w]}
         /\ f.todo = {} => ~News(f, w)
  <1>1. \A g : g.op = "notify" =>
          (News(g, w) <=> \E e \in g.todo : e.observer \in {w, Watches[w]})
    BY DEF News, Holds
  <1> QED BY <1>1, FrameFields

LEMMA NewsOfDrains ==
  ASSUME NEW f \in Frame, f.op = "drain", NEW w
  PROVE  /\ \A v \in Observers : News(f, w) => News(Delivering(f, v), w) \/ v \in {w, Watches[w]}
         /\ \A b \in SUBSET Observers : f.batch = {} =>
              /\ News(f, w) => News(Taking(f, b), w)
              /\ {w, Watches[w]} \cap b # {} => News(Taking(f, b), w)
         /\ f.batch = {} /\ f.stalled = {} => ~News(f, w)
  <1>1. \A g : g.op = "drain" =>
          (News(g, w) <=> {w, Watches[w]} \cap (g.batch \cup g.stalled) # {})
    BY DEF News, Holds
  <1>2. ASSUME NEW v \in Observers
        PROVE  News(f, w) => News(Delivering(f, v), w) \/ v \in {w, Watches[w]}
    <2> DEFINE h == Delivering(f, v)
    <2>1. h.op = "drain" /\ h.batch = f.batch \ {v} /\ h.stalled = f.stalled
      BY FrameFields
    <2> HIDE DEF h
    <2>2. News(h, w) <=> {w, Watches[w]} \cap (h.batch \cup h.stalled) # {}
      BY <1>1, <2>1
    <2>3. News(f, w) <=> {w, Watches[w]} \cap (f.batch \cup f.stalled) # {}
      BY <1>1
    <2>4. News(f, w) => News(h, w) \/ v \in {w, Watches[w]}
      BY <2>1, <2>2, <2>3
    <2> QED BY <2>4 DEF h
  <1>3. ASSUME NEW b \in SUBSET Observers, f.batch = {}
        PROVE  /\ News(f, w) => News(Taking(f, b), w)
               /\ {w, Watches[w]} \cap b # {} => News(Taking(f, b), w)
    BY <1>1, <1>3, FrameFields
  <1> QED BY <1>1, <1>2, <1>3

LEMMA NewsOfOthers ==
  ASSUME NEW f, NEW w
  PROVE  /\ f.op = "update" /\ (f.who # Watches[w] \/ f.sent) => ~News(f, w)
         /\ f.op = "clear" => ~News(f, w)
         /\ f.op # "clear" => WillTell(f, w)
  BY DEF News, Holds, WillTell

(* What the frames the library pushes have to tell.                          *)
LEMMA NewsOfPushes ==
  /\ \A w : News(UpdateFrame(Watches[w]), w)
  /\ \A w, snapshot : (\E e \in snapshot : e.observer \in {w, Watches[w]})
                         => News(NotifyFrame(snapshot), w)
  /\ \A snapshot, w : WillTell(NotifyFrame(snapshot), w)
  /\ \A v, w : WillTell(UpdateFrame(v), w) /\ WillTell(DrainFrame, w)
  BY DEF News, Holds, WillTell, UpdateFrame, NotifyFrame, DrainFrame

(* A step that changes neither date nor store leaves every client informed   *)
(* whose news it passes on, or whose answer it voids.                        *)
LEMMA NewsKept ==
  ASSUME NewsComes, UNCHANGED <<evaluationDate, store>>,
         \A w \in Clients : answer'[w].read => answer'[w] = answer[w],
         \A w \in Clients : Hears(w) => Hears(w)' \/ ~answer'[w].read,
         \A w \in Clients : AllTell(stack, w) => AllTell(stack', w) \/ Hears(w)'
  PROVE  NewsComes'
  <1> SUFFICES ASSUME NEW w \in Clients, Keeps(w)', ~Hears(w)'
               PROVE  IsCurrent(w)' /\ (Key(w) \in DOMAIN store => AllTell(stack', w))
    BY DEF NewsComes, Key, AllTell, WillTell
  <1>1. answer'[w] = answer[w] /\ Keeps(w) /\ ~Hears(w)
    BY DEF Keeps
  <1>2. IsCurrent(w) /\ (Key(w) \in DOMAIN store => AllTell(stack, w))
    BY <1>1 DEF NewsComes
  <1>3. IsCurrent(w)'
    BY <1>1, <1>2 DEF IsCurrent, Fixings, Fixing, Recorded
  <1> QED BY <1>2, <1>3

\* What is asked of the constants, in the names the proofs use.
LEMMA Wired ==
    /\ \A i \in Indexes : /\ i \in Observers /\ i \notin Clients /\ i \notin Discarding
                           /\ i \in Wiring[DateSubject] /\ i \in Wiring[Notifier[KeyOf[i]]]
                           /\ Target[i] \in Subjects /\ Target[i] \notin Observers
                           /\ KeyOf[i] \in Keys
    /\ \A w \in Clients : /\ w \in Observers /\ w \notin Discarding /\ Watches[w] \in Indexes
                           /\ w \in Wiring[Target[Watches[w]]]
    /\ Forwarders = Indexes /\ DateSubject \in Subjects
    /\ \A k \in Keys : Notifier[k] \in Subjects
    /\ \A s \in Subjects : Wiring[s] \in SUBSET Observers
  BY ConstantsAssumption, SettingsConstants, SettingsWiring

-----------------------------------------------------------------------------
(* A round starts over below: nobody is pruned, nobody is missed.            *)
LEMMA RoundStarts ==
  ASSUME Calls, NEW s \in Subjects, NEW below, StartRound(registry, s, below)
  PROVE  /\ stack' = Append(below, NotifyFrame(EntriesOf(Wiring[s])))
         /\ registry' = registry /\ depth' = depth + 1
         /\ NotifyFrame(EntriesOf(Wiring[s])) \in AnyFrame
         /\ NotifyFrame(EntriesOf(Wiring[s])).op = "notify"
         /\ FrameOk(NotifyFrame(EntriesOf(Wiring[s])))
         /\ \A w : w \in Wiring[s] \/ Watches[w] \in Wiring[s]
                     => News(NotifyFrame(EntriesOf(Wiring[s])), w)
         /\ owed \in SUBSET Observers => owed' \in SUBSET Observers
  <1> DEFINE snapshot == EntriesOf(Wiring[s])
  <1>1. registry[s] = snapshot
    BY DEF Calls
  <1>2. Pruned(snapshot) = snapshot
    BY DEF Pruned, Live, Calls
  <1>3. /\ snapshot \in SUBSET Entry
        /\ \A v \in Wiring[s] : \E e \in snapshot : e.observer = v
        /\ \A e \in snapshot : e.defer \/ e.observer \in Discarding
    BY Wired, EntriesProperties
  <1> HIDE DEF snapshot
  <1>5. /\ stack' = Append(below, NotifyFrame(snapshot)) /\ depth' = depth + 1
        /\ registry' = [registry EXCEPT ![s] = snapshot]
        /\ owed' = owed \cup {e.observer : e \in snapshot}
    BY <1>1, <1>2 DEF StartRound
  <1>6. registry' = registry
    BY <1>1, <1>5 DEF Calls
  <1>7. NotifyFrame(snapshot) \in AnyFrame
    BY <1>3, FrameTypes DEF AnyFrame
  <1>8. NotifyFrame(snapshot).op = "notify" /\ FrameOk(NotifyFrame(snapshot))
    BY <1>3 DEF NotifyFrame, FrameOk
  <1>9. \A w : w \in Wiring[s] \/ Watches[w] \in Wiring[s] => News(NotifyFrame(snapshot), w)
    <2> SUFFICES ASSUME NEW w, w \in Wiring[s] \/ Watches[w] \in Wiring[s]
                 PROVE  News(NotifyFrame(snapshot), w)
      OBVIOUS
    <2>1. \E e \in snapshot : e.observer \in {w, Watches[w]}
      BY <1>3
    <2> QED BY <2>1, NewsOfPushes
  <1>10. owed \in SUBSET Observers => owed' \in SUBSET Observers
    BY <1>3, <1>5, EntryFields
  <1> QED BY <1>5, <1>6, <1>7, <1>8, <1>9, <1>10 DEF snapshot

(* The calls are in order after it, if below is what was there, or that with *)
(* its top moved on.                                                         *)
LEMMA RoundCalls ==
  ASSUME Calls, NEW s \in Subjects, NEW below \in Seq(AnyFrame), StartRound(registry, s, below),
         NumRounds(below) = NumRounds(stack), Draining(below) <=> Draining(stack), Nested(below),
         UNCHANGED <<draining, pending, held, dropped>>
  PROVE  Calls'
  <1> DEFINE f == NotifyFrame(EntriesOf(Wiring[s]))
  <1>1. /\ stack' = Append(below, f) /\ registry' = registry /\ depth' = depth + 1
        /\ f \in AnyFrame /\ f.op = "notify" /\ FrameOk(f)
    BY RoundStarts
  <1> HIDE DEF f
  <1>2. /\ stack' \in Seq(AnyFrame) /\ (Draining(stack') <=> Draining(below))
        /\ Served(stack') /\ Nested(stack')
    BY <1>1, Pushed DEF Serves
  <1>3. NumRounds(stack') = NumRounds(below) + 1
    BY <1>1, RoundCount
  <1> QED BY <1>1, <1>2, <1>3 DEF Calls

(* Who is informed stays informed.                                           *)
LEMMA RoundNews ==
  ASSUME Calls, NEW s \in Subjects, NEW below \in Seq(AnyFrame), StartRound(registry, s, below),
         UNCHANGED pending, NEW w
  PROVE  /\ NewsOf(below, w) \/ {w, Watches[w]} \cap pending # {} => Hears(w)'
         /\ w \in Wiring[s] \/ Watches[w] \in Wiring[s] => Hears(w)'
         /\ AllTell(stack', w) <=> AllTell(below, w)
  <1> DEFINE f == NotifyFrame(EntriesOf(Wiring[s]))
  <1>1. /\ stack' = Append(below, f) /\ f \in AnyFrame
        /\ w \in Wiring[s] \/ Watches[w] \in Wiring[s] => News(f, w)
        /\ WillTell(f, w)
    BY RoundStarts, NewsOfPushes
  <1> HIDE DEF f
  <1>2. /\ NewsOf(stack', w) <=> NewsOf(below, w) \/ News(f, w)
        /\ AllTell(stack', w) <=> AllTell(below, w) /\ WillTell(f, w)
    BY <1>1, Pushed
  <1> QED BY <1>1, <1>2 DEF Hears
-----------------------------------------------------------------------------
(* The top moves on, as a call of the same kind: what that leaves as it was. *)
LEMMA Moved ==
  ASSUME Calls, stack # <<>>, NEW g \in AnyFrame, g.op = Top.op, FrameOk(g)
  PROVE  LET r == ReplaceTop(g)
         IN  /\ r \in Seq(AnyFrame) /\ r # <<>> /\ Len(r) = Len(stack) /\ Len(stack) \in Nat
             /\ NumRounds(r) = NumRounds(stack)
             /\ Draining(r) <=> Draining(stack)
             /\ Served(r) <=> Served(stack)
             /\ Nested(r)
             /\ \A w : NewsOf(stack, w) <=> NewsOf(Below, w) \/ News(Top, w)
             /\ \A w : NewsOf(r, w) <=> NewsOf(Below, w) \/ News(g, w)
             /\ \A w : AllTell(stack, w) <=> AllTell(Below, w) /\ WillTell(Top, w)
             /\ \A w : AllTell(r, w) <=> AllTell(Below, w) /\ WillTell(g, w)
  <1>1. /\ Below \in Seq(AnyFrame) /\ Top \in AnyFrame /\ stack = Append(Below, Top)
        /\ Len(stack) \in Nat /\ Len(Below) = Len(stack) - 1
    BY TopOfStack DEF Calls
  <1>2. ReplaceTop(g) = Append(Below, g)
    BY DEF ReplaceTop
  <1>3. /\ NumRounds(stack) = IF Top.op = "notify" THEN NumRounds(Below) + 1 ELSE NumRounds(Below)
        /\ NumRounds(ReplaceTop(g)) = IF g.op = "notify" THEN NumRounds(Below) + 1
                                                          ELSE NumRounds(Below)
    BY <1>1, <1>2, RoundCount
  <1>4. /\ Draining(stack) <=> Draining(Below) \/ Top.op = "drain"
        /\ Served(stack) <=> Served(Below) \/ Serves(Top)
        /\ Nested(stack) <=> /\ Nested(Below) /\ FrameOk(Top)
                             /\ Top.op = "drain" => OnlyClears(Below)
                             /\ Top.op = "update" => Served(Below)
        /\ \A w : NewsOf(stack, w) <=> NewsOf(Below, w) \/ News(Top, w)
        /\ \A w : AllTell(stack, w) <=> AllTell(Below, w) /\ WillTell(Top, w)
    BY <1>1, Pushed
  <1>5. /\ ReplaceTop(g) \in Seq(AnyFrame) /\ ReplaceTop(g) # <<>>
        /\ Len(ReplaceTop(g)) = Len(Below) + 1
        /\ Draining(ReplaceTop(g)) <=> Draining(Below) \/ g.op = "drain"
        /\ Served(ReplaceTop(g)) <=> Served(Below) \/ Serves(g)
        /\ Nested(ReplaceTop(g)) <=> /\ Nested(Below) /\ FrameOk(g)
                                     /\ g.op = "drain" => OnlyClears(Below)
                                     /\ g.op = "update" => Served(Below)
        /\ \A w : NewsOf(ReplaceTop(g), w) <=> NewsOf(Below, w) \/ News(g, w)
        /\ \A w : AllTell(ReplaceTop(g), w) <=> AllTell(Below, w) /\ WillTell(g, w)
    BY <1>1, <1>2, Pushed
  <1>6. Nested(stack)
    BY DEF Calls
  <1>7. Len(ReplaceTop(g)) = Len(stack)
    BY <1>1, <1>5
  <1> QED BY <1>1, <1>3, <1>4, <1>5, <1>6, <1>7 DEF Serves

(* The top moves on and nothing is called.                                   *)
LEMMA MovedCalls ==
  ASSUME Calls, stack # <<>>, NEW g \in AnyFrame, g.op = Top.op, FrameOk(g),
         stack' = ReplaceTop(g), UNCHANGED <<registry, depth, draining, held, dropped>>,
         pending' \in SUBSET Observers, pending' # {} => Served(stack)
  PROVE  Calls'
  BY Moved DEF Calls

(* The top is over: what is left below it.                                   *)
LEMMA Returned ==
  ASSUME Calls, stack # <<>>
  PROVE  /\ Below \in Seq(AnyFrame) /\ Nested(Below) /\ FrameOk(Top) /\ Top \in AnyFrame
         /\ Top.op = "drain" => OnlyClears(Below)
         /\ NumRounds(stack) = IF Top.op = "notify" THEN NumRounds(Below) + 1 ELSE NumRounds(Below)
         /\ NumRounds(Below) \in Nat
         /\ Draining(stack) <=> Draining(Below) \/ Top.op = "drain"
         /\ Served(stack) <=> Served(Below) \/ Serves(Top)
         /\ Served(Below) <=> NumRounds(Below) # 0 \/ Draining(Below)
         /\ \A w : NewsOf(stack, w) <=> NewsOf(Below, w) \/ News(Top, w)
         /\ \A w : AllTell(stack, w) <=> AllTell(Below, w) /\ WillTell(Top, w)
         /\ Len(Below) = Len(stack) - 1 /\ Len(stack) \in Nat
         /\ \A v : Updating(stack, v) <=> Updating(Below, v) \/ (Top.op = "update" /\ Top.who = v)
         /\ InClear(stack) <=> InClear(Below) \/ Top.op = "clear"
  <1>1. /\ Below \in Seq(AnyFrame) /\ Top \in AnyFrame /\ stack = Append(Below, Top)
        /\ Len(stack) \in Nat /\ Len(Below) = Len(stack) - 1
    BY TopOfStack DEF Calls
  <1>2. /\ NumRounds(stack) = IF Top.op = "notify" THEN NumRounds(Below) + 1 ELSE NumRounds(Below)
        /\ NumRounds(Below) \in Nat
        /\ Served(Below) <=> NumRounds(Below) # 0 \/ Draining(Below)
    BY <1>1, RoundCount
  <1>3. /\ Draining(stack) <=> Draining(Below) \/ Top.op = "drain"
        /\ Served(stack) <=> Served(Below) \/ Serves(Top)
        /\ Nested(stack) <=> /\ Nested(Below) /\ FrameOk(Top)
                             /\ Top.op = "drain" => OnlyClears(Below)
                             /\ Top.op = "update" => Served(Below)
        /\ \A w : NewsOf(stack, w) <=> NewsOf(Below, w) \/ News(Top, w)
        /\ \A w : AllTell(stack, w) <=> AllTell(Below, w) /\ WillTell(Top, w)
        /\ \A v : Updating(stack, v) <=> Updating(Below, v) \/ (Top.op = "update" /\ Top.who = v)
        /\ InClear(stack) <=> InClear(Below) \/ Top.op = "clear"
    BY <1>1, Pushed
  <1> QED BY <1>1, <1>2, <1>3 DEF Calls

(* A round or a drain updates an observer.                                   *)
LEMMA UpdateBegins ==
  ASSUME Calls, stack # <<>>, NEW g \in AnyFrame, g.op = Top.op, FrameOk(g), Serves(Top),
         NEW v \in Observers, stack' = Append(ReplaceTop(g), UpdateFrame(v)),
         UNCHANGED <<registry, depth, draining, pending, held, dropped>>
  PROVE  /\ Calls'
         /\ \A w : NewsOf(Below, w) \/ News(g, w) \/ v = Watches[w] => NewsOf(stack', w)
         /\ \A w : AllTell(stack', w) <=> AllTell(Below, w) /\ WillTell(g, w)
         /\ Len(stack') > Len(stack) /\ stack'[Len(stack')] = UpdateFrame(v)
  <1> DEFINE r == ReplaceTop(g)
             u == UpdateFrame(v)
  <1>1. /\ r \in Seq(AnyFrame) /\ r # <<>> /\ Len(r) = Len(stack) /\ Len(stack) \in Nat
        /\ NumRounds(r) = NumRounds(stack)
        /\ Draining(r) <=> Draining(stack)
        /\ Served(r) <=> Served(stack)
        /\ Nested(r)
        /\ \A w : NewsOf(r, w) <=> NewsOf(Below, w) \/ News(g, w)
        /\ \A w : AllTell(r, w) <=> AllTell(Below, w) /\ WillTell(g, w)
    BY Moved
  <1>2. u \in AnyFrame /\ u.op = "update" /\ FrameOk(u)
    BY FrameTypes DEF AnyFrame, UpdateFrame, FrameOk
  <1>3. \A w : (v = Watches[w] => News(u, w)) /\ WillTell(u, w)
    BY NewsOfPushes
  <1>4. stack' = Append(r, u) /\ Served(stack)
    BY Returned
  <1> HIDE DEF r, u
  <1>5. /\ stack' \in Seq(AnyFrame) /\ Len(stack') = Len(r) + 1 /\ stack'[Len(stack')] = u
        /\ Draining(stack') <=> Draining(r)
        /\ Served(stack')
        /\ Nested(stack')
        /\ \A w : NewsOf(stack', w) <=> NewsOf(r, w) \/ News(u, w)
        /\ \A w : AllTell(stack', w) <=> AllTell(r, w) /\ WillTell(u, w)
    BY <1>1, <1>2, <1>4, Pushed
  <1>6. NumRounds(stack') = NumRounds(r)
    BY <1>1, <1>2, <1>4, RoundCount
  <1>7. Calls'
    BY <1>1, <1>5, <1>6 DEF Calls
  <1>8. Len(stack') > Len(stack)
    BY <1>1, <1>5
  <1> QED BY <1>1, <1>3, <1>5, <1>7, <1>8 DEF u

(* What a step of the engine does to the answers.                            *)
LEMMA EngineAnswers ==
  ASSUME EngineStep
  PROVE  /\ UNCHANGED <<evaluationDate, enforces, store>>
         /\ \A w \in Clients : answer'[w].read => answer'[w] = answer[w]
         /\ \A w \in Clients : Len(stack') > Len(stack) /\ stack'[Len(stack')] = UpdateFrame(w)
                                 => ~answer'[w].read
  BY DEF EngineStep, Unread
-----------------------------------------------------------------------------
(* The steps of a round.                                                     *)
LEMMA RoundUpdateKeeps ==
  ASSUME Calls, NewsComes, EngineStep, RoundUpdate
  PROVE  Calls' /\ NewsComes'
  <1>1. PICK e \in Top.todo : stack' = Append(ReplaceTop(Done(Top, e)), UpdateFrame(e.observer))
    BY DEF RoundUpdate, Done
  <1>2. stack # <<>> /\ Top.op = "notify" /\ Top \in Frame /\ FrameOk(Top)
    BY Returned, FrameKinds DEF RoundUpdate, TopIs
  <1>3. /\ e \in Entry /\ e.observer \in Observers
        /\ Done(Top, e) \in Frame /\ Done(Top, e).op = "notify" /\ Done(Top, e).todo = Top.todo \ {e}
    BY <1>1, <1>2, FrameFields, EntryFields
  <1>4. FrameOk(Done(Top, e)) /\ Serves(Top) /\ Done(Top, e) \in AnyFrame
    BY <1>2, <1>3 DEF FrameOk, Serves, AnyFrame
  <1>5. /\ Calls'
        /\ \A w : NewsOf(Below, w) \/ News(Done(Top, e), w) \/ e.observer = Watches[w]
                   => NewsOf(stack', w)
        /\ \A w : AllTell(stack', w) <=> AllTell(Below, w) /\ WillTell(Done(Top, e), w)
        /\ Len(stack') > Len(stack) /\ stack'[Len(stack')] = UpdateFrame(e.observer)
    BY <1>1, <1>2, <1>3, <1>4, UpdateBegins DEF RoundUpdate
  <1>6. ASSUME NEW w \in Clients, Hears(w) PROVE Hears(w)' \/ ~answer'[w].read
    <2>1. CASE e.observer = w
      BY <1>5, <2>1, EngineAnswers
    <2>2. CASE e.observer # w
      <3>1. News(Top, w) => News(Done(Top, e), w) \/ e.observer = Watches[w]
        BY <1>2, <1>3, <2>2, NewsOfRounds
      <3> QED BY <1>2, <1>5, <1>6, <3>1, Returned DEF Hears, RoundUpdate
    <2> QED BY <2>1, <2>2
  <1>7. ASSUME NEW w \in Clients, AllTell(stack, w) PROVE AllTell(stack', w)
    BY <1>2, <1>3, <1>5, <1>7, Returned, NewsOfOthers
  <1>8. NewsComes'
    BY <1>6, <1>7, EngineAnswers, NewsKept
  <1> QED BY <1>5, <1>8

(* Nobody opts out, so a busy observer is told later.                        *)
LEMMA RoundDefersKeep ==
  ASSUME Calls, NewsComes, EngineStep, RoundDefer \/ RoundDiscard
  PROVE  Calls' /\ NewsComes'
  <1>1. PICK e \in Top.todo : /\ stack' = ReplaceTop(Done(Top, e))
                              /\ pending' = IF RoundDefer THEN pending \cup {e.observer} ELSE pending
                              /\ ~RoundDefer => ~e.defer
    BY DEF RoundDefer, RoundDiscard, Done
  <1>2. stack # <<>> /\ Top.op = "notify" /\ Top \in Frame /\ FrameOk(Top)
    BY Returned, FrameKinds DEF RoundDefer, RoundDiscard, TopIs
  <1>3. /\ e \in Entry /\ e.observer \in Observers
        /\ Done(Top, e) \in Frame /\ Done(Top, e).op = "notify" /\ Done(Top, e).todo = Top.todo \ {e}
    BY <1>1, <1>2, FrameFields, EntryFields
  <1>4. FrameOk(Done(Top, e)) /\ Serves(Top) /\ Done(Top, e) \in AnyFrame
    BY <1>2, <1>3 DEF FrameOk, Serves, AnyFrame
  <1>5. /\ \A w : NewsOf(stack, w) <=> NewsOf(Below, w) \/ News(Top, w)
        /\ \A w : NewsOf(stack', w) <=> NewsOf(Below, w) \/ News(Done(Top, e), w)
        /\ \A w : AllTell(stack, w) <=> AllTell(Below, w) /\ WillTell(Top, w)
        /\ \A w : AllTell(stack', w) <=> AllTell(Below, w) /\ WillTell(Done(Top, e), w)
    BY <1>1, <1>2, <1>3, <1>4, Moved
  <1>6. Served(stack) /\ pending \in SUBSET Observers
    BY <1>2, <1>4, Returned DEF Calls
  <1>7. Calls'
    BY <1>1, <1>2, <1>3, <1>4, <1>6, MovedCalls DEF RoundDefer, RoundDiscard
  <1>8. ASSUME NEW w \in Clients, Hears(w) PROVE Hears(w)'
    <2>1. w \notin Discarding /\ Watches[w] \notin Discarding
      BY Wired
    <2>2. e.observer \in {w, Watches[w]} => e.observer \in pending'
      BY <1>1, <1>2, <2>1 DEF FrameOk
    <2>3. News(Top, w) => News(Done(Top, e), w) \/ e.observer \in {w, Watches[w]}
      BY <1>2, <1>3, NewsOfRounds
    <2>4. pending \subseteq pending'
      BY <1>1
    <2> QED BY <1>5, <1>8, <2>2, <2>3, <2>4 DEF Hears
  <1>9. ASSUME NEW w \in Clients, AllTell(stack, w) PROVE AllTell(stack', w)
    BY <1>3, <1>5, <1>9, NewsOfOthers
  <1>10. NewsComes'
    BY <1>8, <1>9, EngineAnswers, NewsKept
  <1> QED BY <1>7, <1>10

(* The outermost round becomes the drain: nothing but clears is below it.    *)
LEMMA RoundEndKeeps ==
  ASSUME Calls, NewsComes, EngineStep, RoundEnd
  PROVE  Calls' /\ NewsComes'
  <1> DEFINE drains == depth' = 0 /\ ~draining
  <1>1. /\ stack # <<>> /\ Top.op = "notify" /\ Top \in Frame /\ Top.todo = {}
        /\ depth' = depth - 1
        /\ UNCHANGED <<registry, pending, held, dropped>>
    BY Returned, FrameKinds DEF RoundEnd, TopIs
  <1>2. /\ Below \in Seq(AnyFrame) /\ Nested(Below)
        /\ NumRounds(stack) = NumRounds(Below) + 1 /\ NumRounds(Below) \in Nat
        /\ Draining(stack) <=> Draining(Below)
        /\ Served(Below) <=> NumRounds(Below) # 0 \/ Draining(Below)
        /\ \A w : NewsOf(stack, w) <=> NewsOf(Below, w) \/ News(Top, w)
        /\ \A w : AllTell(stack, w) <=> AllTell(Below, w) /\ WillTell(Top, w)
    BY <1>1, Returned
  <1>3. \A w : ~News(Top, w)
    BY <1>1, NewsOfRounds
  <1>4. depth' = NumRounds(Below)
    BY <1>1, <1>2 DEF Calls
  <1>5. CASE drains
    <2> DEFINE f == DrainFrame
    <2>1. stack' = Append(Below, f) /\ draining'
      BY <1>5 DEF RoundEnd, ReplaceTop
    <2>2. f \in AnyFrame /\ f.op = "drain" /\ FrameOk(f) /\ \A w : WillTell(f, w)
      BY FrameTypes, NewsOfPushes DEF AnyFrame, DrainFrame, FrameOk
    <2> HIDE DEF f
    <2>3. OnlyClears(Below)
      BY <1>2, <1>4, <1>5, Unserved DEF Calls
    <2>4. /\ stack' \in Seq(AnyFrame) /\ Draining(stack') /\ Served(stack') /\ Nested(stack')
          /\ \A w : NewsOf(stack', w) <=> NewsOf(Below, w) \/ News(f, w)
          /\ \A w : AllTell(stack', w) <=> AllTell(Below, w) /\ WillTell(f, w)
      BY <1>2, <2>1, <2>2, <2>3, Pushed DEF Serves
    <2>5. NumRounds(stack') = NumRounds(Below)
      BY <1>2, <2>1, <2>2, RoundCount
    <2>6. draining' \in BOOLEAN
      BY Zenon DEF RoundEnd
    <2>7. Calls'
      BY <1>1, <1>4, <2>1, <2>4, <2>5, <2>6 DEF Calls
    <2>8. \A w \in Clients : Hears(w) => Hears(w)'
      BY <1>1, <1>2, <1>3, <2>4 DEF Hears
    <2>9. \A w \in Clients : AllTell(stack, w) => AllTell(stack', w)
      BY <1>2, <2>2, <2>4
    <2> QED BY <2>7, <2>8, <2>9, EngineAnswers, NewsKept
  <1>6. CASE ~drains
    <2>1. stack' = Below /\ draining' = draining
      BY <1>6, Zenon DEF RoundEnd, Calls
    <2>2. pending' # {} => Served(stack')
      BY <1>2, <1>4, <1>6, <2>1 DEF Calls
    <2>3. Calls'
      BY <1>1, <1>2, <1>4, <2>1, <2>2 DEF Calls
    <2>4. \A w \in Clients : Hears(w) => Hears(w)'
      BY <1>1, <1>2, <1>3, <2>1 DEF Hears
    <2>5. \A w \in Clients : AllTell(stack, w) => AllTell(stack', w)
      BY <1>2, <2>1
    <2> QED BY <2>3, <2>4, <2>5, EngineAnswers, NewsKept
  <1> QED BY <1>5, <1>6
-----------------------------------------------------------------------------
(* The steps of a drain.                                                     *)
LEMMA DrainTop ==
  ASSUME Calls, TopIs("drain")
  PROVE  /\ stack # <<>> /\ Top.op = "drain" /\ Top \in Frame /\ Top \in AnyFrame
         /\ FrameOk(Top) /\ Top.stalled = {} /\ Serves(Top) /\ Served(stack)
         /\ Top.batch \in SUBSET Observers
         /\ OnlyClears(Below) /\ ~Draining(Below)
         /\ \A v \in Observers : Live(v) /\ ~Busy(v)
  <1>1. stack # <<>> /\ Top.op = "drain"
    BY DEF TopIs
  <1>2. /\ FrameOk(Top) /\ Top \in AnyFrame /\ OnlyClears(Below) /\ Served(stack)
        /\ \A v : Updating(stack, v) => Updating(Below, v)
    BY <1>1, Returned DEF Serves
  <1>3. Top \in Frame /\ Top.batch \in SUBSET Observers
    BY <1>1, <1>2, FrameKinds, FrameFields
  <1>4. /\ ~Draining(Below)
        /\ \A v : ~Updating(Below, v)
    BY <1>2 DEF OnlyClears, Draining, Updating
  <1>5. \A v \in Observers : Live(v) /\ ~Busy(v)
    BY <1>2, <1>4 DEF Live, Busy, OnStack, Updating, Calls
  <1> QED BY <1>1, <1>2, <1>3, <1>4, <1>5 DEF FrameOk, Serves

LEMMA DrainTakeKeeps ==
  ASSUME Calls, NewsComes, EngineStep, DrainTake
  PROVE  Calls' /\ NewsComes'
  <1> DEFINE g == Taking(Top, pending)
  <1>1. /\ stack # <<>> /\ Top.op = "drain" /\ Top \in Frame /\ FrameOk(Top) /\ Top.stalled = {}
        /\ Top.batch = {} /\ pending \in SUBSET Observers /\ Served(stack)
    BY DrainTop DEF DrainTake, Calls
  <1>2. stack' = ReplaceTop(g) /\ pending' = {}
    BY DEF DrainTake, Taking
  <1>3. g \in Frame /\ g.op = "drain" /\ g.stalled = {}
    BY <1>1, FrameFields
  <1>4. /\ \A w : News(Top, w) \/ {w, Watches[w]} \cap pending # {} => News(g, w)
        /\ \A w : WillTell(g, w)
    BY <1>1, <1>3, NewsOfDrains, NewsOfOthers
  <1> HIDE DEF g
  <1>5. g \in AnyFrame /\ FrameOk(g)
    BY <1>3 DEF AnyFrame, FrameOk
  <1>6. /\ \A w : NewsOf(stack, w) <=> NewsOf(Below, w) \/ News(Top, w)
        /\ \A w : NewsOf(stack', w) <=> NewsOf(Below, w) \/ News(g, w)
        /\ \A w : AllTell(stack, w) <=> AllTell(Below, w) /\ WillTell(Top, w)
        /\ \A w : AllTell(stack', w) <=> AllTell(Below, w) /\ WillTell(g, w)
    BY <1>1, <1>2, <1>3, <1>5, Moved
  <1>7. Calls'
    BY <1>1, <1>2, <1>3, <1>5, MovedCalls DEF DrainTake
  <1>8. \A w \in Clients : Hears(w) => Hears(w)'
    BY <1>4, <1>6 DEF Hears
  <1>9. \A w \in Clients : AllTell(stack, w) => AllTell(stack', w)
    BY <1>4, <1>6
  <1> QED BY <1>7, <1>8, <1>9, EngineAnswers, NewsKept

LEMMA DrainUpdateKeeps ==
  ASSUME Calls, NewsComes, EngineStep, DrainUpdate
  PROVE  Calls' /\ NewsComes'
  <1>1. PICK v \in Top.batch : stack' = Append(ReplaceTop(Delivering(Top, v)), UpdateFrame(v))
    BY DEF DrainUpdate, Delivering
  <1>2. /\ stack # <<>> /\ Top.op = "drain" /\ Top \in Frame /\ Top.stalled = {} /\ Serves(Top)
        /\ v \in Observers
    BY <1>1, DrainTop DEF DrainUpdate
  <1>3. Delivering(Top, v) \in Frame /\ Delivering(Top, v).op = "drain"
        /\ Delivering(Top, v).stalled = {}
    <2>1. \A f \in Frame : f.op = "drain" => /\ Delivering(f, v) \in Frame /\ Delivering(f, v).op = "drain"
                                              /\ Delivering(f, v).stalled = f.stalled
      BY <1>2, FrameFields
    <2> QED BY <1>2, <2>1
  <1>4. FrameOk(Delivering(Top, v)) /\ Delivering(Top, v) \in AnyFrame
    BY <1>3 DEF FrameOk, AnyFrame
  <1>5. /\ Calls'
        /\ \A w : NewsOf(Below, w) \/ News(Delivering(Top, v), w) \/ v = Watches[w]
                   => NewsOf(stack', w)
        /\ \A w : AllTell(stack', w) <=> AllTell(Below, w) /\ WillTell(Delivering(Top, v), w)
        /\ Len(stack') > Len(stack) /\ stack'[Len(stack')] = UpdateFrame(v)
    BY <1>1, <1>2, <1>3, <1>4, UpdateBegins DEF DrainUpdate
  <1>6. ASSUME NEW w \in Clients, Hears(w) PROVE Hears(w)' \/ ~answer'[w].read
    <2>1. CASE v = w
      BY <1>5, <2>1, EngineAnswers
    <2>2. CASE v # w
      <3>1. News(Top, w) => News(Delivering(Top, v), w) \/ v = Watches[w]
        BY <1>2, <2>2, NewsOfDrains
      <3> QED BY <1>2, <1>5, <1>6, <3>1, Returned DEF Hears, DrainUpdate
    <2> QED BY <2>1, <2>2
  <1>7. ASSUME NEW w \in Clients, AllTell(stack, w) PROVE AllTell(stack', w)
    BY <1>2, <1>3, <1>5, <1>7, Returned, NewsOfOthers
  <1>8. NewsComes'
    BY <1>6, <1>7, EngineAnswers, NewsKept
  <1> QED BY <1>5, <1>8

(* Nothing is set aside, so nothing is pending when the drain is over.       *)
LEMMA DrainEndKeeps ==
  ASSUME Calls, NewsComes, EngineStep, DrainEnd
  PROVE  Calls' /\ NewsComes'
  <1>1. /\ stack # <<>> /\ Top.op = "drain" /\ Top \in Frame /\ Top.stalled = {} /\ Top.batch = {}
        /\ pending = {} /\ pending' = {} /\ stack' = Below /\ draining' = FALSE
        /\ ~Draining(Below)
        /\ UNCHANGED <<registry, depth, held, dropped>>
    BY DrainTop DEF DrainEnd
  <1>2. /\ Below \in Seq(AnyFrame) /\ Nested(Below) /\ NumRounds(stack) = NumRounds(Below)
        /\ \A w : NewsOf(stack, w) <=> NewsOf(Below, w) \/ News(Top, w)
        /\ \A w : AllTell(stack, w) <=> AllTell(Below, w) /\ WillTell(Top, w)
    BY <1>1, Returned
  <1>3. \A w : ~News(Top, w)
    BY <1>1, NewsOfDrains
  <1>4. Calls'
    BY <1>1, <1>2 DEF Calls
  <1>5. \A w \in Clients : Hears(w) => Hears(w)'
    BY <1>1, <1>2, <1>3 DEF Hears
  <1>6. \A w \in Clients : AllTell(stack, w) => AllTell(stack', w)
    BY <1>1, <1>2
  <1> QED BY <1>4, <1>5, <1>6, EngineAnswers, NewsKept

-----------------------------------------------------------------------------
(* The steps of an update.  An index passes its news on to its clients.      *)
LEMMA ForwardKeeps ==
  ASSUME Calls, NewsComes, EngineStep, ForwardBroadcast \/ ForwardDeliver
  PROVE  Calls' /\ NewsComes'
  <1> DEFINE g == Sent(Top)
  <1>1. /\ stack # <<>> /\ Top.op = "update" /\ Top \in Frame /\ FrameOk(Top)
        /\ Top.who \in Indexes
    BY Returned, FrameKinds, Wired DEF ForwardBroadcast, ForwardDeliver, TopIs
  <1>2. Target[Top.who] \in Subjects /\ ForwardBroadcast
    BY <1>1, Wired DEF ForwardDeliver, ForwardBroadcast
  <1>3. StartRound(registry, Target[Top.who], ReplaceTop(g))
    BY <1>2 DEF ForwardBroadcast, Sent
  <1>4. g \in Frame /\ g.op = "update" /\ \A w : WillTell(g, w)
    BY <1>1, FrameFields, NewsOfOthers
  <1> HIDE DEF g
  <1>5. g \in AnyFrame /\ FrameOk(g)
    BY <1>4 DEF AnyFrame, FrameOk
  <1>6. /\ ReplaceTop(g) \in Seq(AnyFrame) /\ NumRounds(ReplaceTop(g)) = NumRounds(stack)
        /\ Draining(ReplaceTop(g)) <=> Draining(stack)
        /\ Nested(ReplaceTop(g))
        /\ \A w : NewsOf(stack, w) <=> NewsOf(Below, w) \/ News(Top, w)
        /\ \A w : NewsOf(ReplaceTop(g), w) <=> NewsOf(Below, w) \/ News(g, w)
        /\ \A w : AllTell(stack, w) <=> AllTell(Below, w) /\ WillTell(Top, w)
        /\ \A w : AllTell(ReplaceTop(g), w) <=> AllTell(Below, w) /\ WillTell(g, w)
    BY <1>1, <1>4, <1>5, Moved
  <1>7. Calls'
    BY <1>2, <1>3, <1>6, RoundCalls DEF ForwardBroadcast
  <1>8. ASSUME NEW w \in Clients
        PROVE  /\ Hears(w) => Hears(w)'
               /\ AllTell(stack, w) => AllTell(stack', w)
    <2>1. /\ NewsOf(ReplaceTop(g), w) \/ {w, Watches[w]} \cap pending # {} => Hears(w)'
          /\ w \in Wiring[Target[Top.who]] => Hears(w)'
          /\ AllTell(stack', w) <=> AllTell(ReplaceTop(g), w)
      BY <1>2, <1>3, <1>6, RoundNews DEF ForwardBroadcast
    <2>2. News(Top, w) => Top.who = Watches[w]
      BY <1>1, NewsOfOthers
    <2>3. Top.who = Watches[w] => w \in Wiring[Target[Top.who]]
      BY Wired
    <2> QED BY <1>4, <1>6, <2>1, <2>2, <2>3 DEF Hears
  <1> QED BY <1>7, <1>8, EngineAnswers, NewsKept

LEMMA ReturnKeeps ==
  ASSUME Calls, NewsComes, EngineStep, Return
  PROVE  Calls' /\ NewsComes'
  <1>1. /\ stack # <<>> /\ Top.op = "update" /\ stack' = Below
        /\ Top.who \in Clients \/ Top.sent
        /\ UNCHANGED <<registry, depth, draining, pending, held, dropped>>
    BY DEF Return, TopIs
  <1>2. /\ Below \in Seq(AnyFrame) /\ Nested(Below) /\ NumRounds(stack) = NumRounds(Below)
        /\ Draining(stack) <=> Draining(Below)
        /\ Served(stack) <=> Served(Below)
        /\ \A w : NewsOf(stack, w) <=> NewsOf(Below, w) \/ News(Top, w)
        /\ \A w : AllTell(stack, w) <=> AllTell(Below, w) /\ WillTell(Top, w)
    BY <1>1, Returned DEF Serves
  <1>3. \A w \in Clients : ~News(Top, w)
    BY <1>1, Wired, NewsOfOthers
  <1>4. Calls'
    BY <1>1, <1>2 DEF Calls
  <1>5. \A w \in Clients : Hears(w) => Hears(w)'
    BY <1>1, <1>2, <1>3 DEF Hears
  <1>6. \A w \in Clients : AllTell(stack, w) => AllTell(stack', w)
    BY <1>1, <1>2
  <1> QED BY <1>4, <1>5, <1>6, EngineAnswers, NewsKept

LEMMA EngineKeeps ==
  ASSUME Calls, NewsComes, EngineStep
  PROVE  Calls' /\ NewsComes'
  <1>1. ~DrainSkip /\ ~DrainStall
    BY DrainTop DEF DrainSkip, DrainStall
  <1> QED BY <1>1, RoundUpdateKeeps, RoundDefersKeep, RoundEndKeeps, DrainTakeKeeps,
             DrainUpdateKeeps, DrainEndKeeps, ForwardKeeps, ReturnKeeps DEF EngineStep, Engine
-----------------------------------------------------------------------------
(* An answer stays current while the date and the history it was read from   *)
(* stay as they are.                                                         *)
LEMMA StaysCurrent ==
  ASSUME NEW w \in Clients, answer'[w] = answer[w], evaluationDate' = evaluationDate,
         \A d \in Days : Recorded(Key(w), d)' = Recorded(Key(w), d)
  PROVE  IsCurrent(w)' <=> IsCurrent(w)
  <1>1. ASSUME NEW strict PROVE Fixings(w, strict)' = Fixings(w, strict)
    BY DEF Fixings, Fixing, Key
  <1> QED BY <1>1 DEF IsCurrent

(* What is read outside a clear is current, and no clear is about to remove  *)
(* it.                                                                       *)
LEMMA ReadKeeps ==
  ASSUME Calls, NewsComes, DataTypes, NEW u \in Clients, Read(u)
  PROVE  Calls' /\ NewsComes'
  <1>1. /\ UNCHANGED <<registry, stack, depth, draining, pending, held, dropped>>
        /\ UNCHANGED <<evaluationDate, store>>
    BY DEF Read, vars
  <1>2. Calls'
    BY <1>1 DEF Calls
  <1>3. SUFFICES ASSUME NEW w \in Clients, Keeps(w)', ~Hears(w)'
                 PROVE  IsCurrent(w)' /\ (Key(w) \in DOMAIN store => AllTell(stack, w))
    BY <1>1, <1>2 DEF NewsComes, AllTell, WillTell, Key
  <1>4. ~Hears(w)
    BY <1>1, <1>3 DEF Hears, NewsOf, News, Holds
  <1>5. CASE w = u
    <2>1. answer'[w] = [value |-> Fixings(w, enforces), read |-> TRUE,
                        strict |-> enforces, clearing |-> Clearing]
      BY <1>5 DEF Read, DataTypes
    <2>2. ~InClear(stack)
      BY <2>1, <1>3 DEF Keeps, Clearing, InClear
    <2>3. AllTell(stack, w)
      BY <2>2 DEF InClear, AllTell, WillTell
    <2>4. Fixings(w, enforces)' = Fixings(w, enforces)
      BY <1>1 DEF Read, Fixings, Fixing, Recorded
    <2>5. IsCurrent(w)'
      <3>1. answer'[w].value = Fixings(w, enforces) /\ answer'[w].strict = enforces
        BY <2>1
      <3>2. enforces' = enforces
        BY DEF Read
      <3> QED BY <2>4, <3>1, <3>2 DEF IsCurrent
    <2> QED BY <2>3, <2>5
  <1>6. CASE w # u
    <2>1. answer'[w] = answer[w]
      BY <1>6 DEF Read, DataTypes
    <2>2. IsCurrent(w) /\ (Key(w) \in DOMAIN store => AllTell(stack, w))
      BY <1>3, <1>4, <2>1 DEF NewsComes, Keeps
    <2>3. IsCurrent(w)'
      BY <1>1, <2>1, <2>2, StaysCurrent DEF Recorded
    <2> QED BY <2>2, <2>3
  <1> QED BY <1>5, <1>6

(* Everybody hears of a date.                                                *)
LEMMA DateKeeps ==
  ASSUME Calls, NewsComes, NEW date, AssignDate(date),
         UNCHANGED <<draining, pending, held, dropped>>
  PROVE  Calls' /\ NewsComes'
  <1>1. StartRound(registry, DateSubject, stack) /\ DateSubject \in Subjects
    BY Wired DEF AssignDate
  <1>2. stack \in Seq(AnyFrame) /\ Nested(stack)
    BY DEF Calls
  <1>3. Calls'
    BY <1>1, <1>2, RoundCalls
  <1>4. ASSUME NEW w \in Clients PROVE Hears(w)'
    <2>1. Watches[w] \in Wiring[DateSubject]
      BY Wired
    <2> QED BY <1>1, <1>2, <2>1, RoundNews
  <1> QED BY <1>3, <1>4 DEF NewsComes

(* The flag's setter tells nobody: no answer is current or not by the flag.  *)
LEMMA FlagKeeps ==
  ASSUME Calls, NewsComes, SetEnforcesTodaysHistoricFixings
  PROVE  Calls' /\ NewsComes'
  <1>1. UNCHANGED <<registry, stack, depth, draining, pending, held, dropped,
                    evaluationDate, store, answer>>
    BY DEF SetEnforcesTodaysHistoricFixings
  <1>2. Calls'
    BY <1>1 DEF Calls
  <1>3. ASSUME NEW w \in Clients
        PROVE  /\ IsCurrent(w)' <=> IsCurrent(w)
               /\ Hears(w)' <=> Hears(w)
               /\ Keeps(w)' <=> Keeps(w)
    <2>1. IsCurrent(w)' <=> IsCurrent(w)
      BY <1>1, StaysCurrent DEF Recorded
    <2> QED BY <1>1, <2>1 DEF Hears, NewsOf, News, Holds, Keeps
  <1>4. NewsComes'
    BY <1>1, <1>3 DEF NewsComes, AllTell, WillTell, Key
  <1> QED BY <1>2, <1>4

(* The clients of the name's indexes hear of fixings; nothing changes for    *)
(* the others.                                                               *)
LEMMA AddKeeps ==
  ASSUME Calls, NewsComes, NEW k \in Keys, NEW batch \in Batches, AddFixings(k, batch)
  PROVE  Calls' /\ NewsComes'
  <1>1. /\ StartRound(registry, Notifier[k], stack) /\ Notifier[k] \in Subjects
        /\ UNCHANGED <<draining, pending, held, dropped, evaluationDate, answer>>
    BY Wired DEF AddFixings
  <1>2. PICK history : store' = WithHistory(k, history)
    BY DEF AddFixings
  <1>3. stack \in Seq(AnyFrame) /\ Nested(stack)
    BY DEF Calls
  <1>4. Calls'
    BY <1>1, <1>3, RoundCalls
  <1>5. SUFFICES ASSUME NEW w \in Clients, Keeps(w)', ~Hears(w)'
                 PROVE  IsCurrent(w)' /\ (Key(w) \in DOMAIN store' => AllTell(stack', w))
    BY <1>4 DEF NewsComes, AllTell, WillTell, Key
  <1>6. /\ NewsOf(stack, w) \/ {w, Watches[w]} \cap pending # {} => Hears(w)'
        /\ Watches[w] \in Wiring[Notifier[k]] => Hears(w)'
        /\ AllTell(stack', w) <=> AllTell(stack, w)
    BY <1>1, <1>3, RoundNews
  <1>7. Key(w) # k /\ ~Hears(w)
    BY <1>5, <1>6, Wired DEF Key, Hears
  <1>8. (Key(w) \in DOMAIN store' <=> Key(w) \in DOMAIN store)
        /\ (Key(w) \in DOMAIN store => store'[Key(w)] = store[Key(w)])
    BY <1>2, <1>7 DEF WithHistory
  <1>9. \A d \in Days : Recorded(Key(w), d)' = Recorded(Key(w), d)
    BY <1>8 DEF Recorded, Key
  <1>10. IsCurrent(w) /\ (Key(w) \in DOMAIN store => AllTell(stack, w))
    BY <1>1, <1>5, <1>7 DEF NewsComes, Keeps
  <1>11. IsCurrent(w)'
    BY <1>1, <1>9, <1>10, StaysCurrent
  <1> QED BY <1>6, <1>8, <1>10, <1>11

-----------------------------------------------------------------------------
(* A clear begins: it will tell every name on record that it removes.        *)
LEMMA ClearKeeps ==
  ASSUME Calls, NewsComes, DataTypes, ClearFixings \/ \E k \in Keys : ClearFixing(k)
  PROVE  Calls' /\ NewsComes'
  <1>1. PICK c : /\ stack' = Append(stack, c) /\ c \in ClearFrame
                 /\ c.remove \cap DOMAIN store \subseteq c.todo
    <2>1. CASE ClearFixings
      <3> DEFINE c == [op |-> "clear", todo |-> DOMAIN store, remove |-> Keys]
      <3>1. stack' = Append(stack, c) /\ c \in ClearFrame
        BY <2>1 DEF ClearFixings, ClearFrame, DataTypes
      <3>2. c.remove \cap DOMAIN store \subseteq c.todo
        OBVIOUS
      <3> HIDE DEF c
      <3> QED BY <3>1, <3>2
    <2>2. ASSUME NEW k \in Keys, ClearFixing(k)
          PROVE  \E c : /\ stack' = Append(stack, c) /\ c \in ClearFrame
                        /\ c.remove \cap DOMAIN store \subseteq c.todo
      <3> DEFINE c == [op |-> "clear", todo |-> {k}, remove |-> {k}]
      <3>1. stack' = Append(stack, c) /\ c \in ClearFrame
        BY <2>2 DEF ClearFixing, ClearFrame
      <3>2. c.remove \cap DOMAIN store \subseteq c.todo
        OBVIOUS
      <3> HIDE DEF c
      <3> QED BY <3>1, <3>2
    <2> QED BY <2>1, <2>2
  <1>2. UNCHANGED <<registry, depth, draining, pending, held, dropped, evaluationDate, store, answer>>
    BY DEF ClearFixings, ClearFixing, settingsVars
  <1>3. c \in AnyFrame /\ c.op = "clear" /\ FrameOk(c) /\ ~Serves(c)
    BY <1>1 DEF AnyFrame, ClearFrame, FrameOk, Serves
  <1>4. stack \in Seq(AnyFrame)
    BY DEF Calls
  <1>5. /\ stack' \in Seq(AnyFrame) /\ (Draining(stack') <=> Draining(stack))
        /\ Served(stack') <=> Served(stack)
        /\ Nested(stack') <=> Nested(stack)
        /\ \A w : NewsOf(stack', w) <=> NewsOf(stack, w) \/ News(c, w)
        /\ \A w : AllTell(stack', w) <=> AllTell(stack, w) /\ WillTell(c, w)
    BY <1>1, <1>3, <1>4, Pushed
  <1>6. NumRounds(stack') = NumRounds(stack)
    BY <1>1, <1>3, <1>4, RoundCount
  <1>7. Calls'
    BY <1>2, <1>5, <1>6 DEF Calls
  <1>8. SUFFICES ASSUME NEW w \in Clients, Keeps(w)', ~Hears(w)'
                 PROVE  IsCurrent(w)' /\ (Key(w) \in DOMAIN store => AllTell(stack', w))
    BY <1>2, <1>7 DEF NewsComes, AllTell, WillTell, Key
  <1>9. Keeps(w) /\ ~Hears(w)
    BY <1>2, <1>5, <1>8 DEF Keeps, Hears
  <1>10. IsCurrent(w) /\ (Key(w) \in DOMAIN store => AllTell(stack, w))
    BY <1>9 DEF NewsComes
  <1>11. IsCurrent(w)'
    BY <1>2, <1>10, StaysCurrent DEF Recorded
  <1>12. Key(w) \in DOMAIN store => WillTell(c, w)
    BY <1>1 DEF WillTell
  <1> QED BY <1>5, <1>10, <1>11, <1>12

(* It notifies one name: the clients of its indexes hear of it.              *)
LEMMA ClearTellsKeeps ==
  ASSUME Calls, NewsComes, ClearTells
  PROVE  Calls' /\ NewsComes'
  <1>1. PICK k \in Top.todo :
          StartRound(registry, Notifier[k], ReplaceTop([Top EXCEPT !.todo = @ \ {k}]))
    BY DEF ClearTells
  <1> DEFINE g == [Top EXCEPT !.todo = @ \ {k}]
  <1>2. /\ stack # <<>> /\ Top.op = "clear" /\ Top \in ClearFrame /\ Top.todo \in SUBSET Keys
        /\ UNCHANGED <<draining, pending, held, dropped, evaluationDate, store, answer>>
    BY Returned, FrameKinds DEF ClearTells, TopIs, settingsVars
  <1>3. g \in ClearFrame /\ g.op = "clear" /\ g.remove = Top.remove /\ g.todo = Top.todo \ {k}
    BY <1>2 DEF ClearFrame
  <1>4. StartRound(registry, Notifier[k], ReplaceTop(g)) /\ Notifier[k] \in Subjects
    BY <1>1, <1>2, Wired
  <1> HIDE DEF g
  <1>5. g \in AnyFrame /\ FrameOk(g)
    BY <1>3 DEF AnyFrame, FrameOk
  <1>6. /\ ReplaceTop(g) \in Seq(AnyFrame) /\ NumRounds(ReplaceTop(g)) = NumRounds(stack)
        /\ Draining(ReplaceTop(g)) <=> Draining(stack)
        /\ Nested(ReplaceTop(g))
        /\ \A w : NewsOf(stack, w) <=> NewsOf(Below, w) \/ News(Top, w)
        /\ \A w : NewsOf(ReplaceTop(g), w) <=> NewsOf(Below, w) \/ News(g, w)
        /\ \A w : AllTell(stack, w) <=> AllTell(Below, w) /\ WillTell(Top, w)
        /\ \A w : AllTell(ReplaceTop(g), w) <=> AllTell(Below, w) /\ WillTell(g, w)
    BY <1>2, <1>3, <1>5, Moved
  <1>7. Calls'
    BY <1>2, <1>4, <1>6, RoundCalls
  <1>8. ASSUME NEW w \in Clients
        PROVE  /\ Hears(w) => Hears(w)'
               /\ AllTell(stack, w) => AllTell(stack', w) \/ Hears(w)'
    <2>1. /\ NewsOf(ReplaceTop(g), w) \/ {w, Watches[w]} \cap pending # {} => Hears(w)'
          /\ Watches[w] \in Wiring[Notifier[k]] => Hears(w)'
          /\ AllTell(stack', w) <=> AllTell(ReplaceTop(g), w)
      BY <1>2, <1>4, <1>6, RoundNews
    <2>2. ~News(Top, w)
      BY <1>2, NewsOfOthers
    <2>3. WillTell(Top, w) => WillTell(g, w) \/ Key(w) = k
      BY <1>2, <1>3 DEF WillTell
    <2>4. Key(w) = k => Watches[w] \in Wiring[Notifier[k]]
      BY Wired DEF Key
    <2> QED BY <1>6, <2>1, <2>2, <2>3, <2>4 DEF Hears
  <1> QED BY <1>2, <1>7, <1>8, NewsKept

(* It removes what it has told of: who keeps an answer of it has heard, or   *)
(* will hear.                                                                *)
LEMMA ClearRemovesKeeps ==
  ASSUME Calls, NewsComes, ClearRemoves
  PROVE  Calls' /\ NewsComes'
  <1>1. /\ stack # <<>> /\ Top.op = "clear" /\ Top.todo = {} /\ stack' = Below
        /\ store' = [n \in DOMAIN store \ Top.remove |-> store[n]]
        /\ UNCHANGED <<registry, depth, draining, pending, held, dropped, evaluationDate, answer>>
    BY DEF ClearRemoves, TopIs
  <1>2. /\ Below \in Seq(AnyFrame) /\ Nested(Below) /\ NumRounds(stack) = NumRounds(Below)
        /\ Draining(stack) <=> Draining(Below)
        /\ Served(stack) <=> Served(Below)
        /\ \A w : NewsOf(stack, w) <=> NewsOf(Below, w) \/ News(Top, w)
        /\ \A w : AllTell(stack, w) <=> AllTell(Below, w) /\ WillTell(Top, w)
    BY <1>1, Returned DEF Serves
  <1>3. Calls'
    BY <1>1, <1>2 DEF Calls
  <1>4. SUFFICES ASSUME NEW w \in Clients, Keeps(w)', ~Hears(w)'
                 PROVE  IsCurrent(w)' /\ (Key(w) \in DOMAIN store' => AllTell(stack', w))
    BY <1>3 DEF NewsComes, AllTell, WillTell, Key
  <1>5. Keeps(w) /\ ~Hears(w)
    BY <1>1, <1>2, <1>4, NewsOfOthers DEF Keeps, Hears
  <1>6. IsCurrent(w) /\ (Key(w) \in DOMAIN store => AllTell(stack, w))
    BY <1>5 DEF NewsComes
  <1>7. Key(w) \in DOMAIN store => Key(w) \notin Top.remove
    BY <1>1, <1>2, <1>6 DEF WillTell
  <1>8. (Key(w) \in DOMAIN store' <=> Key(w) \in DOMAIN store)
        /\ (Key(w) \in DOMAIN store => store'[Key(w)] = store[Key(w)])
    BY <1>1, <1>7
  <1>9. \A d \in Days : Recorded(Key(w), d)' = Recorded(Key(w), d)
    BY <1>8 DEF Recorded, Key
  <1>10. IsCurrent(w)'
    BY <1>1, <1>6, <1>9, StaysCurrent
  <1> QED BY <1>1, <1>2, <1>6, <1>8, <1>10
-----------------------------------------------------------------------------
(* What Index::fixing answers is a rate, a forecast or an error.             *)
LEMMA FixingTypes ==
  ASSUME DataTypes, NEW w \in Clients, NEW strict \in BOOLEAN
  PROVE  Fixings(w, strict) \in [Days -> [BOOLEAN -> Rates \cup {Missing, Forecast}]]
  <1>1. ASSUME NEW k, NEW d \in Days PROVE Recorded(k, d) \in Rates \cup {Missing}
    BY DEF Recorded, DataTypes, History
  <1>2. ASSUME NEW d \in Days, NEW f \in BOOLEAN
        PROVE  Fixing(KeyOf[Watches[w]], d, f, strict) \in Rates \cup {Missing, Forecast}
    BY <1>1 DEF Fixing
  <1> QED BY <1>2 DEF Fixings

(* The history an insertion leaves is a history.                             *)
LEMMA StoreTypes ==
  ASSUME DataTypes, NEW k \in Keys, NEW history \in History, store' = WithHistory(k, history)
  PROVE  DOMAIN store' \subseteq Keys /\ \A n \in DOMAIN store' : store'[n] \in History
  BY DEF DataTypes, WithHistory

(* Every step keeps the types.                                               *)
LEMMA DataStep ==
  ASSUME Calls, DataTypes, [SettingsNext]_allVars
  PROVE  DataTypes'
  <1>1. CASE UNCHANGED allVars
    BY <1>1 DEF allVars, vars, settingsVars, DataTypes
  <1>2. CASE EngineStep
    <2>1. UNCHANGED <<evaluationDate, enforces, store>>
      BY <1>2, EngineAnswers
    <2>2. Unread \in Answers
      <3>1. [d \in Days |-> [f \in BOOLEAN |-> Missing]]
              \in [Days -> [BOOLEAN -> Rates \cup {Missing, Forecast}]]
        OBVIOUS
      <3> QED BY <3>1 DEF Unread, Answers
    <2>3. answer' \in [Clients -> Answers]
      <3>1. \A w \in Clients : (IF Len(stack') > Len(stack) /\ stack'[Len(stack')] = UpdateFrame(w)
                                THEN Unread ELSE answer[w]) \in Answers
        BY <2>2 DEF DataTypes
      <3> QED BY <1>2, <3>1 DEF EngineStep
    <2>4. owed' \in SUBSET Observers
      <3>1. CASE ForwardBroadcast
        BY <3>1, RoundStarts DEF ForwardBroadcast, DataTypes
      <3>2. CASE ForwardDeliver
        BY <3>2 DEF ForwardDeliver, DataTypes
      <3>3. CASE RoundUpdate \/ RoundDefer \/ RoundDiscard \/ RoundEnd
        BY <3>3 DEF RoundUpdate, RoundDefer, RoundDiscard, RoundEnd, DataTypes
      <3>4. CASE DrainTake \/ DrainUpdate \/ DrainSkip \/ DrainStall \/ DrainEnd \/ Return
        BY <3>4 DEF DrainTake, DrainUpdate, DrainSkip, DrainStall, DrainEnd, Return, DataTypes
      <3> QED BY <1>2, <3>1, <3>2, <3>3, <3>4 DEF EngineStep, Engine
    <2> QED BY <2>1, <2>3, <2>4 DEF DataTypes
  <1>3. CASE ClearTells
    <2>1. PICK k \in Top.todo :
            StartRound(registry, Notifier[k], ReplaceTop([Top EXCEPT !.todo = @ \ {k}]))
      BY <1>3 DEF ClearTells
    <2>2. Top.todo \in SUBSET Keys
      BY <1>3, Returned, FrameKinds DEF ClearTells, TopIs
    <2>3. Notifier[k] \in Subjects
      BY <2>2, Wired
    <2>4. owed' \in SUBSET Observers
      BY <2>1, <2>3, RoundStarts DEF DataTypes
    <2> QED BY <1>3, <2>4 DEF ClearTells, settingsVars, DataTypes
  <1>4. CASE ClearRemoves
    BY <1>4 DEF ClearRemoves, DataTypes
  <1>5. CASE PinDate \/ \E date \in Days \cup {NoDate} : SetEvaluationDate(date)
    <2>1. PICK date \in Days \cup {NoDate} : AssignDate(date)
      BY <1>5, SettingsConstants DEF PinDate, SetEvaluationDate, NoDate
    <2>2. owed' \in SUBSET Observers
      BY <2>1, Wired, RoundStarts DEF AssignDate, DataTypes
    <2> QED BY <1>5, <2>1, <2>2 DEF PinDate, SetEvaluationDate, AssignDate, DataTypes
  <1>6. CASE SetEnforcesTodaysHistoricFixings
    BY <1>6 DEF SetEnforcesTodaysHistoricFixings, DataTypes
  <1>7. CASE ClearFixings \/ \E k \in Keys : ClearFixing(k)
    BY <1>7 DEF ClearFixings, ClearFixing, settingsVars, DataTypes
  <1>8. ASSUME NEW w \in Clients, Read(w) PROVE DataTypes'
    <2>1. /\ Fixings(w, enforces) \in [Days -> [BOOLEAN -> Rates \cup {Missing, Forecast}]]
          /\ enforces \in BOOLEAN /\ Clearing \in BOOLEAN
      BY FixingTypes DEF DataTypes, Clearing
    <2>2. [value |-> Fixings(w, enforces), read |-> TRUE, strict |-> enforces, clearing |-> Clearing]
            \in Answers
      BY <2>1 DEF Answers
    <2>3. answer' \in [Clients -> Answers]
      BY <1>8, <2>2 DEF Read, DataTypes
    <2> QED BY <1>8, <2>3 DEF Read, vars, DataTypes
  <1>9. ASSUME NEW k \in Keys, NEW batch \in Batches, AddFixings(k, batch) PROVE DataTypes'
    <2>1. PICK history \in History : store' = WithHistory(k, history)
      BY <1>9 DEF AddFixings, After
    <2>2. owed' \in SUBSET Observers
      BY <1>9, Wired, RoundStarts DEF AddFixings, DataTypes
    <2>3. DOMAIN store' \subseteq Keys /\ \A n \in DOMAIN store' : store'[n] \in History
      BY <2>1, StoreTypes
    <2> QED BY <1>9, <2>2, <2>3 DEF AddFixings, DataTypes
  <1> QED BY <1>1, <1>2, <1>3, <1>4, <1>5, <1>6, <1>7, <1>8, <1>9 DEF SettingsNext, LibraryStep

SettingsInv == Calls /\ DataTypes /\ NewsComes

(* The invariant holds of every state.                                       *)
LEMMA SettingsInvariant == SettingsSpec => []SettingsInv
  <1>1. SettingsInit => SettingsInv
    <2> SUFFICES ASSUME SettingsInit PROVE SettingsInv
      OBVIOUS
    <2>1. /\ stack = <<>> /\ depth = 0 /\ pending = {} /\ held = {} /\ dropped = {} /\ owed = {}
          /\ registry = [s \in Subjects |-> EntriesOf(Wiring[s])]
      BY DEF SettingsInit, Init, QuietWith, EntriesOf
    <2>2. draining = FALSE
      BY DEF SettingsInit, Init, QuietWith
    <2>3. Calls
      BY <2>1, <2>2, NoCalls DEF Calls
    <2>4. [d \in Days |-> [f \in BOOLEAN |-> Missing]]
            \in [Days -> [BOOLEAN -> Rates \cup {Missing, Forecast}]]
      OBVIOUS
    <2>5. answer \in [Clients -> Answers] /\ \A w \in Clients : ~Keeps(w)
      BY <2>4 DEF SettingsInit, Unread, Answers, Keeps
    <2>6. DataTypes
      BY <2>1, <2>5 DEF SettingsInit, DataTypes
    <2> QED BY <2>3, <2>5, <2>6 DEF NewsComes, SettingsInv
  <1>2. SettingsInv /\ [SettingsNext]_allVars => SettingsInv'
    <2> SUFFICES ASSUME SettingsInv, [SettingsNext]_allVars PROVE SettingsInv'
      OBVIOUS
    <2>1. Calls /\ DataTypes /\ NewsComes
      BY DEF SettingsInv
    <2>2. DataTypes'
      BY <2>1, DataStep
    <2>3. CASE UNCHANGED allVars
      <3>1. UNCHANGED <<registry, stack, depth, draining, pending, held, dropped,
                        evaluationDate, store, answer>>
        BY <2>3 DEF allVars, vars, settingsVars
      <3>2. Calls'
        BY <2>1, <3>1 DEF Calls
      <3>3. \A w \in Clients : Hears(w) => Hears(w)'
        BY <3>1 DEF Hears
      <3>4. NewsComes'
        BY <2>1, <3>1, <3>3, NewsKept
      <3> QED BY <2>2, <3>2, <3>4 DEF SettingsInv
    <2>4. CASE SettingsNext
      <3> SUFFICES Calls' /\ NewsComes'
        BY <2>2 DEF SettingsInv
      <3>1. CASE LibraryStep
        BY <2>1, <3>1, EngineKeeps, ClearTellsKeeps, ClearRemovesKeeps DEF LibraryStep
      <3>2. CASE PinDate \/ \E date \in Days \cup {NoDate} : SetEvaluationDate(date)
        <4>1. PICK date : AssignDate(date) /\ UNCHANGED <<draining, pending, held, dropped>>
          BY <3>2 DEF PinDate, SetEvaluationDate
        <4> QED BY <2>1, <4>1, DateKeeps
      <3>3. CASE SetEnforcesTodaysHistoricFixings
        BY <2>1, <3>3, FlagKeeps
      <3>4. CASE ClearFixings \/ \E k \in Keys : ClearFixing(k)
        BY <2>1, <3>4, ClearKeeps
      <3>5. CASE \E w \in Clients : Read(w)
        BY <2>1, <3>5, ReadKeeps
      <3>6. CASE \E k \in Keys, batch \in Batches : AddFixings(k, batch)
        BY <2>1, <3>6, AddKeeps
      <3> QED BY <2>4, <3>1, <3>2, <3>3, <3>4, <3>5, <3>6 DEF SettingsNext
    <2> QED BY <2>3, <2>4
  <1> QED BY <1>1, <1>2, PTL DEF SettingsSpec

-----------------------------------------------------------------------------
(* The date, the flag, the store, the answers and the engine's variables     *)
(* keep their types.                                                         *)
THEOREM SettingsTypeCorrect == SettingsSpec => []SettingsTypeOK
  <1>1. SettingsInv => SettingsTypeOK
    <2> SUFFICES ASSUME Calls, DataTypes PROVE SettingsTypeOK
      BY DEF SettingsInv
    <2>1. \A s \in Subjects : EntriesOf(Wiring[s]) \in SUBSET Entry
      BY Wired, EntriesProperties
    <2>2. registry \in [Subjects -> SUBSET Entry]
      BY <2>1 DEF Calls
    <2>3. depth \in Nat /\ stack \in Seq(Frame \cup ClearFrame)
      BY RoundCount DEF Calls, AnyFrame
    <2>4. {pending, held, dropped, owed} \subseteq SUBSET Observers
      BY DEF Calls, DataTypes
    <2>5. draining \in BOOLEAN
      BY Zenon DEF Calls
    <2> QED BY <2>2, <2>3, <2>4, <2>5 DEF SettingsTypeOK, DataTypes
  <1> QED BY <1>1, SettingsInvariant, PTL

(* When all calls have returned, whoever keeps a fixing read outside a clear *)
(* keeps a current one: for any number of indexes, names and clients.        *)
THEOREM ReadersAreToldCorrect == SettingsSpec => []ReadersAreTold
  <1>1. SettingsInv => ReadersAreTold
    <2> SUFFICES ASSUME Calls, NewsComes, stack = <<>>, NEW w \in Clients, ~answer[w].clearing
                 PROVE  IsCurrent(w)
      BY DEF SettingsInv, ReadersAreTold
    <2>1. pending = {} /\ ~NewsOf(stack, w)
      BY NoCalls DEF Calls
    <2>2. ~Hears(w)
      BY <2>1 DEF Hears
    <2> QED BY <2>2 DEF NewsComes, Keeps, IsCurrent
  <1> QED BY <1>1, SettingsInvariant, PTL
=============================================================================
