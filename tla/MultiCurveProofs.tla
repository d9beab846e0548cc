-------------------------- MODULE MultiCurveProofs --------------------------
(***************************************************************************)
(* Proofs about MultiCurve, for any members, quotes, clients and wiring.   *)
(*                                                                         *)
(* First the types, and that no solve succeeds once a contributor is gone, *)
(* whatever clients do inside their updates.  Then, for clients that read  *)
(* there but observe contributors only (ReadersApart): calls are made in   *)
(* the order of a rank, so nobody who is to be told is busy; a recursion   *)
(* guard is up only while its loop runs; and a contributor that is marked  *)
(* without a solution, like the holder of a stale answer, has news coming. *)
(***************************************************************************)
EXTENDS MultiCurve, ObservableProofs

AnyFrame == Frame \cup SolveFrame

SolveOn(st) == \E n \in DOMAIN st : st[n].op = "solve"

\* A solve about to write a trial point has not used up its trials.
Trials(frame) == frame.op = "solve" /\ frame.stage = "trial" => frame.trial < MaxTrials

NumRounds(st) == Cardinality(RoundsOf(st))

\* What the types and NoSilentFallback need of a stack under the depth d, when
\* the observers gone are dropped.
Sound(st, d, gone) ==
    /\ st \in Seq(AnyFrame)
    /\ d = NumRounds(st)
    /\ \A n \in DOMAIN st : Trials(st[n])
    /\ SolveOn(st) => Contributors \cap gone = {}

-----------------------------------------------------------------------------
(* The kinds of frames.                                                      *)
LEMMA FrameKinds ==
  ASSUME NEW f \in AnyFrame
  PROVE  /\ f.op \in {"notify", "update", "drain", "solve"}
         /\ f.op # "solve" => f \in Frame
         /\ f.op = "solve" => f \in SolveFrame
  <1>1. CASE f \in Frame
    BY <1>1, FrameFields
  <1>2. CASE f \in SolveFrame
    BY <1>2 DEF SolveFrame
  <1> QED BY <1>1, <1>2 DEF AnyFrame

LEMMA SolveFields ==
  ASSUME NEW f \in SolveFrame
  PROVE  /\ f.op = "solve" /\ f.asked \in Members /\ f.for \in Contributors
         /\ f.trial \in 0..MaxTrials /\ f.error \in BOOLEAN /\ f.todo \in SUBSET Observers
         /\ f.stage \in {"trial", "tell", "evaluated"}
  BY DEF SolveFrame

\* How a solve on top moves on.
Staged(f, stage, todo, trial, error) ==
    [f EXCEPT !.stage = stage, !.todo = todo, !.trial = trial, !.error = error]
Telling(f, n) == [f EXCEPT !.todo = @ \ {n}]

LEMMA SolveMoves ==
  ASSUME NEW f \in SolveFrame
  PROVE  /\ \A stage \in {"trial", "tell", "evaluated"}, todo \in SUBSET Observers,
               trial \in 0..MaxTrials, error \in BOOLEAN :
              /\ Staged(f, stage, todo, trial, error) \in SolveFrame
              /\ Staged(f, stage, todo, trial, error).op = "solve"
              /\ Staged(f, stage, todo, trial, error).stage = stage
              /\ Staged(f, stage, todo, trial, error).todo = todo
              /\ Staged(f, stage, todo, trial, error).trial = trial
         /\ \A n : /\ Telling(f, n) \in SolveFrame /\ Telling(f, n).op = "solve"
                   /\ Telling(f, n).stage = f.stage /\ Telling(f, n).todo = f.todo \ {n}
                   /\ Telling(f, n).trial = f.trial
  <1>1. ASSUME NEW stage \in {"trial", "tell", "evaluated"}, NEW todo \in SUBSET Observers,
               NEW trial \in 0..MaxTrials, NEW error \in BOOLEAN
        PROVE  /\ Staged(f, stage, todo, trial, error) \in SolveFrame
               /\ Staged(f, stage, todo, trial, error).op = "solve"
               /\ Staged(f, stage, todo, trial, error).stage = stage
               /\ Staged(f, stage, todo, trial, error).todo = todo
               /\ Staged(f, stage, todo, trial, error).trial = trial
    BY DEF SolveFrame, Staged
  <1>2. ASSUME NEW n
        PROVE  /\ Telling(f, n) \in SolveFrame /\ Telling(f, n).op = "solve"
               /\ Telling(f, n).stage = f.stage /\ Telling(f, n).todo = f.todo \ {n}
               /\ Telling(f, n).trial = f.trial
    BY DEF SolveFrame, Telling
  <1> QED BY <1>1, <1>2

(* A call begins.                                                            *)
LEMMA SoundPush ==
  ASSUME NEW st, NEW d, NEW gone, Sound(st, d, gone), NEW f \in AnyFrame, Trials(f),
         f.op = "solve" => Contributors \cap gone = {}
  PROVE  /\ Sound(Append(st, f), IF f.op = "notify" THEN d + 1 ELSE d, gone)
         /\ d \in Nat
  <1> DEFINE p == Append(st, f)
             n == Len(st)
  <1>0. st \in Seq(AnyFrame)
    BY DEF Sound
  <1>1. /\ p \in Seq(AnyFrame) /\ Len(p) = n + 1 /\ n \in Nat
        /\ \A i \in 1..n : p[i] = st[i]
        /\ p[n + 1] = f /\ DOMAIN p = 1..n + 1 /\ DOMAIN st = 1..n
    BY <1>0, PushProperties
  <1> HIDE DEF p, n
  <1>2. \A i \in 1..n + 1 : i \in 1..n \/ i = n + 1
    BY <1>1
  <1>3. SolveOn(p) => SolveOn(st) \/ f.op = "solve"
    BY <1>1, <1>2 DEF SolveOn
  <1>4. \A i \in DOMAIN p : Trials(p[i])
    BY <1>1, <1>2 DEF Sound
  <1>5. RoundsOf(p) = IF f.op = "notify" THEN RoundsOf(st) \cup {n + 1} ELSE RoundsOf(st)
    <2>1. n + 1 \in 1..n + 1 /\ \A i \in 1..n : i \in 1..n + 1
      BY <1>1
    <2> QED BY <1>1, <1>2, <2>1 DEF RoundsOf
  <1>6. IsFiniteSet(RoundsOf(st)) /\ n + 1 \notin RoundsOf(st)
    <2>1. RoundsOf(st) \subseteq 1..n
      BY <1>1 DEF RoundsOf
    <2>2. IsFiniteSet(1..n)
      BY <1>1, FS_Interval
    <2>3. IsFiniteSet(RoundsOf(st))
      BY <2>1, <2>2, FS_Subset
    <2> QED BY <1>1, <2>1, <2>3
  <1>7. /\ Cardinality(RoundsOf(st)) \in Nat
        /\ Cardinality(RoundsOf(st) \cup {n + 1}) = Cardinality(RoundsOf(st)) + 1
    BY <1>6, FS_CardinalityType, FS_AddElement
  <1>8. (IF f.op = "notify" THEN d + 1 ELSE d) = NumRounds(p) /\ d \in Nat
    BY <1>5, <1>7 DEF NumRounds, Sound
  <1> QED BY <1>1, <1>3, <1>4, <1>8 DEF p, Sound

(* The top call, and what is below it.                                       *)
LEMMA TopOfStack ==
  ASSUME stack \in Seq(AnyFrame), stack # <<>>
  PROVE  /\ Below \in Seq(AnyFrame) /\ Top \in AnyFrame
         /\ stack = Append(Below, Top)
         /\ Len(stack) \in Nat \ {0} /\ Len(Below) = Len(stack) - 1
         /\ \A i \in 1..Len(stack) - 1 : Below[i] = stack[i]
         /\ Top = stack[Len(stack)]
  <1>1. /\ Below \in Seq(AnyFrame) /\ Len(Below) = Len(stack) - 1
        /\ \A i \in 1..Len(stack) - 1 : Below[i] = stack[i]
        /\ Len(stack) \in Nat \ {0} /\ Top \in AnyFrame /\ Top = stack[Len(stack)]
    BY FrontProperties DEF Below, Top
  <1> DEFINE r == Append(Below, Top)
  <1>2. /\ r \in Seq(AnyFrame) /\ Len(r) = Len(Below) + 1 /\ r[Len(Below) + 1] = Top
        /\ \A i \in 1..Len(Below) : r[i] = Below[i]
    BY <1>1, PushProperties
  <1> HIDE DEF r
  <1>3. Len(r) = Len(stack) /\ \A i \in 1..Len(stack) : r[i] = stack[i]
    <2>1. \A i \in 1..Len(stack) : i \in 1..Len(stack) - 1 \/ i = Len(stack)
      BY <1>1
    <2>2. Len(Below) + 1 = Len(stack)
      BY <1>1
    <2> QED BY <1>1, <1>2, <2>1, <2>2
  <1>4. r = stack
    BY <1>2, <1>3, SeqEqual
  <1> QED BY <1>1, <1>4 DEF r

LEMMA SoundTop ==
  ASSUME Sound(stack, depth, dropped), stack # <<>>
  PROVE  /\ Sound(Below, IF Top.op = "notify" THEN depth - 1 ELSE depth, dropped)
         /\ Top \in AnyFrame /\ Trials(Top)
         /\ Top.op = "solve" => Contributors \cap dropped = {}
         /\ depth \in Nat /\ (Top.op = "notify" => depth - 1 \in Nat)
  <1>1. /\ Below \in Seq(AnyFrame) /\ Top \in AnyFrame /\ stack = Append(Below, Top)
        /\ Len(stack) \in Nat \ {0} /\ Len(Below) = Len(stack) - 1
        /\ \A i \in 1..Len(stack) - 1 : Below[i] = stack[i]
        /\ Top = stack[Len(stack)]
    BY TopOfStack DEF Sound
  <1>2. /\ DOMAIN stack = 1..Len(stack) /\ DOMAIN Below = 1..Len(stack) - 1
        /\ \A i \in 1..Len(stack) - 1 : i \in 1..Len(stack)
        /\ Len(stack) \in 1..Len(stack)
    BY <1>1, LenProperties
  <1>3. /\ \A i \in DOMAIN Below : Trials(Below[i])
        /\ SolveOn(Below) => SolveOn(stack)
        /\ Top.op = "solve" => SolveOn(stack)
        /\ Trials(Top)
    BY <1>1, <1>2 DEF SolveOn, Sound
  <1> DEFINE d == NumRounds(Below)
  <1>4. Sound(Below, d, dropped)
    BY <1>1, <1>3 DEF Sound
  <1>5. Sound(stack, IF Top.op = "notify" THEN d + 1 ELSE d, dropped) /\ d \in Nat
    BY <1>1, <1>3, <1>4, SoundPush DEF Sound
  <1>6. depth = IF Top.op = "notify" THEN d + 1 ELSE d
    BY <1>5 DEF Sound
  <1> HIDE DEF d
  <1>7. d = (IF Top.op = "notify" THEN depth - 1 ELSE depth) /\ depth \in Nat
    BY <1>5, <1>6
  <1> QED BY <1>1, <1>3, <1>4, <1>5, <1>7 DEF Sound

(* The top moves on, as a call of the same kind.                             *)
LEMMA SoundMove ==
  ASSUME Sound(stack, depth, dropped), stack # <<>>, NEW g \in AnyFrame, g.op = Top.op, Trials(g)
  PROVE  Sound(ReplaceTop(g), depth, dropped)
  <1> DEFINE d == IF Top.op = "notify" THEN depth - 1 ELSE depth
  <1>1. /\ Sound(Below, d, dropped)
        /\ Top.op = "solve" => Contributors \cap dropped = {}
        /\ depth \in Nat
    BY SoundTop
  <1>2. depth = IF g.op = "notify" THEN d + 1 ELSE d
    BY <1>1
  <1> HIDE DEF d
  <1>3. Sound(Append(Below, g), IF g.op = "notify" THEN d + 1 ELSE d, dropped)
    BY <1>1, SoundPush
  <1> QED BY <1>2, <1>3 DEF ReplaceTop
-----------------------------------------------------------------------------
EngineTypes ==
    /\ registry \in [Subjects -> SUBSET Entry]
    /\ Sound(stack, depth, dropped)
    /\ draining \in BOOLEAN
    /\ pending \in SUBSET Observers /\ held \in SUBSET Observers
    /\ dropped \in SUBSET Observers /\ owed \in SUBSET Observers

DataTypes ==
    /\ lazy \in [Lazies -> Lazy]
    /\ guard \in [Lazies -> Nat]
    /\ answer \in [Lazies -> Answers]
    /\ data \in [Members -> Neither..Solved]
    /\ fanout \in SUBSET Members

(* A round starts over below.                                                *)
LEMMA RoundKeepsTypes ==
  ASSUME EngineTypes, NEW s \in Subjects, NEW below, Sound(below, depth, dropped),
         StartRound(registry, s, below), UNCHANGED <<draining, pending, held, dropped>>
  PROVE  EngineTypes'
  <1> DEFINE snapshot == Pruned(registry[s])
             f == NotifyFrame(snapshot)
  <1>1. snapshot \in SUBSET Entry
    BY DEF Pruned, EngineTypes
  <1>2. /\ stack' = Append(below, f) /\ depth' = depth + 1
        /\ registry' = [registry EXCEPT ![s] = snapshot]
        /\ owed' = owed \cup {e.observer : e \in snapshot}
    BY DEF StartRound
  <1>3. f \in AnyFrame /\ f.op = "notify"
    BY <1>1, FrameTypes DEF AnyFrame, NotifyFrame
  <1> HIDE DEF snapshot, f
  <1>4. registry' \in [Subjects -> SUBSET Entry]
    BY <1>1, <1>2 DEF EngineTypes
  <1>5. owed' \in SUBSET Observers
    BY <1>1, <1>2, EntryFields DEF EngineTypes
  <1>6. Sound(stack', depth', dropped')
    BY <1>2, <1>3, SoundPush DEF Trials
  <1> QED BY <1>4, <1>5, <1>6 DEF EngineTypes

(* The steps of the engine push, move or pop frames of its own.              *)
LEMMA EngineKeepsTypes ==
  ASSUME EngineTypes, Engine
  PROVE  EngineTypes'
  <1>1. stack # <<>> /\ Sound(stack, depth, dropped) /\ Top.op # "solve"
    BY DEF Engine, RoundUpdate, RoundDefer, RoundDiscard, RoundEnd, DrainTake, DrainUpdate,
           DrainSkip, DrainStall, DrainEnd, ForwardBroadcast, ForwardDeliver, Return,
           TopIs, EngineTypes
  <1>2. Top \in Frame /\ depth \in Nat /\ (Top.op = "notify" => depth - 1 \in Nat)
    BY <1>1, SoundTop, FrameKinds
  <1>3. ASSUME NEW g \in Frame, g.op = Top.op PROVE Sound(ReplaceTop(g), depth, dropped)
    BY <1>1, <1>2, <1>3, SoundMove DEF AnyFrame, Trials
  <1>4. ASSUME NEW g \in Frame, g.op = Top.op, NEW v \in Observers
        PROVE  Sound(Append(ReplaceTop(g), UpdateFrame(v)), depth, dropped)
    <2>1. UpdateFrame(v) \in AnyFrame /\ UpdateFrame(v).op = "update"
      BY FrameTypes DEF AnyFrame, UpdateFrame
    <2> QED BY <1>3, <1>4, <2>1, SoundPush DEF Trials
  <1>5. Sound(Below, IF Top.op = "notify" THEN depth - 1 ELSE depth, dropped)
    BY <1>1, SoundTop
  <1>6. /\ pending \in SUBSET Observers /\ draining \in BOOLEAN
        /\ owed \in SUBSET Observers /\ registry \in [Subjects -> SUBSET Entry]
    BY DEF EngineTypes
  <1>7. CASE RoundUpdate
    <2>1. PICK e \in Top.todo : /\ stack' = Append(ReplaceTop(Done(Top, e)), UpdateFrame(e.observer))
                                /\ owed' = owed \ {e.observer}
      BY <1>7 DEF RoundUpdate, Done
    <2>2. Top.op = "notify" /\ e \in Entry /\ e.observer \in Observers
      BY <1>2, <1>7, <2>1, FrameFields, EntryFields DEF RoundUpdate, TopIs
    <2>3. Done(Top, e) \in Frame /\ Done(Top, e).op = Top.op
      BY <1>2, <2>2, FrameFields
    <2> QED BY <1>4, <1>6, <1>7, <2>1, <2>2, <2>3 DEF RoundUpdate, EngineTypes
  <1>8. CASE RoundDefer \/ RoundDiscard
    <2>1. PICK e \in Top.todo : /\ stack' = ReplaceTop(Done(Top, e))
                                /\ pending' \in {pending, pending \cup {e.observer}}
                                /\ owed' \in {owed, owed \ {e.observer}}
      BY <1>8 DEF RoundDefer, RoundDiscard, Done
    <2>2. Top.op = "notify" /\ e \in Entry /\ e.observer \in Observers
      BY <1>2, <1>8, <2>1, FrameFields, EntryFields DEF RoundDefer, RoundDiscard, TopIs
    <2>3. Done(Top, e) \in Frame /\ Done(Top, e).op = Top.op
      BY <1>2, <2>2, FrameFields
    <2>4. pending' \in SUBSET Observers /\ owed' \in SUBSET Observers
      BY <1>6, <2>1, <2>2
    <2> QED BY <1>3, <1>6, <1>8, <2>1, <2>3, <2>4 DEF RoundDefer, RoundDiscard, EngineTypes
  <1>9. CASE RoundEnd
    <2>1. Top.op = "notify" /\ depth' = depth - 1 /\ draining' \in BOOLEAN
          /\ stack' \in {ReplaceTop(DrainFrame), Below}
          /\ UNCHANGED <<registry, pending, held, dropped, owed>>
      <3>1. draining' \in BOOLEAN
        BY <1>9, Zenon DEF RoundEnd
      <3> QED BY <1>9, <3>1 DEF RoundEnd, TopIs
    <2>2. Sound(Below, depth', dropped)
      BY <1>5, <2>1
    <2>3. DrainFrame \in AnyFrame /\ DrainFrame.op = "drain"
      BY FrameTypes DEF AnyFrame, DrainFrame
    <2>4. Sound(ReplaceTop(DrainFrame), depth', dropped)
      BY <2>2, <2>3, SoundPush DEF Trials, ReplaceTop
    <2> QED BY <1>6, <2>1, <2>2, <2>4 DEF EngineTypes
  <1>10. CASE DrainTake
    <2>1. Top.op = "drain" /\ stack' = ReplaceTop(Taking(Top, pending)) /\ pending' = {}
      BY <1>10 DEF DrainTake, Taking, TopIs
    <2>2. Taking(Top, pending) \in Frame /\ Taking(Top, pending).op = Top.op
      BY <1>2, <1>6, <2>1, FrameFields
    <2> QED BY <1>3, <1>6, <1>10, <2>1, <2>2 DEF DrainTake, EngineTypes
  <1>11. CASE DrainUpdate \/ DrainSkip \/ DrainStall
    <2>1. Top.op = "drain" /\ \A v \in Top.batch : v \in Observers
      BY <1>2, <1>11, FrameFields DEF DrainUpdate, DrainSkip, DrainStall, TopIs
    <2>2. ASSUME NEW v \in Observers
          PROVE  /\ Delivering(Top, v) \in Frame /\ Delivering(Top, v).op = Top.op
                 /\ SettingAside(Top, v) \in Frame /\ SettingAside(Top, v).op = Top.op
      <3>1. \A f \in Frame : f.op = "drain" =>
              /\ Delivering(f, v) \in Frame /\ Delivering(f, v).op = "drain"
              /\ SettingAside(f, v) \in Frame /\ SettingAside(f, v).op = "drain"
        BY FrameFields
      <3> QED BY <1>2, <2>1, <3>1
    <2>3. CASE DrainUpdate
      <3>1. PICK v \in Top.batch : /\ stack' = Append(ReplaceTop(Delivering(Top, v)), UpdateFrame(v))
                                   /\ owed' = owed \ {v}
        BY <2>3 DEF DrainUpdate, Delivering
      <3> QED BY <1>4, <1>6, <2>1, <2>2, <2>3, <3>1 DEF DrainUpdate, EngineTypes
    <2>4. CASE DrainSkip
      <3>1. PICK v \in Top.batch : stack' = ReplaceTop(Delivering(Top, v))
        BY <2>4 DEF DrainSkip, Delivering
      <3> QED BY <1>3, <1>6, <2>1, <2>2, <2>4, <3>1 DEF DrainSkip, EngineTypes
    <2>5. CASE DrainStall
      <3>1. PICK v \in Top.batch : stack' = ReplaceTop(SettingAside(Top, v))
        BY <2>5 DEF DrainStall, SettingAside
      <3> QED BY <1>3, <1>6, <2>1, <2>2, <2>5, <3>1 DEF DrainStall, EngineTypes
    <2> QED BY <1>11, <2>3, <2>4, <2>5
  <1>12. CASE DrainEnd
    <2>1. Top.op = "drain" /\ stack' = Below /\ pending' = Top.stalled /\ draining' = FALSE
      BY <1>12 DEF DrainEnd, TopIs
    <2>2. pending' \in SUBSET Observers
      BY <1>2, <2>1, FrameFields
    <2>3. Sound(Below, depth, dropped)
      BY <1>5, <2>1
    <2> QED BY <1>6, <1>12, <2>1, <2>2, <2>3 DEF DrainEnd, EngineTypes
  <1>13. CASE ForwardBroadcast \/ ForwardDeliver
    <2>1. Top.op = "update" /\ Sent(Top) \in Frame /\ Sent(Top).op = Top.op
      BY <1>2, <1>13, FrameFields DEF ForwardBroadcast, ForwardDeliver, TopIs
    <2>2. Sound(ReplaceTop(Sent(Top)), depth, dropped)
      BY <1>3, <2>1
    <2>3. CASE ForwardBroadcast
      BY <2>2, <2>3, RoundKeepsTypes DEF ForwardBroadcast, Sent
    <2>4. CASE ForwardDeliver
      <3> DEFINE v == Target[Top.who]
      <3>1. /\ v \in Observers
            /\ \/ stack' = ReplaceTop(Sent(Top))
               \/ stack' = Append(ReplaceTop(Sent(Top)), UpdateFrame(v))
            /\ pending' \in {pending, pending \cup {v}}
            /\ owed' \in {owed \cup {v}, owed \ {v}}
        BY <2>4 DEF ForwardDeliver, Sent
      <3> HIDE DEF v
      <3>2. Sound(stack', depth, dropped)
        BY <1>4, <2>1, <2>2, <3>1
      <3>3. pending' \in SUBSET Observers /\ owed' \in SUBSET Observers
        BY <1>6, <3>1
      <3> QED BY <1>6, <2>4, <3>2, <3>3 DEF ForwardDeliver, EngineTypes
    <2> QED BY <1>13, <2>3, <2>4
  <1>14. CASE Return
    <2>1. Top.op = "update" /\ stack' = Below
      BY <1>14 DEF Return, TopIs
    <2>2. Sound(Below, depth, dropped)
      BY <1>5, <2>1
    <2> QED BY <1>6, <1>14, <2>1, <2>2 DEF Return, EngineTypes
  <1> QED BY <1>7, <1>8, <1>9, <1>10, <1>11, <1>12, <1>13, <1>14 DEF Engine
-----------------------------------------------------------------------------
(* What the methods of a lazy object do to its flags.                        *)
LEMMA Methods ==
  ASSUME NEW z \in Lazy
  PROVE  /\ /\ EndUpdate(z) \in Lazy /\ ~EndUpdate(z).updating
            /\ EndUpdate(z).calculated = z.calculated
            /\ EndUpdate(z).frozen = z.frozen /\ EndUpdate(z).alwaysForward = z.alwaysForward
         /\ /\ DeferredUpdate(z) \in Lazy
            /\ DeferredUpdate(z).frozen = z.frozen
            /\ DeferredUpdate(z).alwaysForward = z.alwaysForward
         /\ MarkCalculated(z) \in Lazy /\ StartCalculation(z) \in Lazy
         /\ InvalidateSilently(z) \in Lazy /\ FinishOk(z) \in Lazy /\ FinishErr(z) \in Lazy
  <1>1. /\ EndUpdate(z) \in Lazy /\ ~EndUpdate(z).updating
        /\ EndUpdate(z).calculated = z.calculated
        /\ EndUpdate(z).frozen = z.frozen /\ EndUpdate(z).alwaysForward = z.alwaysForward
    BY DEF EndUpdate, Lazy
  <1>2. /\ DeferredUpdate(z) \in Lazy
        /\ DeferredUpdate(z).frozen = z.frozen
        /\ DeferredUpdate(z).alwaysForward = z.alwaysForward
    <2>1. CASE ~Invalidates(z)
      BY <2>1 DEF DeferredUpdate
    <2>2. CASE Invalidates(z)
      <3>1. DeferredUpdate(z) = [z EXCEPT !.calculated = FALSE, !.failed = FALSE, !.updating = Tells(z)]
        BY <2>2 DEF DeferredUpdate
      <3>2. Tells(z) \in BOOLEAN
        BY DEF Tells, Invalidates
      <3> HIDE <2>2
      <3> QED BY <3>1, <3>2 DEF Lazy
    <2> QED BY <2>1, <2>2
  <1>3. MarkCalculated(z) \in Lazy /\ StartCalculation(z) \in Lazy
    BY DEF MarkCalculated, StartCalculation, Lazy
  <1>4. InvalidateSilently(z) \in Lazy /\ FinishOk(z) \in Lazy /\ FinishErr(z) \in Lazy
    BY DEF InvalidateSilently, FinishOk, FinishErr, Lazy
  <1> QED BY <1>1, <1>2, <1>3, <1>4

(* The constants, in the names the proofs use.                               *)
LEMMA Wired ==
    /\ Lazies = Members /\ Contributors \subseteq Members /\ Cachers \subseteq Members
    /\ Contributors \cap Cachers = {}
    /\ \A m \in Members : m \in Contributors \/ m \in Cachers
    /\ \A m \in Members : /\ m \in Observers /\ m \notin Clients /\ m \notin Forwarders /\ m # Hub
                           /\ Own[m] \in Subjects /\ Own[m] \notin Quotes
    /\ Hub \in Observers /\ Hub \notin Clients /\ Hub \notin Forwarders
    /\ Clients \subseteq Observers /\ Quotes \subseteq Subjects
    /\ \A n \in Cachers : Base[n] \in Contributors
    /\ MaxTrials \in Nat \ {0}
    /\ Clients \cap Forwarders = {}
  BY ConstantsAssumption, LazyGraphConstants, MultiConstants DEF Members

(* The nodes of a member belong to nothing, a trial or the solution.         *)
LEMMA NodeKinds ==
    /\ Neither \in Neither..Solved /\ Solved \in Neither..Solved /\ Neither # Solved
    /\ \A i \in 0..MaxTrials : i < MaxTrials => i + 1 \in Neither..Solved /\ i + 1 # Solved
    /\ \A i \in 0..MaxTrials : i < MaxTrials => i + 1 \in 0..MaxTrials
  BY Wired DEF Neither, Solved

(* Outside the engine: frames of lazy objects, of the hub and of a solve.    *)
LEMMA CallsKeepTypes ==
  ASSUME EngineTypes, DataTypes,
         LazyHears \/ LazyReturns \/ FanOut \/ FanOutToMember \/ FanOutReturns
  PROVE  EngineTypes'
  <1>1. /\ stack # <<>> /\ Top.op = "update" /\ Sound(stack, depth, dropped)
        /\ registry \in [Subjects -> SUBSET Entry] /\ owed \in SUBSET Observers
    BY DEF LazyHears, LazyReturns, FanOut, FanOutToMember, FanOutReturns, TopIs, EngineTypes
  <1>2. Top \in Frame
    BY <1>1, SoundTop, FrameKinds
  <1>3. Sound(Below, depth, dropped)
    BY <1>1, SoundTop
  <1>4. Sound(ReplaceTop(Sent(Top)), depth, dropped)
    <2>1. Sent(Top) \in AnyFrame /\ Sent(Top).op = "update"
      BY <1>1, <1>2, FrameFields DEF AnyFrame
    <2> QED BY <1>1, <2>1, SoundMove DEF Trials
  <1>5. CASE LazyHears
    <2>1. /\ Own[Top.who] \in Subjects
          /\ \/ StartRound(registry, Own[Top.who], ReplaceTop(Sent(Top)))
             \/ stack' = ReplaceTop(Sent(Top)) /\ UNCHANGED <<registry, depth, owed>>
          /\ UNCHANGED <<draining, pending, held, dropped>>
      BY <1>5, LazyGraphConstants DEF LazyHears, Sent
    <2> QED BY <1>4, <2>1, RoundKeepsTypes DEF EngineTypes
  <1>6. CASE LazyReturns \/ FanOutReturns
    BY <1>3, <1>6 DEF LazyReturns, FanOutReturns, EngineTypes
  <1>7. CASE FanOut
    BY <1>4, <1>7 DEF FanOut, Sent, EngineTypes
  <1>8. CASE FanOutToMember
    <2>1. PICK m \in fanout : stack' = IF Busy(m) THEN stack ELSE Append(stack, UpdateFrame(m))
      BY <1>8 DEF FanOutToMember
    <2>2. m \in Observers
      BY Wired DEF DataTypes
    <2>3. UpdateFrame(m) \in AnyFrame /\ UpdateFrame(m).op = "update"
      BY <2>2, FrameTypes DEF AnyFrame, UpdateFrame
    <2>4. Sound(Append(stack, UpdateFrame(m)), depth, dropped)
      BY <1>1, <2>3, SoundPush DEF Trials
    <2> QED BY <1>1, <1>8, <2>1, <2>4 DEF FanOutToMember, EngineTypes
  <1> QED BY <1>5, <1>6, <1>7, <1>8

(* The steps of a solve.                                                     *)
LEMMA SolveKeepsTypes ==
  ASSUME EngineTypes, SolveStep
  PROVE  EngineTypes'
  <1>1. /\ stack # <<>> /\ Top.op = "solve" /\ Sound(stack, depth, dropped)
        /\ UNCHANGED <<registry, depth, draining, pending, held, dropped, owed>>
    BY DEF SolveStep, SetArguments, SetArgumentsFails, TellCacher, Evaluate, NextTrial, Converge,
           GiveUp, AtStage, TopIs, EngineTypes
  <1>2. Top \in SolveFrame /\ Trials(Top)
    BY <1>1, SoundTop, FrameKinds
  <1>3. ASSUME NEW g \in SolveFrame, Trials(g) PROVE Sound(ReplaceTop(g), depth, dropped)
    BY <1>1, <1>3, SolveFields, SoundMove DEF AnyFrame
  <1>4. SUFFICES Sound(stack', depth, dropped)
    BY <1>1 DEF EngineTypes
  <1>5. /\ Top.trial \in 0..MaxTrials /\ Top.error \in BOOLEAN
        /\ SolveObservers \in SUBSET Observers /\ {} \in SUBSET Observers
    BY <1>2, SolveFields, Wired DEF SolveObservers
  <1>6. ASSUME NEW stage \in {"tell", "evaluated"}, NEW todo \in SUBSET Observers,
               NEW trial \in 0..MaxTrials, NEW error \in BOOLEAN
        PROVE  Sound(ReplaceTop(Staged(Top, stage, todo, trial, error)), depth, dropped)
    <2>1. /\ Staged(Top, stage, todo, trial, error) \in SolveFrame
          /\ Staged(Top, stage, todo, trial, error).stage = stage
      BY <1>2, SolveMoves
    <2> QED BY <1>3, <2>1 DEF Trials
  <1>7. CASE SetArguments
    <2>1. Top.stage = "trial" /\ Top.trial < MaxTrials
      BY <1>1, <1>2, <1>7 DEF SetArguments, AtStage, Trials
    <2>2. Top.trial + 1 \in 0..MaxTrials
      BY <1>5, <2>1, NodeKinds
    <2>3. stack' = ReplaceTop(Staged(Top, "tell", SolveObservers, Top.trial + 1, Top.error))
      BY <1>7 DEF SetArguments, Stage, Staged
    <2> QED BY <1>5, <1>6, <2>2, <2>3
  <1>8. CASE SetArgumentsFails
    <2>1. Top.stage = "trial" /\ Top.trial < MaxTrials
      BY <1>1, <1>2, <1>8 DEF SetArgumentsFails, AtStage, Trials
    <2>2. Top.trial + 1 \in 0..MaxTrials
      BY <1>5, <2>1, NodeKinds
    <2>3. stack' = ReplaceTop(Staged(Top, "evaluated", {}, Top.trial + 1, TRUE))
      BY <1>8 DEF SetArgumentsFails, Stage, Staged
    <2> QED BY <1>5, <1>6, <2>2, <2>3
  <1>9. CASE TellCacher
    <2>1. PICK n \in Top.todo : stack' = Append(ReplaceTop(Telling(Top, n)), UpdateFrame(n))
      BY <1>9 DEF TellCacher, Telling
    <2>2. /\ n \in Observers /\ Telling(Top, n) \in SolveFrame /\ Top.stage = "tell"
          /\ Telling(Top, n).stage = Top.stage
      BY <1>2, <1>9, <2>1, SolveFields, SolveMoves DEF TellCacher, AtStage
    <2>3. Sound(ReplaceTop(Telling(Top, n)), depth, dropped)
      BY <1>3, <2>2 DEF Trials
    <2>4. UpdateFrame(n) \in AnyFrame /\ UpdateFrame(n).op = "update"
      BY <2>2, FrameTypes DEF AnyFrame, UpdateFrame
    <2> QED BY <2>1, <2>3, <2>4, SoundPush DEF Trials
  <1>10. CASE Evaluate
    <2>1. PICK fails \in BOOLEAN :
            stack' = ReplaceTop(Staged(Top, "evaluated", {}, Top.trial, Top.error \/ fails))
      BY <1>10 DEF Evaluate, Stage, Staged
    <2>2. (Top.error \/ fails) \in BOOLEAN
      OBVIOUS
    <2> QED BY <1>5, <1>6, <2>1, <2>2
  <1>11. CASE NextTrial
    <2>1. stack' = ReplaceTop(Staged(Top, "trial", {}, Top.trial, Top.error)) /\ Top.trial < MaxTrials
      BY <1>11 DEF NextTrial, Stage, Staged
    <2>2. /\ Staged(Top, "trial", {}, Top.trial, Top.error) \in SolveFrame
          /\ Staged(Top, "trial", {}, Top.trial, Top.error).trial = Top.trial
      BY <1>2, <1>5, SolveMoves
    <2> QED BY <1>3, <2>1, <2>2 DEF Trials
  <1>12. CASE Converge \/ GiveUp
    <2>1. stack' = Below
      BY <1>12 DEF Converge, GiveUp
    <2> QED BY <1>1, <2>1, SoundTop
  <1> QED BY <1>7, <1>8, <1>9, <1>10, <1>11, <1>12 DEF SolveStep

Reads == \E m \in Members : ReadCached(m) \/ RunRefused(m) \/ SetupFails(m) \/ StartSolve(m)
                            \/ (m \in Cachers /\ (ReadDerived(m) \/ ReadBaseless(m)))

(* What client code does.                                                    *)
LEMMA ClientsKeepTypes ==
  ASSUME EngineTypes, DataTypes, Reads \/ DropMultiCurve \/ \E q \in Quotes : SetQuote(q)
  PROVE  EngineTypes'
  <1>1. /\ Sound(stack, depth, dropped) /\ owed \in SUBSET Observers
        /\ registry \in [Subjects -> SUBSET Entry] /\ dropped \in SUBSET Observers
    BY DEF EngineTypes
  <1>2. CASE \E q \in Quotes : SetQuote(q)
    BY <1>1, <1>2, RoundKeepsTypes, Wired DEF SetQuote, Notify
  <1>3. CASE DropMultiCurve
    <2>1. PICK alone \in SUBSET Members : dropped' = dropped \cup {Hub} \cup alone
      BY <1>3 DEF DropMultiCurve
    <2>2. dropped' \in SUBSET Observers
      BY <1>1, <2>1, Wired
    <2>3. stack = <<>> /\ stack' = <<>> /\ depth' = depth
      BY <1>3 DEF DropMultiCurve
    <2>4. Sound(stack', depth', dropped')
      <3>1. ~SolveOn(<<>>)
        BY EmptySeq DEF SolveOn
      <3> QED BY <1>1, <2>3, <3>1 DEF Sound
    <2> QED BY <1>1, <1>3, <2>2, <2>4 DEF DropMultiCurve, EngineTypes
  <1>4. CASE Reads
    <2>1. PICK m \in Members : \/ ReadCached(m) \/ RunRefused(m) \/ SetupFails(m) \/ StartSolve(m)
                               \/ m \in Cachers /\ (ReadDerived(m) \/ ReadBaseless(m))
      BY <1>4 DEF Reads
    <2>2. CASE ~StartSolve(m)
      BY <1>1, <2>1, <2>2 DEF ReadCached, RunRefused, SetupFails, ReadDerived, ReadBaseless, vars,
                              EngineTypes
    <2>3. CASE StartSolve(m)
      <3> DEFINE f == [op |-> "solve", asked |-> m, for |-> SolvedFor(m), stage |-> "trial",
                       todo |-> {}, trial |-> 0, error |-> FALSE]
      <3>1. /\ stack' = Append(stack, f) /\ Contributors \cap dropped = {}
            /\ UNCHANGED <<registry, depth, draining, pending, held, dropped, owed>>
        BY <2>3 DEF StartSolve
      <3>2. SolvedFor(m) \in Contributors
        BY Wired DEF SolvedFor
      <3>3. f \in AnyFrame /\ f.op = "solve" /\ Trials(f)
        BY <3>2, Wired DEF AnyFrame, SolveFrame, Trials
      <3> HIDE DEF f
      <3>4. Sound(stack', depth, dropped)
        BY <1>1, <3>1, <3>3, SoundPush
      <3> QED BY <1>1, <3>1, <3>4 DEF EngineTypes
    <2> QED BY <2>2, <2>3
  <1> QED BY <1>2, <1>3, <1>4
-----------------------------------------------------------------------------
(* The types of what the calls do not determine.                             *)
LEMMA CallsKeepData ==
  ASSUME EngineTypes, DataTypes, LibraryStep \/ FanOut \/ FanOutToMember \/ FanOutReturns
  PROVE  DataTypes'
  <1>1. /\ lazy \in [Lazies -> Lazy] /\ guard \in [Lazies -> Nat]
        /\ answer \in [Lazies -> Answers] /\ data \in [Members -> Neither..Solved]
        /\ fanout \in SUBSET Members
    BY DEF DataTypes
  <1>2. CASE EngineStep /\ UNCHANGED multiVars
    <2>1. ASSUME NEW l \in Lazies PROVE lazy[l] \in Lazy /\ EndUpdate(lazy[l]) \in Lazy
      BY <1>1, Methods
    <2>2. lazy' \in [Lazies -> Lazy] /\ guard' \in [Lazies -> Nat]
      BY <1>1, <1>2, <2>1 DEF EngineStep, ReleaseBelow
    <2> QED BY <1>1, <1>2, <2>2 DEF EngineStep, multiVars, DataTypes
  <1>3. CASE LazyHears /\ UNCHANGED multiVars
    <2>1. Top.who \in Lazies /\ lazy' = [lazy EXCEPT ![Top.who] = DeferredUpdate(@)]
          /\ guard' \in {guard, [guard EXCEPT ![Top.who] = Len(stack')]}
          /\ answer' \in {answer, [answer EXCEPT ![Top.who] = "none"]}
      BY <1>3 DEF LazyHears
    <2>2. DeferredUpdate(lazy[Top.who]) \in Lazy
      BY <1>1, <2>1, Methods
    <2>3. Len(stack') \in Nat
      <3>1. stack' \in Seq(AnyFrame)
        BY <1>3, CallsKeepTypes DEF EngineTypes, Sound
      <3> QED BY <3>1, LenProperties
    <2>4. lazy' \in [Lazies -> Lazy] /\ guard' \in [Lazies -> Nat] /\ answer' \in [Lazies -> Answers]
      BY <1>1, <2>1, <2>2, <2>3 DEF Answers
    <2> QED BY <1>1, <1>3, <2>4 DEF multiVars, DataTypes
  <1>4. CASE LazyReturns /\ UNCHANGED multiVars
    BY <1>1, <1>4 DEF LazyReturns, lazyVars, multiVars, DataTypes
  <1>5. CASE FanOut \/ FanOutToMember \/ FanOutReturns
    BY <1>1, <1>5 DEF FanOut, FanOutToMember, FanOutReturns, lazyVars, multiVars, DataTypes
  <1> QED BY <1>2, <1>3, <1>4, <1>5 DEF LibraryStep

LEMMA SolveKeepsData ==
  ASSUME EngineTypes, DataTypes, SolveStep
  PROVE  /\ DataTypes'
         /\ \A k \in Contributors : data'[k] = Solved /\ data[k] # Solved
                                      => Contributors \cap dropped = {}
  <1>1. /\ lazy \in [Lazies -> Lazy] /\ guard \in [Lazies -> Nat]
        /\ answer \in [Lazies -> Answers] /\ data \in [Members -> Neither..Solved]
        /\ fanout \in SUBSET Members
        /\ Lazies = Members
    BY Wired DEF DataTypes
  <1>2. /\ Top \in SolveFrame /\ Trials(Top) /\ Contributors \cap dropped = {}
    <2>1. stack # <<>> /\ Top.op = "solve"
      BY DEF SolveStep, SetArguments, SetArgumentsFails, TellCacher, Evaluate, NextTrial, Converge,
             GiveUp, AtStage, TopIs
    <2> QED BY <2>1, SoundTop, FrameKinds DEF EngineTypes
  <1>3. SUFFICES DataTypes'
    BY <1>2
  <1>4. /\ Top.asked \in Members /\ Top.for \in Contributors /\ Top.op = "solve"
        /\ Top.trial \in 0..MaxTrials
    BY <1>2, SolveFields
  <1>5. ASSUME NEW l \in Members
        PROVE  /\ lazy[l] \in Lazy /\ FinishOk(lazy[l]) \in Lazy
               /\ FinishErr(lazy[l]) \in Lazy /\ InvalidateSilently(lazy[l]) \in Lazy
               /\ FinishErr(InvalidateSilently(lazy[l])) \in Lazy
               /\ Derives(l) \in Lazy
    BY <1>1, Methods DEF Derives
  <1>6. CASE SetArguments \/ SetArgumentsFails
    <2>1. Top.trial < MaxTrials
      BY <1>2, <1>4, <1>6 DEF SetArguments, SetArgumentsFails, AtStage, Trials
    <2>2. Top.trial + 1 \in Neither..Solved
      BY <1>4, <2>1, NodeKinds
    <2>3. data' \in [Members -> Neither..Solved]
      BY <1>1, <1>6, <2>2 DEF SetArguments, SetArgumentsFails
    <2> QED BY <1>1, <1>6, <2>3 DEF SetArguments, SetArgumentsFails, lazyVars, DataTypes
  <1>7. CASE TellCacher \/ NextTrial
    BY <1>1, <1>7 DEF TellCacher, NextTrial, lazyVars, multiVars, DataTypes
  <1>8. CASE Evaluate
    <2>1. PICK read \in SUBSET SolveObservers :
             LET derived == {n \in read : MustCalculate(lazy[n])}
             IN  /\ lazy' = [m \in Lazies |-> IF m \in derived THEN Derives(m) ELSE lazy[m]]
                 /\ data' = [m \in Members |-> IF m \in derived THEN data[Base[m]] ELSE data[m]]
      BY <1>8 DEF Evaluate
    <2>2. \A n \in Cachers : data[Base[n]] \in Neither..Solved
      BY <1>1, Wired
    <2>3. \A n \in read : n \in Cachers
      BY DEF SolveObservers
    <2>4. lazy' \in [Lazies -> Lazy] /\ data' \in [Members -> Neither..Solved]
      BY <1>1, <1>5, <2>1, <2>2, <2>3
    <2> QED BY <1>1, <1>8, <2>4 DEF Evaluate, DataTypes
  <1>9. CASE Converge
    <2>1. /\ lazy' = [k \in Lazies |-> IF k \in {Top.asked, Top.for} THEN FinishOk(lazy[k]) ELSE lazy[k]]
          /\ data' = [k \in Members |->
                        IF k \in Contributors \cup {Top.asked} \/ data[k] = Top.trial THEN Solved
                        ELSE IF data[k] = Solved THEN Solved ELSE Neither]
          /\ answer' = [answer EXCEPT ![Top.asked] = "current"]
          /\ UNCHANGED <<guard, fanout>>
      BY <1>9 DEF Converge
    <2>2. lazy' \in [Lazies -> Lazy]
      BY <1>1, <1>5, <2>1
    <2>3. data' \in [Members -> Neither..Solved]
      BY <2>1, NodeKinds
    <2>4. answer' \in [Lazies -> Answers]
      BY <1>1, <2>1 DEF Answers
    <2> QED BY <1>1, <2>1, <2>2, <2>3, <2>4 DEF DataTypes
  <1>10. CASE GiveUp
    <2>1. /\ lazy' = Failed([k \in Lazies |-> IF k \in Contributors
                                                THEN InvalidateSilently(lazy[k]) ELSE lazy[k]],
                            Top.asked)
          /\ data' = [k \in Members |-> IF k \in Contributors \/ data[k] # Solved
                                          THEN Neither ELSE data[k]]
          /\ answer' = [answer EXCEPT ![Top.asked] = "none"]
          /\ UNCHANGED <<guard, fanout>>
      BY <1>10 DEF GiveUp
    <2>2. lazy' \in [Lazies -> Lazy]
      BY <1>1, <1>5, <2>1 DEF Failed
    <2>3. data' \in [Members -> Neither..Solved]
      BY <1>1, <2>1, NodeKinds
    <2>4. answer' \in [Lazies -> Answers]
      BY <1>1, <2>1 DEF Answers
    <2> QED BY <1>1, <2>1, <2>2, <2>3, <2>4 DEF DataTypes
  <1> QED BY <1>6, <1>7, <1>8, <1>9, <1>10 DEF SolveStep

LEMMA ClientsKeepData ==
  ASSUME EngineTypes, DataTypes, Reads \/ DropMultiCurve \/ \E q \in Quotes : SetQuote(q)
  PROVE  /\ DataTypes'
         /\ \A k \in Contributors : data'[k] = Solved => data[k] = Solved
  <1>1. /\ lazy \in [Lazies -> Lazy] /\ guard \in [Lazies -> Nat]
        /\ answer \in [Lazies -> Answers] /\ data \in [Members -> Neither..Solved]
        /\ fanout \in SUBSET Members
        /\ Lazies = Members
    BY Wired DEF DataTypes
  <1>2. CASE DropMultiCurve
    BY <1>1, <1>2 DEF DropMultiCurve, lazyVars, multiVars, DataTypes
  <1>3. ASSUME NEW q \in Quotes, SetQuote(q)
        PROVE  DataTypes' /\ \A k \in Contributors : data'[k] = Solved => data[k] = Solved
    <2>1. /\ data' = [m \in Members |-> IF data[m] = Solved THEN Neither ELSE data[m]]
          /\ answer' = [m \in Members |-> IF answer[m] = "current" THEN "stale" ELSE answer[m]]
          /\ UNCHANGED <<lazy, guard, fanout>>
      BY <1>3 DEF SetQuote
    <2>2. data' \in [Members -> Neither..Solved] /\ answer' \in [Lazies -> Answers]
      BY <1>1, <2>1, NodeKinds DEF Answers
    <2> QED BY <1>1, <2>1, <2>2, Wired, NodeKinds DEF DataTypes
  <1>4. ASSUME NEW m \in Members,
               \/ ReadCached(m) \/ RunRefused(m) \/ SetupFails(m) \/ StartSolve(m)
               \/ m \in Cachers /\ (ReadDerived(m) \/ ReadBaseless(m))
        PROVE  DataTypes' /\ \A k \in Contributors : data'[k] = Solved => data[k] = Solved
    <2>1. ASSUME NEW l \in Members
          PROVE  /\ lazy[l] \in Lazy /\ FinishErr(lazy[l]) \in Lazy
                 /\ MarkCalculated(lazy[l]) \in Lazy /\ StartCalculation(lazy[l]) \in Lazy
                 /\ FinishErr(InvalidateSilently(MarkCalculated(lazy[l]))) \in Lazy
                 /\ InvalidateSilently(MarkCalculated(lazy[l])) \in Lazy
                 /\ FinishErr(StartCalculation(lazy[l])) \in Lazy
                 /\ Derives(l) \in Lazy
      BY <1>1, Methods DEF Derives
    <2>2. \A b : Held(b) \in Answers
      BY DEF Held, Answers
    <2>3. CASE ReadCached(m)
      BY <1>1, <2>2, <2>3 DEF ReadCached, multiVars, DataTypes
    <2>4. CASE RunRefused(m)
      <3>1. lazy' \in [Lazies -> Lazy]
        BY <1>1, <2>1, <2>4 DEF RunRefused, Failed
      <3> QED BY <1>1, <2>4, <3>1 DEF RunRefused, multiVars, DataTypes, Answers
    <2>5. CASE SetupFails(m)
      <3>1. PICK entered \in SUBSET Contributors \ {{}} :
              /\ lazy' = Failed([k \in Lazies |-> IF k \in entered
                                                    THEN InvalidateSilently(MarkCalculated(lazy[k]))
                                                    ELSE lazy[k]], m)
              /\ data' = [k \in Members |-> IF k \in entered THEN Neither ELSE data[k]]
        BY <2>5 DEF SetupFails
      <3>2. lazy' \in [Lazies -> Lazy]
        BY <1>1, <2>1, <3>1 DEF Failed
      <3>3. data' \in [Members -> Neither..Solved]
        BY <1>1, <3>1, NodeKinds
      <3>4. \A k \in Contributors : data'[k] = Solved => data[k] = Solved
        BY <3>1, NodeKinds, Wired
      <3> QED BY <1>1, <2>5, <3>2, <3>3, <3>4 DEF SetupFails, DataTypes, Answers
    <2>6. CASE StartSolve(m)
      <3>1. lazy' \in [Lazies -> Lazy] /\ data' \in [Members -> Neither..Solved]
        BY <1>1, <2>1, <2>6, NodeKinds DEF StartSolve
      <3>2. \A k \in Contributors : data'[k] = Solved => data[k] = Solved
        BY <2>6, NodeKinds, Wired DEF StartSolve
      <3> QED BY <1>1, <2>6, <3>1, <3>2 DEF StartSolve, DataTypes
    <2>7. CASE m \in Cachers /\ ReadDerived(m)
      <3>1. lazy' \in [Lazies -> Lazy]
        BY <1>1, <2>1, <2>7 DEF ReadDerived
      <3>2. data' \in [Members -> Neither..Solved]
        BY <1>1, <2>7, Wired DEF ReadDerived
      <3>3. answer' \in [Lazies -> Answers]
        BY <1>1, <2>2, <2>7 DEF ReadDerived
      <3>4. \A k \in Contributors : data'[k] = data[k]
        BY <1>1, <2>7, Wired DEF ReadDerived
      <3> QED BY <1>1, <2>7, <3>1, <3>2, <3>3, <3>4 DEF ReadDerived, DataTypes
    <2>8. CASE m \in Cachers /\ ReadBaseless(m)
      <3>1. lazy' \in [Lazies -> Lazy]
        BY <1>1, <2>1, <2>8 DEF ReadBaseless
      <3> QED BY <1>1, <2>8, <3>1 DEF ReadBaseless, multiVars, DataTypes, Answers
    <2> QED BY <1>4, <2>3, <2>4, <2>5, <2>6, <2>7, <2>8
  <1> QED BY <1>2, <1>3, <1>4 DEF Reads
-----------------------------------------------------------------------------
(* Every step, and the start.                                                *)
LEMMA Steps ==
  ASSUME MultiNext
  PROVE  \/ LibraryStep \/ FanOut \/ FanOutToMember \/ FanOutReturns
         \/ SolveStep
         \/ Reads \/ DropMultiCurve \/ \E q \in Quotes : SetQuote(q)
  BY Wired DEF MultiNext, Running, Reads

LEMMA TypesKept ==
  ASSUME EngineTypes, DataTypes, [MultiNext]_allVars
  PROVE  /\ EngineTypes' /\ DataTypes'
         /\ \A k \in Contributors : data'[k] = Solved /\ data[k] # Solved
                                      => Contributors \cap dropped = {}
  <1>1. CASE UNCHANGED allVars
    BY <1>1 DEF allVars, vars, lazyVars, multiVars, EngineTypes, DataTypes
  <1>2. CASE LibraryStep \/ FanOut \/ FanOutToMember \/ FanOutReturns
    <2>1. EngineTypes'
      BY <1>2, EngineKeepsTypes, CallsKeepTypes DEF LibraryStep, EngineStep
    <2>2. data' = data
      BY <1>2 DEF LibraryStep, FanOut, FanOutToMember, FanOutReturns, multiVars
    <2> QED BY <1>2, <2>1, <2>2, CallsKeepData
  <1>3. CASE SolveStep
    BY <1>3, SolveKeepsTypes, SolveKeepsData
  <1>4. CASE Reads \/ DropMultiCurve \/ \E q \in Quotes : SetQuote(q)
    BY <1>4, ClientsKeepTypes, ClientsKeepData
  <1> QED BY <1>1, <1>2, <1>3, <1>4, Steps

LEMMA InitialTypes ==
  ASSUME MultiInit
  PROVE  EngineTypes /\ DataTypes
  <1>1. /\ stack = <<>> /\ depth = 0 /\ draining = FALSE
        /\ pending = {} /\ held = {} /\ dropped = {} /\ owed = {}
        /\ registry = [s \in Subjects |->
             {[observer |-> v, defer |-> v \notin Discarding] :
                v \in Upstream(s) \cup {w \in Clients : \E m \in Listens[w] : Own[m] = s}}]
    BY DEF MultiInit, QuietWith
  <1>2. \A s \in Subjects : \A v \in Upstream(s) \cup {w \in Clients : \E m \in Listens[w] : Own[m] = s} :
          [observer |-> v, defer |-> v \notin Discarding] \in Entry
    <2>1. \A s \in Subjects : Upstream(s) \cup {w \in Clients : \E m \in Listens[w] : Own[m] = s}
                                \subseteq Observers
      BY Wired DEF Upstream
    <2>2. \A v \in Observers : (v \notin Discarding) \in BOOLEAN
      OBVIOUS
    <2> QED BY <2>1, <2>2 DEF Entry
  <1>3. registry \in [Subjects -> SUBSET Entry]
    BY <1>1, <1>2
  <1>4. Sound(<<>>, 0, {})
    <2>1. <<>> \in Seq(AnyFrame) /\ DOMAIN <<>> = {}
      BY EmptySeq
    <2>2. RoundsOf(<<>>) = {} /\ ~SolveOn(<<>>)
      BY <2>1 DEF RoundsOf, SolveOn
    <2> QED BY <2>1, <2>2, FS_EmptySet DEF Sound, NumRounds
  <1>5. EngineTypes
    BY <1>1, <1>3, <1>4 DEF EngineTypes
  <1>6. NewLazy(TRUE) \in Lazy
    BY DEF NewLazy, Lazy
  <1>7. DataTypes
    BY <1>6, NodeKinds DEF MultiInit, LazyInit, DataTypes, Answers
  <1> QED BY <1>5, <1>7

(* Types of the state of MultiCurve (multicurve.rs) and of the engine below  *)
(* it, whatever clients do inside their updates.                             *)
THEOREM MultiTypeCorrect == MultiSpec => []MultiTypeOK
  <1>1. MultiInit => EngineTypes /\ DataTypes
    BY InitialTypes
  <1>2. EngineTypes /\ DataTypes /\ [MultiNext]_allVars => (EngineTypes /\ DataTypes)'
    BY TypesKept
  <1>3. EngineTypes /\ DataTypes => MultiTypeOK
    <2>1. SUFFICES ASSUME EngineTypes, DataTypes PROVE MultiTypeOK
      OBVIOUS
    <2>2. depth \in Nat /\ stack \in Seq(Frame \cup SolveFrame)
      <3>1. /\ UpdateFrame(Hub) \in AnyFrame /\ UpdateFrame(Hub).op = "update"
        BY Wired, FrameTypes DEF AnyFrame, UpdateFrame
      <3> QED BY <2>1, <3>1, SoundPush DEF EngineTypes, Sound, AnyFrame, Trials
    <2> QED BY <2>1, <2>2 DEF EngineTypes, DataTypes, MultiTypeOK
  <1> QED BY <1>1, <1>2, <1>3, PTL DEF MultiSpec

(* Whatever clients do inside their updates: once a contributor is gone no   *)
(* solve succeeds (MultiCurveBootstrap::run refuses), and none that is       *)
(* already running loses one.                                                *)
THEOREM NoFallbackCorrect == MultiSpec => NoSilentFallback
  <1>1. MultiInit => EngineTypes /\ DataTypes
    BY InitialTypes
  <1>2. EngineTypes /\ DataTypes /\ [MultiNext]_allVars => (EngineTypes /\ DataTypes)'
    BY TypesKept
  <1>3. EngineTypes /\ DataTypes /\ [MultiNext]_allVars =>
          [\A k \in Contributors : data'[k] = Solved /\ data[k] # Solved
                                     => Contributors \cap dropped = {}]_allVars
    BY TypesKept
  <1> QED BY <1>1, <1>2, <1>3, PTL DEF MultiSpec, NoSilentFallback
-----------------------------------------------------------------------------
(* From here on clients that read inside their update() observe contributors *)
(* only, and none changes a quote there.                                     *)
ReadersApart ==
    \A w \in Clients : /\ <<w, "set">> \notin CallbackOps
                       /\ <<w, "read">> \in CallbackOps => Listens[w] \cap Cachers = {}

Talkers == {w \in Clients : <<w, "read">> \in CallbackOps}
Listeners(s) == {w \in Clients : \E m \in Listens[w] : Own[m] = s}
Callable == Members \cup Clients \cup {Hub}

\* Who is updated ranks above everybody whose update is running: the hub tells
\* contributors, these tell readers, who start a solve, which tells cachers,
\* which tell the other clients.
Rank(o) ==
    IF o = Hub THEN 1
    ELSE IF o \in Contributors THEN 2
    ELSE IF o \in Talkers THEN 3
    ELSE IF o \in Cachers THEN 5
    ELSE 6
Level(frame) ==
    IF frame.op = "update" THEN Rank(frame.who) ELSE IF frame.op = "solve" THEN 4 ELSE 0

Under(st, r) == \A n \in DOMAIN st : Level(st[n]) < r
Updating(st, v) == \E n \in DOMAIN st : st[n].op = "update" /\ st[n].who = v

FrameOk(frame) ==
    /\ frame.op = "notify" => \A e \in frame.todo : e.observer \in Callable
    /\ frame.op = "update" => frame.who \in Callable
    /\ frame.op = "drain" => frame.batch = {} /\ frame.stalled = {}
    /\ frame.op = "solve" => frame.todo \subseteq Cachers

\* A call that may be made over a stack.
Over(st, frame) ==
    /\ FrameOk(frame)
    /\ frame.op = "notify" => \A e \in frame.todo : Under(st, Rank(e.observer))
    /\ frame.op = "update" => Under(st, Rank(frame.who))
    /\ frame.op = "solve" => Under(st, 4)

Rising(st) ==
    \A n \in DOMAIN st :
        /\ FrameOk(st[n])
        /\ st[n].op = "notify" =>
             \A e \in st[n].todo : \A m \in 1..n - 1 : Level(st[m]) < Rank(e.observer)
        /\ st[n].op = "update" => \A m \in 1..n - 1 : Level(st[m]) < Rank(st[n].who)
        /\ st[n].op = "solve" => \A m \in 1..n - 1 : Level(st[m]) < 4

\* The loop of l's guard: the call right above the update of l.
GuardAt(st, g, l) ==
    /\ g \in 2..Len(st)
    /\ st[g].op \in {"notify", "drain"}
    /\ st[g - 1].op = "update" /\ st[g - 1].who = l

\* The news a frame still has for a member.
News(frame, k) ==
    \/ frame.op = "notify" /\ \E e \in frame.todo : e.observer \in {Hub, k}
    \/ frame.op = "update" /\ ~frame.sent /\ frame.who \in {Hub, k}
NewsOf(st, k) == \E n \in DOMAIN st : News(st[n], k)
Hears(k) == k \in fanout \/ NewsOf(stack, k)

LEMMA Ranks ==
    /\ \A o : Rank(o) \in 1..6
    /\ Rank(Hub) = 1
    /\ \A k \in Contributors : Rank(k) = 2
    /\ \A w \in Talkers : Rank(w) = 3
    /\ \A n \in Cachers : Rank(n) = 5
    /\ \A w \in Clients \ Talkers : Rank(w) = 6
    /\ \A f : Level(f) \in 0..6
  <1>1. \A o : Rank(o) \in 1..6
    BY DEF Rank
  <1>2. Rank(Hub) = 1
    BY DEF Rank
  <1>3. \A k \in Contributors : Rank(k) = 2
    BY Wired DEF Rank
  <1>4. \A w \in Talkers : Rank(w) = 3
    BY Wired DEF Rank, Talkers
  <1>5. \A n \in Cachers : Rank(n) = 5
    BY Wired DEF Rank, Talkers
  <1>6. \A w \in Clients \ Talkers : Rank(w) = 6
    BY Wired DEF Rank
  <1>7. \A f : Level(f) \in 0..6
    BY <1>1 DEF Level
  <1> QED BY <1>1, <1>2, <1>3, <1>4, <1>5, <1>6, <1>7

(* What is under a rank is under every higher one.                           *)
LEMMA UnderHigher ==
  ASSUME NEW st, NEW r \in Nat, NEW q \in Nat, r <= q, Under(st, r)
  PROVE  Under(st, q)
  <1> SUFFICES ASSUME NEW n \in DOMAIN st PROVE Level(st[n]) < q
    BY DEF Under
  <1>1. Level(st[n]) < r /\ Level(st[n]) \in 0..6
    BY Ranks DEF Under
  <1> QED BY <1>1

(* Whoever ranks above a stack is not being updated on it.                   *)
LEMMA NotUpdating ==
  ASSUME NEW st, NEW v, Under(st, Rank(v))
  PROVE  ~Updating(st, v)
  <1> SUFFICES ASSUME NEW n \in DOMAIN st, st[n].op = "update", st[n].who = v PROVE FALSE
    BY DEF Updating
  <1>1. Level(st[n]) = Rank(v) /\ Level(st[n]) < Rank(v) /\ Rank(v) \in 1..6
    BY Ranks DEF Level, Under
  <1> QED BY <1>1

(* What a call adds to a stack.                                              *)
LEMMA Pushed ==
  ASSUME NEW st \in Seq(AnyFrame), NEW f \in AnyFrame
  PROVE  LET p == Append(st, f)
         IN  /\ p \in Seq(AnyFrame) /\ p # <<>> /\ Len(p) = Len(st) + 1 /\ Len(st) \in Nat
             /\ p[Len(p)] = f
             /\ Rising(p) <=> Rising(st) /\ Over(st, f)
             /\ \A r : Under(p, r) <=> Under(st, r) /\ Level(f) < r
             /\ \A v : Updating(p, v) <=> Updating(st, v) \/ (f.op = "update" /\ f.who = v)
             /\ SolveOn(p) <=> SolveOn(st) \/ f.op = "solve"
             /\ \A k : NewsOf(p, k) <=> NewsOf(st, k) \/ News(f, k)
             /\ \A g, l : GuardAt(p, g, l) <=>
                  \/ GuardAt(st, g, l)
                  \/ /\ g = Len(st) + 1 /\ f.op \in {"notify", "drain"} /\ Len(st) # 0
                     /\ st[Len(st)].op = "update" /\ st[Len(st)].who = l
  <1> DEFINE p == Append(st, f)
             n == Len(st)
  <1>1. /\ p \in Seq(AnyFrame) /\ Len(p) = n + 1 /\ n \in Nat
        /\ \A i \in 1..n : p[i] = st[i]
        /\ p[n + 1] = f /\ DOMAIN p = 1..n + 1 /\ DOMAIN st = 1..n
    BY PushProperties
  <1> HIDE DEF p, n
  <1>2. p # <<>>
    BY <1>1, EmptySeq
  <1>3. /\ \A i \in 1..n + 1 : i \in 1..n \/ i = n + 1
        /\ \A i \in 1..n : i \in 1..n + 1
        /\ n + 1 \in 1..n + 1 /\ (n + 1) - 1 = n /\ n + 1 \notin 1..n
        /\ \A i \in 1..n : \A m \in 1..i - 1 : m \in 1..n
    BY <1>1
  <1>4. \A r : Under(p, r) <=> Under(st, r) /\ Level(f) < r
    BY <1>1, <1>3 DEF Under
  <1>5. \A v : Updating(p, v) <=> Updating(st, v) \/ (f.op = "update" /\ f.who = v)
    BY <1>1, <1>3 DEF Updating
  <1>6. SolveOn(p) <=> SolveOn(st) \/ f.op = "solve"
    BY <1>1, <1>3 DEF SolveOn
  <1>7. \A k : NewsOf(p, k) <=> NewsOf(st, k) \/ News(f, k)
    BY <1>1, <1>3 DEF NewsOf
  <1>8. Rising(p) <=> Rising(st) /\ Over(st, f)
    <2> DEFINE Lower(s, i, r) == \A m \in 1..i - 1 : Level(s[m]) < r
               At(s, i) == /\ FrameOk(s[i])
                           /\ s[i].op = "notify" => \A e \in s[i].todo : Lower(s, i, Rank(e.observer))
                           /\ s[i].op = "update" => Lower(s, i, Rank(s[i].who))
                           /\ s[i].op = "solve" => Lower(s, i, 4)
    <2>1. \A r : \A i \in 1..n : Lower(p, i, r) <=> Lower(st, i, r)
      BY <1>1, <1>3
    <2>2. \A r : Lower(p, n + 1, r) <=> Under(st, r)
      BY <1>1, <1>3 DEF Under
    <2>3. (Rising(p) <=> \A i \in 1..n + 1 : At(p, i)) /\ (Rising(st) <=> \A i \in 1..n : At(st, i))
      BY <1>1 DEF Rising
    <2> HIDE DEF Lower
    <2>4. \A i \in 1..n : At(p, i) <=> At(st, i)
      BY <1>1, <2>1
    <2>5. At(p, n + 1) <=> Over(st, f)
      BY <1>1, <2>2 DEF Over
    <2> HIDE DEF At
    <2> QED BY <1>3, <2>3, <2>4, <2>5
  <1>9. ASSUME NEW g, NEW l
        PROVE  GuardAt(p, g, l) <=>
                 \/ GuardAt(st, g, l)
                 \/ /\ g = n + 1 /\ f.op \in {"notify", "drain"} /\ n # 0
                    /\ st[n].op = "update" /\ st[n].who = l
    <2>1. g \in 2..n + 1 <=> g \in 2..n \/ (g = n + 1 /\ n # 0)
      BY <1>1
    <2>2. g \in 2..n => g \in 1..n /\ g - 1 \in 1..n
      BY <1>1
    <2>3. CASE g \in 2..n
      <3>1. g # n + 1
        BY <1>1, <2>3
      <3>2. p[g] = st[g] /\ p[g - 1] = st[g - 1] /\ g \in 2..n + 1
        BY <1>1, <2>1, <2>2, <2>3
      <3> QED BY <1>1, <2>3, <3>1, <3>2 DEF GuardAt, n
    <2>4. CASE g = n + 1 /\ n # 0
      <3>1. p[g] = f /\ g - 1 = n /\ n \in 1..n /\ g \notin 2..n
        BY <1>1, <2>4
      <3>2. p[g - 1] = st[n]
        BY <1>1, <3>1
      <3> QED BY <1>1, <2>1, <2>4, <3>1, <3>2 DEF GuardAt, n
    <2>5. CASE ~(g \in 2..n \/ (g = n + 1 /\ n # 0))
      BY <1>1, <2>1, <2>5 DEF GuardAt, n
    <2> QED BY <2>3, <2>4, <2>5
  <1> QED BY <1>1, <1>2, <1>4, <1>5, <1>6, <1>7, <1>8, <1>9 DEF p, n

LEMMA NoCalls ==
    /\ Rising(<<>>) /\ \A r : Under(<<>>, r)
    /\ \A v : ~Updating(<<>>, v) /\ ~NewsOf(<<>>, v)
    /\ ~SolveOn(<<>>)
    /\ \A g, l : ~GuardAt(<<>>, g, l)
  <1>1. DOMAIN <<>> = {} /\ Len(<<>>) = 0
    BY EmptySeq
  <1>2. \A g : g \notin 2..0
    OBVIOUS
  <1> QED BY <1>1, <1>2 DEF Rising, Under, Updating, NewsOf, SolveOn, GuardAt

(* The top is over: what is below it.                                        *)
LEMMA Returned ==
  ASSUME stack \in Seq(AnyFrame), Rising(stack), stack # <<>>
  PROVE  /\ Below \in Seq(AnyFrame) /\ Top \in AnyFrame /\ Rising(Below) /\ Over(Below, Top)
         /\ Len(stack) \in Nat /\ Len(Below) = Len(stack) - 1
         /\ \A r : Under(stack, r) <=> Under(Below, r) /\ Level(Top) < r
         /\ \A v : Updating(stack, v) <=> Updating(Below, v) \/ (Top.op = "update" /\ Top.who = v)
         /\ SolveOn(stack) <=> SolveOn(Below) \/ Top.op = "solve"
         /\ \A k : NewsOf(stack, k) <=> NewsOf(Below, k) \/ News(Top, k)
         /\ \A g, l : GuardAt(stack, g, l) /\ (g <= Len(Below) \/ Top.op \notin {"notify", "drain"})
                        => GuardAt(Below, g, l)
         /\ \A g, l : GuardAt(stack, g, l) => g \in Nat /\ g <= Len(stack)
         /\ \A g, l : GuardAt(Below, g, l) => g <= Len(Below)
  <1>1. /\ Below \in Seq(AnyFrame) /\ Top \in AnyFrame /\ stack = Append(Below, Top)
        /\ Len(stack) \in Nat \ {0} /\ Len(Below) = Len(stack) - 1
    BY TopOfStack
  <1>2. /\ Rising(stack) <=> Rising(Below) /\ Over(Below, Top)
        /\ \A r : Under(stack, r) <=> Under(Below, r) /\ Level(Top) < r
        /\ \A v : Updating(stack, v) <=> Updating(Below, v) \/ (Top.op = "update" /\ Top.who = v)
        /\ SolveOn(stack) <=> SolveOn(Below) \/ Top.op = "solve"
        /\ \A k : NewsOf(stack, k) <=> NewsOf(Below, k) \/ News(Top, k)
    BY <1>1, Pushed
  <1>3. \A g, l : GuardAt(stack, g, l) =>
          GuardAt(Below, g, l) \/ (g = Len(Below) + 1 /\ Top.op \in {"notify", "drain"})
    BY <1>1, Pushed
  <1>4. ~(Len(Below) + 1 <= Len(Below))
    BY <1>1
  <1>5. \A g, l : GuardAt(stack, g, l) /\ (g <= Len(Below) \/ Top.op \notin {"notify", "drain"})
                    => GuardAt(Below, g, l)
    BY <1>3, <1>4
  <1>6. \A g, l : GuardAt(stack, g, l) => g \in Nat /\ g <= Len(stack)
    BY <1>1 DEF GuardAt
  <1>7. \A g, l : GuardAt(Below, g, l) => g <= Len(Below)
    BY <1>1 DEF GuardAt
  <1> QED BY <1>1, <1>2, <1>5, <1>6, <1>7

\* The same call, further on.
SameCall(g, f) == g.op = f.op /\ (g.op = "update" => g.who = f.who)

(* The top moves on, as the same call.                                       *)
LEMMA Moved ==
  ASSUME stack \in Seq(AnyFrame), Rising(stack), stack # <<>>, NEW g \in AnyFrame,
         SameCall(g, Top), Over(Below, g)
  PROVE  LET r == ReplaceTop(g)
         IN  /\ r \in Seq(AnyFrame) /\ Rising(r) /\ r # <<>> /\ Len(r) = Len(stack)
             /\ r[Len(r)] = g
             /\ \A x : Under(r, x) <=> Under(stack, x)
             /\ \A v : Updating(r, v) <=> Updating(stack, v)
             /\ SolveOn(r) <=> SolveOn(stack)
             /\ \A k : NewsOf(r, k) <=> NewsOf(Below, k) \/ News(g, k)
             /\ \A x, l : GuardAt(r, x, l) <=> GuardAt(stack, x, l)
  <1>1. /\ Below \in Seq(AnyFrame) /\ Top \in AnyFrame /\ stack = Append(Below, Top)
        /\ Len(stack) \in Nat \ {0} /\ Len(Below) = Len(stack) - 1
    BY TopOfStack
  <1>2. Rising(Below) /\ ReplaceTop(g) = Append(Below, g)
    BY Returned DEF ReplaceTop
  <1>3. g.op = Top.op /\ (g.op = "update" => g.who = Top.who) /\ Level(g) = Level(Top)
    BY DEF SameCall, Level
  <1>4. Len(Below) + 1 = Len(stack)
    BY <1>1
  <1> QED BY <1>1, <1>2, <1>3, <1>4, Pushed
-----------------------------------------------------------------------------
\* Who observes what: the members' updaters and the hub the quotes, clients
\* the members; and nobody is missed while the hub lives.
Registered ==
    /\ \A s \in Subjects : \A e \in registry[s] : e.observer \in Upstream(s) \cup Listeners(s)
    /\ Hub \notin dropped =>
         /\ dropped = {}
         /\ \A s \in Subjects : \A v \in Upstream(s) \cup Listeners(s) :
              \E e \in registry[s] : e.observer = v

\* Calls rank in the order they were made, so nobody is found busy.
Calls ==
    /\ Rising(stack) /\ pending = {} /\ held = {}
    /\ Registered
    /\ fanout # {} => Updating(stack, Hub)

\* A member's recursion guard is up only while its loop runs.
Guarded(l) ==
    /\ ~lazy[l].frozen /\ lazy[l].alwaysForward
    /\ lazy[l].updating => guard[l] # 0
    /\ guard[l] # 0 => GuardAt(stack, guard[l], l)
Guards == \A l \in Members : Guarded(l)

\* A contributor that is marked without a solution is being solved or will hear,
\* and so will whoever holds a stale answer of it.
Informed(k) ==
    /\ lazy[k].calculated /\ data[k] # Solved => SolveOn(stack) \/ Hears(k)
    /\ answer[k] = "stale" => Hears(k)
NewsComes == Hub \notin dropped => \A k \in Contributors : Informed(k)

Inv == EngineTypes /\ DataTypes /\ Calls /\ Guards /\ NewsComes

-----------------------------------------------------------------------------
\* y differs from z in "calculated" and "failed" only.
SameLoop(y, z) ==
    /\ y \in Lazy /\ y.frozen = z.frozen
    /\ y.updating = z.updating /\ y.alwaysForward = z.alwaysForward

LEMMA Loops ==
  ASSUME NEW z \in Lazy
  PROVE  /\ SameLoop(z, z)
         /\ SameLoop(MarkCalculated(z), z)
         /\ SameLoop(StartCalculation(z), z)
         /\ SameLoop(InvalidateSilently(z), z) /\ ~InvalidateSilently(z).calculated
         /\ SameLoop(FinishOk(z), z) /\ FinishOk(z).calculated = z.calculated
         /\ SameLoop(FinishErr(z), z) /\ ~FinishErr(z).calculated
  <1>1. SameLoop(z, z)
    BY DEF SameLoop
  <1>2. SameLoop(MarkCalculated(z), z) /\ SameLoop(StartCalculation(z), z)
    BY DEF SameLoop, MarkCalculated, StartCalculation, Lazy
  <1>3. SameLoop(InvalidateSilently(z), z) /\ ~InvalidateSilently(z).calculated
    BY DEF SameLoop, InvalidateSilently, Lazy
  <1>4. SameLoop(FinishOk(z), z) /\ FinishOk(z).calculated = z.calculated
    BY DEF SameLoop, FinishOk, Lazy
  <1>5. SameLoop(FinishErr(z), z) /\ ~FinishErr(z).calculated
    BY DEF SameLoop, FinishErr, Lazy
  <1> QED BY <1>1, <1>2, <1>3, <1>4, <1>5

LEMMA GuardsKept ==
  ASSUME Guards, guard' = guard, \A l \in Members : SameLoop(lazy'[l], lazy[l]),
         \A l \in Members : \A g : GuardAt(stack, g, l) => GuardAt(stack', g, l)
  PROVE  Guards'
  <1> SUFFICES ASSUME NEW l \in Members PROVE Guarded(l)'
    BY DEF Guards
  <1>1. Guarded(l)
    BY DEF Guards
  <1> QED BY <1>1 DEF Guarded, SameLoop

(* Whatever a step leaves as it was, it leaves informed.                     *)
LEMMA NewsKept ==
  ASSUME NewsComes, dropped' = dropped, data' = data,
         \A k \in Contributors : answer'[k] = "stale" => answer[k] = "stale",
         \A k \in Contributors : lazy'[k].calculated => lazy[k].calculated,
         SolveOn(stack) => SolveOn(stack'),
         \A k \in Contributors : Hears(k) => Hears(k)' \/ (~lazy'[k].calculated /\ answer'[k] # "stale")
  PROVE  NewsComes'
  <1> SUFFICES ASSUME Hub \notin dropped, NEW k \in Contributors PROVE Informed(k)'
    BY DEF NewsComes
  <1>1. Informed(k)
    BY DEF NewsComes
  <1> QED BY <1>1 DEF Informed

(* A round starts over below.                                                *)
LEMMA RoundStarts ==
  ASSUME EngineTypes, Calls, NEW s \in Subjects, NEW below \in Seq(AnyFrame), Rising(below),
         \A v \in Upstream(s) \cup Listeners(s) : Under(below, Rank(v)),
         StartRound(registry, s, below), UNCHANGED <<draining, pending, held, dropped>>
  PROVE  /\ Rising(stack') /\ Registered' /\ pending' = {} /\ held' = {}
         /\ Len(stack') = Len(below) + 1 /\ Len(below) \in Nat
         /\ \A v : Updating(stack', v) <=> Updating(below, v)
         /\ SolveOn(stack') <=> SolveOn(below)
         /\ \A k : NewsOf(below, k) => NewsOf(stack', k)
         /\ \A k : Hub \notin dropped /\ {Hub, k} \cap (Upstream(s) \cup Listeners(s)) # {}
                     => NewsOf(stack', k)
         /\ \A g, l : GuardAt(below, g, l) => GuardAt(stack', g, l)
         /\ \A l : below # <<>> /\ below[Len(below)].op = "update" /\ below[Len(below)].who = l
                     => GuardAt(stack', Len(stack'), l)
  <1> DEFINE snapshot == Pruned(registry[s])
             f == NotifyFrame(snapshot)
  <1>1. /\ stack' = Append(below, f)
        /\ registry' = [registry EXCEPT ![s] = snapshot]
    BY DEF StartRound
  <1>2. /\ registry \in [Subjects -> SUBSET Entry]
        /\ snapshot \subseteq registry[s] /\ snapshot \in SUBSET Entry
        /\ Hub \notin dropped => snapshot = registry[s]
    BY DEF EngineTypes, Calls, Registered, Pruned, Live
  <1>3. f \in AnyFrame /\ f.op = "notify" /\ f.todo = snapshot
    BY <1>2, FrameTypes DEF AnyFrame, NotifyFrame
  <1> HIDE DEF snapshot, f
  <1>4. \A v \in Upstream(s) \cup Listeners(s) : v \in Callable
    BY DEF Upstream, Listeners, Callable
  <1>5. \A e \in snapshot : e.observer \in Upstream(s) \cup Listeners(s)
    BY <1>2 DEF Calls, Registered
  <1>6. Over(below, f)
    BY <1>3, <1>4, <1>5 DEF Over, FrameOk
  <1>7. Registered'
    <2>1. \A t \in Subjects : registry'[t] \subseteq registry[t]
      BY <1>1, <1>2
    <2>2. Hub \notin dropped => registry' = registry
      BY <1>1, <1>2
    <2> QED BY <2>1, <2>2 DEF Calls, Registered
  <1>8. \A k : Hub \notin dropped /\ {Hub, k} \cap (Upstream(s) \cup Listeners(s)) # {} => News(f, k)
    <2> SUFFICES ASSUME NEW k, Hub \notin dropped,
                        NEW v \in Upstream(s) \cup Listeners(s), v \in {Hub, k}
                 PROVE  News(f, k)
      OBVIOUS
    <2>1. \E e \in registry[s] : e.observer = v
      BY DEF Calls, Registered
    <2> QED BY <1>2, <1>3, <2>1 DEF News
  <1>9. /\ Rising(stack') <=> Rising(below) /\ Over(below, f)
        /\ Len(stack') = Len(below) + 1 /\ Len(below) \in Nat
        /\ \A v : Updating(stack', v) <=> Updating(below, v) \/ (f.op = "update" /\ f.who = v)
        /\ SolveOn(stack') <=> SolveOn(below) \/ f.op = "solve"
        /\ \A k : NewsOf(stack', k) <=> NewsOf(below, k) \/ News(f, k)
        /\ \A g, l : GuardAt(stack', g, l) <=>
             \/ GuardAt(below, g, l)
             \/ /\ g = Len(below) + 1 /\ f.op \in {"notify", "drain"} /\ Len(below) # 0
                /\ below[Len(below)].op = "update" /\ below[Len(below)].who = l
    BY <1>1, <1>3, Pushed
  <1>10. below # <<>> => Len(below) # 0
    BY EmptySeq
  <1>11. pending' = {} /\ held' = {}
    BY DEF Calls
  <1> QED BY <1>3, <1>6, <1>7, <1>8, <1>9, <1>10, <1>11
-----------------------------------------------------------------------------
(* A step of the engine drops the guards whose loops are over.               *)
LEMMA EngineStepKeeps ==
  ASSUME Inv, EngineStep, UNCHANGED multiVars,
         Rising(stack'), UNCHANGED <<registry, held, dropped>>, pending' = {},
         Updating(stack, Hub) => Updating(stack', Hub), SolveOn(stack) => SolveOn(stack'),
         \A k \in Contributors : NewsOf(stack, k) => NewsOf(stack', k),
         \A l \in Members : \A g : GuardAt(stack, g, l) /\ g <= Len(stack') => GuardAt(stack', g, l),
         Len(stack') \in Nat
  PROVE  Calls' /\ Guards' /\ NewsComes'
  <1>1. Calls /\ Guards /\ NewsComes /\ fanout' = fanout /\ data' = data /\ answer' = answer
        /\ lazy \in [Members -> Lazy] /\ guard \in [Members -> Nat] /\ Lazies = Members
    BY Wired DEF Inv, DataTypes, multiVars, EngineStep
  <1>2. Calls'
    BY <1>1 DEF Calls, Registered
  <1>3. ASSUME NEW l \in Members
        PROVE  /\ Guarded(l)'
               /\ lazy'[l].calculated = lazy[l].calculated
    <2>1. lazy[l] \in Lazy /\ guard[l] \in Nat /\ Guarded(l)
      BY <1>1 DEF Guards
    <2>2. /\ lazy'[l] = IF guard[l] > Len(stack') THEN EndUpdate(lazy[l]) ELSE lazy[l]
          /\ guard'[l] = IF guard[l] > Len(stack') THEN 0 ELSE guard[l]
      BY <1>1 DEF EngineStep, ReleaseBelow
    <2>3. CASE guard[l] > Len(stack')
      BY <2>1, <2>2, <2>3, Methods DEF Guarded
    <2>4. CASE ~(guard[l] > Len(stack'))
      <3>1. guard[l] <= Len(stack')
        BY <2>1, <2>4
      <3> QED BY <2>1, <2>2, <2>4, <3>1 DEF Guarded
    <2> QED BY <2>3, <2>4
  <1>4. NewsComes'
    <2>1. \A k \in Contributors : lazy'[k].calculated => lazy[k].calculated
      BY <1>3, Wired
    <2>2. \A k \in Contributors : Hears(k) => Hears(k)'
      BY <1>1 DEF Hears
    <2> QED BY <1>1, <2>1, <2>2, NewsKept
  <1> QED BY <1>2, <1>3, <1>4 DEF Guards

(* Nobody is busy, so a round updates everybody in its snapshot.             *)
LEMMA RoundUpdateKeeps ==
  ASSUME Inv, EngineStep, UNCHANGED multiVars, RoundUpdate
  PROVE  Calls' /\ Guards' /\ NewsComes'
  <1>1. PICK e \in Top.todo : stack' = Append(ReplaceTop(Done(Top, e)), UpdateFrame(e.observer))
    BY DEF RoundUpdate, Done
  <1> DEFINE g == Done(Top, e)
             u == UpdateFrame(e.observer)
             r == ReplaceTop(g)
  <1>2. /\ stack # <<>> /\ Top.op = "notify" /\ stack \in Seq(AnyFrame) /\ Rising(stack)
    BY DEF RoundUpdate, TopIs, Inv, EngineTypes, Sound, Calls
  <1>3. Top \in Frame /\ Over(Below, Top)
    BY <1>2, Returned, FrameKinds
  <1>4. /\ e \in Entry /\ e.observer \in Observers
        /\ g \in Frame /\ g.op = "notify" /\ g.todo = Top.todo \ {e}
    BY <1>1, <1>2, <1>3, FrameFields, EntryFields
  <1>5. g \in AnyFrame /\ SameCall(g, Top) /\ Over(Below, g)
    BY <1>2, <1>3, <1>4 DEF AnyFrame, SameCall, Over, FrameOk
  <1>6. u \in AnyFrame /\ u.op = "update" /\ u.who = e.observer /\ ~u.sent
    BY <1>4, FrameTypes DEF AnyFrame, UpdateFrame
  <1> HIDE DEF g, u, r
  <1>7. /\ r \in Seq(AnyFrame) /\ Rising(r)
        /\ \A x : Under(r, x) <=> Under(stack, x)
        /\ \A v : Updating(r, v) <=> Updating(stack, v)
        /\ SolveOn(r) <=> SolveOn(stack)
        /\ \A k : NewsOf(r, k) <=> NewsOf(Below, k) \/ News(g, k)
        /\ \A x, l : GuardAt(r, x, l) <=> GuardAt(stack, x, l)
    BY <1>2, <1>5, Moved DEF r
  <1>8. Over(r, u)
    <2>1. e.observer \in Callable /\ Under(Below, Rank(e.observer))
      BY <1>1, <1>2, <1>3 DEF Over, FrameOk
    <2>2. Level(Top) < Rank(e.observer)
      BY <1>2, Ranks DEF Level
    <2>3. Under(stack, Rank(e.observer))
      BY <1>2, <2>1, <2>2, Returned
    <2> QED BY <1>6, <1>7, <2>1, <2>3 DEF Over, FrameOk
  <1>9. /\ Rising(stack') /\ Len(stack') \in Nat
        /\ \A v : Updating(r, v) => Updating(stack', v)
        /\ SolveOn(r) => SolveOn(stack')
        /\ \A k : NewsOf(stack', k) <=> NewsOf(r, k) \/ News(u, k)
        /\ \A x, l : GuardAt(r, x, l) => GuardAt(stack', x, l)
    <2>1. stack' = Append(r, u)
      BY <1>1 DEF r, g, u
    <2> QED BY <1>6, <1>7, <1>8, <2>1, Pushed
  <1>10. ASSUME NEW k \in Contributors, NewsOf(stack, k) PROVE NewsOf(stack', k)
    <2>1. NewsOf(Below, k) \/ News(Top, k)
      BY <1>2, <1>10, Returned
    <2>2. News(Top, k) => News(g, k) \/ News(u, k)
      BY <1>2, <1>4, <1>6 DEF News
    <2> QED BY <1>7, <1>9, <2>1, <2>2
  <1>11. UNCHANGED <<registry, held, dropped>> /\ pending' = {}
    BY DEF RoundUpdate, Inv, Calls
  <1> QED BY <1>7, <1>9, <1>10, <1>11, EngineStepKeeps

(* A round that is over has no news left, and a drain finds nothing pending. *)
LEMMA RoundEndKeeps ==
  ASSUME Inv, EngineStep, UNCHANGED multiVars, RoundEnd
  PROVE  Calls' /\ Guards' /\ NewsComes'
  <1>1. /\ stack # <<>> /\ Top.op = "notify" /\ stack \in Seq(AnyFrame) /\ Rising(stack)
        /\ Top.todo = {} /\ stack' \in {Append(Below, DrainFrame), Below}
        /\ UNCHANGED <<registry, held, dropped>> /\ pending' = {}
    BY DEF RoundEnd, TopIs, Inv, EngineTypes, Sound, Calls, ReplaceTop
  <1>2. /\ Below \in Seq(AnyFrame) /\ Top \in AnyFrame /\ Rising(Below) /\ stack = Append(Below, Top)
        /\ \A v : Updating(stack, v) => Updating(Below, v)
        /\ SolveOn(stack) => SolveOn(Below)
        /\ \A k : NewsOf(stack, k) <=> NewsOf(Below, k) \/ News(Top, k)
        /\ \A g, l : GuardAt(stack, g, l) /\ g <= Len(Below) => GuardAt(Below, g, l)
        /\ Len(Below) \in Nat
    BY <1>1, Returned, TopOfStack
  <1>3. \A k : ~News(Top, k)
    BY <1>1 DEF News
  <1>4. CASE stack' = Below
    BY <1>1, <1>2, <1>3, <1>4, EngineStepKeeps
  <1>5. CASE stack' = Append(Below, DrainFrame)
    <2> DEFINE f == DrainFrame
    <2>1. f \in AnyFrame /\ f.op = "drain" /\ Over(Below, f)
      BY FrameTypes DEF AnyFrame, DrainFrame, Over, FrameOk
    <2> HIDE DEF f
    <2>2. stack' = Append(Below, f)
      BY <1>5 DEF f
    <2>3. /\ Rising(stack') /\ Len(stack') \in Nat
          /\ \A v : Updating(Below, v) => Updating(stack', v)
          /\ SolveOn(Below) => SolveOn(stack')
          /\ \A k : NewsOf(Below, k) => NewsOf(stack', k)
      BY <1>2, <2>1, <2>2, Pushed
    <2>4. \A g, l : GuardAt(stack, g, l) => GuardAt(stack', g, l)
      <3>1. \A g, l : GuardAt(stack', g, l) <=>
              \/ GuardAt(Below, g, l)
              \/ /\ g = Len(Below) + 1 /\ f.op \in {"notify", "drain"} /\ Len(Below) # 0
                 /\ Below[Len(Below)].op = "update" /\ Below[Len(Below)].who = l
        BY <1>2, <2>1, <2>2, Pushed
      <3>2. \A g, l : GuardAt(stack, g, l) <=>
              \/ GuardAt(Below, g, l)
              \/ /\ g = Len(Below) + 1 /\ Top.op \in {"notify", "drain"} /\ Len(Below) # 0
                 /\ Below[Len(Below)].op = "update" /\ Below[Len(Below)].who = l
        BY <1>2, Pushed
      <3> QED BY <2>1, <3>1, <3>2
    <2> QED BY <1>1, <1>2, <1>3, <2>3, <2>4, EngineStepKeeps
  <1> QED BY <1>1, <1>4, <1>5

LEMMA DrainEndKeeps ==
  ASSUME Inv, EngineStep, UNCHANGED multiVars, DrainEnd \/ Return
  PROVE  Calls' /\ Guards' /\ NewsComes'
  <1>1. /\ stack # <<>> /\ stack \in Seq(AnyFrame) /\ Rising(stack) /\ stack' = Below
        /\ UNCHANGED <<registry, held, dropped>>
    BY DEF DrainEnd, Return, TopIs, Inv, EngineTypes, Sound, Calls
  <1>2. /\ Over(Below, Top) /\ Top \in AnyFrame /\ Rising(Below)
        /\ \A v : Updating(stack, v) <=> Updating(Below, v) \/ (Top.op = "update" /\ Top.who = v)
        /\ SolveOn(stack) <=> SolveOn(Below) \/ Top.op = "solve"
        /\ \A k : NewsOf(stack, k) <=> NewsOf(Below, k) \/ News(Top, k)
        /\ \A g, l : GuardAt(stack, g, l) /\ g <= Len(Below) => GuardAt(Below, g, l)
        /\ Below \in Seq(AnyFrame)
    BY <1>1, Returned
  <1>3. Len(Below) \in Nat
    BY <1>2, LenProperties
  <1>4. CASE DrainEnd
    <2>1. Top.op = "drain" /\ pending' = {}
      BY <1>2, <1>4 DEF DrainEnd, TopIs, Over, FrameOk
    <2>2. \A k : ~News(Top, k)
      BY <2>1 DEF News
    <2> QED BY <1>1, <1>2, <1>3, <2>1, <2>2, EngineStepKeeps
  <1>5. CASE Return
    <2>1. /\ Top.op = "update" /\ Top.who \in Clients \cup Forwarders /\ pending' = {}
      BY <1>5 DEF Return, TopIs, Inv, Calls
    <2>2. Top.who # Hub /\ \A k \in Contributors : Top.who # k
      BY <2>1, Wired
    <2>3. \A k \in Contributors : ~News(Top, k)
      BY <2>1, <2>2 DEF News
    <2> QED BY <1>1, <1>2, <1>3, <2>1, <2>2, <2>3, EngineStepKeeps
  <1> QED BY <1>4, <1>5

LEMMA EngineKeeps ==
  ASSUME Inv, EngineStep, UNCHANGED multiVars
  PROVE  Calls' /\ Guards' /\ NewsComes'
  <1>1. stack \in Seq(AnyFrame) /\ Rising(stack) /\ pending = {} /\ held = {}
    BY DEF Inv, EngineTypes, Sound, Calls
  <1>2. ~RoundDefer /\ ~RoundDiscard
    <2>1. SUFFICES ASSUME stack # <<>>, Top.op = "notify", NEW e \in Top.todo PROVE ~Busy(e.observer)
      BY DEF RoundDefer, RoundDiscard, TopIs
    <2>2. Over(Below, Top) /\ Level(Top) < Rank(e.observer)
      BY <1>1, <2>1, Returned, Ranks DEF Level
    <2>3. Under(stack, Rank(e.observer))
      BY <1>1, <2>1, <2>2, Returned DEF Over
    <2>4. ~Updating(stack, e.observer)
      BY <2>3, NotUpdating
    <2> QED BY <1>1, <2>4 DEF Busy, OnStack, Updating
  <1>3. ~DrainTake /\ ~DrainUpdate /\ ~DrainSkip /\ ~DrainStall
    <2>1. stack # <<>> /\ Top.op = "drain" => Top.batch = {}
      BY <1>1, Returned DEF Over, FrameOk
    <2> QED BY <1>1, <2>1 DEF DrainTake, DrainUpdate, DrainSkip, DrainStall, TopIs
  <1>4. ~ForwardBroadcast /\ ~ForwardDeliver
    <2>1. stack # <<>> /\ Top.op = "update" => Top.who \in Callable
      BY <1>1, Returned DEF Over, FrameOk
    <2>2. Callable \cap Forwarders = {}
      BY Wired DEF Callable
    <2> QED BY <2>1, <2>2 DEF ForwardBroadcast, ForwardDeliver, TopIs
  <1> QED BY <1>2, <1>3, <1>4, RoundUpdateKeeps, RoundEndKeeps, DrainEndKeeps DEF EngineStep, Engine
-----------------------------------------------------------------------------
\* What is known of the stack in every state.
LEMMA StackKnown ==
  ASSUME Inv
  PROVE  /\ stack \in Seq(AnyFrame) /\ Rising(stack) /\ pending = {} /\ held = {} /\ Registered
         /\ Lazies = Members /\ Guards /\ NewsComes /\ Calls /\ EngineTypes
         /\ lazy \in [Members -> Lazy] /\ guard \in [Members -> Nat]
         /\ \A l \in Members : lazy[l] \in Lazy
         /\ \A k \in Contributors : k \in Members
  BY Wired DEF Inv, EngineTypes, DataTypes, Sound, Calls

(* Calls and guards are kept by what leaves the flags of the loops alone.    *)
LEMMA CallsAndGuardsKept ==
  ASSUME Inv, Rising(stack'), UNCHANGED <<registry, pending, held, dropped, guard>>,
         fanout' # {} => Updating(stack', Hub),
         \A l \in Members : SameLoop(lazy'[l], lazy[l]),
         \A l \in Members : \A g : GuardAt(stack, g, l) => GuardAt(stack', g, l)
  PROVE  Calls' /\ Guards'
  <1>1. Calls'
    BY DEF Inv, Calls, Registered
  <1> QED BY <1>1, GuardsKept, StackKnown

(* An updater that hears tells all who observe its member: the guard was     *)
(* down, for no other update of it is running.                               *)
LEMMA LazyHearsKeeps ==
  ASSUME Inv, ReadersApart, LazyHears, UNCHANGED multiVars
  PROVE  Calls' /\ Guards' /\ NewsComes'
  <1> DEFINE l == Top.who
             g == Sent(Top)
             r == ReplaceTop(g)
  <1>1. stack # <<>> /\ Top.op = "update" /\ l \in Members /\ ~Top.sent
    BY StackKnown DEF LazyHears, TopIs
  <1>2. /\ Over(Below, Top) /\ Top \in AnyFrame /\ Top \in Frame /\ Under(Below, Rank(l))
        /\ l \in Callable
    BY <1>1, StackKnown, Returned, FrameKinds DEF Over, FrameOk
  <1>3. g \in AnyFrame /\ g.op = "update" /\ g.who = l
    BY <1>1, <1>2, FrameFields DEF AnyFrame
  <1> HIDE DEF g
  <1>4. SameCall(g, Top) /\ Over(Below, g)
    BY <1>1, <1>2, <1>3 DEF SameCall, Over, FrameOk
  <1>5. /\ r \in Seq(AnyFrame) /\ Rising(r) /\ r # <<>> /\ r[Len(r)] = g
        /\ \A x : Under(r, x) <=> Under(stack, x)
        /\ \A v : Updating(r, v) <=> Updating(stack, v)
        /\ SolveOn(r) <=> SolveOn(stack)
        /\ \A k : NewsOf(r, k) <=> NewsOf(Below, k) \/ News(g, k)
        /\ \A x, m : GuardAt(r, x, m) <=> GuardAt(stack, x, m)
    BY <1>1, <1>3, <1>4, StackKnown, Moved
  <1> HIDE DEF r
  <1>6. /\ ~lazy[l].updating /\ ~lazy[l].frozen /\ lazy[l].alwaysForward /\ lazy[l] \in Lazy
    <2>1. Guarded(l) /\ lazy[l] \in Lazy
      BY <1>1, StackKnown DEF Guards
    <2>2. ~GuardAt(stack, guard[l], l)
      <3>1. SUFFICES ASSUME GuardAt(Below, guard[l], l) PROVE FALSE
        BY <1>1, StackKnown, Returned
      <3>2. Below \in Seq(AnyFrame) /\ Len(Below) \in Nat /\ DOMAIN Below = 1..Len(Below)
        BY <1>1, StackKnown, Returned, LenProperties
      <3>3. guard[l] - 1 \in DOMAIN Below
        BY <3>1, <3>2 DEF GuardAt
      <3>4. Updating(Below, l)
        BY <3>1, <3>3 DEF GuardAt, Updating
      <3> QED BY <1>2, <3>4, NotUpdating
    <2> QED BY <2>1, <2>2 DEF Guarded
  <1>7. Tells(lazy[l]) /\ Invalidates(lazy[l])
    BY <1>6 DEF Tells, Invalidates
  <1>8. /\ StartRound(registry, Own[l], r) /\ lazy' = [lazy EXCEPT ![l] = DeferredUpdate(@)]
        /\ guard' = [guard EXCEPT ![l] = Len(stack')]
        /\ answer' = [answer EXCEPT ![l] = "none"]
        /\ UNCHANGED <<draining, pending, held, dropped>>
    BY <1>7 DEF LazyHears, r, g, Sent
  <1>9. Own[l] \in Subjects
    BY <1>1, Wired
  <1>10. \A v \in Upstream(Own[l]) \cup Listeners(Own[l]) : Under(r, Rank(v))
    <2>1. Upstream(Own[l]) = {}
      BY <1>1, Wired, MultiConstants DEF Upstream
    <2>2. SUFFICES ASSUME NEW v \in Listeners(Own[l]) PROVE Under(stack, Rank(v))
      BY <1>5, <2>1
    <2>3. v \in Clients /\ l \in Listens[v]
      BY <1>1, MultiConstants DEF Listeners
    <2>4. Rank(l) < Rank(v)
      <3>1. CASE l \in Contributors
        BY <2>3, <3>1, Ranks
      <3>2. CASE l \in Cachers
        <4>1. v \notin Talkers
          BY <2>3, <3>2 DEF ReadersApart, Talkers
        <4> QED BY <2>3, <3>2, <4>1, Ranks
      <3> QED BY <1>1, <3>1, <3>2, Wired
    <2>5. Level(Top) < Rank(v) /\ Under(Below, Rank(v))
      <3>1. Rank(l) \in Nat /\ Rank(v) \in Nat /\ Rank(l) <= Rank(v)
        BY <2>4, Ranks
      <3> QED BY <1>1, <1>2, <2>4, <3>1, UnderHigher DEF Level
    <2> QED BY <1>1, <2>5, StackKnown, Returned
  <1>11. /\ Rising(stack') /\ Registered' /\ pending' = {} /\ held' = {}
         /\ \A v : Updating(stack', v) <=> Updating(r, v)
         /\ SolveOn(stack') <=> SolveOn(r)
         /\ \A k : NewsOf(r, k) => NewsOf(stack', k)
         /\ \A x, m : GuardAt(r, x, m) => GuardAt(stack', x, m)
         /\ GuardAt(stack', Len(stack'), l)
         /\ Len(stack') = Len(r) + 1 /\ Len(r) \in Nat
    BY <1>3, <1>5, <1>8, <1>9, <1>10, StackKnown, RoundStarts
  <1>12. Calls'
    BY <1>5, <1>11 DEF Inv, Calls, multiVars
  <1>13. /\ lazy'[l].calculated = FALSE /\ lazy'[l].updating
         /\ lazy'[l].frozen = lazy[l].frozen /\ lazy'[l].alwaysForward = lazy[l].alwaysForward
         /\ guard'[l] = Len(stack') /\ answer'[l] = "none"
    <2>1. DeferredUpdate(lazy[l]) =
            [lazy[l] EXCEPT !.calculated = FALSE, !.failed = FALSE, !.updating = Tells(lazy[l])]
      BY <1>7 DEF DeferredUpdate
    <2>2. lazy'[l] = DeferredUpdate(lazy[l]) /\ guard'[l] = Len(stack') /\ answer'[l] = "none"
      BY <1>1, <1>8, StackKnown DEF Inv, DataTypes
    <2>3. Tells(lazy[l]) = TRUE
      BY <1>7 DEF Tells, Invalidates
    <2> QED BY <1>6, <2>1, <2>2, <2>3 DEF Lazy
  <1>14. \A m \in Members : m # l => /\ lazy'[m] = lazy[m] /\ guard'[m] = guard[m]
                                     /\ answer'[m] = answer[m]
    BY <1>8, StackKnown DEF Inv, DataTypes
  <1>15. Guards'
    <2> SUFFICES ASSUME NEW m \in Members PROVE Guarded(m)'
      BY DEF Guards
    <2>1. CASE m = l
      <3>1. Len(stack') # 0
        BY <1>11
      <3> QED BY <1>6, <1>11, <1>13, <2>1, <3>1 DEF Guarded
    <2>2. CASE m # l
      BY <1>5, <1>11, <1>14, <2>2, StackKnown DEF Guards, Guarded
    <2> QED BY <2>1, <2>2
  <1>16. NewsComes'
    <2>1. ASSUME NEW k \in Contributors, Hears(k), k # l PROVE Hears(k)'
      <3>1. Top.who \notin {Hub, k}
        BY <1>1, <2>1, Wired
      <3>2. k \in fanout \/ NewsOf(Below, k)
        BY <1>1, <2>1, <3>1, StackKnown, Returned DEF Hears, News
      <3> QED BY <1>5, <1>11, <3>2 DEF Hears, multiVars
    <2>2. \A k \in Contributors :
            /\ lazy'[k].calculated => lazy[k].calculated
            /\ answer'[k] = "stale" => answer[k] = "stale"
            /\ Hears(k) => Hears(k)' \/ (~lazy'[k].calculated /\ answer'[k] # "stale")
      BY <1>13, <1>14, <2>1, StackKnown
    <2> QED BY <1>5, <1>8, <1>11, <2>2, StackKnown, NewsKept DEF multiVars
  <1> QED BY <1>12, <1>15, <1>16

(* What returns to the hub or to a round has told.                           *)
LEMMA ReturnsKeep ==
  ASSUME Inv, (LazyReturns /\ UNCHANGED multiVars) \/ FanOutReturns
  PROVE  Calls' /\ Guards' /\ NewsComes'
  <1>1. /\ stack # <<>> /\ Top.op = "update" /\ Top.sent /\ stack' = Below
        /\ UNCHANGED <<registry, pending, held, dropped, lazy, guard, answer, data, fanout>>
        /\ Top.who = Hub => fanout = {}
    BY StackKnown, Wired DEF LazyReturns, FanOutReturns, TopIs, lazyVars, multiVars
  <1>2. /\ Rising(Below)
        /\ \A v : Updating(stack, v) <=> Updating(Below, v) \/ Top.who = v
        /\ SolveOn(stack) <=> SolveOn(Below)
        /\ \A k : NewsOf(stack, k) <=> NewsOf(Below, k) \/ News(Top, k)
        /\ \A g, l : GuardAt(stack, g, l) => GuardAt(Below, g, l)
    BY <1>1, StackKnown, Returned
  <1>3. \A k : ~News(Top, k)
    BY <1>1 DEF News
  <1>4. \A k \in Contributors : Hears(k) => Hears(k)'
    BY <1>1, <1>2, <1>3 DEF Hears
  <1>5. Calls' /\ Guards'
    <2>1. \A l \in Members : SameLoop(lazy'[l], lazy[l])
      BY <1>1, StackKnown, Loops
    <2>2. fanout' # {} => Updating(stack', Hub)
      BY <1>1, <1>2, StackKnown DEF Calls
    <2> QED BY <1>1, <1>2, <2>1, <2>2, CallsAndGuardsKept
  <1> QED BY <1>1, <1>2, <1>4, <1>5, StackKnown, NewsKept

(* The hub reaches every member: none of their updates is running below it.  *)
LEMMA FanOutKeeps ==
  ASSUME Inv, FanOut \/ FanOutToMember
  PROVE  Calls' /\ Guards' /\ NewsComes'
  <1>1. /\ stack # <<>> /\ Top.op = "update" /\ Top.who = Hub
        /\ UNCHANGED <<registry, pending, held, dropped, lazy, guard, answer, data>>
    BY DEF FanOut, FanOutToMember, TopIs, lazyVars
  <1>2. /\ Over(Below, Top) /\ Top \in AnyFrame /\ Top \in Frame /\ Under(Below, 1)
        /\ \A x : Under(stack, x) <=> Under(Below, x) /\ Level(Top) < x
        /\ \A v : Updating(stack, v) <=> Updating(Below, v) \/ Top.who = v
        /\ \A k : NewsOf(stack, k) <=> NewsOf(Below, k) \/ News(Top, k)
    BY <1>1, StackKnown, Returned, FrameKinds, Ranks DEF Over
  <1>3. \A l \in Members : SameLoop(lazy'[l], lazy[l])
    BY <1>1, StackKnown, Loops
  <1>4. CASE FanOut
    <2> DEFINE g == Sent(Top)
    <2>1. stack' = ReplaceTop(g) /\ fanout' = Members
      BY <1>4 DEF FanOut, Sent
    <2>2. g \in AnyFrame /\ g.op = "update" /\ g.who = Top.who
      BY <1>1, <1>2, FrameFields DEF AnyFrame
    <2> HIDE DEF g
    <2>3. SameCall(g, Top) /\ Over(Below, g)
      BY <1>1, <1>2, <2>2 DEF SameCall, Over, FrameOk
    <2>4. /\ Rising(stack')
          /\ \A v : Updating(stack', v) <=> Updating(stack, v)
          /\ SolveOn(stack') <=> SolveOn(stack)
          /\ \A x, l : GuardAt(stack', x, l) <=> GuardAt(stack, x, l)
      BY <1>1, <2>1, <2>2, <2>3, StackKnown, Moved
    <2>5. Calls' /\ Guards'
      BY <1>1, <1>2, <1>3, <2>4, CallsAndGuardsKept
    <2>6. \A k \in Contributors : Hears(k)'
      BY <2>1, StackKnown DEF Hears
    <2> QED BY <1>1, <2>4, <2>5, <2>6, StackKnown, NewsKept
  <1>5. CASE FanOutToMember
    <2>1. PICK m \in fanout : /\ fanout' = fanout \ {m}
                              /\ stack' = IF Busy(m) THEN stack ELSE Append(stack, UpdateFrame(m))
      BY <1>5 DEF FanOutToMember
    <2> DEFINE u == UpdateFrame(m)
    <2>2. m \in Members /\ m \in Observers
      BY Wired DEF Inv, DataTypes
    <2>3. Under(stack, Rank(m))
      <3>1. Rank(m) \in 2..6 /\ Level(Top) = 1
        BY <1>1, <2>2, Ranks, Wired DEF Level
      <3>2. Under(Below, Rank(m))
        BY <1>2, <3>1, UnderHigher
      <3> QED BY <1>2, <3>1, <3>2
    <2>4. ~Busy(m)
      BY <2>3, NotUpdating, StackKnown DEF Busy, OnStack, Updating
    <2>5. u \in AnyFrame /\ u.op = "update" /\ u.who = m /\ ~u.sent
      BY <2>2, FrameTypes DEF AnyFrame, UpdateFrame
    <2>6. stack' = Append(stack, u)
      BY <2>1, <2>4
    <2> HIDE DEF u
    <2>7. Over(stack, u)
      BY <2>2, <2>3, <2>5 DEF Over, FrameOk, Callable
    <2>8. /\ Rising(stack')
          /\ \A v : Updating(stack, v) => Updating(stack', v)
          /\ SolveOn(stack) => SolveOn(stack')
          /\ \A k : NewsOf(stack', k) <=> NewsOf(stack, k) \/ News(u, k)
          /\ \A x, l : GuardAt(stack, x, l) => GuardAt(stack', x, l)
      BY <2>5, <2>6, <2>7, StackKnown, Pushed
    <2>9. Calls' /\ Guards'
      BY <1>1, <1>2, <1>3, <2>8, CallsAndGuardsKept
    <2>10. \A k \in Contributors : Hears(k) => Hears(k)'
      BY <2>1, <2>5, <2>8 DEF Hears, News
    <2> QED BY <1>1, <2>8, <2>9, <2>10, StackKnown, NewsKept
  <1> QED BY <1>4, <1>5
-----------------------------------------------------------------------------
(* The steps of a solve: it stays on top, and has no news to bring.          *)
LEMMA SolveOnTop ==
  ASSUME Inv, TopIs("solve")
  PROVE  /\ stack # <<>> /\ Top \in SolveFrame /\ Top.todo \subseteq Cachers /\ Under(Below, 4)
         /\ SolveOn(stack) /\ Under(stack, 5)
         /\ \A k : NewsOf(stack, k) <=> NewsOf(Below, k)
  <1>1. stack # <<>> /\ Top.op = "solve"
    BY DEF TopIs
  <1>2. Top \in AnyFrame /\ Over(Below, Top)
    BY <1>1, StackKnown, Returned
  <1>3. Top \in SolveFrame /\ Top.todo \subseteq Cachers /\ Under(Below, 4)
    BY <1>1, <1>2, FrameKinds DEF Over, FrameOk
  <1>4. \A k : ~News(Top, k)
    BY <1>1 DEF News
  <1>5. Under(stack, 5)
    <2>1. Under(Below, 5) /\ Level(Top) = 4
      BY <1>1, <1>3, UnderHigher DEF Level
    <2> QED BY <1>1, <2>1, StackKnown, Returned
  <1> QED BY <1>1, <1>3, <1>4, <1>5, StackKnown, Returned

LEMMA SolveMovesOn ==
  ASSUME Inv, TopIs("solve"), NEW g \in SolveFrame, g.todo \subseteq Cachers,
         stack' = ReplaceTop(g),
         UNCHANGED <<registry, pending, held, dropped, guard, answer, fanout>>,
         \A l \in Members : SameLoop(lazy'[l], lazy[l])
  PROVE  Calls' /\ Guards' /\ NewsComes'
  <1>1. /\ stack # <<>> /\ Top.op = "solve" /\ Under(Below, 4) /\ SolveOn(stack)
        /\ \A k : NewsOf(stack, k) <=> NewsOf(Below, k)
    BY SolveOnTop, SolveFields
  <1>2. g \in AnyFrame /\ g.op = "solve"
    BY SolveFields DEF AnyFrame
  <1>3. SameCall(g, Top) /\ Over(Below, g)
    BY <1>1, <1>2 DEF SameCall, Over, FrameOk
  <1>4. /\ Rising(stack')
        /\ \A v : Updating(stack', v) <=> Updating(stack, v)
        /\ SolveOn(stack')
        /\ \A k : NewsOf(stack, k) => NewsOf(stack', k)
        /\ \A x, l : GuardAt(stack', x, l) <=> GuardAt(stack, x, l)
    BY <1>1, <1>2, <1>3, StackKnown, Moved
  <1>5. Calls' /\ Guards'
    BY <1>4, StackKnown, CallsAndGuardsKept DEF Calls
  <1>6. NewsComes'
    <2> SUFFICES ASSUME Hub \notin dropped, NEW k \in Contributors PROVE Informed(k)'
      BY DEF NewsComes
    <2>1. Informed(k) /\ (Hears(k) => Hears(k)')
      BY <1>4, StackKnown DEF NewsComes, Hears
    <2> QED BY <1>4, <2>1 DEF Informed
  <1> QED BY <1>5, <1>6

(* It tells cachers, whose updates are not running below it.                 *)
LEMMA TellCacherKeeps ==
  ASSUME Inv, TellCacher
  PROVE  Calls' /\ Guards' /\ NewsComes'
  <1>1. PICK n \in Top.todo : stack' = Append(ReplaceTop(Telling(Top, n)), UpdateFrame(n))
    BY DEF TellCacher, Telling
  <1> DEFINE g == Telling(Top, n)
             u == UpdateFrame(n)
             r == ReplaceTop(g)
  <1>2. /\ TopIs("solve") /\ Top.op = "solve" /\ stack # <<>>
        /\ UNCHANGED <<registry, pending, held, dropped, lazy, guard, answer, data, fanout>>
    BY DEF TellCacher, AtStage, TopIs, lazyVars, multiVars
  <1>3. /\ Top \in SolveFrame /\ n \in Cachers /\ Under(Below, 4) /\ SolveOn(stack)
        /\ Under(stack, 5)
        /\ \A k : NewsOf(stack, k) <=> NewsOf(Below, k)
    BY <1>1, <1>2, SolveOnTop
  <1>4. g \in AnyFrame /\ g.op = "solve" /\ g.todo \subseteq Cachers
    BY <1>1, <1>2, SolveOnTop, SolveMoves DEF AnyFrame
  <1>5. u \in AnyFrame /\ u.op = "update" /\ u.who = n
    BY <1>3, Wired, FrameTypes DEF AnyFrame, UpdateFrame
  <1> HIDE DEF g, u
  <1>6. SameCall(g, Top) /\ Over(Below, g)
    BY <1>2, <1>3, <1>4 DEF SameCall, Over, FrameOk
  <1>7. /\ r \in Seq(AnyFrame) /\ Rising(r)
        /\ \A x : Under(r, x) <=> Under(stack, x)
        /\ \A v : Updating(r, v) <=> Updating(stack, v)
        /\ SolveOn(r) <=> SolveOn(stack)
        /\ \A k : NewsOf(r, k) <=> NewsOf(Below, k) \/ News(g, k)
        /\ \A x, l : GuardAt(r, x, l) <=> GuardAt(stack, x, l)
    BY <1>2, <1>4, <1>6, StackKnown, Moved
  <1>8. stack' = Append(r, u)
    BY <1>1 DEF g, u
  <1> HIDE DEF r
  <1>9. Over(r, u)
    <2>1. Rank(n) = 5 /\ n \in Callable
      BY <1>3, Ranks, Wired DEF Callable
    <2> QED BY <1>3, <1>5, <1>7, <2>1 DEF Over, FrameOk
  <1>10. /\ Rising(stack')
         /\ \A v : Updating(r, v) => Updating(stack', v)
         /\ SolveOn(r) => SolveOn(stack')
         /\ \A k : NewsOf(r, k) => NewsOf(stack', k)
         /\ \A x, l : GuardAt(r, x, l) => GuardAt(stack', x, l)
    BY <1>5, <1>7, <1>8, <1>9, Pushed
  <1>11. Calls' /\ Guards'
    <2>1. \A l \in Members : SameLoop(lazy'[l], lazy[l])
      BY <1>2, StackKnown, Loops
    <2>2. fanout' # {} => Updating(stack', Hub)
      BY <1>2, <1>7, <1>10, StackKnown DEF Calls
    <2> QED BY <1>2, <1>7, <1>10, <2>1, <2>2, CallsAndGuardsKept
  <1>12. \A k \in Contributors : Hears(k) => Hears(k)'
    BY <1>2, <1>3, <1>7, <1>10 DEF Hears
  <1> QED BY <1>2, <1>3, <1>7, <1>10, <1>11, <1>12, StackKnown, NewsKept

(* A solve that is over leaves every contributor solved, or every one        *)
(* unmarked.                                                                 *)
LEMMA SolveEndKeeps ==
  ASSUME Inv, Converge \/ GiveUp
  PROVE  Calls' /\ Guards' /\ NewsComes'
  <1>1. /\ TopIs("solve") /\ Top.op = "solve" /\ stack # <<>> /\ stack' = Below
        /\ UNCHANGED <<registry, pending, held, dropped, guard, fanout>>
        /\ data \in [Members -> Neither..Solved] /\ answer \in [Members -> Answers]
    BY Wired DEF Converge, GiveUp, AtStage, TopIs, Inv, DataTypes
  <1>2. /\ Rising(Below) /\ Top \in SolveFrame /\ Top.asked \in Members
        /\ \A v : Updating(stack, v) <=> Updating(Below, v)
        /\ \A k : NewsOf(stack, k) <=> NewsOf(Below, k)
        /\ \A g, l : GuardAt(stack, g, l) => GuardAt(Below, g, l)
    BY <1>1, StackKnown, Returned, SolveOnTop, SolveFields
  <1>3. \A l \in Members :
          /\ SameLoop(lazy'[l], lazy[l])
          /\ l \in Contributors => data'[l] = Solved \/ ~lazy'[l].calculated
          /\ answer'[l] = "stale" => answer[l] = "stale"
    <2> SUFFICES ASSUME NEW l \in Members
                 PROVE  /\ SameLoop(lazy'[l], lazy[l])
                        /\ l \in Contributors => data'[l] = Solved \/ ~lazy'[l].calculated
                        /\ answer'[l] = "stale" => answer[l] = "stale"
      OBVIOUS
    <2>1. lazy[l] \in Lazy
      BY StackKnown
    <2>2. CASE Converge
      <3>1. /\ lazy'[l] \in {FinishOk(lazy[l]), lazy[l]}
            /\ l \in Contributors => data'[l] = Solved
            /\ answer' = [answer EXCEPT ![Top.asked] = "current"]
        BY <2>2, StackKnown DEF Converge
      <3> QED BY <1>1, <2>1, <3>1, Loops
    <2>3. CASE GiveUp
      <3> DEFINE y == IF l \in Contributors THEN InvalidateSilently(lazy[l]) ELSE lazy[l]
      <3>1. /\ lazy'[l] \in {FinishErr(y), y}
            /\ answer' = [answer EXCEPT ![Top.asked] = "none"]
        BY <2>3, StackKnown DEF GiveUp, Failed
      <3>2. SameLoop(y, lazy[l]) /\ y \in Lazy /\ (l \in Contributors => ~y.calculated)
        BY <2>1, Loops DEF SameLoop
      <3> HIDE DEF y
      <3>3. SameLoop(FinishErr(y), y) /\ ~FinishErr(y).calculated
        BY <3>2, Loops
      <3>4. SameLoop(lazy'[l], lazy[l]) /\ (l \in Contributors => ~lazy'[l].calculated)
        BY <3>1, <3>2, <3>3 DEF SameLoop
      <3> QED BY <1>1, <3>1, <3>4
    <2> QED BY <2>2, <2>3
  <1>4. Calls' /\ Guards'
    BY <1>1, <1>2, <1>3, StackKnown, CallsAndGuardsKept DEF Calls
  <1>5. NewsComes'
    <2> SUFFICES ASSUME Hub \notin dropped, NEW k \in Contributors PROVE Informed(k)'
      BY <1>1 DEF NewsComes
    <2>1. Informed(k) /\ (Hears(k) => Hears(k)')
      BY <1>1, <1>2, StackKnown DEF NewsComes, Hears
    <2> QED BY <1>3, <2>1, StackKnown DEF Informed
  <1> QED BY <1>4, <1>5

LEMMA SolveKeeps ==
  ASSUME Inv, SolveStep
  PROVE  Calls' /\ Guards' /\ NewsComes'
  <1>1. TopIs("solve") /\ data \in [Members -> Neither..Solved]
    BY DEF SolveStep, SetArguments, SetArgumentsFails, TellCacher, Evaluate, NextTrial, Converge,
           GiveUp, AtStage, Inv, DataTypes
  <1>2. Top \in SolveFrame /\ Trials(Top) /\ Top.trial \in 0..MaxTrials /\ Top.error \in BOOLEAN
    BY <1>1, SolveOnTop, SolveFields, SoundTop DEF Inv, EngineTypes
  <1>3. /\ SolveObservers \in SUBSET Observers /\ {} \in SUBSET Observers
        /\ SolveObservers \subseteq Cachers
    BY Wired DEF SolveObservers
  <1>4. \A l \in Members : SameLoop(lazy[l], lazy[l])
    BY StackKnown, Loops
  <1>5. ASSUME NEW stage \in {"trial", "tell", "evaluated"}, NEW todo \in SUBSET SolveObservers,
               NEW trial \in 0..MaxTrials, NEW error \in BOOLEAN,
               Stage(stage, todo, trial, error),
               UNCHANGED <<registry, pending, held, dropped, guard, answer, fanout>>,
               \A l \in Members : SameLoop(lazy'[l], lazy[l])
        PROVE  Calls' /\ Guards' /\ NewsComes'
    <2> DEFINE g == Staged(Top, stage, todo, trial, error)
    <2>1. g \in SolveFrame /\ g.todo = todo /\ todo \subseteq Cachers
      BY <1>2, <1>3, SolveMoves
    <2>2. stack' = ReplaceTop(g)
      BY <1>5 DEF Stage, Staged
    <2> HIDE DEF g
    <2> QED BY <1>1, <1>5, <2>1, <2>2, SolveMovesOn
  <1>6. CASE SetArguments \/ SetArgumentsFails
    <2>1. Top.trial < MaxTrials
      BY <1>2, <1>6, SolveFields DEF SetArguments, SetArgumentsFails, AtStage, Trials
    <2>2. Top.trial + 1 \in 0..MaxTrials
      BY <1>2, <2>1, NodeKinds
    <2>3. /\ UNCHANGED <<registry, pending, held, dropped, guard, answer, fanout>>
          /\ \A l \in Members : SameLoop(lazy'[l], lazy[l])
      BY <1>4, <1>6 DEF SetArguments, SetArgumentsFails, lazyVars
    <2>4. \/ Stage("tell", SolveObservers, Top.trial + 1, Top.error)
          \/ Stage("evaluated", {}, Top.trial + 1, TRUE)
      BY <1>6 DEF SetArguments, SetArgumentsFails
    <2> QED BY <1>2, <1>5, <2>2, <2>3, <2>4
  <1>7. CASE Evaluate
    <2>1. PICK read \in SUBSET SolveObservers, fails \in BOOLEAN :
            /\ lazy' = [m \in Lazies |-> IF m \in {n \in read : MustCalculate(lazy[n])}
                                         THEN Derives(m) ELSE lazy[m]]
            /\ Stage("evaluated", {}, Top.trial, Top.error \/ fails)
      BY <1>7 DEF Evaluate
    <2>2. ASSUME NEW l \in Members PROVE SameLoop(lazy'[l], lazy[l])
      <3>1. lazy'[l] \in {Derives(l), lazy[l]}
        BY <2>1, StackKnown
      <3>2. lazy[l] \in Lazy /\ StartCalculation(lazy[l]) \in Lazy
        BY StackKnown, Methods
      <3>3. SameLoop(Derives(l), lazy[l])
        BY <3>2, Loops DEF Derives, SameLoop
      <3> QED BY <1>4, <3>1, <3>3
    <2>3. (Top.error \/ fails) \in BOOLEAN
      OBVIOUS
    <2>4. UNCHANGED <<registry, pending, held, dropped, guard, answer, fanout>>
      BY <1>7 DEF Evaluate
    <2> QED BY <1>2, <1>5, <2>1, <2>2, <2>3, <2>4
  <1>8. CASE NextTrial
    <2>1. /\ UNCHANGED <<registry, pending, held, dropped, guard, answer, fanout>>
          /\ \A l \in Members : SameLoop(lazy'[l], lazy[l])
          /\ Stage("trial", {}, Top.trial, Top.error)
      BY <1>4, <1>8 DEF NextTrial, lazyVars, multiVars
    <2> QED BY <1>2, <1>5, <2>1
  <1> QED BY <1>6, <1>7, <1>8, TellCacherKeeps, SolveEndKeeps DEF SolveStep
-----------------------------------------------------------------------------
(* Who reads: nobody while a solve runs.                                     *)
LEMMA MayRead ==
  ASSUME Inv, MayCall("read")
  PROVE  Under(stack, 4) /\ ~SolveOn(stack)
  <1>1. Under(stack, 4)
    <2>1. CASE stack = <<>>
      BY <2>1, NoCalls
    <2>2. CASE TopIs("update") /\ <<Top.who, "read">> \in CallbackOps
      <3>1. stack # <<>> /\ Top.op = "update" /\ Top.who \in Talkers
        <4>1. Top.who \in Clients
          BY <2>2, MultiConstants
        <4> QED BY <2>2, <4>1 DEF TopIs, Talkers
      <3>2. Under(Below, 3) /\ Level(Top) = 3
        BY <3>1, StackKnown, Returned, Ranks DEF Over, Level
      <3>3. Under(Below, 4)
        BY <3>2, UnderHigher
      <3> QED BY <3>1, <3>2, <3>3, StackKnown, Returned
    <2> QED BY <2>1, <2>2 DEF MayCall
  <1>2. ~SolveOn(stack)
    <2> SUFFICES ASSUME NEW n \in DOMAIN stack, stack[n].op = "solve" PROVE FALSE
      BY DEF SolveOn
    <2>1. Level(stack[n]) = 4 /\ Level(stack[n]) < 4
      BY <1>1 DEF Level, Under
    <2> QED BY <2>1
  <1> QED BY <1>1, <1>2

(* A read that returns at once.                                              *)
LEMMA ReadKeeps ==
  ASSUME Inv, UNCHANGED <<registry, stack, pending, held, dropped, guard, fanout>>,
         \A l \in Members : SameLoop(lazy'[l], lazy[l]),
         \A k \in Contributors :
            /\ lazy'[k].calculated /\ data'[k] # Solved => lazy[k].calculated /\ data[k] # Solved
            /\ answer'[k] = "stale" /\ answer[k] # "stale" => lazy[k].calculated /\ data[k] # Solved,
         ~SolveOn(stack)
  PROVE  Calls' /\ Guards' /\ NewsComes'
  <1>1. Calls' /\ Guards'
    BY StackKnown, CallsAndGuardsKept DEF Calls
  <1>2. NewsComes'
    <2> SUFFICES ASSUME Hub \notin dropped, NEW k \in Contributors PROVE Informed(k)'
      BY DEF NewsComes
    <2>1. Informed(k) /\ (Hears(k) => Hears(k)')
      BY StackKnown DEF NewsComes, Hears
    <2> QED BY <2>1 DEF Informed
  <1> QED BY <1>1, <1>2

LEMMA StartSolveKeeps ==
  ASSUME Inv, NEW m \in Members, StartSolve(m)
  PROVE  Calls' /\ Guards' /\ NewsComes'
  <1> DEFINE f == [op |-> "solve", asked |-> m, for |-> SolvedFor(m), stage |-> "trial",
                   todo |-> {}, trial |-> 0, error |-> FALSE]
  <1>1. /\ stack' = Append(stack, f)
        /\ UNCHANGED <<registry, pending, held, dropped, guard, answer, fanout>>
        /\ MayCall("read")
    BY DEF StartSolve
  <1>2. f \in AnyFrame /\ f.op = "solve" /\ f.todo = {}
    <2>1. SolvedFor(m) \in Contributors
      BY Wired DEF SolvedFor
    <2> QED BY <2>1, Wired DEF AnyFrame, SolveFrame
  <1> HIDE DEF f
  <1>3. Over(stack, f)
    BY <1>1, <1>2, MayRead DEF Over, FrameOk
  <1>4. /\ Rising(stack') /\ SolveOn(stack')
        /\ \A v : Updating(stack, v) => Updating(stack', v)
        /\ \A k : NewsOf(stack, k) => NewsOf(stack', k)
        /\ \A x, l : GuardAt(stack, x, l) => GuardAt(stack', x, l)
    BY <1>1, <1>2, <1>3, StackKnown, Pushed
  <1>5. ASSUME NEW l \in Members PROVE SameLoop(lazy'[l], lazy[l])
    <2>1. lazy'[l] \in {MarkCalculated(lazy[l]), StartCalculation(lazy[l]), lazy[l]}
      BY StackKnown DEF StartSolve
    <2> QED BY <2>1, StackKnown, Loops
  <1>6. Calls' /\ Guards'
    BY <1>1, <1>4, <1>5, StackKnown, CallsAndGuardsKept DEF Calls
  <1>7. NewsComes'
    <2> SUFFICES ASSUME Hub \notin dropped, NEW k \in Contributors PROVE Informed(k)'
      BY <1>1 DEF NewsComes
    <2>1. Informed(k) /\ (Hears(k) => Hears(k)')
      BY <1>1, <1>4, StackKnown DEF NewsComes, Hears
    <2> QED BY <1>1, <1>4, <2>1 DEF Informed
  <1> QED BY <1>6, <1>7

LEMMA ReadsKeep ==
  ASSUME Inv, Reads
  PROVE  Calls' /\ Guards' /\ NewsComes'
  <1>1. PICK m \in Members : \/ ReadCached(m) \/ RunRefused(m) \/ SetupFails(m) \/ StartSolve(m)
                             \/ m \in Cachers /\ (ReadDerived(m) \/ ReadBaseless(m))
    BY DEF Reads
  <1>2. CASE StartSolve(m)
    BY <1>2, StartSolveKeeps
  <1>3. CASE ~StartSolve(m)
    <2>1. /\ UNCHANGED <<registry, stack, pending, held, dropped, guard, fanout>>
          /\ MayCall("read")
      BY <1>1, <1>3 DEF ReadCached, RunRefused, SetupFails, ReadDerived, ReadBaseless, vars, multiVars
    <2>2. ~SolveOn(stack)
      BY <2>1, MayRead
    <2>3. /\ data \in [Members -> Neither..Solved] /\ answer \in [Members -> Answers]
          /\ lazy \in [Members -> Lazy] /\ Lazies = Members
      BY StackKnown DEF Inv, DataTypes
    <2>4. ASSUME NEW l \in Members
          PROVE  /\ SameLoop(lazy'[l], lazy[l])
                 /\ l \in Contributors =>
                      /\ lazy'[l].calculated /\ data'[l] # Solved
                           => lazy[l].calculated /\ data[l] # Solved
                      /\ answer'[l] = "stale" /\ answer[l] # "stale"
                           => lazy[l].calculated /\ data[l] # Solved
      <3> DEFINE y == InvalidateSilently(MarkCalculated(lazy[l]))
      <3>1. lazy[l] \in Lazy /\ StartCalculation(lazy[l]) \in Lazy /\ MarkCalculated(lazy[l]) \in Lazy
            /\ Guarded(l)
        BY StackKnown, Methods DEF Guards
      <3>2. SameLoop(lazy[l], lazy[l])
        BY <3>1, Loops
      <3>3. SameLoop(FinishErr(lazy[l]), lazy[l]) /\ ~FinishErr(lazy[l]).calculated
        BY <3>1, Loops
      <3>4. SameLoop(y, lazy[l]) /\ ~y.calculated /\ y \in Lazy
        BY <3>1, Loops DEF SameLoop
      <3>5. SameLoop(FinishErr(y), lazy[l]) /\ ~FinishErr(y).calculated
        <4> HIDE DEF y
        <4> QED BY <3>4, Loops DEF SameLoop
      <3>6. SameLoop(Derives(l), lazy[l]) /\ SameLoop(FinishErr(StartCalculation(lazy[l])), lazy[l])
        BY <3>1, Loops DEF Derives, SameLoop
      <3>7. CASE ReadCached(m)
        <4>1. lazy' = lazy /\ data' = data /\ ~MustCalculate(lazy[m])
              /\ answer' = [answer EXCEPT ![m] = Held(data[m] = Solved)]
          BY <3>7 DEF ReadCached, multiVars
        <4>2. answer'[l] = "stale" /\ answer[l] # "stale" => l = m /\ data[m] # Solved
          BY <2>3, <4>1 DEF Held
        <4>3. l = m => lazy[l].calculated
          BY <3>1, <4>1 DEF MustCalculate, Guarded
        <4> QED BY <3>2, <4>1, <4>2, <4>3
      <3>8. CASE RunRefused(m)
        <4>1. lazy'[l] \in {FinishErr(lazy[l]), lazy[l]} /\ data' = data
              /\ answer' = [answer EXCEPT ![m] = "none"]
          BY <2>3, <3>8 DEF RunRefused, Failed, multiVars
        <4> QED BY <2>3, <3>2, <3>3, <4>1
      <3>9. CASE SetupFails(m)
        <4>1. PICK entered \in SUBSET Contributors \ {{}} :
                /\ lazy' = Failed([k \in Lazies |-> IF k \in entered
                                                      THEN InvalidateSilently(MarkCalculated(lazy[k]))
                                                      ELSE lazy[k]], m)
                /\ data' = [k \in Members |-> IF k \in entered THEN Neither ELSE data[k]]
          BY <3>9 DEF SetupFails
        <4>2. answer' = [answer EXCEPT ![m] = "none"]
          BY <3>9 DEF SetupFails
        <4>3. CASE l \in entered
          <5>1. lazy'[l] \in {FinishErr(y), y}
            BY <2>3, <4>1, <4>3 DEF Failed
          <5> QED BY <2>3, <3>4, <3>5, <4>2, <5>1
        <4>4. CASE l \notin entered
          <5>1. lazy'[l] \in {FinishErr(lazy[l]), lazy[l]} /\ data'[l] = data[l]
            BY <2>3, <4>1, <4>4 DEF Failed
          <5> QED BY <2>3, <3>2, <3>3, <4>2, <5>1
        <4> QED BY <4>3, <4>4
      <3>10. CASE m \in Cachers /\ ReadDerived(m)
        <4>1. l \in Contributors => l # m
          BY <3>10, Wired
        <4>2. /\ lazy'[l] \in {Derives(l), lazy[l]}
              /\ l # m => lazy'[l] = lazy[l] /\ data'[l] = data[l] /\ answer'[l] = answer[l]
          BY <2>3, <3>10 DEF ReadDerived
        <4> QED BY <3>2, <3>6, <4>1, <4>2
      <3>11. CASE m \in Cachers /\ ReadBaseless(m)
        <4>1. l \in Contributors => l # m
          BY <3>11, Wired
        <4>2. /\ lazy'[l] \in {FinishErr(StartCalculation(lazy[l])), lazy[l]}
              /\ l # m => lazy'[l] = lazy[l] /\ answer'[l] = answer[l]
              /\ data'[l] = data[l]
          BY <2>3, <3>11 DEF ReadBaseless, multiVars
        <4> QED BY <3>2, <3>6, <4>1, <4>2
      <3> QED BY <1>1, <1>3, <3>7, <3>8, <3>9, <3>10, <3>11
    <2>5. \A k \in Contributors :
            /\ lazy'[k].calculated /\ data'[k] # Solved => lazy[k].calculated /\ data[k] # Solved
            /\ answer'[k] = "stale" /\ answer[k] # "stale" => lazy[k].calculated /\ data[k] # Solved
      BY <2>4, Wired
    <2> QED BY <2>1, <2>2, <2>4, <2>5, ReadKeeps
  <1> QED BY <1>2, <1>3
-----------------------------------------------------------------------------
(* Nothing runs: no guard is up.                                             *)
LEMMA AtRest ==
  ASSUME Inv, stack = <<>>
  PROVE  \A l \in Members : guard[l] = 0 /\ ~lazy[l].updating
  BY StackKnown, NoCalls DEF Guards, Guarded

(* The round of a quote reaches the hub, hence every member.                 *)
LEMMA SetQuoteKeeps ==
  ASSUME Inv, ReadersApart, NEW q \in Quotes, SetQuote(q)
  PROVE  Calls' /\ Guards' /\ NewsComes'
  <1>1. stack = <<>>
    <2>1. SUFFICES ASSUME <<Top.who, "set">> \in CallbackOps PROVE FALSE
      BY DEF SetQuote, MayCall
    <2>2. Top.who \in Clients
      BY <2>1, MultiConstants
    <2> QED BY <2>1, <2>2 DEF ReadersApart
  <1>2. /\ StartRound(registry, q, <<>>)
        /\ UNCHANGED <<draining, pending, held, dropped, lazy, guard, fanout>>
    BY <1>1 DEF SetQuote, Notify
  <1>3. q \in Subjects /\ Hub \in Upstream(q)
    <2>1. \E m \in Members : q \in CurveInputs[m]
      BY MultiConstants
    <2> QED BY <2>1, Wired DEF Upstream
  <1>4. <<>> \in Seq(AnyFrame) /\ Rising(<<>>)
    BY EmptySeq, NoCalls
  <1>5. \A v \in Upstream(q) \cup Listeners(q) : Under(<<>>, Rank(v))
    BY NoCalls
  <1>6. /\ Rising(stack') /\ Registered' /\ pending' = {} /\ held' = {}
        /\ Hub \notin dropped => \A k \in Contributors : NewsOf(stack', k)
    BY <1>2, <1>3, <1>4, <1>5, StackKnown, RoundStarts
  <1>7. fanout' = {}
    BY <1>1, <1>2, StackKnown, NoCalls DEF Calls
  <1>8. Calls'
    BY <1>6, <1>7 DEF Calls
  <1>9. Guards'
    <2> SUFFICES ASSUME NEW l \in Members PROVE Guarded(l)'
      BY DEF Guards
    <2>1. Guarded(l) /\ guard[l] = 0
      BY <1>1, AtRest, StackKnown DEF Guards
    <2> QED BY <1>2, <2>1 DEF Guarded
  <1>10. NewsComes'
    BY <1>2, <1>6 DEF NewsComes, Informed, Hears
  <1> QED BY <1>8, <1>9, <1>10

LEMMA DropKeeps ==
  ASSUME Inv, DropMultiCurve
  PROVE  Calls' /\ Guards' /\ NewsComes'
  <1>1. /\ Hub \in dropped' /\ stack' = <<>> /\ stack = <<>>
        /\ UNCHANGED <<registry, pending, held, lazy, guard, answer, data, fanout>>
    BY DEF DropMultiCurve, lazyVars, multiVars
  <1>2. Calls'
    BY <1>1, StackKnown, NoCalls DEF Calls, Registered
  <1>3. Guards'
    BY <1>1, StackKnown, Loops, GuardsKept
  <1>4. NewsComes'
    BY <1>1 DEF NewsComes
  <1> QED BY <1>2, <1>3, <1>4

LEMMA InvKept ==
  ASSUME Inv, ReadersApart, [MultiNext]_allVars
  PROVE  Inv'
  <1>1. EngineTypes' /\ DataTypes'
    BY TypesKept DEF Inv
  <1>2. CASE UNCHANGED allVars
    <2>1. UNCHANGED <<registry, stack, pending, held, dropped, lazy, guard, answer, data, fanout>>
      BY <1>2 DEF allVars, vars, lazyVars, multiVars
    <2>2. Calls'
      BY <2>1, StackKnown DEF Calls, Registered
    <2>3. Guards'
      BY <2>1, StackKnown, Loops, GuardsKept
    <2>4. NewsComes'
      BY <2>1, StackKnown, NewsKept DEF Hears
    <2> QED BY <1>1, <2>2, <2>3, <2>4 DEF Inv
  <1>3. CASE LibraryStep
    BY <1>1, <1>3, EngineKeeps, LazyHearsKeeps, ReturnsKeep DEF LibraryStep, Inv
  <1>4. CASE FanOut \/ FanOutToMember \/ FanOutReturns
    BY <1>1, <1>4, FanOutKeeps, ReturnsKeep DEF Inv
  <1>5. CASE SolveStep
    BY <1>1, <1>5, SolveKeeps DEF Inv
  <1>6. CASE Reads
    BY <1>1, <1>6, ReadsKeep DEF Inv
  <1>7. CASE DropMultiCurve
    BY <1>1, <1>7, DropKeeps DEF Inv
  <1>8. CASE \E q \in Quotes : SetQuote(q)
    BY <1>1, <1>8, SetQuoteKeeps DEF Inv
  <1> QED BY <1>2, <1>3, <1>4, <1>5, <1>6, <1>7, <1>8, Steps

LEMMA InvAtStart ==
  ASSUME MultiInit
  PROVE  Inv
  <1>1. /\ stack = <<>> /\ pending = {} /\ held = {} /\ dropped = {} /\ fanout = {}
        /\ registry = [s \in Subjects |->
             {[observer |-> v, defer |-> v \notin Discarding] : v \in Upstream(s) \cup Listeners(s)}]
        /\ lazy = [l \in Lazies |-> NewLazy(TRUE)] /\ guard = [l \in Lazies |-> 0]
        /\ answer = [l \in Lazies |-> "none"]
    BY DEF MultiInit, QuietWith, LazyInit, Listeners
  <1>2. Registered
    <2> SUFFICES ASSUME NEW s \in Subjects
                 PROVE  /\ \A e \in registry[s] : e.observer \in Upstream(s) \cup Listeners(s)
                        /\ \A v \in Upstream(s) \cup Listeners(s) : \E e \in registry[s] : e.observer = v
      BY <1>1 DEF Registered
    <2> DEFINE V == Upstream(s) \cup Listeners(s)
               E(v) == [observer |-> v, defer |-> v \notin Discarding]
    <2>1. registry[s] = {E(v) : v \in V}
      BY <1>1
    <2>2. \A v \in V : E(v).observer = v
      OBVIOUS
    <2> HIDE DEF E, V
    <2>3. (\A e \in registry[s] : e.observer \in V) /\ (\A v \in V : E(v) \in registry[s])
      BY <2>1, <2>2
    <2> QED BY <2>2, <2>3 DEF V
  <1>3. Calls
    BY <1>1, <1>2, NoCalls DEF Calls
  <1>4. Guards
    BY <1>1, Wired DEF Guards, Guarded, NewLazy
  <1>5. NewsComes
    BY <1>1, Wired DEF NewsComes, Informed, NewLazy
  <1> QED BY <1>3, <1>4, <1>5, InitialTypes DEF Inv

(* A solve notifies through updaters nobody has borrowed: the cachers it is  *)
(* about to tell (MultiCurveBootstrap's notify loop) rank above every call   *)
(* that is running, so the borrow_mut there never panics.                    *)
THEOREM UpdatersAreFree ==
  ASSUME ReadersApart
  PROVE  MultiSpec => []TellsFreeUpdaters
  <1>1. MultiInit => Inv
    BY InvAtStart
  <1>2. Inv /\ [MultiNext]_allVars => Inv'
    BY InvKept
  <1>3. Inv => TellsFreeUpdaters
    <2> SUFFICES ASSUME Inv, AtStage("tell"), NEW n \in Top.todo PROVE ~Busy(n)
      BY DEF TellsFreeUpdaters
    <2>1. n \in Cachers /\ Under(stack, 5)
      BY SolveOnTop DEF AtStage
    <2>2. ~Updating(stack, n)
      BY <2>1, Ranks, NotUpdating
    <2> QED BY <2>2, StackKnown DEF Busy, OnStack, Updating
  <1> QED BY <1>1, <1>2, <1>3, PTL DEF MultiSpec

(* A contributor that says it is calculated holds the joint solution for the *)
(* present market: MultiCurveBootstrap::run unmarks every contributor of a   *)
(* solve that fails, and MultiCurve::update reaches every member's updater.  *)
THEOREM ContributorsCorrect ==
  ASSUME ReadersApart
  PROVE  MultiSpec => []ContributorsAreSolved
  <1>1. MultiInit => Inv
    BY InvAtStart
  <1>2. Inv /\ [MultiNext]_allVars => Inv'
    BY InvKept
  <1>3. Inv => ContributorsAreSolved
    <2> SUFFICES ASSUME Inv, stack = <<>>, Hub \notin dropped, NEW k \in Contributors,
                        lazy[k].calculated, data[k] # Solved
                 PROVE  FALSE
      BY DEF ContributorsAreSolved
    <2>1. Informed(k) /\ fanout = {}
      BY StackKnown, NoCalls DEF NewsComes, Calls
    <2> QED BY <2>1, NoCalls DEF Informed, Hears
  <1> QED BY <1>1, <1>2, <1>3, PTL DEF MultiSpec

(* Whoever holds an answer of a contributor is told before the call that     *)
(* made it stale returns: the hub, beside each member, hears of every input  *)
(* (add_curve).                                                              *)
THEOREM ReadersToldCorrect ==
  ASSUME ReadersApart
  PROVE  MultiSpec => []ReadersAreTold
  <1>1. MultiInit => Inv
    BY InvAtStart
  <1>2. Inv /\ [MultiNext]_allVars => Inv'
    BY InvKept
  <1>3. Inv => ReadersAreTold
    <2> SUFFICES ASSUME Inv, stack = <<>>, Hub \notin dropped, NEW k \in Contributors,
                        answer[k] = "stale"
                 PROVE  FALSE
      BY DEF ReadersAreTold
    <2>1. Informed(k) /\ fanout = {}
      BY StackKnown, NoCalls DEF NewsComes, Calls
    <2> QED BY <2>1, NoCalls DEF Informed, Hears
  <1> QED BY <1>1, <1>2, <1>3, PTL DEF MultiSpec
=============================================================================
