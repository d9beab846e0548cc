-------------------------- MODULE PricingGraphProofs --------------------------
(***************************************************************************)
(* Proofs about PricingGraph, for any market: any number of quotes,        *)
(* curves, handles, engines, instruments and clients, and any nesting of   *)
(* their notifications.                                                    *)
(*                                                                         *)
(* First the subscriptions, that follow every relink and swap.  Then the   *)
(* caches: CacheInv says that whatever is out of date will hear of it, and *)
(* the lemmas on the way to it say what a step of each kind leaves alone   *)
(* (Passes, Keeps), tells (TellsOn, Rings), or tells nobody (Hushed).      *)
(***************************************************************************)
EXTENDS PricingGraph, ObservableProofs

-----------------------------------------------------------------------------
(* Subscriptions.  o is registered with s in the registries reg.             *)
Follows(reg, o, s) == \E x \in reg[s] : x.observer = o

\* No observer of the graph is ever dropped, so no entry is ever pruned.
AllAlive == dropped = {} /\ registry \in [Subjects -> SUBSET Entry]

GraphShape ==
    /\ AllAlive
    /\ points \in [Handles -> Curves \cup {NoCurve}]
    /\ engine \in [Instruments -> Engines \cup {NoEngine}]

SubscriptionInv == GraphShape /\ SubscribedToWhatIsRead

(* The objects of the graph are told apart by what they are.                 *)
LEMMA Kinds ==
  /\ \A i \in Instruments, h \in Handles : i # h /\ i \in Observers /\ h \in Observers
  /\ \A e \in Engines : Target[e] \in Subjects
  /\ \A c \in Curves : Own[c] \in Subjects
  BY ConstantsAssumption, LazyGraphConstants, GraphConstants, GraphObjects

(* Nothing is pruned while everybody is alive.                               *)
LEMMA NothingPruned ==
  ASSUME AllAlive, NEW entries \in SUBSET Entry
  PROVE  Pruned(entries) = entries
  BY DEF AllAlive, Pruned, Live, Entry

(* A round leaves the registries as they are.                                *)
LEMMA RoundKeeps ==
  ASSUME AllAlive, NEW reg \in [Subjects -> SUBSET Entry], NEW s, NEW below,
         StartRound(reg, s, below)
  PROVE  registry' = reg
  <1>1. CASE s \in Subjects
    <2>1. Pruned(reg[s]) = reg[s]
      BY <1>1, NothingPruned
    <2> QED BY <2>1 DEF StartRound
  <1>2. CASE s \notin Subjects
    BY <1>2 DEF StartRound
  <1> QED BY <1>1, <1>2

(* A subscription that moves: o leaves the subjects it was registered with,  *)
(* joins others, and nobody else moves.                                      *)
Moved(reg, o, from, to) ==
    /\ reg \in [Subjects -> SUBSET Entry]
    /\ \A s \in Subjects :
         /\ Follows(reg, o, s) <=> s \in to \/ (s \notin from /\ Follows(registry, o, s))
         /\ \A p : p # o => (Follows(reg, p, s) <=> Follows(registry, p, s))

LEMMA Moves ==
  ASSUME AllAlive, NEW o \in Observers, NEW from \in SUBSET Subjects, NEW to \in SUBSET Subjects
  PROVE  Moved(Resubscribed(o, from, to), o, from, to)
  <1> DEFINE reg == Resubscribed(o, from, to)
  <1> DEFINE kept(s) == IF s \in from THEN {x \in registry[s] : x.observer # o} ELSE registry[s]
  <1>1. NewEntry(o) \in Entry /\ NewEntry(o).observer = o
    BY DEF NewEntry, Entry, Busy, OnStack
  <1>2. \A s \in Subjects : registry[s] \in SUBSET Entry
    BY DEF AllAlive
  <1>3. \A s \in Subjects : kept(s) \in SUBSET Entry
    BY <1>2
  <1>4. \A s \in Subjects : Pruned(registry[s]) = registry[s] /\ Pruned(kept(s)) = kept(s)
    BY <1>2, <1>3, NothingPruned
  <1>5. reg = [s \in Subjects |-> IF s \in to THEN kept(s) \cup {NewEntry(o)} ELSE kept(s)]
    BY <1>4 DEF Resubscribed
  <1> HIDE DEF reg
  <1>6. reg \in [Subjects -> SUBSET Entry]
    BY <1>1, <1>3, <1>5
  <1>7. ASSUME NEW s \in Subjects
        PROVE  /\ Follows(reg, o, s) <=> s \in to \/ (s \notin from /\ Follows(registry, o, s))
               /\ \A p : p # o => (Follows(reg, p, s) <=> Follows(registry, p, s))
    BY <1>1, <1>5 DEF Follows
  <1> QED BY <1>6, <1>7 DEF Moved, reg

\* A step that leaves the registries and the wiring alone.
NoSubscriptionMoves == UNCHANGED <<registry, dropped, points, engine>>

LEMMA StayingKeeps ==
  ASSUME SubscriptionInv, NoSubscriptionMoves
  PROVE  SubscriptionInv'
  BY DEF SubscriptionInv, GraphShape, AllAlive, SubscribedToWhatIsRead, NoSubscriptionMoves

(* Steps of the engine, of the lazy objects and of reads move none.          *)
LEMMA LibraryStays ==
  ASSUME SubscriptionInv, LibraryStep
  PROVE  NoSubscriptionMoves
  <1>0. AllAlive /\ registry \in [Subjects -> SUBSET Entry]
    BY DEF SubscriptionInv, GraphShape, AllAlive
  <1>1. UNCHANGED <<points, engine>>
    BY DEF LibraryStep
  <1>2. CASE LazyHears
    <2>1. UNCHANGED dropped
      BY <1>2 DEF LazyHears
    <2>2. registry' = registry
      <3>1. \/ registry' = registry
            \/ \E s, below : StartRound(registry, s, below)
        <4>1. CASE Tells(lazy[Top.who])
          <5>1. StartRound(registry, Own[Top.who], ReplaceTop([Top EXCEPT !.sent = TRUE]))
            BY <1>2, <4>1 DEF LazyHears
          <5> QED BY <5>1
        <4>2. CASE ~Tells(lazy[Top.who])
          BY <1>2, <4>2 DEF LazyHears
        <4> QED BY <4>1, <4>2
      <3> QED BY <1>0, <3>1, RoundKeeps
    <2> QED BY <1>1, <2>1, <2>2 DEF NoSubscriptionMoves
  <1>3. CASE LazyReturns
    BY <1>1, <1>3 DEF LazyReturns, NoSubscriptionMoves
  <1>4. CASE EngineStep
    <2>1. CASE ForwardBroadcast
      <3>1. registry' = registry
        BY <1>0, <2>1, RoundKeeps DEF ForwardBroadcast
      <3> QED BY <1>1, <2>1, <3>1 DEF ForwardBroadcast, NoSubscriptionMoves
    <2>2. CASE ~ForwardBroadcast
      <3>1. UNCHANGED <<registry, dropped>>
        BY <1>4, <2>2 DEF EngineStep, Engine, RoundUpdate, RoundDefer, RoundDiscard, RoundEnd,
           DrainTake, DrainUpdate, DrainSkip, DrainStall, DrainEnd, ForwardDeliver, Return
      <3> QED BY <1>1, <3>1 DEF NoSubscriptionMoves
    <2> QED BY <2>1, <2>2
  <1> QED BY <1>2, <1>3, <1>4 DEF LibraryStep

LEMMA CallsStay ==
  ASSUME SubscriptionInv,
         \/ \E q \in Quotes : SetQuote(q)
         \/ \E c \in Curves : ReadCurve(c)
         \/ \E i \in Instruments :
              \/ ReadInstrument(i) \/ Recalculate(i)
              \/ FreezeInstrument(i) \/ UnfreezeInstrument(i)
  PROVE  NoSubscriptionMoves
  <1>0. AllAlive /\ registry \in [Subjects -> SUBSET Entry]
    BY DEF SubscriptionInv, GraphShape, AllAlive
  <1>1. ASSUME NEW q \in Quotes, SetQuote(q) PROVE NoSubscriptionMoves
    <2>1. registry' = registry
      BY <1>0, <1>1, RoundKeeps DEF SetQuote, Notify
    <2> QED BY <1>1, <2>1 DEF SetQuote, Notify, NoSubscriptionMoves
  <1>2. ASSUME NEW c \in Curves, ReadCurve(c) PROVE NoSubscriptionMoves
    BY <1>2 DEF ReadCurve, vars, NoSubscriptionMoves
  <1>3. ASSUME NEW i \in Instruments, ReadInstrument(i) \/ FreezeInstrument(i)
        PROVE  NoSubscriptionMoves
    BY <1>3 DEF ReadInstrument, FreezeInstrument, vars, NoSubscriptionMoves
  <1>4. ASSUME NEW i \in Instruments, Recalculate(i) PROVE NoSubscriptionMoves
    <2>1. registry' = registry
      BY <1>0, <1>4, RoundKeeps DEF Recalculate
    <2> QED BY <1>4, <2>1 DEF Recalculate, NoSubscriptionMoves
  <1>5. ASSUME NEW i \in Instruments, UnfreezeInstrument(i) PROVE NoSubscriptionMoves
    <2>1. registry' = registry
      BY <1>0, <1>5, RoundKeeps DEF UnfreezeInstrument
    <2> QED BY <1>5, <2>1 DEF UnfreezeInstrument, NoSubscriptionMoves
  <1> QED BY <1>1, <1>2, <1>3, <1>4, <1>5

(* A handle is linked to another curve.                                      *)
LEMMA RelinkMoves ==
  ASSUME SubscriptionInv, NEW h \in Handles, NEW c \in Curves \cup {NoCurve}, Relink(h, c)
  PROVE  SubscriptionInv'
  <1> DEFINE was == points[h]
             reg == Resubscribed(h, CurveSubject(was), CurveSubject(c))
  <1>0. /\ AllAlive /\ registry \in [Subjects -> SUBSET Entry] /\ SubscribedToWhatIsRead
        /\ was \in Curves \cup {NoCurve} /\ h \in Observers /\ NoCurve \notin Curves
        /\ points \in [Handles -> Curves \cup {NoCurve}]
        /\ engine \in [Instruments -> Engines \cup {NoEngine}]
    <2>1. h \in Observers /\ NoCurve \notin Curves
      BY ConstantsAssumption, GraphConstants
    <2> QED BY <2>1 DEF SubscriptionInv, GraphShape, AllAlive
  <1>1. CurveSubject(was) \in SUBSET Subjects /\ CurveSubject(c) \in SUBSET Subjects
    BY <1>0, Kinds DEF CurveSubject
  <1>2. /\ reg \in [Subjects -> SUBSET Entry]
        /\ \A s \in Subjects :
             /\ Follows(reg, h, s) <=>
                  s \in CurveSubject(c) \/ (s \notin CurveSubject(was) /\ Follows(registry, h, s))
             /\ \A p : p # h => (Follows(reg, p, s) <=> Follows(registry, p, s))
    <2>1. Moved(reg, h, CurveSubject(was), CurveSubject(c))
      BY <1>0, <1>1, Moves
    <2> QED BY <2>1 DEF Moved
  <1> HIDE DEF reg
  <1>3. StartRound(reg, Target[h], stack)
    BY DEF Relink, reg
  <1>4. registry' = reg
    BY <1>0, <1>2, <1>3, RoundKeeps
  <1>5. points' = [points EXCEPT ![h] = c] /\ UNCHANGED <<engine, dropped>>
    BY DEF Relink
  <1>6. GraphShape'
    BY <1>0, <1>2, <1>4, <1>5 DEF GraphShape, AllAlive
  <1>7. ASSUME NEW i \in Instruments, NEW e \in Engines
        PROVE  Follows(registry', i, Target[e]) <=> engine[i] = e
    <2>1. Follows(registry, i, Target[e]) <=> engine[i] = e
      BY <1>0 DEF SubscribedToWhatIsRead, Follows
    <2>2. i # h /\ Target[e] \in Subjects
      BY Kinds
    <2> QED BY <1>2, <1>4, <2>1, <2>2
  <1>8. ASSUME NEW g \in Handles, NEW d \in Curves
        PROVE  Follows(registry', g, Own[d]) <=> points'[g] = d
    <2>1. Follows(registry, g, Own[d]) <=> points[g] = d
      BY <1>0 DEF SubscribedToWhatIsRead, Follows
    <2>2. Own[d] \in Subjects
      BY Kinds
    <2>3. CASE g # h
      BY <1>0, <1>2, <1>4, <1>5, <2>1, <2>2, <2>3
    <2>4. CASE g = h
      <3>1. points'[g] = c
        BY <1>0, <1>5, <2>4
      <3>2. /\ Own[d] \in CurveSubject(c) <=> d = c
            /\ Own[d] \in CurveSubject(was) <=> d = was
        BY <1>0, GraphConstants, GraphObjects DEF CurveSubject
      <3> QED BY <1>2, <1>4, <2>1, <2>2, <2>4, <3>1, <3>2
    <2> QED BY <2>3, <2>4
  <1> QED
    BY <1>5, <1>6, <1>7, <1>8 DEF SubscriptionInv, SubscribedToWhatIsRead, Follows

\* Instrument i now has engine e, and moved its subscription.
EngineMoves(i, e) ==
    /\ registry' = Resubscribed(i, EngineSubject(engine[i]), EngineSubject(e))
    /\ engine' = [engine EXCEPT ![i] = e]
    /\ UNCHANGED <<points, dropped>>

LEMMA EngineMovesKeep ==
  ASSUME SubscriptionInv, NEW i \in Instruments, NEW e \in Engines \cup {NoEngine},
         EngineMoves(i, e)
  PROVE  SubscriptionInv'
  <1> DEFINE was == engine[i]
             reg == Resubscribed(i, EngineSubject(was), EngineSubject(e))
  <1>0. /\ AllAlive /\ registry \in [Subjects -> SUBSET Entry] /\ SubscribedToWhatIsRead
        /\ was \in Engines \cup {NoEngine} /\ i \in Observers /\ NoEngine \notin Engines
        /\ points \in [Handles -> Curves \cup {NoCurve}]
        /\ engine \in [Instruments -> Engines \cup {NoEngine}]
    BY ConstantsAssumption, LazyGraphConstants, GraphConstants
       DEF SubscriptionInv, GraphShape, AllAlive
  <1>1. EngineSubject(was) \in SUBSET Subjects /\ EngineSubject(e) \in SUBSET Subjects
    BY <1>0, Kinds DEF EngineSubject
  <1>2. /\ reg \in [Subjects -> SUBSET Entry]
        /\ \A s \in Subjects :
             /\ Follows(reg, i, s) <=>
                  s \in EngineSubject(e) \/ (s \notin EngineSubject(was) /\ Follows(registry, i, s))
             /\ \A p : p # i => (Follows(reg, p, s) <=> Follows(registry, p, s))
    <2>1. Moved(reg, i, EngineSubject(was), EngineSubject(e))
      BY <1>0, <1>1, Moves
    <2> QED BY <2>1 DEF Moved
  <1>3. registry' = reg /\ engine' = [engine EXCEPT ![i] = e] /\ UNCHANGED <<points, dropped>>
    BY DEF EngineMoves
  <1> HIDE DEF reg
  <1>4. GraphShape'
    BY <1>0, <1>2, <1>3 DEF GraphShape, AllAlive
  <1>5. ASSUME NEW h \in Handles, NEW c \in Curves
        PROVE  Follows(registry', h, Own[c]) <=> points[h] = c
    <2>1. Follows(registry, h, Own[c]) <=> points[h] = c
      BY <1>0 DEF SubscribedToWhatIsRead, Follows
    <2>2. i # h /\ Own[c] \in Subjects
      BY Kinds
    <2> QED BY <1>2, <1>3, <2>1, <2>2
  <1>6. ASSUME NEW j \in Instruments, NEW f \in Engines
        PROVE  Follows(registry', j, Target[f]) <=> engine'[j] = f
    <2>1. Follows(registry, j, Target[f]) <=> engine[j] = f
      BY <1>0 DEF SubscribedToWhatIsRead, Follows
    <2>2. Target[f] \in Subjects
      BY Kinds
    <2>3. CASE j # i
      BY <1>0, <1>2, <1>3, <2>1, <2>2, <2>3
    <2>4. CASE j = i
      <3>1. engine'[j] = e
        BY <1>0, <1>3, <2>4
      <3>2. /\ Target[f] \in EngineSubject(e) <=> f = e
            /\ Target[f] \in EngineSubject(was) <=> f = was
        BY <1>0, GraphConstants, GraphObjects DEF EngineSubject
      <3> QED BY <1>2, <1>3, <2>1, <2>2, <2>4, <3>1, <3>2
    <2> QED BY <2>3, <2>4
  <1> QED
    BY <1>3, <1>4, <1>5, <1>6 DEF SubscriptionInv, SubscribedToWhatIsRead, Follows

LEMMA SwapMoves ==
  ASSUME SubscriptionInv, NEW i \in Instruments, NEW e \in Engines \cup {NoEngine},
         SetPricingEngine(i, e) \/ SetPricingEngineSilent(i, e)
  PROVE  SubscriptionInv'
  <1>1. CASE SetPricingEngineSilent(i, e)
    BY <1>1, EngineMovesKeep DEF SetPricingEngineSilent, EngineMoves
  <1>2. CASE SetPricingEngine(i, e)
    <2> DEFINE reg == Resubscribed(i, EngineSubject(engine[i]), EngineSubject(e))
    <2>1. /\ AllAlive /\ i \in Observers /\ engine[i] \in Engines \cup {NoEngine}
      BY ConstantsAssumption, LazyGraphConstants, GraphConstants
         DEF SubscriptionInv, GraphShape
    <2>2. EngineSubject(engine[i]) \in SUBSET Subjects /\ EngineSubject(e) \in SUBSET Subjects
      BY <2>1, Kinds DEF EngineSubject
    <2>3. reg \in [Subjects -> SUBSET Entry]
      BY <2>1, <2>2, Moves DEF Moved
    <2>4. registry' = reg \/ StartRound(reg, Own[i], stack)
      BY <1>2 DEF SetPricingEngine
    <2> HIDE DEF reg
    <2>5. registry' = reg
      BY <2>1, <2>3, <2>4, RoundKeeps
    <2>6. EngineMoves(i, e)
      BY <1>2, <2>5 DEF SetPricingEngine, EngineMoves, reg
    <2> QED BY <2>6, EngineMovesKeep
  <1> QED BY <1>1, <1>2

LEMMA SubscriptionStep == SubscriptionInv /\ [GraphNext]_allVars => SubscriptionInv'
  <1> SUFFICES ASSUME SubscriptionInv, [GraphNext]_allVars PROVE SubscriptionInv'
    OBVIOUS
  <1>1. CASE UNCHANGED allVars
    BY <1>1, StayingKeeps DEF allVars, vars, graphVars, NoSubscriptionMoves
  <1>2. CASE GraphNext
    BY <1>2, StayingKeeps, LibraryStays, CallsStay, RelinkMoves, SwapMoves
       DEF GraphNext, GraphStep
  <1> QED BY <1>1, <1>2

\* An entry that does not defer is of an observer that asked for it.
Honest(entries) == \A x \in entries : x.defer \/ x.observer \in Discarding

(* At the start everybody is registered with whom Wiring says.               *)
LEMMA InitialWiring ==
  ASSUME GraphInit
  PROVE  /\ SubscriptionInv
         /\ \A s \in Subjects : Honest(registry[s])
         /\ \A s \in Subjects : \A o : Follows(registry, o, s) <=> o \in Wiring[s]
  <1> DEFINE entry(v) == [observer |-> v, defer |-> v \notin Discarding]
  <1>1. registry = [s \in Subjects |-> {entry(v) : v \in Wiring[s]}]
    BY DEF GraphInit, Init, QuietWith
  <1>2. \A v : entry(v).observer = v /\ (entry(v).defer \/ entry(v).observer \in Discarding)
    OBVIOUS
  <1>3. registry \in [Subjects -> SUBSET Entry]
    <2>1. ASSUME NEW s \in Subjects, NEW v \in Wiring[s] PROVE entry(v) \in Entry
      <3>1. v \in Observers /\ (v \notin Discarding) \in BOOLEAN
        BY ConstantsAssumption
      <3> QED BY <3>1 DEF Entry
    <2> HIDE DEF entry
    <2> QED BY <1>1, <2>1
  <1> HIDE DEF entry
  <1>4. \A s \in Subjects : \A o : Follows(registry, o, s) <=> o \in Wiring[s]
    BY <1>1, <1>2 DEF Follows
  <1>5. \A s \in Subjects : Honest(registry[s])
    BY <1>1, <1>2 DEF Honest
  <1>6. GraphShape
    BY <1>3, GraphConstants DEF GraphInit, Init, QuietWith, GraphShape, AllAlive
  <1>7. ASSUME NEW i \in Instruments, NEW e \in Engines
        PROVE  Follows(registry, i, Target[e]) <=> engine[i] = e
    <2>1. Target[e] \in Subjects /\ (i \in Wiring[Target[e]] <=> FirstEngine[i] = e)
      BY Kinds, GraphWiring
    <2> QED BY <1>4, <2>1 DEF GraphInit
  <1>8. ASSUME NEW h \in Handles, NEW c \in Curves
        PROVE  Follows(registry, h, Own[c]) <=> points[h] = c
    <2>1. Own[c] \in Subjects /\ (h \in Wiring[Own[c]] <=> FirstCurve[h] = c)
      BY Kinds, GraphWiring
    <2> QED BY <1>4, <2>1 DEF GraphInit
  <1>9. SubscribedToWhatIsRead
    BY <1>7, <1>8 DEF SubscribedToWhatIsRead, Follows
  <1> QED BY <1>4, <1>5, <1>6, <1>9 DEF SubscriptionInv

(* Through any swaps and relinks, also from inside the notifications they    *)
(* send, every instrument is registered with exactly the engine attached to  *)
(* it and every handle with exactly the curve it points at: no subscription  *)
(* is lost, doubled or left behind (instrument.rs swap_engine, handle.rs     *)
(* link_to).                                                                 *)
THEOREM SubscriptionsCorrect == GraphSpec => []SubscribedToWhatIsRead
  <1>1. GraphInit => SubscriptionInv
    BY InitialWiring
  <1>2. SubscriptionInv => SubscribedToWhatIsRead
    BY DEF SubscriptionInv
  <1> QED BY <1>1, <1>2, SubscriptionStep, PTL DEF GraphSpec

-----------------------------------------------------------------------------
(* Caches.  What the frames of a stack s say of an observer l: its update    *)
(* runs, and has told on what it heard.                                      *)
UpdateOf(f, l) == f.op = "update" /\ f.who = l
Unsent(f) == f.op = "update" /\ f.who \notin Clients /\ ~f.sent
SentUpdateOf(f, l) == UpdateOf(f, l) /\ f.sent

Updates(s, l) == \E k \in DOMAIN s : UpdateOf(s[k], l)
SentUpdates(s, l) == \E k \in DOMAIN s : SentUpdateOf(s[k], l)
AllSent(s) == \A k \in DOMAIN s : ~Unsent(s[k])
SentBelowTop(s) == \A k \in DOMAIN s : k # Len(s) => ~Unsent(s[k])

\* A frame that will still tell v, and one that tells clients only.
Carries(f, v) ==
    \/ f.op = "notify" /\ \E x \in f.todo : x.observer = v
    \/ f.op = "drain" /\ v \in f.batch
    \/ Unsent(f) /\ f.who = v
ClientFrame(f) ==
    \/ f.op = "notify" /\ \A x \in f.todo : x.observer \in Clients
    \/ f.op = "update" /\ f.who \in Clients

\* v will be told by a frame that is not above an update of l: what v does
\* then, l can hear.
Waits(s, v, l) ==
    \E m \in DOMAIN s : Carries(s[m], v) /\ \A k \in DOMAIN s : UpdateOf(s[k], l) => m <= k

\* Above the update of an instrument only clients are told.
Quiet(s) ==
    \A k, m \in DOMAIN s : k < m /\ s[k].op = "update" /\ s[k].who \in Instruments
                             => ClientFrame(s[m])

\* Nobody is set aside in a drain, and the entries to be told are as registered.
HonestFrame(f) == (f.op = "drain" => f.stalled = {}) /\ (f.op = "notify" => Honest(f.todo))
AllHonest(s) == \A k \in DOMAIN s : HonestFrame(s[k])

\* Frame g of s runs a round or a drain; and the frame below it is a sent update of l.
Loop(f) == f.op = "notify" \/ f.op = "drain"
LoopAt(s, g) == g \in DOMAIN s /\ Loop(s[g])
SentOnTop(s, l) == s # <<>> /\ SentUpdateOf(s[Len(s)], l)
LoopOfUpdate(s, g, l) == LoopAt(s, g) /\ g - 1 \in DOMAIN s /\ SentUpdateOf(s[g - 1], l)

\* What a call that begins does to each of these.
CallFacts(t, s, f) ==
    /\ \A l : /\ Updates(t, l) <=> Updates(s, l) \/ UpdateOf(f, l)
              /\ SentUpdates(t, l) <=> SentUpdates(s, l) \/ SentUpdateOf(f, l)
              /\ SentOnTop(t, l) <=> SentUpdateOf(f, l)
    /\ \A v, l : Waits(t, v, l) <=> Waits(s, v, l) \/ (Carries(f, v) /\ ~Updates(s, l))
    /\ AllSent(t) <=> AllSent(s) /\ ~Unsent(f)
    /\ SentBelowTop(t) <=> AllSent(s)
    /\ AllHonest(t) <=> AllHonest(s) /\ HonestFrame(f)
    /\ Quiet(t) <=> Quiet(s) /\ ((\E i \in Instruments : Updates(s, i)) => ClientFrame(f))

(* A call f that begins on top of the calls s.                             *)
LEMMA Calls ==
  ASSUME NEW s \in Seq(Frame), NEW f \in Frame
  PROVE  CallFacts(Append(s, f), s, f)
  <1> DEFINE t == Append(s, f)
  <1> DEFINE n == Len(s)
  <1>1. /\ n \in Nat /\ DOMAIN s = 1..n /\ DOMAIN t = 1..n + 1 /\ Len(t) = n + 1
        /\ \A i \in 1..n : t[i] = s[i]
        /\ t[n + 1] = f
    BY PushProperties
  <1>2. t # <<>>
    BY <1>1
  <1> HIDE DEF t, n
  <1>3. DOMAIN t = DOMAIN s \cup {n + 1} /\ n + 1 \notin DOMAIN s
        /\ \A i \in DOMAIN s : t[i] = s[i] /\ i # n + 1 /\ i < n + 1 /\ i \in Nat
    BY <1>1
  <1>4. ASSUME NEW l
        PROVE  /\ Updates(t, l) <=> Updates(s, l) \/ UpdateOf(f, l)
               /\ SentUpdates(t, l) <=> SentUpdates(s, l) \/ SentUpdateOf(f, l)
               /\ SentOnTop(t, l) <=> SentUpdateOf(f, l)
    <2>1. Updates(t, l) <=> Updates(s, l) \/ UpdateOf(f, l)
      BY <1>1, <1>3, Zenon DEF Updates
    <2>2. SentUpdates(t, l) <=> SentUpdates(s, l) \/ SentUpdateOf(f, l)
      BY <1>1, <1>3, Zenon DEF SentUpdates
    <2>3. SentOnTop(t, l) <=> SentUpdateOf(f, l)
      BY <1>1, <1>2 DEF SentOnTop
    <2> QED BY <2>1, <2>2, <2>3
  <1>5. ASSUME NEW v, NEW l
        PROVE  Waits(t, v, l) <=> Waits(s, v, l) \/ (Carries(f, v) /\ ~Updates(s, l))
    <2>1. ASSUME Waits(t, v, l) PROVE Waits(s, v, l) \/ (Carries(f, v) /\ ~Updates(s, l))
      <3>1. PICK m \in DOMAIN t : Carries(t[m], v) /\ \A k \in DOMAIN t : UpdateOf(t[k], l) => m <= k
        BY <2>1 DEF Waits
      <3>2. \A k \in DOMAIN s : UpdateOf(s[k], l) => m <= k
        BY <1>3, <3>1
      <3>3. CASE m \in DOMAIN s
        BY <1>3, <3>1, <3>2, <3>3 DEF Waits
      <3>4. CASE m = n + 1
        <4>1. \A k \in DOMAIN s : ~UpdateOf(s[k], l)
          BY <1>1, <1>3, <3>2, <3>4
        <4> QED BY <1>1, <3>1, <3>4, <4>1 DEF Updates
      <3> QED BY <1>3, <3>3, <3>4
    <2>2. ASSUME Waits(s, v, l) PROVE Waits(t, v, l)
      <3>1. PICK m \in DOMAIN s : Carries(s[m], v) /\ \A k \in DOMAIN s : UpdateOf(s[k], l) => m <= k
        BY <2>2 DEF Waits
      <3>2. \A k \in DOMAIN t : UpdateOf(t[k], l) => m <= k
        BY <1>1, <1>3, <3>1
      <3> QED BY <1>3, <3>1, <3>2 DEF Waits
    <2>3. ASSUME Carries(f, v), ~Updates(s, l) PROVE Waits(t, v, l)
      <3>1. n + 1 \in DOMAIN t /\ Carries(t[n + 1], v)
        BY <1>1, <1>3, <2>3
      <3>2. \A k \in DOMAIN t : UpdateOf(t[k], l) => n + 1 <= k
        BY <1>1, <1>3, <2>3 DEF Updates
      <3> QED BY <3>1, <3>2 DEF Waits
    <2> QED BY <2>1, <2>2, <2>3
  <1>6. AllSent(t) <=> AllSent(s) /\ ~Unsent(f)
    BY <1>1, <1>3, Zenon DEF AllSent
  <1>7. SentBelowTop(t) <=> AllSent(s)
    BY <1>1, <1>3, Zenon DEF SentBelowTop, AllSent
  <1>8. AllHonest(t) <=> AllHonest(s) /\ HonestFrame(f)
    BY <1>1, <1>3, Zenon DEF AllHonest
  <1>9. Quiet(t) <=> Quiet(s) /\ ((\E i \in Instruments : Updates(s, i)) => ClientFrame(f))
    <2>1. ASSUME Quiet(t) PROVE Quiet(s)
      BY <1>3, <2>1 DEF Quiet
    <2>2. ASSUME Quiet(t), NEW i \in Instruments, Updates(s, i) PROVE ClientFrame(f)
      BY <1>1, <1>3, <2>2 DEF Quiet, Updates, UpdateOf
    <2>3. ASSUME Quiet(s), (\E i \in Instruments : Updates(s, i)) => ClientFrame(f),
                 NEW k \in DOMAIN t, NEW m \in DOMAIN t, k < m,
                 t[k].op = "update", t[k].who \in Instruments
          PROVE  ClientFrame(t[m])
      <3>1. k \in DOMAIN s
        BY <1>1, <1>3, <2>3
      <3>2. CASE m \in DOMAIN s
        BY <1>3, <2>3, <3>1, <3>2 DEF Quiet
      <3>3. CASE m = n + 1
        BY <1>1, <1>3, <2>3, <3>1, <3>3 DEF Updates, UpdateOf
      <3> QED BY <1>3, <3>2, <3>3
    <2> QED BY <2>1, <2>2, <2>3 DEF Quiet
  <1> QED BY <1>4, <1>5, <1>6, <1>7, <1>8, <1>9 DEF CallFacts, t

\* The same of the loops of s.
LoopFacts(t, s, f) ==
    /\ \A g : LoopAt(t, g) <=> LoopAt(s, g) \/ (g = Len(s) + 1 /\ Loop(f))
    /\ \A g, l : LoopOfUpdate(t, g, l)
                   <=> LoopOfUpdate(s, g, l) \/ (g = Len(s) + 1 /\ Loop(f) /\ SentOnTop(s, l))

(* Its effect on the loops: those of s stay, and f may be one.             *)
LEMMA Loops ==
  ASSUME NEW s \in Seq(Frame), NEW f \in Frame
  PROVE  LoopFacts(Append(s, f), s, f)
  <1> DEFINE t == Append(s, f)
  <1> DEFINE n == Len(s)
  <1>1. /\ n \in Nat /\ DOMAIN s = 1..n /\ DOMAIN t = 1..n + 1
        /\ \A i \in 1..n : t[i] = s[i]
        /\ t[n + 1] = f
        /\ s # <<>> <=> n # 0
    BY PushProperties, EmptySeq
  <1> HIDE DEF t
  <1>2. ASSUME NEW g
        PROVE  LoopAt(t, g) <=> LoopAt(s, g) \/ (g = n + 1 /\ Loop(f))
    BY <1>1 DEF LoopAt
  <1>3. ASSUME NEW g, NEW l
        PROVE  LoopOfUpdate(t, g, l)
                   <=> LoopOfUpdate(s, g, l) \/ (g = n + 1 /\ Loop(f) /\ SentOnTop(s, l))
    <2>1. CASE g \in 1..n
      <3>1. LoopAt(t, g) <=> LoopAt(s, g)
        BY <1>1, <2>1 DEF LoopAt
      <3>2. g # n + 1 /\ (g - 1 \in DOMAIN t <=> g - 1 \in DOMAIN s)
        BY <1>1, <2>1
      <3>3. g - 1 \in DOMAIN s => t[g - 1] = s[g - 1]
        BY <1>1, <2>1
      <3> QED BY <3>1, <3>2, <3>3 DEF LoopOfUpdate
    <2>2. CASE g = n + 1
      <3>1. g \notin DOMAIN s /\ g \in DOMAIN t /\ t[g] = f /\ g - 1 = n
        BY <1>1, <2>2
      <3>2. n \in DOMAIN t /\ SentUpdateOf(t[n], l) <=> SentOnTop(s, l)
        BY <1>1 DEF SentOnTop
      <3> QED BY <2>2, <3>1, <3>2 DEF LoopOfUpdate, LoopAt
    <2>3. CASE g \notin 1..n + 1
      BY <1>1, <2>3 DEF LoopOfUpdate, LoopAt
    <2> QED BY <1>1, <2>1, <2>2, <2>3
  <1> HIDE DEF n
  <1> QED BY <1>2, <1>3, Zenon DEF LoopFacts, t, n

(* A stack is its front with its top on it.                                  *)
LEMMA TopAndBelow ==
  ASSUME stack \in Seq(Frame), stack # <<>>
  PROVE  /\ stack = Append(Below, Top) /\ Below \in Seq(Frame) /\ Top \in Frame
         /\ Len(stack) = Len(Below) + 1 /\ Len(Below) \in Nat
         /\ CallFacts(stack, Below, Top) /\ LoopFacts(stack, Below, Top)
  <1>1. /\ Below \in Seq(Frame) /\ Len(Below) = Len(stack) - 1
        /\ \A i \in 1..Len(stack) - 1 : Below[i] = stack[i]
        /\ Len(stack) \in Nat \ {0}
        /\ Top \in Frame
    BY FrontProperties DEF Below, Top
  <1>2. /\ Append(Below, Top) \in Seq(Frame)
        /\ Len(Append(Below, Top)) = Len(Below) + 1
        /\ \A i \in 1..Len(Below) : Append(Below, Top)[i] = Below[i]
        /\ Append(Below, Top)[Len(Below) + 1] = Top
    BY <1>1, PushProperties
  <1>3. Len(Append(Below, Top)) = Len(stack)
    BY <1>1, <1>2
  <1>4. ASSUME NEW i \in 1..Len(stack) PROVE stack[i] = Append(Below, Top)[i]
    <2>1. CASE i = Len(stack)
      BY <1>1, <1>2, <2>1 DEF Top
    <2>2. CASE i # Len(stack)
      BY <1>1, <1>2, <2>2
    <2> QED BY <2>1, <2>2
  <1>5. stack = Append(Below, Top)
    BY <1>2, <1>3, <1>4, SeqEqual
  <1> QED BY <1>1, <1>5, Calls, Loops

(* No call, nothing runs.                                                    *)
LEMMA NoCalls ==
  /\ <<>> \in Seq(Frame) /\ Len(<<>>) = 0
  /\ AllSent(<<>>) /\ SentBelowTop(<<>>) /\ AllHonest(<<>>) /\ Quiet(<<>>)
  /\ \A l : ~Updates(<<>>, l) /\ ~SentUpdates(<<>>, l) /\ ~SentOnTop(<<>>, l)
  /\ \A v, l : ~Waits(<<>>, v, l)
  /\ \A g : ~LoopAt(<<>>, g)
  <1>1. <<>> \in Seq(Frame)
    BY EmptySeq
  <1> QED BY <1>1 DEF AllSent, SentBelowTop, AllHonest, Quiet, Updates, SentUpdates, SentOnTop, Waits, LoopAt

-----------------------------------------------------------------------------
(* The engine under the graph: Observable's own invariants, with nobody held *)
(* from outside.                                                             *)
EngineInv == TypeOK /\ OutermostDrains /\ NoSecondBorrow /\ held = {}

(* A round that a lazy object or a client starts, on top of the call that    *)
(* starts it.                                                                *)
LEMMA RoundSafe ==
  ASSUME EngineInv, NEW s \in Subjects, NEW reg \in [Subjects -> SUBSET Entry],
         NEW below, below = stack \/ (stack # <<>> /\ Top.op = "update" /\ below = ReplaceTop(Sent(Top))),
         StartRound(reg, s, below), UNCHANGED <<draining, pending, held, dropped>>,
         notifies' \in 0..MaxNotify, edits' \in 0..MaxEdits
  PROVE  EngineInv'
  <1>1. /\ below \in Seq(Frame) /\ RoundsOf(below) = RoundsOf(stack)
        /\ Draining(below) <=> Draining(stack)
        /\ DrainsFirst(below) /\ OneBorrow(below, held)
    <2>1. /\ stack \in Seq(Frame) /\ DrainsFirst(stack) /\ OneBorrow(stack, held)
      BY Restated DEF EngineInv, TypeOK
    <2>2. CASE below = stack
      BY <2>1, <2>2
    <2>3. CASE stack # <<>> /\ Top.op = "update" /\ below = ReplaceTop(Sent(Top))
      <3>1. Top \in Frame
        BY <2>3, TopProperties DEF EngineInv
      <3>2. Sent(Top) \in Frame /\ Sent(Top).op = "update" /\ Sent(Top).who = Top.who
        BY <2>3, <3>1, FrameFields
      <3> QED BY <2>1, <2>3, <3>2, Replace DEF Top, ReplaceTop, Below
    <2> QED BY <2>2, <2>3
  <1>2. OutermostDrains'
    BY <1>1, RoundDrains DEF EngineInv
  <1>3. TypeOK'
    BY <1>1, RoundTypes DEF EngineInv, TypeOK
  <1>4. NoSecondBorrow'
    <2> DEFINE g == NotifyFrame(Pruned(reg[s]))
    <2>1. g \in Frame /\ g.op = "notify" /\ stack' = Append(below, g)
      BY FrameTypes DEF Pruned, NotifyFrame, StartRound
    <2> HIDE DEF g
    <2>2. OneBorrow(stack', held)
      BY <1>1, <2>1, Push
    <2> QED BY <2>2, RestatedNext
  <1> QED BY <1>2, <1>3, <1>4 DEF EngineInv

(* A step of the engine, or one that leaves it alone but for the edit it     *)
(* counts.                                                                   *)
LEMMA EngineSafe ==
  ASSUME EngineInv, [Next]_vars, held' = held
  PROVE  EngineInv'
  BY DrainsStep, TypeStep, BorrowStep DEF EngineInv

(* A client edits a registry and nothing else.                             *)
LEMMA EditSafe ==
  ASSUME EngineInv, registry' \in [Subjects -> SUBSET Entry], edits' \in 0..MaxEdits,
         UNCHANGED <<stack, depth, draining, pending, held, dropped, owed, notifies>>
  PROVE  EngineInv'
  <1>1. TypeOK'
    BY DEF EngineInv, TypeOK
  <1>2. OutermostDrains' /\ NoSecondBorrow'
    BY Restated, RestatedNext DEF EngineInv
  <1> QED BY <1>1, <1>2 DEF EngineInv

(* A lazy object hears, or returns.                                          *)
LEMMA LazySafe ==
  ASSUME EngineInv, LazyHears \/ LazyReturns
  PROVE  EngineInv'
  <1>0. /\ stack \in Seq(Frame) /\ DrainsFirst(stack) /\ OneBorrow(stack, held)
        /\ depth = Cardinality(RoundsOf(stack))
        /\ draining <=> Draining(stack)
    BY Restated DEF EngineInv, TypeOK
  <1>1. stack # <<>> /\ Top.op = "update" /\ Top \in Frame
    BY TopProperties DEF LazyHears, LazyReturns, TopIs, EngineInv
  <1>2. CASE LazyReturns
    <2>1. /\ RoundsOf(Below) = RoundsOf(stack) \ {Len(stack)} /\ DrainsFirst(Below)
          /\ Draining(stack) <=> Draining(Below)
          /\ OneBorrow(Below, held) /\ Below \in Seq(Frame)
      <3>1. /\ RoundsOf(Below) = RoundsOf(stack) \ {Len(stack)} /\ DrainsFirst(Below)
            /\ Draining(stack) <=> Draining(Below) \/ stack[Len(stack)].op = "drain"
            /\ OneBorrow(Below, held) /\ Below \in Seq(Frame)
        BY <1>0, <1>1, Pop DEF Below
      <3> QED BY <1>1, <3>1 DEF Top
    <2>2. RoundsOf(Below) = RoundsOf(stack)
      BY <1>0, <1>1, <2>1, FiniteRounds DEF Top
    <2>3. stack' = Below /\ UNCHANGED <<depth, draining, held>>
      BY <1>2 DEF LazyReturns
    <2>4. OutermostDrains' /\ NoSecondBorrow'
      <3>1. /\ depth' = Cardinality(RoundsOf(stack')) /\ DrainsFirst(stack')
            /\ OneBorrow(stack', held')
        BY <1>0, <2>1, <2>2, <2>3
      <3>2. draining' <=> Draining(stack')
        BY <1>0, <2>1, <2>3
      <3> QED BY <3>1, <3>2, RestatedNext
    <2>5. TypeOK'
      BY <1>2, <2>1 DEF LazyReturns, TypeOK, EngineInv
    <2> QED BY <2>3, <2>4, <2>5 DEF EngineInv
  <1>3. CASE LazyHears
    <2>1. Sent(Top) \in Frame /\ Sent(Top).op = "update" /\ Sent(Top).who = Top.who
      BY <1>1, FrameFields
    <2>2. CASE Tells(lazy[Top.who])
      <3>1. /\ StartRound(registry, Own[Top.who], ReplaceTop(Sent(Top)))
            /\ UNCHANGED <<draining, pending, held, dropped, notifies, edits>>
            /\ Top.who \in Lazies
        BY <1>3, <2>2 DEF LazyHears, Sent
      <3>2. Own[Top.who] \in Subjects
        BY <3>1, LazyGraphConstants
      <3>3. notifies' \in 0..MaxNotify /\ edits' \in 0..MaxEdits /\ registry \in [Subjects -> SUBSET Entry]
        BY <3>1 DEF EngineInv, TypeOK
      <3> QED BY <1>1, <3>1, <3>2, <3>3, RoundSafe
    <2>3. CASE ~Tells(lazy[Top.who])
      <3>1. /\ stack' = ReplaceTop(Sent(Top))
            /\ UNCHANGED <<registry, depth, owed, draining, pending, held, dropped, notifies, edits>>
        BY <1>3, <2>3 DEF LazyHears, Sent
      <3>2. /\ RoundsOf(stack') = RoundsOf(stack) /\ DrainsFirst(stack') /\ OneBorrow(stack', held)
            /\ Draining(stack') <=> Draining(stack)
            /\ stack' \in Seq(Frame)
        BY <1>0, <1>1, <2>1, <3>1, Replace DEF Top, ReplaceTop, Below
      <3>3. OutermostDrains' /\ NoSecondBorrow'
        <4>1. /\ depth' = Cardinality(RoundsOf(stack')) /\ DrainsFirst(stack')
              /\ OneBorrow(stack', held')
          BY <1>0, <3>1, <3>2
        <4>2. draining' <=> Draining(stack')
          BY <1>0, <3>1, <3>2
        <4> QED BY <4>1, <4>2, RestatedNext
      <3>4. TypeOK'
        BY <3>1, <3>2 DEF TypeOK, EngineInv
      <3> QED BY <3>1, <3>3, <3>4 DEF EngineInv
    <2> QED BY <2>2, <2>3
  <1> QED BY <1>2, <1>3

-----------------------------------------------------------------------------
(* What the frames of the engine say.                                        *)
LEMMA UpdateFrames ==
  ASSUME NEW u \in Observers
  PROVE  /\ UpdateFrame(u) \in Frame /\ UpdateFrame(u).op = "update"
         /\ HonestFrame(UpdateFrame(u)) /\ ~Loop(UpdateFrame(u))
         /\ ClientFrame(UpdateFrame(u)) <=> u \in Clients
         /\ Unsent(UpdateFrame(u)) <=> u \notin Clients
         /\ \A v : Carries(UpdateFrame(u), v) <=> u = v /\ u \notin Clients
         /\ \A l : UpdateOf(UpdateFrame(u), l) <=> u = l
         /\ \A l : ~SentUpdateOf(UpdateFrame(u), l)
  BY FrameTypes DEF UpdateFrame, HonestFrame, Loop, ClientFrame, Unsent, Carries, UpdateOf, SentUpdateOf

(* A round carries news to whoever is left of its snapshot.                *)
LEMMA NotifyFrames ==
  ASSUME NEW f \in Frame, f.op = "notify"
  PROVE  /\ Loop(f) /\ ~Unsent(f)
         /\ HonestFrame(f) <=> Honest(f.todo)
         /\ ClientFrame(f) <=> \A x \in f.todo : x.observer \in Clients
         /\ \A v : Carries(f, v) <=> \E x \in f.todo : x.observer = v
         /\ \A l : ~UpdateOf(f, l) /\ ~SentUpdateOf(f, l)
  BY DEF HonestFrame, Loop, ClientFrame, Unsent, Carries, UpdateOf, SentUpdateOf

(* A drain carries news to whoever is left of its batch.                   *)
LEMMA DrainFrames ==
  ASSUME NEW f \in Frame, f.op = "drain"
  PROVE  /\ Loop(f) /\ ~Unsent(f)
         /\ HonestFrame(f) <=> f.stalled = {}
         /\ ~ClientFrame(f)
         /\ \A v : Carries(f, v) <=> v \in f.batch
         /\ \A l : ~UpdateOf(f, l) /\ ~SentUpdateOf(f, l)
  BY DEF HonestFrame, Loop, ClientFrame, Unsent, Carries, UpdateOf, SentUpdateOf

\* A call of an observer that has told: f may be any update, g the same one, sent.
LEMMA SentFrames ==
  ASSUME NEW f \in Frame, f.op = "update"
  PROVE  /\ Sent(f) \in Frame /\ HonestFrame(Sent(f)) /\ ~Loop(Sent(f)) /\ ~Loop(f)
         /\ HonestFrame(f)
         /\ ~Unsent(Sent(f)) /\ \A v : ~Carries(Sent(f), v)
         /\ \A v : Carries(f, v) <=> Unsent(f) /\ f.who = v
         /\ ClientFrame(f) <=> f.who \in Clients
         /\ ClientFrame(Sent(f)) <=> f.who \in Clients
         /\ \A l : /\ UpdateOf(f, l) <=> f.who = l
                   /\ UpdateOf(Sent(f), l) <=> f.who = l
                   /\ SentUpdateOf(Sent(f), l) <=> f.who = l
                   /\ SentUpdateOf(f, l) <=> f.who = l /\ f.sent
  <1>1. /\ f.who \in Observers /\ f.sent \in BOOLEAN
        /\ Sent(f) \in Frame /\ Sent(f).op = "update" /\ Sent(f).who = f.who
    BY FrameFields
  <1>2. Sent(f).sent = TRUE
    BY DEF Sent, Frame
  <1> QED BY <1>1, <1>2 DEF HonestFrame, Loop, ClientFrame, Unsent, Carries, UpdateOf, SentUpdateOf

\* The loops move on.
LEMMA DoneFrames ==
  ASSUME NEW f \in Frame, f.op = "notify", NEW e \in f.todo
  PROVE  /\ Done(f, e) \in Frame /\ Done(f, e).op = "notify"
         /\ HonestFrame(f) => HonestFrame(Done(f, e))
         /\ ClientFrame(f) => ClientFrame(Done(f, e)) /\ e.observer \in Clients
         /\ \A v : Carries(f, v) => v = e.observer \/ Carries(Done(f, e), v)
         /\ e \in Entry /\ e.observer \in Observers
  <1>1. f.todo \in SUBSET Entry /\ e \in Entry
    BY FrameFields
  <1>2. Done(f, e) \in Frame /\ Done(f, e).op = "notify" /\ Done(f, e).todo = f.todo \ {e}
    BY <1>1, FrameFields
  <1>3. e.observer \in Observers
    BY <1>1, EntryFields
  <1> QED BY <1>1, <1>2, <1>3, NotifyFrames DEF Honest

(* A drain takes a batch, and delivers to one of it.                       *)
LEMMA BatchFrames ==
  ASSUME NEW f \in Frame, f.op = "drain"
  PROVE  /\ \A b \in SUBSET Observers :
              /\ Taking(f, b) \in Frame /\ Taking(f, b).op = "drain"
              /\ HonestFrame(f) => HonestFrame(Taking(f, b))
              /\ \A v : Carries(Taking(f, b), v) <=> v \in b
         /\ \A u \in f.batch :
              /\ u \in Observers
              /\ Delivering(f, u) \in Frame /\ Delivering(f, u).op = "drain"
              /\ HonestFrame(f) => HonestFrame(Delivering(f, u))
              /\ \A v : Carries(f, v) => v = u \/ Carries(Delivering(f, u), v)
  <1>1. f.batch \in SUBSET Observers
    BY FrameFields
  <1>2. ASSUME NEW b \in SUBSET Observers
        PROVE  /\ Taking(f, b) \in Frame /\ Taking(f, b).op = "drain"
               /\ HonestFrame(f) => HonestFrame(Taking(f, b))
               /\ \A v : Carries(Taking(f, b), v) <=> v \in b
    <2>1. /\ Taking(f, b) \in Frame /\ Taking(f, b).op = "drain"
          /\ Taking(f, b).batch = b /\ Taking(f, b).stalled = f.stalled
      BY FrameFields
    <2> QED BY <2>1, DrainFrames
  <1>3. ASSUME NEW u \in f.batch
        PROVE  /\ u \in Observers
               /\ Delivering(f, u) \in Frame /\ Delivering(f, u).op = "drain"
               /\ HonestFrame(f) => HonestFrame(Delivering(f, u))
               /\ \A v : Carries(f, v) => v = u \/ Carries(Delivering(f, u), v)
    <2>1. u \in Observers
      BY <1>1
    <2>2. /\ Delivering(f, u) \in Frame /\ Delivering(f, u).op = "drain"
          /\ Delivering(f, u).batch = f.batch \ {u} /\ Delivering(f, u).stalled = f.stalled
      BY <2>1, FrameFields
    <2> QED BY <2>1, <2>2, DrainFrames
  <1> QED BY <1>2, <1>3

-----------------------------------------------------------------------------
(* The invariant of the caches.  Registries hold what the constructors put   *)
(* there: whoever reads a quote or a handle observes it, only clients        *)
(* observe an instrument, and only who asked for it is ever discarded.       *)
Wired ==
    /\ \A s \in Subjects : Honest(registry[s])
    /\ \A i \in Instruments : \A x \in registry[Own[i]] : x.observer \in Clients
    /\ \A c \in Curves : \A q \in CurveInputs[c] : Follows(registry, c, q)
    /\ \A e \in Engines : \A q \in EngineInputs[e] : Follows(registry, e, q)
    /\ \A i \in Instruments : \A q \in DirectInputs[i] : Follows(registry, i, q)
    /\ \A e \in Engines : Follows(registry, e, Target[EngineHandle[e]])

(* The flags: every lazy object of the graph forwards every notification,    *)
(* and curves are never frozen.                                              *)
Flags ==
    \A l \in Lazies : lazy[l].alwaysForward /\ (l \in Curves => ~lazy[l].frozen)

(* Calls: nobody is set aside, who has something to tell is on top, and all  *)
(* is told when the last call returns.                                       *)
Flow ==
    /\ AllHonest(stack)
    /\ SentBelowTop(stack)
    /\ stack = <<>> => pending = {}

(* Guards: the recursion guard of a lazy object is up while the loop runs    *)
(* that tells of it, either its own update's or that of a call that holds    *)
(* the instrument and has left it invalid.                                   *)
Exclusive(l) ==
    l \in Instruments /\ inUse[l] = guard[l] /\ ~lazy[l].calculated /\ answer[l] = "none"

GuardOf(l) ==
    /\ lazy[l].updating <=> guard[l] # 0
    /\ guard[l] # 0 => /\ LoopAt(stack, guard[l])
                       /\ LoopOfUpdate(stack, guard[l], l) \/ Exclusive(l)

Guards ==
    /\ \A l \in Lazies : GuardOf(l)
    /\ \A i \in Instruments : inUse[i] # 0 => LoopAt(stack, inUse[i])

(* Habits: where clients only read, only clients are told above the update   *)
(* of an instrument; where they only change, what has told is invalid, and   *)
(* nobody holds its answer.                                                  *)
Modest(l) == ~lazy[l].calculated /\ (answer[l] = "none" \/ lazy[l].frozen)

Modes ==
    /\ habit \cap Changes = {} => Quiet(stack)
    /\ habit \cap Reads = {} => \A l \in Lazies : SentUpdates(stack, l) => Modest(l)

(* News: whatever is out of date will hear of it: one of the observers       *)
(* between it and the market waits in PENDING, or will be told by a call     *)
(* that is not above an update of l.                                         *)
Sources(l) ==
    {l} \cup IF l \in Instruments /\ engine[l] # NoEngine
             THEN {engine[l], EngineHandle[engine[l]]} \cup (Curves \cap {CurveOf(l)})
             ELSE {}

Told(v, l) == v \in pending \/ Waits(stack, v, l)
Hears(l) == \E v \in Sources(l) : Told(v, l)
Outdated(l) ==
    (lazy[l].calculated /\ ~fresh[l]) \/ (answer[l] = "stale" /\ ~lazy[l].frozen)

NewsComes == \A l \in Lazies : Outdated(l) => Hears(l)

Ground == EngineInv /\ SubscriptionInv /\ GraphTypeOK /\ Wired /\ Flags /\ Flow
CacheInv == Ground /\ Guards /\ Modes /\ NewsComes

(* Who stands between a lazy object and the market: no client, and nobody    *)
(* who may be discarded but the object itself.                               *)
LEMMA SourcesAre ==
  ASSUME points \in [Handles -> Curves \cup {NoCurve}],
         engine \in [Instruments -> Engines \cup {NoEngine}],
         NEW l \in Lazies
  PROVE  /\ l \in Sources(l)
         /\ \A v \in Sources(l) :
              /\ v \in Observers /\ v \notin Clients
              /\ v \in Discarding => v = l
              /\ v \in Instruments => v = l
              /\ v \in Engines => /\ l \in Instruments /\ engine[l] = v
                                  /\ EngineHandle[v] \in Sources(l)
              /\ v \in Handles => l \in Instruments /\ engine[l] \in Sources(l) \cap Engines
                                   /\ EngineHandle[engine[l]] = v
              /\ v \in Curves /\ v # l =>
                   /\ l \in Instruments /\ engine[l] \in Sources(l) \cap Engines
                   /\ points[EngineHandle[engine[l]]] = v
                   /\ EngineHandle[engine[l]] \in Sources(l)
  <1>1. /\ Lazies = Curves \cup Instruments /\ Curves \cap Instruments = {}
        /\ Lazies \subseteq Observers \ (Clients \cup Forwarders)
        /\ Forwarders = Handles \cup Engines /\ Handles \cap Engines = {}
        /\ Forwarders \subseteq Observers \ Clients
        /\ Discarding \cap (Forwarders \cup Curves) = {}
        /\ EngineHandle \in [Engines -> Handles]
        /\ NoCurve \notin Curves /\ NoEngine \notin Engines
    BY ConstantsAssumption, LazyGraphConstants, GraphConstants, GraphObjects
  <1>2. CASE l \in Instruments /\ engine[l] # NoEngine
    <2>1. /\ engine[l] \in Engines /\ EngineHandle[engine[l]] \in Handles
          /\ CurveOf(l) = points[EngineHandle[engine[l]]] /\ CurveOf(l) \in Curves \cup {NoCurve}
      BY <1>1, <1>2 DEF CurveOf
    <2>2. Sources(l) = {l} \cup {engine[l], EngineHandle[engine[l]]} \cup (Curves \cap {CurveOf(l)})
      BY <1>2 DEF Sources
    <2> QED BY <1>1, <1>2, <2>1, <2>2
  <1>3. CASE ~(l \in Instruments /\ engine[l] # NoEngine)
    <2>1. Sources(l) = {l}
      BY <1>3 DEF Sources
    <2> QED BY <1>1, <2>1
  <1> QED BY <1>2, <1>3

-----------------------------------------------------------------------------
(* Steps that pass news on.  A loop of s that is still there in t is the loop*)
(* it was.                                                                   *)
KeepsLoops(s, t) ==
    \A g : LoopAt(s, g) /\ g <= Len(t) =>
           LoopAt(t, g) /\ \A l : LoopOfUpdate(s, g, l) => LoopOfUpdate(t, g, l)

Passes ==
    /\ KeepsLoops(stack, stack')
    /\ Flow'
    /\ Quiet(stack) => Quiet(stack')
    /\ \A l \in Lazies : SentUpdates(stack', l) => SentUpdates(stack, l)
    /\ \A l \in Lazies : \A v \in Sources(l) :
         Told(v, l) => \E u \in Sources(l) : u \in pending' \/ Waits(stack', u, l)

(* A loop on top that returns, or moves on, leaves the loops below it.     *)
LEMMA TopKeepsLoops ==
  ASSUME stack \in Seq(Frame), stack # <<>>
  PROVE  /\ KeepsLoops(stack, Below)
         /\ \A g \in Frame : (Loop(Top) => Loop(g)) =>
              /\ KeepsLoops(stack, ReplaceTop(g))
              /\ \A f \in Frame : KeepsLoops(stack, Append(ReplaceTop(g), f))
  <1>1. /\ LoopFacts(stack, Below, Top) /\ Below \in Seq(Frame) /\ Top \in Frame
        /\ Len(Below) \in Nat
    BY TopAndBelow
  <1>2. KeepsLoops(stack, Below)
    BY <1>1 DEF KeepsLoops, LoopFacts
  <1>3. ASSUME NEW g \in Frame, Loop(Top) => Loop(g), NEW f \in Frame
        PROVE  KeepsLoops(stack, ReplaceTop(g)) /\ KeepsLoops(stack, Append(ReplaceTop(g), f))
    <2> DEFINE r == ReplaceTop(g)
               t == Append(r, f)
    <2>1. r \in Seq(Frame) /\ LoopFacts(r, Below, g)
      BY <1>1, Loops, PushProperties DEF ReplaceTop
    <2>2. LoopFacts(t, r, f)
      BY <2>1, Loops
    <2> HIDE DEF r, t
    <2>3. ASSUME NEW k, LoopAt(stack, k)
          PROVE  /\ LoopAt(r, k) /\ LoopAt(t, k)
                 /\ \A l : LoopOfUpdate(stack, k, l) => LoopOfUpdate(r, k, l) /\ LoopOfUpdate(t, k, l)
      <3>1. LoopAt(Below, k) \/ (k = Len(Below) + 1 /\ Loop(Top))
        BY <1>1, <2>3 DEF LoopFacts
      <3>2. LoopAt(r, k)
        BY <1>3, <2>1, <3>1 DEF LoopFacts
      <3>3. LoopAt(t, k)
        BY <2>2, <3>2 DEF LoopFacts
      <3>4. ASSUME NEW l, LoopOfUpdate(stack, k, l)
            PROVE  LoopOfUpdate(r, k, l) /\ LoopOfUpdate(t, k, l)
        <4>1. LoopOfUpdate(Below, k, l) \/ (k = Len(Below) + 1 /\ Loop(Top) /\ SentOnTop(Below, l))
          BY <1>1, <3>4 DEF LoopFacts
        <4>2. LoopOfUpdate(r, k, l)
          BY <1>3, <2>1, <4>1 DEF LoopFacts
        <4>3. LoopOfUpdate(t, k, l)
          BY <2>2, <4>2 DEF LoopFacts
        <4> QED BY <4>2, <4>3
      <3> QED BY <3>2, <3>3, <3>4
    <2> QED BY <2>3 DEF KeepsLoops, r, t
  <1> QED BY <1>2, <1>3

(* A call that begins leaves all of them.                                  *)
LEMMA PushKeepsLoops ==
  ASSUME stack \in Seq(Frame), NEW f \in Frame
  PROVE  KeepsLoops(stack, Append(stack, f))
  BY Loops DEF KeepsLoops, LoopFacts

(* The top loop moves on.                                                    *)
LEMMA MovesOn ==
  ASSUME Ground, stack # <<>>, NEW g \in Frame, stack' = ReplaceTop(g),
         Loop(Top), Loop(g), HonestFrame(g), Below = <<>> \/ (ClientFrame(Top) => ClientFrame(g)),
         \A l \in Lazies : \A v \in Sources(l) :
           v \in pending \/ (Carries(Top, v) /\ ~Updates(Below, l))
             => v \in pending' \/ (Carries(g, v) /\ ~Updates(Below, l))
  PROVE  Passes
  <1>1. /\ stack \in Seq(Frame) /\ Below \in Seq(Frame)
        /\ CallFacts(stack, Below, Top)
    BY TopAndBelow DEF Ground, EngineInv, TypeOK
  <1>2. CallFacts(stack', Below, g) /\ stack' # <<>>
    <2>1. Append(Below, g) # <<>>
      BY <1>1, AppendProperties
    <2> QED BY <1>1, <2>1, Calls DEF ReplaceTop
  <1>3. KeepsLoops(stack, stack')
    BY <1>1, TopKeepsLoops
  <1>4. /\ ~Unsent(g) /\ \A l : ~UpdateOf(g, l) /\ ~SentUpdateOf(g, l)
    BY DEF Loop, Unsent, UpdateOf, SentUpdateOf
  <1>5. Flow'
    <2>1. AllHonest(stack') /\ SentBelowTop(stack')
      BY <1>1, <1>2 DEF Ground, Flow, CallFacts
    <2> QED BY <1>2, <2>1 DEF Flow
  <1>6. Quiet(stack) => Quiet(stack')
    <2>1. CASE Below = <<>>
      BY <1>2, <2>1, NoCalls DEF CallFacts
    <2>2. CASE ClientFrame(Top) => ClientFrame(g)
      BY <1>1, <1>2, <2>2 DEF CallFacts
    <2> QED BY <2>1, <2>2
  <1>7. \A l \in Lazies : SentUpdates(stack', l) => SentUpdates(stack, l)
    BY <1>1, <1>2, <1>4 DEF CallFacts
  <1>8. ASSUME NEW l \in Lazies, NEW v \in Sources(l), Told(v, l)
        PROVE  v \in pending' \/ Waits(stack', v, l)
    BY <1>1, <1>2, <1>8 DEF CallFacts, Told
  <1> QED BY <1>3, <1>5, <1>6, <1>7, <1>8 DEF Passes

(* The top loop calls the update of u.                                       *)
LEMMA CallsOn ==
  ASSUME Ground, stack # <<>>, NEW g \in Frame, NEW u \in Observers,
         stack' = Append(ReplaceTop(g), UpdateFrame(u)), UNCHANGED pending,
         Loop(Top), Loop(g), HonestFrame(g),
         Below = <<>> \/ (ClientFrame(Top) => ClientFrame(g) /\ u \in Clients),
         \A v : Carries(Top, v) => v = u \/ Carries(g, v)
  PROVE  Passes
  <1> DEFINE r == ReplaceTop(g)
  <1>1. /\ stack \in Seq(Frame) /\ Below \in Seq(Frame)
        /\ CallFacts(stack, Below, Top)
        /\ points \in [Handles -> Curves \cup {NoCurve}]
        /\ engine \in [Instruments -> Engines \cup {NoEngine}]
    BY TopAndBelow DEF Ground, EngineInv, TypeOK, GraphTypeOK
  <1>2. r \in Seq(Frame) /\ CallFacts(r, Below, g)
    BY <1>1, PushProperties, Calls DEF ReplaceTop
  <1> HIDE DEF r
  <1>3. CallFacts(stack', r, UpdateFrame(u)) /\ stack' # <<>>
    <2>1. Append(r, UpdateFrame(u)) # <<>>
      BY <1>2, UpdateFrames, AppendProperties
    <2>2. CallFacts(Append(r, UpdateFrame(u)), r, UpdateFrame(u))
      BY <1>2, UpdateFrames, Calls
    <2> QED BY <2>1, <2>2 DEF r
  <1>4. KeepsLoops(stack, stack')
    BY <1>1, UpdateFrames, TopKeepsLoops
  <1>5. /\ ~Unsent(g) /\ \A l : ~UpdateOf(g, l) /\ ~SentUpdateOf(g, l)
    BY DEF Loop, Unsent, UpdateOf, SentUpdateOf
  <1>6. Flow'
    <2>1. AllHonest(stack') /\ SentBelowTop(stack')
      BY <1>1, <1>2, <1>3, <1>5, UpdateFrames DEF Ground, Flow, CallFacts
    <2> QED BY <1>3, <2>1 DEF Flow
  <1>7. Quiet(stack) => Quiet(stack')
    <2>1. CASE Below = <<>>
      BY <1>2, <1>3, <1>5, <2>1, NoCalls DEF CallFacts
    <2>2. CASE ClientFrame(Top) => ClientFrame(g) /\ u \in Clients
      BY <1>1, <1>2, <1>3, <1>5, <2>2, UpdateFrames DEF CallFacts
    <2> QED BY <2>1, <2>2
  <1>8. \A l \in Lazies : SentUpdates(stack', l) => SentUpdates(stack, l)
    BY <1>1, <1>2, <1>3, <1>5, UpdateFrames DEF CallFacts
  <1>9. ASSUME NEW l \in Lazies, NEW v \in Sources(l), Told(v, l)
        PROVE  v \in pending' \/ Waits(stack', v, l)
    <2>1. v \notin Clients
      BY <1>1, SourcesAre
    <2>2. CASE v \in pending
      BY <2>2
    <2>3. CASE Waits(Below, v, l)
      BY <1>2, <1>3, <2>3 DEF CallFacts
    <2>4. CASE Carries(Top, v) /\ ~Updates(Below, l)
      <3>1. ~Updates(r, l)
        BY <1>2, <1>5, <2>4 DEF CallFacts
      <3>2. CASE v = u
        BY <1>3, <2>1, <3>1, <3>2, UpdateFrames DEF CallFacts
      <3>3. CASE Carries(g, v)
        BY <1>2, <1>3, <2>4, <3>3 DEF CallFacts
      <3> QED BY <2>4, <3>2, <3>3
    <2> QED BY <1>1, <1>9, <2>2, <2>3, <2>4 DEF CallFacts, Told
  <1> QED BY <1>4, <1>6, <1>7, <1>8, <1>9 DEF Passes

(* The top call returns to another one, with nothing left to tell.           *)
LEMMA ReturnsOn ==
  ASSUME Ground, stack # <<>>, stack' = Below, Below # <<>>, UNCHANGED pending,
         \A v \in Observers \ Clients : ~Carries(Top, v)
  PROVE  Passes
  <1>1. /\ stack \in Seq(Frame) /\ Below \in Seq(Frame) /\ Top \in Frame
        /\ CallFacts(stack, Below, Top)
        /\ points \in [Handles -> Curves \cup {NoCurve}]
        /\ engine \in [Instruments -> Engines \cup {NoEngine}]
    BY TopAndBelow DEF Ground, EngineInv, TypeOK, GraphTypeOK
  <1>2. KeepsLoops(stack, stack')
    BY <1>1, TopKeepsLoops
  <1>3. Flow'
    <2>1. AllHonest(Below) /\ AllSent(Below)
      BY <1>1 DEF Ground, Flow, CallFacts
    <2> QED BY <2>1 DEF Flow, SentBelowTop, AllSent
  <1>4. ASSUME NEW l \in Lazies, NEW v \in Sources(l), Told(v, l)
        PROVE  v \in pending' \/ Waits(stack', v, l)
    <2>1. v \in Observers \ Clients
      BY <1>1, SourcesAre
    <2> QED BY <1>1, <1>4, <2>1 DEF CallFacts, Told
  <1> QED BY <1>1, <1>2, <1>3, <1>4 DEF Passes, CallFacts

(* What the engine's invariants say of the top call.                         *)
LEMMA TopCall ==
  ASSUME Ground, stack # <<>>
  PROVE  /\ stack \in Seq(Frame) /\ Below \in Seq(Frame) /\ Top \in Frame
         /\ CallFacts(stack, Below, Top)
         /\ HonestFrame(Top) /\ AllSent(Below) /\ AllHonest(Below)
         /\ Top.op = "drain" => Below = <<>>
         /\ Top.op = "update" => Below # <<>> /\ ~Updates(Below, Top.who)
         /\ \A v \in Observers : Busy(v) <=> Updates(stack, v)
         /\ dropped = {}
  <1>1. /\ stack \in Seq(Frame) /\ Below \in Seq(Frame) /\ Top \in Frame
        /\ CallFacts(stack, Below, Top)
        /\ DrainsFirst(stack) /\ OneBorrow(stack, held)
    BY TopAndBelow, Restated DEF Ground, EngineInv, TypeOK
  <1>2. HonestFrame(Top) /\ AllSent(Below) /\ AllHonest(Below)
    BY <1>1 DEF Ground, Flow, CallFacts
  <1>3. /\ Top.op = "drain" => Below = <<>>
        /\ Below = <<>> <=> Len(stack) = 1
        /\ \A i \in DOMAIN Below : i \in DOMAIN stack /\ i # Len(stack) /\ Below[i] = stack[i]
        /\ Len(stack) \in DOMAIN stack
    BY <1>1, Pop DEF Top, Below
  <1>4. ASSUME Top.op = "update" PROVE Below # <<>>
    BY <1>1, <1>3, <1>4 DEF DrainsFirst, Top
  <1>5. ASSUME Top.op = "update", Updates(Below, Top.who) PROVE FALSE
    <2>1. PICK k \in DOMAIN Below : Below[k].op = "update" /\ Below[k].who = Top.who
      BY <1>5 DEF Updates, UpdateOf
    <2>2. stack[k].op = "update" /\ stack[k].who = stack[Len(stack)].who /\ k # Len(stack)
          /\ stack[Len(stack)].op = "update"
      BY <1>3, <1>5, <2>1 DEF Top
    <2> QED BY <1>1, <1>3, <2>1, <2>2 DEF OneBorrow
  <1>6. \A v \in Observers : Busy(v) <=> Updates(stack, v)
    BY DEF Ground, EngineInv, Busy, OnStack, Updates, UpdateOf
  <1>7. dropped = {}
    BY DEF Ground, SubscriptionInv, GraphShape, AllAlive
  <1> QED BY <1>1, <1>2, <1>3, <1>4, <1>5, <1>6, <1>7

(* A round ends: into the drain if it was the outermost call, else to the    *)
(* call below it.                                                            *)
LEMMA RoundEnds ==
  ASSUME Ground, RoundEnd
  PROVE  stack' = IF Below = <<>> THEN ReplaceTop(DrainFrame) ELSE Below
  <1>1. /\ stack # <<>> /\ Top.op = "notify" /\ stack \in Seq(Frame) /\ Below \in Seq(Frame)
        /\ depth' = depth - 1
        /\ stack' = IF depth' = 0 /\ ~draining THEN ReplaceTop(DrainFrame) ELSE Below
    BY TopCall DEF RoundEnd, TopIs
  <1>2. /\ depth = Cardinality(RoundsOf(stack)) /\ DrainsFirst(stack)
        /\ draining <=> Draining(stack)
    BY Restated DEF Ground, EngineInv
  <1>3. /\ RoundsOf(Below) = RoundsOf(stack) \ {Len(stack)} /\ DrainsFirst(Below)
        /\ Draining(stack) <=> Draining(Below)
    <2>1. /\ RoundsOf(Below) = RoundsOf(stack) \ {Len(stack)} /\ DrainsFirst(Below)
          /\ Draining(stack) <=> Draining(Below) \/ stack[Len(stack)].op = "drain"
      BY <1>1, <1>2, Pop DEF Below
    <2> QED BY <1>1, <2>1 DEF Top
  <1>4. depth' = Cardinality(RoundsOf(Below))
    <2>1. Cardinality(RoundsOf(stack) \ {Len(stack)}) = Cardinality(RoundsOf(stack)) - 1
      BY <1>1, FiniteRounds DEF Top
    <2> QED BY <1>1, <1>2, <1>3, <2>1
  <1>5. CASE Below = <<>>
    <2>1. RoundsOf(Below) = {} /\ ~Draining(Below)
      BY <1>5 DEF RoundsOf, Draining
    <2>2. depth' = 0 /\ ~draining
      BY <1>2, <1>3, <1>4, <2>1, FS_EmptySet
    <2> QED BY <1>1, <1>5, <2>2
  <1>6. CASE Below # <<>>
    <2>1. ASSUME depth' = 0, ~draining PROVE FALSE
      <3>1. RoundsOf(Below) = {} /\ ~Draining(Below)
        BY <1>1, <1>2, <1>3, <1>4, <2>1, FiniteRounds
      <3>2. 1 \in DOMAIN Below /\ Below[1] \in Frame /\ Below[1].op # "update"
        <4>1. Len(Below) \in Nat /\ Len(Below) # 0 /\ DOMAIN Below = 1..Len(Below)
          BY <1>1, <1>6, EmptySeq, LenProperties
        <4>2. 1 \in DOMAIN Below
          BY <4>1
        <4> QED BY <1>1, <1>3, <1>6, <4>1, <4>2, ElementOfSeq DEF DrainsFirst
      <3> QED BY <3>1, <3>2, FrameFields DEF RoundsOf, Draining
    <2> QED BY <1>1, <1>6, <2>1
  <1> QED BY <1>5, <1>6

(* Every step of a round or a drain passes the news on: what it cannot       *)
(* deliver it queues, and what it discards was told by the update that runs. *)
LEMMA RoundPasses ==
  ASSUME Ground, RoundUpdate \/ RoundDefer \/ RoundDiscard \/ RoundEnd
  PROVE  Passes
  <1>0. /\ stack # <<>> /\ Top.op = "notify" /\ Top \in Frame
        /\ stack \in Seq(Frame) /\ Below \in Seq(Frame) /\ CallFacts(stack, Below, Top)
        /\ HonestFrame(Top) /\ AllSent(Below)
        /\ \A v \in Observers : Busy(v) <=> Updates(stack, v)
    <2>1. stack # <<>> /\ Top.op = "notify"
      BY DEF RoundUpdate, RoundDefer, RoundDiscard, RoundEnd, TopIs
    <2> QED BY <2>1, TopCall
  <1>1. Loop(Top) /\ \A l : ~UpdateOf(Top, l)
    BY <1>0, NotifyFrames
  <1>2. CASE RoundUpdate
    <2>1. PICK e \in Top.todo :
            stack' = Append(ReplaceTop(Done(Top, e)), UpdateFrame(e.observer))
      BY <1>2 DEF RoundUpdate, Done
    <2> DEFINE g == Done(Top, e)
    <2>2. /\ g \in Frame /\ g.op = "notify" /\ HonestFrame(g)
          /\ ClientFrame(Top) => ClientFrame(g) /\ e.observer \in Clients
          /\ \A v : Carries(Top, v) => v = e.observer \/ Carries(g, v)
          /\ e.observer \in Observers
      BY <1>0, DoneFrames
    <2>3. stack' = Append(ReplaceTop(g), UpdateFrame(e.observer))
      BY <2>1
    <2> HIDE DEF g
    <2>4. Loop(g)
      BY <2>2 DEF Loop
    <2>5. UNCHANGED pending
      BY <1>2 DEF RoundUpdate
    <2> QED BY <1>0, <1>1, <2>2, <2>3, <2>4, <2>5, CallsOn
  <1>3. CASE RoundDefer \/ RoundDiscard
    <2>1. PICK e \in Top.todo :
            /\ stack' = ReplaceTop(Done(Top, e))
            /\ Busy(e.observer)
            /\ \/ pending' = pending \cup {e.observer}
               \/ ~e.defer /\ pending' = pending
      BY <1>3 DEF RoundDefer, RoundDiscard, Done
    <2> DEFINE g == Done(Top, e)
    <2>2. /\ g \in Frame /\ g.op = "notify" /\ HonestFrame(g)
          /\ ClientFrame(Top) => ClientFrame(g)
          /\ \A v : Carries(Top, v) => v = e.observer \/ Carries(g, v)
          /\ e.observer \in Observers
      BY <1>0, DoneFrames
    <2>3. stack' = ReplaceTop(g)
      BY <2>1
    <2> HIDE DEF g
    <2>4. Loop(g)
      BY <2>2 DEF Loop
    <2>5. Updates(Below, e.observer)
      BY <1>0, <1>1, <2>1, <2>2 DEF CallFacts
    <2>6. e.defer \/ e.observer \in Discarding
      BY <1>0 DEF HonestFrame, Honest
    <2>7. ASSUME NEW l \in Lazies, NEW v \in Sources(l),
                 v \in pending \/ (Carries(Top, v) /\ ~Updates(Below, l))
          PROVE  v \in pending' \/ (Carries(g, v) /\ ~Updates(Below, l))
      <3>1. v \in Discarding => v = l
        BY SourcesAre DEF Ground, GraphTypeOK
      <3>2. CASE v = e.observer
        BY <2>1, <2>5, <2>6, <2>7, <3>1, <3>2
      <3>3. CASE v # e.observer
        BY <2>1, <2>2, <2>7, <3>3
      <3> QED BY <3>2, <3>3
    <2> QED BY <1>0, <1>1, <2>2, <2>3, <2>4, <2>7, MovesOn
  <1>4. CASE RoundEnd
    <2>1. Top.todo = {} /\ UNCHANGED pending
      BY <1>4 DEF RoundEnd
    <2>2. \A v : ~Carries(Top, v)
      BY <1>0, <2>1, NotifyFrames
    <2>3. CASE Below = <<>>
      <3>1. stack' = ReplaceTop(DrainFrame)
        BY <1>4, <2>3, RoundEnds
      <3>2. DrainFrame \in Frame /\ DrainFrame.op = "drain" /\ DrainFrame.stalled = {}
        BY FrameTypes DEF DrainFrame
      <3>3. Loop(DrainFrame) /\ HonestFrame(DrainFrame)
        BY <3>2, DrainFrames
      <3> QED BY <1>0, <1>1, <2>1, <2>2, <2>3, <3>1, <3>2, <3>3, MovesOn
    <2>4. CASE Below # <<>>
      BY <1>0, <1>4, <2>1, <2>2, <2>4, RoundEnds, ReturnsOn
    <2> QED BY <2>3, <2>4
  <1> QED BY <1>2, <1>3, <1>4

(* The same of the drain, whose queue is PENDING.                          *)
LEMMA DrainPasses ==
  ASSUME Ground, DrainTake \/ DrainUpdate \/ DrainSkip \/ DrainStall \/ DrainEnd
  PROVE  Passes
  <1>0. /\ stack # <<>> /\ Top.op = "drain" /\ Top \in Frame /\ Below = <<>>
        /\ stack \in Seq(Frame) /\ CallFacts(stack, Below, Top)
        /\ HonestFrame(Top)
        /\ \A v \in Observers : Busy(v) <=> Updates(stack, v)
        /\ dropped = {} /\ pending \in SUBSET Observers
    <2>1. stack # <<>> /\ Top.op = "drain"
      BY DEF DrainTake, DrainUpdate, DrainSkip, DrainStall, DrainEnd, TopIs
    <2>2. pending \in SUBSET Observers
      BY DEF Ground, EngineInv, TypeOK
    <2> QED BY <2>1, <2>2, TopCall
  <1>1. /\ Loop(Top) /\ Top.stalled = {} /\ Top.batch \in SUBSET Observers
        /\ \A l : ~UpdateOf(Top, l)
        /\ \A v : Carries(Top, v) <=> v \in Top.batch
    BY <1>0, DrainFrames, FrameFields
  <1>2. \A v \in Top.batch : Live(v) /\ ~Busy(v)
    BY <1>0, <1>1, NoCalls DEF Live, CallFacts
  <1>3. CASE DrainTake
    <2> DEFINE g == Taking(Top, pending)
    <2>1. stack' = ReplaceTop(g) /\ Top.batch = {}
      BY <1>3 DEF DrainTake, Taking
    <2>2. /\ g \in Frame /\ g.op = "drain" /\ HonestFrame(g)
          /\ \A v : Carries(g, v) <=> v \in pending
      BY <1>0, BatchFrames
    <2> HIDE DEF g
    <2>3. Loop(g)
      BY <2>2 DEF Loop
    <2>4. \A l : ~Updates(Below, l)
      BY <1>0, NoCalls
    <2> QED BY <1>0, <1>1, <2>1, <2>2, <2>3, <2>4, MovesOn
  <1>4. CASE DrainUpdate
    <2>1. PICK u \in Top.batch : stack' = Append(ReplaceTop(Delivering(Top, u)), UpdateFrame(u))
      BY <1>4 DEF DrainUpdate, Delivering
    <2> DEFINE g == Delivering(Top, u)
    <2>2. /\ g \in Frame /\ g.op = "drain" /\ HonestFrame(g) /\ u \in Observers
          /\ \A v : Carries(Top, v) => v = u \/ Carries(g, v)
      BY <1>0, BatchFrames
    <2>3. stack' = Append(ReplaceTop(g), UpdateFrame(u))
      BY <2>1
    <2> HIDE DEF g
    <2>4. Loop(g)
      BY <2>2 DEF Loop
    <2>5. UNCHANGED pending
      BY <1>4 DEF DrainUpdate
    <2> QED BY <1>0, <1>1, <2>2, <2>3, <2>4, <2>5, CallsOn
  <1>5. CASE DrainSkip \/ DrainStall
    BY <1>2, <1>5 DEF DrainSkip, DrainStall
  <1>6. CASE DrainEnd
    <2>1. stack' = <<>> /\ pending' = {} /\ pending = {} /\ Top.batch = {}
      BY <1>0, <1>1, <1>6 DEF DrainEnd
    <2>2. KeepsLoops(stack, stack')
      BY <1>0, <2>1, TopKeepsLoops
    <2>3. Flow'
      BY <2>1, NoCalls DEF Flow
    <2>4. \A v, l : ~Told(v, l)
      BY <1>0, <1>1, <2>1, NoCalls DEF Told, CallFacts
    <2> QED BY <2>1, <2>2, <2>3, <2>4, NoCalls DEF Passes
  <1> QED BY <1>3, <1>4, <1>5, <1>6

(* A round tells whoever is registered.                                      *)
LEMMA RoundTells ==
  ASSUME AllAlive, NEW reg \in [Subjects -> SUBSET Entry], NEW s \in Subjects, NEW below,
         StartRound(reg, s, below)
  PROVE  \E f \in Frame :
           /\ stack' = Append(below, f) /\ f.op = "notify" /\ f.todo = reg[s]
           /\ Loop(f) /\ ~Unsent(f)
           /\ HonestFrame(f) <=> Honest(reg[s])
           /\ ClientFrame(f) <=> \A x \in reg[s] : x.observer \in Clients
           /\ \A v : Carries(f, v) <=> Follows(reg, v, s)
           /\ \A l : ~UpdateOf(f, l) /\ ~SentUpdateOf(f, l)
  <1> DEFINE f == NotifyFrame(reg[s])
  <1>1. reg[s] \in SUBSET Entry
    OBVIOUS
  <1>2. Pruned(reg[s]) = reg[s]
    BY <1>1, NothingPruned
  <1>3. stack' = Append(below, f)
    BY <1>2 DEF StartRound
  <1>4. f \in Frame
    BY <1>1, FrameTypes
  <1>5. f.op = "notify" /\ f.todo = reg[s]
    BY DEF NotifyFrame
  <1> HIDE DEF f
  <1>6. /\ Loop(f) /\ ~Unsent(f)
        /\ HonestFrame(f) <=> Honest(reg[s])
        /\ ClientFrame(f) <=> \A x \in reg[s] : x.observer \in Clients
        /\ \A v : Carries(f, v) <=> Follows(reg, v, s)
        /\ \A l : ~UpdateOf(f, l) /\ ~SentUpdateOf(f, l)
    BY <1>4, <1>5, NotifyFrames DEF Follows
  <1> QED BY <1>3, <1>4, <1>5, <1>6

\* The top call, an update of u, has told the observers of s.
TellsOn(u, s) ==
    /\ KeepsLoops(stack, stack')
    /\ Flow'
    /\ Quiet(stack) => Quiet(stack')
    /\ \A l \in Lazies : SentUpdates(stack', l) => SentUpdates(stack, l) \/ l = u
    /\ LoopAt(stack', Len(stack')) /\ LoopOfUpdate(stack', Len(stack'), u)
    /\ \A l \in Lazies \ {u} :
         /\ \A v \in Sources(l) : Told(v, l) => v \in pending' \/ Waits(stack', v, l) \/ v = u
         /\ Told(u, l) /\ u \in Sources(l) =>
              u \in pending' \/ Waits(stack', u, l)
                \/ \A v : Follows(registry, v, s) => Waits(stack', v, l)

(* An observer of the graph that tells on what it heard: its own round     *)
(* carries the news to whoever observes it.                                *)
LEMMA TellsStep ==
  ASSUME Ground, stack # <<>>, Top.op = "update", Top.who \notin Clients, NEW s \in Subjects,
         StartRound(registry, s, ReplaceTop(Sent(Top))), UNCHANGED pending,
         Top.who \in Instruments => \A x \in registry[s] : x.observer \in Clients
  PROVE  TellsOn(Top.who, s)
  <1> DEFINE u == Top.who
             g == Sent(Top)
             r == ReplaceTop(g)
  <1>0. /\ stack \in Seq(Frame) /\ Below \in Seq(Frame) /\ Top \in Frame
        /\ CallFacts(stack, Below, Top)
        /\ HonestFrame(Top) /\ AllSent(Below) /\ AllHonest(Below)
    BY TopCall
  <1>1. /\ AllAlive /\ registry \in [Subjects -> SUBSET Entry]
        /\ Honest(registry[s])
        /\ points \in [Handles -> Curves \cup {NoCurve}]
        /\ engine \in [Instruments -> Engines \cup {NoEngine}]
    BY DEF Ground, SubscriptionInv, GraphShape, AllAlive, Wired, GraphTypeOK
  <1>2. /\ g \in Frame /\ HonestFrame(g) /\ ~Loop(g) /\ ~Loop(Top)
        /\ ~Unsent(g) /\ \A v : ~Carries(g, v)
        /\ \A v : Carries(Top, v) <=> Unsent(Top) /\ u = v
        /\ ~ClientFrame(Top) /\ ~ClientFrame(g)
        /\ \A l : /\ UpdateOf(g, l) <=> u = l
                  /\ UpdateOf(Top, l) <=> u = l
                  /\ SentUpdateOf(g, l) <=> u = l
    BY <1>0, SentFrames
  <1>3. PICK f \in Frame :
           /\ stack' = Append(r, f)
           /\ Loop(f) /\ ~Unsent(f)
           /\ HonestFrame(f)
           /\ ClientFrame(f) <=> \A x \in registry[s] : x.observer \in Clients
           /\ \A v : Carries(f, v) <=> Follows(registry, v, s)
           /\ \A l : ~UpdateOf(f, l) /\ ~SentUpdateOf(f, l)
    BY <1>1, RoundTells
  <1> HIDE DEF g
  <1>4. /\ r \in Seq(Frame) /\ CallFacts(r, Below, g) /\ LoopFacts(r, Below, g)
    BY <1>0, <1>2, PushProperties, Calls, Loops DEF ReplaceTop
  <1>5. KeepsLoops(stack, stack')
    BY <1>0, <1>2, <1>3, TopKeepsLoops
  <1> HIDE DEF r
  <1>6. /\ CallFacts(stack', r, f) /\ LoopFacts(stack', r, f) /\ Len(stack') = Len(r) + 1
        /\ Len(r) \in Nat /\ stack' # <<>>
    <2>1. /\ CallFacts(Append(r, f), r, f) /\ LoopFacts(Append(r, f), r, f)
          /\ Len(Append(r, f)) = Len(r) + 1 /\ Len(r) \in Nat /\ Append(r, f) # <<>>
      BY <1>4, Calls, Loops, PushProperties, AppendProperties
    <2> QED BY <1>3, <2>1
  <1>7. Flow'
    <2>1. AllHonest(stack') /\ SentBelowTop(stack')
      BY <1>0, <1>2, <1>3, <1>4, <1>6 DEF CallFacts
    <2> QED BY <1>6, <2>1 DEF Flow
  <1>8. Quiet(stack) => Quiet(stack')
    <2> SUFFICES ASSUME Quiet(stack) PROVE Quiet(stack')
      OBVIOUS
    <2>1. \A i \in Instruments : ~Updates(Below, i)
      BY <1>0, <1>2 DEF CallFacts
    <2>2. Quiet(r) /\ \A i \in Instruments : Updates(r, i) => i = u
      BY <1>0, <1>2, <1>4, <2>1 DEF CallFacts
    <2> QED BY <1>3, <1>6, <2>2 DEF CallFacts
  <1>9. \A l \in Lazies : SentUpdates(stack', l) => SentUpdates(stack, l) \/ l = u
    BY <1>0, <1>2, <1>3, <1>4, <1>6 DEF CallFacts
  <1>10. LoopAt(stack', Len(stack')) /\ LoopOfUpdate(stack', Len(stack'), u)
    <2>1. SentOnTop(r, u)
      BY <1>2, <1>4 DEF CallFacts
    <2> QED BY <1>3, <1>6, <2>1 DEF LoopFacts
  <1>11. ASSUME NEW l \in Lazies \ {u}
         PROVE  /\ \A v \in Sources(l) : Told(v, l) => v \in pending' \/ Waits(stack', v, l) \/ v = u
                /\ Told(u, l) /\ u \in Sources(l) =>
                     u \in pending' \/ Waits(stack', u, l)
                       \/ \A v : Follows(registry, v, s) => Waits(stack', v, l)
    <2>1. \A v : Told(v, l) <=> v \in pending \/ Waits(Below, v, l)
                                 \/ (Unsent(Top) /\ u = v /\ ~Updates(Below, l))
      BY <1>0, <1>2 DEF Told, CallFacts
    <2>2. \A v : Waits(Below, v, l) => Waits(stack', v, l)
      BY <1>4, <1>6 DEF CallFacts
    <2>3. ~Updates(Below, l) => \A v : Follows(registry, v, s) => Waits(stack', v, l)
      BY <1>2, <1>3, <1>4, <1>6, <1>11 DEF CallFacts
    <2> QED BY <2>1, <2>2, <2>3
  <1> QED BY <1>5, <1>7, <1>8, <1>9, <1>10, <1>11 DEF TellsOn, u

(* A handle or an engine tells on what it heard.                           *)
LEMMA ForwardPasses ==
  ASSUME Ground, ForwardBroadcast \/ ForwardDeliver
  PROVE  Passes
  <1>0. /\ stack # <<>> /\ Top.op = "update" /\ Top.who \in Forwarders
        /\ UNCHANGED pending \/ ForwardDeliver
    BY DEF ForwardBroadcast, ForwardDeliver, TopIs
  <1>1. /\ Target[Top.who] \in Subjects /\ Target[Top.who] \notin Observers
        /\ Forwarders = Handles \cup Engines /\ Handles \cap Engines = {}
        /\ Lazies = Curves \cup Instruments
        /\ Lazies \subseteq Observers \ (Clients \cup Forwarders)
        /\ Forwarders \subseteq Observers \ Clients
    BY <1>0, ConstantsAssumption, LazyGraphConstants, GraphConstants, GraphObjects
  <1>2. ForwardBroadcast
    BY <1>1 DEF ForwardDeliver
  <1> DEFINE u == Top.who
             s == Target[u]
  <1>3. TellsOn(u, s)
    <2>1. StartRound(registry, s, ReplaceTop(Sent(Top))) /\ UNCHANGED pending
      BY <1>2 DEF ForwardBroadcast, Sent
    <2> QED BY <1>0, <1>1, <2>1, TellsStep
  <1>4. \A l \in Lazies : l # u
    BY <1>0, <1>1
  <1>5. ASSUME NEW l \in Lazies, u \in Sources(l)
        PROVE  \E v \in Sources(l) : Follows(registry, v, s)
    <2>0. /\ l \in Sources(l)
          /\ u \in Engines => l \in Instruments /\ engine[l] = u
          /\ u \in Handles => l \in Instruments /\ engine[l] \in Sources(l) \cap Engines
                               /\ EngineHandle[engine[l]] = u
      BY <1>5, SourcesAre DEF Ground, GraphTypeOK
    <2>1. CASE u \in Engines
      <3>1. Follows(registry, l, s)
        BY <2>0, <2>1 DEF Ground, SubscriptionInv, SubscribedToWhatIsRead, Follows
      <3> QED BY <2>0, <3>1
    <2>2. CASE u \in Handles
      <3>1. Follows(registry, engine[l], s)
        BY <2>0, <2>2 DEF Ground, Wired
      <3> QED BY <2>0, <2>2, <3>1
    <2> QED BY <1>0, <1>1, <2>1, <2>2
  <1> HIDE DEF u, s
  <1>6. ASSUME NEW l \in Lazies, NEW v \in Sources(l), Told(v, l)
        PROVE  \E w \in Sources(l) : w \in pending' \/ Waits(stack', w, l)
    BY <1>3, <1>4, <1>5, <1>6 DEF TellsOn
  <1> QED BY <1>3, <1>4, <1>6 DEF TellsOn, Passes

(* An update that has told returns.                                        *)
LEMMA ReturnPasses ==
  ASSUME Ground, Return \/ LazyReturns
  PROVE  Passes
  <1>1. /\ stack # <<>> /\ Top.op = "update" /\ stack' = Below /\ UNCHANGED pending
        /\ Top.who \in Clients \/ Top.sent
    BY DEF Return, LazyReturns, TopIs
  <1>2. \A v \in Observers \ Clients : ~Carries(Top, v)
    BY <1>1 DEF Carries, Unsent
  <1> QED BY <1>1, <1>2, TopCall, ReturnsOn

-----------------------------------------------------------------------------
(* What the methods of a lazy object do to the flags that count here.        *)
LEMMA Deferring ==
  ASSUME NEW z \in Lazy, z.alwaysForward
  PROVE  /\ Tells(z) <=> ~z.updating /\ ~z.frozen
         /\ DeferredUpdate(z) \in Lazy /\ DeferredUpdate(z).alwaysForward
         /\ DeferredUpdate(z).frozen = z.frozen
         /\ DeferredUpdate(z).updating <=> z.updating \/ Tells(z)
         /\ ~z.updating => ~DeferredUpdate(z).calculated
         /\ z.updating => DeferredUpdate(z).calculated = z.calculated
  <1>1. Invalidates(z) <=> ~z.updating
    BY DEF Invalidates
  <1>2. Tells(z) <=> ~z.updating /\ ~z.frozen
    BY <1>1 DEF Tells
  <1>3. CASE z.updating
    BY <1>1, <1>2, <1>3 DEF DeferredUpdate
  <1>4. CASE ~z.updating
    <2>1. DeferredUpdate(z) = [z EXCEPT !.calculated = FALSE, !.failed = FALSE, !.updating = Tells(z)]
      BY <1>1, <1>4 DEF DeferredUpdate
    <2>2. Tells(z) \in BOOLEAN
      BY DEF Tells, Invalidates
    <2>3. DeferredUpdate(z).updating = Tells(z)
      BY <2>1 DEF Lazy
    <2> QED BY <1>2, <1>4, <2>1, <2>2, <2>3 DEF Lazy
  <1> QED BY <1>3, <1>4

\* z' differs from z in "calculated" and "failed" only.
SameLoop(y, z) ==
    /\ y \in Lazy /\ y.frozen = z.frozen
    /\ y.updating = z.updating /\ y.alwaysForward = z.alwaysForward

(* Every method keeps the flags it does not name.                          *)
LEMMA Methods ==
  ASSUME NEW z \in Lazy
  PROVE  /\ SameLoop(InvalidateSilently(z), z) /\ ~InvalidateSilently(z).calculated
         /\ SameLoop(FinishOk(StartCalculation(z)), z)
         /\ SameLoop(FinishErr(StartCalculation(z)), z) /\ ~FinishErr(StartCalculation(z)).calculated
         /\ SameLoop(MarkCalculated(z), z)
         /\ /\ EndUpdate(z) \in Lazy /\ ~EndUpdate(z).updating
            /\ EndUpdate(z).calculated = z.calculated /\ EndUpdate(z).frozen = z.frozen
            /\ EndUpdate(z).alwaysForward = z.alwaysForward
         /\ /\ Freeze(z) \in Lazy /\ Freeze(z).frozen
            /\ Freeze(z).calculated = z.calculated /\ Freeze(z).updating = z.updating
            /\ Freeze(z).alwaysForward = z.alwaysForward
         /\ /\ Unfreeze(z) \in Lazy /\ Unfreeze(z).calculated = z.calculated
            /\ Unfreeze(z).updating = z.updating /\ Unfreeze(z).alwaysForward = z.alwaysForward
         /\ /\ StartRecalculation(z) \in Lazy
            /\ ~StartRecalculation(z).calculated /\ ~StartRecalculation(z).frozen
            /\ StartRecalculation(z).updating = z.updating
            /\ StartRecalculation(z).alwaysForward = z.alwaysForward
         /\ \A b \in BOOLEAN :
              /\ FinishRecalculation(z, b) \in Lazy
              /\ FinishRecalculation(z, b).frozen = b
              /\ FinishRecalculation(z, b).calculated = z.calculated
              /\ FinishRecalculation(z, b).updating = z.updating
              /\ FinishRecalculation(z, b).alwaysForward = z.alwaysForward
  <1>1. SameLoop(InvalidateSilently(z), z) /\ ~InvalidateSilently(z).calculated
    BY DEF InvalidateSilently, SameLoop, Lazy
  <1>2. SameLoop(FinishOk(StartCalculation(z)), z)
    BY DEF FinishOk, StartCalculation, SameLoop, Lazy
  <1>3. SameLoop(FinishErr(StartCalculation(z)), z) /\ ~FinishErr(StartCalculation(z)).calculated
    BY DEF FinishErr, StartCalculation, SameLoop, Lazy
  <1>4. SameLoop(MarkCalculated(z), z)
    BY DEF MarkCalculated, SameLoop, Lazy
  <1>5. /\ EndUpdate(z) \in Lazy /\ ~EndUpdate(z).updating
        /\ EndUpdate(z).calculated = z.calculated /\ EndUpdate(z).frozen = z.frozen
        /\ EndUpdate(z).alwaysForward = z.alwaysForward
    BY DEF EndUpdate, Lazy
  <1>6. /\ Freeze(z) \in Lazy /\ Freeze(z).frozen
        /\ Freeze(z).calculated = z.calculated /\ Freeze(z).updating = z.updating
        /\ Freeze(z).alwaysForward = z.alwaysForward
    BY DEF Freeze, Lazy
  <1>7. /\ Unfreeze(z) \in Lazy /\ Unfreeze(z).calculated = z.calculated
        /\ Unfreeze(z).updating = z.updating /\ Unfreeze(z).alwaysForward = z.alwaysForward
    BY DEF Unfreeze, Lazy
  <1>8. /\ StartRecalculation(z) \in Lazy
        /\ ~StartRecalculation(z).calculated /\ ~StartRecalculation(z).frozen
        /\ StartRecalculation(z).updating = z.updating
        /\ StartRecalculation(z).alwaysForward = z.alwaysForward
    BY DEF StartRecalculation, Lazy
  <1>9. ASSUME NEW b \in BOOLEAN
        PROVE  /\ FinishRecalculation(z, b) \in Lazy
               /\ FinishRecalculation(z, b).frozen = b
               /\ FinishRecalculation(z, b).calculated = z.calculated
               /\ FinishRecalculation(z, b).updating = z.updating
               /\ FinishRecalculation(z, b).alwaysForward = z.alwaysForward
    BY DEF FinishRecalculation, Lazy
  <1> QED BY <1>1, <1>2, <1>3, <1>4, <1>5, <1>6, <1>7, <1>8, <1>9

-----------------------------------------------------------------------------
(* What is not touched keeps its guard, as loops are kept.                   *)
LEMMA GuardKept ==
  ASSUME NEW l \in Lazies, GuardOf(l), KeepsLoops(stack, stack'),
         stack \in Seq(Frame), guard[l] <= Len(stack) => guard[l] <= Len(stack'),
         guard[l] \in Nat, guard'[l] = guard[l], lazy'[l].updating = lazy[l].updating,
         Exclusive(l) => Exclusive(l)'
  PROVE  GuardOf(l)'
  <1>1. CASE guard[l] = 0
    BY <1>1 DEF GuardOf
  <1>2. CASE guard[l] # 0
    <2>1. /\ LoopAt(stack, guard[l])
          /\ LoopOfUpdate(stack, guard[l], l) \/ Exclusive(l)
      BY <1>2 DEF GuardOf
    <2>2. guard[l] <= Len(stack)
      BY <2>1, LenProperties DEF LoopAt
    <2>3. LoopAt(stack', guard[l]) /\ (LoopOfUpdate(stack, guard[l], l) => LoopOfUpdate(stack', guard[l], l))
      BY <2>1, <2>2 DEF KeepsLoops
    <2> QED BY <1>2, <2>1, <2>3 DEF GuardOf
  <1> QED BY <1>1, <1>2

(* An instrument held by a call is held by the loop of that call.          *)
LEMMA InUseKept ==
  ASSUME NEW i \in Instruments, inUse[i] # 0 => LoopAt(stack, inUse[i]), KeepsLoops(stack, stack'),
         stack \in Seq(Frame), inUse[i] <= Len(stack) => inUse[i] <= Len(stack'),
         inUse[i] \in Nat, inUse'[i] = inUse[i]
  PROVE  inUse'[i] # 0 => LoopAt(stack', inUse'[i])
  <1> SUFFICES ASSUME inUse[i] # 0 PROVE LoopAt(stack', inUse[i])
    OBVIOUS
  <1>1. inUse[i] <= Len(stack)
    BY LenProperties DEF LoopAt
  <1> QED BY <1>1 DEF KeepsLoops

-----------------------------------------------------------------------------
(* Types and wiring.                                                         *)
LEMMA Kept ==
  ASSUME Wired, UNCHANGED registry
  PROVE  Wired'
  BY DEF Wired, Follows

(* A subscription that moves between curves, or between engines, leaves    *)
(* the wiring of everything else.                                          *)
LEMMA MovedWired ==
  ASSUME Ground, NEW o \in Handles \cup Instruments,
         NEW from \in SUBSET ({Own[c] : c \in Curves} \cup {Target[e] : e \in Engines}),
         NEW to \in SUBSET ({Own[c] : c \in Curves} \cup {Target[e] : e \in Engines}),
         registry' = Resubscribed(o, from, to)
  PROVE  Wired' /\ Moved(registry', o, from, to)
  <1>0. /\ Forwarders = Handles \cup Engines /\ Handles \cap Engines = {}
        /\ Curves \cap Instruments = {} /\ Lazies = Curves \cup Instruments
        /\ Lazies \subseteq Observers \ (Clients \cup Forwarders)
        /\ Forwarders \subseteq Observers \ Clients
        /\ Quotes \subseteq Subjects
        /\ CurveInputs \in [Curves -> SUBSET Quotes]
        /\ EngineInputs \in [Engines -> SUBSET Quotes]
        /\ DirectInputs \in [Instruments -> SUBSET Quotes]
        /\ EngineHandle \in [Engines -> Handles]
        /\ Own \in [Lazies -> Subjects]
    BY ConstantsAssumption, LazyGraphConstants, GraphConstants, GraphObjects
  <1>1. o \in Observers
    BY <1>0
  <1>2. \A f \in Forwarders : Target[f] \in Subjects /\ Target[f] \notin Quotes
    BY GraphObjects
  <1>3. from \in SUBSET Subjects /\ to \in SUBSET Subjects
    BY <1>0, <1>2
  <1>4. \A q \in Quotes : q \notin from /\ q \notin to
    BY <1>0, <1>2, GraphObjects
  <1>5. AllAlive /\ Wired
    BY DEF Ground, SubscriptionInv, GraphShape
  <1>6. Moved(registry', o, from, to)
    BY <1>1, <1>3, <1>5, Moves
  <1>7. ASSUME NEW s \in Subjects PROVE Honest(registry'[s])
    <2>1. Honest(registry[s]) /\ registry[s] \in SUBSET Entry
      BY <1>5 DEF Wired, AllAlive
    <2>2. NewEntry(o).defer \/ NewEntry(o).observer \in Discarding
      BY DEF NewEntry
    <2> DEFINE kept == IF s \in from THEN {x \in Pruned(registry[s]) : x.observer # o}
                                     ELSE registry[s]
    <2>3. kept \subseteq registry[s]
      BY DEF Pruned
    <2>4. Pruned(kept) \subseteq kept
      BY DEF Pruned
    <2>5. registry'[s] = IF s \in to THEN Pruned(kept) \cup {NewEntry(o)} ELSE kept
      BY DEF Resubscribed
    <2>6. \A x \in registry'[s] : x \in registry[s] \/ x = NewEntry(o)
      BY <2>3, <2>4, <2>5
    <2> QED BY <2>1, <2>2, <2>6 DEF Honest
  <1>8. ASSUME NEW i \in Instruments, NEW x \in registry'[Own[i]] PROVE x.observer \in Clients
    <2>1. Own[i] \in Subjects /\ Own[i] \notin to
      BY <1>0, GraphObjects
    <2>2. Follows(registry', x.observer, Own[i])
      BY <1>8 DEF Follows
    <2>3. Follows(registry, x.observer, Own[i])
      BY <1>6, <2>1, <2>2 DEF Moved
    <2> QED BY <1>5, <2>3 DEF Wired, Follows
  <1>9. ASSUME NEW p, NEW q \in Quotes, Follows(registry, p, q) PROVE Follows(registry', p, q)
    BY <1>0, <1>4, <1>6, <1>9 DEF Moved
  <1>10. ASSUME NEW e \in Engines PROVE Follows(registry', e, Target[EngineHandle[e]])
    <2>1. e # o /\ Target[EngineHandle[e]] \in Subjects
      BY <1>0, <1>2
    <2>2. Follows(registry, e, Target[EngineHandle[e]])
      BY <1>5 DEF Wired
    <2> QED BY <1>6, <2>1, <2>2 DEF Moved
  <1>11. /\ \A c \in Curves : \A q \in CurveInputs[c] : Follows(registry', c, q)
         /\ \A e \in Engines : \A q \in EngineInputs[e] : Follows(registry', e, q)
         /\ \A i \in Instruments : \A q \in DirectInputs[i] : Follows(registry', i, q)
    BY <1>0, <1>5, <1>9 DEF Wired
  <1> QED BY <1>6, <1>7, <1>8, <1>10, <1>11 DEF Wired

-----------------------------------------------------------------------------
(* The types of the graph, and what is rigid in a step of the library.       *)
LibraryFrame ==
    /\ inUse' = [i \in Instruments |-> IF inUse[i] > Len(stack') THEN 0 ELSE inUse[i]]
    /\ UNCHANGED <<points, engine, expired, fresh, habit>>

\* A step that releases the guards of what has returned.
Releases ==
    /\ ReleaseBelow(Len(stack'))
    /\ UNCHANGED answer

(* What has returned gives its guard back.                                 *)
LEMMA ReleaseTypes ==
  ASSUME GraphTypeOK, TypeOK', Releases, LibraryFrame
  PROVE  /\ GraphTypeOK'
         /\ Flags => Flags'
         /\ \A l \in Lazies :
              /\ lazy'[l].calculated = lazy[l].calculated /\ lazy'[l].frozen = lazy[l].frozen
              /\ guard'[l] = IF guard[l] > Len(stack') THEN 0 ELSE guard[l]
              /\ guard[l] > Len(stack') => ~lazy'[l].updating
              /\ ~(guard[l] > Len(stack')) => lazy'[l].updating = lazy[l].updating
              /\ guard[l] \in Nat
         /\ \A i \in Instruments :
              /\ inUse'[i] = IF inUse[i] > Len(stack') THEN 0 ELSE inUse[i]
              /\ inUse[i] \in Nat
  <1>0. /\ lazy \in [Lazies -> Lazy] /\ guard \in [Lazies -> Nat] /\ inUse \in [Instruments -> Nat]
        /\ answer \in [Lazies -> Answers]
    BY DEF GraphTypeOK
  <1>1. /\ lazy' = [l \in Lazies |-> IF guard[l] > Len(stack') THEN EndUpdate(lazy[l]) ELSE lazy[l]]
        /\ guard' = [l \in Lazies |-> IF guard[l] > Len(stack') THEN 0 ELSE guard[l]]
        /\ UNCHANGED <<answer, points, engine, expired, fresh, habit>>
        /\ inUse' = [i \in Instruments |-> IF inUse[i] > Len(stack') THEN 0 ELSE inUse[i]]
    BY DEF Releases, ReleaseBelow, LibraryFrame
  <1>2. ASSUME NEW l \in Lazies
        PROVE  /\ lazy'[l] \in Lazy /\ lazy'[l].alwaysForward = lazy[l].alwaysForward
               /\ lazy'[l].calculated = lazy[l].calculated /\ lazy'[l].frozen = lazy[l].frozen
               /\ guard'[l] = IF guard[l] > Len(stack') THEN 0 ELSE guard[l]
               /\ guard[l] > Len(stack') => ~lazy'[l].updating
               /\ ~(guard[l] > Len(stack')) => lazy'[l].updating = lazy[l].updating
               /\ guard[l] \in Nat
    <2>1. /\ EndUpdate(lazy[l]) \in Lazy /\ ~EndUpdate(lazy[l]).updating
          /\ EndUpdate(lazy[l]).calculated = lazy[l].calculated
          /\ EndUpdate(lazy[l]).frozen = lazy[l].frozen
          /\ EndUpdate(lazy[l]).alwaysForward = lazy[l].alwaysForward
      BY <1>0, Methods
    <2>2. lazy'[l] = IF guard[l] > Len(stack') THEN EndUpdate(lazy[l]) ELSE lazy[l]
      BY <1>1
    <2>3. CASE guard[l] > Len(stack')
      BY <1>0, <1>1, <2>1, <2>2, <2>3
    <2>4. CASE ~(guard[l] > Len(stack'))
      BY <1>0, <1>1, <2>2, <2>4
    <2> QED BY <2>3, <2>4
  <1>3. lazy' \in [Lazies -> Lazy]
    <2>1. lazy' = [l \in Lazies |-> lazy'[l]]
      BY <1>1
    <2> QED BY <1>2, <2>1
  <1>4. guard' \in [Lazies -> Nat] /\ inUse' \in [Instruments -> Nat]
    BY <1>0, <1>1
  <1>5. GraphTypeOK'
    BY <1>0, <1>1, <1>3, <1>4 DEF GraphTypeOK
  <1>6. Flags => Flags'
    BY <1>2 DEF Flags
  <1>7. \A i \in Instruments :
          /\ inUse'[i] = IF inUse[i] > Len(stack') THEN 0 ELSE inUse[i]
          /\ inUse[i] \in Nat
    BY <1>0, <1>1
  <1> QED BY <1>2, <1>5, <1>6, <1>7

(* The engine's steps and the returns keep the invariant.                    *)
LEMMA PassingKeeps ==
  ASSUME CacheInv, Passes, stack' \in Seq(Frame), TypeOK', Releases, LibraryFrame
  PROVE  Flow' /\ Flags' /\ GraphTypeOK' /\ Guards' /\ Modes' /\ NewsComes'
  <1>0. /\ Ground /\ Guards /\ Modes /\ NewsComes /\ GraphTypeOK /\ Flags
        /\ stack \in Seq(Frame)
    BY DEF CacheInv, Ground, EngineInv, TypeOK
  <1>1. /\ GraphTypeOK'
        /\ Flags'
        /\ \A l \in Lazies :
              /\ lazy'[l].calculated = lazy[l].calculated /\ lazy'[l].frozen = lazy[l].frozen
              /\ guard'[l] = IF guard[l] > Len(stack') THEN 0 ELSE guard[l]
              /\ guard[l] > Len(stack') => ~lazy'[l].updating
              /\ ~(guard[l] > Len(stack')) => lazy'[l].updating = lazy[l].updating
              /\ guard[l] \in Nat
        /\ \A i \in Instruments :
              /\ inUse'[i] = IF inUse[i] > Len(stack') THEN 0 ELSE inUse[i]
              /\ inUse[i] \in Nat
    BY <1>0, ReleaseTypes
  <1>2. /\ KeepsLoops(stack, stack') /\ Flow'
        /\ Quiet(stack) => Quiet(stack')
        /\ \A l \in Lazies : SentUpdates(stack', l) => SentUpdates(stack, l)
        /\ \A l \in Lazies : \A v \in Sources(l) :
             Told(v, l) => \E u \in Sources(l) : u \in pending' \/ Waits(stack', u, l)
    BY DEF Passes
  <1>3. UNCHANGED <<answer, fresh, habit, engine, points>> /\ Len(stack') \in Nat
    BY LenProperties DEF Releases, LibraryFrame
  <1>4. ASSUME NEW l \in Lazies PROVE GuardOf(l)'
    <2>1. CASE guard[l] > Len(stack')
      <3>1. guard'[l] = 0 /\ ~lazy'[l].updating
        BY <1>1, <2>1
      <3> QED BY <3>1 DEF GuardOf
    <2>2. CASE ~(guard[l] > Len(stack'))
      <3>1. GuardOf(l)
        BY <1>0 DEF Guards
      <3>2. /\ guard'[l] = guard[l] /\ lazy'[l].updating = lazy[l].updating
            /\ guard[l] \in Nat /\ guard[l] <= Len(stack')
        BY <1>1, <1>3, <2>2
      <3>3. ASSUME Exclusive(l) PROVE Exclusive(l)'
        <4>1. /\ l \in Instruments /\ inUse[l] = guard[l]
              /\ ~lazy[l].calculated /\ answer[l] = "none"
          BY <3>3 DEF Exclusive
        <4>2. inUse'[l] = guard'[l] /\ ~lazy'[l].calculated /\ answer'[l] = "none"
          BY <1>1, <1>3, <2>2, <3>2, <4>1
        <4> QED BY <4>1, <4>2 DEF Exclusive
      <3> QED BY <1>0, <1>2, <3>1, <3>2, <3>3, GuardKept
    <2> QED BY <2>1, <2>2
  <1>5. ASSUME NEW i \in Instruments PROVE inUse'[i] # 0 => LoopAt(stack', inUse'[i])
    <2>1. CASE inUse[i] > Len(stack')
      BY <1>1, <2>1
    <2>2. CASE ~(inUse[i] > Len(stack'))
      <3>1. /\ inUse[i] # 0 => LoopAt(stack, inUse[i])
            /\ inUse'[i] = inUse[i] /\ inUse[i] \in Nat /\ inUse[i] <= Len(stack')
        BY <1>0, <1>1, <1>3, <2>2 DEF Guards
      <3> QED BY <1>0, <1>2, <3>1, InUseKept
    <2> QED BY <2>1, <2>2
  <1>6. Guards'
    BY <1>4, <1>5 DEF Guards
  <1>7. Modes'
    <2>1. \A l \in Lazies : Modest(l) => Modest(l)'
      BY <1>1, <1>3 DEF Modest
    <2> QED BY <1>0, <1>2, <1>3, <2>1 DEF Modes
  <1>8. NewsComes'
    <2> SUFFICES ASSUME NEW l \in Lazies, Outdated(l)' PROVE Hears(l)'
      BY DEF NewsComes
    <2>1. Outdated(l)
      BY <1>1, <1>3 DEF Outdated
    <2>2. Hears(l)
      BY <1>0, <2>1 DEF NewsComes
    <2>3. Sources(l)' = Sources(l)
      BY <1>3 DEF Sources, CurveOf
    <2> QED BY <1>2, <2>2, <2>3 DEF Hears, Told
  <1> QED BY <1>1, <1>2, <1>6, <1>7, <1>8

(* A lazy object that returns holds no loop: nothing is released.            *)
LEMMA ReturnReleases ==
  ASSUME CacheInv, LazyReturns
  PROVE  Releases
  <1>0. Ground /\ Guards /\ GraphTypeOK
    BY DEF CacheInv, Ground
  <1>1. /\ stack # <<>> /\ Top.op = "update" /\ stack' = Below
        /\ UNCHANGED <<lazy, guard, answer>>
    BY DEF LazyReturns, TopIs, lazyVars
  <1>2. stack \in Seq(Frame) /\ Len(stack') = Len(stack) - 1 /\ Len(stack) \in Nat
    BY <1>0, <1>1, TopAndBelow DEF Ground, EngineInv, TypeOK
  <1>3. ASSUME NEW l \in Lazies PROVE ~(guard[l] > Len(stack'))
    <2>1. GuardOf(l) /\ guard[l] \in Nat
      BY <1>0 DEF Guards, GraphTypeOK
    <2>2. CASE guard[l] = 0
      BY <1>2, <2>2, EmptySeq, <1>1
    <2>3. CASE guard[l] # 0
      <3>1. LoopAt(stack, guard[l])
        BY <2>1, <2>3 DEF GuardOf
      <3>2. guard[l] \in 1..Len(stack)
        BY <1>2, <3>1, LenProperties DEF LoopAt
      <3>3. guard[l] # Len(stack)
        BY <1>1, <3>1 DEF LoopAt, Loop, Top
      <3> QED BY <1>2, <3>2, <3>3
    <2> QED BY <2>2, <2>3
  <1>4. lazy \in [Lazies -> Lazy] /\ guard \in [Lazies -> Nat]
    BY <1>0 DEF GraphTypeOK
  <1>5. /\ lazy' = [l \in Lazies |-> IF guard[l] > Len(stack') THEN EndUpdate(lazy[l]) ELSE lazy[l]]
        /\ guard' = [l \in Lazies |-> IF guard[l] > Len(stack') THEN 0 ELSE guard[l]]
    BY <1>1, <1>3, <1>4
  <1> QED BY <1>1, <1>5 DEF Releases, ReleaseBelow

(* No step of the engine loses news.                                       *)
LEMMA EnginePasses ==
  ASSUME Ground, Engine \/ LazyReturns
  PROVE  Passes
  <1>1. CASE RoundUpdate \/ RoundDefer \/ RoundDiscard \/ RoundEnd
    BY <1>1, RoundPasses
  <1>2. CASE DrainTake \/ DrainUpdate \/ DrainSkip \/ DrainStall \/ DrainEnd
    BY <1>2, DrainPasses
  <1>3. CASE ForwardBroadcast \/ ForwardDeliver
    BY <1>3, ForwardPasses
  <1>4. CASE Return \/ LazyReturns
    BY <1>4, ReturnPasses
  <1> QED BY <1>1, <1>2, <1>3, <1>4 DEF Engine

(* Hence they keep the invariant: they calculate nothing.                  *)
LEMMA EngineSteps ==
  ASSUME CacheInv, EngineStep \/ LazyReturns, LibraryFrame, UNCHANGED registry,
         SubscriptionInv'
  PROVE  CacheInv'
  <1>0. Ground /\ EngineInv /\ Wired
    BY DEF CacheInv, Ground
  <1>1. Passes
    BY <1>0, EnginePasses DEF EngineStep
  <1>2. Releases
    BY ReturnReleases DEF EngineStep, Releases
  <1>3. EngineInv'
    <2>1. CASE EngineStep
      <3>1. Engine /\ [Next]_vars
        BY <2>1 DEF EngineStep, Next
      <3>2. held' = held
        BY <3>1 DEF Engine, RoundUpdate, RoundDefer, RoundDiscard, RoundEnd, DrainTake, DrainUpdate,
           DrainSkip, DrainStall, DrainEnd, ForwardBroadcast, ForwardDeliver, Return
      <3> QED BY <1>0, <3>1, <3>2, EngineSafe
    <2>2. CASE LazyReturns
      BY <1>0, <2>2, LazySafe
    <2> QED BY <2>1, <2>2
  <1>4. stack' \in Seq(Frame) /\ TypeOK'
    BY <1>3 DEF EngineInv, TypeOK
  <1>5. Flow' /\ Flags' /\ GraphTypeOK' /\ Guards' /\ Modes' /\ NewsComes'
    BY <1>1, <1>2, <1>4, PassingKeeps
  <1>6. Wired'
    BY <1>0, Kept
  <1> QED BY <1>3, <1>5, <1>6 DEF CacheInv, Ground

-----------------------------------------------------------------------------
\* The update of u says it has told, and tells nobody.
Hushed(u) ==
    /\ KeepsLoops(stack, stack')
    /\ Flow'
    /\ Quiet(stack) => Quiet(stack')
    /\ \A l \in Lazies : SentUpdates(stack', l) => SentUpdates(stack, l) \/ l = u
    /\ \A v, l : Told(v, l) => v \in pending' \/ Waits(stack', v, l) \/ v = u

(* It is on top, so the calls below are what they were.                    *)
LEMMA HushedStep ==
  ASSUME Ground, stack # <<>>, Top.op = "update",
         stack' = ReplaceTop(Sent(Top)), UNCHANGED pending
  PROVE  Hushed(Top.who) /\ Len(stack') = Len(stack)
  <1> DEFINE u == Top.who
             g == Sent(Top)
  <1>0. /\ stack \in Seq(Frame) /\ Below \in Seq(Frame) /\ Top \in Frame
        /\ CallFacts(stack, Below, Top)
        /\ HonestFrame(Top) /\ AllSent(Below) /\ AllHonest(Below)
    BY TopCall
  <1>1. /\ g \in Frame /\ HonestFrame(g) /\ ~Loop(g) /\ ~Loop(Top)
        /\ ~Unsent(g) /\ \A v : ~Carries(g, v)
        /\ \A v : Carries(Top, v) <=> Unsent(Top) /\ u = v
        /\ ClientFrame(Top) <=> ClientFrame(g)
        /\ \A l : /\ UpdateOf(g, l) <=> u = l
                  /\ UpdateOf(Top, l) <=> u = l
                  /\ SentUpdateOf(g, l) <=> u = l
    BY <1>0, SentFrames
  <1> HIDE DEF g, u
  <1>2. /\ stack' \in Seq(Frame) /\ CallFacts(stack', Below, g) /\ stack' # <<>>
        /\ Len(stack') = Len(Below) + 1
    <2>1. /\ Append(Below, g) \in Seq(Frame) /\ CallFacts(Append(Below, g), Below, g)
          /\ Append(Below, g) # <<>> /\ Len(Append(Below, g)) = Len(Below) + 1
      BY <1>0, <1>1, PushProperties, Calls, AppendProperties
    <2>2. stack' = Append(Below, g)
      BY DEF ReplaceTop, g
    <2> QED BY <2>1, <2>2
  <1>3. KeepsLoops(stack, stack')
    <2>1. stack' = ReplaceTop(g)
      BY DEF g
    <2> QED BY <1>0, <1>1, <2>1, TopKeepsLoops
  <1>4. Flow'
    <2>1. AllHonest(stack') /\ SentBelowTop(stack')
      BY <1>0, <1>1, <1>2 DEF CallFacts
    <2> QED BY <1>2, <2>1 DEF Flow
  <1>5. Quiet(stack) => Quiet(stack')
    BY <1>0, <1>1, <1>2 DEF CallFacts
  <1>6. \A l \in Lazies : SentUpdates(stack', l) => SentUpdates(stack, l) \/ l = u
    BY <1>0, <1>1, <1>2 DEF CallFacts
  <1>7. \A v, l : Told(v, l) => v \in pending' \/ Waits(stack', v, l) \/ v = u
    BY <1>0, <1>1, <1>2 DEF CallFacts, Told
  <1>8. Len(stack') = Len(stack)
    BY <1>0, <1>2, TopAndBelow
  <1> QED BY <1>3, <1>4, <1>5, <1>6, <1>7, <1>8 DEF Hushed, u

\* The lazy object u changes its flags, and nothing else of the graph moves.
OnlyTouches(u) ==
    /\ lazy' \in [Lazies -> Lazy] /\ guard' \in [Lazies -> Nat] /\ answer' \in [Lazies -> Answers]
    /\ \A l \in Lazies \ {u} : lazy'[l] = lazy[l] /\ guard'[l] = guard[l] /\ answer'[l] = answer[l]
    /\ UNCHANGED <<points, engine, expired, inUse, fresh, habit>>

(* The others are as outdated, and as exclusive, as they were.             *)
LEMMA OthersOutdated ==
  ASSUME NEW u, OnlyTouches(u), NEW l \in Lazies \ {u}
  PROVE  /\ Outdated(l)' <=> Outdated(l)
         /\ Modest(l)' <=> Modest(l)
         /\ Exclusive(l)' <=> Exclusive(l)
         /\ Sources(l)' = Sources(l)
         /\ lazy'[l].updating = lazy[l].updating
  <1>1. /\ lazy'[l] = lazy[l] /\ guard'[l] = guard[l] /\ answer'[l] = answer[l]
        /\ UNCHANGED <<points, engine, inUse, fresh>>
    BY DEF OnlyTouches
  <1> QED BY <1>1 DEF Outdated, Modest, Exclusive, Sources, CurveOf

\* What is known of the one that hears.
Hearer(u) ==
    /\ CacheInv /\ Ground /\ Guards /\ Modes /\ NewsComes /\ GraphTypeOK /\ Flags /\ Wired
    /\ stack # <<>> /\ Top.op = "update" /\ Top.who = u /\ ~Top.sent /\ u \in Lazies \ Clients
    /\ stack \in Seq(Frame) /\ Len(stack) \in Nat
    /\ lazy \in [Lazies -> Lazy] /\ lazy[u] \in Lazy /\ lazy[u].alwaysForward
    /\ guard \in [Lazies -> Nat] /\ answer \in [Lazies -> Answers]
    /\ inUse \in [Instruments -> Nat]
    /\ points \in [Handles -> Curves \cup {NoCurve}]
    /\ engine \in [Instruments -> Engines \cup {NoEngine}]

(* The one that hears is on top of the calls, and no call holds its guard  *)
(* if it was calculated.                                                   *)
LEMMA Hearers ==
  ASSUME CacheInv, LazyHears
  PROVE  Hearer(Top.who)
  <1>1. Ground /\ Guards /\ Modes /\ NewsComes /\ GraphTypeOK /\ Flags /\ Wired /\ stack \in Seq(Frame)
    BY DEF CacheInv, Ground, EngineInv, TypeOK
  <1>2. stack # <<>> /\ Top.op = "update" /\ ~Top.sent /\ Top.who \in Lazies \ Clients
    BY LazyGraphConstants DEF LazyHears, TopIs
  <1>3. lazy[Top.who] \in Lazy /\ lazy[Top.who].alwaysForward
    BY <1>1, <1>2 DEF GraphTypeOK, Flags
  <1> QED BY <1>1, <1>2, <1>3, LenProperties DEF Hearer, GraphTypeOK

(* A lazy object that was told first tells its own observers.                *)
LEMMA HearingTells ==
  ASSUME NEW u, Hearer(u), LazyHears, LibraryFrame, Tells(lazy[u])
  PROVE  Flow' /\ Flags' /\ (TypeOK' => GraphTypeOK') /\ Guards' /\ Modes' /\ NewsComes'
  <1>1. /\ lazy' = [lazy EXCEPT ![u] = DeferredUpdate(@)]
        /\ StartRound(registry, Own[u], ReplaceTop(Sent(Top)))
        /\ guard' = [guard EXCEPT ![u] = Len(stack')]
        /\ answer' = [answer EXCEPT ![u] = "none"]
        /\ UNCHANGED pending
    BY DEF Hearer, LazyHears, Sent
  <1>2. /\ TellsOn(u, Own[u])
    <2>1. Own[u] \in Subjects
      BY LazyGraphConstants DEF Hearer
    <2>2. u \in Instruments => \A x \in registry[Own[u]] : x.observer \in Clients
      BY DEF Hearer, Wired
    <2>3. /\ Ground /\ stack # <<>> /\ Top.op = "update" /\ Top.who = u /\ u \notin Clients
      BY DEF Hearer
    <2> QED BY <1>1, <2>1, <2>2, <2>3, TellsStep
  <1>3. /\ stack' # <<>> /\ Len(stack') = Len(stack) + 1 /\ Len(stack) \in Nat
    <2>1. PICK f : stack' = Append(ReplaceTop(Sent(Top)), f) /\ f \in Frame
      <3>1. NotifyFrame(Pruned(registry[Own[u]])) \in Frame
        <4>1. registry[Own[u]] \in SUBSET Entry
          BY LazyGraphConstants DEF Hearer, Ground, EngineInv, TypeOK
        <4> QED BY <4>1, FrameTypes DEF Pruned, NotifyFrame
      <3> QED BY <1>1, <3>1 DEF StartRound
    <2>2. /\ Below \in Seq(Frame) /\ Sent(Top) \in Frame /\ Len(stack) = Len(Below) + 1
          /\ Len(Below) \in Nat
      BY TopAndBelow, SentFrames DEF Hearer
    <2>3. /\ ReplaceTop(Sent(Top)) \in Seq(Frame) /\ Len(ReplaceTop(Sent(Top))) = Len(stack)
      BY <2>2, PushProperties DEF ReplaceTop
    <2> QED BY <2>1, <2>2, <2>3, PushProperties, AppendProperties
  <1>4. /\ DeferredUpdate(lazy[u]) \in Lazy /\ DeferredUpdate(lazy[u]).alwaysForward
        /\ DeferredUpdate(lazy[u]).frozen = lazy[u].frozen
        /\ DeferredUpdate(lazy[u]).updating
        /\ ~DeferredUpdate(lazy[u]).calculated
    BY Deferring DEF Hearer
  <1>5. OnlyTouches(u) /\ lazy'[u] = DeferredUpdate(lazy[u]) /\ guard'[u] = Len(stack') /\ answer'[u] = "none"
    <2>1. \A i \in Instruments : ~(inUse[i] > Len(stack'))
      <3> SUFFICES ASSUME NEW i \in Instruments, inUse[i] > Len(stack') PROVE FALSE
        OBVIOUS
      <3>1. inUse[i] # 0 => LoopAt(stack, inUse[i])
        BY DEF Hearer, Guards
      <3>2. inUse[i] \in Nat /\ inUse[i] # 0
        BY <1>3 DEF Hearer
      <3>3. inUse[i] <= Len(stack)
        BY <3>1, <3>2, LenProperties DEF LoopAt, Hearer
      <3> QED BY <1>3, <3>2, <3>3
    <2>2. inUse' = inUse
      BY <2>1 DEF LibraryFrame, Hearer
    <2>3. /\ lazy' \in [Lazies -> Lazy] /\ lazy'[u] = DeferredUpdate(lazy[u])
          /\ \A l \in Lazies \ {u} : lazy'[l] = lazy[l]
      BY <1>1, <1>4 DEF Hearer
    <2>4. /\ guard' \in [Lazies -> Nat] /\ guard'[u] = Len(stack')
          /\ \A l \in Lazies \ {u} : guard'[l] = guard[l]
      BY <1>1, <1>3 DEF Hearer
    <2>5. /\ answer' \in [Lazies -> Answers] /\ answer'[u] = "none"
          /\ \A l \in Lazies \ {u} : answer'[l] = answer[l]
      BY <1>1 DEF Hearer, Answers
    <2> QED BY <2>2, <2>3, <2>4, <2>5 DEF OnlyTouches, LibraryFrame
  <1>6. TypeOK' => GraphTypeOK'
    BY <1>5 DEF OnlyTouches, GraphTypeOK, Hearer
  <1>7. Flags'
    <2>1. ASSUME NEW l \in Lazies PROVE lazy'[l].alwaysForward /\ lazy'[l].frozen = lazy[l].frozen
      <3>1. CASE l = u
        BY <1>4, <1>5, <3>1
      <3>2. CASE l # u
        <4>1. lazy'[l] = lazy[l] /\ lazy[l].alwaysForward
          BY <1>5, <3>2 DEF OnlyTouches, Flags, Hearer
        <4> QED BY <4>1
      <3> QED BY <3>1, <3>2
    <2> QED BY <2>1 DEF Flags, Hearer
  <1>8. Guards'
    <2>1. ASSUME NEW l \in Lazies \ {u} PROVE GuardOf(l)'
      <3>1. /\ GuardOf(l) /\ guard[l] \in Nat /\ guard'[l] = guard[l]
            /\ guard[l] <= Len(stack) => guard[l] <= Len(stack')
        BY <1>3, <1>5 DEF Hearer, Guards, OnlyTouches
      <3>2. lazy'[l].updating = lazy[l].updating /\ (Exclusive(l) => Exclusive(l)')
        BY <1>5, OthersOutdated
      <3>3. KeepsLoops(stack, stack') /\ stack \in Seq(Frame)
        BY <1>2 DEF TellsOn, Hearer
      <3> QED BY <3>1, <3>2, <3>3, GuardKept
    <2>2. GuardOf(u)'
      <3>1. LoopAt(stack', Len(stack')) /\ LoopOfUpdate(stack', Len(stack'), u)
        BY <1>2 DEF TellsOn
      <3>2. guard'[u] = Len(stack') /\ lazy'[u].updating /\ guard'[u] # 0
        BY <1>3, <1>4, <1>5
      <3> QED BY <3>1, <3>2 DEF GuardOf
    <2>3. ASSUME NEW i \in Instruments PROVE inUse'[i] # 0 => LoopAt(stack', inUse'[i])
      <3>1. /\ inUse[i] # 0 => LoopAt(stack, inUse[i])
            /\ inUse'[i] = inUse[i] /\ inUse[i] \in Nat
            /\ inUse[i] <= Len(stack) => inUse[i] <= Len(stack')
        BY <1>3, <1>5 DEF Hearer, Guards, OnlyTouches
      <3>2. KeepsLoops(stack, stack') /\ stack \in Seq(Frame)
        BY <1>2 DEF TellsOn, Hearer
      <3> QED BY <3>1, <3>2, InUseKept
    <2> QED BY <2>1, <2>2, <2>3 DEF Guards
  <1>9. Modes'
    <2>1. Modest(u)'
      BY <1>4, <1>5 DEF Modest
    <2>2. \A l \in Lazies \ {u} : Modest(l) => Modest(l)'
      BY <1>5, OthersOutdated
    <2>3. /\ Quiet(stack) => Quiet(stack')
          /\ \A l \in Lazies : SentUpdates(stack', l) => SentUpdates(stack, l) \/ l = u
      BY <1>2 DEF TellsOn
    <2>4. habit' = habit
      BY DEF LibraryFrame
    <2> QED BY <2>1, <2>2, <2>3, <2>4 DEF Modes, Hearer
  <1>10. NewsComes'
    <2> SUFFICES ASSUME NEW l \in Lazies, Outdated(l)' PROVE Hears(l)'
      BY DEF NewsComes
    <2>1. l # u
      BY <1>4, <1>5 DEF Outdated
    <2>2. Outdated(l) /\ Sources(l)' = Sources(l)
      BY <1>5, <2>1, OthersOutdated
    <2>3. PICK v \in Sources(l) : Told(v, l)
      BY <2>2 DEF NewsComes, Hears, Hearer
    <2>4. CASE v \in pending' \/ Waits(stack', v, l)
      BY <2>2, <2>4 DEF Hears, Told
    <2>5. CASE ~(v \in pending' \/ Waits(stack', v, l))
      <3>1. v = u /\ \A w : Follows(registry, w, Own[u]) => Waits(stack', w, l)
        BY <1>2, <2>1, <2>3, <2>5 DEF TellsOn
      <3>2. u \in Curves /\ EngineHandle[engine[l]] \in Sources(l)
            /\ points[EngineHandle[engine[l]]] = u /\ EngineHandle[engine[l]] \in Handles
        <4>1. u \notin Instruments
          BY <2>1, <2>3, <3>1, SourcesAre DEF Hearer
        <4>2. u \in Curves
          BY <4>1, GraphConstants DEF Hearer
        <4>3. EngineHandle[engine[l]] \in Sources(l) /\ engine[l] \in Engines
              /\ points[EngineHandle[engine[l]]] = u
          BY <2>1, <2>3, <3>1, <4>2, SourcesAre DEF Hearer
        <4> QED BY <4>2, <4>3, GraphConstants
      <3>3. Follows(registry, EngineHandle[engine[l]], Own[u])
        BY <3>2 DEF Hearer, Ground, SubscriptionInv, SubscribedToWhatIsRead, Follows
      <3>4. Waits(stack', EngineHandle[engine[l]], l)
        BY <3>1, <3>3
      <3> QED BY <2>2, <3>2, <3>4 DEF Hears, Told
    <2> QED BY <2>4, <2>5
  <1>11. Flow'
    BY <1>2 DEF TellsOn
  <1> QED BY <1>6, <1>7, <1>8, <1>9, <1>10, <1>11

(* One that is frozen, or telling already, tells nobody: it is an instrument,*)
(* and left invalid.                                                         *)
LEMMA HearingHushed ==
  ASSUME NEW u, Hearer(u), LazyHears, LibraryFrame, ~Tells(lazy[u])
  PROVE  Flow' /\ Flags' /\ (TypeOK' => GraphTypeOK') /\ Guards' /\ Modes' /\ NewsComes'
  <1>1. /\ lazy' = [lazy EXCEPT ![u] = DeferredUpdate(@)]
        /\ stack' = ReplaceTop(Sent(Top))
        /\ UNCHANGED <<guard, answer, pending>>
    BY DEF Hearer, LazyHears, Sent
  <1>2. Hushed(u) /\ Len(stack') = Len(stack)
    BY <1>1, HushedStep DEF Hearer
  <1>3. /\ lazy[u].updating \/ lazy[u].frozen
        /\ DeferredUpdate(lazy[u]) \in Lazy /\ DeferredUpdate(lazy[u]).alwaysForward
        /\ DeferredUpdate(lazy[u]).frozen = lazy[u].frozen
        /\ DeferredUpdate(lazy[u]).updating = lazy[u].updating
        /\ ~lazy[u].updating => ~DeferredUpdate(lazy[u]).calculated
        /\ lazy[u].updating => DeferredUpdate(lazy[u]).calculated = lazy[u].calculated
    <2>1. DeferredUpdate(lazy[u]) \in Lazy
      BY Deferring DEF Hearer
    <2> QED BY <2>1, Deferring DEF Hearer, Lazy
  <1>4. OnlyTouches(u) /\ lazy'[u] = DeferredUpdate(lazy[u]) /\ UNCHANGED <<guard, answer>>
    <2>1. \A i \in Instruments : ~(inUse[i] > Len(stack'))
      <3> SUFFICES ASSUME NEW i \in Instruments, inUse[i] > Len(stack') PROVE FALSE
        OBVIOUS
      <3>1. inUse[i] # 0 => LoopAt(stack, inUse[i])
        BY DEF Hearer, Guards
      <3>2. inUse[i] \in Nat /\ inUse[i] # 0
        BY <1>2 DEF Hearer
      <3>3. inUse[i] <= Len(stack)
        BY <3>1, <3>2, LenProperties DEF LoopAt, Hearer
      <3> QED BY <1>2, <3>2, <3>3 DEF Hearer
    <2>2. inUse' = inUse
      BY <2>1 DEF LibraryFrame, Hearer
    <2>3. /\ lazy' \in [Lazies -> Lazy] /\ lazy'[u] = DeferredUpdate(lazy[u])
          /\ \A l \in Lazies \ {u} : lazy'[l] = lazy[l]
      BY <1>1, <1>3 DEF Hearer
    <2> QED BY <1>1, <2>2, <2>3 DEF OnlyTouches, LibraryFrame, Hearer
  <1>5. u \in Instruments /\ Modest(u)' /\ ~Outdated(u)'
    <2>1. CASE lazy[u].updating
      <3>1. guard[u] # 0
        BY <2>1 DEF Hearer, Guards, GuardOf
      <3>2. ~LoopOfUpdate(stack, guard[u], u)
        <4> SUFFICES ASSUME LoopOfUpdate(stack, guard[u], u) PROVE FALSE
          OBVIOUS
        <4>1. /\ Ground /\ ~Updates(Below, u) /\ CallFacts(stack, Below, Top)
              /\ LoopFacts(stack, Below, Top) /\ ~Loop(Top)
          <5>1. Ground /\ stack # <<>> /\ Top.op = "update" /\ Top.who = u /\ stack \in Seq(Frame)
            BY DEF Hearer
          <5> QED BY <5>1, TopCall, TopAndBelow DEF Loop
        <4>2. LoopOfUpdate(Below, guard[u], u)
          BY <4>1 DEF LoopFacts
        <4>3. Updates(Below, u)
          BY <4>2 DEF LoopOfUpdate, Updates, SentUpdateOf
        <4> QED BY <4>1, <4>3
      <3>3. Exclusive(u)
        BY <3>1, <3>2 DEF Hearer, Guards, GuardOf
      <3>4. u \in Instruments /\ ~lazy'[u].calculated /\ answer'[u] = "none"
        BY <1>3, <1>4, <2>1, <3>3 DEF Exclusive
      <3> QED BY <3>4 DEF Modest, Outdated
    <2>2. CASE ~lazy[u].updating
      <3>1. lazy[u].frozen /\ ~lazy'[u].calculated /\ lazy'[u].frozen
        BY <1>3, <1>4, <2>2
      <3>2. u \in Instruments
        BY <3>1, GraphConstants DEF Hearer, Flags
      <3>3. answer'[u] \in Answers
        BY <1>4 DEF OnlyTouches, Hearer
      <3> QED BY <3>1, <3>2 DEF Modest, Outdated
    <2> QED BY <2>1, <2>2
  <1>6. TypeOK' => GraphTypeOK'
    BY <1>4 DEF OnlyTouches, GraphTypeOK, Hearer
  <1>7. Flags'
    <2>1. \A l \in Lazies : lazy'[l].alwaysForward /\ lazy'[l].frozen = lazy[l].frozen
      BY <1>3, <1>4 DEF OnlyTouches, Flags, Hearer
    <2> QED BY <2>1 DEF Flags, Hearer
  <1>8. KeepsLoops(stack, stack') /\ stack \in Seq(Frame)
    BY <1>2 DEF Hushed, Hearer
  <1>9. Guards'
    <2>1. ASSUME NEW l \in Lazies PROVE GuardOf(l)'
      <3>1. /\ GuardOf(l) /\ guard[l] \in Nat /\ guard'[l] = guard[l]
            /\ guard[l] <= Len(stack) => guard[l] <= Len(stack')
        BY <1>2, <1>4 DEF Hearer, Guards
      <3>2. lazy'[l].updating = lazy[l].updating
        BY <1>3, <1>4, OthersOutdated
      <3>3. Exclusive(l) => Exclusive(l)'
        <4>1. CASE l # u
          BY <1>4, <4>1, OthersOutdated
        <4>2. CASE l = u
          <5> SUFFICES ASSUME Exclusive(u) PROVE Exclusive(u)'
            BY <4>2
          <5>1. /\ u \in Instruments /\ inUse[u] = guard[u] /\ ~lazy[u].calculated /\ answer[u] = "none"
            BY DEF Exclusive
          <5>2. ~lazy'[u].calculated
            BY <1>3, <1>4, <5>1
          <5> QED BY <1>4, <5>1, <5>2 DEF Exclusive, OnlyTouches
        <4> QED BY <4>1, <4>2
      <3> QED BY <1>8, <3>1, <3>2, <3>3, GuardKept
    <2>2. ASSUME NEW i \in Instruments PROVE inUse'[i] # 0 => LoopAt(stack', inUse'[i])
      <3>1. /\ inUse[i] # 0 => LoopAt(stack, inUse[i])
            /\ inUse'[i] = inUse[i] /\ inUse[i] \in Nat
            /\ inUse[i] <= Len(stack) => inUse[i] <= Len(stack')
        BY <1>2, <1>4 DEF Hearer, Guards, OnlyTouches
      <3> QED BY <1>8, <3>1, InUseKept
    <2> QED BY <2>1, <2>2 DEF Guards
  <1>10. Modes'
    <2>1. \A l \in Lazies \ {u} : Modest(l) => Modest(l)'
      BY <1>4, OthersOutdated
    <2>2. /\ Quiet(stack) => Quiet(stack')
          /\ \A l \in Lazies : SentUpdates(stack', l) => SentUpdates(stack, l) \/ l = u
      BY <1>2 DEF Hushed
    <2>3. habit' = habit
      BY DEF LibraryFrame
    <2> QED BY <1>5, <2>1, <2>2, <2>3 DEF Modes, Hearer
  <1>11. NewsComes'
    <2> SUFFICES ASSUME NEW l \in Lazies, Outdated(l)' PROVE Hears(l)'
      BY DEF NewsComes
    <2>1. l # u
      BY <1>5
    <2>2. Outdated(l) /\ Sources(l)' = Sources(l)
      BY <1>4, <2>1, OthersOutdated
    <2>3. PICK v \in Sources(l) : Told(v, l)
      BY <2>2 DEF NewsComes, Hears, Hearer
    <2>4. v # u
      BY <1>5, <2>1, <2>3, SourcesAre DEF Hearer
    <2>5. v \in pending' \/ Waits(stack', v, l)
      BY <1>2, <2>3, <2>4 DEF Hushed
    <2> QED BY <2>2, <2>3, <2>5 DEF Hears, Told
  <1>12. Flow'
    BY <1>2 DEF Hushed
  <1> QED BY <1>6, <1>7, <1>9, <1>10, <1>11, <1>12

(* A lazy object that hears becomes invalid, and whoever reads it hears of *)
(* it.                                                                     *)
LEMMA HearingSteps ==
  ASSUME CacheInv, LazyHears, LibraryFrame, UNCHANGED registry, SubscriptionInv'
  PROVE  CacheInv'
  <1>0. Ground /\ EngineInv /\ Wired /\ Hearer(Top.who)
    BY Hearers DEF CacheInv, Ground
  <1>1. EngineInv'
    BY <1>0, LazySafe
  <1>2. TypeOK'
    BY <1>1 DEF EngineInv
  <1>3. Flow' /\ Flags' /\ (TypeOK' => GraphTypeOK') /\ Guards' /\ Modes' /\ NewsComes'
    BY <1>0, HearingTells, HearingHushed
  <1>4. Wired'
    BY <1>0, Kept
  <1> QED BY <1>1, <1>2, <1>3, <1>4 DEF CacheInv, Ground

(* All the steps the library takes on its own.                             *)
LEMMA LibrarySteps ==
  ASSUME CacheInv, LibraryStep, UNCHANGED habit
  PROVE  CacheInv'
  <1>1. NoSubscriptionMoves /\ SubscriptionInv
    BY LibraryStays DEF CacheInv, Ground
  <1>2. SubscriptionInv' /\ UNCHANGED registry
    BY <1>1, StayingKeeps DEF NoSubscriptionMoves
  <1>3. LibraryFrame
    BY DEF LibraryStep, LibraryFrame
  <1> QED BY <1>2, <1>3, EngineSteps, HearingSteps DEF LibraryStep

-----------------------------------------------------------------------------
(* Client code.  What a call that it makes keeps of the stack and of the     *)
(* news, and what a call that sends a round tells.                           *)
Keeps ==
    /\ KeepsLoops(stack, stack') /\ Len(stack) <= Len(stack')
    /\ Flow'
    /\ \A l : SentUpdates(stack', l) <=> SentUpdates(stack, l)
    /\ \A v, l : Told(v, l) => v \in pending' \/ Waits(stack', v, l)

Rings(reg, s) ==
    /\ Keeps
    /\ LoopAt(stack', Len(stack')) /\ Len(stack') = Len(stack) + 1
    /\ Quiet(stack) /\ (stack = <<>> \/ \A x \in reg[s] : x.observer \in Clients) => Quiet(stack')
    /\ \A l \in Lazies : \A v : Follows(reg, v, s) /\ ~SentUpdates(stack, l) => Waits(stack', v, l)

(* A call that sends nothing keeps all of it.                              *)
LEMMA SilentKeeps ==
  ASSUME Ground, UNCHANGED <<stack, pending>>
  PROVE  Keeps
  <1>1. Flow /\ stack \in Seq(Frame) /\ Len(stack) \in Nat
    BY LenProperties DEF Ground, EngineInv, TypeOK
  <1> QED BY <1>1 DEF Keeps, KeepsLoops, Flow, Told

(* Where client code runs, every other update has told.                      *)
LEMMA ClientsAllSent ==
  ASSUME Ground, ClientRuns
  PROVE  AllSent(stack)
  <1>1. CASE stack = <<>>
    BY <1>1, NoCalls
  <1>2. CASE stack # <<>>
    <2>1. Top.op = "update" /\ Top.who \in Clients
      BY <1>2 DEF ClientRuns, TopIs
    <2>2. AllSent(Below) /\ CallFacts(stack, Below, Top)
      BY <1>2, TopCall
    <2> QED BY <2>1, <2>2 DEF CallFacts, Unsent
  <1> QED BY <1>1, <1>2

(* A call that sends a round carries the news to all who observe its       *)
(* subject.                                                                *)
LEMMA ClientTells ==
  ASSUME Ground, ClientRuns, NEW reg \in [Subjects -> SUBSET Entry], NEW s \in Subjects,
         Honest(reg[s]), StartRound(reg, s, stack), UNCHANGED pending
  PROVE  Rings(reg, s)
  <1>0. /\ AllAlive /\ stack \in Seq(Frame) /\ Len(stack) \in Nat /\ Flow
        /\ AllSent(stack)
    BY ClientsAllSent, LenProperties DEF Ground, EngineInv, TypeOK, SubscriptionInv, GraphShape
  <1>1. PICK f \in Frame :
           /\ stack' = Append(stack, f)
           /\ Loop(f) /\ ~Unsent(f)
           /\ HonestFrame(f) <=> Honest(reg[s])
           /\ ClientFrame(f) <=> \A x \in reg[s] : x.observer \in Clients
           /\ \A v : Carries(f, v) <=> Follows(reg, v, s)
           /\ \A l : ~UpdateOf(f, l) /\ ~SentUpdateOf(f, l)
    BY <1>0, RoundTells
  <1>2. /\ CallFacts(stack', stack, f) /\ LoopFacts(stack', stack, f)
        /\ Len(stack') = Len(stack) + 1 /\ stack' # <<>>
    <2>1. /\ CallFacts(Append(stack, f), stack, f) /\ LoopFacts(Append(stack, f), stack, f)
          /\ Len(Append(stack, f)) = Len(stack) + 1 /\ Append(stack, f) # <<>>
      BY <1>0, Calls, Loops, PushProperties, AppendProperties
    <2> QED BY <1>1, <2>1
  <1>3. Keeps
    <2>1. KeepsLoops(stack, stack')
      BY <1>0, <1>1, PushKeepsLoops
    <2>2. AllHonest(stack') /\ SentBelowTop(stack')
      BY <1>0, <1>1, <1>2 DEF CallFacts, Flow
    <2>3. Flow'
      BY <1>2, <2>2 DEF Flow
    <2>4. \A l : SentUpdates(stack', l) <=> SentUpdates(stack, l)
      BY <1>1, <1>2 DEF CallFacts
    <2>5. \A v, l : Told(v, l) => v \in pending' \/ Waits(stack', v, l)
      BY <1>2 DEF CallFacts, Told
    <2> QED BY <1>0, <1>2, <2>1, <2>3, <2>4, <2>5 DEF Keeps
  <1>4. LoopAt(stack', Len(stack'))
    BY <1>1, <1>2 DEF LoopFacts
  <1>5. Quiet(stack) /\ (stack = <<>> \/ \A x \in reg[s] : x.observer \in Clients) => Quiet(stack')
    BY <1>1, <1>2, NoCalls DEF CallFacts
  <1>6. ASSUME NEW l \in Lazies, NEW v, Follows(reg, v, s), ~SentUpdates(stack, l)
        PROVE  Waits(stack', v, l)
    <2>1. l \notin Clients
      BY LazyGraphConstants
    <2>2. ~Updates(stack, l)
      BY <1>0, <1>6, <2>1 DEF Updates, SentUpdates, UpdateOf, SentUpdateOf, AllSent, Unsent
    <2> QED BY <1>1, <1>2, <1>6, <2>2 DEF CallFacts
  <1> QED BY <1>2, <1>3, <1>4, <1>5, <1>6 DEF Rings

-----------------------------------------------------------------------------
(* What the invariant asks of a step of client code.                         *)
LEMMA ClientGuards ==
  ASSUME CacheInv, Keeps,
         \A l \in Lazies :
           \/ GuardOf(l)'
           \/ /\ guard'[l] = guard[l] /\ lazy'[l].updating = lazy[l].updating
              /\ \/ l \in Instruments /\ inUse[l] = 0
                 \/ Exclusive(l) => Exclusive(l)',
         \A i \in Instruments : inUse'[i] = inUse[i] \/ LoopAt(stack', inUse'[i])
  PROVE  Guards'
  <1>0. /\ Guards /\ KeepsLoops(stack, stack') /\ Len(stack) <= Len(stack')
        /\ stack \in Seq(Frame) /\ Len(stack) \in Nat
        /\ guard \in [Lazies -> Nat] /\ inUse \in [Instruments -> Nat]
    BY LenProperties DEF CacheInv, Ground, EngineInv, TypeOK, Keeps, GraphTypeOK
  <1>1. ASSUME NEW g \in Nat, LoopAt(stack, g)
        PROVE  LoopAt(stack', g) /\ \A l : LoopOfUpdate(stack, g, l) => LoopOfUpdate(stack', g, l)
    <2>1. g \in 1..Len(stack)
      BY <1>0, <1>1, LenProperties DEF LoopAt
    <2>2. g <= Len(stack')
      BY <1>0, <2>1
    <2> QED BY <1>0, <1>1, <2>2 DEF KeepsLoops
  <1>2. ASSUME NEW l \in Lazies PROVE GuardOf(l)'
    <2> SUFFICES ASSUME /\ guard'[l] = guard[l] /\ lazy'[l].updating = lazy[l].updating
                        /\ \/ l \in Instruments /\ inUse[l] = 0
                           \/ Exclusive(l) => Exclusive(l)'
                 PROVE  GuardOf(l)'
      OBVIOUS
    <2>1. GuardOf(l) /\ guard[l] \in Nat
      BY <1>0 DEF Guards
    <2>2. CASE guard[l] = 0
      BY <2>1, <2>2 DEF GuardOf
    <2>3. CASE guard[l] # 0
      <3>1. LoopAt(stack, guard[l]) /\ (LoopOfUpdate(stack, guard[l], l) \/ Exclusive(l))
        BY <2>1, <2>3 DEF GuardOf
      <3>2. LoopOfUpdate(stack, guard[l], l) \/ Exclusive(l)'
        BY <2>3, <3>1 DEF Exclusive
      <3>3. /\ LoopAt(stack', guard[l])
            /\ LoopOfUpdate(stack, guard[l], l) => LoopOfUpdate(stack', guard[l], l)
        BY <1>1, <2>1, <3>1
      <3> QED BY <2>1, <2>3, <3>2, <3>3 DEF GuardOf
    <2> QED BY <2>2, <2>3
  <1>3. ASSUME NEW i \in Instruments, inUse'[i] # 0 PROVE LoopAt(stack', inUse'[i])
    <2>1. CASE inUse'[i] = inUse[i]
      BY <1>0, <1>1, <1>3, <2>1 DEF Guards
    <2> QED BY <1>3, <2>1
  <1> QED BY <1>2, <1>3 DEF Guards

(* It is enough that what is outdated after the call could hear before it, *)
(* or will hear by the round it sends.                                     *)
LEMMA ClientNews ==
  ASSUME CacheInv, Keeps,
         \A l \in Lazies : Outdated(l)' =>
            \/ Hears(l) /\ Sources(l)' = Sources(l)
            \/ \E v \in Sources(l)' : Waits(stack', v, l)
  PROVE  NewsComes'
  <1> SUFFICES ASSUME NEW l \in Lazies, Outdated(l)' PROVE Hears(l)'
    BY DEF NewsComes
  <1>1. CASE Hears(l) /\ Sources(l)' = Sources(l)
    <2>1. PICK v \in Sources(l) : Told(v, l)
      BY <1>1 DEF Hears
    <2>2. v \in pending' \/ Waits(stack', v, l)
      BY <2>1 DEF Keeps
    <2> QED BY <1>1, <2>2 DEF Hears, Told
  <1>2. CASE \E v \in Sources(l)' : Waits(stack', v, l)
    BY <1>2 DEF Hears, Told
  <1> QED BY <1>1, <1>2

(* Where clients that change do not read, and clients that read do not       *)
(* change.                                                                   *)
LEMMA Apart ==
  ASSUME CacheInv, ReadsApart, NEW op, MayCall(op)
  PROVE  /\ ClientRuns
         /\ op \in Changes =>
              /\ \A l \in Lazies : SentUpdates(stack, l) => Modest(l)
              /\ habit \cap Changes = {} => stack = <<>>
         /\ op \in Reads =>
              /\ Quiet(stack)
              /\ habit \cap Reads = {} => \A l : ~SentUpdates(stack, l)
  <1>1. /\ ClientRuns /\ (stack = <<>> \/ op \in habit)
        /\ habit \cap Reads = {} \/ habit \cap Changes = {}
        /\ Modes
    BY DEF MayCall, ReadsApart, CacheInv, Ground, GraphTypeOK
  <1>2. CASE stack = <<>>
    BY <1>1, <1>2, NoCalls
  <1>3. CASE stack # <<>>
    <2>1. op \in habit
      BY <1>1, <1>3
    <2>2. op \in Changes => habit \cap Changes # {} /\ habit \cap Reads = {}
      BY <1>1, <2>1
    <2>3. op \in Reads => habit \cap Reads # {} /\ habit \cap Changes = {}
      BY <1>1, <2>1
    <2> QED BY <1>1, <2>2, <2>3 DEF Modes
  <1> QED BY <1>2, <1>3

(* The modes after a call that changes, and after one that reads.            *)
LEMMA ChangeModes ==
  ASSUME CacheInv, ReadsApart, NEW op \in Changes, MayCall(op), Keeps, UNCHANGED habit,
         stack = <<>> => Quiet(stack'),
         \A l \in Lazies : Modest(l) => Modest(l)'
  PROVE  Modes'
  BY Apart, Zenon DEF Modes, Keeps

(* Where clients read they do not change, so a read tells nobody but       *)
(* clients.                                                                *)
LEMMA ReadModes ==
  ASSUME CacheInv, ReadsApart, NEW op \in Reads, MayCall(op), Keeps, UNCHANGED habit,
         Quiet(stack) => Quiet(stack')
  PROVE  Modes'
  BY Apart, Zenon DEF Modes, Keeps

-----------------------------------------------------------------------------
(* The inputs of the lazy objects in set changed.                            *)
LEMMA StaleFacts ==
  ASSUME GraphTypeOK, NEW set, Stale(set)
  PROVE  /\ fresh' \in [Lazies -> BOOLEAN] /\ answer' \in [Lazies -> Answers]
         /\ \A l \in Lazies :
              /\ l \notin set => fresh'[l] = fresh[l] /\ answer'[l] = answer[l]
              /\ answer[l] = "none" => answer'[l] = "none"
  BY DEF GraphTypeOK, Stale, Answers

\* A change of the inputs of set that leaves the flags alone.
Ages(set) ==
    /\ Stale(set)
    /\ UNCHANGED <<lazy, engine, guard, inUse, habit>>

(* Whoever reads what changed observes, directly or not, the subject that  *)
(* tells of it.                                                            *)
LEMMA AgingSteps ==
  ASSUME CacheInv, ReadsApart, NEW op \in Changes, MayCall(op), NEW set, Ages(set),
         NEW reg, NEW s, Rings(reg, s),
         \A l \in Lazies \ set : Sources(l)' = Sources(l),
         \A l \in set \cap Lazies : \E v \in Sources(l)' : Follows(reg, v, s)
  PROVE  Flags' /\ Flow' /\ Guards' /\ Modes' /\ NewsComes'
  <1>0. Keeps /\ GraphTypeOK /\ Flags /\ NewsComes
    BY DEF Rings, CacheInv, Ground
  <1>1. /\ \A l \in Lazies :
             /\ l \notin set => fresh'[l] = fresh[l] /\ answer'[l] = answer[l]
             /\ answer[l] = "none" => answer'[l] = "none"
        /\ UNCHANGED <<lazy, engine, guard, inUse, habit>>
    BY <1>0, StaleFacts DEF Ages
  <1>2. Flags' /\ Flow'
    BY <1>0, <1>1 DEF Flags, Keeps
  <1>3. Guards'
    <2>1. \A l \in Lazies : Exclusive(l) => Exclusive(l)'
      BY <1>1 DEF Exclusive
    <2> QED BY <1>0, <1>1, <2>1, ClientGuards
  <1>4. \A l \in Lazies : Modest(l) => Modest(l)' /\ ~Outdated(l)'
    BY <1>1 DEF Modest, Outdated
  <1>5. Modes'
    <2>1. stack = <<>> => Quiet(stack')
      BY NoCalls DEF Rings
    <2> QED BY <1>0, <1>1, <1>4, <2>1, ChangeModes
  <1>6. NewsComes'
    <2>1. ASSUME NEW l \in Lazies, Outdated(l)'
          PROVE  \/ Hears(l) /\ Sources(l)' = Sources(l)
                 \/ \E v \in Sources(l)' : Waits(stack', v, l)
      <3>1. CASE l \in set
        <4>1. ~SentUpdates(stack, l)
          BY <1>4, <2>1, Apart
        <4> QED BY <3>1, <4>1 DEF Rings
      <3>2. CASE l \notin set
        <4>1. Outdated(l)
          BY <1>1, <2>1, <3>2 DEF Outdated
        <4>2. Hears(l)
          BY <1>0, <4>1 DEF NewsComes
        <4> QED BY <3>2, <4>2
      <3> QED BY <3>1, <3>2
    <2> QED BY <1>0, <2>1, ClientNews
  <1> QED BY <1>2, <1>3, <1>5, <1>6

(* A quote is set.                                                           *)
LEMMA QuoteSteps ==
  ASSUME CacheInv, ReadsApart, NEW q \in Quotes, SetQuote(q), UNCHANGED habit, SubscriptionInv'
  PROVE  CacheInv'
  <1>0. /\ Ground /\ GraphTypeOK /\ EngineInv /\ Wired /\ AllAlive
        /\ registry \in [Subjects -> SUBSET Entry] /\ Honest(registry[q]) /\ q \in Subjects
        /\ points \in [Handles -> Curves \cup {NoCurve}]
        /\ engine \in [Instruments -> Engines \cup {NoEngine}]
    <2>1. q \in Subjects
      BY GraphConstants
    <2> QED BY <2>1 DEF CacheInv, Ground, SubscriptionInv, GraphShape, AllAlive, Wired, GraphTypeOK
  <1>1. /\ MayCall("set") /\ ClientRuns /\ "set" \in Changes
        /\ StartRound(registry, q, stack)
        /\ UNCHANGED <<draining, pending, held, dropped, edits>>
        /\ notifies < MaxNotify /\ notifies' = notifies + 1
        /\ Ages(ReadersOf(q)) /\ UNCHANGED points
    BY DEF SetQuote, Notify, Ages, Changes
  <1>2. Rings(registry, q)
    BY <1>0, <1>1, ClientTells
  <1>3. EngineInv'
    <2>1. notifies' \in 0..MaxNotify /\ edits' \in 0..MaxEdits
      BY <1>0, <1>1, ConstantsAssumption DEF EngineInv, TypeOK
    <2> QED BY <1>0, <1>1, <2>1, RoundSafe
  <1>4. Wired'
    BY <1>0, <1>1, RoundKeeps, Kept
  <1>5. GraphTypeOK'
    <2>1. expired' \subseteq Instruments
      BY <1>0 DEF SetQuote, GraphTypeOK
    <2>2. fresh' \in [Lazies -> BOOLEAN] /\ answer' \in [Lazies -> Answers]
      BY <1>0, <1>1, StaleFacts DEF Ages
    <2> QED BY <1>0, <1>1, <1>3, <2>1, <2>2 DEF GraphTypeOK, Ages, EngineInv
  <1>6. \A l \in Lazies : Sources(l)' = Sources(l)
    BY <1>1 DEF Ages, Sources, CurveOf
  <1>7. ASSUME NEW l \in ReadersOf(q) \cap Lazies
        PROVE  \E v \in Sources(l)' : Follows(registry, v, q)
    <2>1. l \in Sources(l)
      BY DEF Sources
    <2>2. CASE l \in Curves /\ q \in CurveInputs[l]
      BY <1>0, <1>6, <2>1, <2>2 DEF Wired
    <2>3. CASE l \in Instruments /\ q \in QuotesOf(l)
      <3>1. CASE q \in DirectInputs[l]
        BY <1>0, <1>6, <2>1, <2>3, <3>1 DEF Wired
      <3>2. CASE engine[l] # NoEngine /\ q \in EngineInputs[engine[l]]
        <4>1. engine[l] \in Engines /\ engine[l] \in Sources(l)
          BY <1>0, <2>3, <3>2 DEF Sources
        <4> QED BY <1>0, <1>6, <3>2, <4>1 DEF Wired
      <3>3. CASE CurveOf(l) # NoCurve /\ q \in CurveInputs[CurveOf(l)]
        <4>1. CurveOf(l) \in Curves /\ engine[l] # NoEngine
          BY <1>0, <2>3, <3>3, GraphConstants DEF CurveOf
        <4>2. CurveOf(l) \in Sources(l)
          BY <2>3, <4>1 DEF Sources
        <4> QED BY <1>0, <1>6, <3>3, <4>1, <4>2 DEF Wired
      <3> QED BY <2>3, <3>1, <3>2, <3>3 DEF QuotesOf
    <2> QED BY <1>7, <2>2, <2>3 DEF ReadersOf
  <1>8. Flags' /\ Flow' /\ Guards' /\ Modes' /\ NewsComes'
    BY <1>1, <1>2, <1>6, <1>7, AgingSteps
  <1> QED BY <1>3, <1>4, <1>5, <1>8 DEF CacheInv, Ground

(* A handle is linked to another curve.                                      *)
LEMMA RelinkSteps ==
  ASSUME CacheInv, ReadsApart, NEW h \in Handles, NEW c \in Curves \cup {NoCurve}, Relink(h, c),
         UNCHANGED habit, SubscriptionInv'
  PROVE  CacheInv'
  <1> DEFINE from == CurveSubject(points[h])
             to == CurveSubject(c)
             reg == Resubscribed(h, from, to)
             s == Target[h]
             old == IF c = points[h] THEN {} ELSE PricedOff(h)
  <1>0. /\ Ground /\ GraphTypeOK /\ EngineInv /\ Wired /\ AllAlive
        /\ points \in [Handles -> Curves \cup {NoCurve}]
        /\ engine \in [Instruments -> Engines \cup {NoEngine}]
        /\ h \in Forwarders /\ h \in Observers /\ Target[h] \in Subjects
    <2>1. h \in Forwarders /\ h \in Observers /\ Target[h] \in Subjects
      BY ConstantsAssumption, GraphConstants, GraphObjects
    <2> QED BY <2>1 DEF CacheInv, Ground, SubscriptionInv, GraphShape, GraphTypeOK
  <1>1. /\ MayCall("relink") /\ ClientRuns /\ "relink" \in Changes
        /\ StartRound(reg, s, stack)
        /\ UNCHANGED <<draining, pending, held, dropped, notifies>>
        /\ edits < MaxEdits /\ edits' = edits + 1
        /\ Ages(old)
        /\ points' = [points EXCEPT ![h] = c]
        /\ UNCHANGED expired
    BY DEF Relink, Edit, Ages, Changes
  <1>2. from \in SUBSET {Own[d] : d \in Curves} /\ to \in SUBSET {Own[d] : d \in Curves}
    BY <1>0 DEF CurveSubject
  <1>3. from \in SUBSET Subjects /\ to \in SUBSET Subjects
    BY <1>2, Kinds
  <1> HIDE DEF from, to, old, s
  <1>4. Moved(reg, h, from, to)
    BY <1>0, <1>3, Moves
  <1>5. reg \in [Subjects -> SUBSET Entry]
    BY <1>4 DEF Moved
  <1> HIDE DEF reg
  <1>6. registry' = reg
    BY <1>0, <1>1, <1>5, RoundKeeps
  <1>7. Wired'
    <2>1. registry' = Resubscribed(h, from, to)
      BY <1>6 DEF reg
    <2> QED BY <1>0, <1>2, <2>1, MovedWired
  <1>8. Rings(reg, s)
    <2>1. s \in Subjects
      BY <1>0 DEF s
    <2>2. Honest(reg[s])
      BY <1>6, <1>7, <2>1 DEF Wired
    <2> QED BY <1>0, <1>1, <1>5, <2>1, <2>2, ClientTells
  <1>9. EngineInv'
    <2>1. notifies' \in 0..MaxNotify /\ edits' \in 0..MaxEdits
      BY <1>0, <1>1, ConstantsAssumption DEF EngineInv, TypeOK
    <2>2. s \in Subjects
      BY <1>0 DEF s
    <2> QED BY <1>0, <1>1, <1>5, <2>1, <2>2, RoundSafe
  <1>10. GraphTypeOK'
    <2>1. fresh' \in [Lazies -> BOOLEAN] /\ answer' \in [Lazies -> Answers]
      BY <1>0, <1>1, StaleFacts DEF Ages
    <2>2. points' \in [Handles -> Curves \cup {NoCurve}]
      BY <1>0, <1>1
    <2> QED BY <1>0, <1>1, <1>9, <2>1, <2>2 DEF GraphTypeOK, Ages, EngineInv
  <1>11. ASSUME NEW l \in Lazies \ old PROVE Sources(l)' = Sources(l)
    <2>1. engine' = engine
      BY <1>1 DEF Ages
    <2>2. CASE l \in Instruments /\ engine[l] # NoEngine
      <3>1. EngineHandle[engine[l]] \in Handles
        BY <1>0, <2>2, GraphConstants
      <3>2. CASE EngineHandle[engine[l]] # h
        <4>1. points'[EngineHandle[engine[l]]] = points[EngineHandle[engine[l]]]
          BY <1>0, <1>1, <3>1, <3>2
        <4> QED BY <2>1, <2>2, <4>1 DEF Sources, CurveOf
      <3>3. CASE EngineHandle[engine[l]] = h
        <4>1. c = points[h]
          BY <2>2, <3>3 DEF old, PricedOff
        <4>2. points' = points
          BY <1>0, <1>1, <4>1
        <4> QED BY <2>1, <4>2 DEF Sources, CurveOf
      <3> QED BY <3>2, <3>3
    <2>3. CASE ~(l \in Instruments /\ engine[l] # NoEngine)
      BY <2>1, <2>3 DEF Sources
    <2> QED BY <2>2, <2>3
  <1>12. ASSUME NEW l \in old \cap Lazies PROVE \E v \in Sources(l)' : Follows(reg, v, s)
    <2>1. l \in Instruments /\ engine[l] # NoEngine /\ EngineHandle[engine[l]] = h
      BY <1>12 DEF old, PricedOff
    <2>2. engine[l] \in Engines
      BY <1>0, <2>1
    <2>3. engine[l] \in Sources(l)'
      <3>1. engine' = engine
        BY <1>1 DEF Ages
      <3> QED BY <2>1, <3>1 DEF Sources
    <2>4. Follows(registry', engine[l], s)
      BY <1>7, <2>1, <2>2 DEF Wired, s
    <2> QED BY <1>6, <2>3, <2>4
  <1>13. Flags' /\ Flow' /\ Guards' /\ Modes' /\ NewsComes'
    BY <1>1, <1>8, <1>11, <1>12, AgingSteps
  <1> QED BY <1>7, <1>9, <1>10, <1>13 DEF CacheInv, Ground

-----------------------------------------------------------------------------
(* Calls on one instrument.  Nothing else moves: not the flags, guards and   *)
(* answers of the others, nor what they are priced from.                     *)
OnlyMoves(i) ==
    /\ lazy' \in [Lazies -> Lazy] /\ guard' \in [Lazies -> Nat]
    /\ answer' \in [Lazies -> Answers] /\ fresh' \in [Lazies -> BOOLEAN]
    /\ inUse' \in [Instruments -> Nat]
    /\ engine' \in [Instruments -> Engines \cup {NoEngine}]
    /\ \A l \in Lazies \ {i} :
         /\ lazy'[l] = lazy[l] /\ guard'[l] = guard[l]
         /\ answer'[l] = answer[l] /\ fresh'[l] = fresh[l]
    /\ \A j \in Instruments \ {i} : inUse'[j] = inUse[j] /\ engine'[j] = engine[j]
    /\ lazy'[i].alwaysForward
    /\ UNCHANGED <<points, expired, habit>>

\* What is known of an instrument that is called.
Called(i) ==
    /\ CacheInv /\ Ground /\ GraphTypeOK /\ EngineInv /\ Wired /\ AllAlive /\ Guards /\ Modes
    /\ NewsComes /\ Flags
    /\ i \in Instruments /\ i \in Lazies /\ i \notin Curves /\ Own[i] \in Subjects
    /\ lazy \in [Lazies -> Lazy] /\ lazy[i] \in Lazy /\ lazy[i].alwaysForward
    /\ guard \in [Lazies -> Nat] /\ answer \in [Lazies -> Answers] /\ fresh \in [Lazies -> BOOLEAN]
    /\ inUse \in [Instruments -> Nat] /\ inUse[i] = 0
    /\ points \in [Handles -> Curves \cup {NoCurve}]
    /\ engine \in [Instruments -> Engines \cup {NoEngine}]
    /\ Lazies = Curves \cup Instruments
    /\ stack \in Seq(Frame) /\ Len(stack) \in Nat
    /\ registry \in [Subjects -> SUBSET Entry]

(* An instrument that no call holds may be called.                         *)
LEMMA CallsOne ==
  ASSUME CacheInv, NEW i \in Instruments, inUse[i] = 0
  PROVE  Called(i)
  <1>1. /\ i \in Lazies /\ i \notin Curves /\ Own[i] \in Subjects /\ Lazies = Curves \cup Instruments
    BY LazyGraphConstants, GraphConstants, GraphObjects
  <1>2. /\ Ground /\ GraphTypeOK /\ EngineInv /\ Wired /\ AllAlive /\ Guards /\ Modes
        /\ NewsComes /\ Flags
    BY DEF CacheInv, Ground, SubscriptionInv, GraphShape
  <1>3. lazy \in [Lazies -> Lazy] /\ lazy[i] \in Lazy /\ lazy[i].alwaysForward
    BY <1>1, <1>2 DEF GraphTypeOK, Flags
  <1>4. stack \in Seq(Frame) /\ Len(stack) \in Nat /\ registry \in [Subjects -> SUBSET Entry]
    BY <1>2, LenProperties DEF EngineInv, TypeOK
  <1> QED BY <1>1, <1>2, <1>3, <1>4 DEF Called, GraphTypeOK

(* The instrument is left invalid, or as valid as it was.                    *)
LEMMA OneMoves ==
  ASSUME NEW i, Called(i), Keeps, OnlyMoves(i),
         GuardOf(i)' \/ (guard'[i] = guard[i] /\ lazy'[i].updating = lazy[i].updating),
         inUse'[i] = inUse[i] \/ LoopAt(stack', inUse'[i]),
         Outdated(i)' => Outdated(i) /\ engine'[i] = engine[i]
  PROVE  /\ Flags' /\ Flow' /\ Guards' /\ NewsComes'
         /\ TypeOK' => GraphTypeOK'
         /\ \A l \in Lazies \ {i} : Modest(l) => Modest(l)'
  <1>1. ASSUME NEW l \in Lazies \ {i}
        PROVE  /\ Outdated(l)' <=> Outdated(l)
               /\ Modest(l) => Modest(l)'
               /\ Exclusive(l) => Exclusive(l)'
               /\ Sources(l)' = Sources(l)
    <2>1. /\ lazy'[l] = lazy[l] /\ guard'[l] = guard[l] /\ answer'[l] = answer[l] /\ fresh'[l] = fresh[l]
          /\ points' = points
          /\ l \in Instruments => inUse'[l] = inUse[l] /\ engine'[l] = engine[l]
      BY DEF OnlyMoves
    <2> QED BY <2>1 DEF Outdated, Modest, Exclusive, Sources, CurveOf
  <1>2. Flags'
    <2>1. ASSUME NEW l \in Lazies
          PROVE  lazy'[l].alwaysForward /\ (l \in Curves => ~lazy'[l].frozen)
      <3>1. CASE l = i
        BY <3>1 DEF OnlyMoves, Called
      <3>2. CASE l # i
        <4>1. lazy'[l] = lazy[l] /\ lazy[l].alwaysForward /\ (l \in Curves => ~lazy[l].frozen)
          BY <3>2 DEF OnlyMoves, Called, Flags
        <4> QED BY <4>1
      <3> QED BY <3>1, <3>2
    <2> QED BY <2>1 DEF Flags
  <1>3. Guards'
    <2>1. ASSUME NEW l \in Lazies
          PROVE  \/ GuardOf(l)'
                 \/ /\ guard'[l] = guard[l] /\ lazy'[l].updating = lazy[l].updating
                    /\ \/ l \in Instruments /\ inUse[l] = 0
                       \/ Exclusive(l) => Exclusive(l)'
      <3>1. CASE l = i
        BY <3>1 DEF Called
      <3>2. CASE l # i
        BY <1>1, <3>2 DEF OnlyMoves
      <3> QED BY <3>1, <3>2
    <2>2. \A j \in Instruments : inUse'[j] = inUse[j] \/ LoopAt(stack', inUse'[j])
      BY DEF OnlyMoves
    <2> QED BY <2>1, <2>2, ClientGuards DEF Called
  <1>4. NewsComes'
    <2>1. ASSUME NEW l \in Lazies, Outdated(l)' PROVE Hears(l) /\ Sources(l)' = Sources(l)
      <3>1. Outdated(l) /\ Sources(l)' = Sources(l)
        <4>1. CASE l = i
          <5>1. Outdated(i) /\ engine'[i] = engine[i] /\ points' = points
            BY <2>1, <4>1 DEF OnlyMoves
          <5> QED BY <4>1, <5>1 DEF Sources, CurveOf
        <4>2. CASE l # i
          BY <1>1, <2>1, <4>2
        <4> QED BY <4>1, <4>2
      <3> QED BY <3>1 DEF NewsComes, Called
    <2> QED BY <2>1, ClientNews DEF Called
  <1>5. TypeOK' => GraphTypeOK'
    BY DEF OnlyMoves, GraphTypeOK, Called
  <1>6. Flow'
    BY DEF Keeps
  <1> QED BY <1>1, <1>2, <1>3, <1>4, <1>5, <1>6

(* The subscription of an instrument to its engine moves, and what it leads  *)
(* to.                                                                       *)
LEMMA EngineWires ==
  ASSUME NEW i, Called(i), NEW e \in Engines \cup {NoEngine},
         registry' = Resubscribed(i, EngineSubject(engine[i]), EngineSubject(e))
  PROVE  Wired' /\ registry' \in [Subjects -> SUBSET Entry]
  <1>1. /\ EngineSubject(engine[i]) \in SUBSET {Target[f] : f \in Engines}
        /\ EngineSubject(e) \in SUBSET {Target[f] : f \in Engines}
    BY DEF EngineSubject, Called
  <1> QED BY <1>1, MovedWired DEF Called, Moved

\* A call that installs an engine and tells nobody, under MayMutate, leaves the
\* instrument invalid.
LEMMA UntoldIsInvalid ==
  ASSUME NEW i, Called(i), ReadsApart, NEW op \in Changes, MayCall(op), lazy[i].updating
  PROVE  Modest(i)
  <1>1. GuardOf(i) /\ guard[i] # 0
    BY DEF Called, Guards, GuardOf
  <1>2. ~Exclusive(i)
    BY <1>1 DEF Exclusive, Called
  <1>3. LoopOfUpdate(stack, guard[i], i)
    BY <1>1, <1>2 DEF GuardOf
  <1>4. SentUpdates(stack, i)
    BY <1>3 DEF LoopOfUpdate, SentUpdates
  <1> QED BY <1>4, Apart DEF Called

(* An engine is installed, and the instrument tells its observers.           *)
LEMMA InstallTells ==
  ASSUME CacheInv, ReadsApart, NEW i \in Instruments, NEW e \in Engines \cup {NoEngine},
         SetPricingEngine(i, e), Tells(lazy[i]), UNCHANGED habit, SubscriptionInv'
  PROVE  CacheInv'
  <1> DEFINE reg == Resubscribed(i, EngineSubject(engine[i]), EngineSubject(e))
  <1>0. Called(i) /\ MayCall("engine") /\ "engine" \in Changes /\ ClientRuns
    BY CallsOne DEF SetPricingEngine, MayMutate, Changes, MayCall
  <1>1. /\ StartRound(reg, Own[i], stack)
        /\ guard' = [guard EXCEPT ![i] = Len(stack')]
        /\ inUse' = [inUse EXCEPT ![i] = Len(stack')]
        /\ lazy' = [lazy EXCEPT ![i] = DeferredUpdate(@)]
        /\ engine' = [engine EXCEPT ![i] = e]
        /\ fresh' = [fresh EXCEPT ![i] = e = engine[i] /\ @]
        /\ answer' = [answer EXCEPT ![i] = "none"]
        /\ edits < MaxEdits /\ edits' = edits + 1
        /\ UNCHANGED <<draining, pending, held, dropped, notifies, points, expired>>
    BY DEF SetPricingEngine, Edit, Repriced
  <1>2. reg \in [Subjects -> SUBSET Entry]
    <2>1. /\ EngineSubject(engine[i]) \in SUBSET Subjects /\ EngineSubject(e) \in SUBSET Subjects
          /\ i \in Observers /\ AllAlive
      BY <1>0, Kinds, ConstantsAssumption, LazyGraphConstants DEF EngineSubject, Called
    <2>2. Moved(reg, i, EngineSubject(engine[i]), EngineSubject(e))
      BY <2>1, Moves
    <2> HIDE DEF reg
    <2> QED BY <2>2 DEF Moved
  <1> HIDE DEF reg
  <1>3. registry' = reg /\ Wired'
    <2>1. registry' = reg
      BY <1>0, <1>1, <1>2, RoundKeeps DEF Called
    <2> QED BY <1>0, <2>1, EngineWires DEF reg
  <1>4. Rings(reg, Own[i]) /\ Keeps /\ LoopAt(stack', Len(stack')) /\ Len(stack') \in Nat \ {0}
    <2>1. Honest(reg[Own[i]])
      BY <1>0, <1>3 DEF Wired, Called
    <2>2. Rings(reg, Own[i])
      BY <1>0, <1>1, <1>2, <2>1, ClientTells DEF Called
    <2> QED BY <1>0, <2>2 DEF Rings, Called
  <1>5. EngineInv'
    <2>1. notifies' \in 0..MaxNotify /\ edits' \in 0..MaxEdits
      BY <1>0, <1>1, ConstantsAssumption DEF EngineInv, TypeOK, Called
    <2> QED BY <1>0, <1>1, <1>2, <2>1, RoundSafe DEF Called
  <1>6. /\ DeferredUpdate(lazy[i]) \in Lazy /\ DeferredUpdate(lazy[i]).alwaysForward
        /\ DeferredUpdate(lazy[i]).updating /\ ~DeferredUpdate(lazy[i]).calculated
    BY <1>0, Deferring DEF Called
  <1>7. /\ lazy' \in [Lazies -> Lazy] /\ lazy'[i] = DeferredUpdate(lazy[i])
        /\ \A l \in Lazies \ {i} : lazy'[l] = lazy[l]
    BY <1>0, <1>1, <1>6 DEF Called
  <1>8. /\ guard' \in [Lazies -> Nat] /\ guard'[i] = Len(stack')
        /\ \A l \in Lazies \ {i} : guard'[l] = guard[l]
    BY <1>0, <1>1, <1>4 DEF Called
  <1>9. /\ inUse' \in [Instruments -> Nat] /\ inUse'[i] = Len(stack')
        /\ \A l \in Instruments \ {i} : inUse'[l] = inUse[l]
    BY <1>0, <1>1, <1>4 DEF Called
  <1>10. /\ answer' \in [Lazies -> Answers] /\ answer'[i] = "none"
         /\ \A l \in Lazies \ {i} : answer'[l] = answer[l]
         /\ fresh' \in [Lazies -> BOOLEAN]
         /\ \A l \in Lazies \ {i} : fresh'[l] = fresh[l]
    BY <1>0, <1>1 DEF Called, Answers
  <1>11. /\ engine' \in [Instruments -> Engines \cup {NoEngine}]
         /\ \A l \in Instruments \ {i} : engine'[l] = engine[l]
    BY <1>0, <1>1 DEF Called
  <1>12. OnlyMoves(i)
    BY <1>1, <1>6, <1>7, <1>8, <1>9, <1>10, <1>11 DEF OnlyMoves
  <1>13. GuardOf(i)' /\ ~Outdated(i)' /\ Modest(i)'
    <2>1. Exclusive(i)'
      BY <1>6, <1>7, <1>8, <1>9, <1>10 DEF Exclusive
    <2>2. GuardOf(i)'
      BY <1>4, <1>6, <1>7, <1>8, <2>1 DEF GuardOf
    <2> QED BY <1>6, <1>7, <1>10, <2>2 DEF Outdated, Modest
  <1>14. /\ Flags' /\ Flow' /\ Guards' /\ NewsComes' /\ GraphTypeOK'
         /\ \A l \in Lazies \ {i} : Modest(l) => Modest(l)'
    <2>1. TypeOK'
      BY <1>5 DEF EngineInv
    <2> QED BY <1>0, <1>4, <1>9, <1>12, <1>13, <2>1, OneMoves
  <1>15. Modes'
    <2>1. stack = <<>> => Quiet(stack')
      BY <1>4, NoCalls DEF Rings
    <2> QED BY <1>0, <1>4, <1>13, <1>14, <2>1, ChangeModes
  <1> QED BY <1>3, <1>5, <1>14, <1>15 DEF CacheInv, Ground

(* An engine is installed and nobody is told: the instrument is frozen, or   *)
(* telling already, or the call is the silent one.                           *)
LEMMA InstallHushed ==
  ASSUME CacheInv, ReadsApart, NEW i \in Instruments, NEW e \in Engines \cup {NoEngine},
         SetPricingEngineSilent(i, e) \/ (SetPricingEngine(i, e) /\ ~Tells(lazy[i])),
         UNCHANGED habit, SubscriptionInv'
  PROVE  CacheInv'
  <1>0. PICK op \in Changes : Called(i) /\ MayCall(op) /\ ClientRuns
    BY CallsOne DEF SetPricingEngine, SetPricingEngineSilent, MayMutate, Changes, MayCall
  <1>1. /\ registry' = Resubscribed(i, EngineSubject(engine[i]), EngineSubject(e))
        /\ engine' = [engine EXCEPT ![i] = e]
        /\ fresh' = [fresh EXCEPT ![i] = e = engine[i] /\ @]
        /\ edits < MaxEdits /\ edits' = edits + 1
        /\ UNCHANGED <<stack, depth, owed, draining, pending, held, dropped, notifies,
                       points, expired, guard, inUse>>
    BY DEF SetPricingEngine, SetPricingEngineSilent, Edit, Repriced
  <1>2. PICK lz, an : /\ lazy' = [lazy EXCEPT ![i] = lz] /\ answer' = [answer EXCEPT ![i] = an]
                      /\ lz \in Lazy /\ an \in Answers /\ lz.alwaysForward
                      /\ lz.updating = lazy[i].updating
                      /\ ~lz.calculated /\ (an = "none" \/ lz.frozen)
    <2>1. CASE SetPricingEngineSilent(i, e)
      <3>1. /\ lazy' = [lazy EXCEPT ![i] = InvalidateSilently(lazy[i])]
            /\ answer' = [answer EXCEPT ![i] = "none"]
        BY <2>1 DEF SetPricingEngineSilent
      <3>2. /\ InvalidateSilently(lazy[i]) \in Lazy
            /\ InvalidateSilently(lazy[i]).alwaysForward
            /\ InvalidateSilently(lazy[i]).updating = lazy[i].updating
            /\ ~InvalidateSilently(lazy[i]).calculated
        BY <1>0, Methods DEF Called, SameLoop
      <3> HIDE DEF InvalidateSilently
      <3> QED BY <3>1, <3>2 DEF Answers
    <2>2. CASE SetPricingEngine(i, e) /\ ~Tells(lazy[i])
      <3> DEFINE lz == DeferredUpdate(lazy[i])
                 an == IF e # engine[i] /\ answer[i] = "current" THEN "stale" ELSE answer[i]
      <3>1. lazy' = [lazy EXCEPT ![i] = lz] /\ answer' = [answer EXCEPT ![i] = an]
        BY <2>2 DEF SetPricingEngine
      <3>2. /\ lz \in Lazy /\ lz.alwaysForward /\ lz.updating = lazy[i].updating
            /\ lz.frozen = lazy[i].frozen
            /\ lazy[i].updating \/ lazy[i].frozen
            /\ ~lazy[i].updating => ~lz.calculated
            /\ lazy[i].updating => lz.calculated = lazy[i].calculated
        <4>1. DeferredUpdate(lazy[i]) \in Lazy /\ lazy[i] \in Lazy
          BY <1>0, Deferring DEF Called
        <4> QED BY <1>0, <2>2, <4>1, Deferring DEF Called, Lazy
      <3>3. an \in Answers
        BY <1>0 DEF Called, Answers
      <3>4. ~lz.calculated /\ (an = "none" \/ lz.frozen)
        <4>1. CASE lazy[i].updating
          <5>1. ~lazy[i].calculated /\ (answer[i] = "none" \/ lazy[i].frozen)
            BY <1>0, <4>1, UntoldIsInvalid DEF Modest
          <5> QED BY <3>2, <4>1, <5>1
        <4>2. CASE ~lazy[i].updating
          BY <3>2, <4>2
        <4> QED BY <4>1, <4>2
      <3> HIDE DEF lz, an
      <3> QED BY <3>1, <3>2, <3>3, <3>4
    <2> QED BY <2>1, <2>2
  <1>3. Wired' /\ registry' \in [Subjects -> SUBSET Entry]
    BY <1>0, <1>1, EngineWires
  <1>4. EngineInv'
    <2>1. edits' \in 0..MaxEdits
      BY <1>0, <1>1, ConstantsAssumption DEF EngineInv, TypeOK, Called
    <2> QED BY <1>0, <1>1, <1>3, <2>1, EditSafe DEF Called
  <1>5. Keeps
    BY <1>0, <1>1, SilentKeeps DEF Called
  <1>6. /\ lazy' \in [Lazies -> Lazy] /\ lazy'[i] = lz
        /\ \A l \in Lazies \ {i} : lazy'[l] = lazy[l]
        /\ answer' \in [Lazies -> Answers] /\ answer'[i] = an
        /\ \A l \in Lazies \ {i} : answer'[l] = answer[l]
    BY <1>0, <1>2 DEF Called
  <1>7. /\ fresh' \in [Lazies -> BOOLEAN]
        /\ \A l \in Lazies \ {i} : fresh'[l] = fresh[l]
        /\ engine' \in [Instruments -> Engines \cup {NoEngine}]
        /\ \A l \in Instruments \ {i} : engine'[l] = engine[l]
    BY <1>0, <1>1 DEF Called
  <1>8. OnlyMoves(i)
    BY <1>0, <1>1, <1>2, <1>6, <1>7 DEF OnlyMoves, Called
  <1>9. ~Outdated(i)' /\ Modest(i)'
    BY <1>2, <1>6 DEF Outdated, Modest
  <1>10. /\ Flags' /\ Flow' /\ Guards' /\ NewsComes' /\ GraphTypeOK'
         /\ \A l \in Lazies \ {i} : Modest(l) => Modest(l)'
    <2>1. TypeOK'
      BY <1>4 DEF EngineInv
    <2>2. guard'[i] = guard[i] /\ lazy'[i].updating = lazy[i].updating /\ inUse'[i] = inUse[i]
      BY <1>1, <1>2, <1>6
    <2> QED BY <1>0, <1>5, <1>8, <1>9, <2>1, <2>2, OneMoves
  <1>11. Modes'
    <2>1. stack = <<>> => Quiet(stack')
      BY <1>1, NoCalls
    <2> QED BY <1>0, <1>5, <1>9, <1>10, <2>1, ChangeModes
  <1> QED BY <1>3, <1>4, <1>10, <1>11 DEF CacheInv, Ground

-----------------------------------------------------------------------------
(* Freezing and thawing.                                                     *)
LEMMA FreezeSteps ==
  ASSUME CacheInv, NEW i \in Instruments, FreezeInstrument(i), UNCHANGED habit, SubscriptionInv'
  PROVE  CacheInv'
  <1>0. Called(i)
    BY CallsOne DEF FreezeInstrument, MayMutate
  <1>1. /\ lazy' = [lazy EXCEPT ![i] = Freeze(@)]
        /\ edits < MaxEdits /\ edits' = edits + 1
        /\ UNCHANGED <<registry, stack, depth, draining, pending, held, dropped, owed, notifies,
                       points, engine, expired, guard, inUse, fresh, answer>>
    BY DEF FreezeInstrument, Edit
  <1>2. EngineInv'
    <2>1. edits' \in 0..MaxEdits
      BY <1>0, <1>1, ConstantsAssumption DEF EngineInv, TypeOK, Called
    <2> QED BY <1>0, <1>1, <2>1, EditSafe DEF Called
  <1>3. Wired' /\ Keeps
    BY <1>0, <1>1, Kept, SilentKeeps DEF Called
  <1>4. /\ Freeze(lazy[i]) \in Lazy /\ Freeze(lazy[i]).frozen
        /\ Freeze(lazy[i]).calculated = lazy[i].calculated
        /\ Freeze(lazy[i]).updating = lazy[i].updating /\ Freeze(lazy[i]).alwaysForward
    BY <1>0, Methods DEF Called
  <1>5. /\ lazy' \in [Lazies -> Lazy] /\ lazy'[i] = Freeze(lazy[i])
        /\ \A l \in Lazies \ {i} : lazy'[l] = lazy[l]
    BY <1>0, <1>1, <1>4 DEF Called
  <1>6. OnlyMoves(i)
    BY <1>0, <1>1, <1>4, <1>5 DEF OnlyMoves, Called
  <1>7. /\ Outdated(i)' => Outdated(i)
        /\ Modest(i) => Modest(i)'
    BY <1>1, <1>4, <1>5 DEF Outdated, Modest
  <1>8. /\ Flags' /\ Flow' /\ Guards' /\ NewsComes' /\ GraphTypeOK'
        /\ \A l \in Lazies \ {i} : Modest(l) => Modest(l)'
    <2>1. TypeOK'
      BY <1>2 DEF EngineInv
    <2>2. /\ guard'[i] = guard[i] /\ lazy'[i].updating = lazy[i].updating
          /\ inUse'[i] = inUse[i] /\ engine'[i] = engine[i]
      BY <1>1, <1>4, <1>5
    <2> QED BY <1>0, <1>3, <1>6, <1>7, <2>1, <2>2, OneMoves
  <1>9. Modes'
    <2>1. \A l \in Lazies : Modest(l) => Modest(l)'
      BY <1>7, <1>8
    <2>2. UNCHANGED <<stack, habit>>
      BY <1>1
    <2> QED BY <1>0, <2>1, <2>2 DEF Modes, Called
  <1> QED BY <1>2, <1>3, <1>8, <1>9 DEF CacheInv, Ground

\* A round that an instrument sends to its clients, on its own observable.
OwnRound(i) ==
    /\ StartRound(registry, Own[i], stack)
    /\ UNCHANGED <<draining, pending, held, dropped, notifies>>
    /\ edits' \in 0..MaxEdits

(* Whom it tells are clients, so nothing of the graph hears of it.         *)
LEMMA OwnRounds ==
  ASSUME NEW i, Called(i), ClientRuns, OwnRound(i)
  PROVE  /\ Keeps /\ LoopAt(stack', Len(stack')) /\ Len(stack') \in Nat
         /\ Quiet(stack) => Quiet(stack')
         /\ EngineInv' /\ Wired'
  <1>1. /\ StartRound(registry, Own[i], stack)
        /\ UNCHANGED <<draining, pending, held, dropped, notifies>>
        /\ edits' \in 0..MaxEdits
    BY DEF OwnRound
  <1>2. Honest(registry[Own[i]]) /\ \A x \in registry[Own[i]] : x.observer \in Clients
    BY DEF Called, Wired
  <1>3. Rings(registry, Own[i])
    BY <1>1, <1>2, ClientTells DEF Called
  <1>4. EngineInv'
    <2>1. notifies' \in 0..MaxNotify
      BY <1>1 DEF EngineInv, TypeOK, Called
    <2> QED BY <1>1, <2>1, RoundSafe DEF Called
  <1>5. Wired'
    BY <1>1, RoundKeeps, Kept DEF Called
  <1> QED BY <1>2, <1>3, <1>4, <1>5 DEF Rings, Called

(* unfreeze tells the observers that the instrument may be read afresh.    *)
LEMMA ThawSteps ==
  ASSUME CacheInv, NEW i \in Instruments, UnfreezeInstrument(i), UNCHANGED habit, SubscriptionInv'
  PROVE  CacheInv'
  <1>0. Called(i) /\ ClientRuns
    BY CallsOne DEF UnfreezeInstrument, MayMutate, MayCall
  <1>1. /\ lazy' = [lazy EXCEPT ![i] = Unfreeze(@)]
        /\ answer' = [answer EXCEPT ![i] = "none"]
        /\ inUse' = [inUse EXCEPT ![i] = Len(stack')]
        /\ UNCHANGED <<points, engine, expired, guard, fresh>>
        /\ OwnRound(i)
    <2>1. edits \in 0..MaxEdits
      BY <1>0 DEF Called, EngineInv, TypeOK
    <2> QED BY <2>1 DEF UnfreezeInstrument, OwnRound
  <1>2. /\ Keeps /\ LoopAt(stack', Len(stack')) /\ Len(stack') \in Nat
        /\ Quiet(stack) => Quiet(stack')
        /\ EngineInv' /\ Wired'
    BY <1>0, <1>1, OwnRounds
  <1>3. /\ Unfreeze(lazy[i]) \in Lazy
        /\ Unfreeze(lazy[i]).calculated = lazy[i].calculated
        /\ Unfreeze(lazy[i]).updating = lazy[i].updating /\ Unfreeze(lazy[i]).alwaysForward
    BY <1>0, Methods DEF Called
  <1>4. /\ lazy' \in [Lazies -> Lazy] /\ lazy'[i] = Unfreeze(lazy[i])
        /\ \A l \in Lazies \ {i} : lazy'[l] = lazy[l]
        /\ answer' \in [Lazies -> Answers] /\ answer'[i] = "none"
        /\ \A l \in Lazies \ {i} : answer'[l] = answer[l]
        /\ inUse' \in [Instruments -> Nat] /\ inUse'[i] = Len(stack')
        /\ \A j \in Instruments \ {i} : inUse'[j] = inUse[j]
    BY <1>0, <1>1, <1>2, <1>3 DEF Called, Answers
  <1>5. OnlyMoves(i)
    BY <1>0, <1>1, <1>3, <1>4 DEF OnlyMoves, Called
  <1>6. /\ Outdated(i)' => Outdated(i)
        /\ Modest(i) => Modest(i)'
    BY <1>1, <1>3, <1>4 DEF Outdated, Modest
  <1>7. /\ Flags' /\ Flow' /\ Guards' /\ NewsComes' /\ GraphTypeOK'
        /\ \A l \in Lazies \ {i} : Modest(l) => Modest(l)'
    <2>1. TypeOK'
      BY <1>2 DEF EngineInv
    <2>2. /\ guard'[i] = guard[i] /\ lazy'[i].updating = lazy[i].updating /\ engine'[i] = engine[i]
          /\ LoopAt(stack', inUse'[i])
      BY <1>1, <1>2, <1>3, <1>4
    <2> QED BY <1>0, <1>2, <1>5, <1>6, <2>1, <2>2, OneMoves
  <1>8. Modes'
    <2>1. \A l \in Lazies : Modest(l) => Modest(l)'
      BY <1>6, <1>7
    <2>2. \A l : SentUpdates(stack', l) <=> SentUpdates(stack, l)
      BY <1>2 DEF Keeps
    <2> QED BY <1>0, <1>2, <2>1, <2>2 DEF Modes, Called
  <1> QED BY <1>2, <1>7, <1>8 DEF CacheInv, Ground

-----------------------------------------------------------------------------
(* Reads.  A curve that is asked answers from a cache that was stale, or     *)
(* freshly, or fails.                                                        *)
CurveFacts(c, r) ==
    /\ SameLoop(r.flags, lazy[c]) /\ r.ok \in BOOLEAN /\ r.fresh \in BOOLEAN
    /\ (r.ok \/ r.flags.calculated) /\ ~r.fresh => lazy[c].calculated /\ ~fresh[c]

(* A curve that is read keeps its guard and its flags but for the result.  *)
LEMMA CurveReads ==
  ASSUME GraphTypeOK, Flags, NEW c \in Curves, NEW r \in CurveOutcomes(c)
  PROVE  CurveFacts(c, r)
  <1>0. c \in Lazies
    BY GraphConstants
  <1>1. lazy[c] \in Lazy /\ fresh[c] \in BOOLEAN /\ ~lazy[c].frozen
    BY <1>0 DEF GraphTypeOK, Flags
  <1>2. /\ SameLoop(FinishOk(StartCalculation(lazy[c])), lazy[c])
        /\ SameLoop(FinishErr(StartCalculation(lazy[c])), lazy[c])
        /\ ~FinishErr(StartCalculation(lazy[c])).calculated
        /\ SameLoop(lazy[c], lazy[c])
    BY <1>1, Methods DEF SameLoop
  <1>3. CASE MustCalculate(lazy[c])
    <2> DEFINE good == FinishOk(StartCalculation(lazy[c]))
               bad == FinishErr(StartCalculation(lazy[c]))
    <2>1. \/ r = [flags |-> good, ok |-> TRUE, fresh |-> TRUE]
          \/ r = [flags |-> bad, ok |-> FALSE, fresh |-> fresh[c]]
      BY <1>3 DEF CurveOutcomes
    <2> HIDE DEF good, bad
    <2>2. \/ r.flags = good /\ r.ok = TRUE /\ r.fresh = TRUE
          \/ r.flags = bad /\ r.ok = FALSE /\ r.fresh = fresh[c]
      BY <2>1
    <2>3. SameLoop(good, lazy[c]) /\ SameLoop(bad, lazy[c]) /\ ~bad.calculated
      BY <1>2 DEF good, bad
    <2> QED BY <1>1, <2>2, <2>3 DEF CurveFacts
  <1>4. CASE ~MustCalculate(lazy[c])
    <2>1. r = [flags |-> lazy[c], ok |-> TRUE, fresh |-> fresh[c]]
      BY <1>4 DEF CurveOutcomes
    <2>2. r.flags = lazy[c] /\ r.ok = TRUE /\ r.fresh = fresh[c] /\ lazy[c].calculated
      BY <1>1, <1>4, <2>1 DEF MustCalculate
    <2> QED BY <1>1, <1>2, <2>2 DEF CurveFacts
  <1> QED BY <1>3, <1>4

(* An instrument asked for a price touches its curve and itself; what it     *)
(* answers is stale only if it, or its curve, had a stale cache.             *)
OthersRead(u, lz, fr) ==
    \A l \in Lazies \ {u} :
        /\ SameLoop(lz[l], lazy[l])
        /\ l \in Instruments => lz[l] = lazy[l]
        /\ lz[l].calculated /\ ~fr[l] => lazy[l].calculated /\ ~fresh[l]

StaleCurve(i) ==
    /\ CurveOf(i) \in Curves
    /\ lazy[CurveOf(i)].calculated /\ ~fresh[CurveOf(i)]

PriceFacts(i, z, r) ==
    /\ r.lazy \in [Lazies -> Lazy] /\ r.fresh \in [Lazies -> BOOLEAN] /\ r.ok \in BOOLEAN
    /\ SameLoop(r.lazy[i], z)
    /\ OthersRead(i, r.lazy, r.fresh)
    /\ (r.ok \/ r.lazy[i].calculated) /\ ~r.fresh[i] =>
         \/ z.calculated /\ ~fresh[i]
         \/ z.frozen /\ ~r.lazy[i].calculated
         \/ StaleCurve(i)

\* Outcomes that touch the instrument only.
LEMMA OwnOutcome ==
  ASSUME NEW i, Called(i), NEW z, NEW y, SameLoop(y, z), NEW b \in BOOLEAN, NEW ok \in BOOLEAN, NEW r,
         r.ok = ok, r.lazy = [lazy EXCEPT ![i] = y], r.fresh = [fresh EXCEPT ![i] = b],
         (ok \/ y.calculated) /\ ~b =>
           \/ z.calculated /\ ~fresh[i]
           \/ z.frozen /\ ~y.calculated
  PROVE  PriceFacts(i, z, r)
  <1>1. y \in Lazy
    BY DEF SameLoop
  <1>2. /\ r.lazy \in [Lazies -> Lazy] /\ r.lazy[i] = y
        /\ \A l \in Lazies \ {i} : r.lazy[l] = lazy[l]
    BY <1>1 DEF Called
  <1>3. /\ r.fresh \in [Lazies -> BOOLEAN] /\ r.fresh[i] = b
        /\ \A l \in Lazies \ {i} : r.fresh[l] = fresh[l]
    BY DEF Called
  <1>4. OthersRead(i, r.lazy, r.fresh)
    <2>1. \A l \in Lazies : SameLoop(lazy[l], lazy[l])
      BY DEF SameLoop, Called
    <2> QED BY <1>2, <1>3, <2>1 DEF OthersRead
  <1> QED BY <1>2, <1>3, <1>4 DEF PriceFacts

(* An instrument that prices itself.                                       *)
LEMMA Prices ==
  ASSUME NEW i, Called(i), NEW z \in Lazy, NEW r \in Pricings(i, z)
  PROVE  PriceFacts(i, z, r)
  <1> DEFINE good == FinishOk(StartCalculation(z))
             bad == FinishErr(StartCalculation(z))
  <1>0. SameLoop(good, z) /\ SameLoop(bad, z) /\ ~bad.calculated
    BY Methods
  <1>1. CASE CurveOf(i) = NoCurve
    <2>1. r = [ok |-> FALSE, lazy |-> [lazy EXCEPT ![i] = bad], fresh |-> fresh]
      BY <1>1 DEF Pricings, Failing
    <2>2. r.ok = FALSE /\ r.lazy = [lazy EXCEPT ![i] = bad] /\ r.fresh = fresh
      BY <2>1
    <2>3. r.fresh = [fresh EXCEPT ![i] = fresh[i]] /\ fresh[i] \in BOOLEAN
      BY <2>2 DEF Called
    <2> HIDE DEF bad
    <2> QED BY <1>0, <2>2, <2>3, OwnOutcome
  <1>2. CASE CurveOf(i) # NoCurve
    <2> DEFINE c == CurveOf(i)
    <2>1. c \in Curves /\ c \in Lazies /\ c # i
      BY <1>2, GraphConstants DEF CurveOf, Called
    <2>2. PICK o \in CurveOutcomes(c), prices \in BOOLEAN :
            r = [ok |-> o.ok /\ prices,
                 lazy |-> [lazy EXCEPT ![c] = o.flags,
                                       ![i] = IF o.ok /\ prices THEN good ELSE bad],
                 fresh |-> [fresh EXCEPT ![c] = o.fresh,
                                         ![i] = IF o.ok /\ prices THEN o.fresh ELSE @]]
      BY <1>2 DEF Pricings
    <2>3. CurveFacts(c, o)
      BY <2>1, CurveReads DEF Called
    <2> DEFINE y == IF o.ok /\ prices THEN good ELSE bad
    <2>4. /\ r.ok = (o.ok /\ prices)
          /\ r.lazy = [lazy EXCEPT ![c] = o.flags, ![i] = y]
          /\ r.fresh = [fresh EXCEPT ![c] = o.fresh, ![i] = IF o.ok /\ prices THEN o.fresh ELSE @]
      BY <2>2
    <2>5. SameLoop(y, z) /\ y \in Lazy /\ (~(o.ok /\ prices) => ~y.calculated)
      <3>1. good \in Lazy /\ bad \in Lazy
        BY <1>0 DEF SameLoop
      <3> HIDE DEF good, bad
      <3> QED BY <1>0, <3>1
    <2>6. o.flags \in Lazy /\ o.ok \in BOOLEAN /\ o.fresh \in BOOLEAN
      BY <2>3 DEF CurveFacts, SameLoop
    <2> HIDE DEF y, c, good, bad
    <2>7. /\ r.lazy \in [Lazies -> Lazy] /\ r.lazy[i] = y /\ r.lazy[c] = o.flags
          /\ \A l \in Lazies \ {i, c} : r.lazy[l] = lazy[l]
      <3> DEFINE f == [lazy EXCEPT ![c] = o.flags]
      <3>1. f \in [Lazies -> Lazy] /\ f[c] = o.flags /\ \A l \in Lazies \ {c} : f[l] = lazy[l]
        BY <2>1, <2>6 DEF Called
      <3>2. r.lazy = [f EXCEPT ![i] = y]
        BY <2>4
      <3> HIDE DEF f
      <3>3. i \in Lazies
        BY DEF Called
      <3>4. r.lazy \in [Lazies -> Lazy] /\ r.lazy[i] = y /\ \A l \in Lazies \ {i} : r.lazy[l] = f[l]
        BY <2>5, <3>1, <3>2, <3>3
      <3> QED BY <2>1, <3>1, <3>4
    <2>8. /\ r.fresh \in [Lazies -> BOOLEAN]
          /\ o.ok /\ prices => r.fresh[i] = o.fresh
          /\ r.fresh[c] = o.fresh
          /\ \A l \in Lazies \ {i, c} : r.fresh[l] = fresh[l]
      BY <2>1, <2>4, <2>6 DEF Called
    <2>9. OthersRead(i, r.lazy, r.fresh)
      <3> SUFFICES ASSUME NEW l \in Lazies \ {i}
                   PROVE  /\ SameLoop(r.lazy[l], lazy[l])
                          /\ l \in Instruments => r.lazy[l] = lazy[l]
                          /\ r.lazy[l].calculated /\ ~r.fresh[l] => lazy[l].calculated /\ ~fresh[l]
        BY DEF OthersRead
      <3>1. CASE l = c
        <4>1. c \notin Instruments
          BY <2>1, GraphObjects
        <4> QED BY <2>3, <2>7, <2>8, <3>1, <4>1 DEF CurveFacts
      <3>2. CASE l # c
        <4>1. SameLoop(lazy[l], lazy[l])
          BY DEF SameLoop, Called
        <4> QED BY <2>7, <2>8, <3>2, <4>1
      <3> QED BY <3>1, <3>2
    <2>10. ASSUME r.ok \/ r.lazy[i].calculated, ~r.fresh[i] PROVE StaleCurve(i)
      <3>1. o.ok /\ prices
        BY <2>4, <2>5, <2>6, <2>7, <2>10
      <3>2. lazy[c].calculated /\ ~fresh[c]
        BY <2>3, <2>8, <2>10, <3>1 DEF CurveFacts
      <3> QED BY <2>1, <3>2 DEF StaleCurve, c
    <2>11. r.ok \in BOOLEAN /\ SameLoop(r.lazy[i], z)
      BY <2>4, <2>5, <2>6, <2>7
    <2> QED BY <2>7, <2>8, <2>9, <2>10, <2>11 DEF PriceFacts
  <1> QED BY <1>1, <1>2

(* The same of calculate, that answers from the cache if it may.           *)
LEMMA Calculates ==
  ASSUME NEW i, Called(i), NEW z \in Lazy, NEW r \in Calculations(i, z)
  PROVE  PriceFacts(i, z, r)
  <1>0. fresh = [fresh EXCEPT ![i] = fresh[i]] /\ fresh[i] \in BOOLEAN /\ SameLoop(z, z)
    BY DEF Called, SameLoop
  <1>1. ASSUME NEW ok \in BOOLEAN, r = [ok |-> ok, lazy |-> [lazy EXCEPT ![i] = z], fresh |-> fresh],
               ok => z.calculated \/ z.frozen, ~ok => ~z.calculated
        PROVE  PriceFacts(i, z, r)
    <2>1. r.ok = ok /\ r.lazy = [lazy EXCEPT ![i] = z] /\ r.fresh = fresh
      BY <1>1
    <2> QED BY <1>0, <1>1, <2>1, OwnOutcome
  <1>2. CASE z.calculated
    <2>1. r = [ok |-> TRUE, lazy |-> [lazy EXCEPT ![i] = z], fresh |-> fresh]
      BY <1>2 DEF Calculations
    <2> QED BY <1>1, <1>2, <2>1
  <1>3. CASE ~z.calculated
    <2>1. \/ r = [ok |-> FALSE, lazy |-> [lazy EXCEPT ![i] = z], fresh |-> fresh]
          \/ i \in expired /\ r = [ok |-> TRUE, lazy |-> [lazy EXCEPT ![i] = MarkCalculated(z)],
                                   fresh |-> [fresh EXCEPT ![i] = TRUE]]
          \/ z.frozen /\ r = [ok |-> TRUE, lazy |-> [lazy EXCEPT ![i] = z], fresh |-> fresh]
          \/ r \in Pricings(i, z)
      BY <1>3 DEF Calculations
    <2>2. CASE r = [ok |-> FALSE, lazy |-> [lazy EXCEPT ![i] = z], fresh |-> fresh]
      BY <1>1, <1>3, <2>2
    <2>3. CASE r = [ok |-> TRUE, lazy |-> [lazy EXCEPT ![i] = MarkCalculated(z)],
                    fresh |-> [fresh EXCEPT ![i] = TRUE]]
      <3> DEFINE y == MarkCalculated(z)
      <3>1. SameLoop(y, z)
        BY Methods
      <3>2. r.ok = TRUE /\ r.lazy = [lazy EXCEPT ![i] = y] /\ r.fresh = [fresh EXCEPT ![i] = TRUE]
        BY <2>3
      <3> HIDE DEF y
      <3> QED BY <3>1, <3>2, OwnOutcome
    <2>4. CASE z.frozen /\ r = [ok |-> TRUE, lazy |-> [lazy EXCEPT ![i] = z], fresh |-> fresh]
      BY <1>1, <2>4
    <2>5. CASE r \in Pricings(i, z)
      BY <2>5, Prices
    <2> QED BY <2>1, <2>2, <2>3, <2>4, <2>5
  <1> QED BY <1>2, <1>3

(* Where only clients are told above its update, an instrument hears of what *)
(* its curve will hear.                                                      *)
LEMMA CurveNews ==
  ASSUME NEW i, Called(i), Quiet(stack), StaleCurve(i)
  PROVE  Hears(i)
  <1> DEFINE c == CurveOf(i)
  <1>1. c \in Curves /\ c \in Lazies /\ c \notin Instruments /\ engine[i] # NoEngine /\ c \notin Clients
    BY GraphConstants, GraphObjects, LazyGraphConstants DEF StaleCurve, CurveOf, Called
  <1>2. Hears(c)
    BY <1>1 DEF StaleCurve, Outdated, NewsComes, Called
  <1>3. Sources(c) = {c}
    BY <1>1 DEF Sources
  <1>4. Told(c, c)
    BY <1>2, <1>3 DEF Hears
  <1>5. c \in Sources(i)
    BY <1>1 DEF Sources, Called
  <1>6. ASSUME Waits(stack, c, c) PROVE Waits(stack, c, i)
    <2>1. PICK m \in DOMAIN stack : Carries(stack[m], c)
      BY <1>6 DEF Waits
    <2>2. ~ClientFrame(stack[m])
      BY <1>1, <2>1 DEF ClientFrame, Carries, Unsent
    <2>3. ASSUME NEW k \in DOMAIN stack, UpdateOf(stack[k], i) PROVE m <= k
      <3>1. ~(k < m)
        BY <2>2, <2>3 DEF Quiet, UpdateOf, Called
      <3>2. k \in Nat /\ m \in Nat
        BY LenProperties DEF Called
      <3> QED BY <3>1, <3>2
    <2> QED BY <2>1, <2>3 DEF Waits
  <1> QED BY <1>4, <1>5, <1>6 DEF Told, Hears

-----------------------------------------------------------------------------
\* A call that reads u and may leave more calculated than before.
ReadsOne(u) ==
    /\ lazy' \in [Lazies -> Lazy] /\ fresh' \in [Lazies -> BOOLEAN]
    /\ answer' \in [Lazies -> Answers] /\ inUse' \in [Instruments -> Nat]
    /\ lazy'[u].updating = lazy[u].updating /\ lazy'[u].frozen = lazy[u].frozen
    /\ lazy'[u].alwaysForward = lazy[u].alwaysForward
    /\ OthersRead(u, lazy', fresh')
    /\ \A l \in Lazies \ {u} : answer'[l] = answer[l]
    /\ \A j \in Instruments \ {u} : inUse'[j] = inUse[j]
    /\ UNCHANGED <<points, engine, expired, guard, habit>>

(* A read leaves outdated only what will hear.                             *)
LEMMA ReadingSteps ==
  ASSUME CacheInv, ReadsApart, NEW op \in Reads, MayCall(op), Keeps, Quiet(stack) => Quiet(stack'),
         NEW u \in Lazies, ReadsOne(u),
         u \in Instruments => inUse[u] = 0 /\ (inUse'[u] = inUse[u] \/ LoopAt(stack', inUse'[u])),
         Outdated(u)' => Hears(u)
  PROVE  Flags' /\ Flow' /\ Guards' /\ Modes' /\ NewsComes' /\ (TypeOK' => GraphTypeOK')
  <1>0. /\ Flags /\ GraphTypeOK /\ NewsComes
        /\ Lazies = Curves \cup Instruments /\ Curves \cap Instruments = {}
    BY GraphConstants, GraphObjects DEF CacheInv, Ground
  <1>1. ASSUME NEW l \in Lazies
        PROVE  /\ lazy'[l].updating = lazy[l].updating /\ lazy'[l].frozen = lazy[l].frozen
               /\ lazy'[l].alwaysForward = lazy[l].alwaysForward
    <2>1. CASE l = u
      BY <2>1 DEF ReadsOne
    <2>2. CASE l # u
      BY <2>2 DEF ReadsOne, OthersRead, SameLoop
    <2> QED BY <2>1, <2>2
  <1>2. Flags'
    BY <1>0, <1>1 DEF Flags
  <1>3. Guards'
    <2>1. ASSUME NEW l \in Lazies
          PROVE  \/ GuardOf(l)'
                 \/ /\ guard'[l] = guard[l] /\ lazy'[l].updating = lazy[l].updating
                    /\ \/ l \in Instruments /\ inUse[l] = 0
                       \/ Exclusive(l) => Exclusive(l)'
      <3>1. CASE l = u
        <4>1. l \notin Instruments => ~Exclusive(l)
          BY DEF Exclusive
        <4> QED BY <1>1, <3>1, <4>1 DEF ReadsOne
      <3>2. CASE l # u
        <4>1. Exclusive(l) => Exclusive(l)'
          BY <3>2 DEF Exclusive, ReadsOne, OthersRead
        <4> QED BY <1>1, <4>1 DEF ReadsOne
      <3> QED BY <3>1, <3>2
    <2>2. \A j \in Instruments : inUse'[j] = inUse[j] \/ LoopAt(stack', inUse'[j])
      BY DEF ReadsOne
    <2> QED BY <2>1, <2>2, ClientGuards
  <1>4. NewsComes'
    <2>1. ASSUME NEW l \in Lazies, Outdated(l)' PROVE Hears(l) /\ Sources(l)' = Sources(l)
      <3>1. Sources(l)' = Sources(l)
        BY DEF ReadsOne, Sources, CurveOf
      <3>2. CASE l = u
        BY <2>1, <3>1, <3>2
      <3>3. CASE l # u
        <4>1. Outdated(l)
          BY <1>1, <2>1, <3>3 DEF Outdated, ReadsOne, OthersRead
        <4> QED BY <1>0, <3>1, <4>1 DEF NewsComes
      <3> QED BY <3>2, <3>3
    <2> QED BY <2>1, ClientNews
  <1>5. Modes'
    <2>1. UNCHANGED habit
      BY DEF ReadsOne
    <2> QED BY <2>1, ReadModes
  <1>6. TypeOK' => GraphTypeOK'
    BY <1>0 DEF GraphTypeOK, ReadsOne
  <1>7. Flow'
    BY DEF Keeps
  <1> QED BY <1>2, <1>3, <1>4, <1>5, <1>6, <1>7

(* A curve is read.                                                          *)
LEMMA CurveSteps ==
  ASSUME CacheInv, ReadsApart, NEW c \in Curves, ReadCurve(c), UNCHANGED habit, SubscriptionInv'
  PROVE  CacheInv'
  <1>0. /\ Ground /\ GraphTypeOK /\ Flags /\ EngineInv /\ Wired /\ NewsComes
        /\ c \in Lazies /\ c \notin Instruments
        /\ lazy \in [Lazies -> Lazy] /\ fresh \in [Lazies -> BOOLEAN] /\ answer \in [Lazies -> Answers]
    BY GraphConstants, GraphObjects DEF CacheInv, Ground, GraphTypeOK
  <1>1. PICK r \in CurveOutcomes(c) :
          /\ lazy' = [lazy EXCEPT ![c] = r.flags]
          /\ fresh' = [fresh EXCEPT ![c] = r.fresh]
          /\ answer' = [answer EXCEPT ![c] = IF r.ok THEN Held(r.fresh) ELSE "none"]
    BY DEF ReadCurve
  <1>2. UNCHANGED <<vars, points, engine, expired, guard, inUse>> /\ MayCall("read") /\ "read" \in Reads
    BY DEF ReadCurve, Reads
  <1>3. CurveFacts(c, r)
    BY <1>0, CurveReads
  <1>4. EngineInv' /\ Wired' /\ Keeps
    <2>1. UNCHANGED <<registry, stack, pending>> /\ UNCHANGED vars
      BY <1>2 DEF vars
    <2>2. EngineInv'
      BY <1>0, <1>2 DEF vars, EngineInv, TypeOK, OutermostDrains, NoSecondBorrow, Rounds
    <2> QED BY <1>0, <2>1, <2>2, Kept, SilentKeeps
  <1>5. r.flags \in Lazy /\ r.fresh \in BOOLEAN /\ r.ok \in BOOLEAN
    BY <1>3 DEF CurveFacts, SameLoop
  <1>6. /\ lazy' \in [Lazies -> Lazy] /\ lazy'[c] = r.flags
        /\ \A l \in Lazies \ {c} : lazy'[l] = lazy[l]
        /\ fresh' \in [Lazies -> BOOLEAN] /\ fresh'[c] = r.fresh
        /\ \A l \in Lazies \ {c} : fresh'[l] = fresh[l]
    BY <1>0, <1>1, <1>5
  <1>7. /\ answer' \in [Lazies -> Answers]
        /\ answer'[c] = IF r.ok THEN Held(r.fresh) ELSE "none"
        /\ \A l \in Lazies \ {c} : answer'[l] = answer[l]
    BY <1>0, <1>1 DEF Answers, Held
  <1>8. ReadsOne(c)
    <2>1. SameLoop(lazy'[c], lazy[c])
      BY <1>3, <1>6 DEF CurveFacts
    <2>2. OthersRead(c, lazy', fresh')
      BY <1>0, <1>6 DEF OthersRead, SameLoop
    <2>3. inUse' \in [Instruments -> Nat] /\ UNCHANGED <<points, engine, expired, guard, inUse, habit>>
      BY <1>0, <1>2 DEF GraphTypeOK
    <2> QED BY <1>6, <1>7, <2>1, <2>2, <2>3 DEF ReadsOne, SameLoop
  <1>9. Outdated(c)' => Hears(c)
    <2> SUFFICES ASSUME Outdated(c)' PROVE Hears(c)
      OBVIOUS
    <2>1. (r.ok \/ r.flags.calculated) /\ ~r.fresh
      BY <1>5, <1>6, <1>7 DEF Outdated, Held
    <2>2. Outdated(c)
      BY <1>3, <2>1 DEF CurveFacts, Outdated
    <2> QED BY <1>0, <2>2 DEF NewsComes
  <1>10. Flags' /\ Flow' /\ Guards' /\ Modes' /\ NewsComes' /\ (TypeOK' => GraphTypeOK')
    <2>1. Quiet(stack) => Quiet(stack')
      BY <1>2 DEF vars
    <2> QED BY <1>0, <1>2, <1>4, <1>8, <1>9, <2>1, ReadingSteps
  <1> QED BY <1>4, <1>10 DEF CacheInv, Ground, EngineInv

(* What an instrument answers, or stores, out of date it will hear of.       *)
LEMMA PriceNews ==
  ASSUME NEW i, Called(i), Quiet(stack), NEW z, NEW r, PriceFacts(i, z, r),
         z.calculated => lazy[i].calculated, r.ok \/ r.lazy[i].calculated, ~r.fresh[i],
         ~(z.frozen /\ ~r.lazy[i].calculated)
  PROVE  Hears(i)
  <1>1. CASE StaleCurve(i)
    BY <1>1, CurveNews
  <1>2. CASE z.calculated /\ ~fresh[i]
    BY <1>2 DEF Outdated, NewsComes, Called
  <1> QED BY <1>1, <1>2 DEF PriceFacts

(* An instrument is read.                                                    *)
LEMMA PriceSteps ==
  ASSUME CacheInv, ReadsApart, NEW i \in Instruments, ReadInstrument(i), UNCHANGED habit,
         SubscriptionInv'
  PROVE  CacheInv'
  <1>0. Called(i) /\ MayCall("read") /\ "read" \in Reads
    BY CallsOne DEF ReadInstrument, MayMutate, Reads
  <1>1. PICK r \in Calculations(i, lazy[i]) :
          /\ lazy' = r.lazy
          /\ fresh' = r.fresh
          /\ answer' = [answer EXCEPT ![i] = IF r.ok THEN Held(r.fresh[i]) ELSE "none"]
    BY DEF ReadInstrument
  <1>2. UNCHANGED <<vars, points, engine, expired, guard, inUse>>
    BY DEF ReadInstrument
  <1>3. PriceFacts(i, lazy[i], r)
    BY <1>0, Calculates DEF Called
  <1>4. EngineInv' /\ Wired' /\ Keeps
    <2>1. UNCHANGED <<registry, stack, pending>>
      BY <1>2 DEF vars
    <2>2. EngineInv'
      BY <1>0, <1>2 DEF vars, EngineInv, TypeOK, OutermostDrains, NoSecondBorrow, Rounds, Called
    <2> QED BY <1>0, <2>1, <2>2, Kept, SilentKeeps DEF Called
  <1>5. /\ answer' \in [Lazies -> Answers]
        /\ answer'[i] = IF r.ok THEN Held(r.fresh[i]) ELSE "none"
        /\ \A l \in Lazies \ {i} : answer'[l] = answer[l]
    BY <1>0, <1>1 DEF Answers, Held, Called
  <1>6. ReadsOne(i)
    <2>1. inUse' \in [Instruments -> Nat] /\ UNCHANGED <<points, engine, expired, guard, inUse, habit>>
      BY <1>0, <1>2 DEF Called
    <2> QED BY <1>1, <1>3, <1>5, <2>1 DEF ReadsOne, PriceFacts, SameLoop
  <1>7. Outdated(i)' => Hears(i)
    <2> SUFFICES ASSUME Outdated(i)' PROVE Hears(i)
      OBVIOUS
    <2>1. r.ok \in BOOLEAN /\ r.fresh[i] \in BOOLEAN /\ r.lazy[i].frozen = lazy[i].frozen
      BY <1>0, <1>3 DEF PriceFacts, SameLoop, Called
    <2>2. /\ (r.ok \/ r.lazy[i].calculated) /\ ~r.fresh[i]
          /\ ~(lazy[i].frozen /\ ~r.lazy[i].calculated)
      BY <1>1, <1>5, <2>1 DEF Outdated, Held
    <2>3. Quiet(stack)
      BY <1>0, Apart
    <2> QED BY <1>0, <1>3, <2>2, <2>3, PriceNews
  <1>8. Flags' /\ Flow' /\ Guards' /\ Modes' /\ NewsComes' /\ (TypeOK' => GraphTypeOK')
    <2>1. Quiet(stack) => Quiet(stack')
      BY <1>2 DEF vars
    <2>2. inUse'[i] = inUse[i] /\ inUse[i] = 0 /\ i \in Lazies
      BY <1>0, <1>2 DEF Called
    <2> QED BY <1>0, <1>4, <1>6, <1>7, <2>1, <2>2, ReadingSteps
  <1> QED BY <1>4, <1>8 DEF CacheInv, Ground, EngineInv

(* An instrument is recalculated.                                            *)
LEMMA RecalculationSteps ==
  ASSUME CacheInv, ReadsApart, NEW i \in Instruments, Recalculate(i), UNCHANGED habit,
         SubscriptionInv'
  PROVE  CacheInv'
  <1> DEFINE z == StartRecalculation(lazy[i])
  <1>0. Called(i) /\ ClientRuns /\ MayCall("recalculate") /\ "recalculate" \in Reads
    BY CallsOne DEF Recalculate, MayMutate, MayCall, Reads
  <1>1. PICK r \in Calculations(i, z) :
          /\ lazy' = [r.lazy EXCEPT ![i] = FinishRecalculation(@, lazy[i].frozen)]
          /\ fresh' = r.fresh
    BY DEF Recalculate
  <1>2. /\ answer' = [answer EXCEPT ![i] = "none"]
        /\ inUse' = [inUse EXCEPT ![i] = Len(stack')]
        /\ UNCHANGED <<points, engine, expired, guard>>
        /\ OwnRound(i)
    <2>1. edits \in 0..MaxEdits /\ edits < MaxEdits /\ edits' = edits + 1
      BY <1>0 DEF Called, EngineInv, TypeOK, Recalculate, Edit
    <2>2. edits' \in 0..MaxEdits
      BY <2>1, ConstantsAssumption
    <2> QED BY <2>2 DEF Recalculate, OwnRound
  <1>3. /\ z \in Lazy /\ ~z.calculated /\ ~z.frozen
        /\ z.updating = lazy[i].updating /\ z.alwaysForward = lazy[i].alwaysForward
    BY <1>0, Methods DEF Called
  <1> HIDE DEF z
  <1>4. PriceFacts(i, z, r)
    BY <1>0, <1>3, Calculates
  <1>5. /\ Keeps /\ LoopAt(stack', Len(stack')) /\ Len(stack') \in Nat
        /\ Quiet(stack) => Quiet(stack')
        /\ EngineInv' /\ Wired'
    BY <1>0, <1>2, OwnRounds
  <1>6. /\ answer' \in [Lazies -> Answers] /\ answer'[i] = "none"
        /\ \A l \in Lazies \ {i} : answer'[l] = answer[l]
        /\ inUse' \in [Instruments -> Nat] /\ inUse'[i] = Len(stack')
        /\ \A j \in Instruments \ {i} : inUse'[j] = inUse[j]
    BY <1>0, <1>2, <1>5 DEF Answers, Called
  <1>7. /\ lazy' \in [Lazies -> Lazy]
        /\ lazy'[i].calculated = r.lazy[i].calculated /\ lazy'[i].frozen = lazy[i].frozen
        /\ lazy'[i].updating = lazy[i].updating /\ lazy'[i].alwaysForward = lazy[i].alwaysForward
        /\ \A l \in Lazies \ {i} : lazy'[l] = r.lazy[l]
    <2> DEFINE y == FinishRecalculation(r.lazy[i], lazy[i].frozen)
    <2>1. r.lazy \in [Lazies -> Lazy] /\ SameLoop(r.lazy[i], z) /\ i \in Lazies
      BY <1>0, <1>4 DEF PriceFacts, Called
    <2>2. lazy[i].frozen \in BOOLEAN
      BY <1>0 DEF Called, Lazy
    <2>3. /\ y \in Lazy /\ y.frozen = lazy[i].frozen
          /\ y.calculated = r.lazy[i].calculated
          /\ y.updating = r.lazy[i].updating
          /\ y.alwaysForward = r.lazy[i].alwaysForward
      BY <2>1, <2>2, Methods
    <2>4. lazy' = [r.lazy EXCEPT ![i] = y]
      BY <1>1
    <2> HIDE DEF y
    <2> QED BY <1>3, <2>1, <2>3, <2>4 DEF SameLoop
  <1>8. ReadsOne(i)
    <2>1. OthersRead(i, lazy', fresh')
      BY <1>1, <1>4, <1>7 DEF PriceFacts, OthersRead
    <2>2. fresh' \in [Lazies -> BOOLEAN]
      BY <1>1, <1>4 DEF PriceFacts
    <2> QED BY <1>2, <1>6, <1>7, <2>1, <2>2 DEF ReadsOne
  <1>9. Outdated(i)' => Hears(i)
    <2> SUFFICES ASSUME Outdated(i)' PROVE Hears(i)
      OBVIOUS
    <2>1. r.lazy[i].calculated /\ ~r.fresh[i]
      BY <1>1, <1>6, <1>7 DEF Outdated
    <2>2. Quiet(stack)
      BY <1>0, Apart
    <2> QED BY <1>0, <1>3, <1>4, <2>1, <2>2, PriceNews
  <1>10. Flags' /\ Flow' /\ Guards' /\ Modes' /\ NewsComes' /\ (TypeOK' => GraphTypeOK')
    <2>1. inUse[i] = 0 /\ i \in Lazies /\ LoopAt(stack', inUse'[i])
      BY <1>0, <1>5, <1>6 DEF Called
    <2> QED BY <1>0, <1>5, <1>8, <1>9, <2>1, ReadingSteps
  <1> QED BY <1>5, <1>10 DEF CacheInv, Ground, EngineInv

-----------------------------------------------------------------------------
(* Every step keeps the invariant of the caches.                           *)
LEMMA CacheStep ==
  ASSUME ReadsApart, CacheInv, [GraphNext]_allVars
  PROVE  CacheInv'
  <1>0. SubscriptionInv'
    BY SubscriptionStep DEF CacheInv, Ground
  <1>1. CASE UNCHANGED allVars
    <2>1. UNCHANGED <<registry, stack, depth, draining, pending, held, dropped, owed, notifies, edits,
                      lazy, guard, answer, points, engine, expired, inUse, fresh, habit>>
      BY <1>1 DEF allVars, vars, lazyVars, graphVars
    <2>2. EngineInv'
      BY <2>1 DEF CacheInv, Ground, EngineInv, TypeOK, OutermostDrains, NoSecondBorrow, Rounds
    <2>3. GraphTypeOK'
      BY <2>1, <2>2 DEF CacheInv, Ground, EngineInv, GraphTypeOK
    <2>4. Wired' /\ Flags' /\ Flow'
      BY <2>1 DEF CacheInv, Ground, Wired, Flags, Flow, Follows
    <2>5. Guards'
      BY <2>1 DEF CacheInv, Guards, GuardOf, Exclusive
    <2>6. Modes'
      BY <2>1 DEF CacheInv, Modes, Modest
    <2>7. NewsComes'
      BY <2>1 DEF CacheInv, NewsComes, Outdated, Hears, Told, Sources, CurveOf
    <2> QED BY <1>0, <2>2, <2>3, <2>4, <2>5, <2>6, <2>7 DEF CacheInv, Ground
  <1>2. CASE GraphNext
    <2>1. GraphStep /\ UNCHANGED habit
      BY <1>2 DEF GraphNext
    <2>2. CASE LibraryStep
      BY <2>1, <2>2, LibrarySteps
    <2>3. ASSUME NEW q \in Quotes, SetQuote(q) PROVE CacheInv'
      BY <1>0, <2>1, <2>3, QuoteSteps
    <2>4. ASSUME NEW h \in Handles, NEW c \in Curves \cup {NoCurve}, Relink(h, c) PROVE CacheInv'
      BY <1>0, <2>1, <2>4, RelinkSteps
    <2>5. ASSUME NEW i \in Instruments, NEW e \in Engines \cup {NoEngine}, SetPricingEngine(i, e)
          PROVE  CacheInv'
      BY <1>0, <2>1, <2>5, InstallTells, InstallHushed
    <2>6. ASSUME NEW i \in Instruments, NEW e \in Engines, SetPricingEngineSilent(i, e)
          PROVE  CacheInv'
      BY <1>0, <2>1, <2>6, InstallHushed
    <2>7. ASSUME NEW c \in Curves, ReadCurve(c) PROVE CacheInv'
      BY <1>0, <2>1, <2>7, CurveSteps
    <2>8. ASSUME NEW i \in Instruments,
                 ReadInstrument(i) \/ Recalculate(i) \/ FreezeInstrument(i) \/ UnfreezeInstrument(i)
          PROVE  CacheInv'
      BY <1>0, <2>1, <2>8, PriceSteps, RecalculationSteps, FreezeSteps, ThawSteps
    <2> QED BY <2>1, <2>2, <2>3, <2>4, <2>5, <2>6, <2>7, <2>8 DEF GraphStep
  <1> QED BY <1>1, <1>2

-----------------------------------------------------------------------------
(* Nothing is calculated before the first read.                            *)
LEMMA InitialCaches == GraphInit => CacheInv
  <1> SUFFICES ASSUME GraphInit PROVE CacheInv
    OBVIOUS
  <1>0. /\ SubscriptionInv /\ AllAlive
        /\ \A s \in Subjects : Honest(registry[s])
        /\ \A s \in Subjects : \A o : Follows(registry, o, s) <=> o \in Wiring[s]
    BY InitialWiring DEF SubscriptionInv, GraphShape
  <1>1. /\ stack = <<>> /\ depth = 0 /\ draining = FALSE /\ pending = {} /\ held = {} /\ dropped = {}
        /\ owed = {} /\ notifies = 0 /\ edits = 0
        /\ lazy = [l \in Lazies |-> NewLazy(TRUE)]
        /\ guard = [l \in Lazies |-> 0]
        /\ answer = [l \in Lazies |-> "none"]
        /\ points = FirstCurve /\ engine = FirstEngine /\ expired = {}
        /\ inUse = [i \in Instruments |-> 0]
        /\ fresh = [l \in Lazies |-> FALSE]
        /\ habit \in Habits
    BY DEF GraphInit, Init, QuietWith, LazyInit
  <1>2. /\ NewLazy(TRUE) \in Lazy /\ ~NewLazy(TRUE).calculated /\ ~NewLazy(TRUE).frozen
        /\ ~NewLazy(TRUE).updating /\ NewLazy(TRUE).alwaysForward
    BY DEF NewLazy, Lazy
  <1>3. EngineInv
    <2>1. TypeOK
      <3>1. registry \in [Subjects -> SUBSET Entry]
        BY <1>0 DEF AllAlive
      <3>2. stack \in Seq(Frame)
        BY <1>1, EmptySeq
      <3>3. depth \in Nat /\ notifies \in 0..MaxNotify /\ edits \in 0..MaxEdits
        BY <1>1, ConstantsAssumption
      <3>4. /\ draining \in BOOLEAN /\ pending \in SUBSET Observers
            /\ held \in SUBSET Observers /\ dropped \in SUBSET Observers
            /\ owed \in SUBSET Observers
        BY <1>1
      <3> QED BY <3>1, <3>2, <3>3, <3>4 DEF TypeOK
    <2>2. OutermostDrains
      <3>1. Rounds = {} /\ DOMAIN stack = {}
        BY <1>1 DEF Rounds
      <3> QED BY <1>1, <3>1, FS_EmptySet DEF OutermostDrains
    <2>3. NoSecondBorrow
      BY <1>1 DEF NoSecondBorrow
    <2> QED BY <1>1, <2>1, <2>2, <2>3 DEF EngineInv
  <1>4. GraphTypeOK
    BY <1>1, <1>2, <1>3, GraphConstants DEF EngineInv, GraphTypeOK, Answers
  <1>5. Wired
    <2>1. /\ Own \in [Lazies -> Subjects] /\ Lazies = Curves \cup Instruments
          /\ Quotes \subseteq Subjects
          /\ CurveInputs \in [Curves -> SUBSET Quotes]
          /\ EngineInputs \in [Engines -> SUBSET Quotes]
          /\ DirectInputs \in [Instruments -> SUBSET Quotes]
          /\ \A e \in Engines : Target[EngineHandle[e]] \in Subjects
      BY LazyGraphConstants, GraphConstants, GraphObjects
    <2>2. ASSUME NEW i \in Instruments, NEW x \in registry[Own[i]] PROVE x.observer \in Clients
      <3>1. Own[i] \in Subjects /\ Follows(registry, x.observer, Own[i])
        BY <2>1, <2>2 DEF Follows
      <3> QED BY <1>0, <3>1, GraphWiring
    <2>3. /\ \A c \in Curves : \A q \in CurveInputs[c] : Follows(registry, c, q)
          /\ \A e \in Engines : \A q \in EngineInputs[e] : Follows(registry, e, q)
          /\ \A i \in Instruments : \A q \in DirectInputs[i] : Follows(registry, i, q)
          /\ \A e \in Engines : Follows(registry, e, Target[EngineHandle[e]])
      BY <1>0, <2>1, GraphWiring
    <2> QED BY <1>0, <2>2, <2>3 DEF Wired
  <1>6. Flags
    BY <1>1, <1>2 DEF Flags
  <1>7. Flow
    BY <1>1, NoCalls DEF Flow
  <1>8. Guards
    BY <1>1, <1>2 DEF Guards, GuardOf
  <1>9. Modes
    BY <1>1, NoCalls DEF Modes
  <1>10. NewsComes
    BY <1>1, <1>2 DEF NewsComes, Outdated
  <1> QED BY <1>0, <1>3, <1>4, <1>5, <1>6, <1>7, <1>8, <1>9, <1>10 DEF CacheInv, Ground

(* When the last call has returned there is no news left to come.            *)
LEMMA QuietIsCurrent ==
  ASSUME CacheInv
  PROVE  CachesAreCurrent /\ NoUnawareReader
  <1> SUFFICES ASSUME stack = <<>>, NEW l \in Lazies PROVE ~Outdated(l)
    BY DEF CachesAreCurrent, NoUnawareReader, Outdated
  <1>1. ~Hears(l)
    BY NoCalls DEF CacheInv, Ground, Flow, Hears, Told
  <1> QED BY <1>1 DEF CacheInv, NewsComes

(* Once every call has returned, whatever says it is calculated was computed *)
(* from the present quotes, links and engine (lazyobject.rs is_calculated,   *)
(* instrument.rs npv), if no client's update() both reads and changes the    *)
(* market.                                                                   *)
THEOREM CachesCorrect == ASSUME ReadsApart PROVE GraphSpec => []CachesAreCurrent
  <1>1. GraphInit => CacheInv
    BY InitialCaches
  <1>2. CacheInv /\ [GraphNext]_allVars => CacheInv'
    BY CacheStep
  <1>3. CacheInv => CachesAreCurrent
    BY QuietIsCurrent
  <1> QED BY <1>1, <1>2, <1>3, PTL DEF GraphSpec

(* Under the same condition nobody keeps an answer that a later change made  *)
(* stale without having been told of it, unless the instrument was frozen    *)
(* (instrument.rs Updater::update, swap_engine).                             *)
THEOREM ReadersCorrect == ASSUME ReadsApart PROVE GraphSpec => []NoUnawareReader
  <1>1. GraphInit => CacheInv
    BY InitialCaches
  <1>2. CacheInv /\ [GraphNext]_allVars => CacheInv'
    BY CacheStep
  <1>3. CacheInv => NoUnawareReader
    BY QuietIsCurrent
  <1> QED BY <1>1, <1>2, <1>3, PTL DEF GraphSpec
=============================================================================
