--------------------------- MODULE ObservableProofs ---------------------------
(***************************************************************************)
(* Proofs about Observable: for any graph of subjects and observers, any   *)
(* depth of re-entrance, and observers that panic.                         *)
(*                                                                         *)
(* Every step of the engine pushes a frame, replaces the top one or pops   *)
(* it.  The lemmas say what each of the three does to the parts of the     *)
(* invariants that speak of the stack; the proofs about steps combine them.*)
(***************************************************************************)
EXTENDS Observable, FiniteSetTheorems, SequenceTheorems, TLAPS

-----------------------------------------------------------------------------
(* What is left of a stack when its top returns.                             *)
LEMMA FrontProperties ==
  ASSUME NEW S, NEW s \in Seq(S), s # <<>>
  PROVE  /\ SubSeq(s, 1, Len(s) - 1) \in Seq(S)
         /\ Len(SubSeq(s, 1, Len(s) - 1)) = Len(s) - 1
         /\ \A i \in 1..Len(s) - 1 : SubSeq(s, 1, Len(s) - 1)[i] = s[i]
         /\ Len(s) \in Nat \ {0}
         /\ s[Len(s)] \in S
  <1>1. Len(s) \in Nat \ {0}
    BY EmptySeq, LenProperties
  <1>2. \A i \in 1..Len(s) - 1 : s[i] \in S
    BY <1>1, ElementOfSeq
  <1> DEFINE front == SubSeq(s, 1, Len(s) - 1)
  <1>3. /\ front \in Seq(S)
        /\ Len(front) = IF 1 <= Len(s) - 1 THEN Len(s) - 1 - 1 + 1 ELSE 0
        /\ \A i \in 1..(Len(s) - 1 - 1 + 1) : front[i] = s[1 + i - 1]
    BY <1>1, <1>2, SubSeqProperties
  <1>4. s[Len(s)] \in S
    BY <1>1, ElementOfSeq
  <1> HIDE DEF front
  <1>5. Len(front) = Len(s) - 1
    <2>1. \A n \in Nat \ {0} : (IF 1 <= n - 1 THEN n - 1 - 1 + 1 ELSE 0) = n - 1
      OBVIOUS
    <2> QED BY <1>1, <1>3, <2>1
  <1>6. ASSUME NEW i \in 1..Len(s) - 1 PROVE front[i] = s[i]
    <2>1. i \in 1..(Len(s) - 1 - 1 + 1) /\ 1 + i - 1 = i
      BY <1>1
    <2> QED BY <1>3, <2>1
  <1> QED BY <1>1, <1>3, <1>4, <1>5, <1>6 DEF front

(* A call begins.                                                            *)
LEMMA PushProperties ==
  ASSUME NEW S, NEW s \in Seq(S), NEW f \in S
  PROVE  /\ Append(s, f) \in Seq(S)
         /\ Len(Append(s, f)) = Len(s) + 1
         /\ Len(s) \in Nat
         /\ \A i \in 1..Len(s) : Append(s, f)[i] = s[i] /\ s[i] \in S
         /\ Append(s, f)[Len(s) + 1] = f
         /\ DOMAIN Append(s, f) = 1..Len(s) + 1
         /\ DOMAIN s = 1..Len(s)
  <1>1. Len(s) \in Nat
    BY LenProperties
  <1>2. \A i \in 1..Len(s) : s[i] \in S
    BY ElementOfSeq
  <1> QED BY <1>1, <1>2, AppendProperties, LenProperties

(* The top call moves on: it is replaced by f.                               *)
LEMMA ReplaceProperties ==
  ASSUME NEW S, NEW s \in Seq(S), s # <<>>, NEW f \in S
  PROVE  LET r == Append(SubSeq(s, 1, Len(s) - 1), f)
         IN  /\ r \in Seq(S)
             /\ Len(r) = Len(s)
             /\ \A i \in 1..Len(s) - 1 : r[i] = s[i]
             /\ r[Len(s)] = f
             /\ DOMAIN r = 1..Len(s)
  <1> DEFINE front == SubSeq(s, 1, Len(s) - 1)
  <1>1. /\ front \in Seq(S) /\ Len(front) = Len(s) - 1
        /\ \A i \in 1..Len(s) - 1 : front[i] = s[i]
        /\ Len(s) \in Nat \ {0}
    BY FrontProperties
  <1> HIDE DEF front
  <1>2. /\ Append(front, f) \in Seq(S)
        /\ Len(Append(front, f)) = Len(s) - 1 + 1
        /\ \A i \in 1..Len(s) - 1 : Append(front, f)[i] = front[i]
        /\ Append(front, f)[Len(s) - 1 + 1] = f
        /\ DOMAIN Append(front, f) = 1..Len(s) - 1 + 1
    BY <1>1, PushProperties
  <1>3. Len(s) - 1 + 1 = Len(s)
    BY <1>1
  <1> QED BY <1>1, <1>2, <1>3 DEF front

\* What the three invariants say of a stack st.
OneBorrow(st, borrowed) ==
    \A i, j \in DOMAIN st :
        /\ st[i].op = "update" => st[i].who \notin borrowed
        /\ st[i].op = "update" /\ st[j].op = "update" /\ st[i].who = st[j].who => i = j

RoundsOf(st) == {i \in DOMAIN st : st[i].op = "notify"}
Draining(st) == \E i \in DOMAIN st : st[i].op = "drain"
DrainsFirst(st) ==
    /\ \A i \in DOMAIN st : st[i].op = "drain" => i = 1
    /\ st # <<>> => st[1].op # "update"

\* The work for v that the frames of st still hold.
Holds(frame, v) ==
    \/ frame.op = "notify" /\ \E e \in frame.todo : e.observer = v
    \/ frame.op = "drain" /\ v \in frame.batch \cup frame.stalled
HeldBy(st, v) == \E i \in DOMAIN st : Holds(st[i], v)

\* How the top frame moves on.
Done(frame, e) == [frame EXCEPT !.todo = @ \ {e}]
Sent(frame) == [frame EXCEPT !.sent = TRUE]
Taking(frame, b) == [frame EXCEPT !.batch = b]
Delivering(frame, v) == [frame EXCEPT !.batch = @ \ {v}]
SettingAside(frame, v) == [frame EXCEPT !.batch = @ \ {v}, !.stalled = @ \cup {v}]

-----------------------------------------------------------------------------
(* The frames the engine pushes are frames.                                  *)
LEMMA FrameTypes ==
    /\ \A snapshot \in SUBSET Entry : NotifyFrame(snapshot) \in Frame
    /\ \A v \in Observers : UpdateFrame(v) \in Frame
    /\ DrainFrame \in Frame
  BY DEF Frame, NotifyFrame, UpdateFrame, DrainFrame

(* What the fields of each kind of frame are, and that a step of the top     *)
(* frame leaves one of its kind.                                             *)
LEMMA FrameFields ==
  ASSUME NEW f \in Frame
  PROVE  /\ f.op \in {"notify", "update", "drain"}
         /\ f.op = "notify" =>
              /\ f.todo \in SUBSET Entry
              /\ \A e \in Entry :
                   Done(f, e) \in Frame /\ Done(f, e).op = "notify"
                     /\ Done(f, e).todo = f.todo \ {e}
         /\ f.op = "update" =>
              /\ f.who \in Observers /\ f.sent \in BOOLEAN
              /\ Sent(f) \in Frame /\ Sent(f).op = "update" /\ Sent(f).who = f.who
         /\ f.op = "drain" =>
              /\ f.batch \in SUBSET Observers /\ f.stalled \in SUBSET Observers
              /\ \A b \in SUBSET Observers :
                   Taking(f, b) \in Frame /\ Taking(f, b).op = "drain"
                     /\ Taking(f, b).batch = b /\ Taking(f, b).stalled = f.stalled
              /\ \A v \in Observers :
                   /\ Delivering(f, v) \in Frame /\ Delivering(f, v).op = "drain"
                   /\ Delivering(f, v).batch = f.batch \ {v}
                   /\ Delivering(f, v).stalled = f.stalled
                   /\ SettingAside(f, v) \in Frame /\ SettingAside(f, v).op = "drain"
                   /\ SettingAside(f, v).batch = f.batch \ {v}
                   /\ SettingAside(f, v).stalled = f.stalled \cup {v}
  <1> USE DEF Done, Sent, Taking, Delivering, SettingAside
  <1>1. CASE f \in [op : {"notify"}, todo : SUBSET Entry]
    BY <1>1 DEF Frame
  <1>2. CASE f \in [op : {"update"}, who : Observers, sent : BOOLEAN]
    BY <1>2 DEF Frame
  <1>3. CASE f \in [op : {"drain"}, batch : SUBSET Observers, stalled : SUBSET Observers]
    BY <1>3 DEF Frame
  <1> QED BY <1>1, <1>2, <1>3 DEF Frame

-----------------------------------------------------------------------------
(* A call begins.                                                            *)
LEMMA Push ==
  ASSUME NEW st \in Seq(Frame), NEW f \in Frame
  PROVE  /\ \A borrowed : OneBorrow(st, borrowed) /\ f.op # "update" => OneBorrow(Append(st, f), borrowed)
         /\ \A borrowed : OneBorrow(st, borrowed) /\ f.op = "update" /\ f.who \notin borrowed
            /\ (\A i \in DOMAIN st : ~(st[i].op = "update" /\ st[i].who = f.who))
              => OneBorrow(Append(st, f), borrowed)
         /\ RoundsOf(Append(st, f)) = IF f.op = "notify" THEN RoundsOf(st) \cup {Len(st) + 1}
                                                         ELSE RoundsOf(st)
         /\ Draining(Append(st, f)) <=> Draining(st) \/ f.op = "drain"
         /\ DrainsFirst(st) /\ f.op # "drain" /\ (st = <<>> => f.op # "update")
              => DrainsFirst(Append(st, f))
         /\ \A v : HeldBy(Append(st, f), v) <=> HeldBy(st, v) \/ Holds(f, v)
  <1> DEFINE p == Append(st, f)
             n == Len(st)
  <1>1. /\ DOMAIN p = 1..n + 1 /\ DOMAIN st = 1..n /\ n \in Nat
        /\ \A i \in 1..n : p[i] = st[i]
        /\ p[n + 1] = f
    BY PushProperties
  <1>2. st # <<>> => n > 0
    BY <1>1, EmptySeq
  <1> HIDE DEF p, n
  <1>3. \A i \in 1..n + 1 : i \in 1..n \/ i = n + 1
    BY <1>1
  <1>4. /\ \A borrowed : OneBorrow(st, borrowed) /\ f.op # "update" => OneBorrow(p, borrowed)
        /\ \A borrowed : OneBorrow(st, borrowed) /\ f.op = "update" /\ f.who \notin borrowed
           /\ (\A i \in DOMAIN st : ~(st[i].op = "update" /\ st[i].who = f.who))
             => OneBorrow(p, borrowed)
    BY <1>1, <1>3 DEF OneBorrow
  <1>5. RoundsOf(p) = IF f.op = "notify" THEN RoundsOf(st) \cup {n + 1} ELSE RoundsOf(st)
    BY <1>1, <1>3 DEF RoundsOf
  <1>6. Draining(p) <=> Draining(st) \/ f.op = "drain"
    BY <1>1, <1>3 DEF Draining
  <1>7. DrainsFirst(st) /\ f.op # "drain" /\ (st = <<>> => f.op # "update") => DrainsFirst(p)
    <2>1. st = <<>> => n = 0
      BY DEF n
    <2> QED BY <1>1, <1>2, <1>3, <2>1 DEF DrainsFirst
  <1>8. \A v : HeldBy(p, v) <=> HeldBy(st, v) \/ Holds(f, v)
    BY <1>1, <1>3 DEF HeldBy
  <1> QED BY <1>4, <1>5, <1>6, <1>7, <1>8 DEF p, n

(* The top call returns.                                                     *)
LEMMA Pop ==
  ASSUME NEW st \in Seq(Frame), st # <<>>
  PROVE  LET p == SubSeq(st, 1, Len(st) - 1)
             f == st[Len(st)]
         IN  /\ \A borrowed : OneBorrow(st, borrowed) => OneBorrow(p, borrowed)
             /\ RoundsOf(p) = RoundsOf(st) \ {Len(st)}
             /\ Draining(st) <=> Draining(p) \/ f.op = "drain"
             /\ DrainsFirst(st) => DrainsFirst(p)
             /\ \A v : HeldBy(st, v) <=> HeldBy(p, v) \/ Holds(f, v)
             /\ DrainsFirst(st) /\ f.op = "drain" => p = <<>>
             /\ p = <<>> <=> Len(st) = 1
             /\ p \in Seq(Frame) /\ f \in Frame
             /\ \A i \in DOMAIN p : i \in DOMAIN st /\ i # Len(st) /\ p[i] = st[i]
             /\ Len(st) \in DOMAIN st
  <1> DEFINE p == SubSeq(st, 1, Len(st) - 1)
             n == Len(st)
             f == st[n]
  <1>1. /\ p \in Seq(Frame) /\ f \in Frame /\ Len(p) = n - 1 /\ n \in Nat \ {0}
        /\ \A i \in 1..n - 1 : p[i] = st[i]
    BY FrontProperties
  <1>2. DOMAIN p = 1..n - 1 /\ DOMAIN st = 1..n
    BY <1>1, LenProperties
  <1> HIDE DEF p, n
  <1>3. p = <<>> <=> n = 1
    <2>1. (p = <<>> => Len(p) = 0) /\ (p # <<>> => Len(p) # 0)
      BY <1>1, EmptySeq
    <2> QED BY <1>1, <2>1
  <1>4. \A i \in 1..n : i \in 1..n - 1 \/ i = n
    BY <1>1
  <1>5. \A i \in 1..n - 1 : i \in 1..n /\ i # n
    BY <1>1
  <1>6. n \in 1..n /\ (n = 1 \/ 1 \in 1..n - 1)
    BY <1>1
  <1>7. \A borrowed : OneBorrow(st, borrowed) => OneBorrow(p, borrowed)
    BY <1>1, <1>2, <1>5 DEF OneBorrow
  <1>8. RoundsOf(p) = RoundsOf(st) \ {n}
    BY <1>1, <1>2, <1>4, <1>5 DEF RoundsOf
  <1>9. Draining(st) <=> Draining(p) \/ f.op = "drain"
    BY <1>1, <1>2, <1>4, <1>5, <1>6 DEF Draining
  <1>10. DrainsFirst(st) => DrainsFirst(p)
    BY <1>1, <1>2, <1>3, <1>5, <1>6 DEF DrainsFirst
  <1>11. \A v : HeldBy(st, v) <=> HeldBy(p, v) \/ Holds(f, v)
    BY <1>1, <1>2, <1>4, <1>5, <1>6 DEF HeldBy
  <1>12. DrainsFirst(st) /\ f.op = "drain" => p = <<>>
    BY <1>2, <1>3, <1>6 DEF DrainsFirst
  <1> QED BY <1>1, <1>2, <1>3, <1>5, <1>6, <1>7, <1>8, <1>9, <1>10, <1>11, <1>12 DEF p, n

(* The top call moves on, as a call of the same kind on the same observer.   *)
LEMMA Replace ==
  ASSUME NEW st \in Seq(Frame), st # <<>>, NEW g \in Frame,
         g.op = st[Len(st)].op,
         g.op = "update" => g.who = st[Len(st)].who
  PROVE  LET r == Append(SubSeq(st, 1, Len(st) - 1), g)
         IN  /\ r \in Seq(Frame) /\ r # <<>>
             /\ \A borrowed : OneBorrow(st, borrowed) => OneBorrow(r, borrowed)
             /\ RoundsOf(r) = RoundsOf(st)
             /\ Draining(r) <=> Draining(st)
             /\ DrainsFirst(st) => DrainsFirst(r)
             /\ \A v : HeldBy(r, v) <=> HeldBy(SubSeq(st, 1, Len(st) - 1), v) \/ Holds(g, v)
             /\ \A v : (\E i \in DOMAIN r : r[i].op = "update" /\ r[i].who = v)
                         <=> \E i \in DOMAIN st : st[i].op = "update" /\ st[i].who = v
             /\ Len(r) = Len(st) /\ r[Len(r)] = g
             /\ SubSeq(r, 1, Len(r) - 1) = SubSeq(st, 1, Len(st) - 1)
  <1> DEFINE b == SubSeq(st, 1, Len(st) - 1)
             r == Append(b, g)
             n == Len(st)
             f == st[n]
  <1>1. /\ r \in Seq(Frame) /\ Len(r) = n /\ DOMAIN r = 1..n /\ r[n] = g
        /\ \A i \in 1..n - 1 : r[i] = st[i]
    BY ReplaceProperties
  <1>2. n \in Nat \ {0} /\ DOMAIN st = 1..n /\ b \in Seq(Frame)
    BY FrontProperties, LenProperties
  <1>3. r # <<>>
    BY <1>1, <1>2
  <1>4. \A v : HeldBy(r, v) <=> HeldBy(b, v) \/ Holds(g, v)
    BY <1>2, Push
  <1>0. Len(b) = n - 1 /\ \A i \in 1..n - 1 : b[i] = st[i]
    BY FrontProperties
  <1>6. g.op = f.op /\ (g.op = "update" => g.who = f.who)
    OBVIOUS
  <1> HIDE DEF b, r, n
  <1>5. SubSeq(r, 1, n - 1) = b
    <2> DEFINE q == SubSeq(r, 1, n - 1)
    <2>1. q \in Seq(Frame) /\ Len(q) = n - 1 /\ \A i \in 1..n - 1 : q[i] = r[i]
      BY <1>1, <1>3, FrontProperties
    <2> HIDE DEF q
    <2>2. q = b
      BY <1>0, <1>1, <1>2, <2>1, SeqEqual
    <2> QED BY <2>2 DEF q
  <1>7. \A i \in 1..n : i \in 1..n - 1 \/ i = n
    BY <1>2
  <1>8. n \in 1..n /\ 1 \in 1..n /\ st # <<>>
    BY <1>2
  <1>9. \A i \in 1..n : r[i].op = st[i].op /\ (r[i].op = "update" => r[i].who = st[i].who)
    BY <1>1, <1>6, <1>7
  <1>10. \A borrowed : OneBorrow(st, borrowed) => OneBorrow(r, borrowed)
    BY <1>1, <1>2, <1>9 DEF OneBorrow
  <1>11. RoundsOf(r) = RoundsOf(st)
    BY <1>1, <1>2, <1>9 DEF RoundsOf
  <1>12. Draining(r) <=> Draining(st)
    BY <1>1, <1>2, <1>9 DEF Draining
  <1>13. DrainsFirst(st) => DrainsFirst(r)
    BY <1>1, <1>2, <1>8, <1>9 DEF DrainsFirst
  <1>14. \A v : (\E i \in DOMAIN r : r[i].op = "update" /\ r[i].who = v)
                  <=> \E i \in DOMAIN st : st[i].op = "update" /\ st[i].who = v
    BY <1>1, <1>2, <1>9
  <1> QED BY <1>1, <1>3, <1>4, <1>5, <1>10, <1>11, <1>12, <1>13, <1>14 DEF b, r, n

-----------------------------------------------------------------------------
(* The three invariants in terms of the stack.                               *)
LEMMA Restated ==
    /\ NoSecondBorrow <=> OneBorrow(stack, held)
    /\ OutermostDrains <=> /\ depth = Cardinality(RoundsOf(stack))
                           /\ draining <=> Draining(stack)
                           /\ DrainsFirst(stack)
    /\ OwedIsPromised <=> \A v \in owed : v \in pending \/ v \in dropped \/ HeldBy(stack, v)
  BY DEF NoSecondBorrow, OneBorrow, OutermostDrains, Rounds, RoundsOf, Draining, DrainsFirst,
         OwedIsPromised, Promised, InSnapshot, HeldBy, Holds

(* The same of the next state.                                               *)
LEMMA RestatedNext ==
    /\ NoSecondBorrow' <=> OneBorrow(stack', held')
    /\ OutermostDrains' <=> /\ depth' = Cardinality(RoundsOf(stack'))
                            /\ draining' <=> Draining(stack')
                            /\ DrainsFirst(stack')
    /\ OwedIsPromised' <=>
         \A v \in owed' : v \in pending' \/ v \in dropped' \/ HeldBy(stack', v)
  BY DEF NoSecondBorrow, OneBorrow, OutermostDrains, Rounds, RoundsOf, Draining, DrainsFirst,
         OwedIsPromised, Promised, InSnapshot, HeldBy, Holds

(* The top frame, and what is below it.                                      *)
LEMMA TopProperties ==
  ASSUME TypeOK, stack # <<>>
  PROVE  /\ Top \in Frame /\ Below \in Seq(Frame)
         /\ \A g \in Frame : ReplaceTop(g) \in Seq(Frame) /\ ReplaceTop(g) # <<>>
  <1>1. Top \in Frame /\ Below \in Seq(Frame)
    BY FrontProperties DEF TypeOK, Top, Below
  <1>2. ASSUME NEW g \in Frame PROVE Append(Below, g) \in Seq(Frame) /\ Append(Below, g) # <<>>
    BY <1>1, AppendProperties
  <1> QED BY <1>1, <1>2 DEF ReplaceTop

(* A round starts: what it finds are entries, and so are those it keeps.     *)
LEMMA RoundTypes ==
  ASSUME NEW s \in Subjects, NEW entries \in [Subjects -> SUBSET Entry],
         NEW below \in Seq(Frame), StartRound(entries, s, below),
         depth \in Nat, owed \in SUBSET Observers
  PROVE  /\ registry' \in [Subjects -> SUBSET Entry] /\ stack' \in Seq(Frame)
         /\ depth' \in Nat /\ owed' \in SUBSET Observers
  <1>1. Pruned(entries[s]) \in SUBSET Entry
    BY DEF Pruned
  <1>2. NotifyFrame(Pruned(entries[s])) \in Frame
    BY <1>1, FrameTypes
  <1>3. \A e \in Entry : e.observer \in Observers
    BY DEF Entry
  <1>4. Append(below, NotifyFrame(Pruned(entries[s]))) \in Seq(Frame)
    BY <1>2, AppendProperties
  <1> QED BY <1>1, <1>3, <1>4 DEF StartRound

(* The fields of an entry.                                                   *)
LEMMA EntryFields == \A e \in Entry : e.observer \in Observers /\ e.defer \in BOOLEAN
  BY DEF Entry

(* Entries made by a registration are entries.                               *)
LEMMA NewEntryType == \A v \in Observers : NewEntry(v) \in Entry
  BY DEF NewEntry, Entry, Busy, OnStack

(* Every step of a round or a drain keeps the types.                         *)
LEMMA LoopTypes ==
  ASSUME TypeOK, RoundUpdate \/ RoundDefer \/ RoundDiscard \/ RoundEnd
                 \/ DrainTake \/ DrainUpdate \/ DrainSkip \/ DrainStall \/ DrainEnd,
         depth' \in Nat
  PROVE  TypeOK'
  <1>1. CASE RoundUpdate
    <2>1. PICK e \in Top.todo :
            /\ stack' = Append(ReplaceTop(Done(Top, e)), UpdateFrame(e.observer))
            /\ owed' = owed \ {e.observer}
      BY <1>1 DEF RoundUpdate, Done
    <2>2. Top \in Frame /\ Top.op = "notify" /\ e \in Entry /\ e.observer \in Observers
      BY <1>1, <2>1, TopProperties, FrameFields, EntryFields DEF RoundUpdate, TopIs
    <2>3. ReplaceTop(Done(Top, e)) \in Seq(Frame)
      BY <1>1, <2>2, TopProperties, FrameFields DEF RoundUpdate, TopIs
    <2>4. stack' \in Seq(Frame)
      BY <2>1, <2>2, <2>3, FrameTypes, AppendProperties
    <2> QED BY <1>1, <2>1, <2>4 DEF RoundUpdate, TypeOK
  <1>2. CASE RoundDefer \/ RoundDiscard
    <2>1. PICK e \in Top.todo :
            /\ stack' = ReplaceTop(Done(Top, e))
            /\ pending' \in {pending, pending \cup {e.observer}}
            /\ owed' \in {owed, owed \ {e.observer}}
      BY <1>2 DEF RoundDefer, RoundDiscard, Done
    <2>2. Top \in Frame /\ Top.op = "notify" /\ e \in Entry /\ e.observer \in Observers
      BY <1>2, <2>1, TopProperties, FrameFields, EntryFields DEF RoundDefer, RoundDiscard, TopIs
    <2>3. stack' \in Seq(Frame)
      BY <1>2, <2>1, <2>2, TopProperties, FrameFields DEF RoundDefer, RoundDiscard, TopIs
    <2> QED BY <1>2, <2>1, <2>2, <2>3 DEF RoundDefer, RoundDiscard, TypeOK
  <1>3. CASE RoundEnd
    BY <1>3, TopProperties, FrameTypes DEF RoundEnd, TopIs, TypeOK
  <1>4. CASE DrainTake
    <2>1. Taking(Top, pending) \in Frame /\ stack # <<>>
      BY <1>4, TopProperties, FrameFields DEF DrainTake, TopIs, TypeOK
    <2>2. stack' = ReplaceTop(Taking(Top, pending))
      BY <1>4 DEF DrainTake, Taking
    <2>3. stack' \in Seq(Frame)
      BY <2>1, <2>2, TopProperties
    <2> QED BY <1>4, <2>3 DEF DrainTake, TypeOK
  <1>5. CASE DrainUpdate \/ DrainSkip \/ DrainStall
    <2>1. /\ stack # <<>> /\ Top \in Frame /\ Top.op = "drain"
          /\ Top.batch \in SUBSET Observers /\ Top.stalled \in SUBSET Observers
      BY <1>5, TopProperties, FrameFields DEF DrainUpdate, DrainSkip, DrainStall, TopIs
    <2>2. ASSUME NEW v \in Top.batch
          PROVE  /\ ReplaceTop(Delivering(Top, v)) \in Seq(Frame)
                 /\ ReplaceTop(SettingAside(Top, v)) \in Seq(Frame)
                 /\ Append(ReplaceTop(Delivering(Top, v)), UpdateFrame(v)) \in Seq(Frame)
      <3>1. v \in Observers /\ Top.batch \ {v} \in SUBSET Observers
            /\ Top.stalled \cup {v} \in SUBSET Observers
        BY <2>1
      <3>2. /\ Delivering(Top, v) \in Frame
            /\ SettingAside(Top, v) \in Frame
        BY <2>1, <3>1, FrameFields
      <3> QED BY <2>1, <3>1, <3>2, TopProperties, FrameTypes, AppendProperties
    <2>3. stack' \in Seq(Frame) /\ owed' \in SUBSET Observers
      BY <1>5, <2>2 DEF DrainUpdate, DrainSkip, DrainStall, Delivering, SettingAside, TypeOK
    <2> QED BY <1>5, <2>3 DEF DrainUpdate, DrainSkip, DrainStall, TypeOK
  <1>6. CASE DrainEnd
    <2>1. Top.stalled \in SUBSET Observers /\ Below \in Seq(Frame)
      BY <1>6, TopProperties, FrameFields DEF DrainEnd, TopIs
    <2> QED BY <1>6, <2>1 DEF DrainEnd, TypeOK
  <1> QED BY <1>1, <1>2, <1>3, <1>4, <1>5, <1>6

(* Every step keeps every variable in its type.  The depth is a number: it   *)
(* counts the rounds, so no guard takes it below 0.                          *)
LEMMA TypeStep ==
  ASSUME TypeOK, [Next]_vars, depth' \in Nat
  PROVE  TypeOK'
  <1>1. CASE UNCHANGED vars
    BY <1>1 DEF vars, TypeOK
  <1>2. CASE RoundUpdate \/ RoundDefer \/ RoundDiscard \/ RoundEnd
              \/ DrainTake \/ DrainUpdate \/ DrainSkip \/ DrainStall \/ DrainEnd
    BY <1>2, LoopTypes
  <1>3. CASE ForwardBroadcast
    <2>1. ReplaceTop(Sent(Top)) \in Seq(Frame)
      BY <1>3, TopProperties, FrameFields DEF ForwardBroadcast, TopIs
    <2>2. /\ StartRound(registry, Target[Top.who], ReplaceTop(Sent(Top)))
          /\ Target[Top.who] \in Subjects
      BY <1>3 DEF ForwardBroadcast, Sent
    <2>3. /\ registry' \in [Subjects -> SUBSET Entry] /\ stack' \in Seq(Frame)
          /\ owed' \in SUBSET Observers
      BY <2>1, <2>2, RoundTypes DEF TypeOK
    <2> QED BY <1>3, <2>3 DEF ForwardBroadcast, TypeOK
  <1>4. CASE ForwardDeliver
    <2>1. ReplaceTop(Sent(Top)) \in Seq(Frame)
      BY <1>4, TopProperties, FrameFields DEF ForwardDeliver, TopIs
    <2>2. Append(ReplaceTop(Sent(Top)), UpdateFrame(Target[Top.who])) \in Seq(Frame)
      BY <1>4, <2>1, FrameTypes, AppendProperties DEF ForwardDeliver
    <2>3. stack' \in {ReplaceTop(Sent(Top)), Append(ReplaceTop(Sent(Top)), UpdateFrame(Target[Top.who]))}
      BY <1>4 DEF ForwardDeliver, Sent
    <2>4. stack' \in Seq(Frame)
      BY <2>1, <2>2, <2>3
    <2> QED BY <1>4, <2>4 DEF ForwardDeliver, TypeOK
  <1>5. CASE Return
    BY <1>5, TopProperties DEF Return, TopIs, TypeOK
  <1>6. ASSUME NEW s \in Subjects, Notify(s) PROVE TypeOK'
    BY <1>6, RoundTypes, ConstantsAssumption DEF Notify, TypeOK
  <1>7. ASSUME NEW v \in Registrable, NEW s \in Subjects,
               RegisterObserver(v, s) \/ UnregisterObserver(v, s)
        PROVE  TypeOK'
    <2>1. v \in Observers /\ NewEntry(v) \in Entry
      BY NewEntryType, ConstantsAssumption
    <2>2. Pruned(registry[s]) \in SUBSET Entry
      BY DEF Pruned, TypeOK
    <2>3. registry' \in [Subjects -> SUBSET Entry]
      BY <1>7, <2>1, <2>2 DEF RegisterObserver, UnregisterObserver, TypeOK
    <2> QED BY <1>7, <2>3, ConstantsAssumption DEF RegisterObserver, UnregisterObserver, Edit, TypeOK
  <1>8. ASSUME NEW v \in Observers, Drop(v) \/ Hold(v) \/ Release(v) PROVE TypeOK'
    BY <1>8, ConstantsAssumption DEF Drop, Hold, Release, Edit, TypeOK
  <1>9. CASE Panic
    <2>1. <<>> \in Seq(Frame)
      BY EmptySeq
    <2>2. owed' \in SUBSET Observers
      BY <1>9 DEF Panic, TypeOK
    <2>4. edits' \in 0..MaxEdits
      BY <1>9, ConstantsAssumption DEF Panic, TypeOK
    <2>5. draining' \in BOOLEAN
      BY <1>9, Zenon DEF Panic
    <2>3. stack' \in Seq(Frame)
      BY <1>9, <2>1 DEF Panic
    <2> QED BY <1>9, <2>2, <2>3, <2>4, <2>5 DEF Panic, TypeOK
  <1> QED
    BY <1>1, <1>2, <1>3, <1>4, <1>5, <1>6, <1>7, <1>8, <1>9 DEF Next, Engine, Client

-----------------------------------------------------------------------------
(* The rounds on a stack are finitely many.                                  *)
LEMMA FiniteRounds ==
  ASSUME NEW st \in Seq(Frame)
  PROVE  /\ IsFiniteSet(RoundsOf(st)) /\ Cardinality(RoundsOf(st)) \in Nat
         /\ Cardinality(RoundsOf(st) \cup {Len(st) + 1}) = Cardinality(RoundsOf(st)) + 1
         /\ st # <<>> /\ st[Len(st)].op = "notify"
              => Cardinality(RoundsOf(st) \ {Len(st)}) = Cardinality(RoundsOf(st)) - 1
         /\ st # <<>> /\ st[Len(st)].op # "notify" => RoundsOf(st) \ {Len(st)} = RoundsOf(st)
         /\ Cardinality(RoundsOf(st)) = 0 => RoundsOf(st) = {}
  <1>1. Len(st) \in Nat /\ DOMAIN st = 1..Len(st)
    BY LenProperties
  <1>2. RoundsOf(st) \subseteq 1..Len(st)
    BY <1>1 DEF RoundsOf
  <1>3. IsFiniteSet(1..Len(st))
    BY <1>1, FS_Interval
  <1>4. IsFiniteSet(RoundsOf(st))
    BY <1>2, <1>3, FS_Subset
  <1>5. Cardinality(RoundsOf(st)) \in Nat /\ (Cardinality(RoundsOf(st)) = 0 => RoundsOf(st) = {})
    BY <1>4, FS_CardinalityType, FS_EmptySet
  <1>6. Len(st) + 1 \notin RoundsOf(st)
    BY <1>1, <1>2
  <1>7. Cardinality(RoundsOf(st) \cup {Len(st) + 1}) = Cardinality(RoundsOf(st)) + 1
    BY <1>4, <1>6, FS_AddElement
  <1>8. ASSUME st # <<>>
        PROVE  Len(st) \in RoundsOf(st) <=> st[Len(st)].op = "notify"
    BY <1>1, <1>8, EmptySeq DEF RoundsOf
  <1>9. st # <<>> /\ st[Len(st)].op = "notify"
          => Cardinality(RoundsOf(st) \ {Len(st)}) = Cardinality(RoundsOf(st)) - 1
    BY <1>4, <1>8, FS_RemoveElement
  <1>10. st # <<>> /\ st[Len(st)].op # "notify" => RoundsOf(st) \ {Len(st)} = RoundsOf(st)
    BY <1>8
  <1> QED BY <1>4, <1>5, <1>7, <1>9, <1>10

(* A round starts, from the top or under a call that was going on.           *)
LEMMA RoundDrains ==
  ASSUME TypeOK, OutermostDrains,
         NEW s \in Subjects, NEW entries \in [Subjects -> SUBSET Entry],
         NEW below \in Seq(Frame), StartRound(entries, s, below),
         RoundsOf(below) = RoundsOf(stack), Draining(below) <=> Draining(stack),
         DrainsFirst(below), UNCHANGED draining
  PROVE  OutermostDrains'
  <1> DEFINE g == NotifyFrame(Pruned(entries[s]))
  <1>1. g \in Frame /\ g.op = "notify"
    BY FrameTypes DEF Pruned, NotifyFrame
  <1>2. stack' = Append(below, g) /\ depth' = depth + 1
    BY DEF StartRound
  <1> HIDE DEF g
  <1>3. /\ RoundsOf(stack') = RoundsOf(below) \cup {Len(below) + 1}
        /\ Draining(stack') <=> Draining(below)
        /\ DrainsFirst(stack')
    BY <1>1, <1>2, Push
  <1>4. Cardinality(RoundsOf(stack')) = Cardinality(RoundsOf(below)) + 1
    BY <1>3, FiniteRounds
  <1> QED BY <1>2, <1>3, <1>4, Restated, RestatedNext

(* The outermost round, and it alone, becomes the drain, unless one runs     *)
(* below it.                                                                 *)
LEMMA RoundEndDrains ==
  ASSUME TypeOK, OutermostDrains, RoundEnd
  PROVE  OutermostDrains' /\ depth' \in Nat
  <1> DEFINE n == Len(stack)
  <1>1. /\ stack # <<>> /\ stack \in Seq(Frame) /\ Top = stack[n] /\ Top.op = "notify"
        /\ depth' = depth - 1 /\ Below \in Seq(Frame)
    BY TopProperties DEF RoundEnd, TopIs, Top, TypeOK
  <1>2. /\ depth = Cardinality(RoundsOf(stack)) /\ DrainsFirst(stack)
        /\ draining <=> Draining(stack)
    BY Restated
  <1>3. /\ RoundsOf(Below) = RoundsOf(stack) \ {n} /\ DrainsFirst(Below)
        /\ Draining(stack) <=> Draining(Below)
        /\ Below = <<>> <=> n = 1
        /\ \A i \in DOMAIN Below : i \in DOMAIN stack /\ i # n /\ Below[i] = stack[i]
    <2>1. /\ RoundsOf(Below) = RoundsOf(stack) \ {Len(stack)} /\ DrainsFirst(Below)
          /\ Draining(stack) <=> Draining(Below) \/ stack[Len(stack)].op = "drain"
          /\ Below = <<>> <=> Len(stack) = 1
          /\ \A i \in DOMAIN Below : i \in DOMAIN stack /\ i # Len(stack) /\ Below[i] = stack[i]
      BY <1>1, <1>2, Pop DEF Below
    <2>2. stack[Len(stack)].op # "drain"
      BY <1>1
    <2> QED BY <2>1, <2>2
  <1>4. Cardinality(RoundsOf(Below)) = depth'
    BY <1>1, <1>2, <1>3, FiniteRounds
  <1>5. depth' \in Nat
    BY <1>1, <1>4, FiniteRounds
  <1>6. CASE depth' = 0 /\ ~draining
    <2>1. RoundsOf(Below) = {}
      BY <1>1, <1>4, <1>6, FiniteRounds
    <2>2. Below = <<>>
      <3> SUFFICES ASSUME Below # <<>> PROVE FALSE
        OBVIOUS
      <3>1. 1 \in DOMAIN Below /\ Below[1] \in Frame
        BY <1>1, EmptySeq, LenProperties, ElementOfSeq
      <3>2. Below[1].op \in {"notify", "update", "drain"}
        BY <3>1, FrameFields
      <3> QED BY <1>2, <1>3, <1>6, <2>1, <3>1, <3>2 DEF RoundsOf, Draining, DrainsFirst
    <2>3. stack' = Append(<<>>, DrainFrame) /\ draining'
      BY <1>6, <2>2 DEF RoundEnd, ReplaceTop
    <2>4. stack' = <<DrainFrame>>
      BY <2>3
    <2>5. /\ DOMAIN stack' = {1} /\ stack'[1].op = "drain" /\ stack' # <<>>
      BY <2>4 DEF DrainFrame
    <2>6. RoundsOf(stack') = {} /\ Draining(stack') /\ DrainsFirst(stack')
      BY <2>5 DEF RoundsOf, Draining, DrainsFirst
    <2> QED BY <1>4, <1>5, <2>1, <2>3, <2>6, RestatedNext
  <1>7. CASE ~(depth' = 0 /\ ~draining)
    <2>1. stack' = Below /\ draining' = draining
      BY <1>7 DEF RoundEnd, TypeOK
    <2> QED BY <1>2, <1>3, <1>4, <1>5, <2>1, RestatedNext
  <1> QED BY <1>6, <1>7

(* Every step leaves the depth and the latch as the stack says.              *)
LEMMA DrainsStep ==
  ASSUME TypeOK, OutermostDrains, [Next]_vars
  PROVE  OutermostDrains' /\ depth' \in Nat
  <1>0. /\ depth = Cardinality(RoundsOf(stack)) /\ DrainsFirst(stack) /\ depth \in Nat
        /\ draining <=> Draining(stack)
        /\ stack \in Seq(Frame)
    BY Restated DEF TypeOK
  <1>1. ASSUME stack' = stack, depth' = depth, draining' = draining
        PROVE  OutermostDrains' /\ depth' \in Nat
    BY <1>0, <1>1, RestatedNext
  <1>2. ASSUME NEW g \in Frame, stack # <<>>, g.op = Top.op,
               g.op = "update" => g.who = Top.who
        PROVE  /\ RoundsOf(ReplaceTop(g)) = RoundsOf(stack)
               /\ Draining(ReplaceTop(g)) <=> Draining(stack)
               /\ DrainsFirst(ReplaceTop(g))
               /\ ReplaceTop(g) \in Seq(Frame) /\ ReplaceTop(g) # <<>>
    BY <1>0, <1>2, Replace DEF Top, ReplaceTop, Below
  <1>3. ASSUME NEW v \in Observers, NEW st \in Seq(Frame), st # <<>>,
               RoundsOf(st) = RoundsOf(stack), Draining(st) <=> Draining(stack), DrainsFirst(st)
        PROVE  /\ RoundsOf(Append(st, UpdateFrame(v))) = RoundsOf(stack)
               /\ Draining(Append(st, UpdateFrame(v))) <=> Draining(stack)
               /\ DrainsFirst(Append(st, UpdateFrame(v)))
    <2>1. UpdateFrame(v) \in Frame /\ UpdateFrame(v).op = "update"
      BY FrameTypes DEF UpdateFrame
    <2> QED BY <1>3, <2>1, Push
  <1>4. ASSUME RoundsOf(stack') = RoundsOf(stack), Draining(stack') <=> Draining(stack),
               DrainsFirst(stack'), UNCHANGED <<depth, draining>>
        PROVE  OutermostDrains' /\ depth' \in Nat
    BY <1>0, <1>4, RestatedNext
  <1>5. CASE RoundUpdate
    <2>1. PICK e \in Top.todo :
            stack' = Append(ReplaceTop(Done(Top, e)), UpdateFrame(e.observer))
      BY <1>5 DEF RoundUpdate, Done
    <2>2. stack # <<>> /\ Top \in Frame /\ Top.op = "notify" /\ e \in Entry /\ e.observer \in Observers
      BY <1>5, <2>1, TopProperties, FrameFields, EntryFields DEF RoundUpdate, TopIs
    <2> DEFINE g == Done(Top, e)
    <2>3. g \in Frame /\ g.op = "notify"
      BY <2>2, FrameFields
    <2> HIDE DEF g
    <2>4. /\ ReplaceTop(g) \in Seq(Frame) /\ ReplaceTop(g) # <<>>
          /\ RoundsOf(ReplaceTop(g)) = RoundsOf(stack) /\ DrainsFirst(ReplaceTop(g))
          /\ Draining(ReplaceTop(g)) <=> Draining(stack)
      BY <1>2, <2>2, <2>3
    <2>5. stack' = Append(ReplaceTop(g), UpdateFrame(e.observer))
      BY <2>1 DEF g
    <2> QED BY <1>3, <1>4, <1>5, <2>2, <2>4, <2>5 DEF RoundUpdate
  <1>6. CASE RoundDefer \/ RoundDiscard
    <2>1. PICK e \in Top.todo : stack' = ReplaceTop(Done(Top, e))
      BY <1>6 DEF RoundDefer, RoundDiscard, Done
    <2>2. stack # <<>> /\ Top \in Frame /\ Top.op = "notify" /\ e \in Entry
      BY <1>6, <2>1, TopProperties, FrameFields DEF RoundDefer, RoundDiscard, TopIs
    <2>3. Done(Top, e) \in Frame /\ Done(Top, e).op = "notify"
      BY <2>2, FrameFields
    <2> QED BY <1>2, <1>4, <1>6, <2>1, <2>2, <2>3 DEF RoundDefer, RoundDiscard
  <1>7. CASE RoundEnd
    BY <1>7, RoundEndDrains
  <1>8. CASE DrainTake
    <2>1. stack # <<>> /\ Top \in Frame /\ Top.op = "drain" /\ pending \in SUBSET Observers
      BY <1>8, TopProperties DEF DrainTake, TopIs, TypeOK
    <2>2. Taking(Top, pending) \in Frame /\ Taking(Top, pending).op = "drain"
      BY <2>1, FrameFields
    <2>3. stack' = ReplaceTop(Taking(Top, pending)) /\ UNCHANGED <<depth, draining>>
      BY <1>8 DEF DrainTake, Taking
    <2> QED BY <1>2, <1>4, <2>1, <2>2, <2>3
  <1>9. CASE DrainUpdate \/ DrainSkip \/ DrainStall
    <2>1. /\ stack # <<>> /\ Top \in Frame /\ Top.op = "drain"
          /\ Top.batch \in SUBSET Observers /\ Top.stalled \in SUBSET Observers
      BY <1>9, TopProperties, FrameFields DEF DrainUpdate, DrainSkip, DrainStall, TopIs
    <2>2. PICK v \in Top.batch :
            \/ stack' = Append(ReplaceTop(Delivering(Top, v)), UpdateFrame(v))
            \/ stack' = ReplaceTop(Delivering(Top, v))
            \/ stack' = ReplaceTop(SettingAside(Top, v))
      BY <1>9 DEF DrainUpdate, DrainSkip, DrainStall, Delivering, SettingAside
    <2> DEFINE g == Delivering(Top, v)
               h == SettingAside(Top, v)
    <2>3. v \in Observers /\ Top.batch \ {v} \in SUBSET Observers
          /\ Top.stalled \cup {v} \in SUBSET Observers
      BY <2>1
    <2>4. g \in Frame /\ g.op = "drain" /\ h \in Frame /\ h.op = "drain"
      BY <2>1, <2>3, FrameFields
    <2>5. \/ stack' = Append(ReplaceTop(g), UpdateFrame(v))
          \/ stack' = ReplaceTop(g)
          \/ stack' = ReplaceTop(h)
      BY <2>2
    <2> HIDE DEF g, h
    <2>6. RoundsOf(stack') = RoundsOf(stack) /\ (Draining(stack') <=> Draining(stack))
          /\ DrainsFirst(stack')
      <3>1. /\ RoundsOf(ReplaceTop(g)) = RoundsOf(stack) /\ DrainsFirst(ReplaceTop(g))
            /\ Draining(ReplaceTop(g)) <=> Draining(stack)
            /\ ReplaceTop(g) \in Seq(Frame) /\ ReplaceTop(g) # <<>>
        BY <1>2, <2>1, <2>4
      <3>2. /\ RoundsOf(ReplaceTop(h)) = RoundsOf(stack) /\ DrainsFirst(ReplaceTop(h))
            /\ Draining(ReplaceTop(h)) <=> Draining(stack)
        BY <1>2, <2>1, <2>4
      <3>3. /\ RoundsOf(Append(ReplaceTop(g), UpdateFrame(v))) = RoundsOf(stack)
            /\ DrainsFirst(Append(ReplaceTop(g), UpdateFrame(v)))
            /\ Draining(Append(ReplaceTop(g), UpdateFrame(v))) <=> Draining(stack)
        BY <1>3, <2>3, <3>1
      <3> QED BY <2>5, <3>1, <3>2, <3>3
    <2> QED BY <1>4, <1>9, <2>6 DEF DrainUpdate, DrainSkip, DrainStall
  <1>10. CASE DrainEnd
    <2>1. stack # <<>> /\ stack[Len(stack)].op = "drain" /\ stack' = Below /\ ~draining'
          /\ depth' = depth
      BY <1>10 DEF DrainEnd, TopIs, Top
    <2>2. Below = <<>> /\ RoundsOf(Below) = RoundsOf(stack) \ {Len(stack)} /\ DrainsFirst(Below)
      BY <1>0, <2>1, Pop DEF Below
    <2>3. RoundsOf(Below) = RoundsOf(stack)
      BY <1>0, <2>1, <2>2, FiniteRounds
    <2>4. ~Draining(<<>>)
      BY DEF Draining
    <2> QED BY <1>0, <2>1, <2>2, <2>3, <2>4, RestatedNext
  <1>11. CASE ForwardBroadcast \/ ForwardDeliver
    <2>1. stack # <<>> /\ Top \in Frame /\ Top.op = "update" /\ Top.who \in Forwarders
      BY <1>11, TopProperties DEF ForwardBroadcast, ForwardDeliver, TopIs
    <2> DEFINE g == Sent(Top)
    <2>2. g \in Frame /\ g.op = "update" /\ g.who = Top.who
      BY <2>1, FrameFields
    <2>3. /\ ForwardBroadcast => StartRound(registry, Target[Top.who], ReplaceTop(g))
          /\ ForwardDeliver => stack' \in {ReplaceTop(g), Append(ReplaceTop(g), UpdateFrame(Target[Top.who]))}
      BY DEF ForwardBroadcast, ForwardDeliver, Sent
    <2> HIDE DEF g
    <2>4. /\ RoundsOf(ReplaceTop(g)) = RoundsOf(stack) /\ DrainsFirst(ReplaceTop(g))
          /\ Draining(ReplaceTop(g)) <=> Draining(stack)
          /\ ReplaceTop(g) \in Seq(Frame) /\ ReplaceTop(g) # <<>>
      BY <1>2, <2>1, <2>2
    <2>5. CASE ForwardBroadcast
      <3>1. Target[Top.who] \in Subjects /\ UNCHANGED draining /\ registry \in [Subjects -> SUBSET Entry]
        BY <2>5 DEF ForwardBroadcast, TypeOK
      <3>2. OutermostDrains'
        BY <2>3, <2>4, <2>5, <3>1, RoundDrains
      <3> QED BY <1>0, <2>3, <2>5, <3>2 DEF StartRound
    <2>6. CASE ForwardDeliver
      <3>1. Target[Top.who] \in Observers
        BY <2>6 DEF ForwardDeliver
      <3>2. RoundsOf(stack') = RoundsOf(stack) /\ (Draining(stack') <=> Draining(stack))
            /\ DrainsFirst(stack')
        <4>1. CASE stack' = ReplaceTop(g)
          BY <2>4, <4>1
        <4>2. CASE stack' = Append(ReplaceTop(g), UpdateFrame(Target[Top.who]))
          <5> DEFINE v == Target[Top.who]
          <5>1. v \in Observers /\ stack' = Append(ReplaceTop(g), UpdateFrame(v))
            BY <3>1, <4>2
          <5> HIDE DEF v
          <5> QED BY <1>3, <2>4, <5>1
        <4> QED BY <2>3, <2>6, <4>1, <4>2
      <3> QED BY <1>4, <2>6, <3>2 DEF ForwardDeliver
    <2> QED BY <1>11, <2>5, <2>6
  <1>12. CASE Return
    <2>1. stack # <<>> /\ stack[Len(stack)].op = "update" /\ stack' = Below
      BY <1>12 DEF Return, TopIs, Top
    <2>2. /\ RoundsOf(Below) = RoundsOf(stack) \ {Len(stack)} /\ DrainsFirst(Below)
          /\ Draining(stack) <=> Draining(Below)
      BY <1>0, <2>1, Pop DEF Below
    <2>3. RoundsOf(Below) = RoundsOf(stack)
      BY <1>0, <2>1, <2>2, FiniteRounds
    <2> QED BY <1>4, <1>12, <2>1, <2>2, <2>3 DEF Return
  <1>13. ASSUME NEW s \in Subjects, Notify(s) PROVE OutermostDrains' /\ depth' \in Nat
    <2>1. StartRound(registry, s, stack) /\ UNCHANGED draining /\ registry \in [Subjects -> SUBSET Entry]
      BY <1>13 DEF Notify, TypeOK
    <2>2. OutermostDrains'
      BY <1>0, <2>1, RoundDrains
    <2> QED BY <1>0, <2>1, <2>2 DEF StartRound
  <1>14. CASE Panic
    <2>1. stack' = <<>> /\ depth' = 0 /\ ~draining'
      BY <1>14 DEF Panic
    <2>2. RoundsOf(<<>>) = {} /\ ~Draining(<<>>) /\ DrainsFirst(<<>>)
      BY DEF RoundsOf, Draining, DrainsFirst
    <2> QED BY <2>1, <2>2, FS_EmptySet, RestatedNext
  <1>15. ASSUME NEW v \in Observers, Drop(v) \/ Hold(v) \/ Release(v)
         PROVE  OutermostDrains' /\ depth' \in Nat
    BY <1>1, <1>15 DEF Drop, Hold, Release
  <1>16. ASSUME NEW v \in Registrable, NEW s \in Subjects,
                RegisterObserver(v, s) \/ UnregisterObserver(v, s)
         PROVE  OutermostDrains' /\ depth' \in Nat
    BY <1>1, <1>16 DEF RegisterObserver, UnregisterObserver
  <1>17. CASE UNCHANGED vars
    BY <1>1, <1>17 DEF vars
  <1> QED
    BY <1>5, <1>6, <1>7, <1>8, <1>9, <1>10, <1>11, <1>12, <1>13, <1>14, <1>15, <1>16, <1>17
       DEF Next, Engine, Client

-----------------------------------------------------------------------------
(* An observer that is not busy is borrowed, by the call on top.             *)
LEMMA UpdateBorrows ==
  ASSUME NEW g \in Frame, stack \in Seq(Frame), stack # <<>>, g.op = Top.op,
         g.op = "update" => g.who = Top.who, OneBorrow(stack, held)
  PROVE  /\ OneBorrow(ReplaceTop(g), held)
         /\ \A v \in Observers :
              ~Busy(v) => OneBorrow(Append(ReplaceTop(g), UpdateFrame(v)), held)
  <1>1. /\ ReplaceTop(g) \in Seq(Frame) /\ OneBorrow(ReplaceTop(g), held)
        /\ \A v : (\E i \in DOMAIN ReplaceTop(g) :
                     ReplaceTop(g)[i].op = "update" /\ ReplaceTop(g)[i].who = v)
                    <=> OnStack(v)
    BY Replace DEF Top, ReplaceTop, Below, OnStack
  <1>2. ASSUME NEW v \in Observers, ~Busy(v)
        PROVE  OneBorrow(Append(ReplaceTop(g), UpdateFrame(v)), held)
    <2>1. UpdateFrame(v) \in Frame /\ UpdateFrame(v).op = "update" /\ UpdateFrame(v).who = v
      BY FrameTypes DEF UpdateFrame
    <2>2. v \notin held /\ ~OnStack(v)
      BY <1>2 DEF Busy
    <2> QED BY <1>1, <2>1, <2>2, Push
  <1> QED BY <1>1, <1>2

(* Every step borrows only what is not borrowed.                             *)
LEMMA BorrowStep ==
  ASSUME TypeOK, NoSecondBorrow, [Next]_vars
  PROVE  NoSecondBorrow'
  <1>0. OneBorrow(stack, held) /\ stack \in Seq(Frame)
    BY Restated DEF TypeOK
  <1>1. ASSUME UNCHANGED <<stack, held>> PROVE NoSecondBorrow'
    BY <1>0, <1>1, RestatedNext
  <1>2. ASSUME stack' = <<>> PROVE NoSecondBorrow'
    BY <1>2 DEF NoSecondBorrow
  <1>3. ASSUME NEW g \in Frame, stack # <<>>, g.op = Top.op,
               g.op = "update" => g.who = Top.who,
               stack' = ReplaceTop(g) \/ \E v \in Observers :
                  ~Busy(v) /\ stack' = Append(ReplaceTop(g), UpdateFrame(v)),
               UNCHANGED held
        PROVE  NoSecondBorrow'
    BY <1>0, <1>3, UpdateBorrows, RestatedNext
  <1>4. ASSUME stack # <<>>, stack' = Below \/ stack' = ReplaceTop(DrainFrame), UNCHANGED held
        PROVE  NoSecondBorrow'
    <2>1. OneBorrow(Below, held) /\ Below \in Seq(Frame)
      BY <1>0, <1>4, Pop DEF Below
    <2>2. OneBorrow(Append(Below, DrainFrame), held)
      BY <2>1, FrameTypes, Push DEF DrainFrame
    <2> QED BY <1>4, <2>1, <2>2, RestatedNext DEF ReplaceTop
  <1>5. ASSUME NEW below \in Seq(Frame), OneBorrow(below, held),
               NEW entries, NEW s, StartRound(entries, s, below),
               Pruned(entries[s]) \in SUBSET Entry, UNCHANGED held
        PROVE  NoSecondBorrow'
    <2> DEFINE g == NotifyFrame(Pruned(entries[s]))
    <2>1. g \in Frame /\ g.op = "notify" /\ stack' = Append(below, g)
      BY <1>5, FrameTypes DEF StartRound, NotifyFrame
    <2> HIDE DEF g
    <2> QED BY <1>5, <2>1, Push, RestatedNext
  <1>6. \A s \in Subjects : Pruned(registry[s]) \in SUBSET Entry
    BY DEF Pruned, TypeOK
  <1>7. CASE RoundUpdate \/ RoundDefer \/ RoundDiscard
    <2>1. PICK e \in Top.todo :
            \/ stack' = ReplaceTop(Done(Top, e))
            \/ /\ ~Busy(e.observer)
               /\ stack' = Append(ReplaceTop(Done(Top, e)), UpdateFrame(e.observer))
      BY <1>7 DEF RoundUpdate, RoundDefer, RoundDiscard, Done
    <2>2. /\ stack # <<>> /\ Top.op = "notify" /\ e.observer \in Observers
          /\ Done(Top, e) \in Frame /\ Done(Top, e).op = "notify"
      BY <1>7, <2>1, TopProperties, FrameFields, EntryFields
         DEF RoundUpdate, RoundDefer, RoundDiscard, TopIs
    <2>3. UNCHANGED held
      BY <1>7 DEF RoundUpdate, RoundDefer, RoundDiscard
    <2> QED BY <1>3, <2>1, <2>2, <2>3
  <1>8. CASE RoundEnd \/ DrainEnd \/ Return
    BY <1>4, <1>8 DEF RoundEnd, DrainEnd, Return, TopIs
  <1>9. CASE DrainTake
    <2>1. stack # <<>> /\ Top.op = "drain"
          /\ Taking(Top, pending) \in Frame /\ Taking(Top, pending).op = "drain"
      BY <1>9, TopProperties, FrameFields DEF DrainTake, TopIs, TypeOK
    <2>2. stack' = ReplaceTop(Taking(Top, pending)) /\ UNCHANGED held
      BY <1>9 DEF DrainTake, Taking
    <2> QED BY <1>3, <2>1, <2>2
  <1>10. CASE DrainUpdate \/ DrainSkip \/ DrainStall
    <2>1. PICK v \in Top.batch :
            \/ ~Busy(v) /\ stack' = Append(ReplaceTop(Delivering(Top, v)), UpdateFrame(v))
            \/ stack' = ReplaceTop(Delivering(Top, v))
            \/ stack' = ReplaceTop(SettingAside(Top, v))
      BY <1>10 DEF DrainUpdate, DrainSkip, DrainStall, Delivering, SettingAside
    <2>2. stack # <<>> /\ Top \in Frame /\ Top.op = "drain" /\ v \in Observers
      BY <1>10, <2>1, TopProperties, FrameFields DEF DrainUpdate, DrainSkip, DrainStall, TopIs
    <2>3. /\ Delivering(Top, v) \in Frame /\ Delivering(Top, v).op = "drain"
          /\ SettingAside(Top, v) \in Frame /\ SettingAside(Top, v).op = "drain"
      BY <2>2, FrameFields
    <2>4. UNCHANGED held
      BY <1>10 DEF DrainUpdate, DrainSkip, DrainStall
    <2> QED BY <1>3, <2>1, <2>2, <2>3, <2>4
  <1>11. CASE ForwardBroadcast \/ ForwardDeliver
    <2>1. /\ stack # <<>> /\ Top.op = "update" /\ Sent(Top) \in Frame
          /\ Sent(Top).op = "update" /\ Sent(Top).who = Top.who
      BY <1>11, TopProperties, FrameFields DEF ForwardBroadcast, ForwardDeliver, TopIs
    <2>2. UNCHANGED held
      BY <1>11 DEF ForwardBroadcast, ForwardDeliver
    <2>3. CASE ForwardBroadcast
      <3>1. StartRound(registry, Target[Top.who], ReplaceTop(Sent(Top))) /\ Target[Top.who] \in Subjects
        BY <2>3 DEF ForwardBroadcast, Sent
      <3>2. ReplaceTop(Sent(Top)) \in Seq(Frame) /\ OneBorrow(ReplaceTop(Sent(Top)), held)
        BY <1>0, <2>1, TopProperties, UpdateBorrows
      <3> QED BY <1>5, <1>6, <2>2, <3>1, <3>2
    <2>4. CASE ForwardDeliver
      <3> DEFINE v == Target[Top.who]
      <3>1. /\ v \in Observers
            /\ \/ stack' = ReplaceTop(Sent(Top))
               \/ ~Busy(v) /\ stack' = Append(ReplaceTop(Sent(Top)), UpdateFrame(v))
        BY <2>4 DEF ForwardDeliver, Sent
      <3> HIDE DEF v
      <3> QED BY <1>3, <2>1, <2>2, <3>1
    <2> QED BY <1>11, <2>3, <2>4
  <1>12. ASSUME NEW s \in Subjects, Notify(s) PROVE NoSecondBorrow'
    <2>1. StartRound(registry, s, stack) /\ UNCHANGED held
      BY <1>12 DEF Notify
    <2> QED BY <1>0, <1>5, <1>6, <2>1
  <1>13. CASE Panic
    BY <1>2, <1>13 DEF Panic
  <1>14. ASSUME NEW v \in Observers, Drop(v) \/ Hold(v) \/ Release(v) PROVE NoSecondBorrow'
    BY <1>1, <1>2, <1>14 DEF Drop, Hold, Release
  <1>15. ASSUME NEW v \in Registrable, NEW s \in Subjects,
                RegisterObserver(v, s) \/ UnregisterObserver(v, s)
         PROVE  NoSecondBorrow'
    BY <1>1, <1>15 DEF RegisterObserver, UnregisterObserver
  <1>16. CASE UNCHANGED vars
    BY <1>1, <1>16 DEF vars
  <1> QED
    BY <1>7, <1>8, <1>9, <1>10, <1>11, <1>12, <1>13, <1>14, <1>15, <1>16 DEF Next, Engine, Client

-----------------------------------------------------------------------------
(* A round starts over below: what was promised under it still is, and what  *)
(* the round finds is promised by its snapshot.                              *)
LEMMA RoundPromises ==
  ASSUME NEW s \in Subjects, NEW entries \in [Subjects -> SUBSET Entry],
         NEW below \in Seq(Frame), StartRound(entries, s, below),
         \A v \in owed : v \in pending \/ v \in dropped \/ HeldBy(below, v),
         UNCHANGED <<pending, dropped>>
  PROVE  OwedIsPromised'
  <1> DEFINE snapshot == Pruned(entries[s])
             g == NotifyFrame(snapshot)
  <1>1. /\ g \in Frame /\ stack' = Append(below, g)
        /\ owed' = owed \cup {e.observer : e \in snapshot}
    BY FrameTypes DEF StartRound, Pruned
  <1>2. \A e \in snapshot : Holds(g, e.observer)
    BY DEF Holds, NotifyFrame
  <1> HIDE DEF snapshot, g
  <1>3. \A v : HeldBy(stack', v) <=> HeldBy(below, v) \/ Holds(g, v)
    BY <1>1, Push
  <1> QED BY <1>1, <1>2, <1>3, RestatedNext

(* Every step keeps the work that is owed promised, does it, or drops it     *)
(* with its observer.                                                        *)
LEMMA OwedStep ==
  ASSUME TypeOK, OwedIsPromised, [Next]_vars
  PROVE  OwedIsPromised'
  <1>0. /\ stack \in Seq(Frame)
        /\ \A v \in owed : v \in pending \/ v \in dropped \/ HeldBy(stack, v)
    BY Restated DEF TypeOK
  <1>1. ASSUME stack' = stack, UNCHANGED <<owed, pending>>, dropped \subseteq dropped'
        PROVE  OwedIsPromised'
    BY <1>0, <1>1, RestatedNext
  <1>2. ASSUME stack # <<>>
        PROVE  /\ Top \in Frame /\ Below \in Seq(Frame)
               /\ \A v : HeldBy(stack, v) <=> HeldBy(Below, v) \/ Holds(Top, v)
               /\ \A g \in Frame : /\ ReplaceTop(g) \in Seq(Frame)
                                   /\ \A v : HeldBy(ReplaceTop(g), v) <=> HeldBy(Below, v) \/ Holds(g, v)
    <2>1. /\ Top \in Frame /\ Below \in Seq(Frame)
          /\ \A v : HeldBy(stack, v) <=> HeldBy(Below, v) \/ Holds(Top, v)
      BY <1>0, <1>2, Pop DEF Below, Top
    <2>2. ASSUME NEW g \in Frame
          PROVE  /\ ReplaceTop(g) \in Seq(Frame)
                 /\ \A v : HeldBy(ReplaceTop(g), v) <=> HeldBy(Below, v) \/ Holds(g, v)
      BY <2>1, Push, AppendProperties DEF ReplaceTop
    <2> QED BY <2>1, <2>2
  \* What is held below an update is held under the call that made it.
  <1>3. ASSUME NEW st \in Seq(Frame), NEW v \in Observers
        PROVE  \A u : HeldBy(Append(st, UpdateFrame(v)), u) <=> HeldBy(st, u)
    <2>1. UpdateFrame(v) \in Frame /\ \A u : ~Holds(UpdateFrame(v), u)
      BY FrameTypes DEF UpdateFrame, Holds
    <2> QED BY <2>1, Push
  <1>4. CASE RoundUpdate \/ RoundDefer \/ RoundDiscard
    <2>1. PICK e \in Top.todo :
            /\ \/ stack' = ReplaceTop(Done(Top, e))
               \/ stack' = Append(ReplaceTop(Done(Top, e)), UpdateFrame(e.observer))
            /\ owed' \subseteq owed /\ pending \subseteq pending'
            /\ e.observer \in owed' => e.observer \in pending'
      BY <1>4 DEF RoundUpdate, RoundDefer, RoundDiscard, Done
    <2>2. /\ stack # <<>> /\ Top \in Frame /\ Top.op = "notify" /\ e \in Entry
          /\ e.observer \in Observers /\ UNCHANGED dropped
      BY <1>4, <2>1, TopProperties, FrameFields, EntryFields
         DEF RoundUpdate, RoundDefer, RoundDiscard, TopIs
    <2>3. /\ Done(Top, e) \in Frame /\ Done(Top, e).op = "notify"
          /\ Done(Top, e).todo = Top.todo \ {e}
      BY <2>2, FrameFields
    <2>4. \A v : Holds(Top, v) /\ v # e.observer => Holds(Done(Top, e), v)
      BY <2>2, <2>3 DEF Holds
    <2>5. \A v : HeldBy(stack', v) <=> HeldBy(Below, v) \/ Holds(Done(Top, e), v)
      <3>1. ReplaceTop(Done(Top, e)) \in Seq(Frame)
        BY <1>2, <2>2, <2>3
      <3>2. \A v : HeldBy(ReplaceTop(Done(Top, e)), v) <=> HeldBy(Below, v) \/ Holds(Done(Top, e), v)
        BY <1>2, <2>2, <2>3
      <3>3. \A v : HeldBy(Append(ReplaceTop(Done(Top, e)), UpdateFrame(e.observer)), v)
                     <=> HeldBy(ReplaceTop(Done(Top, e)), v)
        BY <1>3, <2>2, <3>1
      <3> QED BY <2>1, <3>2, <3>3
    <2> QED BY <1>0, <1>2, <2>1, <2>2, <2>4, <2>5, RestatedNext
  <1>5. CASE RoundEnd
    <2>1. stack # <<>> /\ UNCHANGED <<owed, pending, dropped>> /\ \A v : ~Holds(Top, v)
      BY <1>5 DEF RoundEnd, TopIs, Holds
    <2>2. stack' = Below \/ stack' = ReplaceTop(DrainFrame)
      BY <1>5 DEF RoundEnd
    <2>3. \A v : HeldBy(Below, v) => HeldBy(stack', v)
      BY <1>2, <2>1, <2>2, FrameTypes
    <2> QED BY <1>0, <1>2, <2>1, <2>3, RestatedNext
  <1>6. CASE DrainTake
    <2>1. /\ stack # <<>> /\ Top \in Frame /\ Top.op = "drain" /\ Top.batch = {}
          /\ UNCHANGED <<owed, dropped>>
      BY <1>6, TopProperties DEF DrainTake, TopIs
    <2> DEFINE g == Taking(Top, pending)
    <2>2. /\ g \in Frame /\ g.op = "drain" /\ g.batch = pending /\ g.stalled = Top.stalled
      BY <2>1, FrameFields DEF TypeOK
    <2>3. stack' = ReplaceTop(g)
      BY <1>6 DEF DrainTake, Taking
    <2> HIDE DEF g
    <2>4. \A v : v \in pending \/ Holds(Top, v) => Holds(g, v)
      BY <2>1, <2>2 DEF Holds
    <2> QED BY <1>0, <1>2, <2>1, <2>2, <2>3, <2>4, RestatedNext
  <1>7. CASE DrainUpdate \/ DrainSkip \/ DrainStall
    <2>1. PICK v \in Top.batch :
            /\ \/ stack' = Append(ReplaceTop(Delivering(Top, v)), UpdateFrame(v)) /\ v \notin owed'
               \/ stack' = ReplaceTop(Delivering(Top, v)) /\ ~Live(v)
               \/ stack' = ReplaceTop(SettingAside(Top, v))
            /\ owed' \subseteq owed
      BY <1>7 DEF DrainUpdate, DrainSkip, DrainStall, Delivering, SettingAside
    <2>2. /\ stack # <<>> /\ Top \in Frame /\ Top.op = "drain" /\ v \in Observers
          /\ UNCHANGED <<pending, dropped>>
      BY <1>7, <2>1, TopProperties, FrameFields DEF DrainUpdate, DrainSkip, DrainStall, TopIs
    <2> DEFINE g == Delivering(Top, v)
               h == SettingAside(Top, v)
    <2>3. /\ g \in Frame /\ g.op = "drain" /\ g.batch = Top.batch \ {v} /\ g.stalled = Top.stalled
          /\ h \in Frame /\ h.op = "drain" /\ h.batch = Top.batch \ {v}
          /\ h.stalled = Top.stalled \cup {v}
      BY <2>2, FrameFields
    <2>4. /\ \/ stack' = Append(ReplaceTop(g), UpdateFrame(v)) /\ v \notin owed'
             \/ stack' = ReplaceTop(g) /\ v \in dropped
             \/ stack' = ReplaceTop(h)
      BY <2>1 DEF Live
    <2> HIDE DEF g, h
    <2>5. /\ \A u : Holds(Top, u) /\ u # v => Holds(g, u)
          /\ \A u : Holds(Top, u) => Holds(h, u)
      BY <2>2, <2>3 DEF Holds
    <2>6. \A u : /\ HeldBy(ReplaceTop(g), u) <=> HeldBy(Below, u) \/ Holds(g, u)
                 /\ HeldBy(ReplaceTop(h), u) <=> HeldBy(Below, u) \/ Holds(h, u)
                 /\ HeldBy(Append(ReplaceTop(g), UpdateFrame(v)), u) <=> HeldBy(ReplaceTop(g), u)
      BY <1>2, <1>3, <2>2, <2>3
    <2>7. \A u \in owed' : \/ u = v /\ v \in dropped
                         \/ HeldBy(Below, u) \/ ~Holds(Top, u) \/ HeldBy(stack', u)
      BY <2>4, <2>5, <2>6
    <2>8. \A u : HeldBy(Below, u) => HeldBy(stack', u)
      BY <2>4, <2>6
    <2> QED BY <1>0, <1>2, <2>1, <2>2, <2>7, <2>8, RestatedNext
  <1>8. CASE DrainEnd
    <2>1. /\ stack # <<>> /\ stack' = Below /\ pending = {} /\ pending' = Top.stalled
          /\ UNCHANGED <<owed, dropped>> /\ \A v : Holds(Top, v) => v \in Top.stalled
      BY <1>8 DEF DrainEnd, TopIs, Holds
    <2> QED BY <1>0, <1>2, <2>1, RestatedNext
  <1>9. CASE ForwardBroadcast \/ ForwardDeliver
    <2>1. /\ stack # <<>> /\ Top \in Frame /\ Top.op = "update" /\ Sent(Top) \in Frame
          /\ Sent(Top).op = "update" /\ UNCHANGED dropped
      BY <1>9, TopProperties, FrameFields DEF ForwardBroadcast, ForwardDeliver, TopIs
    <2>2. \A v : ~Holds(Top, v) /\ ~Holds(Sent(Top), v)
      BY <2>1 DEF Holds
    <2>3. ReplaceTop(Sent(Top)) \in Seq(Frame)
      BY <1>2, <2>1
    <2>4. \A v : HeldBy(ReplaceTop(Sent(Top)), v) <=> HeldBy(stack, v)
      BY <1>2, <2>1, <2>2
    <2>5. CASE ForwardBroadcast
      <3>1. /\ StartRound(registry, Target[Top.who], ReplaceTop(Sent(Top))) /\ UNCHANGED pending
            /\ Target[Top.who] \in Subjects /\ registry \in [Subjects -> SUBSET Entry]
        BY <2>5 DEF ForwardBroadcast, Sent, TypeOK
      <3> QED BY <1>0, <2>1, <2>3, <2>4, <3>1, RoundPromises
    <2>6. CASE ForwardDeliver
      <3> DEFINE v == Target[Top.who]
      <3>1. /\ v \in Observers
            /\ \/ /\ stack' = ReplaceTop(Sent(Top))
                  /\ pending' = pending \cup {v} /\ owed' = owed \cup {v}
               \/ /\ stack' = Append(ReplaceTop(Sent(Top)), UpdateFrame(v))
                  /\ pending' = pending /\ owed' = owed \ {v}
        BY <2>6 DEF ForwardDeliver, Sent
      <3> HIDE DEF v
      <3>2. \A u : HeldBy(Append(ReplaceTop(Sent(Top)), UpdateFrame(v)), u)
                     <=> HeldBy(ReplaceTop(Sent(Top)), u)
        BY <1>3, <2>3, <3>1
      <3> QED BY <1>0, <2>1, <2>4, <3>1, <3>2, RestatedNext
    <2> QED BY <1>9, <2>5, <2>6
  <1>10. CASE Return
    <2>1. /\ stack # <<>> /\ stack' = Below /\ UNCHANGED <<owed, pending, dropped>>
          /\ \A v : ~Holds(Top, v)
      BY <1>10 DEF Return, TopIs, Holds
    <2> QED BY <1>0, <1>2, <2>1, RestatedNext
  <1>11. ASSUME NEW s \in Subjects, Notify(s) PROVE OwedIsPromised'
    <2>1. /\ StartRound(registry, s, stack) /\ registry \in [Subjects -> SUBSET Entry]
          /\ UNCHANGED <<pending, dropped>>
      BY <1>11 DEF Notify, TypeOK
    <2> QED BY <1>0, <2>1, RoundPromises
  <1>12. CASE Panic
    BY <1>12, RestatedNext DEF Panic
  <1>13. ASSUME NEW v \in Observers, Drop(v) \/ Hold(v) \/ Release(v) PROVE OwedIsPromised'
    BY <1>1, <1>13 DEF Drop, Hold, Release
  <1>14. ASSUME NEW v \in Registrable, NEW s \in Subjects,
                RegisterObserver(v, s) \/ UnregisterObserver(v, s)
         PROVE  OwedIsPromised'
    BY <1>1, <1>14 DEF RegisterObserver, UnregisterObserver
  <1>15. CASE UNCHANGED vars
    BY <1>1, <1>15 DEF vars
  <1> QED
    BY <1>4, <1>5, <1>6, <1>7, <1>8, <1>9, <1>10, <1>11, <1>12, <1>13, <1>14, <1>15
       DEF Next, Engine, Client

-----------------------------------------------------------------------------
(* Nothing runs at the start.                                                *)
LEMMA InitSafe == Init => TypeOK /\ OutermostDrains /\ NoSecondBorrow /\ OwedIsPromised
  <1> SUFFICES ASSUME Init PROVE TypeOK /\ OutermostDrains /\ NoSecondBorrow /\ OwedIsPromised
    OBVIOUS
  <1>1. \A s \in Subjects :
          {[observer |-> v, defer |-> v \notin Discarding] : v \in Wiring[s]} \in SUBSET Entry
    <2> SUFFICES ASSUME NEW s \in Subjects, NEW v \in Wiring[s]
                 PROVE  [observer |-> v, defer |-> v \notin Discarding] \in Entry
      OBVIOUS
    <2>1. v \in Observers /\ (v \notin Discarding) \in BOOLEAN
      BY ConstantsAssumption
    <2> QED BY <2>1 DEF Entry
  <1>2. TypeOK
    <2>1. registry \in [Subjects -> SUBSET Entry]
      BY <1>1 DEF Init, QuietWith
    <2>2. <<>> \in Seq(Frame)
      BY EmptySeq
    <2>3. draining \in BOOLEAN
      BY Zenon DEF Init, QuietWith
    <2>4. notifies \in 0..MaxNotify /\ edits \in 0..MaxEdits /\ depth \in Nat
      BY ConstantsAssumption DEF Init, QuietWith
    <2>5. stack \in Seq(Frame)
      BY <2>2 DEF Init, QuietWith
    <2> QED BY <2>1, <2>3, <2>4, <2>5 DEF Init, QuietWith, TypeOK
  <1>3. OutermostDrains
    <2>1. RoundsOf(<<>>) = {} /\ ~Draining(<<>>) /\ DrainsFirst(<<>>)
      BY DEF RoundsOf, Draining, DrainsFirst
    <2> QED BY <2>1, FS_EmptySet, Restated DEF Init, QuietWith
  <1> QED BY <1>2, <1>3 DEF Init, QuietWith, NoSecondBorrow, OwedIsPromised

(* Every variable of the engine keeps its type, and DEPTH counts the rounds  *)
(* that run: nothing takes it below 0.                                       *)
THEOREM TypeCorrect == Spec => []TypeOK
  <1>1. TypeOK /\ OutermostDrains /\ [Next]_vars => TypeOK' /\ OutermostDrains'
    BY DrainsStep, TypeStep
  <1> QED BY <1>1, InitSafe, PTL DEF Spec

(* In any graph, at any depth of re-entrance and after any panic: DEPTH and  *)
(* DRAINING are what the active calls say, only the outermost call drains,   *)
(* and no update runs outside a call that will drain after it.               *)
THEOREM DrainsCorrect == Spec => []OutermostDrains
  <1>1. TypeOK /\ OutermostDrains /\ [Next]_vars => OutermostDrains'
    BY DrainsStep
  <1> QED BY <1>1, InitSafe, TypeCorrect, PTL DEF Spec

(* In any graph no observer is borrowed while it is borrowed already.        *)
THEOREM BorrowsCorrect == Spec => []NoSecondBorrow
  <1>1. TypeOK /\ NoSecondBorrow /\ [Next]_vars => NoSecondBorrow'
    BY BorrowStep
  <1> QED BY <1>1, InitSafe, TypeCorrect, PTL DEF Spec

(* At every depth, what is owed to a living observer is promised by a        *)
(* snapshot, a drain or PENDING.                                             *)
THEOREM OwedCorrect == Spec => []OwedIsPromised
  <1>1. TypeOK /\ OwedIsPromised /\ [Next]_vars => OwedIsPromised'
    BY OwedStep
  <1> QED BY <1>1, InitSafe, TypeCorrect, PTL DEF Spec

(* So, once all calls have returned, no notification was dropped: it was     *)
(* delivered, it is queued, or its observer died.                            *)
THEOREM NothingDropped == Spec => []NoNotificationDropped
  <1>1. OwedIsPromised => NoNotificationDropped
    BY DEF OwedIsPromised, Promised, InSnapshot, NoNotificationDropped
  <1> QED BY <1>1, OwedCorrect, PTL
=============================================================================
