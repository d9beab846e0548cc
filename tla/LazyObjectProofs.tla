--------------------------- MODULE LazyObjectProofs ---------------------------
(***************************************************************************)
(* Proofs about LazyObject, for any forwarding policy, any foreign code    *)
(* and any depth of nested calls.                                          *)
(***************************************************************************)
EXTENDS LazyObject, SequenceTheorems, TLAPS

(* What is left of a stack when its top returns.                             *)
LEMMA FrontProperties ==
  ASSUME NEW S, NEW s \in Seq(S), s # <<>>
  PROVE  /\ SubSeq(s, 1, Len(s) - 1) \in Seq(S)
         /\ Len(SubSeq(s, 1, Len(s) - 1)) = Len(s) - 1
         /\ \A i \in 1..Len(s) - 1 : SubSeq(s, 1, Len(s) - 1)[i] = s[i]
         /\ Len(s) \in Nat \ {0}
         /\ s[Len(s)] \in S
  <1>1. Len(s) \in Nat \ {0}
    BY EmptySeq, LenProperties
  <1>2. \A i \in 1..Len(s) - 1 : s[i] \in S
    BY <1>1, ElementOfSeq
  <1> DEFINE front == SubSeq(s, 1, Len(s) - 1)
  <1>3. /\ front \in Seq(S)
        /\ Len(front) = IF 1 <= Len(s) - 1 THEN Len(s) - 1 - 1 + 1 ELSE 0
        /\ \A i \in 1..(Len(s) - 1 - 1 + 1) : front[i] = s[1 + i - 1]
    BY <1>1, <1>2, SubSeqProperties
  <1>4. s[Len(s)] \in S
    BY <1>1, ElementOfSeq
  <1> HIDE DEF front
  <1>5. Len(front) = Len(s) - 1
    <2>1. \A n \in Nat \ {0} : (IF 1 <= n - 1 THEN n - 1 - 1 + 1 ELSE 0) = n - 1
      OBVIOUS
    <2> QED BY <1>1, <1>3, <2>1
  <1>6. ASSUME NEW i \in 1..Len(s) - 1 PROVE front[i] = s[i]
    <2>1. i \in 1..(Len(s) - 1 - 1 + 1) /\ 1 + i - 1 = i
      BY <1>1
    <2> QED BY <1>3, <2>1
  <1> QED BY <1>1, <1>3, <1>4, <1>5, <1>6 DEF front

(* A call begins.                                                            *)
LEMMA PushProperties ==
  ASSUME NEW S, NEW s \in Seq(S), NEW f \in S
  PROVE  /\ Append(s, f) \in Seq(S)
         /\ Len(Append(s, f)) = Len(s) + 1
         /\ Len(s) \in Nat
         /\ \A i \in 1..Len(s) : Append(s, f)[i] = s[i] /\ s[i] \in S
         /\ Append(s, f)[Len(s) + 1] = f
         /\ DOMAIN Append(s, f) = 1..Len(s) + 1
         /\ DOMAIN s = 1..Len(s)
  <1>1. Len(s) \in Nat
    BY LenProperties
  <1>2. \A i \in 1..Len(s) : s[i] \in S
    BY ElementOfSeq
  <1> QED BY <1>1, <1>2, AppendProperties, LenProperties

-----------------------------------------------------------------------------
(* The frames a call pushes are frames.                                      *)
LEMMA FrameTypes ==
    /\ Notifying \in Frame /\ Updating \in Frame
    /\ \A again, wasFrozen \in BOOLEAN : Performing(again, wasFrozen) \in Frame
  BY LazyConstants DEF Frame, Notifying, Updating, Performing

(* A call that has read its inputs is still a frame.                         *)
LEMMA ReadFrame ==
  ASSUME NEW f \in Frame, f.op \in {"perform"}, NEW v \in Versions
  PROVE  [f EXCEPT !.read = v] \in Frame
  BY LazyConstants DEF Frame, Versions

(* What a computation has read, and how it was started.                      *)
LEMMA PerformFrame ==
  ASSUME NEW f \in Frame, f.op \in {"perform"}
  PROVE  f.read \in 0..MaxInput /\ f.again \in BOOLEAN /\ f.wasFrozen \in BOOLEAN
  BY DEF Frame

(* Every method takes flags to flags.                                        *)
LEMMA FlagTypes ==
  ASSUME NEW lz \in Lazy
  PROVE  /\ DeferredUpdate(lz) \in Lazy /\ EndUpdate(lz) \in Lazy
         /\ MarkCalculated(lz) \in Lazy /\ InvalidateSilently(lz) \in Lazy
         /\ StartCalculation(lz) \in Lazy /\ StartRecalculation(lz) \in Lazy
         /\ FinishOk(lz) \in Lazy /\ FinishErr(lz) \in Lazy
         /\ Freeze(lz) \in Lazy /\ Unfreeze(lz) \in Lazy
         /\ \A frozen \in BOOLEAN : FinishRecalculation(lz, frozen) \in Lazy
  BY DEF Lazy, DeferredUpdate, Invalidates, Tells, EndUpdate, MarkCalculated,
         InvalidateSilently, StartCalculation, StartRecalculation, FinishOk, FinishErr,
         Freeze, Unfreeze, FinishRecalculation

(* The end of a computation keeps the types, whatever came of it.            *)
LEMMA FinishTypes ==
  ASSUME TypeOK, TopIs({"perform"}),
         NEW lz \in Lazy, NEW res \in 0..MaxInput, NEW got \in 0..MaxInput,
         Finish(lz, res, got), UNCHANGED foreign
  PROVE  TypeOK'
  <1>1. Top \in Frame /\ Below \in Seq(Frame)
    BY FrontProperties DEF TypeOK, TopIs, Top, Below
  <1>2. Top.again \in BOOLEAN /\ Top.wasFrozen \in BOOLEAN
    BY <1>1, PerformFrame DEF TopIs
  <1>3. Append(Below, Notifying) \in Seq(Frame)
    BY <1>1, FrameTypes, AppendProperties
  <1>4. CASE Top.again
    <2>1. FinishRecalculation(lz, Top.wasFrozen) \in Lazy
      BY <1>2, FlagTypes
    <2>2. 0 \in 0..MaxInput
      BY LazyConstants
    <2> QED BY <1>3, <1>4, <2>1, <2>2 DEF Finish, TypeOK
  <1>5. CASE ~Top.again
    BY <1>1, <1>5 DEF Finish, TypeOK
  <1> QED BY <1>4, <1>5

(* Every step keeps every variable in its type.                              *)
LEMMA TypeStep == TypeOK /\ [Next]_vars => TypeOK'
  <1> SUFFICES ASSUME TypeOK, [Next]_vars PROVE TypeOK'
    OBVIOUS
  <1>0. /\ \A f \in Frame : Append(stack, f) \in Seq(Frame)
        /\ stack # <<>> => Below \in Seq(Frame) /\ Top \in Frame
    BY FrontProperties, AppendProperties DEF TypeOK, Top, Below
  <1>1. CASE UNCHANGED vars
    BY <1>1 DEF vars, TypeOK
  <1>2. ASSUME Next PROVE TypeOK'
    <2>0. UNCHANGED foreign /\ foreign' \in ForeignCode
      BY <1>2 DEF Next, TypeOK
    <2>1. CASE ChangeInput
      BY <1>0, <2>0, <2>1, FrameTypes, FlagTypes, LazyConstants
         DEF ChangeInput, TypeOK, Versions
    <2>2. CASE EndUpdating \/ EndNotifying
      BY <1>0, <2>0, <2>2, FlagTypes DEF EndUpdating, EndNotifying, TopIs, TypeOK
    <2>3. CASE ReadCached
      BY <2>0, <2>3 DEF ReadCached, ReaderGets, TypeOK
    <2>4. CASE Calculate
      BY <1>0, <2>0, <2>4, FrameTypes, FlagTypes DEF Calculate, TypeOK
    <2>5. CASE Recalculate
      <3>1. lazy.frozen \in BOOLEAN
        BY DEF TypeOK, Lazy
      <3> QED BY <1>0, <2>0, <2>5, <3>1, FrameTypes, FlagTypes DEF Recalculate, TypeOK
    <2>6. CASE PerformReads
      <3>1. [Top EXCEPT !.read = input] \in Frame
        BY <1>0, <2>6, ReadFrame DEF PerformReads, TopIs, TypeOK
      <3>2. Append(Below, [Top EXCEPT !.read = input]) \in Seq(Frame)
        BY <1>0, <2>6, <3>1, AppendProperties DEF PerformReads, TopIs
      <3> QED BY <2>0, <2>6, <3>2 DEF PerformReads, TypeOK
    <2>7. CASE PerformOk
      <3>1. Top.read \in 0..MaxInput
        BY <1>0, <2>7, PerformFrame DEF PerformOk, TopIs
      <3> QED BY <2>0, <2>7, <3>1, FlagTypes, FinishTypes DEF PerformOk, TypeOK
    <2>8. CASE PerformErr
      BY <2>0, <2>8, FlagTypes, FinishTypes, LazyConstants DEF PerformErr, TypeOK
    <2>9. CASE Panic
      BY <2>0, <2>9, FlagTypes DEF Panic, TypeOK
    <2>10. CASE FreezeResults \/ StoreResults \/ Invalidate
      BY <2>0, <2>10, FlagTypes DEF FreezeResults, StoreResults, Invalidate, TypeOK, Versions
    <2>11. CASE UnfreezeResults
      BY <1>0, <2>0, <2>11, FrameTypes, FlagTypes, LazyConstants DEF UnfreezeResults, TypeOK
    <2> QED
      BY <1>2, <2>1, <2>2, <2>3, <2>4, <2>5, <2>6, <2>7, <2>8, <2>9, <2>10, <2>11
         DEF Next, Step
  <1> QED BY <1>1, <1>2

(* The flags, versions and frames of patterns/lazyobject.rs keep their types *)
(* under every nesting of calls.                                             *)
THEOREM TypeCorrect == Spec => []TypeOK
  <1>1. Init => TypeOK
    <2> SUFFICES ASSUME Init PROVE TypeOK
      OBVIOUS
    <2>1. \A always \in Policies : NewLazy(always) \in Lazy
      BY LazyConstants DEF NewLazy, Lazy
    <2> QED BY <2>1, LazyConstants, EmptySeq DEF Init, TypeOK, Versions
  <1> QED BY <1>1, TypeStep, PTL DEF Spec

-----------------------------------------------------------------------------
\* The guard's flag is "set", and s holds the one call that set it.
Guarded(set, s) ==
    /\ set <=> \E i \in DOMAIN s : s[i].op = "update"
    /\ \A i, j \in DOMAIN s : s[i].op = "update" /\ s[j].op = "update" => i = j

(* A call comes on top of the stack.                                         *)
LEMMA Pushed ==
  ASSUME NEW s \in Seq(Frame), NEW f \in Frame, NEW set \in BOOLEAN, Guarded(set, s)
  PROVE  /\ f.op # "update" => Guarded(set, Append(s, f))
         /\ f.op = "update" /\ ~set => Guarded(TRUE, Append(s, f))
  <1> DEFINE t == Append(s, f)
  <1>1. /\ DOMAIN s = 1..Len(s) /\ Len(s) \in Nat
        /\ t \in Seq(Frame) /\ Len(t) = Len(s) + 1
        /\ \A i \in 1..Len(s) : t[i] = s[i]
        /\ t[Len(s) + 1] = f
    BY AppendProperties, LenProperties
  <1>2. DOMAIN t = 1..(Len(s) + 1)
    BY <1>1, LenProperties
  <1> HIDE DEF t
  <1>3. DOMAIN t = DOMAIN s \cup {Len(s) + 1} /\ Len(s) + 1 \notin DOMAIN s
    BY <1>1, <1>2
  <1>4. Guarded(set, s)
    OBVIOUS
  <1>5. (f.op # "update" => Guarded(set, t)) /\ (f.op = "update" /\ ~set => Guarded(TRUE, t))
    BY <1>1, <1>3, <1>4 DEF Guarded
  <1> QED BY <1>5 DEF t

(* The call on top returns.                                                  *)
LEMMA Popped ==
  ASSUME NEW s \in Seq(Frame), s # <<>>, NEW set \in BOOLEAN, Guarded(set, s)
  PROVE  LET t == SubSeq(s, 1, Len(s) - 1) IN
         /\ s[Len(s)].op # "update" => Guarded(set, t)
         /\ s[Len(s)].op = "update" => set /\ Guarded(FALSE, t)
  <1> DEFINE t == SubSeq(s, 1, Len(s) - 1)
  <1>1. /\ t \in Seq(Frame) /\ Len(t) = Len(s) - 1
        /\ \A i \in 1..Len(s) - 1 : t[i] = s[i]
        /\ Len(s) \in Nat \ {0}
    BY FrontProperties
  <1>2. DOMAIN s = 1..Len(s) /\ DOMAIN t = 1..(Len(s) - 1)
    BY <1>1, LenProperties
  <1> HIDE DEF t
  <1>3. DOMAIN s = DOMAIN t \cup {Len(s)} /\ Len(s) \notin DOMAIN t
    BY <1>1, <1>2
  <1>4. \A i \in DOMAIN t : t[i] = s[i]
    BY <1>1, <1>2
  <1>5. Guarded(set, s)
    OBVIOUS
  <1>6. /\ s[Len(s)].op # "update" => Guarded(set, t)
        /\ s[Len(s)].op = "update" => set /\ Guarded(FALSE, t)
    BY <1>3, <1>4, <1>5 DEF Guarded
  <1> QED BY <1>6 DEF t

(* Which methods move the guard's flag.                                      *)
LEMMA GuardFlags ==
  ASSUME NEW lz \in Lazy
  PROVE  /\ Tells(lz) => lz.updating = FALSE /\ DeferredUpdate(lz).updating = TRUE
         /\ ~Tells(lz) => DeferredUpdate(lz).updating = lz.updating
         /\ EndUpdate(lz).updating = FALSE
         /\ MarkCalculated(lz).updating = lz.updating
         /\ InvalidateSilently(lz).updating = lz.updating
         /\ StartCalculation(lz).updating = lz.updating
         /\ StartRecalculation(lz).updating = lz.updating
         /\ FinishOk(lz).updating = lz.updating /\ FinishErr(lz).updating = lz.updating
         /\ Freeze(lz).updating = lz.updating /\ Unfreeze(lz).updating = lz.updating
         /\ \A frozen : FinishRecalculation(lz, frozen).updating = lz.updating
  BY DEF Lazy, DeferredUpdate, Invalidates, Tells, EndUpdate, MarkCalculated,
         InvalidateSilently, StartCalculation, StartRecalculation, FinishOk, FinishErr,
         Freeze, Unfreeze, FinishRecalculation

(* A computation that ends leaves the guard to who holds it.                 *)
LEMMA FinishGuarded ==
  ASSUME TypeOK, GuardMatchesCalls, TopIs({"perform"}),
         NEW lz \in Lazy, lz.updating = lazy.updating, NEW res, NEW got, Finish(lz, res, got)
  PROVE  GuardMatchesCalls'
  <1>1. Guarded(lazy.updating, stack) /\ lazy.updating \in BOOLEAN /\ stack \in Seq(Frame)
    BY DEF GuardMatchesCalls, Guarded, TypeOK, Lazy
  <1>2. Guarded(lazy.updating, Below) /\ Below \in Seq(Frame)
    BY <1>1, Popped, FrontProperties DEF TopIs, Top, Below
  <1>3. Guarded(lazy.updating, Append(Below, Notifying))
    BY <1>1, <1>2, FrameTypes, Pushed DEF Notifying
  <1>4. CASE Top.again
    <2>1. lazy'.updating = lazy.updating
      <3>1. \A frozen : FinishRecalculation(lz, frozen).updating = lz.updating
        BY GuardFlags
      <3>2. lazy' = FinishRecalculation(lz, Top.wasFrozen)
        BY <1>4 DEF Finish
      <3> QED BY <3>1, <3>2
    <2>2. stack' = Append(Below, Notifying)
      BY <1>4 DEF Finish
    <2> QED BY <1>3, <2>1, <2>2 DEF GuardMatchesCalls, Guarded
  <1>5. CASE ~Top.again
    <2>1. lazy'.updating = lazy.updating /\ stack' = Below
      BY <1>5 DEF Finish
    <2> QED BY <1>2, <2>1 DEF GuardMatchesCalls, Guarded
  <1> QED BY <1>4, <1>5

(* Every step leaves "updating" to exactly the call that owns it.            *)
LEMMA GuardStep == TypeOK /\ GuardMatchesCalls /\ [Next]_vars => GuardMatchesCalls'
  <1> SUFFICES ASSUME TypeOK, GuardMatchesCalls, [Next]_vars PROVE GuardMatchesCalls'
    OBVIOUS
  <1>0. /\ Guarded(lazy.updating, stack) /\ lazy.updating \in BOOLEAN
        /\ stack \in Seq(Frame) /\ lazy \in Lazy
    BY DEF GuardMatchesCalls, Guarded, TypeOK, Lazy
  <1> SUFFICES Guarded(lazy'.updating, stack')
    BY DEF GuardMatchesCalls, Guarded
  <1>1. \A f \in Frame : f.op # "update" => Guarded(lazy.updating, Append(stack, f))
    BY <1>0, Pushed
  <1>2. CASE UNCHANGED vars
    BY <1>0, <1>2 DEF vars
  <1>3. CASE ChangeInput
    <2>1. CASE Tells(lazy)
      <3>0. lazy.updating = FALSE /\ DeferredUpdate(lazy).updating = TRUE
        BY <1>0, <2>1, GuardFlags
      <3>1. Guarded(TRUE, Append(stack, Updating))
        BY <1>0, <3>0, FrameTypes, Pushed DEF Updating
      <3>2. lazy' = DeferredUpdate(lazy) /\ stack' = Append(stack, Updating)
        BY <1>3, <2>1 DEF ChangeInput
      <3>3. lazy'.updating = TRUE
        BY <3>0, <3>2
      <3> QED BY <3>1, <3>2, <3>3
    <2>2. CASE ~Tells(lazy)
      <3>1. lazy' = DeferredUpdate(lazy) /\ stack' = stack
        BY <1>3, <2>2 DEF ChangeInput
      <3>2. lazy'.updating = lazy.updating
        BY <1>0, <2>2, <3>1, GuardFlags
      <3> QED BY <1>0, <3>1, <3>2
    <2> QED BY <2>1, <2>2
  <1>4. CASE EndUpdating
    <2>1. Guarded(FALSE, Below)
      BY <1>0, <1>4, Popped DEF EndUpdating, TopIs, Top, Below
    <2> QED BY <1>0, <1>4, <2>1, GuardFlags DEF EndUpdating
  <1>5. CASE EndNotifying
    <2>1. Guarded(lazy.updating, Below)
      BY <1>0, <1>5, Popped DEF EndNotifying, TopIs, Top, Below
    <2> QED BY <1>5, <2>1 DEF EndNotifying
  <1>6. CASE ReadCached
    BY <1>0, <1>6 DEF ReadCached
  <1>7. CASE Calculate
    BY <1>0, <1>1, <1>7, FrameTypes, GuardFlags DEF Calculate, Performing
  <1>8. CASE Recalculate
    <2>1. lazy.frozen \in BOOLEAN /\ StartRecalculation(lazy) \in Lazy
      BY <1>0, FlagTypes DEF Lazy
    <2> DEFINE f == Performing(TRUE, lazy.frozen)
    <2>2. f \in Frame /\ f.op # "update"
      BY <2>1, FrameTypes DEF Performing
    <2>3. lazy' = StartCalculation(StartRecalculation(lazy)) /\ stack' = Append(stack, f)
      BY <1>8 DEF Recalculate
    <2>4. lazy'.updating = lazy.updating
      <3>1. StartRecalculation(lazy).updating = lazy.updating
        BY <1>0, GuardFlags
      <3>2. StartCalculation(StartRecalculation(lazy)).updating = lazy.updating
        BY <2>1, <3>1, GuardFlags
      <3> QED BY <2>3, <3>2
    <2> QED BY <1>1, <2>2, <2>3, <2>4
  <1>9. CASE PerformReads
    <2> DEFINE f == [Top EXCEPT !.read = input]
    <2>1. Top \in Frame /\ Below \in Seq(Frame) /\ Top.op = "perform"
      BY <1>0, <1>9, FrontProperties DEF PerformReads, TopIs, Top, Below
    <2>2. f \in Frame /\ f.op # "update"
      BY <2>1, ReadFrame DEF TypeOK, Frame
    <2>3. Guarded(lazy.updating, Below)
      BY <1>0, <1>9, <2>1, Popped DEF PerformReads, TopIs, Top, Below
    <2>4. Guarded(lazy.updating, Append(Below, f))
      BY <1>0, <2>1, <2>2, <2>3, Pushed
    <2> QED BY <1>9, <2>4 DEF PerformReads
  <1>10. CASE PerformOk
    BY <1>0, <1>10, FlagTypes, GuardFlags, FinishGuarded
       DEF PerformOk, GuardMatchesCalls, Guarded
  <1>11. CASE PerformErr
    BY <1>0, <1>11, FlagTypes, GuardFlags, FinishGuarded
       DEF PerformErr, GuardMatchesCalls, Guarded
  <1>12. CASE Panic
    <2>1. lazy'.updating = FALSE
      BY <1>0, <1>12, GuardFlags DEF Panic, Guarded
    <2>2. Guarded(FALSE, <<>>)
      BY DEF Guarded
    <2> QED BY <1>12, <2>1, <2>2 DEF Panic
  <1>13. CASE FreezeResults \/ StoreResults \/ Invalidate
    <2>1. lazy'.updating = lazy.updating
      <3>1. CASE FreezeResults
        BY <1>0, <3>1, GuardFlags DEF FreezeResults
      <3>2. CASE StoreResults
        BY <1>0, <3>2, GuardFlags DEF StoreResults
      <3>3. CASE Invalidate
        BY <1>0, <3>3, GuardFlags DEF Invalidate
      <3> QED BY <1>13, <3>1, <3>2, <3>3
    <2>2. stack' = stack
      BY <1>13 DEF FreezeResults, StoreResults, Invalidate
    <2> QED BY <1>0, <2>1, <2>2
  <1>14. CASE UnfreezeResults
    BY <1>0, <1>1, <1>14, FrameTypes, GuardFlags DEF UnfreezeResults, Notifying
  <1> QED
    BY <1>2, <1>3, <1>4, <1>5, <1>6, <1>7, <1>8, <1>9, <1>10, <1>11, <1>12, <1>13, <1>14
       DEF Next, Step

(* The recursion guard of deferred_update is up exactly while a notification *)
(* it guards runs, after a panic too: it never latches an object deaf, and   *)
(* two guarded notifications never run at once.                              *)
THEOREM GuardCorrect == Spec => []GuardMatchesCalls
  <1>1. Init => GuardMatchesCalls
    BY DEF Init, GuardMatchesCalls, NewLazy
  <1> QED BY <1>1, TypeCorrect, GuardStep, PTL DEF Spec

-----------------------------------------------------------------------------
(* The results.  The stack's computations, seen through what matters: which  *)
(* run, what each has read, and which thawed a frozen object for its run.    *)
IsPerform(f) == f.op = "perform"
Running(s) == \E i \in DOMAIN s : IsPerform(s[i])
WasPinned(s) == \E i \in DOMAIN s : IsPerform(s[i]) /\ s[i].wasFrozen
OnlyFirst(s) == \A i \in DOMAIN s : IsPerform(s[i]) => i = 1
ReadsUpTo(s, v) == \A i \in DOMAIN s : IsPerform(s[i]) => s[i].read \in {0, v}
Thaws(s) == \A i \in DOMAIN s : IsPerform(s[i]) /\ s[i].wasFrozen => s[i].again
AtMostOne(s) == \A i, j \in DOMAIN s : IsPerform(s[i]) /\ IsPerform(s[j]) => i = j

\* Above a computation run only computations a read started.
Nested(s) ==
    \A i, j \in DOMAIN s :
        i < j /\ IsPerform(s[i]) => IsPerform(s[j]) /\ ~s[j].again

(* How a call on top changes the view.  Read backwards, it is what remains   *)
(* when the top call returns.                                                *)
LEMMA OnTop ==
  ASSUME NEW s \in Seq(Frame), NEW f \in Frame
  PROVE  LET t == Append(s, f) IN
         /\ Running(t) <=> Running(s) \/ IsPerform(f)
         /\ WasPinned(t) <=> WasPinned(s) \/ (IsPerform(f) /\ f.wasFrozen)
         /\ OnlyFirst(t) <=> OnlyFirst(s) /\ (IsPerform(f) => s = <<>>)
         /\ \A v : ReadsUpTo(t, v) <=> ReadsUpTo(s, v) /\ (IsPerform(f) => f.read \in {0, v})
         /\ Thaws(t) <=> Thaws(s) /\ (IsPerform(f) /\ f.wasFrozen => f.again)
         /\ AtMostOne(t) <=> AtMostOne(s) /\ (IsPerform(f) => ~Running(s))
         /\ Nested(t) <=> Nested(s) /\ (Running(s) => IsPerform(f) /\ ~f.again)
  <1> DEFINE t == Append(s, f)
             n == Len(s) + 1
  <1>1. /\ Len(s) \in Nat
        /\ \A i \in 1..Len(s) : t[i] = s[i]
        /\ t[n] = f
        /\ DOMAIN t = 1..n /\ DOMAIN s = 1..Len(s)
    BY PushProperties
  <1>2. s = <<>> <=> n = 1
    BY <1>1, EmptySeq
  <1> HIDE DEF t
  <1>3. DOMAIN t = DOMAIN s \cup {n} /\ \A i \in DOMAIN s : i < n /\ t[i] = s[i] /\ i \in Int
    BY <1>1
  <1>4. n \in Int
    BY <1>1
  <1> HIDE DEF n
  <1>5. t[n] = f
    BY <1>1 DEF n
  <1>6. Running(t) <=> Running(s) \/ IsPerform(f)
    BY <1>3, <1>5 DEF Running
  <1>7. WasPinned(t) <=> WasPinned(s) \/ (IsPerform(f) /\ f.wasFrozen)
    BY <1>3, <1>5 DEF WasPinned
  <1>8. OnlyFirst(t) <=> OnlyFirst(s) /\ (IsPerform(f) => s = <<>>)
    BY <1>2, <1>3, <1>5 DEF OnlyFirst
  <1>9. ASSUME NEW v
        PROVE  ReadsUpTo(t, v) <=> ReadsUpTo(s, v) /\ (IsPerform(f) => f.read \in {0, v})
    BY <1>3, <1>5 DEF ReadsUpTo
  <1>10. Thaws(t) <=> Thaws(s) /\ (IsPerform(f) /\ f.wasFrozen => f.again)
    BY <1>3, <1>5 DEF Thaws
  <1>11. AtMostOne(t) <=> AtMostOne(s) /\ (IsPerform(f) => ~Running(s))
    BY <1>3, <1>4, <1>5 DEF AtMostOne, Running
  <1>12. Nested(t) <=> Nested(s) /\ (Running(s) => IsPerform(f) /\ ~f.again)
    BY <1>3, <1>4, <1>5 DEF Nested, Running
  <1> QED BY <1>6, <1>7, <1>8, <1>9, <1>10, <1>11, <1>12 DEF t

(* No call, nothing runs.                                                    *)
LEMMA OnNone ==
  /\ ~Running(<<>>) /\ ~WasPinned(<<>>) /\ OnlyFirst(<<>>) /\ Thaws(<<>>)
  /\ AtMostOne(<<>>) /\ Nested(<<>>) /\ \A v : ReadsUpTo(<<>>, v)
  BY DEF Running, WasPinned, OnlyFirst, Thaws, AtMostOne, Nested, ReadsUpTo

(* A stack is its front with its top on it.                                  *)
LEMMA FrontAndTop ==
  ASSUME TypeOK, stack # <<>>
  PROVE  stack = Append(Below, Top) /\ Below \in Seq(Frame) /\ Top \in Frame
  <1>1. /\ Below \in Seq(Frame) /\ Len(Below) = Len(stack) - 1
        /\ \A i \in 1..Len(stack) - 1 : Below[i] = stack[i]
        /\ Len(stack) \in Nat \ {0}
        /\ Top \in Frame
    BY FrontProperties DEF TypeOK, Below, Top
  <1>2. /\ Append(Below, Top) \in Seq(Frame)
        /\ Len(Append(Below, Top)) = Len(Below) + 1
        /\ \A i \in 1..Len(Below) : Append(Below, Top)[i] = Below[i]
        /\ Append(Below, Top)[Len(Below) + 1] = Top
    BY <1>1, PushProperties
  <1>3. Len(Append(Below, Top)) = Len(stack)
    BY <1>1, <1>2
  <1>4. ASSUME NEW i \in 1..Len(stack) PROVE stack[i] = Append(Below, Top)[i]
    <2>1. CASE i = Len(stack)
      BY <1>1, <1>2, <2>1 DEF Top
    <2>2. CASE i # Len(stack)
      BY <1>1, <1>2, <2>2
    <2> QED BY <2>1, <2>2
  <1> QED BY <1>1, <1>2, <1>3, <1>4, SeqEqual DEF TypeOK

-----------------------------------------------------------------------------
(* The inductive invariant.  Results that are taken to be valid, and that    *)
(* nobody is computing, are those of the present inputs.                     *)
ValidIsCurrent == lazy.calculated /\ ~Running(stack) => result = input

\* Where foreign code changes inputs, a computation is the outermost call, an
\* input it read that changed since leaves nothing valid, and no result becomes
\* valid while changes are ignored.
HoldsWriting ==
    /\ OnlyFirst(stack)
    /\ lazy.updating => ~lazy.calculated
    /\ lazy.calculated => ReadsUpTo(stack, input)

\* Where it does not, a computation that has read has read the present inputs,
\* runs thawed, and only a recalculation has thawed it.  An object that forwards
\* only the first notification knows of no second computation, and has told
\* every reader once it has nothing to tell.
HoldsQuiet ==
    /\ ReadsUpTo(stack, input)
    /\ Nested(stack)
    /\ Thaws(stack)
    /\ Running(stack) => ~lazy.frozen
    /\ ~lazy.alwaysForward => AtMostOne(stack) /\ (Running(stack) => lazy.calculated)
    /\ ~lazy.alwaysForward /\ ~lazy.frozen /\ ~WasPinned(stack)
         /\ ~lazy.calculated /\ ~lazy.failed => lastRead = 0

Results ==
    /\ ValidIsCurrent
    /\ WritesWithin => HoldsWriting
    /\ ~WritesWithin => HoldsQuiet

Inv == TypeOK /\ GuardMatchesCalls /\ Results

(* What foreign code can do, by kind and by what is on top of the stack.     *)
LEMMA WhoCalls ==
  ASSUME Disciplined, Inv
  PROVE  /\ WritesWithin => \A op \in {"read", "recalculate", "mark"} :
                                Calls(op) => stack = <<>>
         /\ ~WritesWithin => (Calls("change") => stack = <<>>)
         /\ ~WritesWithin => \A op \in {"freeze", "unfreeze", "recalculate"} :
                                Calls(op) => ~Running(stack)
  <1>1. foreign \in ForeignCode
    BY DEF Inv, TypeOK
  <1>2. ASSUME WritesWithin, NEW op \in {"read", "recalculate", "mark"}, Calls(op)
        PROVE  stack = <<>>
    BY <1>1, <1>2 DEF Disciplined, Calls, WritesWithin
  <1>3. ASSUME ~WritesWithin, Calls("change") PROVE stack = <<>>
    BY <1>3 DEF Calls, WritesWithin
  <1>4. ASSUME ~WritesWithin, NEW op \in {"freeze", "unfreeze", "recalculate"}, Calls(op)
        PROVE  ~Running(stack)
    <2>1. stack = <<>> \/ ~IsPerform(Top)
      BY <1>1, <1>4 DEF Disciplined, Calls, WritesWithin, TopIs, IsPerform
    <2>2. CASE stack = <<>>
      BY <2>2, OnNone
    <2>3. CASE stack # <<>> /\ ~IsPerform(Top)
      <3>1. stack = Append(Below, Top) /\ Below \in Seq(Frame) /\ Top \in Frame
        BY <2>3, FrontAndTop DEF Inv
      <3>2. /\ Running(stack) <=> Running(Below) \/ IsPerform(Top)
            /\ Nested(stack) <=> Nested(Below) /\ (Running(Below) => IsPerform(Top) /\ ~Top.again)
        BY <3>1, OnTop
      <3>3. Nested(stack)
        BY <1>4 DEF Inv, Results, HoldsQuiet
      <3> QED BY <2>3, <3>2, <3>3
    <2> QED BY <2>1, <2>2, <2>3
  <1> QED BY <1>2, <1>3, <1>4

(* With no call active the guard is down.                                    *)
LEMMA IdleUnguarded == Inv /\ stack = <<>> => ~lazy.updating
  BY DEF Inv, GuardMatchesCalls

(* The model's Computing is Running of its stack.                            *)
LEMMA ComputingIsRunning ==
  /\ Computing <=> Running(stack)
  /\ (\E i \in DOMAIN Below : Below[i].op = "perform") <=> Running(Below)
  /\ (\E i \in DOMAIN stack : stack[i].op = "perform" /\ stack[i].wasFrozen)
       <=> WasPinned(stack)
  BY DEF Computing, Running, WasPinned, IsPerform

(* What the stack looks like to a call that is being returned from.          *)
LEMMA OnBelow ==
  ASSUME TypeOK, stack # <<>>
  PROVE  /\ Running(stack) <=> Running(Below) \/ IsPerform(Top)
         /\ WasPinned(stack) <=> WasPinned(Below) \/ (IsPerform(Top) /\ Top.wasFrozen)
         /\ OnlyFirst(stack) <=> OnlyFirst(Below) /\ (IsPerform(Top) => Below = <<>>)
         /\ \A v : ReadsUpTo(stack, v) <=>
                     ReadsUpTo(Below, v) /\ (IsPerform(Top) => Top.read \in {0, v})
         /\ Thaws(stack) <=> Thaws(Below) /\ (IsPerform(Top) /\ Top.wasFrozen => Top.again)
         /\ AtMostOne(stack) <=> AtMostOne(Below) /\ (IsPerform(Top) => ~Running(Below))
         /\ Nested(stack) <=> Nested(Below) /\ (Running(Below) => IsPerform(Top) /\ ~Top.again)
         /\ Below \in Seq(Frame) /\ Top \in Frame
  <1>1. stack = Append(Below, Top) /\ Below \in Seq(Frame) /\ Top \in Frame
    BY FrontAndTop
  <1> DEFINE s == stack
  <1>2. s = Append(Below, Top)
    BY <1>1
  <1> HIDE DEF s
  <1>3. /\ Running(s) <=> Running(Below) \/ IsPerform(Top)
        /\ WasPinned(s) <=> WasPinned(Below) \/ (IsPerform(Top) /\ Top.wasFrozen)
        /\ OnlyFirst(s) <=> OnlyFirst(Below) /\ (IsPerform(Top) => Below = <<>>)
        /\ \A v : ReadsUpTo(s, v) <=>
                    ReadsUpTo(Below, v) /\ (IsPerform(Top) => Top.read \in {0, v})
        /\ Thaws(s) <=> Thaws(Below) /\ (IsPerform(Top) /\ Top.wasFrozen => Top.again)
        /\ AtMostOne(s) <=> AtMostOne(Below) /\ (IsPerform(Top) => ~Running(Below))
        /\ Nested(s) <=> Nested(Below) /\ (Running(Below) => IsPerform(Top) /\ ~Top.again)
    BY <1>1, <1>2, OnTop
  <1> QED BY <1>1, <1>3 DEF s

(* A notification on the stack runs nothing.                                 *)
LEMMA OnNotification ==
  ASSUME NEW s \in Seq(Frame), NEW f \in {Notifying, Updating}
  PROVE  LET t == Append(s, f) IN
         /\ Running(t) <=> Running(s)
         /\ WasPinned(t) <=> WasPinned(s)
         /\ OnlyFirst(t) <=> OnlyFirst(s)
         /\ \A v : ReadsUpTo(t, v) <=> ReadsUpTo(s, v)
         /\ Thaws(t) <=> Thaws(s)
         /\ AtMostOne(t) <=> AtMostOne(s)
         /\ Nested(t) <=> Nested(s) /\ ~Running(s)
  <1>1. f \in Frame /\ ~IsPerform(f)
    BY FrameTypes DEF Notifying, Updating, IsPerform
  <1> QED BY <1>1, OnTop

-----------------------------------------------------------------------------
(* Every step keeps Results: the holder's calls first.                       *)
LEMMA ChangeKeeps ==
  ASSUME Disciplined, Inv, ChangeInput, UNCHANGED foreign
  PROVE  Results'
  <1>0. /\ lazy \in Lazy /\ stack \in Seq(Frame) /\ WritesWithin' = WritesWithin
        /\ Results /\ input \in Int
    BY DEF Inv, TypeOK, WritesWithin, Versions
  <1>1. /\ Running(stack') <=> Running(stack)
        /\ OnlyFirst(stack') <=> OnlyFirst(stack)
    BY <1>0, OnNotification DEF ChangeInput
  <1>2. /\ lazy'.alwaysForward = lazy.alwaysForward /\ lazy'.frozen = lazy.frozen
        /\ Invalidates(lazy) => ~lazy'.calculated
        /\ ~Invalidates(lazy) => lazy' = lazy
    BY <1>0 DEF ChangeInput, DeferredUpdate, Lazy
  <1>3. CASE WritesWithin
    <2>1. ~lazy'.calculated
      BY <1>0, <1>2, <1>3 DEF Results, HoldsWriting, Invalidates, Lazy
    <2> QED BY <1>0, <1>1, <1>3, <2>1 DEF Results, ValidIsCurrent, HoldsWriting
  <1>4. CASE ~WritesWithin
    <2>1. stack = <<>> /\ ~lazy.updating
      BY <1>4, WhoCalls, IdleUnguarded DEF ChangeInput
    <2>2. ~lazy'.calculated
      BY <1>0, <1>2, <2>1 DEF Invalidates, Lazy
    <2>3. /\ ~Running(stack') /\ ~WasPinned(stack') /\ Thaws(stack') /\ AtMostOne(stack')
          /\ Nested(stack') /\ \A v : ReadsUpTo(stack', v)
      BY <1>0, <2>1, OnNone, OnNotification DEF ChangeInput
    <2>4. ~lazy.alwaysForward /\ ~lazy.frozen /\ ~lazy'.failed => lastRead' = 0
      <3>1. Tells(lazy) => lastRead' = 0
        BY DEF ChangeInput
      <3>2. ~Tells(lazy) => lastRead' = lastRead
        BY DEF ChangeInput
      <3>3. HoldsQuiet /\ ~WasPinned(stack)
        BY <1>0, <1>4, <2>1, OnNone DEF Results
      <3>4. ~Tells(lazy) /\ ~lazy.frozen => ~lazy.calculated /\ ~lazy.failed
        BY <2>1 DEF Tells, Invalidates
      <3> QED BY <3>1, <3>2, <3>3, <3>4 DEF HoldsQuiet
    <2> QED
      BY <1>0, <1>2, <1>4, <2>2, <2>3, <2>4 DEF Results, ValidIsCurrent, HoldsQuiet
  <1> QED BY <1>3, <1>4

LEMMA ReadKeeps ==
  ASSUME Disciplined, Inv, ReadCached, UNCHANGED foreign
  PROVE  Results'
  BY DEF Inv, ReadCached, MustCalculate, Results, ValidIsCurrent, HoldsWriting, HoldsQuiet,
         WritesWithin

LEMMA CalculateKeeps ==
  ASSUME Disciplined, Inv, Calculate, UNCHANGED foreign
  PROVE  Results'
  <1> DEFINE f == Performing(FALSE, FALSE)
  <1>0. /\ lazy \in Lazy /\ stack \in Seq(Frame) /\ WritesWithin' = WritesWithin
        /\ Results /\ f \in Frame /\ ~lazy.calculated /\ ~lazy.frozen
    BY FrameTypes DEF Inv, TypeOK, WritesWithin, Calculate, MustCalculate
  <1>1. IsPerform(f) /\ f.read = 0 /\ ~f.again /\ ~f.wasFrozen
    BY DEF Performing, IsPerform
  <1>2. /\ lazy'.calculated /\ lazy'.frozen = lazy.frozen /\ lazy'.updating = lazy.updating
        /\ lazy'.alwaysForward = lazy.alwaysForward
        /\ stack' = Append(stack, f) /\ UNCHANGED <<input, result, lastRead>>
    BY <1>0 DEF Calculate, StartCalculation, Lazy
  <1> HIDE DEF f
  <1>3. /\ Running(stack')
        /\ OnlyFirst(stack') <=> OnlyFirst(stack) /\ stack = <<>>
        /\ \A v : ReadsUpTo(stack', v) <=> ReadsUpTo(stack, v)
        /\ Thaws(stack') <=> Thaws(stack)
        /\ AtMostOne(stack') <=> AtMostOne(stack) /\ ~Running(stack)
        /\ Nested(stack') <=> Nested(stack)
    BY <1>0, <1>1, <1>2, OnTop
  <1>4. CASE WritesWithin
    <2>1. stack = <<>> /\ ~lazy.updating
      BY <1>4, WhoCalls, IdleUnguarded DEF Calculate
    <2> QED
      BY <1>0, <1>2, <1>3, <1>4, <2>1, OnNone DEF Results, ValidIsCurrent, HoldsWriting
  <1>5. CASE ~WritesWithin
    BY <1>0, <1>2, <1>3, <1>5 DEF Results, ValidIsCurrent, HoldsQuiet
  <1> QED BY <1>4, <1>5

LEMMA RecalculateKeeps ==
  ASSUME Disciplined, Inv, Recalculate, UNCHANGED foreign
  PROVE  Results'
  <1> DEFINE f == Performing(TRUE, lazy.frozen)
  <1>0. /\ lazy \in Lazy /\ lazy.frozen \in BOOLEAN /\ stack \in Seq(Frame)
        /\ WritesWithin' = WritesWithin /\ Results
    BY DEF Inv, TypeOK, WritesWithin, Lazy
  <1>1. f \in Frame /\ IsPerform(f) /\ f.read = 0 /\ f.again
    BY <1>0, FrameTypes DEF Performing, IsPerform
  <1>2. /\ lazy'.calculated /\ ~lazy'.frozen /\ lazy'.updating = lazy.updating
        /\ lazy'.alwaysForward = lazy.alwaysForward
        /\ stack' = Append(stack, f) /\ UNCHANGED <<input, result, lastRead>>
    BY <1>0 DEF Recalculate, StartCalculation, StartRecalculation, Lazy
  <1> HIDE DEF f
  <1>3. /\ Running(stack')
        /\ OnlyFirst(stack') <=> OnlyFirst(stack) /\ stack = <<>>
        /\ \A v : ReadsUpTo(stack', v) <=> ReadsUpTo(stack, v)
        /\ Thaws(stack') <=> Thaws(stack)
        /\ AtMostOne(stack') <=> AtMostOne(stack) /\ ~Running(stack)
        /\ ~Running(stack) => (Nested(stack') <=> Nested(stack))
    BY <1>0, <1>1, <1>2, OnTop
  <1>4. CASE WritesWithin
    <2>1. stack = <<>> /\ ~lazy.updating
      BY <1>4, WhoCalls, IdleUnguarded DEF Recalculate
    <2> QED
      BY <1>0, <1>2, <1>3, <1>4, <2>1, OnNone DEF Results, ValidIsCurrent, HoldsWriting
  <1>5. CASE ~WritesWithin
    <2>1. ~Running(stack)
      BY <1>5, WhoCalls DEF Recalculate
    <2> QED BY <1>0, <1>2, <1>3, <1>5, <2>1 DEF Results, ValidIsCurrent, HoldsQuiet
  <1> QED BY <1>4, <1>5

LEMMA FreezeKeeps ==
  ASSUME Disciplined, Inv, FreezeResults \/ UnfreezeResults, UNCHANGED foreign
  PROVE  Results'
  <1>0. /\ lazy \in Lazy /\ stack \in Seq(Frame) /\ WritesWithin' = WritesWithin /\ Results
    BY DEF Inv, TypeOK, WritesWithin
  <1>1. /\ lazy'.calculated = lazy.calculated /\ lazy'.updating = lazy.updating
        /\ lazy'.alwaysForward = lazy.alwaysForward /\ lazy'.failed = lazy.failed
        /\ UNCHANGED <<input, result>>
        /\ \/ lazy'.frozen = lazy.frozen /\ UNCHANGED <<stack, lastRead>>
           \/ lastRead' = 0 /\ stack' = Append(stack, Notifying)
                /\ ~lazy'.frozen
           \/ lazy'.frozen /\ UNCHANGED stack
    <2>1. CASE FreezeResults
      BY <1>0, <2>1 DEF FreezeResults, Freeze, Lazy
    <2>2. CASE UnfreezeResults /\ lazy.frozen
      BY <1>0, <2>2 DEF UnfreezeResults, Unfreeze, Lazy
    <2>3. CASE UnfreezeResults /\ ~lazy.frozen
      <3>1. lazy' = Unfreeze(lazy) /\ UNCHANGED <<stack, lastRead, input, result>>
        BY <2>3 DEF UnfreezeResults
      <3>2. lazy.frozen = FALSE
        BY <1>0, <2>3 DEF Lazy
      <3> QED BY <1>0, <3>1, <3>2 DEF Unfreeze, Lazy
    <2> QED BY <2>1, <2>2, <2>3
  <1>2. /\ Running(stack') <=> Running(stack)
        /\ WasPinned(stack') <=> WasPinned(stack)
        /\ OnlyFirst(stack') <=> OnlyFirst(stack)
        /\ \A v : ReadsUpTo(stack', v) <=> ReadsUpTo(stack, v)
        /\ Thaws(stack') <=> Thaws(stack)
        /\ AtMostOne(stack') <=> AtMostOne(stack)
        /\ ~Running(stack) => (Nested(stack') <=> Nested(stack))
    <2>1. CASE stack' = stack
      BY <2>1
    <2>2. CASE stack' = Append(stack, Notifying)
      BY <1>0, <2>2, OnNotification
    <2> QED BY <1>1, <2>1, <2>2
  <1>3. ~WritesWithin => ~Running(stack)
    BY WhoCalls DEF FreezeResults, UnfreezeResults
  <1> QED
    BY <1>0, <1>1, <1>2, <1>3 DEF Results, ValidIsCurrent, HoldsWriting, HoldsQuiet

LEMMA StoreKeeps ==
  ASSUME Disciplined, Inv, StoreResults \/ Invalidate, UNCHANGED foreign
  PROVE  Results'
  <1>0. /\ lazy \in Lazy /\ stack \in Seq(Frame) /\ WritesWithin' = WritesWithin /\ Results
    BY DEF Inv, TypeOK, WritesWithin
  <1>1. CASE StoreResults
    <2>1. /\ lazy'.calculated /\ lazy'.updating = lazy.updating /\ lazy'.frozen = lazy.frozen
          /\ lazy'.alwaysForward = lazy.alwaysForward
          /\ result' = input /\ UNCHANGED <<input, stack, lastRead>>
      BY <1>0, <1>1 DEF StoreResults, MarkCalculated, Lazy
    <2>2. WritesWithin => stack = <<>> /\ ~lazy.updating
      BY <1>1, WhoCalls, IdleUnguarded DEF StoreResults
    <2> QED
      BY <1>0, <2>1, <2>2, OnNone DEF Results, ValidIsCurrent, HoldsWriting, HoldsQuiet
  <1>2. CASE Invalidate
    <2>1. /\ ~lazy'.calculated /\ lazy.alwaysForward /\ lazy'.frozen = lazy.frozen
          /\ lazy'.alwaysForward = lazy.alwaysForward
          /\ UNCHANGED <<input, result, stack, lastRead>>
      BY <1>0, <1>2 DEF Invalidate, InvalidateSilently, Lazy
    <2> QED BY <1>0, <2>1 DEF Results, ValidIsCurrent, HoldsWriting, HoldsQuiet
  <1> QED BY <1>1, <1>2

(* Then the steps of the calls that are active.                              *)
LEMMA EndKeeps ==
  ASSUME Inv, EndUpdating \/ EndNotifying, UNCHANGED foreign
  PROVE  Results'
  <1>0. /\ lazy \in Lazy /\ WritesWithin' = WritesWithin /\ Results
        /\ TypeOK /\ stack # <<>> /\ ~IsPerform(Top)
    BY DEF Inv, TypeOK, WritesWithin, EndUpdating, EndNotifying, TopIs, IsPerform
  <1>1. /\ lazy'.calculated = lazy.calculated
        /\ lazy'.updating => lazy.updating
        /\ lazy'.alwaysForward = lazy.alwaysForward
        /\ lazy'.frozen = lazy.frozen /\ lazy'.failed = lazy.failed
        /\ UNCHANGED <<input, result, lastRead>> /\ stack' = Below
    BY <1>0 DEF EndUpdating, EndNotifying, EndUpdate, Lazy
  <1>2. /\ Running(stack') <=> Running(stack)
        /\ WasPinned(stack') <=> WasPinned(stack)
        /\ OnlyFirst(stack') <=> OnlyFirst(stack)
        /\ \A v : ReadsUpTo(stack', v) <=> ReadsUpTo(stack, v)
        /\ Thaws(stack') <=> Thaws(stack)
        /\ AtMostOne(stack') <=> AtMostOne(stack)
        /\ Nested(stack) => Nested(stack')
    BY <1>0, <1>1, OnBelow
  <1> QED
    BY <1>0, <1>1, <1>2 DEF Results, ValidIsCurrent, HoldsWriting, HoldsQuiet

LEMMA PerformReadsKeeps ==
  ASSUME Inv, PerformReads, UNCHANGED foreign
  PROVE  Results'
  <1> DEFINE f == [Top EXCEPT !.read = input]
  <1>0. /\ WritesWithin' = WritesWithin /\ Results /\ input \in Versions
        /\ TypeOK /\ stack # <<>> /\ IsPerform(Top) /\ Below \in Seq(Frame) /\ Top \in Frame
    BY OnBelow DEF Inv, TypeOK, WritesWithin, PerformReads, TopIs, IsPerform
  <1>1. /\ f \in Frame /\ IsPerform(f) /\ f.read = input
        /\ f.again = Top.again /\ f.wasFrozen = Top.wasFrozen
    <2>1. f \in Frame
      BY <1>0, ReadFrame DEF IsPerform
    <2> QED BY <1>0, <2>1 DEF Frame, IsPerform
  <1>2. UNCHANGED <<lazy, input, result, lastRead>> /\ stack' = Append(Below, f)
    BY DEF PerformReads
  <1> HIDE DEF f
  <1>3. /\ Running(stack) /\ Running(stack')
        /\ WasPinned(stack') <=> WasPinned(stack)
        /\ OnlyFirst(stack') <=> OnlyFirst(stack)
        /\ ReadsUpTo(stack, input) => ReadsUpTo(stack', input)
        /\ Thaws(stack') <=> Thaws(stack)
        /\ AtMostOne(stack') <=> AtMostOne(stack)
        /\ Nested(stack') <=> Nested(stack)
    BY <1>0, <1>1, <1>2, OnBelow, OnTop
  <1> QED
    BY <1>0, <1>2, <1>3 DEF Results, ValidIsCurrent, HoldsWriting, HoldsQuiet

(* What a computation that ends leaves of the stack.                         *)
LEMMA FinishViews ==
  ASSUME Inv, TopIs({"perform"}), NEW lz \in Lazy, NEW res, NEW got, Finish(lz, res, got)
  PROVE  /\ OnlyFirst(stack) => ~Running(stack')
         /\ Nested(stack) => Nested(stack')
         /\ Nested(stack) /\ Top.again => ~Running(stack') /\ ~WasPinned(stack')
         /\ \A v : ReadsUpTo(stack, v) => ReadsUpTo(stack', v) /\ Top.read \in {0, v}
         /\ Thaws(stack) => Thaws(stack') /\ (~Top.again => ~Top.wasFrozen)
         /\ AtMostOne(stack) => AtMostOne(stack') /\ ~Running(stack')
         /\ OnlyFirst(stack) => OnlyFirst(stack')
         /\ WasPinned(stack) <=> WasPinned(Below) \/ Top.wasFrozen
         /\ ~Running(Below) => ~WasPinned(Below)
         /\ Running(stack)
         /\ Running(stack') <=> Running(Below)
  <1>0. TypeOK /\ stack # <<>> /\ IsPerform(Top) /\ Below \in Seq(Frame)
    BY OnBelow DEF Inv, TopIs, IsPerform
  <1>1. stack' = Below \/ (Top.again /\ stack' = Append(Below, Notifying))
    BY DEF Finish
  <1>2. \A s : WasPinned(s) => Running(s)
    BY DEF WasPinned, Running
  <1>3. /\ Running(stack') <=> Running(Below)
        /\ WasPinned(stack') <=> WasPinned(Below)
        /\ OnlyFirst(stack') <=> OnlyFirst(Below)
        /\ \A v : ReadsUpTo(stack', v) <=> ReadsUpTo(Below, v)
        /\ Thaws(stack') <=> Thaws(Below)
        /\ AtMostOne(stack') <=> AtMostOne(Below)
        /\ stack' = Below => (Nested(stack') <=> Nested(Below))
        /\ stack' = Append(Below, Notifying) => (Nested(stack') <=> Nested(Below) /\ ~Running(Below))
    <2> DEFINE told == Append(Below, Notifying)
    <2>1. /\ Running(told) <=> Running(Below)
          /\ WasPinned(told) <=> WasPinned(Below)
          /\ OnlyFirst(told) <=> OnlyFirst(Below)
          /\ \A v : ReadsUpTo(told, v) <=> ReadsUpTo(Below, v)
          /\ Thaws(told) <=> Thaws(Below)
          /\ AtMostOne(told) <=> AtMostOne(Below)
          /\ Nested(told) <=> Nested(Below) /\ ~Running(Below)
          /\ told # Below
      <3>1. Len(told) # Len(Below)
        BY <1>0, FrameTypes, PushProperties
      <3> QED BY <1>0, <3>1, OnNotification
    <2> HIDE DEF told
    <2>2. CASE stack' = Below
      BY <2>1, <2>2 DEF told
    <2>3. CASE stack' = told
      BY <2>1, <2>3 DEF told
    <2> QED BY <1>1, <2>2, <2>3 DEF told
  <1>4. /\ Running(stack) <=> Running(Below) \/ IsPerform(Top)
        /\ WasPinned(stack) <=> WasPinned(Below) \/ (IsPerform(Top) /\ Top.wasFrozen)
        /\ OnlyFirst(stack) <=> OnlyFirst(Below) /\ (IsPerform(Top) => Below = <<>>)
        /\ \A v : ReadsUpTo(stack, v) <=>
                    ReadsUpTo(Below, v) /\ (IsPerform(Top) => Top.read \in {0, v})
        /\ Thaws(stack) <=> Thaws(Below) /\ (IsPerform(Top) /\ Top.wasFrozen => Top.again)
        /\ AtMostOne(stack) <=> AtMostOne(Below) /\ (IsPerform(Top) => ~Running(Below))
        /\ Nested(stack) <=> Nested(Below) /\ (Running(Below) => IsPerform(Top) /\ ~Top.again)
    BY <1>0, OnBelow
  <1>5. OnlyFirst(stack) => ~Running(stack')
    BY <1>0, <1>3, <1>4, OnNone
  <1> QED BY <1>0, <1>1, <1>2, <1>3, <1>4, <1>5

\* The flags a computation that ends leaves.
Ended(lz) ==
    /\ lazy'.calculated = lz.calculated /\ lazy'.updating = lz.updating
    /\ lazy'.alwaysForward = lz.alwaysForward /\ lazy'.failed = lz.failed
    /\ ~Top.again => lazy'.frozen = lz.frozen
    /\ Top.again => lazy'.frozen = Top.wasFrozen

LEMMA FinishFlags ==
  ASSUME NEW lz \in Lazy, NEW res, NEW got, Finish(lz, res, got)
  PROVE  /\ Ended(lz)
         /\ result' = res /\ UNCHANGED input
         /\ Top.again => lastRead' = 0
         /\ ~Top.again => lastRead' = IF Running(Below) THEN lastRead ELSE got
  <1>1. CASE Top.again
    <2>1. lazy' = FinishRecalculation(lz, Top.wasFrozen)
      BY <1>1 DEF Finish
    <2> QED BY <1>1, <2>1 DEF Finish, Ended, FinishRecalculation, Lazy
  <1>2. CASE ~Top.again
    BY <1>2, ComputingIsRunning DEF Finish, Ended
  <1> QED BY <1>1, <1>2

LEMMA PerformKeeps ==
  ASSUME Inv, PerformOk \/ PerformErr, UNCHANGED foreign
  PROVE  Results'
  <1>0. /\ lazy \in Lazy /\ WritesWithin' = WritesWithin /\ Results /\ TopIs({"perform"})
        /\ FinishOk(lazy) \in Lazy /\ FinishErr(lazy) \in Lazy
    BY FlagTypes DEF Inv, TypeOK, WritesWithin, PerformOk, PerformErr
  <1>1. CASE PerformOk
    <2>1. /\ Ended(FinishOk(lazy)) /\ Top.read # 0
          /\ result' = Top.read /\ UNCHANGED input
          /\ Top.again => lastRead' = 0
      BY <1>0, <1>1, FinishFlags DEF PerformOk
    <2>2. /\ lazy'.calculated = lazy.calculated /\ lazy'.updating = lazy.updating
          /\ lazy'.alwaysForward = lazy.alwaysForward
          /\ ~Top.again => lazy'.frozen = lazy.frozen
      BY <1>0, <2>1 DEF Ended, FinishOk, Lazy
    <2>3. /\ OnlyFirst(stack) => ~Running(stack')
          /\ Nested(stack) => Nested(stack')
          /\ Nested(stack) /\ Top.again => ~Running(stack') /\ ~WasPinned(stack')
          /\ \A v : ReadsUpTo(stack, v) => ReadsUpTo(stack', v) /\ Top.read \in {0, v}
          /\ Thaws(stack) => Thaws(stack')
          /\ AtMostOne(stack) => AtMostOne(stack') /\ ~Running(stack')
          /\ OnlyFirst(stack) => OnlyFirst(stack')
          /\ Running(stack)
      BY <1>0, <1>1, FinishViews DEF PerformOk
    <2>4. CASE WritesWithin
      BY <1>0, <2>1, <2>2, <2>3, <2>4 DEF Results, ValidIsCurrent, HoldsWriting
    <2>5. CASE ~WritesWithin
      BY <1>0, <2>1, <2>2, <2>3, <2>5 DEF Results, ValidIsCurrent, HoldsQuiet
    <2> QED BY <2>4, <2>5
  <1>2. CASE PerformErr
    <2>1. /\ Ended(FinishErr(lazy)) /\ UNCHANGED <<result, input>>
          /\ Top.again => lastRead' = 0
      BY <1>0, <1>2, FinishFlags DEF PerformErr
    <2>2. /\ ~lazy'.calculated /\ lazy'.failed
          /\ lazy'.alwaysForward = lazy.alwaysForward
          /\ ~Top.again => lazy'.frozen = lazy.frozen
      BY <1>0, <2>1 DEF Ended, FinishErr, Lazy
    <2>3. /\ Nested(stack) => Nested(stack')
          /\ Nested(stack) /\ Top.again => ~Running(stack')
          /\ \A v : ReadsUpTo(stack, v) => ReadsUpTo(stack', v)
          /\ Thaws(stack) => Thaws(stack')
          /\ AtMostOne(stack) => AtMostOne(stack') /\ ~Running(stack')
          /\ OnlyFirst(stack) => OnlyFirst(stack')
          /\ Running(stack)
      BY <1>0, <1>2, FinishViews DEF PerformErr
    <2> QED
      BY <1>0, <2>1, <2>2, <2>3 DEF Results, ValidIsCurrent, HoldsWriting, HoldsQuiet
  <1> QED BY <1>1, <1>2

LEMMA PanicKeeps ==
  ASSUME Inv, Panic, UNCHANGED foreign
  PROVE  Results'
  <1>0. /\ lazy \in Lazy /\ WritesWithin' = WritesWithin /\ Results /\ ~Running(stack)
    BY ComputingIsRunning DEF Inv, TypeOK, WritesWithin, Panic
  <1>1. /\ lazy'.calculated = lazy.calculated
        /\ lazy'.updating => lazy.updating
        /\ lazy'.alwaysForward = lazy.alwaysForward
        /\ lazy'.frozen = lazy.frozen /\ lazy'.failed = lazy.failed
        /\ UNCHANGED <<input, result, lastRead>> /\ stack' = <<>>
    BY <1>0 DEF Panic, EndUpdate, Lazy
  <1>2. ~WasPinned(stack)
    BY <1>0 DEF WasPinned, Running
  <1> QED
    BY <1>0, <1>1, <1>2, OnNone DEF Results, ValidIsCurrent, HoldsWriting, HoldsQuiet

LEMMA ResultsStep == Disciplined /\ Inv /\ [Next]_vars => Results'
  <1> SUFFICES ASSUME Disciplined, Inv, [Next]_vars PROVE Results'
    OBVIOUS
  <1>1. CASE UNCHANGED vars
    BY <1>1 DEF vars, Inv, Results, ValidIsCurrent, HoldsWriting, HoldsQuiet, WritesWithin
  <1>2. CASE Next
    BY <1>2, ChangeKeeps, ReadKeeps, CalculateKeeps, RecalculateKeeps, FreezeKeeps,
       StoreKeeps, EndKeeps, PerformReadsKeeps, PerformKeeps, PanicKeeps DEF Next, Step
  <1> QED BY <1>1, <1>2

LEMMA InitInv == Init => Inv
  <1> SUFFICES ASSUME Init PROVE Inv
    OBVIOUS
  <1>1. TypeOK /\ GuardMatchesCalls
    <2>1. \A always \in Policies : NewLazy(always) \in Lazy /\ ~NewLazy(always).updating
      BY LazyConstants DEF NewLazy, Lazy
    <2> QED BY <2>1, LazyConstants, EmptySeq DEF Init, TypeOK, Versions, GuardMatchesCalls
  <1>2. ~lazy.calculated /\ ~lazy.updating /\ stack = <<>> /\ lastRead = 0
    BY DEF Init, NewLazy
  <1> QED
    BY <1>1, <1>2, OnNone DEF Inv, Results, ValidIsCurrent, HoldsWriting, HoldsQuiet

LEMMA InvCorrect ==
  ASSUME Disciplined
  PROVE  Spec => []Inv
  <1>1. Inv /\ [Next]_vars => Inv'
    BY TypeStep, GuardStep, ResultsStep DEF Inv
  <1> QED BY <1>1, InitInv, PTL DEF Spec

(* An object that says it is calculated, when no call on it is active, holds *)
(* the results of the present inputs, for any disciplined foreign code, after*)
(* nested requests, errors, panics, freezing and recalculation.              *)
THEOREM ResultsCorrect ==
  ASSUME Disciplined
  PROVE  Spec => []CalculatedIsCurrent
  <1>1. Inv => CalculatedIsCurrent
    BY OnNone DEF Inv, Results, ValidIsCurrent, CalculatedIsCurrent
  <1> QED BY <1>1, InvCorrect, PTL

(* No step but the holder storing results changes those of a frozen object.  *)
THEOREM FrozenCorrect ==
  ASSUME Disciplined
  PROVE  Spec => FrozenResultsStay
  <1>1. Inv /\ [Next]_vars =>
          [lazy.frozen /\ ~WritesWithin /\ result' # result => StoreResults]_vars
    <2> SUFFICES ASSUME Inv, Next, lazy.frozen, ~WritesWithin, result' # result
                 PROVE  StoreResults
      BY DEF vars
    <2>1. ~PerformOk
      <3>1. ASSUME PerformOk PROVE Running(stack)
        BY <3>1, FinishViews, FlagTypes DEF PerformOk, Inv, TypeOK
      <3> QED BY <3>1 DEF Inv, Results, HoldsQuiet
    <2>2. ~PerformErr
      BY DEF PerformErr, Finish
    <2> QED
      BY <2>1, <2>2 DEF Next, Step, ChangeInput, EndUpdating, EndNotifying, ReadCached,
         Calculate, Recalculate, PerformReads, Panic, FreezeResults, UnfreezeResults, Invalidate
  <1> QED BY <1>1, InvCorrect, PTL DEF Spec, FrozenResultsStay

-----------------------------------------------------------------------------
(* Readers are served as CachedValue promises: every step is a change, an    *)
(* answer, a pinning or an unpinning of the promise, or none of its business.*)
Pinned == lazy.frozen \/ WasPinned(stack)

LEMMA UnpromisedIs == Unpromised <=> WritesWithin \/ Pinned
  BY ComputingIsRunning DEF Unpromised, Pinned

LEMMA UnpromisedNext == Unpromised' <=> WritesWithin' \/ Pinned'
  BY UnpromisedIs, PTL

LEMMA WasPinnedRuns == \A s : WasPinned(s) => Running(s)
  BY DEF WasPinned, Running

\* A step of the promise, as the object takes it.
StaysPinned == Pinned' <=> Pinned
ServesChange == StaysPinned /\ lastRead' \in IF Pinned THEN {lastRead, 0} ELSE {0}
ServesAnswer == StaysPinned /\ UNCHANGED input /\ lastRead' \in {lastRead, 0, input}
Pins == Pinned' /\ UNCHANGED <<input, lastRead>>
Unpins == ~Pinned' /\ lastRead' = 0 /\ UNCHANGED input
AnswersPinned == Pinned /\ Pinned' /\ UNCHANGED input

Serves == ServesChange \/ ServesAnswer \/ Pins \/ Unpins \/ AnswersPinned

LEMMA CallsServe ==
  ASSUME Disciplined, Inv, ~WritesWithin, UNCHANGED foreign,
         ChangeInput \/ ReadCached \/ Calculate \/ Recalculate
  PROVE  Serves
  <1>0. /\ lazy \in Lazy /\ stack \in Seq(Frame) /\ lazy.frozen \in BOOLEAN /\ TypeOK
        /\ ValidIsCurrent /\ HoldsQuiet /\ lastRead \in 0..MaxInput
    BY DEF Inv, TypeOK, Results, Lazy
  <1>1. CASE ChangeInput
    <2>1. stack = <<>> /\ ~lazy.updating /\ ~WasPinned(stack)
      BY <1>1, WhoCalls, IdleUnguarded, OnNone DEF ChangeInput
    <2>2. ~WasPinned(stack')
      BY <1>0, <1>1, <2>1, OnNotification DEF ChangeInput
    <2>3. lazy'.frozen = lazy.frozen
      BY <1>0, <1>1 DEF ChangeInput, DeferredUpdate, Lazy
    <2>4. ~lazy.frozen => lastRead' = 0
      BY <1>0, <1>1, <2>1 DEF ChangeInput, Tells, Invalidates, HoldsQuiet
    <2>5. lastRead' \in {lastRead, 0}
      BY <1>1 DEF ChangeInput
    <2> QED BY <2>1, <2>2, <2>3, <2>4, <2>5 DEF Serves, ServesChange, StaysPinned, Pinned
  <1>2. CASE ReadCached
    <2>1. Pinned' = Pinned /\ UNCHANGED input
      BY <1>2 DEF ReadCached, Pinned
    <2>2. lastRead' = lastRead \/ (~Running(stack) /\ lastRead' = result)
      BY <1>2, ComputingIsRunning DEF ReadCached, ReaderGets
    <2>3. lazy.calculated \/ lazy.frozen
      BY <1>2 DEF ReadCached, MustCalculate
    <2> QED
      BY <1>0, <2>1, <2>2, <2>3 DEF Serves, ServesAnswer, AnswersPinned,
         StaysPinned, Pinned, ValidIsCurrent
  <1>3. CASE Calculate
    <2> DEFINE f == Performing(FALSE, FALSE)
    <2>1. f \in Frame /\ IsPerform(f) /\ ~f.wasFrozen
      BY FrameTypes DEF Performing, IsPerform
    <2>2. stack' = Append(stack, f) /\ UNCHANGED <<input, lastRead>>
      BY <1>3 DEF Calculate
    <2>3. lazy'.frozen = lazy.frozen
      BY <1>0, <1>3 DEF Calculate, StartCalculation, Lazy
    <2> HIDE DEF f
    <2>4. WasPinned(stack') <=> WasPinned(stack)
      BY <1>0, <2>1, <2>2, OnTop
    <2> QED BY <2>2, <2>3, <2>4 DEF Serves, ServesAnswer, StaysPinned, Pinned
  <1>4. CASE Recalculate
    <2> DEFINE f == Performing(TRUE, lazy.frozen)
    <2>1. f \in Frame /\ IsPerform(f) /\ f.wasFrozen = lazy.frozen
      BY <1>0, FrameTypes DEF Performing, IsPerform
    <2>2. stack' = Append(stack, f) /\ UNCHANGED <<input, lastRead>>
      BY <1>4 DEF Recalculate
    <2>3. ~lazy'.frozen
      BY <1>0, <1>4 DEF Recalculate, StartCalculation, StartRecalculation, Lazy
    <2> HIDE DEF f
    <2>4. WasPinned(stack') <=> WasPinned(stack) \/ lazy.frozen
      BY <1>0, <2>1, <2>2, OnTop
    <2> QED BY <2>2, <2>3, <2>4 DEF Serves, ServesAnswer, StaysPinned, Pinned
  <1> QED BY <1>1, <1>2, <1>3, <1>4

LEMMA PerformServes ==
  ASSUME Inv, ~WritesWithin, UNCHANGED foreign, PerformReads \/ PerformOk \/ PerformErr
  PROVE  Serves
  <1>0. /\ lazy \in Lazy /\ stack \in Seq(Frame) /\ lazy.frozen \in BOOLEAN /\ TypeOK
        /\ HoldsQuiet /\ TopIs({"perform"}) /\ stack # <<>> /\ IsPerform(Top)
    BY DEF Inv, TypeOK, Results, Lazy, PerformReads, PerformOk, PerformErr, TopIs, IsPerform
  <1>1. CASE PerformReads
    <2> DEFINE f == [Top EXCEPT !.read = input]
    <2>1. Top \in Frame /\ Below \in Seq(Frame) /\ f \in Frame
      BY <1>0, OnBelow, ReadFrame DEF TypeOK, IsPerform
    <2>2. IsPerform(f) /\ f.wasFrozen = Top.wasFrozen
      BY <1>0, <2>1 DEF Frame, IsPerform
    <2>3. UNCHANGED <<lazy, input, lastRead>> /\ stack' = Append(Below, f)
      BY <1>1 DEF PerformReads
    <2> HIDE DEF f
    <2>4. WasPinned(stack') <=> WasPinned(stack)
      BY <1>0, <2>1, <2>2, <2>3, OnBelow, OnTop
    <2> QED BY <2>3, <2>4 DEF Serves, ServesAnswer, StaysPinned, Pinned
  <1>2. ASSUME NEW lz \in Lazy, lz.frozen = lazy.frozen, NEW res, NEW got \in {0, input},
               Finish(lz, res, got)
        PROVE  Serves
    <2>1. /\ Ended(lz) /\ UNCHANGED input
          /\ Top.again => lastRead' = 0
          /\ ~Top.again => lastRead' = IF Running(Below) THEN lastRead ELSE got
      BY <1>2, FinishFlags
    <2>2. /\ Nested(stack) /\ Top.again => ~Running(stack') /\ ~WasPinned(stack')
          /\ Thaws(stack) => (~Top.again => ~Top.wasFrozen)
          /\ WasPinned(stack) <=> WasPinned(Below) \/ Top.wasFrozen
          /\ ~Running(Below) => ~WasPinned(Below)
          /\ Running(stack)
          /\ Running(stack') <=> Running(Below)
      BY <1>0, <1>2, FinishViews
    <2>3. Top.wasFrozen \in BOOLEAN
      BY <1>0, OnBelow, PerformFrame DEF IsPerform
    <2>4. ~lazy.frozen
      BY <1>0, <2>2 DEF HoldsQuiet
    <2>5. CASE Top.again
      <3>1. lazy'.frozen = Top.wasFrozen /\ ~WasPinned(stack') /\ ~WasPinned(Below)
        BY <1>0, <2>1, <2>2, <2>5 DEF Ended, HoldsQuiet
      <3> QED BY <2>1, <2>2, <2>3, <2>4, <2>5, <3>1 DEF Serves, ServesAnswer, StaysPinned, Pinned
    <2>6. CASE ~Top.again
      <3>1. stack' = Below /\ lazy'.frozen = lazy.frozen
        BY <1>2, <2>1, <2>6 DEF Finish, Ended
      <3>2. WasPinned(Below) <=> WasPinned(stack)
        BY <1>0, <2>2, <2>6 DEF HoldsQuiet
      <3>3. lastRead' \in {lastRead, 0, input}
        BY <2>1, <2>6
      <3> QED BY <2>1, <3>1, <3>2, <3>3 DEF Serves, ServesAnswer, StaysPinned, Pinned
    <2> QED BY <2>5, <2>6
  <1>3. CASE PerformOk
    <2>1. Top.read \in {0, input}
      BY <1>0, OnBelow DEF HoldsQuiet
    <2>2. FinishOk(lazy) \in Lazy /\ FinishOk(lazy).frozen = lazy.frozen
      BY <1>0, FlagTypes DEF FinishOk, Lazy
    <2> QED BY <1>2, <1>3, <2>1, <2>2 DEF PerformOk
  <1>4. CASE PerformErr
    <2>1. FinishErr(lazy) \in Lazy
      BY <1>0, FlagTypes
    <2>2. FinishErr(lazy).frozen = lazy.frozen
      BY <1>0 DEF FinishErr, Lazy
    <2> QED BY <1>2, <1>4, <2>1, <2>2 DEF PerformErr
  <1> QED BY <1>1, <1>3, <1>4

LEMMA OthersServe ==
  ASSUME Disciplined, Inv, ~WritesWithin, UNCHANGED foreign,
         \/ EndUpdating \/ EndNotifying \/ Panic
         \/ FreezeResults \/ UnfreezeResults \/ StoreResults \/ Invalidate
  PROVE  Serves
  <1>0. /\ lazy \in Lazy /\ stack \in Seq(Frame) /\ lazy.frozen \in BOOLEAN /\ TypeOK
    BY DEF Inv, TypeOK, Lazy
  <1>1. CASE EndUpdating \/ EndNotifying
    <2>1. stack # <<>> /\ ~IsPerform(Top)
      BY <1>1 DEF EndUpdating, EndNotifying, TopIs, IsPerform
    <2>2. WasPinned(stack) <=> WasPinned(Below)
      BY <1>0, <2>1, OnBelow
    <2>3. lazy'.frozen = lazy.frozen /\ UNCHANGED <<input, lastRead>> /\ stack' = Below
      BY <1>0, <1>1 DEF EndUpdating, EndNotifying, EndUpdate, Lazy
    <2> QED BY <2>2, <2>3 DEF Serves, ServesAnswer, StaysPinned, Pinned
  <1>2. CASE Panic
    <2>1. ~WasPinned(stack)
      BY <1>2, ComputingIsRunning, WasPinnedRuns DEF Panic
    <2>2. lazy'.frozen = lazy.frozen /\ UNCHANGED <<input, lastRead>> /\ stack' = <<>>
      BY <1>0, <1>2 DEF Panic, EndUpdate, Lazy
    <2> QED BY <2>1, <2>2, OnNone DEF Serves, ServesAnswer, StaysPinned, Pinned
  <1>3. CASE FreezeResults
    BY <1>0, <1>3 DEF FreezeResults, Freeze, Lazy, Serves, Pins, Pinned
  <1>4. CASE UnfreezeResults
    <2>1. ~WasPinned(stack)
      BY <1>4, WhoCalls, WasPinnedRuns DEF UnfreezeResults
    <2>2. ~lazy'.frozen /\ UNCHANGED input
      BY <1>0, <1>4 DEF UnfreezeResults, Unfreeze, Lazy
    <2>3. CASE lazy.frozen
      <3>1. lastRead' = 0 /\ ~WasPinned(stack')
        BY <1>0, <1>4, <2>1, <2>3, OnNotification DEF UnfreezeResults
      <3> QED BY <2>2, <3>1 DEF Serves, Unpins, Pinned
    <2>4. CASE ~lazy.frozen
      <3>1. UNCHANGED <<stack, lastRead>>
        BY <1>4, <2>4 DEF UnfreezeResults
      <3> QED BY <2>1, <2>2, <2>4, <3>1 DEF Serves, ServesAnswer, StaysPinned, Pinned
    <2> QED BY <2>3, <2>4
  <1>5. CASE StoreResults \/ Invalidate
    <2>1. lazy'.frozen = lazy.frozen /\ UNCHANGED <<input, stack, lastRead>>
      BY <1>0, <1>5 DEF StoreResults, Invalidate, MarkCalculated, InvalidateSilently, Lazy
    <2> QED BY <2>1 DEF Serves, ServesAnswer, StaysPinned, Pinned
  <1> QED BY <1>1, <1>2, <1>3, <1>4, <1>5

\* The steps of the promise allow what the object does where nothing is promised.
LEMMA UnpromisedServes ==
  ASSUME TypeOK, TypeOK', Unpromised, Unpromised', Next
  PROVE  Promise!Next
  <1>1. input' \in Versions /\ lastRead' \in Versions \cup {0}
    BY DEF TypeOK, Versions
  <1>2. UNCHANGED input \/ lastRead' \in {lastRead, 0}
    BY DEF Next, Step, ChangeInput, EndUpdating, EndNotifying, ReadCached, Calculate,
       Recalculate, PerformReads, PerformOk, PerformErr, Finish, Panic, FreezeResults,
       UnfreezeResults, StoreResults, Invalidate
  <1> QED BY <1>1, <1>2 DEF Promise!Next, Promise!Change, Promise!Answer

(* Whoever holds an answer that a change made stale has been told, or the    *)
(* answers are pinned: the flags, the guard and the notifications of         *)
(* LazyObject keep the promise of CachedValue.                               *)
THEOREM PromiseKept ==
  ASSUME Disciplined
  PROVE  Spec => ServesAsPromised
  <1>1. Init => Promise!Init
    <2> SUFFICES ASSUME Init PROVE Promise!Init
      OBVIOUS
    <2>1. Unpromised \in BOOLEAN
      BY DEF Unpromised
    <2> QED BY <2>1, LazyConstants DEF Init, Promise!Init, Versions
  <1>2. Inv /\ Inv' /\ [Next]_vars => [Promise!Next]_<<input, lastRead, Unpromised>>
    <2> SUFFICES ASSUME Inv, Inv', [Next]_vars
                 PROVE  Promise!Next \/ UNCHANGED <<input, lastRead, Unpromised>>
      OBVIOUS
    <2>1. CASE UNCHANGED vars
      BY <2>1 DEF vars, Unpromised, WritesWithin
    <2>2. CASE Next
      <3>0. UNCHANGED foreign /\ WritesWithin' = WritesWithin
        BY <2>2 DEF Next, WritesWithin
      <3>1. CASE WritesWithin
        <4>1. Unpromised /\ Unpromised'
          BY <3>0, <3>1 DEF Unpromised
        <4> QED BY <2>2, <4>1, UnpromisedServes DEF Inv
      <3>2. CASE ~WritesWithin
        <4>1. Serves
          BY <2>2, <3>0, <3>2, CallsServe, PerformServes, OthersServe DEF Next, Step
        <4>2. /\ (Unpromised <=> Pinned) /\ (Unpromised' <=> Pinned')
              /\ Unpromised \in BOOLEAN /\ Unpromised' \in BOOLEAN
          BY <3>0, <3>2, UnpromisedIs, UnpromisedNext DEF Unpromised
        <4>3. /\ input' \in Versions /\ input \in Versions
              /\ lastRead' \in 0..MaxInput /\ lastRead \in Versions \cup {0}
          BY DEF Inv, TypeOK, Versions
        <4>4. CASE ServesChange
          BY <4>2, <4>3, <4>4 DEF ServesChange, StaysPinned, Promise!Next, Promise!Change
        <4>5. CASE ServesAnswer
          <5>1. UNCHANGED <<input, Unpromised>>
            BY <4>2, <4>5 DEF ServesAnswer, StaysPinned
          <5>2. lastRead' = lastRead \/ Promise!Answer
            BY <4>3, <4>5, <5>1 DEF ServesAnswer, Promise!Answer
          <5> QED BY <5>1, <5>2 DEF Promise!Next
        <4>6. CASE Pins
          BY <4>2, <4>6 DEF Pins, Promise!Next, Promise!Pin
        <4>7. CASE Unpins
          BY <4>2, <4>7 DEF Unpins, Promise!Next, Promise!Unpin
        <4>8. CASE AnswersPinned
          BY <4>2, <4>3, <4>8 DEF AnswersPinned, Versions, Promise!Next, Promise!Answer
        <4> QED BY <4>1, <4>4, <4>5, <4>6, <4>7, <4>8 DEF Serves
      <3> QED BY <3>1, <3>2
    <2> QED BY <2>1, <2>2
  <1> QED BY <1>1, <1>2, InvCorrect, PTL DEF Spec, ServesAsPromised, Promise!Spec
=============================================================================
