--------------------------- MODULE BindingsProofs ---------------------------
(***************************************************************************)
(* Proofs about the two ends of the bindings, FfiContext and GoSession,    *)
(* for any threads, contexts, registrations, sessions and goroutines.      *)
(***************************************************************************)
EXTENDS FfiContext, GoSession, SequenceTheorems, NaturalsInduction, WellFoundedInduction,
        TLAPS

-----------------------------------------------------------------------------
(* THE C ABI                                                                 *)
(* The latch keeps a thread to one entry point, with at most one callback or *)
(* release above it (CallShape).  What a registration is owed is then a      *)
(* matter of the first frame of each thread and of the handle tables.        *)

Base(t) == stack[t][1]
Calling(t) == stack[t] # <<>>
Owns(t, r) == Calling(t) /\ r \in Base(t).owns
Offers(t, r) == Calling(t) /\ Base(t).op = "call" /\ r \in Base(t).offer
Kept(r) == \E c \in Contexts : r \in KeptIn(c)

Entries == {"call", "free"}
EntryFrame == {f \in Frame : f.op \in Entries}
ForeignFrame == {f \in Frame : f.op \in {"callback", "release"}}

\* What may be on top of an entry point b.
MayCall(b, g) ==
    /\ g.op = "release" => g.was = FALSE
    /\ g.op = "callback" =>
         /\ b.op = "call" /\ b.stage \in {"entered", "making"}
         /\ g.reg \in KeptIn(b.ctx) \cup b.owns

\* A stack is idle, in an entry point, or in what an entry point calls.
Idle(t) == stack[t] = <<>> /\ ~active[t]
InEntry(t) == \E b \in EntryFrame : stack[t] = <<b>> /\ ~active[t]
InForeign(t) ==
    \E b \in EntryFrame, g \in ForeignFrame : stack[t] = <<b, g>> /\ active[t] /\ MayCall(b, g)

CallShape == \A t \in Threads : Idle(t) \/ InEntry(t) \/ InForeign(t)

\* A context has one owner, and the calls on it are that owner's.
Borrowing ==
    /\ \A c \in Contexts : state[c] = "none" => owner[c] = {}
    /\ \A c \in Contexts : \A t, u \in owner[c] : t = u
    /\ \A t \in Threads : Calling(t) =>
         /\ t \in owner[Base(t).ctx]
         /\ Base(t).op = "call" => state[Base(t).ctx] # "freed"

\* What Go and the library believe of a registration.
Books ==
    /\ adopted \subseteq opened
    /\ \A r \in Registrations : r \notin opened => deletes[r] = 0
    /\ \A r \in Registrations : Owned(r) => r \in adopted
    /\ \A t \in Threads : Calling(t) /\ Base(t).op = "call" =>
         /\ Base(t).offer \subseteq opened
         /\ Base(t).stage = "entered" => Base(t).owns = {} /\ Base(t).offer \cap adopted = {}
    /\ \A t, u \in Threads, r \in Registrations : Offers(t, r) /\ Offers(u, r) => t = u

Inv == TypeOK /\ CallShape /\ Borrowing /\ Books /\ DeletedExactlyOnce

\* How an entry point moves on, and what it calls.
Moved(f, stage, owns) == [f EXCEPT !.stage = stage, !.owns = owns]
Without(f, r) == [f EXCEPT !.owns = @ \ {r}]
Freeing(c) == [op |-> "free", ctx |-> c, owns |-> KeptIn(c)]
Calls(r) == [op |-> "callback", reg |-> r]
Releases(r, was) == [op |-> "release", reg |-> r, was |-> was]

-----------------------------------------------------------------------------
(* The fields of each kind of frame, and what they become.                   *)
LEMMA EntryFields ==
  ASSUME NEW f \in EntryFrame
  PROVE  /\ f \in Frame /\ f.op \in Entries
         /\ f.ctx \in Contexts /\ f.owns \in SUBSET Registrations
         /\ f.op = "call" =>
              /\ f.offer \in SUBSET Registrations
              /\ f.stage \in {"entered", "making", "ending", "panicking"}
              /\ \A stage \in {"entered", "making", "ending", "panicking"},
                    owns \in SUBSET Registrations :
                   /\ Moved(f, stage, owns) \in EntryFrame
                   /\ Moved(f, stage, owns).op = "call"
                   /\ Moved(f, stage, owns).ctx = f.ctx
                   /\ Moved(f, stage, owns).offer = f.offer
                   /\ Moved(f, stage, owns).stage = stage
                   /\ Moved(f, stage, owns).owns = owns
         /\ \A r \in Registrations :
              /\ Without(f, r) \in EntryFrame
              /\ Without(f, r).op = f.op
              /\ Without(f, r).ctx = f.ctx
              /\ f.op = "call" => /\ Without(f, r).offer = f.offer
                                  /\ Without(f, r).stage = f.stage
              /\ Without(f, r).owns = f.owns \ {r}
  <1> USE DEF Moved, Without
  <1>1. CASE f \in [op : {"call"}, ctx : Contexts, offer : SUBSET Registrations,
                    owns : SUBSET Registrations,
                    stage : {"entered", "making", "ending", "panicking"}]
    BY <1>1 DEF Frame, EntryFrame, Entries
  <1>2. CASE f \in [op : {"free"}, ctx : Contexts, owns : SUBSET Registrations]
    BY <1>2 DEF Frame, EntryFrame, Entries
  <1> QED BY <1>1, <1>2 DEF Frame, EntryFrame, Entries

(* A call that fails keeps what it owns.                                     *)
LEMMA KeepsOwns ==
  ASSUME NEW f \in EntryFrame, f.op = "call", NEW stage \in {"ending", "panicking"}
  PROVE  [f EXCEPT !.stage = stage] = Moved(f, stage, f.owns)
  BY DEF Moved, EntryFrame, Frame, Entries

(* The frames that calls begin with, and the fields of foreign ones.         *)
LEMMA NewFrames ==
    /\ \A c \in Contexts, offer \in SUBSET Registrations :
         /\ Entered(c, offer) \in EntryFrame
         /\ Entered(c, offer).op = "call" /\ Entered(c, offer).ctx = c
         /\ Entered(c, offer).offer = offer /\ Entered(c, offer).owns = {}
         /\ Entered(c, offer).stage = "entered"
    /\ \A c \in Contexts : KeptIn(c) \in SUBSET Registrations =>
         /\ Freeing(c) \in EntryFrame
         /\ Freeing(c).op = "free" /\ Freeing(c).ctx = c /\ Freeing(c).owns = KeptIn(c)
    /\ \A r \in Registrations :
         /\ Calls(r) \in ForeignFrame /\ Calls(r).op = "callback" /\ Calls(r).reg = r
         /\ \A was \in BOOLEAN :
              /\ Releases(r, was) \in ForeignFrame
              /\ Releases(r, was).op = "release" /\ Releases(r, was).was = was
  BY DEF Entered, Freeing, Calls, Releases, EntryFrame, ForeignFrame, Entries, Frame

LEMMA ForeignFields ==
  ASSUME NEW g \in ForeignFrame
  PROVE  /\ g \in Frame /\ g.op \in {"callback", "release"} /\ g.op \notin Entries
         /\ g.op = "callback" => g.reg \in Registrations
  BY DEF ForeignFrame, Frame, Entries

-----------------------------------------------------------------------------
(* Short stacks, written out.                                                *)
LEMMA ShortStacks ==
  ASSUME NEW b, NEW g
  PROVE  /\ <<b>> # <<>> /\ Len(<<b>>) = 1 /\ <<b>>[1] = b
         /\ SubSeq(<<b>>, 1, Len(<<b>>) - 1) = <<>>
         /\ Append(<<>>, b) = <<b>>
         /\ <<b, g>> # <<>> /\ Len(<<b, g>>) = 2
         /\ <<b, g>>[1] = b /\ <<b, g>>[2] = g
         /\ SubSeq(<<b, g>>, 1, Len(<<b, g>>) - 1) = <<b>>
         /\ Append(<<b>>, g) = <<b, g>>
         /\ <<>> \o <<b, g>> = <<b, g>>
         /\ DOMAIN <<b>> = {1} /\ DOMAIN <<b, g>> = {1, 2}
  <1> DEFINE S == {b, g}
  <1>1. <<b>> \in Seq(S) /\ <<b>> # <<>> /\ Len(<<b>>) = 1 /\ <<b>>[1] = b
    OBVIOUS
  <1>2. <<b, g>> \in Seq(S) /\ <<b, g>> # <<>> /\ Len(<<b, g>>) = 2
    OBVIOUS
  <1>3. <<b, g>>[1] = b /\ <<b, g>>[2] = g
    OBVIOUS
  <1>4. DOMAIN <<b>> = {1} /\ DOMAIN <<b, g>> = {1, 2}
    OBVIOUS
  <1>5. Append(<<>>, b) = <<b>>
    OBVIOUS
  <1>6. Append(<<b>>, g) = <<b, g>>
    <2> DEFINE a == Append(<<b>>, g)
    <2>1. /\ a \in Seq(S) /\ Len(a) = 2
          /\ a[1] = b /\ a[2] = g
      BY <1>1, AppendProperties
    <2> HIDE DEF a
    <2>2. a = <<b, g>>
      BY <1>2, <1>3, <2>1, SeqEqual
    <2> QED BY <2>2 DEF a
  <1>7. <<>> \o <<b, g>> = <<b, g>>
    OBVIOUS
  <1>8. SubSeq(<<b>>, 1, Len(<<b>>) - 1) = <<>>
    OBVIOUS
  <1>9. SubSeq(<<b, g>>, 1, Len(<<b, g>>) - 1) = <<b>>
    <2> DEFINE p == <<b, g>>
               front == SubSeq(p, 1, Len(p) - 1)
    <2>1. /\ front \in Seq(S) /\ Len(front) = 1
          /\ \A i \in 1..1 : front[i] = p[i]
      <3>1. Len(p) = 2 /\ p \in Seq(S) /\ p[1] \in S
        BY <1>1, <1>2, <1>3
      <3> HIDE DEF p
      <3>2. \A i \in 1..1 : p[i] \in S
        BY <3>1
      <3>3. /\ SubSeq(p, 1, 1) \in Seq(S)
            /\ Len(SubSeq(p, 1, 1)) = (IF 1 <= 1 THEN 1 - 1 + 1 ELSE 0)
            /\ \A i \in 1..(1 - 1 + 1) : SubSeq(p, 1, 1)[i] = p[1 + i - 1]
        BY <3>2, SubSeqProperties
      <3> QED BY <3>1, <3>3
    <2>2. 1 \in 1..1 /\ p[1] = b
      BY <1>3
    <2> HIDE DEF front, p
    <2>3. ASSUME NEW i \in 1..Len(front) PROVE front[i] = <<b>>[i]
      <3>1. Len(front) = 1 /\ front[1] = b
        BY <2>1, <2>2
      <3>2. i = 1
        BY <3>1
      <3> QED BY <1>1, <3>1, <3>2
    <2>4. front = <<b>>
      BY <1>1, <2>1, <2>2, <2>3, SeqEqual
    <2> QED BY <2>4 DEF front, p
  <1> QED BY <1>1, <1>2, <1>3, <1>4, <1>5, <1>6, <1>7, <1>8, <1>9

-----------------------------------------------------------------------------
(* Where a thread is, from its latch and the frame on top.                   *)
LEMMA Shape ==
  ASSUME CallShape, NEW t \in Threads
  PROVE  /\ Calling(t) => Base(t) \in EntryFrame
         /\ ForeignRuns(t) /\ ~active[t] => stack[t] = <<>>
         /\ stack[t] = <<>> => ~active[t]
         /\ TopIs(t, {"call"}) \/ TopIs(t, {"free"}) =>
              /\ Calling(t) /\ ~active[t]
              /\ stack[t] = <<Base(t)>> /\ Top(t) = Base(t) /\ Below(t) = <<>>
         /\ TopIs(t, {"callback"}) \/ TopIs(t, {"release"}) =>
              /\ Calling(t)
              /\ Below(t) = <<Base(t)>>
              /\ Top(t).op = "release" => Top(t).was = FALSE
  <1>1. CASE Idle(t)
    BY <1>1 DEF Idle, Calling, TopIs
  <1>2. CASE InEntry(t)
    <2>1. PICK b \in EntryFrame : stack[t] = <<b>> /\ ~active[t]
      BY <1>2 DEF InEntry
    <2>2. /\ Base(t) = b /\ Top(t) = b /\ Below(t) = <<>> /\ stack[t] # <<>>
          /\ b.op \in Entries
      BY <2>1, ShortStacks, EntryFields DEF Base, Top, Below
    <2> QED BY <2>1, <2>2 DEF Calling, ForeignRuns, TopIs, Entries
  <1>3. CASE InForeign(t)
    <2>1. PICK b \in EntryFrame, g \in ForeignFrame :
            stack[t] = <<b, g>> /\ active[t] /\ (g.op = "release" => g.was = FALSE)
      BY <1>3 DEF InForeign, MayCall
    <2>2. g \in Frame /\ b \in Frame /\ g.op \notin Entries
      BY EntryFields, ForeignFields
    <2>3. SubSeq(<<b, g>>, 1, Len(<<b, g>>) - 1) = <<b>>
      BY <2>2, ShortStacks
    <2>5. Len(<<b, g>>) = 2 /\ <<b, g>>[1] = b /\ <<b, g>>[2] = g /\ <<b, g>> # <<>>
      OBVIOUS
    <2>4. Base(t) = b /\ Top(t) = g /\ Below(t) = <<b>> /\ stack[t] # <<>>
      BY <2>1, <2>3, <2>5 DEF Base, Top, Below
    <2> QED BY <2>1, <2>2, <2>4 DEF Calling, TopIs, Entries
  <1> QED BY <1>1, <1>2, <1>3 DEF CallShape

(* Every frame of a stack is the entry point at its base, or foreign.        *)
LEMMA FramesOf ==
  ASSUME CallShape, NEW t \in Threads, NEW i \in DOMAIN stack[t]
  PROVE  /\ Calling(t) /\ Base(t) \in EntryFrame /\ 1 \in DOMAIN stack[t]
         /\ stack[t][1] = Base(t)
         /\ i = 1 \/ stack[t][i] \in ForeignFrame
         /\ stack[t][i].op = "callback" =>
              /\ Base(t).op = "call" /\ Base(t).stage \in {"entered", "making"}
              /\ stack[t][i].reg \in KeptIn(Base(t).ctx) \cup Base(t).owns
  <1>1. CASE Idle(t)
    BY <1>1 DEF Idle
  <1>2. CASE InEntry(t)
    <2>1. PICK b \in EntryFrame : stack[t] = <<b>> /\ ~active[t]
      BY <1>2 DEF InEntry
    <2>2. /\ Base(t) = b /\ stack[t] # <<>> /\ DOMAIN stack[t] = {1}
          /\ b.op \in Entries
      BY <2>1, ShortStacks, EntryFields DEF Base
    <2> QED BY <2>1, <2>2 DEF Calling, Base, Entries
  <1>3. CASE InForeign(t)
    <2>1. PICK b \in EntryFrame, g \in ForeignFrame :
            /\ stack[t] = <<b, g>>
            /\ g.op = "callback" =>
                 /\ b.op = "call" /\ b.stage \in {"entered", "making"}
                 /\ g.reg \in KeptIn(b.ctx) \cup b.owns
      BY <1>3 DEF InForeign, MayCall
    <2>2. g \in Frame /\ b \in Frame /\ b.op \in Entries
      BY EntryFields, ForeignFields
    <2>3. /\ Base(t) = b /\ stack[t] # <<>> /\ DOMAIN stack[t] = {1, 2}
          /\ stack[t][2] = g
      BY <2>1, <2>2, ShortStacks DEF Base
    <2> QED BY <2>1, <2>2, <2>3 DEF Calling, Base, Entries
  <1> QED BY <1>1, <1>2, <1>3 DEF CallShape

(* Who owns a registration, and who offers it, in terms of entry points.     *)
LEMMA OwnersOf ==
  ASSUME CallShape, NEW t \in Threads, NEW r
  PROVE  /\ (\E i \in DOMAIN stack[t] : r \in OwnedBy(stack[t][i])) <=> Owns(t, r)
         /\ (\E i \in DOMAIN stack[t] : stack[t][i].op = "call" /\ r \in stack[t][i].offer)
              <=> Offers(t, r)
  <1>1. CASE stack[t] = <<>>
    BY <1>1 DEF Owns, Offers, Calling
  <1>2. CASE stack[t] # <<>>
    <2>1. PICK i \in DOMAIN stack[t] : TRUE
      BY <1>2, ShortStacks, EntryFields, ForeignFields DEF CallShape, Idle, InEntry, InForeign
    <2>2. 1 \in DOMAIN stack[t] /\ Base(t) \in EntryFrame /\ stack[t][1] = Base(t)
      BY FramesOf
    <2>3. \A j \in DOMAIN stack[t] : j = 1 \/ stack[t][j] \in ForeignFrame
      BY FramesOf
    <2>4. /\ OwnedBy(Base(t)) = Base(t).owns
          /\ \A g \in ForeignFrame : OwnedBy(g) = {} /\ g.op # "call"
      BY <2>2, EntryFields, ForeignFields DEF OwnedBy, Entries
    <2> QED BY <1>2, <2>2, <2>3, <2>4 DEF Owns, Offers, Calling
  <1> QED BY <1>1, <1>2

SeenFromEntries ==
    \A r \in Registrations :
        /\ Owned(r) <=> Kept(r) \/ \E t \in Threads : Owns(t, r)
        /\ OnOffer(r) <=> r \notin adopted /\ \E t \in Threads : Offers(t, r)

LEMMA Views == CallShape => SeenFromEntries
  BY OwnersOf DEF Owned, OnOffer, Kept, SeenFromEntries

LEMMA ViewsNext == CallShape' => SeenFromEntries'
  BY Views, PTL

(* The other owners of what the entry point on top drops.                    *)
LEMMA Elsewhere ==
  ASSUME CallShape, NEW t \in Threads, Dropping(t), NEW r \in Registrations
  PROVE  OwnedElsewhere(t, r) <=> Kept(r) \/ \E u \in Threads \ {t} : Owns(u, r)
  <1>1. stack[t] = <<Base(t)>> /\ Base(t) \in EntryFrame
    BY Shape DEF Dropping, AtStage, TopIs
  <1>2. Len(stack[t]) = 1 /\ DOMAIN stack[t] = {1}
    BY <1>1, ShortStacks
  <1> QED BY <1>2, OwnersOf DEF OwnedElsewhere, Kept

-----------------------------------------------------------------------------
\* What a step does to the stack of its thread, and to its latch.
OnCall(t) == stack[t] = <<Base(t)>> /\ Base(t) \in EntryFrame /\ ~active[t]
StackBecomes(t, s) == stack' = [stack EXCEPT ![t] = s]

Begins(t, f) ==
    /\ stack[t] = <<>> /\ f \in EntryFrame
    /\ StackBecomes(t, <<f>>) /\ active' = active
Moves(t, f) ==
    /\ OnCall(t) /\ f \in EntryFrame
    /\ StackBecomes(t, <<f>>) /\ active' = active
CallsOut(t, f, g) ==
    /\ OnCall(t) /\ f \in EntryFrame /\ g \in ForeignFrame
    /\ StackBecomes(t, <<f, g>>) /\ active' = [active EXCEPT ![t] = TRUE]
Resumes(t) ==
    /\ Calling(t) /\ Base(t) \in EntryFrame
    /\ StackBecomes(t, <<Base(t)>>) /\ active' = [active EXCEPT ![t] = FALSE]
Ends(t) ==
    /\ OnCall(t) /\ StackBecomes(t, <<>>) /\ active' = active

\* The entry point that runs on top of t.
Running(t, stages) == OnCall(t) /\ Base(t).op = "call" /\ Base(t).stage \in stages

(* An entry point on top is the one at the base.                             *)
LEMMA OnTop ==
  ASSUME CallShape, NEW t \in Threads
  PROVE  /\ TopIs(t, {"call"}) \/ TopIs(t, {"free"}) =>
              /\ OnCall(t) /\ Top(t) = Base(t)
              /\ \A f : Becomes(t, f) => StackBecomes(t, <<f>>)
              /\ \A g : Push(t, g) => StackBecomes(t, <<Base(t), g>>)
              /\ \A f, g : stack' = [stack EXCEPT ![t] = Below(t) \o <<f, g>>]
                             => StackBecomes(t, <<f, g>>)
              /\ Pop(t) => StackBecomes(t, <<>>)
         /\ \A stages : AtStage(t, stages) => Running(t, stages) /\ TopIs(t, {"call"})
         /\ TopIs(t, {"callback"}) \/ TopIs(t, {"release"}) =>
              /\ Calling(t) /\ Base(t) \in EntryFrame
              /\ Pop(t) => StackBecomes(t, <<Base(t)>>)
              /\ TopIs(t, {"release"}) => Top(t).was = FALSE
         /\ ForeignRuns(t) /\ ~active[t] =>
              /\ stack[t] = <<>>
              /\ \A f : Push(t, f) => StackBecomes(t, <<f>>)
  <1>1. ASSUME TopIs(t, {"call"}) \/ TopIs(t, {"free"})
        PROVE  /\ OnCall(t) /\ Top(t) = Base(t)
               /\ \A f : Becomes(t, f) => StackBecomes(t, <<f>>)
               /\ \A g : Push(t, g) => StackBecomes(t, <<Base(t), g>>)
               /\ \A f, g : stack' = [stack EXCEPT ![t] = Below(t) \o <<f, g>>]
                              => StackBecomes(t, <<f, g>>)
               /\ Pop(t) => StackBecomes(t, <<>>)
    <2>1. /\ Calling(t) /\ ~active[t] /\ Base(t) \in EntryFrame
          /\ stack[t] = <<Base(t)>> /\ Top(t) = Base(t) /\ Below(t) = <<>>
      BY <1>1, Shape
    <2>2. \A f : Append(Below(t), f) = <<f>>
      BY <2>1, ShortStacks
    <2>3. \A g : Append(stack[t], g) = <<Base(t), g>>
      <3>1. \A b, g : Append(<<b>>, g) = <<b, g>>
        BY ShortStacks
      <3> QED BY <2>1, <3>1
    <2>4. \A f, g : Below(t) \o <<f, g>> = <<f, g>>
      BY <2>1, ShortStacks
    <2> QED BY <2>1, <2>2, <2>3, <2>4 DEF OnCall, Becomes, Push, Pop, StackBecomes
  <1>2. ASSUME NEW stages, AtStage(t, stages)
        PROVE  Running(t, stages) /\ TopIs(t, {"call"})
    BY <1>1, <1>2 DEF AtStage, Running, TopIs
  <1>3. ASSUME TopIs(t, {"callback"}) \/ TopIs(t, {"release"})
        PROVE  /\ Calling(t) /\ Base(t) \in EntryFrame
               /\ Pop(t) => StackBecomes(t, <<Base(t)>>)
               /\ TopIs(t, {"release"}) => Top(t).was = FALSE
    BY <1>3, Shape DEF Pop, StackBecomes, TopIs
  <1>4. ASSUME ForeignRuns(t), ~active[t]
        PROVE  /\ stack[t] = <<>>
               /\ \A f : Push(t, f) => StackBecomes(t, <<f>>)
    BY <1>4, Shape, ShortStacks DEF Push, StackBecomes
  <1> QED BY <1>1, <1>2, <1>3, <1>4

\* What a registration is kept by, and by which other calls.
OtherOwns(t, r) == \E u \in Threads \ {t} : Owns(u, r)
OtherOffers(t, r) == \E u \in Threads \ {t} : Offers(u, r)

(* What contexts keep are registrations.                                     *)
LEMMA KeptTypes ==
  ASSUME TypeOK
  PROVE  /\ \A c \in Contexts : \A o \in objects[c] : o \in Object /\ o.keeps \in SUBSET Registrations
         /\ \A c \in Contexts : KeptIn(c) \in SUBSET Registrations
  BY DEF TypeOK, KeptIn, Object

(* What each kind of step does to the calls.                                 *)
LEMMA Effects ==
  ASSUME TypeOK, CallShape, NEW t \in Threads
  PROVE  /\ \A c \in Contexts : Enter(t, c) =>
              \E offer \in SUBSET Registrations :
                 /\ offer \cap opened = {} /\ opened' = opened \cup offer
                 /\ Begins(t, Entered(c, offer))
                 /\ t \in owner[c] /\ state[c] = "live"
         /\ \A c \in Contexts : ContextFree(t, c) => Begins(t, Freeing(c))
         /\ Adopt(t) => /\ Running(t, {"entered"})
                        /\ Moves(t, Moved(Base(t), "making", Base(t).offer))
                        /\ adopted' = adopted \cup Base(t).offer
         /\ Derive(t) => /\ Running(t, {"entered"})
                         /\ \E owns \in SUBSET KeptIn(Base(t).ctx) :
                              Moves(t, Moved(Base(t), "making", owns))
         /\ Insert(t) =>
              /\ Running(t, {"making"})
              /\ Moves(t, Moved(Base(t), "ending", {}))
              /\ objects' = [objects EXCEPT ![Base(t).ctx] =
                               @ \cup {[id |-> nextHandle, keeps |-> Base(t).owns]}]
         /\ Fail(t) => Running(t, {"making"}) /\ Moves(t, Moved(Base(t), "ending", Base(t).owns))
         /\ HandleRelease(t) =>
              /\ Running(t, {"entered"})
              /\ \E o \in objects[Base(t).ctx] :
                    /\ objects' = [objects EXCEPT ![Base(t).ctx] = @ \ {o}]
                    /\ Moves(t, Moved(Base(t), "ending", o.keeps))
         /\ Panic(t) => /\ Running(t, {"entered", "making"})
                        /\ Moves(t, Moved(Base(t), "panicking", Base(t).owns))
  <1>1. ASSUME NEW c \in Contexts, Enter(t, c)
        PROVE  \E offer \in SUBSET Registrations :
                 /\ offer \cap opened = {} /\ opened' = opened \cup offer
                 /\ Begins(t, Entered(c, offer))
                 /\ t \in owner[c] /\ state[c] = "live"
    <2>1. PICK offer \in {{}} \cup {{r} : r \in Registrations \ opened} :
            Push(t, Entered(c, offer)) /\ opened' = opened \cup offer
      BY <1>1 DEF Enter
    <2>2. offer \in SUBSET Registrations /\ offer \cap opened = {}
      BY <2>1
    <2>3. Begins(t, Entered(c, offer))
      BY <1>1, <2>1, <2>2, OnTop, NewFrames DEF Enter, MayEnter, Begins
    <2> QED BY <1>1, <2>1, <2>2, <2>3 DEF Enter, MayEnter
  <1>2. ASSUME NEW c \in Contexts, ContextFree(t, c) PROVE Begins(t, Freeing(c))
    BY <1>2, OnTop, NewFrames, KeptTypes DEF ContextFree, Begins, Freeing
  <1>3. ASSUME Adopt(t)
        PROVE  /\ Running(t, {"entered"})
               /\ Moves(t, Moved(Base(t), "making", Base(t).offer))
               /\ adopted' = adopted \cup Base(t).offer
    <2>1. Running(t, {"entered"}) /\ Top(t) = Base(t) /\ TopIs(t, {"call"})
      BY <1>3, OnTop DEF Adopt
    <2>2. Becomes(t, Moved(Base(t), "making", Base(t).offer))
      BY <1>3, <2>1 DEF Adopt, Moved
    <2> QED BY <1>3, <2>1, <2>2, OnTop, EntryFields DEF Adopt, Moves, Running, OnCall
  <1>4. ASSUME Derive(t)
        PROVE  /\ Running(t, {"entered"})
               /\ \E owns \in SUBSET KeptIn(Base(t).ctx) :
                     Moves(t, Moved(Base(t), "making", owns))
    <2>1. Running(t, {"entered"}) /\ Top(t) = Base(t) /\ TopIs(t, {"call"})
      BY <1>4, OnTop DEF Derive
    <2>2. PICK from \in SUBSET objects[Base(t).ctx] :
            Becomes(t, Moved(Base(t), "making", UNION {o.keeps : o \in from}))
      BY <1>4, <2>1 DEF Derive, Moved
    <2>3. UNION {o.keeps : o \in from} \in SUBSET KeptIn(Base(t).ctx)
      BY DEF KeptIn
    <2>4. UNION {o.keeps : o \in from} \in SUBSET Registrations
      BY <2>1, <2>3, KeptTypes, EntryFields DEF Running, OnCall
    <2>5. Moves(t, Moved(Base(t), "making", UNION {o.keeps : o \in from}))
      BY <1>4, <2>1, <2>2, <2>4, OnTop, EntryFields DEF Derive, Moves, Running, OnCall
    <2> QED BY <2>1, <2>3, <2>5
  <1>5. ASSUME Insert(t)
        PROVE  /\ Running(t, {"making"})
               /\ Moves(t, Moved(Base(t), "ending", {}))
               /\ objects' = [objects EXCEPT ![Base(t).ctx] =
                                @ \cup {[id |-> nextHandle, keeps |-> Base(t).owns]}]
    <2>1. Running(t, {"making"}) /\ Top(t) = Base(t) /\ TopIs(t, {"call"})
      BY <1>5, OnTop DEF Insert
    <2>2. Becomes(t, Moved(Base(t), "ending", {}))
      BY <1>5, <2>1 DEF Insert, Moved
    <2> QED BY <1>5, <2>1, <2>2, OnTop, EntryFields DEF Insert, Moves, Running, OnCall
  <1>6. ASSUME Fail(t)
        PROVE  Running(t, {"making"}) /\ Moves(t, Moved(Base(t), "ending", Base(t).owns))
    <2>1. Running(t, {"making"}) /\ Top(t) = Base(t) /\ TopIs(t, {"call"})
      BY <1>6, OnTop DEF Fail
    <2>2. [Base(t) EXCEPT !.stage = "ending"] = Moved(Base(t), "ending", Base(t).owns)
      BY <2>1, KeepsOwns DEF Running, OnCall
    <2>3. Becomes(t, Moved(Base(t), "ending", Base(t).owns))
      BY <1>6, <2>1, <2>2 DEF Fail
    <2> QED BY <1>6, <2>1, <2>3, OnTop, EntryFields DEF Fail, Moves, Running, OnCall
  <1>7. ASSUME HandleRelease(t)
        PROVE  /\ Running(t, {"entered"})
               /\ \E o \in objects[Base(t).ctx] :
                     /\ objects' = [objects EXCEPT ![Base(t).ctx] = @ \ {o}]
                     /\ Moves(t, Moved(Base(t), "ending", o.keeps))
    <2>1. Running(t, {"entered"}) /\ Top(t) = Base(t) /\ TopIs(t, {"call"})
      BY <1>7, OnTop DEF HandleRelease
    <2>2. PICK o \in objects[Base(t).ctx] :
            /\ objects' = [objects EXCEPT ![Base(t).ctx] = @ \ {o}]
            /\ Becomes(t, Moved(Base(t), "ending", o.keeps))
      BY <1>7, <2>1 DEF HandleRelease, Moved
    <2>3. o.keeps \in SUBSET Registrations
      BY <2>1, <2>2, KeptTypes, EntryFields DEF Running, OnCall
    <2>4. Moves(t, Moved(Base(t), "ending", o.keeps))
      BY <1>7, <2>1, <2>2, <2>3, OnTop, EntryFields DEF HandleRelease, Moves, Running, OnCall
    <2> QED BY <2>1, <2>2, <2>4
  <1>8. ASSUME Panic(t)
        PROVE  /\ Running(t, {"entered", "making"})
               /\ Moves(t, Moved(Base(t), "panicking", Base(t).owns))
    <2>1. Running(t, {"entered", "making"}) /\ Top(t) = Base(t) /\ TopIs(t, {"call"})
      BY <1>8, OnTop DEF Panic
    <2>2. [Base(t) EXCEPT !.stage = "panicking"] = Moved(Base(t), "panicking", Base(t).owns)
      BY <2>1, KeepsOwns DEF Running, OnCall
    <2>3. Becomes(t, Moved(Base(t), "panicking", Base(t).owns))
      BY <1>8, <2>1, <2>2 DEF Panic
    <2> QED BY <1>8, <2>1, <2>3, OnTop, EntryFields DEF Panic, Moves, Running, OnCall
  <1> QED BY <1>1, <1>2, <1>3, <1>4, <1>5, <1>6, <1>7, <1>8

\* The entry point on top of t returns.
Leaves(t) ==
    /\ Running(t, {"entered", "ending", "panicking"}) /\ Ends(t)
    /\ Base(t).owns = {}
    /\ state' = IF Base(t).stage = "panicking"
                THEN [state EXCEPT ![Base(t).ctx] = "poisoned"] ELSE state
    /\ deletes' = [r \in Registrations |->
                     IF r \in Base(t).offer \ adopted THEN deletes[r] + 1 ELSE deletes[r]]

(* The same, of the steps that leave an entry point or the code it calls.    *)
LEMMA MoreEffects ==
  ASSUME TypeOK, CallShape, NEW t \in Threads
  PROVE  /\ Leave(t) => Leaves(t)
         /\ ContextGone(t) => Ends(t) /\ Base(t).op = "free" /\ Base(t).owns = {}
         /\ Dropping(t) => OnCall(t) /\ ~Running(t, {"entered", "making"})
         /\ DropShared(t) =>
              \E r \in Base(t).owns : OwnedElsewhere(t, r) /\ Moves(t, Without(Base(t), r))
         /\ DropLast(t) =>
              \E r \in Base(t).owns :
                /\ ~OwnedElsewhere(t, r)
                /\ CallsOut(t, Without(Base(t), r), Releases(r, FALSE))
                /\ deletes' = [deletes EXCEPT ![r] = @ + 1]
         /\ Callback(t) =>
              /\ Running(t, {"entered", "making"})
              /\ \E r \in KeptIn(Base(t).ctx) \cup Base(t).owns :
                    r \in Registrations /\ CallsOut(t, Base(t), Calls(r))
         /\ ReleaseReturns(t) \/ CallbackReturns(t) => Resumes(t)
  <1>1. ASSUME Leave(t)
        PROVE  Leaves(t)
    <2>1. /\ Running(t, {"entered", "ending", "panicking"}) /\ Top(t) = Base(t)
          /\ TopIs(t, {"call"})
      BY <1>1, OnTop DEF Leave
    <2> QED BY <1>1, <2>1, OnTop DEF Leave, Leaves, Ends, Running
  <1>2. ASSUME ContextGone(t) PROVE Ends(t) /\ Base(t).op = "free" /\ Base(t).owns = {}
    BY <1>2, OnTop DEF ContextGone, Ends, TopIs
  <1>3. ASSUME Dropping(t)
        PROVE  /\ OnCall(t) /\ ~Running(t, {"entered", "making"}) /\ Top(t) = Base(t)
               /\ TopIs(t, {"call"}) \/ TopIs(t, {"free"})
    BY <1>3, OnTop DEF Dropping, AtStage, TopIs, Running
  <1>4. ASSUME DropShared(t)
        PROVE  \E r \in Base(t).owns : OwnedElsewhere(t, r) /\ Moves(t, Without(Base(t), r))
    <2>1. PICK r \in Base(t).owns :
            OwnedElsewhere(t, r) /\ Becomes(t, Without(Base(t), r))
      BY <1>3, <1>4 DEF DropShared, Without
    <2>2. Without(Base(t), r) \in EntryFrame
      BY <1>3, <1>4, <2>1, EntryFields DEF DropShared, OnCall
    <2> QED BY <1>3, <1>4, <2>1, <2>2, OnTop DEF DropShared, Moves
  <1>5. ASSUME DropLast(t)
        PROVE  \E r \in Base(t).owns :
                /\ ~OwnedElsewhere(t, r)
                /\ CallsOut(t, Without(Base(t), r), Releases(r, FALSE))
                /\ deletes' = [deletes EXCEPT ![r] = @ + 1]
    <2>0. active[t] = FALSE /\ OnCall(t) /\ Top(t) = Base(t)
      <3>1. active[t] \in BOOLEAN
        BY DEF TypeOK
      <3> QED BY <1>3, <1>5, <3>1 DEF OnCall, DropLast
    <2>1. PICK r \in Base(t).owns :
            /\ ~OwnedElsewhere(t, r)
            /\ stack' = [stack EXCEPT ![t] =
                           Below(t) \o <<Without(Base(t), r), Releases(r, FALSE)>>]
            /\ deletes' = [deletes EXCEPT ![r] = @ + 1]
      BY <1>5, <2>0 DEF DropLast, Without, Releases
    <2>2. Without(Base(t), r) \in EntryFrame /\ Releases(r, FALSE) \in ForeignFrame
      BY <2>0, <2>1, EntryFields, NewFrames DEF OnCall
    <2>3. StackBecomes(t, <<Without(Base(t), r), Releases(r, FALSE)>>)
      BY <1>3, <1>5, <2>1, OnTop DEF DropLast
    <2> QED BY <1>5, <2>0, <2>1, <2>2, <2>3 DEF DropLast, CallsOut
  <1>6. ASSUME Callback(t)
        PROVE  /\ Running(t, {"entered", "making"})
               /\ \E r \in KeptIn(Base(t).ctx) \cup Base(t).owns :
                     r \in Registrations /\ CallsOut(t, Base(t), Calls(r))
    <2>1. Running(t, {"entered", "making"}) /\ Top(t) = Base(t) /\ TopIs(t, {"call"})
      BY <1>6, OnTop DEF Callback
    <2>2. PICK r \in KeptIn(Base(t).ctx) \cup Base(t).owns : Push(t, Calls(r))
      BY <1>6, <2>1 DEF Callback, Calls
    <2>3. r \in Registrations
      BY <2>1, <2>2, KeptTypes, EntryFields DEF Running, OnCall
    <2>4. StackBecomes(t, <<Base(t), Calls(r)>>)
      BY <2>1, <2>2, OnTop
    <2> QED BY <1>6, <2>1, <2>2, <2>3, <2>4, NewFrames DEF Callback, CallsOut, Running, OnCall
  <1>7. ASSUME ReleaseReturns(t) \/ CallbackReturns(t) PROVE Resumes(t)
    BY <1>7, OnTop DEF ReleaseReturns, CallbackReturns, Resumes
  <1> QED BY <1>1, <1>2, <1>3, <1>4, <1>5, <1>6, <1>7, Zenon

-----------------------------------------------------------------------------
\* The entry points after a step of t, which leaves t in f or idle.
After(t, f) ==
    \A u \in Threads :
        /\ u = t => Calling(u)' /\ Base(u)' = f
        /\ u # t => (Calling(u)' <=> Calling(u)) /\ Base(u)' = Base(u)
AfterEnd(t) ==
    \A u \in Threads :
        /\ u = t => ~Calling(u)'
        /\ u # t => (Calling(u)' <=> Calling(u)) /\ Base(u)' = Base(u)

(* The stacks and latches a step leaves are well formed.                     *)
LEMMA StackTypes ==
  ASSUME TypeOK, NEW t \in Threads
  PROVE  /\ \A f : Begins(t, f) \/ Moves(t, f) => After(t, f)
         /\ \A f, g : CallsOut(t, f, g) => After(t, f)
         /\ Resumes(t) => After(t, Base(t))
         /\ Ends(t) => AfterEnd(t)
         /\ Ends(t) \/ Resumes(t) \/ (\E f : Begins(t, f) \/ Moves(t, f))
              \/ (\E f, g : CallsOut(t, f, g)) =>
              stack' \in [Threads -> Seq(Frame)] /\ active' \in [Threads -> BOOLEAN]
  <1>1. ASSUME NEW s, StackBecomes(t, s)
        PROVE  /\ stack'[t] = s
               /\ \A u \in Threads \ {t} : stack'[u] = stack[u]
               /\ s \in Seq(Frame) => stack' \in [Threads -> Seq(Frame)]
    BY <1>1 DEF StackBecomes, TypeOK
  <1>2. ASSUME NEW f, StackBecomes(t, <<f>>) PROVE After(t, f)
    <2>1. stack'[t] # <<>> /\ stack'[t][1] = f
      BY <1>1, <1>2
    <2>2. \A u \in Threads \ {t} : stack'[u] = stack[u]
      BY <1>1, <1>2
    <2> QED BY <2>1, <2>2 DEF After, Calling, Base
  <1>3. ASSUME NEW f, NEW g, StackBecomes(t, <<f, g>>) PROVE After(t, f)
    <2>1. stack'[t] # <<>> /\ stack'[t][1] = f
      BY <1>1, <1>3
    <2>2. \A u \in Threads \ {t} : stack'[u] = stack[u]
      BY <1>1, <1>3
    <2> QED BY <2>1, <2>2 DEF After, Calling, Base
  <1>4. StackBecomes(t, <<>>) => AfterEnd(t)
    BY <1>1 DEF AfterEnd, Calling, Base
  <1>5. /\ \A f \in EntryFrame : <<f>> \in Seq(Frame)
        /\ \A f \in EntryFrame, g \in ForeignFrame : <<f, g>> \in Seq(Frame)
    BY EntryFields, ForeignFields
  <1>6. <<>> \in Seq(Frame)
    BY EmptySeq
  <1>7. active \in [Threads -> BOOLEAN] /\ [active EXCEPT ![t] = TRUE] \in [Threads -> BOOLEAN]
        /\ [active EXCEPT ![t] = FALSE] \in [Threads -> BOOLEAN]
    BY DEF TypeOK
  <1>8. ASSUME Ends(t) \/ Resumes(t) \/ (\E f : Begins(t, f) \/ Moves(t, f))
                 \/ (\E f, g : CallsOut(t, f, g))
        PROVE  stack' \in [Threads -> Seq(Frame)] /\ active' \in [Threads -> BOOLEAN]
    <2>1. PICK s \in Seq(Frame) : StackBecomes(t, s)
      BY <1>5, <1>6, <1>8, ForeignFields DEF Ends, Resumes, Begins, Moves, CallsOut
    <2>2. active' \in [Threads -> BOOLEAN]
      BY <1>7, <1>8 DEF Ends, Resumes, Begins, Moves, CallsOut
    <2> QED BY <1>1, <2>1, <2>2
  <1> QED BY <1>2, <1>3, <1>4, <1>8 DEF Ends, Resumes, Begins, Moves, CallsOut

(* A step of t keeps the shape of every stack, if no registration that       *)
(* another thread's callback runs on is taken from its context.              *)
LEMMA ShapeStep ==
  ASSUME TypeOK, CallShape, NEW t \in Threads,
         \/ Ends(t) \/ Resumes(t) \/ \E f : Begins(t, f) \/ Moves(t, f)
         \/ \E f, g : CallsOut(t, f, g) /\ MayCall(f, g)',
         \A u \in Threads \ {t}, c \in Contexts :
           Calling(u) /\ Base(u).ctx = c => KeptIn(c) \subseteq KeptIn(c)'
  PROVE  CallShape'
  <1>1. ASSUME NEW s, StackBecomes(t, s)
        PROVE  stack'[t] = s /\ \A u \in Threads \ {t} : stack'[u] = stack[u]
    BY <1>1 DEF StackBecomes, TypeOK
  <1>2. PICK s : StackBecomes(t, s)
    BY DEF Ends, Resumes, Begins, Moves, CallsOut
  <1>3. ASSUME NEW u \in Threads \ {t} PROVE Idle(u)' \/ InEntry(u)' \/ InForeign(u)'
    <2>1. stack'[u] = stack[u] /\ active'[u] = active[u]
      BY <1>1, <1>2 DEF Ends, Resumes, Begins, Moves, CallsOut, TypeOK
    <2>2. CASE Idle(u) \/ InEntry(u)
      BY <2>1, <2>2 DEF Idle, InEntry
    <2>3. CASE InForeign(u)
      <3>1. PICK b \in EntryFrame, g \in ForeignFrame :
              stack[u] = <<b, g>> /\ active[u] /\ MayCall(b, g)
        BY <2>3 DEF InForeign
      <3>2. Calling(u) /\ Base(u) = b
        BY <3>1, ShortStacks DEF Calling, Base
      <3>3. KeptIn(b.ctx) \subseteq KeptIn(b.ctx)'
        BY <3>2, EntryFields
      <3>4. MayCall(b, g)'
        BY <3>1, <3>3 DEF MayCall
      <3> QED BY <2>1, <3>1, <3>4 DEF InForeign
    <2> QED BY <2>2, <2>3 DEF CallShape
  <1>4. Idle(t)' \/ InEntry(t)' \/ InForeign(t)'
    <2>1. CASE Ends(t)
      BY <1>1, <2>1 DEF Ends, OnCall, Idle
    <2>2. CASE Resumes(t)
      <3>1. stack'[t] = <<Base(t)>> /\ ~active'[t] /\ Base(t) \in EntryFrame
        BY <1>1, <2>2 DEF Resumes, TypeOK
      <3> QED BY <3>1 DEF InEntry
    <2>3. ASSUME NEW f, Begins(t, f) \/ Moves(t, f) PROVE InEntry(t)'
      <3>1. stack'[t] = <<f>> /\ f \in EntryFrame
        BY <1>1, <2>3 DEF Begins, Moves
      <3>2. ~active'[t]
        BY <2>3, Shape DEF Begins, Moves, OnCall
      <3> QED BY <3>1, <3>2 DEF InEntry
    <2>4. ASSUME NEW f, NEW g, CallsOut(t, f, g), MayCall(f, g)' PROVE InForeign(t)'
      <3>1. /\ stack'[t] = <<f, g>> /\ active'[t]
            /\ f \in EntryFrame /\ g \in ForeignFrame
        BY <1>1, <2>4 DEF CallsOut, TypeOK
      <3> QED BY <2>4, <3>1 DEF InForeign
    <2> QED BY <2>1, <2>2, <2>3, <2>4
  <1> QED BY <1>3, <1>4 DEF CallShape

(* Every step of the code inside an entry point is of one of these kinds.    *)
LEMMA InsideKinds ==
  ASSUME TypeOK, CallShape, NEW t \in Threads, Inside(t)
  PROVE  \/ Ends(t) \/ Resumes(t) \/ \E f : Begins(t, f) \/ Moves(t, f)
         \/ \E f, g : CallsOut(t, f, g)
  <1>1. CASE Adopt(t) \/ Derive(t) \/ Insert(t) \/ Fail(t) \/ HandleRelease(t) \/ Panic(t)
    <2>1. \E f : Moves(t, f)
      BY <1>1, Effects
    <2> QED BY <2>1
  <1>2. CASE Leave(t) \/ ContextGone(t)
    BY <1>2, MoreEffects DEF Leaves
  <1>3. CASE DropShared(t)
    BY <1>3, MoreEffects
  <1>4. CASE DropLast(t) \/ Callback(t)
    BY <1>4, MoreEffects
  <1>5. CASE ReleaseReturns(t) \/ CallbackReturns(t)
    BY <1>5, MoreEffects
  <1> QED BY <1>1, <1>2, <1>3, <1>4, <1>5 DEF Inside

(* Every step keeps every variable in its type.                              *)
LEMMA TypeStep == TypeOK /\ CallShape /\ [Next]_vars => TypeOK'
  <1> SUFFICES ASSUME TypeOK, CallShape, [Next]_vars PROVE TypeOK'
    OBVIOUS
  <1>1. CASE UNCHANGED vars
    BY <1>1 DEF vars, TypeOK
  <1>2. ASSUME NEW t \in Threads, Inside(t) PROVE TypeOK'
    <2>1. stack' \in [Threads -> Seq(Frame)] /\ active' \in [Threads -> BOOLEAN]
      BY <1>2, InsideKinds, StackTypes
    <2>2. CASE Insert(t)
      <3>1. Running(t, {"making"})
            /\ objects' = [objects EXCEPT ![Base(t).ctx] =
                             @ \cup {[id |-> nextHandle, keeps |-> Base(t).owns]}]
        BY <2>2, Effects
      <3>2. Base(t).owns \in SUBSET Registrations /\ Base(t).ctx \in Contexts
        BY <3>1, EntryFields DEF Running, OnCall
      <3>3. nextHandle \in Nat /\ nextHandle + 1 \in 1..LastHandle /\ nextHandle \in 1..LastHandle
        BY <2>2, FfiConstants DEF Insert, TypeOK
      <3>4. [id |-> nextHandle, keeps |-> Base(t).owns] \in Object
        BY <3>2, <3>3 DEF Object
      <3>5. objects' \in [Contexts -> SUBSET Object]
        BY <3>1, <3>2, <3>4 DEF TypeOK
      <3> QED BY <2>1, <2>2, <3>3, <3>5 DEF Insert, TypeOK
    <2>3. CASE HandleRelease(t)
      <3>1. objects' \in [Contexts -> SUBSET Object]
        BY <2>3, Effects DEF TypeOK
      <3> QED BY <2>1, <2>3, <3>1 DEF HandleRelease, TypeOK
    <2>4. CASE Adopt(t)
      <3>1. Base(t).offer \in SUBSET Registrations /\ adopted' = adopted \cup Base(t).offer
        BY <2>4, Effects, EntryFields DEF Running, OnCall
      <3> QED BY <2>1, <2>4, <3>1 DEF Adopt, tables, TypeOK
    <2>5. CASE Leave(t)
      <3>1. Leaves(t) /\ Base(t).ctx \in Contexts
        BY <2>5, MoreEffects, EntryFields DEF Leaves, Running, OnCall
      <3>2. state' \in [Contexts -> {"none", "live", "poisoned", "freed"}]
        BY <3>1 DEF Leaves, TypeOK
      <3>3. deletes' \in [Registrations -> Nat]
        BY <3>1 DEF Leaves, TypeOK
      <3> QED BY <2>1, <2>5, <3>2, <3>3 DEF Leave, TypeOK
    <2>6. CASE DropLast(t)
      <3>1. PICK r \in Base(t).owns :
              OnCall(t) /\ deletes' = [deletes EXCEPT ![r] = @ + 1]
        BY <2>6, MoreEffects DEF CallsOut
      <3>2. r \in Registrations
        BY <3>1, EntryFields DEF OnCall
      <3>3. deletes' \in [Registrations -> Nat]
        BY <3>1, <3>2 DEF TypeOK
      <3> QED BY <2>1, <2>6, <3>3 DEF DropLast, tables, TypeOK
    <2>7. CASE \/ Derive(t) \/ Fail(t) \/ Panic(t) \/ ContextGone(t) \/ DropShared(t)
               \/ ReleaseReturns(t) \/ Callback(t) \/ CallbackReturns(t)
      <3>1. UNCHANGED <<tables, opened, adopted, deletes>>
        BY <2>7 DEF Derive, Fail, Panic, ContextGone, DropShared, ReleaseReturns, Callback,
                    CallbackReturns
      <3> QED BY <2>1, <3>1 DEF tables, TypeOK
    <2> QED BY <1>2, <2>2, <2>3, <2>4, <2>5, <2>6, <2>7 DEF Inside
  <1>3. ASSUME NEW t \in Threads, NEW c \in Contexts, ContextNew(t, c) PROVE TypeOK'
    BY <1>3 DEF ContextNew, TypeOK
  <1>4. ASSUME NEW t \in Threads, NEW c \in Contexts, Enter(t, c) PROVE TypeOK'
    <2>1. stack' \in [Threads -> Seq(Frame)] /\ active' \in [Threads -> BOOLEAN]
      BY <1>4, Effects, StackTypes
    <2>2. opened' \subseteq Registrations
      BY <1>4, Effects DEF TypeOK
    <2> QED BY <1>4, <2>1, <2>2 DEF Enter, tables, TypeOK
  <1>5. ASSUME NEW t \in Threads, NEW c \in Contexts, ContextFree(t, c) PROVE TypeOK'
    <2>1. stack' \in [Threads -> Seq(Frame)] /\ active' \in [Threads -> BOOLEAN]
      BY <1>5, Effects, StackTypes
    <2>2. objects' \in [Contexts -> SUBSET Object]
      BY <1>5 DEF ContextFree, TypeOK
    <2> QED BY <1>5, <2>1, <2>2 DEF ContextFree, TypeOK
  <1>6. ASSUME NEW t \in Threads, NEW c \in Contexts, NEW r \in Registrations,
               OfferRefused(t, c, r)
        PROVE  TypeOK'
    BY <1>6 DEF OfferRefused, tables, TypeOK
  <1> QED BY <1>1, <1>2, <1>3, <1>4, <1>5, <1>6 DEF Next

-----------------------------------------------------------------------------
\* t is still in the call it was in, now in f.
Continues(t, f) ==
    /\ Calling(t) /\ f \in EntryFrame /\ After(t, f)
    /\ f.ctx = Base(t).ctx /\ f.op = Base(t).op
    /\ f.op = "call" => f.offer = Base(t).offer

(* Whatever a call does, it stays the call it is until it ends.              *)
LEMMA StaysTheCall ==
  ASSUME TypeOK, CallShape, NEW t \in Threads, Inside(t)
  PROVE  Ends(t) \/ \E f : Continues(t, f)
  <1>1. ASSUME NEW stage \in {"making", "ending", "panicking"},
               NEW owns \in SUBSET Registrations,
               Moves(t, Moved(Base(t), stage, owns)), Base(t).op = "call"
        PROVE  Continues(t, Moved(Base(t), stage, owns))
    <2>1. After(t, Moved(Base(t), stage, owns)) /\ OnCall(t)
      BY <1>1, StackTypes DEF Moves
    <2>2. /\ Moved(Base(t), stage, owns) \in EntryFrame
          /\ Moved(Base(t), stage, owns).op = "call"
          /\ Moved(Base(t), stage, owns).ctx = Base(t).ctx
          /\ Moved(Base(t), stage, owns).offer = Base(t).offer
      BY <1>1, <2>1, EntryFields DEF OnCall
    <2>3. Calling(t)
      BY <2>1, ShortStacks DEF OnCall, Calling
    <2> QED BY <1>1, <2>1, <2>2, <2>3 DEF Continues
  <1>2. OnCall(t) => Base(t).owns \in SUBSET Registrations /\ Base(t).ctx \in Contexts
    BY EntryFields DEF OnCall
  <1>3. CASE Adopt(t)
    <2>1. Base(t).offer \in SUBSET Registrations
      BY <1>3, Effects, EntryFields DEF Running, OnCall
    <2> QED BY <1>1, <1>3, <2>1, Effects DEF Running
  <1>4. CASE Derive(t)
    <2>1. Running(t, {"entered"}) /\ KeptIn(Base(t).ctx) \in SUBSET Registrations
      BY <1>2, <1>4, Effects, KeptTypes DEF Running
    <2>2. PICK owns \in SUBSET KeptIn(Base(t).ctx) : Moves(t, Moved(Base(t), "making", owns))
      BY <1>4, Effects
    <2>3. owns \in SUBSET Registrations
      BY <2>1
    <2> QED BY <1>1, <2>1, <2>2, <2>3 DEF Running
  <1>5. CASE Insert(t) \/ Fail(t) \/ Panic(t)
    <2>1. CASE Insert(t)
      <3>1. {} \in SUBSET Registrations
        OBVIOUS
      <3> QED BY <1>1, <2>1, <3>1, Effects DEF Running
    <2>2. CASE Fail(t)
      BY <1>1, <1>2, <2>2, Effects DEF Running
    <2>3. CASE Panic(t)
      BY <1>1, <1>2, <2>3, Effects DEF Running
    <2> QED BY <1>5, <2>1, <2>2, <2>3
  <1>6. CASE HandleRelease(t)
    <2>1. Running(t, {"entered"})
      BY <1>6, Effects
    <2>2. PICK o \in objects[Base(t).ctx] : Moves(t, Moved(Base(t), "ending", o.keeps))
      BY <1>6, Effects
    <2>3. o.keeps \in SUBSET Registrations
      BY <1>2, <2>1, <2>2, KeptTypes DEF Running
    <2> QED BY <1>1, <2>1, <2>2, <2>3 DEF Running
  <1>7. ASSUME NEW r \in Base(t).owns, NEW f, f = Without(Base(t), r), OnCall(t),
               Moves(t, f) \/ \E g : CallsOut(t, f, g)
        PROVE  Continues(t, f)
    <2>1. After(t, f)
      BY <1>7, StackTypes
    <2>2. r \in Registrations
      BY <1>2, <1>7
    <2> QED BY <1>7, <2>1, <2>2, EntryFields, ShortStacks DEF Continues, OnCall, Calling
  <1>8. CASE DropShared(t) \/ DropLast(t)
    <2>1. PICK r \in Base(t).owns :
            \/ Moves(t, Without(Base(t), r))
            \/ \E g : CallsOut(t, Without(Base(t), r), g)
      BY <1>8, MoreEffects
    <2>2. OnCall(t)
      BY <2>1 DEF Moves, CallsOut
    <2>3. Continues(t, Without(Base(t), r))
      BY <1>7, <2>1, <2>2
    <2> QED BY <2>3
  <1>9. CASE Callback(t)
    <2>1. PICK g : CallsOut(t, Base(t), g)
      BY <1>9, MoreEffects
    <2>2. After(t, Base(t))
      BY <2>1, StackTypes
    <2>3. Calling(t)
      BY <2>1, ShortStacks DEF CallsOut, OnCall, Calling
    <2>4. Continues(t, Base(t))
      BY <2>1, <2>2, <2>3 DEF CallsOut, Continues
    <2> QED BY <2>4
  <1>10. CASE ReleaseReturns(t) \/ CallbackReturns(t)
    <2>1. Resumes(t)
      BY <1>10, MoreEffects
    <2>2. After(t, Base(t))
      BY <2>1, StackTypes
    <2> QED BY <2>1, <2>2 DEF Resumes, Continues
  <1>11. CASE Leave(t) \/ ContextGone(t)
    BY <1>11, MoreEffects DEF Leaves
  <1> QED BY <1>3, <1>4, <1>5, <1>6, <1>8, <1>9, <1>10, <1>11, Zenon DEF Inside

(* No step gives a context away that is in use, or takes one over.           *)
LEMMA BorrowStep == TypeOK /\ CallShape /\ Borrowing /\ [Next]_vars => Borrowing'
  <1> SUFFICES ASSUME TypeOK, CallShape, Borrowing, [Next]_vars PROVE Borrowing'
    OBVIOUS
  <1>1. CASE UNCHANGED vars
    BY <1>1 DEF vars, Borrowing, Calling, Base
  <1>2. ASSUME NEW t \in Threads, Inside(t) PROVE Borrowing'
    <2>0. owner' = owner
      BY <1>2 DEF Inside, tables, Adopt, Derive, Insert, Fail, HandleRelease, Panic, Leave,
                  ContextGone, DropShared, DropLast, ReleaseReturns, Callback, CallbackReturns
    <2>1. \/ state' = state
          \/ Ends(t) /\ Base(t).ctx \in Contexts /\ state' = [state EXCEPT ![Base(t).ctx] = "poisoned"]
      <3>1. CASE Leave(t)
        BY <3>1, MoreEffects, EntryFields DEF Leaves, Ends, OnCall
      <3>2. CASE ~Leave(t)
        BY <1>2, <3>2 DEF Inside, tables, Adopt, Derive, Insert, Fail, HandleRelease, Panic,
                  ContextGone, DropShared, DropLast, ReleaseReturns, Callback, CallbackReturns
      <3> QED BY <3>1, <3>2
    <2>2. \A c \in Contexts :
            /\ state'[c] = "none" => state[c] = "none"
            /\ state'[c] = "freed" => state[c] = "freed"
      BY <2>1 DEF TypeOK
    <2>3. ASSUME NEW u \in Threads, Calling(u)'
          PROVE  /\ Calling(u) /\ Base(u)'.ctx = Base(u).ctx /\ Base(u)'.op = Base(u).op
                 /\ Base(u).ctx \in Contexts
      <3>1. Calling(u) /\ Base(u)'.ctx = Base(u).ctx /\ Base(u)'.op = Base(u).op
        <4>1. CASE Ends(t)
          BY <2>3, <4>1, StackTypes DEF AfterEnd
        <4>2. ASSUME NEW f, Continues(t, f)
              PROVE  Calling(u) /\ Base(u)'.ctx = Base(u).ctx /\ Base(u)'.op = Base(u).op
          BY <2>3, <4>2 DEF Continues, After
        <4> QED BY <1>2, <4>1, <4>2, StaysTheCall
      <3> QED BY <3>1, Shape, EntryFields
    <2>4. \A u \in Threads : Calling(u)' =>
            /\ u \in owner'[Base(u)'.ctx]
            /\ Base(u)'.op = "call" => state'[Base(u)'.ctx] # "freed"
      BY <2>0, <2>2, <2>3 DEF Borrowing
    <2>5. /\ \A c \in Contexts : state'[c] = "none" => owner'[c] = {}
          /\ \A c \in Contexts : \A u, v \in owner'[c] : u = v
      <3>1. \A c \in Contexts : state[c] = "none" => owner[c] = {}
        BY DEF Borrowing
      <3>2. \A c \in Contexts : \A u, v \in owner[c] : u = v
        BY DEF Borrowing
      <3>3. \A c \in Contexts : state'[c] = "none" => owner'[c] = {}
        <4> TAKE c \in Contexts
        <4> QED BY <2>0, <2>2, <3>1
      <3>4. \A c \in Contexts : \A u, v \in owner'[c] : u = v
        BY <2>0, <3>2
      <3> QED BY <3>3, <3>4
    <2> QED BY <2>4, <2>5 DEF Borrowing
  <1>3. ASSUME NEW t \in Threads, NEW c \in Contexts, ContextNew(t, c) PROVE Borrowing'
    <2>1. /\ state' = [state EXCEPT ![c] = "live"] /\ owner' = [owner EXCEPT ![c] = {t}]
          /\ stack' = stack /\ state[c] = "none" /\ owner[c] = {}
      BY <1>3 DEF ContextNew, Borrowing
    <2>2. ASSUME NEW u \in Threads, Calling(u)
          PROVE  Base(u).ctx # c /\ Base(u).ctx \in Contexts
      <3>1. Base(u) \in EntryFrame
        BY <2>2, Shape
      <3>2. Base(u).ctx \in Contexts /\ u \in owner[Base(u).ctx]
        BY <2>2, <3>1, EntryFields DEF Borrowing
      <3> QED BY <2>1, <3>2
    <2> QED BY <2>1, <2>2 DEF Borrowing, TypeOK, Calling, Base
  <1>4. ASSUME NEW t \in Threads, NEW c \in Contexts, Enter(t, c) PROVE Borrowing'
    <2>1. PICK f : /\ Begins(t, f) /\ f.ctx = c /\ t \in owner[c] /\ state[c] = "live"
      BY <1>4, Effects, NewFrames
    <2>2. After(t, f) /\ owner' = owner /\ state' = state
      BY <1>4, <2>1, StackTypes DEF Enter, tables
    <2> QED BY <2>1, <2>2 DEF Borrowing, After
  <1>5. ASSUME NEW t \in Threads, NEW c \in Contexts, ContextFree(t, c) PROVE Borrowing'
    <2>1. /\ Begins(t, Freeing(c)) /\ After(t, Freeing(c))
          /\ owner' = owner /\ state' = [state EXCEPT ![c] = "freed"]
          /\ t \in owner[c] /\ state[c] # "none"
      BY <1>5, Effects, StackTypes DEF ContextFree
    <2>2. Freeing(c).op = "free" /\ Freeing(c).ctx = c
      BY DEF Freeing
    <2>3. ASSUME NEW u \in Threads \ {t}, Calling(u)
          PROVE  Base(u).ctx # c /\ Base(u).ctx \in Contexts
      <3>1. Base(u) \in EntryFrame
        BY <2>3, Shape
      <3>2. Base(u).ctx \in Contexts /\ u \in owner[Base(u).ctx]
        BY <2>3, <3>1, EntryFields DEF Borrowing
      <3> QED BY <2>1, <3>2 DEF Borrowing
    <2>4. /\ \A d \in Contexts : state'[d] = "none" => owner'[d] = {}
          /\ \A d \in Contexts : \A u, v \in owner'[d] : u = v
      BY <2>1 DEF Borrowing, TypeOK
    <2>5. ASSUME NEW u \in Threads, Calling(u)'
          PROVE  /\ u \in owner'[Base(u)'.ctx]
                 /\ Base(u)'.op = "call" => state'[Base(u)'.ctx] # "freed"
      BY <2>1, <2>2, <2>3, <2>5 DEF Borrowing, TypeOK, After
    <2> QED BY <2>4, <2>5 DEF Borrowing
  <1>6. ASSUME NEW t \in Threads, NEW c \in Contexts, NEW r \in Registrations,
               OfferRefused(t, c, r)
        PROVE  Borrowing'
    BY <1>6 DEF OfferRefused, tables, Borrowing, Calling, Base
  <1> QED BY <1>1, <1>2, <1>3, <1>4, <1>5, <1>6 DEF Next

-----------------------------------------------------------------------------
(* What a context keeps after its handle table has changed.                  *)
LEMMA KeptAfter ==
  ASSUME TypeOK, NEW ctx \in Contexts
  PROVE  /\ objects' = objects => \A c \in Contexts : KeptIn(c)' = KeptIn(c)
         /\ \A o : objects' = [objects EXCEPT ![ctx] = @ \cup {o}] =>
              \A c \in Contexts :
                KeptIn(c)' = IF c = ctx THEN KeptIn(c) \cup o.keeps ELSE KeptIn(c)
         /\ \A o \in objects[ctx] : objects' = [objects EXCEPT ![ctx] = @ \ {o}] =>
              /\ \A c \in Contexts : c # ctx => KeptIn(c)' = KeptIn(c)
              /\ KeptIn(ctx)' \cup o.keeps = KeptIn(ctx)
         /\ objects' = [objects EXCEPT ![ctx] = {}] =>
              \A c \in Contexts : KeptIn(c)' = IF c = ctx THEN {} ELSE KeptIn(c)
  <1>1. ASSUME objects' = objects, NEW c \in Contexts PROVE KeptIn(c)' = KeptIn(c)
    BY <1>1 DEF KeptIn
  <1>2. ASSUME NEW o, objects' = [objects EXCEPT ![ctx] = @ \cup {o}], NEW c \in Contexts
        PROVE  KeptIn(c)' = IF c = ctx THEN KeptIn(c) \cup o.keeps ELSE KeptIn(c)
    <2>1. objects'[c] = IF c = ctx THEN objects[c] \cup {o} ELSE objects[c]
      BY <1>2 DEF TypeOK
    <2> QED BY <2>1 DEF KeptIn
  <1>3. ASSUME NEW o \in objects[ctx], objects' = [objects EXCEPT ![ctx] = @ \ {o}]
        PROVE  /\ \A c \in Contexts : c # ctx => KeptIn(c)' = KeptIn(c)
               /\ KeptIn(ctx)' \cup o.keeps = KeptIn(ctx)
    <2>1. /\ \A c \in Contexts : c # ctx => objects'[c] = objects[c]
          /\ objects'[ctx] = objects[ctx] \ {o}
      BY <1>3 DEF TypeOK
    <2>2. \A c \in Contexts : c # ctx => KeptIn(c)' = KeptIn(c)
      BY <2>1 DEF KeptIn
    <2>3. KeptIn(ctx)' \cup o.keeps = KeptIn(ctx)
      BY <2>1 DEF KeptIn
    <2> QED BY <2>2, <2>3
  <1>4. ASSUME objects' = [objects EXCEPT ![ctx] = {}], NEW c \in Contexts
        PROVE  KeptIn(c)' = IF c = ctx THEN {} ELSE KeptIn(c)
    <2>1. objects'[c] = IF c = ctx THEN {} ELSE objects[c]
      BY <1>4 DEF TypeOK
    <2> QED BY <2>1 DEF KeptIn
  <1> QED BY <1>1, <1>2, <1>3, <1>4

(* The latch keeps every thread to one entry point and what that calls.      *)
LEMMA LatchStep == TypeOK /\ CallShape /\ Borrowing /\ [Next]_vars => CallShape'
  <1> SUFFICES ASSUME TypeOK, CallShape, Borrowing, [Next]_vars PROVE CallShape'
    OBVIOUS
  <1>1. ASSUME stack' = stack, active' = active, objects' = objects PROVE CallShape'
    BY <1>1 DEF CallShape, Idle, InEntry, InForeign, MayCall, KeptIn
  <1>2. ASSUME NEW t \in Threads, NEW u \in Threads \ {t}, Calling(t), Calling(u)
        PROVE  Base(u).ctx # Base(t).ctx
    <2>1. Base(t).ctx \in Contexts
      BY <1>2, Shape, EntryFields
    <2>2. t \in owner[Base(t).ctx] /\ u \in owner[Base(u).ctx]
      BY <1>2 DEF Borrowing
    <2> QED BY <2>1, <2>2 DEF Borrowing
  <1>3. ASSUME NEW t \in Threads, Inside(t) PROVE CallShape'
    <2>1. ASSUME NEW u \in Threads \ {t}, NEW c \in Contexts, Calling(u), Base(u).ctx = c
          PROVE  KeptIn(c) \subseteq KeptIn(c)'
      <3>1. CASE Insert(t)
        <4>1. Base(t).ctx \in Contexts
          BY <3>1, Effects, EntryFields DEF Running, OnCall
        <4>2. PICK o : objects' = [objects EXCEPT ![Base(t).ctx] = @ \cup {o}]
          BY <3>1, Effects
        <4>3. KeptIn(c)' = IF c = Base(t).ctx THEN KeptIn(c) \cup o.keeps ELSE KeptIn(c)
          BY <4>1, <4>2, KeptAfter
        <4> QED BY <4>3
      <3>2. CASE HandleRelease(t)
        <4>1. OnCall(t) /\ Base(t).ctx \in Contexts /\ Calling(t)
          BY <3>2, Effects, EntryFields, ShortStacks DEF Running, OnCall, Calling
        <4>2. c # Base(t).ctx
          BY <1>2, <2>1, <4>1
        <4>3. KeptIn(c)' = KeptIn(c)
          BY <3>2, <4>1, <4>2, Effects, KeptAfter
        <4> QED BY <4>3
      <3>3. CASE ~Insert(t) /\ ~HandleRelease(t)
        <4>1. objects' = objects
          BY <1>3, <3>3 DEF Inside, tables, Adopt, Derive, Fail, Panic, Leave,
                  ContextGone, DropShared, DropLast, ReleaseReturns, Callback, CallbackReturns
        <4> QED BY <4>1 DEF KeptIn
      <3> QED BY <3>1, <3>2, <3>3
    <2>2. ASSUME DropLast(t) \/ Callback(t)
          PROVE  \E f, g : CallsOut(t, f, g) /\ MayCall(f, g)'
      <3>1. CASE DropLast(t)
        <4>1. PICK f, g : CallsOut(t, f, g) /\ g.op = "release" /\ g.was = FALSE
          <5>1. PICK r \in Base(t).owns : CallsOut(t, Without(Base(t), r), Releases(r, FALSE))
            BY <3>1, MoreEffects
          <5> QED BY <5>1 DEF Releases
        <4>2. MayCall(f, g)'
          BY <4>1 DEF MayCall
        <4> QED BY <4>1, <4>2
      <3>2. CASE Callback(t)
        <4>1. PICK f, g :
                /\ CallsOut(t, f, g) /\ g.op = "callback" /\ f.op = "call"
                /\ f.stage \in {"entered", "making"}
                /\ f.ctx \in Contexts /\ g.reg \in KeptIn(f.ctx) \cup f.owns
          <5>1. Running(t, {"entered", "making"}) /\ Base(t).ctx \in Contexts
            BY <3>2, MoreEffects, EntryFields DEF Running, OnCall
          <5>2. PICK r \in KeptIn(Base(t).ctx) \cup Base(t).owns : CallsOut(t, Base(t), Calls(r))
            BY <3>2, MoreEffects
          <5>3. Calls(r).op = "callback" /\ Calls(r).reg = r
            BY DEF Calls
          <5> QED BY <5>1, <5>2, <5>3 DEF Running
        <4>2. KeptIn(f.ctx)' = KeptIn(f.ctx)
          BY <3>2 DEF Callback, tables, KeptIn
        <4>3. MayCall(f, g)'
          BY <4>1, <4>2 DEF MayCall
        <4> QED BY <4>1, <4>3
      <3> QED BY <2>2, <3>1, <3>2
    <2>3. CASE Adopt(t) \/ Derive(t) \/ Insert(t) \/ Fail(t) \/ HandleRelease(t) \/ Panic(t)
      <3>1. \E f : Moves(t, f)
        BY <2>3, Effects
      <3> QED BY <2>1, <3>1, ShapeStep
    <2>4. CASE DropShared(t)
      <3>1. \E f : Moves(t, f)
        BY <2>4, MoreEffects
      <3> QED BY <2>1, <3>1, ShapeStep
    <2>5. CASE DropLast(t) \/ Callback(t)
      BY <2>1, <2>2, <2>5, ShapeStep
    <2>6. CASE Leave(t) \/ ContextGone(t) \/ ReleaseReturns(t) \/ CallbackReturns(t)
      <3>1. Ends(t) \/ Resumes(t)
        BY <2>6, MoreEffects DEF Leaves
      <3> QED BY <2>1, <3>1, ShapeStep
    <2> QED BY <1>3, <2>3, <2>4, <2>5, <2>6 DEF Inside
  <1>4. ASSUME NEW t \in Threads, NEW c \in Contexts, Enter(t, c) PROVE CallShape'
    <2>1. (\E f : Begins(t, f)) /\ objects' = objects
      BY <1>4, Effects DEF Enter, tables
    <2>2. \A d \in Contexts : KeptIn(d) \subseteq KeptIn(d)'
      BY <2>1 DEF KeptIn
    <2> QED BY <2>1, <2>2, ShapeStep
  <1>5. ASSUME NEW t \in Threads, NEW c \in Contexts, ContextFree(t, c) PROVE CallShape'
    <2>1. Begins(t, Freeing(c)) /\ t \in owner[c] /\ objects' = [objects EXCEPT ![c] = {}]
      BY <1>5, Effects DEF ContextFree
    <2>2. ASSUME NEW u \in Threads \ {t}, NEW d \in Contexts, Calling(u), Base(u).ctx = d
          PROVE  KeptIn(d) \subseteq KeptIn(d)'
      <3>1. u \in owner[d]
        BY <2>2 DEF Borrowing
      <3>2. d # c
        BY <2>1, <3>1 DEF Borrowing
      <3> QED BY <2>1, <3>2, KeptAfter
    <2> QED BY <2>1, <2>2, ShapeStep
  <1>6. ASSUME NEW t \in Threads, NEW c \in Contexts,
               ContextNew(t, c) \/ \E r \in Registrations : OfferRefused(t, c, r)
        PROVE  CallShape'
    BY <1>1, <1>6 DEF ContextNew, OfferRefused, tables
  <1>7. CASE UNCHANGED vars
    BY <1>1, <1>7 DEF vars
  <1> QED BY <1>3, <1>4, <1>5, <1>6, <1>7 DEF Next

-----------------------------------------------------------------------------
(* Who owns r and who offers it, t apart.                                    *)
LEMMA Apart ==
  ASSUME CallShape, NEW t \in Threads, NEW r \in Registrations
  PROVE  /\ Owned(r) <=> Kept(r) \/ Owns(t, r) \/ OtherOwns(t, r)
         /\ OnOffer(r) <=> r \notin adopted /\ (Offers(t, r) \/ OtherOffers(t, r))
  BY Views DEF SeenFromEntries, OtherOwns, OtherOffers

(* The same after a step of t.                                               *)
LEMMA ApartAfter ==
  ASSUME CallShape', NEW t \in Threads, NEW f, After(t, f), NEW r \in Registrations
  PROVE  /\ Owned(r)' <=> Kept(r)' \/ r \in f.owns \/ OtherOwns(t, r)
         /\ OnOffer(r)' <=> /\ r \notin adopted'
                            /\ (f.op = "call" /\ r \in f.offer) \/ OtherOffers(t, r)
  <1>1. ASSUME NEW u \in Threads
        PROVE  /\ Owns(u, r)' <=> IF u = t THEN r \in f.owns ELSE Owns(u, r)
               /\ Offers(u, r)' <=> IF u = t THEN f.op = "call" /\ r \in f.offer ELSE Offers(u, r)
    BY DEF After, Owns, Offers
  <1> QED BY <1>1, ViewsNext DEF SeenFromEntries, OtherOwns, OtherOffers

LEMMA ApartAfterEnd ==
  ASSUME CallShape', NEW t \in Threads, AfterEnd(t), NEW r \in Registrations
  PROVE  /\ Owned(r)' <=> Kept(r)' \/ OtherOwns(t, r)
         /\ OnOffer(r)' <=> r \notin adopted' /\ OtherOffers(t, r)
  <1>1. ASSUME NEW u \in Threads
        PROVE  /\ Owns(u, r)' <=> u # t /\ Owns(u, r)
               /\ Offers(u, r)' <=> u # t /\ Offers(u, r)
    BY DEF AfterEnd, Owns, Offers
  <1> QED BY <1>1, ViewsNext DEF SeenFromEntries, OtherOwns, OtherOffers

(* A call moves on: the books stay right if the step deletes what it was the *)
(* last to own, and nothing else.                                            *)
LEMMA BooksMove ==
  ASSUME TypeOK, CallShape, Books, DeletedExactlyOnce, CallShape',
         NEW t \in Threads, NEW f, Continues(t, f),
         opened' = opened, adopted' = adopted,
         f.op = "call" /\ f.stage = "entered" => Base(t).stage = "entered" /\ f.owns = Base(t).owns,
         \A r \in Registrations : Owned(r)' => Owned(r),
         \A r \in Registrations :
           deletes'[r] = IF Owned(r) /\ ~Owned(r)' THEN deletes[r] + 1 ELSE deletes[r]
  PROVE  Books' /\ DeletedExactlyOnce'
  <1>1. After(t, f) /\ Calling(t) /\ f.op = Base(t).op /\ (f.op = "call" => f.offer = Base(t).offer)
    BY DEF Continues
  <1>2. \A u \in Threads, r \in Registrations : Offers(u, r)' <=> Offers(u, r)
    BY <1>1 DEF After, Offers
  <1>3. \A r \in Registrations : Owned(r) => r \in adopted /\ r \in opened
    BY DEF Books
  <1>4. ASSUME NEW r \in Registrations PROVE OnOffer(r)' <=> OnOffer(r)
    BY <1>2, Views, ViewsNext DEF SeenFromEntries
  <1>5. DeletedExactlyOnce'
    <2>1. ASSUME NEW r \in opened
          PROVE  deletes'[r] = IF Owned(r)' \/ OnOffer(r)' THEN 0 ELSE 1
      <3>1. r \in Registrations /\ deletes[r] = IF Owned(r) \/ OnOffer(r) THEN 0 ELSE 1
        BY DEF DeletedExactlyOnce, TypeOK
      <3>2. OnOffer(r) => r \notin adopted
        BY DEF OnOffer
      <3>3. CASE Owned(r) /\ ~Owned(r)'
        <4>1. deletes'[r] = deletes[r] + 1 /\ deletes[r] = 0 /\ ~OnOffer(r)
          BY <1>3, <3>1, <3>2, <3>3
        <4> QED BY <1>4, <3>1, <3>3, <4>1
      <3>4. CASE Owned(r) <=> Owned(r)'
        <4>1. deletes'[r] = deletes[r]
          BY <3>1, <3>4
        <4> QED BY <1>4, <3>1, <3>4, <4>1
      <3> QED BY <3>1, <3>3, <3>4
    <2> QED BY <2>1 DEF DeletedExactlyOnce
  <1>6. \A r \in Registrations : r \notin opened => deletes'[r] = 0
    BY <1>3 DEF Books
  <1>7. ASSUME NEW u \in Threads, Calling(u)', Base(u)'.op = "call"
        PROVE  /\ Base(u)'.offer \subseteq opened
               /\ Base(u)'.stage = "entered" =>
                    Base(u)'.owns = {} /\ Base(u)'.offer \cap adopted = {}
    <2>1. CASE u = t
      BY <1>1, <1>7, <2>1 DEF After, Books
    <2>2. CASE u # t
      BY <1>1, <1>7, <2>2 DEF After, Books
    <2> QED BY <2>1, <2>2
  <1>8. Books'
    <2>1. adopted' \subseteq opened'
      BY DEF Books
    <2>2. \A r \in Registrations : Owned(r)' => r \in adopted'
      BY <1>3
    <2>3. \A u, v \in Threads, r \in Registrations : Offers(u, r)' /\ Offers(v, r)' => u = v
      BY <1>2 DEF Books
    <2> QED BY <1>6, <1>7, <2>1, <2>2, <2>3 DEF Books
  <1> QED BY <1>5, <1>8

(* The kinds of step that only pass on what a call owns, or drop one of      *)
(* several owners.                                                           *)
LEMMA BooksPassOn ==
  ASSUME TypeOK, CallShape, Books, DeletedExactlyOnce, CallShape', NEW t \in Threads,
         \/ Derive(t) \/ Insert(t) \/ Fail(t) \/ HandleRelease(t) \/ Panic(t) \/ DropShared(t)
         \/ ReleaseReturns(t) \/ Callback(t) \/ CallbackReturns(t)
  PROVE  Books' /\ DeletedExactlyOnce'
  <1>0. opened' = opened /\ adopted' = adopted /\ deletes' = deletes
    BY DEF Derive, Insert, Fail, HandleRelease, Panic, DropShared, ReleaseReturns, Callback,
           CallbackReturns
  <1>1. ASSUME NEW f, Continues(t, f),
               f.op = "call" /\ f.stage = "entered" =>
                 Base(t).stage = "entered" /\ f.owns = Base(t).owns,
               \A r \in Registrations :
                 Kept(r)' \/ r \in f.owns \/ OtherOwns(t, r)
                   <=> Kept(r) \/ Owns(t, r) \/ OtherOwns(t, r)
        PROVE  Books' /\ DeletedExactlyOnce'
    <2>1. After(t, f)
      BY <1>1 DEF Continues
    <2>2. \A r \in Registrations : Owned(r)' <=> Owned(r)
      BY <1>1, <2>1, Apart, ApartAfter
    <2> QED BY <1>0, <1>1, <2>2, BooksMove
  <1>2. OnCall(t) => /\ Calling(t) /\ Base(t).ctx \in Contexts
                     /\ Base(t).owns \in SUBSET Registrations
                     /\ \A r : Owns(t, r) <=> r \in Base(t).owns
    BY ShortStacks, EntryFields DEF OnCall, Calling, Owns
  <1>3. ASSUME NEW stage \in {"making", "ending", "panicking"}, NEW owns \in SUBSET Registrations,
               Moves(t, Moved(Base(t), stage, owns)), Base(t).op = "call",
               \A r \in Registrations :
                 Kept(r)' \/ r \in owns \/ OtherOwns(t, r)
                   <=> Kept(r) \/ r \in Base(t).owns \/ OtherOwns(t, r)
        PROVE  Books' /\ DeletedExactlyOnce'
    <2>1. /\ OnCall(t) /\ After(t, Moved(Base(t), stage, owns))
      BY <1>3, StackTypes DEF Moves
    <2>2. /\ Continues(t, Moved(Base(t), stage, owns))
          /\ Moved(Base(t), stage, owns).stage = stage
          /\ Moved(Base(t), stage, owns).owns = owns
      <3>1. /\ Moved(Base(t), stage, owns) \in EntryFrame
            /\ Moved(Base(t), stage, owns).op = "call"
            /\ Moved(Base(t), stage, owns).ctx = Base(t).ctx
            /\ Moved(Base(t), stage, owns).offer = Base(t).offer
            /\ Moved(Base(t), stage, owns).stage = stage
            /\ Moved(Base(t), stage, owns).owns = owns
        BY <1>3, <2>1, EntryFields DEF OnCall
      <3> QED BY <1>2, <1>3, <2>1, <3>1 DEF Continues
    <2>3. PICK f : f = Moved(Base(t), stage, owns)
      OBVIOUS
    <2>4. Continues(t, f) /\ f.stage = stage /\ f.owns = owns
      BY <2>2, <2>3 DEF Continues, After
    <2> QED BY <1>1, <1>2, <1>3, <2>1, <2>4
  <1>4. \A r : Kept(r)' <=> \E c \in Contexts : r \in KeptIn(c)'
    BY DEF Kept
  <1>5. ASSUME objects' = objects PROVE \A r : Kept(r)' <=> Kept(r)
    BY <1>5 DEF Kept, KeptIn
  <1>6. Running(t, {"entered"}) => Base(t).owns = {}
    BY <1>2 DEF Running, Books
  <1>7. CASE Derive(t)
    <2>1. Running(t, {"entered"}) /\ KeptIn(Base(t).ctx) \in SUBSET Registrations
      BY <1>2, <1>7, Effects, KeptTypes DEF Running
    <2>2. PICK owns \in SUBSET KeptIn(Base(t).ctx) : Moves(t, Moved(Base(t), "making", owns))
      BY <1>7, Effects
    <2>3. owns \in SUBSET Registrations /\ \A r \in owns : Kept(r)
      BY <1>2, <2>1, <2>2 DEF Kept, Running
    <2>4. \A r \in Registrations : Kept(r)' <=> Kept(r)
      BY <1>5, <1>7 DEF Derive, tables
    <2> QED BY <1>3, <1>6, <2>1, <2>2, <2>3, <2>4 DEF Running
  <1>8. CASE Insert(t)
    <2>1. Running(t, {"making"}) /\ Moves(t, Moved(Base(t), "ending", {}))
      BY <1>8, Effects
    <2>2. PICK o : o.keeps = Base(t).owns /\ objects' = [objects EXCEPT ![Base(t).ctx] = @ \cup {o}]
      BY <1>8, Effects
    <2>3. \A c \in Contexts :
            KeptIn(c)' = IF c = Base(t).ctx THEN KeptIn(c) \cup o.keeps ELSE KeptIn(c)
      BY <1>2, <2>1, <2>2, KeptAfter DEF Running
    <2>4. \A r \in Registrations : Kept(r)' <=> Kept(r) \/ r \in Base(t).owns
      BY <1>2, <1>4, <2>1, <2>2, <2>3 DEF Kept, Running
    <2>5. {} \in SUBSET Registrations
      OBVIOUS
    <2> QED BY <1>3, <2>1, <2>4, <2>5 DEF Running
  <1>9. CASE Fail(t) \/ Panic(t)
    <2>1. PICK stage \in {"ending", "panicking"} :
            Base(t).op = "call" /\ OnCall(t) /\ Moves(t, Moved(Base(t), stage, Base(t).owns))
      BY <1>9, Effects DEF Running
    <2>2. \A r \in Registrations : Kept(r)' <=> Kept(r)
      BY <1>5, <1>9 DEF Fail, Panic, tables
    <2> QED BY <1>2, <1>3, <2>1, <2>2
  <1>10. CASE HandleRelease(t)
    <2>1. Running(t, {"entered"}) /\ Base(t).ctx \in Contexts
      BY <1>2, <1>10, Effects DEF Running
    <2>2. PICK o \in objects[Base(t).ctx] :
            /\ objects' = [objects EXCEPT ![Base(t).ctx] = @ \ {o}]
            /\ Moves(t, Moved(Base(t), "ending", o.keeps))
      BY <1>10, Effects
    <2>3. o.keeps \in SUBSET Registrations
      BY <2>1, <2>2, KeptTypes
    <2>4. PICK d \in Contexts : d = Base(t).ctx
      BY <2>1
    <2>5. o \in objects[d] /\ objects' = [objects EXCEPT ![d] = @ \ {o}]
      BY <2>2, <2>4
    <2>6. /\ \A c \in Contexts : c # d => KeptIn(c)' = KeptIn(c)
          /\ KeptIn(d)' \cup o.keeps = KeptIn(d)
      BY <2>5, KeptAfter
    <2>7. \A r \in Registrations : Kept(r)' \/ r \in o.keeps <=> Kept(r)
      BY <1>4, <2>6 DEF Kept
    <2> QED BY <1>3, <1>6, <2>1, <2>2, <2>3, <2>7 DEF Running
  <1>11. CASE DropShared(t)
    <2>1. PICK r \in Base(t).owns : OwnedElsewhere(t, r) /\ Moves(t, Without(Base(t), r))
      BY <1>11, MoreEffects
    <2>2. /\ OnCall(t) /\ After(t, Without(Base(t), r)) /\ r \in Registrations
          /\ ~Running(t, {"entered", "making"})
      BY <1>2, <1>11, <2>1, StackTypes, MoreEffects DEF Moves, DropShared
    <2>3. PICK f : /\ f = Without(Base(t), r) /\ After(t, f) /\ f \in EntryFrame
                   /\ f.op = Base(t).op /\ f.ctx = Base(t).ctx /\ f.owns = Base(t).owns \ {r}
                   /\ f.op = "call" => f.offer = Base(t).offer /\ f.stage = Base(t).stage
      BY <2>2, EntryFields DEF OnCall
    <2>4. Continues(t, f) /\ ~(f.op = "call" /\ f.stage = "entered")
      BY <1>2, <2>2, <2>3 DEF Continues, Running
    <2>5. \A q \in Registrations : Kept(q)' <=> Kept(q)
      BY <1>5, <1>11 DEF DropShared, tables
    <2>6. Kept(r) \/ OtherOwns(t, r)
      BY <1>11, <2>1, <2>2, Elsewhere DEF DropShared, OtherOwns
    <2> QED BY <1>1, <1>2, <2>2, <2>3, <2>4, <2>5, <2>6
  <1>12. CASE Callback(t) \/ ReleaseReturns(t) \/ CallbackReturns(t)
    <2>1. Calling(t) /\ Base(t) \in EntryFrame /\ After(t, Base(t))
      <3>1. CASE Callback(t)
        BY <1>2, <3>1, MoreEffects, StackTypes DEF CallsOut, OnCall
      <3>2. CASE ReleaseReturns(t) \/ CallbackReturns(t)
        BY <3>2, MoreEffects, StackTypes DEF Resumes
      <3> QED BY <1>12, <3>1, <3>2
    <2>2. PICK f : f = Base(t)
      OBVIOUS
    <2>3. Continues(t, f)
      BY <2>1, <2>2 DEF Continues, After
    <2>4. \A r \in Registrations : Kept(r)' <=> Kept(r)
      BY <1>5, <1>12 DEF Callback, ReleaseReturns, CallbackReturns, tables
    <2>5. \A r : Owns(t, r) <=> r \in f.owns
      BY <2>1, <2>2 DEF Owns
    <2> QED BY <1>1, <2>2, <2>3, <2>4, <2>5
  <1> QED BY <1>7, <1>8, <1>9, <1>10, <1>11, <1>12

(* The last owner goes: the registration is deleted, for the first time.     *)
LEMMA BooksDropLast ==
  ASSUME TypeOK, CallShape, Books, DeletedExactlyOnce, CallShape', NEW t \in Threads, DropLast(t)
  PROVE  Books' /\ DeletedExactlyOnce'
  <1>1. PICK r \in Base(t).owns :
          /\ ~OwnedElsewhere(t, r)
          /\ CallsOut(t, Without(Base(t), r), Releases(r, FALSE))
          /\ deletes' = [deletes EXCEPT ![r] = @ + 1]
    BY MoreEffects
  <1>2. /\ OnCall(t) /\ Calling(t) /\ r \in Registrations /\ Dropping(t)
        /\ ~Running(t, {"entered", "making"})
        /\ After(t, Without(Base(t), r))
    <2>1. OnCall(t) /\ After(t, Without(Base(t), r))
      BY <1>1, StackTypes DEF CallsOut
    <2>2. Dropping(t) /\ ~Running(t, {"entered", "making"})
      BY MoreEffects DEF DropLast
    <2>3. Calling(t)
      BY <2>1, ShortStacks DEF OnCall, Calling
    <2>4. r \in Registrations
      BY <1>1, <2>1, EntryFields DEF OnCall
    <2> QED BY <2>1, <2>2, <2>3, <2>4
  <1>3. PICK f : /\ f = Without(Base(t), r) /\ After(t, f) /\ f \in EntryFrame
                 /\ f.op = Base(t).op /\ f.ctx = Base(t).ctx /\ f.owns = Base(t).owns \ {r}
                 /\ f.op = "call" => f.offer = Base(t).offer /\ f.stage = Base(t).stage
    BY <1>2, EntryFields DEF OnCall
  <1>4. Continues(t, f) /\ ~(f.op = "call" /\ f.stage = "entered")
    BY <1>2, <1>3 DEF Continues, Running
  <1>5. \A q \in Registrations : Kept(q)' <=> Kept(q)
    BY DEF DropLast, tables, Kept, KeptIn
  <1>6. ~Kept(r) /\ ~OtherOwns(t, r) /\ Owns(t, r)
    BY <1>1, <1>2, Elsewhere DEF OtherOwns, Owns
  <1>7. \A q \in Registrations : Owned(q)' <=> Owned(q) /\ q # r
    <2>1. \A q \in Registrations : Owns(t, q) <=> q \in Base(t).owns
      BY <1>2 DEF Owns
    <2> QED BY <1>3, <1>5, <1>6, <2>1, Apart, ApartAfter
  <1>8. Owned(r)
    BY <1>2, <1>6, Apart
  <1>9. \A q \in Registrations :
          deletes'[q] = IF Owned(q) /\ ~Owned(q)' THEN deletes[q] + 1 ELSE deletes[q]
    BY <1>1, <1>2, <1>7, <1>8 DEF TypeOK
  <1>10. opened' = opened /\ adopted' = adopted
    BY DEF DropLast
  <1> QED BY <1>4, <1>7, <1>9, <1>10, BooksMove

(* The callbacks on offer are adopted: the call owns what was on offer.      *)
LEMMA BooksAdopt ==
  ASSUME TypeOK, CallShape, Books, DeletedExactlyOnce, CallShape', NEW t \in Threads, Adopt(t)
  PROVE  Books' /\ DeletedExactlyOnce'
  <1>1. /\ Running(t, {"entered"}) /\ adopted' = adopted \cup Base(t).offer
        /\ Moves(t, Moved(Base(t), "making", Base(t).offer))
        /\ opened' = opened /\ deletes' = deletes /\ objects' = objects
    BY Effects DEF Adopt, tables
  <1>2. /\ Calling(t) /\ Base(t) \in EntryFrame /\ Base(t).op = "call"
        /\ Base(t).offer \in SUBSET Registrations
        /\ Base(t).offer \subseteq opened /\ Base(t).owns = {} /\ Base(t).offer \cap adopted = {}
    BY <1>1, ShortStacks, EntryFields DEF Running, OnCall, Calling, Books
  <1>3. PICK f : /\ After(t, f) /\ f.op = "call" /\ f.stage = "making"
                 /\ f.offer = Base(t).offer /\ f.owns = Base(t).offer
    BY <1>1, <1>2, StackTypes, EntryFields
  <1>4. \A r \in Registrations : Offers(t, r) <=> r \in Base(t).offer
    BY <1>2 DEF Offers
  <1>5. \A r \in Registrations : Offers(t, r) => ~OtherOffers(t, r)
    BY DEF Books, OtherOffers
  <1>6. \A r \in Registrations : Kept(r)' <=> Kept(r)
    BY <1>1 DEF Kept, KeptIn
  <1>7. \A r \in Registrations : ~Owns(t, r)
    BY <1>2 DEF Owns
  <1>8. ASSUME NEW r \in Registrations
        PROVE  /\ Owned(r)' <=> Owned(r) \/ r \in Base(t).offer
               /\ OnOffer(r)' <=> OnOffer(r) /\ r \notin Base(t).offer
    BY <1>1, <1>3, <1>4, <1>5, <1>6, <1>7, Apart, ApartAfter
  <1>9. ASSUME NEW r \in Base(t).offer PROVE OnOffer(r)
    BY <1>2, <1>4, <1>9, Apart
  <1>10. DeletedExactlyOnce'
    BY <1>1, <1>2, <1>8, <1>9 DEF DeletedExactlyOnce, TypeOK
  <1>11. \A u \in Threads, r \in Registrations : Offers(u, r)' <=> Offers(u, r)
    BY <1>2, <1>3 DEF After, Offers
  <1>12. ASSUME NEW u \in Threads, Calling(u)', Base(u)'.op = "call"
         PROVE  /\ Base(u)'.offer \subseteq opened
                /\ Base(u)'.stage = "entered" =>
                     Base(u)'.owns = {} /\ Base(u)'.offer \cap adopted' = {}
    <2>1. CASE u = t
      BY <1>2, <1>3, <2>1 DEF After
    <2>2. CASE u # t
      <3>1. Calling(u) /\ Base(u)' = Base(u) /\ Base(u) \in EntryFrame
        BY <1>3, <1>12, <2>2, Shape DEF After
      <3>2. Base(u).offer \in SUBSET Registrations
        BY <1>12, <3>1, EntryFields
      <3>3. ASSUME NEW r \in Base(u).offer PROVE r \notin Base(t).offer
        <4>1. r \in Registrations /\ Offers(u, r)
          BY <1>12, <3>1, <3>2 DEF Offers
        <4> QED BY <1>4, <2>2, <4>1 DEF Books
      <3>4. /\ Base(u).offer \subseteq opened
            /\ Base(u).stage = "entered" => Base(u).owns = {} /\ Base(u).offer \cap adopted = {}
        BY <1>12, <3>1 DEF Books
      <3> QED BY <1>1, <3>1, <3>3, <3>4
    <2> QED BY <2>1, <2>2
  <1>13. Books'
    <2>1. adopted' \subseteq opened'
      BY <1>1, <1>2 DEF Books
    <2>2. \A r \in Registrations : r \notin opened' => deletes'[r] = 0
      BY <1>1 DEF Books
    <2>3. \A r \in Registrations : Owned(r)' => r \in adopted'
      BY <1>1, <1>8 DEF Books
    <2>4. \A u, v \in Threads, r \in Registrations : Offers(u, r)' /\ Offers(v, r)' => u = v
      BY <1>11 DEF Books
    <2> QED BY <1>1, <1>12, <2>1, <2>2, <2>3, <2>4 DEF Books
  <1> QED BY <1>10, <1>13

(* A call returns: Go deletes what it offered and the call did not adopt.    *)
LEMMA BooksEnd ==
  ASSUME TypeOK, CallShape, Books, DeletedExactlyOnce, CallShape', NEW t \in Threads,
         Leave(t) \/ ContextGone(t)
  PROVE  Books' /\ DeletedExactlyOnce'
  <1>1. /\ AfterEnd(t) /\ OnCall(t) /\ Calling(t) /\ Base(t).owns = {} /\ Base(t) \in EntryFrame
        /\ opened' = opened /\ adopted' = adopted /\ objects' = objects
    <2>1. Ends(t) /\ Base(t).owns = {}
      BY MoreEffects DEF Leaves
    <2>2. AfterEnd(t) /\ OnCall(t) /\ Calling(t)
      BY <2>1, StackTypes, ShortStacks DEF Ends, OnCall, Calling
    <2> QED BY <2>1, <2>2 DEF Leave, ContextGone, tables, OnCall
  <1>2. ASSUME NEW r \in Registrations
        PROVE  deletes'[r] = IF Offers(t, r) /\ r \notin adopted THEN deletes[r] + 1 ELSE deletes[r]
    <2>1. CASE Leave(t)
      <3>1. Leaves(t)
        BY <2>1, MoreEffects
      <3> QED BY <1>1, <3>1 DEF Leaves, Running, Offers
    <2>2. CASE ContextGone(t)
      BY <2>2, MoreEffects DEF ContextGone, Offers
    <2> QED BY <2>1, <2>2
  <1>3. \A r \in Registrations : Offers(t, r) => ~OtherOffers(t, r)
    BY DEF Books, OtherOffers
  <1>4. \A r \in Registrations : Kept(r)' <=> Kept(r)
    BY <1>1 DEF Kept, KeptIn
  <1>5. \A r \in Registrations : ~Owns(t, r)
    BY <1>1 DEF Owns
  <1>6. ASSUME NEW r \in Registrations
        PROVE  /\ Owned(r)' <=> Owned(r)
               /\ OnOffer(r)' <=> OnOffer(r) /\ ~Offers(t, r)
    BY <1>1, <1>3, <1>4, <1>5, Apart, ApartAfterEnd
  <1>7. \A r \in Registrations : Owned(r) => r \in adopted /\ r \in opened
    BY DEF Books
  <1>8. ASSUME NEW r \in Registrations, Offers(t, r), r \notin adopted
        PROVE  OnOffer(r) /\ r \in opened /\ ~Owned(r)
    <2>1. OnOffer(r)
      BY <1>8, Apart
    <2>2. r \in opened
      BY <1>8 DEF Offers, Books
    <2> QED BY <1>7, <1>8, <2>1, <2>2
  <1>9. DeletedExactlyOnce'
    <2>1. ASSUME NEW r \in opened
          PROVE  deletes'[r] = IF Owned(r)' \/ OnOffer(r)' THEN 0 ELSE 1
      <3>1. r \in Registrations /\ deletes[r] = IF Owned(r) \/ OnOffer(r) THEN 0 ELSE 1
        BY DEF DeletedExactlyOnce, TypeOK
      <3>2. OnOffer(r) => r \notin adopted
        BY DEF OnOffer
      <3>3. CASE Offers(t, r) /\ r \notin adopted
        BY <1>2, <1>6, <1>8, <3>1, <3>3
      <3>4. CASE ~(Offers(t, r) /\ r \notin adopted)
        BY <1>2, <1>6, <3>1, <3>2, <3>4
      <3> QED BY <3>3, <3>4
    <2> QED BY <1>1, <2>1 DEF DeletedExactlyOnce
  <1>10. \A u \in Threads : Calling(u)' => Calling(u) /\ Base(u)' = Base(u)
    BY <1>1 DEF AfterEnd
  <1>11. Books'
    <2>1. adopted' \subseteq opened'
      BY <1>1 DEF Books
    <2>2. \A r \in Registrations : r \notin opened' => deletes'[r] = 0
      BY <1>1, <1>2, <1>8 DEF Books
    <2>3. \A r \in Registrations : Owned(r)' => r \in adopted'
      BY <1>1, <1>6, <1>7
    <2>4. \A u \in Threads : Calling(u)' /\ Base(u)'.op = "call" =>
            /\ Base(u)'.offer \subseteq opened'
            /\ Base(u)'.stage = "entered" =>
                 Base(u)'.owns = {} /\ Base(u)'.offer \cap adopted' = {}
      BY <1>1, <1>10 DEF Books
    <2>5. \A u, v \in Threads, r \in Registrations : Offers(u, r)' /\ Offers(v, r)' => u = v
      <3>1. \A u \in Threads, r \in Registrations : Offers(u, r)' => Offers(u, r)
        BY <1>10 DEF Offers
      <3> QED BY <3>1 DEF Books
    <2> QED BY <2>1, <2>2, <2>3, <2>4, <2>5 DEF Books
  <1> QED BY <1>9, <1>11

(* A call begins, or a context is freed: another call takes its objects.     *)
LEMMA BooksBegin ==
  ASSUME TypeOK, CallShape, Books, DeletedExactlyOnce, CallShape',
         NEW t \in Threads, NEW c \in Contexts, Enter(t, c) \/ ContextFree(t, c)
  PROVE  Books' /\ DeletedExactlyOnce'
  <1>1. PICK f, offer :
          /\ Begins(t, f) /\ After(t, f) /\ offer \in SUBSET Registrations
          /\ offer \cap opened = {} /\ opened' = opened \cup offer
          /\ f.op = "call" => f.offer = offer /\ f.owns = {}
          /\ f.op # "call" => offer = {}
          /\ \A r \in Registrations : Kept(r)' \/ r \in f.owns <=> Kept(r)
    <2>1. CASE Enter(t, c)
      <3>1. PICK offer \in SUBSET Registrations :
              /\ offer \cap opened = {} /\ opened' = opened \cup offer
              /\ Begins(t, Entered(c, offer))
        BY <2>1, Effects
      <3>2. \A r : Kept(r)' <=> Kept(r)
        BY <2>1 DEF Enter, tables, Kept, KeptIn
      <3>3. After(t, Entered(c, offer))
        BY <3>1, StackTypes
      <3>4. /\ Entered(c, offer).op = "call" /\ Entered(c, offer).offer = offer
            /\ Entered(c, offer).owns = {}
        BY DEF Entered
      <3> QED BY <3>1, <3>2, <3>3, <3>4
    <2>2. CASE ContextFree(t, c)
      <3>1. /\ Begins(t, Freeing(c)) /\ After(t, Freeing(c)) /\ opened' = opened
            /\ objects' = [objects EXCEPT ![c] = {}]
        BY <2>2, Effects, StackTypes DEF ContextFree
      <3>2. \A d \in Contexts : KeptIn(d)' = IF d = c THEN {} ELSE KeptIn(d)
        BY <3>1, KeptAfter
      <3>3. Freeing(c).op = "free" /\ Freeing(c).owns = KeptIn(c)
        BY DEF Freeing
      <3>4. \A r \in Registrations : Kept(r)' \/ r \in KeptIn(c) <=> Kept(r)
        BY <3>2 DEF Kept
      <3>5. {} \in SUBSET Registrations /\ {} \cap opened = {} /\ opened = opened \cup {}
        OBVIOUS
      <3> QED BY <3>1, <3>3, <3>4, <3>5
    <2> QED BY <2>1, <2>2
  <1>2. ~Calling(t) /\ adopted' = adopted /\ deletes' = deletes
    BY <1>1 DEF Begins, Calling, Enter, ContextFree
  <1>3. \A r \in Registrations : ~Owns(t, r) /\ ~Offers(t, r)
    BY <1>2 DEF Owns, Offers
  <1>4. \A u \in Threads, r \in Registrations : Offers(u, r) => r \in opened
    BY DEF Books, Offers
  <1>5. ASSUME NEW r \in Registrations
        PROVE  /\ Owned(r)' <=> Owned(r)
               /\ OnOffer(r)' <=> OnOffer(r) \/ (r \in offer /\ r \notin adopted)
    BY <1>1, <1>2, <1>3, Apart, ApartAfter
  <1>6. DeletedExactlyOnce'
    <2>1. ASSUME NEW r \in opened'
          PROVE  deletes'[r] = IF Owned(r)' \/ OnOffer(r)' THEN 0 ELSE 1
      <3>1. r \in Registrations
        BY <1>1 DEF TypeOK
      <3>2. CASE r \in offer
        <4>1. r \notin opened /\ r \notin adopted /\ deletes[r] = 0
          BY <1>1, <3>1, <3>2 DEF Books
        <4> QED BY <1>2, <1>5, <3>1, <3>2, <4>1
      <3>3. CASE r \notin offer
        <4>1. r \in opened
          BY <1>1, <3>3
        <4> QED BY <1>2, <1>5, <3>1, <3>3, <4>1 DEF DeletedExactlyOnce
      <3> QED BY <3>2, <3>3
    <2> QED BY <2>1 DEF DeletedExactlyOnce
  <1>7. Books'
    <2>1. adopted' \subseteq opened'
      BY <1>1, <1>2 DEF Books
    <2>2. \A r \in Registrations : r \notin opened' => deletes'[r] = 0
      BY <1>1, <1>2 DEF Books
    <2>3. \A r \in Registrations : Owned(r)' => r \in adopted'
      BY <1>2, <1>5 DEF Books
    <2>4. ASSUME NEW u \in Threads, Calling(u)', Base(u)'.op = "call"
          PROVE  /\ Base(u)'.offer \subseteq opened'
                 /\ Base(u)'.stage = "entered" =>
                      Base(u)'.owns = {} /\ Base(u)'.offer \cap adopted' = {}
      <3>1. CASE u = t
        <4>1. offer \cap adopted = {}
          BY <1>1 DEF Books
        <4> QED BY <1>1, <1>2, <2>4, <3>1, <4>1 DEF After
      <3>2. CASE u # t
        BY <1>1, <1>2, <2>4, <3>2 DEF After, Books
      <3> QED BY <3>1, <3>2
    <2>5. ASSUME NEW u \in Threads, NEW v \in Threads, NEW r \in Registrations,
                 Offers(u, r)', Offers(v, r)'
          PROVE  u = v
      <3>1. \A w \in Threads : Offers(w, r)' => IF w = t THEN r \in offer ELSE Offers(w, r)
        BY <1>1 DEF After, Offers
      <3>2. \A w \in Threads : r \in offer => ~Offers(w, r)
        BY <1>1, <1>4
      <3> QED BY <2>5, <3>1, <3>2 DEF Books
    <2> QED BY <2>1, <2>2, <2>3, <2>4, <2>5 DEF Books
  <1> QED BY <1>6, <1>7

(* No step of any thread upsets the books.                                   *)
LEMMA BooksStep ==
  ASSUME Inv, [Next]_vars, CallShape'
  PROVE  Books' /\ DeletedExactlyOnce'
  <1>0. TypeOK /\ CallShape /\ Books /\ DeletedExactlyOnce
    BY DEF Inv
  <1>1. ASSUME stack' = stack, objects' = objects, adopted' = adopted,
               NEW S \in SUBSET Registrations, S \cap opened = {}, opened' = opened \cup S,
               \A r \in Registrations : deletes'[r] = IF r \in S THEN deletes[r] + 1 ELSE deletes[r]
        PROVE  Books' /\ DeletedExactlyOnce'
    <2>1. /\ \A r : Owned(r)' <=> Owned(r)
          /\ \A r : OnOffer(r)' <=> OnOffer(r)
          /\ \A u : (Calling(u)' <=> Calling(u)) /\ Base(u)' = Base(u)
          /\ \A u, r : Offers(u, r)' <=> Offers(u, r)
      BY <1>1 DEF Owned, OnOffer, KeptIn, OwnedBy, Calling, Base, Offers
    <2>2. \A r \in Registrations : OnOffer(r) => r \in opened
      BY <1>0, Views DEF SeenFromEntries, Offers, Books
    <2>3. DeletedExactlyOnce'
      <3>1. ASSUME NEW r \in opened'
            PROVE  deletes'[r] = IF Owned(r)' \/ OnOffer(r)' THEN 0 ELSE 1
        <4>1. r \in Registrations
          BY <1>0, <1>1 DEF TypeOK
        <4>2. CASE r \in S
          <5>1. r \notin opened /\ ~Owned(r) /\ ~OnOffer(r) /\ deletes[r] = 0
            BY <1>0, <1>1, <2>2, <4>1, <4>2 DEF Books
          <5> QED BY <1>1, <2>1, <4>1, <4>2, <5>1
        <4>3. CASE r \notin S
          BY <1>0, <1>1, <2>1, <4>1, <4>3 DEF DeletedExactlyOnce
        <4> QED BY <4>2, <4>3
      <3> QED BY <3>1 DEF DeletedExactlyOnce
    <2>4. Books'
      <3>1. adopted' \subseteq opened'
        BY <1>0, <1>1 DEF Books
      <3>2. \A r \in Registrations : r \notin opened' => deletes'[r] = 0
        BY <1>0, <1>1 DEF Books
      <3>3. \A r \in Registrations : Owned(r)' => r \in adopted'
        BY <1>0, <1>1, <2>1 DEF Books
      <3>4. \A u \in Threads : Calling(u)' /\ Base(u)'.op = "call" =>
              /\ Base(u)'.offer \subseteq opened'
              /\ Base(u)'.stage = "entered" =>
                   Base(u)'.owns = {} /\ Base(u)'.offer \cap adopted' = {}
        BY <1>0, <1>1, <2>1 DEF Books
      <3>5. \A u, v \in Threads, r \in Registrations : Offers(u, r)' /\ Offers(v, r)' => u = v
        BY <1>0, <2>1 DEF Books
      <3> QED BY <3>1, <3>2, <3>3, <3>4, <3>5 DEF Books
    <2> QED BY <2>3, <2>4
  <1>2. ASSUME stack' = stack, objects' = objects, adopted' = adopted, opened' = opened, deletes' = deletes
        PROVE  Books' /\ DeletedExactlyOnce'
    <2>1. {} \in SUBSET Registrations /\ {} \cap opened = {} /\ opened' = opened \cup {}
      BY <1>2
    <2>2. \A r \in Registrations : deletes'[r] = IF r \in {} THEN deletes[r] + 1 ELSE deletes[r]
      BY <1>2
    <2> QED BY <1>1, <1>2, <2>1, <2>2
  <1>3. CASE UNCHANGED vars
    BY <1>2, <1>3 DEF vars
  <1>4. ASSUME NEW t \in Threads, Inside(t) PROVE Books' /\ DeletedExactlyOnce'
    <2>1. CASE \/ Derive(t) \/ Insert(t) \/ Fail(t) \/ HandleRelease(t) \/ Panic(t) \/ DropShared(t)
               \/ ReleaseReturns(t) \/ Callback(t) \/ CallbackReturns(t)
      BY <1>0, <2>1, BooksPassOn
    <2>2. CASE DropLast(t)
      BY <1>0, <2>2, BooksDropLast
    <2>3. CASE Adopt(t)
      BY <1>0, <2>3, BooksAdopt
    <2>4. CASE Leave(t) \/ ContextGone(t)
      BY <1>0, <2>4, BooksEnd
    <2> QED BY <1>4, <2>1, <2>2, <2>3, <2>4 DEF Inside
  <1>5. ASSUME NEW t \in Threads, NEW c \in Contexts, Enter(t, c) \/ ContextFree(t, c)
        PROVE  Books' /\ DeletedExactlyOnce'
    BY <1>0, <1>5, BooksBegin
  <1>6. ASSUME NEW t \in Threads, NEW c \in Contexts, ContextNew(t, c)
        PROVE  Books' /\ DeletedExactlyOnce'
    BY <1>2, <1>6 DEF ContextNew
  <1>7. ASSUME NEW t \in Threads, NEW c \in Contexts, NEW r \in Registrations,
               OfferRefused(t, c, r)
        PROVE  Books' /\ DeletedExactlyOnce'
    <2>1. /\ stack' = stack /\ objects' = objects /\ adopted' = adopted
          /\ {r} \cap opened = {} /\ opened' = opened \cup {r} /\ {r} \in SUBSET Registrations
          /\ \A q \in Registrations : deletes'[q] = IF q \in {r} THEN deletes[q] + 1 ELSE deletes[q]
      BY <1>0, <1>7 DEF OfferRefused, tables, TypeOK
    <2> QED BY <1>1, <2>1
  <1> QED BY <1>3, <1>4, <1>5, <1>6, <1>7 DEF Next

-----------------------------------------------------------------------------
(* The invariant holds at the start, and every step keeps it.                *)
LEMMA InitInv == Init => Inv
  <1> SUFFICES ASSUME Init PROVE Inv
    OBVIOUS
  <1>1. TypeOK
    <2>1. <<>> \in Seq(Frame)
      BY EmptySeq
    <2>2. 1 \in 1..LastHandle
      BY FfiConstants
    <2> QED BY <2>1, <2>2 DEF Init, TypeOK
  <1>2. CallShape
    BY DEF Init, CallShape, Idle
  <1>3. Borrowing
    BY DEF Init, Borrowing, Calling
  <1>4. \A r : ~Owned(r)
    BY DEF Init, Owned, KeptIn
  <1>5. Books
    BY <1>4 DEF Init, Books, Calling, Offers
  <1>6. DeletedExactlyOnce
    BY DEF Init, DeletedExactlyOnce
  <1> QED BY <1>1, <1>2, <1>3, <1>5, <1>6 DEF Inv

LEMMA NextInv == Inv /\ [Next]_vars => Inv'
  BY TypeStep, LatchStep, BorrowStep, BooksStep DEF Inv

(* The books balance in every reachable state.                               *)
THEOREM InvCorrect == Spec => []Inv
  BY InitInv, NextInv, PTL DEF Spec

(* Every variable stays in its type: the handle counter in its range, for    *)
(* one.                                                                      *)
THEOREM TypeCorrect == Spec => []TypeOK
  <1>1. Inv => TypeOK
    BY DEF Inv
  <1> QED BY <1>1, InvCorrect, PTL

(* A registration is deleted once, and exactly when nobody is responsible    *)
(* for it any more, whatever fails or panics and whoever goes last.          *)
THEOREM DeletesCorrect == Spec => []DeletedExactlyOnce
  <1>1. Inv => DeletedExactlyOnce
    BY DEF Inv
  <1> QED BY <1>1, InvCorrect, PTL

(* A callback never runs on a registration that was released: the context it *)
(* was called from, or the call that builds a curve, still owns it.          *)
THEOREM CallbacksCorrect == Spec => []CallbacksAreAlive
  <1>1. Inv => CallbacksAreAlive
    <2> SUFFICES ASSUME Inv, NEW t \in Threads, NEW i \in DOMAIN stack[t],
                        stack[t][i].op = "callback"
                 PROVE  deletes[stack[t][i].reg] = 0
      BY DEF CallbacksAreAlive
    <2>1. /\ Base(t) \in EntryFrame /\ Calling(t)
          /\ stack[t][i].reg \in KeptIn(Base(t).ctx) \cup Base(t).owns
      BY FramesOf DEF Inv
    <2>2. Base(t).ctx \in Contexts /\ stack[t][i].reg \in Registrations
      BY <2>1, EntryFields, KeptTypes DEF Inv
    <2>3. Owned(stack[t][i].reg)
      BY <2>1, <2>2, Views DEF SeenFromEntries, Owns, Kept, Inv
    <2>4. stack[t][i].reg \in opened
      BY <2>2, <2>3 DEF Inv, Books
    <2> QED BY <2>3, <2>4 DEF Inv, DeletedExactlyOnce
  <1> QED BY <1>1, InvCorrect, PTL

(* A context is borrowed mutably by one call at a time, of its owner thread, *)
(* and nobody uses a freed one.                                              *)
THEOREM BorrowsCorrect == Spec => []ContextBorrowedOnce
  <1>1. Inv => ContextBorrowedOnce
    <2> SUFFICES ASSUME Inv PROVE ContextBorrowedOnce
      OBVIOUS
    <2>1. ASSUME NEW t \in Threads, NEW i \in DOMAIN stack[t], stack[t][i].op \in Entries
          PROVE  i = 1 /\ Calling(t) /\ stack[t][i] = Base(t) /\ Base(t).ctx \in Contexts
      <3>1. /\ Calling(t) /\ Base(t) \in EntryFrame /\ stack[t][1] = Base(t)
            /\ i = 1 \/ stack[t][i] \in ForeignFrame
        BY FramesOf DEF Inv
      <3> QED BY <2>1, <3>1, EntryFields, ForeignFields
    <2>2. ASSUME NEW t \in Threads, NEW i \in DOMAIN stack[t], NEW c \in Contexts, Borrows(t, i, c)
          PROVE  t \in owner[c] /\ i = 1
      BY <2>1, <2>2 DEF Borrows, Entries, Inv, Borrowing
    <2>3. ASSUME NEW t \in Threads, NEW i \in DOMAIN stack[t], stack[t][i].op = "call"
          PROVE  state[stack[t][i].ctx] # "freed"
      BY <2>1, <2>3 DEF Entries, Inv, Borrowing
    <2>4. \A c \in Contexts : \A t, u \in owner[c] : t = u
      BY DEF Inv, Borrowing
    <2> QED BY <2>2, <2>3, <2>4 DEF ContextBorrowedOnce
  <1> QED BY <1>1, InvCorrect, PTL

-----------------------------------------------------------------------------
(* SESSIONS                                                                  *)
(* Who holds the gate, whom the worker serves, how far Close has come, and   *)
(* in which order callbacks that wait for each other's sessions have         *)
(* started.                                                                  *)

WithinGate == {"admitted", "sending", "waiting", "replied", "stopping", "leaving"}
InRequest == {"sending", "waiting", "replied", "stopping"}

\* The worker serves exactly the caller that waits for it.
Serving ==
    /\ \A s \in Sessions : worker[s] \in {"run", "callback"} =>
         serving[s] \in Callers /\ pc[serving[s]] = "waiting" /\ on[serving[s]] = s
    /\ \A c \in Callers : pc[c] = "waiting" =>
         worker[on[c]] \in {"run", "callback"} /\ serving[on[c]] = c

\* The flag is up exactly during a callback, which alone calls for a session.
CallingBack ==
    /\ \A s \in Sessions : callbackActive[s] <=> worker[s] = "callback"
    /\ \A s \in Sessions : pc[s] # "idle" => worker[s] = "callback"
    /\ \A s \in Sessions : pc[s] \notin {"idle", "load"} => on[s] # s

\* The gate is held by those inside, by one of them if that one closes.
Gate ==
    /\ \A s \in Sessions, c \in Callers : c \in readers[s] <=>
         on[c] = s /\ ~closing[c] /\ pc[c] \in WithinGate
    /\ \A s \in Sessions, c \in Callers : writer[s] = c <=>
         on[c] = s /\ closing[c] /\ pc[c] \in WithinGate \cup {"locking"}
    /\ \A c \in Callers : closing[c] /\ pc[c] \in WithinGate => readers[on[c]] = {}
    /\ \A c \in Callers : pc[c] = "locking" => closing[c]
    /\ \A c \in Callers : pc[c] = "stopping" => closing[c]

\* How far Close has come.
Closing ==
    /\ \A c \in Callers : pc[c] \in InRequest => (closed[on[c]] <=> closing[c])
    /\ \A s \in Sessions : closed[s] =>
         \/ \E c \in Callers : on[c] = s /\ closing[c] /\ pc[c] \in InRequest
         \/ worker[s] = "exited" /\ context[s] = "freed"
    /\ \A s \in Sessions : context[s] = "freed" => closed[s]
    /\ \A s \in Sessions : ~queueOpen[s] => context[s] = "freed"
    /\ \A s \in Sessions : worker[s] = "exited" => ~queueOpen[s]
    /\ \A c \in Callers : pc[c] \in {"sending", "waiting"} => context[on[c]] = "live"
    /\ \A c \in Callers : closing[c] /\ pc[c] \in {"replied", "stopping"} =>
         context[on[c]] = "freed"
    /\ \A c \in Callers : pc[c] = "replied" => result[c] \in {"ok", "error"}
    /\ \A c \in Callers : pc[c] = "stopping" => result[c] = closeErr[on[c]]

\* A callback that waits for a session whose callback runs started earlier.
Order ==
    /\ \A s \in Sessions : since[s] <= clock
    /\ \A s, t \in Sessions :
         worker[s] = "callback" /\ worker[t] = "callback"
           /\ on[s] = t /\ pc[s] \notin {"idle", "load"} => since[s] < since[t]

SessionInv == SessionTypeOK /\ Serving /\ CallingBack /\ Gate /\ Closing /\ CloseIsFinal /\ Order

-----------------------------------------------------------------------------
(* A session and a goroutine are somebody.                                   *)
LEMMA SessionsApart == Nobody \notin Callers /\ Sessions \subseteq Callers
  BY SessionConstants DEF Callers

(* A session NewSession has just returned satisfies the invariant.           *)
LEMMA InitSessionInv == SessionInit => SessionInv
  <1> SUFFICES ASSUME SessionInit PROVE SessionInv
    OBVIOUS
  <1> USE SessionsApart
  <1>1. SessionTypeOK
    BY DEF SessionInit, SessionTypeOK, CallPC, Results
  <1>2. Serving /\ CallingBack /\ Order
    BY <1>1 DEF SessionInit, Serving, CallingBack, Order
  <1>3. Gate /\ Closing /\ CloseIsFinal
    BY <1>1 DEF SessionInit, Gate, Closing, CloseIsFinal, WithinGate, InRequest
  <1> QED BY <1>1, <1>2, <1>3 DEF SessionInv

(* A step keeps every variable in its type; Close's outcome is the native    *)
(* call's because the answer it receives is (Closing).                       *)
LEMMA SessionTypeStep == SessionTypeOK /\ Closing /\ Serving /\ [SessionNext]_sessionVars => SessionTypeOK'
  <1> SUFFICES ASSUME SessionTypeOK, Closing, Serving, [SessionNext]_sessionVars PROVE SessionTypeOK'
    OBVIOUS
  <1> USE SessionsApart DEF SessionTypeOK, CallPC, Results, Go, Returns
  <1>1. ASSUME NEW c \in Callers, NEW s \in Sessions, NEW close \in BOOLEAN,
               Begin(c, s, close)
        PROVE SessionTypeOK'
    BY <1>1 DEF Begin, gateVars, closeVars, workerVars
  <1>2. ASSUME NEW c \in Callers, CallStep(c) PROVE SessionTypeOK'
    <2>1. CASE LoadFlag(c)
      <3> UNCHANGED <<on, closing, gateVars, closeVars, workerVars, boundVars>>
        BY <2>1 DEF LoadFlag
      <3> USE DEF gateVars, closeVars, workerVars, boundVars
      <3>1. pc[c] = "load" /\ on[c] \in Sessions
        BY <2>1 DEF LoadFlag
      <3>2. CASE callbackActive[on[c]]
        <4>1. /\ pc' = [pc EXCEPT ![c] = "idle"]
              /\ result' = [result EXCEPT ![c] = "reentry"]
          BY <2>1, <3>2 DEF LoadFlag
        <4> QED BY <3>1, <4>1
      <3>3. CASE ~callbackActive[on[c]]
        <4>1. pc' = [pc EXCEPT ![c] = "enter"] /\ result' = result
          BY <2>1, <3>3 DEF LoadFlag
        <4> QED BY <3>1, <4>1
      <3> QED BY <3>2, <3>3
    <2>2. CASE RLock(c)
      BY <2>2 DEF RLock, closeVars, workerVars, boundVars
    <2>3. CASE AnnounceLock(c)
      BY <2>3 DEF AnnounceLock, closeVars, workerVars, boundVars
    <2>4. CASE Lock(c)
      BY <2>4 DEF Lock, gateVars, closeVars, workerVars, boundVars
    <2>5. CASE AlreadyClosed(c)
      BY <2>5 DEF AlreadyClosed, gateVars, closeVars, workerVars, boundVars
    <2>6. CASE Admit(c)
      BY <2>6 DEF Admit, gateVars, workerVars, boundVars
    <2>7. CASE Handover(c)
      BY <2>7 DEF Handover, gateVars, closeVars, boundVars
    <2>8. CASE Receive(c)
      <3> UNCHANGED <<on, closing, result, gateVars, closed, workerVars, boundVars>>
        BY <2>8 DEF Receive
      <3> USE DEF gateVars, workerVars, boundVars
      <3>1. pc[c] = "replied" /\ on[c] \in Sessions /\ result[c] \in {"ok", "error"}
        BY <2>8 DEF Receive, Closing
      <3>2. CASE closing[c]
        <4>1. /\ pc' = [pc EXCEPT ![c] = "stopping"]
              /\ closeErr' = [closeErr EXCEPT ![on[c]] = result[c]]
              /\ queueOpen' = [queueOpen EXCEPT ![on[c]] = FALSE]
          BY <2>8, <3>2 DEF Receive
        <4> QED BY <3>1, <4>1
      <3>3. CASE ~closing[c]
        <4>1. pc' = [pc EXCEPT ![c] = "leaving"] /\ UNCHANGED <<closeErr, queueOpen>>
          BY <2>8, <3>3 DEF Receive
        <4> QED BY <3>1, <4>1
      <3> QED BY <3>2, <3>3
    <2>9. CASE Stopped(c)
      BY <2>9 DEF Stopped, gateVars, closeVars, workerVars, boundVars
    <2>10. CASE Unlock(c)
      BY <2>10 DEF Unlock, closeVars, workerVars, boundVars
    <2> QED BY <1>2, <2>1, <2>2, <2>3, <2>4, <2>5, <2>6, <2>7, <2>8, <2>9, <2>10
            DEF CallStep
  <1>3. ASSUME NEW s \in Sessions, StartCallback(s) PROVE SessionTypeOK'
    BY <1>3 DEF StartCallback, callerVars, gateVars, closeVars
  <1>4. ASSUME NEW s \in Sessions, WorkerStep(s) PROVE SessionTypeOK'
    <2>1. CASE EndCallback(s)
      BY <2>1 DEF EndCallback, callerVars, gateVars, closeVars, boundVars
    <2>2. CASE Reply(s)
      BY <2>2 DEF Reply, Serving, gateVars, closeVars, boundVars
    <2>3. CASE WorkerExits(s)
      BY <2>3 DEF WorkerExits, callerVars, gateVars, closeVars, boundVars
    <2> QED BY <1>4, <2>1, <2>2, <2>3 DEF WorkerStep
  <1>5. CASE UNCHANGED sessionVars
    BY <1>5 DEF sessionVars, callerVars, gateVars, closeVars, workerVars, boundVars
  <1> QED BY <1>1, <1>2, <1>3, <1>4, <1>5 DEF SessionNext

(* A call begins: only the code of a running callback calls as a session.    *)
LEMMA BeginStep ==
    ASSUME SessionInv, SessionTypeOK', NEW c \in Callers, NEW s \in Sessions, NEW close \in
         BOOLEAN, Begin(c, s, close)
  PROVE  SessionInv'
  <1> USE SessionsApart
            DEF SessionInv, SessionTypeOK, Begin, Go, Returns, CallPC, Results, WithinGate, InRequest,
          gateVars, closeVars, workerVars
  <1>1. Serving'
    BY DEF Serving
  <1>2. CallingBack'
    BY DEF CallingBack, Serving
  <1>3. Gate'
    BY DEF Gate
  <1>4. Closing'
    BY DEF Serving, Gate, Closing
  <1>5. CloseIsFinal'
    BY DEF Gate, Closing, CloseIsFinal
  <1>6. Order'
    BY DEF CallingBack, Order
  <1> QED BY <1>1, <1>2, <1>3, <1>4, <1>5, <1>6

(* A caller that sees the flag up is refused; one that does not is older.    *)
LEMMA LoadFlagStep ==
  ASSUME SessionInv, SessionTypeOK', NEW c \in Callers, LoadFlag(c)
  PROVE  SessionInv'
  <1> USE SessionsApart
            DEF SessionInv, SessionTypeOK, LoadFlag, Go, Returns, CallPC, Results, WithinGate,
          InRequest, gateVars, closeVars, workerVars, boundVars
  <1>1. Serving'
    BY DEF Serving
  <1>2. CallingBack'
    BY DEF CallingBack, Serving
  <1>3. Gate'
    BY DEF Gate
  <1>4. Closing'
    BY DEF Serving, Gate, Closing
  <1>5. CloseIsFinal'
    BY DEF Gate, Closing, CloseIsFinal
  <1>6. Order'
    BY DEF CallingBack, Order
  <1> QED BY <1>1, <1>2, <1>3, <1>4, <1>5, <1>6

(* invoke joins the readers while no Close has announced itself.             *)
LEMMA RLockStep ==
  ASSUME SessionInv, SessionTypeOK', NEW c \in Callers, RLock(c)
  PROVE  SessionInv'
  <1> USE SessionsApart
            DEF SessionInv, SessionTypeOK, RLock, Go, Returns, CallPC, Results, WithinGate, InRequest,
          closeVars, workerVars, boundVars
  <1>1. Serving'
    BY DEF Serving
  <1>2. CallingBack'
    BY DEF CallingBack, Serving
  <1>3. Gate'
    BY DEF Gate
  <1>4. Closing'
    BY DEF Serving, Gate, Closing
  <1>5. CloseIsFinal'
    BY DEF Gate, Closing, CloseIsFinal
  <1>6. Order'
    BY DEF CallingBack, Order
  <1> QED BY <1>1, <1>2, <1>3, <1>4, <1>5, <1>6

(* Close announces itself: later callers wait for it.                        *)
LEMMA AnnounceLockStep ==
  ASSUME SessionInv, SessionTypeOK', NEW c \in Callers, AnnounceLock(c)
  PROVE  SessionInv'
  <1> USE SessionsApart
            DEF SessionInv, SessionTypeOK, AnnounceLock, Go, Returns, CallPC, Results, WithinGate,
          InRequest, closeVars, workerVars, boundVars
  <1>1. Serving'
    BY DEF Serving
  <1>2. CallingBack'
    BY DEF CallingBack, Serving
  <1>3. Gate'
    BY DEF Gate
  <1>4. Closing'
    BY DEF Serving, Gate, Closing
  <1>5. CloseIsFinal'
    BY DEF Gate, Closing, CloseIsFinal
  <1>6. Order'
    BY DEF CallingBack, Order
  <1> QED BY <1>1, <1>2, <1>3, <1>4, <1>5, <1>6

(* Close enters once the readers have left.                                  *)
LEMMA LockStep ==
  ASSUME SessionInv, SessionTypeOK', NEW c \in Callers, Lock(c)
  PROVE  SessionInv'
  <1> USE SessionsApart
            DEF SessionInv, SessionTypeOK, Lock, Go, Returns, CallPC, Results, WithinGate, InRequest,
          gateVars, closeVars, workerVars, boundVars
  <1>1. Serving'
    BY DEF Serving
  <1>2. CallingBack'
    BY DEF CallingBack, Serving
  <1>3. Gate'
    BY DEF Gate
  <1>4. Closing'
    BY DEF Serving, Gate, Closing
  <1>5. CloseIsFinal'
    BY DEF Gate, Closing, CloseIsFinal
  <1>6. Order'
    BY DEF CallingBack, Order
  <1> QED BY <1>1, <1>2, <1>3, <1>4, <1>5, <1>6

(* A closed session has finished closing, its worker gone.                   *)
LEMMA AlreadyClosedStep ==
  ASSUME SessionInv, SessionTypeOK', NEW c \in Callers, AlreadyClosed(c)
  PROVE  SessionInv'
  <1> USE SessionsApart
            DEF SessionInv, SessionTypeOK, AlreadyClosed, Go, Returns, CallPC, Results, WithinGate,
          InRequest, gateVars, closeVars, workerVars, boundVars
  <1>1. Serving'
    BY DEF Serving
  <1>2. CallingBack'
    BY DEF CallingBack, Serving
  <1>3. Gate'
    BY DEF Gate
  <1>4. Closing'
    BY DEF Serving, Gate, Closing
  <1>5. CloseIsFinal'
    BY DEF Gate, Closing, CloseIsFinal
  <1>6. Order'
    BY DEF CallingBack, Order
  <1> QED BY <1>1, <1>2, <1>3, <1>4, <1>5, <1>6

(* The call is admitted to a session nobody has closed.                      *)
LEMMA AdmitStep ==
  ASSUME SessionInv, SessionTypeOK', NEW c \in Callers, Admit(c)
  PROVE  SessionInv'
  <1> USE SessionsApart
            DEF SessionInv, SessionTypeOK, Admit, Go, Returns, CallPC, Results, WithinGate, InRequest,
          gateVars, workerVars, boundVars
  <1>1. Serving'
    BY DEF Serving
  <1>2. CallingBack'
    BY DEF CallingBack, Serving
  <1>3. Gate'
    BY DEF Gate
  <1>4. Closing'
    BY DEF Serving, Gate, Closing
  <1>5. CloseIsFinal'
    BY DEF Gate, Closing, CloseIsFinal
  <1>6. Order'
    BY DEF CallingBack, Order
  <1> QED BY <1>1, <1>2, <1>3, <1>4, <1>5, <1>6

(* The worker takes a request while it serves nobody else.                   *)
LEMMA HandoverStep ==
  ASSUME SessionInv, SessionTypeOK', NEW c \in Callers, Handover(c)
  PROVE  SessionInv'
  <1> USE SessionsApart
            DEF SessionInv, SessionTypeOK, Handover, Go, Returns, CallPC, Results, WithinGate,
          InRequest, gateVars, closeVars, boundVars
  <1>1. Serving'
    BY DEF Serving
  <1>2. CallingBack'
    BY DEF CallingBack, Serving
  <1>3. Gate'
    BY DEF Gate
  <1>4. Closing'
    BY DEF Serving, Gate, Closing
  <1>5. CloseIsFinal'
    BY DEF Gate, Closing, CloseIsFinal
  <1>6. Order'
    BY DEF CallingBack, Order
  <1> QED BY <1>1, <1>2, <1>3, <1>4, <1>5, <1>6

(* The caller has its answer; Close keeps it and closes the queue.           *)
LEMMA ReceiveStep ==
  ASSUME SessionInv, SessionTypeOK', NEW c \in Callers, Receive(c)
  PROVE  SessionInv'
  <1> USE SessionsApart
            DEF SessionInv, SessionTypeOK, Receive, Go, Returns, CallPC, Results, WithinGate,
          InRequest, gateVars, workerVars, boundVars
  <1>1. Serving'
    BY DEF Serving
  <1>2. CallingBack'
    BY DEF CallingBack, Serving
  <1>3. Gate'
    BY DEF Gate
  <1>4. Closing'
    BY DEF Serving, Gate, Closing
  <1>5. CloseIsFinal'
    BY DEF Gate, Closing, CloseIsFinal
  <1>6. Order'
    BY DEF CallingBack, Order
  <1> QED BY <1>1, <1>2, <1>3, <1>4, <1>5, <1>6

(* Close has seen the worker stop.                                           *)
LEMMA StoppedStep ==
  ASSUME SessionInv, SessionTypeOK', NEW c \in Callers, Stopped(c)
  PROVE  SessionInv'
  <1> USE SessionsApart
            DEF SessionInv, SessionTypeOK, Stopped, Go, Returns, CallPC, Results, WithinGate,
          InRequest, gateVars, closeVars, workerVars, boundVars
  <1>1. Serving'
    BY DEF Serving
  <1>2. CallingBack'
    BY DEF CallingBack, Serving
  <1>3. Gate'
    BY DEF Gate
  <1>4. Closing'
    BY DEF Serving, Gate, Closing
  <1>5. CloseIsFinal'
    BY DEF Gate, Closing, CloseIsFinal
  <1>6. Order'
    BY DEF CallingBack, Order
  <1> QED BY <1>1, <1>2, <1>3, <1>4, <1>5, <1>6

(* The caller leaves the gate.                                               *)
LEMMA UnlockStep ==
  ASSUME SessionInv, SessionTypeOK', NEW c \in Callers, Unlock(c)
  PROVE  SessionInv'
  <1> USE SessionsApart
            DEF SessionInv, SessionTypeOK, Unlock, Go, Returns, CallPC, Results, WithinGate, InRequest,
          closeVars, workerVars, boundVars
  <1>1. Serving'
    BY DEF Serving
  <1>2. CallingBack'
    BY DEF CallingBack, Serving
  <1>3. Gate'
    BY DEF Gate
  <1>4. Closing'
    BY DEF Serving, Gate, Closing
  <1>5. CloseIsFinal'
    BY DEF Gate, Closing, CloseIsFinal
  <1>6. Order'
    BY DEF CallingBack, Order
  <1> QED BY <1>1, <1>2, <1>3, <1>4, <1>5, <1>6

(* A callback starts: it is the youngest, and it waits for nobody yet.       *)
LEMMA StartCallbackStep ==
  ASSUME SessionInv, SessionTypeOK', NEW s \in Sessions, StartCallback(s)
  PROVE  SessionInv'
  <1> USE SessionsApart
            DEF SessionInv, SessionTypeOK, StartCallback, Go, Returns, CallPC, Results, WithinGate,
          InRequest, callerVars, gateVars, closeVars
  <1>1. Serving'
    BY DEF Serving
  <1>2. CallingBack'
    BY DEF CallingBack, Serving
  <1>3. Gate'
    BY DEF Gate
  <1>4. Closing'
    BY DEF Serving, Gate, Closing
  <1>5. CloseIsFinal'
    BY DEF Gate, Closing, CloseIsFinal
  <1>6. Order'
    BY DEF CallingBack, Order
  <1> QED BY <1>1, <1>2, <1>3, <1>4, <1>5, <1>6

(* A callback ends after its own calls.                                      *)
LEMMA EndCallbackStep ==
  ASSUME SessionInv, SessionTypeOK', NEW s \in Sessions, EndCallback(s)
  PROVE  SessionInv'
  <1> USE SessionsApart
            DEF SessionInv, SessionTypeOK, EndCallback, Go, Returns, CallPC, Results, WithinGate,
          InRequest, callerVars, gateVars, closeVars, boundVars
  <1>1. Serving'
    BY DEF Serving
  <1>2. CallingBack'
    BY DEF CallingBack, Serving
  <1>3. Gate'
    BY DEF Gate
  <1>4. Closing'
    BY DEF Serving, Gate, Closing
  <1>5. CloseIsFinal'
    BY DEF Gate, Closing, CloseIsFinal
  <1>6. Order'
    BY DEF CallingBack, Order
  <1> QED BY <1>1, <1>2, <1>3, <1>4, <1>5, <1>6

(* The request is answered; the one of Close frees the context.              *)
LEMMA ReplyStep ==
  ASSUME SessionInv, SessionTypeOK', NEW s \in Sessions, Reply(s)
  PROVE  SessionInv'
  <1> USE SessionsApart
            DEF SessionInv, SessionTypeOK, Reply, Go, Returns, CallPC, Results, WithinGate, InRequest,
          gateVars, closeVars, boundVars
  <1>1. Serving'
    BY DEF Serving
  <1>2. CallingBack'
    BY DEF CallingBack, Serving
  <1>3. Gate'
    BY DEF Serving, Gate
  <1>4. Closing'
    BY DEF Serving, Gate, Closing
  <1>5. CloseIsFinal'
    BY DEF Serving, Gate, Closing, CloseIsFinal
  <1>6. Order'
    BY DEF Serving, CallingBack, Order
  <1> QED BY <1>1, <1>2, <1>3, <1>4, <1>5, <1>6

(* The worker leaves once Close has closed the queue.                        *)
LEMMA WorkerExitsStep ==
  ASSUME SessionInv, SessionTypeOK', NEW s \in Sessions, WorkerExits(s)
  PROVE  SessionInv'
  <1> USE SessionsApart
            DEF SessionInv, SessionTypeOK, WorkerExits, Go, Returns, CallPC, Results, WithinGate,
          InRequest, callerVars, gateVars, closeVars, boundVars
  <1>1. Serving'
    BY DEF Serving
  <1>2. CallingBack'
    BY DEF CallingBack, Serving
  <1>3. Gate'
    BY DEF Gate
  <1>4. Closing'
    BY DEF Serving, Gate, Closing
  <1>5. CloseIsFinal'
    BY DEF Gate, Closing, CloseIsFinal
  <1>6. Order'
    BY DEF CallingBack, Order
  <1> QED BY <1>1, <1>2, <1>3, <1>4, <1>5, <1>6

(* Every step keeps the inductive invariant.                                 *)
LEMMA SessionInvStep == SessionInv /\ [SessionNext]_sessionVars => SessionInv'
  <1> SUFFICES ASSUME SessionInv, [SessionNext]_sessionVars PROVE SessionInv'
    OBVIOUS
  <1>1. SessionTypeOK'
    BY SessionTypeStep DEF SessionInv
  <1>2. ASSUME NEW c \in Callers, NEW s \in Sessions, NEW close \in BOOLEAN,
               Begin(c, s, close)
        PROVE SessionInv'
    BY <1>1, <1>2, BeginStep
  <1>3. ASSUME NEW c \in Callers, CallStep(c) PROVE SessionInv'
    BY <1>1, <1>3, LoadFlagStep, RLockStep, AnnounceLockStep, LockStep,
       AlreadyClosedStep, AdmitStep, HandoverStep, ReceiveStep, StoppedStep, UnlockStep
       DEF CallStep
  <1>4. ASSUME NEW s \in Sessions, StartCallback(s) \/ WorkerStep(s) PROVE SessionInv'
    BY <1>1, <1>4, StartCallbackStep, EndCallbackStep, ReplyStep, WorkerExitsStep
       DEF WorkerStep
  <1>5. CASE UNCHANGED sessionVars
    BY <1>1, <1>5 DEF SessionInv, Serving, CallingBack, Gate, Closing, CloseIsFinal, Order,
       sessionVars, callerVars, gateVars, closeVars, workerVars, boundVars
  <1> QED BY <1>2, <1>3, <1>4, <1>5 DEF SessionNext

(* Every reachable state satisfies the inductive invariant: what invoke,     *)
(* Close and runBootstrap keep between their locks, channels and flag.       *)
THEOREM Invariance == SessionSpec => []SessionInv
  BY InitSessionInv, SessionInvStep, PTL DEF SessionSpec

(* Every variable keeps its type: no session is served for a caller that     *)
(* does not exist, and Close returns its own native call's outcome.          *)
THEOREM SessionTypeCorrect == SessionSpec => []SessionTypeOK
  <1>1. SessionInv => SessionTypeOK
    BY DEF SessionInv
  <1> QED BY <1>1, Invariance, PTL

(* invoke never runs on a freed context and never sends to a closed queue.   *)
THEOREM CloseLast == SessionSpec => []CloseComesLast
  <1>1. SessionInv => CloseComesLast
    BY SessionsApart DEF SessionInv, SessionTypeOK, Serving, Closing, CloseComesLast, InRequest
  <1> QED BY <1>1, Invariance, PTL

(* When any Close returns, the worker is gone and the context freed.         *)
THEOREM CloseFinal == SessionSpec => []CloseIsFinal
  <1>1. SessionInv => CloseIsFinal
    BY DEF SessionInv
  <1> QED BY <1>1, Invariance, PTL

(* callbackActive keeps a callback from waiting for its own session.         *)
THEOREM SelfWaitFree == SessionSpec => []NoSelfWait
  <1>1. SessionInv => NoSelfWait
    BY SessionsApart DEF SessionInv, CallingBack, NoSelfWait, WaitsFor
  <1> QED BY <1>1, Invariance, PTL

(* callbackActive keeps the callbacks of any set of sessions, however many,  *)
(* from waiting for one another in a cycle: among them, the one that started *)
(* last waits for none.                                                      *)
THEOREM WaitCycleFree == SessionSpec => []NoWaitCycle
  <1>1. SessionInv => NoWaitCycle
    <2> SUFFICES ASSUME SessionInv, NEW S \in SUBSET Sessions, S # {}
                 PROVE  \E s \in S : \A t \in S : ~CallbackWaits(s, t)
      BY DEF NoWaitCycle
    <2>1. clock \in Nat /\ \A s \in Sessions : since[s] \in Nat /\ since[s] <= clock
      BY DEF SessionInv, SessionTypeOK, Order
    <2>2. \A s, t \in Sessions :
            CallbackWaits(s, t) /\ worker[t] = "callback" => since[s] < since[t]
      BY DEF SessionInv, Order, CallbackWaits, WaitsFor
    <2>3. PICK s \in S : \A t \in S : since[t] <= since[s]
      <3> DEFINE Ages == {clock - since[s] : s \in S}
                 Less == OpToRel(<, Nat)
      <3>1. Ages \subseteq Nat /\ Ages # {}
        BY <2>1
      <3>2. IsWellFoundedOn(Less, Nat)
        BY NatLessThanWellFounded
      <3>3. \E a \in Ages : \A b \in Ages : <<b, a>> \notin Less
        <4> HIDE DEF Ages, Less
        <4> QED BY <3>1, <3>2, WFMin
      <3>4. PICK a \in Ages : \A b \in Ages : ~(b < a)
        BY <3>1, <3>3 DEF OpToRel
      <3>5. PICK s \in S : a = clock - since[s]
        BY <3>4
      <3>6. \A t \in S : ~(clock - since[t] < clock - since[s])
        BY <3>4, <3>5
      <3> QED BY <2>1, <3>6
    <2>4. CASE \A t \in S : worker[t] = "callback"
      BY <2>1, <2>2, <2>3, <2>4
    <2>5. CASE \E t \in S : worker[t] # "callback"
      BY <2>5 DEF CallbackWaits
    <2> QED BY <2>4, <2>5
  <1> QED BY <1>1, Invariance, PTL
=============================================================================
