----------------------------- MODULE CachedValue -----------------------------
(***************************************************************************)
(* What a lazy object promises its readers, without flags, calls or        *)
(* notifications: a reader that has an answer and has not been told        *)
(* otherwise holds the answer of the present inputs, unless the answers    *)
(* are pinned.                                                             *)
(***************************************************************************)
EXTENDS Naturals

CONSTANT Versions        \* versions of the inputs

VARIABLES input,         \* the version the inputs have
          answer,        \* what the reader holds, 0 once told it is stale
          pinned         \* answers are pinned, the reader is told nothing

Init == input \in Versions /\ answer = 0 /\ pinned \in BOOLEAN

Change ==
    /\ input' \in Versions
    /\ answer' \in IF pinned THEN {answer, 0} ELSE {0}
    /\ UNCHANGED pinned

Answer ==
    /\ answer' \in IF pinned THEN Versions \cup {0} ELSE {0, input}
    /\ UNCHANGED <<input, pinned>>

Pin == pinned' = TRUE /\ UNCHANGED <<input, answer>>

Unpin == pinned' = FALSE /\ answer' = 0 /\ UNCHANGED input

Next == Change \/ Answer \/ Pin \/ Unpin

Spec == Init /\ [][Next]_<<input, answer, pinned>>

(* The answer held is the present one.                                      *)
AnswerIsCurrent == ~pinned /\ answer # 0 => answer = input
=============================================================================
