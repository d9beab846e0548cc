---------------------------- MODULE MCLazyObject ----------------------------
(* The two largest kinds of foreign code LazyObject's promises hold for: one  *)
(* that does anything but change an input of the object it is told about,     *)
(* with a computation that reads back; and one that changes inputs, freezes,  *)
(* unfreezes and invalidates, in notifications and in the computation too.    *)
EXTENDS LazyObject

MCForeign ==
    { [observer |-> Ops \ {"change"}, perform |-> {"read", "mark", "invalidate"},
       panics |-> TRUE],
      [observer |-> {"change", "freeze", "unfreeze", "invalidate"},
       perform |-> {"change", "freeze", "unfreeze", "invalidate"}, panics |-> TRUE] }

ASSUME ForeignCodeIsDisciplined == Disciplined
=============================================================================
