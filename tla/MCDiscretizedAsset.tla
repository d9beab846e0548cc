------------------------- MODULE MCDiscretizedAsset -------------------------
(* Swaps of three coupons before, over and after today, some of them tagged  *)
(* for the post-adjustment; exercises on, between and beyond their dates; a  *)
(* grid that goes one node beyond the last payment.                          *)
EXTENDS DiscretizedAsset

C(reset, pay, pass) == [reset |-> reset, pay |-> pay, pass |-> pass]

\* Begun and paid; begun and paid today; begun, paid at the last node, as the
\* only one; all of them to come; overlapping legs.
MCLegs ==
  { << C(-2, -1, "pre"), C(-1, 1, "pre"), C(1, 3, "pre") >>,
    << C(-1, 0, "pre"), C(0, 2, "post"), C(2, 3, "pre") >>,
    << C(-1, 3, "pre") >>,
    << C(1, 2, "pre"), C(2, 3, "post") >>,
    << C(0, 1, "pre"), C(-1, 2, "pre"), C(1, 3, "pre"), C(1, 3, "post") >> }

MCExercises ==
  { <<"Bermudan", <<2>>>>, <<"Bermudan", <<-1, 0, 2>>>>, <<"Bermudan", <<1, 2, 2, 3>>>>,
    <<"Bermudan", <<4>>>>, <<"Bermudan", <<-1>>>>,
    <<"American", <<0, 2>>>>, <<"American", <<1, 3>>>>, <<"American", <<-1, 2>>>> }

MCDeals ==
  { [coupons |-> leg, lastPayment |-> 3, style |-> e[1], exercise |-> e[2],
     includeTodays |-> todays, includeEvents |-> events] :
      leg \in MCLegs, e \in MCExercises, todays \in {"unset", "yes", "no"}, events \in BOOLEAN }
=============================================================================
