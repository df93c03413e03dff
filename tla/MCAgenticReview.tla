--------------------------- MODULE MCAgenticReview ---------------------------
(* AgenticReview with two groups of one criterion and two surfaces: four   *)
(* units, and budgets that end before, in and after the last of them.      *)
EXTENDS AgenticReview

MCSurfaces == <<"login", "home">>
MCBatches  == <<{"meaning"}, {"focus"}>>
=============================================================================
