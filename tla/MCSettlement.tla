---------------------------- MODULE MCSettlement ----------------------------
(***************************************************************************)
(* Model checking of Settlement: one case meets everything, the others are *)
(* what may wait before it and behind it.                                  *)
(***************************************************************************)
EXTENDS Settlement

Busy == CHOOSE c \in Cases : TRUE

OneBusyCase == [c \in Cases |-> IF c = Busy THEN AllServices ELSE {"operator"}]
=============================================================================
