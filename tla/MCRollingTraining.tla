------------------------- MODULE MCRollingTraining -------------------------
(***************************************************************************)
(* Rolling training over nine days: one symbol always trades, the other    *)
(* may miss one day and be halted on another.                              *)
(***************************************************************************)
EXTENDS RollingTraining

Full == [d \in Days |-> "traded"]
Series ==
  {Full} \cup
  {[Full EXCEPT ![gap] = "none", ![halt] = "halted"] : gap \in Days, halt \in 4..6}

MCStores == {[s \in Symbols |-> IF s = "index" THEN Full ELSE row] : row \in Series}

Base == [train |-> 2, valid |-> 1, step |-> 2, horizon |-> 1,
         embargo |-> Unset, first |-> 5, last |-> 9]

MCConfigs ==
  {Base,
   [Base EXCEPT !.step = 1, !.first = 7, !.last = 10],
   [Base EXCEPT !.horizon = 2, !.train = 4, !.first = 9],
   [Base EXCEPT !.embargo = 0, !.first = 4, !.last = 8, !.step = 1],
   [Base EXCEPT !.step = 0]}
=============================================================================
