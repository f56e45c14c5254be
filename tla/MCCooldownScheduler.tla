-------------------------- MODULE MCCooldownScheduler --------------------------
(***************************************************************************)
(* A market stage and an event stage, as in --stages daily,forecast.       *)
(***************************************************************************)
EXTENDS CooldownScheduler

MCStages == <<"daily", "forecast">>
=============================================================================
