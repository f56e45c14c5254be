-------------------------- MODULE MCBacktestEngine --------------------------
(***************************************************************************)
(* Small instances of BacktestEngine: three stocks, at most two held, a    *)
(* few days, prices that halve or double.                                  *)
(***************************************************************************)
EXTENDS BacktestEngine

MCStocks == 1..3
MCScores == {1, 2}
MCReturns == {-50, 100}
MCSignals == {0 - 2, 0 - 1, 1}
MCForceExit == 0 - 2
MCExit == 0 - 1
=============================================================================
