------------------------------- MODULE MCGate -------------------------------
(***************************************************************************)
(* Gate.tla on four callers and two turns: two may be in flight, and two   *)
(* more may queue behind them, be woken and be overtaken.                  *)
(***************************************************************************)
EXTENDS Gate
=============================================================================
