------------------------------ MODULE MCForward -----------------------------
(***************************************************************************)
(* Forward.tla with more exchanges than slots and more slots than turns,   *)
(* so both queues fill, and with two Seats and two sends, so one exchange  *)
(* may move on once.                                                       *)
(***************************************************************************)
EXTENDS Forward, TLC

Symmetry == Permutations(Exchanges) \union Permutations(Seats)
=============================================================================
