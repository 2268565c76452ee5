------------------------------- MODULE MCPool -------------------------------
(***************************************************************************)
(* Pool.tla over Egress.tla with two requests and two Seats beside the     *)
(* Window account, so connections can be kept, shared, cut and left over   *)
(* by one request while the other is at any of its awaits.                 *)
(***************************************************************************)
EXTENDS Pool
=============================================================================
