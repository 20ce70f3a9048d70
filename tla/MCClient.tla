------------------------------ MODULE MCClient ------------------------------
(***************************************************************************)
(* Client for TLC: tokens that last two ticks and are renewed one tick     *)
(* before their end.                                                       *)
(***************************************************************************)
EXTENDS Client
=============================================================================
