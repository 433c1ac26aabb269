--------------------------- MODULE MCTokenManager ---------------------------
(***************************************************************************)
(* A small instance of TokenManager.                                       *)
(***************************************************************************)
EXTENDS TokenManager, TLC

=============================================================================
