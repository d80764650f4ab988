---------------------------- MODULE MCConnection ----------------------------
(***************************************************************************)
(* Connection with callers that are alike, as far as no liveness is asked. *)
(***************************************************************************)
EXTENDS Connection, TLC

CallersAlike == Permutations(User)
=============================================================================
