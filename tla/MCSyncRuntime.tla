---------------------------- MODULE MCSyncRuntime ----------------------------
(***************************************************************************)
(* SyncRuntime with two calling threads, so that one can be suspended, or  *)
(* late, while the other is answered.                                      *)
(***************************************************************************)
EXTENDS SyncRuntime
=============================================================================
