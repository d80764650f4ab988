---------------------------- MODULE MCSupervisor ----------------------------
(***************************************************************************)
(* Supervisor with two CPUs, two attempts and one task in wait_ready(), in *)
(* fair weather, with handshakes that are refused, and with everything the *)
(* environment may do.                                                     *)
(***************************************************************************)
EXTENDS Supervisor
=============================================================================
