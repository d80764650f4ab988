---------------------------- MODULE MCUdpTransport ----------------------------
(***************************************************************************)
(* UdpTransport, solo and pipelined, with enough exchanges for a reader,   *)
(* two in line for the baton and one on the socket that replaced theirs.   *)
(***************************************************************************)
EXTENDS UdpTransport
=============================================================================
