---------------------------- MODULE MCUdpSession ----------------------------
(***************************************************************************)
(* Instances of UdpSession for TLC: one client with two streams and three  *)
(* connections, so that a lane is replaced or a session re-created while   *)
(* a third goroutine is still joining or leaving the old one.              *)
(***************************************************************************)
EXTENDS UdpSession, TLC

Symmetry == Permutations(Conns) \cup Permutations(Streams)
=============================================================================
