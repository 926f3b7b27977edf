----------------------------- MODULE Connections -----------------------------
(***************************************************************************)
(* The incoming connections of the server.  A connection is one            *)
(* udpPacketConn of the listener and the DTLS connection made on it.       *)
(***************************************************************************)
EXTENDS FiniteSets

CONSTANT Conns   \* connections that may ever be made

ASSUME ConnsFinite == IsFiniteSet(Conns)
=============================================================================
