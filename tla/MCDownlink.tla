----------------------------- MODULE MCDownlink -----------------------------
(***************************************************************************)
(* Instances of Downlink for TLC: two streams, three connections (so a     *)
(* stream is replaced while another lane is open), queues of two packets.  *)
(***************************************************************************)
EXTENDS Downlink, TLC

AnyHello    == [streamID : Streams, supportsReorder : BOOLEAN]
LegacyHello == [streamID : Streams, supportsReorder : {FALSE}]

Symmetry == Permutations(Conns)
=============================================================================
