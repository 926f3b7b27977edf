------------------------------ MODULE MCServer ------------------------------
(***************************************************************************)
(* Instances of Server for TLC.  Three connections from two addresses      *)
(* against a limit of two sessions and one handshake make every rejection  *)
(* reason, address reuse and a full accept queue happen; connections are   *)
(* interchangeable.                                                        *)
(***************************************************************************)
EXTENDS Server, TLC

Symmetry == Permutations(Conns) \cup Permutations(Addrs)
=============================================================================
