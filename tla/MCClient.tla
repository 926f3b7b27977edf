------------------------------ MODULE MCClient ------------------------------
(* Two streams and one handshake slot; two sessions with two TURN servers, *)
(* one of which fails; a connection over one of two sessions.              *)
EXTENDS Client

MCStreams == {0, 1}
MCPlans ==
    {[sessions |-> 0, servers |-> 1, flaky |-> {}, conns |-> 0, localErrors |-> FALSE],
     [sessions |-> 2, servers |-> 2, flaky |-> {0}, conns |-> 0, localErrors |-> FALSE],
     [sessions |-> 2, servers |-> 1, flaky |-> {}, conns |-> 1, localErrors |-> TRUE]}
=============================================================================
