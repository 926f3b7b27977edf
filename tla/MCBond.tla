------------------------------- MODULE MCBond -------------------------------
(***************************************************************************)
(* Instances of Bond for TLC: two sessions, short queues, a few chunks.    *)
(***************************************************************************)
EXTENDS Bond

Scenario(u, d, b, e) == [up |-> u, down |-> d, breaks |-> b, events |-> e]

\* A session fails during an upload or a download of two chunks, a TCP peer
\* resets its connection, an end is stopped while it writes.
Transfers ==
    {Scenario(2, 0, 1, {"local eof", "late lanes"}),
     Scenario(0, 2, 1, {"backend eof"}),
     Scenario(0, 1, 0, {"local reset"}),
     Scenario(0, 0, 0, {"backend reset"}),
     Scenario(1, 0, 0, {"client stops"}),
     Scenario(0, 1, 0, {"server stops"})}

\* Ways a connection ends, with little to transfer.
Endings ==
    {Scenario(0, 1, 0, {"backend eof"}),
     Scenario(0, 0, 0, {"client stops"}),
     Scenario(0, 0, 1, {"dial fails", "late lanes"})}

\* The first lane's connection may be over before the second lane's hello.
LateLane == {Scenario(0, 2, 0, {"backend eof", "late lanes"})}
=============================================================================
