----------------------------- MODULE TcpStream -----------------------------
(***************************************************************************)
(* What a forwarded TCP connection promises for one direction: sinks are   *)
(* written the chunks of the source in order, each once, and are told that *)
(* the stream is complete only when the source has ended it and they have  *)
(* all of it.  A sink may also be cut off at any time.                     *)
(***************************************************************************)
EXTENDS Naturals, Sequences

CONSTANT Sinks

VARIABLES
    sent,         \* the chunks the source has sent
    sourceEnded,  \* it sends no more
    delivered,    \* the chunks each sink was written
    sink          \* "run", "finished" (told that it has all) or "ended" (cut off)

vars == <<sent, sourceEnded, delivered, sink>>

Init ==
    /\ sent = <<>> /\ sourceEnded = FALSE
    /\ delivered = [k \in Sinks |-> <<>>]
    /\ sink = [k \in Sinks |-> "run"]

\* One more chunk, which may be the last one.
Send ==
    /\ ~sourceEnded /\ sourceEnded' \in BOOLEAN
    /\ Len(sent') = Len(sent) + 1 /\ SubSeq(sent', 1, Len(sent)) = sent
    /\ UNCHANGED <<delivered, sink>>

EndSource ==
    /\ ~sourceEnded /\ sourceEnded'
    /\ UNCHANGED <<sent, delivered, sink>>

Deliver(k) ==
    /\ sink[k] = "run" /\ Len(delivered[k]) < Len(sent)
    /\ delivered' = [delivered EXCEPT ![k] = Append(@, sent[Len(@) + 1])]
    /\ UNCHANGED <<sent, sourceEnded, sink>>

Finish(k) ==
    /\ sink[k] = "run" /\ sourceEnded /\ delivered[k] = sent
    /\ sink' = [sink EXCEPT ![k] = "finished"]
    /\ UNCHANGED <<sent, sourceEnded, delivered>>

CutOff(k) ==
    /\ sink[k] = "run"
    /\ sink' = [sink EXCEPT ![k] = "ended"]
    /\ UNCHANGED <<sent, sourceEnded, delivered>>

Next == Send \/ EndSource \/ \E k \in Sinks : Deliver(k) \/ Finish(k) \/ CutOff(k)

Spec == Init /\ [][Next]_vars
=============================================================================
