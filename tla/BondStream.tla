----------------------------- MODULE BondStream -----------------------------
(***************************************************************************)
(* What the two ends of a bonded TCP connection share: the frames, the     *)
(* smux streams ("lanes") that carry them and the reassembly loop, which   *)
(* server/main.go (copyBondToBackend) and pkg/clientcore/main.go           *)
(* (copyBondToTCP) both have.  Lane l is the stream opened on the client's *)
(* l-th candidate session; it is reliable and in order until its session   *)
(* fails, which loses what is under way.                                   *)
(***************************************************************************)
EXTENDS Integers, Sequences, FiniteSets

CONSTANTS
    NumLanes,    \* len(candidates), the laneCount of every hello
    QueueCap,    \* capacity of a recvCh (1024 in the code)
    Scenarios    \* what may happen to a connection: records with the bounds
                 \* up, down = chunks the local application and a backend
                 \* connection write, breaks = sessions that fail, and
                 \* events = which of AllEvents occur

AllEvents ==
    {"local eof", "local reset", "backend eof", "backend reset", "dial fails",
     "late lanes", "client stops", "server stops"}

ASSUME BondConstants ==
    /\ NumLanes \in Nat \ {0} /\ QueueCap \in Nat \ {0}
    /\ Scenarios \subseteq [up : Nat, down : Nat, breaks : Nat, events : SUBSET AllEvents]

Lanes == 1 .. NumLanes
NoFin == -1      \* finSeq = nil
Local == 0       \* the source of the chunks of the local application

VARIABLES
    env,         \* the scenario of this connection
    up, down,    \* what each lane still carries towards the server, the client
    broken,      \* lanes whose session has failed
    cclosed,     \* lanes the client has closed
    sclosed      \* lanes the server has closed

streamVars == <<env, broken, cclosed, sclosed>>
wireVars == <<up, down, streamVars>>

Chunk(src, n) == [src |-> src, n |-> n]
Chunks == [src : {Local} \cup Lanes, n : Nat]

HelloFrame   == [typ |-> "hello"]
TornFrame    == [typ |-> "torn"]     \* a header whose payload was not written
DataFrame(seq, data) == [typ |-> "data", seq |-> seq, data |-> data]
\* Faulty variant: the FIN carries the number of the last chunk.
FinFrame_LastSeq(seq) == [typ |-> "fin", seq |-> seq - 1]

FinFrame(seq) == [typ |-> "fin", seq |-> seq]

WireInit ==
    /\ env \in Scenarios
    /\ up = [l \in Lanes |-> <<>>]
    /\ down = [l \in Lanes |-> <<>>]
    /\ broken = {} /\ cclosed = {} /\ sclosed = {}

-----------------------------------------------------------------------------
(* Writing and reading one frame on one lane.  w is the lane's direction,  *)
(* own and peer the sides' sets of closed streams, late says that the side *)
(* has set the stream's deadline to now.                                   *)

Carried(w, l, f, peer) ==
    IF l \in broken \/ l \in peer THEN w ELSE [w EXCEPT ![l] = Append(@, f)]

\* Both Write calls of writeBondFrame succeed; on a lane that is gone the
\* frame may still be accepted and lost.
WriteFrame(w, l, f, own, peer) ==
    IF l \in own THEN {} ELSE {Carried(w, l, f, peer)}

\* One of the two Write calls fails: nothing is sent, or only the header.
WriteError(w, l, f, own, peer, late) ==
    IF ~(l \in broken \/ l \in own \/ l \in peer \/ late) THEN {}
    ELSE {w} \cup IF f.typ = "data" /\ l \notin own
                  THEN {Carried(w, l, TornFrame, peer)} ELSE {}

\* The loop that sends a FIN on the lanes ls and only logs errors: a lane that
\* may fail gets it or not.
WriteFinTo(w, ls, seq, own, peer, late) ==
    LET reached == {l \in ls : l \notin broken /\ l \notin own /\ l \notin peer}
        With(got) == [l \in Lanes |-> IF l \in got THEN Append(w[l], FinFrame(seq)) ELSE w[l]]
    IN  IF late THEN {With(got) : got \in SUBSET reached} ELSE {With(reached)}

\* readBondFrame has a whole frame to return.
HasFrame(w, l) == w[l] # <<>> /\ Head(w[l]).typ \in {"data", "fin"}

\* readBondFrame fails: the deadline or a local close ends it at once, the
\* other side's close and a failed session after what has arrived.
ReadError(w, l, own, peer, late) ==
    \/ late \/ l \in own
    \/ ~HasFrame(w, l) /\ (l \in broken \/ l \in peer)

Pop(w, l) == [w EXCEPT ![l] = Tail(@)]

\* Closing a stream discards what was not read from it.
Discard(w, ls) == [l \in Lanes |-> IF l \in ls THEN <<>> ELSE w[l]]

\* The session of lane l fails; some of what is under way still arrives.
BreakLane(l) ==
    /\ l \notin broken /\ Cardinality(broken) < env.breaks
    /\ broken' = broken \cup {l}
    /\ \E i \in 0 .. Len(up[l]), j \in 0 .. Len(down[l]) :
          /\ up' = [up EXCEPT ![l] = SubSeq(@, 1, i)]
          /\ down' = [down EXCEPT ![l] = SubSeq(@, 1, j)]
    /\ UNCHANGED <<env, cclosed, sclosed>>

-----------------------------------------------------------------------------
(* The reassembly loop as a record: pending, expect and finSeq of the      *)
(* code, out = what was written to the TCP connection, pc = run, finished  *)
(* (after closeWrite) or ended (any other return).                         *)

NewReceiver ==
    [pc |-> "run", pending |-> <<>>, expect |-> 0, fin |-> NoFin, out |-> <<>>]

Deliverable(r) == r.pc = "run" /\ r.expect \in DOMAIN r.pending
\* Faulty variant: a FIN ends the transfer whatever is still missing.
FinReached_AnyFin(r) == r.pc = "run" /\ ~Deliverable(r) /\ r.fin # NoFin

FinReached(r)  == r.pc = "run" /\ ~Deliverable(r) /\ r.fin = r.expect
Selecting(r)   == r.pc = "run" /\ ~Deliverable(r) /\ ~FinReached(r)

\* Faulty variant: chunks are taken in the order of their arrival.
Take_NoReorder(r, f) ==
    IF f.typ = "data" THEN [r EXCEPT !.pending = [s \in {r.expect} |-> f.data]]
    ELSE [r EXCEPT !.fin = IF @ = NoFin \/ f.seq < @ THEN f.seq ELSE @]

\* One frame from recvCh.
Take(r, f) ==
    IF f.typ = "data"
    THEN [r EXCEPT !.pending = [s \in DOMAIN @ \cup {f.seq} |->
                                   IF s = f.seq THEN f.data ELSE @[s]]]
    ELSE [r EXCEPT !.fin = IF @ = NoFin \/ f.seq < @ THEN f.seq ELSE @]

\* The function returns: its variables are gone, what it wrote stays written.
Returned(r, pc) == [NewReceiver EXCEPT !.pc = pc, !.out = r.out]

\* One turn of the inner loop: the next chunk is written.
Deliver(r) ==
    [r EXCEPT !.pending = [s \in DOMAIN @ \ {r.expect} |-> @[s]],
              !.out = Append(@, r.pending[r.expect]),
              !.expect = @ + 1]
=============================================================================
