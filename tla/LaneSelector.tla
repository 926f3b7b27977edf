---------------------------- MODULE LaneSelector ----------------------------
(***************************************************************************)
(* udpLaneSelector.choose (server/session_udp.go): which lane of a session *)
(* carries the next downlink packet.  A session whose lanes all advertise  *)
(* a reorder buffer is striped in bursts of StripeSize packets over the    *)
(* least loaded lanes; any other session is pinned to one lane.            *)
(*                                                                         *)
(* L describes the open lanes: choose treats an absent and a closed lane   *)
(* alike, so L is a function on the streams whose lane is open, giving the *)
(* depth of its queue and its reorder flag.  Time enters only through gap: *)
(* whether more than udpSessionFlowletGap passed since lastPacket.         *)
(*                                                                         *)
(* Writers shorten queues and stop() closes lanes while choose runs.  Its  *)
(* striped branch first looks for the minimum depth and then scans for a   *)
(* lane of exactly that depth, so it is two operators: choose may answer   *)
(* that a scan for minDepth is to follow, and scanLanes does it on the     *)
(* lanes as they are then.                                                 *)
(***************************************************************************)
EXTENDS Integers

CONSTANTS
    MaxStreams,   \* udpSessionMaxStreams (64)
    QueueSize,    \* udpSessionQueueSize (128)
    StripeSize    \* udpSessionStripeSize (16)

ASSUME SelectorConstants ==
    /\ MaxStreams \in Nat \ {0}
    /\ StripeSize \in Nat \ {0}
    /\ QueueSize \in Nat
    /\ StripeSize <= QueueSize

Streams  == 0 .. MaxStreams - 1
NoStream == -1      \* choose returned nil
NoScan   == -1      \* choose is done

OpenLane == [depth : 0 .. QueueSize, reorder : BOOLEAN]

Selector == [current : Streams, hasCurrent : BOOLEAN, remaining : 0 .. StripeSize - 1,
             cursor : Streams, seen : BOOLEAN]

\* The zero value of udpLaneSelector; seen says that lastPacket is not zero.
NewSelector == [current |-> 0, hasCurrent |-> FALSE, remaining |-> 0,
                cursor |-> 0, seen |-> FALSE]

Choice(stream, sel) == [stream |-> stream, sel |-> sel, minDepth |-> NoScan]

\* choose goes on to look for an open lane whose queue is depth long.
ScanFor(depth, sel) == [stream |-> NoStream, sel |-> sel, minDepth |-> depth]

\* How many places after the cursor stream s comes.
Offset(cursor, s) == (s - cursor + MaxStreams) % MaxStreams

\* The loops over offset: the first stream of S from the cursor on.
FirstFrom(cursor, S) ==
    CHOOSE s \in S : \A t \in S : Offset(cursor, s) <= Offset(cursor, t)

\* Faulty variant: the cursor does not wrap.
Take_NoWrap(sel, s, remaining) ==
    Choice(s, [sel EXCEPT !.cursor = s + 1, !.current = s,
                          !.hasCurrent = TRUE, !.remaining = remaining])

\* The assignments with which both scans take a lane.
Take(sel, s, remaining) ==
    Choice(s, [sel EXCEPT !.cursor = (s + 1) % MaxStreams, !.current = s,
                          !.hasCurrent = TRUE, !.remaining = remaining])

Forget(sel) == Choice(NoStream, [sel EXCEPT !.hasCurrent = FALSE])

WithRoom(L) == {s \in DOMAIN L : L[s].depth < QueueSize}

minimumDepth(L) ==
    CHOOSE d \in 0 .. QueueSize :
        /\ \E s \in DOMAIN L : L[s].depth = d
        /\ \A s \in DOMAIN L : d <= L[s].depth

canStripe(L) == \A s \in DOMAIN L : L[s].reorder

\* Faulty variant: a full pinned lane is left for another one.
choosePinned_Escapes(sel, L) ==
    IF sel.hasCurrent /\ sel.current \in WithRoom(L) THEN Choice(sel.current, sel)
    ELSE IF WithRoom(L) = {} THEN Forget(sel)
    ELSE Take(sel, FirstFrom(sel.cursor, WithRoom(L)), 0)

\* The branch for sessions with a lane that cannot reorder.
choosePinned(sel, L) ==
    IF sel.hasCurrent /\ sel.current \in DOMAIN L
    THEN Choice(IF L[sel.current].depth < QueueSize THEN sel.current ELSE NoStream, sel)
    ELSE IF WithRoom(L) = {} THEN Forget(sel)
    ELSE Take(sel, FirstFrom(sel.cursor, WithRoom(L)), 0)

\* A pause ends the current stripe; lastPacket becomes now.
afterGap(sel, gap) ==
    IF sel.seen /\ gap
    THEN [sel EXCEPT !.hasCurrent = FALSE, !.remaining = 0]
    ELSE [sel EXCEPT !.seen = TRUE]

\* Faulty variant: a stripe is continued whatever waits in its lane's queue.
chooseStriped_IgnoresDepth(sel, L) ==
    IF sel.hasCurrent /\ sel.remaining > 0 /\ sel.current \in DOMAIN L
    THEN Choice(sel.current, [sel EXCEPT !.remaining = @ - 1])
    ELSE IF minimumDepth(L) >= QueueSize THEN Forget(sel)
    ELSE ScanFor(minimumDepth(L), sel)

\* The branch that continues a stripe or starts one on a lane of minimum depth.
chooseStriped(sel, L) ==
    IF /\ sel.hasCurrent /\ sel.remaining > 0
       /\ sel.current \in DOMAIN L /\ L[sel.current].depth < StripeSize
    THEN Choice(sel.current, [sel EXCEPT !.remaining = @ - 1])
    ELSE IF minimumDepth(L) >= QueueSize THEN Forget(sel)
    ELSE ScanFor(minimumDepth(L), sel)

\* The second loop of the striped branch.
scanLanes(sel, L, depth) ==
    LET candidates == {s \in DOMAIN L : L[s].depth = depth} IN
    IF candidates = {} THEN Forget(sel)
    ELSE Take(sel, FirstFrom(sel.cursor, candidates), StripeSize - 1)

choose(sel, L, gap) ==
    IF DOMAIN L = {} THEN Forget(sel)
    ELSE IF canStripe(L) THEN chooseStriped(afterGap(sel, gap), L)
    ELSE choosePinned(sel, L)
=============================================================================
