------------------------------ MODULE Downlink ------------------------------
(***************************************************************************)
(* The downlink of one aggregated UDP session (server/session_udp.go): the *)
(* backend reader puts every packet into the queue of the lane that choose *)
(* selects (readBackend, enqueueDownlink), and one writer goroutine per    *)
(* lane puts them on its connection (writeLane), while handlers add, stop, *)
(* replace and remove lanes (see UdpSession.tla for their full life).      *)
(* Packets are numbered in the order the backend sent them.                *)
(***************************************************************************)
EXTENDS Connections, LaneSelector, Sequences

CONSTANTS
    Hellos,      \* the prefaces clients send: [streamID, supportsReorder]
    MaxPackets,  \* bound: packets the backend sends
    None         \* nil

ASSUME DownlinkConstants ==
    /\ None \notin Conns \cup Hellos
    /\ MaxPackets \in Nat
    /\ \A h \in Hellos : h.streamID \in Streams /\ h.supportsReorder \in BOOLEAN

VARIABLES
    hello,       \* the preface of each lane, None before addLane
    laneOf,      \* s.lanes
    lane,        \* none, open, stopped, removed (its handler has returned)
    out,         \* l.out
    writer,      \* none, select, writing, done
    inHand,      \* the packet a writer is writing, 0 = none
    sel,         \* s.selector
    scan,        \* the depth choose scans for, NoScan outside of its second loop
    fromBackend, \* packets the backend has sent
    cancelled,   \* s.ctx is cancelled
    lastWritten, \* history: the latest packet put on a lane without reorder buffer
    reordered    \* history: such a lane carried an earlier packet after a later one

laneVars == <<hello, laneOf, lane>>
wireVars == <<lastWritten, reordered>>
vars == <<laneVars, out, writer, inHand, sel, scan, fromBackend, cancelled, wireVars>>

Init ==
    /\ hello = [c \in Conns |-> None]
    /\ laneOf = [i \in Streams |-> None]
    /\ lane = [c \in Conns |-> "none"]
    /\ out = [c \in Conns |-> <<>>]
    /\ writer = [c \in Conns |-> "none"]
    /\ inHand = [c \in Conns |-> 0]
    /\ sel = NewSelector
    /\ scan = NoScan
    /\ fromBackend = 0
    /\ cancelled = FALSE
    /\ lastWritten = 0
    /\ reordered = FALSE

-----------------------------------------------------------------------------
(* Lanes come and go.                                                      *)

\* enqueueDownlink holds session.mu while choose runs.
MuFree == scan = NoScan

\* lane.stop() for the lanes in S.
Stopped(S) == [c \in Conns |-> IF c \in S /\ lane[c] = "open" THEN "stopped" ELSE lane[c]]

\* addLane: the previous lane of the stream is stopped, a writer starts.
AddLane(c, h) ==
    /\ lane[c] = "none"
    /\ MuFree
    /\ ~cancelled
    /\ lane' = [Stopped({laneOf[h.streamID]}) EXCEPT ![c] = "open"]
    /\ laneOf' = [laneOf EXCEPT ![h.streamID] = c]
    /\ hello' = [hello EXCEPT ![c] = h]
    /\ writer' = [writer EXCEPT ![c] = "select"]
    /\ UNCHANGED <<out, inHand, sel, scan, fromBackend, cancelled, wireVars>>

\* The handler's read ended: removeLane calls stop().
StopLane(c) ==
    /\ lane[c] = "open"
    /\ lane' = Stopped({c})
    /\ UNCHANGED <<hello, laneOf, out, writer, inHand, sel, scan, fromBackend, cancelled, wireVars>>

\* removeLane frees the slot; the handler returns and its connection is closed.
RemoveLane(c) ==
    /\ lane[c] = "stopped"
    /\ MuFree
    /\ lane' = [lane EXCEPT ![c] = "removed"]
    /\ laneOf' = [i \in Streams |-> IF laneOf[i] = c THEN None ELSE laneOf[i]]
    /\ UNCHANGED <<hello, out, writer, inHand, sel, scan, fromBackend, cancelled, wireVars>>

\* close(): s.cancel(), by the last lane that left or by a failed backend read.
CloseCancel ==
    /\ ~cancelled
    /\ \E c \in Conns : lane[c] # "none"
    /\ cancelled' = TRUE
    /\ UNCHANGED <<laneVars, out, writer, inHand, sel, scan, fromBackend, wireVars>>

\* close(): every lane is stopped and s.lanes emptied.
CloseClear ==
    /\ cancelled
    /\ MuFree
    /\ \E i \in Streams : laneOf[i] # None
    /\ lane' = Stopped({laneOf[i] : i \in Streams})
    /\ laneOf' = [i \in Streams |-> None]
    /\ UNCHANGED <<hello, out, writer, inHand, sel, scan, fromBackend, cancelled, wireVars>>

-----------------------------------------------------------------------------
(* readBackend and enqueueDownlink.                                        *)

\* The lanes choose looks at: those in s.lanes that are not closed.
OpenStreams == {i \in Streams : laneOf[i] # None /\ lane[laneOf[i]] = "open"}

OpenLanes ==
    [i \in OpenStreams |-> [depth   |-> Len(out[laneOf[i]]),
                            reorder |-> hello[laneOf[i]].supportsReorder]]

\* Put the packet into the queue of the chosen lane; one that no lane takes is dropped.
Place(stream) ==
    /\ fromBackend' = fromBackend + 1
    /\ out' = IF stream = NoStream
              THEN out
              ELSE [out EXCEPT ![laneOf[stream]] =
                        IF Len(@) < QueueSize THEN Append(@, fromBackend + 1) ELSE @]

\* The next packet of the backend, which may still be in hand when close() has begun.
\* session.mu is kept if choose has to scan the lanes once more.
EnqueueDownlink(gap) ==
    LET choice == choose(sel, OpenLanes, gap) IN
    /\ MuFree
    /\ fromBackend < MaxPackets
    /\ \E c \in Conns : lane[c] # "none"
    /\ sel' = choice.sel
    /\ scan' = choice.minDepth
    /\ IF choice.minDepth = NoScan
       THEN Place(choice.stream)
       ELSE UNCHANGED <<out, fromBackend>>
    /\ UNCHANGED <<laneVars, writer, inHand, cancelled, wireVars>>

\* The second loop of choose, and the rest of enqueueDownlink.
ScanLanes ==
    LET choice == scanLanes(sel, OpenLanes, scan) IN
    /\ ~MuFree
    /\ sel' = choice.sel
    /\ scan' = NoScan
    /\ Place(choice.stream)
    /\ UNCHANGED <<laneVars, writer, inHand, cancelled, wireVars>>

-----------------------------------------------------------------------------
(* writeLane.                                                              *)

\* The select receives a packet; it may do so even when lane.ctx is done.
WriterTakes(c) ==
    /\ writer[c] = "select"
    /\ out[c] # <<>>
    /\ inHand' = [inHand EXCEPT ![c] = Head(out[c])]
    /\ out' = [out EXCEPT ![c] = Tail(@)]
    /\ writer' = [writer EXCEPT ![c] = "writing"]
    /\ UNCHANGED <<laneVars, sel, scan, fromBackend, cancelled, wireVars>>

\* lane.write succeeds.  It sets a write deadline of its own, so a stop() before it does
\* not make it fail; it needs the connection, which is closed when the handler returns.
WriteSucceeds(c) ==
    /\ writer[c] = "writing"
    /\ lane[c] # "removed"
    /\ IF hello[c].supportsReorder
       THEN UNCHANGED wireVars
       ELSE /\ lastWritten' = IF inHand[c] > lastWritten THEN inHand[c] ELSE lastWritten
            /\ reordered' = (reordered \/ inHand[c] < lastWritten)
    /\ inHand' = [inHand EXCEPT ![c] = 0]
    /\ writer' = [writer EXCEPT ![c] = "select"]
    /\ UNCHANGED <<laneVars, out, sel, scan, fromBackend, cancelled>>

\* lane.write fails: the writer stops the lane and returns, leaving its queue.
WriteFails(c) ==
    /\ writer[c] = "writing"
    /\ lane' = Stopped({c})
    /\ inHand' = [inHand EXCEPT ![c] = 0]
    /\ writer' = [writer EXCEPT ![c] = "done"]
    /\ UNCHANGED <<hello, laneOf, out, sel, scan, fromBackend, cancelled, wireVars>>

\* The select sees lane.ctx done: the queue is drained and the writer returns.
WriterStops(c) ==
    /\ writer[c] = "select"
    /\ lane[c] # "open" \/ cancelled
    /\ out' = [out EXCEPT ![c] = <<>>]
    /\ writer' = [writer EXCEPT ![c] = "done"]
    /\ UNCHANGED <<laneVars, inHand, sel, scan, fromBackend, cancelled, wireVars>>

\* Every lane is gone and every writer has returned.
Finished ==
    /\ \A c \in Conns : lane[c] \in {"none", "removed"} /\ writer[c] \in {"none", "done"}
    /\ UNCHANGED vars

Next ==
    \/ \E c \in Conns, h \in Hellos : AddLane(c, h)
    \/ \E c \in Conns : StopLane(c) \/ RemoveLane(c)
    \/ CloseCancel \/ CloseClear
    \/ \E gap \in BOOLEAN : EnqueueDownlink(gap)
    \/ ScanLanes
    \/ \E c \in Conns : WriterTakes(c) \/ WriteSucceeds(c) \/ WriteFails(c) \/ WriterStops(c)
    \/ Finished

Spec == Init /\ [][Next]_vars

-----------------------------------------------------------------------------
\* Types; in particular a queue never exceeds its capacity and the selector its ranges
\* (session_udp.go:187-193, 316).
TypeOK ==
    /\ hello \in [Conns -> Hellos \cup {None}]
    /\ laneOf \in [Streams -> Conns \cup {None}]
    /\ lane \in [Conns -> {"none", "open", "stopped", "removed"}]
    /\ out \in [Conns -> Seq(1 .. MaxPackets)]
    /\ \A c \in Conns : Len(out[c]) <= QueueSize
    /\ writer \in [Conns -> {"none", "select", "writing", "done"}]
    /\ inHand \in [Conns -> 0 .. MaxPackets]
    /\ sel \in Selector
    /\ scan \in 0 .. QueueSize - 1 \cup {NoScan}
    /\ fromBackend \in 0 .. MaxPackets
    /\ lastWritten \in 0 .. MaxPackets
    /\ cancelled \in BOOLEAN /\ reordered \in BOOLEAN

\* No lane of the session has a reorder buffer.
Legacy == \A c \in Conns : hello[c] # None => ~hello[c].supportsReorder

(***************************************************************************)
(* Clients without a reorder buffer (session_udp.go:210): among the open   *)
(* lanes of such a session at most one has packets waiting, however lanes  *)
(* are added, replaced, filled up and lost.                                *)
(***************************************************************************)
LegacyBacklogOnOneLane ==
    Legacy => \A i, j \in OpenStreams :
                 out[laneOf[i]] # <<>> /\ out[laneOf[j]] # <<>> => i = j

(***************************************************************************)
(* In such a session a packet that overtakes nothing on its own lane can   *)
(* reach the wire late only over a lane that was stopped: lanes that stay  *)
(* open keep the order of the backend.                                     *)
(***************************************************************************)
WroteOn(c) == writer[c] = "writing" /\ writer'[c] = "select"

LegacyInOrderWhileOpen ==
    [][\A c \in Conns : Legacy /\ WroteOn(c) /\ lane[c] = "open" => inHand[c] > lastWritten]_vars

(***************************************************************************)
(* Where a downlink packet goes (session_udp.go:378-398).  It is dropped   *)
(* only if no open lane has room, if the pinned lane of a legacy session   *)
(* is full, or if every lane that had the shortest queue was written from  *)
(* or stopped while choose was between its two loops; in a striped session *)
(* it goes to a lane that had a shortest queue, or to one whose backlog is *)
(* still shorter than a stripe.                                            *)
(***************************************************************************)
Placement ==
    LET L == OpenLanes
        taken == {i \in DOMAIN L : out'[laneOf[i]] # out[laneOf[i]]}
        shortest == {i \in DOMAIN L : scan # NoScan /\ L[i].depth = scan} IN
    /\ taken = {} =>
          \/ WithRoom(L) = {}
          \/ ~canStripe(L) /\ sel.hasCurrent /\ sel.current \in DOMAIN L \ WithRoom(L)
          \/ scan # NoScan /\ shortest = {}
    /\ canStripe(L) =>
          \A i \in taken : i \in shortest \/ L[i].depth < StripeSize

DownlinkPlacement == [][fromBackend' # fromBackend => Placement]_vars

(***************************************************************************)
(* "pinning downlink to one lane so the server cannot introduce a new      *)
(* source of packet reordering" (session_udp.go:212-213).                  *)
(***************************************************************************)
LegacyDownlinkInOrder == Legacy => ~reordered
=============================================================================
