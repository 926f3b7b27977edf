----------------------------- MODULE BondClient -----------------------------
(***************************************************************************)
(* The client's end of one bonded TCP connection: handleBondedTCP of       *)
(* pkg/clientcore/main.go with its lane readers, copyTCPToBond and         *)
(* copyBondToTCP.                                                          *)
(***************************************************************************)
EXTENDS BondStream

VARIABLES
    chandler,    \* handleBondedTCP: opening, copying, closed
    cand,        \* the candidate session the opening loop is at
    lanes,       \* the lanes opened
    dead,        \* lanes with the dead flag set
    cctx,        \* ctx is cancelled
    cread,       \* lanes whose reader goroutine runs
    crecv,       \* recvCh
    csend,       \* copyTCPToBond: pc (none, read, write, fin, done), seq,
                 \*   laneIdx (modulo len(lanes)), attempts
    crcv,        \* copyBondToTCP
    local        \* the local TCP connection: open, reset

openVars == <<chandler, cand, lanes>>
clientVars == <<openVars, dead, cctx, cread, crecv, csend, crcv, local>>

\* copyTCPToBond before it starts and after it returned: seq stays as history.
ClientSender(pc, seq) ==
    [pc |-> pc, seq |-> seq, laneIdx |-> 0, attempts |-> 0]

ClientInit ==
    /\ chandler = "opening" /\ cand = 1 /\ lanes = <<>>
    /\ dead = {} /\ cctx = FALSE /\ cread = {} /\ crecv = <<>>
    /\ csend = ClientSender("none", 0)
    /\ crcv = NewReceiver
    /\ local = "open"

LaneSet == {lanes[i] : i \in DOMAIN lanes}

\* The loop over the candidates: a failed session is skipped, or takes the
\* hello without ever delivering it.
OpenLane ==
    /\ chandler = "opening" /\ cand <= NumLanes
    /\ cand' = cand + 1
    /\ \/ cand \in broken /\ UNCHANGED <<lanes, up>>
       \/ /\ lanes' = Append(lanes, cand)
          /\ up' = Carried(up, cand, HelloFrame, sclosed)
    /\ UNCHANGED <<chandler, dead, cctx, cread, crecv, csend, crcv, local, down, streamVars>>

\* Without a lane the TCP connection is rejected, otherwise readers and both
\* copies start.
StartCopying ==
    /\ chandler = "opening" /\ cand > NumLanes
    /\ IF lanes = <<>>
       THEN chandler' = "closed" /\ cctx' = TRUE /\ UNCHANGED <<cread, csend>>
       ELSE /\ chandler' = "copying" /\ cread' = LaneSet
            /\ csend' = [csend EXCEPT !.pc = "read"]
            /\ UNCHANGED cctx
    /\ UNCHANGED <<cand, lanes, dead, crecv, crcv, local, wireVars>>

-----------------------------------------------------------------------------
(* copyTCPToBond                                                           *)

ReadLocalChunk ==
    /\ csend.pc = "read" /\ local = "open" /\ csend.seq < env.up
    /\ csend' = [csend EXCEPT !.pc = "write"]
    /\ UNCHANGED <<openVars, dead, cctx, cread, crecv, crcv, local, wireVars>>

\* End of file or an error: either way a FIN is sent.
ReadLocalEnds ==
    /\ csend.pc = "read"
    /\ "local eof" \in env.events \/ local = "reset" \/ cctx
    /\ csend' = [csend EXCEPT !.pc = "fin"]
    /\ UNCHANGED <<openVars, dead, cctx, cread, crecv, crcv, local, wireVars>>

\* Faulty variant: a failed write is not noticed.
WriteToLane_IgnoresError ==
    /\ csend.pc = "write" /\ csend.attempts < Len(lanes)
    /\ LET l == lanes[csend.laneIdx + 1]
           f == DataFrame(csend.seq, Chunk(Local, csend.seq))
       IN /\ up' \in WriteFrame(up, l, f, cclosed, sclosed)
                    \cup WriteError(up, l, f, cclosed, sclosed, cctx)
          /\ csend' = [csend EXCEPT !.laneIdx = (@ + 1) % Len(lanes), !.pc = "read", !.seq = @ + 1]
    /\ UNCHANGED <<openVars, dead, cctx, cread, crecv, crcv, local, down, streamVars>>

\* One attempt of writeBondFrameToNextLane.
WriteToLane ==
    /\ csend.pc = "write" /\ csend.attempts < Len(lanes)
    /\ LET l == lanes[csend.laneIdx + 1]
           f == DataFrame(csend.seq, Chunk(Local, csend.seq))
           tried == [csend EXCEPT !.laneIdx = (@ + 1) % Len(lanes), !.attempts = @ + 1]
       IN \/ l \in dead /\ csend' = tried /\ UNCHANGED <<dead, up>>
          \/ /\ l \notin dead
             /\ up' \in WriteFrame(up, l, f, cclosed, sclosed)
             /\ csend' = IF cctx THEN ClientSender("done", csend.seq + 1)
                         ELSE [tried EXCEPT !.pc = "read", !.seq = @ + 1, !.attempts = 0]
             /\ UNCHANGED dead
          \/ /\ l \notin dead
             /\ up' \in WriteError(up, l, f, cclosed, sclosed, cctx)
             /\ dead' = dead \cup {l}
             /\ csend' = IF cctx THEN ClientSender("done", csend.seq) ELSE tried
    /\ UNCHANGED <<openVars, cctx, cread, crecv, crcv, local, down, streamVars>>

\* "no live bond lanes": the upload ends without FIN, the download goes on.
NoLiveLanes ==
    /\ csend.pc = "write" /\ csend.attempts = Len(lanes)
    /\ csend' = ClientSender("done", csend.seq)
    /\ UNCHANGED <<openVars, dead, cctx, cread, crecv, crcv, local, wireVars>>

\* The FIN loop over the lanes not marked dead.
WriteFin ==
    /\ csend.pc = "fin"
    /\ up' \in WriteFinTo(up, LaneSet \ dead, csend.seq, cclosed, sclosed, cctx)
    /\ csend' = ClientSender("done", csend.seq)
    /\ UNCHANGED <<openVars, dead, cctx, cread, crecv, crcv, local, down, streamVars>>

-----------------------------------------------------------------------------
(* The readers and copyBondToTCP                                           *)

\* Faulty variant: a frame that finds recvCh full is dropped.
ReadLaneFrame_DropsWhenFull(l) ==
    /\ l \in cread /\ HasFrame(down, l)
    /\ down' = Pop(down, l)
    /\ crecv' = IF Len(crecv) < QueueCap THEN Append(crecv, Head(down[l])) ELSE crecv
    /\ UNCHANGED <<openVars, dead, cctx, cread, csend, crcv, local, up, streamVars>>

ReadLaneFrame(l) ==
    /\ l \in cread /\ HasFrame(down, l)
    /\ down' = Pop(down, l)
    /\ \/ /\ Len(crecv) < QueueCap
          /\ crecv' = Append(crecv, Head(down[l])) /\ UNCHANGED cread
       \/ cctx /\ cread' = cread \ {l} /\ UNCHANGED crecv
    /\ UNCHANGED <<openVars, dead, cctx, csend, crcv, local, up, streamVars>>

\* Faulty variant: the first reader that ends cancels the connection.
ReadLaneEnds_Cancels(l) ==
    /\ l \in cread /\ ReadError(down, l, cclosed, sclosed, cctx)
    /\ cread' = cread \ {l} /\ dead' = dead \cup {l} /\ cctx' = TRUE
    /\ UNCHANGED <<openVars, crecv, csend, crcv, local, wireVars>>

ReadLaneEnds(l) ==
    /\ l \in cread /\ ReadError(down, l, cclosed, sclosed, cctx)
    /\ cread' = cread \ {l} /\ dead' = dead \cup {l}
    /\ UNCHANGED <<openVars, cctx, crecv, csend, crcv, local, wireVars>>

\* copyBondToTCP returns and its goroutine cancels the connection.
ReturnDownload(pc) == crcv' = Returned(crcv, pc) /\ cctx' = TRUE

ReceiveDown ==
    /\ chandler = "copying" /\ Selecting(crcv)
    /\ \/ /\ crecv # <<>>
          /\ crcv' = Take(crcv, Head(crecv)) /\ crecv' = Tail(crecv)
          /\ UNCHANGED cctx
       \/ (cctx \/ (crecv = <<>> /\ cread = {})) /\ ReturnDownload("ended") /\ UNCHANGED crecv
    /\ UNCHANGED <<openVars, dead, cread, csend, local, wireVars>>

DeliverDown ==
    /\ Deliverable(crcv)
    /\ \/ local = "open" /\ crcv' = Deliver(crcv) /\ UNCHANGED cctx
       \/ (local = "reset" \/ cctx) /\ ReturnDownload("ended")
    /\ UNCHANGED <<openVars, dead, cread, crecv, csend, local, wireVars>>

FinishDown ==
    /\ FinReached(crcv) /\ ReturnDownload("finished")
    /\ UNCHANGED <<openVars, dead, cread, crecv, csend, local, wireVars>>

\* Both copies have returned: the deferred calls close the lanes and the
\* local connection.
CloseBonded ==
    /\ chandler = "copying" /\ csend.pc = "done" /\ crcv.pc # "run"
    /\ chandler' = "closed" /\ cclosed' = cclosed \cup LaneSet
    /\ down' = Discard(down, LaneSet)
    /\ UNCHANGED <<cand, lanes, dead, cctx, cread, crecv, csend, crcv, local, up, broken,
                   sclosed, env>>

-----------------------------------------------------------------------------
(* The surroundings                                                        *)

\* The client's own context is cancelled.
ClientStops ==
    /\ "client stops" \in env.events
    /\ chandler = "copying" /\ ~cctx /\ cctx' = TRUE
    /\ UNCHANGED <<openVars, dead, cread, crecv, csend, crcv, local, wireVars>>

LocalResets ==
    /\ "local reset" \in env.events
    /\ chandler = "copying" /\ local = "open" /\ local' = "reset"
    /\ UNCHANGED <<openVars, dead, cctx, cread, crecv, csend, crcv, wireVars>>

\* What the client's goroutines do by themselves.
ClientStep ==
    \/ OpenLane \/ StartCopying
    \/ WriteToLane \/ NoLiveLanes \/ WriteFin
    \/ \E l \in Lanes : ReadLaneFrame(l) \/ ReadLaneEnds(l)
    \/ ReceiveDown \/ DeliverDown \/ FinishDown \/ CloseBonded
    \/ ReadLocalEnds /\ (cctx \/ local = "reset")
=============================================================================
