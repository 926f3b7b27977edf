----------------------------- MODULE BondServer -----------------------------
(***************************************************************************)
(* The server's end of one bonded TCP connection (server/main.go): the     *)
(* stream handlers, the registry entry of the connection's id, and the     *)
(* bondServerConns created under that id.  A bondServerConn is named after *)
(* the lane whose handler created it, so there are at most NumLanes.       *)
(***************************************************************************)
EXTENDS BondStream

NoConn == 0          \* a nil *bondServerConn

VARIABLES
    handler,     \* per lane: idle (before the hello), got, attached, closed
    connOf,      \* the bondServerConn a handler was given
    reg,         \* the registry entry of the id
    slanes,      \* c.lanes
    want,        \* c.want
    ready,       \* c.ready holds its token
    sctx,        \* conns whose ctx is cancelled
    run,         \* c.run: none, check, select, dial, copy, done
    sread,       \* lanes whose readLane goroutine runs
    srecv,       \* c.recvCh
    ssend,       \* copyBackendToBond: pc (none, read, snapshot, write, fin,
                 \*   done), seq, laneIdx, attempts, lanes = the snapshot
    srcv,        \* copyBondToBackend
    backend,     \* the backend connection: open, reset
    lifetime     \* the server's lifetime context: live, cancelled

regVars == <<handler, connOf, reg>>
waitVars == <<want, ready>>
serverVars == <<regVars, slanes, waitVars, sctx, run, sread,
                srecv, ssend, srcv, backend, lifetime>>

\* copyBackendToBond before it starts and after it returned: seq stays as history.
ServerSender(pc, seq) ==
    [pc |-> pc, seq |-> seq, laneIdx |-> 0, attempts |-> 0, lanes |-> <<>>]

ServerInit ==
    /\ handler = [l \in Lanes |-> "idle"]
    /\ connOf = [l \in Lanes |-> NoConn]
    /\ reg = NoConn
    /\ slanes = [c \in Lanes |-> <<>>]
    /\ want = [c \in Lanes |-> 0]
    /\ ready = [c \in Lanes |-> FALSE]
    /\ sctx = {}
    /\ run = [c \in Lanes |-> "none"]
    /\ sread = {}
    /\ srecv = [c \in Lanes |-> <<>>]
    /\ ssend = [c \in Lanes |-> ServerSender("none", 0)]
    /\ srcv = [c \in Lanes |-> NewReceiver]
    /\ backend = [c \in Lanes |-> "open"]
    /\ lifetime = "live"

Cancelled(c) == c \in sctx \/ lifetime = "cancelled"

\* removeLane: the conn's lanes without l, which is there at most once.
RemoveLane(c, l) ==
    LET ls == slanes[c]
        i == CHOOSE i \in DOMAIN ls : ls[i] = l
    IN  IF \E j \in DOMAIN ls : ls[j] = l
        THEN SubSeq(ls, 1, i - 1) \o SubSeq(ls, i + 1, Len(ls)) ELSE ls

-----------------------------------------------------------------------------
(* Stream handlers (handleBondServerStreamWithHello), the registry and     *)
(* addLane                                                                 *)

\* The hello is read and the registry asked for the connection.
GetConn(l) ==
    /\ handler[l] = "idle" /\ up[l] # <<>> /\ Head(up[l]) = HelloFrame
    /\ up' = Pop(up, l)
    /\ handler' = [handler EXCEPT ![l] = "got"]
    /\ reg' = IF reg = NoConn THEN l ELSE reg
    /\ connOf' = [connOf EXCEPT ![l] = reg']
    /\ UNCHANGED <<slanes, waitVars, sctx, run, sread, srecv, ssend, srcv, backend,
                   lifetime, down, streamVars>>

HelloFails(l) ==
    /\ handler[l] = "idle" /\ up[l] = <<>> /\ l \in broken
    /\ handler' = [handler EXCEPT ![l] = "closed"]
    /\ sclosed' = sclosed \cup {l} /\ up' = Discard(up, {l})
    /\ UNCHANGED <<connOf, reg, slanes, waitVars, sctx, run, sread, srecv, ssend, srcv,
                   backend, lifetime, down, broken, cclosed, env>>

\* addLane; the first one starts run.
AddLane(l) ==
    /\ handler[l] = "got"
    /\ handler' = [handler EXCEPT ![l] = "attached"]
    /\ LET c == connOf[l] IN
          /\ want' = [want EXCEPT ![c] = IF NumLanes > @ THEN NumLanes ELSE @]
          /\ slanes' = [slanes EXCEPT ![c] = Append(@, l)]
          /\ ready' = [ready EXCEPT ![c] = TRUE]
          /\ run' = [run EXCEPT ![c] = IF @ = "none" THEN "check" ELSE @]
    /\ sread' = sread \cup {l}
    /\ UNCHANGED <<connOf, reg, sctx, srecv, ssend, srcv, backend, lifetime, wireVars>>

\* The handler returns once its conn is done or the server is cancelled.
HandlerReturns(l) ==
    /\ handler[l] = "attached"
    /\ run[connOf[l]] = "done" \/ lifetime = "cancelled"
    /\ handler' = [handler EXCEPT ![l] = "closed"]
    /\ sclosed' = sclosed \cup {l} /\ up' = Discard(up, {l})
    /\ UNCHANGED <<connOf, reg, slanes, waitVars, sctx, run, sread, srecv, ssend, srcv,
                   backend, lifetime, down, broken, cclosed, env>>

\* The registry's goroutine deletes the entry of a conn that is done.
Forget(c) ==
    /\ run[c] = "done" /\ reg = c /\ reg' = NoConn
    /\ UNCHANGED <<handler, connOf, slanes, waitVars, sctx, run, sread, srecv, ssend, srcv,
                   backend, lifetime, wireVars>>

-----------------------------------------------------------------------------
(* readLane                                                                *)

SReadFrame(l) ==
    /\ l \in sread /\ HasFrame(up, l)
    /\ up' = Pop(up, l)
    /\ LET c == connOf[l] IN
       \/ /\ Len(srecv[c]) < QueueCap
          /\ srecv' = [srecv EXCEPT ![c] = Append(@, Head(up[l]))] /\ UNCHANGED sread
       \/ Cancelled(c) /\ sread' = sread \ {l} /\ UNCHANGED srecv
    /\ UNCHANGED <<regVars, slanes, waitVars, sctx, run, ssend, srcv, backend, lifetime,
                   down, streamVars>>

\* Faulty variant: any lane that ends cancels the connection.
SReadEnds_AnyLane(l) ==
    /\ l \in sread
    /\ LET c == connOf[l]
       IN /\ ReadError(up, l, sclosed, cclosed, Cancelled(c) /\ run[c] \in {"copy", "done"})
          /\ slanes' = [slanes EXCEPT ![c] = RemoveLane(c, l)]
          /\ sctx' = sctx \cup {c}
    /\ sread' = sread \ {l}
    /\ UNCHANGED <<regVars, waitVars, run, srecv, ssend, srcv, backend, lifetime, wireVars>>

\* Faulty variant: the last lane that ends does not cancel the connection.
SReadEnds_NoCancel(l) ==
    /\ l \in sread
    /\ LET c == connOf[l]
       IN /\ ReadError(up, l, sclosed, cclosed, Cancelled(c) /\ run[c] \in {"copy", "done"})
          /\ slanes' = [slanes EXCEPT ![c] = RemoveLane(c, l)]
    /\ sread' = sread \ {l}
    /\ UNCHANGED <<regVars, waitVars, sctx, run, srecv, ssend, srcv, backend, lifetime,
                   wireVars>>

\* The lane is removed; the last one cancels the connection.
SReadEnds(l) ==
    /\ l \in sread
    /\ LET c == connOf[l]
           left == RemoveLane(c, l)
       IN /\ ReadError(up, l, sclosed, cclosed, Cancelled(c) /\ run[c] \in {"copy", "done"})
          /\ slanes' = [slanes EXCEPT ![c] = left]
          /\ sctx' = IF left = <<>> THEN sctx \cup {c} ELSE sctx
    /\ sread' = sread \ {l}
    /\ UNCHANGED <<regVars, waitVars, run, srecv, ssend, srcv, backend, lifetime, wireVars>>

-----------------------------------------------------------------------------
(* run                                                                     *)

SetRun(c, pc) == run' = [run EXCEPT ![c] = pc]

\* waitForInitialLanes: look at the lanes, ...
CheckLanes(c) ==
    /\ run[c] = "check"
    /\ SetRun(c, IF Len(slanes[c]) >= want[c] THEN "dial" ELSE "select")
    /\ UNCHANGED <<regVars, slanes, waitVars, sctx, sread, srecv, ssend, srcv, backend,
                   lifetime, wireVars>>

\* The 300 ms of bondLaneAttachTimeout pass: after the handlers of all lanes
\* have run, or before, if lanes may be that late.
TimerFires ==
    "late lanes" \in env.events \/ \A l \in Lanes : handler[l] \in {"attached", "closed"}

\* ... then wait for the token, the context or the timer.
AwaitLane(c) ==
    /\ run[c] = "select"
    /\ \/ ready[c] /\ ready' = [ready EXCEPT ![c] = FALSE] /\ SetRun(c, "check")
       \/ (Cancelled(c) \/ TimerFires) /\ SetRun(c, "dial") /\ UNCHANGED ready
    /\ UNCHANGED <<regVars, slanes, want, sctx, sread, srecv, ssend, srcv, backend,
                   lifetime, wireVars>>

Dial(c) ==
    /\ run[c] = "dial" /\ SetRun(c, "copy")
    /\ ssend' = [ssend EXCEPT ![c].pc = "read"]
    /\ UNCHANGED <<regVars, slanes, waitVars, sctx, sread, srecv, srcv, backend, lifetime,
                   wireVars>>

\* The deferred cancel and close(c.done) run.
DialFails(c) ==
    /\ "dial fails" \in env.events
    /\ run[c] = "dial" /\ SetRun(c, "done")
    /\ sctx' = sctx \cup {c}
    /\ UNCHANGED <<regVars, slanes, waitVars, sread, srecv, ssend, srcv, backend, lifetime,
                   wireVars>>

\* Both copies have returned.
RunReturns(c) ==
    /\ run[c] = "copy" /\ ssend[c].pc = "done" /\ srcv[c].pc # "run"
    /\ SetRun(c, "done") /\ sctx' = sctx \cup {c}
    /\ UNCHANGED <<regVars, slanes, waitVars, sread, srecv, ssend, srcv, backend, lifetime,
                   wireVars>>

-----------------------------------------------------------------------------
(* copyBondToBackend                                                       *)

ReceiveUp(c) ==
    /\ run[c] = "copy" /\ Selecting(srcv[c])
    /\ \/ /\ srecv[c] # <<>>
          /\ srcv' = [srcv EXCEPT ![c] = Take(@, Head(srecv[c]))]
          /\ srecv' = [srecv EXCEPT ![c] = Tail(@)]
       \/ Cancelled(c) /\ srcv' = [srcv EXCEPT ![c] = Returned(@, "ended")] /\ UNCHANGED srecv
    /\ UNCHANGED <<regVars, slanes, waitVars, sctx, run, sread, ssend, backend, lifetime,
                   wireVars>>

DeliverUp(c) ==
    /\ Deliverable(srcv[c])
    /\ \/ backend[c] = "open" /\ srcv' = [srcv EXCEPT ![c] = Deliver(@)]
       \/ /\ backend[c] = "reset" \/ Cancelled(c)
          /\ srcv' = [srcv EXCEPT ![c] = Returned(@, "ended")]
    /\ UNCHANGED <<regVars, slanes, waitVars, sctx, run, sread, srecv, ssend, backend,
                   lifetime, wireVars>>

\* closeWrite: the backend sees the end of the upload.
FinishUp(c) ==
    /\ FinReached(srcv[c]) /\ srcv' = [srcv EXCEPT ![c] = Returned(@, "finished")]
    /\ UNCHANGED <<regVars, slanes, waitVars, sctx, run, sread, srecv, ssend, backend,
                   lifetime, wireVars>>

-----------------------------------------------------------------------------
(* copyBackendToBond                                                       *)

ReadBackendChunk(c) ==
    /\ ssend[c].pc = "read" /\ backend[c] = "open" /\ ssend[c].seq < env.down
    /\ ssend' = [ssend EXCEPT ![c].pc = "snapshot"]
    /\ UNCHANGED <<regVars, slanes, waitVars, sctx, run, sread, srecv, srcv, backend,
                   lifetime, wireVars>>

\* End of file or an error: either way a FIN goes to the lanes of now.
ReadBackendEnds(c) ==
    /\ ssend[c].pc = "read"
    /\ "backend eof" \in env.events \/ backend[c] = "reset" \/ Cancelled(c)
    /\ ssend' = [ssend EXCEPT ![c].pc = "fin", ![c].lanes = slanes[c]]
    /\ UNCHANGED <<regVars, slanes, waitVars, sctx, run, sread, srecv, srcv, backend,
                   lifetime, wireVars>>

\* One pass of writeToNextLane begins.
SnapshotLanes(c) ==
    /\ ssend[c].pc = "snapshot"
    /\ ssend' = [ssend EXCEPT ![c].pc = "write", ![c].lanes = slanes[c]]
    /\ UNCHANGED <<regVars, slanes, waitVars, sctx, run, sread, srecv, srcv, backend,
                   lifetime, wireVars>>

\* copyBackendToBond returns; its goroutine cancels the connection.
ReturnSend(c, seq) ==
    /\ ssend' = [ssend EXCEPT ![c] = ServerSender("done", seq)]
    /\ sctx' = sctx \cup {c}

SWriteToLane(c) ==
    /\ ssend[c].pc = "write" /\ ssend[c].attempts < Len(ssend[c].lanes)
    /\ LET s == ssend[c]
           l == s.lanes[(s.laneIdx % Len(s.lanes)) + 1]
           f == DataFrame(s.seq, Chunk(c, s.seq))
           tried == [s EXCEPT !.laneIdx = @ + 1, !.attempts = @ + 1]
           sent == [tried EXCEPT !.pc = "read", !.seq = @ + 1, !.attempts = 0, !.lanes = <<>>]
           left == RemoveLane(c, l)
       IN \/ /\ down' \in WriteFrame(down, l, f, sclosed, cclosed)
             /\ IF Cancelled(c) THEN ReturnSend(c, sent.seq)
                ELSE ssend' = [ssend EXCEPT ![c] = sent] /\ UNCHANGED sctx
             /\ UNCHANGED slanes
          \/ /\ down' \in WriteError(down, l, f, sclosed, cclosed, Cancelled(c))
             /\ slanes' = [slanes EXCEPT ![c] = left]
             /\ IF left = <<>> THEN ReturnSend(c, s.seq)
                ELSE ssend' = [ssend EXCEPT ![c] = tried] /\ UNCHANGED sctx
    /\ UNCHANGED <<regVars, waitVars, run, sread, srecv, srcv, backend, lifetime, up,
                   streamVars>>

\* Every lane of the snapshot has failed: give up, or try again in 10 ms.
RetryWrite(c) ==
    /\ ssend[c].pc = "write" /\ ssend[c].attempts = Len(ssend[c].lanes)
    /\ \/ Cancelled(c) /\ ReturnSend(c, ssend[c].seq)
       \/ /\ ~Cancelled(c)
          /\ ssend' = [ssend EXCEPT ![c].pc = "snapshot", ![c].attempts = 0, ![c].lanes = <<>>]
          /\ UNCHANGED sctx
    /\ UNCHANGED <<regVars, slanes, waitVars, run, sread, srecv, srcv, backend, lifetime,
                   wireVars>>

\* The FIN loop over the lanes of the snapshot.
SWriteFin(c) ==
    /\ ssend[c].pc = "fin"
    /\ LET ls == {ssend[c].lanes[i] : i \in DOMAIN ssend[c].lanes}
       IN  down' \in WriteFinTo(down, ls, ssend[c].seq, sclosed, cclosed, Cancelled(c))
    /\ ReturnSend(c, ssend[c].seq)
    /\ UNCHANGED <<regVars, slanes, waitVars, run, sread, srecv, srcv, backend, lifetime,
                   up, streamVars>>

-----------------------------------------------------------------------------
(* The surroundings                                                        *)

BackendResets(c) ==
    /\ "backend reset" \in env.events
    /\ run[c] = "copy" /\ backend[c] = "open" /\ backend' = [backend EXCEPT ![c] = "reset"]
    /\ UNCHANGED <<regVars, slanes, waitVars, sctx, run, sread, srecv, ssend, srcv,
                   lifetime, wireVars>>

\* main cancels the lifetime context, the parent of every conn's.  It may do
\* so at any time; the instances bound it to the time of a transfer.
ServerStops ==
    /\ "server stops" \in env.events
    /\ \E c \in Lanes : run[c] = "copy"
    /\ lifetime = "live" /\ lifetime' = "cancelled"
    /\ UNCHANGED <<regVars, slanes, waitVars, sctx, run, sread, srecv, ssend, srcv,
                   backend, wireVars>>

\* What the goroutines of lane l, and those of conn c, do by themselves.
LaneStep(l) ==
    GetConn(l) \/ HelloFails(l) \/ AddLane(l) \/ HandlerReturns(l) \/ SReadFrame(l) \/ SReadEnds(l)

ConnStep(c) ==
    \/ Forget(c) \/ CheckLanes(c) \/ AwaitLane(c) \/ Dial(c) \/ DialFails(c) \/ RunReturns(c)
    \/ ReceiveUp(c) \/ DeliverUp(c) \/ FinishUp(c)
    \/ SnapshotLanes(c) \/ SWriteToLane(c) \/ RetryWrite(c) \/ SWriteFin(c)
    \/ ReadBackendEnds(c) /\ (Cancelled(c) \/ backend[c] = "reset")
=============================================================================
