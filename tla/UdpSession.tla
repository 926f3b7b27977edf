----------------------------- MODULE UdpSession -----------------------------
(***************************************************************************)
(* The life of aggregated UDP sessions (server/session_udp.go): DTLS       *)
(* connections that send the same session preface share one backend UDP    *)
(* socket; each is a lane of that session.  The registry, sessions, lanes  *)
(* and the handler goroutine of every connection are modelled here; what a *)
(* session does with downlink packets is in Downlink.tla.                  *)
(*                                                                         *)
(* Critical sections of registry.mu and session.mu are single steps.       *)
(* removeLane and close() are not: removeLane stops the lane, takes        *)
(* session.mu, gives it back and only then calls close(); close() cancels  *)
(* the context, clears the lanes under session.mu and only then takes      *)
(* registry.mu.  Steps a goroutine takes alone are joined to the shared    *)
(* step that follows.  A lane is named by its connection and a session by  *)
(* the connection whose getOrCreate made it.                               *)
(***************************************************************************)
EXTENDS Connections, Integers

CONSTANTS
    Ids,      \* session ids that clients use
    Streams,  \* stream ids that clients use
    None      \* nil

ASSUME SessionConstants == None \notin Conns /\ None \notin Ids /\ None \notin Streams

VARIABLES
    registry,   \* r.sessions
    closing,    \* how far close() of each session has run
    key,        \* s.key
    laneOf,     \* s.lanes
    hpc,        \* where the handler goroutine of each connection stands
    session,    \* the session the handler holds
    stream,     \* lane.streamID
    laneClosed, \* lane.closed; stop() cancels lane.ctx right after setting it
    expired,    \* the connection's read deadline lies in the past
    down        \* the server's lifetime context is cancelled

laneVars == <<session, stream, laneClosed, expired>>
vars == <<registry, closing, key, laneOf, hpc, laneVars, down>>

(***************************************************************************)
(* closing[s]: unmade, open, cancelled (s.cancel() and backend.Close()     *)
(* done), cleared (lanes stopped and forgotten), closed (out of the        *)
(* registry; closeOnce has returned).                                      *)
(*                                                                         *)
(* hpc[c]: idle, adding (has a session, no lane yet), checking (top of the *)
(* read loop), arming (before SetReadDeadline), reading, removing (lane    *)
(* stopped, before session.mu), closing (in s.close()), done.              *)
(***************************************************************************)
Live(s) == closing[s] = "open" /\ ~down      \* s.ctx.Err() == nil

\* lane.ctx.Err() != nil: the lane was stopped, its session or the server cancelled.
LaneDone(c) == laneClosed[c] \/ ~Live(session[c])

\* The test of getOrCreate: a session is registered and not cancelled.
LiveEntry(k) == registry[k] # None /\ Live(registry[k])

NoLanes == [i \in Streams |-> None]

Init ==
    /\ registry = [k \in Ids |-> None]
    /\ closing = [s \in Conns |-> "unmade"]
    /\ key = [s \in Conns |-> None]
    /\ laneOf = [s \in Conns |-> NoLanes]
    /\ hpc = [c \in Conns |-> "idle"]
    /\ session = [c \in Conns |-> None]
    /\ stream = [c \in Conns |-> None]
    /\ laneClosed = [c \in Conns |-> FALSE]
    /\ expired = [c \in Conns |-> FALSE]
    /\ down = FALSE

-----------------------------------------------------------------------------
(* handleAggregatedUDPConnection: joining a session.                       *)

\* getOrCreate returns the registered session.
JoinSession(c, k, i) ==
    /\ hpc[c] = "idle"
    /\ LiveEntry(k)
    /\ session' = [session EXCEPT ![c] = registry[k]]
    /\ stream' = [stream EXCEPT ![c] = i]
    /\ hpc' = [hpc EXCEPT ![c] = "adding"]
    /\ UNCHANGED <<registry, closing, key, laneOf, laneClosed, expired, down>>

\* Faulty variant: the new session does not record its key.
CreateSession_NoKey(c, k, i) ==
    /\ hpc[c] = "idle"
    /\ ~LiveEntry(k)
    /\ registry' = [registry EXCEPT ![k] = c]
    /\ closing' = [closing EXCEPT ![c] = "open"]
    /\ session' = [session EXCEPT ![c] = c]
    /\ stream' = [stream EXCEPT ![c] = i]
    /\ hpc' = [hpc EXCEPT ![c] = "adding"]
    /\ UNCHANGED <<key, laneOf, laneClosed, expired, down>>

\* getOrCreate dials the backend, registers a new session and starts its reader.
CreateSession(c, k, i) ==
    /\ hpc[c] = "idle"
    /\ ~LiveEntry(k)
    /\ registry' = [registry EXCEPT ![k] = c]
    /\ closing' = [closing EXCEPT ![c] = "open"]
    /\ key' = [key EXCEPT ![c] = k]
    /\ session' = [session EXCEPT ![c] = c]
    /\ stream' = [stream EXCEPT ![c] = i]
    /\ hpc' = [hpc EXCEPT ![c] = "adding"]
    /\ UNCHANGED <<laneOf, laneClosed, expired, down>>

\* getOrCreate cannot dial the backend; the handler returns.
DialFails(c, k) ==
    /\ hpc[c] = "idle"
    /\ ~LiveEntry(k)
    /\ hpc' = [hpc EXCEPT ![c] = "done"]
    /\ UNCHANGED <<registry, closing, key, laneOf, laneVars, down>>

\* lane.stop() for the lanes in S: the first call cancels and sets the deadline to now.
Stop(S) ==
    /\ laneClosed' = [c \in Conns |-> laneClosed[c] \/ c \in S]
    /\ expired' = [c \in Conns |-> expired[c] \/ (c \in S /\ ~laneClosed[c])]

\* Faulty variant: addLane does not look at the session's context.
AddLane_Unchecked(c) ==
    /\ hpc[c] = "adding"
    /\ Stop({laneOf[session[c]][stream[c]]} \cap Conns)
    /\ laneOf' = [laneOf EXCEPT ![session[c]][stream[c]] = c]
    /\ hpc' = [hpc EXCEPT ![c] = "checking"]
    /\ UNCHANGED <<registry, closing, key, session, stream, down>>

\* addLane, under session.mu: stops the previous lane of the stream and takes its slot.
AddLane(c) ==
    /\ hpc[c] = "adding"
    /\ Live(session[c])
    /\ Stop({laneOf[session[c]][stream[c]]} \cap Conns)
    /\ laneOf' = [laneOf EXCEPT ![session[c]][stream[c]] = c]
    /\ hpc' = [hpc EXCEPT ![c] = "checking"]
    /\ UNCHANGED <<registry, closing, key, session, stream, down>>

\* A handler that returns drops what it holds.
Leave(c) ==
    /\ hpc' = [hpc EXCEPT ![c] = "done"]
    /\ session' = [session EXCEPT ![c] = None]
    /\ stream' = [stream EXCEPT ![c] = None]

\* addLane finds the session cancelled; the handler returns.
AddLaneFails(c) ==
    /\ hpc[c] = "adding"
    /\ ~Live(session[c])
    /\ Leave(c)
    /\ UNCHANGED <<registry, closing, key, laneOf, laneClosed, expired, down>>

-----------------------------------------------------------------------------
(* handleAggregatedUDPConnection: the read loop.                           *)

\* removeLane is deferred; it begins with lane.stop(), outside the lock.
BeginRemove(c) ==
    /\ Stop({c})
    /\ hpc' = [hpc EXCEPT ![c] = "removing"]

\* The check of lane.ctx finds it done.
ContextDone(c) ==
    /\ hpc[c] = "checking"
    /\ LaneDone(c)
    /\ BeginRemove(c)
    /\ UNCHANGED <<registry, closing, key, laneOf, session, stream, down>>

\* Faulty variant: the loop reads again without looking at lane.ctx.
ContextAlive_Unchecked(c) ==
    /\ hpc[c] = "checking"
    /\ hpc' = [hpc EXCEPT ![c] = "arming"]
    /\ UNCHANGED <<registry, closing, key, laneOf, laneVars, down>>

\* The check of lane.ctx finds it alive.
ContextAlive(c) ==
    /\ hpc[c] = "checking"
    /\ ~LaneDone(c)
    /\ hpc' = [hpc EXCEPT ![c] = "arming"]
    /\ UNCHANGED <<registry, closing, key, laneOf, laneVars, down>>

\* conn.SetReadDeadline(now + 30 min).
ArmDeadline(c) ==
    /\ hpc[c] = "arming"
    /\ expired' = [expired EXCEPT ![c] = FALSE]
    /\ hpc' = [hpc EXCEPT ![c] = "reading"]
    /\ UNCHANGED <<registry, closing, key, laneOf, session, stream, laneClosed, down>>

\* conn.Read gives a packet, and the probe echo or writeBackend succeeds.
PacketHandled(c) ==
    /\ hpc[c] = "reading"
    /\ hpc' = [hpc EXCEPT ![c] = "checking"]
    /\ UNCHANGED <<registry, closing, key, laneOf, laneVars, down>>

\* conn.Read fails, or the echo or writeBackend does.  The read deadline makes the read
\* fail too: at once if it is past, else after 30 min without a packet.
ReadEnds(c) ==
    /\ hpc[c] = "reading"
    /\ BeginRemove(c)
    /\ UNCHANGED <<registry, closing, key, laneOf, session, stream, down>>

\* writeLane: a downlink write fails; the writer stops the lane and returns.
WriteFails(c) ==
    /\ hpc[c] \in {"checking", "arming", "reading"}
    /\ ~laneClosed[c]
    /\ Stop({c})
    /\ UNCHANGED <<registry, closing, key, laneOf, hpc, session, stream, down>>

-----------------------------------------------------------------------------
(* removeLane after its stop().                                            *)

\* Faulty variant: the slot is freed whoever holds it.
Without_Any(c) == [laneOf[session[c]] EXCEPT ![stream[c]] = None]

\* s.lanes without the lane c.
Without(c) == [laneOf[session[c]] EXCEPT ![stream[c]] = IF @ = c THEN None ELSE @]

\* Under session.mu: other lanes are left.
RemoveLane(c) ==
    /\ hpc[c] = "removing"
    /\ Without(c) # NoLanes
    /\ laneOf' = [laneOf EXCEPT ![session[c]] = Without(c)]
    /\ Leave(c)
    /\ UNCHANGED <<registry, closing, key, laneClosed, expired, down>>

\* Faulty variant: the last lane to leave does not close the session.
RemoveLastLane_NoClose(c) ==
    /\ hpc[c] = "removing"
    /\ Without(c) = NoLanes
    /\ laneOf' = [laneOf EXCEPT ![session[c]] = NoLanes]
    /\ Leave(c)
    /\ UNCHANGED <<registry, closing, key, laneClosed, expired, down>>

\* Under session.mu: no lane is left; the lock is given back before s.close().
RemoveLastLane(c) ==
    /\ hpc[c] = "removing"
    /\ Without(c) = NoLanes
    /\ laneOf' = [laneOf EXCEPT ![session[c]] = NoLanes]
    /\ hpc' = [hpc EXCEPT ![c] = "closing"]
    /\ UNCHANGED <<registry, closing, key, laneVars, down>>

\* s.close() returns: closeOnce.Do waits until the body has run.
CloseReturns(c) ==
    /\ hpc[c] = "closing"
    /\ closing[session[c]] = "closed"
    /\ Leave(c)
    /\ UNCHANGED <<registry, closing, key, laneOf, laneClosed, expired, down>>

-----------------------------------------------------------------------------
(* close(), run by whichever goroutine enters closeOnce first.             *)

\* s.cancel() and backend.Close().
CloseCancel(s) ==
    /\ closing[s] = "open"
    /\ closing' = [closing EXCEPT ![s] = "cancelled"]
    /\ UNCHANGED <<registry, key, laneOf, hpc, laneVars, down>>

\* close() called by removeLane.
LastLaneCloses(c) ==
    /\ hpc[c] = "closing"
    /\ CloseCancel(session[c])

\* close() deferred in readBackend, whose Read failed or was idle for 30 min.
ReaderCloses(s) == CloseCancel(s)

\* Stop every lane and empty s.lanes, under session.mu.
CloseClear(s) ==
    /\ closing[s] = "cancelled"
    /\ Stop({laneOf[s][i] : i \in Streams} \cap Conns)
    /\ laneOf' = [laneOf EXCEPT ![s] = NoLanes]
    /\ closing' = [closing EXCEPT ![s] = "cleared"]
    /\ UNCHANGED <<registry, key, hpc, session, stream, down>>

\* Faulty variant: remove deletes the entry without comparing the session.
CloseRemove_Any(s) ==
    /\ closing[s] = "cleared"
    /\ registry' = [registry EXCEPT ![key[s]] = None]
    /\ closing' = [closing EXCEPT ![s] = "closed"]
    /\ UNCHANGED <<key, laneOf, hpc, laneVars, down>>

\* Faulty variant: close() does not tell the registry.
CloseRemove_Skipped(s) ==
    /\ closing[s] = "cleared"
    /\ closing' = [closing EXCEPT ![s] = "closed"]
    /\ UNCHANGED <<registry, key, laneOf, hpc, laneVars, down>>

\* registry.remove: only if the entry is still this session.
CloseRemove(s) ==
    /\ closing[s] = "cleared"
    /\ registry' = [registry EXCEPT ![key[s]] = IF @ = s THEN None ELSE @]
    /\ closing' = [closing EXCEPT ![s] = "closed"]
    /\ UNCHANGED <<key, laneOf, hpc, laneVars, down>>

\* The server's shutdown cancels the lifetime context.
ServerCancel ==
    /\ ~down
    /\ down' = TRUE
    /\ UNCHANGED <<registry, closing, key, laneOf, hpc, laneVars>>

\* Every connection is finished with: the model has no more of them.
Finished ==
    /\ \A c \in Conns : hpc[c] = "done"
    /\ UNCHANGED vars

\* What the handler of c does by itself.
HandlerStep(c) ==
    \/ AddLane(c) \/ AddLaneFails(c)
    \/ ContextDone(c) \/ ContextAlive(c) \/ ArmDeadline(c)
    \/ RemoveLane(c) \/ RemoveLastLane(c) \/ LastLaneCloses(c) \/ CloseReturns(c)

Next ==
    \/ \E c \in Conns, k \in Ids, i \in Streams : JoinSession(c, k, i) \/ CreateSession(c, k, i)
    \/ \E c \in Conns, k \in Ids : DialFails(c, k)
    \/ \E c \in Conns : HandlerStep(c) \/ PacketHandled(c) \/ ReadEnds(c) \/ WriteFails(c)
    \/ \E s \in Conns : ReaderCloses(s) \/ CloseClear(s) \/ CloseRemove(s)
    \/ ServerCancel
    \/ Finished

Spec == Init /\ [][Next]_vars

(***************************************************************************)
(* Fairness.  Goroutines that can run do run, and the read of a lane that  *)
(* gets no more packets ends with its 30 min deadline.  Nothing is assumed *)
(* of clients, nor of the backend: its reader may go on reading for ever.  *)
(***************************************************************************)
Fairness ==
    \A c \in Conns :
        /\ WF_vars(HandlerStep(c))
        /\ WF_vars(ReadEnds(c))
        /\ WF_vars(CloseClear(c) \/ CloseRemove(c))

FairSpec == Spec /\ Fairness

-----------------------------------------------------------------------------
\* The handler of c is inside handleAggregatedUDPConnection and has a session.
Serving == {"adding", "checking", "arming", "reading", "removing", "closing"}

\* Types.  A handler past getOrCreate holds a session that was made and a stream; a
\* session that was made has a key (session_udp.go:89-115).
TypeOK ==
    /\ registry \in [Ids -> Conns \cup {None}]
    /\ closing \in [Conns -> {"unmade", "open", "cancelled", "cleared", "closed"}]
    /\ key \in [Conns -> Ids \cup {None}]
    /\ laneOf \in [Conns -> [Streams -> Conns \cup {None}]]
    /\ hpc \in [Conns -> {"idle", "done"} \cup Serving]
    /\ session \in [Conns -> Conns \cup {None}]
    /\ stream \in [Conns -> Streams \cup {None}]
    /\ laneClosed \in [Conns -> BOOLEAN]
    /\ expired \in [Conns -> BOOLEAN]
    /\ down \in BOOLEAN
    /\ \A c \in Conns : hpc[c] \in Serving =>
          session[c] \in Conns /\ closing[session[c]] # "unmade" /\ stream[c] \in Streams
    /\ \A s \in Conns : closing[s] # "unmade" => key[s] \in Ids

(***************************************************************************)
(* A session that is not cancelled is the one its key is registered to, so *)
(* all connections with one session id share one backend socket: no two    *)
(* live sessions of the same client exist, and the close() of an old       *)
(* session, which reaches registry.remove (session_udp.go:117) long after  *)
(* it cancelled, never evicts its successor.                               *)
(***************************************************************************)
LiveSessionIsRegistered ==
    \A s \in Conns : Live(s) => registry[key[s]] = s

(***************************************************************************)
(* The registry never keeps a session whose close() has finished, so its   *)
(* map does not grow with dead clients (session_udp.go:93, 353).           *)
(***************************************************************************)
RegistryForgetsClosed ==
    \A k \in Ids : registry[k] # None =>
        closing[registry[k]] \in {"open", "cancelled", "cleared"} /\ key[registry[k]] = k

\* The handler of c is between addLane and the end of removeLane's critical section.
Attached(c) == hpc[c] \in {"checking", "arming", "reading", "removing"}

(***************************************************************************)
(* addLane (session_udp.go:304) and close (session_udp.go:347) race for    *)
(* session.mu: once close() has cleared the lanes, no lane of the session  *)
(* is left open or in a slot, and none is added afterwards, so no handler  *)
(* goes on serving a client over a closed backend socket.                  *)
(***************************************************************************)
NoLaneOutlivesSession ==
    \A s \in Conns : closing[s] \in {"cleared", "closed"} =>
        /\ laneOf[s] = NoLanes
        /\ \A c \in Conns : Attached(c) /\ session[c] = s => laneClosed[c]

(***************************************************************************)
(* A lane that nobody stopped is in the slot of its stream, where downlink *)
(* packets find it: a reconnect that replaces a lane, and the late         *)
(* removeLane of the replaced one (session_udp.go:329), do not detach a    *)
(* lane that is in use.                                                    *)
(***************************************************************************)
OpenLaneHoldsItsSlot ==
    \A c \in Conns : Attached(c) /\ ~laneClosed[c] => laneOf[session[c]][stream[c]] = c

(***************************************************************************)
(* A session that no handler holds any more is closed and leaves the       *)
(* registry: removeLane and close never miss each other, so no backend     *)
(* socket is leaked.  A server that is shutting down is exempt.            *)
(***************************************************************************)
Deserted(s) == closing[s] # "unmade" /\ \A c \in Conns : session[c] # s

DesertedSessionCloses ==
    \A s \in Conns : Deserted(s) ~> (closing[s] = "closed" \/ down)

(***************************************************************************)
(* Whoever stops a lane (a replacement, a failed write, the session's      *)
(* close) can rely on its handler leaving, even if the handler re-arms its *)
(* read deadline after stop() had set it to now (session_udp.go:468, 182). *)
(***************************************************************************)
StoppedLaneEnds ==
    \A c \in Conns : laneClosed[c] ~> hpc[c] = "done"
=============================================================================
