------------------------------- MODULE Server -------------------------------
(***************************************************************************)
(* The life of the server process (server/main.go, main): the accept loop, *)
(* one handler goroutine per admitted connection, and the shutdown that a  *)
(* termination signal starts.  It composes the admission gate              *)
(* (ConnectionGate) with the packet listener (UdpListener): a step of the  *)
(* accept loop, of a handler or of main is a step of one of the two.       *)
(***************************************************************************)
EXTENDS ConnectionGate, UdpListener

CONSTANT VlessMode   \* -vless: handlers are handleVLESSConnection

ASSUME ServerConstants == VlessMode \in BOOLEAN

VARIABLES
    holding,     \* the connection the accept loop is busy with, or None
    acceptDone,  \* the accept loop has returned
    handler,     \* the handler goroutine of each connection
    main,        \* where main() stands
    drained,     \* the channel closed by the goroutine that runs gate.wait()
    forced,      \* forced
    cancelled    \* the lifetime context is cancelled

procVars == <<holding, acceptDone, handler, main, drained, forced, cancelled>>
vars == <<gateVars, listenerVars, procVars>>

Init ==
    /\ GateInit
    /\ ListenerInit
    /\ holding = None
    /\ acceptDone = FALSE
    /\ handler = [c \in Conns |-> "none"]
    /\ main = "serving"
    /\ drained = FALSE /\ forced = FALSE /\ cancelled = FALSE

-----------------------------------------------------------------------------
(* The network.                                                            *)

\* A first handshake datagram of some peer.
NewPeer(a, c) ==
    /\ getConn(a, c)
    /\ UNCHANGED <<gateVars, procVars>>

ReaderStops ==
    /\ ReadFails
    /\ UNCHANGED <<gateVars, procVars>>

WaiterStep ==
    /\ WaiterRuns
    /\ UNCHANGED <<gateVars, procVars>>

-----------------------------------------------------------------------------
(* The accept loop.                                                        *)

AcceptBegins(c) ==
    /\ holding = None /\ ~acceptDone
    /\ AcceptTake(c)
    /\ holding' = c
    /\ UNCHANGED <<gateVars, acceptDone, handler, main, drained, forced, cancelled>>

AcceptReturns ==
    /\ holding # None
    /\ AcceptAdd(holding)
    /\ UNCHANGED <<gateVars, procVars>>

AcceptLoopEnds ==
    /\ holding = None /\ ~acceptDone
    /\ AcceptFails
    /\ acceptDone' = TRUE
    /\ UNCHANGED <<gateVars, holding, handler, main, drained, forced, cancelled>>

\* gate.admit gives a lease: the handler goroutine starts.
AdmitConn(pressure) ==
    /\ holding # None
    /\ uconn[holding] = "accepted"
    /\ Admit(holding, pressure)
    /\ handler' = [handler EXCEPT ![holding] = "running"]
    /\ holding' = None
    /\ UNCHANGED <<listenerVars, acceptDone, main, drained, forced, cancelled>>

\* gate.admit gives a reason.
RejectConn(pressure) ==
    /\ holding # None
    /\ uconn[holding] = "accepted"
    /\ Reject(holding, pressure)
    /\ UNCHANGED <<listenerVars, procVars>>

\* Faulty variant: a refused connection is dropped without conn.Close().
RefuseClose_Dropped ==
    /\ holding # None
    /\ lease[holding] = "rejected"
    /\ holding' = None
    /\ UNCHANGED <<gateVars, listenerVars, acceptDone, handler, main, drained, forced, cancelled>>

\* conn.Close() of a refused connection, in the accept loop itself.
RefuseClose ==
    /\ holding # None
    /\ lease[holding] = "rejected"
    /\ ConnClose(holding)
    /\ UNCHANGED <<gateVars, procVars>>

RefuseForget ==
    /\ holding # None
    /\ lease[holding] = "rejected"
    /\ ConnForget(holding)
    /\ holding' = None
    /\ UNCHANGED <<gateVars, acceptDone, handler, main, drained, forced, cancelled>>

AcceptLoop ==
    \/ \E c \in Conns : AcceptBegins(c)
    \/ AcceptReturns
    \/ \E p \in Pressure : AdmitConn(p) \/ RejectConn(p)
    \/ RefuseClose
    \/ RefuseForget
    \/ AcceptLoopEnds

-----------------------------------------------------------------------------
(* The handler goroutine of an admitted connection.                        *)

\* HandshakeContext succeeds; markEstablished begins.
HandshakeSucceeds(c) ==
    /\ handler[c] = "running"
    /\ MarkEstablished(c)
    /\ UNCHANGED <<listenerVars, procVars>>

\* markEstablished goes on.
MarkContinues(c) ==
    /\ LowerHandshakes(c) \/ RaiseEstablished(c)
    /\ UNCHANGED <<listenerVars, procVars>>

HandlerReturns(c) ==
    /\ handler[c] = "running"
    /\ handler' = [handler EXCEPT ![c] = "returned"]
    /\ UNCHANGED <<gateVars, listenerVars, holding, acceptDone, main, drained, forced, cancelled>>

\* HandshakeContext fails: the peer, the 30 s timeout or the cancelled context.
HandshakeFails(c) ==
    /\ lease[c] = "handshaking"
    /\ HandlerReturns(c)

\* The peer goes away, an error ends the session, or its keepalive or idle time is over.
ServeEnds(c) ==
    /\ lease[c] = "serving"
    /\ HandlerReturns(c)

(***************************************************************************)
(* After cancel(), a UDP handler ends by itself.  The legacy handler's     *)
(* AfterFunc sets both deadlines; where that wake-up is lost, and in the   *)
(* two read loops that do not watch the context (handleUDPConnection and   *)
(* handleAggregatedUDPConnection), the next datagram or the 30 min read    *)
(* deadline ends the read and the context is looked at again.              *)
(* handleVLESSConnection blocks in AcceptStream, which has no deadline and *)
(* does not see the context: it has no such step.                          *)
(***************************************************************************)
ContextReleases(c) ==
    /\ ~VlessMode /\ cancelled
    /\ lease[c] = "serving"
    /\ HandlerReturns(c)

\* The deferred conn.Close(), which runs before the deferred lease.done().
HandlerClose(c) ==
    /\ handler[c] = "returned"
    /\ ConnClose(c) \/ ConnForget(c)
    /\ UNCHANGED <<gateVars, procVars>>

\* The deferred lease.done().
HandlerDone(c) ==
    /\ handler[c] = "returned"
    /\ uconn[c] = "closed"
    /\ DoneStep(c)
    /\ UNCHANGED <<listenerVars, procVars>>

Handler(c) ==
    \/ HandshakeSucceeds(c) \/ MarkContinues(c) \/ HandshakeFails(c)
    \/ ServeEnds(c) \/ ContextReleases(c)
    \/ HandlerClose(c) \/ HandlerDone(c)

-----------------------------------------------------------------------------
(* main() after the first signal.                                          *)

\* Faulty variant: the drain window opens without closing admission.
FirstSignal_NoDrain ==
    /\ main = "serving"
    /\ main' = "draining"
    /\ UNCHANGED <<gateVars, listenerVars, holding, acceptDone, handler, drained, forced, cancelled>>

FirstSignal ==
    /\ main = "serving"
    /\ BeginDrain
    /\ main' = "draining"
    /\ UNCHANGED <<listenerVars, holding, acceptDone, handler, drained, forced, cancelled>>

\* The goroutine that runs gate.wait() and closes drained.
DrainWaiter ==
    /\ main # "serving" /\ ~drained
    /\ wg = 0
    /\ drained' = TRUE
    /\ UNCHANGED <<gateVars, listenerVars, holding, acceptDone, handler, main, forced, cancelled>>

\* select: drained.
DrainCompletes ==
    /\ main = "draining"
    /\ drained
    /\ main' = "finishing"
    /\ UNCHANGED <<gateVars, listenerVars, holding, acceptDone, handler, drained, forced, cancelled>>

\* select: the drain timer or the second signal.
DrainForced ==
    /\ main = "draining"
    /\ forced' = TRUE
    /\ main' = "finishing"
    /\ UNCHANGED <<gateVars, listenerVars, holding, acceptDone, handler, drained, cancelled>>

\* finishDrain (telemetry only) and cancel().
Cancel ==
    /\ main = "finishing"
    /\ cancelled' = TRUE
    /\ main' = "closing"
    /\ UNCHANGED <<gateVars, listenerVars, holding, acceptDone, handler, drained, forced>>

\* The steps of listener.Close().
CloseListener ==
    /\ main = "closing"
    /\ CloseBegin \/ CloseDiscard \/ CloseRelease
    /\ UNCHANGED <<gateVars, procVars>>

ListenerClosed ==
    /\ main = "closing"
    /\ CloseReturns
    /\ main' = "waitLeases"
    /\ UNCHANGED <<gateVars, listenerVars, holding, acceptDone, handler, drained, forced, cancelled>>

\* gate.wait().
LeasesReturned ==
    /\ main = "waitLeases"
    /\ wg = 0
    /\ main' = "waitAccept"
    /\ UNCHANGED <<gateVars, listenerVars, holding, acceptDone, handler, drained, forced, cancelled>>

\* <-acceptDone, and main returns.
Exit ==
    /\ main = "waitAccept"
    /\ acceptDone
    /\ main' = "exited"
    /\ UNCHANGED <<gateVars, listenerVars, holding, acceptDone, handler, drained, forced, cancelled>>

Main == FirstSignal \/ DrainCompletes \/ DrainForced \/ Cancel \/ CloseListener
            \/ ListenerClosed \/ LeasesReturned \/ Exit

Running == main # "exited" /\ ~crashed

\* The process is gone, by return from main or by a panic.
Terminated == ~Running /\ UNCHANGED vars

Step ==
    \/ \E a \in Addrs, c \in Conns : NewPeer(a, c)
    \/ ReaderStops
    \/ WaiterStep
    \/ AcceptLoop
    \/ \E c \in Conns : Handler(c)
    \/ DrainWaiter
    \/ Main

Next == (Running /\ Step) \/ Terminated

Spec == Init /\ [][Next]_vars

(***************************************************************************)
(* Fairness.  Goroutines that can run do run; a handshake ends within its  *)
(* 30 s timeout; reads of a closed socket fail; the drain timer fires; a   *)
(* UDP read has a deadline.  Nothing is assumed of signals, of new peers,  *)
(* of when a peer ends its session, or of a socket that fails by itself.   *)
(***************************************************************************)
Fairness ==
    /\ WF_vars(Running /\ WaiterStep)
    /\ WF_vars(Running /\ sock = "closed" /\ ReaderStops)
    /\ WF_vars(Running /\ AcceptLoop)
    /\ \A c \in Conns :
        /\ WF_vars(Running /\ (MarkContinues(c) \/ HandshakeFails(c)))
        /\ WF_vars(Running /\ ContextReleases(c))
        /\ WF_vars(Running /\ (HandlerClose(c) \/ HandlerDone(c)))
    /\ WF_vars(Running /\ DrainWaiter)
    /\ WF_vars(Running /\ main # "serving" /\ Main)

FairSpec == Spec /\ Fairness

-----------------------------------------------------------------------------
\* Types of the gate, the listener and the process (main.go:98-239).
ServerTypeOK ==
    /\ GateTypeOK
    /\ ListenerTypeOK
    /\ holding \in Conns \cup {None}
    /\ acceptDone \in BOOLEAN
    /\ handler \in [Conns -> {"none", "running", "returned"}]
    /\ main \in {"serving", "draining", "finishing", "closing", "waitLeases",
                 "waitAccept", "exited"}
    /\ drained \in BOOLEAN /\ forced \in BOOLEAN /\ cancelled \in BOOLEAN

(***************************************************************************)
(* A drain that was not forced cuts nobody off: when main cancels the      *)
(* lifetime context after "Drain complete" (main.go:221, 233), every lease *)
(* ever given has been returned, and none can appear any more.             *)
(***************************************************************************)
CleanDrainCutsNobody == cancelled /\ ~forced => Leased = {}

(***************************************************************************)
(* "Keep the packet listener alive while draining: Pion's accepted DTLS    *)
(* connections share it" (main.go:152).  The shared UDP socket is closed   *)
(* only when no admitted connection can still use it, even though Accept   *)
(* raises connWG after it has taken a connection from the queue and may do *)
(* so when Close has already brought the counter to zero.  The WaitGroup   *)
(* misuse this can cause (udp_listener.go:77 against 103) can only end a   *)
(* process that has finished its drain window, and hits no such connection *)
(* either.                                                                 *)
(***************************************************************************)
ServedConnHasSocket ==
    /\ sock = "closed" \/ crashed => \A c \in Leased : uconn[c] \in {"released", "closed"}
    /\ crashed => cancelled

(***************************************************************************)
(* In UDP mode a signal always ends the process: main's sequence finish,   *)
(* cancel, listener.Close (which waits for every accepted connection to be *)
(* closed), gate.wait and acceptDone (main.go:229-238) never waits for     *)
(* something that waits for main.                                          *)
(***************************************************************************)
ShutdownCompletes == (main = "draining") ~> ~Running

(***************************************************************************)
(* "Cancelling the lifetime context releases established handlers."        *)
(* (main.go:231)                                                           *)
(***************************************************************************)
CancelReleasesHandlers ==
    \A c \in Conns : (cancelled /\ lease[c] = "serving") ~> (handler[c] = "returned" \/ ~Running)
=============================================================================
