---------------------------- MODULE Server_proofs ----------------------------
(***************************************************************************)
(* The server process, for every number of connections, every limit and    *)
(* both modes.  First, a step of the process is a step of the gate's       *)
(* specification and of the listener's, or leaves it alone: what is proved *)
(* about the two components holds in the server.  Then an invariant that   *)
(* ties them together gives the drain and socket properties: a connection  *)
(* that has a lease was counted by connWG before, so the counter cannot    *)
(* reach zero while it is in use, and connWG can be raised again only by   *)
(* an Accept whose connection the draining gate refuses.                   *)
(***************************************************************************)
EXTENDS Server, ConnectionGate_proofs, UdpListener_proofs

\* The types of the variables of the process itself.
ProcShape ==
    /\ holding \in Conns \cup {None}
    /\ acceptDone \in BOOLEAN
    /\ handler \in [Conns -> {"none", "running", "returned"}]
    /\ main \in {"serving", "draining", "finishing", "closing", "waitLeases",
                 "waitAccept", "exited"}
    /\ drained \in BOOLEAN /\ forced \in BOOLEAN /\ cancelled \in BOOLEAN

\* Every step keeps those types.
LEMMA ProcStep == ProcShape /\ [Next]_vars => ProcShape'
  <1> SUFFICES ASSUME ProcShape, [Next]_vars PROVE ProcShape'
    OBVIOUS
  <1> USE DEF ProcShape
  <1>1. CASE UNCHANGED procVars
    BY <1>1 DEF procVars
  <1>2. ASSUME NEW c \in Conns, AcceptBegins(c) PROVE ProcShape'
    BY <1>2 DEF AcceptBegins
  <1>3. ASSUME NEW p \in Pressure, AdmitConn(p) PROVE ProcShape'
    BY <1>3 DEF AdmitConn
  <1>4. CASE RefuseForget \/ AcceptLoopEnds
    BY <1>4 DEF RefuseForget, AcceptLoopEnds
  <1>5. ASSUME NEW c \in Conns, HandlerReturns(c) PROVE ProcShape'
    BY <1>5 DEF HandlerReturns
  <1>6. CASE FirstSignal \/ DrainWaiter \/ DrainCompletes \/ DrainForced \/ Cancel
    BY <1>6 DEF FirstSignal, DrainWaiter, DrainCompletes, DrainForced, Cancel
  <1>7. CASE ListenerClosed \/ LeasesReturned \/ Exit
    BY <1>7 DEF ListenerClosed, LeasesReturned, Exit
  <1> QED
    BY <1>1, <1>2, <1>3, <1>4, <1>5, <1>6, <1>7
    DEF Next, Step, Terminated, vars, NewPeer, ReaderStops, WaiterStep, AcceptLoop, AcceptReturns,
        RejectConn, RefuseClose, Handler, HandshakeSucceeds, MarkContinues, HandshakeFails,
        ServeEnds, ContextReleases, HandlerClose, HandlerDone, Main, CloseListener

\* A step of the server is a step of the gate or leaves the gate alone.
LEMMA ServerGateStep ==
    ASSUME ProcShape, [Next]_vars
    PROVE  [GateNext]_gateVars
  <1> USE DEF ProcShape
  <1>1. ASSUME NEW p \in Pressure, AdmitConn(p) \/ RejectConn(p) PROVE GateNext
    BY <1>1 DEF AdmitConn, RejectConn, GateNext
  <1>2. ASSUME NEW c \in Conns, HandshakeSucceeds(c) \/ MarkContinues(c) \/ HandlerDone(c)
        PROVE  GateNext
    BY <1>2 DEF HandshakeSucceeds, MarkContinues, HandlerDone, GateNext, MarkStep
  <1>3. CASE FirstSignal
    BY <1>3 DEF FirstSignal, GateNext
  <1>4. CASE UNCHANGED gateVars
    BY <1>4
  <1> QED
    BY <1>1, <1>2, <1>3, <1>4
    DEF Next, Step, Terminated, vars, NewPeer, ReaderStops, WaiterStep, AcceptLoop, AcceptBegins,
        AcceptReturns, AcceptLoopEnds, RefuseClose, RefuseForget, Handler, HandshakeFails, ServeEnds,
        ContextReleases, HandlerReturns, HandlerClose, DrainWaiter, Main, DrainCompletes,
        DrainForced, Cancel, CloseListener, ListenerClosed, LeasesReturned, Exit

\* A step of the server is a step of the listener or leaves the listener alone.
LEMMA ServerListenerStep ==
    ASSUME ProcShape, [Next]_vars
    PROVE  [ListenerNext]_listenerVars
  <1> USE DEF ProcShape
  <1>1. ASSUME NEW a \in Addrs, NEW c \in Conns, NewPeer(a, c) PROVE ListenerNext
    BY <1>1 DEF NewPeer, ListenerNext
  <1>2. CASE ReaderStops \/ WaiterStep \/ AcceptLoopEnds \/ CloseListener
    BY <1>2 DEF ReaderStops, WaiterStep, AcceptLoopEnds, CloseListener, ListenerNext
  <1>3. ASSUME NEW c \in Conns, AcceptBegins(c) \/ HandlerClose(c) PROVE ListenerNext
    BY <1>3 DEF AcceptBegins, HandlerClose, ListenerNext
  <1>4. CASE AcceptReturns \/ RefuseClose \/ RefuseForget
    BY <1>4 DEF AcceptReturns, RefuseClose, RefuseForget, ListenerNext
  <1>5. CASE UNCHANGED listenerVars
    BY <1>5
  <1> QED
    BY <1>1, <1>2, <1>3, <1>4, <1>5
    DEF Next, Step, Terminated, vars, AcceptLoop, AdmitConn, RejectConn, Handler,
        HandshakeSucceeds, MarkContinues, HandshakeFails, ServeEnds, ContextReleases,
        HandlerReturns, HandlerDone, DrainWaiter, Main, FirstSignal, DrainCompletes, DrainForced,
        Cancel, ListenerClosed, LeasesReturned, Exit

-----------------------------------------------------------------------------
\* A connection with a lease was accepted, and its socket is its own to close.
LeasedWasAccepted == \A c \in Leased : uconn[c] \in {"accepted", "released", "closed"}

\* The order of main(): admission closes first, then the context, then the listener.
ShutdownOrder ==
    /\ main # "serving" => draining
    /\ main \notin {"serving", "draining"} => forced \/ drained
    /\ cancelled <=> main \notin {"serving", "draining", "finishing"}
    /\ closer # "open" => cancelled
    /\ drained => draining /\ wg = 0

\* Once connWG has reached zero, no connection with a lease is in use.
ReleasedWhenWoken ==
    waiter # "waiting" => \A c \in Leased : uconn[c] \in {"released", "closed"}

ServerInv ==
    /\ GateInv
    /\ ListenerInv
    /\ ProcShape
    /\ LeasedWasAccepted
    /\ ShutdownOrder
    /\ ReleasedWhenWoken

\* The initial state satisfies the invariant.
LEMMA ServerInitInv == Init => ServerInv
  <1> SUFFICES ASSUME Init PROVE ServerInv
    OBVIOUS
  <1>1. GateInv /\ ListenerInv
    BY GateInitInv, ListenerInitInv DEF Init
  <1>2. ProcShape
    BY DEF Init, ProcShape
  <1>3. Leased = {}
    BY DEF Init, GateInit, Leased, InState
  <1>4. ShutdownOrder
    BY DEF Init, ListenerInit, ShutdownOrder
  <1> QED
    BY <1>1, <1>2, <1>3, <1>4 DEF ServerInv, LeasedWasAccepted, ReleasedWhenWoken

\* Which connections gain a lease in a step: only the one the accept loop admits.
LEMMA LeaseGained ==
    ASSUME ServerInv, [Next]_vars, NEW c \in Leased', c \notin Leased
    PROVE  /\ \E p \in Pressure : AdmitConn(p)
           /\ c = holding /\ uconn[c] = "accepted" /\ uconn' = uconn
           /\ draining = FALSE
  <1>1. c \in Conns /\ lease[c] \notin {"handshaking", "marking", "counting", "serving",
                                         "retiring", "leaving"}
    BY DEF Leased, InState
  <1>2. \E p \in Pressure : AdmitConn(p)
    BY <1>1 DEF Leased, InState, ServerInv, GateInv, ProcShape,
        Next, Step, Terminated, vars, gateVars, NewPeer, ReaderStops, WaiterStep, AcceptLoop,
        AcceptBegins, AcceptReturns, AcceptLoopEnds, RejectConn, Reject, RefuseClose, RefuseForget,
        Handler, HandshakeSucceeds, MarkEstablished, MarkContinues, LowerHandshakes,
        RaiseEstablished, HandshakeFails, ServeEnds, ContextReleases, HandlerReturns, HandlerClose,
        HandlerDone, DoneStep, Done, LowerActive, WgDone, DrainWaiter, Main, FirstSignal,
        BeginDrain, DrainCompletes, DrainForced, Cancel, CloseListener, ListenerClosed,
        LeasesReturned, Exit
  <1>3. PICK p \in Pressure : AdmitConn(p)
    BY <1>2
  <1>4. c = holding
    BY <1>1, <1>3 DEF AdmitConn, Admit, Leased, InState, ServerInv, GateInv
  <1>5. draining = FALSE
    BY <1>3, AdmitHasRoom DEF AdmitConn, Admit, ServerInv
  <1> QED
    BY <1>2, <1>3, <1>4, <1>5 DEF AdmitConn, listenerVars

\* A connection that was accepted moves only towards closed.
LEMMA ConnMoves ==
    ASSUME ServerInv, [Next]_vars, NEW c \in Conns
    PROVE  /\ uconn[c] \in {"accepted", "released", "closed"}
                => uconn'[c] \in {"accepted", "released", "closed"}
           /\ uconn[c] \in {"released", "closed"} => uconn'[c] \in {"released", "closed"}
  <1>1. [ListenerNext]_listenerVars
    BY ServerListenerStep DEF ServerInv
  <1>2. acceptCh # <<>> => Head(acceptCh) \in Conns /\ uconn[Head(acceptCh)] = "queued"
    BY QueueHead DEF ServerInv, ListenerInv, ListenerShape, QueueExact
  <1> QED
    BY <1>1, <1>2 DEF ServerInv, ListenerInv, ListenerShape, ListenerNext, listenerVars, getConn,
        AcceptTake, AcceptAdd, ConnClose, ConnForget, CloseBegin, CloseDiscard, CloseRelease,
        ReadFails, WaiterRuns, AcceptFails

\* Every step keeps LeasedWasAccepted.
LEMMA LeasedStep ==
    ASSUME ServerInv, [Next]_vars
    PROVE  LeasedWasAccepted'
  <1> SUFFICES ASSUME NEW c \in Leased' PROVE uconn'[c] \in {"accepted", "released", "closed"}
    BY DEF LeasedWasAccepted
  <1>1. CASE c \in Leased
    BY <1>1, ConnMoves DEF ServerInv, LeasedWasAccepted, Leased, InState
  <1>2. CASE c \notin Leased
    BY <1>2, LeaseGained
  <1> QED
    BY <1>1, <1>2

\* Every step keeps the order of the shutdown.
LEMMA OrderStep ==
    ASSUME ServerInv, [Next]_vars
    PROVE  ShutdownOrder'
  <1>1. [GateNext]_gateVars /\ ProcShape
    BY ServerGateStep DEF ServerInv
  <1>2. GateInv' /\ GateInv /\ ShutdownOrder
    BY <1>1, GateNextInv DEF ServerInv
  <1>3. draining => draining' /\ wg' <= wg
    BY <1>1, <1>2, DrainingStep
  <1>4. wg \in Nat /\ wg' \in Nat
    <2>1. Leased \in SUBSET Conns /\ Leased' \in SUBSET Conns
      BY DEF Leased, InState
    <2> QED
      BY <1>2, <2>1, SubsetFinite DEF GateInv, CountersExact
  <1>5. drained => draining' /\ wg' = 0
    BY <1>2, <1>3, <1>4 DEF ShutdownOrder
  <1> USE DEF ShutdownOrder, ProcShape
  <1>6. ASSUME UNCHANGED <<main, forced, drained, cancelled, closer>> PROVE ShutdownOrder'
    BY <1>2, <1>3, <1>5, <1>6
  <1>7. CASE FirstSignal
    BY <1>1, <1>2, <1>5, <1>7 DEF FirstSignal, BeginDrain, listenerVars
  <1>8. CASE DrainWaiter
    BY <1>1, <1>2, <1>3, <1>8 DEF DrainWaiter, gateVars, listenerVars
  <1>9. CASE DrainCompletes \/ DrainForced \/ Cancel
    BY <1>1, <1>2, <1>3, <1>5, <1>9 DEF DrainCompletes, DrainForced, Cancel, listenerVars
  <1>10. CASE CloseListener
    <2>1. UNCHANGED <<main, forced, drained, cancelled>> /\ cancelled
      BY <1>2, <1>10 DEF CloseListener, procVars, CloseBegin, CloseDiscard, CloseRelease
    <2> QED
      BY <1>2, <1>3, <1>5, <2>1
  <1>11. CASE ListenerClosed \/ LeasesReturned \/ Exit
    BY <1>1, <1>2, <1>3, <1>5, <1>11 DEF ListenerClosed, LeasesReturned, Exit, listenerVars
  <1> QED
    BY <1>6, <1>7, <1>8, <1>9, <1>10, <1>11
    DEF Next, Step, Terminated, vars, listenerVars, procVars, NewPeer, getConn, ReaderStops,
        ReadFails, WaiterStep, WaiterRuns, AcceptLoop, AcceptBegins, AcceptTake, AcceptReturns,
        AcceptAdd, AcceptLoopEnds, AcceptFails, AdmitConn, RejectConn, RefuseClose, ConnClose,
        RefuseForget, ConnForget, Handler, HandshakeSucceeds, MarkContinues, HandshakeFails,
        ServeEnds, ContextReleases, HandlerReturns, HandlerClose, HandlerDone, Main

\* Every step keeps ReleasedWhenWoken: the goroutine wakes when connWG is zero, and
\* afterwards no connection gains a lease.
LEMMA WokenStep ==
    ASSUME ServerInv, [Next]_vars, ConnWGExact'
    PROVE  ReleasedWhenWoken'
  <1> SUFFICES ASSUME waiter' # "waiting", NEW c \in Leased'
               PROVE  uconn'[c] \in {"released", "closed"}
    BY DEF ReleasedWhenWoken
  <1>0. c \in Conns /\ uconn'[c] \in {"accepted", "released", "closed"}
    BY LeasedStep DEF LeasedWasAccepted, Leased, InState
  <1>1. CASE waiter = "waiting"
    <2>1. connWG' = 0 /\ closer' \in {"open", "discarding", "released"}
      <3>1. [ListenerNext]_listenerVars
        BY ServerListenerStep DEF ServerInv
      <3>2. ConnWGExact /\ ListenerShape /\ Cardinality(Counted) \in Nat
        BY CountedFinite DEF ServerInv, ListenerInv
      <3>3. connWG \in Nat
        BY <3>2 DEF ConnWGExact
      <3>4. \/ \E d \in Conns : ConnClose(d)
            \/ CloseRelease
        BY <1>1, <3>1 DEF ListenerNext, listenerVars, getConn, AcceptTake, AcceptAdd, ConnForget,
            CloseBegin, CloseDiscard, ReadFails, WaiterRuns, AcceptFails
      <3> QED
        BY <1>1, <3>2, <3>3, <3>4 DEF ConnClose, CloseRelease, ConnWGDone, ListenerShape
    <2>2. Counted' \in SUBSET Conns
      BY DEF Counted
    <2>3. IsFiniteSet(Counted') /\ Cardinality(Counted') \in Nat
      BY <2>2, ConnsFinite, FS_Subset, FS_CardinalityType
    <2>4. Cardinality(Counted') = 0
      BY <2>1, <2>3 DEF ConnWGExact
    <2>5. Counted' = {}
      BY <2>3, <2>4, FS_EmptySet
    <2> QED
      BY <1>0, <2>5 DEF Counted
  <1>2. CASE waiter # "waiting"
    <2>1. c \in Leased
      <3>1. draining
        BY <1>2 DEF ServerInv, ListenerInv, SocketOrder, ShutdownOrder
      <3> QED
        BY <3>1, LeaseGained
    <2> QED
      BY <1>0, <1>2, <2>1, ConnMoves DEF ServerInv, ReleasedWhenWoken
  <1> QED
    BY <1>1, <1>2

\* Every step of the server keeps the invariant.
LEMMA ServerNextInv == ServerInv /\ [Next]_vars => ServerInv'
  <1> SUFFICES ASSUME ServerInv, [Next]_vars PROVE ServerInv'
    OBVIOUS
  <1>1. GateInv'
    BY ServerGateStep, GateNextInv DEF ServerInv
  <1>2. ListenerInv'
    BY ServerListenerStep, ListenerNextInv DEF ServerInv
  <1>3. ProcShape'
    BY ProcStep DEF ServerInv
  <1>4. ConnWGExact'
    BY <1>2 DEF ListenerInv
  <1> QED
    BY <1>1, <1>2, <1>3, <1>4, LeasedStep, OrderStep, WokenStep DEF ServerInv

\* The invariant implies what is claimed of the server.
LEMMA ServerInvSafety ==
    ServerInv => ServerTypeOK /\ CleanDrainCutsNobody /\ ServedConnHasSocket
  <1> SUFFICES ASSUME ServerInv
               PROVE  ServerTypeOK /\ CleanDrainCutsNobody /\ ServedConnHasSocket
    OBVIOUS
  <1>1. ServerTypeOK
    BY GateInvType, ListenerInvType DEF ServerInv, ServerTypeOK, ProcShape
  <1>2. CleanDrainCutsNobody
    <2> SUFFICES ASSUME cancelled, ~forced PROVE Leased = {}
      BY DEF CleanDrainCutsNobody
    <2>1. wg = 0
      BY DEF ServerInv, ShutdownOrder, ProcShape
    <2>2. Cardinality(Leased) = 0 /\ IsFiniteSet(Leased)
      BY <2>1, CountedSets, SubsetFinite DEF ServerInv, GateInv, CountersExact
    <2> QED
      BY <2>2, FS_EmptySet
  <1>3. ServedConnHasSocket
    BY DEF ServerInv, ListenerInv, SocketOrder, ReleasedWhenWoken, ShutdownOrder, ServedConnHasSocket
  <1> QED
    BY <1>1, <1>2, <1>3

-----------------------------------------------------------------------------
(***************************************************************************)
(* The process drives the gate as the gate's specification allows.         *)
(***************************************************************************)
THEOREM ServerImplementsGate == Spec => GateSpec
  <1>1. Init => GateInit
    BY DEF Init
  <1>2. ServerInv /\ [Next]_vars => [GateNext]_gateVars
    BY ServerGateStep DEF ServerInv
  <1> QED
    BY <1>1, <1>2, ServerInitInv, ServerNextInv, PTL DEF Spec, GateSpec

(***************************************************************************)
(* The process drives the listener as the listener's specification allows. *)
(***************************************************************************)
THEOREM ServerImplementsListener == Spec => ListenerSpec
  <1>1. Init => ListenerInit
    BY DEF Init
  <1>2. ServerInv /\ [Next]_vars => [ListenerNext]_listenerVars
    BY ServerListenerStep DEF ServerInv
  <1> QED
    BY <1>1, <1>2, ServerInitInv, ServerNextInv, PTL DEF Spec, ListenerSpec

(***************************************************************************)
(* Type correctness of the whole process: no counter is ever negative.     *)
(***************************************************************************)
THEOREM ServerTypeCorrect == Spec => []ServerTypeOK
  <1>1. ServerInv => ServerTypeOK
    BY ServerInvSafety
  <1> QED
    BY <1>1, ServerInitInv, ServerNextInv, PTL DEF Spec

(***************************************************************************)
(* The gate's guarantees in the running server: exact counters, bounded    *)
(* admission, and admission closed for good by the first signal.           *)
(***************************************************************************)
THEOREM ServerAdmission ==
    Spec => []CountersExact /\ []AdmissionBounded /\ AdmissionStaysClosed
  BY ServerImplementsGate, GateCountersExact, GateAdmissionBounded, GateAdmissionStaysClosed, PTL

(***************************************************************************)
(* The listener's guarantees in the running server.                        *)
(***************************************************************************)
THEOREM ServerRouting == Spec => []PeersStayRouted /\ []ConnWGExact
  BY ServerImplementsListener, ListenerRouting, ListenerShares, PTL

(***************************************************************************)
(* A drain that is not forced cuts off no connection.                      *)
(***************************************************************************)
THEOREM ServerCleanDrain == Spec => []CleanDrainCutsNobody
  <1>1. ServerInv => CleanDrainCutsNobody
    BY ServerInvSafety
  <1> QED
    BY <1>1, ServerInitInv, ServerNextInv, PTL DEF Spec

(***************************************************************************)
(* The socket outlives every admitted connection, and the WaitGroup panic  *)
(* cannot hit one.                                                         *)
(***************************************************************************)
THEOREM ServerSocket == Spec => []ServedConnHasSocket
  <1>1. ServerInv => ServedConnHasSocket
    BY ServerInvSafety
  <1> QED
    BY <1>1, ServerInitInv, ServerNextInv, PTL DEF Spec
=============================================================================
