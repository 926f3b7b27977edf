------------------------------- MODULE Client -------------------------------
(***************************************************************************)
(* The client process: Run with the loops of its UDP mode or the sessions  *)
(* and connections of its VLESS mode.                                      *)
(***************************************************************************)
EXTENDS StreamLoops, VlessClient

vars == <<runVars, streamVars, vlessVars>>

\* A plan without sessions is one for the UDP mode.
Init ==
    /\ RunInit /\ StreamInit /\ VlessInit
    /\ mode = "udp" <=> plan.sessions = 0

RunNext == ConfigFails \/ Cancel

\* Run has returned.
Finished == run = "returned" /\ UNCHANGED vars

Next ==
    \/ RunNext /\ UNCHANGED <<streamVars, vlessVars>>
    \/ UdpNext /\ UNCHANGED vlessVars
    \/ VlessNext /\ UNCHANGED streamVars
    \/ Finished

Spec == Init /\ [][Next]_vars

(***************************************************************************)
(* The goroutines run, waits and handshakes end, credentials are found in  *)
(* the end, and a DTLS connection has something to send (keepalives of the *)
(* tunnel, retransmissions).  Nobody makes relays, sessions or peers fail, *)
(* and only the cancelled context makes what is up end.  Senders that wait *)
(* for handshakeSem are queued, so that taking a slot is strongly fair.    *)
(***************************************************************************)
RunFairness ==
    /\ WF_vars((StartUdp \/ StartRest \/ UdpReturns) /\ UNCHANGED vlessVars)
    /\ WF_vars((StartVless \/ Listen \/ AcceptEnds \/ VlessReturns) /\ UNCHANGED streamVars)

StreamFairness(s) ==
    /\ WF_vars((DtlsStep(s) \/ (cancelled /\ DtlsEnds(s))) /\ UNCHANGED vlessVars)
    /\ WF_vars((TurnStep(s) \/ (cancelled /\ RelayEnds(s))) /\ UNCHANGED vlessVars)
    /\ WF_vars(StopOffering(s) /\ UNCHANGED vlessVars)
    /\ WF_vars(Packet(s) /\ UNCHANGED vlessVars)
    /\ SF_vars(AcquireSlot(s) /\ UNCHANGED vlessVars)

SessionFairness(i) == WF_vars(i \in Sessions /\ MaintStep(i) /\ UNCHANGED streamVars)

ConnFairness(c) == WF_vars(c \in Conns /\ ConnStep(c) /\ UNCHANGED streamVars)

MaxOf(field) == Max({p[field] : p \in Plans})

FairSpec ==
    /\ Spec /\ RunFairness
    /\ \A s \in Streams : StreamFairness(s)
    /\ \A i \in 0 .. MaxOf("sessions") - 1 : SessionFairness(i)
    /\ \A c \in 1 .. MaxOf("conns") : ConnFairness(c)

-----------------------------------------------------------------------------
\* Values of the variables; a handshake slot is held by the streams in a handshake only.
ClientTypeOK ==
    /\ mode \in {"udp", "vless"} /\ cancelled \in BOOLEAN
    /\ run \in {"config", "first", "wait", "sessions", "accept", "drain", "returned"}
    /\ StreamsTypeOK /\ VlessTypeOK

(***************************************************************************)
(* createSmuxSession and maintainVLESSSession: whichever stage fails, and  *)
(* however a session ends, the layers below are torn down and the pool has *)
(* forgotten the session before the maintainer waits or returns; the pool  *)
(* has no session twice.                                                   *)
(***************************************************************************)
NothingHeldBetweenSessions ==
    \A i \in Sessions :
        /\ maint[i] \in {"idle", "returned"} => open[i] = 0 /\ i \notin ToSet(pool)
        /\ Cardinality({k \in DOMAIN pool : pool[k] = i}) <= 1

(***************************************************************************)
(* Run: a cancelled context, also one that a fatal captcha cancelled, ends *)
(* every loop, session and connection, wherever they stand, and Run        *)
(* returns.                                                                *)
(***************************************************************************)
RunReturns == cancelled ~> run = "returned"

(***************************************************************************)
(* oneTurnConnection: a relay is not kept for nothing.  One that serves a  *)
(* pipe whose DTLS connection is gone is given up, and one that serves the *)
(* current pipe forwards its packets, although readers left over from      *)
(* earlier relays read the same pipe and the DTLS connection may have to   *)
(* wait for a handshake slot first.                                        *)
(***************************************************************************)
RelayServes == \A s \in Streams : turn[s] = "serving" ~> (flow[s] \/ turn[s] # "serving")

(***************************************************************************)
(* pickStreamServerAddr, rotateStreamServer and the cooldown: while one    *)
(* TURN server of the credentials works, every session is established, no  *)
(* matter how often and at which stage the others fail.                    *)
(***************************************************************************)
SessionReached ==
    \A i \in 0 .. MaxOf("sessions") - 1 :
        (run = "sessions" /\ i \in Sessions /\ ~plan.localErrors) ~> ((i \in Sessions => maint[i] = "live") \/ cancelled)

(***************************************************************************)
(* pipe and pipeConn: when both TCP peers have ended a connection, both    *)
(* processes release it.  The server's two copies wait for one another's   *)
(* cause, so that it is the client that has to end both directions first.  *)
(***************************************************************************)
EndedConnectionReleased ==
    \A c \in 1 .. MaxOf("conns") :
        (c \in Conns /\ eof[c] = {"local", "backend"}) ~> (c \in Conns => cli[c] = "closed" /\ srv[c] = "closed")
=============================================================================
