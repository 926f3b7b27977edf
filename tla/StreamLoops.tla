----------------------------- MODULE StreamLoops -----------------------------
(***************************************************************************)
(* The UDP mode of the client: for every stream a loop that keeps up a     *)
(* DTLS connection and a loop that keeps up a TURN relay, joined by a      *)
(* packet pipe.  A DTLS connection makes a pipe and offers one end of it   *)
(* to the TURN loop for as long as it lasts; a relay that fails is         *)
(* replaced under a DTLS connection that stays.                            *)
(*                                                                         *)
(* A pipe is "current" while its DTLS connection lasts, then "closed", or  *)
(* "open" when nothing closed it.  How credentials are found is the        *)
(* subject of Credentials; here setting up a relay succeeds or fails.      *)
(***************************************************************************)
EXTENDS ClientRun

CONSTANTS
    Streams,          \* stream ids, 0 .. numStreams-1
    HandshakeSlots,   \* capacity of handshakeSem
    MaxLeftover       \* bound on goroutines left over on one pipe

ASSUME StreamConstants ==
    /\ Streams \subseteq Nat /\ IsFiniteSet(Streams) /\ 0 \in Streams
    /\ HandshakeSlots \in Nat \ {0} /\ MaxLeftover \in Nat

VARIABLES
    dtls,        \* oneDtlsConnectionLoop of a stream
    sem,         \* tokens in handshakeSem
    ok,          \* a goroutine of stream 0 is sending on okchan
    stale,       \* pipes of ended attempts whose offering goroutine is still there
    turn,        \* oneTurnConnectionLoop of a stream
    pipe,        \* the pipe the TURN loop has taken, or "none"
    leftover,    \* readers of earlier relays still blocked on the current pipe
    flow         \* this relay has forwarded a packet of the current pipe

dtlsVars == <<dtls, sem, ok, stale>>
turnVars == <<turn, pipe, leftover, flow>>
streamVars == <<dtlsVars, turnVars>>

StreamInit ==
    /\ dtls = [s \in Streams |-> "off"] /\ sem = 0 /\ ok = FALSE
    /\ stale = [s \in Streams |-> {}]
    /\ turn = [s \in Streams |-> "off"] /\ pipe = [s \in Streams |-> "none"]
    /\ leftover = [s \in Streams |-> 0] /\ flow = [s \in Streams |-> FALSE]

Dtls(s, to) == dtls' = [dtls EXCEPT ![s] = to]
Turn(s, to) == turn' = [turn EXCEPT ![s] = to]

-----------------------------------------------------------------------------
(* Run.                                                                    *)

StartLoops(ss) ==
    /\ dtls' = [s \in Streams |-> IF s \in ss THEN "idle" ELSE dtls[s]]
    /\ turn' = [s \in Streams |-> IF s \in ss THEN "wait" ELSE turn[s]]

StartUdp ==
    /\ run = "config" /\ mode = "udp"
    /\ run' = "first"
    /\ StartLoops({0})
    /\ UNCHANGED <<mode, cancelled, sem, ok, stale, pipe, leftover, flow>>

\* The first connection is up, or the context is done: the other streams start.
StartRest ==
    /\ run = "first"
    /\ ok \/ cancelled
    /\ run' = "wait" /\ ok' = FALSE
    /\ StartLoops(Streams \ {0})
    /\ UNCHANGED <<mode, cancelled, sem, stale, pipe, leftover, flow>>

\* wg1.Wait() returns.
UdpReturns ==
    /\ run = "wait"
    /\ \A s \in Streams : dtls[s] = "returned" /\ turn[s] = "returned"
    /\ run' = "returned" /\ cancelled' = TRUE
    /\ UNCHANGED <<mode, streamVars>>

-----------------------------------------------------------------------------
(* oneDtlsConnection and its loop.                                         *)

Attempting(s) == dtls[s] \in {"acquire", "handshake", "up"}

\* The waits after an error and the top of the loop; a new connection makes its pipe and
\* offers it.
DtlsTop(s) ==
    /\ dtls[s] = "idle"
    /\ Dtls(s, IF cancelled THEN "returned" ELSE "acquire")
    /\ UNCHANGED <<runVars, sem, ok, stale, turnVars>>

AcquireSlot(s) ==
    /\ dtls[s] = "acquire" /\ sem < HandshakeSlots
    /\ sem' = sem + 1
    /\ Dtls(s, "handshake")
    /\ UNCHANGED <<runVars, ok, stale, turnVars>>

\* oneDtlsConnection returns.  Its goroutine may go on offering the pipe until the select
\* happens to take the other case; a closed pipe makes the readers on it return.
EndAttempt(s, left) ==
    /\ Dtls(s, "idle")
    /\ stale' = [stale EXCEPT ![s] = @ \cup {left}]
    /\ pipe' = [pipe EXCEPT ![s] = IF @ = "current" THEN left ELSE @]
    /\ leftover' = [leftover EXCEPT ![s] = 0]
    /\ flow' = [flow EXCEPT ![s] = FALSE]
    /\ UNCHANGED turn

\* The context ends the wait for a slot: nobody closes the pipe.
AcquireCancelled(s) ==
    /\ dtls[s] = "acquire" /\ cancelled
    /\ EndAttempt(s, "open")
    /\ UNCHANGED <<runVars, sem, ok>>

\* The server answered through a relay that has forwarded something.
Established(s) ==
    /\ dtls[s] = "handshake"
    /\ turn[s] = "serving" /\ pipe[s] = "current" /\ flow[s]
    /\ Dtls(s, "up")
    /\ sem' = sem - 1
    /\ ok' = (ok \/ (s = 0 /\ run = "first"))
    /\ UNCHANGED <<runVars, stale, turnVars>>

\* Faulty variant: only a successful handshake gives its slot back.
HandshakeFails_KeepsSlot(s) ==
    /\ dtls[s] = "handshake"
    /\ EndAttempt(s, "closed")
    /\ UNCHANGED <<runVars, sem, ok>>

\* The handshake times out, is refused or cancelled; the DTLS library closes the pipe.
HandshakeFails(s) ==
    /\ dtls[s] = "handshake"
    /\ sem' = sem - 1
    /\ EndAttempt(s, "closed")
    /\ UNCHANGED <<runVars, ok>>

\* Faulty variant: no deadline is set when the context is done.
DtlsEnds_NoDeadline(s) ==
    /\ dtls[s] = "up"
    /\ turn[s] = "serving" /\ pipe[s] = "current"
    /\ EndAttempt(s, "closed")
    /\ UNCHANGED <<runVars, sem, ok>>

\* Reading fails, by the server's close or because the context is done, and the
\* connection is closed.
DtlsEnds(s) ==
    /\ dtls[s] = "up"
    /\ cancelled \/ (turn[s] = "serving" /\ pipe[s] = "current")
    /\ EndAttempt(s, "closed")
    /\ UNCHANGED <<runVars, sem, ok>>

\* Goroutines of an ended attempt see that its context is done.
StopOffering(s) ==
    /\ stale[s] # {}
    /\ \E p \in stale[s] : stale' = [stale EXCEPT ![s] = @ \ {p}]
    /\ UNCHANGED <<runVars, dtls, sem, ok, turnVars>>

OkGivenUp ==
    /\ ok /\ dtls[0] # "up"
    /\ ok' = FALSE
    /\ UNCHANGED <<runVars, dtls, sem, stale, turnVars>>

-----------------------------------------------------------------------------
(* oneTurnConnection and its loop.                                         *)

Offered(s) == stale[s] \cup IF Attempting(s) THEN {"current"} ELSE {}

\* A pipe is taken, and the relay may be set up as soon as the ticker that all streams
\* share fires.
TakePipe(s) ==
    /\ turn[s] = "wait"
    /\ \E p \in Offered(s) : pipe' = [pipe EXCEPT ![s] = p]
    /\ Turn(s, "setup")
    /\ UNCHANGED <<runVars, dtlsVars, leftover, flow>>

\* The context ends the wait for a pipe, for the ticker or after an error.
TurnReturns(s) ==
    /\ turn[s] = "wait" /\ cancelled
    /\ Turn(s, "returned")
    /\ UNCHANGED <<runVars, dtlsVars, pipe, leftover, flow>>

SetupRelay(s) ==
    /\ turn[s] = "setup"
    /\ Turn(s, "serving")
    /\ UNCHANGED <<runVars, dtlsVars, pipe, leftover, flow>>

\* Credentials, server or allocation fail; the loop waits and goes on.
RelaySetupFails(s) ==
    /\ turn[s] = "setup"
    /\ Turn(s, "wait")
    /\ pipe' = [pipe EXCEPT ![s] = "none"]
    /\ UNCHANGED <<runVars, dtlsVars, leftover, flow>>

\* FATAL_CAPTCHA: globalAppCancel.
FatalCaptcha(s) ==
    /\ turn[s] = "setup"
    /\ Turn(s, "returned")
    /\ cancelled' = TRUE
    /\ pipe' = [pipe EXCEPT ![s] = "none"]
    /\ UNCHANGED <<mode, run, dtlsVars, leftover, flow>>

\* oneTurnConnection returns and the loop goes on.
RelayOver(s) ==
    /\ Turn(s, "wait")
    /\ pipe' = [pipe EXCEPT ![s] = "none"]
    /\ flow' = [flow EXCEPT ![s] = FALSE]
    /\ UNCHANGED <<runVars, dtlsVars>>

\* Faulty variant: the reader of the pipe returns without turncancel().
PipeEnds_NoCancel(s) ==
    /\ turn[s] = "serving" /\ pipe[s] = "closed" /\ cancelled
    /\ RelayOver(s)
    /\ UNCHANGED leftover

\* The reader of the pipe meets its end and cancels the relay.
PipeEnds(s) ==
    /\ turn[s] = "serving" /\ pipe[s] = "closed"
    /\ RelayOver(s)
    /\ UNCHANGED leftover

\* The relay fails or the context is done.  The reader of the pipe is not waited for: it
\* stays blocked until the pipe brings a packet or its end.
RelayEnds(s) ==
    /\ turn[s] = "serving"
    /\ cancelled \/ leftover[s] < MaxLeftover
    /\ leftover' = IF pipe[s] = "current" /\ leftover[s] < MaxLeftover
                   THEN [leftover EXCEPT ![s] = @ + 1] ELSE leftover
    /\ RelayOver(s)

\* The relay refuses a packet: the reader of the pipe ends with it.
RelayRefuses(s) ==
    /\ turn[s] = "serving" /\ pipe[s] = "current" /\ dtls[s] \in {"handshake", "up"}
    /\ RelayOver(s)
    /\ UNCHANGED leftover

\* A packet of the DTLS connection is read by this relay's reader and forwarded, or by
\* one that was left over, which drops it, sees its own context done and returns.
Packet(s) ==
    /\ dtls[s] \in {"handshake", "up"}
    /\ \/ /\ turn[s] = "serving" /\ pipe[s] = "current"
          /\ flow' = [flow EXCEPT ![s] = TRUE]
          /\ UNCHANGED leftover
       \/ /\ leftover[s] > 0
          /\ leftover' = [leftover EXCEPT ![s] = @ - 1]
          /\ UNCHANGED flow
    /\ UNCHANGED <<runVars, dtlsVars, turn, pipe>>

-----------------------------------------------------------------------------
DtlsStep(s) ==
    \/ DtlsTop(s) \/ AcquireSlot(s) \/ AcquireCancelled(s) \/ Established(s)
    \/ HandshakeFails(s)

TurnStep(s) ==
    \/ TakePipe(s) \/ TurnReturns(s) \/ SetupRelay(s) \/ RelaySetupFails(s)
    \/ FatalCaptcha(s) \/ PipeEnds(s)

UdpNext ==
    \/ StartUdp \/ StartRest \/ UdpReturns \/ OkGivenUp
    \/ \E s \in Streams :
        \/ DtlsStep(s) \/ DtlsEnds(s) \/ StopOffering(s)
        \/ TurnStep(s) \/ RelayEnds(s) \/ RelayRefuses(s) \/ Packet(s)

StreamsTypeOK ==
    /\ dtls \in [Streams -> {"off", "idle", "acquire", "handshake", "up", "returned"}]
    /\ sem = Cardinality({s \in Streams : dtls[s] = "handshake"}) /\ sem <= HandshakeSlots
    /\ ok \in BOOLEAN
    /\ stale \in [Streams -> SUBSET {"closed", "open"}]
    /\ turn \in [Streams -> {"off", "wait", "setup", "serving", "returned"}]
    /\ pipe \in [Streams -> {"none", "current", "closed", "open"}]
    /\ leftover \in [Streams -> 0 .. MaxLeftover]
    /\ flow \in [Streams -> BOOLEAN]
=============================================================================
