--------------------------- MODULE ConnectionGate ---------------------------
(***************************************************************************)
(* The admission gate of the server (server/drain.go).  Every accepted     *)
(* DTLS connection asks the gate for a lease; the handler goroutine then   *)
(* moves that lease through the handshake, the serving phase and its       *)
(* release.  admit, beginDrain and the rejection rule run under g.mu, so   *)
(* each is one step.  markEstablished and done take no lock: they are      *)
(* sequences of atomic adds, and every add is a step of its own here,      *)
(* because an admission may read the counters between any two of them.     *)
(*                                                                         *)
(* The telemetry counters (serverMetrics) that these functions also bump   *)
(* are write-only for the program's decisions and are left out.            *)
(***************************************************************************)
EXTENDS Integers, Connections

CONSTANTS
    maxSessions,        \* -max-sessions, 0 = unlimited
    maxHandshakes,      \* -max-handshakes, 0 = unlimited
    canary,             \* -canary
    canaryMaxSessions   \* -canary-max-sessions, 0 = no canary limit

ASSUME GateConstants ==
    /\ maxSessions \in Nat
    /\ maxHandshakes \in Nat
    /\ canaryMaxSessions \in Nat

ASSUME CanaryIsFlag == canary \in BOOLEAN

VARIABLES
    draining,      \* g.draining
    active,        \* g.active
    established,   \* g.established
    handshakes,    \* g.handshakes
    wg,            \* the counter of g.wg
    lease          \* where the goroutine of each connection stands

gateVars == <<draining, active, established, handshakes, wg, lease>>

(***************************************************************************)
(* lease[c]:                                                               *)
(*   none         admit has not been called for c                          *)
(*   rejected     admit returned a reason                                  *)
(*   handshaking  admitted, l.established is still false                   *)
(*   marking      the CAS set l.established, handshakes not yet lowered    *)
(*   counting     handshakes lowered, established not yet raised           *)
(*   serving      markEstablished has returned                             *)
(*   retiring     done() lowered its phase counter, active not yet         *)
(*   leaving      active lowered, wg.Done() not yet                        *)
(*   gone         done() has returned                                      *)
(***************************************************************************)
LeaseState == {"none", "rejected", "handshaking", "marking", "counting",
               "serving", "retiring", "leaving", "gone"}

InState(S) == {c \in Conns : lease[c] \in S}

InHandshake   == InState({"handshaking", "marking"})
InService     == InState({"serving"})
CountedActive == InState({"handshaking", "marking", "counting", "serving", "retiring"})
Leased        == InState({"handshaking", "marking", "counting", "serving",
                          "retiring", "leaving"})

GateInit ==
    /\ draining = FALSE
    /\ active = 0 /\ established = 0 /\ handshakes = 0 /\ wg = 0
    /\ lease = [c \in Conns |-> "none"]

\* Faulty variant: the canary limit replaces the ordinary one even when it is looser.
effectiveMaxSessions_CanaryWins ==
    IF canary /\ canaryMaxSessions > 0 THEN canaryMaxSessions ELSE maxSessions

\* admissionConfig.effectiveMaxSessions
effectiveMaxSessions ==
    IF canary /\ canaryMaxSessions > 0
              /\ (maxSessions <= 0 \/ canaryMaxSessions < maxSessions)
    THEN canaryMaxSessions
    ELSE maxSessions

(***************************************************************************)
(* rejectionReasonLocked.  pressure is what the goroutine count and the    *)
(* descriptor count of the process say at this moment; both are driven by  *)
(* the rest of the process and are an input here.                          *)
(***************************************************************************)
Pressure == {"", "goroutines", "file_descriptors"}

\* Faulty variant: the handshake limit is compared with > instead of >=.
rejectionReason_OffByOne(pressure) ==
    IF draining THEN "drain"
    ELSE IF effectiveMaxSessions > 0 /\ active >= effectiveMaxSessions THEN "sessions"
    ELSE IF maxHandshakes > 0 /\ handshakes > maxHandshakes THEN "handshakes"
    ELSE pressure

\* Faulty variant: draining is not a reason to refuse.
rejectionReason_ForgetsDrain(pressure) ==
    IF effectiveMaxSessions > 0 /\ active >= effectiveMaxSessions THEN "sessions"
    ELSE IF maxHandshakes > 0 /\ handshakes >= maxHandshakes THEN "handshakes"
    ELSE pressure

rejectionReason(pressure) ==
    IF draining THEN "drain"
    ELSE IF effectiveMaxSessions > 0 /\ active >= effectiveMaxSessions THEN "sessions"
    ELSE IF maxHandshakes > 0 /\ handshakes >= maxHandshakes THEN "handshakes"
    ELSE pressure

\* connectionGate.admit, the branch that returns a lease.
Admit(c, pressure) ==
    /\ lease[c] = "none"
    /\ rejectionReason(pressure) = ""
    /\ wg' = wg + 1
    /\ active' = active + 1
    /\ handshakes' = handshakes + 1
    /\ lease' = [lease EXCEPT ![c] = "handshaking"]
    /\ UNCHANGED <<draining, established>>

\* connectionGate.admit, the branch that returns a reason.
Reject(c, pressure) ==
    /\ lease[c] = "none"
    /\ rejectionReason(pressure) # ""
    /\ lease' = [lease EXCEPT ![c] = "rejected"]
    /\ UNCHANGED <<draining, active, established, handshakes, wg>>

\* markEstablished: the CompareAndSwap on l.established.
MarkEstablished(c) ==
    /\ lease[c] = "handshaking"
    /\ lease' = [lease EXCEPT ![c] = "marking"]
    /\ UNCHANGED <<draining, active, established, handshakes, wg>>

\* markEstablished: handshakes.Add(-1).
LowerHandshakes(c) ==
    /\ lease[c] = "marking"
    /\ handshakes' = handshakes - 1
    /\ lease' = [lease EXCEPT ![c] = "counting"]
    /\ UNCHANGED <<draining, active, established, wg>>

\* markEstablished: established.Add(1).
RaiseEstablished(c) ==
    /\ lease[c] = "counting"
    /\ established' = established + 1
    /\ lease' = [lease EXCEPT ![c] = "serving"]
    /\ UNCHANGED <<draining, active, handshakes, wg>>

\* Faulty variant: done() gives back a handshake slot whatever the lease's phase.
Done_WrongCounter(c) ==
    /\ lease[c] \in {"handshaking", "serving"}
    /\ handshakes' = handshakes - 1
    /\ lease' = [lease EXCEPT ![c] = "retiring"]
    /\ UNCHANGED <<draining, active, established, wg>>

\* done: l.established.Load() and the add it selects.
Done(c) ==
    /\ \/ /\ lease[c] = "serving"
          /\ established' = established - 1
          /\ UNCHANGED handshakes
       \/ /\ lease[c] = "handshaking"
          /\ handshakes' = handshakes - 1
          /\ UNCHANGED established
    /\ lease' = [lease EXCEPT ![c] = "retiring"]
    /\ UNCHANGED <<draining, active, wg>>

\* done: active.Add(-1).
LowerActive(c) ==
    /\ lease[c] = "retiring"
    /\ active' = active - 1
    /\ lease' = [lease EXCEPT ![c] = "leaving"]
    /\ UNCHANGED <<draining, established, handshakes, wg>>

\* done: wg.Done().
WgDone(c) ==
    /\ lease[c] = "leaving"
    /\ wg' = wg - 1
    /\ lease' = [lease EXCEPT ![c] = "gone"]
    /\ UNCHANGED <<draining, active, established, handshakes>>

\* beginDrain.
BeginDrain ==
    /\ draining' = TRUE
    /\ UNCHANGED <<active, established, handshakes, wg, lease>>

MarkStep(c) == MarkEstablished(c) \/ LowerHandshakes(c) \/ RaiseEstablished(c)
DoneStep(c) == Done(c) \/ LowerActive(c) \/ WgDone(c)

GateNext ==
    \/ \E c \in Conns, p \in Pressure : Admit(c, p) \/ Reject(c, p)
    \/ \E c \in Conns : MarkStep(c) \/ DoneStep(c)
    \/ BeginDrain

\* What the gate promises to whoever drives it (see Server.tla).
GateSpec == GateInit /\ [][GateNext]_gateVars

-----------------------------------------------------------------------------
\* The counters of connectionGate (drain.go:15-23) are never negative and a
\* lease is always in one of its states.
GateTypeOK ==
    /\ draining \in BOOLEAN
    /\ active \in Nat /\ established \in Nat /\ handshakes \in Nat /\ wg \in Nat
    /\ lease \in [Conns -> LeaseState]

(***************************************************************************)
(* The four counters that admit, readiness, /metrics and Wait read agree   *)
(* with where the handler goroutines really are, between any two atomic    *)
(* adds of markEstablished (drain.go:86) and done (drain.go:94): none is   *)
(* lost, doubled or given back to the wrong phase.                         *)
(***************************************************************************)
CountersExact ==
    /\ handshakes = Cardinality(InHandshake)
    /\ established = Cardinality(InService)
    /\ active = Cardinality(CountedActive)
    /\ wg = Cardinality(Leased)

(***************************************************************************)
(* The limits of the flags hold for the connections themselves, not only   *)
(* for the counters: however admissions interleave with the unlocked adds  *)
(* of other goroutines, never more than -max-sessions connections (and on  *)
(* a canary never more than -canary-max-sessions) are between admission    *)
(* and release, and never more than -max-handshakes are still shaking      *)
(* hands.  rejectionReasonLocked, drain.go:50.                             *)
(***************************************************************************)
AdmissionBounded ==
    /\ maxSessions > 0 => Cardinality(CountedActive) <= maxSessions
    /\ canary /\ canaryMaxSessions > 0 => Cardinality(CountedActive) <= canaryMaxSessions
    /\ maxHandshakes > 0 => Cardinality(InHandshake) <= maxHandshakes

(***************************************************************************)
(* connectionGate "closes admission atomically before Wait begins"         *)
(* (drain.go:26): once draining, no connection ever gets a lease, so the   *)
(* WaitGroup that Wait watches can only fall.                              *)
(***************************************************************************)
AdmissionStaysClosed ==
    [][draining => /\ draining'
                   /\ Leased' \subseteq Leased
                   /\ wg' <= wg]_gateVars
=============================================================================
