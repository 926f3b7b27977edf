------------------------ MODULE ConnectionGate_proofs ------------------------
(***************************************************************************)
(* The admission gate, for every set of connections and every limit.       *)
(*                                                                         *)
(* CountersExact is inductive together with the type of draining and lease *)
(* because every atomic add has a lease state of its own: each step moves  *)
(* one connection into or out of exactly the sets whose counter it moves.  *)
(* AdmissionBounded then follows from the guard of admit, which reads      *)
(* counters that are never below the number of connections they stand for. *)
(***************************************************************************)
EXTENDS ConnectionGate, FiniteSetTheorems, TLAPS

\* The inductive invariant.
GateInv ==
    /\ draining \in BOOLEAN
    /\ lease \in [Conns -> LeaseState]
    /\ CountersExact
    /\ AdmissionBounded

\* A subset of the connections is finite and has a natural cardinality.
LEMMA SubsetFinite ==
    ASSUME NEW S \in SUBSET Conns
    PROVE  IsFiniteSet(S) /\ Cardinality(S) \in Nat
  BY ConnsFinite, FS_Subset, FS_CardinalityType

\* A connection that enters a set raises its cardinality by one.
LEMMA EnterCount ==
    ASSUME NEW S \in SUBSET Conns, NEW c \in Conns, c \notin S
    PROVE  Cardinality(S \cup {c}) = Cardinality(S) + 1
  BY SubsetFinite, FS_AddElement

\* A connection that leaves a set lowers its cardinality by one.
LEMMA LeaveCount ==
    ASSUME NEW S \in SUBSET Conns, NEW c \in S
    PROVE  Cardinality(S \ {c}) = Cardinality(S) - 1
  BY SubsetFinite, FS_RemoveElement

\* The four sets of connections that are counted are sets of connections.
LEMMA CountedSets ==
    /\ InHandshake \in SUBSET Conns
    /\ InService \in SUBSET Conns
    /\ CountedActive \in SUBSET Conns
    /\ Leased \in SUBSET Conns
  BY DEF InHandshake, InService, CountedActive, Leased, InState

\* A limit that is not reached leaves room, for the tightest of two session limits.
LEMMA LimitLeavesRoom ==
    ASSUME NEW n \in Nat,
           ~(effectiveMaxSessions > 0 /\ n >= effectiveMaxSessions)
    PROVE  /\ maxSessions > 0 => n < maxSessions
           /\ canary /\ canaryMaxSessions > 0 => n < canaryMaxSessions
  <1>1. CASE canary
    BY <1>1, GateConstants DEF effectiveMaxSessions
  <1>2. CASE ~canary
    BY <1>2, GateConstants DEF effectiveMaxSessions
  <1> QED
    BY <1>1, <1>2

\* A count below its limit may grow by one.
LEMMA SlotLeft ==
    ASSUME NEW n \in Nat, NEW limit \in Nat, ~(limit > 0 /\ n >= limit)
    PROVE  limit > 0 => n < limit
  OBVIOUS

\* Admission needs a free session and a free handshake slot.
LEMMA AdmitHasRoom ==
    ASSUME GateInv, NEW p \in Pressure, rejectionReason(p) = ""
    PROVE  /\ draining = FALSE
           /\ maxSessions > 0 => active < maxSessions
           /\ canary /\ canaryMaxSessions > 0 => active < canaryMaxSessions
           /\ maxHandshakes > 0 => handshakes < maxHandshakes
  <1>1. active \in Nat /\ handshakes \in Nat
    BY CountedSets, SubsetFinite DEF GateInv, CountersExact
  <1>2. draining = FALSE
    BY DEF rejectionReason, GateInv
  <1>3. ~(effectiveMaxSessions > 0 /\ active >= effectiveMaxSessions)
    BY <1>2 DEF rejectionReason
  <1>4. ~(maxHandshakes > 0 /\ handshakes >= maxHandshakes)
    BY <1>2, <1>3 DEF rejectionReason
  <1> QED
    BY <1>1, <1>2, <1>3, <1>4, LimitLeavesRoom, SlotLeft, GateConstants

\* The initial state satisfies the invariant.
LEMMA GateInitInv == GateInit => GateInv
  <1> SUFFICES ASSUME GateInit PROVE GateInv
    OBVIOUS
  <1>1. InHandshake = {} /\ InService = {} /\ CountedActive = {} /\ Leased = {}
    BY DEF GateInit, InHandshake, InService, CountedActive, Leased, InState
  <1>2. Cardinality({}) = 0
    BY FS_EmptySet
  <1>3. CountersExact
    BY <1>1, <1>2 DEF CountersExact, GateInit
  <1>4. AdmissionBounded
    BY <1>1, <1>2, GateConstants DEF AdmissionBounded
  <1> QED
    BY <1>3, <1>4 DEF GateInv, GateInit, LeaseState

\* A step that keeps or lowers the two bounded cardinalities keeps the bounds.
LEMMA BoundsKept ==
    ASSUME GateInv, InHandshake' \in SUBSET Conns, CountedActive' \in SUBSET Conns,
           Cardinality(InHandshake') <= Cardinality(InHandshake),
           Cardinality(CountedActive') <= Cardinality(CountedActive)
    PROVE  AdmissionBounded'
  <1>1. /\ Cardinality(InHandshake) \in Nat /\ Cardinality(CountedActive) \in Nat
        /\ Cardinality(InHandshake') \in Nat /\ Cardinality(CountedActive') \in Nat
    BY CountedSets, SubsetFinite
  <1> QED
    BY <1>1, GateConstants DEF AdmissionBounded, GateInv

\* Every step of the gate keeps the invariant.
LEMMA GateNextInv == GateInv /\ [GateNext]_gateVars => GateInv'
  <1> SUFFICES ASSUME GateInv, [GateNext]_gateVars PROVE GateInv'
    OBVIOUS
  <1> USE DEF GateInv
  <1>0. /\ Cardinality(InHandshake) \in Nat /\ Cardinality(InService) \in Nat
        /\ Cardinality(CountedActive) \in Nat /\ Cardinality(Leased) \in Nat
    BY CountedSets, SubsetFinite
  <1>1. ASSUME NEW c \in Conns, NEW p \in Pressure, Admit(c, p) PROVE GateInv'
    <2>1. /\ InHandshake' = InHandshake \cup {c} /\ c \notin InHandshake
          /\ InService' = InService
          /\ CountedActive' = CountedActive \cup {c} /\ c \notin CountedActive
          /\ Leased' = Leased \cup {c} /\ c \notin Leased
      BY <1>1 DEF Admit, InHandshake, InService, CountedActive, Leased, InState
    <2>2. /\ Cardinality(InHandshake') = Cardinality(InHandshake) + 1
          /\ Cardinality(CountedActive') = Cardinality(CountedActive) + 1
          /\ Cardinality(Leased') = Cardinality(Leased) + 1
      BY <2>1, EnterCount, CountedSets
    <2>3. CountersExact'
      BY <1>1, <2>1, <2>2 DEF Admit, CountersExact
    <2>4. AdmissionBounded'
      <3>1. /\ maxSessions > 0 => Cardinality(CountedActive) < maxSessions
            /\ canary /\ canaryMaxSessions > 0 => Cardinality(CountedActive) < canaryMaxSessions
            /\ maxHandshakes > 0 => Cardinality(InHandshake) < maxHandshakes
        BY <1>1, AdmitHasRoom DEF Admit, CountersExact
      <3>2. maxSessions > 0 => Cardinality(CountedActive') <= maxSessions
        BY <1>0, <2>2, <3>1, GateConstants
      <3>3. ASSUME canary, canaryMaxSessions > 0
            PROVE  Cardinality(CountedActive') <= canaryMaxSessions
        BY <1>0, <2>2, <3>1, <3>3, GateConstants
      <3>4. maxHandshakes > 0 => Cardinality(InHandshake') <= maxHandshakes
        BY <1>0, <2>2, <3>1, GateConstants
      <3> QED
        BY <3>2, <3>3, <3>4 DEF AdmissionBounded
    <2> QED
      BY <1>1, <2>3, <2>4 DEF Admit, LeaseState
  <1>2. ASSUME NEW c \in Conns, NEW p \in Pressure, Reject(c, p) PROVE GateInv'
    <2>1. /\ InHandshake' = InHandshake /\ InService' = InService
          /\ CountedActive' = CountedActive /\ Leased' = Leased
      BY <1>2 DEF Reject, InHandshake, InService, CountedActive, Leased, InState
    <2> QED
      BY <1>2, <2>1 DEF Reject, LeaseState, CountersExact, AdmissionBounded
  <1>3. ASSUME NEW c \in Conns, MarkEstablished(c) PROVE GateInv'
    <2>1. /\ InHandshake' = InHandshake /\ InService' = InService
          /\ CountedActive' = CountedActive /\ Leased' = Leased
      BY <1>3 DEF MarkEstablished, InHandshake, InService, CountedActive, Leased, InState
    <2> QED
      BY <1>3, <2>1 DEF MarkEstablished, LeaseState, CountersExact, AdmissionBounded
  <1>4. ASSUME NEW c \in Conns, LowerHandshakes(c) PROVE GateInv'
    <2>1. /\ InHandshake' = InHandshake \ {c} /\ c \in InHandshake
          /\ InService' = InService /\ CountedActive' = CountedActive /\ Leased' = Leased
      BY <1>4 DEF LowerHandshakes, InHandshake, InService, CountedActive, Leased, InState
    <2>2. Cardinality(InHandshake') = Cardinality(InHandshake) - 1
      BY <2>1, LeaveCount, CountedSets
    <2>3. CountersExact'
      BY <1>4, <2>1, <2>2 DEF LowerHandshakes, CountersExact
    <2>4. AdmissionBounded'
      BY <1>0, <2>1, <2>2, CountedSets, BoundsKept
    <2> QED
      BY <1>4, <2>3, <2>4 DEF LowerHandshakes, LeaseState
  <1>5. ASSUME NEW c \in Conns, RaiseEstablished(c) PROVE GateInv'
    <2>1. /\ InService' = InService \cup {c} /\ c \notin InService
          /\ InHandshake' = InHandshake /\ CountedActive' = CountedActive /\ Leased' = Leased
      BY <1>5 DEF RaiseEstablished, InHandshake, InService, CountedActive, Leased, InState
    <2>2. Cardinality(InService') = Cardinality(InService) + 1
      BY <2>1, EnterCount, CountedSets
    <2>3. CountersExact'
      BY <1>5, <2>1, <2>2 DEF RaiseEstablished, CountersExact
    <2>4. AdmissionBounded'
      BY <2>1 DEF AdmissionBounded
    <2> QED
      BY <1>5, <2>3, <2>4 DEF RaiseEstablished, LeaseState
  <1>6. ASSUME NEW c \in Conns, Done(c) PROVE GateInv'
    <2>1. CASE lease[c] = "serving"
      <3>1. /\ InService' = InService \ {c} /\ c \in InService
            /\ InHandshake' = InHandshake /\ CountedActive' = CountedActive /\ Leased' = Leased
        BY <1>6, <2>1 DEF Done, InHandshake, InService, CountedActive, Leased, InState
      <3>2. Cardinality(InService') = Cardinality(InService) - 1
        BY <3>1, LeaveCount, CountedSets
      <3>3. CountersExact'
        BY <1>6, <2>1, <3>1, <3>2 DEF Done, CountersExact
      <3> QED
        BY <1>6, <3>1, <3>3 DEF Done, LeaseState, AdmissionBounded
    <2>2. CASE lease[c] = "handshaking"
      <3>1. /\ InHandshake' = InHandshake \ {c} /\ c \in InHandshake
            /\ InService' = InService /\ CountedActive' = CountedActive /\ Leased' = Leased
        BY <1>6, <2>2 DEF Done, InHandshake, InService, CountedActive, Leased, InState
      <3>2. Cardinality(InHandshake') = Cardinality(InHandshake) - 1
        BY <3>1, LeaveCount, CountedSets
      <3>3. CountersExact'
        BY <1>6, <2>2, <3>1, <3>2 DEF Done, CountersExact
      <3>4. AdmissionBounded'
        BY <1>0, <3>1, <3>2, CountedSets, BoundsKept
      <3> QED
        BY <1>6, <3>3, <3>4 DEF Done, LeaseState
    <2> QED
      BY <1>6, <2>1, <2>2 DEF Done
  <1>7. ASSUME NEW c \in Conns, LowerActive(c) PROVE GateInv'
    <2>1. /\ CountedActive' = CountedActive \ {c} /\ c \in CountedActive
          /\ InHandshake' = InHandshake /\ InService' = InService /\ Leased' = Leased
      BY <1>7 DEF LowerActive, InHandshake, InService, CountedActive, Leased, InState
    <2>2. Cardinality(CountedActive') = Cardinality(CountedActive) - 1
      BY <2>1, LeaveCount, CountedSets
    <2>3. CountersExact'
      BY <1>7, <2>1, <2>2 DEF LowerActive, CountersExact
    <2>4. AdmissionBounded'
      BY <1>0, <2>1, <2>2, CountedSets, BoundsKept
    <2> QED
      BY <1>7, <2>3, <2>4 DEF LowerActive, LeaseState
  <1>8. ASSUME NEW c \in Conns, WgDone(c) PROVE GateInv'
    <2>1. /\ Leased' = Leased \ {c} /\ c \in Leased
          /\ InHandshake' = InHandshake /\ InService' = InService /\ CountedActive' = CountedActive
      BY <1>8 DEF WgDone, InHandshake, InService, CountedActive, Leased, InState
    <2>2. Cardinality(Leased') = Cardinality(Leased) - 1
      BY <2>1, LeaveCount, CountedSets
    <2>3. CountersExact'
      BY <1>8, <2>1, <2>2 DEF WgDone, CountersExact
    <2> QED
      BY <1>8, <2>1, <2>3 DEF WgDone, LeaseState, AdmissionBounded
  <1>9. CASE BeginDrain \/ UNCHANGED gateVars
    <2>1. /\ InHandshake' = InHandshake /\ InService' = InService
          /\ CountedActive' = CountedActive /\ Leased' = Leased
      BY <1>9 DEF BeginDrain, gateVars, InHandshake, InService, CountedActive, Leased, InState
    <2> QED
      BY <1>9, <2>1 DEF BeginDrain, gateVars, CountersExact, AdmissionBounded
  <1> QED
    BY <1>1, <1>2, <1>3, <1>4, <1>5, <1>6, <1>7, <1>8, <1>9 DEF GateNext, MarkStep, DoneStep

\* The invariant gives the type of the gate: its counters are never negative
\* (a negative WaitGroup counter panics).
LEMMA GateInvType == GateInv => GateTypeOK
  BY CountedSets, SubsetFinite DEF GateInv, GateTypeOK, CountersExact

(***************************************************************************)
(* The gate's type invariant: no counter of drain.go ever goes negative.   *)
(***************************************************************************)
THEOREM GateTypeCorrect == GateSpec => []GateTypeOK
  <1>1. GateSpec => []GateInv
    BY GateInitInv, GateNextInv, PTL DEF GateSpec
  <1> QED
    BY <1>1, GateInvType, PTL

(***************************************************************************)
(* The counters of drain.go always equal the number of connections in the  *)
(* phases they stand for.                                                  *)
(***************************************************************************)
THEOREM GateCountersExact == GateSpec => []CountersExact
  <1>1. GateInv => CountersExact
    BY DEF GateInv
  <1> QED
    BY <1>1, GateInitInv, GateNextInv, PTL DEF GateSpec

(***************************************************************************)
(* The session, canary and handshake limits hold for the connections       *)
(* themselves, for every number of connections and every limit.            *)
(***************************************************************************)
THEOREM GateAdmissionBounded == GateSpec => []AdmissionBounded
  <1>1. GateInv => AdmissionBounded
    BY DEF GateInv
  <1> QED
    BY <1>1, GateInitInv, GateNextInv, PTL DEF GateSpec

\* Once draining, a step of the gate gives no lease.
LEMMA DrainingStep ==
    ASSUME GateInv, [GateNext]_gateVars, draining
    PROVE  draining' /\ Leased' \subseteq Leased /\ wg' <= wg
  <1>1. wg \in Nat
    BY GateInvType DEF GateTypeOK
  <1>2. ASSUME NEW c \in Conns, NEW p \in Pressure PROVE ~Admit(c, p)
    BY AdmitHasRoom DEF Admit
  <1>3. draining' /\ Leased' \subseteq Leased
    BY <1>2 DEF GateNext, gateVars, Reject, MarkStep, DoneStep, MarkEstablished, LowerHandshakes,
        RaiseEstablished, Done, LowerActive, WgDone, BeginDrain, Leased, InState, GateInv
  <1>4. wg' = wg \/ wg' = wg - 1
    BY <1>2 DEF GateNext, gateVars, Reject, MarkStep, DoneStep, MarkEstablished,
        LowerHandshakes, RaiseEstablished, Done, LowerActive, WgDone, BeginDrain
  <1>5. wg' <= wg
    BY <1>1, <1>4
  <1> QED
    BY <1>3, <1>5

(***************************************************************************)
(* "connectionGate closes admission atomically before Wait begins": after  *)
(* beginDrain no lease is ever given and the WaitGroup only falls.         *)
(***************************************************************************)
THEOREM GateAdmissionStaysClosed == GateSpec => AdmissionStaysClosed
  <1>1. GateInv /\ [GateNext]_gateVars
          => [draining => draining' /\ Leased' \subseteq Leased /\ wg' <= wg]_gateVars
    BY DrainingStep
  <1> QED
    BY <1>1, GateInitInv, GateNextInv, PTL DEF GateSpec, AdmissionStaysClosed
=============================================================================
