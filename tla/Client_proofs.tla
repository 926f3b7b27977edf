--------------------------- MODULE Client_proofs ---------------------------
(***************************************************************************)
(* Proofs about Client.tla, for any number of streams, handshake slots,    *)
(* sessions, TURN servers and connections.                                 *)
(*                                                                         *)
(* That handshakeSem is exact is part of the types and needs RunOrder: a   *)
(* loop is started once, before it has done anything.  That nothing is     *)
(* held between sessions needs PoolOrder, which says for every state of a  *)
(* maintainer, and not only for those in which it waits, which layers are  *)
(* up and whether the pool has its session, once.                          *)
(***************************************************************************)
EXTENDS Client, TLAPS, FiniteSetTheorems, WellFoundedInduction

\* What has not been started has not begun.
RunOrder ==
    /\ run = "config" =>
          (\A s \in Streams : dtls[s] = "off") /\ (\A i \in Sessions : maint[i] = "off")
    /\ run = "first" => \A s \in Streams \ {0} : dtls[s] = "off"

\* The sequence q has the elements of I, each once.
Lists(q, I) ==
    /\ q \in Seq(I)
    /\ \A i \in I : \E k \in 1 .. Len(q) : q[k] = i
    /\ \A k, m \in 1 .. Len(q) : k # m => q[k] # q[m]

\* The sessions that are up.
Live == {i \in Sessions : maint[i] = "live"}

\* No layer is up before the first stage is done, and the pool lists what is live.
PoolOrder ==
    /\ \A i \in Sessions : maint[i] \in {"off", "idle", "dial", "returned"} => open[i] = 0
    /\ Lists(pool, Live)

ClientInv ==
    /\ ClientTypeOK
    /\ RunOrder
    /\ PoolOrder

-----------------------------------------------------------------------------
(* The UDP mode.                                                           *)

\* The streams in a handshake.
Shaking == {s \in Streams : dtls[s] = "handshake"}

\* Entering and leaving a handshake.
LEMMA Counting ==
    /\ IsFiniteSet(Shaking) /\ Cardinality(Shaking) \in Nat
    /\ \A s \in Streams \ Shaking : Cardinality(Shaking \cup {s}) = Cardinality(Shaking) + 1
    /\ \A s \in Shaking : /\ Cardinality(Shaking \ {s}) = Cardinality(Shaking) - 1
                          /\ Cardinality(Shaking) > 0
  <1>1. Shaking \subseteq Streams
    BY DEF Shaking
  <1>2. IsFiniteSet(Shaking) /\ Cardinality(Shaking) \in Nat
    BY <1>1, StreamConstants, FS_Subset, FS_CardinalityType
  <1>3. \A s \in Streams \ Shaking : Cardinality(Shaking \cup {s}) = Cardinality(Shaking) + 1
    BY <1>2, FS_AddElement
  <1>4. ASSUME NEW s \in Shaking
        PROVE  Cardinality(Shaking \ {s}) = Cardinality(Shaking) - 1 /\ Cardinality(Shaking) > 0
    <2>1. Cardinality(Shaking \ {s}) = Cardinality(Shaking) - 1
      BY <1>2, FS_RemoveElement
    <2>2. Cardinality(Shaking) # 0
      BY <1>2, FS_EmptySet
    <2> QED
      BY <1>2, <2>1, <2>2
  <1> QED
    BY <1>2, <1>3, <1>4

\* The values of what the TURN loops and the offers keep.
TurnTypes ==
    /\ ok \in BOOLEAN
    /\ stale \in [Streams -> SUBSET {"closed", "open"}]
    /\ turn \in [Streams -> {"off", "wait", "setup", "serving", "returned"}]
    /\ pipe \in [Streams -> {"none", "current", "closed", "open"}]
    /\ leftover \in [Streams -> 0 .. MaxLeftover]
    /\ flow \in [Streams -> BOOLEAN]

DtlsStates == {"off", "idle", "acquire", "handshake", "up", "returned"}

DtlsTypes ==
    /\ dtls \in [Streams -> DtlsStates]
    /\ sem = Cardinality(Shaking) /\ sem <= HandshakeSlots

\* The two together are the types of StreamLoops.
LEMMA StreamParts == StreamsTypeOK <=> DtlsTypes /\ TurnTypes
  BY DEF StreamsTypeOK, DtlsTypes, TurnTypes, Shaking, DtlsStates

\* Every step of the UDP mode keeps those values.
LEMMA TurnStepTypes ==
    ASSUME TurnTypes, [UdpNext]_streamVars
    PROVE  TurnTypes'
  <1> USE StreamConstants DEF TurnTypes, dtlsVars, turnVars, streamVars, Dtls, Turn
  <1>0. 0 \in 0 .. MaxLeftover
    OBVIOUS
  <1>1. ASSUME NEW ss, StartLoops(ss), UNCHANGED <<stale, pipe, leftover, flow>>, ok' \in BOOLEAN
        PROVE  TurnTypes'
    BY <1>1 DEF StartLoops
  <1>2. CASE StartUdp \/ StartRest
    BY <1>1, <1>2 DEF StartUdp, StartRest
  <1>3. CASE UdpReturns \/ OkGivenUp
    BY <1>3 DEF UdpReturns, OkGivenUp
  <1>4. ASSUME NEW s \in Streams, NEW left \in {"closed", "open"}, EndAttempt(s, left), UNCHANGED ok
        PROVE  TurnTypes'
    <2>1. /\ stale' = [stale EXCEPT ![s] = stale[s] \cup {left}]
          /\ pipe' = [pipe EXCEPT ![s] = IF pipe[s] = "current" THEN left ELSE pipe[s]]
          /\ leftover' = [leftover EXCEPT ![s] = 0] /\ flow' = [flow EXCEPT ![s] = FALSE]
          /\ UNCHANGED turn
      BY <1>4 DEF EndAttempt
    <2>2. stale' \in [Streams -> SUBSET {"closed", "open"}]
      BY <2>1
    <2>3. pipe' \in [Streams -> {"none", "current", "closed", "open"}]
      BY <2>1
    <2>4. leftover' \in [Streams -> 0 .. MaxLeftover]
      BY <1>0, <2>1
    <2>5. flow' \in [Streams -> BOOLEAN]
      BY <2>1
    <2> QED
      BY <1>4, <2>1, <2>2, <2>3, <2>4, <2>5
  <1>5. ASSUME NEW s \in Streams, DtlsStep(s) PROVE TurnTypes'
    <2>1. CASE DtlsTop(s) \/ AcquireSlot(s)
      BY <2>1 DEF DtlsTop, AcquireSlot
    <2>2. CASE AcquireCancelled(s)
      BY <1>4, <2>2 DEF AcquireCancelled
    <2>3. CASE Established(s)
      BY <2>3 DEF Established
    <2>4. CASE HandshakeFails(s)
      BY <1>4, <2>4 DEF HandshakeFails
    <2> QED
      BY <1>5, <2>1, <2>2, <2>3, <2>4 DEF DtlsStep
  <1>6. ASSUME NEW s \in Streams, DtlsEnds(s) PROVE TurnTypes'
    BY <1>4, <1>6 DEF DtlsEnds
  <1>7. ASSUME NEW s \in Streams, StopOffering(s) PROVE TurnTypes'
    <2>1. PICK p \in stale[s] : stale' = [stale EXCEPT ![s] = stale[s] \ {p}]
      BY <1>7 DEF StopOffering
    <2>2. stale' \in [Streams -> SUBSET {"closed", "open"}]
      BY <2>1
    <2> QED
      BY <1>7, <2>2 DEF StopOffering
  <1>8. ASSUME NEW s \in Streams, RelayOver(s), leftover' \in [Streams -> 0 .. MaxLeftover]
        PROVE  TurnTypes'
    BY <1>8 DEF RelayOver
  <1>9. ASSUME NEW s \in Streams, TurnStep(s) PROVE TurnTypes'
    <2>1. CASE TakePipe(s)
      <3>1. PICK p \in Offered(s) : pipe' = [pipe EXCEPT ![s] = p]
        BY <2>1 DEF TakePipe
      <3>2. p \in {"none", "current", "closed", "open"}
        BY <3>1 DEF Offered
      <3> QED
        BY <2>1, <3>1, <3>2 DEF TakePipe
    <2>2. CASE TurnReturns(s) \/ SetupRelay(s) \/ RelaySetupFails(s) \/ FatalCaptcha(s)
      BY <2>2 DEF TurnReturns, SetupRelay, RelaySetupFails, FatalCaptcha
    <2>3. CASE PipeEnds(s)
      BY <1>8, <2>3 DEF PipeEnds
    <2> QED
      BY <1>9, <2>1, <2>2, <2>3 DEF TurnStep
  <1>10. ASSUME NEW s \in Streams, RelayEnds(s) PROVE TurnTypes'
    <2>1. leftover' \in [Streams -> 0 .. MaxLeftover]
      <3>1. leftover[s] \in 0 .. MaxLeftover
        OBVIOUS
      <3>2. CASE pipe[s] = "current" /\ leftover[s] < MaxLeftover
        <4>1. leftover[s] + 1 \in 0 .. MaxLeftover
          BY <3>1, <3>2
        <4>2. leftover' = [leftover EXCEPT ![s] = leftover[s] + 1]
          BY <1>10, <3>2 DEF RelayEnds
        <4> QED
          BY <4>1, <4>2
      <3>3. CASE ~(pipe[s] = "current" /\ leftover[s] < MaxLeftover)
        BY <1>10, <3>3 DEF RelayEnds
      <3> QED
        BY <3>2, <3>3
    <2> QED
      BY <1>8, <1>10, <2>1 DEF RelayEnds
  <1>11. ASSUME NEW s \in Streams, RelayRefuses(s) PROVE TurnTypes'
    BY <1>8, <1>11 DEF RelayRefuses
  <1>12. ASSUME NEW s \in Streams, Packet(s) PROVE TurnTypes'
    <2>1. CASE flow' = [flow EXCEPT ![s] = TRUE] /\ UNCHANGED leftover
      BY <1>12, <2>1 DEF Packet
    <2>2. CASE leftover[s] > 0 /\ leftover' = [leftover EXCEPT ![s] = leftover[s] - 1]
               /\ UNCHANGED flow
      <3>1. leftover[s] - 1 \in 0 .. MaxLeftover
        BY <2>2
      <3>2. leftover' \in [Streams -> 0 .. MaxLeftover]
        BY <2>2, <3>1
      <3> QED
        BY <1>12, <2>2, <3>2 DEF Packet
    <2> QED
      BY <1>12, <2>1, <2>2 DEF Packet
  <1>13. CASE UNCHANGED streamVars
    BY <1>13
  <1> QED
    BY <1>2, <1>3, <1>5, <1>6, <1>7, <1>9, <1>10, <1>11, <1>12, <1>13 DEF UdpNext

\* What a step of the UDP mode does to the DTLS loops: a handshake is entered with a free
\* token and left with a token given back.
DtlsMoves ==
    \/ UNCHANGED <<dtls, sem>>
    \/ /\ \A s \in Streams : dtls'[s] = dtls[s] \/ (dtls[s] = "off" /\ dtls'[s] = "idle")
       /\ dtls' \in [Streams -> DtlsStates] /\ UNCHANGED sem
    \/ \E s \in Streams : \E to \in DtlsStates :
          /\ dtls' = [dtls EXCEPT ![s] = to] /\ dtls[s] # "off"
          /\ \/ /\ dtls[s] # "handshake" /\ to = "handshake"
                /\ sem < HandshakeSlots /\ sem' = sem + 1
             \/ /\ dtls[s] = "handshake" /\ to # "handshake" /\ sem' = sem - 1
             \/ /\ dtls[s] # "handshake" /\ to # "handshake" /\ UNCHANGED sem

\* Every step of the UDP mode moves the DTLS loops in one of those ways.
LEMMA MovesOfDtls ==
    ASSUME DtlsTypes, RunOrder, [UdpNext]_streamVars
    PROVE  DtlsMoves
  <1> USE DEF DtlsStates, dtlsVars, turnVars, streamVars, Dtls
  <1>0. dtls \in [Streams -> DtlsStates] /\ 0 \in Streams
    BY StreamConstants DEF DtlsTypes
  <1>1. CASE StartUdp
    <2>1. /\ dtls' = [s \in Streams |-> IF s \in {0} THEN "idle" ELSE dtls[s]]
          /\ UNCHANGED sem /\ \A s \in Streams : dtls[s] = "off"
      BY <1>1 DEF StartUdp, StartLoops, RunOrder
    <2> QED
      BY <1>0, <2>1 DEF DtlsMoves
  <1>2. CASE StartRest
    <2>1. /\ dtls' = [s \in Streams |-> IF s \in Streams \ {0} THEN "idle" ELSE dtls[s]]
          /\ UNCHANGED sem /\ \A s \in Streams \ {0} : dtls[s] = "off"
      BY <1>2 DEF StartRest, StartLoops, RunOrder
    <2> QED
      BY <1>0, <2>1 DEF DtlsMoves
  <1>3. CASE UdpReturns \/ OkGivenUp \/ UNCHANGED streamVars
    BY <1>3 DEF UdpReturns, OkGivenUp, DtlsMoves
  <1>4. ASSUME NEW s \in Streams, DtlsStep(s) PROVE DtlsMoves
    BY <1>4 DEF DtlsStep, DtlsTop, AcquireSlot, AcquireCancelled, Established, HandshakeFails,
                EndAttempt, DtlsMoves
  <1>5. ASSUME NEW s \in Streams, DtlsEnds(s) PROVE DtlsMoves
    BY <1>5 DEF DtlsEnds, EndAttempt, DtlsMoves
  <1>6. ASSUME NEW s \in Streams,
               StopOffering(s) \/ TurnStep(s) \/ RelayEnds(s) \/ RelayRefuses(s) \/ Packet(s)
        PROVE  DtlsMoves
    BY <1>6 DEF StopOffering, TurnStep, TakePipe, TurnReturns, SetupRelay, RelaySetupFails,
                FatalCaptcha, PipeEnds, RelayEnds, RelayRefuses, RelayOver, Packet, DtlsMoves
  <1> QED
    BY <1>1, <1>2, <1>3, <1>4, <1>5, <1>6 DEF UdpNext

\* The semaphore counts the streams in a handshake.
LEMMA DtlsStepTypes ==
    ASSUME DtlsTypes, RunOrder, [UdpNext]_streamVars
    PROVE  DtlsTypes'
  <1>0. /\ dtls \in [Streams -> DtlsStates] /\ HandshakeSlots \in Nat
        /\ sem = Cardinality(Shaking) /\ sem <= HandshakeSlots /\ sem \in Nat
    BY StreamConstants, Counting DEF DtlsTypes
  <1>1. CASE UNCHANGED <<dtls, sem>>
    <2>1. Shaking' = Shaking
      BY <1>1 DEF Shaking
    <2> QED
      BY <1>0, <1>1, <2>1 DEF DtlsTypes
  <1>2. CASE /\ \A s \in Streams : dtls'[s] = dtls[s] \/ (dtls[s] = "off" /\ dtls'[s] = "idle")
             /\ dtls' \in [Streams -> DtlsStates] /\ UNCHANGED sem
    <2>1. Shaking' = Shaking
      BY <1>2 DEF Shaking
    <2> QED
      BY <1>0, <1>2, <2>1 DEF DtlsTypes
  <1>3. ASSUME NEW s \in Streams, NEW to \in DtlsStates, dtls' = [dtls EXCEPT ![s] = to]
        PROVE  /\ dtls' \in [Streams -> DtlsStates]
               /\ dtls[s] # "handshake" /\ to = "handshake" =>
                     s \notin Shaking /\ Shaking' = Shaking \cup {s}
               /\ dtls[s] = "handshake" /\ to # "handshake" =>
                     s \in Shaking /\ Shaking' = Shaking \ {s}
               /\ dtls[s] # "handshake" /\ to # "handshake" => Shaking' = Shaking
    <2>1. dtls' \in [Streams -> DtlsStates]
      BY <1>0, <1>3
    <2>2. \A t \in Streams : dtls'[t] = IF t = s THEN to ELSE dtls[t]
      BY <1>0, <1>3
    <2> QED
      BY <2>1, <2>2 DEF Shaking
  <1>4. ASSUME NEW s \in Streams, NEW to \in DtlsStates, dtls' = [dtls EXCEPT ![s] = to],
               dtls[s] # "handshake", to = "handshake", sem < HandshakeSlots, sem' = sem + 1
        PROVE  DtlsTypes'
    <2>1. /\ s \in Streams \ Shaking /\ Shaking' = Shaking \cup {s}
          /\ dtls' \in [Streams -> DtlsStates]
      BY <1>3, <1>4
    <2>2. Cardinality(Shaking') = Cardinality(Shaking) + 1
      BY <2>1, Counting
    <2>3. sem' = Cardinality(Shaking') /\ sem' <= HandshakeSlots
      BY <1>0, <1>4, <2>2
    <2> QED
      BY <2>1, <2>3 DEF DtlsTypes
  <1>5. ASSUME NEW s \in Streams, NEW to \in DtlsStates, dtls' = [dtls EXCEPT ![s] = to],
               dtls[s] = "handshake", to # "handshake", sem' = sem - 1
        PROVE  DtlsTypes'
    <2>1. s \in Shaking /\ Shaking' = Shaking \ {s} /\ dtls' \in [Streams -> DtlsStates]
      BY <1>3, <1>5
    <2>2. Cardinality(Shaking') = Cardinality(Shaking) - 1
      BY <2>1, Counting
    <2>3. sem' = Cardinality(Shaking') /\ sem' <= HandshakeSlots
      BY <1>0, <1>5, <2>2
    <2> QED
      BY <2>1, <2>3 DEF DtlsTypes
  <1>6. ASSUME NEW s \in Streams, NEW to \in DtlsStates, dtls' = [dtls EXCEPT ![s] = to],
               dtls[s] # "handshake", to # "handshake", UNCHANGED sem
        PROVE  DtlsTypes'
    <2>1. Shaking' = Shaking /\ dtls' \in [Streams -> DtlsStates]
      BY <1>3, <1>6
    <2> QED
      BY <1>0, <1>6, <2>1 DEF DtlsTypes
  <1> QED
    BY <1>1, <1>2, <1>4, <1>5, <1>6, MovesOfDtls DEF DtlsMoves

\* The types of StreamLoops are kept by every step of the UDP mode.
LEMMA StreamsStep ==
    ASSUME StreamsTypeOK, RunOrder, [UdpNext]_streamVars
    PROVE  StreamsTypeOK'
  <1>1. DtlsTypes /\ TurnTypes
    BY StreamParts
  <1>2. DtlsTypes' /\ TurnTypes'
    BY <1>1, DtlsStepTypes, TurnStepTypes
  <1> QED
    BY <1>2 DEF StreamsTypeOK, DtlsTypes, TurnTypes, Shaking, DtlsStates

-----------------------------------------------------------------------------
(* The pool.                                                               *)

\* A nonempty set of numbers has a least element.
LEMMA LeastExists ==
    ASSUME NEW S, S \subseteq Nat, S # {}
    PROVE  \E x \in S : \A y \in S : x <= y
  <1> DEFINE R == OpToRel(<, Nat)
  <1>1. IsWellFoundedOn(R, Nat)
    BY NatLessThanWellFounded
  <1>2. PICK x \in S : \A y \in S : ~(<<y, x>> \in R)
    <2> HIDE DEF R
    <2> QED BY <1>1, WFMin
  <1>3. \A y \in S : ~(y < x)
    BY <1>2 DEF OpToRel
  <1> QED
    BY <1>3

\* The concatenation of two sequences.
LEMMA ConcatFacts ==
    ASSUME NEW S, NEW a \in Seq(S), NEW b \in Seq(S)
    PROVE  a \o b \in Seq(S) /\ Len(a \o b) = Len(a) + Len(b)
  OBVIOUS

\* A sequence without its element at f.
LEMMA CutFacts ==
    ASSUME NEW S, NEW q \in Seq(S), NEW f \in 1 .. Len(q)
    PROVE  LET r == SubSeq(q, 1, f - 1) \o SubSeq(q, f + 1, Len(q)) IN
           /\ r \in Seq(S) /\ Len(q) \in Nat \ {0} /\ Len(r) = Len(q) - 1
           /\ \A k \in 1 .. Len(r) : r[k] = IF k < f THEN q[k] ELSE q[k + 1]
  <1> DEFINE a == SubSeq(q, 1, f - 1)
             b == SubSeq(q, f + 1, Len(q))
             n == Len(q)
  <1>1. n \in Nat \ {0} /\ f \in 1 .. n
    OBVIOUS
  <1>2. a \in Seq(S) /\ Len(a) = f - 1 /\ \A k \in 1 .. f - 1 : a[k] = q[k]
    OBVIOUS
  <1>3. b \in Seq(S) /\ Len(b) = n - f /\ \A k \in 1 .. n - f : b[k] = q[k + f]
    OBVIOUS
  <1> HIDE DEF a, b, n
  <1>4. a \o b \in Seq(S) /\ Len(a \o b) = n - 1
    <2>1. a \o b \in Seq(S) /\ Len(a \o b) = Len(a) + Len(b)
      BY <1>2, <1>3, ConcatFacts
    <2> QED
      BY <1>1, <1>2, <1>3, <2>1
  <1>5. ASSUME NEW k \in 1 .. n - 1
        PROVE  (a \o b)[k] = IF k < f THEN q[k] ELSE q[k + 1]
    <2>1. CASE k < f
      BY <1>1, <1>2, <1>3, <2>1
    <2>2. CASE ~(k < f)
      <3>1. (a \o b)[k] = b[k - (f - 1)]
        BY <1>1, <1>2, <1>3, <2>2
      <3>2. k - (f - 1) \in 1 .. n - f /\ (k - (f - 1)) + f = k + 1
        BY <1>1, <2>2
      <3> QED
        BY <1>3, <2>2, <3>1, <3>2
    <2> QED
      BY <2>1, <2>2
  <1> QED
    BY <1>1, <1>4, <1>5 DEF a, b, n

\* add puts the session at the end.
LEMMA AddEffect ==
    ASSUME NEW I, NEW q, Lists(q, I), NEW i, i \notin I
    PROVE  Lists(Append(q, i), I \cup {i})
  <1> DEFINE r == Append(q, i)
  <1>1. q \in Seq(I) /\ Len(q) \in Nat /\ \A k \in 1 .. Len(q) : q[k] \in I
    BY DEF Lists
  <1>2. r \in Seq(I \cup {i}) /\ Len(r) = Len(q) + 1 /\ r[Len(q) + 1] = i
        /\ \A k \in 1 .. Len(q) : r[k] = q[k]
    BY <1>1
  <1> HIDE DEF r
  <1>3. \A j \in I \cup {i} : \E k \in 1 .. Len(r) : r[k] = j
    <2>1. Len(q) + 1 \in 1 .. Len(r)
      BY <1>1, <1>2
    <2>2. ASSUME NEW j \in I PROVE \E k \in 1 .. Len(r) : r[k] = j
      <3>1. PICK k \in 1 .. Len(q) : q[k] = j
        BY DEF Lists
      <3> QED
        BY <1>1, <1>2, <3>1
    <2> QED
      BY <1>2, <2>1, <2>2
  <1>4. ASSUME NEW k \in 1 .. Len(r), NEW m \in 1 .. Len(r), k # m PROVE r[k] # r[m]
    <2>1. \A n \in 1 .. Len(r) : n \in 1 .. Len(q) \/ n = Len(q) + 1
      BY <1>1, <1>2
    <2> QED
      BY <1>1, <1>2, <1>4, <2>1 DEF Lists
  <1> QED
    BY <1>2, <1>3, <1>4 DEF Lists, r

\* remove takes the session out.
LEMMA RemoveEffect ==
    ASSUME NEW I, Lists(pool, I), NEW i \in I
    PROVE  Lists(remove(i), I \ {i})
  <1> DEFINE at == {k \in DOMAIN pool : pool[k] = i}
             f  == CHOOSE k \in at : \A m \in at : k <= m
             r  == SubSeq(pool, 1, f - 1) \o SubSeq(pool, f + 1, Len(pool))
  <1>1. pool \in Seq(I) /\ Len(pool) \in Nat /\ DOMAIN pool = 1 .. Len(pool)
    BY DEF Lists
  <1>2. at \subseteq Nat /\ at # {}
    BY <1>1 DEF Lists
  <1>3. f \in at
    <2>1. \E k \in at : \A m \in at : k <= m
      <3> HIDE DEF at
      <3> QED BY <1>2, LeastExists
    <2> HIDE DEF at
    <2> QED
      BY <2>1
  <1>4. f \in 1 .. Len(pool) /\ pool[f] = i
    BY <1>1, <1>3
  <1>5. remove(i) = r
    BY <1>2 DEF remove
  <1> HIDE DEF f
  <1>6. /\ r \in Seq(I) /\ Len(r) = Len(pool) - 1 /\ Len(pool) \in Nat \ {0}
        /\ \A k \in 1 .. Len(r) : r[k] = IF k < f THEN pool[k] ELSE pool[k + 1]
    BY <1>1, <1>4, CutFacts
  <1> HIDE DEF r
  <1> DEFINE src(k) == IF k < f THEN k ELSE k + 1
  <1>7. ASSUME NEW k \in 1 .. Len(r)
        PROVE  src(k) \in 1 .. Len(pool) /\ src(k) # f /\ r[k] = pool[src(k)]
    BY <1>4, <1>6
  <1>8. ASSUME NEW k \in 1 .. Len(r), NEW m \in 1 .. Len(r), k # m PROVE src(k) # src(m)
    BY <1>4, <1>6, <1>8
  <1>9. ASSUME NEW k \in 1 .. Len(pool), k # f PROVE \E m \in 1 .. Len(r) : src(m) = k
    <2>1. CASE k < f
      <3>1. k \in 1 .. Len(r) /\ src(k) = k
        BY <1>4, <1>6, <2>1
      <3> QED
        BY <3>1
    <2>2. CASE k > f
      <3>1. k - 1 \in 1 .. Len(r) /\ src(k - 1) = k
        BY <1>4, <1>6, <2>2
      <3> QED
        BY <3>1
    <2> QED
      BY <1>4, <1>9, <2>1, <2>2
  <1> HIDE DEF src
  <1>10. ASSUME NEW k \in 1 .. Len(r) PROVE r[k] \in I \ {i}
    <2>1. src(k) \in 1 .. Len(pool) /\ src(k) # f /\ r[k] = pool[src(k)]
      BY <1>7
    <2>2. pool[src(k)] \in I
      BY <1>1, <2>1
    <2>3. pool[src(k)] # pool[f]
      BY <1>4, <2>1 DEF Lists
    <2> QED
      BY <1>4, <2>1, <2>2, <2>3
  <1>11. r \in Seq(I \ {i})
    BY <1>6, <1>10
  <1>12. ASSUME NEW j \in I \ {i} PROVE \E k \in 1 .. Len(r) : r[k] = j
    <2>1. PICK k \in 1 .. Len(pool) : pool[k] = j
      BY DEF Lists
    <2>2. k # f
      BY <1>4, <2>1
    <2> QED
      BY <1>7, <1>9, <2>1, <2>2
  <1>13. ASSUME NEW k \in 1 .. Len(r), NEW m \in 1 .. Len(r), k # m PROVE r[k] # r[m]
    <2>1. src(k) \in 1 .. Len(pool) /\ src(m) \in 1 .. Len(pool) /\ src(k) # src(m)
      BY <1>7, <1>8, <1>13
    <2>2. pool[src(k)] # pool[src(m)]
      BY <2>1 DEF Lists
    <2> QED
      BY <1>7, <2>2
  <1> QED
    BY <1>5, <1>11, <1>12, <1>13 DEF Lists

-----------------------------------------------------------------------------
(* The VLESS mode.                                                         *)

StageNames == {"dial", "allocate", "handshake", "mux"}

\* What a plan and the stages are.
LEMMA PlanFacts ==
    ASSUME plan \in Plans
    PROVE  /\ plan.sessions \in Nat /\ plan.servers \in Nat \ {0} /\ plan.conns \in Nat
           /\ Sessions \subseteq Nat /\ Conns \subseteq Nat
  BY VlessConstants DEF Sessions, Conns

\* The stages of createSmuxSession.
LEMMA StageFacts ==
    /\ DOMAIN Stages = 1 .. 4 /\ Len(Stages) = 4
    /\ Stages[1] = "dial" /\ Stages[2] = "allocate" /\ Stages[3] = "handshake" /\ Stages[4] = "mux"
    /\ ToSet(Stages) = StageNames
  <1>1. /\ DOMAIN Stages = 1 .. 4 /\ Len(Stages) = 4
        /\ Stages[1] = "dial" /\ Stages[2] = "allocate" /\ Stages[3] = "handshake"
        /\ Stages[4] = "mux"
    BY DEF Stages
  <1>2. \A k \in 1 .. 4 : k \in {1, 2, 3, 4}
    OBVIOUS
  <1> HIDE DEF Stages
  <1> QED
    BY <1>1, <1>2 DEF ToSet, StageNames

\* A stage of the setup has led to the stage or state to.
SetupTo(i, to) ==
    /\ maint[i] \in StageNames
    /\ Maint(i, to)
    /\ \E n \in 2 .. 7 : open' = [open EXCEPT ![i] = n]
    /\ pool' = IF to = "live" THEN Append(pool, i) ELSE pool
    /\ alive' = [alive EXCEPT ![i] = to = "live"]
    /\ UNCHANGED <<runVars, plan, target, offset, cooling, counter, lost, connVars>>

\* The next stage and the layers it has.
LEMMA SetupFacts ==
    ASSUME NEW i, SetupStage(i)
    PROVE  \E to \in {"allocate", "handshake", "mux", "live"} : SetupTo(i, to)
  <1>1. PICK k \in DOMAIN Stages :
        LET next == IF k = Len(Stages) THEN "live" ELSE Stages[k + 1] IN
        /\ maint[i] = Stages[k]
        /\ Maint(i, next)
        /\ open' = [open EXCEPT ![i] = LayersAt(next)]
        /\ pool' = IF next = "live" THEN Append(pool, i) ELSE pool
        /\ alive' = [alive EXCEPT ![i] = next = "live"]
        /\ UNCHANGED <<runVars, plan, target, offset, cooling, counter, lost, connVars>>
    BY DEF SetupStage
  <1> DEFINE to == IF k = Len(Stages) THEN "live" ELSE Stages[k + 1]
  <1>2. k \in {1, 2, 3, 4}
    BY StageFacts
  <1>3. maint[i] \in StageNames /\ to \in {"allocate", "handshake", "mux", "live"}
    BY <1>1, <1>2, StageFacts DEF StageNames
  <1>4. LayersAt(to) \in 2 .. 7
    <2> HIDE DEF to
    <2> QED BY <1>3 DEF LayersAt
  <1> QED
    BY <1>1, <1>3, <1>4 DEF SetupTo

MaintStates == {"off", "idle", "live", "returned"} \cup StageNames

\* The values of what the maintainers and the pool keep.
MaintTypes ==
    /\ plan \in Plans
    /\ maint \in [Sessions -> MaintStates]
    /\ target \in [Sessions -> 0 .. plan.servers - 1] /\ open \in [Sessions -> 0 .. 7]
    /\ offset \in [Sessions -> 0 .. plan.servers - 1] /\ cooling \subseteq 0 .. plan.servers - 1
    /\ alive \in [Sessions -> BOOLEAN]

ConnTypes ==
    /\ counter \in Nat
    /\ cli \in [Conns -> {"none", "open", "pipe", "closed"}] /\ on \in [Conns -> Nat]
    /\ lost \in [Conns -> BOOLEAN]
    /\ srv \in [Conns -> {"none", "prefix", "dial", "pipe", "closed"}]
    /\ copies \in [Conns -> SUBSET Both] /\ scopies \in [Conns -> SUBSET Both]
    /\ eof \in [Conns -> SUBSET {"local", "backend"}]

\* The parts of VlessTypeOK.
LEMMA VlessParts == VlessTypeOK <=> MaintTypes /\ ConnTypes /\ pool \in Seq(Sessions)
  BY StageFacts DEF VlessTypeOK, MaintTypes, ConnTypes, MaintStates

\* pickStreamServerAddr answers one of the servers.
LEMMA PickFacts ==
    ASSUME MaintTypes, NEW i \in Sessions
    PROVE  pickStreamServerAddr(i) \in 0 .. plan.servers - 1
  <1> DEFINE At(k) == (i + offset[i] + k) % plan.servers
             free == {k \in 0 .. plan.servers - 1 : At(k) \notin cooling}
  <1>0. plan.servers \in Nat \ {0} /\ i \in Nat /\ offset[i] \in Nat
    BY PlanFacts DEF MaintTypes
  <1>1. ASSUME NEW k \in Nat PROVE At(k) \in 0 .. plan.servers - 1
    <2>1. (i + offset[i] + k) \in Nat
      BY <1>0
    <2> QED
      BY <1>0, <2>1
  <1>2. free \subseteq Nat
    BY <1>0
  <1>3. pickStreamServerAddr(i) = IF free = {} THEN At(0) ELSE At(Min(free))
    BY DEF pickStreamServerAddr
  <1>4. free # {} => Min(free) \in Nat
    <2> HIDE DEF free
    <2>1. ASSUME free # {} PROVE \E x \in free : \A y \in free : x <= y
      BY <1>2, <2>1, LeastExists
    <2> QED
      BY <1>2, <2>1 DEF Min
  <1> HIDE DEF At, free
  <1> QED
    BY <1>1, <1>3, <1>4

\* Every step of the VLESS mode keeps the types of the maintainers.
LEMMA MaintStepTypes ==
    ASSUME MaintTypes, [VlessNext]_vlessVars
    PROVE  MaintTypes' /\ plan' = plan
  <1> USE DEF MaintTypes, maintVars, connVars, vlessVars, Maint, MaintStates, StageNames
  <1>0. plan.servers \in Nat \ {0}
    BY PlanFacts
  <1>1. CASE UNCHANGED <<plan, maintVars>>
    BY <1>1 DEF Sessions
  <1>2. CASE StartVless
    <2>1. UNCHANGED plan /\ Sessions' = Sessions
      BY <1>2 DEF StartVless, Sessions
    <2> QED
      BY <1>2, <2>1 DEF StartVless
  <1>3. CASE Listen \/ AcceptEnds \/ VlessReturns
    BY <1>1, <1>3 DEF Listen, AcceptEnds, VlessReturns
  <1>4. ASSUME NEW i \in Sessions, MaintTop(i) PROVE MaintTypes' /\ plan' = plan
    <2>1. UNCHANGED plan /\ Sessions' = Sessions
      BY <1>4 DEF MaintTop, Sessions
    <2>2. pickStreamServerAddr(i) \in 0 .. plan.servers - 1
      BY PickFacts
    <2> QED
      BY <1>4, <2>1, <2>2 DEF MaintTop
  <1>5. ASSUME NEW i \in Sessions, SetupStage(i) PROVE MaintTypes' /\ plan' = plan
    <2>1. PICK to \in {"allocate", "handshake", "mux", "live"} :
              /\ Maint(i, to)
              /\ \E n \in 2 .. 7 : open' = [open EXCEPT ![i] = n]
              /\ alive' = [alive EXCEPT ![i] = to = "live"]
              /\ UNCHANGED <<plan, target, offset, cooling>>
      <3>1. PICK to \in {"allocate", "handshake", "mux", "live"} : SetupTo(i, to)
        BY <1>5, SetupFacts
      <3> QED
        BY <3>1 DEF SetupTo
    <2>2. Sessions' = Sessions
      BY <2>1 DEF Sessions
    <2>3. open' \in [Sessions -> 0 .. 7]
      <3>1. PICK n \in 2 .. 7 : open' = [open EXCEPT ![i] = n]
        BY <2>1
      <3>2. n \in 0 .. 7
        OBVIOUS
      <3> QED
        BY <3>1, <3>2
    <2>4. alive' \in [Sessions -> BOOLEAN]
      BY <2>1
    <2>5. maint' \in [Sessions -> MaintStates]
      BY <2>1
    <2> QED
      BY <2>1, <2>2, <2>3, <2>4, <2>5
  <1>6. ASSUME NEW i \in Sessions, SetupFails(i) PROVE MaintTypes' /\ plan' = plan
    <2>1. UNCHANGED plan /\ Sessions' = Sessions
      BY <1>6 DEF SetupFails, Sessions
    <2>2. (offset[i] + 1) % plan.servers \in 0 .. plan.servers - 1
      <3>1. offset[i] + 1 \in Nat
        BY <1>0
      <3> QED
        BY <1>0, <3>1
    <2>3. offset' \in [Sessions -> 0 .. plan.servers - 1]
      <3>1. offset' = [offset EXCEPT ![i] = (offset[i] + 1) % plan.servers]
        BY <1>6 DEF SetupFails
      <3> QED
        BY <2>2, <3>1
    <2>4. open' \in [Sessions -> 0 .. 7]
      <3>1. 0 \in 0 .. 7
        OBVIOUS
      <3> QED
        BY <1>6, <3>1 DEF SetupFails
    <2>5. cooling' \subseteq 0 .. plan.servers - 1
      BY <1>6 DEF SetupFails
    <2> QED
      BY <1>6, <2>1, <2>3, <2>4, <2>5 DEF SetupFails
  <1>7. ASSUME NEW i \in Sessions, SetupFailsLocally(i) \/ SessionEnds(i) \/ SessionFails(i)
        PROVE  MaintTypes' /\ plan' = plan
    <2>1. UNCHANGED <<plan, target, offset, cooling>> /\ Sessions' = Sessions
      BY <1>7 DEF SetupFailsLocally, SessionEnds, SessionFails, Sessions
    <2>2. open' \in [Sessions -> 0 .. 7]
      <3>1. 0 \in 0 .. 7
        OBVIOUS
      <3> QED
        BY <1>7, <3>1 DEF SetupFailsLocally, SessionEnds, SessionFails
    <2>3. alive' \in [Sessions -> BOOLEAN] /\ maint' \in [Sessions -> MaintStates]
      BY <1>7 DEF SetupFailsLocally, SessionEnds, SessionFails
    <2> QED
      BY <2>1, <2>2, <2>3
  <1>8. ASSUME NEW a \in cooling, CooldownEnds(a) PROVE MaintTypes' /\ plan' = plan
    <2>1. UNCHANGED plan /\ Sessions' = Sessions
      BY <1>8 DEF CooldownEnds, Sessions
    <2> QED
      BY <1>8, <2>1 DEF CooldownEnds
  <1>9. ASSUME NEW c \in Conns, Accept(c) \/ ConnStep(c) \/ BackendWriteFails(c) \/ PeerEnds(c)
        PROVE  MaintTypes' /\ plan' = plan
    <2>1. UNCHANGED <<plan, maintVars>>
      BY <1>9 DEF Accept, ConnStep, OpenStream, CopyEnds, PipeReturns, ReadPrefix, DialBackend,
                  BackendCopyEnds, PipeConnReturns, BackendWriteFails, PeerEnds
    <2> QED
      BY <1>1, <2>1
  <1>10. CASE UNCHANGED vlessVars
    BY <1>1, <1>10
  <1> QED
    BY <1>2, <1>3, <1>4, <1>5, <1>6, <1>7, <1>8, <1>9, <1>10 DEF VlessNext, MaintStep

\* Every step of the VLESS mode keeps the types of the connections.
LEMMA ConnStepTypes ==
    ASSUME MaintTypes, ConnTypes, pool \in Seq(Sessions), [VlessNext]_vlessVars
    PROVE  ConnTypes'
  <1>0. plan' = plan /\ Conns' = Conns /\ Sessions \subseteq Nat
    BY MaintStepTypes, PlanFacts DEF Conns, MaintTypes
  <1> USE DEF ConnTypes, maintVars, connVars, vlessVars, Both
  <1>1. CASE UNCHANGED <<counter, lost, connVars>>
    BY <1>0, <1>1
  <1>2. CASE StartVless \/ Listen \/ AcceptEnds \/ VlessReturns
    BY <1>1, <1>2 DEF StartVless, Listen, AcceptEnds, VlessReturns
  <1>3. ASSUME NEW i \in Sessions,
               MaintTop(i) \/ SetupFails(i) \/ SetupFailsLocally(i) PROVE ConnTypes'
    BY <1>1, <1>3 DEF MaintTop, SetupFails, SetupFailsLocally
  <1>4. ASSUME NEW i \in Sessions, SetupStage(i) PROVE ConnTypes'
    BY <1>1, <1>4, SetupFacts DEF SetupTo
  <1>5. ASSUME NEW i \in Sessions, SessionFails(i) \/ SessionEnds(i) PROVE ConnTypes'
    <2>1. lost' = [c \in Conns |-> lost[c] \/ (on[c] = i /\ cli[c] # "none")]
          /\ UNCHANGED <<counter, connVars>>
      BY <1>5 DEF SessionFails, SessionEnds, LoseStreams
    <2>2. lost' \in [Conns -> BOOLEAN]
      BY <2>1
    <2> QED
      BY <1>0, <2>1, <2>2
  <1>6. ASSUME NEW a \in cooling, CooldownEnds(a) PROVE ConnTypes'
    BY <1>1, <1>6 DEF CooldownEnds
  <1>7. ASSUME NEW c \in Conns, Accept(c) PROVE ConnTypes'
    <2> DEFINE i == pool[(counter % Len(pool)) + 1]
    <2>1. /\ \/ pool # <<>> /\ cli' = [cli EXCEPT ![c] = "open"] /\ on' = [on EXCEPT ![c] = i]
             \/ cli' = [cli EXCEPT ![c] = "closed"] /\ UNCHANGED on
          /\ counter' \in {counter, counter + 1}
          /\ UNCHANGED <<lost, copies, srv, scopies, eof>>
      BY <1>7 DEF Accept
    <2>2. pool # <<>> => i \in Nat
      <3> SUFFICES ASSUME pool # <<>> PROVE i \in Nat
        OBVIOUS
      <3>1. Len(pool) \in Nat \ {0}
        OBVIOUS
      <3>2. (counter % Len(pool)) + 1 \in 1 .. Len(pool)
        BY <3>1
      <3>3. i \in Sessions
        BY <3>2
      <3> QED
        BY <1>0, <3>3
    <2> HIDE DEF i
    <2>3. cli' \in [Conns -> {"none", "open", "pipe", "closed"}] /\ on' \in [Conns -> Nat]
      <3>0. cli \in [Conns -> {"none", "open", "pipe", "closed"}] /\ on \in [Conns -> Nat]
        OBVIOUS
      <3>1. CASE pool # <<>> /\ cli' = [cli EXCEPT ![c] = "open"] /\ on' = [on EXCEPT ![c] = i]
        <4>1. i \in Nat
          BY <2>2, <3>1
        <4>2. cli' \in [Conns -> {"none", "open", "pipe", "closed"}]
          BY <3>0, <3>1
        <4> QED
          BY <3>0, <3>1, <4>1, <4>2
      <3>2. CASE cli' = [cli EXCEPT ![c] = "closed"] /\ UNCHANGED on
        BY <3>0, <3>2
      <3> QED
        BY <2>1, <3>1, <3>2
    <2>4. counter' \in Nat
      BY <2>1
    <2> QED
      BY <1>0, <2>1, <2>3, <2>4
  <1>8. ASSUME NEW c \in Conns, OpenStream(c) PROVE ConnTypes'
    <2>1. /\ \E to \in {"closed", "pipe"} : cli' = [cli EXCEPT ![c] = to]
          /\ UNCHANGED copies \/ copies' = [copies EXCEPT ![c] = Both]
          /\ UNCHANGED srv \/ srv' = [srv EXCEPT ![c] = "prefix"]
          /\ UNCHANGED <<counter, lost, on, scopies, eof>>
      BY <1>8 DEF OpenStream
    <2>2. cli' \in [Conns -> {"none", "open", "pipe", "closed"}]
      BY <2>1
    <2>3. copies' \in [Conns -> SUBSET Both]
      BY <2>1
    <2>4. srv' \in [Conns -> {"none", "prefix", "dial", "pipe", "closed"}]
      BY <2>1
    <2> QED
      BY <1>0, <2>1, <2>2, <2>3, <2>4
  <1>9. ASSUME NEW c \in Conns, CopyEnds(c) PROVE ConnTypes'
    <2>1. PICK d \in copies[c] : copies' = [copies EXCEPT ![c] = copies[c] \ {d}]
      BY <1>9 DEF CopyEnds
    <2>2. copies' \in [Conns -> SUBSET Both]
      BY <2>1
    <2> QED
      BY <1>0, <1>9, <2>2 DEF CopyEnds
  <1>10. ASSUME NEW c \in Conns, PipeReturns(c) \/ ReadPrefix(c) \/ PipeConnReturns(c)
         PROVE  ConnTypes'
    BY <1>0, <1>10 DEF PipeReturns, ReadPrefix, PipeConnReturns
  <1>11. ASSUME NEW c \in Conns, DialBackend(c) PROVE ConnTypes'
    <2>1. /\ \E to \in {"closed", "pipe"} : srv' = [srv EXCEPT ![c] = to]
          /\ UNCHANGED scopies \/ scopies' = [scopies EXCEPT ![c] = Both]
          /\ UNCHANGED <<counter, lost, cli, on, copies, eof>>
      BY <1>11 DEF DialBackend
    <2>2. srv' \in [Conns -> {"none", "prefix", "dial", "pipe", "closed"}]
      BY <2>1
    <2>3. scopies' \in [Conns -> SUBSET Both]
      BY <2>1
    <2> QED
      BY <1>0, <2>1, <2>2, <2>3
  <1>12. ASSUME NEW c \in Conns, BackendCopyEnds(c) \/ BackendWriteFails(c) PROVE ConnTypes'
    <2>1. PICK d \in scopies[c] : scopies' = [scopies EXCEPT ![c] = scopies[c] \ {d}]
      BY <1>12 DEF BackendCopyEnds, BackendWriteFails
    <2>2. scopies' \in [Conns -> SUBSET Both]
      BY <2>1
    <2>3. UNCHANGED <<counter, lost, cli, on, copies, srv, eof>>
      BY <1>12 DEF BackendCopyEnds, BackendWriteFails
    <2> QED
      BY <1>0, <2>2, <2>3
  <1>13. ASSUME NEW c \in Conns, PeerEnds(c) PROVE ConnTypes'
    <2>1. PICK e \in {"local", "backend"} : eof' = [eof EXCEPT ![c] = eof[c] \cup {e}]
      BY <1>13 DEF PeerEnds
    <2>2. eof' \in [Conns -> SUBSET {"local", "backend"}]
      BY <2>1
    <2> QED
      BY <1>0, <1>13, <2>2 DEF PeerEnds
  <1>14. CASE UNCHANGED vlessVars
    BY <1>1, <1>14
  <1> QED
    BY <1>2, <1>3, <1>4, <1>5, <1>6, <1>7, <1>8, <1>9, <1>10, <1>11, <1>12, <1>13, <1>14
       DEF VlessNext, MaintStep, ConnStep

\* Steps that leave the live sessions and the pool alone keep the order of the pool.
LEMMA QuietPool ==
    ASSUME MaintTypes, PoolOrder, plan' = plan, UNCHANGED pool,
           \A i \in Sessions : maint'[i] = "live" <=> maint[i] = "live",
           \A i \in Sessions : maint'[i] \in {"off", "idle", "dial", "returned"} => open'[i] = 0
    PROVE  PoolOrder'
  <1>1. Sessions' = Sessions
    BY DEF Sessions
  <1>2. Live' = Live
    BY <1>1 DEF Live
  <1> QED
    BY <1>1, <1>2 DEF PoolOrder, Lists

\* Every step of the VLESS mode keeps the pool and the layers in order.
LEMMA PoolStep ==
    ASSUME MaintTypes, RunOrder, PoolOrder, [VlessNext]_vlessVars
    PROVE  PoolOrder'
  <1>0. plan' = plan /\ Sessions' = Sessions /\ maint \in [Sessions -> MaintStates]
        /\ open \in [Sessions -> 0 .. 7]
    BY MaintStepTypes DEF Sessions, MaintTypes
  <1> USE DEF maintVars, connVars, vlessVars, Maint
  <1>1. CASE UNCHANGED <<maint, open, pool>>
    BY <1>0, <1>1, QuietPool DEF PoolOrder
  <1>2. CASE StartVless
    <2>1. /\ maint' = [i \in Sessions |-> "idle"] /\ UNCHANGED <<open, pool>>
          /\ \A i \in Sessions : maint[i] = "off"
      BY <1>2 DEF StartVless, RunOrder
    <2>2. \A i \in Sessions : open'[i] = 0
      BY <2>1 DEF PoolOrder
    <2> QED
      BY <1>0, <2>1, <2>2, QuietPool
  <1>3. CASE Listen \/ AcceptEnds \/ VlessReturns
    BY <1>1, <1>3 DEF Listen, AcceptEnds, VlessReturns
  <1>4. ASSUME NEW i \in Sessions, MaintTop(i) PROVE PoolOrder'
    <2>1. /\ maint[i] = "idle" /\ UNCHANGED <<open, pool>>
          /\ \E to \in {"returned", "dial"} : maint' = [maint EXCEPT ![i] = to]
      BY <1>4 DEF MaintTop
    <2>2. \A j \in Sessions : maint'[j] = "live" <=> maint[j] = "live"
      BY <1>0, <2>1
    <2>3. \A j \in Sessions : maint'[j] \in {"off", "idle", "dial", "returned"} => open'[j] = 0
      BY <1>0, <2>1 DEF PoolOrder
    <2> QED
      BY <1>0, <2>1, <2>2, <2>3, QuietPool
  <1>5. ASSUME NEW i \in Sessions, SetupFails(i) \/ SetupFailsLocally(i) PROVE PoolOrder'
    <2>1. /\ maint[i] # "live" /\ maint' = [maint EXCEPT ![i] = "idle"]
          /\ open' = [open EXCEPT ![i] = 0] /\ UNCHANGED pool
      BY <1>5 DEF SetupFails, SetupFailsLocally
    <2>2. \A j \in Sessions : maint'[j] = "live" <=> maint[j] = "live"
      BY <1>0, <2>1
    <2>3. \A j \in Sessions : maint'[j] \in {"off", "idle", "dial", "returned"} => open'[j] = 0
      BY <1>0, <2>1 DEF PoolOrder
    <2> QED
      BY <1>0, <2>1, <2>2, <2>3, QuietPool
  <1>6. ASSUME NEW i \in Sessions, SetupStage(i) PROVE PoolOrder'
    <2>1. PICK to \in {"allocate", "handshake", "mux", "live"} :
              /\ maint[i] \in StageNames
              /\ maint' = [maint EXCEPT ![i] = to]
              /\ \E n \in 2 .. 7 : open' = [open EXCEPT ![i] = n]
              /\ pool' = IF to = "live" THEN Append(pool, i) ELSE pool
      BY <1>6, SetupFacts DEF SetupTo
    <2>2. maint'[i] = to /\ maint[i] # "live" /\ \A j \in Sessions \ {i} : maint'[j] = maint[j]
      BY <1>0, <2>1 DEF StageNames
    <2>3. \A j \in Sessions \ {i} : open'[j] = open[j]
      BY <1>0, <2>1
    <2>4. \A j \in Sessions : maint'[j] \in {"off", "idle", "dial", "returned"} => open'[j] = 0
      BY <2>2, <2>3 DEF PoolOrder
    <2>5. CASE to = "live"
      <3>1. Live' = Live \cup {i} /\ i \notin Live
        BY <1>0, <2>2, <2>5 DEF Live
      <3>2. Lists(Append(pool, i), Live \cup {i})
        BY <3>1, AddEffect DEF PoolOrder
      <3>3. Lists(pool', Live')
        BY <2>1, <2>5, <3>1, <3>2
      <3> QED
        BY <1>0, <2>4, <3>3 DEF PoolOrder, Lists
    <2>6. CASE to # "live"
      <3>1. UNCHANGED pool
        BY <2>1, <2>6
      <3>2. \A j \in Sessions : maint'[j] = "live" <=> maint[j] = "live"
        BY <2>2, <2>6
      <3> QED
        BY <1>0, <2>4, <3>1, <3>2, QuietPool
    <2> QED
      BY <2>5, <2>6
  <1>7. ASSUME NEW i \in Sessions, SessionFails(i) PROVE PoolOrder'
    BY <1>1, <1>7 DEF SessionFails
  <1>8. ASSUME NEW i \in Sessions, SessionEnds(i) PROVE PoolOrder'
    <2>1. /\ maint[i] = "live" /\ pool' = remove(i) /\ open' = [open EXCEPT ![i] = 0]
          /\ \E to \in {"returned", "idle"} : maint' = [maint EXCEPT ![i] = to]
      BY <1>8 DEF SessionEnds
    <2>2. maint'[i] # "live" /\ \A j \in Sessions \ {i} : maint'[j] = maint[j]
      BY <1>0, <2>1
    <2>3. \A j \in Sessions : open'[j] = IF j = i THEN 0 ELSE open[j]
      BY <1>0, <2>1
    <2>4. \A j \in Sessions : maint'[j] \in {"off", "idle", "dial", "returned"} => open'[j] = 0
      BY <2>2, <2>3 DEF PoolOrder
    <2>5. Live' = Live \ {i} /\ i \in Live
      BY <1>0, <2>1, <2>2 DEF Live
    <2>6. Lists(remove(i), Live \ {i})
      BY <2>5, RemoveEffect DEF PoolOrder
    <2>7. Lists(pool', Live')
      BY <2>1, <2>5, <2>6
    <2> QED
      BY <1>0, <2>4, <2>7 DEF PoolOrder, Lists
  <1>9. ASSUME NEW a \in cooling, CooldownEnds(a) PROVE PoolOrder'
    BY <1>1, <1>9 DEF CooldownEnds
  <1>10. ASSUME NEW c \in Conns, Accept(c) \/ ConnStep(c) \/ BackendWriteFails(c) \/ PeerEnds(c)
        PROVE  PoolOrder'
    <2>1. UNCHANGED <<maint, open, pool>>
      BY <1>10 DEF Accept, ConnStep, OpenStream, CopyEnds, PipeReturns, ReadPrefix, DialBackend,
                   BackendCopyEnds, PipeConnReturns, BackendWriteFails, PeerEnds
    <2> QED
      BY <1>1, <2>1
  <1>11. CASE UNCHANGED vlessVars
    BY <1>1, <1>11
  <1> QED
    BY <1>2, <1>3, <1>4, <1>5, <1>6, <1>7, <1>8, <1>9, <1>10, <1>11 DEF VlessNext, MaintStep

\* The pool is a sequence of sessions.
LEMMA PoolTyped ==
    ASSUME PoolOrder
    PROVE  pool \in Seq(Sessions)
  <1>1. pool \in Seq(Live) /\ Live \subseteq Sessions
    BY DEF PoolOrder, Lists, Live
  <1> QED
    BY <1>1

-----------------------------------------------------------------------------
(* Run.                                                                    *)

RunTypes ==
    /\ mode \in {"udp", "vless"} /\ cancelled \in BOOLEAN
    /\ run \in {"config", "first", "wait", "sessions", "accept", "drain", "returned"}

\* The invariant holds initially.
LEMMA ClientInitInv == Init => ClientInv
  <1> SUFFICES ASSUME Init PROVE ClientInv
    OBVIOUS
  <1> USE DEF Init, RunInit, StreamInit, VlessInit
  <1>1. Shaking = {}
    BY DEF Shaking
  <1>2. DtlsTypes
    <2>1. Cardinality({}) = 0
      BY FS_EmptySet
    <2> QED
      BY <1>1, <2>1, StreamConstants DEF DtlsTypes, DtlsStates
  <1>3. TurnTypes
    <2>1. 0 \in 0 .. MaxLeftover
      BY StreamConstants
    <2> QED
      BY <2>1 DEF TurnTypes
  <1>4. MaintTypes
    <2>1. 0 \in 0 .. plan.servers - 1 /\ 0 \in 0 .. 7
      BY PlanFacts
    <2> QED
      BY <2>1 DEF MaintTypes, MaintStates
  <1>5. ConnTypes
    BY DEF ConnTypes
  <1>6. pool \in Seq(Sessions)
    OBVIOUS
  <1>7. ClientTypeOK
    BY <1>2, <1>3, <1>4, <1>5, <1>6, StreamParts, VlessParts DEF ClientTypeOK
  <1>8. Live = {} /\ pool = <<>>
    BY DEF Live
  <1>9. PoolOrder
    BY <1>8 DEF PoolOrder, Lists
  <1>10. RunOrder
    BY DEF RunOrder
  <1> QED
    BY <1>7, <1>9, <1>10 DEF ClientInv

\* A step of one mode leaves the other mode alone.
LEMMA ClientSteps ==
    ASSUME [Next]_vars
    PROVE  /\ [UdpNext]_streamVars /\ [VlessNext]_vlessVars
           /\ \/ RunNext /\ UNCHANGED <<streamVars, vlessVars>>
              \/ UdpNext /\ UNCHANGED vlessVars
              \/ VlessNext /\ UNCHANGED streamVars
              \/ UNCHANGED vars
  BY DEF Next, Finished, vars

\* Every step keeps the types of Run.
LEMMA RunStepTypes ==
    ASSUME RunTypes, [Next]_vars
    PROVE  RunTypes'
  <1> USE DEF RunTypes, runVars
  <1>1. CASE RunNext
    BY <1>1 DEF RunNext, ConfigFails, Cancel
  <1>2. CASE UdpNext
    <2>1. CASE StartUdp \/ StartRest \/ UdpReturns
      BY <2>1 DEF StartUdp, StartRest, UdpReturns
    <2>2. ASSUME NEW s \in Streams, FatalCaptcha(s) PROVE RunTypes'
      BY <2>2 DEF FatalCaptcha
    <2>3. CASE UNCHANGED runVars
      BY <2>3
    <2>4. \/ StartUdp \/ StartRest \/ UdpReturns \/ UNCHANGED runVars
          \/ \E s \in Streams : FatalCaptcha(s)
      BY <1>2
         DEF UdpNext, OkGivenUp, DtlsStep, DtlsTop, AcquireSlot, AcquireCancelled, Established,
             HandshakeFails, DtlsEnds, StopOffering, TurnStep, TakePipe, TurnReturns, SetupRelay,
             RelaySetupFails, PipeEnds, RelayEnds, RelayRefuses, RelayOver, Packet
    <2> QED
      BY <2>1, <2>2, <2>3, <2>4
  <1>3. CASE VlessNext
    <2>1. ASSUME NEW i \in Sessions, SetupStage(i) PROVE RunTypes'
      BY <2>1, SetupFacts DEF SetupTo
    <2>2. CASE StartVless \/ Listen \/ AcceptEnds \/ VlessReturns
      BY <2>2 DEF StartVless, Listen, AcceptEnds, VlessReturns
    <2>3. ASSUME NEW i \in Sessions, MaintTop(i) \/ SetupFails(i) \/ SetupFailsLocally(i)
                                     \/ SessionEnds(i) \/ SessionFails(i)
          PROVE  RunTypes'
      BY <2>3 DEF MaintTop, SetupFails, SetupFailsLocally, SessionEnds, SessionFails
    <2>4. ASSUME NEW a \in cooling, CooldownEnds(a) PROVE RunTypes'
      BY <2>4 DEF CooldownEnds
    <2>5. ASSUME NEW c \in Conns,
                 Accept(c) \/ ConnStep(c) \/ BackendWriteFails(c) \/ PeerEnds(c)
          PROVE  RunTypes'
      BY <2>5 DEF Accept, ConnStep, OpenStream, CopyEnds, PipeReturns, ReadPrefix, DialBackend,
                  BackendCopyEnds, PipeConnReturns, BackendWriteFails, PeerEnds
    <2> QED
      BY <1>3, <2>1, <2>2, <2>3, <2>4, <2>5 DEF VlessNext, MaintStep
  <1>4. CASE UNCHANGED vars
    BY <1>4 DEF vars
  <1> QED
    BY <1>1, <1>2, <1>3, <1>4, ClientSteps

\* Only Run leaves "config" and "first", and with it the loops of the streams begin.
LEMMA RunOrderStep ==
    ASSUME DtlsTypes, MaintTypes, RunOrder, [Next]_vars
    PROVE  RunOrder'
  <1>0. plan' = plan /\ Sessions' = Sessions /\ dtls \in [Streams -> DtlsStates]
    BY ClientSteps, MaintStepTypes DEF Sessions, DtlsTypes
  <1> USE DEF runVars
  <1>1. CASE RunNext /\ UNCHANGED <<streamVars, vlessVars>>
    <2>1. run' \in {run, "returned"} /\ UNCHANGED <<dtls, maint>>
      BY <1>1 DEF RunNext, ConfigFails, Cancel, streamVars, dtlsVars, vlessVars, maintVars
    <2> QED
      BY <1>0, <2>1 DEF RunOrder
  <1>2. CASE UdpNext /\ UNCHANGED vlessVars
    <2>0. UNCHANGED maint
      BY <1>2 DEF vlessVars, maintVars
    <2>1. CASE StartUdp
      <3>1. /\ dtls' = [s \in Streams |-> IF s \in {0} THEN "idle" ELSE dtls[s]]
            /\ run = "config" /\ run' = "first"
        BY <2>1 DEF StartUdp, StartLoops
      <3> QED
        BY <3>1 DEF RunOrder
    <2>2. CASE StartRest \/ UdpReturns
      BY <2>2 DEF StartRest, UdpReturns, RunOrder
    <2>3. CASE run' = run
      <3>1. ~StartUdp /\ ~StartRest
        BY <2>3 DEF StartUdp, StartRest
      <3>2. ASSUME NEW s \in Streams, dtls[s] = "off" PROVE dtls'[s] = "off"
        <4>1. CASE UdpReturns \/ OkGivenUp
          BY <3>2, <4>1 DEF UdpReturns, OkGivenUp, streamVars, dtlsVars
        <4>2. ASSUME NEW t \in Streams,
                     DtlsStep(t) \/ DtlsEnds(t)
              PROVE  dtls'[s] = "off"
          <5>1. dtls[t] # "off" /\ \E to \in DtlsStates : dtls' = [dtls EXCEPT ![t] = to]
            BY <4>2 DEF DtlsStep, DtlsTop, AcquireSlot, AcquireCancelled, Established,
                        HandshakeFails, DtlsEnds, EndAttempt, Dtls, DtlsStates
          <5> QED
            BY <1>0, <3>2, <5>1
        <4>3. ASSUME NEW t \in Streams,
                     StopOffering(t) \/ TurnStep(t) \/ RelayEnds(t) \/ RelayRefuses(t) \/ Packet(t)
              PROVE  dtls'[s] = "off"
          BY <3>2, <4>3
             DEF StopOffering, TurnStep, TakePipe, TurnReturns, SetupRelay, RelaySetupFails,
                 FatalCaptcha, PipeEnds, RelayEnds, RelayRefuses, RelayOver, Packet, dtlsVars
        <4> QED
          BY <1>2, <3>1, <4>1, <4>2, <4>3 DEF UdpNext
      <3> QED
        BY <1>0, <2>0, <2>3, <3>2 DEF RunOrder
    <2>4. StartUdp \/ StartRest \/ UdpReturns \/ run' = run
      BY <1>2
         DEF UdpNext, OkGivenUp, DtlsStep, DtlsTop, AcquireSlot, AcquireCancelled, Established,
             HandshakeFails, DtlsEnds, StopOffering, TurnStep, TakePipe, TurnReturns, SetupRelay,
             RelaySetupFails, FatalCaptcha, PipeEnds, RelayEnds, RelayRefuses, RelayOver, Packet
    <2> QED
      BY <2>1, <2>2, <2>3, <2>4
  <1>3. CASE VlessNext /\ UNCHANGED streamVars
    <2>0. UNCHANGED dtls
      BY <1>3 DEF streamVars, dtlsVars
    <2>1. CASE StartVless \/ Listen \/ AcceptEnds \/ VlessReturns
      <3>1. run' \in {"sessions", "accept", "drain", "returned"}
        BY <2>1 DEF StartVless, Listen, AcceptEnds, VlessReturns
      <3> QED
        BY <3>1 DEF RunOrder
    <2>2. CASE run' = run /\ \A i \in Sessions : maint[i] = "off" => maint'[i] = "off"
      BY <1>0, <2>0, <2>2 DEF RunOrder
    <2>3. ASSUME NEW i \in Sessions, MaintStep(i) \/ SessionFails(i) PROVE RunOrder'
      <3>1. ASSUME SetupStage(i)
            PROVE  /\ run' = run /\ maint[i] # "off"
                   /\ \E to \in MaintStates : maint' = [maint EXCEPT ![i] = to]
        BY <3>1, SetupFacts DEF SetupTo, Maint, MaintStates, StageNames
      <3>2. ASSUME ~SetupStage(i)
            PROVE  /\ run' = run /\ maint[i] # "off"
                   /\ maint' = maint \/ \E to \in MaintStates : maint' = [maint EXCEPT ![i] = to]
        BY <2>3, <3>2 DEF MaintStep, MaintTop, SetupFails, SetupFailsLocally, SessionEnds,
                          SessionFails, Maint, MaintStates, StageNames
      <3>3. \A j \in Sessions : maint[j] = "off" => maint'[j] = "off"
        BY <3>1, <3>2 DEF MaintTypes
      <3> QED
        BY <2>2, <3>1, <3>2, <3>3
    <2>4. ASSUME NEW a \in cooling, CooldownEnds(a) PROVE RunOrder'
      BY <2>2, <2>4 DEF CooldownEnds
    <2>5. ASSUME NEW c \in Conns,
                 Accept(c) \/ ConnStep(c) \/ BackendWriteFails(c) \/ PeerEnds(c)
          PROVE  RunOrder'
      <3>1. run' = run /\ maint' = maint
        BY <2>5 DEF Accept, ConnStep, OpenStream, CopyEnds, PipeReturns, ReadPrefix, DialBackend,
                    BackendCopyEnds, PipeConnReturns, BackendWriteFails, PeerEnds, maintVars
      <3> QED
        BY <2>2, <3>1
    <2> QED
      BY <1>3, <2>1, <2>3, <2>4, <2>5 DEF VlessNext
  <1>4. CASE UNCHANGED vars
    BY <1>0, <1>4 DEF vars, streamVars, dtlsVars, vlessVars, maintVars, RunOrder
  <1> QED
    BY <1>1, <1>2, <1>3, <1>4, ClientSteps

\* The inductive invariant holds in every reachable state.
LEMMA ClientInvariant == Spec => []ClientInv
  <1>1. ClientInv /\ [Next]_vars => ClientInv'
    <2> SUFFICES ASSUME ClientInv, [Next]_vars PROVE ClientInv'
      OBVIOUS
    <2>1. /\ StreamsTypeOK /\ VlessTypeOK /\ RunTypes /\ RunOrder /\ PoolOrder
          /\ DtlsTypes /\ MaintTypes /\ ConnTypes /\ pool \in Seq(Sessions)
      BY StreamParts, VlessParts DEF ClientInv, ClientTypeOK, RunTypes
    <2>2. StreamsTypeOK'
      BY <2>1, ClientSteps, StreamsStep
    <2>3. MaintTypes' /\ ConnTypes'
      BY <2>1, ClientSteps, MaintStepTypes, ConnStepTypes
    <2>4. PoolOrder'
      BY <2>1, ClientSteps, PoolStep
    <2>5. (pool \in Seq(Sessions))'
      <3>1. pool' \in Seq(Live') /\ Live' \subseteq Sessions'
        BY <2>4 DEF PoolOrder, Lists, Live
      <3> QED
        BY <3>1
    <2>6. VlessTypeOK'
      BY <2>3, <2>5, StageFacts DEF VlessTypeOK, MaintTypes, ConnTypes, MaintStates
    <2>7. RunTypes' /\ RunOrder'
      BY <2>1, RunStepTypes, RunOrderStep
    <2> QED
      BY <2>2, <2>4, <2>6, <2>7 DEF ClientInv, ClientTypeOK, RunTypes
  <1> QED
    BY ClientInitInv, <1>1, PTL DEF Spec

-----------------------------------------------------------------------------
(* The theorems.                                                           *)

\* The client's variables have their types; in particular handshakeSem holds exactly one
\* token for each stream in a handshake and never more than its capacity, whichever way
\* handshakes end (main.go:1393-1477), and every index of a TURN server is one of the
\* credentials' servers (main.go:840-874).
THEOREM ClientTyped == Spec => []ClientTypeOK
  <1>1. ClientInv => ClientTypeOK
    BY DEF ClientInv
  <1> QED
    BY ClientInvariant, <1>1, PTL

\* A maintainer that waits or has returned has torn down every layer of its sessions, the
\* pool does not list its session, and it lists no session twice (main.go:2035-2052,
\* 2516-2567, 2600-2745).
THEOREM ClientReleases == Spec => []NothingHeldBetweenSessions
  <1>1. ClientInv => NothingHeldBetweenSessions
    <2> SUFFICES ASSUME ClientInv, NEW i \in Sessions
                 PROVE  /\ maint[i] \in {"idle", "returned"} => open[i] = 0 /\ i \notin ToSet(pool)
                        /\ Cardinality({k \in DOMAIN pool : pool[k] = i}) <= 1
      BY DEF NothingHeldBetweenSessions
    <2>1. PoolOrder /\ pool \in Seq(Live) /\ DOMAIN pool = 1 .. Len(pool)
          /\ \A k \in 1 .. Len(pool) : pool[k] \in Live
      BY DEF ClientInv, PoolOrder, Lists
    <2>2. maint[i] \in {"idle", "returned"} => open[i] = 0 /\ i \notin ToSet(pool)
      BY <2>1 DEF PoolOrder, Live, ToSet
    <2> DEFINE at == {k \in DOMAIN pool : pool[k] = i}
    <2>3. CASE at = {}
      <3>1. Cardinality(at) = 0
        BY <2>3, FS_EmptySet
      <3> QED
        BY <2>2, <3>1
    <2>4. CASE at # {}
      <3>1. PICK k \in at : TRUE
        BY <2>4
      <3>2. at = {k}
        BY <2>1, <3>1 DEF PoolOrder, Lists
      <3>3. Cardinality(at) = 1
        BY <3>2, FS_Singleton
      <3> QED
        BY <2>2, <3>3
    <2> QED
      BY <2>3, <2>4
  <1> QED
    BY ClientInvariant, <1>1, PTL
=============================================================================
