------------------------- MODULE UdpSession_proofs -------------------------
(***************************************************************************)
(* Aggregated sessions, for every set of connections, session ids and      *)
(* streams.  LiveSessionIsRegistered and RegistryForgetsClosed say what    *)
(* the registry knows; they keep each other.  NoLaneOutlivesSession needs  *)
(* OpenLaneHoldsItsSlot: close() stops the lanes it finds in s.lanes, so a *)
(* lane in use that is not there would be missed.                          *)
(***************************************************************************)
EXTENDS UdpSession, TLAPS

\* What the properties leave out: a lane being removed has been stopped, and a
\* connection that has not joined a session has not made one.
HandlerOrder ==
    \A c \in Conns : /\ hpc[c] = "removing" => laneClosed[c]
                     /\ hpc[c] = "idle" => closing[c] = "unmade"

\* The inductive invariant.
SessionInv ==
    /\ TypeOK
    /\ HandlerOrder
    /\ LiveSessionIsRegistered
    /\ RegistryForgetsClosed
    /\ OpenLaneHoldsItsSlot
    /\ NoLaneOutlivesSession

\* The actions, one by one: a step of Next is a step of one of them.
LEMMA SessionActions ==
    ASSUME TypeOK, [Next]_vars
    PROVE  \/ \E c \in Conns, k \in Ids, i \in Streams :
                 JoinSession(c, k, i) \/ CreateSession(c, k, i)
           \/ \E c \in Conns, k \in Ids : DialFails(c, k)
           \/ \E c \in Conns :
                 \/ AddLane(c) \/ AddLaneFails(c) \/ ContextDone(c) \/ ContextAlive(c)
                 \/ ArmDeadline(c) \/ PacketHandled(c) \/ ReadEnds(c) \/ WriteFails(c)
                 \/ RemoveLane(c) \/ RemoveLastLane(c) \/ CloseReturns(c)
           \/ \E s \in Conns : CloseCancel(s) \/ CloseClear(s) \/ CloseRemove(s)
           \/ ServerCancel \/ Finished \/ UNCHANGED vars
  <1> SUFFICES ASSUME NEW c \in Conns, LastLaneCloses(c)
               PROVE  session[c] \in Conns /\ CloseCancel(session[c])
    BY DEF Next, HandlerStep, ReaderCloses
  <1> QED
    BY DEF LastLaneCloses, TypeOK, Serving

\* What stop() does to the flag of every lane.
LEMMA StopEffect ==
    ASSUME NEW S, Stop(S)
    PROVE  /\ laneClosed' \in [Conns -> BOOLEAN]
           /\ expired' \in [Conns -> BOOLEAN]
           /\ \A c \in Conns : laneClosed'[c] <=> (laneClosed[c] \/ c \in S)
  BY DEF Stop

\* The initial state satisfies the invariant.
LEMMA SessionInitInv == Init => SessionInv
  <1> SUFFICES ASSUME Init PROVE SessionInv
    OBVIOUS
  <1> USE DEF Init
  <1>1. TypeOK
    BY DEF TypeOK, Serving, NoLanes
  <1>2. HandlerOrder
    BY DEF HandlerOrder
  <1>3. LiveSessionIsRegistered /\ RegistryForgetsClosed
    BY DEF LiveSessionIsRegistered, Live, RegistryForgetsClosed
  <1>4. OpenLaneHoldsItsSlot /\ NoLaneOutlivesSession
    BY DEF OpenLaneHoldsItsSlot, NoLaneOutlivesSession, Attached
  <1> QED
    BY <1>1, <1>2, <1>3, <1>4 DEF SessionInv

\* Every step keeps the types.
LEMMA TypeStep ==
    ASSUME SessionInv, [Next]_vars
    PROVE  TypeOK'
  <1> USE SessionConstants DEF laneVars, SessionInv, TypeOK, Serving, HandlerOrder, NoLanes
  <1>1. ASSUME NEW c \in Conns, NEW k \in Ids, NEW i \in Streams, JoinSession(c, k, i)
        PROVE  TypeOK'
    BY <1>1 DEF JoinSession, LiveEntry, Live
  <1>2. ASSUME NEW c \in Conns, NEW k \in Ids, NEW i \in Streams, CreateSession(c, k, i)
        PROVE  TypeOK'
    BY <1>2 DEF CreateSession
  <1>3. ASSUME NEW c \in Conns, NEW k \in Ids, DialFails(c, k) PROVE TypeOK'
    BY <1>3 DEF DialFails
  <1>4. ASSUME NEW c \in Conns, AddLane(c) PROVE TypeOK'
    BY <1>4, StopEffect DEF AddLane
  <1>5. ASSUME NEW c \in Conns, AddLaneFails(c) PROVE TypeOK'
    BY <1>5 DEF AddLaneFails, Leave
  <1>6. ASSUME NEW c \in Conns, ContextDone(c) PROVE TypeOK'
    BY <1>6, StopEffect DEF ContextDone, BeginRemove
  <1>7. ASSUME NEW c \in Conns, ContextAlive(c) PROVE TypeOK'
    BY <1>7 DEF ContextAlive
  <1>8. ASSUME NEW c \in Conns, ArmDeadline(c) PROVE TypeOK'
    BY <1>8 DEF ArmDeadline
  <1>9. ASSUME NEW c \in Conns, PacketHandled(c) PROVE TypeOK'
    BY <1>9 DEF PacketHandled
  <1>10. ASSUME NEW c \in Conns, ReadEnds(c) PROVE TypeOK'
    BY <1>10, StopEffect DEF ReadEnds, BeginRemove
  <1>11. ASSUME NEW c \in Conns, WriteFails(c) PROVE TypeOK'
    BY <1>11, StopEffect DEF WriteFails
  <1>12. ASSUME NEW c \in Conns, RemoveLane(c) PROVE TypeOK'
    BY <1>12 DEF RemoveLane, Leave, Without
  <1>13. ASSUME NEW c \in Conns, RemoveLastLane(c) PROVE TypeOK'
    BY <1>13 DEF RemoveLastLane, Without
  <1>14. ASSUME NEW c \in Conns, CloseReturns(c) PROVE TypeOK'
    BY <1>14 DEF CloseReturns, Leave
  <1>15. ASSUME NEW s \in Conns, CloseCancel(s) PROVE TypeOK'
    BY <1>15 DEF CloseCancel
  <1>16. ASSUME NEW s \in Conns, CloseClear(s) PROVE TypeOK'
    BY <1>16, StopEffect DEF CloseClear
  <1>17. ASSUME NEW s \in Conns, CloseRemove(s) PROVE TypeOK'
    BY <1>17 DEF CloseRemove
  <1>18. CASE ServerCancel
    BY <1>18 DEF ServerCancel
  <1>19. CASE Finished \/ UNCHANGED vars
    BY <1>19 DEF Finished, vars, laneVars
  <1> QED
    BY <1>1, <1>2, <1>3, <1>4, <1>5, <1>6, <1>7, <1>8, <1>9, <1>10,
       <1>11, <1>12, <1>13, <1>14, <1>15, <1>16, <1>17, <1>18, <1>19,
       SessionActions

\* A lane is stopped before it is removed; a session is made by leaving idle.
LEMMA OrderStep ==
    ASSUME SessionInv, [Next]_vars
    PROVE  HandlerOrder'
  <1> USE DEF laneVars, SessionInv, TypeOK, Serving, HandlerOrder
  <1>1. ASSUME NEW c \in Conns, NEW k \in Ids, NEW i \in Streams, JoinSession(c, k, i)
        PROVE  HandlerOrder'
    BY <1>1 DEF JoinSession
  <1>2. ASSUME NEW c \in Conns, NEW k \in Ids, NEW i \in Streams, CreateSession(c, k, i)
        PROVE  HandlerOrder'
    BY <1>2 DEF CreateSession
  <1>3. ASSUME NEW c \in Conns, NEW k \in Ids, DialFails(c, k) PROVE HandlerOrder'
    BY <1>3 DEF DialFails
  <1>4. ASSUME NEW c \in Conns, AddLane(c) PROVE HandlerOrder'
    BY <1>4, StopEffect DEF AddLane
  <1>5. ASSUME NEW c \in Conns, AddLaneFails(c) PROVE HandlerOrder'
    BY <1>5 DEF AddLaneFails, Leave
  <1>6. ASSUME NEW c \in Conns, ContextDone(c) PROVE HandlerOrder'
    BY <1>6, StopEffect DEF ContextDone, BeginRemove
  <1>7. ASSUME NEW c \in Conns, ContextAlive(c) PROVE HandlerOrder'
    BY <1>7 DEF ContextAlive
  <1>8. ASSUME NEW c \in Conns, ArmDeadline(c) PROVE HandlerOrder'
    BY <1>8 DEF ArmDeadline
  <1>9. ASSUME NEW c \in Conns, PacketHandled(c) PROVE HandlerOrder'
    BY <1>9 DEF PacketHandled
  <1>10. ASSUME NEW c \in Conns, ReadEnds(c) PROVE HandlerOrder'
    BY <1>10, StopEffect DEF ReadEnds, BeginRemove
  <1>11. ASSUME NEW c \in Conns, WriteFails(c) PROVE HandlerOrder'
    BY <1>11, StopEffect DEF WriteFails
  <1>12. ASSUME NEW c \in Conns, RemoveLane(c) PROVE HandlerOrder'
    BY <1>12 DEF RemoveLane, Leave, Without
  <1>13. ASSUME NEW c \in Conns, RemoveLastLane(c) PROVE HandlerOrder'
    BY <1>13 DEF RemoveLastLane, Without
  <1>14. ASSUME NEW c \in Conns, CloseReturns(c) PROVE HandlerOrder'
    BY <1>14 DEF CloseReturns, Leave
  <1>15. ASSUME NEW s \in Conns, CloseCancel(s) PROVE HandlerOrder'
    BY <1>15 DEF CloseCancel
  <1>16. ASSUME NEW s \in Conns, CloseClear(s) PROVE HandlerOrder'
    BY <1>16, StopEffect DEF CloseClear
  <1>17. ASSUME NEW s \in Conns, CloseRemove(s) PROVE HandlerOrder'
    BY <1>17 DEF CloseRemove
  <1>18. CASE ServerCancel
    BY <1>18 DEF ServerCancel
  <1>19. CASE Finished \/ UNCHANGED vars
    BY <1>19 DEF Finished, vars, laneVars
  <1> QED
    BY <1>1, <1>2, <1>3, <1>4, <1>5, <1>6, <1>7, <1>8, <1>9, <1>10,
       <1>11, <1>12, <1>13, <1>14, <1>15, <1>16, <1>17, <1>18, <1>19,
       SessionActions

\* Every step keeps live sessions registered.
LEMMA RegisteredStep ==
    ASSUME SessionInv, [Next]_vars
    PROVE  LiveSessionIsRegistered'
  <1> USE SessionConstants DEF laneVars, SessionInv, TypeOK, HandlerOrder, LiveSessionIsRegistered, Live
  <1>1. ASSUME NEW c \in Conns, NEW k \in Ids, NEW i \in Streams, JoinSession(c, k, i)
        PROVE  LiveSessionIsRegistered'
    BY <1>1 DEF JoinSession
  <1>2. ASSUME NEW c \in Conns, NEW k \in Ids, NEW i \in Streams, CreateSession(c, k, i)
        PROVE  LiveSessionIsRegistered'
    BY <1>2 DEF CreateSession, LiveEntry
  <1>3. ASSUME NEW c \in Conns, NEW k \in Ids, DialFails(c, k)
        PROVE  LiveSessionIsRegistered'
    BY <1>3 DEF DialFails
  <1>4. ASSUME NEW c \in Conns, AddLane(c) PROVE LiveSessionIsRegistered'
    BY <1>4, StopEffect DEF AddLane
  <1>5. ASSUME NEW c \in Conns, AddLaneFails(c) PROVE LiveSessionIsRegistered'
    BY <1>5 DEF AddLaneFails, Leave
  <1>6. ASSUME NEW c \in Conns, ContextDone(c) PROVE LiveSessionIsRegistered'
    BY <1>6, StopEffect DEF ContextDone, BeginRemove
  <1>7. ASSUME NEW c \in Conns, ContextAlive(c) PROVE LiveSessionIsRegistered'
    BY <1>7 DEF ContextAlive
  <1>8. ASSUME NEW c \in Conns, ArmDeadline(c) PROVE LiveSessionIsRegistered'
    BY <1>8 DEF ArmDeadline
  <1>9. ASSUME NEW c \in Conns, PacketHandled(c) PROVE LiveSessionIsRegistered'
    BY <1>9 DEF PacketHandled
  <1>10. ASSUME NEW c \in Conns, ReadEnds(c) PROVE LiveSessionIsRegistered'
    BY <1>10, StopEffect DEF ReadEnds, BeginRemove
  <1>11. ASSUME NEW c \in Conns, WriteFails(c) PROVE LiveSessionIsRegistered'
    BY <1>11, StopEffect DEF WriteFails
  <1>12. ASSUME NEW c \in Conns, RemoveLane(c) PROVE LiveSessionIsRegistered'
    BY <1>12 DEF RemoveLane, Leave, Without
  <1>13. ASSUME NEW c \in Conns, RemoveLastLane(c) PROVE LiveSessionIsRegistered'
    BY <1>13 DEF RemoveLastLane, Without
  <1>14. ASSUME NEW c \in Conns, CloseReturns(c) PROVE LiveSessionIsRegistered'
    BY <1>14 DEF CloseReturns, Leave
  <1>15. ASSUME NEW s \in Conns, CloseCancel(s) PROVE LiveSessionIsRegistered'
    BY <1>15 DEF CloseCancel
  <1>16. ASSUME NEW s \in Conns, CloseClear(s) PROVE LiveSessionIsRegistered'
    BY <1>16, StopEffect DEF CloseClear
  <1>17. ASSUME NEW s \in Conns, CloseRemove(s) PROVE LiveSessionIsRegistered'
    BY <1>17 DEF CloseRemove
  <1>18. CASE ServerCancel
    BY <1>18 DEF ServerCancel
  <1>19. CASE Finished \/ UNCHANGED vars
    BY <1>19 DEF Finished, vars, laneVars
  <1> QED
    BY <1>1, <1>2, <1>3, <1>4, <1>5, <1>6, <1>7, <1>8, <1>9, <1>10,
       <1>11, <1>12, <1>13, <1>14, <1>15, <1>16, <1>17, <1>18, <1>19,
       SessionActions

\* Every step keeps the registry free of closed sessions.
LEMMA ForgetsStep ==
    ASSUME SessionInv, [Next]_vars
    PROVE  RegistryForgetsClosed'
  <1> USE SessionConstants DEF laneVars, SessionInv, TypeOK, HandlerOrder, RegistryForgetsClosed
  <1>1. ASSUME NEW c \in Conns, NEW k \in Ids, NEW i \in Streams, JoinSession(c, k, i)
        PROVE  RegistryForgetsClosed'
    BY <1>1 DEF JoinSession
  <1>2. ASSUME NEW c \in Conns, NEW k \in Ids, NEW i \in Streams, CreateSession(c, k, i)
        PROVE  RegistryForgetsClosed'
    BY <1>2 DEF CreateSession
  <1>3. ASSUME NEW c \in Conns, NEW k \in Ids, DialFails(c, k)
        PROVE  RegistryForgetsClosed'
    BY <1>3 DEF DialFails
  <1>4. ASSUME NEW c \in Conns, AddLane(c) PROVE RegistryForgetsClosed'
    BY <1>4, StopEffect DEF AddLane
  <1>5. ASSUME NEW c \in Conns, AddLaneFails(c) PROVE RegistryForgetsClosed'
    BY <1>5 DEF AddLaneFails, Leave
  <1>6. ASSUME NEW c \in Conns, ContextDone(c) PROVE RegistryForgetsClosed'
    BY <1>6, StopEffect DEF ContextDone, BeginRemove
  <1>7. ASSUME NEW c \in Conns, ContextAlive(c) PROVE RegistryForgetsClosed'
    BY <1>7 DEF ContextAlive
  <1>8. ASSUME NEW c \in Conns, ArmDeadline(c) PROVE RegistryForgetsClosed'
    BY <1>8 DEF ArmDeadline
  <1>9. ASSUME NEW c \in Conns, PacketHandled(c) PROVE RegistryForgetsClosed'
    BY <1>9 DEF PacketHandled
  <1>10. ASSUME NEW c \in Conns, ReadEnds(c) PROVE RegistryForgetsClosed'
    BY <1>10, StopEffect DEF ReadEnds, BeginRemove
  <1>11. ASSUME NEW c \in Conns, WriteFails(c) PROVE RegistryForgetsClosed'
    BY <1>11, StopEffect DEF WriteFails
  <1>12. ASSUME NEW c \in Conns, RemoveLane(c) PROVE RegistryForgetsClosed'
    BY <1>12 DEF RemoveLane, Leave, Without
  <1>13. ASSUME NEW c \in Conns, RemoveLastLane(c) PROVE RegistryForgetsClosed'
    BY <1>13 DEF RemoveLastLane, Without
  <1>14. ASSUME NEW c \in Conns, CloseReturns(c) PROVE RegistryForgetsClosed'
    BY <1>14 DEF CloseReturns, Leave
  <1>15. ASSUME NEW s \in Conns, CloseCancel(s) PROVE RegistryForgetsClosed'
    BY <1>15 DEF CloseCancel
  <1>16. ASSUME NEW s \in Conns, CloseClear(s) PROVE RegistryForgetsClosed'
    BY <1>16, StopEffect DEF CloseClear
  <1>17. ASSUME NEW s \in Conns, CloseRemove(s) PROVE RegistryForgetsClosed'
    BY <1>17 DEF CloseRemove
  <1>18. CASE ServerCancel
    BY <1>18 DEF ServerCancel
  <1>19. CASE Finished \/ UNCHANGED vars
    BY <1>19 DEF Finished, vars, laneVars
  <1> QED
    BY <1>1, <1>2, <1>3, <1>4, <1>5, <1>6, <1>7, <1>8, <1>9, <1>10,
       <1>11, <1>12, <1>13, <1>14, <1>15, <1>16, <1>17, <1>18, <1>19,
       SessionActions

\* Every step keeps open lanes in their slots.
LEMMA SlotStep ==
    ASSUME SessionInv, [Next]_vars
    PROVE  OpenLaneHoldsItsSlot'
  <1> USE SessionConstants
      DEF laneVars, SessionInv, TypeOK, Serving, HandlerOrder,
          OpenLaneHoldsItsSlot, Attached, NoLanes
  <1>1. ASSUME NEW c \in Conns, NEW k \in Ids, NEW i \in Streams, JoinSession(c, k, i)
        PROVE  OpenLaneHoldsItsSlot'
    BY <1>1 DEF JoinSession
  <1>2. ASSUME NEW c \in Conns, NEW k \in Ids, NEW i \in Streams, CreateSession(c, k, i)
        PROVE  OpenLaneHoldsItsSlot'
    BY <1>2 DEF CreateSession
  <1>3. ASSUME NEW c \in Conns, NEW k \in Ids, DialFails(c, k)
        PROVE  OpenLaneHoldsItsSlot'
    BY <1>3 DEF DialFails
  <1>4. ASSUME NEW c \in Conns, AddLane(c) PROVE OpenLaneHoldsItsSlot'
    BY <1>4, StopEffect DEF AddLane
  <1>5. ASSUME NEW c \in Conns, AddLaneFails(c) PROVE OpenLaneHoldsItsSlot'
    BY <1>5 DEF AddLaneFails, Leave
  <1>6. ASSUME NEW c \in Conns, ContextDone(c) PROVE OpenLaneHoldsItsSlot'
    BY <1>6, StopEffect DEF ContextDone, BeginRemove
  <1>7. ASSUME NEW c \in Conns, ContextAlive(c) PROVE OpenLaneHoldsItsSlot'
    BY <1>7 DEF ContextAlive
  <1>8. ASSUME NEW c \in Conns, ArmDeadline(c) PROVE OpenLaneHoldsItsSlot'
    BY <1>8 DEF ArmDeadline
  <1>9. ASSUME NEW c \in Conns, PacketHandled(c) PROVE OpenLaneHoldsItsSlot'
    BY <1>9 DEF PacketHandled
  <1>10. ASSUME NEW c \in Conns, ReadEnds(c) PROVE OpenLaneHoldsItsSlot'
    BY <1>10, StopEffect DEF ReadEnds, BeginRemove
  <1>11. ASSUME NEW c \in Conns, WriteFails(c) PROVE OpenLaneHoldsItsSlot'
    BY <1>11, StopEffect DEF WriteFails
  <1>12. ASSUME NEW c \in Conns, RemoveLane(c) PROVE OpenLaneHoldsItsSlot'
    BY <1>12 DEF RemoveLane, Leave, Without
  <1>13. ASSUME NEW c \in Conns, RemoveLastLane(c) PROVE OpenLaneHoldsItsSlot'
    <2>1. ASSUME NEW d \in Conns, Attached(d), ~laneClosed[d] PROVE session[d] # session[c]
      <3>1. d # c /\ laneOf[session[d]][stream[d]] = d /\ d # None
        BY <1>13, <2>1 DEF RemoveLastLane
      <3>2. CASE session[d] = session[c]
        <4>1. Without(c)[stream[d]] = d
          BY <1>13, <2>1, <3>1, <3>2 DEF RemoveLastLane, Without
        <4> QED
          BY <1>13, <2>1, <3>1, <4>1 DEF RemoveLastLane
      <3> QED
        BY <3>2
    <2>2. ASSUME NEW d \in Conns, Attached(d)', ~laneClosed'[d]
          PROVE  laneOf'[session'[d]][stream'[d]] = d
      BY <1>13, <2>1, <2>2 DEF RemoveLastLane
    <2> QED
      BY <2>2
  <1>14. ASSUME NEW c \in Conns, CloseReturns(c) PROVE OpenLaneHoldsItsSlot'
    BY <1>14 DEF CloseReturns, Leave
  <1>15. ASSUME NEW s \in Conns, CloseCancel(s) PROVE OpenLaneHoldsItsSlot'
    BY <1>15 DEF CloseCancel
  <1>16. ASSUME NEW s \in Conns, CloseClear(s) PROVE OpenLaneHoldsItsSlot'
    BY <1>16, StopEffect DEF CloseClear
  <1>17. ASSUME NEW s \in Conns, CloseRemove(s) PROVE OpenLaneHoldsItsSlot'
    BY <1>17 DEF CloseRemove
  <1>18. CASE ServerCancel
    BY <1>18 DEF ServerCancel
  <1>19. CASE Finished \/ UNCHANGED vars
    BY <1>19 DEF Finished, vars, laneVars
  <1> QED
    BY <1>1, <1>2, <1>3, <1>4, <1>5, <1>6, <1>7, <1>8, <1>9, <1>10,
       <1>11, <1>12, <1>13, <1>14, <1>15, <1>16, <1>17, <1>18, <1>19,
       SessionActions

\* Every step leaves no lane to a session whose lanes were cleared.
LEMMA OutliveStep ==
    ASSUME SessionInv, [Next]_vars
    PROVE  NoLaneOutlivesSession'
  <1> USE SessionConstants
      DEF laneVars, SessionInv, TypeOK, Serving, HandlerOrder, OpenLaneHoldsItsSlot,
          NoLaneOutlivesSession, Attached, NoLanes
  <1>1. ASSUME NEW c \in Conns, NEW k \in Ids, NEW i \in Streams, JoinSession(c, k, i)
        PROVE  NoLaneOutlivesSession'
    BY <1>1 DEF JoinSession
  <1>2. ASSUME NEW c \in Conns, NEW k \in Ids, NEW i \in Streams, CreateSession(c, k, i)
        PROVE  NoLaneOutlivesSession'
    BY <1>2 DEF CreateSession
  <1>3. ASSUME NEW c \in Conns, NEW k \in Ids, DialFails(c, k)
        PROVE  NoLaneOutlivesSession'
    BY <1>3 DEF DialFails
  <1>4. ASSUME NEW c \in Conns, AddLane(c) PROVE NoLaneOutlivesSession'
    BY <1>4, StopEffect DEF AddLane, Live
  <1>5. ASSUME NEW c \in Conns, AddLaneFails(c) PROVE NoLaneOutlivesSession'
    BY <1>5 DEF AddLaneFails, Leave
  <1>6. ASSUME NEW c \in Conns, ContextDone(c) PROVE NoLaneOutlivesSession'
    BY <1>6, StopEffect DEF ContextDone, BeginRemove
  <1>7. ASSUME NEW c \in Conns, ContextAlive(c) PROVE NoLaneOutlivesSession'
    BY <1>7 DEF ContextAlive
  <1>8. ASSUME NEW c \in Conns, ArmDeadline(c) PROVE NoLaneOutlivesSession'
    BY <1>8 DEF ArmDeadline
  <1>9. ASSUME NEW c \in Conns, PacketHandled(c) PROVE NoLaneOutlivesSession'
    BY <1>9 DEF PacketHandled
  <1>10. ASSUME NEW c \in Conns, ReadEnds(c) PROVE NoLaneOutlivesSession'
    BY <1>10, StopEffect DEF ReadEnds, BeginRemove
  <1>11. ASSUME NEW c \in Conns, WriteFails(c) PROVE NoLaneOutlivesSession'
    BY <1>11, StopEffect DEF WriteFails
  <1>12. ASSUME NEW c \in Conns, RemoveLane(c) PROVE NoLaneOutlivesSession'
    BY <1>12 DEF RemoveLane, Leave, Without
  <1>13. ASSUME NEW c \in Conns, RemoveLastLane(c) PROVE NoLaneOutlivesSession'
    BY <1>13 DEF RemoveLastLane, Without
  <1>14. ASSUME NEW c \in Conns, CloseReturns(c) PROVE NoLaneOutlivesSession'
    BY <1>14 DEF CloseReturns, Leave
  <1>15. ASSUME NEW s \in Conns, CloseCancel(s) PROVE NoLaneOutlivesSession'
    BY <1>15 DEF CloseCancel
  <1>16. ASSUME NEW s \in Conns, CloseClear(s) PROVE NoLaneOutlivesSession'
    BY <1>16, StopEffect DEF CloseClear
  <1>17. ASSUME NEW s \in Conns, CloseRemove(s) PROVE NoLaneOutlivesSession'
    BY <1>17 DEF CloseRemove
  <1>18. CASE ServerCancel
    BY <1>18 DEF ServerCancel
  <1>19. CASE Finished \/ UNCHANGED vars
    BY <1>19 DEF Finished, vars, laneVars
  <1> QED
    BY <1>1, <1>2, <1>3, <1>4, <1>5, <1>6, <1>7, <1>8, <1>9, <1>10,
       <1>11, <1>12, <1>13, <1>14, <1>15, <1>16, <1>17, <1>18, <1>19,
       SessionActions

\* The inductive invariant holds in every reachable state.
LEMMA SessionInvariant == Spec => []SessionInv
  <1>1. SessionInv /\ [Next]_vars => SessionInv'
    BY TypeStep, OrderStep, RegisteredStep, ForgetsStep, SlotStep, OutliveStep
       DEF SessionInv
  <1> QED
    BY SessionInitInv, <1>1, PTL DEF Spec

\* The variables of every reachable state have their types, and a handler past
\* getOrCreate holds a made session and a stream (session_udp.go:89-115, 448-494).
THEOREM SessionTypeCorrect == Spec => []TypeOK
  <1>1. SessionInv => TypeOK
    BY DEF SessionInv
  <1> QED
    BY SessionInvariant, <1>1, PTL

\* However getOrCreate, close and remove interleave, every session that is not cancelled
\* is the one registered for its key (session_udp.go:89-123).
THEOREM SessionRegistry == Spec => []LiveSessionIsRegistered
  <1>1. SessionInv => LiveSessionIsRegistered
    BY DEF SessionInv
  <1> QED
    BY SessionInvariant, <1>1, PTL

\* A session whose close() has returned is not registered, also when a new session has
\* taken its key in the meantime (session_udp.go:117-123, 340-356).
THEOREM SessionForgotten == Spec => []RegistryForgetsClosed
  <1>1. SessionInv => RegistryForgetsClosed
    BY DEF SessionInv
  <1> QED
    BY SessionInvariant, <1>1, PTL

\* A lane in use is where downlink packets look for it, through replacements, write
\* failures and late removals (session_udp.go:301-338).
THEOREM SessionSlots == Spec => []OpenLaneHoldsItsSlot
  <1>1. SessionInv => OpenLaneHoldsItsSlot
    BY DEF SessionInv
  <1> QED
    BY SessionInvariant, <1>1, PTL

\* Once close() has cleared its lanes a session never serves a client again
\* (session_udp.go:304, 340-356).
THEOREM SessionLanesEnd == Spec => []NoLaneOutlivesSession
  <1>1. SessionInv => NoLaneOutlivesSession
    BY DEF SessionInv
  <1> QED
    BY SessionInvariant, <1>1, PTL
=============================================================================
