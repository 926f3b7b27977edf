------------------------- MODULE UdpListener_proofs -------------------------
(***************************************************************************)
(* The packet listener, for every set of connections and addresses and     *)
(* every backlog.  The routing invariant needs to know that acceptCh holds *)
(* exactly the queued connections, each once; the WaitGroup invariant then *)
(* follows the moves of connections into and out of Counted.               *)
(***************************************************************************)
EXTENDS UdpListener, FiniteSetTheorems, SequenceTheorems, TLAPS

\* acceptCh holds queued connections only, each once.
QueueExact ==
    /\ \A i \in 1..Len(acceptCh) : uconn[acceptCh[i]] = "queued"
    /\ \A i, j \in 1..Len(acceptCh) : acceptCh[i] = acceptCh[j] => i = j

\* The socket goes only after the listener gave back its share of connWG.
SocketOrder ==
    /\ waiter # "waiting" => closer = "released"
    /\ sock = "closed" => waiter = "done"
    /\ crashed => waiter = "done"

\* The variables' types, connWG aside: its sign is a consequence of ConnWGExact.
ListenerShape ==
    /\ accepting \in BOOLEAN
    /\ acceptCh \in Seq(Conns)
    /\ conns \in [Addrs -> Conns \cup {None}]
    /\ raddr \in [Conns -> Addrs \cup {None}]
    /\ uconn \in [Conns -> UConnState]
    /\ closer \in {"open", "discarding", "released"}
    /\ waiter \in {"waiting", "woken", "done"}
    /\ reader \in {"reading", "stopped"}
    /\ sock \in {"open", "closed"}
    /\ crashed \in BOOLEAN

\* The inductive invariant.
ListenerInv ==
    /\ ListenerShape
    /\ QueueExact
    /\ ConnWGExact
    /\ PeersStayRouted
    /\ SocketOrder

\* The connections that hold a share of connWG are finitely many.
LEMMA CountedFinite ==
    /\ Counted \in SUBSET Conns
    /\ IsFiniteSet(Counted)
    /\ Cardinality(Counted) \in Nat
  BY ConnsFinite, FS_Subset, FS_CardinalityType DEF Counted

\* What the head and the tail of a non-empty accept queue are.
LEMMA QueueHead ==
    ASSUME acceptCh \in Seq(Conns), acceptCh # <<>>
    PROVE  /\ Len(acceptCh) \in Nat \ {0}
           /\ Head(acceptCh) = acceptCh[1]
           /\ Head(acceptCh) \in Conns
           /\ Tail(acceptCh) \in Seq(Conns)
           /\ Len(Tail(acceptCh)) = Len(acceptCh) - 1
           /\ \A i \in 1..Len(Tail(acceptCh)) : Tail(acceptCh)[i] = acceptCh[i + 1]
  BY HeadTailProperties, EmptySeq

\* The initial state satisfies the invariant.
LEMMA ListenerInitInv == ListenerInit => ListenerInv
  <1> SUFFICES ASSUME ListenerInit PROVE ListenerInv
    OBVIOUS
  <1>1. ListenerShape
    BY EmptySeq DEF ListenerInit, ListenerShape, UConnState
  <1>2. QueueExact
    BY DEF ListenerInit, QueueExact
  <1>3. Counted = {}
    BY DEF ListenerInit, Counted
  <1>4. ConnWGExact
    BY <1>3, FS_EmptySet DEF ListenerInit, ConnWGExact
  <1>5. PeersStayRouted
    BY DEF ListenerInit, PeersStayRouted, Registered
  <1>6. SocketOrder
    BY DEF ListenerInit, SocketOrder
  <1> QED
    BY <1>1, <1>2, <1>4, <1>5, <1>6 DEF ListenerInv

\* Every step keeps the types.
LEMMA ShapeStep ==
    ASSUME ListenerInv, [ListenerNext]_listenerVars
    PROVE  ListenerShape'
  <1> USE DEF ListenerInv, ListenerShape, UConnState
  <1>1. ASSUME NEW a \in Addrs, NEW c \in Conns, getConn(a, c) PROVE ListenerShape'
    BY <1>1, AppendProperties DEF getConn
  <1>2. ASSUME NEW c \in Conns, AcceptTake(c) PROVE ListenerShape'
    BY <1>2, QueueHead DEF AcceptTake
  <1>3. ASSUME NEW c \in Conns, AcceptAdd(c) PROVE ListenerShape'
    BY <1>3 DEF AcceptAdd
  <1>4. ASSUME NEW c \in Conns, ConnClose(c) PROVE ListenerShape'
    BY <1>4 DEF ConnClose, ConnWGDone
  <1>5. ASSUME NEW c \in Conns, ConnForget(c) PROVE ListenerShape'
    BY <1>5 DEF ConnForget
  <1>6. CASE CloseBegin
    BY <1>6 DEF CloseBegin
  <1>7. CASE CloseDiscard
    BY <1>7, QueueHead DEF CloseDiscard
  <1>8. CASE CloseRelease
    BY <1>8 DEF CloseRelease, ConnWGDone
  <1>9. CASE ReadFails
    BY <1>9 DEF ReadFails
  <1>10. CASE WaiterRuns
    BY <1>10 DEF WaiterRuns
  <1>11. CASE AcceptFails \/ UNCHANGED listenerVars
    BY <1>11 DEF AcceptFails, listenerVars
  <1> QED
    BY <1>1, <1>2, <1>3, <1>4, <1>5, <1>6, <1>7, <1>8, <1>9, <1>10, <1>11 DEF ListenerNext

\* Every step keeps acceptCh the queue of the queued connections.
LEMMA QueueStep ==
    ASSUME ListenerInv, [ListenerNext]_listenerVars
    PROVE  QueueExact'
  <1> USE DEF ListenerInv, ListenerShape
  <1>1. ASSUME NEW a \in Addrs, NEW c \in Conns, getConn(a, c) PROVE QueueExact'
    <2>1. /\ Len(acceptCh') = Len(acceptCh) + 1
          /\ acceptCh'[Len(acceptCh) + 1] = c
          /\ \A i \in 1..Len(acceptCh) : acceptCh'[i] = acceptCh[i] /\ acceptCh[i] \in Conns
          /\ Len(acceptCh) \in Nat
      BY <1>1, AppendProperties DEF getConn
    <2>2. \A i \in 1..Len(acceptCh) : acceptCh[i] # c
      BY <1>1 DEF getConn, QueueExact
    <2>3. \A i \in 1..Len(acceptCh') : i \in 1..Len(acceptCh) \/ i = Len(acceptCh) + 1
      BY <2>1
    <2>4. \A i \in 1..Len(acceptCh') : uconn'[acceptCh'[i]] = "queued"
      BY <1>1, <2>1, <2>2, <2>3 DEF getConn, QueueExact
    <2>5. \A i, j \in 1..Len(acceptCh') : acceptCh'[i] = acceptCh'[j] => i = j
      BY <2>1, <2>2, <2>3 DEF QueueExact
    <2> QED
      BY <2>4, <2>5 DEF QueueExact
  <1>2. ASSUME NEW c \in Conns, acceptCh # <<>>, c = Head(acceptCh), acceptCh' = Tail(acceptCh),
               \A d \in Conns : d # c => uconn'[d] = uconn[d]
        PROVE QueueExact'
    <2>1. \A i \in 1..Len(acceptCh') : /\ i + 1 \in 1..Len(acceptCh)
                                       /\ acceptCh'[i] = acceptCh[i + 1]
                                       /\ acceptCh[i + 1] \in Conns
                                       /\ acceptCh[i + 1] # c
      <3>1. ASSUME NEW i \in 1..Len(acceptCh')
            PROVE  /\ i + 1 \in 1..Len(acceptCh) /\ 1 \in 1..Len(acceptCh) /\ i + 1 # 1
                   /\ acceptCh'[i] = acceptCh[i + 1]
        BY <1>2, QueueHead
      <3> QED
        BY <1>2, <3>1, QueueHead DEF QueueExact
    <2>2. \A i \in 1..Len(acceptCh') : uconn'[acceptCh'[i]] = "queued"
      BY <1>2, <2>1 DEF QueueExact
    <2>3. ASSUME NEW i \in 1..Len(acceptCh'), NEW j \in 1..Len(acceptCh'),
                 acceptCh'[i] = acceptCh'[j]
          PROVE  i = j
      <3>1. i + 1 = j + 1
        BY <2>1, <2>3 DEF QueueExact
      <3> QED
        BY <1>2, <3>1, QueueHead
    <2> QED
      BY <2>2, <2>3 DEF QueueExact
  <1>3. ASSUME NEW c \in Conns, AcceptTake(c) PROVE QueueExact'
    BY <1>2, <1>3 DEF AcceptTake
  <1>4. CASE CloseDiscard
    BY <1>2, <1>4, QueueHead DEF CloseDiscard
  <1>5. ASSUME NEW c \in Conns, uconn[c] # "queued", acceptCh' = acceptCh,
               \A d \in Conns : d # c => uconn'[d] = uconn[d]
        PROVE  QueueExact'
    <2>1. \A i \in 1..Len(acceptCh) : acceptCh[i] \in Conns /\ acceptCh[i] # c
      BY <1>5, ElementOfSeq DEF QueueExact
    <2> QED
      BY <1>5, <2>1 DEF QueueExact
  <1>6. ASSUME NEW c \in Conns, AcceptAdd(c) \/ ConnClose(c) \/ ConnForget(c)
        PROVE  QueueExact'
    BY <1>5, <1>6 DEF AcceptAdd, ConnClose, ConnForget
  <1>7. CASE CloseBegin \/ CloseRelease \/ ReadFails \/ WaiterRuns \/ AcceptFails
                \/ UNCHANGED listenerVars
    BY <1>7 DEF QueueExact, CloseBegin, CloseRelease, ReadFails, WaiterRuns, AcceptFails,
                listenerVars
  <1> QED
    BY <1>1, <1>3, <1>4, <1>6, <1>7 DEF ListenerNext

\* Every step keeps connWG equal to the shares that are out.
LEMMA WGStep ==
    ASSUME ListenerInv, [ListenerNext]_listenerVars
    PROVE  ConnWGExact'
  <1> USE DEF ListenerInv, ListenerShape
  <1>1. ASSUME Counted' = Counted, connWG' = connWG, closer' = closer PROVE ConnWGExact'
    BY <1>1 DEF ConnWGExact
  <1>2. ASSUME NEW a \in Addrs, NEW c \in Conns, getConn(a, c) PROVE ConnWGExact'
    BY <1>1, <1>2 DEF getConn, Counted
  <1>3. ASSUME NEW c \in Conns, AcceptTake(c) PROVE ConnWGExact'
    <2>1. uconn[c] = "queued"
      BY <1>3, QueueHead DEF AcceptTake, QueueExact
    <2> QED
      BY <1>1, <1>3, <2>1 DEF AcceptTake, Counted
  <1>4. ASSUME NEW c \in Conns, AcceptAdd(c) PROVE ConnWGExact'
    <2>1. Counted' = Counted \cup {c} /\ c \notin Counted
      BY <1>4 DEF AcceptAdd, Counted
    <2>2. Cardinality(Counted') = Cardinality(Counted) + 1
      BY <2>1, CountedFinite, FS_AddElement
    <2>3. connWG' = connWG + 1 /\ closer' = closer
      BY <1>4 DEF AcceptAdd
    <2> QED
      BY <2>2, <2>3, CountedFinite DEF ConnWGExact
  <1>5. ASSUME NEW c \in Conns, ConnClose(c) PROVE ConnWGExact'
    <2>1. Counted' = Counted \ {c} /\ c \in Counted
      BY <1>5 DEF ConnClose, Counted
    <2>2. Cardinality(Counted') = Cardinality(Counted) - 1
      BY <2>1, CountedFinite, FS_RemoveElement
    <2>3. connWG' = connWG - 1 /\ closer' = closer
      BY <1>5 DEF ConnClose, ConnWGDone
    <2> QED
      BY <2>2, <2>3, CountedFinite DEF ConnWGExact
  <1>6. ASSUME NEW c \in Conns, ConnForget(c) PROVE ConnWGExact'
    BY <1>1, <1>6 DEF ConnForget, Counted
  <1>7. CASE CloseBegin
    <2>1. Counted' = Counted /\ connWG' = connWG /\ closer # "released" /\ closer' # "released"
      BY <1>7 DEF CloseBegin, Counted
    <2> QED
      BY <2>1 DEF ConnWGExact
  <1>8. CASE CloseDiscard
    <2>1. Head(acceptCh) \in Conns /\ uconn[Head(acceptCh)] = "queued"
      BY <1>8, QueueHead DEF CloseDiscard, QueueExact
    <2> QED
      BY <1>1, <1>8, <2>1 DEF CloseDiscard, Counted
  <1>9. CASE CloseRelease
    <2>1. Counted' = Counted /\ connWG' = connWG - 1 /\ closer # "released" /\ closer' = "released"
      BY <1>9 DEF CloseRelease, ConnWGDone, Counted
    <2> QED
      BY <2>1, CountedFinite DEF ConnWGExact
  <1>10. CASE ReadFails \/ WaiterRuns \/ AcceptFails \/ UNCHANGED listenerVars
    BY <1>1, <1>10 DEF ReadFails, WaiterRuns, AcceptFails, listenerVars, Counted
  <1> QED
    BY <1>2, <1>3, <1>4, <1>5, <1>6, <1>7, <1>8, <1>9, <1>10 DEF ListenerNext

\* Every step keeps each registered connection the owner of its address.
LEMMA RoutedStep ==
    ASSUME ListenerInv, [ListenerNext]_listenerVars
    PROVE  PeersStayRouted'
  <1> USE DEF ListenerInv, ListenerShape
  <1>1. ASSUME Registered' = Registered, conns' = conns, raddr' = raddr PROVE PeersStayRouted'
    BY <1>1 DEF PeersStayRouted
  <1>2. ASSUME NEW a \in Addrs, NEW c \in Conns, getConn(a, c) PROVE PeersStayRouted'
    <2>1. Registered' = Registered \cup {c} /\ c \notin Registered
      BY <1>2 DEF getConn, Registered
    <2>2. \A d \in Registered : raddr'[d] = raddr[d] /\ raddr[d] # a
      BY <1>2, <2>1, ListenerConstants DEF getConn, PeersStayRouted, Registered
    <2> QED
      BY <1>2, <2>1, <2>2 DEF getConn, PeersStayRouted
  <1>3. ASSUME NEW c \in Conns, c \in Registered, Registered' = Registered \ {c},
               conns' = [conns EXCEPT ![raddr[c]] = None], raddr' = raddr
        PROVE  PeersStayRouted'
    <2>1. \A d \in Registered : d # c => raddr[d] # raddr[c]
      BY <1>3 DEF PeersStayRouted
    <2>2. \A d \in Registered \ {c} : raddr'[d] \in Addrs /\ conns'[raddr'[d]] = d
      BY <1>3, <2>1 DEF PeersStayRouted
    <2>3. \A a \in Addrs : conns'[a] # None => a # raddr[c] /\ conns'[a] = conns[a]
      BY <1>3 DEF PeersStayRouted
    <2>4. \A a \in Addrs : conns'[a] # None => conns'[a] \in Registered \ {c} /\ raddr'[conns'[a]] = a
      BY <1>3, <2>3 DEF PeersStayRouted
    <2> QED
      BY <1>3, <2>2, <2>4 DEF PeersStayRouted
  <1>4. ASSUME NEW c \in Conns, AcceptTake(c) PROVE PeersStayRouted'
    <2>1. uconn[c] = "queued"
      BY <1>4, QueueHead DEF AcceptTake, QueueExact
    <2> QED
      BY <1>1, <1>4, <2>1 DEF AcceptTake, Registered
  <1>5. ASSUME NEW c \in Conns, AcceptAdd(c) \/ ConnClose(c) PROVE PeersStayRouted'
    BY <1>1, <1>5 DEF AcceptAdd, ConnClose, Registered
  <1>6. ASSUME NEW c \in Conns, ConnForget(c) PROVE PeersStayRouted'
    BY <1>3, <1>6 DEF ConnForget, Registered
  <1>7. CASE CloseDiscard
    <2>1. Head(acceptCh) \in Conns /\ uconn[Head(acceptCh)] = "queued"
      BY <1>7, QueueHead DEF CloseDiscard, QueueExact
    <2> QED
      BY <1>3, <1>7, <2>1 DEF CloseDiscard, Registered
  <1>8. CASE CloseBegin \/ CloseRelease \/ ReadFails \/ WaiterRuns \/ AcceptFails
                \/ UNCHANGED listenerVars
    BY <1>1, <1>8 DEF Registered, CloseBegin, CloseRelease, ReadFails, WaiterRuns, AcceptFails,
                      listenerVars
  <1> QED
    BY <1>2, <1>4, <1>5, <1>6, <1>7, <1>8 DEF ListenerNext

\* connWG reaches zero only after the listener gave back its share.
LEMMA SocketStep ==
    ASSUME ListenerInv, [ListenerNext]_listenerVars
    PROVE  SocketOrder'
  <1> USE DEF ListenerInv, ListenerShape, SocketOrder
  <1>1. ASSUME NEW c \in Conns, ConnClose(c) PROVE SocketOrder'
    <2>1. c \in Counted
      BY <1>1 DEF ConnClose, Counted
    <2>2. Cardinality(Counted) # 0
      BY <2>1, CountedFinite, FS_EmptySet
    <2>3. connWG = 1 => closer = "released"
      BY <2>2, CountedFinite DEF ConnWGExact
    <2> QED
      BY <1>1, <2>3 DEF ConnClose, ConnWGDone
  <1>2. CASE CloseRelease
    BY <1>2 DEF CloseRelease, ConnWGDone
  <1>3. CASE CloseBegin
    BY <1>3 DEF CloseBegin
  <1>4. CASE WaiterRuns
    BY <1>4 DEF WaiterRuns
  <1>5. ASSUME UNCHANGED <<closer, waiter, sock, crashed>> PROVE SocketOrder'
    BY <1>5
  <1> QED
    BY <1>1, <1>2, <1>3, <1>4, <1>5 DEF ListenerNext, listenerVars, getConn, AcceptTake, AcceptAdd,
        ConnForget, CloseDiscard, ReadFails, AcceptFails

\* Every step of the listener keeps the invariant.
LEMMA ListenerNextInv == ListenerInv /\ [ListenerNext]_listenerVars => ListenerInv'
  BY ShapeStep, QueueStep, WGStep, RoutedStep, SocketStep DEF ListenerInv

\* The invariant gives the type invariant.
LEMMA ListenerInvType == ListenerInv => ListenerTypeOK
  BY CountedFinite DEF ListenerInv, ListenerShape, ListenerTypeOK, ConnWGExact

(***************************************************************************)
(* No step of the listener, its connections or its callers takes another   *)
(* peer's address out of the routing map.                                  *)
(***************************************************************************)
THEOREM ListenerRouting == ListenerSpec => []PeersStayRouted
  <1>1. ListenerInv => PeersStayRouted
    BY DEF ListenerInv
  <1> QED
    BY <1>1, ListenerInitInv, ListenerNextInv, PTL DEF ListenerSpec

(***************************************************************************)
(* connWG counts the accepted, unclosed connections and the listener.      *)
(***************************************************************************)
THEOREM ListenerShares == ListenerSpec => []ConnWGExact
  <1>1. ListenerInv => ConnWGExact
    BY DEF ListenerInv
  <1> QED
    BY <1>1, ListenerInitInv, ListenerNextInv, PTL DEF ListenerSpec
=============================================================================
