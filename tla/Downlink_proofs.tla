-------------------------- MODULE Downlink_proofs --------------------------
(***************************************************************************)
(* Proofs about Downlink.tla, for any number of lanes, streams and packets *)
(* and any queue and stripe sizes.                                         *)
(*                                                                         *)
(* What keeps a legacy session in order is that the selector stays pinned: *)
(* an open lane that holds a packet, queued or in its writer's hand, is    *)
(* the one the selector remembers (Pinned).  So a later packet cannot be   *)
(* placed elsewhere, and what an open lane holds is later than what every  *)
(* other lane holds and than what was written before (Latest).  Both need  *)
(* the lanes' life (LaneOrder): a lane that is not added yet holds nothing *)
(* and an open lane is in the slot of its stream.                          *)
(***************************************************************************)
EXTENDS Downlink, TLAPS, WellFoundedInduction

\* The packets lane c holds.
Queued(c)  == {out[c][k] : k \in 1 .. Len(out[c])}
Holds(c)   == Queued(c) \cup {p \in {inHand[c]} : writer[c] = "writing"}

\* The life of a lane and of its writer.
LaneOrder ==
    /\ \A c \in Conns :
          /\ lane[c] = "none" => hello[c] = None /\ writer[c] = "none" /\ out[c] = <<>>
          /\ lane[c] # "none" => hello[c] \in Hellos
          /\ lane[c] = "open" => laneOf[hello[c].streamID] = c
          /\ writer[c] = "writing" => inHand[c] > 0
    /\ \A i \in Streams : laneOf[i] # None =>
          lane[laneOf[i]] # "none" /\ hello[laneOf[i]].streamID = i

\* The second loop of choose is for a session with a reorder buffer, and its packet is
\* not counted yet.
ScanStripes == scan # NoScan => ~Legacy /\ fromBackend < MaxPackets

\* An open lane of a legacy session that holds a packet is the pinned one.
Pinned ==
    Legacy => \A c \in Conns : lane[c] = "open" /\ Holds(c) # {} =>
                 sel.hasCurrent /\ sel.current = hello[c].streamID

\* Queues are in the order of the backend, and nothing is ahead of it.
Queues ==
    /\ \A c \in Conns : \A k, m \in 1 .. Len(out[c]) : k < m => out[c][k] < out[c][m]
    /\ \A c \in Conns : \A k \in 1 .. Len(out[c]) : 
          /\ out[c][k] <= fromBackend
          /\ writer[c] = "writing" => inHand[c] < out[c][k]
    /\ \A c \in Conns : inHand[c] <= fromBackend
    /\ lastWritten <= fromBackend

\* What an open lane of a legacy session holds is later than what was written and than
\* what the other lanes hold.
Latest ==
    Legacy => \A c \in Conns : lane[c] = "open" => \A p \in Holds(c) :
                 /\ lastWritten < p
                 /\ \A d \in Conns \ {c} : \A q \in Holds(d) : q < p

DownlinkInv ==
    /\ TypeOK
    /\ LaneOrder
    /\ ScanStripes
    /\ Pinned
    /\ Queues
    /\ Latest

-----------------------------------------------------------------------------
(* The selector.                                                           *)

\* A nonempty set of numbers has a least element.
LEMMA LeastExists ==
    ASSUME NEW S, S \subseteq Nat, S # {}
    PROVE  \E x \in S : \A y \in S : x <= y
  <1> DEFINE R == OpToRel(<, Nat)
  <1>1. IsWellFoundedOn(R, Nat)
    BY NatLessThanWellFounded
  <1>2. PICK x \in S : \A y \in S : ~(<<y, x>> \in R)
    <2> HIDE DEF R
    <2> QED BY <1>1, WFMin
  <1>3. \A y \in S : ~(y < x)
    BY <1>2 DEF OpToRel
  <1> QED
    BY <1>3

\* The loops over offset find a stream if there is one.
LEMMA FirstFromIn ==
    ASSUME NEW cursor \in Streams, NEW S \in SUBSET Streams, S # {}
    PROVE  FirstFrom(cursor, S) \in S
  <1> DEFINE T == {Offset(cursor, s) : s \in S}
  <1>1. \A s \in Streams : Offset(cursor, s) \in Nat
    <2> TAKE s \in Streams
    <2>1. s - cursor + MaxStreams \in Int /\ MaxStreams \in Nat \ {0}
      BY SelectorConstants DEF Streams
    <2> QED
      BY <2>1 DEF Offset
  <1>2. T \subseteq Nat /\ T # {}
    BY <1>1
  <1>3. PICK x \in T : \A y \in T : x <= y
    <2> HIDE DEF T
    <2> QED BY <1>2, LeastExists
  <1>4. PICK s \in S : x = Offset(cursor, s)
    BY <1>3
  <1>5. \A t \in S : Offset(cursor, s) <= Offset(cursor, t)
    BY <1>3, <1>4
  <1> QED
    BY <1>5 DEF FirstFrom

\* minimumDepth is the least depth of an open lane.
LEMMA MinimumDepth ==
    ASSUME NEW D \in SUBSET Streams, D # {}, NEW L \in [D -> OpenLane]
    PROVE  /\ minimumDepth(L) \in 0 .. QueueSize
           /\ \E s \in D : L[s].depth = minimumDepth(L)
           /\ \A s \in D : minimumDepth(L) <= L[s].depth
  <1> DEFINE T == {L[s].depth : s \in D}
  <1>1. \A s \in D : L[s].depth \in 0 .. QueueSize
    BY DEF OpenLane
  <1>2. T \subseteq Nat /\ T # {}
    BY <1>1, SelectorConstants
  <1>3. PICK x \in T : \A y \in T : x <= y
    <2> HIDE DEF T
    <2> QED BY <1>2, LeastExists
  <1>4. /\ x \in 0 .. QueueSize
        /\ \E s \in DOMAIN L : L[s].depth = x
        /\ \A s \in DOMAIN L : x <= L[s].depth
    BY <1>1, <1>3
  <1> QED
    BY <1>4 DEF minimumDepth

\* The choice t is to take the lane of stream i, which becomes the current one.
Taken(t, i) ==
    /\ t.stream = i /\ t.minDepth = NoScan /\ t.sel \in Selector
    /\ t.sel.hasCurrent = TRUE /\ t.sel.current = i

\* Taking a lane makes it the current one.
LEMMA TakeEffect ==
    ASSUME NEW s \in Selector, NEW i \in Streams, NEW r \in 0 .. StripeSize - 1
    PROVE  Taken(Take(s, i, r), i)
  <1>1. (i + 1) % MaxStreams \in Streams
    BY SelectorConstants DEF Streams
  <1>2. ASSUME NEW k \in Streams
        PROVE  [s EXCEPT !.cursor = k, !.current = i, !.hasCurrent = TRUE, !.remaining = r]
                   \in Selector
    BY DEF Selector
  <1> QED
    BY <1>1, <1>2 DEF Taken, Take, Choice, Selector

\* A stream is not the answer nil.
LEMMA NoStreamOut == \A i \in Streams : i # NoStream
  BY SelectorConstants DEF Streams, NoStream

\* Without a lane to take, choose only drops the current one.
LEMMA ForgetEffect ==
    ASSUME NEW s \in Selector
    PROVE  /\ Forget(s).stream = NoStream
           /\ Forget(s).minDepth = NoScan
           /\ Forget(s).sel \in Selector
  BY DEF Forget, Choice, Selector

\* What choose answers for open lanes L, D being their streams.
ChoiceOK(s, D, L, ch) ==
    /\ ch.sel \in Selector
    /\ ch.minDepth \in 0 .. QueueSize - 1 \cup {NoScan}
    /\ ch.stream \in D \cup {NoStream}
    /\ ch.minDepth # NoScan => D # {} /\ canStripe(L)
    /\ ch.minDepth = NoScan /\ ch.stream = NoStream =>
          \/ WithRoom(L) = {}
          \/ ~canStripe(L) /\ s.hasCurrent /\ s.current \in D \ WithRoom(L)
    /\ ch.stream # NoStream =>
          /\ L[ch.stream].depth < QueueSize
          /\ canStripe(L) => L[ch.stream].depth < StripeSize
    /\ ~canStripe(L) =>
          \/ /\ s.hasCurrent /\ s.current \in D
             /\ ch.sel = s /\ ch.stream \in {s.current, NoStream}
          \/ /\ ~(s.hasCurrent /\ s.current \in D)
             /\ ch.stream # NoStream => ch.sel.hasCurrent /\ ch.sel.current = ch.stream

\* The branch for sessions with a lane that cannot reorder.
LEMMA ChoosePinnedOK ==
    ASSUME NEW s \in Selector, NEW D \in SUBSET Streams, NEW L \in [D -> OpenLane],
           ~canStripe(L)
    PROVE  ChoiceOK(s, D, L, choosePinned(s, L))
  <1> SUFFICES ASSUME NEW ch, ch = choosePinned(s, L)
               PROVE  ChoiceOK(s, D, L, ch)
    OBVIOUS
  <1>1. CASE s.hasCurrent /\ s.current \in D
    <2>1. ch = Choice(IF L[s.current].depth < QueueSize THEN s.current ELSE NoStream, s)
      BY <1>1 DEF choosePinned
    <2>2. CASE L[s.current].depth < QueueSize
      <3>1. ch = [stream |-> s.current, sel |-> s, minDepth |-> NoScan]
        BY <2>1, <2>2 DEF Choice
      <3> QED
        BY <1>1, <2>2, <3>1, NoStreamOut DEF ChoiceOK
    <2>3. CASE ~(L[s.current].depth < QueueSize)
      <3>1. ch = [stream |-> NoStream, sel |-> s, minDepth |-> NoScan]
        BY <2>1, <2>3 DEF Choice
      <3>2. s.current \in D \ WithRoom(L)
        BY <1>1, <2>3 DEF WithRoom
      <3> QED
        BY <1>1, <3>1, <3>2 DEF ChoiceOK
    <2> QED
      BY <2>2, <2>3
  <1>2. CASE ~(s.hasCurrent /\ s.current \in D) /\ WithRoom(L) = {}
    <2>1. ch = Forget(s)
      BY <1>2 DEF choosePinned
    <2> QED
      BY <1>2, <2>1, ForgetEffect DEF ChoiceOK
  <1>3. CASE ~(s.hasCurrent /\ s.current \in D) /\ WithRoom(L) # {}
    <2> DEFINE f == FirstFrom(s.cursor, WithRoom(L))
    <2>1. ch = Take(s, f, 0)
      BY <1>3 DEF choosePinned
    <2>2. WithRoom(L) \subseteq D /\ s.cursor \in Streams
      BY DEF WithRoom, Selector
    <2>3. f \in WithRoom(L)
      BY <1>3, <2>2, FirstFromIn
    <2> HIDE DEF f
    <2>4. f \in D /\ L[f].depth < QueueSize /\ f # NoStream /\ f \in Streams
      BY <2>3, NoStreamOut DEF WithRoom
    <2>5. PICK r \in 0 .. StripeSize - 1 : ch = Take(s, f, r)
      BY <2>1, SelectorConstants
    <2>6. Taken(ch, f)
      BY <2>4, <2>5, TakeEffect
    <2> QED
      BY <1>3, <2>4, <2>6 DEF ChoiceOK, Taken
  <1> QED
    BY <1>1, <1>2, <1>3

\* The branch that continues a stripe or asks for a scan.
LEMMA ChooseStripedOK ==
    ASSUME NEW s0 \in Selector, NEW s \in Selector, NEW D \in SUBSET Streams, D # {},
           NEW L \in [D -> OpenLane], canStripe(L)
    PROVE  ChoiceOK(s0, D, L, chooseStriped(s, L))
  <1> DEFINE ch == chooseStriped(s, L)
             go == /\ s.hasCurrent /\ s.remaining > 0
                   /\ s.current \in DOMAIN L /\ L[s.current].depth < StripeSize
             d  == minimumDepth(L)
  <1>1. CASE go
    <2>1. ch = Choice(s.current, [s EXCEPT !.remaining = @ - 1])
      BY <1>1 DEF chooseStriped
    <2>2. \A r \in 0 .. StripeSize - 1 : [s EXCEPT !.remaining = r] \in Selector
      BY DEF Selector
    <2>3. s.remaining \in 0 .. StripeSize - 1 /\ s.remaining > 0
      BY <1>1 DEF Selector
    <2>4. s.remaining - 1 \in 0 .. StripeSize - 1
      BY <2>3, SelectorConstants
    <2>5. [s EXCEPT !.remaining = @ - 1] \in Selector
      BY <2>2, <2>4
    <2>6. s.current \in D /\ L[s.current].depth < StripeSize /\ s.current # NoStream
      BY <1>1 DEF NoStream, Streams
    <2>7. L[s.current].depth < QueueSize
      BY <2>6, SelectorConstants DEF OpenLane
    <2> QED
      BY <2>1, <2>5, <2>6, <2>7 DEF ChoiceOK, Choice
  <1>2. /\ d \in 0 .. QueueSize
        /\ \A i \in D : d <= L[i].depth
    BY MinimumDepth
  <1>3. CASE ~go /\ d >= QueueSize
    <2>1. ch = Forget(s)
      BY <1>3 DEF chooseStriped
    <2>2. WithRoom(L) = {}
      BY <1>2, <1>3, SelectorConstants DEF WithRoom, OpenLane
    <2> QED
      BY <2>1, <2>2, ForgetEffect DEF ChoiceOK
  <1>4. CASE ~go /\ ~(d >= QueueSize)
    <2>1. ch = ScanFor(d, s)
      BY <1>4 DEF chooseStriped
    <2>2. d \in 0 .. QueueSize - 1 /\ d # NoScan
      BY <1>2, <1>4, SelectorConstants DEF NoScan
    <2> HIDE DEF d
    <2> QED
      BY <2>1, <2>2 DEF ChoiceOK, ScanFor
  <1> QED
    BY <1>1, <1>3, <1>4

\* choose answers within its ranges; it answers nothing only if no lane has room or the
\* pinned lane is full, and a legacy session is moved only when the pinned lane is gone.
LEMMA ChooseOK ==
    ASSUME NEW s \in Selector, NEW D \in SUBSET Streams, NEW L \in [D -> OpenLane],
           NEW gap \in BOOLEAN
    PROVE  ChoiceOK(s, D, L, choose(s, L, gap))
  <1>1. CASE D = {}
    <2>1. choose(s, L, gap) = Forget(s)
      BY <1>1 DEF choose
    <2>2. WithRoom(L) = {} /\ canStripe(L)
      BY <1>1 DEF WithRoom, canStripe
    <2> QED
      BY <2>1, <2>2, ForgetEffect DEF ChoiceOK
  <1>2. CASE D # {} /\ canStripe(L)
    <2>1. choose(s, L, gap) = chooseStriped(afterGap(s, gap), L)
      BY <1>2 DEF choose
    <2>2. 0 \in 0 .. StripeSize - 1
      BY SelectorConstants
    <2>3. afterGap(s, gap) \in Selector
      BY <2>2 DEF afterGap, Selector
    <2> QED
      BY <1>2, <2>1, <2>3, ChooseStripedOK
  <1>3. CASE D # {} /\ ~canStripe(L)
    <2>1. choose(s, L, gap) = choosePinned(s, L)
      BY <1>3 DEF choose
    <2> QED
      BY <1>3, <2>1, ChoosePinnedOK
  <1> QED
    BY <1>1, <1>2, <1>3

\* The second loop takes a lane of the given depth if there is one.
LEMMA ScanLanesOK ==
    ASSUME NEW s \in Selector, NEW D \in SUBSET Streams, NEW L \in [D -> OpenLane],
           NEW depth \in 0 .. QueueSize - 1
    PROVE  LET ch == scanLanes(s, L, depth) IN
           /\ ch.sel \in Selector
           /\ ch.stream \in D \cup {NoStream}
           /\ ch.stream # NoStream => L[ch.stream].depth = depth
           /\ ch.stream = NoStream => \A i \in D : L[i].depth # depth
  <1> DEFINE C == {i \in D : L[i].depth = depth}
  <1>1. CASE C = {}
    <2>1. scanLanes(s, L, depth) = Forget(s)
      BY <1>1 DEF scanLanes
    <2> QED
      BY <1>1, <2>1, ForgetEffect
  <1>2. CASE C # {}
    <2> DEFINE f == FirstFrom(s.cursor, C)
    <2>1. scanLanes(s, L, depth) = Take(s, f, StripeSize - 1)
      BY <1>2 DEF scanLanes
    <2>2. f \in C
      BY <1>2, FirstFromIn DEF Selector
    <2> HIDE DEF f
    <2>3. f \in D /\ L[f].depth = depth /\ f # NoStream /\ f \in Streams
      BY <2>2, NoStreamOut
    <2>4. PICK r \in 0 .. StripeSize - 1 : scanLanes(s, L, depth) = Take(s, f, r)
      BY <2>1, SelectorConstants
    <2>5. Taken(scanLanes(s, L, depth), f)
      BY <2>3, <2>4, TakeEffect
    <2> QED
      BY <2>3, <2>5 DEF Taken
  <1> QED
    BY <1>1, <1>2

-----------------------------------------------------------------------------
(* One packet.                                                             *)

\* A send into a queue and a receive from it.
LEMMA AppendFacts ==
    ASSUME NEW S, NEW q \in Seq(S), NEW x \in S
    PROVE  /\ Append(q, x) \in Seq(S) /\ Len(q) \in Nat /\ Len(Append(q, x)) = Len(q) + 1
           /\ \A k \in 1 .. Len(q) : Append(q, x)[k] = q[k]
           /\ Append(q, x)[Len(q) + 1] = x
  OBVIOUS

\* The elements of a queue.
LEMMA ElementsOf ==
    ASSUME NEW S, NEW q \in Seq(S)
    PROVE  \A k \in 1 .. Len(q) : q[k] \in S
  OBVIOUS

\* The rest of a queue after a receive.
LEMMA TailFacts ==
    ASSUME NEW S, NEW q \in Seq(S), q # <<>>
    PROVE  /\ Tail(q) \in Seq(S) /\ Len(q) \in Nat \ {0} /\ Len(Tail(q)) = Len(q) - 1
           /\ \A k \in 1 .. Len(Tail(q)) : k + 1 \in 1 .. Len(q) /\ Tail(q)[k] = q[k + 1]
           /\ Head(q) = q[1] /\ q[1] \in S
  OBVIOUS

\* The lanes choose looks at.
LEMMA LanesTyped ==
    ASSUME TypeOK, LaneOrder
    PROVE  /\ OpenStreams \in SUBSET Streams
           /\ OpenLanes \in [OpenStreams -> OpenLane]
           /\ \A i \in OpenStreams :
                 /\ laneOf[i] \in Conns /\ lane[laneOf[i]] = "open"
                 /\ hello[laneOf[i]] \in Hellos /\ hello[laneOf[i]].streamID = i
                 /\ OpenLanes[i].depth = Len(out[laneOf[i]])
                 /\ OpenLanes[i].reorder = hello[laneOf[i]].supportsReorder
  <1>1. OpenStreams \in SUBSET Streams
    BY DEF OpenStreams
  <1>2. \A i \in OpenStreams :
           /\ laneOf[i] \in Conns /\ lane[laneOf[i]] = "open"
           /\ hello[laneOf[i]] \in Hellos /\ hello[laneOf[i]].streamID = i
    BY DEF OpenStreams, TypeOK, LaneOrder
  <1>3. \A i \in OpenStreams : hello[laneOf[i]].supportsReorder \in BOOLEAN
    BY <1>2, DownlinkConstants
  <1>4. \A i \in OpenStreams : Len(out[laneOf[i]]) \in 0 .. QueueSize
    <2> TAKE i \in OpenStreams
    <2>1. laneOf[i] \in Conns
      BY <1>2
    <2>2. out[laneOf[i]] \in Seq(1 .. MaxPackets) /\ Len(out[laneOf[i]]) <= QueueSize
      BY <2>1 DEF TypeOK
    <2> QED
      BY <2>2, SelectorConstants
  <1> QED
    BY <1>1, <1>2, <1>3, <1>4 DEF OpenLanes, OpenLane

\* In a legacy session no open lane stripes.
LEMMA LegacyLanes ==
    ASSUME TypeOK, LaneOrder, Legacy, OpenStreams # {}
    PROVE  ~canStripe(OpenLanes)
  <1>1. PICK i \in OpenStreams : TRUE
    OBVIOUS
  <1>2. /\ DOMAIN OpenLanes = OpenStreams
        /\ laneOf[i] \in Conns /\ hello[laneOf[i]] \in Hellos
        /\ OpenLanes[i].reorder = hello[laneOf[i]].supportsReorder
    BY <1>1, LanesTyped
  <1>3. ~hello[laneOf[i]].supportsReorder
    BY <1>2, DownlinkConstants DEF Legacy, TypeOK
  <1> QED
    BY <1>2, <1>3 DEF canStripe

\* Place puts the packet at the end of one queue that has room, or nowhere.
LEMMA PlaceEffect ==
    ASSUME TypeOK, LaneOrder, NEW stream \in OpenStreams \cup {NoStream}, Place(stream),
           fromBackend < MaxPackets
    PROVE  /\ fromBackend' = fromBackend + 1
           /\ fromBackend' \in 0 .. MaxPackets
           /\ out' \in [Conns -> Seq(1 .. MaxPackets)]
           /\ \A c \in Conns : Len(out'[c]) <= QueueSize
           /\ \A c \in Conns :
                 \/ out'[c] = out[c]
                 \/ /\ stream \in OpenStreams /\ c = laneOf[stream]
                    /\ out'[c] = Append(out[c], fromBackend + 1)
           /\ stream \in OpenStreams /\ Len(out[laneOf[stream]]) < QueueSize =>
                 out'[laneOf[stream]] = Append(out[laneOf[stream]], fromBackend + 1)
  <1>1. fromBackend' = fromBackend + 1 /\ fromBackend + 1 \in 1 .. MaxPackets
    BY DownlinkConstants DEF Place, TypeOK
  <1>2. CASE stream = NoStream
    BY <1>1, <1>2, LanesTyped, NoStreamOut DEF Place, TypeOK
  <1>3. CASE stream \in OpenStreams
    <2> DEFINE e == laneOf[stream]
               q == IF Len(out[e]) < QueueSize THEN Append(out[e], fromBackend + 1) ELSE out[e]
    <2>1. e \in Conns /\ stream # NoStream
      BY <1>3, LanesTyped, NoStreamOut
    <2>2. out' = [out EXCEPT ![e] = q]
      BY <1>3, <2>1 DEF Place
    <2>3. out \in [Conns -> Seq(1 .. MaxPackets)] /\ Len(out[e]) \in Nat /\ Len(out[e]) <= QueueSize
      BY <2>1 DEF TypeOK
    <2>4. q \in Seq(1 .. MaxPackets) /\ Len(q) <= QueueSize
      <3>1. out[e] \in Seq(1 .. MaxPackets)
        BY <2>1, <2>3
      <3>2. CASE Len(out[e]) < QueueSize
        <4>1. q = Append(out[e], fromBackend + 1)
          BY <3>2
        <4>2. Len(q) = Len(out[e]) + 1 /\ q \in Seq(1 .. MaxPackets)
          <5> HIDE DEF q, e
          <5> QED BY <1>1, <3>1, <4>1, AppendFacts
        <4> HIDE DEF q, e
        <4> QED
          BY <2>3, <3>2, <4>2, SelectorConstants
      <3>3. CASE ~(Len(out[e]) < QueueSize)
        BY <2>3, <3>1, <3>3
      <3> QED
        BY <3>2, <3>3
    <2>5. q = out[e] \/ q = Append(out[e], fromBackend + 1)
      OBVIOUS
    <2>6. Len(out[e]) < QueueSize => q = Append(out[e], fromBackend + 1)
      OBVIOUS
    <2>7. \A c \in Conns : Len(out[c]) <= QueueSize
      BY DEF TypeOK
    <2> HIDE DEF q, e
    <2>8. /\ out' \in [Conns -> Seq(1 .. MaxPackets)]
          /\ out'[e] = q /\ \A c \in Conns \ {e} : out'[c] = out[c]
      BY <2>1, <2>2, <2>3, <2>4
    <2>9. \A c \in Conns : Len(out'[c]) <= QueueSize
      BY <2>4, <2>7, <2>8
    <2>10. e = laneOf[stream]
      BY DEF e
    <2>11. \A c \in Conns :
                 \/ out'[c] = out[c]
                 \/ /\ stream \in OpenStreams /\ c = laneOf[stream]
                    /\ out'[c] = Append(out[c], fromBackend + 1)
      BY <1>3, <2>5, <2>8, <2>10
    <2>12. Len(out[laneOf[stream]]) < QueueSize =>
                 out'[laneOf[stream]] = Append(out[laneOf[stream]], fromBackend + 1)
      BY <2>6, <2>8, <2>10
    <2>13. fromBackend' \in 0 .. MaxPackets
      BY <1>1
    <2> QED
      BY <1>1, <2>8, <2>9, <2>11, <2>12, <2>13
  <1> QED
    BY <1>2, <1>3

\* What a step of the backend reader does: it either leaves the packet for the second
\* loop or places it, on the lane choose answers.
Placed(stream) ==
    /\ stream \in OpenStreams \cup {NoStream}
    /\ Place(stream)
    /\ scan' = NoScan
    /\ fromBackend < MaxPackets

\* enqueueDownlink up to the end of the first loop of choose.
LEMMA EnqueueEffect ==
    ASSUME TypeOK, LaneOrder, NEW gap \in BOOLEAN, EnqueueDownlink(gap)
    PROVE  /\ ChoiceOK(sel, OpenStreams, OpenLanes, choose(sel, OpenLanes, gap))
           /\ sel' = choose(sel, OpenLanes, gap).sel /\ sel' \in Selector
           /\ \/ /\ scan' \in 0 .. QueueSize - 1 /\ OpenStreams # {} /\ canStripe(OpenLanes)
                 /\ UNCHANGED <<out, fromBackend>> /\ fromBackend < MaxPackets
              \/ /\ Placed(choose(sel, OpenLanes, gap).stream)
                 /\ choose(sel, OpenLanes, gap).minDepth = NoScan
  <1>1. ChoiceOK(sel, OpenStreams, OpenLanes, choose(sel, OpenLanes, gap))
    BY LanesTyped, ChooseOK DEF TypeOK
  <1>2. SUFFICES ASSUME NEW ch, ch = choose(sel, OpenLanes, gap),
                        ChoiceOK(sel, OpenStreams, OpenLanes, ch)
        PROVE  /\ sel' = ch.sel /\ sel' \in Selector
               /\ \/ /\ scan' \in 0 .. QueueSize - 1 /\ OpenStreams # {} /\ canStripe(OpenLanes)
                     /\ UNCHANGED <<out, fromBackend>> /\ fromBackend < MaxPackets
                  \/ Placed(ch.stream) /\ ch.minDepth = NoScan
    BY <1>1
  <1>3. /\ fromBackend < MaxPackets /\ sel' = ch.sel /\ scan' = ch.minDepth
        /\ ch.minDepth = NoScan => Place(ch.stream)
        /\ ch.minDepth # NoScan => UNCHANGED <<out, fromBackend>>
    BY <1>2 DEF EnqueueDownlink
  <1> QED
    BY <1>2, <1>3 DEF ChoiceOK, Placed

\* The second loop of choose and the rest of enqueueDownlink.
LEMMA ScanEffect ==
    ASSUME TypeOK, LaneOrder, ScanStripes, ScanLanes
    PROVE  LET ch == scanLanes(sel, OpenLanes, scan) IN
           /\ sel' = ch.sel /\ sel' \in Selector
           /\ Placed(ch.stream)
           /\ scan \in 0 .. QueueSize - 1
           /\ ch.stream # NoStream => OpenLanes[ch.stream].depth = scan
           /\ ch.stream = NoStream => \A i \in OpenStreams : OpenLanes[i].depth # scan
  <1>1. scan \in 0 .. QueueSize - 1 /\ fromBackend < MaxPackets /\ scan # NoScan
    BY DEF TypeOK, ScanLanes, MuFree, ScanStripes
  <1>2. LET ch == scanLanes(sel, OpenLanes, scan) IN
           /\ ch.sel \in Selector
           /\ ch.stream \in OpenStreams \cup {NoStream}
           /\ ch.stream # NoStream => OpenLanes[ch.stream].depth = scan
           /\ ch.stream = NoStream => \A i \in OpenStreams : OpenLanes[i].depth # scan
    <2>1. sel \in Selector /\ OpenStreams \in SUBSET Streams
          /\ OpenLanes \in [OpenStreams -> OpenLane]
      BY LanesTyped DEF TypeOK
    <2> QED
      BY <1>1, <2>1, ScanLanesOK
  <1> QED
    BY <1>1, <1>2 DEF ScanLanes, Placed

-----------------------------------------------------------------------------
(* Steps.                                                                  *)

\* The steps of the handlers and of the writers.
HandlerStep ==
    \/ \E c \in Conns, h \in Hellos : AddLane(c, h)
    \/ \E c \in Conns : StopLane(c) \/ RemoveLane(c)
    \/ CloseCancel \/ CloseClear

WriterStep ==
    \E c \in Conns : WriterTakes(c) \/ WriteSucceeds(c) \/ WriteFails(c) \/ WriterStops(c)

\* The steps of the backend reader.
ReaderStep == (\E gap \in BOOLEAN : EnqueueDownlink(gap)) \/ ScanLanes

\* Every step is one of those or changes nothing.
LEMMA DownlinkSteps ==
    ASSUME [Next]_vars
    PROVE  HandlerStep \/ WriterStep \/ ReaderStep \/ UNCHANGED vars
  BY DEF Next, HandlerStep, WriterStep, ReaderStep, Finished

\* stop() closes an open lane of S and nothing else.
LEMMA StopEffect ==
    ASSUME TypeOK, NEW S
    PROVE  /\ Stopped(S) \in [Conns -> {"none", "open", "stopped", "removed"}]
           /\ \A c \in Conns :
                 /\ Stopped(S)[c] = "open" => lane[c] = "open" /\ c \notin S
                 /\ Stopped(S)[c] = "none" <=> lane[c] = "none"
  BY DEF TypeOK, Stopped

\* The invariant holds initially.
LEMMA DownlinkInitInv == Init => DownlinkInv
  <1> SUFFICES ASSUME Init PROVE DownlinkInv
    OBVIOUS
  <1> USE DEF Init
  <1>1. NewSelector \in Selector
    BY SelectorConstants DEF NewSelector, Selector, Streams
  <1>2. TypeOK
    <2>1. \A c \in Conns : out[c] = <<>> /\ Len(out[c]) <= QueueSize
      BY SelectorConstants
    <2>2. out \in [Conns -> Seq(1 .. MaxPackets)]
      OBVIOUS
    <2>3. inHand \in [Conns -> 0 .. MaxPackets] /\ fromBackend \in 0 .. MaxPackets
          /\ lastWritten \in 0 .. MaxPackets
      BY DownlinkConstants
    <2> QED
      BY <1>1, <2>1, <2>2, <2>3 DEF TypeOK
  <1>3. LaneOrder
    BY DEF LaneOrder
  <1>4. ScanStripes
    BY DEF ScanStripes
  <1>5. \A c \in Conns : Holds(c) = {}
    BY DEF Holds, Queued
  <1>6. Pinned /\ Latest
    BY <1>5 DEF Pinned, Latest
  <1>7. Queues
    BY DEF Queues
  <1> QED
    BY <1>2, <1>3, <1>4, <1>6, <1>7 DEF DownlinkInv

\* Every step keeps the types.
LEMMA TypeStep ==
    ASSUME DownlinkInv, [Next]_vars
    PROVE  TypeOK'
  <1>0. TypeOK /\ LaneOrder /\ ScanStripes
    BY DEF DownlinkInv
  <1> USE DownlinkConstants DEF laneVars, wireVars
  <1>1. ASSUME NEW c \in Conns, NEW h \in Hellos, AddLane(c, h) PROVE TypeOK'
    <2>1. lane' \in [Conns -> {"none", "open", "stopped", "removed"}]
      BY <1>0, <1>1, StopEffect DEF AddLane
    <2> QED
      BY <1>0, <1>1, <2>1 DEF AddLane, TypeOK
  <1>2. ASSUME NEW c \in Conns, StopLane(c) PROVE TypeOK'
    BY <1>0, <1>2, StopEffect DEF StopLane, TypeOK
  <1>3. ASSUME NEW c \in Conns, RemoveLane(c) PROVE TypeOK'
    BY <1>0, <1>3 DEF RemoveLane, TypeOK
  <1>4. CASE CloseCancel
    BY <1>0, <1>4 DEF CloseCancel, TypeOK
  <1>5. CASE CloseClear
    BY <1>0, <1>5, StopEffect DEF CloseClear, TypeOK
  <1>6. ASSUME NEW gap \in BOOLEAN, EnqueueDownlink(gap) PROVE TypeOK'
    <2>1. UNCHANGED <<laneVars, writer, inHand, cancelled, wireVars>>
      BY <1>6 DEF EnqueueDownlink
    <2>2. /\ sel' \in Selector
          /\ \/ scan' \in 0 .. QueueSize - 1 /\ UNCHANGED <<out, fromBackend>>
             \/ Placed(choose(sel, OpenLanes, gap).stream)
      BY <1>0, <1>6, EnqueueEffect
    <2>3. CASE scan' \in 0 .. QueueSize - 1 /\ UNCHANGED <<out, fromBackend>>
      BY <1>0, <2>1, <2>2, <2>3 DEF TypeOK
    <2>4. ASSUME NEW st, Placed(st) PROVE TypeOK'
      BY <1>0, <2>1, <2>2, <2>4, PlaceEffect DEF Placed, TypeOK
    <2> QED
      BY <2>2, <2>3, <2>4
  <1>7. CASE ScanLanes
    <2>1. UNCHANGED <<laneVars, writer, inHand, cancelled, wireVars>>
      BY <1>7 DEF ScanLanes
    <2>2. sel' \in Selector /\ Placed(scanLanes(sel, OpenLanes, scan).stream)
      BY <1>0, <1>7, ScanEffect
    <2>3. ASSUME NEW st, Placed(st) PROVE TypeOK'
      BY <1>0, <2>1, <2>2, <2>3, PlaceEffect DEF Placed, TypeOK
    <2> QED
      BY <2>2, <2>3
  <1>8. ASSUME NEW c \in Conns, WriterTakes(c) PROVE TypeOK'
    <2>1. out[c] \in Seq(1 .. MaxPackets) /\ out[c] # <<>> /\ Len(out[c]) <= QueueSize
      BY <1>0, <1>8 DEF WriterTakes, TypeOK
    <2>2. /\ Tail(out[c]) \in Seq(1 .. MaxPackets) /\ Head(out[c]) \in 1 .. MaxPackets
          /\ Len(Tail(out[c])) <= QueueSize
      <3>1. /\ Tail(out[c]) \in Seq(1 .. MaxPackets) /\ Head(out[c]) \in 1 .. MaxPackets
            /\ Len(out[c]) \in Nat /\ Len(Tail(out[c])) = Len(out[c]) - 1
        BY <2>1, TailFacts
      <3> QED
        BY <2>1, <3>1, SelectorConstants
    <2>3. Head(out[c]) \in 0 .. MaxPackets
      BY <2>2
    <2> QED
      BY <1>0, <1>8, <2>2, <2>3 DEF WriterTakes, TypeOK
  <1>9. ASSUME NEW c \in Conns, WriteSucceeds(c) PROVE TypeOK'
    <2>1. lastWritten' \in 0 .. MaxPackets /\ reordered' \in BOOLEAN
      <3>1. \/ UNCHANGED wireVars
            \/ /\ lastWritten' \in {inHand[c], lastWritten}
               /\ reordered' = (reordered \/ inHand[c] < lastWritten)
        BY <1>9 DEF WriteSucceeds
      <3>2. inHand[c] \in 0 .. MaxPackets /\ lastWritten \in 0 .. MaxPackets
        BY <1>0 DEF TypeOK
      <3> QED
        BY <1>0, <3>1, <3>2 DEF TypeOK
    <2>2. 0 \in 0 .. MaxPackets
      OBVIOUS
    <2> QED
      BY <1>0, <1>9, <2>1, <2>2 DEF WriteSucceeds, TypeOK
  <1>10. ASSUME NEW c \in Conns, WriteFails(c) PROVE TypeOK'
    <2>1. 0 \in 0 .. MaxPackets
      OBVIOUS
    <2> QED
      BY <1>0, <1>10, <2>1, StopEffect DEF WriteFails, TypeOK
  <1>11. ASSUME NEW c \in Conns, WriterStops(c) PROVE TypeOK'
    <2>1. <<>> \in Seq(1 .. MaxPackets) /\ Len(<<>>) <= QueueSize
      BY SelectorConstants
    <2> QED
      BY <1>0, <1>11, <2>1 DEF WriterStops, TypeOK
  <1>12. CASE UNCHANGED vars
    BY <1>0, <1>12 DEF vars, TypeOK
  <1> QED
    BY <1>1, <1>2, <1>3, <1>4, <1>5, <1>6, <1>7, <1>8, <1>9, <1>10, <1>11, <1>12,
       DownlinkSteps DEF HandlerStep, WriterStep, ReaderStep

\* Every step keeps the life of the lanes in order.
LEMMA LaneOrderStep ==
    ASSUME DownlinkInv, [Next]_vars
    PROVE  LaneOrder'
  <1>0. TypeOK /\ LaneOrder /\ ScanStripes
    BY DEF DownlinkInv
  <1> USE DownlinkConstants DEF laneVars, wireVars
  <1>1. ASSUME NEW c \in Conns, NEW h \in Hellos, AddLane(c, h) PROVE LaneOrder'
    <2> DEFINE i == h.streamID
    <2>1. i \in Streams /\ lane[c] = "none" /\ laneOf' = [laneOf EXCEPT ![i] = c]
          /\ hello' = [hello EXCEPT ![c] = h] /\ writer' = [writer EXCEPT ![c] = "select"]
          /\ UNCHANGED <<out, inHand>>
          /\ lane' = [Stopped({laneOf[i]}) EXCEPT ![c] = "open"]
      BY <1>1 DEF AddLane
    <2>2. lane'[c] = "open" /\ laneOf'[i] = c /\ hello'[c] = h /\ writer'[c] = "select"
      BY <1>0, <2>1, StopEffect DEF TypeOK
    <2>3. ASSUME NEW d \in Conns, d # c
          PROVE  /\ hello'[d] = hello[d] /\ writer'[d] = writer[d]
                 /\ lane'[d] = "none" <=> lane[d] = "none"
                 /\ lane'[d] = "open" => lane[d] = "open" /\ d # laneOf[i]
      BY <1>0, <2>1, <2>3, StopEffect DEF TypeOK
    <2>4. \A j \in Streams \ {i} : laneOf'[j] = laneOf[j]
      BY <1>0, <2>1 DEF TypeOK
    <2>5. \A j \in Streams : laneOf[j] # c /\ laneOf[j] \in Conns \cup {None}
      BY <1>0, <2>1 DEF LaneOrder, TypeOK
    <2> HIDE DEF i
    <2>6. ASSUME NEW d \in Conns
          PROVE  /\ lane'[d] = "none" => hello'[d] = None /\ writer'[d] = "none" /\ out'[d] = <<>>
                 /\ lane'[d] # "none" => hello'[d] \in Hellos
                 /\ lane'[d] = "open" => laneOf'[hello'[d].streamID] = d
                 /\ writer'[d] = "writing" => inHand'[d] > 0
      <3>1. CASE d = c
        BY <2>1, <2>2, <3>1 DEF i
      <3>2. CASE d # c
        <4>1. lane'[d] = "open" => laneOf[hello[d].streamID] = d /\ hello[d].streamID \in Streams
          BY <1>0, <2>3, <3>2 DEF LaneOrder
        <4>2. lane'[d] = "open" => hello[d].streamID # i
          BY <2>3, <3>2, <4>1
        <4>3. /\ lane'[d] = "none" => hello'[d] = None /\ writer'[d] = "none" /\ out'[d] = <<>>
              /\ lane'[d] # "none" => hello'[d] \in Hellos
          BY <1>0, <2>1, <2>3, <3>2 DEF LaneOrder
        <4>4. lane'[d] = "open" => laneOf'[hello'[d].streamID] = d
          BY <2>3, <2>4, <3>2, <4>1, <4>2
        <4>5. writer'[d] = "writing" => inHand'[d] > 0
          BY <1>0, <2>1, <2>3, <3>2 DEF LaneOrder
        <4> QED
          BY <4>3, <4>4, <4>5
      <3> QED
        BY <3>1, <3>2
    <2>7. ASSUME NEW j \in Streams, laneOf'[j] # None
          PROVE  lane'[laneOf'[j]] # "none" /\ hello'[laneOf'[j]].streamID = j
      <3>1. CASE j = i
        BY <2>2, <3>1 DEF i
      <3>2. CASE j # i
        BY <1>0, <2>3, <2>4, <2>5, <2>7, <3>2 DEF LaneOrder
      <3> QED
        BY <3>1, <3>2
    <2> QED
      BY <2>6, <2>7 DEF LaneOrder
  <1>2. ASSUME NEW c \in Conns, StopLane(c) PROVE LaneOrder'
    BY <1>0, <1>2, StopEffect DEF StopLane, LaneOrder, TypeOK
  <1>3. ASSUME NEW c \in Conns, RemoveLane(c) PROVE LaneOrder'
    BY <1>0, <1>3 DEF RemoveLane, LaneOrder, TypeOK
  <1>4. CASE CloseCancel
    BY <1>0, <1>4 DEF CloseCancel, LaneOrder
  <1>5. CASE CloseClear
    BY <1>0, <1>5, StopEffect DEF CloseClear, LaneOrder, TypeOK
  <1>6. ASSUME NEW gap \in BOOLEAN, EnqueueDownlink(gap) PROVE LaneOrder'
    <2>1. UNCHANGED <<laneVars, writer, inHand>>
      BY <1>6 DEF EnqueueDownlink
    <2>2. \/ UNCHANGED out
          \/ Placed(choose(sel, OpenLanes, gap).stream)
      BY <1>0, <1>6, EnqueueEffect
    <2>3. ASSUME NEW st, Placed(st) PROVE \A d \in Conns : lane[d] = "none" => out'[d] = out[d]
      BY <1>0, <2>3, PlaceEffect, LanesTyped DEF Placed
    <2> QED
      BY <1>0, <2>1, <2>2, <2>3 DEF LaneOrder
  <1>7. CASE ScanLanes
    <2>1. UNCHANGED <<laneVars, writer, inHand>>
      BY <1>7 DEF ScanLanes
    <2>2. Placed(scanLanes(sel, OpenLanes, scan).stream)
      BY <1>0, <1>7, ScanEffect
    <2>3. ASSUME NEW st, Placed(st) PROVE \A d \in Conns : lane[d] = "none" => out'[d] = out[d]
      BY <1>0, <2>3, PlaceEffect, LanesTyped DEF Placed
    <2> QED
      BY <1>0, <2>1, <2>2, <2>3 DEF LaneOrder
  <1>8. ASSUME NEW c \in Conns, WriterTakes(c) PROVE LaneOrder'
    <2>1. Head(out[c]) \in 1 .. MaxPackets
      BY <1>0, <1>8, TailFacts DEF TypeOK, WriterTakes
    <2>2. lane[c] # "none"
      BY <1>0, <1>8 DEF LaneOrder, WriterTakes
    <2>3. inHand'[c] > 0 /\ \A d \in Conns \ {c} : inHand'[d] = inHand[d]
      BY <1>0, <1>8, <2>1 DEF WriterTakes, TypeOK
    <2>4. UNCHANGED laneVars /\ \A d \in Conns \ {c} : out'[d] = out[d] /\ writer'[d] = writer[d]
      BY <1>0, <1>8 DEF WriterTakes, TypeOK
    <2> QED
      BY <1>0, <2>2, <2>3, <2>4 DEF LaneOrder
  <1>9. ASSUME NEW c \in Conns, WriteSucceeds(c) PROVE LaneOrder'
    BY <1>0, <1>9 DEF WriteSucceeds, LaneOrder, TypeOK
  <1>10. ASSUME NEW c \in Conns, WriteFails(c) PROVE LaneOrder'
    BY <1>0, <1>10, StopEffect DEF WriteFails, LaneOrder, TypeOK
  <1>11. ASSUME NEW c \in Conns, WriterStops(c) PROVE LaneOrder'
    BY <1>0, <1>11 DEF WriterStops, LaneOrder, TypeOK
  <1>12. CASE UNCHANGED vars
    BY <1>0, <1>12 DEF vars, LaneOrder
  <1> QED
    BY <1>1, <1>2, <1>3, <1>4, <1>5, <1>6, <1>7, <1>8, <1>9, <1>10, <1>11, <1>12,
       DownlinkSteps DEF HandlerStep, WriterStep, ReaderStep

\* A session that has a lane with a reorder buffer never becomes a legacy session.
LEMMA LegacyBefore ==
    ASSUME DownlinkInv, [Next]_vars, Legacy'
    PROVE  Legacy
  <1>0. TypeOK /\ LaneOrder
    BY DEF DownlinkInv
  <1>1. ASSUME NEW c \in Conns, NEW h \in Hellos, AddLane(c, h) PROVE Legacy
    <2>1. hello[c] = None /\ hello' = [hello EXCEPT ![c] = h]
      BY <1>0, <1>1 DEF AddLane, LaneOrder
    <2>2. \A d \in Conns \ {c} : hello'[d] = hello[d]
      BY <1>0, <2>1 DEF TypeOK
    <2> QED
      BY <2>1, <2>2 DEF Legacy
  <1>2. CASE UNCHANGED hello
    BY <1>2 DEF Legacy
  <1>3. (\E c \in Conns, h \in Hellos : AddLane(c, h)) \/ UNCHANGED hello
    BY DEF Next, StopLane, RemoveLane, CloseCancel, CloseClear, EnqueueDownlink, ScanLanes,
           WriterTakes, WriteSucceeds, WriteFails, WriterStops, Finished, vars, laneVars
  <1> QED
    BY <1>1, <1>2, <1>3

\* Handlers and writers give no lane a packet: what a lane holds only shrinks, and a lane
\* that holds one was open with the same preface before.
Shrinks ==
    /\ UNCHANGED <<sel, scan, fromBackend>>
    /\ \A d \in Conns :
          /\ Holds(d)' \subseteq Holds(d)
          /\ lane'[d] = "open" /\ Holds(d) # {} => lane[d] = "open" /\ hello'[d] = hello[d]

\* A lane whose writer does not begin to write holds no more than before.
LEMMA SameHolds ==
    ASSUME UNCHANGED <<out, inHand>>, NEW d \in Conns,
           writer'[d] = "writing" => writer[d] = "writing"
    PROVE  Holds(d)' \subseteq Holds(d)
  BY DEF Holds, Queued

\* Steps of handlers and writers only take packets away.
LEMMA ShrinkStep ==
    ASSUME DownlinkInv, HandlerStep \/ WriterStep \/ UNCHANGED vars
    PROVE  Shrinks
  <1>0. TypeOK /\ LaneOrder
    BY DEF DownlinkInv
  <1> USE DEF laneVars
  <1>1. ASSUME NEW c \in Conns, NEW h \in Hellos, AddLane(c, h) PROVE Shrinks
    <2>1. /\ writer' = [writer EXCEPT ![c] = "select"] /\ hello' = [hello EXCEPT ![c] = h]
          /\ lane' = [Stopped({laneOf[h.streamID]}) EXCEPT ![c] = "open"]
          /\ UNCHANGED <<out, inHand, sel, scan, fromBackend>> /\ lane[c] = "none"
      BY <1>1 DEF AddLane
    <2>2. ASSUME NEW d \in Conns PROVE writer'[d] = "writing" => writer[d] = "writing"
      BY <1>0, <2>1 DEF TypeOK
    <2>3. Holds(c) = {}
      BY <1>0, <2>1 DEF LaneOrder, Holds, Queued
    <2>4. ASSUME NEW d \in Conns, d # c, lane'[d] = "open"
          PROVE  lane[d] = "open" /\ hello'[d] = hello[d]
      BY <1>0, <2>1, <2>4, StopEffect DEF TypeOK
    <2> QED
      BY <2>1, <2>2, <2>3, <2>4, SameHolds DEF Shrinks
  <1>2. ASSUME NEW c \in Conns, StopLane(c) PROVE Shrinks
    BY <1>0, <1>2, SameHolds, StopEffect DEF StopLane, Shrinks
  <1>3. ASSUME NEW c \in Conns, RemoveLane(c) PROVE Shrinks
    BY <1>0, <1>3, SameHolds DEF RemoveLane, Shrinks, TypeOK
  <1>4. CASE CloseCancel
    BY <1>0, <1>4, SameHolds DEF CloseCancel, Shrinks
  <1>5. CASE CloseClear
    BY <1>0, <1>5, SameHolds, StopEffect DEF CloseClear, Shrinks
  <1>6. ASSUME NEW c \in Conns, WriterTakes(c) PROVE Shrinks
    <2>1. /\ inHand' = [inHand EXCEPT ![c] = Head(out[c])] /\ out[c] # <<>>
          /\ out' = [out EXCEPT ![c] = Tail(out[c])]
          /\ writer' = [writer EXCEPT ![c] = "writing"]
          /\ UNCHANGED <<laneVars, sel, scan, fromBackend>>
      BY <1>6 DEF WriterTakes
    <2>2. /\ inHand'[c] = out[c][1] /\ 1 \in 1 .. Len(out[c]) /\ out'[c] = Tail(out[c])
          /\ \A k \in 1 .. Len(out'[c]) : k + 1 \in 1 .. Len(out[c]) /\ out'[c][k] = out[c][k + 1]
      <3>1. out[c] \in Seq(1 .. MaxPackets)
        BY <1>0 DEF TypeOK
      <3>2. inHand'[c] = Head(out[c]) /\ out'[c] = Tail(out[c])
        BY <1>0, <2>1 DEF TypeOK
      <3>3. /\ Len(out[c]) \in Nat \ {0} /\ Head(out[c]) = out[c][1]
            /\ \A k \in 1 .. Len(Tail(out[c])) :
                  k + 1 \in 1 .. Len(out[c]) /\ Tail(out[c])[k] = out[c][k + 1]
        BY <2>1, <3>1, TailFacts
      <3> QED
        BY <3>2, <3>3
    <2>3. Holds(c)' \subseteq Holds(c)
      BY <2>2 DEF Holds, Queued
    <2>4. ASSUME NEW d \in Conns, d # c PROVE Holds(d)' \subseteq Holds(d)
      BY <1>0, <2>1, <2>4 DEF Holds, Queued, TypeOK
    <2> QED
      BY <2>1, <2>3, <2>4 DEF Shrinks
  <1>7. ASSUME NEW c \in Conns, WriteSucceeds(c) PROVE Shrinks
    <2>1. ASSUME NEW d \in Conns PROVE Holds(d)' \subseteq Holds(d)
      BY <1>0, <1>7 DEF WriteSucceeds, Holds, Queued, TypeOK
    <2> QED
      BY <1>7, <2>1 DEF WriteSucceeds, Shrinks
  <1>8. ASSUME NEW c \in Conns, WriteFails(c) PROVE Shrinks
    <2>1. ASSUME NEW d \in Conns PROVE Holds(d)' \subseteq Holds(d)
      BY <1>0, <1>8 DEF WriteFails, Holds, Queued, TypeOK
    <2> QED
      BY <1>0, <1>8, <2>1, StopEffect DEF WriteFails, Shrinks
  <1>9. ASSUME NEW c \in Conns, WriterStops(c) PROVE Shrinks
    <2>1. /\ out' = [out EXCEPT ![c] = <<>>] /\ writer' = [writer EXCEPT ![c] = "done"]
          /\ UNCHANGED <<laneVars, inHand, sel, scan, fromBackend>>
      BY <1>9 DEF WriterStops
    <2>2. ASSUME NEW d \in Conns PROVE Holds(d)' \subseteq Holds(d)
      BY <1>0, <2>1 DEF Holds, Queued, TypeOK
    <2> QED
      BY <2>1, <2>2 DEF Shrinks
  <1>10. CASE UNCHANGED vars
    BY <1>10, SameHolds DEF vars, Shrinks
  <1> QED
    BY <1>1, <1>2, <1>3, <1>4, <1>5, <1>6, <1>7, <1>8, <1>9, <1>10
       DEF HandlerStep, WriterStep

\* A packet that is placed is the latest of its lane, and no other lane gets it.
LEMMA PlacedHolds ==
    ASSUME TypeOK, LaneOrder, NEW st, Placed(st), UNCHANGED <<writer, inHand>>, NEW d \in Conns
    PROVE  \/ Holds(d)' = Holds(d)
           \/ /\ st \in OpenStreams /\ d = laneOf[st]
              /\ Holds(d)' \subseteq Holds(d) \cup {fromBackend + 1}
  <1>1. \/ out'[d] = out[d]
        \/ /\ st \in OpenStreams /\ d = laneOf[st]
           /\ out'[d] = Append(out[d], fromBackend + 1)
    BY PlaceEffect DEF Placed
  <1>2. CASE out'[d] = out[d]
    BY <1>2 DEF Holds, Queued
  <1>3. CASE st \in OpenStreams /\ d = laneOf[st] /\ out'[d] = Append(out[d], fromBackend + 1)
    <2>1. out[d] \in Seq(1 .. MaxPackets) /\ fromBackend + 1 \in 1 .. MaxPackets
      BY DownlinkConstants DEF TypeOK, Placed
    <2>2. /\ Len(out[d]) \in Nat /\ Len(out'[d]) = Len(out[d]) + 1
          /\ \A k \in 1 .. Len(out[d]) : out'[d][k] = out[d][k]
          /\ out'[d][Len(out[d]) + 1] = fromBackend + 1
      BY <1>3, <2>1, AppendFacts
    <2>3. \A k \in 1 .. Len(out'[d]) :
             \/ k \in 1 .. Len(out[d]) /\ out'[d][k] = out[d][k]
             \/ out'[d][k] = fromBackend + 1
      BY <2>2
    <2>4. Queued(d)' \subseteq Queued(d) \cup {fromBackend + 1}
      BY <2>3 DEF Queued
    <2> QED
      BY <1>3, <2>4 DEF Holds
  <1> QED
    BY <1>1, <1>2, <1>3

\* A step of the reader in a legacy session: the packet goes to the lane the selector is
\* pinned to afterwards, and a lane that holds packets stays the pinned one.
LEMMA LegacyReader ==
    ASSUME DownlinkInv, ReaderStep, Legacy'
    PROVE  /\ UNCHANGED <<laneVars, writer, inHand, wireVars>>
           /\ Legacy
           /\ \E st \in OpenStreams \cup {NoStream} :
                 /\ Placed(st)
                 /\ st \in OpenStreams => sel'.hasCurrent /\ sel'.current = st
                 /\ \A i \in OpenStreams : sel.hasCurrent /\ sel.current = i =>
                       sel' = sel /\ st \in {i, NoStream}
  <1>0. TypeOK /\ LaneOrder /\ ScanStripes
    BY DEF DownlinkInv
  <1>1. UNCHANGED <<laneVars, writer, inHand, wireVars>>
    BY DEF ReaderStep, EnqueueDownlink, ScanLanes
  <1>2. Legacy
    BY <1>1 DEF Legacy, laneVars
  <1>3. PICK gap \in BOOLEAN : EnqueueDownlink(gap)
    BY <1>0, <1>2 DEF ReaderStep, ScanLanes, ScanStripes, MuFree
  <1>4. SUFFICES ASSUME NEW ch, ch = choose(sel, OpenLanes, gap)
        PROVE  /\ Placed(ch.stream)
               /\ ch.stream \in OpenStreams => sel'.hasCurrent /\ sel'.current = ch.stream
               /\ \A i \in OpenStreams : sel.hasCurrent /\ sel.current = i =>
                     sel' = sel /\ ch.stream \in {i, NoStream}
    BY <1>1, <1>2 DEF Placed
  <1>5. /\ ChoiceOK(sel, OpenStreams, OpenLanes, ch)
        /\ sel' = ch.sel
        /\ \/ OpenStreams # {} /\ canStripe(OpenLanes)
           \/ Placed(ch.stream)
    BY <1>0, <1>3, <1>4, EnqueueEffect
  <1>6. CASE OpenStreams = {}
    BY <1>5, <1>6
  <1>7. CASE OpenStreams # {}
    <2>1. ~canStripe(OpenLanes)
      BY <1>0, <1>2, <1>7, LegacyLanes
    <2>2. \/ /\ sel.hasCurrent /\ sel.current \in OpenStreams
             /\ ch.sel = sel /\ ch.stream \in {sel.current, NoStream}
          \/ /\ ~(sel.hasCurrent /\ sel.current \in OpenStreams)
             /\ ch.stream # NoStream => ch.sel.hasCurrent /\ ch.sel.current = ch.stream
      BY <1>5, <2>1 DEF ChoiceOK
    <2>3. \A i \in OpenStreams : i # NoStream
      BY <1>0, LanesTyped, NoStreamOut
    <2> QED
      BY <1>5, <2>1, <2>2, <2>3
  <1> QED
    BY <1>6, <1>7

\* Every step keeps ScanStripes.
LEMMA ScanStripesStep ==
    ASSUME DownlinkInv, [Next]_vars
    PROVE  ScanStripes'
  <1>0. TypeOK /\ LaneOrder /\ ScanStripes
    BY DEF DownlinkInv
  <1>1. CASE HandlerStep \/ WriterStep \/ UNCHANGED vars
    <2>1. UNCHANGED <<scan, fromBackend>>
      BY <1>1, ShrinkStep DEF Shrinks
    <2> QED
      BY <1>0, <2>1, LegacyBefore DEF ScanStripes
  <1>2. CASE ReaderStep
    <2>1. ASSUME NEW gap \in BOOLEAN, EnqueueDownlink(gap), scan' # NoScan
          PROVE  ~Legacy' /\ fromBackend' < MaxPackets
      <3>1. /\ OpenStreams # {} /\ canStripe(OpenLanes)
            /\ UNCHANGED fromBackend /\ fromBackend < MaxPackets
        BY <1>0, <2>1, EnqueueEffect DEF Placed
      <3> QED
        BY <1>0, <3>1, LegacyLanes, LegacyBefore
    <2>2. ASSUME ScanLanes PROVE scan' = NoScan
      BY <2>2 DEF ScanLanes
    <2> QED
      BY <1>2, <2>1, <2>2 DEF ReaderStep, ScanStripes
  <1> QED
    BY <1>1, <1>2, DownlinkSteps

\* Every step keeps the open lane that holds packets the pinned one.
LEMMA PinnedStep ==
    ASSUME DownlinkInv, [Next]_vars
    PROVE  Pinned'
  <1>0. TypeOK /\ LaneOrder /\ Pinned
    BY DEF DownlinkInv
  <1> SUFFICES ASSUME Legacy', NEW c \in Conns, lane'[c] = "open", Holds(c)' # {}
               PROVE  sel'.hasCurrent /\ sel'.current = hello'[c].streamID
    BY DEF Pinned
  <1>1. Legacy
    BY LegacyBefore
  <1>2. CASE HandlerStep \/ WriterStep \/ UNCHANGED vars
    <2>1. Shrinks
      BY <1>2, ShrinkStep
    <2>2. Holds(c) # {} /\ lane[c] = "open" /\ hello'[c] = hello[c] /\ sel' = sel
      BY <2>1 DEF Shrinks
    <2> QED
      BY <1>0, <1>1, <2>2 DEF Pinned
  <1>3. CASE ReaderStep
    <2>1. PICK st \in OpenStreams \cup {NoStream} :
                 /\ Placed(st)
                 /\ st \in OpenStreams => sel'.hasCurrent /\ sel'.current = st
                 /\ \A i \in OpenStreams : sel.hasCurrent /\ sel.current = i =>
                       sel' = sel /\ st \in {i, NoStream}
      BY <1>3, LegacyReader
    <2>2. UNCHANGED <<laneVars, writer, inHand>>
      BY <1>3, LegacyReader
    <2>3. lane[c] = "open" /\ hello'[c] = hello[c] /\ hello[c] \in Hellos
      BY <1>0, <2>2 DEF laneVars, LaneOrder
    <2>4. CASE Holds(c)' = Holds(c)
      <3>1. sel.hasCurrent /\ sel.current = hello[c].streamID
        BY <1>0, <1>1, <2>3, <2>4 DEF Pinned
      <3>2. hello[c].streamID \in OpenStreams
        BY <1>0, <2>3, DownlinkConstants DEF LaneOrder, OpenStreams
      <3> QED
        BY <2>1, <2>3, <3>1, <3>2
    <2>5. CASE st \in OpenStreams /\ c = laneOf[st]
      BY <1>0, <2>1, <2>3, <2>5, LanesTyped
    <2> QED
      BY <1>0, <2>1, <2>2, <2>4, <2>5, PlacedHolds
  <1> QED
    BY <1>2, <1>3, DownlinkSteps

\* Every step keeps the queues in the order of the backend.
LEMMA QueuesStep ==
    ASSUME DownlinkInv, [Next]_vars
    PROVE  Queues'
  <1>0. TypeOK /\ LaneOrder /\ ScanStripes /\ Queues
    BY DEF DownlinkInv
  <1> USE DEF laneVars, wireVars
  <1>1. ASSUME UNCHANGED <<out, inHand, fromBackend, lastWritten>>,
               \A d \in Conns : writer'[d] = "writing" => writer[d] = "writing"
        PROVE  Queues'
    BY <1>0, <1>1 DEF Queues
  <1>2. CASE HandlerStep
    <2>1. UNCHANGED <<out, inHand, fromBackend, lastWritten>>
      BY <1>2 DEF HandlerStep, AddLane, StopLane, RemoveLane, CloseCancel, CloseClear
    <2>2. \A d \in Conns : writer'[d] = "writing" => writer[d] = "writing"
      BY <1>0, <1>2
         DEF TypeOK, HandlerStep, AddLane, StopLane, RemoveLane, CloseCancel, CloseClear
    <2> QED
      BY <1>1, <2>1, <2>2
  <1>3. CASE UNCHANGED vars
    BY <1>1, <1>3 DEF vars
  <1>4. ASSUME NEW st, Placed(st), UNCHANGED <<writer, inHand, lastWritten>> PROVE Queues'
    <2>1. fromBackend' = fromBackend + 1 /\ fromBackend \in 0 .. MaxPackets
          /\ fromBackend + 1 \in 1 .. MaxPackets
      BY <1>0, <1>4, PlaceEffect, DownlinkConstants DEF Placed, TypeOK
    <2>2. ASSUME NEW d \in Conns
          PROVE  /\ \A k, m \in 1 .. Len(out'[d]) : k < m => out'[d][k] < out'[d][m]
                 /\ \A k \in 1 .. Len(out'[d]) :
                       /\ out'[d][k] <= fromBackend + 1
                       /\ writer[d] = "writing" => inHand[d] < out'[d][k]
      <3>1. /\ out[d] \in Seq(1 .. MaxPackets) /\ inHand[d] \in 0 .. MaxPackets
            /\ inHand[d] <= fromBackend
        BY <1>0 DEF TypeOK, Queues
      <3>2. /\ \A k, m \in 1 .. Len(out[d]) : k < m => out[d][k] < out[d][m]
            /\ \A k \in 1 .. Len(out[d]) :
                  /\ out[d][k] \in 1 .. MaxPackets /\ out[d][k] <= fromBackend
                  /\ writer[d] = "writing" => inHand[d] < out[d][k]
        <4>1. \A k \in 1 .. Len(out[d]) : out[d][k] \in 1 .. MaxPackets
          BY <3>1, ElementsOf
        <4> QED
          BY <1>0, <4>1 DEF Queues
      <3>3. CASE out'[d] = out[d]
        BY <2>1, <3>2, <3>3
      <3>4. CASE out'[d] = Append(out[d], fromBackend + 1)
        <4>1. /\ Len(out[d]) \in Nat /\ Len(out'[d]) = Len(out[d]) + 1
              /\ \A k \in 1 .. Len(out[d]) : out'[d][k] = out[d][k]
              /\ out'[d][Len(out[d]) + 1] = fromBackend + 1
          BY <2>1, <3>1, <3>4, AppendFacts
        <4>2. ASSUME NEW k \in 1 .. Len(out'[d])
              PROVE  \/ k \in 1 .. Len(out[d]) /\ out'[d][k] = out[d][k]
                     \/ k = Len(out[d]) + 1 /\ out'[d][k] = fromBackend + 1
          BY <4>1
        <4>3. ASSUME NEW k \in 1 .. Len(out'[d]), NEW m \in 1 .. Len(out'[d]), k < m
              PROVE  out'[d][k] < out'[d][m]
          <5>1. k \in 1 .. Len(out[d]) /\ out'[d][k] = out[d][k]
            BY <4>1, <4>2, <4>3
          <5>2. CASE m \in 1 .. Len(out[d]) /\ out'[d][m] = out[d][m]
            BY <3>2, <4>3, <5>1, <5>2
          <5>3. CASE out'[d][m] = fromBackend + 1
            BY <2>1, <3>2, <5>1, <5>3
          <5> QED
            BY <4>2, <5>2, <5>3
        <4>4. ASSUME NEW k \in 1 .. Len(out'[d])
              PROVE  /\ out'[d][k] <= fromBackend + 1
                     /\ writer[d] = "writing" => inHand[d] < out'[d][k]
          <5>1. CASE k \in 1 .. Len(out[d]) /\ out'[d][k] = out[d][k]
            BY <2>1, <3>2, <5>1
          <5>2. CASE out'[d][k] = fromBackend + 1
            BY <2>1, <3>1, <5>2
          <5> QED
            BY <4>2, <5>1, <5>2
        <4> QED
          BY <4>3, <4>4
      <3> QED
        BY <1>0, <1>4, <3>3, <3>4, PlaceEffect DEF Placed
    <2>3. \A d \in Conns : inHand[d] <= fromBackend + 1
      BY <1>0, <2>1 DEF Queues, TypeOK
    <2>4. lastWritten <= fromBackend + 1
      BY <1>0, <2>1 DEF Queues, TypeOK
    <2> QED
      BY <1>4, <2>1, <2>2, <2>3, <2>4 DEF Queues
  <1>5. CASE ReaderStep
    <2>1. UNCHANGED <<writer, inHand, lastWritten>>
      BY <1>5 DEF ReaderStep, EnqueueDownlink, ScanLanes
    <2>2. ASSUME NEW gap \in BOOLEAN, EnqueueDownlink(gap) PROVE Queues'
      BY <1>0, <1>1, <1>4, <2>1, <2>2, EnqueueEffect
    <2>3. ASSUME ScanLanes PROVE Queues'
      BY <1>0, <1>4, <2>1, <2>3, ScanEffect
    <2> QED
      BY <1>5, <2>2, <2>3 DEF ReaderStep
  <1>6. ASSUME NEW c \in Conns, WriterTakes(c) PROVE Queues'
    <2>1. /\ inHand' = [inHand EXCEPT ![c] = Head(out[c])] /\ out[c] # <<>>
          /\ out' = [out EXCEPT ![c] = Tail(out[c])]
          /\ writer' = [writer EXCEPT ![c] = "writing"]
          /\ UNCHANGED <<fromBackend, lastWritten>>
      BY <1>6 DEF WriterTakes
    <2>2. out[c] \in Seq(1 .. MaxPackets)
      BY <1>0 DEF TypeOK
    <2>3. /\ inHand'[c] = out[c][1] /\ Len(out[c]) \in Nat \ {0}
          /\ Len(out'[c]) = Len(out[c]) - 1
          /\ \A k \in 1 .. Len(out'[c]) : k + 1 \in 1 .. Len(out[c]) /\ out'[c][k] = out[c][k + 1]
      <3>1. inHand'[c] = Head(out[c]) /\ out'[c] = Tail(out[c])
        BY <1>0, <2>1 DEF TypeOK
      <3>2. /\ Len(out[c]) \in Nat \ {0} /\ Head(out[c]) = out[c][1]
            /\ Len(Tail(out[c])) = Len(out[c]) - 1
            /\ \A k \in 1 .. Len(Tail(out[c])) :
                  k + 1 \in 1 .. Len(out[c]) /\ Tail(out[c])[k] = out[c][k + 1]
        BY <2>1, <2>2, TailFacts
      <3> QED
        BY <3>1, <3>2
    <2>4. /\ \A k, m \in 1 .. Len(out[c]) : k < m => out[c][k] < out[c][m]
          /\ \A k \in 1 .. Len(out[c]) : out[c][k] <= fromBackend
      BY <1>0 DEF Queues
    <2>5. /\ \A k, m \in 1 .. Len(out'[c]) : k < m => out'[c][k] < out'[c][m]
          /\ \A k \in 1 .. Len(out'[c]) : out'[c][k] <= fromBackend /\ inHand'[c] < out'[c][k]
          /\ inHand'[c] <= fromBackend
      BY <2>3, <2>4
    <2>6. \A d \in Conns \ {c} :
             inHand'[d] = inHand[d] /\ out'[d] = out[d] /\ writer'[d] = writer[d]
      BY <1>0, <2>1 DEF TypeOK
    <2> QED
      BY <1>0, <2>1, <2>5, <2>6 DEF Queues
  <1>7. ASSUME NEW c \in Conns, WriteSucceeds(c) PROVE Queues'
    <2>1. /\ inHand' = [inHand EXCEPT ![c] = 0] /\ writer' = [writer EXCEPT ![c] = "select"]
          /\ UNCHANGED <<out, fromBackend>> /\ lastWritten' \in {inHand[c], lastWritten}
      BY <1>7 DEF WriteSucceeds
    <2>2. lastWritten' <= fromBackend
      BY <1>0, <2>1 DEF Queues
    <2>3. \A d \in Conns : inHand'[d] <= fromBackend
      BY <1>0, <2>1 DEF Queues, TypeOK
    <2>4. \A d \in Conns : writer'[d] = "writing" => writer[d] = "writing" /\ inHand'[d] = inHand[d]
      BY <1>0, <2>1 DEF TypeOK
    <2> QED
      BY <1>0, <2>1, <2>2, <2>3, <2>4 DEF Queues
  <1>8. ASSUME NEW c \in Conns, WriteFails(c) PROVE Queues'
    <2>1. /\ inHand' = [inHand EXCEPT ![c] = 0] /\ writer' = [writer EXCEPT ![c] = "done"]
          /\ UNCHANGED <<out, fromBackend, lastWritten>>
      BY <1>8 DEF WriteFails
    <2>2. \A d \in Conns : inHand'[d] <= fromBackend
      BY <1>0, <2>1 DEF Queues, TypeOK
    <2>3. \A d \in Conns : writer'[d] = "writing" => writer[d] = "writing" /\ inHand'[d] = inHand[d]
      BY <1>0, <2>1 DEF TypeOK
    <2> QED
      BY <1>0, <2>1, <2>2, <2>3 DEF Queues
  <1>9. ASSUME NEW c \in Conns, WriterStops(c) PROVE Queues'
    <2>1. /\ out' = [out EXCEPT ![c] = <<>>] /\ writer' = [writer EXCEPT ![c] = "done"]
          /\ UNCHANGED <<inHand, fromBackend, lastWritten>>
      BY <1>9 DEF WriterStops
    <2>2. out'[c] = <<>> /\ \A d \in Conns \ {c} : out'[d] = out[d] /\ writer'[d] = writer[d]
      BY <1>0, <2>1 DEF TypeOK
    <2> QED
      BY <1>0, <2>1, <2>2 DEF Queues
  <1> QED
    BY <1>2, <1>3, <1>5, <1>6, <1>7, <1>8, <1>9, DownlinkSteps DEF WriterStep

\* Packets are numbers up to the last one of the backend.
LEMMA HeldNumbers ==
    ASSUME TypeOK, Queues
    PROVE  /\ lastWritten \in Nat /\ fromBackend \in Nat /\ lastWritten <= fromBackend
           /\ \A d \in Conns : \A p \in Holds(d) : p \in Nat /\ p <= fromBackend
  <1>1. lastWritten \in Nat /\ fromBackend \in Nat /\ lastWritten <= fromBackend
    BY DEF TypeOK, Queues
  <1>2. ASSUME NEW d \in Conns, NEW p \in Queued(d) PROVE p \in Nat /\ p <= fromBackend
    <2>1. PICK k \in 1 .. Len(out[d]) : p = out[d][k]
      BY <1>2 DEF Queued
    <2>2. out[d] \in Seq(1 .. MaxPackets)
      BY DEF TypeOK
    <2>3. out[d][k] \in 1 .. MaxPackets
      BY <2>1, <2>2, ElementsOf
    <2>4. out[d][k] <= fromBackend
      BY <2>1 DEF Queues
    <2> QED
      BY <2>1, <2>3, <2>4
  <1>3. ASSUME NEW d \in Conns PROVE inHand[d] \in Nat /\ inHand[d] <= fromBackend
    BY DEF TypeOK, Queues
  <1> QED
    BY <1>1, <1>2, <1>3 DEF Holds

\* Every step keeps what an open lane holds the latest.
LEMMA LatestStep ==
    ASSUME DownlinkInv, [Next]_vars
    PROVE  Latest'
  <1>0. TypeOK /\ LaneOrder /\ Pinned /\ Queues /\ Latest
    BY DEF DownlinkInv
  <1> SUFFICES ASSUME Legacy', NEW c \in Conns, lane'[c] = "open", NEW p \in Holds(c)'
               PROVE  /\ lastWritten' < p
                      /\ \A d \in Conns \ {c} : \A q \in Holds(d)' : q < p
    BY DEF Latest
  <1>1. Legacy
    BY LegacyBefore
  <1>2. CASE HandlerStep \/ WriterStep \/ UNCHANGED vars
    <2>1. Shrinks
      BY <1>2, ShrinkStep
    <2>2. p \in Holds(c) /\ lane[c] = "open"
      BY <2>1 DEF Shrinks
    <2>3. \A d \in Conns \ {c} : \A q \in Holds(d)' : q < p
      BY <1>0, <1>1, <2>1, <2>2 DEF Shrinks, Latest
    <2>4. lastWritten < p
      BY <1>0, <1>1, <2>2 DEF Latest
    <2>5. ASSUME NEW d \in Conns, WriteSucceeds(d) PROVE lastWritten' < p
      <3>1. /\ lastWritten' \in {inHand[d], lastWritten} /\ writer[d] = "writing"
            /\ writer' = [writer EXCEPT ![d] = "select"] /\ out' = out
        BY <2>5 DEF WriteSucceeds, wireVars
      <3>2. inHand[d] < p
        <4>1. CASE d # c
          <5>1. inHand[d] \in Holds(d)
            BY <3>1 DEF Holds
          <5> QED
            BY <1>0, <1>1, <2>2, <4>1, <5>1 DEF Latest
        <4>2. CASE d = c
          <5>1. writer'[c] = "select"
            BY <1>0, <3>1, <4>2 DEF TypeOK
          <5>2. p \in Queued(c)
            BY <3>1, <5>1 DEF Holds, Queued
          <5> QED
            BY <1>0, <3>1, <4>2, <5>2 DEF Queued, Queues
        <4> QED
          BY <4>1, <4>2
      <3> QED
        BY <2>4, <3>1, <3>2
    <2>6. (\E d \in Conns : WriteSucceeds(d)) \/ UNCHANGED lastWritten
      BY <1>2 DEF HandlerStep, AddLane, StopLane, RemoveLane, CloseCancel, CloseClear, WriterStep,
                  WriterTakes, WriteFails, WriterStops, vars, wireVars
    <2> QED
      BY <2>3, <2>4, <2>5, <2>6
  <1>3. CASE ReaderStep
    <2>1. PICK st \in OpenStreams \cup {NoStream} :
                 /\ Placed(st)
                 /\ \A i \in OpenStreams : sel.hasCurrent /\ sel.current = i =>
                       sel' = sel /\ st \in {i, NoStream}
      BY <1>3, LegacyReader
    <2>2. UNCHANGED <<laneVars, writer, inHand, wireVars>>
      BY <1>3, LegacyReader
    <2>3. lane[c] = "open" /\ hello[c] \in Hellos /\ laneOf[hello[c].streamID] = c
          /\ hello[c].streamID \in Streams /\ lastWritten' = lastWritten
      BY <1>0, <2>2, DownlinkConstants DEF laneVars, wireVars, LaneOrder
    <2>4. /\ lastWritten \in Nat /\ fromBackend \in Nat /\ lastWritten <= fromBackend
          /\ \A d \in Conns : \A q \in Holds(d) : q \in Nat /\ q <= fromBackend
      BY <1>0, HeldNumbers
    <2>5. ASSUME NEW d \in Conns
          PROVE  \/ Holds(d)' = Holds(d)
                 \/ /\ st \in OpenStreams /\ d = laneOf[st]
                    /\ Holds(d)' \subseteq Holds(d) \cup {fromBackend + 1}
      BY <1>0, <2>1, <2>2, PlacedHolds
    <2>6. CASE p \in Holds(c)
      <3>1. sel.hasCurrent /\ sel.current = hello[c].streamID
        BY <1>0, <1>1, <2>3, <2>6 DEF Pinned
      <3>2. hello[c].streamID \in OpenStreams
        BY <2>3, DownlinkConstants DEF OpenStreams
      <3>3. st \in {hello[c].streamID, NoStream}
        BY <2>1, <3>1, <3>2
      <3>4. ASSUME NEW d \in Conns \ {c} PROVE Holds(d)' = Holds(d)
        <4>1. st \in OpenStreams => laneOf[st] = c
          BY <1>0, <2>3, <3>3, LanesTyped, NoStreamOut
        <4> QED
          BY <2>5, <3>4, <4>1
      <3> QED
        BY <1>0, <1>1, <2>3, <2>6, <3>4 DEF Latest
    <2>7. CASE p \notin Holds(c)
      <3>1. p = fromBackend + 1 /\ st \in OpenStreams /\ c = laneOf[st]
        BY <2>5, <2>7
      <3>2. ASSUME NEW d \in Conns \ {c} PROVE Holds(d)' = Holds(d)
        BY <2>5, <3>1, <3>2
      <3>3. lastWritten < p
        BY <2>4, <3>1
      <3>4. ASSUME NEW d \in Conns \ {c}, NEW q \in Holds(d) PROVE q < p
        BY <2>4, <3>1
      <3> QED
        BY <2>3, <3>2, <3>3, <3>4
    <2> QED
      BY <2>6, <2>7
  <1> QED
    BY <1>2, <1>3, DownlinkSteps

\* The inductive invariant holds in every reachable state.
LEMMA DownlinkInvariant == Spec => []DownlinkInv
  <1>1. DownlinkInv /\ [Next]_vars => DownlinkInv'
    BY TypeStep, LaneOrderStep, ScanStripesStep, PinnedStep, QueuesStep, LatestStep
       DEF DownlinkInv
  <1> QED
    BY DownlinkInitInv, <1>1, PTL DEF Spec

-----------------------------------------------------------------------------
(* The theorems.                                                           *)

\* No queue of a lane exceeds its capacity and the selector's indices and stripe stay
\* within their ranges, whatever lanes come and go (session_udp.go:187-193, 316, 380).
THEOREM DownlinkTyped == Spec => []TypeOK
  <1>1. DownlinkInv => TypeOK
    BY DEF DownlinkInv
  <1> QED
    BY DownlinkInvariant, <1>1, PTL

\* In a session without reorder buffers at most one open lane has packets waiting
\* (session_udp.go:210-240).
THEOREM LegacyBacklog == Spec => []LegacyBacklogOnOneLane
  <1>1. DownlinkInv => LegacyBacklogOnOneLane
    <2> SUFFICES ASSUME DownlinkInv, Legacy, NEW i \in OpenStreams, NEW j \in OpenStreams,
                        out[laneOf[i]] # <<>>, out[laneOf[j]] # <<>>
                 PROVE  i = j
      BY DEF LegacyBacklogOnOneLane
    <2>0. TypeOK /\ LaneOrder /\ Pinned
      BY DEF DownlinkInv
    <2>1. ASSUME NEW c \in Conns, out[c] # <<>> PROVE Holds(c) # {}
      <3>1. out[c] \in Seq(1 .. MaxPackets)
        BY <2>0 DEF TypeOK
      <3>2. Len(out[c]) \in Nat \ {0}
        BY <2>1, <3>1, TailFacts
      <3>3. out[c][1] \in Queued(c)
        BY <3>2 DEF Queued
      <3> QED
        BY <3>3 DEF Holds
    <2>2. ASSUME NEW k \in OpenStreams, out[laneOf[k]] # <<>> PROVE sel.current = k
      BY <2>0, <2>1, <2>2, LanesTyped DEF Pinned
    <2> QED
      BY <2>2
  <1> QED
    BY DownlinkInvariant, <1>1, PTL

\* In such a session a packet written by a lane that is still open is later than every
\* packet written before (session_udp.go:210-213, 425-441).
THEOREM LegacyOrder == Spec => LegacyInOrderWhileOpen
  <1>1. DownlinkInv /\ [Next]_vars =>
          [\A c \in Conns :
              Legacy /\ WroteOn(c) /\ lane[c] = "open" => inHand[c] > lastWritten]_vars
    <2> SUFFICES ASSUME DownlinkInv, NEW c \in Conns, Legacy, writer[c] = "writing",
                        lane[c] = "open"
                 PROVE  inHand[c] > lastWritten
      BY DEF WroteOn
    <2>1. inHand[c] \in Holds(c)
      BY DEF Holds
    <2>2. lastWritten < inHand[c]
      BY <2>1 DEF DownlinkInv, Latest
    <2> QED
      BY <2>2 DEF DownlinkInv, TypeOK
  <1> QED
    BY DownlinkInvariant, <1>1, PTL DEF Spec, LegacyInOrderWhileOpen

\* A packet is dropped only for want of room, behind a full pinned lane, or because the
\* lanes choose had found were gone in its second loop; a striped packet goes to a lane of
\* least depth or continues a stripe (session_udp.go:195-278, 378-398).
THEOREM DownlinkPlaced == Spec => DownlinkPlacement
  <1>1. ASSUME DownlinkInv, [Next]_vars, fromBackend' # fromBackend PROVE Placement
    <2>0. TypeOK /\ LaneOrder /\ ScanStripes
      BY <1>1 DEF DownlinkInv
    <2>1. ReaderStep
      BY <1>1, DownlinkSteps, ShrinkStep DEF Shrinks
    <2> DEFINE L == OpenLanes
               taken == {i \in DOMAIN L : out'[laneOf[i]] # out[laneOf[i]]}
               shortest == {i \in DOMAIN L : scan # NoScan /\ L[i].depth = scan}
    <2>2. DOMAIN L = OpenStreams
      BY <2>0, LanesTyped
    <2>3. ASSUME NEW st, Placed(st), st \in OpenStreams, L[st].depth < QueueSize PROVE st \in taken
      <3>1. /\ laneOf[st] \in Conns /\ L[st].depth = Len(out[laneOf[st]])
            /\ out[laneOf[st]] \in Seq(1 .. MaxPackets)
        BY <2>0, <2>3, LanesTyped DEF TypeOK
      <3>2. out'[laneOf[st]] = Append(out[laneOf[st]], fromBackend + 1)
        BY <2>0, <2>3, <3>1, PlaceEffect DEF Placed
      <3>3. fromBackend + 1 \in 1 .. MaxPackets
        BY <2>0, <2>3, DownlinkConstants DEF Placed, TypeOK
      <3>4. Len(out'[laneOf[st]]) = Len(out[laneOf[st]]) + 1 /\ Len(out[laneOf[st]]) \in Nat
        BY <3>1, <3>2, <3>3, AppendFacts
      <3>5. out'[laneOf[st]] # out[laneOf[st]]
        BY <3>4
      <3> QED
        BY <2>2, <2>3, <3>5
    <2>4. ASSUME NEW st, Placed(st), NEW i \in taken
          PROVE  st \in OpenStreams /\ L[i].depth = L[st].depth
      <3>1. i \in OpenStreams /\ laneOf[i] \in Conns /\ L[i].depth = Len(out[laneOf[i]])
        BY <2>0, <2>2, LanesTyped
      <3>2. st \in OpenStreams /\ laneOf[i] = laneOf[st]
        BY <2>0, <2>4, <3>1, PlaceEffect DEF Placed
      <3> QED
        BY <2>0, <3>1, <3>2, LanesTyped
    <2>5. ASSUME NEW gap \in BOOLEAN, EnqueueDownlink(gap)
          PROVE  /\ taken = {} =>
                       \/ WithRoom(L) = {}
                       \/ ~canStripe(L) /\ sel.hasCurrent /\ sel.current \in DOMAIN L \ WithRoom(L)
                 /\ canStripe(L) => \A i \in taken : L[i].depth < StripeSize
      <3>1. PICK ch : ch = choose(sel, L, gap)
        OBVIOUS
      <3>2. ChoiceOK(sel, OpenStreams, L, ch) /\ Placed(ch.stream) /\ ch.minDepth = NoScan
        BY <1>1, <2>0, <2>5, <3>1, EnqueueEffect
      <3> HIDE DEF L, taken
      <3>3. CASE ch.stream = NoStream
        <4>1. NoStream \notin OpenStreams
          BY <2>0, LanesTyped, NoStreamOut
        <4>2. taken = {}
          BY <2>4, <3>2, <3>3, <4>1
        <4> QED
          BY <2>2, <3>2, <3>3, <4>2 DEF ChoiceOK
      <3>4. CASE ch.stream # NoStream
        <4>1. ch.stream \in taken
          BY <2>3, <3>2, <3>4 DEF ChoiceOK
        <4>2. canStripe(L) => L[ch.stream].depth < StripeSize
          BY <3>2, <3>4 DEF ChoiceOK
        <4> QED
          BY <2>4, <3>2, <4>1, <4>2
      <3> QED
        BY <3>3, <3>4
    <2>6. ASSUME ScanLanes
          PROVE  /\ taken = {} => scan # NoScan /\ shortest = {}
                 /\ \A i \in taken : i \in shortest
      <3>1. PICK ch : ch = scanLanes(sel, L, scan)
        OBVIOUS
      <3>2. /\ Placed(ch.stream) /\ scan \in 0 .. QueueSize - 1
            /\ ch.stream # NoStream => L[ch.stream].depth = scan
            /\ ch.stream = NoStream => \A i \in OpenStreams : L[i].depth # scan
        BY <2>0, <2>6, <3>1, ScanEffect
      <3>3. scan # NoScan /\ scan < QueueSize
        BY <3>2, SelectorConstants DEF NoScan
      <3>4. NoStream \notin OpenStreams
        BY <2>0, LanesTyped, NoStreamOut
      <3>5. CASE ch.stream = NoStream
        <4>1. taken = {}
          <5> HIDE DEF taken, L
          <5> QED BY <2>4, <3>2, <3>4, <3>5
        <4>2. shortest = {}
          BY <2>2, <3>2, <3>5
        <4> QED
          BY <3>3, <4>1, <4>2
      <3>6. CASE ch.stream # NoStream
        <4>1. ch.stream \in taken
          <5> HIDE DEF taken, L
          <5> QED BY <2>3, <3>2, <3>3, <3>6 DEF Placed
        <4>2. \A i \in taken : i \in DOMAIN L /\ L[i].depth = scan
          <5>1. \A i \in taken : i \in DOMAIN L
            OBVIOUS
          <5> HIDE DEF taken, L
          <5> QED BY <2>4, <3>2, <3>6, <5>1
        <4> QED
          BY <3>3, <4>1, <4>2
      <3> QED
        BY <3>5, <3>6
    <2>7. CASE \E gap \in BOOLEAN : EnqueueDownlink(gap)
      BY <2>5, <2>7 DEF Placement
    <2>8. CASE ScanLanes
      BY <2>6, <2>8 DEF Placement
    <2> QED
      BY <2>1, <2>7, <2>8 DEF ReaderStep
  <1>2. DownlinkInv /\ [Next]_vars => [fromBackend' # fromBackend => Placement]_vars
    BY <1>1
  <1> QED
    BY DownlinkInvariant, <1>2, PTL DEF Spec, DownlinkPlacement
=============================================================================
