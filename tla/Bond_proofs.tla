---------------------------- MODULE Bond_proofs ----------------------------
(***************************************************************************)
(* Bonded TCP connections, for every number of lanes, every capacity of    *)
(* recvCh and every scenario of failures.                                  *)
(*                                                                         *)
(* That the chunks come out in order is a fact about what a frame may say  *)
(* wherever it is: on a lane, in recvCh or in a reorder map a frame with   *)
(* number n carries chunk n of its sender, and FIN carries the number of   *)
(* chunks (UpFrames, UpReceived, DownFrames, DownReceived).  That nothing  *)
(* vanishes is a fact about where a chunk can be while nobody has left     *)
(* (UpKept, DownKept); it needs the cause of every cancelled context and   *)
(* closed stream (EndCauses).  That a torn frame stays the last one needs  *)
(* that no sender comes back to its lane in this pass or a later one       *)
(* (TornUp, TornDown).                                                     *)
(***************************************************************************)
EXTENDS Bond, SequenceTheorems, FiniteSetTheorems, TLAPS

-----------------------------------------------------------------------------
(* The parts of the inductive invariant.                                   *)

\* handleBondedTCP: the copies start after the lanes are open, and laneIdx names one.
ClientOrder ==
    /\ chandler = "opening" => csend.pc = "none"
    /\ csend.pc = "none" => csend.laneIdx = 0
    /\ csend.pc \in {"read", "write"} => csend.laneIdx < Len(lanes)

\* The registry hands out conns that were created, and only these run.
ConnKnown ==
    /\ reg # NoConn => connOf[reg] = reg
    /\ \A l \in Lanes :
          /\ handler[l] = "idle" => connOf[l] = NoConn
          /\ handler[l] \in {"got", "attached"} \/ l \in sread => connOf[l] # NoConn
          /\ connOf[l] # NoConn => connOf[connOf[l]] = connOf[l]
          /\ run[l] # "none" => connOf[l] = l
          /\ ssend[l].pc # "none" => run[l] \in {"copy", "done"}

\* A frame of the upload, and a receiver of it, know chunks that were read and the FIN
\* that was sent.
UpFrame(f) ==
    /\ f.typ = "data" => f.seq < csend.seq /\ f.data = Chunk(Local, f.seq)
    /\ f.typ = "fin" => csend.pc = "done" /\ f.seq = csend.seq

UpFrames ==
    /\ \A l \in Lanes : \A f \in Elements(up[l]) : UpFrame(f)
    /\ \A c \in Lanes : \A f \in Elements(srecv[c]) : UpFrame(f)

UpReceiver(r) ==
    /\ \A s \in DOMAIN r.pending : s < csend.seq /\ r.pending[s] = Chunk(Local, s)
    /\ r.fin # NoFin => csend.pc = "done" /\ r.fin = csend.seq
    /\ \A i \in DOMAIN r.out : r.out[i] = Chunk(Local, i - 1)
    /\ Len(r.out) <= csend.seq
    /\ r.pc = "run" => Len(r.out) = r.expect
    /\ r.pc = "finished" => csend.pc = "done" /\ Len(r.out) = csend.seq

UpReceived == \A c \in Lanes : UpReceiver(srcv[c])

\* The same for the download, where any of the conns may have sent a frame.
DownEnded(n) == \E c \in Created : ssend[c].pc = "done" /\ ssend[c].seq = n

DownFrame(f) ==
    /\ f.typ = "data" => f.data.src \in Lanes /\ f.data.n = f.seq
    /\ f.typ = "fin" => DownEnded(f.seq)

DownFrames ==
    /\ \A l \in Lanes : \A f \in Elements(down[l]) : DownFrame(f)
    /\ \A f \in Elements(crecv) : DownFrame(f)

DownReceived ==
    /\ \A s \in DOMAIN crcv.pending : crcv.pending[s].src \in Lanes /\ crcv.pending[s].n = s
    /\ crcv.fin # NoFin => DownEnded(crcv.fin)
    /\ \A i \in DOMAIN crcv.out : crcv.out[i].src \in Lanes /\ crcv.out[i].n = i - 1
    /\ crcv.pc = "run" => Len(crcv.out) = crcv.expect
    /\ crcv.pc = "finished" => DownEnded(Len(crcv.out))

\* addLane and removeLane: c.lanes and the snapshots of it hold lanes of the conn, once.
Distinct(s) == \A i, j \in DOMAIN s : s[i] = s[j] => i = j

LanesOfConn ==
    \A c \in Lanes : \A s \in {slanes[c], ssend[c].lanes} :
        /\ Distinct(s)
        /\ \A l \in Elements(s) : connOf[l] = c /\ handler[l] \in {"attached", "closed"}

\* A torn frame is the last one of its lane, and nobody will write the lane again.
TornIsLast(w) == \A i \in DOMAIN w : w[i].typ = "torn" => i = Len(w)
HasTorn(w) == \E i \in DOMAIN w : w[i].typ = "torn"

TornUp ==
    \A l \in Lanes :
        /\ TornIsLast(up[l])
        /\ HasTorn(up[l]) => l \in dead /\ chandler # "opening"

\* The positions of the snapshot that a pass of writeToNextLane has yet to try.
Upcoming(s) ==
    {((s.laneIdx + d) % Len(s.lanes)) + 1 : d \in 0 .. Len(s.lanes) - 1 - s.attempts}

Avoided(l) ==
    LET c == connOf[l] IN
    /\ c # NoConn
    /\ handler[l] \in {"attached", "closed"}
    /\ l \notin Elements(slanes[c])
    /\ ssend[c].pc = "fin" => l \notin Elements(ssend[c].lanes)
    /\ ssend[c].pc = "write" => \A k \in Upcoming(ssend[c]) : ssend[c].lanes[k] # l

TornDown ==
    \A l \in Lanes :
        /\ TornIsLast(down[l])
        /\ HasTorn(down[l]) => Avoided(l)

\* Who closes streams and cancels contexts, ...
ClientLeaves == cclosed # {} \/ crcv.pc # "run" => cctx
RunCancels == \A c \in Lanes : run[c] = "done" => c \in sctx
HandlerCloses == \A l \in sclosed : handler[l] = "closed"

\* ... and why a lane in use is missing from c.lanes.
Given(l) == l \in broken \/ connOf[l] \in sctx \/ lifetime = "cancelled" \/ cctx

LaneMissing ==
    \A l \in Lanes : handler[l] = "attached" /\ l \notin Elements(slanes[connOf[l]]) => Given(l)

\* The server closes a stream that failed, or whose conn is cancelled.
CloseCause ==
    \A l \in sclosed : \/ l \in broken \/ lifetime = "cancelled"
                       \/ connOf[l] # NoConn /\ connOf[l] \in sctx

EndCauses == ClientLeaves /\ RunCancels /\ HandlerCloses /\ LaneMissing /\ CloseCause

\* While nothing fails and nobody leaves, what was written is somewhere; the upload while
\* no second conn was created to take frames from lanes.
DownKept ==
    broken = {} /\ ~cctx =>
        \A c \in Lanes : \A n \in 0 .. ssend[c].seq - 1 : Reaches(down, crecv, crcv, n)

Undisturbed(c) ==
    /\ broken = {} /\ ~cctx /\ lifetime = "live" /\ c \notin sctx /\ backend[c] = "open"
    /\ Created \subseteq {c}

UpKept ==
    \A c \in Lanes : Undisturbed(c) =>
        \A n \in 0 .. csend.seq - 1 : Reaches(up, srecv[c], srcv[c], n)

BondInv ==
    /\ TypeOK /\ ClientOrder /\ ConnKnown
    /\ UpFrames /\ UpReceived
    /\ DownFrames /\ DownReceived
    /\ LanesOfConn /\ TornUp /\ TornDown
    /\ EndCauses /\ DownKept /\ UpKept

-----------------------------------------------------------------------------
(* Sequences of frames.                                                    *)

\* Which elements a sequence has after the operations of the model.
LEMMA ElementsOf ==
    ASSUME NEW S, NEW s \in Seq(S)
    PROVE  /\ Elements(s) \subseteq S
           /\ Elements(<< >>) = {}
           /\ \A x \in S : Append(s, x) \in Seq(S) /\ Elements(Append(s, x)) = Elements(s) \cup {x}
           /\ s # << >> => /\ Head(s) \in Elements(s)
                           /\ Tail(s) \in Seq(S) /\ Elements(Tail(s)) \subseteq Elements(s)
           /\ \A i \in 0 .. Len(s) : /\ SubSeq(s, 1, i) \in Seq(S)
                                     /\ Elements(SubSeq(s, 1, i)) \subseteq Elements(s)
  <1>1. Elements(s) \subseteq S /\ Elements(<< >>) = {}
    BY DEF Elements
  <1>2. ASSUME NEW x \in S
        PROVE  Append(s, x) \in Seq(S) /\ Elements(Append(s, x)) = Elements(s) \cup {x}
    <2>1. /\ Append(s, x) \in Seq(S) /\ Len(Append(s, x)) = Len(s) + 1
          /\ \A i \in 1 .. Len(s) : Append(s, x)[i] = s[i]
          /\ Append(s, x)[Len(s) + 1] = x
      BY AppendProperties
    <2>2. DOMAIN Append(s, x) = 1 .. Len(s) + 1 /\ DOMAIN s = 1 .. Len(s) /\ Len(s) \in Nat
      BY <2>1, LenProperties
    <2> QED
      BY <2>1, <2>2 DEF Elements
  <1>3. ASSUME s # << >>
        PROVE  /\ Head(s) \in Elements(s)
               /\ Tail(s) \in Seq(S) /\ Elements(Tail(s)) \subseteq Elements(s)
    BY <1>3 DEF Elements
  <1>4. ASSUME NEW i \in 0 .. Len(s)
        PROVE  SubSeq(s, 1, i) \in Seq(S) /\ Elements(SubSeq(s, 1, i)) \subseteq Elements(s)
    <2>1. /\ SubSeq(s, 1, i) \in Seq(S) /\ Len(SubSeq(s, 1, i)) = i
          /\ \A j \in 1 .. i : SubSeq(s, 1, i)[j] = s[j]
      BY <1>4
    <2>2. DOMAIN SubSeq(s, 1, i) = 1 .. i /\ DOMAIN s = 1 .. Len(s) /\ Len(s) \in Nat
      BY <2>1, LenProperties
    <2> QED
      BY <2>1, <2>2 DEF Elements
  <1> QED
    BY <1>1, <1>2, <1>3, <1>4

\* The same for frames.
LEMMA FrameElements ==
    ASSUME NEW s \in Seq(Frames)
    PROVE  /\ Elements(s) \subseteq Frames
           /\ \A x \in Frames : /\ Append(s, x) \in Seq(Frames)
                                /\ Elements(Append(s, x)) = Elements(s) \cup {x}
           /\ s # << >> => /\ Head(s) \in Elements(s)
                           /\ Tail(s) \in Seq(Frames) /\ Elements(Tail(s)) \subseteq Elements(s)
           /\ \A i \in 0 .. Len(s) : /\ SubSeq(s, 1, i) \in Seq(Frames)
                                     /\ Elements(SubSeq(s, 1, i)) \subseteq Elements(s)
  BY ElementsOf

\* A sequence that was written holds what it held and what was written.
LEMMA WrittenElements ==
    ASSUME NEW s \in Seq(Frames), NEW x \in Frames, NEW t \in {s, Append(s, x)}
    PROVE  \A f \in Elements(t) : f \in Elements(s) \/ f = x
  <1>1. Elements(Append(s, x)) = Elements(s) \cup {x}
    BY FrameElements
  <1> QED
    BY <1>1

\* Which lanes a list of lanes holds.
LEMMA LaneElements ==
    ASSUME NEW s \in Seq(Lanes)
    PROVE  /\ Elements(s) \subseteq Lanes
           /\ \A x \in Lanes : /\ Append(s, x) \in Seq(Lanes)
                               /\ Elements(Append(s, x)) = Elements(s) \cup {x}
  BY ElementsOf

\* A frame that is written is carried by its lane or lost with it.
LEMMA CarriedEffect ==
    ASSUME NEW w \in [Lanes -> Seq(Frames)], NEW l \in Lanes, NEW f \in Frames, NEW peer,
           NEW v, v = Carried(w, l, f, peer)
    PROVE  /\ v \in [Lanes -> Seq(Frames)] /\ \A m \in Lanes \ {l} : v[m] = w[m]
           /\ \A m \in Lanes : v[m] \in {w[m], Append(w[m], f)}
           /\ l \notin broken /\ l \notin peer => v[l] = Append(w[l], f)
  <1>1. w[l] \in Seq(Frames) /\ Append(w[l], f) \in Seq(Frames)
    OBVIOUS
  <1> QED
    BY <1>1 DEF Carried

\* writeBondFrame on one lane: the other lanes keep what they carry.
LEMMA WriteEffect ==
    ASSUME NEW w \in [Lanes -> Seq(Frames)], NEW l \in Lanes, NEW f \in Frames,
           NEW own, NEW peer, NEW late, NEW v
    PROVE  /\ v \in WriteFrame(w, l, f, own, peer) =>
                 /\ v \in [Lanes -> Seq(Frames)] /\ \A m \in Lanes \ {l} : v[m] = w[m]
                 /\ \A m \in Lanes : v[m] \in {w[m], Append(w[m], f)}
                 /\ l \notin broken /\ l \notin peer => v[l] = Append(w[l], f)
           /\ v \in WriteError(w, l, f, own, peer, late) =>
                 /\ v \in [Lanes -> Seq(Frames)] /\ \A m \in Lanes \ {l} : v[m] = w[m]
                 /\ \A m \in Lanes : v[m] \in {w[m], Append(w[m], TornFrame)}
                 /\ l \in broken \/ l \in own \/ l \in peer \/ late
  <1>1. TornFrame \in Frames
    BY DEF TornFrame, Frames
  <1>2. ASSUME v \in WriteFrame(w, l, f, own, peer)
        PROVE  v = Carried(w, l, f, peer)
    BY <1>2 DEF WriteFrame
  <1>3. ASSUME v \in WriteError(w, l, f, own, peer, late)
        PROVE  /\ v = w \/ v = Carried(w, l, TornFrame, peer)
               /\ l \in broken \/ l \in own \/ l \in peer \/ late
    BY <1>3 DEF WriteError
  <1>4. ASSUME v \in WriteFrame(w, l, f, own, peer)
        PROVE  /\ v \in [Lanes -> Seq(Frames)] /\ \A m \in Lanes \ {l} : v[m] = w[m]
               /\ \A m \in Lanes : v[m] \in {w[m], Append(w[m], f)}
               /\ l \notin broken /\ l \notin peer => v[l] = Append(w[l], f)
    BY <1>2, <1>4, CarriedEffect
  <1>5. ASSUME v = Carried(w, l, TornFrame, peer)
        PROVE  /\ v \in [Lanes -> Seq(Frames)] /\ \A m \in Lanes \ {l} : v[m] = w[m]
               /\ v[l] \in {w[l], Append(w[l], TornFrame)}
    BY <1>1, <1>5, CarriedEffect
  <1>6. ASSUME v \in WriteError(w, l, f, own, peer, late)
        PROVE  /\ v \in [Lanes -> Seq(Frames)] /\ \A m \in Lanes \ {l} : v[m] = w[m]
               /\ v[l] \in {w[l], Append(w[l], TornFrame)}
               /\ l \in broken \/ l \in own \/ l \in peer \/ late
    BY <1>3, <1>5, <1>6
  <1> QED
    BY <1>4, <1>6

\* The FIN loop: every lane it is meant for gets the FIN or stays as it is.
LEMMA FinEffect ==
    ASSUME NEW w \in [Lanes -> Seq(Frames)], NEW ls, NEW seq \in Nat,
           NEW own, NEW peer, NEW late, NEW v \in WriteFinTo(w, ls, seq, own, peer, late)
    PROVE  /\ v \in [Lanes -> Seq(Frames)]
           /\ \A m \in Lanes : v[m] \in {w[m], Append(w[m], FinFrame(seq))}
           /\ \A m \in Lanes \ ls : v[m] = w[m]
  <1>1. FinFrame(seq) \in Frames
    BY DEF FinFrame, Frames
  <1>2. PICK got \in SUBSET ls :
           v = [l \in Lanes |-> IF l \in got THEN Append(w[l], FinFrame(seq)) ELSE w[l]]
    BY DEF WriteFinTo
  <1> QED
    BY <1>1, <1>2

\* The lanes that are not written.
LEMMA WriteElsewhere ==
    ASSUME NEW w \in [Lanes -> Seq(Frames)], NEW l \in Lanes, NEW f, NEW own, NEW peer,
           NEW v \in WriteFrame(w, l, f, own, peer), NEW m \in Lanes, m # l
    PROVE  v[m] = w[m]
  BY DEF WriteFrame, Carried

\* The same for a write that fails ...
LEMMA ErrorElsewhere ==
    ASSUME NEW w \in [Lanes -> Seq(Frames)], NEW l \in Lanes, NEW f, NEW own, NEW peer, NEW late,
           NEW v \in WriteError(w, l, f, own, peer, late), NEW m \in Lanes, m # l
    PROVE  v[m] = w[m]
  BY DEF WriteError, Carried

\* ... and for the FIN loop.
LEMMA FinElsewhere ==
    ASSUME NEW w \in [Lanes -> Seq(Frames)], NEW ls, NEW seq \in Nat,
           NEW own, NEW peer, NEW late, NEW m \in Lanes, m \notin ls
    PROVE  \A v \in WriteFinTo(w, ls, seq, own, peer, late) : v[m] = w[m]
  BY DEF WriteFinTo

-----------------------------------------------------------------------------
(* The reassembly loop.                                                    *)

\* What one frame does to the reassembly loop.
LEMMA TakeEffect ==
    ASSUME NEW r, IsReceiver(r), NEW f \in Frames, f.typ \in Whole
    PROVE  /\ IsReceiver(Take(r, f))
           /\ Take(r, f).pc = r.pc /\ Take(r, f).expect = r.expect /\ Take(r, f).out = r.out
           /\ f.typ = "data" =>
                 /\ DOMAIN Take(r, f).pending = DOMAIN r.pending \cup {f.seq}
                 /\ Take(r, f).pending[f.seq] = f.data
                 /\ \A s \in DOMAIN r.pending \ {f.seq} : Take(r, f).pending[s] = r.pending[s]
                 /\ Take(r, f).fin = r.fin
           /\ f.typ = "fin" =>
                 /\ Take(r, f).pending = r.pending
                 /\ Take(r, f).fin \in {r.fin, f.seq} \ {NoFin}
  BY DEF IsReceiver, Take, Frames, Whole, NoFin

\* What one written chunk does to it.
LEMMA DeliverEffect ==
    ASSUME NEW r, IsReceiver(r), Deliverable(r)
    PROVE  /\ IsReceiver(Deliver(r))
           /\ Deliver(r).pc = r.pc /\ Deliver(r).fin = r.fin
           /\ Deliver(r).expect = r.expect + 1
           /\ Deliver(r).out = Append(r.out, r.pending[r.expect])
           /\ DOMAIN Deliver(r).pending = DOMAIN r.pending \ {r.expect}
           /\ \A s \in DOMAIN Deliver(r).pending : Deliver(r).pending[s] = r.pending[s]
  <1>1. /\ DOMAIN Deliver(r) = DOMAIN r
        /\ Deliver(r).pc = r.pc /\ Deliver(r).fin = r.fin
        /\ Deliver(r).expect = r.expect + 1
        /\ Deliver(r).out = Append(r.out, r.pending[r.expect])
        /\ DOMAIN Deliver(r).pending = DOMAIN r.pending \ {r.expect}
        /\ \A s \in DOMAIN Deliver(r).pending : Deliver(r).pending[s] = r.pending[s]
    BY DEF IsReceiver, Deliver
  <1>2. Append(r.out, r.pending[r.expect]) \in Seq(Chunks)
    BY DEF IsReceiver, Deliverable
  <1> QED
    BY <1>1, <1>2 DEF IsReceiver, Deliverable

\* What its return does to it.
LEMMA ReturnedEffect ==
    ASSUME NEW r, IsReceiver(r), NEW p \in {"finished", "ended"}
    PROVE  /\ IsReceiver(Returned(r, p))
           /\ Returned(r, p).pc = p /\ Returned(r, p).out = r.out
           /\ Returned(r, p).fin = NoFin /\ DOMAIN Returned(r, p).pending = {}
  <1>1. DOMAIN << >> = {}
    OBVIOUS
  <1>2. /\ DOMAIN Returned(r, p) = {"pc", "pending", "expect", "fin", "out"}
        /\ Returned(r, p).pc = p /\ Returned(r, p).out = r.out /\ Returned(r, p).expect = 0
        /\ Returned(r, p).fin = NoFin /\ Returned(r, p).pending = << >>
    BY DEF Returned, NewReceiver
  <1> QED
    BY <1>1, <1>2 DEF IsReceiver, NoFin

-----------------------------------------------------------------------------
(* Where the senders write.                                                *)

\* writeBondFrameToNextLane: the lane an attempt goes to, and the frame.
LEMMA ClientWrites ==
    ASSUME ClientTypes, ClientOrder, csend.pc = "write", csend.attempts < Len(lanes)
    PROVE  /\ lanes[csend.laneIdx + 1] \in Elements(lanes)
           /\ lanes[csend.laneIdx + 1] \in Lanes
           /\ DataFrame(csend.seq, Chunk(Local, csend.seq)) \in Frames
           /\ (csend.laneIdx + 1) % Len(lanes) \in 0 .. Len(lanes) - 1
  <1>1. csend.laneIdx \in Nat /\ csend.laneIdx < Len(lanes) /\ Len(lanes) \in Nat /\ csend.seq \in Nat
    BY DEF ClientTypes, ClientSenders, ClientOrder
  <1>2. (csend.laneIdx + 1) % Len(lanes) \in 0 .. Len(lanes) - 1
    BY <1>1
  <1>3. csend.laneIdx + 1 \in DOMAIN lanes
    BY <1>1 DEF ClientTypes
  <1>4. DataFrame(csend.seq, Chunk(Local, csend.seq)) \in Frames
    BY <1>1 DEF DataFrame, Chunk, Chunks, Frames
  <1> QED
    BY <1>2, <1>3, <1>4 DEF ClientTypes, Elements

\* writeToNextLane: the same for a conn and its snapshot.
LEMMA ServerWrites ==
    ASSUME ServerTypes, NEW c \in Lanes, ssend[c].attempts < Len(ssend[c].lanes)
    PROVE  LET s == ssend[c]
               i == (s.laneIdx % Len(s.lanes)) + 1
           IN  /\ i \in DOMAIN s.lanes /\ s.lanes[i] \in Lanes
               /\ s.lanes[i] \in Elements(s.lanes)
               /\ DataFrame(s.seq, Chunk(c, s.seq)) \in Frames
  <1> DEFINE s == ssend[c]
  <1>0. /\ s.laneIdx \in Nat /\ s.attempts \in Nat /\ s.seq \in Nat
        /\ s.lanes \in Seq(Lanes)
    BY DEF ServerTypes, ServerSenders
  <1>1. Len(s.lanes) \in Nat /\ Len(s.lanes) > 0
    BY <1>0
  <1> HIDE DEF s
  <1>2. (s.laneIdx % Len(s.lanes)) + 1 \in 1 .. Len(s.lanes)
    BY <1>0, <1>1
  <1>3. DataFrame(s.seq, Chunk(c, s.seq)) \in Frames
    BY <1>0 DEF DataFrame, Chunk, Chunks, Frames
  <1> QED
    BY <1>0, <1>2, <1>3 DEF Elements, s

\* removeLane, on lanes that are there once.
LEMMA RemoveLaneEffect ==
    ASSUME ServerTypes, NEW c \in Lanes, NEW l
    PROVE  /\ RemoveLane(c, l) \in Seq(Lanes)
           /\ Elements(RemoveLane(c, l)) \subseteq Elements(slanes[c])
           /\ Elements(slanes[c]) \subseteq Elements(RemoveLane(c, l)) \cup {l}
           /\ Distinct(slanes[c]) => Distinct(RemoveLane(c, l))
           /\ Distinct(slanes[c]) => l \notin Elements(RemoveLane(c, l))
           /\ RemoveLane(c, l) = << >> => Elements(slanes[c]) \subseteq {l}
  <1> DEFINE ls == slanes[c]
             i == CHOOSE i \in DOMAIN ls : ls[i] = l
             left == SubSeq(ls, 1, i - 1) \o SubSeq(ls, i + 1, Len(ls))
  <1>0. ls \in Seq(Lanes) /\ Len(ls) \in Nat /\ DOMAIN ls = 1 .. Len(ls)
    BY DEF ServerTypes
  <1>1. CASE \E j \in DOMAIN ls : ls[j] = l
    <2>1. i \in 1 .. Len(ls) /\ ls[i] = l
      BY <1>0, <1>1
    <2> HIDE DEF i
    <2>2. /\ SubSeq(ls, 1, i - 1) \in Seq(Lanes) /\ Len(SubSeq(ls, 1, i - 1)) = i - 1
          /\ \A j \in 1 .. i - 1 : SubSeq(ls, 1, i - 1)[j] = ls[j]
      BY <1>0, <2>1
    <2>3. /\ SubSeq(ls, i + 1, Len(ls)) \in Seq(Lanes)
          /\ Len(SubSeq(ls, i + 1, Len(ls))) = Len(ls) - i
          /\ \A j \in 1 .. Len(ls) - i : SubSeq(ls, i + 1, Len(ls))[j] = ls[i + j]
      BY <1>0, <2>1
    <2>4. /\ left \in Seq(Lanes) /\ Len(left) = Len(ls) - 1 /\ DOMAIN left = 1 .. Len(ls) - 1
          /\ \A j \in 1 .. Len(ls) - 1 : left[j] = IF j < i THEN ls[j] ELSE ls[j + 1]
      <3> DEFINE a == SubSeq(ls, 1, i - 1)
                 b == SubSeq(ls, i + 1, Len(ls))
      <3> HIDE DEF a, b, ls
      <3>0. /\ a \in Seq(Lanes) /\ Len(a) = i - 1
            /\ b \in Seq(Lanes) /\ Len(b) = Len(ls) - i
        BY <2>2, <2>3 DEF a, b
      <3>1. /\ a \o b \in Seq(Lanes) /\ Len(a \o b) = Len(ls) - 1
            /\ \A j \in 1 .. Len(ls) - 1 : (a \o b)[j] = IF j < i THEN a[j] ELSE b[j - (i - 1)]
        <4>1. /\ a \o b \in Seq(Lanes) /\ Len(a \o b) = Len(a) + Len(b)
              /\ \A j \in 1 .. Len(a) + Len(b) :
                    (a \o b)[j] = IF j <= Len(a) THEN a[j] ELSE b[j - Len(a)]
          BY <3>0, ConcatProperties
        <4> HIDE DEF i
        <4> QED
          BY <1>0, <2>1, <3>0, <4>1
      <3>2. \A j \in 1 .. Len(ls) - 1 : (a \o b)[j] = IF j < i THEN ls[j] ELSE ls[j + 1]
        <4>1. ASSUME NEW j \in 1 .. Len(ls) - 1, j < i PROVE a[j] = ls[j]
          BY <1>0, <2>1, <2>2, <4>1 DEF a
        <4>2. ASSUME NEW j \in 1 .. Len(ls) - 1, ~ (j < i) PROVE b[j - (i - 1)] = ls[j + 1]
          <5>1. j - (i - 1) \in 1 .. Len(ls) - i /\ i + (j - (i - 1)) = j + 1
            BY <1>0, <2>1, <4>2
          <5> QED
            BY <2>3, <5>1 DEF b
        <4> QED
          BY <3>1, <4>1, <4>2
      <3> QED
        BY <1>0, <2>1, <3>1, <3>2, LenProperties DEF a, b
    <2>5. RemoveLane(c, l) = left
      BY <1>1 DEF RemoveLane, i
    <2> HIDE DEF ls, left
    <2>6. Elements(left) \subseteq Elements(ls) /\ Elements(ls) \subseteq Elements(left) \cup {l}
      <3>1. ASSUME NEW j \in 1 .. Len(ls) PROVE ls[j] \in Elements(left) \cup {l}
        <4>1. CASE j < i
          BY <1>0, <2>1, <2>4, <4>1 DEF Elements
        <4>2. CASE j > i
          <5>1. j - 1 \in DOMAIN left /\ left[j - 1] = ls[j]
            BY <1>0, <2>1, <2>4, <4>2
          <5> QED
            BY <5>1 DEF Elements
        <4> QED
          BY <1>0, <2>1, <4>1, <4>2
      <3>2. ASSUME NEW j \in 1 .. Len(ls) - 1 PROVE left[j] \in Elements(ls)
        <4>1. j \in DOMAIN ls /\ j + 1 \in DOMAIN ls
          BY <1>0
        <4> QED
          BY <2>4, <4>1 DEF Elements
      <3> QED
        BY <1>0, <2>4, <3>1, <3>2 DEF Elements
    <2>7. ASSUME Distinct(ls) PROVE Distinct(left) /\ l \notin Elements(left)
      <3>1. ASSUME NEW j \in 1 .. Len(ls) - 1
            PROVE  \E k \in DOMAIN ls : k = (IF j < i THEN j ELSE j + 1) /\ k # i /\ left[j] = ls[k]
        BY <1>0, <2>1, <2>4
      <3>2. Distinct(left)
        <4>1. ASSUME NEW j \in 1 .. Len(ls) - 1, NEW k \in 1 .. Len(ls) - 1, left[j] = left[k]
              PROVE  j = k
          BY <1>0, <2>1, <2>7, <3>1, <4>1 DEF Distinct
        <4> QED
          BY <2>4, <4>1 DEF Distinct
      <3>3. ASSUME NEW j \in 1 .. Len(ls) - 1 PROVE left[j] # l
        BY <1>0, <2>1, <2>7, <3>1 DEF Distinct
      <3> QED
        BY <2>4, <3>2, <3>3 DEF Elements
    <2>8. left = << >> => Elements(left) = {}
      BY DEF Elements
    <2> QED
      BY <2>4, <2>5, <2>6, <2>7, <2>8 DEF ls
  <1>2. CASE ~ \E j \in DOMAIN ls : ls[j] = l
    <2>1. RemoveLane(c, l) = ls /\ l \notin Elements(ls)
      BY <1>2 DEF RemoveLane, Elements
    <2>2. ls = << >> => Elements(ls) = {}
      BY DEF Elements
    <2> QED
      BY <1>0, <2>1, <2>2
  <1> QED
    BY <1>1, <1>2

-----------------------------------------------------------------------------
(* Every step keeps the types.                                             *)

\* What the lanes carry stays sequences of frames.
LEMMA WireTypesStep ==
    ASSUME BondInv, [Next]_vars
    PROVE  WireTypes'
  <1> USE DEF wireVars, streamVars, clientVars, openVars, serverVars, regVars, waitVars
  <1> USE DEF BondInv, TypeOK
  <1>0. ASSUME UNCHANGED <<wireVars>> PROVE WireTypes'
    BY <1>0 DEF WireTypes
  <1>1. CASE ClientNext /\ UNCHANGED serverVars
    <2>1. CASE OpenLane
      <3>1. cand \in Lanes /\ HelloFrame \in Frames
        BY <2>1, BondConstants DEF OpenLane, ClientTypes, Lanes, HelloFrame, Frames
      <3>2. /\ up' = up \/ up' = Carried(up, cand, HelloFrame, sclosed)
            /\ UNCHANGED <<down, streamVars>>
        BY <2>1 DEF OpenLane
      <3> QED
        BY <3>1, <3>2, CarriedEffect DEF WireTypes
    <2>2. CASE WriteToLane
      <3> DEFINE l == lanes[csend.laneIdx + 1]
                 f == DataFrame(csend.seq, Chunk(Local, csend.seq))
      <3>1. l \in Lanes /\ f \in Frames
        BY <2>2, ClientWrites DEF WriteToLane
      <3>2. /\ \/ up' = up
               \/ up' \in WriteFrame(up, l, f, cclosed, sclosed)
               \/ up' \in WriteError(up, l, f, cclosed, sclosed, cctx)
            /\ UNCHANGED <<down, streamVars>>
        BY <2>2 DEF WriteToLane
      <3> HIDE DEF l, f
      <3> QED
        BY <3>1, <3>2, WriteEffect DEF WireTypes
    <2>3. CASE WriteFin
      BY <1>1, <2>3, FinEffect DEF WriteFin, WireTypes, ClientTypes, ClientSenders
    <2>4. CASE CloseBonded
      BY <1>1, <2>4 DEF CloseBonded, WireTypes, ClientTypes, Discard, LaneSet
    <2>5. ASSUME NEW l \in Lanes, ReadLaneFrame(l) PROVE WireTypes'
      BY <1>1, <2>5, FrameElements DEF ReadLaneFrame, WireTypes, HasFrame, Pop
    <2>6. CASE StartCopying \/ ReadLocalChunk \/ ReadLocalEnds \/ NoLiveLanes \/
       ReceiveDown \/ DeliverDown \/ FinishDown \/ ClientStops \/ LocalResets
      BY <1>0, <1>1, <2>6 DEF StartCopying, ReadLocalChunk, ReadLocalEnds, NoLiveLanes,
         ReceiveDown, ReturnDownload, DeliverDown, FinishDown, ClientStops, LocalResets
    <2>7. ASSUME NEW l \in Lanes, ReadLaneEnds(l)
          PROVE  WireTypes'
      BY <1>0, <1>1, <2>7 DEF ReadLaneEnds
    <2> QED
      BY <1>1, <2>1, <2>2, <2>3, <2>4, <2>5, <2>6, <2>7 DEF ClientNext
  <1>2. CASE ServerNext /\ UNCHANGED clientVars
    <2>1. ASSUME NEW l \in Lanes, GetConn(l) PROVE WireTypes'
      BY <1>2, <2>1, FrameElements DEF GetConn, WireTypes, Pop
    <2>2. ASSUME NEW l \in Lanes, HelloFails(l) PROVE WireTypes'
      BY <1>2, <2>2 DEF HelloFails, WireTypes, Discard
    <2>3. ASSUME NEW l \in Lanes, HandlerReturns(l) PROVE WireTypes'
      BY <1>2, <2>3 DEF HandlerReturns, WireTypes, Discard
    <2>4. ASSUME NEW l \in Lanes, SReadFrame(l) PROVE WireTypes'
      BY <1>2, <2>4, FrameElements DEF SReadFrame, WireTypes, HasFrame, Pop
    <2>5. ASSUME NEW c \in Lanes, SWriteToLane(c) PROVE WireTypes'
      <3> DEFINE l == ssend[c].lanes[(ssend[c].laneIdx % Len(ssend[c].lanes)) + 1]
                 f == DataFrame(ssend[c].seq, Chunk(c, ssend[c].seq))
      <3>1. l \in Lanes /\ f \in Frames
        BY <2>5, ServerWrites DEF SWriteToLane
      <3>2. /\ \/ down' \in WriteFrame(down, l, f, sclosed, cclosed)
               \/ down' \in WriteError(down, l, f, sclosed, cclosed, Cancelled(c))
            /\ UNCHANGED <<up, streamVars>>
        BY <2>5 DEF SWriteToLane
      <3> HIDE DEF l, f
      <3> QED
        BY <3>1, <3>2, WriteEffect DEF WireTypes
    <2>6. ASSUME NEW c \in Lanes, SWriteFin(c) PROVE WireTypes'
      <3>1. ssend[c].seq \in Nat
        BY DEF ServerTypes, ServerSenders
      <3> QED
        BY <1>2, <2>6, <3>1, FinEffect DEF SWriteFin, WireTypes
    <2>7. CASE ServerStops
      BY <1>0, <1>2, <2>7 DEF ServerStops
    <2>8. ASSUME NEW l \in Lanes, AddLane(l) \/ SReadEnds(l)
          PROVE  WireTypes'
      BY <1>0, <1>2, <2>8 DEF AddLane, SReadEnds
    <2>9. ASSUME NEW c \in Lanes, Forget(c) \/ CheckLanes(c) \/ AwaitLane(c) \/ Dial(c)
       \/ DialFails(c) \/ RunReturns(c) \/ ReceiveUp(c) \/ DeliverUp(c) \/ FinishUp(c)
       \/ ReadBackendChunk(c) \/ ReadBackendEnds(c) \/ SnapshotLanes(c) \/ RetryWrite(c)
       \/ BackendResets(c)
          PROVE  WireTypes'
      BY <1>0, <1>2, <2>9 DEF Forget, CheckLanes, SetRun, AwaitLane, Dial, DialFails,
         RunReturns, ReceiveUp, DeliverUp, FinishUp, ReadBackendChunk, ReadBackendEnds,
         SnapshotLanes, RetryWrite, ReturnSend, BackendResets
    <2> QED
      BY <1>2, <2>1, <2>2, <2>3, <2>4, <2>5, <2>6, <2>7, <2>8, <2>9 DEF ServerNext
  <1>3. CASE WireNext /\ UNCHANGED <<clientVars, serverVars>>
    <2>1. ASSUME NEW l \in Lanes, BreakLane(l) PROVE WireTypes'
      BY <1>3, <2>1, FrameElements DEF BreakLane, WireTypes
    <2> QED
      BY <1>3, <2>1 DEF WireNext
  <1>4. CASE UNCHANGED vars
    BY <1>0, <1>4 DEF vars
  <1> QED
    BY <1>1, <1>2, <1>3, <1>4 DEF Next

\* The client's state keeps its types.
LEMMA ClientTypesStep ==
    ASSUME BondInv, [Next]_vars
    PROVE  ClientTypes'
  <1> USE DEF wireVars, streamVars, clientVars, openVars, serverVars, regVars, waitVars
  <1> USE DEF BondInv, TypeOK
  <1>0. ASSUME UNCHANGED <<clientVars>> PROVE ClientTypes'
    BY <1>0 DEF ClientTypes
  <1>1. CASE ClientNext /\ UNCHANGED serverVars
    <2>1. CASE OpenLane
      <3>1. cand \in Lanes /\ cand + 1 \in 1 .. NumLanes + 1
        BY <2>1, BondConstants DEF OpenLane, ClientTypes, Lanes
      <3>2. lanes' \in {lanes, Append(lanes, cand)} /\ cand' = cand + 1
        BY <2>1 DEF OpenLane
      <3>3. lanes \in Seq(Lanes) /\ Append(lanes, cand) \in Seq(Lanes)
        BY <3>1, LaneElements DEF ClientTypes
      <3>4. UNCHANGED <<chandler, dead, cctx, cread, csend, local>>
        BY <2>1 DEF OpenLane
      <3> QED
        BY <3>1, <3>2, <3>3, <3>4 DEF ClientTypes
    <2>2. CASE StartCopying
      <3>1. csend' \in ClientSenders
        BY <1>1, <2>2 DEF StartCopying, ClientTypes, ClientSenders
      <3>2. LaneSet \subseteq Lanes
        BY DEF ClientTypes, LaneSet
      <3> QED
        BY <1>1, <2>2, <3>1, <3>2 DEF StartCopying, ClientTypes
    <2>3. CASE ReadLocalChunk
      <3>1. csend' \in ClientSenders
        BY <1>1, <2>3 DEF ReadLocalChunk, ClientTypes, ClientSenders
      <3> QED
        BY <1>1, <2>3, <3>1 DEF ReadLocalChunk, ClientTypes, LaneSet
    <2>4. CASE ReadLocalEnds
      <3>1. csend' \in ClientSenders
        BY <1>1, <2>4 DEF ReadLocalEnds, ClientTypes, ClientSenders
      <3> QED
        BY <1>1, <2>4, <3>1 DEF ReadLocalEnds, ClientTypes, LaneSet
    <2>5. CASE WriteToLane
      <3>1. csend' \in ClientSenders
        <4> DEFINE tried == [csend EXCEPT !.laneIdx = (@ + 1) % Len(lanes), !.attempts = @ + 1]
        <4>1. csend \in ClientSenders /\ (csend.laneIdx + 1) % Len(lanes) \in Nat
          BY <2>5, ClientWrites DEF WriteToLane, ClientTypes
        <4>2. tried \in ClientSenders
          <5>1. \A m, n \in Nat : [csend EXCEPT !.laneIdx = m, !.attempts = n] \in ClientSenders
            BY <4>1 DEF ClientSenders
          <5>2. csend.attempts + 1 \in Nat
            BY <4>1 DEF ClientSenders
          <5> QED
            BY <4>1, <5>1, <5>2
        <4>3. /\ ClientSender("done", csend.seq) \in ClientSenders
              /\ ClientSender("done", csend.seq + 1) \in ClientSenders
          BY <4>1 DEF ClientSender, ClientSenders
        <4> HIDE DEF tried
        <4>4. [tried EXCEPT !.pc = "read", !.seq = @ + 1, !.attempts = 0] \in ClientSenders
          <5>1. \A n, z \in Nat : [tried EXCEPT !.pc = "read", !.seq = n, !.attempts = z] \in ClientSenders
            BY <4>2 DEF ClientSenders
          <5>2. tried.seq + 1 \in Nat
            BY <4>2 DEF ClientSenders
          <5> QED
            BY <5>1, <5>2
        <4> QED
          BY <2>5, <4>2, <4>3, <4>4 DEF WriteToLane, tried
      <3> QED
        BY <1>1, <2>5, <3>1, ClientWrites DEF WriteToLane, ClientTypes
    <2>6. CASE NoLiveLanes
      <3>1. csend' \in ClientSenders
        BY <1>1, <2>6 DEF NoLiveLanes, ClientSender, ClientTypes, ClientSenders
      <3> QED
        BY <1>1, <2>6, <3>1 DEF NoLiveLanes, ClientTypes, LaneSet
    <2>7. CASE WriteFin
      <3>1. csend' \in ClientSenders
        BY <1>1, <2>7 DEF WriteFin, ClientSender, ClientTypes, ClientSenders
      <3> QED
        BY <1>1, <2>7, <3>1 DEF WriteFin, ClientTypes, LaneSet
    <2>8. CASE ReceiveDown
      BY <1>1, <2>8 DEF ReceiveDown, ReturnDownload, ClientTypes
    <2>9. CASE DeliverDown
      BY <1>1, <2>9 DEF DeliverDown, ReturnDownload, ClientTypes
    <2>10. CASE FinishDown
      BY <1>1, <2>10 DEF FinishDown, ReturnDownload, ClientTypes
    <2>11. CASE CloseBonded
      BY <1>1, <2>11 DEF CloseBonded, ClientTypes
    <2>12. CASE ClientStops
      BY <1>1, <2>12 DEF ClientStops, ClientTypes
    <2>13. CASE LocalResets
      BY <1>1, <2>13 DEF LocalResets, ClientTypes
    <2>14. ASSUME NEW l \in Lanes, ReadLaneFrame(l) PROVE ClientTypes'
      BY <1>1, <2>14 DEF ReadLaneFrame, ClientTypes
    <2>15. ASSUME NEW l \in Lanes, ReadLaneEnds(l) PROVE ClientTypes'
      BY <1>1, <2>15 DEF ReadLaneEnds, ClientTypes
    <2> QED
      BY <1>1, <2>1, <2>2, <2>3, <2>4, <2>5, <2>6, <2>7, <2>8, <2>9, <2>10, <2>11,
         <2>12, <2>13, <2>14, <2>15 DEF ClientNext
  <1>2. CASE ServerNext /\ UNCHANGED clientVars
    <2>1. CASE ServerStops
      BY <1>0, <1>2, <2>1 DEF ServerStops
    <2>2. ASSUME NEW l \in Lanes, GetConn(l) \/ HelloFails(l) \/ AddLane(l) \/
       HandlerReturns(l) \/ SReadFrame(l) \/ SReadEnds(l)
          PROVE  ClientTypes'
      BY <1>0, <1>2, <2>2 DEF GetConn, HelloFails, AddLane, HandlerReturns, SReadFrame,
         SReadEnds
    <2>3. ASSUME NEW c \in Lanes, Forget(c) \/ CheckLanes(c) \/ AwaitLane(c) \/ Dial(c)
       \/ DialFails(c) \/ RunReturns(c) \/ ReceiveUp(c) \/ DeliverUp(c) \/ FinishUp(c)
       \/ ReadBackendChunk(c) \/ ReadBackendEnds(c) \/ SnapshotLanes(c) \/
       SWriteToLane(c) \/ RetryWrite(c) \/ SWriteFin(c) \/ BackendResets(c)
          PROVE  ClientTypes'
      BY <1>0, <1>2, <2>3 DEF Forget, CheckLanes, SetRun, AwaitLane, Dial, DialFails,
         RunReturns, ReceiveUp, DeliverUp, FinishUp, ReadBackendChunk, ReadBackendEnds,
         SnapshotLanes, SWriteToLane, ReturnSend, RetryWrite, SWriteFin, BackendResets
    <2> QED
      BY <1>2, <2>1, <2>2, <2>3 DEF ServerNext
  <1>3. CASE WireNext /\ UNCHANGED <<clientVars, serverVars>>
    BY <1>0, <1>3 DEF WireNext, BreakLane
  <1>4. CASE UNCHANGED vars
    BY <1>0, <1>4 DEF vars
  <1> QED
    BY <1>1, <1>2, <1>3, <1>4 DEF Next

\* The server's state keeps its types.
LEMMA ServerTypesStep ==
    ASSUME BondInv, [Next]_vars
    PROVE  ServerTypes'
  <1> USE DEF wireVars, streamVars, clientVars, openVars, serverVars, regVars, waitVars
  <1> USE DEF BondInv, TypeOK
  <1>0. ASSUME UNCHANGED <<serverVars>> PROVE ServerTypes'
    BY <1>0 DEF ServerTypes
  <1>1. CASE ClientNext /\ UNCHANGED serverVars
    <2>1. CASE OpenLane \/ StartCopying \/ ReadLocalChunk \/ ReadLocalEnds \/
       WriteToLane \/ NoLiveLanes \/ WriteFin \/ ReceiveDown \/ DeliverDown \/
       FinishDown \/ CloseBonded \/ ClientStops \/ LocalResets
      BY <1>0, <1>1, <2>1 DEF OpenLane, StartCopying, ReadLocalChunk, ReadLocalEnds,
         WriteToLane, NoLiveLanes, WriteFin, ReceiveDown, ReturnDownload, DeliverDown,
         FinishDown, CloseBonded, ClientStops, LocalResets
    <2>2. ASSUME NEW l \in Lanes, ReadLaneFrame(l) \/ ReadLaneEnds(l)
          PROVE  ServerTypes'
      BY <1>0, <1>1, <2>2 DEF ReadLaneFrame, ReadLaneEnds
    <2> QED
      BY <1>1, <2>1, <2>2 DEF ClientNext
  <1>2. CASE ServerNext /\ UNCHANGED clientVars
    <2>1. ASSUME NEW l \in Lanes, GetConn(l) PROVE ServerTypes'
      BY <1>2, <2>1 DEF GetConn, ServerTypes
    <2>2. ASSUME NEW l \in Lanes, HelloFails(l) PROVE ServerTypes'
      BY <1>2, <2>2 DEF HelloFails, ServerTypes
    <2>3. ASSUME NEW l \in Lanes, AddLane(l) PROVE ServerTypes'
      <3>1. connOf[l] \in Lanes /\ NumLanes \in Nat
        BY <2>3, BondConstants DEF AddLane, ServerTypes, ConnKnown
      <3> QED
        BY <1>2, <2>3, <3>1, LaneElements DEF AddLane, ServerTypes
    <2>4. ASSUME NEW l \in Lanes, HandlerReturns(l) PROVE ServerTypes'
      BY <1>2, <2>4 DEF HandlerReturns, ServerTypes
    <2>5. ASSUME NEW l \in Lanes, SReadFrame(l) PROVE ServerTypes'
      BY <1>2, <2>5 DEF SReadFrame, ServerTypes
    <2>6. ASSUME NEW l \in Lanes, SReadEnds(l) PROVE ServerTypes'
      <3>1. connOf[l] \in Lanes /\ RemoveLane(connOf[l], l) \in Seq(Lanes)
        BY <2>6, RemoveLaneEffect DEF SReadEnds, ServerTypes, ConnKnown
      <3> QED
        BY <1>2, <2>6, <3>1 DEF SReadEnds, ServerTypes
    <2>7. ASSUME NEW c \in Lanes, Forget(c) PROVE ServerTypes'
      BY <1>2, <2>7 DEF Forget, ServerTypes
    <2>8. ASSUME NEW c \in Lanes, CheckLanes(c) PROVE ServerTypes'
      BY <1>2, <2>8 DEF CheckLanes, SetRun, ServerTypes
    <2>9. ASSUME NEW c \in Lanes, AwaitLane(c) PROVE ServerTypes'
      BY <1>2, <2>9 DEF AwaitLane, SetRun, ServerTypes
    <2>10. ASSUME NEW c \in Lanes, Dial(c) PROVE ServerTypes'
      <3>1. ssend' \in [Lanes -> ServerSenders]
        <4>1. ssend \in [Lanes -> ServerSenders] /\ ssend[c] \in ServerSenders
          BY DEF ServerTypes
        <4> QED
          BY <2>10, <4>1 DEF Dial, SetRun, ServerSenders
      <3> QED
        BY <1>2, <2>10, <3>1 DEF Dial, SetRun, ServerTypes
    <2>11. ASSUME NEW c \in Lanes, DialFails(c) PROVE ServerTypes'
      BY <1>2, <2>11 DEF DialFails, SetRun, ServerTypes
    <2>12. ASSUME NEW c \in Lanes, RunReturns(c) PROVE ServerTypes'
      BY <1>2, <2>12 DEF RunReturns, SetRun, ServerTypes
    <2>13. ASSUME NEW c \in Lanes, ReceiveUp(c) PROVE ServerTypes'
      BY <1>2, <2>13 DEF ReceiveUp, ServerTypes
    <2>14. ASSUME NEW c \in Lanes, DeliverUp(c) PROVE ServerTypes'
      BY <1>2, <2>14 DEF DeliverUp, ServerTypes
    <2>15. ASSUME NEW c \in Lanes, FinishUp(c) PROVE ServerTypes'
      BY <1>2, <2>15 DEF FinishUp, ServerTypes
    <2>16. ASSUME NEW c \in Lanes, ReadBackendChunk(c) PROVE ServerTypes'
      <3>1. ssend' \in [Lanes -> ServerSenders]
        <4>1. ssend \in [Lanes -> ServerSenders] /\ ssend[c] \in ServerSenders
          BY DEF ServerTypes
        <4> QED
          BY <2>16, <4>1 DEF ReadBackendChunk, ServerSenders
      <3> QED
        BY <1>2, <2>16, <3>1 DEF ReadBackendChunk, ServerTypes
    <2>17. ASSUME NEW c \in Lanes, ReadBackendEnds(c) PROVE ServerTypes'
      <3>1. ssend' \in [Lanes -> ServerSenders]
        <4>1. slanes[c] \in Seq(Lanes) /\ ssend \in [Lanes -> ServerSenders]
          BY DEF ServerTypes
        <4> QED
          BY <2>17, <4>1 DEF ReadBackendEnds, ServerSenders
      <3> QED
        BY <1>2, <2>17, <3>1 DEF ReadBackendEnds, ServerTypes
    <2>18. ASSUME NEW c \in Lanes, SnapshotLanes(c) PROVE ServerTypes'
      <3>1. ssend' \in [Lanes -> ServerSenders]
        <4>1. slanes[c] \in Seq(Lanes) /\ ssend \in [Lanes -> ServerSenders]
          BY DEF ServerTypes
        <4> QED
          BY <2>18, <4>1 DEF SnapshotLanes, ServerSenders
      <3> QED
        BY <1>2, <2>18, <3>1 DEF SnapshotLanes, ServerTypes
    <2>19. ASSUME NEW c \in Lanes, SWriteToLane(c) PROVE ServerTypes'
      <3> DEFINE s == ssend[c]
                 l == s.lanes[(s.laneIdx % Len(s.lanes)) + 1]
                 tried == [s EXCEPT !.laneIdx = @ + 1, !.attempts = @ + 1]
                 sent == [tried EXCEPT !.pc = "read", !.seq = @ + 1, !.attempts = 0, !.lanes = <<>>]
      <3>1. s \in ServerSenders
        BY DEF ServerTypes
      <3>2. /\ tried \in ServerSenders /\ sent \in ServerSenders
            /\ ServerSender("done", s.seq) \in ServerSenders
            /\ ServerSender("done", sent.seq) \in ServerSenders
        <4>1. tried \in ServerSenders
          <5>1. \A m, n \in Nat : [s EXCEPT !.laneIdx = m, !.attempts = n] \in ServerSenders
            BY <3>1 DEF ServerSenders
          <5>2. s.laneIdx + 1 \in Nat /\ s.attempts + 1 \in Nat
            BY <3>1 DEF ServerSenders
          <5> QED
            BY <5>1, <5>2
        <4> HIDE DEF tried
        <4>2. sent \in ServerSenders
          <5>1. \A n, z \in Nat, e \in Seq(Lanes) :
                   [tried EXCEPT !.pc = "read", !.seq = n, !.attempts = z, !.lanes = e] \in ServerSenders
            BY <4>1 DEF ServerSenders
          <5>2. tried.seq + 1 \in Nat /\ << >> \in Seq(Lanes)
            BY <4>1 DEF ServerSenders
          <5> QED
            BY <5>1, <5>2
        <4> HIDE DEF s, sent
        <4>3. ASSUME NEW n \in Nat PROVE ServerSender("done", n) \in ServerSenders
          BY DEF ServerSender, ServerSenders
        <4>4. s.seq \in Nat /\ sent.seq \in Nat
          BY <3>1, <4>2 DEF ServerSenders
        <4> QED
          BY <4>1, <4>2, <4>3, <4>4
      <3>3. RemoveLane(c, l) \in Seq(Lanes)
        BY RemoveLaneEffect
      <3> HIDE DEF s, l
      <3>4. /\ \E x \in ServerSenders : ssend' = [ssend EXCEPT ![c] = x]
            /\ sctx' \in {sctx, sctx \cup {c}}
            /\ slanes' \in {slanes, [slanes EXCEPT ![c] = RemoveLane(c, l)]}
            /\ UNCHANGED <<regVars, waitVars, run, sread, backend, lifetime>>
        <4>1. \/ ssend' = [ssend EXCEPT ![c] = ServerSender("done", sent.seq)]
              \/ ssend' = [ssend EXCEPT ![c] = sent]
              \/ ssend' = [ssend EXCEPT ![c] = ServerSender("done", s.seq)]
              \/ ssend' = [ssend EXCEPT ![c] = tried]
          BY <2>19 DEF SWriteToLane, ReturnSend, s, l
        <4>2. \E x \in ServerSenders : ssend' = [ssend EXCEPT ![c] = x]
          <5> HIDE DEF tried, sent
          <5> QED
            BY <3>2, <4>1
        <4>3. sctx' \in {sctx, sctx \cup {c}}
          BY <2>19 DEF SWriteToLane, ReturnSend
        <4>4. slanes' \in {slanes, [slanes EXCEPT ![c] = RemoveLane(c, l)]}
          BY <2>19 DEF SWriteToLane, s, l
        <4>5. UNCHANGED <<regVars, waitVars, run, sread, backend, lifetime>>
          BY <2>19 DEF SWriteToLane
        <4> QED
          BY <4>2, <4>3, <4>4, <4>5
      <3>5. slanes' \in [Lanes -> Seq(Lanes)] /\ sctx' \subseteq Lanes
        <4>1. slanes \in [Lanes -> Seq(Lanes)] /\ sctx \subseteq Lanes
          BY DEF ServerTypes
        <4>2. [slanes EXCEPT ![c] = RemoveLane(c, l)] \in [Lanes -> Seq(Lanes)]
          BY <3>3, <4>1
        <4> QED
          BY <3>4, <4>1, <4>2
      <3>6. ssend' \in [Lanes -> ServerSenders]
        BY <3>4 DEF ServerTypes
      <3> QED
        BY <3>4, <3>5, <3>6 DEF ServerTypes
    <2>20. ASSUME NEW c \in Lanes, RetryWrite(c) PROVE ServerTypes'
      <3>1. ssend[c] \in ServerSenders
        BY DEF ServerTypes
      <3>2. /\ [ssend[c] EXCEPT !.pc = "snapshot", !.attempts = 0, !.lanes = <<>>] \in ServerSenders
            /\ ServerSender("done", ssend[c].seq) \in ServerSenders
        <4>1. << >> \in Seq(Lanes)
          OBVIOUS
        <4>2. [ssend[c] EXCEPT !.pc = "snapshot", !.attempts = 0, !.lanes = <<>>] \in ServerSenders
          BY <3>1, <4>1 DEF ServerSenders
        <4>3. ServerSender("done", ssend[c].seq) \in ServerSenders
          BY <3>1, <4>1 DEF ServerSender, ServerSenders
        <4> QED
          BY <4>2, <4>3
      <3>3. /\ \E x \in ServerSenders : ssend' = [ssend EXCEPT ![c] = x]
            /\ sctx' \in {sctx, sctx \cup {c}}
            /\ UNCHANGED <<regVars, slanes, waitVars, run, sread, backend, lifetime>>
        <4>1. \/ /\ ssend' = [ssend EXCEPT ![c] = ServerSender("done", ssend[c].seq)]
                 /\ sctx' = sctx \cup {c}
              \/ /\ ssend' = [ssend EXCEPT ![c] = [ssend[c] EXCEPT !.pc = "snapshot", !.attempts = 0,
                                                                 !.lanes = <<>>]]
                 /\ sctx' = sctx
          BY <2>20 DEF RetryWrite, ReturnSend
        <4>2. UNCHANGED <<regVars, slanes, waitVars, run, sread, backend, lifetime>>
          BY <2>20 DEF RetryWrite
        <4> QED
          BY <3>2, <4>1, <4>2
      <3> QED
        BY <3>3 DEF ServerTypes
    <2>21. ASSUME NEW c \in Lanes, SWriteFin(c) PROVE ServerTypes'
      <3>1. ssend' \in [Lanes -> ServerSenders]
        <4>1. ssend \in [Lanes -> ServerSenders] /\ ssend[c] \in ServerSenders
          BY DEF ServerTypes
        <4> QED
          BY <2>21, <4>1 DEF SWriteFin, ReturnSend, ServerSender, ServerSenders
      <3> QED
        BY <1>2, <2>21, <3>1 DEF SWriteFin, ReturnSend, ServerTypes
    <2>22. ASSUME NEW c \in Lanes, BackendResets(c) PROVE ServerTypes'
      BY <1>2, <2>22 DEF BackendResets, ServerTypes
    <2>23. CASE ServerStops
      BY <1>2, <2>23 DEF ServerStops, ServerTypes
    <2> QED
      BY <1>2, <2>1, <2>2, <2>3, <2>4, <2>5, <2>6, <2>7, <2>8, <2>9, <2>10, <2>11,
         <2>12, <2>13, <2>14, <2>15, <2>16, <2>17, <2>18, <2>19, <2>20, <2>21, <2>22,
         <2>23 DEF ServerNext
  <1>3. CASE WireNext /\ UNCHANGED <<clientVars, serverVars>>
    BY <1>0, <1>3 DEF WireNext, BreakLane
  <1>4. CASE UNCHANGED vars
    BY <1>0, <1>4 DEF vars
  <1> QED
    BY <1>1, <1>2, <1>3, <1>4 DEF Next

\* Only whole frames are queued.
LEMMA QueueTypesStep ==
    ASSUME BondInv, [Next]_vars
    PROVE  QueueTypes'
  <1> USE DEF wireVars, streamVars, clientVars, openVars, serverVars, regVars, waitVars
  <1> USE DEF BondInv, TypeOK
  <1>0. ASSUME UNCHANGED <<crecv, srecv>> PROVE QueueTypes'
    BY <1>0 DEF QueueTypes
  <1>1. CASE ClientNext /\ UNCHANGED serverVars
    <2>1. CASE ReceiveDown
      <3>1. crecv' = crecv \/ (crecv # << >> /\ crecv' = Tail(crecv))
        BY <2>1 DEF ReceiveDown
      <3> QED
        BY <1>1, <3>1, FrameElements DEF QueueTypes
    <2>2. ASSUME NEW l \in Lanes, ReadLaneFrame(l) PROVE QueueTypes'
      <3>1. Head(down[l]) \in Frames /\ Head(down[l]).typ \in Whole
        BY <2>2, FrameElements DEF ReadLaneFrame, WireTypes, HasFrame, Whole
      <3>2. crecv' = crecv \/ crecv' = Append(crecv, Head(down[l]))
        BY <2>2 DEF ReadLaneFrame
      <3>3. /\ Append(crecv, Head(down[l])) \in Seq(Frames)
            /\ \A f \in Elements(Append(crecv, Head(down[l]))) : f.typ \in Whole
        BY <3>1, FrameElements DEF QueueTypes
      <3> QED
        BY <1>1, <3>2, <3>3 DEF QueueTypes
    <2>3. CASE OpenLane \/ StartCopying \/ ReadLocalChunk \/ ReadLocalEnds \/
       WriteToLane \/ NoLiveLanes \/ WriteFin \/ DeliverDown \/ FinishDown \/
       CloseBonded \/ ClientStops \/ LocalResets
      BY <1>0, <1>1, <2>3 DEF OpenLane, StartCopying, ReadLocalChunk, ReadLocalEnds,
         WriteToLane, NoLiveLanes, WriteFin, DeliverDown, ReturnDownload, FinishDown,
         CloseBonded, ClientStops, LocalResets
    <2>4. ASSUME NEW l \in Lanes, ReadLaneEnds(l)
          PROVE  QueueTypes'
      BY <1>0, <1>1, <2>4 DEF ReadLaneEnds
    <2> QED
      BY <1>1, <2>1, <2>2, <2>3, <2>4 DEF ClientNext
  <1>2. CASE ServerNext /\ UNCHANGED clientVars
    <2>1. ASSUME NEW l \in Lanes, SReadFrame(l) PROVE QueueTypes'
      <3>1. Head(up[l]) \in Frames /\ Head(up[l]).typ \in Whole /\ connOf[l] \in Lanes
        BY <2>1, FrameElements DEF SReadFrame, WireTypes, ServerTypes, ConnKnown, HasFrame, Whole
      <3>2. \/ srecv' = srecv
            \/ srecv' = [srecv EXCEPT ![connOf[l]] = Append(@, Head(up[l]))]
        BY <2>1 DEF SReadFrame
      <3>3. /\ Append(srecv[connOf[l]], Head(up[l])) \in Seq(Frames)
            /\ \A f \in Elements(Append(srecv[connOf[l]], Head(up[l]))) : f.typ \in Whole
        BY <3>1, FrameElements DEF QueueTypes
      <3> QED
        BY <1>2, <3>1, <3>2, <3>3 DEF QueueTypes
    <2>2. ASSUME NEW c \in Lanes, ReceiveUp(c) PROVE QueueTypes'
      <3>1. \/ srecv' = srecv
            \/ srecv[c] # << >> /\ srecv' = [srecv EXCEPT ![c] = Tail(@)]
        BY <2>2 DEF ReceiveUp
      <3>2. srecv[c] # << >> => /\ Tail(srecv[c]) \in Seq(Frames)
                                /\ \A f \in Elements(Tail(srecv[c])) : f.typ \in Whole
        BY FrameElements DEF QueueTypes
      <3> QED
        BY <1>2, <3>1, <3>2 DEF QueueTypes
    <2>3. CASE ServerStops
      BY <1>0, <1>2, <2>3 DEF ServerStops
    <2>4. ASSUME NEW l \in Lanes, GetConn(l) \/ HelloFails(l) \/ AddLane(l) \/
       HandlerReturns(l) \/ SReadEnds(l)
          PROVE  QueueTypes'
      BY <1>0, <1>2, <2>4 DEF GetConn, HelloFails, AddLane, HandlerReturns, SReadEnds
    <2>5. ASSUME NEW c \in Lanes, Forget(c) \/ CheckLanes(c) \/ AwaitLane(c) \/ Dial(c)
       \/ DialFails(c) \/ RunReturns(c) \/ DeliverUp(c) \/ FinishUp(c) \/
       ReadBackendChunk(c) \/ ReadBackendEnds(c) \/ SnapshotLanes(c) \/ SWriteToLane(c)
       \/ RetryWrite(c) \/ SWriteFin(c) \/ BackendResets(c)
          PROVE  QueueTypes'
      BY <1>0, <1>2, <2>5 DEF Forget, CheckLanes, SetRun, AwaitLane, Dial, DialFails,
         RunReturns, DeliverUp, FinishUp, ReadBackendChunk, ReadBackendEnds,
         SnapshotLanes, SWriteToLane, ReturnSend, RetryWrite, SWriteFin, BackendResets
    <2> QED
      BY <1>2, <2>1, <2>2, <2>3, <2>4, <2>5 DEF ServerNext
  <1>3. CASE WireNext /\ UNCHANGED <<clientVars, serverVars>>
    BY <1>0, <1>3 DEF WireNext, BreakLane
  <1>4. CASE UNCHANGED vars
    BY <1>0, <1>4 DEF vars
  <1> QED
    BY <1>1, <1>2, <1>3, <1>4 DEF Next

\* The receivers keep their fields.
LEMMA ReceiverTypesStep ==
    ASSUME BondInv, [Next]_vars
    PROVE  ReceiverTypes'
  <1> USE DEF wireVars, streamVars, clientVars, openVars, serverVars, regVars, waitVars
  <1> USE DEF BondInv, TypeOK
  <1>0. ASSUME UNCHANGED <<crcv, srcv>> PROVE ReceiverTypes'
    BY <1>0 DEF ReceiverTypes
  <1>1. CASE ClientNext /\ UNCHANGED serverVars
    <2>1. CASE ReceiveDown
      BY <1>1, <2>1, FrameElements, TakeEffect, ReturnedEffect DEF ReceiveDown,
         ReturnDownload, ReceiverTypes, QueueTypes
    <2>2. CASE DeliverDown
      BY <1>1, <2>2, DeliverEffect, ReturnedEffect DEF DeliverDown, ReturnDownload,
         ReceiverTypes
    <2>3. CASE FinishDown
      BY <1>1, <2>3, ReturnedEffect DEF FinishDown, ReturnDownload, ReceiverTypes
    <2>4. CASE OpenLane \/ StartCopying \/ ReadLocalChunk \/ ReadLocalEnds \/
       WriteToLane \/ NoLiveLanes \/ WriteFin \/ CloseBonded \/ ClientStops \/
       LocalResets
      BY <1>0, <1>1, <2>4 DEF OpenLane, StartCopying, ReadLocalChunk, ReadLocalEnds,
         WriteToLane, NoLiveLanes, WriteFin, CloseBonded, ClientStops, LocalResets
    <2>5. ASSUME NEW l \in Lanes, ReadLaneFrame(l) \/ ReadLaneEnds(l)
          PROVE  ReceiverTypes'
      BY <1>0, <1>1, <2>5 DEF ReadLaneFrame, ReadLaneEnds
    <2> QED
      BY <1>1, <2>1, <2>2, <2>3, <2>4, <2>5 DEF ClientNext
  <1>2. CASE ServerNext /\ UNCHANGED clientVars
    <2>1. ASSUME NEW c \in Lanes, ReceiveUp(c) PROVE ReceiverTypes'
      <3>1. srecv[c] # << >> => Head(srecv[c]) \in Frames /\ Head(srecv[c]).typ \in Whole
        BY FrameElements DEF QueueTypes
      <3>2. IsReceiver(srcv[c]) /\ IsReceiver(Returned(srcv[c], "ended"))
        BY ReturnedEffect DEF ReceiverTypes
      <3>3. srecv[c] # << >> => IsReceiver(Take(srcv[c], Head(srecv[c])))
        BY <3>1, <3>2, TakeEffect
      <3> QED
        BY <1>2, <2>1, <3>2, <3>3 DEF ReceiveUp, ReceiverTypes
    <2>2. ASSUME NEW c \in Lanes, DeliverUp(c) PROVE ReceiverTypes'
      BY <1>2, <2>2, DeliverEffect, ReturnedEffect DEF DeliverUp, ReceiverTypes
    <2>3. ASSUME NEW c \in Lanes, FinishUp(c) PROVE ReceiverTypes'
      BY <1>2, <2>3, ReturnedEffect DEF FinishUp, ReceiverTypes
    <2>4. CASE ServerStops
      BY <1>0, <1>2, <2>4 DEF ServerStops
    <2>5. ASSUME NEW l \in Lanes, GetConn(l) \/ HelloFails(l) \/ AddLane(l) \/
       HandlerReturns(l) \/ SReadFrame(l) \/ SReadEnds(l)
          PROVE  ReceiverTypes'
      BY <1>0, <1>2, <2>5 DEF GetConn, HelloFails, AddLane, HandlerReturns, SReadFrame,
         SReadEnds
    <2>6. ASSUME NEW c \in Lanes, Forget(c) \/ CheckLanes(c) \/ AwaitLane(c) \/ Dial(c)
       \/ DialFails(c) \/ RunReturns(c) \/ ReadBackendChunk(c) \/ ReadBackendEnds(c) \/
       SnapshotLanes(c) \/ SWriteToLane(c) \/ RetryWrite(c) \/ SWriteFin(c) \/
       BackendResets(c)
          PROVE  ReceiverTypes'
      BY <1>0, <1>2, <2>6 DEF Forget, CheckLanes, SetRun, AwaitLane, Dial, DialFails,
         RunReturns, ReadBackendChunk, ReadBackendEnds, SnapshotLanes, SWriteToLane,
         ReturnSend, RetryWrite, SWriteFin, BackendResets
    <2> QED
      BY <1>2, <2>1, <2>2, <2>3, <2>4, <2>5, <2>6 DEF ServerNext
  <1>3. CASE WireNext /\ UNCHANGED <<clientVars, serverVars>>
    BY <1>0, <1>3 DEF WireNext, BreakLane
  <1>4. CASE UNCHANGED vars
    BY <1>0, <1>4 DEF vars
  <1> QED
    BY <1>1, <1>2, <1>3, <1>4 DEF Next

-----------------------------------------------------------------------------
(* What the steps do to the senders, the lanes and the queues.             *)

\* copyTCPToBond counts up, and is over once it has returned.
SourceHistory ==
    /\ csend'.seq >= csend.seq
    /\ csend.pc = "done" => csend' = csend

\* copyBackendToBond: conns stay created, and one that has returned stays as it is.
ConnHistory ==
    /\ \A l \in Lanes : connOf[l] # NoConn => connOf'[l] = connOf[l]
    /\ \A c \in Lanes : ssend[c].pc = "done" => ssend'[c] = ssend[c]

\* What is new on a lane, by what the sender did.
UpWritten ==
    \A l \in Lanes : \A f \in Elements(up'[l]) :
        \/ f \in Elements(up[l])
        \/ f.typ \in {"hello", "torn"}
        \/ f = DataFrame(csend.seq, Chunk(Local, csend.seq)) /\ csend'.seq = csend.seq + 1
        \/ f = FinFrame(csend.seq) /\ csend'.pc = "done" /\ csend'.seq = csend.seq

DownWritten ==
    \A l \in Lanes : \A f \in Elements(down'[l]) :
        \/ f \in Elements(down[l])
        \/ f.typ = "torn"
        \/ \E c \in Lanes :
              \/ f = DataFrame(ssend[c].seq, Chunk(c, ssend[c].seq))
              \/ f = FinFrame(ssend[c].seq) /\ ssend[c].pc = "fin"
                 /\ ssend'[c].pc = "done" /\ ssend'[c].seq = ssend[c].seq

\* What is new in a queue was on a lane.
QueueWritten ==
    /\ \A f \in Elements(crecv') : f \in Elements(crecv) \/ \E l \in Lanes : f \in Elements(down[l])
    /\ \A c \in Lanes : \A f \in Elements(srecv'[c]) :
          f \in Elements(srecv[c]) \/ \E l \in Lanes : f \in Elements(up[l])

\* One attempt of writeBondFrameToNextLane: the lane is skipped, written or given up.
LEMMA ClientAttempt ==
    ASSUME ClientTypes, ClientOrder, WriteToLane
    PROVE  LET l == lanes[csend.laneIdx + 1]
               f == DataFrame(csend.seq, Chunk(Local, csend.seq))
           IN  /\ csend.pc = "write" /\ l \in Lanes /\ l \in Elements(lanes) /\ f \in Frames
               /\ csend'.laneIdx < Len(lanes)
               /\ \/ /\ UNCHANGED <<dead, up>>
                     /\ csend'.pc = "write" /\ csend'.seq = csend.seq
                  \/ /\ l \notin dead /\ up' \in WriteFrame(up, l, f, cclosed, sclosed)
                     /\ UNCHANGED dead
                     /\ csend'.pc \in {"read", "done"} /\ csend'.seq = csend.seq + 1
                  \/ /\ l \notin dead /\ up' \in WriteError(up, l, f, cclosed, sclosed, cctx)
                     /\ dead' = dead \cup {l}
                     /\ csend'.pc \in {"write", "done"} /\ csend'.seq = csend.seq
  <1> DEFINE l == lanes[csend.laneIdx + 1]
             f == DataFrame(csend.seq, Chunk(Local, csend.seq))
             tried == [csend EXCEPT !.laneIdx = (@ + 1) % Len(lanes), !.attempts = @ + 1]
             next == [tried EXCEPT !.pc = "read", !.seq = @ + 1, !.attempts = 0]
  <1>1. csend.pc = "write" /\ csend.attempts < Len(lanes) /\ csend \in ClientSenders
    BY DEF WriteToLane, ClientTypes
  <1>2. /\ l \in Lanes /\ l \in Elements(lanes) /\ f \in Frames
        /\ (csend.laneIdx + 1) % Len(lanes) \in 0 .. Len(lanes) - 1
    BY <1>1, ClientWrites
  <1>3. /\ tried.pc = "write" /\ tried.seq = csend.seq
        /\ tried.laneIdx = (csend.laneIdx + 1) % Len(lanes)
        /\ DOMAIN tried = DOMAIN csend
    BY <1>1 DEF ClientSenders
  <1>4. DOMAIN csend = {"pc", "seq", "laneIdx", "attempts"}
    BY <1>1 DEF ClientSenders
  <1>5. next.pc = "read" /\ next.seq = csend.seq + 1 /\ next.laneIdx = tried.laneIdx
    <2> HIDE DEF tried
    <2> QED
      BY <1>3, <1>4
  <1>6. ASSUME NEW n
        PROVE  /\ ClientSender("done", n).pc = "done" /\ ClientSender("done", n).seq = n
               /\ ClientSender("done", n).laneIdx = 0
    BY DEF ClientSender
  <1>7. Len(lanes) \in Nat /\ Len(lanes) > 0
    BY <1>2 DEF ClientTypes
  <1> HIDE DEF l, f, tried, next
  <1>8. \/ csend' = tried /\ UNCHANGED <<dead, up>>
        \/ /\ l \notin dead /\ up' \in WriteFrame(up, l, f, cclosed, sclosed)
           /\ UNCHANGED dead
           /\ csend' = IF cctx THEN ClientSender("done", csend.seq + 1) ELSE next
        \/ /\ l \notin dead /\ up' \in WriteError(up, l, f, cclosed, sclosed, cctx)
           /\ dead' = dead \cup {l}
           /\ csend' = IF cctx THEN ClientSender("done", csend.seq) ELSE tried
    BY DEF WriteToLane, l, f, tried, next
  <1>9. csend'.laneIdx < Len(lanes)
    BY <1>2, <1>3, <1>5, <1>6, <1>7, <1>8
  <1>10. \/ /\ UNCHANGED <<dead, up>>
            /\ csend'.pc = "write" /\ csend'.seq = csend.seq
         \/ /\ l \notin dead /\ up' \in WriteFrame(up, l, f, cclosed, sclosed)
            /\ UNCHANGED dead
            /\ csend'.pc \in {"read", "done"} /\ csend'.seq = csend.seq + 1
         \/ /\ l \notin dead /\ up' \in WriteError(up, l, f, cclosed, sclosed, cctx)
            /\ dead' = dead \cup {l}
            /\ csend'.pc \in {"write", "done"} /\ csend'.seq = csend.seq
    BY <1>3, <1>5, <1>6, <1>8
  <1> QED
    BY <1>1, <1>2, <1>9, <1>10 DEF l, f

\* One attempt of writeToNextLane.
LEMMA ServerAttempt ==
    ASSUME ServerTypes, NEW c \in Lanes, SWriteToLane(c)
    PROVE  LET s == ssend[c]
               l == s.lanes[(s.laneIdx % Len(s.lanes)) + 1]
               f == DataFrame(s.seq, Chunk(c, s.seq))
           IN  /\ s.pc = "write" /\ l \in Lanes /\ l \in Elements(s.lanes) /\ f \in Frames
               /\ \A d \in Lanes \ {c} : ssend'[d] = ssend[d]
               /\ \/ /\ down' \in WriteFrame(down, l, f, sclosed, cclosed)
                     /\ UNCHANGED slanes
                     /\ ssend'[c].pc \in {"read", "done"} /\ ssend'[c].seq = s.seq + 1
                     /\ ssend'[c].lanes = << >>
                     /\ sctx' \in {sctx, sctx \cup {c}}
                     /\ sctx' = sctx \/ ssend'[c].pc = "done"
                  \/ /\ down' \in WriteError(down, l, f, sclosed, cclosed, Cancelled(c))
                     /\ slanes' = [slanes EXCEPT ![c] = RemoveLane(c, l)]
                     /\ ssend'[c].seq = s.seq
                     /\ \/ /\ ssend'[c].pc = "done" /\ sctx' = sctx \cup {c}
                           /\ ssend'[c].lanes = << >>
                        \/ /\ ssend'[c].pc = "write" /\ UNCHANGED sctx
                           /\ ssend'[c].lanes = s.lanes
                           /\ ssend'[c].laneIdx = s.laneIdx + 1
                           /\ ssend'[c].attempts = s.attempts + 1
  <1> DEFINE s == ssend[c]
             l == s.lanes[(s.laneIdx % Len(s.lanes)) + 1]
             f == DataFrame(s.seq, Chunk(c, s.seq))
             tried == [s EXCEPT !.laneIdx = @ + 1, !.attempts = @ + 1]
             sent == [tried EXCEPT !.pc = "read", !.seq = @ + 1, !.attempts = 0, !.lanes = <<>>]
  <1>1. s.pc = "write" /\ s.attempts < Len(s.lanes) /\ s \in ServerSenders /\ DOMAIN ssend = Lanes
    BY DEF SWriteToLane, ServerTypes
  <1>2. l \in Lanes /\ l \in Elements(s.lanes) /\ f \in Frames
    BY <1>1, ServerWrites
  <1>3. /\ tried.pc = "write" /\ tried.seq = s.seq /\ tried.lanes = s.lanes
        /\ tried.laneIdx = s.laneIdx + 1 /\ tried.attempts = s.attempts + 1
        /\ DOMAIN tried = {"pc", "seq", "laneIdx", "attempts", "lanes"}
    <2> HIDE DEF s
    <2> QED
      BY <1>1 DEF ServerSenders
  <1>4. sent.pc = "read" /\ sent.seq = s.seq + 1 /\ sent.lanes = << >>
    <2> HIDE DEF tried
    <2> QED
      BY <1>3
  <1>5. ASSUME NEW n
        PROVE  /\ ServerSender("done", n).pc = "done" /\ ServerSender("done", n).seq = n
               /\ ServerSender("done", n).lanes = << >>
    BY DEF ServerSender
  <1> HIDE DEF s, l, f, tried, sent
  <1>6. \/ /\ down' \in WriteFrame(down, l, f, sclosed, cclosed)
           /\ UNCHANGED slanes
           /\ \/ /\ ssend' = [ssend EXCEPT ![c] = ServerSender("done", sent.seq)]
                 /\ sctx' = sctx \cup {c}
              \/ ssend' = [ssend EXCEPT ![c] = sent] /\ UNCHANGED sctx
        \/ /\ down' \in WriteError(down, l, f, sclosed, cclosed, Cancelled(c))
           /\ slanes' = [slanes EXCEPT ![c] = RemoveLane(c, l)]
           /\ \/ /\ ssend' = [ssend EXCEPT ![c] = ServerSender("done", s.seq)]
                 /\ sctx' = sctx \cup {c}
              \/ ssend' = [ssend EXCEPT ![c] = tried] /\ UNCHANGED sctx
    BY DEF SWriteToLane, ReturnSend, s, l, f, tried, sent
  <1>7. \A d \in Lanes \ {c} : ssend'[d] = ssend[d]
    BY <1>1, <1>6
  <1>8. ASSUME NEW x, ssend' = [ssend EXCEPT ![c] = x] PROVE ssend'[c] = x
    BY <1>1, <1>8
  <1>9. \/ /\ down' \in WriteFrame(down, l, f, sclosed, cclosed)
           /\ UNCHANGED slanes
           /\ ssend'[c].pc \in {"read", "done"} /\ ssend'[c].seq = s.seq + 1
           /\ ssend'[c].lanes = << >>
           /\ sctx' \in {sctx, sctx \cup {c}}
           /\ sctx' = sctx \/ ssend'[c].pc = "done"
        \/ /\ down' \in WriteError(down, l, f, sclosed, cclosed, Cancelled(c))
           /\ slanes' = [slanes EXCEPT ![c] = RemoveLane(c, l)]
           /\ ssend'[c].seq = s.seq
           /\ \/ /\ ssend'[c].pc = "done" /\ sctx' = sctx \cup {c}
                 /\ ssend'[c].lanes = << >>
              \/ /\ ssend'[c].pc = "write" /\ UNCHANGED sctx
                 /\ ssend'[c].lanes = s.lanes
                 /\ ssend'[c].laneIdx = s.laneIdx + 1
                 /\ ssend'[c].attempts = s.attempts + 1
    <2>1. CASE /\ down' \in WriteFrame(down, l, f, sclosed, cclosed) /\ UNCHANGED slanes
               /\ ssend' = [ssend EXCEPT ![c] = ServerSender("done", sent.seq)]
               /\ sctx' = sctx \cup {c}
      BY <1>4, <1>5, <1>8, <2>1
    <2>2. CASE /\ down' \in WriteFrame(down, l, f, sclosed, cclosed) /\ UNCHANGED slanes
               /\ ssend' = [ssend EXCEPT ![c] = sent] /\ UNCHANGED sctx
      BY <1>4, <1>8, <2>2
    <2>3. CASE /\ down' \in WriteError(down, l, f, sclosed, cclosed, Cancelled(c))
               /\ slanes' = [slanes EXCEPT ![c] = RemoveLane(c, l)]
               /\ ssend' = [ssend EXCEPT ![c] = ServerSender("done", s.seq)]
               /\ sctx' = sctx \cup {c}
      BY <1>5, <1>8, <2>3
    <2>4. CASE /\ down' \in WriteError(down, l, f, sclosed, cclosed, Cancelled(c))
               /\ slanes' = [slanes EXCEPT ![c] = RemoveLane(c, l)]
               /\ ssend' = [ssend EXCEPT ![c] = tried] /\ UNCHANGED sctx
      BY <1>3, <1>8, <2>4
    <2> QED
      BY <1>6, <2>1, <2>2, <2>3, <2>4
  <1> QED
    BY <1>1, <1>2, <1>7, <1>9 DEF s, l, f

\* The other steps of copyBackendToBond, field by field.
LEMMA ServerSenderStep ==
    ASSUME ServerTypes, NEW c \in Lanes
    PROVE  /\ Dial(c) \/ ReadBackendChunk(c) =>
                 /\ \A d \in Lanes \ {c} : ssend'[d] = ssend[d]
                 /\ ssend'[c].seq = ssend[c].seq /\ ssend'[c].lanes = ssend[c].lanes
                 /\ Dial(c) => ssend'[c].pc = "read"
                 /\ ReadBackendChunk(c) => ssend[c].pc = "read" /\ ssend'[c].pc = "snapshot"
           /\ ReadBackendEnds(c) \/ SnapshotLanes(c) =>
                 /\ \A d \in Lanes \ {c} : ssend'[d] = ssend[d]
                 /\ ssend'[c].seq = ssend[c].seq /\ ssend'[c].lanes = slanes[c]
                 /\ ReadBackendEnds(c) => ssend[c].pc = "read" /\ ssend'[c].pc = "fin"
                 /\ SnapshotLanes(c) => ssend[c].pc = "snapshot" /\ ssend'[c].pc = "write"
           /\ RetryWrite(c) \/ SWriteFin(c) =>
                 /\ \A d \in Lanes \ {c} : ssend'[d] = ssend[d]
                 /\ ssend'[c].seq = ssend[c].seq /\ ssend'[c].lanes = << >>
                 /\ RetryWrite(c) => /\ ssend[c].pc = "write"
                                     /\ ssend'[c].pc \in {"snapshot", "done"}
                 /\ SWriteFin(c) => ssend[c].pc = "fin" /\ ssend'[c].pc = "done"
                 /\ sctx' = sctx \/ (ssend'[c].pc = "done" /\ sctx' = sctx \cup {c})
  <1>1. ssend \in [Lanes -> ServerSenders] /\ ssend[c] \in ServerSenders
    BY DEF ServerTypes
  <1>2. ASSUME Dial(c) \/ ReadBackendChunk(c)
        PROVE  /\ \A d \in Lanes \ {c} : ssend'[d] = ssend[d]
               /\ ssend'[c].seq = ssend[c].seq /\ ssend'[c].lanes = ssend[c].lanes
               /\ Dial(c) => ssend'[c].pc = "read"
               /\ ReadBackendChunk(c) => ssend[c].pc = "read" /\ ssend'[c].pc = "snapshot"
    BY <1>1, <1>2 DEF Dial, ReadBackendChunk, ServerSenders
  <1>3. ASSUME ReadBackendEnds(c) \/ SnapshotLanes(c)
        PROVE  /\ \A d \in Lanes \ {c} : ssend'[d] = ssend[d]
               /\ ssend'[c].seq = ssend[c].seq /\ ssend'[c].lanes = slanes[c]
               /\ ReadBackendEnds(c) => ssend[c].pc = "read" /\ ssend'[c].pc = "fin"
               /\ SnapshotLanes(c) => ssend[c].pc = "snapshot" /\ ssend'[c].pc = "write"
    <2>1. ASSUME NEW p, ssend' = [ssend EXCEPT ![c].pc = p, ![c].lanes = slanes[c]]
          PROVE  /\ \A d \in Lanes \ {c} : ssend'[d] = ssend[d]
                 /\ ssend'[c].seq = ssend[c].seq /\ ssend'[c].lanes = slanes[c]
                 /\ ssend'[c].pc = p
      BY <1>1, <2>1 DEF ServerSenders
    <2> QED
      BY <1>3, <2>1 DEF ReadBackendEnds, SnapshotLanes
  <1>4. ASSUME RetryWrite(c) \/ SWriteFin(c)
        PROVE  /\ \A d \in Lanes \ {c} : ssend'[d] = ssend[d]
               /\ ssend'[c].seq = ssend[c].seq /\ ssend'[c].lanes = << >>
               /\ RetryWrite(c) => ssend[c].pc = "write" /\ ssend'[c].pc \in {"snapshot", "done"}
               /\ SWriteFin(c) => ssend[c].pc = "fin" /\ ssend'[c].pc = "done"
               /\ sctx' = sctx \/ (ssend'[c].pc = "done" /\ sctx' = sctx \cup {c})
    BY <1>1, <1>4 DEF RetryWrite, SWriteFin, ReturnSend, ServerSender, ServerSenders
  <1> QED
    BY <1>2, <1>3, <1>4

\* Every step respects the history of the upload's source.
LEMMA SourceStep ==
    ASSUME BondInv, [Next]_vars
    PROVE  SourceHistory
  <1> USE DEF wireVars, streamVars, clientVars, openVars, serverVars, regVars, waitVars
  <1> USE DEF BondInv, TypeOK
  <1>0. ASSUME UNCHANGED <<csend>> PROVE SourceHistory
    BY <1>0 DEF SourceHistory, ClientTypes, ClientSenders
  <1>1. CASE ClientNext /\ UNCHANGED serverVars
    <2>1. CASE StartCopying
      BY <1>1, <2>1 DEF StartCopying, SourceHistory, ClientTypes, ClientSenders,
         ClientOrder
    <2>2. CASE ReadLocalChunk
      BY <1>1, <2>2 DEF ReadLocalChunk, SourceHistory, ClientTypes, ClientSenders
    <2>3. CASE ReadLocalEnds
      <3>1. csend.seq \in Nat /\ csend'.seq = csend.seq /\ csend.pc = "read"
        BY <2>3 DEF ReadLocalEnds, ClientTypes, ClientSenders
      <3> QED
        BY <3>1 DEF SourceHistory
    <2>4. CASE WriteToLane
      <3>1. csend.seq \in Nat
        BY DEF ClientTypes, ClientSenders
      <3> QED
        BY <2>4, <3>1, ClientAttempt DEF SourceHistory
    <2>5. CASE NoLiveLanes
      BY <1>1, <2>5 DEF NoLiveLanes, SourceHistory, ClientSender, ClientTypes,
         ClientSenders
    <2>6. CASE WriteFin
      BY <1>1, <2>6 DEF WriteFin, SourceHistory, ClientSender, ClientTypes,
         ClientSenders
    <2>7. CASE OpenLane \/ ReceiveDown \/ DeliverDown \/ FinishDown \/ CloseBonded \/
       ClientStops \/ LocalResets
      BY <1>0, <1>1, <2>7 DEF OpenLane, ReceiveDown, ReturnDownload, DeliverDown,
         FinishDown, CloseBonded, ClientStops, LocalResets
    <2>8. ASSUME NEW l \in Lanes, ReadLaneFrame(l) \/ ReadLaneEnds(l)
          PROVE  SourceHistory
      BY <1>0, <1>1, <2>8 DEF ReadLaneFrame, ReadLaneEnds
    <2> QED
      BY <1>1, <2>1, <2>2, <2>3, <2>4, <2>5, <2>6, <2>7, <2>8 DEF ClientNext
  <1>2. CASE ServerNext /\ UNCHANGED clientVars
    <2>1. CASE ServerStops
      BY <1>0, <1>2, <2>1 DEF ServerStops
    <2>2. ASSUME NEW l \in Lanes, GetConn(l) \/ HelloFails(l) \/ AddLane(l) \/
       HandlerReturns(l) \/ SReadFrame(l) \/ SReadEnds(l)
          PROVE  SourceHistory
      BY <1>0, <1>2, <2>2 DEF GetConn, HelloFails, AddLane, HandlerReturns, SReadFrame,
         SReadEnds
    <2>3. ASSUME NEW c \in Lanes, Forget(c) \/ CheckLanes(c) \/ AwaitLane(c) \/ Dial(c)
       \/ DialFails(c) \/ RunReturns(c) \/ ReceiveUp(c) \/ DeliverUp(c) \/ FinishUp(c)
       \/ ReadBackendChunk(c) \/ ReadBackendEnds(c) \/ SnapshotLanes(c) \/
       SWriteToLane(c) \/ RetryWrite(c) \/ SWriteFin(c) \/ BackendResets(c)
          PROVE  SourceHistory
      BY <1>0, <1>2, <2>3 DEF Forget, CheckLanes, SetRun, AwaitLane, Dial, DialFails,
         RunReturns, ReceiveUp, DeliverUp, FinishUp, ReadBackendChunk, ReadBackendEnds,
         SnapshotLanes, SWriteToLane, ReturnSend, RetryWrite, SWriteFin, BackendResets
    <2> QED
      BY <1>2, <2>1, <2>2, <2>3 DEF ServerNext
  <1>3. CASE WireNext /\ UNCHANGED <<clientVars, serverVars>>
    BY <1>0, <1>3 DEF WireNext, BreakLane
  <1>4. CASE UNCHANGED vars
    BY <1>0, <1>4 DEF vars
  <1> QED
    BY <1>1, <1>2, <1>3, <1>4 DEF Next

\* Every step respects the history of the conns.
LEMMA ConnHistoryStep ==
    ASSUME BondInv, [Next]_vars
    PROVE  ConnHistory
  <1> USE DEF wireVars, streamVars, clientVars, openVars, serverVars, regVars, waitVars
  <1> USE DEF BondInv, TypeOK
  <1>0. ASSUME UNCHANGED <<connOf, ssend>> PROVE ConnHistory
    BY <1>0 DEF ConnHistory, ServerTypes
  <1>1. CASE ClientNext /\ UNCHANGED serverVars
    <2>1. CASE OpenLane \/ StartCopying \/ ReadLocalChunk \/ ReadLocalEnds \/
       WriteToLane \/ NoLiveLanes \/ WriteFin \/ ReceiveDown \/ DeliverDown \/
       FinishDown \/ CloseBonded \/ ClientStops \/ LocalResets
      BY <1>0, <1>1, <2>1 DEF OpenLane, StartCopying, ReadLocalChunk, ReadLocalEnds,
         WriteToLane, NoLiveLanes, WriteFin, ReceiveDown, ReturnDownload, DeliverDown,
         FinishDown, CloseBonded, ClientStops, LocalResets
    <2>2. ASSUME NEW l \in Lanes, ReadLaneFrame(l) \/ ReadLaneEnds(l)
          PROVE  ConnHistory
      BY <1>0, <1>1, <2>2 DEF ReadLaneFrame, ReadLaneEnds
    <2> QED
      BY <1>1, <2>1, <2>2 DEF ClientNext
  <1>2. CASE ServerNext /\ UNCHANGED clientVars
    <2>1. ASSUME NEW l \in Lanes, GetConn(l) PROVE ConnHistory
      BY <1>2, <2>1 DEF GetConn, ConnHistory, ServerTypes, ConnKnown
    <2>2. ASSUME NEW c \in Lanes, Dial(c) PROVE ConnHistory
      BY <1>2, <2>2, ServerSenderStep DEF Dial, SetRun, ConnHistory, ConnKnown
    <2>3. ASSUME NEW c \in Lanes, ReadBackendChunk(c) PROVE ConnHistory
      BY <1>2, <2>3, ServerSenderStep DEF ReadBackendChunk, ConnHistory
    <2>4. ASSUME NEW c \in Lanes, ReadBackendEnds(c) PROVE ConnHistory
      BY <1>2, <2>4, ServerSenderStep DEF ReadBackendEnds, ConnHistory
    <2>5. ASSUME NEW c \in Lanes, SnapshotLanes(c) PROVE ConnHistory
      BY <1>2, <2>5, ServerSenderStep DEF SnapshotLanes, ConnHistory
    <2>6. ASSUME NEW c \in Lanes, SWriteToLane(c) PROVE ConnHistory
      BY <1>2, <2>6, ServerAttempt DEF SWriteToLane, ReturnSend, ConnHistory
    <2>7. ASSUME NEW c \in Lanes, RetryWrite(c) PROVE ConnHistory
      BY <1>2, <2>7, ServerSenderStep DEF RetryWrite, ReturnSend, ConnHistory
    <2>8. ASSUME NEW c \in Lanes, SWriteFin(c) PROVE ConnHistory
      BY <1>2, <2>8, ServerSenderStep DEF SWriteFin, ReturnSend, ConnHistory
    <2>9. CASE ServerStops
      BY <1>0, <1>2, <2>9 DEF ServerStops
    <2>10. ASSUME NEW l \in Lanes, HelloFails(l) \/ AddLane(l) \/ HandlerReturns(l) \/
       SReadFrame(l) \/ SReadEnds(l)
          PROVE  ConnHistory
      BY <1>0, <1>2, <2>10 DEF HelloFails, AddLane, HandlerReturns, SReadFrame,
         SReadEnds
    <2>11. ASSUME NEW c \in Lanes, Forget(c) \/ CheckLanes(c) \/ AwaitLane(c) \/
       DialFails(c) \/ RunReturns(c) \/ ReceiveUp(c) \/ DeliverUp(c) \/ FinishUp(c) \/
       BackendResets(c)
          PROVE  ConnHistory
      BY <1>0, <1>2, <2>11 DEF Forget, CheckLanes, SetRun, AwaitLane, DialFails,
         RunReturns, ReceiveUp, DeliverUp, FinishUp, BackendResets
    <2> QED
      BY <1>2, <2>1, <2>2, <2>3, <2>4, <2>5, <2>6, <2>7, <2>8, <2>9, <2>10, <2>11 DEF
         ServerNext
  <1>3. CASE WireNext /\ UNCHANGED <<clientVars, serverVars>>
    BY <1>0, <1>3 DEF WireNext, BreakLane
  <1>4. CASE UNCHANGED vars
    BY <1>0, <1>4 DEF vars
  <1> QED
    BY <1>1, <1>2, <1>3, <1>4 DEF Next

\* Only copyTCPToBond and the opening loop write towards the server.
LEMMA UpWrittenStep ==
    ASSUME BondInv, [Next]_vars
    PROVE  UpWritten
  <1> USE DEF wireVars, streamVars, clientVars, openVars, serverVars, regVars, waitVars
  <1> USE DEF BondInv, TypeOK
  <1>0. ASSUME UNCHANGED <<up>> PROVE UpWritten
    BY <1>0 DEF UpWritten
  <1>1. CASE ClientNext /\ UNCHANGED serverVars
    <2>1. CASE OpenLane
      <3>1. cand \in Lanes /\ HelloFrame \in Frames /\ HelloFrame.typ = "hello"
        BY <2>1, BondConstants DEF OpenLane, ClientTypes, Lanes, HelloFrame, Frames
      <3>2. up' = up \/ up' = Carried(up, cand, HelloFrame, sclosed)
        BY <2>1 DEF OpenLane
      <3>3. up \in [Lanes -> Seq(Frames)]
        BY DEF WireTypes
      <3>4. ASSUME up' = Carried(up, cand, HelloFrame, sclosed), NEW l \in Lanes
            PROVE  up'[l] \in {up[l], Append(up[l], HelloFrame)}
        BY <3>1, <3>3, <3>4, CarriedEffect
      <3>5. ASSUME NEW l \in Lanes, NEW f \in Elements(up'[l])
            PROVE  f \in Elements(up[l]) \/ f = HelloFrame
        BY <3>1, <3>2, <3>3, <3>4, WrittenElements
      <3> QED
        BY <3>1, <3>5 DEF UpWritten
    <2>2. CASE WriteToLane
      <3> DEFINE m == lanes[csend.laneIdx + 1]
                 g == DataFrame(csend.seq, Chunk(Local, csend.seq))
      <3>1. /\ m \in Lanes /\ g \in Frames
            /\ \/ up' = up
               \/ up' \in WriteFrame(up, m, g, cclosed, sclosed) /\ csend'.seq = csend.seq + 1
               \/ up' \in WriteError(up, m, g, cclosed, sclosed, cctx)
        BY <2>2, ClientAttempt
      <3>2. TornFrame \in Frames /\ TornFrame.typ = "torn"
        BY DEF TornFrame, Frames
      <3> HIDE DEF m, g
      <3>3. up \in [Lanes -> Seq(Frames)]
        BY DEF WireTypes
      <3>4. ASSUME NEW l \in Lanes, NEW f \in Elements(up'[l])
            PROVE  f \in Elements(up[l]) \/ f = TornFrame \/ (f = g /\ csend'.seq = csend.seq + 1)
        <4>1. CASE up' = up
          BY <4>1
        <4>2. CASE up' \in WriteFrame(up, m, g, cclosed, sclosed) /\ csend'.seq = csend.seq + 1
          <5>1. up'[l] \in {up[l], Append(up[l], g)}
            BY <3>1, <3>3, <4>2, WriteEffect
          <5> QED
            BY <3>1, <3>3, <4>2, <5>1, WrittenElements
        <4>3. CASE up' \in WriteError(up, m, g, cclosed, sclosed, cctx)
          <5>1. up'[l] \in {up[l], Append(up[l], TornFrame)}
            BY <3>1, <3>3, <4>3, WriteEffect
          <5> QED
            BY <3>2, <3>3, <5>1, WrittenElements
        <4> QED
          BY <3>1, <4>1, <4>2, <4>3
      <3> QED
        BY <3>2, <3>4 DEF UpWritten, g
    <2>3. CASE WriteFin
      <3>1. csend.seq \in Nat /\ csend'.pc = "done" /\ csend'.seq = csend.seq
        BY <2>3 DEF WriteFin, ClientTypes, ClientSenders, ClientSender
      <3>2. FinFrame(csend.seq) \in Frames
        BY <3>1 DEF FinFrame, Frames
      <3>3. ASSUME NEW l \in Lanes PROVE up'[l] \in {up[l], Append(up[l], FinFrame(csend.seq))}
        BY <2>3, <3>1, FinEffect DEF WriteFin, WireTypes
      <3>4. ASSUME NEW l \in Lanes, NEW f \in Elements(up'[l])
            PROVE  f \in Elements(up[l]) \/ f = FinFrame(csend.seq)
        BY <3>2, <3>3, WrittenElements DEF WireTypes
      <3> QED
        BY <3>1, <3>4 DEF UpWritten
    <2>4. CASE StartCopying \/ ReadLocalChunk \/ ReadLocalEnds \/ NoLiveLanes \/
       ReceiveDown \/ DeliverDown \/ FinishDown \/ CloseBonded \/ ClientStops \/
       LocalResets
      BY <1>0, <1>1, <2>4 DEF StartCopying, ReadLocalChunk, ReadLocalEnds, NoLiveLanes,
         ReceiveDown, ReturnDownload, DeliverDown, FinishDown, CloseBonded, ClientStops,
         LocalResets
    <2>5. ASSUME NEW l \in Lanes, ReadLaneFrame(l) \/ ReadLaneEnds(l)
          PROVE  UpWritten
      BY <1>0, <1>1, <2>5 DEF ReadLaneFrame, ReadLaneEnds
    <2> QED
      BY <1>1, <2>1, <2>2, <2>3, <2>4, <2>5 DEF ClientNext
  <1>2. CASE ServerNext /\ UNCHANGED clientVars
    <2>1. ASSUME NEW l \in Lanes, GetConn(l) PROVE UpWritten
      <3>1. ASSUME NEW m \in Lanes
            PROVE  up'[m] = up[m] \/ (up[m] # << >> /\ up'[m] = Tail(up[m]))
        BY <2>1 DEF GetConn, HasFrame, Pop, WireTypes
      <3>2. ASSUME NEW m \in Lanes PROVE Elements(up'[m]) \subseteq Elements(up[m])
        BY <3>1, FrameElements DEF WireTypes
      <3> QED
        BY <3>2 DEF UpWritten
    <2>2. ASSUME NEW l \in Lanes, HelloFails(l) PROVE UpWritten
      <3>1. ASSUME NEW m \in Lanes PROVE up'[m] \in {up[m], << >>}
        BY <2>2 DEF HelloFails, Discard
      <3>2. ASSUME NEW m \in Lanes PROVE Elements(up'[m]) \subseteq Elements(up[m])
        BY <3>1, ElementsOf DEF WireTypes
      <3> QED
        BY <3>2 DEF UpWritten
    <2>3. ASSUME NEW l \in Lanes, HandlerReturns(l) PROVE UpWritten
      <3>1. ASSUME NEW m \in Lanes PROVE up'[m] \in {up[m], << >>}
        BY <2>3 DEF HandlerReturns, Discard
      <3>2. ASSUME NEW m \in Lanes PROVE Elements(up'[m]) \subseteq Elements(up[m])
        BY <3>1, ElementsOf DEF WireTypes
      <3> QED
        BY <3>2 DEF UpWritten
    <2>4. ASSUME NEW l \in Lanes, SReadFrame(l) PROVE UpWritten
      <3>1. ASSUME NEW m \in Lanes
            PROVE  up'[m] = up[m] \/ (up[m] # << >> /\ up'[m] = Tail(up[m]))
        BY <2>4 DEF SReadFrame, HasFrame, Pop, WireTypes
      <3>2. ASSUME NEW m \in Lanes PROVE Elements(up'[m]) \subseteq Elements(up[m])
        BY <3>1, FrameElements DEF WireTypes
      <3> QED
        BY <3>2 DEF UpWritten
    <2>5. CASE ServerStops
      BY <1>0, <1>2, <2>5 DEF ServerStops
    <2>6. ASSUME NEW l \in Lanes, AddLane(l) \/ SReadEnds(l)
          PROVE  UpWritten
      BY <1>0, <1>2, <2>6 DEF AddLane, SReadEnds
    <2>7. ASSUME NEW c \in Lanes, Forget(c) \/ CheckLanes(c) \/ AwaitLane(c) \/ Dial(c)
       \/ DialFails(c) \/ RunReturns(c) \/ ReceiveUp(c) \/ DeliverUp(c) \/ FinishUp(c)
       \/ ReadBackendChunk(c) \/ ReadBackendEnds(c) \/ SnapshotLanes(c) \/
       SWriteToLane(c) \/ RetryWrite(c) \/ SWriteFin(c) \/ BackendResets(c)
          PROVE  UpWritten
      BY <1>0, <1>2, <2>7 DEF Forget, CheckLanes, SetRun, AwaitLane, Dial, DialFails,
         RunReturns, ReceiveUp, DeliverUp, FinishUp, ReadBackendChunk, ReadBackendEnds,
         SnapshotLanes, SWriteToLane, ReturnSend, RetryWrite, SWriteFin, BackendResets
    <2> QED
      BY <1>2, <2>1, <2>2, <2>3, <2>4, <2>5, <2>6, <2>7 DEF ServerNext
  <1>3. CASE WireNext /\ UNCHANGED <<clientVars, serverVars>>
    <2>1. ASSUME NEW l \in Lanes, BreakLane(l) PROVE UpWritten
      <3>1. ASSUME NEW m \in Lanes
            PROVE  up'[m] = up[m] \/ \E i \in 0 .. Len(up[m]) : up'[m] = SubSeq(up[m], 1, i)
        BY <2>1 DEF BreakLane, WireTypes
      <3>2. ASSUME NEW m \in Lanes PROVE Elements(up'[m]) \subseteq Elements(up[m])
        BY <3>1, FrameElements DEF WireTypes
      <3> QED
        BY <3>2 DEF UpWritten
    <2> QED
      BY <1>3, <2>1 DEF WireNext
  <1>4. CASE UNCHANGED vars
    BY <1>0, <1>4 DEF vars
  <1> QED
    BY <1>1, <1>2, <1>3, <1>4 DEF Next

\* Only copyBackendToBond writes towards the client.
LEMMA DownWrittenStep ==
    ASSUME BondInv, [Next]_vars
    PROVE  DownWritten
  <1> USE DEF wireVars, streamVars, clientVars, openVars, serverVars, regVars, waitVars
  <1> USE DEF BondInv, TypeOK
  <1>0. ASSUME UNCHANGED <<down>> PROVE DownWritten
    BY <1>0 DEF DownWritten
  <1>1. CASE ClientNext /\ UNCHANGED serverVars
    <2>1. CASE CloseBonded
      <3>1. ASSUME NEW m \in Lanes PROVE down'[m] \in {down[m], << >>}
        BY <2>1 DEF CloseBonded, Discard
      <3>2. ASSUME NEW m \in Lanes PROVE Elements(down'[m]) \subseteq Elements(down[m])
        BY <3>1, ElementsOf DEF WireTypes
      <3> QED
        BY <3>2 DEF DownWritten
    <2>2. ASSUME NEW l \in Lanes, ReadLaneFrame(l) PROVE DownWritten
      <3>1. ASSUME NEW m \in Lanes
            PROVE  down'[m] = down[m] \/ (down[m] # << >> /\ down'[m] = Tail(down[m]))
        BY <2>2 DEF ReadLaneFrame, HasFrame, Pop, WireTypes
      <3>2. ASSUME NEW m \in Lanes PROVE Elements(down'[m]) \subseteq Elements(down[m])
        BY <3>1, FrameElements DEF WireTypes
      <3> QED
        BY <3>2 DEF DownWritten
    <2>3. CASE OpenLane \/ StartCopying \/ ReadLocalChunk \/ ReadLocalEnds \/
       WriteToLane \/ NoLiveLanes \/ WriteFin \/ ReceiveDown \/ DeliverDown \/
       FinishDown \/ ClientStops \/ LocalResets
      BY <1>0, <1>1, <2>3 DEF OpenLane, StartCopying, ReadLocalChunk, ReadLocalEnds,
         WriteToLane, NoLiveLanes, WriteFin, ReceiveDown, ReturnDownload, DeliverDown,
         FinishDown, ClientStops, LocalResets
    <2>4. ASSUME NEW l \in Lanes, ReadLaneEnds(l)
          PROVE  DownWritten
      BY <1>0, <1>1, <2>4 DEF ReadLaneEnds
    <2> QED
      BY <1>1, <2>1, <2>2, <2>3, <2>4 DEF ClientNext
  <1>2. CASE ServerNext /\ UNCHANGED clientVars
    <2>1. ASSUME NEW c \in Lanes, SWriteToLane(c) PROVE DownWritten
      <3> DEFINE m == ssend[c].lanes[(ssend[c].laneIdx % Len(ssend[c].lanes)) + 1]
                 g == DataFrame(ssend[c].seq, Chunk(c, ssend[c].seq))
      <3>1. /\ m \in Lanes /\ g \in Frames
            /\ \/ down' \in WriteFrame(down, m, g, sclosed, cclosed)
               \/ down' \in WriteError(down, m, g, sclosed, cclosed, Cancelled(c))
        BY <2>1, ServerAttempt
      <3>2. TornFrame \in Frames /\ TornFrame.typ = "torn"
        BY DEF TornFrame, Frames
      <3> HIDE DEF m, g
      <3>3. down \in [Lanes -> Seq(Frames)]
        BY DEF WireTypes
      <3>4. ASSUME NEW l \in Lanes, NEW f \in Elements(down'[l])
            PROVE  f \in Elements(down[l]) \/ f = TornFrame \/ f = g
        <4>1. CASE down' \in WriteFrame(down, m, g, sclosed, cclosed)
          <5>1. down'[l] \in {down[l], Append(down[l], g)}
            BY <3>1, <3>3, <4>1, WriteEffect
          <5> QED
            BY <3>1, <3>3, <5>1, WrittenElements
        <4>2. CASE down' \in WriteError(down, m, g, sclosed, cclosed, Cancelled(c))
          <5>1. down'[l] \in {down[l], Append(down[l], TornFrame)}
            BY <3>1, <3>3, <4>2, WriteEffect
          <5> QED
            BY <3>2, <3>3, <5>1, WrittenElements
        <4> QED
          BY <3>1, <4>1, <4>2
      <3> QED
        BY <3>2, <3>4 DEF DownWritten, g
    <2>2. ASSUME NEW c \in Lanes, SWriteFin(c) PROVE DownWritten
      <3>1. /\ ssend[c].seq \in Nat /\ ssend'[c].seq = ssend[c].seq
            /\ ssend[c].pc = "fin" /\ ssend'[c].pc = "done"
        BY <2>2, ServerSenderStep DEF ServerTypes, ServerSenders
      <3>2. FinFrame(ssend[c].seq) \in Frames
        BY <3>1 DEF FinFrame, Frames
      <3>3. ASSUME NEW l \in Lanes
            PROVE  down'[l] \in {down[l], Append(down[l], FinFrame(ssend[c].seq))}
        BY <2>2, <3>1, FinEffect DEF SWriteFin, WireTypes
      <3>4. ASSUME NEW l \in Lanes, NEW f \in Elements(down'[l])
            PROVE  f \in Elements(down[l]) \/ f = FinFrame(ssend[c].seq)
        BY <3>2, <3>3, WrittenElements DEF WireTypes
      <3> QED
        BY <3>1, <3>4 DEF DownWritten
    <2>3. CASE ServerStops
      BY <1>0, <1>2, <2>3 DEF ServerStops
    <2>4. ASSUME NEW l \in Lanes, GetConn(l) \/ HelloFails(l) \/ AddLane(l) \/
       HandlerReturns(l) \/ SReadFrame(l) \/ SReadEnds(l)
          PROVE  DownWritten
      BY <1>0, <1>2, <2>4 DEF GetConn, HelloFails, AddLane, HandlerReturns, SReadFrame,
         SReadEnds
    <2>5. ASSUME NEW c \in Lanes, Forget(c) \/ CheckLanes(c) \/ AwaitLane(c) \/ Dial(c)
       \/ DialFails(c) \/ RunReturns(c) \/ ReceiveUp(c) \/ DeliverUp(c) \/ FinishUp(c)
       \/ ReadBackendChunk(c) \/ ReadBackendEnds(c) \/ SnapshotLanes(c) \/ RetryWrite(c)
       \/ BackendResets(c)
          PROVE  DownWritten
      BY <1>0, <1>2, <2>5 DEF Forget, CheckLanes, SetRun, AwaitLane, Dial, DialFails,
         RunReturns, ReceiveUp, DeliverUp, FinishUp, ReadBackendChunk, ReadBackendEnds,
         SnapshotLanes, RetryWrite, ReturnSend, BackendResets
    <2> QED
      BY <1>2, <2>1, <2>2, <2>3, <2>4, <2>5 DEF ServerNext
  <1>3. CASE WireNext /\ UNCHANGED <<clientVars, serverVars>>
    <2>1. ASSUME NEW l \in Lanes, BreakLane(l) PROVE DownWritten
      <3>1. ASSUME NEW m \in Lanes
            PROVE  down'[m] = down[m] \/ \E i \in 0 .. Len(down[m]) : down'[m] = SubSeq(down[m], 1, i)
        BY <2>1 DEF BreakLane, WireTypes
      <3>2. ASSUME NEW m \in Lanes PROVE Elements(down'[m]) \subseteq Elements(down[m])
        BY <3>1, FrameElements DEF WireTypes
      <3> QED
        BY <3>2 DEF DownWritten
    <2> QED
      BY <1>3, <2>1 DEF WireNext
  <1>4. CASE UNCHANGED vars
    BY <1>0, <1>4 DEF vars
  <1> QED
    BY <1>1, <1>2, <1>3, <1>4 DEF Next

\* A recvCh gets frames from the readers of the lanes.
LEMMA QueueWrittenStep ==
    ASSUME BondInv, [Next]_vars
    PROVE  QueueWritten
  <1> USE DEF wireVars, streamVars, clientVars, openVars, serverVars, regVars, waitVars
  <1> USE DEF BondInv, TypeOK
  <1>0. ASSUME UNCHANGED <<crecv, srecv>> PROVE QueueWritten
    BY <1>0 DEF QueueWritten
  <1>1. CASE ClientNext /\ UNCHANGED serverVars
    <2>1. CASE ReceiveDown
      <3>1. crecv' = crecv \/ (crecv # << >> /\ crecv' = Tail(crecv))
        BY <2>1 DEF ReceiveDown
      <3>2. Elements(crecv') \subseteq Elements(crecv)
        BY <3>1, FrameElements DEF QueueTypes
      <3> QED
        BY <1>1, <3>2 DEF QueueWritten
    <2>2. ASSUME NEW l \in Lanes, ReadLaneFrame(l) PROVE QueueWritten
      <3>1. Head(down[l]) \in Frames /\ Head(down[l]) \in Elements(down[l])
        BY <2>2, FrameElements DEF ReadLaneFrame, WireTypes, HasFrame
      <3>2. crecv' \in {crecv, Append(crecv, Head(down[l]))}
        BY <2>2 DEF ReadLaneFrame
      <3>3. ASSUME NEW f \in Elements(crecv') PROVE f \in Elements(crecv) \/ f = Head(down[l])
        BY <3>1, <3>2, WrittenElements DEF QueueTypes
      <3> QED
        BY <1>1, <3>1, <3>3 DEF QueueWritten
    <2>3. CASE OpenLane \/ StartCopying \/ ReadLocalChunk \/ ReadLocalEnds \/
       WriteToLane \/ NoLiveLanes \/ WriteFin \/ DeliverDown \/ FinishDown \/
       CloseBonded \/ ClientStops \/ LocalResets
      BY <1>0, <1>1, <2>3 DEF OpenLane, StartCopying, ReadLocalChunk, ReadLocalEnds,
         WriteToLane, NoLiveLanes, WriteFin, DeliverDown, ReturnDownload, FinishDown,
         CloseBonded, ClientStops, LocalResets
    <2>4. ASSUME NEW l \in Lanes, ReadLaneEnds(l)
          PROVE  QueueWritten
      BY <1>0, <1>1, <2>4 DEF ReadLaneEnds
    <2> QED
      BY <1>1, <2>1, <2>2, <2>3, <2>4 DEF ClientNext
  <1>2. CASE ServerNext /\ UNCHANGED clientVars
    <2>1. ASSUME NEW l \in Lanes, SReadFrame(l) PROVE QueueWritten
      <3>1. Head(up[l]) \in Frames /\ Head(up[l]) \in Elements(up[l])
        BY <2>1, FrameElements DEF SReadFrame, WireTypes, HasFrame
      <3>2. ASSUME NEW c \in Lanes PROVE srecv'[c] \in {srecv[c], Append(srecv[c], Head(up[l]))}
        BY <2>1 DEF SReadFrame, QueueTypes
      <3>3. ASSUME NEW c \in Lanes, NEW f \in Elements(srecv'[c])
            PROVE  f \in Elements(srecv[c]) \/ f = Head(up[l])
        BY <3>1, <3>2, WrittenElements DEF QueueTypes
      <3> QED
        BY <1>2, <3>1, <3>3 DEF QueueWritten
    <2>2. ASSUME NEW c \in Lanes, ReceiveUp(c) PROVE QueueWritten
      <3>1. ASSUME NEW d \in Lanes
            PROVE  srecv'[d] = srecv[d] \/ (srecv[d] # << >> /\ srecv'[d] = Tail(srecv[d]))
        BY <2>2 DEF ReceiveUp, QueueTypes
      <3>2. ASSUME NEW d \in Lanes PROVE Elements(srecv'[d]) \subseteq Elements(srecv[d])
        BY <3>1, FrameElements DEF QueueTypes
      <3> QED
        BY <1>2, <3>2 DEF QueueWritten
    <2>3. CASE ServerStops
      BY <1>0, <1>2, <2>3 DEF ServerStops
    <2>4. ASSUME NEW l \in Lanes, GetConn(l) \/ HelloFails(l) \/ AddLane(l) \/
       HandlerReturns(l) \/ SReadEnds(l)
          PROVE  QueueWritten
      BY <1>0, <1>2, <2>4 DEF GetConn, HelloFails, AddLane, HandlerReturns, SReadEnds
    <2>5. ASSUME NEW c \in Lanes, Forget(c) \/ CheckLanes(c) \/ AwaitLane(c) \/ Dial(c)
       \/ DialFails(c) \/ RunReturns(c) \/ DeliverUp(c) \/ FinishUp(c) \/
       ReadBackendChunk(c) \/ ReadBackendEnds(c) \/ SnapshotLanes(c) \/ SWriteToLane(c)
       \/ RetryWrite(c) \/ SWriteFin(c) \/ BackendResets(c)
          PROVE  QueueWritten
      BY <1>0, <1>2, <2>5 DEF Forget, CheckLanes, SetRun, AwaitLane, Dial, DialFails,
         RunReturns, DeliverUp, FinishUp, ReadBackendChunk, ReadBackendEnds,
         SnapshotLanes, SWriteToLane, ReturnSend, RetryWrite, SWriteFin, BackendResets
    <2> QED
      BY <1>2, <2>1, <2>2, <2>3, <2>4, <2>5 DEF ServerNext
  <1>3. CASE WireNext /\ UNCHANGED <<clientVars, serverVars>>
    BY <1>0, <1>3 DEF WireNext, BreakLane
  <1>4. CASE UNCHANGED vars
    BY <1>0, <1>4 DEF vars
  <1> QED
    BY <1>1, <1>2, <1>3, <1>4 DEF Next

-----------------------------------------------------------------------------
(* The order of things at the two ends.                                    *)

\* The copies start when the lanes are open.
LEMMA ClientOrderStep ==
    ASSUME BondInv, [Next]_vars
    PROVE  ClientOrder'
  <1> USE DEF wireVars, streamVars, clientVars, openVars, serverVars, regVars, waitVars
  <1> USE DEF BondInv, TypeOK
  <1>0. ASSUME UNCHANGED <<chandler, csend, lanes>> PROVE ClientOrder'
    BY <1>0 DEF ClientOrder
  <1>1. CASE ClientNext /\ UNCHANGED serverVars
    <2>1. CASE OpenLane
      BY <1>1, <2>1 DEF OpenLane, ClientOrder
    <2>2. CASE StartCopying
      <3>1. lanes # << >> => Len(lanes) > 0
        BY DEF ClientTypes
      <3>2. csend.pc = "none" /\ csend.laneIdx = 0 /\ csend'.laneIdx = 0 /\ lanes' = lanes
        BY <2>2 DEF StartCopying, ClientOrder, ClientTypes, ClientSenders
      <3>3. \/ lanes = << >> /\ csend' = csend
            \/ lanes # << >> /\ csend'.pc = "read"
        BY <2>2 DEF StartCopying, ClientTypes, ClientSenders
      <3>4. chandler' # "opening"
        BY <2>2 DEF StartCopying
      <3> QED
        BY <3>1, <3>2, <3>3, <3>4 DEF ClientOrder
    <2>3. CASE ReadLocalChunk
      BY <1>1, <2>3 DEF ReadLocalChunk, ClientOrder, ClientTypes, ClientSenders
    <2>4. CASE ReadLocalEnds
      BY <1>1, <2>4 DEF ReadLocalEnds, ClientOrder, ClientTypes, ClientSenders
    <2>5. CASE WriteToLane
      <3>1. csend.pc = "write" /\ csend'.laneIdx < Len(lanes) /\ UNCHANGED <<chandler, lanes>>
        BY <2>5, ClientAttempt DEF WriteToLane
      <3>2. csend'.pc \in {"read", "write", "done"}
        BY <2>5, ClientAttempt
      <3> QED
        BY <3>1, <3>2 DEF ClientOrder
    <2>6. CASE NoLiveLanes
      BY <1>1, <2>6 DEF NoLiveLanes, ClientOrder, ClientSender
    <2>7. CASE WriteFin
      BY <1>1, <2>7 DEF WriteFin, ClientOrder, ClientSender
    <2>8. CASE CloseBonded
      BY <1>1, <2>8 DEF CloseBonded, ClientOrder
    <2>9. CASE ReceiveDown \/ DeliverDown \/ FinishDown \/ ClientStops \/ LocalResets
      BY <1>0, <1>1, <2>9 DEF ReceiveDown, ReturnDownload, DeliverDown, FinishDown,
         ClientStops, LocalResets
    <2>10. ASSUME NEW l \in Lanes, ReadLaneFrame(l) \/ ReadLaneEnds(l)
          PROVE  ClientOrder'
      BY <1>0, <1>1, <2>10 DEF ReadLaneFrame, ReadLaneEnds
    <2> QED
      BY <1>1, <2>1, <2>2, <2>3, <2>4, <2>5, <2>6, <2>7, <2>8, <2>9, <2>10 DEF
         ClientNext
  <1>2. CASE ServerNext /\ UNCHANGED clientVars
    <2>1. CASE ServerStops
      BY <1>0, <1>2, <2>1 DEF ServerStops
    <2>2. ASSUME NEW l \in Lanes, GetConn(l) \/ HelloFails(l) \/ AddLane(l) \/
       HandlerReturns(l) \/ SReadFrame(l) \/ SReadEnds(l)
          PROVE  ClientOrder'
      BY <1>0, <1>2, <2>2 DEF GetConn, HelloFails, AddLane, HandlerReturns, SReadFrame,
         SReadEnds
    <2>3. ASSUME NEW c \in Lanes, Forget(c) \/ CheckLanes(c) \/ AwaitLane(c) \/ Dial(c)
       \/ DialFails(c) \/ RunReturns(c) \/ ReceiveUp(c) \/ DeliverUp(c) \/ FinishUp(c)
       \/ ReadBackendChunk(c) \/ ReadBackendEnds(c) \/ SnapshotLanes(c) \/
       SWriteToLane(c) \/ RetryWrite(c) \/ SWriteFin(c) \/ BackendResets(c)
          PROVE  ClientOrder'
      BY <1>0, <1>2, <2>3 DEF Forget, CheckLanes, SetRun, AwaitLane, Dial, DialFails,
         RunReturns, ReceiveUp, DeliverUp, FinishUp, ReadBackendChunk, ReadBackendEnds,
         SnapshotLanes, SWriteToLane, ReturnSend, RetryWrite, SWriteFin, BackendResets
    <2> QED
      BY <1>2, <2>1, <2>2, <2>3 DEF ServerNext
  <1>3. CASE WireNext /\ UNCHANGED <<clientVars, serverVars>>
    BY <1>0, <1>3 DEF WireNext, BreakLane
  <1>4. CASE UNCHANGED vars
    BY <1>0, <1>4 DEF vars
  <1> QED
    BY <1>1, <1>2, <1>3, <1>4 DEF Next

\* Handlers get conns that were created, and only these start to run.
LEMMA ConnKnownStep ==
    ASSUME BondInv, [Next]_vars
    PROVE  ConnKnown'
  <1> USE DEF wireVars, streamVars, clientVars, openVars, serverVars, regVars, waitVars
  <1> USE DEF BondInv, TypeOK
  <1>0. ASSUME UNCHANGED <<handler, connOf, reg, run, sread, ssend>> PROVE ConnKnown'
    BY <1>0 DEF ConnKnown
  <1>1. CASE ClientNext /\ UNCHANGED serverVars
    <2>1. CASE OpenLane \/ StartCopying \/ ReadLocalChunk \/ ReadLocalEnds \/
       WriteToLane \/ NoLiveLanes \/ WriteFin \/ ReceiveDown \/ DeliverDown \/
       FinishDown \/ CloseBonded \/ ClientStops \/ LocalResets
      BY <1>0, <1>1, <2>1 DEF OpenLane, StartCopying, ReadLocalChunk, ReadLocalEnds,
         WriteToLane, NoLiveLanes, WriteFin, ReceiveDown, ReturnDownload, DeliverDown,
         FinishDown, CloseBonded, ClientStops, LocalResets
    <2>2. ASSUME NEW l \in Lanes, ReadLaneFrame(l) \/ ReadLaneEnds(l)
          PROVE  ConnKnown'
      BY <1>0, <1>1, <2>2 DEF ReadLaneFrame, ReadLaneEnds
    <2> QED
      BY <1>1, <2>1, <2>2 DEF ClientNext
  <1>2. CASE ServerNext /\ UNCHANGED clientVars
    <2>1. ASSUME NEW l \in Lanes, GetConn(l) PROVE ConnKnown'
      <3>1. NoConn \notin Lanes
        BY DEF NoConn, Lanes
      <3> QED
        BY <1>2, <2>1, <3>1 DEF GetConn, ConnKnown, ServerTypes
    <2>2. ASSUME NEW l \in Lanes, HelloFails(l) PROVE ConnKnown'
      BY <1>2, <2>2 DEF HelloFails, ConnKnown, ServerTypes
    <2>3. ASSUME NEW l \in Lanes, AddLane(l) PROVE ConnKnown'
      <3>1. NoConn \notin Lanes
        BY DEF NoConn, Lanes
      <3> QED
        BY <1>2, <2>3, <3>1 DEF AddLane, ConnKnown, ServerTypes
    <2>4. ASSUME NEW l \in Lanes, HandlerReturns(l) PROVE ConnKnown'
      BY <1>2, <2>4 DEF HandlerReturns, ConnKnown, ServerTypes
    <2>5. ASSUME NEW l \in Lanes, SReadFrame(l) PROVE ConnKnown'
      BY <1>2, <2>5 DEF SReadFrame, ConnKnown
    <2>6. ASSUME NEW l \in Lanes, SReadEnds(l) PROVE ConnKnown'
      BY <1>2, <2>6 DEF SReadEnds, ConnKnown
    <2>7. ASSUME NEW c \in Lanes, Forget(c) PROVE ConnKnown'
      BY <1>2, <2>7 DEF Forget, ConnKnown
    <2>8. ASSUME NEW c \in Lanes, CheckLanes(c) PROVE ConnKnown'
      BY <1>2, <2>8 DEF CheckLanes, SetRun, ConnKnown, ServerTypes
    <2>9. ASSUME NEW c \in Lanes, AwaitLane(c) PROVE ConnKnown'
      BY <1>2, <2>9 DEF AwaitLane, SetRun, ConnKnown, ServerTypes
    <2>10. ASSUME NEW c \in Lanes, Dial(c) PROVE ConnKnown'
      <3>1. \A d \in Lanes \ {c} : ssend'[d] = ssend[d]
        BY <2>10, ServerSenderStep
      <3> QED
        BY <1>2, <2>10, <3>1 DEF Dial, SetRun, ConnKnown, ServerTypes
    <2>11. ASSUME NEW c \in Lanes, DialFails(c) PROVE ConnKnown'
      BY <1>2, <2>11 DEF DialFails, SetRun, ConnKnown, ServerTypes
    <2>12. ASSUME NEW c \in Lanes, RunReturns(c) PROVE ConnKnown'
      BY <1>2, <2>12 DEF RunReturns, SetRun, ConnKnown, ServerTypes
    <2>13. ASSUME NEW c \in Lanes, ReadBackendChunk(c) PROVE ConnKnown'
      <3>1. \A d \in Lanes : ssend'[d].pc # "none" => ssend[d].pc # "none"
        BY <2>13, ServerSenderStep
      <3> QED
        BY <1>2, <2>13, <3>1 DEF ReadBackendChunk, ConnKnown
    <2>14. ASSUME NEW c \in Lanes, ReadBackendEnds(c) PROVE ConnKnown'
      <3>1. \A d \in Lanes : ssend'[d].pc # "none" => ssend[d].pc # "none"
        BY <2>14, ServerSenderStep
      <3> QED
        BY <1>2, <2>14, <3>1 DEF ReadBackendEnds, ConnKnown
    <2>15. ASSUME NEW c \in Lanes, SnapshotLanes(c) PROVE ConnKnown'
      <3>1. \A d \in Lanes : ssend'[d].pc # "none" => ssend[d].pc # "none"
        BY <2>15, ServerSenderStep
      <3> QED
        BY <1>2, <2>15, <3>1 DEF SnapshotLanes, ConnKnown
    <2>16. ASSUME NEW c \in Lanes, SWriteToLane(c) PROVE ConnKnown'
      <3>1. \A d \in Lanes : ssend'[d].pc # "none" => ssend[d].pc # "none"
        BY <2>16, ServerAttempt
      <3> QED
        BY <1>2, <2>16, <3>1 DEF SWriteToLane, ConnKnown
    <2>17. ASSUME NEW c \in Lanes, RetryWrite(c) PROVE ConnKnown'
      <3>1. \A d \in Lanes : ssend'[d].pc # "none" => ssend[d].pc # "none"
        BY <2>17, ServerSenderStep
      <3> QED
        BY <1>2, <2>17, <3>1 DEF RetryWrite, ConnKnown
    <2>18. ASSUME NEW c \in Lanes, SWriteFin(c) PROVE ConnKnown'
      <3>1. \A d \in Lanes : ssend'[d].pc # "none" => ssend[d].pc # "none"
        BY <2>18, ServerSenderStep
      <3> QED
        BY <1>2, <2>18, <3>1 DEF SWriteFin, ConnKnown
    <2>19. CASE ServerStops
      BY <1>0, <1>2, <2>19 DEF ServerStops
    <2>20. ASSUME NEW c \in Lanes, ReceiveUp(c) \/ DeliverUp(c) \/ FinishUp(c) \/
       BackendResets(c)
          PROVE  ConnKnown'
      BY <1>0, <1>2, <2>20 DEF ReceiveUp, DeliverUp, FinishUp, BackendResets
    <2> QED
      BY <1>2, <2>1, <2>2, <2>3, <2>4, <2>5, <2>6, <2>7, <2>8, <2>9, <2>10, <2>11,
         <2>12, <2>13, <2>14, <2>15, <2>16, <2>17, <2>18, <2>19, <2>20 DEF ServerNext
  <1>3. CASE WireNext /\ UNCHANGED <<clientVars, serverVars>>
    BY <1>0, <1>3 DEF WireNext, BreakLane
  <1>4. CASE UNCHANGED vars
    BY <1>0, <1>4 DEF vars
  <1> QED
    BY <1>1, <1>2, <1>3, <1>4 DEF Next

\* A conn's lanes are attached to it, and each once.
LEMMA LanesOfConnStep ==
    ASSUME BondInv, [Next]_vars
    PROVE  LanesOfConn'
  <1> USE DEF wireVars, streamVars, clientVars, openVars, serverVars, regVars, waitVars
  <1> USE DEF BondInv, TypeOK
  <1>0. ASSUME UNCHANGED <<handler, connOf, slanes, ssend>> PROVE LanesOfConn'
    BY <1>0 DEF LanesOfConn
  <1>1. CASE ClientNext /\ UNCHANGED serverVars
    <2>1. CASE OpenLane \/ StartCopying \/ ReadLocalChunk \/ ReadLocalEnds \/
       WriteToLane \/ NoLiveLanes \/ WriteFin \/ ReceiveDown \/ DeliverDown \/
       FinishDown \/ CloseBonded \/ ClientStops \/ LocalResets
      BY <1>0, <1>1, <2>1 DEF OpenLane, StartCopying, ReadLocalChunk, ReadLocalEnds,
         WriteToLane, NoLiveLanes, WriteFin, ReceiveDown, ReturnDownload, DeliverDown,
         FinishDown, CloseBonded, ClientStops, LocalResets
    <2>2. ASSUME NEW l \in Lanes, ReadLaneFrame(l) \/ ReadLaneEnds(l)
          PROVE  LanesOfConn'
      BY <1>0, <1>1, <2>2 DEF ReadLaneFrame, ReadLaneEnds
    <2> QED
      BY <1>1, <2>1, <2>2 DEF ClientNext
  <1>2. CASE ServerNext /\ UNCHANGED clientVars
    <2>1. ASSUME NEW l \in Lanes, GetConn(l) PROVE LanesOfConn'
      <3>1. ASSUME NEW m \in Lanes, handler[m] \in {"attached", "closed"}
            PROVE  handler'[m] = handler[m] /\ connOf'[m] = connOf[m]
        BY <2>1, <3>1 DEF GetConn, ServerTypes
      <3>2. \A d \in Lanes : \A s \in {slanes[d], ssend[d].lanes} : Elements(s) \subseteq Lanes
        BY LaneElements DEF ServerTypes, ServerSenders
      <3> QED
        BY <2>1, <3>1, <3>2 DEF GetConn, LanesOfConn
    <2>2. ASSUME NEW l \in Lanes, HelloFails(l) PROVE LanesOfConn'
      <3>1. ASSUME NEW m \in Lanes, handler[m] \in {"attached", "closed"}
            PROVE  handler'[m] \in {"attached", "closed"} /\ connOf'[m] = connOf[m]
        BY <2>2, <3>1 DEF HelloFails, ServerTypes
      <3>2. \A d \in Lanes : \A s \in {slanes[d], ssend[d].lanes} : Elements(s) \subseteq Lanes
        BY LaneElements DEF ServerTypes, ServerSenders
      <3> QED
        BY <2>2, <3>1, <3>2 DEF HelloFails, LanesOfConn
    <2>3. ASSUME NEW l \in Lanes, AddLane(l) PROVE LanesOfConn'
      <3> DEFINE c == connOf[l]
      <3>1. /\ c \in Lanes /\ handler[l] = "got" /\ handler'[l] = "attached"
            /\ \A m \in Lanes \ {l} : handler'[m] = handler[m]
            /\ slanes'[c] = Append(slanes[c], l)
            /\ \A d \in Lanes \ {c} : slanes'[d] = slanes[d]
            /\ UNCHANGED <<connOf, ssend>>
        BY <2>3 DEF AddLane, ServerTypes, ConnKnown
      <3>2. \A d \in Lanes : \A s \in {slanes[d], ssend[d].lanes} :
               s \in Seq(Lanes) /\ Elements(s) \subseteq Lanes /\ l \notin Elements(s)
        <4>1. \A d \in Lanes : slanes[d] \in Seq(Lanes) /\ ssend[d].lanes \in Seq(Lanes)
          BY DEF ServerTypes, ServerSenders
        <4>2. \A d \in Lanes : \A s \in {slanes[d], ssend[d].lanes} : l \notin Elements(s)
          BY <3>1 DEF LanesOfConn
        <4> QED
          BY <4>1, <4>2, LaneElements
      <3> HIDE DEF c
      <3>3. Elements(slanes'[c]) = Elements(slanes[c]) \cup {l} /\ Distinct(slanes'[c])
        <4>1. Elements(slanes'[c]) = Elements(slanes[c]) \cup {l}
          BY <3>1, <3>2, LaneElements
        <4>2. /\ DOMAIN slanes'[c] = 1 .. Len(slanes[c]) + 1 /\ Len(slanes[c]) \in Nat
              /\ \A i \in 1 .. Len(slanes[c]) : /\ slanes'[c][i] = slanes[c][i]
                                                /\ slanes[c][i] \in Elements(slanes[c])
              /\ slanes'[c][Len(slanes[c]) + 1] = l
          BY <3>1, <3>2 DEF Elements
        <4>3. DOMAIN slanes[c] = 1 .. Len(slanes[c]) /\ Distinct(slanes[c]) /\ l \notin Elements(slanes[c])
          BY <3>1, <3>2 DEF LanesOfConn
        <4>4. ASSUME NEW i \in DOMAIN slanes'[c], NEW j \in DOMAIN slanes'[c],
                     slanes'[c][i] = slanes'[c][j]
              PROVE  i = j
          <5>1. CASE i \in 1 .. Len(slanes[c]) /\ j \in 1 .. Len(slanes[c])
            BY <4>2, <4>3, <4>4, <5>1 DEF Distinct
          <5>2. CASE i = Len(slanes[c]) + 1 \/ j = Len(slanes[c]) + 1
            BY <4>2, <4>3, <4>4, <5>2
          <5> QED
            BY <4>2, <5>1, <5>2
        <4> QED
          BY <4>1, <4>4 DEF Distinct
      <3>4. ASSUME NEW d \in Lanes, NEW s \in {slanes'[d], ssend[d].lanes}
            PROVE  /\ Distinct(s)
                   /\ \A m \in Elements(s) : connOf[m] = d /\ handler'[m] \in {"attached", "closed"}
        <4>1. CASE s = slanes'[d] /\ d = c
          <5>1. \A m \in Elements(slanes[c]) : connOf[m] = c /\ handler[m] \in {"attached", "closed"}
            BY <3>1 DEF LanesOfConn
          <5>2. Elements(slanes[c]) \subseteq Lanes /\ connOf[l] = c
            BY <3>1, <3>2 DEF c
          <5> QED
            BY <3>1, <3>3, <4>1, <5>1, <5>2
        <4>2. CASE s = ssend[d].lanes \/ d # c
          <5>1. s \in {slanes[d], ssend[d].lanes}
            BY <3>1, <3>4, <4>2
          <5>2. Distinct(s) /\ \A m \in Elements(s) : connOf[m] = d /\ handler[m] \in {"attached", "closed"}
            BY <5>1 DEF LanesOfConn
          <5>3. Elements(s) \subseteq Lanes /\ l \notin Elements(s)
            BY <3>2, <5>1
          <5> QED
            BY <3>1, <5>2, <5>3
        <4> QED
          BY <3>4, <4>1, <4>2
      <3> QED
        BY <3>1, <3>4 DEF LanesOfConn
    <2>4. ASSUME NEW l \in Lanes, HandlerReturns(l) PROVE LanesOfConn'
      <3>1. ASSUME NEW m \in Lanes, handler[m] \in {"attached", "closed"}
            PROVE  handler'[m] \in {"attached", "closed"} /\ connOf'[m] = connOf[m]
        BY <2>4, <3>1 DEF HandlerReturns, ServerTypes
      <3>2. \A d \in Lanes : \A s \in {slanes[d], ssend[d].lanes} : Elements(s) \subseteq Lanes
        BY LaneElements DEF ServerTypes, ServerSenders
      <3> QED
        BY <2>4, <3>1, <3>2 DEF HandlerReturns, LanesOfConn
    <2>5. ASSUME NEW l \in Lanes, SReadEnds(l) PROVE LanesOfConn'
      <3> DEFINE c == connOf[l]
      <3>1. /\ c \in Lanes /\ slanes'[c] = RemoveLane(c, l)
            /\ \A d \in Lanes \ {c} : slanes'[d] = slanes[d]
            /\ UNCHANGED <<connOf, handler, ssend>>
        BY <2>5 DEF SReadEnds, ServerTypes, ConnKnown
      <3> HIDE DEF c
      <3>2. Distinct(slanes'[c]) /\ Elements(slanes'[c]) \subseteq Elements(slanes[c])
        BY <3>1, RemoveLaneEffect DEF LanesOfConn
      <3> QED
        BY <3>1, <3>2 DEF LanesOfConn
    <2>6. ASSUME NEW c \in Lanes, Dial(c) PROVE LanesOfConn'
      <3>1. /\ \A d \in Lanes : ssend'[d].lanes \in {ssend[d].lanes, slanes[d], << >>}
            /\ UNCHANGED <<connOf, handler, slanes>>
        BY <1>2, <2>6, ServerSenderStep DEF Dial
      <3>2. Distinct(<< >>) /\ Elements(<< >>) = {}
        BY DEF Distinct, Elements
      <3> QED
        BY <3>1, <3>2 DEF LanesOfConn
    <2>7. ASSUME NEW c \in Lanes, ReadBackendChunk(c) PROVE LanesOfConn'
      <3>1. /\ \A d \in Lanes : ssend'[d].lanes \in {ssend[d].lanes, slanes[d], << >>}
            /\ UNCHANGED <<connOf, handler, slanes>>
        BY <1>2, <2>7, ServerSenderStep DEF ReadBackendChunk
      <3>2. Distinct(<< >>) /\ Elements(<< >>) = {}
        BY DEF Distinct, Elements
      <3> QED
        BY <3>1, <3>2 DEF LanesOfConn
    <2>8. ASSUME NEW c \in Lanes, ReadBackendEnds(c) PROVE LanesOfConn'
      <3>1. /\ \A d \in Lanes : ssend'[d].lanes \in {ssend[d].lanes, slanes[d], << >>}
            /\ UNCHANGED <<connOf, handler, slanes>>
        BY <1>2, <2>8, ServerSenderStep DEF ReadBackendEnds
      <3>2. Distinct(<< >>) /\ Elements(<< >>) = {}
        BY DEF Distinct, Elements
      <3> QED
        BY <3>1, <3>2 DEF LanesOfConn
    <2>9. ASSUME NEW c \in Lanes, SnapshotLanes(c) PROVE LanesOfConn'
      <3>1. /\ \A d \in Lanes : ssend'[d].lanes \in {ssend[d].lanes, slanes[d], << >>}
            /\ UNCHANGED <<connOf, handler, slanes>>
        BY <1>2, <2>9, ServerSenderStep DEF SnapshotLanes
      <3>2. Distinct(<< >>) /\ Elements(<< >>) = {}
        BY DEF Distinct, Elements
      <3> QED
        BY <3>1, <3>2 DEF LanesOfConn
    <2>10. ASSUME NEW c \in Lanes, SWriteToLane(c) PROVE LanesOfConn'
      <3>1. /\ \A d \in Lanes : ssend'[d].lanes \in {ssend[d].lanes, << >>}
            /\ slanes' = slanes \/ \E l \in Lanes : slanes' = [slanes EXCEPT ![c] = RemoveLane(c, l)]
            /\ UNCHANGED <<connOf, handler>>
        BY <1>2, <2>10, ServerAttempt DEF SWriteToLane
      <3>2. Distinct(<< >>) /\ Elements(<< >>) = {}
        BY DEF Distinct, Elements
      <3>3. \A d \in Lanes : /\ Distinct(slanes[d]) => Distinct(slanes'[d])
                             /\ Elements(slanes'[d]) \subseteq Elements(slanes[d])
        <4>1. ASSUME NEW d \in Lanes, slanes'[d] # slanes[d]
              PROVE  \E l \in Lanes : slanes'[d] = RemoveLane(d, l)
          BY <3>1, <4>1 DEF ServerTypes
        <4>2. ASSUME NEW d \in Lanes, NEW l \in Lanes
              PROVE  /\ Distinct(slanes[d]) => Distinct(RemoveLane(d, l))
                     /\ Elements(RemoveLane(d, l)) \subseteq Elements(slanes[d])
          BY RemoveLaneEffect
        <4> QED
          BY <4>1, <4>2
      <3>4. ASSUME NEW d \in Lanes, NEW s \in {slanes'[d], ssend'[d].lanes}
            PROVE  /\ Distinct(s)
                   /\ \A m \in Elements(s) : connOf[m] = d /\ handler[m] \in {"attached", "closed"}
        BY <3>1, <3>2, <3>3 DEF LanesOfConn
      <3> QED
        BY <3>1, <3>4 DEF LanesOfConn
    <2>11. ASSUME NEW c \in Lanes, RetryWrite(c) PROVE LanesOfConn'
      <3>1. /\ \A d \in Lanes : ssend'[d].lanes \in {ssend[d].lanes, slanes[d], << >>}
            /\ UNCHANGED <<connOf, handler, slanes>>
        BY <1>2, <2>11, ServerSenderStep DEF RetryWrite
      <3>2. Distinct(<< >>) /\ Elements(<< >>) = {}
        BY DEF Distinct, Elements
      <3> QED
        BY <3>1, <3>2 DEF LanesOfConn
    <2>12. ASSUME NEW c \in Lanes, SWriteFin(c) PROVE LanesOfConn'
      <3>1. /\ \A d \in Lanes : ssend'[d].lanes \in {ssend[d].lanes, slanes[d], << >>}
            /\ UNCHANGED <<connOf, handler, slanes>>
        BY <1>2, <2>12, ServerSenderStep DEF SWriteFin
      <3>2. Distinct(<< >>) /\ Elements(<< >>) = {}
        BY DEF Distinct, Elements
      <3> QED
        BY <3>1, <3>2 DEF LanesOfConn
    <2>13. CASE ServerStops
      BY <1>0, <1>2, <2>13 DEF ServerStops
    <2>14. ASSUME NEW l \in Lanes, SReadFrame(l)
          PROVE  LanesOfConn'
      BY <1>0, <1>2, <2>14 DEF SReadFrame
    <2>15. ASSUME NEW c \in Lanes, Forget(c) \/ CheckLanes(c) \/ AwaitLane(c) \/
       DialFails(c) \/ RunReturns(c) \/ ReceiveUp(c) \/ DeliverUp(c) \/ FinishUp(c) \/
       BackendResets(c)
          PROVE  LanesOfConn'
      BY <1>0, <1>2, <2>15 DEF Forget, CheckLanes, SetRun, AwaitLane, DialFails,
         RunReturns, ReceiveUp, DeliverUp, FinishUp, BackendResets
    <2> QED
      BY <1>2, <2>1, <2>2, <2>3, <2>4, <2>5, <2>6, <2>7, <2>8, <2>9, <2>10, <2>11,
         <2>12, <2>13, <2>14, <2>15 DEF ServerNext
  <1>3. CASE WireNext /\ UNCHANGED <<clientVars, serverVars>>
    BY <1>0, <1>3 DEF WireNext, BreakLane
  <1>4. CASE UNCHANGED vars
    BY <1>0, <1>4 DEF vars
  <1> QED
    BY <1>1, <1>2, <1>3, <1>4 DEF Next

-----------------------------------------------------------------------------
(* The upload: what is under way was read, and a receiver writes it in order. *)

\* A frame that was right stays right: the source only counts up, and stops at its FIN.
LEMMA UpFrameStays ==
    ASSUME SourceHistory, NEW f \in Frames, UpFrame(f), ClientTypes, ClientTypes'
    PROVE  UpFrame(f)'
  <1>1. csend.seq \in Nat /\ csend'.seq \in Nat
    BY DEF ClientTypes, ClientSenders
  <1>2. f.typ = "data" => f.seq \in Nat
    BY DEF Frames
  <1> QED
    BY <1>1, <1>2 DEF UpFrame, SourceHistory

\* Every frame towards the server holds a chunk that was read, or the number of all.
LEMMA UpFramesStep ==
    ASSUME BondInv, [Next]_vars, TypeOK'
    PROVE  UpFrames'
  <1> USE DEF BondInv, TypeOK
  <1>1. SourceHistory /\ UpWritten /\ QueueWritten
    BY SourceStep, UpWrittenStep, QueueWrittenStep
  <1>2. csend.seq \in Nat
    BY DEF ClientTypes, ClientSenders
  <1>3. ASSUME NEW l \in Lanes PROVE Elements(up[l]) \subseteq Frames /\ Elements(srecv[l]) \subseteq Frames
    BY FrameElements DEF WireTypes, QueueTypes
  <1>4. ASSUME NEW f \in Frames, UpFrame(f) PROVE UpFrame(f)'
    BY <1>1, <1>4, UpFrameStays
  <1>5. ASSUME NEW l \in Lanes, NEW f \in Elements(up'[l]) PROVE UpFrame(f)'
    <2>1. CASE f \in Elements(up[l])
      BY <1>3, <1>4, <2>1 DEF UpFrames
    <2>2. CASE f.typ \in {"hello", "torn"}
      BY <2>2 DEF UpFrame
    <2>3. CASE f = DataFrame(csend.seq, Chunk(Local, csend.seq)) /\ csend'.seq = csend.seq + 1
      BY <1>2, <2>3 DEF UpFrame, DataFrame
    <2>4. CASE f = FinFrame(csend.seq) /\ csend'.pc = "done" /\ csend'.seq = csend.seq
      BY <1>2, <2>4 DEF UpFrame, FinFrame
    <2> QED
      BY <1>1, <2>1, <2>2, <2>3, <2>4 DEF UpWritten
  <1>6. ASSUME NEW c \in Lanes, NEW f \in Elements(srecv'[c]) PROVE UpFrame(f)'
    <2>1. f \in Frames /\ UpFrame(f)
      BY <1>1, <1>3 DEF QueueWritten, UpFrames
    <2> QED
      BY <1>4, <2>1
  <1> QED
    BY <1>5, <1>6 DEF UpFrames

\* A receiver that does not move stays right.
LEMMA UpReceiverStays ==
    ASSUME SourceHistory, NEW r, IsReceiver(r), UpReceiver(r), ClientTypes, ClientTypes'
    PROVE  UpReceiver(r)'
  <1>1. csend.seq \in Nat /\ csend'.seq \in Nat /\ Len(r.out) \in Nat
    BY DEF ClientTypes, ClientSenders, IsReceiver
  <1>2. \A s \in DOMAIN r.pending : s \in Nat
    BY DEF IsReceiver
  <1> QED
    BY <1>1, <1>2 DEF UpReceiver, SourceHistory

\* A frame that is right leaves it right.
LEMMA UpTake ==
    ASSUME NEW r, IsReceiver(r), UpReceiver(r), NEW f \in Frames, f.typ \in Whole, UpFrame(f)
    PROVE  UpReceiver(Take(r, f))
  <1> DEFINE t == Take(r, f)
  <1>1. t.pc = r.pc /\ t.expect = r.expect /\ t.out = r.out
    BY TakeEffect
  <1>2. \A s \in DOMAIN t.pending : s < csend.seq /\ t.pending[s] = Chunk(Local, s)
    <2>1. CASE f.typ = "data"
      <3>1. /\ DOMAIN t.pending = DOMAIN r.pending \cup {f.seq}
            /\ t.pending[f.seq] = f.data
            /\ \A s \in DOMAIN r.pending \ {f.seq} : t.pending[s] = r.pending[s]
        BY <2>1, TakeEffect
      <3> HIDE DEF t
      <3> QED
        BY <2>1, <3>1 DEF UpReceiver, UpFrame
    <2>2. CASE f.typ = "fin"
      <3>1. t.pending = r.pending
        BY <2>2, TakeEffect
      <3> HIDE DEF t
      <3> QED
        BY <3>1 DEF UpReceiver
    <2> QED
      BY <2>1, <2>2 DEF Whole
  <1>3. t.fin # NoFin => csend.pc = "done" /\ t.fin = csend.seq
    <2>1. t.fin = r.fin \/ (f.typ = "fin" /\ t.fin \in {r.fin, f.seq})
      BY TakeEffect DEF Whole
    <2> HIDE DEF t
    <2> QED
      BY <2>1 DEF UpReceiver, UpFrame
  <1> HIDE DEF t
  <1>4. UpReceiver(t)
    BY <1>1, <1>2, <1>3 DEF UpReceiver
  <1> QED
    BY <1>4 DEF t

\* The next chunk is the one the source read next.
LEMMA UpDeliver ==
    ASSUME NEW r, IsReceiver(r), UpReceiver(r), Deliverable(r), ClientTypes
    PROVE  UpReceiver(Deliver(r)) /\ Len(r.out) < csend.seq
  <1> DEFINE t == Deliver(r)
  <1>1. /\ r.out \in Seq(Chunks) /\ Len(r.out) \in Nat /\ csend.seq \in Nat
        /\ r.pc = "run" /\ r.expect \in DOMAIN r.pending /\ r.pending[r.expect] \in Chunks
        /\ r.expect = Len(r.out)
    BY DEF IsReceiver, Deliverable, UpReceiver, ClientTypes, ClientSenders
  <1>2. r.expect < csend.seq /\ r.pending[r.expect] = Chunk(Local, Len(r.out))
    BY <1>1 DEF UpReceiver
  <1>3. /\ t.pc = "run" /\ t.fin = r.fin /\ t.expect = r.expect + 1
        /\ t.out = Append(r.out, r.pending[r.expect])
        /\ DOMAIN t.pending \subseteq DOMAIN r.pending
        /\ \A s \in DOMAIN t.pending : t.pending[s] = r.pending[s]
    BY <1>1, DeliverEffect
  <1> HIDE DEF t
  <1>4. Len(t.out) = Len(r.out) + 1 /\ DOMAIN t.out = 1 .. Len(r.out) + 1 /\ DOMAIN r.out = 1 .. Len(r.out)
    BY <1>1, <1>3
  <1>5. \A i \in DOMAIN t.out : t.out[i] = Chunk(Local, i - 1)
    <2>1. ASSUME NEW i \in 1 .. Len(r.out) PROVE t.out[i] = Chunk(Local, i - 1)
      <3>1. t.out[i] = r.out[i]
        BY <1>1, <1>3, <2>1
      <3> QED
        BY <1>4, <3>1 DEF UpReceiver
    <2>2. t.out[Len(r.out) + 1] = Chunk(Local, Len(r.out) + 1 - 1)
      <3>1. t.out[Len(r.out) + 1] = Chunk(Local, Len(r.out)) /\ Len(r.out) + 1 - 1 = Len(r.out)
        BY <1>1, <1>2, <1>3
      <3> QED
        BY <3>1
    <2> QED
      BY <1>1, <1>4, <2>1, <2>2
  <1>6. UpReceiver(t)
    BY <1>1, <1>2, <1>3, <1>4, <1>5 DEF UpReceiver
  <1> QED
    BY <1>1, <1>2, <1>6 DEF t

\* A receiver that returns has what it says.
LEMMA UpReturned ==
    ASSUME NEW r, IsReceiver(r), UpReceiver(r), NEW p \in {"finished", "ended"},
           p = "finished" => FinReached(r)
    PROVE  UpReceiver(Returned(r, p))
  <1> DEFINE t == Returned(r, p)
  <1>1. t.pc = p /\ t.out = r.out /\ t.fin = NoFin /\ DOMAIN t.pending = {}
    BY ReturnedEffect
  <1>2. p = "finished" => r.pc = "run" /\ r.fin = r.expect /\ r.fin # NoFin
    BY DEF FinReached, IsReceiver, NoFin
  <1> HIDE DEF t
  <1>3. UpReceiver(t)
    BY <1>1, <1>2 DEF UpReceiver
  <1> QED
    BY <1>3 DEF t

\* Every copyBondToBackend writes the chunks of the source in order.
LEMMA UpReceivedStep ==
    ASSUME BondInv, [Next]_vars, TypeOK'
    PROVE  UpReceived'
  <1> USE DEF wireVars, streamVars, clientVars, openVars, serverVars, regVars, waitVars
  <1> USE DEF BondInv, TypeOK
  <1>0. ASSUME UNCHANGED <<srcv>> PROVE UpReceived'
    BY <1>0, SourceStep, UpReceiverStays DEF UpReceived, ReceiverTypes
  <1>1. CASE ClientNext /\ UNCHANGED serverVars
    <2>1. CASE OpenLane \/ StartCopying \/ ReadLocalChunk \/ ReadLocalEnds \/
       WriteToLane \/ NoLiveLanes \/ WriteFin \/ ReceiveDown \/ DeliverDown \/
       FinishDown \/ CloseBonded \/ ClientStops \/ LocalResets
      BY <1>0, <1>1, <2>1 DEF OpenLane, StartCopying, ReadLocalChunk, ReadLocalEnds,
         WriteToLane, NoLiveLanes, WriteFin, ReceiveDown, ReturnDownload, DeliverDown,
         FinishDown, CloseBonded, ClientStops, LocalResets
    <2>2. ASSUME NEW l \in Lanes, ReadLaneFrame(l) \/ ReadLaneEnds(l)
          PROVE  UpReceived'
      BY <1>0, <1>1, <2>2 DEF ReadLaneFrame, ReadLaneEnds
    <2> QED
      BY <1>1, <2>1, <2>2 DEF ClientNext
  <1>2. CASE ServerNext /\ UNCHANGED clientVars
    <2>1. ASSUME NEW c \in Lanes, ReceiveUp(c) PROVE UpReceived'
      <3>1. csend' = csend
        BY <1>2
      <3>2. ASSUME srecv[c] # << >> PROVE UpReceiver(Take(srcv[c], Head(srecv[c])))
        <4>1. Head(srecv[c]) \in Frames /\ Head(srecv[c]).typ \in Whole /\ UpFrame(Head(srecv[c]))
          BY <3>2, FrameElements DEF QueueTypes, UpFrames
        <4> QED
          BY <4>1, UpTake DEF ReceiverTypes, UpReceived
      <3>3. UpReceiver(Returned(srcv[c], "ended"))
        BY UpReturned DEF ReceiverTypes, UpReceived
      <3>4. /\ \A d \in Lanes \ {c} : srcv'[d] = srcv[d]
            /\ \/ srecv[c] # << >> /\ srcv'[c] = Take(srcv[c], Head(srecv[c]))
               \/ srcv'[c] = Returned(srcv[c], "ended")
        BY <2>1 DEF ReceiveUp, ReceiverTypes
      <3>5. \A d \in Lanes : UpReceiver(srcv'[d])
        BY <3>2, <3>3, <3>4 DEF UpReceived
      <3> QED
        BY <3>1, <3>5 DEF UpReceived, UpReceiver
    <2>2. ASSUME NEW c \in Lanes, DeliverUp(c) PROVE UpReceived'
      <3>1. csend' = csend
        BY <1>2
      <3>2. UpReceiver(Deliver(srcv[c])) /\ UpReceiver(Returned(srcv[c], "ended"))
        BY <2>2, UpDeliver, UpReturned DEF DeliverUp, ReceiverTypes, UpReceived
      <3>3. /\ \A d \in Lanes \ {c} : srcv'[d] = srcv[d]
            /\ srcv'[c] \in {Deliver(srcv[c]), Returned(srcv[c], "ended")}
        BY <2>2 DEF DeliverUp, ReceiverTypes
      <3>4. \A d \in Lanes : UpReceiver(srcv'[d])
        BY <3>2, <3>3 DEF UpReceived
      <3> QED
        BY <3>1, <3>4 DEF UpReceived, UpReceiver
    <2>3. ASSUME NEW c \in Lanes, FinishUp(c) PROVE UpReceived'
      <3>1. csend' = csend
        BY <1>2
      <3>2. UpReceiver(Returned(srcv[c], "finished"))
        BY <2>3, UpReturned DEF FinishUp, ReceiverTypes, UpReceived
      <3>3. /\ \A d \in Lanes \ {c} : srcv'[d] = srcv[d]
            /\ srcv'[c] = Returned(srcv[c], "finished")
        BY <2>3 DEF FinishUp, ReceiverTypes
      <3>4. \A d \in Lanes : UpReceiver(srcv'[d])
        BY <3>2, <3>3 DEF UpReceived
      <3> QED
        BY <3>1, <3>4 DEF UpReceived, UpReceiver
    <2>4. CASE ServerStops
      BY <1>0, <1>2, <2>4 DEF ServerStops
    <2>5. ASSUME NEW l \in Lanes, GetConn(l) \/ HelloFails(l) \/ AddLane(l) \/
       HandlerReturns(l) \/ SReadFrame(l) \/ SReadEnds(l)
          PROVE  UpReceived'
      BY <1>0, <1>2, <2>5 DEF GetConn, HelloFails, AddLane, HandlerReturns, SReadFrame,
         SReadEnds
    <2>6. ASSUME NEW c \in Lanes, Forget(c) \/ CheckLanes(c) \/ AwaitLane(c) \/ Dial(c)
       \/ DialFails(c) \/ RunReturns(c) \/ ReadBackendChunk(c) \/ ReadBackendEnds(c) \/
       SnapshotLanes(c) \/ SWriteToLane(c) \/ RetryWrite(c) \/ SWriteFin(c) \/
       BackendResets(c)
          PROVE  UpReceived'
      BY <1>0, <1>2, <2>6 DEF Forget, CheckLanes, SetRun, AwaitLane, Dial, DialFails,
         RunReturns, ReadBackendChunk, ReadBackendEnds, SnapshotLanes, SWriteToLane,
         ReturnSend, RetryWrite, SWriteFin, BackendResets
    <2> QED
      BY <1>2, <2>1, <2>2, <2>3, <2>4, <2>5, <2>6 DEF ServerNext
  <1>3. CASE WireNext /\ UNCHANGED <<clientVars, serverVars>>
    BY <1>0, <1>3 DEF WireNext, BreakLane
  <1>4. CASE UNCHANGED vars
    BY <1>0, <1>4 DEF vars
  <1> QED
    BY <1>1, <1>2, <1>3, <1>4 DEF Next

-----------------------------------------------------------------------------
(* The download: the same, from any of the conns.                          *)

\* A conn whose sender has returned stays one.
LEMMA DownEndedStays ==
    ASSUME ConnHistory, NEW n, DownEnded(n)
    PROVE  DownEnded(n)'
  <1>1. PICK c \in Lanes : connOf[c] = c /\ ssend[c].pc = "done" /\ ssend[c].seq = n
    BY DEF DownEnded, Created
  <1>2. c # NoConn
    BY DEF Lanes, NoConn
  <1>3. connOf'[c] = c /\ ssend'[c].pc = "done" /\ ssend'[c].seq = n
    BY <1>1, <1>2 DEF ConnHistory
  <1> QED
    BY <1>3 DEF DownEnded, Created

\* Every frame towards the client holds a chunk with its number, or the number of all the
\* chunks of one conn.
LEMMA DownFramesStep ==
    ASSUME BondInv, [Next]_vars
    PROVE  DownFrames'
  <1> USE DEF BondInv, TypeOK
  <1>1. ConnHistory /\ DownWritten /\ QueueWritten
    BY ConnHistoryStep, DownWrittenStep, QueueWrittenStep
  <1>2. ASSUME NEW f, DownFrame(f) PROVE DownFrame(f)'
    BY <1>1, <1>2, DownEndedStays DEF DownFrame
  <1>3. ASSUME NEW l \in Lanes, NEW f \in Elements(down'[l]) PROVE DownFrame(f)'
    <2>1. CASE f \in Elements(down[l])
      BY <1>2, <2>1 DEF DownFrames
    <2>2. CASE f.typ = "torn"
      BY <2>2 DEF DownFrame
    <2>3. ASSUME NEW c \in Lanes, f = DataFrame(ssend[c].seq, Chunk(c, ssend[c].seq))
          PROVE  DownFrame(f)'
      BY <2>3 DEF DownFrame, DataFrame, Chunk
    <2>4. ASSUME NEW c \in Lanes, f = FinFrame(ssend[c].seq), ssend[c].pc = "fin",
                 ssend'[c].pc = "done", ssend'[c].seq = ssend[c].seq
          PROVE  DownFrame(f)'
      <3>1. connOf[c] = c /\ c # NoConn
        BY <2>4 DEF ConnKnown, Lanes, NoConn
      <3>2. connOf'[c] = c
        BY <1>1, <3>1 DEF ConnHistory
      <3>3. DownEnded(f.seq)'
        BY <2>4, <3>2 DEF DownEnded, Created, FinFrame
      <3> QED
        BY <2>4, <3>3 DEF DownFrame, FinFrame
    <2> QED
      BY <1>1, <2>1, <2>2, <2>3, <2>4 DEF DownWritten
  <1>4. ASSUME NEW f \in Elements(crecv') PROVE DownFrame(f)'
    <2>1. DownFrame(f)
      BY <1>1 DEF QueueWritten, DownFrames
    <2> QED
      BY <1>2, <2>1
  <1> QED
    BY <1>3, <1>4 DEF DownFrames

\* What copyBondToTCP knows, for any receiver.
DownReceiver(r) ==
    /\ \A s \in DOMAIN r.pending : r.pending[s].src \in Lanes /\ r.pending[s].n = s
    /\ r.fin # NoFin => DownEnded(r.fin)
    /\ \A i \in DOMAIN r.out : r.out[i].src \in Lanes /\ r.out[i].n = i - 1
    /\ r.pc = "run" => Len(r.out) = r.expect
    /\ r.pc = "finished" => DownEnded(Len(r.out))

\* The ways copyBondToTCP moves.
DownloadMoves ==
    \/ crcv' = crcv
    \/ crecv # << >> /\ crcv' = Take(crcv, Head(crecv))
    \/ Deliverable(crcv) /\ crcv' = Deliver(crcv)
    \/ crcv' = Returned(crcv, "ended")
    \/ FinReached(crcv) /\ crcv' = Returned(crcv, "finished")

\* A frame that is right leaves the receiver right, ...
LEMMA DownTake ==
    ASSUME NEW r, IsReceiver(r), DownReceiver(r), NEW f \in Frames, f.typ \in Whole, DownFrame(f)
    PROVE  DownReceiver(Take(r, f))
  <1> DEFINE t == Take(r, f)
  <1>1. t.pc = r.pc /\ t.expect = r.expect /\ t.out = r.out
    BY TakeEffect
  <1>2. \A s \in DOMAIN t.pending : t.pending[s].src \in Lanes /\ t.pending[s].n = s
    <2>1. CASE f.typ = "data"
      <3>1. /\ DOMAIN t.pending = DOMAIN r.pending \cup {f.seq}
            /\ t.pending[f.seq] = f.data
            /\ \A s \in DOMAIN r.pending \ {f.seq} : t.pending[s] = r.pending[s]
        BY <2>1, TakeEffect
      <3> HIDE DEF t
      <3> QED
        BY <2>1, <3>1 DEF DownReceiver, DownFrame
    <2>2. CASE f.typ = "fin"
      <3>1. t.pending = r.pending
        BY <2>2, TakeEffect
      <3> HIDE DEF t
      <3> QED
        BY <3>1 DEF DownReceiver
    <2> QED
      BY <2>1, <2>2 DEF Whole
  <1>3. t.fin # NoFin => DownEnded(t.fin)
    <2>1. t.fin = r.fin \/ (f.typ = "fin" /\ t.fin \in {r.fin, f.seq})
      BY TakeEffect DEF Whole
    <2> HIDE DEF t
    <2> QED
      BY <2>1 DEF DownReceiver, DownFrame
  <1> HIDE DEF t
  <1>4. DownReceiver(t)
    BY <1>1, <1>2, <1>3 DEF DownReceiver
  <1> QED
    BY <1>4 DEF t

\* ... the chunk that is due has the next number, ...
LEMMA DownDeliver ==
    ASSUME NEW r, IsReceiver(r), DownReceiver(r), Deliverable(r)
    PROVE  DownReceiver(Deliver(r))
  <1> DEFINE t == Deliver(r)
  <1>1. /\ r.out \in Seq(Chunks) /\ Len(r.out) \in Nat
        /\ r.pc = "run" /\ r.expect \in DOMAIN r.pending /\ r.pending[r.expect] \in Chunks
        /\ r.expect = Len(r.out)
    BY DEF IsReceiver, Deliverable, DownReceiver
  <1>2. r.pending[r.expect].src \in Lanes /\ r.pending[r.expect].n = Len(r.out)
    BY <1>1 DEF DownReceiver
  <1>3. /\ t.pc = "run" /\ t.fin = r.fin /\ t.expect = r.expect + 1
        /\ t.out = Append(r.out, r.pending[r.expect])
        /\ DOMAIN t.pending \subseteq DOMAIN r.pending
        /\ \A s \in DOMAIN t.pending : t.pending[s] = r.pending[s]
    BY <1>1, DeliverEffect
  <1> HIDE DEF t
  <1>4. Len(t.out) = Len(r.out) + 1 /\ DOMAIN t.out = 1 .. Len(r.out) + 1 /\ DOMAIN r.out = 1 .. Len(r.out)
    BY <1>1, <1>3
  <1>5. \A i \in DOMAIN t.out : t.out[i].src \in Lanes /\ t.out[i].n = i - 1
    <2>1. ASSUME NEW i \in 1 .. Len(r.out) PROVE t.out[i].src \in Lanes /\ t.out[i].n = i - 1
      <3>1. t.out[i] = r.out[i]
        BY <1>1, <1>3, <2>1
      <3> QED
        BY <1>4, <3>1 DEF DownReceiver
    <2>2. t.out[Len(r.out) + 1] = r.pending[r.expect] /\ Len(r.out) + 1 - 1 = Len(r.out)
      BY <1>1, <1>3
    <2> QED
      BY <1>1, <1>2, <1>4, <2>1, <2>2
  <1>6. DownReceiver(t)
    BY <1>1, <1>2, <1>3, <1>4, <1>5 DEF DownReceiver
  <1> QED
    BY <1>6 DEF t

\* ... and one that returns has what it says.
LEMMA DownReturned ==
    ASSUME NEW r, IsReceiver(r), DownReceiver(r), NEW p \in {"finished", "ended"},
           p = "finished" => FinReached(r)
    PROVE  DownReceiver(Returned(r, p))
  <1> DEFINE t == Returned(r, p)
  <1>1. t.pc = p /\ t.out = r.out /\ t.fin = NoFin /\ DOMAIN t.pending = {}
    BY ReturnedEffect
  <1>2. p = "finished" => r.pc = "run" /\ r.fin = r.expect /\ r.fin # NoFin
    BY DEF FinReached, IsReceiver, NoFin
  <1> HIDE DEF t
  <1>3. DownReceiver(t)
    BY <1>1, <1>2 DEF DownReceiver
  <1> QED
    BY <1>3 DEF t

\* What a step may do to copyBondToTCP.
LEMMA DownloadStep ==
    ASSUME [Next]_vars
    PROVE  DownloadMoves
  <1> USE DEF wireVars, streamVars, clientVars, openVars, serverVars, regVars, waitVars
  <1>0. ASSUME UNCHANGED <<crcv>> PROVE DownloadMoves
    BY <1>0 DEF DownloadMoves
  <1>1. CASE ClientNext /\ UNCHANGED serverVars
    <2>1. CASE ReceiveDown
      BY <1>1, <2>1 DEF ReceiveDown, ReturnDownload, DownloadMoves
    <2>2. CASE DeliverDown
      BY <1>1, <2>2 DEF DeliverDown, ReturnDownload, DownloadMoves
    <2>3. CASE FinishDown
      BY <1>1, <2>3 DEF FinishDown, ReturnDownload, DownloadMoves
    <2>4. CASE OpenLane \/ StartCopying \/ ReadLocalChunk \/ ReadLocalEnds \/
       WriteToLane \/ NoLiveLanes \/ WriteFin \/ CloseBonded \/ ClientStops \/
       LocalResets
      BY <1>0, <1>1, <2>4 DEF OpenLane, StartCopying, ReadLocalChunk, ReadLocalEnds,
         WriteToLane, NoLiveLanes, WriteFin, CloseBonded, ClientStops, LocalResets
    <2>5. ASSUME NEW l \in Lanes, ReadLaneFrame(l) \/ ReadLaneEnds(l)
          PROVE  DownloadMoves
      BY <1>0, <1>1, <2>5 DEF ReadLaneFrame, ReadLaneEnds
    <2> QED
      BY <1>1, <2>1, <2>2, <2>3, <2>4, <2>5 DEF ClientNext
  <1>2. CASE ServerNext /\ UNCHANGED clientVars
    <2>1. CASE ServerStops
      BY <1>0, <1>2, <2>1 DEF ServerStops
    <2>2. ASSUME NEW l \in Lanes, GetConn(l) \/ HelloFails(l) \/ AddLane(l) \/
       HandlerReturns(l) \/ SReadFrame(l) \/ SReadEnds(l)
          PROVE  DownloadMoves
      BY <1>0, <1>2, <2>2 DEF GetConn, HelloFails, AddLane, HandlerReturns, SReadFrame,
         SReadEnds
    <2>3. ASSUME NEW c \in Lanes, Forget(c) \/ CheckLanes(c) \/ AwaitLane(c) \/ Dial(c)
       \/ DialFails(c) \/ RunReturns(c) \/ ReceiveUp(c) \/ DeliverUp(c) \/ FinishUp(c)
       \/ ReadBackendChunk(c) \/ ReadBackendEnds(c) \/ SnapshotLanes(c) \/
       SWriteToLane(c) \/ RetryWrite(c) \/ SWriteFin(c) \/ BackendResets(c)
          PROVE  DownloadMoves
      BY <1>0, <1>2, <2>3 DEF Forget, CheckLanes, SetRun, AwaitLane, Dial, DialFails,
         RunReturns, ReceiveUp, DeliverUp, FinishUp, ReadBackendChunk, ReadBackendEnds,
         SnapshotLanes, SWriteToLane, ReturnSend, RetryWrite, SWriteFin, BackendResets
    <2> QED
      BY <1>2, <2>1, <2>2, <2>3 DEF ServerNext
  <1>3. CASE WireNext /\ UNCHANGED <<clientVars, serverVars>>
    BY <1>0, <1>3 DEF WireNext, BreakLane
  <1>4. CASE UNCHANGED vars
    BY <1>0, <1>4 DEF vars
  <1> QED
    BY <1>1, <1>2, <1>3, <1>4 DEF Next

\* copyBondToTCP writes the chunks in the order of their numbers.
LEMMA DownReceivedStep ==
    ASSUME BondInv, [Next]_vars
    PROVE  DownReceived'
  <1> USE DEF BondInv, TypeOK
  <1>1. IsReceiver(crcv) /\ DownReceiver(crcv) /\ ConnHistory
    BY ConnHistoryStep DEF ReceiverTypes, DownReceived, DownReceiver
  <1>2. DownReceiver(crcv')
    <2>1. CASE crcv' = crcv
      BY <1>1, <2>1
    <2>2. CASE crecv # << >> /\ crcv' = Take(crcv, Head(crecv))
      <3>1. Head(crecv) \in Frames /\ Head(crecv).typ \in Whole /\ DownFrame(Head(crecv))
        BY <2>2, FrameElements DEF QueueTypes, DownFrames
      <3> QED
        BY <1>1, <2>2, <3>1, DownTake
    <2>3. CASE Deliverable(crcv) /\ crcv' = Deliver(crcv)
      BY <1>1, <2>3, DownDeliver
    <2>4. CASE crcv' = Returned(crcv, "ended")
      BY <1>1, <2>4, DownReturned
    <2>5. CASE FinReached(crcv) /\ crcv' = Returned(crcv, "finished")
      BY <1>1, <2>5, DownReturned
    <2> QED
      BY <2>1, <2>2, <2>3, <2>4, <2>5, DownloadStep DEF DownloadMoves
  <1>3. ASSUME NEW n, DownEnded(n) PROVE DownEnded(n)'
    BY <1>1, <1>3, DownEndedStays
  <1> QED
    BY <1>2, <1>3 DEF DownReceiver, DownReceived

-----------------------------------------------------------------------------
(* Torn frames.                                                            *)

\* What a lane may become without anybody writing it.
Shorter(w) == {w, << >>} \cup {SubSeq(w, 1, i) : i \in 0 .. Len(w)}
              \cup IF w = << >> THEN {} ELSE {Tail(w)}

\* A lane that is read or cut gets no torn frame.
LEMMA ShorterTorn ==
    ASSUME NEW w \in Seq(Frames), TornIsLast(w), NEW v \in Shorter(w)
    PROVE  TornIsLast(v) /\ (HasTorn(v) => HasTorn(w))
  <1>0. Len(w) \in Nat /\ DOMAIN w = 1 .. Len(w)
    OBVIOUS
  <1>1. CASE v = w
    BY <1>1
  <1>2. CASE v = << >>
    BY <1>2 DEF TornIsLast, HasTorn
  <1>3. ASSUME NEW i \in 0 .. Len(w), v = SubSeq(w, 1, i)
        PROVE  TornIsLast(v) /\ (HasTorn(v) => HasTorn(w))
    <2>1. Len(v) = i /\ DOMAIN v = 1 .. i /\ \A j \in 1 .. i : v[j] = w[j]
      BY <1>3
    <2> QED
      BY <1>0, <2>1 DEF TornIsLast, HasTorn
  <1>4. CASE w # << >> /\ v = Tail(w)
    <2>1. /\ Len(v) = Len(w) - 1 /\ DOMAIN v = 1 .. Len(w) - 1 /\ Len(w) > 0
          /\ \A j \in 1 .. Len(w) - 1 : v[j] = w[j + 1]
      BY <1>4
    <2>2. ASSUME NEW j \in DOMAIN v, v[j].typ = "torn"
          PROVE  j = Len(v) /\ j + 1 \in DOMAIN w /\ w[j + 1].typ = "torn"
      <3>1. j + 1 \in DOMAIN w /\ w[j + 1].typ = "torn"
        BY <1>0, <2>1, <2>2
      <3>2. j + 1 = Len(w)
        BY <3>1 DEF TornIsLast
      <3> QED
        BY <1>0, <2>1, <3>1, <3>2
    <2> QED
      BY <2>2 DEF TornIsLast, HasTorn
  <1> QED
    BY <1>1, <1>2, <1>3, <1>4 DEF Shorter

\* Nor does one that is written a whole frame.
LEMMA AppendTorn ==
    ASSUME NEW w \in Seq(Frames), ~HasTorn(w), NEW x \in Frames
    PROVE  TornIsLast(Append(w, x)) /\ (HasTorn(Append(w, x)) => x.typ = "torn")
  <1>1. /\ Len(w) \in Nat /\ DOMAIN w = 1 .. Len(w) /\ DOMAIN Append(w, x) = 1 .. Len(w) + 1
        /\ Len(Append(w, x)) = Len(w) + 1
        /\ \A j \in 1 .. Len(w) : Append(w, x)[j] = w[j]
        /\ Append(w, x)[Len(w) + 1] = x
    OBVIOUS
  <1>2. \A j \in 1 .. Len(w) : Append(w, x)[j].typ # "torn"
    BY <1>1 DEF HasTorn
  <1> QED
    BY <1>1, <1>2 DEF TornIsLast, HasTorn


\* The client writes no lane after a torn frame.
LEMMA TornUpStep ==
    ASSUME BondInv, [Next]_vars, TypeOK'
    PROVE  TornUp'
  <1> USE DEF wireVars, streamVars, clientVars, openVars, serverVars, regVars, waitVars
  <1> USE DEF BondInv, TypeOK
  <1>0. ASSUME UNCHANGED <<up, dead, chandler>> PROVE TornUp'
    BY <1>0 DEF TornUp
  <1>1. CASE ClientNext /\ UNCHANGED serverVars
    <2>1. CASE OpenLane
      <3>1. cand \in Lanes /\ HelloFrame \in Frames /\ HelloFrame.typ = "hello"
        BY <2>1, BondConstants DEF OpenLane, ClientTypes, Lanes, HelloFrame, Frames
      <3>2. /\ \A m \in Lanes : up'[m] \in {up[m], Append(up[m], HelloFrame)}
            /\ chandler = "opening"
        <4>1. chandler = "opening" /\ (up' = up \/ up' = Carried(up, cand, HelloFrame, sclosed))
          BY <2>1 DEF OpenLane
        <4>2. up \in [Lanes -> Seq(Frames)]
          BY DEF WireTypes
        <4>3. ASSUME up' = Carried(up, cand, HelloFrame, sclosed), NEW m \in Lanes
              PROVE  up'[m] \in {up[m], Append(up[m], HelloFrame)}
          BY <3>1, <4>2, <4>3, CarriedEffect
        <4> QED
          BY <4>1, <4>3
      <3>3. ASSUME NEW m \in Lanes PROVE TornIsLast(up'[m]) /\ ~HasTorn(up'[m])
        <4>1. up[m] \in Seq(Frames) /\ TornIsLast(up[m]) /\ ~HasTorn(up[m])
          BY <3>2 DEF WireTypes, TornUp
        <4> QED
          BY <3>1, <3>2, <4>1, AppendTorn
      <3> QED
        BY <3>3 DEF TornUp
    <2>2. CASE StartCopying
      BY <1>1, <2>2 DEF StartCopying, TornUp
    <2>3. CASE WriteToLane
      <3> DEFINE l == lanes[csend.laneIdx + 1]
                 f == DataFrame(csend.seq, Chunk(Local, csend.seq))
      <3>1. /\ csend.pc = "write" /\ l \in Lanes /\ f \in Frames /\ f.typ = "data"
            /\ TornFrame \in Frames /\ chandler # "opening" /\ chandler' = chandler
        BY <2>3, ClientAttempt DEF WriteToLane, DataFrame, TornFrame, Frames, ClientOrder
      <3>2. \/ UNCHANGED <<dead, up>>
            \/ /\ l \notin dead /\ up' \in WriteFrame(up, l, f, cclosed, sclosed)
               /\ UNCHANGED dead
            \/ /\ l \notin dead /\ up' \in WriteError(up, l, f, cclosed, sclosed, cctx)
               /\ dead' = dead \cup {l}
        BY <2>3, ClientAttempt
      <3> HIDE DEF l, f
      <3>3. ASSUME NEW m \in Lanes
            PROVE  /\ TornIsLast(up'[m])
                   /\ HasTorn(up'[m]) => m \in dead'
        <4>1. up[m] \in Seq(Frames) /\ TornIsLast(up[m]) /\ (HasTorn(up[m]) => m \in dead)
          BY DEF WireTypes, TornUp
        <4>2. CASE UNCHANGED <<dead, up>>
          BY <4>1, <4>2
        <4>3. CASE /\ l \notin dead /\ up' \in WriteFrame(up, l, f, cclosed, sclosed)
                   /\ UNCHANGED dead
          <5>1. up'[m] = up[m] \/ (m = l /\ up'[m] = Append(up[m], f))
            <6>1. up \in [Lanes -> Seq(Frames)] /\ up' \in WriteFrame(up, l, f, cclosed, sclosed)
              BY <4>3 DEF WireTypes
            <6>2. up'[m] \in {up[m], Append(up[m], f)}
              BY <3>1, <6>1, WriteEffect
            <6>3. m # l => up'[m] = up[m]
              BY <3>1, <6>1, WriteElsewhere, ErrorElsewhere
            <6> QED
              BY <6>2, <6>3
          <5> QED
            BY <3>1, <4>1, <4>3, <5>1, AppendTorn
        <4>4. CASE /\ l \notin dead /\ up' \in WriteError(up, l, f, cclosed, sclosed, cctx)
                   /\ dead' = dead \cup {l}
          <5>1. up'[m] = up[m] \/ (m = l /\ up'[m] = Append(up[m], TornFrame))
            <6>1. up \in [Lanes -> Seq(Frames)] /\ up' \in WriteError(up, l, f, cclosed, sclosed, cctx)
              BY <4>4 DEF WireTypes
            <6>2. up'[m] \in {up[m], Append(up[m], TornFrame)}
              BY <3>1, <6>1, WriteEffect
            <6>3. m # l => up'[m] = up[m]
              BY <3>1, <6>1, WriteElsewhere, ErrorElsewhere
            <6> QED
              BY <6>2, <6>3
          <5> QED
            BY <3>1, <4>1, <4>4, <5>1, AppendTorn
        <4> QED
          BY <3>2, <4>2, <4>3, <4>4
      <3> QED
        BY <3>1, <3>3 DEF TornUp
    <2>4. CASE WriteFin
      <3>1. csend.seq \in Nat /\ FinFrame(csend.seq) \in Frames /\ FinFrame(csend.seq).typ = "fin"
        BY DEF ClientTypes, ClientSenders, FinFrame, Frames
      <3>2. ASSUME NEW m \in Lanes
            PROVE  up'[m] = up[m] \/ (m \notin dead /\ up'[m] = Append(up[m], FinFrame(csend.seq)))
        <4> DEFINE ls == LaneSet \ dead
        <4>1. /\ up \in [Lanes -> Seq(Frames)]
              /\ up' \in WriteFinTo(up, ls, csend.seq, cclosed, sclosed, cctx)
              /\ m \in dead => m \notin ls
          BY <2>4 DEF WriteFin, WireTypes
        <4> HIDE DEF ls
        <4>2. up'[m] \in {up[m], Append(up[m], FinFrame(csend.seq))}
          BY <3>1, <4>1, FinEffect
        <4>3. m \in dead => up'[m] = up[m]
          BY <3>1, <4>1, FinElsewhere
        <4> QED
          BY <4>2, <4>3
      <3>3. ASSUME NEW m \in Lanes
            PROVE  TornIsLast(up'[m]) /\ (HasTorn(up'[m]) => HasTorn(up[m]))
        <4>1. up[m] \in Seq(Frames) /\ TornIsLast(up[m]) /\ (HasTorn(up[m]) => m \in dead)
          BY DEF WireTypes, TornUp
        <4> QED
          BY <3>1, <3>2, <4>1, AppendTorn
      <3> QED
        BY <2>4, <3>3 DEF WriteFin, TornUp
    <2>5. CASE CloseBonded
      BY <1>1, <2>5 DEF CloseBonded, TornUp
    <2>6. ASSUME NEW l \in Lanes, ReadLaneEnds(l) PROVE TornUp'
      BY <1>1, <2>6 DEF ReadLaneEnds, TornUp
    <2>7. CASE ReadLocalChunk \/ ReadLocalEnds \/ NoLiveLanes \/ ReceiveDown \/
       DeliverDown \/ FinishDown \/ ClientStops \/ LocalResets
      BY <1>0, <1>1, <2>7 DEF ReadLocalChunk, ReadLocalEnds, NoLiveLanes, ReceiveDown,
         ReturnDownload, DeliverDown, FinishDown, ClientStops, LocalResets
    <2>8. ASSUME NEW l \in Lanes, ReadLaneFrame(l)
          PROVE  TornUp'
      BY <1>0, <1>1, <2>8 DEF ReadLaneFrame
    <2> QED
      BY <1>1, <2>1, <2>2, <2>3, <2>4, <2>5, <2>6, <2>7, <2>8 DEF ClientNext
  <1>2. CASE ServerNext /\ UNCHANGED clientVars
    <2>1. ASSUME NEW l \in Lanes, GetConn(l) PROVE TornUp'
      <3>1. ASSUME NEW m \in Lanes PROVE up'[m] \in Shorter(up[m])
        BY <2>1 DEF GetConn, WireTypes, Pop, Shorter
      <3>2. ASSUME NEW m \in Lanes
            PROVE  TornIsLast(up'[m]) /\ (HasTorn(up'[m]) => HasTorn(up[m]))
        BY <3>1, ShorterTorn DEF WireTypes, TornUp
      <3> QED
        BY <1>2, <3>2 DEF TornUp
    <2>2. ASSUME NEW l \in Lanes, HelloFails(l) PROVE TornUp'
      <3>1. ASSUME NEW m \in Lanes PROVE up'[m] \in Shorter(up[m])
        BY <2>2 DEF HelloFails, WireTypes, Discard, Shorter
      <3>2. ASSUME NEW m \in Lanes
            PROVE  TornIsLast(up'[m]) /\ (HasTorn(up'[m]) => HasTorn(up[m]))
        BY <3>1, ShorterTorn DEF WireTypes, TornUp
      <3> QED
        BY <1>2, <3>2 DEF TornUp
    <2>3. ASSUME NEW l \in Lanes, HandlerReturns(l) PROVE TornUp'
      <3>1. ASSUME NEW m \in Lanes PROVE up'[m] \in Shorter(up[m])
        BY <2>3 DEF HandlerReturns, WireTypes, Discard, Shorter
      <3>2. ASSUME NEW m \in Lanes
            PROVE  TornIsLast(up'[m]) /\ (HasTorn(up'[m]) => HasTorn(up[m]))
        BY <3>1, ShorterTorn DEF WireTypes, TornUp
      <3> QED
        BY <1>2, <3>2 DEF TornUp
    <2>4. ASSUME NEW l \in Lanes, SReadFrame(l) PROVE TornUp'
      <3>1. ASSUME NEW m \in Lanes PROVE up'[m] \in Shorter(up[m])
        BY <2>4 DEF SReadFrame, WireTypes, Pop, HasFrame, Shorter
      <3>2. ASSUME NEW m \in Lanes
            PROVE  TornIsLast(up'[m]) /\ (HasTorn(up'[m]) => HasTorn(up[m]))
        BY <3>1, ShorterTorn DEF WireTypes, TornUp
      <3> QED
        BY <1>2, <3>2 DEF TornUp
    <2>5. CASE ServerStops
      BY <1>0, <1>2, <2>5 DEF ServerStops
    <2>6. ASSUME NEW l \in Lanes, AddLane(l) \/ SReadEnds(l)
          PROVE  TornUp'
      BY <1>0, <1>2, <2>6 DEF AddLane, SReadEnds
    <2>7. ASSUME NEW c \in Lanes, Forget(c) \/ CheckLanes(c) \/ AwaitLane(c) \/ Dial(c)
       \/ DialFails(c) \/ RunReturns(c) \/ ReceiveUp(c) \/ DeliverUp(c) \/ FinishUp(c)
       \/ ReadBackendChunk(c) \/ ReadBackendEnds(c) \/ SnapshotLanes(c) \/
       SWriteToLane(c) \/ RetryWrite(c) \/ SWriteFin(c) \/ BackendResets(c)
          PROVE  TornUp'
      BY <1>0, <1>2, <2>7 DEF Forget, CheckLanes, SetRun, AwaitLane, Dial, DialFails,
         RunReturns, ReceiveUp, DeliverUp, FinishUp, ReadBackendChunk, ReadBackendEnds,
         SnapshotLanes, SWriteToLane, ReturnSend, RetryWrite, SWriteFin, BackendResets
    <2> QED
      BY <1>2, <2>1, <2>2, <2>3, <2>4, <2>5, <2>6, <2>7 DEF ServerNext
  <1>3. CASE WireNext /\ UNCHANGED <<clientVars, serverVars>>
    <2>1. ASSUME NEW l \in Lanes, BreakLane(l) PROVE TornUp'
      <3>1. ASSUME NEW m \in Lanes
            PROVE  up'[m] = up[m] \/ \E i \in 0 .. Len(up[m]) : up'[m] = SubSeq(up[m], 1, i)
        BY <2>1 DEF BreakLane, WireTypes
      <3>2. ASSUME NEW m \in Lanes PROVE up'[m] \in Shorter(up[m])
        BY <3>1 DEF Shorter
      <3>3. ASSUME NEW m \in Lanes
            PROVE  TornIsLast(up'[m]) /\ (HasTorn(up'[m]) => HasTorn(up[m]))
        BY <3>2, ShorterTorn DEF WireTypes, TornUp
      <3> QED
        BY <1>3, <3>3 DEF TornUp
    <2> QED
      BY <1>3, <2>1 DEF WireNext
  <1>4. CASE UNCHANGED vars
    BY <1>0, <1>4 DEF vars
  <1> QED
    BY <1>1, <1>2, <1>3, <1>4 DEF Next

\* No multiple of m lies strictly between 0 and m.
LEMMA QuotientBetween ==
    ASSUME NEW m \in Nat, NEW d \in Nat, NEW k \in Int, 0 < d, d < m
    PROVE  d # m * k
  <1>1. CASE k <= 0
    <2>1. m * k <= 0
      BY <1>1
    <2> QED
      BY <2>1
  <1>2. CASE k >= 1
    <2>1. m * k >= m
      BY <1>2
    <2> QED
      BY <2>1
  <1> QED
    BY <1>1, <1>2

\* The round robin: a lane comes up again only after all the others did.
LEMMA NotAgain ==
    ASSUME NEW n \in Nat, NEW m \in Nat, NEW d \in Nat, 0 < d, d < m
    PROVE  (n + d) % m # n % m
  <1> DEFINE q == n \div m
             p == (n + d) \div m
             r == n % m
             t == (n + d) % m
  <1>1. n = m * q + r /\ q \in Int /\ r \in Int
    OBVIOUS
  <1>2. n + d = m * p + t /\ p \in Int /\ t \in Int
    OBVIOUS
  <1> HIDE DEF q, p, r, t
  <1>3. m * (p - q) = m * p - m * q
    BY <1>1, <1>2
  <1>4. r # t
    BY <1>1, <1>2, <1>3, QuotientBetween
  <1> QED
    BY <1>4 DEF r, t

\* The positions to come are positions of the snapshot.
LEMMA UpcomingIn ==
    ASSUME NEW s \in ServerSenders
    PROVE  Upcoming(s) \subseteq DOMAIN s.lanes
  <1>1. /\ Len(s.lanes) \in Nat /\ DOMAIN s.lanes = 1 .. Len(s.lanes)
        /\ s.laneIdx \in Nat /\ s.attempts \in Nat
    BY DEF ServerSenders
  <1>2. ASSUME NEW d \in 0 .. Len(s.lanes) - 1 - s.attempts
        PROVE  ((s.laneIdx + d) % Len(s.lanes)) + 1 \in 1 .. Len(s.lanes)
    <2>1. Len(s.lanes) > 0 /\ s.laneIdx + d \in Nat
      BY <1>1
    <2>2. (s.laneIdx + d) % Len(s.lanes) \in 0 .. Len(s.lanes) - 1
      BY <1>1, <2>1
    <2> QED
      BY <1>1, <2>2
  <1> QED
    BY <1>1, <1>2 DEF Upcoming

\* One more attempt leaves the positions that were to come, without the one just tried.
LEMMA UpcomingNext ==
    ASSUME NEW s \in ServerSenders, NEW t \in ServerSenders, s.attempts < Len(s.lanes),
           t.lanes = s.lanes, t.laneIdx = s.laneIdx + 1, t.attempts = s.attempts + 1
    PROVE  /\ (s.laneIdx % Len(s.lanes)) + 1 \in Upcoming(s)
           /\ Upcoming(t) \subseteq Upcoming(s) \ {(s.laneIdx % Len(s.lanes)) + 1}
  <1> DEFINE n == Len(s.lanes)
             i == s.laneIdx
             a == s.attempts
  <1>1. n \in Nat /\ i \in Nat /\ a \in Nat /\ a < n
    BY DEF ServerSenders
  <1>2. /\ Upcoming(s) = {((i + d) % n) + 1 : d \in 0 .. n - 1 - a}
        /\ Upcoming(t) = {((i + 1 + d) % n) + 1 : d \in 0 .. n - 1 - (a + 1)}
    BY DEF Upcoming
  <1> HIDE DEF n, i, a
  <1>3. (i % n) + 1 \in Upcoming(s)
    <2>1. 0 \in 0 .. n - 1 - a /\ i + 0 = i
      BY <1>1
    <2> QED
      BY <1>2, <2>1
  <1>4. ASSUME NEW d \in 0 .. n - 1 - (a + 1)
        PROVE  ((i + 1 + d) % n) + 1 \in Upcoming(s) \ {(i % n) + 1}
    <2>1. /\ d + 1 \in 0 .. n - 1 - a /\ i + 1 + d = i + (d + 1)
          /\ d + 1 \in Nat /\ 0 < d + 1 /\ d + 1 < n
      BY <1>1
    <2>2. (i + (d + 1)) % n # i % n
      BY <1>1, <2>1, NotAgain
    <2>3. ((i + (d + 1)) % n) + 1 \in Upcoming(s)
      BY <1>2, <2>1
    <2>4. (i + (d + 1)) % n \in Int /\ i % n \in Int
      BY <1>1, <2>1
    <2> QED
      BY <2>1, <2>2, <2>3, <2>4
  <1> QED
    BY <1>2, <1>3, <1>4 DEF n, i

\* The server writes no lane after a torn frame.
LEMMA TornDownStep ==
    ASSUME BondInv, [Next]_vars, TypeOK'
    PROVE  TornDown'
  <1> USE DEF wireVars, streamVars, clientVars, openVars, serverVars, regVars, waitVars
  <1> USE DEF BondInv, TypeOK
  <1>0. ASSUME UNCHANGED <<down, connOf, handler, slanes, ssend>> PROVE TornDown'
    BY <1>0 DEF TornDown, Avoided, Upcoming
  <1>1. CASE ClientNext /\ UNCHANGED serverVars
    <2>1. CASE CloseBonded
      <3>1. ASSUME NEW m \in Lanes PROVE down'[m] \in Shorter(down[m])
        BY <2>1 DEF CloseBonded, WireTypes, Discard, Shorter
      <3>2. ASSUME NEW m \in Lanes
            PROVE  TornIsLast(down'[m]) /\ (HasTorn(down'[m]) => HasTorn(down[m]))
        BY <3>1, ShorterTorn DEF WireTypes, TornDown
      <3>3. ASSUME NEW m \in Lanes, Avoided(m) PROVE Avoided(m)'
        BY <1>1, <2>1, <3>3 DEF CloseBonded, Avoided, Upcoming
      <3> QED
        BY <3>2, <3>3 DEF TornDown
    <2>2. ASSUME NEW l \in Lanes, ReadLaneFrame(l) PROVE TornDown'
      <3>1. ASSUME NEW m \in Lanes PROVE down'[m] \in Shorter(down[m])
        BY <2>2 DEF ReadLaneFrame, WireTypes, Pop, HasFrame, Shorter
      <3>2. ASSUME NEW m \in Lanes
            PROVE  TornIsLast(down'[m]) /\ (HasTorn(down'[m]) => HasTorn(down[m]))
        BY <3>1, ShorterTorn DEF WireTypes, TornDown
      <3>3. ASSUME NEW m \in Lanes, Avoided(m) PROVE Avoided(m)'
        BY <1>1, <2>2, <3>3 DEF ReadLaneFrame, Avoided, Upcoming
      <3> QED
        BY <3>2, <3>3 DEF TornDown
    <2>3. CASE OpenLane \/ StartCopying \/ ReadLocalChunk \/ ReadLocalEnds \/
       WriteToLane \/ NoLiveLanes \/ WriteFin \/ ReceiveDown \/ DeliverDown \/
       FinishDown \/ ClientStops \/ LocalResets
      BY <1>0, <1>1, <2>3 DEF OpenLane, StartCopying, ReadLocalChunk, ReadLocalEnds,
         WriteToLane, NoLiveLanes, WriteFin, ReceiveDown, ReturnDownload, DeliverDown,
         FinishDown, ClientStops, LocalResets
    <2>4. ASSUME NEW l \in Lanes, ReadLaneEnds(l)
          PROVE  TornDown'
      BY <1>0, <1>1, <2>4 DEF ReadLaneEnds
    <2> QED
      BY <1>1, <2>1, <2>2, <2>3, <2>4 DEF ClientNext
  <1>2. CASE ServerNext /\ UNCHANGED clientVars
    <2>1. ASSUME NEW l \in Lanes, GetConn(l) PROVE TornDown'
      <3>0. down' = down
        BY <2>1 DEF GetConn
      <3>1. ASSUME NEW m \in Lanes, Avoided(m) PROVE Avoided(m)'
        <4>1. /\ connOf'[m] = connOf[m] /\ handler'[m] \in {"attached", "closed"}
              /\ UNCHANGED <<slanes, ssend>>
          BY <2>1, <3>1 DEF GetConn, Avoided, ServerTypes
        <4> QED
          BY <3>1, <4>1 DEF Avoided, Upcoming
      <3> QED
        BY <3>0, <3>1 DEF TornDown
    <2>2. ASSUME NEW l \in Lanes, HelloFails(l) PROVE TornDown'
      <3>0. down' = down
        BY <2>2 DEF HelloFails
      <3>1. ASSUME NEW m \in Lanes, Avoided(m) PROVE Avoided(m)'
        <4>1. /\ connOf'[m] = connOf[m] /\ handler'[m] \in {"attached", "closed"}
              /\ UNCHANGED <<slanes, ssend>>
          BY <2>2, <3>1 DEF HelloFails, Avoided, ServerTypes
        <4> QED
          BY <3>1, <4>1 DEF Avoided, Upcoming
      <3> QED
        BY <3>0, <3>1 DEF TornDown
    <2>3. ASSUME NEW l \in Lanes, AddLane(l) PROVE TornDown'
      <3>0. down' = down
        BY <2>3 DEF AddLane
      <3>1. ASSUME NEW m \in Lanes, Avoided(m) PROVE Avoided(m)'
        <4>1. /\ connOf' = connOf /\ handler'[m] = handler[m] /\ ssend' = ssend
              /\ m # l /\ connOf[m] \in Lanes
          BY <2>3, <3>1 DEF AddLane, Avoided, ServerTypes
        <4>2. slanes'[connOf[m]] \in {slanes[connOf[m]], Append(slanes[connOf[m]], l)}
          BY <2>3, <4>1 DEF AddLane, ServerTypes
        <4>3. /\ slanes[connOf[m]] \in Seq(Lanes) /\ m \notin Elements(slanes[connOf[m]])
          BY <3>1, <4>1 DEF ServerTypes, Avoided
        <4>4. m \notin Elements(slanes'[connOf[m]])
          <5>1. Elements(Append(slanes[connOf[m]], l)) = Elements(slanes[connOf[m]]) \cup {l}
            BY <4>3, LaneElements
          <5> QED
            BY <4>1, <4>2, <4>3, <5>1
        <4> QED
          BY <3>1, <4>1, <4>4 DEF Avoided, Upcoming
      <3> QED
        BY <3>0, <3>1 DEF TornDown
    <2>4. ASSUME NEW l \in Lanes, HandlerReturns(l) PROVE TornDown'
      <3>0. down' = down
        BY <2>4 DEF HandlerReturns
      <3>1. ASSUME NEW m \in Lanes, Avoided(m) PROVE Avoided(m)'
        <4>1. /\ connOf'[m] = connOf[m] /\ handler'[m] \in {"attached", "closed"}
              /\ UNCHANGED <<slanes, ssend>>
          BY <2>4, <3>1 DEF HandlerReturns, Avoided, ServerTypes
        <4> QED
          BY <3>1, <4>1 DEF Avoided, Upcoming
      <3> QED
        BY <3>0, <3>1 DEF TornDown
    <2>5. ASSUME NEW l \in Lanes, SReadEnds(l) PROVE TornDown'
      <3>0. down' = down
        BY <2>5 DEF SReadEnds
      <3>1. ASSUME NEW m \in Lanes, Avoided(m) PROVE Avoided(m)'
        <4>1. UNCHANGED <<connOf, handler, ssend>> /\ connOf[m] \in Lanes /\ connOf[l] \in Lanes
          BY <2>5, <3>1 DEF SReadEnds, Avoided, ServerTypes, ConnKnown
        <4>2. slanes'[connOf[m]] \in {slanes[connOf[m]], RemoveLane(connOf[m], l)}
          BY <2>5, <4>1 DEF SReadEnds, ServerTypes
        <4>3. m \notin Elements(slanes'[connOf[m]])
          BY <3>1, <4>1, <4>2, RemoveLaneEffect DEF Avoided
        <4> QED
          BY <3>1, <4>1, <4>3 DEF Avoided, Upcoming
      <3> QED
        BY <3>0, <3>1 DEF TornDown
    <2>6. ASSUME NEW c \in Lanes, Dial(c) PROVE TornDown'
      <3>0. down' = down
        BY <2>6 DEF Dial
      <3>1. ASSUME NEW m \in Lanes, Avoided(m) PROVE Avoided(m)'
        <4>1. UNCHANGED <<connOf, handler, slanes>> /\ connOf[m] \in Lanes
          BY <2>6, <3>1 DEF Dial, Avoided, ServerTypes
        <4>2. \/ ssend'[connOf[m]] = ssend[connOf[m]]
              \/ ssend'[connOf[m]].pc \notin {"fin", "write"}
          BY <2>6, <4>1, ServerSenderStep
        <4> QED
          BY <3>1, <4>1, <4>2 DEF Avoided, Upcoming
      <3> QED
        BY <3>0, <3>1 DEF TornDown
    <2>7. ASSUME NEW c \in Lanes, ReadBackendChunk(c) PROVE TornDown'
      <3>0. down' = down
        BY <2>7 DEF ReadBackendChunk
      <3>1. ASSUME NEW m \in Lanes, Avoided(m) PROVE Avoided(m)'
        <4>1. UNCHANGED <<connOf, handler, slanes>> /\ connOf[m] \in Lanes
          BY <2>7, <3>1 DEF ReadBackendChunk, Avoided, ServerTypes
        <4>2. \/ ssend'[connOf[m]] = ssend[connOf[m]]
              \/ ssend'[connOf[m]].pc \notin {"fin", "write"}
          BY <2>7, <4>1, ServerSenderStep
        <4> QED
          BY <3>1, <4>1, <4>2 DEF Avoided, Upcoming
      <3> QED
        BY <3>0, <3>1 DEF TornDown
    <2>8. ASSUME NEW c \in Lanes, ReadBackendEnds(c) PROVE TornDown'
      <3>0. down' = down
        BY <2>8 DEF ReadBackendEnds
      <3>1. ASSUME NEW m \in Lanes, Avoided(m) PROVE Avoided(m)'
        <4>1. UNCHANGED <<connOf, handler, slanes>> /\ connOf[m] \in Lanes
          BY <2>8, <3>1 DEF ReadBackendEnds, Avoided, ServerTypes
        <4>2. \/ ssend'[connOf[m]] = ssend[connOf[m]]
              \/ ssend'[connOf[m]].lanes = slanes[connOf[m]]
          BY <2>8, <4>1, ServerSenderStep
        <4>3. CASE ssend'[connOf[m]] = ssend[connOf[m]]
          BY <3>1, <4>1, <4>3 DEF Avoided, Upcoming
        <4>4. CASE ssend'[connOf[m]].lanes = slanes[connOf[m]]
          <5>1. Upcoming(ssend'[connOf[m]]) \subseteq DOMAIN slanes[connOf[m]]
            BY <4>1, <4>4, UpcomingIn DEF ServerTypes
          <5>2. \A k \in Upcoming(ssend'[connOf[m]]) : slanes[connOf[m]][k] # m
            BY <3>1, <5>1 DEF Avoided, Elements
          <5> QED
            BY <3>1, <4>1, <4>4, <5>2 DEF Avoided, Upcoming
        <4> QED
          BY <4>2, <4>3, <4>4
      <3> QED
        BY <3>0, <3>1 DEF TornDown
    <2>9. ASSUME NEW c \in Lanes, SnapshotLanes(c) PROVE TornDown'
      <3>0. down' = down
        BY <2>9 DEF SnapshotLanes
      <3>1. ASSUME NEW m \in Lanes, Avoided(m) PROVE Avoided(m)'
        <4>1. UNCHANGED <<connOf, handler, slanes>> /\ connOf[m] \in Lanes
          BY <2>9, <3>1 DEF SnapshotLanes, Avoided, ServerTypes
        <4>2. \/ ssend'[connOf[m]] = ssend[connOf[m]]
              \/ ssend'[connOf[m]].lanes = slanes[connOf[m]]
          BY <2>9, <4>1, ServerSenderStep
        <4>3. CASE ssend'[connOf[m]] = ssend[connOf[m]]
          BY <3>1, <4>1, <4>3 DEF Avoided, Upcoming
        <4>4. CASE ssend'[connOf[m]].lanes = slanes[connOf[m]]
          <5>1. Upcoming(ssend'[connOf[m]]) \subseteq DOMAIN slanes[connOf[m]]
            BY <4>1, <4>4, UpcomingIn DEF ServerTypes
          <5>2. \A k \in Upcoming(ssend'[connOf[m]]) : slanes[connOf[m]][k] # m
            BY <3>1, <5>1 DEF Avoided, Elements
          <5> QED
            BY <3>1, <4>1, <4>4, <5>2 DEF Avoided, Upcoming
        <4> QED
          BY <4>2, <4>3, <4>4
      <3> QED
        BY <3>0, <3>1 DEF TornDown
    <2>10. ASSUME NEW c \in Lanes, SWriteToLane(c) PROVE TornDown'
      <3> DEFINE s == ssend[c]
                 i == (s.laneIdx % Len(s.lanes)) + 1
                 l == s.lanes[i]
                 f == DataFrame(s.seq, Chunk(c, s.seq))
      <3>1. /\ s.pc = "write" /\ l \in Lanes /\ l \in Elements(s.lanes) /\ f \in Frames
            /\ f.typ = "data" /\ TornFrame \in Frames
            /\ \A d \in Lanes \ {c} : ssend'[d] = ssend[d]
            /\ UNCHANGED <<connOf, handler>> /\ s.attempts < Len(s.lanes)
            /\ s \in ServerSenders /\ ssend'[c] \in ServerSenders
        BY <2>10, ServerAttempt DEF SWriteToLane, DataFrame, TornFrame, Frames, ServerTypes
      <3>2. \/ /\ down' \in WriteFrame(down, l, f, sclosed, cclosed)
               /\ UNCHANGED slanes /\ ssend'[c].pc \in {"read", "done"}
            \/ /\ down' \in WriteError(down, l, f, sclosed, cclosed, Cancelled(c))
               /\ slanes' = [slanes EXCEPT ![c] = RemoveLane(c, l)]
               /\ \/ ssend'[c].pc = "done"
                  \/ /\ ssend'[c].pc = "write" /\ ssend'[c].lanes = s.lanes
                     /\ ssend'[c].laneIdx = s.laneIdx + 1
                     /\ ssend'[c].attempts = s.attempts + 1
        BY <2>10, ServerAttempt
      <3> HIDE DEF f
      <3>3. /\ connOf[l] = c /\ c # NoConn /\ handler[l] \in {"attached", "closed"}
            /\ Distinct(s.lanes) /\ Distinct(slanes[c])
        BY <3>1 DEF LanesOfConn, Lanes, NoConn
      <3>4. i \in DOMAIN s.lanes /\ i \in Upcoming(s)
        <4>1. i \in Upcoming(s)
          <5> HIDE DEF s, i
          <5>1. s.laneIdx \in Nat /\ s.attempts \in Nat /\ Len(s.lanes) \in Nat
            BY <3>1 DEF ServerSenders
          <5>2. 0 \in 0 .. Len(s.lanes) - 1 - s.attempts /\ s.laneIdx + 0 = s.laneIdx
            BY <3>1, <5>1
          <5> QED
            BY <5>2 DEF Upcoming, i
        <4> QED
          BY <3>1, <4>1, UpcomingIn
      <3>5. ~HasTorn(down[l])
        BY <3>1, <3>3, <3>4 DEF TornDown, Avoided
      <3> HIDE DEF l
      <3>6. CASE /\ down' \in WriteFrame(down, l, f, sclosed, cclosed)
                 /\ UNCHANGED slanes /\ ssend'[c].pc \in {"read", "done"}
        <4>1. ASSUME NEW m \in Lanes
              PROVE  TornIsLast(down'[m]) /\ (HasTorn(down'[m]) => HasTorn(down[m]))
          <5>1. down \in [Lanes -> Seq(Frames)] /\ down' \in WriteFrame(down, l, f, sclosed, cclosed)
            BY <3>6 DEF WireTypes
          <5>2. down'[m] \in {down[m], Append(down[m], f)}
            BY <3>1, <5>1, WriteEffect
          <5>3. m # l => down'[m] = down[m]
            BY <3>1, <5>1, WriteElsewhere
          <5>4. down[m] \in Seq(Frames) /\ TornIsLast(down[m])
            BY DEF WireTypes, TornDown
          <5> QED
            BY <3>1, <3>5, <5>2, <5>3, <5>4, AppendTorn
        <4>2. ASSUME NEW m \in Lanes, Avoided(m) PROVE Avoided(m)'
          <5>1. connOf[m] \in Lanes
            BY <4>2 DEF Avoided, ServerTypes
          <5>2. \/ ssend'[connOf[m]] = ssend[connOf[m]]
                \/ ssend'[connOf[m]].pc \notin {"fin", "write"}
            BY <3>1, <3>6, <5>1
          <5>3. UNCHANGED <<connOf, handler, slanes>>
            BY <3>1, <3>6
          <5> HIDE DEF s, i
          <5> QED
            BY <4>2, <5>2, <5>3 DEF Avoided, Upcoming
        <4> QED
          BY <4>1, <4>2 DEF TornDown
      <3>7. CASE /\ down' \in WriteError(down, l, f, sclosed, cclosed, Cancelled(c))
                 /\ slanes' = [slanes EXCEPT ![c] = RemoveLane(c, l)]
                 /\ \/ ssend'[c].pc = "done"
                    \/ /\ ssend'[c].pc = "write" /\ ssend'[c].lanes = s.lanes
                       /\ ssend'[c].laneIdx = s.laneIdx + 1
                       /\ ssend'[c].attempts = s.attempts + 1
        <4>1. ASSUME NEW m \in Lanes
              PROVE  /\ TornIsLast(down'[m])
                     /\ HasTorn(down'[m]) => HasTorn(down[m]) \/ m = l
          <5>1. /\ down \in [Lanes -> Seq(Frames)]
                /\ down' \in WriteError(down, l, f, sclosed, cclosed, Cancelled(c))
            BY <3>7 DEF WireTypes
          <5>2. down'[m] \in {down[m], Append(down[m], TornFrame)}
            BY <3>1, <5>1, WriteEffect
          <5>3. m # l => down'[m] = down[m]
            BY <3>1, <5>1, ErrorElsewhere
          <5>4. down[m] \in Seq(Frames) /\ TornIsLast(down[m])
            BY DEF WireTypes, TornDown
          <5> QED
            BY <3>1, <3>5, <5>2, <5>3, <5>4, AppendTorn
        <4>2. /\ \A d \in Lanes : Elements(slanes'[d]) \subseteq Elements(slanes[d])
              /\ l \notin Elements(slanes'[c])
          <5>1. slanes'[c] = RemoveLane(c, l) /\ \A d \in Lanes \ {c} : slanes'[d] = slanes[d]
            BY <3>7 DEF ServerTypes
          <5> QED
            BY <3>3, <5>1, RemoveLaneEffect
        <4>3. ssend'[c].pc = "write" =>
                 Upcoming(ssend'[c]) \subseteq Upcoming(s) \ {i} /\ ssend'[c].lanes = s.lanes
          <5> HIDE DEF s
          <5> QED
            BY <3>1, <3>7, UpcomingNext
        <4>4. ssend'[c].pc # "fin"
          BY <3>7
        <4>5. ASSUME NEW m \in Lanes, Avoided(m) PROVE Avoided(m)'
          <5>1. connOf[m] \in Lanes /\ m \notin Elements(slanes'[connOf[m]])
            BY <4>2, <4>5 DEF Avoided, ServerTypes
          <5>2. CASE connOf[m] = c
            <6>1. s.pc = "write" => \A k \in Upcoming(s) : s.lanes[k] # m
              BY <4>5, <5>2 DEF Avoided
            <6>2. ssend'[c].pc = "write" => \A k \in Upcoming(ssend'[c]) : ssend'[c].lanes[k] # m
              BY <3>1, <4>3, <6>1
            <6> QED
              BY <3>1, <4>4, <4>5, <5>1, <5>2, <6>2 DEF Avoided, Upcoming
          <5>3. CASE connOf[m] # c
            <6>1. ssend'[connOf[m]] = ssend[connOf[m]] /\ UNCHANGED <<connOf, handler>>
              BY <3>1, <5>1, <5>3
            <6> HIDE DEF s, i
            <6> QED
              BY <4>5, <5>1, <6>1 DEF Avoided, Upcoming
          <5> QED
            BY <5>2, <5>3
        <4>6. ASSUME NEW m \in Lanes, m = l PROVE Avoided(m)'
          <5>1. ssend'[c].pc = "write" => \A k \in Upcoming(ssend'[c]) : ssend'[c].lanes[k] # m
            <6>1. ASSUME NEW k \in Upcoming(s), k # i PROVE s.lanes[k] # m
              <7>1. k \in DOMAIN s.lanes
                BY <3>1, UpcomingIn
              <7> QED
                BY <3>3, <3>4, <4>6, <6>1, <7>1 DEF Distinct, l
            <6> QED
              BY <4>3, <6>1
          <5>2. /\ connOf'[m] = c /\ c # NoConn /\ handler'[m] \in {"attached", "closed"}
                /\ m \notin Elements(slanes'[c]) /\ ssend'[c].pc # "fin"
            BY <3>1, <3>3, <4>2, <4>4, <4>6
          <5> HIDE DEF s, i
          <5> QED
            BY <5>1, <5>2 DEF Avoided, Upcoming
        <4> QED
          BY <4>1, <4>5, <4>6 DEF TornDown
      <3> QED
        BY <3>2, <3>6, <3>7
    <2>11. ASSUME NEW c \in Lanes, RetryWrite(c) PROVE TornDown'
      <3>0. down' = down
        BY <2>11 DEF RetryWrite
      <3>1. ASSUME NEW m \in Lanes, Avoided(m) PROVE Avoided(m)'
        <4>1. UNCHANGED <<connOf, handler, slanes>> /\ connOf[m] \in Lanes
          BY <2>11, <3>1 DEF RetryWrite, Avoided, ServerTypes
        <4>2. \/ ssend'[connOf[m]] = ssend[connOf[m]]
              \/ ssend'[connOf[m]].pc \notin {"fin", "write"}
          BY <2>11, <4>1, ServerSenderStep
        <4> QED
          BY <3>1, <4>1, <4>2 DEF Avoided, Upcoming
      <3> QED
        BY <3>0, <3>1 DEF TornDown
    <2>12. ASSUME NEW c \in Lanes, SWriteFin(c) PROVE TornDown'
      <3>1. /\ FinFrame(ssend[c].seq) \in Frames /\ FinFrame(ssend[c].seq).typ = "fin"
            /\ ssend[c].seq \in Nat /\ ssend[c].pc = "fin" /\ ssend'[c].pc = "done"
            /\ \A d \in Lanes \ {c} : ssend'[d] = ssend[d]
            /\ UNCHANGED <<connOf, handler, slanes>>
        <4>1. ssend[c].seq \in Nat
          BY DEF ServerTypes, ServerSenders
        <4> QED
          BY <2>12, <4>1, ServerSenderStep DEF SWriteFin, FinFrame, Frames
      <3>2. ASSUME NEW m \in Lanes
            PROVE  \/ down'[m] = down[m]
                   \/ /\ m \in Elements(ssend[c].lanes)
                      /\ down'[m] = Append(down[m], FinFrame(ssend[c].seq))
        <4> DEFINE ls == Elements(ssend[c].lanes)
        <4>1. /\ down \in [Lanes -> Seq(Frames)]
              /\ down' \in WriteFinTo(down, ls, ssend[c].seq, sclosed, cclosed, Cancelled(c))
          BY <2>12 DEF SWriteFin, WireTypes, Elements
        <4> HIDE DEF ls
        <4>2. down'[m] \in {down[m], Append(down[m], FinFrame(ssend[c].seq))}
          BY <3>1, <4>1, FinEffect
        <4>3. m \notin ls => down'[m] = down[m]
          BY <3>1, <4>1, FinElsewhere
        <4> QED
          BY <4>2, <4>3 DEF ls
      <3>3. ASSUME NEW m \in Elements(ssend[c].lanes), m \in Lanes PROVE ~HasTorn(down[m])
        <4>1. connOf[m] = c
          BY <3>3 DEF LanesOfConn
        <4> QED
          BY <3>1, <3>3, <4>1 DEF TornDown, Avoided
      <3>4. ASSUME NEW m \in Lanes
            PROVE  TornIsLast(down'[m]) /\ (HasTorn(down'[m]) => HasTorn(down[m]))
        <4>1. down[m] \in Seq(Frames) /\ TornIsLast(down[m])
          BY DEF WireTypes, TornDown
        <4> QED
          BY <3>1, <3>2, <3>3, <4>1, AppendTorn
      <3>5. ASSUME NEW m \in Lanes, Avoided(m) PROVE Avoided(m)'
        <4>1. connOf[m] \in Lanes
          BY <3>5 DEF Avoided, ServerTypes
        <4>2. \/ ssend'[connOf[m]] = ssend[connOf[m]]
              \/ ssend'[connOf[m]].pc \notin {"fin", "write"}
          BY <3>1, <4>1
        <4>3. UNCHANGED <<connOf, handler, slanes>>
          BY <3>1
        <4>4. CASE ssend'[connOf[m]] = ssend[connOf[m]]
          BY <3>5, <4>3, <4>4 DEF Avoided, Upcoming
        <4>5. CASE ssend'[connOf[m]].pc \notin {"fin", "write"}
          BY <3>5, <4>3, <4>5 DEF Avoided, Upcoming
        <4> QED
          BY <4>2, <4>4, <4>5
      <3> QED
        BY <3>4, <3>5 DEF TornDown
    <2>13. CASE ServerStops
      BY <1>0, <1>2, <2>13 DEF ServerStops
    <2>14. ASSUME NEW l \in Lanes, SReadFrame(l)
          PROVE  TornDown'
      BY <1>0, <1>2, <2>14 DEF SReadFrame
    <2>15. ASSUME NEW c \in Lanes, Forget(c) \/ CheckLanes(c) \/ AwaitLane(c) \/
       DialFails(c) \/ RunReturns(c) \/ ReceiveUp(c) \/ DeliverUp(c) \/ FinishUp(c) \/
       BackendResets(c)
          PROVE  TornDown'
      BY <1>0, <1>2, <2>15 DEF Forget, CheckLanes, SetRun, AwaitLane, DialFails,
         RunReturns, ReceiveUp, DeliverUp, FinishUp, BackendResets
    <2> QED
      BY <1>2, <2>1, <2>2, <2>3, <2>4, <2>5, <2>6, <2>7, <2>8, <2>9, <2>10, <2>11,
         <2>12, <2>13, <2>14, <2>15 DEF ServerNext
  <1>3. CASE WireNext /\ UNCHANGED <<clientVars, serverVars>>
    <2>1. ASSUME NEW l \in Lanes, BreakLane(l) PROVE TornDown'
      <3>1. ASSUME NEW m \in Lanes PROVE down'[m] \in Shorter(down[m])
        <4>1. down'[m] = down[m] \/ \E i \in 0 .. Len(down[m]) : down'[m] = SubSeq(down[m], 1, i)
          BY <2>1 DEF BreakLane, WireTypes
        <4> QED
          BY <4>1 DEF Shorter
      <3>2. ASSUME NEW m \in Lanes
            PROVE  TornIsLast(down'[m]) /\ (HasTorn(down'[m]) => HasTorn(down[m]))
        BY <3>1, ShorterTorn DEF WireTypes, TornDown
      <3>3. ASSUME NEW m \in Lanes, Avoided(m) PROVE Avoided(m)'
        BY <1>3, <2>1, <3>3 DEF BreakLane, Avoided, Upcoming
      <3> QED
        BY <3>2, <3>3 DEF TornDown
    <2> QED
      BY <1>3, <2>1 DEF WireNext
  <1>4. CASE UNCHANGED vars
    BY <1>0, <1>4 DEF vars
  <1> QED
    BY <1>1, <1>2, <1>3, <1>4 DEF Next

-----------------------------------------------------------------------------
(* Why a connection ends.                                                  *)

\* The client closes its lanes after copyBondToTCP has cancelled.
LEMMA ClientLeavesStep ==
    ASSUME BondInv, [Next]_vars
    PROVE  ClientLeaves'
  <1> USE DEF wireVars, streamVars, clientVars, openVars, serverVars, regVars, waitVars
  <1> USE DEF BondInv, TypeOK, EndCauses
  <1>0. ASSUME UNCHANGED <<cclosed, crcv, cctx>> PROVE ClientLeaves'
    BY <1>0 DEF ClientLeaves
  <1>1. CASE ClientNext /\ UNCHANGED serverVars
    <2>1. CASE StartCopying
      BY <1>1, <2>1 DEF StartCopying, ClientLeaves
    <2>2. CASE ReceiveDown
      <3>1. cclosed' = cclosed /\ (cctx' = TRUE \/ (cctx' = cctx /\ crcv' = Take(crcv, Head(crecv)) /\ crecv # << >>))
        BY <2>2 DEF ReceiveDown, ReturnDownload
      <3>2. crecv # << >> => Take(crcv, Head(crecv)).pc = crcv.pc
        BY FrameElements, TakeEffect DEF QueueTypes, ReceiverTypes
      <3> QED
        BY <3>1, <3>2 DEF ClientLeaves
    <2>3. CASE DeliverDown
      <3>1. cclosed' = cclosed /\ (cctx' = TRUE \/ (cctx' = cctx /\ crcv' = Deliver(crcv) /\ Deliverable(crcv)))
        BY <2>3 DEF DeliverDown, ReturnDownload
      <3>2. Deliverable(crcv) => Deliver(crcv).pc = crcv.pc
        BY DeliverEffect DEF ReceiverTypes
      <3> QED
        BY <3>1, <3>2 DEF ClientLeaves
    <2>4. CASE FinishDown
      BY <1>1, <2>4 DEF FinishDown, ReturnDownload, ClientLeaves
    <2>5. CASE CloseBonded
      BY <1>1, <2>5 DEF CloseBonded, ClientLeaves
    <2>6. CASE ClientStops
      BY <1>1, <2>6 DEF ClientStops, ClientLeaves
    <2>7. CASE OpenLane \/ ReadLocalChunk \/ ReadLocalEnds \/ WriteToLane \/ NoLiveLanes
       \/ WriteFin \/ LocalResets
      BY <1>0, <1>1, <2>7 DEF OpenLane, ReadLocalChunk, ReadLocalEnds, WriteToLane,
         NoLiveLanes, WriteFin, LocalResets
    <2>8. ASSUME NEW l \in Lanes, ReadLaneFrame(l) \/ ReadLaneEnds(l)
          PROVE  ClientLeaves'
      BY <1>0, <1>1, <2>8 DEF ReadLaneFrame, ReadLaneEnds
    <2> QED
      BY <1>1, <2>1, <2>2, <2>3, <2>4, <2>5, <2>6, <2>7, <2>8 DEF ClientNext
  <1>2. CASE ServerNext /\ UNCHANGED clientVars
    <2>1. CASE ServerStops
      BY <1>0, <1>2, <2>1 DEF ServerStops
    <2>2. ASSUME NEW l \in Lanes, GetConn(l) \/ HelloFails(l) \/ AddLane(l) \/
       HandlerReturns(l) \/ SReadFrame(l) \/ SReadEnds(l)
          PROVE  ClientLeaves'
      BY <1>0, <1>2, <2>2 DEF GetConn, HelloFails, AddLane, HandlerReturns, SReadFrame,
         SReadEnds
    <2>3. ASSUME NEW c \in Lanes, Forget(c) \/ CheckLanes(c) \/ AwaitLane(c) \/ Dial(c)
       \/ DialFails(c) \/ RunReturns(c) \/ ReceiveUp(c) \/ DeliverUp(c) \/ FinishUp(c)
       \/ ReadBackendChunk(c) \/ ReadBackendEnds(c) \/ SnapshotLanes(c) \/
       SWriteToLane(c) \/ RetryWrite(c) \/ SWriteFin(c) \/ BackendResets(c)
          PROVE  ClientLeaves'
      BY <1>0, <1>2, <2>3 DEF Forget, CheckLanes, SetRun, AwaitLane, Dial, DialFails,
         RunReturns, ReceiveUp, DeliverUp, FinishUp, ReadBackendChunk, ReadBackendEnds,
         SnapshotLanes, SWriteToLane, ReturnSend, RetryWrite, SWriteFin, BackendResets
    <2> QED
      BY <1>2, <2>1, <2>2, <2>3 DEF ServerNext
  <1>3. CASE WireNext /\ UNCHANGED <<clientVars, serverVars>>
    BY <1>0, <1>3 DEF WireNext, BreakLane
  <1>4. CASE UNCHANGED vars
    BY <1>0, <1>4 DEF vars
  <1> QED
    BY <1>1, <1>2, <1>3, <1>4 DEF Next

\* run cancels the connection when it returns.
LEMMA RunCancelsStep ==
    ASSUME BondInv, [Next]_vars
    PROVE  RunCancels'
  <1> USE DEF wireVars, streamVars, clientVars, openVars, serverVars, regVars, waitVars
  <1> USE DEF BondInv, TypeOK, EndCauses
  <1>0. ASSUME UNCHANGED <<run, sctx>> PROVE RunCancels'
    BY <1>0 DEF RunCancels
  <1>1. CASE ClientNext /\ UNCHANGED serverVars
    <2>1. CASE OpenLane \/ StartCopying \/ ReadLocalChunk \/ ReadLocalEnds \/
       WriteToLane \/ NoLiveLanes \/ WriteFin \/ ReceiveDown \/ DeliverDown \/
       FinishDown \/ CloseBonded \/ ClientStops \/ LocalResets
      BY <1>0, <1>1, <2>1 DEF OpenLane, StartCopying, ReadLocalChunk, ReadLocalEnds,
         WriteToLane, NoLiveLanes, WriteFin, ReceiveDown, ReturnDownload, DeliverDown,
         FinishDown, CloseBonded, ClientStops, LocalResets
    <2>2. ASSUME NEW l \in Lanes, ReadLaneFrame(l) \/ ReadLaneEnds(l)
          PROVE  RunCancels'
      BY <1>0, <1>1, <2>2 DEF ReadLaneFrame, ReadLaneEnds
    <2> QED
      BY <1>1, <2>1, <2>2 DEF ClientNext
  <1>2. CASE ServerNext /\ UNCHANGED clientVars
    <2>1. ASSUME NEW l \in Lanes, AddLane(l) PROVE RunCancels'
      BY <1>2, <2>1 DEF AddLane, RunCancels, ServerTypes
    <2>2. ASSUME NEW l \in Lanes, SReadEnds(l) PROVE RunCancels'
      BY <1>2, <2>2 DEF SReadEnds, RunCancels, ServerTypes
    <2>3. ASSUME NEW c \in Lanes, CheckLanes(c) PROVE RunCancels'
      BY <1>2, <2>3 DEF CheckLanes, SetRun, RunCancels, ServerTypes
    <2>4. ASSUME NEW c \in Lanes, AwaitLane(c) PROVE RunCancels'
      BY <1>2, <2>4 DEF AwaitLane, SetRun, RunCancels, ServerTypes
    <2>5. ASSUME NEW c \in Lanes, Dial(c) PROVE RunCancels'
      BY <1>2, <2>5 DEF Dial, SetRun, RunCancels, ServerTypes
    <2>6. ASSUME NEW c \in Lanes, DialFails(c) PROVE RunCancels'
      BY <1>2, <2>6 DEF DialFails, SetRun, RunCancels, ServerTypes
    <2>7. ASSUME NEW c \in Lanes, RunReturns(c) PROVE RunCancels'
      BY <1>2, <2>7 DEF RunReturns, SetRun, RunCancels, ServerTypes
    <2>8. ASSUME NEW c \in Lanes, SWriteToLane(c) PROVE RunCancels'
      BY <1>2, <2>8 DEF SWriteToLane, ReturnSend, RunCancels, ServerTypes
    <2>9. ASSUME NEW c \in Lanes, RetryWrite(c) PROVE RunCancels'
      BY <1>2, <2>9 DEF RetryWrite, ReturnSend, RunCancels, ServerTypes
    <2>10. ASSUME NEW c \in Lanes, SWriteFin(c) PROVE RunCancels'
      BY <1>2, <2>10 DEF SWriteFin, ReturnSend, RunCancels, ServerTypes
    <2>11. CASE ServerStops
      BY <1>0, <1>2, <2>11 DEF ServerStops
    <2>12. ASSUME NEW l \in Lanes, GetConn(l) \/ HelloFails(l) \/ HandlerReturns(l) \/
       SReadFrame(l)
          PROVE  RunCancels'
      BY <1>0, <1>2, <2>12 DEF GetConn, HelloFails, HandlerReturns, SReadFrame
    <2>13. ASSUME NEW c \in Lanes, Forget(c) \/ ReceiveUp(c) \/ DeliverUp(c) \/
       FinishUp(c) \/ ReadBackendChunk(c) \/ ReadBackendEnds(c) \/ SnapshotLanes(c) \/
       BackendResets(c)
          PROVE  RunCancels'
      BY <1>0, <1>2, <2>13 DEF Forget, ReceiveUp, DeliverUp, FinishUp, ReadBackendChunk,
         ReadBackendEnds, SnapshotLanes, BackendResets
    <2> QED
      BY <1>2, <2>1, <2>2, <2>3, <2>4, <2>5, <2>6, <2>7, <2>8, <2>9, <2>10, <2>11,
         <2>12, <2>13 DEF ServerNext
  <1>3. CASE WireNext /\ UNCHANGED <<clientVars, serverVars>>
    BY <1>0, <1>3 DEF WireNext, BreakLane
  <1>4. CASE UNCHANGED vars
    BY <1>0, <1>4 DEF vars
  <1> QED
    BY <1>1, <1>2, <1>3, <1>4 DEF Next

\* A stream is closed by its handler, which is over then.
LEMMA HandlerClosesStep ==
    ASSUME BondInv, [Next]_vars
    PROVE  HandlerCloses'
  <1> USE DEF wireVars, streamVars, clientVars, openVars, serverVars, regVars, waitVars
  <1> USE DEF BondInv, TypeOK, EndCauses
  <1>0. ASSUME UNCHANGED <<sclosed, handler>> PROVE HandlerCloses'
    BY <1>0 DEF HandlerCloses
  <1>1. CASE ClientNext /\ UNCHANGED serverVars
    <2>1. CASE OpenLane \/ StartCopying \/ ReadLocalChunk \/ ReadLocalEnds \/
       WriteToLane \/ NoLiveLanes \/ WriteFin \/ ReceiveDown \/ DeliverDown \/
       FinishDown \/ CloseBonded \/ ClientStops \/ LocalResets
      BY <1>0, <1>1, <2>1 DEF OpenLane, StartCopying, ReadLocalChunk, ReadLocalEnds,
         WriteToLane, NoLiveLanes, WriteFin, ReceiveDown, ReturnDownload, DeliverDown,
         FinishDown, CloseBonded, ClientStops, LocalResets
    <2>2. ASSUME NEW l \in Lanes, ReadLaneFrame(l) \/ ReadLaneEnds(l)
          PROVE  HandlerCloses'
      BY <1>0, <1>1, <2>2 DEF ReadLaneFrame, ReadLaneEnds
    <2> QED
      BY <1>1, <2>1, <2>2 DEF ClientNext
  <1>2. CASE ServerNext /\ UNCHANGED clientVars
    <2>1. ASSUME NEW l \in Lanes, GetConn(l) PROVE HandlerCloses'
      BY <1>2, <2>1 DEF GetConn, HandlerCloses, ServerTypes, WireTypes
    <2>2. ASSUME NEW l \in Lanes, HelloFails(l) PROVE HandlerCloses'
      BY <1>2, <2>2 DEF HelloFails, HandlerCloses, ServerTypes, WireTypes
    <2>3. ASSUME NEW l \in Lanes, AddLane(l) PROVE HandlerCloses'
      BY <1>2, <2>3 DEF AddLane, HandlerCloses, ServerTypes, WireTypes
    <2>4. ASSUME NEW l \in Lanes, HandlerReturns(l) PROVE HandlerCloses'
      BY <1>2, <2>4 DEF HandlerReturns, HandlerCloses, ServerTypes, WireTypes
    <2>5. CASE ServerStops
      BY <1>0, <1>2, <2>5 DEF ServerStops
    <2>6. ASSUME NEW l \in Lanes, SReadFrame(l) \/ SReadEnds(l)
          PROVE  HandlerCloses'
      BY <1>0, <1>2, <2>6 DEF SReadFrame, SReadEnds
    <2>7. ASSUME NEW c \in Lanes, Forget(c) \/ CheckLanes(c) \/ AwaitLane(c) \/ Dial(c)
       \/ DialFails(c) \/ RunReturns(c) \/ ReceiveUp(c) \/ DeliverUp(c) \/ FinishUp(c)
       \/ ReadBackendChunk(c) \/ ReadBackendEnds(c) \/ SnapshotLanes(c) \/
       SWriteToLane(c) \/ RetryWrite(c) \/ SWriteFin(c) \/ BackendResets(c)
          PROVE  HandlerCloses'
      BY <1>0, <1>2, <2>7 DEF Forget, CheckLanes, SetRun, AwaitLane, Dial, DialFails,
         RunReturns, ReceiveUp, DeliverUp, FinishUp, ReadBackendChunk, ReadBackendEnds,
         SnapshotLanes, SWriteToLane, ReturnSend, RetryWrite, SWriteFin, BackendResets
    <2> QED
      BY <1>2, <2>1, <2>2, <2>3, <2>4, <2>5, <2>6, <2>7 DEF ServerNext
  <1>3. CASE WireNext /\ UNCHANGED <<clientVars, serverVars>>
    BY <1>0, <1>3 DEF WireNext, BreakLane
  <1>4. CASE UNCHANGED vars
    BY <1>0, <1>4 DEF vars
  <1> QED
    BY <1>1, <1>2, <1>3, <1>4 DEF Next

\* A lane in use whose readLane ends has failed, or one side is leaving.
LEMMA LaneEndHasCause ==
    ASSUME BondInv, NEW l \in Lanes, SReadEnds(l), handler[l] = "attached"
    PROVE  Given(l)
  <1>1. \/ Cancelled(connOf[l]) \/ l \in sclosed \/ l \in broken \/ l \in cclosed
    BY DEF SReadEnds, ReadError
  <1> QED
    BY <1>1 DEF BondInv, EndCauses, Cancelled, Given, HandlerCloses, ClientLeaves

\* A lane in use is taken from c.lanes for a cause.
LEMMA LaneMissingStep ==
    ASSUME BondInv, [Next]_vars
    PROVE  LaneMissing'
  <1> USE DEF wireVars, streamVars, clientVars, openVars, serverVars, regVars, waitVars
  <1> USE DEF BondInv, TypeOK, EndCauses
  <1>0. ASSUME UNCHANGED <<handler, connOf, slanes, broken, sctx, lifetime, cctx>> PROVE LaneMissing'
    BY <1>0 DEF LaneMissing, Given
  <1>1. CASE ClientNext /\ UNCHANGED serverVars
    <2>1. CASE StartCopying
      <3>1. ASSUME NEW m \in Lanes PROVE Given(m) => Given(m)'
        BY <1>1, <2>1 DEF Given, StartCopying
      <3> QED
        BY <1>1, <2>1, <3>1 DEF LaneMissing, StartCopying
    <2>2. CASE ReceiveDown
      <3>1. ASSUME NEW m \in Lanes PROVE Given(m) => Given(m)'
        BY <1>1, <2>2 DEF Given, ReceiveDown, ReturnDownload
      <3> QED
        BY <1>1, <2>2, <3>1 DEF LaneMissing, ReceiveDown, ReturnDownload
    <2>3. CASE DeliverDown
      <3>1. ASSUME NEW m \in Lanes PROVE Given(m) => Given(m)'
        BY <1>1, <2>3 DEF Given, DeliverDown, ReturnDownload
      <3> QED
        BY <1>1, <2>3, <3>1 DEF LaneMissing, DeliverDown, ReturnDownload
    <2>4. CASE FinishDown
      <3>1. ASSUME NEW m \in Lanes PROVE Given(m) => Given(m)'
        BY <1>1, <2>4 DEF Given, FinishDown, ReturnDownload
      <3> QED
        BY <1>1, <2>4, <3>1 DEF LaneMissing, FinishDown, ReturnDownload
    <2>5. CASE ClientStops
      <3>1. ASSUME NEW m \in Lanes PROVE Given(m) => Given(m)'
        BY <1>1, <2>5 DEF Given, ClientStops
      <3> QED
        BY <1>1, <2>5, <3>1 DEF LaneMissing, ClientStops
    <2>6. CASE OpenLane \/ ReadLocalChunk \/ ReadLocalEnds \/ WriteToLane \/ NoLiveLanes
       \/ WriteFin \/ CloseBonded \/ LocalResets
      BY <1>0, <1>1, <2>6 DEF OpenLane, ReadLocalChunk, ReadLocalEnds, WriteToLane,
         NoLiveLanes, WriteFin, CloseBonded, LocalResets
    <2>7. ASSUME NEW l \in Lanes, ReadLaneFrame(l) \/ ReadLaneEnds(l)
          PROVE  LaneMissing'
      BY <1>0, <1>1, <2>7 DEF ReadLaneFrame, ReadLaneEnds
    <2> QED
      BY <1>1, <2>1, <2>2, <2>3, <2>4, <2>5, <2>6, <2>7 DEF ClientNext
  <1>2. CASE ServerNext /\ UNCHANGED clientVars
    <2>1. ASSUME NEW l \in Lanes, GetConn(l) PROVE LaneMissing'
      <3>1. ASSUME NEW m \in Lanes, handler'[m] = "attached"
            PROVE  handler[m] = "attached" /\ connOf'[m] = connOf[m]
        BY <2>1, <3>1 DEF GetConn, ServerTypes
      <3>2. UNCHANGED <<slanes, sctx, broken, lifetime, cctx>>
        BY <1>2, <2>1 DEF GetConn
      <3> QED
        BY <3>1, <3>2 DEF LaneMissing, Given
    <2>2. ASSUME NEW l \in Lanes, HelloFails(l) PROVE LaneMissing'
      <3>1. ASSUME NEW m \in Lanes, handler'[m] = "attached" PROVE handler[m] = "attached"
        BY <2>2, <3>1 DEF HelloFails, ServerTypes
      <3>2. UNCHANGED <<connOf, slanes, sctx, broken, lifetime, cctx>>
        BY <1>2, <2>2 DEF HelloFails
      <3> QED
        BY <3>1, <3>2 DEF LaneMissing, Given
    <2>3. ASSUME NEW l \in Lanes, AddLane(l) PROVE LaneMissing'
      <3>1. connOf[l] \in Lanes /\ UNCHANGED <<connOf, sctx, broken, lifetime, cctx>>
        BY <1>2, <2>3 DEF AddLane, ConnKnown, ServerTypes
      <3>2. \A m \in Lanes \ {l} : handler'[m] = handler[m]
        BY <2>3 DEF AddLane, ServerTypes
      <3>3. \A d \in Lanes : slanes'[d] = slanes[d] \/ (d = connOf[l] /\ slanes'[d] = Append(slanes[d], l))
        BY <2>3 DEF AddLane, ServerTypes
      <3>4. l \in Elements(slanes'[connOf[l]])
        <4>1. slanes[connOf[l]] \in Seq(Lanes) /\ slanes'[connOf[l]] = Append(slanes[connOf[l]], l)
          BY <2>3, <3>1 DEF AddLane, ServerTypes
        <4> QED
          BY <4>1, LaneElements
      <3>5. \A d \in Lanes : Elements(slanes[d]) \subseteq Elements(slanes'[d])
        <4>1. ASSUME NEW d \in Lanes
              PROVE  /\ slanes[d] \in Seq(Lanes)
                     /\ Elements(Append(slanes[d], l)) = Elements(slanes[d]) \cup {l}
          BY LaneElements DEF ServerTypes
        <4> QED
          BY <3>3, <4>1
      <3>6. ASSUME NEW m \in Lanes, handler'[m] = "attached", m \notin Elements(slanes'[connOf[m]])
            PROVE  Given(m)
        <4>1. m # l /\ handler[m] = "attached" /\ connOf[m] \in Lanes
          BY <3>2, <3>4, <3>6 DEF ConnKnown, ServerTypes
        <4> QED
          BY <3>5, <3>6, <4>1 DEF LaneMissing
      <3> QED
        BY <3>1, <3>6 DEF LaneMissing, Given
    <2>4. ASSUME NEW l \in Lanes, HandlerReturns(l) PROVE LaneMissing'
      <3>1. ASSUME NEW m \in Lanes, handler'[m] = "attached" PROVE handler[m] = "attached"
        BY <2>4, <3>1 DEF HandlerReturns, ServerTypes
      <3>2. UNCHANGED <<connOf, slanes, sctx, broken, lifetime, cctx>>
        BY <1>2, <2>4 DEF HandlerReturns
      <3> QED
        BY <3>1, <3>2 DEF LaneMissing, Given
    <2>5. ASSUME NEW l \in Lanes, SReadEnds(l) PROVE LaneMissing'
      <3> DEFINE c == connOf[l]
      <3>1. /\ c \in Lanes /\ slanes'[c] = RemoveLane(c, l)
            /\ \A d \in Lanes \ {c} : slanes'[d] = slanes[d]
            /\ UNCHANGED <<connOf, handler, broken, lifetime, cctx>> /\ sctx \subseteq sctx'
        BY <1>2, <2>5 DEF SReadEnds, ConnKnown, ServerTypes
      <3>2. handler[l] = "attached" => Given(l)
        BY <2>5, LaneEndHasCause
      <3>3. Elements(slanes[c]) \subseteq Elements(slanes'[c]) \cup {l}
        BY <3>1, RemoveLaneEffect
      <3>4. ASSUME NEW m \in Lanes, handler[m] = "attached", m \notin Elements(slanes'[connOf[m]])
            PROVE  Given(m)
        <4>1. connOf[m] \in Lanes
          BY <3>4 DEF ConnKnown, ServerTypes
        <4>2. m = l \/ m \notin Elements(slanes[connOf[m]])
          BY <3>1, <3>3, <3>4, <4>1
        <4> QED
          BY <3>2, <3>4, <4>2 DEF LaneMissing
      <3> QED
        BY <3>1, <3>4 DEF LaneMissing, Given
    <2>6. ASSUME NEW c \in Lanes, DialFails(c) PROVE LaneMissing'
      <3>1. ASSUME NEW m \in Lanes PROVE Given(m) => Given(m)'
        BY <1>2, <2>6 DEF Given, DialFails, SetRun
      <3> QED
        BY <1>2, <2>6, <3>1 DEF LaneMissing, DialFails, SetRun
    <2>7. ASSUME NEW c \in Lanes, RunReturns(c) PROVE LaneMissing'
      <3>1. ASSUME NEW m \in Lanes PROVE Given(m) => Given(m)'
        BY <1>2, <2>7 DEF Given, RunReturns, SetRun
      <3> QED
        BY <1>2, <2>7, <3>1 DEF LaneMissing, RunReturns, SetRun
    <2>8. ASSUME NEW c \in Lanes, SWriteToLane(c) PROVE LaneMissing'
      <3> DEFINE s == ssend[c]
                 l == s.lanes[(s.laneIdx % Len(s.lanes)) + 1]
                 f == DataFrame(s.seq, Chunk(c, s.seq))
      <3>1. /\ l \in Lanes /\ l \in Elements(s.lanes) /\ f \in Frames
            /\ UNCHANGED <<connOf, handler, broken, lifetime, cctx>> /\ sctx \subseteq sctx'
        BY <1>2, <2>8, ServerAttempt DEF SWriteToLane, ReturnSend
      <3>2. \/ UNCHANGED slanes
            \/ /\ down' \in WriteError(down, l, f, sclosed, cclosed, Cancelled(c))
               /\ slanes' = [slanes EXCEPT ![c] = RemoveLane(c, l)]
        BY <2>8, ServerAttempt
      <3>3. connOf[l] = c
        BY <3>1 DEF LanesOfConn
      <3> HIDE DEF s, l, f
      <3>4. CASE UNCHANGED slanes
        BY <3>1, <3>4 DEF LaneMissing, Given
      <3>5. CASE /\ down' \in WriteError(down, l, f, sclosed, cclosed, Cancelled(c))
                 /\ slanes' = [slanes EXCEPT ![c] = RemoveLane(c, l)]
        <4>1. slanes'[c] = RemoveLane(c, l) /\ \A d \in Lanes \ {c} : slanes'[d] = slanes[d]
          BY <3>5 DEF ServerTypes
        <4>2. handler[l] = "attached" => Given(l)
          <5>1. l \in broken \/ l \in sclosed \/ l \in cclosed \/ Cancelled(c)
            BY <3>5 DEF WriteError
          <5> QED
            BY <3>3, <5>1 DEF Cancelled, Given, HandlerCloses, ClientLeaves
        <4>3. Elements(slanes[c]) \subseteq Elements(slanes'[c]) \cup {l}
          BY <4>1, RemoveLaneEffect
        <4>4. ASSUME NEW m \in Lanes, handler[m] = "attached", m \notin Elements(slanes'[connOf[m]])
              PROVE  Given(m)
          <5>1. connOf[m] \in Lanes
            BY <4>4 DEF ConnKnown, ServerTypes
          <5>2. m = l \/ m \notin Elements(slanes[connOf[m]])
            BY <4>1, <4>3, <4>4, <5>1
          <5> QED
            BY <4>2, <4>4, <5>2 DEF LaneMissing
        <4> QED
          BY <3>1, <4>4 DEF LaneMissing, Given
      <3> QED
        BY <3>2, <3>4, <3>5
    <2>9. ASSUME NEW c \in Lanes, RetryWrite(c) PROVE LaneMissing'
      <3>1. ASSUME NEW m \in Lanes PROVE Given(m) => Given(m)'
        BY <1>2, <2>9 DEF Given, RetryWrite, ReturnSend
      <3> QED
        BY <1>2, <2>9, <3>1 DEF LaneMissing, RetryWrite, ReturnSend
    <2>10. ASSUME NEW c \in Lanes, SWriteFin(c) PROVE LaneMissing'
      <3>1. ASSUME NEW m \in Lanes PROVE Given(m) => Given(m)'
        BY <1>2, <2>10 DEF Given, SWriteFin, ReturnSend
      <3> QED
        BY <1>2, <2>10, <3>1 DEF LaneMissing, SWriteFin, ReturnSend
    <2>11. CASE ServerStops
      <3>1. ASSUME NEW m \in Lanes PROVE Given(m) => Given(m)'
        BY <1>2, <2>11 DEF Given, ServerStops
      <3> QED
        BY <1>2, <2>11, <3>1 DEF LaneMissing, ServerStops
    <2>12. ASSUME NEW l \in Lanes, SReadFrame(l)
          PROVE  LaneMissing'
      BY <1>0, <1>2, <2>12 DEF SReadFrame
    <2>13. ASSUME NEW c \in Lanes, Forget(c) \/ CheckLanes(c) \/ AwaitLane(c) \/ Dial(c)
       \/ ReceiveUp(c) \/ DeliverUp(c) \/ FinishUp(c) \/ ReadBackendChunk(c) \/
       ReadBackendEnds(c) \/ SnapshotLanes(c) \/ BackendResets(c)
          PROVE  LaneMissing'
      BY <1>0, <1>2, <2>13 DEF Forget, CheckLanes, SetRun, AwaitLane, Dial, ReceiveUp,
         DeliverUp, FinishUp, ReadBackendChunk, ReadBackendEnds, SnapshotLanes,
         BackendResets
    <2> QED
      BY <1>2, <2>1, <2>2, <2>3, <2>4, <2>5, <2>6, <2>7, <2>8, <2>9, <2>10, <2>11,
         <2>12, <2>13 DEF ServerNext
  <1>3. CASE WireNext /\ UNCHANGED <<clientVars, serverVars>>
    <2>1. ASSUME NEW l \in Lanes, BreakLane(l) PROVE LaneMissing'
      <3>1. ASSUME NEW m \in Lanes PROVE Given(m) => Given(m)'
        BY <1>3, <2>1 DEF Given, BreakLane
      <3> QED
        BY <1>3, <2>1, <3>1 DEF LaneMissing, BreakLane
    <2> QED
      BY <1>3, <2>1 DEF WireNext
  <1>4. CASE UNCHANGED vars
    BY <1>0, <1>4 DEF vars
  <1> QED
    BY <1>1, <1>2, <1>3, <1>4 DEF Next

\* The step of CutHasCause.
CutStepHasCause ==
    \A c \in sctx' \ sctx :
        \/ run'[c] = "done" \/ ssend'[c].pc = "done"
        \/ cctx \/ lifetime = "cancelled"
        \/ \A l \in Lanes : connOf[l] = c /\ handler[l] = "attached" => l \in broken

\* What cancels a connection.
LEMMA CutStep ==
    ASSUME BondInv, [Next]_vars
    PROVE  CutStepHasCause
  <1> USE DEF wireVars, streamVars, clientVars, openVars, serverVars, regVars, waitVars
  <1> USE DEF BondInv, TypeOK, EndCauses
  <1>0. ASSUME UNCHANGED <<sctx>> PROVE CutStepHasCause
    BY <1>0 DEF CutStepHasCause
  <1>1. CASE ClientNext /\ UNCHANGED serverVars
    <2>1. CASE OpenLane \/ StartCopying \/ ReadLocalChunk \/ ReadLocalEnds \/
       WriteToLane \/ NoLiveLanes \/ WriteFin \/ ReceiveDown \/ DeliverDown \/
       FinishDown \/ CloseBonded \/ ClientStops \/ LocalResets
      BY <1>0, <1>1, <2>1 DEF OpenLane, StartCopying, ReadLocalChunk, ReadLocalEnds,
         WriteToLane, NoLiveLanes, WriteFin, ReceiveDown, ReturnDownload, DeliverDown,
         FinishDown, CloseBonded, ClientStops, LocalResets
    <2>2. ASSUME NEW l \in Lanes, ReadLaneFrame(l) \/ ReadLaneEnds(l)
          PROVE  CutStepHasCause
      BY <1>0, <1>1, <2>2 DEF ReadLaneFrame, ReadLaneEnds
    <2> QED
      BY <1>1, <2>1, <2>2 DEF ClientNext
  <1>2. CASE ServerNext /\ UNCHANGED clientVars
    <2>1. ASSUME NEW l \in Lanes, SReadEnds(l) PROVE CutStepHasCause
      <3> DEFINE c == connOf[l]
      <3>1. /\ c \in Lanes /\ (sctx' = sctx \/ (sctx' = sctx \cup {c} /\ RemoveLane(c, l) = << >>))
        BY <2>1 DEF SReadEnds, ConnKnown, ServerTypes
      <3>2. ASSUME c \notin sctx, RemoveLane(c, l) = << >>, ~cctx, lifetime # "cancelled",
                   NEW m \in Lanes, connOf[m] = c, handler[m] = "attached"
            PROVE  m \in broken
        <4>1. Elements(slanes[c]) \subseteq {l}
          BY <3>1, <3>2, RemoveLaneEffect
        <4>2. CASE m = l
          BY <2>1, <3>2, <4>2, LaneEndHasCause DEF Given
        <4>3. CASE m # l
          BY <3>2, <4>1, <4>3 DEF LaneMissing, Given
        <4> QED
          BY <4>2, <4>3
      <3>3. lifetime \in {"live", "cancelled"} /\ cctx \in BOOLEAN
        BY DEF ServerTypes, ClientTypes
      <3> QED
        BY <3>1, <3>2, <3>3 DEF CutStepHasCause
    <2>2. ASSUME NEW c \in Lanes, DialFails(c) PROVE CutStepHasCause
      <3>1. run'[c] = "done" /\ sctx' = sctx \cup {c}
        BY <2>2 DEF DialFails, SetRun, ServerTypes
      <3> QED
        BY <3>1 DEF CutStepHasCause
    <2>3. ASSUME NEW c \in Lanes, RunReturns(c) PROVE CutStepHasCause
      <3>1. run'[c] = "done" /\ sctx' = sctx \cup {c}
        BY <2>3 DEF RunReturns, SetRun, ServerTypes
      <3> QED
        BY <3>1 DEF CutStepHasCause
    <2>4. ASSUME NEW c \in Lanes, SWriteToLane(c) PROVE CutStepHasCause
      <3>1. sctx' = sctx \/ (ssend'[c].pc = "done" /\ sctx' = sctx \cup {c})
        BY <2>4, ServerAttempt
      <3> QED
        BY <3>1 DEF CutStepHasCause
    <2>5. ASSUME NEW c \in Lanes, RetryWrite(c) PROVE CutStepHasCause
      <3>1. sctx' = sctx \/ (ssend'[c].pc = "done" /\ sctx' = sctx \cup {c})
        BY <2>5, ServerSenderStep
      <3> QED
        BY <3>1 DEF CutStepHasCause
    <2>6. ASSUME NEW c \in Lanes, SWriteFin(c) PROVE CutStepHasCause
      <3>1. sctx' = sctx \/ (ssend'[c].pc = "done" /\ sctx' = sctx \cup {c})
        BY <2>6, ServerSenderStep
      <3> QED
        BY <3>1 DEF CutStepHasCause
    <2>7. CASE ServerStops
      BY <1>0, <1>2, <2>7 DEF ServerStops
    <2>8. ASSUME NEW l \in Lanes, GetConn(l) \/ HelloFails(l) \/ AddLane(l) \/
       HandlerReturns(l) \/ SReadFrame(l)
          PROVE  CutStepHasCause
      BY <1>0, <1>2, <2>8 DEF GetConn, HelloFails, AddLane, HandlerReturns, SReadFrame
    <2>9. ASSUME NEW c \in Lanes, Forget(c) \/ CheckLanes(c) \/ AwaitLane(c) \/ Dial(c)
       \/ ReceiveUp(c) \/ DeliverUp(c) \/ FinishUp(c) \/ ReadBackendChunk(c) \/
       ReadBackendEnds(c) \/ SnapshotLanes(c) \/ BackendResets(c)
          PROVE  CutStepHasCause
      BY <1>0, <1>2, <2>9 DEF Forget, CheckLanes, SetRun, AwaitLane, Dial, ReceiveUp,
         DeliverUp, FinishUp, ReadBackendChunk, ReadBackendEnds, SnapshotLanes,
         BackendResets
    <2> QED
      BY <1>2, <2>1, <2>2, <2>3, <2>4, <2>5, <2>6, <2>7, <2>8, <2>9 DEF ServerNext
  <1>3. CASE WireNext /\ UNCHANGED <<clientVars, serverVars>>
    BY <1>0, <1>3 DEF WireNext, BreakLane
  <1>4. CASE UNCHANGED vars
    BY <1>0, <1>4 DEF vars
  <1> QED
    BY <1>1, <1>2, <1>3, <1>4 DEF Next

\* A handler closes its stream for a cause.
LEMMA CloseCauseStep ==
    ASSUME BondInv, [Next]_vars
    PROVE  CloseCause'
  <1> USE DEF wireVars, streamVars, clientVars, openVars, serverVars, regVars, waitVars
  <1> USE DEF BondInv, TypeOK, EndCauses
  <1>0. ASSUME UNCHANGED <<sclosed, broken, lifetime, connOf, sctx>> PROVE CloseCause'
    BY <1>0 DEF CloseCause
  <1>1. CASE ClientNext /\ UNCHANGED serverVars
    <2>1. CASE OpenLane \/ StartCopying \/ ReadLocalChunk \/ ReadLocalEnds \/
       WriteToLane \/ NoLiveLanes \/ WriteFin \/ ReceiveDown \/ DeliverDown \/
       FinishDown \/ CloseBonded \/ ClientStops \/ LocalResets
      BY <1>0, <1>1, <2>1 DEF OpenLane, StartCopying, ReadLocalChunk, ReadLocalEnds,
         WriteToLane, NoLiveLanes, WriteFin, ReceiveDown, ReturnDownload, DeliverDown,
         FinishDown, CloseBonded, ClientStops, LocalResets
    <2>2. ASSUME NEW l \in Lanes, ReadLaneFrame(l) \/ ReadLaneEnds(l)
          PROVE  CloseCause'
      BY <1>0, <1>1, <2>2 DEF ReadLaneFrame, ReadLaneEnds
    <2> QED
      BY <1>1, <2>1, <2>2 DEF ClientNext
  <1>2. CASE ServerNext /\ UNCHANGED clientVars
    <2>1. ASSUME NEW l \in Lanes, GetConn(l) PROVE CloseCause'
      <3>1. \A m \in sclosed : m \in Lanes /\ connOf'[m] = connOf[m]
        BY <2>1 DEF GetConn, ServerTypes, WireTypes, HandlerCloses
      <3> QED
        BY <2>1, <3>1 DEF GetConn, CloseCause
    <2>2. ASSUME NEW l \in Lanes, HelloFails(l) PROVE CloseCause'
      BY <1>2, <2>2 DEF HelloFails, CloseCause
    <2>3. ASSUME NEW l \in Lanes, HandlerReturns(l) PROVE CloseCause'
      <3>1. connOf[l] \in Lanes
        BY <2>3 DEF HandlerReturns, ConnKnown, ServerTypes
      <3>2. connOf[l] # NoConn
        BY <2>3 DEF HandlerReturns, ConnKnown
      <3> QED
        BY <2>3, <3>1, <3>2 DEF HandlerReturns, CloseCause, RunCancels
    <2>4. ASSUME NEW l \in Lanes, SReadEnds(l) PROVE CloseCause'
      BY <1>2, <2>4 DEF SReadEnds, CloseCause
    <2>5. ASSUME NEW c \in Lanes, DialFails(c) PROVE CloseCause'
      BY <1>2, <2>5 DEF DialFails, SetRun, CloseCause
    <2>6. ASSUME NEW c \in Lanes, RunReturns(c) PROVE CloseCause'
      BY <1>2, <2>6 DEF RunReturns, SetRun, CloseCause
    <2>7. ASSUME NEW c \in Lanes, SWriteToLane(c) PROVE CloseCause'
      BY <1>2, <2>7 DEF SWriteToLane, ReturnSend, CloseCause
    <2>8. ASSUME NEW c \in Lanes, RetryWrite(c) PROVE CloseCause'
      BY <1>2, <2>8 DEF RetryWrite, ReturnSend, CloseCause
    <2>9. ASSUME NEW c \in Lanes, SWriteFin(c) PROVE CloseCause'
      BY <1>2, <2>9 DEF SWriteFin, ReturnSend, CloseCause
    <2>10. CASE ServerStops
      BY <1>2, <2>10 DEF ServerStops, CloseCause
    <2>11. ASSUME NEW l \in Lanes, AddLane(l) \/ SReadFrame(l)
          PROVE  CloseCause'
      BY <1>0, <1>2, <2>11 DEF AddLane, SReadFrame
    <2>12. ASSUME NEW c \in Lanes, Forget(c) \/ CheckLanes(c) \/ AwaitLane(c) \/ Dial(c)
       \/ ReceiveUp(c) \/ DeliverUp(c) \/ FinishUp(c) \/ ReadBackendChunk(c) \/
       ReadBackendEnds(c) \/ SnapshotLanes(c) \/ BackendResets(c)
          PROVE  CloseCause'
      BY <1>0, <1>2, <2>12 DEF Forget, CheckLanes, SetRun, AwaitLane, Dial, ReceiveUp,
         DeliverUp, FinishUp, ReadBackendChunk, ReadBackendEnds, SnapshotLanes,
         BackendResets
    <2> QED
      BY <1>2, <2>1, <2>2, <2>3, <2>4, <2>5, <2>6, <2>7, <2>8, <2>9, <2>10, <2>11, <2>12
         DEF ServerNext
  <1>3. CASE WireNext /\ UNCHANGED <<clientVars, serverVars>>
    <2>1. ASSUME NEW l \in Lanes, BreakLane(l) PROVE CloseCause'
      BY <1>3, <2>1 DEF BreakLane, CloseCause
    <2> QED
      BY <1>3, <2>1 DEF WireNext
  <1>4. CASE UNCHANGED vars
    BY <1>0, <1>4 DEF vars
  <1> QED
    BY <1>1, <1>2, <1>3, <1>4 DEF Next

-----------------------------------------------------------------------------
(* What was written is somewhere.                                          *)

\* Which chunks a sequence of frames holds after the operations of the model.
LEMMA DataOf ==
    ASSUME NEW s \in Seq(Frames), NEW n
    PROVE  /\ \A x \in Frames : HasData(s, n) => HasData(Append(s, x), n)
           /\ \A x \in Frames : x.typ = "data" /\ x.seq = n => HasData(Append(s, x), n)
           /\ s # << >> /\ HasData(s, n) =>
                 HasData(Tail(s), n) \/ (Head(s).typ = "data" /\ Head(s).seq = n)
  <1>1. ASSUME NEW x \in Frames PROVE Elements(Append(s, x)) = Elements(s) \cup {x}
    BY FrameElements
  <1>2. ASSUME s # << >> PROVE Elements(s) \subseteq Elements(Tail(s)) \cup {Head(s)}
    <2>1. /\ Len(s) \in Nat /\ Len(s) > 0 /\ DOMAIN s = 1 .. Len(s) /\ Head(s) = s[1]
          /\ DOMAIN Tail(s) = 1 .. Len(s) - 1
          /\ \A i \in 1 .. Len(s) - 1 : Tail(s)[i] = s[i + 1]
      BY <1>2
    <2>2. ASSUME NEW i \in DOMAIN s PROVE s[i] \in Elements(Tail(s)) \cup {Head(s)}
      <3>1. CASE i = 1
        BY <2>1, <3>1
      <3>2. CASE i # 1
        <4>1. i - 1 \in 1 .. Len(s) - 1 /\ i - 1 + 1 = i
          BY <2>1, <2>2, <3>2
        <4>2. Tail(s)[i - 1] = s[i]
          BY <2>1, <4>1
        <4> QED
          BY <2>1, <4>1, <4>2 DEF Elements
      <3> QED
        BY <3>1, <3>2
    <2> QED
      BY <2>2 DEF Elements
  <1>3. ASSUME NEW x \in Frames PROVE HasData(s, n) => HasData(Append(s, x), n)
    BY <1>1 DEF HasData
  <1>4. ASSUME NEW x \in Frames, x.typ = "data", x.seq = n PROVE HasData(Append(s, x), n)
    BY <1>1, <1>4 DEF HasData
  <1>5. ASSUME s # << >>, HasData(s, n)
        PROVE  HasData(Tail(s), n) \/ (Head(s).typ = "data" /\ Head(s).seq = n)
    BY <1>2, <1>5 DEF HasData
  <1> QED
    BY <1>3, <1>4, <1>5

\* readBondFrame and recvCh <- frame: the chunk moves from a lane to the queue.
LEMMA ReachesRead ==
    ASSUME NEW w \in [Lanes -> Seq(Frames)], NEW q \in Seq(Frames), NEW r, NEW n,
           NEW l \in Lanes, w[l] # << >>, Reaches(w, q, r, n)
    PROVE  Reaches(Pop(w, l), Append(q, Head(w[l])), r, n)
  <1> DEFINE v == Pop(w, l)
             p == Append(q, Head(w[l]))
  <1>1. Head(w[l]) \in Frames /\ v[l] = Tail(w[l]) /\ \A m \in Lanes \ {l} : v[m] = w[m]
    BY DEF Pop
  <1>2. HasData(q, n) => HasData(p, n)
    BY <1>1, DataOf
  <1>3. HasData(w[l], n) => HasData(v[l], n) \/ HasData(p, n)
    <2>1. HasData(w[l], n) => HasData(v[l], n) \/ (Head(w[l]).typ = "data" /\ Head(w[l]).seq = n)
      BY <1>1, DataOf
    <2>2. Head(w[l]).typ = "data" /\ Head(w[l]).seq = n => HasData(p, n)
      BY <1>1, DataOf
    <2> QED
      BY <2>1, <2>2
  <1> HIDE DEF v, p
  <1>4. Reaches(v, p, r, n)
    BY <1>1, <1>2, <1>3 DEF Reaches
  <1> QED
    BY <1>4 DEF v, p

\* <-recvCh: it becomes pending.
LEMMA ReachesTake ==
    ASSUME NEW w, NEW q \in Seq(Frames), NEW r, IsReceiver(r), NEW n, q # << >>,
           Head(q) \in Frames, Head(q).typ \in Whole, Reaches(w, q, r, n)
    PROVE  Reaches(w, Tail(q), Take(r, Head(q)), n)
  <1> DEFINE t == Take(r, Head(q))
  <1>1. /\ t.out = r.out
        /\ Head(q).typ = "data" => DOMAIN t.pending = DOMAIN r.pending \cup {Head(q).seq}
        /\ Head(q).typ = "fin" => t.pending = r.pending
    BY TakeEffect
  <1>2. HasData(q, n) => HasData(Tail(q), n) \/ (Head(q).typ = "data" /\ Head(q).seq = n)
    BY DataOf
  <1> HIDE DEF t
  <1>3. Reaches(w, Tail(q), t, n)
    BY <1>1, <1>2 DEF Reaches, Whole
  <1> QED
    BY <1>3 DEF t

\* The write to the TCP connection: it is delivered.
LEMMA ReachesDeliver ==
    ASSUME NEW w, NEW q, NEW r, IsReceiver(r), Deliverable(r), Len(r.out) = r.expect,
           NEW n \in Nat, Reaches(w, q, r, n)
    PROVE  Reaches(w, q, Deliver(r), n)
  <1> DEFINE t == Deliver(r)
  <1>1. /\ t.out = Append(r.out, r.pending[r.expect])
        /\ DOMAIN t.pending = DOMAIN r.pending \ {r.expect}
    BY DeliverEffect
  <1>2. r.out \in Seq(Chunks) /\ r.pending[r.expect] \in Chunks
    BY DEF IsReceiver, Deliverable
  <1>3. Len(t.out) = Len(r.out) + 1 /\ Len(r.out) \in Nat
    BY <1>1, <1>2
  <1> HIDE DEF t
  <1>4. Reaches(w, q, t, n)
    BY <1>1, <1>3 DEF Reaches
  <1> QED
    BY <1>4 DEF t

\* Writing more to lanes loses nothing, ...
LEMMA ReachesMore ==
    ASSUME NEW w \in [Lanes -> Seq(Frames)], NEW v, NEW q, NEW r, NEW n,
           \A m \in Lanes : v[m] = w[m] \/ \E x \in Frames : v[m] = Append(w[m], x),
           Reaches(w, q, r, n)
    PROVE  Reaches(v, q, r, n)
  <1>1. ASSUME NEW m \in Lanes, HasData(w[m], n) PROVE HasData(v[m], n)
    <2>1. CASE v[m] = w[m]
      BY <1>1, <2>1
    <2>2. ASSUME NEW x \in Frames, v[m] = Append(w[m], x) PROVE HasData(v[m], n)
      BY <1>1, <2>2, DataOf
    <2> QED
      BY <2>1, <2>2
  <1> QED
    BY <1>1 DEF Reaches

\* ... a write neither, ...
LEMMA ReachesWritten ==
    ASSUME NEW w \in [Lanes -> Seq(Frames)], NEW l \in Lanes, NEW f \in Frames, NEW own, NEW peer,
           NEW v \in WriteFrame(w, l, f, own, peer), NEW q, NEW r, NEW n, Reaches(w, q, r, n)
    PROVE  Reaches(v, q, r, n)
  <1>1. v = Carried(w, l, f, peer)
    BY DEF WriteFrame
  <1>2. \A m \in Lanes : v[m] = w[m] \/ v[m] = Append(w[m], f)
    BY <1>1 DEF Carried
  <1> QED
    BY <1>2, ReachesMore

\* ... while a chunk that is written to a lane that works is on it.
LEMMA WrittenHasData ==
    ASSUME NEW w \in [Lanes -> Seq(Frames)], NEW l \in Lanes, NEW n \in Nat, NEW d \in Chunks,
           NEW own, NEW peer, NEW v \in WriteFrame(w, l, DataFrame(n, d), own, peer),
           l \notin broken, l \notin peer
    PROVE  HasData(v[l], n)
  <1> DEFINE f == DataFrame(n, d)
  <1>1. f \in Frames /\ f.typ = "data" /\ f.seq = n
    BY DEF DataFrame, Frames
  <1> HIDE DEF f
  <1>2. v = [w EXCEPT ![l] = Append(w[l], f)]
    BY DEF WriteFrame, Carried, f
  <1>3. HasData(Append(w[l], f), n)
    BY <1>1, DataOf
  <1> QED
    BY <1>2, <1>3

\* The download loses no chunk while nothing fails and the client stays.
LEMMA DownKeptStep ==
    ASSUME BondInv, [Next]_vars
    PROVE  DownKept'
  <1> USE DEF wireVars, streamVars, clientVars, openVars, serverVars, regVars, waitVars
  <1> USE DEF BondInv, TypeOK, EndCauses
  <1>0. ASSUME UNCHANGED <<down, crecv, crcv, ssend, broken, cctx>> PROVE DownKept'
    BY <1>0 DEF DownKept
  <1>1. CASE ClientNext /\ UNCHANGED serverVars
    <2>1. CASE StartCopying
      BY <1>1, <2>1 DEF StartCopying, DownKept
    <2>2. CASE ReceiveDown
      <3> SUFFICES ASSUME broken' = {}, ~cctx', NEW c \in Lanes, NEW n \in 0 .. ssend[c].seq - 1
                   PROVE  Reaches(down, crecv', crcv', n)
        BY <1>1, <2>2 DEF ReceiveDown, DownKept
      <3>1. /\ crecv # << >> /\ crcv' = Take(crcv, Head(crecv)) /\ crecv' = Tail(crecv)
            /\ Reaches(down, crecv, crcv, n)
        BY <2>2 DEF ReceiveDown, ReturnDownload, DownKept
      <3>2. /\ crecv \in Seq(Frames) /\ IsReceiver(crcv)
            /\ Head(crecv) \in Frames /\ Head(crecv).typ \in Whole
        BY <3>1, FrameElements DEF QueueTypes, ReceiverTypes
      <3> QED
        BY <3>1, <3>2, ReachesTake
    <2>3. CASE DeliverDown
      <3> SUFFICES ASSUME broken' = {}, ~cctx', NEW c \in Lanes, NEW n \in 0 .. ssend[c].seq - 1
                   PROVE  Reaches(down, crecv, crcv', n)
        BY <1>1, <2>3 DEF DeliverDown, DownKept
      <3>1. /\ Deliverable(crcv) /\ crcv' = Deliver(crcv)
            /\ Reaches(down, crecv, crcv, n)
        BY <2>3 DEF DeliverDown, ReturnDownload, DownKept
      <3>2. IsReceiver(crcv) /\ Len(crcv.out) = crcv.expect /\ n \in Nat
        BY <3>1 DEF ReceiverTypes, Deliverable, DownReceived, ServerTypes, ServerSenders
      <3> QED
        BY <3>1, <3>2, ReachesDeliver
    <2>4. CASE FinishDown
      BY <1>1, <2>4 DEF FinishDown, ReturnDownload, DownKept
    <2>5. CASE CloseBonded
      BY <1>1, <2>5 DEF CloseBonded, DownKept, ClientLeaves
    <2>6. CASE ClientStops
      BY <1>1, <2>6 DEF ClientStops, DownKept
    <2>7. ASSUME NEW l \in Lanes, ReadLaneFrame(l) PROVE DownKept'
      <3> SUFFICES ASSUME broken' = {}, ~cctx', NEW c \in Lanes, NEW n \in 0 .. ssend[c].seq - 1
                   PROVE  Reaches(down', crecv', crcv, n)
        BY <1>1, <2>7 DEF ReadLaneFrame, DownKept
      <3>1. /\ down' = Pop(down, l) /\ crecv' = Append(crecv, Head(down[l])) /\ down[l] # << >>
            /\ Reaches(down, crecv, crcv, n)
        BY <2>7 DEF ReadLaneFrame, HasFrame, DownKept
      <3>2. down \in [Lanes -> Seq(Frames)] /\ crecv \in Seq(Frames)
        BY DEF WireTypes, QueueTypes
      <3> QED
        BY <3>1, <3>2, ReachesRead
    <2>8. CASE OpenLane \/ ReadLocalChunk \/ ReadLocalEnds \/ WriteToLane \/ NoLiveLanes
       \/ WriteFin \/ LocalResets
      BY <1>0, <1>1, <2>8 DEF OpenLane, ReadLocalChunk, ReadLocalEnds, WriteToLane,
         NoLiveLanes, WriteFin, LocalResets
    <2>9. ASSUME NEW l \in Lanes, ReadLaneEnds(l)
          PROVE  DownKept'
      BY <1>0, <1>1, <2>9 DEF ReadLaneEnds
    <2> QED
      BY <1>1, <2>1, <2>2, <2>3, <2>4, <2>5, <2>6, <2>7, <2>8, <2>9 DEF ClientNext
  <1>2. CASE ServerNext /\ UNCHANGED clientVars
    <2>1. ASSUME NEW c \in Lanes, Dial(c) PROVE DownKept'
      <3>1. /\ \A d \in Lanes : ssend'[d].seq = ssend[d].seq
            /\ UNCHANGED <<down, crecv, crcv, broken, cctx>>
        BY <1>2, <2>1, ServerSenderStep DEF Dial
      <3> QED
        BY <3>1 DEF DownKept
    <2>2. ASSUME NEW c \in Lanes, ReadBackendChunk(c) PROVE DownKept'
      <3>1. /\ \A d \in Lanes : ssend'[d].seq = ssend[d].seq
            /\ UNCHANGED <<down, crecv, crcv, broken, cctx>>
        BY <1>2, <2>2, ServerSenderStep DEF ReadBackendChunk
      <3> QED
        BY <3>1 DEF DownKept
    <2>3. ASSUME NEW c \in Lanes, ReadBackendEnds(c) PROVE DownKept'
      <3>1. /\ \A d \in Lanes : ssend'[d].seq = ssend[d].seq
            /\ UNCHANGED <<down, crecv, crcv, broken, cctx>>
        BY <1>2, <2>3, ServerSenderStep DEF ReadBackendEnds
      <3> QED
        BY <3>1 DEF DownKept
    <2>4. ASSUME NEW c \in Lanes, SnapshotLanes(c) PROVE DownKept'
      <3>1. /\ \A d \in Lanes : ssend'[d].seq = ssend[d].seq
            /\ UNCHANGED <<down, crecv, crcv, broken, cctx>>
        BY <1>2, <2>4, ServerSenderStep DEF SnapshotLanes
      <3> QED
        BY <3>1 DEF DownKept
    <2>5. ASSUME NEW c \in Lanes, SWriteToLane(c) PROVE DownKept'
      <3> SUFFICES ASSUME broken = {}, ~cctx, NEW d \in Lanes, NEW n \in 0 .. ssend'[d].seq - 1
                   PROVE  Reaches(down', crecv, crcv, n)
        BY <1>2, <2>5 DEF SWriteToLane, DownKept
      <3> DEFINE s == ssend[c]
                 l == s.lanes[(s.laneIdx % Len(s.lanes)) + 1]
                 f == DataFrame(s.seq, Chunk(c, s.seq))
      <3>1. /\ l \in Lanes /\ f \in Frames /\ TornFrame \in Frames
            /\ \A e \in Lanes \ {c} : ssend'[e] = ssend[e]
            /\ \/ /\ down' \in WriteFrame(down, l, f, sclosed, cclosed)
                  /\ ssend'[c].seq = s.seq + 1
               \/ /\ down' \in WriteError(down, l, f, sclosed, cclosed, Cancelled(c))
                  /\ ssend'[c].seq = s.seq
        BY <2>5, ServerAttempt DEF TornFrame, Frames
      <3>2. s.seq \in Nat /\ ssend[d].seq \in Nat /\ Chunk(c, s.seq) \in Chunks
        BY DEF ServerTypes, ServerSenders, Chunk, Chunks
      <3>3. cclosed = {} /\ down \in [Lanes -> Seq(Frames)]
        BY DEF ClientLeaves, WireTypes
      <3>4. \A k \in 0 .. ssend[d].seq - 1 : Reaches(down, crecv, crcv, k)
        BY DEF DownKept
      <3> HIDE DEF s, l
      <3>5. CASE /\ down' \in WriteFrame(down, l, f, sclosed, cclosed)
                 /\ ssend'[c].seq = s.seq + 1
        <4>1. Reaches(down', crecv, crcv, s.seq)
          <5> DEFINE ch == Chunk(c, s.seq)
          <5>1. /\ down \in [Lanes -> Seq(Frames)] /\ ch \in Chunks /\ s.seq \in Nat /\ l \in Lanes
                /\ down' \in WriteFrame(down, l, DataFrame(s.seq, ch), sclosed, cclosed)
                /\ l \notin broken /\ l \notin cclosed
            BY <3>1, <3>2, <3>3, <3>5
          <5> HIDE DEF ch
          <5>2. HasData(down'[l], s.seq)
            BY <5>1, WrittenHasData
          <5> QED
            BY <5>1, <5>2 DEF Reaches
        <4>2. n = s.seq \/ n \in 0 .. ssend[d].seq - 1
          BY <3>1, <3>2, <3>5 DEF s
        <4>3. ASSUME n \in 0 .. ssend[d].seq - 1 PROVE Reaches(down', crecv, crcv, n)
          <5>1. Reaches(down, crecv, crcv, n) /\ down \in [Lanes -> Seq(Frames)]
            BY <3>3, <3>4, <4>3
          <5>2. l \in Lanes /\ f \in Frames
            BY <3>1
          <5> HIDE DEF f
          <5> QED
            BY <3>5, <5>1, <5>2, ReachesWritten
        <4> QED
          BY <4>1, <4>2, <4>3
      <3>6. CASE /\ down' \in WriteError(down, l, f, sclosed, cclosed, Cancelled(c))
                 /\ ssend'[c].seq = s.seq
        <4>1. \A m \in Lanes : down'[m] \in {down[m], Append(down[m], TornFrame)}
          <5> HIDE DEF f
          <5> QED
            BY <3>1, <3>3, <3>6, WriteEffect
        <4>2. Reaches(down, crecv, crcv, n)
          BY <3>1, <3>4, <3>6 DEF s
        <4> QED
          BY <3>1, <3>3, <4>1, <4>2, ReachesMore
      <3> QED
        BY <3>1, <3>5, <3>6
    <2>6. ASSUME NEW c \in Lanes, RetryWrite(c) PROVE DownKept'
      <3>1. /\ \A d \in Lanes : ssend'[d].seq = ssend[d].seq
            /\ UNCHANGED <<down, crecv, crcv, broken, cctx>>
        BY <1>2, <2>6, ServerSenderStep DEF RetryWrite
      <3> QED
        BY <3>1 DEF DownKept
    <2>7. ASSUME NEW c \in Lanes, SWriteFin(c) PROVE DownKept'
      <3> SUFFICES ASSUME broken = {}, ~cctx, NEW d \in Lanes, NEW n \in 0 .. ssend'[d].seq - 1
                   PROVE  Reaches(down', crecv, crcv, n)
        BY <1>2, <2>7 DEF SWriteFin, DownKept
      <3>1. ssend'[d].seq = ssend[d].seq /\ ssend[c].seq \in Nat
        BY <2>7, ServerSenderStep DEF ServerTypes, ServerSenders
      <3>2. Reaches(down, crecv, crcv, n) /\ down \in [Lanes -> Seq(Frames)]
        BY <3>1 DEF DownKept, WireTypes
      <3>3. FinFrame(ssend[c].seq) \in Frames
        BY <3>1 DEF FinFrame, Frames
      <3>4. \A m \in Lanes : down'[m] \in {down[m], Append(down[m], FinFrame(ssend[c].seq))}
        BY <2>7, <3>1, <3>2, FinEffect DEF SWriteFin
      <3> QED
        BY <3>2, <3>3, <3>4, ReachesMore
    <2>8. CASE ServerStops
      BY <1>0, <1>2, <2>8 DEF ServerStops
    <2>9. ASSUME NEW l \in Lanes, GetConn(l) \/ HelloFails(l) \/ AddLane(l) \/
       HandlerReturns(l) \/ SReadFrame(l) \/ SReadEnds(l)
          PROVE  DownKept'
      BY <1>0, <1>2, <2>9 DEF GetConn, HelloFails, AddLane, HandlerReturns, SReadFrame,
         SReadEnds
    <2>10. ASSUME NEW c \in Lanes, Forget(c) \/ CheckLanes(c) \/ AwaitLane(c) \/
       DialFails(c) \/ RunReturns(c) \/ ReceiveUp(c) \/ DeliverUp(c) \/ FinishUp(c) \/
       BackendResets(c)
          PROVE  DownKept'
      BY <1>0, <1>2, <2>10 DEF Forget, CheckLanes, SetRun, AwaitLane, DialFails,
         RunReturns, ReceiveUp, DeliverUp, FinishUp, BackendResets
    <2> QED
      BY <1>2, <2>1, <2>2, <2>3, <2>4, <2>5, <2>6, <2>7, <2>8, <2>9, <2>10 DEF
         ServerNext
  <1>3. CASE WireNext /\ UNCHANGED <<clientVars, serverVars>>
    <2>1. ASSUME NEW l \in Lanes, BreakLane(l) PROVE DownKept'
      BY <1>3, <2>1 DEF BreakLane, DownKept
    <2> QED
      BY <1>3, <2>1 DEF WireNext
  <1>4. CASE UNCHANGED vars
    BY <1>0, <1>4 DEF vars
  <1> QED
    BY <1>1, <1>2, <1>3, <1>4 DEF Next

\* The upload loses no chunk while nothing fails and both sides stay.
LEMMA UpKeptStep ==
    ASSUME BondInv, [Next]_vars
    PROVE  UpKept'
  <1> USE DEF wireVars, streamVars, clientVars, openVars, serverVars, regVars, waitVars
  <1> USE DEF BondInv, TypeOK, EndCauses
  <1>0. ASSUME UNCHANGED <<up, srecv, srcv, csend, broken, cctx, lifetime, sctx, backend, connOf>> PROVE UpKept'
    BY <1>0 DEF UpKept, Undisturbed, Created
  <1>1. CASE ClientNext /\ UNCHANGED serverVars
    <2>1. CASE OpenLane
      <3>1. ASSUME NEW c \in Lanes, Undisturbed(c)' PROVE Undisturbed(c)
        BY <1>1, <2>1, <3>1 DEF OpenLane, Undisturbed, Created
      <3>2. UNCHANGED <<srecv, srcv, csend>>
        BY <1>1, <2>1 DEF OpenLane
      <3>3. cand \in Lanes /\ HelloFrame \in Frames /\ up \in [Lanes -> Seq(Frames)]
        BY <2>1, BondConstants DEF OpenLane, ClientTypes, Lanes, HelloFrame, Frames, WireTypes
      <3>4. up' = up \/ up' = Carried(up, cand, HelloFrame, sclosed)
        BY <2>1 DEF OpenLane
      <3>5. ASSUME NEW m \in Lanes PROVE up'[m] \in {up[m], Append(up[m], HelloFrame)}
        BY <3>3, <3>4, CarriedEffect
      <3>6. ASSUME NEW c \in Lanes, NEW n, Reaches(up, srecv[c], srcv[c], n)
            PROVE  Reaches(up', srecv[c], srcv[c], n)
        BY <3>3, <3>5, <3>6, ReachesMore
      <3> QED
        BY <3>1, <3>2, <3>6 DEF UpKept
    <2>2. CASE StartCopying
      <3>1. ASSUME NEW c \in Lanes, Undisturbed(c)' PROVE Undisturbed(c)
        BY <1>1, <2>2, <3>1 DEF StartCopying, Undisturbed, Created
      <3>2. csend'.seq = csend.seq /\ UNCHANGED <<up, srecv, srcv>>
        BY <1>1, <2>2 DEF StartCopying, ClientTypes, ClientSenders
      <3> QED
        BY <3>1, <3>2 DEF UpKept
    <2>3. CASE ReadLocalChunk
      <3>1. ASSUME NEW c \in Lanes, Undisturbed(c)' PROVE Undisturbed(c)
        BY <1>1, <2>3, <3>1 DEF ReadLocalChunk, Undisturbed, Created
      <3>2. csend'.seq = csend.seq /\ UNCHANGED <<up, srecv, srcv>>
        BY <1>1, <2>3 DEF ReadLocalChunk, ClientTypes, ClientSenders
      <3> QED
        BY <3>1, <3>2 DEF UpKept
    <2>4. CASE ReadLocalEnds
      <3>1. ASSUME NEW c \in Lanes, Undisturbed(c)' PROVE Undisturbed(c)
        BY <1>1, <2>4, <3>1 DEF ReadLocalEnds, Undisturbed, Created
      <3>2. csend'.seq = csend.seq /\ UNCHANGED <<up, srecv, srcv>>
        BY <1>1, <2>4 DEF ReadLocalEnds, ClientTypes, ClientSenders
      <3> QED
        BY <3>1, <3>2 DEF UpKept
    <2>5. CASE WriteToLane
      <3> DEFINE l == lanes[csend.laneIdx + 1]
                 f == DataFrame(csend.seq, Chunk(Local, csend.seq))
      <3>1. /\ l \in Lanes /\ f \in Frames /\ TornFrame \in Frames
            /\ \/ UNCHANGED up /\ csend'.seq = csend.seq
               \/ /\ up' \in WriteFrame(up, l, f, cclosed, sclosed)
                  /\ csend'.seq = csend.seq + 1
               \/ /\ up' \in WriteError(up, l, f, cclosed, sclosed, cctx)
                  /\ csend'.seq = csend.seq
        BY <2>5, ClientAttempt DEF TornFrame, Frames
      <3>2. /\ csend.seq \in Nat /\ Chunk(Local, csend.seq) \in Chunks
            /\ UNCHANGED <<srecv, srcv>> /\ up \in [Lanes -> Seq(Frames)]
        BY <1>1, <2>5 DEF WriteToLane, ClientTypes, ClientSenders, Chunk, Chunks, Local, WireTypes
      <3> HIDE DEF l
      <3> SUFFICES ASSUME NEW c \in Lanes, Undisturbed(c), NEW n \in 0 .. csend'.seq - 1
                   PROVE  Reaches(up', srecv[c], srcv[c], n)
        <4>1. ASSUME NEW c \in Lanes, Undisturbed(c)' PROVE Undisturbed(c)
          BY <1>1, <2>5, <4>1 DEF WriteToLane, Undisturbed, Created
        <4> QED
          BY <3>2, <4>1 DEF UpKept
      <3>3. \A k \in 0 .. csend.seq - 1 : Reaches(up, srecv[c], srcv[c], k)
        BY DEF UpKept
      <3>4. l \notin broken /\ l \notin sclosed
        <4>1. connOf[l] # NoConn => connOf[l] = c
          BY <3>1 DEF ConnKnown, ServerTypes, Undisturbed, Created
        <4> QED
          BY <4>1 DEF Undisturbed, CloseCause
      <3>5. CASE UNCHANGED up /\ csend'.seq = csend.seq
        BY <3>3, <3>5
      <3>6. CASE up' \in WriteFrame(up, l, f, cclosed, sclosed) /\ csend'.seq = csend.seq + 1
        <4>1. Reaches(up', srecv[c], srcv[c], csend.seq)
          <5> DEFINE ch == Chunk(Local, csend.seq)
          <5>1. /\ up \in [Lanes -> Seq(Frames)] /\ ch \in Chunks /\ csend.seq \in Nat /\ l \in Lanes
                /\ up' \in WriteFrame(up, l, DataFrame(csend.seq, ch), cclosed, sclosed)
                /\ l \notin broken /\ l \notin sclosed
            BY <3>1, <3>2, <3>4, <3>6
          <5> HIDE DEF ch
          <5>2. HasData(up'[l], csend.seq)
            BY <5>1, WrittenHasData
          <5> QED
            BY <5>1, <5>2 DEF Reaches
        <4>2. n = csend.seq \/ n \in 0 .. csend.seq - 1
          BY <3>2, <3>6
        <4>3. ASSUME n \in 0 .. csend.seq - 1 PROVE Reaches(up', srecv[c], srcv[c], n)
          <5>1. Reaches(up, srecv[c], srcv[c], n) /\ up \in [Lanes -> Seq(Frames)]
            BY <3>2, <3>3, <4>3
          <5>2. l \in Lanes /\ f \in Frames
            BY <3>1
          <5> HIDE DEF f
          <5> QED
            BY <3>6, <5>1, <5>2, ReachesWritten
        <4> QED
          BY <4>1, <4>2, <4>3
      <3>7. CASE up' \in WriteError(up, l, f, cclosed, sclosed, cctx) /\ csend'.seq = csend.seq
        <4>1. \A m \in Lanes : up'[m] \in {up[m], Append(up[m], TornFrame)}
          <5> HIDE DEF f
          <5> QED
            BY <3>1, <3>2, <3>7, WriteEffect
        <4>2. Reaches(up, srecv[c], srcv[c], n)
          BY <3>3, <3>7
        <4> QED
          BY <3>1, <3>2, <4>1, <4>2, ReachesMore
      <3> QED
        BY <3>1, <3>5, <3>6, <3>7
    <2>6. CASE NoLiveLanes
      <3>1. ASSUME NEW c \in Lanes, Undisturbed(c)' PROVE Undisturbed(c)
        BY <1>1, <2>6, <3>1 DEF NoLiveLanes, Undisturbed, Created
      <3>2. csend'.seq = csend.seq /\ UNCHANGED <<up, srecv, srcv>>
        BY <1>1, <2>6 DEF NoLiveLanes, ClientTypes, ClientSenders, ClientSender
      <3> QED
        BY <3>1, <3>2 DEF UpKept
    <2>7. CASE WriteFin
      <3>1. ASSUME NEW c \in Lanes, Undisturbed(c)' PROVE Undisturbed(c)
        BY <1>1, <2>7, <3>1 DEF WriteFin, Undisturbed, Created
      <3>2. csend'.seq = csend.seq /\ csend.seq \in Nat /\ UNCHANGED <<srecv, srcv>>
        BY <1>1, <2>7 DEF WriteFin, ClientSender, ClientTypes, ClientSenders
      <3>3. FinFrame(csend.seq) \in Frames /\ up \in [Lanes -> Seq(Frames)]
        BY <3>2 DEF FinFrame, Frames, WireTypes
      <3>4. ASSUME NEW m \in Lanes PROVE up'[m] \in {up[m], Append(up[m], FinFrame(csend.seq))}
        BY <2>7, <3>2, <3>3, FinEffect DEF WriteFin
      <3>5. ASSUME NEW c \in Lanes, NEW n, Reaches(up, srecv[c], srcv[c], n)
            PROVE  Reaches(up', srecv[c], srcv[c], n)
        BY <3>3, <3>4, <3>5, ReachesMore
      <3> QED
        BY <3>1, <3>2, <3>5 DEF UpKept
    <2>8. CASE ReceiveDown
      <3>1. ASSUME NEW c \in Lanes, Undisturbed(c)' PROVE Undisturbed(c)
        BY <1>1, <2>8, <3>1 DEF ReceiveDown, ReturnDownload, Undisturbed, Created
      <3>2. UNCHANGED <<up, srecv, srcv, csend>>
        BY <1>1, <2>8 DEF ReceiveDown, ReturnDownload
      <3> QED
        BY <3>1, <3>2 DEF UpKept
    <2>9. CASE DeliverDown
      <3>1. ASSUME NEW c \in Lanes, Undisturbed(c)' PROVE Undisturbed(c)
        BY <1>1, <2>9, <3>1 DEF DeliverDown, ReturnDownload, Undisturbed, Created
      <3>2. UNCHANGED <<up, srecv, srcv, csend>>
        BY <1>1, <2>9 DEF DeliverDown, ReturnDownload
      <3> QED
        BY <3>1, <3>2 DEF UpKept
    <2>10. CASE FinishDown
      <3>1. ASSUME NEW c \in Lanes, Undisturbed(c)' PROVE Undisturbed(c)
        BY <1>1, <2>10, <3>1 DEF FinishDown, ReturnDownload, Undisturbed, Created
      <3>2. UNCHANGED <<up, srecv, srcv, csend>>
        BY <1>1, <2>10 DEF FinishDown, ReturnDownload
      <3> QED
        BY <3>1, <3>2 DEF UpKept
    <2>11. CASE CloseBonded
      <3>1. ASSUME NEW c \in Lanes, Undisturbed(c)' PROVE Undisturbed(c)
        BY <1>1, <2>11, <3>1 DEF CloseBonded, Undisturbed, Created
      <3>2. UNCHANGED <<up, srecv, srcv, csend>>
        BY <1>1, <2>11 DEF CloseBonded
      <3> QED
        BY <3>1, <3>2 DEF UpKept
    <2>12. CASE ClientStops
      <3>1. ASSUME NEW c \in Lanes, Undisturbed(c)' PROVE Undisturbed(c)
        BY <1>1, <2>12, <3>1 DEF ClientStops, Undisturbed, Created
      <3>2. UNCHANGED <<up, srecv, srcv, csend>>
        BY <1>1, <2>12 DEF ClientStops
      <3> QED
        BY <3>1, <3>2 DEF UpKept
    <2>13. CASE LocalResets
      BY <1>0, <1>1, <2>13 DEF LocalResets
    <2>14. ASSUME NEW l \in Lanes, ReadLaneFrame(l) \/ ReadLaneEnds(l)
          PROVE  UpKept'
      BY <1>0, <1>1, <2>14 DEF ReadLaneFrame, ReadLaneEnds
    <2> QED
      BY <1>1, <2>1, <2>2, <2>3, <2>4, <2>5, <2>6, <2>7, <2>8, <2>9, <2>10, <2>11,
         <2>12, <2>13, <2>14 DEF ClientNext
  <1>2. CASE ServerNext /\ UNCHANGED clientVars
    <2>1. ASSUME NEW l \in Lanes, GetConn(l) PROVE UpKept'
      <3>1. ASSUME NEW c \in Lanes, Undisturbed(c)' PROVE Undisturbed(c)
        <4>1. Created \subseteq Created'
          BY ConnHistoryStep DEF ConnHistory, Created, Lanes, NoConn
        <4> QED
          BY <1>2, <2>1, <3>1, <4>1 DEF GetConn, Undisturbed
      <3>2. UNCHANGED <<srecv, srcv, csend>> /\ up[l] # << >> /\ Head(up[l]) = HelloFrame
            /\ up \in [Lanes -> Seq(Frames)]
        BY <1>2, <2>1 DEF GetConn, WireTypes
      <3>3. up'[l] = Tail(up[l]) /\ \A m \in Lanes \ {l} : up'[m] = up[m]
        BY <2>1, <3>2 DEF GetConn, Pop
      <3>4. ASSUME NEW m \in Lanes, NEW n, HasData(up[m], n) PROVE HasData(up'[m], n)
        <4>1. HelloFrame.typ # "data"
          BY DEF HelloFrame
        <4>2. HasData(up[l], n) => HasData(Tail(up[l]), n)
          BY <3>2, <4>1, DataOf
        <4> QED
          BY <3>3, <3>4, <4>2
      <3>5. ASSUME NEW c \in Lanes, NEW n, Reaches(up, srecv[c], srcv[c], n)
            PROVE  Reaches(up', srecv[c], srcv[c], n)
        BY <3>4, <3>5 DEF Reaches
      <3> QED
        BY <3>1, <3>2, <3>5 DEF UpKept
    <2>2. ASSUME NEW l \in Lanes, HelloFails(l) PROVE UpKept'
      BY <1>2, <2>2 DEF HelloFails, UpKept, Undisturbed
    <2>3. ASSUME NEW l \in Lanes, HandlerReturns(l) PROVE UpKept'
      <3>1. ASSUME NEW c \in Lanes, Undisturbed(c)' PROVE FALSE
        <4>1. connOf[l] \in Lanes /\ connOf[connOf[l]] = connOf[l] /\ lifetime = "live" /\ c \notin sctx
          BY <2>3, <3>1 DEF HandlerReturns, ConnKnown, ServerTypes, Undisturbed
        <4>2. connOf[l] = c
          BY <2>3, <3>1, <4>1 DEF HandlerReturns, Undisturbed, Created
        <4> QED
          BY <2>3, <4>1, <4>2 DEF HandlerReturns, RunCancels
      <3> QED
        BY <3>1 DEF UpKept
    <2>4. ASSUME NEW l \in Lanes, SReadFrame(l) PROVE UpKept'
      <3> SUFFICES ASSUME NEW c \in Lanes, Undisturbed(c), NEW n \in 0 .. csend.seq - 1
                   PROVE  Reaches(up', srecv'[c], srcv[c], n)
        <4>1. ASSUME NEW c \in Lanes, Undisturbed(c)' PROVE Undisturbed(c)
          BY <1>2, <2>4, <4>1 DEF SReadFrame, Undisturbed, Created
        <4> QED
          BY <1>2, <2>4, <4>1 DEF SReadFrame, UpKept
      <3>1. connOf[l] = c
        BY <2>4 DEF SReadFrame, ConnKnown, ServerTypes, Undisturbed, Created
      <3>2. ~Cancelled(c)
        BY DEF Undisturbed, Cancelled
      <3>3. /\ up' = Pop(up, l) /\ srecv'[c] = Append(srecv[c], Head(up[l])) /\ up[l] # << >>
            /\ up \in [Lanes -> Seq(Frames)] /\ srecv[c] \in Seq(Frames)
        BY <2>4, <3>1, <3>2 DEF SReadFrame, HasFrame, QueueTypes, WireTypes
      <3>4. Reaches(up, srecv[c], srcv[c], n)
        BY DEF UpKept
      <3> QED
        BY <3>3, <3>4, ReachesRead
    <2>5. ASSUME NEW l \in Lanes, SReadEnds(l) PROVE UpKept'
      <3>1. ASSUME NEW e \in Lanes, Undisturbed(e)' PROVE Undisturbed(e)
        BY <1>2, <2>5, <3>1 DEF SReadEnds, Undisturbed, Created, ServerTypes
      <3>2. UNCHANGED <<up, srecv, srcv, csend>>
        BY <1>2, <2>5 DEF SReadEnds
      <3> QED
        BY <3>1, <3>2 DEF UpKept
    <2>6. ASSUME NEW c \in Lanes, DialFails(c) PROVE UpKept'
      <3>1. ASSUME NEW e \in Lanes, Undisturbed(e)' PROVE Undisturbed(e)
        BY <1>2, <2>6, <3>1 DEF DialFails, SetRun, Undisturbed, Created, ServerTypes
      <3>2. UNCHANGED <<up, srecv, srcv, csend>>
        BY <1>2, <2>6 DEF DialFails, SetRun
      <3> QED
        BY <3>1, <3>2 DEF UpKept
    <2>7. ASSUME NEW c \in Lanes, RunReturns(c) PROVE UpKept'
      <3>1. ASSUME NEW e \in Lanes, Undisturbed(e)' PROVE Undisturbed(e)
        BY <1>2, <2>7, <3>1 DEF RunReturns, SetRun, Undisturbed, Created, ServerTypes
      <3>2. UNCHANGED <<up, srecv, srcv, csend>>
        BY <1>2, <2>7 DEF RunReturns, SetRun
      <3> QED
        BY <3>1, <3>2 DEF UpKept
    <2>8. ASSUME NEW c \in Lanes, ReceiveUp(c) PROVE UpKept'
      <3> SUFFICES ASSUME NEW e \in Lanes, Undisturbed(e), NEW n \in 0 .. csend.seq - 1
                   PROVE  Reaches(up, srecv'[e], srcv'[e], n)
        <4>1. ASSUME NEW e \in Lanes, Undisturbed(e)' PROVE Undisturbed(e)
          BY <1>2, <2>8, <4>1 DEF ReceiveUp, Undisturbed, Created
        <4> QED
          BY <1>2, <2>8, <4>1 DEF ReceiveUp, UpKept
      <3>1. Reaches(up, srecv[e], srcv[e], n)
        BY DEF UpKept
      <3>2. CASE e # c
        <4>1. srecv'[e] = srecv[e] /\ srcv'[e] = srcv[e]
          BY <2>8, <3>2 DEF ReceiveUp, QueueTypes, ReceiverTypes
        <4> QED
          BY <3>1, <4>1
      <3>3. CASE e = c
        <4>1. ~Cancelled(c)
          BY <3>3 DEF Undisturbed, Cancelled
        <4>2. /\ srecv[c] # << >> /\ srecv'[c] = Tail(srecv[c])
              /\ srcv'[c] = Take(srcv[c], Head(srecv[c]))
          BY <2>8, <4>1 DEF ReceiveUp, QueueTypes, ReceiverTypes
        <4>3. /\ srecv[c] \in Seq(Frames) /\ IsReceiver(srcv[c])
              /\ Head(srecv[c]) \in Frames /\ Head(srecv[c]).typ \in Whole
          BY <4>2, FrameElements DEF QueueTypes, ReceiverTypes
        <4>4. Reaches(up, Tail(srecv[c]), Take(srcv[c], Head(srecv[c])), n)
          BY <3>1, <3>3, <4>2, <4>3, ReachesTake
        <4> QED
          BY <3>3, <4>2, <4>4
      <3> QED
        BY <3>2, <3>3
    <2>9. ASSUME NEW c \in Lanes, DeliverUp(c) PROVE UpKept'
      <3> SUFFICES ASSUME NEW e \in Lanes, Undisturbed(e), NEW n \in 0 .. csend.seq - 1
                   PROVE  Reaches(up, srecv[e], srcv'[e], n)
        <4>1. ASSUME NEW e \in Lanes, Undisturbed(e)' PROVE Undisturbed(e)
          BY <1>2, <2>9, <4>1 DEF DeliverUp, Undisturbed, Created
        <4> QED
          BY <1>2, <2>9, <4>1 DEF DeliverUp, UpKept
      <3>1. Reaches(up, srecv[e], srcv[e], n)
        BY DEF UpKept
      <3>2. CASE e # c
        <4>1. srcv'[e] = srcv[e]
          BY <2>9, <3>2 DEF DeliverUp, ReceiverTypes
        <4> QED
          BY <3>1, <4>1
      <3>3. CASE e = c
        <4>1. ~Cancelled(c) /\ backend[c] # "reset"
          BY <3>3 DEF Undisturbed, Cancelled
        <4>2. Deliverable(srcv[c]) /\ srcv'[c] = Deliver(srcv[c])
          BY <2>9, <4>1 DEF DeliverUp, ReceiverTypes
        <4>3. IsReceiver(srcv[c]) /\ Len(srcv[c].out) = srcv[c].expect
          BY <4>2 DEF ReceiverTypes, UpReceived, UpReceiver, Deliverable
        <4>4. n \in Nat
          BY DEF ClientTypes, ClientSenders
        <4>5. Reaches(up, srecv[c], Deliver(srcv[c]), n)
          BY <3>1, <3>3, <4>2, <4>3, <4>4, ReachesDeliver
        <4> QED
          BY <3>3, <4>2, <4>5
      <3> QED
        BY <3>2, <3>3
    <2>10. ASSUME NEW c \in Lanes, FinishUp(c) PROVE UpKept'
      <3> SUFFICES ASSUME NEW e \in Lanes, Undisturbed(e), NEW n \in 0 .. csend.seq - 1
                   PROVE  Reaches(up, srecv[e], srcv'[e], n)
        <4>1. ASSUME NEW e \in Lanes, Undisturbed(e)' PROVE Undisturbed(e)
          BY <1>2, <2>10, <4>1 DEF FinishUp, Undisturbed, Created
        <4> QED
          BY <1>2, <2>10, <4>1 DEF FinishUp, UpKept
      <3>1. Reaches(up, srecv[e], srcv[e], n)
        BY DEF UpKept
      <3>2. CASE e # c
        <4>1. srcv'[e] = srcv[e]
          BY <2>10, <3>2 DEF FinishUp, ReceiverTypes
        <4> QED
          BY <3>1, <4>1
      <3>3. CASE e = c
        <4>1. FinReached(srcv[c]) /\ srcv'[c] = Returned(srcv[c], "finished")
          BY <2>10 DEF FinishUp, ReceiverTypes
        <4>2. IsReceiver(srcv[c]) /\ UpReceiver(srcv[c])
          BY DEF ReceiverTypes, UpReceived
        <4>3. srcv'[c].out = srcv[c].out /\ Len(srcv[c].out) = csend.seq
          <5>1. srcv'[c].out = srcv[c].out
            BY <4>1, <4>2, ReturnedEffect
          <5>2. srcv[c].fin # NoFin /\ srcv[c].fin = srcv[c].expect /\ srcv[c].pc = "run"
            BY <4>1, <4>2 DEF FinReached, IsReceiver, NoFin
          <5> QED
            BY <4>2, <5>1, <5>2 DEF UpReceiver
        <4>4. n < csend.seq
          BY DEF ClientTypes, ClientSenders
        <4> QED
          BY <3>3, <4>3, <4>4 DEF Reaches
      <3> QED
        BY <3>2, <3>3
    <2>11. ASSUME NEW c \in Lanes, SWriteToLane(c) PROVE UpKept'
      <3>1. ASSUME NEW e \in Lanes, Undisturbed(e)' PROVE Undisturbed(e)
        BY <1>2, <2>11, <3>1 DEF SWriteToLane, ReturnSend, Undisturbed, Created, ServerTypes
      <3>2. UNCHANGED <<up, srecv, srcv, csend>>
        BY <1>2, <2>11 DEF SWriteToLane, ReturnSend
      <3> QED
        BY <3>1, <3>2 DEF UpKept
    <2>12. ASSUME NEW c \in Lanes, RetryWrite(c) PROVE UpKept'
      <3>1. ASSUME NEW e \in Lanes, Undisturbed(e)' PROVE Undisturbed(e)
        BY <1>2, <2>12, <3>1 DEF RetryWrite, ReturnSend, Undisturbed, Created, ServerTypes
      <3>2. UNCHANGED <<up, srecv, srcv, csend>>
        BY <1>2, <2>12 DEF RetryWrite, ReturnSend
      <3> QED
        BY <3>1, <3>2 DEF UpKept
    <2>13. ASSUME NEW c \in Lanes, SWriteFin(c) PROVE UpKept'
      <3>1. ASSUME NEW e \in Lanes, Undisturbed(e)' PROVE Undisturbed(e)
        BY <1>2, <2>13, <3>1 DEF SWriteFin, ReturnSend, Undisturbed, Created, ServerTypes
      <3>2. UNCHANGED <<up, srecv, srcv, csend>>
        BY <1>2, <2>13 DEF SWriteFin, ReturnSend
      <3> QED
        BY <3>1, <3>2 DEF UpKept
    <2>14. ASSUME NEW c \in Lanes, BackendResets(c) PROVE UpKept'
      <3>1. ASSUME NEW e \in Lanes, Undisturbed(e)' PROVE Undisturbed(e)
        BY <1>2, <2>14, <3>1 DEF BackendResets, Undisturbed, Created, ServerTypes
      <3>2. UNCHANGED <<up, srecv, srcv, csend>>
        BY <1>2, <2>14 DEF BackendResets
      <3> QED
        BY <3>1, <3>2 DEF UpKept
    <2>15. CASE ServerStops
      <3>1. ASSUME NEW e \in Lanes, Undisturbed(e)' PROVE Undisturbed(e)
        BY <1>2, <2>15, <3>1 DEF ServerStops, Undisturbed, Created, ServerTypes
      <3>2. UNCHANGED <<up, srecv, srcv, csend>>
        BY <1>2, <2>15 DEF ServerStops
      <3> QED
        BY <3>1, <3>2 DEF UpKept
    <2>16. ASSUME NEW l \in Lanes, AddLane(l)
          PROVE  UpKept'
      BY <1>0, <1>2, <2>16 DEF AddLane
    <2>17. ASSUME NEW c \in Lanes, Forget(c) \/ CheckLanes(c) \/ AwaitLane(c) \/ Dial(c)
       \/ ReadBackendChunk(c) \/ ReadBackendEnds(c) \/ SnapshotLanes(c)
          PROVE  UpKept'
      BY <1>0, <1>2, <2>17 DEF Forget, CheckLanes, SetRun, AwaitLane, Dial,
         ReadBackendChunk, ReadBackendEnds, SnapshotLanes
    <2> QED
      BY <1>2, <2>1, <2>2, <2>3, <2>4, <2>5, <2>6, <2>7, <2>8, <2>9, <2>10, <2>11,
         <2>12, <2>13, <2>14, <2>15, <2>16, <2>17 DEF ServerNext
  <1>3. CASE WireNext /\ UNCHANGED <<clientVars, serverVars>>
    <2>1. ASSUME NEW l \in Lanes, BreakLane(l) PROVE UpKept'
      BY <1>3, <2>1 DEF BreakLane, UpKept, Undisturbed
    <2> QED
      BY <1>3, <2>1 DEF WireNext
  <1>4. CASE UNCHANGED vars
    BY <1>0, <1>4 DEF vars
  <1> QED
    BY <1>1, <1>2, <1>3, <1>4 DEF Next

-----------------------------------------------------------------------------
(* The invariant and what follows from it.                                 *)

\* The invariant holds before the client opens the first lane, ...
LEMMA BondInit == Init => BondInv
  <1> SUFFICES ASSUME Init PROVE BondInv
    OBVIOUS
  <1> USE DEF Init, WireInit, ClientInit, ServerInit
  <1>1. << >> \in Seq(Frames) /\ << >> \in Seq(Lanes) /\ << >> \in Seq(Chunks) /\ Len(<< >>) = 0
    OBVIOUS
  <1>2. NumLanes \in Nat \ {0} /\ NoConn \notin Lanes /\ DOMAIN << >> = {} /\ Elements(<< >>) = {}
    BY BondConstants DEF NoConn, Lanes, Elements
  <1>3. IsReceiver(NewReceiver) /\ NewReceiver.fin = NoFin /\ NewReceiver.pc = "run"
        /\ NewReceiver.out = << >> /\ NewReceiver.pending = << >> /\ NewReceiver.expect = 0
    BY <1>1, <1>2 DEF IsReceiver, NewReceiver, NoFin
  <1>4. WireTypes
    BY <1>1 DEF WireTypes
  <1>5. ClientTypes
    <2>1. cand \in 1 .. NumLanes + 1
      BY <1>2
    <2>2. csend \in ClientSenders
      BY DEF ClientSender, ClientSenders
    <2>3. /\ chandler \in {"opening", "copying", "closed"} /\ lanes \in Seq(Lanes)
          /\ dead \subseteq Lanes /\ cread \subseteq Lanes /\ local \in {"open", "reset"}
      BY <1>1
    <2>4. cctx \in BOOLEAN
      OBVIOUS
    <2> QED
      BY <2>1, <2>2, <2>3, <2>4 DEF ClientTypes
  <1>6. ServerTypes
    BY <1>1 DEF ServerTypes, ServerSender, ServerSenders
  <1>7. QueueTypes /\ ReceiverTypes
    BY <1>1, <1>2, <1>3 DEF QueueTypes, ReceiverTypes
  <1>8. ClientOrder /\ ConnKnown
    BY <1>1, <1>2 DEF ClientOrder, ConnKnown, ClientSender, ServerSender
  <1>9. UpFrames /\ DownFrames
    BY <1>2 DEF UpFrames, DownFrames
  <1>10. UpReceived
    <2>1. csend.seq = 0
      BY DEF ClientSender
    <2>2. UpReceiver(NewReceiver)
      BY <1>1, <1>2, <1>3, <2>1 DEF UpReceiver
    <2> QED
      BY <2>2 DEF UpReceived
  <1>11. DownReceived
    BY <1>1, <1>2, <1>3 DEF DownReceived
  <1>12. LanesOfConn
    BY <1>2 DEF LanesOfConn, Distinct, ServerSender
  <1>13. TornUp /\ TornDown
    BY <1>2 DEF TornUp, TornDown, TornIsLast, HasTorn
  <1>14. EndCauses
    BY <1>3 DEF EndCauses, ClientLeaves, RunCancels, HandlerCloses, LaneMissing, CloseCause
  <1>15. DownKept /\ UpKept
    <2>1. csend.seq = 0 /\ \A c \in Lanes : ssend[c].seq = 0
      BY DEF ClientSender, ServerSender
    <2> QED
      BY <2>1 DEF DownKept, UpKept
  <1> QED
    BY <1>4, <1>5, <1>6, <1>7, <1>8, <1>9, <1>10, <1>11, <1>12, <1>13, <1>14, <1>15
       DEF BondInv, TypeOK

\* ... and every step of either end, of the peers and of the sessions keeps it.
LEMMA BondStep ==
    ASSUME BondInv, [Next]_vars
    PROVE  BondInv'
  <1>1. TypeOK'
    BY WireTypesStep, ClientTypesStep, ServerTypesStep, QueueTypesStep, ReceiverTypesStep
       DEF TypeOK
  <1>2. ClientOrder' /\ ConnKnown' /\ LanesOfConn'
    BY ClientOrderStep, ConnKnownStep, LanesOfConnStep
  <1>3. UpFrames' /\ UpReceived'
    BY <1>1, UpFramesStep, UpReceivedStep
  <1>4. DownFrames' /\ DownReceived'
    BY DownFramesStep, DownReceivedStep
  <1>5. TornUp' /\ TornDown'
    BY <1>1, TornUpStep, TornDownStep
  <1>6. EndCauses'
    BY ClientLeavesStep, RunCancelsStep, HandlerClosesStep, LaneMissingStep,
       CloseCauseStep DEF EndCauses
  <1>7. DownKept' /\ UpKept'
    BY DownKeptStep, UpKeptStep
  <1> QED
    BY <1>1, <1>2, <1>3, <1>4, <1>5, <1>6, <1>7 DEF BondInv

(***************************************************************************)
(* BondInv is an inductive invariant: whatever sessions fail, whichever    *)
(* peer resets or process stops, and however many lanes there are.         *)
(***************************************************************************)
THEOREM BondInvariant == Spec => []BondInv
  <1>1. BondInv /\ [Next]_vars => BondInv'
    BY BondStep
  <1> QED
    BY <1>1, BondInit, PTL DEF Spec

\* Both ends of a bonded connection keep the types of their state.
THEOREM BondTyped == Spec => []TypeOK
  <1>1. BondInv => TypeOK
    BY DEF BondInv
  <1> QED
    BY <1>1, BondInvariant, PTL

(***************************************************************************)
(* Striping, retries and overtaking never reorder, repeat or skip a chunk  *)
(* in what copyBondToBackend and copyBondToTCP write.                      *)
(***************************************************************************)
THEOREM ChunksInOrder == Spec => []InOrderOnce
  <1>1. BondInv => InOrderOnce
    <2>1. Local \notin Lanes
      BY DEF Local, Lanes
    <2> QED
      BY <2>1 DEF BondInv, UpReceived, UpReceiver, DownReceived, InOrderOnce
  <1> QED
    BY <1>1, BondInvariant, PTL

(***************************************************************************)
(* closeWrite is called only on a stream that was delivered in full.       *)
(***************************************************************************)
THEOREM CleanEnds == Spec => []CleanEndIsComplete
  <1>1. BondInv => CleanEndIsComplete
    BY DEF BondInv, UpReceived, UpReceiver, DownReceived, DownEnded, CleanEndIsComplete
  <1> QED
    BY <1>1, BondInvariant, PTL

(***************************************************************************)
(* No frame follows a torn one, so that no reader takes a header for the   *)
(* rest of a payload.                                                      *)
(***************************************************************************)
THEOREM TornFramesAreLast == Spec => []NothingAfterTornFrame
  <1>1. ASSUME NEW w \in Seq(Frames), TornIsLast(w)
        PROVE  \A i \in 1 .. Len(w) - 1 : w[i].typ # "torn"
    BY <1>1 DEF TornIsLast
  <1>2. BondInv => NothingAfterTornFrame
    BY <1>1 DEF BondInv, TypeOK, WireTypes, TornUp, TornDown, NothingAfterTornFrame
  <1> QED
    BY <1>2, BondInvariant, PTL

(***************************************************************************)
(* While nothing fails and nobody leaves, what was counted as written has  *)
(* arrived or is on its way, however late the lanes attach and although    *)
(* the server cancels and closes as soon as its last frame is written.     *)
(***************************************************************************)
THEOREM ChunksAreKept == Spec => []NoChunkVanishes
  <1>1. IsFiniteSet(Created)
    <2>1. IsFiniteSet(Lanes)
      BY BondConstants, FS_Interval DEF Lanes
    <2> QED
      BY <2>1, FS_Subset DEF Created
  <1>2. ASSUME BondInv, broken = {}, ~cctx, Cardinality(Created) = 1, NEW c \in Created
        PROVE  /\ \A n \in 0 .. ssend[c].seq - 1 : Reaches(down, crecv, crcv, n)
               /\ ~Cancelled(c) /\ backend[c] = "open" =>
                     \A n \in 0 .. csend.seq - 1 : Reaches(up, srecv[c], srcv[c], n)
    <2>1. c \in Lanes /\ Created = {c}
      <3>1. PICK x : Created = {x}
        BY <1>1, <1>2, FS_Singleton
      <3> QED
        BY <3>1 DEF Created
    <2>2. \A n \in 0 .. ssend[c].seq - 1 : Reaches(down, crecv, crcv, n)
      BY <1>2, <2>1 DEF BondInv, DownKept
    <2>3. ~Cancelled(c) /\ backend[c] = "open" => Undisturbed(c)
      BY <1>2, <2>1 DEF BondInv, TypeOK, ServerTypes, Cancelled, Undisturbed
    <2> QED
      BY <1>2, <2>1, <2>2, <2>3 DEF BondInv, UpKept
  <1>3. BondInv => NoChunkVanishes
    BY <1>2 DEF NoChunkVanishes
  <1> QED
    BY <1>3, BondInvariant, PTL

(***************************************************************************)
(* A working lane in use keeps its connection alive: readLane cancels it   *)
(* only for the causes that CutHasCause lists.                             *)
(***************************************************************************)
THEOREM CutsHaveCauses == Spec => CutHasCause
  <1>1. BondInv /\ [Next]_vars => [CutStepHasCause]_vars
    BY CutStep
  <1>2. Spec => [][CutStepHasCause]_vars
    BY <1>1, BondInvariant, PTL DEF Spec
  <1> QED
    BY <1>2 DEF CutHasCause, CutStepHasCause

-----------------------------------------------------------------------------
(* The upload implements TcpStream.                                        *)

\* The chunks that copyTCPToBond has counted as written.
Sent == [i \in 1 .. csend.seq |-> Chunk(Local, i - 1)]

\* They are a sequence of as many chunks as the sender has counted.
LEMMA SentIsSeq ==
    ASSUME NEW n \in Nat
    PROVE  /\ [i \in 1 .. n |-> Chunk(Local, i - 1)] \in Seq(Chunks)
           /\ Len([i \in 1 .. n |-> Chunk(Local, i - 1)]) = n
  <1>1. \A i \in 1 .. n : Chunk(Local, i - 1) \in Chunks
    BY DEF Chunk, Chunks, Local
  <1> HIDE DEF Chunk
  <1>2. [i \in 1 .. n |-> Chunk(Local, i - 1)] \in Seq(Chunks)
    BY <1>1
  <1> QED
    BY <1>2

\* The sender's part of a step: nothing, one more chunk, or the end.
SourceMoves ==
    \/ csend' = csend
    \/ csend'.seq = csend.seq /\ (csend'.pc \in {"fin", "done"} <=> csend.pc \in {"fin", "done"})
    \/ csend.pc \notin {"fin", "done"} /\ csend'.seq = csend.seq + 1
    \/ /\ csend.pc \notin {"fin", "done"} /\ csend'.pc \in {"fin", "done"}
       /\ csend'.seq = csend.seq

\* The receivers' part of a step.
SinksMove ==
    \/ srcv' = srcv
    \/ /\ csend' = csend
       /\ \E c \in Lanes :
             /\ srcv[c].pc = "run"
             /\ \/ /\ srecv[c] # << >> /\ Head(srecv[c]) \in Frames /\ Head(srecv[c]).typ \in Whole
                   /\ srcv' = [srcv EXCEPT ![c] = Take(srcv[c], Head(srecv[c]))]
                \/ Deliverable(srcv[c]) /\ srcv' = [srcv EXCEPT ![c] = Deliver(srcv[c])]
                \/ FinReached(srcv[c]) /\ srcv' = [srcv EXCEPT ![c] = Returned(srcv[c], "finished")]
                \/ srcv' = [srcv EXCEPT ![c] = Returned(srcv[c], "ended")]

\* Every step moves the sender as SourceMoves says.
LEMMA SourceMove ==
    ASSUME BondInv, [Next]_vars
    PROVE  SourceMoves
  <1> USE DEF wireVars, streamVars, clientVars, openVars, serverVars, regVars, waitVars
  <1> USE DEF BondInv, TypeOK
  <1>0. ASSUME UNCHANGED <<csend>> PROVE SourceMoves
    BY <1>0 DEF SourceMoves
  <1>1. CASE ClientNext /\ UNCHANGED serverVars
    <2>1. CASE StartCopying
      <3>1. csend'.seq = csend.seq /\ csend.pc = "none" /\ csend'.pc \in {"none", "read"}
        BY <2>1 DEF StartCopying, ClientOrder, ClientTypes, ClientSenders
      <3> QED
        BY <3>1 DEF SourceMoves
    <2>2. CASE ReadLocalChunk
      <3>1. csend'.seq = csend.seq /\ csend.pc = "read" /\ csend'.pc = "write"
        BY <2>2 DEF ReadLocalChunk, ClientTypes, ClientSenders
      <3> QED
        BY <3>1 DEF SourceMoves
    <2>3. CASE ReadLocalEnds
      <3>1. csend'.seq = csend.seq /\ csend.pc = "read" /\ csend'.pc = "fin"
        BY <2>3 DEF ReadLocalEnds, ClientTypes, ClientSenders
      <3> QED
        BY <3>1 DEF SourceMoves
    <2>4. CASE WriteToLane
      <3>1. /\ csend.pc = "write" /\ csend'.pc \in {"read", "write", "done"}
            /\ csend'.seq = csend.seq \/ csend'.seq = csend.seq + 1
        BY <2>4, ClientAttempt
      <3> QED
        BY <3>1 DEF SourceMoves
    <2>5. CASE NoLiveLanes
      <3>1. csend'.seq = csend.seq /\ csend.pc = "write" /\ csend'.pc = "done"
        BY <2>5 DEF NoLiveLanes, ClientSender
      <3> QED
        BY <3>1 DEF SourceMoves
    <2>6. CASE WriteFin
      <3>1. csend'.seq = csend.seq /\ csend.pc = "fin" /\ csend'.pc = "done"
        BY <2>6 DEF WriteFin, ClientSender
      <3> QED
        BY <3>1 DEF SourceMoves
    <2>7. CASE OpenLane \/ ReceiveDown \/ DeliverDown \/ FinishDown \/ CloseBonded \/
       ClientStops \/ LocalResets
      BY <1>0, <1>1, <2>7 DEF OpenLane, ReceiveDown, ReturnDownload, DeliverDown,
         FinishDown, CloseBonded, ClientStops, LocalResets
    <2>8. ASSUME NEW l \in Lanes, ReadLaneFrame(l) \/ ReadLaneEnds(l)
          PROVE  SourceMoves
      BY <1>0, <1>1, <2>8 DEF ReadLaneFrame, ReadLaneEnds
    <2> QED
      BY <1>1, <2>1, <2>2, <2>3, <2>4, <2>5, <2>6, <2>7, <2>8 DEF ClientNext
  <1>2. CASE ServerNext /\ UNCHANGED clientVars
    <2>1. CASE ServerStops
      BY <1>0, <1>2, <2>1 DEF ServerStops
    <2>2. ASSUME NEW l \in Lanes, GetConn(l) \/ HelloFails(l) \/ AddLane(l) \/
       HandlerReturns(l) \/ SReadFrame(l) \/ SReadEnds(l)
          PROVE  SourceMoves
      BY <1>0, <1>2, <2>2 DEF GetConn, HelloFails, AddLane, HandlerReturns, SReadFrame,
         SReadEnds
    <2>3. ASSUME NEW c \in Lanes, Forget(c) \/ CheckLanes(c) \/ AwaitLane(c) \/ Dial(c)
       \/ DialFails(c) \/ RunReturns(c) \/ ReceiveUp(c) \/ DeliverUp(c) \/ FinishUp(c)
       \/ ReadBackendChunk(c) \/ ReadBackendEnds(c) \/ SnapshotLanes(c) \/
       SWriteToLane(c) \/ RetryWrite(c) \/ SWriteFin(c) \/ BackendResets(c)
          PROVE  SourceMoves
      BY <1>0, <1>2, <2>3 DEF Forget, CheckLanes, SetRun, AwaitLane, Dial, DialFails,
         RunReturns, ReceiveUp, DeliverUp, FinishUp, ReadBackendChunk, ReadBackendEnds,
         SnapshotLanes, SWriteToLane, ReturnSend, RetryWrite, SWriteFin, BackendResets
    <2> QED
      BY <1>2, <2>1, <2>2, <2>3 DEF ServerNext
  <1>3. CASE WireNext /\ UNCHANGED <<clientVars, serverVars>>
    BY <1>0, <1>3 DEF WireNext, BreakLane
  <1>4. CASE UNCHANGED vars
    BY <1>0, <1>4 DEF vars
  <1> QED
    BY <1>1, <1>2, <1>3, <1>4 DEF Next

\* Every step moves the receivers as SinksMove says.
LEMMA SinkMove ==
    ASSUME BondInv, [Next]_vars
    PROVE  SinksMove
  <1> USE DEF wireVars, streamVars, clientVars, openVars, serverVars, regVars, waitVars
  <1> USE DEF BondInv, TypeOK
  <1>0. ASSUME UNCHANGED <<srcv>> PROVE SinksMove
    BY <1>0 DEF SinksMove
  <1>1. CASE ClientNext /\ UNCHANGED serverVars
    <2>1. CASE OpenLane \/ StartCopying \/ ReadLocalChunk \/ ReadLocalEnds \/
       WriteToLane \/ NoLiveLanes \/ WriteFin \/ ReceiveDown \/ DeliverDown \/
       FinishDown \/ CloseBonded \/ ClientStops \/ LocalResets
      BY <1>0, <1>1, <2>1 DEF OpenLane, StartCopying, ReadLocalChunk, ReadLocalEnds,
         WriteToLane, NoLiveLanes, WriteFin, ReceiveDown, ReturnDownload, DeliverDown,
         FinishDown, CloseBonded, ClientStops, LocalResets
    <2>2. ASSUME NEW l \in Lanes, ReadLaneFrame(l) \/ ReadLaneEnds(l)
          PROVE  SinksMove
      BY <1>0, <1>1, <2>2 DEF ReadLaneFrame, ReadLaneEnds
    <2> QED
      BY <1>1, <2>1, <2>2 DEF ClientNext
  <1>2. CASE ServerNext /\ UNCHANGED clientVars
    <2>1. ASSUME NEW c \in Lanes, ReceiveUp(c) PROVE SinksMove
      <3>1. srecv[c] # << >> => Head(srecv[c]) \in Frames /\ Head(srecv[c]).typ \in Whole
        BY FrameElements DEF QueueTypes
      <3> QED
        BY <1>2, <2>1, <3>1 DEF ReceiveUp, Selecting, SinksMove
    <2>2. ASSUME NEW c \in Lanes, DeliverUp(c) PROVE SinksMove
      BY <1>2, <2>2 DEF DeliverUp, Deliverable, SinksMove
    <2>3. ASSUME NEW c \in Lanes, FinishUp(c) PROVE SinksMove
      BY <1>2, <2>3 DEF FinishUp, FinReached, SinksMove
    <2>4. CASE ServerStops
      BY <1>0, <1>2, <2>4 DEF ServerStops
    <2>5. ASSUME NEW l \in Lanes, GetConn(l) \/ HelloFails(l) \/ AddLane(l) \/
       HandlerReturns(l) \/ SReadFrame(l) \/ SReadEnds(l)
          PROVE  SinksMove
      BY <1>0, <1>2, <2>5 DEF GetConn, HelloFails, AddLane, HandlerReturns, SReadFrame,
         SReadEnds
    <2>6. ASSUME NEW c \in Lanes, Forget(c) \/ CheckLanes(c) \/ AwaitLane(c) \/ Dial(c)
       \/ DialFails(c) \/ RunReturns(c) \/ ReadBackendChunk(c) \/ ReadBackendEnds(c) \/
       SnapshotLanes(c) \/ SWriteToLane(c) \/ RetryWrite(c) \/ SWriteFin(c) \/
       BackendResets(c)
          PROVE  SinksMove
      BY <1>0, <1>2, <2>6 DEF Forget, CheckLanes, SetRun, AwaitLane, Dial, DialFails,
         RunReturns, ReadBackendChunk, ReadBackendEnds, SnapshotLanes, SWriteToLane,
         ReturnSend, RetryWrite, SWriteFin, BackendResets
    <2> QED
      BY <1>2, <2>1, <2>2, <2>3, <2>4, <2>5, <2>6 DEF ServerNext
  <1>3. CASE WireNext /\ UNCHANGED <<clientVars, serverVars>>
    BY <1>0, <1>3 DEF WireNext, BreakLane
  <1>4. CASE UNCHANGED vars
    BY <1>0, <1>4 DEF vars
  <1> QED
    BY <1>1, <1>2, <1>3, <1>4 DEF Next

\* Every step of Bond is a step of TcpStream or leaves its state alone.
LEMMA UploadStep ==
    ASSUME BondInv, [Next]_vars, TypeOK'
    PROVE  [Upload!Next]_(Upload!vars)
  <1> USE DEF BondInv, TypeOK
  <1> DEFINE Outs == [c \in Lanes |-> srcv[c].out]
             Pcs == [c \in Lanes |-> srcv[c].pc]
             Ended == csend.pc \in {"fin", "done"}
  <1>1. csend.seq \in Nat /\ csend'.seq \in Nat
    BY DEF ClientTypes, ClientSenders
  <1>2. Sent \in Seq(Chunks) /\ Len(Sent) = csend.seq /\ Sent' \in Seq(Chunks) /\ Len(Sent') = csend'.seq
    BY <1>1, SentIsSeq DEF Sent
  <1>3. \A c \in Lanes : IsReceiver(srcv[c]) /\ UpReceiver(srcv[c])
    BY DEF ReceiverTypes, UpReceived
  <1>4. ASSUME srcv' = srcv PROVE Outs' = Outs /\ Pcs' = Pcs
    BY <1>4
  <1>5. ASSUME csend' = csend PROVE Sent' = Sent /\ Ended' = Ended
    BY <1>5 DEF Sent
  <1>6. CASE srcv' = srcv
    <2>1. CASE csend' = csend
      BY <1>4, <1>5, <1>6, <2>1 DEF Upload!vars, Sent
    <2>2. CASE csend'.seq = csend.seq /\ (csend'.pc \in {"fin", "done"} <=> csend.pc \in {"fin", "done"})
      <3>1. Sent' = Sent /\ Ended' = Ended
        BY <2>2 DEF Sent
      <3> QED
        BY <1>4, <1>6, <3>1 DEF Upload!vars, Sent
    <2>3. CASE csend.pc \notin {"fin", "done"} /\ csend'.seq = csend.seq + 1
      <3>1. ~Ended /\ Ended' \in BOOLEAN
        BY <2>3
      <3>2. Len(Sent') = Len(Sent) + 1 /\ SubSeq(Sent', 1, Len(Sent)) = Sent
        <4>1. Len(Sent') = Len(Sent) + 1
          BY <1>2, <2>3
        <4>2. ASSUME NEW i \in 1 .. csend.seq PROVE Sent'[i] = Sent[i]
          BY <1>1, <2>3 DEF Sent
        <4>3. /\ SubSeq(Sent', 1, Len(Sent)) \in Seq(Chunks)
              /\ Len(SubSeq(Sent', 1, Len(Sent))) = Len(Sent)
              /\ \A i \in 1 .. Len(Sent) : SubSeq(Sent', 1, Len(Sent))[i] = Sent'[i]
          BY <1>1, <1>2, <2>3
        <4> HIDE DEF Sent
        <4> QED
          BY <1>2, <4>1, <4>2, <4>3, SeqEqual
      <3> QED
        BY <1>4, <1>6, <3>1, <3>2 DEF Upload!Next, Upload!Send, Sent
    <2>4. CASE /\ csend.pc \notin {"fin", "done"} /\ csend'.pc \in {"fin", "done"}
               /\ csend'.seq = csend.seq
      <3>1. Sent' = Sent /\ ~Ended /\ Ended'
        BY <2>4 DEF Sent
      <3> QED
        BY <1>4, <1>6, <3>1 DEF Upload!Next, Upload!EndSource, Sent
    <2> QED
      BY <2>1, <2>2, <2>3, <2>4, SourceMove DEF SourceMoves
  <1>7. ASSUME csend' = csend, NEW c \in Lanes, srcv[c].pc = "run", NEW r, IsReceiver(r),
               srcv' = [srcv EXCEPT ![c] = r]
        PROVE  /\ Sent' = Sent /\ Ended' = Ended
               /\ Outs' = [Outs EXCEPT ![c] = r.out] /\ Pcs' = [Pcs EXCEPT ![c] = r.pc]
    <2>1. DOMAIN srcv = Lanes
      BY DEF ReceiverTypes
    <2> QED
      BY <1>5, <1>7, <2>1
  <1>8. ASSUME csend' = csend, NEW c \in Lanes, srcv[c].pc = "run",
               srecv[c] # << >>, Head(srecv[c]) \in Frames, Head(srecv[c]).typ \in Whole,
               srcv' = [srcv EXCEPT ![c] = Take(srcv[c], Head(srecv[c]))]
        PROVE  [Upload!Next]_(Upload!vars)
    <2> DEFINE r == Take(srcv[c], Head(srecv[c]))
    <2>1. IsReceiver(r) /\ r.out = srcv[c].out /\ r.pc = srcv[c].pc
      BY <1>3, <1>8, TakeEffect
    <2> HIDE DEF r
    <2>2. /\ Sent' = Sent /\ Ended' = Ended
          /\ Outs' = [Outs EXCEPT ![c] = r.out] /\ Pcs' = [Pcs EXCEPT ![c] = r.pc]
      BY <1>7, <1>8, <2>1 DEF r
    <2>3. Outs' = Outs /\ Pcs' = Pcs
      BY <2>1, <2>2
    <2> QED
      BY <2>2, <2>3 DEF Upload!vars, Sent
  <1>9. ASSUME csend' = csend, NEW c \in Lanes, Deliverable(srcv[c]),
               srcv' = [srcv EXCEPT ![c] = Deliver(srcv[c])]
        PROVE  [Upload!Next]_(Upload!vars)
    <2> DEFINE r == Deliver(srcv[c])
               n == Len(srcv[c].out)
    <2>1. /\ IsReceiver(r) /\ r.pc = srcv[c].pc /\ srcv[c].pc = "run"
          /\ r.out = Append(srcv[c].out, srcv[c].pending[srcv[c].expect])
      BY <1>3, <1>9, DeliverEffect DEF Deliverable
    <2>2. /\ n \in Nat /\ n < csend.seq /\ srcv[c].expect = n
          /\ srcv[c].pending[srcv[c].expect] = Chunk(Local, n)
      BY <1>3, <1>9, UpDeliver DEF IsReceiver, UpReceiver, Deliverable
    <2>3. Sent[n + 1] = Chunk(Local, n)
      <3>1. n + 1 \in 1 .. csend.seq /\ n + 1 - 1 = n
        BY <1>1, <2>2
      <3> QED
        BY <3>1 DEF Sent
    <2> HIDE DEF r
    <2>4. /\ Sent' = Sent /\ Ended' = Ended
          /\ Outs' = [Outs EXCEPT ![c] = r.out] /\ Pcs' = [Pcs EXCEPT ![c] = r.pc]
      BY <1>7, <1>9, <2>1 DEF r
    <2>5. /\ Outs[c] = srcv[c].out /\ Pcs[c] = "run" /\ Pcs' = Pcs
          /\ Outs' = [Outs EXCEPT ![c] = Append(Outs[c], Sent[Len(Outs[c]) + 1])]
          /\ Len(Outs[c]) < Len(Sent)
      <3>1. Outs[c] = srcv[c].out /\ Pcs[c] = "run" /\ Pcs' = Pcs
        BY <2>1, <2>4
      <3>2. r.out = Append(Outs[c], Sent[Len(Outs[c]) + 1]) /\ Len(Outs[c]) < Len(Sent)
        BY <1>2, <2>1, <2>2, <2>3, <3>1
      <3> QED
        BY <2>4, <3>1, <3>2
    <2> QED
      BY <2>4, <2>5 DEF Upload!Next, Upload!Deliver, Sent
  <1>10. ASSUME csend' = csend, NEW c \in Lanes, FinReached(srcv[c]),
                srcv' = [srcv EXCEPT ![c] = Returned(srcv[c], "finished")]
         PROVE  [Upload!Next]_(Upload!vars)
    <2> DEFINE r == Returned(srcv[c], "finished")
    <2>1. IsReceiver(r) /\ r.out = srcv[c].out /\ r.pc = "finished" /\ srcv[c].pc = "run"
      BY <1>3, <1>10, ReturnedEffect DEF FinReached
    <2>2. csend.pc = "done" /\ srcv[c].out \in Seq(Chunks) /\ Len(srcv[c].out) = csend.seq
      BY <1>3, <1>10 DEF FinReached, UpReceiver, IsReceiver, NoFin
    <2>3. srcv[c].out = Sent
      <3>1. \A i \in 1 .. csend.seq : srcv[c].out[i] = Sent[i]
        BY <1>3, <2>2 DEF UpReceiver, Sent
      <3> QED
        BY <1>2, <2>2, <3>1, SeqEqual
    <2> HIDE DEF r
    <2>4. /\ Sent' = Sent /\ Ended' = Ended
          /\ Outs' = [Outs EXCEPT ![c] = r.out] /\ Pcs' = [Pcs EXCEPT ![c] = r.pc]
      BY <1>7, <1>10, <2>1 DEF r
    <2>5. /\ Outs[c] = Sent /\ Pcs[c] = "run" /\ Outs' = Outs /\ Ended
          /\ Pcs' = [Pcs EXCEPT ![c] = "finished"]
      BY <2>1, <2>2, <2>3, <2>4
    <2> QED
      BY <2>4, <2>5 DEF Upload!Next, Upload!Finish, Sent
  <1>11. ASSUME csend' = csend, NEW c \in Lanes, srcv[c].pc = "run",
                srcv' = [srcv EXCEPT ![c] = Returned(srcv[c], "ended")]
         PROVE  [Upload!Next]_(Upload!vars)
    <2> DEFINE r == Returned(srcv[c], "ended")
    <2>1. IsReceiver(r) /\ r.out = srcv[c].out /\ r.pc = "ended"
      BY <1>3, <1>11, ReturnedEffect
    <2> HIDE DEF r
    <2>2. /\ Sent' = Sent /\ Ended' = Ended
          /\ Outs' = [Outs EXCEPT ![c] = r.out] /\ Pcs' = [Pcs EXCEPT ![c] = r.pc]
      BY <1>7, <1>11, <2>1 DEF r
    <2>3. Pcs[c] = "run" /\ Outs' = Outs /\ Pcs' = [Pcs EXCEPT ![c] = "ended"]
      BY <1>11, <2>1, <2>2
    <2> QED
      BY <2>2, <2>3 DEF Upload!Next, Upload!CutOff, Sent
  <1> QED
    BY <1>6, <1>8, <1>9, <1>10, <1>11, SinkMove DEF SinksMove

(***************************************************************************)
(* The upload of a bonded connection implements one direction of a TCP     *)
(* connection: successful writes are its sends, turns of the inner loop of *)
(* copyBondToBackend its deliveries.                                       *)
(***************************************************************************)
THEOREM BondedUpload == Spec => UploadIsTcpStream
  <1>1. Init => Upload!Init
    <2> SUFFICES ASSUME Init PROVE Upload!Init
      OBVIOUS
    <2>1. csend.seq = 0 /\ csend.pc = "none" /\ srcv = [c \in Lanes |-> NewReceiver]
      BY DEF Init, ClientInit, ServerInit, ClientSender
    <2>2. NewReceiver.out = << >> /\ NewReceiver.pc = "run"
      BY DEF NewReceiver
    <2>3. [i \in 1 .. csend.seq |-> Chunk(Local, i - 1)] = << >>
      <3>1. [i \in 1 .. 0 |-> Chunk(Local, i - 1)] \in Seq(Chunks)
            /\ Len([i \in 1 .. 0 |-> Chunk(Local, i - 1)]) = 0
        BY SentIsSeq
      <3> QED
        BY <2>1, <3>1, EmptySeq
    <2> QED
      BY <2>1, <2>2, <2>3 DEF Upload!Init
  <1>2. BondInv /\ BondInv' /\ [Next]_vars => [Upload!Next]_(Upload!vars)
    BY UploadStep DEF BondInv
  <1> QED
    BY <1>1, <1>2, BondInvariant, PTL DEF Spec, UploadIsTcpStream, Upload!Spec
=============================================================================
