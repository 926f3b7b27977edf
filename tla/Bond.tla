-------------------------------- MODULE Bond --------------------------------
(***************************************************************************)
(* One bonded TCP connection from the local application to the backend:    *)
(* BondClient and BondServer over the lanes of BondStream, with sessions   *)
(* that fail, either TCP peer resetting its connection, and either process *)
(* being stopped.                                                          *)
(***************************************************************************)
EXTENDS BondClient, BondServer

vars == <<wireVars, clientVars, serverVars>>

Init == WireInit /\ ClientInit /\ ServerInit

ClientNext ==
    \/ OpenLane \/ StartCopying
    \/ ReadLocalChunk \/ ReadLocalEnds \/ WriteToLane \/ NoLiveLanes \/ WriteFin
    \/ \E l \in Lanes : ReadLaneFrame(l) \/ ReadLaneEnds(l)
    \/ ReceiveDown \/ DeliverDown \/ FinishDown \/ CloseBonded
    \/ ClientStops
    \/ LocalResets

ServerNext ==
    \/ \E l \in Lanes :
          \/ GetConn(l) \/ HelloFails(l) \/ AddLane(l) \/ HandlerReturns(l)
          \/ SReadFrame(l) \/ SReadEnds(l)
    \/ \E c \in Lanes :
          \/ Forget(c) \/ CheckLanes(c) \/ AwaitLane(c) \/ Dial(c) \/ DialFails(c)
          \/ RunReturns(c) \/ ReceiveUp(c) \/ DeliverUp(c) \/ FinishUp(c)
          \/ ReadBackendChunk(c) \/ ReadBackendEnds(c) \/ SnapshotLanes(c)
          \/ SWriteToLane(c) \/ RetryWrite(c) \/ SWriteFin(c)
          \/ BackendResets(c)
    \/ ServerStops

WireNext == \E l \in Lanes : BreakLane(l)

Next ==
    \/ ClientNext /\ UNCHANGED serverVars
    \/ ServerNext /\ UNCHANGED clientVars
    \/ WireNext /\ UNCHANGED <<clientVars, serverVars>>

Spec == Init /\ [][Next]_vars

\* Every goroutine that can run does; nobody makes the peers, the sessions or
\* the operators act.
Fairness ==
    /\ WF_vars(ClientStep /\ UNCHANGED serverVars)
    /\ \A l \in Lanes : WF_vars(LaneStep(l) /\ UNCHANGED clientVars)
    /\ \A c \in Lanes : WF_vars(ConnStep(c) /\ UNCHANGED clientVars)

FairSpec == Spec /\ Fairness

-----------------------------------------------------------------------------
Frames == [typ : {"hello", "torn"}] \cup [typ : {"data"}, seq : Nat, data : Chunks]
          \cup [typ : {"fin"}, seq : Nat]

Elements(s) == {s[i] : i \in DOMAIN s}

IsReceiver(r) ==
    /\ DOMAIN r = {"pc", "pending", "expect", "fin", "out"}
    /\ r.pc \in {"run", "finished", "ended"} /\ r.expect \in Nat
    /\ r.fin \in Nat \cup {NoFin} /\ r.out \in Seq(Chunks)
    /\ DOMAIN r.pending \subseteq Nat
    /\ \A s \in DOMAIN r.pending : r.pending[s] \in Chunks

ClientSenders ==
    [pc : {"none", "read", "write", "fin", "done"}, seq : Nat, laneIdx : Nat, attempts : Nat]

ServerSenders ==
    [pc : {"none", "read", "snapshot", "write", "fin", "done"}, seq : Nat, laneIdx : Nat,
     attempts : Nat, lanes : Seq(Lanes)]

WireTypes ==
    /\ env \in Scenarios
    /\ up \in [Lanes -> Seq(Frames)] /\ down \in [Lanes -> Seq(Frames)]
    /\ broken \subseteq Lanes /\ cclosed \subseteq Lanes /\ sclosed \subseteq Lanes

ClientTypes ==
    /\ chandler \in {"opening", "copying", "closed"} /\ cand \in 1 .. NumLanes + 1
    /\ lanes \in Seq(Lanes) /\ dead \subseteq Lanes /\ cctx \in BOOLEAN
    /\ cread \subseteq Lanes
    /\ csend \in ClientSenders
    /\ local \in {"open", "reset"}

ServerTypes ==
    /\ handler \in [Lanes -> {"idle", "got", "attached", "closed"}]
    /\ connOf \in [Lanes -> Lanes \cup {NoConn}] /\ reg \in Lanes \cup {NoConn}
    /\ slanes \in [Lanes -> Seq(Lanes)] /\ want \in [Lanes -> Nat]
    /\ ready \in [Lanes -> BOOLEAN] /\ sctx \subseteq Lanes
    /\ run \in [Lanes -> {"none", "check", "select", "dial", "copy", "done"}]
    /\ sread \subseteq Lanes
    /\ ssend \in [Lanes -> ServerSenders]
    /\ backend \in [Lanes -> {"open", "reset"}]
    /\ lifetime \in {"live", "cancelled"}

\* readBondFrame returns whole frames, so that a recvCh has no others.
Whole == {"data", "fin"}

QueueTypes ==
    /\ crecv \in Seq(Frames) /\ \A f \in Elements(crecv) : f.typ \in Whole
    /\ srecv \in [Lanes -> Seq(Frames)]
    /\ \A c \in Lanes : \A f \in Elements(srecv[c]) : f.typ \in Whole

ReceiverTypes ==
    /\ IsReceiver(crcv)
    /\ DOMAIN srcv = Lanes /\ \A c \in Lanes : IsReceiver(srcv[c])

\* The state of both ends (handleBondedTCP, bondServerConn) keeps its types, and each
\* recvCh carries only frames that were read whole.
TypeOK == WireTypes /\ ClientTypes /\ ServerTypes /\ QueueTypes /\ ReceiverTypes

-----------------------------------------------------------------------------
\* The bondServerConns that have been created for this one connection.
Created == {c \in Lanes : connOf[c] = c}

(***************************************************************************)
(* However frames are spread over lanes, resent after a failed write,      *)
(* queued and overtaken, each backend connection is written the chunks of  *)
(* the local application in order, each once and without a gap             *)
(* (copyBondToBackend), and the local application chunks in their order    *)
(* (copyBondToTCP).                                                        *)
(***************************************************************************)
InOrderOnce ==
    /\ \A c \in Lanes : \A i \in DOMAIN srcv[c].out : srcv[c].out[i] = Chunk(Local, i - 1)
    /\ \A i \in DOMAIN crcv.out : crcv.out[i].src # Local /\ crcv.out[i].n = i - 1

(***************************************************************************)
(* closeWrite tells a peer that the transfer is complete: it is called     *)
(* only after everything the other end had read was delivered, whichever   *)
(* lane the FIN came on and whatever frames were still under way when it   *)
(* came (main.go:658 of the server, main.go:2349 of the client).           *)
(***************************************************************************)
CleanEndIsComplete ==
    /\ \A c \in Lanes : srcv[c].pc = "finished" =>
          csend.pc \in {"fin", "done"} /\ Len(srcv[c].out) = csend.seq
    /\ crcv.pc = "finished" =>
          \E c \in Created : ssend[c].pc \in {"fin", "done"} /\ Len(crcv.out) = ssend[c].seq

(***************************************************************************)
(* A frame whose payload could not be written leaves its header on the     *)
(* lane; what follows it would be read as that payload.  Neither end       *)
(* writes a lane again after a failed write, the FIN loops included.       *)
(***************************************************************************)
NothingAfterTornFrame ==
    \A l \in Lanes : \A w \in {up[l], down[l]} :
        \A i \in 1 .. Len(w) - 1 : w[i].typ # "torn"

\* Chunk n is on a lane of direction w, in the recvCh, pending or delivered.
HasData(s, n) == \E f \in Elements(s) : f.typ = "data" /\ f.seq = n

Reaches(w, recv, r, n) ==
    n < Len(r.out) \/ n \in DOMAIN r.pending \/ HasData(recv, n) \/ \E l \in Lanes : HasData(w[l], n)

(***************************************************************************)
(* While no session fails and no one ends the connection, a chunk that one *)
(* end has counted as written is on a lane, in a recvCh, pending or        *)
(* delivered.  Downloads keep this after the server has ended its side:    *)
(* it cancels, sets deadlines and closes the streams right after the last  *)
(* frames were written, and they must still arrive.                        *)
(***************************************************************************)
NoChunkVanishes ==
    (broken = {} /\ ~cctx /\ Cardinality(Created) = 1) =>
        \A c \in Created :
            /\ \A n \in 0 .. ssend[c].seq - 1 : Reaches(down, crecv, crcv, n)
            /\ ~Cancelled(c) /\ backend[c] = "open" =>
                  \A n \in 0 .. csend.seq - 1 : Reaches(up, srecv[c], srcv[c], n)

(***************************************************************************)
(* readLane cancels the whole connection when the last attached lane ends, *)
(* whatever the upload still has queued.  A connection is cancelled only   *)
(* if its backend side ended, an end is being stopped, the client is       *)
(* leaving, or every lane attached by then has failed: never while the     *)
(* client uses an attached lane that works.                                *)
(***************************************************************************)
CutHasCause ==
    [][\A c \in sctx' \ sctx :
          \/ run'[c] = "done" \/ ssend'[c].pc = "done"
          \/ cctx \/ lifetime = "cancelled"
          \/ \A l \in Lanes : connOf[l] = c /\ handler[l] = "attached" => l \in broken]_vars

\* The upload as an abstract stream, with the backend connections as its sinks.
Upload == INSTANCE TcpStream WITH
    Sinks <- Lanes,
    sent <- [i \in 1 .. csend.seq |-> Chunk(Local, i - 1)],
    sourceEnded <- csend.pc \in {"fin", "done"},
    delivered <- [c \in Lanes |-> srcv[c].out],
    sink <- [c \in Lanes |-> srcv[c].pc]

(***************************************************************************)
(* copyTCPToBond, the lanes and copyBondToBackend together implement one   *)
(* direction of a TCP connection, however frames are striped, resent and   *)
(* overtaken, lanes join late and fail, and either end is stopped.         *)
(***************************************************************************)
UploadIsTcpStream == Upload!Spec

(***************************************************************************)
(* -vless-bond distributes "одно TCP-соединение" (one TCP connection) over *)
(* the sessions (README.md:414): what the local application reads comes    *)
(* from one backend connection.                                            *)
(***************************************************************************)
OneBackendConnection ==
    \A i, j \in DOMAIN crcv.out : crcv.out[i].src = crcv.out[j].src

-----------------------------------------------------------------------------
(***************************************************************************)
(* A connection the client has cancelled is released at both ends:         *)
(* deadlines, closed streams and the closed recvCh get every goroutine out *)
(* of its read, write or select, and the server lets go of every           *)
(* bondServerConn, the registry entry, the readers and the handlers, also  *)
(* of a lane whose hello arrives late.                                     *)
(***************************************************************************)
CancelledBondIsReleased ==
    cctx ~>
        /\ chandler = "closed"
        /\ reg = NoConn /\ sread = {}
        /\ \A c \in Created : run[c] = "done"
        /\ \A l \in Lanes : handler[l] = "closed" \/ (handler[l] = "idle" /\ up[l] = <<>>)

(***************************************************************************)
(* When the only backend connection has ended its stream and nothing       *)
(* fails, the local application gets all of it and a clean end.            *)
(***************************************************************************)
DownloadCompletes ==
    (\E c \in Created : ssend[c].pc = "fin") ~>
        \/ crcv.pc = "finished" /\ \E c \in Created : Len(crcv.out) = ssend[c].seq
        \/ broken # {} \/ Cardinality(Created) > 1
        \/ local = "reset" \/ lifetime = "cancelled" \/ "client stops" \in env.events
=============================================================================
