----------------------------- MODULE VlessClient -----------------------------
(***************************************************************************)
(* The VLESS mode of the client: runVLESSMode, the maintainers of its      *)
(* sessions, the pool, the choice of TURN servers, and the connections     *)
(* that are forwarded over a session one by one, with the server's         *)
(* goroutine for each (handleVLESSConnection).  Bonded connections are the *)
(* subject of Bond.                                                        *)
(***************************************************************************)
EXTENDS ClientRun, SequencesExt

CONSTANTS
    Plans    \* what a behaviour has: records with sessions = numSessions,
             \* servers = the TURN servers of the credentials, flaky = the
             \* servers that may fail, conns = TCP connections that arrive, and
             \* localErrors = whether errors not due to a server occur

ASSUME VlessConstants ==
    Plans \subseteq [sessions : Nat, servers : Nat \ {0}, flaky : SUBSET Nat, conns : Nat,
                     localErrors : BOOLEAN]

VARIABLES
    plan,
    maint,       \* maintainVLESSSession of a session, and createSmuxSession in it
    target,      \* the TURN server of the attempt
    open,        \* len(cleanupFns), the layers to tear down; 0 once cleanup has run
    offset,      \* streamServerOffsets, modulo the number of servers
    cooling,     \* servers whose cooldown is not over
    pool,        \* ids of the pooled sessions, in order
    counter,     \* counter of the pool
    alive,       \* the smux session has not failed
    cli,         \* the goroutine of a TCP connection
    on,          \* the session that carries it
    lost,        \* that session is gone
    copies,      \* copies of the client's pipe that run
    srv,         \* the server's goroutine for the stream
    scopies,     \* copies of its pipeConn that run
    eof          \* the TCP peers that have ended the connection

maintVars == <<maint, target, open, offset, cooling, pool, alive>>
connVars == <<cli, on, copies, srv, scopies, eof>>
vlessVars == <<plan, maintVars, counter, lost, connVars>>

Sessions == 0 .. plan.sessions - 1
Conns == 1 .. plan.conns
Both == {"up", "down"}

\* The layers a session has at a stage of its setup: connection and client; relay; DTLS;
\* statistics, KCP and smux.
Stages == <<"dial", "allocate", "handshake", "mux">>
LayersAt(stage) ==
    CASE stage = "dial" -> 0 [] stage = "allocate" -> 2 [] stage = "handshake" -> 3
      [] stage = "mux" -> 4 [] stage = "live" -> 7

VlessInit ==
    /\ plan \in Plans
    /\ maint = [i \in Sessions |-> "off"] /\ target = [i \in Sessions |-> 0]
    /\ open = [i \in Sessions |-> 0] /\ offset = [i \in Sessions |-> 0]
    /\ cooling = {} /\ pool = <<>> /\ counter = 0
    /\ alive = [i \in Sessions |-> FALSE]
    /\ cli = [c \in Conns |-> "none"] /\ on = [c \in Conns |-> 0]
    /\ lost = [c \in Conns |-> FALSE] /\ copies = [c \in Conns |-> {}]
    /\ srv = [c \in Conns |-> "none"] /\ scopies = [c \in Conns |-> {}]
    /\ eof = [c \in Conns |-> {}]

-----------------------------------------------------------------------------
(* Maintainers.                                                            *)

Maint(i, to) == maint' = [maint EXCEPT ![i] = to]

StartVless ==
    /\ run = "config" /\ mode = "vless"
    /\ run' = "sessions"
    /\ maint' = [i \in Sessions |-> "idle"]
    /\ UNCHANGED <<mode, cancelled, plan, target, open, offset, cooling, pool, alive, counter, lost, connVars>>

\* pickStreamServerAddr: the first server from the stream's own start that is not cooling
\* down, else the start.
pickStreamServerAddr(i) ==
    LET At(k) == (i + offset[i] + k) % plan.servers
        free == {k \in 0 .. plan.servers - 1 : At(k) \notin cooling}
    IN  IF free = {} THEN At(0) ELSE At(Min(free))

\* The staggered start and the waits of the loop, its top, and getCreds.
MaintTop(i) ==
    /\ maint[i] = "idle"
    /\ \/ cancelled /\ Maint(i, "returned") /\ UNCHANGED target
       \/ ~cancelled /\ Maint(i, "dial") /\ target' = [target EXCEPT ![i] = pickStreamServerAddr(i)]
    /\ UNCHANGED <<runVars, plan, open, offset, cooling, pool, alive, counter, lost, connVars>>

\* One stage of createSmuxSession succeeds; after the last the session is pooled.
SetupStage(i) ==
    \E k \in DOMAIN Stages :
        LET next == IF k = Len(Stages) THEN "live" ELSE Stages[k + 1] IN
        /\ maint[i] = Stages[k]
        /\ Maint(i, next)
        /\ open' = [open EXCEPT ![i] = LayersAt(next)]
        /\ pool' = IF next = "live" THEN Append(pool, i) ELSE pool
        /\ alive' = [alive EXCEPT ![i] = next = "live"]
        /\ UNCHANGED <<runVars, plan, target, offset, cooling, counter, lost, connVars>>

\* Faulty variant: a handshake that fails leaves the layers below it open.
SetupFails_NoCleanup(i) ==
    /\ maint[i] \in {"dial", "allocate", "handshake"}
    /\ target[i] \in plan.flaky \/ cancelled
    /\ open' = IF maint[i] = "handshake" THEN open ELSE [open EXCEPT ![i] = 0]
    /\ offset' = [offset EXCEPT ![i] = (@ + 1) % plan.servers]
    /\ cooling' = cooling \cup {target[i]}
    /\ Maint(i, "idle")
    /\ UNCHANGED <<runVars, plan, target, pool, alive, counter, lost, connVars>>

\* Faulty variant: the stream goes on with the same server once its cooldown is over.
SetupFails_NoRotation(i) ==
    /\ maint[i] \in {"dial", "allocate", "handshake"}
    /\ target[i] \in plan.flaky \/ cancelled
    /\ open' = [open EXCEPT ![i] = 0]
    /\ cooling' = cooling \cup {target[i]}
    /\ Maint(i, "idle")
    /\ UNCHANGED <<runVars, plan, target, offset, pool, alive, counter, lost, connVars>>

\* Dialling, allocating or the handshake fails: the layers are torn down, the stream's
\* start moves on and the server cools down.
SetupFails(i) ==
    /\ maint[i] \in {"dial", "allocate", "handshake"}
    /\ target[i] \in plan.flaky \/ cancelled
    /\ open' = [open EXCEPT ![i] = 0]
    /\ offset' = [offset EXCEPT ![i] = (@ + 1) % plan.servers]
    /\ cooling' = cooling \cup {target[i]}
    /\ Maint(i, "idle")
    /\ UNCHANGED <<runVars, plan, target, pool, alive, counter, lost, connVars>>

\* Creating a client, a certificate, KCP or smux fails: no reason to leave the server.
SetupFailsLocally(i) ==
    /\ plan.localErrors
    /\ maint[i] \in {"allocate", "handshake", "mux"}
    /\ open' = [open EXCEPT ![i] = 0]
    /\ Maint(i, "idle")
    /\ UNCHANGED <<runVars, plan, target, offset, cooling, pool, alive, counter, lost, connVars>>

LoseStreams(i) == lost' = [c \in Conns |-> lost[c] \/ (on[c] = i /\ cli[c] # "none")]

SessionFails(i) ==
    /\ maint[i] = "live" /\ alive[i]
    /\ alive' = [alive EXCEPT ![i] = FALSE]
    /\ LoseStreams(i)
    /\ UNCHANGED <<runVars, plan, maint, target, open, offset, cooling, pool, counter, connVars>>

\* sessionPool.remove: the pool without its first session of i.
remove(i) ==
    LET at == {k \in DOMAIN pool : pool[k] = i}
        first == CHOOSE k \in at : \A m \in at : k <= m
    IN  IF at = {} THEN pool
        ELSE SubSeq(pool, 1, first - 1) \o SubSeq(pool, first + 1, Len(pool))

\* The poll of IsClosed, or the context: remove and cleanup, which closes the session.
SessionEnds(i) ==
    /\ maint[i] = "live"
    /\ ~alive[i] \/ cancelled
    /\ Maint(i, IF alive[i] THEN "returned" ELSE "idle")
    /\ pool' = remove(i)
    /\ open' = [open EXCEPT ![i] = 0]
    /\ alive' = [alive EXCEPT ![i] = FALSE]
    /\ LoseStreams(i)
    /\ UNCHANGED <<runVars, plan, target, offset, cooling, counter, connVars>>

CooldownEnds(a) ==
    /\ a \in cooling
    /\ cooling' = cooling \ {a}
    /\ UNCHANGED <<runVars, plan, maint, target, open, offset, pool, alive, counter, lost, connVars>>

-----------------------------------------------------------------------------
(* The accept loop.                                                        *)

\* A session is up: the listener is opened.
Listen ==
    /\ run = "sessions" /\ pool # <<>>
    /\ run' = "accept"
    /\ UNCHANGED <<mode, cancelled, vlessVars>>

\* pick, and the test of what it picked: a closed session is a reason to reject, whatever
\* the others are.
Accept(c) ==
    /\ run = "accept" /\ cli[c] = "none"
    /\ LET i == pool[(counter % Len(pool)) + 1] IN
       IF pool # <<>> /\ alive[i]
         THEN cli' = [cli EXCEPT ![c] = "open"] /\ on' = [on EXCEPT ![c] = i]
         ELSE cli' = [cli EXCEPT ![c] = "closed"] /\ UNCHANGED on
    /\ counter' = IF pool # <<>> THEN counter + 1 ELSE counter
    /\ UNCHANGED <<runVars, plan, maintVars, lost, copies, srv, scopies, eof>>

\* The closed listener makes Accept fail.
AcceptEnds ==
    /\ run = "accept" /\ cancelled
    /\ run' = "drain"
    /\ UNCHANGED <<mode, cancelled, vlessVars>>

\* wgConn.Wait() and wgMaint.Wait() return.
VlessReturns ==
    /\ run = "drain" \/ (run = "sessions" /\ cancelled)
    /\ \A c \in Conns : cli[c] \in {"none", "closed"}
    /\ \A i \in Sessions : maint[i] = "returned"
    /\ run' = "returned"
    /\ UNCHANGED <<mode, cancelled, vlessVars>>

-----------------------------------------------------------------------------
(* One connection: pipe at the client, pipeConn at the server.             *)

OpenStream(c) ==
    /\ cli[c] = "open"
    /\ IF lost[c]
         THEN cli' = [cli EXCEPT ![c] = "closed"] /\ UNCHANGED <<copies, srv>>
         ELSE /\ cli' = [cli EXCEPT ![c] = "pipe"]
              /\ copies' = [copies EXCEPT ![c] = Both]
              /\ srv' = [srv EXCEPT ![c] = "prefix"]
    /\ UNCHANGED <<runVars, plan, maintVars, counter, lost, on, scopies, eof>>

\* Faulty variant: a copy that ends leaves the other one running.
DeadlinePassed_NoCancel(c) == cancelled

\* The context of pipe is done: the first copy to end cancels it.
DeadlinePassed(c) == cancelled \/ copies[c] # Both

\* A copy ends: its reader has an end of file, its writer fails, or the deadline is now.
CopyEnds(c) ==
    /\ \E d \in copies[c] :
        /\ lost[c] \/ DeadlinePassed(c)
           \/ (IF d = "up" THEN "local" \in eof[c] ELSE srv[c] = "closed")
        /\ copies' = [copies EXCEPT ![c] = @ \ {d}]
    /\ UNCHANGED <<runVars, plan, maintVars, counter, lost, cli, on, srv, scopies, eof>>

\* Both copies are over: the stream and the TCP connection are closed.
PipeReturns(c) ==
    /\ cli[c] = "pipe" /\ copies[c] = {}
    /\ cli' = [cli EXCEPT ![c] = "closed"]
    /\ UNCHANGED <<runVars, plan, maintVars, counter, lost, on, copies, srv, scopies, eof>>

\* The first bytes of the stream, if it brings any before it ends.
ReadPrefix(c) ==
    /\ srv[c] = "prefix"
    /\ \/ srv' = [srv EXCEPT ![c] = "dial"]
       \/ (cli[c] = "closed" \/ lost[c]) /\ srv' = [srv EXCEPT ![c] = "closed"]
    /\ UNCHANGED <<runVars, plan, maintVars, counter, lost, cli, on, copies, scopies, eof>>

DialBackend(c) ==
    /\ srv[c] = "dial"
    /\ \/ srv' = [srv EXCEPT ![c] = "pipe"] /\ scopies' = [scopies EXCEPT ![c] = Both]
       \/ srv' = [srv EXCEPT ![c] = "closed"] /\ UNCHANGED scopies
    /\ UNCHANGED <<runVars, plan, maintVars, counter, lost, cli, on, copies, eof>>

\* A copy of pipeConn ends, which does not concern the other one: the backend is not told
\* that the stream has ended, and the stream stays open after the backend's end.
BackendCopyEnds(c) ==
    /\ \E d \in scopies[c] :
        /\ IF d = "up" THEN cli[c] = "closed" \/ lost[c] ELSE "backend" \in eof[c]
        /\ scopies' = [scopies EXCEPT ![c] = @ \ {d}]
    /\ UNCHANGED <<runVars, plan, maintVars, counter, lost, cli, on, copies, srv, eof>>

\* The backend sends to, or takes from, a stream or connection that is gone: one copy
\* fails in its write.
BackendWriteFails(c) ==
    /\ \E d \in scopies[c] :
        /\ IF d = "up" THEN "backend" \in eof[c] ELSE cli[c] = "closed" \/ lost[c]
        /\ scopies' = [scopies EXCEPT ![c] = @ \ {d}]
    /\ UNCHANGED <<runVars, plan, maintVars, counter, lost, cli, on, copies, srv, eof>>

PipeConnReturns(c) ==
    /\ srv[c] = "pipe" /\ scopies[c] = {}
    /\ srv' = [srv EXCEPT ![c] = "closed"]
    /\ UNCHANGED <<runVars, plan, maintVars, counter, lost, cli, on, copies, scopies, eof>>

\* The local application, or the backend, ends the connection.
PeerEnds(c) ==
    /\ \/ cli[c] \in {"open", "pipe"} /\ eof' = [eof EXCEPT ![c] = @ \cup {"local"}]
       \/ srv[c] = "pipe" /\ eof' = [eof EXCEPT ![c] = @ \cup {"backend"}]
    /\ UNCHANGED <<runVars, plan, maintVars, counter, lost, cli, on, copies, srv, scopies>>

-----------------------------------------------------------------------------
MaintStep(i) ==
    \/ MaintTop(i) \/ SetupStage(i) \/ SetupFails(i)
    \/ SetupFailsLocally(i) \/ SessionEnds(i)

ConnStep(c) ==
    \/ OpenStream(c) \/ CopyEnds(c) \/ PipeReturns(c)
    \/ ReadPrefix(c) \/ DialBackend(c) \/ BackendCopyEnds(c) \/ PipeConnReturns(c)

VlessNext ==
    \/ StartVless \/ Listen \/ AcceptEnds \/ VlessReturns
    \/ \E i \in Sessions : MaintStep(i) \/ SessionFails(i)
    \/ \E a \in cooling : CooldownEnds(a)
    \/ \E c \in Conns : Accept(c) \/ ConnStep(c) \/ BackendWriteFails(c) \/ PeerEnds(c)

VlessTypeOK ==
    /\ plan \in Plans
    /\ maint \in [Sessions -> {"off", "idle", "live", "returned"} \cup ToSet(Stages)]
    /\ target \in [Sessions -> 0 .. plan.servers - 1] /\ open \in [Sessions -> 0 .. 7]
    /\ offset \in [Sessions -> 0 .. plan.servers - 1] /\ cooling \subseteq 0 .. plan.servers - 1
    /\ pool \in Seq(Sessions) /\ counter \in Nat /\ alive \in [Sessions -> BOOLEAN]
    /\ cli \in [Conns -> {"none", "open", "pipe", "closed"}] /\ on \in [Conns -> Nat]
    /\ lost \in [Conns -> BOOLEAN]
    /\ srv \in [Conns -> {"none", "prefix", "dial", "pipe", "closed"}]
    /\ copies \in [Conns -> SUBSET Both] /\ scopies \in [Conns -> SUBSET Both]
    /\ eof \in [Conns -> SUBSET {"local", "backend"}]
=============================================================================
