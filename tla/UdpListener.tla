----------------------------- MODULE UdpListener -----------------------------
(***************************************************************************)
(* The packet listener under the DTLS listener (server/udp_listener.go):   *)
(* one UDP socket whose datagrams a read loop sorts into one               *)
(* udpPacketConn per remote address, an accept queue of new connections,   *)
(* and the WaitGroup connWG that keeps the shared socket open while any    *)
(* accepted connection still uses it.                                      *)
(*                                                                         *)
(* Datagram contents are left out: a datagram of a known address goes to   *)
(* that connection's buffer and changes nothing that is modelled here; one *)
(* of an unknown address matters only if the filter lets it in.            *)
(***************************************************************************)
EXTENDS Integers, Sequences, Connections

CONSTANTS
    Addrs,          \* remote addresses
    AcceptBacklog,  \* capacity of acceptCh (128 in the code)
    None            \* nil

ASSUME ListenerConstants ==
    /\ AcceptBacklog \in Nat \ {0}
    /\ None \notin Conns /\ None \notin Addrs

VARIABLES
    accepting,  \* l.accepting
    acceptCh,   \* l.acceptCh
    conns,      \* l.conns
    raddr,      \* c.rAddr
    uconn,      \* where each udpPacketConn stands in its life
    connWG,     \* the counter of l.connWG
    closer,     \* how far the body of l.Close has run; doneCh is closed once not "open"
    waiter,     \* the goroutine of newUDPPacketListener that waits for connWG
    reader,     \* readLoop; readDoneCh is closed once "stopped"
    sock,       \* l.pConn
    crashed     \* a WaitGroup misuse panic ended the process

listenerVars == <<accepting, acceptCh, conns, raddr, uconn, connWG, closer,
                  waiter, reader, sock, crashed>>

(***************************************************************************)
(* uconn[c]:                                                               *)
(*   unused     not made yet                                               *)
(*   queued     in acceptCh                                                *)
(*   taken      received by Accept, connWG.Add(1) not yet done             *)
(*   accepted   returned by Accept                                         *)
(*   released   Close has done connWG.Done(), conns still names it         *)
(*   closed     Close has returned                                         *)
(*   discarded  dropped from acceptCh by the listener's Close              *)
(***************************************************************************)
UConnState == {"unused", "queued", "taken", "accepted", "released", "closed", "discarded"}

Registered == {c \in Conns : uconn[c] \in {"queued", "taken", "accepted", "released"}}
Counted    == {c \in Conns : uconn[c] = "accepted"}

\* newUDPPacketListener: connWG starts at 1, the listener's own share.
ListenerInit ==
    /\ accepting = TRUE
    /\ acceptCh = <<>>
    /\ conns = [a \in Addrs |-> None]
    /\ raddr = [c \in Conns |-> None]
    /\ uconn = [c \in Conns |-> "unused"]
    /\ connWG = 1
    /\ closer = "open"
    /\ waiter = "waiting"
    /\ reader = "reading"
    /\ sock = "open"
    /\ crashed = FALSE

\* Faulty variant: a datagram of a known address makes a second connection for it.
getConn_IgnoresMap(a, c) ==
    /\ reader = "reading" /\ sock = "open"
    /\ accepting
    /\ uconn[c] = "unused"
    /\ Len(acceptCh) < AcceptBacklog
    /\ acceptCh' = Append(acceptCh, c)
    /\ conns' = [conns EXCEPT ![a] = c]
    /\ raddr' = [raddr EXCEPT ![c] = a]
    /\ uconn' = [uconn EXCEPT ![c] = "queued"]
    /\ UNCHANGED <<accepting, connWG, closer, waiter, reader, sock, crashed>>

(***************************************************************************)
(* readLoop, dispatchMsg and getConn for a handshake datagram of an        *)
(* unknown address a, under connLock.  With the queue full, or a datagram  *)
(* the filter refuses, nothing changes.                                    *)
(***************************************************************************)
getConn(a, c) ==
    /\ reader = "reading" /\ sock = "open"
    /\ conns[a] = None
    /\ accepting
    /\ uconn[c] = "unused"
    /\ Len(acceptCh) < AcceptBacklog
    /\ acceptCh' = Append(acceptCh, c)
    /\ conns' = [conns EXCEPT ![a] = c]
    /\ raddr' = [raddr EXCEPT ![c] = a]
    /\ uconn' = [uconn EXCEPT ![c] = "queued"]
    /\ UNCHANGED <<accepting, connWG, closer, waiter, reader, sock, crashed>>

\* readLoop: ReadFrom fails, because the socket was closed or by itself.
ReadFails ==
    /\ reader = "reading"
    /\ reader' = "stopped"
    /\ UNCHANGED <<accepting, acceptCh, conns, raddr, uconn, connWG, closer, waiter,
                   sock, crashed>>

\* Accept: the receive from acceptCh.
AcceptTake(c) ==
    /\ acceptCh # <<>>
    /\ c = Head(acceptCh)
    /\ acceptCh' = Tail(acceptCh)
    /\ uconn' = [uconn EXCEPT ![c] = "taken"]
    /\ UNCHANGED <<accepting, conns, raddr, connWG, closer, waiter, reader, sock, crashed>>

\* Faulty variant: Accept returns the connection without raising connWG.
AcceptAdd_NotCounted(c) ==
    /\ uconn[c] = "taken"
    /\ uconn' = [uconn EXCEPT ![c] = "accepted"]
    /\ UNCHANGED <<accepting, acceptCh, conns, raddr, connWG, closer, waiter, reader, sock, crashed>>

\* Accept: connWG.Add(1), a separate step from the receive.
AcceptAdd(c) ==
    /\ uconn[c] = "taken"
    /\ connWG' = connWG + 1
    /\ uconn' = [uconn EXCEPT ![c] = "accepted"]
    /\ UNCHANGED <<accepting, acceptCh, conns, raddr, closer, waiter, reader, sock, crashed>>

\* Accept: readDoneCh or doneCh is closed, one of the two cases that return an error.
AcceptFails ==
    /\ reader = "stopped" \/ closer # "open"
    /\ UNCHANGED listenerVars

\* connWG.Done(): the counter that reaches zero releases the waiting goroutine.
ConnWGDone ==
    /\ connWG' = connWG - 1
    /\ waiter' = IF connWG = 1 /\ waiter = "waiting" THEN "woken" ELSE waiter

\* udpPacketConn.Close: connWG.Done() and close(doneCh), once.
ConnClose(c) ==
    /\ uconn[c] = "accepted"
    /\ ConnWGDone
    /\ uconn' = [uconn EXCEPT ![c] = "released"]
    /\ UNCHANGED <<accepting, acceptCh, conns, raddr, closer, reader, sock, crashed>>

\* udpPacketConn.Close: delete(conns, rAddr) under connLock, and buffer.Close.
ConnForget(c) ==
    /\ uconn[c] = "released"
    /\ conns' = [conns EXCEPT ![raddr[c]] = None]
    /\ uconn' = [uconn EXCEPT ![c] = "closed"]
    /\ UNCHANGED <<accepting, acceptCh, raddr, connWG, closer, waiter, reader, sock, crashed>>

\* Close: accepting.Store(false) and close(doneCh).
CloseBegin ==
    /\ closer = "open"
    /\ accepting' = FALSE
    /\ closer' = "discarding"
    /\ UNCHANGED <<acceptCh, conns, raddr, uconn, connWG, waiter, reader, sock, crashed>>

\* Close: one turn of the loop that empties acceptCh.
CloseDiscard ==
    /\ closer = "discarding"
    /\ acceptCh # <<>>
    /\ LET c == Head(acceptCh) IN
       /\ acceptCh' = Tail(acceptCh)
       /\ conns' = [conns EXCEPT ![raddr[c]] = None]
       /\ uconn' = [uconn EXCEPT ![c] = "discarded"]
    /\ UNCHANGED <<accepting, raddr, connWG, closer, waiter, reader, sock, crashed>>

\* Close: the queue is empty; connWG.Done() gives back the listener's own share.
CloseRelease ==
    /\ closer = "discarding"
    /\ acceptCh = <<>>
    /\ closer' = "released"
    /\ ConnWGDone
    /\ UNCHANGED <<accepting, acceptCh, conns, raddr, uconn, reader, sock, crashed>>

(***************************************************************************)
(* The waiting goroutine runs again.  sync.WaitGroup panics if the counter *)
(* was raised from zero between the last Done and this moment ("WaitGroup  *)
(* is reused before previous Wait has returned"), which the late Add(1) of *)
(* Accept can do; otherwise the socket is closed.                          *)
(***************************************************************************)
WaiterRuns ==
    /\ waiter = "woken"
    /\ waiter' = "done"
    /\ IF connWG # 0 THEN crashed' = TRUE /\ UNCHANGED sock
                     ELSE sock' = "closed" /\ UNCHANGED crashed
    /\ UNCHANGED <<accepting, acceptCh, conns, raddr, uconn, connWG, closer, reader>>

\* readWG.Wait() in Close returns: the read loop and the waiting goroutine are done.
CloseReturns == closer = "released" /\ waiter = "done" /\ reader = "stopped"

ListenerNext ==
    \/ \E a \in Addrs, c \in Conns : getConn(a, c)
    \/ \E c \in Conns : AcceptTake(c) \/ AcceptAdd(c) \/ ConnClose(c) \/ ConnForget(c)
    \/ CloseBegin \/ CloseDiscard \/ CloseRelease
    \/ ReadFails \/ WaiterRuns \/ AcceptFails

\* The listener under any caller that closes only connections it was given.
ListenerSpec == ListenerInit /\ [][ListenerNext]_listenerVars

-----------------------------------------------------------------------------
\* The fields of listener and Conn (udp_listener.go) keep their types; the
\* WaitGroup never goes below zero, which would panic.
ListenerTypeOK ==
    /\ accepting \in BOOLEAN
    /\ acceptCh \in Seq(Conns)
    /\ conns \in [Addrs -> Conns \cup {None}]
    /\ raddr \in [Conns -> Addrs \cup {None}]
    /\ uconn \in [Conns -> UConnState]
    /\ connWG \in Nat
    /\ closer \in {"open", "discarding", "released"}
    /\ waiter \in {"waiting", "woken", "done"}
    /\ reader \in {"reading", "stopped"}
    /\ sock \in {"open", "closed"}
    /\ crashed \in BOOLEAN

(***************************************************************************)
(* connWG holds one share for every connection that Accept returned and    *)
(* nobody closed, and one for the listener until its Close gives it back   *)
(* (udp_listener.go:61, 77, 103, 200).  A share too few closes the socket  *)
(* under a live session, one too many makes Close wait forever.            *)
(***************************************************************************)
ConnWGExact ==
    connWG = Cardinality(Counted) + IF closer = "released" THEN 0 ELSE 1

(***************************************************************************)
(* Every connection that is queued, accepted or half closed still owns its *)
(* remote address in conns, and nothing else does: closing a connection    *)
(* (delete by address, udp_listener.go:203) or discarding a queued one     *)
(* (udp_listener.go:100) never unregisters the connection of another peer  *)
(* or a newer connection of the same address.                              *)
(***************************************************************************)
PeersStayRouted ==
    /\ \A c \in Registered : raddr[c] \in Addrs /\ conns[raddr[c]] = c
    /\ \A a \in Addrs : conns[a] # None => conns[a] \in Registered /\ raddr[conns[a]] = a
=============================================================================
