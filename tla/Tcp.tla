-------------------------------- MODULE Tcp --------------------------------
(***************************************************************************)
(* What the echo servers of src/servers share: one listening socket, the   *)
(* connections the kernel has established on it and not yet handed over,   *)
(* and the clients at the other ends.  None of it is code of src/: it is   *)
(* the kernel and the programs that connect, modelled from the calls the   *)
(* servers and client.c make.                                              *)
(*                                                                         *)
(* Data is counted in chunks, a chunk being what one write() of a client   *)
(* carries (at most BUFSIZE bytes, client.c:31-33).                        *)
(***************************************************************************)
EXTENDS Integers, Sequences, FiniteSets

CONSTANTS Clients,     \* the programs that may connect, once each
          LockStep,    \* those that behave as client.c: write, read the echo, ..., close
          Backlog,     \* connections that may wait for accept()
          MaxSend,     \* bound: chunks a client sends
          Terse,       \* bound: those that send at most one
          SndBuf,      \* chunks the kernel buffers towards a client
          BufSize      \* chunks one read() of a server may return (BUFSIZE)

ASSUME TcpAssumption ==
    /\ LockStep \subseteq Clients
    /\ Terse \subseteq Clients
    /\ IsFiniteSet(Clients)
    /\ Backlog \in Nat \ {0}
    /\ MaxSend \in Nat
    /\ SndBuf \in Nat \ {0}
    /\ BufSize \in Nat \ {0}

VARIABLES listening,   \* the listening socket is open
          queue,       \* connections waiting for accept(), in order
          conn,        \* the server's side of each client's connection
          peer,        \* the client's side: "up", "fin" (closed) or "rst" (reset)
          sent,        \* chunks that have reached the server's receive buffer
          got,         \* chunks the server has read()
          echoed,      \* chunks the server has written back
          rcvd         \* chunks the client has read

tcpVars == <<listening, queue, conn, peer, sent, got, echoed, rcvd>>

TcpTypeOK ==
    /\ listening \in BOOLEAN
    /\ queue \in Seq(Clients)
    /\ conn \in [Clients -> {"none", "queued", "open", "closed"}]
    /\ peer \in [Clients -> {"up", "fin", "rst"}]
    /\ sent \in [Clients -> 0..MaxSend]
    /\ got \in [Clients -> 0..MaxSend]
    /\ echoed \in [Clients -> 0..MaxSend]
    /\ rcvd \in [Clients -> 0..MaxSend]

TcpInit ==
    /\ listening = TRUE
    /\ queue = <<>>
    /\ conn = [c \in Clients |-> "none"]
    /\ peer = [c \in Clients |-> "up"]
    /\ sent = [c \in Clients |-> 0]
    /\ got = [c \in Clients |-> 0]
    /\ echoed = [c \in Clients |-> 0]
    /\ rcvd = [c \in Clients |-> 0]

\* Nothing is echoed before it was read, or read before it was sent.
CountsOrdered ==
    \A c \in Clients : rcvd[c] <= echoed[c] /\ echoed[c] <= got[c] /\ got[c] <= sent[c]

\* The queue holds each connection that waits for accept(), once.
QueueOK ==
    /\ \A k \in 1 .. Len(queue) : conn[queue[k]] = "queued"
    /\ \A k, l \in 1 .. Len(queue) : queue[k] = queue[l] => k = l
    /\ \A c \in Clients : conn[c] = "queued" => \E k \in 1 .. Len(queue) : queue[k] = c

\* A connection that has not been accepted has not been read from.
UntouchedUntilAccepted ==
    \A c \in Clients : conn[c] \in {"none", "queued"} => got[c] = 0 /\ echoed[c] = 0

TcpInv == TcpTypeOK /\ CountsOrdered /\ QueueOK /\ UntouchedUntilAccepted

\* A client that behaves as client.c waits for one echo at most, and closes with
\* none unread, so it never resets its connection.
OneChunkOutstanding ==
    \A c \in LockStep : sent[c] <= rcvd[c] + 1 /\ peer[c] # "rst"

----------------------------------------------------------------------------
(* The clients.  A client in LockStep has at most one chunk outstanding and *)
(* leaves only when every echo has arrived; any other may send ahead, stop  *)
(* reading, or leave at any moment.                                         *)

Established(c) == conn[c] \in {"queued", "open"}
Settled(c) == c \in LockStep => rcvd[c] = sent[c]

Connect(c) ==
    /\ listening
    /\ conn[c] = "none"
    /\ Len(queue) < Backlog
    /\ conn' = [conn EXCEPT ![c] = "queued"]
    /\ queue' = Append(queue, c)
    /\ UNCHANGED <<listening, peer, sent, got, echoed, rcvd>>

Send(c) ==
    /\ Established(c)
    /\ peer[c] = "up"
    /\ Settled(c)
    /\ sent[c] < MaxSend /\ (c \in Terse => sent[c] = 0)
    /\ sent' = [sent EXCEPT ![c] = @ + 1]
    /\ UNCHANGED <<listening, queue, conn, peer, got, echoed, rcvd>>

Recv(c) ==
    /\ peer[c] # "rst"
    /\ rcvd[c] < echoed[c]
    /\ rcvd' = [rcvd EXCEPT ![c] = echoed[c]]
    /\ UNCHANGED <<listening, queue, conn, peer, sent, got, echoed>>

\* close(): a FIN, or a reset when echoes are still unread.
Leave(c) ==
    /\ Established(c)
    /\ peer[c] = "up"
    /\ Settled(c)
    /\ peer' = [peer EXCEPT ![c] = IF rcvd[c] = echoed[c] THEN "fin" ELSE "rst"]
    /\ UNCHANGED <<listening, queue, conn, sent, got, echoed, rcvd>>

\* A reset: the client dies, or an echo reaches it after it has closed.
Reset(c) ==
    /\ Established(c)
    /\ peer[c] # "rst"
    /\ c \notin LockStep
    /\ peer' = [peer EXCEPT ![c] = "rst"]
    /\ UNCHANGED <<listening, queue, conn, sent, got, echoed, rcvd>>

ClientStep(c) == Connect(c) \/ Send(c) \/ Recv(c) \/ Leave(c) \/ Reset(c)

----------------------------------------------------------------------------
(* The kernel, as the servers see it.                                      *)

Unread(c) == sent[c] - got[c]

\* select(), poll(): a read() of the connection would not block.
Readable(c) == Unread(c) > 0 \/ peer[c] # "up"

\* read() returns data; a reset connection may give an error instead.
ReadReturnsData(c) ==
    /\ Unread(c) > 0
    /\ got' = [got EXCEPT ![c] = IF Unread(c) < BufSize THEN sent[c] ELSE @ + BufSize]

\* read() of a blocking socket returns 0, or -1.
ReadReturnsEof(c) == Unread(c) = 0 /\ peer[c] = "fin"
ReadReturnsError(c) == peer[c] = "rst"

\* read() of a nonblocking socket returns 0 or -1: nothing may be there (EAGAIN).
ReadReturnsNothing(c) == Unread(c) = 0 \/ ReadReturnsError(c)

\* The chunks read and not written back all fit, and the peer takes them.
WriteFits(c) == peer[c] # "rst" /\ got[c] - rcvd[c] <= SndBuf

\* The connection accept() returns leaves the queue.
AcceptHead ==
    /\ queue # <<>>
    /\ queue' = Tail(queue)
    /\ conn' = [conn EXCEPT ![Head(queue)] = "open"]

\* What remains when the process that owns the sockets is gone.
ClosedByExit ==
    [c \in Clients |-> IF Established(c) THEN "closed" ELSE conn[c]]

ProcessExit ==
    /\ listening' = FALSE
    /\ queue' = <<>>
    /\ conn' = ClosedByExit
    /\ UNCHANGED <<peer, sent, got, echoed, rcvd>>
=============================================================================
