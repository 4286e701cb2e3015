----------------------------- MODULE AcceptLoops -----------------------------
(***************************************************************************)
(* The echo servers in which a process serves one client after another     *)
(* with blocking calls: src/servers/iterative.c and                        *)
(* src/sockets/unix_stream_server.c, one process each, and                 *)
(* src/servers/preforking.c, whose parent forks a pool of them that share  *)
(* the listening socket.  They differ in what a failed call ends.          *)
(***************************************************************************)
EXTENDS Tcp

CONSTANTS Programs,    \* which of "iterative", "unix" and "preforking"
          Workers,     \* the processes of the pool (PROCESS_POOL_SIZE)
          Solo,        \* the one that stands for main() of the other two programs
          NoClient,    \* not a client: the process has none
          MayReject    \* the addrlen accept() is first given (preforking.c:41) may be negative

ASSUME AcceptLoopsAssumption ==
    /\ Programs \subseteq {"iterative", "unix", "preforking"}
    /\ IsFiniteSet(Workers)
    /\ Solo \in Workers
    /\ NoClient \notin Clients
    /\ MayReject \in BOOLEAN

VARIABLES program,
          main,        \* the parent of the pool; "none" if there is no pool
          pc,          \* where each process is
          client,      \* whose connection its cfd is
          fresh,       \* processes whose addrlen has not been set by an accept() yet
          sigchld,     \* SIGCHLD is pending for the parent
          handler      \* its handler: "on", "once" (sa_flags is not set: SA_RESETHAND) or "off"

loopVars == <<program, main, pc, client, fresh, sigchld, handler>>
vars == <<tcpVars, loopVars>>

TypeOK ==
    /\ TcpTypeOK
    /\ program \in Programs
    /\ main \in {"none", "fork", "pause", "exited"}
    /\ pc \in [Workers -> {"unborn", "accept", "read", "write", "close", "zombie", "gone"}]
    /\ client \in [Workers -> Clients \union {NoClient}]
    /\ fresh \subseteq Workers
    /\ sigchld \in BOOLEAN
    /\ handler \in {"on", "once", "off"}

Init ==
    /\ TcpInit
    /\ program \in Programs
    /\ client = [w \in Workers |-> NoClient]
    /\ sigchld = FALSE
    /\ IF program = "preforking"
       THEN /\ main = "fork"
            /\ pc = [w \in Workers |-> "unborn"]
            /\ fresh = Workers
            /\ handler \in {"on", "once"}
       ELSE /\ main = "none"
            /\ pc = [w \in Workers |-> IF w = Solo THEN "accept" ELSE "unborn"]
            /\ fresh = {}
            /\ handler = "off"

----------------------------------------------------------------------------
Serving(w) == pc[w] \in {"read", "write", "close"}
Alive(w) == pc[w] = "accept" \/ Serving(w)
ParentAlive == main \in {"fork", "pause"}

\* mutant: shutdown() for close(), which ends the socket for every process
ShutdownListener(last) == listening' = FALSE /\ queue' = <<>>

\* The listening socket closes with the last process that holds it.
ListenerGoes(last) ==
    IF last
    THEN /\ listening' = FALSE
         /\ queue' = <<>>
    ELSE UNCHANGED <<listening, queue>>

CutQueued(last, d) == IF last /\ conn[d] = "queued" THEN "closed" ELSE conn[d]

----------------------------------------------------------------------------
(* main() of preforking.c.                                                 *)

Fork(w) ==
    /\ main = "fork"
    /\ pc[w] = "unborn"
    /\ pc' = [pc EXCEPT ![w] = "accept"]
    /\ main' = IF \E v \in Workers \ {w} : pc[v] = "unborn" THEN "fork" ELSE "pause"
    /\ UNCHANGED <<tcpVars, program, client, fresh, sigchld, handler>>

\* The limit on processes counts other programs too: fork() may fail any time.
ForkFails ==
    /\ main = "fork"
    /\ main' = "exited"
    /\ ListenerGoes(\A w \in Workers : ~Alive(w))
    /\ conn' = [d \in Clients |-> CutQueued(\A w \in Workers : ~Alive(w), d)]
    /\ pc' = [w \in Workers |-> IF pc[w] = "zombie" THEN "gone" ELSE pc[w]]
    /\ sigchld' = FALSE
    /\ handler' = "off"
    /\ UNCHANGED <<peer, sent, got, echoed, rcvd, program, client, fresh>>

ReapAll == pc' = [w \in Workers |-> IF pc[w] = "zombie" THEN "gone" ELSE pc[w]]

\* sigchld_handler, which interrupts nothing but pause().
Reap ==
    /\ sigchld
    /\ handler # "off"
    /\ ReapAll
    /\ sigchld' = FALSE
    /\ handler' = IF handler = "once" THEN "off" ELSE handler
    /\ UNCHANGED <<tcpVars, program, main, client, fresh>>

Parent == (\E w \in Workers : Fork(w)) \/ ForkFails \/ Reap

----------------------------------------------------------------------------
(* One process of the pool, or the only one.                               *)

Go(w, from, to) ==
    /\ pc[w] = from
    /\ pc' = [pc EXCEPT ![w] = to]

\* error_exit() or SIGPIPE: the process and the connection it has, c, are gone.
Dies(w, c) ==
    LET last == ~ParentAlive /\ \A v \in Workers \ {w} : ~Alive(v) IN
    /\ pc' = [pc EXCEPT ![w] = IF ParentAlive THEN "zombie" ELSE "gone"]
    /\ sigchld' = (sigchld \/ handler # "off")
    /\ client' = [client EXCEPT ![w] = NoClient]
    /\ ListenerGoes(last)
    /\ conn' = [d \in Clients |-> IF d = c THEN "closed" ELSE CutQueued(last, d)]
    /\ UNCHANGED <<peer, sent, got, echoed, rcvd, program, main, fresh, handler>>

Accept(w) ==
    /\ Go(w, "accept", "read")
    /\ AcceptHead
    /\ client' = [client EXCEPT ![w] = Head(queue)]
    /\ fresh' = fresh \ {w}
    /\ UNCHANGED <<listening, peer, sent, got, echoed, rcvd, program, main, sigchld, handler>>

\* accept() takes the connection, cannot store the address (EINVAL) and drops it.
AcceptRejected(w) ==
    /\ MayReject
    /\ w \in fresh
    /\ pc[w] = "accept"
    /\ queue # <<>>
    /\ LET last == ~ParentAlive /\ \A v \in Workers \ {w} : ~Alive(v) IN
       /\ pc' = [pc EXCEPT ![w] = IF ParentAlive THEN "zombie" ELSE "gone"]
       /\ listening' = (listening /\ ~last)
       /\ queue' = IF last THEN <<>> ELSE Tail(queue)
       /\ conn' = [d \in Clients |-> IF d = Head(queue) THEN "closed" ELSE CutQueued(last, d)]
    /\ sigchld' = (sigchld \/ handler # "off")
    /\ UNCHANGED <<peer, sent, got, echoed, rcvd, program, main, client, fresh, handler>>

ReadData(w) ==
    /\ Go(w, "read", "write")
    /\ ReadReturnsData(client[w])
    /\ UNCHANGED <<listening, queue, conn, peer, sent, echoed, rcvd,
                   program, main, client, fresh, sigchld, handler>>

\* mutants: the process serves one client only; a read() that finds nothing ends the connection
ExitsAtEof(w) ==
    /\ pc[w] = "read"
    /\ ReadReturnsEof(client[w])
    /\ Dies(w, client[w])
ReadNothing(w) ==
    /\ Go(w, "read", "close")
    /\ Unread(client[w]) = 0
    /\ UNCHANGED <<tcpVars, program, main, client, fresh, sigchld, handler>>

ReadEof(w) ==
    /\ Go(w, "read", "close")
    /\ ReadReturnsEof(client[w])
    /\ UNCHANGED <<tcpVars, program, main, client, fresh, sigchld, handler>>

\* Only iterative.c takes a failed read() for the end of the connection.
ReadFails(w) ==
    /\ pc[w] = "read"
    /\ ReadReturnsError(client[w])
    /\ IF program = "iterative"
       THEN /\ pc' = [pc EXCEPT ![w] = "close"]
            /\ UNCHANGED <<tcpVars, program, main, client, fresh, sigchld, handler>>
       ELSE Dies(w, client[w])

\* A UNIX domain peer that has closed takes nothing more.
Unreachable(c) == peer[c] = "rst" \/ (program = "unix" /\ peer[c] = "fin")

\* mutant: BUFSIZE bytes are written whatever was read
WriteWholeBuffer(w) ==
    /\ Go(w, "write", "read")
    /\ echoed' = [echoed EXCEPT ![client[w]] = @ + BufSize]
    /\ UNCHANGED <<listening, queue, conn, peer, sent, got, rcvd,
                   program, main, client, fresh, sigchld, handler>>

Write(w) ==
    /\ Go(w, "write", "read")
    /\ WriteFits(client[w])
    /\ ~Unreachable(client[w])
    /\ echoed' = [echoed EXCEPT ![client[w]] = got[client[w]]]
    /\ UNCHANGED <<listening, queue, conn, peer, sent, got, rcvd,
                   program, main, client, fresh, sigchld, handler>>

WriteFails(w) ==
    /\ pc[w] = "write"
    /\ Unreachable(client[w])
    /\ Dies(w, client[w])

\* mutant: close() is forgotten
CloseForgotten(w) ==
    /\ Go(w, "close", "accept")
    /\ client' = [client EXCEPT ![w] = NoClient]
    /\ UNCHANGED <<tcpVars, program, main, fresh, sigchld, handler>>

Close(w) ==
    /\ Go(w, "close", "accept")
    /\ conn' = [conn EXCEPT ![client[w]] = "closed"]
    /\ client' = [client EXCEPT ![w] = NoClient]
    /\ UNCHANGED <<listening, queue, peer, sent, got, echoed, rcvd,
                   program, main, fresh, sigchld, handler>>

Worker(w) ==
    \/ Accept(w) \/ AcceptRejected(w)
    \/ ReadData(w) \/ ReadEof(w) \/ ReadFails(w)
    \/ Write(w) \/ WriteFails(w) \/ Close(w)

----------------------------------------------------------------------------
\* A UNIX domain peer resets only by closing with echoes unread (Leave).
ClientMove(c) ==
    /\ ClientStep(c)
    /\ program = "unix" => peer'[c] # "rst" \/ rcvd[c] # echoed[c]
    /\ UNCHANGED loopVars

Next ==
    \/ Parent
    \/ \E w \in Workers : Worker(w)
    \/ \E c \in Clients : ClientMove(c)

\* Processes are scheduled; clients need not move.
Spec ==
    /\ Init /\ [][Next]_vars
    /\ WF_vars(Parent)
    /\ \A w \in Workers : WF_vars(Worker(w))

----------------------------------------------------------------------------
Dead == {w \in Workers : pc[w] \in {"zombie", "gone"}}

\* Though all processes of the pool block in accept() on one socket, a connection
\* has exactly one of them until it ends: none is served twice, none forgotten.
OneWorkerPerClient ==
    /\ \A c \in Clients : conn[c] = "open" => \E w \in Workers : client[w] = c
    /\ \A v, w \in Workers : client[v] = client[w] /\ client[v] # NoClient => v = w
    /\ \A w \in Workers : IF Serving(w) THEN client[w] # NoClient /\ conn[client[w]] = "open"
                                        ELSE client[w] = NoClient

\* What has been read and not written back is in the buffer of the process that
\* serves the client; what is lost when that process dies was for nobody any more.
NothingHeldBack ==
    \A c \in Clients : got[c] # echoed[c] =>
        IF conn[c] = "open" THEN \E w \in Workers : client[w] = c /\ pc[w] = "write"
                            ELSE Unreachable(c)

\* A process of the pool is not replaced (preforking.c:108-111), but a client costs
\* at most one, and only by being reset: one that has accepted before is lost to a
\* connection of its own that was reset, the others to an accept() that failed.
LossesPaid ==
    program = "preforking" =>
        Cardinality(Dead \ fresh)
            <= Cardinality({c \in Clients : conn[c] = "closed" /\ peer[c] = "rst"})

\* SIGCHLD does not count, yet no process of the pool that has died is forgotten.
NoLostWorker ==
    (\E w \in Workers : pc[w] = "zombie") => sigchld \/ handler = "off"

\* The parent keeps the listening socket open when the whole pool has died, and
\* closes it only by exiting (preforking.c:108-113); without a pool it goes with main().
ListenerHeld == listening <=> ParentAlive \/ \E w \in Workers : Alive(w)

\* A process that has seen the end of file has answered everything.
AnsweredBeforeClose ==
    \A w \in Workers : pc[w] = "close" =>
        \/ peer[client[w]] = "rst"
        \/ peer[client[w]] = "fin" /\ echoed[client[w]] = sent[client[w]]

\* Who exists in which program.
Roles ==
    /\ program # "preforking" => main = "none" /\ \A w \in Workers : pc[w] # "unborn" => w = Solo
    /\ program = "preforking" => main # "none"
    /\ main \in {"none", "exited"} => handler = "off" /\ ~sigchld /\ \A w \in Workers : pc[w] # "zombie"
    /\ main = "pause" => \A w \in Workers : pc[w] # "unborn"

IInv ==
    /\ TypeOK /\ TcpInv /\ Roles
    /\ OneWorkerPerClient /\ NothingHeldBack /\ NoLostWorker /\ ListenerHeld
    /\ AnsweredBeforeClose

\* The three programs keep the promise of EchoService as long as any process that can
\* accept is left, and the parent's death ends no service.
Service == INSTANCE EchoService
    WITH running <- ParentAlive \/ \E w \in Workers : Alive(w), MayRefuse <- MayReject
Promise == Service!Spec

\* write() waits for a client that does not read its echoes.
Stalled(c) == got[c] # echoed[c] /\ ~WriteFits(c)

\* Every client has its turn and is served in it: nothing but clients that stay keeps
\* others waiting, as long as any process is left; what an accepted one sends is written
\* back unless it is unreachable or does not read, and one that has left, reset or not,
\* is hung up on.
EveryClientServed ==
    \A c \in Clients :
        /\ conn[c] = "queued" ~>
              \/ conn[c] # "queued"
              \/ \A w \in Workers :
                    Alive(w) => Serving(w) /\ (peer[client[w]] = "up" \/ Stalled(client[w]))
        /\ (conn[c] = "open" /\ echoed[c] < sent[c])
              ~> (echoed[c] = sent[c] \/ Unreachable(c) \/ Stalled(c))
        /\ (conn[c] = "open" /\ peer[c] # "up") ~> (conn[c] = "closed" \/ Stalled(c))
=============================================================================
