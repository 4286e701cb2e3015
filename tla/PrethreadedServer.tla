-------------------------- MODULE PrethreadedServer --------------------------
(***************************************************************************)
(* src/servers/prethreaded.c: a pool of threads, each of which takes the   *)
(* mutex, blocks in accept() while it holds it, gives it back, and serves  *)
(* the client with blocking calls until the client leaves.                 *)
(***************************************************************************)
EXTENDS Tcp

CONSTANTS Workers,     \* THREADPOOL_SIZE threads
          NoWorker,    \* not a worker: the mutex is free
          NoClient,    \* not a client: the worker has none
          MayReject    \* the addrlen accept() is first given (prethreaded.c:52) may be negative

ASSUME PoolAssumption ==
    /\ NoWorker \notin Workers
    /\ NoClient \notin Clients
    /\ MayReject \in BOOLEAN

VARIABLES main,        \* main() waits in pthread_join(), or the process is gone
          pc,          \* where each worker is
          lock,        \* the worker that holds ctx.lock
          client,      \* whose connection a worker's cfd is
          fresh        \* workers whose addrlen has not been set by an accept() yet

poolVars == <<main, pc, lock, client, fresh>>
vars == <<tcpVars, poolVars>>

TypeOK ==
    /\ TcpTypeOK
    /\ main \in {"join", "gone"}
    /\ pc \in [Workers ->
                {"lock", "accept", "unlock", "read", "write", "close", "exited"}]
    /\ lock \in Workers \union {NoWorker}
    /\ client \in [Workers -> Clients \union {NoClient}]
    /\ fresh \subseteq Workers

Init ==
    /\ TcpInit
    /\ main = "join"
    /\ pc = [w \in Workers |-> "lock"]
    /\ lock = NoWorker
    /\ client = [w \in Workers |-> NoClient]
    /\ fresh = Workers

----------------------------------------------------------------------------
(* server_worker and handle_connection, for one worker.                    *)

Go(w, from, to) ==
    /\ main = "join"
    /\ pc[w] = from
    /\ pc' = [pc EXCEPT ![w] = to]

\* mutant: the mutex is not waited for
LockBusy(w) ==
    /\ Go(w, "lock", "accept")
    /\ lock' = w
    /\ UNCHANGED <<tcpVars, main, client, fresh>>

Lock(w) ==
    /\ Go(w, "lock", "accept")
    /\ lock = NoWorker
    /\ lock' = w
    /\ UNCHANGED <<tcpVars, main, client, fresh>>

Accept(w) ==
    /\ Go(w, "accept", "unlock")
    /\ AcceptHead
    /\ client' = [client EXCEPT ![w] = Head(queue)]
    /\ fresh' = fresh \ {w}
    /\ UNCHANGED <<listening, peer, sent, got, echoed, rcvd, main, lock>>

\* accept() takes the connection, cannot store the address (EINVAL) and drops it:
\* the worker exits with the mutex locked.
AcceptRejected(w) ==
    /\ Go(w, "accept", "exited")
    /\ MayReject /\ w \in fresh
    /\ queue # <<>>
    /\ queue' = Tail(queue)
    /\ conn' = [conn EXCEPT ![Head(queue)] = "closed"]
    /\ UNCHANGED <<listening, peer, sent, got, echoed, rcvd, main, lock, client, fresh>>

\* mutant: the mutex is kept while the client is served
KeepLock(w) ==
    /\ Go(w, "unlock", "read")
    /\ UNCHANGED <<tcpVars, main, lock, client, fresh>>

Unlock(w) ==
    /\ Go(w, "unlock", "read")
    /\ lock' = NoWorker
    /\ UNCHANGED <<tcpVars, main, client, fresh>>

ReadData(w) ==
    /\ Go(w, "read", "write")
    /\ ReadReturnsData(client[w])
    /\ UNCHANGED <<listening, queue, conn, peer, sent, echoed, rcvd,
                   main, lock, client, fresh>>

\* mutant: no end of file, a read() that finds nothing ends the connection
ReadNothing(w) ==
    /\ Go(w, "read", "close")
    /\ Unread(client[w]) = 0
    /\ UNCHANGED <<tcpVars, main, lock, client, fresh>>

ReadEof(w) ==
    /\ Go(w, "read", "close")
    /\ ReadReturnsEof(client[w])
    /\ UNCHANGED <<tcpVars, main, lock, client, fresh>>

\* mutant: BUFSIZE bytes are written whatever was read
WriteWholeBuffer(w) ==
    /\ Go(w, "write", "read")
    /\ echoed' = [echoed EXCEPT ![client[w]] = @ + BufSize]
    /\ UNCHANGED <<listening, queue, conn, peer, sent, got, rcvd,
                   main, lock, client, fresh>>


Write(w) ==
    /\ Go(w, "write", "read")
    /\ WriteFits(client[w])
    /\ echoed' = [echoed EXCEPT ![client[w]] = got[client[w]]]
    /\ UNCHANGED <<listening, queue, conn, peer, sent, got, rcvd,
                   main, lock, client, fresh>>

\* pthread_exit() on a failed read() or write(): cfd stays open.
HandlingFails(w) ==
    /\ \E from \in {"read", "write"} : Go(w, from, "exited")
    /\ ReadReturnsError(client[w])
    /\ UNCHANGED <<tcpVars, main, lock, client, fresh>>

\* mutant: close() is forgotten
CloseForgotten(w) ==
    /\ Go(w, "close", "lock")
    /\ client' = [client EXCEPT ![w] = NoClient]
    /\ UNCHANGED <<tcpVars, main, lock, fresh>>

Close(w) ==
    /\ Go(w, "close", "lock")
    /\ conn' = [conn EXCEPT ![client[w]] = "closed"]
    /\ client' = [client EXCEPT ![w] = NoClient]
    /\ UNCHANGED <<listening, queue, peer, sent, got, echoed, rcvd, main, lock, fresh>>

Worker(w) ==
    \/ Lock(w) \/ Accept(w) \/ AcceptRejected(w) \/ Unlock(w)
    \/ ReadData(w) \/ ReadEof(w) \/ Write(w) \/ HandlingFails(w) \/ Close(w)

----------------------------------------------------------------------------
\* SIGPIPE: writing to a connection that was reset may kill the whole process.
Killed ==
    /\ main = "join"
    /\ \E w \in Workers : pc[w] = "write" /\ peer[client[w]] = "rst"
    /\ main' = "gone"
    /\ ProcessExit
    /\ UNCHANGED <<pc, lock, client, fresh>>

\* main() returns once it has joined every worker.
MainReturns ==
    /\ main = "join"
    /\ \A w \in Workers : pc[w] = "exited"
    /\ main' = "gone"
    /\ ProcessExit
    /\ UNCHANGED <<pc, lock, client, fresh>>

ClientMove(c) == ClientStep(c) /\ UNCHANGED poolVars

Next ==
    \/ \E w \in Workers : Worker(w)
    \/ Killed
    \/ MainReturns
    \/ \E c \in Clients : ClientMove(c)

\* Threads are scheduled; a client may stop at any point.
Spec ==
    /\ Init /\ [][Next]_vars
    /\ \A w \in Workers : WF_vars(Worker(w))
    /\ WF_vars(MainReturns)

----------------------------------------------------------------------------
Accepting(w) == pc[w] \in {"accept", "unlock"}
Serving(w) == pc[w] \in {"read", "write", "close"}
Idle(w) == pc[w] \in {"lock", "accept"}

\* One worker at a time is in accept(), and it is the one that holds the mutex;
\* the address and cfd it works with are nobody else's (prethreaded.c:58-68).
AcceptAlone == \A w \in Workers : Accepting(w) => lock = w

\* A connection that still has a client is in the hands of exactly one worker:
\* none is forgotten between accept() and close(), none served twice.
OneWorkerPerClient ==
    main = "join" =>
        /\ \A c \in Clients : conn[c] = "open" /\ peer[c] # "rst" =>
              \E w \in Workers : client[w] = c /\ (pc[w] = "unlock" \/ Serving(w))
        /\ \A v, w \in Workers : client[v] = client[w] /\ client[v] # NoClient => v = w
        /\ \A w \in Workers : client[w] # NoClient => conn[client[w]] = "open"

\* What has been read and not written back is in the buffer of the worker that
\* serves the client, or the client was reset.
NothingHeldBack ==
    main = "join" => \A c \in Clients :
        conn[c] = "open" /\ got[c] # echoed[c] =>
            peer[c] = "rst" \/ \E w \in Workers : client[w] = c /\ pc[w] = "write"

\* A worker has a client from accept() to close(); the listening socket outlives all.
ClientWhileServing ==
    \A w \in Workers :
        /\ pc[w] = "unlock" \/ Serving(w) => client[w] \in Clients
        /\ Idle(w) => client[w] = NoClient

\* A worker that has seen the end of file has answered everything.
AnsweredBeforeClose ==
    main = "join" => \A w \in Workers : pc[w] = "close" =>
        \/ peer[client[w]] = "rst"
        \/ peer[client[w]] = "fin" /\ echoed[client[w]] = sent[client[w]]

\* The inductive invariant.
IInv ==
    /\ TypeOK /\ TcpInv
    /\ AcceptAlone
    /\ ClientWhileServing
    /\ main = "join" => listening
    /\ OneWorkerPerClient
    /\ NothingHeldBack
    /\ AnsweredBeforeClose

\* The pool keeps the promise of EchoService, except that accept() may drop a
\* connection when addrlen is uninitialized.
Service == INSTANCE EchoService WITH running <- listening, MayRefuse <- MayReject
Promise == Service!Spec

\* "a pre-allocated pool of worker threads to manage concurrent client connections"
\* (prethreaded.c:3-4): a waiting client is accepted as long as a worker is free.
IdleWorkerServes ==
    \A c \in Clients : (conn[c] = "queued" /\ \E w \in Workers : Idle(w))
        ~> (conn[c] \in {"open", "closed"} \/ (\A w \in Workers : ~Idle(w)) \/ main = "gone")

\* The worker waits in write() for a client that does not read its echoes.
Stalled(c) == got[c] # echoed[c] /\ ~WriteFits(c)

\* Everybody is served in the end, whatever the other workers' clients do meanwhile: who
\* waits is accepted while a worker is free, unless one has exited with the mutex
\* locked; what an accepted client sends is written back, and once it has left it is
\* hung up on, unless it resets or does not read.
EveryClientServed ==
    \A c \in Clients :
        /\ (conn[c] = "queued" /\ \E w \in Workers : Idle(w))
              ~> \/ conn[c] # "queued"
                 \/ \A w \in Workers : ~Idle(w)
                 \/ \E w \in Workers : lock = w /\ pc[w] = "exited"
                 \/ main = "gone"
        /\ (conn[c] = "open" /\ echoed[c] < sent[c])
              ~> (echoed[c] = sent[c] \/ peer[c] = "rst" \/ Stalled(c) \/ main = "gone")
        /\ (conn[c] = "open" /\ peer[c] = "fin")
              ~> (conn[c] = "closed" \/ peer[c] = "rst" \/ Stalled(c) \/ main = "gone")
=============================================================================
