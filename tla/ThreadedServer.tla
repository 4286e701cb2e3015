---------------------------- MODULE ThreadedServer ----------------------------
(***************************************************************************)
(* src/servers/threaded.c: main() accepts, allocates a thread_t, starts a  *)
(* thread with a pointer to the descriptor inside it, and links it into    *)
(* the list of threads to be joined.  The thread_t made for a client is    *)
(* named by that client.                                                   *)
(***************************************************************************)
EXTENDS Tcp

CONSTANTS MaxThreads,  \* threads the system lets a process have that it has not joined
          MaxConns,    \* connections it has descriptors for
          ListHead, Null,
          NoClient,    \* not a client
          MayReject    \* the addrlen (threaded.c:134) first given to accept() may be negative

ASSUME ThreadedAssumption ==
    /\ MaxThreads \in Nat
    /\ MaxConns \in Nat \ {0}
    /\ NoClient \notin Clients
    /\ ListHead \notin Clients
    /\ Null \notin Clients \union {ListHead}
    /\ MayReject \in BOOLEAN

VARIABLES main,        \* where main() is
          current,     \* the client main()'s cfd stands for
          fresh,       \* addrlen has not been set by an accept() yet
          thread,      \* where the thread of each thread_t is
          serves,      \* the client the thread's own cfd stands for
          flink, blink \* the list of threads

Threads == INSTANCE IntrusiveList WITH Entries <- Clients

threadVars == <<main, current, fresh, thread, serves, flink, blink>>
vars == <<tcpVars, threadVars>>

TypeOK ==
    /\ TcpTypeOK
    /\ main \in {"accept", "start", "push", "gone"}
    /\ current \in Clients \union {NoClient}
    /\ fresh \in BOOLEAN
    /\ thread \in [Clients -> {"none", "start", "read", "write", "close", "done"}]
    /\ serves \in [Clients -> Clients \union {NoClient}]
    /\ Threads!ListTypeOK

Init ==
    /\ TcpInit
    /\ main = "accept"
    /\ current = NoClient
    /\ fresh = TRUE
    /\ thread = [t \in Clients |-> "none"]
    /\ serves = [t \in Clients |-> NoClient]
    /\ Threads!ListInit

----------------------------------------------------------------------------
Created == {t \in Clients : thread[t] # "none"}
Running(t) == thread[t] \notin {"none", "done"}
Open == {c \in Clients : conn[c] = "open"}

\* error_exit() or SIGPIPE: every thread and descriptor is gone.
Exit ==
    /\ main' = "gone"
    /\ ProcessExit
    /\ UNCHANGED <<current, fresh, thread, serves, flink, blink>>

Accept ==
    /\ main = "accept"
    /\ Cardinality(Open) < MaxConns
    /\ AcceptHead
    /\ current' = Head(queue)
    /\ fresh' = FALSE
    /\ main' = "start"
    /\ UNCHANGED <<listening, peer, sent, got, echoed, rcvd, thread, serves, flink, blink>>

\* No descriptor is left, or the address cannot be stored.
AcceptFails ==
    /\ main = "accept"
    /\ Cardinality(Open) >= MaxConns \/ (MayReject /\ fresh /\ queue # <<>>)
    /\ Exit

StartThread ==
    /\ main = "start"
    /\ Cardinality(Created) < MaxThreads
    /\ thread' = [thread EXCEPT ![current] = "start"]
    /\ main' = "push"
    /\ UNCHANGED <<tcpVars, current, fresh, serves, flink, blink>>

\* Threads that have ended but were not joined count.
StartFails ==
    /\ main = "start"
    /\ Cardinality(Created) >= MaxThreads
    /\ Exit

\* mutant: main() joins the thread before it accepts again
PushAndJoin ==
    /\ main = "push"
    /\ thread[current] = "done"
    /\ Threads!Push(current)
    /\ main' = "accept"
    /\ UNCHANGED <<tcpVars, current, fresh, thread, serves>>

\* mutant: the entry that was first keeps its link back to the head
PushUnlinked ==
    /\ main = "push"
    /\ Threads!PushHalf(current)
    /\ main' = "accept"
    /\ UNCHANGED <<tcpVars, current, fresh, thread, serves>>

PushThread ==
    /\ main = "push"
    /\ Threads!Push(current)
    /\ main' = "accept"
    /\ UNCHANGED <<tcpVars, current, fresh, thread, serves>>

----------------------------------------------------------------------------
(* handle_connection, in the thread of one thread_t.                       *)

Go(t, from, to) ==
    /\ main # "gone"
    /\ thread[t] = from
    /\ thread' = [thread EXCEPT ![t] = to]

\* mutant: the thread is given a pointer to main()'s cfd
FetchShared(t) ==
    /\ Go(t, "start", "read")
    /\ serves' = [serves EXCEPT ![t] = current]
    /\ UNCHANGED <<tcpVars, main, current, fresh, flink, blink>>

\* cfd = *((int*)ctx): the descriptor in the thread_t.
FetchDescriptor(t) ==
    /\ Go(t, "start", "read")
    /\ serves' = [serves EXCEPT ![t] = t]
    /\ UNCHANGED <<tcpVars, main, current, fresh, flink, blink>>

ReadData(t) ==
    /\ Go(t, "read", "write")
    /\ ReadReturnsData(serves[t])
    /\ UNCHANGED <<listening, queue, conn, peer, sent, echoed, rcvd,
                   main, current, fresh, serves, flink, blink>>

\* mutant: a read() that finds nothing ends the connection
ReadNothing(t) ==
    /\ Go(t, "read", "close")
    /\ Unread(serves[t]) = 0
    /\ UNCHANGED <<tcpVars, main, current, fresh, serves, flink, blink>>

\* The end of the connection, or a failed read().
ReadEnds(t) ==
    /\ Go(t, "read", "close")
    /\ ReadReturnsEof(serves[t]) \/ ReadReturnsError(serves[t])
    /\ UNCHANGED <<tcpVars, main, current, fresh, serves, flink, blink>>

\* mutant: BUFSIZE bytes are written whatever was read
WriteWholeBuffer(t) ==
    /\ Go(t, "write", "read")
    /\ echoed' = [echoed EXCEPT ![serves[t]] = @ + BufSize]
    /\ UNCHANGED <<listening, queue, conn, peer, sent, got, rcvd,
                   main, current, fresh, serves, flink, blink>>

Write(t) ==
    /\ Go(t, "write", "read")
    /\ WriteFits(serves[t])
    /\ echoed' = [echoed EXCEPT ![serves[t]] = got[serves[t]]]
    /\ UNCHANGED <<listening, queue, conn, peer, sent, got, rcvd,
                   main, current, fresh, serves, flink, blink>>

\* The thread returns without close() (threaded.c:114).
WriteFails(t) ==
    /\ Go(t, "write", "done")
    /\ ReadReturnsError(serves[t])
    /\ UNCHANGED <<tcpVars, main, current, fresh, serves, flink, blink>>

\* SIGPIPE.
Killed(t) ==
    /\ main # "gone"
    /\ thread[t] = "write"
    /\ peer[serves[t]] = "rst"
    /\ Exit

\* mutant: close() is forgotten
CloseForgotten(t) ==
    /\ Go(t, "close", "done")
    /\ UNCHANGED <<tcpVars, main, current, fresh, serves, flink, blink>>

Close(t) ==
    /\ Go(t, "close", "done")
    /\ conn' = [conn EXCEPT ![serves[t]] = "closed"]
    /\ UNCHANGED <<listening, queue, peer, sent, got, echoed, rcvd,
                   main, current, fresh, serves, flink, blink>>

Main == Accept \/ AcceptFails \/ StartThread \/ StartFails \/ PushThread

Thread(t) ==
    \/ FetchDescriptor(t) \/ ReadData(t) \/ ReadEnds(t)
    \/ Write(t) \/ WriteFails(t) \/ Killed(t) \/ Close(t)

ClientMove(c) == ClientStep(c) /\ UNCHANGED threadVars

Next ==
    \/ Main
    \/ \E t \in Clients : Thread(t)
    \/ \E c \in Clients : ClientMove(c)

\* Threads are scheduled; clients need not move.
Spec ==
    /\ Init /\ [][Next]_vars
    /\ WF_vars(Main)
    /\ \A t \in Clients : WF_vars(Thread(t))

----------------------------------------------------------------------------
\* Each thread serves the client it was started for, though it fetches its argument
\* only when it runs, main() having gone on (threaded.c:85, 105): an accepted client
\* that was not reset has a thread of its own until it is hung up on.
OwnThread ==
    main # "gone" =>
        /\ \A c \in Open : peer[c] # "rst" => Running(c) \/ (main = "start" /\ current = c)
        /\ \A t \in Clients : Running(t) => conn[t] = "open"
        /\ \A t \in Clients : thread[t] \in {"read", "write", "close"} => serves[t] = t

\* Every thread that was started is in the list for the join loop, once, except the
\* one main() is about to push (threaded.c:151-160).
Listed == IF main = "push" THEN Created \ {current} ELSE Created
EveryThreadListed == main # "gone" => Threads!IsRingOf(Listed, Cardinality(Listed))

\* A descriptor is left open by a thread that has ended only for a client that was
\* reset (threaded.c:112-115), and nothing else uses descriptors up.
LeakedOnlyByReset ==
    \A c \in Open : thread[c] = "done" => peer[c] = "rst" /\ got[c] # echoed[c]

\* What has been read and not written back is in the buffer of the client's thread, which
\* has something to write when it writes.
NothingHeldBack ==
    main # "gone" => \A c \in Clients :
        /\ got[c] # echoed[c] => peer[c] = "rst" \/ thread[c] = "write"
        /\ thread[c] = "write" => got[c] # echoed[c]

\* A thread that has seen the end of file has answered everything.
AnsweredBeforeClose ==
    main # "gone" => \A t \in Clients : thread[t] \in {"close", "done"} =>
        peer[t] = "rst" \/ (peer[t] = "fin" /\ echoed[t] = sent[t])

\* What main() has in hand.
MainHolds ==
    /\ listening <=> main # "gone"
    /\ main = "start" => current \in Clients /\ conn[current] = "open" /\ thread[current] = "none"
    /\ main = "push" => current \in Created
    /\ main # "gone" =>
          \A c \in Clients : conn[c] \in {"none", "queued"} => thread[c] = "none"

IInv ==
    /\ TypeOK /\ TcpInv /\ MainHolds
    /\ OwnThread /\ EveryThreadListed /\ LeakedOnlyByReset
    /\ NothingHeldBack /\ AnsweredBeforeClose

\* The server keeps the promise of EchoService.
Service == INSTANCE EchoService WITH running <- listening, MayRefuse <- FALSE
Promise == Service!Spec

\* The thread waits in write() for a client that does not read its echoes.
Stalled(c) == got[c] # echoed[c] /\ ~WriteFits(c)

\* No client, silent or stalled, keeps another one waiting while the process lives:
\* whoever waits is accepted, what an accepted client sends is written back, and one
\* that has left is hung up on, unless it resets or does not read.
EveryClientServed ==
    \A c \in Clients :
        /\ conn[c] = "queued" ~> conn[c] # "queued"
        /\ (conn[c] = "open" /\ echoed[c] < sent[c])
              ~> (echoed[c] = sent[c] \/ peer[c] = "rst" \/ Stalled(c) \/ main = "gone")
        /\ (conn[c] = "open" /\ peer[c] = "fin")
              ~> (conn[c] = "closed" \/ peer[c] = "rst" \/ Stalled(c))
=============================================================================
