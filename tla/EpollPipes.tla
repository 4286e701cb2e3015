------------------------------ MODULE EpollPipes ------------------------------
(***************************************************************************)
(* src/async-io/epoll1.c: main() makes a pipe and starts a thread for each *)
(* of N_THREADS writers, registering the read ends with epoll as it goes,  *)
(* and then reads whatever epoll_wait() reports until every pipe has hung  *)
(* up.  Data is counted in chunks of BUFSIZE bytes.                        *)
(***************************************************************************)
EXTENDS Executable, Naturals, FiniteSets

CONSTANTS Threads,     \* the writers (N_THREADS)
          Chunks,      \* BYTES_TO_WRITE / BUFSIZE
          PipeSize,    \* chunks a pipe holds
          MayFail      \* fopen() or write() may fail in a writer

ASSUME EpollAssumption ==
    /\ IsFiniteSet(Threads) /\ Threads # {}
    /\ Chunks \in Nat \ {0}
    /\ PipeSize \in Nat \ {0}
    /\ MayFail \in BOOLEAN

VARIABLES main,        \* where main() is
          thread,      \* where each writer is
          written,     \* chunks a writer has written
          read,        \* chunks main() has read of its pipe
          readEnd,     \* main()'s end of each pipe: "none", "open" (and registered) or "closed"
          writeEnd,    \* the writer's end
          events,      \* what is left of the report of epoll_wait(): thread -> event
          n_remaining

pipeVars == <<main, thread, written, read, readEnd, writeEnd, events, n_remaining>>

Ends == {"none", "open", "closed"}

PipeTypeOK ==
    /\ main \in {"off", "setup", "wait", "process", "join", "exited"}
    /\ thread \in [Threads -> {"none", "open", "write", "done", "failed"}]
    /\ written \in [Threads -> 0 .. Chunks]
    /\ read \in [Threads -> 0 .. Chunks]
    /\ readEnd \in [Threads -> Ends]
    /\ writeEnd \in [Threads -> Ends]
    /\ events \in [Threads -> {"none", "in", "hup"}]
    /\ n_remaining \in 0 .. Cardinality(Threads)

PipeInit ==
    /\ main = IF program = "epoll1" THEN "setup" ELSE "off"
    /\ thread = [t \in Threads |-> "none"]
    /\ written = [t \in Threads |-> 0]
    /\ read = [t \in Threads |-> 0]
    /\ readEnd = [t \in Threads |-> "none"]
    /\ writeEnd = [t \in Threads |-> "none"]
    /\ events = [t \in Threads |-> "none"]
    /\ n_remaining = Cardinality(Threads)

----------------------------------------------------------------------------
InPipe(t) == written[t] - read[t]

(* A writer.                                                               *)

OpenRandom(t) ==
    /\ thread[t] = "open"
    /\ thread' = [thread EXCEPT ![t] = "write"]
    /\ UNCHANGED <<main, written, read, readEnd, writeEnd, events, n_remaining>>

\* mutant: bytes_written <= BYTES_TO_WRITE
WriteChunkTooMany(t) ==
    /\ thread[t] = "write"
    /\ written[t] <= Chunks
    /\ readEnd[t] = "open"
    /\ InPipe(t) < PipeSize
    /\ written' = [written EXCEPT ![t] = @ + 1]
    /\ UNCHANGED <<main, thread, read, readEnd, writeEnd, events, n_remaining>>

\* write() blocks while the pipe is full.
WriteChunk(t) ==
    /\ thread[t] = "write"
    /\ written[t] < Chunks
    /\ readEnd[t] = "open"
    /\ InPipe(t) < PipeSize
    /\ written' = [written EXCEPT ![t] = @ + 1]
    /\ UNCHANGED <<main, thread, read, readEnd, writeEnd, events, n_remaining>>

\* Returns without closing anything (epoll1.c:38, 49).
WriterFails(t) ==
    /\ MayFail
    /\ thread[t] \in {"open", "write"}
    /\ thread' = [thread EXCEPT ![t] = "failed"]
    /\ UNCHANGED <<main, written, read, readEnd, writeEnd, events, n_remaining>>

\* SIGPIPE would end the process when the other end is closed, which NothingUnread
\* excludes.
WriterKilled(t) ==
    /\ thread[t] = "write"
    /\ written[t] < Chunks
    /\ readEnd[t] = "closed"
    /\ main' = "exited"
    /\ UNCHANGED <<thread, written, read, readEnd, writeEnd, events, n_remaining>>

Finish(t) ==
    /\ thread[t] = "write"
    /\ written[t] = Chunks
    /\ thread' = [thread EXCEPT ![t] = "done"]
    /\ writeEnd' = [writeEnd EXCEPT ![t] = "closed"]
    /\ UNCHANGED <<main, written, read, readEnd, events, n_remaining>>

Writer(t) ==
    /\ main # "exited"
    /\ OpenRandom(t) \/ WriteChunk(t) \/ WriterFails(t) \/ WriterKilled(t) \/ Finish(t)

----------------------------------------------------------------------------
(* main().                                                                 *)

\* One turn of the loop of epoll1.c:76-104.
Start(t) ==
    /\ main = "setup"
    /\ thread[t] = "none"
    /\ thread' = [thread EXCEPT ![t] = "open"]
    /\ readEnd' = [readEnd EXCEPT ![t] = "open"]
    /\ writeEnd' = [writeEnd EXCEPT ![t] = "open"]
    /\ main' = IF \E u \in Threads \ {t} : thread[u] = "none" THEN "setup" ELSE "wait"
    /\ UNCHANGED <<written, read, events, n_remaining>>

\* error(): pipe(), epoll_ctl() or pthread_create() failed.
SetupFails ==
    /\ main = "setup"
    /\ main' = "exited"
    /\ UNCHANGED <<thread, written, read, readEnd, writeEnd, events, n_remaining>>

\* The branch of epoll1.c:133-149 that the report of a pipe selects: EPOLLIN, also
\* with EPOLLHUP, or EPOLLHUP alone.
Report(t) ==
    IF readEnd[t] # "open" THEN "none"
    ELSE IF InPipe(t) > 0 THEN "in"
    ELSE IF writeEnd[t] = "closed" THEN "hup" ELSE "none"

Wait ==
    /\ main = "wait"
    /\ n_remaining > 0
    /\ events' = [t \in Threads |-> Report(t)]
    /\ \E t \in Threads : events'[t] # "none"
    /\ main' = "process"
    /\ UNCHANGED <<thread, written, read, readEnd, writeEnd, n_remaining>>

Handled(t) ==
    /\ events' = [events EXCEPT ![t] = "none"]
    /\ main' = IF \E u \in Threads \ {t} : events[u] # "none" THEN "process" ELSE "wait"

ReadPipe(t) ==
    /\ main = "process"
    /\ events[t] = "in"
    /\ read' = [read EXCEPT ![t] = @ + 1]
    /\ Handled(t)
    /\ UNCHANGED <<thread, written, readEnd, writeEnd, n_remaining>>

\* mutant: n_remaining is not counted down
ClosePipeUncounted(t) ==
    /\ main = "process"
    /\ events[t] = "hup"
    /\ readEnd' = [readEnd EXCEPT ![t] = "closed"]
    /\ Handled(t)
    /\ UNCHANGED <<thread, written, read, writeEnd, n_remaining>>

ClosePipe(t) ==
    /\ main = "process"
    /\ events[t] = "hup"
    /\ readEnd' = [readEnd EXCEPT ![t] = "closed"]
    /\ n_remaining' = n_remaining - 1
    /\ Handled(t)
    /\ UNCHANGED <<thread, written, read, writeEnd>>

LeaveLoop ==
    /\ main = "wait"
    /\ n_remaining = 0
    /\ main' = "join"
    /\ UNCHANGED <<thread, written, read, readEnd, writeEnd, events, n_remaining>>

JoinAll ==
    /\ main = "join"
    /\ \A t \in Threads : thread[t] \in {"done", "failed"}
    /\ main' = "exited"
    /\ UNCHANGED <<thread, written, read, readEnd, writeEnd, events, n_remaining>>

EpollMain ==
    \/ (\E t \in Threads : Start(t)) \/ SetupFails
    \/ Wait \/ (\E t \in Threads : ReadPipe(t) \/ ClosePipe(t))
    \/ LeaveLoop \/ JoinAll

PipeNext == EpollMain \/ \E t \in Threads : Writer(t)

PipeFairness ==
    /\ WF_pipeVars(EpollMain)
    /\ \A t \in Threads : WF_pipeVars(Writer(t))

----------------------------------------------------------------------------
\* No chunk is left in a pipe that main() closes, though data and hang-up may be
\* reported together: EPOLLIN is served first (epoll1.c:133-149).
NothingUnread ==
    \A t \in Threads : readEnd[t] = "closed" => written[t] = Chunks /\ read[t] = Chunks

\* The report is older than the state it is used in: what it says of a pipe still
\* holds, so read() never blocks the loop and nothing open is closed.
ReportStillTrue ==
    main = "process" => \A t \in Threads :
        /\ events[t] = "in" => InPipe(t) > 0
        /\ events[t] = "hup" => InPipe(t) = 0 /\ writeEnd[t] = "closed"

\* n_remaining is the number of pipes main() has yet to see the end of, also of those
\* whose thread has not been started.
RemainingCount ==
    n_remaining = Cardinality({t \in Threads : readEnd[t] # "closed"})

\* What ties a writer to its pipe.
WriterPipe ==
    \A t \in Threads :
        /\ read[t] <= written[t]
        /\ thread[t] = "none" <=> readEnd[t] = "none"
        /\ writeEnd[t] = "closed" <=> thread[t] = "done"
        /\ thread[t] \in {"none", "open"} => written[t] = 0
        /\ thread[t] = "done" => written[t] = Chunks
        /\ main \notin {"off", "setup", "exited"} => thread[t] # "none"
        /\ main # "process" => events[t] = "none" \/ main = "exited"
        /\ events[t] # "none" /\ main # "exited" => readEnd[t] = "open"

IInv == PipeTypeOK /\ WriterPipe /\ NothingUnread /\ ReportStillTrue /\ RemainingCount

\* Every pipe is read to its end whatever becomes of the other writers: closed after it
\* has hung up, with nothing left in it, or, when its writer returned early and it never
\* will, at least drained; and the program ends unless a writer has failed
\* (epoll1.c:109-151).
EveryPipeEnds ==
    /\ []NothingUnread
    /\ \A t \in Threads :
          main = "setup" ~>
              \/ main = "exited"
              \/ readEnd[t] = "closed"
              \/ thread[t] = "failed" /\ InPipe(t) = 0
    /\ main = "setup" ~> main = "exited" \/ \E t \in Threads : thread[t] = "failed"
=============================================================================
