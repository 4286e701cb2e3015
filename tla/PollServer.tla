----------------------------- MODULE PollServer -----------------------------
(***************************************************************************)
(* src/servers/poll.c: the event loop of select.c over poll().  The table  *)
(* holds the listening socket in slot 0 and clients elsewhere, and its     *)
(* revents are what the loop reads.  Unlike select.c, the pass over the    *)
(* table starts at slot 0.                                                 *)
(***************************************************************************)
EXTENDS Descriptors

CONSTANT MaxFds        \* MAX_FDS

ASSUME MaxFdsAssumption == MaxFds \in Nat \ {0}

VARIABLES pc,          \* where the loop is
          i,           \* the index of process_ready_clients
          pollfds,     \* slot -> descriptor, or -1
          revents,     \* the slots poll() reported POLLIN for
          nready

ctx == <<pollfds, revents, nready>>
vars == <<tcpVars, sock, pc, i, ctx>>

Slots == 0 .. MaxFds - 1

TypeOK ==
    /\ TcpTypeOK
    /\ SockTypeOK
    /\ pc \in {"poll", "accept", "process", "write", "exited"}
    /\ i \in 0 .. MaxFds
    /\ pollfds \in [Slots -> Fds \union {SockFd, -1}]
    /\ revents \subseteq Slots
    /\ nready \in Nat

Init ==
    /\ TcpInit
    /\ SockInit
    /\ pc = "poll"
    /\ i = 0
    /\ pollfds = [s \in Slots |-> IF s = 0 THEN SockFd ELSE -1]
    /\ revents = {}
    /\ nready = 0

----------------------------------------------------------------------------
\* The kernel skips negative descriptors and clears their revents.  A closed or
\* reset peer is POLLIN too.
FdReadable(fd) ==
    \/ fd = SockFd /\ listening /\ queue # <<>>
    \/ fd \in OpenFds /\ Readable(sock[fd])

SpendOne == nready' = nready - 1

Exit ==
    /\ ExitAll
    /\ pc' = "exited"
    /\ UNCHANGED <<i, ctx>>

Poll ==
    /\ pc = "poll"
    /\ revents' = {s \in Slots : FdReadable(pollfds[s])}
    /\ revents' # {}
    /\ nready' = Cardinality(revents')
    /\ pc' = "accept"
    /\ UNCHANGED <<tcpVars, sock, i, pollfds>>

StartProcessing == pc' = "process" /\ i' = 0

NoNewClient ==
    /\ pc = "accept"
    /\ 0 \notin revents
    /\ StartProcessing
    /\ UNCHANGED <<tcpVars, sock, ctx>>

FreeSlots == {s \in Slots : pollfds[s] < 0}
IsFirstFree(s) == s \in FreeSlots /\ \A r \in FreeSlots : s <= r

\* add_client(): nready is counted down, and the first free slot is taken.
\* With no free slot the loop of poll.c:70 runs past the table to FD_SETSIZE:
\* it crashes there, or finds nothing and leaves the client out of the table,
\* for i is then never MAX_FDS (poll.c:81).
Track(fd) ==
    \/ \E s \in Slots :
        /\ IsFirstFree(s)
        /\ pollfds' = [pollfds EXCEPT ![s] = fd]
    \/ FreeSlots = {} /\ UNCHANGED pollfds

NewClient ==
    /\ pc = "accept"
    /\ 0 \in revents
    /\ \E fd \in Fds : AcceptAs(fd) /\ Track(fd)
    /\ SpendOne
    /\ StartProcessing
    /\ UNCHANGED revents

NewClientFails ==
    /\ pc = "accept"
    /\ 0 \in revents
    /\ AcceptFails \/ FreeSlots = {}
    /\ Exit

----------------------------------------------------------------------------
(* process_ready_clients: one pass over the table.                         *)

\* mutants: the last slot is left out; the pass does not stop at nready = 0
StopsShort == i < MaxFds - 1 /\ nready > 0
IgnoresBudget == i < MaxFds
LoopContinues == i < MaxFds /\ nready > 0

SlotOccupied(s) == pollfds[s] > 0             \* mutant: revents not looked at
SlotReady(s) == pollfds[s] > 0 /\ s \in revents

SkipSlot ==
    /\ pc = "process"
    /\ LoopContinues
    /\ ~SlotReady(i)
    /\ i' = i + 1
    /\ UNCHANGED <<tcpVars, sock, pc, ctx>>

ReadClient ==
    /\ pc = "process"
    /\ LoopContinues
    /\ SlotReady(i)
    /\ pollfds[i] # SockFd
    /\ ReadReturnsData(sock[pollfds[i]])
    /\ SpendOne
    /\ pc' = "write"
    /\ UNCHANGED <<listening, queue, conn, peer, sent, echoed, rcvd, sock, i,
                   pollfds, revents>>

\* mutant: the slot keeps the closed descriptor
KeepSlot == SpendOne /\ i' = i + 1 /\ UNCHANGED <<pc, pollfds, revents>>

DropSlot ==
    /\ SpendOne
    /\ pollfds' = [pollfds EXCEPT ![i] = -1]
    /\ i' = i + 1
    /\ UNCHANGED <<pc, revents>>

CloseClient ==
    /\ pc = "process"
    /\ LoopContinues
    /\ SlotReady(i)
    /\ pollfds[i] # SockFd
    /\ ReadReturnsNothing(sock[pollfds[i]])
    /\ CloseFd(pollfds[i])
    /\ DropSlot

\* read() of the listening socket fails (ENOTCONN), so it is closed like a
\* client, and the kernel resets the connections still waiting on it.
CloseListener ==
    /\ pc = "process"
    /\ LoopContinues
    /\ SlotReady(i)
    /\ pollfds[i] = SockFd
    /\ listening' = FALSE
    /\ queue' = <<>>
    /\ conn' = [c \in Clients |-> IF conn[c] = "queued" THEN "closed" ELSE conn[c]]
    /\ DropSlot
    /\ UNCHANGED <<peer, sent, got, echoed, rcvd, sock>>

WriteClient ==
    /\ pc = "write"
    /\ LET c == sock[pollfds[i]] IN
        /\ WriteFits(c)
        /\ echoed' = [echoed EXCEPT ![c] = got[c]]
    /\ pc' = "process"
    /\ i' = i + 1
    /\ UNCHANGED <<listening, queue, conn, peer, sent, got, rcvd, sock, ctx>>

\* A short or failed write(), or SIGPIPE: for all clients, not only this one.
WriteFails ==
    /\ pc = "write"
    /\ ~WriteFits(sock[pollfds[i]])
    /\ Exit

EndRound ==
    /\ pc = "process"
    /\ ~LoopContinues
    /\ pc' = "poll"
    /\ UNCHANGED <<tcpVars, sock, i, ctx>>

ServerStep ==
    \/ Poll \/ NoNewClient \/ NewClient \/ NewClientFails
    \/ SkipSlot \/ ReadClient \/ CloseClient \/ CloseListener
    \/ WriteClient \/ WriteFails \/ EndRound

ClientMove(c) == ClientStep(c) /\ UNCHANGED <<sock, pc, i, ctx>>

Next == ServerStep \/ \E c \in Clients : ClientMove(c)

\* The loop runs as long as poll() has something to report.
Spec == Init /\ [][Next]_vars /\ WF_vars(ServerStep)

----------------------------------------------------------------------------
Running == pc # "exited"

\* The slots poll() reported that the pass has yet to read, the listening
\* socket's among them.
Pending == {s \in Slots : (IF pc = "write" THEN s > i ELSE s >= i) /\ SlotReady(s)}

\* The table names open descriptors only, each once, and the listening socket in
\* slot 0 only, so no slot outlives its connection when the kernel gives the
\* number out again (poll.c:75-77, 110-111).
TableMatchesSockets ==
    Running => \A s \in Slots :
        /\ pollfds[s] # -1 => pollfds[s] \in OpenFds \/ (s = 0 /\ listening)
        /\ \A r \in Slots : pollfds[s] = pollfds[r] /\ pollfds[s] # -1 => s = r

\* nready is exact in a round without a new client and one short in a round with
\* one, where the listening socket is paid for twice: by add_client and by the
\* pass, which starts at its slot (poll.c:69, 93-99).
BudgetCountsListener ==
    pc \in {"process", "write"} =>
        nready = Cardinality(Pending) - (IF 0 \in revents THEN 1 ELSE 0)

\* What poll() reported of a client still holds when the pass gets there.
ReportStillTrue ==
    pc \in {"process", "write"} =>
        \A s \in Pending : pollfds[s] # SockFd => Readable(sock[pollfds[s]])

\* No chunk stays behind in the server's buffer between two clients.
NothingHeldBack ==
    Running => \A c \in Clients :
        conn[c] = "open" /\ got[c] # echoed[c] => pc = "write" /\ sock[pollfds[i]] = c

\* What holds inside a round: once the listening socket is gone nobody waits on
\* it and slot 0 stays empty, what is reported at accept() is readable, and a write
\* is to the client whose data has just been read.
RoundOK ==
    /\ ~listening => queue = <<>>
    /\ Running => pollfds[0] = (IF listening THEN SockFd ELSE -1)
    /\ pc = "accept" =>
        /\ nready = Cardinality(revents)
        /\ \A s \in revents : FdReadable(pollfds[s])
    /\ pc = "write" => i \in Slots /\ pollfds[i] \in OpenFds

IInv ==
    /\ TypeOK /\ TcpInv /\ SockOK /\ TableMatchesSockets /\ RoundOK
    /\ BudgetCountsListener /\ ReportStillTrue /\ NothingHeldBack

\* poll.c keeps the promise of EchoService: a client that was accepted is hung up on
\* only when it has left and has been answered, or was reset, whatever happens to the
\* others in the same round.  Closing its listening socket turns away those who wait
\* on it and nobody else (poll.c:107-112).
Service == INSTANCE EchoService WITH running <- Running, MayRefuse <- TRUE
Promise == Service!Spec

\* An accepted client is served in the end, also by a server that has lost its
\* listening socket: what it sends is written back unless it resets, and once it has
\* left it is hung up on.  The end of the server is the only excuse.
EveryClientServed ==
    \A c \in Clients :
        /\ (conn[c] = "open" /\ echoed[c] < sent[c])
              ~> (echoed[c] = sent[c] \/ peer[c] = "rst" \/ ~Running)
        /\ (conn[c] = "open" /\ peer[c] # "up") ~> (conn[c] = "closed" \/ ~Running)

\* "process IO on the ready client connection" (poll.c:98): what the pass reads
\* is a client's connection.
OnlyClientsProcessed ==
    pc = "process" /\ LoopContinues /\ SlotReady(i) => pollfds[i] \in OpenFds

\* error_exit("too many clients") (poll.c:83): a client there is no slot for ends
\* the server, so a running server has a slot for each.
FullTableExits == Running => \A fd \in OpenFds : \E s \in Slots : pollfds[s] = fd
=============================================================================
