----------------------------- MODULE SelectServer -----------------------------
(***************************************************************************)
(* src/servers/select.c: the echo server whose event loop waits in         *)
(* select(), accepts at most one client per round and then serves every    *)
(* client that was ready.  One step of the model is one system call of the *)
(* loop with the bookkeeping up to the next one; clients move in between.  *)
(***************************************************************************)
EXTENDS Descriptors

CONSTANT FdSetSize     \* FD_SETSIZE: slots of clientfd, and bits of an fd_set

ASSUME FdSetSizeAssumption == FdSetSize \in Nat /\ FdSetSize > SockFd + 1

VARIABLES pc,          \* where the loop is
          i,           \* the index of process_ready_clients
          clientfd,    \* slot -> client descriptor, or -1
          read_set, ready_set, nready, maxfd, maxi

ctx == <<clientfd, read_set, ready_set, nready, maxfd, maxi>>
vars == <<tcpVars, sock, pc, i, ctx>>

Slots == 0 .. FdSetSize - 1

TypeOK ==
    /\ TcpTypeOK
    /\ SockTypeOK
    /\ pc \in {"select", "accept", "process", "write", "exited", "undefined"}
    /\ i \in 0 .. FdSetSize
    /\ clientfd \in [Slots -> Fds \union {-1}]
    /\ read_set \subseteq Fds \union {SockFd}
    /\ ready_set \subseteq Fds \union {SockFd}
    /\ nready \in Int
    /\ maxfd \in Fds \union {SockFd}
    /\ maxi \in Slots \union {-1}

Init ==
    /\ TcpInit
    /\ SockInit
    /\ pc = "select"
    /\ i = 0
    /\ clientfd = [s \in Slots |-> -1]
    /\ read_set = {SockFd}
    /\ ready_set = {}
    /\ nready = 0
    /\ maxfd = SockFd
    /\ maxi = -1

----------------------------------------------------------------------------
FdReadable(fd) ==
    IF fd = SockFd THEN listening /\ queue # <<>>
                   ELSE sock[fd] # NoClient /\ Readable(sock[fd])

\* error_exit(), or SIGPIPE: the process and its descriptors are gone.
Exit ==
    /\ ExitAll
    /\ pc' = "exited"
    /\ UNCHANGED <<i, ctx>>

ListenerAlways == TRUE                       \* mutant: accept() without FD_ISSET
ListenerReady == SockFd \in ready_set

BelowMax(fd) == fd < maxfd                   \* mutant: select(maxfd, ...)
Watched(fd) == fd <= maxfd

\* The loop up to the return of select(), which blocks while nothing is ready.
Select ==
    /\ pc = "select"
    /\ ready_set' = {fd \in read_set : Watched(fd) /\ FdReadable(fd)}
    /\ ready_set' # {}
    /\ nready' = Cardinality(ready_set')
    /\ pc' = "accept"
    /\ UNCHANGED <<tcpVars, sock, i, clientfd, read_set, maxfd, maxi>>

StartProcessing == pc' = "process" /\ i' = 0

NoNewClient ==
    /\ pc = "accept"
    /\ ~ListenerReady
    /\ StartProcessing
    /\ UNCHANGED <<tcpVars, sock, ctx>>

FreeSlots == {s \in Slots : clientfd[s] < 0}
IsFirstFree(s) == s \in FreeSlots /\ \A r \in FreeSlots : s <= r

Lower(a, b) == IF a < b THEN a ELSE b        \* mutant: min() for max()
HighWater(a, b) == IF a > b THEN a ELSE b

SpendNone == UNCHANGED nready                \* mutant: nready is not counted down
SpendOne == nready' = nready - 1

\* add_client() once a free slot is found.
Track(fd, s) ==
    /\ clientfd' = [clientfd EXCEPT ![s] = fd]
    /\ read_set' = read_set \union {fd}
    /\ SpendOne
    /\ maxfd' = HighWater(fd, maxfd)
    /\ maxi' = HighWater(s, maxi)
    /\ UNCHANGED ready_set

\* FD_SET of a descriptor that fd_set has no bit for writes beyond read_set:
\* what the process does from there on is not modelled.
AddClient(fd) ==
    IF FreeSlots = {} THEN Exit
    ELSE /\ AcceptAs(fd)
         /\ \E s \in Slots : IsFirstFree(s) /\ Track(fd, s)
         /\ IF fd < FdSetSize THEN StartProcessing
                              ELSE pc' = "undefined" /\ UNCHANGED i

NewClient ==
    /\ pc = "accept"
    /\ ListenerReady
    /\ \E fd \in Fds : IsLowestFree(fd) /\ AddClient(fd)

NewClientFails ==
    /\ pc = "accept"
    /\ ListenerReady
    /\ AcceptFails
    /\ Exit

----------------------------------------------------------------------------
(* process_ready_clients: one pass over the slots.                         *)

LoopContinues == i <= maxi /\ nready > 0

SlotOccupied(s) == clientfd[s] > 0           \* mutant: no FD_ISSET
SlotReady(s) == clientfd[s] > 0 /\ clientfd[s] \in ready_set

SkipSlot ==
    /\ pc = "process"
    /\ LoopContinues
    /\ ~SlotReady(i)
    /\ i' = i + 1
    /\ UNCHANGED <<tcpVars, sock, pc, ctx>>

ReadClient ==
    /\ pc = "process"
    /\ LoopContinues
    /\ SlotReady(i)
    /\ ReadReturnsData(sock[clientfd[i]])
    /\ SpendOne
    /\ pc' = "write"
    /\ UNCHANGED <<listening, queue, conn, peer, sent, echoed, rcvd, sock, i,
                   clientfd, read_set, ready_set, maxfd, maxi>>

ReleaseAsZero(s) == clientfd' = [clientfd EXCEPT ![s] = 0]   \* mutant: 0 for -1
ReleaseSlot(s) == clientfd' = [clientfd EXCEPT ![s] = -1]

CloseClient ==
    /\ pc = "process"
    /\ LoopContinues
    /\ SlotReady(i)
    /\ ReadReturnsNothing(sock[clientfd[i]])
    /\ CloseFd(clientfd[i])
    /\ SpendOne
    /\ read_set' = read_set \ {clientfd[i]}
    /\ ReleaseSlot(i)
    /\ i' = i + 1
    /\ UNCHANGED <<pc, ready_set, maxfd, maxi>>

WriteClient ==
    /\ pc = "write"
    /\ LET c == sock[clientfd[i]] IN
        /\ WriteFits(c)
        /\ echoed' = [echoed EXCEPT ![c] = got[c]]
    /\ pc' = "process"
    /\ i' = i + 1
    /\ UNCHANGED <<listening, queue, conn, peer, sent, got, rcvd, sock, ctx>>

\* A short or failed write(), or SIGPIPE: for all clients, not only this one.
WriteFails ==
    /\ pc = "write"
    /\ ~WriteFits(sock[clientfd[i]])
    /\ Exit

EndRound ==
    /\ pc = "process"
    /\ ~LoopContinues
    /\ pc' = "select"
    /\ UNCHANGED <<tcpVars, sock, i, ctx>>

ServerStep ==
    \/ Select \/ NoNewClient \/ NewClient \/ NewClientFails
    \/ SkipSlot \/ ReadClient \/ CloseClient \/ WriteClient \/ WriteFails \/ EndRound

ClientMove(c) == ClientStep(c) /\ UNCHANGED <<sock, pc, i, ctx>>

Next == ServerStep \/ \E c \in Clients : ClientMove(c)

\* The loop runs as long as select() has something to report; clients need not move.
Spec == Init /\ [][Next]_vars /\ WF_vars(ServerStep)

----------------------------------------------------------------------------
Running == pc \notin {"exited", "undefined"}

\* clientfd, read_set, maxfd and maxi describe the same connections: each open
\* descriptor sits in one slot, in read_set, and under both high water marks, so
\* select() and the pass over the slots miss no client and touch no closed
\* descriptor (select.c:73-97, 118-123).
DescriptorsTracked ==
    Running =>
        /\ read_set = OpenFds \union {SockFd}
        /\ \A fd \in OpenFds : \E s \in Slots : clientfd[s] = fd
        /\ \A s \in Slots : clientfd[s] # -1 => clientfd[s] \in OpenFds
        /\ \A s, r \in Slots : clientfd[s] = clientfd[r] /\ s # r => clientfd[s] = -1
        /\ \A s \in Slots : clientfd[s] # -1 => s <= maxi
        /\ \A fd \in OpenFds : fd <= maxfd

\* The slots select() reported that the pass has yet to read.
Pending ==
    {s \in Slots : (IF pc = "write" THEN s > i ELSE s >= i) /\ SlotReady(s)}

\* nready counts exactly the ready clients the pass has yet to reach, so the
\* early stop at nready = 0 (select.c:103) passes nobody over, in any round.
ReadyBudget == pc \in {"process", "write"} => nready = Cardinality(Pending)

\* A round ends with nobody it found ready left out (select.c:174).
RoundServesAll == [][EndRound => Pending = {}]_vars

\* What select() reported still holds when the pass gets there: a slot it has
\* yet to read stands for a connection that is readable.  The else branch at
\* select.c:117 hangs up on EAGAIN too, so a stale report would end a live client.
ReportStillTrue ==
    pc \in {"process", "write"} => \A s \in Pending : Readable(sock[clientfd[s]])

\* The loop exits when any call fails (select.c:92, 114, 168), but no client that
\* behaves as client.c makes one fail, in any order of its calls with the server's:
\* only an echo another client does not take, or a client too many, ends the server.
ExitProvoked ==
    [][pc # "exited" /\ pc' = "exited" =>
         \/ pc = "write" /\ sock[clientfd[i]] \notin LockStep
         \/ OpenFds = Fds \/ FreeSlots = {}]_vars

\* Every chunk read but not yet written back belongs to the client being
\* served, so no echo is lost, duplicated or sent to another client.
NothingHeldBack ==
    Running => \A c \in Clients :
        conn[c] = "open" /\ got[c] # echoed[c] => pc = "write" /\ sock[clientfd[i]] = c

\* What holds inside a round: the report of select() is about tracked
\* descriptors, and a write is to the client whose data has just been read.
RoundOK ==
    /\ listening <=> pc # "exited"
    /\ pc = "accept" =>
        /\ ready_set \subseteq read_set
        /\ nready = Cardinality(ready_set)
        /\ \A fd \in ready_set : FdReadable(fd)
    /\ pc = "write" => i \in Slots /\ clientfd[i] \in OpenFds

IInv ==
    /\ TypeOK /\ TcpInv /\ SockOK /\ DescriptorsTracked /\ RoundOK
    /\ ReadyBudget /\ ReportStillTrue /\ NothingHeldBack

\* The server keeps the promise of EchoService.
Service == INSTANCE EchoService WITH running <- listening, MayRefuse <- FALSE
Promise == Service!Spec

\* The loop serves everybody in the end, although a round accepts one client only and
\* all share it: whoever waits is accepted; what a client sends is written back unless
\* it resets; one that has left is hung up on and its descriptor is free again.  The
\* end of the server is the only excuse.
EveryClientServed ==
    \A c \in Clients :
        /\ conn[c] = "queued" ~> (conn[c] = "open" \/ ~Running)
        /\ (Established(c) /\ echoed[c] < sent[c])
              ~> (echoed[c] = sent[c] \/ peer[c] = "rst" \/ ~Running)
        /\ (conn[c] = "open" /\ peer[c] # "up") ~> (conn[c] = "closed" \/ ~Running)
=============================================================================
