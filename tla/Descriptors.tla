----------------------------- MODULE Descriptors -----------------------------
(***************************************************************************)
(* The descriptor table of a server that serves every client from one      *)
(* process (select.c, poll.c): which descriptor stands for which client's  *)
(* connection.  The kernel gives out the lowest number that is free, so a  *)
(* number closed for one client comes back for another.                    *)
(***************************************************************************)
EXTENDS Tcp

CONSTANTS NoFile,      \* RLIMIT_NOFILE: descriptors are below it
          NoClient     \* not a client: the descriptor is free

\* 0, 1 and 2 are taken when the server starts; server_socket() gets 3.
SockFd == 3

ASSUME DescriptorsAssumption ==
    /\ NoFile \in Nat
    /\ NoFile > SockFd + 1
    /\ NoClient \notin Clients

VARIABLE sock          \* the client whose connection a descriptor stands for

Fds == SockFd + 1 .. NoFile - 1

SockTypeOK == sock \in [Fds -> Clients \union {NoClient}]

SockInit == sock = [fd \in Fds |-> NoClient]

OpenFds == {fd \in Fds : sock[fd] # NoClient}

\* Open descriptors and accepted connections correspond one to one.
SockOK ==
    /\ \A fd \in OpenFds : conn[sock[fd]] = "open"
    /\ \A fd, gd \in OpenFds : sock[fd] = sock[gd] => fd = gd
    /\ \A c \in Clients : conn[c] = "open" => \E fd \in OpenFds : sock[fd] = c

IsLowestFree(fd) ==
    /\ sock[fd] = NoClient
    /\ \A g \in Fds : sock[g] = NoClient => fd <= g

\* accept() returns fd.
AcceptAs(fd) ==
    /\ IsLowestFree(fd)
    /\ AcceptHead
    /\ sock' = [sock EXCEPT ![fd] = Head(queue)]
    /\ UNCHANGED <<listening, peer, sent, got, echoed, rcvd>>

\* accept() returns -1: EAGAIN or EMFILE.
AcceptFails == queue = <<>> \/ OpenFds = Fds

\* close(fd), when fd is a client's.
CloseFd(fd) ==
    /\ conn' = [conn EXCEPT ![sock[fd]] = "closed"]
    /\ sock' = [sock EXCEPT ![fd] = NoClient]
    /\ UNCHANGED <<listening, queue, peer, sent, got, echoed, rcvd>>

ExitAll == ProcessExit /\ sock' = [fd \in Fds |-> NoClient]
=============================================================================
