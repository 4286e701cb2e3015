---------------------------- MODULE ForkingServer ----------------------------
(***************************************************************************)
(* src/servers/forking.c: the parent accepts and forks a child for each    *)
(* client; the children are reaped by a SIGCHLD handler that interrupts    *)
(* the parent anywhere.  A connection, and the listening socket, last as   *)
(* long as some process has a descriptor for them.                         *)
(***************************************************************************)
EXTENDS Tcp

CONSTANTS Limits,      \* how many children RLIMIT_NPROC may leave room for, zombies included
          Flags,       \* what sa.sa_flags (forking.c:50-52) may hold: it is never set
          MayReject    \* the addrlen (forking.c:63) first given to accept() may be negative

ASSUME ForkingAssumption ==
    /\ Limits \subseteq Nat
    /\ Flags \subseteq SUBSET {"RESTART", "RESETHAND"}
    /\ MayReject \in BOOLEAN

VARIABLES flags,       \* the flags the handler was installed with
          limit,       \* how many children the parent may have
          parent,      \* where main() is
          current,     \* the client whose cfd the parent has: {} or one client
          fresh,       \* addrlen has not been set by an accept() yet
          child,       \* the process forked for each client
          sigchld,     \* SIGCHLD is pending for the parent; it does not count
          handler,     \* "off": not installed (any more); "on"; "running"
          eintr        \* the accept() the handler interrupted will fail

procVars == <<flags, limit, parent, current, fresh, child, sigchld, handler, eintr>>
vars == <<tcpVars, procVars>>

TypeOK ==
    /\ TcpTypeOK
    /\ flags \in Flags
    /\ limit \in Limits
    /\ parent \in {"accept", "fork", "close", "exited"}
    /\ current \subseteq Clients
    /\ fresh \in BOOLEAN
    /\ child \in [Clients -> {"none", "start", "read", "write", "close", "exit",
                              "zombie", "reaped"}]
    /\ sigchld \in BOOLEAN
    /\ handler \in {"off", "on", "running"}
    /\ eintr \in BOOLEAN

Init ==
    /\ TcpInit
    /\ flags \in Flags
    /\ limit \in Limits
    /\ parent = "accept"
    /\ current = {}
    /\ fresh = TRUE
    /\ child = [c \in Clients |-> "none"]
    /\ sigchld = FALSE
    /\ handler = "on"
    /\ eintr = FALSE

----------------------------------------------------------------------------
Zombies == {c \in Clients : child[c] = "zombie"}
Children == {c \in Clients : child[c] \notin {"none", "reaped"}}

\* Children that still have the listening socket, and connections a child has.
Listening == {c \in Clients : child[c] = "start"}
HasConnection(c) == child[c] \in {"start", "read", "write", "close"}

----------------------------------------------------------------------------
(* The parent.  It moves on only when the handler is not running.          *)

Main(from, to) ==
    /\ parent = from
    /\ handler # "running" /\ ~eintr
    /\ parent' = to

\* The connection goes when neither the parent nor its child holds it.
ParentDrops ==
    [c \in Clients |-> IF c \in current /\ ~HasConnection(c) THEN "closed" ELSE conn[c]]

\* error_exit(): the listening socket survives in a child yet to close its copy.
ParentExit ==
    /\ parent' = "exited" /\ current' = {}
    /\ sigchld' = FALSE /\ handler' = "off" /\ eintr' = FALSE
    /\ child' = [c \in Clients |-> IF c \in Zombies THEN "reaped" ELSE child[c]]
    /\ IF Listening # {} THEN conn' = ParentDrops /\ UNCHANGED <<listening, queue>>
       ELSE /\ listening' = FALSE /\ queue' = <<>>
            /\ conn' = [c \in Clients |->
                          IF conn[c] = "queued" THEN "closed" ELSE ParentDrops[c]]
    /\ UNCHANGED <<peer, sent, got, echoed, rcvd, flags, limit, fresh>>

Accept ==
    /\ Main("accept", "fork")
    /\ AcceptHead
    /\ current' = {Head(queue)}
    /\ fresh' = FALSE
    /\ UNCHANGED <<listening, peer, sent, got, echoed, rcvd,
                   flags, limit, child, sigchld, handler, eintr>>

AcceptFails ==
    /\ Main("accept", "exited")
    /\ MayReject /\ fresh /\ queue # <<>>
    /\ ParentExit

Fork ==
    /\ Main("fork", "close")
    /\ Cardinality(Children) < limit
    /\ child' = [c \in Clients |-> IF c \in current THEN "start" ELSE child[c]]
    /\ UNCHANGED <<tcpVars, flags, limit, current, fresh, sigchld, handler, eintr>>

ForkFails ==
    /\ Main("fork", "exited")
    /\ Cardinality(Children) >= limit
    /\ ParentExit

\* mutant: the parent's copy of cfd is not closed
KeepCfd ==
    /\ Main("close", "accept")
    /\ UNCHANGED <<tcpVars, flags, limit, current, fresh, child, sigchld, handler, eintr>>

\* mutant: the parent waits for its child before it accepts again
CloseAndWait ==
    /\ Main("close", "accept")
    /\ \A c \in current : ~HasConnection(c)
    /\ conn' = ParentDrops
    /\ current' = {}
    /\ UNCHANGED <<listening, queue, peer, sent, got, echoed, rcvd,
                   flags, limit, fresh, child, sigchld, handler, eintr>>

CloseCfd ==
    /\ Main("close", "accept")
    /\ conn' = ParentDrops
    /\ current' = {}
    /\ UNCHANGED <<listening, queue, peer, sent, got, echoed, rcvd,
                   flags, limit, fresh, child, sigchld, handler, eintr>>

----------------------------------------------------------------------------
(* sigchld_handler.                                                        *)

\* Without SA_RESTART, an accept() it interrupts fails with EINTR; but a connection
\* that waits is returned whatever signal is pending.
Deliver ==
    /\ sigchld /\ handler = "on"
    /\ sigchld' = FALSE
    /\ handler' = "running"
    /\ eintr' \in {e \in BOOLEAN : e => /\ parent = "accept" /\ queue = <<>>
                                     /\ "RESTART" \notin flags}
    /\ UNCHANGED <<tcpVars, flags, limit, parent, current, fresh, child>>

\* One waitpid(-1, &status, WNOHANG) that finds a child.
Reap(c) ==
    /\ handler = "running"
    /\ child[c] = "zombie"
    /\ child' = [child EXCEPT ![c] = "reaped"]
    /\ UNCHANGED <<tcpVars, flags, limit, parent, current, fresh, sigchld, handler, eintr>>

\* mutant: one waitpid() per signal
OneWait == TRUE
NoMoreToWait == Zombies = {}

\* With SA_RESETHAND this was the last time, and what came meanwhile is ignored.
HandlerReturns ==
    /\ handler = "running"
    /\ NoMoreToWait
    /\ ~eintr
    /\ IF "RESETHAND" \in flags THEN handler' = "off" /\ sigchld' = FALSE
                                ELSE handler' = "on" /\ UNCHANGED sigchld
    /\ UNCHANGED <<tcpVars, flags, limit, parent, current, fresh, child, eintr>>

AcceptInterrupted ==
    /\ handler = "running"
    /\ NoMoreToWait
    /\ eintr
    /\ ParentExit

----------------------------------------------------------------------------
(* A child: close(sfd), handle_connection, _exit.                          *)

Moves(c, from, to) ==
    /\ child[c] = from
    /\ child' = [child EXCEPT ![c] = to]
    /\ UNCHANGED <<flags, limit, parent, current, fresh, sigchld, handler, eintr>>

\* The last process to close the listening socket ends the queue.
ChildClosesSfd(c) ==
    /\ Moves(c, "start", "read")
    /\ IF parent # "exited" \/ Listening # {c} THEN UNCHANGED <<listening, queue, conn>>
       ELSE /\ listening' = FALSE /\ queue' = <<>>
            /\ conn' = [d \in Clients |-> IF conn[d] = "queued" THEN "closed" ELSE conn[d]]
    /\ UNCHANGED <<peer, sent, got, echoed, rcvd>>

ChildReads(c) ==
    /\ Moves(c, "read", "write")
    /\ ReadReturnsData(c)
    /\ UNCHANGED <<listening, queue, conn, peer, sent, echoed, rcvd>>

\* mutant: a read() that finds nothing ends the connection
ChildSeesNothing(c) ==
    /\ Moves(c, "read", "close")
    /\ Unread(c) = 0
    /\ UNCHANGED tcpVars

ChildSeesEof(c) ==
    /\ Moves(c, "read", "close")
    /\ ReadReturnsEof(c)
    /\ UNCHANGED tcpVars

\* mutant: BUFSIZE bytes are written whatever was read
ChildWritesBuffer(c) ==
    /\ Moves(c, "write", "read")
    /\ echoed' = [echoed EXCEPT ![c] = @ + BufSize]
    /\ UNCHANGED <<listening, queue, conn, peer, sent, got, rcvd>>


ChildWrites(c) ==
    /\ Moves(c, "write", "read")
    /\ WriteFits(c)
    /\ echoed' = [echoed EXCEPT ![c] = got[c]]
    /\ UNCHANGED <<listening, queue, conn, peer, sent, got, rcvd>>

ChildDrops(c) ==
    /\ conn' = IF c \in current THEN conn ELSE [conn EXCEPT ![c] = "closed"]
    /\ UNCHANGED <<listening, queue, peer, sent, got, echoed, rcvd>>

ChildCloses(c) == Moves(c, "close", "exit") /\ ChildDrops(c)

\* The end of a child whose parent is gone is nobody's business here.
Dies(c) ==
    /\ child' = [child EXCEPT ![c] = IF parent = "exited" THEN "reaped" ELSE "zombie"]
    /\ sigchld' = (sigchld \/ handler # "off")
    /\ UNCHANGED <<flags, limit, parent, current, fresh, handler, eintr>>

ChildExits(c) == child[c] = "exit" /\ Dies(c) /\ UNCHANGED tcpVars

\* error_exit() on a failed read() or write(), or SIGPIPE.
ChildFails(c) ==
    /\ child[c] \in {"read", "write"}
    /\ ReadReturnsError(c)
    /\ Dies(c)
    /\ ChildDrops(c)

----------------------------------------------------------------------------
Parent ==
    \/ Accept \/ AcceptFails \/ Fork \/ ForkFails \/ CloseCfd
    \/ Deliver \/ (\E c \in Clients : Reap(c)) \/ HandlerReturns \/ AcceptInterrupted

Child(c) ==
    \/ ChildClosesSfd(c) \/ ChildReads(c) \/ ChildSeesEof(c) \/ ChildWrites(c)
    \/ ChildCloses(c) \/ ChildExits(c) \/ ChildFails(c)

ClientMove(c) == ClientStep(c) /\ UNCHANGED procVars

Next == Parent \/ \E c \in Clients : Child(c) \/ ClientMove(c)

\* Processes are scheduled, and a pending signal is delivered; clients need not move.
Spec ==
    /\ Init /\ [][Next]_vars
    /\ WF_vars(Accept \/ Fork \/ ForkFails \/ CloseCfd)
    /\ WF_vars(Deliver \/ (\E c \in Clients : Reap(c)) \/ HandlerReturns \/ AcceptInterrupted)
    /\ \A c \in Clients : WF_vars(Child(c))

----------------------------------------------------------------------------
\* SIGCHLD is a flag, not a count: children that end together, or while the handler
\* runs, are still all reaped, for whenever there is a zombie the handler is running
\* or about to (forking.c:21-25).  Zombies are forgotten in one case only: sa_flags, which
\* is never set (forking.c:50-52), holds SA_RESETHAND, and the handler has had its one run.
NoLostChild ==
    Zombies # {} => \/ sigchld \/ handler = "running"
                    \/ "RESETHAND" \in flags /\ handler = "off"

\* A connection is open exactly as long as a process has a descriptor for it: none
\* is closed under a child, none outlives both processes (forking.c:44, 102).
ConnectionHeld ==
    \A c \in Clients : conn[c] = "open" <=> c \in current \/ HasConnection(c)

\* Each child answers the client it was forked for, and holds nothing back.
NothingHeldBack ==
    \A c \in Clients : got[c] # echoed[c] =>
        child[c] = "write" \/ peer[c] = "rst"

\* The parent has the client it is forking for, which has a child after fork().
ParentHolds ==
    /\ current # {} <=> parent \in {"fork", "close"}
    /\ \A c, d \in current : c = d
    /\ \A c \in current : parent = "fork" <=> child[c] = "none"
    /\ \A c \in Clients : conn[c] \in {"none", "queued"} => child[c] = "none"

\* The handler stays installed unless it is reset at its first run.
HandlerInstalled ==
    IF parent = "exited" THEN handler = "off"
                         ELSE "RESETHAND" \notin flags => handler # "off"

\* A child that has seen the end of file has answered everything, and what the
\* client was told stays so after the child has ended.
AnsweredBeforeClose ==
    \A c \in Clients : child[c] \in {"close", "exit", "zombie", "reaped"} =>
        peer[c] = "rst" \/ (peer[c] = "fin" /\ echoed[c] = sent[c])

\* The inductive invariant.
IInv ==
    /\ TypeOK /\ TcpInv
    /\ ParentHolds /\ HandlerInstalled
    /\ NoLostChild
    /\ ConnectionHeld
    /\ NothingHeldBack
    /\ AnsweredBeforeClose

\* The parent and its children keep the promise of EchoService; children go on
\* serving when the parent has exited.
Service == INSTANCE EchoService WITH running <- parent # "exited", MayRefuse <- FALSE
Promise == Service!Spec

\* "forks a child process for each new client connection" (forking.c:3-4).
ForksForEachClient == \A c \in Clients : conn[c] = "queued" ~> child[c] # "none"

\* The child waits in write() for a client that does not read its echoes.
Stalled(c) == got[c] # echoed[c] /\ ~WriteFits(c)

\* Everybody is served in the end: whoever waits gets a child unless the parent has
\* exited, for it never gets stuck on one client; what a client that has a child sends
\* is written back, whatever becomes of the parent, and once it has left it sees its
\* connection end, which takes both processes, unless it resets or does not read.
EveryClientServed ==
    /\ queue # <<>> ~> (queue = <<>> /\ parent = "accept") \/ parent = "exited"
    /\ \A c \in Clients :
          /\ (child[c] # "none" /\ echoed[c] < sent[c])
                ~> (echoed[c] = sent[c] \/ peer[c] = "rst" \/ Stalled(c))
          /\ (conn[c] = "open" /\ peer[c] = "fin")
                ~> (conn[c] = "closed" \/ peer[c] = "rst" \/ Stalled(c))
=============================================================================
