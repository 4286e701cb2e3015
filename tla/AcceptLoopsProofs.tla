-------------------------- MODULE AcceptLoopsProofs --------------------------
(***************************************************************************)
(* Proofs about AcceptLoops, for any pool of processes and any clients:    *)
(* every connection is served by exactly one process, what a process dies  *)
(* of is always one reset client, and the three programs implement         *)
(* EchoService.                                                            *)
(***************************************************************************)
EXTENDS AcceptLoops, TcpProofs, FiniteSetTheorems

LEMMA InitInv == Init => IInv
  <1> SUFFICES ASSUME Init PROVE IInv
    OBVIOUS
  <1> USE AcceptLoopsAssumption
  <1>1. TcpInv
    BY TcpInitInv DEF Init
  <1>2. TypeOK
    BY <1>1 DEF Init, TypeOK, TcpInv
  <1>3. Roles /\ NoLostWorker /\ ListenerHeld
    BY DEF Init, TcpInit, Roles, NoLostWorker, ListenerHeld, ParentAlive, Alive, Serving
  <1>4. OneWorkerPerClient /\ NothingHeldBack /\ AnsweredBeforeClose
    BY DEF Init, TcpInit, OneWorkerPerClient, NothingHeldBack, AnsweredBeforeClose, Serving
  <1>5. QED
    BY <1>1, <1>2, <1>3, <1>4 DEF IInv

----------------------------------------------------------------------------
(* What the proofs need of the ways a process comes to its end.            *)

(* The connection of a process that serves is accepted, and its alone.     *)
LEMMA ServedIsOpen ==
  ASSUME IInv, NEW w \in Workers, Serving(w)
  PROVE  /\ client[w] \in Clients
         /\ conn[client[w]] = "open"
         /\ \A v \in Workers \ {w} : client[v] # client[w]
  BY AcceptLoopsAssumption DEF IInv, TypeOK, OneWorkerPerClient

(* A call that fails kills the process that serves an unreachable client;  *)
(* iterative.c alone goes on to close().                                   *)
LEMMA FailureKills ==
  ASSUME IInv, NEW w \in Workers, ReadFails(w) \/ WriteFails(w)
  PROVE  /\ Serving(w)
         /\ \/ /\ pc[w] = "read"
               /\ pc' = [pc EXCEPT ![w] = "close"]
               /\ peer[client[w]] = "rst"
               /\ UNCHANGED <<tcpVars, program, main, client, fresh, sigchld, handler>>
            \/ Unreachable(client[w]) /\ Dies(w, client[w])
  BY DEF ReadFails, WriteFails, Serving, ReadReturnsError, Unreachable

(* A process that dies takes its connection with it, and with the last one *)
(* the listening socket.                                                   *)
LEMMA DeathInv ==
  ASSUME IInv, NEW w \in Workers, Serving(w), Dies(w, client[w])
  PROVE  TcpInv'
  <1> DEFINE last == ~ParentAlive /\ \A v \in Workers \ {w} : ~Alive(v)
  <1>1. /\ client[w] \in Clients /\ conn[client[w]] = "open"
        /\ TcpInv
        /\ conn \in [Clients -> {"none", "queued", "open", "closed"}]
    BY ServedIsOpen DEF IInv, TcpInv, TcpTypeOK
  <1>2. /\ conn' = [d \in Clients |-> IF d = client[w] THEN "closed" ELSE CutQueued(last, d)]
        /\ UNCHANGED <<peer, sent, got, echoed, rcvd>>
    BY DEF Dies
  <1>3. CASE last
    <2>1. listening' = FALSE /\ queue' = <<>>
      BY <1>3 DEF Dies, ListenerGoes
    <2>2. /\ conn' \in [Clients -> {"none", "queued", "open", "closed"}]
          /\ \A c \in Clients : conn'[c] # "queued" /\ (conn'[c] = "none" => conn[c] = "none")
      BY <1>1, <1>2, <1>3 DEF CutQueued
    <2>3. QED
      BY <1>1, <1>2, <2>1, <2>2, EndListenInv
  <1>4. CASE ~last
    <2>1. UNCHANGED <<listening, queue>>
      BY <1>4 DEF Dies, ListenerGoes
    <2>2. conn' = [conn EXCEPT ![client[w]] = "closed"]
      BY <1>1, <1>2, <1>4 DEF CutQueued
    <2>3. QED
      BY <1>1, <1>2, <2>1, <2>2, CloseInv
  <1>5. QED
    BY <1>3, <1>4

(* Where the kernel's part of each step leaves the environment's invariant. *)
LEMMA TcpStep ==
  ASSUME IInv, Next
  PROVE  TcpInv'
  <1>1. TcpInv
    BY DEF IInv
  <1>2. CASE Parent
    <2>1. CASE ForkFails
      <3> DEFINE last == \A w \in Workers : ~Alive(w)
      <3>1. /\ conn' = [d \in Clients |-> CutQueued(last, d)]
            /\ UNCHANGED <<peer, sent, got, echoed, rcvd>>
            /\ conn \in [Clients -> {"none", "queued", "open", "closed"}]
        BY <1>1, <2>1 DEF ForkFails, TcpInv, TcpTypeOK
      <3>2. CASE last
        <4>1. listening' = FALSE /\ queue' = <<>>
          BY <2>1, <3>2 DEF ForkFails, ListenerGoes
        <4>2. /\ conn' \in [Clients -> {"none", "queued", "open", "closed"}]
              /\ \A c \in Clients : conn'[c] # "queued" /\ (conn'[c] = "none" => conn[c] = "none")
          BY <3>1, <3>2 DEF CutQueued
        <4>3. QED
          BY <1>1, <3>1, <4>1, <4>2, EndListenInv
      <3>3. CASE ~last
        <4>1. conn' = conn
          BY <3>1, <3>3 DEF CutQueued
        <4>2. UNCHANGED tcpVars
          BY <2>1, <3>1, <3>3, <4>1 DEF ForkFails, ListenerGoes, tcpVars
        <4>3. QED
          BY <1>1, <4>2, TcpUnchanged
      <3>4. QED
        BY <3>2, <3>3
    <2>2. QED
      BY <1>1, <1>2, <2>1, TcpUnchanged DEF Parent, Fork, Reap
  <1>3. ASSUME NEW w \in Workers, Accept(w)
        PROVE  TcpInv'
    BY <1>1, <1>3, AcceptInv DEF Accept
  <1>4. ASSUME NEW w \in Workers, AcceptRejected(w)
        PROVE  TcpInv'
    <2> DEFINE last == ~ParentAlive /\ \A v \in Workers \ {w} : ~Alive(v)
    <2>1. /\ queue # <<>> /\ Head(queue) \in Clients
          /\ conn \in [Clients -> {"none", "queued", "open", "closed"}]
          /\ listening' = (listening /\ ~last)
          /\ queue' = IF last THEN <<>> ELSE Tail(queue)
          /\ conn' = [d \in Clients |-> IF d = Head(queue) THEN "closed" ELSE CutQueued(last, d)]
          /\ UNCHANGED <<peer, sent, got, echoed, rcvd>>
          /\ listening \in BOOLEAN
      BY <1>1, <1>4, QueueTail DEF AcceptRejected, TcpInv, TcpTypeOK
    <2>2. CASE last
      <3>1. /\ conn' \in [Clients -> {"none", "queued", "open", "closed"}]
            /\ \A c \in Clients : conn'[c] # "queued" /\ (conn'[c] = "none" => conn[c] = "none")
        BY <2>1, <2>2 DEF CutQueued
      <3>2. listening' = FALSE /\ queue' = <<>>
        BY <2>1, <2>2
      <3>3. QED
        BY <1>1, <2>1, <3>1, <3>2, EndListenInv
    <2>3. CASE ~last
      <3>1. conn' = [conn EXCEPT ![Head(queue)] = "closed"]
        BY <2>1, <2>3 DEF CutQueued
      <3>2. listening' = listening /\ queue' = Tail(queue)
        BY <2>1, <2>3
      <3>3. "closed" \in {"open", "closed"}
        OBVIOUS
      <3>4. QED
        BY <1>1, <2>1, <3>1, <3>2, <3>3, DequeueInv
    <2>4. QED
      BY <2>2, <2>3
  <1>5. ASSUME NEW w \in Workers, ReadData(w)
        PROVE  TcpInv'
    BY <1>1, <1>5, ServedIsOpen, ReadInv DEF ReadData, Go, Serving
  <1>6. ASSUME NEW w \in Workers, ReadEof(w)
        PROVE  TcpInv'
    BY <1>1, <1>6, TcpUnchanged DEF ReadEof
  <1>7. ASSUME NEW w \in Workers, ReadFails(w) \/ WriteFails(w)
        PROVE  TcpInv'
    BY <1>1, <1>7, FailureKills, DeathInv, TcpUnchanged
  <1>8. ASSUME NEW w \in Workers, Write(w)
        PROVE  TcpInv'
    BY <1>1, <1>8, ServedIsOpen, WriteInv DEF Write, Go, Serving
  <1>9. ASSUME NEW w \in Workers, Close(w)
        PROVE  TcpInv'
    BY <1>1, <1>9, ServedIsOpen, CloseInv DEF Close, Go, Serving
  <1>10. ASSUME NEW c \in Clients, ClientMove(c)
         PROVE  TcpInv'
    BY <1>1, <1>10, ClientStepInv DEF ClientMove
  <1>11. QED
    BY <1>2, <1>3, <1>4, <1>5, <1>6, <1>7, <1>8, <1>9, <1>10 DEF Next, Worker

(* Where the processes are, and who owes the parent a signal.              *)
PoolInv == TypeOK /\ Roles /\ NoLostWorker /\ ListenerHeld

(* A process that goes on to its next call changes nothing of that.        *)
LEMMA TurnKeepsPool ==
  ASSUME IInv, TcpTypeOK', NEW w \in Workers, Alive(w),
         NEW to \in {"accept", "read", "write", "close"},
         pc' = [pc EXCEPT ![w] = to],
         client' \in [Workers -> Clients \union {NoClient}], fresh' \subseteq fresh,
         UNCHANGED <<listening, program, main, sigchld, handler>>
  PROVE  PoolInv'
  <1> USE AcceptLoopsAssumption DEF IInv, TypeOK
  <1>1. TypeOK'
    OBVIOUS
  <1>2. /\ \A v \in Workers : Alive(v)' <=> Alive(v)
        /\ \A v \in Workers : pc'[v] = "zombie" <=> pc[v] = "zombie"
        /\ \A v \in Workers : pc'[v] = "unborn" <=> pc[v] = "unborn"
    BY DEF Alive, Serving
  <1>3. ListenerHeld'
    BY <1>2 DEF ListenerHeld, ParentAlive
  <1>4. NoLostWorker'
    BY <1>2 DEF NoLostWorker
  <1>5. Roles'
    BY <1>2 DEF Roles
  <1>6. QED
    BY <1>1, <1>3, <1>4, <1>5 DEF PoolInv

LEMMA PoolStep ==
  ASSUME IInv, Next
  PROVE  PoolInv'
  <1>1. TcpTypeOK' /\ AcceptLoopsAssumption
    BY TcpStep, AcceptLoopsAssumption DEF TcpInv
  <1>2. \A w \in Workers, c \in Clients \union {NoClient} :
           [client EXCEPT ![w] = c] \in [Workers -> Clients \union {NoClient}]
    BY DEF IInv, TypeOK
  <1>3. ASSUME NEW w \in Workers, Accept(w)
        PROVE  PoolInv'
    <2>1. Head(queue) \in Clients
      BY <1>3, QueueTail DEF Accept, AcceptHead, IInv, TcpInv
    <2>2. client' \in [Workers -> Clients \union {NoClient}] /\ fresh' \subseteq fresh
      BY <1>2, <1>3, <2>1 DEF Accept
    <2>3. Alive(w) /\ pc' = [pc EXCEPT ![w] = "read"]
          /\ UNCHANGED <<listening, program, main, sigchld, handler>>
      BY <1>3 DEF Accept, Go, Alive
    <2>4. QED
      BY <1>1, <2>2, <2>3, TurnKeepsPool
  <1>4. ASSUME NEW w \in Workers, ReadData(w)
        PROVE  PoolInv'
    <2>1. Alive(w) /\ pc' = [pc EXCEPT ![w] = "write"] /\ client' = client /\ fresh' = fresh
          /\ UNCHANGED <<listening, program, main, sigchld, handler>>
      BY <1>4 DEF ReadData, Go, Alive, Serving
    <2>2. QED
      BY <1>1, <2>1, TurnKeepsPool DEF IInv, TypeOK
  <1>5. ASSUME NEW w \in Workers, ReadEof(w)
        PROVE  PoolInv'
    <2>1. Alive(w) /\ pc' = [pc EXCEPT ![w] = "close"] /\ client' = client /\ fresh' = fresh
          /\ UNCHANGED <<listening, program, main, sigchld, handler>>
      BY <1>5 DEF ReadEof, Go, Alive, Serving, tcpVars
    <2>2. QED
      BY <1>1, <2>1, TurnKeepsPool DEF IInv, TypeOK
  <1>6. ASSUME NEW w \in Workers, Write(w)
        PROVE  PoolInv'
    <2>1. Alive(w) /\ pc' = [pc EXCEPT ![w] = "read"] /\ client' = client /\ fresh' = fresh
          /\ UNCHANGED <<listening, program, main, sigchld, handler>>
      BY <1>6 DEF Write, Go, Alive, Serving
    <2>2. QED
      BY <1>1, <2>1, TurnKeepsPool DEF IInv, TypeOK
  <1>7. ASSUME NEW w \in Workers, Close(w)
        PROVE  PoolInv'
    <2>1. Alive(w) /\ pc' = [pc EXCEPT ![w] = "accept"] /\ fresh' = fresh
          /\ UNCHANGED <<listening, program, main, sigchld, handler>>
      BY <1>7 DEF Close, Go, Alive, Serving
    <2>2. QED
      BY <1>1, <1>2, <1>7, <2>1, TurnKeepsPool DEF Close
  <1>8. ASSUME NEW w \in Workers, ReadFails(w) \/ WriteFails(w)
        PROVE  PoolInv'
    <2>1. CASE Dies(w, client[w]) /\ Serving(w)
      BY <1>1, <2>1
         DEF Dies, ListenerGoes, PoolInv, IInv, TypeOK, TcpTypeOK, Roles, NoLostWorker,
             ListenerHeld, ParentAlive, Alive, Serving, AcceptLoopsAssumption
    <2>2. CASE /\ pc[w] = "read" /\ pc' = [pc EXCEPT ![w] = "close"]
               /\ UNCHANGED <<tcpVars, program, main, client, fresh, sigchld, handler>>
      <3>1. Alive(w) /\ client' = client /\ fresh' = fresh
            /\ UNCHANGED <<listening, program, main, sigchld, handler>>
        BY <2>2 DEF Alive, Serving, tcpVars
      <3>2. QED
        BY <1>1, <2>2, <3>1, TurnKeepsPool DEF IInv, TypeOK
    <2>3. QED
      BY <1>8, <2>1, <2>2, FailureKills
  <1> USE <1>1
      DEF PoolInv, IInv, TypeOK, TcpTypeOK, Roles, NoLostWorker, ListenerHeld,
          ParentAlive, Alive, Serving, AcceptLoopsAssumption
  <1>9. ASSUME NEW w \in Workers, Fork(w)
        PROVE  PoolInv'
    BY <1>9 DEF Fork, tcpVars
  <1>10. CASE ForkFails
    BY <1>10 DEF ForkFails, ListenerGoes
  <1>11. CASE Reap
    BY <1>11 DEF Reap, ReapAll, tcpVars
  <1>12. ASSUME NEW w \in Workers, AcceptRejected(w)
        PROVE  PoolInv'
    BY <1>12 DEF AcceptRejected
  <1>13. ASSUME NEW c \in Clients, ClientMove(c)
         PROVE  PoolInv'
    BY <1>13, ClientStepEffect DEF ClientMove, loopVars
  <1>14. QED
    BY <1>3, <1>4, <1>5, <1>6, <1>7, <1>8, <1>9, <1>10, <1>11, <1>12, <1>13
       DEF Next, Parent, Worker

(* The connections: whose they are and what is owed on them.               *)
ConnInv == OneWorkerPerClient /\ NothingHeldBack

(* A process that takes a waiting connection is the first to have it.      *)
LEMMA TakeOverKeepsOwners ==
  ASSUME IInv, NEW w \in Workers, NEW c \in Clients, pc[w] = "accept", conn[c] = "queued",
         pc' = [pc EXCEPT ![w] = "read"],
         client' = [client EXCEPT ![w] = c],
         conn' = [conn EXCEPT ![c] = "open"]
  PROVE  OneWorkerPerClient'
  <1> USE DEF OneWorkerPerClient
  <1>1. /\ OneWorkerPerClient
        /\ NoClient \notin Clients
        /\ pc \in [Workers -> {"unborn", "accept", "read", "write", "close", "zombie", "gone"}]
        /\ client \in [Workers -> Clients \union {NoClient}]
        /\ conn \in [Clients -> {"none", "queued", "open", "closed"}]
    BY AcceptLoopsAssumption DEF IInv, TypeOK, TcpTypeOK
  <1>2. client[w] = NoClient
    BY <1>1 DEF Serving
  <1>3. \A v \in Workers : client[v] # c
    BY <1>1
  <1>4. /\ \A v \in Workers : client'[v] = IF v = w THEN c ELSE client[v]
        /\ \A d \in Clients : conn'[d] = IF d = c THEN "open" ELSE conn[d]
        /\ \A v \in Workers : Serving(v)' <=> v = w \/ Serving(v)
    BY <1>1 DEF Serving
  <1>5. \A d \in Clients : conn'[d] = "open" => \E v \in Workers : client'[v] = d
    BY <1>1, <1>2, <1>4
  <1>6. \A v, u \in Workers : client'[v] = client'[u] /\ client'[v] # NoClient => v = u
    BY <1>1, <1>3, <1>4
  <1>7. ASSUME NEW v \in Workers
        PROVE  IF Serving(v)' THEN client'[v] # NoClient /\ conn'[client'[v]] = "open"
                              ELSE client'[v] = NoClient
    BY <1>1, <1>3, <1>4
  <1>8. QED
    BY <1>5, <1>6, <1>7

LEMMA ConnStep ==
  ASSUME IInv, Next
  PROVE  ConnInv'
  <1>0. ASSUME NEW w \in Workers, Accept(w)
        PROVE  OneWorkerPerClient'
    <2>1. /\ pc[w] = "accept" /\ pc' = [pc EXCEPT ![w] = "read"]
          /\ client' = [client EXCEPT ![w] = Head(queue)]
          /\ conn' = [conn EXCEPT ![Head(queue)] = "open"]
          /\ Head(queue) \in Clients
          /\ conn[Head(queue)] = "queued"
      BY <1>0, QueueTail DEF Accept, AcceptHead, Go, IInv, TcpInv
    <2>2. QED
      BY <2>1, TakeOverKeepsOwners
  <1> USE AcceptLoopsAssumption
      DEF ConnInv, IInv, TypeOK, TcpInv, TcpTypeOK, OneWorkerPerClient, NothingHeldBack,
          Serving, Unreachable, Go
  <1>1. queue # <<>> => /\ Head(queue) \in Clients
                        /\ conn[Head(queue)] = "queued"
                        /\ got[Head(queue)] = echoed[Head(queue)]
    BY QueueTail DEF UntouchedUntilAccepted
  <1>2. \A c \in Clients : conn[c] = "queued" => got[c] = echoed[c]
    BY DEF UntouchedUntilAccepted
  <1>3. ASSUME NEW w \in Workers, Fork(w)
        PROVE  ConnInv'
    BY <1>3 DEF Fork, tcpVars
  <1>4. CASE ForkFails
    BY <1>2, <1>4 DEF ForkFails, CutQueued
  <1>5. CASE Reap
    BY <1>5 DEF Reap, ReapAll, tcpVars
  <1>6. ASSUME NEW w \in Workers, Accept(w)
        PROVE  ConnInv'
    <2>1. /\ pc[w] = "accept" /\ pc' = [pc EXCEPT ![w] = "read"]
          /\ client' = [client EXCEPT ![w] = Head(queue)]
          /\ conn' = [conn EXCEPT ![Head(queue)] = "open"]
          /\ queue # <<>>
          /\ UNCHANGED <<peer, got, echoed, program>>
      BY <1>6 DEF Accept, AcceptHead
    <2>2. OneWorkerPerClient'
      BY <1>0, <1>6
    <2>3. ASSUME NEW c \in Clients, got[c] # echoed[c]
          PROVE  IF conn'[c] = "open" THEN \E v \in Workers : client'[v] = c /\ pc'[v] = "write"
                                      ELSE Unreachable(c)'
      <3>1. c # Head(queue) /\ conn'[c] = conn[c]
        BY <1>1, <2>1, <2>3
      <3>2. CASE conn[c] = "open"
        <4>1. PICK v \in Workers : client[v] = c /\ pc[v] = "write"
          BY <2>3, <3>2
        <4>2. client'[v] = c /\ pc'[v] = "write"
          BY <2>1, <4>1
        <4>3. QED
          BY <3>1, <3>2, <4>2
      <3>3. CASE conn[c] # "open"
        BY <2>1, <2>3, <3>1, <3>3
      <3>4. QED
        BY <3>2, <3>3
    <2>4. NothingHeldBack'
      BY <2>1, <2>3
    <2>5. QED
      BY <2>2, <2>4
  <1>7. ASSUME NEW w \in Workers, AcceptRejected(w)
        PROVE  ConnInv'
    BY <1>1, <1>2, <1>7 DEF AcceptRejected, CutQueued
  <1>8. ASSUME NEW w \in Workers, ReadData(w)
        PROVE  ConnInv'
    BY <1>8 DEF ReadData, ReadReturnsData
  <1>9. ASSUME NEW w \in Workers, ReadEof(w)
        PROVE  ConnInv'
    BY <1>9 DEF ReadEof, tcpVars
  <1>10. ASSUME NEW w \in Workers, ReadFails(w) \/ WriteFails(w)
         PROVE  ConnInv'
    <2>1. CASE Dies(w, client[w]) /\ Serving(w) /\ Unreachable(client[w])
      BY <1>2, <2>1 DEF Dies, CutQueued
    <2>2. CASE /\ pc[w] = "read" /\ pc' = [pc EXCEPT ![w] = "close"]
               /\ UNCHANGED <<tcpVars, program, main, client, fresh, sigchld, handler>>
      BY <2>2 DEF tcpVars
    <2>3. QED
      BY <1>10, <2>1, <2>2, FailureKills
  <1>11. ASSUME NEW w \in Workers, Write(w)
         PROVE  ConnInv'
    BY <1>11 DEF Write
  <1>12. ASSUME NEW w \in Workers, Close(w)
         PROVE  ConnInv'
    BY <1>12 DEF Close
  <1>13. ASSUME NEW c \in Clients, ClientMove(c)
         PROVE  ConnInv'
    <2>1. UNCHANGED loopVars /\ UNCHANGED <<got, echoed>>
      BY <1>13, ClientStepEffect DEF ClientMove
    <2>2. \A d \in Clients : conn'[d] = "open" <=> conn[d] = "open"
      BY <1>13, ClientStepEffect DEF ClientMove
    <2>3. \A d \in Clients : Unreachable(d) => Unreachable(d)'
      BY <1>13, <2>1
         DEF ClientMove, loopVars, ClientStep, Connect, Send, Recv, Leave, Reset
    <2>4. QED
      BY <2>1, <2>2, <2>3 DEF loopVars
  <1>14. QED
    BY <1>3, <1>4, <1>5, <1>6, <1>7, <1>8, <1>9, <1>10, <1>11, <1>12, <1>13
       DEF Next, Parent, Worker

(* A client that has left sends nothing more, and only its own process,    *)
(* which is past writing, could change what it has been answered.          *)
LEMMA AnsweredStep ==
  ASSUME IInv, Next
  PROVE  AnsweredBeforeClose'
  <1> SUFFICES ASSUME NEW v \in Workers, pc'[v] = "close"
               PROVE  \/ peer'[client'[v]] = "rst"
                      \/ /\ peer'[client'[v]] = "fin"
                         /\ echoed'[client'[v]] = sent'[client'[v]]
    BY DEF AnsweredBeforeClose
  <1> DEFINE Same == pc[v] = "close" /\ client'[v] = client[v] /\ UNCHANGED <<peer, sent, echoed>>
  <1>1. Same => \/ peer'[client'[v]] = "rst"
                \/ peer'[client'[v]] = "fin" /\ echoed'[client'[v]] = sent'[client'[v]]
    BY DEF IInv, AnsweredBeforeClose
  <1>2. /\ pc \in [Workers -> {"unborn", "accept", "read", "write", "close", "zombie", "gone"}]
        /\ client \in [Workers -> Clients \union {NoClient}]
    BY DEF IInv, TypeOK
  <1>3. CASE Parent
    BY <1>1, <1>2, <1>3 DEF Parent, Fork, ForkFails, Reap, ReapAll, tcpVars
  <1>4. ASSUME NEW w \in Workers, Accept(w) \/ AcceptRejected(w) \/ ReadData(w) \/ Close(w)
        PROVE  Same
    BY <1>2, <1>4 DEF Accept, AcceptRejected, ReadData, Close, Go
  <1>5. ASSUME NEW w \in Workers, ReadEof(w)
        PROVE  \/ peer'[client'[v]] = "rst"
               \/ peer'[client'[v]] = "fin" /\ echoed'[client'[v]] = sent'[client'[v]]
    <2>1. CASE v # w
      BY <1>1, <1>2, <1>5, <2>1 DEF ReadEof, Go, tcpVars
    <2>2. CASE v = w
      <3>1. pc[w] = "read" /\ client' = client /\ UNCHANGED <<peer, sent, echoed>>
            /\ peer[client[w]] = "fin" /\ sent[client[w]] - got[client[w]] = 0
        BY <1>5 DEF ReadEof, Go, tcpVars, ReadReturnsEof, Unread
      <3>2. /\ client[w] \in Clients /\ conn[client[w]] = "open"
            /\ \A u \in Workers \ {w} : client[u] # client[w]
        BY <3>1, ServedIsOpen DEF Serving
      <3>3. got[client[w]] = echoed[client[w]]
        BY <3>1, <3>2 DEF IInv, NothingHeldBack
      <3>4. sent[client[w]] \in Int /\ got[client[w]] \in Int
        BY <3>2 DEF IInv, TcpInv, TcpTypeOK
      <3>5. QED
        BY <2>2, <3>1, <3>3, <3>4
    <2>3. QED
      BY <2>1, <2>2
  <1>6. ASSUME NEW w \in Workers, ReadFails(w) \/ WriteFails(w)
        PROVE  \/ peer'[client'[v]] = "rst"
               \/ peer'[client'[v]] = "fin" /\ echoed'[client'[v]] = sent'[client'[v]]
    <2>1. CASE Dies(w, client[w])
      BY <1>1, <1>2, <2>1 DEF Dies
    <2>2. CASE /\ pc' = [pc EXCEPT ![w] = "close"] /\ peer[client[w]] = "rst"
               /\ UNCHANGED <<tcpVars, client>>
      BY <1>1, <1>2, <2>2 DEF tcpVars
    <2>3. QED
      BY <1>6, <2>1, <2>2, FailureKills
  <1>7. ASSUME NEW w \in Workers, Write(w)
        PROVE  \/ peer'[client'[v]] = "rst"
               \/ peer'[client'[v]] = "fin" /\ echoed'[client'[v]] = sent'[client'[v]]
    <2>1. /\ v # w /\ pc[v] = "close" /\ pc[w] = "write" /\ client'[v] = client[v]
          /\ echoed' = [echoed EXCEPT ![client[w]] = got[client[w]]]
          /\ UNCHANGED <<peer, sent>>
      BY <1>2, <1>7 DEF Write, Go
    <2>2. client[v] \in Clients /\ client[v] # client[w]
      BY <2>1, ServedIsOpen DEF Serving
    <2>3. echoed'[client[v]] = echoed[client[v]]
      BY <2>1, <2>2 DEF IInv, TcpInv, TcpTypeOK
    <2>4. QED
      BY <2>1, <2>3 DEF IInv, AnsweredBeforeClose
  <1>8. ASSUME NEW c \in Clients, ClientMove(c)
        PROVE  \/ peer'[client'[v]] = "rst"
               \/ peer'[client'[v]] = "fin" /\ echoed'[client'[v]] = sent'[client'[v]]
    <2>1. pc[v] = "close" /\ client' = client /\ client[v] \in Clients
      BY <1>8, ServedIsOpen DEF ClientMove, loopVars, Serving
    <2>2. echoed' = echoed /\ (peer[client[v]] = "rst" => peer'[client[v]] = "rst")
      BY <1>8, <2>1, ClientStepEffect DEF ClientMove, IInv
    <2>3. peer[client[v]] = "fin" => sent'[client[v]] = sent[client[v]]
                                     /\ peer'[client[v]] \in {"fin", "rst"}
      BY <1>8, <2>1
         DEF ClientMove, ClientStep, Connect, Send, Recv, Leave, Reset, IInv, TcpInv, TcpTypeOK
    <2>4. QED
      BY <2>1, <2>2, <2>3 DEF IInv, AnsweredBeforeClose
  <1>9. QED
    BY <1>1, <1>3, <1>4, <1>5, <1>6, <1>7, <1>8 DEF Next, Worker

LEMMA StepInv == IInv /\ [Next]_vars => IInv'
  <1>1. ASSUME IInv, Next
        PROVE  IInv'
    BY <1>1, TcpStep, PoolStep, ConnStep, AnsweredStep DEF IInv, PoolInv, ConnInv
  <1>2. ASSUME IInv, UNCHANGED vars
        PROVE  IInv'
    <2>1. UNCHANGED tcpVars /\ UNCHANGED loopVars
      BY <1>2 DEF vars
    <2>2. TcpInv' /\ TypeOK'
      BY <1>2, <2>1, TcpUnchanged DEF IInv, TypeOK, loopVars, TcpInv
    <2>3. QED
      BY <1>2, <2>1, <2>2
         DEF IInv, tcpVars, loopVars, Roles, OneWorkerPerClient, NothingHeldBack, NoLostWorker,
             ListenerHeld, AnsweredBeforeClose, Serving, Alive, ParentAlive, Unreachable
  <1>3. QED
    BY <1>1, <1>2

(* IInv holds in every reachable state.                                    *)
THEOREM Invariance == Spec => []IInv
  BY InitInv, StepInv, PTL DEF Spec

(* Every variable keeps its type: no process writes back more than it has  *)
(* read, whatever its neighbours do.                                       *)
THEOREM TypeCorrect == Spec => []TypeOK
  BY Invariance, PTL DEF IInv

(* However many processes block in accept() on the one socket of           *)
(* preforking.c, every connection is in the hands of exactly one of them.  *)
THEOREM OneWorkerEach == Spec => []OneWorkerPerClient
  BY Invariance, PTL DEF IInv

(* SIGCHLD does not count, but its handler reaps in a loop: no process of  *)
(* the pool stays a zombie unnoticed.                                      *)
THEOREM NoWorkerForgotten == Spec => []NoLostWorker
  BY Invariance, PTL DEF IInv

(* The listening socket is open exactly as long as a process holds it.     *)
THEOREM ListenerKept == Spec => []ListenerHeld
  BY Invariance, PTL DEF IInv

(* No chunk stays in a process's buffer.                                   *)
THEOREM BufferDrained == Spec => []NothingHeldBack
  BY Invariance, PTL DEF IInv

----------------------------------------------------------------------------
(* The processes of the pool that are lost, and the clients that pay.      *)
Lost == Dead \ fresh
Paid == {c \in Clients : conn[c] = "closed" /\ peer[c] = "rst"}

(* A step that loses no process and takes back no payment.                 *)
LEMMA StillPaid ==
  ASSUME TypeOK, TypeOK', LossesPaid, program' = program, Lost' \subseteq Lost, Paid \subseteq Paid'
  PROVE  LossesPaid'
  <1>1. /\ IsFiniteSet(Lost) /\ IsFiniteSet(Paid')
        /\ Lost' \in SUBSET Lost /\ Paid \in SUBSET Paid'
    BY FS_Subset, AcceptLoopsAssumption, TcpAssumption DEF Lost, Paid, Dead
  <1>2. /\ Cardinality(Lost') <= Cardinality(Lost)
        /\ Cardinality(Paid) <= Cardinality(Paid')
        /\ Cardinality(Lost) \in Nat /\ Cardinality(Paid) \in Nat
        /\ Cardinality(Lost') \in Nat /\ Cardinality(Paid') \in Nat
    BY <1>1, FS_Subset, FS_CardinalityType
  <1>3. program = "preforking" => Cardinality(Lost) <= Cardinality(Paid)
    BY DEF LossesPaid, Lost, Paid
  <1>4. program' = "preforking" => Cardinality(Lost') <= Cardinality(Paid')
    BY <1>2, <1>3
  <1>5. QED
    BY <1>4 DEF LossesPaid, Lost, Paid

(* A step that loses one process and is paid for by a client of its own.   *)
LEMMA OneMorePaid ==
  ASSUME TypeOK, TypeOK', LossesPaid, program' = program,
         NEW w \in Workers, Lost' \subseteq Lost \union {w},
         NEW c \in Clients, c \notin Paid, Paid \union {c} \subseteq Paid'
  PROVE  LossesPaid'
  <1>1. /\ IsFiniteSet(Lost) /\ IsFiniteSet(Paid') /\ IsFiniteSet(Paid)
        /\ Lost' \in SUBSET (Lost \union {w}) /\ (Paid \union {c}) \in SUBSET Paid'
    BY FS_Subset, AcceptLoopsAssumption, TcpAssumption DEF Lost, Paid, Dead
  <1>2. /\ IsFiniteSet(Lost \union {w}) /\ IsFiniteSet(Paid \union {c})
        /\ Cardinality(Lost) \in Nat /\ Cardinality(Paid) \in Nat
        /\ Cardinality(Lost \union {w}) <= Cardinality(Lost) + 1
        /\ Cardinality(Paid \union {c}) = Cardinality(Paid) + 1
    BY <1>1, FS_AddElement, FS_CardinalityType
  <1>3. /\ Cardinality(Lost') <= Cardinality(Lost \union {w})
        /\ Cardinality(Paid \union {c}) <= Cardinality(Paid')
        /\ Cardinality(Lost') \in Nat /\ Cardinality(Paid') \in Nat
        /\ Cardinality(Lost \union {w}) \in Nat
    BY <1>1, <1>2, FS_Subset, FS_CardinalityType
  <1>4. program = "preforking" => Cardinality(Lost) <= Cardinality(Paid)
    BY DEF LossesPaid, Lost, Paid
  <1>5. program' = "preforking" => Cardinality(Lost') <= Cardinality(Paid')
    BY <1>2, <1>3, <1>4
  <1>6. QED
    BY <1>5 DEF LossesPaid, Lost, Paid

(* A reset client whose connection has ended does not come back.           *)
LEMMA ClientPaysOnce ==
  ASSUME IInv, NEW c \in Clients, ClientMove(c)
  PROVE  Paid \subseteq Paid'
  <1>1. ClientStep(c) /\ conn \in [Clients -> {"none", "queued", "open", "closed"}]
        /\ peer \in [Clients -> {"up", "fin", "rst"}]
    BY DEF ClientMove, IInv, TcpInv, TcpTypeOK
  <1>2. QED
    BY <1>1 DEF Paid, ClientStep, Connect, Send, Recv, Leave, Reset, Established

LEMMA LossesStep == IInv /\ LossesPaid /\ [Next]_vars => LossesPaid'
  <1> SUFFICES ASSUME IInv, LossesPaid, [Next]_vars PROVE LossesPaid'
    OBVIOUS
  <1>1. TypeOK /\ TypeOK'
    BY StepInv DEF IInv
  <1>2. /\ pc \in [Workers -> {"unborn", "accept", "read", "write", "close", "zombie", "gone"}]
        /\ conn \in [Clients -> {"none", "queued", "open", "closed"}]
    BY <1>1 DEF TypeOK, TcpTypeOK
  <1>3. CASE Parent
    <2>1. program' = program /\ Lost' \subseteq Lost /\ Paid \subseteq Paid'
      BY <1>2, <1>3
         DEF Parent, Fork, ForkFails, Reap, ReapAll, CutQueued, tcpVars, Lost, Paid, Dead
    <2>2. QED
      BY <1>1, <2>1, StillPaid
  <1>4. ASSUME NEW w \in Workers, Accept(w)
        PROVE  LossesPaid'
    <2>1. Head(queue) \in Clients /\ conn[Head(queue)] = "queued"
      BY <1>4, QueueTail DEF Accept, AcceptHead, IInv, TcpInv
    <2>2. program' = program /\ Paid \subseteq Paid'
      BY <1>2, <1>4, <2>1 DEF Accept, AcceptHead, Paid
    <2>3. Lost' \subseteq Lost
      BY <1>2, <1>4 DEF Accept, Go, Lost, Dead
    <2>4. QED
      BY <1>1, <2>2, <2>3, StillPaid
  <1>5. ASSUME NEW w \in Workers, AcceptRejected(w)
        PROVE  LossesPaid'
    <2>1. program' = program /\ Lost' \subseteq Lost /\ Paid \subseteq Paid'
      BY <1>2, <1>5 DEF AcceptRejected, CutQueued, Lost, Paid, Dead
    <2>2. QED
      BY <1>1, <2>1, StillPaid
  <1>6. ASSUME NEW w \in Workers, ReadData(w) \/ ReadEof(w) \/ Write(w)
        PROVE  LossesPaid'
    <2>1. program' = program /\ Lost' \subseteq Lost /\ Paid \subseteq Paid'
      BY <1>2, <1>6 DEF ReadData, ReadEof, Write, Go, tcpVars, Lost, Paid, Dead
    <2>2. QED
      BY <1>1, <2>1, StillPaid
  <1>7. ASSUME NEW w \in Workers, Close(w)
        PROVE  LossesPaid'
    <2>1. program' = program /\ Lost' \subseteq Lost /\ Paid \subseteq Paid'
      BY <1>2, <1>7 DEF Close, Go, Lost, Paid, Dead
    <2>2. QED
      BY <1>1, <2>1, StillPaid
  <1>8. ASSUME NEW w \in Workers, ReadFails(w) \/ WriteFails(w)
        PROVE  LossesPaid'
    <2>1. CASE Serving(w) /\ Unreachable(client[w]) /\ Dies(w, client[w])
      <3>1. client[w] \in Clients /\ conn[client[w]] = "open"
        BY <2>1, ServedIsOpen
      <3>2. program' = program /\ Lost' \subseteq Lost \union {w}
        BY <1>2, <2>1 DEF Dies, Lost, Dead
      <3>3. client[w] \notin Paid
        BY <3>1 DEF Paid
      <3>4. CASE program = "preforking"
        <4>1. Paid \union {client[w]} \subseteq Paid'
          BY <1>2, <2>1, <3>1, <3>4 DEF Dies, CutQueued, Paid, Unreachable
        <4>2. QED
          BY <1>1, <3>1, <3>2, <3>3, <4>1, OneMorePaid
      <3>5. QED
        BY <3>2, <3>4 DEF LossesPaid
    <2>2. CASE /\ pc[w] = "read" /\ pc' = [pc EXCEPT ![w] = "close"]
               /\ UNCHANGED <<tcpVars, program, main, client, fresh, sigchld, handler>>
      <3>1. program' = program /\ Lost' \subseteq Lost /\ Paid \subseteq Paid'
        BY <1>2, <2>2 DEF tcpVars, Lost, Paid, Dead
      <3>2. QED
        BY <1>1, <3>1, StillPaid
    <2>3. QED
      BY <1>8, <2>1, <2>2, FailureKills
  <1>9. ASSUME NEW c \in Clients, ClientMove(c)
        PROVE  LossesPaid'
    <2>1. program' = program /\ Lost' \subseteq Lost
      BY <1>9 DEF ClientMove, loopVars, Lost, Dead
    <2>2. QED
      BY <1>1, <1>9, <2>1, ClientPaysOnce, StillPaid
  <1>10. CASE UNCHANGED vars
    <2>1. program' = program /\ Lost' = Lost /\ Paid' = Paid
      BY <1>10 DEF vars, tcpVars, loopVars, Lost, Dead, Paid
    <2>2. QED
      BY <1>1, <2>1, StillPaid
  <1>11. QED
    BY <1>3, <1>4, <1>5, <1>6, <1>7, <1>8, <1>9, <1>10 DEF Next, Worker

(* The pool of preforking.c does not leak away: each of its processes that *)
(* died after its first accept() was paid for by a reset client, and no    *)
(* client pays for two.                                                    *)
THEOREM OneLossPerReset == Spec => []LossesPaid
  <1>1. Init => LossesPaid
    <2> SUFFICES ASSUME Init, program = "preforking"
                 PROVE  Cardinality(Lost) <= Cardinality(Paid)
      BY DEF LossesPaid, Lost, Paid
    <2>1. Lost = {} /\ IsFiniteSet(Paid)
      BY FS_Subset, TcpAssumption DEF Init, Lost, Dead, Paid
    <2>2. QED
      BY <2>1, FS_EmptySet, FS_CardinalityType
  <1>2. QED
    BY <1>1, LossesStep, Invariance, PTL DEF Spec

----------------------------------------------------------------------------
(* The three programs implement EchoService: the service runs as long as   *)
(* a process holds the listening socket.                                   *)
Running == ParentAlive \/ \E w \in Workers : Alive(w)

LEMMA RunningIsListening ==
  ASSUME IInv, IInv'
  PROVE  Running = listening /\ Running' = listening'
  <1>1. /\ listening \in BOOLEAN /\ (listening <=> Running)
        /\ listening' \in BOOLEAN /\ (listening' <=> Running')
    BY DEF IInv, TypeOK, TcpTypeOK, ListenerHeld, Running
  <1>2. QED
    BY <1>1 DEF Running

(* What is left of the connections when the last process is gone.          *)
LEMMA EndIsStop ==
  ASSUME IInv, IInv', NEW kept \in SUBSET Clients, \A c \in kept : conn[c] # "none",
         listening, ~listening',
         conn' = [c \in Clients |-> IF conn[c] = "none" \/ c \in kept THEN conn[c] ELSE "closed"],
         UNCHANGED <<peer, sent, echoed>>
  PROVE  Service!Stop
  <1>1. Running /\ ~Running' /\ Running' = FALSE
    BY RunningIsListening DEF Running
  <1>2. kept \in SUBSET {c \in Clients : conn[c] # "none"}
    OBVIOUS
  <1>3. QED
    BY <1>1, <1>2 DEF Service!Stop, Running

(* A process that dies hangs up on a reset client, or is the last one and  *)
(* stops the service.                                                      *)
LEMMA DeathRefines ==
  ASSUME IInv, IInv', NEW w \in Workers,
         Serving(w), Unreachable(client[w]), Dies(w, client[w])
  PROVE  Service!Next
  <1> DEFINE c == client[w]
             last == ~ParentAlive /\ \A v \in Workers \ {w} : ~Alive(v)
  <1>1. /\ c \in Clients /\ conn[c] = "open"
        /\ conn \in [Clients -> {"none", "queued", "open", "closed"}]
        /\ listening
    BY ServedIsOpen DEF IInv, TcpInv, TcpTypeOK, ListenerHeld, Alive
  <1>2. /\ conn' = [d \in Clients |-> IF d = c THEN "closed" ELSE CutQueued(last, d)]
        /\ UNCHANGED <<peer, sent, echoed>>
    BY DEF Dies
  <1>3. CASE last
    <2> DEFINE kept == {d \in Clients : conn[d] \in {"open", "closed"} /\ d # c}
    <2>1. conn' = [d \in Clients |-> IF conn[d] = "none" \/ d \in kept THEN conn[d] ELSE "closed"]
      BY <1>1, <1>2, <1>3 DEF CutQueued
    <2>2. ~listening'
      BY <1>3 DEF Dies, ListenerGoes
    <2>3. kept \in SUBSET Clients /\ \A d \in kept : conn[d] # "none"
      OBVIOUS
    <2>4. Service!Stop
      BY <1>1, <1>2, <2>1, <2>2, <2>3, EndIsStop
    <2>5. QED
      BY <2>4 DEF Service!Next
  <1>4. CASE ~last
    <2>1. conn' = [conn EXCEPT ![c] = "closed"]
      BY <1>1, <1>2, <1>4 DEF CutQueued
    <2>2. listening' = listening
      BY <1>4 DEF Dies, ListenerGoes
    <2>3. Running' = Running
      BY <2>2, RunningIsListening
    <2>4. program = "preforking"
      <3>1. main \in {"none", "fork", "pause", "exited"}
            /\ (program # "preforking" => main = "none"
                   /\ \A v \in Workers : pc[v] # "unborn" => v = Solo)
        BY DEF IInv, TypeOK, Roles
      <3>2. QED
        BY <1>4, <3>1 DEF ParentAlive, Alive, Serving
    <2>5. peer[c] = "rst"
      BY <2>4 DEF Unreachable
    <2>6. Service!HangUp(c)
      BY <1>1, <1>2, <2>1, <2>3, <2>5 DEF Service!HangUp, Service!Finished, Running
    <2>7. QED
      BY <1>1, <2>6 DEF Service!Next
  <1>5. QED
    BY <1>3, <1>4

LEMMA StepRefines == IInv /\ IInv' /\ [Next]_vars => [Service!Next]_(Service!echoVars)
  <1> SUFFICES ASSUME IInv, IInv', [Next]_vars
               PROVE  Service!Next \/ UNCHANGED Service!echoVars
    OBVIOUS
  <1>1. ASSUME listening' = listening, UNCHANGED <<conn, peer, sent, echoed>>
        PROVE  UNCHANGED Service!echoVars
    <2>1. Running' = Running
      BY <1>1, RunningIsListening
    <2>2. QED
      BY <1>1, <2>1 DEF Service!echoVars, Running
  <1>2. conn \in [Clients -> {"none", "queued", "open", "closed"}]
    BY DEF IInv, TcpInv, TcpTypeOK
  <1>3. CASE ForkFails
    <2> DEFINE last == \A w \in Workers : ~Alive(w)
               kept == {d \in Clients : conn[d] \in {"open", "closed"}}
    <2>1. CASE last
      <3>1. conn' = [d \in Clients |->
                       IF conn[d] = "none" \/ d \in kept THEN conn[d] ELSE "closed"]
        BY <1>2, <1>3, <2>1 DEF ForkFails, CutQueued
      <3>2. listening /\ ~listening' /\ UNCHANGED <<peer, sent, echoed>>
        BY <1>3, <2>1 DEF ForkFails, ListenerGoes, IInv, ListenerHeld, ParentAlive
      <3>3. kept \in SUBSET Clients /\ \A d \in kept : conn[d] # "none"
        OBVIOUS
      <3>4. Service!Stop
        BY <3>1, <3>2, <3>3, EndIsStop
      <3>5. QED
        BY <3>4 DEF Service!Next
    <2>2. CASE ~last
      <3>1. UNCHANGED <<listening, conn, peer, sent, echoed>>
        BY <1>2, <1>3, <2>2 DEF ForkFails, ListenerGoes, CutQueued
      <3>2. QED
        BY <1>1, <3>1
    <2>3. QED
      BY <2>1, <2>2
  <1>4. CASE Parent
    BY <1>1, <1>3, <1>4 DEF Parent, Fork, Reap, tcpVars
  <1>5. ASSUME NEW w \in Workers, ReadData(w) \/ ReadEof(w)
        PROVE  UNCHANGED Service!echoVars
    BY <1>1, <1>5 DEF ReadData, ReadEof, tcpVars
  <1>6. ASSUME NEW w \in Workers, ReadFails(w) \/ WriteFails(w)
        PROVE  Service!Next \/ UNCHANGED Service!echoVars
    BY <1>1, <1>6, FailureKills, DeathRefines DEF tcpVars
  <1>7. ASSUME NEW w \in Workers, Accept(w) \/ AcceptRejected(w)
        PROVE  /\ queue # <<>> /\ Head(queue) \in Clients /\ conn[Head(queue)] = "queued"
               /\ Running /\ listening
    BY <1>7, QueueTail
       DEF Accept, AcceptHead, AcceptRejected, Go, IInv, TcpInv, ListenerHeld, Running, Alive
  <1>8. ASSUME NEW w \in Workers, Accept(w)
        PROVE  Service!Next
    <2>1. Running' = Running
      BY <1>8, RunningIsListening DEF Accept
    <2>2. Service!TakeOver(Head(queue))
      BY <1>7, <1>8, <2>1 DEF Accept, AcceptHead, Service!TakeOver, Running
    <2>3. QED
      BY <1>7, <1>8, <2>2 DEF Service!Next
  <1>9. ASSUME NEW w \in Workers, AcceptRejected(w)
        PROVE  Service!Next
    <2> DEFINE last == ~ParentAlive /\ \A v \in Workers \ {w} : ~Alive(v)
               c == Head(queue)
               kept == {d \in Clients : conn[d] \in {"open", "closed"}}
    <2>1. /\ listening' = (listening /\ ~last) /\ MayReject
          /\ conn' = [d \in Clients |-> IF d = c THEN "closed" ELSE CutQueued(last, d)]
          /\ UNCHANGED <<peer, sent, echoed>>
          /\ c \in Clients /\ conn[c] = "queued" /\ Running /\ listening
      BY <1>7, <1>9 DEF AcceptRejected
    <2>2. CASE last
      <3>1. conn' = [d \in Clients |->
                       IF conn[d] = "none" \/ d \in kept THEN conn[d] ELSE "closed"]
        BY <1>2, <2>1, <2>2 DEF CutQueued
      <3>2. kept \in SUBSET Clients /\ \A d \in kept : conn[d] # "none"
        OBVIOUS
      <3>3. ~listening'
        BY <2>1, <2>2
      <3>4. Service!Stop
        BY <2>1, <3>1, <3>2, <3>3, EndIsStop
      <3>5. QED
        BY <3>4 DEF Service!Next
    <2>3. CASE ~last
      <3>1. conn' = [conn EXCEPT ![c] = "closed"]
        BY <1>2, <2>1, <2>3 DEF CutQueued
      <3>2. listening' = listening
        BY <2>1, <2>3 DEF IInv, TcpInv, TcpTypeOK
      <3>3. Running' = Running
        BY <3>2, RunningIsListening
      <3>4. c \in Clients /\ conn[c] = "queued"
        BY <2>1
      <3>5. conn' = [d \in Clients |-> IF d \in {c} THEN "closed" ELSE conn[d]]
        BY <3>1, <3>4 DEF IInv, TcpInv, TcpTypeOK
      <3>6. Service!Refuse
        BY <2>1, <3>3, <3>4, <3>5 DEF Service!Refuse, Running
      <3>7. QED
        BY <3>6 DEF Service!Next
    <2>4. QED
      BY <2>2, <2>3
  <1>10. ASSUME NEW w \in Workers, Write(w)
         PROVE  Service!Next \/ UNCHANGED Service!echoVars
    <2> DEFINE c == client[w]
    <2>1. /\ c \in Clients /\ conn[c] = "open"
          /\ echoed' = [echoed EXCEPT ![c] = got[c]]
          /\ UNCHANGED <<listening, conn, peer, sent>>
      BY <1>10, ServedIsOpen DEF Write, Go, Serving
    <2>2. /\ echoed[c] \in Int /\ got[c] \in Int /\ sent[c] \in Int
          /\ echoed[c] <= got[c] /\ got[c] <= sent[c]
      BY <2>1 DEF IInv, TcpInv, TcpTypeOK, CountsOrdered
    <2>3. CASE got[c] = echoed[c]
      BY <1>1, <2>1, <2>3 DEF IInv, TcpInv, TcpTypeOK
    <2>4. CASE got[c] # echoed[c]
      <3>1. got[c] \in echoed[c] + 1 .. sent[c]
        BY <2>2, <2>4
      <3>2. Running' = Running
        BY <2>1, RunningIsListening
      <3>3. Service!Echo(c)
        BY <2>1, <3>1, <3>2 DEF Service!Echo, Running
      <3>4. QED
        BY <2>1, <3>3 DEF Service!Next
    <2>5. QED
      BY <2>3, <2>4
  <1>11. ASSUME NEW w \in Workers, Close(w)
         PROVE  Service!Next
    <2>1. client[w] \in Clients /\ conn[client[w]] = "open" /\ Service!Finished(client[w])
      BY <1>11, ServedIsOpen
         DEF Close, Go, Serving, IInv, AnsweredBeforeClose, Service!Finished
    <2>2. Running' = Running
      BY <1>11, RunningIsListening DEF Close
    <2>3. Service!HangUp(client[w])
      BY <1>11, <2>1, <2>2 DEF Close, Service!HangUp, Running
    <2>4. QED
      BY <2>1, <2>3 DEF Service!Next
  <1>12. ASSUME NEW c \in Clients, ClientMove(c)
         PROVE  Service!Next \/ UNCHANGED Service!echoVars
    <2>1. ClientStep(c) /\ Running' = Running
      BY <1>12, RunningIsListening, ClientStepEffect DEF ClientMove, IInv
    <2>2. CASE Connect(c)
      BY <2>1, <2>2 DEF Connect, Service!Next, Service!Request, Running
    <2>3. CASE Send(c)
      BY <2>1, <2>3 DEF Send, Established, Service!Next, Service!Say, Running
    <2>4. CASE Recv(c)
      BY <1>1, <2>4 DEF Recv
    <2>5. CASE Leave(c)
      BY <2>1, <2>5 DEF Leave, Established, Service!Next, Service!Go, Running
    <2>6. CASE Reset(c)
      BY <2>1, <2>6 DEF Reset, Established, Service!Next, Service!Go, Running
    <2>7. QED
      BY <2>1, <2>2, <2>3, <2>4, <2>5, <2>6 DEF ClientStep
  <1>13. CASE UNCHANGED vars
    BY <1>1, <1>13 DEF vars, tcpVars
  <1>14. QED
    BY <1>4, <1>5, <1>6, <1>8, <1>9, <1>10, <1>11, <1>12, <1>13 DEF Next, Worker

(* Every behaviour of the three programs is one EchoService allows: they   *)
(* hang up only on a client that is answered or gone, a waiting one is     *)
(* dropped only by an accept() given a negative addrlen, and the death of  *)
(* the parent or of any process but the last ends no service.              *)
THEOREM KeepsPromise == Spec => Promise
  <1>1. Init => Service!Init
    <2> SUFFICES ASSUME Init PROVE Service!Init
      OBVIOUS
    <2>1. Running = TRUE
      BY AcceptLoopsAssumption DEF Init, Running, ParentAlive, Alive
    <2>2. QED
      BY <2>1 DEF Init, TcpInit, Service!Init, Running
  <1>2. QED
    BY <1>1, Invariance, StepInv, StepRefines, PTL DEF Spec, Promise, Service!Spec
=============================================================================
