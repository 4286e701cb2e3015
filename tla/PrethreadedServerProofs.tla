----------------------- MODULE PrethreadedServerProofs -----------------------
(***************************************************************************)
(* Proofs about PrethreadedServer, for any number of workers and clients:  *)
(* accept() is called under mutual exclusion, every connection is served   *)
(* by exactly one worker, and the pool implements EchoService.             *)
(***************************************************************************)
EXTENDS PrethreadedServer, TcpProofs

(* The parts of IInv about the threads alone: the mutex, and which worker   *)
(* has a client.                                                            *)
PoolInv == TypeOK /\ AcceptAlone /\ ClientWhileServing

LEMMA InitInv == Init => IInv
  <1> SUFFICES ASSUME Init PROVE IInv
    OBVIOUS
  <1>1. TcpInv
    BY TcpInitInv DEF Init
  <1>2. TypeOK /\ AcceptAlone /\ ClientWhileServing
    BY <1>1, PoolAssumption
       DEF Init, TypeOK, TcpInv, AcceptAlone, Accepting, ClientWhileServing, Serving, Idle
  <1>3. (main = "join" => listening) /\ OneWorkerPerClient /\ NothingHeldBack
        /\ AnsweredBeforeClose
    BY DEF Init, TcpInit, OneWorkerPerClient, NothingHeldBack, AnsweredBeforeClose
  <1>4. QED
    BY <1>1, <1>2, <1>3 DEF IInv

(* Where the kernel's part of each step leaves the environment's invariant. *)
LEMMA TcpStep ==
  ASSUME IInv, Next
  PROVE  TcpInv'
  <1> USE DEF IInv
  <1>1. ASSUME NEW w \in Workers, Lock(w) \/ Unlock(w) \/ ReadEof(w) \/ HandlingFails(w)
        PROVE  TcpInv'
    BY <1>1, TcpUnchanged DEF Lock, Unlock, ReadEof, HandlingFails
  <1>2. ASSUME NEW w \in Workers, Accept(w)
        PROVE  TcpInv'
    BY <1>2, AcceptInv DEF Accept
  <1>3. ASSUME NEW w \in Workers, AcceptRejected(w)
        PROVE  TcpInv'
    <2>1. "closed" \in {"open", "closed"}
      OBVIOUS
    <2>2. QED
      BY <1>3, <2>1, DequeueInv DEF AcceptRejected
  <1>4. ASSUME NEW w \in Workers, pc[w] \in {"read", "write", "close"}, main = "join"
        PROVE  client[w] \in Clients /\ conn[client[w]] = "open"
    BY <1>4, PoolAssumption DEF ClientWhileServing, Serving, OneWorkerPerClient
  <1>5. ASSUME NEW w \in Workers, ReadData(w)
        PROVE  TcpInv'
    <2>1. client[w] \in Clients /\ conn[client[w]] = "open"
      BY <1>4, <1>5 DEF ReadData, Go
    <2>2. QED
      BY <1>5, <2>1, ReadInv DEF ReadData
  <1>6. ASSUME NEW w \in Workers, Write(w)
        PROVE  TcpInv'
    <2>1. client[w] \in Clients /\ conn[client[w]] = "open"
      BY <1>4, <1>6 DEF Write, Go
    <2>2. QED
      BY <1>6, <2>1, WriteInv DEF Write
  <1>7. ASSUME NEW w \in Workers, Close(w)
        PROVE  TcpInv'
    <2>1. client[w] \in Clients /\ conn[client[w]] = "open"
      BY <1>4, <1>7 DEF Close, Go
    <2>2. QED
      BY <1>7, <2>1, CloseInv DEF Close
  <1>8. CASE Killed \/ MainReturns
    BY <1>8, ExitInv DEF Killed, MainReturns
  <1>9. ASSUME NEW c \in Clients, ClientMove(c)
        PROVE  TcpInv'
    BY <1>9, ClientStepInv DEF ClientMove
  <1>10. QED
    BY <1>1, <1>2, <1>3, <1>5, <1>6, <1>7, <1>8, <1>9 DEF Next, Worker

(* The mutex and the workers' clients.                                      *)
LEMMA PoolStep ==
  ASSUME IInv, Next
  PROVE  PoolInv'
  <1>1. TcpTypeOK'
    BY TcpStep DEF TcpInv
  <1>2. Head(queue) \in Clients \/ queue = <<>>
    BY QueueTail DEF IInv, TcpInv
  <1> USE <1>1, PoolAssumption
      DEF PoolInv, IInv, TypeOK, AcceptAlone, ClientWhileServing, Accepting, Serving, Idle, Go
  <1>3. ASSUME NEW w \in Workers, Lock(w)
        PROVE  PoolInv'
    BY <1>3 DEF Lock
  <1>4. ASSUME NEW w \in Workers, Accept(w)
        PROVE  PoolInv'
    BY <1>2, <1>4 DEF Accept, AcceptHead
  <1>5. ASSUME NEW w \in Workers, AcceptRejected(w)
        PROVE  PoolInv'
    BY <1>5 DEF AcceptRejected
  <1>6. ASSUME NEW w \in Workers, Unlock(w)
        PROVE  PoolInv'
    BY <1>6 DEF Unlock
  <1>7. ASSUME NEW w \in Workers, ReadData(w) \/ ReadEof(w) \/ Write(w)
        PROVE  PoolInv'
    BY <1>7 DEF ReadData, ReadEof, Write
  <1>8. ASSUME NEW w \in Workers, HandlingFails(w)
        PROVE  PoolInv'
    BY <1>8 DEF HandlingFails
  <1>9. ASSUME NEW w \in Workers, Close(w)
        PROVE  PoolInv'
    BY <1>9 DEF Close
  <1>10. CASE Killed \/ MainReturns
    BY <1>10 DEF Killed, MainReturns
  <1>11. ASSUME NEW c \in Clients, ClientMove(c)
         PROVE  PoolInv'
    BY <1>11 DEF ClientMove, poolVars
  <1>12. QED
    BY <1>3, <1>4, <1>5, <1>6, <1>7, <1>8, <1>9, <1>10, <1>11 DEF Next, Worker

(* The exit of the process closes the listening socket.                     *)
LEMMA ListeningStep ==
  ASSUME IInv, Next
  PROVE  main' = "join" => listening' = TRUE
  <1>1. ASSUME NEW w \in Workers, Worker(w)
        PROVE  main' = main /\ listening' = listening
    BY <1>1 DEF Worker, Lock, Accept, AcceptRejected, Unlock, ReadData, ReadEof, Write,
                HandlingFails, Close, tcpVars
  <1>2. CASE Killed \/ MainReturns
    BY <1>2 DEF Killed, MainReturns
  <1>3. ASSUME NEW c \in Clients, ClientMove(c)
        PROVE  main' = main /\ listening' = listening
    BY <1>3, ClientStepEffect DEF ClientMove, poolVars, IInv
  <1>4. QED
    BY <1>1, <1>2, <1>3 DEF Next, IInv, TypeOK, TcpTypeOK

(* The connections: whose they are and what is owed on them.                *)
ConnInv == OneWorkerPerClient /\ NothingHeldBack

LEMMA ConnStep ==
  ASSUME IInv, Next
  PROVE  ConnInv'
  <1> USE PoolAssumption
      DEF ConnInv, IInv, TypeOK, TcpInv, TcpTypeOK, OneWorkerPerClient, NothingHeldBack,
          ClientWhileServing, Serving, Idle, Go
  <1>1. queue # <<>> => /\ Head(queue) \in Clients
                        /\ conn[Head(queue)] = "queued"
                        /\ got[Head(queue)] = echoed[Head(queue)]
    BY QueueTail DEF UntouchedUntilAccepted
  <1>2. ASSUME NEW w \in Workers, Lock(w)
        PROVE  ConnInv'
    BY <1>2 DEF Lock, tcpVars
  <1>3. ASSUME NEW w \in Workers, Accept(w)
        PROVE  ConnInv'
    BY <1>1, <1>3 DEF Accept, AcceptHead
  <1>4. ASSUME NEW w \in Workers, AcceptRejected(w)
        PROVE  ConnInv'
    BY <1>1, <1>4 DEF AcceptRejected
  <1>5. ASSUME NEW w \in Workers, Unlock(w)
        PROVE  ConnInv'
    BY <1>5 DEF Unlock, tcpVars
  <1>6. ASSUME NEW w \in Workers, ReadData(w)
        PROVE  ConnInv'
    BY <1>6 DEF ReadData, ReadReturnsData
  <1>7. ASSUME NEW w \in Workers, ReadEof(w)
        PROVE  ConnInv'
    BY <1>7 DEF ReadEof, tcpVars
  <1>8. ASSUME NEW w \in Workers, Write(w)
        PROVE  ConnInv'
    BY <1>8 DEF Write
  <1>9. ASSUME NEW w \in Workers, HandlingFails(w)
        PROVE  ConnInv'
    BY <1>9 DEF HandlingFails, ReadReturnsError, tcpVars
  <1>10. ASSUME NEW w \in Workers, Close(w)
         PROVE  ConnInv'
    BY <1>10 DEF Close
  <1>11. CASE Killed \/ MainReturns
    BY <1>11 DEF Killed, MainReturns
  <1>12. ASSUME NEW c \in Clients, ClientMove(c)
         PROVE  ConnInv'
    BY <1>12, ClientStepEffect DEF ClientMove, poolVars
  <1>13. QED
    BY <1>2, <1>3, <1>4, <1>5, <1>6, <1>7, <1>8, <1>9, <1>10, <1>11, <1>12 DEF Next, Worker

(* A client that has left sends nothing more, and only its own worker, which *)
(* is past writing, could change what it has been answered.                  *)
LEMMA AnsweredStep ==
  ASSUME IInv, Next
  PROVE  AnsweredBeforeClose'
  <1> SUFFICES ASSUME main' = "join", NEW v \in Workers, pc'[v] = "close"
               PROVE  \/ peer'[client'[v]] = "rst"
                      \/ /\ peer'[client'[v]] = "fin"
                         /\ echoed'[client'[v]] = sent'[client'[v]]
    BY DEF AnsweredBeforeClose
  <1> USE PoolAssumption
      DEF IInv, TypeOK, TcpInv, TcpTypeOK, AnsweredBeforeClose, Go
  <1>1. ASSUME NEW w \in Workers, Lock(w) \/ Unlock(w) \/ HandlingFails(w)
        PROVE  main = "join" /\ pc[v] = "close" /\ client'[v] = client[v] /\ UNCHANGED tcpVars
    BY <1>1 DEF Lock, Unlock, HandlingFails, tcpVars
  <1>2. ASSUME NEW w \in Workers, Accept(w) \/ AcceptRejected(w)
        PROVE  /\ main = "join" /\ pc[v] = "close" /\ client'[v] = client[v]
               /\ UNCHANGED <<peer, sent, echoed>>
    BY <1>2 DEF Accept, AcceptRejected
  <1>3. ASSUME NEW w \in Workers, ReadData(w)
        PROVE  /\ main = "join" /\ pc[v] = "close" /\ client'[v] = client[v]
               /\ UNCHANGED <<peer, sent, echoed>>
    BY <1>3 DEF ReadData
  <1>4. ASSUME NEW w \in Workers, ReadEof(w)
        PROVE  \/ peer'[client'[v]] = "rst"
               \/ peer'[client'[v]] = "fin" /\ echoed'[client'[v]] = sent'[client'[v]]
    <2>1. CASE v # w
      BY <1>4, <2>1 DEF ReadEof, tcpVars
    <2>2. CASE v = w
      <3>1. client[w] \in Clients /\ conn[client[w]] = "open" /\ pc[w] = "read"
        BY <1>4 DEF ReadEof, ClientWhileServing, Serving, OneWorkerPerClient
      <3>2. \A u \in Workers : client[u] = client[w] => u = w
        BY <1>4, <3>1 DEF ReadEof, OneWorkerPerClient
      <3>3. peer[client[w]] = "rst" \/ got[client[w]] = echoed[client[w]]
        BY <1>4, <3>1, <3>2 DEF ReadEof, NothingHeldBack
      <3>4. got[client[w]] = sent[client[w]] /\ peer[client[w]] = "fin"
        BY <1>4, <3>1 DEF ReadEof, ReadReturnsEof, Unread
      <3>5. QED
        BY <1>4, <2>2, <3>3, <3>4 DEF ReadEof, tcpVars
    <2>3. QED
      BY <2>1, <2>2
  <1>5. ASSUME NEW w \in Workers, Write(w)
        PROVE  \/ peer'[client'[v]] = "rst"
               \/ peer'[client'[v]] = "fin" /\ echoed'[client'[v]] = sent'[client'[v]]
    <2>1. v # w /\ pc[v] = "close" /\ pc[w] = "write"
      BY <1>5 DEF Write
    <2>2. client[v] \in Clients /\ client[w] \in Clients /\ client[v] # client[w]
      BY <1>5, <2>1 DEF Write, ClientWhileServing, Serving, OneWorkerPerClient
    <2>3. QED
      BY <1>5, <2>1, <2>2 DEF Write
  <1>6. ASSUME NEW w \in Workers, Close(w)
        PROVE  /\ main = "join" /\ pc[v] = "close" /\ client'[v] = client[v]
               /\ UNCHANGED <<peer, sent, echoed>>
    BY <1>6 DEF Close
  <1>7. CASE Killed \/ MainReturns
    BY <1>7 DEF Killed, MainReturns
  <1>8. ASSUME NEW c \in Clients, ClientMove(c)
        PROVE  \/ peer'[client'[v]] = "rst"
               \/ peer'[client'[v]] = "fin" /\ echoed'[client'[v]] = sent'[client'[v]]
    <2>1. client[v] \in Clients /\ pc[v] = "close" /\ main = "join"
      BY <1>8 DEF ClientMove, poolVars, ClientWhileServing, Serving
    <2>2. echoed' = echoed /\ (peer[client[v]] = "rst" => peer'[client[v]] = "rst")
      BY <1>8, <2>1, ClientStepEffect DEF ClientMove
    <2>3. CASE peer[client[v]] = "fin"
      BY <1>8, <2>1, <2>2, <2>3
         DEF ClientMove, poolVars, ClientStep, Connect, Send, Recv, Leave, Reset
    <2>4. QED
      BY <1>8, <2>1, <2>2, <2>3 DEF ClientMove, poolVars
  <1>9. QED
    BY <1>1, <1>2, <1>3, <1>4, <1>5, <1>6, <1>7, <1>8 DEF Next, Worker, tcpVars

LEMMA StepInv == IInv /\ [Next]_vars => IInv'
  <1>1. ASSUME IInv, Next
        PROVE  IInv'
    BY <1>1, TcpStep, PoolStep, ListeningStep, ConnStep, AnsweredStep
       DEF IInv, PoolInv, ConnInv
  <1>2. ASSUME IInv, UNCHANGED vars
        PROVE  IInv'
    BY <1>2 DEF IInv, vars, tcpVars, poolVars, TypeOK, TcpInv, TcpTypeOK, CountsOrdered,
                QueueOK, UntouchedUntilAccepted, AcceptAlone, Accepting, ClientWhileServing,
                Serving, Idle, OneWorkerPerClient, NothingHeldBack, AnsweredBeforeClose
  <1>3. QED
    BY <1>1, <1>2

(* IInv holds in every reachable state.                                      *)
THEOREM Invariance == Spec => []IInv
  BY InitInv, StepInv, PTL DEF Spec

(* Every variable keeps its type: in particular the counters of chunks stay  *)
(* within what the client has sent, so no worker writes what it has not read.*)
THEOREM TypeCorrect == Spec => []TypeOK
  BY Invariance, PTL DEF IInv

(* The mutex of prethreaded.c keeps accept() exclusive, whatever the number  *)
(* of workers and even after one has died with the mutex locked.             *)
THEOREM MutualExclusion == Spec => []AcceptAlone
  BY Invariance, PTL DEF IInv

(* Every accepted connection is in the hands of exactly one worker.          *)
THEOREM OneWorkerEach == Spec => []OneWorkerPerClient
  BY Invariance, PTL DEF IInv

(* No chunk stays in a worker's buffer.                                      *)
THEOREM BufferDrained == Spec => []NothingHeldBack
  BY Invariance, PTL DEF IInv

----------------------------------------------------------------------------
(* The pool implements EchoService, a rejected accept() being a refusal.     *)

LEMMA StepRefines == IInv /\ [Next]_vars => [Service!Next]_(Service!echoVars)
  <1> SUFFICES ASSUME IInv, [Next]_vars
               PROVE  Service!Next \/ UNCHANGED Service!echoVars
    OBVIOUS
  <1>1. ASSUME NEW w \in Workers,
               Lock(w) \/ Unlock(w) \/ ReadData(w) \/ ReadEof(w) \/ HandlingFails(w)
        PROVE  UNCHANGED Service!echoVars
    BY <1>1 DEF Lock, Unlock, ReadData, ReadEof, HandlingFails, tcpVars, Service!echoVars
  <1>2. ASSUME NEW w \in Workers, Accept(w)
        PROVE  Service!Next
    <2>1. queue # <<>> /\ Head(queue) \in Clients /\ conn[Head(queue)] = "queued" /\ listening
      BY <1>2, QueueTail DEF Accept, AcceptHead, Go, IInv, TcpInv
    <2>2. Service!TakeOver(Head(queue))
      BY <1>2, <2>1 DEF Accept, AcceptHead, Service!TakeOver
    <2>3. QED
      BY <2>1, <2>2 DEF Service!Next
  <1>3. ASSUME NEW w \in Workers, Write(w)
        PROVE  Service!Next \/ UNCHANGED Service!echoVars
    <2> DEFINE c == client[w]
    <2>1. c \in Clients /\ conn[c] = "open"
      BY <1>3, PoolAssumption
         DEF Write, Go, IInv, ClientWhileServing, Serving, OneWorkerPerClient
    <2>2. echoed[c] \in Int /\ got[c] \in Int /\ sent[c] \in Int
          /\ echoed[c] <= got[c] /\ got[c] <= sent[c]
      BY <2>1 DEF IInv, TcpInv, TcpTypeOK, CountsOrdered
    <2>3. CASE got[c] = echoed[c]
      BY <1>3, <2>1, <2>3 DEF Write, Service!echoVars, IInv, TcpInv, TcpTypeOK
    <2>4. CASE got[c] # echoed[c]
      <3>1. got[c] \in echoed[c] + 1 .. sent[c]
        BY <2>2, <2>4
      <3>2. Service!Echo(c)
        BY <1>3, <2>1, <3>1 DEF Write, Service!Echo
      <3>3. QED
        BY <2>1, <3>2 DEF Service!Next
    <2>5. QED
      BY <2>3, <2>4
  <1>4. ASSUME NEW w \in Workers, Close(w)
        PROVE  Service!Next
    <2>1. client[w] \in Clients /\ conn[client[w]] = "open"
      BY <1>4, PoolAssumption
         DEF Close, Go, IInv, ClientWhileServing, Serving, OneWorkerPerClient
    <2>2. Service!Finished(client[w])
      BY <1>4 DEF Close, Go, IInv, AnsweredBeforeClose, Service!Finished
    <2>3. Service!HangUp(client[w])
      BY <1>4, <2>1, <2>2 DEF Close, Service!HangUp
    <2>4. QED
      BY <2>1, <2>3 DEF Service!Next
  <1>5. CASE Killed \/ MainReturns
    <2>1. listening /\ listening' = FALSE /\ conn' = ClosedByExit
          /\ UNCHANGED <<peer, sent, echoed>>
      BY <1>5 DEF Killed, MainReturns, ProcessExit, IInv
    <2>2. ClosedByExit = [c \in Clients |->
                             IF conn[c] = "none" \/ c \in {} THEN conn[c] ELSE "closed"]
      BY DEF ClosedByExit, Established, IInv, TcpInv, TcpTypeOK
    <2>3. Service!Stop
      <3>1. conn' = [c \in Clients |->
                        IF conn[c] = "none" \/ c \in {} THEN conn[c] ELSE "closed"]
        BY <2>1, <2>2
      <3>2. {} \in SUBSET {c \in Clients : conn[c] # "none"}
        OBVIOUS
      <3>3. QED
        BY <2>1, <3>1, <3>2 DEF Service!Stop
    <2>4. QED
      BY <2>3 DEF Service!Next
  <1>6. ASSUME NEW c \in Clients, ClientMove(c)
        PROVE  Service!Next \/ UNCHANGED Service!echoVars
    <2>1. CASE Connect(c)
      BY <2>1 DEF Connect, Service!Next, Service!Request
    <2>2. CASE Send(c)
      BY <2>2 DEF Send, Established, Service!Next, Service!Say
    <2>3. CASE Recv(c)
      BY <2>3 DEF Recv, Service!echoVars
    <2>4. CASE Leave(c)
      BY <2>4 DEF Leave, Established, Service!Next, Service!Go
    <2>5. CASE Reset(c)
      BY <2>5 DEF Reset, Established, Service!Next, Service!Go
    <2>6. QED
      BY <1>6, <2>1, <2>2, <2>3, <2>4, <2>5 DEF ClientMove, ClientStep
  <1>7. CASE UNCHANGED vars
    BY <1>7 DEF vars, tcpVars, Service!echoVars
  <1>8. ASSUME NEW w \in Workers, AcceptRejected(w)
        PROVE  Service!Next
    <2>1. queue # <<>> /\ Head(queue) \in Clients /\ conn[Head(queue)] = "queued" /\ listening
      BY <1>8, QueueTail DEF AcceptRejected, Go, IInv, TcpInv
    <2>2. conn' = [d \in Clients |-> IF d \in {Head(queue)} THEN "closed" ELSE conn[d]]
      BY <1>8, <2>1 DEF AcceptRejected, IInv, TcpInv, TcpTypeOK
    <2>3. Service!Refuse
      BY <1>8, <2>1, <2>2 DEF AcceptRejected, Service!Refuse
    <2>4. QED
      BY <2>3 DEF Service!Next
  <1>9. QED
    BY <1>1, <1>2, <1>3, <1>4, <1>5, <1>6, <1>7, <1>8 DEF Next, Worker

(* Every behaviour of prethreaded.c is one EchoService allows; a waiting      *)
(* connection is dropped only by an accept() given an uninitialized addrlen.  *)
THEOREM KeepsPromise == Spec => Promise
  <1>1. Init => Service!Init
    BY DEF Init, TcpInit, Service!Init
  <1>2. QED
    BY <1>1, Invariance, StepRefines, PTL DEF Spec, Promise, Service!Spec
=============================================================================
