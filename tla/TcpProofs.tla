------------------------------ MODULE TcpProofs ------------------------------
(***************************************************************************)
(* Lemmas about the environment of the servers: what the moves of a client *)
(* and the kernel's part of a server's call preserve.  The proofs about    *)
(* each server cite them.                                                  *)
(***************************************************************************)
EXTENDS Tcp, TLAPS

(* The empty kernel state satisfies the environment's invariant. *)
LEMMA TcpInitInv == TcpInit => TcpInv
  BY TcpAssumption DEF TcpInit, TcpInv, TcpTypeOK, CountsOrdered, QueueOK, UntouchedUntilAccepted

(* What taking the first connection off the queue leaves in it. *)
LEMMA QueueTail ==
  ASSUME TcpTypeOK, QueueOK, queue # <<>>
  PROVE  /\ Head(queue) \in Clients
         /\ conn[Head(queue)] = "queued"
         /\ Tail(queue) \in Seq(Clients)
         /\ \A k \in 1 .. Len(Tail(queue)) : Tail(queue)[k] # Head(queue)
  <1>1. Len(queue) > 0 /\ Head(queue) = queue[1]
    BY DEF TcpTypeOK
  <1>2. \A k \in 1 .. Len(Tail(queue)) : k + 1 \in 1 .. Len(queue) /\ Tail(queue)[k] = queue[k + 1]
    BY DEF TcpTypeOK
  <1>3. 1 \in 1 .. Len(queue)
    BY <1>1 DEF TcpTypeOK
  <1>4. \A k \in 1 .. Len(Tail(queue)) : queue[k + 1] # queue[1]
    BY <1>2, <1>3 DEF QueueOK, TcpTypeOK
  <1>5. QED
    BY <1>1, <1>2, <1>3, <1>4 DEF QueueOK, TcpTypeOK

(* A move of a client preserves the environment's invariant. *)
LEMMA ClientStepInv ==
  ASSUME TcpInv, NEW c \in Clients, ClientStep(c)
  PROVE  TcpInv'
  <1> USE TcpAssumption DEF TcpInv
  <1>1. CASE Connect(c)
    <2>1. \A k \in 1 .. Len(queue') :
             queue'[k] = IF k = Len(queue) + 1 THEN c ELSE queue[k]
      BY <1>1 DEF Connect, TcpTypeOK
    <2>2. Len(queue') = Len(queue) + 1 /\ Len(queue) \in Nat
      BY <1>1 DEF Connect, TcpTypeOK
    <2>3. TcpTypeOK'
      BY <1>1 DEF Connect, TcpTypeOK
    <2>4. CountsOrdered' /\ UntouchedUntilAccepted'
      BY <1>1 DEF Connect, CountsOrdered, UntouchedUntilAccepted, TcpTypeOK
    <2>5. \A k \in 1 .. Len(queue) : queue[k] \in Clients /\ queue[k] # c
      <3>1. \A k \in 1 .. Len(queue) : queue[k] \in Clients
        BY DEF TcpTypeOK
      <3>2. conn[c] # "queued"
        BY <1>1 DEF Connect
      <3>3. \A k \in 1 .. Len(queue) : conn[queue[k]] = "queued"
        BY DEF QueueOK
      <3>4. QED
        BY <3>1, <3>2, <3>3
    <2>6. \A k \in 1 .. Len(queue') : conn'[queue'[k]] = "queued"
      BY <1>1, <2>1, <2>2, <2>5 DEF Connect, TcpTypeOK, QueueOK
    <2>7. \A k, l \in 1 .. Len(queue') : queue'[k] = queue'[l] => k = l
      BY <2>1, <2>2, <2>5 DEF QueueOK
    <2>8. ASSUME NEW d \in Clients, conn'[d] = "queued"
          PROVE  \E k \in 1 .. Len(queue') : queue'[k] = d
      <3>1. CASE d = c
        BY <3>1, <2>1, <2>2
      <3>2. CASE d # c
        <4>1. conn[d] = "queued"
          BY <3>2, <2>8, <1>1 DEF Connect, TcpTypeOK
        <4>2. QED
          BY <4>1, <2>1, <2>2 DEF QueueOK
      <3>3. QED
        BY <3>1, <3>2
    <2>9. QueueOK'
      BY <2>6, <2>7, <2>8 DEF QueueOK
    <2> QED
      BY <2>3, <2>4, <2>9
  <1>2. CASE Send(c)
    <2>1. TcpTypeOK'
      BY <1>2 DEF Send, TcpTypeOK, CountsOrdered
    <2>2. CountsOrdered'
      BY <1>2 DEF Send, TcpTypeOK, CountsOrdered
    <2>3. QueueOK' /\ UntouchedUntilAccepted'
      BY <1>2 DEF Send, QueueOK, UntouchedUntilAccepted
    <2>4. QED
      BY <2>1, <2>2, <2>3
  <1>3. CASE Recv(c)
    <2>1. TcpTypeOK'
      BY <1>3 DEF Recv, TcpTypeOK, CountsOrdered
    <2>2. CountsOrdered'
      BY <1>3 DEF Recv, TcpTypeOK, CountsOrdered
    <2>3. QueueOK' /\ UntouchedUntilAccepted'
      BY <1>3 DEF Recv, QueueOK, UntouchedUntilAccepted
    <2>4. QED
      BY <2>1, <2>2, <2>3
  <1>4. CASE Leave(c)
    <2>1. TcpTypeOK'
      BY <1>4 DEF Leave, TcpTypeOK, CountsOrdered
    <2>2. CountsOrdered'
      BY <1>4 DEF Leave, TcpTypeOK, CountsOrdered
    <2>3. QueueOK' /\ UntouchedUntilAccepted'
      BY <1>4 DEF Leave, QueueOK, UntouchedUntilAccepted
    <2>4. QED
      BY <2>1, <2>2, <2>3
  <1>5. CASE Reset(c)
    <2>1. TcpTypeOK'
      BY <1>5 DEF Reset, TcpTypeOK, CountsOrdered
    <2>2. CountsOrdered'
      BY <1>5 DEF Reset, TcpTypeOK, CountsOrdered
    <2>3. QueueOK' /\ UntouchedUntilAccepted'
      BY <1>5 DEF Reset, QueueOK, UntouchedUntilAccepted
    <2>4. QED
      BY <2>1, <2>2, <2>3
  <1>6. QED
    BY <1>1, <1>2, <1>3, <1>4, <1>5 DEF ClientStep

(* A client opens or closes no accepted connection, makes none unreadable, *)
(* and does not come back after a reset.                                   *)
LEMMA ClientStepEffect ==
  ASSUME TcpInv, NEW c \in Clients, ClientStep(c)
  PROVE  /\ got' = got /\ echoed' = echoed /\ listening' = listening
         /\ \A d \in Clients : conn'[d] = "open" <=> conn[d] = "open"
         /\ \A d \in Clients : Readable(d) => Readable(d)'
        /\ \A d \in Clients : peer[d] = "rst" => peer'[d] = "rst"
  <1> USE DEF TcpInv, TcpTypeOK, Readable, Unread
  <1>1. CASE Connect(c)
    BY <1>1 DEF Connect
  <1>2. CASE Send(c)
    BY <1>2, TcpAssumption DEF Send
  <1>3. CASE Recv(c)
    BY <1>3 DEF Recv
  <1>4. CASE Leave(c)
    BY <1>4 DEF Leave
  <1>5. CASE Reset(c)
    BY <1>5 DEF Reset
  <1>6. QED
    BY <1>1, <1>2, <1>3, <1>4, <1>5 DEF ClientStep

(* Taking a connection off the queue preserves it, whatever becomes of it. *)
LEMMA DequeueInv ==
  ASSUME TcpInv, queue # <<>>, queue' = Tail(queue),
         NEW state \in {"open", "closed"},
         conn' = [conn EXCEPT ![Head(queue)] = state],
         UNCHANGED <<listening, peer, sent, got, echoed, rcvd>>
  PROVE  TcpInv'
  <1> USE DEF TcpInv
  <1>1. /\ Head(queue) \in Clients
        /\ Tail(queue) \in Seq(Clients)
        /\ \A k \in 1 .. Len(Tail(queue)) : Tail(queue)[k] # Head(queue)
    BY QueueTail
  <1>2. TcpTypeOK' /\ CountsOrdered' /\ UntouchedUntilAccepted'
    BY <1>1 DEF TcpTypeOK, CountsOrdered, UntouchedUntilAccepted
  <1>3. /\ Len(queue) \in Nat
        /\ Len(queue') = Len(queue) - 1
        /\ Head(queue) = queue[1]
        /\ \A k \in 1 .. Len(queue') :
              k + 1 \in 1 .. Len(queue) /\ queue'[k] = queue[k + 1] /\ queue'[k] \in Clients
    BY DEF TcpTypeOK
  <1>4. \A k \in 1 .. Len(queue') : conn'[queue'[k]] = "queued"
    BY <1>1, <1>3 DEF QueueOK, TcpTypeOK
  <1>5. \A k, l \in 1 .. Len(queue') : queue'[k] = queue'[l] => k = l
    BY <1>3 DEF QueueOK
  <1>6. ASSUME NEW c \in Clients, conn'[c] = "queued"
        PROVE  \E k \in 1 .. Len(queue') : queue'[k] = c
    <2>1. c # Head(queue) /\ conn[c] = "queued"
      BY <1>1, <1>6 DEF TcpTypeOK
    <2>2. PICK l \in 1 .. Len(queue) : queue[l] = c
      BY <2>1 DEF QueueOK
    <2>3. l # 1
      BY <2>1, <2>2, <1>3
    <2>4. l - 1 \in 1 .. Len(queue')
      BY <2>2, <2>3, <1>3
    <2>5. queue'[l - 1] = c
      BY <2>2, <2>4, <1>3
    <2>6. QED
      BY <2>4, <2>5
  <1>7. QED
    BY <1>2, <1>4, <1>5, <1>6 DEF QueueOK

(* So accept() does. *)
LEMMA AcceptInv ==
  ASSUME TcpInv, AcceptHead,
         UNCHANGED <<listening, peer, sent, got, echoed, rcvd>>
  PROVE  TcpInv'
  BY DequeueInv DEF AcceptHead

(* Closing an accepted connection preserves it. *)
LEMMA CloseInv ==
  ASSUME TcpInv, NEW c \in Clients, conn[c] = "open",
         conn' = [conn EXCEPT ![c] = "closed"],
         UNCHANGED <<listening, queue, peer, sent, got, echoed, rcvd>>
  PROVE  TcpInv'
  <1>1. TcpTypeOK' /\ CountsOrdered' /\ UntouchedUntilAccepted'
    BY DEF TcpInv, TcpTypeOK, CountsOrdered, UntouchedUntilAccepted
  <1>2. \A d \in Clients : conn'[d] = "queued" <=> conn[d] = "queued"
    BY DEF TcpInv, TcpTypeOK
  <1>3. \A k \in 1 .. Len(queue) : queue[k] \in Clients
    BY DEF TcpInv, TcpTypeOK
  <1>4. QueueOK'
    BY <1>2, <1>3 DEF TcpInv, QueueOK
  <1>5. QED
    BY <1>1, <1>4 DEF TcpInv

(* Closing several accepted connections at once preserves it. *)
LEMMA CloseAllInv ==
  ASSUME TcpInv, NEW S \in SUBSET Clients, \A c \in S : conn[c] = "open",
         conn' = [c \in Clients |-> IF c \in S THEN "closed" ELSE conn[c]],
         UNCHANGED <<listening, queue, peer, sent, got, echoed, rcvd>>
  PROVE  TcpInv'
  <1>1. TcpTypeOK' /\ CountsOrdered' /\ UntouchedUntilAccepted'
    BY DEF TcpInv, TcpTypeOK, CountsOrdered, UntouchedUntilAccepted
  <1>2. \A d \in Clients : conn'[d] = "queued" <=> conn[d] = "queued"
    BY DEF TcpInv, TcpTypeOK
  <1>3. \A k \in 1 .. Len(queue) : queue[k] \in Clients
    BY DEF TcpInv, TcpTypeOK
  <1>4. QueueOK'
    BY <1>2, <1>3 DEF TcpInv, QueueOK
  <1>5. QED
    BY <1>1, <1>4 DEF TcpInv

(* So does the end of the listening socket, which empties the queue. *)
LEMMA EndListenInv ==
  ASSUME TcpInv, listening' = FALSE, queue' = <<>>,
         conn' \in [Clients -> {"none", "queued", "open", "closed"}],
         \A c \in Clients : conn'[c] # "queued" /\ (conn'[c] = "none" => conn[c] = "none"),
         UNCHANGED <<peer, sent, got, echoed, rcvd>>
  PROVE  TcpInv'
  <1>1. queue' \in Seq(Clients) /\ Len(queue') = 0
    OBVIOUS
  <1>2. TcpTypeOK'
    BY <1>1 DEF TcpInv, TcpTypeOK
  <1>3. CountsOrdered'
    BY DEF TcpInv, CountsOrdered
  <1>4. UntouchedUntilAccepted'
    BY DEF TcpInv, UntouchedUntilAccepted
  <1>5. QueueOK'
    BY <1>1 DEF QueueOK
  <1>6. QED
    BY <1>2, <1>3, <1>4, <1>5 DEF TcpInv

(* A read() that returns data moves got towards sent, never past it. *)
LEMMA ReadInv ==
  ASSUME TcpInv, NEW c \in Clients, conn[c] = "open", ReadReturnsData(c),
         UNCHANGED <<listening, queue, conn, peer, sent, echoed, rcvd>>
  PROVE  TcpInv' /\ got'[c] > got[c]
  <1>1. /\ got' \in [Clients -> Int]
        /\ got'[c] > got[c]
        /\ got'[c] <= sent[c]
        /\ \A d \in Clients : d # c => got'[d] = got[d]
    BY TcpAssumption DEF TcpInv, TcpTypeOK, CountsOrdered, ReadReturnsData, Unread
  <1>2. CountsOrdered'
    <2>1. SUFFICES ASSUME NEW d \in Clients
                   PROVE  rcvd[d] <= echoed[d] /\ echoed[d] <= got'[d] /\ got'[d] <= sent[d]
      BY DEF CountsOrdered
    <2>2. /\ rcvd[d] \in Int /\ echoed[d] \in Int /\ got[d] \in Int
          /\ sent[d] \in Int /\ got'[d] \in Int
          /\ rcvd[d] <= echoed[d] /\ echoed[d] <= got[d] /\ got[d] <= sent[d]
      BY <1>1 DEF TcpInv, TcpTypeOK, CountsOrdered
    <2>3. CASE d = c
      BY <1>1, <2>2, <2>3
    <2>4. CASE d # c
      BY <1>1, <2>2, <2>4
    <2>5. QED
      BY <2>3, <2>4
  <1>3. TcpTypeOK'
    BY <1>1, TcpAssumption DEF TcpInv, TcpTypeOK, ReadReturnsData
  <1>4. QueueOK' /\ UntouchedUntilAccepted'
    BY <1>1 DEF TcpInv, QueueOK, UntouchedUntilAccepted
  <1>5. QED
    BY <1>1, <1>2, <1>3, <1>4 DEF TcpInv

(* Writing back what was read preserves it. *)
LEMMA WriteInv ==
  ASSUME TcpInv, NEW c \in Clients, conn[c] = "open",
         echoed' = [echoed EXCEPT ![c] = got[c]],
         UNCHANGED <<listening, queue, conn, peer, sent, got, rcvd>>
  PROVE  TcpInv'
  <1>1. TcpTypeOK' /\ QueueOK'
    BY DEF TcpInv, TcpTypeOK, QueueOK
  <1>2. CountsOrdered' /\ UntouchedUntilAccepted'
    BY DEF TcpInv, TcpTypeOK, CountsOrdered, UntouchedUntilAccepted
  <1>3. QED
    BY <1>1, <1>2 DEF TcpInv

(* So does the exit of the process. *)
LEMMA ExitInv ==
  ASSUME TcpInv, ProcessExit
  PROVE  TcpInv'
  <1>1. TcpTypeOK'
    <2>1. conn' \in [Clients -> {"none", "queued", "open", "closed"}]
      BY DEF TcpInv, TcpTypeOK, ProcessExit, ClosedByExit
    <2>2. queue' \in Seq(Clients)
      BY DEF ProcessExit
    <2>3. QED
      BY <2>1, <2>2 DEF TcpInv, TcpTypeOK, ProcessExit
  <1>2. CountsOrdered'
    BY DEF TcpInv, CountsOrdered, ProcessExit
  <1>3. QueueOK'
    <2>1. Len(queue') = 0 /\ \A c \in Clients : conn'[c] # "queued"
      BY DEF TcpInv, TcpTypeOK, ProcessExit, ClosedByExit, Established
    <2>2. QED
      BY <2>1 DEF QueueOK
  <1>4. UntouchedUntilAccepted'
    BY DEF TcpInv, UntouchedUntilAccepted, ProcessExit, ClosedByExit, Established
  <1>5. QED
    BY <1>1, <1>2, <1>3, <1>4 DEF TcpInv

(* A step that leaves the environment alone. *)
LEMMA TcpUnchanged ==
  ASSUME TcpInv, UNCHANGED tcpVars
  PROVE  TcpInv'
  BY DEF TcpInv, TcpTypeOK, CountsOrdered, QueueOK, UntouchedUntilAccepted, tcpVars
=============================================================================
