------------------------- MODULE ForkingServerProofs -------------------------
(***************************************************************************)
(* Proofs about ForkingServer, for any number of clients, any limit on     *)
(* processes and any flags: no child is lost before SA_RESETHAND, if it is *)
(* among the flags, has removed the handler; a connection is open exactly  *)
(* as long as a process holds it; the server implements EchoService.       *)
(***************************************************************************)
EXTENDS ForkingServer, TcpProofs

LEMMA InitInv == Init => IInv
  <1> SUFFICES ASSUME Init PROVE IInv
    OBVIOUS
  <1>1. TcpInv
    BY TcpInitInv DEF Init
  <1>2. TypeOK
    BY <1>1, ForkingAssumption DEF Init, TypeOK, TcpInv
  <1>3. ParentHolds /\ HandlerInstalled /\ NoLostChild
    BY DEF Init, ParentHolds, HandlerInstalled, NoLostChild, Zombies
  <1>4. ConnectionHeld /\ NothingHeldBack /\ AnsweredBeforeClose
    BY DEF Init, TcpInit, ConnectionHeld, HasConnection, NothingHeldBack, AnsweredBeforeClose
  <1>5. QED
    BY <1>1, <1>2, <1>3, <1>4 DEF IInv

(* Next, one disjunct for each action: each proof about a step goes through *)
(* these.                                                                   *)
LEMMA Cases ==
  ASSUME Next
  PROVE  \/ Accept \/ AcceptFails \/ Fork \/ ForkFails \/ CloseCfd
         \/ Deliver \/ (\E c \in Clients : Reap(c)) \/ HandlerReturns \/ AcceptInterrupted
         \/ \E c \in Clients : \/ ChildClosesSfd(c) \/ ChildReads(c) \/ ChildSeesEof(c)
                               \/ ChildWrites(c) \/ ChildCloses(c) \/ ChildExits(c)
                               \/ ChildFails(c) \/ ClientMove(c)
  BY DEF Next, Parent, Child

(* The three ways out of main() are one: error_exit() before the end.       *)
LEMMA Exits ==
  ASSUME AcceptFails \/ ForkFails \/ AcceptInterrupted, IInv
  PROVE  ParentExit /\ parent # "exited"
  <1>1. CASE AcceptFails
    BY <1>1 DEF AcceptFails, Main
  <1>2. CASE ForkFails
    BY <1>2 DEF ForkFails, Main
  <1>3. CASE AcceptInterrupted
    BY <1>3 DEF AcceptInterrupted, IInv, HandlerInstalled
  <1>4. QED
    BY <1>1, <1>2, <1>3

(* What closes when the parent drops its descriptors.                       *)
LEMMA ParentDropsOpen ==
  ASSUME IInv
  PROVE  LET S == {c \in current : ~HasConnection(c)}
         IN  /\ S \in SUBSET Clients
             /\ \A c \in S : conn[c] = "open"
             /\ ParentDrops = [c \in Clients |-> IF c \in S THEN "closed" ELSE conn[c]]
  BY DEF IInv, TypeOK, ConnectionHeld, ParentDrops

LEMMA ExitCloses ==
  ASSUME IInv, ParentExit
  PROVE  \A c \in Clients : conn'[c] \in {conn[c], "closed"}
  <1>1. \A c \in Clients : ParentDrops[c] \in {conn[c], "closed"}
    BY DEF ParentDrops
  <1>2. CASE Listening # {}
    BY <1>1, <1>2 DEF ParentExit
  <1>3. CASE Listening = {}
    BY <1>1, <1>3 DEF ParentExit
  <1>4. QED
    BY <1>2, <1>3

(* The environment's invariant.                                             *)
LEMMA TcpStep ==
  ASSUME IInv, Next
  PROVE  TcpInv'
  <1> USE DEF IInv
  <1>1. CASE Accept
    BY <1>1, AcceptInv DEF Accept
  <1>2. CASE Fork \/ Deliver \/ HandlerReturns
    BY <1>2, TcpUnchanged DEF Fork, Deliver, HandlerReturns
  <1>3. CASE CloseCfd
    BY <1>3, ParentDropsOpen, CloseAllInv DEF CloseCfd
  <1>4. CASE AcceptFails \/ ForkFails \/ AcceptInterrupted
    <2>1. ParentExit
      BY <1>4, Exits
    <2>2. CASE Listening # {}
      BY <2>1, <2>2, ParentDropsOpen, CloseAllInv DEF ParentExit
    <2>3. CASE Listening = {}
      <3>1. \A c \in Clients : conn'[c] \in {conn[c], "closed"} /\ conn'[c] # "queued"
        BY <2>1, <2>3, ParentDropsOpen DEF ParentExit
      <3>2. conn' \in [Clients -> {"none", "queued", "open", "closed"}]
        BY <2>1, <2>3, <3>1 DEF ParentExit, TcpInv, TcpTypeOK
      <3>3. QED
        BY <2>1, <2>3, <3>1, <3>2, EndListenInv DEF ParentExit
    <2>4. QED
      BY <2>2, <2>3
  <1>5. ASSUME NEW c \in Clients, Reap(c) \/ ChildSeesEof(c) \/ ChildExits(c)
        PROVE  TcpInv'
    BY <1>5, TcpUnchanged DEF Reap, ChildSeesEof, ChildExits
  <1>6. ASSUME NEW c \in Clients, child[c] \in {"start", "read", "write", "close"}
        PROVE  conn[c] = "open"
    BY <1>6 DEF ConnectionHeld, HasConnection
  <1>7. ASSUME NEW c \in Clients, ChildClosesSfd(c)
        PROVE  TcpInv'
    <2>1. CASE UNCHANGED <<listening, queue, conn>>
      BY <1>7, <2>1, TcpUnchanged DEF ChildClosesSfd, tcpVars
    <2>2. CASE ~ UNCHANGED <<listening, queue, conn>>
      <3>1. /\ listening' = FALSE /\ queue' = <<>>
            /\ conn' = [d \in Clients |-> IF conn[d] = "queued" THEN "closed" ELSE conn[d]]
            /\ UNCHANGED <<peer, sent, got, echoed, rcvd>>
        BY <1>7, <2>2 DEF ChildClosesSfd
      <3>2. conn' \in [Clients -> {"none", "queued", "open", "closed"}]
        BY <3>1 DEF TcpInv, TcpTypeOK
      <3>3. QED
        BY <3>1, <3>2, EndListenInv
    <2>3. QED
      BY <2>1, <2>2
  <1>8. ASSUME NEW c \in Clients, ChildReads(c)
        PROVE  TcpInv'
    BY <1>6, <1>8, ReadInv DEF ChildReads, Moves
  <1>9. ASSUME NEW c \in Clients, ChildWrites(c)
        PROVE  TcpInv'
    BY <1>6, <1>9, WriteInv DEF ChildWrites, Moves
  <1>10. ASSUME NEW c \in Clients, conn[c] = "open", ChildDrops(c)
         PROVE  TcpInv'
    <2>1. CASE c \in current
      BY <1>10, <2>1, TcpUnchanged DEF ChildDrops, tcpVars
    <2>2. CASE c \notin current
      BY <1>10, <2>2, CloseInv DEF ChildDrops
    <2>3. QED
      BY <2>1, <2>2
  <1>11. ASSUME NEW c \in Clients, ChildCloses(c) \/ ChildFails(c)
         PROVE  TcpInv'
    BY <1>6, <1>10, <1>11 DEF ChildCloses, ChildFails, Moves
  <1>12. ASSUME NEW c \in Clients, ClientMove(c)
         PROVE  TcpInv'
    BY <1>12, ClientStepInv DEF ClientMove
  <1>13. QED
    BY <1>1, <1>2, <1>3, <1>4, <1>5, <1>7, <1>8, <1>9, <1>11, <1>12, Cases

(* Types.                                                                   *)
LEMMA TypeStep ==
  ASSUME IInv, Next
  PROVE  TypeOK'
  <1>1. TcpTypeOK'
    BY TcpStep DEF TcpInv
  <1>2. queue # <<>> => Head(queue) \in Clients
    BY QueueTail DEF IInv, TcpInv
  <1> USE <1>1 DEF IInv, TypeOK, Main, Moves
  <1>3. CASE Accept
    BY <1>2, <1>3 DEF Accept, AcceptHead
  <1>4. CASE Fork \/ CloseCfd \/ Deliver \/ HandlerReturns
    BY <1>4 DEF Fork, CloseCfd, Deliver, HandlerReturns
  <1>5. CASE AcceptFails \/ ForkFails \/ AcceptInterrupted
    BY <1>5, Exits DEF ParentExit
  <1>6. ASSUME NEW c \in Clients,
               \/ Reap(c) \/ ChildClosesSfd(c) \/ ChildReads(c) \/ ChildSeesEof(c)
               \/ ChildWrites(c) \/ ChildCloses(c)
        PROVE  TypeOK'
    <2>1. \E to \in {"read", "write", "close", "exit", "reaped"} :
              child' = [child EXCEPT ![c] = to]
      BY <1>6 DEF Reap, ChildClosesSfd, ChildReads, ChildSeesEof, ChildWrites, ChildCloses
    <2>2. UNCHANGED <<flags, limit, parent, current, fresh, sigchld, handler, eintr>>
      BY <1>6 DEF Reap, ChildClosesSfd, ChildReads, ChildSeesEof, ChildWrites, ChildCloses
    <2>3. child' \in [Clients -> {"none", "start", "read", "write", "close", "exit",
                                  "zombie", "reaped"}]
      BY <2>1
    <2>4. QED
      BY <2>2, <2>3
  <1>7. ASSUME NEW c \in Clients, Dies(c)
        PROVE  TypeOK'
    BY <1>7 DEF Dies
  <1>8. ASSUME NEW c \in Clients, ClientMove(c)
        PROVE  TypeOK'
    BY <1>8 DEF ClientMove, procVars
  <1>9. QED
    BY <1>3, <1>4, <1>5, <1>6, <1>7, <1>8, Cases DEF ChildExits, ChildFails

(* A child moves along, and no connection it has no part in becomes fresh.  *)
LEMMA ChildMoves ==
  ASSUME IInv, NEW c \in Clients,
         \/ Reap(c) \/ ChildClosesSfd(c) \/ ChildReads(c) \/ ChildSeesEof(c)
         \/ ChildWrites(c) \/ ChildCloses(c) \/ ChildExits(c) \/ ChildFails(c)
  PROVE  /\ child[c] # "none" /\ child'[c] # "none"
         /\ \A d \in Clients : d # c => child'[d] = child[d]
         /\ \A d \in Clients : conn'[d] \in {conn[d], "closed"}
         /\ UNCHANGED <<flags, limit, parent, current, fresh, handler, eintr>>
  <1> USE DEF IInv, TypeOK, TcpInv, TcpTypeOK, Moves, Dies, ChildDrops, tcpVars
  <1>1. CASE Reap(c)
    BY <1>1 DEF Reap
  <1>2. CASE ChildClosesSfd(c)
    BY <1>2 DEF ChildClosesSfd
  <1>3. CASE ChildReads(c) \/ ChildSeesEof(c) \/ ChildWrites(c)
    BY <1>3 DEF ChildReads, ChildSeesEof, ChildWrites
  <1>4. CASE ChildCloses(c)
    BY <1>4 DEF ChildCloses
  <1>5. CASE ChildExits(c)
    BY <1>5 DEF ChildExits
  <1>6. CASE ChildFails(c)
    BY <1>6 DEF ChildFails
  <1>7. QED
    BY <1>1, <1>2, <1>3, <1>4, <1>5, <1>6

(* What the parent holds.                                                   *)
LEMMA HoldsStep ==
  ASSUME IInv, Next
  PROVE  ParentHolds'
  <1>1. queue # <<>> => Head(queue) \in Clients /\ conn[Head(queue)] = "queued"
    BY QueueTail DEF IInv, TcpInv
  <1> USE DEF IInv, TypeOK, TcpInv, TcpTypeOK, ParentHolds, Main
  <1>2. CASE Accept
    BY <1>1, <1>2 DEF Accept, AcceptHead
  <1>3. CASE Fork
    <2>1. \A c \in current : conn[c] = "open"
      BY DEF ConnectionHeld
    <2>2. QED
      BY <1>3, <2>1 DEF Fork, tcpVars
  <1>4. CASE CloseCfd
    <2>1. \A c \in Clients : conn'[c] \in {"none", "queued"} => conn[c] = conn'[c]
      BY <1>4, ParentDropsOpen DEF CloseCfd
    <2>2. QED
      BY <1>4, <2>1 DEF CloseCfd
  <1>5. CASE AcceptFails \/ ForkFails \/ AcceptInterrupted
    <2>1. ParentExit
      BY <1>5, Exits
    <2>2. \A c \in Clients : conn'[c] \in {conn[c], "closed"}
      BY <2>1, ExitCloses
    <2>3. QED
      BY <2>1, <2>2 DEF ParentExit, Zombies
  <1>6. CASE Deliver \/ HandlerReturns
    BY <1>6 DEF Deliver, HandlerReturns, tcpVars
  <1>7. ASSUME NEW c \in Clients,
               \/ Reap(c) \/ ChildClosesSfd(c) \/ ChildReads(c) \/ ChildSeesEof(c)
               \/ ChildWrites(c) \/ ChildCloses(c) \/ ChildExits(c) \/ ChildFails(c)
        PROVE  ParentHolds'
    <2>1. /\ child[c] # "none" /\ child'[c] # "none"
          /\ \A d \in Clients : d # c => child'[d] = child[d]
          /\ \A d \in Clients : conn'[d] \in {conn[d], "closed"}
          /\ UNCHANGED <<flags, limit, parent, current, fresh, handler, eintr>>
      BY <1>7, ChildMoves
    <2>2. QED
      BY <2>1
  <1>8. ASSUME NEW c \in Clients, ClientMove(c)
        PROVE  ParentHolds'
    <2>1. \A d \in Clients : conn'[d] \in {"none", "queued"} => conn[d] \in {"none", "queued"}
      BY <1>8 DEF ClientMove, ClientStep, Connect, Send, Recv, Leave, Reset
    <2>2. QED
      BY <1>8, <2>1 DEF ClientMove, procVars
  <1>9. QED
    BY <1>2, <1>3, <1>4, <1>5, <1>6, <1>7, <1>8, Cases

(* The signal: every zombie has the handler running or about to.            *)
LEMMA SignalStep ==
  ASSUME IInv, Next
  PROVE  HandlerInstalled' /\ NoLostChild'
  <1> USE DEF IInv, TypeOK, HandlerInstalled, NoLostChild, Main
  <1>1. CASE Accept \/ CloseCfd
    BY <1>1 DEF Accept, CloseCfd, Zombies
  <1>2. CASE Fork
    <2>1. Zombies' \subseteq Zombies
      BY <1>2 DEF Fork, Zombies
    <2>2. QED
      BY <1>2, <2>1 DEF Fork
  <1>3. CASE AcceptFails \/ ForkFails \/ AcceptInterrupted
    BY <1>3, Exits DEF ParentExit, Zombies
  <1>4. CASE Deliver
    BY <1>4 DEF Deliver
  <1>5. CASE HandlerReturns
    BY <1>5 DEF HandlerReturns, NoMoreToWait, Zombies
  <1>6. ASSUME NEW c \in Clients, Reap(c)
        PROVE  HandlerInstalled' /\ NoLostChild'
    BY <1>6 DEF Reap
  <1>7. ASSUME NEW c \in Clients,
               \/ ChildClosesSfd(c) \/ ChildReads(c) \/ ChildSeesEof(c) \/ ChildWrites(c)
               \/ ChildCloses(c)
        PROVE  HandlerInstalled' /\ NoLostChild'
    <2>1. /\ \E to \in {"read", "write", "close", "exit"} : child' = [child EXCEPT ![c] = to]
          /\ UNCHANGED <<flags, limit, parent, current, fresh, sigchld, handler, eintr>>
      BY <1>7 DEF ChildClosesSfd, ChildReads, ChildSeesEof, ChildWrites, ChildCloses, Moves
    <2>2. Zombies' \subseteq Zombies
      BY <2>1 DEF Zombies
    <2>3. QED
      BY <2>1, <2>2
  <1>8. ASSUME NEW c \in Clients, ChildExits(c) \/ ChildFails(c)
        PROVE  HandlerInstalled' /\ NoLostChild'
    <2>1. Dies(c) /\ HandlerInstalled'
      BY <1>8 DEF ChildExits, ChildFails, Dies
    <2>2. CASE parent = "exited"
      <3>1. Zombies' \subseteq Zombies
        BY <2>1, <2>2 DEF Dies, Zombies
      <3>2. QED
        BY <2>1, <2>2, <3>1 DEF Dies
    <2>3. CASE parent # "exited"
      BY <2>1, <2>3 DEF Dies
    <2>4. QED
      BY <2>1, <2>2, <2>3
  <1>9. ASSUME NEW c \in Clients, ClientMove(c)
        PROVE  HandlerInstalled' /\ NoLostChild'
    BY <1>9 DEF ClientMove, procVars, Zombies
  <1>10. QED
    BY <1>1, <1>2, <1>3, <1>4, <1>5, <1>6, <1>7, <1>8, <1>9, Cases

(* A connection lives as long as the descriptors for it.                    *)
LEMMA HeldStep ==
  ASSUME IInv, Next
  PROVE  ConnectionHeld'
  <1>1. queue # <<>> => Head(queue) \in Clients /\ conn[Head(queue)] = "queued"
    BY QueueTail DEF IInv, TcpInv
  <1> USE DEF IInv, TypeOK, TcpInv, TcpTypeOK, ConnectionHeld, HasConnection, Main, Moves
  <1>2. CASE Accept
    <2>1. current = {}
      BY <1>2 DEF Accept, ParentHolds
    <2>2. QED
      BY <1>1, <1>2, <2>1 DEF Accept, AcceptHead
  <1>3. CASE Fork
    BY <1>3 DEF Fork, tcpVars, ParentHolds
  <1>4. CASE CloseCfd
    BY <1>4 DEF CloseCfd, ParentDrops
  <1>5. CASE AcceptFails \/ ForkFails \/ AcceptInterrupted
    <2>1. ParentExit
      BY <1>5, Exits
    <2>2. \A c \in Clients : conn'[c] = "open" <=> ParentDrops[c] = "open"
      BY <2>1 DEF ParentExit, ParentDrops
    <2>3. \A c \in Clients : ParentDrops[c] = "open" <=> HasConnection(c)
      BY DEF ParentDrops
    <2>4. current' = {} /\ \A c \in Clients : HasConnection(c)' <=> HasConnection(c)
      BY <2>1 DEF ParentExit, Zombies
    <2>5. QED
      BY <2>2, <2>3, <2>4
  <1>6. CASE Deliver \/ HandlerReturns
    BY <1>6 DEF Deliver, HandlerReturns, tcpVars
  <1>7. ASSUME NEW c \in Clients, Reap(c) \/ ChildExits(c)
        PROVE  ConnectionHeld'
    BY <1>7 DEF Reap, ChildExits, Dies, tcpVars
  <1>8. ASSUME NEW c \in Clients, ChildClosesSfd(c)
        PROVE  ConnectionHeld'
    <2>1. \A d \in Clients : conn'[d] = "open" <=> conn[d] = "open"
      BY <1>8 DEF ChildClosesSfd
    <2>2. QED
      BY <1>8, <2>1 DEF ChildClosesSfd
  <1>9. ASSUME NEW c \in Clients, ChildReads(c) \/ ChildSeesEof(c) \/ ChildWrites(c)
        PROVE  ConnectionHeld'
    BY <1>9 DEF ChildReads, ChildSeesEof, ChildWrites, tcpVars
  <1>10. ASSUME NEW c \in Clients, ChildCloses(c)
         PROVE  ConnectionHeld'
    BY <1>10 DEF ChildCloses, ChildDrops
  <1>11. ASSUME NEW c \in Clients, ChildFails(c)
         PROVE  ConnectionHeld'
    BY <1>11 DEF ChildFails, Dies, ChildDrops
  <1>12. ASSUME NEW c \in Clients, ClientMove(c)
         PROVE  ConnectionHeld'
    BY <1>12, ClientStepEffect DEF ClientMove, procVars
  <1>13. QED
    BY <1>2, <1>3, <1>4, <1>5, <1>6, <1>7, <1>8, <1>9, <1>10, <1>11, <1>12, Cases

(* What is owed to the clients.                                             *)
OwedInv == NothingHeldBack /\ AnsweredBeforeClose

LEMMA OwedStep ==
  ASSUME IInv, Next
  PROVE  OwedInv'
  <1> USE DEF IInv, TypeOK, TcpInv, TcpTypeOK, OwedInv, NothingHeldBack, AnsweredBeforeClose,
              Main, Moves
  <1>1. CASE Accept \/ CloseCfd \/ Deliver \/ HandlerReturns
    BY <1>1 DEF Accept, CloseCfd, Deliver, HandlerReturns, tcpVars
  <1>2. CASE Fork
    BY <1>2 DEF Fork, ParentHolds, tcpVars
  <1>3. CASE AcceptFails \/ ForkFails \/ AcceptInterrupted
    <2>1. ParentExit
      BY <1>3, Exits
    <2>2. QED
      BY <2>1 DEF ParentExit, Zombies
  <1>4. ASSUME NEW c \in Clients, Reap(c)
        PROVE  OwedInv'
    BY <1>4 DEF Reap, tcpVars
  <1>5. ASSUME NEW c \in Clients, ChildClosesSfd(c)
        PROVE  OwedInv'
    BY <1>5 DEF ChildClosesSfd
  <1>6. ASSUME NEW c \in Clients, ChildReads(c)
        PROVE  OwedInv'
    BY <1>6 DEF ChildReads, ReadReturnsData
  <1>7. ASSUME NEW c \in Clients, ChildSeesEof(c)
        PROVE  OwedInv'
    <2>1. got[c] = sent[c] /\ peer[c] = "fin"
      BY <1>7 DEF ChildSeesEof, ReadReturnsEof, Unread
    <2>2. got[c] = echoed[c]
      BY <1>7, <2>1 DEF ChildSeesEof
    <2>3. QED
      BY <1>7, <2>1, <2>2 DEF ChildSeesEof, tcpVars
  <1>8. ASSUME NEW c \in Clients, ChildWrites(c)
        PROVE  OwedInv'
    BY <1>8 DEF ChildWrites
  <1>9. ASSUME NEW c \in Clients, ChildCloses(c)
        PROVE  OwedInv'
    <2>1. got' = got /\ echoed' = echoed /\ peer' = peer /\ sent' = sent
      BY <1>9 DEF ChildCloses, ChildDrops
    <2>2. child[c] = "close" /\ child' = [child EXCEPT ![c] = "exit"]
      BY <1>9 DEF ChildCloses
    <2>3. QED
      BY <2>1, <2>2
  <1>10. ASSUME NEW c \in Clients, ChildExits(c)
         PROVE  OwedInv'
    BY <1>10 DEF ChildExits, Dies, tcpVars
  <1>11. ASSUME NEW c \in Clients, ChildFails(c)
         PROVE  OwedInv'
    BY <1>11 DEF ChildFails, Dies, ChildDrops, ReadReturnsError
  <1>12. ASSUME NEW c \in Clients, ClientMove(c)
         PROVE  OwedInv'
    <2>1. got' = got /\ echoed' = echoed /\ child' = child
          /\ \A d \in Clients : peer[d] = "rst" => peer'[d] = "rst"
      BY <1>12, ClientStepEffect DEF ClientMove, procVars
    <2>2. \A d \in Clients : peer[d] = "fin" =>
              peer'[d] = "rst" \/ (peer'[d] = "fin" /\ sent'[d] = sent[d])
      BY <1>12 DEF ClientMove, ClientStep, Connect, Send, Recv, Leave, Reset
    <2>3. QED
      BY <2>1, <2>2
  <1>13. QED
    BY <1>1, <1>2, <1>3, <1>4, <1>5, <1>6, <1>7, <1>8, <1>9, <1>10, <1>11, <1>12, Cases

LEMMA StepInv == IInv /\ [Next]_vars => IInv'
  <1>1. ASSUME IInv, Next
        PROVE  IInv'
    BY <1>1, TcpStep, TypeStep, HoldsStep, SignalStep, HeldStep, OwedStep DEF IInv, OwedInv
  <1>2. ASSUME IInv, UNCHANGED vars
        PROVE  IInv'
    BY <1>2 DEF IInv, vars, tcpVars, procVars, TypeOK, TcpInv, TcpTypeOK, CountsOrdered,
                QueueOK, UntouchedUntilAccepted, ParentHolds, HandlerInstalled, NoLostChild,
                Zombies, ConnectionHeld, HasConnection, NothingHeldBack, AnsweredBeforeClose
  <1>3. QED
    BY <1>1, <1>2

(* IInv holds in every reachable state.                                      *)
THEOREM Invariance == Spec => []IInv
  BY InitInv, StepInv, PTL DEF Spec

(* Every variable keeps its type, for every value sa_flags may hold.         *)
THEOREM TypeCorrect == Spec => []TypeOK
  BY Invariance, PTL DEF IInv

(* No child is lost by the handler although SIGCHLD does not count: as long   *)
(* as there is a zombie, the handler is running or a SIGCHLD is pending, or   *)
(* SA_RESETHAND was in the uninitialized sa_flags and has removed the handler. *)
THEOREM NoZombieForgotten == Spec => []NoLostChild
  BY Invariance, PTL DEF IInv

(* The two descriptors of a connection are enough and not too many: it is     *)
(* open exactly while the parent or its child has one.                        *)
THEOREM OpenWhileHeld == Spec => []ConnectionHeld
  BY Invariance, PTL DEF IInv

(* No chunk stays in a child's buffer.                                        *)
THEOREM BufferDrained == Spec => []NothingHeldBack
  BY Invariance, PTL DEF IInv

----------------------------------------------------------------------------
(* forking.c implements EchoService, whatever the flags.                     *)

LEMMA ExitStops ==
  ASSUME IInv, parent # "exited", ParentExit
  PROVE  Service!Stop
  <1>1. \A c \in Clients : conn'[c] \in {conn[c], "closed"}
    BY ExitCloses
  <1>2. \A c \in Clients : conn[c] = "none" => conn'[c] = "none"
    BY ParentDropsOpen DEF ParentExit
  <1>3. conn' \in [Clients -> {"none", "queued", "open", "closed"}]
    <2>1. conn' = [c \in Clients |-> conn'[c]]
      BY ParentDropsOpen DEF ParentExit
    <2>2. QED
      BY <1>1, <2>1 DEF IInv, TcpInv, TcpTypeOK
  <1> DEFINE kept == {c \in Clients : conn[c] # "none" /\ conn'[c] = conn[c]}
  <1>4. kept \in SUBSET {c \in Clients : conn[c] # "none"}
    OBVIOUS
  <1>5. conn' = [c \in Clients |-> IF conn[c] = "none" \/ c \in kept THEN conn[c] ELSE "closed"]
    BY <1>1, <1>2, <1>3
  <1>6. (parent' # "exited") = FALSE /\ UNCHANGED <<peer, sent, echoed>>
    BY DEF ParentExit
  <1> HIDE DEF kept
  <1>7. QED
    BY <1>4, <1>5, <1>6 DEF Service!Stop

LEMMA StepRefines == IInv /\ [Next]_vars => [Service!Next]_(Service!echoVars)
  <1> SUFFICES ASSUME IInv, [Next]_vars
               PROVE  Service!Next \/ UNCHANGED Service!echoVars
    OBVIOUS
  <1>1. CASE Accept
    <2>1. queue # <<>> /\ Head(queue) \in Clients /\ conn[Head(queue)] = "queued"
      BY <1>1, QueueTail DEF Accept, AcceptHead, IInv, TcpInv
    <2>2. Service!TakeOver(Head(queue))
      BY <1>1, <2>1 DEF Accept, AcceptHead, Main, Service!TakeOver
    <2>3. QED
      BY <2>1, <2>2 DEF Service!Next
  <1>2. CASE Fork \/ Deliver \/ HandlerReturns
    BY <1>2 DEF Fork, Deliver, HandlerReturns, Main, tcpVars, Service!echoVars
  <1>3. CASE AcceptFails \/ ForkFails \/ AcceptInterrupted
    BY <1>3, Exits, ExitStops DEF Service!Next
  <1>4. CASE CloseCfd
    <2>1. PICK c \in Clients : current = {c}
      BY <1>4 DEF CloseCfd, Main, IInv, ParentHolds, TypeOK
    <2>2. UNCHANGED <<peer, sent, echoed>> /\ (parent # "exited") = (parent' # "exited")
      BY <1>4 DEF CloseCfd, Main
    <2>3. CASE HasConnection(c)
      <3>1. conn' = conn
        BY <1>4, <2>1, <2>3 DEF CloseCfd, ParentDrops, IInv, TcpInv, TcpTypeOK
      <3>2. QED
        BY <2>2, <3>1 DEF Service!echoVars
    <2>4. CASE ~HasConnection(c)
      <3>1. conn' = [conn EXCEPT ![c] = "closed"] /\ conn[c] = "open"
        BY <1>4, <2>1, <2>4
           DEF CloseCfd, ParentDrops, IInv, TcpInv, TcpTypeOK, ConnectionHeld
      <3>2. child[c] \in {"exit", "zombie", "reaped"}
        BY <1>4, <2>1, <2>4 DEF CloseCfd, Main, HasConnection, IInv, TypeOK, ParentHolds
      <3>3. Service!HangUp(c)
        BY <2>2, <3>1, <3>2 DEF IInv, AnsweredBeforeClose, Service!HangUp, Service!Finished
      <3>4. QED
        BY <3>3 DEF Service!Next
    <2>5. QED
      BY <2>3, <2>4
  <1>5. ASSUME NEW c \in Clients, Reap(c) \/ ChildReads(c) \/ ChildSeesEof(c) \/ ChildExits(c)
        PROVE  UNCHANGED Service!echoVars
    BY <1>5 DEF Reap, ChildReads, ChildSeesEof, ChildExits, Dies, Moves, tcpVars,
                Service!echoVars
  <1>6. ASSUME NEW c \in Clients, ChildClosesSfd(c)
        PROVE  Service!Next \/ UNCHANGED Service!echoVars
    BY <1>6 DEF ChildClosesSfd, Moves, Service!Next, Service!Abandon, Service!echoVars
  <1>7. ASSUME NEW c \in Clients, ChildWrites(c)
        PROVE  Service!Next \/ UNCHANGED Service!echoVars
    <2>1. conn[c] = "open"
      BY <1>7 DEF ChildWrites, Moves, IInv, ConnectionHeld, HasConnection
    <2>2. echoed[c] \in Int /\ got[c] \in Int /\ sent[c] \in Int
          /\ echoed[c] <= got[c] /\ got[c] <= sent[c]
      BY DEF IInv, TcpInv, TcpTypeOK, CountsOrdered
    <2>3. CASE got[c] = echoed[c]
      BY <1>7, <2>3 DEF ChildWrites, Moves, Service!echoVars, IInv, TcpInv, TcpTypeOK
    <2>4. CASE got[c] # echoed[c]
      <3>1. got[c] \in echoed[c] + 1 .. sent[c]
        BY <2>2, <2>4
      <3>2. Service!Echo(c)
        BY <1>7, <2>1, <3>1 DEF ChildWrites, Moves, Service!Echo
      <3>3. QED
        BY <3>2 DEF Service!Next
    <2>5. QED
      BY <2>3, <2>4
  <1>8. ASSUME NEW c \in Clients, conn[c] = "open", Service!Finished(c), ChildDrops(c),
               UNCHANGED parent
        PROVE  Service!Next \/ UNCHANGED Service!echoVars
    <2>1. CASE c \in current
      BY <1>8, <2>1 DEF ChildDrops, Service!echoVars
    <2>2. CASE c \notin current
      BY <1>8, <2>2 DEF ChildDrops, Service!Next, Service!HangUp
    <2>3. QED
      BY <2>1, <2>2
  <1>9. ASSUME NEW c \in Clients, ChildCloses(c)
        PROVE  Service!Next \/ UNCHANGED Service!echoVars
    <2>1. conn[c] = "open" /\ Service!Finished(c)
      BY <1>9 DEF ChildCloses, Moves, IInv, ConnectionHeld, HasConnection,
                  AnsweredBeforeClose, Service!Finished
    <2>2. QED
      BY <1>8, <1>9, <2>1 DEF ChildCloses, Moves
  <1>10. ASSUME NEW c \in Clients, ChildFails(c)
         PROVE  Service!Next \/ UNCHANGED Service!echoVars
    <2>1. conn[c] = "open" /\ Service!Finished(c)
      BY <1>10 DEF ChildFails, ReadReturnsError, IInv, ConnectionHeld, HasConnection,
                   Service!Finished
    <2>2. QED
      BY <1>8, <1>10, <2>1 DEF ChildFails, Dies
  <1>11. ASSUME NEW c \in Clients, ClientMove(c)
         PROVE  Service!Next \/ UNCHANGED Service!echoVars
    <2>1. CASE Connect(c)
      BY <1>11, <2>1 DEF Connect, ClientMove, procVars, Service!Next, Service!Request
    <2>2. CASE Send(c)
      BY <1>11, <2>2 DEF Send, ClientMove, procVars, Established, Service!Next, Service!Say
    <2>3. CASE Recv(c)
      BY <1>11, <2>3 DEF Recv, ClientMove, procVars, Service!echoVars
    <2>4. CASE Leave(c)
      BY <1>11, <2>4 DEF Leave, ClientMove, procVars, Established, Service!Next, Service!Go
    <2>5. CASE Reset(c)
      BY <1>11, <2>5 DEF Reset, ClientMove, procVars, Established, Service!Next, Service!Go
    <2>6. QED
      BY <1>11, <2>1, <2>2, <2>3, <2>4, <2>5 DEF ClientMove, ClientStep
  <1>12. CASE UNCHANGED vars
    BY <1>12 DEF vars, tcpVars, procVars, Service!echoVars
  <1>13. QED
    BY <1>1, <1>2, <1>3, <1>4, <1>5, <1>6, <1>7, <1>9, <1>10, <1>11, <1>12, Cases

(* Every behaviour of forking.c is one EchoService allows: nothing a client   *)
(* is owed is lost between the parent, its child and the end of either.       *)
THEOREM KeepsPromise == Spec => Promise
  <1>1. Init => Service!Init
    BY DEF Init, TcpInit, Service!Init
  <1>2. QED
    BY <1>1, Invariance, StepRefines, PTL DEF Spec, Promise, Service!Spec
=============================================================================
