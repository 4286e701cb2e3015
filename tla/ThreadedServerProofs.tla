------------------------- MODULE ThreadedServerProofs -------------------------
(***************************************************************************)
(* Proofs about ThreadedServer, for any number of clients, threads and     *)
(* descriptors: every accepted client has its own thread, every thread is  *)
(* in the list that main() would join, and the server implements           *)
(* EchoService.                                                            *)
(***************************************************************************)
EXTENDS ThreadedServer, TcpProofs, FiniteSetTheorems

----------------------------------------------------------------------------
(* The list.                                                               *)

(* list_initialize_head() makes the ring of the head alone.                *)
LEMMA EmptyRing ==
  ASSUME Threads!ListInit
  PROVE  Threads!ListTypeOK /\ Threads!IsRingOf({}, 0)
  <1> USE ThreadedAssumption DEF Threads!Nodes
  <1>1. /\ flink = [n \in Threads!Nodes |-> IF n = ListHead THEN ListHead ELSE Null]
        /\ blink = [n \in Threads!Nodes |-> IF n = ListHead THEN ListHead ELSE Null]
    BY DEF Threads!ListInit
  <1>2. Threads!ListTypeOK
    BY <1>1 DEF Threads!ListTypeOK
  <1>3. Threads!Linked = {}
    BY <1>1 DEF Threads!Linked
  <1> DEFINE ring == [k \in 0 .. 0 |-> ListHead]
  <1>4. /\ ring \in [0 .. 0 -> {} \union {ListHead}]
        /\ \A n \in {} \union {ListHead} : \E k \in 0 .. 0 : ring[k] = n
        /\ \A k, l \in 0 .. 0 : ring[k] = ring[l] => k = l
    OBVIOUS
  <1>5. Threads!RingThrough(ring, 0)
    BY <1>1 DEF Threads!RingThrough
  <1> HIDE DEF ring
  <1>6. QED
    BY <1>2, <1>3, <1>4, <1>5 DEF Threads!IsRingOf

(* list_push() puts a new entry between the head and the one that was      *)
(* first, and leaves one ring, linked both ways.                           *)
LEMMA PushRing ==
  ASSUME Threads!ListTypeOK, NEW S \in SUBSET Clients, NEW size \in Nat,
         Threads!IsRingOf(S, size), NEW e \in Clients \ S, Threads!Push(e)
  PROVE  Threads!ListTypeOK' /\ Threads!IsRingOf(S \union {e}, size + 1)'
  <1> USE ThreadedAssumption DEF Threads!Nodes
  <1> DEFINE T == S \union {e}
  <1>1. size \in Nat
    OBVIOUS
  <1>2. PICK ring \in [0 .. size -> S \union {ListHead}] :
          /\ \A n \in S \union {ListHead} : \E k \in 0 .. size : ring[k] = n
          /\ \A k, l \in 0 .. size : ring[k] = ring[l] => k = l
          /\ Threads!RingThrough(ring, size)
    BY DEF Threads!IsRingOf
  <1>3. /\ flink \in [Clients \union {ListHead} -> Clients \union {ListHead, Null}]
        /\ blink \in [Clients \union {ListHead} -> Clients \union {ListHead, Null}]
    BY DEF Threads!ListTypeOK
  <1> DEFINE first == flink[ListHead]
  <1>4. /\ ring[0] = ListHead
        /\ \A k \in 0 .. size - 1 : flink[ring[k]] = ring[k + 1] /\ blink[ring[k + 1]] = ring[k]
        /\ flink[ring[size]] = ListHead /\ blink[ListHead] = ring[size]
    BY <1>2 DEF Threads!RingThrough
  <1>5. /\ size = 0 => first = ListHead
        /\ size # 0 => first = ring[1]
        /\ first \in S \union {ListHead}
    <2>1. CASE size = 0
      BY <1>4, <2>1
    <2>2. CASE size # 0
      <3>1. 0 \in 0 .. size - 1 /\ 1 \in 0 .. size
        BY <1>1, <2>2
      <3>2. QED
        BY <1>2, <1>4, <2>2, <3>1
    <2>3. QED
      BY <2>1, <2>2
  <1> HIDE DEF first
  <1>6. /\ flink' = [flink EXCEPT ![e] = first, ![ListHead] = e]
        /\ blink' = [blink EXCEPT ![e] = ListHead, ![first] = e]
    BY DEF Threads!Push, first
  <1>7. /\ flink'[e] = first /\ flink'[ListHead] = e
        /\ \A n \in S : flink'[n] = flink[n]
        /\ blink'[e] = ListHead /\ blink'[first] = e
        /\ \A n \in S \union {ListHead} : n # first => blink'[n] = blink[n]
    BY <1>3, <1>5, <1>6
  <1>8. Threads!ListTypeOK'
    BY <1>3, <1>5, <1>6 DEF Threads!ListTypeOK
  <1>9. Threads!Linked' = T
    <2>1. Threads!Linked = S
      BY DEF Threads!IsRingOf
    <2>2. \A n \in Clients : flink'[n] # Null <=> n = e \/ flink[n] # Null
      BY <1>3, <1>5, <1>6
    <2>3. QED
      BY <2>1, <2>2 DEF Threads!Linked
  <1> DEFINE next == [k \in 0 .. size + 1 |->
                        IF k = 0 THEN ListHead ELSE IF k = 1 THEN e ELSE ring[k - 1]]
  <1>10. /\ next[0] = ListHead /\ next[1] = e
         /\ \A k \in 1 .. size : next[k + 1] = ring[k]
         /\ \A k \in 0 .. size + 1 : k = 0 \/ k = 1 \/ (k - 1 \in 1 .. size /\ next[k] = ring[k - 1])
    BY <1>1
  <1>11. \A k \in 1 .. size : ring[k] \in S
    BY <1>1, <1>2, <1>4
  <1>12. next \in [0 .. size + 1 -> T \union {ListHead}]
    BY <1>1, <1>11
  <1> HIDE DEF next
  <1>13. ASSUME NEW n \in T \union {ListHead}
         PROVE  \E k \in 0 .. size + 1 : next[k] = n
    <2>1. CASE n \in {e, ListHead}
      BY <1>1, <1>10, <2>1
    <2>2. CASE n \in S
      <3>1. PICK k \in 0 .. size : ring[k] = n
        BY <1>2, <2>2
      <3>2. k # 0
        BY <1>4, <2>2, <3>1
      <3>3. k + 1 \in 0 .. size + 1 /\ next[k + 1] = n
        BY <1>1, <1>10, <3>1, <3>2
      <3>4. QED
        BY <3>3
    <2>3. QED
      BY <2>1, <2>2
  <1>14. ASSUME NEW k \in 0 .. size + 1, NEW l \in 0 .. size + 1, next[k] = next[l]
         PROVE  k = l
    <2>1. \A j \in 0 .. size + 1 : j > 1 => next[j] \in S
      BY <1>1, <1>10, <1>11
    <2>2. CASE k > 1 /\ l > 1
      <3>1. k - 1 \in 0 .. size /\ l - 1 \in 0 .. size /\ ring[k - 1] = ring[l - 1]
        BY <1>1, <1>10, <1>14, <2>2
      <3>2. k - 1 = l - 1
        BY <1>2, <3>1
      <3>3. QED
        BY <3>2
    <2>3. CASE ~(k > 1 /\ l > 1)
      BY <1>1, <1>10, <1>14, <2>1, <2>3
    <2>4. QED
      BY <2>2, <2>3
  <1>15. ASSUME NEW k \in 0 .. size
         PROVE  flink'[next[k]] = next[k + 1] /\ blink'[next[k + 1]] = next[k]
    <2>1. CASE k = 0
      BY <1>7, <1>10, <2>1
    <2>2. CASE k = 1
      <3>1. next[2] = ring[1] /\ first = ring[1]
        BY <1>1, <1>5, <1>10, <2>2
      <3>2. QED
        BY <1>7, <1>10, <2>2, <3>1
    <2>3. CASE k > 1
      <3>1. /\ k - 1 \in 1 .. size /\ k \in 1 .. size /\ k - 1 \in 0 .. size - 1
            /\ next[k] = ring[k - 1] /\ next[k + 1] = ring[k] /\ 1 \in 0 .. size
        BY <1>1, <1>10, <2>3
      <3>2. flink[ring[k - 1]] = ring[k] /\ blink[ring[k]] = ring[k - 1]
        BY <1>4, <3>1
      <3>3. ring[k] # ring[1] /\ first = ring[1]
        BY <1>1, <1>2, <1>5, <2>3, <3>1
      <3>4. ring[k - 1] \in S /\ ring[k] \in S
        BY <1>11, <3>1
      <3>5. QED
        BY <1>7, <3>1, <3>2, <3>3, <3>4
    <2>4. QED
      BY <1>1, <2>1, <2>2, <2>3
  <1>16. flink'[next[size + 1]] = ListHead /\ blink'[ListHead] = next[size + 1]
    <2>1. CASE size = 0
      BY <1>5, <1>7, <1>10, <2>1
    <2>2. CASE size # 0
      <3>1. size \in 1 .. size /\ next[size + 1] = ring[size] /\ ring[size] \in S
        BY <1>1, <1>10, <1>11, <2>2
      <3>2. first # ListHead
        BY <1>1, <1>5, <1>11, <2>2
      <3>3. QED
        BY <1>4, <1>7, <3>1, <3>2
    <2>3. QED
      BY <2>1, <2>2
  <1>17. Threads!RingThrough(next, size + 1)'
    <2>1. \A k \in 0 .. (size + 1) - 1 :
             flink'[next[k]] = next[k + 1] /\ blink'[next[k + 1]] = next[k]
      BY <1>1, <1>15
    <2>2. QED
      BY <1>10, <1>16, <2>1 DEF Threads!RingThrough
  <1>18. Threads!IsRingOf(T, size + 1)'
    BY <1>1, <1>9, <1>12, <1>13, <1>14, <1>17 DEF Threads!IsRingOf
  <1>19. QED
    BY <1>8, <1>18

LEMMA RingStays ==
  ASSUME NEW S, NEW size, Threads!IsRingOf(S, size), UNCHANGED <<flink, blink>>
  PROVE  Threads!IsRingOf(S, size)'
  BY DEF Threads!IsRingOf, Threads!Linked, Threads!RingThrough

----------------------------------------------------------------------------
(* The inductive invariant.                                                *)

LEMMA InitInv == Init => IInv
  <1> SUFFICES ASSUME Init PROVE IInv
    OBVIOUS
  <1>1. TcpInv
    BY TcpInitInv DEF Init
  <1>2. Threads!ListTypeOK /\ Threads!IsRingOf({}, 0)
    BY EmptyRing DEF Init
  <1>3. TypeOK
    BY <1>1, <1>2 DEF Init, TypeOK, TcpInv
  <1>4. EveryThreadListed
    <2>1. Listed = {}
      BY DEF Init, Listed, Created
    <2>2. QED
      BY <1>2, <2>1, FS_EmptySet DEF EveryThreadListed
  <1>5. MainHolds /\ OwnThread /\ LeakedOnlyByReset
    BY DEF Init, TcpInit, MainHolds, OwnThread, LeakedOnlyByReset, Open, Running, Created
  <1>6. NothingHeldBack /\ AnsweredBeforeClose
    BY DEF Init, TcpInit, NothingHeldBack, AnsweredBeforeClose
  <1>7. QED
    BY <1>1, <1>3, <1>4, <1>5, <1>6 DEF IInv

(* A thread that has fetched its descriptor serves its own client, which   *)
(* is connected.                                                           *)
LEMMA ServesOwn ==
  ASSUME IInv, main # "gone", NEW t \in Clients, thread[t] \in {"read", "write", "close"}
  PROVE  serves[t] = t /\ conn[t] = "open"
  BY DEF IInv, OwnThread, Running

(* Where the kernel's part of each step leaves the environment's invariant. *)
LEMMA TcpStep ==
  ASSUME IInv, Next
  PROVE  TcpInv'
  <1> USE DEF IInv
  <1>1. CASE Accept
    BY <1>1, AcceptInv DEF Accept
  <1>2. CASE AcceptFails \/ StartFails
    BY <1>2, ExitInv DEF AcceptFails, StartFails, Exit
  <1>3. CASE StartThread \/ PushThread
    BY <1>3, TcpUnchanged DEF StartThread, PushThread
  <1>4. ASSUME NEW t \in Clients, FetchDescriptor(t) \/ ReadEnds(t) \/ WriteFails(t)
        PROVE  TcpInv'
    BY <1>4, TcpUnchanged DEF FetchDescriptor, ReadEnds, WriteFails
  <1>5. ASSUME NEW t \in Clients, ReadData(t)
        PROVE  TcpInv'
    <2>1. serves[t] = t /\ conn[t] = "open"
      BY <1>5, ServesOwn DEF ReadData, Go
    <2>2. QED
      BY <1>5, <2>1, ReadInv DEF ReadData
  <1>6. ASSUME NEW t \in Clients, Write(t)
        PROVE  TcpInv'
    <2>1. serves[t] = t /\ conn[t] = "open"
      BY <1>6, ServesOwn DEF Write, Go
    <2>2. QED
      BY <1>6, <2>1, WriteInv DEF Write
  <1>7. ASSUME NEW t \in Clients, Killed(t)
        PROVE  TcpInv'
    BY <1>7, ExitInv DEF Killed, Exit
  <1>8. ASSUME NEW t \in Clients, Close(t)
        PROVE  TcpInv'
    <2>1. serves[t] = t /\ conn[t] = "open"
      BY <1>8, ServesOwn DEF Close, Go
    <2>2. QED
      BY <1>8, <2>1, CloseInv DEF Close
  <1>9. ASSUME NEW c \in Clients, ClientMove(c)
        PROVE  TcpInv'
    BY <1>9, ClientStepInv DEF ClientMove
  <1>10. QED
    BY <1>1, <1>2, <1>3, <1>4, <1>5, <1>6, <1>7, <1>8, <1>9 DEF Next, Main, Thread

(* The exit of the process: whatever is said of a living server holds, and *)
(* no connection is left.                                                  *)
LEMMA ExitKeeps ==
  ASSUME IInv, Exit
  PROVE  /\ TypeOK' /\ MainHolds' /\ OwnThread' /\ EveryThreadListed' /\ LeakedOnlyByReset'
         /\ NothingHeldBack' /\ AnsweredBeforeClose'
  <1>1. main' = "gone" /\ listening' = FALSE
        /\ UNCHANGED <<current, fresh, thread, serves, flink, blink>>
    BY DEF Exit, ProcessExit
  <1>2. TcpTypeOK'
    BY ExitInv DEF Exit, IInv, TcpInv
  <1>3. TypeOK'
    BY <1>1, <1>2 DEF IInv, TypeOK, Threads!ListTypeOK
  <1>4. Open' = {}
    BY DEF Exit, ProcessExit, ClosedByExit, Established, Open
  <1>5. QED
    BY <1>1, <1>3, <1>4
       DEF MainHolds, OwnThread, EveryThreadListed, LeakedOnlyByReset, NothingHeldBack,
           AnsweredBeforeClose

(* Types, and what main() has in hand.                                     *)
LEMMA TypeStep ==
  ASSUME IInv, Next
  PROVE  TypeOK' /\ MainHolds'
  <1>1. TcpTypeOK'
    BY TcpStep DEF TcpInv
  <1>2. queue # <<>> => Head(queue) \in Clients /\ conn[Head(queue)] = "queued"
    BY QueueTail DEF IInv, TcpInv
  <1>3. conn \in [Clients -> {"none", "queued", "open", "closed"}]
    BY DEF IInv, TcpInv, TcpTypeOK
  <1> USE <1>1, ThreadedAssumption
      DEF IInv, TypeOK, MainHolds, Created, Go, Threads!ListTypeOK, Threads!Nodes
  <1>4. CASE Accept
    BY <1>2, <1>3, <1>4 DEF Accept, AcceptHead
  <1>5. CASE AcceptFails \/ StartFails
    BY <1>5, ExitKeeps DEF AcceptFails, StartFails
  <1>6. CASE StartThread
    BY <1>6 DEF StartThread, tcpVars
  <1>7. CASE PushThread
    BY <1>7 DEF PushThread, Threads!Push, tcpVars
  <1>8. ASSUME NEW t \in Clients, FetchDescriptor(t) \/ ReadEnds(t) \/ WriteFails(t)
        PROVE  TypeOK' /\ MainHolds'
    BY <1>8 DEF FetchDescriptor, ReadEnds, WriteFails, tcpVars
  <1>9. ASSUME NEW t \in Clients, ReadData(t) \/ Write(t)
        PROVE  TypeOK' /\ MainHolds'
    BY <1>9 DEF ReadData, Write
  <1>10. ASSUME NEW t \in Clients, Killed(t)
         PROVE  TypeOK' /\ MainHolds'
    BY <1>10, ExitKeeps DEF Killed
  <1>11. ASSUME NEW t \in Clients, Close(t)
         PROVE  TypeOK' /\ MainHolds'
    <2>1. serves[t] = t /\ conn[t] = "open"
      BY <1>11, ServesOwn DEF Close
    <2>2. QED
      BY <1>3, <1>11, <2>1 DEF Close
  <1>12. ASSUME NEW c \in Clients, ClientMove(c)
         PROVE  TypeOK' /\ MainHolds'
    <2>1. listening' = listening /\ \A d \in Clients : conn'[d] = "open" <=> conn[d] = "open"
      BY <1>12, ClientStepEffect DEF ClientMove
    <2>2. \A d \in Clients : conn'[d] \in {"none", "queued"} => conn[d] \in {"none", "queued"}
      BY <1>3, <1>12 DEF ClientMove, ClientStep, Connect, Send, Recv, Leave, Reset
    <2>3. QED
      BY <1>12, <2>1, <2>2 DEF ClientMove, threadVars
  <1>13. QED
    BY <1>4, <1>5, <1>6, <1>7, <1>8, <1>9, <1>10, <1>11, <1>12 DEF Next, Main, Thread

(* Whose the connections are and what is owed on them.                     *)
ConnInv == OwnThread /\ LeakedOnlyByReset /\ NothingHeldBack

LEMMA ConnStep ==
  ASSUME IInv, Next
  PROVE  ConnInv'
  <1> USE ThreadedAssumption
      DEF ConnInv, IInv, TypeOK, TcpInv, TcpTypeOK, MainHolds, OwnThread, LeakedOnlyByReset,
          NothingHeldBack, Running, Open, Created, Go
  <1>1. queue # <<>> => /\ Head(queue) \in Clients
                        /\ conn[Head(queue)] = "queued"
                        /\ got[Head(queue)] = echoed[Head(queue)]
    BY QueueTail DEF UntouchedUntilAccepted
  <1>2. CASE Accept
    BY <1>1, <1>2 DEF Accept, AcceptHead
  <1>3. CASE AcceptFails \/ StartFails
    BY <1>3, ExitKeeps DEF AcceptFails, StartFails
  <1>4. CASE StartThread
    <2>1. got[current] # echoed[current] => peer[current] = "rst"
      BY <1>4 DEF StartThread
    <2>2. QED
      BY <1>4, <2>1 DEF StartThread, tcpVars
  <1>5. CASE PushThread
    BY <1>5 DEF PushThread, tcpVars
  <1>6. ASSUME NEW t \in Clients, FetchDescriptor(t)
        PROVE  ConnInv'
    BY <1>6 DEF FetchDescriptor, tcpVars
  <1>7. ASSUME NEW t \in Clients, ReadData(t)
        PROVE  ConnInv'
    <2>1. serves[t] = t /\ conn[t] = "open" /\ ReadReturnsData(t)
      BY <1>7, ServesOwn DEF ReadData
    <2>2. /\ got'[t] > got[t] /\ \A c \in Clients : c # t => got'[c] = got[c]
          /\ got'[t] # echoed[t]
      <3>1. got'[t] > got[t]
        BY <1>7, <2>1, ReadInv DEF ReadData
      <3>2. echoed[t] <= got[t] /\ got' = [got EXCEPT ![t] = got'[t]] /\ got'[t] \in Int
        BY <2>1, TcpAssumption DEF ReadReturnsData, CountsOrdered, Unread
      <3>3. QED
        BY <3>1, <3>2
    <2>3. QED
      BY <1>7, <2>1, <2>2 DEF ReadData
  <1>8. ASSUME NEW t \in Clients, ReadEnds(t)
        PROVE  ConnInv'
    BY <1>8 DEF ReadEnds, tcpVars
  <1>9. ASSUME NEW t \in Clients, Write(t)
        PROVE  ConnInv'
    <2>1. serves[t] = t /\ conn[t] = "open"
      BY <1>9, ServesOwn DEF Write
    <2>2. QED
      BY <1>9, <2>1 DEF Write
  <1>10. ASSUME NEW t \in Clients, WriteFails(t)
         PROVE  ConnInv'
    <2>1. serves[t] = t /\ peer[t] = "rst" /\ got[t] # echoed[t]
      BY <1>10, ServesOwn DEF WriteFails, ReadReturnsError
    <2>2. QED
      BY <1>10, <2>1 DEF WriteFails, tcpVars
  <1>11. ASSUME NEW t \in Clients, Killed(t)
         PROVE  ConnInv'
    BY <1>11, ExitKeeps DEF Killed
  <1>12. ASSUME NEW t \in Clients, Close(t)
         PROVE  ConnInv'
    <2>1. serves[t] = t /\ conn[t] = "open"
      BY <1>12, ServesOwn DEF Close
    <2>2. QED
      BY <1>12, <2>1 DEF Close
  <1>13. ASSUME NEW c \in Clients, ClientMove(c)
         PROVE  ConnInv'
    BY <1>13, ClientStepEffect DEF ClientMove, threadVars
  <1>14. QED
    BY <1>2, <1>3, <1>4, <1>5, <1>6, <1>7, <1>8, <1>9, <1>10, <1>11, <1>12, <1>13
       DEF Next, Main, Thread

(* A thread is linked once, by the push() that follows its creation.       *)
LEMMA ListedStep ==
  ASSUME IInv, Next
  PROVE  EveryThreadListed'
  <1> SUFFICES ASSUME main' # "gone"
               PROVE  Threads!IsRingOf(Listed, Cardinality(Listed))'
    BY DEF EveryThreadListed
  <1>1. ASSUME main # "gone", Listed' = Listed, UNCHANGED <<flink, blink>>
        PROVE  Threads!IsRingOf(Listed, Cardinality(Listed))'
    <2>1. PICK S, size : S = Listed /\ size = Cardinality(Listed)
      OBVIOUS
    <2>2. Threads!IsRingOf(S, size)
      BY <1>1, <2>1 DEF IInv, EveryThreadListed
    <2>3. Threads!IsRingOf(S, size)'
      BY <1>1, <2>2, RingStays
    <2>4. S = Listed' /\ size = Cardinality(Listed')
      BY <1>1, <2>1
    <2>5. QED
      BY <2>3, <2>4
  <1>2. ASSUME NEW t \in Clients, Thread(t)
        PROVE  Threads!IsRingOf(Listed, Cardinality(Listed))'
    <2>1. ASSUME ~Killed(t)
          PROVE  /\ main # "gone" /\ main' = main /\ UNCHANGED <<current, flink, blink>>
                 /\ \A u \in Clients : thread'[u] # "none" <=> thread[u] # "none"
      BY <1>2, <2>1
         DEF Thread, FetchDescriptor, ReadData, ReadEnds, Write, WriteFails, Close, Go,
             IInv, TypeOK
    <2>2. ~Killed(t)
      BY DEF Killed, Exit
    <2>3. Listed' = Listed
      BY <2>1, <2>2 DEF Listed, Created
    <2>4. QED
      BY <1>1, <2>1, <2>2, <2>3
  <1>3. ASSUME Accept \/ \E c \in Clients : ClientMove(c)
        PROVE  Threads!IsRingOf(Listed, Cardinality(Listed))'
    <2>1. /\ main # "gone" /\ UNCHANGED <<thread, flink, blink>>
          /\ (main = "push" <=> main' = "push") /\ (main = "push" => current' = current)
      BY <1>3 DEF Accept, ClientMove, threadVars
    <2>2. Listed' = Listed
      BY <2>1 DEF Listed, Created
    <2>3. QED
      BY <1>1, <2>1, <2>2
  <1>4. CASE StartThread
    <2>1. current \in Clients /\ thread[current] = "none"
      BY <1>4 DEF StartThread, IInv, MainHolds
    <2>2. Created' = Created \union {current} /\ current \notin Created
      BY <1>4, <2>1 DEF StartThread, Created, IInv, TypeOK
    <2>3. Listed' = Listed
      BY <1>4, <2>2 DEF StartThread, Listed
    <2>4. QED
      BY <1>1, <1>4, <2>3 DEF StartThread
  <1>5. CASE PushThread
    <2>1. PICK S, size, e : S = Listed /\ size = Cardinality(Listed) /\ e = current
      OBVIOUS
    <2>2. current \in Created /\ Created \subseteq Clients
      BY <1>5 DEF PushThread, IInv, MainHolds, Created
    <2>3. Listed' = Created /\ Listed = Created \ {current}
      BY <1>5 DEF PushThread, Listed, Created
    <2>4. S \in SUBSET Clients /\ e \in Clients \ S /\ Listed' = S \union {e}
      BY <2>1, <2>2, <2>3
    <2>5. size \in Nat /\ Cardinality(Listed') = size + 1
      <3>1. IsFiniteSet(S)
        BY <2>4, FS_Subset, TcpAssumption
      <3>2. size = Cardinality(S) /\ Cardinality(S) \in Nat
        BY <2>1, <3>1, FS_CardinalityType
      <3>3. Cardinality(S \union {e}) = Cardinality(S) + 1
        BY <2>4, <3>1, FS_AddElement
      <3>4. QED
        BY <2>4, <3>2, <3>3
    <2>6. Threads!IsRingOf(S, size) /\ Threads!ListTypeOK /\ Threads!Push(e)
      BY <1>5, <2>1 DEF PushThread, IInv, EveryThreadListed, TypeOK
    <2>7. Threads!IsRingOf(S \union {e}, size + 1)'
      BY <2>4, <2>5, <2>6, PushRing
    <2>8. QED
      BY <2>4, <2>5, <2>7
  <1>6. CASE AcceptFails \/ StartFails
    BY <1>6 DEF AcceptFails, StartFails, Exit
  <1>7. QED
    BY <1>2, <1>3, <1>4, <1>5, <1>6 DEF Next, Main

(* A client that has left sends nothing more, and its thread is past       *)
(* writing.                                                                *)
LEMMA AnsweredStep ==
  ASSUME IInv, Next
  PROVE  AnsweredBeforeClose'
  <1> USE DEF IInv, TypeOK, TcpInv, TcpTypeOK, AnsweredBeforeClose, Go
  <1>1. CASE Main
    BY <1>1, ExitKeeps
       DEF Main, Accept, AcceptHead, AcceptFails, StartThread, StartFails, PushThread, tcpVars
  <1>2. ASSUME NEW t \in Clients, FetchDescriptor(t) \/ WriteFails(t) \/ ReadData(t)
        PROVE  AnsweredBeforeClose'
    <2>1. WriteFails(t) => serves[t] = t /\ peer[t] = "rst"
      BY ServesOwn DEF WriteFails, ReadReturnsError
    <2>2. QED
      BY <1>2, <2>1 DEF FetchDescriptor, WriteFails, ReadData, tcpVars
  <1>3. ASSUME NEW t \in Clients, ReadEnds(t)
        PROVE  AnsweredBeforeClose'
    <2>1. serves[t] = t /\ thread[t] = "read" /\ main # "gone"
      BY <1>3, ServesOwn DEF ReadEnds
    <2>2. peer[t] = "rst" \/ (peer[t] = "fin" /\ echoed[t] = sent[t])
      BY <1>3, <2>1
         DEF ReadEnds, ReadReturnsEof, ReadReturnsError, Unread, NothingHeldBack
    <2>3. QED
      BY <1>3, <2>1, <2>2 DEF ReadEnds, tcpVars
  <1>4. ASSUME NEW t \in Clients, Write(t)
        PROVE  AnsweredBeforeClose'
    <2>1. serves[t] = t
      BY <1>4, ServesOwn DEF Write
    <2>2. QED
      BY <1>4, <2>1 DEF Write
  <1>5. ASSUME NEW t \in Clients, Killed(t)
        PROVE  AnsweredBeforeClose'
    BY <1>5, ExitKeeps DEF Killed
  <1>6. ASSUME NEW t \in Clients, Close(t)
        PROVE  AnsweredBeforeClose'
    BY <1>6 DEF Close
  <1>7. ASSUME NEW c \in Clients, ClientMove(c)
        PROVE  AnsweredBeforeClose'
    <2>1. /\ echoed' = echoed
          /\ \A d \in Clients : peer[d] = "rst" => peer'[d] = "rst"
      BY <1>7, ClientStepEffect DEF ClientMove
    <2>2. \A d \in Clients : peer[d] = "fin" =>
             sent'[d] = sent[d] /\ peer'[d] \in {"fin", "rst"}
      BY <1>7 DEF ClientMove, ClientStep, Connect, Send, Recv, Leave, Reset
    <2>3. QED
      BY <1>7, <2>1, <2>2 DEF ClientMove, threadVars
  <1>8. QED
    BY <1>1, <1>2, <1>3, <1>4, <1>5, <1>6, <1>7 DEF Next, Thread

LEMMA StepInv == IInv /\ [Next]_vars => IInv'
  <1>1. ASSUME IInv, Next
        PROVE  IInv'
    BY <1>1, TcpStep, TypeStep, ConnStep, ListedStep, AnsweredStep DEF IInv, ConnInv
  <1>2. ASSUME IInv, UNCHANGED vars
        PROVE  IInv'
    <2>1. TcpInv'
      BY <1>2, TcpUnchanged DEF IInv, vars
    <2>2. EveryThreadListed'
      <3>1. PICK S, size : S = Listed /\ size = Cardinality(Listed)
        OBVIOUS
      <3>2. S = Listed' /\ size = Cardinality(Listed')
        BY <1>2, <3>1 DEF vars, threadVars, Listed, Created
      <3>3. main # "gone" => Threads!IsRingOf(S, size)
        BY <1>2, <3>1 DEF IInv, EveryThreadListed
      <3>4. main' # "gone" => Threads!IsRingOf(S, size)'
        BY <1>2, <3>3, RingStays DEF vars, threadVars
      <3>5. QED
        BY <3>2, <3>4 DEF EveryThreadListed
    <2>3. TypeOK' /\ MainHolds'
      BY <1>2 DEF IInv, vars, tcpVars, threadVars, TypeOK, TcpTypeOK, Threads!ListTypeOK,
                  MainHolds, Created
    <2>4. (OwnThread /\ LeakedOnlyByReset /\ NothingHeldBack /\ AnsweredBeforeClose)'
      BY <1>2 DEF IInv, vars, tcpVars, threadVars, OwnThread, Running, Open,
                  LeakedOnlyByReset, NothingHeldBack, AnsweredBeforeClose
    <2>5. QED
      BY <2>1, <2>2, <2>3, <2>4 DEF IInv
  <1>3. QED
    BY <1>1, <1>2

(* IInv holds in every reachable state.                                    *)
THEOREM Invariance == Spec => []IInv
  BY InitInv, StepInv, PTL DEF Spec

(* Every variable keeps its type: no thread writes what it has not read.   *)
THEOREM TypeCorrect == Spec => []TypeOK
  BY Invariance, PTL DEF IInv

(* Each thread serves the client it was started for, however late it       *)
(* fetches its argument, and each client that is there has its thread.     *)
THEOREM OneThreadEach == Spec => []OwnThread
  BY Invariance, PTL DEF IInv

(* The list is one ring of exactly the threads that were started, linked   *)
(* both ways, but for the one main() is about to push.                     *)
THEOREM ListComplete == Spec => []EveryThreadListed
  BY Invariance, PTL DEF IInv

(* Only a client that was reset costs the server a descriptor for good.    *)
THEOREM LeakOnlyByReset == Spec => []LeakedOnlyByReset
  BY Invariance, PTL DEF IInv

(* What has been read and not written back is in the buffer of the         *)
(* client's own thread.                                                    *)
THEOREM BufferDrained == Spec => []NothingHeldBack
  BY Invariance, PTL DEF IInv

----------------------------------------------------------------------------
(* The server implements EchoService.                                      *)

LEMMA ExitRefines ==
  ASSUME IInv, main # "gone", Exit
  PROVE  Service!Next
  <1>1. listening = TRUE /\ listening' = FALSE /\ conn' = ClosedByExit
        /\ UNCHANGED <<peer, sent, echoed>>
    BY DEF Exit, ProcessExit, IInv, MainHolds, TypeOK, TcpTypeOK
  <1>2. ClosedByExit = [c \in Clients |->
                           IF conn[c] = "none" \/ c \in {} THEN conn[c] ELSE "closed"]
    BY DEF ClosedByExit, Established, IInv, TcpInv, TcpTypeOK
  <1>3. /\ conn' = [c \in Clients |->
                      IF conn[c] = "none" \/ c \in {} THEN conn[c] ELSE "closed"]
        /\ {} \in SUBSET {c \in Clients : conn[c] # "none"}
    BY <1>1, <1>2
  <1>4. Service!Stop
    BY <1>1, <1>3 DEF Service!Stop
  <1>5. QED
    BY <1>4 DEF Service!Next

LEMMA StepRefines == IInv /\ [Next]_vars => [Service!Next]_(Service!echoVars)
  <1> SUFFICES ASSUME IInv, [Next]_vars
               PROVE  Service!Next \/ UNCHANGED Service!echoVars
    OBVIOUS
  <1>1. CASE Accept
    <2>1. /\ queue # <<>> /\ Head(queue) \in Clients /\ conn[Head(queue)] = "queued"
          /\ listening = TRUE
      BY <1>1, QueueTail
         DEF Accept, AcceptHead, IInv, TcpInv, MainHolds, TypeOK, TcpTypeOK
    <2>2. Service!TakeOver(Head(queue))
      BY <1>1, <2>1 DEF Accept, AcceptHead, Service!TakeOver
    <2>3. QED
      BY <2>1, <2>2 DEF Service!Next
  <1>2. CASE AcceptFails \/ StartFails
    BY <1>2, ExitRefines DEF AcceptFails, StartFails
  <1>3. CASE StartThread \/ PushThread
    BY <1>3 DEF StartThread, PushThread, tcpVars, Service!echoVars
  <1>4. ASSUME NEW t \in Clients,
               FetchDescriptor(t) \/ ReadData(t) \/ ReadEnds(t) \/ WriteFails(t)
        PROVE  UNCHANGED Service!echoVars
    BY <1>4 DEF FetchDescriptor, ReadData, ReadEnds, WriteFails, tcpVars, Service!echoVars
  <1>5. ASSUME NEW t \in Clients, Write(t)
        PROVE  Service!Next
    <2>1. serves[t] = t /\ conn[t] = "open" /\ got[t] # echoed[t]
      BY <1>5, ServesOwn DEF Write, Go, IInv, NothingHeldBack
    <2>2. /\ echoed[t] \in Int /\ got[t] \in Int /\ sent[t] \in Int
          /\ echoed[t] <= got[t] /\ got[t] <= sent[t]
      BY DEF IInv, TcpInv, TcpTypeOK, CountsOrdered
    <2>3. got[t] \in echoed[t] + 1 .. sent[t]
      BY <2>1, <2>2
    <2>4. Service!Echo(t)
      BY <1>5, <2>1, <2>3 DEF Write, Service!Echo
    <2>5. QED
      BY <2>4 DEF Service!Next
  <1>6. ASSUME NEW t \in Clients, Killed(t)
        PROVE  Service!Next
    BY <1>6, ExitRefines DEF Killed
  <1>7. ASSUME NEW t \in Clients, Close(t)
        PROVE  Service!Next
    <2>1. serves[t] = t /\ conn[t] = "open"
      BY <1>7, ServesOwn DEF Close, Go
    <2>2. Service!Finished(t)
      BY <1>7 DEF Close, Go, IInv, AnsweredBeforeClose, Service!Finished
    <2>3. Service!HangUp(t)
      BY <1>7, <2>1, <2>2 DEF Close, Service!HangUp
    <2>4. QED
      BY <2>3 DEF Service!Next
  <1>8. ASSUME NEW c \in Clients, ClientMove(c)
        PROVE  Service!Next \/ UNCHANGED Service!echoVars
    <2>1. CASE Connect(c)
      BY <2>1 DEF Connect, Service!Next, Service!Request
    <2>2. CASE Send(c)
      BY <2>2 DEF Send, Established, Service!Next, Service!Say
    <2>3. CASE Recv(c)
      BY <2>3 DEF Recv, Service!echoVars
    <2>4. CASE Leave(c)
      BY <2>4 DEF Leave, Established, Service!Next, Service!Go
    <2>5. CASE Reset(c)
      BY <2>5 DEF Reset, Established, Service!Next, Service!Go
    <2>6. QED
      BY <1>8, <2>1, <2>2, <2>3, <2>4, <2>5 DEF ClientMove, ClientStep
  <1>9. CASE UNCHANGED vars
    BY <1>9 DEF vars, tcpVars, Service!echoVars
  <1>10. QED
    BY <1>1, <1>2, <1>3, <1>4, <1>5, <1>6, <1>7, <1>8, <1>9 DEF Next, Main, Thread

(* Every behaviour of threaded.c is one EchoService allows.                *)
THEOREM KeepsPromise == Spec => Promise
  <1>1. Init => Service!Init
    BY DEF Init, TcpInit, Service!Init
  <1>2. QED
    BY <1>1, Invariance, StepRefines, PTL DEF Spec, Promise, Service!Spec
=============================================================================
