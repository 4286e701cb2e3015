-------------------------- MODULE SelectServerProofs --------------------------
(***************************************************************************)
(* Proofs about SelectServer: its invariants hold for any number of        *)
(* clients, slots and descriptors, and it implements EchoService.          *)
(***************************************************************************)
EXTENDS SelectServer, TcpProofs, FiniteSetTheorems

(* Sets of descriptors are finite. *)
LEMMA FdsFinite ==
  ASSUME NEW S, S \subseteq Fds \union {SockFd}
  PROVE  IsFiniteSet(S) /\ Cardinality(S) \in Nat
  <1>1. SockFd \in Int /\ NoFile - 1 \in Int
    BY DescriptorsAssumption DEF SockFd
  <1>2. IsFiniteSet(SockFd .. NoFile - 1)
    BY <1>1, FS_Interval
  <1>3. S \in SUBSET (SockFd .. NoFile - 1)
    BY DescriptorsAssumption DEF Fds, SockFd
  <1>4. QED
    BY <1>2, <1>3, FS_Subset, FS_CardinalityType

(* Sets of slots are finite. *)
LEMMA SlotsFinite ==
  ASSUME NEW S, S \subseteq Slots
  PROVE  IsFiniteSet(S) /\ Cardinality(S) \in Nat
  <1>1. IsFiniteSet(Slots)
    BY FdSetSizeAssumption, FS_Interval DEF Slots, SockFd
  <1>2. QED
    BY <1>1, FS_Subset, FS_CardinalityType

(* When each descriptor of a report R sits in exactly one slot, as many    *)
(* slots are reported as descriptors.                                      *)
LEMMA ReportBijection ==
  ASSUME NEW tab \in [Slots -> Fds \union {-1}],
         NEW R \in SUBSET Fds,
         \A fd \in R : \E s \in Slots : tab[s] = fd,
         \A s, r \in Slots : tab[s] = tab[r] /\ s # r => tab[s] = -1
  PROVE  Cardinality({s \in Slots : tab[s] \in R}) = Cardinality(R)
  <1> DEFINE S == {s \in Slots : tab[s] \in R}
             f == [s \in S |-> tab[s]]
  <1>1. \A fd \in R : fd # -1
    BY DescriptorsAssumption DEF Fds, SockFd
  <1>2. f \in [S -> R]
    OBVIOUS
  <1>3. \A s, r \in S : f[s] = f[r] => s = r
    BY <1>1
  <1>4. \A fd \in R : \E s \in S : f[s] = fd
    OBVIOUS
  <1> HIDE DEF f, S
  <1>5. f \in Bijection(S, R)
    BY <1>2, <1>3, <1>4 DEF Bijection, Injection, Surjection, IsInjective
  <1>6. ExistsBijection(S, R)
    BY <1>5 DEF ExistsBijection
  <1>7. IsFiniteSet(S)
    BY SlotsFinite DEF S
  <1>8. QED
    BY <1>6, <1>7, FS_Bijection DEF S

(* The state in which process_ready_clients starts.                         *)
StartOfPass ==
    /\ TypeOK /\ DescriptorsTracked
    /\ pc = "process" /\ i = 0
    /\ ready_set \ {SockFd} \subseteq OpenFds
    /\ \A fd \in ready_set \ {SockFd} : FdReadable(fd)

(* When the pass starts, the slots it will find ready are exactly the      *)
(* client descriptors of the report.                                       *)
LEMMA BudgetAtStart ==
  StartOfPass => Cardinality(Pending) = Cardinality(ready_set \ {SockFd})
  <1> SUFFICES ASSUME StartOfPass
               PROVE  Cardinality(Pending) = Cardinality(ready_set \ {SockFd})
    OBVIOUS
  <1> USE DEF StartOfPass
  <1> DEFINE R == ready_set \ {SockFd}
  <1>1. Pending = {s \in Slots : clientfd[s] \in R}
    <2>1. \A s \in Slots : s >= 0
      BY DEF Slots
    <2>2. \A s \in Slots : SlotReady(s) <=> clientfd[s] \in R
      BY DescriptorsAssumption DEF SlotReady, TypeOK, Fds, SockFd
    <2>3. QED
      BY <2>1, <2>2 DEF Pending
  <1>2. R \in SUBSET Fds
    BY DEF OpenFds
  <1>3. \A fd \in R : \E s \in Slots : clientfd[s] = fd
    BY DEF DescriptorsTracked, Running
  <1>4. \A s, r \in Slots : clientfd[s] = clientfd[r] /\ s # r => clientfd[s] = -1
    BY DEF DescriptorsTracked, Running
  <1>5. QED
    BY <1>1, <1>2, <1>3, <1>4, ReportBijection DEF TypeOK
----------------------------------------------------------------------------
(* Each action preserves the inductive invariant.                          *)

LEMMA InitInv == Init => IInv
  <1> SUFFICES ASSUME Init PROVE IInv
    OBVIOUS
  <1> USE DEF Init
  <1>1. TcpInv
    BY TcpInitInv
  <1>2. TypeOK
    BY <1>1, DescriptorsAssumption, FdSetSizeAssumption
       DEF TypeOK, TcpInv, SockInit, SockTypeOK, Slots
  <1>3. OpenFds = {}
    BY DEF SockInit, OpenFds
  <1>4. SockOK
    BY <1>3 DEF SockOK, TcpInit
  <1>5. DescriptorsTracked
    BY <1>3 DEF DescriptorsTracked
  <1>6. RoundOK /\ ReadyBudget /\ ReportStillTrue
    BY DEF RoundOK, ReadyBudget, ReportStillTrue, TcpInit
  <1>7. NothingHeldBack
    BY DEF NothingHeldBack, TcpInit
  <1>8. QED
    BY <1>1, <1>2, <1>4, <1>5, <1>6, <1>7 DEF IInv

LEMMA ExitStep ==
  ASSUME IInv, Exit
  PROVE  IInv'
  <1> USE DEF Exit, ExitAll
  <1>1. TcpInv'
    BY ExitInv DEF IInv
  <1>2. TypeOK'
    BY <1>1 DEF IInv, TypeOK, TcpInv, SockTypeOK, ctx
  <1>3. OpenFds' = {}
    BY DEF OpenFds
  <1>4. \A c \in Clients : conn'[c] # "open"
    BY DEF IInv, TcpInv, TcpTypeOK, ProcessExit, ClosedByExit, Established
  <1>5. SockOK'
    BY <1>3, <1>4 DEF SockOK
  <1>6. DescriptorsTracked' /\ RoundOK' /\ NothingHeldBack'
    BY DEF DescriptorsTracked, RoundOK, NothingHeldBack, Running, ProcessExit
  <1>7. ReadyBudget' /\ ReportStillTrue'
    BY DEF ReadyBudget, ReportStillTrue
  <1>8. QED
    BY <1>1, <1>2, <1>5, <1>6, <1>7 DEF IInv

LEMMA SelectStep ==
  ASSUME IInv, Select
  PROVE  IInv'
  <1> USE DEF Select, Watched
  <1>1. TcpInv'
    BY TcpUnchanged DEF IInv
  <1>2. ready_set' \subseteq Fds \union {SockFd}
    BY DEF IInv, TypeOK
  <1>3. Cardinality(ready_set') \in Nat
    BY <1>2, FdsFinite
  <1>4. TypeOK'
    BY <1>1, <1>2, <1>3 DEF IInv, TypeOK, TcpInv, SockTypeOK
  <1>5. SockOK'
    BY DEF IInv, SockOK, OpenFds, tcpVars
  <1>6. DescriptorsTracked'
    BY DEF IInv, DescriptorsTracked, Running, OpenFds
  <1>7. RoundOK'
    BY DEF IInv, RoundOK, FdReadable, Readable, Unread, tcpVars
  <1>8. ReadyBudget' /\ ReportStillTrue'
    BY DEF ReadyBudget, ReportStillTrue
  <1>9. NothingHeldBack'
    BY DEF IInv, NothingHeldBack, Running, tcpVars
  <1>10. QED
    BY <1>1, <1>4, <1>5, <1>6, <1>7, <1>8, <1>9 DEF IInv

(* The slots found ready stand for readable connections when the report does. *)
LEMMA ReportAtStart == StartOfPass => ReportStillTrue
  <1> SUFFICES ASSUME StartOfPass, NEW s \in Pending
               PROVE  Readable(sock[clientfd[s]])
    BY DEF ReportStillTrue
  <1>1. clientfd[s] \in ready_set /\ clientfd[s] > 0 /\ clientfd[s] \in Fds
    BY DEF Pending, SlotReady, TypeOK, StartOfPass
  <1>2. clientfd[s] # SockFd
    BY <1>1, DescriptorsAssumption DEF Fds, SockFd
  <1>3. QED
    BY <1>1, <1>2 DEF FdReadable, StartOfPass

LEMMA NoNewClientStep ==
  ASSUME IInv, NoNewClient
  PROVE  IInv'
  <1> USE DEF NoNewClient, StartProcessing, ListenerReady
  <1>1. UNCHANGED <<tcpVars, sock, ctx>> /\ pc' = "process" /\ i' = 0
    OBVIOUS
  <1>2. TcpInv' /\ SockOK'
    BY <1>1, TcpUnchanged DEF IInv, SockOK, OpenFds, tcpVars
  <1>3. TypeOK'
    BY <1>1, <1>2, FdSetSizeAssumption DEF IInv, TypeOK, TcpInv, SockTypeOK, ctx, SockFd
  <1>4. DescriptorsTracked'
    BY <1>1 DEF IInv, DescriptorsTracked, Running, OpenFds, ctx
  <1>5. RoundOK'
    BY <1>1 DEF IInv, RoundOK, tcpVars
  <1>6. /\ ready_set' \ {SockFd} \subseteq OpenFds'
        /\ ready_set' \ {SockFd} = ready_set'
        /\ nready' = Cardinality(ready_set')
        /\ \A fd \in ready_set' : FdReadable(fd)'
    BY <1>1 DEF IInv, RoundOK, DescriptorsTracked, Running, OpenFds, ctx,
                FdReadable, Readable, Unread, tcpVars
  <1>7. StartOfPass'
    BY <1>1, <1>3, <1>4, <1>6 DEF StartOfPass
  <1>8. ReadyBudget'
    <2>1. (StartOfPass => Cardinality(Pending) = Cardinality(ready_set \ {SockFd}))'
      BY BudgetAtStart, PTL
    <2>2. QED
      BY <1>6, <1>7, <2>1 DEF ReadyBudget
  <1>9. ReportStillTrue'
    BY <1>7, ReportAtStart, PTL
  <1>10. NothingHeldBack'
    BY <1>1 DEF IInv, NothingHeldBack, Running, tcpVars
  <1>11. QED
    BY <1>2, <1>3, <1>4, <1>5, <1>8, <1>9, <1>10 DEF IInv

(* A new client takes a free descriptor and a free slot; neither was in the report. *)
LEMMA TrackStep ==
  ASSUME IInv, pc = "accept", SockFd \in ready_set,
         NEW fd \in Fds, NEW s \in Slots,
         AcceptAs(fd), IsFirstFree(s), Track(fd, s),
         IF fd < FdSetSize THEN StartProcessing ELSE pc' = "undefined" /\ UNCHANGED i
  PROVE  IInv'
  <1> USE DEF AcceptAs, Track, SpendOne, HighWater
  <1> DEFINE c == Head(queue)
  <1>1. TcpInv'
    BY AcceptInv DEF IInv
  <1>2. c \in Clients /\ conn[c] = "queued" /\ queue # <<>>
    BY QueueTail DEF IInv, TcpInv, AcceptHead
  <1>3. /\ sock[fd] = NoClient /\ clientfd[s] = -1
        /\ fd > SockFd /\ fd \in Int /\ c # NoClient
    BY <1>2, DescriptorsAssumption DEF IsLowestFree, IsFirstFree, FreeSlots, IInv, TypeOK, Fds, SockFd
  <1>4. TypeOK'
    BY <1>1, <1>2, FdSetSizeAssumption
       DEF IInv, TypeOK, TcpInv, SockTypeOK, StartProcessing, SockFd
  <1>5. /\ OpenFds' = OpenFds \union {fd}
        /\ fd \notin OpenFds
        /\ \A gd \in OpenFds : sock'[gd] = sock[gd]
        /\ sock'[fd] = c
    BY <1>2, <1>3 DEF OpenFds, IInv, TypeOK, SockTypeOK
  <1>6. \A d \in Clients : conn'[d] = IF d = c THEN "open" ELSE conn[d]
    BY <1>2 DEF AcceptHead, IInv, TcpInv, TcpTypeOK
  <1>7. SockOK'
    <2>1. \A gd \in OpenFds : sock[gd] # c
      BY <1>2 DEF IInv, SockOK
    <2>2. \A gd \in OpenFds' : conn'[sock'[gd]] = "open"
      BY <1>2, <1>5, <1>6, <2>1 DEF IInv, SockOK, OpenFds, TypeOK, SockTypeOK
    <2>3. \A gd, hd \in OpenFds' : sock'[gd] = sock'[hd] => gd = hd
      BY <1>5, <2>1 DEF IInv, SockOK
    <2>4. \A d \in Clients : conn'[d] = "open" => \E gd \in OpenFds' : sock'[gd] = d
      BY <1>5, <1>6 DEF IInv, SockOK
    <2>5. QED
      BY <2>2, <2>3, <2>4 DEF SockOK
  <1>8. clientfd' = [clientfd EXCEPT ![s] = fd] /\ clientfd \in [Slots -> Fds \union {-1}]
    BY DEF IInv, TypeOK
  <1>9. DescriptorsTracked'
    <2>1. read_set' = OpenFds' \union {SockFd}
      BY <1>5 DEF IInv, DescriptorsTracked, Running
    <2>2. ASSUME NEW gd \in OpenFds' PROVE \E r \in Slots : clientfd'[r] = gd
      <3>1. CASE gd = fd
        BY <3>1, <1>8
      <3>2. CASE gd # fd
        <4>1. PICK r \in Slots : clientfd[r] = gd
          BY <3>2, <1>5 DEF IInv, DescriptorsTracked, Running
        <4>2. gd # -1
          BY DescriptorsAssumption DEF OpenFds, Fds, SockFd
        <4>3. r # s
          BY <4>1, <4>2, <1>3
        <4>4. QED
          BY <4>1, <4>3, <1>8
      <3>3. QED
        BY <3>1, <3>2
    <2>3. \A r \in Slots : clientfd'[r] # -1 => clientfd'[r] \in OpenFds'
      BY <1>5, <1>8 DEF IInv, DescriptorsTracked, Running
    <2>4. \A r, q \in Slots : clientfd'[r] = clientfd'[q] /\ r # q => clientfd'[r] = -1
      BY <1>3, <1>5, <1>8 DEF IInv, DescriptorsTracked, Running
    <2>5. \A r \in Slots : clientfd'[r] # -1 => r <= maxi'
      BY <1>8 DEF IInv, DescriptorsTracked, Running, TypeOK, Slots
    <2>6. \A gd \in OpenFds' : gd <= maxfd'
      BY <1>3, <1>5 DEF IInv, DescriptorsTracked, Running, TypeOK, OpenFds, Fds, SockFd
    <2>7. QED
      BY <2>1, <2>2, <2>3, <2>4, <2>5, <2>6 DEF DescriptorsTracked
  <1>10. pc' \in {"process", "undefined"}
    BY DEF StartProcessing
  <1>11. RoundOK' /\ NothingHeldBack'
    <2>1. RoundOK'
      BY <1>10 DEF IInv, RoundOK
    <2>2. ASSUME NEW d \in Clients, conn'[d] = "open", pc' = "process"
          PROVE  got[d] = echoed[d]
      <3>1. CASE d = c
        BY <3>1, <1>2 DEF IInv, TcpInv, UntouchedUntilAccepted
      <3>2. CASE d # c
        BY <3>2, <2>2, <1>6 DEF IInv, NothingHeldBack, Running
      <3>3. QED
        BY <3>1, <3>2
    <2>3. NothingHeldBack'
      BY <1>10, <2>2 DEF NothingHeldBack, Running
    <2>4. QED
      BY <2>1, <2>3
  <1>12. ReadyBudget' /\ ReportStillTrue'
    <2>1. CASE pc' = "undefined"
      BY <2>1 DEF ReadyBudget, ReportStillTrue
    <2>2. CASE pc' = "process"
      <3>1. i' = 0
        BY <2>2 DEF StartProcessing
      <3>2. ready_set' \ {SockFd} \subseteq OpenFds
        BY DEF IInv, RoundOK, DescriptorsTracked, Running
      <3>3. \A gd \in ready_set' \ {SockFd} : FdReadable(gd)'
        <4>1. SUFFICES ASSUME NEW gd \in ready_set \ {SockFd} PROVE FdReadable(gd)'
          OBVIOUS
        <4>2. gd \in OpenFds /\ sock'[gd] = sock[gd] /\ FdReadable(gd)
          BY <1>5, <3>2 DEF IInv, RoundOK
        <4>3. QED
          BY <4>2 DEF FdReadable, Readable, Unread
      <3>4. StartOfPass'
        BY <1>4, <1>5, <1>9, <2>2, <3>1, <3>2, <3>3 DEF StartOfPass
      <3>5. (StartOfPass => Cardinality(Pending) = Cardinality(ready_set \ {SockFd}))'
        BY BudgetAtStart, PTL
      <3>6. IsFiniteSet(ready_set)
        BY FdsFinite DEF IInv, TypeOK
      <3>7. /\ Cardinality(ready_set \ {SockFd}) = Cardinality(ready_set) - 1
            /\ nready = Cardinality(ready_set)
        BY <3>6, FS_RemoveElement DEF IInv, RoundOK
      <3>8. ReadyBudget'
        BY <3>4, <3>5, <3>7 DEF ReadyBudget
      <3>9. ReportStillTrue'
        BY <3>4, ReportAtStart, PTL
      <3>10. QED
        BY <3>8, <3>9
    <2>3. QED
      BY <1>10, <2>1, <2>2
  <1>13. QED
    BY <1>1, <1>4, <1>7, <1>9, <1>11, <1>12 DEF IInv

LEMMA NewClientStep ==
  ASSUME IInv, NewClient
  PROVE  IInv'
  <1>1. PICK fd \in Fds : AddClient(fd)
    BY DEF NewClient
  <1>2. CASE FreeSlots = {}
    BY <1>1, <1>2, ExitStep DEF AddClient
  <1>3. CASE FreeSlots # {}
    BY <1>1, <1>3, TrackStep DEF AddClient, NewClient, ListenerReady
  <1>4. QED
    BY <1>2, <1>3

LEMMA NewClientFailsStep ==
  ASSUME IInv, NewClientFails
  PROVE  IInv'
  BY ExitStep DEF NewClientFails

----------------------------------------------------------------------------
(* The pass over the slots.                                                *)

(* Where the pass stands: at a slot, and the ready one if it is to be read. *)
LEMMA AtSlot ==
  ASSUME IInv, pc = "process", LoopContinues
  PROVE  /\ i \in Slots
         /\ i + 1 \in 0 .. FdSetSize
         /\ SlotReady(i) <=> i \in Pending
         /\ SlotReady(i) => /\ clientfd[i] \in OpenFds
                           /\ sock[clientfd[i]] \in Clients
                           /\ conn[sock[clientfd[i]]] = "open"
  <1>1. i \in Slots /\ i + 1 \in 0 .. FdSetSize
    BY FdSetSizeAssumption DEF IInv, TypeOK, LoopContinues, Slots, SockFd
  <1>2. SlotReady(i) <=> i \in Pending
    BY <1>1 DEF Pending, Slots
  <1>3. SlotReady(i) => clientfd[i] \in OpenFds
    BY <1>1 DEF SlotReady, IInv, DescriptorsTracked, Running
  <1>4. SlotReady(i) => sock[clientfd[i]] \in Clients /\ conn[sock[clientfd[i]]] = "open"
    BY <1>3 DEF IInv, SockOK, OpenFds, TypeOK, SockTypeOK
  <1>5. QED
    BY <1>1, <1>2, <1>3, <1>4

LEMMA SkipSlotStep ==
  ASSUME IInv, SkipSlot
  PROVE  IInv'
  <1> USE DEF SkipSlot
  <1>1. i \in Slots /\ i + 1 \in 0 .. FdSetSize /\ i \notin Pending
    BY AtSlot
  <1>2. TcpInv' /\ SockOK'
    BY TcpUnchanged DEF IInv, SockOK, OpenFds, tcpVars
  <1>3. TypeOK'
    BY <1>1, <1>2 DEF IInv, TypeOK, TcpInv, SockTypeOK, ctx
  <1>4. DescriptorsTracked' /\ RoundOK' /\ NothingHeldBack'
    BY DEF IInv, DescriptorsTracked, RoundOK, NothingHeldBack, Running, OpenFds, ctx, tcpVars
  <1>5. Pending' = Pending
    BY <1>1 DEF Pending, SlotReady, ctx, Slots
  <1>6. ReadyBudget' /\ ReportStillTrue'
    BY <1>5 DEF IInv, ReadyBudget, ReportStillTrue, ctx, tcpVars, Readable, Unread
  <1>7. QED
    BY <1>2, <1>3, <1>4, <1>6 DEF IInv

(* Reading a slot takes it off the budget. *)
LEMMA BudgetStep ==
  ASSUME IInv, pc \in {"process", "write"}, i \in Pending
  PROVE  Cardinality(Pending \ {i}) = nready - 1
  <1>1. IsFiniteSet(Pending) /\ Cardinality(Pending) \in Nat
    BY SlotsFinite DEF Pending
  <1>2. QED
    BY <1>1, FS_RemoveElement DEF IInv, ReadyBudget

LEMMA ReadClientStep ==
  ASSUME IInv, ReadClient
  PROVE  IInv'
  <1> USE DEF ReadClient, SpendOne
  <1> DEFINE c == sock[clientfd[i]]
  <1>1. /\ i \in Slots /\ i \in Pending
        /\ clientfd[i] \in OpenFds /\ c \in Clients /\ conn[c] = "open"
    BY AtSlot
  <1>2. TcpInv'
    BY <1>1, ReadInv DEF IInv
  <1>3. SockOK'
    BY DEF IInv, SockOK, OpenFds
  <1>4. TypeOK'
    BY <1>2 DEF IInv, TypeOK, TcpInv, SockTypeOK
  <1>5. DescriptorsTracked' /\ RoundOK'
    BY <1>1 DEF IInv, DescriptorsTracked, RoundOK, Running, OpenFds
  <1>6. \A d \in Clients : d # c => got'[d] = got[d]
    BY DEF ReadReturnsData, IInv, TcpInv, TcpTypeOK
  <1>7. NothingHeldBack'
    BY <1>6 DEF IInv, NothingHeldBack, Running
  <1>8. Pending' = Pending \ {i}
    BY <1>1 DEF Pending, SlotReady, Slots
  <1>9. ReadyBudget'
    BY <1>1, <1>8, BudgetStep DEF ReadyBudget
  <1>10. ReportStillTrue'
    <2>1. SUFFICES ASSUME NEW s \in Pending \ {i}
                   PROVE  Readable(sock[clientfd[s]])'
      BY <1>8 DEF ReportStillTrue
    <2>2. s \in Slots /\ clientfd[s] \in OpenFds /\ clientfd[s] # clientfd[i]
      BY <1>1, DescriptorsAssumption
         DEF Pending, SlotReady, IInv, DescriptorsTracked, Running, OpenFds, Fds, SockFd
    <2>3. sock[clientfd[s]] # c /\ sock[clientfd[s]] \in Clients
      BY <1>1, <2>2 DEF IInv, SockOK, OpenFds, TypeOK, SockTypeOK
    <2>4. Readable(sock[clientfd[s]])
      BY DEF IInv, ReportStillTrue
    <2>5. QED
      BY <1>6, <2>3, <2>4 DEF Readable, Unread
  <1>11. QED
    BY <1>2, <1>3, <1>4, <1>5, <1>7, <1>9, <1>10 DEF IInv

LEMMA CloseClientStep ==
  ASSUME IInv, CloseClient
  PROVE  IInv'
  <1> USE DEF CloseClient, CloseFd, SpendOne, ReleaseSlot
  <1> DEFINE c == sock[clientfd[i]]
             gd == clientfd[i]
  <1>1. /\ i \in Slots /\ i + 1 \in 0 .. FdSetSize /\ i \in Pending
        /\ gd \in OpenFds /\ c \in Clients /\ conn[c] = "open"
    BY AtSlot
  <1>2. TcpInv'
    BY <1>1, CloseInv DEF IInv
  <1>3. TypeOK'
    BY <1>1, <1>2, DescriptorsAssumption DEF IInv, TypeOK, TcpInv, SockTypeOK, OpenFds
  <1>4. /\ OpenFds' = OpenFds \ {gd}
        /\ \A fd \in OpenFds' : sock'[fd] = sock[fd] /\ sock[fd] # c
        /\ \A d \in Clients : conn'[d] = IF d = c THEN "closed" ELSE conn[d]
        /\ \A s \in Slots : clientfd'[s] = IF s = i THEN -1 ELSE clientfd[s]
        /\ gd \in Fds /\ gd # -1 /\ gd # SockFd /\ gd \in Int /\ gd > 0
    BY <1>1, DescriptorsAssumption
       DEF OpenFds, IInv, TypeOK, TcpInv, TcpTypeOK, SockOK, SockTypeOK, Fds, SockFd
  <1>5. SockOK'
    <2>1. \A fd \in OpenFds' : conn'[sock'[fd]] = "open"
      BY <1>4 DEF IInv, SockOK, OpenFds, TypeOK, SockTypeOK
    <2>2. \A fd, hd \in OpenFds' : sock'[fd] = sock'[hd] => fd = hd
      BY <1>4 DEF IInv, SockOK
    <2>3. \A d \in Clients : conn'[d] = "open" => \E fd \in OpenFds' : sock'[fd] = d
      BY <1>4 DEF IInv, SockOK
    <2>4. QED
      BY <2>1, <2>2, <2>3 DEF SockOK
  <1>6. DescriptorsTracked'
    <2> USE DEF IInv, DescriptorsTracked, Running
    <2>1. read_set' = OpenFds' \union {SockFd}
      BY <1>4
    <2>2. ASSUME NEW fd \in OpenFds' PROVE \E s \in Slots : clientfd'[s] = fd
      <3>1. PICK s \in Slots : clientfd[s] = fd
        BY <1>4
      <3>2. s # i
        BY <3>1, <1>4
      <3>3. QED
        BY <3>1, <3>2, <1>4
    <2>3. \A s \in Slots : clientfd'[s] # -1 => clientfd'[s] \in OpenFds'
      BY <1>1, <1>4
    <2>4. \A s, r \in Slots : clientfd'[s] = clientfd'[r] /\ s # r => clientfd'[s] = -1
      BY <1>4
    <2>5. \A s \in Slots : clientfd'[s] # -1 => s <= maxi'
      BY <1>4
    <2>6. \A fd \in OpenFds' : fd <= maxfd'
      BY <1>4
    <2>7. QED
      BY <2>1, <2>2, <2>3, <2>4, <2>5, <2>6
  <1>7. RoundOK'
    BY DEF IInv, RoundOK
  <1>8. NothingHeldBack'
    BY <1>4 DEF IInv, NothingHeldBack, Running
  <1>9. Pending' = Pending \ {i}
    <2>1. \A s \in Slots : s # i => SlotReady(s)' = SlotReady(s)
      BY <1>4 DEF SlotReady
    <2>2. \A s \in Slots : s = i => ~SlotReady(s)'
      BY <1>4 DEF SlotReady
    <2>3. \A s \in Slots : s >= i + 1 <=> (s >= i /\ s # i)
      BY <1>1 DEF Slots
    <2>4. Pending' = {s \in Slots : s >= i + 1 /\ SlotReady(s)'}
      BY DEF Pending
    <2>5. Pending = {s \in Slots : s >= i /\ SlotReady(s)}
      BY DEF Pending
    <2>6. QED
      BY <2>1, <2>2, <2>3, <2>4, <2>5
  <1>10. ReadyBudget'
    BY <1>1, <1>9, BudgetStep DEF ReadyBudget
  <1>11. ReportStillTrue'
    <2>1. SUFFICES ASSUME NEW s \in Pending \ {i}
                   PROVE  Readable(sock[clientfd[s]])'
      BY <1>9 DEF ReportStillTrue
    <2>2. s \in Slots /\ clientfd[s] > 0 /\ clientfd[s] # gd
      BY <1>1, <1>4 DEF Pending, SlotReady, IInv, DescriptorsTracked, Running
    <2>3. clientfd[s] \in OpenFds' /\ clientfd'[s] = clientfd[s]
      BY <1>4, <2>2 DEF IInv, DescriptorsTracked, Running
    <2>4. Readable(sock[clientfd[s]])
      BY DEF IInv, ReportStillTrue
    <2>5. QED
      BY <1>4, <2>3, <2>4 DEF Readable, Unread
  <1>12. QED
    BY <1>2, <1>3, <1>5, <1>6, <1>7, <1>8, <1>10, <1>11 DEF IInv

LEMMA WriteClientStep ==
  ASSUME IInv, WriteClient
  PROVE  IInv'
  <1> USE DEF WriteClient
  <1> DEFINE c == sock[clientfd[i]]
  <1>1. /\ i \in Slots /\ clientfd[i] \in OpenFds
        /\ c \in Clients /\ conn[c] = "open"
    BY DEF IInv, RoundOK, SockOK, OpenFds, TypeOK, SockTypeOK
  <1>2. TcpInv'
    BY <1>1, WriteInv DEF IInv
  <1>3. TypeOK'
    BY <1>1, <1>2, FdSetSizeAssumption
       DEF IInv, TypeOK, TcpInv, SockTypeOK, ctx, Slots, SockFd
  <1>4. SockOK' /\ DescriptorsTracked' /\ RoundOK'
    BY DEF IInv, SockOK, DescriptorsTracked, RoundOK, Running, OpenFds, ctx
  <1>5. \A d \in Clients : echoed'[d] = IF d = c THEN got[c] ELSE echoed[d]
    BY DEF IInv, TcpInv, TcpTypeOK
  <1>6. NothingHeldBack'
    BY <1>5 DEF IInv, NothingHeldBack, Running
  <1>7. Pending' = Pending
    <2>1. \A s \in Slots : s >= i + 1 <=> s > i
      BY <1>1 DEF Slots
    <2>2. QED
      BY <2>1 DEF Pending, SlotReady, ctx
  <1>8. ReadyBudget' /\ ReportStillTrue'
    BY <1>7 DEF IInv, ReadyBudget, ReportStillTrue, ctx, Readable, Unread
  <1>9. QED
    BY <1>2, <1>3, <1>4, <1>6, <1>8 DEF IInv

LEMMA EndRoundStep ==
  ASSUME IInv, EndRound
  PROVE  IInv'
  <1> USE DEF EndRound
  <1>1. TcpInv' /\ SockOK'
    BY TcpUnchanged DEF IInv, SockOK, OpenFds, tcpVars
  <1>2. TypeOK'
    BY <1>1 DEF IInv, TypeOK, TcpInv, SockTypeOK, ctx
  <1>3. DescriptorsTracked' /\ RoundOK' /\ NothingHeldBack'
    BY DEF IInv, DescriptorsTracked, RoundOK, NothingHeldBack, Running, OpenFds, ctx, tcpVars
  <1>4. ReadyBudget' /\ ReportStillTrue'
    BY DEF ReadyBudget, ReportStillTrue
  <1>5. QED
    BY <1>1, <1>2, <1>3, <1>4 DEF IInv

LEMMA ClientMoveStep ==
  ASSUME IInv, NEW c \in Clients, ClientMove(c)
  PROVE  IInv'
  <1> USE DEF ClientMove
  <1>1. TcpInv'
    BY ClientStepInv DEF IInv
  <1>2. /\ got' = got /\ echoed' = echoed /\ listening' = listening
        /\ \A d \in Clients : conn'[d] = "open" <=> conn[d] = "open"
        /\ \A d \in Clients : Readable(d) => Readable(d)'
    BY ClientStepEffect DEF IInv
  <1>3. TypeOK'
    BY <1>1 DEF IInv, TypeOK, TcpInv, SockTypeOK, ctx
  <1>4. SockOK' /\ OpenFds' = OpenFds
    BY <1>2 DEF IInv, SockOK, OpenFds, TypeOK, SockTypeOK
  <1>5. DescriptorsTracked'
    BY <1>4 DEF IInv, DescriptorsTracked, Running, ctx
  <1>6. NothingHeldBack'
    BY <1>2 DEF IInv, NothingHeldBack, Running, ctx
  <1>7. queue # <<>> => queue' # <<>>
    BY DEF ClientStep, Connect, Send, Recv, Leave, Reset, IInv, TcpInv, TcpTypeOK
  <1>8. RoundOK'
    <2>1. \A fd \in Fds \union {SockFd} : FdReadable(fd) => FdReadable(fd)'
      BY <1>2, <1>7 DEF FdReadable, IInv, TypeOK, SockTypeOK
    <2>2. QED
      BY <1>2, <1>4, <2>1 DEF IInv, RoundOK, TypeOK, ctx
  <1>9. Pending' = Pending
    BY DEF Pending, SlotReady, ctx
  <1>10. ReadyBudget'
    BY <1>9 DEF IInv, ReadyBudget, ctx
  <1>11. ReportStillTrue'
    <2>1. \A s \in Pending : pc \in {"process", "write"} => sock[clientfd[s]] \in Clients
      BY DEF Pending, SlotReady, IInv, DescriptorsTracked, Running, OpenFds, TypeOK, SockTypeOK
    <2>2. QED
      BY <1>2, <1>9, <2>1 DEF IInv, ReportStillTrue, ctx
  <1>12. QED
    BY <1>1, <1>3, <1>4, <1>5, <1>6, <1>8, <1>10, <1>11 DEF IInv

LEMMA StutterStep ==
  ASSUME IInv, UNCHANGED vars
  PROVE  IInv'
  <1>1. TcpInv' /\ SockOK'
    BY TcpUnchanged DEF vars, IInv, SockOK, OpenFds, tcpVars
  <1>2. TypeOK'
    BY <1>1 DEF vars, IInv, TypeOK, TcpInv, SockTypeOK, ctx
  <1>3. DescriptorsTracked' /\ NothingHeldBack'
    BY DEF vars, IInv, DescriptorsTracked, NothingHeldBack, Running, OpenFds, ctx, tcpVars
  <1>4. RoundOK'
    BY DEF vars, IInv, RoundOK, OpenFds, FdReadable, Readable, Unread, ctx, tcpVars
  <1>5. Pending' = Pending
    BY DEF vars, Pending, SlotReady, ctx
  <1>6. ReadyBudget' /\ ReportStillTrue'
    BY <1>5 DEF vars, IInv, ReadyBudget, ReportStillTrue, Readable, Unread, ctx, tcpVars
  <1>7. QED
    BY <1>1, <1>2, <1>3, <1>4, <1>6 DEF IInv

LEMMA NextInv == IInv /\ [Next]_vars => IInv'
  <1> SUFFICES ASSUME IInv, [Next]_vars PROVE IInv'
    OBVIOUS
  <1>1. CASE Select
    BY <1>1, SelectStep
  <1>2. CASE NoNewClient
    BY <1>2, NoNewClientStep
  <1>3. CASE NewClient
    BY <1>3, NewClientStep
  <1>4. CASE NewClientFails
    BY <1>4, NewClientFailsStep
  <1>5. CASE SkipSlot
    BY <1>5, SkipSlotStep
  <1>6. CASE ReadClient
    BY <1>6, ReadClientStep
  <1>7. CASE CloseClient
    BY <1>7, CloseClientStep
  <1>8. CASE WriteClient
    BY <1>8, WriteClientStep
  <1>9. CASE WriteFails
    BY <1>9, ExitStep DEF WriteFails
  <1>10. CASE EndRound
    BY <1>10, EndRoundStep
  <1>11. ASSUME NEW c \in Clients, ClientMove(c) PROVE IInv'
    BY <1>11, ClientMoveStep
  <1>12. CASE UNCHANGED vars
    BY <1>12, StutterStep
  <1>13. QED
    BY <1>1, <1>2, <1>3, <1>4, <1>5, <1>6, <1>7, <1>8, <1>9, <1>10, <1>11, <1>12
       DEF Next, ServerStep

(* The inductive invariant holds in every reachable state of select.c. *)
THEOREM Invariance == Spec => []IInv
  BY InitInv, NextInv, PTL DEF Spec

(* Type correctness. *)
THEOREM TypeCorrect == Spec => []TypeOK
  BY Invariance, PTL DEF IInv

(* The slots, the interest set, the high water marks and the open descriptors *)
(* of select.c always describe the same connections.                          *)
THEOREM Tracking == Spec => []DescriptorsTracked
  BY Invariance, PTL DEF IInv

(* nready is exactly the number of ready clients still to be served, however  *)
(* many clients there are.                                                    *)
THEOREM BudgetExact == Spec => []ReadyBudget
  BY Invariance, PTL DEF IInv

(* No round ends before every client it found ready has been served.         *)
THEOREM NobodyPassedOver == Spec => RoundServesAll
  <1>1. ASSUME IInv, EndRound PROVE Pending = {}
    <2> USE <1>1 DEF EndRound
    <2>1. CASE nready <= 0
      <3>1. IsFiniteSet(Pending) /\ Cardinality(Pending) \in Nat
        BY SlotsFinite DEF Pending
      <3>2. Cardinality(Pending) = 0
        BY <2>1, <3>1 DEF IInv, ReadyBudget
      <3>3. QED
        BY <3>1, <3>2, FS_EmptySet
    <2>2. CASE i > maxi
      <3>1. \A s \in Slots : s >= i => clientfd[s] = -1
        BY <2>2 DEF IInv, DescriptorsTracked, Running, TypeOK, Slots
      <3>2. QED
        BY <3>1 DEF Pending, SlotReady
    <2>3. QED
      BY <2>1, <2>2 DEF LoopContinues, IInv, TypeOK, Slots
  <1>2. IInv /\ [Next]_vars => [EndRound => Pending = {}]_vars
    BY <1>1
  <1>3. QED
    BY <1>2, Invariance, PTL DEF Spec, RoundServesAll

(* The pass never reads a connection that would block, so it never takes      *)
(* EAGAIN for a departure.                                                    *)
THEOREM NoStaleReport == Spec => []ReportStillTrue
  BY Invariance, PTL DEF IInv

(* No chunk stays behind in the server's buffer between two clients.          *)
THEOREM BufferDrained == Spec => []NothingHeldBack
  BY Invariance, PTL DEF IInv

----------------------------------------------------------------------------
(* What ends the server.                                                     *)

(* client.c never has more than one chunk outstanding, whatever the server does. *)
LEMMA OutstandingStays ==
  ASSUME IInv, OneChunkOutstanding, [Next]_vars
  PROVE  OneChunkOutstanding'
  <1> USE DEF OneChunkOutstanding
  <1>1. ASSUME UNCHANGED <<sent, rcvd, peer>> PROVE OneChunkOutstanding'
    BY <1>1
  <1>2. CASE Select \/ NoNewClient \/ SkipSlot \/ ReadClient \/ WriteClient \/ EndRound
             \/ UNCHANGED vars
    BY <1>1, <1>2 DEF Select, NoNewClient, SkipSlot, ReadClient, WriteClient, EndRound, vars, tcpVars
  <1>3. CASE CloseClient \/ NewClientFails \/ WriteFails
    BY <1>1, <1>3 DEF CloseClient, CloseFd, NewClientFails, WriteFails, Exit, ExitAll, ProcessExit
  <1>4. CASE NewClient
    BY <1>1, <1>4 DEF NewClient, AddClient, AcceptAs, Exit, ExitAll, ProcessExit
  <1>5. ASSUME NEW c \in Clients, ClientMove(c) PROVE OneChunkOutstanding'
    <2> USE <1>5, TcpAssumption DEF IInv, TcpInv, TcpTypeOK, CountsOrdered
    <2>1. CASE Connect(c)
      BY <1>1, <2>1 DEF Connect
    <2>2. CASE Send(c)
      BY <2>2 DEF Send, Settled
    <2>3. CASE Recv(c)
      BY <2>3 DEF Recv
    <2>4. CASE Leave(c)
      BY <2>4 DEF Leave, Settled
    <2>5. CASE Reset(c)
      BY <2>5 DEF Reset
    <2>6. QED
      BY <2>1, <2>2, <2>3, <2>4, <2>5 DEF ClientMove, ClientStep
  <1>6. QED
    BY <1>2, <1>3, <1>4, <1>5 DEF Next, ServerStep

(* A client that behaves as client.c always takes its echo. *)
LEMMA LockStepFits ==
  ASSUME TcpInv, OneChunkOutstanding, NEW c \in LockStep
  PROVE  WriteFits(c)
  <1>1. /\ c \in Clients /\ sent[c] \in Int /\ rcvd[c] \in Int /\ got[c] \in Int
        /\ got[c] <= sent[c]
    BY TcpAssumption DEF TcpInv, TcpTypeOK, CountsOrdered
  <1>2. QED
    BY <1>1, TcpAssumption DEF WriteFits, OneChunkOutstanding

(* However many clients there are, and in whatever order their calls and the  *)
(* server's happen: none that behaves as client.c makes a call of the loop    *)
(* fail, unless descriptors or slots run out.                                 *)
THEOREM OnlyProvokedExit == Spec => ExitProvoked
  <1>1. Init => OneChunkOutstanding
    BY TcpAssumption DEF Init, TcpInit, OneChunkOutstanding
  <1>2. IInv /\ OneChunkOutstanding /\ [Next]_vars => OneChunkOutstanding'
    BY OutstandingStays
  <1>3. ASSUME IInv, OneChunkOutstanding, [Next]_vars, pc # "exited", pc' = "exited"
        PROVE  \/ pc = "write" /\ sock[clientfd[i]] \notin LockStep
               \/ OpenFds = Fds \/ FreeSlots = {}
    <2> USE <1>3
    <2>1. CASE NewClient
      BY <2>1 DEF NewClient, AddClient, StartProcessing
    <2>2. CASE NewClientFails
      BY <2>2 DEF NewClientFails, AcceptFails, ListenerReady, IInv, RoundOK, FdReadable
    <2>3. CASE WriteFails
      BY <2>3, LockStepFits DEF WriteFails, IInv
    <2>4. CASE Select \/ NoNewClient \/ SkipSlot \/ ReadClient \/ CloseClient
               \/ WriteClient \/ EndRound \/ UNCHANGED vars
      BY <2>4 DEF Select, NoNewClient, StartProcessing, SkipSlot, ReadClient, CloseClient,
                  WriteClient, EndRound, vars
    <2>5. ASSUME NEW c \in Clients, ClientMove(c) PROVE FALSE
      BY <2>5 DEF ClientMove
    <2>6. QED
      BY <2>1, <2>2, <2>3, <2>4, <2>5 DEF Next, ServerStep
  <1>4. IInv /\ OneChunkOutstanding /\ [Next]_vars =>
          [pc # "exited" /\ pc' = "exited" =>
             \/ pc = "write" /\ sock[clientfd[i]] \notin LockStep
             \/ OpenFds = Fds \/ FreeSlots = {}]_vars
    BY <1>3
  <1>5. QED
    BY <1>1, <1>2, <1>4, Invariance, PTL DEF Spec, ExitProvoked

----------------------------------------------------------------------------
(* select.c implements EchoService.                                          *)

LEMMA ExitStops ==
  ASSUME IInv, pc # "exited", Exit
  PROVE  Service!Stop
  <1>1. listening /\ conn' = ClosedByExit /\ listening' = FALSE
    BY DEF IInv, RoundOK, Exit, ExitAll, ProcessExit
  <1>2. ClosedByExit = [c \in Clients |->
                           IF conn[c] = "none" \/ c \in {} THEN conn[c] ELSE "closed"]
    BY DEF ClosedByExit, Established, IInv, TcpInv, TcpTypeOK
  <1>3. QED
    BY <1>1, <1>2 DEF Service!Stop, Exit, ExitAll, ProcessExit

LEMMA CloseHangsUp ==
  ASSUME IInv, CloseClient
  PROVE  \E c \in Clients : Service!HangUp(c)
  <1> USE DEF CloseClient
  <1> DEFINE c == sock[clientfd[i]]
  <1>1. i \in Pending /\ c \in Clients /\ conn[c] = "open"
    BY AtSlot
  <1>2. Readable(c) /\ got[c] = echoed[c]
    BY <1>1 DEF IInv, ReportStillTrue, NothingHeldBack, Running
  <1>3. Service!Finished(c)
    <2>1. CASE peer[c] = "rst"
      BY <2>1 DEF Service!Finished
    <2>2. CASE peer[c] # "rst"
      <3>1. Unread(c) = 0 /\ peer[c] # "up"
        BY <1>2, <2>2 DEF ReadReturnsNothing, ReadReturnsError, Readable
      <3>2. peer[c] = "fin" /\ got[c] = sent[c]
        BY <1>1, <2>2, <3>1 DEF Unread, IInv, TcpInv, TcpTypeOK
      <3>3. QED
        BY <1>2, <3>2 DEF Service!Finished
    <2>3. QED
      BY <2>1, <2>2
  <1>4. QED
    BY <1>1, <1>3 DEF Service!HangUp, CloseFd

LEMMA WriteEchoes ==
  ASSUME IInv, WriteClient
  PROVE  (\E c \in Clients : Service!Echo(c)) \/ UNCHANGED Service!echoVars
  <1> USE DEF WriteClient
  <1> DEFINE c == sock[clientfd[i]]
  <1>1. c \in Clients /\ conn[c] = "open"
    BY DEF IInv, RoundOK, SockOK, OpenFds, TypeOK, SockTypeOK
  <1>2. echoed[c] \in Int /\ got[c] \in Int /\ sent[c] \in Int
        /\ echoed[c] <= got[c] /\ got[c] <= sent[c]
    BY <1>1 DEF IInv, TcpInv, TcpTypeOK, CountsOrdered
  <1>3. CASE got[c] = echoed[c]
    BY <1>1, <1>3 DEF Service!echoVars, IInv, TcpInv, TcpTypeOK
  <1>4. CASE got[c] # echoed[c]
    <2>1. got[c] \in echoed[c] + 1 .. sent[c]
      BY <1>2, <1>4
    <2>2. Service!Echo(c)
      BY <1>1, <2>1 DEF Service!Echo
    <2>3. QED
      BY <1>1, <2>2
  <1>5. QED
    BY <1>3, <1>4

LEMMA ClientMoves ==
  ASSUME IInv, NEW c \in Clients, ClientMove(c)
  PROVE  Service!Next \/ UNCHANGED Service!echoVars
  <1>1. CASE Connect(c)
    BY <1>1 DEF Connect, Service!Next, Service!Request
  <1>2. CASE Send(c)
    BY <1>2 DEF Send, Established, Service!Next, Service!Say
  <1>3. CASE Recv(c)
    BY <1>3 DEF Recv, Service!echoVars
  <1>4. CASE Leave(c)
    BY <1>4 DEF Leave, Established, Service!Next, Service!Go
  <1>5. CASE Reset(c)
    BY <1>5 DEF Reset, Established, Service!Next, Service!Go
  <1>6. QED
    BY <1>1, <1>2, <1>3, <1>4, <1>5 DEF ClientMove, ClientStep

LEMMA AcceptTakesOver ==
  ASSUME IInv, pc = "accept", NEW fd \in Fds, AcceptAs(fd)
  PROVE  \E c \in Clients : Service!TakeOver(c)
  <1>1. queue # <<>> /\ Head(queue) \in Clients /\ conn[Head(queue)] = "queued"
    BY QueueTail DEF AcceptAs, AcceptHead, IInv, TcpInv
  <1>2. listening
    BY <1>1 DEF IInv, RoundOK
  <1>3. QED
    BY <1>1, <1>2 DEF Service!TakeOver, AcceptAs, AcceptHead

LEMMA StepRefines ==
  IInv /\ [Next]_vars => [Service!Next]_(Service!echoVars)
  <1> SUFFICES ASSUME IInv, [Next]_vars
               PROVE  Service!Next \/ UNCHANGED Service!echoVars
    OBVIOUS
  <1>1. CASE Select \/ NoNewClient \/ SkipSlot \/ ReadClient \/ EndRound \/ UNCHANGED vars
    BY <1>1 DEF Select, NoNewClient, SkipSlot, ReadClient, EndRound, vars, tcpVars,
                Service!echoVars
  <1>2. CASE NewClient
    <2>1. PICK fd \in Fds : AddClient(fd)
      BY <1>2 DEF NewClient
    <2>2. CASE FreeSlots = {}
      BY <1>2, <2>1, <2>2, ExitStops DEF AddClient, NewClient, Service!Next
    <2>3. CASE FreeSlots # {}
      BY <1>2, <2>1, <2>3, AcceptTakesOver DEF NewClient, AddClient, Service!Next
    <2>4. QED
      BY <2>2, <2>3
  <1>3. CASE NewClientFails
    BY <1>3, ExitStops DEF NewClientFails, Service!Next
  <1>4. CASE CloseClient
    BY <1>4, CloseHangsUp DEF Service!Next
  <1>5. CASE WriteClient
    BY <1>5, WriteEchoes DEF Service!Next
  <1>6. CASE WriteFails
    BY <1>6, ExitStops DEF WriteFails, Service!Next
  <1>7. ASSUME NEW c \in Clients, ClientMove(c)
        PROVE  Service!Next \/ UNCHANGED Service!echoVars
    BY <1>7, ClientMoves
  <1>8. QED
    BY <1>1, <1>2, <1>3, <1>4, <1>5, <1>6, <1>7 DEF Next, ServerStep

(* Every behaviour of select.c is one EchoService allows: no connection is    *)
(* dropped before its client has been answered, and no echo is invented.      *)
THEOREM KeepsPromise == Spec => Promise
  <1>1. Init => Service!Init
    BY DEF Init, TcpInit, Service!Init
  <1>2. QED
    BY <1>1, Invariance, StepRefines, PTL DEF Spec, Promise, Service!Spec
=============================================================================
