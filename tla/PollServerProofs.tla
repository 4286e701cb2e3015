--------------------------- MODULE PollServerProofs ---------------------------
(***************************************************************************)
(* Proofs about PollServer: its table and its report stay true for any     *)
(* number of clients, slots and descriptors, also after the loop has       *)
(* closed its own listening socket.                                        *)
(***************************************************************************)
EXTENDS PollServer, TcpProofs, FiniteSetTheorems

(* Sets of slots are finite. *)
LEMMA SlotsFinite ==
  ASSUME NEW S, S \subseteq Slots
  PROVE  IsFiniteSet(S) /\ Cardinality(S) \in Nat
  <1>1. IsFiniteSet(Slots)
    BY MaxFdsAssumption, FS_Interval DEF Slots
  <1>2. QED
    BY <1>1, FS_Subset, FS_CardinalityType

(* Client descriptors are positive and not the listening socket's. *)
LEMMA FdFacts ==
  /\ SockFd \in Int /\ SockFd > 0 /\ SockFd \notin Fds /\ SockFd # -1
  /\ \A fd \in Fds : fd \in Int /\ fd > 0 /\ fd # SockFd /\ fd # -1
  /\ OpenFds \subseteq Fds
  BY DescriptorsAssumption DEF Fds, SockFd, OpenFds

(* A slot is empty, a client's, or the listening socket's, which is slot 0. *)
LEMMA SlotHolds ==
  ASSUME IInv, Running, NEW s \in Slots
  PROVE  /\ pollfds[s] = -1 \/ pollfds[s] \in OpenFds \/ (pollfds[s] = SockFd /\ s = 0 /\ listening)
         /\ pollfds[s] # SockFd /\ pollfds[s] > 0 =>
               /\ pollfds[s] \in OpenFds
               /\ sock[pollfds[s]] \in Clients
               /\ conn[sock[pollfds[s]]] = "open"
  <1>1. pollfds[s] = -1 \/ pollfds[s] \in OpenFds \/ (pollfds[s] = SockFd /\ s = 0 /\ listening)
    BY DEF IInv, TableMatchesSockets, RoundOK
  <1>2. pollfds[s] \in OpenFds => sock[pollfds[s]] \in Clients /\ conn[sock[pollfds[s]]] = "open"
    BY DEF IInv, SockOK, OpenFds, TypeOK, SockTypeOK
  <1>3. QED
    BY <1>1, <1>2, FdFacts

----------------------------------------------------------------------------
(* Each action preserves the inductive invariant.                          *)

LEMMA InitInv == Init => IInv
  <1> SUFFICES ASSUME Init PROVE IInv
    OBVIOUS
  <1> USE DEF Init
  <1>1. TcpInv
    BY TcpInitInv
  <1>2. TypeOK
    BY <1>1, DescriptorsAssumption, MaxFdsAssumption
       DEF TypeOK, TcpInv, SockInit, SockTypeOK, Slots
  <1>3. OpenFds = {}
    BY DEF SockInit, OpenFds
  <1>4. SockOK
    BY <1>3 DEF SockOK, TcpInit
  <1>5. TableMatchesSockets /\ RoundOK
    BY MaxFdsAssumption DEF TableMatchesSockets, RoundOK, TcpInit, Slots
  <1>6. BudgetCountsListener /\ ReportStillTrue /\ NothingHeldBack
    BY DEF BudgetCountsListener, ReportStillTrue, NothingHeldBack, TcpInit
  <1>7. QED
    BY <1>1, <1>2, <1>4, <1>5, <1>6 DEF IInv

LEMMA ExitStep ==
  ASSUME IInv, Exit
  PROVE  IInv'
  <1> USE DEF Exit, ExitAll
  <1>1. TcpInv'
    BY ExitInv DEF IInv
  <1>2. TypeOK'
    BY <1>1 DEF IInv, TypeOK, TcpInv, SockTypeOK, ctx
  <1>3. OpenFds' = {}
    BY DEF OpenFds
  <1>4. \A c \in Clients : conn'[c] # "open"
    BY DEF IInv, TcpInv, TcpTypeOK, ProcessExit, ClosedByExit, Established
  <1>5. SockOK'
    BY <1>3, <1>4 DEF SockOK
  <1>6. TableMatchesSockets' /\ RoundOK' /\ NothingHeldBack'
    BY DEF TableMatchesSockets, RoundOK, NothingHeldBack, Running, ProcessExit
  <1>7. BudgetCountsListener' /\ ReportStillTrue'
    BY DEF BudgetCountsListener, ReportStillTrue
  <1>8. QED
    BY <1>1, <1>2, <1>5, <1>6, <1>7 DEF IInv

LEMMA PollStep ==
  ASSUME IInv, Poll
  PROVE  IInv'
  <1> USE DEF Poll
  <1>1. TcpInv'
    BY TcpUnchanged DEF IInv
  <1>2. Cardinality(revents') \in Nat
    BY SlotsFinite
  <1>3. TypeOK'
    BY <1>1, <1>2 DEF IInv, TypeOK, TcpInv, SockTypeOK
  <1>4. SockOK'
    BY DEF IInv, SockOK, OpenFds, tcpVars
  <1>5. TableMatchesSockets'
    BY DEF IInv, TableMatchesSockets, Running, OpenFds, tcpVars
  <1>6. RoundOK'
    <2>1. \A s \in revents' : FdReadable(pollfds[s])'
      BY DEF FdReadable, Readable, Unread, OpenFds, tcpVars
    <2>2. QED
      BY <2>1 DEF IInv, RoundOK, Running, tcpVars
  <1>7. BudgetCountsListener' /\ ReportStillTrue'
    BY DEF BudgetCountsListener, ReportStillTrue
  <1>8. NothingHeldBack'
    BY DEF IInv, NothingHeldBack, Running, tcpVars
  <1>9. QED
    BY <1>1, <1>3, <1>4, <1>5, <1>6, <1>7, <1>8 DEF IInv

(* The state in which process_ready_clients starts: every client that was   *)
(* reported is still readable.                                              *)
StillReadable(fd) == fd = SockFd \/ (fd \in OpenFds /\ Readable(sock[fd]))

StartOfPass ==
    /\ TypeOK
    /\ pc = "process" /\ i = 0
    /\ \A s \in revents : StillReadable(pollfds[s])

(* What the pass will read is then what poll() reported. *)
LEMMA AtStart == StartOfPass => Pending = revents /\ ReportStillTrue
  <1> SUFFICES ASSUME StartOfPass PROVE Pending = revents /\ ReportStillTrue
    OBVIOUS
  <1> USE DEF StartOfPass
  <1>1. \A s \in revents : s \in Slots /\ s >= 0 /\ pollfds[s] > 0
    BY FdFacts DEF StillReadable, TypeOK, Slots
  <1>2. Pending = revents
    BY <1>1 DEF Pending, SlotReady
  <1>3. ReportStillTrue
    BY <1>2 DEF ReportStillTrue, StillReadable
  <1>4. QED
    BY <1>2, <1>3

LEMMA NoNewClientStep ==
  ASSUME IInv, NoNewClient
  PROVE  IInv'
  <1>1. UNCHANGED <<tcpVars, sock, ctx>> /\ pc = "accept" /\ pc' = "process" /\ i' = 0
        /\ 0 \notin revents
    BY DEF NoNewClient, StartProcessing
  <1>2. TcpInv' /\ SockOK'
    BY <1>1, TcpUnchanged DEF IInv, SockOK, OpenFds, tcpVars
  <1>3. TypeOK'
    BY <1>1, <1>2, MaxFdsAssumption DEF IInv, TypeOK, TcpInv, SockTypeOK, ctx
  <1>4. TableMatchesSockets' /\ RoundOK'
    BY <1>1 DEF IInv, TableMatchesSockets, RoundOK, Running, OpenFds, ctx, tcpVars
  <1>5. nready' = Cardinality(revents')
    BY <1>1 DEF IInv, RoundOK, ctx
  <1>6. \A s \in revents' : StillReadable(pollfds[s])'
    BY <1>1 DEF IInv, RoundOK, StillReadable, FdReadable, Readable, Unread, OpenFds, ctx, tcpVars
  <1>7. StartOfPass'
    BY <1>1, <1>3, <1>6 DEF StartOfPass
  <1>8. (StartOfPass => Pending = revents /\ ReportStillTrue)'
    BY AtStart, PTL
  <1>9. BudgetCountsListener'
    BY <1>1, <1>3, <1>5, <1>7, <1>8 DEF BudgetCountsListener, ctx, TypeOK
  <1>10. NothingHeldBack'
    BY <1>1 DEF IInv, NothingHeldBack, Running, tcpVars
  <1>11. QED
    BY <1>2, <1>3, <1>4, <1>7, <1>8, <1>9, <1>10 DEF IInv

(* accept() opens descriptor fd for the first connection in the queue, with *)
(* the table as it was or with fd in the first free slot.                   *)
LEMMA NewClientStep ==
  ASSUME IInv, NewClient
  PROVE  IInv'
  <1> USE DEF AcceptAs, SpendOne
  <1>1. PICK fd \in Fds : AcceptAs(fd) /\ Track(fd)
    BY DEF NewClient
  <1>2. /\ pc = "accept" /\ 0 \in revents /\ pc' = "process" /\ i' = 0
        /\ nready' = nready - 1 /\ revents' = revents /\ listening' = listening
    BY <1>1 DEF NewClient, StartProcessing
  <1> DEFINE c == Head(queue)
  <1>3. TcpInv'
    BY <1>1, AcceptInv DEF IInv
  <1>4. c \in Clients /\ conn[c] = "queued" /\ queue # <<>> /\ c # NoClient
    BY <1>1, QueueTail, DescriptorsAssumption DEF IInv, TcpInv, AcceptHead
  <1>5. /\ OpenFds' = OpenFds \union {fd}
        /\ fd \notin OpenFds
        /\ \A gd \in OpenFds : sock'[gd] = sock[gd]
        /\ sock'[fd] = c
    BY <1>1, <1>4 DEF OpenFds, IInv, TypeOK, SockTypeOK, IsLowestFree
  <1>6. \A d \in Clients : conn'[d] = IF d = c THEN "open" ELSE conn[d]
    BY <1>1, <1>4 DEF AcceptHead, IInv, TcpInv, TcpTypeOK
  <1>7. nready \in Nat /\ nready' \in Nat /\ nready = Cardinality(revents)
    <2>1. IsFiniteSet(revents) /\ Cardinality(revents) \in Nat /\ nready = Cardinality(revents)
      BY <1>2, SlotsFinite DEF IInv, RoundOK, TypeOK
    <2>2. Cardinality(revents) # 0
      BY <1>2, <2>1, FS_EmptySet
    <2>3. QED
      BY <1>2, <2>1, <2>2
  <1>8. TypeOK'
    BY <1>1, <1>2, <1>3, <1>4, <1>7, MaxFdsAssumption
       DEF IInv, TypeOK, TcpInv, SockTypeOK, Track
  <1>9. SockOK'
    <2>1. \A gd \in OpenFds : sock[gd] # c
      BY <1>4 DEF IInv, SockOK
    <2>2. \A gd \in OpenFds' : conn'[sock'[gd]] = "open"
      BY <1>4, <1>5, <1>6, <2>1 DEF IInv, SockOK, OpenFds, TypeOK, SockTypeOK
    <2>3. \A gd, hd \in OpenFds' : sock'[gd] = sock'[hd] => gd = hd
      BY <1>5, <2>1 DEF IInv, SockOK
    <2>4. \A d \in Clients : conn'[d] = "open" => \E gd \in OpenFds' : sock'[gd] = d
      BY <1>5, <1>6 DEF IInv, SockOK
    <2>5. QED
      BY <2>2, <2>3, <2>4 DEF SockOK
  <1>10. /\ Running /\ listening /\ pollfds[0] = SockFd
         /\ \A s \in revents : pollfds[s] # -1
    <2>1. FdReadable(pollfds[0]) /\ \A s \in revents : FdReadable(pollfds[s])
      BY <1>2 DEF IInv, RoundOK
    <2>2. \A s \in revents : pollfds[s] # -1
      BY <2>1, FdFacts DEF FdReadable
    <2>3. QED
      BY <1>2, <1>4, <2>2 DEF IInv, RoundOK, Running
  <1>11. PICK f \in Slots \union {-1} :
            /\ f # -1 => pollfds[f] = -1
            /\ \A s \in Slots : pollfds'[s] = IF s = f THEN fd ELSE pollfds[s]
    <2>1. CASE FreeSlots = {} /\ UNCHANGED pollfds
      <3>1. \A s \in Slots : s # -1
        BY DEF Slots
      <3>2. QED
        BY <2>1, <3>1
    <2>2. ASSUME NEW s \in Slots, IsFirstFree(s), pollfds' = [pollfds EXCEPT ![s] = fd]
          PROVE  /\ s # -1 => pollfds[s] = -1
                 /\ \A r \in Slots : pollfds'[r] = IF r = s THEN fd ELSE pollfds[r]
      <3>1. pollfds[s] < 0
        BY <2>2 DEF IsFirstFree, FreeSlots
      <3>2. pollfds[s] = -1
        BY <3>1, FdFacts DEF IInv, TypeOK
      <3>3. QED
        BY <2>2, <3>2 DEF IInv, TypeOK
    <2>3. QED
      BY <1>1, <2>1, <2>2 DEF Track
  <1>12. \A s \in revents : pollfds'[s] = pollfds[s] /\ s # f
    BY <1>10, <1>11, FdFacts DEF IInv, TypeOK, Slots
  <1>13. TableMatchesSockets'
    <2>1. ASSUME NEW s \in Slots, pollfds'[s] # -1
          PROVE  pollfds'[s] \in OpenFds' \/ (s = 0 /\ listening')
      BY <1>2, <1>5, <1>10, <1>11, <2>1 DEF IInv, TableMatchesSockets
    <2>2. \A s \in Slots : pollfds[s] # fd
      BY <1>1, <1>5, <1>10, SlotHolds, FdFacts
    <2>3. ASSUME NEW s \in Slots, NEW r \in Slots, pollfds'[s] = pollfds'[r], pollfds'[s] # -1
          PROVE  s = r
      BY <1>10, <1>11, <2>2, <2>3 DEF IInv, TableMatchesSockets
    <2>4. QED
      BY <2>1, <2>3 DEF TableMatchesSockets
  <1>14. RoundOK'
    BY <1>2, <1>10, <1>12 DEF RoundOK
  <1>15. \A s \in revents' : StillReadable(pollfds[s])'
    <2>1. SUFFICES ASSUME NEW s \in revents PROVE StillReadable(pollfds[s])'
      BY <1>2
    <2>2. FdReadable(pollfds[s]) /\ pollfds'[s] = pollfds[s]
      BY <1>2, <1>12 DEF IInv, RoundOK
    <2>3. CASE pollfds[s] = SockFd
      BY <2>2, <2>3 DEF StillReadable
    <2>4. CASE pollfds[s] \in OpenFds /\ Readable(sock[pollfds[s]])
      BY <1>1, <1>5, <2>2, <2>4 DEF StillReadable, Readable, Unread
    <2>5. QED
      BY <2>2, <2>3, <2>4 DEF FdReadable
  <1>16. StartOfPass'
    BY <1>2, <1>8, <1>15 DEF StartOfPass
  <1>17. (StartOfPass => Pending = revents /\ ReportStillTrue)'
    BY AtStart, PTL
  <1>18. BudgetCountsListener'
    BY <1>2, <1>7, <1>16, <1>17 DEF BudgetCountsListener
  <1>19. NothingHeldBack'
    <2>1. ASSUME NEW d \in Clients, conn'[d] = "open"
          PROVE  got[d] = echoed[d]
      <3>1. CASE d = c
        BY <3>1, <1>4 DEF IInv, TcpInv, UntouchedUntilAccepted
      <3>2. CASE d # c
        BY <3>2, <2>1, <1>2, <1>6 DEF IInv, NothingHeldBack, Running
      <3>3. QED
        BY <3>1, <3>2
    <2>2. QED
      BY <1>1, <2>1 DEF NothingHeldBack
  <1>20. QED
    BY <1>3, <1>8, <1>9, <1>13, <1>14, <1>16, <1>17, <1>18, <1>19 DEF IInv

LEMMA NewClientFailsStep ==
  ASSUME IInv, NewClientFails
  PROVE  IInv'
  BY ExitStep DEF NewClientFails

----------------------------------------------------------------------------
(* The pass over the table.                                                *)

(* Where the pass stands: at a slot, and a pending one if it is to be read. *)
LEMMA AtSlot ==
  ASSUME IInv, pc = "process", LoopContinues
  PROVE  /\ i \in Slots /\ i + 1 \in 0 .. MaxFds
         /\ SlotReady(i) <=> i \in Pending
         /\ nready \in Nat /\ nready - 1 \in Nat
  BY MaxFdsAssumption DEF IInv, TypeOK, LoopContinues, Slots, Pending

(* Reading a slot takes it off the budget. *)
LEMMA BudgetStep ==
  ASSUME IInv, pc \in {"process", "write"}, NEW s \in Pending
  PROVE  Cardinality(Pending \ {s}) = Cardinality(Pending) - 1
         /\ Cardinality(Pending) \in Nat
  BY SlotsFinite, FS_RemoveElement DEF Pending

(* The steps that leave the table, the report and the connections alone. *)
LEMMA TableKept ==
  ASSUME IInv, Running, Running', UNCHANGED <<listening, queue, conn, sock, pollfds>>
  PROVE  /\ SockOK' /\ TableMatchesSockets'
         /\ ~listening' => queue' = <<>>
         /\ pollfds'[0] = (IF listening' THEN SockFd ELSE -1)
  <1>1. OpenFds' = OpenFds
    BY DEF OpenFds
  <1>2. SockOK'
    BY <1>1 DEF IInv, SockOK
  <1>3. TableMatchesSockets'
    BY <1>1 DEF IInv, TableMatchesSockets
  <1>4. QED
    BY <1>2, <1>3 DEF IInv, RoundOK

LEMMA SkipSlotStep ==
  ASSUME IInv, SkipSlot
  PROVE  IInv'
  <1> USE DEF SkipSlot
  <1>1. i \in Slots /\ i + 1 \in 0 .. MaxFds /\ i \notin Pending
    BY AtSlot
  <1>2. TcpInv'
    BY TcpUnchanged DEF IInv
  <1>3. SockOK' /\ TableMatchesSockets' /\ RoundOK'
    BY TableKept DEF RoundOK, Running, ctx, tcpVars
  <1>4. TypeOK'
    BY <1>1, <1>2 DEF IInv, TypeOK, TcpInv, SockTypeOK, ctx
  <1>5. Pending' = Pending
    BY <1>1 DEF Pending, SlotReady, ctx, Slots
  <1>6. BudgetCountsListener' /\ ReportStillTrue' /\ NothingHeldBack'
    BY <1>5 DEF IInv, BudgetCountsListener, ReportStillTrue, NothingHeldBack, Running,
                ctx, tcpVars, Readable, Unread
  <1>7. QED
    BY <1>2, <1>3, <1>4, <1>6 DEF IInv

LEMMA ReadClientStep ==
  ASSUME IInv, ReadClient
  PROVE  IInv'
  <1> USE DEF ReadClient, SpendOne
  <1> DEFINE c == sock[pollfds[i]]
  <1>1. /\ i \in Slots /\ i \in Pending /\ nready - 1 \in Nat
        /\ pollfds[i] \in OpenFds /\ c \in Clients /\ conn[c] = "open"
    BY AtSlot, SlotHolds DEF Running, SlotReady
  <1>2. TcpInv'
    BY <1>1, ReadInv DEF IInv
  <1>3. SockOK' /\ TableMatchesSockets' /\ RoundOK'
    BY <1>1, TableKept DEF RoundOK, Running, OpenFds
  <1>4. TypeOK'
    BY <1>1, <1>2 DEF IInv, TypeOK, TcpInv, SockTypeOK
  <1>5. \A d \in Clients : d # c => got'[d] = got[d]
    BY DEF ReadReturnsData, IInv, TcpInv, TcpTypeOK
  <1>6. NothingHeldBack'
    BY <1>5 DEF IInv, NothingHeldBack, Running
  <1>7. Pending' = Pending \ {i}
    BY <1>1 DEF Pending, SlotReady, Slots
  <1>8. BudgetCountsListener'
    <2>1. Cardinality(Pending \ {i}) = Cardinality(Pending) - 1 /\ Cardinality(Pending) \in Nat
      BY <1>1, BudgetStep
    <2>2. QED
      BY <1>1, <1>7, <2>1 DEF IInv, BudgetCountsListener
  <1>9. ReportStillTrue'
    <2>1. SUFFICES ASSUME NEW s \in Pending \ {i}, pollfds[s] # SockFd
                   PROVE  Readable(sock[pollfds[s]])'
      BY <1>7 DEF ReportStillTrue
    <2>2. s \in Slots /\ pollfds[s] \in OpenFds /\ pollfds[s] # pollfds[i]
      BY <1>1, <2>1, SlotHolds, FdFacts
         DEF Pending, SlotReady, IInv, TableMatchesSockets, Running
    <2>3. sock[pollfds[s]] # c /\ sock[pollfds[s]] \in Clients
      BY <1>1, <2>2 DEF IInv, SockOK, OpenFds, TypeOK, SockTypeOK
    <2>4. Readable(sock[pollfds[s]])
      BY <2>1 DEF IInv, ReportStillTrue
    <2>5. QED
      BY <1>5, <2>3, <2>4 DEF Readable, Unread
  <1>10. QED
    BY <1>2, <1>3, <1>4, <1>6, <1>8, <1>9 DEF IInv

(* Dropping a slot takes it off the table and off the budget. *)
LEMMA DropStep ==
  ASSUME IInv, pc = "process", LoopContinues, SlotReady(i), DropSlot
  PROVE  /\ \A s \in Slots : pollfds'[s] = IF s = i THEN -1 ELSE pollfds[s]
         /\ pollfds' \in [Slots -> Fds \union {SockFd, -1}]
         /\ i' \in 0 .. MaxFds /\ nready' \in Nat
         /\ Pending' = Pending \ {i}
         /\ BudgetCountsListener'
  <1> USE DEF DropSlot, SpendOne
  <1>1. /\ i \in Slots /\ i + 1 \in 0 .. MaxFds /\ i \in Pending
        /\ nready \in Nat /\ nready - 1 \in Nat
    BY AtSlot
  <1>2. /\ \A s \in Slots : pollfds'[s] = IF s = i THEN -1 ELSE pollfds[s]
        /\ pollfds' \in [Slots -> Fds \union {SockFd, -1}]
    BY DEF IInv, TypeOK
  <1>3. Pending' = Pending \ {i}
    <2>1. \A s \in Slots : s # i => SlotReady(s)' = SlotReady(s)
      BY <1>2 DEF SlotReady
    <2>2. \A s \in Slots : s = i => ~SlotReady(s)'
      BY <1>2 DEF SlotReady
    <2>3. \A s \in Slots : s >= i + 1 <=> (s >= i /\ s # i)
      BY <1>1 DEF Slots
    <2>4. Pending' = {s \in Slots : s >= i + 1 /\ SlotReady(s)'}
      BY DEF Pending
    <2>5. Pending = {s \in Slots : s >= i /\ SlotReady(s)}
      BY DEF Pending
    <2>6. QED
      BY <2>1, <2>2, <2>3, <2>4, <2>5
  <1>4. Cardinality(Pending \ {i}) = Cardinality(Pending) - 1 /\ Cardinality(Pending) \in Nat
    BY <1>1, BudgetStep
  <1>5. BudgetCountsListener'
    BY <1>1, <1>3, <1>4 DEF IInv, BudgetCountsListener
  <1>6. QED
    BY <1>1, <1>2, <1>3, <1>5

LEMMA CloseClientStep ==
  ASSUME IInv, CloseClient
  PROVE  IInv'
  <1> USE DEF CloseClient, CloseFd
  <1> DEFINE c == sock[pollfds[i]]
             gd == pollfds[i]
  <1>1. /\ i \in Slots /\ i \in Pending
        /\ gd \in OpenFds /\ c \in Clients /\ conn[c] = "open"
    BY AtSlot, SlotHolds DEF Running, SlotReady
  <1>2. /\ \A s \in Slots : pollfds'[s] = IF s = i THEN -1 ELSE pollfds[s]
        /\ Pending' = Pending \ {i}
        /\ BudgetCountsListener'
        /\ pc' = "process" /\ revents' = revents
    BY DropStep DEF DropSlot
  <1>3. TcpInv'
    BY <1>1, CloseInv DEF IInv
  <1>4. TypeOK'
    <2>1. /\ pollfds' \in [Slots -> Fds \union {SockFd, -1}]
          /\ i' \in 0 .. MaxFds /\ nready' \in Nat
      BY DropStep
    <2>2. QED
      BY <1>1, <1>2, <1>3, <2>1 DEF IInv, TypeOK, TcpInv, SockTypeOK, OpenFds
  <1>5. /\ OpenFds' = OpenFds \ {gd}
        /\ \A fd \in OpenFds' : sock'[fd] = sock[fd] /\ sock[fd] # c
        /\ \A d \in Clients : conn'[d] = IF d = c THEN "closed" ELSE conn[d]
    BY <1>1 DEF OpenFds, IInv, TypeOK, TcpInv, TcpTypeOK, SockOK, SockTypeOK
  <1>6. SockOK'
    <2>1. \A fd \in OpenFds' : conn'[sock'[fd]] = "open"
      BY <1>5 DEF IInv, SockOK, OpenFds, TypeOK, SockTypeOK
    <2>2. \A fd, hd \in OpenFds' : sock'[fd] = sock'[hd] => fd = hd
      BY <1>5 DEF IInv, SockOK
    <2>3. \A d \in Clients : conn'[d] = "open" => \E fd \in OpenFds' : sock'[fd] = d
      BY <1>5 DEF IInv, SockOK
    <2>4. QED
      BY <2>1, <2>2, <2>3 DEF SockOK
  <1>7. TableMatchesSockets'
    <2>1. ASSUME NEW s \in Slots, pollfds'[s] # -1
          PROVE  pollfds'[s] \in OpenFds' \/ (s = 0 /\ listening')
      BY <1>1, <1>2, <1>5, <2>1 DEF IInv, TableMatchesSockets, Running
    <2>2. ASSUME NEW s \in Slots, NEW r \in Slots, pollfds'[s] = pollfds'[r], pollfds'[s] # -1
          PROVE  s = r
      BY <1>2, <2>2 DEF IInv, TableMatchesSockets, Running
    <2>3. QED
      BY <2>1, <2>2 DEF TableMatchesSockets
  <1>8. RoundOK'
    <2>1. pollfds[0] = (IF listening THEN SockFd ELSE -1) /\ 0 \in Slots
      BY MaxFdsAssumption DEF IInv, RoundOK, Running, Slots
    <2>2. i # 0
      BY <1>1, <2>1, FdFacts
    <2>3. pollfds'[0] = pollfds[0]
      BY <1>2, <2>1, <2>2
    <2>4. QED
      BY <1>2, <2>1, <2>3 DEF IInv, RoundOK
  <1>9. NothingHeldBack'
    BY <1>2, <1>5 DEF IInv, NothingHeldBack, Running
  <1>10. ReportStillTrue'
    <2>1. SUFFICES ASSUME NEW s \in Pending \ {i}, pollfds'[s] # SockFd
                   PROVE  Readable(sock[pollfds[s]])'
      BY <1>2 DEF ReportStillTrue
    <2>2. /\ s \in Slots /\ pollfds'[s] = pollfds[s]
          /\ pollfds[s] \in OpenFds /\ pollfds[s] # gd
      BY <1>1, <1>2, <2>1, SlotHolds, FdFacts
         DEF Pending, SlotReady, IInv, TableMatchesSockets, Running
    <2>3. Readable(sock[pollfds[s]])
      BY <2>1, <2>2 DEF IInv, ReportStillTrue
    <2>4. QED
      BY <1>5, <2>2, <2>3 DEF Readable, Unread
  <1>11. QED
    BY <1>2, <1>3, <1>4, <1>6, <1>7, <1>8, <1>9, <1>10 DEF IInv

LEMMA CloseListenerStep ==
  ASSUME IInv, CloseListener
  PROVE  IInv'
  <1> USE DEF CloseListener
  <1>1. i \in Slots /\ i \in Pending /\ i = 0
    BY AtSlot, SlotHolds, FdFacts DEF Running
  <1>2. /\ \A s \in Slots : pollfds'[s] = IF s = i THEN -1 ELSE pollfds[s]
        /\ Pending' = Pending \ {i}
        /\ BudgetCountsListener'
        /\ pc' = "process" /\ revents' = revents
    BY DropStep DEF DropSlot
  <1>3. \A d \in Clients : conn'[d] = IF conn[d] = "queued" THEN "closed" ELSE conn[d]
    OBVIOUS
  <1>4. TcpInv'
    <2>1. conn' \in [Clients -> {"none", "queued", "open", "closed"}]
      BY DEF IInv, TcpInv, TcpTypeOK
    <2>2. \A d \in Clients : conn'[d] # "queued" /\ (conn'[d] = "none" => conn[d] = "none")
      BY <1>3
    <2>3. QED
      BY <2>1, <2>2, EndListenInv DEF IInv
  <1>5. TypeOK'
    <2>1. /\ pollfds' \in [Slots -> Fds \union {SockFd, -1}]
          /\ i' \in 0 .. MaxFds /\ nready' \in Nat
      BY DropStep
    <2>2. QED
      BY <1>2, <1>4, <2>1 DEF IInv, TypeOK, TcpInv, SockTypeOK
  <1>6. OpenFds' = OpenFds
    BY DEF OpenFds
  <1>7. SockOK'
    BY <1>3, <1>6 DEF IInv, SockOK, OpenFds, TypeOK, SockTypeOK
  <1>8. TableMatchesSockets'
    <2>1. ASSUME NEW s \in Slots, pollfds'[s] # -1
          PROVE  pollfds'[s] \in OpenFds'
      BY <1>1, <1>2, <1>6, <2>1 DEF IInv, TableMatchesSockets, Running
    <2>2. ASSUME NEW s \in Slots, NEW r \in Slots, pollfds'[s] = pollfds'[r], pollfds'[s] # -1
          PROVE  s = r
      BY <1>2, <2>2 DEF IInv, TableMatchesSockets, Running
    <2>3. QED
      BY <2>1, <2>2 DEF TableMatchesSockets
  <1>9. RoundOK'
    BY <1>1, <1>2 DEF RoundOK
  <1>10. NothingHeldBack'
    BY <1>2, <1>3 DEF IInv, NothingHeldBack, Running
  <1>11. ReportStillTrue'
    <2>1. SUFFICES ASSUME NEW s \in Pending \ {i}, pollfds'[s] # SockFd
                   PROVE  Readable(sock[pollfds[s]])'
      BY <1>2 DEF ReportStillTrue
    <2>2. pollfds'[s] = pollfds[s]
      BY <1>2 DEF Pending
    <2>3. Readable(sock[pollfds[s]])
      BY <2>1, <2>2 DEF IInv, ReportStillTrue
    <2>4. QED
      BY <2>2, <2>3 DEF Readable, Unread
  <1>12. QED
    BY <1>2, <1>4, <1>5, <1>7, <1>8, <1>9, <1>10, <1>11 DEF IInv

LEMMA WriteClientStep ==
  ASSUME IInv, WriteClient
  PROVE  IInv'
  <1> USE DEF WriteClient
  <1> DEFINE c == sock[pollfds[i]]
  <1>1. /\ i \in Slots /\ pollfds[i] \in OpenFds
        /\ c \in Clients /\ conn[c] = "open"
    BY DEF IInv, RoundOK, SockOK, OpenFds, TypeOK, SockTypeOK
  <1>2. TcpInv'
    BY <1>1, WriteInv DEF IInv
  <1>3. TypeOK'
    BY <1>1, <1>2, MaxFdsAssumption DEF IInv, TypeOK, TcpInv, SockTypeOK, ctx, Slots
  <1>4. SockOK' /\ TableMatchesSockets' /\ RoundOK'
    BY TableKept DEF RoundOK, Running, ctx
  <1>5. \A d \in Clients : echoed'[d] = IF d = c THEN got[c] ELSE echoed[d]
    BY DEF IInv, TcpInv, TcpTypeOK
  <1>6. NothingHeldBack'
    BY <1>5 DEF IInv, NothingHeldBack, Running
  <1>7. Pending' = Pending
    <2>1. \A s \in Slots : s >= i + 1 <=> s > i
      BY <1>1 DEF Slots
    <2>2. QED
      BY <2>1 DEF Pending, SlotReady, ctx
  <1>8. BudgetCountsListener' /\ ReportStillTrue'
    BY <1>7 DEF IInv, BudgetCountsListener, ReportStillTrue, ctx, Readable, Unread
  <1>9. QED
    BY <1>2, <1>3, <1>4, <1>6, <1>8 DEF IInv

LEMMA EndRoundStep ==
  ASSUME IInv, EndRound
  PROVE  IInv'
  <1> USE DEF EndRound
  <1>1. TcpInv'
    BY TcpUnchanged DEF IInv
  <1>2. TypeOK'
    BY <1>1 DEF IInv, TypeOK, TcpInv, SockTypeOK, ctx
  <1>3. SockOK' /\ TableMatchesSockets' /\ RoundOK'
    BY TableKept DEF RoundOK, Running, ctx, tcpVars
  <1>4. BudgetCountsListener' /\ ReportStillTrue' /\ NothingHeldBack'
    BY DEF IInv, BudgetCountsListener, ReportStillTrue, NothingHeldBack, Running, tcpVars
  <1>5. QED
    BY <1>1, <1>2, <1>3, <1>4 DEF IInv

LEMMA ClientMoveStep ==
  ASSUME IInv, NEW c \in Clients, ClientMove(c)
  PROVE  IInv'
  <1> USE DEF ClientMove
  <1>1. TcpInv'
    BY ClientStepInv DEF IInv
  <1>2. /\ got' = got /\ echoed' = echoed /\ listening' = listening
        /\ \A d \in Clients : conn'[d] = "open" <=> conn[d] = "open"
        /\ \A d \in Clients : Readable(d) => Readable(d)'
    BY ClientStepEffect DEF IInv
  <1>3. TypeOK'
    BY <1>1 DEF IInv, TypeOK, TcpInv, SockTypeOK, ctx
  <1>4. SockOK' /\ OpenFds' = OpenFds
    BY <1>2 DEF IInv, SockOK, OpenFds, TypeOK, SockTypeOK
  <1>5. TableMatchesSockets'
    BY <1>2, <1>4 DEF IInv, TableMatchesSockets, Running, ctx
  <1>6. NothingHeldBack'
    BY <1>2 DEF IInv, NothingHeldBack, Running, ctx
  <1>7. (queue # <<>> => queue' # <<>>) /\ (~listening => queue' = queue)
    BY DEF ClientStep, Connect, Send, Recv, Leave, Reset, IInv, TcpInv, TcpTypeOK
  <1>8. RoundOK'
    <2>1. \A fd \in Fds \union {SockFd, -1} : FdReadable(fd) => FdReadable(fd)'
      BY <1>2, <1>4, <1>7 DEF FdReadable, OpenFds, IInv, TypeOK, SockTypeOK
    <2>2. QED
      BY <1>2, <1>4, <1>7, <2>1 DEF IInv, RoundOK, Running, TypeOK, ctx
  <1>9. Pending' = Pending
    BY DEF Pending, SlotReady, ctx
  <1>10. BudgetCountsListener'
    BY <1>9 DEF IInv, BudgetCountsListener, ctx
  <1>11. ReportStillTrue'
    <2>1. SUFFICES ASSUME pc \in {"process", "write"}, NEW s \in Pending, pollfds[s] # SockFd
                   PROVE  Readable(sock[pollfds[s]])'
      BY <1>9 DEF ReportStillTrue, ctx
    <2>2. sock[pollfds[s]] \in Clients
      BY <2>1, SlotHolds DEF Pending, SlotReady, Running
    <2>3. QED
      BY <1>2, <2>1, <2>2 DEF IInv, ReportStillTrue, ctx
  <1>12. QED
    BY <1>1, <1>3, <1>4, <1>5, <1>6, <1>8, <1>10, <1>11 DEF IInv

LEMMA StutterStep ==
  ASSUME IInv, UNCHANGED vars
  PROVE  IInv'
  <1> USE DEF vars
  <1>1. TcpInv'
    BY TcpUnchanged DEF IInv
  <1>2. TypeOK'
    BY <1>1 DEF IInv, TypeOK, TcpInv, SockTypeOK, ctx
  <1>3. SockOK' /\ TableMatchesSockets' /\ NothingHeldBack'
    BY DEF IInv, SockOK, TableMatchesSockets, NothingHeldBack, Running, OpenFds, ctx, tcpVars
  <1>4. RoundOK'
    BY DEF IInv, RoundOK, Running, OpenFds, FdReadable, Readable, Unread, ctx, tcpVars
  <1>5. Pending' = Pending
    BY DEF Pending, SlotReady, ctx
  <1>6. BudgetCountsListener' /\ ReportStillTrue'
    BY <1>5 DEF IInv, BudgetCountsListener, ReportStillTrue, Readable, Unread, ctx, tcpVars
  <1>7. QED
    BY <1>1, <1>2, <1>3, <1>4, <1>6 DEF IInv

LEMMA NextInv == IInv /\ [Next]_vars => IInv'
  <1> SUFFICES ASSUME IInv, [Next]_vars PROVE IInv'
    OBVIOUS
  <1>1. CASE Poll
    BY <1>1, PollStep
  <1>2. CASE NoNewClient
    BY <1>2, NoNewClientStep
  <1>3. CASE NewClient
    BY <1>3, NewClientStep
  <1>4. CASE NewClientFails
    BY <1>4, NewClientFailsStep
  <1>5. CASE SkipSlot
    BY <1>5, SkipSlotStep
  <1>6. CASE ReadClient
    BY <1>6, ReadClientStep
  <1>7. CASE CloseClient
    BY <1>7, CloseClientStep
  <1>8. CASE CloseListener
    BY <1>8, CloseListenerStep
  <1>9. CASE WriteClient
    BY <1>9, WriteClientStep
  <1>10. CASE WriteFails
    BY <1>10, ExitStep DEF WriteFails
  <1>11. CASE EndRound
    BY <1>11, EndRoundStep
  <1>12. ASSUME NEW c \in Clients, ClientMove(c) PROVE IInv'
    BY <1>12, ClientMoveStep
  <1>13. CASE UNCHANGED vars
    BY <1>13, StutterStep
  <1>14. QED
    BY <1>1, <1>2, <1>3, <1>4, <1>5, <1>6, <1>7, <1>8, <1>9, <1>10, <1>11, <1>12, <1>13
       DEF Next, ServerStep

(* The inductive invariant holds in every reachable state of poll.c. *)
THEOREM Invariance == Spec => []IInv
  BY InitInv, NextInv, PTL DEF Spec

(* Type correctness: the index stays within the table, and nready never goes  *)
(* below zero although the listening socket is paid for twice.                *)
THEOREM TypeCorrect == Spec => []TypeOK
  BY Invariance, PTL DEF IInv

(* The slots of poll.c name open descriptors only, each once, also when the   *)
(* kernel gives a number out again and when the listening socket is gone.     *)
THEOREM TableTrue == Spec => []TableMatchesSockets
  BY Invariance, PTL DEF IInv

(* In a round with a new client nready is one short of the clients to serve,  *)
(* in any other it is exact.                                                  *)
THEOREM BudgetOneShort == Spec => []BudgetCountsListener
  BY Invariance, PTL DEF IInv

(* The pass never reads a connection that would block, so it never takes      *)
(* EAGAIN for a departure.                                                    *)
THEOREM NoStaleReport == Spec => []ReportStillTrue
  BY Invariance, PTL DEF IInv

(* No chunk stays behind in the server's buffer between two clients.          *)
THEOREM BufferDrained == Spec => []NothingHeldBack
  BY Invariance, PTL DEF IInv

----------------------------------------------------------------------------
(* poll.c implements EchoService.                                          *)

LEMMA ExitStops ==
  ASSUME IInv, Running, Exit
  PROVE  Service!Stop
  <1>1. conn' = ClosedByExit /\ ~Running'
    BY DEF Exit, ExitAll, ProcessExit, Running
  <1>2. ClosedByExit = [c \in Clients |->
                           IF conn[c] = "none" \/ c \in {} THEN conn[c] ELSE "closed"]
    BY DEF ClosedByExit, Established, IInv, TcpInv, TcpTypeOK
  <1>3. QED
    BY <1>1, <1>2 DEF Service!Stop, Exit, ExitAll, ProcessExit

(* A connection CloseClient closes is one whose client has left, with every *)
(* chunk answered, or was reset: what poll() reported is still there.       *)
LEMMA CloseHangsUp ==
  ASSUME IInv, CloseClient
  PROVE  \E c \in Clients : Service!HangUp(c)
  <1> USE DEF CloseClient
  <1> DEFINE c == sock[pollfds[i]]
  <1>1. i \in Slots /\ i \in Pending /\ c \in Clients /\ conn[c] = "open"
    BY AtSlot, SlotHolds DEF Running, SlotReady
  <1>2. Readable(c) /\ got[c] = echoed[c]
    BY <1>1 DEF IInv, ReportStillTrue, NothingHeldBack, Running
  <1>3. Service!Finished(c)
    <2>1. CASE peer[c] = "rst"
      BY <2>1 DEF Service!Finished
    <2>2. CASE peer[c] # "rst"
      <3>1. Unread(c) = 0 /\ peer[c] # "up"
        BY <1>2, <2>2 DEF ReadReturnsNothing, ReadReturnsError, Readable
      <3>2. peer[c] = "fin" /\ got[c] = sent[c]
        BY <1>1, <2>2, <3>1 DEF Unread, IInv, TcpInv, TcpTypeOK
      <3>3. QED
        BY <1>2, <3>2 DEF Service!Finished
    <2>3. QED
      BY <2>1, <2>2
  <1>4. Running' = Running
    BY DEF Running, DropSlot
  <1>5. QED
    BY <1>1, <1>3, <1>4 DEF Service!HangUp, CloseFd

(* Closing the listening socket turns away those who wait on it.           *)
LEMMA CloseListenerRefuses ==
  ASSUME IInv, CloseListener
  PROVE  Service!Refuse
  <1>1. /\ Running /\ Running' = Running
        /\ conn' = [c \in Clients |-> IF conn[c] = "queued" THEN "closed" ELSE conn[c]]
        /\ UNCHANGED <<peer, sent, echoed>>
    BY DEF CloseListener, DropSlot, Running
  <1> DEFINE turnedAway == {c \in Clients : conn[c] = "queued"}
  <1>2. conn' = [c \in Clients |-> IF c \in turnedAway THEN "closed" ELSE conn[c]]
    BY <1>1
  <1>3. QED
    BY <1>1, <1>2 DEF Service!Refuse

LEMMA WriteEchoes ==
  ASSUME IInv, WriteClient
  PROVE  (\E c \in Clients : Service!Echo(c)) \/ UNCHANGED Service!echoVars
  <1> USE DEF WriteClient
  <1> DEFINE c == sock[pollfds[i]]
  <1>1. c \in Clients /\ conn[c] = "open" /\ Running' = Running
    BY DEF IInv, RoundOK, SockOK, OpenFds, TypeOK, SockTypeOK, Running
  <1>2. echoed[c] \in Int /\ got[c] \in Int /\ sent[c] \in Int
        /\ echoed[c] <= got[c] /\ got[c] <= sent[c]
    BY <1>1 DEF IInv, TcpInv, TcpTypeOK, CountsOrdered
  <1>3. CASE got[c] = echoed[c]
    BY <1>1, <1>3 DEF Service!echoVars, IInv, TcpInv, TcpTypeOK
  <1>4. CASE got[c] # echoed[c]
    <2>1. got[c] \in echoed[c] + 1 .. sent[c]
      BY <1>2, <1>4
    <2>2. Service!Echo(c)
      BY <1>1, <2>1 DEF Service!Echo
    <2>3. QED
      BY <1>1, <2>2
  <1>5. QED
    BY <1>3, <1>4

LEMMA ClientMoves ==
  ASSUME IInv, NEW c \in Clients, ClientMove(c)
  PROVE  Service!Next \/ UNCHANGED Service!echoVars
  <1>1. Running' = Running
    BY DEF ClientMove, Running
  <1>2. CASE Connect(c)
    BY <1>1, <1>2 DEF Connect, Service!Next, Service!Request
  <1>3. CASE Send(c)
    BY <1>1, <1>3 DEF Send, Established, Service!Next, Service!Say
  <1>4. CASE Recv(c)
    BY <1>1, <1>4 DEF Recv, Service!echoVars
  <1>5. CASE Leave(c)
    BY <1>1, <1>5 DEF Leave, Established, Service!Next, Service!Go
  <1>6. CASE Reset(c)
    BY <1>1, <1>6 DEF Reset, Established, Service!Next, Service!Go
  <1>7. QED
    BY <1>2, <1>3, <1>4, <1>5, <1>6 DEF ClientMove, ClientStep

(* The connection accept() returns was waiting, whether or not the table has *)
(* a slot for it.                                                            *)
LEMMA NewClientTakesOver ==
  ASSUME IInv, NewClient
  PROVE  \E c \in Clients : Service!TakeOver(c)
  <1>1. PICK fd \in Fds : AcceptAs(fd)
    BY DEF NewClient
  <1>2. queue # <<>> /\ Head(queue) \in Clients /\ conn[Head(queue)] = "queued"
    BY <1>1, QueueTail DEF AcceptAs, AcceptHead, IInv, TcpInv
  <1>3. Running /\ Running' = Running
    BY DEF NewClient, StartProcessing, Running
  <1>4. QED
    BY <1>1, <1>2, <1>3 DEF Service!TakeOver, AcceptAs, AcceptHead

LEMMA StepRefines ==
  IInv /\ [Next]_vars => [Service!Next]_(Service!echoVars)
  <1> SUFFICES ASSUME IInv, [Next]_vars
               PROVE  Service!Next \/ UNCHANGED Service!echoVars
    OBVIOUS
  <1>1. CASE Poll \/ NoNewClient \/ SkipSlot \/ ReadClient \/ EndRound \/ UNCHANGED vars
    BY <1>1 DEF Poll, NoNewClient, StartProcessing, SkipSlot, ReadClient, EndRound, vars,
                tcpVars, Running, Service!echoVars
  <1>2. CASE NewClient
    BY <1>2, NewClientTakesOver DEF Service!Next
  <1>3. CASE NewClientFails
    BY <1>3, ExitStops DEF NewClientFails, Running, Service!Next
  <1>4. CASE CloseClient
    BY <1>4, CloseHangsUp DEF Service!Next
  <1>5. CASE CloseListener
    BY <1>5, CloseListenerRefuses DEF Service!Next
  <1>6. CASE WriteClient
    BY <1>6, WriteEchoes DEF Service!Next
  <1>7. CASE WriteFails
    BY <1>7, ExitStops DEF WriteFails, Running, Service!Next
  <1>8. ASSUME NEW c \in Clients, ClientMove(c)
        PROVE  Service!Next \/ UNCHANGED Service!echoVars
    BY <1>8, ClientMoves
  <1>9. QED
    BY <1>1, <1>2, <1>3, <1>4, <1>5, <1>6, <1>7, <1>8 DEF Next, ServerStep

(* Every behaviour of poll.c is one EchoService allows: whatever happens in   *)
(* the same round (the failing read() of the listening socket, a new client,  *)
(* a descriptor given out again), a client that was accepted is hung up on    *)
(* only when it has left and has its answer, or was reset.                    *)
THEOREM KeepsPromise == Spec => Promise
  <1>1. Init => Service!Init
    BY DEF Init, TcpInit, Service!Init, Running
  <1>2. QED
    BY <1>1, Invariance, StepRefines, PTL DEF Spec, Promise, Service!Spec
=============================================================================
