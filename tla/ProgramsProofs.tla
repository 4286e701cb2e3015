--------------------------- MODULE ProgramsProofs ---------------------------
(***************************************************************************)
(* Proofs about the small programs of MCPrograms, whichever of them is run *)
(* and whatever the numbers of threads, turns, chunks and addresses are.   *)
(***************************************************************************)
EXTENDS MCPrograms, TLAPS, FiniteSetTheorems, SequenceTheorems

(* The program stays what it is, and a step is one of the module that      *)
(* models it.                                                              *)
LEMMA OneModuleMoves ==
  ASSUME [Next]_vars
  PROVE  /\ program' = program
         /\ [CounterNext]_counterVars /\ [PipeNext]_pipeVars /\ [StdinNext]_stdinVars
         /\ [EventNext]_eventVars /\ [PipelineNext]_pipelineVars /\ [HandlerNext]_handlerVars
         /\ [FileNext]_fileVars /\ [StdioNext]_stdioVars /\ [AddressNext]_addressVars
  BY DEF Next, vars

----------------------------------------------------------------------------
(* Counters: the semaphore of sem1.c, the mutex of local_static2.c.        *)

LEMMA CounterInitInv == CounterInit => CounterInv
  <1> SUFFICES ASSUME CounterInit PROVE CounterInv
    OBVIOUS
  <1>1. CounterTypeOK
    BY CountersAssumption DEF CounterInit, CounterTypeOK
  <1>2. OneHolds /\ TurnsCounted
    BY CountersAssumption, <1>1
       DEF CounterInit, CounterTypeOK, OneHolds, Holding, TurnsCounted
  <1>3. NoLostUpdate
    <2>1. Increments = {}
      BY DEF CounterInit, Increments
    <2>2. QED
      BY <2>1, FS_EmptySet DEF CounterInit, NoLostUpdate
  <1>4. QED
    BY <1>1, <1>2, <1>3 DEF CounterInv

(* All turns of all threads.                                               *)
LEMMA TurnsFinite ==
  /\ IsFiniteSet(Workers \X (1 .. Ops))
  /\ Cardinality(Workers \X (1 .. Ops)) = Cardinality(Workers) * Ops
  <1>1. IsFiniteSet(1 .. Ops) /\ Cardinality(1 .. Ops) = Ops
    BY FS_Interval, CountersAssumption
  <1>2. QED
    BY <1>1, FS_Product, CountersAssumption

LEMMA CounterTypeStep ==
  ASSUME CounterInv, CounterNext
  PROVE  CounterTypeOK' /\ OneHolds' /\ TurnsCounted'
  <1> USE CountersAssumption DEF CounterInv, CounterTypeOK, OneHolds, TurnsCounted, Holding, Goes
  <1>1. ASSUME NEW t \in Workers, Create(t)
        PROVE  CounterTypeOK' /\ OneHolds' /\ TurnsCounted'
    BY <1>1 DEF Create
  <1>2. ASSUME NEW t \in Workers, Lock(t)
        PROVE  CounterTypeOK' /\ OneHolds' /\ TurnsCounted'
    BY <1>2 DEF Lock
  <1>3. ASSUME NEW t \in Workers, Load(t)
        PROVE  CounterTypeOK' /\ OneHolds' /\ TurnsCounted'
    BY <1>3 DEF Load
  <1>4. ASSUME NEW t \in Workers, Store(t)
        PROVE  CounterTypeOK' /\ OneHolds' /\ TurnsCounted'
    BY <1>4 DEF Store
  <1>5. ASSUME NEW t \in Workers, Unlock(t)
        PROVE  CounterTypeOK' /\ OneHolds' /\ TurnsCounted'
    BY <1>5 DEF Unlock
  <1>6. CASE Join
    BY <1>6 DEF Join
  <1>7. QED
    BY <1>1, <1>2, <1>3, <1>4, <1>5, <1>6 DEF CounterNext, CounterThread

(* An increment counts from its store on, and is not counted twice.        *)
LEMMA IncrementsStep ==
  ASSUME CounterInv, CounterNext
  PROVE  count' = Cardinality(Increments')
  <1> USE DEF CounterInv, CounterTypeOK, Goes
  <1>1. count = Cardinality(Increments)
    BY DEF NoLostUpdate
  <1>2. ASSUME NEW t \in Workers, Store(t)
        PROVE  count' = Cardinality(Increments')
    <2>1. /\ done[t] < Ops /\ loaded[t] = count /\ done[t] \in Nat
          /\ worker[t] = "store" /\ worker' = [worker EXCEPT ![t] = "unlock"]
          /\ done' = done /\ count' = count + 1
      BY <1>2 DEF Store, OneHolds, TurnsCounted, Holding
    <2>2. /\ <<t, done[t] + 1>> \in Workers \X (1 .. Ops)
          /\ <<t, done[t] + 1>> \notin Increments
      BY <2>1, CountersAssumption DEF Increments
    <2>3. Increments' = Increments \union {<<t, done[t] + 1>>}
      <3>1. \A u \in Workers \X (1 .. Ops) :
               u \in Increments' <=> u \in Increments \/ u = <<t, done[t] + 1>>
        BY <2>1 DEF Increments
      <3>2. QED
        BY <2>2, <3>1 DEF Increments
    <2>4. IsFiniteSet(Increments)
      BY FS_Subset, TurnsFinite DEF Increments
    <2>5. QED
      BY <1>1, <2>1, <2>2, <2>3, <2>4, FS_AddElement
  <1>3. ASSUME NEW t \in Workers, Unlock(t)
        PROVE  count' = Cardinality(Increments')
    <2>1. Increments' = Increments
      <3>1. \A u \in Workers \X (1 .. Ops) : u \in Increments' <=> u \in Increments
        BY <1>3 DEF Unlock, Increments
      <3>2. QED
        BY <3>1 DEF Increments
    <2>2. QED
      BY <1>1, <1>3, <2>1 DEF Unlock
  <1>4. ASSUME NEW t \in Workers, Create(t) \/ Lock(t) \/ Load(t)
        PROVE  count' = Cardinality(Increments')
    <2>1. \A u \in Workers \X (1 .. Ops) : u \in Increments' <=> u \in Increments
      BY <1>4 DEF Create, Lock, Load, Increments
    <2>2. Increments' = Increments /\ count' = count
      BY <1>4, <2>1 DEF Create, Lock, Load, Increments
    <2>3. QED
      BY <1>1, <2>2
  <1>5. CASE Join
    BY <1>1, <1>5 DEF Join, Increments
  <1>6. QED
    BY <1>2, <1>3, <1>4, <1>5 DEF CounterNext, CounterThread

LEMMA CounterStepInv == CounterInv /\ [CounterNext]_counterVars => CounterInv'
  <1>1. ASSUME CounterInv, CounterNext
        PROVE  CounterInv'
    <2>1. CounterTypeOK' /\ OneHolds' /\ TurnsCounted' /\ count' = Cardinality(Increments')
      BY <1>1, CounterTypeStep, IncrementsStep
    <2>2. counting' = "exited" => Increments' = Workers \X (1 .. Ops)
      BY <2>1, CountersAssumption DEF CounterTypeOK, TurnsCounted, Increments
    <2>3. QED
      BY <2>1, <2>2, TurnsFinite DEF CounterInv, NoLostUpdate
  <1>2. ASSUME CounterInv, UNCHANGED counterVars
        PROVE  CounterInv'
    BY <1>2 DEF counterVars, CounterInv, CounterTypeOK, OneHolds, Holding, TurnsCounted,
                NoLostUpdate, Increments
  <1>3. QED
    BY <1>1, <1>2

(* However many threads there are and however often each of them adds 1,   *)
(* no addition is lost: the assertion of sem1.c:44.                        *)
THEOREM NoUpdateLost == Spec => []NoLostUpdate
  <1>1. Init => CounterInv
    BY CounterInitInv DEF Init
  <1>2. CounterInv /\ [Next]_vars => CounterInv'
    BY OneModuleMoves, CounterStepInv
  <1>3. CounterInv => NoLostUpdate
    BY DEF CounterInv
  <1>4. QED
    BY <1>1, <1>2, <1>3, PTL DEF Spec

----------------------------------------------------------------------------
(* EpollPipes: epoll1.c and its writers.                                   *)

LEMMA PipeInitInv == PipeInit => IInv
  <1> SUFFICES ASSUME PipeInit PROVE IInv
    OBVIOUS
  <1>1. Cardinality(Threads) \in Nat
    BY FS_CardinalityType, EpollAssumption
  <1>2. PipeTypeOK
    <2>1. n_remaining \in 0 .. Cardinality(Threads)
      BY <1>1 DEF PipeInit
    <2>2. QED
      BY <2>1, EpollAssumption DEF PipeInit, PipeTypeOK, Ends
  <1>3. {t \in Threads : readEnd[t] # "closed"} = Threads
    BY DEF PipeInit
  <1>4. RemainingCount
    BY <1>3 DEF PipeInit, RemainingCount
  <1>5. WriterPipe /\ NothingUnread /\ ReportStillTrue
    <2>1. main \in {"off", "setup"}
      BY DEF PipeInit
    <2>2. \A t \in Threads : /\ thread[t] = "none" /\ readEnd[t] = "none" /\ writeEnd[t] = "none"
                             /\ read[t] = 0 /\ written[t] = 0 /\ events[t] = "none"
      BY DEF PipeInit
    <2>3. QED
      BY <2>1, <2>2 DEF WriterPipe, NothingUnread, ReportStillTrue
  <1>6. QED
    BY <1>2, <1>4, <1>5 DEF IInv

(* What the invariant says of one pipe: everything but the count.          *)
PipeSound(t) ==
    /\ read[t] <= written[t]
    /\ thread[t] = "none" <=> readEnd[t] = "none"
    /\ writeEnd[t] = "closed" <=> thread[t] = "done"
    /\ thread[t] \in {"none", "open"} => written[t] = 0
    /\ thread[t] = "done" => written[t] = Chunks
    /\ main \notin {"off", "setup", "exited"} => thread[t] # "none"
    /\ main # "process" => events[t] = "none" \/ main = "exited"
    /\ events[t] # "none" /\ main # "exited" => readEnd[t] = "open"
    /\ readEnd[t] = "closed" => written[t] = Chunks /\ read[t] = Chunks
    /\ main = "process" /\ events[t] = "in" => written[t] - read[t] > 0
    /\ main = "process" /\ events[t] = "hup" =>
          written[t] - read[t] = 0 /\ writeEnd[t] = "closed"

PipesTypeOK ==
    /\ main \in {"off", "setup", "wait", "process", "join", "exited"}
    /\ thread \in [Threads -> {"none", "open", "write", "done", "failed"}]
    /\ written \in [Threads -> 0 .. Chunks]
    /\ read \in [Threads -> 0 .. Chunks]
    /\ readEnd \in [Threads -> Ends]
    /\ writeEnd \in [Threads -> Ends]
    /\ events \in [Threads -> {"none", "in", "hup"}]

LEMMA PipesSound ==
  /\ WriterPipe /\ NothingUnread /\ ReportStillTrue <=> \A t \in Threads : PipeSound(t)
  /\ (WriterPipe /\ NothingUnread /\ ReportStillTrue <=> \A t \in Threads : PipeSound(t))'
  BY DEF WriterPipe, NothingUnread, ReportStillTrue, PipeSound, InPipe

LEMMA PipesStep ==
  ASSUME IInv, PipeNext
  PROVE  PipesTypeOK' /\ \A s \in Threads : PipeSound(s)'
  <1>1. PipesTypeOK /\ Chunks \in Nat /\ \A s \in Threads : PipeSound(s)
    BY PipesSound, EpollAssumption DEF IInv, PipeTypeOK, PipesTypeOK
  <1> USE <1>1 DEF PipesTypeOK, Ends
  <1>2. ASSUME NEW t \in Threads, Writer(t), OpenRandom(t)
        PROVE  PipesTypeOK' /\ \A s \in Threads : PipeSound(s)'
    BY <1>2 DEF OpenRandom, PipeSound
  <1>3. ASSUME NEW t \in Threads, Writer(t), WriteChunk(t)
        PROVE  PipesTypeOK' /\ \A s \in Threads : PipeSound(s)'
    <2>1. PipesTypeOK'
      BY <1>3 DEF WriteChunk
    <2>2. ASSUME NEW s \in Threads
          PROVE  PipeSound(s)'
      <3>1. CASE s = t
        BY <1>3, <3>1 DEF WriteChunk, PipeSound
      <3>2. CASE s # t
        BY <1>3, <3>2 DEF WriteChunk, PipeSound
      <3>3. QED
        BY <3>1, <3>2
    <2>3. QED
      BY <2>1, <2>2
  <1>4. ASSUME NEW t \in Threads, Writer(t), WriterFails(t)
        PROVE  PipesTypeOK' /\ \A s \in Threads : PipeSound(s)'
    BY <1>4 DEF WriterFails, PipeSound
  <1>5. ASSUME NEW t \in Threads, Writer(t), WriterKilled(t)
        PROVE  PipesTypeOK' /\ \A s \in Threads : PipeSound(s)'
    BY <1>5 DEF WriterKilled, PipeSound
  <1>6. ASSUME NEW t \in Threads, Writer(t), Finish(t)
        PROVE  PipesTypeOK' /\ \A s \in Threads : PipeSound(s)'
    BY <1>6 DEF Finish, PipeSound
  <1>7. ASSUME NEW t \in Threads, Start(t)
        PROVE  PipesTypeOK' /\ \A s \in Threads : PipeSound(s)'
    BY <1>7 DEF Start, PipeSound
  <1>8. CASE Wait
    <2>1. /\ main = "wait" /\ main' = "process"
          /\ events' = [t \in Threads |-> Report(t)]
          /\ UNCHANGED <<thread, written, read, readEnd, writeEnd>>
      BY <1>8 DEF Wait
    <2>2. \A t \in Threads :
             /\ Report(t) \in {"none", "in", "hup"}
             /\ Report(t) # "none" => readEnd[t] = "open"
             /\ Report(t) = "in" => written[t] - read[t] > 0
             /\ Report(t) = "hup" => ~(written[t] - read[t] > 0) /\ writeEnd[t] = "closed"
      BY DEF Report, InPipe
    <2>3. PipesTypeOK'
      BY <2>1, <2>2
    <2>4. ASSUME NEW s \in Threads
          PROVE  PipeSound(s)'
      <3>1. events'[s] = Report(s) /\ written[s] \in Int /\ read[s] \in Int /\ read[s] <= written[s]
        BY <2>1 DEF PipeSound
      <3>2. QED
        BY <2>1, <2>2, <3>1 DEF PipeSound
    <2>5. QED
      BY <2>3, <2>4
  <1>9. ASSUME NEW t \in Threads, ReadPipe(t)
        PROVE  PipesTypeOK' /\ \A s \in Threads : PipeSound(s)'
    <2>1. /\ main = "process" /\ events[t] = "in" /\ main' \in {"process", "wait"}
          /\ main' = "wait" => \A u \in Threads \ {t} : events[u] = "none"
          /\ read' = [read EXCEPT ![t] = @ + 1] /\ events' = [events EXCEPT ![t] = "none"]
          /\ UNCHANGED <<thread, written, readEnd, writeEnd>>
      BY <1>9 DEF ReadPipe, Handled
    <2>2. read[t] < written[t] /\ read[t] \in Nat /\ written[t] \in 0 .. Chunks
      BY <2>1 DEF PipeSound
    <2>3. PipesTypeOK'
      BY <2>1, <2>2
    <2>4. ASSUME NEW s \in Threads
          PROVE  PipeSound(s)'
      <3>1. CASE s = t
        BY <2>1, <2>2, <3>1 DEF PipeSound
      <3>2. CASE s # t
        BY <2>1, <3>2 DEF PipeSound
      <3>3. QED
        BY <3>1, <3>2
    <2>5. QED
      BY <2>3, <2>4
  <1>10. ASSUME NEW t \in Threads, ClosePipe(t)
         PROVE  PipesTypeOK' /\ \A s \in Threads : PipeSound(s)'
    <2>1. /\ main = "process" /\ events[t] = "hup" /\ main' \in {"process", "wait"}
          /\ main' = "wait" => \A u \in Threads \ {t} : events[u] = "none"
          /\ readEnd' = [readEnd EXCEPT ![t] = "closed"] /\ events' = [events EXCEPT ![t] = "none"]
          /\ UNCHANGED <<thread, written, read, writeEnd>>
      BY <1>10 DEF ClosePipe, Handled
    <2>2. PipesTypeOK'
      BY <2>1
    <2>3. ASSUME NEW s \in Threads
          PROVE  PipeSound(s)'
      <3>1. CASE s = t
        BY <2>1, <3>1 DEF PipeSound
      <3>2. CASE s # t
        BY <2>1, <3>2 DEF PipeSound
      <3>3. QED
        BY <3>1, <3>2
    <2>4. QED
      BY <2>2, <2>3
  <1>11. CASE SetupFails \/ LeaveLoop \/ JoinAll
    <2>1. /\ main' \in {"join", "exited"} /\ main # "process"
          /\ main' = "join" => main = "wait"
          /\ UNCHANGED <<thread, written, read, readEnd, writeEnd, events>>
      BY <1>11 DEF SetupFails, LeaveLoop, JoinAll
    <2>2. QED
      BY <2>1 DEF PipeSound
  <1>12. QED
    BY <1>2, <1>3, <1>4, <1>5, <1>6, <1>7, <1>8, <1>9, <1>10, <1>11
       DEF PipeNext, EpollMain, Writer

(* The count of the pipes goes down with each that is closed.              *)
OpenPipes == {t \in Threads : readEnd[t] # "closed"}

LEMMA RemainingStep ==
  ASSUME IInv, PipeNext
  PROVE  n_remaining' = Cardinality(OpenPipes')
  <1>1. n_remaining = Cardinality(OpenPipes) /\ readEnd \in [Threads -> Ends]
    BY DEF IInv, RemainingCount, PipeTypeOK, OpenPipes
  <1>2. IsFiniteSet(OpenPipes)
    BY FS_Subset, EpollAssumption DEF OpenPipes
  <1>3. ASSUME NEW t \in Threads, ClosePipe(t)
        PROVE  n_remaining' = Cardinality(OpenPipes')
    <2>1. events[t] = "hup" /\ main = "process" /\ readEnd' = [readEnd EXCEPT ![t] = "closed"]
          /\ n_remaining' = n_remaining - 1
      BY <1>3 DEF ClosePipe
    <2>2. readEnd[t] = "open"
      BY <2>1 DEF IInv, WriterPipe
    <2>3. OpenPipes' = OpenPipes \ {t} /\ t \in OpenPipes
      BY <1>1, <2>1, <2>2 DEF OpenPipes
    <2>4. Cardinality(OpenPipes \ {t}) = Cardinality(OpenPipes) - 1
      BY <1>2, <2>3, FS_RemoveElement
    <2>5. QED
      BY <1>1, <2>1, <2>3, <2>4
  <1>4. ASSUME NEW t \in Threads, Start(t)
        PROVE  n_remaining' = Cardinality(OpenPipes')
    <2>1. readEnd[t] = "none"
      BY <1>4 DEF Start, IInv, WriterPipe
    <2>2. OpenPipes' = OpenPipes /\ n_remaining' = n_remaining
      BY <1>1, <1>4, <2>1 DEF Start, OpenPipes
    <2>3. QED
      BY <1>1, <2>2
  <1>5. ASSUME ~(\E t \in Threads : ClosePipe(t) \/ Start(t))
        PROVE  n_remaining' = Cardinality(OpenPipes')
    <2>1. readEnd' = readEnd /\ n_remaining' = n_remaining
      BY <1>5
         DEF PipeNext, EpollMain, SetupFails, Wait, ReadPipe, LeaveLoop, JoinAll, Writer,
             OpenRandom, WriteChunk, WriterFails, WriterKilled, Finish
    <2>2. OpenPipes' = OpenPipes
      BY <2>1 DEF OpenPipes
    <2>3. QED
      BY <1>1, <2>1, <2>2
  <1>6. QED
    BY <1>3, <1>4, <1>5

LEMMA PipeStepInv == IInv /\ [PipeNext]_pipeVars => IInv'
  <1>1. ASSUME IInv, PipeNext
        PROVE  IInv'
    <2>1. /\ PipesTypeOK' /\ n_remaining' = Cardinality(OpenPipes')
          /\ (WriterPipe /\ NothingUnread /\ ReportStillTrue)'
      BY <1>1, PipesStep, PipesSound, RemainingStep
    <2>2. n_remaining' \in 0 .. Cardinality(Threads)
      <3>1. OpenPipes' \in SUBSET Threads
        BY DEF OpenPipes
      <3>2. /\ Cardinality(OpenPipes') \in Nat /\ Cardinality(Threads) \in Nat
            /\ Cardinality(OpenPipes') <= Cardinality(Threads)
        BY <3>1, FS_Subset, FS_CardinalityType, EpollAssumption
      <3>3. QED
        BY <2>1, <3>2
    <2>3. RemainingCount'
      BY <2>1 DEF RemainingCount, OpenPipes
    <2>4. QED
      BY <2>1, <2>2, <2>3 DEF IInv, PipesTypeOK, PipeTypeOK
  <1>2. ASSUME IInv, UNCHANGED pipeVars
        PROVE  IInv'
    BY <1>2 DEF pipeVars, IInv, PipeTypeOK, WriterPipe, NothingUnread, ReportStillTrue,
                RemainingCount, InPipe
  <1>3. QED
    BY <1>1, <1>2

LEMMA PipeInvariance == Spec => []IInv
  <1>1. Init => IInv
    BY PipeInitInv DEF Init
  <1>2. IInv /\ [Next]_vars => IInv'
    BY OneModuleMoves, PipeStepInv
  <1>3. QED
    BY <1>1, <1>2, PTL DEF Spec

(* For any number of writers, chunks and room in the pipes: epoll1.c       *)
(* closes a pipe only when all of it has been read.                        *)
THEOREM PipesReadToTheEnd == Spec => []NothingUnread
  BY PipeInvariance, PTL DEF IInv

(* What epoll_wait() has reported still holds when main() acts on it.      *)
THEOREM PipeReportsHold == Spec => []ReportStillTrue
  BY PipeInvariance, PTL DEF IInv

(* n_remaining, which ends the loop, counts the pipes still to be closed.  *)
THEOREM PipesCounted == Spec => []RemainingCount
  BY PipeInvariance, PTL DEF IInv

(* Nobody waits in vain: the guards of a writer, and of main(); SetupFails *)
(* is left out.                                                            *)
WriterMoves(t) ==
    \/ thread[t] = "open"
    \/ thread[t] = "write" /\ written[t] = Chunks
    \/ thread[t] = "write" /\ written[t] < Chunks /\ readEnd[t] = "open" /\ InPipe(t) < PipeSize

EpollMoves ==
    \/ main = "setup" /\ \E t \in Threads : thread[t] = "none"
    \/ main = "wait" /\ n_remaining > 0 /\ \E t \in Threads : Report(t) # "none"
    \/ main = "wait" /\ n_remaining = 0
    \/ main = "process" /\ \E t \in Threads : events[t] \in {"in", "hup"}
    \/ main = "join" /\ \A t \in Threads : thread[t] \in {"done", "failed"}

(* Where main() is, and what it has found.                                 *)
LoopState ==
    /\ main = "setup" => \E t \in Threads : thread[t] = "none"
    /\ main = "process" => \E t \in Threads : events[t] # "none"
    /\ main = "join" => n_remaining = 0
    /\ \A t \in Threads : readEnd[t] = "closed" => thread[t] = "done"

(* What EveryPipeEnds allows: a writer that returned early, and its pipe   *)
(* drained.                                                                *)
BlockedByFailureOnly ==
    main \in {"setup", "wait", "process", "join"} =>
        \/ EpollMoves
        \/ \E t \in Threads : WriterMoves(t)
        \/ /\ \E t \in Threads : thread[t] = "failed"
           /\ \A t \in Threads : readEnd[t] = "closed" \/ (thread[t] = "failed" /\ InPipe(t) = 0)

LEMMA LoopStateInit == PipeInit => LoopState
  BY EpollAssumption DEF PipeInit, LoopState

LEMMA LoopStateStep ==
  ASSUME IInv, LoopState, [PipeNext]_pipeVars
  PROVE  LoopState'
  <1> USE DEF IInv, PipeTypeOK, LoopState
  <1>1. ASSUME NEW t \in Threads, Start(t)
        PROVE  LoopState'
    BY <1>1 DEF Start, WriterPipe
  <1>2. CASE SetupFails \/ Wait \/ LeaveLoop \/ JoinAll
    BY <1>2 DEF SetupFails, Wait, LeaveLoop, JoinAll
  <1>3. ASSUME NEW t \in Threads, ReadPipe(t)
        PROVE  LoopState'
    BY <1>3 DEF ReadPipe, Handled
  <1>4. ASSUME NEW t \in Threads, ClosePipe(t)
        PROVE  LoopState'
    <2>1. thread[t] = "done"
      BY <1>4 DEF ClosePipe, ReportStillTrue, WriterPipe
    <2>2. QED
      BY <1>4, <2>1 DEF ClosePipe, Handled
  <1>5. ASSUME NEW t \in Threads, Writer(t)
        PROVE  LoopState'
    BY <1>5 DEF Writer, OpenRandom, WriteChunk, WriterFails, WriterKilled, Finish, WriterPipe
  <1>6. CASE UNCHANGED pipeVars
    BY <1>6 DEF pipeVars
  <1>7. QED
    BY <1>1, <1>2, <1>3, <1>4, <1>5, <1>6 DEF PipeNext, EpollMain

LEMMA BlockedByFailure == IInv /\ LoopState => BlockedByFailureOnly
  <1> SUFFICES ASSUME IInv, LoopState, main \in {"setup", "wait", "process", "join"},
                      ~EpollMoves, ~\E t \in Threads : WriterMoves(t)
               PROVE  /\ \E t \in Threads : thread[t] = "failed"
                      /\ \A t \in Threads :
                            readEnd[t] = "closed" \/ (thread[t] = "failed" /\ InPipe(t) = 0)
    BY DEF BlockedByFailureOnly
  <1>1. n_remaining \in Nat /\ (n_remaining = 0 => \A t \in Threads : readEnd[t] = "closed")
    <2> DEFINE left == {t \in Threads : readEnd[t] # "closed"}
    <2>1. IsFiniteSet(left)
      BY EpollAssumption, FS_Subset
    <2>2. n_remaining = Cardinality(left)
      BY DEF IInv, RemainingCount
    <2>3. Cardinality(left) \in Nat /\ (Cardinality(left) = 0 <=> left = {})
      BY <2>1, FS_EmptySet, FS_CardinalityType
    <2>4. QED
      BY <2>2, <2>3
  <1>2. main = "wait"
    <2>1. main # "setup"
      BY DEF EpollMoves, LoopState
    <2>2. main # "process"
      BY DEF EpollMoves, LoopState, IInv, PipeTypeOK
    <2>3. main # "join"
      BY <1>1 DEF EpollMoves, LoopState
    <2>4. QED
      BY <2>1, <2>2, <2>3
  <1>3. n_remaining > 0 /\ \A t \in Threads : Report(t) = "none"
    BY <1>1, <1>2 DEF EpollMoves
  <1>4. ASSUME NEW t \in Threads, readEnd[t] # "closed"
        PROVE  thread[t] = "failed" /\ InPipe(t) = 0
    <2>1. readEnd[t] = "open" /\ thread[t] # "none"
      BY <1>2, <1>4 DEF IInv, PipeTypeOK, WriterPipe, Ends
    <2>2. written[t] \in 0 .. Chunks /\ read[t] \in 0 .. Chunks /\ read[t] <= written[t]
      BY DEF IInv, PipeTypeOK, WriterPipe
    <2>3. InPipe(t) = 0 /\ writeEnd[t] # "closed"
      BY <1>3, <2>1, <2>2 DEF Report, InPipe
    <2>4. thread[t] \notin {"done", "open", "write"}
      BY <2>1, <2>2, <2>3, EpollAssumption DEF IInv, WriterPipe, WriterMoves
    <2>5. thread[t] \in {"none", "open", "write", "done", "failed"}
      BY DEF IInv, PipeTypeOK
    <2>6. QED
      BY <2>1, <2>3, <2>4, <2>5
  <1>5. \E t \in Threads : readEnd[t] # "closed"
    <2>1. ASSUME \A t \in Threads : readEnd[t] = "closed"
          PROVE  n_remaining = 0
      <3>1. {t \in Threads : readEnd[t] # "closed"} = {}
        BY <2>1
      <3>2. QED
        BY <3>1, FS_EmptySet DEF IInv, RemainingCount
    <2>2. QED
      BY <1>3, <2>1
  <1>6. QED
    BY <1>4, <1>5

LEMMA LoopInvariance == Spec => []LoopState
  <1>1. Init => LoopState
    BY LoopStateInit DEF Init
  <1>2. IInv /\ LoopState /\ [Next]_vars => LoopState'
    BY OneModuleMoves, LoopStateStep
  <1>3. QED
    BY <1>1, <1>2, PipeInvariance, PTL DEF Spec

(* For any number of writers and chunks: epoll1.c can go on, unless every  *)
(* pipe that is still open is drained and its writer has failed.           *)
THEOREM OnlyFailureBlocks == Spec => []BlockedByFailureOnly
  <1>1. IInv /\ LoopState => BlockedByFailureOnly
    BY BlockedByFailure
  <1>2. QED
    BY <1>1, LoopInvariance, PipeInvariance, PTL

----------------------------------------------------------------------------
(* AddressLoop: client_socket() and server_socket() of util.c.             *)

LEMMA AddressInitInv == AddressInit => AddressInv
  BY AddressAssumption
     DEF AddressInit, AddressInv, AddressTypeOK, OneAtATime, NoSocketLeaked

LEMMA AddressStepInv == AddressInv /\ [AddressNext]_addressVars => AddressInv'
  <1> SUFFICES ASSUME AddressInv, [AddressNext]_addressVars PROVE AddressInv'
    OBVIOUS
  <1> USE AddressAssumption
      DEF AddressInv, AddressTypeOK, OneAtATime, NoSocketLeaked, Returns
  <1>1. CASE MakeSocket
    <2>1. /\ rp \in Nat /\ results \in Nat /\ rp <= results /\ results <= Addresses
          /\ made = {} /\ refused = 1 .. rp - 1
          /\ results' = results /\ result' = result /\ tries # "returned"
      BY <1>1 DEF MakeSocket
    <2>2. CASE /\ made' = {rp} /\ tries' \in {"setsockopt", "use"}
               /\ rp' = rp /\ refused' = refused
      BY <2>1, <2>2
    <2>3. CASE rp' = rp + 1 /\ refused' = refused \union {rp} /\ made' = {} /\ tries' = "socket"
      <3>1. (1 .. rp - 1) \union {rp} = 1 .. (rp + 1) - 1
        OBVIOUS
      <3>2. refused' = 1 .. rp' - 1 /\ refused' \subseteq 1 .. Addresses
        BY <2>1, <2>3, <3>1
      <3>3. rp' \in 1 .. Addresses + 1 /\ rp' <= results' + 1
        BY <2>1, <2>3
      <3>4. QED
        BY <2>1, <2>3, <3>2, <3>3
    <2>4. QED
      BY <1>1, <2>1, <2>2, <2>3 DEF MakeSocket
  <1>2. CASE NoAddressLeft
    BY <1>2 DEF NoAddressLeft
  <1>3. CASE SetOption
    BY <1>3 DEF SetOption
  <1>4. CASE UseAddress
    <2>1. CASE tries' = "close"
      <3>1. (1 .. rp - 1) \union {rp} = 1 .. rp
        OBVIOUS
      <3>2. refused' = 1 .. rp /\ refused' \subseteq 1 .. Addresses
        BY <1>4, <2>1, <3>1 DEF UseAddress
      <3>3. QED
        BY <1>4, <2>1, <3>2 DEF UseAddress
    <2>2. CASE tries' # "close"
      BY <1>4, <2>2 DEF UseAddress
    <2>3. QED
      BY <2>1, <2>2
  <1>5. CASE CloseSocket
    BY <1>5 DEF CloseSocket
  <1>6. CASE Listen
    BY <1>6 DEF Listen
  <1>7. CASE UNCHANGED addressVars
    BY <1>7 DEF addressVars
  <1>8. QED
    BY <1>1, <1>2, <1>3, <1>4, <1>5, <1>6, <1>7 DEF AddressNext

(* However many addresses there are and whichever calls fail, the function *)
(* returns one open socket, for the first address that serves, or none.    *)
THEOREM SocketsClosed == Spec => []NoSocketLeaked
  <1>1. Init => AddressInv
    BY AddressInitInv DEF Init
  <1>2. AddressInv /\ [Next]_vars => AddressInv'
    BY OneModuleMoves, AddressStepInv
  <1>3. AddressInv => NoSocketLeaked
    BY DEF AddressInv
  <1>4. QED
    BY <1>1, <1>2, <1>3, PTL DEF Spec

----------------------------------------------------------------------------
(* StdioBuffer: buffering1.c to buffering4.c.                              *)

LEMMA StdioInitInv == StdioInit => StdioInv
  <1> SUFFICES ASSUME StdioInit PROVE StdioInv
    OBVIOUS
  <1>1. StdioTypeOK
    BY DEF StdioInit, StdioTypeOK, Printers
  <1>2. /\ prints["parent"] = IF program \in StdioPrograms THEN "print" ELSE "off"
        /\ prints["child"] = "off"
    BY DEF StdioInit, Printers
  <1>3. BufferedUntilExit
    BY <1>2 DEF StdioInit, BufferedUntilExit, Direct, Exited, Printers, StdioPrograms
  <1>4. QED
    BY <1>1, <1>3 DEF StdioInv

LEMMA StdioStepInv ==
  ASSUME StdioInv, [StdioNext]_stdioVars, program' = program
  PROVE  StdioInv'
  <1> USE DEF StdioInv, StdioTypeOK, BufferedUntilExit, Direct, Exited, Printers
  <1>1. CASE PrintLine
    <2>1. /\ prints["child"] = "off" /\ ~unwritten["parent"] /\ ~unwritten["child"]
          /\ copies = 0
      BY <1>1 DEF PrintLine
    <2>2. /\ prints'["child"] = "off"
          /\ prints'["parent"] =
                IF program \in {"buffering3", "buffering4"} THEN "fork" ELSE "exit"
          /\ Direct' = Direct
      BY <1>1, <2>1 DEF PrintLine
    <2> StdioTypeOK'
      <3>1. prints' \in [Printers -> {"off", "print", "fork", "exit", "exited"}]
        BY <1>1 DEF PrintLine
      <3>2. /\ copies' \in Nat /\ tty' \in BOOLEAN
            /\ unwritten' = unwritten \/ unwritten' = [unwritten EXCEPT !["parent"] = TRUE]
        BY <1>1 DEF PrintLine
      <3>3. QED
        BY <3>1, <3>2
    <2>3. CASE Direct
      <3>1. copies' = 1 /\ ~unwritten'["parent"] /\ ~unwritten'["child"]
        BY <1>1, <2>1, <2>3 DEF PrintLine
      <3>2. program = "buffering4"
        BY <2>3
      <3>3. QED
        BY <2>2, <2>3, <3>1, <3>2
    <2>4. CASE ~Direct
      <3>1. copies' = 0 /\ unwritten'["parent"] /\ ~unwritten'["child"]
        BY <1>1, <2>1, <2>4 DEF PrintLine
      <3>2. QED
        BY <2>2, <2>4, <3>1
    <2>5. QED
      BY <2>3, <2>4
  <1>2. CASE ForkPrinter
    <2>1. /\ prints["child"] = "off" /\ ~unwritten["child"]
          /\ unwritten["parent"] <=> ~Direct
          /\ Direct' = Direct /\ copies' = copies
      BY <1>2 DEF ForkPrinter
    <2>2. CASE prints'["child"] = "off"
      BY <1>2, <2>1, <2>2 DEF ForkPrinter
    <2>3. CASE prints'["child"] # "off"
      <3>1. \A p \in Printers : prints'[p] = "exit" /\ unwritten'[p] = unwritten["parent"]
        BY <1>2, <2>1, <2>3 DEF ForkPrinter
      <3>2. StdioTypeOK'
        BY <1>2, <2>1, <2>3 DEF ForkPrinter
      <3>3. program \in {"buffering3", "buffering4"}
        BY <1>2 DEF ForkPrinter
      <3>4. QED
        BY <1>2, <2>1, <3>1, <3>2, <3>3 DEF ForkPrinter
    <2>4. QED
      BY <2>2, <2>3
  <1>3. ASSUME NEW p \in Printers, ExitPrinter(p)
        PROVE  StdioInv'
    BY <1>3 DEF ExitPrinter
  <1>4. CASE UNCHANGED stdioVars
    BY <1>4 DEF stdioVars
  <1>5. QED
    BY <1>1, <1>2, <1>3, <1>4 DEF StdioNext

(* The line of buffering1.c to buffering4.c is written as often as their   *)
(* headers say, whether or not fork() succeeds and whoever exits first.    *)
THEOREM LineWritten == Spec => []CopiesWritten
  <1>1. Init => StdioInv
    BY StdioInitInv DEF Init
  <1>2. StdioInv /\ [Next]_vars => StdioInv'
    BY OneModuleMoves, StdioStepInv
  <1>3. StdioInv => CopiesWritten
    BY DEF StdioInv, StdioTypeOK, BufferedUntilExit, Direct, Exited, Printers, CopiesWritten
  <1>4. QED
    BY <1>1, <1>2, <1>3, PTL DEF Spec

----------------------------------------------------------------------------
(* Handlers: the programs with signal handlers, and pending1.c.            *)

HandlerInv == HandlerTypeOK /\ ToldIsPending

LEMMA HandlerInitInv == HandlerInit => HandlerInv
  BY DEF HandlerInit, HandlerInv, HandlerTypeOK, ToldIsPending, HandlerPrograms, UserSignals

LEMMA HandlerStepInv ==
  ASSUME HandlerInv, [HandlerNext]_handlerVars, program' = program
  PROVE  HandlerInv' /\ told \subseteq told'
  <1> USE DEF HandlerInv, HandlerTypeOK, ToldIsPending, HandlerPrograms, UserSignals, Moved
  <1>1. CASE BlockBoth \/ Install \/ Test \/ Suspend
    BY <1>1 DEF BlockBoth, Install, Test, Suspend
  <1>2. CASE CatchUser
    BY <1>2 DEF CatchUser
  <1>3. CASE SetJump \/ JumpBack
    BY <1>3 DEF SetJump, JumpBack
  <1>4. CASE InstallChld \/ StartSpin
    BY <1>4 DEF InstallChld, StartSpin
  <1>5. CASE CatchChld
    BY <1>5 DEF CatchChld
  <1>6. CASE SpinStep
    BY <1>6 DEF SpinStep, ExecSpin, Alarm, SignalChld
  <1>7. CASE StopOrContinue
    BY <1>7 DEF StopOrContinue, SignalChld
  <1>8. CASE AskPending
    BY <1>8 DEF AskPending
  <1>9. ASSUME NEW s \in UserSignals \union {"INT"}, Interrupt(s)
        PROVE  HandlerInv' /\ told \subseteq told'
    <2>1. sent' = sent \/ sent' = sent \union {s}
      BY <1>9 DEF Interrupt
    <2>2. program = "pending1" => s \in UserSignals
      BY <1>9 DEF Interrupt
    <2>3. program \in HandlerPrograms /\ program_at' \in {program_at, "killed"}
      BY <1>9 DEF Interrupt, Alive
    <2>4. HandlerTypeOK'
      BY <1>9, <2>1, <2>3 DEF Interrupt
    <2>5. ToldIsPending'
      BY <1>9, <2>1, <2>2, <2>3 DEF Interrupt
    <2>6. QED
      BY <1>9, <2>4, <2>5 DEF Interrupt
  <1>10. CASE UNCHANGED handlerVars
    BY <1>10 DEF handlerVars
  <1>11. QED
    BY <1>1, <1>2, <1>3, <1>4, <1>5, <1>6, <1>7, <1>8, <1>9, <1>10 DEF HandlerNext, HandlerMain

(* What pending1.c has once been told is pending stays pending: nothing    *)
(* delivers a blocked signal.                                              *)
THEOREM PendingStays == Spec => [][told \subseteq told']_handlerVars
  <1>1. Init => HandlerInv
    BY HandlerInitInv DEF Init
  <1>2. HandlerInv /\ [Next]_vars => HandlerInv' /\ [told \subseteq told']_handlerVars
    BY OneModuleMoves, HandlerStepInv
  <1>3. QED
    BY <1>1, <1>2, PTL DEF Spec

----------------------------------------------------------------------------
(* EventLoops: the loops over signalfds, and over an eventfd.              *)

(* What Append adds to epoll's list and Tail takes from it.                *)
LEMMA EnlistedAppend ==
  ASSUME NEW S, NEW list \in Seq(S), NEW d
  PROVE  Enlisted(Append(list, d)) = Enlisted(list) \union {d}
  <1>1. /\ Len(list) \in Nat
        /\ DOMAIN list = 1 .. Len(list)
        /\ DOMAIN Append(list, d) = 1 .. Len(list) + 1
        /\ \A k \in 1 .. Len(list) : Append(list, d)[k] = list[k]
        /\ Append(list, d)[Len(list) + 1] = d
    OBVIOUS
  <1>2. \A k : k \in 1 .. Len(list) + 1 <=> k \in 1 .. Len(list) \/ k = Len(list) + 1
    BY <1>1
  <1> HIDE <1>1
  <1>3. ASSUME NEW e \in Enlisted(Append(list, d))
        PROVE  e \in Enlisted(list) \union {d}
    BY <1>1, <1>2 DEF Enlisted
  <1>4. ASSUME NEW e \in Enlisted(list) \union {d}
        PROVE  e \in Enlisted(Append(list, d))
    BY <1>1, <1>2 DEF Enlisted
  <1>5. QED
    BY <1>3, <1>4

LEMMA EnlistedTail ==
  ASSUME NEW S, NEW list \in Seq(S), list # <<>>
  PROVE  /\ Head(list) \in S /\ Tail(list) \in Seq(S)
         /\ Enlisted(list) = Enlisted(Tail(list)) \union {Head(list)}
  <1>1. /\ Len(list) \in Nat \ {0}
        /\ DOMAIN list = 1 .. Len(list)
        /\ DOMAIN Tail(list) = 1 .. Len(list) - 1
        /\ \A k \in 1 .. Len(list) - 1 : Tail(list)[k] = list[k + 1]
        /\ Head(list) = list[1]
    OBVIOUS
  <1>3. Head(list) \in S /\ Tail(list) \in Seq(S)
    OBVIOUS
  <1>4. ASSUME NEW e \in Enlisted(list)
        PROVE  e \in Enlisted(Tail(list)) \union {Head(list)}
    <2>1. PICK k \in 1 .. Len(list) : e = list[k]
      BY <1>1, <1>4 DEF Enlisted
    <2>2. CASE k = 1
      BY <1>1, <2>1, <2>2
    <2>3. CASE k # 1
      <3>1. k - 1 \in 1 .. Len(list) - 1 /\ Tail(list)[k - 1] = e
        BY <1>1, <2>1, <2>3
      <3>2. QED
        BY <1>1, <3>1 DEF Enlisted
    <2>4. QED
      BY <2>2, <2>3
  <1>5. ASSUME NEW e \in Enlisted(Tail(list)) \union {Head(list)}
        PROVE  e \in Enlisted(list)
    <2>1. CASE e = Head(list)
      BY <1>1, <2>1 DEF Enlisted
    <2>2. CASE e # Head(list)
      <3>1. PICK k \in 1 .. Len(list) - 1 : e = Tail(list)[k]
        BY <1>1, <1>5, <2>2 DEF Enlisted
      <3>2. k + 1 \in 1 .. Len(list) /\ e = list[k + 1]
        BY <1>1, <3>1
      <3>3. QED
        BY <1>1, <3>2 DEF Enlisted
    <2>3. QED
      BY <2>1, <2>2
  <1>6. QED
    BY <1>3, <1>4, <1>5

(* What is registered by which program: sets of signals that are disjoint, *)
(* and, except in signalfd1.c, leave no signal out.                        *)
LEMMA RegisteredIs ==
  /\ Descriptors \in Seq(SUBSET Signals) /\ Len(ToBlock) \in Nat /\ Len(Descriptors) \in Nat
  /\ DOMAIN Descriptors = 1 .. Len(Descriptors)
  /\ program = "signalfd3" => Registered = {Signals}
  /\ Registered \subseteq SUBSET Signals
  /\ \A d, e \in Registered : d \cap e # {} => d = e
  /\ program # "signalfd1" => \A s \in Signals : \E d \in Registered : s \in d
  /\ program = "signalfd1" => Registered = {}
  <1>1. /\ USR1 \in Nat /\ USR2 \in Nat /\ USR1 # USR2
    BY EventLoopsAssumption
  <1>2. Len(ToBlock) \in Nat
    BY DEF ToBlock, Each
  <1>3. CASE program = "signalfd1"
    <2>1. Descriptors = <<>>
      BY <1>3 DEF Descriptors
    <2>2. QED
      BY <1>2, <1>3, <2>1 DEF Registered, Enlisted
  <1>4. CASE program = "signalfd3"
    <2>1. Descriptors = <<Signals>>
      BY <1>4 DEF Descriptors
    <2>2. Registered = {Signals}
      BY <2>1 DEF Registered, Enlisted
    <2>3. QED
      BY <1>2, <1>4, <2>1, <2>2
  <1>5. CASE program \notin {"signalfd1", "signalfd3"}
    <2>1. Descriptors = Each
      BY <1>5 DEF Descriptors
    <2>2. Registered = {{USR1}, {USR2}}
      BY <2>1 DEF Registered, Enlisted, Each
    <2>3. {USR1} \cap {USR2} = {}
      BY <1>1
    <2>4. \A d, e \in Registered : d \cap e # {} => d = e
      BY <2>2, <2>3
    <2>5. QED
      BY <1>2, <1>5, <2>1, <2>2, <2>4 DEF Signals, Each
  <1>6. QED
    BY <1>3, <1>4, <1>5

LEMMA EventInitInv == EventInit => EventInv
  <1> SUFFICES ASSUME EventInit PROVE EventInv
    OBVIOUS
  <1>1. Enlisted(ready) = {}
    BY DEF EventInit, Enlisted
  <1>2. /\ loop \in {"setup", "post", "off"}
        /\ program \in SignalPrograms <=> loop = "setup"
    <2>1. CASE program \in SignalPrograms
      BY <2>1 DEF EventInit, SignalPrograms
    <2>2. CASE program = "eventfd"
      BY <2>2 DEF EventInit, SignalPrograms
    <2>3. CASE program \notin SignalPrograms /\ program # "eventfd"
      BY <2>3 DEF EventInit
    <2>4. QED
      BY <2>1, <2>2, <2>3
  <1>3. EventTypeOK
    BY <1>2, EventLoopsAssumption DEF EventInit, EventTypeOK
  <1>4. NoWakeupLost /\ ReportHolds
    BY <1>2 DEF EventInit, NoWakeupLost, ReportHolds
  <1>5. PostsCounted
    BY <1>2, EventLoopsAssumption DEF EventInit, PostsCounted
  <1>6. WatchedAsRegistered
    BY <1>1, <1>2, RegisteredIs DEF EventInit, WatchedAsRegistered
  <1>7. QED
    BY <1>3, <1>4, <1>5, <1>6 DEF EventInv

(* The registration, which no step changes.                                *)
LEMMA RegistrationStays ==
  ASSUME program' = program
  PROVE  Descriptors' = Descriptors /\ ToBlock' = ToBlock /\ Registered' = Registered
  <1>1. Descriptors' = Descriptors
    BY DEF Descriptors
  <1>2. QED
    BY <1>1 DEF ToBlock, Registered, Enlisted

(* What epoll_ctl() does to the list.                                      *)
LEMMA ArmLists ==
  ASSUME EventTypeOK, NEW d \in SUBSET Signals, Arm(d)
  PROVE  /\ ready' \in Seq(SUBSET Signals)
         /\ Enlisted(ready') = IF CanRead(d) THEN Enlisted(ready) \union {d} ELSE Enlisted(ready)
  <1>1. CASE CanRead(d) /\ d \notin Enlisted(ready)
    <2>1. ready' = Append(ready, d)
      BY <1>1 DEF Arm
    <2>2. Enlisted(ready') = Enlisted(ready) \union {d}
      BY <2>1, EnlistedAppend DEF EventTypeOK
    <2>3. ready' \in Seq(SUBSET Signals)
      BY <2>1 DEF EventTypeOK
    <2>4. QED
      BY <1>1, <2>2, <2>3
  <1>2. CASE ~(CanRead(d) /\ d \notin Enlisted(ready))
    <2>1. ready' = ready
      BY <1>2 DEF Arm
    <2>2. QED
      BY <1>2, <2>1 DEF EventTypeOK
  <1>3. QED
    BY <1>1, <1>2

(* A signal that arrives is entered on the list by the descriptor that     *)
(* reads it, unless that is listed.                                        *)
LEMMA SendLists ==
  ASSUME EventInv, NEW s \in Signals, SendSignal(s), s \in blocked
  PROVE  /\ ready' \in Seq(SUBSET Signals)
         /\ Enlisted(ready') \subseteq Enlisted(ready) \union armed
         /\ Enlisted(ready) \subseteq Enlisted(ready')
         /\ \A d \in armed : s \in d => d \in Enlisted(ready')
  <1> DEFINE woken == {d \in armed : s \in d} \ Enlisted(ready)
  <1>1. ready' = IF woken = {} THEN ready ELSE Append(ready, CHOOSE d \in woken : TRUE)
    BY DEF SendSignal
  <1>2. ready \in Seq(SUBSET Signals) /\ armed \subseteq Registered
    BY DEF EventInv, EventTypeOK, WatchedAsRegistered
  <1>3. CASE woken = {}
    BY <1>1, <1>2, <1>3
  <1>4. CASE woken # {}
    <2>1. PICK d \in woken : d = CHOOSE e \in woken : TRUE
      BY <1>4
    <2>2. ready' = Append(ready, d) /\ d \in armed /\ d \in SUBSET Signals
      BY <1>1, <1>2, <1>4, <2>1, RegisteredIs
    <2>3. Enlisted(ready') = Enlisted(ready) \union {d}
      BY <1>2, <2>2, EnlistedAppend
    <2>4. \A e \in woken : e = d
      BY <1>2, RegisteredIs
    <2>5. QED
      BY <1>2, <2>2, <2>3, <2>4
  <1>5. QED
    BY <1>3, <1>4

(* Whatever is watched is on the list if it may be read: so, in the wait,  *)
(* is what may be read at all.                                             *)
LEMMA ListedInWait ==
  ASSUME program' = program, EventTypeOK', WatchedAsRegistered',
         \A d \in armed' : ~Overlooked(d)'
  PROVE  NoWakeupLost'
  <1>1. ASSUME loop' = "wait", NEW s \in pending'
        PROVE  \E d \in Enlisted(ready') : s \in d
    <2>1. armed' = Registered /\ program # "signalfd1" /\ s \in Signals
      BY <1>1, RegistrationStays DEF WatchedAsRegistered, EventTypeOK
    <2>2. PICK d \in armed' : s \in d
      BY <2>1, RegisteredIs
    <2>3. d \in Enlisted(ready')
      BY <1>1, <2>2 DEF Overlooked, CanRead
    <2>4. QED
      BY <2>2, <2>3
  <1>2. QED
    BY <1>1 DEF NoWakeupLost

LEMMA SendStep ==
  ASSUME EventInv, NEW s \in Signals, SendSignal(s), program' = program
  PROVE  EventInv'
  <1>1. CASE s \notin blocked
    <2>1. /\ loop' = "killed"
          /\ UNCHANGED <<pending, ready, step, blocked, armed, reported, posts>>
      BY <1>1 DEF SendSignal
    <2>2. program # "eventfd"
      BY DEF SendSignal, EventInv, WatchedAsRegistered, SignalPrograms
    <2>3. EventTypeOK'
      BY <2>1 DEF EventInv, EventTypeOK
    <2>4. WatchedAsRegistered'
      <3>1. Enlisted(ready') = Enlisted(ready)
        BY <2>1
      <3>2. loop \in {"setup", "wait", "read", "rearm"}
        BY DEF SendSignal
      <3>3. QED
        BY <2>1, <3>1, <3>2, RegistrationStays DEF EventInv, WatchedAsRegistered
    <2>5. NoWakeupLost' /\ ReportHolds'
      BY <2>1 DEF EventInv, NoWakeupLost, ReportHolds, Overlooked, CanRead
    <2>6. PostsCounted'
      BY <2>1, <2>2 DEF EventInv, PostsCounted
    <2>7. QED
      BY <2>3, <2>4, <2>5, <2>6 DEF EventInv
  <1>2. CASE s \in blocked
    <2>1. /\ pending' = pending \union {s}
          /\ UNCHANGED <<loop, step, blocked, armed, reported, posts>>
          /\ loop \in {"setup", "wait", "read", "rearm"}
      BY <1>2 DEF SendSignal
    <2>2. /\ ready' \in Seq(SUBSET Signals)
          /\ Enlisted(ready') \subseteq Enlisted(ready) \union armed
          /\ Enlisted(ready) \subseteq Enlisted(ready')
          /\ \A d \in armed : s \in d => d \in Enlisted(ready')
      BY <1>2, SendLists
    <2>3. EventTypeOK'
      BY <2>1, <2>2 DEF EventInv, EventTypeOK
    <2>4. WatchedAsRegistered'
      BY <2>1, <2>2, RegistrationStays DEF EventInv, WatchedAsRegistered
    <2>5. \A d \in armed' : ~Overlooked(d)'
      <3>1. TAKE d \in armed'
      <3>2. d \in armed /\ ~Overlooked(d)
        BY <2>1 DEF EventInv, NoWakeupLost
      <3>3. CASE s \in d
        BY <2>2, <3>2, <3>3 DEF Overlooked
      <3>4. CASE s \notin d
        BY <2>1, <2>2, <3>2, <3>4 DEF Overlooked, CanRead
      <3>5. QED
        BY <3>3, <3>4
    <2>6. NoWakeupLost'
      BY <2>3, <2>4, <2>5, ListedInWait
    <2>7. ReportHolds'
      BY <2>1 DEF EventInv, ReportHolds, CanRead
    <2>8. PostsCounted'
      BY <2>1 DEF EventInv, PostsCounted, WatchedAsRegistered, SignalPrograms
    <2>9. QED
      BY <2>3, <2>4, <2>6, <2>7, <2>8 DEF EventInv
  <1>3. QED
    BY <1>1, <1>2

LEMMA EpollWaitStep ==
  ASSUME EventInv, EpollWait, program' = program
  PROVE  EventInv'
  <1> DEFINE d == Head(ready)
  <1>1. /\ loop = "wait" /\ ready # <<>> /\ armed = Registered /\ program # "signalfd1"
        /\ program \in SignalPrograms /\ ready \in Seq(SUBSET Signals)
        /\ Enlisted(ready) \subseteq Registered
    BY DEF EpollWait, EventInv, EventTypeOK, WatchedAsRegistered
  <1>2. /\ d \in SUBSET Signals /\ Tail(ready) \in Seq(SUBSET Signals)
        /\ Enlisted(ready) = Enlisted(Tail(ready)) \union {d}
    BY <1>1, EnlistedTail
  <1>3. /\ Enlisted(Append(Tail(ready), d)) = Enlisted(ready)
        /\ Append(Tail(ready), d) \in Seq(SUBSET Signals)
    <2> HIDE DEF d
    <2>1. Enlisted(Append(Tail(ready), d)) = Enlisted(Tail(ready)) \union {d}
      BY <1>2, EnlistedAppend
    <2>2. QED
      BY <1>2, <2>1
  <1>4. UNCHANGED <<step, pending, blocked, posts>>
    BY DEF EpollWait
  <1>5. Registered' = Registered
    BY RegistrationStays
  <1>6. \A e \in armed : ~Overlooked(e)
    BY DEF EventInv, NoWakeupLost
  <1>7. CASE ~CanRead(d)
    <2>1. ready' = Tail(ready) /\ UNCHANGED <<armed, reported, loop>>
      BY <1>7 DEF EpollWait
    <2> HIDE DEF d
    <2>2. EventTypeOK' /\ WatchedAsRegistered'
      BY <1>1, <1>2, <1>4, <1>5, <2>1 DEF EventInv, EventTypeOK, WatchedAsRegistered
    <2>3. \A e \in armed' : ~Overlooked(e)'
      BY <1>2, <1>4, <1>6, <1>7, <2>1 DEF Overlooked, CanRead
    <2>4. NoWakeupLost'
      BY <1>4, <2>2, <2>3, ListedInWait
    <2>5. QED
      BY <1>1, <1>4, <2>1, <2>2, <2>4
         DEF EventInv, ReportHolds, PostsCounted
  <1>8. CASE CanRead(d)
    <2>1. /\ ready' = IF program = "signalfd3" THEN Tail(ready) ELSE Append(Tail(ready), d)
          /\ armed' = IF program = "signalfd3" THEN armed \ {d} ELSE armed
          /\ reported' = d /\ loop' = "read"
      BY <1>8 DEF EpollWait
    <2>2. ready' \in Seq(SUBSET Signals) /\ Enlisted(ready') \subseteq Enlisted(ready)
      BY <1>2, <1>3, <2>1
    <2>3. \A e \in armed' : e \in Enlisted(ready) => e \in Enlisted(ready')
      BY <1>2, <1>3, <2>1
    <2> HIDE DEF d
    <2>4. EventTypeOK'
      BY <1>1, <1>2, <1>4, <2>1, <2>2 DEF EventInv, EventTypeOK
    <2>5. WatchedAsRegistered'
      BY <1>1, <1>2, <1>4, <1>5, <2>1, <2>2 DEF WatchedAsRegistered
    <2>6. NoWakeupLost'
      BY <1>4, <1>6, <2>1, <2>3 DEF NoWakeupLost, Overlooked, CanRead
    <2>7. ReportHolds' /\ PostsCounted'
      BY <1>1, <1>4, <1>8, <2>1 DEF ReportHolds, PostsCounted, CanRead
    <2>8. QED
      BY <2>4, <2>5, <2>6, <2>7 DEF EventInv
  <1>9. QED
    BY <1>7, <1>8

LEMMA RegisterStep ==
  ASSUME EventInv, Register, program' = program
  PROVE  EventInv'
  <1> DEFINE k == step - Len(ToBlock) + 1
             d == Descriptors[k]
  <1>1. /\ loop = "setup" /\ step \in Nat /\ Len(ToBlock) \in Nat
        /\ k \in 1 .. Len(Descriptors) /\ d \in Registered /\ d \in SUBSET Signals
        /\ Arm(d) /\ step' = step + 1
        /\ UNCHANGED <<loop, pending, blocked, reported, posts>>
    <2>1. step \in Nat /\ Len(ToBlock) \in Nat /\ Len(Descriptors) \in Nat
      BY RegisteredIs DEF EventInv, EventTypeOK
    <2>2. step - Len(ToBlock) \in 0 .. Len(Descriptors) - 1
      BY DEF Register
    <2>3. k \in DOMAIN Descriptors
      BY <2>1, <2>2, RegisteredIs
    <2>4. d \in Registered
      BY <2>3 DEF Registered, Enlisted
    <2>5. QED
      BY <2>1, <2>2, <2>3, <2>4, RegisteredIs DEF Register
  <1> HIDE DEF d
  <1>2. /\ ready' \in Seq(SUBSET Signals)
        /\ Enlisted(ready') = IF CanRead(d) THEN Enlisted(ready) \union {d} ELSE Enlisted(ready)
    BY <1>1, ArmLists DEF EventInv
  <1>3. armed' = armed \union {d}
    BY <1>1 DEF Arm
  <1>4. EventTypeOK'
    BY <1>1, <1>2, <1>3 DEF EventInv, EventTypeOK
  <1>5. WatchedAsRegistered'
    <2>1. \A j \in DOMAIN Descriptors : j <= step' - Len(ToBlock) => Descriptors[j] \in armed'
      <3>1. SUFFICES ASSUME NEW j \in DOMAIN Descriptors, j <= step' - Len(ToBlock)
                     PROVE  Descriptors[j] \in armed'
        OBVIOUS
      <3>2. j \in Nat /\ (j = k \/ j <= step - Len(ToBlock))
        BY <1>1, <3>1, RegisteredIs
      <3>3. QED
        BY <1>1, <1>3, <3>1, <3>2 DEF EventInv, WatchedAsRegistered, d
    <2>2. step' <= Len(ToBlock) + Len(Descriptors)
      BY <1>1, RegisteredIs
    <2> HIDE DEF k
    <2>3. QED
      BY <1>1, <1>2, <1>3, <2>1, <2>2, RegistrationStays DEF EventInv, WatchedAsRegistered
  <1>6. \A e \in armed' : ~Overlooked(e)'
    BY <1>1, <1>2, <1>3 DEF EventInv, NoWakeupLost, Overlooked, CanRead
  <1>7. NoWakeupLost'
    BY <1>4, <1>5, <1>6, ListedInWait
  <1>8. ReportHolds' /\ PostsCounted'
    BY <1>1 DEF EventInv, WatchedAsRegistered, SignalPrograms, ReportHolds, PostsCounted
  <1>9. QED
    BY <1>4, <1>5, <1>7, <1>8 DEF EventInv

LEMMA RearmStep ==
  ASSUME EventInv, Rearm, program' = program
  PROVE  EventInv'
  <1>1. /\ loop = "rearm" /\ reported \in Registered /\ reported \in SUBSET Signals
        /\ program = "signalfd3" /\ armed = Registered \ {reported} /\ Arm(reported)
        /\ loop' = "wait" /\ UNCHANGED <<step, pending, blocked, reported, posts>>
    BY RegisteredIs DEF Rearm, EventInv, EventTypeOK, WatchedAsRegistered
  <1>2. /\ ready' \in Seq(SUBSET Signals)
        /\ Enlisted(ready') = IF CanRead(reported) THEN Enlisted(ready) \union {reported}
                                                  ELSE Enlisted(ready)
    BY <1>1, ArmLists DEF EventInv
  <1>3. armed' = Registered
    BY <1>1 DEF Arm
  <1>4. EventTypeOK'
    BY <1>1, <1>2, <1>3, RegisteredIs DEF EventInv, EventTypeOK
  <1>5. WatchedAsRegistered'
    BY <1>1, <1>2, <1>3, RegistrationStays DEF EventInv, WatchedAsRegistered, SignalPrograms
  <1>6. \A e \in armed' : ~Overlooked(e)'
    BY <1>1, <1>2, <1>3 DEF EventInv, NoWakeupLost, Overlooked, CanRead
  <1>7. NoWakeupLost'
    BY <1>4, <1>5, <1>6, ListedInWait
  <1>8. ReportHolds' /\ PostsCounted'
    BY <1>1 DEF EventInv, WatchedAsRegistered, SignalPrograms, ReportHolds, PostsCounted
  <1>9. QED
    BY <1>4, <1>5, <1>7, <1>8 DEF EventInv

LEMMA ReadSignalStep ==
  ASSUME EventInv, ReadSignal, program' = program
  PROVE  EventInv'
  <1>1. /\ loop = "read" /\ program \in SignalPrograms
        /\ pending' \subseteq pending
        /\ loop' = IF program = "signalfd1" THEN "read"
                   ELSE IF program = "signalfd3" THEN "rearm" ELSE "wait"
        /\ UNCHANGED <<step, blocked, armed, ready, reported, posts>>
    BY DEF ReadSignal, EventInv, WatchedAsRegistered
  <1>2. EventTypeOK'
    BY <1>1 DEF EventInv, EventTypeOK
  <1>3. WatchedAsRegistered'
    <2>1. Enlisted(ready') = Enlisted(ready)
      BY <1>1
    <2>2. QED
      BY <1>1, <2>1, RegistrationStays DEF EventInv, WatchedAsRegistered
  <1>4. \A e \in armed' : ~Overlooked(e)'
    BY <1>1 DEF EventInv, NoWakeupLost, Overlooked, CanRead
  <1>5. NoWakeupLost'
    BY <1>2, <1>3, <1>4, ListedInWait
  <1>6. ReportHolds'
    BY <1>1 DEF ReportHolds
  <1>7. PostsCounted'
    BY <1>1 DEF PostsCounted, SignalPrograms
  <1>8. QED
    BY <1>2, <1>3, <1>5, <1>6, <1>7 DEF EventInv

(* The steps that leave epoll alone.                                       *)
LEMMA OtherEventSteps ==
  ASSUME EventInv, Block \/ EnterLoop \/ Post \/ React, program' = program
  PROVE  EventInv'
  <1>1. UNCHANGED <<pending, armed, ready>>
    BY DEF Block, EnterLoop, Post, React
  <1>2. Enlisted(ready') = Enlisted(ready)
    BY <1>1
  <1>3. EventTypeOK'
    <2>1. CASE Block
      <3>1. ToBlock[step + 1] \subseteq Signals
        BY <2>1 DEF EventInv, EventTypeOK, Block, ToBlock, Each, Signals
      <3>2. QED
        BY <2>1, <3>1 DEF EventInv, EventTypeOK, Block
    <2>2. CASE EnterLoop
      BY <2>2 DEF EventInv, EventTypeOK, EnterLoop
    <2>3. CASE Post \/ React
      BY <2>3, EventLoopsAssumption DEF EventInv, EventTypeOK, PostsCounted, Post, React
    <2>4. QED
      BY <2>1, <2>2, <2>3
  <1>4. WatchedAsRegistered'
    <2>1. CASE Block
      BY <1>1, <1>2, <2>1, RegistrationStays, RegisteredIs
         DEF EventInv, EventTypeOK, WatchedAsRegistered, Block
    <2>2. CASE EnterLoop
      <3>1. Registered \subseteq armed
        BY <2>2, RegisteredIs
           DEF EventInv, EventTypeOK, WatchedAsRegistered, EnterLoop, Registered, Enlisted
      <3>2. QED
        BY <1>1, <1>2, <2>2, <3>1, RegistrationStays
           DEF EventInv, WatchedAsRegistered, EnterLoop
    <2>3. CASE Post \/ React
      BY <1>1, <1>2, <2>3, RegistrationStays
         DEF EventInv, WatchedAsRegistered, Post, React, SignalPrograms
    <2>4. QED
      BY <2>1, <2>2, <2>3
  <1>5. \A e \in armed' : ~Overlooked(e)'
    BY <1>1 DEF EventInv, NoWakeupLost, Overlooked, CanRead
  <1>6. NoWakeupLost'
    BY <1>3, <1>4, <1>5, ListedInWait
  <1>7. ReportHolds'
    BY DEF ReportHolds, Block, EnterLoop, Post, React
  <1>8. PostsCounted'
    <2>1. CASE Block \/ EnterLoop
      BY <2>1 DEF EventInv, WatchedAsRegistered, SignalPrograms, PostsCounted, Block, EnterLoop
    <2>2. CASE Post \/ React
      BY <2>2, EventLoopsAssumption
         DEF EventInv, EventTypeOK, PostsCounted, Post, React
    <2>3. QED
      BY <2>1, <2>2
  <1>9. QED
    BY <1>3, <1>4, <1>6, <1>7, <1>8 DEF EventInv

LEMMA EventStepInv ==
  ASSUME EventInv, [EventNext]_eventVars, program' = program
  PROVE  EventInv'
  <1>1. CASE UNCHANGED eventVars
    <2>1. Enlisted(ready') = Enlisted(ready)
      BY <1>1 DEF eventVars
    <2>2. QED
      BY <1>1, <2>1, RegistrationStays
         DEF eventVars, EventInv, EventTypeOK, WatchedAsRegistered, NoWakeupLost, Overlooked,
             CanRead, ReportHolds, PostsCounted
  <1>2. CASE EventNext
    BY <1>2, SendStep, RegisterStep, EpollWaitStep, ReadSignalStep, RearmStep, OtherEventSteps
       DEF EventNext, EventMain
  <1>3. QED
    BY <1>1, <1>2

LEMMA EventInvariance == Spec => []EventInv
  <1>1. Init => EventInv
    BY EventInitInv DEF Init
  <1>2. EventInv /\ [Next]_vars => EventInv'
    BY OneModuleMoves, EventStepInv
  <1>3. QED
    BY <1>1, <1>2, PTL DEF Spec

(* Whenever a signal comes, what epoll watches and a read() would find     *)
(* something in is on epoll's list: no wake-up is lost between the tests   *)
(* of the loops and their waits.                                           *)
THEOREM EventsListed == Spec => []NoWakeupLost
  BY EventInvariance, PTL DEF EventInv

(* The descriptor that epoll_wait() has reported still holds a signal when *)
(* main() reads it, so that read() neither fails nor hangs.                *)
THEOREM EventReportsHold == Spec => []ReportHolds
  BY EventInvariance, PTL DEF EventInv

(* The eventfd holds the posts that have not been taken.                   *)
THEOREM PostsTaken == Spec => []PostsCounted
  BY EventInvariance, PTL DEF EventInv

----------------------------------------------------------------------------
(* Pipeline: fork2.c and redirect1.c.                                      *)

LEMMA PipelineInitInv == PipelineInit => PipelineInv
  <1> SUFFICES ASSUME PipelineInit PROVE PipelineInv
    OBVIOUS
  <1> USE PipelineAssumption DEF Family, Pipes, PipeEnds, PipelinePrograms
  <1>1. /\ parent = (IF program \in PipelinePrograms THEN "fork" ELSE "off")
        /\ turn = "writer" /\ child["writer"] = "none" /\ child["reader"] = "none"
        /\ filled["toReader"] = 0 /\ filled["toParent"] = 0
        /\ owed["writer"] = Echoed /\ owed["reader"] = 1
        /\ counted = 0 /\ passed = 0 /\ unflushed \in BOOLEAN
    BY DEF PipelineInit
  <1>2. /\ program = "fork2" => holds["parent"] = {"toParent"} \X {"r", "w"}
        /\ program # "fork2" => holds["parent"] = PipeEnds
        /\ holds \in [Family \union {"parent"} -> SUBSET PipeEnds]
    BY DEF PipelineInit
  <1>3. PipelineTypeOK
    <2>1. /\ child \in [Family -> {"none", "dup", "exec", "run", "zombie", "reaped"}]
          /\ filled \in [Pipes -> 0 .. Capacity]
      BY DEF PipelineInit
    <2>2. owed \in [Family -> 0 .. Echoed]
      BY DEF PipelineInit
    <2>3. QED
      BY <1>1, <1>2, <2>1, <2>2 DEF PipelineTypeOK
  <1>4. Started /\ Conserved /\ Passed
    BY <1>1 DEF Started, Conserved, Passed, Running
  <1>5. WriterHoldsEnd
    BY <1>1, <1>2 DEF WriterHoldsEnd, Running, Out
  <1>6. QED
    BY <1>3, <1>4, <1>5 DEF PipelineInv

LEMMA PipelineTypeStep ==
  ASSUME PipelineInv, PipelineNext, program' = program
  PROVE  PipelineTypeOK'
  <1> USE PipelineAssumption
      DEF PipelineInv, PipelineTypeOK, Started, WriterHoldsEnd, Conserved, Family, Pipes,
          PipeEnds, PipelinePrograms, Running, Becomes, ExitChild, Out
  <1>1. CASE StartChild
    <2>1. child' \in [Family -> {"none", "dup", "exec", "run", "zombie", "reaped"}]
      BY <1>1 DEF StartChild
    <2>2. holds' \in [Family \union {"parent"} -> SUBSET PipeEnds]
      BY <1>1 DEF StartChild
    <2>3. QED
      BY <1>1, <2>1, <2>2 DEF StartChild
  <1>2. CASE GiveEnds
    BY <1>2 DEF GiveEnds, Given
  <1>3. CASE WaitChild
    BY <1>3 DEF WaitChild
  <1>4. CASE WaitEnds
    BY <1>4 DEF WaitEnds
  <1>5. CASE PassOn
    BY <1>5 DEF PassOn
  <1>6. CASE ReadEnd
    BY <1>6 DEF ReadEnd, AtEnd
  <1>7. ASSUME NEW c \in Family, Redirect(c)
        PROVE  PipelineTypeOK'
    <2>1. child' \in [Family -> {"none", "dup", "exec", "run", "zombie", "reaped"}]
      BY <1>7 DEF Redirect
    <2>2. holds' \in [Family \union {"parent"} -> SUBSET PipeEnds]
      BY <1>7 DEF Redirect
    <2>3. QED
      BY <1>7, <2>1, <2>2 DEF Redirect
  <1>8. ASSUME NEW c \in Family, Exec(c)
        PROVE  PipelineTypeOK'
    BY <1>8 DEF Exec
  <1>9. ASSUME NEW c \in Family, ExecFails(c)
        PROVE  PipelineTypeOK'
    <2>1. /\ child' \in [Family -> {"none", "dup", "exec", "run", "zombie", "reaped"}]
          /\ holds' \in [Family \union {"parent"} -> SUBSET PipeEnds]
      BY <1>9 DEF ExecFails
    <2>2. filled' \in [Pipes -> 0 .. Capacity]
      <3>1. CASE c = "reader"
        <4>1. filled["toParent"] = 0 /\ Out(c) = "toParent"
          BY <1>9, <3>1 DEF ExecFails
        <4>2. filled' = filled \/ filled' = [filled EXCEPT !["toParent"] = @ + 1]
          BY <1>9, <4>1 DEF ExecFails
        <4>3. QED
          BY <4>1, <4>2
      <3>2. CASE c # "reader"
        BY <1>9, <3>2 DEF ExecFails
      <3>3. QED
        BY <3>1, <3>2
    <2>3. QED
      BY <1>9, <2>1, <2>2 DEF ExecFails
  <1>10. CASE CountInput
    BY <1>10 DEF CountInput
  <1>11. ASSUME NEW c \in Family, WriteOut(c)
        PROVE  PipelineTypeOK'
    <2>1. PICK pipe \in Pipes : pipe = Out(c)
      OBVIOUS
    <2>2. owed' \in [Family -> 0 .. Echoed]
      BY <1>11 DEF WriteOut
    <2>3. filled' \in [Pipes -> 0 .. Capacity]
      <3>1. filled[pipe] < Capacity /\ filled' = [filled EXCEPT ![pipe] = @ + 1]
        BY <1>11, <2>1 DEF WriteOut
      <3>2. filled[pipe] + 1 \in 0 .. Capacity
        BY <3>1
      <3>3. QED
        BY <3>1, <3>2
    <2>4. QED
      BY <1>11, <2>2, <2>3 DEF WriteOut
  <1>12. ASSUME NEW c \in Family, ChildEnds(c)
        PROVE  PipelineTypeOK'
    BY <1>12 DEF ChildEnds
  <1>13. QED
    BY <1>1, <1>2, <1>3, <1>4, <1>5, <1>6, <1>7, <1>8, <1>9, <1>10, <1>11, <1>12
       DEF PipelineNext, PipelineParent, PipelineChild

LEMMA StartedStep ==
  ASSUME PipelineInv, PipelineNext, program' = program
  PROVE  Started'
  <1> USE PipelineAssumption
      DEF PipelineInv, PipelineTypeOK, Started, WriterHoldsEnd, Conserved, Family, Pipes,
          PipeEnds, PipelinePrograms, Running, Becomes, ExitChild
  <1>1. CASE StartChild
    BY <1>1 DEF StartChild
  <1>2. CASE GiveEnds
    BY <1>2 DEF GiveEnds, Given
  <1>3. CASE WaitChild
    BY <1>3 DEF WaitChild
  <1>4. CASE WaitEnds
    BY <1>4 DEF WaitEnds
  <1>5. CASE PassOn
    BY <1>5 DEF PassOn
  <1>6. CASE ReadEnd
    BY <1>6 DEF ReadEnd, AtEnd
  <1>7. ASSUME NEW c \in Family, Redirect(c)
        PROVE  Started'
    BY <1>7 DEF Redirect
  <1>8. ASSUME NEW c \in Family, Exec(c)
        PROVE  Started'
    BY <1>8 DEF Exec
  <1>9. ASSUME NEW c \in Family, ExecFails(c)
        PROVE  Started'
    BY <1>9 DEF ExecFails
  <1>10. CASE CountInput
    BY <1>10 DEF CountInput
  <1>11. ASSUME NEW c \in Family, WriteOut(c)
        PROVE  Started'
    BY <1>11 DEF WriteOut, AtEnd
  <1>12. ASSUME NEW c \in Family, ChildEnds(c)
        PROVE  Started'
    BY <1>12 DEF ChildEnds
  <1>13. QED
    BY <1>1, <1>2, <1>3, <1>4, <1>5, <1>6, <1>7, <1>8, <1>9, <1>10, <1>11, <1>12
       DEF PipelineNext, PipelineParent, PipelineChild

LEMMA WriterHoldsStep ==
  ASSUME PipelineInv, PipelineNext, program' = program
  PROVE  WriterHoldsEnd'
  <1> USE PipelineAssumption
      DEF PipelineInv, PipelineTypeOK, Started, WriterHoldsEnd, Conserved, Family, Pipes,
          PipeEnds, PipelinePrograms, Running, Becomes, ExitChild, Out
  <1>1. CASE StartChild
    BY <1>1 DEF StartChild
  <1>2. CASE GiveEnds
    BY <1>2 DEF GiveEnds, Given
  <1>3. CASE WaitChild
    BY <1>3 DEF WaitChild
  <1>4. CASE WaitEnds
    BY <1>4 DEF WaitEnds
  <1>5. CASE PassOn
    BY <1>5 DEF PassOn
  <1>6. CASE ReadEnd
    BY <1>6 DEF ReadEnd, AtEnd
  <1>7. ASSUME NEW c \in Family, Redirect(c)
        PROVE  WriterHoldsEnd'
    BY <1>7 DEF Redirect
  <1>8. ASSUME NEW c \in Family, Exec(c)
        PROVE  WriterHoldsEnd'
    BY <1>8 DEF Exec
  <1>9. ASSUME NEW c \in Family, ExecFails(c)
        PROVE  WriterHoldsEnd'
    BY <1>9 DEF ExecFails
  <1>10. CASE CountInput
    BY <1>10 DEF CountInput
  <1>11. ASSUME NEW c \in Family, WriteOut(c)
        PROVE  WriterHoldsEnd'
    BY <1>11 DEF WriteOut, AtEnd
  <1>12. ASSUME NEW c \in Family, ChildEnds(c)
        PROVE  WriterHoldsEnd'
    BY <1>12 DEF ChildEnds
  <1>13. QED
    BY <1>1, <1>2, <1>3, <1>4, <1>5, <1>6, <1>7, <1>8, <1>9, <1>10, <1>11, <1>12
       DEF PipelineNext, PipelineParent, PipelineChild

LEMMA ConservedStep ==
  ASSUME PipelineInv, PipelineNext, program' = program
  PROVE  Conserved'
  <1> USE PipelineAssumption
      DEF PipelineInv, PipelineTypeOK, Started, WriterHoldsEnd, Conserved, Family, Pipes,
          PipeEnds, PipelinePrograms, Running, Becomes, ExitChild, Out
  <1>1. CASE StartChild
    <2>1. /\ child[turn] = "none"
          /\ \A c \in Family : c # turn => child'[c] = child[c]
          /\ child'[turn] \in {"none", "dup"}
          /\ UNCHANGED <<turn, filled, owed, counted, passed, unflushed>> /\ parent' = "close"
      BY <1>1 DEF StartChild
    <2>2. turn = "writer" => owed["reader"] = 1
      BY <2>1
    <2>3. CASE turn = "writer"
      BY <2>1, <2>2, <2>3
    <2>4. CASE turn = "reader"
      BY <2>1, <2>4
    <2>5. QED
      BY <2>3, <2>4
  <1>2. CASE GiveEnds
    BY <1>2 DEF GiveEnds, Given
  <1>3. CASE WaitChild
    BY <1>3 DEF WaitChild
  <1>4. CASE WaitEnds
    BY <1>4 DEF WaitEnds
  <1>5. CASE PassOn
    BY <1>5 DEF PassOn
  <1>6. CASE ReadEnd
    BY <1>6 DEF ReadEnd, AtEnd
  <1>7. ASSUME NEW c \in Family, Redirect(c)
        PROVE  Conserved'
    BY <1>7 DEF Redirect
  <1>8. ASSUME NEW c \in Family, Exec(c)
        PROVE  Conserved'
    BY <1>8 DEF Exec
  <1>9. ASSUME NEW c \in Family, ExecFails(c)
        PROVE  Conserved'
    <2>1. CASE c = "reader"
      <3>1. /\ program = "redirect1" /\ owed["reader"] = 1
            /\ filled["toParent"] = 0 /\ passed = 0 /\ Out(c) = "toParent"
        BY <1>9, <2>1 DEF ExecFails
      <3>2. /\ child'["reader"] = "zombie" /\ child'["writer"] = child["writer"]
            /\ UNCHANGED <<parent, turn, owed, counted, passed, unflushed>>
        BY <1>9, <2>1 DEF ExecFails
      <3>3. /\ filled'["toReader"] = filled["toReader"]
            /\ filled'["toParent"] = 0 \/ (filled'["toParent"] = 1 /\ unflushed)
        BY <1>9, <2>1, <3>1 DEF ExecFails
      <3>4. parent \notin {"read", "exited"}
        BY <1>9, <2>1 DEF ExecFails
      <3>5. QED
        BY <3>1, <3>2, <3>3, <3>4
    <2>2. CASE c = "writer"
      <3>1. /\ child'["writer"] = "zombie" /\ child'["reader"] = child["reader"]
            /\ UNCHANGED <<filled, parent, turn, owed, counted, passed, unflushed>>
        BY <1>9, <2>2 DEF ExecFails
      <3>2. QED
        BY <1>9, <3>1
    <2>3. QED
      BY <2>1, <2>2
  <1>10. CASE CountInput
    BY <1>10 DEF CountInput
  <1>11. ASSUME NEW c \in Family, WriteOut(c)
        PROVE  Conserved'
    <2>1. /\ child[c] = "run" /\ owed[c] > 0 /\ parent \notin {"read", "exited"}
          /\ UNCHANGED <<parent, turn, child, holds, counted, passed, unflushed>>
          /\ owed'[c] = owed[c] - 1 /\ \A d \in Family : d # c => owed'[d] = owed[d]
      BY <1>11 DEF WriteOut
    <2>2. CASE c = "reader"
      <3>1. /\ program = "redirect1" /\ owed["reader"] = 1 /\ owed'["reader"] = 0
            /\ filled["toReader"] = 0 /\ filled'["toReader"] = 0
            /\ filled'["toParent"] = filled["toParent"] + 1
        BY <1>11, <2>1, <2>2 DEF WriteOut, AtEnd
      <3>2. ~Running("writer")
        BY <1>11, <2>2, <3>1 DEF WriteOut, AtEnd
      <3>3. passed + filled["toParent"] = 0
        BY <2>1, <2>2, <3>1
      <3>4. QED
        BY <2>1, <2>2, <3>1, <3>2, <3>3
    <2>3. CASE c = "writer"
      <3>1. owed["reader"] = 1 \/ program # "redirect1"
        BY <2>1, <2>3
      <3>2. CASE program = "redirect1"
        <4>1. /\ filled'["toReader"] = filled["toReader"] + 1
              /\ filled'["toParent"] = filled["toParent"]
          BY <1>11, <2>3, <3>2 DEF WriteOut
        <4>2. QED
          BY <2>1, <2>3, <3>1, <3>2, <4>1
      <3>3. CASE program # "redirect1"
        <4>1. filled'["toParent"] = filled["toParent"] + 1
          BY <1>11, <2>3, <3>3 DEF WriteOut
        <4>2. QED
          BY <2>1, <2>3, <3>3, <4>1
      <3>4. QED
        BY <3>2, <3>3
    <2>4. QED
      BY <2>2, <2>3
  <1>12. ASSUME NEW c \in Family, ChildEnds(c)
        PROVE  Conserved'
    BY <1>12 DEF ChildEnds
  <1>13. QED
    BY <1>1, <1>2, <1>3, <1>4, <1>5, <1>6, <1>7, <1>8, <1>9, <1>10, <1>11, <1>12
       DEF PipelineNext, PipelineParent, PipelineChild

LEMMA PassedStep ==
  ASSUME PipelineInv, PipelineNext, program' = program
  PROVE  Passed'
  <1> USE PipelineAssumption
      DEF PipelineInv, PipelineTypeOK, Started, WriterHoldsEnd, Conserved, Family, Pipes,
          PipeEnds, PipelinePrograms, Running, Becomes, ExitChild, Passed
  <1>1. CASE StartChild
    BY <1>1 DEF StartChild
  <1>2. CASE GiveEnds
    BY <1>2 DEF GiveEnds, Given
  <1>3. CASE WaitChild
    BY <1>3 DEF WaitChild
  <1>4. CASE WaitEnds
    BY <1>4 DEF WaitEnds
  <1>5. CASE PassOn
    BY <1>5 DEF PassOn
  <1>6. CASE ReadEnd
    BY <1>6 DEF ReadEnd, AtEnd
  <1>7. ASSUME NEW c \in Family, Redirect(c)
        PROVE  Passed'
    BY <1>7 DEF Redirect
  <1>8. ASSUME NEW c \in Family, Exec(c)
        PROVE  Passed'
    BY <1>8 DEF Exec
  <1>9. ASSUME NEW c \in Family, ExecFails(c)
        PROVE  Passed'
    BY <1>9 DEF ExecFails
  <1>10. CASE CountInput
    BY <1>10 DEF CountInput
  <1>11. ASSUME NEW c \in Family, WriteOut(c)
        PROVE  Passed'
    BY <1>11 DEF WriteOut, AtEnd
  <1>12. ASSUME NEW c \in Family, ChildEnds(c)
        PROVE  Passed'
    BY <1>12 DEF ChildEnds
  <1>13. QED
    BY <1>1, <1>2, <1>3, <1>4, <1>5, <1>6, <1>7, <1>8, <1>9, <1>10, <1>11, <1>12
       DEF PipelineNext, PipelineParent, PipelineChild

LEMMA PipelineInvariance == Spec => []PipelineInv
  <1>1. Init => PipelineInv
    BY PipelineInitInv DEF Init
  <1>2. PipelineInv /\ [Next]_vars => PipelineInv'
    <2> SUFFICES ASSUME PipelineInv, [PipelineNext]_pipelineVars, program' = program
                 PROVE  PipelineInv'
      BY OneModuleMoves
    <2>1. CASE PipelineNext
      BY <2>1, PipelineTypeStep, StartedStep, WriterHoldsStep, ConservedStep, PassedStep
         DEF PipelineInv
    <2>2. CASE UNCHANGED pipelineVars
      BY <2>2 DEF pipelineVars, PipelineInv, PipelineTypeOK, Started, WriterHoldsEnd, Conserved,
                  Passed, Running, Out
    <2>3. QED
      BY <2>1, <2>2
  <1>3. QED
    BY <1>1, <1>2, PTL DEF Spec

(* For any amount of output: what fork2.c and redirect1.c have passed on   *)
(* when they end is what the last child wrote, whichever calls fail.       *)
THEOREM OutputPassedOn == Spec => []Passed
  BY PipelineInvariance, PTL DEF PipelineInv

----------------------------------------------------------------------------
(* What termination of the pipelines rests on beside fairness: nobody is   *)
(* ever waited for in vain, and every step uses something up.              *)

WriteEnds == Pipes \X {"w"}

(* No end is held that has been given away.                                *)
EndsGiven ==
    /\ \A c \in Family : ~Running(c) => holds[c] = {}
    /\ <<"toReader", "w">> \notin holds["reader"]
    /\ program = "fork2" => <<"toReader", "w">> \notin holds["parent"]
    /\ turn = "reader" => <<"toReader", "w">> \notin holds["parent"]
    /\ parent \in {"wait", "read"} => turn = "reader" /\ WriteEnds \cap holds["parent"] = {}

(* The guards of the actions of main(), and of a child.                    *)
ParentMoves ==
    \/ parent \in {"fork", "close"}
    \/ parent = "wait" /\ \E c \in Family : child[c] = "zombie"
    \/ parent = "wait" /\ \A c \in Family : child[c] \in {"none", "reaped"}
    \/ parent = "read" /\ (filled["toParent"] > 0 \/ AtEnd("toParent"))

ChildMoves(c) ==
    \/ child[c] \in {"dup", "exec"}
    \/ child[c] = "run" /\ owed[c] = 0
    \/ child[c] = "run" /\ filled[Out(c)] < Capacity /\ (c = "reader" => AtEnd("toReader"))
    \/ child[c] = "run" /\ c = "reader" /\ filled["toReader"] > 0

NeverStuck ==
    parent \notin {"off", "exited"} => ParentMoves \/ \E c \in Family : ChildMoves(c)

(* What is left to do: the steps of main() and of each child, and the      *)
(* chunks still to be written, and to be read.                             *)
Ahead ==
    CASE parent = "fork" -> IF turn = "writer" THEN 6 ELSE 4
      [] parent = "close" -> IF turn = "writer" THEN 5 ELSE 3
      [] parent = "wait" -> 2
      [] parent = "read" -> 1
      [] OTHER -> 0

AheadOf(c) ==
    CASE child[c] = "none" -> 5
      [] child[c] = "dup" -> 4
      [] child[c] = "exec" -> 3
      [] child[c] = "run" -> 2
      [] child[c] = "zombie" -> 1
      [] OTHER -> 0

Work == Ahead + AheadOf("writer") + AheadOf("reader") + 2 * (owed["writer"] + owed["reader"])
            + filled["toReader"] + filled["toParent"]

LEMMA EndsGivenInit == PipelineInit => EndsGiven
  <1> SUFFICES ASSUME PipelineInit PROVE EndsGiven
    OBVIOUS
  <1>1. \A c \in Family : holds[c] = {}
    <2>1. holds["writer"] = {}
      BY DEF PipelineInit, Family
    <2>2. holds["reader"] = {}
      BY DEF PipelineInit, Family
    <2>3. QED
      BY <2>1, <2>2 DEF Family
  <1>2. program = "fork2" => holds["parent"] = {"toParent"} \X {"r", "w"}
    BY DEF PipelineInit
  <1>3. turn = "writer" /\ parent \in {"fork", "off"}
    BY DEF PipelineInit
  <1>4. "reader" \in Family
    BY DEF Family
  <1>5. QED
    BY <1>1, <1>2, <1>3, <1>4 DEF EndsGiven

LEMMA EndsGivenStep ==
  ASSUME PipelineInv, EndsGiven, program' = program, [PipelineNext]_pipelineVars
  PROVE  EndsGiven'
  <1> USE DEF PipelineInv, PipelineTypeOK, Started, EndsGiven, Running, Family, WriteEnds, Pipes, PipeEnds
  <1>1. CASE StartChild
    BY <1>1 DEF StartChild
  <1>2. CASE GiveEnds
    <2>1. /\ holds' = [holds EXCEPT !["parent"] = @ \ Given(turn)]
          /\ parent' = IF program = "redirect1" /\ turn = "writer" THEN "fork" ELSE "wait"
          /\ turn' = "reader" /\ child' = child /\ parent = "close"
      BY <1>2 DEF GiveEnds
    <2>2. /\ \A c \in Family : holds'[c] = holds[c]
          /\ holds'["parent"] = holds["parent"] \ Given(turn)
      BY <2>1
    <2>3. <<"toReader", "w">> \notin holds'["parent"]
      BY <2>1, <2>2 DEF Given, Out, PipelinePrograms
    <2>4. parent' = "wait" => <<"toParent", "w">> \notin holds'["parent"]
      BY <2>1, <2>2 DEF Given, Out, PipelinePrograms
    <2>5. QED
      BY <2>1, <2>2, <2>3, <2>4
  <1>3. CASE WaitChild \/ WaitEnds \/ PassOn
    BY <1>3 DEF WaitChild, WaitEnds, PassOn
  <1>4. CASE ReadEnd
    BY <1>4 DEF ReadEnd
  <1>5. ASSUME NEW c \in Family, PipelineChild(c)
        PROVE  EndsGiven'
    <2>1. CASE Redirect(c)
      BY <2>1 DEF Redirect, Becomes, ExitChild
    <2>2. CASE Exec(c)
      BY <2>2 DEF Exec, Becomes
    <2>3. CASE ExecFails(c)
      BY <2>3 DEF ExecFails, Becomes, ExitChild
    <2>4. CASE (c = "reader" /\ CountInput) \/ WriteOut(c)
      BY <2>4 DEF CountInput, WriteOut
    <2>5. CASE ChildEnds(c)
      BY <2>5 DEF ChildEnds, Becomes, ExitChild
    <2>6. QED
      BY <1>5, <2>1, <2>2, <2>3, <2>4, <2>5 DEF PipelineChild
  <1>6. CASE UNCHANGED pipelineVars
    BY <1>6 DEF pipelineVars
  <1>7. QED
    BY <1>1, <1>2, <1>3, <1>4, <1>5, <1>6 DEF PipelineNext, PipelineParent

LEMMA NeverStuckHolds == PipelineInv /\ EndsGiven => NeverStuck
  <1> SUFFICES ASSUME PipelineInv, EndsGiven, parent \notin {"off", "exited"}
               PROVE  ParentMoves \/ \E c \in Family : ChildMoves(c)
    BY DEF NeverStuck
  <1>1. /\ PipelineTypeOK /\ Started /\ Conserved
        /\ program \in PipelinePrograms
        /\ "writer" \in Family /\ "reader" \in Family
    BY DEF PipelineInv, PipelineTypeOK, Started, Family
  <1>2. /\ owed["writer"] \in Nat /\ owed["reader"] \in {0, 1} /\ counted \in Nat /\ passed \in Nat
        /\ filled["toReader"] \in Nat /\ filled["toParent"] \in Nat
    BY <1>1 DEF PipelineTypeOK, Conserved, Family, Pipes
  <1>3. CASE Running("writer")
    <2>1. filled[Out("writer")] <= Echoed - owed["writer"]
      BY <1>1, <1>2, PipelineAssumption DEF Conserved, Out, PipelinePrograms
    <2>2. owed["writer"] > 0 => filled[Out("writer")] < Capacity
      BY <1>2, <2>1, PipelineAssumption DEF Out
    <2>3. ChildMoves("writer")
      BY <1>2, <1>3, <2>2 DEF ChildMoves, Running
    <2>4. QED
      BY <1>1, <2>3
  <1>4. CASE Running("reader") /\ ~Running("writer")
    <2>1. CASE parent \in {"fork", "close"}
      BY <2>1 DEF ParentMoves
    <2>2. CASE parent = "wait"
      <3>1. filled["toReader"] = 0 => AtEnd("toReader")
        <4>1. DOMAIN holds = {"writer", "reader", "parent"}
          BY <1>1 DEF PipelineTypeOK, Family
        <4>2. <<"toReader", "w">> \notin holds["parent"]
          BY <2>2 DEF EndsGiven, WriteEnds, Pipes
        <4>3. <<"toReader", "w">> \notin holds["writer"] /\ <<"toReader", "w">> \notin holds["reader"]
          BY <1>1, <1>4 DEF EndsGiven
        <4>4. QED
          BY <4>1, <4>2, <4>3 DEF AtEnd
      <3>2. owed["reader"] = 1 => filled["toParent"] < Capacity
        BY <1>1, <1>2, <1>4, PipelineAssumption DEF Conserved, Started, Running, PipelinePrograms
      <3>3. ChildMoves("reader")
        BY <1>2, <1>4, <3>1, <3>2 DEF ChildMoves, Running, Out
      <3>4. QED
        BY <1>1, <3>3
    <2>3. CASE parent = "read"
      BY <1>1, <1>4, <2>3 DEF Started, Running
    <2>4. QED
      BY <1>1, <2>1, <2>2, <2>3 DEF PipelineTypeOK
  <1>5. CASE ~Running("reader") /\ ~Running("writer")
    <2>1. CASE parent = "read"
      <3>1. DOMAIN holds = {"writer", "reader", "parent"}
        BY <1>1 DEF PipelineTypeOK, Family
      <3>2. <<"toParent", "w">> \notin holds["parent"]
        BY <2>1 DEF EndsGiven, WriteEnds, Pipes
      <3>3. <<"toParent", "w">> \notin holds["writer"] /\ <<"toParent", "w">> \notin holds["reader"]
        BY <1>1, <1>5 DEF EndsGiven
      <3>4. QED
        BY <1>2, <2>1, <3>1, <3>2, <3>3 DEF AtEnd, ParentMoves
    <2>2. CASE parent = "wait"
      <3>1. \A c \in Family : child[c] \in {"none", "zombie", "reaped"}
        BY <1>1, <1>5 DEF PipelineTypeOK, Running, Family
      <3>2. QED
        BY <2>2, <3>1 DEF ParentMoves
    <2>3. QED
      BY <1>1, <2>1, <2>2 DEF PipelineTypeOK, ParentMoves
  <1>6. QED
    BY <1>3, <1>4, <1>5

LEMMA WorkIsNatural ==
  ASSUME PipelineInv
  PROVE  Work \in Nat
  <1>1. /\ owed["writer"] \in Nat /\ owed["reader"] \in Nat
        /\ filled["toReader"] \in Nat /\ filled["toParent"] \in Nat
    BY DEF PipelineInv, PipelineTypeOK, Family, Pipes
  <1>2. Ahead \in 0 .. 6 /\ AheadOf("writer") \in 0 .. 5 /\ AheadOf("reader") \in 0 .. 5
    BY DEF Ahead, AheadOf
  <1>3. QED
    BY <1>1, <1>2 DEF Work

LEMMA WorkStep ==
  ASSUME PipelineInv, PipelineInv', program' = program, PipelineNext
  PROVE  Work' < Work
  <1>1. /\ owed["writer"] \in Nat /\ owed["reader"] \in Nat
        /\ filled["toReader"] \in Nat /\ filled["toParent"] \in Nat
        /\ Ahead \in 0 .. 6 /\ AheadOf("writer") \in 0 .. 5 /\ AheadOf("reader") \in 0 .. 5
    BY DEF PipelineInv, PipelineTypeOK, Family, Pipes, Ahead, AheadOf
  <1>2. /\ owed'["writer"] \in Nat /\ owed'["reader"] \in Nat
        /\ filled'["toReader"] \in Nat /\ filled'["toParent"] \in Nat
        /\ Ahead' \in 0 .. 6 /\ AheadOf("writer")' \in 0 .. 5 /\ AheadOf("reader")' \in 0 .. 5
    BY DEF PipelineInv, PipelineTypeOK, Family, Pipes, Ahead, AheadOf
  <1>3. Work \in Nat /\ Work' \in Nat
    BY <1>1, <1>2 DEF Work
  <1> USE DEF PipelineInv, PipelineTypeOK, Started, Family, Pipes
  <1>4. CASE StartChild
    BY <1>1, <1>2, <1>4 DEF StartChild, Work, Ahead, AheadOf
  <1>5. CASE GiveEnds
    BY <1>1, <1>2, <1>5 DEF GiveEnds, Work, Ahead, AheadOf
  <1>6. CASE WaitChild
    BY <1>1, <1>2, <1>6 DEF WaitChild, Work, Ahead, AheadOf
  <1>7. CASE WaitEnds
    BY <1>1, <1>2, <1>7 DEF WaitEnds, Work, Ahead, AheadOf
  <1>8. CASE PassOn
    BY <1>1, <1>2, <1>8 DEF PassOn, Work, Ahead, AheadOf
  <1>9. CASE ReadEnd
    BY <1>1, <1>2, <1>9 DEF ReadEnd, Work, Ahead, AheadOf
  <1>10. ASSUME NEW c \in Family, PipelineChild(c)
         PROVE  Work' < Work
    <2>1. CASE Redirect(c)
      BY <1>1, <1>2, <2>1 DEF Redirect, Becomes, ExitChild, Work, Ahead, AheadOf
    <2>2. CASE Exec(c)
      BY <1>1, <1>2, <2>2 DEF Exec, Becomes, Work, Ahead, AheadOf
    <2>3. CASE ExecFails(c)
      BY <1>1, <1>2, <2>3 DEF ExecFails, Becomes, ExitChild, Out, Work, Ahead, AheadOf
    <2>4. CASE c = "reader" /\ CountInput
      BY <1>1, <1>2, <2>4 DEF CountInput, Work, Ahead, AheadOf
    <2>5. CASE WriteOut(c)
      BY <1>1, <1>2, <2>5 DEF WriteOut, Out, Work, Ahead, AheadOf
    <2>6. CASE ChildEnds(c)
      BY <1>1, <1>2, <2>6 DEF ChildEnds, Becomes, ExitChild, Work, Ahead, AheadOf
    <2>7. QED
      BY <1>10, <2>1, <2>2, <2>3, <2>4, <2>5, <2>6 DEF PipelineChild
  <1>11. QED
    BY <1>3, <1>4, <1>5, <1>6, <1>7, <1>8, <1>9, <1>10 DEF PipelineNext, PipelineParent

LEMMA EndsInvariance == Spec => []EndsGiven
  <1>1. Init => PipelineInv /\ EndsGiven
    BY PipelineInitInv, EndsGivenInit DEF Init
  <1>2. PipelineInv /\ PipelineInv' /\ EndsGiven /\ [Next]_vars => EndsGiven'
    BY OneModuleMoves, EndsGivenStep
  <1>3. QED
    BY <1>1, <1>2, PipelineInvariance, PTL DEF Spec

(* For any amount of output that fits into a pipe (PipelineAssumption): as *)
(* long as main() of fork2.c or redirect1.c has not ended, a process can   *)
(* go on, though main() waits for its children before it reads.            *)
THEOREM PipelineNeverStuck == Spec => []NeverStuck
  <1>1. PipelineInv /\ EndsGiven => NeverStuck
    BY NeverStuckHolds
  <1>2. QED
    BY <1>1, EndsInvariance, PipelineInvariance, PTL

(* Each step of a pipeline leaves less to be done, so none goes round in   *)
(* circles.                                                                *)
THEOREM PipelineUsesUp == Spec => [](Work \in Nat) /\ [][Work' < Work]_pipelineVars
  <1>1. PipelineInv => Work \in Nat
    BY WorkIsNatural
  <1>2. PipelineInv /\ PipelineInv' /\ [Next]_vars => [Work' < Work]_pipelineVars
    BY OneModuleMoves, WorkStep
  <1>3. QED
    BY <1>1, <1>2, PipelineInvariance, PTL DEF Spec

----------------------------------------------------------------------------
(* Files: where each program is determines what it has opened, duplicated, *)
(* moved and printed.  Only the child of share1.c and fork_file_sharing.c  *)
(* runs beside it.  Below, a description is behind a number, an offset is  *)
(* at a position, and k is the call that the parent makes next.            *)

Is(n, d) == table["parent"][n] = d
At(d, to) == description[d].offset = to
Descriptions(n) == Len(description) = n
Printed(n) == Len(output) = n /\ \A j \in 1 .. n : output[j] = Documented[program][j]
LowTaken == Is(0, 1) /\ Is(1, 1) /\ Is(2, 1)

(* dup2.c, dup3.c, open3.c and open4.c begin alike: a file of seven bytes, *)
(* opened twice.                                                           *)
TestFileWritten(k) ==
    /\ LowTaken
    /\ k \in {1, 4} => Is(3, 0)
    /\ k \in 2 .. 3 => Is(3, 2)
    /\ k = 1 => Descriptions(1)
    /\ k \in 2 .. 4 => Descriptions(2)
    /\ k = 5 => Descriptions(3)
    /\ k = 2 => At(2, 0)
    /\ k \in 5 .. 6 => At(3, 0)
    /\ k = 6 => At(4, 0)
    /\ k <= 5 => Is(4, 0)
    /\ k \in 2 .. 4 => fds["fd"] = 3
    /\ k >= 5 => fds["fd1"] = 3
    /\ k >= 6 => fds["fd2"] = 4
    /\ k >= 3 => 0 \in DOMAIN file /\ file[0] = 1
    /\ k \in 3 .. 8 => 1 \in DOMAIN file /\ file[1] = 2
    /\ k <= 6 => Printed(0)

Dup1State(k) ==
    /\ LowTaken
    /\ k = 1 => Is(3, 0) /\ Descriptions(1)
    /\ k \in 2 .. 11 => Is(3, 2)
    /\ k <= 2 => Is(4, 0)
    /\ k \in 3 .. 12 => Is(4, 2)
    /\ k >= 2 => Descriptions(2) /\ fds["fd1"] = 3
    /\ k >= 3 => fds["fd2"] = 4
    /\ k \in 2 .. 5 => At(2, 0)
    /\ k \in 6 .. 8 => At(2, 10)
    /\ k \in 9 .. 10 => At(2, 20)
    /\ k <= 3 => Printed(0)
    /\ k = 4 => Printed(1)
    /\ k \in 5 .. 6 => Printed(2)
    /\ k = 7 => Printed(3)
    /\ k \in 8 .. 9 => Printed(4)
    /\ k = 10 => Printed(5)
    /\ k >= 11 => Printed(6)

Dup2State(k) ==
    /\ TestFileWritten(k)
    /\ k \in 5 .. 9 => Is(3, 3)
    /\ k \in 7 .. 10 => Is(4, 3)
    /\ k >= 6 => Descriptions(4)
    /\ k = 7 => At(3, 0) /\ Printed(0)
    /\ k = 8 => At(3, 1) /\ Printed(1)
    /\ k >= 9 => Printed(2)

Dup3State(k) ==
    /\ TestFileWritten(k)
    /\ k \in 5 .. 8 => Is(3, 3)
    /\ k \in 7 .. 10 => Is(4, 3)
    /\ k >= 6 => Descriptions(4)
    /\ k = 7 => At(3, 0) /\ Printed(0)
    /\ k \in 8 .. 9 => At(3, 1) /\ Printed(1)
    /\ k = 9 => file[1] = 2
    /\ k >= 10 => Printed(2)

Open1State(k) ==
    /\ LowTaken
    /\ k \in {1, 4} => Is(3, 0)
    /\ k = 1 => Descriptions(1)
    /\ k \in 2 .. 4 => Descriptions(2)
    /\ k \in 2 .. 3 => fds["fd1"] = 3
    /\ k >= 5 => fds["fd2"] = 3
    /\ k <= 2 => Printed(0)
    /\ k \in 3 .. 5 => Printed(1)
    /\ k >= 6 => Printed(2)

Open2State(k) ==
    /\ fds["stdin"] = 0 /\ fds["stderr"] = 2
    /\ Is(1, 1)
    /\ k \in 2 .. 3 => Is(0, 0)
    /\ k \in 4 .. 7 => Is(0, 2)
    /\ k \in 3 .. 5 => Is(2, 0)
    /\ k <= 3 => Descriptions(1)
    /\ k \in 4 .. 5 => Descriptions(2)
    /\ k >= 4 => fds["fd1"] = 0
    /\ k >= 6 => fds["fd2"] = 2
    /\ k <= 4 => Printed(0)
    /\ k \in 5 .. 6 => Printed(1)
    /\ k >= 7 => Printed(2)

Open3State(k) ==
    /\ TestFileWritten(k)
    /\ k \in 5 .. 11 => Is(3, 3)
    /\ k \in 6 .. 12 => Is(4, 4)
    /\ k <= 8 => Is(5, 0)
    /\ k \in 9 .. 13 => Is(5, 5)
    /\ k \in 6 .. 8 => Descriptions(4)
    /\ k >= 9 => Descriptions(5) /\ fds["fd3"] = 5
    /\ k \in 7 .. 10 => At(3, 1)
    /\ k = 7 => At(4, 0) /\ Printed(1)
    /\ k \in 8 .. 9 => Printed(2)
    /\ k = 9 => At(5, 0)
    /\ k \in 9 .. 10 => file[1] = 2
    /\ k = 10 => Printed(3)
    /\ k >= 11 => Printed(4)

Open4State(k) ==
    /\ TestFileWritten(k)
    /\ k \in 5 .. 10 => Is(3, 3)
    /\ k \in 6 .. 11 => Is(4, 4)
    /\ k >= 6 => Descriptions(4)
    /\ k \in 7 .. 8 => At(3, 1)
    /\ k = 7 => At(4, 0) /\ Printed(1)
    /\ k \in 8 .. 9 => At(4, 1) /\ Printed(2)
    /\ k = 9 => file[1] = X
    /\ k >= 10 => Printed(3)

OneOpen(k) ==
    /\ LowTaken
    /\ k = 1 => Is(3, 0) /\ Descriptions(1)
    /\ k >= 2 => Descriptions(2) /\ fds["fd"] = 3
    /\ k \in 2 .. 6 => Is(3, 2)
    /\ k = 2 => At(2, 0)

HoleState(k) ==
    /\ OneOpen(k)
    /\ k = 4 => At(2, 16384)
    /\ k = 5 => At(2, 16394)
    /\ k <= 5 => Printed(0)
    /\ k >= 6 => Printed(1)

(* The child of share1.c has a copy of the descriptor: its lseek() moves   *)
(* the position the parent reads at.                                       *)
Share1State(k) ==
    /\ OneOpen(k)
    /\ k = 4 => At(2, 0)
    /\ k \in 3 .. 6 => 2 \in DOMAIN file /\ file[2] = 3
    /\ k <= 4 <=> stage["child"] = "off"
    /\ k <= 6 => (at["child"] = 2 => At(2, 2)) /\ Printed(0)
    /\ k >= 6 => stage["child"] = "done"
    /\ k >= 7 => Printed(1)

ForkFileSharingState(k) ==
    /\ OneOpen(k)
    /\ k = 7 => Is(3, 2)
    /\ k \in 2 .. 4 => At(2, 0) /\ ~description[2].append
    /\ k <= 4 <=> stage["child"] = "off"
    /\ k >= 5 => (at["child"] >= 2 => At(2, 1000)) /\ (at["child"] = 3 => description[2].append)
    /\ k >= 6 => stage["child"] \in {"done", "failed"}
    /\ k <= 2 => Printed(0)
    /\ k = 3 => Printed(1)
    /\ k \in 4 .. 6 => Printed(2)
    /\ k = 7 => (stage["child"] = "done" => Printed(3))
    /\ k >= 8 => (stage["child"] = "done" => Printed(4))

RunState(k) ==
    /\ program = "dup1" => k <= 13 /\ Dup1State(k)
    /\ program = "dup2" => k <= 11 /\ Dup2State(k)
    /\ program = "dup3" => k <= 11 /\ Dup3State(k)
    /\ program = "open1" => k <= 7 /\ Open1State(k)
    /\ program = "open2" => k <= 9 /\ Open2State(k)
    /\ program = "open3" => k <= 14 /\ Open3State(k)
    /\ program = "open4" => k <= 12 /\ Open4State(k)
    /\ program = "hole" => k <= 7 /\ HoleState(k)
    /\ program = "share1" => k <= 8 /\ Share1State(k)
    /\ program = "fork_file_sharing" => k <= 8 /\ ForkFileSharingState(k)

ParentState ==
    /\ at["parent"] \in 1 .. 14
    /\ \A k \in 1 .. 14 : at["parent"] = k => RunState(k)

(* The child and its copy of the descriptor, whatever becomes of the       *)
(* parent.                                                                 *)
ChildEnd == IF program = "share1" THEN 2 ELSE 3    \* past its last call

ChildState ==
    /\ stage["child"] # "off" =>
         /\ program \in {"share1", "fork_file_sharing"}
         /\ at["child"] \in 1 .. ChildEnd
         /\ fds["fd"] = 3
         /\ Len(description) >= 2
    /\ stage["child"] = "off" => at["child"] = 1
    /\ stage["child"] = "run" => table["child"][3] = 2
    /\ stage["child"] = "done" => at["child"] = ChildEnd

(* The inductive invariant.                                                *)
FileInv ==
    /\ FileTypeOK
    /\ stage["parent"] # "off" => program \in FilePrograms
    /\ stage["parent"] = "off" => stage["child"] = "off"
    /\ ChildState
    /\ stage["parent"] = "run" => ParentState
    /\ stage["parent"] = "done" => stage["child"] # "run"
    /\ PrintsAsDocumented

Called(p) == Calls(p)[at[p]][1]

(* What a process calls next is what it does. *)
LEMMA CallIs ==
  ASSUME NEW p \in Processes, FileCall(p)
  PROVE  /\ stage[p] = "run" /\ at[p] <= Len(Calls(p))
         /\ at' = [at EXCEPT ![p] = @ + 1]
         /\ Called(p) = "open" => Open(p)
         /\ Called(p) = "dup" => Dup(p)
         /\ Called(p) = "dup2" => Dup2(p)
         /\ Called(p) = "close" => Close(p)
         /\ Called(p) = "write" => Write(p)
         /\ Called(p) = "read" => Read(p)
         /\ Called(p) = "seek" => Seek(p)
         /\ Called(p) = "append" => SetAppend(p)
         /\ Called(p) \in {"tell", "getfl", "show"} => Show(p)
         /\ Called(p) = "fork" => ForkFile(p)
         /\ Called(p) \in {"wait", "waitpid"} => WaitFile(p)
  BY DEF FileCall, Open, Dup, Dup2, Close, Write, Read, Seek, SetAppend, Show, ForkFile,
         WaitFile, Do, Called

LEMMA LowestIs ==
  ASSUME FileTypeOK, NEW p \in Processes, NEW n \in Numbers, table[p][n] = 0,
         \A m \in 0 .. n - 1 : table[p][m] # 0
  PROVE  Lowest(p) = n
  <1>1. \A k \in Numbers : table[p][k] = 0 /\ (\A m \in 0 .. k - 1 : table[p][m] # 0) => k = n
    BY DEF Numbers
  <1>2. QED
    BY <1>1 DEF Lowest

(* What each call does to the variables, and that it keeps their types.    *)
LEMMA OpenDoes ==
  ASSUME FileTypeOK, NEW p \in Processes, Open(p), Lowest(p) \in Numbers, Name(p) \in FdNames
  PROVE  /\ FileTypeOK'
         /\ UNCHANGED <<stage, file, output>>
         /\ Len(description') = Len(description) + 1
         /\ \A d \in 1 .. Len(description) : description'[d] = description[d]
         /\ description'[Len(description) + 1] = [offset |-> 0, append |-> FALSE]
         /\ table' = [table EXCEPT ![p][Lowest(p)] = Len(description) + 1]
         /\ fds' = [fds EXCEPT ![Name(p)] = Lowest(p)]
  <1> USE DEF FileTypeOK
  <1>1. /\ stage' = stage /\ file' = file /\ output' = output
        /\ at' = [at EXCEPT ![p] = @ + 1]
        /\ description' = Append(description, [offset |-> 0, append |-> FALSE])
        /\ table' = [table EXCEPT ![p][Lowest(p)] = Len(description')]
        /\ fds' = [fds EXCEPT ![Name(p)] = Lowest(p)]
    BY DEF Open, Do
  <1>2. /\ Len(description') = Len(description) + 1
        /\ \A d \in 1 .. Len(description) : description'[d] = description[d]
        /\ description'[Len(description) + 1] = [offset |-> 0, append |-> FALSE]
        /\ description' \in Seq([offset : Nat, append : BOOLEAN])
        /\ Len(description) \in Nat
    BY <1>1
  <1>3. table' \in [Processes -> [Numbers -> 0 .. Len(description')]]
    BY <1>1, <1>2
  <1>4. fds' \in [FdNames -> Numbers \union {-1}] /\ at' \in [Processes -> Nat]
    BY <1>1
  <1>5. QED
    BY <1>1, <1>2, <1>3, <1>4

LEMMA DupDoes ==
  ASSUME FileTypeOK, NEW p \in Processes, Dup(p), Lowest(p) \in Numbers,
         Arg(p) \in FdNames, Behind(p) \in 1 .. Len(description)
  PROVE  /\ FileTypeOK'
         /\ UNCHANGED <<stage, description, file, output>>
         /\ table' = [table EXCEPT ![p][Lowest(p)] = Behind(p)]
         /\ fds' = [fds EXCEPT ![Arg(p)] = Lowest(p)]
  BY DEF FileTypeOK, Dup, Do

LEMMA Dup2Does ==
  ASSUME FileTypeOK, NEW p \in Processes, Dup2(p), fds[Arg(p)] \in Numbers,
         Behind(p) \in 1 .. Len(description)
  PROVE  /\ FileTypeOK'
         /\ UNCHANGED <<stage, fds, description, file, output>>
         /\ table' = [table EXCEPT ![p][fds[Arg(p)]] = Behind(p)]
  BY DEF FileTypeOK, Dup2, Do

LEMMA CloseDoes ==
  ASSUME FileTypeOK, NEW p \in Processes, Close(p), fds[Name(p)] \in Numbers
  PROVE  /\ FileTypeOK'
         /\ UNCHANGED <<stage, fds, description, file, output>>
         /\ table' = [table EXCEPT ![p][fds[Name(p)]] = 0]
  BY DEF FileTypeOK, Close, Do

OpenFile == [offset : Nat, append : BOOLEAN]

(* An open file description, without its fields being looked at.           *)
LEMMA DescriptionTyped ==
  FileTypeOK <=> /\ stage \in [Processes -> {"off", "run", "done", "failed"}]
                 /\ at \in [Processes -> Nat]
                 /\ table \in [Processes -> [Numbers -> 0 .. Len(description)]]
                 /\ fds \in [FdNames -> Numbers \union {-1}]
                 /\ description \in Seq(OpenFile)
                 /\ DOMAIN file \subseteq Nat
                 /\ output \in Seq(Nat)
  BY DEF FileTypeOK, OpenFile

(* What a description is changed to. *)
LEMMA DescriptionSet ==
  ASSUME FileTypeOK, NEW d \in 1 .. Len(description), NEW new \in OpenFile,
         description' = [description EXCEPT ![d] = new]
  PROVE  /\ description' \in Seq(OpenFile)
         /\ Len(description') = Len(description)
         /\ description'[d] = new
         /\ \A e \in 1 .. Len(description) : e # d => description'[e] = description[e]
  BY DescriptionTyped, ExceptSeq

LEMMA DescriptionIs ==
  ASSUME FileTypeOK, NEW d \in 1 .. Len(description)
  PROVE  /\ description[d] \in OpenFile
         /\ description[d].offset \in Nat /\ description[d].append \in BOOLEAN
  <1>1. description[d] \in OpenFile
    BY DescriptionTyped, ElementOfSeq
  <1>2. QED
    BY <1>1 DEF OpenFile

LEMMA MoveDoes ==
  ASSUME FileTypeOK, NEW p \in Processes, Behind(p) \in 1 .. Len(description),
         NEW to \in Nat, MoveTo(p, to)
  PROVE  /\ description' \in Seq(OpenFile)
         /\ Len(description') = Len(description)
         /\ description'[Behind(p)].offset = to
         /\ description'[Behind(p)].append = description[Behind(p)].append
         /\ \A d \in 1 .. Len(description) : d # Behind(p) => description'[d] = description[d]
  <1>1. description[Behind(p)] \in OpenFile
    BY DescriptionIs
  <1> DEFINE new == [description[Behind(p)] EXCEPT !.offset = to]
  <1>2. /\ new \in OpenFile
        /\ new.offset = to /\ new.append = description[Behind(p)].append
    BY <1>1 DEF OpenFile
  <1>3. description' = [description EXCEPT ![Behind(p)] = new]
    BY DEF MoveTo
  <1> HIDE DEF new
  <1>4. QED
    BY <1>2, <1>3, DescriptionSet

LEMMA WriteDoes ==
  ASSUME FileTypeOK, NEW p \in Processes, Write(p), Behind(p) \in 1 .. Len(description),
         Len(Arg(p)) \in Nat
  PROVE  /\ FileTypeOK'
         /\ UNCHANGED <<stage, table, fds, output>>
         /\ Len(description') = Len(description)
         /\ description'[Behind(p)].offset = Offset(p) + Len(Arg(p))
         /\ description'[Behind(p)].append = description[Behind(p)].append
         /\ \A d \in 1 .. Len(description) : d # Behind(p) => description'[d] = description[d]
         /\ DOMAIN file' = DOMAIN file \union Covered(p)
         /\ \A k \in Covered(p) : file'[k] = Arg(p)[k - Offset(p) + 1]
         /\ \A k \in DOMAIN file \ Covered(p) : file'[k] = file[k]
  <1>1. Offset(p) \in Nat /\ Offset(p) + Len(Arg(p)) \in Nat
    BY DescriptionIs DEF Offset
  <1>2. MoveTo(p, Offset(p) + Len(Arg(p)))
    BY DEF Write
  <1>3. /\ description' \in Seq(OpenFile)
        /\ Len(description') = Len(description)
        /\ description'[Behind(p)].offset = Offset(p) + Len(Arg(p))
        /\ description'[Behind(p)].append = description[Behind(p)].append
        /\ \A d \in 1 .. Len(description) : d # Behind(p) => description'[d] = description[d]
    BY <1>1, <1>2, MoveDoes
  <1>4. /\ DOMAIN file' = DOMAIN file \union Covered(p)
        /\ \A k \in Covered(p) : file'[k] = Arg(p)[k - Offset(p) + 1]
        /\ \A k \in DOMAIN file \ Covered(p) : file'[k] = file[k]
    BY DEF Write
  <1>5. UNCHANGED <<stage, table, fds, output>> /\ at' = [at EXCEPT ![p] = @ + 1]
    BY DEF Write, Do
  <1>6. DOMAIN file' \subseteq Nat
    BY <1>1, <1>4 DEF FileTypeOK, Covered
  <1>7. FileTypeOK'
    BY <1>3, <1>5, <1>6 DEF FileTypeOK, OpenFile
  <1>8. QED
    BY <1>3, <1>4, <1>5, <1>7

LEMMA ReadDoes ==
  ASSUME FileTypeOK, NEW p \in Processes, Read(p), Behind(p) \in 1 .. Len(description),
         file[Offset(p)] \in Nat
  PROVE  /\ FileTypeOK'
         /\ UNCHANGED <<stage, table, fds, file>>
         /\ Len(description') = Len(description)
         /\ description'[Behind(p)].offset = Offset(p) + 1
         /\ description'[Behind(p)].append = description[Behind(p)].append
         /\ \A d \in 1 .. Len(description) : d # Behind(p) => description'[d] = description[d]
         /\ output' = Append(output, file[Offset(p)])
  <1>1. Offset(p) \in Nat
    BY DescriptionIs DEF Offset
  <1>2. MoveTo(p, Offset(p) + 1) /\ output' = Append(output, file[Offset(p)])
    BY DEF Read, Prints
  <1>3. /\ description' \in Seq(OpenFile)
        /\ Len(description') = Len(description)
        /\ description'[Behind(p)].offset = Offset(p) + 1
        /\ description'[Behind(p)].append = description[Behind(p)].append
        /\ \A d \in 1 .. Len(description) : d # Behind(p) => description'[d] = description[d]
    BY <1>1, <1>2, MoveDoes
  <1>4. UNCHANGED <<stage, table, fds, file>> /\ at' = [at EXCEPT ![p] = @ + 1]
    BY DEF Read, Do
  <1>5. output' \in Seq(Nat)
    BY <1>2, AppendProperties DEF FileTypeOK
  <1>6. FileTypeOK'
    <2>1. /\ stage' \in [Processes -> {"off", "run", "done", "failed"}]
          /\ at' \in [Processes -> Nat]
          /\ fds' \in [FdNames -> Numbers \union {-1}]
          /\ DOMAIN file' \subseteq Nat
      BY <1>4 DEF FileTypeOK
    <2>2. table' \in [Processes -> [Numbers -> 0 .. Len(description')]]
      BY <1>3, <1>4 DEF FileTypeOK
    <2>3. QED
      BY <1>3, <1>5, <2>1, <2>2 DEF FileTypeOK, OpenFile
  <1>7. QED
    BY <1>2, <1>3, <1>4, <1>6

LEMMA SeekDoes ==
  ASSUME FileTypeOK, NEW p \in Processes, Seek(p), Behind(p) \in 1 .. Len(description),
         Arg(p) \in Nat
  PROVE  /\ FileTypeOK'
         /\ UNCHANGED <<stage, table, fds, file, output>>
         /\ Len(description') = Len(description)
         /\ description'[Behind(p)].offset = Arg(p)
         /\ description'[Behind(p)].append = description[Behind(p)].append
         /\ \A d \in 1 .. Len(description) : d # Behind(p) => description'[d] = description[d]
  <1>1. MoveTo(p, Arg(p))
    BY DEF Seek
  <1>2. /\ description' \in Seq(OpenFile)
        /\ Len(description') = Len(description)
        /\ description'[Behind(p)].offset = Arg(p)
        /\ description'[Behind(p)].append = description[Behind(p)].append
        /\ \A d \in 1 .. Len(description) : d # Behind(p) => description'[d] = description[d]
    BY <1>1, MoveDoes
  <1>3. UNCHANGED <<stage, table, fds, file, output>> /\ at' = [at EXCEPT ![p] = @ + 1]
    BY DEF Seek, Do
  <1>4. QED
    BY <1>2, <1>3 DEF FileTypeOK, OpenFile

LEMMA AppendDoes ==
  ASSUME FileTypeOK, NEW p \in Processes, SetAppend(p), Behind(p) \in 1 .. Len(description)
  PROVE  /\ FileTypeOK'
         /\ UNCHANGED <<stage, table, fds, file, output>>
         /\ Len(description') = Len(description)
         /\ description'[Behind(p)].offset = description[Behind(p)].offset
         /\ description'[Behind(p)].append = TRUE
         /\ \A d \in 1 .. Len(description) : d # Behind(p) => description'[d] = description[d]
  <1>1. description[Behind(p)] \in OpenFile
    BY DescriptionIs
  <1>2. /\ description' \in Seq(OpenFile)
        /\ Len(description') = Len(description)
        /\ description'[Behind(p)].offset = description[Behind(p)].offset
        /\ description'[Behind(p)].append = TRUE
        /\ \A d \in 1 .. Len(description) : d # Behind(p) => description'[d] = description[d]
    <2> DEFINE new == [description[Behind(p)] EXCEPT !.append = TRUE]
    <2>1. /\ new \in OpenFile
          /\ new.offset = description[Behind(p)].offset /\ new.append = TRUE
      BY <1>1 DEF OpenFile
    <2>2. description' = [description EXCEPT ![Behind(p)] = new]
      BY DEF SetAppend
    <2> HIDE DEF new
    <2>3. QED
      BY <2>1, <2>2, DescriptionSet
  <1>3. UNCHANGED <<stage, table, fds, file, output>> /\ at' = [at EXCEPT ![p] = @ + 1]
    BY DEF SetAppend, Do
  <1>4. QED
    BY <1>2, <1>3 DEF FileTypeOK, OpenFile

LEMMA ShowDoes ==
  ASSUME FileTypeOK, NEW p \in Processes, Show(p), fds[Name(p)] \in Numbers,
         Called(p) = "show" \/ Behind(p) \in 1 .. Len(description)
  PROVE  /\ FileTypeOK'
         /\ UNCHANGED <<stage, table, fds, description, file>>
         /\ Called(p) = "tell" => output' = Append(output, Offset(p))
         /\ Called(p) = "getfl" =>
               output' = Append(output, IF description[Behind(p)].append THEN 1 ELSE 0)
         /\ Called(p) = "show" => output' = Append(output, fds[Name(p)])
  <1>1. UNCHANGED <<stage, table, fds, description, file>>
    BY DEF Show
  <1>2. at' = [at EXCEPT ![p] = @ + 1]
    BY DEF Show, Do
  <1>3. PICK x : /\ output' = Append(output, x)
                 /\ \/ Called(p) = "tell" /\ x = Offset(p)
                    \/ Called(p) = "getfl" /\ x = (IF description[Behind(p)].append THEN 1 ELSE 0)
                    \/ Called(p) = "show" /\ x = fds[Name(p)]
    BY DEF Show, Do, Prints, Called
  <1>4. x \in Nat
    <2>1. Called(p) = "show" \/ description[Behind(p)] \in OpenFile
      BY DescriptionIs
    <2>2. QED
      BY <1>3, <2>1 DEF Numbers, OpenFile, Offset
  <1>5. FileTypeOK'
    BY <1>1, <1>2, <1>3, <1>4 DEF FileTypeOK
  <1>6. QED
    BY <1>1, <1>3, <1>5

LEMMA ForkDoes ==
  ASSUME FileTypeOK, NEW p \in Processes, ForkFile(p)
  PROVE  /\ FileTypeOK'
         /\ UNCHANGED <<fds, description, file, output>>
         /\ stage' = [stage EXCEPT !["child"] = "run"]
         /\ table' = [table EXCEPT !["child"] = table[p]]
  BY DEF FileTypeOK, ForkFile, Do, Processes

LEMMA WaitDoes ==
  ASSUME FileTypeOK, NEW p \in Processes, WaitFile(p)
  PROVE  /\ FileTypeOK'
         /\ UNCHANGED <<stage, table, fds, description, file, output>>
         /\ Called(p) = "wait" => stage["child"] \in {"done", "failed"}
         /\ Called(p) = "waitpid" => stage["child"] = "done"
  <1>1. /\ UNCHANGED <<stage, table, fds, description, file, output>>
        /\ at' = [at EXCEPT ![p] = @ + 1]
    BY DEF WaitFile, Do
  <1>2. /\ Called(p) = "wait" => stage["child"] \in {"done", "failed"}
        /\ Called(p) = "waitpid" => stage["child"] = "done"
    BY DEF WaitFile, Do, Called
  <1>3. QED
    BY <1>1, <1>2 DEF FileTypeOK

LEMMA LeavesDoes ==
  ASSUME FileTypeOK, NEW p \in Processes, NEW how \in {"done", "failed"}, Leaves(p, how)
  PROVE  /\ FileTypeOK'
         /\ stage' = [stage EXCEPT ![p] = how]
         /\ \A q \in Processes : q # p => table'[q] = table[q]
  <1>1. /\ stage' = [stage EXCEPT ![p] = how]
        /\ table' = [table EXCEPT ![p] = [n \in Numbers |-> 0]]
        /\ UNCHANGED <<at, fds, description, file, output>>
    BY DEF Leaves
  <1>2. 0 \in 0 .. Len(description)
    BY DEF FileTypeOK
  <1>3. table' \in [Processes -> [Numbers -> 0 .. Len(description)]]
    BY <1>1, <1>2 DEF FileTypeOK
  <1>4. QED
    BY <1>1, <1>3 DEF FileTypeOK

(***************************************************************************)
(* What a call of the parent leaves behind, number by number and           *)
(* description by description.                                             *)

PrintsNothing == \A n \in Nat : Printed(n) => Printed(n)'
PrintsOne(x) == \A n \in Nat : Printed(n) /\ Documented[program][n + 1] = x => Printed(n + 1)'

NumberSet(n, d) ==
    \A m \in Numbers : table'["parent"][m] = IF m = n THEN d ELSE table["parent"][m]
NameSet(name, n) == \A other \in FdNames : fds'[other] = IF other = name THEN n ELSE fds[other]
OffsetSet(d, to) ==
    /\ Len(description') = Len(description)
    /\ \A e \in 1 .. Len(description) :
          /\ description'[e].offset = IF e = d THEN to ELSE description[e].offset
          /\ description'[e].append = description[e].append

Opened(name, n, d) ==
    /\ FileTypeOK' /\ PrintsNothing /\ UNCHANGED <<stage, file>>
    /\ Len(description) = d - 1 /\ Len(description') = d
    /\ \A e \in 1 .. d - 1 : description'[e] = description[e]
    /\ description'[d].offset = 0 /\ ~description'[d].append
    /\ NumberSet(n, d)
    /\ NameSet(name, n)

Duplicated(name, n, d) ==
    /\ FileTypeOK' /\ PrintsNothing /\ UNCHANGED <<stage, description, file>>
    /\ NumberSet(n, d)
    /\ NameSet(name, n)

Renumbered(n, d) ==
    /\ FileTypeOK' /\ PrintsNothing /\ UNCHANGED <<stage, fds, description, file>>
    /\ NumberSet(n, d)

Written(d, from, n, text) ==
    /\ FileTypeOK' /\ PrintsNothing /\ UNCHANGED <<stage, table, fds>>
    /\ OffsetSet(d, from + n)
    /\ \A k \in from .. from + n - 1 : k \in DOMAIN file' /\ file'[k] = text[k - from + 1]
    /\ \A k \in DOMAIN file :
          k \notin from .. from + n - 1 => k \in DOMAIN file' /\ file'[k] = file[k]

HasRead(d, from, x) ==
    /\ FileTypeOK' /\ PrintsOne(x) /\ UNCHANGED <<stage, table, fds, file>>
    /\ OffsetSet(d, from + 1)

Repositioned(d, to) ==
    /\ FileTypeOK' /\ PrintsNothing /\ UNCHANGED <<stage, table, fds, file>>
    /\ OffsetSet(d, to)

Shown(x) ==
    /\ FileTypeOK' /\ PrintsOne(x) /\ UNCHANGED <<stage, table, fds, description, file>>

LEMMA PrintedKept ==
  ASSUME program' = program, output' = output
  PROVE  PrintsNothing
  BY DEF PrintsNothing, Printed

LEMMA PrintedNext ==
  ASSUME FileTypeOK, program' = program, NEW x, x \in Nat, output' = Append(output, x)
  PROVE  PrintsOne(x)
  BY DEF PrintsOne, Printed, FileTypeOK

LEMMA ParentNames == "parent" \in Processes
  BY DEF Processes

(* The calls of the parent, in these terms.                                *)
LEMMA ParentOpens ==
  ASSUME FileTypeOK, program' = program, FileCall("parent"), Called("parent") = "open",
         Name("parent") \in FdNames,
         NEW n \in Numbers, Is(n, 0), \A m \in 0 .. n - 1 : ~Is(m, 0)
  PROVE  Opened(Name("parent"), n, Len(description) + 1)
  <1>1. Open("parent")
    BY CallIs, ParentNames
  <1>2. Lowest("parent") = n
    BY LowestIs, ParentNames DEF Is
  <1> DEFINE name == Name("parent")
             d == Len(description) + 1
  <1>3. /\ FileTypeOK'
        /\ UNCHANGED <<stage, file, output>>
        /\ Len(description') = d
        /\ \A e \in 1 .. Len(description) : description'[e] = description[e]
        /\ description'[d] = [offset |-> 0, append |-> FALSE]
        /\ table' = [table EXCEPT !["parent"][n] = d]
        /\ fds' = [fds EXCEPT ![name] = n]
    BY <1>1, <1>2, OpenDoes, ParentNames
  <1>4. NumberSet(n, d) /\ NameSet(name, n)
    BY <1>3, ParentNames DEF FileTypeOK, NumberSet, NameSet
  <1>5. Len(description) = d - 1 /\ Len(description) \in Nat
    BY DEF FileTypeOK
  <1>6. description'[d].offset = 0 /\ ~description'[d].append
    BY <1>3
  <1>7. \A e \in 1 .. d - 1 : description'[e] = description[e]
    BY <1>3, <1>5
  <1> HIDE DEF name, d
  <1>8. Opened(name, n, d)
    BY <1>3, <1>4, <1>5, <1>6, <1>7, PrintedKept DEF Opened
  <1>9. QED
    BY <1>8 DEF name, d

LEMMA ParentDups ==
  ASSUME FileTypeOK, program' = program, FileCall("parent"), Called("parent") = "dup",
         Arg("parent") \in FdNames, Behind("parent") \in 1 .. Len(description),
         NEW n \in Numbers, Is(n, 0), \A m \in 0 .. n - 1 : ~Is(m, 0)
  PROVE  Duplicated(Arg("parent"), n, Behind("parent"))
  <1>1. Dup("parent")
    BY CallIs, ParentNames
  <1>2. Lowest("parent") = n
    BY LowestIs, ParentNames DEF Is
  <1>3. /\ FileTypeOK'
        /\ UNCHANGED <<stage, description, file, output>>
        /\ table' = [table EXCEPT !["parent"][n] = Behind("parent")]
        /\ fds' = [fds EXCEPT ![Arg("parent")] = n]
    BY <1>1, <1>2, DupDoes, ParentNames
  <1>4. NumberSet(n, Behind("parent")) /\ NameSet(Arg("parent"), n)
    BY <1>3, ParentNames DEF FileTypeOK, NumberSet, NameSet
  <1>5. QED
    BY <1>3, <1>4, PrintedKept DEF Duplicated

LEMMA ParentDup2s ==
  ASSUME FileTypeOK, program' = program, FileCall("parent"), Called("parent") = "dup2",
         fds[Arg("parent")] \in Numbers, Behind("parent") \in 1 .. Len(description)
  PROVE  Renumbered(fds[Arg("parent")], Behind("parent"))
  <1>1. Dup2("parent")
    BY CallIs, ParentNames
  <1>2. /\ FileTypeOK'
        /\ UNCHANGED <<stage, fds, description, file, output>>
        /\ table' = [table EXCEPT !["parent"][fds[Arg("parent")]] = Behind("parent")]
    BY <1>1, Dup2Does, ParentNames
  <1>3. NumberSet(fds[Arg("parent")], Behind("parent"))
    BY <1>2, ParentNames DEF FileTypeOK, NumberSet
  <1>4. QED
    BY <1>2, <1>3, PrintedKept DEF Renumbered

LEMMA ParentCloses ==
  ASSUME FileTypeOK, program' = program, FileCall("parent"), Called("parent") = "close",
         fds[Name("parent")] \in Numbers
  PROVE  Renumbered(fds[Name("parent")], 0)
  <1>1. Close("parent")
    BY CallIs, ParentNames
  <1>2. /\ FileTypeOK'
        /\ UNCHANGED <<stage, fds, description, file, output>>
        /\ table' = [table EXCEPT !["parent"][fds[Name("parent")]] = 0]
    BY <1>1, CloseDoes, ParentNames
  <1>3. NumberSet(fds[Name("parent")], 0)
    BY <1>2, ParentNames DEF FileTypeOK, NumberSet
  <1>4. QED
    BY <1>2, <1>3, PrintedKept DEF Renumbered

(* The description the call is on, and what is changed of it.              *)
LEMMA OffsetIsSet ==
  ASSUME NEW d, NEW to, Len(description') = Len(description),
         description'[d].offset = to,
         description'[d].append = description[d].append,
         \A e \in 1 .. Len(description) : e # d => description'[e] = description[e]
  PROVE  OffsetSet(d, to)
  BY DEF OffsetSet

Sized(text, n) == Len(text) = n

LEMMA ParentWrites ==
  ASSUME FileTypeOK, program' = program, FileCall("parent"), Called("parent") = "write",
         NEW n \in Nat, Sized(Arg("parent"), n), Behind("parent") \in 1 .. Len(description)
  PROVE  Written(Behind("parent"), Offset("parent"), n, Arg("parent"))
  <1> DEFINE d == Behind("parent")
             from == Offset("parent")
             text == Arg("parent")
  <1>1. Write("parent")
    BY CallIs, ParentNames
  <1>2. Len(text) = n
    BY DEF Sized
  <1>3. Covered("parent") = from .. from + n - 1
    BY <1>2 DEF Covered
  <1>4. /\ FileTypeOK'
        /\ UNCHANGED <<stage, table, fds, output>>
        /\ Len(description') = Len(description)
        /\ description'[d].offset = from + n
        /\ description'[d].append = description[d].append
        /\ \A e \in 1 .. Len(description) : e # d => description'[e] = description[e]
        /\ DOMAIN file' = DOMAIN file \union Covered("parent")
        /\ \A k \in Covered("parent") : file'[k] = text[k - from + 1]
        /\ \A k \in DOMAIN file \ Covered("parent") : file'[k] = file[k]
    BY <1>1, <1>2, WriteDoes, ParentNames
  <1> HIDE DEF d, from, text
  <1>5. OffsetSet(d, from + n)
    BY <1>4, OffsetIsSet
  <1>6. Written(d, from, n, text)
    BY <1>3, <1>4, <1>5, PrintedKept DEF Written
  <1>7. QED
    BY <1>6 DEF d, from, text

LEMMA ParentReads ==
  ASSUME FileTypeOK, program' = program, FileCall("parent"), Called("parent") = "read",
         file[Offset("parent")] \in Nat, Behind("parent") \in 1 .. Len(description)
  PROVE  HasRead(Behind("parent"), Offset("parent"), file[Offset("parent")])
  <1> DEFINE d == Behind("parent")
             from == Offset("parent")
  <1>1. Read("parent")
    BY CallIs, ParentNames
  <1>2. /\ FileTypeOK'
        /\ UNCHANGED <<stage, table, fds, file>>
        /\ Len(description') = Len(description)
        /\ description'[d].offset = from + 1
        /\ description'[d].append = description[d].append
        /\ \A e \in 1 .. Len(description) : e # d => description'[e] = description[e]
        /\ output' = Append(output, file[from])
    BY <1>1, ReadDoes, ParentNames
  <1>3. file[from] \in Nat
    OBVIOUS
  <1> HIDE DEF d, from
  <1>4. OffsetSet(d, from + 1)
    BY <1>2, OffsetIsSet
  <1>5. PrintsOne(file[from])
    BY <1>2, <1>3, PrintedNext
  <1>6. HasRead(d, from, file[from])
    BY <1>2, <1>4, <1>5 DEF HasRead
  <1>7. QED
    BY <1>6 DEF d, from

LEMMA ParentSeeks ==
  ASSUME FileTypeOK, program' = program, FileCall("parent"), Called("parent") = "seek",
         Arg("parent") \in Nat, Behind("parent") \in 1 .. Len(description)
  PROVE  Repositioned(Behind("parent"), Arg("parent"))
  <1> DEFINE d == Behind("parent")
             to == Arg("parent")
  <1>1. Seek("parent")
    BY CallIs, ParentNames
  <1>2. /\ FileTypeOK'
        /\ UNCHANGED <<stage, table, fds, file, output>>
        /\ Len(description') = Len(description)
        /\ description'[d].offset = to
        /\ description'[d].append = description[d].append
        /\ \A e \in 1 .. Len(description) : e # d => description'[e] = description[e]
    BY <1>1, SeekDoes, ParentNames
  <1> HIDE DEF d, to
  <1>3. OffsetSet(d, to)
    BY <1>2, OffsetIsSet
  <1>4. Repositioned(d, to)
    BY <1>2, <1>3, PrintedKept DEF Repositioned
  <1>5. QED
    BY <1>4 DEF d, to

LEMMA ParentTells ==
  ASSUME FileTypeOK, program' = program, FileCall("parent"), Called("parent") = "tell",
         fds[Name("parent")] \in Numbers, Behind("parent") \in 1 .. Len(description)
  PROVE  Shown(Offset("parent"))
  <1>1. Show("parent")
    BY CallIs, ParentNames
  <1>2. /\ FileTypeOK'
        /\ UNCHANGED <<stage, table, fds, description, file>>
        /\ output' = Append(output, Offset("parent"))
    BY <1>1, ShowDoes, ParentNames
  <1>3. Offset("parent") \in Nat
    BY DescriptionIs DEF Offset
  <1>4. PrintsOne(Offset("parent"))
    BY <1>2, <1>3, PrintedNext
  <1>5. QED
    BY <1>2, <1>4 DEF Shown

LEMMA ParentGetsFlags ==
  ASSUME FileTypeOK, program' = program, FileCall("parent"), Called("parent") = "getfl",
         fds[Name("parent")] \in Numbers, Behind("parent") \in 1 .. Len(description),
         NEW x \in Nat, x = (IF description[Behind("parent")].append THEN 1 ELSE 0)
  PROVE  Shown(x)
  <1>1. Show("parent")
    BY CallIs, ParentNames
  <1>2. /\ FileTypeOK'
        /\ UNCHANGED <<stage, table, fds, description, file>>
        /\ output' = Append(output, x)
    BY <1>1, ShowDoes, ParentNames
  <1>3. PrintsOne(x)
    BY <1>2, PrintedNext
  <1>4. QED
    BY <1>2, <1>3 DEF Shown

LEMMA ParentShowsNumber ==
  ASSUME FileTypeOK, program' = program, FileCall("parent"), Called("parent") = "show",
         fds[Name("parent")] \in Numbers
  PROVE  Shown(fds[Name("parent")])
  <1>1. Show("parent")
    BY CallIs, ParentNames
  <1>2. /\ FileTypeOK'
        /\ UNCHANGED <<stage, table, fds, description, file>>
        /\ output' = Append(output, fds[Name("parent")])
    BY <1>1, ShowDoes, ParentNames
  <1>3. fds[Name("parent")] \in Nat
    BY DEF Numbers
  <1>4. PrintsOne(fds[Name("parent")])
    BY <1>2, <1>3, PrintedNext
  <1>5. QED
    BY <1>2, <1>4 DEF Shown

(* The calls of each program, one by one.                                  *)
LEMMA Dup1CallList ==
  /\ Len(Dup1Calls) = 12
  /\ Dup1Calls[1] = <<"open", "fd1">> /\ Dup1Calls[2] = <<"dup", "fd1", "fd2">>
  /\ Dup1Calls[3] = <<"tell", "fd1">> /\ Dup1Calls[4] = <<"tell", "fd2">>
  /\ Dup1Calls[5] = <<"write", "fd1", Text(10)>>
  /\ Dup1Calls[6] = <<"tell", "fd1">> /\ Dup1Calls[7] = <<"tell", "fd2">>
  /\ Dup1Calls[8] = <<"write", "fd2", Text(10)>>
  /\ Dup1Calls[9] = <<"tell", "fd1">> /\ Dup1Calls[10] = <<"tell", "fd2">>
  /\ Dup1Calls[11] = <<"close", "fd1">> /\ Dup1Calls[12] = <<"close", "fd2">>
  BY DEF Dup1Calls, TellBoth, CloseBoth

LEMMA TextIs ==
  ASSUME NEW n \in Nat
  PROVE  Len(Text(n)) = n /\ \A k \in 1 .. n : Text(n)[k] = k
  BY DEF Text

(* The calls of a run are those of its program.                            *)
LEMMA CallsAre ==
  /\ program = "dup1" => Calls("parent") = Dup1Calls
  /\ program = "dup2" => Calls("parent") = Dup2Calls
  /\ program = "dup3" => Calls("parent") = Dup3Calls
  /\ program = "open1" => Calls("parent") = Open1Calls
  /\ program = "open2" => Calls("parent") = Open2Calls
  /\ program = "open3" => Calls("parent") = Open3Calls
  /\ program = "open4" => Calls("parent") = Open4Calls
  /\ program = "hole" => Calls("parent") = HoleCalls
  /\ program = "share1" => Calls("parent") = Share1Calls /\ Calls("child") = Share1Child
  /\ program = "fork_file_sharing" =>
        Calls("parent") = ForkFileSharingCalls /\ Calls("child") = ForkFileSharingChild
  BY DEF Calls, MainCalls, ChildCalls

LEMMA FileProgramsAre ==
  FilePrograms = {"dup1", "dup2", "dup3", "open1", "open2", "open3", "open4", "hole",
                  "share1", "fork_file_sharing"}
  BY DEF FilePrograms, MainCalls

LEMMA Dup2CallList ==
  /\ Len(Dup2Calls) = 10
  /\ Dup2Calls[1] = <<"open", "fd">> /\ Dup2Calls[2] = <<"write", "fd", Text(7)>>
  /\ Dup2Calls[3] = <<"close", "fd">>
  /\ Dup2Calls[4] = <<"open", "fd1">> /\ Dup2Calls[5] = <<"open", "fd2">>
  /\ Dup2Calls[6] = <<"dup2", "fd1", "fd2">>
  /\ Dup2Calls[7] = <<"read", "fd1">> /\ Dup2Calls[8] = <<"read", "fd2">>
  /\ Dup2Calls[9] = <<"close", "fd1">> /\ Dup2Calls[10] = <<"close", "fd2">>
  BY DEF Dup2Calls, TestFile, OpenTwice, ReadBoth, CloseBoth

LEMMA Dup3CallList ==
  /\ Len(Dup3Calls) = 10
  /\ Dup3Calls[1] = <<"open", "fd">> /\ Dup3Calls[2] = <<"write", "fd", Text(7)>>
  /\ Dup3Calls[3] = <<"close", "fd">>
  /\ Dup3Calls[4] = <<"open", "fd1">> /\ Dup3Calls[5] = <<"open", "fd2">>
  /\ Dup3Calls[6] = <<"dup2", "fd1", "fd2">>
  /\ Dup3Calls[7] = <<"read", "fd1">> /\ Dup3Calls[8] = <<"close", "fd1">>
  /\ Dup3Calls[9] = <<"read", "fd2">> /\ Dup3Calls[10] = <<"close", "fd2">>
  BY DEF Dup3Calls, TestFile, OpenTwice

LEMMA Open1CallList ==
  /\ Len(Open1Calls) = 6
  /\ Open1Calls[1] = <<"open", "fd1">> /\ Open1Calls[2] = <<"show", "fd1">>
  /\ Open1Calls[3] = <<"close", "fd1">>
  /\ Open1Calls[4] = <<"open", "fd2">> /\ Open1Calls[5] = <<"show", "fd2">>
  /\ Open1Calls[6] = <<"close", "fd2">>
  BY DEF Open1Calls

LEMMA Open2CallList ==
  /\ Len(Open2Calls) = 8
  /\ Open2Calls[1] = <<"close", "stdin">> /\ Open2Calls[2] = <<"close", "stderr">>
  /\ Open2Calls[3] = <<"open", "fd1">> /\ Open2Calls[4] = <<"show", "fd1">>
  /\ Open2Calls[5] = <<"open", "fd2">> /\ Open2Calls[6] = <<"show", "fd2">>
  /\ Open2Calls[7] = <<"close", "fd1">> /\ Open2Calls[8] = <<"close", "fd2">>
  BY DEF Open2Calls, CloseBoth

LEMMA Open3CallList ==
  /\ Len(Open3Calls) = 13
  /\ Open3Calls[1] = <<"open", "fd">> /\ Open3Calls[2] = <<"write", "fd", Text(7)>>
  /\ Open3Calls[3] = <<"close", "fd">>
  /\ Open3Calls[4] = <<"open", "fd1">> /\ Open3Calls[5] = <<"open", "fd2">>
  /\ Open3Calls[6] = <<"read", "fd1">> /\ Open3Calls[7] = <<"read", "fd2">>
  /\ Open3Calls[8] = <<"open", "fd3">>
  /\ Open3Calls[9] = <<"read", "fd3">> /\ Open3Calls[10] = <<"read", "fd1">>
  /\ Open3Calls[11] = <<"close", "fd1">> /\ Open3Calls[12] = <<"close", "fd2">>
  /\ Open3Calls[13] = <<"close", "fd3">>
  BY DEF Open3Calls, TestFile, OpenTwice, ReadBoth, CloseBoth

LEMMA Open4CallList ==
  /\ Len(Open4Calls) = 11
  /\ Open4Calls[1] = <<"open", "fd">> /\ Open4Calls[2] = <<"write", "fd", Text(7)>>
  /\ Open4Calls[3] = <<"close", "fd">>
  /\ Open4Calls[4] = <<"open", "fd1">> /\ Open4Calls[5] = <<"open", "fd2">>
  /\ Open4Calls[6] = <<"read", "fd1">> /\ Open4Calls[7] = <<"read", "fd2">>
  /\ Open4Calls[8] = <<"write", "fd1", <<X>> >> /\ Open4Calls[9] = <<"read", "fd2">>
  /\ Open4Calls[10] = <<"close", "fd1">> /\ Open4Calls[11] = <<"close", "fd2">>
  BY DEF Open4Calls, TestFile, OpenTwice, ReadBoth, CloseBoth

LEMMA HoleCallList ==
  /\ Len(HoleCalls) = 6
  /\ HoleCalls[1] = <<"open", "fd">> /\ HoleCalls[2] = <<"write", "fd", Text(10)>>
  /\ HoleCalls[3] = <<"seek", "fd", 16384>> /\ HoleCalls[4] = <<"write", "fd", Text(10)>>
  /\ HoleCalls[5] = <<"tell", "fd">> /\ HoleCalls[6] = <<"close", "fd">>
  BY DEF HoleCalls

LEMMA Share1CallList ==
  /\ Len(Share1Calls) = 7
  /\ Share1Calls[1] = <<"open", "fd">> /\ Share1Calls[2] = <<"write", "fd", Text(5)>>
  /\ Share1Calls[3] = <<"seek", "fd", 0>> /\ Share1Calls[4] = <<"fork">>
  /\ Share1Calls[5] = <<"waitpid">> /\ Share1Calls[6] = <<"read", "fd">>
  /\ Share1Calls[7] = <<"close", "fd">>
  /\ Len(Share1Child) = 1 /\ Share1Child[1] = <<"seek", "fd", 2>>
  BY DEF Share1Calls, Share1Child

LEMMA ForkFileSharingCallList ==
  /\ Len(ForkFileSharingCalls) = 7
  /\ ForkFileSharingCalls[1] = <<"open", "fd">> /\ ForkFileSharingCalls[2] = <<"tell", "fd">>
  /\ ForkFileSharingCalls[3] = <<"getfl", "fd">> /\ ForkFileSharingCalls[4] = <<"fork">>
  /\ ForkFileSharingCalls[5] = <<"wait">> /\ ForkFileSharingCalls[6] = <<"tell", "fd">>
  /\ ForkFileSharingCalls[7] = <<"getfl", "fd">>
  /\ Len(ForkFileSharingChild) = 2
  /\ ForkFileSharingChild[1] = <<"seek", "fd", 1000>>
  /\ ForkFileSharingChild[2] = <<"append", "fd">>
  BY DEF ForkFileSharingCalls, ForkFileSharingChild

(* Only fork() starts the child, and nothing the parent does moves it.     *)
LEMMA ParentKeepsChild ==
  ASSUME FileTypeOK, FileCall("parent"), Called("parent") # "fork"
  PROVE  stage' = stage /\ at'["child"] = at["child"] /\ table'["child"] = table["child"]
  BY DEF FileTypeOK, Processes, Called, FileCall, Open, Dup, Dup2, Close, Write, Read, Seek,
         SetAppend, Show, ForkFile, WaitFile, Do

LEMMA ChildKept ==
  ASSUME ChildState, program' = program, stage' = stage, at'["child"] = at["child"],
         table'["child"] = table["child"], fds'["fd"] = fds["fd"] \/ stage["child"] = "off",
         Len(description') = Len(description) \/ stage["child"] = "off"
  PROVE  ChildState'
  BY DEF ChildState, ChildEnd

(* share1.c: the parent reads where its child has moved the offset to.     *)
LEMMA Share1Step ==
  ASSUME FileTypeOK, program = "share1", program' = program, NEW k \in Nat, at["parent"] = k,
         Share1State(k), ChildState, FileCall("parent"), k \in 1 .. 7
  PROVE  FileTypeOK' /\ Share1State(k + 1)' /\ ChildState'
  <1> USE DEF Numbers, FdNames
  <1>1. CASE k = 1
    <2>1. Called("parent") = "open" /\ Name("parent") = "fd"
      BY <1>1, CallsAre, Share1CallList DEF Called, Name
    <2>2. Is(3, 0) /\ (\A m \in 0 .. 2 : ~Is(m, 0)) /\ Len(description) = 1
      BY <1>1 DEF Share1State, OneOpen, LowTaken, Is, Descriptions
    <2>3. Opened("fd", 3, 2)
      BY <2>1, <2>2, ParentOpens
    <2>4. stage' = stage /\ at'["child"] = at["child"] /\ table'["child"] = table["child"]
      BY <2>1, ParentKeepsChild
    <2>5. stage["child"] = "off" /\ at["child"] = 1
      BY <1>1 DEF Share1State, ChildState
    <2>6. ChildState'
      BY <2>4, <2>5, ChildKept
    <2>7. QED
      BY <1>1, <2>3, <2>4, <2>5, <2>6
         DEF Opened, Share1State, OneOpen, LowTaken, Is, At, Descriptions, NumberSet,
             NameSet, PrintsNothing
  <1>2. CASE k = 2
    <2>1. Called("parent") = "write" /\ Name("parent") = "fd" /\ Arg("parent") = Text(5)
      BY <1>2, CallsAre, Share1CallList DEF Called, Name, Arg
    <2>2. /\ fds["fd"] = 3 /\ Behind("parent") = 2 /\ Offset("parent") = 0
          /\ Len(description) = 2
      BY <1>2, <2>1 DEF Behind, Offset, Share1State, OneOpen, Is, At, Descriptions
    <2>3. Written(2, 0, 5, Text(5))
      <3>1. Sized(Arg("parent"), 5)
        BY <2>1, TextIs DEF Sized
      <3>2. QED
        BY <2>1, <2>2, <3>1, ParentWrites
    <2>4. stage' = stage /\ at'["child"] = at["child"] /\ table'["child"] = table["child"]
      BY <2>1, ParentKeepsChild
    <2>5. stage["child"] = "off" /\ at["child"] = 1
      BY <1>2 DEF Share1State, ChildState
    <2>6. ChildState'
      BY <2>4, <2>5, ChildKept
    <2>7. QED
      BY <1>2, <2>2, <2>3, <2>4, <2>5, <2>6, TextIs
         DEF Written, Share1State, OneOpen, LowTaken, Is, At, Descriptions, OffsetSet,
             PrintsNothing
  <1>3. CASE k = 3
    <2>1. Called("parent") = "seek" /\ Name("parent") = "fd" /\ Arg("parent") = 0
      BY <1>3, CallsAre, Share1CallList DEF Called, Name, Arg
    <2>2. fds["fd"] = 3 /\ Behind("parent") = 2 /\ Len(description) = 2
      BY <1>3, <2>1 DEF Behind, Share1State, OneOpen, Is, Descriptions
    <2>3. Repositioned(2, 0)
      BY <2>1, <2>2, ParentSeeks
    <2>4. stage' = stage /\ at'["child"] = at["child"] /\ table'["child"] = table["child"]
      BY <2>1, ParentKeepsChild
    <2>5. stage["child"] = "off" /\ at["child"] = 1
      BY <1>3 DEF Share1State, ChildState
    <2>6. ChildState'
      BY <2>4, <2>5, ChildKept
    <2>7. QED
      BY <1>3, <2>2, <2>3, <2>4, <2>5, <2>6
         DEF Repositioned, Share1State, OneOpen, LowTaken, Is, At, Descriptions, OffsetSet,
             PrintsNothing
  <1>4. CASE k = 4
    <2>1. Called("parent") = "fork"
      BY <1>4, CallsAre, Share1CallList DEF Called
    <2>2. ForkFile("parent")
      BY <2>1, CallIs, ParentNames
    <2>3. /\ FileTypeOK' /\ UNCHANGED <<fds, description, file, output>>
          /\ stage'["child"] = "run"
          /\ table'["parent"] = table["parent"] /\ table'["child"] = table["parent"]
          /\ at'["child"] = at["child"]
      BY <2>2, ForkDoes, ParentNames DEF FileTypeOK, ForkFile, Do, Processes
    <2>4. at["child"] = 1 /\ fds["fd"] = 3 /\ Len(description) = 2 /\ table["parent"][3] = 2
      BY <1>4 DEF Share1State, OneOpen, ChildState, Descriptions, Is
    <2>5. ChildState'
      BY <2>3, <2>4 DEF ChildState, ChildEnd
    <2>6. PrintsNothing
      BY <2>3, PrintedKept
    <2>7. QED
      BY <1>4, <2>3, <2>4, <2>5, <2>6
         DEF Share1State, OneOpen, LowTaken, Is, At, Descriptions, PrintsNothing
  <1>5. CASE k = 5
    <2>1. Called("parent") = "waitpid"
      BY <1>5, CallsAre, Share1CallList DEF Called
    <2>2. WaitFile("parent")
      BY <2>1, CallIs, ParentNames
    <2>3. /\ FileTypeOK' /\ UNCHANGED <<stage, table, fds, description, file, output>>
          /\ stage["child"] = "done"
      BY <2>1, <2>2, WaitDoes, ParentNames
    <2>4. stage' = stage /\ at'["child"] = at["child"] /\ table'["child"] = table["child"]
      BY <2>1, ParentKeepsChild
    <2>5. ChildState' /\ PrintsNothing
      BY <2>3, <2>4, ChildKept, PrintedKept
    <2>6. QED
      BY <1>5, <2>3, <2>4, <2>5
         DEF Share1State, OneOpen, LowTaken, Is, At, Descriptions, PrintsNothing
  <1>6. CASE k = 6
    <2>1. Called("parent") = "read" /\ Name("parent") = "fd"
      BY <1>6, CallsAre, Share1CallList DEF Called, Name
    <2>2. at["child"] = 2
      BY <1>6 DEF Share1State, ChildState, ChildEnd
    <2>3. fds["fd"] = 3 /\ Behind("parent") = 2 /\ Offset("parent") = 2 /\ file[2] = 3
          /\ Len(description) = 2
      BY <1>6, <2>1, <2>2 DEF Behind, Offset, Share1State, OneOpen, Is, At, Descriptions
    <2>4. HasRead(2, 2, 3)
      BY <2>1, <2>3, ParentReads
    <2>5. stage' = stage /\ at'["child"] = at["child"] /\ table'["child"] = table["child"]
      BY <2>1, ParentKeepsChild
    <2>6. ChildState'
      BY <2>4, <2>5, ChildKept DEF HasRead, OffsetSet
    <2>7. QED
      BY <1>6, <2>3, <2>4, <2>5, <2>6
         DEF HasRead, Share1State, OneOpen, LowTaken, Is, At, Descriptions, OffsetSet,
             PrintsOne, Documented
  <1>7. CASE k = 7
    <2>1. Called("parent") = "close" /\ Name("parent") = "fd"
      BY <1>7, CallsAre, Share1CallList DEF Called, Name
    <2>2. fds["fd"] = 3
      BY <1>7 DEF Share1State, OneOpen
    <2>3. Renumbered(3, 0)
      BY <2>1, <2>2, ParentCloses
    <2>4. stage' = stage /\ at'["child"] = at["child"] /\ table'["child"] = table["child"]
      BY <2>1, ParentKeepsChild
    <2>5. ChildState'
      BY <2>3, <2>4, ChildKept DEF Renumbered
    <2>6. QED
      BY <1>7, <2>3, <2>4, <2>5
         DEF Renumbered, Share1State, OneOpen, LowTaken, Is, At, Descriptions, NumberSet,
             PrintsNothing
  <1>8. QED
    BY <1>1, <1>2, <1>3, <1>4, <1>5, <1>6, <1>7

(* fork_file_sharing.c: the parent sees the offset and the flag of its child.*)
LEMMA ForkFileSharingStep ==
  ASSUME FileTypeOK, program = "fork_file_sharing", program' = program, NEW k \in Nat,
         at["parent"] = k, ForkFileSharingState(k), ChildState, FileCall("parent"), k \in 1 .. 7
  PROVE  FileTypeOK' /\ ForkFileSharingState(k + 1)' /\ ChildState'
  <1> USE DEF Numbers, FdNames
  <1>1. CASE k = 1
    <2>1. Called("parent") = "open" /\ Name("parent") = "fd"
      BY <1>1, CallsAre, ForkFileSharingCallList DEF Called, Name
    <2>2. Is(3, 0) /\ (\A m \in 0 .. 2 : ~Is(m, 0)) /\ Len(description) = 1
      BY <1>1 DEF ForkFileSharingState, OneOpen, LowTaken, Is, At, Descriptions
    <2>3. Opened("fd", 3, 2)
      BY <2>1, <2>2, ParentOpens
    <2>4. stage' = stage /\ at'["child"] = at["child"] /\ table'["child"] = table["child"]
      BY <2>1, ParentKeepsChild
    <2>5. stage["child"] = "off" /\ at["child"] = 1
      BY <1>1 DEF ForkFileSharingState, ChildState
    <2>6. ChildState'
      BY <2>4, <2>5, ChildKept
    <2>7. QED
      BY <1>1, <2>3, <2>4, <2>5, <2>6
         DEF Opened, ForkFileSharingState, OneOpen, LowTaken, Is, At, Descriptions,
             NumberSet, NameSet, PrintsNothing
  <1>2. CASE k = 2
    <2>1. Called("parent") = "tell" /\ Name("parent") = "fd"
      BY <1>2, CallsAre, ForkFileSharingCallList DEF Called, Name
    <2>2. /\ fds["fd"] = 3 /\ Behind("parent") = 2 /\ Offset("parent") = 0
          /\ Len(description) = 2
      BY <1>2, <2>1
         DEF Behind, Offset, ForkFileSharingState, OneOpen, LowTaken, Is, At, Descriptions
    <2>3. Shown(0)
      BY <2>1, <2>2, ParentTells
    <2>4. stage' = stage /\ at'["child"] = at["child"] /\ table'["child"] = table["child"]
      BY <2>1, ParentKeepsChild
    <2>5. ChildState'
      BY <2>3, <2>4, ChildKept DEF Shown
    <2>6. QED
      BY <1>2, <2>3, <2>4, <2>5
         DEF Shown, ForkFileSharingState, OneOpen, LowTaken, Is, At, Descriptions,
             PrintsOne, Documented
  <1>3. CASE k = 3
    <2>1. Called("parent") = "getfl" /\ Name("parent") = "fd"
      BY <1>3, CallsAre, ForkFileSharingCallList DEF Called, Name
    <2>2. /\ fds["fd"] = 3 /\ Behind("parent") = 2 /\ Len(description) = 2
          /\ ~description[2].append
      BY <1>3, <2>1
         DEF Behind, ForkFileSharingState, OneOpen, LowTaken, Is, At, Descriptions
    <2>3. Shown(0)
      BY <2>1, <2>2, ParentGetsFlags
    <2>4. stage' = stage /\ at'["child"] = at["child"] /\ table'["child"] = table["child"]
      BY <2>1, ParentKeepsChild
    <2>5. ChildState'
      BY <2>3, <2>4, ChildKept DEF Shown
    <2>6. QED
      BY <1>3, <2>3, <2>4, <2>5
         DEF Shown, ForkFileSharingState, OneOpen, LowTaken, Is, At, Descriptions,
             PrintsOne, Documented
  <1>4. CASE k = 4
    <2>1. Called("parent") = "fork"
      BY <1>4, CallsAre, ForkFileSharingCallList DEF Called
    <2>2. ForkFile("parent")
      BY <2>1, CallIs, ParentNames
    <2>3. /\ FileTypeOK' /\ UNCHANGED <<fds, description, file, output>>
          /\ stage'["child"] = "run"
          /\ table'["parent"] = table["parent"] /\ table'["child"] = table["parent"]
          /\ at'["child"] = at["child"]
      BY <2>2, ForkDoes, ParentNames DEF FileTypeOK, ForkFile, Do, Processes
    <2>4. at["child"] = 1 /\ fds["fd"] = 3 /\ Len(description) = 2 /\ table["parent"][3] = 2
      BY <1>4 DEF ChildState, ForkFileSharingState, OneOpen, LowTaken, Is, At, Descriptions
    <2>5. ChildState'
      BY <2>3, <2>4 DEF ChildState, ChildEnd
    <2>6. PrintsNothing
      BY <2>3, PrintedKept
    <2>7. QED
      BY <1>4, <2>3, <2>4, <2>5, <2>6
         DEF ForkFileSharingState, OneOpen, LowTaken, Is, At, Descriptions, PrintsNothing
  <1>5. CASE k = 5
    <2>1. Called("parent") = "wait"
      BY <1>5, CallsAre, ForkFileSharingCallList DEF Called
    <2>2. WaitFile("parent")
      BY <2>1, CallIs, ParentNames
    <2>3. /\ FileTypeOK' /\ UNCHANGED <<stage, table, fds, description, file, output>>
          /\ stage["child"] \in {"done", "failed"}
      BY <2>1, <2>2, WaitDoes, ParentNames
    <2>4. stage' = stage /\ at'["child"] = at["child"] /\ table'["child"] = table["child"]
      BY <2>1, ParentKeepsChild
    <2>5. ChildState' /\ PrintsNothing
      BY <2>3, <2>4, ChildKept, PrintedKept
    <2>6. QED
      BY <1>5, <2>3, <2>4, <2>5
         DEF ForkFileSharingState, OneOpen, LowTaken, Is, At, Descriptions, PrintsNothing
  <1>6. CASE k = 6
    <2>1. Called("parent") = "tell" /\ Name("parent") = "fd"
      BY <1>6, CallsAre, ForkFileSharingCallList DEF Called, Name
    <2>2. fds["fd"] = 3 /\ Behind("parent") = 2 /\ Len(description) = 2
      BY <1>6, <2>1
         DEF Behind, ForkFileSharingState, OneOpen, LowTaken, Is, At, Descriptions
    <2>3. stage["child"] = "done" => Offset("parent") = 1000
      <3>1. stage["child"] = "done" => at["child"] = 3
        BY DEF ChildState, ChildEnd
      <3>2. QED
        BY <1>6, <2>2, <3>1 DEF Offset, ForkFileSharingState, At
    <2>4. Shown(Offset("parent"))
      BY <2>1, <2>2, ParentTells
    <2>5. stage' = stage /\ at'["child"] = at["child"] /\ table'["child"] = table["child"]
      BY <2>1, ParentKeepsChild
    <2>6. ChildState'
      BY <2>4, <2>5, ChildKept DEF Shown
    <2>7. QED
      BY <1>6, <2>3, <2>4, <2>5, <2>6
         DEF Shown, ForkFileSharingState, OneOpen, LowTaken, Is, At, Descriptions,
             PrintsOne, Documented
  <1>7. CASE k = 7
    <2>1. Called("parent") = "getfl" /\ Name("parent") = "fd"
      BY <1>7, CallsAre, ForkFileSharingCallList DEF Called, Name
    <2>2. fds["fd"] = 3 /\ Behind("parent") = 2 /\ Len(description) = 2
      BY <1>7, <2>1
         DEF Behind, ForkFileSharingState, OneOpen, LowTaken, Is, At, Descriptions
    <2>3. stage["child"] = "done" => (IF description[2].append THEN 1 ELSE 0) = 1
      <3>1. stage["child"] = "done" => at["child"] = 3
        BY DEF ChildState, ChildEnd
      <3>2. QED
        BY <1>7, <2>2, <3>1 DEF Offset, ForkFileSharingState, At
    <2>4. Shown((IF description[2].append THEN 1 ELSE 0))
      BY <2>1, <2>2, ParentGetsFlags
    <2>5. stage' = stage /\ at'["child"] = at["child"] /\ table'["child"] = table["child"]
      BY <2>1, ParentKeepsChild
    <2>6. ChildState'
      BY <2>4, <2>5, ChildKept DEF Shown
    <2>7. QED
      BY <1>7, <2>3, <2>4, <2>5, <2>6
         DEF Shown, ForkFileSharingState, OneOpen, LowTaken, Is, At, Descriptions,
             PrintsOne, Documented
  <1>8. QED
    BY <1>1, <1>2, <1>3, <1>4, <1>5, <1>6, <1>7

(* The programs without a child, call by call: dup1.c.                     *)
LEMMA Dup1Step ==
  ASSUME FileTypeOK, program = "dup1", program' = program, NEW k \in Nat, at["parent"] = k,
         Dup1State(k), FileCall("parent"), k \in 1 .. 12
  PROVE  FileTypeOK' /\ Dup1State(k + 1)' /\ Called("parent") # "fork"
  <1> USE DEF Numbers, FdNames
  <1>1. CASE k = 1
    <2>1. Called("parent") = "open" /\ Name("parent") = "fd1"
      BY <1>1, CallsAre, Dup1CallList DEF Called, Name
    <2>2. Is(3, 0) /\ (\A m \in 0 .. 2 : ~Is(m, 0)) /\ Len(description) = 1
      BY <1>1 DEF Dup1State, LowTaken, Is, At, Descriptions
    <2>3. Opened("fd1", 3, 2)
      BY <1>1, <2>1, <2>2, ParentOpens
    <2>4. QED
      BY <1>1, <2>1, <2>3
         DEF Opened, Dup1State, LowTaken, Is, At, Descriptions, NumberSet, NameSet,
             PrintsNothing
  <1>2. CASE k = 2
    <2>1. Called("parent") = "dup" /\ Name("parent") = "fd1" /\ Arg("parent") = "fd2"
      BY <1>2, CallsAre, Dup1CallList DEF Called, Name, Arg
    <2>2. fds["fd1"] = 3 /\ Behind("parent") = 2 /\ Len(description) = 2
      BY <1>2, <2>1 DEF Behind, Dup1State, LowTaken, Is, At, Descriptions
    <2>3. Is(4, 0) /\ (\A m \in 0 .. 3 : ~Is(m, 0)) /\ Len(description) = 2
      BY <1>2 DEF Dup1State, LowTaken, Is, At, Descriptions
    <2>4. Duplicated("fd2", 4, 2)
      BY <1>2, <2>1, <2>2, <2>3, ParentDups
    <2>5. QED
      BY <1>2, <2>1, <2>4
         DEF Duplicated, Dup1State, LowTaken, Is, At, Descriptions, NumberSet, NameSet,
             PrintsNothing
  <1>3. CASE k = 3
    <2>1. Called("parent") = "tell" /\ Name("parent") = "fd1"
      BY <1>3, CallsAre, Dup1CallList DEF Called, Name
    <2>2. /\ fds["fd1"] = 3 /\ Behind("parent") = 2 /\ Offset("parent") = 0
          /\ Len(description) = 2
      BY <1>3, <2>1 DEF Behind, Offset, Dup1State, LowTaken, Is, At, Descriptions
    <2>3. Shown(0)
      BY <1>3, <2>1, <2>2, ParentTells
    <2>4. QED
      BY <1>3, <2>1, <2>3
         DEF Shown, Dup1State, LowTaken, Is, At, Descriptions, PrintsOne, Documented
  <1>4. CASE k = 4
    <2>1. Called("parent") = "tell" /\ Name("parent") = "fd2"
      BY <1>4, CallsAre, Dup1CallList DEF Called, Name
    <2>2. /\ fds["fd2"] = 4 /\ Behind("parent") = 2 /\ Offset("parent") = 0
          /\ Len(description) = 2
      BY <1>4, <2>1 DEF Behind, Offset, Dup1State, LowTaken, Is, At, Descriptions
    <2>3. Shown(0)
      BY <1>4, <2>1, <2>2, ParentTells
    <2>4. QED
      BY <1>4, <2>1, <2>3
         DEF Shown, Dup1State, LowTaken, Is, At, Descriptions, PrintsOne, Documented
  <1>5. CASE k = 5
    <2>1. Called("parent") = "write" /\ Name("parent") = "fd1" /\ Arg("parent") = Text(10)
      BY <1>5, CallsAre, Dup1CallList DEF Called, Name, Arg
    <2>2. /\ fds["fd1"] = 3 /\ Behind("parent") = 2 /\ Offset("parent") = 0
          /\ Len(description) = 2
      BY <1>5, <2>1 DEF Behind, Offset, Dup1State, LowTaken, Is, At, Descriptions
    <2>3. Sized(Arg("parent"), 10)
      BY <2>1, TextIs DEF Sized
    <2>4. Written(2, 0, 10, Text(10))
      BY <1>5, <2>1, <2>2, ParentWrites, <2>3
    <2>5. /\ FileTypeOK' /\ PrintsNothing /\ UNCHANGED <<table, fds>>
          /\ Len(description') = 2 /\ description'[2].offset = 10
      BY <2>2, <2>4 DEF Written, OffsetSet
    <2>6. QED
      BY <1>5, <2>1, <2>5 DEF Dup1State, LowTaken, Is, At, Descriptions, PrintsNothing
  <1>6. CASE k = 6
    <2>1. Called("parent") = "tell" /\ Name("parent") = "fd1"
      BY <1>6, CallsAre, Dup1CallList DEF Called, Name
    <2>2. /\ fds["fd1"] = 3 /\ Behind("parent") = 2 /\ Offset("parent") = 10
          /\ Len(description) = 2
      BY <1>6, <2>1 DEF Behind, Offset, Dup1State, LowTaken, Is, At, Descriptions
    <2>3. Shown(10)
      BY <1>6, <2>1, <2>2, ParentTells
    <2>4. QED
      BY <1>6, <2>1, <2>3
         DEF Shown, Dup1State, LowTaken, Is, At, Descriptions, PrintsOne, Documented
  <1>7. CASE k = 7
    <2>1. Called("parent") = "tell" /\ Name("parent") = "fd2"
      BY <1>7, CallsAre, Dup1CallList DEF Called, Name
    <2>2. /\ fds["fd2"] = 4 /\ Behind("parent") = 2 /\ Offset("parent") = 10
          /\ Len(description) = 2
      BY <1>7, <2>1 DEF Behind, Offset, Dup1State, LowTaken, Is, At, Descriptions
    <2>3. Shown(10)
      BY <1>7, <2>1, <2>2, ParentTells
    <2>4. QED
      BY <1>7, <2>1, <2>3
         DEF Shown, Dup1State, LowTaken, Is, At, Descriptions, PrintsOne, Documented
  <1>8. CASE k = 8
    <2>1. Called("parent") = "write" /\ Name("parent") = "fd2" /\ Arg("parent") = Text(10)
      BY <1>8, CallsAre, Dup1CallList DEF Called, Name, Arg
    <2>2. /\ fds["fd2"] = 4 /\ Behind("parent") = 2 /\ Offset("parent") = 10
          /\ Len(description) = 2
      BY <1>8, <2>1 DEF Behind, Offset, Dup1State, LowTaken, Is, At, Descriptions
    <2>3. Sized(Arg("parent"), 10)
      BY <2>1, TextIs DEF Sized
    <2>4. Written(2, 10, 10, Text(10))
      BY <1>8, <2>1, <2>2, ParentWrites, <2>3
    <2>5. /\ FileTypeOK' /\ PrintsNothing /\ UNCHANGED <<table, fds>>
          /\ Len(description') = 2 /\ description'[2].offset = 20
      BY <2>2, <2>4 DEF Written, OffsetSet
    <2>6. QED
      BY <1>8, <2>1, <2>5 DEF Dup1State, LowTaken, Is, At, Descriptions, PrintsNothing
  <1>9. CASE k = 9
    <2>1. Called("parent") = "tell" /\ Name("parent") = "fd1"
      BY <1>9, CallsAre, Dup1CallList DEF Called, Name
    <2>2. /\ fds["fd1"] = 3 /\ Behind("parent") = 2 /\ Offset("parent") = 20
          /\ Len(description) = 2
      BY <1>9, <2>1 DEF Behind, Offset, Dup1State, LowTaken, Is, At, Descriptions
    <2>3. Shown(20)
      BY <1>9, <2>1, <2>2, ParentTells
    <2>4. QED
      BY <1>9, <2>1, <2>3
         DEF Shown, Dup1State, LowTaken, Is, At, Descriptions, PrintsOne, Documented
  <1>10. CASE k = 10
    <2>1. Called("parent") = "tell" /\ Name("parent") = "fd2"
      BY <1>10, CallsAre, Dup1CallList DEF Called, Name
    <2>2. /\ fds["fd2"] = 4 /\ Behind("parent") = 2 /\ Offset("parent") = 20
          /\ Len(description) = 2
      BY <1>10, <2>1 DEF Behind, Offset, Dup1State, LowTaken, Is, At, Descriptions
    <2>3. Shown(20)
      BY <1>10, <2>1, <2>2, ParentTells
    <2>4. QED
      BY <1>10, <2>1, <2>3
         DEF Shown, Dup1State, LowTaken, Is, At, Descriptions, PrintsOne, Documented
  <1>11. CASE k = 11
    <2>1. Called("parent") = "close" /\ Name("parent") = "fd1"
      BY <1>11, CallsAre, Dup1CallList DEF Called, Name
    <2>3. Renumbered(3, 0)
      BY <1>11, <2>1, ParentCloses DEF Dup1State, LowTaken, Is, At, Descriptions
    <2>4. QED
      BY <1>11, <2>1, <2>3
         DEF Renumbered, Dup1State, LowTaken, Is, At, Descriptions, NumberSet, PrintsNothing
  <1>12. CASE k = 12
    <2>1. Called("parent") = "close" /\ Name("parent") = "fd2"
      BY <1>12, CallsAre, Dup1CallList DEF Called, Name
    <2>3. Renumbered(4, 0)
      BY <1>12, <2>1, ParentCloses DEF Dup1State, LowTaken, Is, At, Descriptions
    <2>4. QED
      BY <1>12, <2>1, <2>3
         DEF Renumbered, Dup1State, LowTaken, Is, At, Descriptions, NumberSet, PrintsNothing
  <1>13. QED
    BY <1>1, <1>2, <1>3, <1>4, <1>5, <1>6, <1>7, <1>8, <1>9, <1>10, <1>11, <1>12

(* dup2.c.                                                                 *)
LEMMA Dup2Step ==
  ASSUME FileTypeOK, program = "dup2", program' = program, NEW k \in Nat, at["parent"] = k,
         Dup2State(k), FileCall("parent"), k \in 1 .. 10
  PROVE  FileTypeOK' /\ Dup2State(k + 1)' /\ Called("parent") # "fork"
  <1> USE DEF Numbers, FdNames
  <1>1. CASE k = 1
    <2>1. Called("parent") = "open" /\ Name("parent") = "fd"
      BY <1>1, CallsAre, Dup2CallList DEF Called, Name
    <2>2. Is(3, 0) /\ (\A m \in 0 .. 2 : ~Is(m, 0)) /\ Len(description) = 1
      BY <1>1 DEF Dup2State, TestFileWritten, LowTaken, Is, At, Descriptions
    <2>3. Opened("fd", 3, 2)
      BY <1>1, <2>1, <2>2, ParentOpens
    <2>4. QED
      BY <1>1, <2>1, <2>3
         DEF Opened, Dup2State, TestFileWritten, LowTaken, Is, At, Descriptions, NumberSet,
             NameSet, PrintsNothing
  <1>2. CASE k = 2
    <2>1. Called("parent") = "write" /\ Name("parent") = "fd" /\ Arg("parent") = Text(7)
      BY <1>2, CallsAre, Dup2CallList DEF Called, Name, Arg
    <2>2. /\ fds["fd"] = 3 /\ Behind("parent") = 2 /\ Offset("parent") = 0
          /\ Len(description) = 2
      BY <1>2, <2>1
         DEF Behind, Offset, Dup2State, TestFileWritten, LowTaken, Is, At, Descriptions
    <2>3. Sized(Arg("parent"), 7)
      BY <2>1, TextIs DEF Sized
    <2>4. Written(2, 0, 7, Text(7))
      BY <1>2, <2>1, <2>2, ParentWrites, <2>3
    <2>5. QED
      BY <1>2, <2>1, <2>4, <2>3, TextIs
         DEF Written, Dup2State, TestFileWritten, LowTaken, Is, At, Descriptions, OffsetSet,
             PrintsNothing
  <1>3. CASE k = 3
    <2>1. Called("parent") = "close" /\ Name("parent") = "fd"
      BY <1>3, CallsAre, Dup2CallList DEF Called, Name
    <2>3. Renumbered(3, 0)
      BY <1>3, <2>1, ParentCloses
         DEF Dup2State, TestFileWritten, LowTaken, Is, At, Descriptions
    <2>4. QED
      BY <1>3, <2>1, <2>3
         DEF Renumbered, Dup2State, TestFileWritten, LowTaken, Is, At, Descriptions,
             NumberSet, PrintsNothing
  <1>4. CASE k = 4
    <2>1. Called("parent") = "open" /\ Name("parent") = "fd1"
      BY <1>4, CallsAre, Dup2CallList DEF Called, Name
    <2>2. Is(3, 0) /\ (\A m \in 0 .. 2 : ~Is(m, 0)) /\ Len(description) = 2
      BY <1>4 DEF Dup2State, TestFileWritten, LowTaken, Is, At, Descriptions
    <2>3. Opened("fd1", 3, 3)
      BY <1>4, <2>1, <2>2, ParentOpens
    <2>4. QED
      BY <1>4, <2>1, <2>3
         DEF Opened, Dup2State, TestFileWritten, LowTaken, Is, At, Descriptions, NumberSet,
             NameSet, PrintsNothing
  <1>5. CASE k = 5
    <2>1. Called("parent") = "open" /\ Name("parent") = "fd2"
      BY <1>5, CallsAre, Dup2CallList DEF Called, Name
    <2>2. Is(4, 0) /\ (\A m \in 0 .. 3 : ~Is(m, 0)) /\ Len(description) = 3
      BY <1>5 DEF Dup2State, TestFileWritten, LowTaken, Is, At, Descriptions
    <2>3. Opened("fd2", 4, 4)
      BY <1>5, <2>1, <2>2, ParentOpens
    <2>4. QED
      BY <1>5, <2>1, <2>3
         DEF Opened, Dup2State, TestFileWritten, LowTaken, Is, At, Descriptions, NumberSet,
             NameSet, PrintsNothing
  <1>6. CASE k = 6
    <2>1. Called("parent") = "dup2" /\ Name("parent") = "fd1" /\ Arg("parent") = "fd2"
      BY <1>6, CallsAre, Dup2CallList DEF Called, Name, Arg
    <2>2. fds["fd1"] = 3 /\ Behind("parent") = 3 /\ Len(description) = 4
      BY <1>6, <2>1 DEF Behind, Dup2State, TestFileWritten, LowTaken, Is, At, Descriptions
    <2>3. Renumbered(4, 3)
      BY <1>6, <2>1, <2>2, ParentDup2s
         DEF Dup2State, TestFileWritten, LowTaken, Is, At, Descriptions
    <2>4. QED
      BY <1>6, <2>1, <2>3
         DEF Renumbered, Dup2State, TestFileWritten, LowTaken, Is, At, Descriptions,
             NumberSet, PrintsNothing
  <1>7. CASE k = 7
    <2>1. Called("parent") = "read" /\ Name("parent") = "fd1"
      BY <1>7, CallsAre, Dup2CallList DEF Called, Name
    <2>2. /\ fds["fd1"] = 3 /\ Behind("parent") = 3 /\ Offset("parent") = 0
          /\ file[0] = 1 /\ Len(description) = 4
      BY <1>7, <2>1
         DEF Behind, Offset, Dup2State, TestFileWritten, LowTaken, Is, At, Descriptions
    <2>3. HasRead(3, 0, 1)
      BY <1>7, <2>1, <2>2, ParentReads
    <2>4. QED
      BY <1>7, <2>1, <2>3
         DEF HasRead, Dup2State, TestFileWritten, LowTaken, Is, At, Descriptions, OffsetSet,
             PrintsOne, Documented
  <1>8. CASE k = 8
    <2>1. Called("parent") = "read" /\ Name("parent") = "fd2"
      BY <1>8, CallsAre, Dup2CallList DEF Called, Name
    <2>2. /\ fds["fd2"] = 4 /\ Behind("parent") = 3 /\ Offset("parent") = 1
          /\ file[1] = 2 /\ Len(description) = 4
      BY <1>8, <2>1
         DEF Behind, Offset, Dup2State, TestFileWritten, LowTaken, Is, At, Descriptions
    <2>3. HasRead(3, 1, 2)
      BY <1>8, <2>1, <2>2, ParentReads
    <2>4. QED
      BY <1>8, <2>1, <2>3
         DEF HasRead, Dup2State, TestFileWritten, LowTaken, Is, At, Descriptions, OffsetSet,
             PrintsOne, Documented
  <1>9. CASE k = 9
    <2>1. Called("parent") = "close" /\ Name("parent") = "fd1"
      BY <1>9, CallsAre, Dup2CallList DEF Called, Name
    <2>3. Renumbered(3, 0)
      BY <1>9, <2>1, ParentCloses
         DEF Dup2State, TestFileWritten, LowTaken, Is, At, Descriptions
    <2>4. QED
      BY <1>9, <2>1, <2>3
         DEF Renumbered, Dup2State, TestFileWritten, LowTaken, Is, At, Descriptions,
             NumberSet, PrintsNothing
  <1>10. CASE k = 10
    <2>1. Called("parent") = "close" /\ Name("parent") = "fd2"
      BY <1>10, CallsAre, Dup2CallList DEF Called, Name
    <2>3. Renumbered(4, 0)
      BY <1>10, <2>1, ParentCloses
         DEF Dup2State, TestFileWritten, LowTaken, Is, At, Descriptions
    <2>4. QED
      BY <1>10, <2>1, <2>3
         DEF Renumbered, Dup2State, TestFileWritten, LowTaken, Is, At, Descriptions,
             NumberSet, PrintsNothing
  <1>11. QED
    BY <1>1, <1>2, <1>3, <1>4, <1>5, <1>6, <1>7, <1>8, <1>9, <1>10

(* dup3.c.                                                                 *)
LEMMA Dup3Step ==
  ASSUME FileTypeOK, program = "dup3", program' = program, NEW k \in Nat, at["parent"] = k,
         Dup3State(k), FileCall("parent"), k \in 1 .. 10
  PROVE  FileTypeOK' /\ Dup3State(k + 1)' /\ Called("parent") # "fork"
  <1> USE DEF Numbers, FdNames
  <1>1. CASE k = 1
    <2>1. Called("parent") = "open" /\ Name("parent") = "fd"
      BY <1>1, CallsAre, Dup3CallList DEF Called, Name
    <2>2. Is(3, 0) /\ (\A m \in 0 .. 2 : ~Is(m, 0)) /\ Len(description) = 1
      BY <1>1 DEF Dup3State, TestFileWritten, LowTaken, Is, At, Descriptions
    <2>3. Opened("fd", 3, 2)
      BY <1>1, <2>1, <2>2, ParentOpens
    <2>4. QED
      BY <1>1, <2>1, <2>3
         DEF Opened, Dup3State, TestFileWritten, LowTaken, Is, At, Descriptions, NumberSet,
             NameSet, PrintsNothing
  <1>2. CASE k = 2
    <2>1. Called("parent") = "write" /\ Name("parent") = "fd" /\ Arg("parent") = Text(7)
      BY <1>2, CallsAre, Dup3CallList DEF Called, Name, Arg
    <2>2. /\ fds["fd"] = 3 /\ Behind("parent") = 2 /\ Offset("parent") = 0
          /\ Len(description) = 2
      BY <1>2, <2>1
         DEF Behind, Offset, Dup3State, TestFileWritten, LowTaken, Is, At, Descriptions
    <2>3. Sized(Arg("parent"), 7)
      BY <2>1, TextIs DEF Sized
    <2>4. Written(2, 0, 7, Text(7))
      BY <1>2, <2>1, <2>2, ParentWrites, <2>3
    <2>5. QED
      BY <1>2, <2>1, <2>4, <2>3, TextIs
         DEF Written, Dup3State, TestFileWritten, LowTaken, Is, At, Descriptions, OffsetSet,
             PrintsNothing
  <1>3. CASE k = 3
    <2>1. Called("parent") = "close" /\ Name("parent") = "fd"
      BY <1>3, CallsAre, Dup3CallList DEF Called, Name
    <2>3. Renumbered(3, 0)
      BY <1>3, <2>1, ParentCloses
         DEF Dup3State, TestFileWritten, LowTaken, Is, At, Descriptions
    <2>4. QED
      BY <1>3, <2>1, <2>3
         DEF Renumbered, Dup3State, TestFileWritten, LowTaken, Is, At, Descriptions,
             NumberSet, PrintsNothing
  <1>4. CASE k = 4
    <2>1. Called("parent") = "open" /\ Name("parent") = "fd1"
      BY <1>4, CallsAre, Dup3CallList DEF Called, Name
    <2>2. Is(3, 0) /\ (\A m \in 0 .. 2 : ~Is(m, 0)) /\ Len(description) = 2
      BY <1>4 DEF Dup3State, TestFileWritten, LowTaken, Is, At, Descriptions
    <2>3. Opened("fd1", 3, 3)
      BY <1>4, <2>1, <2>2, ParentOpens
    <2>4. QED
      BY <1>4, <2>1, <2>3
         DEF Opened, Dup3State, TestFileWritten, LowTaken, Is, At, Descriptions, NumberSet,
             NameSet, PrintsNothing
  <1>5. CASE k = 5
    <2>1. Called("parent") = "open" /\ Name("parent") = "fd2"
      BY <1>5, CallsAre, Dup3CallList DEF Called, Name
    <2>2. Is(4, 0) /\ (\A m \in 0 .. 3 : ~Is(m, 0)) /\ Len(description) = 3
      BY <1>5 DEF Dup3State, TestFileWritten, LowTaken, Is, At, Descriptions
    <2>3. Opened("fd2", 4, 4)
      BY <1>5, <2>1, <2>2, ParentOpens
    <2>4. QED
      BY <1>5, <2>1, <2>3
         DEF Opened, Dup3State, TestFileWritten, LowTaken, Is, At, Descriptions, NumberSet,
             NameSet, PrintsNothing
  <1>6. CASE k = 6
    <2>1. Called("parent") = "dup2" /\ Name("parent") = "fd1" /\ Arg("parent") = "fd2"
      BY <1>6, CallsAre, Dup3CallList DEF Called, Name, Arg
    <2>2. fds["fd1"] = 3 /\ Behind("parent") = 3 /\ Len(description) = 4
      BY <1>6, <2>1 DEF Behind, Dup3State, TestFileWritten, LowTaken, Is, At, Descriptions
    <2>3. Renumbered(4, 3)
      BY <1>6, <2>1, <2>2, ParentDup2s
         DEF Dup3State, TestFileWritten, LowTaken, Is, At, Descriptions
    <2>4. QED
      BY <1>6, <2>1, <2>3
         DEF Renumbered, Dup3State, TestFileWritten, LowTaken, Is, At, Descriptions,
             NumberSet, PrintsNothing
  <1>7. CASE k = 7
    <2>1. Called("parent") = "read" /\ Name("parent") = "fd1"
      BY <1>7, CallsAre, Dup3CallList DEF Called, Name
    <2>2. /\ fds["fd1"] = 3 /\ Behind("parent") = 3 /\ Offset("parent") = 0
          /\ file[0] = 1 /\ Len(description) = 4
      BY <1>7, <2>1
         DEF Behind, Offset, Dup3State, TestFileWritten, LowTaken, Is, At, Descriptions
    <2>3. HasRead(3, 0, 1)
      BY <1>7, <2>1, <2>2, ParentReads
    <2>4. QED
      BY <1>7, <2>1, <2>3
         DEF HasRead, Dup3State, TestFileWritten, LowTaken, Is, At, Descriptions, OffsetSet,
             PrintsOne, Documented
  <1>8. CASE k = 8
    <2>1. Called("parent") = "close" /\ Name("parent") = "fd1"
      BY <1>8, CallsAre, Dup3CallList DEF Called, Name
    <2>3. Renumbered(3, 0)
      BY <1>8, <2>1, ParentCloses
         DEF Dup3State, TestFileWritten, LowTaken, Is, At, Descriptions
    <2>4. QED
      BY <1>8, <2>1, <2>3
         DEF Renumbered, Dup3State, TestFileWritten, LowTaken, Is, At, Descriptions,
             NumberSet, PrintsNothing
  <1>9. CASE k = 9
    <2>1. Called("parent") = "read" /\ Name("parent") = "fd2"
      BY <1>9, CallsAre, Dup3CallList DEF Called, Name
    <2>2. /\ fds["fd2"] = 4 /\ Behind("parent") = 3 /\ Offset("parent") = 1
          /\ file[1] = 2 /\ Len(description) = 4
      BY <1>9, <2>1
         DEF Behind, Offset, Dup3State, TestFileWritten, LowTaken, Is, At, Descriptions
    <2>3. HasRead(3, 1, 2)
      BY <1>9, <2>1, <2>2, ParentReads
    <2>4. QED
      BY <1>9, <2>1, <2>3
         DEF HasRead, Dup3State, TestFileWritten, LowTaken, Is, At, Descriptions, OffsetSet,
             PrintsOne, Documented
  <1>10. CASE k = 10
    <2>1. Called("parent") = "close" /\ Name("parent") = "fd2"
      BY <1>10, CallsAre, Dup3CallList DEF Called, Name
    <2>3. Renumbered(4, 0)
      BY <1>10, <2>1, ParentCloses
         DEF Dup3State, TestFileWritten, LowTaken, Is, At, Descriptions
    <2>4. QED
      BY <1>10, <2>1, <2>3
         DEF Renumbered, Dup3State, TestFileWritten, LowTaken, Is, At, Descriptions,
             NumberSet, PrintsNothing
  <1>11. QED
    BY <1>1, <1>2, <1>3, <1>4, <1>5, <1>6, <1>7, <1>8, <1>9, <1>10

(* open1.c.                                                                *)
LEMMA Open1Step ==
  ASSUME FileTypeOK, program = "open1", program' = program, NEW k \in Nat, at["parent"] = k,
         Open1State(k), FileCall("parent"), k \in 1 .. 6
  PROVE  FileTypeOK' /\ Open1State(k + 1)' /\ Called("parent") # "fork"
  <1> USE DEF Numbers, FdNames
  <1>1. CASE k = 1
    <2>1. Called("parent") = "open" /\ Name("parent") = "fd1"
      BY <1>1, CallsAre, Open1CallList DEF Called, Name
    <2>2. Is(3, 0) /\ (\A m \in 0 .. 2 : ~Is(m, 0)) /\ Len(description) = 1
      BY <1>1 DEF Open1State, LowTaken, Is, At, Descriptions
    <2>3. Opened("fd1", 3, 2)
      BY <1>1, <2>1, <2>2, ParentOpens
    <2>4. QED
      BY <1>1, <2>1, <2>3
         DEF Opened, Open1State, LowTaken, Is, At, Descriptions, NumberSet, NameSet,
             PrintsNothing
  <1>2. CASE k = 2
    <2>1. Called("parent") = "show" /\ Name("parent") = "fd1"
      BY <1>2, CallsAre, Open1CallList DEF Called, Name
    <2>2. fds["fd1"] = 3
      BY <1>2, <2>1 DEF Open1State, LowTaken, Is, At, Descriptions
    <2>3. Shown(3)
      BY <1>2, <2>1, <2>2, ParentShowsNumber
    <2>4. QED
      BY <1>2, <2>1, <2>3
         DEF Shown, Open1State, LowTaken, Is, At, Descriptions, PrintsOne, Documented
  <1>3. CASE k = 3
    <2>1. Called("parent") = "close" /\ Name("parent") = "fd1"
      BY <1>3, CallsAre, Open1CallList DEF Called, Name
    <2>3. Renumbered(3, 0)
      BY <1>3, <2>1, ParentCloses DEF Open1State, LowTaken, Is, At, Descriptions
    <2>4. QED
      BY <1>3, <2>1, <2>3
         DEF Renumbered, Open1State, LowTaken, Is, At, Descriptions, NumberSet,
             PrintsNothing
  <1>4. CASE k = 4
    <2>1. Called("parent") = "open" /\ Name("parent") = "fd2"
      BY <1>4, CallsAre, Open1CallList DEF Called, Name
    <2>2. Is(3, 0) /\ (\A m \in 0 .. 2 : ~Is(m, 0)) /\ Len(description) = 2
      BY <1>4 DEF Open1State, LowTaken, Is, At, Descriptions
    <2>3. Opened("fd2", 3, 3)
      BY <1>4, <2>1, <2>2, ParentOpens
    <2>4. QED
      BY <1>4, <2>1, <2>3
         DEF Opened, Open1State, LowTaken, Is, At, Descriptions, NumberSet, NameSet,
             PrintsNothing
  <1>5. CASE k = 5
    <2>1. Called("parent") = "show" /\ Name("parent") = "fd2"
      BY <1>5, CallsAre, Open1CallList DEF Called, Name
    <2>2. fds["fd2"] = 3
      BY <1>5, <2>1 DEF Open1State, LowTaken, Is, At, Descriptions
    <2>3. Shown(3)
      BY <1>5, <2>1, <2>2, ParentShowsNumber
    <2>4. QED
      BY <1>5, <2>1, <2>3
         DEF Shown, Open1State, LowTaken, Is, At, Descriptions, PrintsOne, Documented
  <1>6. CASE k = 6
    <2>1. Called("parent") = "close" /\ Name("parent") = "fd2"
      BY <1>6, CallsAre, Open1CallList DEF Called, Name
    <2>3. Renumbered(3, 0)
      BY <1>6, <2>1, ParentCloses DEF Open1State, LowTaken, Is, At, Descriptions
    <2>4. QED
      BY <1>6, <2>1, <2>3
         DEF Renumbered, Open1State, LowTaken, Is, At, Descriptions, NumberSet,
             PrintsNothing
  <1>7. QED
    BY <1>1, <1>2, <1>3, <1>4, <1>5, <1>6

(* open2.c.                                                                *)
LEMMA Open2Step ==
  ASSUME FileTypeOK, program = "open2", program' = program, NEW k \in Nat, at["parent"] = k,
         Open2State(k), FileCall("parent"), k \in 1 .. 8
  PROVE  FileTypeOK' /\ Open2State(k + 1)' /\ Called("parent") # "fork"
  <1> USE DEF Numbers, FdNames
  <1>1. CASE k = 1
    <2>1. Called("parent") = "close" /\ Name("parent") = "stdin"
      BY <1>1, CallsAre, Open2CallList DEF Called, Name
    <2>3. Renumbered(0, 0)
      BY <1>1, <2>1, ParentCloses DEF Open2State, Is, At, Descriptions
    <2>4. QED
      BY <1>1, <2>1, <2>3
         DEF Renumbered, Open2State, Is, At, Descriptions, NumberSet, PrintsNothing
  <1>2. CASE k = 2
    <2>1. Called("parent") = "close" /\ Name("parent") = "stderr"
      BY <1>2, CallsAre, Open2CallList DEF Called, Name
    <2>3. Renumbered(2, 0)
      BY <1>2, <2>1, ParentCloses DEF Open2State, Is, At, Descriptions
    <2>4. QED
      BY <1>2, <2>1, <2>3
         DEF Renumbered, Open2State, Is, At, Descriptions, NumberSet, PrintsNothing
  <1>3. CASE k = 3
    <2>1. Called("parent") = "open" /\ Name("parent") = "fd1"
      BY <1>3, CallsAre, Open2CallList DEF Called, Name
    <2>2. Is(0, 0) /\ (\A m \in 0 .. -1 : ~Is(m, 0)) /\ Len(description) = 1
      BY <1>3 DEF Open2State, Is, At, Descriptions
    <2>3. Opened("fd1", 0, 2)
      BY <1>3, <2>1, <2>2, ParentOpens
    <2>4. QED
      BY <1>3, <2>1, <2>3
         DEF Opened, Open2State, Is, At, Descriptions, NumberSet, NameSet, PrintsNothing
  <1>4. CASE k = 4
    <2>1. Called("parent") = "show" /\ Name("parent") = "fd1"
      BY <1>4, CallsAre, Open2CallList DEF Called, Name
    <2>2. fds["fd1"] = 0
      BY <1>4, <2>1 DEF Open2State, Is, At, Descriptions
    <2>3. Shown(0)
      BY <1>4, <2>1, <2>2, ParentShowsNumber
    <2>4. QED
      BY <1>4, <2>1, <2>3 DEF Shown, Open2State, Is, At, Descriptions, PrintsOne, Documented
  <1>5. CASE k = 5
    <2>1. Called("parent") = "open" /\ Name("parent") = "fd2"
      BY <1>5, CallsAre, Open2CallList DEF Called, Name
    <2>2. Is(2, 0) /\ (\A m \in 0 .. 1 : ~Is(m, 0)) /\ Len(description) = 2
      BY <1>5 DEF Open2State, Is, At, Descriptions
    <2>3. Opened("fd2", 2, 3)
      BY <1>5, <2>1, <2>2, ParentOpens
    <2>4. QED
      BY <1>5, <2>1, <2>3
         DEF Opened, Open2State, Is, At, Descriptions, NumberSet, NameSet, PrintsNothing
  <1>6. CASE k = 6
    <2>1. Called("parent") = "show" /\ Name("parent") = "fd2"
      BY <1>6, CallsAre, Open2CallList DEF Called, Name
    <2>2. fds["fd2"] = 2
      BY <1>6, <2>1 DEF Open2State, Is, At, Descriptions
    <2>3. Shown(2)
      BY <1>6, <2>1, <2>2, ParentShowsNumber
    <2>4. QED
      BY <1>6, <2>1, <2>3 DEF Shown, Open2State, Is, At, Descriptions, PrintsOne, Documented
  <1>7. CASE k = 7
    <2>1. Called("parent") = "close" /\ Name("parent") = "fd1"
      BY <1>7, CallsAre, Open2CallList DEF Called, Name
    <2>3. Renumbered(0, 0)
      BY <1>7, <2>1, ParentCloses DEF Open2State, Is, At, Descriptions
    <2>4. QED
      BY <1>7, <2>1, <2>3
         DEF Renumbered, Open2State, Is, At, Descriptions, NumberSet, PrintsNothing
  <1>8. CASE k = 8
    <2>1. Called("parent") = "close" /\ Name("parent") = "fd2"
      BY <1>8, CallsAre, Open2CallList DEF Called, Name
    <2>3. Renumbered(2, 0)
      BY <1>8, <2>1, ParentCloses DEF Open2State, Is, At, Descriptions
    <2>4. QED
      BY <1>8, <2>1, <2>3
         DEF Renumbered, Open2State, Is, At, Descriptions, NumberSet, PrintsNothing
  <1>9. QED
    BY <1>1, <1>2, <1>3, <1>4, <1>5, <1>6, <1>7, <1>8

(* open3.c.                                                                *)
LEMMA Open3Step ==
  ASSUME FileTypeOK, program = "open3", program' = program, NEW k \in Nat, at["parent"] = k,
         Open3State(k), FileCall("parent"), k \in 1 .. 13
  PROVE  FileTypeOK' /\ Open3State(k + 1)' /\ Called("parent") # "fork"
  <1> USE DEF Numbers, FdNames
  <1>1. CASE k = 1
    <2>1. Called("parent") = "open" /\ Name("parent") = "fd"
      BY <1>1, CallsAre, Open3CallList DEF Called, Name
    <2>2. Is(3, 0) /\ (\A m \in 0 .. 2 : ~Is(m, 0)) /\ Len(description) = 1
      BY <1>1 DEF Open3State, TestFileWritten, LowTaken, Is, At, Descriptions
    <2>3. Opened("fd", 3, 2)
      BY <1>1, <2>1, <2>2, ParentOpens
    <2>4. QED
      BY <1>1, <2>1, <2>3
         DEF Opened, Open3State, TestFileWritten, LowTaken, Is, At, Descriptions, NumberSet,
             NameSet, PrintsNothing
  <1>2. CASE k = 2
    <2>1. Called("parent") = "write" /\ Name("parent") = "fd" /\ Arg("parent") = Text(7)
      BY <1>2, CallsAre, Open3CallList DEF Called, Name, Arg
    <2>2. /\ fds["fd"] = 3 /\ Behind("parent") = 2 /\ Offset("parent") = 0
          /\ Len(description) = 2
      BY <1>2, <2>1
         DEF Behind, Offset, Open3State, TestFileWritten, LowTaken, Is, At, Descriptions
    <2>3. Sized(Arg("parent"), 7)
      BY <2>1, TextIs DEF Sized
    <2>4. Written(2, 0, 7, Text(7))
      BY <1>2, <2>1, <2>2, ParentWrites, <2>3
    <2>5. QED
      BY <1>2, <2>1, <2>4, <2>3, TextIs
         DEF Written, Open3State, TestFileWritten, LowTaken, Is, At, Descriptions,
             OffsetSet, PrintsNothing
  <1>3. CASE k = 3
    <2>1. Called("parent") = "close" /\ Name("parent") = "fd"
      BY <1>3, CallsAre, Open3CallList DEF Called, Name
    <2>3. Renumbered(3, 0)
      BY <1>3, <2>1, ParentCloses
         DEF Open3State, TestFileWritten, LowTaken, Is, At, Descriptions
    <2>4. QED
      BY <1>3, <2>1, <2>3
         DEF Renumbered, Open3State, TestFileWritten, LowTaken, Is, At, Descriptions,
             NumberSet, PrintsNothing
  <1>4. CASE k = 4
    <2>1. Called("parent") = "open" /\ Name("parent") = "fd1"
      BY <1>4, CallsAre, Open3CallList DEF Called, Name
    <2>2. Is(3, 0) /\ (\A m \in 0 .. 2 : ~Is(m, 0)) /\ Len(description) = 2
      BY <1>4 DEF Open3State, TestFileWritten, LowTaken, Is, At, Descriptions
    <2>3. Opened("fd1", 3, 3)
      BY <1>4, <2>1, <2>2, ParentOpens
    <2>4. QED
      BY <1>4, <2>1, <2>3
         DEF Opened, Open3State, TestFileWritten, LowTaken, Is, At, Descriptions, NumberSet,
             NameSet, PrintsNothing
  <1>5. CASE k = 5
    <2>1. Called("parent") = "open" /\ Name("parent") = "fd2"
      BY <1>5, CallsAre, Open3CallList DEF Called, Name
    <2>2. Is(4, 0) /\ (\A m \in 0 .. 3 : ~Is(m, 0)) /\ Len(description) = 3
      BY <1>5 DEF Open3State, TestFileWritten, LowTaken, Is, At, Descriptions
    <2>3. Opened("fd2", 4, 4)
      BY <1>5, <2>1, <2>2, ParentOpens
    <2>4. QED
      BY <1>5, <2>1, <2>3
         DEF Opened, Open3State, TestFileWritten, LowTaken, Is, At, Descriptions, NumberSet,
             NameSet, PrintsNothing
  <1>6. CASE k = 6
    <2>1. Called("parent") = "read" /\ Name("parent") = "fd1"
      BY <1>6, CallsAre, Open3CallList DEF Called, Name
    <2>2. /\ fds["fd1"] = 3 /\ Behind("parent") = 3 /\ Offset("parent") = 0
          /\ file[0] = 1 /\ Len(description) = 4
      BY <1>6, <2>1
         DEF Behind, Offset, Open3State, TestFileWritten, LowTaken, Is, At, Descriptions
    <2>3. HasRead(3, 0, 1)
      BY <1>6, <2>1, <2>2, ParentReads
    <2>4. QED
      BY <1>6, <2>1, <2>3
         DEF HasRead, Open3State, TestFileWritten, LowTaken, Is, At, Descriptions,
             OffsetSet, PrintsOne, Documented
  <1>7. CASE k = 7
    <2>1. Called("parent") = "read" /\ Name("parent") = "fd2"
      BY <1>7, CallsAre, Open3CallList DEF Called, Name
    <2>2. /\ fds["fd2"] = 4 /\ Behind("parent") = 4 /\ Offset("parent") = 0
          /\ file[0] = 1 /\ Len(description) = 4
      BY <1>7, <2>1
         DEF Behind, Offset, Open3State, TestFileWritten, LowTaken, Is, At, Descriptions
    <2>3. HasRead(4, 0, 1)
      BY <1>7, <2>1, <2>2, ParentReads
    <2>4. QED
      BY <1>7, <2>1, <2>3
         DEF HasRead, Open3State, TestFileWritten, LowTaken, Is, At, Descriptions,
             OffsetSet, PrintsOne, Documented
  <1>8. CASE k = 8
    <2>1. Called("parent") = "open" /\ Name("parent") = "fd3"
      BY <1>8, CallsAre, Open3CallList DEF Called, Name
    <2>2. Is(5, 0) /\ (\A m \in 0 .. 4 : ~Is(m, 0)) /\ Len(description) = 4
      BY <1>8 DEF Open3State, TestFileWritten, LowTaken, Is, At, Descriptions
    <2>3. Opened("fd3", 5, 5)
      BY <1>8, <2>1, <2>2, ParentOpens
    <2>4. QED
      BY <1>8, <2>1, <2>3
         DEF Opened, Open3State, TestFileWritten, LowTaken, Is, At, Descriptions, NumberSet,
             NameSet, PrintsNothing
  <1>9. CASE k = 9
    <2>1. Called("parent") = "read" /\ Name("parent") = "fd3"
      BY <1>9, CallsAre, Open3CallList DEF Called, Name
    <2>2. /\ fds["fd3"] = 5 /\ Behind("parent") = 5 /\ Offset("parent") = 0
          /\ file[0] = 1 /\ Len(description) = 5
      BY <1>9, <2>1
         DEF Behind, Offset, Open3State, TestFileWritten, LowTaken, Is, At, Descriptions
    <2>3. HasRead(5, 0, 1)
      BY <1>9, <2>1, <2>2, ParentReads
    <2>4. QED
      BY <1>9, <2>1, <2>3
         DEF HasRead, Open3State, TestFileWritten, LowTaken, Is, At, Descriptions,
             OffsetSet, PrintsOne, Documented
  <1>10. CASE k = 10
    <2>1. Called("parent") = "read" /\ Name("parent") = "fd1"
      BY <1>10, CallsAre, Open3CallList DEF Called, Name
    <2>2. /\ fds["fd1"] = 3 /\ Behind("parent") = 3 /\ Offset("parent") = 1
          /\ file[1] = 2 /\ Len(description) = 5
      BY <1>10, <2>1
         DEF Behind, Offset, Open3State, TestFileWritten, LowTaken, Is, At, Descriptions
    <2>3. HasRead(3, 1, 2)
      BY <1>10, <2>1, <2>2, ParentReads
    <2>4. QED
      BY <1>10, <2>1, <2>3
         DEF HasRead, Open3State, TestFileWritten, LowTaken, Is, At, Descriptions,
             OffsetSet, PrintsOne, Documented
  <1>11. CASE k = 11
    <2>1. Called("parent") = "close" /\ Name("parent") = "fd1"
      BY <1>11, CallsAre, Open3CallList DEF Called, Name
    <2>3. Renumbered(3, 0)
      BY <1>11, <2>1, ParentCloses
         DEF Open3State, TestFileWritten, LowTaken, Is, At, Descriptions
    <2>4. QED
      BY <1>11, <2>1, <2>3
         DEF Renumbered, Open3State, TestFileWritten, LowTaken, Is, At, Descriptions,
             NumberSet, PrintsNothing
  <1>12. CASE k = 12
    <2>1. Called("parent") = "close" /\ Name("parent") = "fd2"
      BY <1>12, CallsAre, Open3CallList DEF Called, Name
    <2>3. Renumbered(4, 0)
      BY <1>12, <2>1, ParentCloses
         DEF Open3State, TestFileWritten, LowTaken, Is, At, Descriptions
    <2>4. QED
      BY <1>12, <2>1, <2>3
         DEF Renumbered, Open3State, TestFileWritten, LowTaken, Is, At, Descriptions,
             NumberSet, PrintsNothing
  <1>13. CASE k = 13
    <2>1. Called("parent") = "close" /\ Name("parent") = "fd3"
      BY <1>13, CallsAre, Open3CallList DEF Called, Name
    <2>3. Renumbered(5, 0)
      BY <1>13, <2>1, ParentCloses
         DEF Open3State, TestFileWritten, LowTaken, Is, At, Descriptions
    <2>4. QED
      BY <1>13, <2>1, <2>3
         DEF Renumbered, Open3State, TestFileWritten, LowTaken, Is, At, Descriptions,
             NumberSet, PrintsNothing
  <1>14. QED
    BY <1>1, <1>2, <1>3, <1>4, <1>5, <1>6, <1>7, <1>8, <1>9, <1>10, <1>11, <1>12, <1>13

(* open4.c.                                                                *)
LEMMA Open4Step ==
  ASSUME FileTypeOK, program = "open4", program' = program, NEW k \in Nat, at["parent"] = k,
         Open4State(k), FileCall("parent"), k \in 1 .. 11
  PROVE  FileTypeOK' /\ Open4State(k + 1)' /\ Called("parent") # "fork"
  <1> USE DEF Numbers, FdNames
  <1>1. CASE k = 1
    <2>1. Called("parent") = "open" /\ Name("parent") = "fd"
      BY <1>1, CallsAre, Open4CallList DEF Called, Name
    <2>2. Is(3, 0) /\ (\A m \in 0 .. 2 : ~Is(m, 0)) /\ Len(description) = 1
      BY <1>1 DEF Open4State, TestFileWritten, LowTaken, Is, At, Descriptions
    <2>3. Opened("fd", 3, 2)
      BY <1>1, <2>1, <2>2, ParentOpens
    <2>4. QED
      BY <1>1, <2>1, <2>3
         DEF Opened, Open4State, TestFileWritten, LowTaken, Is, At, Descriptions, NumberSet,
             NameSet, PrintsNothing
  <1>2. CASE k = 2
    <2>1. Called("parent") = "write" /\ Name("parent") = "fd" /\ Arg("parent") = Text(7)
      BY <1>2, CallsAre, Open4CallList DEF Called, Name, Arg
    <2>2. /\ fds["fd"] = 3 /\ Behind("parent") = 2 /\ Offset("parent") = 0
          /\ Len(description) = 2
      BY <1>2, <2>1
         DEF Behind, Offset, Open4State, TestFileWritten, LowTaken, Is, At, Descriptions
    <2>3. Sized(Arg("parent"), 7)
      BY <2>1, TextIs DEF Sized
    <2>4. Written(2, 0, 7, Text(7))
      BY <1>2, <2>1, <2>2, ParentWrites, <2>3
    <2>5. QED
      BY <1>2, <2>1, <2>4, <2>3, TextIs
         DEF Written, Open4State, TestFileWritten, LowTaken, Is, At, Descriptions,
             OffsetSet, PrintsNothing
  <1>3. CASE k = 3
    <2>1. Called("parent") = "close" /\ Name("parent") = "fd"
      BY <1>3, CallsAre, Open4CallList DEF Called, Name
    <2>3. Renumbered(3, 0)
      BY <1>3, <2>1, ParentCloses
         DEF Open4State, TestFileWritten, LowTaken, Is, At, Descriptions
    <2>4. QED
      BY <1>3, <2>1, <2>3
         DEF Renumbered, Open4State, TestFileWritten, LowTaken, Is, At, Descriptions,
             NumberSet, PrintsNothing
  <1>4. CASE k = 4
    <2>1. Called("parent") = "open" /\ Name("parent") = "fd1"
      BY <1>4, CallsAre, Open4CallList DEF Called, Name
    <2>2. Is(3, 0) /\ (\A m \in 0 .. 2 : ~Is(m, 0)) /\ Len(description) = 2
      BY <1>4 DEF Open4State, TestFileWritten, LowTaken, Is, At, Descriptions
    <2>3. Opened("fd1", 3, 3)
      BY <1>4, <2>1, <2>2, ParentOpens
    <2>4. QED
      BY <1>4, <2>1, <2>3
         DEF Opened, Open4State, TestFileWritten, LowTaken, Is, At, Descriptions, NumberSet,
             NameSet, PrintsNothing
  <1>5. CASE k = 5
    <2>1. Called("parent") = "open" /\ Name("parent") = "fd2"
      BY <1>5, CallsAre, Open4CallList DEF Called, Name
    <2>2. Is(4, 0) /\ (\A m \in 0 .. 3 : ~Is(m, 0)) /\ Len(description) = 3
      BY <1>5 DEF Open4State, TestFileWritten, LowTaken, Is, At, Descriptions
    <2>3. Opened("fd2", 4, 4)
      BY <1>5, <2>1, <2>2, ParentOpens
    <2>4. QED
      BY <1>5, <2>1, <2>3
         DEF Opened, Open4State, TestFileWritten, LowTaken, Is, At, Descriptions, NumberSet,
             NameSet, PrintsNothing
  <1>6. CASE k = 6
    <2>1. Called("parent") = "read" /\ Name("parent") = "fd1"
      BY <1>6, CallsAre, Open4CallList DEF Called, Name
    <2>2. /\ fds["fd1"] = 3 /\ Behind("parent") = 3 /\ Offset("parent") = 0
          /\ file[0] = 1 /\ Len(description) = 4
      BY <1>6, <2>1
         DEF Behind, Offset, Open4State, TestFileWritten, LowTaken, Is, At, Descriptions
    <2>3. HasRead(3, 0, 1)
      BY <1>6, <2>1, <2>2, ParentReads
    <2>4. QED
      BY <1>6, <2>1, <2>3
         DEF HasRead, Open4State, TestFileWritten, LowTaken, Is, At, Descriptions,
             OffsetSet, PrintsOne, Documented
  <1>7. CASE k = 7
    <2>1. Called("parent") = "read" /\ Name("parent") = "fd2"
      BY <1>7, CallsAre, Open4CallList DEF Called, Name
    <2>2. /\ fds["fd2"] = 4 /\ Behind("parent") = 4 /\ Offset("parent") = 0
          /\ file[0] = 1 /\ Len(description) = 4
      BY <1>7, <2>1
         DEF Behind, Offset, Open4State, TestFileWritten, LowTaken, Is, At, Descriptions
    <2>3. HasRead(4, 0, 1)
      BY <1>7, <2>1, <2>2, ParentReads
    <2>4. QED
      BY <1>7, <2>1, <2>3
         DEF HasRead, Open4State, TestFileWritten, LowTaken, Is, At, Descriptions,
             OffsetSet, PrintsOne, Documented
  <1>8. CASE k = 8
    <2>1. Called("parent") = "write" /\ Name("parent") = "fd1" /\ Arg("parent") = <<X>>
      BY <1>8, CallsAre, Open4CallList DEF Called, Name, Arg
    <2>2. /\ fds["fd1"] = 3 /\ Behind("parent") = 3 /\ Offset("parent") = 1
          /\ Len(description) = 4
      BY <1>8, <2>1
         DEF Behind, Offset, Open4State, TestFileWritten, LowTaken, Is, At, Descriptions
    <2>3. Sized(Arg("parent"), 1)
      BY <2>1, TextIs DEF Sized
    <2>4. Written(3, 1, 1, <<X>>)
      BY <1>8, <2>1, <2>2, ParentWrites, <2>3
    <2>5. QED
      BY <1>8, <2>1, <2>4
         DEF Written, Open4State, TestFileWritten, LowTaken, Is, At, Descriptions,
             OffsetSet, PrintsNothing
  <1>9. CASE k = 9
    <2>1. Called("parent") = "read" /\ Name("parent") = "fd2"
      BY <1>9, CallsAre, Open4CallList DEF Called, Name
    <2>2. /\ fds["fd2"] = 4 /\ Behind("parent") = 4 /\ Offset("parent") = 1
          /\ file[1] = X /\ Len(description) = 4
      BY <1>9, <2>1
         DEF Behind, Offset, Open4State, TestFileWritten, LowTaken, Is, At, Descriptions, X
    <2>3. HasRead(4, 1, X)
      BY <1>9, <2>1, <2>2, ParentReads DEF X
    <2>4. QED
      BY <1>9, <2>1, <2>3
         DEF HasRead, Open4State, TestFileWritten, LowTaken, Is, At, Descriptions,
             OffsetSet, PrintsOne, Documented
  <1>10. CASE k = 10
    <2>1. Called("parent") = "close" /\ Name("parent") = "fd1"
      BY <1>10, CallsAre, Open4CallList DEF Called, Name
    <2>3. Renumbered(3, 0)
      BY <1>10, <2>1, ParentCloses
         DEF Open4State, TestFileWritten, LowTaken, Is, At, Descriptions
    <2>4. QED
      BY <1>10, <2>1, <2>3
         DEF Renumbered, Open4State, TestFileWritten, LowTaken, Is, At, Descriptions,
             NumberSet, PrintsNothing
  <1>11. CASE k = 11
    <2>1. Called("parent") = "close" /\ Name("parent") = "fd2"
      BY <1>11, CallsAre, Open4CallList DEF Called, Name
    <2>3. Renumbered(4, 0)
      BY <1>11, <2>1, ParentCloses
         DEF Open4State, TestFileWritten, LowTaken, Is, At, Descriptions
    <2>4. QED
      BY <1>11, <2>1, <2>3
         DEF Renumbered, Open4State, TestFileWritten, LowTaken, Is, At, Descriptions,
             NumberSet, PrintsNothing
  <1>12. QED
    BY <1>1, <1>2, <1>3, <1>4, <1>5, <1>6, <1>7, <1>8, <1>9, <1>10, <1>11

(* hole.c.                                                                 *)
LEMMA HoleStep ==
  ASSUME FileTypeOK, program = "hole", program' = program, NEW k \in Nat, at["parent"] = k,
         HoleState(k), FileCall("parent"), k \in 1 .. 6
  PROVE  FileTypeOK' /\ HoleState(k + 1)' /\ Called("parent") # "fork"
  <1> USE DEF Numbers, FdNames
  <1>1. CASE k = 1
    <2>1. Called("parent") = "open" /\ Name("parent") = "fd"
      BY <1>1, CallsAre, HoleCallList DEF Called, Name
    <2>2. Is(3, 0) /\ (\A m \in 0 .. 2 : ~Is(m, 0)) /\ Len(description) = 1
      BY <1>1 DEF HoleState, OneOpen, LowTaken, Is, At, Descriptions
    <2>3. Opened("fd", 3, 2)
      BY <1>1, <2>1, <2>2, ParentOpens
    <2>4. QED
      BY <1>1, <2>1, <2>3
         DEF Opened, HoleState, OneOpen, LowTaken, Is, At, Descriptions, NumberSet, NameSet,
             PrintsNothing
  <1>2. CASE k = 2
    <2>1. Called("parent") = "write" /\ Name("parent") = "fd" /\ Arg("parent") = Text(10)
      BY <1>2, CallsAre, HoleCallList DEF Called, Name, Arg
    <2>2. /\ fds["fd"] = 3 /\ Behind("parent") = 2 /\ Offset("parent") = 0
          /\ Len(description) = 2
      BY <1>2, <2>1 DEF Behind, Offset, HoleState, OneOpen, LowTaken, Is, At, Descriptions
    <2>3. Sized(Arg("parent"), 10)
      BY <2>1, TextIs DEF Sized
    <2>4. Written(2, 0, 10, Text(10))
      BY <1>2, <2>1, <2>2, ParentWrites, <2>3
    <2>5. /\ FileTypeOK' /\ PrintsNothing /\ UNCHANGED <<table, fds>>
          /\ Len(description') = 2 /\ description'[2].offset = 10
      BY <2>2, <2>4 DEF Written, OffsetSet
    <2>6. QED
      BY <1>2, <2>1, <2>5
         DEF HoleState, OneOpen, LowTaken, Is, At, Descriptions, PrintsNothing
  <1>3. CASE k = 3
    <2>1. Called("parent") = "seek" /\ Name("parent") = "fd" /\ Arg("parent") = 16384
      BY <1>3, CallsAre, HoleCallList DEF Called, Name, Arg
    <2>2. fds["fd"] = 3 /\ Behind("parent") = 2 /\ Len(description) = 2
      BY <1>3, <2>1 DEF Behind, HoleState, OneOpen, LowTaken, Is, At, Descriptions
    <2>3. Repositioned(2, 16384)
      BY <1>3, <2>1, <2>2, ParentSeeks
    <2>4. QED
      BY <1>3, <2>1, <2>3
         DEF Repositioned, HoleState, OneOpen, LowTaken, Is, At, Descriptions, OffsetSet,
             PrintsNothing
  <1>4. CASE k = 4
    <2>1. Called("parent") = "write" /\ Name("parent") = "fd" /\ Arg("parent") = Text(10)
      BY <1>4, CallsAre, HoleCallList DEF Called, Name, Arg
    <2>2. /\ fds["fd"] = 3 /\ Behind("parent") = 2 /\ Offset("parent") = 16384
          /\ Len(description) = 2
      BY <1>4, <2>1 DEF Behind, Offset, HoleState, OneOpen, LowTaken, Is, At, Descriptions
    <2>3. Sized(Arg("parent"), 10)
      BY <2>1, TextIs DEF Sized
    <2>4. Written(2, 16384, 10, Text(10))
      BY <1>4, <2>1, <2>2, ParentWrites, <2>3
    <2>5. /\ FileTypeOK' /\ PrintsNothing /\ UNCHANGED <<table, fds>>
          /\ Len(description') = 2 /\ description'[2].offset = 16394
      BY <2>2, <2>4 DEF Written, OffsetSet
    <2>6. QED
      BY <1>4, <2>1, <2>5
         DEF HoleState, OneOpen, LowTaken, Is, At, Descriptions, PrintsNothing
  <1>5. CASE k = 5
    <2>1. Called("parent") = "tell" /\ Name("parent") = "fd"
      BY <1>5, CallsAre, HoleCallList DEF Called, Name
    <2>2. /\ fds["fd"] = 3 /\ Behind("parent") = 2 /\ Offset("parent") = 16394
          /\ Len(description) = 2
      BY <1>5, <2>1 DEF Behind, Offset, HoleState, OneOpen, LowTaken, Is, At, Descriptions
    <2>3. Shown(16394)
      BY <1>5, <2>1, <2>2, ParentTells
    <2>4. QED
      BY <1>5, <2>1, <2>3
         DEF Shown, HoleState, OneOpen, LowTaken, Is, At, Descriptions, PrintsOne,
             Documented
  <1>6. CASE k = 6
    <2>1. Called("parent") = "close" /\ Name("parent") = "fd"
      BY <1>6, CallsAre, HoleCallList DEF Called, Name
    <2>3. Renumbered(3, 0)
      BY <1>6, <2>1, ParentCloses DEF HoleState, OneOpen, LowTaken, Is, At, Descriptions
    <2>4. QED
      BY <1>6, <2>1, <2>3
         DEF Renumbered, HoleState, OneOpen, LowTaken, Is, At, Descriptions, NumberSet,
             PrintsNothing
  <1>7. QED
    BY <1>1, <1>2, <1>3, <1>4, <1>5, <1>6

(* A process that makes a call has not made its last one.                  *)
LEMMA CallsLeft ==
  ASSUME FileTypeOK, at["parent"] <= Len(Calls("parent"))
  PROVE
    /\ program = "dup1" => at["parent"] <= 12
    /\ program = "dup2" => at["parent"] <= 10
    /\ program = "dup3" => at["parent"] <= 10
    /\ program = "open1" => at["parent"] <= 6
    /\ program = "open2" => at["parent"] <= 8
    /\ program = "open3" => at["parent"] <= 13
    /\ program = "open4" => at["parent"] <= 11
    /\ program = "hole" => at["parent"] <= 6
    /\ program = "share1" => at["parent"] <= 7
    /\ program = "fork_file_sharing" => at["parent"] <= 7
  <1>1. program = "dup1" => at["parent"] <= 12
    <2>1. program = "dup1" => Calls("parent") = Dup1Calls
      BY CallsAre
    <2>2. program = "dup1" => at["parent"] <= Len(Dup1Calls)
      BY <2>1
    <2>3. QED
      BY <2>2, Dup1CallList DEF FileTypeOK, Processes
  <1>2. program = "dup2" => at["parent"] <= 10
    <2>1. program = "dup2" => Calls("parent") = Dup2Calls
      BY CallsAre
    <2>2. program = "dup2" => at["parent"] <= Len(Dup2Calls)
      BY <2>1
    <2>3. QED
      BY <2>2, Dup2CallList DEF FileTypeOK, Processes
  <1>3. program = "dup3" => at["parent"] <= 10
    <2>1. program = "dup3" => Calls("parent") = Dup3Calls
      BY CallsAre
    <2>2. program = "dup3" => at["parent"] <= Len(Dup3Calls)
      BY <2>1
    <2>3. QED
      BY <2>2, Dup3CallList DEF FileTypeOK, Processes
  <1>4. program = "open1" => at["parent"] <= 6
    <2>1. program = "open1" => Calls("parent") = Open1Calls
      BY CallsAre
    <2>2. program = "open1" => at["parent"] <= Len(Open1Calls)
      BY <2>1
    <2>3. QED
      BY <2>2, Open1CallList DEF FileTypeOK, Processes
  <1>5. program = "open2" => at["parent"] <= 8
    <2>1. program = "open2" => Calls("parent") = Open2Calls
      BY CallsAre
    <2>2. program = "open2" => at["parent"] <= Len(Open2Calls)
      BY <2>1
    <2>3. QED
      BY <2>2, Open2CallList DEF FileTypeOK, Processes
  <1>6. program = "open3" => at["parent"] <= 13
    <2>1. program = "open3" => Calls("parent") = Open3Calls
      BY CallsAre
    <2>2. program = "open3" => at["parent"] <= Len(Open3Calls)
      BY <2>1
    <2>3. QED
      BY <2>2, Open3CallList DEF FileTypeOK, Processes
  <1>7. program = "open4" => at["parent"] <= 11
    <2>1. program = "open4" => Calls("parent") = Open4Calls
      BY CallsAre
    <2>2. program = "open4" => at["parent"] <= Len(Open4Calls)
      BY <2>1
    <2>3. QED
      BY <2>2, Open4CallList DEF FileTypeOK, Processes
  <1>8. program = "hole" => at["parent"] <= 6
    <2>1. program = "hole" => Calls("parent") = HoleCalls
      BY CallsAre
    <2>2. program = "hole" => at["parent"] <= Len(HoleCalls)
      BY <2>1
    <2>3. QED
      BY <2>2, HoleCallList DEF FileTypeOK, Processes
  <1>9. program = "share1" => at["parent"] <= 7
    <2>1. program = "share1" => Calls("parent") = Share1Calls
      BY CallsAre
    <2>2. program = "share1" => at["parent"] <= Len(Share1Calls)
      BY <2>1
    <2>3. QED
      BY <2>2, Share1CallList DEF FileTypeOK, Processes
  <1>10. program = "fork_file_sharing" => at["parent"] <= 7
    <2>1. program = "fork_file_sharing" => Calls("parent") = ForkFileSharingCalls
      BY CallsAre
    <2>2. program = "fork_file_sharing" => at["parent"] <= Len(ForkFileSharingCalls)
      BY <2>1
    <2>3. QED
      BY <2>2, ForkFileSharingCallList DEF FileTypeOK, Processes
  <1>11. QED
    BY <1>1, <1>2, <1>3, <1>4, <1>5, <1>6, <1>7, <1>8, <1>9, <1>10

(* Any call of the parent.                                                 *)
LEMMA ParentStep ==
  ASSUME FileInv, program' = program, FileCall("parent")
  PROVE  FileInv'
  <1>1. /\ stage["parent"] = "run" /\ at["parent"] <= Len(Calls("parent"))
        /\ at' = [at EXCEPT !["parent"] = @ + 1]
    BY CallIs, ParentNames
  <1>2. FileTypeOK /\ ParentState /\ ChildState /\ program \in FilePrograms
    BY <1>1 DEF FileInv
  <1>3. PICK k \in 1 .. 14 : at["parent"] = k /\ RunState(k)
    BY <1>2 DEF ParentState
  <1>4. at'["parent"] = k + 1 /\ at'["child"] = at["child"]
    BY <1>1, <1>2, <1>3 DEF FileTypeOK, Processes
  <1>5. k \in Nat
    OBVIOUS
  <1>6. ASSUME program \notin {"share1", "fork_file_sharing"}, Called("parent") # "fork"
        PROVE  ChildState'
    <2>1. stage["child"] = "off"
      BY <1>2, <1>6 DEF ChildState, FileTypeOK, Processes
    <2>2. stage' = stage /\ table'["child"] = table["child"]
      BY <1>2, <1>6, ParentKeepsChild
    <2>3. QED
      BY <1>2, <1>4, <2>1, <2>2, ChildKept
  <1>7. FileTypeOK' /\ ChildState' /\ RunState(k + 1)' /\ k <= 13
    <2>1. CASE program = "dup1"
      <3>1. k \in 1 .. 12 /\ Dup1State(k)
        BY <1>1, <1>2, <1>3, <1>5, <2>1, CallsLeft DEF RunState
      <3>2. FileTypeOK' /\ Dup1State(k + 1)' /\ Called("parent") # "fork"
        BY <1>2, <1>3, <1>5, <2>1, <3>1, Dup1Step
      <3>3. QED
        BY <1>6, <2>1, <3>1, <3>2 DEF RunState
    <2>2. CASE program = "dup2"
      <3>1. k \in 1 .. 10 /\ Dup2State(k)
        BY <1>1, <1>2, <1>3, <1>5, <2>2, CallsLeft DEF RunState
      <3>2. FileTypeOK' /\ Dup2State(k + 1)' /\ Called("parent") # "fork"
        BY <1>2, <1>3, <1>5, <2>2, <3>1, Dup2Step
      <3>3. QED
        BY <1>6, <2>2, <3>1, <3>2 DEF RunState
    <2>3. CASE program = "dup3"
      <3>1. k \in 1 .. 10 /\ Dup3State(k)
        BY <1>1, <1>2, <1>3, <1>5, <2>3, CallsLeft DEF RunState
      <3>2. FileTypeOK' /\ Dup3State(k + 1)' /\ Called("parent") # "fork"
        BY <1>2, <1>3, <1>5, <2>3, <3>1, Dup3Step
      <3>3. QED
        BY <1>6, <2>3, <3>1, <3>2 DEF RunState
    <2>4. CASE program = "open1"
      <3>1. k \in 1 .. 6 /\ Open1State(k)
        BY <1>1, <1>2, <1>3, <1>5, <2>4, CallsLeft DEF RunState
      <3>2. FileTypeOK' /\ Open1State(k + 1)' /\ Called("parent") # "fork"
        BY <1>2, <1>3, <1>5, <2>4, <3>1, Open1Step
      <3>3. QED
        BY <1>6, <2>4, <3>1, <3>2 DEF RunState
    <2>5. CASE program = "open2"
      <3>1. k \in 1 .. 8 /\ Open2State(k)
        BY <1>1, <1>2, <1>3, <1>5, <2>5, CallsLeft DEF RunState
      <3>2. FileTypeOK' /\ Open2State(k + 1)' /\ Called("parent") # "fork"
        BY <1>2, <1>3, <1>5, <2>5, <3>1, Open2Step
      <3>3. QED
        BY <1>6, <2>5, <3>1, <3>2 DEF RunState
    <2>6. CASE program = "open3"
      <3>1. k \in 1 .. 13 /\ Open3State(k)
        BY <1>1, <1>2, <1>3, <1>5, <2>6, CallsLeft DEF RunState
      <3>2. FileTypeOK' /\ Open3State(k + 1)' /\ Called("parent") # "fork"
        BY <1>2, <1>3, <1>5, <2>6, <3>1, Open3Step
      <3>3. QED
        BY <1>6, <2>6, <3>1, <3>2 DEF RunState
    <2>7. CASE program = "open4"
      <3>1. k \in 1 .. 11 /\ Open4State(k)
        BY <1>1, <1>2, <1>3, <1>5, <2>7, CallsLeft DEF RunState
      <3>2. FileTypeOK' /\ Open4State(k + 1)' /\ Called("parent") # "fork"
        BY <1>2, <1>3, <1>5, <2>7, <3>1, Open4Step
      <3>3. QED
        BY <1>6, <2>7, <3>1, <3>2 DEF RunState
    <2>8. CASE program = "hole"
      <3>1. k \in 1 .. 6 /\ HoleState(k)
        BY <1>1, <1>2, <1>3, <1>5, <2>8, CallsLeft DEF RunState
      <3>2. FileTypeOK' /\ HoleState(k + 1)' /\ Called("parent") # "fork"
        BY <1>2, <1>3, <1>5, <2>8, <3>1, HoleStep
      <3>3. QED
        BY <1>6, <2>8, <3>1, <3>2 DEF RunState
    <2>9. CASE program = "share1"
      <3>1. k \in 1 .. 7 /\ Share1State(k)
        BY <1>1, <1>2, <1>3, <1>5, <2>9, CallsLeft DEF RunState
      <3>2. FileTypeOK' /\ Share1State(k + 1)' /\ ChildState'
        BY <1>2, <1>3, <1>5, <2>9, <3>1, Share1Step
      <3>3. QED
        BY <2>9, <3>1, <3>2 DEF RunState
    <2>10. CASE program = "fork_file_sharing"
      <3>1. k \in 1 .. 7 /\ ForkFileSharingState(k)
        BY <1>1, <1>2, <1>3, <1>5, <2>10, CallsLeft DEF RunState
      <3>2. FileTypeOK' /\ ForkFileSharingState(k + 1)' /\ ChildState'
        BY <1>2, <1>3, <1>5, <2>10, <3>1, ForkFileSharingStep
      <3>3. QED
        BY <2>10, <3>1, <3>2 DEF RunState
    <2>11. QED
      BY <1>2, <2>1, <2>2, <2>3, <2>4, <2>5, <2>6, <2>7, <2>8, <2>9, <2>10, FileProgramsAre
  <1>8. ParentState'
    BY <1>3, <1>4, <1>5, <1>7 DEF ParentState
  <1>9. stage'["parent"] = "run"
    <2>1. CASE Called("parent") = "fork"
      BY <1>1, <1>2, <2>1, CallIs, ForkDoes, ParentNames DEF FileTypeOK, Processes
    <2>2. CASE Called("parent") # "fork"
      BY <1>1, <1>2, <2>2, ParentKeepsChild
    <2>3. QED
      BY <2>1, <2>2
  <1>10. QED
    BY <1>2, <1>7, <1>8, <1>9 DEF FileInv, PrintsAsDocumented

LEMMA ChildNames == "child" \in Processes
  BY DEF Processes

(* Any call of the child, which the parent is waiting for unless it has failed.*)
LEMMA ChildStep ==
  ASSUME FileInv, program' = program, FileCall("child")
  PROVE  FileInv'
  <1>1. /\ stage["child"] = "run" /\ at["child"] <= Len(Calls("child"))
        /\ at' = [at EXCEPT !["child"] = @ + 1]
    BY CallIs, ChildNames
  <1>2. /\ FileTypeOK /\ ChildState
        /\ stage["parent"] \in {"run", "failed"} /\ program \in FilePrograms
        /\ stage["parent"] = "run" => ParentState
    BY <1>1, ChildNames DEF FileInv, FileTypeOK, Processes
  <1>3. at'["child"] = at["child"] + 1 /\ at'["parent"] = at["parent"]
    BY <1>1, <1>2 DEF FileTypeOK, Processes
  <1>4. /\ fds["fd"] = 3 /\ table["child"][3] = 2 /\ Len(description) >= 2
        /\ at["child"] \in 1 .. ChildEnd
        /\ program \in {"share1", "fork_file_sharing"}
    BY <1>1, <1>2 DEF ChildState
  <1>5. 2 \in 1 .. Len(description)
    BY <1>2, <1>4 DEF FileTypeOK
  <1>6. SUFFICES /\ FileTypeOK' /\ ChildState' /\ stage' = stage
                 /\ stage["parent"] = "run" => ParentState'
    BY <1>2 DEF FileInv, PrintsAsDocumented
  <1>7. CASE program = "share1"
    <2>1. at["child"] = 1 /\ Called("child") = "seek" /\ Name("child") = "fd" /\ Arg("child") = 2
      <3>1. Calls("child") = Share1Child
        BY <1>7, CallsAre
      <3>2. at["child"] <= Len(Share1Child)
        BY <1>1, <3>1
      <3>3. at["child"] = 1
        BY <1>4, <3>2, Share1CallList
      <3>4. QED
        BY <3>1, <3>3, Share1CallList DEF Called, Name, Arg
    <2>2. Seek("child") /\ Behind("child") = 2
      BY <1>4, <2>1, CallIs, ChildNames DEF Behind
    <2>3. /\ FileTypeOK' /\ UNCHANGED <<stage, table, fds, file, output>>
          /\ Len(description') = Len(description)
          /\ description'[2].offset = 2
      BY <1>2, <1>5, <2>1, <2>2, SeekDoes, ChildNames
    <2>4. ChildState'
      BY <1>1, <1>3, <1>4, <1>7, <2>1, <2>3 DEF ChildState, ChildEnd
    <2>5. ASSUME stage["parent"] = "run"
          PROVE  ParentState'
      <3>1. PICK k \in 1 .. 14 : at["parent"] = k /\ RunState(k)
        BY <1>2, <2>5 DEF ParentState
      <3>2. k <= 8 /\ Share1State(k)
        BY <1>7, <3>1 DEF RunState
      <3>3. PrintsNothing
        BY <2>3, PrintedKept
      <3>4. k = 5
        BY <1>1, <3>2 DEF Share1State
      <3>5. Share1State(k)'
        <4>1. OneOpen(k)'
          <5>1. LowTaken /\ Descriptions(2) /\ fds["fd"] = 3 /\ Is(3, 2)
            BY <3>2, <3>4 DEF Share1State, OneOpen
          <5>2. LowTaken' /\ Is(3, 2)' /\ Descriptions(2)' /\ fds'["fd"] = 3
            BY <2>3, <5>1 DEF LowTaken, Is, Descriptions
          <5>3. QED
            BY <3>4, <5>2 DEF OneOpen
        <4>2. (2 \in DOMAIN file /\ file[2] = 3)' /\ stage["child"] # "off" /\ Printed(0)'
          BY <2>3, <3>2, <3>3, <3>4 DEF Share1State, PrintsNothing
        <4>3. QED
          BY <2>3, <3>4, <4>1, <4>2 DEF Share1State, At
      <3>6. RunState(k)'
        BY <1>7, <3>2, <3>5 DEF RunState
      <3>7. QED
        BY <1>3, <3>1, <3>6 DEF ParentState
    <2>6. QED
      BY <2>3, <2>4, <2>5
  <1>8. CASE program = "fork_file_sharing"
    <2> DEFINE Same == /\ FileTypeOK' /\ UNCHANGED <<stage, table, fds, file, output>>
                       /\ Len(description') = Len(description)
    <2>1. ASSUME Same, at["child"] \in 1 .. 2,
                 at["child"] = 1 => description'[2].offset = 1000,
                 at["child"] = 2 => /\ description'[2].offset = description[2].offset
                                    /\ description'[2].append
          PROVE  /\ FileTypeOK' /\ ChildState' /\ stage' = stage
                 /\ stage["parent"] = "run" => ParentState'
      <3>1. ChildState'
        BY <1>1, <1>3, <1>4, <1>8, <2>1 DEF ChildState, ChildEnd
      <3>2. ASSUME stage["parent"] = "run"
            PROVE  ParentState'
        <4>1. PICK k \in 1 .. 14 : at["parent"] = k /\ RunState(k)
          BY <1>2, <3>2 DEF ParentState
        <4>2. k <= 8 /\ ForkFileSharingState(k)
          BY <1>8, <4>1 DEF RunState
        <4>3. PrintsNothing
          BY <2>1, PrintedKept
        <4>4. k = 5
          BY <1>1, <4>2 DEF ForkFileSharingState
        <4>5. ForkFileSharingState(k)'
          <5>1. OneOpen(k)'
            <6>1. LowTaken /\ Descriptions(2) /\ fds["fd"] = 3 /\ Is(3, 2)
              BY <4>2, <4>4 DEF ForkFileSharingState, OneOpen
            <6>2. LowTaken' /\ Is(3, 2)' /\ Descriptions(2)' /\ fds'["fd"] = 3
              BY <2>1, <6>1 DEF LowTaken, Is, Descriptions
            <6>3. QED
              BY <4>4, <6>2 DEF OneOpen
          <5>2. stage["child"] # "off" /\ Printed(2)'
            BY <4>2, <4>3, <4>4 DEF ForkFileSharingState, PrintsNothing
          <5>3. at["child"] = 2 => description[2].offset = 1000
            BY <4>2, <4>4 DEF ForkFileSharingState, At
          <5>4. QED
            BY <1>3, <2>1, <4>4, <5>1, <5>2, <5>3 DEF ForkFileSharingState, At
        <4>6. RunState(k)'
          BY <1>8, <4>2, <4>5 DEF RunState
        <4>7. QED
          BY <1>3, <4>1, <4>6 DEF ParentState
      <3>3. QED
        BY <2>1, <3>1, <3>2
    <2>2. Calls("child") = ForkFileSharingChild
      BY <1>8, CallsAre
    <2>3. at["child"] \in 1 .. 2
      <3>1. at["child"] <= Len(ForkFileSharingChild)
        BY <1>1, <2>2
      <3>2. QED
        BY <1>4, <3>1, ForkFileSharingCallList
    <2>4. CASE at["child"] = 1
      <3>1. Called("child") = "seek" /\ Name("child") = "fd" /\ Arg("child") = 1000
        BY <2>2, <2>4, ForkFileSharingCallList DEF Called, Name, Arg
      <3>2. Seek("child") /\ Behind("child") = 2
        BY <1>4, <3>1, CallIs, ChildNames DEF Behind
      <3>3. Same /\ description'[2].offset = 1000
        BY <1>2, <1>5, <3>1, <3>2, SeekDoes, ChildNames
      <3>4. QED
        BY <2>1, <2>3, <2>4, <3>3
    <2>5. CASE at["child"] = 2
      <3>1. Called("child") = "append" /\ Name("child") = "fd"
        BY <2>2, <2>5, ForkFileSharingCallList DEF Called, Name
      <3>2. SetAppend("child") /\ Behind("child") = 2
        BY <1>4, <3>1, CallIs, ChildNames DEF Behind
      <3>3. Same /\ description'[2].offset = description[2].offset /\ description'[2].append
        BY <1>2, <1>5, <3>1, <3>2, AppendDoes, ChildNames
      <3>4. QED
        BY <2>1, <2>3, <2>5, <3>3
    <2>6. QED
      BY <2>3, <2>4, <2>5
  <1>9. QED
    BY <1>4, <1>7, <1>8

(* A process that returns has made all its calls.                          *)
LEMMA CallsOver ==
  ASSUME FileTypeOK, at["parent"] > Len(Calls("parent"))
  PROVE
    /\ program = "dup1" => at["parent"] > 12
    /\ program = "dup2" => at["parent"] > 10
    /\ program = "dup3" => at["parent"] > 10
    /\ program = "open1" => at["parent"] > 6
    /\ program = "open2" => at["parent"] > 8
    /\ program = "open3" => at["parent"] > 13
    /\ program = "open4" => at["parent"] > 11
    /\ program = "hole" => at["parent"] > 6
    /\ program = "share1" => at["parent"] > 7
    /\ program = "fork_file_sharing" => at["parent"] > 7
  <1>1. program = "dup1" => at["parent"] > 12
    <2>1. program = "dup1" => Calls("parent") = Dup1Calls
      BY CallsAre
    <2>2. program = "dup1" => at["parent"] > Len(Dup1Calls)
      BY <2>1
    <2>3. QED
      BY <2>2, Dup1CallList DEF FileTypeOK, Processes
  <1>2. program = "dup2" => at["parent"] > 10
    <2>1. program = "dup2" => Calls("parent") = Dup2Calls
      BY CallsAre
    <2>2. program = "dup2" => at["parent"] > Len(Dup2Calls)
      BY <2>1
    <2>3. QED
      BY <2>2, Dup2CallList DEF FileTypeOK, Processes
  <1>3. program = "dup3" => at["parent"] > 10
    <2>1. program = "dup3" => Calls("parent") = Dup3Calls
      BY CallsAre
    <2>2. program = "dup3" => at["parent"] > Len(Dup3Calls)
      BY <2>1
    <2>3. QED
      BY <2>2, Dup3CallList DEF FileTypeOK, Processes
  <1>4. program = "open1" => at["parent"] > 6
    <2>1. program = "open1" => Calls("parent") = Open1Calls
      BY CallsAre
    <2>2. program = "open1" => at["parent"] > Len(Open1Calls)
      BY <2>1
    <2>3. QED
      BY <2>2, Open1CallList DEF FileTypeOK, Processes
  <1>5. program = "open2" => at["parent"] > 8
    <2>1. program = "open2" => Calls("parent") = Open2Calls
      BY CallsAre
    <2>2. program = "open2" => at["parent"] > Len(Open2Calls)
      BY <2>1
    <2>3. QED
      BY <2>2, Open2CallList DEF FileTypeOK, Processes
  <1>6. program = "open3" => at["parent"] > 13
    <2>1. program = "open3" => Calls("parent") = Open3Calls
      BY CallsAre
    <2>2. program = "open3" => at["parent"] > Len(Open3Calls)
      BY <2>1
    <2>3. QED
      BY <2>2, Open3CallList DEF FileTypeOK, Processes
  <1>7. program = "open4" => at["parent"] > 11
    <2>1. program = "open4" => Calls("parent") = Open4Calls
      BY CallsAre
    <2>2. program = "open4" => at["parent"] > Len(Open4Calls)
      BY <2>1
    <2>3. QED
      BY <2>2, Open4CallList DEF FileTypeOK, Processes
  <1>8. program = "hole" => at["parent"] > 6
    <2>1. program = "hole" => Calls("parent") = HoleCalls
      BY CallsAre
    <2>2. program = "hole" => at["parent"] > Len(HoleCalls)
      BY <2>1
    <2>3. QED
      BY <2>2, HoleCallList DEF FileTypeOK, Processes
  <1>9. program = "share1" => at["parent"] > 7
    <2>1. program = "share1" => Calls("parent") = Share1Calls
      BY CallsAre
    <2>2. program = "share1" => at["parent"] > Len(Share1Calls)
      BY <2>1
    <2>3. QED
      BY <2>2, Share1CallList DEF FileTypeOK, Processes
  <1>10. program = "fork_file_sharing" => at["parent"] > 7
    <2>1. program = "fork_file_sharing" => Calls("parent") = ForkFileSharingCalls
      BY CallsAre
    <2>2. program = "fork_file_sharing" => at["parent"] > Len(ForkFileSharingCalls)
      BY <2>1
    <2>3. QED
      BY <2>2, ForkFileSharingCallList DEF FileTypeOK, Processes
  <1>11. QED
    BY <1>1, <1>2, <1>3, <1>4, <1>5, <1>6, <1>7, <1>8, <1>9, <1>10

(* What has been printed one by one is what is documented.                 *)
LEMMA AllPrinted ==
  ASSUME FileTypeOK
  PROVE
    /\ program = "dup1" /\ Printed(6) => output = Documented[program]
    /\ program = "dup2" /\ Printed(2) => output = Documented[program]
    /\ program = "dup3" /\ Printed(2) => output = Documented[program]
    /\ program = "open1" /\ Printed(2) => output = Documented[program]
    /\ program = "open2" /\ Printed(2) => output = Documented[program]
    /\ program = "open3" /\ Printed(4) => output = Documented[program]
    /\ program = "open4" /\ Printed(3) => output = Documented[program]
    /\ program = "hole" /\ Printed(1) => output = Documented[program]
    /\ program = "share1" /\ Printed(1) => output = Documented[program]
    /\ program = "fork_file_sharing" /\ Printed(4) => output = Documented[program]
  <1>1. ASSUME program = "dup1", Printed(6)
        PROVE  output = Documented[program]
    <2>1. Documented["dup1"] \in Seq(Nat) /\ Len(Documented["dup1"]) = 6
      BY DEF Documented, X
    <2>2. output \in Seq(Nat) /\ Len(output) = 6
      BY <1>1 DEF FileTypeOK, Printed
    <2>3. \A j \in 1 .. 6 : output[j] = Documented["dup1"][j]
      BY <1>1 DEF Printed
    <2>4. QED
      BY <1>1, <2>1, <2>2, <2>3, SeqEqual
  <1>2. ASSUME program = "dup2", Printed(2)
        PROVE  output = Documented[program]
    <2>1. Documented["dup2"] \in Seq(Nat) /\ Len(Documented["dup2"]) = 2
      BY DEF Documented, X
    <2>2. output \in Seq(Nat) /\ Len(output) = 2
      BY <1>2 DEF FileTypeOK, Printed
    <2>3. \A j \in 1 .. 2 : output[j] = Documented["dup2"][j]
      BY <1>2 DEF Printed
    <2>4. QED
      BY <1>2, <2>1, <2>2, <2>3, SeqEqual
  <1>3. ASSUME program = "dup3", Printed(2)
        PROVE  output = Documented[program]
    <2>1. Documented["dup3"] \in Seq(Nat) /\ Len(Documented["dup3"]) = 2
      BY DEF Documented, X
    <2>2. output \in Seq(Nat) /\ Len(output) = 2
      BY <1>3 DEF FileTypeOK, Printed
    <2>3. \A j \in 1 .. 2 : output[j] = Documented["dup3"][j]
      BY <1>3 DEF Printed
    <2>4. QED
      BY <1>3, <2>1, <2>2, <2>3, SeqEqual
  <1>4. ASSUME program = "open1", Printed(2)
        PROVE  output = Documented[program]
    <2>1. Documented["open1"] \in Seq(Nat) /\ Len(Documented["open1"]) = 2
      BY DEF Documented, X
    <2>2. output \in Seq(Nat) /\ Len(output) = 2
      BY <1>4 DEF FileTypeOK, Printed
    <2>3. \A j \in 1 .. 2 : output[j] = Documented["open1"][j]
      BY <1>4 DEF Printed
    <2>4. QED
      BY <1>4, <2>1, <2>2, <2>3, SeqEqual
  <1>5. ASSUME program = "open2", Printed(2)
        PROVE  output = Documented[program]
    <2>1. Documented["open2"] \in Seq(Nat) /\ Len(Documented["open2"]) = 2
      BY DEF Documented, X
    <2>2. output \in Seq(Nat) /\ Len(output) = 2
      BY <1>5 DEF FileTypeOK, Printed
    <2>3. \A j \in 1 .. 2 : output[j] = Documented["open2"][j]
      BY <1>5 DEF Printed
    <2>4. QED
      BY <1>5, <2>1, <2>2, <2>3, SeqEqual
  <1>6. ASSUME program = "open3", Printed(4)
        PROVE  output = Documented[program]
    <2>1. Documented["open3"] \in Seq(Nat) /\ Len(Documented["open3"]) = 4
      BY DEF Documented, X
    <2>2. output \in Seq(Nat) /\ Len(output) = 4
      BY <1>6 DEF FileTypeOK, Printed
    <2>3. \A j \in 1 .. 4 : output[j] = Documented["open3"][j]
      BY <1>6 DEF Printed
    <2>4. QED
      BY <1>6, <2>1, <2>2, <2>3, SeqEqual
  <1>7. ASSUME program = "open4", Printed(3)
        PROVE  output = Documented[program]
    <2>1. Documented["open4"] \in Seq(Nat) /\ Len(Documented["open4"]) = 3
      BY DEF Documented, X
    <2>2. output \in Seq(Nat) /\ Len(output) = 3
      BY <1>7 DEF FileTypeOK, Printed
    <2>3. \A j \in 1 .. 3 : output[j] = Documented["open4"][j]
      BY <1>7 DEF Printed
    <2>4. QED
      BY <1>7, <2>1, <2>2, <2>3, SeqEqual
  <1>8. ASSUME program = "hole", Printed(1)
        PROVE  output = Documented[program]
    <2>1. Documented["hole"] \in Seq(Nat) /\ Len(Documented["hole"]) = 1
      BY DEF Documented, X
    <2>2. output \in Seq(Nat) /\ Len(output) = 1
      BY <1>8 DEF FileTypeOK, Printed
    <2>3. \A j \in 1 .. 1 : output[j] = Documented["hole"][j]
      BY <1>8 DEF Printed
    <2>4. QED
      BY <1>8, <2>1, <2>2, <2>3, SeqEqual
  <1>9. ASSUME program = "share1", Printed(1)
        PROVE  output = Documented[program]
    <2>1. Documented["share1"] \in Seq(Nat) /\ Len(Documented["share1"]) = 1
      BY DEF Documented, X
    <2>2. output \in Seq(Nat) /\ Len(output) = 1
      BY <1>9 DEF FileTypeOK, Printed
    <2>3. \A j \in 1 .. 1 : output[j] = Documented["share1"][j]
      BY <1>9 DEF Printed
    <2>4. QED
      BY <1>9, <2>1, <2>2, <2>3, SeqEqual
  <1>10. ASSUME program = "fork_file_sharing", Printed(4)
        PROVE  output = Documented[program]
    <2>1. Documented["fork_file_sharing"] \in Seq(Nat) /\ Len(Documented["fork_file_sharing"]) = 4
      BY DEF Documented, X
    <2>2. output \in Seq(Nat) /\ Len(output) = 4
      BY <1>10 DEF FileTypeOK, Printed
    <2>3. \A j \in 1 .. 4 : output[j] = Documented["fork_file_sharing"][j]
      BY <1>10 DEF Printed
    <2>4. QED
      BY <1>10, <2>1, <2>2, <2>3, SeqEqual
  <1>11. QED
    BY <1>1, <1>2, <1>3, <1>4, <1>5, <1>6, <1>7, <1>8, <1>9, <1>10

(* A parent at its end has printed all of it, and its child has ended.     *)
LEMMA EndReached ==
  ASSUME FileTypeOK, ChildState, program \in FilePrograms, NEW k \in 1 .. 14,
         at["parent"] = k, RunState(k), at["parent"] > Len(Calls("parent"))
  PROVE  /\ program # "fork_file_sharing" \/ stage["child"] = "done" => output = Documented[program]
         /\ stage["child"] # "run"
  <1>1. stage["child"] # "off" => program \in {"share1", "fork_file_sharing"}
    BY DEF ChildState
  <1>2. CASE program = "dup1"
    <2>1. k = 13 /\ Dup1State(k)
      BY <1>2, CallsOver DEF RunState
    <2>2. Printed(6)
      BY <2>1 DEF Dup1State
    <2>3. QED
      BY <1>1, <1>2, <2>2, AllPrinted
  <1>3. CASE program = "dup2"
    <2>1. k = 11 /\ Dup2State(k)
      BY <1>3, CallsOver DEF RunState
    <2>2. Printed(2)
      BY <2>1 DEF Dup2State
    <2>3. QED
      BY <1>1, <1>3, <2>2, AllPrinted
  <1>4. CASE program = "dup3"
    <2>1. k = 11 /\ Dup3State(k)
      BY <1>4, CallsOver DEF RunState
    <2>2. Printed(2)
      BY <2>1 DEF Dup3State
    <2>3. QED
      BY <1>1, <1>4, <2>2, AllPrinted
  <1>5. CASE program = "open1"
    <2>1. k = 7 /\ Open1State(k)
      BY <1>5, CallsOver DEF RunState
    <2>2. Printed(2)
      BY <2>1 DEF Open1State
    <2>3. QED
      BY <1>1, <1>5, <2>2, AllPrinted
  <1>6. CASE program = "open2"
    <2>1. k = 9 /\ Open2State(k)
      BY <1>6, CallsOver DEF RunState
    <2>2. Printed(2)
      BY <2>1 DEF Open2State
    <2>3. QED
      BY <1>1, <1>6, <2>2, AllPrinted
  <1>7. CASE program = "open3"
    <2>1. k = 14 /\ Open3State(k)
      BY <1>7, CallsOver DEF RunState
    <2>2. Printed(4)
      BY <2>1 DEF Open3State
    <2>3. QED
      BY <1>1, <1>7, <2>2, AllPrinted
  <1>8. CASE program = "open4"
    <2>1. k = 12 /\ Open4State(k)
      BY <1>8, CallsOver DEF RunState
    <2>2. Printed(3)
      BY <2>1 DEF Open4State
    <2>3. QED
      BY <1>1, <1>8, <2>2, AllPrinted
  <1>9. CASE program = "hole"
    <2>1. k = 7 /\ HoleState(k)
      BY <1>9, CallsOver DEF RunState
    <2>2. Printed(1)
      BY <2>1 DEF HoleState
    <2>3. QED
      BY <1>1, <1>9, <2>2, AllPrinted
  <1>10. CASE program = "share1"
    <2>1. k = 8 /\ Share1State(k)
      BY <1>10, CallsOver DEF RunState
    <2>2. stage["child"] = "done" /\ Printed(1)
      BY <2>1 DEF Share1State
    <2>3. QED
      BY <1>10, <2>2, AllPrinted
  <1>11. CASE program = "fork_file_sharing"
    <2>1. k = 8 /\ ForkFileSharingState(k)
      BY <1>11, CallsOver DEF RunState
    <2>2. stage["child"] \in {"done", "failed"} /\ (stage["child"] = "done" => Printed(4))
      BY <2>1 DEF ForkFileSharingState
    <2>3. QED
      BY <1>11, <2>2, AllPrinted
  <1>12. QED
    BY <1>2, <1>3, <1>4, <1>5, <1>6, <1>7, <1>8, <1>9, <1>10, <1>11, FileProgramsAre

(* A process ends, by returning or by a call that fails.                   *)
LEMMA ParentLeaves ==
  ASSUME FileInv, program' = program, CallFails("parent") \/ Return("parent")
  PROVE  FileInv'
  <1>1. PICK how \in {"done", "failed"} :
           /\ stage["parent"] = "run" /\ Leaves("parent", how)
           /\ how = "done" => at["parent"] > Len(Calls("parent"))
    BY DEF CallFails, Return
  <1>2. FileTypeOK /\ ParentState /\ ChildState /\ program \in FilePrograms
    BY <1>1 DEF FileInv
  <1>3. /\ FileTypeOK'
        /\ stage' = [stage EXCEPT !["parent"] = how]
        /\ table'["child"] = table["child"]
        /\ UNCHANGED <<at, fds, description, file, output>>
    BY <1>1, <1>2, LeavesDoes, ParentNames DEF Leaves, Processes
  <1>4. stage'["parent"] = how /\ stage'["child"] = stage["child"]
    BY <1>2, <1>3 DEF FileTypeOK, Processes
  <1>5. ChildState'
    BY <1>2, <1>3, <1>4 DEF ChildState, ChildEnd
  <1>6. how = "done" =>
          /\ program # "fork_file_sharing" \/ stage["child"] = "done" => output = Documented[program]
          /\ stage["child"] # "run"
    <2>1. PICK k \in 1 .. 14 : at["parent"] = k /\ RunState(k)
      BY <1>2 DEF ParentState
    <2>2. QED
      BY <1>1, <1>2, <2>1, EndReached
  <1>7. PrintsAsDocumented'
    BY <1>3, <1>4, <1>6 DEF PrintsAsDocumented
  <1>8. QED
    BY <1>2, <1>3, <1>4, <1>5, <1>6, <1>7 DEF FileInv

LEMMA ChildLeaves ==
  ASSUME FileInv, program' = program, CallFails("child") \/ Return("child")
  PROVE  FileInv'
  <1>1. PICK how \in {"done", "failed"} :
           /\ stage["child"] = "run" /\ Leaves("child", how)
           /\ how = "done" => at["child"] > Len(Calls("child"))
    BY DEF CallFails, Return
  <1>2. /\ FileTypeOK /\ ChildState
        /\ stage["parent"] \in {"run", "failed"} /\ program \in FilePrograms
        /\ stage["parent"] = "run" => ParentState
    BY <1>1, ChildNames, ParentNames DEF FileInv, FileTypeOK
  <1>3. /\ FileTypeOK'
        /\ stage' = [stage EXCEPT !["child"] = how]
        /\ table'["parent"] = table["parent"]
        /\ UNCHANGED <<at, fds, description, file, output>>
    BY <1>1, <1>2, LeavesDoes, ChildNames DEF Leaves, Processes
  <1>4. stage'["child"] = how /\ stage'["parent"] = stage["parent"]
    BY <1>2, <1>3 DEF FileTypeOK, Processes
  <1>5. /\ program \in {"share1", "fork_file_sharing"} /\ at["child"] \in 1 .. ChildEnd
        /\ fds["fd"] = 3 /\ Len(description) >= 2
    BY <1>1, <1>2 DEF ChildState
  <1>6. how = "done" => at["child"] = ChildEnd
    <2>1. program = "share1" => Calls("child") = Share1Child
      BY CallsAre
    <2>2. program = "fork_file_sharing" => Calls("child") = ForkFileSharingChild
      BY CallsAre
    <2>3. how = "done" /\ program = "share1" => at["child"] > Len(Share1Child)
      BY <1>1, <2>1
    <2>4. how = "done" /\ program = "fork_file_sharing" => at["child"] > Len(ForkFileSharingChild)
      BY <1>1, <2>2
    <2>5. how = "done" /\ program = "share1" => at["child"] > 1
      BY <2>3, Share1CallList
    <2>6. how = "done" /\ program = "fork_file_sharing" => at["child"] > 2
      BY <2>4, ForkFileSharingCallList
    <2>7. QED
      BY <1>5, <2>5, <2>6 DEF ChildEnd
  <1>7. ChildState'
    BY <1>3, <1>4, <1>5, <1>6 DEF ChildState, ChildEnd
  <1>8. ASSUME stage["parent"] = "run"
        PROVE  ParentState'
    <2>1. PICK k \in 1 .. 14 : at["parent"] = k /\ RunState(k)
      BY <1>2, <1>8 DEF ParentState
    <2>2. PrintsNothing
      BY <1>3, PrintedKept
    <2>3. OneOpen(k) => OneOpen(k)'
      BY <1>3 DEF OneOpen, LowTaken, Is, At, Descriptions
    <2>4. CASE program = "share1"
      <3>1. k <= 8 /\ Share1State(k)
        BY <2>1, <2>4 DEF RunState
      <3>2. k = 5
        BY <1>1, <3>1 DEF Share1State
      <3>3. Share1State(k)'
        BY <1>1, <1>3, <1>4, <2>2, <2>3, <3>1, <3>2 DEF Share1State, At, PrintsNothing
      <3>4. QED
        BY <1>3, <2>1, <2>4, <3>1, <3>3 DEF ParentState, RunState
    <2>5. CASE program = "fork_file_sharing"
      <3>1. k <= 8 /\ ForkFileSharingState(k)
        BY <2>1, <2>5 DEF RunState
      <3>2. k = 5
        BY <1>1, <3>1 DEF ForkFileSharingState
      <3>3. ForkFileSharingState(k)'
        BY <1>1, <1>3, <1>4, <2>2, <2>3, <3>1, <3>2
           DEF ForkFileSharingState, At, PrintsNothing
      <3>4. QED
        BY <1>3, <2>1, <2>5, <3>1, <3>3 DEF ParentState, RunState
    <2>6. QED
      BY <1>5, <2>4, <2>5
  <1>9. QED
    BY <1>2, <1>3, <1>4, <1>7, <1>8 DEF FileInv, PrintsAsDocumented

LEMMA FileInitInv == FileInit => FileInv
  <1> SUFFICES ASSUME FileInit PROVE FileInv
    OBVIOUS
  <1>1. /\ stage \in [Processes -> {"off", "run", "done", "failed"}]
        /\ stage["child"] = "off"
        /\ stage["parent"] = "run" <=> program \in FilePrograms
        /\ stage["parent"] \in {"run", "off"}
        /\ at \in [Processes -> Nat] /\ at["parent"] = 1 /\ at["child"] = 1
    BY DEF FileInit, Processes
  <1>2. /\ fds \in [FdNames -> Numbers \union {-1}]
        /\ fds["stdin"] = 0 /\ fds["stderr"] = 2
    BY DEF FileInit, FdNames, Numbers
  <1>3. /\ description = <<[offset |-> 0, append |-> FALSE]>>
        /\ file = <<>> /\ output = <<>>
    BY DEF FileInit
  <1>4. description \in Seq([offset : Nat, append : BOOLEAN]) /\ Len(description) = 1
    BY <1>3
  <1>5. DOMAIN file = {} /\ output \in Seq(Nat) /\ Len(output) = 0
    BY <1>3
  <1>6. table \in [Processes -> [Numbers -> 0 .. Len(description)]]
    BY <1>4 DEF FileInit, Numbers
  <1>7. FileTypeOK
    BY <1>1, <1>2, <1>4, <1>5, <1>6 DEF FileTypeOK
  <1>8. /\ LowTaken /\ Descriptions(1) /\ Printed(0)
        /\ Is(3, 0) /\ Is(4, 0) /\ Is(5, 0)
    BY <1>4, <1>5 DEF FileInit, LowTaken, Is, Descriptions, Printed, Numbers, Processes
  <1>9. RunState(1)
    <2>1. TestFileWritten(1) /\ OneOpen(1)
      BY <1>8 DEF TestFileWritten, OneOpen
    <2>2. Dup1State(1) /\ Dup2State(1) /\ Dup3State(1)
      BY <1>8, <2>1 DEF Dup1State, Dup2State, Dup3State
    <2>3. Open1State(1) /\ Open2State(1) /\ Open3State(1) /\ Open4State(1)
      BY <1>2, <1>8, <2>1 DEF Open1State, Open2State, Open3State, Open4State, LowTaken
    <2>4. HoleState(1) /\ Share1State(1) /\ ForkFileSharingState(1)
      BY <1>1, <1>8, <2>1 DEF HoleState, Share1State, ForkFileSharingState
    <2>5. QED
      BY <2>2, <2>3, <2>4 DEF RunState
  <1>10. ParentState
    BY <1>1, <1>9 DEF ParentState
  <1>11. QED
    BY <1>1, <1>7, <1>10 DEF FileInv, ChildState, PrintsAsDocumented

(* The other programs leave these variables alone.                         *)
LEMMA FileSame ==
  ASSUME FileInv, program' = program, UNCHANGED fileVars
  PROVE  FileInv'
  <1>1. /\ stage' = stage /\ at' = at /\ table' = table /\ fds' = fds
        /\ description' = description /\ file' = file /\ output' = output
    BY DEF fileVars
  <1>2. FileTypeOK' = FileTypeOK
    BY <1>1 DEF FileTypeOK
  <1>3. ChildState' = ChildState
    BY <1>1 DEF ChildState, ChildEnd
  <1>4. PrintsAsDocumented' = PrintsAsDocumented
    BY <1>1 DEF PrintsAsDocumented
  <1>5. ASSUME NEW k \in 1 .. 14
        PROVE  RunState(k) => RunState(k)'
    <2>1. LowTaken <=> LowTaken'
      BY <1>1 DEF LowTaken, Is
    <2>2. \A n \in Nat : Printed(n) => Printed(n)'
      BY <1>1 DEF Printed
    <2>3. TestFileWritten(k) => TestFileWritten(k)'
      BY <1>1, <2>1, <2>2 DEF TestFileWritten, Is, At, Descriptions
    <2>4. OneOpen(k) => OneOpen(k)'
      BY <1>1, <2>1 DEF OneOpen, Is, At, Descriptions
    <2>5. /\ Dup1State(k) => Dup1State(k)'
          /\ Open1State(k) => Open1State(k)'
          /\ Open2State(k) => Open2State(k)'
      BY <1>1, <2>1, <2>2 DEF Dup1State, Open1State, Open2State, Is, At, Descriptions
    <2>6. /\ Dup2State(k) => Dup2State(k)'
          /\ Dup3State(k) => Dup3State(k)'
          /\ Open3State(k) => Open3State(k)'
          /\ Open4State(k) => Open4State(k)'
      BY <1>1, <2>2, <2>3
         DEF Dup2State, Dup3State, Open3State, Open4State, Is, At, Descriptions
    <2>7. /\ HoleState(k) => HoleState(k)'
          /\ Share1State(k) => Share1State(k)'
          /\ ForkFileSharingState(k) => ForkFileSharingState(k)'
      BY <1>1, <2>2, <2>4 DEF HoleState, Share1State, ForkFileSharingState, Is, At
    <2>8. QED
      BY <2>5, <2>6, <2>7 DEF RunState
  <1>6. ParentState => ParentState'
    BY <1>1, <1>5 DEF ParentState
  <1>7. QED
    BY <1>1, <1>2, <1>3, <1>4, <1>6 DEF FileInv

LEMMA FileStepInv ==
  ASSUME FileInv, program' = program, [FileNext]_fileVars
  PROVE  FileInv'
  <1>1. CASE FileNext
    <2>1. PICK p \in Processes : FileCall(p) \/ CallFails(p) \/ Return(p)
      BY <1>1 DEF FileNext
    <2>2. p = "parent" \/ p = "child"
      BY DEF Processes
    <2>3. QED
      BY <2>1, <2>2, ParentStep, ChildStep, ParentLeaves, ChildLeaves
  <1>2. CASE UNCHANGED fileVars
    BY <1>2, FileSame
  <1>3. QED
    BY <1>1, <1>2

LEMMA FileInvariance == Spec => []FileInv
  <1>1. Init => FileInv
    BY FileInitInv DEF Init
  <1>2. FileInv /\ [Next]_vars => FileInv'
    BY OneModuleMoves, FileStepInv
  <1>3. QED
    BY <1>1, <1>2, PTL DEF Spec

(* A program of src/io, or fork_file_sharing.c, that comes to its end has  *)
(* printed what its asserts, comments and header say, whichever calls of   *)
(* the other process come between its own; for the latter, if its child,   *)
(* whose end it does not look at, has not failed.                          *)
THEOREM FilesAsDocumented == Spec => []PrintsAsDocumented
  BY FileInvariance, PTL DEF FileInv

----------------------------------------------------------------------------
(* Types.                                                                  *)

LEMMA StdinStep == StdinTypeOK /\ [StdinNext]_stdinVars => StdinTypeOK'
  <1> USE EpollStdinAssumption
  <1>1. ASSUME StdinTypeOK, ReadStdin
        PROVE  StdinTypeOK'
    <2> DEFINE new == [k \in 1 .. BufLen |-> IF k <= Len(chunk') THEN chunk'[k] ELSE buffer[k]]
               cut == {k \in 1 .. BufLen : IsNewline(new, k)}
    <2>1. PICK n \in 0 .. BufLen : chunk' \in [1 .. n -> {"nl", "x"}]
      BY <1>1 DEF ReadStdin
    <2>2. Len(chunk') = n /\ chunk' \in UNION {[1 .. m -> {"nl", "x"}] : m \in 0 .. BufLen}
      BY <2>1
    <2>3. \A k \in 1 .. BufLen : new[k] \in {"nul", "nl", "x"}
      BY <1>1, <2>1, <2>2 DEF StdinTypeOK
    <2>4. buffer' = [k \in 1 .. BufLen |-> IF k \in cut THEN "nul" ELSE new[k]]
      BY <1>1 DEF ReadStdin
    <2>5. buffer' \in [1 .. BufLen -> {"nul", "nl", "x"}]
      <3> HIDE DEF cut, new
      <3>1. QED
        BY <2>3, <2>4
    <2>6. bytes_read' \in {n - 1, n} /\ polling' = "loop"
      BY <1>1, <2>2 DEF ReadStdin
    <2>7. QED
      BY <2>2, <2>5, <2>6 DEF StdinTypeOK
  <1>2. ASSUME StdinTypeOK, UNCHANGED stdinVars
        PROVE  StdinTypeOK'
    BY <1>2 DEF StdinTypeOK, stdinVars
  <1>3. QED
    BY <1>1, <1>2 DEF StdinNext

(* The variables of every program have their types, whichever of them is   *)
(* run and whatever the constants are.                                     *)
THEOREM ProgramsTypeCorrect == Spec => []TypeOK
  <1> DEFINE Inv == /\ CounterInv /\ StdinTypeOK /\ StdioInv /\ AddressInv /\ HandlerInv
  <1>1. Init => Inv
    <2>1. StdinInit => StdinTypeOK
      <3>1. StdinInit => chunk \in [1 .. 0 -> {"nl", "x"}]
        BY DEF StdinInit
      <3>2. QED
        BY <3>1, EpollStdinAssumption DEF StdinInit, StdinTypeOK
    <2>2. QED
      BY <2>1, CounterInitInv, StdioInitInv, AddressInitInv, HandlerInitInv DEF Init
  <1>2. Inv /\ [Next]_vars => Inv'
    BY OneModuleMoves, CounterStepInv, StdinStep, StdioStepInv, AddressStepInv, HandlerStepInv
  <1>3. Inv => CounterTypeOK /\ StdinTypeOK /\ StdioTypeOK /\ AddressTypeOK /\ HandlerTypeOK
    BY DEF CounterInv, StdioInv, AddressInv, HandlerInv
  <1>4. /\ PipelineInv => PipelineTypeOK
        /\ EventInv => EventTypeOK
        /\ IInv => PipeTypeOK
        /\ FileInv => FileTypeOK
    BY DEF PipelineInv, EventInv, IInv, FileInv
  <1>5. Spec => []Inv
    BY <1>1, <1>2, PTL DEF Spec
  <1>6. QED
    BY <1>3, <1>4, <1>5, PipeInvariance, EventInvariance, PipelineInvariance,
       FileInvariance, PTL DEF TypeOK
=============================================================================
