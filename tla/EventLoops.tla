------------------------------ MODULE EventLoops ------------------------------
(***************************************************************************)
(* Programs that wait for events on descriptors: src/signals/signalfd1.c   *)
(* to signalfd4.c, which block SIGUSR1 and SIGUSR2 and read them from one  *)
(* or two signalfds, with or without epoll, and src/async-io/eventfd.c,    *)
(* which posts to an eventfd and reads the posts one by one.  A signalfd   *)
(* is the set of the signals it reads.                                     *)
(***************************************************************************)
EXTENDS Executable, Integers, Sequences

CONSTANTS USR1, USR2,  \* the numbers of the signals
          Reps         \* n_reps

ASSUME EventLoopsAssumption ==
    /\ USR1 \in Nat /\ USR2 \in Nat /\ USR1 < USR2
    /\ Reps \in Nat

VARIABLES loop,        \* where main() is
          step,        \* how far the set-up is; the loop variable of eventfd.c
          pending,     \* the signals that are pending: each is so once only
          blocked,
          armed,       \* the descriptors epoll watches
          ready,       \* epoll's list of those that may be ready
          reported,    \* the descriptor epoll_wait() has returned
          posts        \* the count of the eventfd

eventVars == <<loop, step, pending, blocked, armed, ready, reported, posts>>

SignalPrograms == {"signalfd1", "signalfd2", "signalfd3", "signalfd4"}
Signals == {USR1, USR2}
Each == <<{USR1}, {USR2}>>

EventTypeOK ==
    /\ loop \in {"off", "setup", "wait", "read", "rearm", "post", "react", "killed", "exited"}
    /\ step \in Nat
    /\ pending \subseteq Signals
    /\ blocked \subseteq Signals
    /\ armed \subseteq SUBSET Signals
    /\ ready \in Seq(SUBSET Signals)
    /\ reported \subseteq Signals
    /\ posts \in 0 .. Reps

EventInit ==
    /\ loop = CASE program \in SignalPrograms -> "setup"
                [] program = "eventfd" -> "post"
                [] OTHER -> "off"
    /\ step = 0
    /\ pending = {} /\ blocked = {} /\ armed = {}
    /\ ready = <<>>
    /\ reported = {}
    /\ posts = 0

----------------------------------------------------------------------------
(* The kernel's part.                                                      *)

CanRead(d) == d \cap pending # {}

Enlisted(list) == {list[k] : k \in DOMAIN list}

\* Another process sends a signal.
SendSignal(s) ==
    /\ loop \in {"setup", "wait", "read", "rearm"}
    /\ IF s \in blocked
       THEN /\ pending' = pending \union {s}
            /\ ready' = LET woken == {d \in armed : s \in d} \ Enlisted(ready)
                        IN  IF woken = {} THEN ready ELSE Append(ready, CHOOSE d \in woken : TRUE)
            /\ UNCHANGED loop
       ELSE /\ loop' = "killed"
            /\ UNCHANGED <<pending, ready>>
    /\ UNCHANGED <<step, blocked, armed, reported, posts>>

\* epoll_ctl(): the descriptor is watched, and listed at once if something is pending.
Arm(d) ==
    /\ armed' = armed \union {d}
    /\ ready' = IF CanRead(d) /\ d \notin Enlisted(ready) THEN Append(ready, d) ELSE ready

----------------------------------------------------------------------------
(* The loops over signalfds.                                               *)

\* In which steps the signals are blocked, and then the descriptors registered.
ToBlock == IF program = "signalfd2" THEN Each ELSE <<Signals>>
Descriptors ==
    CASE program = "signalfd1" -> <<>>
      [] program = "signalfd3" -> <<Signals>>
      [] OTHER -> Each

Block ==
    /\ loop = "setup"
    /\ step < Len(ToBlock)
    /\ blocked' = blocked \union ToBlock[step + 1]
    /\ step' = step + 1
    /\ UNCHANGED <<loop, pending, armed, ready, reported, posts>>

Register ==
    /\ loop = "setup"
    /\ step - Len(ToBlock) \in 0 .. Len(Descriptors) - 1
    /\ Arm(Descriptors[step - Len(ToBlock) + 1])
    /\ step' = step + 1
    /\ UNCHANGED <<loop, pending, blocked, reported, posts>>

\* signalfd1.c has one descriptor and goes straight to read().
EnterLoop ==
    /\ loop = "setup"
    /\ step = Len(ToBlock) + Len(Descriptors)
    /\ IF program = "signalfd1"
       THEN loop' = "read" /\ reported' = Signals
       ELSE loop' = "wait" /\ UNCHANGED reported
    /\ UNCHANGED <<step, pending, blocked, armed, ready, posts>>

\* epoll_wait() with room for one event.  What it reports goes to the end of the list,
\* or with EPOLLONESHOT is watched no longer; what is not ready any more leaves the list.
EpollWait ==
    /\ loop = "wait"
    /\ ready # <<>>
    /\ LET d == Head(ready) IN
       IF CanRead(d)
       THEN /\ ready' = IF program = "signalfd3" THEN Tail(ready) ELSE Append(Tail(ready), d)
            /\ armed' = IF program = "signalfd3" THEN armed \ {d} ELSE armed
            /\ reported' = d
            /\ loop' = "read"
       ELSE /\ ready' = Tail(ready)
            /\ UNCHANGED <<armed, reported, loop>>
    /\ UNCHANGED <<step, pending, blocked, posts>>

\* read() takes the pending signal with the lowest number.  Without one it would fail in
\* signalfd3.c and signalfd4.c, and the loop exit, or hang in signalfd2.c.
ReadSignal ==
    /\ loop = "read"
    /\ CanRead(reported)
    /\ pending' = pending \ {CHOOSE s \in reported \cap pending :
                               \A r \in reported \cap pending : s <= r}
    /\ loop' = CASE program = "signalfd1" -> "read"
                 [] program = "signalfd3" -> "rearm"
                 [] OTHER -> "wait"
    /\ UNCHANGED <<step, blocked, armed, ready, reported, posts>>

\* mutant: EPOLL_CTL_MOD is forgotten after EPOLLONESHOT
RearmForgotten ==
    /\ loop = "rearm"
    /\ loop' = "wait"
    /\ UNCHANGED <<step, pending, blocked, armed, ready, reported, posts>>

Rearm ==
    /\ loop = "rearm"
    /\ Arm(reported)
    /\ loop' = "wait"
    /\ UNCHANGED <<step, pending, blocked, reported, posts>>

----------------------------------------------------------------------------
(* eventfd.c: main() posts, then calls reactor().                          *)

Post ==
    /\ loop = "post"
    /\ IF step < Reps
       THEN posts' = posts + 1 /\ step' = step + 1 /\ UNCHANGED loop
       ELSE loop' = "react" /\ step' = 0 /\ UNCHANGED posts
    /\ UNCHANGED <<pending, blocked, armed, ready, reported>>

\* EFD_SEMAPHORE: one read() takes one post.
React ==
    /\ loop = "react"
    /\ IF step < Reps
       THEN posts > 0 /\ posts' = posts - 1 /\ step' = step + 1 /\ UNCHANGED loop
       ELSE loop' = "exited" /\ UNCHANGED <<posts, step>>
    /\ UNCHANGED <<pending, blocked, armed, ready, reported>>

EventMain == Block \/ Register \/ EnterLoop \/ EpollWait \/ ReadSignal \/ Rearm \/ Post \/ React

EventNext == EventMain \/ \E s \in Signals : SendSignal(s)

\* The loops run; nobody has to send anything.
EventFairness == WF_eventVars(EventMain)

----------------------------------------------------------------------------
\* What is watched and may be read is on epoll's list, so the loop does not sleep over a
\* signal, whenever it came.
Overlooked(d) == CanRead(d) /\ d \notin Enlisted(ready)
NoWakeupLost ==
    /\ \A d \in armed : ~Overlooked(d)
    /\ loop = "wait" => \A s \in pending : \E d \in Enlisted(ready) : s \in d

\* Which descriptors are watched in which part of main().
Registered == Enlisted(Descriptors)
WatchedAsRegistered ==
    /\ program \notin SignalPrograms => armed = {} /\ loop \notin {"setup", "wait", "read", "rearm"}
    /\ program \in SignalPrograms => loop \notin {"off", "post", "react"}
    /\ armed \subseteq Registered /\ Enlisted(ready) \subseteq Registered
    /\ loop = "setup" => /\ step <= Len(ToBlock) + Len(Descriptors)
                         /\ \A k \in DOMAIN Descriptors : k <= step - Len(ToBlock) => Descriptors[k] \in armed
    /\ loop \in {"read", "rearm"} /\ program # "signalfd1" => reported \in Registered
    /\ loop = "wait" => armed = Registered /\ program # "signalfd1"
    /\ loop = "read" => IF program = "signalfd3" THEN armed = Registered \ {reported} ELSE armed = Registered
    /\ loop = "rearm" => program = "signalfd3" /\ armed = Registered \ {reported}

ReportHolds == loop = "read" /\ program # "signalfd1" => CanRead(reported)

\* The eventfd holds what has been posted and not yet taken.
PostsCounted ==
    /\ loop = "post" => step <= Reps /\ posts = step
    /\ loop = "react" => step <= Reps /\ posts = Reps - step
    /\ program = "eventfd" /\ loop = "exited" => posts = 0

EventInv ==
    EventTypeOK /\ WatchedAsRegistered /\ NoWakeupLost /\ ReportHolds /\ PostsCounted

\* A report of epoll_wait() is used later, with more signals arriving in between: it
\* still holds, so that read() neither fails nor hangs.  A signal that arrives once it is
\* blocked is read in the end, however many others come and though epoll_wait() reports
\* one descriptor at a time; only where one descriptor stands for both may SIGUSR1, sent
\* over and over, keep SIGUSR2 from being read.  The reactor sees the end of its posts.
EveryEventRead ==
    /\ [](loop = "read" /\ program # "signalfd1" => CanRead(reported))
    /\ USR1 \in pending ~> USR1 \notin pending \/ loop = "killed"
    /\ (program \in {"signalfd2", "signalfd4"} \/ <>[](USR1 \notin pending))
          => (USR2 \in pending ~> USR2 \notin pending \/ loop = "killed")
    /\ loop = "post" ~> loop = "exited" /\ posts = 0
=============================================================================
