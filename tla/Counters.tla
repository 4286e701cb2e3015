------------------------------- MODULE Counters -------------------------------
(***************************************************************************)
(* src/sync/sem1.c and src/data/local_static2.c: threads that each add 1   *)
(* to a shared counter a fixed number of times, under a semaphore of value *)
(* 1 and under a mutex.  An increment is a load and a store.               *)
(***************************************************************************)
EXTENDS Executable, Naturals, FiniteSets

CONSTANTS Workers,     \* N_THREADS
          Ops          \* N_OPS, N_ITERS

ASSUME CountersAssumption == IsFiniteSet(Workers) /\ Workers # {} /\ Ops \in Nat \ {0}

VARIABLES counting,    \* main()
          worker,      \* where each thread is
          done,        \* the loop variable of each
          loaded,      \* what each has read of count
          count,       \* count in sem1.c, local in local_static2.c
          unlocked     \* the semaphore's value is 1, the mutex is free

counterVars == <<counting, worker, done, loaded, count, unlocked>>

CounterPrograms == {"sem1", "local_static2"}

CounterTypeOK ==
    /\ counting \in {"off", "create", "join", "exited"}
    /\ worker \in [Workers -> {"none", "lock", "load", "store", "unlock", "ended"}]
    /\ done \in [Workers -> 0 .. Ops]
    /\ loaded \in [Workers -> Nat]
    /\ count \in Nat
    /\ unlocked \in BOOLEAN

CounterInit ==
    /\ counting = IF program \in CounterPrograms THEN "create" ELSE "off"
    /\ worker = [t \in Workers |-> "none"]
    /\ done = [t \in Workers |-> 0]
    /\ loaded = [t \in Workers |-> 0]
    /\ count = 0
    /\ unlocked = TRUE

Create(t) ==
    /\ counting = "create"
    /\ worker[t] = "none"
    /\ worker' = [worker EXCEPT ![t] = "lock"]
    /\ counting' = IF \E u \in Workers \ {t} : worker[u] = "none" THEN "create" ELSE "join"
    /\ UNCHANGED <<done, loaded, count, unlocked>>

Goes(t, from, to) ==
    /\ worker[t] = from
    /\ worker' = [worker EXCEPT ![t] = to]
    /\ UNCHANGED counting

\* mutant: sem_trywait() for sem_wait(), its result not looked at
TryLock(t) ==
    /\ Goes(t, "lock", "load")
    /\ unlocked' = FALSE
    /\ UNCHANGED <<done, loaded, count>>

Lock(t) ==
    /\ Goes(t, "lock", "load")
    /\ unlocked
    /\ unlocked' = FALSE
    /\ UNCHANGED <<done, loaded, count>>

Load(t) ==
    /\ Goes(t, "load", "store")
    /\ loaded' = [loaded EXCEPT ![t] = count]
    /\ UNCHANGED <<done, count, unlocked>>

Store(t) ==
    /\ Goes(t, "store", "unlock")
    /\ count' = loaded[t] + 1
    /\ UNCHANGED <<done, loaded, unlocked>>

Unlock(t) ==
    /\ Goes(t, "unlock", IF done[t] + 1 < Ops THEN "lock" ELSE "ended")
    /\ unlocked' = TRUE
    /\ done' = [done EXCEPT ![t] = @ + 1]
    /\ UNCHANGED <<loaded, count>>

CounterThread(t) == Lock(t) \/ Load(t) \/ Store(t) \/ Unlock(t)

Join ==
    /\ counting = "join"
    /\ \A t \in Workers : worker[t] = "ended"
    /\ counting' = "exited"
    /\ UNCHANGED <<worker, done, loaded, count, unlocked>>

CounterNext == Join \/ \E t \in Workers : Create(t) \/ CounterThread(t)

----------------------------------------------------------------------------
\* The turns in which a thread has stored.
Increments ==
    {u \in Workers \X (1 .. Ops) :
        u[2] <= done[u[1]] \/ (worker[u[1]] = "unlock" /\ u[2] = done[u[1]] + 1)}

\* No increment is lost, at any time and in any interleaving, so the assertion of
\* sem1.c:44 holds after the threads have been joined.
NoLostUpdate ==
    /\ count = Cardinality(Increments)
    /\ counting = "exited" => count = Cardinality(Workers) * Ops

Holding(t) == worker[t] \in {"load", "store", "unlock"}

\* One thread at a time is between the wait and the post, and what it has loaded is current.
OneHolds ==
    /\ unlocked <=> \A t \in Workers : ~Holding(t)
    /\ \A t, u \in Workers : Holding(t) /\ Holding(u) => t = u
    /\ \A t \in Workers : worker[t] = "store" => loaded[t] = count

\* Each thread makes as many turns as its loop says, and all have before main() returns.
TurnsCounted ==
    /\ \A t \in Workers : /\ worker[t] = "none" => done[t] = 0
                          /\ worker[t] = "lock" \/ Holding(t) => done[t] < Ops
                          /\ worker[t] = "ended" => done[t] = Ops
    /\ counting = "exited" => \A t \in Workers : worker[t] = "ended"

CounterInv == CounterTypeOK /\ OneHolds /\ TurnsCounted /\ NoLostUpdate
=============================================================================
