# TLA+ models of unix-internals

The repository is a collection of small C programs for Linux. Its core is `src/servers`: one echo
service, implemented with every classical way of serving several clients at once. Around it lie
small programs on pipes, signals, files, buffers and threads, each about one rule of the system that is
easily broken. This directory models the servers with what they share with the kernel and with their
clients, and the small programs with the kernel's part in each, checks them with TLC on small instances,
and proves the main results for all parameters with TLAPS.

## 1. Inventory

| Component | State | Operations | Interacts through | Hard behaviour | What makes it correct |
|---|---|---|---|---|---|
| `servers/select.c` | `clientfd`, `read_set`, `ready_set`, `nready`, `maxfd`, `maxi` | wait, accept + `add_client`, pass over the ready clients | sockets | a stale report, four tables to keep equal, a count to spend exactly, any failed call ends all clients | tables agree, count exact, nobody left out, echo promise |
| `servers/poll.c` | `pollfds` with `revents`, `nready` | as select.c | sockets | the listening socket sits in the same table; a full table | as select.c; only clients are read |
| `servers/prethreaded.c` | a mutex, per thread `cfd`, `addrlen` | lock, accept, unlock, serve, exit | sockets, mutex, `pthread_join` | a worker exits with the mutex locked | mutual exclusion, one worker per client, no starvation while a worker is free |
| `servers/forking.c` | processes, SIGCHLD, descriptors in two processes | accept, fork, close, reap | sockets, signals, `wait` | signals that do not count, EINTR, a connection held twice | no zombie forgotten while the handler is installed, connection open exactly while held, echo promise |
| `servers/preforking.c` | a fixed pool of processes, SIGCHLD | fork the pool, accept in each, reap | one listening socket | workers die with their client and are never replaced | one worker per client, at most one worker lost per bad client |
| `servers/threaded.c` | an intrusive list of threads, a thread per client | accept, create, push | sockets, heap cells handed to threads | argument passed by pointer, leaked descriptors, threads never joined | each thread serves its own client; list well formed |
| `servers/iterative.c`, `sockets/unix_stream_server.c` | the current client | accept, serve, close | sockets | one silent client blocks all others | echo promise; nobody skipped |
| `servers/client.c`, `sockets/unix_stream_client.c` | one outstanding chunk | connect, write, read echo, close | sockets | a reply of another length | at most one chunk outstanding |
| `servers/util.c` | the list of addresses, one socket | `client_socket`, `server_socket` | `getaddrinfo`, sockets | failure in the middle of the list | no descriptor leaked, first usable address taken |
| `async-io/epoll1.c`, `epoll2.c`, `eventfd.c` | interest list, pipes, an event counter | wait, read, deregister | pipes, threads | hang-up together with data, a count read one by one | everything written is read, the loop ends |
| `process/fork2.c`, `redirect1.c`, `io/*`, `process/fork_file_sharing.c` | descriptor tables, open files, pipes | `fork`, `dup2`, `close`, `wait`, `read`, `write` | inherited descriptors | waiting before reading, an end of a pipe left open, shared offsets | end of file is seen; no deadlock within the pipe's capacity |
| `signals/*` | masks, pending sets, handlers | block, send, wait, read from `signalfd` | signals | a signal between test and wait, instances that collapse | no wake-up lost |
| `sync/sem1.c`, `data/local_static2.c` | a counter | lock, increment, unlock | threads | lost updates | the assertion after the join |
| `stdio/*`, `nonlocal/*`, `numeric/*` | a buffer; a jump buffer; an integer | print, fork, jump, convert | - | buffer copied by `fork` | each byte written the expected number of times |
| `common/error.c` | - | `error_exit` | everything | - | ends the process |
| `data/*` (layout), `compilation/*`, `perf/*`, `macho/*` | none beyond one function | - | - | - | - |

## 2. Modules and plan

Written, in this order:

| Module | Kind | Models |
|---|---|---|
| `Tcp` | kernel and clients | the listening socket, the accept queue, the connections, the chunks in flight; the programs that connect |
| `Descriptors` | kernel | the descriptor table of a single-process server, lowest free number first |
| `EchoService` | abstract specification | what every echo server promises |
| `SelectServer`, `MCSelectServer`, `SelectServerProofs` | program | `servers/select.c` |
| `PollServer`, `MCPollServer`, `PollServerProofs` | program | `servers/poll.c` |
| `PrethreadedServer`, `MCPrethreadedServer`, `PrethreadedServerProofs` | program | `servers/prethreaded.c` |
| `ForkingServer`, `MCForkingServer`, `ForkingServerProofs` | program | `servers/forking.c` |
| `TcpProofs` | lemmas | what each kernel and client step does to the invariants of `Tcp` and `Descriptors` |
| `AcceptLoops`, `MCAcceptLoops`, `AcceptLoopsProofs` | programs | `servers/iterative.c`, `sockets/unix_stream_server.c`, `servers/preforking.c` |
| `ThreadedServer`, `MCThreadedServer`, `ThreadedServerProofs` | program | `servers/threaded.c` |
| `IntrusiveList` | part of it | the doubly linked list of `threaded.c` |
| `Executable` | shared variable | which of the small programs runs |
| `EpollPipes` | program | `async-io/epoll1.c` |
| `EpollStdin` | program | `async-io/epoll2.c` |
| `EventLoops` | programs | `signals/signalfd1.c` to `signalfd4.c`, `async-io/eventfd.c` |
| `Handlers` | programs | `signals/suspend1.c`, `stop1.c` with `spin1.c`, `pending1.c`, `nonlocal/nonlocal1.c` |
| `Pipeline` | programs | `process/fork2.c`, `redirect1.c` |
| `Counters` | programs | `sync/sem1.c`, `data/local_static2.c` |
| `FileSharing` | programs | `io/dup1.c` to `dup3.c`, `open1.c` to `open4.c`, `share1.c`, `hole.c`, `process/fork_file_sharing.c` |
| `StdioBuffer` | programs | `stdio/buffering1.c` to `buffering4.c` |
| `AddressLoop` | functions | `client_socket` and `server_socket` of `servers/util.c` |
| `MCPrograms` | composition | all of the small programs, one at a time |
| `ProgramsProofs` | proofs | what holds of the small programs for any number of threads, writers, chunks, addresses and posts |

Planned, most important first:

1. `client.c` below a chunk: an echo that comes back in two reads.
2. Proofs: for the event loops and the servers what `OnlyFailureBlocks` and `PipelineUsesUp` say of the pipes: that
   a server with something to do can do it, and that a client's demand is used up.

`Descriptors` extends `Tcp`; each server module extends one of the two, adds its own variables, and
conjoins `ClientStep` (a client moves, the server does not) with its own actions. Each server module
instantiates `EchoService` with a mapping of `running` and of `MayRefuse` (whether the service may turn
clients away that wait) and states `Promise == Service!Spec`. `PollServer` maps `MayRefuse` to TRUE: it may close its
listening socket and go on serving, which is a refusal of all those who wait; it owes the others the same
as every server.

The small programs do not interact with each other or with the servers. `Executable` declares the one
variable they share, `program`, the name of the executable. Each of the modules above that extends it
reads `program` in its initial state: its processes start if the program is one of its own, and stay
"off" otherwise. `MCPrograms` extends them all, conjoins their initial states, and in each step lets one
of them move while the variables of the others stay as they are; every behaviour is thus a run of one
program, chosen in the initial state out of `Executables`.

## 3. How the models correspond to the code

**`Tcp`.** A client connects once (`conn`: none, queued, open, closed); its data is counted in
chunks, a chunk being what one `write()` of a client carries. `sent`, `got`, `echoed`, `rcvd` count
the chunks at the four places they can be: in the server's receive buffer, in the server's `buffer`,
on the way back, and at the client. Since every server writes back the bytes it has just read, the
contents of chunks never matter, only whether a count passes the next one. `SndBuf` bounds what the
kernel takes towards a client that does not read. A client in `LockStep` behaves as `client.c`: it
writes, reads the echo, and leaves when it has everything. The others send ahead, stop reading, leave
or are reset at any moment. `close()` with unread echoes, and the death of a client, are resets.

**`Descriptors`.** `sock` maps the server's descriptors to clients; `accept()` returns the lowest
free number, so numbers are reused within a run.

**`SelectServer`, `PollServer`.** One action per system call of the loop with the bookkeeping up to
the next one: `Select`/`Poll` compute the report; `NewClient` is accept with the whole of
`add_client`; `SkipSlot`, `ReadClient`, `CloseClient`, `WriteClient` are the branches of
`process_ready_clients`; `WriteFails`, `NewClientFails` are `error_exit`, which takes the process and
all descriptors with it, as does SIGPIPE. Clients move between any two steps, so the report may be
older than the state it is used in. In `PollServer`, slot 0 is the listening socket, and the pass
starts there, as in the code. The search beyond a full table (poll.c:70) either crashes or leaves the
client without a slot: both are outcomes of the model. In `SelectServer`, `FD_SET` of a descriptor
at or above `FD_SETSIZE` leads to `pc = "undefined"`, from where nothing is promised.

**`PrethreadedServer`.** `pc[w]` is the position of each thread in `server_worker` and
`handle_connection`. `addrlen` is uninitialized until the thread's first successful `accept()`
(prethreaded.c:52); with a negative value `accept()` takes the connection, fails with EINVAL and
drops it, and the worker exits holding the mutex. `MayReject` says whether this can happen.

**`ForkingServer`.** Parent, children and the SIGCHLD handler run interleaved; the handler suspends
the parent. `sa.sa_flags` is never set (forking.c:50-52), so its value is a nondeterministic choice
out of `Flags`, of which only SA_RESTART and SA_RESETHAND change anything modelled; `limit` is how
many children the system has room for. A connection is
open while the parent (`current`) or its child has a descriptor for it, and the listening socket
while the parent or a child that has not yet closed its copy lives. `Deliver` lets the handler interrupt
`accept()` for good (`eintr`) only while no connection waits, since one that waits is returned whatever signal
is pending; a client may still connect before the parent exits. With SA_RESETHAND the handler is gone after its
first run and children that end later stay zombies: `NoLostChild` names this exception and no other.

**`AcceptLoops`.** Three programs whose serving loop is the same and which differ in what a failed
call ends; `program` is chosen in the initial state. `Solo` is the one process of `iterative.c` and
`unix_stream_server.c`; in `preforking.c` all of `Workers` are forked by the parent (`main`), may fail
to be forked, die with `error_exit` or on SIGPIPE, and are reaped and not replaced. The listening
socket goes with the last process that holds it (`ListenerGoes`). A UNIX domain client that has
closed is unreachable at once, where a TCP client can be written to until the reset arrives
(`Unreachable`, and the restriction in `ClientMove`).

**`ThreadedServer`.** The `thread_t` made for a client is named by that client, so the cell a thread
is handed has an identity that the next `accept()` does not change. `FetchDescriptor` is the thread's
first step, at any time later, when it reads its argument. `IntrusiveList` keeps `flink` and `blink`
with the head as an entry of its own. `MaxConns` and `MaxThreads` are the limits at which `accept()`
and `pthread_create()` fail; ended threads count, because none is ever joined, and so does a
descriptor left open by the early return of threaded.c:114.

**`EpollPipes`.** One pipe for each writer, filled and drained a chunk (BUFSIZE bytes, at most
PIPE_BUF, hence written whole) at a time. `Report` is the branch of epoll1.c:133-149 that the flags of
a pipe select; `epoll_wait()` is one step, the events it returned are then handled in any order while
the writers go on. Writers start while main() is still making pipes, and each may return early.
`NothingUnread` excludes that a writer ever gets SIGPIPE (`WriterKilled`).

**`EpollStdin`.** One action is one turn of the loop, with any chunk `read()` may return, of up to `BufLen`
bytes that are newlines or not. `buffer` keeps what the chunk does not overwrite, as in the code. Behind a
full buffer there may or may not be a newline, which `strchr()` would then find (and the program overwrite);
only the count that is printed is followed from there.

**`EventLoops`.** A signalfd is the set of signals it reads; `pending` is a set, so instances of a signal
collapse. `armed` and `ready` are epoll's interest and ready lists: a signal that arrives puts its
descriptor at the end of `ready`, `EpollWait` takes the first, checks it again and puts it back at the end
(level-triggered), or drops it and stops watching (EPOLLONESHOT in signalfd3.c). This order is what keeps one
signal from starving the other where each has its descriptor. Before it is blocked a signal ends the
program (`killed`). `eventfd.c` posts and then reads; one read takes one post (EFD_SEMAPHORE).

**`Handlers`.** `sent` is what is pending, `mask` what is blocked. `suspend1.c` tests and suspends in two
steps; `Suspend` unblocks and waits in one, and `CatchUser` runs the handler for whatever is pending and puts
the mask back. `JumpBack` is the handler of `nonlocal1.c` and the second return of `sigsetjmp()`, whose
second argument makes the kernel's block of SIGINT end there. In `stop1.c` SIGCHLD is not blocked although a
comment says so (stop1.c:66), and `sa_flags` is uninitialized: SA_RESETHAND and SA_NOCLDSTOP are arbitrary.
`news` stands for a change of the child's state that `wait` has yet to return; `CatchChld` is the loop over
`waitpid()`. The child may be stopped and continued by anybody at any time.

**`Pipeline`.** `holds` says which ends of which pipes each process has, inherited by `fork()` and dropped
by `close()` and exit; a pipe is at its end when it is empty and nobody holds its write end (`AtEnd`), which
includes a reader's own inherited copies. fork() may fail for either child (and the parent goes on), dup2()
and exec() in it. When wc cannot be executed, the child's `exit()` writes out the stdio buffer it has
inherited, if the parent's output is not a terminal: the line "forked writer process" then comes out of the
pipe a second time, as `Passed` allows.

**`Counters`.** `++count` is a load and a store; the wait and the post, or lock and unlock, are steps of their
own. `Increments` is the set of turns in which a thread has stored.

**`FileSharing`.** A program is the sequence of its calls (`Dup1Calls`, ...), which one set of actions
carries out against descriptor tables (per process), open file descriptions (offset, O_APPEND) and one file.
fork() copies the table, not the descriptions. Every call that is checked may fail and end its process. The
file starts empty; its removal at the end is left out, since nothing opens it afterwards. `Documented` is
what the assertions, comments and headers of each program say it prints.

**`StdioBuffer`.** Whether the line is still in the buffer when the process forks or ends, for a terminal and
for anything else. `error_exit()` after a failed fork() flushes too.

**`AddressLoop`.** The two loops over the results of getaddrinfo(), every call of which may fail. It stands
behind `Connect` and `TcpInit` of `Tcp`, which have its results only. SO_REUSEADDR is set from an uninitialized
`optval` (util.c:77, 87): that can only make bind() fail, which the model allows anyway.

## 4. Runs

| Run | Configuration | Outcome | Properties | What it shows |
|---|---|---|---|---|
| `select` | `MCSelectServer.cfg` | holds | `TypeOK`, `DescriptorsTracked`, `ReadyBudget`, `ExitProvoked`, `Promise`, `EveryClientServed` | Two clients like client.c and one that sends ahead, stalls, leaves and resets, over two descriptors: the four tables of select.c agree, the count of ready clients is exact, no round leaves a ready client out, the loop implements EchoService, and every client is accepted, answered and, when it leaves, hung up on. |
| `poll` | `MCPollServer.cfg` | holds | `TypeOK`, `TableMatchesSockets`, `Promise`, `EveryClientServed` | Three clients over a table of three slots: poll.c implements EchoService although its count of ready clients is off by one in a round that accepts, and goes on answering after it has closed its listening socket. |
| `poll_clients` | `MCPollServer_clients.cfg` | violated | `OnlyClientsProcessed` | When a client connects in the same round as another is ready, the pass over the table reads the listening socket of slot 0. |
| `poll_full` | `MCPollServer_full.cfg` | violated | `FullTableExits` | A client accepted when the table is full neither ends the server nor gets a slot. |
| `prethreaded` | `MCPrethreadedServer.cfg` | holds | `TypeOK`, `AcceptAlone`, `OneWorkerPerClient`, `Promise`, `EveryClientServed` | Two workers and three clients in every interleaving, with accept() failing on an uninitialized length: accept() under mutual exclusion, each connection served by exactly one worker, EchoService implemented, and a waiting client accepted whenever a worker is free and the mutex is not lost. |
| `prethreaded_abandoned` | `MCPrethreadedServer_abandoned.cfg` | violated | `IdleWorkerServes` | A worker whose accept() fails exits with the mutex locked: the other worker is idle for ever while clients wait. |
| `forking` | `MCForkingServer.cfg` | holds | `TypeOK`, `NoLostChild`, `ConnectionHeld`, `Promise`, `EveryClientServed` | Two clients, one or two processes at most, every value of sa_flags: no zombie is forgotten although SIGCHLD does not count, unless sa_flags holds SA_RESETHAND and the handler has run once; a connection is open exactly while a process has it, and parent and children implement EchoService. |
| `forking_eintr` | `MCForkingServer_eintr.cfg` | violated | `ForksForEachClient` | sa_flags is uninitialized: without SA_RESTART the end of a child makes an accept() that found no connection fail with EINTR, and the server exits on a client that connects meanwhile. |
| `accept_loops` | `MCAcceptLoops.cfg` | holds | `TypeOK`, `OneWorkerPerClient`, `LossesPaid`, `Promise`, `EveryClientServed` | iterative.c, unix_stream_server.c and preforking.c with two processes, three clients each: a connection has exactly one process, a client costs the pool at most one process, and a waiting client has its turn once those before it have left. |
| `threaded` | `MCThreadedServer.cfg` | holds | `TypeOK`, `OwnThread`, `EveryThreadListed`, `LeakedOnlyByReset`, `Promise`, `EveryClientServed` | Three clients, two threads and two descriptors at most: every thread serves the client it was started for, the list of threads is one ring through all of them, and only a reset client's descriptor is leaked. |
| `programs` | `MCPrograms.cfg` | holds | `TypeOK`, `NoLostUpdate`, `PrintsAsDocumented`, `CopiesWritten`, `NoSocketLeaked`, `EveryPipeEnds`, `EveryEventRead`, `PipelineEnds`, `NoSignalLost` | Thirty-odd small programs, one in each behaviour, with their threads, children and signals in every interleaving and their calls failing: no increment is lost, shared files read as documented, the stdio buffer is written as often as it should be, no socket leaks, every pipe is read to its end, every signal and post is read, every pipeline ends, and no signal is lost. |
| `epoll_stdin` | `MCPrograms_stdin.cfg` | violated | `TrailingNewlineOnly` | The newline epoll2.c removes, and counts off, need not be the trailing one of what it has just read. |

**Bounds.** Three clients are enough for one to be served, one to be waiting and one to leave a
descriptor or a worker behind for another; two descriptors (`NoFile` = 6) or two workers make them
compete and one be turned away. In the forking server every client has its own process, so two clients
show two children ending together, and a process limit of one (`Limits`) makes `fork()` fail. `Backlog`, `SndBuf` and `BufSize` are 1 or 2 so that a full queue, a full
send buffer and a `read()` that takes only part of what is there all happen. `MaxSend` = 2 lets a
client send ahead of its echoes; clients in `Terse` send at most once, which keeps the liveness runs
within a minute or two.

In `MCPrograms`, where `epoll1.c` runs, three writers show one that has failed beside one that has hung
up and one that still writes, and a pipe of one chunk out of two makes a writer wait. Of the counters there are
two threads as in the code, and three turns (`Ops`) of the 10000, which let each thread be between any two
steps of its turn while the other is in an earlier, the same or a later one. `redirect1.c` and `fork2.c`
write two chunks into pipes that hold two (`Echoed` = `Capacity`), the most for which waiting before reading
is safe (a larger `Echoed` is excluded by `PipelineAssumption`, and would be a deadlock). `eventfd.c` has
three posts, `epoll2.c` a buffer of three bytes, so that a read can be shorter than the one before and a
newline can be first, in the middle, last, left over or missing. Of addresses there are up to three: one
that fails, one that serves, and one that must not be tried. Two signals and any number of each are sent at
any time. The programs of `io` run whole. All clients may be
done, or the server gone, in a final state, so the runs do not check for deadlock; the liveness
properties say what must have happened by then.

**Fairness.** Weak fairness is assumed only of code that runs by itself: the single loop of
`select.c` and `poll.c` (`WF(ServerStep)`: `select()` returns when something is ready), each thread
and process of the others, the delivery of a pending signal. Nothing is assumed of clients: a client
may stop anywhere. Hence the escapes in the liveness properties: a client that was reset, and, where
`write()` blocks, one that does not read its echoes (`Stalled`). In `EpollPipes` each writer and main() are scheduled; whether a writer returns
early is nobody's obligation. In `Pipeline` the parent and each child run (`PipelineFairness`), echo and wc
included; in `EventLoops` the loop runs (`EventFairness`) and nobody has to send a signal; in `Handlers` the
program runs, what is pending and unblocked is delivered, and the child executes and gets its alarm
(`HandlerFairness`), but nobody has to press a key or to continue a child that was stopped. Counters, files,
buffers and addresses have no liveness property and no fairness.

**Mutants.** Beside some definitions a module holds a changed version of it, marked "mutant": a
plausible mistake at that place (a limit off by one, a table not updated, a lock not taken). None of
them is part of the specification. Each property is violated when some mutant takes the place of its
original.

## 5. Proofs

For each server the inductive invariant is `IInv`, a conjunction of named parts defined in the
server's module and checked there by TLC before it was proved. `TypeOK` and the invariants of the kernel
(`TcpInv`: counts ordered, the queue holds exactly the waiting connections, nothing read before
accept) are in each, and so is `NothingHeldBack` (a chunk read and not written back is in the hands of
whoever serves its client), which `Promise` needs and no run lists by itself. The rest is what makes the properties inductive:

* `SelectServer`: `SockOK` (descriptors and open connections correspond one to one), `RoundOK` (while
  a round lasts, what the report says is about tracked descriptors, and nothing but the pass itself
  removes one). `ReadyBudget` needs `DescriptorsTracked`, because counting the pending slots needs
  that two slots never hold one descriptor; `NobodyPassedOver` follows from it. `OnlyProvokedExit` rests
  on a second invariant, `OneChunkOutstanding` of `Tcp`: a client that behaves as `client.c` never has a chunk
  sent ahead, so its echo fits, and never closes with an echo unread, so it never resets.
* `PollServer`: `SockOK` and `RoundOK` again, the latter with what becomes of slot 0: while the server listens it
  holds the listening socket, and once that is closed it stays empty, since only a report about slot 0 leads to
  `accept()`. What is reported at `accept()` is readable, hence its slots are taken, hence the first free slot
  is not among them and the new client is not taken for one that was reported. `BudgetCountsListener` is what
  keeps `nready` from going below zero, and says exactly by how much the count is off. `KeepsPromise` needs
  `ReportStillTrue` (a `read()` that returns nothing was not EAGAIN) with `NothingHeldBack` for a hang-up, and that
  the end of the listening socket leaves the open connections alone.
* `PrethreadedServer`: `ClientWhileServing` (which positions have a client) and `AnsweredBeforeClose`
  (a worker about to close has seen the end of file and has written everything).
* `ForkingServer`: `ParentHolds` (the parent has a client exactly between accept and close, and that
  client has a child exactly after fork), `HandlerInstalled`, `AnsweredBeforeClose`.
* `AcceptLoops`: `Roles` (which processes exist in which of the three programs), `ListenerHeld`, `NoLostWorker`.
  `OneLossPerReset` is proved on top of `IInv` by counting: a process that has accepted a client dies only in a step that
  closes the connection of a client that was reset, which adds one to the right-hand side as well; and a
  closed connection is never opened again, so that no client pays twice.
* `ThreadedServer`: `MainHolds` (the thread main() has just made, and the one it has yet to push). That the
  list is complete is the lemma `PushRing`: `IsRingOf` says that there is a numbering of the head and the threads
  in which `flink` goes one up and `blink` one down, all the way round; `list_push()` puts its thread
  right behind the head, which moves every other thread one up. `RingStays` says that no other step touches the links.

Of the small programs each has an invariant in its own module, and a step of `MCPrograms` is a step of one
module and leaves the others alone (`OneModuleMoves`), so each is proved by itself:

* `CounterInv`: at most one thread is between wait and post, what it has loaded is still `count`, and the
  counter is the number of stores made. `IInv` of `EpollPipes`: `WriterPipe` (a writer that has hung up has written all
  its chunks), so a pipe that reports the hang-up and is empty has been read to the end.
* `EventInv`: `WatchedAsRegistered` and `NoWakeupLost` together: what is readable and watched is on the ready
  list, whether the signal came before or after the descriptor was registered, re-armed or reported.
* `PipelineInv`: `Conserved` (what the children owe, what is in the pipes and what was passed on add up to
  the output) and `WriterHoldsEnd` (no end of file before the writer is done).
* `AddressInv`: `OneAtATime` (which addresses have been tried when the loop is at `rp`); `StdioInv`: who has the line in
  its buffer at each place, and how many have written it; `HandlerTypeOK` with `ToldIsPending`.
* `FileInv` (in `ProgramsProofs`): the ten file programs are fixed lists of calls, so what is inductive is a
  statement for each position of a list: which descriptors are open there, onto which description, with which
  offset, what the file holds and what has been printed (`RunState`; `ChildState` for the child of `share1.c` and
  `fork_file_sharing.c`). The child shares the descriptions with its parent and runs only between `fork()` and the
  return of the wait; until then the parent touches no file, so what it prints afterwards depends on
  nothing but whether the child came to its end. From it follow `FilesAsDocumented`, which is
  `PrintsAsDocumented`, and the last part of `ProgramsTypeCorrect`, which is `TypeOK` of `MCPrograms` as a whole.

Liveness itself is out of the provers' reach, but what it rests on besides fairness is proved for
two of the programs, written without `ENABLED`, as the guards of the steps:

* epoll1.c: `OnlyFailureBlocks` says that, until the program exits, main() or a writer can go on, or else some
  writer has failed and every pipe still open is an emptied one of a writer that failed. It rests on `LoopState` (main() is
  in the loop's body only with an event left, and joins only with no pipe left).
* fork2.c and redirect1.c: `PipelineNeverStuck` says that before main() has ended some process can go on, for any
  output that fits into the pipe; it rests on `EndsGiven` (who has which end of which pipe). `PipelineUsesUp` says that
  every step, of whatever process, makes `Work`, a natural number, smaller. Together: however the processes are
  scheduled, as long as any is, the pipeline ends after at most as many steps as `Work` is in the initial state.

These proofs changed the model in three places. `PipelineInit` gave the parent its ends with a `CASE` whose
guards overlapped, where TLC took the first and the provers rightly neither; `EpollAssumption` did not say
that there is a writer (`N_THREADS` is 2, epoll1.c:20), without which main() would never leave its set-up; and a
thread state that no writer enters is gone from `PipeTypeOK`.

The refinement theorems (`KeepsPromise`) map each step of a server to a step of `EchoService` or to a
stutter. The assumptions are the named `ASSUME`s of the modules (the constants are finite sets and
naturals; sentinels are not elements of the sets they stand beside); nothing bounds the number of
clients, workers, threads, descriptors or chunks.

| Theorem | Property | What it establishes |
|---|---|---|
| `SelectServerProofs!Invariance` |  | The inductive invariant of select.c: types, kernel state, the four tables, the budget and the report. |
| `SelectServerProofs!TypeCorrect` | `TypeOK` | Every variable of SelectServer keeps its type, for any number of clients, slots and descriptors. |
| `SelectServerProofs!Tracking` | `DescriptorsTracked` | clientfd, read_set, maxfd and maxi always describe the same open connections. |
| `SelectServerProofs!BudgetExact` | `ReadyBudget` | nready is the number of reported clients the pass has yet to reach, so the early stop misses nobody. |
| `SelectServerProofs!NobodyPassedOver` |  | A round never ends with a reported client left out. |
| `SelectServerProofs!NoStaleReport` |  | What select() reported of a client still holds when the pass reaches it. |
| `SelectServerProofs!BufferDrained` |  | A chunk read and not written back is always the one of the client being served. |
| `SelectServerProofs!OnlyProvokedExit` | `ExitProvoked` | Clients that behave as client.c never make a call of the loop fail, in any order of their calls with the server's, unless descriptors or slots run out. |
| `SelectServerProofs!KeepsPromise` | `Promise` | select.c implements EchoService (refinement). |
| `PrethreadedServerProofs!Invariance` |  | The inductive invariant of the thread pool: the mutex, the connections each worker has, and what they owe. |
| `PrethreadedServerProofs!TypeCorrect` | `TypeOK` | Every variable of PrethreadedServer keeps its type. |
| `PrethreadedServerProofs!MutualExclusion` | `AcceptAlone` | At most one worker, the owner of the mutex, is in accept(), for any number of workers. |
| `PrethreadedServerProofs!OneWorkerEach` | `OneWorkerPerClient` | Every accepted connection is in the hands of exactly one worker until it is closed. |
| `PrethreadedServerProofs!BufferDrained` |  | No chunk stays in a worker's buffer. |
| `PrethreadedServerProofs!KeepsPromise` | `Promise` | The pool implements EchoService, an accept() given an uninitialized length being a refusal (refinement). |
| `ForkingServerProofs!Invariance` |  | The inductive invariant of forking.c: who holds which connection, the signal, and what the clients are owed. |
| `ForkingServerProofs!TypeCorrect` | `TypeOK` | Every variable of ForkingServer keeps its type, for every value of sa_flags. |
| `ForkingServerProofs!NoZombieForgotten` | `NoLostChild` | While there is a zombie, the handler runs or a SIGCHLD is pending, although the signal does not count; the one exception, stated in the property, is an uninitialized sa_flags with SA_RESETHAND after the handler's first run. |
| `ForkingServerProofs!OpenWhileHeld` | `ConnectionHeld` | A connection is open exactly while the parent or its child has a descriptor for it. |
| `ForkingServerProofs!BufferDrained` |  | No chunk stays in a child's buffer. |
| `ForkingServerProofs!KeepsPromise` | `Promise` | forking.c implements EchoService for every value of sa_flags (refinement). |
| `PollServerProofs!Invariance` |  | The inductive invariant of poll.c: the kernel's table and the program's, the report, and the budget. |
| `PollServerProofs!TypeCorrect` | `TypeOK` | The index stays within the table, and nready never goes below zero although the listening socket is paid for twice. |
| `PollServerProofs!TableTrue` | `TableMatchesSockets` | pollfds names open descriptors only, each once, also after a number is given out again or the listening socket is closed. |
| `PollServerProofs!BudgetOneShort` |  | nready is one short of the clients to serve in a round with a new client, and exact in any other. |
| `PollServerProofs!NoStaleReport` |  | What poll() reported of a client still holds when the pass reaches it. |
| `PollServerProofs!BufferDrained` |  | A chunk read and not written back is always the one of the client being served. |
| `PollServerProofs!KeepsPromise` | `Promise` | poll.c implements EchoService, the end of its listening socket being a refusal of those who wait (refinement). |
| `AcceptLoopsProofs!Invariance` |  | The inductive invariant of the three accept() loops: who serves whom, who holds the listening socket, which deaths are still to be reaped. |
| `AcceptLoopsProofs!TypeCorrect` | `TypeOK` | Every variable of AcceptLoops keeps its type, for any number of processes and clients. |
| `AcceptLoopsProofs!OneWorkerEach` | `OneWorkerPerClient` | However many processes block in accept() on one socket, each connection is in the hands of exactly one. |
| `AcceptLoopsProofs!NoWorkerForgotten` |  | A zombie of the pool has its SIGCHLD pending, although the signal does not count, unless the handler is off. |
| `AcceptLoopsProofs!ListenerKept` |  | The listening socket is open exactly as long as a process holds it. |
| `AcceptLoopsProofs!BufferDrained` |  | A chunk read and not written back is in the buffer of the process that serves its client. |
| `AcceptLoopsProofs!OneLossPerReset` | `LossesPaid` | Processes of the pool that have died after their first accept() are at most as many as clients that were reset. |
| `AcceptLoopsProofs!KeepsPromise` | `Promise` | iterative.c, unix_stream_server.c and preforking.c implement EchoService (refinement). |
| `ThreadedServerProofs!Invariance` |  | The inductive invariant of threaded.c: whom each thread serves, what main() has in hand, the list, the leaked descriptors. |
| `ThreadedServerProofs!TypeCorrect` | `TypeOK` | Every variable of ThreadedServer keeps its type. |
| `ThreadedServerProofs!OneThreadEach` | `OwnThread` | Each thread serves the client it was started for, however late it fetches its argument. |
| `ThreadedServerProofs!ListComplete` | `EveryThreadListed` | The links of the list form one ring, both ways, through exactly the threads that were started and pushed, for any number of them. |
| `ThreadedServerProofs!LeakOnlyByReset` | `LeakedOnlyByReset` | Only a client that was reset costs the server a descriptor for good. |
| `ThreadedServerProofs!BufferDrained` |  | A chunk read and not written back is in the buffer of the client's own thread. |
| `ThreadedServerProofs!KeepsPromise` | `Promise` | threaded.c implements EchoService (refinement). |
| `ProgramsProofs!ProgramsTypeCorrect` | `TypeOK` | The variables of every small program keep their types, whichever program runs and whatever the constants are. |
| `ProgramsProofs!FilesAsDocumented` | `PrintsAsDocumented` | A file program that comes to its end, as does the child of fork_file_sharing.c, has printed what its asserts, comments and header say, however parent and child interleave. |
| `ProgramsProofs!NoUpdateLost` | `NoLostUpdate` | For any number of threads and turns, no addition to the shared counter is lost. |
| `ProgramsProofs!SocketsClosed` | `NoSocketLeaked` | For any number of addresses and whichever calls fail, the loops of util.c return one open socket, of the first address that serves, or none. |
| `ProgramsProofs!LineWritten` | `CopiesWritten` | The buffering programs write their line as often as their headers say, whoever exits first. |
| `ProgramsProofs!PipesReadToTheEnd` |  | For any number of writers and chunks, epoll1.c closes a pipe only when all of it has been read. |
| `ProgramsProofs!PipeReportsHold` |  | What epoll_wait() reported of a pipe still holds when main() acts on it. |
| `ProgramsProofs!PipesCounted` |  | n_remaining is the number of pipes still to be closed. |
| `ProgramsProofs!EventsListed` |  | What epoll watches and a read() would find something in is on its ready list: no wake-up is lost. |
| `ProgramsProofs!EventReportsHold` |  | The descriptor epoll_wait() reported still holds a signal when it is read (the first part of EveryEventRead). |
| `ProgramsProofs!PostsTaken` |  | The eventfd holds exactly the posts that have not been taken. |
| `ProgramsProofs!OnlyFailureBlocks` |  | For any number of writers and chunks, until epoll1.c exits a process of it can go on, unless what is left are drained pipes of writers that failed. |
| `ProgramsProofs!PipelineNeverStuck` |  | For any output that fits into a pipe, some process of fork2.c and redirect1.c can go on until main() has ended, though main() waits before it reads. |
| `ProgramsProofs!PipelineUsesUp` |  | Every step of a pipeline makes a natural number smaller, so however it is scheduled it takes a bounded number of steps. |
| `ProgramsProofs!OutputPassedOn` |  | For any amount of output, fork2.c and redirect1.c end having passed on what the last child wrote (the Passed of PipelineEnds). |
| `ProgramsProofs!PendingStays` |  | What pending1.c was once told is pending stays pending (a part of NoSignalLost). |

Every invariant a run checks is stated by a theorem. Only model-checked:

* Liveness (`EveryClientServed`, `EveryPipeEnds`, and what `PipelineEnds`, `EveryEventRead` and `NoSignalLost` say
  of the end of a run): it rests on fairness and on `ENABLED`. The safety halves of the last four are proved, under the
  names given above, and so is that `Pipeline` has no dead end and `EpollPipes` none but that of a failed writer.
* What the runs expected to fail refute (section 6): there the property is false.

## 6. Disagreements found

* Run `poll_clients`, `OnlyClientsProcessed` (src/servers/poll.c:93): The comment says "process IO on the ready client connection" (src/servers/poll.c:98), but the pass starts at slot 0, which holds the listening socket: in a round where a client connects and another is ready, the listening socket is read, the read fails, and it is closed as if it were a client (poll.c:110-111). No client can connect any more.
* Run `poll_full`, `FullTableExits` (src/servers/poll.c:70): error_exit("too many clients") (src/servers/poll.c:83) is for i == MAX_FDS, but the loop that looks for a slot runs to FD_SETSIZE (poll.c:70): with a full table it reads beyond pollfds, i never is MAX_FDS afterwards, and the client is accepted without a slot and never served.
* Run `prethreaded_abandoned`, `IdleWorkerServes` (src/servers/prethreaded.c:63): The file says "a pre-allocated pool of worker threads to manage concurrent client connections" (src/servers/prethreaded.c:3-4). A worker whose accept() fails, which the uninitialized addrlen (prethreaded.c:52) can cause, calls pthread_exit() while it holds ctx.lock (prethreaded.c:58-64): the other workers wait for the mutex for ever and no client is accepted again.
* Run `forking_eintr`, `ForksForEachClient` (src/servers/forking.c:50): The file says it "forks a child process for each new client connection" (src/servers/forking.c:3-4). sa.sa_flags is never set (forking.c:50-52); when SA_RESTART happens not to be in it, the SIGCHLD of the first child that ends makes the parent's accept() return EINTR if it finds no connection waiting, which forking.c:76-79 treats as fatal: a client that connects between the interruption and the exit gets no child, and no later one finds a server.
* Run `epoll_stdin`, `TrailingNewlineOnly` (src/async-io/epoll2.c:73): The comment says "remove trailing newline" (src/async-io/epoll2.c:72), but strchr() looks for the first newline of a buffer that was cleared only once (epoll2.c:55) and is not terminated after bytes_read bytes: it finds one in the middle of a chunk that a pipe delivers, one that an earlier, longer read has left behind (with bytes_read 0 the count becomes -1), or, when the buffer is full, one beyond it.

Not among them: the header of `signals/signalfd4.c` (lines 5-9) tells of errors seen when one signal's
descriptor was disabled until another signal came (a report, and then EAGAIN from the nonblocking read). The code
as it stands never disables a descriptor, so neither it nor the model shows them: in `EventLoops`
what is reported can be read (`EveryEventRead`), signalfd4.c included.

## 7. Not modelled, and why

* Contents and lengths of data below a chunk: `client.c`'s partial `read()` (lines 38-41) needs an echo
  split across two segments, which chunks do not show.
* Failures of calls before the loop starts (`server_socket`, `sigaction`, `pthread_create`): the
  models start with the server listening.
* `set_nonblocking()` failing, and EINTR in servers that install no handler.
* Of `sa_flags`, all bits but SA_RESTART and SA_RESETHAND.
* `error_exit` beyond ending the process: its message, and the core dump on request.
* The join loop of `threaded.c` (lines 155-161) with `list_pop()`: the accept loop above it never ends. (It would
  not end properly either: `list_is_empty()` (line 38) looks for null links, which an empty head does not have.)
* `setup_socket()` of the UNIX domain server: a straight line in which every failure ends the process.
* After `FD_SET` of a descriptor beyond `FD_SETSIZE`, nothing: the step is in `SelectServer`, but the run
  `select` keeps the descriptor limit below it, as the behaviour from there on is undefined.
* The set-up calls of the event loops and of epoll2.c (`epoll_create1`, `signalfd`, `fcntl`, ...), which end the program
  when they fail; `pthread_create()` and the semaphore's calls in `Counters`, whose results the code ignores.
* The list of addresses itself, which `server_socket()` does not free when it gives up (util.c:89-90, 102-110).
* stdio inside signal handlers, and stdio interrupted by a jump: `printf()` is not safe there, and what it
  does then is undefined.
* Signals beyond SIGUSR1 and SIGUSR2 in the signalfd programs; signalfd1.c takes any from its command line.
* The masks these programs inherit, taken to be empty.
* Programs of one call or of no behaviour beyond one function; `PROJECT.json` names each with the reason: of
  the processes `fork1.c`, `exec1.c`, `environ.c` and `child1.c` (whose handler is never installed), `linux_aio.c`,
  `kill1.c` and `kill2.c`, `memstream1.c`, the integer conversions, and the demonstrations about the compiler,
  the linker, memory layout and performance counters.
