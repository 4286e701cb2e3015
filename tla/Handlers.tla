------------------------------- MODULE Handlers -------------------------------
(***************************************************************************)
(* Programs with signal handlers: src/signals/suspend1.c, which waits for  *)
(* SIGUSR2 in sigsuspend(); src/nonlocal/nonlocal1.c, whose handler for    *)
(* SIGINT jumps back to the start of main(); src/signals/stop1.c, which    *)
(* reports how its child, src/signals/spin1.c, is stopped, continued and   *)
(* ends; and src/signals/pending1.c, which has none and asks what is       *)
(* pending.                                                                *)
(***************************************************************************)
EXTENDS Executable, FiniteSets

VARIABLES program_at,  \* where main() is
          sent,        \* the signals that are pending for it
          mask,        \* those that are blocked
          installed,   \* those that have a handler
          got_usr2,
          told,        \* what pending1.c has last reported
          spin,        \* the child of stop1.c
          news,        \* a change of its state that wait() has not yet returned
          sa_flags     \* of stop1.c: not set, so they hold anything

handlerVars == <<program_at, sent, mask, installed, got_usr2, told, spin, news, sa_flags>>

HandlerPrograms == {"suspend1", "nonlocal1", "stop1", "pending1"}
UserSignals == {"USR1", "USR2"}

HandlerTypeOK ==
    /\ program_at \in {"off", "start", "install", "test", "suspend", "loop", "exited", "killed"}
    /\ sent \subseteq UserSignals \union {"INT", "CHLD"}
    /\ mask \subseteq UserSignals \union {"INT"}
    /\ installed \subseteq UserSignals \union {"INT", "CHLD"}
    /\ got_usr2 \in BOOLEAN
    /\ told \subseteq UserSignals
    /\ spin \in {"none", "forked", "spinning", "stopped", "zombie", "reaped"}
    /\ news \in BOOLEAN
    /\ sa_flags \subseteq {"RESETHAND", "NOCLDSTOP"}

HandlerInit ==
    /\ program_at = IF program \in HandlerPrograms THEN "start" ELSE "off"
    /\ sent = {} /\ mask = {} /\ installed = {}
    /\ got_usr2 = FALSE
    /\ told = {}
    /\ spin = "none"
    /\ news = FALSE
    /\ IF program = "stop1" THEN sa_flags \in SUBSET {"RESETHAND", "NOCLDSTOP"} ELSE sa_flags = {}

Moved(from, to) == program_at = from /\ program_at' = to

Alive == program_at \notin {"off", "exited", "killed"}

\* A signal from outside: it stays pending while it is blocked, and ends a program that
\* neither blocks nor handles it.
Interrupt(s) ==
    /\ Alive
    /\ s \in (IF program = "nonlocal1" THEN {"INT"} ELSE UserSignals)
    /\ program # "stop1"
    /\ IF s \in mask \union installed
       THEN sent' = sent \union {s} /\ UNCHANGED program_at
       ELSE program_at' = "killed" /\ UNCHANGED sent
    /\ UNCHANGED <<mask, installed, got_usr2, told, spin, news, sa_flags>>

----------------------------------------------------------------------------
(* suspend1.c.                                                             *)

\* mutant: nothing is blocked before the loop
BlockNothing ==
    /\ program \in {"suspend1", "pending1"}
    /\ Moved("start", IF program = "suspend1" THEN "install" ELSE "loop")
    /\ UNCHANGED <<sent, mask, installed, got_usr2, told, spin, news, sa_flags>>

\* The first step of pending1.c too.
BlockBoth ==
    /\ program \in {"suspend1", "pending1"}
    /\ Moved("start", IF program = "suspend1" THEN "install" ELSE "loop")
    /\ mask' = mask \union UserSignals
    /\ UNCHANGED <<sent, installed, got_usr2, told, spin, news, sa_flags>>

Install ==
    /\ \E s \in UserSignals \ installed :
          /\ installed' = installed \union {s}
          /\ Moved("install", IF UserSignals \subseteq installed' THEN "test" ELSE "install")
    /\ UNCHANGED <<sent, mask, got_usr2, told, spin, news, sa_flags>>

Test ==
    /\ program = "suspend1"
    /\ Moved("test", IF got_usr2 THEN "exited" ELSE "loop")
    /\ UNCHANGED <<sent, mask, installed, got_usr2, told, spin, news, sa_flags>>

\* sigsuspend() unblocks and waits in one step.
Suspend ==
    /\ program = "suspend1"
    /\ Moved("loop", "suspend")
    /\ mask' = {}
    /\ UNCHANGED <<sent, installed, got_usr2, told, spin, news, sa_flags>>

\* The handler runs for what is pending, and sigsuspend() returns with the old mask.
CatchUser ==
    /\ program = "suspend1"
    /\ (sent \cap installed) \ mask # {}
    /\ got_usr2' = (got_usr2 \/ "USR2" \in sent)
    /\ sent' = {}
    /\ IF program_at = "suspend"
       THEN program_at' = "test" /\ mask' = UserSignals
       ELSE UNCHANGED <<program_at, mask>>
    /\ UNCHANGED <<installed, told, spin, news, sa_flags>>

----------------------------------------------------------------------------
(* nonlocal1.c.                                                            *)

SetJump ==
    /\ program = "nonlocal1"
    /\ Moved("start", "loop")
    /\ installed' = {"INT"}
    /\ UNCHANGED <<sent, mask, got_usr2, told, spin, news, sa_flags>>

\* The kernel blocks SIGINT for its handler, which does not return but jumps;
\* sigsetjmp() has saved the mask, so siglongjmp() puts the old one back.
JumpBack ==
    /\ program = "nonlocal1"
    /\ "INT" \in sent \ mask
    /\ sent' = sent \ {"INT"}
    /\ UNCHANGED <<program_at, mask, installed, got_usr2, told, spin, news, sa_flags>>

----------------------------------------------------------------------------
(* pending1.c.                                                             *)

AskPending ==
    /\ program = "pending1"
    /\ program_at = "loop"
    /\ told' = sent
    /\ UNCHANGED <<program_at, sent, mask, installed, got_usr2, spin, news, sa_flags>>

----------------------------------------------------------------------------
(* stop1.c and its child.  SIGCHLD is never blocked, whatever its comment  *)
(* says (stop1.c:66-69): the handler may run before the loop.              *)

InstallChld ==
    /\ program = "stop1"
    /\ Moved("start", "install")
    /\ installed' = {"CHLD"}
    /\ UNCHANGED <<sent, mask, got_usr2, told, spin, news, sa_flags>>

\* fork() may fail.
StartSpin ==
    /\ program = "stop1"
    /\ \/ Moved("install", "loop") /\ spin' = "forked"
       \/ Moved("install", "exited") /\ UNCHANGED spin
    /\ UNCHANGED <<sent, mask, installed, got_usr2, told, news, sa_flags>>

\* SIGCHLD does not count, and is ignored when the handler has been reset.
SignalChld(to) ==
    /\ spin' = to
    /\ news' = TRUE
    /\ sent' = IF "CHLD" \in installed /\ (to = "zombie" \/ "NOCLDSTOP" \notin sa_flags)
               THEN sent \union {"CHLD"} ELSE sent
    /\ UNCHANGED <<program_at, mask, installed, got_usr2, told, sa_flags>>

\* execv() may fail; spin1 ends when its alarm goes off, unless it is stopped just then.
ExecSpin ==
    /\ spin = "forked"
    /\ \/ /\ spin' = "spinning"
          /\ UNCHANGED <<program_at, sent, mask, installed, got_usr2, told, news, sa_flags>>
       \/ SignalChld("zombie")

Alarm == spin = "spinning" /\ SignalChld("zombie")

StopOrContinue ==
    \/ spin = "spinning" /\ SignalChld("stopped")
    \/ spin = "stopped" /\ SignalChld("spinning")

\* sigchld_handler() waits until nothing is left to report.
CatchChld ==
    /\ program = "stop1" /\ Alive
    /\ "CHLD" \in sent
    /\ sent' = sent \ {"CHLD"}
    /\ news' = FALSE
    /\ spin' = IF spin = "zombie" THEN "reaped" ELSE spin
    /\ installed' = IF "RESETHAND" \in sa_flags THEN {} ELSE installed
    /\ UNCHANGED <<program_at, mask, got_usr2, told, sa_flags>>

----------------------------------------------------------------------------
HandlerMain ==
    \/ BlockBoth \/ Install \/ Test \/ Suspend \/ CatchUser
    \/ SetJump \/ JumpBack
    \/ InstallChld \/ StartSpin \/ CatchChld

SpinStep == ExecSpin \/ Alarm

HandlerNext ==
    \/ HandlerMain \/ SpinStep \/ AskPending \/ StopOrContinue
    \/ \E s \in UserSignals \union {"INT"} : Interrupt(s)

\* Nobody has to press a key, send a signal or continue the child.
HandlerFairness == WF_handlerVars(HandlerMain) /\ WF_handlerVars(SpinStep)

----------------------------------------------------------------------------
\* No signal is lost between a test and the wait that follows, none in the jump out of a
\* handler, and none because SIGCHLD does not count: SIGUSR2 ends suspend1 once it is
\* blocked, every SIGINT starts nonlocal1 again, a child that has ended is waited for
\* unless SA_RESETHAND happens to be set, and what pending1 has once reported stays so.
NoSignalLost ==
    /\ "USR2" \in sent /\ program = "suspend1" ~> program_at = "exited"
    /\ "INT" \in sent ~> "INT" \notin sent
    /\ spin = "zombie" ~> spin = "reaped" \/ "RESETHAND" \in sa_flags
    /\ [][told \subseteq told']_handlerVars

\* What pending1 has been told of is pending, since nothing delivers it.
ToldIsPending ==
    /\ program = "pending1" => told \subseteq sent
    /\ program = "pending1" => sent \subseteq UserSignals
    /\ program # "pending1" => told = {}
    /\ program # "stop1" => spin = "none"
    /\ program \notin HandlerPrograms => program_at = "off"
=============================================================================
