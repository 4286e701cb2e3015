------------------------------- MODULE Pipeline -------------------------------
(***************************************************************************)
(* src/process/fork2.c and src/process/redirect1.c: the parent connects    *)
(* the output of one child, echo, to itself, or through a second child,    *)
(* wc, with pipes; it waits for its children before it reads.  A pipe ends *)
(* when no process holds its write end any more.  Data is counted in       *)
(* chunks.                                                                 *)
(***************************************************************************)
EXTENDS Executable, Naturals, FiniteSets

CONSTANTS Echoed,      \* what echo writes
          Capacity     \* of a pipe

\* "hello world" fits into a pipe, and so does the report of wc with what exit() adds.
ASSUME PipelineAssumption ==
    /\ Echoed \in Nat \ {0}
    /\ Capacity \in Nat
    /\ Echoed <= Capacity /\ 2 <= Capacity

VARIABLES parent,      \* main()
          turn,        \* the child that is being started
          child,
          holds,       \* the ends of pipes each process has open
          filled,      \* what is in each pipe
          owed,        \* what each child has yet to write
          counted,     \* what wc has read
          passed,      \* what main() has read, and written to its own output
          unflushed    \* its stdout is no terminal, so "forked writer" is still in its buffer

pipelineVars == <<parent, turn, child, holds, filled, owed, counted, passed, unflushed>>

PipelinePrograms == {"fork2", "redirect1"}
Family == {"writer", "reader"}
Pipes == {"toReader", "toParent"}
PipeEnds == Pipes \X {"r", "w"}

PipelineTypeOK ==
    /\ parent \in {"off", "fork", "close", "wait", "read", "exited"}
    /\ turn \in Family
    /\ child \in [Family -> {"none", "dup", "exec", "run", "zombie", "reaped"}]
    /\ holds \in [Family \union {"parent"} -> SUBSET PipeEnds]
    /\ filled \in [Pipes -> 0 .. Capacity]
    /\ owed \in [Family -> 0 .. Echoed]
    /\ counted \in 0 .. Echoed
    /\ passed \in Nat
    /\ unflushed \in BOOLEAN

Out(c) == IF c = "writer" /\ program = "redirect1" THEN "toReader" ELSE "toParent"

\* After pipe(); if it fails nothing has happened.
PipelineInit ==
    /\ parent = IF program \in PipelinePrograms THEN "fork" ELSE "off"
    /\ turn = "writer"
    /\ child = [c \in Family |-> "none"]
    /\ holds = [p \in Family \union {"parent"} |->
                  IF p # "parent" THEN {}
                  ELSE IF program = "fork2" THEN {"toParent"} \X {"r", "w"} ELSE PipeEnds]
    /\ filled = [p \in Pipes |-> 0]
    /\ owed = [c \in Family |-> IF c = "writer" THEN Echoed ELSE 1]
    /\ counted = 0
    /\ passed = 0
    /\ IF program = "redirect1" THEN unflushed \in BOOLEAN ELSE unflushed = FALSE

----------------------------------------------------------------------------
(* main().                                                                 *)

\* fork() may fail; main() goes on without the child.
StartChild ==
    /\ parent = "fork"
    /\ \/ /\ child' = [child EXCEPT ![turn] = "dup"]
          /\ holds' = [holds EXCEPT ![turn] = holds["parent"]]
       \/ UNCHANGED <<child, holds>>
    /\ parent' = "close"
    /\ UNCHANGED <<turn, filled, owed, counted, passed, unflushed>>

\* The ends the child has been started for.
Given(c) == {<<Out(c), "w">>} \union (IF c = "reader" THEN {<<"toReader", "r">>} ELSE {})

\* mutant: main() keeps the ends it has given away
GiveNothing ==
    /\ parent = "close"
    /\ parent' = IF program = "redirect1" /\ turn = "writer" THEN "fork" ELSE "wait"
    /\ turn' = "reader"
    /\ UNCHANGED <<child, holds, filled, owed, counted, passed, unflushed>>

\* The write end is closed before the next fork(), so that the reader does not have it.
GiveEnds ==
    /\ parent = "close"
    /\ holds' = [holds EXCEPT !["parent"] = @ \ Given(turn)]
    /\ parent' = IF program = "redirect1" /\ turn = "writer" THEN "fork" ELSE "wait"
    /\ turn' = "reader"
    /\ UNCHANGED <<child, filled, owed, counted, passed, unflushed>>

WaitChild ==
    /\ parent = "wait"
    /\ \E c \in Family :
          /\ child[c] = "zombie"
          /\ child' = [child EXCEPT ![c] = "reaped"]
    /\ UNCHANGED <<parent, turn, holds, filled, owed, counted, passed, unflushed>>

\* One wait() per fork(): it returns at once (ECHILD) for a child that was not forked.
WaitEnds ==
    /\ parent = "wait"
    /\ \A c \in Family : child[c] \in {"none", "reaped"}
    /\ parent' = "read"
    /\ UNCHANGED <<turn, child, holds, filled, owed, counted, passed, unflushed>>

AtEnd(p) == filled[p] = 0 /\ \A q \in DOMAIN holds : <<p, "w">> \notin holds[q]

PassOn ==
    /\ parent = "read"
    /\ filled["toParent"] > 0
    /\ filled' = [filled EXCEPT !["toParent"] = @ - 1]
    /\ passed' = passed + 1
    /\ UNCHANGED <<parent, turn, child, holds, owed, counted, unflushed>>

ReadEnd ==
    /\ parent = "read"
    /\ AtEnd("toParent")
    /\ parent' = "exited"
    /\ holds' = [holds EXCEPT !["parent"] = {}]
    /\ UNCHANGED <<turn, child, filled, owed, counted, passed, unflushed>>

PipelineParent == StartChild \/ GiveEnds \/ WaitChild \/ WaitEnds \/ PassOn \/ ReadEnd

----------------------------------------------------------------------------
(* A child.  It has kept the ends it inherited, so it never gets SIGPIPE.  *)

Becomes(c, state) == child' = [child EXCEPT ![c] = state]

ExitChild(c) ==
    /\ Becomes(c, "zombie")
    /\ holds' = [holds EXCEPT ![c] = {}]

Redirect(c) ==
    /\ child[c] = "dup"
    /\ (Becomes(c, "exec") /\ UNCHANGED holds) \/ ExitChild(c)
    /\ UNCHANGED <<parent, turn, filled, owed, counted, passed, unflushed>>

Exec(c) ==
    /\ child[c] = "exec"
    /\ Becomes(c, "run")
    /\ UNCHANGED <<parent, turn, holds, filled, owed, counted, passed, unflushed>>

\* exit() writes out the buffer the reader has inherited from its parent, with the line
\* about the writer if one was forked, into the pipe that is its stdout by now.
ExecFails(c) ==
    /\ child[c] = "exec"
    /\ ExitChild(c)
    /\ filled' = IF c = "reader" /\ unflushed /\ child["writer"] # "none"
                 THEN [filled EXCEPT ![Out(c)] = @ + 1] ELSE filled
    /\ UNCHANGED <<parent, turn, owed, counted, passed, unflushed>>

CountInput ==
    /\ child["reader"] = "run"
    /\ filled["toReader"] > 0
    /\ filled' = [filled EXCEPT !["toReader"] = @ - 1]
    /\ counted' = counted + 1
    /\ UNCHANGED <<parent, turn, child, holds, owed, passed, unflushed>>

\* wc writes after the end of its input.
WriteOut(c) ==
    /\ child[c] = "run"
    /\ owed[c] > 0
    /\ filled[Out(c)] < Capacity
    /\ c = "reader" => AtEnd("toReader")
    /\ owed' = [owed EXCEPT ![c] = @ - 1]
    /\ filled' = [filled EXCEPT ![Out(c)] = @ + 1]
    /\ UNCHANGED <<parent, turn, child, holds, counted, passed, unflushed>>

ChildEnds(c) ==
    /\ child[c] = "run"
    /\ owed[c] = 0
    /\ ExitChild(c)
    /\ UNCHANGED <<parent, turn, filled, owed, counted, passed, unflushed>>

PipelineChild(c) ==
    \/ Redirect(c) \/ Exec(c) \/ ExecFails(c)
    \/ (c = "reader" /\ CountInput) \/ WriteOut(c) \/ ChildEnds(c)

PipelineNext == PipelineParent \/ \E c \in Family : PipelineChild(c)

PipelineFairness ==
    /\ WF_pipelineVars(PipelineParent)
    /\ \A c \in Family : WF_pipelineVars(PipelineChild(c))

----------------------------------------------------------------------------
\* What main() has passed on when it ends is what the last child wrote, and that is the
\* whole of echo's output, or wc's count of the whole of it; but when the reader could
\* not be executed, a second copy of main()'s own line may come out of the pipe.
Passed ==
    parent = "exited" =>
        /\ \A c \in Family : child[c] \in {"none", "reaped"}
        /\ IF program = "fork2"
           THEN passed = Echoed - owed["writer"]
           ELSE /\ passed = 1 - owed["reader"] \/ (unflushed /\ owed["reader"] = 1 /\ passed = 1)
                /\ owed["reader"] = 0 => counted = Echoed - owed["writer"]

\* Who is started when.
Started ==
    /\ parent # "off" => program \in PipelinePrograms
    /\ turn = "writer" => parent \in {"off", "fork", "close"} /\ child["reader"] = "none"
    /\ parent \in {"off", "fork"} => child[turn] = "none"
    /\ turn = "reader" => parent # "off"
    /\ program # "redirect1" =>
          child["reader"] = "none" /\ (turn = "reader" => parent \notin {"fork", "close"})
    /\ parent \in {"read", "exited"} => \A c \in Family : child[c] \in {"none", "reaped"}

Running(c) == child[c] \in {"dup", "exec", "run"}

\* The writer has the end it writes to, so the reader sees no end of its input before.
WriterHoldsEnd ==
    /\ Running("writer") => <<Out("writer"), "w">> \in holds["writer"]
    /\ parent = "fork" /\ turn = "writer" => <<Out("writer"), "w">> \in holds["parent"]

\* What has been written is in a pipe or has been read.
Conserved ==
    /\ \A c \in Family : child[c] \in {"none", "dup", "exec"} =>
          owed[c] = IF c = "writer" THEN Echoed ELSE 1
    /\ owed["reader"] \in {0, 1}
    /\ program = "fork2" => owed["writer"] + filled["toParent"] + passed = Echoed
    /\ program = "redirect1" =>
          /\ owed["writer"] + filled["toReader"] + counted = Echoed
          /\ \/ passed + filled["toParent"] = 1 - owed["reader"]
             \/ /\ unflushed /\ owed["reader"] = 1 /\ ~Running("reader")
                /\ passed + filled["toParent"] = 1 /\ child["reader"] # "none"
          /\ owed["reader"] = 0 => filled["toReader"] = 0 /\ ~Running("writer")
    /\ parent = "exited" => filled["toParent"] = 0

PipelineInv == PipelineTypeOK /\ Started /\ WriterHoldsEnd /\ Conserved /\ Passed

\* Though main() waits before it reads (fork2.c:65, redirect1.c:119-134), whichever calls
\* fail, every process ends and so does the output: no end of a pipe is left open that
\* someone waits on.
PipelineEnds == parent = "fork" ~> parent = "exited" /\ Passed
=============================================================================
