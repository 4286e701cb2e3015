----------------------------- MODULE StdioBuffer -----------------------------
(***************************************************************************)
(* src/stdio/buffering1.c to buffering4.c: a line is printed, and then the *)
(* process ends, or forks and both end.  How often the line is written     *)
(* depends on what is still in the stdio buffer at each of these calls.    *)
(***************************************************************************)
EXTENDS Executable, Naturals

VARIABLES tty,         \* stdout is a terminal
          prints,      \* where each process is
          unwritten,   \* the line is in its buffer
          copies       \* how often it has been written

stdioVars == <<tty, prints, unwritten, copies>>

StdioPrograms == {"buffering1", "buffering2", "buffering3", "buffering4"}
Printers == {"parent", "child"}

StdioTypeOK ==
    /\ tty \in BOOLEAN
    /\ prints \in [Printers -> {"off", "print", "fork", "exit", "exited"}]
    /\ unwritten \in [Printers -> BOOLEAN]
    /\ copies \in Nat

StdioInit ==
    /\ IF program \in StdioPrograms THEN tty \in BOOLEAN ELSE tty = FALSE
    /\ prints = [p \in Printers |->
                   IF p = "parent" /\ program \in StdioPrograms THEN "print" ELSE "off"]
    /\ unwritten = [p \in Printers |-> FALSE]
    /\ copies = 0

\* The line stays in the buffer, unless it ends in a newline and stdout is a terminal.
PrintLine ==
    /\ prints["parent"] = "print"
    /\ IF program = "buffering4" /\ tty
       THEN copies' = copies + 1 /\ UNCHANGED unwritten
       ELSE unwritten' = [unwritten EXCEPT !["parent"] = TRUE] /\ UNCHANGED copies
    /\ prints' = [prints EXCEPT !["parent"] =
                    IF program \in {"buffering3", "buffering4"} THEN "fork" ELSE "exit"]
    /\ UNCHANGED tty

\* The child gets a copy of the buffer.  When fork() fails, error_exit() ends in exit().
ForkPrinter ==
    /\ prints["parent"] = "fork"
    /\ \/ /\ prints' = [p \in Printers |-> "exit"]
          /\ unwritten' = [p \in Printers |-> unwritten["parent"]]
       \/ /\ prints' = [prints EXCEPT !["parent"] = "exit"]
          /\ UNCHANGED unwritten
    /\ UNCHANGED <<tty, copies>>

\* mutant: _exit() in the child
ChildQuits(p) ==
    /\ prints[p] = "exit"
    /\ prints' = [prints EXCEPT ![p] = "exited"]
    /\ copies' = IF unwritten[p] /\ program # "buffering2" /\ p = "parent" THEN copies + 1 ELSE copies
    /\ unwritten' = [unwritten EXCEPT ![p] = FALSE]
    /\ UNCHANGED tty

\* exit() writes the buffer, _exit() in buffering2.c drops it.
ExitPrinter(p) ==
    /\ prints[p] = "exit"
    /\ prints' = [prints EXCEPT ![p] = "exited"]
    /\ copies' = IF unwritten[p] /\ program # "buffering2" THEN copies + 1 ELSE copies
    /\ unwritten' = [unwritten EXCEPT ![p] = FALSE]
    /\ UNCHANGED tty

StdioNext == PrintLine \/ ForkPrinter \/ \E p \in Printers : ExitPrinter(p)

----------------------------------------------------------------------------
\* What the headers of the four programs say: the buffer is written by exit(), not by
\* _exit() (buffering1.c:3, buffering2.c:3), by both processes after a fork()
\* (buffering3.c:3-4), unless a terminal has had the line already (buffering4.c:3-4).
CopiesWritten ==
    prints["parent"] = "exited" /\ prints["child"] \in {"off", "exited"} =>
        copies = IF program = "buffering2" THEN 0
                 ELSE IF prints["child"] = "off" \/ (program = "buffering4" /\ tty) THEN 1 ELSE 2

\* A terminal has the line at once; otherwise it is in the buffer of each process that has
\* come past the printf() and has not exited, and has been written by those that have.
Direct == program = "buffering4" /\ tty
Exited(p) == IF prints[p] = "exited" THEN 1 ELSE 0
BufferedUntilExit ==
    /\ \A p \in Printers : unwritten[p] <=> ~Direct /\ prints[p] \in {"fork", "exit"}
    /\ prints["child"] # "off" =>
          /\ prints["parent"] \in {"exit", "exited"}
          /\ prints["child"] \in {"exit", "exited"}
          /\ program \in {"buffering3", "buffering4"}
    /\ copies = IF program = "buffering2" THEN 0
               ELSE IF Direct THEN IF prints["parent"] = "print" THEN 0 ELSE 1
               ELSE Exited("parent") + Exited("child")
    /\ prints["parent"] = "fork" => program \in {"buffering3", "buffering4"}
    /\ prints["parent"] \in {"print", "fork"} => prints["child"] = "off"
    /\ program = "buffering4" => prints["parent"] # "off"

StdioInv == StdioTypeOK /\ BufferedUntilExit
=============================================================================
