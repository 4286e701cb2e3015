------------------------------ MODULE FileSharing ------------------------------
(***************************************************************************)
(* The programs of src/io and src/process/fork_file_sharing.c that open    *)
(* one file several times, duplicate descriptors, or fork with them open.  *)
(* Each is the list of its calls on descriptors; descriptor tables, open   *)
(* file descriptions and the file are the kernel's.                        *)
(***************************************************************************)
EXTENDS Executable, Integers, Sequences

VARIABLES stage,       \* "off", "run", "done" or "failed", for each process
          at,          \* the call each process is at
          table,       \* its descriptor table: number -> description, or 0 for a free one
          fds,         \* the variables of the program: name -> number, or -1 before it has one
          description, \* the open file descriptions: offset and O_APPEND
          file,        \* offset -> byte
          output       \* what the parent has printed or asserts

fileVars == <<stage, at, table, fds, description, file, output>>

----------------------------------------------------------------------------
(* The programs: a call is its name, the variable that holds the           *)
(* descriptor, and an argument.  The k-th byte of a text is k.             *)

Text(n) == [k \in 1 .. n |-> k]
X == 120                          \* the byte open4.c writes

TestFile == << <<"open", "fd">>, <<"write", "fd", Text(7)>>, <<"close", "fd">> >>
OpenTwice == << <<"open", "fd1">>, <<"open", "fd2">> >>
ReadBoth == << <<"read", "fd1">>, <<"read", "fd2">> >>
TellBoth == << <<"tell", "fd1">>, <<"tell", "fd2">> >>
CloseBoth == << <<"close", "fd1">>, <<"close", "fd2">> >>

Dup1Calls ==
    << <<"open", "fd1">>, <<"dup", "fd1", "fd2">> >> \o TellBoth
        \o << <<"write", "fd1", Text(10)>> >> \o TellBoth
        \o << <<"write", "fd2", Text(10)>> >> \o TellBoth \o CloseBoth

Dup2Calls == TestFile \o OpenTwice \o << <<"dup2", "fd1", "fd2">> >> \o ReadBoth \o CloseBoth

Dup3Calls ==
    TestFile \o OpenTwice
        \o << <<"dup2", "fd1", "fd2">>, <<"read", "fd1">>, <<"close", "fd1">>,
              <<"read", "fd2">>, <<"close", "fd2">> >>

Open1Calls ==
    << <<"open", "fd1">>, <<"show", "fd1">>, <<"close", "fd1">>,
       <<"open", "fd2">>, <<"show", "fd2">>, <<"close", "fd2">> >>

Open2Calls ==
    << <<"close", "stdin">>, <<"close", "stderr">>, <<"open", "fd1">>, <<"show", "fd1">>,
       <<"open", "fd2">>, <<"show", "fd2">> >> \o CloseBoth

Open3Calls ==
    TestFile \o OpenTwice \o ReadBoth
        \o << <<"open", "fd3">>, <<"read", "fd3">>, <<"read", "fd1">> >>
        \o CloseBoth \o << <<"close", "fd3">> >>

Open4Calls ==
    TestFile \o OpenTwice \o ReadBoth
        \o << <<"write", "fd1", <<X>> >>, <<"read", "fd2">> >> \o CloseBoth

HoleCalls ==
    << <<"open", "fd">>, <<"write", "fd", Text(10)>>, <<"seek", "fd", 16384>>,
       <<"write", "fd", Text(10)>>, <<"tell", "fd">>, <<"close", "fd">> >>

Share1Calls ==
    << <<"open", "fd">>, <<"write", "fd", Text(5)>>, <<"seek", "fd", 0>>, <<"fork">>,
       <<"waitpid">>, <<"read", "fd">>, <<"close", "fd">> >>

ForkFileSharingCalls ==
    << <<"open", "fd">>, <<"tell", "fd">>, <<"getfl", "fd">>, <<"fork">>, <<"wait">>,
       <<"tell", "fd">>, <<"getfl", "fd">> >>

MainCalls ==
    [dup1 |-> Dup1Calls, dup2 |-> Dup2Calls, dup3 |-> Dup3Calls, open1 |-> Open1Calls,
     open2 |-> Open2Calls, open3 |-> Open3Calls, open4 |-> Open4Calls, hole |-> HoleCalls,
     share1 |-> Share1Calls, fork_file_sharing |-> ForkFileSharingCalls]

\* What the child does after fork().
Share1Child == << <<"seek", "fd", 2>> >>
ForkFileSharingChild == << <<"seek", "fd", 1000>>, <<"append", "fd">> >>

ChildCalls == [share1 |-> Share1Child, fork_file_sharing |-> ForkFileSharingChild]

FilePrograms == DOMAIN MainCalls

\* What a run in which no call fails prints, according to asserts, comments and headers.
Documented ==
    [dup1 |-> <<0, 0, 10, 10, 20, 20>>,        \* dup1.c:25-43, asserted
     dup2 |-> <<1, 2>>,                        \* one description (dup2.c:3)
     dup3 |-> <<1, 2>>,                        \* it outlives fd1 (dup3.c:3-6)
     open1 |-> <<3, 3>>, open2 |-> <<0, 2>>,   \* the lowest free numbers
     open3 |-> <<1, 1, 1, 2>>,                 \* one offset each
     open4 |-> <<1, 1, X>>,                    \* one file for both
     share1 |-> <<3>>,                         \* after the child's lseek()
     hole |-> <<16394>>,                       \* hole.c:43
     fork_file_sharing |-> <<0, 0, 1000, 1>>]  \* the offset and O_APPEND, before and after

----------------------------------------------------------------------------
Numbers == 0 .. 6
Processes == {"parent", "child"}
FdNames == {"stdin", "stderr", "fd", "fd1", "fd2", "fd3"}

FileInit ==
    /\ stage = [p \in Processes |->
                  IF p = "parent" /\ program \in FilePrograms THEN "run" ELSE "off"]
    /\ at = [p \in Processes |-> 1]
    /\ table = [p \in Processes |->
                  [n \in Numbers |-> IF p = "parent" /\ n < 3 THEN 1 ELSE 0]]
    /\ fds = [name \in FdNames |-> CASE name = "stdin" -> 0 [] name = "stderr" -> 2 [] OTHER -> -1]
    /\ description = <<[offset |-> 0, append |-> FALSE]>>
    /\ file = <<>>
    /\ output = <<>>

FileTypeOK ==
    /\ stage \in [Processes -> {"off", "run", "done", "failed"}]
    /\ at \in [Processes -> Nat]
    /\ table \in [Processes -> [Numbers -> 0 .. Len(description)]]
    /\ fds \in [FdNames -> Numbers \union {-1}]
    /\ description \in Seq([offset : Nat, append : BOOLEAN])
    /\ DOMAIN file \subseteq Nat
    /\ output \in Seq(Nat)

Calls(p) == (IF p = "parent" THEN MainCalls ELSE ChildCalls)[program]

Do(p, call) ==
    /\ stage[p] = "run"
    /\ at[p] <= Len(Calls(p))
    /\ Calls(p)[at[p]][1] = call
    /\ at' = [at EXCEPT ![p] = @ + 1]

Name(p) == Calls(p)[at[p]][2]
Arg(p) == Calls(p)[at[p]][3]
Behind(p) == table[p][fds[Name(p)]]
Offset(p) == description[Behind(p)].offset
Lowest(p) == CHOOSE n \in Numbers : table[p][n] = 0 /\ \A m \in 0 .. n - 1 : table[p][m] # 0
Prints(x) == output' = Append(output, x)
MoveTo(p, to) == description' = [description EXCEPT ![Behind(p)].offset = to]

Open(p) ==
    /\ Do(p, "open")
    /\ description' = Append(description, [offset |-> 0, append |-> FALSE])
    /\ table' = [table EXCEPT ![p][Lowest(p)] = Len(description')]
    /\ fds' = [fds EXCEPT ![Name(p)] = Lowest(p)]
    /\ UNCHANGED <<stage, file, output>>

Dup(p) ==
    /\ Do(p, "dup")
    /\ table' = [table EXCEPT ![p][Lowest(p)] = Behind(p)]
    /\ fds' = [fds EXCEPT ![Arg(p)] = Lowest(p)]
    /\ UNCHANGED <<stage, description, file, output>>

Dup2(p) ==
    /\ Do(p, "dup2")
    /\ table' = [table EXCEPT ![p][fds[Arg(p)]] = Behind(p)]
    /\ UNCHANGED <<stage, fds, description, file, output>>

Close(p) ==
    /\ Do(p, "close")
    /\ table' = [table EXCEPT ![p][fds[Name(p)]] = 0]
    /\ UNCHANGED <<stage, fds, description, file, output>>

\* The bytes a write() covers.
Covered(p) == Offset(p) .. Offset(p) + Len(Arg(p)) - 1

Write(p) ==
    /\ Do(p, "write")
    /\ file' = [k \in DOMAIN file \union Covered(p) |->
                  IF k \in Covered(p) THEN Arg(p)[k - Offset(p) + 1] ELSE file[k]]
    /\ MoveTo(p, Offset(p) + Len(Arg(p)))
    /\ UNCHANGED <<stage, table, fds, output>>

Read(p) ==
    /\ Do(p, "read")
    /\ Prints(file[Offset(p)])
    /\ MoveTo(p, Offset(p) + 1)
    /\ UNCHANGED <<stage, table, fds, file>>

Seek(p) ==
    /\ Do(p, "seek")
    /\ MoveTo(p, Arg(p))
    /\ UNCHANGED <<stage, table, fds, file, output>>

SetAppend(p) ==
    /\ Do(p, "append")
    /\ description' = [description EXCEPT ![Behind(p)].append = TRUE]
    /\ UNCHANGED <<stage, table, fds, file, output>>

\* lseek(fd, 0, SEEK_CUR), F_GETFL, and the number itself.
Show(p) ==
    /\ \/ Do(p, "tell") /\ Prints(Offset(p))
       \/ Do(p, "getfl") /\ Prints(IF description[Behind(p)].append THEN 1 ELSE 0)
       \/ Do(p, "show") /\ Prints(fds[Name(p)])
    /\ UNCHANGED <<stage, table, fds, description, file>>

ForkFile(p) ==
    /\ Do(p, "fork")
    /\ stage' = [stage EXCEPT !["child"] = "run"]
    /\ table' = [table EXCEPT !["child"] = table[p]]
    /\ UNCHANGED <<fds, description, file, output>>

\* mutant: WNOHANG
WaitNoHang(p) ==
    /\ Do(p, "wait") \/ Do(p, "waitpid")
    /\ UNCHANGED <<stage, table, fds, description, file, output>>

\* share1.c exits unless its child has succeeded, fork_file_sharing.c does not ask.
WaitFile(p) ==
    /\ \/ Do(p, "wait") /\ stage["child"] \in {"done", "failed"}
       \/ Do(p, "waitpid") /\ stage["child"] = "done"
    /\ UNCHANGED <<stage, table, fds, description, file, output>>

FileCall(p) ==
    \/ Open(p) \/ Dup(p) \/ Dup2(p) \/ Close(p) \/ Write(p) \/ Read(p) \/ Seek(p)
    \/ SetAppend(p) \/ Show(p) \/ ForkFile(p) \/ WaitFile(p)

Leaves(p, how) ==
    /\ stage' = [stage EXCEPT ![p] = how]
    /\ table' = [table EXCEPT ![p] = [n \in Numbers |-> 0]]
    /\ UNCHANGED <<at, fds, description, file, output>>

\* Any call but close() may fail, and ends the process by error_exit() or an assertion;
\* so does the failure of its child in share1.c.
CallFails(p) ==
    /\ stage[p] = "run"
    /\ at[p] <= Len(Calls(p))
    /\ Calls(p)[at[p]][1] \notin {"close", "show", "tell"}
    /\ Leaves(p, "failed")

Return(p) ==
    /\ stage[p] = "run"
    /\ at[p] > Len(Calls(p))
    /\ Leaves(p, "done")

FileNext == \E p \in Processes : FileCall(p) \/ CallFails(p) \/ Return(p)

----------------------------------------------------------------------------
\* What is shared is the open file description: whichever process and descriptor moved
\* the offset or set the flag last, a program that comes to its end has printed what its
\* asserts, comments and header say.  Only fork_file_sharing.c may come to its end
\* although its child has failed.
PrintsAsDocumented ==
    stage["parent"] = "done" /\ (program = "fork_file_sharing" => stage["child"] = "done")
        => output = Documented[program]
=============================================================================
