------------------------------ MODULE EpollStdin ------------------------------
(***************************************************************************)
(* src/async-io/epoll2.c: what epoll says is ready on stdin is read into a *)
(* buffer that was cleared once, and printed without its newline.  A byte  *)
(* is "nul", "nl" for a newline or "x" for any other.                      *)
(***************************************************************************)
EXTENDS Executable, Integers, Sequences

CONSTANT BufLen        \* BUFLEN

ASSUME EpollStdinAssumption == BufLen \in Nat \ {0}

VARIABLES polling,     \* main()
          buffer,
          chunk,       \* what the last read() returned
          bytes_read   \* the count that is printed

stdinVars == <<polling, buffer, chunk, bytes_read>>

StdinTypeOK ==
    /\ polling \in {"off", "first", "loop"}
    /\ buffer \in [1 .. BufLen -> {"nul", "nl", "x"}]
    /\ chunk \in UNION {[1 .. n -> {"nl", "x"}] : n \in 0 .. BufLen}
    /\ bytes_read \in -1 .. BufLen

StdinInit ==
    /\ polling = IF program = "epoll2" THEN "first" ELSE "off"
    /\ buffer = [k \in 1 .. BufLen |-> "nul"]
    /\ chunk = <<>>
    /\ bytes_read = 0

\* strchr(): the first newline before the end of the string.
IsNewline(buf, k) == buf[k] = "nl" /\ \A j \in 1 .. k - 1 : buf[j] \notin {"nl", "nul"}

\* One turn: epoll_wait(), read(), strchr() and the output.  Nothing in a terminal line
\* follows its newline; a pipe returns any bytes; at the end of either read() returns 0
\* again and again.  A full buffer is no string: strchr() goes on behind it, and may
\* find a newline there.
ReadStdin ==
    /\ polling # "off"
    /\ polling' = "loop"
    /\ \E n \in 0 .. BufLen : chunk' \in [1 .. n -> {"nl", "x"}]
    /\ LET new == [k \in 1 .. BufLen |-> IF k <= Len(chunk') THEN chunk'[k] ELSE buffer[k]]
           at == {k \in 1 .. BufLen : IsNewline(new, k)}
       IN  /\ buffer' = [k \in 1 .. BufLen |-> IF k \in at THEN "nul" ELSE new[k]]
           /\ \/ at # {} /\ bytes_read' = Len(chunk') - 1
              \/ at = {} /\ bytes_read' = Len(chunk')
              \/ /\ \A k \in 1 .. BufLen : new[k] = "x"
                 /\ bytes_read' = Len(chunk') - 1

StdinNext == ReadStdin

----------------------------------------------------------------------------
\* "remove trailing newline" (epoll2.c:72): the count is that of the bytes just read,
\* less one if the last of them is a newline.
TrailingNewlineOnly ==
    bytes_read = Len(chunk) - (IF chunk # <<>> /\ chunk[Len(chunk)] = "nl" THEN 1 ELSE 0)
=============================================================================
