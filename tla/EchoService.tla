----------------------------- MODULE EchoService -----------------------------
(***************************************************************************)
(* What every server of src/servers promises a client: a connection is     *)
(* taken over once, every chunk that arrives is written back once and in   *)
(* order, and the server hangs up only on a client that has nothing more   *)
(* to say and has been answered, or that is unreachable.  The service may  *)
(* stop: every server calls error_exit() when a call fails.  It then       *)
(* accepts nobody, and the connections it does not keep end with it.       *)
(***************************************************************************)
EXTENDS Naturals

CONSTANTS Clients,
          MayRefuse    \* waiting connections may be dropped while the service goes on

VARIABLES running, conn, peer, sent, echoed

echoVars == <<running, conn, peer, sent, echoed>>

Init ==
    /\ running = TRUE
    /\ conn = [c \in Clients |-> "none"]
    /\ peer = [c \in Clients |-> "up"]
    /\ sent = [c \in Clients |-> 0]
    /\ echoed = [c \in Clients |-> 0]

Request(c) ==
    /\ conn[c] = "none"
    /\ conn' = [conn EXCEPT ![c] = "queued"]
    /\ UNCHANGED <<running, peer, sent, echoed>>

Say(c) ==
    /\ conn[c] \in {"queued", "open"}
    /\ peer[c] = "up"
    /\ sent' = [sent EXCEPT ![c] = @ + 1]
    /\ UNCHANGED <<running, conn, peer, echoed>>

Go(c) ==
    /\ conn[c] \in {"queued", "open"}
    /\ peer[c] # "rst"
    /\ \E how \in {"fin", "rst"} : peer' = [peer EXCEPT ![c] = how]
    /\ UNCHANGED <<running, conn, sent, echoed>>

TakeOver(c) ==
    /\ running
    /\ conn[c] = "queued"
    /\ conn' = [conn EXCEPT ![c] = "open"]
    /\ UNCHANGED <<running, peer, sent, echoed>>

Echo(c) ==
    /\ conn[c] = "open"
    /\ \E n \in echoed[c] + 1 .. sent[c] : echoed' = [echoed EXCEPT ![c] = n]
    /\ UNCHANGED <<running, conn, peer, sent>>

\* Nothing more will come and nothing is owed, or nobody is there.
Finished(c) ==
    \/ peer[c] = "fin" /\ echoed[c] = sent[c]
    \/ peer[c] = "rst"

HangUp(c) ==
    /\ conn[c] = "open"
    /\ Finished(c)
    /\ conn' = [conn EXCEPT ![c] = "closed"]
    /\ UNCHANGED <<running, peer, sent, echoed>>

\* One connection is turned away, or all that wait on a socket that is closed.
Refuse ==
    /\ MayRefuse /\ running
    /\ \E turnedAway \in SUBSET {c \in Clients : conn[c] = "queued"} :
          conn' = [c \in Clients |-> IF c \in turnedAway THEN "closed" ELSE conn[c]]
    /\ UNCHANGED <<running, peer, sent, echoed>>

Stop ==
    /\ running
    /\ running' = FALSE
    /\ \E kept \in SUBSET {c \in Clients : conn[c] # "none"} :
          conn' = [c \in Clients |->
                     IF conn[c] = "none" \/ c \in kept THEN conn[c] ELSE "closed"]
    /\ UNCHANGED <<peer, sent, echoed>>

\* Once the service has stopped, nobody takes over those who wait.
Abandon ==
    /\ ~running
    /\ conn' = [c \in Clients |-> IF conn[c] = "queued" THEN "closed" ELSE conn[c]]
    /\ UNCHANGED <<running, peer, sent, echoed>>

Next ==
    \/ \E c \in Clients :
          Request(c) \/ Say(c) \/ Go(c) \/ TakeOver(c) \/ Echo(c) \/ HangUp(c)
    \/ Refuse
    \/ Stop
    \/ Abandon

Spec == Init /\ [][Next]_echoVars
=============================================================================
