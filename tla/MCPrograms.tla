------------------------------ MODULE MCPrograms ------------------------------
(***************************************************************************)
(* All small programs, one of which runs in each behaviour.                *)
(***************************************************************************)
EXTENDS Counters, EpollPipes, EpollStdin, EventLoops, Pipeline, Handlers,
        FileSharing, StdioBuffer, AddressLoop

CONSTANT Executables   \* the programs that are run

AllExecutables ==
    CounterPrograms \union {"epoll1", "epoll2", "eventfd"} \union SignalPrograms
        \union PipelinePrograms \union HandlerPrograms \union FilePrograms
        \union StdioPrograms \union AddressPrograms

vars == <<program, counterVars, pipeVars, stdinVars, eventVars, pipelineVars,
          handlerVars, fileVars, stdioVars, addressVars>>

TypeOK ==
    /\ CounterTypeOK /\ PipeTypeOK /\ StdinTypeOK /\ EventTypeOK /\ PipelineTypeOK
    /\ HandlerTypeOK /\ FileTypeOK /\ StdioTypeOK /\ AddressTypeOK

Init ==
    /\ program \in Executables
    /\ CounterInit /\ PipeInit /\ StdinInit /\ EventInit /\ PipelineInit
    /\ HandlerInit /\ FileInit /\ StdioInit /\ AddressInit

Next ==
    \/ CounterNext /\ UNCHANGED <<program, pipeVars, stdinVars, eventVars, pipelineVars,
                                  handlerVars, fileVars, stdioVars, addressVars>>
    \/ PipeNext /\ UNCHANGED <<program, counterVars, stdinVars, eventVars, pipelineVars,
                               handlerVars, fileVars, stdioVars, addressVars>>
    \/ StdinNext /\ UNCHANGED <<program, counterVars, pipeVars, eventVars, pipelineVars,
                                handlerVars, fileVars, stdioVars, addressVars>>
    \/ EventNext /\ UNCHANGED <<program, counterVars, pipeVars, stdinVars, pipelineVars,
                                handlerVars, fileVars, stdioVars, addressVars>>
    \/ PipelineNext /\ UNCHANGED <<program, counterVars, pipeVars, stdinVars, eventVars,
                                   handlerVars, fileVars, stdioVars, addressVars>>
    \/ HandlerNext /\ UNCHANGED <<program, counterVars, pipeVars, stdinVars, eventVars,
                                  pipelineVars, fileVars, stdioVars, addressVars>>
    \/ FileNext /\ UNCHANGED <<program, counterVars, pipeVars, stdinVars, eventVars,
                               pipelineVars, handlerVars, stdioVars, addressVars>>
    \/ StdioNext /\ UNCHANGED <<program, counterVars, pipeVars, stdinVars, eventVars,
                                pipelineVars, handlerVars, fileVars, addressVars>>
    \/ AddressNext /\ UNCHANGED <<program, counterVars, pipeVars, stdinVars, eventVars,
                                  pipelineVars, handlerVars, fileVars, stdioVars>>

Spec ==
    /\ Init /\ [][Next]_vars
    /\ PipeFairness /\ EventFairness /\ PipelineFairness /\ HandlerFairness
=============================================================================
