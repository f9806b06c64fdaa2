--------------------------- MODULE QueueConsumer ----------------------------
(***************************************************************************)
(* The program of test/simple_test.cpp around one server's queue, with any *)
(* number of producers and rounds: one process waits for an element and    *)
(* then pops it; every other process pushes and finishes.  The consumer    *)
(* may be the server process itself, as in the test, or a remote client,   *)
(* whose WaitForElement then occupies a worker thread.                     *)
(***************************************************************************)
EXTENDS Queue

CONSTANTS
    Consumer,      \* the process that calls WaitForElement and Pop
    Home,          \* my_server of the test: the queue everybody uses
    Rounds         \* Rounds[c]: how often c runs its part of the program

ASSUME ProgramAssumption ==
    Consumer \in Clients /\ Home \in Servers /\ Rounds \in [Clients -> Nat]

VARIABLES
    left,          \* left[c]: rounds c has still to finish
    waited         \* the consumer is between WaitForElement and Pop

programVars == <<vars, left, waited>>

ProgramInit ==
    /\ Init
    /\ left = Rounds
    /\ waited = FALSE

Produce(c) ==
    /\ c # Consumer
    /\ left[c] > 0
    /\ \E v \in Vals : Push(c, Home, v)
    /\ UNCHANGED <<left, waited>>

StartWaiting ==
    /\ left[Consumer] > 0
    /\ ~waited
    /\ WaitForElement(Consumer, Home)
    /\ UNCHANGED <<left, waited>>

StartPopping ==
    /\ waited
    /\ Pop(Consumer, Home)
    /\ UNCHANGED <<left, waited>>

\* A step inside the container; returning from WaitForElement leads to Pop,
\* returning from Pop or Push ends the round.
Continue(c) ==
    /\ Step(c)
    /\ IF stage'[c] # "idle" THEN UNCHANGED <<left, waited>>
       ELSE IF call[c].op = "WaitForElement"
       THEN waited' = TRUE /\ left' = left
       ELSE /\ left' = [left EXCEPT ![c] = @ - 1]
            /\ waited' = (waited /\ c # Consumer)

ProgramStep(c) ==
    \/ Produce(c)
    \/ c = Consumer /\ (StartWaiting \/ StartPopping)
    \/ Continue(c)

ProgramNext == \E c \in Clients : ProgramStep(c)

\* Every process runs on; nothing is assumed about contended mutexes.
ProgramSpec ==
    /\ ProgramInit /\ [][ProgramNext]_programVars
    /\ \A c \in Clients : WF_programVars(ProgramStep(c))

-----------------------------------------------------------------------------
\* simple_test.cpp pops after WaitForElement and prints what it gets: as the
\* only consumer, it always gets an element, although WaitForElement looks at
\* the queue without the lock and the look may race with a push.
PopAfterWaitSucceeds ==
    call[Consumer].op = "Pop" /\ stage[Consumer] \in {"unlock", "reply"}
        => res[Consumer].ok = "true"

(***************************************************************************)
(* Why it succeeds.  The producers push to Home and the consumer waits     *)
(* before every Pop (ProgramCalls); from the moment WaitForElement has     *)
(* seen an element until Pop has taken one, the queue holds an element or  *)
(* is about to get one (ElementPromised).                                  *)
(***************************************************************************)
ProgramCalls ==
    /\ waited \in BOOLEAN
    /\ \A c \in Clients \ {Consumer} :
          call[c] \in {NoCall} \cup [op : {"Push"}, server : {Home}, val : Vals]
    /\ \/ call[Consumer] = NoCall
       \/ call[Consumer] = [op |-> "WaitForElement", server |-> Home] /\ ~waited
       \/ call[Consumer] = [op |-> "Pop", server |-> Home] /\ waited

Promised ==
    \/ At(Consumer, "reply", "WaitForElement")
    \/ waited /\ ~(call[Consumer].op = "Pop" /\ stage[Consumer] \in {"unlock", "reply"})

ElementPromised ==
    Promised => \/ queue[Home] # <<>>
                \/ \E c \in Clients : At(c, "apply", "Push")

ProgramInv == IndInv /\ ProgramCalls /\ ElementPromised /\ PopAfterWaitSucceeds

\* Every process gets to MPI_Finalize: a consumer that polls on a worker
\* thread keeps neither the producers' requests nor the mutex from them.
Terminates == <>(\A c \in Clients : left[c] = 0 /\ stage[c] = "idle")
=============================================================================
