---------------------------- MODULE ConsumerMain ----------------------------
(***************************************************************************)
(* The consumer process (src/src/consumer/__main__.py): several consumers  *)
(* in one event loop that are started one after the other, run together and*)
(* go down together, on a signal or because one of them crashed.           *)
(***************************************************************************)
EXTENDS Integers, FiniteSets

CONSTANTS NumConsumers    \* order, payment and shipment handler: 3

ASSUME MainAssumption == NumConsumers \in Nat \ {0}

Members == 1 .. NumConsumers

VARIABLES
    phase,       \* the await main() has reached
    next,        \* the consumer the start or the stop loop is at
    signalled,   \* stop_requested
    open,        \* consumers with open connections to Kafka and Redis
    task,        \* task[i]: the task of run() of consumer i
    code         \* the exit code so far; 1 also stands for a traceback

mainVars == <<phase, next, signalled, open, task, code>>

MainTypeOK ==
    /\ phase \in {"start", "wait", "gather", "stop", "exited"}
    /\ next \in 1 .. NumConsumers + 1
    /\ signalled \in BOOLEAN
    /\ open \subseteq Members
    /\ task \in [Members -> {"none", "running", "cancelling", "crashed",
                             "cancelled", "raised"}]
    /\ code \in {0, 1}

MainInit ==
    /\ phase = "start"
    /\ next = 1
    /\ signalled = FALSE
    /\ open = {}
    /\ task = [i \in Members |-> "none"]
    /\ code = 0

\* SIGTERM or SIGINT: the handler is there before the first start().
Signal ==
    /\ phase # "exited"
    /\ signalled' = TRUE
    /\ UNCHANGED <<phase, next, open, task, code>>

\* consumer.start() returns.  After the last one the tasks are created.
StartReturns ==
    /\ phase = "start"
    /\ open' = open \cup {next}
    /\ IF next < NumConsumers
       THEN next' = next + 1 /\ UNCHANGED <<phase, task>>
       ELSE /\ next' = 1
            /\ phase' = "wait"
            /\ task' = [i \in Members |-> "running"]
    /\ UNCHANGED <<signalled, code>>

\* start() or stop() of a consumer raises: nothing catches it, so main() ends
\* and the consumers behind it are left as they are.
LifecycleRaises ==
    /\ phase \in {"start", "stop"}
    /\ phase' = "exited"
    /\ code' = 1
    /\ UNCHANGED <<next, signalled, open, task>>

\* run() is left by an exception.
Crash(i) ==
    /\ task[i] = "running"
    /\ task' = [task EXCEPT ![i] = "crashed"]
    /\ UNCHANGED <<phase, next, signalled, open, code>>

Crashed == {i \in Members : task[i] = "crashed"}

\* Mutant: a requested stop counts as a clean exit.
CollectedOnSignal == IF Crashed # {} /\ ~signalled THEN 1 ELSE 0

\* The loop over the finished tasks.
Collected == IF Crashed # {} THEN 1 ELSE 0

\* Mutant: the other tasks are awaited without being cancelled.
NoneCancelled == task

\* cancel() of every task: it has no effect on one that is done.
AllCancelled == [i \in Members |-> IF task[i] = "running" THEN "cancelling"
                                                          ELSE task[i]]

\* asyncio.wait() returns; up to the next await the exit code is settled and
\* every task that still runs is asked to cancel.
Wake ==
    /\ phase = "wait"
    /\ signalled \/ Crashed # {}
    /\ code' = Collected
    /\ task' = AllCancelled
    /\ phase' = "gather"
    /\ UNCHANGED <<next, signalled, open>>

\* CancelledError reaches the await run() is at and leaves run(), or another
\* exception does: gather(return_exceptions=True) drops both, and the exit code
\* is not looked at again.
Cancelled(i) ==
    /\ task[i] = "cancelling"
    /\ \E outcome \in {"cancelled", "raised"} :
          task' = [task EXCEPT ![i] = outcome]
    /\ UNCHANGED <<phase, next, signalled, open, code>>

\* The task is over.
Done(i) == task[i] \in {"crashed", "cancelled", "raised"}

Gathered ==
    /\ phase = "gather"
    /\ \A i \in Members : Done(i)
    /\ phase' = "stop"
    /\ UNCHANGED <<next, signalled, open, task, code>>

\* Mutant: the last consumer is left out.
AfterStopOneShort == IF next + 1 < NumConsumers THEN "stop" ELSE "exited"

\* Mutant: the loop runs one consumer too far.
AfterStopPastEnd == IF next <= NumConsumers THEN "stop" ELSE "exited"

\* The loop over the consumers, after which main() returns.
AfterStop == IF next < NumConsumers THEN "stop" ELSE "exited"

\* consumer.stop() closes its connections.
StopReturns ==
    /\ phase = "stop"
    /\ open' = open \ {next}
    /\ next' = next + 1
    /\ phase' = AfterStop
    /\ UNCHANGED <<signalled, task, code>>

MainStep ==
    \/ StartReturns
    \/ LifecycleRaises
    \/ Wake
    \/ \E i \in Members : Cancelled(i)
    \/ Gathered
    \/ StopReturns

MainNext ==
    \/ MainStep
    \/ Signal
    \/ \E i \in Members : Crash(i)

\* The event loop runs what is ready; start() and stop() end one way or the
\* other.  Nothing is assumed of signals, messages or crashes.
MainSpec == MainInit /\ [][MainNext]_mainVars /\ WF_mainVars(MainStep)

-----------------------------------------------------------------------------
(***************************************************************************)
(* Properties                                                              *)
(***************************************************************************)

\* If a consumer crashed before asyncio.wait() returned, the process exits
\* non-zero, also when a signal came in the same turn of the event loop, so that
\* the orchestrator restarts it.  An exception that run() raises while it is
\* being cancelled ("raised") is not told.
CrashExitsNonZero == phase = "exited" /\ Crashed # {} => code # 0

\* The process exits with 0 only on a signal, and then it leaves no running task
\* and no connection behind; no consumer had crashed before the signal.
CleanExit ==
    phase = "exited" /\ code = 0 =>
        /\ signalled
        /\ open = {}
        /\ \A i \in Members : task[i] \in {"cancelled", "raised"}

\* A signal ends the process, whichever phase it meets, and so does a crash.
AlwaysExits == (signalled \/ Crashed # {}) ~> phase = "exited"
=============================================================================
