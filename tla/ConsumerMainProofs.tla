------------------------- MODULE ConsumerMainProofs -------------------------
(***************************************************************************)
(* Proofs about ConsumerMain, for any number of consumers in the process.  *)
(***************************************************************************)
EXTENDS ConsumerMain, TLAPS

LEMMA MainCount == NumConsumers \in Nat /\ NumConsumers >= 1
  BY MainAssumption

-----------------------------------------------------------------------------
(***************************************************************************)
(* Neither CrashExitsNonZero nor CleanExit is inductive: the exit code is  *)
(* settled in Wake and read at the exit, so what each phase says about the *)
(* tasks, the connections and the code has to be carried along.            *)
(***************************************************************************)

\* The tasks exist only once every consumer is started, none is left running
\* after Wake, and gather() waits for the last of them.
TasksByPhase ==
    /\ phase = "start" => \A i \in Members : task[i] = "none"
    /\ phase = "wait" => \A i \in Members : task[i] \in {"running", "crashed"}
    /\ phase = "gather" =>
           \A i \in Members : task[i] = "cancelling" \/ Done(i)
    /\ phase = "stop" => \A i \in Members : Done(i)
    /\ phase = "exited" =>
           \/ \A i \in Members : task[i] = "none"
           \/ \A i \in Members : Done(i)

\* The connections that are open while the two loops run.
OpenByPhase ==
    /\ phase = "start" => next <= NumConsumers
    /\ phase \in {"wait", "gather"} => next = 1
    /\ phase = "stop" => /\ next <= NumConsumers
                         /\ \A i \in open : i >= next
    /\ phase = "exited" /\ code = 0 => open = {}

\* The code is the one Wake settled on, and Wake had a reason.
CodeByPhase ==
    /\ phase \in {"start", "wait"} => code = 0
    /\ phase \in {"gather", "stop"} =>
           /\ code = Collected
           /\ signalled \/ Crashed # {}
    /\ phase = "exited" /\ code = 0 =>
           /\ signalled
           /\ \A i \in Members : task[i] \in {"cancelled", "raised"}

MainInv == MainTypeOK /\ TasksByPhase /\ OpenByPhase /\ CodeByPhase

LEMMA MainInvInit == MainInit => MainInv
<1>1. MainInit => MainTypeOK
  <2>1. MainInit => signalled \in BOOLEAN
    BY DEF MainInit
  <2>2. MainInit => next \in 1 .. NumConsumers + 1
    BY MainCount DEF MainInit
  <2> QED
    BY <2>1, <2>2 DEF MainInit, MainTypeOK
<1>2. MainInit => TasksByPhase /\ OpenByPhase /\ CodeByPhase
  BY MainCount DEF MainInit, TasksByPhase, OpenByPhase, CodeByPhase
<1> QED
  BY <1>1, <1>2 DEF MainInv

LEMMA MainInvStep ==
    ASSUME MainInv, [MainNext]_mainVars
    PROVE  MainInv'
<1> USE MainCount DEF MainInv, MainTypeOK, Done
<1>1. CASE Signal
  BY <1>1
     DEF Signal, TasksByPhase, OpenByPhase, CodeByPhase, Collected, Crashed
<1>2. CASE StartReturns
  <2>1. next \in Members
    BY <1>2 DEF StartReturns, OpenByPhase, Members
  <2>2. CASE next < NumConsumers
    BY <1>2, <2>1, <2>2
       DEF StartReturns, TasksByPhase, OpenByPhase, CodeByPhase
  <2>3. CASE ~(next < NumConsumers)
    BY <1>2, <2>1, <2>3
       DEF StartReturns, TasksByPhase, OpenByPhase, CodeByPhase
  <2> QED
    BY <2>2, <2>3
<1>3. CASE LifecycleRaises
  BY <1>3 DEF LifecycleRaises, TasksByPhase, OpenByPhase, CodeByPhase
<1>4. ASSUME NEW i \in Members, Crash(i) PROVE MainInv'
  <2>1. phase = "wait"
    BY <1>4 DEF Crash, TasksByPhase
  <2> QED
    BY <1>4, <2>1 DEF Crash, TasksByPhase, OpenByPhase, CodeByPhase
<1>5. CASE Wake
  <2>1. Crashed' = Crashed
    BY <1>5 DEF Wake, AllCancelled, Crashed
  <2>2. Collected \in {0, 1} /\ Collected' = Collected
    BY <2>1 DEF Collected
  <2>3. MainTypeOK' /\ TasksByPhase' /\ OpenByPhase'
    BY <1>5, <2>2
       DEF Wake, AllCancelled, TasksByPhase, OpenByPhase
  <2>4. CodeByPhase'
    BY <1>5, <2>1, <2>2 DEF Wake, CodeByPhase
  <2> QED
    BY <2>3, <2>4
<1>6. ASSUME NEW i \in Members, Cancelled(i) PROVE MainInv'
  <2>1. phase = "gather"
    BY <1>6 DEF Cancelled, TasksByPhase
  <2>2. Crashed' = Crashed
    BY <1>6 DEF Cancelled, Crashed
  <2>3. MainTypeOK' /\ TasksByPhase' /\ OpenByPhase'
    BY <1>6, <2>1 DEF Cancelled, TasksByPhase, OpenByPhase
  <2>4. CodeByPhase'
    BY <1>6, <2>1, <2>2 DEF Cancelled, CodeByPhase, Collected
  <2> QED
    BY <2>3, <2>4
<1>7. CASE Gathered
  <2>1. Crashed' = Crashed
    BY <1>7 DEF Gathered, Crashed
  <2> QED
    BY <1>7, <2>1
       DEF Gathered, TasksByPhase, OpenByPhase, CodeByPhase, Collected, Members
<1>8. CASE StopReturns
  <2>1. Crashed' = Crashed
    BY <1>8 DEF StopReturns, Crashed
  <2>2. CASE next < NumConsumers
    <3>1. phase' = "stop" /\ next' = next + 1 /\ open' = open \ {next}
      BY <1>8, <2>2 DEF StopReturns, AfterStop
    <3>2. \A i \in open' : i >= next'
      BY <1>8, <3>1 DEF StopReturns, OpenByPhase, Members
    <3> QED
      BY <1>8, <2>1, <2>2, <3>1, <3>2
         DEF StopReturns, TasksByPhase, OpenByPhase, CodeByPhase, Collected
  <2>3. CASE ~(next < NumConsumers)
    <3>1. phase' = "exited" /\ next' = next + 1 /\ open' = open \ {next}
      BY <1>8, <2>3 DEF StopReturns, AfterStop
    <3>2. next = NumConsumers
      BY <1>8, <2>3 DEF StopReturns, OpenByPhase
    <3>3. open' = {}
      BY <1>8, <3>1, <3>2 DEF StopReturns, OpenByPhase, Members
    <3>4. code = 0 => Crashed = {}
      BY <1>8 DEF StopReturns, CodeByPhase, Collected
    <3>5. code = 0 =>
              signalled /\ \A i \in Members : task[i] \in {"cancelled", "raised"}
      BY <1>8, <3>4 DEF StopReturns, TasksByPhase, CodeByPhase, Crashed
    <3> QED
      BY <1>8, <3>1, <3>2, <3>3, <3>5
         DEF StopReturns, TasksByPhase, OpenByPhase, CodeByPhase
  <2> QED
    BY <2>2, <2>3
<1>9. CASE UNCHANGED mainVars
  BY <1>9
     DEF mainVars, TasksByPhase, OpenByPhase, CodeByPhase, Collected, Crashed
<1> QED
  BY <1>1, <1>2, <1>3, <1>4, <1>5, <1>6, <1>7, <1>8, <1>9
     DEF MainNext, MainStep

LEMMA MainInvHolds == MainSpec => []MainInv
<1>1. MainInv /\ [MainNext]_mainVars => MainInv'
  BY MainInvStep
<1> QED
  BY <1>1, MainInvInit, PTL DEF MainSpec

-----------------------------------------------------------------------------
\* Every variable of main() keeps its type, for any number of consumers:
\* MainTypeOK is an invariant.
THEOREM MainTypeCorrect == MainSpec => []MainTypeOK
<1>1. MainInv => MainTypeOK
  BY DEF MainInv
<1> QED
  BY <1>1, MainInvHolds, PTL

\* A crash of any consumer that is over when asyncio.wait() returns is told by
\* the exit code, in whatever order signals and crashes come: CrashExitsNonZero
\* is an invariant.
THEOREM CrashIsTold == MainSpec => []CrashExitsNonZero
<1>1. MainInv => CrashExitsNonZero
  BY DEF MainInv, CodeByPhase, CrashExitsNonZero, Crashed
<1> QED
  BY <1>1, MainInvHolds, PTL

\* Exit code 0 means a requested stop with every task over and every connection
\* closed: CleanExit is an invariant.
THEOREM ZeroMeansClean == MainSpec => []CleanExit
<1>1. MainInv => CleanExit
  BY DEF MainInv, OpenByPhase, CodeByPhase, CleanExit
<1> QED
  BY <1>1, MainInvHolds, PTL
=============================================================================
