----------------------- MODULE RecoveryMonitor_proofs -----------------------
(***************************************************************************)
(* Proofs about RecoveryMonitor, for all backends, tasks and callers of    *)
(* stop(), as long as start() is not called while a stop() is under way    *)
(* (the run recovery_monitor_overlap shows what happens otherwise).        *)
(*                                                                         *)
(* That a monitor runs exactly while it is wanted is not inductive: it     *)
(* rests on what a stop() that has not returned yet knows of the task, and *)
(* on the stop event being set for nothing that should run.                *)
(***************************************************************************)
EXTENDS RecoveryMonitor, TLAPS

\* A stop() that has not returned is the last word on the task it waits for.
StopsKnowTheTask ==
  \A s \in Stoppers : waits[s] # NoTask => ~wanted /\ task \in {waits[s], NoTask}

\* The event is left set only when there is nothing left to stop.
StopIsForTheLive ==
  stopping => StopInProgress \/ \A t \in Tasks : ~Live(t)

MonitorInv ==
  /\ TypeOK
  /\ OnlyTheTrackedTaskRuns
  /\ RunsWhileWanted
  /\ StopsKnowTheTask
  /\ StopIsForTheLive

LEMMA InitMonitorInv == Init => MonitorInv
BY RecoveryMonitorAssumption
DEF Init, MonitorInv, TypeOK, OnlyTheTrackedTaskRuns, RunsWhileWanted,
    StopsKnowTheTask, StopIsForTheLive, StopInProgress, Live

\* Types, and the phase of a round, survive every step.
LEMMA NextTypeOK == TypeOK /\ [Next]_vars => TypeOK'
<1> SUFFICES ASSUME TypeOK, [Next]_vars PROVE TypeOK'
  OBVIOUS
<1> USE RecoveryMonitorAssumption DEF TypeOK
<1>1. ASSUME NEW b \in Backends,
             Register(b) \/ Unregister(b) \/ Outage(b) \/ Degrade(b)
      PROVE  TypeOK'
  BY <1>1 DEF Register, Unregister, Outage, Degrade, taskVars
<1>2. CASE Start
  BY <1>2 DEF Start, backendVars
<1>3. CASE StartAgain
  BY <1>3 DEF StartAgain, backendVars, taskVars
<1>4. ASSUME NEW s \in Stoppers, StopAtOnce(s) \/ StopBegins(s) \/ StopEnds(s)
      PROVE  TypeOK'
  <2>1. CASE StopAtOnce(s)
    BY <2>1 DEF StopAtOnce, backendVars, taskVars
  <2>2. CASE StopBegins(s)
    BY <2>2 DEF StopBegins, backendVars, taskVars
  <2>3. CASE StopEnds(s)
    BY <2>3 DEF StopEnds, backendVars, taskVars
  <2>4. QED
    BY <1>4, <2>1, <2>2, <2>3
<1>5. ASSUME NEW s \in Stoppers, StopTimeout(s) PROVE TypeOK'
  BY <1>5 DEF StopTimeout, backendVars, Live
<1>6. CASE LoopReplaced
  BY <1>6 DEF LoopReplaced, backendVars
<1>7. ASSUME NEW t \in Tasks, Leave(t) \/ Wake(t) PROVE TypeOK'
  BY <1>7 DEF Leave, Wake, backendVars
<1>8. ASSUME NEW t \in Tasks, EndRound(t) \/ RunHooks(t) PROVE TypeOK'
  BY <1>8 DEF EndRound, RunHooks, backendVars
<1>9. ASSUME NEW t \in Tasks, NEW b \in Backends, Probe(t, b) PROVE TypeOK'
  BY <1>9 DEF Probe
<1>10. CASE UNCHANGED vars
  BY <1>10 DEF vars
<1>11. QED
  BY <1>1, <1>2, <1>3, <1>4, <1>5, <1>6, <1>7, <1>8, <1>9, <1>10 DEF Next

\* A step that leaves the tasks' liveness, the tracked task and the callers of
\* stop() alone cannot disturb what is said about them.
LEMMA SameLifeCycle ==
  ASSUME MonitorInv,
         \A t \in Tasks : Live(t)' <=> Live(t),
         UNCHANGED <<task, stopping, waits, wanted>>
  PROVE  /\ OnlyTheTrackedTaskRuns'
         /\ RunsWhileWanted'
         /\ StopsKnowTheTask'
         /\ StopIsForTheLive'
BY DEF MonitorInv, OnlyTheTrackedTaskRuns, RunsWhileWanted, StopsKnowTheTask,
       StopIsForTheLive, StopInProgress

LEMMA NextMonitorInv ==
  ASSUME Overlapping = FALSE, MonitorInv, [Next]_vars
  PROVE  MonitorInv'
<1>0. TypeOK' /\ TypeOK /\ NoTask \notin Tasks
  BY NextTypeOK, RecoveryMonitorAssumption DEF MonitorInv
<1>l. \A t \in Tasks : Live(t) => t = task
  BY DEF MonitorInv, OnlyTheTrackedTaskRuns
<1>1. ASSUME NEW b \in Backends,
             Register(b) \/ Unregister(b) \/ Outage(b) \/ Degrade(b)
      PROVE  MonitorInv'
  <2>1. status' = status /\ UNCHANGED <<task, stopping, waits, wanted>>
    BY <1>1 DEF Register, Unregister, Outage, Degrade, taskVars
  <2>2. QED
    BY <1>0, <2>1, SameLifeCycle DEF Live, MonitorInv
<1>2. CASE Start
  <2>1. ~StopInProgress /\ ~Running
    BY <1>2 DEF Start
  <2>2. \A t \in Tasks : ~Live(t)
    BY <1>0, <1>l, <2>1 DEF Running
  <2>3. PICK t \in Tasks : task' = t /\ status' = [status EXCEPT ![t] = "waiting"]
    BY <1>2 DEF Start
  <2>4. \A u \in Tasks : Live(u)' <=> u = t
    BY <1>0, <2>2, <2>3 DEF Live, TypeOK
  <2>5. stopping' = FALSE /\ wanted' = TRUE /\ waits' = waits
    BY <1>2 DEF Start
  <2>6. QED
    BY <1>0, <2>1, <2>3, <2>4, <2>5
    DEF MonitorInv, OnlyTheTrackedTaskRuns, RunsWhileWanted, StopsKnowTheTask,
        StopIsForTheLive, StopInProgress
<1>3. CASE StartAgain
  <2>1. ~StopInProgress /\ Running
    BY <1>3 DEF StartAgain
  <2>2. task \in Tasks /\ Live(task)
    BY <1>0, <2>1 DEF Running, TypeOK
  <2>3. wanted' = TRUE /\ status' = status /\ UNCHANGED <<task, stopping, waits>>
    BY <1>3 DEF StartAgain, taskVars
  <2>4. \A t \in Tasks : Live(t)' <=> Live(t)
    BY <2>3 DEF Live
  <2>5. QED
    BY <1>0, <2>1, <2>2, <2>3, <2>4
    DEF MonitorInv, OnlyTheTrackedTaskRuns, RunsWhileWanted, StopsKnowTheTask,
        StopIsForTheLive, StopInProgress
<1>4. ASSUME NEW s \in Stoppers, StopAtOnce(s) PROVE MonitorInv'
  <2>1. \A t \in Tasks : ~Live(t) /\ ~Live(t)'
    BY <1>0, <1>4, <1>l DEF StopAtOnce, taskVars, Live
  <2>2. task' = NoTask /\ wanted' = FALSE /\ waits' = waits
    BY <1>4 DEF StopAtOnce
  <2>3. QED
    BY <1>0, <2>1, <2>2
    DEF MonitorInv, OnlyTheTrackedTaskRuns, RunsWhileWanted, StopsKnowTheTask,
        StopIsForTheLive
<1>5. ASSUME NEW s \in Stoppers, StopBegins(s) PROVE MonitorInv'
  <2>1. \A t \in Tasks : Live(t)' <=> Live(t)
    BY <1>5 DEF StopBegins, taskVars, Live
  <2>2. /\ task # NoTask /\ task' = task /\ wanted' = FALSE
        /\ waits' = [waits EXCEPT ![s] = task]
    BY <1>5 DEF StopBegins
  <2>3. waits'[s] # NoTask
    BY <1>0, <2>2 DEF TypeOK
  <2>4. StopsKnowTheTask'
    BY <1>0, <2>2 DEF MonitorInv, StopsKnowTheTask, TypeOK
  <2>5. QED
    BY <1>0, <2>1, <2>2, <2>3, <2>4
    DEF MonitorInv, OnlyTheTrackedTaskRuns, RunsWhileWanted, StopIsForTheLive,
        StopInProgress
<1>6. ASSUME NEW s \in Stoppers, StopEnds(s) PROVE MonitorInv'
  <2>1. ~wanted /\ task \in {waits[s], NoTask} /\ ~Live(waits[s])
    BY <1>6 DEF StopEnds, MonitorInv, StopsKnowTheTask, Live
  <2>2. \A t \in Tasks : ~Live(t)
    BY <1>0, <1>l, <2>1
  <2>3. /\ task' = NoTask /\ wanted' = wanted /\ status' = status
        /\ waits' = [waits EXCEPT ![s] = NoTask]
    BY <1>6 DEF StopEnds, taskVars
  <2>4. \A t \in Tasks : ~Live(t)'
    BY <2>2, <2>3 DEF Live
  <2>5. QED
    BY <1>0, <2>1, <2>3, <2>4
    DEF MonitorInv, OnlyTheTrackedTaskRuns, RunsWhileWanted, StopsKnowTheTask,
        StopIsForTheLive, TypeOK
<1>7. ASSUME NEW s \in Stoppers, StopTimeout(s) PROVE MonitorInv'
  <2>1. \A t \in Tasks : Live(t)' => Live(t)
    BY <1>0, <1>7 DEF StopTimeout, Live, TypeOK
  <2>2. /\ waits[s] # NoTask
        /\ UNCHANGED <<task, stopping, waits, wanted>>
    BY <1>7 DEF StopTimeout
  <2>3. QED
    BY <1>0, <2>1, <2>2
    DEF MonitorInv, OnlyTheTrackedTaskRuns, RunsWhileWanted, StopsKnowTheTask,
        StopIsForTheLive, StopInProgress
<1>8. CASE LoopReplaced
  <2>1. \A t \in Tasks : ~Live(t)'
    BY <1>0, <1>8 DEF LoopReplaced, Live, TypeOK
  <2>2. wanted' = FALSE /\ \A s \in Stoppers : waits'[s] = NoTask
    BY <1>8 DEF LoopReplaced
  <2>3. QED
    BY <1>0, <2>1, <2>2
    DEF MonitorInv, OnlyTheTrackedTaskRuns, RunsWhileWanted, StopsKnowTheTask,
        StopIsForTheLive
<1>9. ASSUME NEW t \in Tasks, Leave(t) PROVE MonitorInv'
  <2>1. StopInProgress
    BY <1>9 DEF Leave, MonitorInv, StopIsForTheLive, Live
  <2>2. \A u \in Tasks : Live(u)' => Live(u)
    BY <1>0, <1>9 DEF Leave, Live, TypeOK
  <2>3. UNCHANGED <<task, stopping, waits, wanted>>
    BY <1>9 DEF Leave
  <2>4. QED
    BY <1>0, <2>1, <2>2, <2>3
    DEF MonitorInv, OnlyTheTrackedTaskRuns, RunsWhileWanted, StopsKnowTheTask,
        StopIsForTheLive, StopInProgress
<1>10. ASSUME NEW t \in Tasks, Wake(t) \/ EndRound(t) \/ RunHooks(t)
       PROVE  MonitorInv'
  <2>1. \A u \in Tasks : Live(u)' <=> Live(u)
    BY <1>0, <1>10 DEF Wake, EndRound, RunHooks, Live, TypeOK
  <2>2. UNCHANGED <<task, stopping, waits, wanted>>
    BY <1>10 DEF Wake, EndRound, RunHooks
  <2>3. QED
    BY <1>0, <2>1, <2>2, SameLifeCycle DEF MonitorInv
<1>11. ASSUME NEW t \in Tasks, NEW b \in Backends, Probe(t, b) PROVE MonitorInv'
  <2>1. status' = status /\ UNCHANGED <<task, stopping, waits, wanted>>
    BY <1>11 DEF Probe
  <2>2. QED
    BY <1>0, <2>1, SameLifeCycle DEF Live, MonitorInv
<1>12. CASE UNCHANGED vars
  BY <1>0, <1>12, SameLifeCycle DEF vars, Live, MonitorInv
<1>13. QED
  BY <1>1, <1>2, <1>3, <1>4, <1>5, <1>6, <1>7, <1>8, <1>9, <1>10, <1>11, <1>12
  DEF Next

\* recovery.py, one round of probes: the warm hooks are due exactly after the
\* rounds that recovered something, however start() and stop() overlap.
THEOREM TypeCorrect == Spec => []TypeOK
<1>1. Init => TypeOK
  BY InitMonitorInv DEF MonitorInv
<1>2. QED
  BY <1>1, NextTypeOK, PTL DEF Spec

\* RecoveryMonitor.start and stop: no task runs that _task does not name.
THEOREM OnlyTrackedRuns ==
  ASSUME Overlapping = FALSE
  PROVE  Spec => []OnlyTheTrackedTaskRuns
<1>1. MonitorInv /\ [Next]_vars => MonitorInv'
  BY NextMonitorInv
<1>2. MonitorInv => OnlyTheTrackedTaskRuns
  BY DEF MonitorInv
<1>3. QED
  BY InitMonitorInv, <1>1, <1>2, PTL DEF Spec

\* RecoveryMonitor.start and stop: a monitor runs after a start(), and none
\* after a stop() has returned.
THEOREM WantedRuns ==
  ASSUME Overlapping = FALSE
  PROVE  Spec => []RunsWhileWanted
<1>1. MonitorInv /\ [Next]_vars => MonitorInv'
  BY NextMonitorInv
<1>2. MonitorInv => RunsWhileWanted
  BY DEF MonitorInv
<1>3. QED
  BY InitMonitorInv, <1>1, <1>2, PTL DEF Spec
=============================================================================
