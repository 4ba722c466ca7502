-------------------------- MODULE RecoveryMonitor --------------------------
(***************************************************************************)
(* recovery.py: the roster of backends that may degrade, one round of      *)
(* probes (attempt_recover_all), and the life cycle of the RecoveryMonitor *)
(* singleton whose task runs a round every probe interval.                 *)
(*                                                                         *)
(* start() does not await and is one step; stop() sets an event, waits for *)
(* the task and only then clears _task, so other callers run in between.   *)
(* The stop event is replaced by every start(): the task reads the current *)
(* one, which is the only one the model keeps.  Waiting for it ends when   *)
(* it is set or when the interval has elapsed, which may be at any time.   *)
(*                                                                         *)
(* The event loop may be replaced by another (test harness, autoreloader,  *)
(* restarted server); the tasks of the old one stop where they are.        *)
(***************************************************************************)
EXTENDS Integers, FiniteSets

CONSTANTS Backends,     \* what may be registered for recovery
          Tasks,        \* task objects (a forgotten one is reused)
          Stoppers,     \* callers of stop()
          NoTask,
          Overlapping   \* whether start() may be called while a stop() runs

ASSUME RecoveryMonitorAssumption ==
  /\ NoTask \notin Tasks
  /\ Overlapping \in BOOLEAN

VARIABLES roster,     \* _registered
          reachable,  \* per backend: its server answers
          healthy,    \* per backend: its own flag
          task,       \* _task
          stopping,   \* _stopping.is_set(), of the current event
          status,     \* per task: where it is
          todo,       \* per task: the rest of the snapshot of the roster
          recovered,  \* per task: whether this round recovered a backend
          waits,      \* per stopper: the task stop() waits for, or NoTask
          wanted      \* history: start() was called since the last stop()

vars == <<roster, reachable, healthy, task, stopping, status, todo, recovered, waits, wanted>>
backendVars == <<roster, reachable, healthy>>
taskVars == <<status, todo, recovered>>

Live(t) == status[t] \in {"waiting", "probing", "hooks"}

StopInProgress == \E s \in Stoppers : waits[s] # NoTask

Init ==
  /\ roster \in SUBSET Backends
  /\ reachable = [b \in Backends |-> TRUE]
  /\ healthy = [b \in Backends |-> TRUE]
  /\ task = NoTask
  /\ stopping = FALSE
  /\ status = [t \in Tasks |-> "done"]
  /\ todo = [t \in Tasks |-> {}]
  /\ recovered = [t \in Tasks |-> FALSE]
  /\ waits = [s \in Stoppers |-> NoTask]
  /\ wanted = FALSE

-----------------------------------------------------------------------------
\* The backends and the roster.

Register(b) ==
  /\ roster' = roster \cup {b}
  /\ UNCHANGED <<reachable, healthy, task, stopping, taskVars, waits, wanted>>

Unregister(b) ==
  /\ roster' = roster \ {b}
  /\ UNCHANGED <<reachable, healthy, task, stopping, taskVars, waits, wanted>>

Outage(b) ==
  /\ reachable' = [reachable EXCEPT ![b] = ~@]
  /\ UNCHANGED <<roster, healthy, task, stopping, taskVars, waits, wanted>>

\* A call finds the server gone.
Degrade(b) ==
  /\ ~reachable[b]
  /\ healthy' = [healthy EXCEPT ![b] = FALSE]
  /\ UNCHANGED <<roster, reachable, task, stopping, taskVars, waits, wanted>>

-----------------------------------------------------------------------------
\* start() and stop()

\* A task object that nothing refers to any more.
Unused(t) == ~Live(t) /\ t # task /\ \A s \in Stoppers : waits[s] # t

\* Fault: any task that was ever started counts as running.
Running_Ever == task # NoTask

\* There is a task, it is not done, and it belongs to this loop.
Running == task # NoTask /\ Live(task)

StartAgain ==
  /\ Overlapping \/ ~StopInProgress
  /\ Running
  /\ wanted' = TRUE
  /\ UNCHANGED <<backendVars, task, stopping, taskVars, waits>>

Start ==
  /\ Overlapping \/ ~StopInProgress
  /\ ~Running
  /\ \E t \in Tasks :
       /\ Unused(t)
       /\ task' = t
       /\ status' = [status EXCEPT ![t] = "waiting"]
       /\ todo' = [todo EXCEPT ![t] = {}]
       /\ recovered' = [recovered EXCEPT ![t] = FALSE]
  /\ stopping' = FALSE
  /\ wanted' = TRUE
  /\ UNCHANGED <<backendVars, waits>>

\* stop() finds no task, or one of another loop, which it forgets.
StopAtOnce(s) ==
  /\ waits[s] = NoTask
  /\ task # NoTask => status[task] = "lost"
  /\ task' = NoTask
  /\ wanted' = FALSE
  /\ UNCHANGED <<backendVars, stopping, taskVars, waits>>

StopBegins(s) ==
  /\ waits[s] = NoTask
  /\ task # NoTask
  /\ status[task] # "lost"
  /\ stopping' = TRUE
  /\ waits' = [waits EXCEPT ![s] = task]
  /\ wanted' = FALSE
  /\ UNCHANGED <<backendVars, task, taskVars>>

\* Fault: a stop() that finds _task changed waits for the new task.
StopEnds_OnlyIfTracked(s) ==
  /\ waits[s] # NoTask
  /\ waits[s] = task
  /\ status[waits[s]] = "done"
  /\ task' = NoTask
  /\ waits' = [waits EXCEPT ![s] = NoTask]
  /\ UNCHANGED <<backendVars, stopping, taskVars, wanted>>

\* The wait for the task is over; the finally clause clears _task, whatever
\* start() has put there in the meantime.
StopEnds(s) ==
  /\ waits[s] # NoTask
  /\ status[waits[s]] = "done"
  /\ task' = NoTask
  /\ waits' = [waits EXCEPT ![s] = NoTask]
  /\ UNCHANGED <<backendVars, stopping, taskVars, wanted>>

\* Fault: stop() gives up without cancelling the task.
StopTimeout_NoCancel(s) ==
  /\ waits[s] # NoTask
  /\ Live(waits[s])
  /\ task' = NoTask
  /\ waits' = [waits EXCEPT ![s] = NoTask]
  /\ UNCHANGED <<backendVars, stopping, taskVars, wanted>>

\* The time limit of stop() elapses: the task is cancelled where it is.
StopTimeout(s) ==
  /\ waits[s] # NoTask
  /\ Live(waits[s])
  /\ status' = [status EXCEPT ![waits[s]] = "done"]
  /\ UNCHANGED <<backendVars, task, stopping, todo, recovered, waits, wanted>>

\* The loop is gone, with its tasks and its callers of stop().
LoopReplaced ==
  /\ status' = [t \in Tasks |-> IF Live(t) THEN "lost" ELSE status[t]]
  /\ waits' = [s \in Stoppers |-> NoTask]
  /\ wanted' = FALSE
  /\ UNCHANGED <<backendVars, task, stopping, todo, recovered>>

-----------------------------------------------------------------------------
\* _run()

Leave(t) ==
  /\ status[t] = "waiting"
  /\ stopping
  /\ status' = [status EXCEPT ![t] = "done"]
  /\ UNCHANGED <<backendVars, task, stopping, todo, recovered, waits, wanted>>

\* The interval has elapsed: attempt_recover_all takes a snapshot.
Wake(t) ==
  /\ status[t] = "waiting"
  /\ ~stopping
  /\ status' = [status EXCEPT ![t] = "probing"]
  /\ todo' = [todo EXCEPT ![t] = roster]
  /\ recovered' = [recovered EXCEPT ![t] = FALSE]
  /\ UNCHANGED <<backendVars, task, stopping, waits, wanted>>

\* try_recover() of one backend; an exception counts as no recovery.
Probe(t, b) ==
  /\ status[t] = "probing"
  /\ b \in todo[t]
  /\ todo' = [todo EXCEPT ![t] = @ \ {b}]
  /\ IF reachable[b] /\ ~healthy[b]
       THEN /\ healthy' = [healthy EXCEPT ![b] = TRUE]
            /\ recovered' = [recovered EXCEPT ![t] = TRUE]
       ELSE UNCHANGED <<healthy, recovered>>
  /\ UNCHANGED <<roster, reachable, task, stopping, status, waits, wanted>>

\* Faults: the round goes back to waiting without the warm hooks; a backend
\* that does not answer ends the round.
EndRound_SkipsHooks(t) ==
  /\ status[t] = "probing"
  /\ todo[t] = {}
  /\ status' = [status EXCEPT ![t] = "waiting"]
  /\ UNCHANGED <<backendVars, task, stopping, todo, recovered, waits, wanted>>

EndRound_AtFirstFailure(t) ==
  /\ status[t] = "probing"
  /\ status' = [status EXCEPT ![t] = IF recovered[t] THEN "hooks" ELSE "waiting"]
  /\ UNCHANGED <<backendVars, task, stopping, todo, recovered, waits, wanted>>

EndRound(t) ==
  /\ status[t] = "probing"
  /\ todo[t] = {}
  /\ status' = [status EXCEPT ![t] = IF recovered[t] THEN "hooks" ELSE "waiting"]
  /\ UNCHANGED <<backendVars, task, stopping, todo, recovered, waits, wanted>>

RunHooks(t) ==
  /\ status[t] = "hooks"
  /\ recovered' = [recovered EXCEPT ![t] = FALSE]
  /\ status' = [status EXCEPT ![t] = "waiting"]
  /\ UNCHANGED <<backendVars, task, stopping, todo, waits, wanted>>

Next ==
  \/ \E b \in Backends : Register(b) \/ Unregister(b) \/ Outage(b) \/ Degrade(b)
  \/ Start \/ StartAgain
  \/ \E s \in Stoppers :
       StopAtOnce(s) \/ StopBegins(s) \/ StopEnds(s) \/ StopTimeout(s)
  \/ LoopReplaced
  \/ \E t \in Tasks :
       \/ Leave(t) \/ Wake(t) \/ EndRound(t) \/ RunHooks(t)
       \/ \E b \in Backends : Probe(t, b)

Spec == Init /\ [][Next]_vars

\* The loop schedules the task, a probe ends, the interval elapses, and the
\* callers of stop() are resumed.
Fairness ==
  /\ \A t \in Tasks :
       /\ WF_vars(Leave(t)) /\ WF_vars(Wake(t))
       /\ WF_vars(EndRound(t)) /\ WF_vars(RunHooks(t))
       /\ \A b \in Backends : WF_vars(Probe(t, b))
  /\ \A s \in Stoppers : WF_vars(StopEnds(s)) /\ WF_vars(StopTimeout(s))

FairSpec == Spec /\ Fairness

-----------------------------------------------------------------------------
\* Properties.

\* Types, and the phase of a round: the hooks run exactly after the rounds
\* that recovered something, before the task waits again.
TypeOK ==
  /\ roster \subseteq Backends
  /\ reachable \in [Backends -> BOOLEAN]
  /\ healthy \in [Backends -> BOOLEAN]
  /\ task \in Tasks \cup {NoTask}
  /\ stopping \in BOOLEAN
  /\ status \in [Tasks -> {"waiting", "probing", "hooks", "done", "lost"}]
  /\ todo \in [Tasks -> SUBSET Backends]
  /\ recovered \in [Tasks -> BOOLEAN]
  /\ waits \in [Stoppers -> Tasks \cup {NoTask}]
  /\ wanted \in BOOLEAN
  /\ \A t \in Tasks : /\ status[t] = "waiting" => ~recovered[t]
                      /\ status[t] = "hooks" => recovered[t]

\* A task that runs is the one _task names, so stop() can reach it: start() and
\* stop() never lose one between them.
OnlyTheTrackedTaskRuns == \A t \in Tasks : Live(t) => t = task

\* LLD.md, section 8: one process-wide singleton; recovery.py:159: start() is a
\* no-op while a task runs.  So there are never two.
OneTaskRuns == \A t, u \in Tasks : Live(t) /\ Live(u) => t = u

\* Between a start() and the next stop() a monitor runs, and after a stop()
\* has returned none does; a task of a loop that is gone does not count.
RunsWhileWanted ==
  ~StopInProgress => (wanted <=> \E t \in Tasks : Live(t))

\* No dropped recovery: a registered backend whose server stays reachable is
\* healthy again some time after, whatever the other backends do.
NoDroppedRecovery ==
  \A b \in Backends :
    <>[](wanted /\ b \in roster /\ reachable[b]) => <>[]healthy[b]

\* stop() returns, also when two callers stop the same monitor.
StopReturns ==
  \A s \in Stoppers : waits[s] # NoTask ~> waits[s] = NoTask
=============================================================================
