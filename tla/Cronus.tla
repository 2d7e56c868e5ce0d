------------------------------- MODULE Cronus -------------------------------
(***************************************************************************)
(* The cron scheduler (packages/cronus/Cronus.ts): the registry of jobs,   *)
(* the ticker with its generations, and runs that outlast the tick, the    *)
(* registration and the ticker that started them.                          *)
(*                                                                         *)
(* A tick visits the jobs one by one, and what their actions and the       *)
(* listeners call in their first synchronous part comes in between.  Which *)
(* minutes a schedule matches is left open.  A job object nobody refers to *)
(* any more stands for a new one.                                          *)
(***************************************************************************)
EXTENDS Integers, FiniteSets

CONSTANTS Name, Job, NoJob

ASSUME CronusAssumption == NoJob \notin Job

VARIABLES jobs,       \* __jobs: the job registered under each name
          name,       \* of each job object
          once,
          enabled,
          running,
          flights,    \* actions of the job under way
          runs,       \* actions of the job started
          kept,       \* what was registered and neither removed nor run once
          active,     \* __active
          timers,     \* timers armed by __scheduleTick, __timer being the last
          ticking,    \* the chain in its tick: "none", "current" or "stale"
          todo        \* the jobs of the tick's snapshot not yet visited

jobVars == <<jobs, name, once, enabled, running, flights, runs, kept>>
cronusVars == <<jobVars, active, timers, ticking, todo>>

CronusInit ==
    /\ jobs = [n \in Name |-> NoJob] /\ kept = jobs
    /\ name = [j \in Job |-> CHOOSE n \in Name : TRUE]
    /\ once = [j \in Job |-> FALSE] /\ enabled = [j \in Job |-> TRUE]
    /\ running = [j \in Job |-> FALSE]
    /\ flights = [j \in Job |-> 0] /\ runs = [j \in Job |-> 0]
    /\ active = FALSE /\ timers = 0 /\ ticking = "none" /\ todo = {}

---------------------------------------------------------------------------
(* The registry.                                                           *)

Registered == {jobs[n] : n \in Name} \ {NoJob}

\* add() and addOnce(), on a free name
Add(n, j, o, e) ==
    /\ jobs[n] = NoJob
    /\ j \notin Registered /\ j \notin todo /\ flights[j] = 0
    /\ jobs' = [jobs EXCEPT ![n] = j] /\ kept' = [kept EXCEPT ![n] = j]
    /\ name' = [name EXCEPT ![j] = n]
    /\ once' = [once EXCEPT ![j] = o] /\ enabled' = [enabled EXCEPT ![j] = e]
    /\ running' = [running EXCEPT ![j] = FALSE]
    /\ runs' = [runs EXCEPT ![j] = 0]
    /\ UNCHANGED <<flights, active, timers, ticking, todo>>

Remove(n) ==
    /\ jobs[n] # NoJob
    /\ jobs' = [jobs EXCEPT ![n] = NoJob] /\ kept' = [kept EXCEPT ![n] = NoJob]
    /\ UNCHANGED <<name, once, enabled, running, flights, runs, active, timers, ticking, todo>>

\* enable() and disable()
SetEnabled(n, e) ==
    /\ jobs[n] # NoJob
    /\ enabled' = [enabled EXCEPT ![jobs[n]] = e]
    /\ UNCHANGED <<jobs, name, once, running, flights, runs, kept, active, timers, ticking, todo>>

---------------------------------------------------------------------------
(* Runs.                                                                   *)

\* __run up to the await of the action
Run(j) ==
    /\ running' = [running EXCEPT ![j] = TRUE]
    /\ flights' = [flights EXCEPT ![j] = @ + 1]
    /\ runs' = [runs EXCEPT ![j] = IF once[j] THEN @ + 1 ELSE @]

Trigger(n) ==
    /\ jobs[n] # NoJob /\ ~running[jobs[n]]
    /\ Run(jobs[n])
    /\ UNCHANGED <<jobs, name, once, enabled, kept, active, timers, ticking, todo>>

\* mutant: the clean-up of a one-shot job goes by its name
FinishByName(j) ==
    /\ flights[j] > 0
    /\ flights' = [flights EXCEPT ![j] = @ - 1]
    /\ running' = [running EXCEPT ![j] = FALSE]
    /\ jobs' = IF once[j] THEN [jobs EXCEPT ![name[j]] = NoJob] ELSE jobs
    /\ kept' = [m \in Name |-> IF once[j] /\ kept[m] = j THEN NoJob ELSE kept[m]]
    /\ UNCHANGED <<name, once, enabled, runs, active, timers, ticking, todo>>

\* the rest of __run
Finish(j) ==
    /\ flights[j] > 0
    /\ flights' = [flights EXCEPT ![j] = @ - 1]
    /\ running' = [running EXCEPT ![j] = FALSE]
    /\ jobs' = IF once[j] /\ jobs[name[j]] = j THEN [jobs EXCEPT ![name[j]] = NoJob] ELSE jobs
    /\ kept' = [m \in Name |-> IF once[j] /\ kept[m] = j THEN NoJob ELSE kept[m]]
    /\ UNCHANGED <<name, once, enabled, runs, active, timers, ticking, todo>>

---------------------------------------------------------------------------
(* The ticker.                                                             *)

Start ==
    /\ ~active
    /\ active' = TRUE /\ timers' = timers + 1
    /\ UNCHANGED <<jobVars, ticking, todo>>

\* stop(): a new generation, and the last timer is cleared
Stop ==
    /\ active' = FALSE
    /\ timers' = IF timers > 0 THEN timers - 1 ELSE 0
    /\ ticking' = IF ticking = "none" THEN "none" ELSE "stale"
    /\ UNCHANGED <<jobVars, todo>>

\* the timer fires and _tick takes its snapshot
Tick ==
    /\ timers > 0 /\ ticking = "none"
    /\ timers' = timers - 1
    /\ ticking' = "current" /\ todo' = Registered
    /\ UNCHANGED <<jobVars, active>>

\* one job of the snapshot: gone, disabled, not due, skipped or run
Visit(j) ==
    /\ ticking # "none" /\ j \in todo
    /\ todo' = todo \ {j}
    /\ \/ UNCHANGED <<running, flights, runs>>
       \/ /\ j \in Registered /\ enabled[j] /\ ~running[j]
          /\ Run(j)
    /\ UNCHANGED <<jobs, name, once, enabled, kept, active, timers, ticking>>

\* mutant: the chain goes on whatever stop() and start() did meanwhile
RearmAlways ==
    /\ ticking # "none" /\ todo = {}
    /\ ticking' = "none"
    /\ timers' = IF active THEN timers + 1 ELSE timers
    /\ UNCHANGED <<jobVars, active, todo>>

\* __scheduleTick at the end of the tick
Rearm ==
    /\ ticking # "none" /\ todo = {}
    /\ ticking' = "none"
    /\ timers' = IF active /\ ticking = "current" THEN timers + 1 ELSE timers
    /\ UNCHANGED <<jobVars, active, todo>>

---------------------------------------------------------------------------
CronusNext ==
    \/ \E n \in Name : \/ \E j \in Job, o, e \in BOOLEAN : Add(n, j, o, e)
                       \/ Remove(n) \/ Trigger(n)
                       \/ \E e \in BOOLEAN : SetEnabled(n, e)
    \/ Start \/ Stop \/ Tick \/ Rearm
    \/ \E j \in Job : Visit(j) \/ Finish(j)

CronusSpec == CronusInit /\ [][CronusNext]_cronusVars

---------------------------------------------------------------------------
(* Properties.                                                             *)

\* One chain of ticks (the comment in stop(), "two chains running"): exactly
\* one timer or tick goes on while the scheduler is active and none while it
\* is stopped, though stop() and start() are called from inside a tick.
OneTicker ==
    timers + (IF ticking = "current" THEN 1 ELSE 0) = (IF active THEN 1 ELSE 0)

\* A job never runs beside itself and a one-shot job never runs twice, from
\* the ticker and trigger() together; and a name keeps its job until
\* remove() or that job's own one run, whatever runs of a job registered
\* earlier under the name finish late (the comments in __run).
JobsKept ==
    /\ jobs = kept
    /\ \A j \in Job : flights[j] <= 1 /\ runs[j] <= 1
=============================================================================
