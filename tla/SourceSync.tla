----------------------------- MODULE SourceSync -----------------------------
(***************************************************************************)
(* The synchronization engine: backend/app/sync.py (lock_job, unlock_job,  *)
(* _run_source, sync_policy, sync_logs, sync_inventory,                    *)
(* sync_initial_inventory), operations.py (instrument_job) and the         *)
(* lifespan of main.py.  Several backend instances share one PostgreSQL.   *)
(*                                                                         *)
(* A runner is one task that executes source synchronizations: an          *)
(* APScheduler job, a POST /api/v1/sync request, or the start-up task that *)
(* primes a new installation.  One action is what a runner does between    *)
(* two commits (or a commit and an upstream call): the database is shared, *)
(* everything else is local to the runner.                                 *)
(*                                                                         *)
(* A SyncJob or OperationalJobRun is identified by its position in its     *)
(* table, so "latest by started_at" is the last element.                   *)
(***************************************************************************)
EXTENDS Naturals, Sequences, FiniteSets

CONSTANTS
    Instance,          \* backend processes
    Source,            \* SyncJob kinds
    PolicySource,      \* the kind run by sync_policy
    LogSource,         \* the kinds run by sync_logs; all others use _run_source
    DeviceSource,      \* "devices", the kind whose history start-up looks at
    Runner,            \* tasks
    Host,              \* the instance a task runs on
    Plans,             \* the source sequences a task may be asked to run
    Instrumented,      \* the tasks wrapped by instrument_job
    InitialRunner,     \* the tasks started by the lifespan
    MaxJobs,           \* bound: SyncJobs per source
    MaxRuns,           \* bound: OperationalJobRuns per source
    MaxStops           \* bound: instances that stop, in total

ASSUME ConstantsAssumption ==
    /\ PolicySource \subseteq Source
    /\ LogSource \subseteq Source
    /\ DeviceSource \subseteq Source
    /\ Host \in [Runner -> Instance]
    /\ Plans \in [Runner -> SUBSET (Seq(Source) \ {<< >>})]
    /\ Instrumented \subseteq Runner
    /\ InitialRunner \subseteq Runner
    /\ MaxJobs \in Nat /\ MaxRuns \in Nat /\ MaxStops \in Nat

CONSTANT Nobody        \* the value of a lock nobody holds

ASSUME NobodyAssumption == Nobody \notin Runner

VARIABLES
    \* --- PostgreSQL
    lock,        \* lock[s]: the runner whose connection holds the advisory lock
    jobs,        \* jobs[s]: the sync_jobs rows of kind s
    capability,  \* capability[s]: status and, as a job position, last_success
    opRuns,      \* opRuns[s]: the operational_job_runs rows of name s
    opState,     \* opState[s]: the operational_job_states row of name s
    \* --- the processes
    live,        \* live[i]: is instance i down, up or shutting down
    stops,       \* how many instances have stopped
    \* --- the tasks
    pc,          \* where the task is
    plan,        \* the sources it still has to run, the current one first
    previous,    \* previous_sync_id read when the instrumented run began
    run,         \* the OperationalJobRun of the instrumented run, 0 without one
    job,         \* the SyncJob the task works on
    pending,     \* what its session will commit in the finally block
    raised,      \* the exception that left the synchronization function
    verdict      \* what the end of the instrumented run read

database == <<lock, jobs, capability, opRuns, opState>>
control == <<live, stops>>
local == <<pc, plan, previous, run, job, pending, raised, verdict>>
vars == <<lock, jobs, capability, opRuns, opState, live, stops,
          pc, plan, previous, run, job, pending, raised, verdict>>

JobStatus == {"running", "success", "partial_success", "failed", "skipped", "cancelled"}
Good == {"success", "partial_success"}
\* "unavailable" stands for permission_denied, unsupported, feature_disabled and
\* upstream_error, the results of capability_status.
CapabilityStatus == {"unknown", "available", "unavailable"}
RunStatus == JobStatus \cup {"lock_skipped"}
Exception == {"none", "error", "cancelled"}
PC == {"idle", "begin", "lock", "insert", "client", "work", "close", "unlock",
       "return", "final"}

\* The states in which the task's connection holds the lock of its source.
Critical == {"insert", "client", "work", "close", "unlock"}
\* The states in which it owns an unfinished SyncJob.
Working == {"client", "work", "close"}

Job == [status : JobStatus, finished : BOOLEAN, run : Nat]
Shown == [status : CapabilityStatus, last_success : Nat]
OpRun == [status : RunStatus, job : Nat]
OpState == [last_status : RunStatus \cup {"never"}, consecutive_failures : Nat]
Pending == [status : JobStatus, capability : CapabilityStatus \cup {"keep"},
            succeeded : BOOLEAN, raises : Exception]
Verdict == [status : RunStatus, job : Nat, failures : Nat]

Settle(status, cap, succeeded, raises) ==
    [status |-> status, capability |-> cap, succeeded |-> succeeded, raises |-> raises]
Nothing == Settle("running", "keep", FALSE, "none")

Sources(p) == {p[k] : k \in DOMAIN p}
Current(r) == plan[r][1]
Latest(s) == Len(jobs[s])
Engaged(r, s) == pc[r] \in Critical /\ Current(r) = s

DatabaseOK ==
    /\ lock \in [Source -> Runner \cup {Nobody}]
    /\ jobs \in [Source -> Seq(Job)]
    /\ capability \in [Source -> Shown]
    /\ opRuns \in [Source -> Seq(OpRun)]
    /\ opState \in [Source -> OpState]

ControlOK ==
    /\ live \in [Instance -> {"down", "up", "stopping"}]
    /\ stops \in Nat

TaskOK ==
    /\ pc \in [Runner -> PC]
    /\ plan \in [Runner -> Seq(Source)]
    /\ \A r \in Runner : pc[r] # "idle" => plan[r] # << >>
    /\ previous \in [Runner -> Nat]
    /\ run \in [Runner -> Nat]
    /\ job \in [Runner -> Nat]
    /\ pending \in [Runner -> Pending]
    /\ raised \in [Runner -> Exception]
    /\ verdict \in [Runner -> Verdict]

TypeOK == DatabaseOK /\ ControlOK /\ TaskOK

NoVerdict == [status |-> "running", job |-> 0, failures |-> 0]

\* No row in the database and no task: where every process starts for the first time.
Fresh ==
    /\ lock = [s \in Source |-> Nobody]
    /\ jobs = [s \in Source |-> << >>]
    /\ capability = [s \in Source |-> [status |-> "unknown", last_success |-> 0]]
    /\ opRuns = [s \in Source |-> << >>]
    /\ opState = [s \in Source |-> [last_status |-> "never", consecutive_failures |-> 0]]
    /\ pc = [r \in Runner |-> "idle"]
    /\ plan = [r \in Runner |-> << >>]
    /\ previous = [r \in Runner |-> 0]
    /\ run = [r \in Runner |-> 0]
    /\ job = [r \in Runner |-> 0]
    /\ pending = [r \in Runner |-> Nothing]
    /\ raised = [r \in Runner |-> "none"]
    /\ verdict = [r \in Runner |-> NoVerdict]

Init == Fresh /\ live = [i \in Instance |-> "down"] /\ stops = 0
-----------------------------------------------------------------------------
(* Processes: lifespan of main.py.                                          *)

\* The bounds: a plan is taken up only while its SyncJobs and runs fit.
Room(r, p) ==
    \A s \in Sources(p) :
       /\ Latest(s) + Cardinality({q \in Runner : pc[q] # "idle" /\ s \in Sources(plan[q])})
             < MaxJobs
       /\ r \in Instrumented => Len(opRuns[s]) < MaxRuns

TakeUp(r, p) ==
    /\ plan' = [plan EXCEPT ![r] = p]
    /\ pc' = [pc EXCEPT ![r] = IF r \in Instrumented THEN "begin" ELSE "lock"]
    /\ raised' = [raised EXCEPT ![r] = "none"]
    /\ UNCHANGED <<previous, run, job, pending, verdict>>

\* should_start_initial_inventory: no job of kind "devices" was ever recorded.
NewInstallation == \A s \in DeviceSource : jobs[s] = << >>

\* The process starts.  A task primes the inventory when credentials are
\* configured (an input) and the installation is new.
Launch(i) ==
    /\ live[i] = "down"
    /\ live' = [live EXCEPT ![i] = "up"]
    /\ \/ /\ NewInstallation
          /\ \E r \in InitialRunner, p \in UNION {Plans[q] : q \in InitialRunner} :
                /\ Host[r] = i /\ pc[r] = "idle" /\ p \in Plans[r] /\ Room(r, p)
                /\ TakeUp(r, p)
       \/ UNCHANGED local
    /\ UNCHANGED <<database, stops>>

\* The scheduler fires a job (max_instances=1: only when its last run is
\* over), or an administrator asks for a synchronization.
Start(r, p) ==
    /\ r \notin InitialRunner
    /\ live[Host[r]] = "up" /\ pc[r] = "idle" /\ Room(r, p)
    /\ TakeUp(r, p)
    /\ UNCHANGED <<database, control>>

\* The lifespan ends after the requests are answered: what the scheduler and
\* the start-up task still run is cancelled from here on.
Shutdown(i) ==
    /\ live[i] = "up" /\ stops < MaxStops
    /\ \A r \in Runner \ Instrumented : Host[r] = i => pc[r] = "idle"
    /\ live' = [live EXCEPT ![i] = "stopping"]
    /\ UNCHANGED <<database, stops, local>>

\* The process is gone: its connections close, which frees their locks.
Stop(i) ==
    /\ live[i] # "down" /\ stops < MaxStops
    /\ live' = [live EXCEPT ![i] = "down"]
    /\ stops' = stops + 1
    /\ lock' = [s \in Source |-> IF \E r \in Runner : lock[s] = r /\ Host[r] = i
                                 THEN Nobody ELSE lock[s]]
    /\ pc' = [r \in Runner |-> IF Host[r] = i THEN "idle" ELSE pc[r]]
    /\ plan' = [r \in Runner |-> IF Host[r] = i THEN << >> ELSE plan[r]]
    /\ previous' = [r \in Runner |-> IF Host[r] = i THEN 0 ELSE previous[r]]
    /\ run' = [r \in Runner |-> IF Host[r] = i THEN 0 ELSE run[r]]
    /\ job' = [r \in Runner |-> IF Host[r] = i THEN 0 ELSE job[r]]
    /\ pending' = [r \in Runner |-> IF Host[r] = i THEN Nothing ELSE pending[r]]
    /\ raised' = [r \in Runner |-> IF Host[r] = i THEN "none" ELSE raised[r]]
    /\ verdict' = [r \in Runner |-> IF Host[r] = i THEN NoVerdict ELSE verdict[r]]
    /\ UNCHANGED <<jobs, capability, opRuns, opState>>
-----------------------------------------------------------------------------
(* instrument_job around the synchronization function.                      *)

Begin(r) ==
    LET s == Current(r) IN
    /\ pc[r] = "begin"
    /\ previous' = [previous EXCEPT ![r] = Latest(s)]
    /\ opRuns' = [opRuns EXCEPT ![s] = Append(@, [status |-> "running", job |-> 0])]
    /\ opState' = [opState EXCEPT ![s].last_status = "running"]
    /\ run' = [run EXCEPT ![r] = Len(opRuns[s]) + 1]
    /\ pc' = [pc EXCEPT ![r] = "lock"]
    /\ UNCHANGED <<lock, jobs, capability, control, plan, job, pending, raised, verdict>>

\* Mutant of Judge: what the function returned is trusted.
JudgeTrustsReturn(r, s) ==
    IF Latest(s) = 0 \/ Latest(s) = previous[r]
    THEN [status |-> "lock_skipped", job |-> 0]
    ELSE [status |-> IF raised[r] = "none" THEN "success" ELSE "failed", job |-> Latest(s)]

\* What the finally block decides from the newest SyncJob of the kind.
Judge(r, s) ==
    LET own == CASE raised[r] = "none" -> "success"
                 [] raised[r] = "error" -> "failed"
                 [] raised[r] = "cancelled" -> "cancelled"
    IN  IF Latest(s) = 0 \/ Latest(s) = previous[r]
        THEN [status |-> "lock_skipped", job |-> 0]
        ELSE LET seen == jobs[s][Latest(s)].status IN
             [status |-> IF seen \in {"failed", "partial_success", "skipped"} THEN seen ELSE own,
              job |-> Latest(s)]

\* The reads of the finally block's session.
FinalRead(r) ==
    LET s == Current(r) IN
    /\ pc[r] = "return" /\ r \in Instrumented
    /\ verdict' = [verdict EXCEPT ![r] =
                     [status |-> Judge(r, s).status, job |-> Judge(r, s).job,
                      failures |-> opState[s].consecutive_failures]]
    /\ pc' = [pc EXCEPT ![r] = "final"]
    /\ UNCHANGED <<database, control, plan, previous, run, job, pending, raised>>

\* Mutant of Advance: one source too many.
AdvanceTooFar(r, goesOn, first) ==
    /\ plan' = [plan EXCEPT ![r] = IF goesOn THEN Tail(@) ELSE << >>]
    /\ pc' = [pc EXCEPT ![r] = IF goesOn THEN first ELSE "idle"]
    /\ UNCHANGED <<raised, previous, run, verdict>>

\* The next source of the plan, unless a cancellation ends the task.
Advance(r, goesOn, first) ==
    /\ plan' = [plan EXCEPT ![r] = IF goesOn THEN Tail(@) ELSE << >>]
    /\ pc' = [pc EXCEPT ![r] = IF goesOn /\ Len(plan[r]) > 1 THEN first ELSE "idle"]
    /\ raised' = [raised EXCEPT ![r] = "none"]
    /\ previous' = [previous EXCEPT ![r] = 0]
    /\ run' = [run EXCEPT ![r] = 0]
    /\ verdict' = [verdict EXCEPT ![r] = NoVerdict]

\* Its commit.
FinalCommit(r) ==
    LET s == Current(r)  v == verdict[r] IN
    /\ pc[r] = "final"
    /\ opRuns' = [opRuns EXCEPT ![s][run[r]] = [status |-> v.status, job |-> v.job]]
    /\ opState' = [opState EXCEPT ![s] =
          [last_status |-> v.status,
           consecutive_failures |->
              CASE v.status = "success" -> 0
                [] v.status \in {"lock_skipped", "skipped"} -> @.consecutive_failures
                [] OTHER -> v.failures + 1]]
    /\ Advance(r, raised[r] # "cancelled", "begin")
    /\ UNCHANGED <<lock, jobs, capability, control, job, pending>>

\* Without instrumentation (sync_inventory isolates failures) the next source
\* simply follows.
Return(r) ==
    /\ pc[r] = "return" /\ r \notin Instrumented
    /\ Advance(r, TRUE, "lock")
    /\ UNCHANGED <<database, control, job, pending>>
-----------------------------------------------------------------------------
(* One source: lock_job, _run_source, sync_policy, sync_logs, unlock_job.   *)

\* Mutant of TryLock: the answer of pg_try_advisory_lock is ignored.
TryLockIgnored(r) ==
    /\ pc[r] = "lock"
    /\ lock' = [lock EXCEPT ![Current(r)] = IF @ = Nobody THEN r ELSE @]
    /\ pc' = [pc EXCEPT ![r] = "insert"]
    /\ UNCHANGED <<jobs, capability, opRuns, opState, control, plan, previous, run, job,
                   pending, raised, verdict>>

\* pg_try_advisory_lock: the function returns at once when it is held.
TryLock(r) ==
    LET s == Current(r) IN
    /\ pc[r] = "lock"
    /\ IF lock[s] = Nobody
       THEN /\ lock' = [lock EXCEPT ![s] = r]
            /\ pc' = [pc EXCEPT ![r] = "insert"]
       ELSE /\ pc' = [pc EXCEPT ![r] = "return"]
            /\ UNCHANGED lock
    /\ UNCHANGED <<jobs, capability, opRuns, opState, control, plan, previous, run, job,
                   pending, raised, verdict>>

InsertJob(r) ==
    LET s == Current(r) IN
    /\ pc[r] = "insert"
    /\ jobs' = [jobs EXCEPT ![s] = Append(@,
          [status |-> "running", finished |-> FALSE,
           run |-> IF r \in Instrumented THEN run[r] ELSE 0])]
    /\ job' = [job EXCEPT ![r] = Latest(s) + 1]
    /\ pending' = [pending EXCEPT ![r] = Nothing]
    /\ pc' = [pc EXCEPT ![r] = "client"]
    /\ UNCHANGED <<lock, capability, opRuns, opState, control, plan, previous, run,
                   raised, verdict>>

Prepare(r, outcome) ==
    /\ pending' = [pending EXCEPT ![r] = outcome]
    /\ pc' = [pc EXCEPT ![r] = "close"]
    /\ UNCHANGED <<job, raised>>

\* The session's objects go out of scope.
Forget(r) == job' = [job EXCEPT ![r] = 0] /\ pending' = [pending EXCEPT ![r] = Nothing]

\* The exception leaves the function before its finally block: the pinned
\* connection still holds the lock.
Escape(r, exception) ==
    /\ raised' = [raised EXCEPT ![r] = exception]
    /\ Forget(r)
    /\ pc' = [pc EXCEPT ![r] = "return"]

Policy(s) == s \in PolicySource
Logs(s) == s \in LogSource /\ ~Policy(s)
Generic(s) == s \notin LogSource \cup PolicySource

\* client_for: a client, no credentials, or a stored credential it cannot read.
\* Only _run_source calls it inside its try block.
OpenClient(r) ==
    LET s == Current(r) IN
    /\ pc[r] = "client"
    /\ \/ pc' = [pc EXCEPT ![r] = "work"] /\ UNCHANGED <<job, pending, raised>>
       \/ Prepare(r, Settle("skipped", "keep", FALSE, "none"))
       \/ Generic(s) /\ Prepare(r, Settle("failed", "unavailable", FALSE, "none"))
       \/ ~Generic(s) /\ Escape(r, "error")
    /\ UNCHANGED <<database, control, plan, previous, run, verdict>>

\* Mutant of WorkerSucceeds: the lock is released with the result, before the
\* finally block.
WorkerSucceedsUnlocks(r) ==
    LET s == Current(r) IN
    /\ pc[r] = "work" /\ Generic(s)
    /\ jobs' = [jobs EXCEPT ![s][job[r]].status = "success"]
    /\ Prepare(r, Settle("success", "keep", FALSE, "none"))
    /\ capability' = [capability EXCEPT ![s] = [status |-> "available", last_success |-> job[r]]]
    /\ lock' = [lock EXCEPT ![s] = Nobody]
    /\ UNCHANGED <<opRuns, opState, control, plan, previous, run, verdict>>

\* _run_source commits the result and the capability before its finally block.
WorkerSucceeds(r) ==
    LET s == Current(r) IN
    /\ pc[r] = "work" /\ Generic(s)
    /\ \E status \in Good :
          /\ jobs' = [jobs EXCEPT ![s][job[r]].status = status]
          /\ Prepare(r, Settle(status, "keep", FALSE, "none"))
    /\ capability' = [capability EXCEPT ![s] = [status |-> "available", last_success |-> job[r]]]
    /\ UNCHANGED <<lock, opRuns, opState, control, plan, previous, run, verdict>>

\* Mutant of RunSourceFailures: a failure leaves the capability alone.
RunSourceKeepsCapability == {Settle("failed", "keep", FALSE, "none")}

\* The other outcomes change session objects that the finally block commits.
\* _run_source: a TailscaleError or any other exception.
RunSourceFailures == {Settle("failed", "unavailable", FALSE, "none")}

\* sync_policy: retrieved, TailscaleError, a policy that does not parse (the
\* capability is available all the same), an exception without a handler.
PolicyOutcomes == {Settle("success", "available", TRUE, "none"),
                   Settle("failed", "unavailable", FALSE, "none"),
                   Settle("failed", "available", TRUE, "none"),
                   Settle("running", "keep", FALSE, "error")}

\* sync_logs: ingested, or a TailscaleError or any other exception.
LogOutcomes == {Settle("success", "available", TRUE, "none"),
                Settle("failed", "unavailable", FALSE, "none")}

Outcomes(s) == CASE Generic(s) -> RunSourceFailures
                 [] Policy(s) -> PolicyOutcomes
                 [] Logs(s) -> LogOutcomes

WorkerEnds(r) ==
    /\ pc[r] = "work"
    /\ \E o \in Outcomes(Current(r)) : Prepare(r, o)
    /\ UNCHANGED <<database, control, plan, previous, run, verdict>>

\* The finally block: finished_at and the session's changes in one commit.
Close(r) ==
    LET s == Current(r)  o == pending[r] IN
    /\ pc[r] = "close"
    /\ jobs' = [jobs EXCEPT ![s][job[r]].status = o.status, ![s][job[r]].finished = TRUE]
    /\ capability' = [capability EXCEPT ![s] =
          [status |-> IF o.capability = "keep" THEN @.status ELSE o.capability,
           last_success |-> IF o.succeeded THEN job[r] ELSE @.last_success]]
    /\ raised' = [raised EXCEPT ![r] = o.raises]
    /\ Forget(r)
    /\ pc' = [pc EXCEPT ![r] = "unlock"]
    /\ UNCHANGED <<lock, opRuns, opState, control, plan, previous, run, verdict>>

Unlock(r) ==
    /\ pc[r] = "unlock"
    /\ lock' = [lock EXCEPT ![Current(r)] = Nobody]
    /\ pc' = [pc EXCEPT ![r] = "return"]
    /\ UNCHANGED <<jobs, capability, opRuns, opState, control, plan, previous, run, job,
                   pending, raised, verdict>>

\* Mutant of Reclaim: lock_job does not keep its connection, the pool may close it.
ReclaimUnpinned(s) ==
    /\ lock[s] # Nobody
    /\ lock' = [lock EXCEPT ![s] = Nobody]
    /\ UNCHANGED <<jobs, capability, opRuns, opState, control, local>>

\* Mutant of Reclaim: a leaked connection stays open as long as its process.
ReclaimDead(s) ==
    /\ \E r \in Runner : lock[s] = r /\ live[Host[r]] = "down"
    /\ lock' = [lock EXCEPT ![s] = Nobody]
    /\ UNCHANGED <<jobs, capability, opRuns, opState, control, local>>

\* A connection whose task has left it is closed by the pool, which frees its
\* session lock.
Reclaim(s) ==
    /\ \E r \in Runner : lock[s] = r /\ ~Engaged(r, s)
    /\ lock' = [lock EXCEPT ![s] = Nobody]
    /\ UNCHANGED <<jobs, capability, opRuns, opState, control, local>>
-----------------------------------------------------------------------------
(* Cancellation of scheduled and start-up tasks during shutdown.            *)

\* During client_for or the worker: only _run_source has a handler; the other
\* two reach their finally block with an unchanged job, and before their try
\* block not even that.
CancelWork(r) ==
    LET s == Current(r) IN
    /\ live[Host[r]] = "stopping" /\ r \in Instrumented /\ pc[r] \in {"client", "work"}
    /\ \/ Generic(s) /\ Prepare(r, Settle("cancelled", "keep", FALSE, "cancelled"))
       \/ /\ ~Generic(s) /\ pc[r] = "work"
          /\ Prepare(r, Settle("running", "keep", FALSE, "cancelled"))
       \/ ~Generic(s) /\ pc[r] = "client" /\ Escape(r, "cancelled")
    /\ UNCHANGED <<database, control, plan, previous, run, verdict>>

\* Anywhere else inside the function: it is left at once, its lock not released.
CancelElsewhere(r) ==
    /\ live[Host[r]] = "stopping" /\ r \in Instrumented
    /\ pc[r] \in {"lock", "insert", "close", "unlock"}
    /\ Escape(r, "cancelled")
    /\ UNCHANGED <<database, control, plan, previous, run, verdict>>

\* In instrument_job's own sessions: nothing more is recorded.
CancelInstrument(r) ==
    /\ live[Host[r]] = "stopping" /\ r \in Instrumented
    /\ pc[r] \in {"begin", "return", "final"}
    /\ Advance(r, FALSE, "begin")
    /\ UNCHANGED <<database, control, job, pending>>
-----------------------------------------------------------------------------
\* Nothing runs and the bounds are exhausted: the model rests here.
Rest == (\A r \in Runner : pc[r] = "idle") /\ UNCHANGED vars

Step(r) ==
    \/ Begin(r) \/ TryLock(r) \/ InsertJob(r) \/ OpenClient(r)
    \/ WorkerSucceeds(r) \/ WorkerEnds(r) \/ Close(r) \/ Unlock(r)
    \/ FinalRead(r) \/ FinalCommit(r) \/ Return(r)

Cancel(r) == CancelWork(r) \/ CancelElsewhere(r) \/ CancelInstrument(r)

Next ==
    \/ \E i \in Instance : Launch(i) \/ Shutdown(i) \/ Stop(i)
    \/ \E r \in Runner : Step(r) \/ Cancel(r) \/ \E p \in Plans[r] : Start(r, p)
    \/ \E s \in Source : Reclaim(s)
    \/ Rest

Spec == Init /\ [][Next]_vars

\* Every await of a task ends (requests have timeouts, advisory locks are only
\* tried) and the pool reclaims abandoned connections.
Fairness == /\ \A r \in Runner : WF_vars(Step(r))
            /\ \A s \in Source : WF_vars(Reclaim(s))

FairSpec == Spec /\ Fairness
-----------------------------------------------------------------------------
(* Safety.                                                                  *)

(* Two tasks, in whatever processes, never work on one source at a time:    *)
(* every write of a worker happens while its own connection holds the       *)
(* advisory lock, also after processes stopped and connections leaked.      *)
OneTaskPerSource ==
    \A s \in Source : \A q, r \in Runner : Engaged(q, s) /\ Engaged(r, s) => q = r

(* A job somebody works on is the newest of its source and not finished, so *)
(* a slow task never reports its result into a newer execution's row.       *)
OpenJobIsNewest ==
    \A r \in Runner : pc[r] \in Working =>
       /\ job[r] = Latest(Current(r)) /\ job[r] > 0
       /\ ~jobs[Current(r)][job[r]].finished

(* The history is write-once: a finished job, or one that a newer job has   *)
(* superseded, keeps its result for good.                                   *)
HistoryIsFinal ==
    [][\A s \in Source : \A k \in DOMAIN jobs[s] :
          jobs[s][k].finished \/ k < Latest(s) =>
             k \in DOMAIN jobs'[s] /\ jobs'[s][k] = jobs[s][k]]_vars

(* The capability state shown for a source is the verdict of the latest job *)
(* that reached one, and last_success is that of the latest success: no     *)
(* interleaving or crash leaves a source "available" after a later failure  *)
(* or hides a later success.  (A policy that was retrieved but does not     *)
(* parse counts as available.)                                              *)
Determined(s) == {k \in DOMAIN jobs[s] : jobs[s][k].status \in Good \cup {"failed"}}
IsLast(k, S) == k \in S /\ \A m \in S : m <= k

CapabilityIsLatestVerdict ==
    \A s \in Source :
       /\ Determined(s) = {} => capability[s] = [status |-> "unknown", last_success |-> 0]
       /\ \A k \in Determined(s) : IsLast(k, Determined(s)) =>
             IF jobs[s][k].status \in Good
             THEN capability[s] = [status |-> "available", last_success |-> k]
             ELSE \/ capability[s].status = "unavailable" /\ capability[s].last_success < k
                  \/ Policy(s) /\ capability[s] = [status |-> "available", last_success |-> k]

(* A run recorded as lock_skipped created no SyncJob: the execution it left *)
(* to another task is never its own.                                        *)
LockSkippedDidNoWork ==
    \A s \in Source : \A j \in DOMAIN jobs[s] : LET k == jobs[s][j].run IN
       k > 0 => opRuns[s][k].status # "lock_skipped"

(* A source synchronized by _run_source that has finished_at has a result.  *)
FinishedHasResult ==
    \A s \in Source : Generic(s) =>
       \A k \in DOMAIN jobs[s] : jobs[s][k].finished => jobs[s][k].status # "running"

(* What the tables say of the executions is what happened: results, the     *)
(* capability and the runs that lost the lock, after any interleaving.      *)
RecordsAreTrue == FinishedHasResult /\ CapabilityIsLatestVerdict /\ LockSkippedDidNoWork

(* A run that reports success did the work: the SyncJob it names is its own *)
(* and succeeded.                                                           *)
SuccessIsOwn ==
    \A s \in Source : \A k \in DOMAIN opRuns[s] : opRuns[s][k].status = "success" =>
       LET j == jobs[s][opRuns[s][k].job] IN j.run = k /\ j.status = "success"

(* consecutive_failures, which the operations evaluator alarms on, is the   *)
(* number of failing runs recorded since the last success.                  *)
Failing == {"failed", "partial_success", "cancelled"}
FailureCountIsHistory ==
    \A s \in Source : opState[s].consecutive_failures =
       Cardinality({k \in DOMAIN opRuns[s] : opRuns[s][k].status \in Failing
                       /\ \A m \in k .. Len(opRuns[s]) : opRuns[s][m].status # "success"})

(* What the operations records say of the executions of a single backend.   *)
HistoryIsOwn == SuccessIsOwn /\ FailureCountIsHistory

(* The engine implements the ledger of JobLedger: a job is open while a     *)
(* task works on it, closed when finished_at is set, abandoned otherwise.   *)
Open(s, k) == \E r \in Runner : pc[r] \in Working /\ Current(r) = s /\ job[r] = k
PhaseOf(s, k) == IF jobs[s][k].finished THEN "closed"
                 ELSE IF Open(s, k) THEN "open" ELSE "abandoned"
Phases == [s \in Source |-> [k \in DOMAIN jobs[s] |-> PhaseOf(s, k)]]
Ledger == INSTANCE JobLedger WITH ledger <- Phases
LedgerSpec == Ledger!Spec
-----------------------------------------------------------------------------
(* Liveness, under Fairness.                                                *)

(* No source is blocked for good: its lock becomes free again and again,    *)
(* whatever task stopped, raised or was cancelled while holding it.         *)
LockIsReleased == \A s \in Source : []<>(lock[s] = Nobody)

(* A job is finished by the task that works on it, unless its process shuts *)
(* down or dies.  (Without _run_source a job can end at client_for.)        *)
OpenJobCloses ==
    \A s \in Source : \A k \in 1 .. MaxJobs : \A r \in Runner :
       ( /\ pc[r] \in {"work", "close"} \/ (Generic(s) /\ pc[r] = "client")
         /\ Current(r) = s /\ job[r] = k)
          ~> \/ k \in DOMAIN jobs[s] /\ jobs[s][k].finished
             \/ live[Host[r]] # "up"

(* Whatever fails, the engine comes back to work on every source.           *)
EngineRecovers == LockIsReleased /\ OpenJobCloses
=============================================================================
