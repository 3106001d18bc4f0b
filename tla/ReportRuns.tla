----------------------------- MODULE ReportRuns -----------------------------
(***************************************************************************)
(* Reports: schedules over saved views, the cycle that enqueues due        *)
(* occurrences and generates queued runs under one advisory lock, the      *)
(* requests of administrators, and the cleanup of old runs.  Views are     *)
(* those of SharedEdits.  What a report contains is left out: a run either *)
(* stores its artifacts or fails.  Schedules have one frequency.           *)
(***************************************************************************)
EXTENDS SharedEdits

CONSTANTS
    Backend, Schedule,
    Period,         \* the time between two occurrences
    Timeout,        \* settings.report_generation_timeout_seconds
    Retention,      \* settings.report_artifact_retention_days
    MaxConcurrent,  \* settings.report_max_concurrent_jobs
    MaxFaults       \* bound: crashes, and failed reads of a run

ASSUME ReportsAssumption ==
    /\ Period \in Nat \ {0} /\ Timeout \in Nat /\ Retention \in Nat
    /\ MaxConcurrent \in Nat \ {0} /\ MaxFaults \in Nat
    /\ None \notin Backend \cup Schedule \cup Nat
    /\ \A s \in Scenarios : s.horizon \in Nat

VARIABLES
    now, faults,
    schedule, planned,  \* the rows of report_schedules, and every id there was
    run, made,          \* the rows of report_runs by their created_at, and how many there were
    lock,               \* the holder of advisory lock 81210
    cycle,              \* cycle[b]: where the reporting cycle of b is
    task,               \* the generations: <<b, r>> to "get" or "work"
    \* --- history for the properties
    since, occurrences, \* the occurrence the last save of s called for, and those enqueued since
    overtaken,          \* the schedules that a cycle changed between load and save of a request
    orphaned            \* a generation lost its cycle

reportVars == <<now, faults, schedule, planned, run, made, lock, cycle, task,
                since, occurrences, overtaken, orphaned>>
vars == <<editVars, reportVars>>
cycleVars == <<lock, cycle, task>>
plans == <<schedule, planned, since, occurrences, overtaken>>

Final == {"completed", "failed"}
Resting == [at |-> "idle"]
Plan == [view : View \cup {None}, enabled : BOOLEAN, next : Nat \cup {None}]
Run == [view : View \cup {None}, revision : Nat, content : Content,
        schedule : Schedule \cup {None}, period : Nat \cup {None}, retry_of : Nat \cup {None},
        status : Final \cup {"queued", "running"}, artifacts : BOOLEAN,
        started : Nat \cup {None}, completed : Nat \cup {None}]

TypeOK ==
    /\ EditsTypeOK
    /\ now \in 0 .. scenario.horizon /\ faults \in 0 .. MaxFaults
    /\ planned \subseteq Schedule /\ DOMAIN schedule \subseteq planned
    /\ \A s \in DOMAIN schedule : schedule[s] \in Plan
    /\ made \in Nat /\ DOMAIN run \subseteq 1 .. made
    /\ \A r \in DOMAIN run :
          /\ run[r] \in Run
          /\ run[r].view \in DOMAIN view \cup {None}
          /\ run[r].schedule \in DOMAIN schedule \cup {None}
          /\ run[r].retry_of \in DOMAIN run \cup {None}
          /\ run[r].artifacts <=> run[r].status = "completed"
          /\ run[r].completed # None <=> run[r].status \in Final
    /\ lock \in Backend \cup {None}
    /\ \A t \in DOMAIN task : task[t] \in {"get", "work"}

Init ==
    /\ EditsInit
    /\ now = 0 /\ faults = 0
    /\ schedule = <<>> /\ planned = {} /\ run = <<>> /\ made = 0
    /\ lock = None /\ cycle = [b \in Backend |-> Resting] /\ task = <<>>
    /\ since = <<>> /\ occurrences = <<>> /\ overtaken = {} /\ orphaned = FALSE
-----------------------------------------------------------------------------
(* Foreign keys: ON DELETE SET NULL.                                        *)

Kept(reference, rows) == IF reference \in rows THEN reference ELSE None
Without(f, gone) == [x \in DOMAIN f \ gone |-> f[x]]

RunsAfter(runs, views, schedules) ==
    [r \in DOMAIN runs |->
        [runs[r] EXCEPT !.view = Kept(@, views), !.schedule = Kept(@, schedules),
                        !.retry_of = Kept(@, DOMAIN runs)]]

EditView(c) ==
    /\ EditStep(c)
    /\ schedule' = [s \in DOMAIN schedule |-> [schedule[s] EXCEPT !.view = Kept(@, DOMAIN view')]]
    /\ run' = RunsAfter(run, DOMAIN view', DOMAIN schedule)
    /\ UNCHANGED <<now, faults, planned, made, cycleVars, since, occurrences, overtaken, orphaned>>
-----------------------------------------------------------------------------
(* Requests of administrators.                                              *)

next_schedule_time(t) == Period * (t \div Period + 1)

NewRun(v, s, period, retryOf) ==
    [view |-> v, revision |-> view[v].revision, content |-> view[v].content,
     schedule |-> s, period |-> period, retry_of |-> retryOf, status |-> "queued",
     artifacts |-> FALSE, started |-> None, completed |-> None]

Inserting(c) == request[c].op \in {"generate", "retry", "run"}
Requested(c, loaded) ==
    /\ user[c] \in Admin /\ Passed(c, loaded)
    /\ UNCHANGED reportVars

generate_network_report(c) ==
    /\ \E v \in DOMAIN view : Requested(c, [op |-> "generate", run |-> NewRun(v, None, None, None)])

\* A retry copies the failed run, not the view.
retry_report(c) ==
    /\ \E r \in DOMAIN run :
          /\ run[r].status = "failed"
          /\ Requested(c, [op |-> "retry",
                           run |-> [run[r] EXCEPT !.period = None, !.retry_of = r,
                                    !.status = "queued", !.started = None, !.completed = None]])

run_report_schedule(c) ==
    /\ \E s \in DOMAIN schedule :
          /\ schedule[s].view # None
          /\ Requested(c, [op |-> "run", run |-> NewRun(schedule[s].view, s, None, None)])

References(row) ==
    /\ row.view \in DOMAIN view \cup {None}
    /\ row.schedule \in DOMAIN schedule \cup {None}
    /\ row.retry_of \in DOMAIN run \cup {None}

\* Mutated: a retry queues the failed run itself again.
InsertRunAgain(c) ==
    /\ Inserting(c) /\ Ends(c, request[c].op) /\ Refuse
    /\ \/ /\ ~References(request[c].run)
          /\ UNCHANGED <<run, made>>
       \/ /\ References(request[c].run)
          /\ made' = made + 1
          /\ run' = With(run, IF request[c].op = "retry" THEN request[c].run.retry_of ELSE made',
                          request[c].run)
    /\ UNCHANGED <<now, faults, cycleVars, plans, orphaned>>

\* A referenced row that is gone meanwhile violates its foreign key.
InsertRun(c) ==
    /\ Inserting(c) /\ Ends(c, request[c].op) /\ Refuse
    /\ \/ /\ ~References(request[c].run)
          /\ UNCHANGED <<run, made>>
       \/ /\ References(request[c].run)
          /\ made' = made + 1
          /\ run' = With(run, made', request[c].run)
    /\ UNCHANGED <<now, faults, cycleVars, plans, orphaned>>

NewPlan(v, enabled) ==
    [view |-> v, enabled |-> enabled, next |-> IF enabled THEN next_schedule_time(now) ELSE None]

create_report_schedule(c) ==
    /\ \A d \in Client : request[d].op # "schedule"
    /\ planned # Schedule
    /\ \E v \in DOMAIN view, on \in BOOLEAN : Requested(c, [op |-> "schedule", row |-> NewPlan(v, on)])

update_report_schedule(c) ==
    \E s \in DOMAIN schedule, v \in DOMAIN view, on \in BOOLEAN :
       Requested(c, [op |-> "reschedule", id |-> s, loaded |-> schedule[s], row |-> NewPlan(v, on)])

delete_report_schedule(c) ==
    \E s \in DOMAIN schedule : Requested(c, [op |-> "unschedule", id |-> s])

\* The occurrences of s are told anew from row.next on.
Saved(s, row) ==
    /\ schedule' = With(schedule, s, row)
    /\ since' = With(since, s, row.next)
    /\ occurrences' = With(occurrences, s, <<>>)

InsertSchedule(c) ==
    /\ Ends(c, "schedule") /\ Refuse
    /\ \/ /\ request[c].row.view \notin DOMAIN view
          /\ UNCHANGED plans
       \/ /\ request[c].row.view \in DOMAIN view
          /\ LET s == CHOOSE x \in Schedule \ planned : TRUE
             IN planned' = planned \cup {s} /\ Saved(s, request[c].row)
          /\ UNCHANGED overtaken
    /\ UNCHANGED <<now, faults, run, made, cycleVars, orphaned>>

WriteSchedule(c) ==
    /\ Ends(c, "reschedule") /\ Refuse
    /\ LET s == request[c].id
           loaded == request[c].loaded
           row == Written(loaded, request[c].row, schedule[s])
           fits == s \in DOMAIN schedule /\ row.view \in DOMAIN view \cup {None}
       IN \/ /\ ~fits
             /\ UNCHANGED <<schedule, since, occurrences, overtaken>>
          \/ /\ fits
             /\ Saved(s, row)
             /\ overtaken' = IF schedule[s] = loaded THEN overtaken ELSE overtaken \cup {s}
    /\ UNCHANGED <<now, faults, planned, run, made, cycleVars, orphaned>>

DropSchedule(c) ==
    /\ Ends(c, "unschedule") /\ Refuse
    /\ schedule' = Without(schedule, {request[c].id})
    /\ run' = RunsAfter(run, DOMAIN view, DOMAIN schedule')
    /\ UNCHANGED <<now, faults, planned, made, cycleVars, since, occurrences, overtaken, orphaned>>

AdminStep(c) ==
    \/ generate_network_report(c) \/ retry_report(c) \/ run_report_schedule(c) \/ InsertRun(c)
    \/ create_report_schedule(c) \/ InsertSchedule(c)
    \/ update_report_schedule(c) \/ WriteSchedule(c)
    \/ delete_report_schedule(c) \/ DropSchedule(c)
-----------------------------------------------------------------------------
(* The reporting cycle, in every backend.                                   *)

\* Mutated: the comparison is swapped.
StaleSwapped(r) == run[r].status = "running" /\ now - run[r].started < Timeout
Stale(r) == run[r].status = "running" /\ now - run[r].started > Timeout

\* Bound: the scenarios without time are about requests only.
Scheduled == scenario.horizon > 0

\* Rows that a crash or a shutdown left running; then the due schedules.  An
\* occurrence that has its run already is not enqueued, and not moved on.
Begin(b) ==
    /\ cycle[b] = Resting /\ lock = None /\ Scheduled
    /\ lock' = b
    /\ run' = [r \in DOMAIN run |-> IF Stale(r)
                                    THEN [run[r] EXCEPT !.status = "failed", !.completed = now]
                                    ELSE run[r]]
    /\ LET due == {s \in DOMAIN schedule : /\ schedule[s].enabled /\ schedule[s].next # None
                                        /\ schedule[s].next <= now}
           known == {s \in due : \E r \in DOMAIN run : run[r].schedule = s
                                                      /\ run[r].period = schedule[s].next}
           lost == {s \in due : schedule[s].view = None}
       IN cycle' = [cycle EXCEPT ![b] =
                       [at |-> "enqueue", lost |-> lost, loaded |-> schedule,
                        runs |-> [s \in due \ (known \cup lost) |->
                                     NewRun(schedule[s].view, s, schedule[s].next, None)]]]
    /\ UNCHANGED <<editVars, now, faults, plans, made, task, orphaned>>

\* Mutated: the next occurrence is told from the clock.
AfterEnqueueNow(new) == next_schedule_time(now)
AfterEnqueue(new) == next_schedule_time(new.period)

EndCycle(b) == cycle' = [cycle EXCEPT ![b] = Resting] /\ lock' = None

\* One transaction: a schedule or a view that is gone meanwhile fails it all.
Enqueue(b) ==
    /\ cycle[b].at = "enqueue"
    /\ LET new == cycle[b].runs
           lost == cycle[b].lost
           written == lost \cup DOMAIN new
           fits == written \subseteq DOMAIN schedule /\ \A s \in DOMAIN new : References(new[s])
       IN \/ /\ ~fits
             /\ EndCycle(b)
             /\ UNCHANGED <<schedule, run, made, occurrences, overtaken>>
          \/ /\ fits
             /\ cycle' = [cycle EXCEPT ![b] = [at |-> "pick"]] /\ UNCHANGED lock
             /\ schedule' = [s \in DOMAIN schedule |->
                   IF s \in lost THEN [schedule[s] EXCEPT !.enabled = FALSE]
                   ELSE IF s \in DOMAIN new
                   THEN [schedule[s] EXCEPT !.next = AfterEnqueue(new[s])]
                   ELSE schedule[s]]
             /\ \E order \in [DOMAIN new -> 1 .. Cardinality(DOMAIN new)] :
                   /\ \A s, u \in DOMAIN new : order[s] = order[u] => s = u
                   /\ run' = Merged([r \in {made + order[s] : s \in DOMAIN new} |->
                                        new[CHOOSE s \in DOMAIN new : made + order[s] = r]], run)
             /\ made' = made + Cardinality(DOMAIN new)
             /\ occurrences' = [s \in DOMAIN occurrences |->
                   IF s \in DOMAIN new THEN Append(occurrences[s], new[s].period)
                   ELSE occurrences[s]]
             /\ overtaken' = overtaken
                                \cup {s \in written : schedule[s] # cycle[b].loaded[s]}
    /\ UNCHANGED <<editVars, now, faults, planned, task, since, orphaned>>

Queued == {r \in DOMAIN run : run[r].status = "queued"}
Oldest(n) == {r \in Queued : Cardinality({q \in Queued : q < r}) < n}

\* A generation that lost its cycle reads its run before the next cycle.
Pick(b) ==
    /\ cycle[b].at = "pick"
    /\ \A t \in DOMAIN task : t[1] = b => task[t] # "get"
    /\ cycle' = [cycle EXCEPT ![b] = [at |-> "generate", picks |-> Oldest(MaxConcurrent)]]
    /\ task' = Merged([t \in {b} \X Oldest(MaxConcurrent) |-> "get"], task)
    /\ UNCHANGED <<editVars, now, faults, plans, run, made, lock, orphaned>>

TaskEnds(t) ==
    /\ task' = Without(task, {t})
    /\ UNCHANGED <<editVars, now, faults, plans, made, lock, cycle, orphaned>>

Start(t) ==
    /\ task[t] = "get" /\ t[2] \in Queued
    /\ task' = [task EXCEPT ![t] = "work"]
    /\ run' = [run EXCEPT ![t[2]].status = "running", ![t[2]].started = now]
    /\ UNCHANGED <<editVars, now, faults, plans, made, lock, cycle, orphaned>>

Skip(t) ==
    /\ task[t] = "get" /\ t[2] \notin Queued
    /\ TaskEnds(t) /\ UNCHANGED run

\* The read of the run fails outside the handler: gather raises, the cycle ends
\* and gives the lock back while the other generations go on.
GetFails(t) ==
    /\ task[t] = "get" /\ faults < MaxFaults /\ faults' = faults + 1
    /\ cycle[t[1]].at = "generate" /\ EndCycle(t[1])
    /\ task' = Without(task, {t})
    /\ orphaned' = (orphaned \/ \E u \in DOMAIN task \ {t} : u[1] = t[1])
    /\ UNCHANGED <<editVars, now, plans, run, made>>

\* The artifacts, the snapshot and the status in one transaction; "completed"
\* stands for "partial" too, which only says what the aggregates covered.
Store(t) ==
    /\ task[t] = "work"
    /\ run' = IF t[2] \notin DOMAIN run THEN run
              ELSE [run EXCEPT ![t[2]] = [@ EXCEPT !.status = "completed", !.artifacts = TRUE,
                                                   !.completed = now]]
    /\ TaskEnds(t)

\* An exception, an artifact that is too large, or the timeout.  The handler reads
\* the id of the run that its own rollback has expired: where that read raises, in
\* an open transaction, the run stays "running".
\* Bound: what is left running has time to be found.
GiveUp(t) ==
    /\ task[t] = "work"
    /\ \/ run' = IF t[2] \notin DOMAIN run THEN run
                 ELSE [run EXCEPT ![t[2]].status = "failed", ![t[2]].completed = now]
       \/ now + Timeout < scenario.horizon /\ UNCHANGED run
    /\ TaskEnds(t)

End(b) ==
    /\ cycle[b].at = "generate"
    /\ ({b} \X cycle[b].picks) \cap DOMAIN task = {}
    /\ EndCycle(b)
    /\ UNCHANGED <<editVars, now, faults, plans, run, made, task, orphaned>>

TaskStep == \E t \in DOMAIN task : Start(t) \/ Skip(t) \/ Store(t) \/ GiveUp(t)
CycleStep == \E b \in Backend : Begin(b) \/ Enqueue(b) \/ Pick(b) \/ End(b)
-----------------------------------------------------------------------------
(* run_cleanup.                                                             *)

Expired == {r \in DOMAIN run : run[r].completed # None /\ run[r].completed < now - Retention}

\* One DELETE; the artifacts go with the rows.
Clean ==
    /\ "cleanup" \in scenario.ops /\ Expired # {}
    /\ run' = RunsAfter(Without(run, Expired), DOMAIN view, DOMAIN schedule)
    /\ UNCHANGED <<editVars, now, faults, plans, made, cycleVars, orphaned>>

\* The process dies, or a shutdown cancels its tasks: connections and locks go.
Crash(b) ==
    /\ faults < MaxFaults /\ faults' = faults + 1
    /\ now + Timeout < scenario.horizon
    /\ cycle' = [cycle EXCEPT ![b] = Resting]
    /\ task' = Without(task, {t \in DOMAIN task : t[1] = b})
    /\ lock' = IF lock = b THEN None ELSE lock
    /\ UNCHANGED <<editVars, now, plans, run, made, orphaned>>

Tick ==
    /\ now < scenario.horizon /\ now' = now + 1
    /\ UNCHANGED <<editVars, faults, plans, run, made, cycleVars, orphaned>>

Next ==
    \/ \E c \in Client : EditView(c) \/ AdminStep(c)
    \/ CycleStep \/ TaskStep
    \/ \E t \in DOMAIN task : GetFails(t)
    \/ \E b \in Backend : Crash(b)
    \/ Clean \/ Tick

Spec == Init /\ [][Next]_vars

\* The scheduler starts a cycle every thirty seconds, generations end by their
\* timeout, and time passes.
FairSpec == Spec /\ WF_vars(CycleStep) /\ WF_vars(TaskStep) /\ WF_vars(Tick)
-----------------------------------------------------------------------------
(* Correctness.                                                             *)

(* A run that is being generated is not failed, restarted or deleted by     *)
(* another cycle or a cleanup: the lock is held until the generations end,  *)
(* so what a cycle finds running beyond the timeout has no task, unless one *)
(* failed read ended a cycle before its other generations.                  *)
WorkedIsRunning ==
    ~orphaned =>
       /\ \A t \in DOMAIN task : task[t] = "work" =>
             t[2] \in DOMAIN run /\ run[t[2]].status = "running"
       /\ \A t, u \in DOMAIN task : t[2] = u[2] => t = u

(* A finished run is immutable: a retry is another run, and nothing that    *)
(* began before it finished changes it later, with the same exception.      *)
FinishedIsImmutable ==
    [][~orphaned' => \A r \in DOMAIN run \cap DOMAIN run' : run[r].status \in Final =>
          /\ run'[r].status = run[r].status
          /\ run'[r].artifacts = run[r].artifacts
          /\ run'[r].completed = run[r].completed]_vars

(* Every occurrence since a schedule was saved is enqueued once and in      *)
(* order, and none is passed over, however cycles fail, change backends or  *)
(* come late; unless a cycle and a request overlapped over the schedule.    *)
OccurrencesAreComplete ==
    \A s \in DOMAIN schedule \ overtaken :
       /\ \A i \in DOMAIN occurrences[s] : occurrences[s][i] = since[s] + (i - 1) * Period
       /\ schedule[s].enabled => schedule[s].next = since[s] + Len(occurrences[s]) * Period

(* What holds of the runs and of the schedules.                             *)
RunsInv == WorkedIsRunning /\ OccurrencesAreComplete

(* Runs that name the same revision of a view have the same filters, unless *)
(* overlapping updates gave one revision to two contents.                   *)
RevisionPinsFilters ==
    \A q, r \in DOMAIN run :
       run[q].view = run[r].view /\ run[q].revision = run[r].revision
          => run[q].view \in raced \cup {None} \/ run[q].content = run[r].content

(* What holds of the edited resources and of the runs that cite them.       *)
EditInv == TypeOK /\ MetadataHistoryIsAChain /\ LimitHolds /\ RevisionPinsFilters

(* The cycles catch up: once the requests stop, every run has ended, also   *)
(* those whose process died, and no schedule is due, because it moved on or *)
(* was disabled.                                                            *)
CyclesCatchUp ==
    <>[](Scheduled =>
            /\ \A r \in DOMAIN run : run[r].status \in Final
            /\ \A s \in DOMAIN schedule \ overtaken :
                  schedule[s].enabled => schedule[s].next > now)
=============================================================================
