--------------------------- MODULE ReportRunsProofs ---------------------------
(***************************************************************************)
(* Proofs about ReportRuns, for any numbers of backends, schedules,        *)
(* clients and faults, any periods and timeouts, and any scenarios.        *)
(***************************************************************************)
EXTENDS ReportRuns, FiniteSetTheorems, SequenceTheorems, TLAPS

(* What a run and a schedule are made of.                                   *)
RunFields == {"view", "revision", "content", "schedule", "period", "retry_of", "status",
              "artifacts", "started", "completed"}
PlanFields == {"view", "enabled", "next"}

\* A run as it is queued, and the times of a schedule that is saved.
Fresh(row) == DOMAIN row = RunFields /\ row.status = "queued" /\ row.completed = None
Multiple == {Period * k : k \in Nat}
PlanOK(row) == DOMAIN row = PlanFields /\ (row.enabled => row.next \in Multiple)

(* A run has a time of completion only once it has ended.                   *)
RunsOK ==
    /\ now \in Nat /\ made \in Nat /\ DOMAIN run \subseteq 1 .. made
    /\ \A r \in DOMAIN run :
          DOMAIN run[r] = RunFields /\ (run[r].completed # None => run[r].status \in Final)

(* What requests under way will insert or write.                            *)
RequestsOK ==
    /\ DOMAIN request = Client
    /\ \A c \in Client :
          /\ Inserting(c) => Fresh(request[c].run)
          /\ request[c].op \in {"schedule", "reschedule"} => PlanOK(request[c].row)

(* Where a cycle is, it holds the lock; what it will enqueue are the next   *)
(* occurrences of enabled schedules, as it has loaded them.                 *)
CyclesOK ==
    /\ DOMAIN cycle = Backend
    /\ \A b \in Backend :
          /\ cycle[b].at # "idle" => lock = b
          /\ cycle[b].at = "enqueue" =>
                /\ IsFiniteSet(DOMAIN cycle[b].runs)
                /\ DOMAIN cycle[b].runs \subseteq DOMAIN cycle[b].loaded
                /\ \A s \in DOMAIN cycle[b].runs :
                      /\ Fresh(cycle[b].runs[s])
                      /\ cycle[b].loaded[s].enabled
                      /\ cycle[b].runs[s].period = cycle[b].loaded[s].next

(* A generation belongs to a cycle that waits for it, unless one was        *)
(* orphaned, and a run that is worked on is running.                        *)
TasksOK ==
    /\ DOMAIN task \subseteq Backend \X Nat
    /\ ~orphaned =>
          \A t \in DOMAIN task :
             /\ cycle[t[1]].at = "generate" /\ t[2] \in cycle[t[1]].picks
             /\ task[t] = "work" => t[2] \in DOMAIN run /\ run[t[2]].status = "running"

(* The occurrences of a schedule are told from a multiple of the period.    *)
PlansOK ==
    /\ IsFiniteSet(DOMAIN schedule)
    /\ DOMAIN schedule \subseteq DOMAIN since /\ DOMAIN schedule \subseteq DOMAIN occurrences
    /\ \A s \in DOMAIN schedule : DOMAIN schedule[s] = PlanFields
    /\ \A s \in DOMAIN schedule \ overtaken :
          /\ occurrences[s] \in Seq(Nat)
          /\ schedule[s].enabled => since[s] \in Multiple

IInv == RunsOK /\ RequestsOK /\ CyclesOK /\ TasksOK /\ PlansOK /\ OccurrencesAreComplete

(* A run that has ended stays as it ended.                                  *)
EndedStay ==
    ~orphaned' => \A r \in DOMAIN run \cap DOMAIN run' : run[r].status \in Final =>
        /\ run'[r].status = run[r].status
        /\ run'[r].artifacts = run[r].artifacts
        /\ run'[r].completed = run[r].completed

\* The invariant after a step of a run that ends well.
Safely == IInv' /\ EndedStay
-----------------------------------------------------------------------------
(* Rows.                                                                    *)

\* What an inserted or replaced row leaves alone.
LEMMA MergedOf ==
    ASSUME NEW f, NEW new
    PROVE  /\ DOMAIN Merged(new, f) = DOMAIN f \cup DOMAIN new
           /\ \A x \in DOMAIN new : Merged(new, f)[x] = new[x]
           /\ \A x \in DOMAIN f \ DOMAIN new : Merged(new, f)[x] = f[x]
BY DEF Merged

\* The same of one row.
LEMMA WithOf ==
    ASSUME NEW f, NEW x, NEW row
    PROVE  /\ DOMAIN With(f, x, row) = DOMAIN f \cup {x}
           /\ With(f, x, row)[x] = row
           /\ \A y \in DOMAIN f \ {x} : With(f, x, row)[y] = f[y]
BY DEF With, Merged

(* What no foreign key touches of a run.                                    *)
SameEnd(old, new) ==
    /\ new.status = old.status /\ new.completed = old.completed
    /\ new.artifacts = old.artifacts
RunsKept(old, new) ==
    /\ DOMAIN new \subseteq DOMAIN old
    /\ \A r \in DOMAIN new : DOMAIN new[r] = RunFields /\ SameEnd(old[r], new[r])

\* A deleted view, schedule or run only empties the columns that named it.
LEMMA RunsAfterOf ==
    ASSUME NEW runs, NEW views, NEW schedules,
           \A r \in DOMAIN runs : DOMAIN runs[r] = RunFields
    PROVE  /\ DOMAIN RunsAfter(runs, views, schedules) = DOMAIN runs
           /\ RunsKept(runs, RunsAfter(runs, views, schedules))
<1> DEFINE after == RunsAfter(runs, views, schedules)
<1>1. DOMAIN after = DOMAIN runs
  BY DEF RunsAfter
<1>2. ASSUME NEW r \in DOMAIN runs
      PROVE  DOMAIN after[r] = RunFields /\ SameEnd(runs[r], after[r])
  BY <1>2 DEF RunsAfter, RunFields, SameEnd
<1> QED
  BY <1>1, <1>2 DEF RunsKept

\* What requests commit is queued for insertion whole.
RequestIsOK(p) ==
    /\ p.op \in {"generate", "retry", "run"} => Fresh(p.run)
    /\ p.op \in {"schedule", "reschedule"} => PlanOK(p.row)

\* A request that moves leaves the others.
LEMMA RequestMoves ==
    ASSUME RequestsOK, NEW c \in Client, NEW p, RequestIsOK(p),
           request' = [request EXCEPT ![c] = p]
    PROVE  RequestsOK'
<1>1. DOMAIN request' = Client /\ request'[c] = p
      /\ \A d \in Client \ {c} : request'[d] = request[d]
  BY DEF RequestsOK
<1> QED
  BY <1>1 DEF RequestsOK, RequestIsOK, Inserting

\* An idle request holds nothing.
LEMMA IdleIsOK == RequestIsOK(Idle)
BY DEF RequestIsOK, Idle

(* The requests that insert or write a run or a schedule.                   *)
ReportOps == {"generate", "retry", "run", "schedule", "reschedule"}

\* Those of SharedEdits do not.
LEMMA EditMoves ==
    ASSUME NEW c \in Client, EditStep(c)
    PROVE  \/ UNCHANGED request
           \/ \E p : p.op \notin ReportOps /\ request' = [request EXCEPT ![c] = p]
<1>1. Idle.op \notin ReportOps
  BY DEF Idle, ReportOps
<1>2. CASE ReadView(c) \/ ReadMetadata(c)
  BY <1>2 DEF ReadView, ReadMetadata
<1>3. CASE InsertView(c) \/ WriteView(c) \/ DeleteView(c) \/ WriteDefault(c) \/ WriteMetadata(c)
  BY <1>1, <1>3 DEF InsertView, WriteView, DeleteView, WriteDefault, WriteMetadata, Ends
<1>4. ASSUME NEW p, Passed(c, p), p.op \notin ReportOps
      PROVE  \E q : q.op \notin ReportOps /\ request' = [request EXCEPT ![c] = q]
  BY <1>4 DEF Passed
<1>5. CASE CreateView(c) \/ CloneView(c)
  <2>1. PICK op, row : Passed(c, [op |-> op, row |-> row]) /\ op \in {"create", "clone"}
    BY <1>5 DEF CreateView, CloneView
  <2> QED
    BY <1>4, <2>1 DEF ReportOps
<1>6. CASE UpdateView(c)
  <2>1. PICK v, p : Passed(c, [op |-> "update", view |-> v, loaded |-> view[v], row |-> p])
    BY <1>6 DEF UpdateView
  <2> QED
    BY <1>4, <2>1 DEF ReportOps
<1>7. CASE RemoveView(c)
  <2>1. PICK v : Passed(c, [op |-> "delete", view |-> v])
    BY <1>7 DEF RemoveView
  <2> QED
    BY <1>4, <2>1 DEF ReportOps
<1>8. CASE SetDefault(c)
  <2>1. PICK v : Passed(c, [op |-> "default", view |-> v, loaded |-> default[user[c]]])
    BY <1>8 DEF SetDefault
  <2> QED
    BY <1>4, <2>1 DEF ReportOps
<1>9. CASE UpdateMetadata(c)
  <2>1. PICK x, checked : Passed(c, [op |-> "metadata", loaded |-> metadata, content |-> x,
                                     checked |-> checked])
    BY <1>9 DEF UpdateMetadata
  <2> QED
    BY <1>4, <2>1 DEF ReportOps
<1> QED
  BY <1>2, <1>3, <1>5, <1>6, <1>7, <1>8, <1>9 DEF EditStep

\* So what waits is as it was.
LEMMA EditRequests ==
    ASSUME RequestsOK, NEW c \in Client, EditStep(c)
    PROVE  RequestsOK'
<1>1. CASE UNCHANGED request
  BY <1>1 DEF RequestsOK, Inserting
<1>2. CASE \E p : p.op \notin ReportOps /\ request' = [request EXCEPT ![c] = p]
  BY <1>2, RequestMoves DEF RequestIsOK, ReportOps
<1> QED
  BY <1>1, <1>2, EditMoves
-----------------------------------------------------------------------------
(* Requests.                                                                *)

\* What a step may do to the runs while nothing is generated or enqueued.
LEMMA KeepingRuns ==
    ASSUME RunsOK, TasksOK, RunsKept(run, run'),
           \A r \in DOMAIN run : run[r].status = "running" => r \in DOMAIN run',
           UNCHANGED <<now, made, cycle, task, orphaned>>
    PROVE  RunsOK' /\ TasksOK' /\ EndedStay
<1>1. RunsOK'
  BY DEF RunsOK, RunsKept, SameEnd
<1>2. EndedStay
  BY DEF EndedStay, RunsKept, SameEnd
<1>3. ASSUME NEW t \in DOMAIN task, ~orphaned, task[t] = "work"
      PROVE  t[2] \in DOMAIN run' /\ run'[t[2]].status = "running"
  <2>1. t[2] \in DOMAIN run /\ run[t[2]].status = "running"
    BY <1>3 DEF TasksOK
  <2>2. t[2] \in DOMAIN run'
    BY <2>1
  <2> QED
    BY <2>1, <2>2 DEF RunsKept, SameEnd
<1>4. TasksOK'
  BY <1>3 DEF TasksOK
<1> QED
  BY <1>1, <1>2, <1>4

\* What a step that leaves a part of the state alone leaves of the invariant.
LEMMA Alone ==
    ASSUME IInv
    PROVE  /\ UNCHANGED <<now, made, run>> => RunsOK' /\ EndedStay
           /\ UNCHANGED request => RequestsOK'
           /\ UNCHANGED <<lock, cycle>> => CyclesOK'
           /\ UNCHANGED <<cycle, task, run, orphaned>> => TasksOK'
           /\ UNCHANGED <<schedule, since, occurrences, overtaken>> =>
                 PlansOK' /\ OccurrencesAreComplete'
<1>1. UNCHANGED <<now, made, run>> => RunsOK'
  BY DEF IInv, RunsOK
<1>2. UNCHANGED <<now, made, run>> => EndedStay
  BY DEF EndedStay
<1>3. UNCHANGED request => RequestsOK'
  BY DEF IInv, RequestsOK, Inserting
<1>4. UNCHANGED <<lock, cycle>> => CyclesOK'
  BY DEF IInv, CyclesOK
<1>5. UNCHANGED <<cycle, task, run, orphaned>> => TasksOK'
  BY DEF IInv, TasksOK
<1>6. UNCHANGED <<schedule, since, occurrences, overtaken>> => PlansOK'
  BY DEF IInv, PlansOK
<1>7. UNCHANGED <<schedule, since, occurrences, overtaken>> => OccurrencesAreComplete'
  BY DEF IInv, OccurrencesAreComplete
<1> QED
  BY <1>1, <1>2, <1>3, <1>4, <1>5, <1>6, <1>7

\* Editing a view empties columns of runs and schedules.
LEMMA EditSafely == ASSUME IInv, NEW c \in Client, EditView(c) PROVE Safely
<1>1. RequestsOK'
  BY EditRequests DEF EditView, IInv
<1>2. /\ UNCHANGED <<now, made, lock, cycle, task, since, occurrences, overtaken, orphaned>>
      /\ run' = RunsAfter(run, DOMAIN view', DOMAIN schedule)
  BY DEF EditView, cycleVars
<1>3. DOMAIN run' = DOMAIN run /\ RunsKept(run, run')
  BY <1>2, RunsAfterOf DEF IInv, RunsOK
<1>4. RunsOK' /\ TasksOK' /\ EndedStay
  BY <1>2, <1>3, KeepingRuns DEF IInv
<1>5. DOMAIN schedule' = DOMAIN schedule
      /\ \A s \in DOMAIN schedule : /\ DOMAIN schedule'[s] = PlanFields
                                    /\ schedule'[s].enabled = schedule[s].enabled
                                    /\ schedule'[s].next = schedule[s].next
  BY DEF EditView, IInv, PlansOK, PlanFields
<1>6. PlansOK' /\ OccurrencesAreComplete'
  BY <1>2, <1>5 DEF IInv, PlansOK, OccurrencesAreComplete
<1> QED
  BY <1>1, <1>2, <1>4, <1>6, Alone DEF Safely, IInv

\* A request that passed its checks has changed nothing yet.
LEMMA AskSafely ==
    ASSUME IInv, NEW c \in Client, NEW p, Requested(c, p), RequestIsOK(p)
    PROVE  Safely
<1>1. UNCHANGED reportVars /\ request' = [request EXCEPT ![c] = p]
  BY DEF Requested, Passed
<1>2. RequestsOK'
  BY <1>1, RequestMoves DEF IInv
<1> QED
  BY <1>1, <1>2, Alone DEF Safely, IInv, reportVars

\* The next occurrence is a multiple of the period.
LEMMA NextOccurrence ==
    /\ \A t \in Nat : next_schedule_time(t) \in Multiple
    /\ \A t \in Multiple : /\ t \in Nat /\ t + Period \in Multiple
                           /\ next_schedule_time(t) = t + Period
<1>1. \A p \in Nat \ {0}, t \in Nat : t \div p \in Nat
  OBVIOUS
<1>2. \A p \in Nat \ {0}, k \in Nat : p * k \in Nat /\ (p * k) \div p = k /\ p * (k + 1) = p * k + p
  OBVIOUS
<1>3. Period \in Nat \ {0}
  BY ReportsAssumption
<1>4. \A t \in Nat : next_schedule_time(t) \in Multiple
  BY <1>1, <1>3 DEF next_schedule_time, Multiple
<1>5. ASSUME NEW t \in Multiple
      PROVE  t \in Nat /\ t + Period \in Multiple /\ next_schedule_time(t) = t + Period
  <2>1. PICK k \in Nat : t = Period * k
    BY DEF Multiple
  <2>2. t \in Nat /\ t \div Period = k /\ Period * (k + 1) = t + Period
    BY <1>2, <1>3, <2>1
  <2>3. k + 1 \in Nat
    OBVIOUS
  <2> QED
    BY <2>2, <2>3 DEF Multiple, next_schedule_time
<1> QED
  BY <1>4, <1>5

\* What a request writes of a schedule, whatever it chooses.
LEMMA NewPlanOK == ASSUME now \in Nat, NEW v, NEW on \in BOOLEAN PROVE PlanOK(NewPlan(v, on))
<1>1. CASE on
  BY <1>1, NextOccurrence DEF NewPlan, PlanOK, PlanFields
<1>2. CASE ~on
  BY <1>2 DEF NewPlan, PlanOK, PlanFields
<1> QED
  BY <1>1, <1>2

\* A run of a view is queued.
LEMMA NewRunFresh == ASSUME NEW v, NEW s, NEW period, NEW retryOf
                     PROVE  Fresh(NewRun(v, s, period, retryOf))
BY DEF NewRun, Fresh, RunFields

\* The requests of administrators before they commit.
LEMMA AdminAsksSafely ==
    ASSUME IInv, NEW c \in Client,
           \/ generate_network_report(c) \/ retry_report(c) \/ run_report_schedule(c)
           \/ create_report_schedule(c) \/ update_report_schedule(c) \/ delete_report_schedule(c)
    PROVE  Safely
<1> now \in Nat
  BY DEF IInv, RunsOK
<1>1. CASE generate_network_report(c)
  <2>1. PICK v : Requested(c, [op |-> "generate", run |-> NewRun(v, None, None, None)])
    BY <1>1 DEF generate_network_report
  <2>2. RequestIsOK([op |-> "generate", run |-> NewRun(v, None, None, None)])
    BY NewRunFresh DEF RequestIsOK
  <2> QED
    BY <2>1, <2>2, AskSafely
<1>2. CASE retry_report(c)
  <2>1. PICK r \in DOMAIN run :
           Requested(c, [op |-> "retry",
                         run |-> [run[r] EXCEPT !.period = None, !.retry_of = r,
                                  !.status = "queued", !.started = None, !.completed = None]])
    BY <1>2 DEF retry_report
  <2>2. DOMAIN run[r] = RunFields
    BY DEF IInv, RunsOK
  <2>3. Fresh([run[r] EXCEPT !.period = None, !.retry_of = r,
                             !.status = "queued", !.started = None, !.completed = None])
    BY <2>2 DEF Fresh, RunFields
  <2> DEFINE row == [run[r] EXCEPT !.period = None, !.retry_of = r,
                                   !.status = "queued", !.started = None, !.completed = None]
  <2>4. RequestIsOK([op |-> "retry", run |-> row])
    BY <2>3 DEF RequestIsOK
  <2> QED
    BY <2>1, <2>4, AskSafely
<1>3. CASE run_report_schedule(c)
  <2>1. PICK s : Requested(c, [op |-> "run", run |-> NewRun(schedule[s].view, s, None, None)])
    BY <1>3 DEF run_report_schedule
  <2>2. RequestIsOK([op |-> "run", run |-> NewRun(schedule[s].view, s, None, None)])
    BY NewRunFresh DEF RequestIsOK
  <2> QED
    BY <2>1, <2>2, AskSafely
<1>4. CASE create_report_schedule(c)
  <2>1. PICK v, on : on \in BOOLEAN /\ Requested(c, [op |-> "schedule", row |-> NewPlan(v, on)])
    BY <1>4 DEF create_report_schedule
  <2>2. RequestIsOK([op |-> "schedule", row |-> NewPlan(v, on)])
    BY <2>1, NewPlanOK DEF RequestIsOK
  <2> QED
    BY <2>1, <2>2, AskSafely
<1>5. CASE update_report_schedule(c)
  <2>1. PICK s, v, on :
           on \in BOOLEAN /\ Requested(c, [op |-> "reschedule", id |-> s, loaded |-> schedule[s],
                                           row |-> NewPlan(v, on)])
    BY <1>5 DEF update_report_schedule
  <2>2. RequestIsOK([op |-> "reschedule", id |-> s, loaded |-> schedule[s], row |-> NewPlan(v, on)])
    BY <2>1, NewPlanOK DEF RequestIsOK
  <2> QED
    BY <2>1, <2>2, AskSafely
<1>6. CASE delete_report_schedule(c)
  <2>1. PICK s : Requested(c, [op |-> "unschedule", id |-> s])
    BY <1>6 DEF delete_report_schedule
  <2>2. RequestIsOK([op |-> "unschedule", id |-> s])
    BY DEF RequestIsOK
  <2> QED
    BY <2>1, <2>2, AskSafely
<1> QED
  BY <1>1, <1>2, <1>3, <1>4, <1>5, <1>6
\* A queued run is new.
LEMMA InsertRunSafely == ASSUME IInv, NEW c \in Client, InsertRun(c) PROVE Safely
<1>1. Inserting(c) /\ request' = [request EXCEPT ![c] = Idle]
      /\ UNCHANGED <<now, lock, cycle, task, schedule, since, occurrences, overtaken, orphaned>>
  BY DEF InsertRun, Ends, cycleVars, plans
<1>2. RequestsOK'
  BY <1>1, IdleIsOK, RequestMoves DEF IInv
<1>3. CASE UNCHANGED <<run, made>>
  BY <1>1, <1>2, <1>3, Alone DEF Safely, IInv
<1>4. CASE made' = made + 1 /\ run' = With(run, made', request[c].run)
  <2>1. Fresh(request[c].run)
    BY <1>1 DEF IInv, RequestsOK
  <2>2. made \in Nat /\ DOMAIN run \subseteq 1 .. made /\ made' \notin DOMAIN run
    BY <1>4 DEF IInv, RunsOK
  <2>3. /\ DOMAIN run' = DOMAIN run \cup {made'} /\ run'[made'] = request[c].run
        /\ \A r \in DOMAIN run : run'[r] = run[r]
    BY <1>4, <2>2 DEF With, Merged
  <2>4. RunsOK'
    BY <1>1, <1>4, <2>1, <2>2, <2>3 DEF IInv, RunsOK, Fresh
  <2>5. EndedStay
    BY <2>3 DEF EndedStay
  <2>6. TasksOK'
    BY <1>1, <2>3 DEF IInv, TasksOK
  <2> QED
    BY <1>1, <1>2, <2>4, <2>5, <2>6, Alone DEF Safely, IInv
<1> QED
  BY <1>3, <1>4 DEF InsertRun

\* The occurrences of a saved schedule are told anew from the time that was saved,
\* which two overlapping requests may have put together from both.
LEMMA SavedSafely ==
    ASSUME PlansOK, OccurrencesAreComplete, NEW s, NEW row, DOMAIN row = PlanFields,
           Saved(s, row), overtaken \subseteq overtaken', s \notin overtaken' => PlanOK(row)
    PROVE  PlansOK' /\ OccurrencesAreComplete'
<1>1. /\ DOMAIN schedule' = DOMAIN schedule \cup {s} /\ schedule'[s] = row
      /\ \A x \in DOMAIN schedule \ {s} : schedule'[x] = schedule[x]
  BY DEF Saved, With, Merged
<1>2. /\ DOMAIN since' = DOMAIN since \cup {s} /\ since'[s] = row.next
      /\ \A x \in DOMAIN since \ {s} : since'[x] = since[x]
  BY DEF Saved, With, Merged
<1>3. /\ DOMAIN occurrences' = DOMAIN occurrences \cup {s} /\ occurrences'[s] = <<>>
      /\ \A x \in DOMAIN occurrences \ {s} : occurrences'[x] = occurrences[x]
  BY DEF Saved, With, Merged
<1>4. IsFiniteSet(DOMAIN schedule')
  BY <1>1, FS_AddElement DEF PlansOK
<1>5. /\ occurrences'[s] \in Seq(Nat) /\ Len(occurrences'[s]) = 0 /\ DOMAIN occurrences'[s] = {}
  BY <1>3
<1>6. s \notin overtaken' /\ row.enabled => row.next \in Multiple /\ row.next \in Nat
  BY NextOccurrence DEF PlanOK
<1>7. PlansOK'
  <2>1. ASSUME NEW x \in DOMAIN schedule'
        PROVE  DOMAIN schedule'[x] = PlanFields /\ x \in DOMAIN since' /\ x \in DOMAIN occurrences'
    BY <1>1, <1>2, <1>3 DEF PlansOK
  <2>2. ASSUME NEW x \in DOMAIN schedule' \ overtaken'
        PROVE  /\ occurrences'[x] \in Seq(Nat)
               /\ schedule'[x].enabled => since'[x] \in Multiple
    <3>1. CASE x = s
      BY <1>1, <1>2, <1>5, <1>6, <2>2, <3>1
    <3>2. CASE x # s
      <4>1. x \in DOMAIN schedule \ overtaken /\ x \in DOMAIN since /\ x \in DOMAIN occurrences
        BY <1>1, <2>2, <3>2 DEF PlansOK
      <4> QED
        BY <1>1, <1>2, <1>3, <3>2, <4>1 DEF PlansOK
    <3> QED
      BY <3>1, <3>2
  <2> QED
    BY <1>4, <2>1, <2>2 DEF PlansOK
<1>8. ASSUME NEW x \in DOMAIN schedule' \ overtaken'
      PROVE  /\ \A i \in DOMAIN occurrences'[x] :
                   occurrences'[x][i] = since'[x] + (i - 1) * Period
             /\ schedule'[x].enabled =>
                   schedule'[x].next = since'[x] + Len(occurrences'[x]) * Period
  <2>1. CASE x = s
    <3>1. schedule'[x].enabled => since'[x] \in Nat /\ schedule'[x].next = since'[x]
      BY <1>1, <1>2, <1>6, <1>8, <2>1
    <3>2. 0 * Period = 0
      BY ReportsAssumption
    <3> QED
      BY <1>5, <2>1, <3>1, <3>2
  <2>2. CASE x # s
    <3>1. x \in DOMAIN schedule \ overtaken /\ x \in DOMAIN since /\ x \in DOMAIN occurrences
      BY <1>1, <1>8, <2>2 DEF PlansOK
    <3>2. schedule'[x] = schedule[x] /\ since'[x] = since[x] /\ occurrences'[x] = occurrences[x]
      BY <1>1, <1>2, <1>3, <2>2, <3>1
    <3> QED
      BY <3>1, <3>2 DEF OccurrencesAreComplete
  <2> QED
    BY <2>1, <2>2
<1>9. OccurrencesAreComplete'
  BY <1>8 DEF OccurrencesAreComplete
<1> QED
  BY <1>7, <1>9

\* The requests over schedules that commit.
LEMMA InsertScheduleSafely == ASSUME IInv, NEW c \in Client, InsertSchedule(c) PROVE Safely
<1>1. /\ request[c].op = "schedule" /\ request' = [request EXCEPT ![c] = Idle]
      /\ UNCHANGED <<now, run, made, lock, cycle, task, orphaned>>
  BY DEF InsertSchedule, Ends, cycleVars
<1>2. RequestsOK'
  BY <1>1, IdleIsOK, RequestMoves DEF IInv
<1>3. PlanOK(request[c].row)
  BY <1>1 DEF IInv, RequestsOK
<1>4. PlansOK' /\ OccurrencesAreComplete'
  <2>1. CASE UNCHANGED plans
    BY <2>1, Alone DEF plans
  <2>2. ASSUME NEW s, Saved(s, request[c].row), UNCHANGED overtaken
        PROVE  PlansOK' /\ OccurrencesAreComplete'
    BY <1>3, <2>2, SavedSafely DEF IInv, PlanOK
  <2> QED
    BY <2>1, <2>2 DEF InsertSchedule
<1> QED
  BY <1>1, <1>2, <1>4, Alone DEF Safely, IInv

\* Where nobody was faster, the request writes its own row.
LEMMA WriteScheduleSafely == ASSUME IInv, NEW c \in Client, WriteSchedule(c) PROVE Safely
<1>1. /\ request[c].op = "reschedule" /\ request' = [request EXCEPT ![c] = Idle]
      /\ UNCHANGED <<now, run, made, lock, cycle, task, orphaned>>
  BY DEF WriteSchedule, Ends, cycleVars
<1>2. RequestsOK'
  BY <1>1, IdleIsOK, RequestMoves DEF IInv
<1> DEFINE s == request[c].id
           loaded == request[c].loaded
           row == Written(loaded, request[c].row, schedule[s])
<1>3. PlanOK(request[c].row)
  BY <1>1 DEF IInv, RequestsOK
<1>4. PlansOK' /\ OccurrencesAreComplete'
  <2>1. CASE UNCHANGED <<schedule, since, occurrences, overtaken>>
    BY <2>1, Alone
  <2>2. CASE /\ s \in DOMAIN schedule /\ Saved(s, row)
             /\ overtaken' = IF schedule[s] = loaded THEN overtaken ELSE overtaken \cup {s}
    <3>1. DOMAIN schedule[s] = PlanFields /\ DOMAIN row = PlanFields
      BY <2>2 DEF IInv, PlansOK, Written
    <3>2. overtaken \subseteq overtaken'
      BY <2>2
    <3>3. ASSUME s \notin overtaken' PROVE PlanOK(row)
      <4>1. schedule[s] = loaded
        BY <2>2, <3>3
      <4>2. \A f \in PlanFields : row[f] = request[c].row[f]
        BY <1>3, <3>1, <4>1 DEF Written, PlanOK
      <4>3. row.enabled = request[c].row.enabled /\ row.next = request[c].row.next
        BY <4>2 DEF PlanFields
      <4> QED
        BY <1>3, <3>1, <4>3 DEF PlanOK
    <3> QED
      BY <2>2, <3>1, <3>2, <3>3, SavedSafely DEF IInv
  <2> QED
    BY <2>1, <2>2 DEF WriteSchedule
<1> QED
  BY <1>1, <1>2, <1>4, Alone DEF Safely, IInv

\* A deleted schedule leaves its runs without it.
LEMMA DropScheduleSafely == ASSUME IInv, NEW c \in Client, DropSchedule(c) PROVE Safely
<1>1. /\ request' = [request EXCEPT ![c] = Idle]
      /\ UNCHANGED <<now, made, lock, cycle, task, since, occurrences, overtaken, orphaned>>
      /\ schedule' = Without(schedule, {request[c].id})
      /\ run' = RunsAfter(run, DOMAIN view, DOMAIN schedule')
  BY DEF DropSchedule, Ends, cycleVars
<1>2. RequestsOK'
  BY <1>1, IdleIsOK, RequestMoves DEF IInv
<1>3. DOMAIN run' = DOMAIN run /\ RunsKept(run, run')
  BY <1>1, RunsAfterOf DEF IInv, RunsOK
<1>4. RunsOK' /\ TasksOK' /\ EndedStay
  BY <1>1, <1>3, KeepingRuns DEF IInv
<1>5. DOMAIN schedule' \subseteq DOMAIN schedule
      /\ \A x \in DOMAIN schedule' : schedule'[x] = schedule[x]
  BY <1>1 DEF Without
<1>6. IsFiniteSet(DOMAIN schedule')
  BY <1>5, FS_Subset DEF IInv, PlansOK
<1>7. PlansOK'
  BY <1>1, <1>5, <1>6 DEF IInv, PlansOK
<1>8. OccurrencesAreComplete'
  BY <1>1, <1>5 DEF IInv, OccurrencesAreComplete
<1> QED
  BY <1>1, <1>2, <1>4, <1>7, <1>8, Alone DEF Safely, IInv

\* Every step of an administrator.
LEMMA AdminSafely == ASSUME IInv, NEW c \in Client, AdminStep(c) PROVE Safely
BY AdminAsksSafely, InsertRunSafely, InsertScheduleSafely, WriteScheduleSafely,
   DropScheduleSafely DEF AdminStep
-----------------------------------------------------------------------------
(* Cycles.                                                                  *)

\* Who is somewhere in a cycle is the only one, and a generation that is waited
\* for is of the cycle that holds the lock.
LEMMA Holder ==
    ASSUME IInv
    PROVE  /\ \A b \in Backend : cycle[b].at # "idle" => lock = b
           /\ None \notin Backend
           /\ ~orphaned => \A t \in DOMAIN task : t[1] \in Backend /\ lock = t[1]
                                                     /\ cycle[t[1]].at = "generate"
<1>1. None \notin Backend
  BY ReportsAssumption
<1>2. \A t \in DOMAIN task : t[1] \in Backend
  BY DEF IInv, TasksOK
<1> QED
  BY <1>1, <1>2 DEF IInv, CyclesOK, TasksOK

\* A cycle that begins fails what it finds running for too long, which has no task.
LEMMA BeginSafely == ASSUME IInv, NEW b \in Backend, Begin(b) PROVE Safely
<1>1. /\ cycle[b] = Resting /\ lock = None /\ lock' = b
      /\ UNCHANGED <<request, now, made, task, orphaned, schedule, since, occurrences, overtaken>>
  BY DEF Begin, editVars, plans
<1>2. RequestsOK' /\ PlansOK' /\ OccurrencesAreComplete'
  BY <1>1, Alone
<1>3. DOMAIN run' = DOMAIN run
      /\ \A r \in DOMAIN run :
            run'[r] = IF Stale(r) THEN [run[r] EXCEPT !.status = "failed", !.completed = now]
                      ELSE run[r]
  BY DEF Begin
<1>4. ASSUME NEW r \in DOMAIN run
      PROVE  /\ DOMAIN run'[r] = RunFields
             /\ run'[r].completed # None => run'[r].status \in Final
             /\ run[r].status \in Final => run'[r] = run[r]
  <2>1. DOMAIN run[r] = RunFields /\ (run[r].completed # None => run[r].status \in Final)
    BY DEF IInv, RunsOK
  <2>2. CASE Stale(r)
    <3>1. run'[r].status = "failed" /\ DOMAIN run'[r] = RunFields
      BY <1>3, <2>1, <2>2 DEF RunFields
    <3>2. run[r].status \notin Final
      BY <2>2 DEF Stale, Final
    <3> QED
      BY <3>1, <3>2 DEF Final
  <2>3. CASE ~Stale(r)
    BY <1>3, <2>1, <2>3
  <2> QED
    BY <2>2, <2>3
<1>5. RunsOK'
  BY <1>1, <1>3, <1>4 DEF IInv, RunsOK
<1>6. EndedStay
  BY <1>4 DEF EndedStay
<1>7. TasksOK'
  <2>1. ~orphaned => DOMAIN task = {}
    BY <1>1, Holder
  <2> QED
    BY <1>1, <2>1 DEF IInv, TasksOK
<1>8. CyclesOK'
  <2>1. PICK due, known, lost :
           /\ due = {s \in DOMAIN schedule : /\ schedule[s].enabled /\ schedule[s].next # None
                                           /\ schedule[s].next <= now}
           /\ cycle' = [cycle EXCEPT ![b] =
                          [at |-> "enqueue", lost |-> lost, loaded |-> schedule,
                           runs |-> [s \in due \ (known \cup lost) |->
                                       NewRun(schedule[s].view, s, schedule[s].next, None)]]]
    BY DEF Begin
  <2> DEFINE new == [s \in due \ (known \cup lost) |->
                        NewRun(schedule[s].view, s, schedule[s].next, None)]
  <2>2. DOMAIN cycle' = Backend /\ cycle'[b].at = "enqueue" /\ cycle'[b].loaded = schedule
        /\ cycle'[b].runs = new /\ \A d \in Backend \ {b} : cycle'[d] = cycle[d]
    BY <2>1 DEF IInv, CyclesOK
  <2>3. DOMAIN new \subseteq DOMAIN schedule /\ IsFiniteSet(DOMAIN schedule)
    BY <2>1 DEF IInv, PlansOK
  <2>4. IsFiniteSet(DOMAIN new)
    BY <2>3, FS_Subset
  <2>5. ASSUME NEW s \in DOMAIN new
        PROVE  Fresh(new[s]) /\ schedule[s].enabled /\ new[s].period = schedule[s].next
    <3>1. new[s] = NewRun(schedule[s].view, s, schedule[s].next, None)
      OBVIOUS
    <3>2. schedule[s].enabled
      BY <2>1
    <3>3. Fresh(new[s])
      BY <3>1, NewRunFresh
    <3>4. new[s].period = schedule[s].next
      BY <3>1 DEF NewRun
    <3> QED
      BY <3>2, <3>3, <3>4
  <2>6. \A d \in Backend \ {b} : cycle'[d].at = "idle"
    BY <1>1, <2>2, Holder
  <2> HIDE DEF new
  <2> QED
    BY <1>1, <2>2, <2>3, <2>4, <2>5, <2>6 DEF CyclesOK
<1> QED
  BY <1>2, <1>5, <1>6, <1>7, <1>8 DEF Safely, IInv

(* What a committed batch does to the schedules.                            *)
EnqueuesPlans(b, new, lost) ==
    /\ cycle[b].at = "enqueue" /\ new = cycle[b].runs /\ DOMAIN new \subseteq DOMAIN schedule
    /\ schedule' = [s \in DOMAIN schedule |->
           IF s \in lost THEN [schedule[s] EXCEPT !.enabled = FALSE]
           ELSE IF s \in DOMAIN new THEN [schedule[s] EXCEPT !.next = AfterEnqueue(new[s])]
           ELSE schedule[s]]
    /\ occurrences' = [s \in DOMAIN occurrences |->
           IF s \in DOMAIN new THEN Append(occurrences[s], new[s].period)
           ELSE occurrences[s]]
    /\ overtaken' = overtaken \cup {s \in lost \cup DOMAIN new :
                                      schedule[s] # cycle[b].loaded[s]}
    /\ since' = since

\* Where the schedules are as the cycle loaded them, it enqueues their next
\* occurrences and tells the ones after.
LEMMA EnqueuedPlans ==
    ASSUME IInv, NEW b \in Backend, NEW lost, NEW new, EnqueuesPlans(b, new, lost)
    PROVE  PlansOK' /\ OccurrencesAreComplete'
<1> USE DEF EnqueuesPlans
<1>1. DOMAIN schedule' = DOMAIN schedule /\ DOMAIN occurrences' = DOMAIN occurrences
  OBVIOUS
<1>2. ASSUME NEW s \in DOMAIN schedule
      PROVE  /\ DOMAIN schedule'[s] = PlanFields
             /\ s \in lost => schedule'[s].enabled = FALSE
             /\ s \notin lost => schedule'[s].enabled = schedule[s].enabled
             /\ s \notin lost /\ s \in DOMAIN new =>
                   schedule'[s].next = next_schedule_time(new[s].period)
             /\ s \notin lost /\ s \notin DOMAIN new => schedule'[s] = schedule[s]
  <2>1. DOMAIN schedule[s] = PlanFields
    BY DEF IInv, PlansOK
  <2> QED
    BY <2>1 DEF AfterEnqueue, PlanFields
<1>3. ASSUME NEW s \in DOMAIN schedule \ overtaken'
      PROVE  /\ occurrences'[s] \in Seq(Nat)
             /\ schedule'[s].enabled => since'[s] \in Multiple
             /\ \A i \in DOMAIN occurrences'[s] :
                   occurrences'[s][i] = since'[s] + (i - 1) * Period
             /\ schedule'[s].enabled =>
                   schedule'[s].next = since'[s] + Len(occurrences'[s]) * Period
  <2> DEFINE before == occurrences[s]
             n == Len(before)
  <2>1. /\ s \in DOMAIN schedule /\ s \in DOMAIN occurrences
        /\ before \in Seq(Nat) /\ (schedule[s].enabled => since[s] \in Multiple)
        /\ \A i \in DOMAIN before : before[i] = since[s] + (i - 1) * Period
        /\ schedule[s].enabled => schedule[s].next = since[s] + n * Period
    BY <1>3 DEF IInv, PlansOK, OccurrencesAreComplete
  <2>2. CASE s \notin DOMAIN new
    BY <1>2, <2>1, <2>2
  <2>3. CASE s \in DOMAIN new
    <3>1. schedule[s] = cycle[b].loaded[s]
      BY <1>3, <2>3
    <3>2. schedule[s].enabled /\ new[s].period = schedule[s].next
      BY <2>3, <3>1 DEF IInv, CyclesOK
    <3> DEFINE start == since[s]
               period == new[s].period
               after == occurrences'[s]
    <3>3. /\ n \in Nat /\ start \in Multiple /\ period = start + n * Period
          /\ after = Append(before, period) /\ since'[s] = start
      BY <2>1, <2>3, <3>2
    <3>4. period \in Multiple
      <4>1. PICK k \in Nat : start = Period * k
        BY <3>3 DEF Multiple
      <4>2. \A p \in Nat, m, j \in Nat : p * m + j * p = p * (m + j) /\ m + j \in Nat
        OBVIOUS
      <4>3. Period \in Nat
        BY ReportsAssumption
      <4>4. Period * k + n * Period = Period * (k + n) /\ k + n \in Nat
        BY <3>3, <4>2, <4>3
      <4>5. period = Period * k + n * Period
        BY <3>3, <4>1
      <4> QED
        BY <4>4, <4>5 DEF Multiple
    <3>5. period \in Nat /\ next_schedule_time(period) = period + Period
          /\ start \in Nat /\ Period \in Nat
      BY <3>3, <3>4, NextOccurrence, ReportsAssumption
    <3>6. after \in Seq(Nat) /\ Len(after) = n + 1 /\ after[n + 1] = period
          /\ \A i \in 1 .. n : after[i] = before[i]
      BY <2>1, <3>3, <3>5
    <3>7. (n + 1) * Period = n * Period + Period /\ n * Period \in Nat /\ (n + 1) - 1 = n
      <4>1. \A p, m \in Nat : (m + 1) * p = m * p + p /\ m * p \in Nat
        OBVIOUS
      <4> QED
        BY <3>3, <3>5, <4>1
    <3>8. \A i \in DOMAIN after : after[i] = start + (i - 1) * Period
      <4>1. ASSUME NEW i \in 1 .. n PROVE after[i] = start + (i - 1) * Period
        <5>1. i \in DOMAIN before
          BY <2>1
        <5> QED
          BY <2>1, <3>6, <5>1
      <4>2. after[n + 1] = start + ((n + 1) - 1) * Period
        BY <3>3, <3>6, <3>7
      <4>3. DOMAIN after = 1 .. n + 1
        BY <3>6
      <4>4. \A i \in 1 .. n + 1 : i \in 1 .. n \/ i = n + 1
        BY <3>3
      <4> QED
        BY <4>1, <4>2, <4>3, <4>4
    <3>9. period + Period = start + Len(after) * Period
      <4>1. PICK z \in Nat : z = n * Period
        BY <3>7
      <4>2. period = start + z /\ Len(after) * Period = z + Period
        BY <3>3, <3>6, <3>7, <4>1
      <4> QED
        BY <3>5, <4>2
    <3>10. schedule'[s].enabled => schedule'[s].next = period + Period
      BY <1>2, <2>1, <2>3, <3>5
    <3> QED
      BY <3>3, <3>6, <3>8, <3>9, <3>10
  <2> QED
    BY <2>2, <2>3
<1>4. PlansOK'
  BY <1>1, <1>2, <1>3 DEF IInv, PlansOK
<1>5. OccurrencesAreComplete'
  <2>1. ASSUME NEW s \in DOMAIN schedule' \ overtaken'
        PROVE  /\ \A i \in DOMAIN occurrences'[s] :
                     occurrences'[s][i] = since'[s] + (i - 1) * Period
               /\ schedule'[s].enabled =>
                     schedule'[s].next = since'[s] + Len(occurrences'[s]) * Period
    <3>1. s \in DOMAIN schedule \ overtaken'
      BY <1>1
    <3> QED
      BY <1>3, <3>1, Zenon
  <2> QED
    BY <2>1, Zenon DEF OccurrencesAreComplete
<1> QED
  BY <1>4, <1>5
\* A cycle that ends gives the lock back.
LEMMA EndsCycle ==
    ASSUME CyclesOK, NEW b \in Backend, cycle[b].at # "idle", EndCycle(b)
    PROVE  /\ CyclesOK' /\ cycle'[b] = Resting
           /\ \A d \in Backend \ {b} : cycle'[d] = cycle[d]
<1>1. /\ DOMAIN cycle' = Backend /\ cycle'[b] = Resting /\ lock' = None
      /\ \A d \in Backend \ {b} : cycle'[d] = cycle[d]
  BY DEF CyclesOK, EndCycle
<1>2. \A d \in Backend \ {b} : cycle[d].at = "idle"
  BY DEF CyclesOK
<1>3. Resting.at = "idle"
  BY DEF Resting
<1>4. \A d \in Backend : cycle'[d].at = "idle"
  BY <1>1, <1>2, <1>3
<1> QED
  BY <1>1, <1>4 DEF CyclesOK

\* The rows of a batch are new, and queued.
LEMMA EnqueuedRuns ==
    ASSUME RunsOK, NEW new, IsFiniteSet(DOMAIN new), \A s \in DOMAIN new : Fresh(new[s]),
           NEW order \in [DOMAIN new -> 1 .. Cardinality(DOMAIN new)],
           run' = Merged([r \in {made + order[s] : s \in DOMAIN new} |->
                             new[CHOOSE s \in DOMAIN new : made + order[s] = r]], run),
           made' = made + Cardinality(DOMAIN new), now' = now
    PROVE  /\ RunsOK' /\ DOMAIN run \subseteq DOMAIN run' /\ \A r \in DOMAIN run : run'[r] = run[r]
           /\ \A r \in DOMAIN run' \ DOMAIN run : r > made /\ \E s \in DOMAIN new : run'[r] = new[s]
<1> DEFINE n == Cardinality(DOMAIN new)
           ids == {made + order[s] : s \in DOMAIN new}
           rows == [r \in ids |-> new[CHOOSE s \in DOMAIN new : made + order[s] = r]]
<1>1. n \in Nat /\ made \in Nat /\ made' \in Nat /\ made' = made + n
      /\ DOMAIN run \subseteq 1 .. made
  BY FS_CardinalityType DEF RunsOK
<1>2. ASSUME NEW r \in ids PROVE r \in 1 .. made' /\ r > made /\ r \notin DOMAIN run
  <2>1. PICK s \in DOMAIN new : r = made + order[s]
    OBVIOUS
  <2>2. order[s] \in 1 .. n
    OBVIOUS
  <2> QED
    BY <1>1, <2>1, <2>2
<1>3. ASSUME NEW r \in ids PROVE Fresh(rows[r]) /\ \E s \in DOMAIN new : rows[r] = new[s]
  <2>1. PICK s \in DOMAIN new : made + order[s] = r
    OBVIOUS
  <2>2. (CHOOSE x \in DOMAIN new : made + order[x] = r) \in DOMAIN new
    BY <2>1
  <2>3. rows[r] = new[CHOOSE x \in DOMAIN new : made + order[x] = r]
    OBVIOUS
  <2> QED
    BY <2>2, <2>3
<1>4. DOMAIN rows = ids /\ run' = Merged(rows, run)
  OBVIOUS
<1> HIDE DEF rows, ids
<1>5. /\ DOMAIN run' = DOMAIN run \cup ids
      /\ \A r \in ids : run'[r] = rows[r]
      /\ \A r \in DOMAIN run \ ids : run'[r] = run[r]
  BY <1>4 DEF Merged
<1>6. \A r \in DOMAIN run : r \notin ids
  BY <1>2
<1>7. DOMAIN run' \subseteq 1 .. made'
  BY <1>1, <1>2, <1>5
<1>8. ASSUME NEW r \in DOMAIN run'
      PROVE  DOMAIN run'[r] = RunFields /\ (run'[r].completed # None => run'[r].status \in Final)
  <2>1. CASE r \in ids
    BY <1>3, <1>5, <2>1 DEF Fresh
  <2>2. CASE r \notin ids
    BY <1>5, <2>2 DEF RunsOK
  <2> QED
    BY <2>1, <2>2
<1>9. RunsOK'
  BY <1>1, <1>7, <1>8 DEF RunsOK
<1>10. ASSUME NEW r \in DOMAIN run' \ DOMAIN run
       PROVE  r > made /\ \E s \in DOMAIN new : run'[r] = new[s]
  <2>1. r \in ids
    BY <1>5
  <2> QED
    BY <1>2, <1>3, <1>5, <2>1
<1> QED
  BY <1>5, <1>6, <1>9, <1>10

\* Occurrences are enqueued together or not at all.
LEMMA EnqueueSafely == ASSUME IInv, NEW b \in Backend, Enqueue(b) PROVE Safely
<1> DEFINE new == cycle[b].runs
           lost == cycle[b].lost
           written == lost \cup DOMAIN new
<1>1. /\ cycle[b].at = "enqueue"
      /\ UNCHANGED <<request, now, task, since, orphaned>>
  BY DEF Enqueue, editVars
<1>2. RequestsOK'
  BY <1>1, Alone
<1>3. ASSUME NEW t \in DOMAIN task, ~orphaned PROVE FALSE
  <2>1. t[1] \in Backend /\ lock = t[1] /\ cycle[t[1]].at = "generate"
    BY <1>3, Holder
  <2>2. lock = b
    BY <1>1, Holder
  <2> QED
    BY <1>1, <2>1, <2>2
<1>4. TasksOK'
  BY <1>1, <1>3 DEF IInv, TasksOK
<1>5. CASE EndCycle(b) /\ UNCHANGED <<schedule, run, made, occurrences, overtaken>>
  <2>1. CyclesOK'
    BY <1>1, <1>5, EndsCycle DEF IInv
  <2> QED
    BY <1>1, <1>2, <1>4, <1>5, <2>1, Alone DEF Safely, IInv
<1>6. CASE /\ written \subseteq DOMAIN schedule
           /\ cycle' = [cycle EXCEPT ![b] = [at |-> "pick"]] /\ UNCHANGED lock
           /\ schedule' = [s \in DOMAIN schedule |->
                 IF s \in lost THEN [schedule[s] EXCEPT !.enabled = FALSE]
                 ELSE IF s \in DOMAIN new
                 THEN [schedule[s] EXCEPT !.next = AfterEnqueue(new[s])]
                 ELSE schedule[s]]
           /\ \E order \in [DOMAIN new -> 1 .. Cardinality(DOMAIN new)] :
                 /\ \A s, u \in DOMAIN new : order[s] = order[u] => s = u
                 /\ run' = Merged([r \in {made + order[s] : s \in DOMAIN new} |->
                                      new[CHOOSE s \in DOMAIN new : made + order[s] = r]], run)
           /\ made' = made + Cardinality(DOMAIN new)
           /\ occurrences' = [s \in DOMAIN occurrences |->
                 IF s \in DOMAIN new THEN Append(occurrences[s], new[s].period)
                 ELSE occurrences[s]]
           /\ overtaken' = overtaken
                              \cup {s \in written : schedule[s] # cycle[b].loaded[s]}
  <2>1. CyclesOK'
    <3>1. DOMAIN cycle' = Backend /\ cycle'[b].at = "pick" /\ lock' = lock
          /\ \A d \in Backend \ {b} : cycle'[d] = cycle[d]
      BY <1>6 DEF IInv, CyclesOK
    <3>2. lock = b
      BY <1>1, Holder
    <3> QED
      BY <3>1, <3>2 DEF IInv, CyclesOK
  <2>2. PlansOK' /\ OccurrencesAreComplete'
    <3>1. EnqueuesPlans(b, new, lost)
      BY <1>1, <1>6 DEF EnqueuesPlans
    <3> QED
      BY <3>1, EnqueuedPlans
  <2>3. IsFiniteSet(DOMAIN new) /\ \A s \in DOMAIN new : Fresh(new[s])
    BY <1>1 DEF IInv, CyclesOK
  <2>4. RunsOK' /\ DOMAIN run \subseteq DOMAIN run' /\ \A r \in DOMAIN run : run'[r] = run[r]
    BY <1>1, <1>6, <2>3, EnqueuedRuns DEF IInv
  <2>5. EndedStay
    BY <2>4 DEF EndedStay
  <2> QED
    BY <1>2, <1>4, <2>1, <2>2, <2>4, <2>5 DEF Safely, IInv
<1> QED
  BY <1>5, <1>6 DEF Enqueue

\* A cycle picks its runs where nothing is generated, unless one was orphaned.
LEMMA PickSafely == ASSUME IInv, NEW b \in Backend, Pick(b) PROVE Safely
<1> DEFINE picks == Oldest(MaxConcurrent)
           tasks == [t \in {b} \X picks |-> "get"]
<1>1. /\ cycle[b].at = "pick"
      /\ cycle' = [cycle EXCEPT ![b] = [at |-> "generate", picks |-> picks]]
      /\ task' = Merged(tasks, task)
      /\ UNCHANGED <<request, now, schedule, since, occurrences, overtaken, run, made, lock,
                     orphaned>>
  BY DEF Pick, editVars, plans
<1>2. picks \subseteq Nat
  BY DEF Oldest, Queued, IInv, RunsOK
<1>3. /\ DOMAIN cycle' = Backend /\ cycle'[b].at = "generate" /\ cycle'[b].picks = picks
      /\ \A d \in Backend \ {b} : cycle'[d] = cycle[d]
  BY <1>1 DEF IInv, CyclesOK
<1>4. lock = b
  BY <1>1, Holder
<1>5. CyclesOK'
  BY <1>1, <1>3, <1>4 DEF IInv, CyclesOK
<1>6. ASSUME ~orphaned PROVE DOMAIN task = {}
  BY <1>1, <1>4, <1>6, Holder
<1>7. DOMAIN tasks = {b} \X picks /\ \A t \in DOMAIN tasks : tasks[t] = "get"
  OBVIOUS
<1> HIDE DEF tasks, picks
<1>8. DOMAIN task' = DOMAIN task \cup ({b} \X picks) /\ \A t \in {b} \X picks : task'[t] = "get"
  BY <1>1, <1>7 DEF Merged
<1>9. DOMAIN task' \subseteq Backend \X Nat
  BY <1>2, <1>8 DEF IInv, TasksOK
<1>10. ASSUME NEW t \in DOMAIN task', ~orphaned'
       PROVE  cycle'[t[1]].at = "generate" /\ t[2] \in cycle'[t[1]].picks /\ task'[t] = "get"
  <2>1. t \in {b} \X picks
    BY <1>1, <1>6, <1>8, <1>10
  <2>2. t[1] = b /\ t[2] \in picks
    BY <2>1
  <2> QED
    BY <1>3, <1>8, <2>1, <2>2
<1>11. TasksOK'
  BY <1>9, <1>10 DEF TasksOK
<1> QED
  BY <1>1, <1>5, <1>11, Alone DEF Safely, IInv

\* A cycle ends when nothing that it waits for is left.
LEMMA EndSafely == ASSUME IInv, NEW b \in Backend, End(b) PROVE Safely
<1>1. /\ cycle[b].at = "generate" /\ EndCycle(b)
      /\ ({b} \X cycle[b].picks) \cap DOMAIN task = {}
      /\ UNCHANGED <<request, now, schedule, since, occurrences, overtaken, run, made, task,
                     orphaned>>
  BY DEF End, editVars, plans
<1>2. CyclesOK'
  BY <1>1, EndsCycle DEF IInv
<1>3. ASSUME NEW t \in DOMAIN task, ~orphaned PROVE FALSE
  <2>1. t \in Backend \X Nat /\ t[2] \in cycle[t[1]].picks
    BY <1>3 DEF IInv, TasksOK
  <2>2. t[1] = b
    BY <1>1, <1>3, Holder
  <2>3. t \in {b} \X cycle[b].picks
    BY <2>1, <2>2
  <2> QED
    BY <1>1, <2>3
<1>4. TasksOK'
  BY <1>1, <1>3 DEF IInv, TasksOK
<1> QED
  BY <1>1, <1>2, <1>4, Alone DEF Safely, IInv
-----------------------------------------------------------------------------
(* Generations.                                                             *)

\* Two generations that are waited for are of different runs.
LEMMA OneTaskOfARun ==
    ASSUME IInv, ~orphaned, NEW t \in DOMAIN task, NEW u \in DOMAIN task, t[2] = u[2]
    PROVE  t = u
<1>1. t \in Backend \X Nat /\ u \in Backend \X Nat
  BY DEF IInv, TasksOK
<1>2. t[1] = u[1]
  BY Holder
<1> QED
  BY <1>1, <1>2

\* What is left of the generations after some have ended.
LEMMA FewerTasks ==
    ASSUME TasksOK, NEW gone, task' = Without(task, gone)
    PROVE  /\ DOMAIN task' = DOMAIN task \ gone
           /\ \A t \in DOMAIN task' : task'[t] = task[t]
           /\ DOMAIN task' \subseteq Backend \X Nat
BY DEF Without, TasksOK

\* A run that is worked on, and the run of nobody, may end.
LEMMA EndsSafely ==
    ASSUME IInv, NEW t \in DOMAIN task, task[t] = "work", TaskEnds(t),
           NEW r, r = t[2],
           DOMAIN run' = DOMAIN run, \A q \in DOMAIN run \ {r} : run'[q] = run[q],
           r \in DOMAIN run => /\ DOMAIN run'[r] = RunFields
                               /\ run'[r].completed # None => run'[r].status \in Final
    PROVE  Safely
<1>1. /\ task' = Without(task, {t})
      /\ UNCHANGED <<request, now, made, schedule, since, occurrences, overtaken, lock, cycle,
                     orphaned>>
  BY DEF TaskEnds, editVars, plans
<1>2. RunsOK'
  BY <1>1 DEF IInv, RunsOK
<1>3. EndedStay
  <2>1. ~orphaned => r \in DOMAIN run /\ run[r].status \notin Final
    BY DEF IInv, TasksOK, Final
  <2> QED
    BY <1>1, <2>1 DEF EndedStay
<1>4. DOMAIN task' = DOMAIN task \ {t} /\ (\A u \in DOMAIN task' : task'[u] = task[u])
      /\ DOMAIN task' \subseteq Backend \X Nat
  BY <1>1, FewerTasks DEF IInv
<1>5. ASSUME ~orphaned, NEW u \in DOMAIN task' PROVE u \in DOMAIN task /\ u[2] # r
  BY <1>4, <1>5, OneTaskOfARun
<1>6. TasksOK'
  <2>1. ASSUME ~orphaned, NEW u \in DOMAIN task'
        PROVE  /\ cycle[u[1]].at = "generate" /\ u[2] \in cycle[u[1]].picks
               /\ task'[u] = "work" => u[2] \in DOMAIN run' /\ run'[u[2]].status = "running"
    <3>1. u \in DOMAIN task /\ u[2] # r /\ task'[u] = task[u]
      BY <1>4, <1>5, <2>1
    <3>2. /\ cycle[u[1]].at = "generate" /\ u[2] \in cycle[u[1]].picks
          /\ task[u] = "work" => u[2] \in DOMAIN run /\ run[u[2]].status = "running"
      BY <2>1, <3>1 DEF IInv, TasksOK
    <3> QED
      BY <3>1, <3>2
  <2> QED
    BY <1>1, <1>4, <2>1 DEF TasksOK
<1> QED
  BY <1>1, <1>2, <1>3, <1>6, Alone DEF Safely, IInv

\* A generation starts what is still queued.
LEMMA StartSafely == ASSUME IInv, NEW t \in DOMAIN task, Start(t) PROVE Safely
<1> DEFINE r == t[2]
<1>1. /\ r \in DOMAIN run /\ run[r].status = "queued"
      /\ task' = [task EXCEPT ![t] = "work"]
      /\ run' = [run EXCEPT ![r].status = "running", ![r].started = now]
      /\ UNCHANGED <<request, now, made, schedule, since, occurrences, overtaken, lock, cycle,
                     orphaned>>
  BY DEF Start, Queued, editVars, plans
<1>2. DOMAIN run[r] = RunFields /\ (run[r].completed # None => run[r].status \in Final)
  BY <1>1 DEF IInv, RunsOK
<1>3. /\ DOMAIN run' = DOMAIN run /\ \A q \in DOMAIN run \ {r} : run'[q] = run[q]
      /\ DOMAIN run'[r] = RunFields /\ run'[r].status = "running"
      /\ run'[r].completed = run[r].completed
  BY <1>1, <1>2 DEF RunFields
<1>4. run[r].status \notin Final
  BY <1>1 DEF Final
<1>5. RunsOK'
  BY <1>1, <1>2, <1>3, <1>4 DEF IInv, RunsOK
<1>6. EndedStay
  BY <1>3, <1>4 DEF EndedStay
<1>7. DOMAIN task' = DOMAIN task /\ \A u \in DOMAIN task \ {t} : task'[u] = task[u]
  BY <1>1
<1>8. ASSUME ~orphaned, NEW u \in DOMAIN task, task'[u] = "work"
      PROVE  u[2] \in DOMAIN run' /\ run'[u[2]].status = "running"
  <2>1. CASE u[2] = r
    BY <1>1, <1>3, <2>1
  <2>2. CASE u[2] # r
    <3>1. task[u] = "work"
      BY <1>7, <1>8, <2>2
    <3>2. u[2] \in DOMAIN run /\ run[u[2]].status = "running"
      BY <1>8, <3>1 DEF IInv, TasksOK
    <3> QED
      BY <1>3, <2>2, <3>2
  <2> QED
    BY <2>1, <2>2
<1>9. TasksOK'
  BY <1>1, <1>7, <1>8 DEF IInv, TasksOK
<1> QED
  BY <1>1, <1>5, <1>6, <1>9, Alone DEF Safely, IInv

\* A generation whose run is queued no more ends.
LEMMA SkipSafely == ASSUME IInv, NEW t \in DOMAIN task, Skip(t) PROVE Safely
<1>1. /\ task' = Without(task, {t})
      /\ UNCHANGED <<request, now, made, run, schedule, since, occurrences, overtaken, lock,
                     cycle, orphaned>>
  BY DEF Skip, TaskEnds, editVars, plans
<1>2. DOMAIN task' = DOMAIN task \ {t} /\ (\A u \in DOMAIN task' : task'[u] = task[u])
      /\ DOMAIN task' \subseteq Backend \X Nat
  BY <1>1, FewerTasks DEF IInv
<1>3. TasksOK'
  BY <1>1, <1>2 DEF IInv, TasksOK
<1> QED
  BY <1>1, <1>3, Alone DEF Safely, IInv

\* A read that fails ends the cycle; where others go on they are orphaned.
LEMMA GetFailsSafely == ASSUME IInv, NEW t \in DOMAIN task, GetFails(t) PROVE Safely
<1> DEFINE b == t[1]
<1>1. /\ cycle[b].at = "generate" /\ EndCycle(b) /\ task' = Without(task, {t})
      /\ orphaned' = (orphaned \/ \E u \in DOMAIN task \ {t} : u[1] = b)
      /\ UNCHANGED <<request, now, made, run, schedule, since, occurrences, overtaken>>
  BY DEF GetFails, editVars, plans
<1>2. b \in Backend
  BY DEF IInv, TasksOK
<1>3. CyclesOK'
  BY <1>1, <1>2, EndsCycle DEF IInv
<1>4. DOMAIN task' = DOMAIN task \ {t} /\ DOMAIN task' \subseteq Backend \X Nat
  BY <1>1, FewerTasks DEF IInv
<1>5. ASSUME ~orphaned', NEW u \in DOMAIN task' PROVE FALSE
  <2>1. ~orphaned /\ u \in DOMAIN task \ {t}
    BY <1>1, <1>4, <1>5
  <2>2. u[1] = b
    BY <2>1, Holder
  <2> QED
    BY <1>1, <1>5, <2>1, <2>2
<1>6. TasksOK'
  BY <1>4, <1>5 DEF TasksOK
<1> QED
  BY <1>1, <1>3, <1>6, Alone DEF Safely, IInv

\* What ends a generation that works.
LEMMA StoreSafely == ASSUME IInv, NEW t \in DOMAIN task, Store(t) PROVE Safely
<1> DEFINE r == t[2]
<1>1. task[t] = "work" /\ TaskEnds(t)
  BY DEF Store
<1>2. CASE r \notin DOMAIN run
  BY <1>1, <1>2, EndsSafely DEF Store
<1>3. CASE r \in DOMAIN run
  <2>1. DOMAIN run[r] = RunFields
    BY <1>3 DEF IInv, RunsOK
  <2>2. run' = [run EXCEPT ![r] = [run[r] EXCEPT !.status = "completed", !.artifacts = TRUE,
                                                 !.completed = now]]
    BY <1>3 DEF Store
  <2>3. DOMAIN run' = DOMAIN run /\ (\A q \in DOMAIN run \ {r} : run'[q] = run[q])
        /\ DOMAIN run'[r] = RunFields /\ run'[r].status = "completed"
    BY <1>3, <2>1, <2>2 DEF RunFields
  <2>4. run'[r].status \in Final
    BY <2>3 DEF Final
  <2> QED
    BY <1>1, <2>3, <2>4, EndsSafely
<1> QED
  BY <1>2, <1>3

\* The failure is recorded, or the run stays as it is.
LEMMA GiveUpSafely == ASSUME IInv, NEW t \in DOMAIN task, GiveUp(t) PROVE Safely
<1> DEFINE r == t[2]
<1>1. task[t] = "work" /\ TaskEnds(t)
  BY DEF GiveUp
<1>2. CASE UNCHANGED run
  <2>1. r \in DOMAIN run => DOMAIN run[r] = RunFields
                            /\ (run[r].completed # None => run[r].status \in Final)
    BY DEF IInv, RunsOK
  <2> QED
    BY <1>1, <1>2, <2>1, EndsSafely
<1>3. CASE r \in DOMAIN run
           /\ run' = [run EXCEPT ![r].status = "failed", ![r].completed = now]
  <2>1. DOMAIN run[r] = RunFields
    BY <1>3 DEF IInv, RunsOK
  <2>2. DOMAIN run' = DOMAIN run /\ (\A q \in DOMAIN run \ {r} : run'[q] = run[q])
        /\ DOMAIN run'[r] = RunFields /\ run'[r].status = "failed"
    BY <1>3, <2>1 DEF RunFields
  <2>3. run'[r].status \in Final
    BY <2>2 DEF Final
  <2> QED
    BY <1>1, <2>2, <2>3, EndsSafely
<1> QED
  BY <1>2, <1>3 DEF GiveUp
-----------------------------------------------------------------------------
(* Cleanups, crashes and time.                                              *)

\* A cleanup deletes runs that have ended.
LEMMA CleanSafely == ASSUME IInv, Clean PROVE Safely
<1> DEFINE left == Without(run, Expired)
<1>1. /\ run' = RunsAfter(left, DOMAIN view, DOMAIN schedule)
      /\ UNCHANGED <<request, now, made, schedule, since, occurrences, overtaken, lock, cycle,
                     task, orphaned>>
  BY DEF Clean, editVars, plans, cycleVars
<1>2. DOMAIN left = DOMAIN run \ Expired /\ \A r \in DOMAIN left : left[r] = run[r]
  BY DEF Without
<1>3. \A r \in DOMAIN left : DOMAIN left[r] = RunFields
  BY <1>2 DEF IInv, RunsOK
<1> HIDE DEF left
<1>4. DOMAIN run' = DOMAIN left /\ RunsKept(left, run')
  BY <1>1, <1>3, RunsAfterOf
<1>5. RunsKept(run, run')
  BY <1>2, <1>4 DEF RunsKept, SameEnd
<1>6. ASSUME NEW r \in DOMAIN run, run[r].status = "running" PROVE r \in DOMAIN run'
  <2>1. run[r].completed = None
    BY <1>6 DEF IInv, RunsOK, Final
  <2>2. r \notin Expired
    BY <2>1 DEF Expired
  <2> QED
    BY <1>2, <1>4, <2>2
<1>7. RunsOK' /\ TasksOK' /\ EndedStay
  BY <1>1, <1>5, <1>6, KeepingRuns DEF IInv
<1> QED
  BY <1>1, <1>7, Alone DEF Safely, IInv

\* A crash takes the lock of the backend and its generations with it.
LEMMA CrashSafely == ASSUME IInv, NEW b \in Backend, Crash(b) PROVE Safely
<1>1. /\ cycle' = [cycle EXCEPT ![b] = Resting]
      /\ task' = Without(task, {t \in DOMAIN task : t[1] = b})
      /\ lock' = IF lock = b THEN None ELSE lock
      /\ UNCHANGED <<request, now, made, run, schedule, since, occurrences, overtaken, orphaned>>
  BY DEF Crash, editVars, plans
<1>2. DOMAIN cycle' = Backend /\ cycle'[b].at = "idle"
      /\ \A d \in Backend \ {b} : cycle'[d] = cycle[d]
  BY <1>1 DEF IInv, CyclesOK, Resting
<1>3. \A d \in Backend \ {b} : cycle[d].at # "idle" => lock' = d
  BY <1>1, Holder
<1>4. CyclesOK'
  BY <1>2, <1>3 DEF IInv, CyclesOK
<1>5. /\ DOMAIN task' = DOMAIN task \ {t \in DOMAIN task : t[1] = b}
      /\ \A t \in DOMAIN task' : task'[t] = task[t]
      /\ DOMAIN task' \subseteq Backend \X Nat
  BY <1>1, FewerTasks DEF IInv
<1>6. ASSUME NEW t \in DOMAIN task' PROVE t \in DOMAIN task /\ t[1] \in Backend \ {b}
  BY <1>5
<1>7. TasksOK'
  BY <1>1, <1>2, <1>5, <1>6 DEF IInv, TasksOK
<1> QED
  BY <1>1, <1>4, <1>7, Alone DEF Safely, IInv

\* Time changes nothing of the rows.
LEMMA TickSafely == ASSUME IInv, Tick PROVE Safely
<1>1. now' = now + 1 /\ UNCHANGED <<request, made, run, schedule, since, occurrences, overtaken,
                                    lock, cycle, task, orphaned>>
  BY DEF Tick, editVars, plans, cycleVars
<1>2. RunsOK' /\ EndedStay
  BY <1>1 DEF IInv, RunsOK, EndedStay
<1> QED
  BY <1>1, <1>2, Alone DEF Safely, IInv
-----------------------------------------------------------------------------
(* What a request under way has loaded and will write.  A client that       *)
(* updates was shown a revision, and loaded that one.                       *)
ShownAs(c, x, loaded) == x \in DOMAIN seen[c] /\ seen[c][x].revision = loaded.revision

Pending(c) ==
    LET q == request[c]
    IN /\ q # Idle => q.op \in scenario.ops
       /\ Creating(c) => q.row \in Payload
       /\ q.op = "update" =>
             /\ q.view \in used /\ q.row \in Payload
             /\ q.loaded \in Row /\ q.loaded.revision \in 1 .. requests
             /\ ShownAs(c, q.view, q.loaded)
       /\ q.op = "metadata" =>
             /\ q.loaded \in Metadata /\ q.content \in Content /\ q.checked \in BOOLEAN
             /\ q.checked => ShownAs(c, Device, q.loaded)

\* What c was shown last.
Shown(c) ==
    /\ DOMAIN seen[c] \subseteq used \cup {Device}
    /\ \A x \in DOMAIN seen[c] : seen[c][x] \in IF x = Device THEN Metadata ELSE Row

(* The tables of SharedEdits.                                               *)
ViewsOK ==
    /\ used \subseteq View /\ DOMAIN view \subseteq used
    /\ \A v \in DOMAIN view : view[v] \in Row /\ view[v].revision \in 1 .. requests + 1
    /\ default \in [User -> View \cup {None}]
    /\ raced \subseteq used
MetadataOK ==
    /\ metadata \in Metadata /\ edits \in Seq([before : Content \cup {None}, after : Content])
    /\ racedMetadata \in BOOLEAN
ScenarioOK ==
    /\ scenario \in Scenarios /\ requests \in 0 .. scenario.requests
    /\ user \in [Client -> User]
EditsOK ==
    /\ ScenarioOK /\ ViewsOK /\ MetadataOK
    /\ DOMAIN request = Client /\ DOMAIN seen = Client
    /\ \A c \in Client : Pending(c) /\ Shown(c)

(* A revision stands for one row: what somebody was shown or has loaded is  *)
(* what is stored, or has a lower revision.                                 *)
Older(x, row) == x.revision <= row.revision /\ (x.revision = row.revision => x = row)

ViewsAreRevised ==
    \A v \in DOMAIN view \ raced, c \in Client :
       /\ v \in DOMAIN seen[c] => Older(seen[c][v], view[v])
       /\ request[c].op = "update" /\ request[c].view = v => Older(request[c].loaded, view[v])

MetadataIsRevised ==
    ~racedMetadata =>
       /\ \A c \in Client :
             /\ Device \in DOMAIN seen[c] => Older(seen[c][Device], metadata)
             /\ request[c].op = "metadata" => Older(request[c].loaded, metadata)
       /\ edits = <<>> => metadata.content = None

(* The requests that create are counted against the ids that are left and   *)
(* the limit, and each one that edits the metadata tells one event at most. *)
Asking(ops) == {c \in Client : request[c].op \in ops}
Of(u) == {c \in Client : user[c] = u}
CountsOK ==
    /\ Cardinality(Asking({"create", "clone"})) <= Cardinality(View \ used)
    /\ \A u \in User :
          LET owned == Cardinality(OwnedBy(u))
              asking == Cardinality(Of(u) \cap Asking({"create", "clone"}))
          IN \/ owned <= Limit /\ asking = 0
             \/ owned + asking < Limit + Cardinality(Of(u))
    /\ Len(edits) + Cardinality(Asking({"metadata"})) <= requests

Edits ==
    EditsOK /\ ViewsAreRevised /\ MetadataIsRevised /\ MetadataHistoryIsAChain /\ CountsOK
-----------------------------------------------------------------------------
(* Rows of views.                                                           *)
RowFields == {"owner", "name", "shared", "content", "revision"}

\* A row of saved_views, column by column.
LEMMA RowIs ==
    ASSUME NEW f, f["owner"] \in User, f["name"] \in Name, f["shared"] \in BOOLEAN,
           f["content"] \in Content, f["revision"] \in Nat
    PROVE  [k \in RowFields |-> f[k]] \in Row
BY DEF RowFields, Row

\* The columns of a row.
LEMMA RowParts ==
    ASSUME NEW x \in Row
    PROVE  /\ DOMAIN x = RowFields /\ x = [k \in RowFields |-> x[k]]
           /\ x["owner"] \in User /\ x["name"] \in Name /\ x["shared"] \in BOOLEAN
           /\ x["content"] \in Content /\ x["revision"] \in Nat
BY DEF Row, RowFields

\* What a request sends of a view.
LEMMA PayloadParts ==
    ASSUME NEW x \in Payload
    PROVE  /\ DOMAIN x = {"name", "shared", "content"}
           /\ x["name"] \in Name /\ x["shared"] \in BOOLEAN /\ x["content"] \in Content
BY DEF Payload

\* The values of an update.
LEMMA ValueParts ==
    ASSUME NEW p \in Payload, NEW n \in Nat, NEW value, value = With(p, "revision", n)
    PROVE  /\ DOMAIN value = RowFields \ {"owner"} /\ value["revision"] = n
           /\ value["name"] \in Name /\ value["shared"] \in BOOLEAN
           /\ value["content"] \in Content
BY PayloadParts DEF With, Merged, RowFields

\* A created row.
LEMMA CreatedRow ==
    ASSUME NEW p \in Payload, NEW u \in User, NEW row,
           row = Merged([owner |-> u, revision |-> 1], p)
    PROVE  row \in Row /\ row.revision = 1 /\ row.owner = u
<1>1. DOMAIN row = RowFields
  BY PayloadParts DEF Merged, RowFields
<1>2. /\ row["owner"] = u /\ row["revision"] = 1 /\ row["name"] \in Name
      /\ row["shared"] \in BOOLEAN /\ row["content"] \in Content
  BY PayloadParts DEF Merged
<1>3. row = [k \in RowFields |-> row[k]]
  BY <1>1 DEF Merged
<1>4. row \in Row
  BY <1>2, <1>3, RowIs
<1> QED
  BY <1>2, <1>4

\* An updated row: the owner stays, and where nobody was faster it is what the
\* session holds.
LEMMA UpdatedRow ==
    ASSUME NEW p \in Payload, NEW loaded \in Row, NEW stored \in Row,
           NEW value, value = With(p, "revision", NextRevision(loaded, p)),
           NEW row, row = Written(loaded, value, stored)
    PROVE  /\ row \in Row /\ row.owner = stored.owner /\ row.revision = loaded.revision + 1
           /\ Merged(value, loaded) \in Row
           /\ stored = loaded => Merged(value, loaded) = row
<1> DEFINE n == NextRevision(loaded, p)
           held == Merged(value, loaded)
<1>1. n \in Nat /\ n = loaded.revision + 1 /\ loaded.revision \in Nat
  BY RowParts DEF NextRevision
<1>2. /\ DOMAIN value = RowFields \ {"owner"} /\ value["revision"] = n
      /\ value["name"] \in Name /\ value["shared"] \in BOOLEAN /\ value["content"] \in Content
  BY <1>1, ValueParts
<1>3. DOMAIN stored = RowFields /\ DOMAIN loaded = RowFields
  BY RowParts
<1>4. /\ row = [k \in RowFields |-> row[k]]
      /\ \A k \in RowFields : row[k] = IF k # "owner" /\ value[k] # loaded[k] THEN value[k]
                                       ELSE stored[k]
  BY <1>2, <1>3 DEF Written
<1>5. /\ held = [k \in RowFields |-> held[k]]
      /\ \A k \in RowFields : held[k] = IF k # "owner" THEN value[k] ELSE loaded[k]
  BY <1>2, <1>3 DEF Merged, RowFields
<1>6. row["owner"] = stored["owner"] /\ row["revision"] = n
  BY <1>1, <1>2, <1>4 DEF RowFields
<1>7. row \in Row
  <2>1. row["owner"] \in User /\ row["revision"] \in Nat
    BY <1>1, <1>6, RowParts
  <2>2. row["name"] \in {value["name"], stored["name"]}
        /\ row["shared"] \in {value["shared"], stored["shared"]}
        /\ row["content"] \in {value["content"], stored["content"]}
    BY <1>4 DEF RowFields
  <2>3. row["name"] \in Name /\ row["shared"] \in BOOLEAN /\ row["content"] \in Content
    BY <1>2, <2>2, RowParts
  <2> QED
    BY <1>4, <2>1, <2>3, RowIs
<1>8. held \in Row
  <2>1. /\ held["owner"] = loaded["owner"] /\ held["revision"] = n
        /\ held["name"] = value["name"] /\ held["shared"] = value["shared"]
        /\ held["content"] = value["content"]
    BY <1>2, <1>5 DEF RowFields
  <2>2. held["owner"] \in User /\ held["revision"] \in Nat /\ held["name"] \in Name
        /\ held["shared"] \in BOOLEAN /\ held["content"] \in Content
    BY <1>1, <1>2, <2>1, RowParts
  <2> QED
    BY <1>5, <2>2, RowIs
<1>9. ASSUME stored = loaded PROVE held = row
  <2>1. \A k \in RowFields : held[k] = row[k]
    BY <1>4, <1>5, <1>9
  <2> QED
    BY <1>4, <1>5, <2>1
<1> QED
  BY <1>1, <1>6, <1>7, <1>8, <1>9
-----------------------------------------------------------------------------
(* Counting requests.                                                       *)

\* One more and one less.
LEMMA OneMore ==
    ASSUME NEW T, IsFiniteSet(T), NEW x, x \notin T
    PROVE  Cardinality(T \cup {x}) = Cardinality(T) + 1
BY FS_AddElement

\* The same of one that leaves.
LEMMA OneLess ==
    ASSUME NEW T, IsFiniteSet(T), NEW x \in T
    PROVE  Cardinality(T \ {x}) = Cardinality(T) - 1
BY FS_RemoveElement

\* Those of a set of clients that ask are finitely many, before and after a step.
LEMMA AskingNumbers ==
    ASSUME NEW ops, NEW S, S \subseteq Client
    PROVE  /\ IsFiniteSet(S \cap Asking(ops)) /\ Cardinality(S \cap Asking(ops)) \in Nat
           /\ IsFiniteSet(S \cap Asking(ops)') /\ Cardinality(S \cap Asking(ops)') \in Nat
           /\ Cardinality(S) \in Nat
           /\ Cardinality(S \cap Asking(ops)) <= Cardinality(S)
           /\ Cardinality(S \cap Asking(ops)') <= Cardinality(S)
           /\ Client \cap Asking(ops) = Asking(ops) /\ Client \cap Asking(ops)' = Asking(ops)'
<1>1. IsFiniteSet(S)
  BY FS_Subset, EditsAssumption
<1>2. \A T \in SUBSET S : /\ IsFiniteSet(T) /\ Cardinality(T) \in Nat
                          /\ Cardinality(T) <= Cardinality(S)
  BY <1>1, FS_Subset, FS_CardinalityType
<1>3. S \cap Asking(ops) \in SUBSET S /\ S \cap Asking(ops)' \in SUBSET S
  OBVIOUS
<1>4. Client \cap Asking(ops) = Asking(ops) /\ Client \cap Asking(ops)' = Asking(ops)'
  BY DEF Asking
<1> QED
  BY <1>1, <1>2, <1>3, <1>4, FS_CardinalityType

(* The request of c becomes p.                                              *)
Becomes(c, p) == DOMAIN request = Client /\ request' = [request EXCEPT ![c] = p]

\* A request that joins those that ask is one more.
LEMMA Joins ==
    ASSUME NEW c \in Client, NEW p, Becomes(c, p), NEW ops, request[c].op \notin ops, p.op \in ops,
           NEW S, S \subseteq Client, c \in S
    PROVE  Cardinality(S \cap Asking(ops)') = Cardinality(S \cap Asking(ops)) + 1
<1>1. request'[c] = p /\ \A d \in Client \ {c} : request'[d] = request[d]
  BY DEF Becomes
<1>2. S \cap Asking(ops)' = (S \cap Asking(ops)) \cup {c} /\ c \notin S \cap Asking(ops)
  BY <1>1 DEF Asking
<1> QED
  BY <1>2, OneMore, AskingNumbers

\* A request that leaves them is one less.
LEMMA Leaves ==
    ASSUME NEW c \in Client, NEW p, Becomes(c, p), NEW ops, request[c].op \in ops, p.op \notin ops,
           NEW S, S \subseteq Client, c \in S
    PROVE  Cardinality(S \cap Asking(ops)') = Cardinality(S \cap Asking(ops)) - 1
<1>1. request'[c] = p /\ \A d \in Client \ {c} : request'[d] = request[d]
  BY DEF Becomes
<1>2. S \cap Asking(ops)' = (S \cap Asking(ops)) \ {c} /\ c \in S \cap Asking(ops)
  BY <1>1 DEF Asking
<1> QED
  BY <1>2, OneLess, AskingNumbers

\* Any other leaves them as they are.
LEMMA Stays ==
    ASSUME NEW c \in Client, NEW p, Becomes(c, p), NEW ops
    PROVE  /\ (request[c].op \in ops <=> p.op \in ops) => Asking(ops)' = Asking(ops)
           /\ \A S \in SUBSET Client : c \notin S => S \cap Asking(ops)' = S \cap Asking(ops)
<1>1. request'[c] = p /\ \A d \in Client \ {c} : request'[d] = request[d]
  BY DEF Becomes
<1> QED
  BY <1>1 DEF Asking

\* The three counts.
Makers == {"create", "clone"}
RoomIsLeft == Cardinality(Asking(Makers)) <= Cardinality(View \ used)
WithinLimit(u) ==
    LET owned == Cardinality(OwnedBy(u))
        asking == Cardinality(Of(u) \cap Asking(Makers))
    IN \/ owned <= Limit /\ asking = 0
       \/ owned + asking < Limit + Cardinality(Of(u))
EventsAreCounted == Len(edits) + Cardinality(Asking({"metadata"})) <= requests

\* They are what CountsOK says.
LEMMA CountParts == CountsOK <=> RoomIsLeft /\ (\A u \in User : WithinLimit(u)) /\ EventsAreCounted
BY DEF CountsOK, RoomIsLeft, WithinLimit, EventsAreCounted, Makers

\* The same after a step.
LEMMA CountPartsPrimed ==
    CountsOK' <=> RoomIsLeft' /\ (\A u \in User : WithinLimit(u)') /\ EventsAreCounted'
BY DEF CountsOK, RoomIsLeft, WithinLimit, EventsAreCounted, Makers

\* Views, ids and clients are finitely many.
LEMMA Numbers ==
    ASSUME EditsOK, NEW u
    PROVE  /\ requests \in Nat /\ Limit \in Nat
           /\ IsFiniteSet(OwnedBy(u)) /\ Cardinality(OwnedBy(u)) \in Nat
           /\ IsFiniteSet(View \ used) /\ Cardinality(View \ used) \in Nat
           /\ Len(edits) \in Nat
           /\ Of(u) \subseteq Client /\ IsFiniteSet(Of(u)) /\ Cardinality(Of(u)) \in Nat
<1>1. requests \in Nat /\ Limit \in Nat
  BY EditsAssumption DEF EditsOK, ScenarioOK
<1>2. OwnedBy(u) \subseteq View /\ View \ used \subseteq View /\ Of(u) \subseteq Client
  BY DEF EditsOK, ViewsOK, OwnedBy, Of
<1>3. IsFiniteSet(OwnedBy(u)) /\ IsFiniteSet(View \ used) /\ IsFiniteSet(Of(u))
  BY <1>2, FS_Subset, EditsAssumption
<1>4. Len(edits) \in Nat
  BY DEF EditsOK, MetadataOK
<1> QED
  BY <1>1, <1>2, <1>3, <1>4, FS_CardinalityType
-----------------------------------------------------------------------------
(* Requests that pass and requests that end.                                *)

(* What a request has checked when it passes.                               *)
Checked(c, p) ==
    /\ p.op \in Makers => p.row \in Payload /\ RoomFor /\ BelowLimit(user[c])
    /\ p.op = "update" =>
          /\ p.view \in DOMAIN view /\ p.row \in Payload /\ p.loaded = view[p.view]
          /\ ShownAs(c, p.view, p.loaded)
    /\ p.op = "metadata" =>
          /\ p.loaded = metadata /\ p.content \in Content /\ p.checked \in BOOLEAN
          /\ p.checked => ShownAs(c, Device, p.loaded)

\* What a step leaves of the parts of the state that it does not touch.
LEMMA EditsAlone ==
    ASSUME Edits
    PROVE  UNCHANGED editVars => Edits'
<1> SUFFICES ASSUME UNCHANGED editVars PROVE Edits'
  OBVIOUS
<1> USE DEF editVars
<1>1. EditsOK'
  BY DEF Edits, EditsOK, ScenarioOK, ViewsOK, MetadataOK, Pending, Shown, Creating, ShownAs
<1>2. ViewsAreRevised' /\ MetadataIsRevised' /\ MetadataHistoryIsAChain'
  BY DEF Edits, ViewsAreRevised, MetadataIsRevised, MetadataHistoryIsAChain, Older
<1>3. CountsOK'
  BY DEF Edits, CountsOK, Asking, Of, OwnedBy
<1> QED
  BY <1>1, <1>2, <1>3 DEF Edits

\* A request that passes is counted.
LEMMA PassedCounts ==
    ASSUME Edits, NEW c \in Client, NEW p, Passed(c, p), Checked(c, p)
    PROVE  CountsOK'
<1>1. /\ request[c] = Idle /\ request' = [request EXCEPT ![c] = p] /\ requests' = requests + 1
      /\ UNCHANGED <<user, view, used, edits>>
  BY DEF Passed, edited
<1>2. /\ Becomes(c, p) /\ EditsOK
      /\ request[c].op \notin Makers /\ request[c].op \notin {"metadata"}
  BY <1>1 DEF Edits, EditsOK, Idle, Makers, Becomes
<1>3. RoomIsLeft'
  <2> DEFINE left == Cardinality(View \ used)
             asking == Cardinality(Asking(Makers))
  <2>1. left \in Nat /\ asking \in Nat /\ used' = used
    BY <1>1, <1>2, AskingNumbers, Numbers
  <2>2. asking <= left
    BY CountParts DEF Edits, RoomIsLeft
  <2>3. CASE p.op \in Makers
    <3>1. Cardinality(Client \cap Asking(Makers)') = Cardinality(Client \cap Asking(Makers)) + 1
      BY <1>2, <2>3, Joins
    <3>2. Cardinality(Asking(Makers)') = asking + 1
      BY <3>1, AskingNumbers
    <3>3. asking < left
      BY <2>3 DEF Checked, RoomFor, Creating, Asking, Makers
    <3> QED
      BY <2>1, <3>2, <3>3 DEF RoomIsLeft
  <2>4. CASE p.op \notin Makers
    <3>1. Asking(Makers)' = Asking(Makers)
      BY <1>2, <2>4, Stays
    <3> QED
      BY <2>1, <2>2, <3>1 DEF RoomIsLeft
  <2> QED
    BY <2>3, <2>4
<1>4. ASSUME NEW u \in User PROVE WithinLimit(u)'
  <2> DEFINE owned == Cardinality(OwnedBy(u))
             mine == Cardinality(Of(u))
             asking == Cardinality(Of(u) \cap Asking(Makers))
  <2>1. owned \in Nat /\ mine \in Nat /\ Limit \in Nat /\ Of(u) \subseteq Client
    BY <1>2, Numbers
  <2>2. OwnedBy(u)' = OwnedBy(u) /\ Of(u)' = Of(u)
    BY <1>1 DEF OwnedBy, Of
  <2>3. WithinLimit(u)
    BY CountParts DEF Edits
  <2>4. CASE p.op \in Makers /\ c \in Of(u)
    <3>1. Cardinality(Of(u) \cap Asking(Makers)') = asking + 1
      BY <1>2, <2>1, <2>4, Joins
    <3>2. asking \in Nat /\ Cardinality(Of(u) \cap Asking(Makers)') <= mine
      BY <2>1, AskingNumbers
    <3>3. owned < Limit
      BY <2>4 DEF Checked, BelowLimit, Of
    <3>4. owned + (asking + 1) < Limit + mine
      BY <2>1, <3>1, <3>2, <3>3
    <3> QED
      BY <2>2, <3>1, <3>4 DEF WithinLimit
  <2>5. CASE p.op \notin Makers \/ c \notin Of(u)
    <3>1. Of(u) \cap Asking(Makers)' = Of(u) \cap Asking(Makers)
      BY <1>2, <2>1, <2>5, Stays
    <3> QED
      BY <2>2, <2>3, <3>1 DEF WithinLimit
  <2> QED
    BY <2>4, <2>5
<1>5. EventsAreCounted'
  <2> DEFINE asking == Cardinality(Asking({"metadata"}))
  <2>1. asking \in Nat /\ requests \in Nat /\ Len(edits) \in Nat /\ edits' = edits
    BY <1>1, <1>2, AskingNumbers, Numbers
  <2>2. Len(edits) + asking <= requests
    BY CountParts DEF Edits, EventsAreCounted
  <2>3. CASE p.op \in {"metadata"}
    <3>1. Cardinality(Client \cap Asking({"metadata"})')
             = Cardinality(Client \cap Asking({"metadata"})) + 1
      BY <1>2, <2>3, Joins
    <3>2. Cardinality(Asking({"metadata"})') = asking + 1
      BY <3>1, AskingNumbers
    <3> QED
      BY <1>1, <2>1, <2>2, <3>2 DEF EventsAreCounted
  <2>4. CASE p.op \notin {"metadata"}
    <3>1. Asking({"metadata"})' = Asking({"metadata"})
      BY <1>2, <2>4, Stays
    <3> QED
      BY <1>1, <2>1, <2>2, <3>1 DEF EventsAreCounted
  <2> QED
    BY <2>3, <2>4
<1> QED
  BY <1>3, <1>4, <1>5, CountPartsPrimed
\* A request that ends is counted no more; what it inserted is.
LEMMA EndedCounts ==
    ASSUME Edits, NEW c \in Client, NEW op, Ends(c, op),
           \/ UNCHANGED used
           \/ op \in Makers /\ \E v \in View \ used : used' = used \cup {v},
           \A u \in User :
              /\ Cardinality(OwnedBy(u)') \in Nat
              /\ \/ Cardinality(OwnedBy(u)') <= Cardinality(OwnedBy(u))
                 \/ /\ op \in Makers /\ c \in Of(u)
                    /\ Cardinality(OwnedBy(u)') <= Cardinality(OwnedBy(u)) + 1,
           Len(edits') \in Nat,
           \/ Len(edits') <= Len(edits)
           \/ op = "metadata" /\ Len(edits') <= Len(edits) + 1
    PROVE  CountsOK'
<1>1. /\ request[c].op = op /\ request' = [request EXCEPT ![c] = Idle] /\ UNCHANGED <<requests, user>>
  BY DEF Ends
<1>2. /\ Becomes(c, Idle) /\ EditsOK /\ Idle.op \notin Makers /\ Idle.op \notin {"metadata"}
  BY <1>1 DEF Edits, EditsOK, Idle, Makers, Becomes
<1>3. RoomIsLeft'
  <2> DEFINE left == Cardinality(View \ used)
             asking == Cardinality(Asking(Makers))
  <2>1. left \in Nat /\ asking \in Nat /\ Cardinality(Asking(Makers)') \in Nat
        /\ IsFiniteSet(View \ used)
    BY <1>2, AskingNumbers, Numbers
  <2>2. asking <= left
    BY CountParts DEF Edits, RoomIsLeft
  <2>3. CASE op \in Makers
    <3>1. Cardinality(Client \cap Asking(Makers)') = Cardinality(Client \cap Asking(Makers)) - 1
      BY <1>1, <1>2, <2>3, Leaves
    <3>2. Cardinality(Asking(Makers)') = asking - 1
      BY <3>1, AskingNumbers
    <3>3. CASE UNCHANGED used
      BY <2>1, <2>2, <3>2, <3>3 DEF RoomIsLeft
    <3>4. ASSUME NEW v \in View \ used, used' = used \cup {v} PROVE RoomIsLeft'
      <4>1. View \ used' = (View \ used) \ {v}
        BY <3>4
      <4>2. Cardinality((View \ used) \ {v}) = left - 1
        BY <2>1, <3>4, OneLess
      <4>3. Cardinality(View \ used') = left - 1
        BY <4>1, <4>2
      <4>4. Cardinality(Asking(Makers)') <= Cardinality(View \ used')
        BY <2>1, <2>2, <3>2, <4>3
      <4> QED
        BY <4>4 DEF RoomIsLeft
    <3> QED
      BY <3>3, <3>4
  <2>4. CASE op \notin Makers
    <3>1. Asking(Makers)' = Asking(Makers) /\ used' = used
      BY <1>1, <1>2, <2>4, Stays
    <3> QED
      BY <2>2, <3>1 DEF RoomIsLeft
  <2> QED
    BY <2>3, <2>4
<1>4. ASSUME NEW u \in User PROVE WithinLimit(u)'
  <2> DEFINE owned == Cardinality(OwnedBy(u))
             ownedNext == Cardinality(OwnedBy(u)')
             mine == Cardinality(Of(u))
             asking == Cardinality(Of(u) \cap Asking(Makers))
             askingNext == Cardinality(Of(u) \cap Asking(Makers)')
  <2>1. /\ owned \in Nat /\ mine \in Nat /\ Limit \in Nat /\ Of(u) \subseteq Client
    BY <1>2, Numbers
  <2>2. asking \in Nat /\ askingNext \in Nat /\ ownedNext \in Nat
    BY <2>1, AskingNumbers
  <2>3. Of(u)' = Of(u)
    BY <1>1 DEF Of
  <2>4. (owned <= Limit /\ asking = 0) \/ owned + asking < Limit + mine
    BY CountParts DEF Edits, WithinLimit
  <2>5. CASE op \in Makers /\ c \in Of(u)
    <3>1. askingNext = asking - 1
      BY <1>1, <1>2, <2>1, <2>5, Leaves
    <3>2. ownedNext <= owned + 1
      BY <2>1, <2>2
    <3>3. ownedNext + askingNext < Limit + mine
      BY <2>1, <2>2, <2>4, <3>1, <3>2
    <3> QED
      BY <2>3, <3>3 DEF WithinLimit
  <2>6. CASE op \notin Makers \/ c \notin Of(u)
    <3>1. Of(u) \cap Asking(Makers)' = Of(u) \cap Asking(Makers)
      BY <1>1, <1>2, <2>1, <2>6, Stays
    <3>2. ownedNext <= owned
      BY <2>6
    <3>3. (ownedNext <= Limit /\ asking = 0) \/ ownedNext + asking < Limit + mine
      BY <2>1, <2>2, <2>4, <3>2
    <3> QED
      BY <2>3, <3>1, <3>3 DEF WithinLimit
  <2> QED
    BY <2>5, <2>6
<1>5. EventsAreCounted'
  <2> DEFINE asking == Cardinality(Asking({"metadata"}))
  <2>1. asking \in Nat /\ requests \in Nat /\ Len(edits) \in Nat /\ requests' = requests
    BY <1>1, <1>2, AskingNumbers, Numbers
  <2>2. Len(edits) + asking <= requests
    BY CountParts DEF Edits, EventsAreCounted
  <2>3. CASE op = "metadata"
    <3>1. Cardinality(Client \cap Asking({"metadata"})')
             = Cardinality(Client \cap Asking({"metadata"})) - 1
      BY <1>1, <1>2, <2>3, Leaves
    <3>2. Cardinality(Asking({"metadata"})') = asking - 1
      BY <3>1, AskingNumbers
    <3>3. Len(edits') <= Len(edits) + 1
      BY <2>1
    <3>4. Len(edits') + (asking - 1) <= requests
      BY <2>1, <2>2, <3>3
    <3> QED
      BY <2>1, <3>2, <3>4 DEF EventsAreCounted
  <2>4. CASE op # "metadata"
    <3>1. Asking({"metadata"})' = Asking({"metadata"})
      BY <1>1, <1>2, <2>4, Stays
    <3>2. Len(edits') + asking <= requests
      BY <2>1, <2>2, <2>4
    <3> QED
      BY <2>1, <3>1, <3>2 DEF EventsAreCounted
  <2> QED
    BY <2>3, <2>4
<1> QED
  BY <1>3, <1>4, <1>5, CountPartsPrimed

\* What is loaded is what is stored.
LEMMA SameIsOlder == ASSUME NEW x, x.revision \in Nat PROVE Older(x, x)
BY DEF Older

\* A request that passes has loaded what is stored.
LEMMA PassedSafely ==
    ASSUME Edits, NEW c \in Client, NEW p, Passed(c, p), Checked(c, p)
    PROVE  Edits'
<1>1. /\ request[c] = Idle /\ p.op \in scenario.ops /\ requests' = requests + 1
      /\ requests < scenario.requests
      /\ UNCHANGED <<scenario, user, seen, view, used, default, metadata, edits, raced,
                     racedMetadata>>
  BY DEF Passed, edited
<1>2. DOMAIN request' = Client /\ request'[c] = p /\ \A d \in Client \ {c} : request'[d] = request[d]
  BY DEF Passed, Edits, EditsOK
<1>3. requests \in Nat /\ scenario.requests \in Nat
  BY EditsAssumption DEF Edits, EditsOK, ScenarioOK
<1>4. ScenarioOK' /\ ViewsOK' /\ MetadataOK'
  BY <1>1, <1>3 DEF Edits, EditsOK, ScenarioOK, ViewsOK, MetadataOK
<1>5. ASSUME NEW d \in Client PROVE Pending(d)' /\ Shown(d)'
  <2>1. Shown(d)'
    BY <1>1 DEF Edits, EditsOK, Shown
  <2>2. CASE d # c
    <3>1. request'[d] = request[d] /\ Pending(d)
      BY <1>2, <2>2 DEF Edits, EditsOK
    <3> QED
      BY <1>1, <1>3, <2>1, <3>1 DEF Pending, Creating, ShownAs
  <2>3. CASE d = c
    <3>1. p.op \in Makers => p.row \in Payload
      BY DEF Checked
    <3>2. ASSUME p.op = "update"
          PROVE  /\ p.view \in used /\ p.row \in Payload
                 /\ p.loaded \in Row /\ p.loaded.revision \in 1 .. requests + 1
                 /\ ShownAs(c, p.view, p.loaded)
      BY <3>2 DEF Checked, Edits, EditsOK, ViewsOK
    <3>3. ASSUME p.op = "metadata"
          PROVE  /\ p.loaded \in Metadata /\ p.content \in Content /\ p.checked \in BOOLEAN
                 /\ p.checked => ShownAs(c, Device, p.loaded)
      BY <3>3 DEF Checked, Edits, EditsOK, MetadataOK
    <3>4. Pending(c)'
      BY <1>1, <1>2, <3>1, <3>2, <3>3 DEF Pending, Creating, Makers, ShownAs
    <3> QED
      BY <2>1, <2>3, <3>4
  <2> QED
    BY <2>2, <2>3
<1>6. EditsOK'
  <2>1. DOMAIN seen' = Client
    BY <1>1 DEF Edits, EditsOK
  <2> QED
    BY <1>2, <1>4, <1>5, <2>1 DEF EditsOK
<1>7. ViewsAreRevised'
  <2>1. ASSUME NEW v \in DOMAIN view \ raced, NEW d \in Client
        PROVE  /\ v \in DOMAIN seen[d] => Older(seen[d][v], view[v])
               /\ request'[d].op = "update" /\ request'[d].view = v
                     => Older(request'[d].loaded, view[v])
    <3>1. CASE d # c
      BY <1>2, <2>1, <3>1 DEF Edits, ViewsAreRevised
    <3>2. CASE d = c
      <4>1. view[v].revision \in Nat
        BY <1>3, <2>1 DEF Edits, EditsOK, ViewsOK
      <4>2. p.op = "update" /\ p.view = v => p.loaded = view[v]
        BY DEF Checked
      <4> QED
        BY <1>2, <2>1, <3>2, <4>1, <4>2, SameIsOlder DEF Edits, ViewsAreRevised
    <3> QED
      BY <3>1, <3>2
  <2> QED
    BY <1>1, <2>1 DEF ViewsAreRevised, Older
<1>8. MetadataIsRevised'
  <2>1. ASSUME ~racedMetadata, NEW d \in Client
        PROVE  /\ Device \in DOMAIN seen[d] => Older(seen[d][Device], metadata)
               /\ request'[d].op = "metadata" => Older(request'[d].loaded, metadata)
    <3>1. CASE d # c
      BY <1>2, <2>1, <3>1 DEF Edits, MetadataIsRevised
    <3>2. CASE d = c
      <4>1. metadata.revision \in Nat
        BY DEF Edits, EditsOK, MetadataOK, Metadata
      <4>2. p.op = "metadata" => p.loaded = metadata
        BY DEF Checked
      <4> QED
        BY <1>2, <2>1, <3>2, <4>1, <4>2, SameIsOlder DEF Edits, MetadataIsRevised
    <3> QED
      BY <3>1, <3>2
  <2>2. ~racedMetadata => (edits = <<>> => metadata.content = None)
    BY DEF Edits, MetadataIsRevised
  <2> QED
    BY <1>1, <2>1, <2>2 DEF MetadataIsRevised, Older
<1>9. MetadataHistoryIsAChain'
  BY <1>1 DEF Edits, MetadataHistoryIsAChain
<1> QED
  BY <1>6, <1>7, <1>8, <1>9, PassedCounts DEF Edits
\* What was under way stays under way when another request ends.
LEMMA EndedPending ==
    ASSUME Edits, NEW c \in Client, NEW op, Ends(c, op), used \subseteq used',
           \A d \in Client \ {c} : seen'[d] = seen[d]
    PROVE  /\ DOMAIN request' = Client /\ request'[c] = Idle
           /\ \A d \in Client \ {c} : request'[d] = request[d]
           /\ \A d \in Client : Pending(d)'
           /\ \A d \in Client \ {c} : Shown(d)'
           /\ ScenarioOK'
<1>1. /\ DOMAIN request' = Client /\ request'[c] = Idle
      /\ \A d \in Client \ {c} : request'[d] = request[d]
      /\ UNCHANGED <<scenario, requests, user>>
  BY DEF Ends, Edits, EditsOK
<1>2. Pending(c)'
  BY <1>1 DEF Pending, Creating, Idle
<1>3. ASSUME NEW d \in Client \ {c} PROVE Pending(d)' /\ Shown(d)'
  <2>1. Pending(d) /\ Shown(d) /\ request'[d] = request[d] /\ seen'[d] = seen[d]
    BY <1>1 DEF Edits, EditsOK
  <2>2. Pending(d)'
    BY <1>1, <2>1 DEF Pending, Creating, ShownAs
  <2>3. Shown(d)'
    BY <2>1 DEF Shown
  <2> QED
    BY <2>2, <2>3
<1>4. ScenarioOK'
  BY <1>1 DEF Edits, EditsOK, ScenarioOK
<1> QED
  BY <1>1, <1>2, <1>3, <1>4

\* Who is told a row is shown that row.
LEMMA Told ==
    ASSUME Edits, NEW c \in Client, NEW x, NEW row, Tell(c, x, row)
    PROVE  /\ DOMAIN seen' = Client /\ (\A d \in Client \ {c} : seen'[d] = seen[d])
           /\ DOMAIN seen'[c] = DOMAIN seen[c] \cup {x} /\ seen'[c][x] = row
           /\ \A y \in DOMAIN seen[c] \ {x} : seen'[c][y] = seen[c][y]
<1>1. /\ DOMAIN seen' = Client /\ (\A d \in Client \ {c} : seen'[d] = seen[d])
      /\ seen'[c] = With(seen[c], x, row)
  BY DEF Edits, EditsOK, Tell
<1> QED
  BY <1>1 DEF With, Merged

\* The views that a user owns are finitely many, also after a step.
LEMMA OwnedNext ==
    ASSUME ViewsOK', NEW u
    PROVE  Cardinality(OwnedBy(u)') \in Nat /\ IsFiniteSet(OwnedBy(u)')
<1>1. OwnedBy(u)' \subseteq View
  BY DEF ViewsOK, OwnedBy
<1> QED
  BY <1>1, FS_Subset, FS_CardinalityType, EditsAssumption

\* Fewer views, or the same with the same owners, count for no more.
LEMMA OwnedLess ==
    ASSUME EditsOK, ViewsOK', DOMAIN view' \subseteq DOMAIN view,
           \A v \in DOMAIN view' : view'[v].owner = view[v].owner
    PROVE  \A u \in User : /\ Cardinality(OwnedBy(u)') \in Nat
                           /\ Cardinality(OwnedBy(u)') <= Cardinality(OwnedBy(u))
<1>1. ASSUME NEW u \in User
      PROVE  /\ Cardinality(OwnedBy(u)') \in Nat
             /\ Cardinality(OwnedBy(u)') <= Cardinality(OwnedBy(u))
  <2>1. OwnedBy(u)' \subseteq OwnedBy(u)
    BY DEF OwnedBy
  <2>2. IsFiniteSet(OwnedBy(u))
    BY Numbers
  <2> QED
    BY <2>1, <2>2, OwnedNext, FS_Subset
<1> QED
  BY <1>1

\* A request that is refused, or that commits something else, edits nothing.
LEMMA EndedSafely ==
    ASSUME Edits, NEW c \in Client, NEW op, Ends(c, op),
           UNCHANGED <<seen, view, used, metadata, edits, raced, racedMetadata>>,
           default' \in [User -> View \cup {None}]
    PROVE  Edits'
<1>1. ViewsOK' /\ MetadataOK'
  BY DEF Ends, Edits, EditsOK, ViewsOK, MetadataOK
<1>2. /\ DOMAIN request' = Client /\ request'[c] = Idle
      /\ \A d \in Client \ {c} : request'[d] = request[d]
      /\ \A d \in Client : Pending(d)'
      /\ ScenarioOK'
  BY EndedPending
<1>3. \A d \in Client : Shown(d)'
  BY DEF Edits, EditsOK, Shown
<1>4. EditsOK'
  BY <1>1, <1>2, <1>3 DEF Edits, EditsOK
<1>5. Idle.op # "update" /\ Idle.op # "metadata"
  BY DEF Idle
<1>6. ViewsAreRevised'
  BY <1>2, <1>5 DEF Edits, ViewsAreRevised, Older
<1>7. MetadataIsRevised' /\ MetadataHistoryIsAChain'
  BY <1>2, <1>5 DEF Edits, MetadataIsRevised, MetadataHistoryIsAChain, Older
<1>8. CountsOK'
  <2>1. \A u \in User : /\ Cardinality(OwnedBy(u)') \in Nat
                        /\ Cardinality(OwnedBy(u)') <= Cardinality(OwnedBy(u))
    BY <1>1, OwnedLess DEF Edits
  <2>2. Len(edits') \in Nat /\ Len(edits') <= Len(edits)
    BY DEF Edits, EditsOK, MetadataOK
  <2> QED
    BY <2>1, <2>2, EndedCounts
<1> QED
  BY <1>4, <1>6, <1>7, <1>8 DEF Edits

\* A deleted view is gone, and its id is not given again.
LEMMA DeleteSafely == ASSUME Edits, NEW c \in Client, DeleteView(c) PROVE Edits'
<1> DEFINE gone == request[c].view
<1>1. /\ Ends(c, "delete") /\ DOMAIN view' = DOMAIN view \ {gone}
      /\ \A v \in DOMAIN view' : view'[v] = view[v]
      /\ default' = [u \in User |-> IF default[u] = gone THEN None ELSE default[u]]
      /\ UNCHANGED <<seen, used, metadata, edits, raced, racedMetadata>>
  BY DEF DeleteView, DropView
<1>2. ViewsOK' /\ MetadataOK'
  <2>1. default' \in [User -> View \cup {None}]
    BY <1>1 DEF Edits, EditsOK, ViewsOK
  <2> QED
    BY <1>1, <2>1 DEF Ends, Edits, EditsOK, ViewsOK, MetadataOK
<1>3. /\ DOMAIN request' = Client /\ request'[c] = Idle
      /\ \A d \in Client \ {c} : request'[d] = request[d]
      /\ \A d \in Client : Pending(d)'
      /\ ScenarioOK'
  BY <1>1, EndedPending
<1>4. \A d \in Client : Shown(d)'
  BY <1>1 DEF Edits, EditsOK, Shown
<1>5. EditsOK'
  BY <1>1, <1>2, <1>3, <1>4 DEF Edits, EditsOK
<1>6. Idle.op # "update" /\ Idle.op # "metadata"
  BY DEF Idle
<1>7. ViewsAreRevised'
  BY <1>1, <1>3, <1>6 DEF Edits, ViewsAreRevised, Older
<1>8. MetadataIsRevised' /\ MetadataHistoryIsAChain'
  BY <1>1, <1>3, <1>6 DEF Edits, MetadataIsRevised, MetadataHistoryIsAChain, Older
<1>9. CountsOK'
  <2>1. \A u \in User : /\ Cardinality(OwnedBy(u)') \in Nat
                        /\ Cardinality(OwnedBy(u)') <= Cardinality(OwnedBy(u))
    BY <1>1, <1>2, OwnedLess DEF Edits
  <2>2. Len(edits') \in Nat /\ Len(edits') <= Len(edits)
    BY <1>1 DEF Edits, EditsOK, MetadataOK
  <2> QED
    BY <1>1, <2>1, <2>2, EndedCounts
<1> QED
  BY <1>5, <1>7, <1>8, <1>9 DEF Edits

\* There is an id left for a request that creates a view.
LEMMA AnIdIsLeft ==
    ASSUME Edits, NEW c \in Client, Creating(c)
    PROVE  (CHOOSE w \in View \ used : TRUE) \in View \ used
<1>1. c \in Asking(Makers)
  BY DEF Asking, Creating, Makers
<1>2. /\ IsFiniteSet(Client \cap Asking(Makers)) /\ Client \cap Asking(Makers) = Asking(Makers)
      /\ Cardinality(Asking(Makers)) \in Nat
  BY AskingNumbers
<1>3. Cardinality(Asking(Makers)) # 0
  BY <1>1, <1>2, FS_EmptySet
<1>4. Cardinality(Asking(Makers)) <= Cardinality(View \ used)
      /\ Cardinality(View \ used) \in Nat
  BY CountParts, Numbers DEF Edits, RoomIsLeft
<1>5. Cardinality(View \ used) # 0
  BY <1>2, <1>3, <1>4
<1>6. View \ used # {}
  BY <1>5, FS_EmptySet
<1> QED
  BY <1>6
\* A created view is at its first revision, told to its creator, and counted.
LEMMA InsertSafely == ASSUME Edits, NEW c \in Client, InsertView(c) PROVE Edits'
<1> DEFINE row == Merged([owner |-> user[c], revision |-> 1], request[c].row)
           v == CHOOSE w \in View \ used : TRUE
<1>1. Creating(c) /\ Ends(c, request[c].op) /\ request[c].op \in Makers
  BY DEF InsertView, Creating, Makers
<1>2. /\ row \in Row /\ row.revision = 1 /\ row.owner = user[c] /\ user[c] \in User
      /\ requests \in Nat
  <2>1. request[c].row \in Payload /\ user[c] \in User /\ requests \in Nat
    BY <1>1 DEF Edits, EditsOK, Pending, ScenarioOK
  <2> QED
    BY <2>1, CreatedRow
<1>3. v \in View \ used
  BY <1>1, AnIdIsLeft
<1>4. CASE Refuse
  <2>1. default' \in [User -> View \cup {None}]
    BY <1>4 DEF Refuse, edited, Edits, EditsOK, ViewsOK
  <2> QED
    BY <1>1, <1>4, <2>1, EndedSafely DEF Refuse, edited
<1>5. CASE /\ used' = used \cup {v} /\ view' = With(view, v, row) /\ Tell(c, v, row)
           /\ UNCHANGED <<default, metadata, edits, raced, racedMetadata>>
  <2> HIDE DEF row, v
  <2>1. /\ v \notin DOMAIN view /\ DOMAIN view' = DOMAIN view \cup {v} /\ view'[v] = row
        /\ \A w \in DOMAIN view : view'[w] = view[w]
    BY <1>3, <1>5 DEF With, Merged, Edits, EditsOK, ViewsOK
  <2>2. /\ DOMAIN seen' = Client /\ (\A d \in Client \ {c} : seen'[d] = seen[d])
        /\ DOMAIN seen'[c] = DOMAIN seen[c] \cup {v} /\ seen'[c][v] = row
        /\ \A y \in DOMAIN seen[c] \ {v} : seen'[c][y] = seen[c][y]
    BY <1>5, Told
  <2>3. v # Device /\ \A d \in Client : v \notin DOMAIN seen[d]
    BY <1>3, EditsAssumption DEF Edits, EditsOK, Shown
  <2>4. /\ DOMAIN request' = Client /\ request'[c] = Idle
        /\ \A d \in Client \ {c} : request'[d] = request[d]
        /\ \A d \in Client : Pending(d)'
        /\ \A d \in Client \ {c} : Shown(d)'
        /\ ScenarioOK'
    BY <1>1, <1>5, <2>2, EndedPending
  <2>5. ViewsOK' /\ MetadataOK'
    <3>1. requests' = requests
      BY <1>1 DEF Ends
    <3>2. ASSUME NEW w \in DOMAIN view'
          PROVE  view'[w] \in Row /\ view'[w].revision \in 1 .. requests' + 1
      <4>1. CASE w = v
        BY <1>2, <2>1, <3>1, <4>1
      <4>2. CASE w # v
        BY <2>1, <3>1, <3>2, <4>2 DEF Edits, EditsOK, ViewsOK
      <4> QED
        BY <4>1, <4>2
    <3>3. used' \subseteq View /\ DOMAIN view' \subseteq used' /\ raced' \subseteq used'
          /\ default' \in [User -> View \cup {None}]
      BY <1>3, <1>5, <2>1 DEF Edits, EditsOK, ViewsOK
    <3> QED
      BY <1>5, <3>2, <3>3 DEF Edits, EditsOK, ViewsOK, MetadataOK
  <2>6. Shown(c)'
    <3>1. DOMAIN seen'[c] \subseteq used' \cup {Device}
      BY <1>5, <2>2 DEF Edits, EditsOK, Shown
    <3>2. \A x \in DOMAIN seen'[c] : seen'[c][x] \in IF x = Device THEN Metadata ELSE Row
      BY <1>2, <2>2, <2>3 DEF Edits, EditsOK, Shown
    <3> QED
      BY <3>1, <3>2 DEF Shown
  <2>7. EditsOK'
    BY <2>2, <2>4, <2>5, <2>6 DEF EditsOK
  <2>8. Idle.op # "update" /\ Idle.op # "metadata"
    BY DEF Idle
  <2>9. ASSUME NEW w \in DOMAIN view' \ raced', NEW d \in Client
        PROVE  /\ w \in DOMAIN seen'[d] => Older(seen'[d][w], view'[w])
               /\ request'[d].op = "update" /\ request'[d].view = w
                     => Older(request'[d].loaded, view'[w])
    <3>1. CASE w = v
      <4>1. request[d].op = "update" => request[d].view # v
        BY <1>3 DEF Edits, EditsOK, Pending
      <4>2. w \in DOMAIN seen'[d] => seen'[d][w] = row
        BY <2>2, <2>3, <3>1
      <4>3. Older(row, row)
        BY <1>2, SameIsOlder DEF Row
      <4> QED
        BY <2>1, <2>4, <2>8, <3>1, <4>1, <4>2, <4>3
    <3>2. CASE w # v
      <4>1. w \in DOMAIN view \ raced /\ view'[w] = view[w]
        BY <1>5, <2>1, <2>9, <3>2
      <4>2. w \in DOMAIN seen'[d] => w \in DOMAIN seen[d] /\ seen'[d][w] = seen[d][w]
        BY <2>2, <3>2
      <4> QED
        BY <2>4, <2>8, <4>1, <4>2 DEF Edits, ViewsAreRevised
    <3> QED
      BY <3>1, <3>2
  <2>10. ViewsAreRevised'
    BY <2>9 DEF ViewsAreRevised, Older
  <2>11. MetadataIsRevised'
    <3>1. \A d \in Client : (Device \in DOMAIN seen'[d] <=> Device \in DOMAIN seen[d])
                            /\ (Device \in DOMAIN seen[d] => seen'[d][Device] = seen[d][Device])
      BY <2>2, <2>3
    <3> QED
      BY <1>5, <2>4, <2>8, <3>1 DEF Edits, MetadataIsRevised, Older
  <2>12. MetadataHistoryIsAChain'
    BY <1>5 DEF Edits, MetadataHistoryIsAChain
  <2>13. CountsOK'
    <3>1. ASSUME NEW u \in User
          PROVE  /\ Cardinality(OwnedBy(u)') \in Nat
                 /\ \/ Cardinality(OwnedBy(u)') <= Cardinality(OwnedBy(u))
                    \/ /\ request[c].op \in Makers /\ c \in Of(u)
                       /\ Cardinality(OwnedBy(u)') <= Cardinality(OwnedBy(u)) + 1
      <4>1. Cardinality(OwnedBy(u)) \in Nat /\ IsFiniteSet(OwnedBy(u))
            /\ Cardinality(OwnedBy(u)') \in Nat
        BY <2>5, Numbers, OwnedNext DEF Edits
      <4>2. CASE u = user[c]
        <5>1. OwnedBy(u)' = OwnedBy(u) \cup {v} /\ v \notin OwnedBy(u)
          BY <1>2, <2>1, <4>2 DEF OwnedBy
        <5>2. Cardinality(OwnedBy(u) \cup {v}) = Cardinality(OwnedBy(u)) + 1
          BY <4>1, <5>1, OneMore
        <5> QED
          BY <1>1, <4>1, <4>2, <5>1, <5>2 DEF Of
      <4>3. CASE u # user[c]
        <5>1. OwnedBy(u)' = OwnedBy(u)
          BY <1>2, <2>1, <4>3 DEF OwnedBy
        <5> QED
          BY <4>1, <5>1
      <4> QED
        BY <4>2, <4>3
    <3>2. Len(edits') \in Nat /\ Len(edits') <= Len(edits)
      BY <1>5 DEF Edits, EditsOK, MetadataOK
    <3> QED
      BY <1>1, <1>3, <1>5, <3>1, <3>2, EndedCounts
  <2> QED
    BY <2>7, <2>10, <2>11, <2>12, <2>13 DEF Edits
<1> QED
  BY <1>4, <1>5 DEF InsertView
\* A row with a lower revision.
LEMMA NewerRow ==
    ASSUME NEW x, NEW old, NEW new, x.revision \in Nat, old.revision \in Nat,
           Older(x, old), new.revision = old.revision + 1
    PROVE  Older(x, new)
<1>1. x.revision <= old.revision
  BY DEF Older
<1>2. x.revision < new.revision
  BY <1>1
<1> QED
  BY <1>2 DEF Older

\* An update stores the revision after the one it loaded; if that is not the
\* stored one, the view is raced.
LEMMA WriteViewSafely == ASSUME Edits, NEW c \in Client, WriteView(c) PROVE Edits'
<1> DEFINE v == request[c].view
           loaded == request[c].loaded
           p == request[c].row
           value == With(p, "revision", NextRevision(loaded, p))
           row == Written(loaded, value, view[v])
           held == Merged(value, loaded)
<1>1. Ends(c, "update") /\ request[c].op = "update"
  BY DEF WriteView, Ends
<1>2. /\ v \in used /\ p \in Payload /\ loaded \in Row /\ loaded.revision \in 1 .. requests
      /\ requests \in Nat
  BY <1>1 DEF Edits, EditsOK, Pending, ScenarioOK
<1>3. CASE Refuse
  <2>1. default' \in [User -> View \cup {None}]
    BY <1>3 DEF Refuse, edited, Edits, EditsOK, ViewsOK
  <2> QED
    BY <1>1, <1>3, <2>1, EndedSafely DEF Refuse, edited
<1>4. CASE /\ v \in DOMAIN view /\ view' = [view EXCEPT ![v] = row] /\ Tell(c, v, held)
           /\ raced' = IF view[v].revision = loaded.revision THEN raced ELSE raced \cup {v}
           /\ UNCHANGED <<used, default, metadata, edits, racedMetadata>>
  <2>1. /\ row \in Row /\ row.owner = view[v].owner /\ row.revision = loaded.revision + 1
        /\ held \in Row
        /\ view[v] = loaded => held = row
    <3>1. view[v] \in Row
      BY <1>4 DEF Edits, EditsOK, ViewsOK
    <3> QED
      BY <1>2, <3>1, UpdatedRow
  <2> HIDE DEF row, held, value
  <2>2. /\ DOMAIN view' = DOMAIN view /\ view'[v] = row
        /\ \A w \in DOMAIN view \ {v} : view'[w] = view[w]
    BY <1>4
  <2>3. /\ DOMAIN seen' = Client /\ (\A d \in Client \ {c} : seen'[d] = seen[d])
        /\ DOMAIN seen'[c] = DOMAIN seen[c] \cup {v} /\ seen'[c][v] = held
        /\ \A y \in DOMAIN seen[c] \ {v} : seen'[c][y] = seen[c][y]
    BY <1>4, Told
  <2>4. v # Device
    BY <1>2, EditsAssumption DEF Edits, EditsOK, ViewsOK
  <2>5. /\ DOMAIN request' = Client /\ request'[c] = Idle
        /\ \A d \in Client \ {c} : request'[d] = request[d]
        /\ \A d \in Client : Pending(d)'
        /\ \A d \in Client \ {c} : Shown(d)'
        /\ ScenarioOK'
    BY <1>1, <1>4, <2>3, EndedPending
  <2>6. ViewsOK' /\ MetadataOK'
    <3>1. requests' = requests
      BY <1>1 DEF Ends
    <3>2. ASSUME NEW w \in DOMAIN view'
          PROVE  view'[w] \in Row /\ view'[w].revision \in 1 .. requests' + 1
      <4>1. CASE w = v
        BY <1>2, <2>1, <2>2, <3>1, <4>1
      <4>2. CASE w # v
        BY <2>2, <3>1, <3>2, <4>2 DEF Edits, EditsOK, ViewsOK
      <4> QED
        BY <4>1, <4>2
    <3>3. used' \subseteq View /\ DOMAIN view' \subseteq used' /\ raced' \subseteq used'
          /\ default' \in [User -> View \cup {None}]
      BY <1>2, <1>4, <2>2 DEF Edits, EditsOK, ViewsOK
    <3> QED
      BY <1>4, <3>2, <3>3 DEF Edits, EditsOK, ViewsOK, MetadataOK
  <2>7. Shown(c)'
    <3>1. DOMAIN seen'[c] \subseteq used' \cup {Device}
      BY <1>2, <1>4, <2>3 DEF Edits, EditsOK, Shown
    <3>2. \A x \in DOMAIN seen'[c] : seen'[c][x] \in IF x = Device THEN Metadata ELSE Row
      BY <2>1, <2>3, <2>4 DEF Edits, EditsOK, Shown
    <3> QED
      BY <3>1, <3>2 DEF Shown
  <2>8. EditsOK'
    BY <2>3, <2>5, <2>6, <2>7 DEF EditsOK
  <2>9. Idle.op # "update" /\ Idle.op # "metadata"
    BY DEF Idle
  <2>10. ASSUME NEW w \in DOMAIN view' \ raced', NEW d \in Client
         PROVE  /\ w \in DOMAIN seen'[d] => Older(seen'[d][w], view'[w])
                /\ request'[d].op = "update" /\ request'[d].view = w
                      => Older(request'[d].loaded, view'[w])
    <3>1. CASE w = v
      <4>1. v \in DOMAIN view \ raced /\ view[v].revision = loaded.revision
        BY <1>4, <2>10, <3>1
      <4>2. Older(loaded, view[v])
        BY <1>1, <4>1 DEF Edits, ViewsAreRevised
      <4>3. loaded = view[v] /\ held = row
        BY <2>1, <4>1, <4>2 DEF Older
      <4>4. row.revision = view[v].revision + 1 /\ view[v].revision \in Nat
        BY <1>2, <2>1, <4>3
      <4>5. w \in DOMAIN seen'[d] => Older(seen'[d][w], view'[w])
        <5>1. CASE d = c
          <6>1. Older(row, row)
            BY <4>4, SameIsOlder DEF Row
          <6> QED
            BY <2>2, <2>3, <3>1, <4>3, <5>1, <6>1
        <5>2. ASSUME d # c, v \in DOMAIN seen[d] PROVE Older(seen[d][v], row)
          <6>1. seen[d][v].revision \in Nat
            BY <2>4, <5>2 DEF Edits, EditsOK, Shown, Row
          <6>2. Older(seen[d][v], view[v])
            BY <4>1, <5>2 DEF Edits, ViewsAreRevised
          <6> QED
            BY <4>4, <6>1, <6>2, NewerRow
        <5> QED
          BY <2>2, <2>3, <3>1, <5>1, <5>2
      <4>6. ASSUME d # c, request[d].op = "update", request[d].view = v
            PROVE  Older(request[d].loaded, row)
        <5>1. request[d].loaded.revision \in Nat
          BY <4>6 DEF Edits, EditsOK, Pending, Row
        <5>2. Older(request[d].loaded, view[v])
          BY <4>1, <4>6 DEF Edits, ViewsAreRevised
        <5> QED
          BY <4>4, <5>1, <5>2, NewerRow
      <4> QED
        BY <2>2, <2>5, <2>9, <3>1, <4>5, <4>6
    <3>2. CASE w # v
      <4>1. w \in DOMAIN view \ raced /\ view'[w] = view[w]
        BY <1>4, <2>2, <2>10, <3>2
      <4>2. w \in DOMAIN seen'[d] => w \in DOMAIN seen[d] /\ seen'[d][w] = seen[d][w]
        BY <2>3, <3>2
      <4> QED
        BY <2>5, <2>9, <4>1, <4>2 DEF Edits, ViewsAreRevised
    <3> QED
      BY <3>1, <3>2
  <2>11. ViewsAreRevised'
    BY <2>10 DEF ViewsAreRevised, Older
  <2>12. MetadataIsRevised'
    <3>1. \A d \in Client : (Device \in DOMAIN seen'[d] <=> Device \in DOMAIN seen[d])
                            /\ (Device \in DOMAIN seen[d] => seen'[d][Device] = seen[d][Device])
      BY <2>3, <2>4
    <3> QED
      BY <1>4, <2>5, <2>9, <3>1 DEF Edits, MetadataIsRevised, Older
  <2>13. MetadataHistoryIsAChain'
    BY <1>4 DEF Edits, MetadataHistoryIsAChain
  <2>14. CountsOK'
    <3>1. \A w \in DOMAIN view' : view'[w].owner = view[w].owner
      BY <2>1, <2>2
    <3>2. \A u \in User : /\ Cardinality(OwnedBy(u)') \in Nat
                          /\ Cardinality(OwnedBy(u)') <= Cardinality(OwnedBy(u))
      BY <2>2, <2>6, <3>1, OwnedLess DEF Edits
    <3>3. Len(edits') \in Nat /\ Len(edits') <= Len(edits)
      BY <1>4 DEF Edits, EditsOK, MetadataOK
    <3> QED
      BY <1>1, <1>4, <3>2, <3>3, EndedCounts
  <2> QED
    BY <2>8, <2>11, <2>12, <2>13, <2>14 DEF Edits
<1> QED
  BY <1>3, <1>4 DEF WriteView

\* The default of a user is none or a view.
LEMMA WriteDefaultSafely == ASSUME Edits, NEW c \in Client, WriteDefault(c) PROVE Edits'
<1>1. /\ Ends(c, "default")
      /\ UNCHANGED <<seen, view, used, metadata, edits, raced, racedMetadata>>
      /\ default' = [default EXCEPT ![user[c]] =
                        Stored(user[c], request[c].loaded, request[c].view)]
  BY DEF WriteDefault
<1>2. user[c] \in User /\ default \in [User -> View \cup {None}] /\ DOMAIN view \subseteq View
  BY DEF Edits, EditsOK, ScenarioOK, ViewsOK
<1>3. Stored(user[c], request[c].loaded, request[c].view) \in View \cup {None}
  BY <1>2 DEF Stored
<1>4. default' \in [User -> View \cup {None}]
  BY <1>1, <1>2, <1>3
<1> QED
  BY <1>1, <1>4, EndedSafely
-----------------------------------------------------------------------------
(* The metadata of a device.                                                *)

\* An updated row, and what the session holds of it.
LEMMA UpdatedMetadata ==
    ASSUME NEW x \in Content, NEW loaded \in Metadata, NEW stored \in Metadata, NEW value,
           value = [content |-> x, revision |-> loaded.revision + 1],
           NEW row, row = Written(loaded, value, stored)
    PROVE  /\ row \in Metadata /\ value \in Metadata /\ row.revision = loaded.revision + 1
           /\ stored = loaded => row = value
<1>1. /\ DOMAIN stored = {"content", "revision"} /\ DOMAIN value = {"content", "revision"}
      /\ value["content"] = x /\ value["revision"] = loaded["revision"] + 1
      /\ loaded["revision"] \in Nat /\ stored["content"] \in Content \cup {None}
      /\ value \in Metadata
  BY DEF Metadata
<1>2. /\ row = [k \in {"content", "revision"} |-> row[k]]
      /\ \A k \in {"content", "revision"} :
            row[k] = IF value[k] # loaded[k] THEN value[k] ELSE stored[k]
  BY <1>1 DEF Written
<1>3. row["revision"] = loaded["revision"] + 1 /\ row["content"] \in Content \cup {None}
  BY <1>1, <1>2
<1>4. row \in Metadata
  BY <1>1, <1>2, <1>3 DEF Metadata
<1>5. ASSUME stored = loaded PROVE row = value
  <2>1. \A k \in {"content", "revision"} : row[k] = value[k]
    BY <1>2, <1>5
  <2>2. value = [k \in {"content", "revision"} |-> value[k]]
    BY <1>1 DEF Metadata
  <2> QED
    BY <1>2, <2>1, <2>2
<1> QED
  BY <1>1, <1>3, <1>4, <1>5

\* Each event begins where the last one ended.
LEMMA ChainGrows ==
    ASSUME NEW S, edits \in Seq(S), NEW e, e \in S, ~racedMetadata, MetadataHistoryIsAChain,
           edits = <<>> => metadata.content = None,
           e.before = metadata.content, edits' = Append(edits, e), metadata'.content = e.after
    PROVE  MetadataHistoryIsAChain' /\ Len(edits') = Len(edits) + 1 /\ edits' # <<>>
<1> DEFINE n == Len(edits)
<1>1. /\ n \in Nat /\ DOMAIN edits = 1 .. n /\ DOMAIN edits' = 1 .. n + 1 /\ Len(edits') = n + 1
      /\ edits'[n + 1] = e /\ \A i \in 1 .. n : edits'[i] = edits[i]
  OBVIOUS
<1>2. /\ \A i \in 1 .. n : edits[i].before = IF i = 1 THEN None ELSE edits[i - 1].after
      /\ n # 0 => edits[n].after = metadata.content
  BY <1>1 DEF MetadataHistoryIsAChain
<1>3. n = 0 => edits = <<>>
  BY <1>1
<1>4. ASSUME NEW i \in 1 .. n + 1
      PROVE  edits'[i].before = IF i = 1 THEN None ELSE edits'[i - 1].after
  <2>1. CASE i = n + 1
    <3>1. CASE n = 0
      BY <1>1, <1>3, <2>1, <3>1
    <3>2. CASE n # 0
      <4>1. i # 1 /\ i - 1 = n /\ n \in 1 .. n
        BY <1>1, <2>1, <3>2
      <4>2. edits'[i - 1].after = metadata.content
        BY <1>1, <1>2, <3>2, <4>1
      <4> QED
        BY <1>1, <2>1, <4>1, <4>2
    <3> QED
      BY <3>1, <3>2
  <2>2. CASE i \in 1 .. n
    <3>1. i # 1 => i - 1 \in 1 .. n
      BY <1>1, <2>2
    <3> QED
      BY <1>1, <1>2, <2>2, <3>1
  <2> QED
    BY <1>1, <2>1, <2>2
<1>5. edits' # <<>> /\ edits'[Len(edits')].after = metadata'.content
  BY <1>1
<1> QED
  BY <1>1, <1>4, <1>5 DEF MetadataHistoryIsAChain
\* An update of the metadata stores the revision after the one it loaded, and
\* tells the change.
LEMMA WriteMetadataSafely == ASSUME Edits, NEW c \in Client, WriteMetadata(c) PROVE Edits'
<1> DEFINE loaded == request[c].loaded
           x == request[c].content
           value == [content |-> x, revision |-> loaded.revision + 1]
           row == Written(loaded, value, metadata)
           event == [before |-> loaded.content, after |-> x]
<1>1. Ends(c, "metadata") /\ request[c].op = "metadata"
  BY DEF WriteMetadata, Ends
<1>2. loaded \in Metadata /\ x \in Content /\ metadata \in Metadata
  BY <1>1 DEF Edits, EditsOK, Pending, MetadataOK
<1>3. CASE Refuse
  <2>1. default' \in [User -> View \cup {None}]
    BY <1>3 DEF Refuse, edited, Edits, EditsOK, ViewsOK
  <2> QED
    BY <1>1, <1>3, <2>1, EndedSafely DEF Refuse, edited
<1>4. CASE /\ metadata' = row
           /\ edits' = IF x = loaded.content THEN edits ELSE Append(edits, event)
           /\ racedMetadata' = (racedMetadata \/ metadata.revision # loaded.revision)
           /\ Tell(c, Device, value)
           /\ UNCHANGED <<view, used, default, raced>>
  <2>1. /\ row \in Metadata /\ value \in Metadata /\ row.revision = loaded.revision + 1
        /\ metadata = loaded => row = value
    BY <1>2, UpdatedMetadata
  <2>2. value.content = x /\ event.before = loaded.content /\ event.after = x
        /\ event \in [before : Content \cup {None}, after : Content]
    BY <1>2 DEF Metadata
  <2> HIDE DEF row, value, event
  <2>3. /\ DOMAIN seen' = Client /\ (\A d \in Client \ {c} : seen'[d] = seen[d])
        /\ DOMAIN seen'[c] = DOMAIN seen[c] \cup {Device} /\ seen'[c][Device] = value
        /\ \A y \in DOMAIN seen[c] \ {Device} : seen'[c][y] = seen[c][y]
    BY <1>4, Told
  <2>4. /\ DOMAIN request' = Client /\ request'[c] = Idle
        /\ \A d \in Client \ {c} : request'[d] = request[d]
        /\ \A d \in Client : Pending(d)'
        /\ \A d \in Client \ {c} : Shown(d)'
        /\ ScenarioOK'
    BY <1>1, <1>4, <2>3, EndedPending
  <2>5. edits' \in Seq([before : Content \cup {None}, after : Content])
        /\ Len(edits') \in Nat /\ Len(edits') <= Len(edits) + 1
    <3> DEFINE S == [before : Content \cup {None}, after : Content]
    <3>1. edits \in Seq(S) /\ event \in S
      BY <2>2 DEF Edits, EditsOK, MetadataOK
    <3> HIDE DEF S
    <3>2. Append(edits, event) \in Seq(S) /\ Len(Append(edits, event)) = Len(edits) + 1
          /\ Len(edits) \in Nat
      BY <3>1
    <3>3. edits' = edits \/ edits' = Append(edits, event)
      BY <1>4
    <3>4. edits' \in Seq(S) /\ Len(edits') \in Nat /\ Len(edits') <= Len(edits) + 1
      BY <3>1, <3>2, <3>3
    <3> QED
      BY <3>4 DEF S
  <2>6. ViewsOK' /\ MetadataOK'
    <3>1. ViewsOK'
      BY <1>1, <1>4 DEF Ends, Edits, EditsOK, ViewsOK
    <3>2. racedMetadata' \in BOOLEAN
      BY <1>4 DEF Edits, EditsOK, MetadataOK
    <3> QED
      BY <1>4, <2>1, <2>5, <3>1, <3>2 DEF MetadataOK
  <2>7. Shown(c)'
    <3>1. DOMAIN seen'[c] \subseteq used' \cup {Device}
      BY <1>4, <2>3 DEF Edits, EditsOK, Shown
    <3>2. \A y \in DOMAIN seen'[c] : seen'[c][y] \in IF y = Device THEN Metadata ELSE Row
      BY <2>1, <2>3 DEF Edits, EditsOK, Shown
    <3> QED
      BY <3>1, <3>2 DEF Shown
  <2>8. EditsOK'
    BY <2>3, <2>4, <2>6, <2>7 DEF EditsOK
  <2>9. Idle.op # "update" /\ Idle.op # "metadata"
    BY DEF Idle
  <2>10. Device \notin View
    BY EditsAssumption
  <2>11. ViewsAreRevised'
    <3>1. ASSUME NEW w \in DOMAIN view \ raced, NEW d \in Client
          PROVE  /\ w \in DOMAIN seen'[d] => Older(seen'[d][w], view[w])
                 /\ request'[d].op = "update" /\ request'[d].view = w
                       => Older(request'[d].loaded, view[w])
      <4>1. w # Device
        BY <2>10, <3>1 DEF Edits, EditsOK, ViewsOK
      <4>2. w \in DOMAIN seen'[d] => w \in DOMAIN seen[d] /\ seen'[d][w] = seen[d][w]
        BY <2>3, <4>1
      <4> QED
        BY <2>4, <2>9, <4>2 DEF Edits, ViewsAreRevised
    <3> QED
      BY <1>4, <3>1 DEF ViewsAreRevised, Older
  <2>12. ASSUME ~racedMetadata'
         PROVE  ~racedMetadata /\ loaded = metadata /\ row = value
                /\ row.revision = metadata.revision + 1 /\ metadata.revision \in Nat
    <3>1. ~racedMetadata /\ metadata.revision = loaded.revision
      BY <1>4, <2>12
    <3>2. Older(loaded, metadata)
      BY <1>1, <3>1 DEF Edits, MetadataIsRevised
    <3>3. loaded = metadata
      BY <3>1, <3>2 DEF Older
    <3> QED
      BY <1>2, <2>1, <3>1, <3>3 DEF Metadata
  <2>13. ASSUME ~racedMetadata', NEW d \in Client
         PROVE  /\ Device \in DOMAIN seen'[d] => Older(seen'[d][Device], row)
                /\ request'[d].op = "metadata" => Older(request'[d].loaded, row)
    <3>1. CASE d = c
      <4>1. Older(value, value)
        BY <2>1, SameIsOlder DEF Metadata
      <4> QED
        BY <2>3, <2>4, <2>9, <2>12, <2>13, <3>1, <4>1
    <3>2. ASSUME d # c, Device \in DOMAIN seen[d] PROVE Older(seen[d][Device], row)
      <4>1. seen[d][Device].revision \in Nat
        BY <3>2 DEF Edits, EditsOK, Shown, Metadata
      <4>2. Older(seen[d][Device], metadata)
        BY <2>12, <2>13, <3>2 DEF Edits, MetadataIsRevised
      <4> QED
        BY <2>12, <2>13, <4>1, <4>2, NewerRow
    <3>3. ASSUME d # c, request[d].op = "metadata" PROVE Older(request[d].loaded, row)
      <4>1. request[d].loaded.revision \in Nat
        BY <3>3 DEF Edits, EditsOK, Pending, Metadata
      <4>2. Older(request[d].loaded, metadata)
        BY <2>12, <2>13, <3>3 DEF Edits, MetadataIsRevised
      <4> QED
        BY <2>12, <2>13, <4>1, <4>2, NewerRow
    <3> QED
      BY <2>3, <2>4, <3>1, <3>2, <3>3
  <2>14. ASSUME ~racedMetadata'
         PROVE  MetadataHistoryIsAChain' /\ (edits' = <<>> => metadata'.content = None)
    <3>1. MetadataHistoryIsAChain /\ (edits = <<>> => metadata.content = None)
      BY <2>12, <2>14 DEF Edits, MetadataIsRevised
    <3>2. CASE x = loaded.content
      <4>1. edits' = edits /\ metadata'.content = metadata.content
        BY <1>4, <2>2, <2>12, <2>14, <3>2
      <4> QED
        BY <2>12, <2>14, <3>1, <4>1 DEF MetadataHistoryIsAChain
    <3>3. CASE x # loaded.content
      <4>1. /\ edits \in Seq([before : Content \cup {None}, after : Content])
            /\ edits' = Append(edits, event) /\ metadata'.content = event.after
            /\ event.before = metadata.content
        BY <1>4, <2>2, <2>12, <2>14, <3>3 DEF Edits, EditsOK, MetadataOK
      <4> QED
        BY <2>2, <2>12, <2>14, <3>1, <4>1, ChainGrows
    <3> QED
      BY <3>2, <3>3
  <2>15. MetadataIsRevised' /\ MetadataHistoryIsAChain'
    <3>1. MetadataIsRevised'
      BY <1>4, <2>13, <2>14 DEF MetadataIsRevised, Older
    <3>2. MetadataHistoryIsAChain'
      <4>1. racedMetadata' => MetadataHistoryIsAChain'
        BY DEF MetadataHistoryIsAChain
      <4> QED
        BY <2>14, <4>1
    <3> QED
      BY <3>1, <3>2
  <2>16. CountsOK'
    <3>1. \A u \in User : /\ Cardinality(OwnedBy(u)') \in Nat
                          /\ Cardinality(OwnedBy(u)') <= Cardinality(OwnedBy(u))
      BY <1>4, <2>6, OwnedLess DEF Edits
    <3> QED
      BY <1>1, <1>4, <2>5, <3>1, EndedCounts
  <2> QED
    BY <2>8, <2>11, <2>15, <2>16 DEF Edits
<1> QED
  BY <1>3, <1>4 DEF WriteMetadata, Event
\* Who reads is shown what is stored.
LEMMA ReadSafely ==
    ASSUME Edits, NEW c \in Client, NEW x, NEW row, Tell(c, x, row), request[c] = Idle,
           UNCHANGED <<scenario, requests, user, request, edited>>,
           (x \in DOMAIN view /\ row = view[x]) \/ (x = Device /\ row = metadata)
    PROVE  Edits'
<1>1. /\ DOMAIN seen' = Client /\ (\A d \in Client \ {c} : seen'[d] = seen[d])
      /\ DOMAIN seen'[c] = DOMAIN seen[c] \cup {x} /\ seen'[c][x] = row
      /\ \A y \in DOMAIN seen[c] \ {x} : seen'[c][y] = seen[c][y]
  BY Told
<1>2. UNCHANGED <<scenario, requests, user, request, view, used, default, metadata, edits, raced,
                  racedMetadata>>
  BY DEF edited
<1>3. /\ Device \notin View /\ used \subseteq View /\ DOMAIN view \subseteq used
      /\ metadata \in Metadata /\ \A v \in DOMAIN view : view[v] \in Row
  BY EditsAssumption DEF Edits, EditsOK, ViewsOK, MetadataOK
<1>4. Idle.op # "update" /\ Idle.op # "metadata"
  BY DEF Idle
<1>5. ASSUME NEW d \in Client PROVE Pending(d)' /\ Shown(d)'
  <2>1. CASE d # c
    <3>1. Pending(d) /\ Shown(d) /\ seen'[d] = seen[d]
      BY <1>1, <2>1 DEF Edits, EditsOK
    <3> QED
      BY <1>2, <3>1 DEF Pending, Shown, Creating, ShownAs
  <2>2. CASE d = c
    <3>1. Pending(c)'
      BY <1>2 DEF Pending, Creating, Idle
    <3>2. DOMAIN seen'[c] \subseteq used' \cup {Device}
      BY <1>1, <1>2, <1>3 DEF Edits, EditsOK, Shown
    <3>3. \A y \in DOMAIN seen'[c] : seen'[c][y] \in IF y = Device THEN Metadata ELSE Row
      BY <1>1, <1>3 DEF Edits, EditsOK, Shown
    <3> QED
      BY <2>2, <3>1, <3>2, <3>3 DEF Shown
  <2> QED
    BY <2>1, <2>2
<1>6. EditsOK'
  <2>1. ScenarioOK' /\ ViewsOK' /\ MetadataOK' /\ DOMAIN request' = Client
    BY <1>2 DEF Edits, EditsOK, ScenarioOK, ViewsOK, MetadataOK
  <2> QED
    BY <1>1, <1>5, <2>1 DEF EditsOK
<1>7. ViewsAreRevised'
  <2>1. ASSUME NEW w \in DOMAIN view \ raced, NEW d \in Client
        PROVE  /\ w \in DOMAIN seen'[d] => Older(seen'[d][w], view[w])
               /\ request[d].op = "update" /\ request[d].view = w
                     => Older(request[d].loaded, view[w])
    <3>1. Older(view[w], view[w])
      <4>1. view[w].revision \in Nat
        BY <1>3, <2>1 DEF Row
      <4> QED
        BY <4>1, SameIsOlder
    <3>2. w # Device
      BY <1>3, <2>1
    <3>3. w \in DOMAIN seen'[d] => seen'[d][w] = view[w]
                                   \/ (w \in DOMAIN seen[d] /\ seen'[d][w] = seen[d][w])
      BY <1>1, <3>2
    <3> QED
      BY <2>1, <3>1, <3>3 DEF Edits, ViewsAreRevised
  <2> QED
    BY <1>2, <2>1 DEF ViewsAreRevised, Older
<1>8. MetadataIsRevised'
  <2>1. ASSUME ~racedMetadata, NEW d \in Client
        PROVE  /\ Device \in DOMAIN seen'[d] => Older(seen'[d][Device], metadata)
               /\ request[d].op = "metadata" => Older(request[d].loaded, metadata)
    <3>1. Older(metadata, metadata)
      <4>1. metadata.revision \in Nat
        BY <1>3 DEF Metadata
      <4> QED
        BY <4>1, SameIsOlder
    <3>2. Device \in DOMAIN seen'[d] => seen'[d][Device] = metadata
             \/ (Device \in DOMAIN seen[d] /\ seen'[d][Device] = seen[d][Device])
      BY <1>1, <1>3
    <3> QED
      BY <2>1, <3>1, <3>2 DEF Edits, MetadataIsRevised
  <2>2. ~racedMetadata => (edits = <<>> => metadata.content = None)
    BY DEF Edits, MetadataIsRevised
  <2> QED
    BY <1>2, <2>1, <2>2 DEF MetadataIsRevised, Older
<1>9. MetadataHistoryIsAChain' /\ CountsOK'
  BY <1>2 DEF Edits, MetadataHistoryIsAChain, CountsOK, Asking, Of, OwnedBy
<1> QED
  BY <1>6, <1>7, <1>8, <1>9 DEF Edits

\* A step of the shared edits.
LEMMA EditKeepsEdits == ASSUME Edits, NEW c \in Client, EditStep(c) PROVE Edits'
<1>1. ASSUME ReadView(c) PROVE Edits'
  <2>1. PICK v \in DOMAIN view : Tell(c, v, view[v])
    BY <1>1 DEF ReadView
  <2> QED
    BY <1>1, <2>1, ReadSafely DEF ReadView
<1>2. ASSUME CreateView(c) PROVE Edits'
  <2>1. PICK p \in Payload : Passed(c, [op |-> "create", row |-> p])
    BY <1>2 DEF CreateView
  <2>2. Checked(c, [op |-> "create", row |-> p])
    BY <1>2 DEF CreateView, Checked, Makers
  <2> QED
    BY <2>1, <2>2, PassedSafely
<1>3. ASSUME CloneView(c) PROVE Edits'
  <2>1. PICK v \in DOMAIN view, name \in Name, shared \in BOOLEAN :
           Passed(c, [op |-> "clone", row |-> [name |-> name, shared |-> shared,
                                              content |-> view[v].content]])
    BY <1>3 DEF CloneView
  <2> DEFINE p == [name |-> name, shared |-> shared, content |-> view[v].content]
  <2>2. view[v].content \in Content
    BY DEF Edits, EditsOK, ViewsOK, Row
  <2>3. p \in Payload
    BY <2>2 DEF Payload
  <2>4. Checked(c, [op |-> "clone", row |-> p])
    BY <1>3, <2>3 DEF CloneView, Checked, Makers
  <2> QED
    BY <2>1, <2>4, PassedSafely
<1>4. ASSUME UpdateView(c) PROVE Edits'
  <2>1. PICK v \in DOMAIN seen[c] \cap View, p \in Payload :
           /\ MayEdit(user[c], v) /\ view[v].revision = seen[c][v].revision
           /\ Passed(c, [op |-> "update", view |-> v, loaded |-> view[v], row |-> p])
    BY <1>4 DEF UpdateView
  <2>2. Checked(c, [op |-> "update", view |-> v, loaded |-> view[v], row |-> p])
    BY <2>1 DEF Checked, Makers, MayEdit, ShownAs
  <2> QED
    BY <2>1, <2>2, PassedSafely
<1>5. ASSUME RemoveView(c) PROVE Edits'
  <2>1. PICK v \in DOMAIN view : Passed(c, [op |-> "delete", view |-> v])
    BY <1>5 DEF RemoveView
  <2>2. Checked(c, [op |-> "delete", view |-> v])
    BY DEF Checked, Makers
  <2> QED
    BY <2>1, <2>2, PassedSafely
<1>6. ASSUME SetDefault(c) PROVE Edits'
  <2>1. PICK v \in DOMAIN view \cup {None} :
           Passed(c, [op |-> "default", view |-> v, loaded |-> default[user[c]]])
    BY <1>6 DEF SetDefault
  <2>2. Checked(c, [op |-> "default", view |-> v, loaded |-> default[user[c]]])
    BY DEF Checked, Makers
  <2> QED
    BY <2>1, <2>2, PassedSafely
<1>7. ASSUME ReadMetadata(c) PROVE Edits'
  BY <1>7, ReadSafely DEF ReadMetadata
<1>8. ASSUME UpdateMetadata(c) PROVE Edits'
  <2>1. PICK x \in Content, checked \in BOOLEAN :
           /\ checked => Device \in DOMAIN seen[c] /\ seen[c][Device].revision = metadata.revision
           /\ Passed(c, [op |-> "metadata", loaded |-> metadata, content |-> x,
                         checked |-> checked])
    BY <1>8 DEF UpdateMetadata
  <2>2. Checked(c, [op |-> "metadata", loaded |-> metadata, content |-> x, checked |-> checked])
    BY <2>1 DEF Checked, Makers, ShownAs
  <2> QED
    BY <2>1, <2>2, PassedSafely
<1> QED
  BY <1>1, <1>2, <1>3, <1>4, <1>5, <1>6, <1>7, <1>8, InsertSafely, WriteViewSafely, DeleteSafely,
     WriteDefaultSafely, WriteMetadataSafely
  DEF EditStep
\* A request about runs or schedules edits nothing, when it passes and when it
\* ends.
LEMMA ReportRequestKeepsEdits == ASSUME Edits, NEW c \in Client, AdminStep(c) PROVE Edits'
<1>1. ASSUME NEW p, Requested(c, p), p.op \notin Makers \cup {"update", "metadata"} PROVE Edits'
  <2>1. Checked(c, p)
    BY <1>1 DEF Checked
  <2> QED
    BY <1>1, <2>1, PassedSafely DEF Requested
<1>2. ASSUME NEW op, Ends(c, op), Refuse PROVE Edits'
  <2>1. default' \in [User -> View \cup {None}]
    BY <1>2 DEF Refuse, edited, Edits, EditsOK, ViewsOK
  <2> QED
    BY <1>2, <2>1, EndedSafely DEF Refuse, edited
<1>3. CASE generate_network_report(c) \/ retry_report(c) \/ run_report_schedule(c)
  <2>1. PICK row, op : Requested(c, [op |-> op, run |-> row]) /\ op \in {"generate", "retry", "run"}
    BY <1>3 DEF generate_network_report, retry_report, run_report_schedule
  <2> QED
    BY <1>1, <2>1 DEF Makers
<1>4. CASE create_report_schedule(c)
  <2>1. PICK row : Requested(c, [op |-> "schedule", row |-> row])
    BY <1>4 DEF create_report_schedule
  <2> QED
    BY <1>1, <2>1 DEF Makers
<1>5. CASE update_report_schedule(c)
  <2>1. PICK s, loaded, row :
           Requested(c, [op |-> "reschedule", id |-> s, loaded |-> loaded, row |-> row])
    BY <1>5 DEF update_report_schedule
  <2> QED
    BY <1>1, <2>1 DEF Makers
<1>6. CASE delete_report_schedule(c)
  <2>1. PICK s : Requested(c, [op |-> "unschedule", id |-> s])
    BY <1>6 DEF delete_report_schedule
  <2> QED
    BY <1>1, <2>1 DEF Makers
<1>7. CASE InsertRun(c) \/ InsertSchedule(c) \/ WriteSchedule(c) \/ DropSchedule(c)
  BY <1>2, <1>7 DEF InsertRun, InsertSchedule, WriteSchedule, DropSchedule
<1> QED
  BY <1>3, <1>4, <1>5, <1>6, <1>7 DEF AdminStep

\* A step of the system.
LEMMA StepKeepsEdits == ASSUME Edits, [Next]_vars PROVE Edits'
<1>1. CASE UNCHANGED editVars
  BY <1>1, EditsAlone
<1>2. ASSUME NEW c \in Client, EditView(c) \/ AdminStep(c) PROVE Edits'
  BY <1>2, EditKeepsEdits, ReportRequestKeepsEdits DEF EditView
<1>3. CycleStep \/ TaskStep \/ (\E t \in DOMAIN task : GetFails(t))
      \/ (\E b \in Backend : Crash(b)) \/ Clean \/ Tick => UNCHANGED editVars
  BY DEF CycleStep, TaskStep, GetFails, Crash, Clean, Tick, Begin, Enqueue, Pick, End, Start, Skip,
         Store, GiveUp, TaskEnds
<1> QED
  BY <1>1, <1>2, <1>3 DEF Next, vars

\* An update of c ends by its own write.
LEMMA WhoWrites ==
    ASSUME Edits, NEW c \in Client, request[c] # Idle, request'[c] = Idle, [Next]_vars
    PROVE  /\ request[c].op = "update" => WriteView(c)
           /\ request[c].op = "metadata" => WriteMetadata(c)
<1>1. DOMAIN request = Client
  BY DEF Edits, EditsOK
<1>2. PICK d \in Client : EditView(d) \/ AdminStep(d)
  <2>1. ~UNCHANGED editVars
    BY DEF editVars
  <2>2. CycleStep \/ TaskStep \/ (\E t \in DOMAIN task : GetFails(t))
        \/ (\E b \in Backend : Crash(b)) \/ Clean \/ Tick => UNCHANGED editVars
    BY DEF CycleStep, TaskStep, GetFails, Crash, Clean, Tick, Begin, Enqueue, Pick, End, Start, Skip,
           Store, GiveUp, TaskEnds
  <2> QED
    BY <2>1, <2>2 DEF Next, vars
<1>3. \A p : Passed(d, p) => request'[d] = p /\ request[d] = Idle
                            /\ \A e \in Client \ {d} : request'[e] = request[e]
  BY <1>1 DEF Passed
<1>4. \A op : Ends(d, op) => request[d].op = op /\ \A e \in Client \ {d} : request'[e] = request[e]
  BY <1>1 DEF Ends
<1>5. CASE EditStep(d)
  <2>1. d = c
    BY <1>3, <1>4, <1>5
    DEF EditStep, ReadView, CreateView, CloneView, InsertView, UpdateView, WriteView, RemoveView,
        DeleteView, SetDefault, WriteDefault, ReadMetadata, UpdateMetadata, WriteMetadata
  <2>2. \A p : ~Passed(c, p)
    BY DEF Passed
  <2>3. /\ ~ReadView(c) /\ ~CreateView(c) /\ ~CloneView(c) /\ ~UpdateView(c) /\ ~RemoveView(c)
        /\ ~SetDefault(c) /\ ~ReadMetadata(c) /\ ~UpdateMetadata(c)
    BY <2>2 DEF ReadView, CreateView, CloneView, UpdateView, RemoveView, SetDefault, ReadMetadata,
                UpdateMetadata
  <2>4. /\ InsertView(c) => request[c].op \in {"create", "clone"}
        /\ DeleteView(c) => request[c].op = "delete"
        /\ WriteDefault(c) => request[c].op = "default"
        /\ WriteView(c) => request[c].op = "update"
        /\ WriteMetadata(c) => request[c].op = "metadata"
    BY DEF InsertView, DeleteView, WriteDefault, WriteView, WriteMetadata, Creating, Ends
  <2> QED
    BY <1>5, <2>1, <2>3, <2>4 DEF EditStep
<1>6. CASE AdminStep(d)
  <2>1. d = c
    BY <1>3, <1>4, <1>6
    DEF AdminStep, generate_network_report, retry_report, run_report_schedule, InsertRun,
        create_report_schedule, InsertSchedule, update_report_schedule, WriteSchedule,
        delete_report_schedule, DropSchedule, Requested
  <2>2. \A p : ~Requested(c, p)
    BY DEF Requested, Passed
  <2>3. /\ ~generate_network_report(c) /\ ~retry_report(c) /\ ~run_report_schedule(c)
        /\ ~create_report_schedule(c) /\ ~update_report_schedule(c) /\ ~delete_report_schedule(c)
    BY <2>2 DEF generate_network_report, retry_report, run_report_schedule,
                create_report_schedule, update_report_schedule, delete_report_schedule
  <2>4. /\ InsertRun(c) => request[c].op \in {"generate", "retry", "run"}
        /\ InsertSchedule(c) => request[c].op = "schedule"
        /\ WriteSchedule(c) => request[c].op = "reschedule"
        /\ DropSchedule(c) => request[c].op = "unschedule"
    BY DEF InsertRun, InsertSchedule, WriteSchedule, DropSchedule, Inserting, Ends
  <2> QED
    BY <1>6, <2>1, <2>3, <2>4 DEF AdminStep
<1> QED
  BY <1>2, <1>5, <1>6 DEF EditView
-----------------------------------------------------------------------------
(* The theorems.                                                            *)

\* The invariant holds at first.
LEMMA InitIsSafe == Init => IInv
<1> SUFFICES ASSUME Init PROVE IInv
  OBVIOUS
<1>1. RunsOK
  BY DEF Init, RunsOK
<1>2. RequestsOK
  BY DEF Init, EditsInit, RequestsOK, Inserting, Idle
<1>3. CyclesOK
  BY DEF Init, CyclesOK, Resting
<1>4. TasksOK
  BY DEF Init, TasksOK
<1>5. PlansOK
  BY FS_EmptySet DEF Init, PlansOK
<1>6. OccurrencesAreComplete
  BY DEF Init, OccurrencesAreComplete
<1> QED
  BY <1>1, <1>2, <1>3, <1>4, <1>5, <1>6 DEF IInv

\* Every step keeps it, and what has ended.
LEMMA StepIsSafe == ASSUME IInv, [Next]_vars PROVE Safely
<1>1. CASE UNCHANGED vars
  BY <1>1, Alone DEF vars, editVars, reportVars, Safely, IInv
<1>2. ASSUME NEW c \in Client, EditView(c) \/ AdminStep(c) PROVE Safely
  BY <1>2, EditSafely, AdminSafely
<1>3. CASE CycleStep
  BY <1>3, BeginSafely, EnqueueSafely, PickSafely, EndSafely DEF CycleStep
<1>4. CASE TaskStep
  BY <1>4, StartSafely, SkipSafely, StoreSafely, GiveUpSafely DEF TaskStep
<1>5. CASE \E t \in DOMAIN task : GetFails(t)
  BY <1>5, GetFailsSafely
<1>6. CASE \E b \in Backend : Crash(b)
  BY <1>6, CrashSafely
<1> QED
  BY <1>1, <1>2, <1>3, <1>4, <1>5, <1>6, CleanSafely, TickSafely DEF Next

\* The inductive invariant.
LEMMA Safe == Spec => []IInv
<1>1. IInv /\ [Next]_vars => IInv'
  BY StepIsSafe DEF Safely
<1> QED
  BY <1>1, InitIsSafe, PTL DEF Spec

(* Whatever requests, cycles, failed reads, crashes and cleanups            *)
(* interleave, a run that is worked on is running and has one worker,       *)
(* unless a failed read orphaned a generation; and every occurrence of a    *)
(* schedule is enqueued once and in order, unless a cycle and a request     *)
(* overlapped over it.                                                      *)
THEOREM RunsAreSound == Spec => []RunsInv
<1>1. IInv => RunsInv
  <2> SUFFICES ASSUME IInv PROVE RunsInv
    OBVIOUS
  <2>1. WorkedIsRunning
    <3>1. ~orphaned => \A t \in DOMAIN task : task[t] = "work" =>
             t[2] \in DOMAIN run /\ run[t[2]].status = "running"
      BY DEF IInv, TasksOK
    <3> QED
      BY <3>1, OneTaskOfARun DEF WorkedIsRunning
  <2> QED
    BY <2>1 DEF RunsInv, IInv
<1> QED
  BY <1>1, Safe, PTL

(* A run that is completed or failed stays as it is, whatever had loaded it *)
(* before: a retry is another run, and a cycle, a generation or a request   *)
(* that began earlier never writes it, unless a generation was orphaned.    *)
THEOREM EndedIsForGood == Spec => FinishedIsImmutable
<1>1. ASSUME IInv, [Next]_vars PROVE EndedStay
  BY <1>1, StepIsSafe DEF Safely
<1>2. IInv /\ [Next]_vars => [EndedStay]_vars
  BY <1>1
<1>3. Spec => [][EndedStay]_vars
  BY <1>2, Safe, PTL DEF Spec
<1> QED
  BY <1>3, PTL DEF FinishedIsImmutable, EndedStay

\* The edits at first.
LEMMA InitEdits == Init => Edits
<1> SUFFICES ASSUME Init PROVE Edits
  OBVIOUS
<1>1. /\ scenario \in Scenarios /\ requests = 0 /\ user = scenario.user
      /\ request = [c \in Client |-> Idle] /\ seen = [c \in Client |-> <<>>]
      /\ view = scenario.start /\ used = DOMAIN view /\ default = [u \in User |-> None]
      /\ metadata = [content |-> None, revision |-> 0] /\ edits = <<>>
      /\ raced = {} /\ racedMetadata = FALSE
  BY DEF Init, EditsInit
<1>2. /\ scenario.requests \in Nat /\ user \in [Client -> User] /\ DOMAIN view \subseteq View
      /\ \A v \in DOMAIN view : view[v] \in Row /\ view[v].revision = 1
      /\ \A u \in User : Cardinality({v \in DOMAIN view : view[v].owner = u}) <= Limit
  BY <1>1, EditsAssumption
<1>3. ScenarioOK /\ ViewsOK
  BY <1>1, <1>2 DEF ScenarioOK, ViewsOK
<1>4. MetadataOK
  <2> DEFINE S == [before : Content \cup {None}, after : Content]
  <2>1. edits \in Seq(S)
    <3> HIDE DEF S
    <3> QED
      BY <1>1
  <2> QED
    BY <1>1, <2>1 DEF MetadataOK, Metadata
<1>5. ASSUME NEW c \in Client PROVE Pending(c) /\ Shown(c)
  BY <1>1 DEF Pending, Shown, Creating, Idle
<1>6. EditsOK
  BY <1>1, <1>3, <1>4, <1>5 DEF EditsOK
<1>7. ViewsAreRevised /\ MetadataIsRevised /\ MetadataHistoryIsAChain
  BY <1>1 DEF ViewsAreRevised, MetadataIsRevised, MetadataHistoryIsAChain, Idle
<1>8. CountsOK
  <2>1. Asking(Makers) = {} /\ Asking({"metadata"}) = {}
    BY <1>1 DEF Asking, Makers, Idle
  <2>2. Cardinality({}) = 0 /\ Len(edits) = 0 /\ \A u : Of(u) \cap Asking(Makers) = {}
    BY <1>1, <2>1, FS_EmptySet
  <2>3. RoomIsLeft
    <3>1. Cardinality(View \ used) \in Nat
      BY <1>6, Numbers
    <3>2. Cardinality(Asking(Makers)) = 0
      BY <2>1, <2>2
    <3> QED
      BY <3>1, <3>2 DEF RoomIsLeft
  <2>4. \A u \in User : WithinLimit(u)
    BY <1>2, <2>2 DEF WithinLimit, OwnedBy
  <2>5. EventsAreCounted
    <3>1. Cardinality(Asking({"metadata"})) = 0
      BY <2>1, <2>2
    <3> QED
      BY <1>1, <2>2, <3>1 DEF EventsAreCounted
  <2> QED
    BY <2>3, <2>4, <2>5, CountParts
<1> QED
  BY <1>6, <1>7, <1>8 DEF Edits

\* The invariant of the edits.
LEMMA EditsHold == Spec => []Edits
BY InitEdits, StepKeepsEdits, PTL DEF Spec

(* Nobody replaces a row that he was not shown, for any number of clients,  *)
(* views and requests, unless two updates overlapped.                       *)
THEOREM NothingIsOverwrittenBlindly == Spec => NoBlindOverwrite
<1>1. ASSUME Edits, [Next]_vars, NEW c \in Client, request[c] # Idle, request'[c] = Idle
      PROVE  /\ request[c].op = "update" =>
                  LET v == request[c].view
                  IN v \in DOMAIN view \ raced' /\ view' # view => seen[c][v] = view[v]
             /\ request[c].op = "metadata" /\ request[c].checked =>
                  (~racedMetadata' /\ metadata' # metadata => seen[c][Device] = metadata)
  <2>1. ASSUME request[c].op = "update", NEW v, v = request[c].view, v \in DOMAIN view,
               v \notin raced', view' # view
        PROVE  seen[c][v] = view[v]
    <3>1. WriteView(c) /\ ~Refuse
      BY <1>1, <2>1, WhoWrites DEF Refuse, edited
    <3>2. raced' = IF view[v].revision = request[c].loaded.revision THEN raced
                   ELSE raced \cup {v}
      BY <2>1, <3>1 DEF WriteView
    <3>3. v \notin raced /\ view[v].revision = request[c].loaded.revision
      BY <2>1, <3>2
    <3>4. v \in DOMAIN seen[c] /\ seen[c][v].revision = request[c].loaded.revision
      BY <1>1, <2>1 DEF Edits, EditsOK, Pending, ShownAs
    <3>5. Older(seen[c][v], view[v])
      BY <1>1, <2>1, <3>3, <3>4 DEF Edits, ViewsAreRevised
    <3> QED
      BY <3>3, <3>4, <3>5 DEF Older
  <2>2. ASSUME request[c].op = "metadata", request[c].checked, ~racedMetadata',
               metadata' # metadata
        PROVE  seen[c][Device] = metadata
    <3>1. WriteMetadata(c) /\ ~Refuse
      BY <1>1, <2>2, WhoWrites DEF Refuse, edited
    <3>2. ~racedMetadata /\ metadata.revision = request[c].loaded.revision
      BY <2>2, <3>1 DEF WriteMetadata
    <3>3. Device \in DOMAIN seen[c] /\ seen[c][Device].revision = request[c].loaded.revision
      BY <1>1, <2>2 DEF Edits, EditsOK, Pending, ShownAs
    <3>4. Older(seen[c][Device], metadata)
      BY <1>1, <3>2, <3>3 DEF Edits, MetadataIsRevised
    <3> QED
      BY <3>2, <3>3, <3>4 DEF Older
  <2> QED
    BY <2>1, <2>2
<1>2. ASSUME Edits, [Next]_vars
      PROVE  [\A c \in Client : request[c] # Idle /\ request'[c] = Idle =>
                /\ request[c].op = "update" =>
                      LET v == request[c].view
                      IN v \in DOMAIN view \ raced' /\ view' # view => seen[c][v] = view[v]
                /\ request[c].op = "metadata" /\ request[c].checked =>
                      (~racedMetadata' /\ metadata' # metadata => seen[c][Device] = metadata)
             ]_editVars
  BY <1>1, <1>2
<1> QED
  BY <1>2, EditsHold, PTL DEF Spec, NoBlindOverwrite
-----------------------------------------------------------------------------
(* The rows of runs and schedules, and what runs cite.                      *)

(* A run has artifacts and a time of completion as its status says, and a   *)
(* run that a request or a cycle will insert is queued.                     *)
RunOK(x) ==
    /\ x \in Run
    /\ x.artifacts <=> x.status = "completed"
    /\ x.completed # None <=> x.status \in Final
Queueable(x) == RunOK(x) /\ x.status = "queued"

RunRowsOK == \A r \in DOMAIN run : RunOK(run[r]) /\ References(run[r])
PlanRowsOK ==
    /\ planned \subseteq Schedule /\ DOMAIN schedule \subseteq planned
    /\ \A s \in DOMAIN schedule :
          schedule[s] \in Plan /\ schedule[s].view \in DOMAIN view \cup {None}

(* What waits to be committed; there is an id left for a schedule.          *)
RequestsWait ==
    \A c \in Client :
       /\ Inserting(c) => Queueable(request[c].run)
       /\ request[c].op \in {"schedule", "reschedule"} => request[c].row \in Plan
       /\ request[c].op = "schedule" =>
             planned # Schedule /\ \A d \in Client \ {c} : request[d].op # "schedule"
CyclesWait ==
    \A b \in Backend : cycle[b].at = "enqueue" =>
       \A s \in DOMAIN cycle[b].runs :
          Queueable(cycle[b].runs[s]) /\ cycle[b].runs[s].period \in Nat

(* A run has one worker at most, orphaned or not, and while it has one it   *)
(* was not completed.                                                       *)
WorkersOK ==
    /\ \A t \in DOMAIN task : task[t] \in {"get", "work"} /\ t[2] \in 1 .. made
    /\ \A t \in DOMAIN task : task[t] = "work" =>
          /\ t[2] \in DOMAIN run => run[t[2]].status \in {"running", "failed"}
          /\ \A u \in DOMAIN task : task[u] = "work" /\ u[2] = t[2] => u = t

RestOK ==
    /\ now \in 0 .. scenario.horizon /\ faults \in 0 .. MaxFaults
    /\ lock \in Backend \cup {None}

(* What runs, stored or under way, cite of the views.  A view that no two   *)
(* overlapping updates were committed to had one content at each revision.  *)
InTable == {run[r] : r \in DOMAIN run}
Asked == {request[c].run : c \in {d \in Client : Inserting(d)}}
Due == UNION {{cycle[b].runs[s] : s \in DOMAIN cycle[b].runs} :
                 b \in {d \in Backend : cycle[d].at = "enqueue"}}
Citing == InTable \cup Asked \cup Due

CitesAgree(x, y) ==
    x.view = y.view /\ x.revision = y.revision => x.content = y.content
CitesView(x) ==
    /\ x.revision <= view[x.view].revision
    /\ x.revision = view[x.view].revision => x.content = view[x.view].content
CitationsOK ==
    /\ \A x \in Citing : x.revision \in Nat /\ x.view \in used \cup {None}
    /\ \A x \in Citing : x.view \in DOMAIN view \ raced =>
          CitesView(x) /\ \A y \in Citing : CitesAgree(x, y)

Reports ==
    /\ RunRowsOK /\ PlanRowsOK /\ RequestsWait /\ CyclesWait /\ WorkersOK /\ RestOK
    /\ CitationsOK
-----------------------------------------------------------------------------
(* Rows of runs and schedules.                                              *)

\* The columns of a run.
LEMMA RunParts ==
    ASSUME NEW x \in Run
    PROVE  /\ DOMAIN x = RunFields
           /\ x.view \in View \cup {None} /\ x.revision \in Nat /\ x.content \in Content
           /\ x.schedule \in Schedule \cup {None} /\ x.period \in Nat \cup {None}
           /\ x.retry_of \in Nat \cup {None}
           /\ x.status \in Final \cup {"queued", "running"} /\ x.artifacts \in BOOLEAN
           /\ x.started \in Nat \cup {None} /\ x.completed \in Nat \cup {None}
BY DEF Run, RunFields

\* None is no time, no view and no schedule.
LEMMA NoneIsNone == None \notin Nat /\ None \notin View /\ None \notin Schedule
BY EditsAssumption, ReportsAssumption

\* What a generation writes of a run when it starts, and when it stores its work.
Begun(x) == [[x EXCEPT !.status = "running"] EXCEPT !.started = now]
Done(x) == [x EXCEPT !.status = "completed", !.artifacts = TRUE, !.completed = now]

\* A run that is being generated.
LEMMA StartedRun ==
    ASSUME NEW x, Queueable(x), now \in Nat
    PROVE  RunOK(Begun(x))
<1> DEFINE y == Begun(x)
<1> USE DEF Begun
<1>1. x \in Run /\ x.status = "queued" /\ x.completed = None /\ ~x.artifacts
  BY NoneIsNone DEF Queueable, RunOK, Final
<1>2. y \in Run
  BY <1>1 DEF Run
<1>3. y.status = "running" /\ y.completed = None /\ y.artifacts = x.artifacts
  BY <1>1, RunParts DEF RunFields
<1> QED
  BY <1>1, <1>2, <1>3 DEF RunOK, Final

\* A run that is stored has its artifacts.
LEMMA StoredRun ==
    ASSUME NEW x, RunOK(x), now \in Nat
    PROVE  RunOK(Done(x))
<1> DEFINE y == Done(x)
<1> USE DEF Done
<1>1. x \in Run
  BY DEF RunOK
<1>2. y \in Run
  BY <1>1 DEF Run, Final
<1>3. y.status = "completed" /\ y.completed = now /\ y.artifacts = TRUE
  BY <1>1, RunParts DEF RunFields
<1> QED
  BY <1>2, <1>3, NoneIsNone DEF RunOK, Final

\* A run that fails without having been completed has none.
LEMMA FailedRun ==
    ASSUME NEW x, RunOK(x), x.status # "completed", now \in Nat
    PROVE  RunOK([x EXCEPT !.status = "failed", !.completed = now])
<1> DEFINE y == [x EXCEPT !.status = "failed", !.completed = now]
<1>1. x \in Run /\ ~x.artifacts
  BY DEF RunOK
<1>2. y \in Run
  BY <1>1 DEF Run, Final
<1>3. y.status = "failed" /\ y.completed = now /\ y.artifacts = x.artifacts
  BY <1>1, RunParts DEF RunFields
<1> QED
  BY <1>1, <1>2, <1>3, NoneIsNone DEF RunOK, Final

\* A new run of a view.
LEMMA NewRunOf ==
    ASSUME ViewsOK, NEW v \in DOMAIN view, NEW s \in Schedule \cup {None},
           NEW period \in Nat \cup {None}
    PROVE  /\ Queueable(NewRun(v, s, period, None))
           /\ NewRun(v, s, period, None).view = v /\ NewRun(v, s, period, None).schedule = s
           /\ NewRun(v, s, period, None).period = period
           /\ NewRun(v, s, period, None).revision = view[v].revision
           /\ NewRun(v, s, period, None).content = view[v].content
<1> DEFINE x == NewRun(v, s, period, None)
<1>1. v \in View /\ view[v].revision \in Nat /\ view[v].content \in Content
  BY DEF ViewsOK, Row
<1>2. x \in Run
  BY <1>1 DEF NewRun, Run
<1>3. /\ x.view = v /\ x.schedule = s /\ x.period = period /\ x.revision = view[v].revision
      /\ x.content = view[v].content /\ x.status = "queued" /\ x.artifacts = FALSE
      /\ x.completed = None
  BY DEF NewRun
<1> QED
  BY <1>2, <1>3 DEF Queueable, RunOK, Final

\* A retry of a failed run.
LEMMA RetryOf ==
    ASSUME NEW x, RunOK(x), x.status = "failed", NEW r \in Nat
    PROVE  LET y == [x EXCEPT !.period = None, !.retry_of = r, !.status = "queued",
                              !.started = None, !.completed = None]
           IN /\ Queueable(y)
              /\ y.view = x.view /\ y.revision = x.revision /\ y.content = x.content
<1> DEFINE y == [x EXCEPT !.period = None, !.retry_of = r, !.status = "queued",
                          !.started = None, !.completed = None]
<1>1. x \in Run /\ ~x.artifacts
  BY DEF RunOK
<1>2. y \in Run
  BY <1>1 DEF Run, Final
<1>3. /\ y.status = "queued" /\ y.completed = None /\ y.artifacts = x.artifacts
      /\ y.view = x.view /\ y.revision = x.revision /\ y.content = x.content
  BY <1>1, RunParts DEF RunFields
<1> QED
  BY <1>1, <1>2, <1>3 DEF Queueable, RunOK, Final
(* One run cites what another cites, or no view any more.                   *)
Cites(x, y) ==
    x.view \in {y.view, None} /\ x.revision = y.revision /\ x.content = y.content

\* Foreign keys that are emptied.
SetNull(x, views, schedules, ids) ==
    [x EXCEPT !.view = Kept(@, views), !.schedule = Kept(@, schedules),
              !.retry_of = Kept(@, ids)]

\* What is left of the row.
LEMMA KeptRun ==
    ASSUME NEW x, RunOK(x), NEW views, NEW schedules, NEW ids,
           NEW y, y = SetNull(x, views, schedules, ids)
    PROVE  /\ RunOK(y) /\ Cites(y, x) /\ y.status = x.status
           /\ y.view \in views \cup {None} /\ y.schedule \in schedules \cup {None}
           /\ y.retry_of \in ids \cup {None}
<1>1. x \in Run
  BY DEF RunOK
<1>2. /\ Kept(x.view, views) \in {x.view, None} /\ Kept(x.view, views) \in views \cup {None}
      /\ Kept(x.schedule, schedules) \in {x.schedule, None}
      /\ Kept(x.schedule, schedules) \in schedules \cup {None}
      /\ Kept(x.retry_of, ids) \in {x.retry_of, None} /\ Kept(x.retry_of, ids) \in ids \cup {None}
  BY DEF Kept
<1>3. y = [x EXCEPT !.view = Kept(x.view, views), !.schedule = Kept(x.schedule, schedules),
                    !.retry_of = Kept(x.retry_of, ids)]
  BY DEF SetNull
<1> HIDE DEF Kept
<1>4. y \in Run
  BY <1>1, <1>2, <1>3, RunParts DEF Run
<1>5. /\ y.view = Kept(x.view, views) /\ y.schedule = Kept(x.schedule, schedules)
      /\ y.retry_of = Kept(x.retry_of, ids) /\ y.status = x.status
      /\ y.artifacts = x.artifacts /\ y.completed = x.completed
      /\ y.revision = x.revision /\ y.content = x.content
  BY <1>1, <1>3, RunParts DEF RunFields
<1>6. RunOK(y)
  BY <1>4, <1>5 DEF RunOK
<1> QED
  BY <1>2, <1>5, <1>6 DEF Cites

\* The runs after a view, a schedule or a run is gone.
LEMMA ReferencesKept ==
    ASSUME NEW runs, \A r \in DOMAIN runs : RunOK(runs[r]), NEW views, NEW schedules,
           NEW after, after = RunsAfter(runs, views, schedules)
    PROVE  /\ DOMAIN after = DOMAIN runs
           /\ \A r \in DOMAIN runs :
                 /\ RunOK(after[r]) /\ Cites(after[r], runs[r]) /\ after[r].status = runs[r].status
                 /\ after[r].view \in views \cup {None}
                 /\ after[r].schedule \in schedules \cup {None}
                 /\ after[r].retry_of \in DOMAIN runs \cup {None}
<1>1. DOMAIN after = DOMAIN runs
      /\ \A r \in DOMAIN runs : after[r] = SetNull(runs[r], views, schedules, DOMAIN runs)
  BY DEF RunsAfter, SetNull
<1>2. ASSUME NEW r \in DOMAIN runs
      PROVE  /\ RunOK(after[r]) /\ Cites(after[r], runs[r]) /\ after[r].status = runs[r].status
             /\ after[r].view \in views \cup {None}
             /\ after[r].schedule \in schedules \cup {None}
             /\ after[r].retry_of \in DOMAIN runs \cup {None}
  <2>1. after[r] = SetNull(runs[r], views, schedules, DOMAIN runs)
    BY <1>1
  <2>2. RunOK(runs[r])
    OBVIOUS
  <2> QED
    BY <2>1, <2>2, KeptRun
<1> QED
  BY <1>1, <1>2
-----------------------------------------------------------------------------
(* Where the citations of a step come from.                                 *)

(* It cites the view as it is, or what was cited before, or none.           *)
Freshly(x) ==
    /\ view' = view /\ x.view \in DOMAIN view
    /\ x.revision = view[x.view].revision /\ x.content = view[x.view].content
From(x) ==
    x.revision \in Nat /\ (x.view = None \/ (\E y \in Citing : Cites(x, y)) \/ Freshly(x))

\* What is cited, before and after a step, one by one.
LEMMA AllCiting ==
    /\ \A r \in DOMAIN run : run[r] \in Citing
    /\ \A c \in Client : Inserting(c) => request[c].run \in Citing
    /\ \A b \in Backend : cycle[b].at = "enqueue" =>
          \A s \in DOMAIN cycle[b].runs : cycle[b].runs[s] \in Citing
BY DEF Citing, InTable, Asked, Due

\* The three places where a step may cite a view.
RunsFrom == \A r \in DOMAIN run' : From(run'[r])
AsksFrom == \A c \in Client :
               request'[c].op \in {"generate", "retry", "run"} => From(request'[c].run)
DueFrom == \A b \in Backend : cycle'[b].at = "enqueue" =>
              \A s \in DOMAIN cycle'[b].runs : From(cycle'[b].runs[s])

\* They are all there are.
LEMMA CitingFrom == ASSUME RunsFrom, AsksFrom, DueFrom PROVE \A x \in Citing' : From(x)
<1>1. \A x \in InTable' : From(x)
  BY DEF InTable, RunsFrom
<1>2. \A x \in Asked' : From(x)
  BY DEF Asked, AsksFrom, Inserting
<1>3. \A x \in Due' : From(x)
  BY DEF Due, DueFrom
<1> QED
  BY <1>1, <1>2, <1>3 DEF Citing

(* A step replaces a row of a view by one with a later revision, if it      *)
(* replaces it at all, and gives no id twice; unless updates overlapped.    *)
ViewsAdvance ==
    /\ raced \subseteq raced' /\ used \subseteq used' /\ DOMAIN view' \subseteq View
    /\ \A v \in DOMAIN view' \ raced' :
          \/ v \notin used
          \/ v \in DOMAIN view /\ view'[v] = view[v]
          \/ v \in DOMAIN view /\ view'[v].revision \in Nat /\ view'[v].revision > view[v].revision
    /\ used \subseteq View /\ DOMAIN view \subseteq used
    /\ \A v \in DOMAIN view : view[v].revision \in Nat

\* Then what is cited is cited rightly.
LEMMA CitationsFrom ==
    ASSUME CitationsOK, ViewsAdvance, \A x \in Citing' : From(x)
    PROVE  CitationsOK'
<1>1. ASSUME NEW x \in Citing' PROVE x.revision \in Nat /\ x.view \in used' \cup {None}
  <2>1. From(x)
    OBVIOUS
  <2>2. \A y \in Citing : y.view \in used \cup {None}
    BY DEF CitationsOK
  <2> QED
    BY <2>1, <2>2 DEF From, Freshly, Cites, ViewsAdvance
<1>2. ASSUME NEW x \in Citing', x.view \in DOMAIN view' \ raced'
      PROVE  /\ x.view \in DOMAIN view \ raced /\ CitesView(x)
             /\ ~Freshly(x) => \E y \in Citing : Cites(x, y) /\ y.view = x.view
  <2>1. x.view # None
    BY <1>2, NoneIsNone DEF ViewsAdvance
  <2>2. CASE Freshly(x)
    <3>1. x.view \in DOMAIN view \ raced
      BY <1>2, <2>2 DEF Freshly, ViewsAdvance
    <3>2. CitesView(x)
      BY <2>2, <3>1 DEF Freshly, CitesView, ViewsAdvance
    <3> QED
      BY <2>2, <3>1, <3>2
  <2>3. ASSUME NEW y \in Citing, Cites(x, y)
        PROVE  x.view \in DOMAIN view \ raced /\ CitesView(x) /\ y.view = x.view
    <3>1. y.view = x.view
      BY <2>1, <2>3 DEF Cites
    <3>2. x.view \in used
      BY <2>1, <3>1 DEF CitationsOK
    <3>3. x.view \in DOMAIN view \ raced
      BY <1>2, <3>2 DEF ViewsAdvance
    <3>4. CitesView(y)
      BY <3>1, <3>3 DEF CitationsOK
    <3>5. CitesView(x)
      BY <2>3, <3>1, <3>4 DEF CitesView, Cites
    <3> QED
      BY <3>1, <3>3, <3>5
  <2> QED
    BY <2>1, <2>2, <2>3 DEF From
<1>3. ASSUME NEW x \in Citing', x.view \in DOMAIN view' \ raced' PROVE CitesView(x)'
  <2> DEFINE v == x.view
  <2>1. v \in DOMAIN view \ raced /\ CitesView(x) /\ x.revision \in Nat /\ v \in used
    BY <1>1, <1>2, <1>3 DEF ViewsAdvance
  <2>2. x.revision <= view[v].revision /\ (x.revision = view[v].revision => x.content = view[v].content)
        /\ view[v].revision \in Nat
    BY <2>1 DEF CitesView, ViewsAdvance
  <2>3. CASE view'[v] = view[v]
    BY <2>2, <2>3 DEF CitesView
  <2>4. CASE view'[v].revision \in Nat /\ view'[v].revision > view[v].revision
    <3>1. x.revision < view'[v].revision
      BY <2>1, <2>2, <2>4
    <3> QED
      BY <2>1, <2>4, <3>1 DEF CitesView
  <2> QED
    BY <1>3, <2>1, <2>3, <2>4 DEF ViewsAdvance
<1>4. ASSUME NEW x \in Citing', NEW y \in Citing', x.view \in DOMAIN view' \ raced'
      PROVE  CitesAgree(x, y)
  <2> SUFFICES ASSUME x.view = y.view, x.revision = y.revision PROVE x.content = y.content
    BY DEF CitesAgree
  <2>1. /\ x.view \in DOMAIN view \ raced /\ CitesView(x) /\ CitesView(y)
        /\ ~Freshly(x) => \E z \in Citing : Cites(x, z) /\ z.view = x.view
        /\ ~Freshly(y) => \E z \in Citing : Cites(y, z) /\ z.view = y.view
    BY <1>2, <1>4
  <2>2. CASE Freshly(x) \/ Freshly(y)
    BY <2>1, <2>2 DEF Freshly, CitesView
  <2>3. CASE ~Freshly(x) /\ ~Freshly(y)
    <3>1. PICK z \in Citing, w \in Citing :
             Cites(x, z) /\ z.view = x.view /\ Cites(y, w) /\ w.view = y.view
      BY <2>1, <2>3
    <3>2. CitesAgree(z, w)
      BY <2>1, <3>1 DEF CitationsOK
    <3> QED
      BY <3>1, <3>2 DEF CitesAgree, Cites
  <2> QED
    BY <2>2, <2>3
<1> QED
  BY <1>1, <1>3, <1>4 DEF CitationsOK, CitesAgree
(* The invariants together.                                                 *)
Whole == IInv /\ Edits /\ Reports

\* What was cited is.
LEMMA StillFrom ==
    ASSUME Whole
    PROVE  /\ \A x \in Citing : From(x)
           /\ \A x, y : y \in Citing /\ Cites(x, y) => From(x)
           /\ \A r \in DOMAIN run : From(run[r])
           /\ \A c \in Client : request[c].op \in {"generate", "retry", "run"} => From(request[c].run)
           /\ \A b \in Backend : cycle[b].at = "enqueue" =>
                 \A s \in DOMAIN cycle[b].runs : From(cycle[b].runs[s])
<1>1. \A x, y : y \in Citing /\ Cites(x, y) => From(x)
  BY DEF Whole, Reports, CitationsOK, From, Cites
<1>2. \A x \in Citing : From(x)
  BY <1>1 DEF Cites
<1>3. \A r \in DOMAIN run : From(run[r])
  BY <1>2, AllCiting
<1>4. \A c \in Client : request[c].op \in {"generate", "retry", "run"} => From(request[c].run)
  BY <1>2, AllCiting DEF Inserting
<1>5. \A b \in Backend : cycle[b].at = "enqueue" =>
         \A s \in DOMAIN cycle[b].runs : From(cycle[b].runs[s])
  BY <1>2, AllCiting
<1> QED
  BY <1>1, <1>2, <1>3, <1>4, <1>5

\* What is told of a step that leaves a part of the state alone.
LEMMA ReportsAlone ==
    ASSUME Whole
    PROVE  /\ UNCHANGED run => RunsFrom
           /\ UNCHANGED request => AsksFrom
           /\ UNCHANGED cycle => DueFrom /\ CyclesWait'
           /\ UNCHANGED <<run, view, schedule>> => RunRowsOK'
           /\ UNCHANGED <<planned, schedule, view>> => PlanRowsOK'
           /\ UNCHANGED <<request, planned>> => RequestsWait'
           /\ UNCHANGED <<task, made, run>> => WorkersOK'
           /\ UNCHANGED <<now, faults, lock, scenario>> => RestOK'
           /\ UNCHANGED <<view, used, raced>> => ViewsAdvance
<1>1. UNCHANGED run => RunsFrom
  BY StillFrom DEF RunsFrom
<1>2. UNCHANGED request => AsksFrom
  BY StillFrom DEF AsksFrom
<1>3. UNCHANGED cycle => DueFrom /\ CyclesWait'
  BY StillFrom DEF DueFrom, Whole, Reports, CyclesWait
<1>4. UNCHANGED <<run, view, schedule>> => RunRowsOK'
  BY DEF Whole, Reports, RunRowsOK, References
<1>5. UNCHANGED <<planned, schedule, view>> => PlanRowsOK'
  BY DEF Whole, Reports, PlanRowsOK
<1>6. UNCHANGED <<request, planned>> => RequestsWait'
  BY DEF Whole, Reports, RequestsWait, Inserting
<1>7. UNCHANGED <<task, made, run>> => WorkersOK'
  BY DEF Whole, Reports, WorkersOK
<1>8. UNCHANGED <<now, faults, lock, scenario>> => RestOK'
  BY DEF Whole, Reports, RestOK
<1>9. UNCHANGED <<view, used, raced>> => ViewsAdvance
  BY DEF Whole, Edits, EditsOK, ViewsOK, ViewsAdvance, Row
<1> QED
  BY <1>1, <1>2, <1>3, <1>4, <1>5, <1>6, <1>7, <1>8, <1>9

\* The citations of a step are those of its three places.
LEMMA Cited ==
    ASSUME Whole, RunsFrom, AsksFrom, DueFrom, ViewsAdvance
    PROVE  CitationsOK'
BY CitingFrom, CitationsFrom DEF Whole, Reports
-----------------------------------------------------------------------------
(* Requests.                                                                *)

\* A request that is none for a report, or that ends, waits for nothing.
LEMMA OtherAsks ==
    ASSUME Whole, NEW c \in Client, NEW p, request' = [request EXCEPT ![c] = p],
           p.op \notin ReportOps,
           planned' = planned \/ request[c].op = "schedule"
    PROVE  AsksFrom /\ RequestsWait'
<1>1. DOMAIN request = Client /\ request'[c] = p
      /\ \A d \in Client \ {c} : request'[d] = request[d]
  BY DEF Whole, Edits, EditsOK
<1>2. AsksFrom
  BY <1>1, StillFrom DEF AsksFrom, ReportOps
<1>3. ASSUME NEW d \in Client
      PROVE  /\ Inserting(d)' => Queueable(request'[d].run)
             /\ request'[d].op \in {"schedule", "reschedule"} => request'[d].row \in Plan
             /\ request'[d].op = "schedule" =>
                   planned' # Schedule /\ \A e \in Client \ {d} : request'[e].op # "schedule"
  <2>1. CASE d = c
    BY <1>1, <2>1 DEF ReportOps, Inserting
  <2>2. CASE d # c
    <3>1. request'[d] = request[d]
      BY <1>1, <2>2
    <3>2. /\ Inserting(d) => Queueable(request[d].run)
          /\ request[d].op \in {"schedule", "reschedule"} => request[d].row \in Plan
          /\ request[d].op = "schedule" =>
                planned # Schedule /\ \A e \in Client \ {d} : request[e].op # "schedule"
      BY DEF Whole, Reports, RequestsWait
    <3>3. request[d].op = "schedule" => planned' = planned
      BY <2>2, <3>2
    <3>4. request[d].op = "schedule" => \A e \in Client \ {d} : request'[e].op # "schedule"
      BY <1>1, <3>2 DEF ReportOps
    <3> QED
      BY <3>1, <3>2, <3>3, <3>4 DEF Inserting
  <2> QED
    BY <2>1, <2>2
<1> QED
  BY <1>2, <1>3 DEF RequestsWait, Queueable, RunOK

\* Views that are edited advance.
LEMMA EditsAdvance ==
    ASSUME Edits, NEW c \in Client, EditStep(c), Edits'
    PROVE  ViewsAdvance
<1>1. /\ used' \subseteq View /\ DOMAIN view' \subseteq used'
      /\ used \subseteq View /\ DOMAIN view \subseteq used
      /\ \A v \in DOMAIN view : view[v].revision \in Nat
      /\ \A v \in DOMAIN view' : view'[v].revision \in Nat
  BY DEF Edits, EditsOK, ViewsOK, Row
<1>2. CASE UNCHANGED <<view, used, raced>>
  BY <1>1, <1>2 DEF ViewsAdvance
<1>3. CASE InsertView(c)
  <2>1. CASE Refuse
    BY <1>2, <2>1 DEF Refuse, edited
  <2>2. CASE ~Refuse
    <3>1. PICK v, row : used' = used \cup {v} /\ view' = With(view, v, row) /\ raced' = raced
                        /\ v = CHOOSE w \in View \ used : TRUE
      BY <1>3, <2>2 DEF InsertView
    <3>2. v \notin used
      BY <1>3, <3>1, AnIdIsLeft DEF InsertView
    <3>3. \A w \in DOMAIN view : view'[w] = view[w]
      BY <1>1, <3>1, <3>2 DEF With, Merged
    <3>4. DOMAIN view' = DOMAIN view \cup {v}
      BY <3>1 DEF With, Merged
    <3> QED
      BY <1>1, <3>1, <3>2, <3>3, <3>4 DEF ViewsAdvance
  <2> QED
    BY <2>1, <2>2
<1>4. CASE WriteView(c)
  <2>1. CASE Refuse
    BY <1>2, <2>1 DEF Refuse, edited
  <2>2. CASE ~Refuse
    <3> DEFINE v == request[c].view
               loaded == request[c].loaded
               p == request[c].row
    <3>1. /\ request[c].op = "update" /\ v \in DOMAIN view /\ used' = used
          /\ view' = [view EXCEPT ![v] =
                         Written(loaded, With(p, "revision", NextRevision(loaded, p)), view[v])]
          /\ raced' = IF view[v].revision = loaded.revision THEN raced ELSE raced \cup {v}
      BY <1>4, <2>2 DEF WriteView, Ends
    <3>2. loaded \in Row /\ p \in Payload /\ view[v] \in Row /\ loaded.revision \in Nat
      BY <3>1 DEF Edits, EditsOK, Pending, ViewsOK, Row
    <3>3. Written(loaded, With(p, "revision", NextRevision(loaded, p)), view[v]).revision
             = loaded.revision + 1
      BY <3>2, UpdatedRow
    <3>4. DOMAIN view' = DOMAIN view /\ view'[v].revision = loaded.revision + 1
          /\ \A w \in DOMAIN view \ {v} : view'[w] = view[w]
      BY <3>1, <3>3
    <3>5. v \notin raced' => view'[v].revision > view[v].revision
      BY <3>1, <3>2, <3>4
    <3>6. raced \subseteq raced'
      BY <3>1
    <3> HIDE DEF v
    <3> QED
      BY <1>1, <3>1, <3>4, <3>5, <3>6 DEF ViewsAdvance
  <2> QED
    BY <2>1, <2>2
<1>5. CASE DeleteView(c)
  <2>1. /\ DOMAIN view' \subseteq DOMAIN view /\ (\A v \in DOMAIN view' : view'[v] = view[v])
        /\ used' = used /\ raced' = raced
    BY <1>5 DEF DeleteView, DropView
  <2> QED
    BY <1>1, <2>1 DEF ViewsAdvance
<1>6. ASSUME ~InsertView(c), ~WriteView(c), ~DeleteView(c) PROVE UNCHANGED <<view, used, raced>>
  BY <1>6
  DEF EditStep, ReadView, CreateView, CloneView, UpdateView, RemoveView, SetDefault, WriteDefault,
      ReadMetadata, UpdateMetadata, WriteMetadata, Passed, Refuse, edited
<1> QED
  BY <1>2, <1>3, <1>4, <1>5, <1>6
\* Editing a view empties the columns that named it.
LEMMA EditReports ==
    ASSUME Whole, NEW c \in Client, EditView(c), Edits'
    PROVE  Reports'
<1>1. /\ EditStep(c) /\ run' = RunsAfter(run, DOMAIN view', DOMAIN schedule)
      /\ schedule' = [s \in DOMAIN schedule |-> [schedule[s] EXCEPT !.view = Kept(@, DOMAIN view')]]
      /\ UNCHANGED <<now, faults, planned, made, lock, cycle, task, orphaned>>
  BY DEF EditView, cycleVars
<1>2. ViewsAdvance
  BY <1>1, EditsAdvance DEF Whole
<1>3. AsksFrom /\ RequestsWait'
  <2>1. UNCHANGED request => AsksFrom /\ RequestsWait'
    BY <1>1, ReportsAlone
  <2> QED
    BY <1>1, <2>1, EditMoves, OtherAsks
<1>4. /\ DOMAIN run' = DOMAIN run
      /\ \A r \in DOMAIN run :
            /\ RunOK(run'[r]) /\ Cites(run'[r], run[r]) /\ run'[r].status = run[r].status
            /\ run'[r].view \in DOMAIN view' \cup {None}
            /\ run'[r].schedule \in DOMAIN schedule \cup {None}
            /\ run'[r].retry_of \in DOMAIN run \cup {None}
  BY <1>1, ReferencesKept DEF Whole, Reports, RunRowsOK
<1>5. DOMAIN schedule' = DOMAIN schedule
  BY <1>1
<1>6. RunRowsOK'
  BY <1>4, <1>5 DEF RunRowsOK, References, RunOK
<1>7. RunsFrom
  BY <1>4, StillFrom, AllCiting DEF RunsFrom
<1>8. PlanRowsOK'
  <2>1. ASSUME NEW s \in DOMAIN schedule
        PROVE  schedule'[s] \in Plan /\ schedule'[s].view \in DOMAIN view' \cup {None}
    <3>1. schedule[s] \in Plan
      BY DEF Whole, Reports, PlanRowsOK
    <3>2. Kept(schedule[s].view, DOMAIN view') \in {schedule[s].view, None}
          /\ Kept(schedule[s].view, DOMAIN view') \in DOMAIN view' \cup {None}
      BY DEF Kept
    <3>3. schedule'[s] = [schedule[s] EXCEPT !.view = Kept(schedule[s].view, DOMAIN view')]
      BY <1>1
    <3> HIDE DEF Kept
    <3> QED
      BY <3>1, <3>2, <3>3 DEF Plan
  <2> QED
    BY <1>1, <1>5, <2>1 DEF Whole, Reports, PlanRowsOK
<1>9. WorkersOK'
  BY <1>1, <1>4 DEF Whole, Reports, WorkersOK
<1>10. RestOK'
  <2>1. scenario' = scenario
    BY <1>1
    DEF EditStep, ReadView, CreateView, CloneView, InsertView, UpdateView, WriteView, RemoveView,
        DeleteView, SetDefault, WriteDefault, ReadMetadata, UpdateMetadata, WriteMetadata, Passed,
        Ends
  <2> QED
    BY <1>1, <2>1, ReportsAlone
<1>11. DueFrom /\ CyclesWait'
  BY <1>1, ReportsAlone
<1>12. CitationsOK'
  BY <1>2, <1>3, <1>7, <1>11, Cited
<1> QED
  BY <1>3, <1>6, <1>8, <1>9, <1>10, <1>11, <1>12 DEF Reports

\* A request that passes has only loaded what it will insert or write.
LEMMA AskReports ==
    ASSUME Whole, NEW c \in Client, NEW p, Requested(c, p),
           p.op \in {"generate", "retry", "run"} => Queueable(p.run) /\ From(p.run),
           p.op \in {"schedule", "reschedule"} => p.row \in Plan,
           p.op = "schedule" => planned # Schedule /\ \A d \in Client : request[d].op # "schedule"
    PROVE  Reports'
<1>1. /\ request' = [request EXCEPT ![c] = p]
      /\ UNCHANGED <<scenario, view, used, raced, now, faults, schedule, planned, run, made, lock,
                     cycle, task>>
  BY DEF Requested, Passed, edited, reportVars
<1>2. DOMAIN request = Client /\ request'[c] = p
      /\ \A d \in Client \ {c} : request'[d] = request[d]
  BY <1>1 DEF Whole, Edits, EditsOK
<1>3. AsksFrom
  BY <1>2, StillFrom DEF AsksFrom
<1>4. ASSUME NEW d \in Client
      PROVE  /\ Inserting(d)' => Queueable(request'[d].run)
             /\ request'[d].op \in {"schedule", "reschedule"} => request'[d].row \in Plan
             /\ request'[d].op = "schedule" =>
                   planned # Schedule /\ \A e \in Client \ {d} : request'[e].op # "schedule"
  <2>1. CASE d = c
    BY <1>2, <2>1 DEF Inserting
  <2>2. CASE d # c
    <3>1. request'[d] = request[d]
      BY <1>2, <2>2
    <3>2. /\ Inserting(d) => Queueable(request[d].run)
          /\ request[d].op \in {"schedule", "reschedule"} => request[d].row \in Plan
          /\ request[d].op = "schedule" =>
                planned # Schedule /\ \A e \in Client \ {d} : request[e].op # "schedule"
      BY DEF Whole, Reports, RequestsWait
    <3>3. request[d].op = "schedule" => p.op # "schedule"
      OBVIOUS
    <3>4. request[d].op = "schedule" => \A e \in Client \ {d} : request'[e].op # "schedule"
      BY <1>2, <3>2, <3>3
    <3> QED
      BY <3>1, <3>2, <3>4 DEF Inserting
  <2> QED
    BY <2>1, <2>2
<1>5. RequestsWait'
  BY <1>1, <1>4 DEF RequestsWait, Queueable, RunOK
<1>6. /\ RunsFrom /\ DueFrom /\ CyclesWait' /\ RunRowsOK' /\ PlanRowsOK' /\ WorkersOK' /\ RestOK'
      /\ ViewsAdvance
  BY <1>1, ReportsAlone
<1> QED
  BY <1>3, <1>5, <1>6, Cited DEF Reports
\* A new run cites the view as it is.
LEMMA NewRunFrom ==
    ASSUME Whole, view' = view, NEW v \in DOMAIN view, NEW s \in Schedule \cup {None},
           NEW period \in Nat \cup {None}
    PROVE  Queueable(NewRun(v, s, period, None)) /\ From(NewRun(v, s, period, None))
<1> DEFINE x == NewRun(v, s, period, None)
<1>1. /\ Queueable(x) /\ x.view = v /\ x.revision = view[v].revision /\ x.content = view[v].content
  BY NewRunOf DEF Whole, Edits, EditsOK
<1>2. x.revision \in Nat
  BY <1>1 DEF Queueable, RunOK, Run
<1>3. Freshly(x)
  BY <1>1 DEF Freshly
<1> QED
  BY <1>1, <1>2, <1>3 DEF From

\* A schedule as a request writes it.
LEMMA NewPlanOf ==
    ASSUME now \in Nat, NEW v \in View, NEW on \in BOOLEAN
    PROVE  NewPlan(v, on) \in Plan
<1>1. next_schedule_time(now) \in Nat
  BY NextOccurrence
<1> QED
  BY <1>1 DEF NewPlan, Plan

\* The requests of administrators before they commit.
LEMMA AdminAsksReports ==
    ASSUME Whole, NEW c \in Client,
           \/ generate_network_report(c) \/ retry_report(c) \/ run_report_schedule(c)
           \/ create_report_schedule(c) \/ update_report_schedule(c) \/ delete_report_schedule(c)
    PROVE  Reports'
<1>1. /\ now \in Nat /\ DOMAIN view \subseteq View
  BY DEF Whole, IInv, RunsOK, Edits, EditsOK, ViewsOK
<1>2. \A p : Requested(c, p) => view' = view
  BY DEF Requested, Passed, edited
<1>3. CASE generate_network_report(c)
  <2>1. PICK v \in DOMAIN view :
           Requested(c, [op |-> "generate", run |-> NewRun(v, None, None, None)])
    BY <1>3 DEF generate_network_report
  <2>2. Queueable(NewRun(v, None, None, None)) /\ From(NewRun(v, None, None, None))
    BY <1>2, <2>1, NewRunFrom
  <2> QED
    BY <2>1, <2>2, AskReports
<1>4. CASE retry_report(c)
  <2>1. PICK r \in DOMAIN run :
           /\ run[r].status = "failed"
           /\ Requested(c, [op |-> "retry",
                            run |-> [run[r] EXCEPT !.period = None, !.retry_of = r,
                                     !.status = "queued", !.started = None, !.completed = None]])
    BY <1>4 DEF retry_report
  <2> DEFINE row == [run[r] EXCEPT !.period = None, !.retry_of = r,
                                   !.status = "queued", !.started = None, !.completed = None]
  <2>2. r \in Nat /\ RunOK(run[r])
    BY DEF Whole, IInv, RunsOK, Reports, RunRowsOK
  <2>3. Queueable(row) /\ Cites(row, run[r])
    BY <2>1, <2>2, RetryOf DEF Cites
  <2> HIDE DEF row
  <2>4. From(row)
    BY <2>3, StillFrom, AllCiting
  <2> QED
    BY <2>1, <2>3, <2>4, AskReports DEF row
<1>5. CASE run_report_schedule(c)
  <2>1. PICK s \in DOMAIN schedule :
           /\ schedule[s].view # None
           /\ Requested(c, [op |-> "run", run |-> NewRun(schedule[s].view, s, None, None)])
    BY <1>5 DEF run_report_schedule
  <2>2. schedule[s].view \in DOMAIN view /\ s \in Schedule
    BY <2>1 DEF Whole, Reports, PlanRowsOK
  <2>3. Queueable(NewRun(schedule[s].view, s, None, None))
        /\ From(NewRun(schedule[s].view, s, None, None))
    BY <1>2, <2>1, <2>2, NewRunFrom
  <2> QED
    BY <2>1, <2>3, AskReports
<1>6. CASE create_report_schedule(c)
  <2>1. PICK v \in DOMAIN view, on \in BOOLEAN :
           Requested(c, [op |-> "schedule", row |-> NewPlan(v, on)])
    BY <1>6 DEF create_report_schedule
  <2>2. NewPlan(v, on) \in Plan
    BY <1>1, NewPlanOf
  <2>3. planned # Schedule /\ \A d \in Client : request[d].op # "schedule"
    BY <1>6 DEF create_report_schedule
  <2> QED
    BY <2>1, <2>2, <2>3, AskReports
<1>7. CASE update_report_schedule(c)
  <2>1. PICK s \in DOMAIN schedule, v \in DOMAIN view, on \in BOOLEAN :
           Requested(c, [op |-> "reschedule", id |-> s, loaded |-> schedule[s],
                         row |-> NewPlan(v, on)])
    BY <1>7 DEF update_report_schedule
  <2>2. NewPlan(v, on) \in Plan
    BY <1>1, NewPlanOf
  <2> QED
    BY <2>1, <2>2, AskReports
<1>8. CASE delete_report_schedule(c)
  <2>1. PICK s : Requested(c, [op |-> "unschedule", id |-> s])
    BY <1>8 DEF delete_report_schedule
  <2> QED
    BY <2>1, AskReports
<1> QED
  BY <1>3, <1>4, <1>5, <1>6, <1>7, <1>8

\* A queued run is inserted with the rows that it names.
LEMMA InsertRunReports ==
    ASSUME Whole, NEW c \in Client, InsertRun(c)
    PROVE  Reports'
<1>1. /\ Inserting(c) /\ request' = [request EXCEPT ![c] = Idle]
      /\ UNCHANGED <<scenario, view, used, raced, now, faults, schedule, planned, lock, cycle, task>>
  BY DEF InsertRun, Ends, Refuse, edited, cycleVars, plans
<1>2. AsksFrom /\ RequestsWait'
  <2>1. Idle.op \notin ReportOps
    BY DEF Idle, ReportOps
  <2> QED
    BY <1>1, <2>1, OtherAsks
<1>3. DueFrom /\ CyclesWait' /\ PlanRowsOK' /\ RestOK' /\ ViewsAdvance
  BY <1>1, ReportsAlone
<1>4. RunsFrom /\ RunRowsOK' /\ WorkersOK'
  <2>1. CASE UNCHANGED <<run, made>>
    BY <1>1, <2>1, ReportsAlone
  <2>2. CASE References(request[c].run) /\ made' = made + 1 /\ run' = With(run, made', request[c].run)
    <3>1. made \in Nat /\ DOMAIN run \subseteq 1 .. made /\ made' \notin DOMAIN run
      BY <2>2 DEF Whole, IInv, RunsOK
    <3>2. /\ DOMAIN run' = DOMAIN run \cup {made'} /\ run'[made'] = request[c].run
          /\ \A r \in DOMAIN run : run'[r] = run[r]
      BY <2>2, <3>1 DEF With, Merged
    <3>3. RunOK(request[c].run) /\ From(request[c].run)
      BY <1>1, StillFrom DEF Whole, Reports, RequestsWait, Queueable, Inserting
    <3>4. RunsFrom
      BY <3>2, <3>3, StillFrom DEF RunsFrom
    <3>5. ASSUME NEW r \in DOMAIN run'
          PROVE  /\ RunOK(run'[r]) /\ run'[r].view \in DOMAIN view \cup {None}
                 /\ run'[r].schedule \in DOMAIN schedule \cup {None}
                 /\ run'[r].retry_of \in DOMAIN run' \cup {None}
      <4>1. CASE r = made'
        BY <2>2, <3>2, <3>3, <4>1 DEF References
      <4>2. CASE r # made'
        BY <3>2, <3>5, <4>2 DEF Whole, Reports, RunRowsOK, References
      <4> QED
        BY <4>1, <4>2
    <3>6. RunRowsOK'
      BY <1>1, <3>5 DEF RunRowsOK, References, RunOK
    <3>7. ASSUME NEW t \in DOMAIN task
          PROVE  t[2] \in 1 .. made' /\ (t[2] \in DOMAIN run' => t[2] \in DOMAIN run)
      BY <2>2, <3>1, <3>2 DEF Whole, Reports, WorkersOK
    <3>8. WorkersOK'
      BY <1>1, <3>2, <3>7 DEF Whole, Reports, WorkersOK
    <3> QED
      BY <3>4, <3>6, <3>8
  <2> QED
    BY <2>1, <2>2 DEF InsertRun
<1> QED
  BY <1>2, <1>3, <1>4, Cited DEF Reports
\* A schedule put together from two is one.
LEMMA UpdatedPlan ==
    ASSUME NEW old \in Plan, NEW value \in Plan, NEW loaded
    PROVE  Written(loaded, value, old) \in Plan
<1> DEFINE new == Written(loaded, value, old)
<1>1. /\ DOMAIN old = PlanFields /\ DOMAIN value = PlanFields
      /\ old["view"] \in View \cup {None} /\ value["view"] \in View \cup {None}
      /\ old["enabled"] \in BOOLEAN /\ value["enabled"] \in BOOLEAN
      /\ old["next"] \in Nat \cup {None} /\ value["next"] \in Nat \cup {None}
  BY DEF Plan, PlanFields
<1>2. /\ new = [k \in PlanFields |-> new[k]]
      /\ \A k \in PlanFields : new[k] \in {old[k], value[k]}
  BY <1>1 DEF Written
<1>3. /\ new["view"] \in View \cup {None} /\ new["next"] \in Nat \cup {None}
      /\ new["enabled"] \in BOOLEAN
  <2>1. new["view"] \in {old["view"], value["view"]} /\ new["next"] \in {old["next"], value["next"]}
        /\ new["enabled"] \in {old["enabled"], value["enabled"]}
    BY <1>2 DEF PlanFields
  <2> QED
    BY <1>1, <2>1
<1> HIDE DEF new
<1>4. [k \in PlanFields |-> new[k]] \in Plan
  BY <1>3 DEF Plan, PlanFields
<1>5. new \in Plan
  BY <1>2, <1>4
<1> QED
  BY <1>5 DEF new

\* The rows after a schedule was saved.
LEMMA SavedRows ==
    ASSUME Whole, NEW s \in Schedule, NEW row \in Plan, Saved(s, row),
           row.view \in DOMAIN view \cup {None}, UNCHANGED <<view, run>>,
           planned' = planned \cup {s}
    PROVE  PlanRowsOK' /\ RunRowsOK'
<1>1. /\ DOMAIN schedule' = DOMAIN schedule \cup {s} /\ schedule'[s] = row
      /\ \A x \in DOMAIN schedule \ {s} : schedule'[x] = schedule[x]
  BY DEF Saved, With, Merged
<1>2. ASSUME NEW x \in DOMAIN schedule'
      PROVE  schedule'[x] \in Plan /\ schedule'[x].view \in DOMAIN view \cup {None}
  <2>1. CASE x = s
    BY <1>1, <2>1
  <2>2. CASE x # s
    BY <1>1, <1>2, <2>2 DEF Whole, Reports, PlanRowsOK
  <2> QED
    BY <2>1, <2>2
<1>3. planned' \subseteq Schedule /\ DOMAIN schedule' \subseteq planned'
  BY <1>1 DEF Whole, Reports, PlanRowsOK
<1>4. PlanRowsOK'
  BY <1>2, <1>3 DEF PlanRowsOK
<1>5. RunRowsOK'
  BY <1>1 DEF Whole, Reports, RunRowsOK, References, RunOK
<1> QED
  BY <1>4, <1>5

\* An inserted schedule gets an id that was not given.
LEMMA InsertScheduleReports ==
    ASSUME Whole, NEW c \in Client, InsertSchedule(c)
    PROVE  Reports'
<1>1. /\ request[c].op = "schedule" /\ request' = [request EXCEPT ![c] = Idle]
      /\ UNCHANGED <<scenario, view, used, raced, now, faults, run, made, lock, cycle, task>>
  BY DEF InsertSchedule, Ends, Refuse, edited, cycleVars
<1>2. AsksFrom /\ RequestsWait'
  <2>1. Idle.op \notin ReportOps
    BY DEF Idle, ReportOps
  <2> QED
    BY <1>1, <2>1, OtherAsks
<1>3. RunsFrom /\ DueFrom /\ CyclesWait' /\ WorkersOK' /\ RestOK' /\ ViewsAdvance
  BY <1>1, ReportsAlone
<1>4. PlanRowsOK' /\ RunRowsOK'
  <2>1. CASE UNCHANGED plans
    BY <1>1, <2>1, ReportsAlone DEF plans
  <2>2. CASE /\ request[c].row.view \in DOMAIN view
             /\ LET s == CHOOSE x \in Schedule \ planned : TRUE
                IN planned' = planned \cup {s} /\ Saved(s, request[c].row)
    <3> DEFINE s == CHOOSE x \in Schedule \ planned : TRUE
    <3>1. request[c].row \in Plan /\ planned # Schedule /\ planned \subseteq Schedule
      BY <1>1 DEF Whole, Reports, RequestsWait, PlanRowsOK
    <3>2. s \in Schedule
      BY <3>1
    <3>3. planned' = planned \cup {s} /\ Saved(s, request[c].row)
      BY <2>2
    <3> HIDE DEF s
    <3> QED
      BY <1>1, <2>2, <3>1, <3>2, <3>3, SavedRows
  <2> QED
    BY <2>1, <2>2 DEF InsertSchedule
<1> QED
  BY <1>2, <1>3, <1>4, Cited DEF Reports

\* A written schedule keeps its id.
LEMMA WriteScheduleReports ==
    ASSUME Whole, NEW c \in Client, WriteSchedule(c)
    PROVE  Reports'
<1> DEFINE s == request[c].id
           row == Written(request[c].loaded, request[c].row, schedule[s])
<1>1. /\ request[c].op = "reschedule" /\ request' = [request EXCEPT ![c] = Idle]
      /\ UNCHANGED <<scenario, view, used, raced, now, faults, planned, run, made, lock, cycle, task>>
  BY DEF WriteSchedule, Ends, Refuse, edited, cycleVars
<1>2. AsksFrom /\ RequestsWait'
  <2>1. Idle.op \notin ReportOps
    BY DEF Idle, ReportOps
  <2> QED
    BY <1>1, <2>1, OtherAsks
<1>3. RunsFrom /\ DueFrom /\ CyclesWait' /\ WorkersOK' /\ RestOK' /\ ViewsAdvance
  BY <1>1, ReportsAlone
<1>4. PlanRowsOK' /\ RunRowsOK'
  <2>1. CASE UNCHANGED schedule
    BY <1>1, <2>1, ReportsAlone
  <2>2. CASE s \in DOMAIN schedule /\ row.view \in DOMAIN view \cup {None} /\ Saved(s, row)
    <3>1. request[c].row \in Plan /\ schedule[s] \in Plan /\ s \in Schedule /\ s \in planned
      BY <1>1, <2>2 DEF Whole, Reports, RequestsWait, PlanRowsOK
    <3>2. row \in Plan
      BY <3>1, UpdatedPlan
    <3>3. planned' = planned \cup {s}
      BY <1>1, <3>1
    <3> HIDE DEF row, s
    <3> QED
      BY <1>1, <2>2, <3>1, <3>2, <3>3, SavedRows
  <2> QED
    BY <2>1, <2>2 DEF WriteSchedule
<1> QED
  BY <1>2, <1>3, <1>4, Cited DEF Reports

\* A deleted schedule empties the column that named it.
LEMMA DropScheduleReports ==
    ASSUME Whole, NEW c \in Client, DropSchedule(c)
    PROVE  Reports'
<1>1. /\ request[c].op = "unschedule" /\ request' = [request EXCEPT ![c] = Idle]
      /\ schedule' = Without(schedule, {request[c].id})
      /\ run' = RunsAfter(run, DOMAIN view, DOMAIN schedule')
      /\ UNCHANGED <<scenario, view, used, raced, now, faults, planned, made, lock, cycle, task>>
  BY DEF DropSchedule, Ends, Refuse, edited, cycleVars
<1>2. AsksFrom /\ RequestsWait'
  <2>1. Idle.op \notin ReportOps
    BY DEF Idle, ReportOps
  <2> QED
    BY <1>1, <2>1, OtherAsks
<1>3. DueFrom /\ CyclesWait' /\ RestOK' /\ ViewsAdvance
  BY <1>1, ReportsAlone
<1>4. /\ DOMAIN schedule' \subseteq DOMAIN schedule
      /\ \A s \in DOMAIN schedule' : schedule'[s] = schedule[s]
  BY <1>1 DEF Without
<1>5. PlanRowsOK'
  BY <1>1, <1>4 DEF Whole, Reports, PlanRowsOK
<1>6. /\ DOMAIN run' = DOMAIN run
      /\ \A r \in DOMAIN run :
            /\ RunOK(run'[r]) /\ Cites(run'[r], run[r]) /\ run'[r].status = run[r].status
            /\ run'[r].view \in DOMAIN view \cup {None}
            /\ run'[r].schedule \in DOMAIN schedule' \cup {None}
            /\ run'[r].retry_of \in DOMAIN run \cup {None}
  BY <1>1, ReferencesKept DEF Whole, Reports, RunRowsOK
<1>7. RunRowsOK'
  BY <1>1, <1>6 DEF RunRowsOK, References, RunOK
<1>8. RunsFrom
  BY <1>6, StillFrom, AllCiting DEF RunsFrom
<1>9. WorkersOK'
  BY <1>1, <1>6 DEF Whole, Reports, WorkersOK
<1> QED
  BY <1>2, <1>3, <1>5, <1>7, <1>8, <1>9, Cited DEF Reports
-----------------------------------------------------------------------------
(* Cycles, generations and the cleanup.                                     *)

(* The columns that no generation writes.                                   *)
SameColumns(old, new) ==
    /\ new.view = old.view /\ new.schedule = old.schedule /\ new.retry_of = old.retry_of
    /\ new.revision = old.revision /\ new.content = old.content

\* Runs that are written in place name what they named.
LEMMA Rewritten ==
    ASSUME Whole, DOMAIN run' = DOMAIN run, UNCHANGED <<view, schedule>>,
           \A r \in DOMAIN run : RunOK(run'[r]) /\ SameColumns(run[r], run'[r])
    PROVE  RunRowsOK' /\ RunsFrom
<1>1. ASSUME NEW r \in DOMAIN run
      PROVE  /\ From(run'[r]) /\ run'[r].view \in DOMAIN view \cup {None}
             /\ run'[r].schedule \in DOMAIN schedule \cup {None}
             /\ run'[r].retry_of \in DOMAIN run \cup {None}
  <2>1. References(run[r])
    BY DEF Whole, Reports, RunRowsOK
  <2>2. Cites(run'[r], run[r])
    BY DEF SameColumns, Cites
  <2>3. From(run'[r])
    BY <2>2, StillFrom, AllCiting
  <2> QED
    BY <2>1, <2>3 DEF References, SameColumns
<1>2. RunRowsOK'
  BY <1>1 DEF RunRowsOK, References, RunOK
<1> QED
  BY <1>1, <1>2 DEF RunsFrom

\* What a cycle, a generation, a cleanup or the clock leaves alone.
LEMMA EditsLeft ==
    ASSUME Whole, UNCHANGED editVars
    PROVE  /\ AsksFrom /\ ViewsAdvance
           /\ planned' = planned => RequestsWait'
           /\ UNCHANGED <<planned, schedule>> => PlanRowsOK'
BY ReportsAlone DEF editVars

\* A cycle that begins fails runs, and holds new ones.
LEMMA BeginReports == ASSUME Whole, NEW b \in Backend, Begin(b) PROVE Reports'
<1>1. /\ cycle[b] = Resting /\ lock' = b
      /\ UNCHANGED <<editVars, now, faults, schedule, planned, made, task>>
  BY DEF Begin, plans
<1>2. AsksFrom /\ RequestsWait' /\ PlanRowsOK' /\ ViewsAdvance
  BY <1>1, EditsLeft
<1>3. DOMAIN run' = DOMAIN run
      /\ \A r \in DOMAIN run :
            run'[r] = IF Stale(r) THEN [run[r] EXCEPT !.status = "failed", !.completed = now]
                      ELSE run[r]
  BY DEF Begin
<1>4. ASSUME NEW r \in DOMAIN run
      PROVE  /\ RunOK(run'[r]) /\ SameColumns(run[r], run'[r])
             /\ run[r].status \in {"running", "failed"} => run'[r].status \in {"running", "failed"}
  <2>1. RunOK(run[r]) /\ run[r] \in Run /\ now \in Nat
    BY DEF Whole, Reports, RunRowsOK, RunOK, IInv, RunsOK
  <2>2. CASE Stale(r)
    <3>1. run'[r] = [run[r] EXCEPT !.status = "failed", !.completed = now]
          /\ run[r].status # "completed"
      BY <1>3, <2>2 DEF Stale
    <3>2. RunOK(run'[r])
      BY <2>1, <3>1, FailedRun
    <3>3. SameColumns(run[r], run'[r]) /\ run'[r].status = "failed"
      BY <2>1, <3>1, RunParts DEF SameColumns, RunFields
    <3> QED
      BY <3>2, <3>3
  <2>3. CASE ~Stale(r)
    BY <1>3, <2>1, <2>3 DEF SameColumns
  <2> QED
    BY <2>2, <2>3
<1>5. RunRowsOK' /\ RunsFrom
  BY <1>1, <1>3, <1>4, Rewritten DEF editVars
<1>6. WorkersOK'
  BY <1>1, <1>3, <1>4 DEF Whole, Reports, WorkersOK
<1>7. RestOK'
  BY <1>1 DEF Whole, Reports, RestOK, editVars
<1>8. DueFrom /\ CyclesWait'
  <2>1. PICK due, known, lost :
           /\ due = {s \in DOMAIN schedule : /\ schedule[s].enabled /\ schedule[s].next # None
                                           /\ schedule[s].next <= now}
           /\ lost = {s \in due : schedule[s].view = None}
           /\ cycle' = [cycle EXCEPT ![b] =
                          [at |-> "enqueue", lost |-> lost, loaded |-> schedule,
                           runs |-> [s \in due \ (known \cup lost) |->
                                       NewRun(schedule[s].view, s, schedule[s].next, None)]]]
    BY DEF Begin
  <2> DEFINE new == [s \in due \ (known \cup lost) |->
                        NewRun(schedule[s].view, s, schedule[s].next, None)]
  <2>2. cycle'[b].runs = new /\ \A d \in Backend \ {b} : cycle'[d] = cycle[d]
    BY <2>1 DEF Whole, IInv, CyclesOK
  <2>3. ASSUME NEW s \in DOMAIN new
        PROVE  Queueable(new[s]) /\ new[s].period \in Nat /\ From(new[s])
    <3>1. new[s] = NewRun(schedule[s].view, s, schedule[s].next, None)
      OBVIOUS
    <3>2. s \in DOMAIN schedule /\ schedule[s].next # None /\ schedule[s].view # None
      BY <2>1
    <3>3. schedule[s] \in Plan /\ schedule[s].view \in DOMAIN view \cup {None} /\ s \in Schedule
      BY <3>2 DEF Whole, Reports, PlanRowsOK
    <3>4. schedule[s].view \in DOMAIN view /\ schedule[s].next \in Nat
      BY <3>2, <3>3 DEF Plan
    <3>5. view' = view
      BY <1>1 DEF editVars
    <3>6. Queueable(new[s]) /\ From(new[s])
      BY <3>1, <3>3, <3>4, <3>5, NewRunFrom
    <3>7. new[s].period = schedule[s].next
      BY <3>1 DEF NewRun
    <3> QED
      BY <3>4, <3>6, <3>7
  <2> HIDE DEF new
  <2>4. DueFrom
    BY <2>2, <2>3, StillFrom DEF DueFrom
  <2>5. CyclesWait'
    BY <2>2, <2>3 DEF Whole, Reports, CyclesWait, Queueable, RunOK
  <2> QED
    BY <2>4, <2>5
<1> QED
  BY <1>2, <1>5, <1>6, <1>7, <1>8, Cited DEF Reports

\* A cycle that is not about to enqueue holds no runs.
LEMMA CycleMoves ==
    ASSUME Whole, NEW b \in Backend, NEW p, cycle' = [cycle EXCEPT ![b] = p], p.at # "enqueue"
    PROVE  DueFrom /\ CyclesWait'
<1>1. cycle'[b] = p /\ \A d \in Backend \ {b} : cycle'[d] = cycle[d]
  BY DEF Whole, IInv, CyclesOK
<1>2. DueFrom
  BY <1>1, StillFrom DEF DueFrom
<1>3. CyclesWait'
  BY <1>1 DEF Whole, Reports, CyclesWait, Queueable, RunOK
<1> QED
  BY <1>2, <1>3
\* What a cycle enqueues was queued when it began.
LEMMA EnqueueReports == ASSUME Whole, NEW b \in Backend, Enqueue(b) PROVE Reports'
<1> DEFINE new == cycle[b].runs
           lost == cycle[b].lost
<1>1. /\ cycle[b].at = "enqueue"
      /\ UNCHANGED <<editVars, now, faults, planned, task>>
  BY DEF Enqueue
<1>2. AsksFrom /\ RequestsWait' /\ ViewsAdvance
  BY <1>1, EditsLeft
<1>3. CASE EndCycle(b) /\ UNCHANGED <<schedule, run, made>>
  <2>1. DueFrom /\ CyclesWait' /\ lock' = None
    <3>1. Resting.at # "enqueue"
      BY DEF Resting
    <3> QED
      BY <1>3, <3>1, CycleMoves DEF EndCycle
  <2>2. RunsFrom /\ RunRowsOK' /\ PlanRowsOK' /\ WorkersOK'
    BY <1>1, <1>3, ReportsAlone DEF editVars
  <2>3. RestOK'
    BY <1>1, <2>1 DEF Whole, Reports, RestOK, editVars
  <2> QED
    BY <1>2, <2>1, <2>2, <2>3, Cited DEF Reports
<1>4. CASE /\ \A s \in DOMAIN new : References(new[s])
           /\ cycle' = [cycle EXCEPT ![b] = [at |-> "pick"]] /\ UNCHANGED lock
           /\ schedule' = [s \in DOMAIN schedule |->
                 IF s \in lost THEN [schedule[s] EXCEPT !.enabled = FALSE]
                 ELSE IF s \in DOMAIN new
                 THEN [schedule[s] EXCEPT !.next = AfterEnqueue(new[s])]
                 ELSE schedule[s]]
           /\ \E order \in [DOMAIN new -> 1 .. Cardinality(DOMAIN new)] :
                 run' = Merged([r \in {made + order[s] : s \in DOMAIN new} |->
                                   new[CHOOSE s \in DOMAIN new : made + order[s] = r]], run)
           /\ made' = made + Cardinality(DOMAIN new)
  <2>1. DueFrom /\ CyclesWait'
    <3> DEFINE p == [at |-> "pick"]
    <3>1. cycle' = [cycle EXCEPT ![b] = p] /\ p.at # "enqueue"
      BY <1>4
    <3> HIDE DEF p
    <3> QED
      BY <3>1, CycleMoves
  <2>2. RestOK'
    BY <1>1, <1>4, ReportsAlone DEF editVars
  <2>3. /\ IsFiniteSet(DOMAIN new) /\ (\A s \in DOMAIN new : Fresh(new[s]))
        /\ RunsOK /\ made \in Nat /\ Cardinality(DOMAIN new) \in Nat
    BY <1>1, FS_CardinalityType DEF Whole, IInv, CyclesOK, RunsOK
  <2>4. /\ DOMAIN run \subseteq DOMAIN run' /\ \A r \in DOMAIN run : run'[r] = run[r]
        /\ \A r \in DOMAIN run' \ DOMAIN run : r > made /\ \E s \in DOMAIN new : run'[r] = new[s]
    BY <1>1, <1>4, <2>3, EnqueuedRuns
  <2>5. \A s \in DOMAIN new : /\ RunOK(new[s]) /\ From(new[s]) /\ References(new[s])
                              /\ new[s].period \in Nat
    BY <1>1, <1>4, StillFrom DEF Whole, Reports, CyclesWait, Queueable
  <2>6. PlanRowsOK' /\ DOMAIN schedule' = DOMAIN schedule
    <3>1. ASSUME NEW s \in DOMAIN schedule
          PROVE  schedule'[s] \in Plan /\ schedule'[s].view \in DOMAIN view \cup {None}
      <4>1. schedule[s] \in Plan /\ schedule[s].view \in DOMAIN view \cup {None}
        BY DEF Whole, Reports, PlanRowsOK
      <4>2. CASE s \in lost
        <5>1. schedule'[s] = [schedule[s] EXCEPT !.enabled = FALSE]
          BY <1>4, <4>2
        <5> QED
          BY <4>1, <5>1 DEF Plan
      <4>3. CASE s \notin lost /\ s \in DOMAIN new
        <5>1. schedule'[s] = [schedule[s] EXCEPT !.next = AfterEnqueue(new[s])]
          BY <1>4, <4>3
        <5>2. AfterEnqueue(new[s]) \in Nat
          BY <2>5, <4>3, NextOccurrence DEF AfterEnqueue
        <5> QED
          BY <4>1, <5>1, <5>2 DEF Plan
      <4>4. CASE s \notin lost /\ s \notin DOMAIN new
        BY <1>4, <4>1, <4>4
      <4> QED
        BY <4>2, <4>3, <4>4
    <3>2. DOMAIN schedule' = DOMAIN schedule
      BY <1>4
    <3> QED
      BY <1>1, <3>1, <3>2 DEF Whole, Reports, PlanRowsOK, editVars
  <2>7. ASSUME NEW r \in DOMAIN run'
        PROVE  /\ From(run'[r]) /\ RunOK(run'[r]) /\ run'[r].view \in DOMAIN view \cup {None}
               /\ run'[r].schedule \in DOMAIN schedule \cup {None}
               /\ run'[r].retry_of \in DOMAIN run' \cup {None}
    <3>1. CASE r \in DOMAIN run
      BY <2>4, <3>1, StillFrom DEF Whole, Reports, RunRowsOK, References
    <3>2. CASE r \notin DOMAIN run
      <4>1. PICK s \in DOMAIN new : run'[r] = new[s]
        BY <2>4, <2>7, <3>2
      <4> QED
        BY <2>4, <2>5, <4>1 DEF References
    <3> QED
      BY <3>1, <3>2
  <2>8. RunsFrom /\ RunRowsOK'
    <3>1. RunRowsOK'
      BY <1>1, <2>6, <2>7 DEF RunRowsOK, References, RunOK, editVars
    <3> QED
      BY <2>7, <3>1 DEF RunsFrom
  <2>9. WorkersOK'
    <3>1. ASSUME NEW t \in DOMAIN task
          PROVE  t[2] \in 1 .. made' /\ (t[2] \in DOMAIN run' => t[2] \in DOMAIN run)
      <4>1. t[2] \in 1 .. made
        BY DEF Whole, Reports, WorkersOK
      <4>2. t[2] \in 1 .. made'
        <5> HIDE DEF new
        <5>1. made' = made + Cardinality(DOMAIN new)
          BY <1>4
        <5> QED
          BY <2>3, <4>1, <5>1
      <4> QED
        BY <2>3, <2>4, <4>1, <4>2
    <3> QED
      BY <1>1, <2>4, <3>1 DEF Whole, Reports, WorkersOK
  <2> QED
    BY <1>2, <2>1, <2>2, <2>6, <2>8, <2>9, Cited DEF Reports
<1> QED
  BY <1>3, <1>4 DEF Enqueue

\* A cycle picks queued runs.
LEMMA PickReports == ASSUME Whole, NEW b \in Backend, Pick(b) PROVE Reports'
<1> DEFINE picks == Oldest(MaxConcurrent)
           tasks == [t \in {b} \X picks |-> "get"]
<1>1. /\ cycle' = [cycle EXCEPT ![b] = [at |-> "generate", picks |-> picks]]
      /\ \A t \in DOMAIN task : t[1] = b => task[t] # "get"
      /\ task' = Merged(tasks, task)
      /\ UNCHANGED <<editVars, now, faults, schedule, planned, run, made, lock>>
  BY DEF Pick, plans
<1>2. AsksFrom /\ RequestsWait' /\ PlanRowsOK' /\ ViewsAdvance
  BY <1>1, EditsLeft
<1>3. DueFrom /\ CyclesWait'
  <2> DEFINE p == [at |-> "generate", picks |-> picks]
  <2>1. cycle' = [cycle EXCEPT ![b] = p] /\ p.at # "enqueue"
    BY <1>1
  <2> HIDE DEF p
  <2> QED
    BY <2>1, CycleMoves
<1>4. RunsFrom /\ RunRowsOK' /\ RestOK'
  BY <1>1, ReportsAlone DEF editVars
<1>5. \A r \in picks : r \in 1 .. made
  BY DEF Oldest, Queued, Whole, IInv, RunsOK
<1>6. DOMAIN tasks = {b} \X picks /\ \A t \in DOMAIN tasks : tasks[t] = "get"
  OBVIOUS
<1> HIDE DEF tasks, picks
<1>7. /\ DOMAIN task' = DOMAIN task \cup ({b} \X picks)
      /\ \A t \in {b} \X picks : task'[t] = "get"
      /\ \A t \in DOMAIN task \ ({b} \X picks) : task'[t] = task[t]
  BY <1>1, <1>6 DEF Merged
<1>8. ASSUME NEW t \in DOMAIN task'
      PROVE  /\ task'[t] \in {"get", "work"} /\ t[2] \in 1 .. made
             /\ task'[t] = "work" => t \in DOMAIN task /\ task[t] = "work"
  <2>1. CASE t \in {b} \X picks
    BY <1>5, <1>7, <2>1
  <2>2. CASE t \notin {b} \X picks
    BY <1>7, <1>8, <2>2 DEF Whole, Reports, WorkersOK
  <2> QED
    BY <2>1, <2>2
<1>9. WorkersOK'
  BY <1>1, <1>8 DEF Whole, Reports, WorkersOK
<1> QED
  BY <1>2, <1>3, <1>4, <1>9, Cited DEF Reports

\* A cycle that ends gives the lock back, and nothing else.
LEMMA EndReports == ASSUME Whole, NEW b \in Backend, End(b) PROVE Reports'
<1>1. /\ EndCycle(b) /\ UNCHANGED <<editVars, now, faults, schedule, planned, run, made, task>>
  BY DEF End, plans
<1>2. AsksFrom /\ RequestsWait' /\ PlanRowsOK' /\ ViewsAdvance
  BY <1>1, EditsLeft
<1>3. DueFrom /\ CyclesWait' /\ lock' = None
  <2>1. Resting.at # "enqueue"
    BY DEF Resting
  <2> QED
    BY <1>1, <2>1, CycleMoves DEF EndCycle
<1>4. RunsFrom /\ RunRowsOK' /\ WorkersOK'
  BY <1>1, ReportsAlone DEF editVars
<1>5. RestOK'
  BY <1>1, <1>3 DEF Whole, Reports, RestOK, editVars
<1> QED
  BY <1>2, <1>3, <1>4, <1>5, Cited DEF Reports
\* A generation that ends leaves one run to nobody.
LEMMA OneWorkerLess ==
    ASSUME Whole, NEW t \in DOMAIN task, task' = Without(task, {t}), made' = made,
           DOMAIN run' \subseteq DOMAIN run,
           \A r \in DOMAIN run' : run'[r].status = run[r].status \/ (task[t] = "work" /\ r = t[2])
    PROVE  WorkersOK'
<1>1. DOMAIN task' = DOMAIN task \ {t} /\ \A u \in DOMAIN task' : task'[u] = task[u]
  BY DEF Without
<1>2. ASSUME NEW u \in DOMAIN task', task[u] = "work", u[2] \in DOMAIN run'
      PROVE  run'[u[2]].status \in {"running", "failed"}
  <2>1. u \in DOMAIN task /\ u # t /\ u[2] \in DOMAIN run
    BY <1>1, <1>2
  <2>2. run[u[2]].status \in {"running", "failed"}
        /\ (task[t] = "work" /\ u[2] = t[2] => u = t)
    BY <1>2, <2>1 DEF Whole, Reports, WorkersOK
  <2> QED
    BY <1>2, <2>1, <2>2
<1> QED
  BY <1>1, <1>2 DEF Whole, Reports, WorkersOK

\* What a generation leaves alone.
LEMMA GenerationLeft ==
    ASSUME Whole, UNCHANGED <<editVars, now, faults, schedule, planned, lock, cycle>>
    PROVE  /\ AsksFrom /\ RequestsWait' /\ PlanRowsOK' /\ ViewsAdvance /\ RestOK'
           /\ DueFrom /\ CyclesWait'
<1>1. scenario' = scenario
  BY DEF editVars
<1> QED
  BY <1>1, EditsLeft, ReportsAlone

\* A queued run is worked on by nobody, then by one.
LEMMA StartReports == ASSUME Whole, NEW t \in DOMAIN task, Start(t) PROVE Reports'
<1> DEFINE r == t[2]
<1>1. /\ r \in DOMAIN run /\ run[r].status = "queued"
      /\ task' = [task EXCEPT ![t] = "work"]
      /\ run' = [run EXCEPT ![r].status = "running", ![r].started = now]
      /\ UNCHANGED <<editVars, now, faults, schedule, planned, made, lock, cycle>>
  BY DEF Start, Queued, plans
<1>2. /\ AsksFrom /\ RequestsWait' /\ PlanRowsOK' /\ ViewsAdvance /\ RestOK'
      /\ DueFrom /\ CyclesWait'
  BY <1>1, GenerationLeft
<1>3. RunOK(run[r]) /\ Queueable(run[r]) /\ run[r] \in Run /\ now \in Nat
  BY <1>1 DEF Whole, Reports, RunRowsOK, Queueable, RunOK, IInv, RunsOK
<1>4. /\ DOMAIN run' = DOMAIN run /\ \A q \in DOMAIN run \ {r} : run'[q] = run[q]
      /\ run'[r] = Begun(run[r])
  BY <1>1, <1>3, RunParts DEF RunFields, Begun
<1>5. RunOK(run'[r]) /\ SameColumns(run[r], run'[r]) /\ run'[r].status = "running"
  <2>1. RunOK(run'[r])
    BY <1>3, <1>4, StartedRun
  <2>2. SameColumns(run[r], run'[r]) /\ run'[r].status = "running"
    BY <1>3, <1>4, RunParts DEF SameColumns, RunFields, Begun
  <2> QED
    BY <2>1, <2>2
<1>6. ASSUME NEW q \in DOMAIN run PROVE RunOK(run'[q]) /\ SameColumns(run[q], run'[q])
  <2>1. CASE q = r
    BY <1>5, <2>1
  <2>2. CASE q # r
    BY <1>4, <2>2 DEF Whole, Reports, RunRowsOK, SameColumns
  <2> QED
    BY <2>1, <2>2
<1>7. RunRowsOK' /\ RunsFrom
  BY <1>1, <1>4, <1>6, Rewritten DEF editVars
<1>8. DOMAIN task' = DOMAIN task /\ task'[t] = "work"
      /\ \A u \in DOMAIN task \ {t} : task'[u] = task[u]
  BY <1>1
<1>9. ASSUME NEW u \in DOMAIN task, u # t, task[u] = "work"
      PROVE  u[2] # r /\ (u[2] \in DOMAIN run' => run'[u[2]].status \in {"running", "failed"})
             /\ \A w \in DOMAIN task : task[w] = "work" /\ w[2] = u[2] => w = u
  BY <1>1, <1>4, <1>9 DEF Whole, Reports, WorkersOK
<1>10. WorkersOK'
  <2>1. \A u \in DOMAIN task' : task'[u] \in {"get", "work"} /\ u[2] \in 1 .. made'
    BY <1>1, <1>8 DEF Whole, Reports, WorkersOK
  <2>2. ASSUME NEW u \in DOMAIN task', task'[u] = "work"
        PROVE  /\ u[2] \in DOMAIN run' => run'[u[2]].status \in {"running", "failed"}
               /\ \A w \in DOMAIN task' : task'[w] = "work" /\ w[2] = u[2] => w = u
    <3>1. CASE u = t
      BY <1>5, <1>8, <1>9, <3>1
    <3>2. CASE u # t
      BY <1>8, <1>9, <2>2, <3>2
    <3> QED
      BY <3>1, <3>2
  <2> QED
    BY <2>1, <2>2 DEF WorkersOK
<1> QED
  BY <1>2, <1>7, <1>10, Cited DEF Reports

\* A generation whose run is queued no more ends.
LEMMA SkipReports == ASSUME Whole, NEW t \in DOMAIN task, Skip(t) PROVE Reports'
<1>1. /\ task' = Without(task, {t})
      /\ UNCHANGED <<editVars, now, faults, schedule, planned, made, lock, cycle, run>>
  BY DEF Skip, TaskEnds, plans
<1>2. /\ AsksFrom /\ RequestsWait' /\ PlanRowsOK' /\ ViewsAdvance /\ RestOK'
      /\ DueFrom /\ CyclesWait'
  BY <1>1, GenerationLeft
<1>3. RunsFrom /\ RunRowsOK' /\ WorkersOK'
  BY <1>1, OneWorkerLess, ReportsAlone DEF editVars
<1> QED
  BY <1>2, <1>3, Cited DEF Reports

\* A read that fails ends a generation and its cycle.
LEMMA GetFailsReports == ASSUME Whole, NEW t \in DOMAIN task, GetFails(t) PROVE Reports'
<1>1. /\ task' = Without(task, {t}) /\ faults < MaxFaults /\ faults' = faults + 1
      /\ EndCycle(t[1]) /\ t[1] \in Backend
      /\ UNCHANGED <<editVars, now, schedule, planned, made, run>>
  BY DEF GetFails, plans, Whole, IInv, TasksOK
<1>2. AsksFrom /\ RequestsWait' /\ PlanRowsOK' /\ ViewsAdvance
  BY <1>1, EditsLeft
<1>3. DueFrom /\ CyclesWait' /\ lock' = None
  <2>1. Resting.at # "enqueue"
    BY DEF Resting
  <2> QED
    BY <1>1, <2>1, CycleMoves DEF EndCycle
<1>4. RunsFrom /\ RunRowsOK' /\ WorkersOK'
  BY <1>1, OneWorkerLess, ReportsAlone DEF editVars
<1>5. RestOK'
  BY <1>1, <1>3, ReportsAssumption DEF Whole, Reports, RestOK, editVars
<1> QED
  BY <1>2, <1>3, <1>4, <1>5, Cited DEF Reports

\* What ends a generation that works writes its run only.
LEMMA WorkEnds ==
    ASSUME Whole, NEW t \in DOMAIN task, task[t] = "work", TaskEnds(t), DOMAIN run' = DOMAIN run,
           \A r \in DOMAIN run \ {t[2]} : run'[r] = run[r],
           t[2] \in DOMAIN run => RunOK(run'[t[2]]) /\ SameColumns(run[t[2]], run'[t[2]])
    PROVE  Reports'
<1>1. /\ task' = Without(task, {t})
      /\ UNCHANGED <<editVars, now, faults, schedule, planned, made, lock, cycle>>
  BY DEF TaskEnds, plans
<1>2. /\ AsksFrom /\ RequestsWait' /\ PlanRowsOK' /\ ViewsAdvance /\ RestOK'
      /\ DueFrom /\ CyclesWait'
  BY <1>1, GenerationLeft
<1>3. ASSUME NEW q \in DOMAIN run PROVE RunOK(run'[q]) /\ SameColumns(run[q], run'[q])
  <2>1. CASE q = t[2]
    BY <2>1
  <2>2. CASE q # t[2]
    BY <2>2 DEF Whole, Reports, RunRowsOK, SameColumns
  <2> QED
    BY <2>1, <2>2
<1>4. RunRowsOK' /\ RunsFrom
  BY <1>1, <1>3, Rewritten DEF editVars
<1>5. WorkersOK'
  BY <1>1, OneWorkerLess
<1> QED
  BY <1>2, <1>4, <1>5, Cited DEF Reports

\* It is stored with its artifacts.
LEMMA StoreReports == ASSUME Whole, NEW t \in DOMAIN task, Store(t) PROVE Reports'
<1> DEFINE r == t[2]
<1>1. task[t] = "work" /\ TaskEnds(t)
  BY DEF Store
<1>2. CASE r \notin DOMAIN run /\ run' = run
  BY <1>1, <1>2, WorkEnds
<1>3. CASE /\ r \in DOMAIN run
           /\ run' = [run EXCEPT ![r] = [@ EXCEPT !.status = "completed", !.artifacts = TRUE,
                                                  !.completed = now]]
  <2>1. RunOK(run[r]) /\ run[r] \in Run /\ now \in Nat
    BY <1>3 DEF Whole, Reports, RunRowsOK, RunOK, IInv, RunsOK
  <2>2. /\ DOMAIN run' = DOMAIN run /\ \A q \in DOMAIN run \ {r} : run'[q] = run[q]
        /\ run'[r] = Done(run[r])
    BY <1>3 DEF Done
  <2>3. RunOK(run'[r])
    BY <2>1, <2>2, StoredRun
  <2>4. SameColumns(run[r], run'[r])
    BY <2>1, <2>2, RunParts DEF SameColumns, RunFields, Done
  <2> HIDE DEF r
  <2> QED
    BY <1>1, <2>2, <2>3, <2>4, WorkEnds DEF r
<1> QED
  BY <1>2, <1>3 DEF Store

\* Or it fails, or is left as it is.
LEMMA GiveUpReports == ASSUME Whole, NEW t \in DOMAIN task, GiveUp(t) PROVE Reports'
<1> DEFINE r == t[2]
<1>1. task[t] = "work" /\ TaskEnds(t)
  BY DEF GiveUp
<1>2. CASE run' = run
  <2>1. r \in DOMAIN run => RunOK(run'[r]) /\ SameColumns(run[r], run'[r])
    BY <1>2 DEF Whole, Reports, RunRowsOK, SameColumns
  <2> QED
    BY <1>1, <1>2, <2>1, WorkEnds
<1>3. CASE /\ r \in DOMAIN run
           /\ run' = [run EXCEPT ![r].status = "failed", ![r].completed = now]
  <2>1. RunOK(run[r]) /\ run[r] \in Run /\ now \in Nat /\ run[r].status # "completed"
    <3>1. run[r].status \in {"running", "failed"}
      BY <1>1, <1>3 DEF Whole, Reports, WorkersOK
    <3> QED
      BY <1>3, <3>1 DEF Whole, Reports, RunRowsOK, RunOK, IInv, RunsOK
  <2>2. /\ DOMAIN run' = DOMAIN run /\ \A q \in DOMAIN run \ {r} : run'[q] = run[q]
        /\ run'[r] = [run[r] EXCEPT !.status = "failed", !.completed = now]
    BY <1>3, <2>1, RunParts DEF RunFields
  <2>3. RunOK(run'[r])
    BY <2>1, <2>2, FailedRun
  <2>4. SameColumns(run[r], run'[r])
    BY <2>1, <2>2, RunParts DEF SameColumns, RunFields
  <2> HIDE DEF r
  <2> QED
    BY <1>1, <2>2, <2>3, <2>4, WorkEnds DEF r
<1> QED
  BY <1>2, <1>3 DEF GiveUp
\* A cleanup empties the columns that named a deleted run.
LEMMA CleanReports == ASSUME Whole, Clean PROVE Reports'
<1> DEFINE left == Without(run, Expired)
<1>1. /\ run' = RunsAfter(left, DOMAIN view, DOMAIN schedule)
      /\ UNCHANGED <<editVars, now, faults, schedule, planned, made, lock, cycle, task>>
  BY DEF Clean, plans, cycleVars
<1>2. /\ AsksFrom /\ RequestsWait' /\ PlanRowsOK' /\ ViewsAdvance /\ RestOK'
      /\ DueFrom /\ CyclesWait'
  BY <1>1, GenerationLeft
<1>3. DOMAIN left \subseteq DOMAIN run /\ \A r \in DOMAIN left : left[r] = run[r]
  BY DEF Without
<1>4. \A r \in DOMAIN left : RunOK(left[r])
  BY <1>3 DEF Whole, Reports, RunRowsOK
<1> HIDE DEF left
<1>5. /\ DOMAIN run' = DOMAIN left
      /\ \A r \in DOMAIN left :
            /\ RunOK(run'[r]) /\ Cites(run'[r], left[r]) /\ run'[r].status = left[r].status
            /\ run'[r].view \in DOMAIN view \cup {None}
            /\ run'[r].schedule \in DOMAIN schedule \cup {None}
            /\ run'[r].retry_of \in DOMAIN left \cup {None}
  BY <1>1, <1>4, ReferencesKept
<1>6. RunRowsOK'
  BY <1>1, <1>5 DEF RunRowsOK, References, RunOK, editVars
<1>7. RunsFrom
  BY <1>3, <1>5, StillFrom, AllCiting DEF RunsFrom
<1>8. WorkersOK'
  BY <1>1, <1>3, <1>5 DEF Whole, Reports, WorkersOK
<1> QED
  BY <1>2, <1>6, <1>7, <1>8, Cited DEF Reports

\* A crash takes the generations of a backend.
LEMMA CrashReports == ASSUME Whole, NEW b \in Backend, Crash(b) PROVE Reports'
<1>1. /\ cycle' = [cycle EXCEPT ![b] = Resting] /\ faults < MaxFaults /\ faults' = faults + 1
      /\ task' = Without(task, {t \in DOMAIN task : t[1] = b})
      /\ lock' \in {lock, None}
      /\ UNCHANGED <<editVars, now, schedule, planned, made, run>>
  BY DEF Crash, plans
<1>2. AsksFrom /\ RequestsWait' /\ PlanRowsOK' /\ ViewsAdvance
  BY <1>1, EditsLeft
<1>3. DueFrom /\ CyclesWait'
  <2>1. Resting.at # "enqueue"
    BY DEF Resting
  <2> QED
    BY <1>1, <2>1, CycleMoves
<1>4. RunsFrom /\ RunRowsOK'
  BY <1>1, ReportsAlone DEF editVars
<1>5. DOMAIN task' \subseteq DOMAIN task /\ \A t \in DOMAIN task' : task'[t] = task[t]
  BY <1>1 DEF Without
<1>6. WorkersOK'
  BY <1>1, <1>5 DEF Whole, Reports, WorkersOK
<1>7. RestOK'
  BY <1>1, ReportsAssumption DEF Whole, Reports, RestOK, editVars
<1> QED
  BY <1>2, <1>3, <1>4, <1>6, <1>7, Cited DEF Reports

\* Time passes up to the horizon.
LEMMA TickReports == ASSUME Whole, Tick PROVE Reports'
<1>1. /\ now < scenario.horizon /\ now' = now + 1
      /\ UNCHANGED <<editVars, faults, schedule, planned, made, run, lock, cycle, task>>
  BY DEF Tick, plans, cycleVars
<1>2. AsksFrom /\ RequestsWait' /\ PlanRowsOK' /\ ViewsAdvance
  BY <1>1, EditsLeft
<1>3. /\ RunsFrom /\ RunRowsOK' /\ DueFrom /\ CyclesWait' /\ WorkersOK'
  BY <1>1, ReportsAlone DEF editVars
<1>4. RestOK'
  <2>1. scenario.horizon \in Nat /\ now \in Nat
    BY ReportsAssumption DEF Whole, Edits, EditsOK, ScenarioOK, IInv, RunsOK
  <2> QED
    BY <1>1, <2>1 DEF Whole, Reports, RestOK, editVars
<1> QED
  BY <1>2, <1>3, <1>4, Cited DEF Reports

\* A step of the system.
LEMMA StepReports == ASSUME Whole, Edits', [Next]_vars PROVE Reports'
<1>1. CASE UNCHANGED vars
  <2>1. UNCHANGED <<editVars, now, faults, schedule, planned, made, run, lock, cycle, task>>
    BY <1>1 DEF vars, reportVars
  <2>2. UNCHANGED <<view, used, raced, scenario, request>>
    BY <2>1 DEF editVars
  <2> QED
    BY <2>1, <2>2, ReportsAlone, Cited DEF Reports
<1>2. ASSUME NEW c \in Client, EditView(c) \/ AdminStep(c) PROVE Reports'
  BY <1>2, EditReports, AdminAsksReports, InsertRunReports, InsertScheduleReports,
     WriteScheduleReports, DropScheduleReports
  DEF AdminStep
<1>3. CASE CycleStep
  BY <1>3, BeginReports, EnqueueReports, PickReports, EndReports DEF CycleStep
<1>4. CASE TaskStep
  BY <1>4, StartReports, SkipReports, StoreReports, GiveUpReports DEF TaskStep
<1>5. CASE \E t \in DOMAIN task : GetFails(t)
  BY <1>5, GetFailsReports
<1>6. CASE \E b \in Backend : Crash(b)
  BY <1>6, CrashReports
<1> QED
  BY <1>1, <1>2, <1>3, <1>4, <1>5, <1>6, CleanReports, TickReports DEF Next
\* The reports at first.
LEMMA InitReports == Init => Reports
<1> SUFFICES ASSUME Init PROVE Reports
  OBVIOUS
<1>1. /\ request = [c \in Client |-> Idle] /\ scenario \in Scenarios
      /\ now = 0 /\ faults = 0 /\ schedule = <<>> /\ planned = {} /\ run = <<>> /\ made = 0
      /\ lock = None /\ cycle = [b \in Backend |-> Resting] /\ task = <<>>
  BY DEF Init, EditsInit
<1>2. RunRowsOK /\ PlanRowsOK /\ WorkersOK
  BY <1>1 DEF RunRowsOK, PlanRowsOK, WorkersOK
<1>3. RequestsWait
  BY <1>1 DEF RequestsWait, Inserting, Idle
<1>4. CyclesWait
  BY <1>1 DEF CyclesWait, Resting
<1>5. RestOK
  BY <1>1, ReportsAssumption DEF RestOK
<1>6. Citing = {}
  <2>1. InTable = {} /\ Asked = {}
    BY <1>1 DEF InTable, Asked, Inserting, Idle
  <2>2. Due = {}
    BY <1>1 DEF Due, Resting
  <2> QED
    BY <2>1, <2>2 DEF Citing
<1>7. CitationsOK
  BY <1>6 DEF CitationsOK
<1> QED
  BY <1>2, <1>3, <1>4, <1>5, <1>7 DEF Reports

\* The invariants hold together.
LEMMA AllHold == Spec => []Whole
<1>1. Whole /\ IInv' /\ Edits' /\ [Next]_vars => Whole'
  BY StepReports DEF Whole
<1>2. Init => Whole
  BY InitIsSafe, InitEdits, InitReports DEF Whole
<1> QED
  BY <1>1, <1>2, Safe, EditsHold, PTL DEF Spec

(* Every table holds what its columns may hold and names only rows that     *)
(* exist; the events of a device tell its metadata; a user exceeds the      *)
(* limit by requests under way only; and runs that name the same revision   *)
(* of a view have the same filters, however requests and cycles interleave. *)
THEOREM EditsAreSound == Spec => []EditInv
<1>1. ASSUME Whole PROVE EditsTypeOK
  <2>1. Len(edits) <= requests
    <3>1. /\ Len(edits) + Cardinality(Asking({"metadata"})) <= requests
          /\ Len(edits) \in Nat /\ requests \in Nat /\ Cardinality(Asking({"metadata"})) \in Nat
      BY <1>1, Numbers, AskingNumbers DEF Whole, Edits, CountsOK
    <3> QED
      BY <3>1
  <2> QED
    BY <1>1, <2>1 DEF Whole, Edits, EditsOK, ScenarioOK, ViewsOK, MetadataOK, Pending, Shown,
                      EditsTypeOK
<1>2. ASSUME Whole PROVE TypeOK
  <2>1. made \in Nat /\ DOMAIN run \subseteq 1 .. made
    BY <1>2 DEF Whole, IInv, RunsOK
  <2>2. \A r \in DOMAIN run :
           /\ run[r] \in Run
           /\ run[r].view \in DOMAIN view \cup {None}
           /\ run[r].schedule \in DOMAIN schedule \cup {None}
           /\ run[r].retry_of \in DOMAIN run \cup {None}
           /\ run[r].artifacts <=> run[r].status = "completed"
           /\ run[r].completed # None <=> run[r].status \in Final
    BY <1>2 DEF Whole, Reports, RunRowsOK, RunOK, References
  <2>3. \A s \in DOMAIN schedule : schedule[s] \in Plan
    BY <1>2 DEF Whole, Reports, PlanRowsOK
  <2>4. \A t \in DOMAIN task : task[t] \in {"get", "work"}
    BY <1>2 DEF Whole, Reports, WorkersOK
  <2> QED
    BY <1>1, <1>2, <2>1, <2>2, <2>3, <2>4 DEF Whole, Reports, PlanRowsOK, RestOK, TypeOK
<1>3. ASSUME Whole PROVE LimitHolds
  <2>1. ASSUME NEW u \in User
        PROVE  \/ Cardinality(OwnedBy(u)) <= Limit
               \/ Cardinality(OwnedBy(u)) < Limit + Cardinality(Of(u))
    <3>1. /\ Cardinality(OwnedBy(u)) \in Nat /\ Limit \in Nat /\ Cardinality(Of(u)) \in Nat
          /\ Of(u) \subseteq Client
      BY <1>3, Numbers DEF Whole, Edits
    <3>2. Cardinality(Of(u) \cap Asking(Makers)) \in Nat
      BY <3>1, AskingNumbers
    <3>3. WithinLimit(u)
      BY <1>3, CountParts DEF Whole, Edits
    <3> QED
      BY <3>1, <3>2, <3>3 DEF WithinLimit
  <2> QED
    BY <2>1 DEF LimitHolds, Of
<1>4. ASSUME Whole PROVE RevisionPinsFilters
  <2>1. ASSUME NEW q \in DOMAIN run, NEW r \in DOMAIN run, run[q].view = run[r].view,
               run[q].revision = run[r].revision, run[q].view \notin raced \cup {None}
        PROVE  run[q].content = run[r].content
    <3>1. run[q].view \in DOMAIN view \ raced
      BY <1>4, <2>1 DEF Whole, Reports, RunRowsOK, References
    <3>2. CitesAgree(run[q], run[r])
      BY <1>4, <3>1, AllCiting DEF Whole, Reports, CitationsOK
    <3> QED
      BY <2>1, <3>2 DEF CitesAgree
  <2> QED
    BY <2>1 DEF RevisionPinsFilters
<1>5. Whole => EditInv
  BY <1>2, <1>3, <1>4 DEF EditInv, Whole, Edits
<1> QED
  BY <1>5, AllHold, PTL
=============================================================================
