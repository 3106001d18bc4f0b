----------------------------- MODULE CleanupRuns ----------------------------
(***************************************************************************)
(* Retention: the cleanup runs of the scheduled jobs and of administrators *)
(* under one advisory lock, the findings job that deletes without it, and  *)
(* the local telemetry that keeps arriving.  A row is <<kind, id>> with    *)
(* the time its retention counts from, None while it does not count: a     *)
(* finding that is not resolved, a report that is not completed.  Whether  *)
(* the aggregates cover the raw cutoff is FlowAggregation's subject and is *)
(* free here.  Time is in days.                                            *)
(***************************************************************************)
EXTENDS Naturals, FiniteSets

CONSTANTS
    Cleaner,           \* the processes that call run_cleanup
    Scheduled,         \* those that do so every day
    Sweeper,           \* the findings-cleanup jobs
    Request,           \* the deliveries of telemetry
    Observed,          \* Observed[b]: the observation time in the body b
    Window,            \* the age of an observation that is still accepted
    Retention,         \* Retention[kind], in days
    HistoryRetention,  \* settings.operations_history_retention_days
    Scenarios,         \* sets of rows that may come to exist together
    Horizon,           \* bound: the last day
    MaxFaults,         \* bound: cleanups that stop halfway
    None

Kind == {"flow", "payload", "finding", "report", "history", "telemetry", "delivery"}

\* config.py keeps telemetry for a day at least, the window of api.py.
ASSUME CleanupAssumption ==
    /\ Scheduled \subseteq Cleaner
    /\ Retention \in [Kind -> Nat \ {0}] /\ HistoryRetention \in Nat \ {0}
    /\ Retention["delivery"] = Retention["finding"]
    /\ Window \in Nat /\ Window <= Retention["telemetry"]
    /\ Horizon \in Nat /\ MaxFaults \in Nat
    /\ \A b \in DOMAIN Observed : Observed[b] \in Nat
    /\ \A s \in Scenarios :
          /\ IsFiniteSet(s) /\ s \subseteq Kind \X (Nat \cup DOMAIN Observed)
          /\ \A b \in DOMAIN Observed : <<"telemetry", b>> \in s => <<"payload", b>> \in s
    /\ None \notin Nat \cup Cleaner

VARIABLES
    scenario, now, faults,
    rows,      \* the rows of the tables with a retention
    covered,   \* both aggregates cover the cutoff of raw flows
    lock,      \* the holder of the operations lock
    cleaner,   \* cleaner[c]: where run_cleanup is
    record,    \* the rows of cleanup_runs
    sweeper,   \* sweeper[s]: where cleanup_findings_job is
    request,   \* request[q]: where the delivery is
    \* --- history for the properties
    removed,   \* removed[k]: the rows of kind k that the run at work has deleted
    stored     \* stored[b]: how often the body b was stored

clock == <<scenario, now, faults>>
cleaning == <<lock, cleaner, record, removed>>
vars == <<clock, rows, covered, cleaning, sweeper, request, stored>>

Body == DOMAIN Observed
Idle == [at |-> "idle"]
Ids == 1 .. MaxFaults + 1
Counts == [Kind -> Nat]
Zero == [k \in Kind |-> 0]

Cleaning == [at : {"preview", "flows", "delete", "count", "unlock"}, id : Ids, before : Counts]
Arriving == {b \in Body : <<"telemetry", b>> \in scenario}
RunRecord == [status : {"running", "success", "failed"}, started : 0 .. now, deleted : Counts]

TypeOK ==
    /\ scenario \in Scenarios /\ now \in 0 .. Horizon /\ faults \in 0 .. MaxFaults
    /\ DOMAIN rows \subseteq scenario
    /\ rows \in [DOMAIN rows -> Nat \cup {None}]
    /\ covered \in BOOLEAN /\ lock \in Cleaner \cup {None}
    /\ cleaner \in [Cleaner -> {Idle} \cup Cleaning]
    /\ DOMAIN record \subseteq Ids /\ record \in [DOMAIN record -> RunRecord]
    /\ removed \in Counts
    /\ DOMAIN sweeper = Sweeper
    /\ \A s \in Sweeper :
          \/ sweeper[s] = Idle
          \/ LET found == sweeper[s].found
             IN sweeper[s] = [at |-> "delete", found |-> found] /\ found \in [DOMAIN found -> Nat]
    /\ request \in [Request -> {Idle} \cup [at : {"store"}, body : Arriving, known : BOOLEAN]]
    /\ stored \in [Body -> Nat]

Init ==
    /\ scenario \in Scenarios /\ now = 0 /\ faults = 0
    /\ rows = <<>> /\ covered \in BOOLEAN
    /\ lock = None /\ cleaner = [c \in Cleaner |-> Idle] /\ record = <<>> /\ removed = Zero
    /\ sweeper = [s \in Sweeper |-> Idle] /\ request = [q \in Request |-> Idle]
    /\ stored = [b \in Body |-> 0]
-----------------------------------------------------------------------------
(* What is due.                                                             *)

\* Mutated: a time that is not set counts as long ago.
DueUnset(r, t) == rows[r] = None \/ rows[r] + Retention[r[1]] < t
Due(r, t) == rows[r] # None /\ rows[r] + Retention[r[1]] < t

With(f, x, value) == [y \in DOMAIN f \cup {x} |-> IF y = x THEN value ELSE f[y]]
Without(f, gone) == [x \in DOMAIN f \ gone |-> f[x]]
OfKinds(kinds) == {r \in DOMAIN rows : r[1] \in kinds}
DueOf(kinds) == {r \in OfKinds(kinds) : Due(r, now)}
Tally(set) == [k \in Kind |-> Cardinality({r \in set : r[1] = k})]

\* The deliveries of findings are not counted, and flows only where covered.
retention_snapshot ==
    Tally(DueOf(Kind \ ({"delivery"} \cup (IF covered THEN {} ELSE {"flow"}))))
-----------------------------------------------------------------------------
(* run_cleanup.                                                             *)

At(c, place) == cleaner[c].at = place
Goes(c, place) == cleaner' = [cleaner EXCEPT ![c].at = place]
Deletes(gone) ==
    /\ rows' = Without(rows, gone)
    /\ removed' = [k \in Kind |-> removed[k] + Tally(gone)[k]]
Elsewhere == UNCHANGED <<clock, covered, sweeper, request, stored>>

\* Mutated: the lock is not asked for.
TryLockIgnored(c) == lock' = c
\* A cleaner that meets the lock raises, and a scheduled job counts a failure.
TryLock(c) == lock = None /\ lock' = c

Begin(c) ==
    /\ At(c, "idle") /\ TryLock(c)
    /\ LET i == CHOOSE x \in Ids : x \notin DOMAIN record
       IN /\ record' = With(record, i, [status |-> "running", started |-> now, deleted |-> Zero])
          /\ cleaner' = [cleaner EXCEPT ![c] = [at |-> "preview", id |-> i, before |-> Zero]]
    /\ removed' = Zero
    /\ UNCHANGED rows /\ Elsewhere

Preview(c) ==
    /\ At(c, "preview")
    /\ cleaner' = [cleaner EXCEPT ![c] = [at |-> "flows", id |-> @.id, before |-> retention_snapshot]]
    /\ UNCHANGED <<rows, lock, record, removed>> /\ Elsewhere

\* A transaction of its own.
cleanup_flow_data(c) ==
    /\ At(c, "flows") /\ Goes(c, "delete")
    /\ Deletes(IF covered THEN DueOf({"flow"}) ELSE {})
    /\ UNCHANGED <<lock, record>> /\ Elsewhere

\* Mutated: a table is forgotten.
TablesWithoutReports == {"payload", "finding", "history", "telemetry"}
Tables == {"payload", "finding", "report", "history", "telemetry"}

\* One transaction over the other tables, old cleanup records included.
Delete(c) ==
    /\ At(c, "delete") /\ Goes(c, "count")
    /\ record' = Without(record, {i \in DOMAIN record : record[i].started + HistoryRetention < now})
    /\ Deletes(DueOf(Tables))
    /\ UNCHANGED lock /\ Elsewhere

\* What is due now is taken away from what was due then.
Count(c) ==
    /\ At(c, "count") /\ Goes(c, "unlock")
    /\ LET after == retention_snapshot
           before == cleaner[c].before
       IN record' = [record EXCEPT ![cleaner[c].id] =
                        [@ EXCEPT !.status = "success",
                                  !.deleted = [k \in Kind |-> IF before[k] > after[k]
                                                              THEN before[k] - after[k] ELSE 0]]]
    /\ UNCHANGED <<rows, lock, removed>> /\ Elsewhere

\* Bound: the record of a success is forgotten here; nothing reads it later but
\* the reports to administrators.
Unlock(c) ==
    /\ At(c, "unlock")
    /\ cleaner' = [cleaner EXCEPT ![c] = Idle] /\ lock' = None
    /\ record' = Without(record, {cleaner[c].id}) /\ removed' = Zero
    /\ UNCHANGED rows /\ Elsewhere

\* An error, a shutdown or a crash; each gives the lock back.  The handler of an
\* error reads the id of the record that its own rollback has expired: where that
\* read raises, the record stays "running" as after a crash.
Stops(c) ==
    /\ ~At(c, "idle") /\ faults < MaxFaults /\ faults' = faults + 1
    /\ cleaner' = [cleaner EXCEPT ![c] = Idle]
    /\ lock' = IF lock = c THEN None ELSE lock
    /\ IF At(c, "unlock") THEN record' = Without(record, {cleaner[c].id})
       ELSE \/ UNCHANGED record
            \/ record' = [record EXCEPT ![cleaner[c].id].status = "failed"]
    /\ removed' = Zero
    /\ UNCHANGED <<scenario, now, rows, covered, sweeper, request, stored>>
-----------------------------------------------------------------------------
(* cleanup_findings_job: no lock, one transaction.  The subquery is read at *)
(* its start: a finding that is reopened before the row itself is deleted   *)
(* is deleted all the same, since only its id is compared again.            *)

Scan(s) ==
    /\ sweeper[s].at = "idle" /\ OfKinds({"finding", "delivery"}) # {}
    /\ sweeper' = [sweeper EXCEPT ![s] =
                      [at |-> "delete", found |-> [r \in DueOf({"finding", "delivery"}) |-> rows[r]]]]
    /\ UNCHANGED <<clock, rows, covered, cleaning, request, stored>>

Sweep(s) ==
    /\ sweeper[s].at = "delete"
    /\ rows' = Without(rows, DOMAIN sweeper[s].found)
    /\ sweeper' = [sweeper EXCEPT ![s] = Idle]
    /\ UNCHANGED <<clock, covered, cleaning, request, stored>>
-----------------------------------------------------------------------------
(* Telemetry: the body is its own key.                                      *)

Accepted(b) == now <= Observed[b] + Window

Receive(q) ==
    /\ request[q].at = "idle"
    /\ \E b \in Arriving :
          /\ Observed[b] <= now /\ Accepted(b)
          /\ request' = [request EXCEPT ![q] = [at |-> "store", body |-> b,
                                                known |-> <<"telemetry", b>> \in DOMAIN rows]]
    /\ UNCHANGED <<clock, rows, covered, cleaning, sweeper, stored>>

\* The observation and its payload in one transaction; a key that is there by
\* now refuses both.
Store(q) ==
    /\ request[q].at = "store"
    /\ request' = [request EXCEPT ![q] = Idle]
    /\ LET b == request[q].body
           new == {<<"telemetry", b>>, <<"payload", b>>}
       IN \/ /\ request[q].known \/ new \cap DOMAIN rows # {}
             /\ UNCHANGED <<rows, stored>>
          \/ /\ ~request[q].known /\ new \cap DOMAIN rows = {}
             /\ rows' = With(With(rows, <<"payload", b>>, now), <<"telemetry", b>>, Observed[b])
             /\ stored' = [stored EXCEPT ![b] = @ + 1]
    /\ UNCHANGED <<clock, covered, cleaning, sweeper>>
-----------------------------------------------------------------------------
(* The other writers of the tables, and time.                               *)

Settled == {"finding", "report"}  \* counted from when they are resolved or completed

\* Bound: an id is given again, but not while a findings job still names it.
Insert(r) ==
    /\ \A s \in Sweeper : sweeper[s].at = "delete" => r \notin DOMAIN sweeper[s].found
    /\ r \notin DOMAIN rows /\ r[1] \notin {"telemetry", "payload"}
    /\ \A x \in scenario : x[1] = r[1] /\ x[2] < r[2] => x \in DOMAIN rows
    /\ rows' = With(rows, r, IF r[1] \in Settled THEN None ELSE now)
    /\ UNCHANGED <<clock, covered, cleaning, sweeper, request, stored>>

Settle(r) ==
    /\ r[1] \in Settled /\ rows[r] = None
    /\ rows' = [rows EXCEPT ![r] = now]
    /\ UNCHANGED <<clock, covered, cleaning, sweeper, request, stored>>

Reopen(r) ==
    /\ r[1] = "finding" /\ rows[r] # None
    /\ rows' = [rows EXCEPT ![r] = None]
    /\ UNCHANGED <<clock, covered, cleaning, sweeper, request, stored>>

\* What FlowAggregation does to the coverage.
Aggregate ==
    /\ \E r \in scenario : r[1] = "flow"
    /\ covered' = ~covered
    /\ UNCHANGED <<clock, rows, cleaning, sweeper, request, stored>>

\* Deliveries take no time in days, and a cleanup does not outlast a day.
Tick ==
    /\ now < Horizon
    /\ \A q \in Request : request[q] = Idle
    /\ \A c \in Cleaner : ~At(c, "idle") => record[cleaner[c].id].started = now
    /\ now' = now + 1
    /\ UNCHANGED <<scenario, faults, rows, covered, cleaning, sweeper, request, stored>>
-----------------------------------------------------------------------------
Step(c) == Preview(c) \/ cleanup_flow_data(c) \/ Delete(c) \/ Count(c) \/ Unlock(c)

Next ==
    \/ \E c \in Cleaner : Begin(c) \/ Step(c) \/ Stops(c)
    \/ \E s \in Sweeper : Scan(s) \/ Sweep(s)
    \/ \E q \in Request : Receive(q) \/ Store(q)
    \/ \E r \in scenario : Insert(r)
    \/ \E r \in DOMAIN rows : Settle(r) \/ Reopen(r)
    \/ Aggregate \/ Tick

\* The scheduler starts its job every day, and what runs goes on.
Fairness ==
    /\ WF_vars(\E c \in Scheduled : Begin(c))
    /\ \A c \in Cleaner : WF_vars(Step(c))
    /\ WF_vars(Tick)
    /\ \A s \in Sweeper : WF_vars(Scan(s)) /\ WF_vars(Sweep(s))
    /\ \A q \in Request : WF_vars(Store(q))

Spec == Init /\ [][Next]_vars /\ Fairness
-----------------------------------------------------------------------------
(* At most one cleanup is at work, and it holds the lock.                   *)
OneCleanup == \A c \in Cleaner : ~At(c, "idle") => lock = c

(* A run that reports success never reports more than it deleted itself, in *)
(* the tables where rows only age: what another run deleted is not counted  *)
(* a second time.                                                           *)
DeletedIsOwn ==
    \A c \in Cleaner : At(c, "unlock") =>
       /\ record[cleaner[c].id].status = "success"
       /\ \A k \in {"payload", "report", "history", "telemetry"} :
             record[cleaner[c].id].deleted[k] <= removed[k]

(* A body is stored once, however often it is delivered: neither deliveries *)
(* of it at the same time, nor one that comes after the cleanup has deleted *)
(* the observation, make another.                                           *)
StoredOnce == \A b \in Body : stored[b] <= 1

CleanupInv == TypeOK /\ OneCleanup /\ DeletedIsOwn /\ StoredOnce

\* Without the operators of the model.
Old(time, days) == time # None /\ time + days < now

(* Only what is due disappears, raw flows only while the aggregates cover   *)
(* them; but a finding may be reopened between scan and delete of the       *)
(* findings job.                                                            *)
OnlyDueGoes ==
    [][\A r \in DOMAIN rows \ DOMAIN rows' :
          /\ r[1] = "flow" => covered
          /\ \/ Old(rows[r], Retention[r[1]])
             \/ \E s \in Sweeper :
                   /\ sweeper[s].at = "delete" /\ r \in DOMAIN sweeper[s].found
                   /\ r[1] = "finding" /\ Old(sweeper[s].found[r], Retention["finding"])]_vars

(* Whatever stops halfway or meets the lock, what is due is deleted in the  *)
(* end, and so is the record that a stopped cleanup left "running".         *)
DueIsDeleted ==
    <>[](/\ DueOf(Kind \ {"flow"}) = {}
         /\ \A i \in DOMAIN record : record[i].started + HistoryRetention >= now)
=============================================================================
