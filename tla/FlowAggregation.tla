--------------------------- MODULE FlowAggregation ---------------------------
(***************************************************************************)
(* Raw flows and their hourly and daily aggregates: update_flow_aggregates *)
(* and cleanup_flow_data of reporting.py, run by aggregate_flows_job under *)
(* advisory lock 81211 and by run_cleanup of operations.py under another   *)
(* one, next to the ingestion of sync_logs.                                *)
(*                                                                         *)
(* Time is counted in hours.  A flow is identified by the hour it starts   *)
(* in, a bucket by the flows it counts, so stored[g] is the set of flows   *)
(* the aggregates of granularity g count.                                  *)
(***************************************************************************)
EXTENDS Integers, FiniteSets

CONSTANTS
    Step,                 \* bucket_step: hours per bucket of a granularity
    Overlap,              \* timedelta(hours=3), timedelta(days=2)
    RawRetention,         \* flow_retention_days
    AggregateRetention,   \* flow_{hourly,daily}_aggregate_retention_days
    Delay,                \* bound: how late a record arrives
    Pause,                \* bound: the hours between two successful aggregations
    Length,               \* bound: the hours one aggregation takes
    Horizon               \* bound: the last hour

Granularity == {"hourly", "daily"}
Hour == 0 .. Horizon

ASSUME ConstantsAssumption ==
    /\ Step \in [Granularity -> Nat \ {0}]
    /\ Overlap \in [Granularity -> Nat]
    /\ AggregateRetention \in [Granularity -> Nat]
    /\ RawRetention \in Nat /\ Delay \in Nat /\ Pause \in Nat
    /\ Length \in Nat /\ Horizon \in Nat

VARIABLES
    now,
    \* --- PostgreSQL
    raw,          \* the flows table
    stored,       \* the flow_aggregates table
    coverage,     \* coverage[g]: the flow_aggregate_states row
    \* --- the aggregation: its phase, its reading of the clock and of the
    \* earliest flow, the hour it is at and what it built so far
    pc, clock, earliest, at, built,
    \* --- the cleanup: its reading of the clock and of the coverage
    cleaner,
    \* --- for the bound and the properties
    ran,          \* the clock of the last aggregation that committed
    fresh,        \* flows ingested since that aggregation began
    newer,        \* flows ingested since the current aggregation began
    removed       \* flows deleted by a cleanup

aggregation == <<pc, clock, earliest, at, built>>
history == <<ran, fresh, newer, removed>>
vars == <<now, raw, stored, coverage, pc, clock, earliest, at, built, cleaner,
          ran, fresh, newer, removed>>

Coverage == [success : BOOLEAN, start : Hour, end : Nat]
Idle == [clock |-> 0, covered |-> FALSE, busy |-> FALSE]
Nobuild == [g \in Granularity |-> {}]

TypeOK ==
    /\ now \in Hour
    /\ raw \subseteq Hour
    /\ stored \in [Granularity -> SUBSET Hour]
    /\ coverage \in [Granularity -> Coverage]
    /\ pc \in Granularity \cup {"idle"}
    /\ clock \in Hour /\ earliest \in Hour /\ at \in Int
    /\ built \in [Granularity -> SUBSET Hour]
    /\ cleaner \in [clock : Hour, covered : BOOLEAN, busy : BOOLEAN]
    /\ ran \in Hour
    /\ fresh \subseteq Hour /\ newer \subseteq fresh /\ removed \subseteq Hour

Init ==
    /\ now = 0 /\ raw = {}
    /\ stored = Nobuild
    /\ coverage = [g \in Granularity |-> [success |-> FALSE, start |-> 0, end |-> 0]]
    /\ pc = "idle" /\ clock = 0 /\ earliest = 0 /\ at = 0 /\ built = Nobuild
    /\ cleaner = Idle
    /\ ran = 0 /\ fresh = {} /\ newer = {} /\ removed = {}
-----------------------------------------------------------------------------
(* The clock and the ingestion.                                             *)

floor_bucket(hour, g) == (hour \div Step[g]) * Step[g]

\* Once an aggregation succeeded, the clock stops Pause hours after the reading
\* of the last one that committed, until another one commits; no aggregation
\* takes longer than Length.
Tick ==
    /\ now < Horizon
    /\ (\A g \in Granularity : coverage[g].success) => now - ran < Pause
    /\ pc # "idle" => now - clock < Length
    /\ now' = now + 1
    /\ UNCHANGED <<raw, stored, coverage, aggregation, cleaner, history>>

\* sync_logs: a flow is inserted unless its fingerprint is there.  A flow that
\* was deleted does not come back: the window that is fetched is far shorter
\* than the retention.
Ingest(hour) ==
    /\ hour \in now - Delay .. now
    /\ hour \in Hour \ (raw \cup removed)
    /\ raw' = raw \cup {hour}
    /\ fresh' = fresh \cup {hour}
    /\ newer' = newer \cup {hour}
    /\ UNCHANGED <<now, stored, coverage, aggregation, cleaner, ran, removed>>
-----------------------------------------------------------------------------
(* The aggregation.                                                         *)

\* Mutated: always from the earliest flow.
RebuildAll(g, first, time) == floor_bucket(first, g)

RebuildStart(g, first, time) ==
    floor_bucket(IF coverage[g].success /\ first < time - Overlap[g]
                 THEN time - Overlap[g] ELSE first, g)

Final(g) == floor_bucket(clock, g) + Step[g]

\* The lock is free (a second task would return at once).
Begin ==
    /\ pc = "idle"
    /\ newer' = {}
    /\ IF raw = {}
       THEN /\ ran' = now /\ fresh' = {}
            /\ UNCHANGED aggregation
       ELSE \E first \in raw :
            /\ \A hour \in raw : first <= hour
            /\ earliest' = first /\ clock' = now
            /\ pc' = "hourly" /\ at' = RebuildStart("hourly", first, now)
            /\ UNCHANGED <<built, ran, fresh>>
    /\ UNCHANGED <<now, raw, stored, coverage, cleaner, removed>>

\* rebuild_aggregate_range: one INSERT ... SELECT per hour.
Build ==
    /\ pc # "idle" /\ at < Final(pc)
    /\ built' = [built EXCEPT ![pc] = @ \cup ({at} \cap raw)]
    /\ at' = at + 1
    /\ UNCHANGED <<now, raw, stored, coverage, pc, clock, earliest, cleaner, history>>

NextGranularity ==
    /\ pc = "hourly" /\ at = Final(pc)
    /\ pc' = "daily" /\ at' = RebuildStart("daily", earliest, clock)
    /\ UNCHANGED <<now, raw, stored, coverage, clock, earliest, built, cleaner, history>>

Reset ==
    /\ pc' = "idle" /\ clock' = 0 /\ earliest' = 0 /\ at' = 0 /\ built' = Nobuild

\* The buckets of the range are replaced; the coverage grows to the whole of it.
Commit ==
    /\ pc = "daily" /\ at = Final(pc)
    /\ stored' = [g \in Granularity |->
          {hour \in stored[g] : hour < RebuildStart(g, earliest, clock)} \cup built[g]]
    /\ coverage' = [g \in Granularity |->
          LET start == RebuildStart(g, earliest, clock)  old == coverage[g] IN
          [success |-> TRUE,
           start |-> IF old.success /\ old.start < start THEN old.start ELSE start,
           end |-> IF old.success /\ old.end > Final(g) THEN old.end ELSE Final(g)]]
    /\ ran' = clock /\ fresh' = newer
    /\ Reset
    /\ UNCHANGED <<now, raw, cleaner, newer, removed>>

\* A statement fails, or the process dies: the transaction is rolled back.
Abort ==
    /\ pc # "idle" /\ Reset
    /\ UNCHANGED <<now, raw, stored, coverage, cleaner, history>>
-----------------------------------------------------------------------------
(* The cleanup.                                                             *)

\* Mutant of Covers: the coverage is not looked at.
CoversAlways(g, cutoff) == TRUE

Covers(g, cutoff) ==
    coverage[g].success /\ coverage[g].start <= cutoff /\ cutoff <= coverage[g].end

CleanBegin ==
    /\ ~cleaner.busy
    /\ cleaner' = [clock |-> now, busy |-> TRUE,
                   covered |-> \A g \in Granularity : Covers(g, now - RawRetention)]
    /\ UNCHANGED <<now, raw, stored, coverage, aggregation, history>>

Expired(g, hour, time) ==
    floor_bucket(hour, g) < floor_bucket(time - AggregateRetention[g], g)

\* Deletes what expired and, if both granularities cover the cutoff, raw flows.
CleanCommit ==
    /\ cleaner.busy
    /\ LET gone == IF cleaner.covered
                   THEN {hour \in raw : hour < cleaner.clock - RawRetention} ELSE {}
       IN  /\ raw' = raw \ gone
           /\ removed' = removed \cup gone
           /\ fresh' = fresh \ gone /\ newer' = newer \ gone
    /\ stored' = [g \in Granularity |->
                    {hour \in stored[g] : ~Expired(g, hour, cleaner.clock)}]
    /\ cleaner' = Idle
    /\ UNCHANGED <<now, coverage, aggregation, ran>>

CleanAbort ==
    /\ cleaner.busy /\ cleaner' = Idle
    /\ UNCHANGED <<now, raw, stored, coverage, aggregation, history>>
-----------------------------------------------------------------------------
Next ==
    \/ Tick \/ \E hour \in Hour : Ingest(hour)
    \/ Begin \/ Build \/ NextGranularity \/ Commit \/ Abort
    \/ CleanBegin \/ CleanCommit \/ CleanAbort

Spec == Init /\ [][Next]_vars
-----------------------------------------------------------------------------
(* Safety, while the times keep these margins.                              *)

\* A late record is still in the overlap of the next aggregation, and no raw
\* flow expires while an aggregation at work rebuilds its bucket.
Margins ==
    /\ Length <= Pause
    /\ \A g \in Granularity : /\ Delay + Pause <= Overlap[g]
                              /\ Overlap[g] + Step[g] + Length <= RawRetention + 1

Counted(g, hour) == hour \in stored[g] \/ Expired(g, hour, now)

(* No flow is deleted before both aggregates count it: what reports need of *)
(* it survives the raw row, whatever arrives late, fails or overlaps.       *)
RemovedIsAggregated ==
    \A hour \in removed : \A g \in Granularity : Counted(g, hour)

(* The coverage tells the truth: once an aggregation succeeded, every flow  *)
(* is counted except those ingested since the last one that succeeded began *)
(* (coverage_start and coverage_end, by which reports call themselves       *)
(* complete, promise it for the whole of their range).                      *)
CoverageIsSound ==
    \A g \in Granularity : coverage[g].success =>
       \A hour \in (raw \cup removed) \ fresh : Counted(g, hour)

(* Both, in every state: what is gone is counted, what is covered is too.   *)
RetentionInv == TypeOK /\ RemovedIsAggregated /\ CoverageIsSound

(* A flow that is counted stays counted until its bucket expires: a rebuild *)
(* never replaces a bucket whose raw rows are partly gone.                  *)
CountedIsKept ==
    [][\A g \in Granularity : \A hour \in stored[g] :
          hour \in stored'[g] \/ Expired(g, hour, now)]_vars
=============================================================================
