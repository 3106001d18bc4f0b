-------------------------- MODULE CleanupRunsProofs --------------------------
(***************************************************************************)
(* Proofs about CleanupRuns for any number of cleaners, findings jobs and  *)
(* deliveries, any retentions and any sets of rows: one cleanup at a time, *)
(* what it reports as deleted, bodies stored once, and that only what is   *)
(* due disappears.                                                         *)
(***************************************************************************)
EXTENDS CleanupRuns, FiniteSetTheorems, TLAPS

(* The kinds whose rows only age.                                           *)
Aging == {"payload", "report", "history", "telemetry"}

DueRows(k) == {r \in DOMAIN rows : r[1] = k /\ Due(r, now)}

(* Every record but that of the cleanup at work was left by a fault.        *)
RecordsAreFew ==
    Cardinality(DOMAIN record) <= faults + (IF lock = None THEN 0 ELSE 1)

(* The record of a cleanup at work is there, and not old.                   *)
RecordIsKept ==
    \A c \in Cleaner : ~At(c, "idle") =>
       cleaner[c].id \in DOMAIN record /\ now <= record[cleaner[c].id].started + 1

(* What was due before and is not any more, the cleanup has deleted.        *)
DueIsAccounted ==
    \A c \in Cleaner : cleaner[c].at \in {"flows", "delete", "count"} =>
       \A k \in Aging : cleaner[c].before[k] <= Cardinality(DueRows(k)) + removed[k]

(* A body that was stored and is still accepted has its observation.        *)
StoredIsThere ==
    /\ \A b \in Body : stored[b] > 0 /\ Accepted(b) => <<"telemetry", b>> \in DOMAIN rows
    /\ \A b \in Body : <<"telemetry", b>> \in DOMAIN rows =>
          rows[<<"telemetry", b>>] = Observed[b]
    /\ \A q \in Request : request[q].at = "store" => Accepted(request[q].body)

(* What a findings job has found was due, and a delivery stays so.          *)
FoundWasDue ==
    \A s \in Sweeper : sweeper[s].at = "delete" => \A r \in DOMAIN sweeper[s].found :
       /\ r[1] \in {"finding", "delivery"}
       /\ sweeper[s].found[r] + Retention[r[1]] < now
       /\ r[1] = "delivery" /\ r \in DOMAIN rows => rows[r] = sweeper[s].found[r]

IInv == /\ TypeOK /\ OneCleanup /\ RecordsAreFew /\ RecordIsKept /\ DueIsAccounted
        /\ DeletedIsOwn /\ StoredOnce /\ StoredIsThere /\ FoundWasDue
-----------------------------------------------------------------------------
(* The tables.                                                              *)

\* Every row has a kind and a retention, and there are finitely many.
LEMMA RowKinds ==
    ASSUME TypeOK
    PROVE  /\ IsFiniteSet(DOMAIN rows) /\ IsFiniteSet(scenario)
           /\ \A r \in scenario : r[1] \in Kind
           /\ \A k \in Kind : Retention[k] \in Nat \ {0}
           /\ \A r \in DOMAIN rows : r \in scenario /\ rows[r] \in Nat \cup {None}
           /\ now \in Nat /\ faults \in Nat /\ MaxFaults \in Nat /\ None \notin Nat
<1>1. scenario \in Scenarios /\ DOMAIN rows \subseteq scenario
  BY DEF TypeOK
<1>2. IsFiniteSet(scenario) /\ scenario \subseteq Kind \X (Nat \cup DOMAIN Observed)
  BY <1>1, CleanupAssumption
<1>3. IsFiniteSet(DOMAIN rows)
  BY <1>1, <1>2, FS_Subset
<1>4. \A r \in scenario : r[1] \in Kind
  BY <1>2
<1> QED
  BY <1>1, <1>2, <1>3, <1>4, CleanupAssumption DEF TypeOK

\* The due rows of a kind can be counted, and snapshots and tallies do that.
LEMMA Counting ==
    ASSUME TypeOK
    PROVE  /\ \A k : IsFiniteSet(DueRows(k)) /\ Cardinality(DueRows(k)) \in Nat
           /\ retention_snapshot \in Counts
           /\ \A k \in Aging : retention_snapshot[k] = Cardinality(DueRows(k))
           /\ \A gone \in SUBSET DOMAIN rows :
                 /\ IsFiniteSet(gone) /\ Tally(gone) \in Counts
                 /\ \A k \in Kind : Tally(gone)[k] = Cardinality({r \in gone : r[1] = k})
<1>1. \A set \in SUBSET DOMAIN rows : IsFiniteSet(set) /\ Cardinality(set) \in Nat
  BY RowKinds, FS_Subset, FS_CardinalityType
<1>2. ASSUME NEW gone \in SUBSET DOMAIN rows
      PROVE  /\ Tally(gone) \in Counts
             /\ \A k \in Kind : Tally(gone)[k] = Cardinality({r \in gone : r[1] = k})
  <2>1. \A k \in Kind : Cardinality({r \in gone : r[1] = k}) \in Nat
    BY <1>1
  <2> QED
    BY <2>1 DEF Tally, Counts
<1>3. \A k : DueRows(k) \in SUBSET DOMAIN rows
  BY DEF DueRows
<1> DEFINE kinds == Kind \ ({"delivery"} \cup (IF covered THEN {} ELSE {"flow"}))
<1>4. retention_snapshot = Tally(DueOf(kinds)) /\ DueOf(kinds) \in SUBSET DOMAIN rows
  BY DEF retention_snapshot, DueOf, OfKinds
<1>5. ASSUME NEW k \in Aging PROVE {r \in DueOf(kinds) : r[1] = k} = DueRows(k) /\ k \in Kind
  <2>1. k \in kinds
    BY DEF Aging, Kind
  <2> HIDE DEF kinds
  <2> QED
    BY <2>1, <1>5 DEF DueOf, OfKinds, DueRows, Aging, Kind
<1> HIDE DEF kinds
<1> QED
  BY <1>1, <1>2, <1>3, <1>4, <1>5

\* A cleaner that is not idle is at work on a record.
LEMMA CleanerTypes ==
    ASSUME TypeOK, NEW c \in Cleaner
    PROVE  /\ At(c, "idle") <=> cleaner[c] = Idle
           /\ ~At(c, "idle") => /\ cleaner[c] \in Cleaning /\ cleaner[c].id \in Ids
                                /\ cleaner[c].before \in Counts
<1>1. cleaner[c] \in {Idle} \cup Cleaning
  BY DEF TypeOK
<1>2. Idle.at = "idle" /\ \A x \in Cleaning : x.at # "idle" /\ x.id \in Ids /\ x.before \in Counts
  BY DEF Idle, Cleaning
<1> QED
  BY <1>1, <1>2 DEF At

\* A cleaner moves on.
LEMMA GoesOn ==
    ASSUME TypeOK, NEW c \in Cleaner, ~At(c, "idle"),
           NEW place \in {"preview", "flows", "delete", "count", "unlock"}, Goes(c, place)
    PROVE  /\ cleaner' \in [Cleaner -> {Idle} \cup Cleaning]
           /\ cleaner'[c].at = place /\ cleaner'[c].id = cleaner[c].id
           /\ cleaner'[c].before = cleaner[c].before
           /\ \A d \in Cleaner : d # c => cleaner'[d] = cleaner[d]
<1>1. cleaner[c] \in Cleaning
  BY CleanerTypes
<1>2. cleaner' = [cleaner EXCEPT ![c] = [cleaner[c] EXCEPT !.at = place]]
  BY DEF Goes
<1>3. [cleaner[c] EXCEPT !.at = place] = [at |-> place, id |-> cleaner[c].id,
                                          before |-> cleaner[c].before]
  BY <1>1 DEF Cleaning
<1>4. cleaner'[c] = [at |-> place, id |-> cleaner[c].id, before |-> cleaner[c].before]
      /\ \A d \in Cleaner : d # c => cleaner'[d] = cleaner[d]
  BY <1>2, <1>3 DEF TypeOK
<1>5. cleaner'[c] \in Cleaning
  BY <1>1, <1>4 DEF Cleaning
<1> QED
  BY <1>2, <1>4, <1>5 DEF TypeOK

\* Deletion takes rows away and counts them.
LEMMA DeletesRows ==
    ASSUME TypeOK, NEW gone \in SUBSET DOMAIN rows, Deletes(gone)
    PROVE  /\ DOMAIN rows' = DOMAIN rows \ gone
           /\ \A r \in DOMAIN rows' : rows'[r] = rows[r]
           /\ rows' \in [DOMAIN rows' -> Nat \cup {None}]
           /\ removed' \in Counts
           /\ \A k \in Kind : removed'[k] = removed[k] + Cardinality({r \in gone : r[1] = k})
<1>1. rows' = Without(rows, gone) /\ removed' = [k \in Kind |-> removed[k] + Tally(gone)[k]]
  BY DEF Deletes
<1>2. removed \in Counts /\ Tally(gone) \in Counts
      /\ \A k \in Kind : Tally(gone)[k] = Cardinality({r \in gone : r[1] = k})
  BY Counting DEF TypeOK
<1>3. removed' \in Counts
      /\ \A k \in Kind : removed'[k] = removed[k] + Cardinality({r \in gone : r[1] = k})
  BY <1>1, <1>2 DEF Counts
<1>4. DOMAIN rows' = DOMAIN rows \ gone /\ \A r \in DOMAIN rows' : rows'[r] = rows[r]
  BY <1>1 DEF Without
<1>5. rows' \in [DOMAIN rows' -> Nat \cup {None}]
  BY <1>1, <1>4, RowKinds DEF Without
<1> QED
  BY <1>3, <1>4, <1>5

\* There is an id for the next record.
LEMMA FreeId ==
    ASSUME TypeOK, RecordsAreFew, lock = None
    PROVE  (CHOOSE x \in Ids : x \notin DOMAIN record) \in Ids \ DOMAIN record
<1>1. IsFiniteSet(Ids) /\ Cardinality(Ids) = MaxFaults + 1
  <2>1. MaxFaults + 1 \in Int /\ 1 \in Int /\ ~(1 > MaxFaults + 1)
    BY RowKinds
  <2>2. IsFiniteSet(Ids) /\ Cardinality(Ids) = (MaxFaults + 1) - 1 + 1
    BY <2>1, FS_Interval DEF Ids
  <2> QED
    BY <2>2, RowKinds
<1>2. DOMAIN record \subseteq Ids /\ Cardinality(DOMAIN record) <= faults /\ faults <= MaxFaults
  BY RowKinds DEF TypeOK, RecordsAreFew
<1>3. DOMAIN record # Ids
  BY <1>1, <1>2, RowKinds
<1>4. \E x \in Ids : x \notin DOMAIN record
  BY <1>2, <1>3
<1> QED
  BY <1>4
-----------------------------------------------------------------------------
(* What the steps do.                                                       *)

\* The steps of the cleaners.
Cleans(c) == Begin(c) \/ Step(c) \/ Stops(c)

\* The steps of everyone else, and time.
Outside ==
    \/ \E s \in Sweeper : Scan(s) \/ Sweep(s)
    \/ \E q \in Request : Receive(q) \/ Store(q)
    \/ \E r \in scenario : Insert(r)
    \/ \E r \in DOMAIN rows : Settle(r) \/ Reopen(r)
    \/ Aggregate \/ Tick

\* Who is outside touches no cleaner.
LEMMA OutsideKeeps ==
    ASSUME Outside
    PROVE  /\ UNCHANGED <<cleaning, scenario, faults>>
           /\ now' = now \/ Tick
BY DEF Outside, Scan, Sweep, Receive, Store, Insert, Settle, Reopen, Aggregate, Tick,
       cleaning, clock

\* A cleaner touches neither the findings jobs nor the deliveries, and inserts nothing.
LEMMA CleansKeeps ==
    ASSUME TypeOK, NEW c \in Cleaner, Cleans(c)
    PROVE  /\ UNCHANGED <<scenario, now, covered, sweeper, request, stored>>
           /\ DOMAIN rows' \subseteq DOMAIN rows /\ rows' \in [DOMAIN rows' -> Nat \cup {None}]
           /\ \A r \in DOMAIN rows' : rows'[r] = rows[r]
           /\ \A r \in DOMAIN rows \ DOMAIN rows' : Due(r, now) /\ (r[1] = "flow" => covered)
           /\ removed' \in Counts
           /\ \A r \in DOMAIN rows \ DOMAIN rows' : r[1] \in Tables \cup {"flow"}
<1>1. UNCHANGED <<scenario, now, covered, sweeper, request, stored>>
  BY DEF Cleans, Step, Begin, Preview, cleanup_flow_data, Delete, Count, Unlock, Stops,
         Elsewhere, clock
<1>2. ASSUME NEW gone \in SUBSET DOMAIN rows, Deletes(gone)
      PROVE  /\ DOMAIN rows' = DOMAIN rows \ gone /\ rows' \in [DOMAIN rows' -> Nat \cup {None}]
             /\ \A r \in DOMAIN rows' : rows'[r] = rows[r]
             /\ \A r \in DOMAIN rows \ DOMAIN rows' : r \in gone
             /\ removed' \in Counts
  BY <1>2, DeletesRows
<1>3. CASE cleanup_flow_data(c)
  <2> DEFINE gone == IF covered THEN DueOf({"flow"}) ELSE {}
  <2>1. Deletes(gone)
    BY <1>3 DEF cleanup_flow_data
  <2>2. /\ gone \in SUBSET DOMAIN rows
        /\ \A r \in gone : Due(r, now) /\ covered /\ r[1] = "flow"
    BY DEF DueOf, OfKinds
  <2> HIDE DEF gone
  <2> QED
    BY <1>1, <1>2, <2>1, <2>2
<1>4. CASE Delete(c)
  <2> DEFINE gone == DueOf(Tables)
  <2>1. Deletes(gone)
    BY <1>4 DEF Delete
  <2>2. /\ gone \in SUBSET DOMAIN rows
        /\ \A r \in gone : Due(r, now) /\ r[1] \in Tables
    BY DEF DueOf, OfKinds
  <2>3. "flow" \notin Tables
    BY DEF Tables
  <2> HIDE DEF gone
  <2>4. \A r \in gone : (r[1] = "flow" => covered) /\ r[1] \in Tables \cup {"flow"}
    BY <2>2, <2>3
  <2> QED
    BY <1>1, <1>2, <2>1, <2>2, <2>4
<1>5. CASE Begin(c) \/ Preview(c) \/ Count(c) \/ Unlock(c) \/ Stops(c)
  <2>1. rows' = rows
    BY <1>5 DEF Begin, Preview, Count, Unlock, Stops
  <2>2. Zero \in Counts
    BY DEF Zero, Counts
  <2>3. removed' \in Counts
    BY <1>5, <2>2 DEF Begin, Preview, Count, Unlock, Stops, TypeOK
  <2> QED
    BY <1>1, <2>1, <2>3 DEF TypeOK
<1> QED
  BY <1>3, <1>4, <1>5 DEF Cleans, Step
-----------------------------------------------------------------------------
(* Type correctness.                                                        *)

\* The types hold at first.
LEMMA TypeInit == Init => TypeOK
<1> SUFFICES ASSUME Init PROVE TypeOK
  OBVIOUS
<1>1. DOMAIN << >> = {} /\ << >> \in [{} -> Nat \cup {None}] /\ << >> \in [{} -> RunRecord]
  OBVIOUS
<1>2. Zero \in Counts
  BY DEF Zero, Counts
<1> QED
  BY <1>1, <1>2, CleanupAssumption DEF Init, TypeOK

\* Who is outside keeps the types.
LEMMA TypeOutside == ASSUME TypeOK, Outside PROVE TypeOK'
<1> DEFINE Named(s) == \/ sweeper[s] = Idle
                       \/ LET found == sweeper[s].found
                          IN /\ sweeper[s] = [at |-> "delete", found |-> found]
                             /\ found \in [DOMAIN found -> Nat]
<1>1. \A s \in Sweeper : Named(s)
  BY DEF TypeOK
<1>2. ASSUME NEW s \in Sweeper, Scan(s) PROVE TypeOK'
  <2> DEFINE due == DueOf({"finding", "delivery"})
             found == [r \in due |-> rows[r]]
  <2>1. \A r \in due : rows[r] \in Nat
    BY RowKinds DEF DueOf, OfKinds, Due
  <2>2. sweeper'[s] = [at |-> "delete", found |-> found] /\ DOMAIN sweeper' = Sweeper
        /\ \A t \in Sweeper \ {s} : sweeper'[t] = sweeper[t]
    BY <1>2 DEF Scan, TypeOK
  <2>3. found \in [DOMAIN found -> Nat]
    BY <2>1
  <2> HIDE DEF found
  <2>4. Named(s)'
    BY <2>2, <2>3
  <2>5. \A t \in Sweeper : Named(t)'
    BY <1>1, <2>2, <2>4
  <2> QED
    BY <1>2, <2>2, <2>5 DEF Scan, TypeOK, clock, cleaning, RunRecord, Arriving
<1>3. ASSUME NEW s \in Sweeper, Sweep(s) PROVE TypeOK'
  <2>1. DOMAIN rows' \subseteq DOMAIN rows /\ rows' \in [DOMAIN rows' -> Nat \cup {None}]
    BY <1>3, RowKinds DEF Sweep, Without
  <2>2. sweeper'[s] = Idle /\ DOMAIN sweeper' = Sweeper
        /\ \A t \in Sweeper \ {s} : sweeper'[t] = sweeper[t]
    BY <1>3 DEF Sweep, TypeOK
  <2>3. \A t \in Sweeper : Named(t)'
    BY <1>1, <2>2
  <2> QED
    BY <1>3, <2>1, <2>2, <2>3 DEF Sweep, TypeOK, clock, cleaning, RunRecord, Arriving
<1>4. ASSUME NEW q \in Request, Receive(q) PROVE TypeOK'
  <2>1. PICK b \in Arriving :
           request' = [request EXCEPT ![q] = [at |-> "store", body |-> b,
                                              known |-> <<"telemetry", b>> \in DOMAIN rows]]
    BY <1>4 DEF Receive
  <2>2. [at |-> "store", body |-> b, known |-> <<"telemetry", b>> \in DOMAIN rows]
           \in [at : {"store"}, body : Arriving, known : BOOLEAN]
    OBVIOUS
  <2>3. request' \in [Request -> {Idle} \cup [at : {"store"}, body : Arriving, known : BOOLEAN]]
    BY <2>1, <2>2 DEF TypeOK
  <2> QED
    BY <1>4, <2>3 DEF Receive, TypeOK, clock, cleaning, RunRecord, Arriving
<1>5. ASSUME NEW q \in Request, Store(q) PROVE TypeOK'
  <2> DEFINE b == request[q].body
  <2>1. /\ b \in Body /\ <<"telemetry", b>> \in scenario /\ <<"payload", b>> \in scenario
        /\ Observed[b] \in Nat /\ now \in Nat
    <3>1. b \in Arriving
      <4>1. request[q] \in {Idle} \cup [at : {"store"}, body : Arriving, known : BOOLEAN]
        BY DEF TypeOK
      <4>2. request[q] # Idle
        BY <1>5 DEF Store, Idle
      <4> QED
        BY <4>1, <4>2
    <3>2. scenario \in Scenarios
      BY DEF TypeOK
    <3> HIDE DEF b
    <3> QED
      BY <3>1, <3>2, CleanupAssumption, RowKinds DEF Arriving, Body
  <2>2. request' \in [Request -> {Idle} \cup [at : {"store"}, body : Arriving, known : BOOLEAN]]
    BY <1>5 DEF Store, TypeOK
  <2>3. CASE UNCHANGED <<rows, stored>>
    BY <1>5, <2>2, <2>3 DEF Store, TypeOK, clock, cleaning, RunRecord, Arriving
  <2>4. CASE /\ rows' = With(With(rows, <<"payload", b>>, now), <<"telemetry", b>>, Observed[b])
             /\ stored' = [stored EXCEPT ![b] = @ + 1]
    <3>1. DOMAIN rows' = DOMAIN rows \cup {<<"payload", b>>, <<"telemetry", b>>}
          /\ \A r \in DOMAIN rows' : rows'[r] = now \/ rows'[r] = Observed[b]
                                     \/ (r \in DOMAIN rows /\ rows'[r] = rows[r])
      BY <2>4 DEF With
    <3>2. rows' = [r \in DOMAIN rows' |-> rows'[r]]
      BY <2>4 DEF With
    <3> HIDE DEF b
    <3>3. rows' \in [DOMAIN rows' -> Nat \cup {None}] /\ DOMAIN rows' \subseteq scenario
      BY <2>1, <3>1, <3>2, RowKinds
    <3>4. stored' \in [Body -> Nat]
      BY <2>1, <2>4 DEF TypeOK
    <3> QED
      BY <1>5, <2>2, <3>3, <3>4 DEF Store, TypeOK, clock, cleaning, RunRecord, Arriving
  <2> QED
    BY <1>5, <2>3, <2>4 DEF Store
<1>6. ASSUME NEW r \in scenario, Insert(r) PROVE TypeOK'
  <2>1. DOMAIN rows' = DOMAIN rows \cup {r}
        /\ \A x \in DOMAIN rows' : rows'[x] \in {None, now} \/ (x \in DOMAIN rows /\ rows'[x] = rows[x])
    BY <1>6 DEF Insert, With
  <2>2. rows' = [x \in DOMAIN rows' |-> rows'[x]]
    BY <1>6 DEF Insert, With
  <2>3. rows' \in [DOMAIN rows' -> Nat \cup {None}] /\ DOMAIN rows' \subseteq scenario
    BY <2>1, <2>2, RowKinds
  <2> QED
    BY <1>6, <2>3 DEF Insert, TypeOK, clock, cleaning, RunRecord, Arriving
<1>7. ASSUME NEW r \in DOMAIN rows, Settle(r) \/ Reopen(r) PROVE TypeOK'
  <2>1. rows' \in [DOMAIN rows -> Nat \cup {None}]
    BY <1>7, RowKinds DEF Settle, Reopen, TypeOK
  <2>2. UNCHANGED <<clock, covered, cleaning, sweeper, request, stored>>
    BY <1>7 DEF Settle, Reopen
  <2> QED
    BY <2>1, <2>2 DEF TypeOK, clock, cleaning, RunRecord, Arriving
<1>8. CASE Aggregate
  BY <1>8 DEF Aggregate, TypeOK, clock, cleaning, RunRecord, Arriving
<1>9. CASE Tick
  <2>1. /\ now' = now + 1 /\ now < Horizon
        /\ UNCHANGED <<scenario, faults, rows, covered, cleaning, sweeper, request, stored>>
    BY <1>9 DEF Tick
  <2>2. now' \in 0 .. Horizon /\ 0 .. now \subseteq 0 .. now'
    BY <2>1, CleanupAssumption DEF TypeOK
  <2>3. RunRecord \subseteq RunRecord'
    BY <2>2 DEF RunRecord
  <2>4. record' \in [DOMAIN record' -> RunRecord']
    BY <2>1, <2>3 DEF TypeOK, cleaning
  <2> QED
    BY <2>1, <2>2, <2>4 DEF TypeOK, cleaning, Arriving
<1> QED
  BY <1>2, <1>3, <1>4, <1>5, <1>6, <1>7, <1>8, <1>9 DEF Outside
\* So do the cleaners.
LEMMA TypeCleans == ASSUME IInv, NEW c \in Cleaner, Cleans(c) PROVE TypeOK'
<1> USE DEF IInv
<1>1. /\ UNCHANGED <<scenario, now, covered, sweeper, request, stored>>
      /\ DOMAIN rows' \subseteq scenario /\ rows' \in [DOMAIN rows' -> Nat \cup {None}]
      /\ removed' \in Counts
  BY CleansKeeps DEF TypeOK
<1>2. SUFFICES /\ faults' \in 0 .. MaxFaults /\ lock' \in Cleaner \cup {None}
               /\ cleaner' \in [Cleaner -> {Idle} \cup Cleaning]
               /\ DOMAIN record' \subseteq Ids /\ record' \in [DOMAIN record' -> RunRecord]
  BY <1>1 DEF TypeOK, RunRecord, Arriving
<1>3. /\ faults \in 0 .. MaxFaults /\ lock \in Cleaner \cup {None}
      /\ cleaner \in [Cleaner -> {Idle} \cup Cleaning]
      /\ DOMAIN record \subseteq Ids /\ record \in [DOMAIN record -> RunRecord]
      /\ \A i \in DOMAIN record : record[i] \in RunRecord
  BY DEF TypeOK
<1>4. ~At(c, "idle") => cleaner[c].id \in DOMAIN record
  BY DEF RecordIsKept
<1>5. \A gone : /\ DOMAIN Without(record, gone) \subseteq Ids
                /\ Without(record, gone) \in [DOMAIN Without(record, gone) -> RunRecord]
  BY <1>3 DEF Without
<1>6. CASE Begin(c)
  <2> DEFINE i == CHOOSE x \in Ids : x \notin DOMAIN record
             new == [status |-> "running", started |-> now, deleted |-> Zero]
  <2>1. i \in Ids \ DOMAIN record
    BY <1>6, FreeId DEF Begin, TryLock
  <2>2. Zero \in Counts /\ new \in RunRecord
    BY RowKinds DEF Zero, Counts, RunRecord
  <2>3. /\ record' = With(record, i, new) /\ lock' = c /\ UNCHANGED faults
        /\ cleaner' = [cleaner EXCEPT ![c] = [at |-> "preview", id |-> i, before |-> Zero]]
    BY <1>6 DEF Begin, TryLock, Elsewhere, clock
  <2> HIDE DEF i, new
  <2>4. [at |-> "preview", id |-> i, before |-> Zero] \in Cleaning
    BY <2>1, <2>2 DEF Cleaning
  <2>5. DOMAIN record' \subseteq Ids /\ record' \in [DOMAIN record' -> RunRecord]
    BY <1>3, <2>1, <2>2, <2>3 DEF With
  <2> QED
    BY <1>3, <2>3, <2>4, <2>5
<1>7. CASE Preview(c)
  <2>1. /\ cleaner' = [cleaner EXCEPT ![c] = [at |-> "flows", id |-> cleaner[c].id,
                                           before |-> retention_snapshot]]
        /\ UNCHANGED <<lock, record, faults>> /\ ~At(c, "idle")
    BY <1>7 DEF Preview, Elsewhere, clock, At
  <2>2. cleaner[c] \in Cleaning /\ retention_snapshot \in Counts
    BY <2>1, CleanerTypes, Counting
  <2>3. [at |-> "flows", id |-> cleaner[c].id, before |-> retention_snapshot] \in Cleaning
    BY <2>2 DEF Cleaning
  <2> QED
    BY <1>3, <2>1, <2>3
<1>8. CASE cleanup_flow_data(c) \/ Delete(c)
  <2>1. /\ ~At(c, "idle") /\ (Goes(c, "delete") \/ Goes(c, "count"))
        /\ (record' = record \/ \E gone : record' = Without(record, gone))
        /\ UNCHANGED <<lock, faults>>
    BY <1>8 DEF cleanup_flow_data, Delete, Elsewhere, clock, At
  <2>2. cleaner' \in [Cleaner -> {Idle} \cup Cleaning]
    BY <2>1, GoesOn
  <2> QED
    BY <1>3, <1>5, <2>1, <2>2
<1>9. CASE Count(c)
  <2> DEFINE after == retention_snapshot
             before == cleaner[c].before
             deleted == [k \in Kind |-> IF before[k] > after[k] THEN before[k] - after[k] ELSE 0]
             id == cleaner[c].id
  <2>1. /\ ~At(c, "idle") /\ Goes(c, "unlock") /\ UNCHANGED <<lock, faults>>
        /\ record' = [record EXCEPT ![id] = [@ EXCEPT !.status = "success", !.deleted = deleted]]
    BY <1>9 DEF Count, Elsewhere, clock, At
  <2>2. cleaner' \in [Cleaner -> {Idle} \cup Cleaning]
    BY <2>1, GoesOn
  <2>3. after \in Counts /\ before \in Counts
    BY <2>1, CleanerTypes, Counting
  <2>4. deleted \in Counts
    BY <2>3 DEF Counts
  <2> HIDE DEF deleted, id
  <2>5. [record[id] EXCEPT !.status = "success", !.deleted = deleted] \in RunRecord
    BY <1>3, <1>4, <2>1, <2>4 DEF RunRecord, id
  <2> QED
    BY <1>3, <2>1, <2>2, <2>5
<1>10. CASE Unlock(c)
  <2>1. /\ cleaner' = [cleaner EXCEPT ![c] = Idle] /\ lock' = None /\ UNCHANGED faults
        /\ record' = Without(record, {cleaner[c].id})
    BY <1>10 DEF Unlock, Elsewhere, clock
  <2> QED
    BY <1>3, <1>5, <2>1
<1>11. CASE Stops(c)
  <2> DEFINE id == cleaner[c].id
  <2>1. /\ faults < MaxFaults /\ faults' = faults + 1
        /\ cleaner' = [cleaner EXCEPT ![c] = Idle] /\ lock' \in {None, lock}
        /\ \/ UNCHANGED record
           \/ record' = Without(record, {id})
           \/ record' = [record EXCEPT ![id] = [record[id] EXCEPT !.status = "failed"]]
    BY <1>11 DEF Stops
  <2>2. ~At(c, "idle")
    BY <1>11 DEF Stops
  <2> HIDE DEF id
  <2>3. [record[id] EXCEPT !.status = "failed"] \in RunRecord
    BY <1>3, <1>4, <2>2 DEF RunRecord, id
  <2>4. faults' \in 0 .. MaxFaults
    BY <1>3, <2>1, RowKinds
  <2> QED
    BY <1>3, <1>5, <2>1, <2>3, <2>4
<1> QED
  BY <1>6, <1>7, <1>8, <1>9, <1>10, <1>11 DEF Cleans, Step
-----------------------------------------------------------------------------
(* The lock and the records.                                                *)

\* A step is one of these.
LEMMA NextCases ==
    ASSUME [Next]_vars PROVE UNCHANGED vars \/ Outside \/ \E c \in Cleaner : Cleans(c)
BY DEF Next, Outside, Cleans

\* While one cleaner is at work the others rest.
LEMMA OthersRest ==
    ASSUME TypeOK, OneCleanup, NEW c \in Cleaner, Cleans(c), NEW d \in Cleaner, d # c
    PROVE  At(d, "idle") /\ cleaner'[d] = cleaner[d]
<1>1. lock = None \/ ~At(c, "idle")
  BY DEF Cleans, Step, Begin, TryLock, Preview, cleanup_flow_data, Delete, Count, Unlock, Stops, At
<1>2. At(d, "idle")
  BY <1>1, CleanupAssumption DEF OneCleanup
<1>3. cleaner'[d] = cleaner[d]
  BY DEF Cleans, Step, Begin, Preview, cleanup_flow_data, Delete, Count, Unlock, Stops, Goes,
         TypeOK
<1> QED
  BY <1>2, <1>3

\* At most one cleanup is at work.
LEMMA LockNext == ASSUME TypeOK, OneCleanup, [Next]_vars PROVE OneCleanup'
<1>1. CASE UNCHANGED vars \/ Outside
  BY <1>1, OutsideKeeps DEF vars, cleaning, OneCleanup, At
<1>2. ASSUME NEW c \in Cleaner, Cleans(c) PROVE OneCleanup'
  <2>1. cleaner'[c] = Idle \/ lock' = c
    <3>1. CASE Begin(c)
      BY <3>1 DEF Begin, TryLock
    <3>2. CASE Preview(c) \/ cleanup_flow_data(c) \/ Delete(c) \/ Count(c)
      <4>1. ~At(c, "idle") /\ lock' = lock
        BY <3>2 DEF Preview, cleanup_flow_data, Delete, Count, At
      <4> QED
        BY <4>1 DEF OneCleanup
    <3>3. CASE Unlock(c) \/ Stops(c)
      BY <3>3 DEF Unlock, Stops, TypeOK
    <3> QED
      BY <1>2, <3>1, <3>2, <3>3 DEF Cleans, Step
  <2>2. Idle.at = "idle"
    BY DEF Idle
  <2> QED
    BY <1>2, <2>1, <2>2, OthersRest DEF OneCleanup, At
<1> QED
  BY <1>1, <1>2, NextCases

\* What Begin, Delete, Count, Unlock and Stops do to the records.
LEMMA RecordsNext == ASSUME IInv, [Next]_vars PROVE RecordsAreFew' /\ RecordIsKept'
<1> USE DEF IInv
<1>1. CASE UNCHANGED vars
  BY <1>1 DEF vars, cleaning, clock, RecordsAreFew, RecordIsKept, At
<1>2. CASE Outside
  <2>1. UNCHANGED <<lock, cleaner, record, faults>>
    BY <1>2, OutsideKeeps DEF cleaning
  <2>2. \A c \in Cleaner : ~At(c, "idle") => now' <= record[cleaner[c].id].started + 1
    <3>1. CASE Tick
      BY <3>1, RowKinds DEF Tick
    <3>2. CASE now' = now
      BY <3>2 DEF RecordIsKept
    <3> QED
      BY <1>2, <3>1, <3>2, OutsideKeeps
  <2> QED
    BY <2>1, <2>2 DEF RecordsAreFew, RecordIsKept, At
<1>3. ASSUME NEW c \in Cleaner, Cleans(c) PROVE RecordsAreFew' /\ RecordIsKept'
  <2> DEFINE id == cleaner[c].id
             Few(set, n) == Cardinality(set) <= n
             Kept == cleaner'[c] # Idle =>
                        cleaner'[c].id \in DOMAIN record' /\ now <= record'[cleaner'[c].id].started + 1
  <2>1. /\ IsFiniteSet(DOMAIN record) /\ Cardinality(DOMAIN record) \in Nat
        /\ \A set \in SUBSET DOMAIN record :
              Cardinality(set) \in Nat /\ Cardinality(set) <= Cardinality(DOMAIN record)
    <3>1. IsFiniteSet(Ids)
      BY RowKinds, FS_Interval DEF Ids
    <3>2. IsFiniteSet(DOMAIN record)
      BY <3>1, FS_Subset DEF TypeOK
    <3> QED
      BY <3>2, FS_Subset, FS_CardinalityType
  <2>2. now' = now
    BY <1>3, CleansKeeps
  <2>3. ~At(c, "idle") => /\ id \in DOMAIN record /\ now <= record[id].started + 1
                          /\ lock = c /\ lock # None /\ record[id].started \in Nat
    <3>1. ~At(c, "idle") => id \in DOMAIN record /\ now <= record[id].started + 1 /\ lock = c
      BY DEF RecordIsKept, OneCleanup
    <3>2. \A i \in DOMAIN record : record[i].started \in Nat
      BY DEF TypeOK, RunRecord
    <3> QED
      BY <3>1, <3>2, CleanupAssumption
  <2>4. Kept => RecordIsKept'
    <3>1. \A d \in Cleaner : d # c => At(d, "idle")'
      BY <1>3, OthersRest DEF At
    <3>2. Idle.at = "idle"
      BY DEF Idle
    <3> QED
      BY <2>2, <3>1, <3>2 DEF RecordIsKept, At
  <2>5. CASE Begin(c)
    <3> DEFINE i == CHOOSE x \in Ids : x \notin DOMAIN record
               new == [status |-> "running", started |-> now, deleted |-> Zero]
    <3>1. i \in Ids \ DOMAIN record /\ lock = None
      BY <2>5, FreeId DEF Begin, TryLock
    <3>2. /\ record' = With(record, i, new) /\ lock' = c /\ faults' = faults
          /\ cleaner' = [cleaner EXCEPT ![c] = [at |-> "preview", id |-> i, before |-> Zero]]
      BY <2>5 DEF Begin, TryLock, Elsewhere, clock
    <3>3. new.started = now
      OBVIOUS
    <3> HIDE DEF i, new
    <3>4. DOMAIN record' = DOMAIN record \cup {i} /\ record'[i] = new /\ cleaner'[c].id = i
      BY <3>2 DEF With, TypeOK
    <3>5. Cardinality(DOMAIN record') = Cardinality(DOMAIN record) + 1
      BY <2>1, <3>1, <3>4, FS_AddElement
    <3>6. RecordsAreFew'
      BY <2>1, <3>1, <3>2, <3>5, CleanupAssumption, RowKinds DEF RecordsAreFew
    <3>7. Kept
      BY <3>3, <3>4, RowKinds
    <3> QED
      BY <2>4, <3>6, <3>7
  <2>6. CASE Preview(c) \/ cleanup_flow_data(c) \/ Count(c)
    <3>1. /\ ~At(c, "idle") /\ UNCHANGED <<lock, faults>>
          /\ DOMAIN record' = DOMAIN record
      BY <2>6 DEF Preview, cleanup_flow_data, Count, At, Elsewhere, clock
    <3>2. cleaner'[c].id = id
      <4>1. CASE Preview(c)
        BY <4>1 DEF Preview, TypeOK
      <4>2. CASE ~Preview(c)
        BY <2>6, <3>1, <4>2, GoesOn DEF cleanup_flow_data, Count
      <4> QED
        BY <4>1, <4>2
    <3>3. record'[id].started = record[id].started
      <4>1. CASE Count(c)
        <5>1. PICK y : /\ record' = [record EXCEPT ![id] = y]
                       /\ y.started = record[id].started
          <6> DEFINE after == retention_snapshot
                     before == cleaner[c].before
                     deleted == [k \in Kind |-> IF before[k] > after[k] THEN before[k] - after[k]
                                                ELSE 0]
                     y == [record[id] EXCEPT !.status = "success", !.deleted = deleted]
          <6>1. record' = [record EXCEPT ![id] = y]
            BY <4>1 DEF Count
          <6> HIDE DEF deleted
          <6>2. record[id] \in RunRecord
            BY <2>3, <3>1 DEF TypeOK
          <6>3. y.started = record[id].started
            BY <6>2 DEF RunRecord
          <6> QED
            BY <6>1, <6>3
        <5> QED
          BY <2>3, <3>1, <5>1
      <4>2. CASE ~Count(c)
        BY <2>6, <4>2 DEF Preview, cleanup_flow_data
      <4> QED
        BY <4>1, <4>2
    <3>4. RecordsAreFew'
      BY <3>1 DEF RecordsAreFew
    <3>5. Kept
      BY <2>3, <3>1, <3>2, <3>3
    <3> QED
      BY <2>4, <3>4, <3>5
  <2>7. CASE Delete(c)
    <3>1. /\ ~At(c, "idle") /\ UNCHANGED <<lock, faults>> /\ Goes(c, "count")
          /\ record' = Without(record,
                          {i \in DOMAIN record : record[i].started + HistoryRetention < now})
      BY <2>7 DEF Delete, At, Elsewhere, clock
    <3>2. cleaner'[c].id = id
      BY <3>1, GoesOn
    <3>3. DOMAIN record' \subseteq DOMAIN record
      BY <3>1 DEF Without
    <3>4. id \in DOMAIN record' /\ record'[id] = record[id]
      <4>1. ~(record[id].started + HistoryRetention < now)
        BY <2>3, <3>1, CleanupAssumption, RowKinds
      <4> QED
        BY <2>3, <3>1, <4>1 DEF Without
    <3>5. RecordsAreFew'
      BY <2>1, <3>1, <3>3, RowKinds DEF RecordsAreFew
    <3>6. Kept
      BY <2>3, <3>1, <3>2, <3>4
    <3> QED
      BY <2>4, <3>5, <3>6
  <2>8. CASE Unlock(c)
    <3>1. /\ ~At(c, "idle") /\ lock' = None /\ faults' = faults /\ cleaner'[c] = Idle
          /\ record' = Without(record, {id})
      BY <2>8 DEF Unlock, At, Elsewhere, clock, TypeOK
    <3>2. DOMAIN record' = DOMAIN record \ {id} /\ id \in DOMAIN record
      BY <2>3, <3>1 DEF Without
    <3> HIDE DEF id
    <3>3. Cardinality(DOMAIN record') = Cardinality(DOMAIN record) - 1
      BY <2>1, <3>2, FS_RemoveElement
    <3>4. RecordsAreFew'
      BY <2>1, <2>3, <3>1, <3>3, RowKinds DEF RecordsAreFew
    <3> QED
      BY <2>4, <3>1, <3>4
  <2>9. CASE Stops(c)
    <3>1. /\ ~At(c, "idle") /\ faults' = faults + 1 /\ cleaner'[c] = Idle
          /\ lock' = IF lock = c THEN None ELSE lock
          /\ DOMAIN record' \subseteq DOMAIN record
      BY <2>9 DEF Stops, TypeOK, Without
    <3>2. RecordsAreFew'
      BY <2>1, <2>3, <3>1, RowKinds DEF RecordsAreFew
    <3> QED
      BY <2>4, <3>1, <3>2
  <2> QED
    BY <1>3, <2>5, <2>6, <2>7, <2>8, <2>9 DEF Cleans, Step
<1> QED
  BY <1>1, <1>2, <1>3, NextCases
-----------------------------------------------------------------------------
(* What a run reports.                                                      *)

\* Rows that are due and only age stay due, whoever else is at work.
LEMMA DueStays ==
    ASSUME IInv, Outside, NEW k \in Aging
    PROVE  DueRows(k) \subseteq DueRows(k)' /\ IsFiniteSet(DueRows(k)')
<1> USE DEF IInv
<1>1. ASSUME NEW r \in DueRows(k) PROVE r \in DOMAIN rows' /\ rows'[r] = rows[r]
  <2>1. /\ r \in DOMAIN rows /\ r[1] = k /\ rows[r] # None
        /\ k \notin {"finding", "delivery"}
    BY <1>1 DEF DueRows, Due, Aging
  <2>2. ASSUME NEW s \in Sweeper, Sweep(s) PROVE r \in DOMAIN rows' /\ rows'[r] = rows[r]
    BY <2>1, <2>2 DEF Sweep, FoundWasDue, Without
  <2>3. ASSUME NEW q \in Request, Store(q) PROVE r \in DOMAIN rows' /\ rows'[r] = rows[r]
    <3> DEFINE b == request[q].body
    <3>1. \/ rows' = rows
          \/ /\ {<<"telemetry", b>>, <<"payload", b>>} \cap DOMAIN rows = {}
             /\ rows' = With(With(rows, <<"payload", b>>, now), <<"telemetry", b>>, Observed[b])
      BY <2>3 DEF Store
    <3> HIDE DEF b
    <3> QED
      BY <2>1, <3>1 DEF With
  <2>4. ASSUME NEW x \in scenario, Insert(x) PROVE r \in DOMAIN rows' /\ rows'[r] = rows[r]
    BY <2>1, <2>4 DEF Insert, With
  <2>5. ASSUME NEW x \in DOMAIN rows, Settle(x) \/ Reopen(x)
        PROVE  r \in DOMAIN rows' /\ rows'[r] = rows[r]
    BY <2>1, <2>5 DEF Settle, Reopen
  <2>6. CASE UNCHANGED rows
    BY <2>1, <2>6
  <2> QED
    BY <2>2, <2>3, <2>4, <2>5, <2>6 DEF Outside, Scan, Receive, Aggregate, Tick
<1>2. now' \in Nat /\ now <= now'
  BY OutsideKeeps, RowKinds DEF Tick
<1>3. ASSUME NEW r \in DueRows(k) PROVE r \in DueRows(k)'
  <2>1. /\ r \in scenario /\ r[1] = k /\ rows[r] \in Nat /\ Retention[k] \in Nat
        /\ rows[r] + Retention[r[1]] < now /\ rows'[r] # None /\ now \in Nat
    BY <1>1, <1>3, RowKinds DEF DueRows, Due
  <2>2. rows'[r] + Retention[r[1]] < now'
    BY <1>1, <1>2, <1>3, <2>1
  <2> QED
    BY <1>1, <1>3, <2>1, <2>2 DEF DueRows, Due
<1>4. DueRows(k)' \subseteq scenario
  BY TypeOutside, OutsideKeeps DEF TypeOK, DueRows
<1> QED
  BY <1>3, <1>4, RowKinds, FS_Subset

\* The count of what a cleanup found due is accounted for, and its report is.
LEMMA ReportNext == ASSUME IInv, [Next]_vars PROVE DueIsAccounted' /\ DeletedIsOwn'
<1> USE DEF IInv
<1>1. CASE UNCHANGED vars
  BY <1>1 DEF vars, cleaning, clock, DueIsAccounted, DeletedIsOwn, DueRows, Due, At
<1>2. CASE Outside
  <2>1. UNCHANGED <<cleaner, record, removed>>
    BY <1>2, OutsideKeeps DEF cleaning
  <2>2. ASSUME NEW k \in Aging
        PROVE  /\ Cardinality(DueRows(k)) \in Nat /\ Cardinality(DueRows(k)') \in Nat
               /\ Cardinality(DueRows(k)) <= Cardinality(DueRows(k)')
    BY <1>2, DueStays, FS_Subset, FS_CardinalityType
  <2>3. ASSUME NEW c \in Cleaner, cleaner[c].at \in {"flows", "delete", "count"}, NEW k \in Aging
        PROVE  cleaner[c].before[k] <= Cardinality(DueRows(k)') + removed[k]
    <3>1. cleaner[c].before \in Counts /\ removed \in Counts /\ k \in Kind
      BY <2>3, CleanerTypes DEF At, TypeOK, Aging, Kind
    <3>2. cleaner[c].before[k] \in Nat /\ removed[k] \in Nat
      BY <3>1 DEF Counts
    <3>3. cleaner[c].before[k] <= Cardinality(DueRows(k)) + removed[k]
      BY <2>3 DEF DueIsAccounted
    <3> QED
      BY <2>2, <3>2, <3>3
  <2> QED
    BY <2>1, <2>3 DEF DueIsAccounted, DeletedIsOwn, At
<1>3. ASSUME NEW c \in Cleaner, Cleans(c) PROVE DueIsAccounted' /\ DeletedIsOwn'
  <2> DEFINE Accounted == cleaner'[c].at \in {"flows", "delete", "count"} => \A k \in Aging :
                cleaner'[c].before[k] <= Cardinality(DueRows(k)') + removed'[k]
             Own == cleaner'[c].at = "unlock" =>
                /\ record'[cleaner'[c].id].status = "success"
                /\ \A k \in Aging : record'[cleaner'[c].id].deleted[k] <= removed'[k]
  <2>1. \A d \in Cleaner : d # c => cleaner'[d].at = "idle"
    BY <1>3, OthersRest DEF At
  <2>2. Accounted => DueIsAccounted'
    BY <2>1 DEF DueIsAccounted
  <2>3. Own => DeletedIsOwn'
    BY <2>1 DEF DeletedIsOwn, At, Aging
  <2>4. \A k \in Aging : /\ k \in Kind /\ removed[k] \in Nat
                         /\ IsFiniteSet(DueRows(k)) /\ Cardinality(DueRows(k)) \in Nat
    BY Counting DEF TypeOK, Counts, Aging, Kind
  <2>5. CASE Begin(c) \/ Unlock(c) \/ Stops(c)
    <3>1. cleaner'[c].at \in {"preview", "idle"}
      BY <2>5 DEF Begin, Unlock, Stops, TypeOK, Idle
    <3> QED
      BY <2>2, <2>3, <3>1
  <2>6. CASE Preview(c)
    <3>1. /\ cleaner'[c].at = "flows" /\ cleaner'[c].before = retention_snapshot
          /\ removed' = removed
      BY <2>6 DEF Preview, TypeOK
    <3>2. UNCHANGED <<rows, now>>
      BY <2>6 DEF Preview, Elsewhere, clock
    <3>3. ASSUME NEW k \in Aging
          PROVE  cleaner'[c].before[k] <= Cardinality(DueRows(k)') + removed'[k]
      <4>1. DueRows(k)' = DueRows(k)
        BY <3>2 DEF DueRows, Due
      <4>2. cleaner'[c].before[k] = Cardinality(DueRows(k))
        BY <3>1, Counting
      <4> QED
        BY <2>4, <3>1, <4>1, <4>2
    <3> QED
      BY <2>2, <2>3, <3>1, <3>3
  <2>7. CASE cleanup_flow_data(c) \/ Delete(c)
    <3>1. PICK gone \in SUBSET DOMAIN rows :
             /\ Deletes(gone)
             /\ \A k \in Aging : \/ \A r \in gone : r[1] # k
                                 \/ {r \in gone : r[1] = k} = DueRows(k)
      <4>1. CASE cleanup_flow_data(c)
        <5> DEFINE gone == IF covered THEN DueOf({"flow"}) ELSE {}
        <5>1. /\ gone \in SUBSET DOMAIN rows /\ \A r \in gone : r[1] = "flow"
          BY DEF DueOf, OfKinds
        <5>2. Deletes(gone)
          BY <4>1 DEF cleanup_flow_data
        <5> HIDE DEF gone
        <5> QED
          BY <5>1, <5>2 DEF Aging
      <4>2. CASE Delete(c)
        <5> DEFINE gone == DueOf(Tables)
        <5>1. /\ gone \in SUBSET DOMAIN rows
              /\ \A k \in Aging : {r \in gone : r[1] = k} = DueRows(k)
          BY DEF DueOf, OfKinds, DueRows, Aging, Tables
        <5>2. Deletes(gone)
          BY <4>2 DEF Delete
        <5> HIDE DEF gone
        <5> QED
          BY <5>1, <5>2
      <4> QED
        BY <2>7, <4>1, <4>2
    <3>2. /\ cleaner[c].at \in {"flows", "delete"} /\ ~At(c, "idle")
          /\ (Goes(c, "delete") \/ Goes(c, "count")) /\ now' = now
      BY <2>7 DEF cleanup_flow_data, Delete, At, Elsewhere, clock
    <3>3. cleaner'[c].at \in {"delete", "count"} /\ cleaner'[c].before = cleaner[c].before
      BY <3>2, GoesOn
    <3>4. ASSUME NEW k \in Aging
          PROVE  cleaner[c].before[k] <= Cardinality(DueRows(k)') + removed'[k]
      <4> DEFINE mine == {r \in gone : r[1] = k}
      <4>1. /\ cleaner[c].before[k] <= Cardinality(DueRows(k)) + removed[k]
            /\ cleaner[c].before[k] \in Nat
        BY <3>2, <2>4, CleanerTypes DEF DueIsAccounted, Counts
      <4>2. /\ removed'[k] = removed[k] + Cardinality(mine)
            /\ DOMAIN rows' = DOMAIN rows \ gone /\ \A r \in DOMAIN rows' : rows'[r] = rows[r]
        BY <2>4, <3>1, DeletesRows
      <4>3. IsFiniteSet(DueRows(k)')
        <5>1. DueRows(k)' \subseteq DOMAIN rows
          BY <4>2 DEF DueRows
        <5> QED
          BY <5>1, RowKinds, FS_Subset
      <4>4. Cardinality(DueRows(k)') \in Nat
        BY <4>3, FS_CardinalityType
      <4>5. CASE \A r \in gone : r[1] # k
        <5>1. mine = {} /\ DueRows(k)' = DueRows(k)
          BY <3>2, <4>2, <4>5 DEF DueRows, Due
        <5> HIDE DEF mine
        <5>2. Cardinality(mine) = 0
          BY <5>1, FS_EmptySet
        <5> QED
          BY <2>4, <4>1, <4>2, <5>1, <5>2
      <4>6. CASE mine = DueRows(k)
        <5> HIDE DEF mine
        <5>1. Cardinality(mine) = Cardinality(DueRows(k))
          BY <4>6
        <5> QED
          BY <2>4, <4>1, <4>2, <4>4, <5>1
      <4> QED
        BY <3>1, <4>5, <4>6
    <3> QED
      BY <2>2, <2>3, <3>3, <3>4
  <2>8. CASE Count(c)
    <3> DEFINE after == retention_snapshot
               before == cleaner[c].before
               deleted == [k \in Kind |-> IF before[k] > after[k] THEN before[k] - after[k] ELSE 0]
               id == cleaner[c].id
               new == [record[id] EXCEPT !.status = "success", !.deleted = deleted]
    <3>1. /\ ~At(c, "idle") /\ Goes(c, "unlock") /\ removed' = removed
          /\ record' = [record EXCEPT ![id] = new] /\ cleaner[c].at = "count"
      BY <2>8 DEF Count, At
    <3>2. cleaner'[c].at = "unlock" /\ cleaner'[c].id = id
      BY <3>1, GoesOn
    <3>3. id \in DOMAIN record /\ record[id] \in RunRecord
      BY <3>1 DEF RecordIsKept, TypeOK
    <3>4. ASSUME NEW k \in Aging PROVE deleted[k] <= removed[k]
      <4>1. /\ before[k] <= after[k] + removed[k]
            /\ before[k] \in Nat /\ after[k] \in Nat /\ deleted[k]
                  = IF before[k] > after[k] THEN before[k] - after[k] ELSE 0
        <5>1. before[k] <= Cardinality(DueRows(k)) + removed[k]
          BY <3>1 DEF DueIsAccounted
        <5>2. after[k] = Cardinality(DueRows(k))
          BY Counting
        <5>3. before[k] \in Nat /\ k \in Kind
          BY <2>4, <3>1, CleanerTypes DEF Counts
        <5> QED
          BY <2>4, <5>1, <5>2, <5>3
      <4> QED
        BY <2>4, <4>1
    <3> HIDE DEF deleted
    <3>5. new.status = "success" /\ new.deleted = deleted
      BY <3>3 DEF RunRecord
    <3>6. record'[id] = new
      BY <3>1, <3>3
    <3> HIDE DEF new, id
    <3>7. Own
      BY <3>1, <3>2, <3>4, <3>5, <3>6
    <3>8. Accounted
      BY <3>2
    <3> QED
      BY <2>2, <2>3, <3>7, <3>8
  <2> QED
    BY <1>3, <2>5, <2>6, <2>7, <2>8 DEF Cleans, Step
<1> QED
  BY <1>1, <1>2, <1>3, NextCases
-----------------------------------------------------------------------------
(* Bodies are stored once.                                                  *)

\* While a body is accepted its observation is not due.
LEMMA AcceptedIsKept ==
    ASSUME IInv, NEW b \in Body, Accepted(b), <<"telemetry", b>> \in DOMAIN rows
    PROVE  ~Due(<<"telemetry", b>>, now)
<1>1. rows[<<"telemetry", b>>] = Observed[b] /\ Observed[b] \in Nat
  BY CleanupAssumption DEF IInv, StoredIsThere, Body
<1>2. /\ now <= Observed[b] + Window /\ Window \in Nat
      /\ Window <= Retention["telemetry"] /\ Retention["telemetry"] \in Nat /\ now \in Nat
  BY CleanupAssumption, RowKinds DEF Accepted, IInv, Kind
<1> QED
  BY <1>1, <1>2 DEF Due

\* Neither a delivery at the same time nor a cleanup lets a body in twice.
LEMMA StoredNext == ASSUME IInv, [Next]_vars PROVE StoredOnce' /\ StoredIsThere'
<1> USE DEF IInv
<1> DEFINE T(b) == <<"telemetry", b>>
<1>1. CASE UNCHANGED vars
  BY <1>1 DEF vars, clock, StoredOnce, StoredIsThere, Accepted
<1>2. ASSUME NEW c \in Cleaner, Cleans(c) PROVE StoredOnce' /\ StoredIsThere'
  <2>1. UNCHANGED <<now, request, stored>>
    BY <1>2, CleansKeeps
  <2>2. ASSUME NEW b \in Body, T(b) \in DOMAIN rows, Accepted(b) PROVE T(b) \in DOMAIN rows'
    BY <1>2, <2>2, CleansKeeps, AcceptedIsKept
  <2>3. \A r \in DOMAIN rows' : r \in DOMAIN rows /\ rows'[r] = rows[r]
    BY <1>2, CleansKeeps
  <2> QED
    BY <2>1, <2>2, <2>3 DEF StoredOnce, StoredIsThere, Accepted
<1>3. ASSUME UNCHANGED <<now, request, stored>>,
             \A b \in Body : T(b) \in DOMAIN rows' <=> T(b) \in DOMAIN rows,
             \A b \in Body : T(b) \in DOMAIN rows => rows'[T(b)] = rows[T(b)]
      PROVE  StoredOnce' /\ StoredIsThere'
  BY <1>3 DEF StoredOnce, StoredIsThere, Accepted
<1>4. ASSUME NEW s \in Sweeper, Scan(s) \/ Sweep(s) PROVE StoredOnce' /\ StoredIsThere'
  <2>1. CASE Scan(s)
    BY <1>3, <2>1 DEF Scan, clock
  <2>2. CASE Sweep(s)
    <3>1. \A b \in Body : T(b) \notin DOMAIN sweeper[s].found
      BY <2>2 DEF Sweep, FoundWasDue
    <3> QED
      BY <1>3, <2>2, <3>1 DEF Sweep, clock, Without
  <2> QED
    BY <1>4, <2>1, <2>2
<1>5. ASSUME NEW q \in Request, Receive(q) PROVE StoredOnce' /\ StoredIsThere'
  <2>1. PICK b \in Arriving : Accepted(b) /\
           request' = [request EXCEPT ![q] = [at |-> "store", body |-> b,
                                              known |-> T(b) \in DOMAIN rows]]
    BY <1>5 DEF Receive
  <2>2. UNCHANGED <<now, rows, stored>>
    BY <1>5 DEF Receive, clock
  <2>3. /\ request'[q].body = b /\ \A p \in Request : p # q => request'[p] = request[p]
    BY <2>1 DEF TypeOK
  <2> QED
    BY <2>1, <2>2, <2>3 DEF StoredOnce, StoredIsThere, Accepted
<1>6. ASSUME NEW q \in Request, Store(q) PROVE StoredOnce' /\ StoredIsThere'
  <2> DEFINE b == request[q].body
  <2>1. /\ request[q].at = "store" /\ now' = now /\ request'[q] = Idle
        /\ \A p \in Request : p # q => request'[p] = request[p]
    BY <1>6 DEF Store, clock, TypeOK
  <2>2. b \in Body /\ Accepted(b)
    <3>1. request[q] \in {Idle} \cup [at : {"store"}, body : Arriving, known : BOOLEAN]
      BY DEF TypeOK
    <3>2. b \in Arriving
      BY <2>1, <3>1 DEF Idle
    <3> QED
      BY <2>1, <3>2 DEF Arriving, StoredIsThere
  <2>3. \A p \in Request : request'[p].at = "store" => Accepted(request'[p].body)
    BY <2>1 DEF StoredIsThere, Idle
  <2>4. CASE UNCHANGED <<rows, stored>>
    BY <2>1, <2>3, <2>4 DEF StoredOnce, StoredIsThere, Accepted
  <2>5. CASE /\ {T(b), <<"payload", b>>} \cap DOMAIN rows = {}
             /\ rows' = With(With(rows, <<"payload", b>>, now), T(b), Observed[b])
             /\ stored' = [stored EXCEPT ![b] = @ + 1]
    <3> HIDE DEF b
    <3>1. /\ T(b) \notin DOMAIN rows /\ T(b) \in DOMAIN rows' /\ rows'[T(b)] = Observed[b]
          /\ \A x \in Body : x # b => /\ T(x) \in DOMAIN rows' <=> T(x) \in DOMAIN rows
                                      /\ T(x) \in DOMAIN rows => rows'[T(x)] = rows[T(x)]
      BY <2>5 DEF With
    <3>2. stored[b] = 0
      BY <2>2, <3>1 DEF StoredIsThere, TypeOK
    <3>3. /\ stored'[b] = 1 /\ \A x \in Body : x # b => stored'[x] = stored[x]
      BY <2>2, <2>5, <3>2 DEF TypeOK
    <3>4. StoredOnce'
      BY <3>3 DEF StoredOnce
    <3>5. StoredIsThere'
      BY <2>1, <2>3, <3>1, <3>3 DEF StoredIsThere, Accepted
    <3> QED
      BY <3>4, <3>5
  <2> QED
    BY <1>6, <2>4, <2>5 DEF Store
<1>7. ASSUME NEW r \in scenario, Insert(r) PROVE StoredOnce' /\ StoredIsThere'
  <2>1. \A b \in Body : r # T(b)
    BY <1>7 DEF Insert
  <2>2. UNCHANGED <<now, request, stored>>
    BY <1>7 DEF Insert, clock
  <2>3. DOMAIN rows' = DOMAIN rows \cup {r} /\ \A x \in DOMAIN rows \ {r} : rows'[x] = rows[x]
    BY <1>7 DEF Insert, With
  <2> QED
    BY <1>3, <2>1, <2>2, <2>3
<1>8. ASSUME NEW r \in DOMAIN rows, Settle(r) \/ Reopen(r) PROVE StoredOnce' /\ StoredIsThere'
  <2>1. \A b \in Body : r # T(b)
    BY <1>8 DEF Settle, Reopen, Settled
  <2>2. UNCHANGED <<now, request, stored>>
    BY <1>8 DEF Settle, Reopen, clock
  <2>3. DOMAIN rows' = DOMAIN rows /\ \A x \in DOMAIN rows \ {r} : rows'[x] = rows[x]
    BY <1>8 DEF Settle, Reopen
  <2> QED
    BY <1>3, <2>1, <2>2, <2>3
<1>9. CASE Aggregate
  BY <1>3, <1>9 DEF Aggregate, clock
<1>10. CASE Tick
  <2>1. /\ now' = now + 1 /\ \A q \in Request : request[q] = Idle
        /\ UNCHANGED <<request, rows, stored>>
    BY <1>10 DEF Tick
  <2>2. \A b \in Body : Accepted(b)' => Accepted(b)
    <3>1. \A b \in Body : Observed[b] + Window \in Nat
      BY CleanupAssumption DEF Body
    <3> QED
      BY <2>1, <3>1, RowKinds DEF Accepted
  <2>3. \A q \in Request : request'[q].at # "store"
    BY <2>1 DEF Idle
  <2> QED
    BY <2>1, <2>2, <2>3 DEF StoredOnce, StoredIsThere
<1> QED
  BY <1>1, <1>2, <1>4, <1>5, <1>6, <1>7, <1>8, <1>9, <1>10, NextCases DEF Outside
-----------------------------------------------------------------------------
(* What a findings job has found.                                           *)

\* It was due, and remains what was found.
LEMMA FoundNext == ASSUME IInv, [Next]_vars PROVE FoundWasDue'
<1> USE DEF IInv
<1>1. CASE UNCHANGED vars
  BY <1>1 DEF vars, clock, FoundWasDue
<1>2. \A s \in Sweeper : sweeper[s].at = "delete" => \A r \in DOMAIN sweeper[s].found :
         sweeper[s].found[r] \in Nat /\ Retention[r[1]] \in Nat
  <2>1. \A s \in Sweeper : sweeper[s].at = "delete" =>
           sweeper[s].found \in [DOMAIN sweeper[s].found -> Nat]
    BY DEF TypeOK, Idle
  <2> QED
    BY <2>1, RowKinds DEF FoundWasDue, Kind
<1>3. ASSUME UNCHANGED sweeper, now' = now \/ now' = now + 1,
             \A r \in DOMAIN rows' : r[1] = "delivery" =>
                \/ r \in DOMAIN rows /\ rows'[r] = rows[r]
                \/ \A s \in Sweeper : sweeper[s].at = "delete" => r \notin DOMAIN sweeper[s].found
      PROVE  FoundWasDue'
  <2>1. ASSUME NEW s \in Sweeper, sweeper[s].at = "delete", NEW r \in DOMAIN sweeper[s].found
        PROVE  /\ r[1] \in {"finding", "delivery"}
               /\ sweeper[s].found[r] + Retention[r[1]] < now'
               /\ r[1] = "delivery" /\ r \in DOMAIN rows' => rows'[r] = sweeper[s].found[r]
    <3>1. /\ r[1] \in {"finding", "delivery"} /\ sweeper[s].found[r] + Retention[r[1]] < now
          /\ r[1] = "delivery" /\ r \in DOMAIN rows => rows[r] = sweeper[s].found[r]
      BY <2>1 DEF FoundWasDue
    <3>2. sweeper[s].found[r] + Retention[r[1]] < now'
      BY <1>2, <1>3, <2>1, <3>1, RowKinds
    <3>3. r[1] = "delivery" /\ r \in DOMAIN rows' => rows'[r] = sweeper[s].found[r]
      BY <1>3, <2>1, <3>1
    <3> QED
      BY <3>1, <3>2, <3>3
  <2> QED
    BY <1>3, <2>1 DEF FoundWasDue
<1>4. ASSUME NEW c \in Cleaner, Cleans(c) PROVE FoundWasDue'
  <2>1. UNCHANGED <<sweeper, now>> /\ DOMAIN rows' \subseteq DOMAIN rows
        /\ \A r \in DOMAIN rows' : rows'[r] = rows[r]
    BY <1>4, CleansKeeps
  <2> QED
    BY <1>3, <2>1
<1>5. ASSUME NEW s \in Sweeper, Scan(s) PROVE FoundWasDue'
  <2> DEFINE due == DueOf({"finding", "delivery"})
             found == [r \in due |-> rows[r]]
  <2>1. /\ sweeper'[s] = [at |-> "delete", found |-> found] /\ UNCHANGED <<now, rows>>
        /\ \A t \in Sweeper : t # s => sweeper'[t] = sweeper[t]
    BY <1>5 DEF Scan, clock, TypeOK
  <2>2. \A r \in due : /\ r[1] \in {"finding", "delivery"}
                       /\ rows[r] + Retention[r[1]] < now
    BY DEF DueOf, OfKinds, Due
  <2>3. DOMAIN found = due /\ \A r \in due : found[r] = rows[r]
    OBVIOUS
  <2> HIDE DEF found, due
  <2>4. sweeper'[s].found = found
    BY <2>1
  <2>5. ASSUME NEW t \in Sweeper, sweeper'[t].at = "delete", NEW r \in DOMAIN sweeper'[t].found
        PROVE  /\ r[1] \in {"finding", "delivery"}
               /\ sweeper'[t].found[r] + Retention[r[1]] < now
               /\ r[1] = "delivery" /\ r \in DOMAIN rows => rows[r] = sweeper'[t].found[r]
    <3>1. CASE t = s
      BY <2>2, <2>3, <2>4, <2>5, <3>1
    <3>2. CASE t # s
      BY <2>1, <2>5, <3>2 DEF FoundWasDue
    <3> QED
      BY <3>1, <3>2
  <2> QED
    BY <2>1, <2>5 DEF FoundWasDue
<1>6. ASSUME NEW s \in Sweeper, Sweep(s) PROVE FoundWasDue'
  <2>1. /\ sweeper'[s] = Idle /\ now' = now /\ \A t \in Sweeper : t # s => sweeper'[t] = sweeper[t]
        /\ DOMAIN rows' \subseteq DOMAIN rows /\ \A r \in DOMAIN rows' : rows'[r] = rows[r]
    BY <1>6 DEF Sweep, clock, TypeOK, Without
  <2>2. sweeper'[s].at # "delete"
    BY <2>1 DEF Idle
  <2> QED
    BY <2>1, <2>2 DEF FoundWasDue
<1>7. ASSUME NEW q \in Request, Receive(q) \/ Store(q) PROVE FoundWasDue'
  <2>1. CASE rows' = rows
    BY <1>3, <1>7, <2>1 DEF Receive, Store, clock
  <2>2. CASE rows' # rows
    <3>1. PICK b : rows' = With(With(rows, <<"payload", b>>, now), <<"telemetry", b>>, Observed[b])
      BY <1>7, <2>2 DEF Receive, Store
    <3>2. \A r \in DOMAIN rows' : r[1] = "delivery" => r \in DOMAIN rows /\ rows'[r] = rows[r]
      BY <3>1 DEF With
    <3> QED
      BY <1>3, <1>7, <3>2 DEF Receive, Store, clock
  <2> QED
    BY <2>1, <2>2
<1>8. ASSUME NEW r \in scenario, Insert(r) PROVE FoundWasDue'
  <2>1. /\ DOMAIN rows' = DOMAIN rows \cup {r}
        /\ \A x \in DOMAIN rows \ {r} : rows'[x] = rows[x]
        /\ \A s \in Sweeper : sweeper[s].at = "delete" => r \notin DOMAIN sweeper[s].found
        /\ UNCHANGED <<now, sweeper>>
    BY <1>8 DEF Insert, With, clock
  <2>2. ASSUME NEW x \in DOMAIN rows', x[1] = "delivery"
        PROVE  \/ x \in DOMAIN rows /\ rows'[x] = rows[x]
               \/ \A s \in Sweeper : sweeper[s].at = "delete" => x \notin DOMAIN sweeper[s].found
    <3>1. CASE x = r
      BY <2>1, <2>2, <3>1
    <3>2. CASE x # r
      BY <2>1, <2>2, <3>2
    <3> QED
      BY <3>1, <3>2
  <2> QED
    BY <1>3, <2>1, <2>2
<1>9. ASSUME NEW r \in DOMAIN rows, Settle(r) \/ Reopen(r) PROVE FoundWasDue'
  <2>1. /\ r[1] # "delivery" /\ DOMAIN rows' = DOMAIN rows
        /\ \A x \in DOMAIN rows \ {r} : rows'[x] = rows[x]
        /\ UNCHANGED <<now, sweeper>>
    BY <1>9 DEF Settle, Reopen, Settled, clock
  <2>2. ASSUME NEW x \in DOMAIN rows', x[1] = "delivery"
        PROVE  \/ x \in DOMAIN rows /\ rows'[x] = rows[x]
               \/ \A s \in Sweeper : sweeper[s].at = "delete" => x \notin DOMAIN sweeper[s].found
    <3>1. CASE x = r
      BY <2>1, <2>2, <3>1
    <3>2. CASE x # r
      BY <2>1, <2>2, <3>2
    <3> QED
      BY <3>1, <3>2
  <2> QED
    BY <1>3, <2>1, <2>2
<1>10. CASE Aggregate \/ Tick
  BY <1>3, <1>10 DEF Aggregate, Tick, clock
<1> QED
  BY <1>1, <1>4, <1>5, <1>6, <1>7, <1>8, <1>9, <1>10, NextCases DEF Outside
-----------------------------------------------------------------------------
(* The theorems.                                                            *)

\* The invariant holds at first.
LEMMA SafeInit == Init => IInv
<1> SUFFICES ASSUME Init PROVE IInv
  OBVIOUS
<1>1. /\ \A c \in Cleaner : At(c, "idle") /\ cleaner[c].at = "idle"
      /\ \A s \in Sweeper : sweeper[s].at = "idle"
      /\ \A q \in Request : request[q].at = "idle"
  BY DEF Init, At, Idle
<1>2. DOMAIN record = {} /\ DOMAIN rows = {} /\ \A b \in Body : stored[b] = 0
  BY DEF Init
<1>3. Cardinality(DOMAIN record) = 0 /\ faults = 0 /\ lock = None
  BY <1>2, FS_EmptySet DEF Init
<1>4. RecordsAreFew
  BY <1>3 DEF RecordsAreFew
<1>5. OneCleanup /\ RecordIsKept /\ DueIsAccounted /\ DeletedIsOwn
  BY <1>1 DEF OneCleanup, RecordIsKept, DueIsAccounted, DeletedIsOwn, At
<1>6. StoredOnce /\ StoredIsThere /\ FoundWasDue
  BY <1>1, <1>2 DEF StoredOnce, StoredIsThere, FoundWasDue
<1> QED
  BY <1>4, <1>5, <1>6, TypeInit DEF IInv

\* And every step keeps it.
LEMMA SafeNext == IInv /\ [Next]_vars => IInv'
<1> SUFFICES ASSUME IInv, [Next]_vars PROVE IInv'
  OBVIOUS
<1>1. TypeOK'
  <2>1. CASE UNCHANGED vars
    BY <2>1 DEF IInv, TypeOK, vars, clock, cleaning, RunRecord, Arriving
  <2> QED
    BY <2>1, TypeOutside, TypeCleans, NextCases DEF IInv
<1>2. OneCleanup'
  BY LockNext DEF IInv
<1> QED
  BY <1>1, <1>2, RecordsNext, ReportNext, StoredNext, FoundNext DEF IInv

(* One cleanup at a time, whose report is of what it deleted, and every     *)
(* body of telemetry stored once, for any retentions that the settings      *)
(* allow.                                                                   *)
THEOREM CleanupIsSafe == Spec => []CleanupInv
<1>1. IInv => CleanupInv
  BY DEF IInv, CleanupInv
<1> QED
  BY <1>1, SafeInit, SafeNext, PTL DEF Spec

(* A row disappears only when its retention has passed, a raw flow only     *)
(* when it is aggregated, and a finding that is open again only if it was   *)
(* due when the findings job looked for it.                                 *)
THEOREM NothingElseGoes == Spec => OnlyDueGoes
<1> DEFINE Gone(r) ==
       /\ r[1] = "flow" => covered
       /\ \/ Old(rows[r], Retention[r[1]])
          \/ \E s \in Sweeper :
                /\ sweeper[s].at = "delete" /\ r \in DOMAIN sweeper[s].found
                /\ r[1] = "finding" /\ Old(sweeper[s].found[r], Retention["finding"])
<1>1. IInv /\ [Next]_vars => [\A r \in DOMAIN rows \ DOMAIN rows' : Gone(r)]_vars
  <2> SUFFICES ASSUME IInv, Next, NEW r \in DOMAIN rows \ DOMAIN rows' PROVE Gone(r)
    OBVIOUS
  <2>1. ASSUME NEW c \in Cleaner, Cleans(c) PROVE Gone(r)
    BY <2>1, CleansKeeps DEF IInv, Due, Old
  <2>2. CASE Outside
    <3>1. PICK s \in Sweeper : Sweep(s)
      BY <2>2 DEF Outside, Scan, Receive, Store, Insert, Settle, Reopen, Aggregate, Tick, With
    <3>2. sweeper[s].at = "delete" /\ r \in DOMAIN sweeper[s].found
      BY <3>1 DEF Sweep, Without
    <3>3. /\ r[1] \in {"finding", "delivery"}
          /\ sweeper[s].found[r] + Retention[r[1]] < now
          /\ r[1] = "delivery" => rows[r] = sweeper[s].found[r]
      BY <3>2 DEF IInv, FoundWasDue
    <3>4. sweeper[s].found[r] # None
      <4>1. sweeper[s].found \in [DOMAIN sweeper[s].found -> Nat]
        BY <3>2 DEF IInv, TypeOK, Idle
      <4> QED
        BY <3>2, <4>1, CleanupAssumption
    <3> QED
      BY <3>2, <3>3, <3>4 DEF Old
  <2> QED
    BY <2>1, <2>2 DEF Next, Outside, Cleans
<1> QED
  BY <1>1, SafeInit, SafeNext, PTL DEF Spec, OnlyDueGoes
=============================================================================
