------------------------ MODULE FlowAggregationProofs ------------------------
(***************************************************************************)
(* Proofs about FlowAggregation for any steps, overlaps and retentions     *)
(* that keep the margins: raw flows leave only when they are counted, the  *)
(* coverage tells the truth, and a rebuild loses nothing.                  *)
(***************************************************************************)
EXTENDS FlowAggregation, TLAPS

Success(g) == coverage[g].success

Start(g) == RebuildStart(g, earliest, clock)

(* Both granularities succeed together, and a cleanup that found them       *)
(* covered, or any that deleted, came later.                                *)
SuccessIsCommon ==
    /\ \A g, h \in Granularity : Success(g) => Success(h)
    /\ cleaner.covered \/ removed # {} => \A g \in Granularity : Success(g)

(* The clocks that were read are past, and not by much.                     *)
ClocksAreRecent ==
    /\ ran <= now /\ cleaner.clock <= now
    /\ pc # "idle" => /\ clock <= now /\ now - clock <= Length /\ ran <= clock
    /\ (\A g \in Granularity : Success(g)) => now - ran <= Pause

(* What came in since an aggregation began is no older than the delay, and  *)
(* what a cleanup deleted is older than the retention.                      *)
FlowsHaveTheirAge ==
    /\ \A hour \in fresh : hour >= ran - Delay
    /\ \A hour \in raw : hour <= now
    /\ \A hour \in removed : hour < now - RawRetention
    /\ \A g \in Granularity : stored[g] \subseteq raw \cup removed
    /\ raw \cap removed = {} /\ fresh \subseteq raw

(* What an aggregation at work has built so far: everything that was there  *)
(* when it began, from the start of the rebuild up to the hour it is at.    *)
BuiltUpTo(g, end) ==
    \A hour \in raw \ newer : Start(g) <= hour /\ hour < end => hour \in built[g]

BuildIsComplete ==
    /\ \A g \in Granularity : built[g] \subseteq raw \cup removed
    /\ pc # "idle" =>
          /\ \A hour \in raw \ newer : earliest <= hour /\ hour <= clock
          /\ \A hour \in newer : hour >= clock - Delay
          /\ \A g \in Granularity : stored[g] \cap newer = {}
          /\ BuiltUpTo(pc, at)
    /\ pc = "daily" => BuiltUpTo("hourly", Final("hourly"))

IInv == /\ TypeOK /\ SuccessIsCommon /\ ClocksAreRecent /\ FlowsHaveTheirAge
        /\ BuildIsComplete /\ RemovedIsAggregated /\ CoverageIsSound
-----------------------------------------------------------------------------
(* Buckets.                                                                 *)

\* Multiplication by a step keeps the order.
LEMMA TimesMonotone ==
    ASSUME NEW a \in Int, NEW b \in Int, NEW s \in Nat, a >= b
    PROVE  a * s >= b * s
OBVIOUS

\* An hour lies in the bucket that floor_bucket names.
LEMMA FloorBounds ==
    ASSUME NEW g \in Granularity, NEW hour \in Int
    PROVE  /\ Step[g] \in Nat \ {0} /\ floor_bucket(hour, g) \in Int
           /\ floor_bucket(hour, g) <= hour /\ hour < floor_bucket(hour, g) + Step[g]
<1>1. Step[g] \in Nat \ {0}
  BY ConstantsAssumption
<1>2. \A s \in Nat \ {0} : /\ (hour \div s) * s \in Int
                           /\ (hour \div s) * s <= hour /\ hour < (hour \div s) * s + s
  OBVIOUS
<1> QED
  BY <1>1, <1>2 DEF floor_bucket

\* A later hour is not in an earlier bucket.
LEMMA FloorMonotone ==
    ASSUME NEW g \in Granularity, NEW a \in Int, NEW b \in Int, a <= b
    PROVE  floor_bucket(a, g) <= floor_bucket(b, g)
<1> DEFINE s == Step[g]
           p == a \div s
           q == b \div s
<1>1. s \in Nat \ {0}
  BY ConstantsAssumption
<1>2. p \in Int /\ q \in Int /\ p * s <= a /\ b < q * s + s
  BY <1>1
<1>3. p * s \in Int /\ q * s \in Int /\ (q + 1) * s = q * s + s
  BY <1>1, <1>2
<1>4. ~(p >= q + 1)
  <2>1. ASSUME p >= q + 1 PROVE p * s >= (q + 1) * s
    BY <1>1, <1>2, <2>1, TimesMonotone
  <2> QED
    BY <1>1, <1>2, <1>3, <2>1
<1>5. q >= p
  BY <1>2, <1>4
<1>6. q * s >= p * s
  BY <1>1, <1>2, <1>5, TimesMonotone
<1> QED
  BY <1>3, <1>6 DEF floor_bucket

\* The buckets begin with hour 0.
LEMMA FloorOfNat ==
    ASSUME NEW g \in Granularity, NEW hour \in Nat
    PROVE  floor_bucket(hour, g) \in 0 .. hour
<1>1. \A s \in Nat \ {0} : (0 \div s) * s = 0
  OBVIOUS
<1>2. floor_bucket(0, g) = 0
  BY <1>1, ConstantsAssumption DEF floor_bucket
<1>3. floor_bucket(0, g) <= floor_bucket(hour, g)
  BY FloorMonotone
<1> QED
  BY <1>2, <1>3, FloorBounds

\* What is expired stays expired.
LEMMA ExpiredLater ==
    ASSUME NEW g \in Granularity, NEW hour \in Int, NEW s \in Int, NEW t \in Int, s <= t,
           Expired(g, hour, s)
    PROVE  Expired(g, hour, t)
<1>1. AggregateRetention[g] \in Nat
  BY ConstantsAssumption
<1>2. s - AggregateRetention[g] \in Int /\ t - AggregateRetention[g] \in Int
      /\ s - AggregateRetention[g] <= t - AggregateRetention[g]
  BY <1>1
<1>3. floor_bucket(s - AggregateRetention[g], g) <= floor_bucket(t - AggregateRetention[g], g)
  BY <1>2, FloorMonotone
<1>4. /\ floor_bucket(hour, g) \in Int
      /\ floor_bucket(s - AggregateRetention[g], g) \in Int
      /\ floor_bucket(t - AggregateRetention[g], g) \in Int
  BY <1>2, FloorBounds
<1> QED
  BY <1>3, <1>4 DEF Expired

\* A rebuild begins at the earliest flow, or after it and the overlap back.
LEMMA StartBounds ==
    ASSUME TypeOK, NEW g \in Granularity
    PROVE  /\ Start(g) \in Hour /\ Final(g) \in Nat
           /\ clock < Final(g)
           /\ Success(g) => clock - Overlap[g] < Start(g) + Step[g]
           /\ \A hour \in Hour : earliest <= hour /\ hour < Start(g) =>
                 Success(g) /\ hour < clock - Overlap[g]
<1>1. /\ clock \in Nat /\ earliest \in Nat /\ clock <= Horizon /\ earliest <= Horizon
      /\ Overlap[g] \in Nat /\ Horizon \in Nat /\ Step[g] \in Nat
  BY ConstantsAssumption DEF TypeOK, Hour
<1>2. Final(g) \in Nat /\ clock < Final(g)
  BY <1>1, FloorOfNat, FloorBounds DEF Final
<1>3. CASE Success(g) /\ earliest < clock - Overlap[g]
  <2>1. Start(g) = floor_bucket(clock - Overlap[g], g)
    BY <1>3 DEF Start, RebuildStart, Success
  <2>2. clock - Overlap[g] \in Nat
    BY <1>1, <1>3
  <2>3. /\ Start(g) \in 0 .. clock - Overlap[g] /\ Start(g) \in Int
        /\ clock - Overlap[g] < Start(g) + Step[g]
    BY <2>1, <2>2, FloorOfNat, FloorBounds
  <2> QED
    BY <1>1, <1>2, <1>3, <2>2, <2>3 DEF Hour
<1>4. CASE ~(Success(g) /\ earliest < clock - Overlap[g])
  <2>1. Start(g) = floor_bucket(earliest, g)
    BY <1>4 DEF Start, RebuildStart, Success
  <2>2. Start(g) \in 0 .. earliest /\ earliest < Start(g) + Step[g]
    BY <1>1, <2>1, FloorOfNat, FloorBounds
  <2> QED
    BY <1>1, <1>2, <1>4, <2>2 DEF Hour
<1> QED
  BY <1>3, <1>4
-----------------------------------------------------------------------------
(* Type correctness.                                                        *)

\* The types hold at first.
LEMMA TypeInit == Init => TypeOK
BY ConstantsAssumption DEF Init, TypeOK, Hour, Coverage, Idle, Nobuild, Granularity

\* The state that is reset after an aggregation has its types.
LEMMA TypeReset ==
    ASSUME Reset
    PROVE  /\ pc' \in Granularity \cup {"idle"} /\ clock' \in Hour /\ earliest' \in Hour
           /\ at' \in Int /\ built' \in [Granularity -> SUBSET Hour]
BY ConstantsAssumption DEF Reset, Hour, Nobuild

\* Every step keeps the types.
LEMMA TypeNext == ASSUME TypeOK, [Next]_vars PROVE TypeOK'
<1>1. CASE UNCHANGED vars
  BY <1>1 DEF vars, TypeOK
<1>2. CASE Tick
  BY <1>2, ConstantsAssumption DEF Tick, TypeOK, Hour, aggregation, history
<1>3. ASSUME NEW hour \in Hour, Ingest(hour) PROVE TypeOK'
  BY <1>3 DEF Ingest, TypeOK, aggregation
<1>4. CASE Begin
  <2>1. CASE raw = {}
    BY <1>4, <2>1 DEF Begin, TypeOK, aggregation
  <2>2. CASE raw # {}
    <3>1. PICK first \in raw :
             /\ earliest' = first /\ clock' = now /\ pc' = "hourly"
             /\ at' = RebuildStart("hourly", first, now) /\ UNCHANGED <<built, ran, fresh>>
      BY <1>4, <2>2 DEF Begin
    <3>2. at' \in Int
      <4>1. /\ first \in Int /\ now - Overlap["hourly"] \in Int /\ "hourly" \in Granularity
        BY ConstantsAssumption DEF TypeOK, Hour, Granularity
      <4> QED
        BY <3>1, <4>1, FloorBounds DEF RebuildStart
    <3> QED
      BY <1>4, <3>1, <3>2 DEF Begin, TypeOK, Granularity
  <2> QED
    BY <2>1, <2>2
<1>5. CASE Build
  BY <1>5 DEF Build, TypeOK, history
<1>6. CASE NextGranularity
  <2>1. "daily" \in Granularity
    BY DEF Granularity
  <2>2. Start("daily") \in Int
    BY <2>1, StartBounds DEF Hour
  <2> QED
    BY <1>6, <2>1, <2>2 DEF NextGranularity, TypeOK, history, Start
<1>7. CASE Commit
  <2>1. stored' \in [Granularity -> SUBSET Hour]
    BY <1>7 DEF Commit, TypeOK
  <2>2. coverage' \in [Granularity -> Coverage]
    <3>1. ASSUME NEW g \in Granularity
          PROVE  [success |-> TRUE,
                  start |-> IF coverage[g].success /\ coverage[g].start < Start(g)
                            THEN coverage[g].start ELSE Start(g),
                  end |-> IF coverage[g].success /\ coverage[g].end > Final(g)
                          THEN coverage[g].end ELSE Final(g)] \in Coverage
      <4>1. coverage[g].start \in Hour /\ coverage[g].end \in Nat
        BY DEF TypeOK, Coverage
      <4>2. Start(g) \in Hour /\ Final(g) \in Nat
        BY StartBounds
      <4> QED
        BY <4>1, <4>2 DEF Coverage
    <3> QED
      BY <1>7, <3>1 DEF Commit, Start
  <2>3. ran' \in Hour /\ fresh' \subseteq Hour /\ newer' \subseteq fresh'
    BY <1>7 DEF Commit, TypeOK
  <2> QED
    BY <1>7, <2>1, <2>2, <2>3, TypeReset DEF Commit, TypeOK
<1>8. CASE Abort
  BY <1>8, TypeReset DEF Abort, TypeOK, history
<1>9. CASE CleanBegin
  <2>1. cleaner' \in [clock : Hour, covered : BOOLEAN, busy : BOOLEAN]
    BY <1>9 DEF CleanBegin, TypeOK
  <2> QED
    BY <1>9, <2>1 DEF CleanBegin, TypeOK, aggregation, history
<1>10. Idle \in [clock : Hour, covered : BOOLEAN, busy : BOOLEAN]
  BY ConstantsAssumption DEF Idle, Hour
<1>11. CASE CleanCommit
  BY <1>10, <1>11 DEF CleanCommit, TypeOK, aggregation
<1>12. CASE CleanAbort
  BY <1>10, <1>12 DEF CleanAbort, TypeOK, aggregation, history
<1> QED
  BY <1>1, <1>2, <1>3, <1>4, <1>5, <1>6, <1>7, <1>8, <1>9, <1>11, <1>12 DEF Next
-----------------------------------------------------------------------------
(* Clocks and ages.                                                         *)

\* The types of what the arithmetic is about.
LEMMA Numbers ==
    ASSUME TypeOK
    PROVE  /\ now \in Nat /\ ran \in Nat /\ clock \in Nat /\ earliest \in Nat /\ at \in Int
           /\ cleaner.clock \in Nat /\ cleaner.covered \in BOOLEAN
           /\ Length \in Nat /\ Pause \in Nat /\ Delay \in Nat /\ RawRetention \in Nat
           /\ Hour \subseteq Nat /\ raw \subseteq Hour /\ removed \subseteq Hour
           /\ fresh \subseteq Hour /\ newer \subseteq fresh
           /\ \A g \in Granularity : /\ Overlap[g] \in Nat /\ Step[g] \in Nat \ {0}
                                     /\ stored[g] \subseteq Hour /\ built[g] \subseteq Hour
<1>1. Hour \subseteq Nat
  BY ConstantsAssumption DEF Hour
<1> QED
  BY <1>1, ConstantsAssumption DEF TypeOK

\* Only a commit makes a success, of both at once.
LEMMA SuccessNext == ASSUME TypeOK, SuccessIsCommon, [Next]_vars PROVE SuccessIsCommon'
<1>1. CASE UNCHANGED vars
  BY <1>1 DEF vars, SuccessIsCommon, Success
<1>2. CASE Commit
  <2>1. \A g \in Granularity : Success(g)'
    BY <1>2 DEF Commit, Success
  <2> QED
    BY <2>1 DEF SuccessIsCommon
<1>3. CASE CleanBegin
  <2>1. cleaner'.covered => \A g \in Granularity : Success(g)
    <3>1. cleaner'.covered = \A g \in Granularity : Covers(g, now - RawRetention)
      BY <1>3 DEF CleanBegin
    <3> QED
      BY <3>1 DEF Covers, Success
  <2>2. UNCHANGED <<coverage, removed>>
    BY <1>3 DEF CleanBegin, history
  <2> QED
    BY <2>1, <2>2 DEF SuccessIsCommon, Success
<1>4. CASE CleanCommit \/ CleanAbort
  <2>1. /\ UNCHANGED coverage /\ ~cleaner'.covered
        /\ removed' # removed => cleaner.covered
    <3>1. UNCHANGED coverage /\ cleaner' = Idle
      BY <1>4 DEF CleanCommit, CleanAbort, history
    <3>2. ~Idle.covered
      BY DEF Idle
    <3>3. CASE CleanCommit
      <4>1. removed' = removed \cup IF cleaner.covered
                                   THEN {hour \in raw : hour < cleaner.clock - RawRetention} ELSE {}
        BY <3>3 DEF CleanCommit
      <4>2. ~cleaner.covered => removed' = removed
        BY <4>1
      <4> QED
        BY <3>1, <3>2, <4>2
    <3>4. CASE CleanAbort
      BY <3>1, <3>2, <3>4 DEF CleanAbort, history
    <3> QED
      BY <1>4, <3>3, <3>4
  <2> QED
    BY <2>1 DEF SuccessIsCommon, Success
<1>5. CASE Tick \/ (\E hour \in Hour : Ingest(hour)) \/ Begin \/ Build \/ NextGranularity \/ Abort
  <2>1. UNCHANGED <<coverage, cleaner, removed>>
    BY <1>5 DEF Tick, Ingest, Begin, Build, NextGranularity, Abort, history
  <2> QED
    BY <2>1 DEF SuccessIsCommon, Success
<1> QED
  BY <1>1, <1>2, <1>3, <1>4, <1>5 DEF Next

\* The readings of the clock stay recent: what is bounded is bounded by Tick.
LEMMA ClocksNext ==
    ASSUME Margins, TypeOK, ClocksAreRecent, [Next]_vars PROVE ClocksAreRecent'
<1> DEFINE succeeded == \A g \in Granularity : Success(g)
<1>1. CASE UNCHANGED vars
  BY <1>1 DEF vars, ClocksAreRecent, Success
<1>2. CASE Tick
  <2>1. /\ now' = now + 1 /\ (succeeded => now - ran < Pause) /\ (pc # "idle" => now - clock < Length)
        /\ UNCHANGED <<coverage, pc, clock, ran, cleaner>>
    BY <1>2 DEF Tick, Success, aggregation, history
  <2>2. succeeded' <=> succeeded
    BY <2>1 DEF Success
  <2> HIDE DEF succeeded
  <2> QED
    BY <2>1, <2>2, Numbers DEF ClocksAreRecent, succeeded
<1>3. CASE Begin
  <2>1. UNCHANGED <<coverage, now, cleaner>>
    BY <1>3 DEF Begin
  <2>2. CASE raw = {}
    <3>1. ran' = now /\ UNCHANGED <<pc, clock>>
      BY <1>3, <2>2 DEF Begin, aggregation
    <3>2. pc = "idle" /\ now - now = 0
      BY <1>3, Numbers DEF Begin
    <3> QED
      BY <2>1, <3>1, <3>2, Numbers DEF ClocksAreRecent
  <2>3. CASE raw # {}
    <3>1. clock' = now /\ ran' = ran
      BY <1>3, <2>3 DEF Begin
    <3> QED
      BY <2>1, <3>1, Numbers DEF ClocksAreRecent, Success
  <2> QED
    BY <2>2, <2>3
<1>4. CASE Commit
  <2>1. /\ ran' = clock /\ pc # "idle" /\ pc' = "idle" /\ UNCHANGED <<now, cleaner>>
    BY <1>4 DEF Commit, Reset
  <2>2. clock <= now /\ now - clock <= Pause
    BY <2>1, Numbers DEF ClocksAreRecent, Margins
  <2> QED
    BY <2>1, <2>2 DEF ClocksAreRecent
<1>5. CASE Build \/ NextGranularity \/ Abort
  <2>1. /\ UNCHANGED <<now, coverage, cleaner, ran>> /\ pc # "idle"
        /\ pc' # "idle" => clock' = clock
    BY <1>5 DEF Build, NextGranularity, Abort, Reset, history
  <2> QED
    BY <2>1 DEF ClocksAreRecent, Success
<1>6. CASE CleanBegin \/ CleanCommit \/ CleanAbort
  <2>1. /\ UNCHANGED <<now, coverage, ran, pc, clock>> /\ cleaner'.clock \in {0, now}
    BY <1>6 DEF CleanBegin, CleanCommit, CleanAbort, aggregation, history, Idle
  <2> QED
    BY <2>1, Numbers DEF ClocksAreRecent, Success
<1>7. CASE \E hour \in Hour : Ingest(hour)
  BY <1>7 DEF Ingest, ClocksAreRecent, Success, aggregation
<1> QED
  BY <1>1, <1>2, <1>3, <1>4, <1>5, <1>6, <1>7 DEF Next

\* What is fresh is young, what was removed is old, what is counted came in.
LEMMA AgesNext == ASSUME IInv, [Next]_vars PROVE FlowsHaveTheirAge'
<1> USE DEF IInv
<1>1. CASE UNCHANGED vars
  BY <1>1 DEF vars, FlowsHaveTheirAge
<1>2. CASE Tick
  <2>1. now' = now + 1 /\ UNCHANGED <<raw, stored, ran, fresh, removed>>
    BY <1>2 DEF Tick, history
  <2> QED
    BY <2>1, Numbers DEF FlowsHaveTheirAge
<1>3. ASSUME NEW hour \in Hour, Ingest(hour) PROVE FlowsHaveTheirAge'
  <2>1. /\ hour >= now - Delay /\ hour <= now /\ hour \notin raw \cup removed
        /\ raw' = raw \cup {hour} /\ fresh' = fresh \cup {hour}
        /\ UNCHANGED <<now, stored, ran, removed>>
    BY <1>3 DEF Ingest
  <2>2. hour >= ran - Delay
    BY <2>1, Numbers DEF ClocksAreRecent
  <2> QED
    BY <2>1, <2>2 DEF FlowsHaveTheirAge
<1>4. CASE Begin
  <2>1. /\ UNCHANGED <<now, raw, stored, removed>>
        /\ fresh' = {} \/ UNCHANGED <<ran, fresh>>
    BY <1>4 DEF Begin
  <2> QED
    BY <2>1 DEF FlowsHaveTheirAge
<1>5. CASE Build \/ NextGranularity \/ Abort \/ CleanBegin \/ CleanAbort
  <2>1. UNCHANGED <<now, raw, stored, ran, fresh, removed>>
    BY <1>5 DEF Build, NextGranularity, Abort, CleanBegin, CleanAbort, history
  <2> QED
    BY <2>1 DEF FlowsHaveTheirAge
<1>6. CASE Commit
  <2>1. /\ UNCHANGED <<now, raw, removed>> /\ ran' = clock /\ fresh' = newer /\ pc # "idle"
        /\ \A g \in Granularity : stored'[g] \subseteq stored[g] \cup built[g]
    BY <1>6 DEF Commit
  <2>2. /\ \A hour \in newer : hour >= clock - Delay
        /\ \A g \in Granularity : built[g] \subseteq raw \cup removed
    BY <2>1 DEF BuildIsComplete
  <2> QED
    BY <2>1, <2>2, Numbers DEF FlowsHaveTheirAge
<1>7. CASE CleanCommit
  <2> DEFINE gone == IF cleaner.covered
                     THEN {hour \in raw : hour < cleaner.clock - RawRetention} ELSE {}
  <2>1. /\ raw' = raw \ gone /\ removed' = removed \cup gone /\ fresh' = fresh \ gone
        /\ UNCHANGED <<now, ran>>
        /\ \A g \in Granularity : stored'[g] \subseteq stored[g]
    BY <1>7 DEF CleanCommit
  <2>2. gone \subseteq raw /\ \A hour \in gone : hour < now - RawRetention
    <3>1. \A hour \in raw : hour < cleaner.clock - RawRetention => hour < now - RawRetention
      BY Numbers DEF ClocksAreRecent
    <3> QED
      BY <3>1
  <2> HIDE DEF gone
  <2> QED
    BY <2>1, <2>2 DEF FlowsHaveTheirAge
<1> QED
  BY <1>1, <1>2, <1>3, <1>4, <1>5, <1>6, <1>7 DEF Next
-----------------------------------------------------------------------------
(* The rebuild.                                                             *)

\* What is built is what was there when the aggregation began.
LEMMA BuildNext == ASSUME IInv, [Next]_vars PROVE BuildIsComplete'
<1> USE DEF IInv
<1>1. CASE UNCHANGED vars
  BY <1>1 DEF vars, BuildIsComplete, BuiltUpTo, Start, RebuildStart, Final
<1>2. CASE Tick \/ CleanBegin \/ CleanAbort
  <2>1. UNCHANGED <<raw, removed, newer, stored, coverage, pc, clock, earliest, at, built>>
    BY <1>2 DEF Tick, CleanBegin, CleanAbort, aggregation, history
  <2> QED
    BY <2>1 DEF BuildIsComplete, BuiltUpTo, Start, RebuildStart, Final
<1>3. ASSUME NEW hour \in Hour, Ingest(hour) PROVE BuildIsComplete'
  <2>1. /\ hour >= now - Delay /\ hour \notin raw \cup removed
        /\ raw' = raw \cup {hour} /\ newer' = newer \cup {hour}
        /\ UNCHANGED <<removed, stored, coverage, pc, clock, earliest, at, built>>
    BY <1>3 DEF Ingest, aggregation
  <2>2. raw' \ newer' = raw \ newer
    BY <2>1
  <2>3. pc # "idle" => hour >= clock - Delay
    BY <2>1, Numbers DEF ClocksAreRecent
  <2>4. \A g \in Granularity : hour \notin stored[g]
    BY <2>1 DEF FlowsHaveTheirAge
  <2>5. BuiltUpTo(pc, at)' <=> BuiltUpTo(pc, at)
    BY <2>1, <2>2 DEF BuiltUpTo, Start, RebuildStart
  <2>6. BuiltUpTo("hourly", Final("hourly"))' <=> BuiltUpTo("hourly", Final("hourly"))
    BY <2>1, <2>2 DEF BuiltUpTo, Start, RebuildStart, Final
  <2> QED
    BY <2>1, <2>2, <2>3, <2>4, <2>5, <2>6 DEF BuildIsComplete
<1>4. CASE Begin
  <2>1. /\ pc = "idle" /\ newer' = {} /\ UNCHANGED <<raw, removed, stored, coverage>>
    BY <1>4 DEF Begin
  <2>2. CASE raw = {}
    <3>1. UNCHANGED <<pc, clock, earliest, at, built>>
      BY <1>4, <2>2 DEF Begin, aggregation
    <3> QED
      BY <2>1, <3>1 DEF BuildIsComplete
  <2>3. CASE raw # {}
    <3>1. PICK first \in raw :
             /\ \A hour \in raw : first <= hour
             /\ earliest' = first /\ clock' = now /\ pc' = "hourly"
             /\ at' = RebuildStart("hourly", first, now) /\ UNCHANGED built
      BY <1>4, <2>3 DEF Begin
    <3>2. at' = Start("hourly")' /\ at' \in Int
      <4>1. at' = Start("hourly")'
        BY <2>1, <3>1 DEF Start, RebuildStart
      <4>2. TypeOK'
        BY <1>4, TypeNext
      <4> QED
        BY <4>1, <4>2 DEF TypeOK
    <3>3. BuiltUpTo(pc, at)'
      BY <2>1, <3>1, <3>2, Numbers DEF BuiltUpTo
    <3>4. \A hour \in raw : hour <= now
      BY DEF FlowsHaveTheirAge
    <3> QED
      BY <2>1, <3>1, <3>3, <3>4, Numbers DEF BuildIsComplete
  <2> QED
    BY <2>2, <2>3
<1>5. CASE Build
  <2>1. /\ pc # "idle" /\ at' = at + 1 /\ built' = [built EXCEPT ![pc] = @ \cup ({at} \cap raw)]
        /\ UNCHANGED <<raw, removed, newer, stored, coverage, pc, clock, earliest>>
    BY <1>5 DEF Build, history
  <2>2. pc \in Granularity /\ built \in [Granularity -> SUBSET Hour]
    BY <2>1 DEF TypeOK
  <2>3. /\ built'[pc] = built[pc] \cup ({at} \cap raw)
        /\ \A g \in Granularity : g # pc => built'[g] = built[g]
    BY <2>1, <2>2
  <2>4. \A g : Start(g)' = Start(g) /\ Final(g)' = Final(g)
    BY <2>1 DEF Start, RebuildStart, Final
  <2>5. BuiltUpTo(pc, at)'
    <3>1. ASSUME NEW hour \in raw \ newer, Start(pc) <= hour, hour < at + 1
          PROVE  hour \in built'[pc]
      <4>1. hour < at \/ hour = at
        BY <3>1, Numbers
      <4>2. hour < at => hour \in built[pc]
        BY <2>1, <3>1 DEF BuildIsComplete, BuiltUpTo
      <4> QED
        BY <2>3, <4>1, <4>2
    <3> QED
      BY <2>1, <2>4, <3>1 DEF BuiltUpTo
  <2>6. pc = "daily" => BuiltUpTo("hourly", Final("hourly"))'
    BY <2>1, <2>3, <2>4 DEF BuiltUpTo, BuildIsComplete, Granularity
  <2>7. \A g \in Granularity : built'[g] \subseteq raw \cup removed
    BY <2>3 DEF BuildIsComplete
  <2> QED
    BY <2>1, <2>5, <2>6, <2>7 DEF BuildIsComplete
<1>6. CASE NextGranularity
  <2>1. /\ pc = "hourly" /\ at = Final("hourly") /\ pc' = "daily" /\ at' = Start("daily")
        /\ UNCHANGED <<raw, removed, newer, stored, coverage, clock, earliest, built>>
    BY <1>6 DEF NextGranularity, history, Start
  <2>2. \A g : Start(g)' = Start(g) /\ Final(g)' = Final(g)
    BY <2>1 DEF Start, RebuildStart, Final
  <2>3. BuiltUpTo("hourly", Final("hourly"))'
    BY <2>1, <2>2 DEF BuildIsComplete, BuiltUpTo
  <2>4. BuiltUpTo(pc, at)'
    <3>1. Start("daily") \in Nat
      BY StartBounds, Numbers DEF Granularity
    <3> QED
      BY <2>1, <2>2, <3>1, Numbers DEF BuiltUpTo
  <2> QED
    BY <2>1, <2>3, <2>4 DEF BuildIsComplete
<1>7. CASE Commit \/ Abort
  <2>1. pc' = "idle" /\ built' = Nobuild
    BY <1>7 DEF Commit, Abort, Reset
  <2> QED
    BY <2>1 DEF BuildIsComplete, Nobuild
<1>8. CASE CleanCommit
  <2>1. PICK gone \in SUBSET raw :
           /\ raw' = raw \ gone /\ removed' = removed \cup gone /\ newer' = newer \ gone
           /\ \A g \in Granularity : stored'[g] \subseteq stored[g]
           /\ UNCHANGED <<coverage, pc, clock, earliest, at, built>>
    <3> DEFINE gone == IF cleaner.covered
                       THEN {hour \in raw : hour < cleaner.clock - RawRetention} ELSE {}
    <3>1. /\ raw' = raw \ gone /\ removed' = removed \cup gone /\ newer' = newer \ gone
          /\ \A g \in Granularity : stored'[g] \subseteq stored[g]
          /\ UNCHANGED <<coverage, pc, clock, earliest, at, built>>
      BY <1>8 DEF CleanCommit, aggregation
    <3>2. gone \in SUBSET raw
      OBVIOUS
    <3> HIDE DEF gone
    <3> QED
      BY <3>1, <3>2
  <2>2. raw' \ newer' \subseteq raw \ newer /\ newer' \subseteq newer
    BY <2>1
  <2>3. \A g : Start(g)' = Start(g) /\ Final(g)' = Final(g)
    BY <2>1 DEF Start, RebuildStart, Final
  <2>4. BuiltUpTo(pc, at) => BuiltUpTo(pc, at)'
    BY <2>1, <2>2, <2>3 DEF BuiltUpTo
  <2>5. BuiltUpTo("hourly", Final("hourly")) => BuiltUpTo("hourly", Final("hourly"))'
    BY <2>1, <2>2, <2>3 DEF BuiltUpTo
  <2> QED
    BY <2>1, <2>2, <2>4, <2>5 DEF BuildIsComplete
<1> QED
  BY <1>1, <1>2, <1>3, <1>4, <1>5, <1>6, <1>7, <1>8 DEF Next
-----------------------------------------------------------------------------
(* What the margins give.                                                   *)

\* A fresh flow is still in the overlap, and far from the retention.
LEMMA FreshIsRecent ==
    ASSUME Margins, IInv, NEW g \in Granularity, Success(g), NEW hour \in fresh
    PROVE  now - Overlap[g] <= hour /\ now - RawRetention <= hour
<1>1. hour \in Nat /\ hour >= ran - Delay /\ now - ran <= Pause
  BY Numbers DEF IInv, FlowsHaveTheirAge, ClocksAreRecent, SuccessIsCommon
<1>2. now - Overlap[g] <= hour
  BY <1>1, Numbers DEF IInv, Margins
<1>3. Overlap[g] <= RawRetention
  <2>1. Overlap[g] + Step[g] + Length <= RawRetention + 1 /\ Step[g] >= 1 /\ Length >= 0
    BY Numbers DEF IInv, Margins
  <2> QED
    BY <2>1, Numbers DEF IInv
<1> QED
  BY <1>1, <1>2, <1>3, Numbers DEF IInv

\* No bucket is rebuilt whose raw flows have begun to leave.
LEMMA RemovedIsBeforeStart ==
    ASSUME Margins, IInv, NEW g \in Granularity, pc # "idle", NEW hour \in removed
    PROVE  hour < Start(g)
<1>1. hour \in Nat /\ hour < now - RawRetention /\ Success(g) /\ now - clock <= Length
  BY Numbers DEF IInv, FlowsHaveTheirAge, ClocksAreRecent, SuccessIsCommon
<1>2. clock - Overlap[g] < Start(g) + Step[g] /\ Start(g) \in Nat
  BY <1>1, StartBounds, Numbers DEF IInv
<1>3. Overlap[g] + Step[g] + Length <= RawRetention + 1
  BY DEF Margins
<1>4. /\ now \in Nat /\ clock \in Nat /\ Overlap[g] \in Nat /\ Step[g] \in Nat
      /\ Length \in Nat /\ RawRetention \in Nat
  BY Numbers DEF IInv
<1> QED
  BY <1>1, <1>2, <1>3, <1>4

\* A commit counts every flow that was there when its aggregation began.
LEMMA CommitCounts ==
    ASSUME Margins, IInv, Commit, NEW g \in Granularity, NEW hour \in (raw \cup removed) \ newer
    PROVE  hour \in stored'[g] \/ Expired(g, hour, now)
<1> USE DEF IInv
<1>1. /\ pc = "daily" /\ at = Final("daily")
      /\ stored'[g] = {x \in stored[g] : x < Start(g)} \cup built[g]
  BY DEF Commit, Start
<1>2. CASE hour \in removed
  <2>1. hour < Start(g)
    BY <1>1, <1>2, RemovedIsBeforeStart
  <2>2. Counted(g, hour)
    BY <1>2 DEF RemovedIsAggregated
  <2> QED
    BY <1>1, <2>1, <2>2 DEF Counted
<1>3. CASE hour \in raw /\ Start(g) <= hour
  <2>1. hour <= clock
    BY <1>1, <1>3 DEF BuildIsComplete
  <2>2. hour < Final(g)
    BY <1>3, <2>1, StartBounds, Numbers
  <2>3. BuiltUpTo(g, Final(g))
    BY <1>1 DEF BuildIsComplete, Granularity
  <2> QED
    BY <1>1, <1>3, <2>2, <2>3 DEF BuiltUpTo
<1>4. CASE hour \in raw /\ hour < Start(g)
  <2>1. earliest <= hour
    BY <1>1, <1>4 DEF BuildIsComplete
  <2>2. Success(g) /\ hour < clock - Overlap[g]
    BY <1>4, <2>1, StartBounds, Numbers
  <2>3. hour < now - Overlap[g]
    BY <1>1, <1>4, <2>2, Numbers DEF ClocksAreRecent
  <2>4. hour \notin fresh
    <3>1. ASSUME hour \in fresh PROVE FALSE
      <4>1. now - Overlap[g] <= hour
        BY <2>2, <3>1, FreshIsRecent
      <4> QED
        BY <1>4, <2>3, <4>1, Numbers
    <3> QED
      BY <3>1
  <2>5. Counted(g, hour)
    BY <1>4, <2>2, <2>4 DEF CoverageIsSound, Success
  <2> QED
    BY <1>1, <1>4, <2>5 DEF Counted
<1>5. hour \in Nat /\ Start(g) \in Nat
  BY StartBounds, Numbers
<1> QED
  BY <1>2, <1>3, <1>4, <1>5

\* No step uncounts a flow.
LEMMA CountedStays ==
    ASSUME Margins, IInv, [Next]_vars, NEW g \in Granularity, NEW hour \in stored[g]
    PROVE  hour \in stored'[g] \/ Expired(g, hour, now)
<1> USE DEF IInv
<1>1. CASE Commit
  <2>1. hour \in raw \cup removed /\ hour \notin newer
    BY <1>1 DEF FlowsHaveTheirAge, BuildIsComplete, Commit
  <2> QED
    BY <1>1, <2>1, CommitCounts
<1>2. CASE CleanCommit
  <2>1. stored'[g] = {x \in stored[g] : ~Expired(g, x, cleaner.clock)}
    BY <1>2 DEF CleanCommit
  <2>2. Expired(g, hour, cleaner.clock) => Expired(g, hour, now)
    <3>1. hour \in Int /\ cleaner.clock \in Int /\ now \in Int /\ cleaner.clock <= now
      BY Numbers DEF ClocksAreRecent
    <3> QED
      BY <3>1, ExpiredLater
  <2> QED
    BY <2>1, <2>2
<1>3. CASE ~Commit /\ ~CleanCommit
  <2>1. stored' = stored
    BY <1>3 DEF Next, vars, Tick, Ingest, Begin, Build, NextGranularity, Abort, CleanBegin,
                CleanAbort
  <2> QED
    BY <2>1
<1> QED
  BY <1>1, <1>2, <1>3

\* What was counted is counted, at whatever time the next state has.
LEMMA CountedNext ==
    ASSUME Margins, IInv, [Next]_vars, NEW g \in Granularity, NEW hour \in Hour, Counted(g, hour)
    PROVE  hour \in stored'[g] \/ Expired(g, hour, now')
<1>1. hour \in stored'[g] \/ Expired(g, hour, now)
  BY CountedStays DEF Counted
<1>2. hour \in Int /\ now \in Int /\ now' \in Int /\ now <= now'
  <2>1. now' = now \/ now' = now + 1
    BY DEF Next, vars, Tick, Ingest, Begin, Build, NextGranularity, Commit, Abort, CleanBegin,
           CleanCommit, CleanAbort
  <2> QED
    BY <2>1, Numbers DEF IInv
<1> QED
  BY <1>1, <1>2, ExpiredLater
-----------------------------------------------------------------------------
(* The two promises.                                                        *)

\* What a cleanup deletes is counted.
LEMMA RemovedNext == ASSUME Margins, IInv, [Next]_vars PROVE RemovedIsAggregated'
<1> USE DEF IInv
<1>1. ASSUME NEW hour \in removed', NEW g \in Granularity
      PROVE  hour \in Hour /\ Counted(g, hour)
  <2>1. CASE hour \in removed
    BY <1>1, <2>1, Numbers DEF RemovedIsAggregated
  <2>2. CASE hour \notin removed
    <3>1. CleanCommit
      BY <1>1, <2>2 DEF Next, vars, Tick, Ingest, Begin, Build, NextGranularity, Commit, Abort,
                        CleanBegin, CleanAbort, history
    <3>2. cleaner.covered /\ hour \in raw /\ hour < cleaner.clock - RawRetention
      <4>1. removed' = removed \cup IF cleaner.covered
                                    THEN {x \in raw : x < cleaner.clock - RawRetention} ELSE {}
        BY <3>1 DEF CleanCommit
      <4> QED
        BY <1>1, <2>2, <4>1
    <3>3. Success(g)
      BY <3>2 DEF SuccessIsCommon
    <3>4. hour < now - RawRetention /\ hour \in Hour
      BY <3>2, Numbers DEF ClocksAreRecent
    <3>5. hour \notin fresh
      <4>1. ASSUME hour \in fresh PROVE FALSE
        <5>1. now - RawRetention <= hour
          BY <3>3, <4>1, FreshIsRecent
        <5> QED
          BY <3>4, <5>1, Numbers
      <4> QED
        BY <4>1
    <3> QED
      BY <3>2, <3>3, <3>4, <3>5 DEF CoverageIsSound, Success
  <2> QED
    BY <2>1, <2>2
<1>2. \A hour \in removed' : \A g \in Granularity : hour \in stored'[g] \/ Expired(g, hour, now')
  BY <1>1, CountedNext
<1> QED
  BY <1>2 DEF RemovedIsAggregated, Counted, Expired, floor_bucket

\* The coverage promises no more than is counted.
LEMMA CoverageNext == ASSUME Margins, IInv, [Next]_vars PROVE CoverageIsSound'
<1> USE DEF IInv
<1>1. SUFFICES ASSUME NEW g \in Granularity, Success(g)',
                      NEW hour \in (raw' \cup removed') \ fresh'
               PROVE  hour \in stored'[g] \/ Expired(g, hour, now')
  BY DEF CoverageIsSound, Counted, Success, Expired, floor_bucket
<1>2. CASE Commit
  <2>1. hour \in (raw \cup removed) \ newer /\ now' = now
    BY <1>1, <1>2 DEF Commit
  <2> QED
    BY <1>2, <2>1, CommitCounts
<1>3. CASE ~Commit
  <2>1. Success(g)
    <3>1. coverage' = coverage
      BY <1>3 DEF Next, vars, Tick, Ingest, Begin, Build, NextGranularity, Abort, CleanBegin,
                  CleanCommit, CleanAbort
    <3> QED
      BY <1>1, <3>1 DEF Success
  <2>2. hour \in raw \cup removed /\ (hour \in fresh => hour \in removed \/ Begin \/ CleanCommit)
    <3>1. CASE \E x \in Hour : Ingest(x)
      BY <1>1, <3>1 DEF Ingest
    <3>2. CASE CleanCommit
      BY <1>1, <3>2 DEF CleanCommit
    <3>3. CASE Begin
      BY <1>1, <3>3 DEF Begin
    <3>4. CASE UNCHANGED <<raw, removed, fresh>>
      BY <1>1, <3>4
    <3> QED
      BY <1>3, <3>1, <3>2, <3>3, <3>4
         DEF Next, vars, Tick, Build, NextGranularity, Abort, CleanBegin, CleanAbort, history
  <2>3. Counted(g, hour)
    <3>1. CASE hour \in removed
      BY <3>1 DEF RemovedIsAggregated
    <3>2. CASE hour \notin fresh
      BY <2>1, <2>2, <3>2 DEF CoverageIsSound, Success
    <3>3. CASE hour \in fresh /\ hour \notin removed
      <4>1. CASE Begin
        <5>1. hour \in raw /\ fresh' # fresh
          BY <1>1, <2>2, <3>3, <4>1
        <5>2. raw = {}
          BY <4>1, <5>1 DEF Begin
        <5> QED
          BY <5>1, <5>2
      <4>2. CASE CleanCommit
        <5> DEFINE gone == IF cleaner.covered
                           THEN {x \in raw : x < cleaner.clock - RawRetention} ELSE {}
        <5>1. fresh' = fresh \ gone /\ removed' = removed \cup gone
          BY <4>2 DEF CleanCommit
        <5>2. hour \in gone
          BY <1>1, <3>3, <5>1
        <5>3. hour \in removed'
          BY <5>1, <5>2
        <5>4. hour \in Nat /\ hour < now - RawRetention
          BY <5>2, Numbers DEF ClocksAreRecent
        <5>5. now - RawRetention <= hour
          BY <2>1, <3>3, FreshIsRecent
        <5> QED
          BY <5>4, <5>5, Numbers
      <4> QED
        BY <2>2, <3>3, <4>1, <4>2
    <3> QED
      BY <3>1, <3>2, <3>3
  <2> QED
    BY <2>2, <2>3, CountedNext, Numbers
<1> QED
  BY <1>2, <1>3
-----------------------------------------------------------------------------
(* The theorems.                                                            *)

\* The invariant holds at first.
LEMMA SafeInit == Init => IInv
<1> SUFFICES ASSUME Init PROVE IInv
  OBVIOUS
<1>1. /\ \A g \in Granularity : ~Success(g) /\ stored[g] = {} /\ built[g] = {}
      /\ ~cleaner.covered /\ cleaner.clock = 0
  BY DEF Init, Success, Idle, Nobuild
<1>2. /\ now = 0 /\ ran = 0 /\ pc = "idle"
      /\ raw = {} /\ fresh = {} /\ removed = {}
  BY DEF Init
<1>3. SuccessIsCommon /\ FlowsHaveTheirAge /\ BuildIsComplete
  BY <1>1, <1>2 DEF SuccessIsCommon, FlowsHaveTheirAge, BuildIsComplete
<1>4. ClocksAreRecent
  BY <1>1, <1>2, ConstantsAssumption DEF ClocksAreRecent, Granularity
<1>5. RemovedIsAggregated /\ CoverageIsSound
  BY <1>1, <1>2 DEF RemovedIsAggregated, CoverageIsSound, Success
<1> QED
  BY <1>3, <1>4, <1>5, TypeInit DEF IInv

\* Within the margins every step keeps it.
LEMMA SafeNext == ASSUME Margins PROVE IInv /\ [Next]_vars => IInv'
<1> SUFFICES ASSUME IInv, [Next]_vars PROVE IInv'
  OBVIOUS
<1>1. TypeOK' /\ SuccessIsCommon' /\ ClocksAreRecent'
  BY TypeNext, SuccessNext, ClocksNext DEF IInv
<1>2. FlowsHaveTheirAge' /\ BuildIsComplete' /\ RemovedIsAggregated' /\ CoverageIsSound'
  BY AgesNext, BuildNext, RemovedNext, CoverageNext
<1> QED
  BY <1>1, <1>2 DEF IInv

(* What is gone is counted, and what counts as covered is too: for every    *)
(* step, overlap and retention that keep the margins, whatever overlaps,    *)
(* fails or arrives late.                                                   *)
THEOREM FlowsAreRetained == ASSUME Margins PROVE Spec => []RetentionInv
<1>1. IInv => RetentionInv
  BY DEF IInv, RetentionInv
<1>2. IInv /\ [Next]_vars => IInv'
  BY SafeNext
<1> QED
  BY <1>1, <1>2, SafeInit, PTL DEF Spec

(* No rebuild and no cleanup loses a flow that is counted before its bucket *)
(* expires.                                                                 *)
THEOREM RebuildsLoseNothing == ASSUME Margins PROVE Spec => CountedIsKept
<1>1. IInv /\ [Next]_vars =>
         [\A g \in Granularity : \A hour \in stored[g] :
             hour \in stored'[g] \/ Expired(g, hour, now)]_vars
  BY CountedStays
<1>2. IInv /\ [Next]_vars => IInv'
  BY SafeNext
<1> QED
  BY <1>1, <1>2, SafeInit, PTL DEF Spec, CountedIsKept
=============================================================================
