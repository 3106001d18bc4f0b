---------------------- MODULE NotificationOutboxProofs ----------------------
(***************************************************************************)
(* Proofs about NotificationOutbox for any number of endpoints, backends,  *)
(* rows, retries and crashes: one sender at a time, bounded retries, the   *)
(* staleness of a batch, at-least-once delivery and final answers.         *)
(***************************************************************************)
EXTENDS NotificationOutbox, FiniteSetTheorems, FunctionTheorems, SequenceTheorems, TLAPS

Sending == {"next", "post", "commit"}

(* A worker that does anything holds the lock.                              *)
LockIsHeld == \A w \in Worker : pc[w] # "idle" => lock = w

(* What a worker has in its hands is still active: no row is in its batch   *)
(* twice, or marked while its turn is to come.                              *)
BatchIsActive ==
    \A w \in Worker :
       /\ \A i \in DOMAIN batch[w] :
             /\ deliveries[batch[w][i]].status \in Active
             /\ batch[w][i] \notin cancelled[w]
             /\ \A j \in DOMAIN batch[w] : i # j => batch[w][i] # batch[w][j]
       /\ \A d \in cancelled[w] : deliveries[d].status \in Active
       /\ pc[w] \notin Sending => batch[w] = << >> /\ cancelled[w] = {}

(* Only a row that has a retry left is given one.                           *)
DraftIsBounded ==
    \A w \in Worker : pc[w] = "commit" =>
       /\ draft[w].status \in {"delivered", "failed", "retrying"}
       /\ draft[w].status = "retrying" => deliveries[batch[w][1]].attempts < Retries

(* An endpoint that the session takes for enabled is, or was when its batch *)
(* was read.                                                                *)
CacheIsOfBatch ==
    \A w \in Worker :
       /\ pc[w] \notin Sending => cached[w] = NoEndpoint
       /\ \A e \in Endpoint : cached[w] = <<e, TRUE>> => enabled[e] \/ e \in switchedOff[w]
       /\ pc[w] = "post" => cached[w] = <<Target(w), TRUE>>

(* An acceptance that the worker has heard of and not committed.            *)
Heard(w, d) == pc[w] = "commit" /\ batch[w][1] = d /\ draft[w].status = "delivered"

(* A row without an answer was accepted as often as the worker missed it,   *)
(* and once more while it holds the answer.                                 *)
PostsAreCounted ==
    /\ \A d \in DOMAIN deliveries : deliveries[d].status \in Active =>
          \/ accepted[d] <= doubt[d]
          \/ accepted[d] <= doubt[d] + 1 /\ \E w \in Worker : Heard(w, d)
    /\ \A w \in Worker : \A d \in DOMAIN deliveries : Heard(w, d) => accepted[d] > 0

IInv == /\ TypeOK /\ LockIsHeld /\ BatchIsActive /\ BoundedRetries /\ DraftIsBounded
        /\ CacheIsOfBatch /\ AtLeastOnce /\ PostsAreCounted
-----------------------------------------------------------------------------
(* The tables.                                                              *)

\* What the types say of the rows.
LEMMA RowTypes ==
    ASSUME TypeOK
    PROVE  /\ Len(deliveries) \in Nat /\ DOMAIN deliveries = 1 .. Len(deliveries)
           /\ DOMAIN accepted = DOMAIN deliveries /\ DOMAIN doubt = DOMAIN deliveries
           /\ \A d \in DOMAIN deliveries :
                 deliveries[d] \in Row /\ accepted[d] \in Nat /\ doubt[d] \in Nat
<1>1. /\ deliveries \in Seq(Row) /\ accepted \in Seq(Nat) /\ doubt \in Seq(Nat)
      /\ Len(accepted) = Len(deliveries) /\ Len(doubt) = Len(deliveries)
  BY DEF TypeOK
<1> QED
  BY <1>1

\* A function on the rows with values of one type is a sequence of as many.
LEMMA RowsType ==
    ASSUME TypeOK, NEW S, NEW f, f \in [DOMAIN deliveries -> S]
    PROVE  f \in Seq(S) /\ Len(f) = Len(deliveries)
<1>1. Len(deliveries) \in Nat /\ f \in [1 .. Len(deliveries) -> S]
  BY RowTypes
<1> QED
  BY <1>1, SeqDef, LenProperties

\* What a batch holds are rows, and its rest is a batch.
LEMMA BatchTypes ==
    ASSUME TypeOK, NEW w \in Worker
    PROVE  /\ Len(batch[w]) \in Nat /\ DOMAIN batch[w] = 1 .. Len(batch[w])
           /\ \A i \in DOMAIN batch[w] : batch[w][i] \in DOMAIN deliveries
           /\ batch[w] # << >> =>
                 /\ Len(batch[w]) > 0 /\ 1 \in DOMAIN batch[w]
                 /\ Target(w) \in Endpoint
                 /\ Tail(batch[w]) \in Seq(DOMAIN deliveries)
                 /\ DOMAIN Tail(batch[w]) = 1 .. Len(batch[w]) - 1
                 /\ \A i \in DOMAIN Tail(batch[w]) :
                       i + 1 \in DOMAIN batch[w] /\ Tail(batch[w])[i] = batch[w][i + 1]
<1>1. batch[w] \in Seq(DOMAIN deliveries)
  BY DEF TypeOK
<1>2. /\ Len(batch[w]) \in Nat /\ DOMAIN batch[w] = 1 .. Len(batch[w])
      /\ \A i \in DOMAIN batch[w] : batch[w][i] \in DOMAIN deliveries
  BY <1>1
<1>3. ASSUME batch[w] # << >>
      PROVE  /\ Len(batch[w]) > 0 /\ 1 \in DOMAIN batch[w] /\ Target(w) \in Endpoint
  <2>1. Len(batch[w]) > 0
    BY <1>1, <1>3, EmptySeq
  <2>2. 1 \in DOMAIN batch[w]
    BY <1>2, <2>1
  <2>3. deliveries[batch[w][1]] \in Row
    BY <1>2, <2>2, RowTypes
  <2> QED
    BY <2>1, <2>2, <2>3 DEF Target, Row
<1>4. ASSUME batch[w] # << >>
      PROVE  /\ Tail(batch[w]) \in Seq(DOMAIN deliveries)
             /\ DOMAIN Tail(batch[w]) = 1 .. Len(batch[w]) - 1
             /\ \A i \in DOMAIN Tail(batch[w]) :
                   i + 1 \in DOMAIN batch[w] /\ Tail(batch[w])[i] = batch[w][i + 1]
  <2>1. /\ Tail(batch[w]) \in Seq(DOMAIN deliveries) /\ Len(Tail(batch[w])) = Len(batch[w]) - 1
        /\ \A i \in 1 .. Len(Tail(batch[w])) : Tail(batch[w])[i] = batch[w][i + 1]
    BY <1>1, <1>4, HeadTailProperties
  <2>2. DOMAIN Tail(batch[w]) = 1 .. Len(batch[w]) - 1
    BY <2>1, LenProperties
  <2>3. \A i \in 1 .. Len(batch[w]) - 1 : i + 1 \in 1 .. Len(batch[w])
    BY <1>2
  <2> QED
    BY <1>2, <2>1, <2>2, <2>3
<1> QED
  BY <1>2, <1>3, <1>4

\* A new row is the last one; the others stay what they are.
LEMMA InsertRows ==
    ASSUME TypeOK, NEW e \in Endpoint, Insert(e)
    PROVE  /\ deliveries' \in Seq(Row) /\ accepted' \in Seq(Nat) /\ doubt' \in Seq(Nat)
           /\ Len(deliveries') = Len(deliveries) + 1
           /\ Len(accepted') = Len(deliveries') /\ Len(doubt') = Len(deliveries')
           /\ DOMAIN deliveries' = DOMAIN deliveries \cup {Len(deliveries')}
           /\ Len(deliveries') \notin DOMAIN deliveries
           /\ \A d \in DOMAIN deliveries :
                 /\ deliveries'[d] = deliveries[d]
                 /\ accepted'[d] = accepted[d] /\ doubt'[d] = doubt[d]
           /\ LET d == Len(deliveries') IN
                 /\ deliveries'[d] = [endpoint |-> e, status |-> "pending", attempts |-> 0,
                                      wait |-> 0]
                 /\ accepted'[d] = 0 /\ doubt'[d] = 0
<1> DEFINE row == [endpoint |-> e, status |-> "pending", attempts |-> 0, wait |-> 0]
<1>1. row \in Row
  BY ConstantsAssumption DEF Row, Active
<1>2. /\ deliveries \in Seq(Row) /\ accepted \in Seq(Nat) /\ doubt \in Seq(Nat)
      /\ Len(accepted) = Len(deliveries) /\ Len(doubt) = Len(deliveries)
  BY DEF TypeOK
<1>3. deliveries' = Append(deliveries, row) /\ accepted' = Append(accepted, 0)
      /\ doubt' = Append(doubt, 0)
  BY DEF Insert
<1> HIDE DEF row
<1>4. /\ deliveries' \in Seq(Row) /\ Len(deliveries') = Len(deliveries) + 1
      /\ \A d \in 1 .. Len(deliveries) : deliveries'[d] = deliveries[d]
      /\ deliveries'[Len(deliveries) + 1] = row
  BY <1>1, <1>2, <1>3
<1>5. /\ accepted' \in Seq(Nat) /\ Len(accepted') = Len(deliveries) + 1
      /\ doubt' \in Seq(Nat) /\ Len(doubt') = Len(deliveries) + 1
      /\ \A d \in 1 .. Len(deliveries) : accepted'[d] = accepted[d] /\ doubt'[d] = doubt[d]
      /\ accepted'[Len(deliveries) + 1] = 0 /\ doubt'[Len(deliveries) + 1] = 0
  BY <1>2, <1>3
<1>6. /\ Len(deliveries) \in Nat /\ DOMAIN deliveries = 1 .. Len(deliveries)
      /\ DOMAIN deliveries' = 1 .. Len(deliveries) + 1
  BY <1>2, <1>4
<1> QED
  BY <1>4, <1>5, <1>6 DEF row
\* What Due selects can be counted.
LEMMA DueIsFinite ==
    ASSUME TypeOK
    PROVE  /\ Due \subseteq DOMAIN deliveries
           /\ IsFiniteSet(Due) /\ Cardinality(Due) \in Nat
<1>1. Due \subseteq DOMAIN deliveries
  BY DEF Due
<1>2. IsFiniteSet(DOMAIN deliveries)
  BY RowTypes, FS_Interval
<1> QED
  BY <1>1, <1>2, FS_Subset, FS_CardinalityType

\* A batch is a sequence of due rows, none of them twice.
LEMMA BatchesAreDue ==
    ASSUME TypeOK, NEW b \in Batches
    PROVE  /\ b \in Seq(DOMAIN deliveries)
           /\ \A i \in DOMAIN b : b[i] \in Due /\ \A j \in DOMAIN b : i # j => b[i] # b[j]
<1> DEFINE size == IF Cardinality(Due) < BatchLimit THEN Cardinality(Due) ELSE BatchLimit
<1>1. size \in Nat
  BY DueIsFinite, ConstantsAssumption
<1>2. /\ b \in [1 .. size -> Due]
      /\ \A i \in 1 .. size : \A j \in i + 1 .. size : b[i] # b[j]
  BY DEF Batches
<1> HIDE DEF size
<1>3. b \in [1 .. size -> DOMAIN deliveries]
  BY <1>2, DueIsFinite
<1>4. b \in Seq(DOMAIN deliveries)
  BY <1>1, <1>3, SeqDef
<1>5. ASSUME NEW i \in 1 .. size, NEW j \in 1 .. size, i # j PROVE b[i] # b[j]
  <2>1. CASE i < j
    <3>1. j \in i + 1 .. size
      BY <1>1, <1>5, <2>1
    <3> QED
      BY <1>2, <3>1
  <2>2. CASE j < i
    <3>1. i \in j + 1 .. size
      BY <1>1, <1>5, <2>2
    <3> QED
      BY <1>2, <3>1
  <2> QED
    BY <1>1, <1>5, <2>1, <2>2
<1> QED
  BY <1>2, <1>4, <1>5

\* A wait that Tick may shrink stays within its bounds.
LEMMA FloorBound ==
    ASSUME TypeOK, NEW d \in DOMAIN deliveries
    PROVE  Floor(d) \in Int /\ Floor(d) >= - MaxLate
<1> DEFINE before == {x \in DOMAIN deliveries :
                        deliveries[x].status \in Active /\ deliveries[x].wait < deliveries[d].wait}
           waits == {deliveries[c].wait : c \in before}
           wait == [c \in before |-> deliveries[c].wait]
<1>1. IsFiniteSet(before)
  <2>1. before \subseteq DOMAIN deliveries
    OBVIOUS
  <2>2. IsFiniteSet(DOMAIN deliveries)
    BY RowTypes, FS_Interval
  <2> HIDE DEF before
  <2> QED
    BY <2>1, <2>2, FS_Subset
<1>2. wait \in Surjection(before, waits)
  BY DEF Surjection
<1>3. IsFiniteSet(waits)
  BY <1>1, <1>2, FS_Surjection
<1>4. Cardinality(waits) \in Nat
  BY <1>3, FS_CardinalityType
<1>5. Floor(d) = Cardinality(waits) - MaxLate
  BY DEF Floor
<1> QED
  BY <1>4, <1>5, ConstantsAssumption

\* What a post can come to: a retry only while one is left.
LEMMA AnswerTypes ==
    ASSUME NEW n \in Nat, NEW a \in Answers(n)
    PROVE  /\ a \in Draft
           /\ a.status \in {"delivered", "failed", "retrying"}
           /\ a.status = "retrying" => n <= Retries
           /\ a.status = "delivered" => a.accepted
           /\ a.gone => a.status = "failed"
<1>1. \A status \in Active \cup Final, t \in 0 .. MaxWait, gone \in BOOLEAN, ok \in BOOLEAN :
         [status |-> status, wait |-> t, gone |-> gone, accepted |-> ok] \in Draft
  BY DEF Draft
<1>2. 0 \in 0 .. MaxWait /\ Retries \in Nat
  BY ConstantsAssumption
<1>3. {"delivered", "failed", "retrying"} \subseteq Active \cup Final
  BY DEF Active, Final
<1>4. CASE a \in RetryOrFail(n, BOOLEAN)
  <2>1. PICK ok \in BOOLEAN : a \in IF n > Retries THEN Answer("failed", {0}, FALSE, ok)
                                    ELSE Answer("retrying", 0 .. MaxWait, FALSE, ok)
    BY <1>4 DEF RetryOrFail
  <2>2. CASE n > Retries
    <3>1. a = [status |-> "failed", wait |-> 0, gone |-> FALSE, accepted |-> ok]
      BY <2>1, <2>2 DEF Answer
    <3> QED
      BY <1>1, <1>2, <1>3, <3>1
  <2>3. CASE ~ (n > Retries)
    <3>1. n <= Retries
      BY <1>2, <2>3
    <3>2. PICK t \in 0 .. MaxWait :
             a = [status |-> "retrying", wait |-> t, gone |-> FALSE, accepted |-> ok]
      BY <2>1, <2>3 DEF Answer
    <3>3. a \in Draft
      BY <1>1, <1>3, <3>2
    <3> QED
      BY <3>1, <3>2, <3>3
  <2> QED
    BY <2>2, <2>3
<1>5. CASE a \in Answer("delivered", {0}, FALSE, TRUE)
  <2>1. a = [status |-> "delivered", wait |-> 0, gone |-> FALSE, accepted |-> TRUE]
    BY <1>5 DEF Answer
  <2> QED
    BY <1>1, <1>2, <1>3, <2>1
<1>6. CASE a \in Answer("failed", {0}, TRUE, FALSE) \cup Answer("failed", {0}, FALSE, FALSE)
  <2>1. PICK gone \in BOOLEAN :
           a = [status |-> "failed", wait |-> 0, gone |-> gone, accepted |-> FALSE]
    BY <1>6 DEF Answer
  <2> QED
    BY <1>1, <1>2, <1>3, <2>1
<1> QED
  BY <1>4, <1>5, <1>6 DEF Answers
-----------------------------------------------------------------------------
(* Type correctness.                                                        *)

\* The types hold at first.
LEMMA TypeInit == Init => TypeOK
<1> SUFFICES ASSUME Init PROVE TypeOK
  OBVIOUS
<1>1. NoDraft \in Draft
  BY ConstantsAssumption DEF NoDraft, Draft, Active
<1>2. \A S : << >> \in Seq(S) /\ Len(<< >>) = 0
  BY EmptySeq
<1>3. /\ enabled \in [Endpoint -> BOOLEAN] /\ deliveries \in Seq(Row)
      /\ Len(deliveries) <= MaxDeliveries /\ lock \in Worker \cup {Nobody}
      /\ changes \in 0 .. MaxChanges /\ crashes \in 0 .. MaxCrashes
  BY <1>2, ConstantsAssumption DEF Init
<1>4. /\ accepted \in Seq(Nat) /\ Len(accepted) = Len(deliveries)
      /\ doubt \in Seq(Nat) /\ Len(doubt) = Len(deliveries)
  BY <1>2 DEF Init
<1> QED
  BY <1>1, <1>2, <1>3, <1>4 DEF Init, TypeOK

\* The administrator and the queue keep the types.
LEMMA TypeAdmin ==
    ASSUME TypeOK, NEW e \in Endpoint,
           Insert(e) \/ \E value \in BOOLEAN : SetEnabled(e, value)
    PROVE  TypeOK'
<1>1. CASE Insert(e)
  <2>1. /\ deliveries' \in Seq(Row) /\ Len(deliveries') <= MaxDeliveries
        /\ accepted' \in Seq(Nat) /\ Len(accepted') = Len(deliveries')
        /\ doubt' \in Seq(Nat) /\ Len(doubt') = Len(deliveries')
        /\ DOMAIN deliveries \subseteq DOMAIN deliveries'
    BY <1>1, RowTypes, InsertRows, ConstantsAssumption DEF Insert
  <2>2. \A w \in Worker : batch[w] \in Seq(DOMAIN deliveries')
    BY <2>1, SeqMonotonic DEF TypeOK
  <2> QED
    BY <1>1, <2>1, <2>2 DEF Insert, TypeOK, session
<1>2. ASSUME NEW value \in BOOLEAN, SetEnabled(e, value) PROVE TypeOK'
  BY <1>2, ConstantsAssumption DEF SetEnabled, TypeOK, session
<1> QED
  BY <1>1, <1>2

\* So does the clock.
LEMMA TypeTick == ASSUME TypeOK, Tick PROVE TypeOK'
<1>1. deliveries' \in [DOMAIN deliveries -> Row]
  <2> SUFFICES ASSUME NEW d \in DOMAIN deliveries, deliveries[d].wait > Floor(d)
               PROVE  [deliveries[d] EXCEPT !.wait = @ - 1] \in Row
    BY RowTypes DEF Tick
  <2>1. deliveries[d] \in Row
    BY RowTypes
  <2>2. deliveries[d].wait - 1 \in - MaxLate .. MaxWait
    BY <2>1, FloorBound, ConstantsAssumption DEF Row
  <2> QED
    BY <2>1, <2>2 DEF Row
<1>2. deliveries' \in Seq(Row) /\ Len(deliveries') = Len(deliveries)
  BY <1>1, RowsType
<1>3. DOMAIN deliveries' = DOMAIN deliveries
  BY <1>1
<1> QED
  BY <1>2, <1>3 DEF Tick, TypeOK, session, history
\* What Commit does to the rows.
LEMMA CommitRows ==
    ASSUME TypeOK, NEW w \in Worker, Commit(w)
    PROVE  /\ batch[w] # << >> /\ batch[w][1] \in DOMAIN deliveries
           /\ deliveries' \in Seq(Row) /\ Len(deliveries') = Len(deliveries)
           /\ DOMAIN deliveries' = DOMAIN deliveries
           /\ \A x \in DOMAIN deliveries :
                 /\ deliveries'[x].endpoint = deliveries[x].endpoint
                 /\ x = batch[w][1] => /\ deliveries'[x].status = draft[w].status
                                       /\ deliveries'[x].attempts = deliveries[x].attempts + 1
                 /\ x # batch[w][1] /\ x \in cancelled[w] =>
                       /\ deliveries'[x].status = "cancelled"
                       /\ deliveries'[x].attempts = deliveries[x].attempts
                 /\ x # batch[w][1] /\ x \notin cancelled[w] => deliveries'[x] = deliveries[x]
<1> DEFINE d == batch[w][1]
           a == draft[w]
<1>1. batch[w] # << >> /\ d \in DOMAIN deliveries /\ a \in Draft
  BY BatchTypes DEF TypeOK, Commit
<1>2. deliveries' = [x \in DOMAIN deliveries |->
          IF x = d THEN [deliveries[x] EXCEPT !.status = a.status, !.attempts = @ + 1,
                                              !.wait = a.wait]
          ELSE IF x \in cancelled[w] THEN [deliveries[x] EXCEPT !.status = "cancelled", !.wait = 0]
          ELSE deliveries[x]]
  BY DEF Commit
<1>3. a.status \in Active \cup Final /\ a.wait \in - MaxLate .. MaxWait
      /\ 0 \in - MaxLate .. MaxWait /\ "cancelled" \in Active \cup Final
  BY <1>1, ConstantsAssumption DEF Draft, Final
<1> HIDE DEF d, a
<1>4. ASSUME NEW x \in DOMAIN deliveries
      PROVE  /\ deliveries'[x] \in Row
             /\ deliveries'[x].endpoint = deliveries[x].endpoint
             /\ x = d => /\ deliveries'[x].status = a.status
                         /\ deliveries'[x].attempts = deliveries[x].attempts + 1
             /\ x # d /\ x \in cancelled[w] =>
                   /\ deliveries'[x].status = "cancelled"
                   /\ deliveries'[x].attempts = deliveries[x].attempts
             /\ x # d /\ x \notin cancelled[w] => deliveries'[x] = deliveries[x]
  <2>1. deliveries[x] \in Row
    BY RowTypes
  <2>2. CASE x = d
    <3>1. deliveries'[x] = [deliveries[x] EXCEPT !.status = a.status, !.attempts = @ + 1,
                                                 !.wait = a.wait]
      BY <1>2, <2>2
    <3>2. deliveries'[x] = [endpoint |-> deliveries[x].endpoint, status |-> a.status,
                            attempts |-> deliveries[x].attempts + 1, wait |-> a.wait]
      BY <2>1, <3>1 DEF Row
    <3>3. deliveries[x].endpoint \in Endpoint /\ deliveries[x].attempts + 1 \in Nat
      BY <2>1 DEF Row
    <3>4. deliveries'[x] \in Row
      BY <1>3, <3>2, <3>3 DEF Row
    <3> QED
      BY <2>2, <3>2, <3>4
  <2>3. CASE x # d /\ x \in cancelled[w]
    <3>1. deliveries'[x] = [deliveries[x] EXCEPT !.status = "cancelled", !.wait = 0]
      BY <1>2, <2>3
    <3> QED
      BY <1>3, <2>1, <2>3, <3>1 DEF Row
  <2>4. CASE x # d /\ x \notin cancelled[w]
    <3>1. deliveries'[x] = deliveries[x]
      BY <1>2, <2>4
    <3> QED
      BY <2>1, <2>4, <3>1
  <2> QED
    BY <2>2, <2>3, <2>4
<1>5. deliveries' \in [DOMAIN deliveries -> Row]
  BY <1>2, <1>4
<1>6. deliveries' \in Seq(Row) /\ Len(deliveries') = Len(deliveries)
  BY <1>5, RowsType
<1>7. DOMAIN deliveries' = DOMAIN deliveries
  BY <1>5
<1> QED
  BY <1>1, <1>4, <1>6, <1>7 DEF d, a

\* The worker keeps them.
LEMMA TypeWorker == ASSUME TypeOK, NEW w \in Worker, WorkerStep(w) \/ Crash(w) PROVE TypeOK'
<1>1. CASE TryLock(w)
  BY <1>1 DEF TryLock, TypeOK, history
<1>2. CASE ReadDue(w)
  <2>1. PICK b \in Batches : batch' = [batch EXCEPT ![w] = b]
    BY <1>2 DEF ReadDue
  <2>2. b \in Seq(DOMAIN deliveries)
    BY BatchesAreDue
  <2> QED
    BY <1>2, <2>1, <2>2 DEF ReadDue, TypeOK
<1>3. CASE SkipDisabled(w)
  <2>1. /\ Target(w) \in Endpoint /\ batch[w][1] \in DOMAIN deliveries
        /\ Tail(batch[w]) \in Seq(DOMAIN deliveries)
    BY <1>3, BatchTypes DEF SkipDisabled
  <2>2. /\ batch' \in [Worker -> Seq(DOMAIN deliveries)]
        /\ cancelled' \in [Worker -> SUBSET DOMAIN deliveries]
        /\ cached' \in [Worker -> {NoEndpoint} \cup (Endpoint \X BOOLEAN)]
    BY <1>3, <2>1 DEF SkipDisabled, TypeOK
  <2>3. \A v \in Worker : pc[v] \in {"post", "commit"} => batch'[v] # << >>
    BY <1>3 DEF SkipDisabled, TypeOK
  <2> QED
    BY <1>3, <2>2, <2>3 DEF SkipDisabled, TypeOK, history
<1>4. CASE BeginPost(w)
  <2>1. Target(w) \in Endpoint
    BY <1>4, BatchTypes DEF BeginPost
  <2> QED
    BY <1>4, <2>1 DEF BeginPost, TypeOK, history
<1>5. CASE Post(w)
  <2>1. batch[w][1] \in DOMAIN deliveries
    BY <1>5, BatchTypes DEF Post, TypeOK
  <2>2. deliveries[batch[w][1]].attempts + 1 \in Nat
    BY <2>1, RowTypes DEF Row
  <2>3. draft' \in [Worker -> Draft]
    BY <1>5, <2>2, AnswerTypes DEF Post, TypeOK
  <2>4. accepted' \in [DOMAIN deliveries -> Nat] /\ doubt' \in [DOMAIN deliveries -> Nat]
    <3>1. /\ accepted \in [DOMAIN deliveries -> Nat] /\ doubt \in [DOMAIN deliveries -> Nat]
      BY RowTypes DEF TypeOK
    <3> QED
      BY <1>5, <2>1, <3>1 DEF Post
  <2>5. /\ accepted' \in Seq(Nat) /\ Len(accepted') = Len(deliveries)
        /\ doubt' \in Seq(Nat) /\ Len(doubt') = Len(deliveries)
    BY <2>4, RowsType
  <2> QED
    BY <1>5, <2>3, <2>5 DEF Post, TypeOK
<1>6. CASE Commit(w)
  <2>1. /\ deliveries' \in Seq(Row) /\ Len(deliveries') = Len(deliveries)
        /\ DOMAIN deliveries' = DOMAIN deliveries /\ batch[w] # << >>
    BY <1>6, CommitRows
  <2>2. NoDraft \in Draft
    BY ConstantsAssumption DEF NoDraft, Draft, Active
  <2>3. Target(w) \in Endpoint /\ Tail(batch[w]) \in Seq(DOMAIN deliveries)
    BY <2>1, BatchTypes
  <2>4. \A v \in Worker :
           /\ batch'[v] \in Seq(DOMAIN deliveries') /\ cancelled'[v] \subseteq DOMAIN deliveries'
           /\ pc'[v] \in {"post", "commit"} => batch'[v] # << >>
    BY <1>6, <2>1, <2>3 DEF Commit, TypeOK
  <2>5. /\ enabled' \in [Endpoint -> BOOLEAN] /\ draft' \in [Worker -> Draft]
        /\ switchedOff' \in [Worker -> SUBSET Endpoint]
        /\ pc' \in [Worker -> {"idle", "read", "next", "post", "commit", "unlock"}]
    BY <1>6, <2>2, <2>3 DEF Commit, TypeOK
  <2> QED
    BY <1>6, <2>1, <2>4, <2>5 DEF Commit, TypeOK
<1>7. CASE EndBatch(w) \/ Unlock(w)
  BY <1>7 DEF EndBatch, Unlock, TypeOK, history
<1>8. CASE Crash(w)
  <2>1. NoDraft \in Draft
    BY ConstantsAssumption DEF NoDraft, Draft, Active
  <2>2. doubt' \in [DOMAIN deliveries -> Nat]
    <3>1. doubt \in [DOMAIN deliveries -> Nat]
      BY RowTypes DEF TypeOK
    <3>2. pc[w] = "commit" => batch[w][1] \in DOMAIN deliveries
      BY BatchTypes DEF TypeOK
    <3> QED
      BY <1>8, <3>1, <3>2 DEF Crash
  <2>3. doubt' \in Seq(Nat) /\ Len(doubt') = Len(deliveries)
    BY <2>2, RowsType
  <2>4. << >> \in Seq(DOMAIN deliveries)
    BY EmptySeq
  <2>5. /\ UNCHANGED <<enabled, deliveries, changes, accepted>>
        /\ lock' \in Worker \cup {Nobody} /\ crashes' \in 0 .. MaxCrashes
    BY <1>8, ConstantsAssumption DEF Crash, TypeOK
  <2>6. batch' \in [Worker -> Seq(DOMAIN deliveries)]
    BY <1>8, <2>4 DEF Crash, TypeOK
  <2>7. /\ pc' \in [Worker -> {"idle", "read", "next", "post", "commit", "unlock"}]
        /\ cancelled' \in [Worker -> SUBSET DOMAIN deliveries]
        /\ cached' \in [Worker -> {NoEndpoint} \cup (Endpoint \X BOOLEAN)]
        /\ draft' \in [Worker -> Draft] /\ switchedOff' \in [Worker -> SUBSET Endpoint]
    BY <1>8, <2>1 DEF Crash, TypeOK
  <2>8. \A v \in Worker : pc'[v] \in {"post", "commit"} => batch'[v] # << >>
    BY <1>8 DEF Crash, TypeOK
  <2> QED
    BY <2>3, <2>5, <2>6, <2>7, <2>8 DEF TypeOK
<1> QED
  BY <1>1, <1>2, <1>3, <1>4, <1>5, <1>6, <1>7, <1>8 DEF WorkerStep

\* Every step keeps the types.
LEMMA TypeNext == TypeOK /\ [Next]_vars => TypeOK'
<1> SUFFICES ASSUME TypeOK, [Next]_vars PROVE TypeOK'
  OBVIOUS
<1>1. CASE UNCHANGED vars
  BY <1>1 DEF vars, TypeOK
<1>2. ASSUME NEW e \in Endpoint,
             QueueEvent(e) \/ QueueTest(e) \/ \E value \in BOOLEAN : SetEnabled(e, value)
      PROVE  TypeOK'
  BY <1>2, TypeAdmin DEF QueueEvent, QueueTest
<1> QED
  BY <1>1, <1>2, TypeTick, TypeWorker DEF Next
-----------------------------------------------------------------------------
(* What the steps have in common.                                           *)

(* The steps that are not the worker's: administrator, queue and clock.     *)
Outside == Tick \/ \E e \in Endpoint : Insert(e) \/ \E value \in BOOLEAN : SetEnabled(e, value)

(* The worker's steps that neither post nor commit nor lose anything.       *)
Handling(w) ==
    TryLock(w) \/ ReadDue(w) \/ SkipDisabled(w) \/ BeginPost(w) \/ EndBatch(w) \/ Unlock(w)

\* A step is one of these.
LEMMA NextCases ==
    ASSUME [Next]_vars
    PROVE  \/ UNCHANGED vars \/ Outside
           \/ \E w \in Worker : Handling(w) \/ Post(w) \/ Commit(w) \/ Crash(w)
BY DEF Next, Outside, Handling, WorkerStep, QueueEvent, QueueTest

\* Outside of the worker rows are added and grow older, no more.
LEMMA OutsideRows ==
    ASSUME TypeOK, Outside
    PROVE  /\ UNCHANGED <<session, lock>>
           /\ DOMAIN deliveries \subseteq DOMAIN deliveries'
           /\ \A d \in DOMAIN deliveries :
                 /\ deliveries'[d].endpoint = deliveries[d].endpoint
                 /\ deliveries'[d].status = deliveries[d].status
                 /\ deliveries'[d].attempts = deliveries[d].attempts
                 /\ accepted'[d] = accepted[d] /\ doubt'[d] = doubt[d]
           /\ \A d \in DOMAIN deliveries' \ DOMAIN deliveries :
                 /\ deliveries'[d].status = "pending" /\ deliveries'[d].attempts = 0
                 /\ accepted'[d] = 0 /\ doubt'[d] = 0
<1>1. CASE Tick
  <2>1. /\ DOMAIN deliveries' = DOMAIN deliveries
        /\ \A d \in DOMAIN deliveries :
              deliveries'[d] = IF deliveries[d].status \in Active /\ deliveries[d].wait > Floor(d)
                               THEN [deliveries[d] EXCEPT !.wait = @ - 1] ELSE deliveries[d]
    BY <1>1 DEF Tick
  <2>2. ASSUME NEW d \in DOMAIN deliveries
        PROVE  /\ deliveries'[d].endpoint = deliveries[d].endpoint
               /\ deliveries'[d].status = deliveries[d].status
               /\ deliveries'[d].attempts = deliveries[d].attempts
    <3>1. deliveries[d] \in Row
      BY RowTypes
    <3> QED
      BY <2>1, <3>1 DEF Row
  <2> QED
    BY <1>1, <2>1, <2>2 DEF Tick, history
<1>2. ASSUME NEW e \in Endpoint, Insert(e)
      PROVE  /\ UNCHANGED <<session, lock>>
             /\ DOMAIN deliveries' = DOMAIN deliveries \cup {Len(deliveries')}
             /\ \A d \in DOMAIN deliveries :
                   /\ deliveries'[d] = deliveries[d]
                   /\ accepted'[d] = accepted[d] /\ doubt'[d] = doubt[d]
             /\ LET d == Len(deliveries') IN
                   /\ deliveries'[d].status = "pending" /\ deliveries'[d].attempts = 0
                   /\ accepted'[d] = 0 /\ doubt'[d] = 0
  BY <1>2, InsertRows DEF Insert
<1>3. ASSUME NEW e \in Endpoint, NEW value \in BOOLEAN, SetEnabled(e, value)
      PROVE  UNCHANGED <<session, lock, deliveries, accepted, doubt>>
  BY <1>3 DEF SetEnabled
<1> QED
  BY <1>1, <1>2, <1>3 DEF Outside

\* The worker that does something is the only one.
LEMMA Alone ==
    ASSUME LockIsHeld, BatchIsActive, CacheIsOfBatch,
           NEW w \in Worker, pc[w] # "idle", NEW v \in Worker, v # w
    PROVE  pc[v] = "idle" /\ batch[v] = << >> /\ cancelled[v] = {} /\ cached[v] = NoEndpoint
BY DEF LockIsHeld, BatchIsActive, CacheIsOfBatch, Sending
-----------------------------------------------------------------------------
(* One worker, with a batch of active rows.                                 *)

\* Whoever is not idle holds the lock, after every step.
LEMMA LockNext == ASSUME TypeOK, LockIsHeld, [Next]_vars PROVE LockIsHeld'
<1>1. CASE UNCHANGED vars
  BY <1>1 DEF vars, LockIsHeld
<1>2. CASE Outside
  BY <1>2, OutsideRows DEF LockIsHeld, session
<1>3. ASSUME NEW w \in Worker, Handling(w) \/ Post(w) \/ Commit(w) \/ Crash(w)
      PROVE  LockIsHeld'
  <2>1. pc \in [Worker -> {"idle", "read", "next", "post", "commit", "unlock"}]
        /\ Nobody \notin Worker
    BY ConstantsAssumption DEF TypeOK
  <2>2. CASE TryLock(w)
    BY <2>1, <2>2 DEF TryLock, LockIsHeld
  <2>3. CASE ReadDue(w) \/ SkipDisabled(w) \/ BeginPost(w) \/ EndBatch(w) \/ Post(w) \/ Commit(w)
    BY <2>1, <2>3 DEF ReadDue, SkipDisabled, BeginPost, EndBatch, Post, Commit, LockIsHeld
  <2>4. CASE Unlock(w)
    BY <2>1, <2>4 DEF Unlock, LockIsHeld
  <2>5. CASE Crash(w)
    BY <2>1, <2>5 DEF Crash, LockIsHeld
  <2> QED
    BY <1>3, <2>2, <2>3, <2>4, <2>5 DEF Handling
<1> QED
  BY <1>1, <1>2, <1>3, NextCases

\* What a worker holds stays active until it is done with it.
LEMMA BatchNext == ASSUME IInv, [Next]_vars PROVE BatchIsActive'
<1> USE DEF IInv
<1>1. CASE UNCHANGED vars
  BY <1>1 DEF vars, BatchIsActive
<1>2. CASE Outside
  <2>1. /\ batch' = batch /\ cancelled' = cancelled /\ pc' = pc
        /\ \A d \in DOMAIN deliveries : deliveries'[d].status = deliveries[d].status
    BY <1>2, OutsideRows DEF session
  <2>2. \A w \in Worker :
           /\ \A i \in DOMAIN batch[w] : batch[w][i] \in DOMAIN deliveries
           /\ \A d \in cancelled[w] : d \in DOMAIN deliveries
    BY BatchTypes DEF TypeOK
  <2> QED
    BY <2>1, <2>2 DEF BatchIsActive
<1>3. ASSUME NEW w \in Worker, Handling(w) \/ Post(w) \/ Commit(w) \/ Crash(w)
      PROVE  BatchIsActive'
  <2> DEFINE Good(v) ==
         /\ \A i \in DOMAIN batch[v] :
               /\ deliveries[batch[v][i]].status \in Active
               /\ batch[v][i] \notin cancelled[v]
               /\ \A j \in DOMAIN batch[v] : i # j => batch[v][i] # batch[v][j]
         /\ \A d \in cancelled[v] : deliveries[d].status \in Active
         /\ pc[v] \notin Sending => batch[v] = << >> /\ cancelled[v] = {}
  <2>1. /\ pc \in [Worker -> {"idle", "read", "next", "post", "commit", "unlock"}]
        /\ batch \in [Worker -> Seq(DOMAIN deliveries)]
        /\ cancelled \in [Worker -> SUBSET DOMAIN deliveries]
    BY DEF TypeOK
  <2>2. Good(w) /\ DOMAIN << >> = {}
    BY DEF BatchIsActive
  <2>3. ASSUME NEW v \in Worker, v # w PROVE Good(v)'
    <3>1. batch'[v] = batch[v] /\ cancelled'[v] = cancelled[v] /\ pc'[v] = pc[v]
      BY <1>3, <2>1, <2>3 DEF Handling, TryLock, ReadDue, SkipDisabled, BeginPost, EndBatch,
                              Unlock, Post, Commit, Crash
    <3>2. CASE batch[v] = << >> /\ cancelled[v] = {}
      BY <2>2, <3>1, <3>2
    <3>3. CASE ~(batch[v] = << >> /\ cancelled[v] = {})
      <4>1. TryLock(w)
        BY <1>3, <2>3, <3>3, Alone
            DEF Handling, ReadDue, SkipDisabled, BeginPost, EndBatch, Unlock, Post, Commit, Crash
      <4>2. Good(v)
        BY DEF BatchIsActive
      <4> QED
        BY <3>1, <4>1, <4>2 DEF TryLock
    <3> QED
      BY <3>2, <3>3
  <2>4. Good(w)'
    <3>1. CASE TryLock(w) \/ BeginPost(w) \/ Post(w)
      BY <2>1, <2>2, <3>1 DEF TryLock, BeginPost, Post, Sending
    <3>2. CASE ReadDue(w)
      <4>1. PICK b \in Batches : batch' = [batch EXCEPT ![w] = b]
        BY <3>2 DEF ReadDue
      <4>2. cancelled[w] = {} /\ cancelled' = cancelled /\ pc'[w] = "next"
        BY <2>1, <2>2, <3>2 DEF ReadDue, Sending
      <4>3. batch'[w] = b /\ deliveries' = deliveries
        BY <2>1, <3>2, <4>1 DEF ReadDue
      <4> QED
        BY <4>2, <4>3, BatchesAreDue DEF Due, Sending
    <3>3. CASE SkipDisabled(w)
      <4>1. /\ batch'[w] = Tail(batch[w]) /\ cancelled'[w] = cancelled[w] \cup {batch[w][1]}
            /\ batch[w] # << >> /\ pc'[w] = "next" /\ deliveries' = deliveries
        BY <2>1, <3>3 DEF SkipDisabled
      <4>2. \A i \in DOMAIN Tail(batch[w]) :
               i + 1 # 1 /\ i + 1 \in DOMAIN batch[w] /\ Tail(batch[w])[i] = batch[w][i + 1]
        BY <4>1, BatchTypes
      <4>3. 1 \in DOMAIN batch[w]
        BY <4>1, BatchTypes
      <4>4. \A i, j \in DOMAIN Tail(batch[w]) : i # j => i + 1 # j + 1
        BY <4>1, BatchTypes
      <4> HIDE DEF Good
      <4>5. \A i \in DOMAIN Tail(batch[w]) :
               /\ deliveries[Tail(batch[w])[i]].status \in Active
               /\ Tail(batch[w])[i] \notin cancelled[w] \cup {batch[w][1]}
               /\ \A j \in DOMAIN Tail(batch[w]) : i # j => Tail(batch[w])[i] # Tail(batch[w])[j]
        BY <2>2, <4>2, <4>3, <4>4 DEF Good
      <4>6. \A d \in cancelled[w] \cup {batch[w][1]} : deliveries[d].status \in Active
        BY <2>2, <4>3 DEF Good
      <4> QED
        BY <4>1, <4>5, <4>6 DEF Good, Sending
    <3>4. CASE Commit(w)
      <4>1. /\ batch'[w] = Tail(batch[w]) /\ cancelled'[w] = {} /\ pc'[w] = "next"
        BY <2>1, <3>4 DEF Commit
      <4>2. /\ batch[w] # << >> /\ 1 \in DOMAIN batch[w]
            /\ \A x \in DOMAIN deliveries : x # batch[w][1] /\ x \notin cancelled[w] =>
                  deliveries'[x] = deliveries[x]
        BY <3>4, CommitRows, BatchTypes
      <4>3. ASSUME NEW i \in DOMAIN Tail(batch[w])
            PROVE  /\ i + 1 # 1 /\ i + 1 \in DOMAIN batch[w]
                   /\ Tail(batch[w])[i] = batch[w][i + 1]
                   /\ batch[w][i + 1] \in DOMAIN deliveries
                   /\ \A j \in DOMAIN Tail(batch[w]) : i # j => i + 1 # j + 1
        BY <4>2, BatchTypes
      <4>4. ASSUME NEW i \in DOMAIN Tail(batch[w])
            PROVE  /\ deliveries'[Tail(batch[w])[i]].status \in Active
                   /\ \A j \in DOMAIN Tail(batch[w]) :
                         i # j => Tail(batch[w])[i] # Tail(batch[w])[j]
        BY <2>2, <4>2, <4>3
      <4> QED
        BY <4>1, <4>4 DEF Sending
    <3>5. CASE EndBatch(w) \/ Unlock(w) \/ Crash(w)
      <4>1. batch'[w] = << >> /\ cancelled'[w] = {}
        BY <2>1, <2>2, <3>5 DEF EndBatch, Unlock, Crash, Sending
      <4> QED
        BY <2>2, <4>1
    <3> QED
      BY <1>3, <3>1, <3>2, <3>3, <3>4, <3>5 DEF Handling
  <2> QED
    BY <2>3, <2>4 DEF BatchIsActive
<1> QED
  BY <1>1, <1>2, <1>3, NextCases
-----------------------------------------------------------------------------
(* Retries.                                                                 *)

\* Attempts are counted up to the bound, and no retry is given beyond it.
LEMMA RetriesNext == ASSUME IInv, [Next]_vars PROVE BoundedRetries' /\ DraftIsBounded'
<1> USE DEF IInv
<1>1. CASE UNCHANGED vars
  BY <1>1 DEF vars, BoundedRetries, DraftIsBounded
<1>2. CASE Outside
  <2>1. /\ batch' = batch /\ draft' = draft /\ pc' = pc
        /\ DOMAIN deliveries \subseteq DOMAIN deliveries'
        /\ \A d \in DOMAIN deliveries :
              /\ deliveries'[d].status = deliveries[d].status
              /\ deliveries'[d].attempts = deliveries[d].attempts
        /\ \A d \in DOMAIN deliveries' \ DOMAIN deliveries :
              deliveries'[d].status = "pending" /\ deliveries'[d].attempts = 0
    BY <1>2, OutsideRows DEF session
  <2>2. \A w \in Worker : pc[w] = "commit" => batch[w][1] \in DOMAIN deliveries
    BY BatchTypes DEF TypeOK
  <2>3. 0 <= Retries + 1
    BY ConstantsAssumption
  <2>4. BoundedRetries'
    BY <2>1, <2>3 DEF BoundedRetries
  <2>5. DraftIsBounded'
    BY <2>1, <2>2 DEF DraftIsBounded
  <2> QED
    BY <2>4, <2>5
<1>3. ASSUME NEW w \in Worker, Handling(w) \/ Post(w) \/ Commit(w) \/ Crash(w)
      PROVE  BoundedRetries'
  <2>1. CASE Commit(w)
    <3> DEFINE d == batch[w][1]
    <3>1. /\ d \in DOMAIN deliveries /\ DOMAIN deliveries' = DOMAIN deliveries
          /\ \A x \in DOMAIN deliveries :
                /\ x = d => /\ deliveries'[x].status = draft[w].status
                            /\ deliveries'[x].attempts = deliveries[x].attempts + 1
                /\ x # d /\ x \in cancelled[w] =>
                      /\ deliveries'[x].status = "cancelled"
                      /\ deliveries'[x].attempts = deliveries[x].attempts
                /\ x # d /\ x \notin cancelled[w] => deliveries'[x] = deliveries[x]
      BY <2>1, CommitRows
    <3>2. deliveries[d].status \in Active
      <4>1. 1 \in DOMAIN batch[w]
        BY <2>1, CommitRows, BatchTypes
      <4> QED
        BY <4>1 DEF BatchIsActive
    <3>3. /\ draft[w].status \in {"delivered", "failed", "retrying"}
          /\ draft[w].status = "retrying" => deliveries[d].attempts < Retries
      BY <2>1 DEF Commit, DraftIsBounded
    <3>4. deliveries[d].attempts \in Nat /\ Retries \in Nat
      BY <3>1, RowTypes, ConstantsAssumption DEF Row
    <3> HIDE DEF d
    <3>5. deliveries[d].attempts <= Retries
      BY <3>1, <3>2, <3>4 DEF BoundedRetries, Active
    <3>6. /\ deliveries[d].attempts + 1 <= Retries + 1
          /\ draft[w].status = "retrying" => deliveries[d].attempts + 1 \in 1 .. Retries
      BY <3>3, <3>4, <3>5
    <3>7. ASSUME NEW x \in DOMAIN deliveries
          PROVE  /\ deliveries'[x].attempts <= Retries + 1
                 /\ deliveries'[x].status = "pending" => deliveries'[x].attempts = 0
                 /\ deliveries'[x].status = "retrying" => deliveries'[x].attempts \in 1 .. Retries
      <4>1. CASE x = d
        BY <3>1, <3>3, <3>6, <4>1
      <4>2. CASE x # d
        BY <3>1, <4>2 DEF BoundedRetries
      <4> QED
        BY <4>1, <4>2
    <3> QED
      BY <3>1, <3>7 DEF BoundedRetries
  <2>2. CASE Handling(w) \/ Post(w) \/ Crash(w)
    <3>1. deliveries' = deliveries
      BY <2>2 DEF Handling, TryLock, ReadDue, SkipDisabled, BeginPost, EndBatch, Unlock,
                  Post, Crash
    <3> QED
      BY <3>1 DEF BoundedRetries
  <2> QED
    BY <1>3, <2>1, <2>2
<1>4. ASSUME NEW w \in Worker, Handling(w) \/ Post(w) \/ Commit(w) \/ Crash(w)
      PROVE  DraftIsBounded'
  <2>1. /\ pc \in [Worker -> {"idle", "read", "next", "post", "commit", "unlock"}]
        /\ draft \in [Worker -> Draft]
    BY DEF TypeOK
  <2>2. ASSUME NEW v \in Worker, v # w PROVE pc'[v] # "commit"
    <3>1. pc'[v] = pc[v]
      BY <1>4, <2>1, <2>2 DEF Handling, TryLock, ReadDue, SkipDisabled, BeginPost, EndBatch,
                              Unlock, Post, Commit, Crash
    <3>2. CASE TryLock(w)
      BY <3>1, <3>2, ConstantsAssumption DEF TryLock, LockIsHeld
    <3>3. CASE ~TryLock(w)
      <4>1. pc[w] # "idle"
        BY <1>4, <3>3 DEF Handling, ReadDue, SkipDisabled, BeginPost, EndBatch, Unlock, Post,
                          Commit, Crash
      <4> QED
        BY <2>2, <3>1, <4>1, Alone
    <3> QED
      BY <3>2, <3>3
  <2>3. CASE Post(w)
    <3> DEFINE d == batch[w][1]
    <3>1. d \in DOMAIN deliveries
      BY <2>3, BatchTypes DEF Post, TypeOK
    <3>2. deliveries[d].attempts \in Nat /\ Retries \in Nat
      BY <3>1, RowTypes, ConstantsAssumption DEF Row
    <3>3. PICK a \in Answers(deliveries[d].attempts + 1) : draft' = [draft EXCEPT ![w] = a]
      BY <2>3 DEF Post
    <3>4. /\ draft'[w] = a /\ batch' = batch /\ deliveries' = deliveries
      BY <2>1, <2>3, <3>3 DEF Post
    <3> HIDE DEF d
    <3>5. /\ a.status \in {"delivered", "failed", "retrying"}
          /\ a.status = "retrying" => deliveries[d].attempts + 1 <= Retries
      BY <3>2, AnswerTypes
    <3>6. a.status = "retrying" => deliveries[d].attempts < Retries
      BY <3>2, <3>5
    <3> QED
      BY <2>2, <3>4, <3>5, <3>6 DEF DraftIsBounded, d
  <2>4. CASE Handling(w) \/ Commit(w) \/ Crash(w)
    <3>1. pc'[w] # "commit"
      BY <2>1, <2>4 DEF Handling, TryLock, ReadDue, SkipDisabled, BeginPost, EndBatch, Unlock,
                        Commit, Crash
    <3> QED
      BY <2>2, <3>1 DEF DraftIsBounded
  <2> QED
    BY <1>4, <2>3, <2>4
<1> QED
  BY <1>1, <1>2, <1>3, <1>4, NextCases
-----------------------------------------------------------------------------
(* Endpoints.                                                               *)

\* An endpoint is disabled by Commit or the administrator, for every batch.
LEMMA SwitchedOff ==
    ASSUME TypeOK, [Next]_vars, NEW w \in Worker,
           ~(ReadDue(w) \/ EndBatch(w) \/ Crash(w)), NEW e \in Endpoint,
           enabled[e] \/ e \in switchedOff[w]
    PROVE  enabled'[e] \/ e \in switchedOff'[w]
<1>1. enabled \in [Endpoint -> BOOLEAN] /\ switchedOff \in [Worker -> SUBSET Endpoint]
  BY DEF TypeOK
<1>2. CASE UNCHANGED vars
  BY <1>2 DEF vars
<1>3. CASE Outside
  <2>1. CASE Tick \/ \E f \in Endpoint : Insert(f)
    BY <2>1 DEF Tick, Insert, history
  <2>2. ASSUME NEW f \in Endpoint, NEW value \in BOOLEAN, SetEnabled(f, value)
        PROVE  enabled'[e] \/ e \in switchedOff'[w]
    <3>1. /\ enabled' = [enabled EXCEPT ![f] = value]
          /\ switchedOff'[w] = IF value THEN switchedOff[w] ELSE switchedOff[w] \cup {f}
      BY <2>2 DEF SetEnabled
    <3>2. CASE e = f
      BY <1>1, <3>1, <3>2
    <3>3. CASE e # f
      BY <1>1, <3>1, <3>3
    <3> QED
      BY <3>2, <3>3
  <2> QED
    BY <1>3, <2>1, <2>2 DEF Outside
<1>4. ASSUME NEW v \in Worker, Handling(v) \/ Post(v) \/ Commit(v) \/ Crash(v)
      PROVE  enabled'[e] \/ e \in switchedOff'[w]
  <2>1. CASE Commit(v)
    BY <1>1, <2>1 DEF Commit
  <2>2. CASE ReadDue(v) \/ EndBatch(v) \/ Crash(v)
    BY <1>1, <2>2 DEF ReadDue, EndBatch, Crash
  <2>3. CASE TryLock(v) \/ SkipDisabled(v) \/ BeginPost(v) \/ Unlock(v) \/ Post(v)
    BY <1>1, <2>3 DEF TryLock, SkipDisabled, BeginPost, Unlock, Post, history
  <2> QED
    BY <1>4, <2>1, <2>2, <2>3 DEF Handling
<1> QED
  BY <1>2, <1>3, <1>4, NextCases
\* What a session believes of an endpoint was so when its batch was read.
LEMMA CacheNext == ASSUME IInv, [Next]_vars PROVE CacheIsOfBatch'
<1> USE DEF IInv
<1> DEFINE Good(v) ==
       /\ pc[v] \notin Sending => cached[v] = NoEndpoint
       /\ \A e \in Endpoint : cached[v] = <<e, TRUE>> => enabled[e] \/ e \in switchedOff[v]
       /\ pc[v] = "post" => cached[v] = <<Target(v), TRUE>>
<1>1. /\ pc \in [Worker -> {"idle", "read", "next", "post", "commit", "unlock"}]
      /\ cached \in [Worker -> {NoEndpoint} \cup (Endpoint \X BOOLEAN)]
  BY DEF TypeOK
<1>2. \A v \in Worker : Good(v)
  BY DEF CacheIsOfBatch
<1>3. \A e : NoEndpoint # <<e, TRUE>>
  BY DEF NoEndpoint
<1>4. ASSUME NEW v \in Worker, pc'[v] = pc[v], cached'[v] = cached[v],
             pc[v] # "read", pc[v] = "post" => Target(v)' = Target(v)
      PROVE  Good(v)'
  <2>1. CASE pc[v] \in {"idle", "unlock"}
    BY <1>2, <1>3, <1>4, <2>1 DEF Sending
  <2>2. CASE pc[v] \in Sending /\ (\A w \in Worker : w # v => pc[w] = "idle")
    <3>1. ~(ReadDue(v) \/ EndBatch(v) \/ Crash(v))
      BY <1>1, <1>4, <2>2 DEF ReadDue, EndBatch, Crash, Sending
    <3>2. \A e \in Endpoint : enabled[e] \/ e \in switchedOff[v] =>
             enabled'[e] \/ e \in switchedOff'[v]
      BY <3>1, SwitchedOff
    <3> QED
      BY <1>2, <1>4, <2>2, <3>2
  <2>3. pc[v] \in Sending => \A w \in Worker : w # v => pc[w] = "idle"
    BY Alone DEF Sending
  <2> QED
    BY <1>1, <1>4, <2>1, <2>2, <2>3 DEF Sending
<1>5. CASE UNCHANGED vars
  BY <1>5 DEF vars, CacheIsOfBatch, Target
<1>6. CASE Outside
  <2>1. /\ pc' = pc /\ cached' = cached /\ batch' = batch
        /\ \A d \in DOMAIN deliveries : deliveries'[d].endpoint = deliveries[d].endpoint
    BY <1>6, OutsideRows DEF session
  <2>2. \A v \in Worker : pc[v] = "post" => batch[v][1] \in DOMAIN deliveries
    BY BatchTypes DEF TypeOK
  <2>3. \A v \in Worker : pc[v] = "post" => Target(v)' = Target(v)
    BY <2>1, <2>2 DEF Target
  <2>4. ASSUME NEW v \in Worker, pc[v] = "read" PROVE Good(v)'
    BY <1>2, <1>3, <2>1, <2>4 DEF Sending
  <2>5. \A v \in Worker : Good(v)'
    BY <1>4, <2>1, <2>3, <2>4
  <2> QED
    BY <2>5 DEF CacheIsOfBatch
<1>7. ASSUME NEW w \in Worker, Handling(w) \/ Post(w) \/ Commit(w) \/ Crash(w)
      PROVE  CacheIsOfBatch'
  <2>1. ASSUME NEW v \in Worker, v # w PROVE Good(v)'
    <3>1. pc'[v] = pc[v] /\ cached'[v] = cached[v]
      BY <1>1, <1>7, <2>1 DEF Handling, TryLock, ReadDue, SkipDisabled, BeginPost, EndBatch,
                              Unlock, Post, Commit, Crash
    <3>2. CASE pc[v] = "idle"
      BY <1>4, <3>1, <3>2
    <3>3. CASE pc[v] # "idle"
      <4>1. FALSE
        BY <1>7, <2>1, <3>3, Alone, ConstantsAssumption
            DEF Handling, TryLock, ReadDue, SkipDisabled, BeginPost, EndBatch,
                Unlock, Post, Commit, Crash, LockIsHeld
      <4> QED
        BY <4>1
    <3> QED
      BY <3>2, <3>3
  <2>2. Good(w)'
    <3>1. CASE TryLock(w) \/ ReadDue(w) \/ EndBatch(w) \/ Unlock(w) \/ Crash(w)
      <4>1. cached'[w] = NoEndpoint /\ pc'[w] # "post"
        BY <1>1, <1>2, <3>1 DEF TryLock, ReadDue, EndBatch, Unlock, Crash, Sending
      <4> QED
        BY <1>3, <4>1
    <3>2. CASE SkipDisabled(w)
      <4>1. cached'[w] = <<Target(w), FALSE>> /\ pc'[w] = "next"
        BY <1>1, <3>2 DEF SkipDisabled
      <4>2. \A e : cached'[w] # <<e, TRUE>>
        BY <4>1
      <4> QED
        BY <4>1, <4>2 DEF Sending
    <3>3. CASE BeginPost(w)
      <4>1. /\ cached'[w] = <<Target(w), TRUE>> /\ pc'[w] = "post" /\ Target(w)' = Target(w)
            /\ UNCHANGED <<enabled, switchedOff>>
        BY <1>1, <3>3 DEF BeginPost, Target, history
      <4>2. enabled[Target(w)] \/ Target(w) \in switchedOff[w]
        <5>1. Target(w) \in Endpoint /\ IsEnabled(w)
          BY <3>3, BatchTypes DEF BeginPost
        <5>2. CASE cached[w] # NoEndpoint /\ cached[w][1] = Target(w)
          <6>1. cached[w] = <<cached[w][1], cached[w][2]>> /\ cached[w][2] \in BOOLEAN
            BY <1>1, <5>2
          <6>2. cached[w][2] = TRUE
            BY <5>1, <5>2, <6>1 DEF IsEnabled
          <6>3. cached[w] = <<Target(w), TRUE>>
            BY <5>2, <6>1, <6>2
          <6> QED
            BY <1>2, <5>1, <6>3
        <5>3. CASE ~(cached[w] # NoEndpoint /\ cached[w][1] = Target(w))
          BY <5>1, <5>3 DEF IsEnabled
        <5> QED
          BY <5>2, <5>3
      <4> QED
        BY <4>1, <4>2 DEF Sending
    <3>4. CASE Post(w)
      <4>1. cached'[w] = cached[w] /\ pc'[w] = "commit" /\ pc[w] = "post"
            /\ UNCHANGED <<enabled, switchedOff>>
        BY <1>1, <3>4 DEF Post
      <4> QED
        BY <1>2, <4>1 DEF Sending
    <3>5. CASE Commit(w)
      <4>1. pc'[w] = "next" /\ ~(ReadDue(w) \/ EndBatch(w) \/ Crash(w))
        BY <1>1, <3>5 DEF Commit, ReadDue, EndBatch, Crash
      <4>2. ASSUME NEW e \in Endpoint, cached'[w] = <<e, TRUE>>
            PROVE  enabled'[e] \/ e \in switchedOff'[w]
        <5>1. cached'[w] = cached[w]
          BY <1>1, <3>5, <4>2 DEF Commit
        <5> QED
          BY <1>2, <4>1, <4>2, <5>1, SwitchedOff
      <4> QED
        BY <4>1, <4>2 DEF Sending
    <3> QED
      BY <1>7, <3>1, <3>2, <3>3, <3>4, <3>5 DEF Handling
  <2> QED
    BY <2>1, <2>2 DEF CacheIsOfBatch
<1> QED
  BY <1>5, <1>6, <1>7, NextCases
-----------------------------------------------------------------------------
(* At least once.                                                           *)

\* Only the worker that does something can have heard an answer.
LEMMA HeardAlone ==
    ASSUME IInv, NEW w \in Worker, pc[w] # "idle", NEW v \in Worker, v # w, NEW d
    PROVE  ~Heard(v, d)
BY Alone DEF IInv, Heard

\* A post and what becomes of it are counted on the row that was posted.
LEMMA CountsPost ==
    ASSUME IInv, NEW w \in Worker, Post(w)
    PROVE  AtLeastOnce' /\ PostsAreCounted'
<1> USE DEF IInv
<1> DEFINE d == batch[w][1]
<1>1. d \in DOMAIN deliveries /\ deliveries[d].status \in Active
  BY BatchTypes DEF Post, TypeOK, BatchIsActive
<1>2. deliveries[d].attempts + 1 \in Nat
  BY <1>1, RowTypes DEF Row
<1>3. PICK a \in Answers(deliveries[d].attempts + 1) :
         /\ draft' = [draft EXCEPT ![w] = a]
         /\ accepted' = [accepted EXCEPT ![d] = IF a.accepted THEN @ + 1 ELSE @]
         /\ doubt' = [doubt EXCEPT ![d] = IF a.accepted /\ a.status # "delivered"
                                          THEN @ + 1 ELSE @]
  BY DEF Post
<1>4. a.status = "delivered" => a.accepted
  BY <1>2, AnswerTypes
<1>5. /\ pc[w] = "post" /\ pc'[w] = "commit" /\ draft'[w] = a
      /\ deliveries' = deliveries /\ batch' = batch
      /\ \A v \in Worker : v # w => pc'[v] = pc[v]
  BY <1>3 DEF Post, TypeOK
<1>6. \A v \in Worker : \A x : ~Heard(v, x)
  BY <1>5, HeardAlone DEF Heard
<1>7. \A v \in Worker : \A x : Heard(v, x)' => v = w /\ x = d /\ a.status = "delivered"
  BY <1>5, Alone DEF Heard
<1>8. /\ accepted[d] \in Nat /\ doubt[d] \in Nat
      /\ DOMAIN accepted = DOMAIN deliveries /\ DOMAIN doubt = DOMAIN deliveries
  BY <1>1, RowTypes
<1> HIDE DEF d
<1>9. accepted[d] <= doubt[d]
  BY <1>1, <1>6 DEF PostsAreCounted
<1>10. \A x \in DOMAIN deliveries : x # d => accepted'[x] = accepted[x] /\ doubt'[x] = doubt[x]
  BY <1>3, <1>8
<1>11. /\ accepted'[d] \in Nat /\ doubt'[d] \in Nat
       /\ a.status # "delivered" => accepted'[d] <= doubt'[d]
       /\ a.status = "delivered" => accepted'[d] <= doubt'[d] + 1 /\ accepted'[d] > 0
       /\ accepted'[d] <= doubt'[d] + 1
  <2>1. CASE a.status = "delivered"
    <3>1. accepted'[d] = accepted[d] + 1 /\ doubt'[d] = doubt[d]
      BY <1>1, <1>3, <1>4, <1>8, <2>1
    <3> QED
      BY <1>8, <1>9, <2>1, <3>1
  <2>2. CASE a.status # "delivered" /\ a.accepted
    <3>1. accepted'[d] = accepted[d] + 1 /\ doubt'[d] = doubt[d] + 1
      BY <1>1, <1>3, <1>8, <2>2
    <3> QED
      BY <1>8, <1>9, <2>2, <3>1
  <2>3. CASE a.status # "delivered" /\ ~a.accepted
    <3>1. accepted'[d] = accepted[d] /\ doubt'[d] = doubt[d]
      BY <1>1, <1>3, <1>8, <2>3
    <3> QED
      BY <1>8, <1>9, <2>3, <3>1
  <2> QED
    BY <2>1, <2>2, <2>3
<1>12. AtLeastOnce'
  <2>1. deliveries[d].status \notin Final
    BY <1>1 DEF Active, Final
  <2> QED
    BY <1>5, <1>10, <1>11, <2>1 DEF AtLeastOnce, Final
<1>13. PostsAreCounted'
  <2>1. ASSUME NEW x \in DOMAIN deliveries, deliveries[x].status \in Active
        PROVE  \/ accepted'[x] <= doubt'[x]
               \/ accepted'[x] <= doubt'[x] + 1 /\ \E v \in Worker : Heard(v, x)'
    <3>1. CASE x = d
      <4>1. a.status = "delivered" => Heard(w, x)'
        BY <1>5, <3>1 DEF Heard, d
      <4> QED
        BY <1>11, <3>1, <4>1
    <3>2. CASE x # d
      BY <1>6, <1>10, <2>1, <3>2 DEF PostsAreCounted
    <3> QED
      BY <3>1, <3>2
  <2>2. \A v \in Worker : \A x \in DOMAIN deliveries : Heard(v, x)' => accepted'[x] > 0
    BY <1>7, <1>11
  <2> QED
    BY <1>5, <2>1, <2>2 DEF PostsAreCounted
<1> QED
  BY <1>12, <1>13

\* A commit takes the answer from the worker's hands into the row.
LEMMA CountsCommit ==
    ASSUME IInv, NEW w \in Worker, Commit(w)
    PROVE  AtLeastOnce' /\ PostsAreCounted'
<1> USE DEF IInv
<1> DEFINE d == batch[w][1]
<1>1. /\ d \in DOMAIN deliveries /\ DOMAIN deliveries' = DOMAIN deliveries
      /\ \A x \in DOMAIN deliveries :
            /\ x = d => deliveries'[x].status = draft[w].status
            /\ x # d /\ x \in cancelled[w] => deliveries'[x].status = "cancelled"
            /\ x # d /\ x \notin cancelled[w] => deliveries'[x] = deliveries[x]
  BY CommitRows
<1>2. /\ draft[w].status \in {"delivered", "failed", "retrying"} /\ pc[w] = "commit"
      /\ pc'[w] = "next" /\ accepted' = accepted /\ doubt' = doubt
      /\ \A v \in Worker : v # w => pc'[v] = pc[v]
  BY DEF Commit, DraftIsBounded, TypeOK
<1>3. \A x : Heard(w, x) <=> x = d /\ draft[w].status = "delivered"
  BY <1>2 DEF Heard
<1>4. \A v \in Worker : \A x : Heard(v, x) => v = w
  BY <1>2, HeardAlone
<1>5. \A v \in Worker : \A x : ~Heard(v, x)'
  BY <1>2, Alone DEF Heard
<1>6. deliveries[d].status \in Active
  BY CommitRows, BatchTypes DEF BatchIsActive
<1>7. \A x \in cancelled[w] : x \in DOMAIN deliveries /\ deliveries[x].status \in Active
  BY DEF BatchIsActive, TypeOK
<1>8. \A x \in DOMAIN deliveries : accepted[x] \in Nat /\ doubt[x] \in Nat
  BY RowTypes
<1> HIDE DEF d
<1>9. ASSUME NEW x \in DOMAIN deliveries
      PROVE  /\ deliveries'[x].status = "delivered" => accepted[x] > 0
             /\ deliveries'[x].status \in {"failed", "cancelled"} \cup Active =>
                   accepted[x] <= doubt[x]
  <2>1. CASE x = d
    <3>1. draft[w].status # "delivered" => accepted[x] <= doubt[x]
      BY <1>3, <1>4, <1>6, <2>1 DEF PostsAreCounted
    <3>2. draft[w].status = "delivered" => accepted[x] > 0
      BY <1>3, <2>1 DEF PostsAreCounted
    <3> QED
      BY <1>1, <2>1, <3>1, <3>2 DEF Active
  <2>2. CASE x # d /\ x \in cancelled[w]
    <3>1. accepted[x] <= doubt[x]
      BY <1>3, <1>4, <1>7, <2>2 DEF PostsAreCounted
    <3> QED
      BY <1>1, <2>2, <3>1
  <2>3. CASE x # d /\ x \notin cancelled[w]
    <3>1. deliveries[x].status \in Active => accepted[x] <= doubt[x]
      BY <1>3, <1>4, <2>3 DEF PostsAreCounted
    <3> QED
      BY <1>1, <2>3, <3>1 DEF AtLeastOnce
  <2> QED
    BY <2>1, <2>2, <2>3
<1>10. AtLeastOnce'
  BY <1>1, <1>2, <1>9 DEF AtLeastOnce
<1>11. PostsAreCounted'
  BY <1>1, <1>2, <1>5, <1>9 DEF PostsAreCounted
<1> QED
  BY <1>10, <1>11

\* A crash turns the answer in the worker's hands into a doubt.
LEMMA CountsCrash ==
    ASSUME IInv, NEW w \in Worker, Crash(w)
    PROVE  AtLeastOnce' /\ PostsAreCounted'
<1> USE DEF IInv
<1> DEFINE d == batch[w][1]
           heard == pc[w] = "commit" /\ draft[w].status = "delivered"
<1>1. /\ deliveries' = deliveries /\ accepted' = accepted
      /\ doubt' = IF heard THEN [doubt EXCEPT ![d] = @ + 1] ELSE doubt
      /\ pc[w] # "idle" /\ pc'[w] = "idle" /\ \A v \in Worker : v # w => pc'[v] = pc[v]
  BY DEF Crash, TypeOK
<1>2. \A v \in Worker : \A x : ~Heard(v, x)'
  BY <1>1, Alone DEF Heard
<1>3. \A v \in Worker : \A x : Heard(v, x) <=> v = w /\ x = d /\ heard
  BY <1>1, HeardAlone DEF Heard
<1>4. heard => d \in DOMAIN deliveries /\ deliveries[d].status \in Active
  BY BatchTypes DEF TypeOK, BatchIsActive
<1>5. /\ DOMAIN doubt = DOMAIN deliveries
      /\ \A x \in DOMAIN deliveries : accepted[x] \in Nat /\ doubt[x] \in Nat
  BY RowTypes
<1> HIDE DEF d, heard
<1>6. ASSUME NEW x \in DOMAIN deliveries
      PROVE  /\ doubt'[x] \in Nat /\ doubt[x] <= doubt'[x]
             /\ deliveries[x].status \in Active => accepted[x] <= doubt'[x]
  <2>1. CASE heard /\ x = d
    BY <1>1, <1>3, <1>4, <1>5, <2>1 DEF PostsAreCounted
  <2>2. CASE ~(heard /\ x = d)
    <3>1. doubt'[x] = doubt[x]
      BY <1>1, <1>5, <2>2
    <3>2. deliveries[x].status \in Active => accepted[x] <= doubt[x]
      BY <1>3, <2>2 DEF PostsAreCounted
    <3> QED
      BY <1>5, <3>1, <3>2
  <2> QED
    BY <2>1, <2>2
<1>7. AtLeastOnce'
  BY <1>1, <1>5, <1>6 DEF AtLeastOnce
<1>8. PostsAreCounted'
  BY <1>1, <1>2, <1>6 DEF PostsAreCounted
<1> QED
  BY <1>7, <1>8

\* Every step counts.
LEMMA CountsNext == ASSUME IInv, [Next]_vars PROVE AtLeastOnce' /\ PostsAreCounted'
<1> USE DEF IInv
<1>1. CASE UNCHANGED vars
  BY <1>1 DEF vars, AtLeastOnce, PostsAreCounted, Heard
<1>2. CASE Outside
  <2>1. /\ UNCHANGED <<pc, batch, draft>>
        /\ \A d \in DOMAIN deliveries :
              /\ deliveries'[d].status = deliveries[d].status
              /\ accepted'[d] = accepted[d] /\ doubt'[d] = doubt[d]
        /\ \A d \in DOMAIN deliveries' \ DOMAIN deliveries :
              /\ deliveries'[d].status = "pending"
              /\ accepted'[d] = 0 /\ doubt'[d] = 0
    BY <1>2, OutsideRows DEF session
  <2>2. \A w \in Worker : \A d : Heard(w, d)' <=> Heard(w, d)
    BY <2>1 DEF Heard
  <2>3. \A w \in Worker : \A d : Heard(w, d) => d \in DOMAIN deliveries
    BY BatchTypes DEF TypeOK, Heard
  <2>4. AtLeastOnce'
    BY <2>1 DEF AtLeastOnce
  <2>5. PostsAreCounted'
    BY <2>1, <2>2, <2>3 DEF PostsAreCounted
  <2> QED
    BY <2>4, <2>5
<1>3. ASSUME NEW w \in Worker, Handling(w) PROVE AtLeastOnce' /\ PostsAreCounted'
  <2>1. /\ UNCHANGED <<deliveries, accepted, doubt>>
        /\ pc[w] # "commit" /\ pc'[w] # "commit"
        /\ \A v \in Worker : v # w => pc'[v] = pc[v] /\ batch'[v] = batch[v]
                                      /\ draft'[v] = draft[v]
    BY <1>3 DEF Handling, TryLock, ReadDue, SkipDisabled, BeginPost, EndBatch, Unlock,
                history, TypeOK
  <2>2. \A v \in Worker : \A d : Heard(v, d)' <=> Heard(v, d)
    BY <2>1 DEF Heard
  <2> QED
    BY <2>1, <2>2 DEF AtLeastOnce, PostsAreCounted
<1> QED
  BY <1>1, <1>2, <1>3, CountsPost, CountsCommit, CountsCrash, NextCases
-----------------------------------------------------------------------------
(* The theorems.                                                            *)

\* The invariant holds at first.
LEMMA SafeInit == Init => IInv
<1> SUFFICES ASSUME Init PROVE IInv
  OBVIOUS
<1>1. DOMAIN << >> = {}
  OBVIOUS
<1>2. \A w \in Worker : /\ pc[w] = "idle" /\ batch[w] = << >> /\ cancelled[w] = {}
                        /\ cached[w] = NoEndpoint
  BY DEF Init
<1>3. deliveries = << >>
  BY DEF Init
<1>4. LockIsHeld /\ DraftIsBounded
  BY <1>2 DEF LockIsHeld, DraftIsBounded
<1>6. BatchIsActive
  BY <1>1, <1>2 DEF BatchIsActive
<1>7. CacheIsOfBatch
  <2>1. \A e : NoEndpoint # <<e, TRUE>>
    BY DEF NoEndpoint
  <2> QED
    BY <1>2, <2>1 DEF CacheIsOfBatch
<1>5. BoundedRetries /\ AtLeastOnce /\ PostsAreCounted
  BY <1>1, <1>3 DEF BoundedRetries, AtLeastOnce, PostsAreCounted
<1> QED
  BY <1>4, <1>5, <1>6, <1>7, TypeInit DEF IInv

\* And every step keeps it.
LEMMA SafeNext == IInv /\ [Next]_vars => IInv'
BY TypeNext, LockNext, BatchNext, RetriesNext, CacheNext, CountsNext DEF IInv

(* The inductive invariant holds in every reachable state.                  *)
THEOREM IInvHolds == Spec => []IInv
BY SafeInit, SafeNext, PTL DEF Spec

(* One sender at a time, retries within their bound, and for a disabled     *)
(* endpoint only the rest of a batch that was read before.                  *)
THEOREM OutboxIsSafe == Spec => []OutboxInv
<1>1. IInv => OutboxInv
  <2> SUFFICES ASSUME IInv PROVE OutboxInv
    OBVIOUS
  <2>1. TypeOK /\ BoundedRetries
    BY DEF IInv
  <2>2. OneSender
    BY DEF IInv, OneSender, LockIsHeld
  <2>3. ASSUME NEW w \in Worker, pc[w] = "post"
        PROVE  enabled[Target(w)] \/ Target(w) \in switchedOff[w]
    <3>1. Target(w) \in Endpoint
      BY <2>1, <2>3, BatchTypes DEF TypeOK
    <3> QED
      BY <2>3, <3>1 DEF IInv, CacheIsOfBatch
  <2> QED
    BY <2>1, <2>2, <2>3 DEF OutboxInv, StaleOnlyWithinBatch
<1> QED
  BY <1>1, IInvHolds, PTL

(* A receiver accepts a delivery again only after an acceptance that the    *)
(* worker never recorded, and a row is called delivered only if it was.     *)
THEOREM DeliveredAtLeastOnce == Spec => []AtLeastOnce
BY IInvHolds, PTL DEF IInv

(* A row with a final answer never changes again.                           *)
THEOREM FinalAnswersStay == Spec => FinalIsFinal
<1>1. IInv /\ [Next]_vars =>
         [\A d \in DOMAIN deliveries : deliveries[d].status \in Final =>
             deliveries'[d] = deliveries[d]]_vars
  <2> SUFFICES ASSUME IInv, Next, NEW d \in DOMAIN deliveries, deliveries[d].status \in Final
               PROVE  deliveries'[d] = deliveries[d]
    OBVIOUS
  <2>1. TypeOK /\ deliveries[d].status \notin Active
    BY DEF IInv, Active, Final
  <2>2. CASE UNCHANGED vars
    BY <2>2 DEF vars
  <2>3. CASE Outside
    <3>1. CASE Tick
      BY <2>1, <3>1 DEF Tick
    <3>2. ASSUME NEW e \in Endpoint, Insert(e) PROVE deliveries'[d] = deliveries[d]
      BY <2>1, <3>2, InsertRows
    <3>3. ASSUME NEW e \in Endpoint, NEW value \in BOOLEAN, SetEnabled(e, value)
          PROVE deliveries'[d] = deliveries[d]
      BY <3>3 DEF SetEnabled
    <3> QED
      BY <2>3, <3>1, <3>2, <3>3 DEF Outside
  <2>4. ASSUME NEW w \in Worker, Handling(w) \/ Post(w) \/ Commit(w) \/ Crash(w)
        PROVE  deliveries'[d] = deliveries[d]
    <3>1. CASE Commit(w)
      <4>1. /\ batch[w] # << >> /\ \A x \in DOMAIN deliveries :
                  x # batch[w][1] /\ x \notin cancelled[w] => deliveries'[x] = deliveries[x]
        BY <2>1, <3>1, CommitRows
      <4>2. 1 \in DOMAIN batch[w]
        BY <2>1, <4>1, BatchTypes
      <4>3. d # batch[w][1] /\ d \notin cancelled[w]
        BY <2>1, <4>2 DEF IInv, BatchIsActive
      <4> QED
        BY <4>1, <4>3
    <3>2. CASE Handling(w) \/ Post(w) \/ Crash(w)
      BY <3>2 DEF Handling, TryLock, ReadDue, SkipDisabled, BeginPost, EndBatch, Unlock,
                  Post, Crash
    <3> QED
      BY <2>4, <3>1, <3>2
  <2> QED
    BY <2>2, <2>3, <2>4, NextCases
<1> QED
  BY <1>1, IInvHolds, PTL DEF Spec, FinalIsFinal
=============================================================================
