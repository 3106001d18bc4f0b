------------------------- MODULE NotificationOutbox -------------------------
(***************************************************************************)
(* The notification outbox: deliver_notifications(_job) of findings.py and *)
(* the endpoint handlers of api.py.  Rows are queued by the evaluator and  *)
(* by the test button; in every backend a scheduled worker takes advisory  *)
(* lock 81202, reads a batch of due rows and posts them one by one.        *)
(*                                                                         *)
(* Time is the wait of a row, next_attempt - now: it shrinks with Tick, a  *)
(* row is due from 0 on, overdue rows keep their order down to -MaxLate,   *)
(* and the wait of a final row is 0: it means nothing any more.  A delay   *)
(* counts from the start of the batch, so at the commit any part of it may *)
(* have passed; the RETRY_DELAYS and the capped Retry-After values are the *)
(* waits up to MaxWait.                                                    *)
(***************************************************************************)
EXTENDS Integers, Sequences, FiniteSets

CONSTANTS
    Endpoint,
    Worker,           \* the delivery task of each backend instance
    Retries,          \* Len(RETRY_DELAYS)
    BatchLimit,       \* .limit(100)
    MaxWait,          \* bound: the longest wait
    MaxLate,          \* bound: how far a row can be told overdue
    MaxDeliveries,    \* bound: rows queued
    MaxChanges,       \* bound: administrator changes of an endpoint
    MaxCrashes,       \* bound: crashes of a worker's process
    Nobody

ASSUME ConstantsAssumption ==
    /\ Retries \in Nat /\ BatchLimit \in Nat \ {0}
    /\ MaxWait \in Nat /\ MaxLate \in Nat
    /\ MaxDeliveries \in 0 .. MaxLate + 1 /\ MaxChanges \in Nat /\ MaxCrashes \in Nat
    /\ Nobody \notin Worker

VARIABLES
    \* --- PostgreSQL
    enabled,      \* enabled[e]: NotificationEndpoint.enabled
    deliveries,   \* the notification_deliveries rows, in order of creation
    lock,         \* the worker whose connection holds advisory lock 81202
    \* --- the worker's session
    pc,
    batch,        \* rows of its batch still to be handled, the current one first
    cancelled,    \* rows it marked cancelled and has not committed
    cached,       \* the endpoint object its session still holds, and its enabled
    draft,        \* the uncommitted result of the current row
    \* --- bounds and, for the properties, what the receivers saw
    changes, crashes,
    accepted,     \* accepted[d]: posts of d answered 2xx by the receiver
    doubt,        \* doubt[d]: accepted posts whose answer the worker never recorded
    switchedOff   \* switchedOff[w]: endpoints disabled since w read its batch

session == <<pc, batch, cancelled, cached, draft>>
history == <<accepted, doubt, switchedOff>>
vars == <<enabled, deliveries, lock, pc, batch, cancelled, cached, draft,
          changes, crashes, accepted, doubt, switchedOff>>

Active == {"pending", "retrying"}
Final == {"delivered", "failed", "cancelled"}
Row == [endpoint : Endpoint, status : Active \cup Final, attempts : Nat,
        wait : -MaxLate .. MaxWait]
Draft == [status : Active \cup Final, wait : 0 .. MaxWait, gone : BOOLEAN,
          accepted : BOOLEAN]
NoDraft == [status |-> "pending", wait |-> 0, gone |-> FALSE, accepted |-> FALSE]
NoEndpoint == << >>

TypeOK ==
    /\ enabled \in [Endpoint -> BOOLEAN]
    /\ deliveries \in Seq(Row) /\ Len(deliveries) <= MaxDeliveries
    /\ lock \in Worker \cup {Nobody}
    /\ pc \in [Worker -> {"idle", "read", "next", "post", "commit", "unlock"}]
    /\ batch \in [Worker -> Seq(DOMAIN deliveries)]
    /\ cancelled \in [Worker -> SUBSET DOMAIN deliveries]
    /\ cached \in [Worker -> {NoEndpoint} \cup (Endpoint \X BOOLEAN)]
    /\ \A w \in Worker : pc[w] \in {"post", "commit"} => batch[w] # << >>
    /\ draft \in [Worker -> Draft]
    /\ changes \in 0 .. MaxChanges /\ crashes \in 0 .. MaxCrashes
    /\ accepted \in Seq(Nat) /\ Len(accepted) = Len(deliveries)
    /\ doubt \in Seq(Nat) /\ Len(doubt) = Len(deliveries)
    /\ switchedOff \in [Worker -> SUBSET Endpoint]

Init ==
    /\ enabled \in [Endpoint -> BOOLEAN]
    /\ deliveries = << >> /\ accepted = << >> /\ doubt = << >>
    /\ lock = Nobody
    /\ pc = [w \in Worker |-> "idle"]
    /\ batch = [w \in Worker |-> << >>]
    /\ cancelled = [w \in Worker |-> {}]
    /\ cached = [w \in Worker |-> NoEndpoint]
    /\ draft = [w \in Worker |-> NoDraft]
    /\ changes = 0 /\ crashes = 0
    /\ switchedOff = [w \in Worker |-> {}]
-----------------------------------------------------------------------------
(* The rows and the endpoints.                                              *)

Insert(e) ==
    /\ Len(deliveries) < MaxDeliveries
    /\ deliveries' = Append(deliveries,
          [endpoint |-> e, status |-> "pending", attempts |-> 0, wait |-> 0])
    /\ accepted' = Append(accepted, 0)
    /\ doubt' = Append(doubt, 0)
    /\ UNCHANGED <<enabled, lock, session, changes, crashes, switchedOff>>

\* _queue_event, for an endpoint whose filters admit the finding.
QueueEvent(e) == enabled[e] /\ Insert(e)

\* test_notification_endpoint asks no such thing.
QueueTest(e) == Insert(e)

\* The administrator's PUT, or DELETE, which disables.
SetEnabled(e, value) ==
    /\ enabled[e] # value /\ changes < MaxChanges
    /\ enabled' = [enabled EXCEPT ![e] = value]
    /\ changes' = changes + 1
    /\ switchedOff' = [w \in Worker |-> IF value THEN switchedOff[w]
                                        ELSE switchedOff[w] \cup {e}]
    /\ UNCHANGED <<deliveries, lock, session, crashes, accepted, doubt>>

\* How far d may be told overdue: rows keep their order.
Floor(d) ==
    Cardinality({deliveries[c].wait : c \in {x \in DOMAIN deliveries :
                    deliveries[x].status \in Active /\ deliveries[x].wait < deliveries[d].wait}})
    - MaxLate

Tick ==
    /\ deliveries' = [d \in DOMAIN deliveries |->
          IF deliveries[d].status \in Active /\ deliveries[d].wait > Floor(d)
          THEN [deliveries[d] EXCEPT !.wait = @ - 1] ELSE deliveries[d]]
    /\ deliveries' # deliveries
    /\ UNCHANGED <<enabled, lock, session, changes, crashes, history>>
-----------------------------------------------------------------------------
(* The worker.                                                              *)

\* The scheduler fires; a held lock ends the job at once.
TryLock(w) ==
    /\ pc[w] = "idle" /\ lock = Nobody
    /\ lock' = w
    /\ pc' = [pc EXCEPT ![w] = "read"]
    /\ UNCHANGED <<enabled, deliveries, batch, cancelled, cached, draft,
                   changes, crashes, history>>

\* Mutants of Due: delivered rows are read again; retries are not read.
DueDelivered == {d \in DOMAIN deliveries :
                   deliveries[d].status \in Active \cup {"delivered"} /\ deliveries[d].wait <= 0}
DuePending == {d \in DOMAIN deliveries :
                   deliveries[d].status = "pending" /\ deliveries[d].wait <= 0}

Due == {d \in DOMAIN deliveries : deliveries[d].status \in Active /\ deliveries[d].wait <= 0}

\* The first BatchLimit due rows by next_attempt; the rows of one evaluation tie
\* and come in any order.
Batches ==
    LET size == IF Cardinality(Due) < BatchLimit THEN Cardinality(Due) ELSE BatchLimit
    IN  {b \in [1 .. size -> Due] :
           \A i \in 1 .. size :
              /\ \A j \in i + 1 .. size : b[i] # b[j] /\ deliveries[b[i]].wait <= deliveries[b[j]].wait
              /\ \A d \in Due \ {b[k] : k \in 1 .. size} : deliveries[b[i]].wait <= deliveries[d].wait}

ReadDue(w) ==
    /\ pc[w] = "read"
    /\ batch' \in {[batch EXCEPT ![w] = b] : b \in Batches}
    /\ switchedOff' = [switchedOff EXCEPT ![w] = {}]
    /\ pc' = [pc EXCEPT ![w] = "next"]
    /\ UNCHANGED <<enabled, deliveries, lock, cancelled, cached, draft,
                   changes, crashes, accepted, doubt>>

Target(w) == deliveries[batch[w][1]].endpoint

\* session.get: the object of the last row's endpoint is not read again.
IsEnabled(w) == IF cached[w] # NoEndpoint /\ cached[w][1] = Target(w)
                THEN cached[w][2] ELSE enabled[Target(w)]

\* A disabled endpoint: the row is marked, and committed only with a later row.
SkipDisabled(w) ==
    /\ pc[w] = "next" /\ batch[w] # << >> /\ ~IsEnabled(w)
    /\ cancelled' = [cancelled EXCEPT ![w] = @ \cup {batch[w][1]}]
    /\ cached' = [cached EXCEPT ![w] = <<Target(w), FALSE>>]
    /\ batch' = [batch EXCEPT ![w] = Tail(@)]
    /\ UNCHANGED <<enabled, deliveries, lock, pc, draft, changes, crashes, history>>

BeginPost(w) ==
    /\ pc[w] = "next" /\ batch[w] # << >> /\ IsEnabled(w)
    /\ cached' = [cached EXCEPT ![w] = <<Target(w), TRUE>>]
    /\ pc' = [pc EXCEPT ![w] = "post"]
    /\ UNCHANGED <<enabled, deliveries, lock, batch, cancelled, draft,
                   changes, crashes, history>>

Answer(status, waits, gone, ok) ==
    {[status |-> status, wait |-> t, gone |-> gone, accepted |-> ok] : t \in waits}

\* Mutated: one retry too many.
RetryTooOften(attempts, oks) ==
    UNION {IF attempts > Retries + 1 THEN Answer("failed", {0}, FALSE, ok)
           ELSE Answer("retrying", 0 .. MaxWait, FALSE, ok) : ok \in oks}

\* 429 and 5xx, and exceptions before, during or after the request: retried
\* until the attempts exceed the delays.
RetryOrFail(attempts, oks) ==
    UNION {IF attempts > Retries THEN Answer("failed", {0}, FALSE, ok)
           ELSE Answer("retrying", 0 .. MaxWait, FALSE, ok) : ok \in oks}

Answers(attempts) ==
    Answer("delivered", {0}, FALSE, TRUE)
    \cup Answer("failed", {0}, TRUE, FALSE)           \* 410: the endpoint is gone
    \cup Answer("failed", {0}, FALSE, FALSE)          \* any other code
    \cup RetryOrFail(attempts, BOOLEAN)

Post(w) ==
    LET d == batch[w][1] IN
    /\ pc[w] = "post"
    /\ \E a \in Answers(deliveries[d].attempts + 1) :
          /\ draft' = [draft EXCEPT ![w] = a]
          /\ accepted' = [accepted EXCEPT ![d] = IF a.accepted THEN @ + 1 ELSE @]
          /\ doubt' = [doubt EXCEPT ![d] = IF a.accepted /\ a.status # "delivered"
                                           THEN @ + 1 ELSE @]
    /\ pc' = [pc EXCEPT ![w] = "commit"]
    /\ UNCHANGED <<enabled, deliveries, lock, batch, cancelled, cached,
                   changes, crashes, switchedOff>>

\* session.commit: the row, the rows marked cancelled before it, the endpoint.
Commit(w) ==
    LET d == batch[w][1]  a == draft[w]  e == Target(w) IN
    /\ pc[w] = "commit"
    /\ deliveries' = [x \in DOMAIN deliveries |->
          IF x = d THEN [deliveries[x] EXCEPT !.status = a.status, !.attempts = @ + 1,
                                              !.wait = a.wait]
          ELSE IF x \in cancelled[w] THEN [deliveries[x] EXCEPT !.status = "cancelled", !.wait = 0]
          ELSE deliveries[x]]
    /\ enabled' = IF a.gone THEN [enabled EXCEPT ![e] = FALSE] ELSE enabled
    /\ cached' = IF a.gone THEN [cached EXCEPT ![w] = <<e, FALSE>>] ELSE cached
    /\ switchedOff' = [v \in Worker |-> IF a.gone THEN switchedOff[v] \cup {e}
                                        ELSE switchedOff[v]]
    /\ cancelled' = [cancelled EXCEPT ![w] = {}]
    /\ draft' = [draft EXCEPT ![w] = NoDraft]
    /\ batch' = [batch EXCEPT ![w] = Tail(@)]
    /\ pc' = [pc EXCEPT ![w] = "next"]
    /\ UNCHANGED <<lock, changes, crashes, accepted, doubt>>

\* The batch is done; closing the session drops what was not committed.
EndBatch(w) ==
    /\ pc[w] = "next" /\ batch[w] = << >>
    /\ cancelled' = [cancelled EXCEPT ![w] = {}]
    /\ cached' = [cached EXCEPT ![w] = NoEndpoint]
    /\ switchedOff' = [switchedOff EXCEPT ![w] = {}]
    /\ pc' = [pc EXCEPT ![w] = "unlock"]
    /\ UNCHANGED <<enabled, deliveries, lock, batch, draft, changes, crashes,
                   accepted, doubt>>

Unlock(w) ==
    /\ pc[w] = "unlock"
    /\ lock' = Nobody
    /\ pc' = [pc EXCEPT ![w] = "idle"]
    /\ UNCHANGED <<enabled, deliveries, batch, cancelled, cached, draft,
                   changes, crashes, history>>

\* The worker's process dies; its connections and its lock go with it.
Crash(w) ==
    /\ pc[w] # "idle" /\ crashes < MaxCrashes
    /\ crashes' = crashes + 1
    /\ doubt' = IF pc[w] = "commit" /\ draft[w].status = "delivered"
                THEN [doubt EXCEPT ![batch[w][1]] = @ + 1] ELSE doubt
    /\ lock' = IF lock = w THEN Nobody ELSE lock
    /\ pc' = [pc EXCEPT ![w] = "idle"]
    /\ batch' = [batch EXCEPT ![w] = << >>]
    /\ cancelled' = [cancelled EXCEPT ![w] = {}]
    /\ cached' = [cached EXCEPT ![w] = NoEndpoint]
    /\ draft' = [draft EXCEPT ![w] = NoDraft]
    /\ switchedOff' = [switchedOff EXCEPT ![w] = {}]
    /\ UNCHANGED <<enabled, deliveries, changes, accepted>>
-----------------------------------------------------------------------------
WorkerStep(w) ==
    \/ TryLock(w) \/ ReadDue(w) \/ SkipDisabled(w) \/ BeginPost(w)
    \/ Post(w) \/ Commit(w) \/ EndBatch(w) \/ Unlock(w)

Next ==
    \/ \E e \in Endpoint : \/ QueueEvent(e) \/ QueueTest(e)
                           \/ \E value \in BOOLEAN : SetEnabled(e, value)
    \/ Tick
    \/ \E w \in Worker : WorkerStep(w) \/ Crash(w)

Spec == Init /\ [][Next]_vars

\* Time passes, the 30-second schedule keeps firing and every await of the
\* worker ends (the HTTP client has a timeout of 15 seconds).
Fairness == WF_vars(Tick) /\ \A w \in Worker : WF_vars(WorkerStep(w))

FairSpec == Spec /\ Fairness
-----------------------------------------------------------------------------
(* Safety.                                                                  *)

(* A delivery is in the hands of one worker: no other backend holds it in   *)
(* its batch, so a row's attempts and answers are never interleaved.        *)
OneSender ==
    \A v, w \in Worker : pc[v] \in {"next", "post", "commit"}
                         /\ pc[w] \in {"next", "post", "commit"} => v = w

(* Retries are bounded: a row is tried at most once more than there are     *)
(* delays, it is given up only then or on a permanent answer, and only a    *)
(* row that was tried waits for a retry.                                    *)
BoundedRetries ==
    \A d \in DOMAIN deliveries : LET row == deliveries[d] IN
       /\ row.attempts <= Retries + 1
       /\ row.status = "pending" => row.attempts = 0
       /\ row.status = "retrying" => row.attempts \in 1 .. Retries

(* At least once, and more than once only for a reason: a receiver accepts  *)
(* a delivery again only when an earlier acceptance was lost to the worker  *)
(* (its answer did not arrive, or the process died before the commit).      *)
AtLeastOnce ==
    \A d \in DOMAIN deliveries :
       /\ deliveries[d].status = "delivered" => accepted[d] > 0
       /\ accepted[d] <= doubt[d] + 1
       /\ deliveries[d].status \in {"failed", "cancelled"} => accepted[d] <= doubt[d]

(* A final answer is never revised: no later attempt, crash, endpoint change*)
(* or uncommitted mark of another batch turns it into something else.       *)
FinalIsFinal ==
    [][\A d \in DOMAIN deliveries : deliveries[d].status \in Final =>
          deliveries'[d] = deliveries[d]]_vars

(* A disabled endpoint receives posts only from a batch that was read       *)
(* before it was disabled.                                                  *)
StaleOnlyWithinBatch ==
    \A w \in Worker : pc[w] = "post" => enabled[Target(w)] \/ Target(w) \in switchedOff[w]

(* What holds of every row and worker in every state: one sender, bounded   *)
(* retries, and only the rest of a batch for a disabled endpoint.           *)
OutboxInv == TypeOK /\ OneSender /\ BoundedRetries /\ StaleOnlyWithinBatch
-----------------------------------------------------------------------------
(* Liveness, under Fairness.                                                *)

(* As long as its endpoint is enabled a row comes to a final answer: its    *)
(* retries end.                                                             *)
EnabledDeliveryEnds ==
    \A d \in 1 .. MaxDeliveries :
       (d \in DOMAIN deliveries /\ deliveries[d].status \in Active)
          ~> (d \in DOMAIN deliveries /\ (deliveries[d].status \in Final
                                          \/ ~enabled[deliveries[d].endpoint]))

(* A delivery settles: it comes to a final answer, and that one stays.      *)
DeliveriesSettle == FinalIsFinal /\ EnabledDeliveryEnds
=============================================================================
