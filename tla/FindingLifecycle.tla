-------------------------- MODULE FindingLifecycle --------------------------
(***************************************************************************)
(* Durable findings: evaluate_findings(_job) of findings.py, which opens,  *)
(* reopens and resolves findings from the normalized signals, and the      *)
(* administrator actions of api.py, which acknowledge, suppress, reopen    *)
(* and assign them.  The evaluator runs under advisory lock 81201; the     *)
(* administrator's requests take no lock.                                  *)
(*                                                                         *)
(* Both sides are sessions with expire_on_commit=False over READ COMMITTED *)
(* transactions: a row is loaded, changed in memory, and flushed as an     *)
(* UPDATE of the columns that differ from what was loaded.  A flushed row  *)
(* is locked until its transaction commits.                                *)
(***************************************************************************)
EXTENDS Naturals, FiniteSets

CONSTANTS
    Finding,        \* fingerprints
    Source,
    SourceOf,       \* FindingCandidate.source
    Always,         \* the sources that are always complete: sync_health, operations
    Evaluator,      \* the tasks that may run evaluate_findings_job
    Admin,          \* the requests of administrators in flight at a time
    MaxSignals,     \* bound: changes of the signals
    MaxActions,     \* bound: administrator actions
    MaxCrashes,     \* bound: crashes of an evaluator's process
    Nobody

ASSUME ConstantsAssumption ==
    /\ SourceOf \in [Finding -> Source]
    /\ Always \subseteq Source
    /\ MaxSignals \in Nat /\ MaxActions \in Nat /\ MaxCrashes \in Nat
    /\ Nobody \notin Evaluator \cup Finding

VARIABLES
    \* --- the signals the evaluator reads
    signal,       \* signal[f]: 0 absent, else the severity collect_findings gives it
    available,    \* the sources whose capability is available
    \* --- PostgreSQL
    row,          \* row[f]: the committed findings row, NoRow before the first
    trail,        \* trail[f]: the newest transition's to_status, whether every
                  \* transition started from the status the one before it ended in,
                  \* and whether one was written to a row that had another status by
                  \* then than the one its session had loaded
    event,        \* event[f]: the newest notification queued for f
    lock,         \* the evaluator that holds advisory lock 81201
    \* --- the evaluator's session
    pc,
    candidate,    \* candidate[e][f]: what collect_findings returned
    complete,     \* complete[e]: the complete_sources it returned
    todo,         \* findings the current loop still has to handle
    current,      \* the candidate it has loaded and not flushed yet
    loaded,       \* loaded[e][f]: the row object as it was read
    flushed,      \* flushed[e][f]: the uncommitted row, trail and event, or Untouched
    \* --- the administrators' sessions, and the bounds
    request,      \* request[a]: the action and the row it loaded
    signals, actions, crashes

session == <<pc, candidate, complete, todo, current, loaded, flushed>>
bounds == <<signals, actions, crashes>>
vars == <<signal, available, row, trail, event, lock, pc, candidate, complete, todo,
          current, loaded, flushed, request, signals, actions, crashes>>

Status == {"open", "acknowledged", "suppressed", "resolved"}
Severity == 1 .. 2                                   \* greater is more severe
Until == {"none", "future", "past"}                  \* suppressed_until against now
Event == {"none", "opened", "reopened", "severity_increased", "resolved"}
Kind == {"acknowledge", "reopen", "suppress", "unsuppress", "assign"}

Row == [status : Status, severity : Severity, resolved_at : BOOLEAN,
        suppressed_until : Until, stale : BOOLEAN, occurrence_count : Nat]
NoRow == [status |-> "absent"]
Trail == [last : Status \cup {"absent"}, sound : BOOLEAN, raced : BOOLEAN]
Write == [row : Row, trail : Trail, event : Event]
Untouched == [row |-> NoRow]
Idle == [kind |-> "idle"]

TypeOK ==
    /\ signal \in [Finding -> {0} \cup Severity]
    /\ available \subseteq Source
    /\ row \in [Finding -> Row \cup {NoRow}]
    /\ trail \in [Finding -> Trail]
    /\ event \in [Finding -> Event]
    /\ lock \in Evaluator \cup {Nobody}
    /\ pc \in [Evaluator -> {"idle", "collect", "candidates", "flush", "existing",
                             "resolve", "commit", "unlock"}]
    /\ candidate \in [Evaluator -> [Finding -> {0} \cup Severity]]
    /\ complete \in [Evaluator -> SUBSET Source]
    /\ todo \in [Evaluator -> SUBSET Finding]
    /\ current \in [Evaluator -> Finding \cup {Nobody}]
    /\ loaded \in [Evaluator -> [Finding -> Row \cup {NoRow}]]
    /\ flushed \in [Evaluator -> [Finding -> Write \cup {Untouched}]]
    /\ request \in [Admin -> [kind : Kind, finding : Finding, loaded : Row] \cup {Idle}]
    /\ signals \in 0 .. MaxSignals /\ actions \in 0 .. MaxActions
    /\ crashes \in 0 .. MaxCrashes

Init ==
    /\ signal \in [Finding -> {0} \cup Severity]
    /\ available = Source
    /\ row = [f \in Finding |-> NoRow]
    /\ trail = [f \in Finding |-> [last |-> "absent", sound |-> TRUE, raced |-> FALSE]]
    /\ event = [f \in Finding |-> "none"]
    /\ lock = Nobody
    /\ pc = [e \in Evaluator |-> "idle"]
    /\ candidate = [e \in Evaluator |-> [f \in Finding |-> 0]]
    /\ complete = [e \in Evaluator |-> {}]
    /\ todo = [e \in Evaluator |-> {}]
    /\ current = [e \in Evaluator |-> Nobody]
    /\ loaded = [e \in Evaluator |-> [f \in Finding |-> NoRow]]
    /\ flushed = [e \in Evaluator |-> [f \in Finding |-> Untouched]]
    /\ request = [a \in Admin |-> Idle]
    /\ signals = 0 /\ actions = 0 /\ crashes = 0
-----------------------------------------------------------------------------
(* Sessions.                                                                *)

\* The UPDATE of a flush: the columns that differ from the loaded ones, and the
\* new timestamps, which always differ.
Update(now, old, new, fresh) ==
    [c \in DOMAIN new |-> IF c \in fresh \/ new[c] # old[c] THEN new[c] ELSE now[c]]

\* Mutant of Record: every transition is written as one from "open".
RecordFromOpen(t, from, to, now) ==
    [last |-> to, sound |-> t.sound /\ t.last = "open", raced |-> t.raced \/ now # from]

\* A transition row: from the status in memory, whatever the table says now.
Record(t, from, to, now) ==
    [last |-> to, sound |-> t.sound /\ t.last = from, raced |-> t.raced \/ now # from]

\* What the evaluator's transaction reads: its own writes, else what is committed.
Touched(e, f) == flushed[e][f] # Untouched
View(e, f) == IF Touched(e, f) THEN flushed[e][f].row ELSE row[f]
TrailOf(e, f) == IF Touched(e, f) THEN flushed[e][f].trail ELSE trail[f]
EventOf(e, f) == IF Touched(e, f) THEN flushed[e][f].event ELSE event[f]
-----------------------------------------------------------------------------
(* The signals and the clock.                                               *)

Signal(f, value) ==
    /\ signal[f] # value /\ signals < MaxSignals
    /\ signal' = [signal EXCEPT ![f] = value]
    /\ signals' = signals + 1
    /\ UNCHANGED <<available, row, trail, event, lock, session, request, actions, crashes>>

Availability(s) ==
    /\ s \notin Always /\ signals < MaxSignals
    /\ available' = IF s \in available THEN available \ {s} ELSE available \cup {s}
    /\ signals' = signals + 1
    /\ UNCHANGED <<signal, row, trail, event, lock, session, request, actions, crashes>>

\* A suppression runs out.  (A row the evaluator has flushed runs out after it.)
Expire(f) ==
    /\ row[f] # NoRow /\ row[f].suppressed_until = "future"
    /\ \A e \in Evaluator : ~Touched(e, f)
    /\ row' = [row EXCEPT ![f].suppressed_until = "past"]
    /\ UNCHANGED <<signal, available, trail, event, lock, session, request, bounds>>
-----------------------------------------------------------------------------
(* The evaluator.                                                           *)

TryLock(e) ==
    /\ pc[e] = "idle" /\ lock = Nobody
    /\ lock' = e
    /\ pc' = [pc EXCEPT ![e] = "collect"]
    /\ UNCHANGED <<signal, available, row, trail, event, candidate, complete, todo,
                   current, loaded, flushed, request, bounds>>

\* collect_findings: candidates come from complete sources only.
Collect(e) ==
    LET done == available \cup Always
        found == [f \in Finding |-> IF SourceOf[f] \in done THEN signal[f] ELSE 0]
    IN
    /\ pc[e] = "collect"
    /\ candidate' = [candidate EXCEPT ![e] = found]
    /\ complete' = [complete EXCEPT ![e] = done]
    /\ todo' = [todo EXCEPT ![e] = {f \in Finding : found[f] # 0}]
    /\ pc' = [pc EXCEPT ![e] = "candidates"]
    /\ UNCHANGED <<signal, available, row, trail, event, lock, current, loaded, flushed,
                   request, bounds>>

\* The SELECT by fingerprint.
Load(e, f) ==
    /\ pc[e] = "candidates" /\ f \in todo[e]
    /\ loaded' = [loaded EXCEPT ![e][f] = View(e, f)]
    /\ current' = [current EXCEPT ![e] = f]
    /\ pc' = [pc EXCEPT ![e] = "flush"]
    /\ UNCHANGED <<signal, available, row, trail, event, lock, candidate, complete, todo,
                   flushed, request, bounds>>

\* A candidate without a row.
Opened(severity) ==
    [status |-> "open", severity |-> severity, resolved_at |-> FALSE,
     suppressed_until |-> "none", stale |-> FALSE, occurrence_count |-> 1]

Lapsed(old) == old.status = "suppressed" /\ old.suppressed_until = "past"
Recurs(old) == old.status = "resolved"
Escalates(old, severity) == severity > old.severity

\* A candidate with one: a lapsed suppression, a recurrence or, when it was
\* acknowledged, a higher severity opens it.
Refreshed(old, severity) ==
    [status |-> IF Lapsed(old) \/ Recurs(old)
                   \/ (Escalates(old, severity) /\ old.status = "acknowledged")
                THEN "open" ELSE old.status,
     severity |-> severity,
     resolved_at |-> old.resolved_at /\ ~Recurs(old),
     suppressed_until |-> old.suppressed_until,
     stale |-> FALSE,
     occurrence_count |-> old.occurrence_count + IF Recurs(old) THEN 1 ELSE 0]

\* The changes of the loaded candidate reach the database.
Flush(e, f) ==
    LET old == loaded[e][f]
        severity == candidate[e][f]
        new == IF old = NoRow THEN Opened(severity) ELSE Refreshed(old, severity)
        changed == old = NoRow \/ old.status # new.status
        fires == CASE old = NoRow -> "opened"
                   [] old # NoRow /\ Escalates(old, severity) -> "severity_increased"
                   [] old # NoRow /\ ~Escalates(old, severity) /\ Recurs(old) -> "reopened"
                   [] OTHER -> EventOf(e, f)
    IN
    /\ pc[e] = "flush" /\ f = current[e]
    /\ flushed' = [flushed EXCEPT ![e][f] =
          [row |-> IF old = NoRow THEN new ELSE Update(View(e, f), old, new, {}),
           trail |-> IF changed THEN Record(TrailOf(e, f), old.status, new.status,
                                              View(e, f).status)
                     ELSE TrailOf(e, f),
           event |-> fires]]
    /\ todo' = [todo EXCEPT ![e] = @ \ {f}]
    /\ current' = [current EXCEPT ![e] = Nobody]
    /\ pc' = [pc EXCEPT ![e] = "candidates"]
    /\ UNCHANGED <<signal, available, row, trail, event, lock, candidate, complete,
                   loaded, request, bounds>>

\* Mutant of LoadExisting: only open findings are looked at.
LoadExistingOpen(e) ==
    /\ pc[e] = "candidates" /\ todo[e] = {}
    /\ loaded' = [loaded EXCEPT ![e] = [f \in Finding |-> View(e, f)]]
    /\ todo' = [todo EXCEPT ![e] =
          {f \in Finding : View(e, f) # NoRow /\ View(e, f).status = "open"}]
    /\ pc' = [pc EXCEPT ![e] = "resolve"]
    /\ UNCHANGED <<signal, available, row, trail, event, lock, candidate, complete, current,
                   flushed, request, bounds>>

\* One SELECT of everything that is not resolved.
LoadExisting(e) ==
    /\ pc[e] = "candidates" /\ todo[e] = {}
    /\ loaded' = [loaded EXCEPT ![e] = [f \in Finding |-> View(e, f)]]
    /\ todo' = [todo EXCEPT ![e] =
          {f \in Finding : View(e, f) # NoRow /\ View(e, f).status # "resolved"}]
    /\ pc' = [pc EXCEPT ![e] = "resolve"]
    /\ UNCHANGED <<signal, available, row, trail, event, lock, candidate, complete, current,
                   flushed, request, bounds>>

\* Mutant of Settle: an absent finding is resolved, its source complete or not.
SettleAbsent(e, f) ==
    LET old == loaded[e][f] IN
    /\ pc[e] = "resolve" /\ f \in todo[e]
    /\ flushed' = IF candidate[e][f] # 0 THEN flushed
          ELSE [flushed EXCEPT ![e][f] =
               [row |-> [old EXCEPT !.status = "resolved", !.resolved_at = TRUE],
                trail |-> Record(TrailOf(e, f), old.status, "resolved", View(e, f).status),
                event |-> "resolved"]]
    /\ todo' = [todo EXCEPT ![e] = @ \ {f}]
    /\ UNCHANGED <<signal, available, row, trail, event, lock, pc, candidate, complete,
                   current, loaded, request, bounds>>

\* Each of them: stale when its source is incomplete, resolved when it is absent
\* from a complete one.
Settle(e, f) ==
    LET old == loaded[e][f]
        absent == SourceOf[f] \in complete[e] /\ candidate[e][f] = 0
        staled == SourceOf[f] \notin complete[e] /\ ~old.stale
    IN
    /\ pc[e] = "resolve" /\ f \in todo[e]
    /\ flushed' =
          IF absent
          THEN [flushed EXCEPT ![e][f] =
                  [row |-> Update(View(e, f), old,
                               [old EXCEPT !.status = "resolved", !.resolved_at = TRUE,
                                           !.stale = FALSE], {"resolved_at"}),
                   trail |-> Record(TrailOf(e, f), old.status, "resolved", View(e, f).status),
                   event |-> "resolved"]]
          ELSE IF staled
          THEN [flushed EXCEPT ![e][f] =
                  [row |-> Update(View(e, f), old, [old EXCEPT !.stale = TRUE], {}),
                   trail |-> TrailOf(e, f), event |-> EventOf(e, f)]]
          ELSE flushed
    /\ todo' = [todo EXCEPT ![e] = @ \ {f}]
    /\ UNCHANGED <<signal, available, row, trail, event, lock, pc, candidate, complete,
                   current, loaded, request, bounds>>

\* The session is over: nothing it loaded or wrote is left.
Forget(e) ==
    /\ candidate' = [candidate EXCEPT ![e] = [f \in Finding |-> 0]]
    /\ complete' = [complete EXCEPT ![e] = {}]
    /\ todo' = [todo EXCEPT ![e] = {}]
    /\ current' = [current EXCEPT ![e] = Nobody]
    /\ loaded' = [loaded EXCEPT ![e] = [f \in Finding |-> NoRow]]
    /\ flushed' = [flushed EXCEPT ![e] = [f \in Finding |-> Untouched]]

\* Mutant of Commit: the notifications are not part of the transaction.
CommitRowsOnly(e) ==
    /\ pc[e] = "resolve" /\ todo[e] = {}
    /\ row' = [f \in Finding |-> View(e, f)]
    /\ trail' = [f \in Finding |-> TrailOf(e, f)]
    /\ pc' = [pc EXCEPT ![e] = "unlock"]
    /\ Forget(e)
    /\ UNCHANGED <<signal, available, event, lock, request, bounds>>

Commit(e) ==
    /\ pc[e] = "resolve" /\ todo[e] = {}
    /\ row' = [f \in Finding |-> View(e, f)]
    /\ trail' = [f \in Finding |-> TrailOf(e, f)]
    /\ event' = [f \in Finding |-> EventOf(e, f)]
    /\ pc' = [pc EXCEPT ![e] = "unlock"]
    /\ Forget(e)
    /\ UNCHANGED <<signal, available, lock, request, bounds>>

Unlock(e) ==
    /\ pc[e] = "unlock"
    /\ lock' = Nobody
    /\ pc' = [pc EXCEPT ![e] = "idle"]
    /\ UNCHANGED <<signal, available, row, trail, event, candidate, complete, todo,
                   current, loaded, flushed, request, bounds>>

Crash(e) ==
    /\ pc[e] # "idle" /\ crashes < MaxCrashes
    /\ crashes' = crashes + 1
    /\ lock' = IF lock = e THEN Nobody ELSE lock
    /\ pc' = [pc EXCEPT ![e] = "idle"]
    /\ Forget(e)
    /\ UNCHANGED <<signal, available, row, trail, event, request, signals, actions>>
-----------------------------------------------------------------------------
(* The administrator's requests: load, check, change, commit.               *)

\* The conditions that answer 409, on the row as it was loaded.
Allowed(kind, old) ==
    CASE kind \in {"acknowledge", "suppress"} -> old.status # "resolved"
      [] kind = "unsuppress" -> old.status = "suppressed"
      [] kind \in {"reopen", "assign"} -> TRUE

Begin(a, f, kind) ==
    /\ request[a] = Idle /\ actions < MaxActions
    /\ row[f] # NoRow /\ Allowed(kind, row[f])
    /\ request' = [request EXCEPT ![a] = [kind |-> kind, finding |-> f, loaded |-> row[f]]]
    /\ actions' = actions + 1
    /\ UNCHANGED <<signal, available, row, trail, event, lock, session, signals, crashes>>

\* Mutant of Changed: a finding that is reopened keeps its resolved_at.
ChangedKeepsTime(kind, old) ==
    CASE kind = "acknowledge" -> {[old EXCEPT !.status = "acknowledged"]}
      [] kind = "reopen" -> {[old EXCEPT !.status = "open", !.suppressed_until = "none"]}
      [] kind = "suppress" -> {[old EXCEPT !.status = "suppressed", !.suppressed_until = u] :
                                  u \in {"none", "future"}}
      [] kind = "unsuppress" -> {[old EXCEPT !.status = "open", !.suppressed_until = "none"]}
      [] kind = "assign" -> {old}

\* The changed rows of each action; suppression is for a time or indefinite.
Changed(kind, old) ==
    CASE kind = "acknowledge" -> {[old EXCEPT !.status = "acknowledged"]}
      [] kind = "reopen" -> {[old EXCEPT !.status = "open", !.resolved_at = FALSE,
                                         !.suppressed_until = "none"]}
      [] kind = "suppress" -> {[old EXCEPT !.status = "suppressed", !.suppressed_until = u] :
                                  u \in {"none", "future"}}
      [] kind = "unsuppress" -> {[old EXCEPT !.status = "open", !.suppressed_until = "none"]}
      [] kind = "assign" -> {old}

\* The commit waits for an evaluator that has flushed the row.
Finish(a) ==
    LET r == request[a] IN
    /\ r # Idle
    /\ \A e \in Evaluator : ~Touched(e, r.finding)
    /\ \E new \in Changed(r.kind, r.loaded) :
          /\ row' = [row EXCEPT ![r.finding] =
                Update(@, r.loaded, new,
                       IF new.suppressed_until = "future" /\ r.kind = "suppress"
                       THEN {"suppressed_until"} ELSE {})]
          /\ trail' = [trail EXCEPT ![r.finding] = Record(@, r.loaded.status, new.status,
                                                             row[r.finding].status)]
    /\ request' = [request EXCEPT ![a] = Idle]
    /\ UNCHANGED <<signal, available, event, lock, session, bounds>>
-----------------------------------------------------------------------------
EvaluatorStep(e) ==
    \/ TryLock(e) \/ Collect(e) \/ LoadExisting(e) \/ Commit(e) \/ Unlock(e)
    \/ \E f \in Finding : Load(e, f) \/ Flush(e, f) \/ Settle(e, f)

Next ==
    \/ \E f \in Finding : Expire(f) \/ \E value \in {0} \cup Severity : Signal(f, value)
    \/ \E s \in Source : Availability(s)
    \/ \E e \in Evaluator : EvaluatorStep(e) \/ Crash(e)
    \/ \E a \in Admin : Finish(a) \/ \E f \in Finding, kind \in Kind : Begin(a, f, kind)

Spec == Init /\ [][Next]_vars

\* The evaluator is scheduled every five minutes and its queries end.
Fairness == /\ \A e \in Evaluator : WF_vars(EvaluatorStep(e))
            /\ \A a \in Admin : WF_vars(Finish(a))

FairSpec == Spec /\ Fairness
-----------------------------------------------------------------------------
(* Safety.                                                                  *)

(* One evaluation at a time, in whatever process, from its collection to    *)
(* its commit.                                                              *)
OneEvaluation ==
    \A d, e \in Evaluator : pc[d] # "idle" /\ pc[e] # "idle" => d = e

Resolved(f) == row[f] # NoRow /\ row[f].status = "resolved"

(* A finding becomes resolved only by an evaluation that saw its source     *)
(* complete and the finding absent: incomplete data never resolves, and     *)
(* neither does an administrator's request that overlaps an evaluation.     *)
ResolvedOnlyWhenComplete ==
    [][\A f \in Finding :
          ~Resolved(f) /\ Resolved(f)' =>
             \E e \in Evaluator :
                /\ pc[e] = "resolve" /\ pc'[e] = "unlock"
                /\ SourceOf[f] \in complete[e] /\ candidate[e][f] = 0]_vars

(* The outbox is transactional: whatever overlaps or dies, a committed      *)
(* opening or resolution has its notification queued, a resolved finding    *)
(* opens without one only by an administrator's hand, and no notification   *)
(* is queued for a change that was not committed.                           *)
OutboxIsTransactional ==
    [][\A f \in Finding :
          /\ row[f] = NoRow /\ row'[f] # NoRow => event'[f] = "opened"
          /\ ~Resolved(f) /\ Resolved(f)' => event'[f] = "resolved"
          /\ Resolved(f) /\ ~Resolved(f)' =>
                event'[f] \in {"reopened", "severity_increased"} \/ request' # request
          /\ event'[f] # event[f] => row'[f] # row[f]]_vars

(* The transitions of a finding form one chain: each starts from the status *)
(* the previous one ended in, and the last one ends in the current status.  *)
(* The exception is a finding that raced: an evaluation or a request wrote  *)
(* a transition after another session had changed the status that it had    *)
(* loaded.  That two sessions overlap is not enough, and neither is that    *)
(* administrators act, suppressions lapse or acknowledged findings escalate.*)
LifecycleIsAChain ==
    \A f \in Finding :
       ~trail[f].raced => /\ trail[f].sound
                          /\ row[f] # NoRow => trail[f].last = row[f].status

(* resolved_at is set exactly while the finding is resolved, unless the     *)
(* finding raced: an acknowledgement that was loaded before a resolution    *)
(* and commits after it leaves resolved_at set.                             *)
ResolvedHasTime ==
    \A f \in Finding :
       ~trail[f].raced /\ row[f] # NoRow =>
          (row[f].resolved_at = (row[f].status = "resolved"))

(* What holds of the rows and their transitions in every state.             *)
FindingInv == TypeOK /\ OneEvaluation /\ LifecycleIsAChain /\ ResolvedHasTime
-----------------------------------------------------------------------------
(* Liveness, under Fairness.                                                *)

(* Evaluation converges: when a finding stays absent from an available      *)
(* source it ends up resolved for good, and when it stays present it ends   *)
(* up unresolved, whatever administrators did meanwhile and whatever their  *)
(* requests overwrote.                                                      *)
Converges ==
    \A f \in Finding :
       /\ <>[](signal[f] = 0 /\ SourceOf[f] \in available) =>
             <>[](row[f] = NoRow \/ row[f].status = "resolved")
       /\ <>[](signal[f] # 0 /\ SourceOf[f] \in available) =>
             <>[](row[f] # NoRow /\ row[f].status # "resolved")
=============================================================================
