------------------------ MODULE FindingLifecycleProofs ------------------------
(***************************************************************************)
(* Proofs about FindingLifecycle, for any findings, sources, evaluators    *)
(* and requests: its invariant FindingInv, and the two action properties   *)
(* ResolvedOnlyWhenComplete and OutboxIsTransactional.                     *)
(*                                                                         *)
(* The invariant that carries them relates what an evaluator has read and  *)
(* flushed to the rows that administrators change meanwhile: what it has   *)
(* flushed nobody else changes, what it has loaded and not yet flushed     *)
(* differs from the table only where a request or the clock can change it. *)
(***************************************************************************)
EXTENDS FindingLifecycle, TLAPS

(* An evaluator between its start and its end holds the advisory lock.      *)
WorkIsLocked == \A e \in Evaluator : pc[e] # "idle" => lock = e

(* What is flushed belongs to a transaction that is open.                   *)
FlushedIsOpen ==
    \A e \in Evaluator, f \in Finding :
       Touched(e, f) => pc[e] \in {"candidates", "flush", "resolve"}

(* A candidate comes from a complete source.                                *)
CandidatesAreComplete ==
    \A e \in Evaluator, f \in Finding : candidate[e][f] # 0 => SourceOf[f] \in complete[e]

(* What a session has loaded, the table still has.                          *)
LoadedIsThere ==
    /\ \A e \in Evaluator, f \in Finding : loaded[e][f] # NoRow => View(e, f) # NoRow
    /\ \A a \in Admin : request[a] # Idle => row[request[a].finding] # NoRow

(* A candidate is flushed once, and the loop over the existing findings     *)
(* meets it again only as one that was seen.                                *)
Handled(e) ==
    /\ pc[e] = "flush" => current[e] \in todo[e]
    /\ pc[e] \in {"candidates", "flush"} => \A f \in todo[e] :
          ~Touched(e, f) /\ candidate[e][f] # 0
    /\ pc[e] \in {"candidates", "flush"} => \A f \in Finding :
          Touched(e, f) => candidate[e][f] # 0
    /\ pc[e] = "resolve" => \A f \in todo[e] :
          /\ loaded[e][f] # NoRow /\ loaded[e][f].status # "resolved"
          /\ View(e, f).status # "resolved"
          /\ Touched(e, f) => candidate[e][f] # 0
HandledOnce == \A e \in Evaluator : Handled(e)

(* Between the load of a candidate and its flush a request may change the   *)
(* row, but neither create, resolve nor rate it.                            *)
Unrated(old, new) ==
    /\ old = NoRow <=> new = NoRow
    /\ old # NoRow => /\ new.severity = old.severity
                      /\ new.occurrence_count = old.occurrence_count
                      /\ new.status = "resolved" => old.status = "resolved"
LoadedIsNear ==
    \A e \in Evaluator :
       pc[e] = "flush" => Unrated(loaded[e][current[e]], row[current[e]])

(* What is flushed has the notification that its commit will need.          *)
Announces(old, new) ==
    /\ old = NoRow => new.event = "opened"
    /\ new.row.status = "resolved" => new.event = "resolved"
    /\ old # NoRow /\ old.status = "resolved" /\ new.row.status # "resolved" =>
          new.event \in {"reopened", "severity_increased"}
FlushedIsAnnounced ==
    \A e \in Evaluator, f \in Finding : Touched(e, f) =>
       /\ Announces(row[f], flushed[e][f])
       /\ flushed[e][f].event # event[f] => flushed[e][f].row # row[f]
       /\ flushed[e][f].row.status = "resolved" =>
             SourceOf[f] \in complete[e] /\ candidate[e][f] = 0

(* A finding that did not race agrees with its chain of transitions, and    *)
(* every copy of it that a session has loaded and may still write back has  *)
(* resolved_at set exactly when it is resolved.  A race is never forgotten. *)
Dated(r) == r # NoRow => (r.resolved_at <=> r.status = "resolved")
Agrees(r, t) == ~t.raced => t.sound /\ t.last = r.status /\ Dated(r)
Asked(a) ==
    LET r == request[a]
    IN  r # Idle => Allowed(r.kind, r.loaded) /\ (~trail[r.finding].raced => Dated(r.loaded))
ChainsAgree ==
    /\ \A f \in Finding : Agrees(row[f], trail[f])
    /\ \A e \in Evaluator, f \in Finding : Touched(e, f) =>
          /\ Agrees(flushed[e][f].row, flushed[e][f].trail)
          /\ trail[f].raced => flushed[e][f].trail.raced
    /\ \A a \in Admin : Asked(a)
    /\ \A e \in Evaluator : pc[e] = "flush" /\ ~trail[current[e]].raced =>
          Dated(loaded[e][current[e]])

IInv == /\ TypeOK /\ WorkIsLocked /\ FlushedIsOpen /\ CandidatesAreComplete /\ LoadedIsThere
        /\ HandledOnce /\ LoadedIsNear /\ FlushedIsAnnounced /\ ChainsAgree
-----------------------------------------------------------------------------
(* The operators.                                                           *)

\* A row is not the absence of one, and neither is a write.
LEMMA RowsExist ==
    /\ NoRow \notin Row /\ NoRow.status = "absent" /\ Idle \notin [kind : Kind, finding : Finding, loaded : Row]
    /\ \A w \in Write : w # Untouched /\ w.row \in Row /\ w.trail \in Trail /\ w.event \in Event
    /\ \A r \in Row : /\ r.status \in Status /\ r.status # "absent"
                      /\ r.severity \in Severity /\ r.occurrence_count \in Nat
                      /\ r.resolved_at \in BOOLEAN /\ r.suppressed_until \in Until
<1>1. \A r \in Row : r.status \in Status /\ r.severity \in Severity /\ r.occurrence_count \in Nat
                     /\ r.resolved_at \in BOOLEAN /\ r.suppressed_until \in Until
  BY DEF Row
<1>2. NoRow.status = "absent" /\ "absent" \notin Status
  BY DEF NoRow, Status
<1>3. NoRow \notin Row
  BY <1>1, <1>2
<1>4. \A w \in Write : w.row \in Row /\ w.trail \in Trail /\ w.event \in Event
  BY DEF Write
<1>5. Untouched.row = NoRow
  BY DEF Untouched
<1>6. Idle \notin [kind : Kind, finding : Finding, loaded : Row]
  BY DEF Idle, Kind
<1> QED
  BY <1>1, <1>2, <1>3, <1>4, <1>5, <1>6

\* An UPDATE of a row changes the columns that were changed in memory, no others.
LEMMA UpdateIsRow ==
    ASSUME NEW now \in Row, NEW old \in Row, NEW new \in Row, NEW fresh
    PROVE  Update(now, old, new, fresh) \in Row
BY DEF Update, Row

\* Its columns.
LEMMA UpdateOf ==
    ASSUME NEW now \in Row, NEW old \in Row, NEW new \in Row, NEW fresh
    PROVE  LET u == Update(now, old, new, fresh)
           IN /\ u.status = IF "status" \in fresh \/ new.status # old.status THEN new.status ELSE now.status
              /\ u.severity = IF "severity" \in fresh \/ new.severity # old.severity
                              THEN new.severity ELSE now.severity
              /\ u.occurrence_count =
                    IF "occurrence_count" \in fresh \/ new.occurrence_count # old.occurrence_count
                    THEN new.occurrence_count ELSE now.occurrence_count
              /\ u.resolved_at = IF "resolved_at" \in fresh \/ new.resolved_at # old.resolved_at
                                 THEN new.resolved_at ELSE now.resolved_at
BY DEF Update, Row

\* A transition goes from the status in memory to the new one.
LEMMA RecordOf ==
    ASSUME NEW t \in Trail, NEW from \in Status \cup {"absent"}, NEW to \in Status,
           NEW now \in Status \cup {"absent"}
    PROVE  LET new == Record(t, from, to, now)
           IN /\ new \in Trail /\ new.last = to /\ (t.raced => new.raced)
              /\ ~new.raced => ~t.raced /\ now = from /\ (t.sound /\ t.last = from => new.sound)
<1>1. t.sound \in BOOLEAN /\ t.raced \in BOOLEAN
  BY DEF Trail
<1>2. Record(t, from, to, now).sound = (t.sound /\ t.last = from)
  BY Zenon DEF Record
<1>3. Record(t, from, to, now).raced = (t.raced \/ now # from)
  BY Zenon DEF Record
<1>4. Record(t, from, to, now) \in Trail /\ Record(t, from, to, now).last = to
  BY <1>1 DEF Record, Trail
<1> QED
  BY <1>2, <1>3, <1>4

\* A refreshed candidate is a row, and never a resolved one.
LEMMA RefreshedOf ==
    ASSUME NEW old \in Row, NEW severity \in Severity
    PROVE  LET new == Refreshed(old, severity)
           IN /\ new \in Row /\ new.severity = severity
              /\ new.status # "resolved" /\ (old.status = "resolved" => new.status = "open")
              /\ new.occurrence_count = old.occurrence_count + IF Recurs(old) THEN 1 ELSE 0
              /\ new.resolved_at <=> old.resolved_at /\ ~Recurs(old)
<1>1. Refreshed(old, severity) \in Row
  BY DEF Refreshed, Row, Recurs, Lapsed, Escalates, Severity, Status
<1> QED
  BY <1>1 DEF Refreshed, Row, Recurs, Lapsed, Escalates, Severity, Status

\* So is a new one.
LEMMA OpenedOf ==
    ASSUME NEW severity \in Severity
    PROVE  LET new == Opened(severity)
           IN new \in Row /\ new.status = "open" /\ (new.resolved_at <=> FALSE)
<1>1. Opened(severity) \in Row
  BY DEF Opened, Row, Status, Until
<1> QED
  BY <1>1 DEF Opened

\* What the loop over the existing findings makes of one.
LEMMA SettledOf ==
    ASSUME NEW old \in Row
    PROVE  /\ LET new == [old EXCEPT !.status = "resolved", !.resolved_at = TRUE, !.stale = FALSE]
              IN new \in Row /\ new.status = "resolved" /\ (new.resolved_at <=> TRUE)
           /\ LET new == [old EXCEPT !.stale = TRUE]
              IN new \in Row /\ new.status = old.status /\ (new.resolved_at <=> old.resolved_at)
<1>1. [old EXCEPT !.status = "resolved", !.resolved_at = TRUE, !.stale = FALSE] \in Row
  BY DEF Row, Status
<1>2. [old EXCEPT !.stale = TRUE] \in Row
  BY DEF Row
<1> QED
  BY <1>1, <1>2 DEF Row

\* What a request makes of a row: it rates and resolves nothing.
LEMMA ChangedOf ==
    ASSUME NEW kind \in Kind, NEW old \in Row, NEW new \in Changed(kind, old)
    PROVE  /\ new \in Row /\ new.severity = old.severity
           /\ new.occurrence_count = old.occurrence_count
           /\ new.status = "resolved" => new.status = old.status
<1>1. CASE kind = "acknowledge"
  BY <1>1 DEF Changed, Row, Status
<1>2. CASE kind = "reopen"
  BY <1>2 DEF Changed, Row, Status, Until
<1>3. CASE kind = "suppress"
  <2>1. PICK u \in {"none", "future"} :
           new = [old EXCEPT !.status = "suppressed", !.suppressed_until = u]
    BY <1>3 DEF Changed
  <2> QED
    BY <2>1 DEF Row, Status, Until
<1>4. CASE kind = "unsuppress"
  BY <1>4 DEF Changed, Row, Status, Until
<1>5. CASE kind = "assign"
  BY <1>5 DEF Changed
<1> QED
  BY <1>1, <1>2, <1>3, <1>4, <1>5 DEF Kind

\* And what is allowed keeps resolved_at right.
LEMMA ChangedIsDated ==
    ASSUME NEW kind \in Kind, NEW old \in Row, NEW new \in Changed(kind, old),
           Allowed(kind, old), Dated(old)
    PROVE  Dated(new)
<1>1. old # NoRow /\ old.resolved_at \in BOOLEAN /\ (old.resolved_at <=> old.status = "resolved")
  BY RowsExist DEF Dated
<1>2. ASSUME kind \in {"acknowledge", "suppress", "unsuppress"} PROVE ~old.resolved_at
  <2>1. old.status # "resolved"
    BY <1>2 DEF Allowed
  <2> QED
    BY <1>1, <2>1
<1>3. CASE kind = "acknowledge"
  <2>1. new.status = "acknowledged" /\ new.resolved_at = old.resolved_at
    BY <1>3 DEF Changed, Row
  <2> QED
    BY <1>2, <1>3, <2>1 DEF Dated
<1>4. CASE kind = "reopen"
  <2>1. new.status = "open" /\ new.resolved_at = FALSE
    BY <1>4 DEF Changed, Row
  <2> QED
    BY <2>1 DEF Dated
<1>5. CASE kind = "suppress"
  <2>1. PICK u \in {"none", "future"} :
           new = [old EXCEPT !.status = "suppressed", !.suppressed_until = u]
    BY <1>5 DEF Changed
  <2>2. new.status = "suppressed" /\ new.resolved_at = old.resolved_at
    BY <2>1 DEF Row
  <2> QED
    BY <1>2, <1>5, <2>2 DEF Dated
<1>6. CASE kind = "unsuppress"
  <2>1. new.status = "open" /\ new.resolved_at = old.resolved_at
    BY <1>6 DEF Changed, Row
  <2> QED
    BY <1>2, <1>6, <2>1 DEF Dated
<1>7. CASE kind = "assign"
  BY <1>7 DEF Changed
<1> QED
  BY <1>3, <1>4, <1>5, <1>6, <1>7 DEF Kind

\* What the evaluator's transaction sees.
LEMMA Views ==
    ASSUME TypeOK, NEW e \in Evaluator, NEW f \in Finding
    PROVE  /\ View(e, f) \in Row \cup {NoRow} /\ TrailOf(e, f) \in Trail /\ EventOf(e, f) \in Event
           /\ row[f] \in Row \cup {NoRow} /\ loaded[e][f] \in Row \cup {NoRow}
           /\ Touched(e, f) => flushed[e][f] \in Write /\ View(e, f) \in Row
           /\ candidate[e][f] \in {0} \cup Severity
<1>1. flushed[e][f] \in Write \cup {Untouched} /\ row[f] \in Row \cup {NoRow}
      /\ trail[f] \in Trail /\ event[f] \in Event /\ loaded[e][f] \in Row \cup {NoRow}
      /\ candidate[e][f] \in {0} \cup Severity
  BY DEF TypeOK
<1> QED
  BY <1>1, RowsExist DEF View, TrailOf, EventOf, Touched
-----------------------------------------------------------------------------
(* The steps.                                                               *)

\* A row that changes without the evaluator: nobody has flushed it, and it is
\* neither created, resolved nor rated.
Evolves(f) ==
    /\ \A e \in Evaluator : ~Touched(e, f)
    /\ row[f] # NoRow /\ row'[f] \in Row
    /\ row'[f].severity = row[f].severity /\ row'[f].occurrence_count = row[f].occurrence_count
    /\ row'[f].status = "resolved" => row[f].status = "resolved"

Others ==
    \/ \E f \in Finding : Expire(f) \/ \E value \in {0} \cup Severity : Signal(f, value)
    \/ \E s \in Source : Availability(s)
    \/ \E a \in Admin : Finish(a) \/ \E f \in Finding, kind \in Kind : Begin(a, f, kind)

\* A suppression that runs out changes one column.
LEMMA ExpireOf ==
    ASSUME IInv, NEW f \in Finding, Expire(f)
    PROVE  /\ UNCHANGED <<trail, event, lock, session, request, bounds>>
           /\ row' \in [Finding -> Row \cup {NoRow}]
           /\ \A g \in Finding : g # f => row'[g] = row[g]
           /\ Evolves(f)
           /\ row'[f].status = row[f].status /\ (row'[f].resolved_at <=> row[f].resolved_at)
<1> DEFINE new == [row[f] EXCEPT !.suppressed_until = "past"]
<1>1. row[f] \in Row /\ row[f] # NoRow /\ \A e \in Evaluator : ~Touched(e, f)
  BY DEF Expire, IInv, TypeOK
<1>2. new \in Row /\ new.status = row[f].status /\ (new.resolved_at <=> row[f].resolved_at)
      /\ new.severity = row[f].severity /\ new.occurrence_count = row[f].occurrence_count
  BY <1>1 DEF Row, Until
<1>3. row' = [row EXCEPT ![f] = new]
  BY DEF Expire
<1> HIDE DEF new
<1>4. row'[f] = new /\ \A g \in Finding : g # f => row'[g] = row[g]
  BY <1>3 DEF IInv, TypeOK
<1>5. row' \in [Finding -> Row \cup {NoRow}]
  BY <1>2, <1>3 DEF IInv, TypeOK
<1> QED
  BY <1>1, <1>2, <1>4, <1>5 DEF Evolves, Expire

\* A request that is committed changes the columns that it changed in memory.
LEMMA FinishOf ==
    ASSUME IInv, NEW a \in Admin, Finish(a)
    PROVE  /\ UNCHANGED <<event, lock, session, bounds>>
           /\ request' = [request EXCEPT ![a] = Idle]
           /\ row' \in [Finding -> Row \cup {NoRow}] /\ trail' \in [Finding -> Trail]
           /\ \A f \in Finding : /\ (row'[f] = row[f] /\ trail'[f] = trail[f]) \/ Evolves(f)
                                 /\ Agrees(row'[f], trail'[f])
                                 /\ trail[f].raced => trail'[f].raced
<1> DEFINE r == request[a]
<1>1. r \in [kind : Kind, finding : Finding, loaded : Row] /\ row[r.finding] # NoRow
  BY DEF Finish, IInv, TypeOK, LoadedIsThere
<1>2. r.kind \in Kind /\ r.finding \in Finding /\ r.loaded \in Row /\ row[r.finding] \in Row
  BY <1>1 DEF IInv, TypeOK
<1>3. PICK new \in Changed(r.kind, r.loaded), fresh \in SUBSET {"suppressed_until"} :
         /\ row' = [row EXCEPT ![r.finding] = Update(row[r.finding], r.loaded, new, fresh)]
         /\ trail' = [trail EXCEPT ![r.finding] = Record(trail[r.finding], r.loaded.status,
                                                         new.status, row[r.finding].status)]
  <2>1. PICK new \in Changed(r.kind, r.loaded) :
           /\ row' = [row EXCEPT ![r.finding] =
                 Update(@, r.loaded, new,
                        IF new.suppressed_until = "future" /\ r.kind = "suppress"
                        THEN {"suppressed_until"} ELSE {})]
           /\ trail' = [trail EXCEPT ![r.finding] = Record(@, r.loaded.status, new.status,
                                                           row[r.finding].status)]
    BY DEF Finish
  <2>2. (IF new.suppressed_until = "future" /\ r.kind = "suppress"
         THEN {"suppressed_until"} ELSE {}) \in SUBSET {"suppressed_until"}
    OBVIOUS
  <2> QED
    BY <2>1, <2>2
<1>4. /\ new \in Row /\ new.severity = r.loaded.severity
      /\ new.occurrence_count = r.loaded.occurrence_count
      /\ new.status = "resolved" => new.status = r.loaded.status
  BY <1>2, <1>3, ChangedOf
<1> DEFINE u == Update(row[r.finding], r.loaded, new, fresh)
<1>5. u \in Row
  BY <1>2, <1>4, UpdateIsRow
<1>6. /\ u.severity = row[r.finding].severity
      /\ u.occurrence_count = row[r.finding].occurrence_count
      /\ u.status = "resolved" => row[r.finding].status = "resolved"
  BY <1>2, <1>3, <1>4, UpdateOf
<1> DEFINE t == trail[r.finding]
           told == Record(t, r.loaded.status, new.status, row[r.finding].status)
<1>7. /\ told \in Trail /\ told.last = new.status /\ (t.raced => told.raced)
      /\ ~told.raced => /\ ~t.raced /\ row[r.finding].status = r.loaded.status
                        /\ t.sound /\ t.last = r.loaded.status => told.sound
  <2>1. /\ new.status \in Status /\ r.loaded.status \in Status /\ row[r.finding].status \in Status
        /\ t \in Trail
    BY <1>2, <1>4, RowsExist DEF IInv, TypeOK
  <2> QED
    BY <2>1, RecordOf
<1>8. UNCHANGED <<event, lock, session, bounds>> /\ request' = [request EXCEPT ![a] = Idle]
      /\ \A e \in Evaluator : ~Touched(e, r.finding)
  BY DEF Finish
<1>9. Agrees(u, told)
  <2>1. SUFFICES ASSUME ~told.raced PROVE told.sound /\ told.last = u.status /\ Dated(u)
    BY DEF Agrees
  <2>2. ~t.raced /\ row[r.finding].status = r.loaded.status
    BY <1>7, <2>1
  <2>3. /\ Allowed(r.kind, r.loaded) /\ Dated(r.loaded)
        /\ t.sound /\ t.last = row[r.finding].status /\ Dated(row[r.finding])
    BY <1>1, <1>2, <2>2 DEF IInv, ChainsAgree, Asked, Agrees, Finish
  <2>4. Dated(new)
    BY <1>2, <1>3, <2>3, ChangedIsDated
  <2>5. /\ u.status = IF new.status # r.loaded.status THEN new.status ELSE row[r.finding].status
        /\ u.resolved_at = IF new.resolved_at # r.loaded.resolved_at
                           THEN new.resolved_at ELSE row[r.finding].resolved_at
    BY <1>2, <1>3, <1>4, UpdateOf
  <2>6. u.status = new.status
    BY <2>2, <2>5
  <2>7. /\ r.loaded.resolved_at \in BOOLEAN /\ new.resolved_at \in BOOLEAN
        /\ row[r.finding].resolved_at \in BOOLEAN
        /\ r.loaded # NoRow /\ row[r.finding] # NoRow /\ new # NoRow /\ u # NoRow
    BY <1>2, <1>4, <1>5, RowsExist
  <2>8. r.loaded.resolved_at <=> row[r.finding].resolved_at
    BY <2>2, <2>3, <2>7 DEF Dated
  <2>9. u.resolved_at = new.resolved_at
    BY <2>5, <2>7, <2>8
  <2> QED
    BY <1>7, <2>1, <2>2, <2>3, <2>4, <2>6, <2>7, <2>9 DEF Dated
<1>10. row' = [row EXCEPT ![r.finding] = u] /\ trail' = [trail EXCEPT ![r.finding] = told]
  BY <1>3
<1> HIDE DEF u, told
<1>11. row'[r.finding] = u /\ \A f \in Finding : f # r.finding => row'[f] = row[f]
  BY <1>2, <1>10 DEF IInv, TypeOK
<1>12. trail'[r.finding] = told /\ \A f \in Finding : f # r.finding => trail'[f] = trail[f]
  BY <1>2, <1>10 DEF IInv, TypeOK
<1>13. row' \in [Finding -> Row \cup {NoRow}] /\ trail' \in [Finding -> Trail]
  BY <1>5, <1>7, <1>10 DEF IInv, TypeOK
<1>14. Evolves(r.finding)
  BY <1>1, <1>5, <1>6, <1>8, <1>11 DEF Evolves
<1>15. ASSUME NEW f \in Finding
       PROVE  /\ (row'[f] = row[f] /\ trail'[f] = trail[f]) \/ Evolves(f)
              /\ Agrees(row'[f], trail'[f]) /\ (trail[f].raced => trail'[f].raced)
  <2>1. CASE f = r.finding
    BY <1>7, <1>9, <1>11, <1>12, <1>14, <2>1
  <2>2. CASE f # r.finding
    <3>1. Agrees(row[f], trail[f])
      BY DEF IInv, ChainsAgree
    <3> QED
      BY <1>11, <1>12, <2>2, <3>1
  <2> QED
    BY <2>1, <2>2
<1> QED
  BY <1>8, <1>13, <1>15

\* What all steps outside the evaluators have in common.
Outside ==
    /\ UNCHANGED <<event, lock, session>>
    /\ \A f \in Finding : /\ (row'[f] = row[f] /\ trail'[f] = trail[f]) \/ Evolves(f)
                          /\ Agrees(row'[f], trail'[f])
                          /\ trail[f].raced => trail'[f].raced
    /\ \A a \in Admin : Asked(a)'
    /\ TypeOK'

LEMMA OthersOf == ASSUME IInv, Others PROVE Outside
<1> USE DEF IInv
<1>1. ASSUME UNCHANGED trail \/ \E a \in Admin : Finish(a),
             \A f \in Finding : trail[f].raced => trail'[f].raced,
             NEW a \in Admin, request'[a] = request[a] \/ request'[a] = Idle
      PROVE  Asked(a)'
  <2>1. Asked(a) /\ (request[a] # Idle => request[a].finding \in Finding)
    BY DEF ChainsAgree, TypeOK
  <2> QED
    BY <1>1, <2>1 DEF Asked
<1>2. ASSUME UNCHANGED <<row, trail, event, lock, session, request>>, TypeOK' PROVE Outside
  <2>1. \A a \in Admin : Asked(a)'
    BY <1>1, <1>2
  <2>2. \A f \in Finding : Agrees(row'[f], trail'[f])
    BY <1>2 DEF ChainsAgree
  <2> QED
    BY <1>2, <2>1, <2>2 DEF Outside
<1>3. ASSUME NEW f \in Finding, Expire(f) PROVE Outside
  <2>1. UNCHANGED <<signal, available>> /\ UNCHANGED <<trail, event, lock, session, request, bounds>>
        /\ row' \in [Finding -> Row \cup {NoRow}]
    BY <1>3, ExpireOf DEF Expire
  <2>2. TypeOK'
    BY <2>1 DEF TypeOK, session, bounds
  <2>3. ASSUME NEW g \in Finding
        PROVE  /\ (row'[g] = row[g] /\ trail'[g] = trail[g]) \/ Evolves(g)
               /\ Agrees(row'[g], trail'[g])
    <3>1. Agrees(row[g], trail[g]) /\ trail'[g] = trail[g]
      BY <2>1 DEF ChainsAgree
    <3>2. CASE g = f
      <4>1. Evolves(g) /\ row[g] # NoRow /\ row'[g].status = row[g].status
            /\ (row'[g].resolved_at <=> row[g].resolved_at)
        BY <1>3, <3>2, ExpireOf DEF Evolves
      <4> QED
        BY <3>1, <4>1 DEF Agrees, Dated
    <3>3. CASE g # f
      BY <1>3, <3>1, <3>3, ExpireOf
    <3> QED
      BY <3>2, <3>3
  <2>4. \A a \in Admin : Asked(a)'
    BY <1>1, <2>1
  <2> QED
    BY <2>1, <2>2, <2>3, <2>4 DEF Outside
<1>4. ASSUME NEW f \in Finding, NEW value \in {0} \cup Severity, Signal(f, value) PROVE Outside
  <2>1. UNCHANGED <<row, trail, event, lock, session, request, actions>>
    BY <1>4 DEF Signal
  <2>2. TypeOK'
    BY <1>4, <2>1, ConstantsAssumption DEF Signal, TypeOK, session
  <2> QED
    BY <1>2, <2>1, <2>2
<1>5. ASSUME NEW s \in Source, Availability(s) PROVE Outside
  <2>1. UNCHANGED <<row, trail, event, lock, session, request, actions>>
    BY <1>5 DEF Availability
  <2>2. TypeOK'
    BY <1>5, <2>1, ConstantsAssumption DEF Availability, TypeOK, session
  <2> QED
    BY <1>2, <2>1, <2>2
<1>6. ASSUME NEW a \in Admin, Finish(a) PROVE Outside
  <2>1. /\ UNCHANGED <<event, lock, session, bounds>>
        /\ request' = [request EXCEPT ![a] = Idle]
        /\ row' \in [Finding -> Row \cup {NoRow}] /\ trail' \in [Finding -> Trail]
        /\ \A f \in Finding : /\ (row'[f] = row[f] /\ trail'[f] = trail[f]) \/ Evolves(f)
                              /\ Agrees(row'[f], trail'[f])
                              /\ trail[f].raced => trail'[f].raced
    BY <1>6, FinishOf
  <2>2. UNCHANGED <<signal, available>>
    BY <1>6 DEF Finish
  <2>3. TypeOK'
    BY <2>1, <2>2 DEF TypeOK, session, bounds
  <2>4. \A b \in Admin : request'[b] = request[b] \/ request'[b] = Idle
    BY <2>1 DEF TypeOK
  <2>5. \A b \in Admin : Asked(b)'
    BY <1>1, <1>6, <2>1, <2>4
  <2> QED
    BY <2>1, <2>3, <2>5 DEF Outside
<1>7. ASSUME NEW a \in Admin, NEW f \in Finding, NEW kind \in Kind, Begin(a, f, kind) PROVE Outside
  <2>1. UNCHANGED <<row, trail, event, lock, session>> /\ actions' = actions + 1
    BY <1>7 DEF Begin
  <2>2. row[f] \in Row /\ Allowed(kind, row[f])
    BY <1>7 DEF Begin, TypeOK
  <2>3. request' = [request EXCEPT ![a] = [kind |-> kind, finding |-> f, loaded |-> row[f]]]
    BY <1>7 DEF Begin
  <2>4. request' \in [Admin -> [kind : Kind, finding : Finding, loaded : Row] \cup {Idle}]
    BY <2>2, <2>3 DEF TypeOK
  <2>5. TypeOK'
    BY <1>7, <2>1, <2>4, ConstantsAssumption DEF Begin, TypeOK, session
  <2>6. ASSUME NEW b \in Admin PROVE Asked(b)'
    <3>1. CASE b = a
      <4>1. request'[b] = [kind |-> kind, finding |-> f, loaded |-> row[f]]
        BY <2>3, <3>1 DEF TypeOK
      <4>2. ~trail[f].raced => Dated(row[f])
        BY DEF ChainsAgree, Agrees
      <4> QED
        BY <2>1, <2>2, <4>1, <4>2 DEF Asked
    <3>2. CASE b # a
      <4>1. request'[b] = request[b]
        BY <2>3, <3>2 DEF TypeOK
      <4> QED
        BY <1>1, <2>1, <4>1
    <3> QED
      BY <3>1, <3>2
  <2>7. \A g \in Finding : Agrees(row'[g], trail'[g])
    BY <2>1 DEF ChainsAgree
  <2> QED
    BY <2>1, <2>5, <2>6, <2>7 DEF Outside
<1> QED
  BY <1>3, <1>4, <1>5, <1>6, <1>7 DEF Others
\* What a flush writes: w, for a finding that the transaction had not touched.
Writes(e, f, w) ==
    /\ ~Touched(e, f) /\ w \in Write
    /\ flushed' = [flushed EXCEPT ![e][f] = w]
    /\ Announces(row[f], w)
    /\ w.event # event[f] => w.row # row[f]
    /\ w.row.status = "resolved" => SourceOf[f] \in complete[e] /\ candidate[e][f] = 0
    /\ Agrees(w.row, w.trail) /\ (trail[f].raced => w.trail.raced)

\* A candidate that is flushed.
LEMMA FlushOf ==
    ASSUME IInv, NEW e \in Evaluator, NEW f \in Finding, Flush(e, f)
    PROVE  /\ UNCHANGED <<signal, available, row, trail, event, lock, candidate, complete,
                          loaded, request, bounds>>
           /\ todo' = [todo EXCEPT ![e] = @ \ {f}]
           /\ current' = [current EXCEPT ![e] = Nobody]
           /\ pc[e] = "flush" /\ pc' = [pc EXCEPT ![e] = "candidates"] /\ lock = e
           /\ candidate[e][f] # 0 /\ \E w : Writes(e, f, w)
<1> USE DEF IInv
<1> DEFINE old == loaded[e][f]
           severity == candidate[e][f]
           new == IF old = NoRow THEN Opened(severity) ELSE Refreshed(old, severity)
           changed == old = NoRow \/ old.status # new.status
           fires == CASE old = NoRow -> "opened"
                      [] old # NoRow /\ Escalates(old, severity) -> "severity_increased"
                      [] old # NoRow /\ ~Escalates(old, severity) /\ Recurs(old) -> "reopened"
                      [] OTHER -> EventOf(e, f)
           w == [row |-> IF old = NoRow THEN new ELSE Update(View(e, f), old, new, {}),
                 trail |-> IF changed THEN Record(TrailOf(e, f), old.status, new.status,
                                                  View(e, f).status)
                           ELSE TrailOf(e, f),
                 event |-> fires]
<1>1. /\ UNCHANGED <<signal, available, row, trail, event, lock, candidate, complete,
                     loaded, request, bounds>>
      /\ todo' = [todo EXCEPT ![e] = @ \ {f}]
      /\ current' = [current EXCEPT ![e] = Nobody]
      /\ pc[e] = "flush" /\ pc' = [pc EXCEPT ![e] = "candidates"] /\ current[e] = f
      /\ flushed' = [flushed EXCEPT ![e][f] = w]
  BY DEF Flush
<1>2. lock = e
  BY <1>1 DEF WorkIsLocked
<1>3. ~Touched(e, f) /\ candidate[e][f] # 0
  BY <1>1 DEF HandledOnce, Handled, TypeOK
<1>4. View(e, f) = row[f] /\ TrailOf(e, f) = trail[f] /\ EventOf(e, f) = event[f]
  BY <1>3 DEF View, TrailOf, EventOf
<1>5. /\ old \in Row \cup {NoRow} /\ row[f] \in Row \cup {NoRow} /\ severity \in Severity
      /\ trail[f] \in Trail /\ event[f] \in Event
  BY <1>3, <1>4, Views
<1>6. Unrated(old, row[f])
  BY <1>1 DEF LoadedIsNear
<1>7. new \in Row /\ new.status # "resolved"
  BY <1>5, OpenedOf, RefreshedOf
<1>8. w.row = (IF old = NoRow THEN new ELSE Update(row[f], old, new, {}))
      /\ w.trail = (IF changed THEN Record(trail[f], old.status, new.status, row[f].status)
                    ELSE trail[f])
      /\ w.event = fires
  BY <1>4
<1>9. CASE old = NoRow
  <2>1. row[f] = NoRow /\ w.row = new /\ w.event = "opened"
        /\ w.trail = Record(trail[f], "absent", "open", "absent") /\ new.status = "open"
        /\ (new.resolved_at <=> FALSE)
    BY <1>5, <1>6, <1>8, <1>9, RowsExist, OpenedOf DEF Unrated
  <2>2. /\ w.trail \in Trail /\ w.trail.last = "open" /\ (trail[f].raced => w.trail.raced)
        /\ ~w.trail.raced => /\ ~trail[f].raced
                             /\ trail[f].sound /\ trail[f].last = "absent" => w.trail.sound
    BY <2>1, <1>5, RecordOf DEF Status
  <2>3. w \in Write
    BY <2>1, <2>2, <1>7 DEF Write, Event
  <2>4. w.row # row[f]
    BY <2>1, <1>7, RowsExist
  <2>5. Agrees(w.row, w.trail)
    <3>1. ~trail[f].raced => trail[f].sound /\ trail[f].last = "absent"
      BY <2>1, RowsExist DEF ChainsAgree, Agrees
    <3> QED
      BY <2>1, <2>2, <3>1 DEF Agrees, Dated
  <2> HIDE DEF w, new
  <2>6. Announces(row[f], w)
    BY <2>1, <1>7 DEF Announces
  <2>7. Writes(e, f, w)
    BY <1>1, <1>3, <1>7, <2>1, <2>2, <2>3, <2>4, <2>5, <2>6 DEF Writes
  <2> QED
    BY <1>1, <1>2, <1>3, <2>7
<1>10. CASE old # NoRow
  <2>1. /\ old \in Row /\ row[f] \in Row /\ row[f] # NoRow
        /\ row[f].severity = old.severity /\ row[f].occurrence_count = old.occurrence_count
        /\ row[f].status = "resolved" => old.status = "resolved"
        /\ new = Refreshed(old, severity)
    BY <1>5, <1>6, <1>10 DEF Unrated
  <2>2. /\ new.severity = severity /\ (old.status = "resolved" => new.status = "open")
        /\ new.occurrence_count = old.occurrence_count + IF Recurs(old) THEN 1 ELSE 0
        /\ new.resolved_at <=> old.resolved_at /\ ~Recurs(old)
    BY <1>5, <2>1, RefreshedOf
  <2> DEFINE u == Update(row[f], old, new, {})
  <2>3. u \in Row /\ w.row = u
    BY <1>7, <1>8, <1>10, <2>1, UpdateIsRow
  <2>4. /\ u.status = IF new.status # old.status THEN new.status ELSE row[f].status
        /\ u.severity = IF new.severity # old.severity THEN new.severity ELSE row[f].severity
        /\ u.occurrence_count = IF new.occurrence_count # old.occurrence_count
                                THEN new.occurrence_count ELSE row[f].occurrence_count
        /\ u.resolved_at = IF new.resolved_at # old.resolved_at
                           THEN new.resolved_at ELSE row[f].resolved_at
    BY <1>7, <2>1, UpdateOf
  <2>5. /\ old.status \in Status /\ new.status \in Status
        /\ old.severity \in Nat /\ severity \in Nat /\ old.occurrence_count \in Nat
        /\ old.resolved_at \in BOOLEAN /\ new.resolved_at \in BOOLEAN
        /\ row[f].resolved_at \in BOOLEAN /\ u.resolved_at \in BOOLEAN
    BY <1>5, <1>7, <2>1, <2>3, RowsExist DEF Severity
  <2>6. w.trail = IF old.status # new.status
                  THEN Record(trail[f], old.status, new.status, row[f].status) ELSE trail[f]
    BY <1>8, <1>10
  <2>7. /\ w.trail \in Trail /\ (trail[f].raced => w.trail.raced)
        /\ old.status # new.status =>
              /\ w.trail.last = new.status
              /\ ~w.trail.raced => /\ ~trail[f].raced /\ row[f].status = old.status
                                   /\ trail[f].sound /\ trail[f].last = old.status => w.trail.sound
    <3>1. row[f].status \in Status
      BY <2>1, RowsExist
    <3>2. CASE old.status = new.status
      BY <1>5, <2>6, <3>2
    <3>3. CASE old.status # new.status
      <4>1. w.trail = Record(trail[f], old.status, new.status, row[f].status)
        BY <2>6, <3>3
      <4> HIDE DEF w, new, old
      <4> DEFINE told == Record(trail[f], old.status, new.status, row[f].status)
      <4>2. /\ told \in Trail /\ told.last = new.status /\ (trail[f].raced => told.raced)
            /\ ~told.raced => /\ ~trail[f].raced /\ row[f].status = old.status
                              /\ trail[f].sound /\ trail[f].last = old.status => told.sound
        BY <1>5, <2>5, <3>1, RecordOf
      <4>3. w.trail = told
        BY <4>1
      <4> HIDE DEF told
      <4> QED
        BY <4>2, <4>3
    <3> QED
      BY <3>2, <3>3
  <2>8. /\ Escalates(old, severity) => w.event = "severity_increased"
        /\ ~Escalates(old, severity) /\ Recurs(old) => w.event = "reopened"
        /\ ~Escalates(old, severity) /\ ~Recurs(old) => w.event = event[f]
    BY <1>4, <1>8, <1>10
  <2>9. w \in Write
    <3>1. fires \in Event
      BY <1>4, <1>5 DEF Event
    <3>2. w.row \in Row /\ w.trail \in Trail
      BY <2>3, <2>7
    <3> QED
      BY <3>1, <3>2 DEF Write
  <2> HIDE DEF w, new, u, old, severity
  <2>10. u.status # "resolved"
    BY <1>7, <2>1, <2>2, <2>4
  <2>11. Announces(row[f], w)
    BY <2>1, <2>3, <2>8, <2>10 DEF Announces, Recurs
  <2>12. w.event # event[f] => w.row # row[f]
    <3>1. CASE Escalates(old, severity)
      BY <2>1, <2>2, <2>3, <2>4, <2>5, <3>1 DEF Escalates
    <3>2. CASE ~Escalates(old, severity) /\ Recurs(old)
      BY <2>1, <2>2, <2>3, <2>4, <2>5, <3>2
    <3> QED
      BY <2>8, <3>1, <3>2
  <2>13. Agrees(w.row, w.trail)
    <3>1. /\ Agrees(row[f], trail[f])
          /\ ~trail[f].raced => (old.resolved_at <=> old.status = "resolved")
      BY <1>1, <1>10 DEF ChainsAgree, Dated, old
    <3>2. CASE old.status = new.status
      <4>1. w.trail = trail[f] /\ u.status = row[f].status
        BY <2>4, <2>6, <3>2
      <4>2. u.resolved_at = row[f].resolved_at
        <5>1. old.status # "resolved"
          BY <1>7, <3>2
        <5>2. new.resolved_at = old.resolved_at
          BY <2>2, <2>5, <5>1 DEF Recurs
        <5> QED
          BY <2>4, <5>2
      <4> QED
        BY <2>1, <2>3, <3>1, <4>1, <4>2 DEF Agrees, Dated
    <3>3. CASE old.status # new.status
      <4>1. SUFFICES ASSUME ~w.trail.raced
                     PROVE  w.trail.sound /\ w.trail.last = u.status /\ ~u.resolved_at
        BY <2>3, <2>10 DEF Agrees, Dated
      <4>2. /\ ~trail[f].raced /\ row[f].status = old.status
            /\ w.trail.last = new.status /\ u.status = new.status
        BY <2>4, <2>7, <3>3, <4>1
      <4>3. /\ trail[f].sound /\ trail[f].last = old.status
            /\ (row[f].resolved_at <=> old.status = "resolved")
            /\ (old.resolved_at <=> old.status = "resolved")
        BY <2>1, <3>1, <4>2 DEF Agrees, Dated
      <4>4. ~u.resolved_at
        BY <2>2, <2>4, <2>5, <4>3 DEF Recurs
      <4> QED
        BY <2>7, <3>3, <4>1, <4>2, <4>3, <4>4
    <3> QED
      BY <3>2, <3>3
  <2>14. Writes(e, f, w)
    BY <1>1, <1>3, <2>3, <2>7, <2>9, <2>10, <2>11, <2>12, <2>13 DEF Writes
  <2> QED
    BY <1>1, <1>2, <1>3, <2>14
<1> QED
  BY <1>9, <1>10

\* An existing finding that is settled: one write, or none.
LEMMA SettleOf ==
    ASSUME IInv, NEW e \in Evaluator, NEW f \in Finding, Settle(e, f)
    PROVE  /\ UNCHANGED <<signal, available, row, trail, event, lock, pc, candidate, complete,
                          current, loaded, request, bounds>>
           /\ todo' = [todo EXCEPT ![e] = @ \ {f}]
           /\ pc[e] = "resolve" /\ lock = e
           /\ flushed' = flushed \/ \E w : Writes(e, f, w)
<1> USE DEF IInv
<1> DEFINE old == loaded[e][f]
           gone == [old EXCEPT !.status = "resolved", !.resolved_at = TRUE, !.stale = FALSE]
           kept == [old EXCEPT !.stale = TRUE]
           absent == SourceOf[f] \in complete[e] /\ candidate[e][f] = 0
           w1 == [row |-> Update(View(e, f), old, gone, {"resolved_at"}),
                  trail |-> Record(TrailOf(e, f), old.status, "resolved", View(e, f).status),
                  event |-> "resolved"]
           w2 == [row |-> Update(View(e, f), old, kept, {}),
                  trail |-> TrailOf(e, f), event |-> EventOf(e, f)]
<1>1. /\ UNCHANGED <<signal, available, row, trail, event, lock, pc, candidate, complete,
                     current, loaded, request, bounds>>
      /\ todo' = [todo EXCEPT ![e] = @ \ {f}]
      /\ pc[e] = "resolve" /\ f \in todo[e]
      /\ flushed' = IF absent THEN [flushed EXCEPT ![e][f] = w1]
                    ELSE IF SourceOf[f] \notin complete[e] /\ ~old.stale
                         THEN [flushed EXCEPT ![e][f] = w2] ELSE flushed
  BY DEF Settle
<1>2. lock = e
  BY <1>1 DEF WorkIsLocked
<1>3. /\ old # NoRow /\ old.status # "resolved" /\ View(e, f).status # "resolved"
      /\ View(e, f) # NoRow /\ (Touched(e, f) => candidate[e][f] # 0)
  BY <1>1 DEF HandledOnce, Handled, LoadedIsThere
<1>4. CASE Touched(e, f)
  <2>1. candidate[e][f] # 0 /\ SourceOf[f] \in complete[e]
    BY <1>3, <1>4 DEF CandidatesAreComplete
  <2> QED
    BY <1>1, <1>2, <2>1
<1>5. CASE ~Touched(e, f)
  <2>1. View(e, f) = row[f] /\ TrailOf(e, f) = trail[f] /\ EventOf(e, f) = event[f]
    BY <1>5 DEF View, TrailOf, EventOf
  <2>2. old \in Row /\ row[f] \in Row /\ trail[f] \in Trail /\ event[f] \in Event
        /\ old.status \in Status /\ row[f].status \in Status
    BY <1>3, <2>1, Views, RowsExist
  <2>3. /\ gone \in Row /\ gone.status = "resolved" /\ (gone.resolved_at <=> TRUE)
        /\ kept \in Row /\ kept.status = old.status /\ (kept.resolved_at <=> old.resolved_at)
    BY <2>2, SettledOf
  <2>4. Agrees(row[f], trail[f])
    BY DEF ChainsAgree
  <2>5. CASE absent
    <3> DEFINE u == Update(row[f], old, gone, {"resolved_at"})
    <3>1. u \in Row
      BY <2>2, <2>3, UpdateIsRow
    <3> HIDE DEF gone, kept, w1, w2
    <3>2. u.status = "resolved" /\ (u.resolved_at <=> TRUE)
      BY <1>3, <2>2, <2>3, UpdateOf
    <3> DEFINE told == Record(trail[f], old.status, "resolved", row[f].status)
    <3>3. w1 = [row |-> u, trail |-> told, event |-> "resolved"]
      BY <2>1 DEF w1
    <3>4. /\ told \in Trail /\ told.last = "resolved" /\ (trail[f].raced => told.raced)
          /\ ~told.raced => /\ ~trail[f].raced /\ row[f].status = old.status
                            /\ trail[f].sound /\ trail[f].last = old.status => told.sound
      BY <2>2, RecordOf DEF Status
    <3> HIDE DEF u, told
    <3>5. w1 \in Write /\ w1.row = u /\ w1.event = "resolved" /\ w1.trail = told
      BY <3>1, <3>3, <3>4 DEF Write, Event
    <3>6. Agrees(w1.row, w1.trail) /\ (trail[f].raced => w1.trail.raced)
      <4>1. ~told.raced => told.sound
        BY <2>4, <3>4 DEF Agrees
      <4> QED
        BY <3>2, <3>4, <3>5, <4>1 DEF Agrees, Dated
    <3>7. w1.row # row[f] /\ Announces(row[f], w1)
      BY <1>3, <2>1, <3>2, <3>5 DEF Announces
    <3>8. flushed' = [flushed EXCEPT ![e][f] = w1]
      BY <1>1, <2>5 DEF w1
    <3>9. Writes(e, f, w1)
      BY <1>5, <2>5, <3>5, <3>6, <3>7, <3>8 DEF Writes
    <3> QED
      BY <1>1, <1>2, <3>9
  <2>6. CASE ~absent /\ SourceOf[f] \notin complete[e] /\ ~old.stale
    <3> DEFINE u == Update(row[f], old, kept, {})
    <3>1. u \in Row
      BY <2>2, <2>3, UpdateIsRow
    <3> HIDE DEF gone, kept, w1, w2
    <3>2. u.status = row[f].status /\ u.resolved_at = IF kept.resolved_at # old.resolved_at
                                                   THEN kept.resolved_at ELSE row[f].resolved_at
      BY <2>2, <2>3, UpdateOf
    <3>3. u.resolved_at <=> row[f].resolved_at
      <4>1. kept.resolved_at \in BOOLEAN /\ old.resolved_at \in BOOLEAN
        BY <2>2, <2>3, RowsExist
      <4> QED
        BY <2>3, <3>2, <4>1
    <3>4. w2 = [row |-> u, trail |-> trail[f], event |-> event[f]]
      BY <2>1 DEF w2
    <3> HIDE DEF u
    <3>5. w2 \in Write /\ w2.row = u /\ w2.event = event[f] /\ w2.trail = trail[f]
      BY <2>2, <3>1, <3>4 DEF Write
    <3>6. Agrees(w2.row, w2.trail) /\ (trail[f].raced => w2.trail.raced)
      BY <1>3, <2>1, <2>4, <3>2, <3>3, <3>5 DEF Agrees, Dated
    <3>7. w2.row.status # "resolved" /\ Announces(row[f], w2)
      BY <1>3, <2>1, <3>2, <3>5 DEF Announces
    <3>8. flushed' = [flushed EXCEPT ![e][f] = w2]
      BY <1>1, <2>6 DEF w2
    <3>9. Writes(e, f, w2)
      BY <1>5, <3>5, <3>6, <3>7, <3>8 DEF Writes
    <3> QED
      BY <1>1, <1>2, <3>9
  <2>7. CASE ~absent /\ ~(SourceOf[f] \notin complete[e] /\ ~old.stale)
    BY <1>1, <1>2, <2>7
  <2> QED
    BY <2>5, <2>6, <2>7
<1> QED
  BY <1>4, <1>5

\* The rest of the transaction stays as it is.
LEMMA WritesOf ==
    ASSUME IInv, NEW e \in Evaluator, NEW f \in Finding, NEW w, Writes(e, f, w)
    PROVE  /\ flushed' \in [Evaluator -> [Finding -> Write \cup {Untouched}]]
           /\ flushed'[e][f] = w /\ Touched(e, f)' /\ w \in Write
           /\ \A g \in Finding : g # f => flushed'[e][g] = flushed[e][g]
           /\ \A d \in Evaluator : d # e => flushed'[d] = flushed[d]
<1>1. /\ flushed' = [flushed EXCEPT ![e][f] = w] /\ w \in Write
      /\ flushed \in [Evaluator -> [Finding -> Write \cup {Untouched}]]
  BY DEF Writes, IInv, TypeOK
<1> HIDE DEF Write
<1>2. flushed'[e] = [flushed[e] EXCEPT ![f] = w]
  BY <1>1
<1>3. \A d \in Evaluator : d # e => flushed'[d] = flushed[d]
  BY <1>1
<1>4. flushed'[e][f] = w /\ \A g \in Finding : g # f => flushed'[e][g] = flushed[e][g]
  BY <1>1, <1>2
<1>5. flushed' \in [Evaluator -> [Finding -> Write \cup {Untouched}]]
  BY <1>1
<1> QED
  BY <1>1, <1>3, <1>4, <1>5, RowsExist DEF Touched
-----------------------------------------------------------------------------
(* The invariant, part by part.                                             *)

\* The steps, one by one.
LEMMA NextCases ==
    ASSUME [Next]_vars
    PROVE  \/ UNCHANGED vars \/ Others
           \/ \E e \in Evaluator :
                 \/ TryLock(e) \/ Collect(e) \/ LoadExisting(e) \/ Commit(e) \/ Unlock(e) \/ Crash(e)
                 \/ \E f \in Finding : Load(e, f) \/ Flush(e, f) \/ Settle(e, f)
BY DEF Next, EvaluatorStep, Others

\* A step of one evaluator changes nothing in the session of another.
LEMMA Elsewhere ==
    ASSUME IInv, NEW e \in Evaluator, EvaluatorStep(e) \/ Crash(e),
           NEW d \in Evaluator, d # e
    PROVE  /\ pc'[d] = pc[d] /\ candidate'[d] = candidate[d] /\ complete'[d] = complete[d]
           /\ todo'[d] = todo[d] /\ current'[d] = current[d]
           /\ loaded'[d] = loaded[d] /\ flushed'[d] = flushed[d]
<1> USE DEF IInv, TypeOK
<1>1. CASE TryLock(e)
  BY <1>1 DEF TryLock
<1>2. CASE Collect(e)
  BY <1>2 DEF Collect
<1>3. CASE LoadExisting(e)
  BY <1>3 DEF LoadExisting
<1>4. CASE Commit(e)
  BY <1>4 DEF Commit, Forget
<1>5. CASE Unlock(e)
  BY <1>5 DEF Unlock
<1>6. CASE Crash(e)
  BY <1>6 DEF Crash, Forget
<1>7. ASSUME NEW f \in Finding, Load(e, f)
      PROVE  /\ pc'[d] = pc[d] /\ candidate'[d] = candidate[d] /\ complete'[d] = complete[d]
             /\ todo'[d] = todo[d] /\ current'[d] = current[d]
             /\ loaded'[d] = loaded[d] /\ flushed'[d] = flushed[d]
  BY <1>7 DEF Load
<1>8. ASSUME NEW f \in Finding, Flush(e, f)
      PROVE  /\ pc'[d] = pc[d] /\ candidate'[d] = candidate[d] /\ complete'[d] = complete[d]
             /\ todo'[d] = todo[d] /\ current'[d] = current[d]
             /\ loaded'[d] = loaded[d] /\ flushed'[d] = flushed[d]
  BY <1>8, FlushOf, WritesOf
<1>9. ASSUME NEW f \in Finding, Settle(e, f)
      PROVE  /\ pc'[d] = pc[d] /\ candidate'[d] = candidate[d] /\ complete'[d] = complete[d]
             /\ todo'[d] = todo[d] /\ current'[d] = current[d]
             /\ loaded'[d] = loaded[d] /\ flushed'[d] = flushed[d]
  <2>1. flushed'[d] = flushed[d]
    <3>1. flushed' = flushed \/ \E w : Writes(e, f, w)
      BY <1>9, SettleOf
    <3>2. ASSUME NEW w, Writes(e, f, w) PROVE flushed'[d] = flushed[d]
      BY <3>2, WritesOf
    <3> QED
      BY <3>1, <3>2
  <2>2. /\ UNCHANGED <<pc, candidate, complete, current, loaded>>
        /\ todo' = [todo EXCEPT ![e] = @ \ {f}]
    BY <1>9, SettleOf
  <2> QED
    BY <2>1, <2>2
<1> QED
  BY <1>1, <1>2, <1>3, <1>4, <1>5, <1>6, <1>7, <1>8, <1>9 DEF EvaluatorStep

\* Who works, works alone.
LEMMA Alone ==
    ASSUME IInv, NEW e \in Evaluator, NEW d \in Evaluator, d # e, pc[e] # "idle"
    PROVE  pc[d] = "idle" /\ \A f \in Finding : ~Touched(d, f)
BY DEF IInv, WorkIsLocked, FlushedIsOpen

\* What a commit makes of the tables, and what it leaves of its session.
LEMMA CommitOf ==
    ASSUME IInv, NEW e \in Evaluator, Commit(e)
    PROVE  /\ pc[e] = "resolve" /\ lock = e /\ pc'[e] = "unlock"
           /\ UNCHANGED <<signal, available, lock, request, bounds>>
           /\ row' \in [Finding -> Row \cup {NoRow}] /\ trail' \in [Finding -> Trail]
           /\ event' \in [Finding -> Event]
           /\ \A f \in Finding :
                 /\ Touched(e, f) => /\ row'[f] = flushed[e][f].row
                                     /\ trail'[f] = flushed[e][f].trail
                                     /\ event'[f] = flushed[e][f].event
                 /\ ~Touched(e, f) => /\ row'[f] = row[f] /\ trail'[f] = trail[f]
                                      /\ event'[f] = event[f]
                 /\ row[f] # NoRow => row'[f] # NoRow
           /\ todo'[e] = {} /\ \A f \in Finding : /\ candidate'[e][f] = 0 /\ ~Touched(e, f)'
                                                  /\ loaded'[e][f] = NoRow
<1> USE DEF IInv
<1>1. /\ pc[e] = "resolve" /\ pc' = [pc EXCEPT ![e] = "unlock"] /\ Forget(e)
      /\ row' = [f \in Finding |-> View(e, f)] /\ trail' = [f \in Finding |-> TrailOf(e, f)]
      /\ event' = [f \in Finding |-> EventOf(e, f)]
      /\ UNCHANGED <<signal, available, lock, request, bounds>>
  BY DEF Commit
<1>2. lock = e /\ pc'[e] = "unlock"
  BY <1>1 DEF WorkIsLocked, TypeOK
<1>3. /\ row' \in [Finding -> Row \cup {NoRow}] /\ trail' \in [Finding -> Trail]
      /\ event' \in [Finding -> Event]
  BY <1>1, Views
<1>4. ASSUME NEW f \in Finding
      PROVE  /\ Touched(e, f) => /\ row'[f] = flushed[e][f].row
                                 /\ trail'[f] = flushed[e][f].trail
                                 /\ event'[f] = flushed[e][f].event
             /\ ~Touched(e, f) => /\ row'[f] = row[f] /\ trail'[f] = trail[f]
                                  /\ event'[f] = event[f]
             /\ row[f] # NoRow => row'[f] # NoRow
  <2>1. row'[f] = View(e, f) /\ trail'[f] = TrailOf(e, f) /\ event'[f] = EventOf(e, f)
    BY <1>1
  <2> QED
    BY <2>1, Views, RowsExist DEF View, TrailOf, EventOf
<1>5. /\ todo'[e] = {} /\ candidate'[e] = [f \in Finding |-> 0]
      /\ loaded'[e] = [f \in Finding |-> NoRow] /\ flushed'[e] = [f \in Finding |-> Untouched]
  BY <1>1 DEF Forget, TypeOK
<1> QED
  BY <1>1, <1>2, <1>3, <1>4, <1>5 DEF Touched

\* What a crash leaves.
LEMMA CrashOf ==
    ASSUME IInv, NEW e \in Evaluator, Crash(e)
    PROVE  /\ pc[e] # "idle" /\ lock = e /\ pc'[e] = "idle" /\ lock' = Nobody
           /\ UNCHANGED <<signal, available, row, trail, event, request, signals, actions>>
           /\ todo'[e] = {} /\ \A f \in Finding : /\ candidate'[e][f] = 0 /\ ~Touched(e, f)'
                                                  /\ loaded'[e][f] = NoRow
<1> USE DEF IInv
<1>1. pc[e] # "idle" /\ lock = e
  BY DEF Crash, WorkIsLocked
<1>2. /\ pc' = [pc EXCEPT ![e] = "idle"] /\ lock' = Nobody /\ Forget(e)
      /\ UNCHANGED <<signal, available, row, trail, event, request, signals, actions>>
  BY <1>1 DEF Crash
<1>3. /\ pc'[e] = "idle" /\ todo'[e] = {} /\ candidate'[e] = [f \in Finding |-> 0]
      /\ loaded'[e] = [f \in Finding |-> NoRow] /\ flushed'[e] = [f \in Finding |-> Untouched]
  BY <1>2 DEF Forget, TypeOK
<1> QED
  BY <1>1, <1>2, <1>3 DEF Touched

\* Every step keeps the types.
LEMMA TypeNext == ASSUME IInv, [Next]_vars PROVE TypeOK'
<1> USE DEF IInv
<1>1. CASE UNCHANGED vars
  BY <1>1 DEF vars, TypeOK
<1>2. CASE Others
  BY <1>2, OthersOf DEF Outside
<1>3. ASSUME NEW e \in Evaluator, TryLock(e) PROVE TypeOK'
  BY <1>3 DEF TryLock, TypeOK, bounds
<1>4. ASSUME NEW e \in Evaluator, Collect(e) PROVE TypeOK'
  <2>1. /\ candidate' \in [Evaluator -> [Finding -> {0} \cup Severity]]
        /\ complete' \in [Evaluator -> SUBSET Source] /\ todo' \in [Evaluator -> SUBSET Finding]
        /\ pc' = [pc EXCEPT ![e] = "candidates"]
    BY <1>4, ConstantsAssumption DEF Collect, TypeOK
  <2> QED
    BY <1>4, <2>1 DEF Collect, TypeOK, bounds
<1>5. ASSUME NEW e \in Evaluator, LoadExisting(e) PROVE TypeOK'
  <2>1. loaded' \in [Evaluator -> [Finding -> Row \cup {NoRow}]]
    BY <1>5, Views DEF LoadExisting, TypeOK
  <2> QED
    BY <1>5, <2>1 DEF LoadExisting, TypeOK, bounds
<1>6. ASSUME NEW e \in Evaluator, Forget(e)
      PROVE  /\ candidate' \in [Evaluator -> [Finding -> {0} \cup Severity]]
             /\ complete' \in [Evaluator -> SUBSET Source] /\ todo' \in [Evaluator -> SUBSET Finding]
             /\ current' \in [Evaluator -> Finding \cup {Nobody}]
             /\ loaded' \in [Evaluator -> [Finding -> Row \cup {NoRow}]]
             /\ flushed' \in [Evaluator -> [Finding -> Write \cup {Untouched}]]
  BY <1>6 DEF Forget, TypeOK
<1>7. ASSUME NEW e \in Evaluator, Commit(e) PROVE TypeOK'
  <2>1. Forget(e) /\ pc' = [pc EXCEPT ![e] = "unlock"]
    BY <1>7 DEF Commit
  <2> QED
    BY <1>6, <1>7, <2>1, CommitOf DEF TypeOK, bounds
<1>8. ASSUME NEW e \in Evaluator, Unlock(e) PROVE TypeOK'
  BY <1>8 DEF Unlock, TypeOK, bounds
<1>9. ASSUME NEW e \in Evaluator, Crash(e) PROVE TypeOK'
  <2>1. Forget(e) /\ pc' = [pc EXCEPT ![e] = "idle"] /\ crashes' \in 0 .. MaxCrashes
    BY <1>9, ConstantsAssumption DEF Crash, TypeOK
  <2> QED
    BY <1>6, <1>9, <2>1, CrashOf DEF TypeOK
<1>10. ASSUME NEW e \in Evaluator, NEW f \in Finding, Load(e, f) PROVE TypeOK'
  <2>1. loaded' \in [Evaluator -> [Finding -> Row \cup {NoRow}]]
    BY <1>10, Views DEF Load, TypeOK
  <2> QED
    BY <1>10, <2>1 DEF Load, TypeOK, bounds
<1>11. ASSUME NEW e \in Evaluator, NEW f \in Finding, Flush(e, f) PROVE TypeOK'
  <2>1. flushed' \in [Evaluator -> [Finding -> Write \cup {Untouched}]]
    BY <1>11, FlushOf, WritesOf DEF TypeOK
  <2>2. /\ todo' = [todo EXCEPT ![e] = @ \ {f}] /\ current' = [current EXCEPT ![e] = Nobody]
        /\ pc' = [pc EXCEPT ![e] = "candidates"]
        /\ UNCHANGED <<signal, available, row, trail, event, lock, candidate, complete,
                       loaded, request, bounds>>
    BY <1>11, FlushOf
  <2> QED
    BY <2>1, <2>2 DEF TypeOK, bounds
<1>12. ASSUME NEW e \in Evaluator, NEW f \in Finding, Settle(e, f) PROVE TypeOK'
  <2>1. flushed' \in [Evaluator -> [Finding -> Write \cup {Untouched}]]
    BY <1>12, SettleOf, WritesOf DEF TypeOK
  <2> QED
    BY <1>12, <2>1, SettleOf DEF TypeOK, bounds
<1> QED
  BY <1>1, <1>2, <1>3, <1>4, <1>5, <1>7, <1>8, <1>9, <1>10, <1>11, <1>12, NextCases

\* The lock.
LEMMA LockNext == ASSUME IInv, [Next]_vars PROVE WorkIsLocked'
<1> USE DEF IInv
<1>1. CASE UNCHANGED vars
  BY <1>1 DEF vars, WorkIsLocked
<1>2. CASE Others
  BY <1>2, OthersOf DEF Outside, session, WorkIsLocked
<1>3. ASSUME NEW e \in Evaluator, TryLock(e) PROVE WorkIsLocked'
  BY <1>3, ConstantsAssumption DEF TryLock, WorkIsLocked, TypeOK
<1>4. ASSUME NEW e \in Evaluator,
             \/ Collect(e) \/ LoadExisting(e) \/ Commit(e)
             \/ \E f \in Finding : Load(e, f) \/ Flush(e, f) \/ Settle(e, f)
      PROVE  WorkIsLocked'
  <2>1. pc[e] # "idle" /\ lock' = lock
    BY <1>4 DEF Collect, LoadExisting, Commit, Load, Flush, Settle
  <2> QED
    BY <1>4, <2>1, Elsewhere DEF WorkIsLocked, EvaluatorStep
<1>5. ASSUME NEW e \in Evaluator, Unlock(e) PROVE WorkIsLocked'
  BY <1>5 DEF Unlock, WorkIsLocked, TypeOK
<1>6. ASSUME NEW e \in Evaluator, Crash(e) PROVE WorkIsLocked'
  BY <1>6, CrashOf, Elsewhere DEF WorkIsLocked
<1> QED
  BY <1>1, <1>2, <1>3, <1>4, <1>5, <1>6, NextCases
\* What is flushed.
LEMMA FlushedNext == ASSUME IInv, [Next]_vars PROVE FlushedIsOpen'
<1> USE DEF IInv
<1>1. CASE UNCHANGED vars
  BY <1>1 DEF vars, FlushedIsOpen, Touched
<1>2. CASE Others
  BY <1>2, OthersOf DEF Outside, session, FlushedIsOpen, Touched
<1>3. ASSUME NEW e \in Evaluator, EvaluatorStep(e) \/ Crash(e),
             \A f \in Finding : Touched(e, f)' => pc'[e] \in {"candidates", "flush", "resolve"}
      PROVE  FlushedIsOpen'
  <2>1. ASSUME NEW d \in Evaluator, d # e, NEW f \in Finding, Touched(d, f)'
        PROVE  pc'[d] \in {"candidates", "flush", "resolve"}
    BY <1>3, <2>1, Elsewhere DEF FlushedIsOpen, Touched
  <2> QED
    BY <1>3, <2>1 DEF FlushedIsOpen
<1>4. ASSUME NEW e \in Evaluator, TryLock(e) \/ Collect(e) \/ LoadExisting(e) \/ Unlock(e)
      PROVE  FlushedIsOpen'
  BY <1>3, <1>4 DEF EvaluatorStep, TryLock, Collect, LoadExisting, Unlock, FlushedIsOpen, Touched, TypeOK
<1>5. ASSUME NEW e \in Evaluator, Commit(e) \/ Crash(e) PROVE FlushedIsOpen'
  BY <1>3, <1>5, CommitOf, CrashOf DEF EvaluatorStep
<1>6. ASSUME NEW e \in Evaluator, NEW f \in Finding, Load(e, f) PROVE FlushedIsOpen'
  <2>1. pc'[e] = "flush"
    BY <1>6 DEF Load, TypeOK
  <2> QED
    BY <1>3, <1>6, <2>1 DEF EvaluatorStep
<1>7. ASSUME NEW e \in Evaluator, NEW f \in Finding, Flush(e, f) PROVE FlushedIsOpen'
  <2>1. pc'[e] = "candidates"
    BY <1>7, FlushOf DEF TypeOK
  <2> QED
    BY <1>3, <1>7, <2>1 DEF EvaluatorStep
<1>8. ASSUME NEW e \in Evaluator, NEW f \in Finding, Settle(e, f) PROVE FlushedIsOpen'
  <2>1. pc'[e] = "resolve"
    BY <1>8, SettleOf
  <2> QED
    BY <1>3, <1>8, <2>1 DEF EvaluatorStep
<1> QED
  BY <1>1, <1>2, <1>4, <1>5, <1>6, <1>7, <1>8, NextCases

\* What is collected.
LEMMA CandidatesNext == ASSUME IInv, [Next]_vars PROVE CandidatesAreComplete'
<1> USE DEF IInv
<1>1. CASE UNCHANGED vars
  BY <1>1 DEF vars, CandidatesAreComplete
<1>2. CASE Others
  BY <1>2, OthersOf DEF Outside, session, CandidatesAreComplete
<1>3. ASSUME NEW e \in Evaluator, Collect(e) PROVE CandidatesAreComplete'
  <2>1. \A f \in Finding : candidate'[e][f] # 0 => SourceOf[f] \in complete'[e]
    BY <1>3 DEF Collect, TypeOK
  <2>2. \A d \in Evaluator : d # e => candidate'[d] = candidate[d] /\ complete'[d] = complete[d]
    BY <1>3, Elsewhere DEF EvaluatorStep
  <2> QED
    BY <2>1, <2>2 DEF CandidatesAreComplete
<1>4. ASSUME NEW e \in Evaluator, Commit(e) \/ Crash(e) PROVE CandidatesAreComplete'
  BY <1>4, CommitOf, CrashOf, Elsewhere DEF CandidatesAreComplete, EvaluatorStep
<1>5. ASSUME NEW e \in Evaluator,
             \/ TryLock(e) \/ LoadExisting(e) \/ Unlock(e)
             \/ \E f \in Finding : Load(e, f) \/ Flush(e, f) \/ Settle(e, f)
      PROVE  CandidatesAreComplete'
  BY <1>5 DEF TryLock, LoadExisting, Unlock, Load, Flush, Settle, CandidatesAreComplete
<1> QED
  BY <1>1, <1>2, <1>3, <1>4, <1>5, NextCases

\* What is loaded.
LEMMA LoadedNext == ASSUME IInv, [Next]_vars PROVE LoadedIsThere'
<1> USE DEF IInv
<1>1. CASE UNCHANGED vars
  BY <1>1 DEF vars, LoadedIsThere, View, Touched
<1>2. ASSUME \A f \in Finding : row[f] # NoRow => row'[f] # NoRow,
             request' = request \/ \E a \in Admin : request' = [request EXCEPT ![a] = Idle],
             \A e \in Evaluator, f \in Finding : loaded'[e][f] # NoRow => View(e, f)' # NoRow
      PROVE  LoadedIsThere'
  <2>1. ASSUME NEW a \in Admin, request'[a] # Idle PROVE row'[request'[a].finding] # NoRow
    <3>1. request'[a] = request[a]
      BY <1>2, <2>1 DEF TypeOK
    <3>2. request[a].finding \in Finding
      BY <2>1, <3>1 DEF TypeOK
    <3> QED
      BY <1>2, <2>1, <3>1, <3>2 DEF LoadedIsThere
  <2> QED
    BY <1>2, <2>1 DEF LoadedIsThere
<1>3. CASE Others
  <2>1. \A f \in Finding : row[f] # NoRow => row'[f] # NoRow
    BY <1>3, OthersOf, RowsExist DEF Outside, Evolves
  <2>2. ASSUME NEW e \in Evaluator, NEW f \in Finding, loaded'[e][f] # NoRow
        PROVE  View(e, f)' # NoRow
    <3>1. loaded[e][f] # NoRow /\ flushed'[e][f] = flushed[e][f]
      BY <1>3, <2>2, OthersOf DEF Outside, session
    <3> QED
      BY <2>1, <3>1 DEF LoadedIsThere, View, Touched
  <2>3. ASSUME NEW f \in Finding, Expire(f) \/ \E value \in {0} \cup Severity : Signal(f, value)
        PROVE  request' = request
    BY <2>3 DEF Expire, Signal
  <2>4. ASSUME NEW s \in Source, Availability(s) PROVE request' = request
    BY <2>4 DEF Availability
  <2>5. ASSUME NEW a \in Admin, Finish(a) PROVE request' = [request EXCEPT ![a] = Idle]
    BY <2>5 DEF Finish
  <2>6. ASSUME NEW a \in Admin, NEW f \in Finding, NEW kind \in Kind, Begin(a, f, kind)
        PROVE  LoadedIsThere'
    <3>1. /\ row[f] # NoRow /\ UNCHANGED <<row, loaded, flushed>>
          /\ request' = [request EXCEPT ![a] = [kind |-> kind, finding |-> f, loaded |-> row[f]]]
      BY <2>6 DEF Begin, session
    <3>2. ASSUME NEW b \in Admin, request'[b] # Idle PROVE row'[request'[b].finding] # NoRow
      <4>1. CASE b = a
        BY <3>1, <4>1 DEF TypeOK
      <4>2. CASE b # a
        BY <3>1, <3>2, <4>2 DEF TypeOK, LoadedIsThere
      <4> QED
        BY <4>1, <4>2
    <3> QED
      BY <2>2, <3>2 DEF LoadedIsThere
  <2> QED
    BY <1>2, <1>3, <2>1, <2>2, <2>3, <2>4, <2>5, <2>6 DEF Others
<1>4. ASSUME NEW e \in Evaluator, TryLock(e) \/ Collect(e) \/ Unlock(e) PROVE LoadedIsThere'
  BY <1>4 DEF TryLock, Collect, Unlock, LoadedIsThere, View, Touched
<1>5. ASSUME NEW e \in Evaluator, NEW d \in Evaluator, d # e, NEW f \in Finding,
             EvaluatorStep(e) \/ Crash(e), row[f] # NoRow => row'[f] # NoRow,
             loaded'[d][f] # NoRow
      PROVE  View(d, f)' # NoRow
  <2>1. loaded[d][f] # NoRow /\ flushed'[d][f] = flushed[d][f]
    BY <1>5, Elsewhere
  <2> QED
    BY <1>5, <2>1 DEF LoadedIsThere, View, Touched
<1>6. ASSUME NEW e \in Evaluator, Commit(e) \/ Crash(e) PROVE LoadedIsThere'
  <2>1. request' = request /\ \A f \in Finding : row[f] # NoRow => row'[f] # NoRow
    BY <1>6, CommitOf, CrashOf
  <2>2. \A f \in Finding : loaded'[e][f] = NoRow
    BY <1>6, CommitOf, CrashOf
  <2> QED
    BY <1>2, <1>5, <1>6, <2>1, <2>2 DEF EvaluatorStep
<1>7. ASSUME NEW e \in Evaluator, NEW f \in Finding, Load(e, f) PROVE LoadedIsThere'
  <2>1. /\ UNCHANGED <<row, request, flushed>> /\ loaded' = [loaded EXCEPT ![e][f] = View(e, f)]
    BY <1>7 DEF Load
  <2>2. \A g \in Finding : loaded'[e][g] # NoRow => View(e, g)' # NoRow
    BY <2>1 DEF TypeOK, LoadedIsThere, View, Touched
  <2> QED
    BY <1>2, <1>5, <1>7, <2>1, <2>2 DEF EvaluatorStep
<1>8. ASSUME NEW e \in Evaluator, LoadExisting(e) PROVE LoadedIsThere'
  <2>1. /\ UNCHANGED <<row, request, flushed>>
        /\ loaded' = [loaded EXCEPT ![e] = [f \in Finding |-> View(e, f)]]
    BY <1>8 DEF LoadExisting
  <2>2. \A g \in Finding : loaded'[e][g] # NoRow => View(e, g)' # NoRow
    BY <2>1 DEF TypeOK, LoadedIsThere, View, Touched
  <2> QED
    BY <1>2, <1>5, <1>8, <2>1, <2>2 DEF EvaluatorStep
<1>9. ASSUME NEW e \in Evaluator, NEW f \in Finding, Flush(e, f) \/ Settle(e, f)
      PROVE  LoadedIsThere'
  <2>1. UNCHANGED <<row, request, loaded>> /\ (flushed' = flushed \/ \E w : Writes(e, f, w))
    BY <1>9, FlushOf, SettleOf
  <2>2. ASSUME NEW g \in Finding, loaded'[e][g] # NoRow PROVE View(e, g)' # NoRow
    <3>1. CASE flushed' = flushed
      BY <2>1, <2>2, <3>1 DEF LoadedIsThere, View, Touched
    <3>2. ASSUME NEW w, Writes(e, f, w) PROVE View(e, g)' # NoRow
      <4>1. CASE g = f
        BY <3>2, <4>1, WritesOf, RowsExist DEF View
      <4>2. CASE g # f
        BY <2>1, <2>2, <3>2, <4>2, WritesOf DEF LoadedIsThere, View, Touched
      <4> QED
        BY <4>1, <4>2
    <3> QED
      BY <2>1, <3>1, <3>2
  <2> QED
    BY <1>2, <1>5, <1>9, <2>1, <2>2 DEF EvaluatorStep
<1> QED
  BY <1>1, <1>3, <1>4, <1>6, <1>7, <1>8, <1>9, NextCases
\* What is handled.
LEMMA HandledNext == ASSUME IInv, [Next]_vars PROVE HandledOnce'
<1> USE DEF IInv
<1>1. CASE UNCHANGED vars
  BY <1>1 DEF vars, HandledOnce, Handled, View, Touched
<1>2. CASE Others
  <2>1. ASSUME NEW e \in Evaluator PROVE Handled(e)'
    <3>1. UNCHANGED session /\ Handled(e) /\ todo[e] \subseteq Finding
      BY <1>2, OthersOf DEF Outside, HandledOnce, TypeOK
    <3>2. \A f \in Finding : Touched(e, f)' <=> Touched(e, f)
      BY <3>1 DEF session, Touched
    <3>3. \A f \in Finding : View(e, f)'.status = "resolved" => View(e, f).status = "resolved"
      <4>1. \A f \in Finding : row'[f].status = "resolved" => row[f].status = "resolved"
        BY <1>2, OthersOf DEF Outside, Evolves
      <4>2. flushed' = flushed
        BY <3>1 DEF session
      <4> QED
        BY <3>2, <4>1, <4>2 DEF View
    <3> QED
      BY <3>1, <3>2, <3>3 DEF Handled, session
  <2> QED
    BY <2>1 DEF HandledOnce
<1>3. ASSUME NEW e \in Evaluator, EvaluatorStep(e) \/ Crash(e), pc[e] # "idle", Handled(e)'
      PROVE  HandledOnce'
  <2>1. \A d \in Evaluator : d # e => pc'[d] = "idle"
    BY <1>3, Elsewhere, Alone
  <2> QED
    BY <1>3, <2>1 DEF HandledOnce, Handled
<1>4. ASSUME NEW e \in Evaluator, TryLock(e) PROVE HandledOnce'
  <2>1. \A d \in Evaluator : pc'[d] \in {"idle", "collect"}
    BY <1>4, ConstantsAssumption DEF TryLock, WorkIsLocked, TypeOK
  <2> QED
    BY <2>1 DEF HandledOnce, Handled
<1>5. ASSUME NEW e \in Evaluator, Collect(e) PROVE HandledOnce'
  <2>1. /\ pc[e] = "collect" /\ pc'[e] = "candidates" /\ flushed' = flushed
        /\ \A f \in todo'[e] : f \in Finding /\ candidate'[e][f] # 0
    BY <1>5 DEF Collect, TypeOK
  <2>2. \A f \in Finding : ~Touched(e, f)'
    BY <2>1 DEF FlushedIsOpen, Touched
  <2>3. Handled(e)'
    BY <2>1, <2>2 DEF Handled
  <2> QED
    BY <1>3, <1>5, <2>1, <2>3 DEF EvaluatorStep
<1>6. ASSUME NEW e \in Evaluator, NEW f \in Finding, Load(e, f) PROVE HandledOnce'
  <2>1. /\ pc[e] = "candidates" /\ pc'[e] = "flush" /\ f \in todo[e] /\ current'[e] = f
        /\ UNCHANGED <<flushed, todo, candidate>>
    BY <1>6 DEF Load, TypeOK
  <2>2. Handled(e)'
    BY <2>1 DEF HandledOnce, Handled, Touched
  <2> QED
    BY <1>3, <1>6, <2>1, <2>2 DEF EvaluatorStep
<1>7. ASSUME NEW e \in Evaluator, NEW f \in Finding, Flush(e, f) PROVE HandledOnce'
  <2>1. /\ pc[e] = "flush" /\ pc'[e] = "candidates" /\ todo'[e] = todo[e] \ {f}
        /\ candidate' = candidate /\ candidate[e][f] # 0 /\ todo[e] \subseteq Finding
    BY <1>7, FlushOf DEF TypeOK
  <2>2. \A g \in Finding : g # f => (Touched(e, g)' <=> Touched(e, g))
    BY <1>7, FlushOf, WritesOf DEF Touched
  <2>3. Handled(e)'
    BY <2>1, <2>2 DEF HandledOnce, Handled
  <2> QED
    BY <1>3, <1>7, <2>1, <2>3 DEF EvaluatorStep
<1>8. ASSUME NEW e \in Evaluator, LoadExisting(e) PROVE HandledOnce'
  <2>1. /\ pc[e] = "candidates" /\ pc'[e] = "resolve" /\ UNCHANGED <<flushed, row, candidate>>
        /\ loaded'[e] = [f \in Finding |-> View(e, f)]
        /\ todo'[e] = {f \in Finding : View(e, f) # NoRow /\ View(e, f).status # "resolved"}
    BY <1>8 DEF LoadExisting, TypeOK
  <2>2. \A f \in Finding : (Touched(e, f)' <=> Touched(e, f)) /\ View(e, f)' = View(e, f)
    BY <2>1 DEF Touched, View
  <2>3. Handled(e)'
    BY <2>1, <2>2 DEF HandledOnce, Handled
  <2> QED
    BY <1>3, <1>8, <2>1, <2>3 DEF EvaluatorStep
<1>9. ASSUME NEW e \in Evaluator, NEW f \in Finding, Settle(e, f) PROVE HandledOnce'
  <2>1. /\ pc[e] = "resolve" /\ pc'[e] = "resolve" /\ todo'[e] = todo[e] \ {f}
        /\ UNCHANGED <<row, candidate, loaded>> /\ todo[e] \subseteq Finding
    BY <1>9, SettleOf DEF TypeOK
  <2>2. \A g \in Finding : g # f => flushed'[e][g] = flushed[e][g]
    <3>1. flushed' = flushed \/ \E w : Writes(e, f, w)
      BY <1>9, SettleOf
    <3>2. ASSUME NEW w, Writes(e, f, w)
          PROVE  \A g \in Finding : g # f => flushed'[e][g] = flushed[e][g]
      BY <3>2, WritesOf
    <3> QED
      BY <3>1, <3>2
  <2>3. \A g \in Finding : g # f => (Touched(e, g)' <=> Touched(e, g)) /\ View(e, g)' = View(e, g)
    BY <2>1, <2>2 DEF Touched, View
  <2>4. Handled(e)'
    BY <2>1, <2>3 DEF HandledOnce, Handled
  <2> QED
    BY <1>3, <1>9, <2>1, <2>4 DEF EvaluatorStep
<1>10. ASSUME NEW e \in Evaluator, Commit(e) \/ Unlock(e) \/ Crash(e) PROVE HandledOnce'
  <2>1. pc[e] # "idle" /\ pc'[e] \in {"idle", "unlock"}
    BY <1>10, CommitOf, CrashOf DEF Unlock, TypeOK
  <2>2. Handled(e)'
    BY <2>1 DEF Handled
  <2> QED
    BY <1>3, <1>10, <2>1, <2>2 DEF EvaluatorStep
<1> QED
  BY <1>1, <1>2, <1>4, <1>5, <1>6, <1>7, <1>8, <1>9, <1>10, NextCases

\* What a loaded candidate is against the table.
LEMMA NearNext == ASSUME IInv, [Next]_vars PROVE LoadedIsNear'
<1> USE DEF IInv
<1>1. CASE UNCHANGED vars
  BY <1>1 DEF vars, LoadedIsNear
<1>2. CASE Others
  <2>1. ASSUME NEW e \in Evaluator, pc'[e] = "flush"
        PROVE  Unrated(loaded'[e][current'[e]], row'[current'[e]])
    <3>1. UNCHANGED <<pc, loaded, current>> /\ Unrated(loaded[e][current[e]], row[current[e]])
      BY <1>2, <2>1, OthersOf DEF Outside, LoadedIsNear, session
    <3>2. current[e] \in Finding
      BY <2>1, <3>1 DEF HandledOnce, Handled, TypeOK
    <3>3. row'[current[e]] = row[current[e]] \/ Evolves(current[e])
      BY <1>2, <3>2, OthersOf DEF Outside
    <3> QED
      BY <3>1, <3>3, RowsExist DEF Unrated, Evolves
  <2> QED
    BY <2>1 DEF LoadedIsNear
<1>3. ASSUME NEW e \in Evaluator, NEW f \in Finding, Load(e, f) PROVE LoadedIsNear'
  <2>1. /\ pc[e] = "candidates" /\ f \in todo[e] /\ current'[e] = f /\ row' = row
        /\ loaded'[e][f] = View(e, f)
    BY <1>3 DEF Load, TypeOK
  <2>2. View(e, f) = row[f]
    BY <2>1 DEF HandledOnce, Handled, View
  <2>3. Unrated(loaded'[e][current'[e]], row'[current'[e]])
    BY <2>1, <2>2, Views DEF Unrated
  <2>4. \A d \in Evaluator : d # e => pc'[d] = "idle"
    BY <1>3, <2>1, Elsewhere, Alone DEF EvaluatorStep
  <2> QED
    BY <2>3, <2>4 DEF LoadedIsNear
<1>4. ASSUME NEW e \in Evaluator,
             \/ TryLock(e) \/ Collect(e) \/ LoadExisting(e) \/ Commit(e) \/ Unlock(e) \/ Crash(e)
             \/ \E f \in Finding : Flush(e, f) \/ Settle(e, f)
      PROVE  LoadedIsNear'
  <2>1. pc'[e] # "flush"
    BY <1>4, CommitOf, CrashOf, FlushOf, SettleOf
       DEF TryLock, Collect, LoadExisting, Unlock, TypeOK
  <2>2. ASSUME NEW d \in Evaluator, d # e PROVE pc'[d] # "flush"
    <3>1. CASE pc[e] # "idle"
      BY <1>4, <2>2, <3>1, Elsewhere, Alone DEF EvaluatorStep
    <3>2. CASE pc[e] = "idle"
      <4>1. lock = Nobody /\ TryLock(e)
        BY <1>4, <3>2 DEF TryLock, Collect, LoadExisting, Commit, Unlock, Crash, Flush, Settle
      <4>2. pc[d] = "idle"
        BY <4>1, ConstantsAssumption DEF WorkIsLocked
      <4> QED
        BY <1>4, <2>2, <4>2, Elsewhere DEF EvaluatorStep
    <3> QED
      BY <3>1, <3>2
  <2> QED
    BY <2>1, <2>2 DEF LoadedIsNear
<1> QED
  BY <1>1, <1>2, <1>3, <1>4, NextCases
\* What is announced.
LEMMA AnnouncedNext == ASSUME IInv, [Next]_vars PROVE FlushedIsAnnounced'
<1> USE DEF IInv
<1> DEFINE Told(e, f) ==
       /\ Announces(row[f], flushed[e][f])
       /\ flushed[e][f].event # event[f] => flushed[e][f].row # row[f]
       /\ flushed[e][f].row.status = "resolved" =>
             SourceOf[f] \in complete[e] /\ candidate[e][f] = 0
<1>1. ASSUME NEW e \in Evaluator, NEW f \in Finding, Touched(e, f)', row'[f] = row[f],
             event'[f] = event[f], flushed'[e][f] = flushed[e][f],
             complete'[e] = complete[e], candidate'[e] = candidate[e]
      PROVE  Told(e, f)'
  BY <1>1 DEF FlushedIsAnnounced, Touched
<1>2. CASE UNCHANGED vars
  <2>1. \A e \in Evaluator, f \in Finding : Touched(e, f)' => Told(e, f)'
    BY <1>1, <1>2 DEF vars
  <2> QED
    BY <2>1 DEF FlushedIsAnnounced
<1>3. CASE Others
  <2>1. ASSUME NEW e \in Evaluator, NEW f \in Finding, Touched(e, f)' PROVE Told(e, f)'
    <3>1. UNCHANGED <<event, session>> /\ Touched(e, f)
      BY <1>3, <2>1, OthersOf DEF Outside, session, Touched
    <3>2. row'[f] = row[f]
      BY <1>3, <3>1, OthersOf DEF Outside, Evolves
    <3> QED
      BY <1>1, <2>1, <3>1, <3>2 DEF session
  <2> QED
    BY <2>1 DEF FlushedIsAnnounced
<1>4. ASSUME NEW e \in Evaluator, EvaluatorStep(e) \/ Crash(e),
             \A f \in Finding : Touched(e, f)' => Told(e, f)',
             pc[e] # "idle" \/ UNCHANGED <<row, event>>
      PROVE  FlushedIsAnnounced'
  <2>1. ASSUME NEW d \in Evaluator, d # e, NEW f \in Finding, Touched(d, f)' PROVE Told(d, f)'
    <3>1. /\ flushed'[d] = flushed[d] /\ complete'[d] = complete[d] /\ candidate'[d] = candidate[d]
          /\ Touched(d, f)
      BY <1>4, <2>1, Elsewhere DEF Touched
    <3>2. UNCHANGED <<row, event>>
      BY <1>4, <2>1, <3>1, Alone
    <3> QED
      BY <1>1, <2>1, <3>1, <3>2
  <2> QED
    BY <1>4, <2>1 DEF FlushedIsAnnounced
<1>5. ASSUME NEW e \in Evaluator,
             TryLock(e) \/ LoadExisting(e) \/ Unlock(e) \/ \E f \in Finding : Load(e, f)
      PROVE  FlushedIsAnnounced'
  <2>1. UNCHANGED <<row, event, flushed, complete, candidate>>
    BY <1>5 DEF TryLock, LoadExisting, Unlock, Load
  <2>2. \A f \in Finding : Touched(e, f)' => Told(e, f)'
    BY <1>1, <2>1
  <2> QED
    BY <1>4, <1>5, <2>1, <2>2 DEF EvaluatorStep
<1>6. ASSUME NEW e \in Evaluator, Collect(e) PROVE FlushedIsAnnounced'
  <2>1. pc[e] = "collect" /\ UNCHANGED <<row, event, flushed>>
    BY <1>6 DEF Collect
  <2>2. \A f \in Finding : ~Touched(e, f)'
    BY <2>1 DEF FlushedIsOpen, Touched
  <2> QED
    BY <1>4, <1>6, <2>1, <2>2 DEF EvaluatorStep
<1>7. ASSUME NEW e \in Evaluator, Commit(e) \/ Crash(e) PROVE FlushedIsAnnounced'
  <2>1. pc[e] # "idle" /\ \A f \in Finding : ~Touched(e, f)'
    BY <1>7, CommitOf, CrashOf
  <2> QED
    BY <1>4, <1>7, <2>1 DEF EvaluatorStep
<1>8. ASSUME NEW e \in Evaluator, NEW f \in Finding, Flush(e, f) \/ Settle(e, f)
      PROVE  FlushedIsAnnounced'
  <2>1. /\ UNCHANGED <<row, event, complete, candidate>>
        /\ flushed' = flushed \/ \E w : Writes(e, f, w)
    BY <1>8, FlushOf, SettleOf
  <2>2. ASSUME NEW g \in Finding, Touched(e, g)' PROVE Told(e, g)'
    <3>1. CASE flushed' = flushed
      BY <1>1, <2>1, <2>2, <3>1
    <3>2. ASSUME NEW w, Writes(e, f, w) PROVE Told(e, g)'
      <4>1. CASE g = f
        <5>1. flushed'[e][f] = w
          BY <3>2, WritesOf
        <5> QED
          BY <2>1, <3>2, <4>1, <5>1 DEF Writes
      <4>2. CASE g # f
        BY <1>1, <2>1, <2>2, <3>2, <4>2, WritesOf
      <4> QED
        BY <4>1, <4>2
    <3> QED
      BY <2>1, <3>1, <3>2
  <2> QED
    BY <1>4, <1>8, <2>1, <2>2 DEF EvaluatorStep
<1> QED
  BY <1>2, <1>3, <1>5, <1>6, <1>7, <1>8, NextCases

\* What the chains say.
LEMMA ChainsNext == ASSUME IInv, [Next]_vars PROVE ChainsAgree'
<1> USE DEF IInv
<1> DEFINE Whole(e) ==
       /\ \A f \in Finding : Touched(e, f) =>
             /\ Agrees(flushed[e][f].row, flushed[e][f].trail)
             /\ trail[f].raced => flushed[e][f].trail.raced
       /\ pc[e] = "flush" /\ ~trail[current[e]].raced => Dated(loaded[e][current[e]])
<1>1. CASE UNCHANGED vars
  <2>1. /\ \A f \in Finding : Agrees(row[f], trail[f])'
        /\ \A a \in Admin : Asked(a)'
        /\ \A e \in Evaluator : Whole(e)'
    BY <1>1 DEF vars, ChainsAgree, Asked, Touched
  <2> QED
    BY <2>1 DEF ChainsAgree
<1>2. CASE Others
  <2>1. /\ UNCHANGED session /\ \A a \in Admin : Asked(a)'
        /\ \A f \in Finding : /\ (row'[f] = row[f] /\ trail'[f] = trail[f]) \/ Evolves(f)
                              /\ Agrees(row'[f], trail'[f])
                              /\ trail[f].raced => trail'[f].raced
    BY <1>2, OthersOf DEF Outside
  <2>2. ASSUME NEW e \in Evaluator, NEW f \in Finding, Touched(e, f)'
        PROVE  /\ Agrees(flushed[e][f].row, flushed[e][f].trail)'
               /\ trail'[f].raced => flushed'[e][f].trail.raced
    <3>1. Touched(e, f) /\ flushed' = flushed
      BY <2>1, <2>2 DEF session, Touched
    <3>2. trail'[f] = trail[f]
      BY <2>1, <3>1 DEF Evolves
    <3> QED
      BY <3>1, <3>2 DEF ChainsAgree
  <2>3. ASSUME NEW e \in Evaluator, pc'[e] = "flush", ~trail'[current'[e]].raced
        PROVE  Dated(loaded[e][current[e]])'
    <3>1. UNCHANGED <<pc, loaded, current>>
      BY <2>1 DEF session
    <3>2. current[e] \in Finding
      BY <2>3, <3>1 DEF HandledOnce, Handled, TypeOK
    <3> QED
      BY <2>1, <2>3, <3>1, <3>2 DEF ChainsAgree
  <2> QED
    BY <2>1, <2>2, <2>3 DEF ChainsAgree
<1>3. ASSUME NEW e \in Evaluator, EvaluatorStep(e) \/ Crash(e),
             UNCHANGED request, pc[e] # "idle" \/ TryLock(e),
             \A f \in Finding : Agrees(row[f], trail[f])' /\ (trail[f].raced => trail'[f].raced),
             Whole(e)'
      PROVE  ChainsAgree'
  <2>1. ASSUME NEW a \in Admin PROVE Asked(a)'
    <3>1. Asked(a) /\ (request[a] # Idle => request[a].finding \in Finding)
      BY DEF ChainsAgree, TypeOK
    <3> QED
      BY <1>3, <3>1 DEF Asked
  <2>2. ASSUME NEW d \in Evaluator, d # e PROVE Whole(d)'
    <3>1. pc[d] = "idle" /\ \A f \in Finding : ~Touched(d, f)
      <4>1. CASE pc[e] # "idle"
        BY <2>2, <4>1, Alone
      <4>2. CASE TryLock(e)
        BY <4>2, ConstantsAssumption DEF TryLock, WorkIsLocked, FlushedIsOpen
      <4> QED
        BY <1>3, <4>1, <4>2
    <3>2. pc'[d] = "idle" /\ \A f \in Finding : ~Touched(d, f)'
      BY <1>3, <2>2, <3>1, Elsewhere DEF Touched
    <3> QED
      BY <3>2
  <2>3. \A d \in Evaluator : Whole(d)'
    BY <1>3, <2>2
  <2> QED
    BY <1>3, <2>1, <2>3 DEF ChainsAgree
<1>4. ASSUME NEW e \in Evaluator,
             TryLock(e) \/ Collect(e) \/ LoadExisting(e) \/ Unlock(e)
      PROVE  ChainsAgree'
  <2>1. /\ UNCHANGED <<row, trail, request, flushed>>
        /\ (pc[e] # "idle" \/ TryLock(e))
        /\ pc'[e] # "flush"
    BY <1>4 DEF TryLock, Collect, LoadExisting, Unlock, TypeOK
  <2>2. Whole(e)' /\ \A f \in Finding : Agrees(row[f], trail[f])'
    BY <2>1 DEF ChainsAgree, Touched
  <2> QED
    BY <1>3, <1>4, <2>1, <2>2 DEF EvaluatorStep
<1>5. ASSUME NEW e \in Evaluator, NEW f \in Finding, Load(e, f) PROVE ChainsAgree'
  <2>1. /\ UNCHANGED <<row, trail, request, flushed>>
        /\ pc[e] = "candidates" /\ f \in todo[e] /\ current'[e] = f
        /\ loaded'[e][f] = View(e, f)
    BY <1>5 DEF Load, TypeOK
  <2>2. View(e, f) = row[f]
    BY <2>1 DEF HandledOnce, Handled, View
  <2>3. \A g \in Finding : Agrees(row[g], trail[g])
    BY DEF ChainsAgree
  <2>4. Whole(e)'
    <3>1. ~trail'[current'[e]].raced => Dated(loaded'[e][current'[e]])
      BY <2>1, <2>2, <2>3 DEF Agrees
    <3> QED
      BY <2>1, <3>1 DEF ChainsAgree, Touched
  <2> QED
    BY <1>3, <1>5, <2>1, <2>3, <2>4 DEF EvaluatorStep
<1>6. ASSUME NEW e \in Evaluator, NEW f \in Finding, Flush(e, f) \/ Settle(e, f)
      PROVE  ChainsAgree'
  <2>1. /\ UNCHANGED <<row, trail, request, loaded>> /\ pc[e] # "idle" /\ pc'[e] # "flush"
        /\ flushed' = flushed \/ \E w : Writes(e, f, w)
    BY <1>6, FlushOf, SettleOf DEF TypeOK
  <2>2. ASSUME NEW g \in Finding, Touched(e, g)'
        PROVE  /\ Agrees(flushed[e][g].row, flushed[e][g].trail)'
               /\ trail'[g].raced => flushed'[e][g].trail.raced
    <3>1. CASE flushed' = flushed
      BY <2>1, <2>2, <3>1 DEF ChainsAgree, Touched
    <3>2. ASSUME NEW w, Writes(e, f, w)
          PROVE  /\ Agrees(flushed[e][g].row, flushed[e][g].trail)'
                 /\ trail'[g].raced => flushed'[e][g].trail.raced
      <4>1. CASE g = f
        BY <2>1, <3>2, <4>1, WritesOf DEF Writes
      <4>2. CASE g # f
        <5>1. flushed'[e][g] = flushed[e][g]
          BY <3>2, <4>2, WritesOf
        <5> QED
          BY <2>1, <2>2, <5>1 DEF ChainsAgree, Touched
      <4> QED
        BY <4>1, <4>2
    <3> QED
      BY <2>1, <3>1, <3>2
  <2>3. Whole(e)' /\ \A g \in Finding : Agrees(row[g], trail[g])'
    BY <2>1, <2>2 DEF ChainsAgree
  <2> QED
    BY <1>3, <1>6, <2>1, <2>3 DEF EvaluatorStep
<1>7. ASSUME NEW e \in Evaluator, Commit(e) \/ Crash(e) PROVE ChainsAgree'
  <2>1. /\ UNCHANGED request /\ pc[e] # "idle"
        /\ pc'[e] \in {"idle", "unlock"} /\ \A f \in Finding : ~Touched(e, f)'
    BY <1>7, CommitOf, CrashOf
  <2>2. ASSUME NEW f \in Finding
        PROVE  Agrees(row[f], trail[f])' /\ (trail[f].raced => trail'[f].raced)
    <3>1. /\ Agrees(row[f], trail[f])
          /\ Touched(e, f) => /\ Agrees(flushed[e][f].row, flushed[e][f].trail)
                              /\ trail[f].raced => flushed[e][f].trail.raced
      BY DEF ChainsAgree
    <3>2. \/ row'[f] = row[f] /\ trail'[f] = trail[f]
          \/ Touched(e, f) /\ row'[f] = flushed[e][f].row /\ trail'[f] = flushed[e][f].trail
      BY <1>7, CommitOf, CrashOf
    <3> QED
      BY <3>1, <3>2
  <2>3. Whole(e)'
    BY <2>1
  <2> QED
    BY <1>3, <1>7, <2>1, <2>2, <2>3 DEF EvaluatorStep
<1> QED
  BY <1>1, <1>2, <1>4, <1>5, <1>6, <1>7, NextCases
-----------------------------------------------------------------------------
(* The theorems.                                                            *)

\* The invariant holds at first.
LEMMA SafeInit == Init => IInv
<1> SUFFICES ASSUME Init PROVE IInv
  OBVIOUS
<1>1. TypeOK
  BY ConstantsAssumption DEF Init, TypeOK, Trail, Event
<1>2. /\ \A e \in Evaluator : pc[e] = "idle"
      /\ \A e \in Evaluator, f \in Finding :
            /\ candidate[e][f] = 0 /\ loaded[e][f] = NoRow /\ ~Touched(e, f)
      /\ \A a \in Admin : request[a] = Idle
      /\ \A f \in Finding :
            row[f] = NoRow /\ trail[f] = [last |-> "absent", sound |-> TRUE, raced |-> FALSE]
  BY DEF Init, Touched
<1>3. \A f \in Finding : Agrees(row[f], trail[f])
  BY <1>2, RowsExist DEF Agrees, Dated
<1> QED
  BY <1>1, <1>2, <1>3 DEF IInv, WorkIsLocked, FlushedIsOpen, CandidatesAreComplete, LoadedIsThere,
     HandledOnce, Handled, LoadedIsNear, FlushedIsAnnounced, ChainsAgree, Asked

\* And every step keeps it.
LEMMA SafeNext == IInv /\ [Next]_vars => IInv'
BY TypeNext, LockNext, FlushedNext, CandidatesNext, LoadedNext, HandledNext, NearNext,
   AnnouncedNext, ChainsNext DEF IInv

\* It implies what the runs check.
LEMMA SafeImplies == IInv => FindingInv
<1> SUFFICES ASSUME IInv PROVE FindingInv
  OBVIOUS
<1>1. OneEvaluation
  BY DEF OneEvaluation, IInv, WorkIsLocked
<1>2. LifecycleIsAChain
  BY DEF LifecycleIsAChain, IInv, ChainsAgree, Agrees
<1>3. ResolvedHasTime
  <2>1. ASSUME NEW f \in Finding, ~trail[f].raced, row[f] # NoRow
        PROVE  row[f].resolved_at = (row[f].status = "resolved")
    <3>1. (row[f].resolved_at <=> row[f].status = "resolved") /\ row[f] \in Row
      BY <2>1 DEF IInv, ChainsAgree, Agrees, Dated, TypeOK
    <3> QED
      BY <3>1, RowsExist
  <2> QED
    BY <2>1 DEF ResolvedHasTime
<1> QED
  BY <1>1, <1>2, <1>3 DEF FindingInv, IInv

(* One evaluation at a time; and whatever administrators do, suppressions   *)
(* lapse or findings escalate, the transitions of a finding form one chain  *)
(* that ends in its status, and resolved_at is set exactly while it is      *)
(* resolved, until a session writes a transition after another one has      *)
(* changed the status that it had loaded: for any findings, sources,        *)
(* evaluators and requests, crashes included.                               *)
THEOREM FindingsAreSound == Spec => []FindingInv
<1>1. Spec => []IInv
  BY SafeInit, SafeNext, PTL DEF Spec
<1> QED
  BY <1>1, SafeImplies, PTL

\* A row that changes does so by a request, the clock or a commit.
LEMMA RowChanges ==
    ASSUME IInv, [Next]_vars, NEW f \in Finding
    PROVE  \/ row'[f] = row[f] /\ event'[f] = event[f]
           \/ Evolves(f) /\ event'[f] = event[f] /\ (row'[f].status # row[f].status => request' # request)
           \/ \E e \in Evaluator :
                 /\ Commit(e) /\ Touched(e, f) /\ pc[e] = "resolve" /\ pc'[e] = "unlock"
                 /\ row'[f] = flushed[e][f].row /\ event'[f] = flushed[e][f].event
<1>1. CASE UNCHANGED vars
  BY <1>1 DEF vars
<1>2. CASE Others
  <2>1. event' = event /\ (row'[f] = row[f] \/ Evolves(f))
    BY <1>2, OthersOf DEF Outside
  <2>2. ASSUME row'[f].status # row[f].status PROVE request' # request
    <3>1. ASSUME NEW g \in Finding, Expire(g) PROVE FALSE
      BY <2>2, <3>1, ExpireOf
    <3>2. ASSUME NEW a \in Admin, Finish(a) PROVE request' # request
      <4>1. request[a] # Idle /\ request'[a] = Idle
        BY <3>2, FinishOf DEF Finish, IInv, TypeOK
      <4> QED
        BY <4>1
    <3>3. row' # row
      BY <2>2
    <3> QED
      BY <1>2, <3>1, <3>2, <3>3 DEF Others, Signal, Availability, Begin
  <2> QED
    BY <2>1, <2>2
<1>3. ASSUME NEW e \in Evaluator, Commit(e)
      PROVE  \/ row'[f] = row[f] /\ event'[f] = event[f]
             \/ /\ Touched(e, f) /\ pc[e] = "resolve" /\ pc'[e] = "unlock"
                /\ row'[f] = flushed[e][f].row /\ event'[f] = flushed[e][f].event
  BY <1>3, CommitOf
<1>4. ASSUME NEW e \in Evaluator,
             \/ TryLock(e) \/ Collect(e) \/ LoadExisting(e) \/ Unlock(e) \/ Crash(e)
             \/ \E g \in Finding : Load(e, g) \/ Flush(e, g) \/ Settle(e, g)
      PROVE  row' = row /\ event' = event
  BY <1>4 DEF TryLock, Collect, LoadExisting, Unlock, Crash, Load, Flush, Settle
<1> QED
  BY <1>1, <1>2, <1>3, <1>4, NextCases

(* Incomplete data never resolves a finding, and neither does a request     *)
(* that overlaps an evaluation.                                             *)
THEOREM OnlyCompleteResolves == Spec => ResolvedOnlyWhenComplete
<1>1. ASSUME IInv, [Next]_vars, NEW f \in Finding, ~Resolved(f), Resolved(f)'
      PROVE  \E e \in Evaluator :
                /\ pc[e] = "resolve" /\ pc'[e] = "unlock"
                /\ SourceOf[f] \in complete[e] /\ candidate[e][f] = 0
  <2>1. row'[f] # row[f] /\ ~Evolves(f) /\ row'[f].status = "resolved"
    BY <1>1 DEF Resolved, Evolves
  <2>2. PICK e \in Evaluator : /\ Touched(e, f) /\ pc[e] = "resolve" /\ pc'[e] = "unlock"
                               /\ row'[f] = flushed[e][f].row
    BY <1>1, <2>1, RowChanges
  <2> QED
    BY <1>1, <2>1, <2>2 DEF IInv, FlushedIsAnnounced
<1>2. IInv /\ [Next]_vars =>
         [\A f \in Finding :
             ~Resolved(f) /\ Resolved(f)' =>
                \E e \in Evaluator :
                   /\ pc[e] = "resolve" /\ pc'[e] = "unlock"
                   /\ SourceOf[f] \in complete[e] /\ candidate[e][f] = 0]_vars
  BY <1>1
<1>3. Spec => []IInv
  BY SafeInit, SafeNext, PTL DEF Spec
<1> QED
  BY <1>2, <1>3, PTL DEF Spec, ResolvedOnlyWhenComplete

(* The outbox is transactional: a committed change has its notification     *)
(* queued, and no notification is queued without a committed change.        *)
THEOREM OutboxIsExact == Spec => OutboxIsTransactional
<1>1. ASSUME IInv, [Next]_vars, NEW f \in Finding
      PROVE  /\ row[f] = NoRow /\ row'[f] # NoRow => event'[f] = "opened"
             /\ ~Resolved(f) /\ Resolved(f)' => event'[f] = "resolved"
             /\ Resolved(f) /\ ~Resolved(f)' =>
                   event'[f] \in {"reopened", "severity_increased"} \/ request' # request
             /\ event'[f] # event[f] => row'[f] # row[f]
  <2>1. CASE row'[f] = row[f] /\ event'[f] = event[f]
    BY <2>1 DEF Resolved
  <2>2. CASE Evolves(f) /\ event'[f] = event[f] /\ (row'[f].status # row[f].status => request' # request)
    <3>1. row[f] # NoRow /\ row'[f] # NoRow
      BY <2>2, RowsExist DEF Evolves
    <3> QED
      BY <2>2, <3>1 DEF Resolved, Evolves
  <2>3. ASSUME NEW e \in Evaluator, Touched(e, f),
               row'[f] = flushed[e][f].row, event'[f] = flushed[e][f].event
        PROVE  /\ row[f] = NoRow /\ row'[f] # NoRow => event'[f] = "opened"
               /\ ~Resolved(f) /\ Resolved(f)' => event'[f] = "resolved"
               /\ Resolved(f) /\ ~Resolved(f)' => event'[f] \in {"reopened", "severity_increased"}
               /\ event'[f] # event[f] => row'[f] # row[f]
    <3>1. /\ Announces(row[f], flushed[e][f])
          /\ flushed[e][f].event # event[f] => flushed[e][f].row # row[f]
          /\ row'[f] # NoRow
      BY <1>1, <2>3, Views, RowsExist DEF IInv, FlushedIsAnnounced
    <3> QED
      BY <2>3, <3>1 DEF Announces, Resolved
  <2> QED
    BY <1>1, <2>1, <2>2, <2>3, RowChanges
<1>2. IInv /\ [Next]_vars =>
         [\A f \in Finding :
             /\ row[f] = NoRow /\ row'[f] # NoRow => event'[f] = "opened"
             /\ ~Resolved(f) /\ Resolved(f)' => event'[f] = "resolved"
             /\ Resolved(f) /\ ~Resolved(f)' =>
                   event'[f] \in {"reopened", "severity_increased"} \/ request' # request
             /\ event'[f] # event[f] => row'[f] # row[f]]_vars
  BY <1>1
<1>3. Spec => []IInv
  BY SafeInit, SafeNext, PTL DEF Spec
<1> QED
  BY <1>2, <1>3, PTL DEF Spec, OutboxIsTransactional
=============================================================================
