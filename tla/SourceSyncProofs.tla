-------------------------- MODULE SourceSyncProofs --------------------------
(***************************************************************************)
(* Proofs about SourceSync for any number of backends, tasks and sources:  *)
(* type correctness, mutual exclusion of the tasks of a source, and the    *)
(* finality of the job history.  The engine implements the ledger of       *)
(* JobLedger: every step of SourceSync opens, closes or abandons           *)
(* executions of the ledger, or leaves it as it is.  And what it records   *)
(* of an execution is true: RunInv follows the runs and the jobs of a run, *)
(* ResultInv what a job and its capability say of the result.              *)
(***************************************************************************)
EXTENDS SourceSync, FiniteSetTheorems, SequenceTheorems, TLAPS

(* The inductive invariant: a task that is between lock_job and unlock_job  *)
(* holds the lock of its source (the pinned connection), and its unfinished *)
(* job is the newest one.                                                   *)
LockIsHeld == \A r \in Runner : pc[r] \in Critical => lock[Current(r)] = r

IInv == TypeOK /\ LockIsHeld /\ OpenJobIsNewest
-----------------------------------------------------------------------------
(* Lemmas about the data.                                                   *)

(* Updating an element of a sequence keeps its length and its type.         *)
LEMMA SeqUpdate ==
    ASSUME NEW S, NEW q \in Seq(S), NEW k, NEW e, k \in DOMAIN q => e \in S
    PROVE  /\ [q EXCEPT ![k] = e] \in Seq(S)
           /\ Len([q EXCEPT ![k] = e]) = Len(q)
<1>1. q \in [1 .. Len(q) -> S] /\ Len(q) \in Nat
  OBVIOUS
<1>2. [q EXCEPT ![k] = e] \in [1 .. Len(q) -> S]
  BY <1>1
<1>3. \A f \in [1 .. Len(q) -> S] : f \in Seq(S) /\ Len(f) = Len(q)
  BY <1>1, SeqDef, LenProperties
<1> QED
  BY <1>2, <1>3

(* What a task works on: its source.                                        *)
LEMMA CurrentType ==
    ASSUME TaskOK, NEW r \in Runner, pc[r] # "idle"
    PROVE  Current(r) \in Source /\ plan[r] \in Seq(Source) /\ plan[r] # << >>
BY DEF TaskOK, Current

(* The constants a session is reset to.                                     *)
LEMMA ResetTypes == Nothing \in Pending /\ NoVerdict \in Verdict
BY DEF Nothing, NoVerdict, Settle, Pending, Verdict, JobStatus, RunStatus, Exception

\* What Settle builds of typed parts is an outcome.
LEMMA SettleType ==
    ASSUME NEW status \in JobStatus, NEW cap \in CapabilityStatus \cup {"keep"},
           NEW succeeded \in BOOLEAN, NEW raises \in Exception
    PROVE  Settle(status, cap, succeeded, raises) \in Pending
BY DEF Settle, Pending

\* The values that the outcomes name are of those types.
LEMMA SettleLiterals ==
    /\ {"running", "success", "partial_success", "failed", "skipped", "cancelled"} \subseteq JobStatus
    /\ {"keep", "unavailable", "available"} \subseteq CapabilityStatus \cup {"keep"}
    /\ {"none", "error", "cancelled"} \subseteq Exception
BY DEF JobStatus, CapabilityStatus, Exception

(* Every outcome of a synchronization function is one its finally block can *)
(* commit.                                                                  *)
LEMMA OutcomeTypes ==
    ASSUME NEW s \in Source, NEW o \in Outcomes(s)
    PROVE  o \in Pending
<1>1. RunSourceFailures \subseteq Pending
  BY SettleType, SettleLiterals DEF RunSourceFailures
<1>2. PolicyOutcomes \subseteq Pending
  BY SettleType, SettleLiterals DEF PolicyOutcomes
<1>3. LogOutcomes \subseteq Pending
  BY SettleType, SettleLiterals DEF LogOutcomes
<1>4. Outcomes(s) \in {RunSourceFailures, PolicyOutcomes, LogOutcomes}
  BY DEF Outcomes, Generic, Policy, Logs
<1> QED
  BY <1>1, <1>2, <1>3, <1>4
-----------------------------------------------------------------------------
(* Type correctness.                                                        *)

\* Preparing an outcome keeps the tasks typed.
LEMMA PrepareType ==
    ASSUME TaskOK, NEW r \in Runner, pc[r] # "idle", NEW o \in Pending, Prepare(r, o),
           UNCHANGED <<plan, previous, run, verdict>>
    PROVE  TaskOK'
BY DEF TaskOK, Prepare, PC

\* An exception that leaves the function keeps the tasks typed.
LEMMA EscapeType ==
    ASSUME TaskOK, NEW r \in Runner, pc[r] # "idle", NEW x \in Exception, Escape(r, x),
           UNCHANGED <<plan, previous, run, verdict>>
    PROVE  TaskOK'
BY ResetTypes DEF TaskOK, Escape, Forget, PC

\* Going on to the next source, or ending, keeps the tasks typed.
LEMMA AdvanceType ==
    ASSUME TaskOK, NEW r \in Runner, pc[r] # "idle", NEW on \in BOOLEAN,
           NEW first \in {"begin", "lock"}, Advance(r, on, first), UNCHANGED <<job, pending>>
    PROVE  TaskOK'
<1>1. plan[r] \in Seq(Source) /\ plan[r] # << >> /\ Len(plan[r]) \in Nat
  BY CurrentType
<1>2. /\ Tail(plan[r]) \in Seq(Source)
      /\ Len(plan[r]) > 1 => Len(Tail(plan[r])) > 0
  BY <1>1, HeadTailProperties
<1>3. \A q \in Seq(Source) : Len(q) > 0 => q # << >>
  OBVIOUS
<1>4. Len(plan[r]) > 1 => Tail(plan[r]) # << >>
  BY <1>2, <1>3
<1> QED
  BY <1>2, <1>4, ResetTypes DEF TaskOK, Advance, PC, Exception

\* Taking up one of its plans keeps the tasks typed.
LEMMA TakeUpType ==
    ASSUME TaskOK, NEW r \in Runner, NEW p \in Plans[r], TakeUp(r, p)
    PROVE  TaskOK'
<1>1. p \in Seq(Source) /\ p # << >>
  BY ConstantsAssumption
<1> QED
  BY <1>1 DEF TaskOK, TakeUp, PC, Exception

(* What the finally block of instrument_job writes is a run.                *)
LEMMA JudgeType ==
    ASSUME TypeOK, NEW r \in Runner, NEW s \in Source
    PROVE  Judge(r, s) \in OpRun
<1>1. Latest(s) \in Nat
  BY DEF TypeOK, DatabaseOK, Latest
<1>2. raised[r] \in {"none", "error", "cancelled"}
  BY DEF TypeOK, TaskOK, Exception
<1> QED
  BY <1>1, <1>2 DEF Judge, OpRun, RunStatus, JobStatus

\* The steps that change the task and nothing that is shared.
LEMMA SessionSteps ==
    ASSUME TypeOK, NEW r \in Runner,
           \/ FinalRead(r) \/ Return(r) \/ OpenClient(r) \/ WorkerEnds(r)
           \/ CancelWork(r) \/ CancelElsewhere(r) \/ CancelInstrument(r)
    PROVE  TypeOK'
<1>1. DatabaseOK' /\ ControlOK'
  BY DEF TypeOK, DatabaseOK, ControlOK, database, control, FinalRead, Return, OpenClient,
         WorkerEnds, CancelWork, CancelElsewhere, CancelInstrument
<1> SUFFICES TaskOK'
  BY <1>1 DEF TypeOK
<1>2. TaskOK /\ pc[r] # "idle"
  BY DEF TypeOK, FinalRead, Return, OpenClient, WorkerEnds, CancelWork, CancelElsewhere,
         CancelInstrument
<1>3. Current(r) \in Source
  BY <1>2, CurrentType
<1>4. CASE FinalRead(r)
  <2>1. Judge(r, Current(r)).status \in RunStatus /\ Judge(r, Current(r)).job \in Nat
    BY <1>3, JudgeType DEF OpRun
  <2>2. opState[Current(r)].consecutive_failures \in Nat
    BY <1>3 DEF TypeOK, DatabaseOK, OpState
  <2> QED
    BY <1>2, <1>4, <2>1, <2>2 DEF FinalRead, TaskOK, Verdict, PC
<1>5. CASE Return(r)
  BY <1>2, <1>5, AdvanceType DEF Return
<1>6. CASE OpenClient(r)
  <2>1. CASE pc' = [pc EXCEPT ![r] = "work"] /\ UNCHANGED <<job, pending, raised>>
    BY <1>2, <1>6, <2>1 DEF OpenClient, TaskOK, PC
  <2>2. ASSUME NEW o \in Pending, Prepare(r, o) PROVE TaskOK'
    BY <1>2, <1>6, <2>2, PrepareType DEF OpenClient
  <2>3. CASE Escape(r, "error")
    BY <1>2, <1>6, <2>3, EscapeType, SettleLiterals DEF OpenClient
  <2> QED
    BY <1>6, <2>1, <2>2, <2>3, SettleType, SettleLiterals DEF OpenClient
<1>7. CASE WorkerEnds(r)
  BY <1>2, <1>3, <1>7, PrepareType, OutcomeTypes DEF WorkerEnds
<1>8. CASE CancelWork(r)
  <2>1. ASSUME NEW o \in Pending, Prepare(r, o) PROVE TaskOK'
    BY <1>2, <1>8, <2>1, PrepareType DEF CancelWork
  <2>2. CASE Escape(r, "cancelled")
    BY <1>2, <1>8, <2>2, EscapeType, SettleLiterals DEF CancelWork
  <2> QED
    BY <1>8, <2>1, <2>2, SettleType, SettleLiterals DEF CancelWork
<1>9. CASE CancelElsewhere(r)
  BY <1>2, <1>9, EscapeType, SettleLiterals DEF CancelElsewhere
<1>10. CASE CancelInstrument(r)
  BY <1>2, <1>10, AdvanceType DEF CancelInstrument
<1> QED
  BY <1>4, <1>5, <1>6, <1>7, <1>8, <1>9, <1>10

\* The steps that write the database.
LEMMA DatabaseSteps ==
    ASSUME TypeOK, NEW r \in Runner,
           \/ Begin(r) \/ TryLock(r) \/ InsertJob(r) \/ WorkerSucceeds(r) \/ Close(r)
           \/ Unlock(r) \/ FinalCommit(r)
    PROVE  TypeOK'
<1>1. ControlOK'
  BY DEF TypeOK, ControlOK, control, Begin, TryLock, InsertJob, WorkerSucceeds, Close, Unlock,
         FinalCommit
<1>2. TaskOK /\ pc[r] # "idle"
  BY DEF TypeOK, Begin, TryLock, InsertJob, WorkerSucceeds, Close, Unlock, FinalCommit
<1> DEFINE s == Current(r)
<1>3. s \in Source
  BY <1>2, CurrentType
<1>4. /\ jobs[s] \in Seq(Job) /\ Latest(s) \in Nat
      /\ opRuns[s] \in Seq(OpRun) /\ Len(opRuns[s]) \in Nat
      /\ capability[s] \in Shown
      /\ opState[s] \in OpState
  BY <1>3 DEF TypeOK, DatabaseOK, Latest
<1> HIDE DEF s
<1>5. CASE Begin(r)
  <2>1. [status |-> "running", job |-> 0] \in OpRun
    BY DEF OpRun, RunStatus, JobStatus
  <2>2. [opState[s] EXCEPT !.last_status = "running"] \in OpState
    BY <1>4 DEF OpState, RunStatus, JobStatus
  <2>3. DatabaseOK'
    BY <1>3, <1>4, <1>5, <2>1, <2>2 DEF Begin, s, TypeOK, DatabaseOK
  <2>4. TaskOK'
    BY <1>2, <1>3, <1>4, <1>5 DEF Begin, s, TaskOK, PC, Latest
  <2> QED
    BY <1>1, <2>3, <2>4 DEF TypeOK
<1>6. CASE TryLock(r)
  BY <1>1, <1>2, <1>3, <1>6 DEF TryLock, s, TypeOK, DatabaseOK, TaskOK, PC
<1>7. CASE InsertJob(r)
  <2> DEFINE new == [status |-> "running", finished |-> FALSE,
                     run |-> IF r \in Instrumented THEN run[r] ELSE 0]
  <2>1. new \in Job
    BY <1>2 DEF Job, JobStatus, TaskOK
  <2>2. DatabaseOK'
    BY <1>3, <1>4, <1>7, <2>1 DEF InsertJob, s, TypeOK, DatabaseOK
  <2>3. TaskOK'
    BY <1>2, <1>3, <1>4, <1>7, ResetTypes DEF InsertJob, s, TaskOK, PC, Latest
  <2> QED
    BY <1>1, <2>2, <2>3 DEF TypeOK
<1>8. CASE WorkerSucceeds(r)
  <2>1. PICK status \in Good :
          /\ jobs' = [jobs EXCEPT ![s][job[r]].status = status]
          /\ Prepare(r, Settle(status, "keep", FALSE, "none"))
    BY <1>8 DEF WorkerSucceeds, s
  <2>2. status \in JobStatus
    BY DEF Good, JobStatus
  <2> DEFINE new == [jobs[s][job[r]] EXCEPT !.status = status]
  <2>3. job[r] \in DOMAIN jobs[s] => new \in Job
    <3>1. job[r] \in DOMAIN jobs[s] => jobs[s][job[r]] \in Job
      BY <1>4, ElementOfSeq
    <3> QED
      BY <2>2, <3>1 DEF Job
  <2>4. [jobs[s] EXCEPT ![job[r]] = new] \in Seq(Job)
    BY <1>4, <2>3, SeqUpdate
  <2>5. jobs' \in [Source -> Seq(Job)]
    BY <1>3, <2>1, <2>4 DEF TypeOK, DatabaseOK
  <2>6. [status |-> "available", last_success |-> job[r]] \in Shown
    BY <1>2 DEF Shown, CapabilityStatus, TaskOK
  <2>7. DatabaseOK'
    BY <1>3, <1>8, <2>5, <2>6 DEF WorkerSucceeds, s, TypeOK, DatabaseOK
  <2>8. TaskOK'
    BY <1>2, <1>8, <2>1, <2>2, PrepareType, SettleType, SettleLiterals DEF WorkerSucceeds
  <2> QED
    BY <1>1, <2>7, <2>8 DEF TypeOK
<1>9. CASE Close(r)
  <2> DEFINE o == pending[r]
             new == [jobs[s][job[r]] EXCEPT !.status = o.status, !.finished = TRUE]
             shown == [status |-> IF o.capability = "keep" THEN capability[s].status
                                  ELSE o.capability,
                       last_success |-> IF o.succeeded THEN job[r]
                                        ELSE capability[s].last_success]
  <2>1. o \in Pending /\ job[r] \in Nat
    BY <1>2 DEF TaskOK
  <2>2. job[r] \in DOMAIN jobs[s] => new \in Job
    <3>1. job[r] \in DOMAIN jobs[s] => jobs[s][job[r]] \in Job
      BY <1>4, ElementOfSeq
    <3>2. o.status \in JobStatus
      BY <2>1 DEF Pending
    <3> HIDE DEF o
    <3> QED
      BY <3>1, <3>2 DEF Job
  <2>3. [jobs[s] EXCEPT ![job[r]] = new] \in Seq(Job)
    BY <1>4, <2>2, SeqUpdate
  <2>4. jobs' = [jobs EXCEPT ![s] = [jobs[s] EXCEPT ![job[r]] = new]]
    BY <1>3, <1>9 DEF Close, s, TypeOK, DatabaseOK
  <2>5. jobs' \in [Source -> Seq(Job)]
    BY <1>3, <2>3, <2>4 DEF TypeOK, DatabaseOK
  <2>6. shown \in Shown
    BY <1>4, <2>1 DEF Shown, Pending
  <2>7. capability' = [capability EXCEPT ![s] = shown]
    BY <1>3, <1>9 DEF Close, s, TypeOK, DatabaseOK
  <2>8. DatabaseOK'
    <3>1. UNCHANGED <<lock, opRuns, opState>>
      BY <1>9 DEF Close
    <3> HIDE DEF shown
    <3> QED
      BY <1>3, <2>5, <2>6, <2>7, <3>1 DEF TypeOK, DatabaseOK
  <2>9. o.raises \in Exception
    BY <2>1 DEF Pending
  <2>10. TaskOK'
    BY <1>2, <1>9, <2>9, ResetTypes DEF Close, Forget, TaskOK, PC
  <2> QED
    BY <1>1, <2>8, <2>10 DEF TypeOK
<1>10. CASE Unlock(r)
  BY <1>1, <1>2, <1>3, <1>10 DEF Unlock, s, TypeOK, DatabaseOK, TaskOK, PC
<1>11. CASE FinalCommit(r)
  <2> DEFINE v == verdict[r]
             ended == [status |-> v.status, job |-> v.job]
             state == [last_status |-> v.status,
                       consecutive_failures |->
                          CASE v.status = "success" -> 0
                            [] v.status \in {"lock_skipped", "skipped"} ->
                                  opState[s].consecutive_failures
                            [] OTHER -> v.failures + 1]
  <2>1. v \in Verdict
    BY <1>2 DEF TaskOK
  <2>2. ended \in OpRun
    BY <2>1 DEF Verdict, OpRun
  <2>3. [opRuns[s] EXCEPT ![run[r]] = ended] \in Seq(OpRun)
    BY <1>4, <2>2, SeqUpdate
  <2>4. state \in OpState
    BY <1>4, <2>1 DEF Verdict, OpState
  <2>5. DatabaseOK'
    BY <1>3, <1>11, <2>3, <2>4 DEF FinalCommit, s, TypeOK, DatabaseOK
  <2>6. TaskOK'
    BY <1>2, <1>11, AdvanceType DEF FinalCommit
  <2> QED
    BY <1>1, <2>5, <2>6 DEF TypeOK
<1> QED
  BY <1>5, <1>6, <1>7, <1>8, <1>9, <1>10, <1>11

\* The steps of processes, of the pool, and the end.
LEMMA ProcessSteps ==
    ASSUME TypeOK,
           \/ \E i \in Instance : Launch(i) \/ Shutdown(i) \/ Stop(i)
           \/ \E r \in Runner : \E p \in Plans[r] : Start(r, p)
           \/ \E s \in Source : Reclaim(s)
           \/ Rest
    PROVE  TypeOK'
<1>1. ASSUME NEW i \in Instance, Launch(i) PROVE TypeOK'
  <2>1. DatabaseOK' /\ ControlOK'
    BY <1>1 DEF Launch, TypeOK, DatabaseOK, ControlOK, database
  <2>2. CASE UNCHANGED local
    BY <2>1, <2>2 DEF TypeOK, TaskOK, local
  <2>3. ASSUME NEW r \in Runner, NEW p \in Plans[r], TakeUp(r, p) PROVE TaskOK'
    BY <2>3, TakeUpType DEF TypeOK
  <2> QED
    BY <1>1, <2>1, <2>2, <2>3, ConstantsAssumption DEF Launch, TypeOK
<1>2. ASSUME NEW i \in Instance, Shutdown(i) PROVE TypeOK'
  BY <1>2 DEF Shutdown, TypeOK, DatabaseOK, ControlOK, TaskOK, database, local
<1>3. ASSUME NEW i \in Instance, Stop(i) PROVE TypeOK'
  <2>1. DatabaseOK'
    BY <1>3 DEF Stop, TypeOK, DatabaseOK
  <2>2. ControlOK'
    BY <1>3 DEF Stop, TypeOK, ControlOK
  <2>3. TaskOK'
    <3>1. << >> \in Seq(Source) /\ "idle" \in PC /\ "none" \in Exception
      BY DEF PC, Exception
    <3>2. /\ pc' \in [Runner -> PC] /\ plan' \in [Runner -> Seq(Source)]
          /\ \A r \in Runner : pc'[r] # "idle" => plan'[r] # << >>
      BY <1>3, <3>1 DEF Stop, TypeOK, TaskOK
    <3>3. /\ previous' \in [Runner -> Nat] /\ run' \in [Runner -> Nat]
          /\ job' \in [Runner -> Nat]
      BY <1>3 DEF Stop, TypeOK, TaskOK
    <3>4. /\ pending' \in [Runner -> Pending] /\ raised' \in [Runner -> Exception]
          /\ verdict' \in [Runner -> Verdict]
      BY <1>3, <3>1, ResetTypes DEF Stop, TypeOK, TaskOK
    <3> QED
      BY <3>2, <3>3, <3>4 DEF TaskOK
  <2> QED
    BY <2>1, <2>2, <2>3 DEF TypeOK
<1>4. ASSUME NEW r \in Runner, NEW p \in Plans[r], Start(r, p) PROVE TypeOK'
  BY <1>4, TakeUpType DEF Start, TypeOK, DatabaseOK, ControlOK, database, control
<1>5. ASSUME NEW s \in Source, Reclaim(s) PROVE TypeOK'
  BY <1>5 DEF Reclaim, TypeOK, DatabaseOK, ControlOK, TaskOK, control, local
<1>6. CASE Rest
  BY <1>6 DEF Rest, vars, TypeOK, DatabaseOK, ControlOK, TaskOK
<1> QED
  BY <1>1, <1>2, <1>3, <1>4, <1>5, <1>6

\* The initial states are typed.
LEMMA TypeInit == Init => TypeOK
<1> SUFFICES ASSUME Init PROVE TypeOK
  OBVIOUS
<1>1. DatabaseOK
  BY DEF Init, Fresh, DatabaseOK, Shown, CapabilityStatus, OpState
<1>2. ControlOK
  BY DEF Init, Fresh, ControlOK
<1>3. TaskOK
  BY ResetTypes DEF Init, Fresh, TaskOK, PC, Exception
<1> QED
  BY <1>1, <1>2, <1>3 DEF TypeOK

\* Every step keeps the types.
LEMMA TypeNext == TypeOK /\ [Next]_vars => TypeOK'
<1> SUFFICES ASSUME TypeOK, [Next]_vars PROVE TypeOK'
  OBVIOUS
<1>1. CASE UNCHANGED vars
  BY <1>1 DEF vars, TypeOK, DatabaseOK, ControlOK, TaskOK
<1>2. CASE Next
  BY <1>2, SessionSteps, DatabaseSteps, ProcessSteps DEF Next, Step, Cancel
<1> QED
  BY <1>1, <1>2

(* Every reachable state is well-typed.                                     *)
THEOREM TypeCorrect == Spec => []TypeOK
  BY TypeInit, TypeNext, PTL DEF Spec
-----------------------------------------------------------------------------
(* Mutual exclusion.                                                        *)

(* Two tasks never hold one lock.                                           *)
LEMMA Exclusion ==
    ASSUME LockIsHeld, NEW q \in Runner, NEW r \in Runner,
           pc[q] \in Critical, pc[r] \in Critical, Current(q) = Current(r)
    PROVE  q = r
BY DEF LockIsHeld

\* What the other tasks see of a step of one task: nothing.
Alone(r) ==
    \A q \in Runner \ {r} : /\ pc'[q] = pc[q]
                            /\ plan'[q] = plan[q]
                            /\ job'[q] = job[q]

\* A step of a task changes nothing that is local to another task.
LEMMA StepAlone ==
    ASSUME TypeOK, NEW r \in Runner, Step(r) \/ Cancel(r)
    PROVE  Alone(r)
<1>1. CASE Begin(r)
  BY <1>1 DEF Begin, Alone, TypeOK, TaskOK
<1>2. CASE TryLock(r)
  BY <1>2 DEF TryLock, Alone, TypeOK, TaskOK
<1>3. CASE InsertJob(r)
  BY <1>3 DEF InsertJob, Alone, TypeOK, TaskOK
<1>4. CASE OpenClient(r)
  BY <1>4 DEF OpenClient, Prepare, Escape, Forget, Alone, TypeOK, TaskOK
<1>5. CASE WorkerSucceeds(r)
  BY <1>5 DEF WorkerSucceeds, Prepare, Alone, TypeOK, TaskOK
<1>6. CASE WorkerEnds(r)
  BY <1>6 DEF WorkerEnds, Prepare, Alone, TypeOK, TaskOK
<1>7. CASE Close(r)
  BY <1>7 DEF Close, Forget, Alone, TypeOK, TaskOK
<1>8. CASE Unlock(r)
  BY <1>8 DEF Unlock, Alone, TypeOK, TaskOK
<1>9. CASE FinalRead(r) \/ FinalCommit(r) \/ Return(r) \/ CancelInstrument(r)
  BY <1>9 DEF FinalRead, FinalCommit, Return, CancelInstrument, Advance, Alone, TypeOK, TaskOK
<1>10. CASE CancelWork(r) \/ CancelElsewhere(r)
  BY <1>10 DEF CancelWork, CancelElsewhere, Prepare, Escape, Forget, Alone, TypeOK, TaskOK
<1> QED
  BY <1>1, <1>2, <1>3, <1>4, <1>5, <1>6, <1>7, <1>8, <1>9, <1>10 DEF Step, Cancel

\* What a step does to the locks.
LEMMA LockSteps ==
    ASSUME TypeOK, NEW r \in Runner, Step(r) \/ Cancel(r)
    PROVE  \/ UNCHANGED lock
           \/ TryLock(r) /\ lock[Current(r)] = Nobody /\ lock' = [lock EXCEPT ![Current(r)] = r]
           \/ Unlock(r) /\ lock' = [lock EXCEPT ![Current(r)] = Nobody]
BY DEF Step, Cancel, Begin, TryLock, InsertJob, OpenClient, WorkerSucceeds, WorkerEnds, Close,
       Unlock, FinalRead, FinalCommit, Return, CancelWork, CancelElsewhere, CancelInstrument,
       database

\* A task is critical after a step only if it has just taken the lock, or was
\* critical before and has not released it.
LEMMA CriticalSteps ==
    ASSUME TypeOK, NEW r \in Runner, Step(r) \/ Cancel(r), pc'[r] \in Critical
    PROVE  /\ plan'[r] = plan[r]
           /\ \/ TryLock(r) /\ lock[Current(r)] = Nobody
              \/ pc[r] \in Critical /\ ~Unlock(r) /\ ~TryLock(r)
<1>1. CASE Begin(r) \/ FinalRead(r)
  BY <1>1 DEF Begin, FinalRead, TypeOK, TaskOK, Critical
<1>2. CASE TryLock(r)
  BY <1>2 DEF TryLock, TypeOK, TaskOK, Critical
<1>3. CASE InsertJob(r) \/ OpenClient(r) \/ WorkerSucceeds(r) \/ WorkerEnds(r)
  BY <1>3 DEF InsertJob, OpenClient, WorkerSucceeds, WorkerEnds, Prepare, Escape, Unlock,
              TryLock, TypeOK, TaskOK, Critical
<1>4. CASE Close(r) \/ Unlock(r)
  BY <1>4 DEF Close, Unlock, TryLock, TypeOK, TaskOK, Critical
<1>5. CASE FinalCommit(r) \/ Return(r) \/ CancelInstrument(r)
  BY <1>5 DEF FinalCommit, Return, CancelInstrument, Advance, TypeOK, TaskOK, Critical
<1>6. CASE CancelWork(r) \/ CancelElsewhere(r)
  BY <1>6 DEF CancelWork, CancelElsewhere, Prepare, Escape, Unlock, TryLock, TypeOK, TaskOK,
              Critical
<1> QED
  BY <1>1, <1>2, <1>3, <1>4, <1>5, <1>6 DEF Step, Cancel

\* A step of one task leaves the locks of the others alone.
LEMMA LockOfTask ==
    ASSUME TypeOK, LockIsHeld, NEW r \in Runner, Step(r) \/ Cancel(r)
    PROVE  LockIsHeld'
<1> SUFFICES ASSUME NEW q \in Runner, pc'[q] \in Critical
             PROVE  lock'[plan'[q][1]] = q
  BY DEF LockIsHeld, Current
<1>1. lock \in [Source -> Runner \cup {Nobody}]
  BY DEF TypeOK, DatabaseOK
<1>2. CASE q = r
  <2>1. plan'[r] = plan[r]
    BY <1>2, CriticalSteps
  <2>2. pc[r] # "idle" /\ Current(r) \in Source
    BY <1>2, CriticalSteps, CurrentType DEF TypeOK, TryLock, Critical
  <2>3. CASE TryLock(r) /\ lock[Current(r)] = Nobody
    BY <1>1, <1>2, <2>1, <2>2, <2>3 DEF TryLock, Current
  <2>4. CASE pc[r] \in Critical /\ ~Unlock(r) /\ ~TryLock(r)
    BY <1>2, <2>1, <2>4, LockSteps DEF LockIsHeld, Current
  <2> QED
    BY <1>2, <2>3, <2>4, CriticalSteps
<1>3. CASE q # r
  <2>1. pc[q] \in Critical /\ plan'[q] = plan[q]
    BY <1>3, StepAlone DEF Alone
  <2>2. lock[Current(q)] = q /\ q # Nobody
    BY <2>1, NobodyAssumption DEF LockIsHeld
  <2>3. Unlock(r) => lock[Current(r)] = r
    BY DEF Unlock, LockIsHeld, Critical
  <2>4. pc[q] # "idle" /\ pc[r] # "idle"
    BY <2>1 DEF Critical, Step, Cancel, Begin, TryLock, InsertJob, OpenClient, WorkerSucceeds,
                WorkerEnds, Close, Unlock, FinalRead, FinalCommit, Return, CancelWork,
                CancelElsewhere, CancelInstrument
  <2>5. Current(q) \in Source /\ Current(r) \in Source
    BY <2>4, CurrentType DEF TypeOK
  <2>6. lock'[Current(q)] = q
    <3>1. CASE UNCHANGED lock
      BY <2>2, <3>1
    <3>2. CASE lock[Current(r)] = Nobody /\ lock' = [lock EXCEPT ![Current(r)] = r]
      BY <1>1, <2>2, <2>5, <3>2
    <3>3. CASE Unlock(r) /\ lock' = [lock EXCEPT ![Current(r)] = Nobody]
      BY <1>1, <1>3, <2>2, <2>3, <2>5, <3>3
    <3> QED
      BY <3>1, <3>2, <3>3, LockSteps
  <2> QED
    BY <2>1, <2>6 DEF Current
<1> QED
  BY <1>2, <1>3

\* At first nobody is critical.
LEMMA LockInit == Init => LockIsHeld
BY DEF Init, Fresh, LockIsHeld, Critical

\* A critical task keeps its lock, whatever step is taken.
LEMMA LockNext == TypeOK /\ LockIsHeld /\ [Next]_vars => LockIsHeld'
<1> SUFFICES ASSUME TypeOK, LockIsHeld, [Next]_vars PROVE LockIsHeld'
  OBVIOUS
<1>1. CASE UNCHANGED vars \/ Rest
  BY <1>1 DEF vars, Rest, LockIsHeld, Current
<1>2. ASSUME NEW i \in Instance, Launch(i) PROVE LockIsHeld'
  BY <1>2 DEF Launch, TakeUp, LockIsHeld, Current, Critical, database, local, TypeOK, TaskOK
<1>3. ASSUME NEW i \in Instance, Shutdown(i) PROVE LockIsHeld'
  BY <1>3 DEF Shutdown, LockIsHeld, Current, database, local
<1>4. ASSUME NEW i \in Instance, Stop(i) PROVE LockIsHeld'
  <2> SUFFICES ASSUME NEW q \in Runner, pc'[q] \in Critical
               PROVE  lock'[plan'[q][1]] = q
    BY DEF LockIsHeld, Current
  <2>1. Host[q] # i /\ pc'[q] = pc[q] /\ plan'[q] = plan[q]
    BY <1>4 DEF Stop, Critical
  <2>2. pc[q] # "idle" /\ lock[Current(q)] = q
    BY <2>1 DEF LockIsHeld, Critical
  <2>3. Current(q) \in Source
    BY <2>2, CurrentType DEF TypeOK
  <2>4. lock'[Current(q)] = q
    BY <1>4, <2>1, <2>2, <2>3 DEF Stop
  <2> QED
    BY <2>1, <2>4 DEF Current
<1>5. ASSUME NEW r \in Runner, NEW p \in Plans[r], Start(r, p) PROVE LockIsHeld'
  BY <1>5 DEF Start, TakeUp, LockIsHeld, Current, Critical, database, TypeOK, TaskOK
<1>6. ASSUME NEW s \in Source, Reclaim(s) PROVE LockIsHeld'
  <2> SUFFICES ASSUME NEW q \in Runner, pc'[q] \in Critical
               PROVE  lock'[plan'[q][1]] = q
    BY DEF LockIsHeld, Current
  <2>1. pc[q] \in Critical /\ plan'[q] = plan[q] /\ lock[Current(q)] = q
    BY <1>6 DEF Reclaim, local, LockIsHeld
  <2>2. s # Current(q)
    BY <1>6, <2>1 DEF Reclaim, Engaged
  <2>3. lock' = [lock EXCEPT ![s] = Nobody]
    BY <1>6 DEF Reclaim
  <2>4. lock \in [Source -> Runner \cup {Nobody}]
    BY DEF TypeOK, DatabaseOK
  <2>5. pc[q] # "idle"
    BY <2>1 DEF Critical
  <2>6. Current(q) \in Source
    BY <2>5, CurrentType DEF TypeOK
  <2> QED
    BY <2>1, <2>2, <2>3, <2>4, <2>6 DEF Current
<1> QED
  BY <1>1, <1>2, <1>3, <1>4, <1>5, <1>6, LockOfTask DEF Next
-----------------------------------------------------------------------------
(* The job history.                                                         *)

\* Only the task that is critical for a source writes its history.
LEMMA HistorySteps ==
    ASSUME TypeOK, NEW r \in Runner, Step(r) \/ Cancel(r)
    PROVE  \/ UNCHANGED jobs
           \/ /\ InsertJob(r) \/ WorkerSucceeds(r) \/ Close(r)
              /\ pc[r] \in Critical /\ Current(r) \in Source
              /\ \A s \in Source \ {Current(r)} : jobs'[s] = jobs[s]
<1>1. CASE InsertJob(r) \/ WorkerSucceeds(r) \/ Close(r)
  <2>1. pc[r] \in Critical /\ pc[r] # "idle"
    BY <1>1 DEF InsertJob, WorkerSucceeds, Close, Critical
  <2>2. \A s \in Source \ {Current(r)} : jobs'[s] = jobs[s]
    BY <1>1 DEF InsertJob, WorkerSucceeds, Close, TypeOK, DatabaseOK
  <2> QED
    BY <1>1, <2>1, <2>2, CurrentType DEF TypeOK
<1>2. CASE ~(InsertJob(r) \/ WorkerSucceeds(r) \/ Close(r))
  BY <1>2 DEF Step, Cancel, Begin, TryLock, OpenClient, WorkerEnds, Unlock, FinalRead,
              FinalCommit, Return, CancelWork, CancelElsewhere, CancelInstrument, database
<1> QED
  BY <1>1, <1>2

\* The rows of one source after each of the three writing steps.
LEMMA InsertRows ==
    ASSUME TypeOK, NEW r \in Runner, InsertJob(r), Current(r) \in Source
    PROVE  /\ Len(jobs'[Current(r)]) = Latest(Current(r)) + 1
           /\ ~jobs'[Current(r)][Latest(Current(r)) + 1].finished
           /\ \A k \in 1 .. Latest(Current(r)) : jobs'[Current(r)][k] = jobs[Current(r)][k]
<1> DEFINE s == Current(r)
           new == [status |-> "running", finished |-> FALSE,
                   run |-> IF r \in Instrumented THEN run[r] ELSE 0]
<1>1. jobs[s] \in Seq(Job)
  BY DEF TypeOK, DatabaseOK
<1>2. new \in Job
  BY DEF Job, JobStatus, TypeOK, TaskOK
<1>3. jobs'[s] = Append(jobs[s], new)
  BY DEF InsertJob, TypeOK, DatabaseOK
<1>4. new.finished = FALSE
  OBVIOUS
<1> HIDE DEF s, new
<1>5. /\ Len(jobs'[s]) = Len(jobs[s]) + 1
      /\ jobs'[s][Len(jobs[s]) + 1] = new
      /\ \A k \in 1 .. Len(jobs[s]) : jobs'[s][k] = jobs[s][k]
  BY <1>1, <1>2, <1>3, AppendProperties
<1> QED
  BY <1>4, <1>5 DEF Latest, s

\* A result changes one row, and no row is added or lost.
LEMMA ResultRows ==
    ASSUME TypeOK, NEW r \in Runner, WorkerSucceeds(r) \/ Close(r), Current(r) \in Source
    PROVE  /\ DOMAIN jobs'[Current(r)] = DOMAIN jobs[Current(r)]
           /\ Len(jobs'[Current(r)]) = Latest(Current(r))
           /\ \A k \in DOMAIN jobs[Current(r)] \ {job[r]} :
                 jobs'[Current(r)][k] = jobs[Current(r)][k]
           /\ WorkerSucceeds(r) /\ job[r] \in DOMAIN jobs[Current(r)] =>
                 jobs'[Current(r)][job[r]].finished = jobs[Current(r)][job[r]].finished
<1> DEFINE s == Current(r)
<1>1. jobs[s] \in Seq(Job)
  BY DEF TypeOK, DatabaseOK
<1>2. ASSUME NEW e, jobs'[s] = [jobs[s] EXCEPT ![job[r]] = e], jobs'[s] \in Seq(Job)
      PROVE  /\ DOMAIN jobs'[s] = DOMAIN jobs[s]
             /\ Len(jobs'[s]) = Len(jobs[s])
             /\ \A k \in DOMAIN jobs[s] \ {job[r]} : jobs'[s][k] = jobs[s][k]
             /\ job[r] \in DOMAIN jobs[s] => jobs'[s][job[r]] = e
  <2>1. DOMAIN jobs'[s] = DOMAIN jobs[s]
    BY <1>1, <1>2
  <2>2. Len(jobs'[s]) = Len(jobs[s])
    BY <1>1, <1>2, <2>1, LenProperties
  <2> QED
    BY <1>1, <1>2, <2>1, <2>2
<1>3. TypeOK'
  BY DatabaseSteps
<1>4. jobs'[s] \in Seq(Job)
  BY <1>3 DEF TypeOK, DatabaseOK
<1>5. CASE WorkerSucceeds(r)
  <2>1. PICK status \in Good : jobs' = [jobs EXCEPT ![s][job[r]].status = status]
    BY <1>5 DEF WorkerSucceeds
  <2> DEFINE e == [jobs[s][job[r]] EXCEPT !.status = status]
  <2>2. jobs'[s] = [jobs[s] EXCEPT ![job[r]] = e]
    BY <2>1 DEF TypeOK, DatabaseOK
  <2>3. job[r] \in DOMAIN jobs[s] => e.finished = jobs[s][job[r]].finished
    <3>1. job[r] \in DOMAIN jobs[s] => jobs[s][job[r]] \in Job
      BY <1>1, ElementOfSeq
    <3> QED
      BY <3>1 DEF Job
  <2> HIDE DEF e, s
  <2>4. /\ DOMAIN jobs'[s] = DOMAIN jobs[s]
        /\ Len(jobs'[s]) = Len(jobs[s])
        /\ \A k \in DOMAIN jobs[s] \ {job[r]} : jobs'[s][k] = jobs[s][k]
        /\ job[r] \in DOMAIN jobs[s] => jobs'[s][job[r]] = e
    BY <1>2, <1>4, <2>2
  <2> QED
    BY <2>3, <2>4 DEF Latest, s
<1>6. CASE Close(r)
  <2> DEFINE e == [jobs[s][job[r]] EXCEPT !.status = pending[r].status, !.finished = TRUE]
  <2>1. jobs'[s] = [jobs[s] EXCEPT ![job[r]] = e]
    BY <1>6 DEF Close, TypeOK, DatabaseOK
  <2>2. ~WorkerSucceeds(r)
    BY <1>6 DEF Close, WorkerSucceeds
  <2> HIDE DEF e, s
  <2>3. /\ DOMAIN jobs'[s] = DOMAIN jobs[s]
        /\ Len(jobs'[s]) = Len(jobs[s])
        /\ \A k \in DOMAIN jobs[s] \ {job[r]} : jobs'[s][k] = jobs[s][k]
    BY <1>2, <1>4, <2>1
  <2> QED
    BY <2>2, <2>3 DEF Latest, s
<1> QED
  BY <1>5, <1>6

\* Where a task that works on a job after a step was before it.
LEMMA WorkingSteps ==
    ASSUME TypeOK, NEW r \in Runner, Step(r) \/ Cancel(r), pc'[r] \in Working
    PROVE  \/ InsertJob(r)
           \/ /\ WorkerSucceeds(r) \/ UNCHANGED jobs
              /\ pc[r] \in Working /\ job'[r] = job[r] /\ plan'[r] = plan[r]
<1>1. CASE Begin(r) \/ FinalRead(r) \/ TryLock(r)
  BY <1>1 DEF Begin, FinalRead, TryLock, TypeOK, TaskOK, Working
<1>2. CASE InsertJob(r)
  BY <1>2
<1>3. CASE OpenClient(r) \/ WorkerEnds(r)
  BY <1>3 DEF OpenClient, WorkerEnds, Prepare, Escape, database, TypeOK, TaskOK, Working
<1>4. CASE WorkerSucceeds(r)
  BY <1>4 DEF WorkerSucceeds, Prepare, Working
<1>5. CASE Close(r) \/ Unlock(r)
  BY <1>5 DEF Close, Unlock, TypeOK, TaskOK, Working
<1>6. CASE FinalCommit(r) \/ Return(r) \/ CancelInstrument(r)
  BY <1>6 DEF FinalCommit, Return, CancelInstrument, Advance, TypeOK, TaskOK, Working
<1>7. CASE CancelWork(r) \/ CancelElsewhere(r)
  BY <1>7 DEF CancelWork, CancelElsewhere, Prepare, Escape, database, TypeOK, TaskOK, Working
<1> QED
  BY <1>1, <1>2, <1>3, <1>4, <1>5, <1>6, <1>7 DEF Step, Cancel

\* The steps of a task keep every open job the newest of its source.
LEMMA NewestOfTask ==
    ASSUME IInv, NEW r \in Runner, Step(r) \/ Cancel(r)
    PROVE  OpenJobIsNewest'
<1> USE DEF IInv
<1> SUFFICES ASSUME NEW q \in Runner, pc'[q] \in Working
             PROVE  /\ job'[q] = Len(jobs'[plan'[q][1]]) /\ job'[q] > 0
                    /\ ~jobs'[plan'[q][1]][job'[q]].finished
  BY DEF OpenJobIsNewest, Current, Latest
<1>1. ASSUME pc[q] \in Working
      PROVE  /\ job[q] = Len(jobs[Current(q)]) /\ job[q] > 0
             /\ ~jobs[Current(q)][job[q]].finished
             /\ Current(q) \in Source /\ job[q] \in DOMAIN jobs[Current(q)]
  <2>1. pc[q] # "idle"
    BY <1>1 DEF Working
  <2>2. Current(q) \in Source
    BY <2>1, CurrentType DEF TypeOK
  <2>3. jobs[Current(q)] \in Seq(Job)
    BY <2>2 DEF TypeOK, DatabaseOK
  <2>4. job[q] = Len(jobs[Current(q)]) /\ job[q] > 0 /\ ~jobs[Current(q)][job[q]].finished
    BY <1>1 DEF OpenJobIsNewest, Latest
  <2> QED
    BY <2>2, <2>3, <2>4
<1>2. CASE q # r
  <2>1. pc[q] \in Working /\ plan'[q] = plan[q] /\ job'[q] = job[q]
    BY <1>2, StepAlone DEF Alone
  <2>2. pc[q] \in Critical
    BY <2>1 DEF Working, Critical
  <2>3. jobs'[Current(q)] = jobs[Current(q)]
    BY <1>1, <1>2, <2>1, <2>2, HistorySteps, Exclusion
  <2> QED
    BY <1>1, <2>1, <2>3 DEF Current
<1>3. CASE q = r
  <2>1. CASE InsertJob(r)
    <3>1. Current(r) \in Source
      BY <2>1, CurrentType DEF InsertJob, TypeOK
    <3>2. job'[r] = Latest(Current(r)) + 1 /\ plan'[r] = plan[r] /\ Latest(Current(r)) \in Nat
      BY <2>1, <3>1 DEF InsertJob, TypeOK, TaskOK, DatabaseOK, Latest
    <3> QED
      BY <1>3, <2>1, <3>1, <3>2, InsertRows DEF Current
  <2>2. CASE UNCHANGED jobs /\ pc[r] \in Working /\ job'[r] = job[r] /\ plan'[r] = plan[r]
    BY <1>1, <1>3, <2>2 DEF Current
  <2>3. CASE WorkerSucceeds(r) /\ pc[r] \in Working /\ job'[r] = job[r] /\ plan'[r] = plan[r]
    BY <1>1, <1>3, <2>3, ResultRows DEF Current, Latest
  <2> QED
    BY <1>3, <2>1, <2>2, <2>3, WorkingSteps
<1> QED
  BY <1>2, <1>3

\* So do all other steps.
LEMMA NewestNext == IInv /\ [Next]_vars => OpenJobIsNewest'
<1> SUFFICES ASSUME IInv, [Next]_vars PROVE OpenJobIsNewest'
  OBVIOUS
<1> USE DEF IInv
<1>1. CASE UNCHANGED vars \/ Rest
  BY <1>1 DEF vars, Rest, OpenJobIsNewest, Current, Latest
<1>2. ASSUME NEW i \in Instance, Launch(i) PROVE OpenJobIsNewest'
  BY <1>2 DEF Launch, TakeUp, OpenJobIsNewest, Current, Latest, Working, database, local,
              TypeOK, TaskOK
<1>3. ASSUME NEW i \in Instance, Shutdown(i) \/ Stop(i) PROVE OpenJobIsNewest'
  <2> SUFFICES ASSUME NEW q \in Runner, pc'[q] \in Working
               PROVE  /\ job'[q] = Len(jobs'[plan'[q][1]]) /\ job'[q] > 0
                      /\ ~jobs'[plan'[q][1]][job'[q]].finished
    BY DEF OpenJobIsNewest, Current, Latest
  <2>1. UNCHANGED jobs
    BY <1>3 DEF Shutdown, Stop, database
  <2>2. pc'[q] = pc[q] /\ plan'[q] = plan[q] /\ job'[q] = job[q]
    BY <1>3 DEF Shutdown, Stop, local, Working
  <2> QED
    BY <2>1, <2>2 DEF OpenJobIsNewest, Current, Latest
<1>4. ASSUME NEW r \in Runner, NEW p \in Plans[r], Start(r, p) PROVE OpenJobIsNewest'
  BY <1>4 DEF Start, TakeUp, OpenJobIsNewest, Current, Latest, Working, database,
              TypeOK, TaskOK
<1>5. ASSUME NEW s \in Source, Reclaim(s) PROVE OpenJobIsNewest'
  BY <1>5 DEF Reclaim, OpenJobIsNewest, Current, Latest, local
<1> QED
  BY <1>1, <1>2, <1>3, <1>4, <1>5, NewestOfTask DEF Next

(* The invariant is inductive, so it holds in every reachable state.        *)
THEOREM Invariance == Spec => []IInv
<1>1. Init => IInv
  BY TypeInit, LockInit DEF Init, Fresh, IInv, OpenJobIsNewest, Working
<1>2. IInv /\ [Next]_vars => IInv'
  BY TypeNext, LockNext, NewestNext DEF IInv
<1> QED
  BY <1>1, <1>2, PTL DEF Spec

(* However many backends, schedulers, requests and crashes: two tasks never *)
(* synchronize one source at the same time.                                 *)
THEOREM MutualExclusion == Spec => []OneTaskPerSource
<1>1. IInv => OneTaskPerSource
  BY Exclusion DEF IInv, OneTaskPerSource, Engaged
<1> QED
  BY <1>1, Invariance, PTL

(* The job a task works on is the newest of its source and unfinished.      *)
THEOREM NewestJob == Spec => []OpenJobIsNewest
<1>1. IInv => OpenJobIsNewest
  BY DEF IInv
<1> QED
  BY <1>1, Invariance, PTL

\* What a step leaves of the history.
HistoryIsKept ==
    \A s \in Source : \A k \in DOMAIN jobs[s] :
       jobs[s][k].finished \/ k < Latest(s) =>
          k \in DOMAIN jobs'[s] /\ jobs'[s][k] = jobs[s][k]

\* A step changes no job that is finished or superseded.
LEMMA KeepsHistory == ASSUME IInv, [Next]_vars PROVE HistoryIsKept
<1> USE DEF IInv
<1>1. CASE UNCHANGED jobs
  BY <1>1 DEF HistoryIsKept
<1>2. ASSUME NEW r \in Runner, Step(r) \/ Cancel(r), ~UNCHANGED jobs PROVE HistoryIsKept
  <2> SUFFICES ASSUME NEW s \in Source, NEW k \in DOMAIN jobs[s],
                      jobs[s][k].finished \/ k < Latest(s)
               PROVE  k \in DOMAIN jobs'[s] /\ jobs'[s][k] = jobs[s][k]
    BY DEF HistoryIsKept
  <2>1. /\ InsertJob(r) \/ WorkerSucceeds(r) \/ Close(r)
        /\ Current(r) \in Source
        /\ s # Current(r) => jobs'[s] = jobs[s]
    BY <1>2, HistorySteps
  <2>2. jobs[s] \in Seq(Job) /\ jobs'[s] \in Seq(Job)
    BY TypeNext DEF TypeOK, DatabaseOK
  <2>3. CASE s # Current(r)
    BY <2>1, <2>3
  <2>4. CASE s = Current(r) /\ InsertJob(r)
    BY <2>2, <2>4, InsertRows DEF Latest
  <2>5. CASE s = Current(r) /\ (WorkerSucceeds(r) \/ Close(r))
    <3>1. pc[r] \in Working
      BY <2>5 DEF WorkerSucceeds, Close, Working
    <3>2. k # job[r]
      BY <2>2, <2>5, <3>1 DEF OpenJobIsNewest, Latest
    <3> QED
      BY <2>5, <3>2, ResultRows
  <2> QED
    BY <2>1, <2>3, <2>4, <2>5
<1>3. [Next]_vars => UNCHANGED jobs \/ \E r \in Runner : Step(r) \/ Cancel(r)
  BY DEF Next, Launch, Shutdown, Stop, Start, Reclaim, Rest, vars, database
<1> QED
  BY <1>1, <1>2, <1>3

(* A finished or superseded job never changes again.                        *)
THEOREM FinalHistory == Spec => HistoryIsFinal
<1>1. IInv /\ [Next]_vars => [HistoryIsKept]_vars
  BY KeepsHistory
<1> QED
  BY <1>1, Invariance, PTL DEF Spec, HistoryIsFinal, HistoryIsKept
-----------------------------------------------------------------------------
(* The refinement mapping.                                                  *)

\* The ledger has one phase for each job.
PhasesOK ==
    \A s \in Source :
       /\ jobs[s] \in Seq(Job) /\ Latest(s) \in Nat /\ DOMAIN jobs[s] = 1 .. Latest(s)
       /\ Phases[s] \in Seq(Ledger!Phase) /\ Len(Phases[s]) = Latest(s)
       /\ \A k \in 1 .. Latest(s) : Phases[s][k] = PhaseOf(s, k)

\* Phases is a ledger with one phase for each job.
LEMMA PhasesType == TypeOK => PhasesOK
<1> SUFFICES ASSUME TypeOK, NEW s \in Source
             PROVE  /\ jobs[s] \in Seq(Job) /\ Latest(s) \in Nat
                    /\ DOMAIN jobs[s] = 1 .. Latest(s)
                    /\ Phases[s] \in Seq(Ledger!Phase) /\ Len(Phases[s]) = Latest(s)
                    /\ \A k \in 1 .. Latest(s) : Phases[s][k] = PhaseOf(s, k)
  BY DEF PhasesOK
<1>1. jobs[s] \in Seq(Job) /\ Latest(s) \in Nat /\ DOMAIN jobs[s] = 1 .. Latest(s)
  BY DEF TypeOK, DatabaseOK, Latest
<1>2. \A k : PhaseOf(s, k) \in Ledger!Phase
  BY DEF PhaseOf, Ledger!Phase
<1>3. Phases[s] = [k \in 1 .. Latest(s) |-> PhaseOf(s, k)]
  BY <1>1 DEF Phases
<1>4. Phases[s] \in [1 .. Latest(s) -> Ledger!Phase]
  BY <1>2, <1>3
<1>5. Phases[s] \in Seq(Ledger!Phase) /\ Len(Phases[s]) = Latest(s)
  BY <1>1, <1>4, SeqDef, LenProperties
<1> QED
  BY <1>1, <1>3, <1>5

\* The same of the state after a step.
LEMMA PhasesPrimed == TypeOK' => PhasesOK'
  BY PhasesType, PTL
-----------------------------------------------------------------------------
(* The steps that write no job can only abandon executions.                 *)

\* A task that works on a job after such a step worked on it before.
Stays(q) ==
    pc'[q] \in Working => pc[q] \in Working /\ plan'[q] = plan[q] /\ job'[q] = job[q]

\* In a step that writes no job, no task comes to work on a job.
LEMMA NothingOpens ==
    ASSUME TypeOK, [Next]_vars, UNCHANGED jobs, NEW q \in Runner
    PROVE  Stays(q)
<1>1. CASE UNCHANGED vars \/ Rest
  BY <1>1 DEF vars, Rest, Stays
<1>2. ASSUME NEW i \in Instance, Launch(i) PROVE Stays(q)
  BY <1>2 DEF Launch, TakeUp, local, Working, Stays, TypeOK, TaskOK
<1>3. ASSUME NEW i \in Instance, Shutdown(i) \/ Stop(i) PROVE Stays(q)
  BY <1>3 DEF Shutdown, Stop, local, Working, Stays
<1>4. ASSUME NEW r \in Runner, NEW p \in Plans[r], Start(r, p) PROVE Stays(q)
  BY <1>4 DEF Start, TakeUp, Working, Stays, TypeOK, TaskOK
<1>5. ASSUME NEW s \in Source, Reclaim(s) PROVE Stays(q)
  BY <1>5 DEF Reclaim, local, Stays
<1>6. ASSUME NEW r \in Runner, Step(r) \/ Cancel(r) PROVE Stays(q)
  <2>1. CASE q # r
    BY <1>6, <2>1, StepAlone DEF Alone, Stays
  <2>2. ~InsertJob(r)
    <3> SUFFICES ASSUME InsertJob(r) PROVE FALSE
      OBVIOUS
    <3>1. Current(r) \in Source
      BY CurrentType DEF InsertJob, TypeOK
    <3>2. Latest(Current(r)) \in Nat /\ Len(jobs'[Current(r)]) = Latest(Current(r)) + 1
      BY <3>1, InsertRows, PhasesType DEF PhasesOK
    <3> QED
      BY <3>2 DEF Latest
  <2>3. CASE q = r
    BY <1>6, <2>2, <2>3, WorkingSteps DEF Stays
  <2> QED
    BY <2>1, <2>3
<1> QED
  BY <1>1, <1>2, <1>3, <1>4, <1>5, <1>6 DEF Next

\* A step that writes no job abandons some executions, or none.
LEMMA Abandons ==
    ASSUME TypeOK, [Next]_vars, UNCHANGED jobs
    PROVE  Ledger!Abandon
<1>1. PhasesOK /\ PhasesOK'
  BY TypeNext, PhasesType, PhasesPrimed
<1>2. Phases' \in [Source -> Seq(Ledger!Phase)]
  BY <1>1 DEF PhasesOK, Phases
<1>3. ASSUME NEW s \in Source
      PROVE  /\ Len(Phases'[s]) = Len(Phases[s])
             /\ \A k \in DOMAIN Phases'[s] :
                   \/ Phases'[s][k] = Phases[s][k]
                   \/ Phases[s][k] = "open" /\ Phases'[s][k] = "abandoned"
  <2>1. Latest(s)' = Latest(s)
    BY DEF Latest
  <2>2. Len(Phases'[s]) = Len(Phases[s]) /\ DOMAIN Phases'[s] = 1 .. Latest(s)
    BY <1>1, <2>1 DEF PhasesOK
  <2>3. ASSUME NEW k \in 1 .. Latest(s)
        PROVE  \/ Phases'[s][k] = Phases[s][k]
               \/ Phases[s][k] = "open" /\ Phases'[s][k] = "abandoned"
    <3>1. Phases[s][k] = PhaseOf(s, k) /\ Phases'[s][k] = PhaseOf(s, k)'
      BY <1>1, <2>1 DEF PhasesOK
    <3>2. Open(s, k)' => Open(s, k)
      BY NothingOpens DEF Open, Current, Stays
    <3> QED
      BY <3>1, <3>2 DEF PhaseOf
  <2> QED
    BY <2>2, <2>3
<1> QED
  BY <1>2, <1>3 DEF Ledger!Abandon
-----------------------------------------------------------------------------
(* The steps that write a job.                                              *)

\* The other sources keep their phases.
LEMMA OthersKeep ==
    ASSUME TypeOK, NEW r \in Runner, Step(r) \/ Cancel(r), pc[r] # "idle",
           plan'[r] = plan[r],
           NEW s \in Source \ {Current(r)}, jobs'[s] = jobs[s]
    PROVE  Phases'[s] = Phases[s]
<1>1. Latest(s)' = Latest(s) /\ \A k : PhaseOf(s, k)' = PhaseOf(s, k)
  <2>1. \A k : Open(s, k)' <=> Open(s, k)
    BY StepAlone DEF Alone, Open, Current
  <2> QED
    BY <2>1 DEF PhaseOf, Latest
<1> QED
  BY <1>1 DEF Phases

\* Inserting a job opens an execution: its task holds the lock, so none is open.
LEMMA Opens ==
    ASSUME IInv, NEW r \in Runner, InsertJob(r),
           NEW s \in Source, s = Current(r), NEW n \in Nat, n = Latest(s)
    PROVE  Ledger!Open(s)
<1> USE DEF IInv
<1>1. PhasesOK /\ PhasesOK'
  BY TypeNext, PhasesType, PhasesPrimed DEF Next, Step
<1>2. pc[r] = "insert" /\ plan'[r] = plan[r] /\ plan[r][1] = s
  BY DEF InsertJob, Current
<1>3. Latest(s)' = n + 1
  BY InsertRows DEF Latest
<1>4. ASSUME NEW k \in 1 .. n, Open(s, k) PROVE FALSE
  <2>1. PICK q \in Runner : pc[q] \in Working /\ Current(q) = s
    BY <1>4 DEF Open
  <2>2. q = r
    BY <1>2, <2>1, Exclusion DEF Working, Critical
  <2> QED
    BY <1>2, <2>1, <2>2 DEF Working
<1>5. \A k \in 1 .. n : Phases[s][k] # "open"
  BY <1>1, <1>2, <1>4 DEF PhasesOK, PhaseOf
<1>6. ASSUME NEW k \in 1 .. n PROVE Phases'[s][k] = Phases[s][k]
  <2>1. ~Open(s, k)'
    <3>1. job'[r] # k
      BY <1>2, <1>3 DEF InsertJob, TypeOK, TaskOK
    <3>2. Open(s, k)' => Open(s, k)
      BY <3>1, StepAlone DEF Step, Alone, Open, Current
    <3> QED
      BY <1>4, <3>2
  <2>2. jobs'[s][k] = jobs[s][k]
    BY <1>2, InsertRows
  <2>3. ~Open(s, k)
    BY <1>4
  <2>4. Phases[s][k] = PhaseOf(s, k) /\ Phases'[s][k] = PhaseOf(s, k)'
    BY <1>1, <1>3 DEF PhasesOK
  <2> QED
    BY <2>1, <2>2, <2>3, <2>4 DEF PhaseOf
<1>7. Phases'[s][n + 1] = "open"
  <2>1. Open(s, n + 1)'
    BY <1>2, <1>3 DEF InsertJob, Open, Current, Working, TypeOK, TaskOK
  <2>2. ~jobs'[s][n + 1].finished
    BY <1>2, InsertRows
  <2> QED
    BY <1>1, <1>2, <1>3, <2>1, <2>2 DEF PhasesOK, PhaseOf
<1>8. Phases'[s] = Append(Phases[s], "open")
  <2>1. Phases[s] \in Seq(Ledger!Phase) /\ Len(Phases[s]) = n
    BY <1>1, <1>2 DEF PhasesOK
  <2>2. Phases'[s] \in Seq(Ledger!Phase) /\ Len(Phases'[s]) = n + 1
    BY <1>1, <1>2, <1>3 DEF PhasesOK
  <2>3. "open" \in Ledger!Phase
    BY DEF Ledger!Phase
  <2>4. /\ Append(Phases[s], "open") \in Seq(Ledger!Phase)
        /\ Len(Append(Phases[s], "open")) = n + 1
        /\ Append(Phases[s], "open")[n + 1] = "open"
        /\ \A k \in 1 .. n : Append(Phases[s], "open")[k] = Phases[s][k]
    BY <2>1, <2>3, AppendProperties
  <2>5. \A k \in 1 .. n + 1 : Phases'[s][k] = Append(Phases[s], "open")[k]
    BY <1>3, <1>6, <1>7, <2>4
  <2> QED
    BY <2>2, <2>4, <2>5, SeqEqual
<1>9. \A t \in Source \ {s} : Phases'[t] = Phases[t]
  BY <1>2, OthersKeep, HistorySteps DEF Step
<1>10. Phases' = [Phases EXCEPT ![s] = Append(@, "open")]
  BY <1>2, <1>8, <1>9 DEF Phases
<1>11. \A k \in DOMAIN Phases[s] : Phases[s][k] # "open"
  BY <1>1, <1>2, <1>5 DEF PhasesOK
<1> QED
  BY <1>10, <1>11 DEF Ledger!Open

\* A result goes to the newest execution, which is open; only Close closes it.
LEMMA Results ==
    ASSUME IInv, NEW r \in Runner, WorkerSucceeds(r) \/ Close(r),
           NEW s \in Source, s = Current(r), NEW n \in Nat, n = Latest(s)
    PROVE  /\ n > 0 /\ Phases[s][n] = "open" /\ Len(Phases[s]) = n
           /\ Phases' = [Phases EXCEPT ![s][n] = IF Close(r) THEN "closed" ELSE "open"]
<1> USE DEF IInv
<1>1. PhasesOK /\ PhasesOK'
  BY TypeNext, PhasesType, PhasesPrimed DEF Next, Step
<1>2. pc[r] \in Working /\ plan'[r] = plan[r] /\ plan[r][1] = s /\ pc[r] # "idle"
  BY DEF WorkerSucceeds, Close, Current, Working
<1>3. job[r] = n /\ n > 0 /\ ~jobs[s][n].finished /\ n \in 1 .. n
  BY <1>2 DEF OpenJobIsNewest
<1>4. Latest(s)' = n
  BY ResultRows DEF Latest
<1>5. Len(Phases[s]) = n /\ Phases[s][n] = "open"
  <2>1. Open(s, n)
    BY <1>2, <1>3 DEF Open
  <2> QED
    BY <1>1, <1>3, <2>1 DEF PhasesOK, PhaseOf
<1>6. ASSUME NEW k \in 1 .. n, k # n PROVE Phases'[s][k] = Phases[s][k]
  <2>1. Open(s, k)' <=> Open(s, k)
    <3>1. ~(pc[r] \in Working /\ Current(r) = s /\ job[r] = k)
      BY <1>3, <1>6
    <3>2. ~(pc'[r] \in Working /\ plan'[r][1] = s /\ job'[r] = k)
      BY <1>3, <1>6 DEF WorkerSucceeds, Prepare, Close, Working, TypeOK, TaskOK
    <3> QED
      BY <3>1, <3>2, StepAlone DEF Step, Alone, Open, Current
  <2>2. jobs'[s][k] = jobs[s][k]
    BY <1>1, <1>3, <1>6, ResultRows DEF PhasesOK
  <2>3. Phases[s][k] = PhaseOf(s, k) /\ Phases'[s][k] = PhaseOf(s, k)'
    BY <1>1, <1>4 DEF PhasesOK
  <2> QED
    BY <2>1, <2>2, <2>3 DEF PhaseOf
<1>7. Phases'[s][n] = IF Close(r) THEN "closed" ELSE "open"
  <2>1. Phases'[s][n] = PhaseOf(s, n)'
    BY <1>1, <1>3, <1>4 DEF PhasesOK
  <2>2. n \in DOMAIN jobs[s]
    BY <1>1, <1>3 DEF PhasesOK
  <2>3. CASE Close(r)
    <3>1. jobs'[s][n].finished = TRUE
      <4>1. jobs[s][n] \in Job
        BY <1>1, <1>3, ElementOfSeq DEF PhasesOK
      <4>2. jobs'[s][n] = [jobs[s][n] EXCEPT !.status = pending[r].status, !.finished = TRUE]
        BY <1>3, <2>2, <2>3 DEF Close, TypeOK, DatabaseOK
      <4> QED
        BY <4>1, <4>2 DEF Job
    <3> QED
      BY <2>1, <2>3, <3>1 DEF PhaseOf
  <2>4. CASE WorkerSucceeds(r)
    <3>1. jobs'[s][n].finished = jobs[s][n].finished
      BY <1>3, <2>2, <2>4, ResultRows
    <3>2. Open(s, n)'
      BY <1>2, <1>3, <2>4 DEF WorkerSucceeds, Prepare, Open, Current, Working, TypeOK, TaskOK
    <3>3. ~Close(r)
      BY <2>4 DEF WorkerSucceeds, Close
    <3> QED
      BY <1>3, <2>1, <3>1, <3>2, <3>3 DEF PhaseOf
  <2> QED
    BY <2>3, <2>4
<1>8. \A t \in Source \ {s} : Phases'[t] = Phases[t]
  BY <1>2, OthersKeep, HistorySteps DEF Step
<1> DEFINE e == IF Close(r) THEN "closed" ELSE "open"
<1>9. Phases'[s] = [Phases[s] EXCEPT ![n] = e]
  <2>1. Phases[s] \in Seq(Ledger!Phase) /\ Phases'[s] \in Seq(Ledger!Phase)
        /\ Len(Phases'[s]) = n
    BY <1>1, <1>4 DEF PhasesOK
  <2>2. e \in Ledger!Phase
    BY DEF Ledger!Phase
  <2> HIDE DEF e
  <2>3. [Phases[s] EXCEPT ![n] = e] \in Seq(Ledger!Phase) /\ Len([Phases[s] EXCEPT ![n] = e]) = n
    BY <1>5, <2>1, <2>2, SeqUpdate
  <2>4. \A k \in 1 .. n : Phases'[s][k] = [Phases[s] EXCEPT ![n] = e][k]
    BY <1>5, <1>6, <1>7, <2>1 DEF e
  <2> QED
    BY <2>1, <2>3, <2>4, SeqEqual
<1> HIDE DEF e
<1>10. Phases' = [Phases EXCEPT ![s][n] = e]
  BY <1>8, <1>9 DEF Phases
<1> QED
  BY <1>3, <1>5, <1>10 DEF e
-----------------------------------------------------------------------------
(* However many backends, tasks and sources there are, and whatever stops,  *)
(* leaks or is cancelled: the sync_jobs table is a ledger of JobLedger.     *)
THEOREM Refinement == Spec => LedgerSpec
<1>1. Init => Ledger!Init
  BY DEF Init, Fresh, Ledger!Init, Phases
<1>2. IInv /\ [Next]_vars => [Ledger!Next]_Phases
  <2> SUFFICES ASSUME IInv, [Next]_vars PROVE [Ledger!Next]_Phases
    OBVIOUS
  <2> USE DEF IInv
  <2>1. CASE UNCHANGED jobs
    BY <2>1, Abandons DEF Ledger!Next
  <2>2. ASSUME NEW r \in Runner, Step(r) \/ Cancel(r), ~UNCHANGED jobs
        PROVE  [Ledger!Next]_Phases
    <3>1. Current(r) \in Source /\ (InsertJob(r) \/ WorkerSucceeds(r) \/ Close(r))
      BY <2>2, HistorySteps
    <3>2. PICK s \in Source : s = Current(r)
      BY <3>1
    <3>3. PICK n \in Nat : n = Latest(s)
      BY PhasesType DEF PhasesOK
    <3>4. CASE InsertJob(r)
      BY <3>2, <3>3, <3>4, Opens DEF Ledger!Next
    <3>5. CASE WorkerSucceeds(r)
      <4>1. ~Close(r)
        BY <3>5 DEF WorkerSucceeds, Close
      <4>2. Phases[s][n] = "open" /\ Phases' = [Phases EXCEPT ![s][n] = "open"]
        BY <3>2, <3>3, <3>5, <4>1, Results
      <4>3. Phases \in [Source -> Seq(Ledger!Phase)]
        BY PhasesType DEF PhasesOK, Phases
      <4> QED
        BY <4>2, <4>3
    <3>6. CASE Close(r)
      <4>1. /\ n > 0 /\ Phases[s][n] = "open" /\ Len(Phases[s]) = n
            /\ Phases' = [Phases EXCEPT ![s][n] = "closed"]
        BY <3>2, <3>3, <3>6, Results
      <4>2. Phases[s] # << >>
        BY <3>3, <4>1
      <4>3. Ledger!Close(s)
        BY <4>1, <4>2 DEF Ledger!Close
      <4> QED
        BY <4>3 DEF Ledger!Next
    <3> QED
      BY <3>1, <3>4, <3>5, <3>6
  <2>3. UNCHANGED jobs \/ \E r \in Runner : Step(r) \/ Cancel(r)
    BY DEF Next, Launch, Shutdown, Stop, Start, Reclaim, Rest, vars, database
  <2> QED
    BY <2>1, <2>2, <2>3
<1> QED
  BY <1>1, <1>2, Invariance, PTL DEF Spec, LedgerSpec, Ledger!Spec
-----------------------------------------------------------------------------
(* The records of the executions: what opRuns says of lost locks.           *)

\* An instrumented task has begun the run it will end.
Owns(r) == r \in Instrumented /\ pc[r] \notin {"idle", "begin"}

\* Its run is recorded as running, its jobs are newer than the one it saw when
\* the run began, and it has none once it found that it lost the lock.
OwnRun(r) ==
    /\ run[r] \in 1 .. Len(opRuns[Current(r)])
    /\ opRuns[Current(r)][run[r]].status = "running"
    /\ previous[r] <= Latest(Current(r))
    /\ \A j \in 1 .. Latest(Current(r)) : jobs[Current(r)][j].run = run[r] =>
          /\ previous[r] < j
          /\ ~(pc[r] = "final" /\ verdict[r].status = "lock_skipped")

\* The inductive invariant of lock_skipped: no two tasks share a run, and no
\* job names a run that has not begun.
RunInv ==
    /\ \A r \in Runner : pc[r] \in {"begin", "final"} => r \in Instrumented
    /\ \A r \in Runner : Owns(r) => OwnRun(r)
    /\ \A q, r \in Runner :
          Owns(q) /\ Owns(r) /\ Current(q) = Current(r) /\ run[q] = run[r] => q = r
    /\ \A s \in Source : \A j \in 1 .. Latest(s) : jobs[s][j].run <= Len(opRuns[s])
    /\ LockSkippedDidNoWork

\* A step that begins and ends no run, inserts no job and reads no verdict.
Quiet ==
    /\ opRuns' = opRuns
    /\ \A s \in Source : Len(jobs'[s]) = Len(jobs[s])
    /\ \A s \in Source : \A j \in 1 .. Latest(s) : jobs'[s][j].run = jobs[s][j].run
    /\ \A r \in Runner :
          /\ pc'[r] \in {"begin", "final"} => r \in Instrumented
          /\ pc'[r] = "final" => pc[r] = "final"
          /\ r \in Instrumented /\ pc'[r] \notin {"idle", "begin"} =>
                /\ Owns(r)
                /\ plan'[r] = plan[r] /\ run'[r] = run[r]
                /\ previous'[r] = previous[r] /\ verdict'[r] = verdict[r]

\* The domains of the tables.
LEMMA Rows ==
    ASSUME TypeOK, NEW s \in Source
    PROVE  /\ jobs[s] \in Seq(Job) /\ Latest(s) \in Nat /\ DOMAIN jobs[s] = 1 .. Latest(s)
           /\ opRuns[s] \in Seq(OpRun) /\ Len(opRuns[s]) \in Nat
           /\ DOMAIN opRuns[s] = 1 .. Len(opRuns[s])
BY DEF TypeOK, DatabaseOK, Latest

\* The same of the state after a step.
LEMMA RowsPrimed ==
    ASSUME TypeOK, [Next]_vars, NEW s \in Source
    PROVE  /\ jobs'[s] \in Seq(Job) /\ Len(jobs'[s]) \in Nat
           /\ DOMAIN jobs'[s] = 1 .. Len(jobs'[s])
           /\ opRuns'[s] \in Seq(OpRun) /\ Len(opRuns'[s]) \in Nat
           /\ DOMAIN opRuns'[s] = 1 .. Len(opRuns'[s])
BY TypeNext DEF TypeOK, DatabaseOK

\* Quiet steps keep the invariant.
LEMMA QuietKeeps ==
    ASSUME TypeOK, [Next]_vars, RunInv, Quiet
    PROVE  RunInv'
<1>1. \A r \in Runner : pc'[r] \in {"begin", "final"} => r \in Instrumented
  BY DEF Quiet
<1>2. ASSUME NEW r \in Runner, Owns(r)' PROVE OwnRun(r)'
  <2>1. /\ Owns(r) /\ plan'[r] = plan[r] /\ run'[r] = run[r]
        /\ previous'[r] = previous[r] /\ verdict'[r] = verdict[r]
        /\ pc'[r] = "final" => pc[r] = "final"
    BY <1>2 DEF Quiet, Owns
  <2>2. Current(r) \in Source
    BY <2>1, CurrentType DEF Owns, TypeOK
  <2>3. OwnRun(r)
    BY <2>1 DEF RunInv
  <2> QED
    BY <2>1, <2>2, <2>3 DEF OwnRun, Quiet, Current, Latest
<1>3. ASSUME NEW q \in Runner, NEW r \in Runner, Owns(q)', Owns(r)',
             Current(q)' = Current(r)', run'[q] = run'[r]
      PROVE  q = r
  <2>1. /\ Owns(q) /\ plan'[q] = plan[q] /\ run'[q] = run[q]
        /\ Owns(r) /\ plan'[r] = plan[r] /\ run'[r] = run[r]
    BY <1>3 DEF Quiet, Owns
  <2> QED
    BY <1>3, <2>1 DEF RunInv, Current
<1>4. ASSUME NEW s \in Source, NEW j \in 1 .. Latest(s)'
      PROVE  jobs'[s][j].run <= Len(opRuns'[s])
  BY <1>4 DEF Quiet, RunInv, Latest
<1>5. LockSkippedDidNoWork'
  <2> SUFFICES ASSUME NEW s \in Source, NEW j \in DOMAIN jobs'[s], jobs'[s][j].run > 0
               PROVE  opRuns'[s][jobs'[s][j].run].status # "lock_skipped"
    BY DEF LockSkippedDidNoWork
  <2>1. j \in DOMAIN jobs[s] /\ j \in 1 .. Latest(s)
    BY Rows, RowsPrimed DEF Quiet, Latest
  <2>2. jobs'[s][j].run = jobs[s][j].run
    BY <2>1 DEF Quiet
  <2> QED
    BY <2>1, <2>2 DEF Quiet, RunInv, LockSkippedDidNoWork
<1> QED
  BY <1>1, <1>2, <1>3, <1>4, <1>5 DEF RunInv

\* What the other tasks see of a step of one task: nothing.
Private(r) ==
    \A q \in Runner \ {r} : /\ run'[q] = run[q] /\ previous'[q] = previous[q]
                            /\ verdict'[q] = verdict[q] /\ pending'[q] = pending[q]

\* A step of a task changes nothing else that is local to another task.
LEMMA StepPrivate ==
    ASSUME TypeOK, NEW r \in Runner, Step(r) \/ Cancel(r)
    PROVE  Private(r)
<1>1. CASE Begin(r) \/ TryLock(r)
  BY <1>1 DEF Begin, TryLock, Private, TypeOK, TaskOK
<1>2. CASE InsertJob(r) \/ WorkerSucceeds(r) \/ WorkerEnds(r)
  BY <1>2 DEF InsertJob, WorkerSucceeds, WorkerEnds, Prepare, Private, TypeOK, TaskOK
<1>3. CASE OpenClient(r)
  BY <1>3 DEF OpenClient, Prepare, Escape, Forget, Private, TypeOK, TaskOK
<1>4. CASE Close(r) \/ Unlock(r)
  BY <1>4 DEF Close, Unlock, Forget, Private, TypeOK, TaskOK
<1>5. CASE FinalRead(r) \/ FinalCommit(r) \/ Return(r) \/ CancelInstrument(r)
  BY <1>5 DEF FinalRead, FinalCommit, Return, CancelInstrument, Advance, Private, TypeOK, TaskOK
<1>6. CASE CancelWork(r) \/ CancelElsewhere(r)
  BY <1>6 DEF CancelWork, CancelElsewhere, Prepare, Escape, Forget, Private, TypeOK, TaskOK
<1> QED
  BY <1>1, <1>2, <1>3, <1>4, <1>5, <1>6 DEF Step, Cancel

\* The rows a worker or its finally block leaves: the run of none changes.
LEMMA RunsOfRows ==
    ASSUME TypeOK, NEW r \in Runner, WorkerSucceeds(r) \/ Close(r), Current(r) \in Source,
           NEW j \in DOMAIN jobs[Current(r)]
    PROVE  jobs'[Current(r)][j].run = jobs[Current(r)][j].run
<1>1. CASE j # job[r]
  BY <1>1, ResultRows
<1>2. CASE j = job[r]
  <2>1. jobs[Current(r)][j] \in Job
    BY Rows, ElementOfSeq
  <2>2. CASE WorkerSucceeds(r)
    <3>1. PICK status \in Good :
             jobs' = [jobs EXCEPT ![Current(r)][job[r]].status = status]
      BY <2>2 DEF WorkerSucceeds
    <3>2. jobs'[Current(r)][j] = [jobs[Current(r)][j] EXCEPT !.status = status]
      BY <1>2, <3>1 DEF TypeOK, DatabaseOK
    <3> QED
      BY <2>1, <3>2 DEF Job
  <2>3. CASE Close(r)
    <3>1. jobs'[Current(r)][j]
             = [jobs[Current(r)][j] EXCEPT !.status = pending[r].status, !.finished = TRUE]
      BY <1>2, <2>3 DEF Close, TypeOK, DatabaseOK
    <3> QED
      BY <2>1, <3>1 DEF Job
  <2> QED
    BY <2>2, <2>3
<1> QED
  BY <1>1, <1>2

\* Where an instrumented task that has begun a run after a step was before it.
LEMMA OwnSteps ==
    ASSUME TypeOK, NEW r \in Runner, Step(r) \/ Cancel(r), r \in Instrumented,
           pc'[r] \notin {"idle", "begin"}
    PROVE  \/ Begin(r) /\ pc'[r] = "lock"
           \/ FinalRead(r) /\ pc'[r] = "final"
           \/ /\ pc[r] \notin {"idle", "begin"} /\ pc'[r] # "final"
              /\ plan'[r] = plan[r] /\ run'[r] = run[r]
              /\ previous'[r] = previous[r] /\ verdict'[r] = verdict[r]
<1>1. CASE Begin(r) \/ FinalRead(r)
  BY <1>1 DEF Begin, FinalRead, TypeOK, TaskOK
<1>2. CASE TryLock(r) \/ InsertJob(r)
  BY <1>2 DEF TryLock, InsertJob, TypeOK, TaskOK
<1>3. CASE OpenClient(r)
  BY <1>3 DEF OpenClient, Prepare, Escape, Forget, TypeOK, TaskOK
<1>4. CASE WorkerSucceeds(r) \/ WorkerEnds(r)
  BY <1>4 DEF WorkerSucceeds, WorkerEnds, Prepare, TypeOK, TaskOK
<1>5. CASE Close(r) \/ Unlock(r)
  BY <1>5 DEF Close, Unlock, Forget, TypeOK, TaskOK
<1>6. CASE FinalCommit(r) \/ Return(r) \/ CancelInstrument(r)
  BY <1>6 DEF FinalCommit, Return, CancelInstrument, Advance, TypeOK, TaskOK
<1>7. CASE CancelWork(r) \/ CancelElsewhere(r)
  BY <1>7 DEF CancelWork, CancelElsewhere, Prepare, Escape, Forget, TypeOK, TaskOK
<1> QED
  BY <1>1, <1>2, <1>3, <1>4, <1>5, <1>6, <1>7 DEF Step, Cancel

\* Only an instrumented task is where instrument_job works.
LEMMA InstrumentSteps ==
    ASSUME TypeOK, NEW r \in Runner, Step(r) \/ Cancel(r), pc'[r] \in {"begin", "final"},
           pc[r] \in {"begin", "final"} => r \in Instrumented
    PROVE  r \in Instrumented
<1>1. CASE Begin(r) \/ FinalRead(r) \/ FinalCommit(r) \/ CancelInstrument(r)
  BY <1>1 DEF Begin, FinalRead, FinalCommit, CancelInstrument
<1>2. CASE TryLock(r) \/ InsertJob(r) \/ Unlock(r)
  BY <1>2 DEF TryLock, InsertJob, Unlock, TypeOK, TaskOK
<1>3. CASE OpenClient(r)
  BY <1>3 DEF OpenClient, Prepare, Escape, TypeOK, TaskOK
<1>4. CASE WorkerSucceeds(r) \/ WorkerEnds(r) \/ Close(r)
  BY <1>4 DEF WorkerSucceeds, WorkerEnds, Close, Prepare, TypeOK, TaskOK
<1>5. CASE Return(r)
  BY <1>5 DEF Return, Advance, TypeOK, TaskOK
<1>6. CASE CancelWork(r) \/ CancelElsewhere(r)
  BY <1>6 DEF CancelWork, CancelElsewhere, Prepare, Escape, TypeOK, TaskOK
<1> QED
  BY <1>1, <1>2, <1>3, <1>4, <1>5, <1>6 DEF Step, Cancel

\* Most steps of a task are quiet.
LEMMA QuietOfTask ==
    ASSUME TypeOK, RunInv, NEW r \in Runner, Step(r) \/ Cancel(r),
           ~Begin(r), ~InsertJob(r), ~FinalRead(r), ~FinalCommit(r)
    PROVE  Quiet
<1>1. opRuns' = opRuns
  BY DEF Step, Cancel, TryLock, OpenClient, WorkerSucceeds, WorkerEnds, Close, Unlock, Return,
         CancelWork, CancelElsewhere, CancelInstrument, database
<1>2. ASSUME NEW s \in Source
      PROVE  /\ Len(jobs'[s]) = Len(jobs[s])
             /\ \A j \in 1 .. Latest(s) : jobs'[s][j].run = jobs[s][j].run
  <2>1. CASE UNCHANGED jobs
    BY <2>1
  <2>2. CASE s # Current(r)
    BY <2>2, HistorySteps
  <2>3. CASE s = Current(r) /\ ~UNCHANGED jobs
    BY <2>3, HistorySteps, ResultRows, RunsOfRows, Rows DEF Latest
  <2> QED
    BY <2>1, <2>2, <2>3
<1>3. ASSUME NEW q \in Runner
      PROVE  /\ pc'[q] \in {"begin", "final"} => q \in Instrumented
             /\ pc'[q] = "final" => pc[q] = "final"
             /\ q \in Instrumented /\ pc'[q] \notin {"idle", "begin"} =>
                   /\ Owns(q)
                   /\ plan'[q] = plan[q] /\ run'[q] = run[q]
                   /\ previous'[q] = previous[q] /\ verdict'[q] = verdict[q]
  <2>1. CASE q # r
    BY <2>1, StepAlone, StepPrivate DEF Alone, Private, RunInv, Owns
  <2>2. CASE q = r
    <3>1. pc'[r] \in {"begin", "final"} => r \in Instrumented
      BY InstrumentSteps DEF RunInv
    <3>2. pc'[r] = "final" => FALSE
      BY <3>1, OwnSteps
    <3> QED
      BY <2>2, <3>1, <3>2, OwnSteps DEF Owns
  <2> QED
    BY <2>1, <2>2
<1> QED
  BY <1>1, <1>2, <1>3 DEF Quiet

\* So are the steps of processes and of the pool.
LEMMA QuietElse ==
    ASSUME TypeOK, RunInv,
           \/ \E i \in Instance : Launch(i) \/ Shutdown(i) \/ Stop(i)
           \/ \E r \in Runner : \E p \in Plans[r] : Start(r, p)
           \/ \E s \in Source : Reclaim(s)
           \/ Rest
           \/ UNCHANGED vars
    PROVE  Quiet
<1>1. opRuns' = opRuns /\ jobs' = jobs
  BY DEF Launch, Shutdown, Stop, Start, Reclaim, Rest, vars, database
<1> SUFFICES ASSUME NEW q \in Runner
             PROVE  /\ pc'[q] \in {"begin", "final"} => q \in Instrumented
                    /\ pc'[q] = "final" => pc[q] = "final"
                    /\ q \in Instrumented /\ pc'[q] \notin {"idle", "begin"} =>
                          /\ pc[q] \notin {"idle", "begin"}
                          /\ plan'[q] = plan[q] /\ run'[q] = run[q]
                          /\ previous'[q] = previous[q] /\ verdict'[q] = verdict[q]
  BY <1>1 DEF Quiet, Owns
<1>2. pc[q] \in {"begin", "final"} => q \in Instrumented
  BY DEF RunInv
<1>3. ASSUME NEW i \in Instance, Launch(i)
      PROVE  \/ UNCHANGED local
             \/ \E r \in Runner, p \in Seq(Source) : pc[r] = "idle" /\ TakeUp(r, p)
  BY <1>3, ConstantsAssumption DEF Launch
<1>4. ASSUME NEW r \in Runner, NEW p, pc[r] = "idle", TakeUp(r, p), q = r
      PROVE  pc'[q] = IF q \in Instrumented THEN "begin" ELSE "lock"
  BY <1>4 DEF TakeUp, TypeOK, TaskOK
<1>5. ASSUME NEW r \in Runner, NEW p, pc[r] = "idle", TakeUp(r, p), q # r
      PROVE  /\ pc'[q] = pc[q] /\ plan'[q] = plan[q] /\ run'[q] = run[q]
             /\ previous'[q] = previous[q] /\ verdict'[q] = verdict[q]
  BY <1>5 DEF TakeUp, TypeOK, TaskOK
<1>6. CASE UNCHANGED local
  BY <1>2, <1>6 DEF local
<1>7. ASSUME NEW i \in Instance, Stop(i)
      PROVE  \/ pc'[q] = "idle"
             \/ /\ pc'[q] = pc[q] /\ plan'[q] = plan[q] /\ run'[q] = run[q]
                /\ previous'[q] = previous[q] /\ verdict'[q] = verdict[q]
  BY <1>7 DEF Stop
<1>8. ASSUME NEW r \in Runner, NEW p \in Plans[r], Start(r, p)
      PROVE  pc[r] = "idle" /\ TakeUp(r, p)
  BY <1>8 DEF Start
<1>9. \/ UNCHANGED local
      \/ \E r \in Runner : \E p : pc[r] = "idle" /\ TakeUp(r, p)
      \/ \E i \in Instance : Stop(i)
  BY <1>3, <1>8 DEF Shutdown, Reclaim, Rest, vars, local
<1> QED
  BY <1>2, <1>4, <1>5, <1>6, <1>7, <1>9

\* A task that runs after a step of another task ran the same before it.
LEMMA OtherOwners ==
    ASSUME TypeOK, NEW r \in Runner, Step(r) \/ Cancel(r), NEW q \in Runner \ {r}, Owns(q)'
    PROVE  /\ Owns(q) /\ plan'[q] = plan[q] /\ run'[q] = run[q] /\ pc'[q] = pc[q]
           /\ previous'[q] = previous[q] /\ verdict'[q] = verdict[q]
           /\ Current(q) \in Source /\ Current(q)' = Current(q)
<1>1. pc'[q] = pc[q] /\ plan'[q] = plan[q]
  BY StepAlone DEF Alone
<1>2. pc[q] # "idle"
  BY <1>1 DEF Owns
<1> QED
  BY <1>1, <1>2, StepPrivate, CurrentType DEF Private, Owns, TypeOK, Current

\* A run begins: its number is new, so no job and no other task has it.
LEMMA BeginKeeps ==
    ASSUME TypeOK, RunInv, NEW r \in Runner, Begin(r)
    PROVE  RunInv'
<1> DEFINE s == Current(r)
           new == [status |-> "running", job |-> 0]
<1>1. s \in Source /\ pc[r] = "begin" /\ r \in Instrumented
  BY CurrentType DEF Begin, TypeOK, RunInv
<1>2. new \in OpRun /\ new.status = "running"
  BY DEF OpRun, RunStatus, JobStatus
<1>3. opRuns'[s] = Append(opRuns[s], new) /\ \A t \in Source \ {s} : opRuns'[t] = opRuns[t]
  BY <1>1 DEF Begin, TypeOK, DatabaseOK
<1>4. /\ jobs' = jobs /\ pc' = [pc EXCEPT ![r] = "lock"] /\ plan' = plan
      /\ previous' = [previous EXCEPT ![r] = Latest(s)]
      /\ run' = [run EXCEPT ![r] = Len(opRuns[s]) + 1]
  BY DEF Begin
<1>5. Step(r)
  BY DEF Step
<1> HIDE DEF new, s
<1>6. /\ Len(opRuns'[s]) = Len(opRuns[s]) + 1
      /\ opRuns'[s][Len(opRuns[s]) + 1] = new
      /\ \A k \in 1 .. Len(opRuns[s]) : opRuns'[s][k] = opRuns[s][k]
      /\ Len(opRuns[s]) \in Nat
  BY <1>1, <1>2, <1>3, Rows, AppendProperties
<1>7. \A t \in Source : /\ Len(opRuns'[t]) >= Len(opRuns[t]) /\ Len(opRuns[t]) \in Nat
                        /\ \A k \in 1 .. Len(opRuns[t]) : opRuns'[t][k] = opRuns[t][k]
  BY <1>3, <1>6, Rows
<1>8. /\ plan'[r] = plan[r] /\ pc'[r] = "lock" /\ previous'[r] = Latest(s)
      /\ run'[r] = Len(opRuns[s]) + 1 /\ plan'[r][1] = s /\ plan[r][1] = s
  BY <1>4 DEF TypeOK, TaskOK, s, Current
<1>9. \A t \in Source : \A j \in 1 .. Latest(t) : jobs[t][j].run <= Len(opRuns[t])
  BY DEF RunInv
<1>10. \A q \in Runner : pc'[q] \in {"begin", "final"} => q \in Instrumented
  BY <1>4 DEF RunInv, TypeOK, TaskOK
<1>11. ASSUME NEW q \in Runner, q # r, Owns(q)'
       PROVE  /\ OwnRun(q)' /\ Owns(q) /\ run'[q] = run[q] /\ Current(q)' = Current(q)
              /\ run[q] \in 1 .. Len(opRuns[Current(q)])
  <2>1. /\ Owns(q) /\ run'[q] = run[q] /\ pc'[q] = pc[q] /\ previous'[q] = previous[q]
        /\ verdict'[q] = verdict[q] /\ Current(q) \in Source /\ Current(q)' = Current(q)
    BY <1>5, <1>11, OtherOwners
  <2>2. OwnRun(q)
    BY <2>1 DEF RunInv
  <2>3. Latest(Current(q))' = Latest(Current(q))
    BY <1>4, <2>1 DEF Latest
  <2>4. run[q] \in 1 .. Len(opRuns'[Current(q)])
    BY <1>7, <2>1, <2>2, RowsPrimed DEF OwnRun, Next, Step, Begin
  <2> QED
    BY <1>4, <1>7, <2>1, <2>2, <2>3, <2>4 DEF OwnRun
<1>12. OwnRun(r)'
  <2>1. Len(jobs'[s]) = Latest(s) /\ Latest(s) \in Nat
    BY <1>1, <1>4, Rows DEF Latest
  <2>2. ASSUME NEW j \in 1 .. Latest(s), jobs[s][j].run = Len(opRuns[s]) + 1 PROVE FALSE
    BY <1>1, <1>6, <1>9, <2>2
  <2> QED
    BY <1>1, <1>2, <1>4, <1>6, <1>8, <2>1, <2>2 DEF OwnRun, Current, Latest
<1>13. ASSUME NEW q \in Runner, NEW p \in Runner, Owns(q)', Owns(p)',
              Current(q)' = Current(p)', run'[q] = run'[p]
       PROVE  q = p
  <2>1. CASE q # r /\ p # r
    BY <1>11, <1>13, <2>1 DEF RunInv
  <2>2. ASSUME NEW t \in Runner, t # r, Owns(t)', Current(t)' = s, run'[t] = run'[r] PROVE FALSE
    BY <1>6, <1>8, <1>11, <2>2
  <2> QED
    BY <1>8, <1>13, <2>1, <2>2 DEF Current
<1>14. ASSUME NEW t \in Source, NEW j \in 1 .. Latest(t)'
       PROVE  jobs'[t][j].run <= Len(opRuns'[t])
  <2>1. j \in 1 .. Latest(t) /\ j \in DOMAIN jobs[t]
    BY <1>4, Rows DEF Latest
  <2>2. jobs[t][j] \in Job
    BY <2>1, Rows, ElementOfSeq
  <2>3. jobs[t][j].run \in Nat
    BY <2>2 DEF Job
  <2>4. jobs[t][j].run <= Len(opRuns[t])
    BY <1>9, <2>1
  <2>5. Len(opRuns'[t]) >= Len(opRuns[t]) /\ Len(opRuns[t]) \in Nat /\ Len(opRuns'[t]) \in Nat
    BY <1>3, <1>6, <1>7
  <2> QED
    BY <1>4, <2>3, <2>4, <2>5
<1>15. LockSkippedDidNoWork'
  <2> SUFFICES ASSUME NEW t \in Source, NEW j \in DOMAIN jobs[t], jobs[t][j].run > 0
               PROVE  opRuns'[t][jobs[t][j].run].status # "lock_skipped"
    BY <1>4 DEF LockSkippedDidNoWork
  <2>1. jobs[t][j] \in Job /\ j \in 1 .. Latest(t)
    BY Rows, ElementOfSeq
  <2>2. jobs[t][j].run \in 1 .. Len(opRuns[t])
    BY <1>9, <2>1 DEF Job
  <2> QED
    BY <1>7, <2>2 DEF RunInv, LockSkippedDidNoWork
<1> QED
  BY <1>10, <1>11, <1>12, <1>13, <1>14, <1>15 DEF RunInv

\* The row that InsertJob adds.
LEMMA InsertedRow ==
    ASSUME TypeOK, NEW r \in Runner, InsertJob(r), Current(r) \in Source
    PROVE  jobs'[Current(r)][Latest(Current(r)) + 1]
              = [status |-> "running", finished |-> FALSE,
                 run |-> IF r \in Instrumented THEN run[r] ELSE 0]
<1> DEFINE s == Current(r)
           new == [status |-> "running", finished |-> FALSE,
                   run |-> IF r \in Instrumented THEN run[r] ELSE 0]
<1>1. jobs[s] \in Seq(Job)
  BY Rows
<1>2. new \in Job
  BY DEF Job, JobStatus, TypeOK, TaskOK
<1>3. jobs'[s] = Append(jobs[s], new)
  BY DEF InsertJob, TypeOK, DatabaseOK
<1> HIDE DEF s, new
<1>4. jobs'[s][Len(jobs[s]) + 1] = new
  BY <1>1, <1>2, <1>3, AppendProperties
<1> QED
  BY <1>4 DEF s, new, Latest

\* A job is inserted under a run that is recorded as running, after the jobs
\* that the run saw.
LEMMA InsertKeeps ==
    ASSUME TypeOK, RunInv, NEW r \in Runner, InsertJob(r)
    PROVE  RunInv'
<1> DEFINE s == Current(r)
           mine == IF r \in Instrumented THEN run[r] ELSE 0
<1>1. s \in Source /\ pc[r] = "insert" /\ Step(r)
  BY CurrentType DEF InsertJob, TypeOK, Step
<1>2. /\ opRuns' = opRuns /\ pc' = [pc EXCEPT ![r] = "client"] /\ plan' = plan
      /\ previous' = previous /\ run' = run /\ verdict' = verdict
  BY DEF InsertJob
<1>3. /\ Latest(s) \in Nat /\ Len(jobs'[s]) = Latest(s) + 1
      /\ jobs'[s][Latest(s) + 1].run = mine
      /\ \A k \in 1 .. Latest(s) : jobs'[s][k] = jobs[s][k]
  <2>1. jobs'[s][Latest(s) + 1] = [status |-> "running", finished |-> FALSE, run |-> mine]
    BY <1>1, InsertedRow
  <2>2. jobs'[s][Latest(s) + 1].run = mine
    BY <2>1
  <2> HIDE DEF mine
  <2> QED
    BY <1>1, <2>2, InsertRows, Rows
<1>4. \A t \in Source \ {s} : jobs'[t] = jobs[t]
  BY DEF InsertJob, TypeOK, DatabaseOK
<1>5. pc'[r] = "client" /\ (r \in Instrumented => OwnRun(r)) /\ plan[r][1] = s
  BY <1>1, <1>2 DEF TypeOK, TaskOK, RunInv, Owns, Current
<1>6. \A q \in Runner : pc'[q] \in {"begin", "final"} => q \in Instrumented
  BY <1>2 DEF RunInv, TypeOK, TaskOK
<1> HIDE DEF s, mine
<1>7. ASSUME NEW q \in Runner, Owns(q)'
      PROVE  OwnRun(q)' /\ Owns(q)
  <2>1. Owns(q) /\ (pc'[q] = "final" => pc[q] = "final")
    BY <1>1, <1>2, <1>7 DEF Owns, TypeOK, TaskOK
  <2>2. OwnRun(q) /\ Current(q) \in Source /\ Current(q)' = Current(q)
    BY <1>2, <2>1, CurrentType DEF RunInv, Owns, TypeOK, Current
  <2>3. CASE Current(q) # s
    BY <1>2, <1>4, <2>1, <2>2, <2>3 DEF OwnRun, Latest
  <2>4. CASE Current(q) = s
    <3>1. mine = run[q] => q = r
      <4>1. CASE r \in Instrumented
        <5>1. Owns(r) /\ Current(r) = s
          BY <1>1, <4>1 DEF Owns, s
        <5> QED
          BY <2>1, <2>4, <4>1, <5>1 DEF RunInv, mine
      <4>2. CASE r \notin Instrumented
        BY <2>2, <4>2 DEF mine, OwnRun
      <4> QED
        BY <4>1, <4>2
    <3>2. /\ run[q] \in 1 .. Len(opRuns[s]) /\ opRuns[s][run[q]].status = "running"
          /\ previous[q] <= Latest(s)
          /\ \A j \in 1 .. Latest(s) : jobs[s][j].run = run[q] =>
                /\ previous[q] < j
                /\ ~(pc[q] = "final" /\ verdict[q].status = "lock_skipped")
      BY <2>2, <2>4 DEF OwnRun
    <3>3. previous[q] \in Nat
      BY DEF TypeOK, TaskOK
    <3>4. previous[q] <= Latest(s) + 1 /\ previous[q] < Latest(s) + 1
      BY <1>3, <3>2, <3>3
    <3>5. ASSUME NEW j \in 1 .. Latest(s) + 1, jobs'[s][j].run = run[q]
          PROVE  /\ previous[q] < j
                 /\ ~(pc'[q] = "final" /\ verdict[q].status = "lock_skipped")
      <4>1. CASE j \in 1 .. Latest(s)
        BY <1>3, <2>1, <3>2, <3>5, <4>1
      <4>2. CASE j = Latest(s) + 1
        BY <1>3, <1>5, <3>1, <3>4, <3>5, <4>2
      <4> QED
        BY <1>3, <4>1, <4>2
    <3> QED
      BY <1>2, <1>3, <2>1, <2>2, <2>4, <3>2, <3>4, <3>5 DEF OwnRun, Latest
  <2> QED
    BY <2>1, <2>3, <2>4
<1>8. ASSUME NEW q \in Runner, NEW p \in Runner, Owns(q)', Owns(p)',
             Current(q)' = Current(p)', run'[q] = run'[p]
      PROVE  q = p
  BY <1>2, <1>7, <1>8 DEF RunInv, Current
<1>9. r \in Instrumented => run[r] \in 1 .. Len(opRuns[s]) /\ opRuns[s][run[r]].status = "running"
  BY <1>5 DEF OwnRun, s
<1>10. ASSUME NEW t \in Source, NEW j \in 1 .. Len(jobs'[t])
       PROVE  \/ j \in 1 .. Latest(t) /\ jobs'[t][j] = jobs[t][j]
              \/ t = s /\ jobs'[t][j].run = mine
  BY <1>3, <1>4 DEF Latest
<1>11. ASSUME NEW t \in Source, NEW j \in 1 .. Latest(t)'
       PROVE  jobs'[t][j].run <= Len(opRuns'[t])
  BY <1>2, <1>9, <1>10, Rows DEF RunInv, Latest, mine
<1>12. LockSkippedDidNoWork'
  <2> SUFFICES ASSUME NEW t \in Source, NEW j \in 1 .. Len(jobs'[t]), jobs'[t][j].run > 0
               PROVE  opRuns[t][jobs'[t][j].run].status # "lock_skipped"
    BY <1>1, <1>2, RowsPrimed DEF LockSkippedDidNoWork, Next
  <2>1. CASE j \in 1 .. Latest(t) /\ jobs'[t][j] = jobs[t][j]
    BY <2>1, Rows DEF RunInv, LockSkippedDidNoWork
  <2>2. CASE t = s /\ jobs'[t][j].run = mine
    BY <1>9, <2>2 DEF mine
  <2> QED
    BY <1>10, <2>1, <2>2
<1> QED
  BY <1>6, <1>7, <1>8, <1>11, <1>12 DEF RunInv

\* A run that finds no job newer than the one it saw at its beginning has none.
LEMMA FinalReadKeeps ==
    ASSUME TypeOK, RunInv, NEW r \in Runner, FinalRead(r)
    PROVE  RunInv'
<1>1. /\ opRuns' = opRuns /\ jobs' = jobs /\ pc' = [pc EXCEPT ![r] = "final"] /\ plan' = plan
      /\ previous' = previous /\ run' = run /\ r \in Instrumented /\ pc[r] = "return"
  BY DEF FinalRead, database
<1>2. /\ verdict'[r].status = Judge(r, Current(r)).status
      /\ \A q \in Runner \ {r} : verdict'[q] = verdict[q]
  BY DEF FinalRead, TypeOK, TaskOK
<1>3. \A q \in Runner : pc'[q] \in {"begin", "final"} => q \in Instrumented
  BY <1>1 DEF RunInv, TypeOK, TaskOK
<1>4. ASSUME NEW q \in Runner, Owns(q)'
      PROVE  OwnRun(q)' /\ Owns(q)
  <2>1. Owns(q)
    BY <1>1, <1>4 DEF Owns, TypeOK, TaskOK
  <2>2. OwnRun(q) /\ Current(q) \in Source
    BY <2>1, CurrentType DEF RunInv, Owns, TypeOK
  <2>3. CASE q # r
    BY <1>1, <1>2, <2>1, <2>2, <2>3 DEF OwnRun, Current, Latest, TypeOK, TaskOK
  <2>4. CASE q = r
    <3>1. Latest(Current(r)) \in Nat /\ previous[r] \in Nat
      BY <2>2, <2>4, Rows DEF TypeOK, TaskOK
    <3>2. ASSUME NEW j \in 1 .. Latest(Current(r)), previous[r] < j
          PROVE  verdict'[r].status # "lock_skipped"
      <4>1. ~(Latest(Current(r)) = 0 \/ Latest(Current(r)) = previous[r])
        BY <3>1, <3>2
      <4>2. raised[r] \in {"none", "error", "cancelled"}
        BY DEF TypeOK, TaskOK, Exception
      <4> QED
        BY <1>2, <4>1, <4>2 DEF Judge
    <3> QED
      BY <1>1, <2>1, <2>2, <2>4, <3>2 DEF OwnRun, Current, Latest
  <2> QED
    BY <2>1, <2>3, <2>4
<1>5. ASSUME NEW q \in Runner, NEW p \in Runner, Owns(q)', Owns(p)',
             Current(q)' = Current(p)', run'[q] = run'[p]
      PROVE  q = p
  BY <1>1, <1>4, <1>5 DEF RunInv, Current
<1>6. \A s \in Source : \A j \in 1 .. Latest(s)' : jobs'[s][j].run <= Len(opRuns'[s])
  BY <1>1 DEF RunInv, Latest
<1>7. LockSkippedDidNoWork'
  BY <1>1 DEF RunInv, LockSkippedDidNoWork
<1> QED
  BY <1>3, <1>4, <1>5, <1>6, <1>7 DEF RunInv

\* A run ends: what it records is of itself only, and lock_skipped without a job.
LEMMA FinalCommitKeeps ==
    ASSUME TypeOK, RunInv, NEW r \in Runner, FinalCommit(r)
    PROVE  RunInv'
<1> DEFINE s == Current(r)
           ended == [status |-> verdict[r].status, job |-> verdict[r].job]
<1>1. /\ s \in Source /\ pc[r] = "final" /\ r \in Instrumented /\ Step(r)
      /\ jobs' = jobs /\ Owns(r)
  BY CurrentType DEF FinalCommit, TypeOK, Step, RunInv, Owns
<1>2. OwnRun(r)
  BY <1>1 DEF RunInv
<1>3. ended.status = verdict[r].status
  OBVIOUS
<1>4. /\ opRuns'[s] = [opRuns[s] EXCEPT ![run[r]] = ended]
      /\ \A t \in Source \ {s} : opRuns'[t] = opRuns[t]
  BY <1>1 DEF FinalCommit, TypeOK, DatabaseOK
<1>5. pc'[r] \in {"begin", "idle"}
  BY DEF FinalCommit, Advance, TypeOK, TaskOK
<1> HIDE DEF s, ended
<1>6. /\ opRuns[s] \in Seq(OpRun) /\ run[r] \in 1 .. Len(opRuns[s]) /\ Len(opRuns[s]) \in Nat
  BY <1>1, <1>2, Rows DEF OwnRun, s
<1>7. /\ Len(opRuns'[s]) = Len(opRuns[s])
      /\ opRuns'[s][run[r]] = ended
      /\ \A k \in 1 .. Len(opRuns[s]) : k # run[r] => opRuns'[s][k] = opRuns[s][k]
  <2>1. opRuns'[s] \in Seq(OpRun)
    BY <1>1, RowsPrimed DEF Next
  <2>2. DOMAIN opRuns'[s] = DOMAIN opRuns[s]
    BY <1>4, <1>6
  <2> QED
    BY <1>4, <1>6, <2>1, <2>2, LenProperties
<1>8. \A q \in Runner : pc'[q] \in {"begin", "final"} => q \in Instrumented
  BY <1>1, InstrumentSteps, StepAlone DEF RunInv, Alone
<1>9. ASSUME NEW q \in Runner, Owns(q)'
      PROVE  /\ OwnRun(q)' /\ Owns(q) /\ run'[q] = run[q] /\ Current(q)' = Current(q)
  <2>1. q # r
    BY <1>5, <1>9 DEF Owns
  <2>2. /\ Owns(q) /\ plan'[q] = plan[q] /\ run'[q] = run[q] /\ pc'[q] = pc[q]
        /\ previous'[q] = previous[q] /\ verdict'[q] = verdict[q]
        /\ Current(q) \in Source /\ Current(q)' = Current(q)
    BY <1>1, <1>9, <2>1, OtherOwners
  <2>3. OwnRun(q)
    BY <2>2 DEF RunInv
  <2>4. Current(q) = s => run[q] # run[r]
    BY <1>1, <2>1, <2>2 DEF RunInv, s
  <2>5. /\ Len(opRuns'[Current(q)]) = Len(opRuns[Current(q)])
        /\ opRuns'[Current(q)][run[q]] = opRuns[Current(q)][run[q]]
    BY <1>4, <1>7, <2>2, <2>3, <2>4 DEF OwnRun
  <2>6. OwnRun(q)'
    BY <1>1, <2>2, <2>3, <2>5 DEF OwnRun, Latest
  <2> QED
    BY <2>2, <2>6
<1>10. ASSUME NEW q \in Runner, NEW p \in Runner, Owns(q)', Owns(p)',
              Current(q)' = Current(p)', run'[q] = run'[p]
       PROVE  q = p
  BY <1>9, <1>10 DEF RunInv
<1>11. \A t \in Source : \A j \in 1 .. Latest(t)' : jobs'[t][j].run <= Len(opRuns'[t])
  BY <1>1, <1>4, <1>7 DEF RunInv, Latest
<1>12. LockSkippedDidNoWork'
  <2> SUFFICES ASSUME NEW t \in Source, NEW j \in DOMAIN jobs[t], jobs[t][j].run > 0
               PROVE  opRuns'[t][jobs[t][j].run].status # "lock_skipped"
    BY <1>1 DEF LockSkippedDidNoWork
  <2>1. jobs[t][j] \in Job /\ j \in 1 .. Latest(t)
    BY Rows, ElementOfSeq
  <2>2. jobs[t][j].run \in 1 .. Len(opRuns[t])
    BY <2>1, Rows DEF RunInv, Job
  <2>3. opRuns[t][jobs[t][j].run].status # "lock_skipped"
    BY DEF RunInv, LockSkippedDidNoWork
  <2>4. CASE t = s /\ jobs[t][j].run = run[r]
    <3>1. verdict[r].status # "lock_skipped"
      BY <1>1, <1>2, <2>1, <2>4 DEF OwnRun, s
    <3> QED
      BY <1>3, <1>7, <2>4, <3>1
  <2>5. CASE ~(t = s /\ jobs[t][j].run = run[r])
    BY <1>4, <1>7, <2>2, <2>3, <2>5
  <2> QED
    BY <2>4, <2>5
<1> QED
  BY <1>8, <1>9, <1>10, <1>11, <1>12 DEF RunInv

\* Every step keeps the invariant of the runs.
LEMMA RunNext == TypeOK /\ RunInv /\ [Next]_vars => RunInv'
<1> SUFFICES ASSUME TypeOK, RunInv, [Next]_vars PROVE RunInv'
  OBVIOUS
<1>1. ASSUME NEW r \in Runner, Step(r) \/ Cancel(r) PROVE RunInv'
  BY <1>1, BeginKeeps, InsertKeeps, FinalReadKeeps, FinalCommitKeeps, QuietOfTask, QuietKeeps
<1>2. CASE \/ \E i \in Instance : Launch(i) \/ Shutdown(i) \/ Stop(i)
           \/ \E r \in Runner : \E p \in Plans[r] : Start(r, p)
           \/ \E s \in Source : Reclaim(s)
           \/ Rest
           \/ UNCHANGED vars
  BY <1>2, QuietElse, QuietKeeps
<1> QED
  BY <1>1, <1>2 DEF Next

\* No run and no job: the invariant holds at first.
LEMMA RunInit == Init => RunInv
BY DEF Init, Fresh, RunInv, Owns, LockSkippedDidNoWork, Latest

-----------------------------------------------------------------------------
(* The records of the executions: results and the capability.               *)

\* What a finally block may commit for a job without a result.
Endings(s) ==
    Outcomes(s) \cup {Settle("skipped", "keep", FALSE, "none"),
                      IF Generic(s) THEN Settle("cancelled", "keep", FALSE, "cancelled")
                                    ELSE Settle("running", "keep", FALSE, "cancelled")}

\* The job of a task has no result before its finally block, unless _run_source
\* committed one, which the finally block repeats.
OwnResult(r) ==
    LET result == jobs[Current(r)][job[r]].status IN
    /\ pc[r] \in {"client", "work"} => result = "running"
    /\ pc[r] = "close" =>
          \/ result = "running" /\ pending[r] \in Endings(Current(r))
          \/ result \in Good /\ pending[r] = Settle(result, "keep", FALSE, "none")

\* The inductive invariant of the results: last_success names a job with one.
ResultInv ==
    /\ \A r \in Runner : pc[r] \in Working => OwnResult(r)
    /\ \A s \in Source : capability[s].last_success \in Determined(s) \cup {0}
    /\ CapabilityIsLatestVerdict
    /\ FinishedHasResult
\* The same, source by source.
CapabilityOf(s) ==
    /\ Determined(s) = {} => capability[s] = [status |-> "unknown", last_success |-> 0]
    /\ \A k \in Determined(s) : IsLast(k, Determined(s)) =>
          IF jobs[s][k].status \in Good
          THEN capability[s] = [status |-> "available", last_success |-> k]
          ELSE \/ capability[s].status = "unavailable" /\ capability[s].last_success < k
               \/ Policy(s) /\ capability[s] = [status |-> "available", last_success |-> k]

ResultOf(s) ==
    /\ capability[s].last_success \in Determined(s) \cup {0}
    /\ CapabilityOf(s)
    /\ Generic(s) => \A k \in DOMAIN jobs[s] :
          jobs[s][k].finished => jobs[s][k].status # "running"

\* The invariant speaks of one task or of one source at a time.
LEMMA ResultParts ==
    ResultInv <=> /\ \A r \in Runner : pc[r] \in Working => OwnResult(r)
                  /\ \A s \in Source : ResultOf(s)
BY DEF ResultInv, ResultOf, CapabilityOf, CapabilityIsLatestVerdict, FinishedHasResult

\* The same of the state after a step.
LEMMA ResultPartsPrimed ==
    ResultInv' <=> /\ \A r \in Runner : pc'[r] \in Working => OwnResult(r)'
                   /\ \A s \in Source : ResultOf(s)'
BY DEF ResultInv, ResultOf, CapabilityOf, CapabilityIsLatestVerdict, FinishedHasResult

\* A row that has no verdict before or after a step leaves the source's records
\* true.
LEMMA NoNewVerdict ==
    ASSUME TypeOK, [Next]_vars, NEW s \in Source, ResultOf(s), NEW n \in 1 .. Len(jobs'[s]),
           1 .. Len(jobs'[s]) = (1 .. Latest(s)) \cup {n},
           \A k \in 1 .. Latest(s) : k # n => jobs'[s][k] = jobs[s][k],
           n \notin Determined(s), jobs'[s][n].status \notin Good \cup {"failed"},
           Generic(s) /\ jobs'[s][n].finished => jobs'[s][n].status # "running",
           capability'[s] = capability[s]
    PROVE  ResultOf(s)'
<1>1. /\ DOMAIN jobs[s] = 1 .. Latest(s)
      /\ DOMAIN jobs'[s] = 1 .. Len(jobs'[s])
  BY Rows, RowsPrimed
<1>2. Determined(s)' = Determined(s)
  BY <1>1 DEF Determined
<1>3. \A k \in Determined(s) : jobs'[s][k] = jobs[s][k]
  BY <1>1 DEF Determined
<1>4. CapabilityOf(s)'
  BY <1>2, <1>3 DEF ResultOf, CapabilityOf
<1>5. capability'[s].last_success \in Determined(s)' \cup {0}
  BY <1>2 DEF ResultOf
<1>6. Generic(s) => \A k \in DOMAIN jobs'[s] :
         jobs'[s][k].finished => jobs'[s][k].status # "running"
  BY <1>1 DEF ResultOf
<1> QED
  BY <1>4, <1>5, <1>6 DEF ResultOf, Generic

\* A verdict about the newest job makes the records of its source true, when the
\* capability becomes that verdict.
LEMMA NewVerdict ==
    ASSUME TypeOK, [Next]_vars, NEW s \in Source, ResultOf(s), NEW n, n = Latest(s), n > 0,
           Len(jobs'[s]) = n,
           \A k \in 1 .. Latest(s) : k # n => jobs'[s][k] = jobs[s][k],
           jobs'[s][n].status \in Good \cup {"failed"},
           jobs'[s][n].status \in Good =>
              capability'[s] = [status |-> "available", last_success |-> n],
           jobs'[s][n].status = "failed" =>
              \/ /\ capability'[s].status = "unavailable" /\ n \notin Determined(s)
                 /\ capability'[s].last_success = capability[s].last_success
              \/ Policy(s) /\ capability'[s] = [status |-> "available", last_success |-> n]
    PROVE  ResultOf(s)'
<1>1. /\ DOMAIN jobs[s] = 1 .. n /\ n \in Nat
      /\ DOMAIN jobs'[s] = 1 .. n
  BY Rows, RowsPrimed
<1>2. Determined(s)' = Determined(s) \cup {n} /\ Determined(s) \subseteq 1 .. n
  BY <1>1 DEF Determined
<1>3. \A k \in Determined(s)' : IsLast(k, Determined(s)') => k = n
  BY <1>1, <1>2 DEF IsLast
<1>4. jobs'[s][n].status \notin Good => jobs'[s][n].status = "failed"
  OBVIOUS
<1>5. "failed" \notin Good /\ "running" \notin Good \cup {"failed"}
  BY DEF Good
<1>6. capability'[s].last_success = capability[s].last_success =>
         /\ capability'[s].last_success \in Determined(s) \cup {0}
         /\ n \notin Determined(s) => capability'[s].last_success < n
  BY <1>1, <1>2 DEF ResultOf
<1>7. capability'[s].last_success \in Determined(s)' \cup {0}
  BY <1>2, <1>4, <1>6
<1>8. CapabilityOf(s)'
  BY <1>2, <1>3, <1>4, <1>5, <1>6 DEF CapabilityOf
<1>9. Generic(s) => \A k \in DOMAIN jobs'[s] :
         jobs'[s][k].finished => jobs'[s][k].status # "running"
  BY <1>1, <1>5 DEF ResultOf
<1> QED
  BY <1>7, <1>8, <1>9 DEF ResultOf, Generic

\* What the outcomes of a synchronization have in common.
LEMMA EndingKinds ==
    ASSUME NEW s \in Source, NEW o \in Endings(s)
    PROVE  \/ /\ o.status \in {"skipped", "cancelled", "running"}
              /\ Generic(s) => o.status # "running"
              /\ o.capability = "keep" /\ o.succeeded = FALSE
           \/ o.status = "failed" /\ o.capability = "unavailable" /\ o.succeeded = FALSE
           \/ /\ o.status = "success" \/ (o.status = "failed" /\ Policy(s))
              /\ o.capability = "available" /\ o.succeeded = TRUE
<1>1. CASE o \in RunSourceFailures
  BY <1>1 DEF RunSourceFailures, Settle
<1>2. CASE o \in PolicyOutcomes /\ Policy(s) /\ ~Generic(s)
  BY <1>2 DEF PolicyOutcomes, Settle
<1>3. CASE o \in LogOutcomes
  BY <1>3 DEF LogOutcomes, Settle
<1>4. CASE o = Settle("skipped", "keep", FALSE, "none")
  BY <1>4 DEF Settle
<1>5. CASE o = Settle("cancelled", "keep", FALSE, "cancelled")
  BY <1>5 DEF Settle
<1>6. CASE o = Settle("running", "keep", FALSE, "cancelled") /\ ~Generic(s)
  BY <1>6 DEF Settle
<1>7. o \in Outcomes(s) =>
         o \in RunSourceFailures \/ (o \in PolicyOutcomes /\ Policy(s) /\ ~Generic(s))
           \/ o \in LogOutcomes
  BY DEF Outcomes, Generic, Policy, Logs
<1> QED
  BY <1>1, <1>2, <1>3, <1>4, <1>5, <1>6, <1>7 DEF Endings
\* A step in which the tables of the sources stay, and tasks that work on a job
\* go on, perhaps to their finally block.
Undecided ==
    /\ jobs' = jobs /\ capability' = capability
    /\ \A r \in Runner : pc'[r] \in Working =>
          /\ pc[r] \in Working /\ plan'[r] = plan[r] /\ job'[r] = job[r]
          /\ pc'[r] \in {"client", "work"} => pc[r] \in {"client", "work"}
          /\ pc'[r] = "close" =>
                \/ pc[r] = "close" /\ pending'[r] = pending[r]
                \/ pc[r] \in {"client", "work"} /\ pending'[r] \in Endings(Current(r))

\* Such a step keeps the invariant of the results.
LEMMA UndecidedKeeps ==
    ASSUME ResultInv, Undecided
    PROVE  ResultInv'
<1>1. ASSUME NEW s \in Source PROVE ResultOf(s)'
  BY ResultParts DEF Undecided, ResultOf, CapabilityOf, Determined, IsLast, Generic, Policy
<1>2. ASSUME NEW r \in Runner, pc'[r] \in Working PROVE OwnResult(r)'
  <2>1. /\ pc[r] \in Working /\ plan'[r] = plan[r] /\ job'[r] = job[r]
        /\ pc'[r] \in {"client", "work"} => pc[r] \in {"client", "work"}
        /\ pc'[r] = "close" =>
              \/ pc[r] = "close" /\ pending'[r] = pending[r]
              \/ pc[r] \in {"client", "work"} /\ pending'[r] \in Endings(Current(r))
    BY <1>2 DEF Undecided
  <2>2. OwnResult(r)
    BY <2>1, ResultParts
  <2>3. \A s : Endings(s)' = Endings(s)
    BY DEF Endings, Outcomes, Generic, Policy, Logs
  <2>4. Current(r)' = Current(r)
    BY <2>1 DEF Current
  <2>5. Endings(Current(r))' = Endings(Current(r))
    BY <2>4 DEF Endings, Outcomes, Generic, Policy, Logs
  <2>6. jobs' = jobs
    BY DEF Undecided
  <2> QED
    BY <2>1, <2>2, <2>4, <2>5, <2>6 DEF OwnResult
<1> QED
  BY <1>1, <1>2, ResultPartsPrimed

\* All steps but the three that write a row are of that kind.
LEMMA UndecidedOfTask ==
    ASSUME TypeOK, NEW r \in Runner, Step(r) \/ Cancel(r),
           ~InsertJob(r), ~WorkerSucceeds(r), ~Close(r)
    PROVE  Undecided
<1>1. jobs' = jobs /\ capability' = capability
  BY DEF Step, Cancel, Begin, TryLock, OpenClient, WorkerEnds, Unlock, FinalRead, FinalCommit,
         Return, CancelWork, CancelElsewhere, CancelInstrument, database
<1> SUFFICES ASSUME NEW q \in Runner, pc'[q] \in Working
             PROVE  /\ pc[q] \in Working /\ plan'[q] = plan[q] /\ job'[q] = job[q]
                    /\ pc'[q] \in {"client", "work"} => pc[q] \in {"client", "work"}
                    /\ pc'[q] = "close" =>
                          \/ pc[q] = "close" /\ pending'[q] = pending[q]
                          \/ pc[q] \in {"client", "work"} /\ pending'[q] \in Endings(Current(q))
  BY <1>1 DEF Undecided
<1>2. CASE q # r
  BY <1>2, StepAlone, StepPrivate DEF Alone, Private, Working
<1>3. CASE q = r
  <2>1. pc[r] \in Working /\ plan'[r] = plan[r] /\ job'[r] = job[r]
    BY <1>3, WorkingSteps
  <2>2. CASE OpenClient(r)
    <3>1. CASE pc' = [pc EXCEPT ![r] = "work"]
      BY <1>3, <2>1, <2>2, <3>1 DEF OpenClient, TypeOK, TaskOK
    <3>2. ASSUME NEW o \in Endings(Current(r)), Prepare(r, o)
          PROVE  pc[r] = "client" /\ pc'[r] = "close" /\ pending'[r] \in Endings(Current(r))
      BY <2>2, <3>2 DEF OpenClient, Prepare, TypeOK, TaskOK
    <3>3. ~Escape(r, "error")
      BY <1>3 DEF Escape, Working, TypeOK, TaskOK
    <3>4. /\ Settle("skipped", "keep", FALSE, "none") \in Endings(Current(r))
          /\ Generic(Current(r)) =>
                Settle("failed", "unavailable", FALSE, "none") \in Endings(Current(r))
      <4>1. Generic(Current(r)) => Outcomes(Current(r)) = RunSourceFailures
        BY DEF Outcomes, Generic, Policy, Logs
      <4> QED
        BY <4>1 DEF Endings, RunSourceFailures
    <3> QED
      BY <1>3, <2>1, <2>2, <3>1, <3>2, <3>3, <3>4 DEF OpenClient
  <2>3. CASE WorkerEnds(r)
    <3>1. pc[r] = "work" /\ pc'[r] = "close" /\ pending'[r] \in Outcomes(Current(r))
      BY <2>3 DEF WorkerEnds, Prepare, TypeOK, TaskOK
    <3> QED
      BY <1>3, <2>1, <3>1 DEF Endings
  <2>4. CASE CancelWork(r)
    <3>1. ASSUME NEW o \in Endings(Current(r)), Prepare(r, o)
          PROVE  /\ pc[r] \in {"client", "work"} /\ pc'[r] = "close"
                 /\ pending'[r] \in Endings(Current(r))
      BY <2>4, <3>1 DEF CancelWork, Prepare, TypeOK, TaskOK
    <3>2. ~Escape(r, "cancelled")
      BY <1>3 DEF Escape, Working, TypeOK, TaskOK
    <3>3. /\ Generic(Current(r)) =>
                Settle("cancelled", "keep", FALSE, "cancelled") \in Endings(Current(r))
          /\ ~Generic(Current(r)) =>
                Settle("running", "keep", FALSE, "cancelled") \in Endings(Current(r))
      BY DEF Endings
    <3> QED
      BY <1>3, <2>1, <2>4, <3>1, <3>2, <3>3 DEF CancelWork
  <2>5. CASE Begin(r) \/ TryLock(r) \/ Unlock(r) \/ FinalRead(r)
    BY <1>3, <2>5 DEF Begin, TryLock, Unlock, FinalRead, Working, TypeOK, TaskOK
  <2>6. CASE FinalCommit(r) \/ Return(r) \/ CancelInstrument(r)
    BY <1>3, <2>6 DEF FinalCommit, Return, CancelInstrument, Advance, Working, TypeOK, TaskOK
  <2>7. CASE CancelElsewhere(r)
    BY <1>3, <2>7 DEF CancelElsewhere, Escape, Working, TypeOK, TaskOK
  <2> QED
    BY <2>2, <2>3, <2>4, <2>5, <2>6, <2>7 DEF Step, Cancel
<1> QED
  BY <1>2, <1>3

\* So are the steps of processes and of the pool.
LEMMA UndecidedElse ==
    ASSUME TypeOK,
           \/ \E i \in Instance : Launch(i) \/ Shutdown(i) \/ Stop(i)
           \/ \E r \in Runner : \E p \in Plans[r] : Start(r, p)
           \/ \E s \in Source : Reclaim(s)
           \/ Rest
           \/ UNCHANGED vars
    PROVE  Undecided
<1>1. jobs' = jobs /\ capability' = capability
  BY DEF Launch, Shutdown, Stop, Start, Reclaim, Rest, vars, database
<1> SUFFICES ASSUME NEW q \in Runner, pc'[q] \in Working
             PROVE  /\ pc'[q] = pc[q] /\ plan'[q] = plan[q] /\ job'[q] = job[q]
                    /\ pending'[q] = pending[q]
  BY <1>1 DEF Undecided, Working
<1>2. ASSUME NEW r \in Runner, NEW p, TakeUp(r, p)
      PROVE  /\ pc'[q] = pc[q] /\ plan'[q] = plan[q] /\ job' = job /\ pending' = pending
  BY <1>2 DEF TakeUp, Working, TypeOK, TaskOK
<1>3. ASSUME NEW i \in Instance, Launch(i)
      PROVE  UNCHANGED local \/ \E r \in Runner : \E p : TakeUp(r, p)
  BY <1>3, ConstantsAssumption DEF Launch
<1>4. ASSUME NEW i \in Instance, Stop(i)
      PROVE  /\ pc'[q] = pc[q] /\ plan'[q] = plan[q] /\ job'[q] = job[q]
             /\ pending'[q] = pending[q]
  BY <1>4 DEF Stop, Working
<1>5. \/ UNCHANGED local
      \/ \E r \in Runner : \E p : TakeUp(r, p)
      \/ \E i \in Instance : Stop(i)
  BY <1>3 DEF Start, Shutdown, Reclaim, Rest, vars, local
<1> QED
  BY <1>2, <1>4, <1>5 DEF local
\* The step of a task that writes a row: the others go on.
LEMMA OthersGoOn ==
    ASSUME TypeOK, LockIsHeld, ResultInv, NEW r \in Runner, Step(r) \/ Cancel(r),
           pc[r] \in Critical, \A s \in Source \ {Current(r)} : jobs'[s] = jobs[s],
           NEW q \in Runner \ {r}, pc'[q] \in Working
    PROVE  OwnResult(q)'
<1>1. /\ pc'[q] = pc[q] /\ plan'[q] = plan[q] /\ job'[q] = job[q] /\ pending'[q] = pending[q]
  BY StepAlone, StepPrivate DEF Alone, Private
<1>2. pc[q] \in Critical /\ pc[q] # "idle"
  BY <1>1 DEF Working, Critical
<1>3. Current(q) \in Source /\ Current(q) # Current(r)
  BY <1>2, CurrentType, Exclusion DEF TypeOK
<1>4. OwnResult(q)
  BY <1>1, ResultParts
<1>5. Current(q)' = Current(q)
  BY <1>1 DEF Current
<1>6. Endings(Current(q))' = Endings(Current(q))
  BY <1>5 DEF Endings, Outcomes, Generic, Policy, Logs
<1> QED
  BY <1>1, <1>3, <1>4, <1>5, <1>6 DEF OwnResult

\* A new job has no result.
LEMMA InsertResult ==
    ASSUME IInv, ResultInv, NEW r \in Runner, InsertJob(r)
    PROVE  ResultInv'
<1> USE DEF IInv
<1>1. Current(r) \in Source /\ Step(r) /\ pc[r] \in Critical /\ Next
  BY CurrentType DEF InsertJob, TypeOK, Step, Critical, Next
<1>2. PICK s \in Source : s = Current(r)
  BY <1>1
<1>3. PICK n \in Nat : n = Latest(s) + 1
  BY Rows
<1>4. /\ capability' = capability /\ \A t \in Source \ {s} : jobs'[t] = jobs[t]
      /\ pc'[r] = "client" /\ plan'[r] = plan[r] /\ job'[r] = n
  BY <1>2, <1>3 DEF InsertJob, TypeOK, DatabaseOK, TaskOK
<1>5. jobs'[s][n].status = "running" /\ ~jobs'[s][n].finished
  <2>1. PICK k \in Nat : jobs'[s][n] = [status |-> "running", finished |-> FALSE, run |-> k]
    BY <1>2, <1>3, InsertedRow DEF TypeOK, TaskOK
  <2> QED
    BY <2>1
<1>6. Len(jobs'[s]) = n /\ \A k \in 1 .. Latest(s) : jobs'[s][k] = jobs[s][k]
  BY <1>2, <1>3, InsertRows
<1>7. ResultOf(s)'
  <2>1. n \notin Determined(s) /\ 1 .. Len(jobs'[s]) = (1 .. Latest(s)) \cup {n}
        /\ n \in 1 .. Len(jobs'[s])
    BY <1>3, <1>6, Rows DEF Determined
  <2>2. "running" \notin Good \cup {"failed"}
    BY DEF Good
  <2>3. ResultOf(s)
    BY ResultParts
  <2> QED
    BY <1>1, <1>4, <1>5, <1>6, <2>1, <2>2, <2>3, NoNewVerdict
<1>8. ASSUME NEW t \in Source, t # s PROVE ResultOf(t)'
  <2>1. ResultOf(t)
    BY ResultParts
  <2>2. jobs'[t] = jobs[t] /\ capability'[t] = capability[t]
    BY <1>4, <1>8
  <2> QED
    BY <2>1, <2>2 DEF ResultOf, CapabilityOf, Determined, IsLast, Generic, Policy
<1>9. OwnResult(r)'
  BY <1>2, <1>4, <1>5 DEF OwnResult, Current
<1>10. ASSUME NEW q \in Runner \ {r}, pc'[q] \in Working PROVE OwnResult(q)'
  BY <1>1, <1>2, <1>4, <1>10, OthersGoOn
<1> QED
  BY <1>7, <1>8, <1>9, <1>10, ResultPartsPrimed

\* A result and its capability are committed together.
LEMMA WorkerResult ==
    ASSUME IInv, ResultInv, NEW r \in Runner, WorkerSucceeds(r)
    PROVE  ResultInv'
<1> USE DEF IInv
<1>1. Current(r) \in Source /\ Step(r) /\ pc[r] \in Critical /\ pc[r] \in Working /\ Next
  BY CurrentType DEF WorkerSucceeds, TypeOK, Step, Critical, Working, Next
<1>2. PICK s \in Source : s = Current(r)
  BY <1>1
<1>3. PICK n \in Nat : n = Latest(s)
  BY Rows
<1>4. job[r] = n /\ n > 0 /\ n \in DOMAIN jobs[s] /\ jobs[s] \in Seq(Job)
  BY <1>1, <1>2, <1>3, Rows DEF OpenJobIsNewest
<1>5. PICK status \in Good :
         /\ jobs' = [jobs EXCEPT ![s][n].status = status]
         /\ Prepare(r, Settle(status, "keep", FALSE, "none"))
  BY <1>2, <1>4 DEF WorkerSucceeds
<1>6. /\ capability' = [capability EXCEPT ![s] = [status |-> "available", last_success |-> n]]
      /\ plan' = plan
  BY <1>2, <1>4 DEF WorkerSucceeds
<1>7. jobs'[s][n].status = status
  <2>1. jobs'[s][n] = [jobs[s][n] EXCEPT !.status = status]
    BY <1>4, <1>5 DEF TypeOK, DatabaseOK
  <2>2. jobs[s][n] \in Job
    BY <1>4, ElementOfSeq
  <2> QED
    BY <2>1, <2>2 DEF Job
<1>8. /\ \A t \in Source \ {s} : jobs'[t] = jobs[t] /\ capability'[t] = capability[t]
      /\ capability'[s] = [status |-> "available", last_success |-> n]
  BY <1>5, <1>6 DEF TypeOK, DatabaseOK
<1>9. Len(jobs'[s]) = n /\ \A k \in 1 .. Latest(s) : k # n => jobs'[s][k] = jobs[s][k]
  BY <1>2, <1>3, <1>4, Rows, ResultRows
<1>10. ResultOf(s)'
  <2>1. ResultOf(s) /\ "failed" \notin Good
    BY ResultParts DEF Good
  <2> QED
    BY <1>1, <1>3, <1>4, <1>7, <1>8, <1>9, <2>1, NewVerdict
<1>11. ASSUME NEW t \in Source, t # s PROVE ResultOf(t)'
  <2>1. ResultOf(t)
    BY ResultParts
  <2>2. jobs'[t] = jobs[t] /\ capability'[t] = capability[t]
    BY <1>8, <1>11
  <2> QED
    BY <2>1, <2>2 DEF ResultOf, CapabilityOf, Determined, IsLast, Generic, Policy
<1>12. OwnResult(r)'
  <2>1. /\ pc'[r] = "close" /\ pending'[r] = Settle(status, "keep", FALSE, "none")
        /\ job'[r] = n /\ plan'[r][1] = s
    BY <1>2, <1>4, <1>5, <1>6 DEF Prepare, TypeOK, TaskOK, Current
  <2> QED
    BY <1>7, <2>1 DEF OwnResult, Current
<1>13. ASSUME NEW q \in Runner \ {r}, pc'[q] \in Working PROVE OwnResult(q)'
  BY <1>1, <1>2, <1>8, <1>13, OthersGoOn
<1> QED
  BY <1>10, <1>11, <1>12, <1>13, ResultPartsPrimed
\* The finally block commits the verdict with the capability, or neither.
LEMMA CloseResult ==
    ASSUME IInv, ResultInv, NEW r \in Runner, Close(r)
    PROVE  ResultInv'
<1> USE DEF IInv
<1>1. Current(r) \in Source /\ Step(r) /\ pc[r] \in Critical /\ pc[r] \in Working /\ Next
      /\ pc[r] = "close"
  BY CurrentType DEF Close, TypeOK, Step, Critical, Working, Next
<1>2. PICK s \in Source : s = Current(r)
  BY <1>1
<1>3. PICK n \in Nat : n = Latest(s)
  BY Rows
<1>4. job[r] = n /\ n > 0 /\ n \in DOMAIN jobs[s] /\ jobs[s] \in Seq(Job)
  BY <1>1, <1>2, <1>3, Rows DEF OpenJobIsNewest
<1>5. PICK o \in Pending : o = pending[r]
  BY DEF TypeOK, TaskOK
<1>6. jobs' = [jobs EXCEPT ![s][n] = [jobs[s][n] EXCEPT !.status = o.status, !.finished = TRUE]]
  BY <1>2, <1>4, <1>5 DEF Close, TypeOK, DatabaseOK
<1>7. jobs'[s][n].status = o.status
  <2>1. jobs'[s][n] = [jobs[s][n] EXCEPT !.status = o.status, !.finished = TRUE]
    BY <1>4, <1>6 DEF TypeOK, DatabaseOK
  <2>2. jobs[s][n] \in Job
    BY <1>4, ElementOfSeq
  <2> QED
    BY <2>1, <2>2 DEF Job
<1>8. capability'[s] = [status |-> IF o.capability = "keep" THEN capability[s].status
                                   ELSE o.capability,
                        last_success |-> IF o.succeeded THEN n ELSE capability[s].last_success]
  BY <1>2, <1>4, <1>5 DEF Close, TypeOK, DatabaseOK
<1>9. \A t \in Source \ {s} : jobs'[t] = jobs[t] /\ capability'[t] = capability[t]
  BY <1>2 DEF Close, TypeOK, DatabaseOK
<1>10. /\ Len(jobs'[s]) = n /\ DOMAIN jobs'[s] = 1 .. n
       /\ \A k \in 1 .. Latest(s) : k # n => jobs'[s][k] = jobs[s][k]
  BY <1>1, <1>2, <1>3, <1>4, Rows, RowsPrimed, ResultRows
<1>11. capability[s] = [status |-> capability[s].status,
                        last_success |-> capability[s].last_success]
  BY DEF TypeOK, DatabaseOK, Shown
<1>12. ResultOf(s)
  BY ResultParts
<1>13. \/ jobs[s][n].status = "running" /\ o \in Endings(s)
       \/ jobs[s][n].status \in Good /\ o = Settle(jobs[s][n].status, "keep", FALSE, "none")
  BY <1>1, <1>2, <1>4, <1>5, ResultParts DEF OwnResult
<1>14. "failed" \notin Good /\ "success" \in Good /\ "running" \notin Good \cup {"failed"}
       /\ "skipped" \notin Good \cup {"failed"} /\ "cancelled" \notin Good \cup {"failed"}
  BY DEF Good
<1>15. ASSUME jobs[s][n].status = "running", o \in Endings(s)
       PROVE  ResultOf(s)'
  <2>1. n \notin Determined(s)
    BY <1>14, <1>15 DEF Determined
  <2>2. CASE /\ o.status \in {"skipped", "cancelled", "running"}
             /\ Generic(s) => o.status # "running"
             /\ o.capability = "keep" /\ o.succeeded = FALSE
    <3>1. capability'[s] = capability[s]
      BY <1>8, <1>11, <2>2
    <3>2. 1 .. Len(jobs'[s]) = (1 .. Latest(s)) \cup {n} /\ n \in 1 .. Len(jobs'[s])
      BY <1>3, <1>4, <1>10
    <3> QED
      BY <1>1, <1>7, <1>10, <1>12, <1>14, <2>1, <2>2, <3>1, <3>2, NoNewVerdict
  <2>3. CASE o.status = "failed" /\ o.capability = "unavailable" /\ o.succeeded = FALSE
    <3>1. /\ capability'[s].status = "unavailable"
          /\ capability'[s].last_success = capability[s].last_success
      BY <1>8, <2>3
    <3> QED
      BY <1>1, <1>3, <1>4, <1>7, <1>10, <1>12, <1>14, <2>1, <2>3, <3>1, NewVerdict
  <2>4. CASE /\ o.status = "success" \/ (o.status = "failed" /\ Policy(s))
             /\ o.capability = "available" /\ o.succeeded = TRUE
    <3>1. capability'[s] = [status |-> "available", last_success |-> n]
      BY <1>8, <2>4
    <3> QED
      BY <1>1, <1>3, <1>4, <1>7, <1>10, <1>12, <1>14, <2>4, <3>1, NewVerdict
  <2> QED
    BY <1>15, <2>2, <2>3, <2>4, EndingKinds
<1>16. ASSUME jobs[s][n].status \in Good, o = Settle(jobs[s][n].status, "keep", FALSE, "none")
       PROVE  ResultOf(s)'
  <2>1. o.status = jobs[s][n].status /\ o.capability = "keep" /\ o.succeeded = FALSE
    BY <1>16 DEF Settle
  <2>2. capability'[s] = capability[s]
    BY <1>8, <1>11, <2>1
  <2>3. capability[s] = [status |-> "available", last_success |-> n]
    <3>1. n \in Determined(s) /\ IsLast(n, Determined(s))
      BY <1>3, <1>4, <1>16, Rows DEF Determined, IsLast
    <3> QED
      BY <1>12, <1>16, <3>1 DEF ResultOf, CapabilityOf
  <2> QED
    BY <1>1, <1>3, <1>4, <1>7, <1>10, <1>12, <1>14, <1>16, <2>1, <2>2, <2>3, NewVerdict
<1>17. ASSUME NEW t \in Source, t # s PROVE ResultOf(t)'
  <2>1. ResultOf(t)
    BY ResultParts
  <2>2. jobs'[t] = jobs[t] /\ capability'[t] = capability[t]
    BY <1>9, <1>17
  <2> QED
    BY <2>1, <2>2 DEF ResultOf, CapabilityOf, Determined, IsLast, Generic, Policy
<1>18. pc'[r] \notin Working
  BY DEF Close, Working, TypeOK, TaskOK
<1>19. ASSUME NEW q \in Runner \ {r}, pc'[q] \in Working PROVE OwnResult(q)'
  BY <1>1, <1>2, <1>9, <1>19, OthersGoOn
<1> QED
  BY <1>13, <1>15, <1>16, <1>17, <1>18, <1>19, ResultPartsPrimed

\* Every step keeps the invariant of the results.
LEMMA ResultNext == IInv /\ ResultInv /\ [Next]_vars => ResultInv'
<1> SUFFICES ASSUME IInv, ResultInv, [Next]_vars PROVE ResultInv'
  OBVIOUS
<1>1. ASSUME NEW r \in Runner, Step(r) \/ Cancel(r) PROVE ResultInv'
  BY <1>1, InsertResult, WorkerResult, CloseResult, UndecidedOfTask, UndecidedKeeps DEF IInv
<1>2. CASE \/ \E i \in Instance : Launch(i) \/ Shutdown(i) \/ Stop(i)
           \/ \E r \in Runner : \E p \in Plans[r] : Start(r, p)
           \/ \E s \in Source : Reclaim(s)
           \/ Rest
           \/ UNCHANGED vars
  BY <1>2, UndecidedElse, UndecidedKeeps DEF IInv
<1> QED
  BY <1>1, <1>2 DEF Next

\* No job and no capability: the invariant holds at first.
LEMMA ResultInit == Init => ResultInv
BY DEF Init, Fresh, ResultInv, Determined, CapabilityIsLatestVerdict, FinishedHasResult, Working

(* However many backends, tasks and sources there are, and whatever stops,  *)
(* leaks or is cancelled: what the tables say of the executions is true. A  *)
(* capability is the verdict of the latest job that reached one, a run      *)
(* recorded as lock_skipped has no job, and a finished job of _run_source   *)
(* has a result.                                                            *)
THEOREM TrueRecords == Spec => []RecordsAreTrue
<1>1. Init => RunInv /\ ResultInv
  BY RunInit, ResultInit
<1>2. IInv /\ RunInv /\ ResultInv /\ [Next]_vars => RunInv' /\ ResultInv'
  BY RunNext, ResultNext DEF IInv
<1>3. RunInv /\ ResultInv => RecordsAreTrue
  BY DEF RunInv, ResultInv, RecordsAreTrue
<1> QED
  BY <1>1, <1>2, <1>3, Invariance, PTL DEF Spec
-----------------------------------------------------------------------------
(* The records of a single backend: what its runs say of its own jobs.      *)

\* One backend after its first start, without manual requests: a source has one
\* scheduled job, of which the scheduler runs one instance (max_instances=1).
OneTaskOfASource ==
    \A q, r \in Runner : \A p \in Plans[q], o \in Plans[r] :
       Sources(p) \cap Sources(o) # {} => q = r

\* A task runs what it was started with.
PlannedInv ==
    \A r \in Runner : pc[r] # "idle" => \E p \in Plans[r] : Sources(plan[r]) \subseteq Sources(p)

\* The results that are not those of an exception.
Reported == {"success", "partial_success", "failed", "skipped"}

\* The newest job of the source is the one that the run of r inserted.
NewestIsOwn(r) ==
    /\ Latest(Current(r)) = previous[r] + 1
    /\ jobs[Current(r)][Latest(Current(r))].run = run[r]

\* A job that is the work of the run k.
WorkOf(s, j, k) ==
    /\ j \in 1 .. Latest(s)
    /\ jobs[s][j].run = k /\ jobs[s][j].status = "success" /\ jobs[s][j].finished

\* An instrumented task is the newest run of its source.  It has inserted no job,
\* or the newest one, which has a result when nothing was raised.
NewestRun(r) ==
    /\ run[r] = Len(opRuns[Current(r)])
    /\ pc[r] \in {"lock", "insert"} => Latest(Current(r)) = previous[r]
    /\ pc[r] \in Working \cup {"unlock"} => NewestIsOwn(r)
    /\ pc[r] \in {"return", "final"} => Latest(Current(r)) = previous[r] \/ NewestIsOwn(r)
    /\ pc[r] \in {"unlock", "return"} /\ NewestIsOwn(r) /\ raised[r] = "none" =>
          /\ jobs[Current(r)][Latest(Current(r))].finished
          /\ jobs[Current(r)][Latest(Current(r))].status \in Reported

\* What it has read is still so when it commits.
VerdictIsTrue(r) ==
    /\ verdict[r].status \in Reported \cup {"cancelled", "lock_skipped"}
    /\ verdict[r].failures = opState[Current(r)].consecutive_failures
    /\ verdict[r].status = "success" => WorkOf(Current(r), verdict[r].job, run[r])

\* Of a sequence of runs, the failing ones since the last success.
Unanswered(q) ==
    {k \in DOMAIN q : q[k].status \in Failing /\ \A m \in k .. Len(q) : q[m].status # "success"}

\* What is recorded of a source.
OwnRecords(s) ==
    /\ \A k \in DOMAIN opRuns[s] :
          opRuns[s][k].status = "success" => WorkOf(s, opRuns[s][k].job, k)
    /\ opState[s].consecutive_failures = Cardinality(Unanswered(opRuns[s]))

OwnInv ==
    /\ PlannedInv
    /\ \A r \in Runner : Owns(r) => NewestRun(r) /\ (pc[r] = "final" => VerdictIsTrue(r))
    /\ \A s \in Source : OwnRecords(s)
\* Tasks that are not idle and on one source are the same.
LEMMA Separate ==
    ASSUME TypeOK, OneTaskOfASource, PlannedInv, NEW q \in Runner, NEW r \in Runner,
           pc[q] # "idle", pc[r] # "idle", Current(q) = Current(r)
    PROVE  q = r
<1>1. Current(q) \in Sources(plan[q]) /\ Current(r) \in Sources(plan[r])
  BY CurrentType DEF TypeOK, Current, Sources
<1>2. PICK p \in Plans[q], o \in Plans[r] :
         Sources(plan[q]) \subseteq Sources(p) /\ Sources(plan[r]) \subseteq Sources(o)
  BY DEF PlannedInv
<1>3. Sources(p) \cap Sources(o) # {}
  BY <1>1, <1>2
<1> QED
  BY <1>2, <1>3 DEF OneTaskOfASource

\* What a task that is not idle after its step still runs.
LEMMA PlanSteps ==
    ASSUME TypeOK, NEW r \in Runner, Step(r) \/ Cancel(r), pc'[r] # "idle"
    PROVE  pc[r] # "idle" /\ (plan'[r] = plan[r] \/ plan'[r] = Tail(plan[r]))
<1>1. CASE Begin(r) \/ TryLock(r) \/ InsertJob(r)
  BY <1>1 DEF Begin, TryLock, InsertJob
<1>2. CASE OpenClient(r) \/ WorkerSucceeds(r) \/ WorkerEnds(r)
  BY <1>2 DEF OpenClient, WorkerSucceeds, WorkerEnds
<1>3. CASE Close(r) \/ Unlock(r) \/ FinalRead(r)
  BY <1>3 DEF Close, Unlock, FinalRead
<1>4. CASE FinalCommit(r) \/ Return(r) \/ CancelInstrument(r)
  BY <1>4 DEF FinalCommit, Return, CancelInstrument, Advance, TypeOK, TaskOK
<1>5. CASE CancelWork(r) \/ CancelElsewhere(r)
  BY <1>5 DEF CancelWork, CancelElsewhere
<1> QED
  BY <1>1, <1>2, <1>3, <1>4, <1>5 DEF Step, Cancel

\* The steps of processes and of the pool: what they leave of a task and of the
\* tables of instrument_job.
LEMMA ProcessesKeep ==
    ASSUME TypeOK, NEW q \in Runner,
           \/ \E i \in Instance : Launch(i) \/ Shutdown(i) \/ Stop(i)
           \/ \E r \in Runner : \E p \in Plans[r] : Start(r, p)
           \/ \E s \in Source : Reclaim(s)
           \/ Rest
           \/ UNCHANGED vars
    PROVE  /\ UNCHANGED <<jobs, opRuns, opState>>
           /\ \/ /\ pc'[q] = pc[q] /\ plan'[q] = plan[q] /\ previous'[q] = previous[q]
                 /\ run'[q] = run[q] /\ raised'[q] = raised[q] /\ verdict'[q] = verdict[q]
              \/ pc'[q] = "idle"
              \/ /\ plan'[q] \in Plans[q]
                 /\ pc'[q] = IF q \in Instrumented THEN "begin" ELSE "lock"
<1>1. CASE \E s \in Source : Reclaim(s)
  BY <1>1 DEF Reclaim, local
<1>2. CASE Rest \/ UNCHANGED vars
  BY <1>2 DEF Rest, vars
<1>3. CASE \E i \in Instance : Shutdown(i)
  BY <1>3 DEF Shutdown, local, database
<1>4. CASE \E i \in Instance : Stop(i)
  BY <1>4 DEF Stop
<1>5. ASSUME NEW r \in Runner, NEW p \in Plans[r], TakeUp(r, p)
      PROVE  \/ /\ pc'[q] = pc[q] /\ plan'[q] = plan[q] /\ previous'[q] = previous[q]
                /\ run'[q] = run[q] /\ raised'[q] = raised[q] /\ verdict'[q] = verdict[q]
             \/ /\ plan'[q] \in Plans[q]
                /\ pc'[q] = IF q \in Instrumented THEN "begin" ELSE "lock"
  BY <1>5 DEF TakeUp, TypeOK, TaskOK
<1>6. CASE \E r \in Runner : \E p \in Plans[r] : Start(r, p)
  BY <1>5, <1>6 DEF Start, database
<1>7. CASE \E i \in Instance : Launch(i)
  <2>1. UNCHANGED local \/ \E r \in Runner : \E p \in Plans[r] : TakeUp(r, p)
    BY <1>7, ConstantsAssumption DEF Launch
  <2>2. UNCHANGED <<jobs, opRuns, opState>>
    BY <1>7 DEF Launch, database
  <2> QED
    BY <1>5, <2>1, <2>2 DEF local
<1> QED
  BY <1>1, <1>2, <1>3, <1>4, <1>6, <1>7

\* Every step keeps what tasks run within their plans.
LEMMA PlannedNext == ASSUME TypeOK, PlannedInv, [Next]_vars PROVE PlannedInv'
<1>1. SUFFICES ASSUME NEW q \in Runner, pc'[q] # "idle"
               PROVE  \E p \in Plans[q] : Sources(plan'[q]) \subseteq Sources(p)
  BY DEF PlannedInv, Sources
<1>2. ASSUME pc[q] # "idle", plan'[q] = plan[q] \/ plan'[q] = Tail(plan[q])
      PROVE  \E p \in Plans[q] : Sources(plan'[q]) \subseteq Sources(p)
  <2>1. plan[q] \in Seq(Source) /\ plan[q] # << >>
    BY <1>2, CurrentType DEF TypeOK
  <2>2. Sources(Tail(plan[q])) \subseteq Sources(plan[q])
    BY <2>1 DEF Sources
  <2> QED
    BY <1>2, <2>2 DEF PlannedInv
<1>3. ASSUME NEW r \in Runner, Step(r) \/ Cancel(r)
      PROVE  \E p \in Plans[q] : Sources(plan'[q]) \subseteq Sources(p)
  <2>1. CASE q = r
    BY <1>1, <1>2, <1>3, <2>1, PlanSteps
  <2>2. CASE q # r
    BY <1>1, <1>2, <1>3, <2>2, StepAlone DEF Alone
  <2> QED
    BY <2>1, <2>2
<1>4. CASE \/ \E i \in Instance : Launch(i) \/ Shutdown(i) \/ Stop(i)
           \/ \E r \in Runner : \E p \in Plans[r] : Start(r, p)
           \/ \E s \in Source : Reclaim(s)
           \/ Rest
           \/ UNCHANGED vars
  BY <1>1, <1>2, <1>4, ProcessesKeep
<1> QED
  BY <1>3, <1>4 DEF Next

\* What a step of a task leaves of the other sources, and of the other tasks.
LEMMA StepElsewhere ==
    ASSUME TypeOK, NEW r \in Runner, Step(r) \/ Cancel(r)
    PROVE  /\ \A s \in Source \ {Current(r)} :
                 jobs'[s] = jobs[s] /\ opRuns'[s] = opRuns[s] /\ opState'[s] = opState[s]
           /\ \A q \in Runner \ {r} : raised'[q] = raised[q]
<1>1. \A s \in Source \ {Current(r)} : jobs'[s] = jobs[s]
  BY HistorySteps
<1>2. \A s \in Source \ {Current(r)} : opRuns'[s] = opRuns[s] /\ opState'[s] = opState[s]
  <2>1. CASE Begin(r) \/ FinalCommit(r)
    BY <2>1 DEF Begin, FinalCommit, TypeOK, DatabaseOK
  <2>2. CASE UNCHANGED <<opRuns, opState>>
    BY <2>2
  <2> QED
    BY <2>1, <2>2 DEF Step, Cancel, TryLock, InsertJob, OpenClient, WorkerSucceeds, WorkerEnds,
       Close, Unlock, FinalRead, Return, CancelWork, CancelElsewhere, CancelInstrument, database
<1>3. \A q \in Runner \ {r} : raised'[q] = raised[q]
  <2>1. CASE UNCHANGED raised
    BY <2>1
  <2>2. CASE \E e : raised' = [raised EXCEPT ![r] = e]
    BY <2>2 DEF TypeOK, TaskOK
  <2> QED
    BY <2>1, <2>2 DEF Step, Cancel, Begin, TryLock, InsertJob, OpenClient, WorkerSucceeds,
       WorkerEnds, Close, Unlock, FinalRead, FinalCommit, Return, CancelWork, CancelElsewhere,
       CancelInstrument, Advance, Escape, Prepare
<1> QED
  BY <1>1, <1>2, <1>3
\* A run that begins answers nothing.
LEMMA CountBegun ==
    ASSUME NEW q \in Seq(OpRun), NEW e \in OpRun, e.status = "running"
    PROVE  Unanswered(Append(q, e)) = Unanswered(q)
<1> DEFINE p == Append(q, e)
<1>1. /\ Len(q) \in Nat /\ Len(p) = Len(q) + 1
      /\ DOMAIN q = 1 .. Len(q) /\ DOMAIN p = 1 .. Len(q) + 1
      /\ \A k \in 1 .. Len(q) : p[k] = q[k]
      /\ p[Len(q) + 1] = e
  OBVIOUS
<1>2. "running" \notin Failing
  BY DEF Failing
<1> HIDE DEF p
<1>3. ASSUME NEW k \in Unanswered(p) PROVE k \in Unanswered(q)
  <2>1. k \in 1 .. Len(q)
    BY <1>1, <1>2, <1>3 DEF Unanswered
  <2>2. \A m \in k .. Len(q) : m \in k .. Len(p) /\ p[m] = q[m]
    BY <1>1, <2>1
  <2> QED
    BY <1>1, <1>3, <2>1, <2>2 DEF Unanswered
<1>4. ASSUME NEW k \in Unanswered(q) PROVE k \in Unanswered(p)
  <2>1. k \in 1 .. Len(q)
    BY <1>1, <1>4 DEF Unanswered
  <2>2. ASSUME NEW m \in k .. Len(p) PROVE p[m].status # "success"
    BY <1>1, <1>4, <2>1, <2>2 DEF Unanswered
  <2> QED
    BY <1>1, <1>4, <2>1, <2>2 DEF Unanswered
<1> QED
  BY <1>3, <1>4 DEF p

\* A run that ends answers all, counts as one more, or as none.
LEMMA CountEnded ==
    ASSUME NEW q \in Seq(OpRun), NEW p \in Seq(OpRun), NEW n \in Nat \ {0},
           Len(q) = n, Len(p) = n, q[n].status = "running",
           \A k \in 1 .. n : k # n => p[k] = q[k]
    PROVE  /\ p[n].status = "success" => Unanswered(p) = {}
           /\ p[n].status \notin Failing \cup {"success"} => Unanswered(p) = Unanswered(q)
           /\ p[n].status \in Failing =>
                 Unanswered(p) = Unanswered(q) \cup {n} /\ n \notin Unanswered(q)
<1>1. DOMAIN q = 1 .. n /\ DOMAIN p = 1 .. n
  OBVIOUS
<1>2. /\ \A k : k \in Unanswered(p) <=>
             /\ k \in 1 .. n /\ p[k].status \in Failing
             /\ \A m \in k .. n : p[m].status # "success"
      /\ \A k : k \in Unanswered(q) <=>
             /\ k \in 1 .. n /\ q[k].status \in Failing
             /\ \A m \in k .. n : q[m].status # "success"
  BY <1>1 DEF Unanswered
<1>3. "running" \notin Failing /\ "success" \notin Failing
  BY DEF Failing
<1>4. CASE p[n].status = "success"
  <2>1. \A k \in 1 .. n : n \in k .. n
    OBVIOUS
  <2> QED
    BY <1>2, <1>3, <1>4, <2>1
<1>5. CASE p[n].status # "success"
  <2>1. ASSUME NEW k \in 1 .. n, k # n
        PROVE  k \in Unanswered(p) <=> k \in Unanswered(q)
    <3>1. ASSUME NEW m \in k .. n
          PROVE  p[m].status = "success" <=> q[m].status = "success"
      <4>1. m \in 1 .. n
        OBVIOUS
      <4>2. CASE m = n
        BY <1>5, <4>2
      <4>3. CASE m # n
        BY <4>1, <4>3
      <4> QED
        BY <4>2, <4>3
    <3> QED
      BY <1>2, <2>1, <3>1
  <2>2. n \in Unanswered(p) <=> p[n].status \in Failing
    <3>1. \A m \in n .. n : m = n
      OBVIOUS
    <3>2. n \in 1 .. n
      OBVIOUS
    <3> QED
      BY <1>2, <1>5, <3>1, <3>2
  <2>3. n \notin Unanswered(q)
    BY <1>2, <1>3
  <2>4. Unanswered(p) \subseteq 1 .. n /\ Unanswered(q) \subseteq 1 .. n
    BY <1>2
  <2>5. \A k : k # n => (k \in Unanswered(p) <=> k \in Unanswered(q))
    BY <2>1, <2>4
  <2>6. CASE p[n].status \in Failing
    <3>1. Unanswered(p) = Unanswered(q) \cup {n}
      BY <2>2, <2>5, <2>6
    <3> QED
      BY <1>3, <2>3, <2>6, <3>1
  <2>7. CASE p[n].status \notin Failing
    <3>1. Unanswered(p) = Unanswered(q)
      <4>1. n \notin Unanswered(p) /\ n \notin Unanswered(q)
        BY <2>2, <2>3, <2>7
      <4>2. \A k : k \in Unanswered(p) <=> k \in Unanswered(q)
        BY <2>5, <4>1
      <4> QED
        BY <4>2
    <3> QED
      BY <1>5, <2>7, <3>1
  <2> QED
    BY <2>6, <2>7
<1> QED
  BY <1>4, <1>5

\* The unanswered runs are finitely many.
LEMMA UnansweredFinite ==
    ASSUME NEW q \in Seq(OpRun)
    PROVE  IsFiniteSet(Unanswered(q)) /\ Cardinality(Unanswered(q)) \in Nat
<1>1. Len(q) \in Nat /\ Unanswered(q) \subseteq 1 .. Len(q)
  BY DEF Unanswered
<1>2. IsFiniteSet(1 .. Len(q))
  BY <1>1, FS_Interval
<1> QED
  BY <1>1, <1>2, FS_Subset, FS_CardinalityType

\* A job that is the work of a run stays so.
LEMMA WorkStays ==
    ASSUME IInv, [Next]_vars, NEW s \in Source, NEW j, NEW k, WorkOf(s, j, k)
    PROVE  WorkOf(s, j, k)'
<1>1. HistoryIsKept
  BY KeepsHistory
<1>2. j \in DOMAIN jobs[s]
  BY Rows DEF IInv, WorkOf
<1>3. j \in DOMAIN jobs'[s] /\ jobs'[s][j] = jobs[s][j]
  BY <1>1, <1>2 DEF HistoryIsKept, WorkOf
<1>4. j \in 1 .. Len(jobs'[s])
  BY <1>3, RowsPrimed DEF IInv
<1> QED
  BY <1>3, <1>4 DEF WorkOf, Latest

\* Where no run begins or ends, the records stay true.
LEMMA RecordsStay ==
    ASSUME IInv, [Next]_vars, NEW s \in Source, OwnRecords(s),
           opRuns'[s] = opRuns[s],
           opState'[s].consecutive_failures = opState[s].consecutive_failures
    PROVE  OwnRecords(s)'
BY WorkStays DEF OwnRecords

\* A run begins.
LEMMA RecordsBegin ==
    ASSUME IInv, NEW r \in Runner, Begin(r), NEW s \in Source, s = Current(r), OwnRecords(s)
    PROVE  OwnRecords(s)'
<1> DEFINE new == [status |-> "running", job |-> 0]
<1>1. /\ opRuns'[s] = Append(opRuns[s], new)
      /\ opState'[s].consecutive_failures = opState[s].consecutive_failures
      /\ jobs' = jobs
  BY DEF Begin, IInv, TypeOK, DatabaseOK, OpState
<1>2. new \in OpRun /\ new.status = "running"
  BY DEF OpRun, RunStatus, JobStatus
<1>3. opRuns[s] \in Seq(OpRun)
  BY Rows DEF IInv
<1>4. opState'[s].consecutive_failures = Cardinality(Unanswered(opRuns'[s]))
  BY <1>1, <1>2, <1>3, CountBegun DEF OwnRecords
<1> HIDE DEF new
<1>5. ASSUME NEW k \in DOMAIN opRuns'[s], opRuns'[s][k].status = "success"
      PROVE  WorkOf(s, opRuns[s][k].job, k)'
  <2>1. k \in DOMAIN opRuns[s] /\ opRuns'[s][k] = opRuns[s][k]
    BY <1>1, <1>2, <1>3, <1>5
  <2>2. WorkOf(s, opRuns[s][k].job, k)
    BY <1>5, <2>1 DEF OwnRecords
  <2> QED
    BY <1>1, <2>1, <2>2 DEF WorkOf, Latest
<1> QED
  BY <1>4, <1>5 DEF OwnRecords
\* A run ends with what it has read: its verdict is still true, and its run is
\* the newest one of the source.
LEMMA RecordsEnd ==
    ASSUME IInv, RunInv, NEW r \in Runner, FinalCommit(r), NEW s \in Source, s = Current(r),
           OwnRecords(s), NewestRun(r), VerdictIsTrue(r)
    PROVE  OwnRecords(s)'
<1> DEFINE q == opRuns[s]
           p == opRuns'[s]
           n == run[r]
           ended == [status |-> verdict[r].status, job |-> verdict[r].job]
<1>1. pc[r] = "final" /\ r \in Instrumented /\ jobs' = jobs /\ Step(r) /\ TypeOK
  BY DEF FinalCommit, RunInv, Step, IInv
<1>2. n \in 1 .. Len(q) /\ q[n].status = "running" /\ n = Len(q)
  BY <1>1 DEF RunInv, Owns, OwnRun, NewestRun
<1>3. p = [q EXCEPT ![n] = ended]
  BY <1>1 DEF FinalCommit, TypeOK, DatabaseOK
<1>4. q \in Seq(OpRun) /\ p \in Seq(OpRun) /\ Len(q) \in Nat
  BY <1>1, Rows, RowsPrimed DEF Next
<1>5. ended.status = verdict[r].status /\ ended.job = verdict[r].job
  OBVIOUS
<1>6. opState'[s].consecutive_failures =
         CASE verdict[r].status = "success" -> 0
           [] verdict[r].status \in {"lock_skipped", "skipped"} -> opState[s].consecutive_failures
           [] OTHER -> verdict[r].failures + 1
  BY <1>1 DEF FinalCommit, TypeOK, DatabaseOK
<1> HIDE DEF q, p, n, ended
<1>7. /\ Len(p) = n /\ p[n] = ended
      /\ \A k \in 1 .. n : k # n => p[k] = q[k]
  <2>1. DOMAIN p = DOMAIN q
    BY <1>3, <1>4
  <2> QED
    BY <1>2, <1>3, <1>4, <2>1, LenProperties
<1>8. /\ p[n].status = "success" => Unanswered(p) = {}
      /\ p[n].status \notin Failing \cup {"success"} => Unanswered(p) = Unanswered(q)
      /\ p[n].status \in Failing =>
            Unanswered(p) = Unanswered(q) \cup {n} /\ n \notin Unanswered(q)
  BY <1>2, <1>4, <1>7, CountEnded
<1>9. /\ verdict[r].failures = Cardinality(Unanswered(q))
      /\ opState[s].consecutive_failures = Cardinality(Unanswered(q))
      /\ verdict[r].status \in {"success", "partial_success", "failed", "skipped", "cancelled",
                                "lock_skipped"}
  BY DEF VerdictIsTrue, OwnRecords, Reported, q
<1>10. opState'[s].consecutive_failures = Cardinality(Unanswered(p))
  <2>1. CASE verdict[r].status = "success"
    BY <1>5, <1>6, <1>7, <1>8, <2>1, FS_EmptySet
  <2>2. CASE verdict[r].status \in {"lock_skipped", "skipped"}
    BY <1>5, <1>6, <1>7, <1>8, <1>9, <2>2 DEF Failing
  <2>3. CASE verdict[r].status \in Failing
    <3>1. Unanswered(p) = Unanswered(q) \cup {n} /\ n \notin Unanswered(q)
      BY <1>5, <1>7, <1>8, <2>3
    <3>2. Cardinality(Unanswered(p)) = Cardinality(Unanswered(q)) + 1
      BY <1>4, <3>1, UnansweredFinite, FS_AddElement
    <3>3. opState'[s].consecutive_failures = verdict[r].failures + 1
      BY <1>6, <2>3 DEF Failing
    <3> QED
      BY <1>9, <3>2, <3>3
  <2> QED
    BY <1>9, <2>1, <2>2, <2>3 DEF Failing
<1>11. ASSUME NEW k \in DOMAIN p, p[k].status = "success"
       PROVE  WorkOf(s, p[k].job, k)
  <2>1. k \in 1 .. n
    BY <1>4, <1>7, <1>11
  <2>2. CASE k = n
    BY <1>5, <1>7, <1>11, <2>2 DEF VerdictIsTrue, n
  <2>3. CASE k # n
    <3>1. p[k] = q[k] /\ k \in DOMAIN q
      BY <1>2, <1>4, <1>7, <2>1, <2>3
    <3> QED
      BY <1>11, <3>1 DEF OwnRecords, q
  <2> QED
    BY <2>2, <2>3
<1>12. \A j, k : WorkOf(s, j, k)' <=> WorkOf(s, j, k)
  BY <1>1 DEF WorkOf, Latest
<1> QED
  BY <1>10, <1>11, <1>12 DEF OwnRecords, p

\* What is recorded of a source stays true in every step of a task.
LEMMA RecordsOfTask ==
    ASSUME IInv, RunInv, OwnInv, NEW r \in Runner, Step(r) \/ Cancel(r), NEW s \in Source
    PROVE  OwnRecords(s)'
<1>1. OwnRecords(s) /\ [Next]_vars /\ TypeOK
  BY DEF OwnInv, Next, IInv
<1>2. CASE s # Current(r)
  BY <1>1, <1>2, StepElsewhere, RecordsStay
<1>3. CASE Begin(r) /\ s = Current(r)
  BY <1>1, <1>3, RecordsBegin
<1>4. CASE FinalCommit(r) /\ s = Current(r)
  <2>1. Owns(r) /\ pc[r] = "final"
    BY <1>4 DEF FinalCommit, RunInv, Owns
  <2> QED
    BY <1>1, <1>4, <2>1, RecordsEnd DEF OwnInv
<1>5. CASE ~Begin(r) /\ ~FinalCommit(r)
  <2>1. UNCHANGED <<opRuns, opState>>
    BY <1>5 DEF Step, Cancel, TryLock, InsertJob, OpenClient, WorkerSucceeds, WorkerEnds,
       Close, Unlock, FinalRead, Return, CancelWork, CancelElsewhere, CancelInstrument, database
  <2> QED
    BY <1>1, <2>1, RecordsStay
<1> QED
  BY <1>2, <1>3, <1>4, <1>5
\* What a step that begins no run and inserts no job leaves of the run of a task.
LEMMA SameRows ==
    ASSUME IInv, NEW r \in Runner, Step(r) \/ Cancel(r), ~InsertJob(r), NEW s \in Source
    PROVE  /\ Len(jobs'[s]) = Latest(s)
           /\ \A j \in 1 .. Latest(s) : jobs'[s][j].run = jobs[s][j].run
<1>1. CASE UNCHANGED jobs
  BY <1>1 DEF Latest
<1>2. CASE s # Current(r)
  BY <1>2, HistorySteps DEF IInv, Latest
<1>3. CASE s = Current(r) /\ ~UNCHANGED jobs
  <2>1. WorkerSucceeds(r) \/ Close(r)
    BY <1>3, HistorySteps DEF IInv
  <2> QED
    BY <1>3, <2>1, ResultRows, RunsOfRows, Rows DEF IInv
<1> QED
  BY <1>1, <1>2, <1>3

\* The newest job keeps its place and its run.
LEMMA SameNewest ==
    ASSUME IInv, NEW r \in Runner, Step(r) \/ Cancel(r), ~InsertJob(r), Current(r) \in Source,
           plan'[r] = plan[r], run'[r] = run[r], previous'[r] = previous[r]
    PROVE  /\ NewestIsOwn(r)' <=> NewestIsOwn(r)
           /\ Latest(Current(r))' = Latest(Current(r)) /\ Current(r)' = Current(r)
<1>1. Current(r)' = Current(r)
  BY DEF Current
<1>2. Latest(Current(r))' = Latest(Current(r)) /\ Latest(Current(r)) \in Nat
  BY <1>1, SameRows, Rows DEF Latest, IInv
<1>3. CASE Latest(Current(r)) # previous[r] + 1
  BY <1>1, <1>2, <1>3 DEF NewestIsOwn
<1>4. CASE Latest(Current(r)) = previous[r] + 1
  <2>1. previous[r] \in Nat
    BY DEF IInv, TypeOK, TaskOK
  <2>2. Latest(Current(r)) \in 1 .. Latest(Current(r))
    BY <1>2, <1>4, <2>1
  <2> QED
    BY <1>1, <1>2, <2>2, SameRows DEF NewestIsOwn
<1> QED
  BY <1>3, <1>4

\* Most steps: the task goes on, and where it comes to its unlock or its return
\* with a result of its own, either nothing changes or something was raised.
LEMMA GoesOn ==
    ASSUME IInv, NEW r \in Runner, Step(r) \/ Cancel(r), ~InsertJob(r), Current(r) \in Source,
           plan'[r] = plan[r], run'[r] = run[r], previous'[r] = previous[r],
           UNCHANGED opRuns, NewestRun(r),
           \/ pc[r] = "lock" /\ pc'[r] \in {"insert", "return"}
           \/ pc[r] = "insert" /\ pc'[r] = "return"
           \/ pc[r] \in Working \cup {"unlock"} /\ pc'[r] \in Working \cup {"unlock", "return"}
           \/ pc[r] = "return" /\ pc'[r] = "final",
           \/ pc[r] = "lock"
           \/ pc'[r] \in Working \cup {"final"}
           \/ raised'[r] # "none"
           \/ pc[r] = "unlock" /\ UNCHANGED <<jobs, raised>>
           \/ /\ jobs'[Current(r)][Latest(Current(r))].finished
              /\ jobs'[Current(r)][Latest(Current(r))].status \in Reported
    PROVE  NewestRun(r)'
<1>1. /\ NewestIsOwn(r)' <=> NewestIsOwn(r)
      /\ Latest(Current(r))' = Latest(Current(r)) /\ Current(r)' = Current(r)
  BY SameNewest
<1>2. /\ run'[r] = Len(opRuns'[Current(r)'])
      /\ previous[r] \in Nat
  BY <1>1 DEF NewestRun, IInv, TypeOK, TaskOK
<1>3. Latest(Current(r)) = previous[r] => ~NewestIsOwn(r)
  BY <1>2 DEF NewestIsOwn
<1>4. /\ pc'[r] \in {"lock", "insert"} => Latest(Current(r)) = previous[r]
      /\ pc'[r] \in Working \cup {"unlock"} => NewestIsOwn(r)
      /\ pc'[r] \in {"return", "final"} => Latest(Current(r)) = previous[r] \/ NewestIsOwn(r)
  BY DEF NewestRun, Working
<1>5. ASSUME pc'[r] \in {"unlock", "return"}, NewestIsOwn(r), raised'[r] = "none"
      PROVE  /\ jobs'[Current(r)][Latest(Current(r))].finished
             /\ jobs'[Current(r)][Latest(Current(r))].status \in Reported
  <2>1. pc[r] # "lock"
    BY <1>3, <1>5 DEF NewestRun
  <2>2. pc'[r] \notin Working \cup {"final"}
    BY <1>5 DEF Working
  <2> QED
    BY <1>5, <2>1, <2>2 DEF NewestRun
<1>6. /\ jobs'[Current(r)'][Latest(Current(r))'] = jobs'[Current(r)][Latest(Current(r))]
  BY <1>1
<1> QED
  BY <1>1, <1>2, <1>4, <1>5, <1>6 DEF NewestRun
\* A run begins: it is the newest one, and the source has no newer job.
LEMMA BeginsNewest ==
    ASSUME IInv, NEW r \in Runner, Begin(r), Current(r) \in Source
    PROVE  NewestRun(r)'
<1>1. /\ pc'[r] = "lock" /\ plan' = plan /\ jobs' = jobs
      /\ previous'[r] = Latest(Current(r)) /\ run'[r] = Len(opRuns[Current(r)]) + 1
  BY DEF Begin, IInv, TypeOK, TaskOK
<1>2. opRuns'[Current(r)] = Append(opRuns[Current(r)], [status |-> "running", job |-> 0])
  BY DEF Begin, IInv, TypeOK, DatabaseOK
<1>3. Len(opRuns'[Current(r)]) = Len(opRuns[Current(r)]) + 1
  BY <1>2, Rows DEF IInv
<1>4. Current(r)' = Current(r)
  BY <1>1 DEF Current
<1> QED
  BY <1>1, <1>3, <1>4 DEF NewestRun, Working, Latest

\* A job is inserted: it is the first one after those that the run saw.
LEMMA InsertsNewest ==
    ASSUME IInv, NEW r \in Runner, InsertJob(r), Current(r) \in Source, r \in Instrumented,
           NewestRun(r)
    PROVE  NewestRun(r)'
<1>1. /\ pc[r] = "insert" /\ pc'[r] = "client" /\ plan' = plan /\ opRuns' = opRuns
      /\ previous' = previous /\ run' = run
  BY DEF InsertJob, IInv, TypeOK, TaskOK
<1>2. Current(r)' = Current(r)
  BY <1>1 DEF Current
<1>3. Latest(Current(r)) = previous[r] /\ run[r] = Len(opRuns[Current(r)])
  BY <1>1 DEF NewestRun
<1>4. /\ Len(jobs'[Current(r)]) = Latest(Current(r)) + 1
      /\ jobs'[Current(r)][Latest(Current(r)) + 1].run = run[r]
  <2>1. jobs'[Current(r)][Latest(Current(r)) + 1]
           = [status |-> "running", finished |-> FALSE, run |-> run[r]]
    BY InsertedRow DEF IInv
  <2> QED
    BY <2>1, InsertRows DEF IInv
<1>5. NewestIsOwn(r)'
  BY <1>1, <1>2, <1>3, <1>4 DEF NewestIsOwn, Latest
<1> QED
  BY <1>1, <1>2, <1>3, <1>5 DEF NewestRun, Working

\* The finally block: the job it finishes has a result, unless it raises.
LEMMA ClosesNewest ==
    ASSUME IInv, RunInv, ResultInv, NEW r \in Runner, Close(r), Current(r) \in Source,
           NewestRun(r)
    PROVE  NewestRun(r)'
<1> DEFINE s == Current(r)
           k == Latest(s)
<1>1. /\ pc[r] = "close" /\ pc'[r] = "unlock" /\ raised'[r] = pending[r].raises
      /\ plan' = plan /\ run' = run /\ previous' = previous /\ opRuns' = opRuns
  BY DEF Close, IInv, TypeOK, TaskOK
<1>2. job[r] = k /\ k \in 1 .. Len(jobs[s]) /\ jobs[s] \in Seq(Job)
  BY <1>1, Rows DEF IInv, OpenJobIsNewest, Working, Latest
<1>3. jobs'[s][k] = [jobs[s][k] EXCEPT !.status = pending[r].status, !.finished = TRUE]
  <2>1. job[r] \in DOMAIN jobs[s]
    BY <1>2
  <2>2. jobs'[s][job[r]]
           = [jobs[s][job[r]] EXCEPT !.status = pending[r].status, !.finished = TRUE]
    BY <2>1 DEF Close, IInv, TypeOK, DatabaseOK
  <2> QED
    BY <1>2, <2>2
<1>4. jobs[s][k] \in Job
  BY <1>2, ElementOfSeq
<1>5. jobs'[s][k].finished /\ jobs'[s][k].status = pending[r].status
  BY <1>3, <1>4 DEF Job
<1>6. OwnResult(r)
  BY <1>1 DEF ResultInv, Working
<1>7. pending[r].raises = "none" => pending[r].status \in Reported
  <2>1. CASE pending[r] \in Endings(s)
    BY <2>1, SettleLiterals DEF Endings, Outcomes, RunSourceFailures, PolicyOutcomes, LogOutcomes,
       Settle, Generic, Policy, Logs, Reported
  <2>2. CASE \E status \in Good : pending[r] = Settle(status, "keep", FALSE, "none")
    BY <2>2 DEF Settle, Good, Reported
  <2> QED
    BY <1>1, <1>6, <2>1, <2>2 DEF OwnResult
<1>8. \/ raised'[r] # "none"
      \/ /\ jobs'[Current(r)][Latest(Current(r))].finished
         /\ jobs'[Current(r)][Latest(Current(r))].status \in Reported
  BY <1>1, <1>5, <1>7
<1>9. ~InsertJob(r) /\ Step(r) /\ pc[r] \in Working
  BY <1>1 DEF InsertJob, Step, Working
<1> HIDE DEF s, k
<1> QED
  BY <1>1, <1>8, <1>9, GoesOn

\* An instrumented task stays the newest run of its source.
LEMMA StaysNewest ==
    ASSUME IInv, RunInv, ResultInv, NEW r \in Runner, Step(r) \/ Cancel(r), Owns(r)',
           Owns(r) => NewestRun(r)
    PROVE  NewestRun(r)'
<1>1. /\ r \in Instrumented /\ pc'[r] \notin {"idle", "begin"} /\ TypeOK
      /\ pc \in [Runner -> PC]
  BY DEF Owns, IInv, TypeOK, TaskOK
<1>2. Current(r) \in Source
  BY <1>1, PlanSteps, CurrentType DEF TypeOK
<1>3. CASE Begin(r)
  BY <1>2, <1>3, BeginsNewest
<1>4. CASE InsertJob(r)
  <2>1. NewestRun(r)
    BY <1>1, <1>4 DEF InsertJob, Owns
  <2> QED
    BY <1>1, <1>2, <1>4, <2>1, InsertsNewest
<1>5. CASE Close(r)
  <2>1. NewestRun(r)
    BY <1>1, <1>5 DEF Close, Owns
  <2> QED
    BY <1>2, <1>5, <2>1, ClosesNewest
<1>6. CASE FinalCommit(r) \/ Return(r) \/ CancelInstrument(r)
  BY <1>1, <1>6 DEF FinalCommit, Return, CancelInstrument, Advance
<1>7. CASE TryLock(r)
  <2>1. /\ pc[r] = "lock" /\ pc'[r] \in {"insert", "return"} /\ ~InsertJob(r)
        /\ plan' = plan /\ run' = run /\ previous' = previous /\ opRuns' = opRuns
    BY <1>1, <1>7 DEF TryLock, InsertJob
  <2>2. NewestRun(r)
    BY <1>1, <2>1 DEF Owns
  <2> QED
    BY <1>2, <2>1, <2>2, GoesOn
<1>8. CASE OpenClient(r)
  <2>1. /\ pc[r] = "client" /\ ~InsertJob(r)
        /\ plan' = plan /\ run' = run /\ previous' = previous /\ opRuns' = opRuns
        /\ pc'[r] \in {"work", "close"} \/ (pc'[r] = "return" /\ raised'[r] = "error")
    BY <1>1, <1>8 DEF OpenClient, Prepare, Escape, InsertJob, database, TypeOK, TaskOK
  <2>2. NewestRun(r)
    BY <1>1, <2>1 DEF Owns
  <2> QED
    BY <1>2, <2>1, <2>2, GoesOn DEF Working
<1>9. CASE WorkerSucceeds(r) \/ WorkerEnds(r)
  <2>1. /\ pc[r] = "work" /\ pc'[r] = "close" /\ ~InsertJob(r)
        /\ plan' = plan /\ run' = run /\ previous' = previous /\ opRuns' = opRuns
    BY <1>1, <1>9 DEF WorkerSucceeds, WorkerEnds, Prepare, InsertJob, database
  <2>2. NewestRun(r)
    BY <1>1, <2>1 DEF Owns
  <2> QED
    BY <1>2, <2>1, <2>2, GoesOn DEF Working
<1>10. CASE Unlock(r)
  <2>1. /\ pc[r] = "unlock" /\ pc'[r] = "return" /\ ~InsertJob(r)
        /\ plan' = plan /\ run' = run /\ previous' = previous /\ opRuns' = opRuns
        /\ UNCHANGED <<jobs, raised>>
    BY <1>1, <1>10 DEF Unlock, InsertJob
  <2>2. NewestRun(r)
    BY <1>1, <2>1 DEF Owns
  <2> QED
    BY <1>2, <2>1, <2>2, GoesOn
<1>11. CASE FinalRead(r)
  <2>1. /\ pc[r] = "return" /\ pc'[r] = "final" /\ ~InsertJob(r)
        /\ plan' = plan /\ run' = run /\ previous' = previous /\ opRuns' = opRuns
    BY <1>1, <1>11 DEF FinalRead, InsertJob, database
  <2>2. NewestRun(r)
    BY <1>1, <2>1 DEF Owns
  <2> QED
    BY <1>2, <2>1, <2>2, GoesOn
<1>12. CASE CancelWork(r)
  <2>1. /\ pc[r] \in {"client", "work"} /\ ~InsertJob(r)
        /\ plan' = plan /\ run' = run /\ previous' = previous /\ opRuns' = opRuns
        /\ pc'[r] = "close" \/ (pc'[r] = "return" /\ raised'[r] = "cancelled")
    BY <1>1, <1>12 DEF CancelWork, Prepare, Escape, InsertJob, database, TypeOK, TaskOK
  <2>2. NewestRun(r)
    BY <1>1, <2>1 DEF Owns
  <2> QED
    BY <1>2, <2>1, <2>2, GoesOn DEF Working
<1>13. CASE CancelElsewhere(r)
  <2>1. /\ pc[r] \in {"lock", "insert", "close", "unlock"} /\ ~InsertJob(r)
        /\ plan' = plan /\ run' = run /\ previous' = previous /\ opRuns' = opRuns
        /\ pc'[r] = "return" /\ raised'[r] = "cancelled"
    BY <1>1, <1>13 DEF CancelElsewhere, Escape, InsertJob, database, TypeOK, TaskOK
  <2>2. NewestRun(r)
    BY <1>1, <2>1 DEF Owns
  <2> QED
    BY <1>2, <2>1, <2>2, GoesOn DEF Working
<1> QED
  BY <1>3, <1>4, <1>5, <1>6, <1>7, <1>8, <1>9, <1>10, <1>11, <1>12, <1>13 DEF Step, Cancel
\* What the finally block reads is true: a success is that of its own job.
LEMMA ReadsTruth ==
    ASSUME IInv, NEW r \in Runner, FinalRead(r), Current(r) \in Source, NewestRun(r)
    PROVE  VerdictIsTrue(r)'
<1> DEFINE s == Current(r)
           k == Latest(s)
           seen == jobs[s][k].status
<1>1. /\ pc[r] = "return" /\ jobs' = jobs /\ opState' = opState /\ plan' = plan /\ run' = run
      /\ verdict' = [verdict EXCEPT ![r] =
                       [status |-> Judge(r, s).status, job |-> Judge(r, s).job,
                        failures |-> opState[s].consecutive_failures]]
  BY DEF FinalRead, database
<1>2. /\ verdict'[r].status = Judge(r, s).status /\ verdict'[r].job = Judge(r, s).job
      /\ verdict'[r].failures = opState[s].consecutive_failures
  BY <1>1 DEF IInv, TypeOK, TaskOK
<1>3. s' = s /\ k \in Nat /\ previous[r] \in Nat /\ raised[r] \in Exception
  BY <1>1, Rows DEF Current, IInv, TypeOK, TaskOK
<1>4. k = previous[r] \/ NewestIsOwn(r)
  BY <1>1 DEF NewestRun
<1>5. CASE k = 0 \/ k = previous[r]
  <2>1. Judge(r, s) = [status |-> "lock_skipped", job |-> 0]
    BY <1>5 DEF Judge
  <2>2. Judge(r, s).status = "lock_skipped"
    BY <2>1
  <2> QED
    BY <1>1, <1>2, <1>3, <2>2 DEF VerdictIsTrue
<1>6. CASE k # 0 /\ k # previous[r]
  <2>1. NewestIsOwn(r)
    BY <1>4, <1>6
  <2>2. Judge(r, s).job = k
    BY <1>6 DEF Judge
  <2>3. Judge(r, s).status
           = IF seen \in {"failed", "partial_success", "skipped"} THEN seen
             ELSE CASE raised[r] = "none" -> "success"
                    [] raised[r] = "error" -> "failed"
                    [] raised[r] = "cancelled" -> "cancelled"
    BY <1>6 DEF Judge
  <2> HIDE DEF seen, k, s
  <2>4. Judge(r, s).status \in Reported \cup {"cancelled", "lock_skipped"}
    BY <1>3, <2>3 DEF Exception, Reported
  <2>5. ASSUME Judge(r, s).status = "success" PROVE WorkOf(s, k, run[r])
    <3>1. seen \notin {"failed", "partial_success", "skipped"} /\ raised[r] = "none"
      BY <1>3, <2>3, <2>5 DEF Exception
    <3>2. jobs[s][k].finished /\ seen \in Reported
      BY <1>1, <2>1, <3>1 DEF NewestRun, seen, k, s
    <3>3. seen = "success"
      BY <3>1, <3>2 DEF Reported
    <3>4. k \in 1 .. k
      BY <1>3, <1>6
    <3> QED
      BY <2>1, <3>2, <3>3, <3>4 DEF WorkOf, NewestIsOwn, seen, k, s
  <2>6. \A j : WorkOf(s, j, run[r])' <=> WorkOf(s, j, run[r])
    BY <1>1, <1>3 DEF WorkOf, Latest, s
  <2> QED
    BY <1>1, <1>2, <1>3, <2>2, <2>4, <2>5, <2>6 DEF VerdictIsTrue, s
<1> QED
  BY <1>5, <1>6

\* A task whose source the step does not touch.
LEMMA Untouched ==
    ASSUME NEW q \in Runner,
           pc'[q] = pc[q], plan'[q] = plan[q], previous'[q] = previous[q], run'[q] = run[q],
           raised'[q] = raised[q], verdict'[q] = verdict[q],
           jobs'[Current(q)] = jobs[Current(q)], opRuns'[Current(q)] = opRuns[Current(q)],
           opState'[Current(q)] = opState[Current(q)]
    PROVE  /\ NewestRun(q) => NewestRun(q)'
           /\ VerdictIsTrue(q) => VerdictIsTrue(q)'
<1>1. Current(q)' = Current(q) /\ Latest(Current(q))' = Latest(Current(q))
  BY DEF Current, Latest
<1>2. NewestIsOwn(q)' <=> NewestIsOwn(q)
  BY <1>1 DEF NewestIsOwn
<1>3. NewestRun(q) => NewestRun(q)'
  BY <1>1, <1>2 DEF NewestRun
<1>4. \A j, k : WorkOf(Current(q), j, k)' <=> WorkOf(Current(q), j, k)
  BY <1>1 DEF WorkOf, Latest
<1>5. VerdictIsTrue(q) => VerdictIsTrue(q)'
  BY <1>1, <1>4 DEF VerdictIsTrue
<1> QED
  BY <1>3, <1>5

\* Every step keeps what the runs of a single backend say of its jobs.
LEMMA OwnNext ==
    ASSUME OneTaskOfASource, IInv, RunInv, ResultInv, OwnInv, [Next]_vars
    PROVE  OwnInv'
<1>1. TypeOK /\ PlannedInv
  BY DEF IInv, OwnInv
<1>2. PlannedInv'
  BY <1>1, PlannedNext
<1>3. ASSUME NEW r \in Runner, Step(r) \/ Cancel(r), NEW q \in Runner, Owns(q)'
      PROVE  NewestRun(q)' /\ (pc'[q] = "final" => VerdictIsTrue(q)')
  <2>1. CASE q = r
    <3>1. Owns(r) => NewestRun(r)
      BY DEF OwnInv
    <3>2. NewestRun(r)'
      BY <1>3, <2>1, <3>1, StaysNewest
    <3>3. ASSUME pc'[r] = "final" PROVE VerdictIsTrue(r)'
      <4>1. r \in Instrumented
        BY <1>3, <2>1 DEF Owns
      <4>2. FinalRead(r)
        BY <1>1, <1>3, <3>3, <4>1, OwnSteps
      <4>3. Owns(r) /\ Current(r) \in Source
        BY <1>1, <4>2, CurrentType DEF FinalRead, Owns, TypeOK
      <4> QED
        BY <3>1, <4>2, <4>3, ReadsTruth
    <3> QED
      BY <2>1, <3>2, <3>3
  <2>2. CASE q # r
    <3>1. /\ Owns(q) /\ plan'[q] = plan[q] /\ run'[q] = run[q] /\ pc'[q] = pc[q]
          /\ previous'[q] = previous[q] /\ verdict'[q] = verdict[q]
          /\ Current(q) \in Source
      BY <1>1, <1>3, <2>2, OtherOwners
    <3>2. pc[r] # "idle"
      BY <1>3 DEF Step, Cancel, Begin, TryLock, InsertJob, OpenClient, WorkerSucceeds,
         WorkerEnds, Close, Unlock, FinalRead, FinalCommit, Return, CancelWork, CancelElsewhere,
         CancelInstrument
    <3>3. Current(q) # Current(r)
      BY <1>1, <2>2, <3>1, <3>2, Separate DEF Owns
    <3>4. /\ jobs'[Current(q)] = jobs[Current(q)] /\ opRuns'[Current(q)] = opRuns[Current(q)]
          /\ opState'[Current(q)] = opState[Current(q)] /\ raised'[q] = raised[q]
      BY <1>1, <1>3, <2>2, <3>1, <3>3, StepElsewhere
    <3> QED
      BY <3>1, <3>4, Untouched DEF OwnInv
  <2> QED
    BY <2>1, <2>2
<1>4. ASSUME NEW r \in Runner, Step(r) \/ Cancel(r) PROVE OwnInv'
  BY <1>2, <1>3, <1>4, RecordsOfTask DEF OwnInv
<1>5. ASSUME \/ \E i \in Instance : Launch(i) \/ Shutdown(i) \/ Stop(i)
             \/ \E r \in Runner : \E p \in Plans[r] : Start(r, p)
             \/ \E s \in Source : Reclaim(s)
             \/ Rest
             \/ UNCHANGED vars
      PROVE  OwnInv'
  <2>1. ASSUME NEW q \in Runner, Owns(q)'
        PROVE  NewestRun(q)' /\ (pc'[q] = "final" => VerdictIsTrue(q)')
    <3>1. pc'[q] \notin {"idle", "begin"} /\ q \in Instrumented
      BY <2>1 DEF Owns
    <3>2. /\ UNCHANGED <<jobs, opRuns, opState>>
          /\ pc'[q] = pc[q] /\ plan'[q] = plan[q] /\ previous'[q] = previous[q]
          /\ run'[q] = run[q] /\ raised'[q] = raised[q] /\ verdict'[q] = verdict[q]
      BY <1>1, <1>5, <3>1, ProcessesKeep
    <3> QED
      BY <3>1, <3>2, Untouched DEF OwnInv, Owns
  <2>2. ASSUME NEW s \in Source PROVE OwnRecords(s)'
    <3>1. UNCHANGED <<opRuns, opState>>
      BY <1>5 DEF Launch, Shutdown, Stop, Start, Reclaim, Rest, vars, database
    <3> QED
      BY <3>1, RecordsStay DEF OwnInv
  <2> QED
    BY <1>2, <2>1, <2>2 DEF OwnInv
<1> QED
  BY <1>4, <1>5 DEF Next

\* No run and no task: the invariant holds at first.
LEMMA OwnInit == Init => OwnInv
<1> SUFFICES ASSUME Init PROVE OwnInv
  OBVIOUS
<1>1. PlannedInv /\ \A r \in Runner : ~Owns(r)
  BY DEF Init, Fresh, PlannedInv, Owns
<1>2. ASSUME NEW s \in Source PROVE OwnRecords(s)
  <2>1. opRuns[s] = << >> /\ opState[s].consecutive_failures = 0
    BY DEF Init, Fresh
  <2>2. Unanswered(opRuns[s]) = {} /\ DOMAIN opRuns[s] = {}
    BY <2>1 DEF Unanswered
  <2> QED
    BY <2>1, <2>2, FS_EmptySet DEF OwnRecords
<1> QED
  BY <1>1, <1>2 DEF OwnInv

(* Where a source has one task, as on a single backend without manual       *)
(* requests, and for any number of sources, stops and restarts: a run that  *)
(* reports success names its own job, which succeeded, and                  *)
(* consecutive_failures counts the failing runs since the last success      *)
(* (instrument_job, whose finally block takes the newest job for its own).  *)
THEOREM OwnHistory == ASSUME OneTaskOfASource PROVE Spec => []HistoryIsOwn
<1>1. Init => RunInv /\ ResultInv /\ OwnInv
  BY RunInit, ResultInit, OwnInit
<1>2. IInv /\ RunInv /\ ResultInv /\ OwnInv /\ [Next]_vars => RunInv' /\ ResultInv' /\ OwnInv'
  BY RunNext, ResultNext, OwnNext DEF IInv
<1>3. OwnInv => HistoryIsOwn
  BY DEF OwnInv, OwnRecords, WorkOf, Unanswered, HistoryIsOwn, SuccessIsOwn,
     FailureCountIsHistory
<1> QED
  BY <1>1, <1>2, <1>3, Invariance, PTL DEF Spec
=============================================================================
