----------------------------- MODULE JobLedger -----------------------------
(***************************************************************************)
(* What the synchronization engine promises about the sync_jobs table,     *)
(* without locks, tasks or processes: per source a ledger of executions    *)
(* that only grows, in which an execution is opened only when no other     *)
(* execution of the same source is open, and is closed (its result         *)
(* recorded) or abandoned (its process died or its lock was lost) once.    *)
(* SourceSync implements this specification.                               *)
(***************************************************************************)
EXTENDS Naturals, Sequences

CONSTANT Source

VARIABLE ledger     \* ledger[s]: the executions of source s, oldest first

Phase == {"open", "closed", "abandoned"}

TypeOK == ledger \in [Source -> Seq(Phase)]

Init == ledger = [s \in Source |-> << >>]

\* An execution starts: no other one of the source is open.
Open(s) == /\ \A k \in DOMAIN ledger[s] : ledger[s][k] # "open"
           /\ ledger' = [ledger EXCEPT ![s] = Append(@, "open")]

\* The newest execution records its result.
Close(s) == /\ ledger[s] # << >>
            /\ ledger[s][Len(ledger[s])] = "open"
            /\ ledger' = [ledger EXCEPT ![s][Len(ledger[s])] = "closed"]

\* Executions that nobody works on any more (several when a process dies).
Abandon == ledger' \in {l \in [Source -> Seq(Phase)] :
                 \A s \in Source :
                    /\ Len(l[s]) = Len(ledger[s])
                    /\ \A k \in DOMAIN l[s] :
                          \/ l[s][k] = ledger[s][k]
                          \/ ledger[s][k] = "open" /\ l[s][k] = "abandoned"}

Next == Abandon \/ \E s \in Source : Open(s) \/ Close(s)

Spec == Init /\ [][Next]_ledger
=============================================================================
