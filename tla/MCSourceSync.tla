---------------------------- MODULE MCSourceSync ----------------------------
(* Instances of SourceSync for TLC: backends, tasks and sources chosen by   *)
(* each configuration.                                                      *)
EXTENDS SourceSync

CONSTANTS a, b,                           \* instances
          users, devices, policy, flows,  \* sources
          scheduledA, scheduledB, manualA, initialA, initialB

MCHost == [r \in Runner |-> IF r \in {scheduledB, initialB} THEN b ELSE a]

\* A scheduled task of every source, one at a time.
AnyPlans == [r \in Runner |-> {<<s>> : s \in Source}]

DevicePlans == [r \in Runner |-> {<<devices>>}]

\* sync_initial_inventory: users, then devices.
StartupPlans == [r \in Runner |-> {<<users, devices>>}]
=============================================================================
