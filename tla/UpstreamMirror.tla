--------------------------- MODULE UpstreamMirror ---------------------------
(***************************************************************************)
(* The sources whose rows only their own worker writes: services, log      *)
(* streaming, the policy, the logs, and the listings that replace a table  *)
(* (webhooks, credentials, contacts, posture integrations, DNS, settings). *)
(* A worker asks upstream, one request after the other, and commits what   *)
(* it was told; a run is two steps, what it is told and what it commits,   *)
(* except that log streaming commits each type by itself.                  *)
(***************************************************************************)
EXTENDS Integers, Sequences, FiniteSets

CONSTANTS
    Sources,        \* the workers to check, one in a behaviour
    Service, Port, Host, LogType, Item, Text,
    Unparsable,     \* the policy texts that parse_policy refuses
    Window,         \* sync_logs asks for the records logged in the last Window
    Delay,          \* bound: how late upstream publishes a record
    Horizon,        \* bound: time
    MaxChanges,     \* bound: changes upstream
    MaxFailures,    \* bound: failed requests and stopped workers
    Nobody

Listing == {"webhooks", "credentials", "contacts", "posture_integrations",
            "tailnet_settings", "dns"}

ASSUME ConstantsAssumption ==
    /\ Sources \subseteq {"services", "log_streaming", "policy", "flows"} \cup Listing
    /\ Unparsable \subseteq Text
    /\ Window \in Nat /\ Delay \in 0 .. Window /\ Horizon \in Nat
    /\ MaxChanges \in Nat /\ MaxFailures \in Nat
    /\ IsFiniteSet(Service) /\ IsFiniteSet(LogType) /\ IsFiniteSet(Item)
    /\ Nobody \notin Host

VARIABLES
    source,         \* the worker of this behaviour
    pc, told,       \* where it is, and what upstream told it
    \* --- upstream
    catalog,        \* catalog[s]: ports and hosts of a service
    streaming,      \* streaming[t]: what logs of type t are streamed to
    text,           \* the policy
    logged,         \* the published flow records: when each was logged
    items,          \* the items of a listing
    now,
    \* --- PostgreSQL
    service,        \* service[s]: its row
    host,           \* host[s]: the hosts of s
    endpoint,       \* the service_endpoints rows: their identity is their content
    stream,         \* stream[t]: the row of t
    snapshots,      \* the policy_snapshots in the order of retrieved_at
    flow,           \* the records of flows
    row,            \* row[i]: the row of an item
    \* --- history for the properties, and the bounds
    earlier,        \* the texts the policy had before
    returned,       \* it went back to one of them
    newest,         \* the text that was retrieved last and could be parsed
    covered,        \* until when the newest successful run asked
    paused,         \* a run asked later than Window - Delay after the one before it
    changes, failures

upstream == <<catalog, streaming, text, logged, items>>
services == <<service, host, endpoint>>
store == <<service, host, endpoint, stream, snapshots, flow, row>>
past == <<earlier, returned, newest, covered, paused>>
vars == <<source, pc, told, catalog, streaming, text, logged, items, now, service, host,
          endpoint, stream, snapshots, flow, row, earlier, returned, newest, covered,
          paused, changes, failures>>

Gone == [ports |-> {}, hosts |-> {}, listed |-> FALSE]
Offer == [ports : SUBSET Port, hosts : SUBSET Host, listed : {TRUE}]
Failed == "failed"
Nothing == [asked |-> FALSE]
Endpoint == [service : Service, host : Host \cup {Nobody}, port : Port]

TypeOK ==
    /\ source \in Sources /\ pc \in {"idle", "commit"}
    /\ catalog \in [Service -> Offer \cup {Gone}]
    /\ streaming \in [LogType -> {"none", "on"}]
    /\ text \in Text /\ logged \subseteq 0 .. Horizon /\ items \subseteq Item
    /\ now \in 0 .. Horizon
    /\ service \in [Service -> {"none", "present", "gone"}]
    /\ host \in [Service -> SUBSET Host] /\ endpoint \subseteq Endpoint
    /\ stream \in [LogType -> [on : BOOLEAN, stale : BOOLEAN]]
    /\ \A i, j \in DOMAIN snapshots : snapshots[i] = snapshots[j] => i = j
    /\ flow \subseteq 0 .. Horizon
    /\ row \in [Item -> {"none", "present", "summary", "gone"}]
    /\ newest \in Text \cup {Nobody} /\ covered \in -1 .. Horizon
    /\ earlier \subseteq Text /\ returned \in BOOLEAN /\ paused \in BOOLEAN
    /\ changes \in 0 .. MaxChanges /\ failures \in 0 .. MaxFailures

Init ==
    /\ source \in Sources
    /\ pc = "idle" /\ told = Nothing
    /\ catalog = [s \in Service |-> Gone]
    /\ streaming = [t \in LogType |-> "none"]
    /\ text \in Text
    /\ logged = {} /\ items = {} /\ now = 0
    /\ service = [s \in Service |-> "none"]
    /\ host = [s \in Service |-> {}]
    /\ endpoint = {}
    /\ stream = [t \in LogType |-> [on |-> FALSE, stale |-> FALSE]]
    /\ snapshots = <<>>
    /\ flow = {}
    /\ row = [i \in Item |-> "none"]
    /\ earlier = {} /\ returned = FALSE /\ newest = Nobody
    /\ covered = -1 /\ paused = FALSE
    /\ changes = 0 /\ failures = 0
-----------------------------------------------------------------------------
(* Upstream.                                                                *)

Change ==
    /\ changes < MaxChanges /\ changes' = changes + 1
    /\ \/ /\ source = "services"
          /\ \E s \in Service, offer \in Offer \cup {Gone} : catalog' = [catalog EXCEPT ![s] = offer]
          /\ UNCHANGED <<streaming, text, items>>
       \/ /\ source = "log_streaming"
          /\ \E t \in LogType, to \in {"none", "on"} : streaming' = [streaming EXCEPT ![t] = to]
          /\ UNCHANGED <<catalog, text, items>>
       \/ /\ source = "policy" /\ text' \in Text \ {text}
          /\ UNCHANGED <<catalog, streaming, items>>
       \/ /\ source \in Listing /\ items' \in SUBSET Item
          /\ UNCHANGED <<catalog, streaming, text>>
    /\ earlier' = earlier \cup {text}
    /\ returned' = (returned \/ text' \in earlier)
    /\ UNCHANGED <<source, pc, told, logged, now, store, newest, covered, paused, failures>>

\* Time passes, and nodes publish what they logged up to Delay before.
Tick ==
    /\ source = "flows" /\ now < Horizon /\ now' = now + 1
    /\ UNCHANGED <<source, pc, told, upstream, store, past, changes, failures>>

Publish ==
    /\ source = "flows"
    /\ \E at \in (now - Delay) .. now :
          at >= 0 /\ at \notin logged /\ logged' = logged \cup {at}
    /\ UNCHANGED <<source, pc, told, catalog, streaming, text, items, now, store, past,
                   changes, failures>>
-----------------------------------------------------------------------------
(* What a worker is told.                                                   *)

Told(answers, failing) ==
    /\ pc = "idle" /\ pc' = "commit"
    /\ failures + failing <= MaxFailures /\ failures' = failures + failing
    /\ told' = [asked |-> TRUE, value |-> answers]
    /\ UNCHANGED <<source, upstream, now, store, past, changes>>

\* The listing, then the detail and the hosts of each service.  A failed detail
\* leaves the summary of the listing, which has the ports too.
AskServices ==
    /\ source = "services"
    /\ \E failing \in SUBSET {s \in Service : catalog[s].listed} :
          Told([s \in Service |-> [offer |-> catalog[s], hosts |-> s \notin failing]],
               Cardinality(failing))

AskStreaming ==
    /\ source = "log_streaming"
    /\ \E failing \in SUBSET LogType :
          Told([t \in LogType |-> IF t \in failing THEN Failed ELSE streaming[t]],
               Cardinality(failing))

AskPolicy == source = "policy" /\ Told(text, 0)

\* Mutated: the window does not reach back over late records.
AskLogsShort ==
    /\ source = "flows"
    /\ Told([until |-> now, records |-> {at \in logged : at >= now - (Window - Delay)}], 0)

AskLogs ==
    /\ source = "flows"
    /\ Told([until |-> now, records |-> {at \in logged : at >= now - Window}], 0)

\* The listing; posture integrations have a detail request for each item.
AskListing ==
    /\ source \in Listing
    /\ \E failing \in SUBSET items :
          /\ failing # {} => source = "posture_integrations"
          /\ Told([listed |-> items, detailed |-> items \ failing], Cardinality(failing))
-----------------------------------------------------------------------------
(* What it commits.                                                         *)

Answer == told.value

Done == /\ pc = "commit" /\ pc' = "idle" /\ told' = Nothing
        /\ UNCHANGED <<source, upstream, now, changes>>

\* A request of the listing fails, the worker is cancelled, or its process dies.
Fail ==
    /\ failures < MaxFailures /\ failures' = failures + 1
    /\ Done
    /\ UNCHANGED <<store, past>>

\* The endpoints of the service itself, and those of its hosts.
OwnEndpoints(s, offer) == [service : {s}, host : {Nobody}, port : offer.ports]
HostEndpoints(s, offer) == [service : {s}, host : offer.hosts, port : offer.ports]

\* Mutated: the rows of a service are never deleted.
KeptAlways(s) == {e \in endpoint : e.service = s}

\* The rows of a service are deleted only after its hosts were listed; where
\* that request fails its own endpoints are added to the rows it already has.
Kept(s) == IF Answer[s].hosts THEN {} ELSE {e \in endpoint : e.service = s}
Added(s) ==
    LET offer == Answer[s].offer
    IN  OwnEndpoints(s, offer) \cup IF Answer[s].hosts THEN HostEndpoints(s, offer) ELSE {}
Duplicates == {s \in Service : Answer[s].offer.listed /\ Kept(s) \cap Added(s) # {}}

StoreServices ==
    /\ source = "services" /\ Done
    /\ Duplicates = {}
    /\ LET listed == {s \in Service : Answer[s].offer.listed}
       IN /\ service' = [s \in Service |-> IF s \in listed THEN "present"
                                           ELSE IF service[s] = "none" THEN "none" ELSE "gone"]
          /\ host' = [s \in Service |-> IF s \in listed /\ Answer[s].hosts
                                        THEN Answer[s].offer.hosts ELSE host[s]]
          /\ endpoint' = {e \in endpoint : e.service \notin listed}
                            \cup UNION {Kept(s) \cup Added(s) : s \in listed}
    /\ UNCHANGED <<stream, snapshots, flow, row, past, failures>>

\* An endpoint whose identity is already stored violates the primary key: the
\* exception is not a TailscaleError, and _run_source rolls everything back.
RejectServices ==
    /\ source = "services" /\ Done
    /\ Duplicates # {}
    /\ UNCHANGED <<store, past, failures>>

\* A type that failed turns stale, one that is not configured loses its row.
StoreStream(t) ==
    IF Answer[t] = Failed THEN [stream[t] EXCEPT !.stale = stream[t].on]
    ELSE [on |-> Answer[t] = "on", stale |-> FALSE]

\* Every type is committed by itself: a worker that dies has stored some of them.
StoreStreaming ==
    /\ source = "log_streaming" /\ pc = "commit"
    /\ \E t \in DOMAIN Answer :
          LET rest == {u \in DOMAIN Answer : u # t}
          IN /\ stream' = [stream EXCEPT ![t] = StoreStream(t)]
             /\ told' = IF rest = {} THEN Nothing
                      ELSE [told EXCEPT !.value = [u \in rest |-> Answer[u]]]
             /\ pc' = IF rest = {} THEN "idle" ELSE "commit"
    /\ UNCHANGED <<source, upstream, now, services, snapshots, flow, row, past, changes, failures>>

\* The snapshot's key is the hash of the text: a known text adds no row and
\* leaves retrieved_at of its row alone.
StorePolicy ==
    /\ source = "policy" /\ Done
    /\ LET known == \E i \in DOMAIN snapshots : snapshots[i] = Answer
           valid == Answer \notin Unparsable
       IN /\ snapshots' = IF valid /\ ~known THEN Append(snapshots, Answer) ELSE snapshots
          /\ newest' = IF valid THEN Answer ELSE newest
    /\ UNCHANGED <<services, stream, flow, row, earlier, returned, covered, paused, failures>>

\* The policy every reader takes: the newest valid snapshot.
CurrentPolicy == IF snapshots = <<>> THEN Nobody ELSE snapshots[Len(snapshots)]

\* A record that is known by its fingerprint is skipped.
StoreLogs ==
    /\ source = "flows" /\ Done
    /\ flow' = flow \cup Answer.records
    /\ paused' = (paused \/ Answer.until - covered > Window - Delay)
    /\ covered' = Answer.until
    /\ UNCHANGED <<services, stream, snapshots, row, earlier, returned, newest, failures>>

\* UPDATE ... SET present = false, then the rows of what was listed, in one
\* transaction: an answer that turns out to be malformed (contacts) is a Fail.
Replaced(complete) ==
    /\ Done
    /\ row' = [i \in Item |-> IF i \in Answer.listed
                              THEN IF i \in complete THEN "present" ELSE "summary"
                              ELSE IF row[i] = "none" THEN "none" ELSE "gone"]
    /\ UNCHANGED <<services, stream, snapshots, flow, past, failures>>

StoreWebhooks == source = "webhooks" /\ Replaced(Item)
StoreCredentials == source = "credentials" /\ Replaced(Item)
StoreContacts == source = "contacts" /\ Replaced(Item)

\* An integration whose detail request failed is stored from the listing.
StoreIntegrations == source = "posture_integrations" /\ Replaced(Answer.detailed)

\* The one row of a configuration: what the answer lacks is dropped.
StoreSettings == source = "tailnet_settings" /\ Replaced(Item)
StoreDns == source = "dns" /\ Replaced(Item)

StoreListing ==
    StoreWebhooks \/ StoreCredentials \/ StoreContacts \/ StoreIntegrations
        \/ StoreSettings \/ StoreDns

WorkerStep ==
    \/ AskServices \/ AskStreaming \/ AskPolicy \/ AskLogs \/ AskListing
    \/ StoreServices \/ RejectServices \/ StoreStreaming \/ StorePolicy \/ StoreLogs
    \/ StoreListing

Next == Change \/ Tick \/ Publish \/ WorkerStep \/ Fail

Spec == Init /\ [][Next]_vars

\* Every source is scheduled and its requests end.
FairSpec == Spec /\ WF_vars(WorkerStep)
-----------------------------------------------------------------------------
(* Correctness.                                                             *)

(* The policy that access, posture, findings and the security review are    *)
(* evaluated against is the one that was retrieved last.                    *)
PolicyIsCurrent == CurrentPolicy = newest

(* It is, as long as the tailnet never goes back to an earlier policy,      *)
(* however runs fail, and whatever texts could not be parsed in between.    *)
PolicyIsCurrentUntilReturn == ~returned => PolicyIsCurrent

(* Every record that was logged more than Delay before the newest run is    *)
(* stored, as long as no two successful runs were further apart than the    *)
(* window less Delay: failed runs in between lose nothing, because the next *)
(* window reaches back over them.                                           *)
NoGap == ~paused => \A at \in logged : at < covered - Delay => at \in flow

(* What holds of the rows in every state.                                   *)
MirrorInv == TypeOK /\ PolicyIsCurrentUntilReturn /\ NoGap

\* What the rows show when the worker has caught up with upstream.
ServicesAgree ==
    \A s \in Service :
        /\ service[s] = "present" <=> catalog[s].listed
        /\ catalog[s].listed =>
              /\ host[s] = catalog[s].hosts
              /\ {e \in endpoint : e.service = s} =
                    OwnEndpoints(s, catalog[s]) \cup HostEndpoints(s, catalog[s])
StreamsAgree == \A t \in LogType : stream[t] = [on |-> streaming[t] = "on", stale |-> FALSE]
ItemsAgree == \A i \in Item : (row[i] = "present") = (i \in items) /\ row[i] # "summary"
PolicyAgrees == returned \/ text \in Unparsable \/ CurrentPolicy = text

(* Once upstream and its failures are quiet, the rows catch up with it, also *)
(* after runs that were partial, rejected or interrupted between two types. *)
MirrorCatchesUp ==
    <>[](/\ source = "services" => ServicesAgree
         /\ source = "log_streaming" => StreamsAgree
         /\ source \in Listing => ItemsAgree
         /\ source = "policy" => PolicyAgrees)
=============================================================================
