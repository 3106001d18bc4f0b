---------------------------- MODULE UpstreamProofs ----------------------------
(***************************************************************************)
(* Proofs about what the backend takes from upstream: UpstreamMirror, for  *)
(* any catalogs, texts, windows, delays and numbers of changes and         *)
(* failures, TailscaleClient, for any number of calls and attempts and any *)
(* lifetimes of a token, and DeviceInventory, for any devices, users,      *)
(* invites, listings and families of workers.                              *)
(***************************************************************************)
EXTENDS UpstreamMirror, TailscaleClient, DeviceInventory, FiniteSetTheorems,
        SequenceTheorems, TLAPS

(* What a worker has been told, by its source.                              *)
ToldServices ==
    source = "services" =>
       Answer \in [Service -> [offer : Offer \cup {Gone}, hosts : BOOLEAN]]

ToldStreaming ==
    source = "log_streaming" =>
       /\ "value" \in DOMAIN told
       /\ DOMAIN Answer \subseteq LogType

(* What was logged before the run that asked, within its window, is in the  *)
(* answer: upstream publishes later only what was logged Delay ago or less. *)
ToldLogs ==
    source = "flows" =>
       /\ Answer.until \in 0 .. now /\ Answer.records \subseteq logged
       /\ \A at \in logged : Answer.until - Window <= at /\ at < Answer.until - Delay
                                => at \in Answer.records

ToldOK == pc = "commit" => ToldServices /\ ToldStreaming /\ ToldLogs

(* As long as the policy has not returned to an earlier text, what is not   *)
(* the newest snapshot is an earlier text, and so is neither the text of    *)
(* the policy nor one that a run was told.                                  *)
SnapshotsAreInOrder ==
    source = "policy" /\ ~returned =>
       /\ text \notin earlier
       /\ \A i \in DOMAIN snapshots :
             snapshots[i] \in IF i < Len(snapshots) THEN earlier ELSE earlier \cup {text}
       /\ pc = "commit" =>
             /\ Answer \in earlier \cup {text}
             /\ \A i \in DOMAIN snapshots :
                   /\ snapshots[i] \in earlier \cup {Answer}
                   /\ i < Len(snapshots) => snapshots[i] # Answer

TextsOK ==
    /\ snapshots \in Seq(Text) /\ (source = "policy" /\ pc = "commit" => Answer \in Text)
    /\ source # "policy" => snapshots = <<>> /\ newest = Nobody

IInv == /\ TypeOK /\ ToldOK /\ TextsOK /\ SnapshotsAreInOrder
        /\ covered <= now /\ PolicyIsCurrentUntilReturn /\ NoGap
-----------------------------------------------------------------------------
(* Types.                                                                   *)

(* What a step of upstream or of a worker leaves alone.                     *)
LEMMA Frames ==
    /\ UNCHANGED upstream =>
          UNCHANGED catalog /\ UNCHANGED streaming /\ UNCHANGED text /\ UNCHANGED logged
             /\ UNCHANGED items
    /\ UNCHANGED services => UNCHANGED service /\ UNCHANGED host /\ UNCHANGED endpoint
    /\ UNCHANGED store =>
          UNCHANGED service /\ UNCHANGED host /\ UNCHANGED endpoint /\ UNCHANGED stream
             /\ UNCHANGED snapshots /\ UNCHANGED flow /\ UNCHANGED row
    /\ UNCHANGED past =>
          UNCHANGED earlier /\ UNCHANGED returned /\ UNCHANGED newest /\ UNCHANGED covered
             /\ UNCHANGED paused
BY DEF upstream, services, store, past

(* The requests of a run are counted.                                       *)
LEMMA Counted ==
    ASSUME NEW S \in {Service, LogType, Item}, NEW failing \in SUBSET S
    PROVE  Cardinality(failing) \in Nat
<1>1. IsFiniteSet(S)
  BY ConstantsAssumption
<1> QED
  BY <1>1, FS_Subset, FS_CardinalityType

(* A run that is told something changes where the worker is, and counts.    *)
LEMMA ToldStep ==
    ASSUME TypeOK, NEW answers, NEW failing \in Nat, Told(answers, failing)
    PROVE  TypeOK'
<1>1. UNCHANGED <<source, upstream, now, store, past, changes>> /\ pc' = "commit"
  BY DEF Told
<1>2. failures' \in 0 .. MaxFailures
  BY ConstantsAssumption DEF Told, TypeOK
<1> QED
  BY <1>1, <1>2, Frames DEF TypeOK

(* What administrators and devices change upstream keeps the types.          *)
LEMMA ChangeType == ASSUME TypeOK, Change PROVE TypeOK'
<1> USE DEF Change, TypeOK
<1>1. catalog' \in [Service -> Offer \cup {Gone}] /\ streaming' \in [LogType -> {"none", "on"}]
  OBVIOUS
<1>2. text' \in Text /\ items' \subseteq Item /\ earlier' \subseteq Text
  OBVIOUS
<1>3. returned' \in BOOLEAN
  OBVIOUS
<1>4. changes' \in 0 .. MaxChanges
  BY ConstantsAssumption
<1> QED
  BY <1>1, <1>2, <1>3, <1>4, Frames

(* The clock and the publication of logs keep the types.                     *)
LEMMA TimeType == ASSUME TypeOK, Tick \/ Publish PROVE TypeOK'
<1>1. CASE Tick
  <2>1. now' \in 0 .. Horizon
    BY <1>1, ConstantsAssumption DEF Tick, TypeOK
  <2>2. UNCHANGED <<source, pc, upstream, store, past, changes, failures>>
    BY <1>1 DEF Tick
  <2> QED
    BY <2>1, <2>2, Frames DEF TypeOK
<1>2. CASE Publish
  <2>1. logged' \subseteq 0 .. Horizon
    BY <1>2, ConstantsAssumption DEF Publish, TypeOK
  <2>2. UNCHANGED <<source, pc, catalog, streaming, text, items, now, store, past,
                    changes, failures>>
    BY <1>2 DEF Publish
  <2> QED
    BY <2>1, <2>2, Frames DEF TypeOK
<1> QED
  BY <1>1, <1>2

(* An upstream request that is asked of several services, logs or items keeps *)
(* the types: the number that fail is a natural number.                      *)
LEMMA AskType ==
    ASSUME TypeOK, AskServices \/ AskStreaming \/ AskPolicy \/ AskLogs \/ AskListing
    PROVE  TypeOK'
<1>1. CASE AskServices
  <2>1. PICK failing, answers :
             failing \in SUBSET Service /\ Told(answers, Cardinality(failing))
    BY <1>1 DEF AskServices
  <2> QED
    BY <2>1, Counted, ToldStep
<1>2. CASE AskStreaming
  <2>1. PICK failing, answers :
             failing \in SUBSET LogType /\ Told(answers, Cardinality(failing))
    BY <1>2 DEF AskStreaming
  <2> QED
    BY <2>1, Counted, ToldStep
<1>3. CASE AskPolicy \/ AskLogs
  <2>1. PICK answers : Told(answers, 0)
    BY <1>3 DEF AskPolicy, AskLogs
  <2> QED
    BY <2>1, ToldStep
<1>4. CASE AskListing
  <2>1. PICK failing, answers :
             failing \in SUBSET items /\ Told(answers, Cardinality(failing))
    BY <1>4 DEF AskListing
  <2>2. failing \in SUBSET Item
    BY <2>1 DEF TypeOK
  <2> QED
    BY <2>1, <2>2, Counted, ToldStep
<1> QED
  BY <1>1, <1>2, <1>3, <1>4

(* A run that fails or is rejected stores nothing.                          *)
LEMMA NothingStoredType == ASSUME TypeOK, Fail \/ RejectServices PROVE TypeOK'
<1>1. UNCHANGED <<source, upstream, now, store, past, changes>> /\ pc' = "idle"
  BY DEF Fail, RejectServices, Done
<1>2. failures' \in 0 .. MaxFailures
  BY ConstantsAssumption DEF Fail, RejectServices, TypeOK
<1> QED
  BY <1>1, <1>2, Frames DEF TypeOK

(* Storing the services keeps the types.                                     *)
LEMMA StoreServicesType ==
    ASSUME TypeOK, ToldOK, StoreServices
    PROVE  TypeOK'
<1> DEFINE found == {s \in Service : Answer[s].offer.listed}
<1>1. UNCHANGED <<source, upstream, now, stream, snapshots, flow, row, past, changes, failures>>
      /\ pc' = "idle"
  BY DEF StoreServices, Done
<1>2. Answer \in [Service -> [offer : Offer \cup {Gone}, hosts : BOOLEAN]]
  BY DEF StoreServices, Done, ToldOK, ToldServices
<1>3. ASSUME NEW s \in Service
      PROVE  Answer[s].offer.hosts \subseteq Host /\ Answer[s].offer.ports \subseteq Port
  <2>1. Answer[s].offer \in Offer \cup {Gone}
    BY <1>2
  <2>2. CASE Answer[s].offer = Gone
    <3>1. Answer[s].offer.hosts = {} /\ Answer[s].offer.ports = {}
      BY <2>2 DEF Gone
    <3> QED
      BY <3>1
  <2>3. CASE Answer[s].offer \in Offer
    BY <2>3, Zenon DEF Offer
  <2> QED
    BY <2>1, <2>2, <2>3
<1>4. service' \in [Service -> {"none", "present", "gone"}]
  BY DEF StoreServices, TypeOK
<1>5. host' \in [Service -> SUBSET Host]
  BY <1>3 DEF StoreServices, TypeOK
<1>6. \A s \in Service : Kept(s) \cup Added(s) \subseteq Endpoint
  <2> TAKE s \in Service
  <2>1. Kept(s) \subseteq Endpoint
    BY DEF Kept, TypeOK
  <2>2. OwnEndpoints(s, Answer[s].offer) \subseteq Endpoint
    BY <1>3 DEF OwnEndpoints, Endpoint
  <2>3. HostEndpoints(s, Answer[s].offer) \subseteq Endpoint
    BY <1>3 DEF HostEndpoints, Endpoint
  <2> QED
    BY <2>1, <2>2, <2>3 DEF Added
<1>7. endpoint' \subseteq Endpoint
  <2>1. endpoint' = {e \in endpoint : e.service \notin found}
                       \cup UNION {Kept(s) \cup Added(s) : s \in found}
    BY DEF StoreServices
  <2> QED
    BY <1>6, <2>1 DEF TypeOK
<1> QED
  BY <1>1, <1>4, <1>5, <1>7, Frames DEF TypeOK

(* Storing the log streaming configurations keeps the types.                 *)
LEMMA StoreStreamingType ==
    ASSUME TypeOK, ToldOK, StoreStreaming
    PROVE  TypeOK'
<1>1. UNCHANGED <<source, upstream, now, services, snapshots, flow, row, past, changes, failures>>
      /\ pc' \in {"idle", "commit"}
  BY DEF StoreStreaming
<1>2. PICK t \in DOMAIN Answer : stream' = [stream EXCEPT ![t] = StoreStream(t)]
  BY DEF StoreStreaming
<1>3. t \in LogType
  BY <1>2 DEF StoreStreaming, ToldOK, ToldStreaming
<1>4. PICK on \in BOOLEAN, old \in BOOLEAN : stream[t] = [on |-> on, stale |-> old]
  BY <1>3, Zenon DEF TypeOK
<1>5. StoreStream(t) \in [on : BOOLEAN, stale : BOOLEAN]
  <2>1. CASE Answer[t] = Failed
    <3>1. StoreStream(t) = [on |-> on, stale |-> on]
      BY <1>4, <2>1 DEF StoreStream
    <3> QED
      BY <3>1
  <2>2. CASE Answer[t] # Failed
    BY <2>2 DEF StoreStream
  <2> QED
    BY <2>1, <2>2
<1>6. stream' \in [LogType -> [on : BOOLEAN, stale : BOOLEAN]]
  BY <1>2, <1>3, <1>5 DEF TypeOK
<1> QED
  BY <1>1, <1>6, Frames DEF TypeOK

(* Storing a policy snapshot keeps the types.                                *)
LEMMA StorePolicyType ==
    ASSUME TypeOK, TextsOK, StorePolicy
    PROVE  TypeOK'
<1>1. UNCHANGED <<source, upstream, now, services, stream, flow, row, earlier, returned,
                  covered, paused, changes, failures>> /\ pc' = "idle"
  BY DEF StorePolicy, Done
<1>2. Answer \in Text /\ snapshots \in Seq(Text)
  BY DEF StorePolicy, Done, TextsOK
<1>3. newest' \in Text \cup {Nobody}
  BY <1>2 DEF StorePolicy, TypeOK
<1>4. \A i, j \in DOMAIN snapshots' : snapshots'[i] = snapshots'[j] => i = j
  <2>1. CASE snapshots' = snapshots
    BY <2>1 DEF TypeOK
  <2>2. CASE /\ snapshots' = Append(snapshots, Answer)
             /\ \A i \in DOMAIN snapshots : snapshots[i] # Answer
    <3>1. DOMAIN snapshots' = 1 .. Len(snapshots) + 1 /\ Len(snapshots) \in Nat
          /\ DOMAIN snapshots = 1 .. Len(snapshots)
      BY <1>2, <2>2
    <3>2. \A i \in 1 .. Len(snapshots) : snapshots'[i] = snapshots[i]
      BY <1>2, <2>2
    <3>3. snapshots'[Len(snapshots) + 1] = Answer
      BY <1>2, <2>2
    <3> QED
      BY <2>2, <3>1, <3>2, <3>3 DEF TypeOK
  <2> QED
    BY <2>1, <2>2 DEF StorePolicy
<1> QED
  BY <1>1, <1>3, <1>4, Frames DEF TypeOK

(* Storing a window of configuration logs keeps the types.                   *)
LEMMA StoreLogsType ==
    ASSUME TypeOK, ToldOK, StoreLogs
    PROVE  TypeOK'
<1>1. UNCHANGED <<source, upstream, now, services, stream, snapshots, row, earlier, returned,
                  newest, changes, failures>> /\ pc' = "idle"
  BY DEF StoreLogs, Done
<1>2. Answer.until \in 0 .. now /\ Answer.records \subseteq logged
  BY DEF StoreLogs, Done, ToldOK, ToldLogs
<1>3. flow' \subseteq 0 .. Horizon /\ covered' \in -1 .. Horizon
  <2>1. flow' = flow \cup Answer.records /\ covered' = Answer.until
    BY DEF StoreLogs
  <2>2. flow' \subseteq 0 .. Horizon
    BY <1>2, <2>1 DEF TypeOK
  <2>3. now \in 0 .. Horizon /\ Horizon \in Nat
    BY ConstantsAssumption DEF TypeOK
  <2>4. covered' \in 0 .. now
    BY <1>2, <2>1, Zenon
  <2> QED
    BY <2>2, <2>3, <2>4
<1>4. paused' \in BOOLEAN
  BY DEF StoreLogs, TypeOK
<1> QED
  BY <1>1, <1>3, <1>4, Frames DEF TypeOK

(* Storing a listing keeps the types.                                        *)
LEMMA StoreListingType == ASSUME TypeOK, StoreListing PROVE TypeOK'
<1>1. PICK complete : Replaced(complete)
  BY DEF StoreListing, StoreWebhooks, StoreCredentials, StoreContacts, StoreIntegrations,
     StoreSettings, StoreDns
<1>2. UNCHANGED <<source, upstream, now, services, stream, snapshots, flow, past, changes,
                  failures>> /\ pc' = "idle"
  BY <1>1 DEF Replaced, Done
<1>3. row' \in [Item -> {"none", "present", "summary", "gone"}]
  BY <1>1 DEF Replaced, TypeOK
<1> QED
  BY <1>2, <1>3, Frames DEF TypeOK

(* Every step keeps the types.                                              *)
LEMMA TypeStep == ASSUME IInv, [Next]_vars PROVE TypeOK'
<1>1. TypeOK /\ ToldOK /\ TextsOK
  BY DEF IInv
<1>2. CASE Change \/ Tick \/ Publish
  BY <1>1, <1>2, ChangeType, TimeType
<1>3. CASE AskServices \/ AskStreaming \/ AskPolicy \/ AskLogs \/ AskListing
  BY <1>1, <1>3, AskType
<1>4. CASE Fail \/ RejectServices
  BY <1>1, <1>4, NothingStoredType
<1>5. CASE StoreServices \/ StoreStreaming \/ StorePolicy \/ StoreLogs \/ StoreListing
  BY <1>1, <1>5, StoreServicesType, StoreStreamingType, StorePolicyType, StoreLogsType,
     StoreListingType
<1>6. CASE UNCHANGED vars
  BY <1>1, <1>6 DEF vars, TypeOK
<1> QED
  BY <1>2, <1>3, <1>4, <1>5, <1>6 DEF Next, WorkerStep
-----------------------------------------------------------------------------
(* What a worker is told.                                                   *)

(* A step that tells nothing leaves a worker's answer true: the records     *)
(* that upstream publishes meanwhile were logged Delay ago or less.         *)
LEMMA UpstreamTold == ASSUME IInv, Change \/ Tick \/ Publish PROVE ToldOK'
<1>1. UNCHANGED <<source, pc, told>>
  BY DEF Change, Tick, Publish
<1>2. TypeOK /\ ToldOK
  BY DEF IInv
<1>3. SUFFICES ASSUME pc = "commit", source = "flows"
               PROVE  ToldLogs'
  BY <1>1, <1>2 DEF ToldOK, ToldServices, ToldStreaming, ToldLogs, Answer
<1>4. ToldLogs /\ Answer' = Answer /\ now \in Nat /\ Window \in Nat /\ Delay \in Nat
  BY <1>1, <1>2, <1>3, ConstantsAssumption DEF ToldOK, Answer, TypeOK
<1>5. Answer.until \in 0 .. now /\ Answer.records \subseteq logged
  BY <1>3, <1>4 DEF ToldLogs
<1>6. CASE Change
  BY <1>1, <1>3, <1>4, <1>6, Frames DEF Change, ToldLogs
<1>7. CASE Tick
  <2>1. logged' = logged /\ now' = now + 1
    BY <1>7, Frames DEF Tick
  <2>2. Answer.until \in 0 .. now'
    BY <1>4, <1>5, <2>1
  <2> QED
    BY <1>1, <1>3, <1>4, <2>1, <2>2 DEF ToldLogs
<1>8. CASE Publish
  <2>1. PICK at \in (now - Delay) .. now : logged' = logged \cup {at}
    BY <1>8 DEF Publish
  <2>2. now' = now
    BY <1>8 DEF Publish
  <2>3. ~(at < Answer.until - Delay)
    BY <1>4, <1>5, <2>1
  <2> QED
    BY <1>1, <1>3, <1>4, <2>1, <2>2, <2>3 DEF ToldLogs
<1> QED
  BY <1>6, <1>7, <1>8

(* What a worker asks for is what it is told.                               *)
LEMMA AskTold ==
    ASSUME IInv, AskServices \/ AskStreaming \/ AskPolicy \/ AskLogs \/ AskListing
    PROVE  ToldOK'
<1>1. TypeOK
  BY DEF IInv
<1>2. \A answers, failing : Told(answers, failing) =>
         /\ told' = [asked |-> TRUE, value |-> answers] /\ Answer' = answers
         /\ UNCHANGED <<source, now>> /\ UNCHANGED upstream
  BY DEF Told, Answer
<1>3. source' = source
  BY <1>2 DEF AskServices, AskStreaming, AskPolicy, AskLogs, AskListing
<1>4. CASE AskServices
  <2>1. PICK failing : Told([s \in Service |-> [offer |-> catalog[s], hosts |-> s \notin failing]],
                            Cardinality(failing))
    BY <1>4 DEF AskServices
  <2>2. Answer' = [s \in Service |-> [offer |-> catalog[s], hosts |-> s \notin failing]]
    BY <1>2, <2>1
  <2>3. \A s \in Service : catalog[s] \in Offer \cup {Gone} /\ (s \notin failing) \in BOOLEAN
    BY <1>1 DEF TypeOK
  <2>4. \A s \in Service : [offer |-> catalog[s], hosts |-> s \notin failing]
                              \in [offer : Offer \cup {Gone}, hosts : BOOLEAN]
    BY <2>3, Zenon
  <2>5. Answer' \in [Service -> [offer : Offer \cup {Gone}, hosts : BOOLEAN]]
    BY <2>2, <2>4, Zenon
  <2> QED
    BY <1>3, <1>4, <2>5 DEF AskServices, ToldOK, ToldServices, ToldStreaming, ToldLogs
<1>5. CASE AskStreaming
  <2>1. PICK failing : Told([t \in LogType |-> IF t \in failing THEN Failed ELSE streaming[t]],
                            Cardinality(failing))
    BY <1>5 DEF AskStreaming
  <2>2. /\ Answer' = [t \in LogType |-> IF t \in failing THEN Failed ELSE streaming[t]]
        /\ "value" \in DOMAIN told'
    BY <1>2, <2>1
  <2> QED
    BY <1>3, <1>5, <2>2 DEF AskStreaming, ToldOK, ToldServices, ToldStreaming, ToldLogs
<1>6. CASE AskPolicy \/ AskListing
  BY <1>3, <1>6 DEF AskPolicy, AskListing, Listing, ToldOK, ToldServices, ToldStreaming, ToldLogs
<1>7. CASE AskLogs
  <2>1. Told([until |-> now, records |-> {at \in logged : at >= now - Window}], 0)
    BY <1>7 DEF AskLogs
  <2>2. /\ Answer'.until = now /\ Answer'.records = {at \in logged : at >= now - Window}
        /\ now' = now /\ logged' = logged /\ source' = "flows"
    BY <1>2, <1>7, <2>1, Frames DEF AskLogs
  <2>3. now \in Nat /\ Window \in Nat /\ logged \subseteq Nat
    BY <1>1, ConstantsAssumption DEF TypeOK
  <2>4. Answer'.until \in 0 .. now' /\ Answer'.records \subseteq logged'
    BY <2>2, <2>3
  <2>5. ASSUME NEW at \in logged, now - Window <= at PROVE at \in Answer'.records
    BY <2>2, <2>3, <2>5
  <2>6. ToldLogs'
    BY <2>2, <2>3, <2>4, <2>5 DEF ToldLogs
  <2> QED
    BY <2>2, <2>6 DEF ToldOK, ToldServices, ToldStreaming
<1> QED
  BY <1>4, <1>5, <1>6, <1>7

(* A worker that commits forgets what it was told, and log streaming what   *)
(* it was told of the type it has stored.                                   *)
LEMMA CommitTold ==
    ASSUME IInv,
           Fail \/ RejectServices \/ StoreServices \/ StoreStreaming \/ StorePolicy
              \/ StoreLogs \/ StoreListing
    PROVE  ToldOK'
<1>1. CASE pc' = "idle"
  BY <1>1 DEF ToldOK
<1>2. ASSUME pc' # "idle" PROVE StoreStreaming
  BY <1>2 DEF Fail, RejectServices, StoreServices, StorePolicy, StoreLogs, StoreListing,
     StoreWebhooks, StoreCredentials, StoreContacts, StoreIntegrations, StoreSettings,
     StoreDns, Replaced, Done
<1>3. CASE pc' # "idle"
  <2>1. ToldStreaming /\ source' = "log_streaming" /\ source = "log_streaming"
    BY <1>2, <1>3 DEF IInv, ToldOK, StoreStreaming
  <2>2. PICK t \in DOMAIN Answer :
           told' = [told EXCEPT !.value = [u \in {u \in DOMAIN Answer : u # t} |-> Answer[u]]]
    BY <1>2, <1>3 DEF StoreStreaming
  <2>3. "value" \in DOMAIN told'
    BY <2>1, <2>2 DEF ToldStreaming
  <2>4. Answer' = [u \in {u \in DOMAIN Answer : u # t} |-> Answer[u]]
    BY <2>1, <2>2 DEF ToldStreaming, Answer
  <2>5. DOMAIN Answer' \subseteq LogType
    BY <2>1, <2>4 DEF ToldStreaming
  <2> QED
    BY <2>1, <2>3, <2>5 DEF ToldOK, ToldServices, ToldStreaming, ToldLogs
<1> QED
  BY <1>1, <1>3

(* Every step keeps what is told true.                                      *)
LEMMA ToldIsKept == ASSUME IInv, [Next]_vars PROVE ToldOK'
<1>1. CASE UNCHANGED vars
  BY <1>1 DEF IInv, vars, ToldOK, ToldServices, ToldStreaming, ToldLogs, Answer
<1> QED
  BY <1>1, UpstreamTold, AskTold, CommitTold DEF Next, WorkerStep
-----------------------------------------------------------------------------
(* The policy.                                                              *)

\* The part of the invariant about the policy and its snapshots.
PolicyOK == TextsOK /\ SnapshotsAreInOrder /\ PolicyIsCurrentUntilReturn

(* A step that neither changes the policy, nor asks for it, nor stores it.  *)
LEMMA PolicyAlone ==
    ASSUME PolicyOK, UNCHANGED <<source, text, snapshots, newest, earlier, returned>>,
           source = "policy" /\ pc' = "commit" => pc = "commit" /\ told' = told
    PROVE  PolicyOK'
<1> USE DEF PolicyOK
<1>1. TextsOK'
  BY DEF TextsOK, Answer
<1>2. SnapshotsAreInOrder'
  BY DEF SnapshotsAreInOrder, Answer
<1>3. PolicyIsCurrentUntilReturn'
  BY DEF PolicyIsCurrentUntilReturn, PolicyIsCurrent, CurrentPolicy
<1> QED
  BY <1>1, <1>2, <1>3

(* The policy changes: unless it returns to an earlier text, neither a      *)
(* snapshot nor a pending answer is its new text.                           *)
LEMMA ChangePolicy == ASSUME TypeOK, PolicyOK, Change PROVE PolicyOK'
<1>1. /\ UNCHANGED <<source, pc, told, snapshots, newest>>
      /\ earlier' = earlier \cup {text} /\ returned' = (returned \/ text' \in earlier)
  BY Frames DEF Change
<1>2. TextsOK'
  BY <1>1 DEF PolicyOK, TextsOK, Answer
<1>3. PolicyIsCurrentUntilReturn'
  BY <1>1 DEF PolicyOK, PolicyIsCurrentUntilReturn, PolicyIsCurrent, CurrentPolicy
<1>4. SnapshotsAreInOrder'
  <2>1. SUFFICES ASSUME source = "policy", ~returned, text' \notin earlier
                 PROVE  SnapshotsAreInOrder'
    BY <1>1 DEF SnapshotsAreInOrder
  <2>2. text' # text
    BY <2>1, <1>1 DEF Change, Listing
  <2>3. SnapshotsAreInOrder
    BY DEF PolicyOK
  <2> QED
    BY <1>1, <2>1, <2>2, <2>3 DEF SnapshotsAreInOrder, Answer
<1> QED
  BY <1>2, <1>3, <1>4 DEF PolicyOK

(* A run is told the policy there is, which no snapshot but the newest has. *)
LEMMA AskedPolicy == ASSUME TypeOK, PolicyOK, AskPolicy PROVE PolicyOK'
<1>1. /\ UNCHANGED <<source, text, snapshots, newest, earlier, returned>>
      /\ Answer' = text /\ source = "policy"
  BY Frames DEF AskPolicy, Told, Answer
<1>2. TextsOK'
  BY <1>1 DEF PolicyOK, TextsOK, TypeOK
<1>3. PolicyIsCurrentUntilReturn'
  BY <1>1 DEF PolicyOK, PolicyIsCurrentUntilReturn, PolicyIsCurrent, CurrentPolicy
<1>4. SnapshotsAreInOrder'
  BY <1>1 DEF PolicyOK, SnapshotsAreInOrder
<1> QED
  BY <1>2, <1>3, <1>4 DEF PolicyOK

(* A valid answer is the newest snapshot afterwards: where it is known it   *)
(* was the newest already, unless the policy has returned to it.            *)
LEMMA StoredPolicy == ASSUME TypeOK, PolicyOK, StorePolicy PROVE PolicyOK'
<1>1. /\ UNCHANGED <<source, text, earlier, returned>> /\ source = "policy"
      /\ pc = "commit" /\ pc' = "idle"
  BY Frames DEF StorePolicy, Done
<1>2. Answer \in Text /\ snapshots \in Seq(Text)
  BY <1>1 DEF PolicyOK, TextsOK
<1>3. CASE snapshots' = snapshots /\ newest' = newest
  BY <1>1, <1>3, PolicyAlone
<1>4. CASE /\ snapshots' = snapshots /\ newest' = Answer
           /\ \E i \in DOMAIN snapshots : snapshots[i] = Answer
  <2>1. TextsOK' /\ SnapshotsAreInOrder'
    BY <1>1, <1>2, <1>4 DEF PolicyOK, TextsOK, SnapshotsAreInOrder
  <2>2. ASSUME ~returned PROVE CurrentPolicy' = newest'
    <3>1. PICK i \in DOMAIN snapshots : snapshots[i] = Answer
      BY <1>4
    <3>2. ~(i < Len(snapshots))
      BY <1>1, <2>2, <3>1 DEF PolicyOK, SnapshotsAreInOrder
    <3>3. i = Len(snapshots) /\ snapshots # << >>
      BY <1>2, <3>1, <3>2
    <3> QED
      BY <1>4, <3>1, <3>3 DEF CurrentPolicy
  <2> QED
    BY <1>1, <2>1, <2>2 DEF PolicyOK, PolicyIsCurrentUntilReturn, PolicyIsCurrent
<1>5. CASE /\ snapshots' = Append(snapshots, Answer) /\ newest' = Answer
           /\ \A i \in DOMAIN snapshots : snapshots[i] # Answer
  <2>1. /\ snapshots' \in Seq(Text) /\ Len(snapshots) \in Nat
        /\ Len(snapshots') = Len(snapshots) + 1 /\ DOMAIN snapshots = 1 .. Len(snapshots)
        /\ DOMAIN snapshots' = 1 .. Len(snapshots) + 1
        /\ \A i \in 1 .. Len(snapshots) : snapshots'[i] = snapshots[i]
        /\ snapshots'[Len(snapshots) + 1] = Answer
    BY <1>2, <1>5
  <2>2. TextsOK'
    BY <1>1, <2>1 DEF TextsOK
  <2>3. PolicyIsCurrentUntilReturn'
    BY <1>5, <2>1 DEF PolicyIsCurrentUntilReturn, PolicyIsCurrent, CurrentPolicy
  <2>4. ASSUME ~returned
        PROVE  \A i \in DOMAIN snapshots' :
                  snapshots'[i] \in IF i < Len(snapshots') THEN earlier ELSE earlier \cup {text}
    <3>1. SnapshotsAreInOrder
      BY DEF PolicyOK
    <3>2. \A i \in DOMAIN snapshots :
             snapshots[i] \in IF i < Len(snapshots) THEN earlier ELSE earlier \cup {text}
      BY <1>1, <2>4, <3>1 DEF SnapshotsAreInOrder
    <3>3. Answer \in earlier \cup {text} /\ text \notin earlier
      BY <1>1, <2>4, <3>1 DEF SnapshotsAreInOrder
    <3>4. \A i \in DOMAIN snapshots : snapshots[i] \in earlier \cup {Answer}
      BY <1>1, <2>4, <3>1 DEF SnapshotsAreInOrder
    <3>5. \A i \in DOMAIN snapshots : snapshots[i] # Answer
      BY <1>5
    <3>6. \A i \in DOMAIN snapshots : snapshots[i] \in earlier
      BY <3>4, <3>5
    <3> QED
      BY <2>1, <3>3, <3>6
  <2>5. SnapshotsAreInOrder'
    BY <1>1, <2>4 DEF PolicyOK, SnapshotsAreInOrder
  <2> QED
    BY <2>2, <2>3, <2>5 DEF PolicyOK
<1> QED
  BY <1>3, <1>4, <1>5 DEF StorePolicy
(* Every step keeps the snapshots in order and the current one current.     *)
LEMMA PolicyStep == ASSUME IInv, [Next]_vars PROVE PolicyOK'
<1>1. TypeOK /\ PolicyOK
  BY DEF IInv, PolicyOK
<1>2. CASE Change
  BY <1>1, <1>2, ChangePolicy
<1>3. CASE AskPolicy
  BY <1>1, <1>3, AskedPolicy
<1>4. CASE StorePolicy
  BY <1>1, <1>4, StoredPolicy
<1>5. CASE UNCHANGED vars
  BY <1>1, <1>5, PolicyAlone DEF vars
<1>6. CASE Tick \/ Publish
  <2>1. UNCHANGED <<source, pc, told, text, snapshots, newest, earlier, returned>>
    BY <1>6, Frames DEF Tick, Publish
  <2> QED
    BY <1>1, <2>1, PolicyAlone
<1>7. CASE AskServices \/ AskStreaming \/ AskLogs \/ AskListing
  <2>1. source # "policy"
    BY <1>7 DEF AskServices, AskStreaming, AskLogs, AskListing, Listing
  <2>2. UNCHANGED <<source, upstream, store, past>>
    BY <1>7 DEF AskServices, AskStreaming, AskLogs, AskListing, Told
  <2> QED
    BY <1>1, <2>1, <2>2, Frames, PolicyAlone
<1>8. CASE Fail \/ RejectServices
  <2>1. UNCHANGED <<source, upstream, store, past>> /\ pc' = "idle"
    BY <1>8 DEF Fail, RejectServices, Done
  <2> QED
    BY <1>1, <2>1, Frames, PolicyAlone
<1>9. CASE StoreServices \/ StoreStreaming \/ StoreLogs
  <2>1. UNCHANGED <<source, upstream, snapshots, newest, earlier, returned>>
        /\ source # "policy"
    BY <1>9, Frames DEF StoreServices, StoreStreaming, StoreLogs, Done
  <2> QED
    BY <1>1, <2>1, Frames, PolicyAlone
<1>10. CASE StoreListing
  <2>1. PICK complete : Replaced(complete)
    BY <1>10 DEF StoreListing, StoreWebhooks, StoreCredentials, StoreContacts,
       StoreIntegrations, StoreSettings, StoreDns
  <2>2. UNCHANGED <<source, upstream, snapshots, past>> /\ pc' = "idle"
    BY <2>1 DEF Replaced, Done
  <2> QED
    BY <1>1, <2>2, Frames, PolicyAlone
<1> QED
  BY <1>2, <1>3, <1>4, <1>5, <1>6, <1>7, <1>8, <1>9, <1>10 DEF Next, WorkerStep
-----------------------------------------------------------------------------
(* The logs.                                                                *)

\* The part of the invariant about the logs.
LogsOK == covered <= now /\ NoGap

(* The steps of upstream: what is published was logged Delay ago or less.   *)
LEMMA UpstreamLogs == ASSUME IInv, Change \/ Tick \/ Publish PROVE LogsOK'
<1>1. /\ now \in Nat /\ covered \in Int /\ Delay \in Nat /\ Horizon \in Nat
      /\ covered <= now /\ NoGap /\ logged \subseteq Nat
  BY ConstantsAssumption DEF IInv, TypeOK
<1>2. UNCHANGED <<covered, paused, flow>>
  BY Frames DEF Change, Tick, Publish
<1>3. CASE Change \/ Tick
  <2>1. logged' = logged /\ (now' = now \/ now' = now + 1)
    BY <1>3, Frames DEF Change, Tick
  <2> QED
    BY <1>1, <1>2, <2>1 DEF LogsOK, NoGap
<1>4. CASE Publish
  <2>1. PICK at \in (now - Delay) .. now : logged' = logged \cup {at}
    BY <1>4 DEF Publish
  <2>2. now' = now
    BY <1>4 DEF Publish
  <2>3. ~(at < covered - Delay)
    BY <1>1, <2>1
  <2> QED
    BY <1>1, <1>2, <2>1, <2>2, <2>3 DEF LogsOK, NoGap
<1> QED
  BY <1>3, <1>4

(* A run that was not too late stores what the one before it could miss.    *)
LEMMA StoredLogs == ASSUME IInv, StoreLogs PROVE LogsOK'
<1>1. /\ now \in Nat /\ covered \in Int /\ Delay \in Nat /\ Window \in Nat
      /\ NoGap /\ logged \subseteq Nat
  BY ConstantsAssumption DEF IInv, TypeOK
<1>2. ToldLogs
  BY DEF IInv, ToldOK, StoreLogs, Done
<1>3. /\ Answer.until \in 0 .. now
      /\ \A at \in logged : Answer.until - Window <= at /\ at < Answer.until - Delay
                               => at \in Answer.records
  BY <1>2 DEF ToldLogs, StoreLogs
<1>4. /\ flow' = flow \cup Answer.records /\ covered' = Answer.until
      /\ paused' = (paused \/ Answer.until - covered > Window - Delay)
      /\ now' = now /\ logged' = logged
  BY Frames DEF StoreLogs, Done
<1>5. ASSUME ~paused', NEW at \in logged, at < Answer.until - Delay
      PROVE  at \in flow'
  <2>1. CASE at < covered - Delay
    BY <1>1, <1>4, <1>5, <2>1 DEF NoGap
  <2>2. CASE ~(at < covered - Delay)
    <3>1. Answer.until - covered <= Window - Delay
      <4>1. ~(Answer.until - covered > Window - Delay)
        BY <1>4, <1>5, Zenon
      <4>2. Answer.until \in Int
        BY <1>1, <1>3
      <4> QED
        BY <1>1, <4>1, <4>2
    <3>2. Answer.until - Window <= at
      BY <1>1, <1>3, <2>2, <3>1
    <3> QED
      BY <1>3, <1>4, <1>5, <3>2
  <2> QED
    BY <2>1, <2>2
<1> QED
  BY <1>1, <1>3, <1>4, <1>5 DEF LogsOK, NoGap

(* Every step keeps the logs without gaps.                                  *)
LEMMA LogsStep == ASSUME IInv, [Next]_vars PROVE LogsOK'
<1>1. LogsOK
  BY DEF IInv, LogsOK
<1>2. CASE Change \/ Tick \/ Publish
  BY <1>2, UpstreamLogs
<1>3. CASE StoreLogs
  BY <1>3, StoredLogs
<1>4. CASE \/ AskServices \/ AskStreaming \/ AskPolicy \/ AskLogs \/ AskListing
           \/ Fail \/ RejectServices \/ StoreServices \/ StoreStreaming \/ StorePolicy
           \/ StoreListing \/ UNCHANGED vars
  <2>1. UNCHANGED <<covered, paused, flow, logged, now>>
    BY <1>4, Frames DEF AskServices, AskStreaming, AskPolicy, AskLogs, AskListing, Told, Fail,
       RejectServices, StoreServices, StoreStreaming, StorePolicy, StoreListing,
       StoreWebhooks, StoreCredentials, StoreContacts, StoreIntegrations, StoreSettings,
       StoreDns, Replaced, Done, vars
  <2> QED
    BY <1>1, <2>1 DEF LogsOK, NoGap
<1> QED
  BY <1>2, <1>3, <1>4 DEF Next, WorkerStep
-----------------------------------------------------------------------------
(* The theorems.                                                            *)

(* The invariant holds initially.                                           *)
LEMMA InitIInv == Init => IInv
<1> SUFFICES ASSUME Init PROVE IInv
  OBVIOUS
<1>1. TypeOK
  <2>1. catalog \in [Service -> Offer \cup {Gone}]
    BY DEF Init
  <2>2. stream \in [LogType -> [on : BOOLEAN, stale : BOOLEAN]]
    BY Zenon DEF Init
  <2>3. covered \in -1 .. Horizon /\ now \in 0 .. Horizon
        /\ changes \in 0 .. MaxChanges /\ failures \in 0 .. MaxFailures
    BY ConstantsAssumption DEF Init
  <2>4. /\ streaming \in [LogType -> {"none", "on"}]
        /\ service \in [Service -> {"none", "present", "gone"}]
        /\ host \in [Service -> SUBSET Host]
        /\ row \in [Item -> {"none", "present", "summary", "gone"}]
    BY DEF Init
  <2>5. /\ source \in Sources /\ pc \in {"idle", "commit"} /\ text \in Text
        /\ logged = {} /\ items = {} /\ endpoint = {} /\ flow = {} /\ earlier = {}
        /\ newest \in Text \cup {Nobody}
    BY DEF Init
  <2>6. returned \in BOOLEAN /\ paused \in BOOLEAN
    BY DEF Init
  <2>7. \A i, j \in DOMAIN snapshots : snapshots[i] = snapshots[j] => i = j
    BY DEF Init
  <2> QED
    BY <2>1, <2>2, <2>3, <2>4, <2>5, <2>6, <2>7 DEF TypeOK
<1>2. ToldOK /\ TextsOK /\ SnapshotsAreInOrder
  BY DEF Init, ToldOK, TextsOK, SnapshotsAreInOrder
<1>3. covered <= now /\ PolicyIsCurrentUntilReturn /\ NoGap
  BY DEF Init, PolicyIsCurrentUntilReturn, PolicyIsCurrent, CurrentPolicy, NoGap
<1> QED
  BY <1>1, <1>2, <1>3 DEF IInv

(* It holds in every state.                                                 *)
LEMMA Invariance == Spec => []IInv
<1>1. IInv /\ [Next]_vars => IInv'
  BY TypeStep, ToldIsKept, PolicyStep, LogsStep DEF IInv, PolicyOK, LogsOK
<1> QED
  BY <1>1, InitIInv, PTL DEF Spec

(* The rows stay true of upstream, for any catalogs, texts, windows and     *)
(* delays: the policy that is current is the one retrieved last until the   *)
(* tailnet returns to an earlier one, and no record is missed while the     *)
(* runs are not too far apart, whatever fails or is stopped between them    *)
(* (sync_policy, sync_logs).                                                *)
THEOREM MirrorIsTrue == Spec => []MirrorInv
<1>1. IInv => MirrorInv
  BY DEF IInv, MirrorInv
<1> QED
  BY <1>1, Invariance, PTL
-----------------------------------------------------------------------------
(* The client.                                                              *)

(* The cached token is forgotten before it ends, an answer for a token      *)
(* takes one step at most, and a first attempt follows at once.             *)
Over == {"answered", "failed"}
CacheIsShort == token # Absent => until <= token
FetchIsShort == \A c \in Call : call[c].at = "fetch" => step <= call[c].since + 1
FirstIsAlive ==
    \A c \in Call : call[c].at = "send" /\ call[c].attempt = 1 => step < call[c].token

ClientIInv == ClientInv /\ CacheIsShort /\ FetchIsShort /\ FirstIsAlive
-----------------------------------------------------------------------------
\* A token is cached for at least a step less than it lives.
LEMMA CachedBound ==
    ASSUME NEW l \in Lifetime
    PROVE  /\ l \in Nat /\ l >= 2
           /\ CachedFor(l) \in Nat /\ CachedFor(l) + 1 <= l
BY ClientAssumption DEF CachedFor

\* A call holds what its place says.
LEMMA PlaceFields ==
    ASSUME ClientTypeOK, NEW c \in Call
    PROVE  /\ call[c].at = "fetch" => /\ call[c].since \in Nat /\ call[c].expires_in \in Lifetime
                                      /\ call[c].attempt = 0
           /\ call[c].at \in {"send", "sleep"} =>
                 call[c].token \in Nat /\ call[c].attempt \in Nat \ {0}
BY DEF ClientTypeOK, Whereabouts

\* The invariant holds at first.
LEMMA ClientInitial == ClientInit => ClientIInv
<1> SUFFICES ASSUME ClientInit PROVE ClientIInv
  OBVIOUS
<1>1. ClientTypeOK
  <2>1. Starting \in Whereabouts
    BY DEF Whereabouts, Starting
  <2>2. call \in [Call -> Whereabouts]
    BY <2>1 DEF ClientInit
  <2>3. step \in 0 .. LastStep /\ token \in Nat \cup {Absent} /\ until \in Nat
    BY ClientAssumption DEF ClientInit
  <2> QED
    BY <2>2, <2>3 DEF ClientInit, ClientTypeOK
<1> QED
  BY <1>1 DEF ClientInit, ClientIInv, ClientInv, CacheIsShort, FetchIsShort, FirstIsAlive,
      FirstUseIsAlive, DeniedIsRefused, ReturnedIsWhole, HasFailed, Starting

\* A step of one call leaves the others where they are.
LEMMA EndsAt ==
    ASSUME ClientTypeOK, NEW c \in Call, NEW p, Ends(c, p)
    PROVE  /\ call'[c] = p
           /\ \A d \in Call \ {c} : call'[d] = call[d]
           /\ p \in Whereabouts => call' \in [Call -> Whereabouts]
BY DEF ClientTypeOK, Ends

\* What the place a call moves to must satisfy.
Sound(p) ==
    /\ p \in Whereabouts
    /\ p.at = "fetch" => step <= p.since + 1
    /\ p.at = "send" /\ p.attempt = 1 => step < p.token
    /\ p.at = "failed" /\ capability_status(p.status) = "permission_denied"
          => revoked' \/ p.status = 403 \/ p.attempt > 1

\* What the step leaves of the shared state.
Keeps ==
    /\ step' = step /\ gathered' = gathered
    /\ closed' \in BOOLEAN /\ revoked' \in BOOLEAN /\ (revoked => revoked') /\ ~stale'
    /\ token' \in Nat \cup {Absent} /\ until' \in Nat /\ CacheIsShort'

\* What Ends leaves to show of the invariant: the call that moved.
LEMMA MovedCall ==
    ASSUME ClientIInv, NEW c \in Call, call[c].at \notin Over,
           NEW p, Ends(c, p), Sound(p), Keeps
    PROVE  ClientIInv'
<1> USE DEF ClientIInv, ClientInv
<1>0. p \in Whereabouts /\ ClientTypeOK /\ FirstUseIsAlive
  BY DEF Sound
<1>1. call'[c] = p /\ (\A d \in Call \ {c} : call'[d] = call[d]) /\ call' \in [Call -> Whereabouts]
  BY <1>0, EndsAt
<1>2. ClientTypeOK' /\ FirstUseIsAlive'
  <2>1. /\ step' = step /\ gathered' = gathered /\ closed' \in BOOLEAN
        /\ revoked' \in BOOLEAN /\ ~stale'
        /\ token' \in Nat \cup {Absent} /\ until' \in Nat
    BY DEF Keeps
  <2>2. step \in 0 .. LastStep /\ gathered \in {"open", "returned", "raised"}
    BY <1>0 DEF ClientTypeOK
  <2>3. stale' = FALSE
    BY <2>1
  <2> QED
    BY <1>1, <2>1, <2>2, <2>3 DEF ClientTypeOK, FirstUseIsAlive
<1>3. FetchIsShort' /\ FirstIsAlive' /\ CacheIsShort'
  BY <1>1 DEF FetchIsShort, FirstIsAlive, Sound, Keeps
<1>4. DeniedIsRefused'
  BY <1>1 DEF DeniedIsRefused, HasFailed, Sound, Keeps
<1>5. ReturnedIsWhole'
  BY <1>1 DEF ReturnedIsWhole, Over, Keeps
<1> QED
  BY <1>2, <1>3, <1>4, <1>5

\* The steps that move no call.
LEMMA OtherSteps ==
    ASSUME ClientIInv, Raise \/ Return \/ Close \/ Revoke \/ Pass
    PROVE  ClientIInv'
<1> USE DEF ClientIInv, ClientInv
<1>1. CASE Raise \/ Return \/ Close \/ Revoke
  <2>1. UNCHANGED <<step, token, until, call, stale>>
    BY <1>1 DEF Raise, Return, Close, Revoke
  <2>2. /\ gathered' \in {"open", "returned", "raised"}
        /\ closed' \in BOOLEAN /\ revoked' \in BOOLEAN
        /\ revoked => revoked'
    BY <1>1 DEF Raise, Return, Close, Revoke, ClientTypeOK
  <2>3. ClientTypeOK' /\ FirstUseIsAlive' /\ CacheIsShort' /\ FetchIsShort' /\ FirstIsAlive'
    BY <2>1, <2>2 DEF ClientTypeOK, FirstUseIsAlive, CacheIsShort, FetchIsShort, FirstIsAlive
  <2>4. DeniedIsRefused'
    BY <2>1, <2>2 DEF DeniedIsRefused, HasFailed
  <2>5. ReturnedIsWhole'
    BY <1>1 DEF Raise, Return, Close, Revoke, ReturnedIsWhole
  <2> QED
    BY <2>3, <2>4, <2>5
<1>2. CASE Pass
  <2>1. ClientTypeOK' /\ FirstUseIsAlive' /\ DeniedIsRefused' /\ ReturnedIsWhole' /\ CacheIsShort'
    BY <1>2, ClientAssumption
    DEF Pass, ClientTypeOK, FirstUseIsAlive, DeniedIsRefused, ReturnedIsWhole, CacheIsShort,
        HasFailed
  <2>2. FetchIsShort' /\ FirstIsAlive'
    BY <1>2, PlaceFields DEF Pass, FetchIsShort, FirstIsAlive, ClientTypeOK
  <2> QED
    BY <2>1, <2>2
<1> QED
  BY <1>1, <1>2

\* Every step of a call keeps the invariant.
LEMMA CallSteps ==
    ASSUME ClientIInv, NEW c \in Call,
           \/ UseCached(c) \/ AskToken(c) \/ TokenArrives(c) \/ TokenFails(c)
           \/ Answered(c) \/ AskAgain(c) \/ Wake(c) \/ Refused(c)
    PROVE  ClientIInv'
<1> USE DEF ClientIInv, ClientInv
<1>1. /\ step \in Nat /\ revoked \in BOOLEAN /\ closed \in BOOLEAN /\ until \in Nat
      /\ token \in Nat \cup {Absent} /\ ~stale
  BY DEF ClientTypeOK, FirstUseIsAlive
<1>2. call[c].at \notin Over
  BY DEF UseCached, AskToken, TokenArrives, TokenFails, Answered, AskAgain, Wake, Refused, Over
<1>3. ASSUME UNCHANGED <<step, token, until, gathered, closed>>, ~stale',
             revoked' \in BOOLEAN, revoked => revoked'
      PROVE  Keeps
  BY <1>1, <1>3 DEF Keeps, CacheIsShort
<1>4. CASE UseCached(c)
  <2>1. token \in Nat /\ step < token
    BY <1>1, <1>4 DEF UseCached, CacheIsShort
  <2>2. Sound(Sending(token, 1))
    BY <2>1 DEF Sending, Whereabouts, Sound
  <2>3. Ends(c, Sending(token, 1)) /\ Keeps
    BY <1>1, <1>3, <1>4 DEF UseCached
  <2> QED
    BY <1>2, <2>2, <2>3, MovedCall
<1>5. CASE AskToken(c)
  <2>1. PICK l \in Lifetime :
           Ends(c, [at |-> "fetch", since |-> step, expires_in |-> l, attempt |-> 0])
    BY <1>5 DEF AskToken
  <2>2. Sound([at |-> "fetch", since |-> step, expires_in |-> l, attempt |-> 0])
    BY <1>1 DEF Whereabouts, Sound
  <2>3. Keeps
    BY <1>1, <1>3, <1>5 DEF AskToken
  <2> QED
    BY <1>2, <2>1, <2>2, <2>3, MovedCall
<1>6. CASE TokenArrives(c)
  <2>1. /\ call[c].since \in Nat /\ call[c].expires_in \in Lifetime
        /\ step <= call[c].since + 1
    BY <1>6, PlaceFields DEF TokenArrives, FetchIsShort
  <2>2. /\ token' \in Nat /\ step < token'
        /\ until' \in Nat /\ until' <= token'
    BY <1>1, <1>6, <2>1, CachedBound DEF TokenArrives
  <2>3. Sound(Sending(token', 1))
    BY <2>2 DEF Sending, Whereabouts, Sound
  <2>4. Keeps
    BY <1>1, <1>6, <2>2 DEF TokenArrives, Keeps, CacheIsShort
  <2>5. Ends(c, Sending(token', 1))
    BY <1>6 DEF TokenArrives
  <2> QED
    BY <1>2, <2>3, <2>4, <2>5, MovedCall
<1>7. ASSUME NEW status \in Nat, NEW attempt \in Nat,
             Ends(c, [at |-> "failed", status |-> status, attempt |-> attempt]), Keeps,
             status = 401 => revoked' \/ attempt > 1
      PROVE  ClientIInv'
  <2>1. capability_status(status) = "permission_denied" => status \in {401, 403}
    BY DEF capability_status
  <2>2. Sound([at |-> "failed", status |-> status, attempt |-> attempt])
    BY <1>7, <2>1 DEF Sound, Whereabouts
  <2> QED
    BY <1>2, <1>7, <2>2, MovedCall
<1>8. ASSUME NEW status \in Nat, Fails(c, status), call[c].at \in {"fetch", "send", "sleep"},
             Keeps, status = 401 => revoked' \/ call[c].attempt > 1
      PROVE  ClientIInv'
  <2>1. call[c].attempt \in Nat
    BY <1>8, PlaceFields
  <2> QED
    BY <1>7, <1>8, <2>1 DEF Fails
<1>9. CASE TokenFails(c)
  <2>1. Keeps /\ call[c].at = "fetch"
    BY <1>1, <1>3, <1>9 DEF TokenFails
  <2>2. CASE Fails(c, Unwrapped)
    BY <1>8, <2>1, <2>2 DEF Unwrapped
  <2>3. CASE Fails(c, 401) /\ revoked' = TRUE
    BY <1>8, <2>1, <2>3
  <2> QED
    BY <1>9, <2>2, <2>3 DEF TokenFails
<1>10. CASE Answered(c)
  <2>1. /\ call[c].token \in Nat /\ call[c].attempt \in Nat \ {0} /\ call[c].at = "send"
        /\ call[c].attempt = 1 => Alive(c)
    BY <1>10, PlaceFields DEF Answered, FirstIsAlive, Alive
  <2>2. Keeps /\ revoked' = revoked
    BY <1>1, <1>3, <1>10, <2>1 DEF Answered
  <2>3. CASE Ends(c, [at |-> "answered"])
    <3>1. Sound([at |-> "answered"])
      BY DEF Whereabouts, Sound
    <3> QED
      BY <1>2, <2>2, <2>3, <3>1, MovedCall
  <2>4. ASSUME NEW s \in {Unwrapped} \cup (Permanent \ {401}), Fails(c, s)
        PROVE  ClientIInv'
    BY <1>8, <2>1, <2>2, <2>4 DEF Unwrapped, Permanent
  <2>5. CASE (~Alive(c) \/ revoked) /\ Fails(c, 401)
    BY <1>8, <2>1, <2>2, <2>5
  <2> QED
    BY <1>10, <2>3, <2>4, <2>5 DEF Answered
<1>11. CASE AskAgain(c)
  <2>1. Keeps /\ call[c].at = "send"
    BY <1>1, <1>3, <1>11 DEF AskAgain
  <2>2. CASE Ends(c, [call[c] EXCEPT !.at = "sleep"])
    <3>1. Sound([call[c] EXCEPT !.at = "sleep"])
      BY <2>1 DEF ClientTypeOK, Whereabouts, Sound
    <3> QED
      BY <1>2, <2>1, <2>2, <3>1, MovedCall
  <2>3. CASE Fails(c, Network)
    BY <1>8, <2>1, <2>3 DEF Network
  <2>4. CASE Fails(c, Unwrapped)
    BY <1>8, <2>1, <2>4 DEF Unwrapped
  <2> QED
    BY <1>11, <2>2, <2>3, <2>4 DEF AskAgain
<1>12. CASE Wake(c)
  <2>1. call[c].token \in Nat /\ call[c].attempt \in Nat \ {0} /\ call[c].at = "sleep"
    BY <1>12, PlaceFields DEF Wake
  <2>2. Keeps
    BY <1>1, <1>3, <1>12 DEF Wake
  <2>3. CASE Fails(c, 503)
    BY <1>8, <2>1, <2>2, <2>3
  <2>4. CASE Ends(c, Sending(call[c].token, call[c].attempt + 1))
    <3>1. Sound(Sending(call[c].token, call[c].attempt + 1))
      BY <2>1 DEF Sending, Whereabouts, Sound
    <3> QED
      BY <1>2, <2>2, <2>4, <3>1, MovedCall
  <2> QED
    BY <1>12, <2>3, <2>4 DEF Wake
<1>13. CASE Refused(c)
  <2>1. Keeps /\ Ends(c, [at |-> "failed", status |-> Unwrapped, attempt |-> 0])
    BY <1>1, <1>3, <1>13 DEF Refused
  <2> QED
    BY <1>7, <2>1 DEF Unwrapped
<1> QED
  BY <1>4, <1>5, <1>6, <1>9, <1>10, <1>11, <1>12, <1>13
-----------------------------------------------------------------------------
(* Of any number of calls, with tokens of any lifetime: a first attempt     *)
(* never uses a token that has ended, a source is shown as denied only      *)
(* where the server refuses it, and a gather that returned is whole.        *)
THEOREM ClientCorrect == ClientSpec => []ClientInv
<1>1. ClientIInv /\ [ClientNext]_clientVars => ClientIInv'
  <2>1. CASE UNCHANGED clientVars
    BY <2>1 DEF clientVars, ClientIInv, ClientInv, ClientTypeOK, FirstUseIsAlive,
        DeniedIsRefused, ReturnedIsWhole, CacheIsShort, FetchIsShort, FirstIsAlive, HasFailed
  <2>2. CASE ClientNext
    BY <2>2, CallSteps, OtherSteps DEF ClientNext
  <2> QED
    BY <2>1, <2>2
<1>2. ClientIInv => ClientInv
  BY DEF ClientIInv
<1> QED
  BY <1>1, <1>2, ClientInitial, PTL DEF ClientSpec
-----------------------------------------------------------------------------
(* The inventory of devices.  Its invariant adds what the workers under way *)
(* have been told and have loaded.                                          *)

\* What upstream lists.
TailnetOK ==
    /\ account \subseteq User /\ node \in [Device -> Node \cup {Unlisted}]
    /\ attribute \in [Device -> Value] /\ invites \in [Device -> SUBSET Invite]

\* What is stored.
UsersOK == user \in [User -> {"absent", "active", "inactive"}]
DevicesOK == device \in [Device -> Row \cup {NoRow}]
\* As long as every event starts where the one before it ended, none is misdated.
EventFits(event, shown) ==
    /\ event.sound \in BOOLEAN /\ DOMAIN event.last = TrackedField
    /\ event.misdated \subseteq TrackedField /\ (event.sound => event.misdated = {})
    /\ \A f \in TrackedField \ event.misdated : event.last[f] = Snapshot(shown)[f]
HistoryOK == \A d \in Device : device[d] # NoRow => EventFits(history[d], device[d])
EventOK(x) ==
    /\ DOMAIN x = {"last", "sound", "misdated"} /\ x.sound \in BOOLEAN
    /\ (x.sound => x.misdated = {}) /\ x.misdated \subseteq TrackedField
SoundOK == \A d \in Device : EventOK(history[d])
PostureRow == [status : {"none", "unknown", "stale", "available"}, succeeded : BOOLEAN,
               present : Value \cup {NoOne}]
InviteRow == [device : Device \cup {NoOne}, present : BOOLEAN, stale : BOOLEAN]
TablesOK ==
    /\ UsersOK /\ DevicesOK /\ HistoryOK /\ SoundOK
    /\ posture \in [Device -> PostureRow] /\ invite \in [Invite -> InviteRow]

\* Where the workers are.
StagesOK ==
    /\ family \in Families
    /\ stage \in [Worker -> {"idle", "fetch", "commit"}]
    /\ listed \subseteq User
    /\ todo \in [Worker -> SUBSET Device] /\ overtaken \subseteq Device
    /\ newer \in [Device -> SUBSET TrackedField]
    /\ deviceChanges \in 0 .. MaxDeviceChanges /\ deviceFailures \in 0 .. MaxDeviceFailures

(* A row that a worker has loaded is still there, for rows are never        *)
(* deleted.                                                                 *)
LoadedIsThere ==
    /\ loaded \in [Worker -> [Device -> Row \cup {NoRow}]]
    /\ \A w \in Worker, d \in Device : loaded[w][d] # NoRow => device[d] # NoRow

(* The devices worker was told a listing, the routes worker the routes of   *)
(* rows it has loaded, and nobody but the worker at its commit knows them.  *)
AnswersOK ==
    /\ DOMAIN answer = Worker
    /\ stage["devices"] = "commit" =>
          \A d \in Device : answer["devices"][d].value \in Node \cup {Unlisted}
    /\ stage["routes"] # "commit" => \A d \in Device : answer["routes"][d] = Unasked
    /\ \A d \in Device :
          /\ answer["routes"][d].ok =>
                answer["routes"][d].value \subseteq Route /\ loaded["routes"][d] # NoRow
          /\ answer["posture"][d].ok => answer["posture"][d].value \in Value

DeviceIInv ==
    TailnetOK /\ TablesOK /\ StagesOK /\ LoadedIsThere /\ AnswersOK /\ RolesAgree

\* What may not happen in a step.
SoundUntilOvertaken ==
    \A d \in Device : history[d].sound /\ ~history'[d].sound => d \in overtaken'

ConfirmedByAnswer ==
    \A i \in Invite :
       /\ invite'[i].present /\ ~invite'[i].stale
       /\ invite'[i] # invite[i]
       => \E d \in todo["device_invites"] :
             /\ answer["device_invites"][d].ok
             /\ invite'[i].device = d /\ i \in answer["device_invites"][d].value

DeviceSafely == DeviceIInv' /\ SoundUntilOvertaken /\ ConfirmedByAnswer
-----------------------------------------------------------------------------
(* Rows of devices.                                                         *)

\* The columns of a device.
LEMMA DeviceRowParts ==
    ASSUME NEW x \in Row
    PROVE  /\ DOMAIN x = {"active", "raw", "owner", "advertised", "roles", "detail"}
           /\ x.active \in BOOLEAN /\ x.raw \in Node /\ x.owner \in User \cup {NoOne}
           /\ x.advertised \subseteq Route /\ x.roles \subseteq Role /\ x.detail \in BOOLEAN
           /\ x # NoRow
<1>1. DOMAIN x = {"active", "raw", "owner", "advertised", "roles", "detail"}
  BY DEF Row
<1>2. DOMAIN NoRow = {"active"}
  BY DEF NoRow
<1>3. x # NoRow
  BY <1>1, <1>2
<1> QED
  BY <1>1, <1>3 DEF Row

\* A row with these columns.
LEMMA DeviceRowIs ==
    ASSUME NEW x, x = [f \in DOMAIN x |-> x[f]],
           DOMAIN x = {"active", "raw", "owner", "advertised", "roles", "detail"},
           x.active \in BOOLEAN, x.raw \in Node, x.owner \in User \cup {NoOne},
           x.advertised \subseteq Route, x.roles \subseteq Role, x.detail \in BOOLEAN
    PROVE  x \in Row
BY DEF Row

\* Nothing that is listed is unlisted, and a listing has routes.
LEMMA ListedNode ==
    ASSUME NEW x \in Node
    PROVE  x # Unlisted /\ x.routes \subseteq Route
<1>1. x.routes \subseteq Route
  BY DeviceAssumption
<1>2. Unlisted.routes = {"gone"} /\ "gone" \notin Route
  BY DEF Unlisted, Route
<1> QED
  BY <1>1, <1>2

\* The roles of a device are roles.
LEMMA ClassifyOf == ASSUME NEW raw, NEW routes PROVE Classify(raw, routes) \subseteq Role
BY DEF Classify, Role

\* The devices worker writes a row.
LEMMA DeviceRowOf ==
    ASSUME DeviceIInv, stage["devices"] = "commit", NEW d \in Device,
           NEW owner \in User \cup {NoOne},
           NEW x, x = DeviceRow(d, owner)
    PROVE  /\ x \in Row \cup {NoRow}
           /\ device[d] # NoRow => x # NoRow
           /\ answer["devices"][d].value # Unlisted =>
                 /\ x \in Row
                 /\ \/ x.roles = Classify(x.raw, x.advertised)
                    \/ x.raw.routes # {} /\ x.roles = Classify(x.raw, x.raw.routes)
           /\ answer["devices"][d].value = Unlisted /\ device[d] # NoRow =>
                 /\ x.raw = device[d].raw /\ x.owner = device[d].owner
                 /\ x.advertised = device[d].advertised /\ x.roles = device[d].roles
           /\ answer["devices"][d].value = Unlisted /\ device[d] = NoRow => x = NoRow
<1> DEFINE item == answer["devices"][d].value
           old == device[d]
           stored == IF old = NoRow THEN {} ELSE old.advertised
           roles == Classify(item, IF item.routes # {} THEN item.routes ELSE stored)
           detail == answer["devices"][d].ok \/ (old # NoRow /\ old.detail)
<1>1. item \in Node \cup {Unlisted} /\ old \in Row \cup {NoRow}
  BY DEF DeviceIInv, AnswersOK, TablesOK, DevicesOK
<1>2. CASE item = Unlisted
  <2>1. x = IF old = NoRow THEN NoRow ELSE [old EXCEPT !.active = FALSE]
    BY <1>2 DEF DeviceRow
  <2>2. CASE old = NoRow
    BY <1>2, <2>1, <2>2
  <2>3. CASE old \in Row
    <3>1. old # NoRow
      BY <2>3, DeviceRowParts
    <3>2. x = [old EXCEPT !.active = FALSE]
      BY <2>1, <3>1
    <3>3. x \in Row
      BY <2>3, <3>2 DEF Row
    <3>4. /\ x.raw = old.raw /\ x.owner = old.owner
          /\ x.advertised = old.advertised /\ x.roles = old.roles
      BY <2>3, <3>2, DeviceRowParts
    <3>5. x # NoRow
      BY <3>3, DeviceRowParts
    <3> QED
      BY <1>2, <3>1, <3>3, <3>4, <3>5
  <2> QED
    BY <1>1, <2>2, <2>3
<1>3. CASE item \in Node
  <2>1. item # Unlisted
    BY <1>3, ListedNode
  <2>2. x = [active |-> TRUE, raw |-> item, owner |-> owner, advertised |-> stored,
             roles |-> roles, detail |-> detail]
    BY <2>1 DEF DeviceRow
  <2>3. stored \subseteq Route
    BY <1>1, DeviceRowParts
  <2>4. detail \in BOOLEAN
    OBVIOUS
  <2>5. roles \subseteq Role
    BY ClassifyOf
  <2> HIDE DEF stored, roles, detail
  <2>6. x \in Row
    BY <1>3, <2>2, <2>3, <2>4, <2>5 DEF Row
  <2>7. x.raw = item /\ x.advertised = stored /\ x.roles = roles
    BY <2>2
  <2>8. x # NoRow
    BY <2>6, DeviceRowParts
  <2>9. \/ roles = Classify(item, stored)
        \/ item.routes # {} /\ roles = Classify(item, item.routes)
    BY DEF roles
  <2> QED
    BY <2>1, <2>6, <2>7, <2>8, <2>9
<1> QED
  BY <1>1, <1>2, <1>3
\* The fields of a snapshot.
LEMMA SnapshotParts ==
    ASSUME NEW x
    PROVE  /\ Snapshot(x) = [f \in DOMAIN Snapshot(x) |-> Snapshot(x)[f]]
           /\ DOMAIN Snapshot(x) = {"owner", "tags", "advertised", "roles"}
           /\ Snapshot(x)["owner"] = x.owner /\ Snapshot(x)["tags"] = x.raw.tags
           /\ Snapshot(x)["advertised"] = x.advertised /\ Snapshot(x)["roles"] = x.roles
BY DEF Snapshot

\* What an event says.
LEMMA EventParts ==
    ASSUME NEW d \in Device, NEW before, NEW after, NEW later, EventOK(history[d]),
           NEW event, event = RecordChanges(d, before, after, later)
    PROVE  /\ DOMAIN event = {"last", "sound", "misdated"} /\ event.sound \in BOOLEAN
           /\ DOMAIN event.last = TrackedField
           /\ \A f \in TrackedField :
                 event.last[f] = IF f \in Changed(before, after) \ later THEN Snapshot(after)[f]
                                 ELSE history[d].last[f]
           /\ event.sound <=>
                 /\ history[d].sound /\ Changed(before, after) \cap later = {}
                 /\ \A f \in Changed(before, after) : history[d].last[f] = Snapshot(before)[f]
           /\ event.misdated = (history[d].misdated \ Changed(before, after))
                                  \cup (Changed(before, after) \cap later)
           /\ EventOK(event)
<1> DEFINE changed == Changed(before, after)
           old == Snapshot(before)
           new == Snapshot(after)
<1>1. event = [last |-> [f \in TrackedField |-> IF f \in changed \ later THEN new[f]
                                                ELSE history[d].last[f]],
               sound |-> /\ history[d].sound /\ changed \cap later = {}
                         /\ \A f \in changed : history[d].last[f] = old[f],
               misdated |-> (history[d].misdated \ changed) \cup (changed \cap later)]
  BY DEF RecordChanges
<1>2. changed \subseteq TrackedField
  BY DEF Changed
<1> HIDE DEF changed, old, new
<1>3. DOMAIN event = {"last", "sound", "misdated"}
  BY <1>1
<1>4. event.last = [f \in TrackedField |-> IF f \in changed \ later THEN new[f]
                                           ELSE history[d].last[f]]
  BY <1>1
<1>5. event.sound = (/\ history[d].sound /\ changed \cap later = {}
                     /\ \A f \in changed : history[d].last[f] = old[f])
  BY <1>1
<1>6. event.misdated = (history[d].misdated \ changed) \cup (changed \cap later)
  BY <1>1
<1>7. event.sound \in BOOLEAN /\ (event.sound => history[d].sound /\ changed \cap later = {})
  BY <1>5
<1>8. event.misdated \subseteq TrackedField /\ (event.sound => event.misdated = {})
  BY <1>2, <1>6, <1>7 DEF EventOK
<1>9. EventOK(event)
  BY <1>3, <1>7, <1>8 DEF EventOK
<1>10. \A f \in TrackedField :
         event.last[f] = IF f \in changed \ later THEN new[f] ELSE history[d].last[f]
  BY <1>4
<1>11. DOMAIN event.last = TrackedField
  BY <1>4
<1> QED
  BY <1>3, <1>5, <1>6, <1>7, <1>9, <1>10, <1>11 DEF changed, old, new

(* The event of a worker that has loaded the row as it is: it fits what is  *)
(* written.                                                                 *)
LEMMA RecordedDevice ==
    ASSUME HistoryOK, NEW d \in Device, device[d] # NoRow, EventOK(history[d]), NEW after,
           NEW event, event = RecordChanges(d, device[d], after, {})
    PROVE  EventFits(event, after) /\ EventOK(event) /\ (event.sound <=> history[d].sound)
<1> DEFINE changed == Changed(device[d], after)
           old == Snapshot(device[d])
           new == Snapshot(after)
<1>1. /\ DOMAIN event.last = TrackedField /\ event.sound \in BOOLEAN /\ EventOK(event)
      /\ \A f \in TrackedField :
            event.last[f] = IF f \in changed THEN new[f] ELSE history[d].last[f]
      /\ event.sound <=> history[d].sound /\ \A f \in changed : history[d].last[f] = old[f]
      /\ event.misdated = history[d].misdated \ changed
  BY EventParts
<1>2. \A f \in TrackedField : f \in changed <=> old[f] # new[f]
  BY DEF Changed
<1>3. changed \subseteq TrackedField
  BY DEF Changed
<1>4. /\ history[d].sound => history[d].misdated = {}
      /\ \A f \in TrackedField \ history[d].misdated : history[d].last[f] = old[f]
  BY DEF HistoryOK, EventFits
<1> HIDE DEF changed, old, new
<1>5. \A f \in TrackedField \ event.misdated : event.last[f] = new[f]
  BY <1>1, <1>2, <1>4
<1>6. event.sound <=> history[d].sound
  BY <1>1, <1>3, <1>4
<1> QED
  BY <1>1, <1>5, <1>6 DEF EventFits, EventOK, new

(* The routes worker writes the columns that it changed; its event fits     *)
(* what the row becomes, whatever the devices worker did to the others.     *)
LEMMA RoutedRow ==
    ASSUME DeviceIInv, NEW d \in Device, answer["routes"][d].ok,
           NEW x, x = Written(device[d], loaded["routes"][d], Routed(d)),
           NEW event, event = RecordChanges(d, loaded["routes"][d], Routed(d), newer[d])
    PROVE  /\ x \in Row /\ device[d] # NoRow
           /\ EventFits(event, x) /\ EventOK(event)
           /\ device[d] = loaded["routes"][d] => x.roles = Classify(x.raw, x.advertised)
           /\ device[d] = loaded["routes"][d] /\ newer[d] = {} =>
                 (history[d].sound => event.sound)
<1> DEFINE before == loaded["routes"][d]
           routes == answer["routes"][d].value
           after == Routed(d)
           current == device[d]
<1>1. routes \subseteq Route /\ before # NoRow /\ "routes" \in Worker
  BY DEF DeviceIInv, AnswersOK, Worker
<1>2. before \in Row /\ current \in Row /\ current # NoRow
  BY <1>1, DeviceRowParts DEF DeviceIInv, LoadedIsThere, TablesOK, DevicesOK
<1>3. after = [before EXCEPT !.advertised = routes, !.roles = Classify(before.raw, routes)]
  BY DEF Routed
<1>4. /\ after.active = before.active /\ after.raw = before.raw /\ after.owner = before.owner
      /\ after.detail = before.detail
      /\ after.advertised = routes /\ after.roles = Classify(before.raw, routes)
  BY <1>2, <1>3, DeviceRowParts
<1>5. after.roles \subseteq Role
  BY <1>4, ClassifyOf
<1>6. x = [f \in DOMAIN current |-> IF before[f] = after[f] THEN current[f] ELSE after[f]]
  BY DEF Written
<1> HIDE DEF before, routes, after, current
<1>7. DOMAIN current = {"active", "raw", "owner", "advertised", "roles", "detail"}
  BY <1>2, DeviceRowParts
<1>8. /\ x.active = current.active /\ x.raw = current.raw /\ x.owner = current.owner
      /\ x.detail = current.detail
      /\ x.advertised = (IF before.advertised = after.advertised THEN current.advertised
                         ELSE after.advertised)
      /\ x.roles = (IF before.roles = after.roles THEN current.roles ELSE after.roles)
  BY <1>4, <1>6, <1>7
<1>9. x \in Row
  <2>1. x = [f \in DOMAIN x |-> x[f]] /\ DOMAIN x = DOMAIN current
    BY <1>6
  <2>2. x.advertised \subseteq Route /\ x.roles \subseteq Role
    BY <1>1, <1>2, <1>4, <1>5, <1>8, DeviceRowParts
  <2>3. /\ x.active \in BOOLEAN /\ x.raw \in Node /\ x.owner \in User \cup {NoOne}
        /\ x.detail \in BOOLEAN
    BY <1>2, <1>8, DeviceRowParts
  <2> QED
    BY <1>7, <2>1, <2>2, <2>3, DeviceRowIs
<1> DEFINE old == Snapshot(before)
           new == Snapshot(after)
           changed == Changed(before, after)
<1>10. EventOK(history[d])
  BY DEF DeviceIInv, TablesOK, SoundOK
<1>11. /\ history[d].sound => history[d].misdated = {}
       /\ \A f \in TrackedField \ history[d].misdated : history[d].last[f] = Snapshot(current)[f]
  BY <1>2 DEF DeviceIInv, TablesOK, HistoryOK, EventFits, current
<1>12. /\ DOMAIN event.last = TrackedField /\ event.sound \in BOOLEAN /\ EventOK(event)
       /\ \A f \in TrackedField :
             event.last[f] = IF f \in changed \ newer[d] THEN new[f] ELSE history[d].last[f]
       /\ event.sound <=> /\ history[d].sound /\ changed \cap newer[d] = {}
                          /\ \A f \in changed : history[d].last[f] = old[f]
       /\ event.misdated = (history[d].misdated \ changed) \cup (changed \cap newer[d])
  BY <1>10, EventParts DEF before, after
<1>13. \A f \in TrackedField : Snapshot(x)[f] = IF f \in changed THEN new[f] ELSE Snapshot(current)[f]
  <2>1. /\ old["owner"] = before.owner /\ old["tags"] = before.raw.tags
        /\ old["advertised"] = before.advertised /\ old["roles"] = before.roles
    BY SnapshotParts
  <2>2. /\ new["owner"] = after.owner /\ new["tags"] = after.raw.tags
        /\ new["advertised"] = after.advertised /\ new["roles"] = after.roles
    BY SnapshotParts
  <2>3. /\ Snapshot(current)["owner"] = current.owner
        /\ Snapshot(current)["tags"] = current.raw.tags
        /\ Snapshot(current)["advertised"] = current.advertised
        /\ Snapshot(current)["roles"] = current.roles
    BY SnapshotParts
  <2>4. /\ Snapshot(x)["owner"] = x.owner /\ Snapshot(x)["tags"] = x.raw.tags
        /\ Snapshot(x)["advertised"] = x.advertised /\ Snapshot(x)["roles"] = x.roles
    BY SnapshotParts
  <2>5. \A f \in TrackedField : f \in changed <=> old[f] # new[f]
    BY DEF Changed
  <2> HIDE DEF old, new, changed
  <2>6. /\ "owner" \notin changed /\ "tags" \notin changed
        /\ ("advertised" \in changed <=> before.advertised # after.advertised)
        /\ ("roles" \in changed <=> before.roles # after.roles)
    BY <1>4, <2>1, <2>2, <2>5 DEF TrackedField
  <2> QED
    BY <1>8, <2>2, <2>3, <2>4, <2>6 DEF TrackedField
<1>14. changed \subseteq TrackedField
  BY DEF Changed
<1>15. EventFits(event, x)
  <2> HIDE DEF old, new, changed
  <2>1. \A f \in TrackedField \ event.misdated : event.last[f] = Snapshot(x)[f]
    BY <1>11, <1>12, <1>13
  <2> QED
    BY <1>12, <2>1 DEF EventFits, EventOK
<1>16. ASSUME current = before PROVE x.roles = Classify(x.raw, x.advertised)
  BY <1>4, <1>8, <1>16
<1>17. ASSUME current = before, newer[d] = {}, history[d].sound PROVE event.sound
  <2>1. Snapshot(current) = old
    BY <1>17
  <2> HIDE DEF old, new, changed
  <2> QED
    BY <1>11, <1>12, <1>14, <1>17, <2>1
<1> QED
  BY <1>2, <1>9, <1>12, <1>15, <1>16, <1>17 DEF before, current
-----------------------------------------------------------------------------
(* What the steps of the workers have in common.                            *)

\* Rows of devices that nobody writes.
LEMMA DevicesAlone ==
    ASSUME DeviceIInv, UNCHANGED <<device, history, overtaken>>
    PROVE  DevicesOK' /\ HistoryOK' /\ SoundOK' /\ RolesAgree' /\ SoundUntilOvertaken
BY DEF DeviceIInv, TablesOK, DevicesOK, HistoryOK, SoundOK, RolesAgree, SoundUntilOvertaken

\* Invites that nobody writes.
LEMMA InvitesAlone == ASSUME UNCHANGED invite PROVE ConfirmedByAnswer
BY DEF ConfirmedByAnswer

\* A worker that begins, or goes on to its commit.
LEMMA StageMoves ==
    ASSUME StagesOK, NEW w \in Worker, NEW to \in {"idle", "fetch", "commit"}, Goes(w, to)
    PROVE  /\ stage' \in [Worker -> {"idle", "fetch", "commit"}]
           /\ stage'[w] = to /\ \A v \in Worker \ {w} : stage'[v] = stage[v]
BY DEF StagesOK, Goes

\* A worker that ends knows nothing any more.
LEMMA Finished ==
    ASSUME DeviceIInv, NEW w \in Worker, Finishes(w),
           \A d \in Device : device[d] # NoRow => device'[d] # NoRow
    PROVE  /\ stage' \in [Worker -> {"idle", "fetch", "commit"}]
           /\ listed' \subseteq User /\ todo' \in [Worker -> SUBSET Device]
           /\ LoadedIsThere' /\ AnswersOK'
<1>1. stage' \in [Worker -> {"idle", "fetch", "commit"}]
      /\ stage'[w] = "idle" /\ \A v \in Worker \ {w} : stage'[v] = stage[v]
  BY StageMoves DEF DeviceIInv, Finishes
<1>2. listed' \subseteq User /\ todo' \in [Worker -> SUBSET Device]
  BY DEF DeviceIInv, StagesOK, Finishes
<1>3. loaded' = [loaded EXCEPT ![w] = [d \in Device |-> NoRow]]
      /\ answer' = [answer EXCEPT ![w] = [d \in Device |-> Unasked]]
  BY DEF Finishes
<1>4. LoadedIsThere'
  <2>1. loaded' \in [Worker -> [Device -> Row \cup {NoRow}]]
    BY <1>3 DEF DeviceIInv, LoadedIsThere
  <2>2. \A v \in Worker, d \in Device : loaded'[v][d] # NoRow => loaded[v][d] # NoRow
    BY <1>3 DEF DeviceIInv, LoadedIsThere
  <2> QED
    BY <2>1, <2>2 DEF DeviceIInv, LoadedIsThere
<1>5. AnswersOK'
  <2>1. /\ DOMAIN answer' = Worker /\ "devices" \in Worker /\ "routes" \in Worker
        /\ "posture" \in Worker
    BY <1>3 DEF DeviceIInv, AnswersOK, Worker
  <2>2. \A v \in Worker \ {w} : answer'[v] = answer[v] /\ loaded'[v] = loaded[v]
    BY <1>3, <2>1 DEF DeviceIInv, LoadedIsThere, AnswersOK
  <2>3. \A d \in Device : answer'[w][d] = Unasked /\ ~answer'[w][d].ok
    BY <1>3, <2>1 DEF DeviceIInv, AnswersOK, Unasked
  <2>4. stage'["devices"] = "commit" =>
           \A d \in Device : answer'["devices"][d].value \in Node \cup {Unlisted}
    BY <1>1, <2>1, <2>2 DEF DeviceIInv, AnswersOK
  <2>5. stage'["routes"] # "commit" => \A d \in Device : answer'["routes"][d] = Unasked
    BY <1>1, <2>1, <2>2, <2>3 DEF DeviceIInv, AnswersOK
  <2>6. \A d \in Device :
           /\ answer'["routes"][d].ok =>
                 answer'["routes"][d].value \subseteq Route /\ loaded'["routes"][d] # NoRow
           /\ answer'["posture"][d].ok => answer'["posture"][d].value \in Value
    BY <2>1, <2>2, <2>3 DEF DeviceIInv, AnswersOK
  <2> QED
    BY <2>1, <2>4, <2>5, <2>6 DEF AnswersOK
<1> QED
  BY <1>1, <1>2, <1>4, <1>5

\* Failed requests are counted up to the bound.
LEMMA FailuresCount ==
    ASSUME DeviceIInv, NEW failing \in SUBSET Device,
           deviceFailures + Cardinality(failing) <= MaxDeviceFailures,
           deviceFailures' = deviceFailures + Cardinality(failing)
    PROVE  deviceFailures' \in 0 .. MaxDeviceFailures
<1>1. Cardinality(failing) \in Nat
  BY DeviceAssumption, FS_Subset, FS_CardinalityType
<1>2. MaxDeviceFailures \in Nat /\ deviceFailures \in Nat
  BY DeviceAssumption DEF DeviceIInv, StagesOK
<1> QED
  BY <1>1, <1>2

\* Rows that a worker loads are there.
LEMMA RowsLoaded ==
    ASSUME DeviceIInv, NEW w \in Worker, Loads(w), device' = device
    PROVE  LoadedIsThere' /\ \A v \in Worker \ {w} : loaded'[v] = loaded[v]
<1>1. loaded' = [loaded EXCEPT ![w] = [d \in Device |->
                    IF device[d].active THEN device[d] ELSE NoRow]]
  BY DEF Loads
<1>2. loaded \in [Worker -> [Device -> Row \cup {NoRow}]] /\ device \in [Device -> Row \cup {NoRow}]
  BY DEF DeviceIInv, LoadedIsThere, TablesOK, DevicesOK
<1>3. loaded' \in [Worker -> [Device -> Row \cup {NoRow}]]
  <2>1. [d \in Device |-> IF device[d].active THEN device[d] ELSE NoRow]
           \in [Device -> Row \cup {NoRow}]
    BY <1>2
  <2> QED
    BY <1>1, <1>2, <2>1
<1>4. ASSUME NEW v \in Worker, NEW d \in Device, loaded'[v][d] # NoRow
      PROVE  device[d] # NoRow
  BY <1>1, <1>2, <1>4 DEF DeviceIInv, LoadedIsThere
<1>5. \A v \in Worker \ {w} : loaded'[v] = loaded[v]
  BY <1>1, <1>2
<1> QED
  BY <1>3, <1>4, <1>5 DEF LoadedIsThere
-----------------------------------------------------------------------------
(* One lemma for each step of a worker.                                     *)

\* A worker fails, is cancelled, or its process dies.
LEMMA WorkerFailsSafely == ASSUME DeviceIInv, NEW w \in Worker, WorkerFails(w) PROVE DeviceSafely
<1>1. Finishes(w) /\ UNCHANGED <<tables, overtaken, newer>> /\ UNCHANGED <<tailnet, family, deviceChanges>>
      /\ deviceFailures < MaxDeviceFailures /\ deviceFailures' = deviceFailures + 1
  BY DEF WorkerFails, Stay
<1>2. TailnetOK' /\ TablesOK' /\ RolesAgree' /\ SoundUntilOvertaken /\ ConfirmedByAnswer
  BY <1>1, DevicesAlone, InvitesAlone DEF DeviceIInv, TailnetOK, TablesOK, UsersOK, tables, tailnet
<1>3. LoadedIsThere' /\ AnswersOK' /\ StagesOK'
  <2>1. \A d \in Device : device[d] # NoRow => device'[d] # NoRow
    BY <1>1 DEF tables
  <2>2. deviceFailures' \in 0 .. MaxDeviceFailures
    BY <1>1, DeviceAssumption DEF DeviceIInv, StagesOK
  <2> QED
    BY <1>1, <2>1, <2>2, Finished DEF DeviceIInv, StagesOK
<1> QED
  BY <1>2, <1>3 DEF DeviceSafely, DeviceIInv
\* Whoever only goes on to his commit, or to his request.
LEMMA GoesOnSafely ==
    ASSUME DeviceIInv, NEW w \in Worker, NEW to \in {"idle", "fetch", "commit"}, Goes(w, to),
           w = "devices" /\ to = "commit" =>
              \A d \in Device : answer'["devices"][d].value \in Node \cup {Unlisted},
           DOMAIN answer' = Worker, \A v \in Worker \ {w} : answer'[v] = answer[v],
           w = "routes" => \A d \in Device :
              answer'["routes"][d] # Unasked => to = "commit",
           w = "routes" => \A d \in Device :
              answer'["routes"][d].ok =>
                 answer'["routes"][d].value \subseteq Route /\ loaded'["routes"][d] # NoRow,
           w = "posture" => \A d \in Device :
              answer'["posture"][d].ok => answer'["posture"][d].value \in Value,
           \A v \in Worker \ {w} : loaded'[v] = loaded[v]
    PROVE  AnswersOK' /\ stage' \in [Worker -> {"idle", "fetch", "commit"}]
<1>1. /\ stage' \in [Worker -> {"idle", "fetch", "commit"}]
      /\ stage'[w] = to /\ \A v \in Worker \ {w} : stage'[v] = stage[v]
  BY StageMoves DEF DeviceIInv
<1>2. "devices" \in Worker /\ "routes" \in Worker /\ "posture" \in Worker
  BY DEF Worker
<1>3. stage'["devices"] = "commit" =>
         \A d \in Device : answer'["devices"][d].value \in Node \cup {Unlisted}
  BY <1>1, <1>2 DEF DeviceIInv, AnswersOK
<1>4. stage'["routes"] # "commit" => \A d \in Device : answer'["routes"][d] = Unasked
  BY <1>1, <1>2 DEF DeviceIInv, AnswersOK
<1>5. \A d \in Device : answer'["routes"][d].ok =>
         answer'["routes"][d].value \subseteq Route /\ loaded'["routes"][d] # NoRow
  BY <1>2 DEF DeviceIInv, AnswersOK
<1>6. \A d \in Device : answer'["posture"][d].ok => answer'["posture"][d].value \in Value
  BY <1>2 DEF DeviceIInv, AnswersOK
<1> QED
  BY <1>1, <1>3, <1>4, <1>5, <1>6 DEF AnswersOK

\* The users worker is told a list.
LEMMA FetchUsersSafely == ASSUME DeviceIInv, FetchUsers PROVE DeviceSafely
<1>1. /\ Goes("users", "commit") /\ listed' = account /\ UNCHANGED <<tailnet, family, deviceChanges>>
      /\ UNCHANGED <<tables, loaded, answer, todo, overtaken, newer, deviceFailures>>
      /\ "users" \in Worker
  BY DEF FetchUsers, Stay, Worker
<1>2. TailnetOK' /\ TablesOK' /\ RolesAgree' /\ SoundUntilOvertaken /\ ConfirmedByAnswer
  BY <1>1, DevicesAlone, InvitesAlone DEF DeviceIInv, TailnetOK, TablesOK, UsersOK, tables, tailnet
<1>3. LoadedIsThere'
  BY <1>1 DEF DeviceIInv, LoadedIsThere, tables
<1>4. AnswersOK' /\ stage' \in [Worker -> {"idle", "fetch", "commit"}]
  BY <1>1, GoesOnSafely DEF DeviceIInv, AnswersOK
<1>5. StagesOK'
  BY <1>1, <1>4 DEF DeviceIInv, StagesOK, TailnetOK
<1> QED
  BY <1>2, <1>3, <1>4, <1>5 DEF DeviceSafely, DeviceIInv

\* The users worker stores it.
LEMMA StoreUsersSafely == ASSUME DeviceIInv, StoreUsers PROVE DeviceSafely
<1>1. /\ Finishes("users") /\ UNCHANGED <<tailnet, family, deviceChanges>>
      /\ UNCHANGED <<device, history, posture, invite, overtaken, newer, deviceFailures>>
      /\ user' = [u \in User |-> IF u \in listed THEN "active"
                                 ELSE IF user[u] = "absent" THEN "absent" ELSE "inactive"]
      /\ "users" \in Worker
  BY DEF StoreUsers, Stay, Worker
<1>2. UsersOK'
  BY <1>1 DEF UsersOK
<1>3. TailnetOK' /\ TablesOK' /\ RolesAgree' /\ SoundUntilOvertaken /\ ConfirmedByAnswer
  BY <1>1, <1>2, DevicesAlone, InvitesAlone DEF DeviceIInv, TailnetOK, TablesOK, tailnet
<1>4. LoadedIsThere' /\ AnswersOK' /\ StagesOK'
  BY <1>1, Finished DEF DeviceIInv, StagesOK
<1> QED
  BY <1>3, <1>4 DEF DeviceSafely, DeviceIInv

\* The devices worker is told a listing.
LEMMA FetchDevicesSafely == ASSUME DeviceIInv, FetchDevices PROVE DeviceSafely
<1>1. /\ Goes("devices", "commit") /\ UNCHANGED <<tailnet, family, deviceChanges>>
      /\ UNCHANGED <<tables, loaded, todo, listed, overtaken, newer>>
      /\ "devices" \in Worker
  BY DEF FetchDevices, Stay, Worker
<1>2. PICK failing \in SUBSET Device :
         /\ deviceFailures + Cardinality(failing) <= MaxDeviceFailures
         /\ deviceFailures' = deviceFailures + Cardinality(failing)
         /\ answer' = [answer EXCEPT !["devices"] = [d \in Device |->
                          [ok |-> d \notin failing, value |-> node[d]]]]
  BY DEF FetchDevices
<1>3. TailnetOK' /\ TablesOK' /\ RolesAgree' /\ SoundUntilOvertaken /\ ConfirmedByAnswer
  BY <1>1, DevicesAlone, InvitesAlone DEF DeviceIInv, TailnetOK, TablesOK, UsersOK, tables, tailnet
<1>4. LoadedIsThere'
  BY <1>1 DEF DeviceIInv, LoadedIsThere, tables
<1>5. deviceFailures' \in 0 .. MaxDeviceFailures
  BY <1>2, FailuresCount
<1>6. AnswersOK' /\ stage' \in [Worker -> {"idle", "fetch", "commit"}]
  <2>1. DOMAIN answer' = Worker /\ \A v \in Worker \ {"devices"} : answer'[v] = answer[v]
    BY <1>2 DEF DeviceIInv, AnswersOK
  <2>2. \A d \in Device : answer'["devices"][d].value \in Node \cup {Unlisted}
    BY <1>1, <1>2 DEF DeviceIInv, AnswersOK, TailnetOK
  <2> QED
    BY <1>1, <2>1, <2>2, GoesOnSafely
<1>7. StagesOK'
  BY <1>1, <1>5, <1>6 DEF DeviceIInv, StagesOK
<1> QED
  BY <1>3, <1>4, <1>6, <1>7 DEF DeviceSafely, DeviceIInv

\* A user who may own a device.
LEMMA OwnersAreUsers == ASSUME NEW login PROVE Owners(login) \subseteq User \cup {NoOne}
BY DEF Owners

\* The devices worker stores it.
LEMMA StoreDevicesSafely == ASSUME DeviceIInv, StoreDevices PROVE DeviceSafely
<1> DEFINE gone(d) == answer["devices"][d].value = Unlisted
<1>1. /\ stage["devices"] = "commit" /\ Finishes("devices")
      /\ UNCHANGED <<tailnet, family, deviceChanges>>
      /\ UNCHANGED <<user, posture, invite, deviceFailures>>
      /\ overtaken' = {d \in overtaken : gone(d)}
      /\ "devices" \in Worker
  BY DEF StoreDevices, Stay, Worker
<1>2. PICK owner \in [Device -> User \cup {NoOne}] :
         /\ device' = [d \in Device |-> DeviceRow(d, owner[d])]
         /\ history' = [d \in Device |->
               IF gone(d) THEN history[d]
               ELSE IF device[d] = NoRow
                    THEN [history[d] EXCEPT !.last = Snapshot(DeviceRow(d, owner[d]))]
                    ELSE RecordChanges(d, device[d], DeviceRow(d, owner[d]), {})]
         /\ newer' = [d \in Device |->
               IF gone(d) \/ device[d] = NoRow THEN newer[d]
               ELSE newer[d] \cup Changed(device[d], DeviceRow(d, owner[d]))]
  BY DEF StoreDevices
<1>3. ASSUME NEW d \in Device
      PROVE  /\ device'[d] \in Row \cup {NoRow} /\ (device[d] # NoRow => device'[d] # NoRow)
             /\ EventOK(history'[d]) /\ (history[d].sound => history'[d].sound)
             /\ device'[d] # NoRow => EventFits(history'[d], device'[d])
             /\ newer'[d] \subseteq TrackedField
             /\ d \notin overtaken' /\ device'[d] # NoRow =>
                   \/ device'[d].roles = Classify(device'[d].raw, device'[d].advertised)
                   \/ /\ device'[d].raw.routes # {}
                      /\ device'[d].roles = Classify(device'[d].raw, device'[d].raw.routes)
  <2> DEFINE x == DeviceRow(d, owner[d])
  <2>1. device'[d] = x /\ owner[d] \in User \cup {NoOne}
    BY <1>2
  <2>2. /\ x \in Row \cup {NoRow} /\ (device[d] # NoRow => x # NoRow)
        /\ ~gone(d) =>
              /\ x \in Row
              /\ \/ x.roles = Classify(x.raw, x.advertised)
                 \/ x.raw.routes # {} /\ x.roles = Classify(x.raw, x.raw.routes)
        /\ gone(d) /\ device[d] # NoRow =>
              /\ x.raw = device[d].raw /\ x.owner = device[d].owner
              /\ x.advertised = device[d].advertised /\ x.roles = device[d].roles
        /\ gone(d) /\ device[d] = NoRow => x = NoRow
    <3> HIDE DEF x
    <3>1. x = DeviceRow(d, owner[d])
      BY DEF x
    <3> QED
      BY <1>1, <2>1, <3>1, DeviceRowOf
  <2>3. EventOK(history[d])
    BY DEF DeviceIInv, TablesOK, SoundOK
  <2>7. newer'[d] \subseteq TrackedField
    BY <1>2 DEF Changed, DeviceIInv, StagesOK
  <2>4. CASE gone(d)
    <3>1. history'[d] = history[d]
      BY <1>2, <2>4
    <3>2. x # NoRow => Snapshot(x) = Snapshot(device[d]) /\ device[d] # NoRow
      BY <2>2, <2>4 DEF Snapshot
    <3>3. x # NoRow => EventFits(history[d], x)
      BY <3>2 DEF DeviceIInv, TablesOK, HistoryOK, EventFits
    <3>4. d \notin overtaken' => d \notin overtaken
      BY <1>1, <2>4
    <3>5. d \notin overtaken' /\ x # NoRow =>
             \/ x.roles = Classify(x.raw, x.advertised)
             \/ x.raw.routes # {} /\ x.roles = Classify(x.raw, x.raw.routes)
      BY <2>2, <2>4, <3>4 DEF DeviceIInv, RolesAgree
    <3> HIDE DEF x
    <3> QED
      BY <2>1, <2>2, <2>3, <2>7, <3>1, <3>3, <3>5
  <2>5. CASE ~gone(d) /\ device[d] = NoRow
    <3>1. history'[d] = [history[d] EXCEPT !.last = Snapshot(x)]
      BY <1>2, <2>5
    <3>2. /\ history'[d].sound = history[d].sound /\ history'[d].misdated = history[d].misdated
          /\ EventOK(history'[d])
      BY <2>3, <3>1 DEF EventOK
    <3>3. history'[d].last = Snapshot(x)
      <4>1. "last" \in DOMAIN history[d]
        BY <2>3 DEF EventOK
      <4> QED
        BY <3>1, <4>1
    <3>4. DOMAIN Snapshot(x) = TrackedField
      BY SnapshotParts DEF TrackedField
    <3> HIDE DEF x
    <3>5. EventFits(history'[d], x)
      BY <3>2, <3>3, <3>4 DEF EventFits, EventOK
    <3> QED
      BY <2>1, <2>2, <2>3, <2>5, <2>7, <3>2, <3>5
  <2>6. CASE ~gone(d) /\ device[d] # NoRow
    <3>1. history'[d] = RecordChanges(d, device[d], x, {})
      BY <1>2, <2>6
    <3> HIDE DEF x
    <3>2. EventFits(history'[d], x) /\ EventOK(history'[d]) /\ (history'[d].sound <=> history[d].sound)
      BY <2>3, <2>6, <3>1, RecordedDevice DEF DeviceIInv, TablesOK
    <3> QED
      BY <2>1, <2>2, <2>6, <2>7, <3>2
  <2> QED
    BY <2>4, <2>5, <2>6
<1>4. DevicesOK' /\ HistoryOK' /\ SoundOK' /\ RolesAgree' /\ SoundUntilOvertaken
  <2>1. DevicesOK'
    <3>1. device' = [d \in Device |-> device'[d]]
      BY <1>2
    <3> QED
      BY <1>3, <3>1 DEF DevicesOK
  <2>2. SoundUntilOvertaken
    BY <1>3 DEF SoundUntilOvertaken
  <2> QED
    BY <1>3, <2>1, <2>2 DEF HistoryOK, SoundOK, RolesAgree, EventOK
<1>5. TailnetOK' /\ TablesOK' /\ ConfirmedByAnswer
  BY <1>1, <1>4, InvitesAlone DEF DeviceIInv, TailnetOK, TablesOK, UsersOK, tailnet
<1>6. LoadedIsThere' /\ AnswersOK' /\ StagesOK'
  <2>1. newer' \in [Device -> SUBSET TrackedField]
    <3>1. newer' = [d \in Device |-> newer'[d]]
      BY <1>2
    <3> QED
      BY <1>3, <3>1
  <2> QED
    BY <1>1, <1>3, <2>1, Finished DEF DeviceIInv, StagesOK
<1> QED
  BY <1>4, <1>5, <1>6 DEF DeviceSafely, DeviceIInv
\* The routes worker loads the active devices.
LEMMA LoadRoutesSafely == ASSUME DeviceIInv, LoadRoutes PROVE DeviceSafely
<1>1. /\ stage["routes"] = "idle" /\ Goes("routes", "fetch") /\ Loads("routes")
      /\ UNCHANGED <<tailnet, family, deviceChanges>>
      /\ UNCHANGED <<tables, listed, answer, todo, overtaken, newer, deviceFailures>>
      /\ "routes" \in Worker
  BY DEF LoadRoutes, Stay, Worker
<1>2. TailnetOK' /\ TablesOK' /\ RolesAgree' /\ SoundUntilOvertaken /\ ConfirmedByAnswer
  BY <1>1, DevicesAlone, InvitesAlone DEF DeviceIInv, TailnetOK, TablesOK, UsersOK, tables, tailnet
<1>3. LoadedIsThere' /\ \A v \in Worker \ {"routes"} : loaded'[v] = loaded[v]
  BY <1>1, RowsLoaded DEF tables
<1>4. AnswersOK' /\ stage' \in [Worker -> {"idle", "fetch", "commit"}]
  <2>1. \A d \in Device : answer'["routes"][d] = Unasked /\ ~answer'["routes"][d].ok
    BY <1>1 DEF DeviceIInv, AnswersOK, Unasked
  <2>2. DOMAIN answer' = Worker /\ \A v \in Worker \ {"routes"} : answer'[v] = answer[v]
    BY <1>1 DEF DeviceIInv, AnswersOK
  <2> QED
    BY <1>1, <1>3, <2>1, <2>2, GoesOnSafely
<1>5. StagesOK'
  BY <1>1, <1>4 DEF DeviceIInv, StagesOK
<1> QED
  BY <1>2, <1>3, <1>4, <1>5 DEF DeviceSafely, DeviceIInv

\* It asks for their routes.
LEMMA FetchRoutesSafely == ASSUME DeviceIInv, FetchRoutes PROVE DeviceSafely
<1>1. /\ Goes("routes", "commit") /\ UNCHANGED <<tailnet, family, deviceChanges>>
      /\ UNCHANGED <<tables, loaded, todo, listed, overtaken>>
      /\ newer' = [d \in Device |-> {}]
      /\ "routes" \in Worker
  BY DEF FetchRoutes, Stay, Worker
<1> DEFINE asked == {d \in Known("routes") : node[d] # Unlisted}
<1>2. PICK failing \in SUBSET asked :
         /\ deviceFailures + Cardinality(failing) <= MaxDeviceFailures
         /\ deviceFailures' = deviceFailures + Cardinality(failing)
         /\ answer' = [answer EXCEPT !["routes"] = [d \in Device |->
                          IF d \in asked \ failing THEN Ok(node[d].routes) ELSE Unasked]]
  BY DEF FetchRoutes, Asks
<1>3. TailnetOK' /\ TablesOK' /\ RolesAgree' /\ SoundUntilOvertaken /\ ConfirmedByAnswer
  BY <1>1, DevicesAlone, InvitesAlone DEF DeviceIInv, TailnetOK, TablesOK, UsersOK, tables, tailnet
<1>4. LoadedIsThere'
  BY <1>1 DEF DeviceIInv, LoadedIsThere, tables
<1>5. deviceFailures' \in 0 .. MaxDeviceFailures
  <2>1. failing \in SUBSET Device
    BY DEF Known
  <2> QED
    BY <1>2, <2>1, FailuresCount
<1>6. AnswersOK' /\ stage' \in [Worker -> {"idle", "fetch", "commit"}]
  <2>1. DOMAIN answer' = Worker /\ \A v \in Worker \ {"routes"} : answer'[v] = answer[v]
    BY <1>2 DEF DeviceIInv, AnswersOK
  <2>2. ASSUME NEW d \in Device, answer'["routes"][d].ok
        PROVE  answer'["routes"][d].value \subseteq Route /\ loaded'["routes"][d] # NoRow
    <3>1. answer'["routes"][d] = IF d \in asked \ failing THEN Ok(node[d].routes) ELSE Unasked
      BY <1>1, <1>2 DEF DeviceIInv, AnswersOK
    <3>2. d \in asked
      BY <2>2, <3>1 DEF Unasked
    <3>3. node[d] \in Node /\ loaded["routes"][d] # NoRow
      BY <3>2 DEF DeviceIInv, TailnetOK, Known
    <3>4. answer'["routes"][d].value = node[d].routes
      BY <2>2, <3>1 DEF Unasked, Ok
    <3> QED
      BY <1>1, <3>3, <3>4, ListedNode
  <2> QED
    BY <1>1, <2>1, <2>2, GoesOnSafely
<1>7. StagesOK'
  BY <1>1, <1>5, <1>6 DEF DeviceIInv, StagesOK
<1> QED
  BY <1>3, <1>4, <1>6, <1>7 DEF DeviceSafely, DeviceIInv

\* It writes what they changed, and overtakes what was written meanwhile.
LEMMA StoreRoutesSafely == ASSUME DeviceIInv, StoreRoutes PROVE DeviceSafely
<1> DEFINE answered == {d \in Device : answer["routes"][d].ok}
           before(d) == loaded["routes"][d]
<1>1. /\ Finishes("routes") /\ UNCHANGED <<tailnet, family, deviceChanges>>
      /\ UNCHANGED <<user, posture, invite, newer, deviceFailures>>
      /\ device' = [d \in Device |->
            IF d \in answered THEN Written(device[d], before(d), Routed(d)) ELSE device[d]]
      /\ history' = [d \in Device |->
            IF d \in answered THEN RecordChanges(d, before(d), Routed(d), newer[d]) ELSE history[d]]
      /\ overtaken' = overtaken \cup {d \in answered : device[d] # before(d) \/ newer[d] # {}}
      /\ "routes" \in Worker
  BY DEF StoreRoutes, Stay, Worker
<1>2. ASSUME NEW d \in Device
      PROVE  /\ device'[d] \in Row \cup {NoRow} /\ (device[d] # NoRow => device'[d] # NoRow)
             /\ EventOK(history'[d])
             /\ history[d].sound /\ d \notin overtaken' => history'[d].sound
             /\ device'[d] # NoRow => EventFits(history'[d], device'[d])
             /\ d \notin overtaken' /\ device'[d] # NoRow =>
                   \/ device'[d].roles = Classify(device'[d].raw, device'[d].advertised)
                   \/ /\ device'[d].raw.routes # {}
                      /\ device'[d].roles = Classify(device'[d].raw, device'[d].raw.routes)
  <2>1. CASE d \in answered
    <3> DEFINE x == Written(device[d], before(d), Routed(d))
               event == RecordChanges(d, before(d), Routed(d), newer[d])
    <3>1. device'[d] = x /\ history'[d] = event
      BY <1>1, <2>1
    <3>2. /\ x \in Row /\ EventFits(event, x) /\ EventOK(event)
          /\ device[d] = before(d) => x.roles = Classify(x.raw, x.advertised)
          /\ device[d] = before(d) /\ newer[d] = {} => (history[d].sound => event.sound)
      <4>1. answer["routes"][d].ok
        BY <2>1
      <4> QED
        BY <4>1, RoutedRow
    <3>3. d \notin overtaken' => device[d] = before(d) /\ newer[d] = {}
      BY <1>1, <2>1
    <3>4. x # NoRow
      BY <3>2, DeviceRowParts
    <3> HIDE DEF x, event
    <3> QED
      BY <3>1, <3>2, <3>3, <3>4
  <2>2. CASE d \notin answered
    <3>1. device'[d] = device[d] /\ history'[d] = history[d]
      BY <1>1, <2>2
    <3>2. d \notin overtaken' => d \notin overtaken
      BY <1>1
    <3> QED
      BY <3>1, <3>2 DEF DeviceIInv, TablesOK, DevicesOK, SoundOK, HistoryOK, RolesAgree
  <2> QED
    BY <2>1, <2>2
<1>3. DevicesOK' /\ HistoryOK' /\ SoundOK' /\ RolesAgree' /\ SoundUntilOvertaken
  <2>1. DevicesOK'
    <3>1. device' = [d \in Device |-> device'[d]]
      BY <1>1
    <3> QED
      BY <1>2, <3>1 DEF DevicesOK
  <2>2. SoundUntilOvertaken
    BY <1>2 DEF SoundUntilOvertaken
  <2> QED
    BY <1>2, <2>1, <2>2 DEF HistoryOK, SoundOK, RolesAgree, EventOK
<1>4. TailnetOK' /\ TablesOK' /\ ConfirmedByAnswer
  BY <1>1, <1>3, InvitesAlone DEF DeviceIInv, TailnetOK, TablesOK, UsersOK, tailnet
<1>5. LoadedIsThere' /\ AnswersOK' /\ StagesOK'
  <2>1. overtaken' \subseteq Device
    BY <1>1 DEF DeviceIInv, StagesOK
  <2> QED
    BY <1>1, <1>2, <2>1, Finished DEF DeviceIInv, StagesOK
<1> QED
  BY <1>3, <1>4, <1>5 DEF DeviceSafely, DeviceIInv
\* The posture worker loads the active devices and asks for their attributes.
LEMMA FetchPostureSafely == ASSUME DeviceIInv, FetchPosture PROVE DeviceSafely
<1> DEFINE active == {d \in Device : device[d].active}
           asked == {d \in active : node[d] # Unlisted}
<1>1. /\ Goes("posture", "commit") /\ Loads("posture")
      /\ UNCHANGED <<tailnet, family, deviceChanges>> /\ UNCHANGED <<tables, listed, overtaken, newer>>
      /\ todo' = [todo EXCEPT !["posture"] = active]
      /\ "posture" \in Worker
  BY DEF FetchPosture, Stay, Worker
<1>2. PICK failing \in SUBSET asked :
         /\ deviceFailures + Cardinality(failing) <= MaxDeviceFailures
         /\ deviceFailures' = deviceFailures + Cardinality(failing)
         /\ answer' = [answer EXCEPT !["posture"] = [d \in Device |->
                          IF d \in asked \ failing THEN Ok(attribute[d]) ELSE Unasked]]
  BY DEF FetchPosture, Asks
<1>3. TailnetOK' /\ TablesOK' /\ RolesAgree' /\ SoundUntilOvertaken /\ ConfirmedByAnswer
  BY <1>1, DevicesAlone, InvitesAlone DEF DeviceIInv, TailnetOK, TablesOK, UsersOK, tables, tailnet
<1>4. LoadedIsThere' /\ \A v \in Worker \ {"posture"} : loaded'[v] = loaded[v]
  BY <1>1, RowsLoaded DEF tables
<1>5. deviceFailures' \in 0 .. MaxDeviceFailures
  <2>1. failing \in SUBSET Device
    OBVIOUS
  <2> QED
    BY <1>2, <2>1, FailuresCount
<1>6. AnswersOK' /\ stage' \in [Worker -> {"idle", "fetch", "commit"}]
  <2>1. DOMAIN answer' = Worker /\ \A v \in Worker \ {"posture"} : answer'[v] = answer[v]
    BY <1>2 DEF DeviceIInv, AnswersOK
  <2>2. ASSUME NEW d \in Device, answer'["posture"][d].ok
        PROVE  answer'["posture"][d].value \in Value
    <3>1. answer'["posture"][d] = IF d \in asked \ failing THEN Ok(attribute[d]) ELSE Unasked
      BY <1>1, <1>2 DEF DeviceIInv, AnswersOK
    <3>2. answer'["posture"][d].value = attribute[d]
      BY <2>2, <3>1 DEF Unasked, Ok
    <3> QED
      BY <3>2 DEF DeviceIInv, TailnetOK
  <2> QED
    BY <1>1, <1>4, <2>1, <2>2, GoesOnSafely
<1>7. StagesOK'
  BY <1>1, <1>5, <1>6 DEF DeviceIInv, StagesOK
<1> QED
  BY <1>3, <1>4, <1>6, <1>7 DEF DeviceSafely, DeviceIInv

\* What a step within the commits of a worker leaves alone.
LEMMA LoopGoesOn ==
    ASSUME DeviceIInv, NEW w \in Worker, NEW d \in Device,
           todo' = [todo EXCEPT ![w] = @ \ {d}],
           UNCHANGED <<device, stage, loaded, listed, answer, overtaken, newer, deviceFailures>>,
           UNCHANGED <<family, deviceChanges>>
    PROVE  LoadedIsThere' /\ AnswersOK' /\ StagesOK'
<1>1. todo' \in [Worker -> SUBSET Device]
  BY DEF DeviceIInv, StagesOK
<1> QED
  BY <1>1 DEF DeviceIInv, LoadedIsThere, AnswersOK, StagesOK

\* The posture worker stores one device.
LEMMA StorePostureSafely ==
    ASSUME DeviceIInv, NEW d \in Device, StorePosture(d) PROVE DeviceSafely
<1>1. /\ todo' = [todo EXCEPT !["posture"] = @ \ {d}]
      /\ posture' = [posture EXCEPT ![d] =
            IF answer["posture"][d].ok
            THEN [status |-> "available", succeeded |-> TRUE,
                  present |-> answer["posture"][d].value]
            ELSE [posture[d] EXCEPT !.status =
                    IF posture[d].status # "none" /\ posture[d].succeeded
                    THEN "stale" ELSE "unknown"]]
      /\ UNCHANGED <<user, device, history, invite, stage, loaded, listed, answer, overtaken, newer,
                     deviceFailures>>
      /\ UNCHANGED <<tailnet, family, deviceChanges>> /\ "posture" \in Worker
  BY DEF StorePosture, Stay, Worker
<1>2. posture' \in [Device -> PostureRow]
  <2>1. posture[d] \in PostureRow /\ posture \in [Device -> PostureRow]
    BY DEF DeviceIInv, TablesOK
  <2>2. answer["posture"][d].ok =>
           [status |-> "available", succeeded |-> TRUE,
            present |-> answer["posture"][d].value] \in PostureRow
    BY DEF DeviceIInv, AnswersOK, PostureRow
  <2>3. \A s \in {"stale", "unknown"} : [posture[d] EXCEPT !.status = s] \in PostureRow
    BY <2>1 DEF PostureRow
  <2> QED
    BY <1>1, <2>1, <2>2, <2>3
<1>3. TailnetOK' /\ TablesOK' /\ RolesAgree' /\ SoundUntilOvertaken /\ ConfirmedByAnswer
  BY <1>1, <1>2, DevicesAlone, InvitesAlone DEF DeviceIInv, TailnetOK, TablesOK, UsersOK, tailnet
<1> QED
  BY <1>1, <1>3, LoopGoesOn DEF DeviceSafely, DeviceIInv

\* The invites worker marks every invite.
LEMMA MarkInvitesSafely == ASSUME DeviceIInv, MarkInvites PROVE DeviceSafely
<1>1. /\ Goes("device_invites", "fetch") /\ Loads("device_invites")
      /\ invite' = [i \in Invite |-> IF invite[i].device = NoOne THEN invite[i]
                                     ELSE [invite[i] EXCEPT !.stale = TRUE]]
      /\ UNCHANGED <<user, device, history, posture, listed, answer, todo, overtaken, newer,
                     deviceFailures>>
      /\ UNCHANGED <<tailnet, family, deviceChanges>> /\ "device_invites" \in Worker
  BY DEF MarkInvites, Stay, Worker
<1>2. invite \in [Invite -> InviteRow]
  BY DEF DeviceIInv, TablesOK
<1>3. invite' \in [Invite -> InviteRow]
  BY <1>1, <1>2 DEF InviteRow
<1>4. ConfirmedByAnswer
  <2>1. \A i \in Invite : invite'[i] = invite[i] \/ invite'[i].stale
    BY <1>1, <1>2 DEF InviteRow
  <2> QED
    BY <2>1 DEF ConfirmedByAnswer
<1>5. TailnetOK' /\ TablesOK' /\ RolesAgree' /\ SoundUntilOvertaken
  BY <1>1, <1>3, DevicesAlone DEF DeviceIInv, TailnetOK, TablesOK, UsersOK, tailnet
<1>6. LoadedIsThere' /\ \A v \in Worker \ {"device_invites"} : loaded'[v] = loaded[v]
  BY <1>1, RowsLoaded
<1>7. AnswersOK' /\ stage' \in [Worker -> {"idle", "fetch", "commit"}]
  BY <1>1, <1>6, GoesOnSafely DEF DeviceIInv, AnswersOK
<1>8. StagesOK'
  BY <1>1, <1>7 DEF DeviceIInv, StagesOK
<1> QED
  BY <1>4, <1>5, <1>6, <1>7, <1>8 DEF DeviceSafely, DeviceIInv

\* It asks for the invites of the devices that it has loaded.
LEMMA FetchInvitesSafely == ASSUME DeviceIInv, FetchInvites PROVE DeviceSafely
<1> DEFINE asked == {d \in Known("device_invites") : node[d] # Unlisted}
<1>1. /\ Goes("device_invites", "commit") /\ UNCHANGED <<tailnet, family, deviceChanges>>
      /\ UNCHANGED <<tables, loaded, listed, overtaken, newer>>
      /\ todo' = [todo EXCEPT !["device_invites"] = Known("device_invites")]
      /\ "device_invites" \in Worker
  BY DEF FetchInvites, Stay, Worker
<1>2. PICK failing \in SUBSET asked :
         /\ deviceFailures + Cardinality(failing) <= MaxDeviceFailures
         /\ deviceFailures' = deviceFailures + Cardinality(failing)
         /\ answer' = [answer EXCEPT !["device_invites"] = [d \in Device |->
                          IF d \in asked \ failing THEN Ok(invites[d]) ELSE Unasked]]
  BY DEF FetchInvites, Asks
<1>3. TailnetOK' /\ TablesOK' /\ RolesAgree' /\ SoundUntilOvertaken /\ ConfirmedByAnswer
  BY <1>1, DevicesAlone, InvitesAlone DEF DeviceIInv, TailnetOK, TablesOK, UsersOK, tables, tailnet
<1>4. LoadedIsThere'
  BY <1>1 DEF DeviceIInv, LoadedIsThere, tables
<1>5. Known("device_invites") \subseteq Device
  BY DEF Known
<1>6. deviceFailures' \in 0 .. MaxDeviceFailures
  <2>1. failing \in SUBSET Device
    BY <1>5
  <2> QED
    BY <1>2, <2>1, FailuresCount
<1>7. AnswersOK' /\ stage' \in [Worker -> {"idle", "fetch", "commit"}]
  <2>1. DOMAIN answer' = Worker /\ \A v \in Worker \ {"device_invites"} : answer'[v] = answer[v]
    BY <1>2 DEF DeviceIInv, AnswersOK
  <2> QED
    BY <1>1, <2>1, GoesOnSafely
<1>8. StagesOK'
  BY <1>1, <1>5, <1>6, <1>7 DEF DeviceIInv, StagesOK
<1> QED
  BY <1>3, <1>4, <1>7, <1>8 DEF DeviceSafely, DeviceIInv

\* It stores what a device that answered has, and nothing else turns fresh.
LEMMA StoreInvitesSafely ==
    ASSUME DeviceIInv, NEW d \in Device, StoreInvites(d) PROVE DeviceSafely
<1> DEFINE answered == answer["device_invites"][d].value
<1>1. /\ d \in todo["device_invites"]
      /\ todo' = [todo EXCEPT !["device_invites"] = @ \ {d}]
      /\ invite' = IF answer["device_invites"][d].ok THEN InviteRows(d, answered) ELSE invite
      /\ UNCHANGED <<user, device, history, posture, stage, loaded, listed, answer, overtaken, newer,
                     deviceFailures>>
      /\ UNCHANGED <<tailnet, family, deviceChanges>> /\ "device_invites" \in Worker
  BY DEF StoreInvites, Stay, Worker
<1>2. invite \in [Invite -> InviteRow]
  BY DEF DeviceIInv, TablesOK
<1>3. ASSUME NEW i \in Invite
      PROVE  /\ InviteRows(d, answered)[i] \in InviteRow
             /\ \/ i \in answered /\ InviteRows(d, answered)[i].device = d
                \/ InviteRows(d, answered)[i] = invite[i]
                \/ ~InviteRows(d, answered)[i].present
  BY <1>2 DEF InviteRows, InviteRow
<1>4. invite' \in [Invite -> InviteRow]
  <2>1. InviteRows(d, answered) = [i \in Invite |-> InviteRows(d, answered)[i]]
    BY DEF InviteRows
  <2> QED
    BY <1>1, <1>2, <1>3, <2>1
<1>5. ConfirmedByAnswer
  BY <1>1, <1>3 DEF ConfirmedByAnswer
<1>6. TailnetOK' /\ TablesOK' /\ RolesAgree' /\ SoundUntilOvertaken
  BY <1>1, <1>4, DevicesAlone DEF DeviceIInv, TailnetOK, TablesOK, UsersOK, tailnet
<1> QED
  BY <1>1, <1>5, <1>6, LoopGoesOn DEF DeviceSafely, DeviceIInv

\* A worker that has stored every device ends.
LEMMA EndOfLoopSafely ==
    ASSUME DeviceIInv, NEW w \in Worker, EndOfLoop(w) PROVE DeviceSafely
<1>1. /\ Finishes(w) /\ UNCHANGED <<tables, overtaken, newer, deviceFailures>>
      /\ UNCHANGED <<tailnet, family, deviceChanges>>
  BY DEF EndOfLoop, Stay
<1>2. TailnetOK' /\ TablesOK' /\ RolesAgree' /\ SoundUntilOvertaken /\ ConfirmedByAnswer
  BY <1>1, DevicesAlone, InvitesAlone DEF DeviceIInv, TailnetOK, TablesOK, UsersOK, tables, tailnet
<1>3. LoadedIsThere' /\ AnswersOK' /\ StagesOK'
  BY <1>1, Finished DEF DeviceIInv, StagesOK, tables
<1> QED
  BY <1>2, <1>3 DEF DeviceSafely, DeviceIInv

\* Upstream changes.
LEMMA TailnetChangesSafely ==
    ASSUME DeviceIInv, NEW w \in Worker, TailnetChanges(w) PROVE DeviceSafely
<1>1. /\ deviceChanges < MaxDeviceChanges /\ deviceChanges' = deviceChanges + 1
      /\ UNCHANGED <<tables, family, stage, loaded, listed, answer, todo, overtaken, newer,
                     deviceFailures>>
  BY DEF TailnetChanges
<1>2. TailnetOK'
  <2>1. CASE account' \in SUBSET User /\ UNCHANGED <<node, attribute, invites>>
    BY <2>1 DEF DeviceIInv, TailnetOK
  <2>2. CASE /\ \E d \in Device, to \in Node \cup {Unlisted} : node' = [node EXCEPT ![d] = to]
             /\ UNCHANGED <<account, attribute, invites>>
    BY <2>2 DEF DeviceIInv, TailnetOK
  <2>3. CASE /\ \E d \in Device, to \in Value : attribute' = [attribute EXCEPT ![d] = to]
             /\ UNCHANGED <<account, node, invites>>
    BY <2>3 DEF DeviceIInv, TailnetOK
  <2>4. CASE /\ \E d \in Device, to \in SUBSET Invite :
                   invites' = [e \in Device |-> IF e = d THEN to ELSE invites[e] \ to]
             /\ UNCHANGED <<account, node, attribute>>
    BY <2>4 DEF DeviceIInv, TailnetOK
  <2> QED
    BY <2>1, <2>2, <2>3, <2>4 DEF TailnetChanges
<1>3. TablesOK' /\ RolesAgree' /\ SoundUntilOvertaken /\ ConfirmedByAnswer
  BY <1>1, DevicesAlone, InvitesAlone DEF DeviceIInv, TablesOK, UsersOK, tables
<1>4. deviceChanges' \in 0 .. MaxDeviceChanges
  BY <1>1, DeviceAssumption DEF DeviceIInv, StagesOK
<1>5. LoadedIsThere' /\ AnswersOK' /\ StagesOK'
  BY <1>1, <1>4 DEF DeviceIInv, LoadedIsThere, AnswersOK, StagesOK, tables
<1> QED
  BY <1>2, <1>3, <1>5 DEF DeviceSafely, DeviceIInv
-----------------------------------------------------------------------------
(* What holds of the inventory.                                             *)

\* The inventory is empty at first.
LEMMA DeviceInitSafe == DeviceInit => DeviceIInv
<1> SUFFICES ASSUME DeviceInit PROVE DeviceIInv
  OBVIOUS
<1>1. /\ user = [u \in User |-> "absent"] /\ device = [d \in Device |-> NoRow]
      /\ history = [d \in Device |-> [sound |-> TRUE, last |-> NoRow, misdated |-> {}]]
      /\ posture = [d \in Device |-> [status |-> "none", succeeded |-> FALSE,
                                      present |-> NoOne]]
      /\ invite = [i \in Invite |-> [device |-> NoOne, present |-> FALSE, stale |-> FALSE]]
  BY DEF DeviceInit
<1>2. TailnetOK
  <2>1. account \in SUBSET User /\ node \in [Device -> Node \cup {Unlisted}]
        /\ attribute = [d \in Device |-> "compliant"]
    BY DEF DeviceInit
  <2>2. PICK holder \in [Invite -> Device \cup {NoOne}] :
           invites = [d \in Device |-> {i \in Invite : holder[i] = d}]
    BY DEF DeviceInit
  <2>3. invites \in [Device -> SUBSET Invite]
    BY <2>2
  <2> QED
    BY <2>1, <2>3 DEF TailnetOK, Value
<1>3. TablesOK
  <2>1. UsersOK /\ DevicesOK /\ HistoryOK
    BY <1>1 DEF UsersOK, DevicesOK, HistoryOK
  <2>2. SoundOK
    BY <1>1 DEF SoundOK, EventOK
  <2>3. posture \in [Device -> PostureRow]
    BY <1>1 DEF PostureRow
  <2>4. invite \in [Invite -> InviteRow]
    BY <1>1 DEF InviteRow
  <2> QED
    BY <2>1, <2>2, <2>3, <2>4 DEF TablesOK
<1>4. StagesOK
  BY DeviceAssumption DEF DeviceInit, StagesOK
<1>5. LoadedIsThere
  BY DEF DeviceInit, LoadedIsThere
<1>6. AnswersOK
  <2>1. /\ "devices" \in Worker /\ "routes" \in Worker /\ "posture" \in Worker
        /\ stage = [w \in Worker |-> "idle"]
        /\ answer = [w \in Worker |-> [d \in Device |-> Unasked]]
    BY DEF DeviceInit, Worker
  <2>2. ~Unasked.ok
    BY DEF Unasked
  <2> QED
    BY <2>1, <2>2 DEF AnswersOK
<1>7. RolesAgree
  BY <1>1 DEF RolesAgree
<1> QED
  BY <1>2, <1>3, <1>4, <1>5, <1>6, <1>7 DEF DeviceIInv

\* Every step is safe.
LEMMA DeviceStepSafe == ASSUME DeviceIInv, [DeviceNext]_deviceVars PROVE DeviceSafely
<1>1. CASE UNCHANGED deviceVars
  <2>1. TailnetOK' /\ TablesOK' /\ RolesAgree' /\ SoundUntilOvertaken /\ ConfirmedByAnswer
    BY <1>1, DevicesAlone, InvitesAlone DEF DeviceIInv, TailnetOK, TablesOK, UsersOK, deviceVars
  <2>2. LoadedIsThere' /\ AnswersOK' /\ StagesOK'
    BY <1>1 DEF DeviceIInv, LoadedIsThere, AnswersOK, StagesOK, deviceVars
  <2> QED
    BY <2>1, <2>2 DEF DeviceSafely, DeviceIInv
<1>2. ASSUME NEW w \in Worker, Works(w) PROVE DeviceSafely
  <2>1. CASE FetchUsers \/ StoreUsers
    BY <2>1, FetchUsersSafely, StoreUsersSafely
  <2>2. CASE FetchDevices \/ StoreDevices
    BY <2>2, FetchDevicesSafely, StoreDevicesSafely
  <2>3. CASE LoadRoutes \/ FetchRoutes \/ StoreRoutes
    BY <2>3, LoadRoutesSafely, FetchRoutesSafely, StoreRoutesSafely
  <2>4. CASE FetchPosture \/ \E d \in Device : StorePosture(d)
    BY <2>4, FetchPostureSafely, StorePostureSafely
  <2>5. CASE MarkInvites \/ FetchInvites \/ \E d \in Device : StoreInvites(d)
    BY <2>5, MarkInvitesSafely, FetchInvitesSafely, StoreInvitesSafely
  <2>6. CASE EndOfLoop(w)
    BY <2>6, EndOfLoopSafely
  <2> QED
    BY <1>2, <2>1, <2>2, <2>3, <2>4, <2>5, <2>6 DEF Works
<1> QED
  BY <1>1, <1>2, TailnetChangesSafely, WorkerFailsSafely DEF DeviceNext

\* The inductive invariant.
LEMMA DevicesSafe == DeviceSpec => []DeviceIInv
<1>1. DeviceIInv /\ [DeviceNext]_deviceVars => DeviceIInv'
  BY DeviceStepSafe DEF DeviceSafely
<1> QED
  BY <1>1, DeviceInitSafe, PTL DEF DeviceSpec

(* Whatever workers overlap, fail and load, the roles of a device are those *)
(* of its stored listing and routes unless a routes worker overtook a       *)
(* devices worker, and its history, read by occurred_at, ends in what the   *)
(* row shows, but for a field that both changed while the routes worker,    *)
(* its event stamped, waited for the commit of the devices worker.          *)
THEOREM DevicesAgree == DeviceSpec => []DeviceInv
<1>1. ASSUME DeviceIInv PROVE DeviceInv
  <2>1. HistoryShowsDevice
    BY <1>1 DEF DeviceIInv, TablesOK, HistoryOK, EventFits, HistoryShowsDevice
  <2>2. \A d \in Device : device[d] # NoRow =>
           /\ history[d].sound \in BOOLEAN /\ DOMAIN history[d].last = TrackedField
           /\ history[d].misdated \subseteq TrackedField
    BY <1>1 DEF DeviceIInv, TablesOK, HistoryOK, EventFits
  <2>3. DeviceTypeOK
    BY <1>1, <2>2 DEF DeviceIInv, TailnetOK, TablesOK, UsersOK, DevicesOK, PostureRow,
       InviteRow, StagesOK, LoadedIsThere, DeviceTypeOK
  <2> QED
    BY <1>1, <2>1, <2>3 DEF DeviceIInv, DeviceInv
<1> QED
  BY <1>1, DevicesSafe, PTL

(* Every event of a device starts from what the event before it, by         *)
(* occurred_at, ended in, until a routes worker writes a row that a devices *)
(* worker changed after it was loaded.                                      *)
THEOREM HistoryIsChained == DeviceSpec => HistoryIsAChain
<1>1. DeviceIInv /\ [DeviceNext]_deviceVars => [SoundUntilOvertaken]_deviceVars
  BY DeviceStepSafe DEF DeviceSafely
<1>2. DeviceSpec => [][SoundUntilOvertaken]_deviceVars
  BY <1>1, DevicesSafe, PTL DEF DeviceSpec
<1> QED
  BY <1>2, PTL DEF HistoryIsAChain, SoundUntilOvertaken

(* An invite becomes present and fresh only by the answer of the device it  *)
(* is shown with, whichever requests fail and wherever a run stops.         *)
THEOREM NoInviteIsInvented == DeviceSpec => FreshInviteIsConfirmed
<1>1. DeviceIInv /\ [DeviceNext]_deviceVars => [ConfirmedByAnswer]_deviceVars
  BY DeviceStepSafe DEF DeviceSafely
<1>2. DeviceSpec => [][ConfirmedByAnswer]_deviceVars
  BY <1>1, DevicesSafe, PTL DEF DeviceSpec
<1> QED
  BY <1>2, PTL DEF FreshInviteIsConfirmed, ConfirmedByAnswer
=============================================================================
