-------------------------- MODULE DeviceInventory ---------------------------
(***************************************************************************)
(* The inventory workers of sync.py that meet on devices: users, devices,  *)
(* routes, posture and device invites.  Each runs under its own advisory   *)
(* lock (SourceSync shows what that gives), so each is one task here, but  *)
(* devices and routes write the same rows, and every worker joins with     *)
(* what another one stored at another time.                                *)
(*                                                                         *)
(* A worker loads rows, asks upstream, and commits: once at its end, or,   *)
(* for posture and invites, device by device.  As in FindingLifecycle a    *)
(* commit writes the columns that differ from what was loaded.             *)
(***************************************************************************)
EXTENDS Naturals, FiniteSets

CONSTANTS
    Device, User, Login, Invite,
    LoginOf,        \* the login name of a user; a re-created user has a second id
    Node,           \* what the device listing may say of a device
    Families,       \* sets of workers that run together, see DeviceInit
    MaxDeviceChanges,  \* bound: changes upstream
    MaxDeviceFailures, \* bound: failed requests, and workers that are stopped
    NoOne

Worker == {"users", "devices", "routes", "posture", "device_invites"}
Route == {"exit", "subnet"}
Value == {"compliant", "violating"}           \* of a posture attribute
Role == {"exit_node", "subnet_router", "tagged_server", "mobile_device",
         "user_workstation", "standard_node"}

ASSUME DeviceAssumption ==
    /\ LoginOf \in [User -> Login]
    /\ Node \subseteq [tags : BOOLEAN, mobile : BOOLEAN, login : Login \cup {NoOne},
                       routes : SUBSET Route]
    /\ Families \subseteq SUBSET Worker /\ IsFiniteSet(Device)
    /\ MaxDeviceChanges \in Nat /\ MaxDeviceFailures \in Nat
    /\ NoOne \notin User \cup Login

VARIABLES
    \* --- upstream
    account,        \* the users it lists
    node,           \* node[d]: the listing of d, or Unlisted
    attribute,      \* attribute[d]: its posture attribute
    invites,        \* invites[d]: its device invites
    \* --- PostgreSQL
    user,           \* user[u]: the row of u
    device,         \* device[d]: the row of d, NoRow before the first
    history,        \* history[d]: what the events with the latest occurred_at
                    \* say of each field
    posture,        \* posture[d]: state and attribute rows
    invite,         \* invite[i]: the row of i
    \* --- the workers
    family,         \* the workers that run
    stage,
    loaded,         \* loaded[w][d]: the row of d as w loaded it
    listed,         \* the users that the users worker was told
    answer,         \* answer[w][d]: what upstream answered w about d
    todo,           \* todo[w]: the devices w has still to commit
    \* --- for the properties, and the bounds
    overtaken,      \* the devices whose row changed between a load of the routes
                    \* worker and its commit, until the next devices worker
    newer,          \* newer[d]: the fields that events of the devices worker
                    \* changed since the routes worker was answered
    deviceChanges, deviceFailures

tailnet == <<account, node, attribute, invites>>
tables == <<user, device, history, posture, invite>>
bounds == <<deviceChanges, deviceFailures>>
deviceVars == <<account, node, attribute, invites, user, device, history, posture, invite,
          family, stage, loaded, listed, answer, todo, overtaken, newer, deviceChanges, deviceFailures>>

Unlisted == [tags |-> FALSE, mobile |-> FALSE, login |-> NoOne, routes |-> {"gone"}]
NoRow == [active |-> FALSE]
Row == [active : BOOLEAN, raw : Node, owner : User \cup {NoOne},
        advertised : SUBSET Route, roles : SUBSET Role, detail : BOOLEAN]
Unasked == [ok |-> FALSE]
Ok(value) == [ok |-> TRUE, value |-> value]

\* The columns of DEVICE_HISTORY_FIELDS that the model has.
TrackedField == {"owner", "tags", "advertised", "roles"}
Snapshot(row) ==
    [owner |-> row.owner, tags |-> row.raw.tags,
     advertised |-> row.advertised, roles |-> row.roles]

DeviceTypeOK ==
    /\ account \subseteq User /\ node \in [Device -> Node \cup {Unlisted}]
    /\ attribute \in [Device -> Value] /\ invites \in [Device -> SUBSET Invite]
    /\ user \in [User -> {"absent", "active", "inactive"}]
    /\ device \in [Device -> Row \cup {NoRow}]
    /\ \A d \in Device : device[d] # NoRow =>
          /\ history[d].sound \in BOOLEAN
          /\ DOMAIN history[d].last = TrackedField
          /\ history[d].misdated \subseteq TrackedField
    /\ posture \in [Device -> [status : {"none", "unknown", "stale", "available"},
                               succeeded : BOOLEAN, present : Value \cup {NoOne}]]
    /\ invite \in [Invite -> [device : Device \cup {NoOne}, present : BOOLEAN,
                              stale : BOOLEAN]]
    /\ family \in Families
    /\ stage \in [Worker -> {"idle", "fetch", "commit"}]
    /\ loaded \in [Worker -> [Device -> Row \cup {NoRow}]]
    /\ listed \subseteq User
    /\ todo \in [Worker -> SUBSET Device] /\ overtaken \subseteq Device
    /\ newer \in [Device -> SUBSET TrackedField]
    /\ deviceChanges \in 0 .. MaxDeviceChanges /\ deviceFailures \in 0 .. MaxDeviceFailures

(* One family of workers runs in a behaviour: the sources outside it write  *)
(* no row that the family reads, except that the devices worker provides    *)
(* the rows posture and invites are about.                                  *)
DeviceInit ==
    /\ account \in SUBSET User
    /\ node \in [Device -> Node \cup {Unlisted}]
    /\ attribute = [d \in Device |-> "compliant"]
    /\ \E holder \in [Invite -> Device \cup {NoOne}] :
          invites = [d \in Device |-> {i \in Invite : holder[i] = d}]
    /\ user = [u \in User |-> "absent"]
    /\ device = [d \in Device |-> NoRow]
    /\ history = [d \in Device |-> [sound |-> TRUE, last |-> NoRow, misdated |-> {}]]
    /\ posture = [d \in Device |-> [status |-> "none", succeeded |-> FALSE, present |-> NoOne]]
    /\ invite = [i \in Invite |-> [device |-> NoOne, present |-> FALSE, stale |-> FALSE]]
    /\ family \in Families
    /\ stage = [w \in Worker |-> "idle"]
    /\ loaded = [w \in Worker |-> [d \in Device |-> NoRow]]
    /\ listed = {}
    /\ answer = [w \in Worker |-> [d \in Device |-> Unasked]]
    /\ todo = [w \in Worker |-> {}]
    /\ overtaken = {} /\ newer = [d \in Device |-> {}]
    /\ deviceChanges = 0 /\ deviceFailures = 0
-----------------------------------------------------------------------------
(* What the rows are computed with.                                         *)

Classify(raw, routes) ==
    LET roles == {r \in Role : \/ r = "exit_node" /\ "exit" \in routes
                               \/ r = "subnet_router" /\ routes \ {"exit"} # {}
                               \/ r = "tagged_server" /\ raw.tags
                               \/ r = "mobile_device" /\ raw.mobile
                               \/ r = "user_workstation" /\ ~raw.mobile /\ ~raw.tags
                                                         /\ raw.login # NoOne}
    IN  IF roles = {} THEN {"standard_node"} ELSE roles

\* The index holds every user row, active or not; of two rows with one login
\* the later one of an unordered query wins.
Owners(login) ==
    LET known == {u \in User : user[u] # "absent" /\ LoginOf[u] = login}
    IN  IF known = {} THEN {NoOne} ELSE known

\* The tracked fields in which two rows differ.
Changed(before, after) ==
    {f \in TrackedField : Snapshot(before)[f] # Snapshot(after)[f]}

\* Mutated: the event keeps the values from before.
RecordChangesBefore(d, before, after, later) ==
    LET changed == Changed(before, after)
    IN  [last |-> [f \in TrackedField |-> IF f \in changed \ later THEN Snapshot(before)[f]
                                          ELSE history[d].last[f]],
         sound |-> /\ history[d].sound /\ changed \cap later = {}
                   /\ \A f \in changed : history[d].last[f] = Snapshot(before)[f],
         misdated |-> (history[d].misdated \ changed) \cup (changed \cap later)]

(* The event of a row that was loaded as before and is committed as after.  *)
(* History is read by occurred_at, which a worker takes before its flush:   *)
(* of the fields in later, an event that is committed already has the later *)
(* time.  Such a field is misdated until another event changes it: the      *)
(* change that is written last is not the one with the latest time.         *)
RecordChanges(d, before, after, later) ==
    LET changed == Changed(before, after)
    IN  [last |-> [f \in TrackedField |-> IF f \in changed \ later THEN Snapshot(after)[f]
                                          ELSE history[d].last[f]],
         sound |-> /\ history[d].sound /\ changed \cap later = {}
                   /\ \A f \in changed : history[d].last[f] = Snapshot(before)[f],
         misdated |-> (history[d].misdated \ changed) \cup (changed \cap later)]

\* Mutated: the whole row is written.
WrittenWhole(now, before, after) == after

\* The columns that differ from what was loaded are written.
Written(now, before, after) ==
    [f \in DOMAIN now |-> IF before[f] = after[f] THEN now[f] ELSE after[f]]
-----------------------------------------------------------------------------
(* The workers.                                                             *)

Stay == UNCHANGED <<tailnet, family, deviceChanges>>
Goes(w, to) == stage' = [stage EXCEPT ![w] = to]
Loads(w) == loaded' = [loaded EXCEPT ![w] = [d \in Device |->
                         IF device[d].active THEN device[d] ELSE NoRow]]
Known(w) == {d \in Device : loaded[w][d] # NoRow}

\* The answers about the devices of asked; each request may fail.
Asks(w, asked, Value_(_)) ==
    \E failing \in SUBSET asked :
        /\ deviceFailures + Cardinality(failing) <= MaxDeviceFailures
        /\ deviceFailures' = deviceFailures + Cardinality(failing)
        /\ answer' = [answer EXCEPT ![w] = [d \in Device |->
                        IF d \in asked \ failing THEN Ok(Value_(d)) ELSE Unasked]]

\* A worker ends and forgets its session.
Finishes(w) ==
    /\ Goes(w, "idle")
    /\ loaded' = [loaded EXCEPT ![w] = [d \in Device |-> NoRow]]
    /\ answer' = [answer EXCEPT ![w] = [d \in Device |-> Unasked]]
    /\ todo' = [todo EXCEPT ![w] = {}]
    /\ listed' = IF w = "users" THEN {} ELSE listed

\* A listing fails, the worker is cancelled, or its process dies.
WorkerFails(w) ==
    /\ stage[w] # "idle" /\ deviceFailures < MaxDeviceFailures
    /\ deviceFailures' = deviceFailures + 1
    /\ Finishes(w)
    /\ UNCHANGED <<tables, overtaken, newer>> /\ Stay

\* client.users(), in the one transaction of the worker.
FetchUsers ==
    /\ stage["users"] = "idle" /\ Goes("users", "commit")
    /\ listed' = account
    /\ UNCHANGED <<tables, loaded, answer, todo, overtaken, newer, deviceFailures>> /\ Stay

\* Mutated: a user who is no longer listed stays active.
StoreUsersKeeps ==
    /\ stage["users"] = "commit"
    /\ user' = [u \in User |-> IF u \in listed THEN "active" ELSE user[u]]
    /\ Finishes("users")
    /\ UNCHANGED <<device, history, posture, invite, overtaken, newer, deviceFailures>> /\ Stay

StoreUsers ==
    /\ stage["users"] = "commit"
    /\ user' = [u \in User |-> IF u \in listed THEN "active"
                               ELSE IF user[u] = "absent" THEN "absent" ELSE "inactive"]
    /\ Finishes("users")
    /\ UNCHANGED <<device, history, posture, invite, overtaken, newer, deviceFailures>> /\ Stay

\* client.devices() and, where the listing lacks it, client.device(id): a failed
\* detail request keeps what an earlier one answered.
FetchDevices ==
    /\ stage["devices"] = "idle" /\ Goes("devices", "commit")
    /\ \E failing \in SUBSET {d \in Device : node[d] # Unlisted} :
          /\ deviceFailures + Cardinality(failing) <= MaxDeviceFailures
          /\ deviceFailures' = deviceFailures + Cardinality(failing)
          /\ answer' = [answer EXCEPT !["devices"] = [d \in Device |->
                          [ok |-> d \notin failing, value |-> node[d]]]]
    /\ UNCHANGED <<tables, loaded, todo, listed, overtaken, newer>> /\ Stay

\* UPDATE devices SET active = false locks every row before they are read: a
\* routes worker that flushes later waits for the commit.  The events are
\* stamped under these locks, so that stamp and commit are one step here.
DeviceRow(d, owner) ==
    LET item == answer["devices"][d].value
        old == device[d]
        stored == IF old = NoRow THEN {} ELSE old.advertised
    IN  IF item = Unlisted
        THEN IF old = NoRow THEN NoRow ELSE [old EXCEPT !.active = FALSE]
        ELSE [active |-> TRUE, raw |-> item, owner |-> owner, advertised |-> stored,
              roles |-> Classify(item, IF item.routes # {} THEN item.routes ELSE stored),
              detail |-> answer["devices"][d].ok \/ (old # NoRow /\ old.detail)]

StoreDevices ==
    /\ stage["devices"] = "commit"
    /\ \E owner \in [Device -> User \cup {NoOne}] :
          /\ \A d \in Device :
                owner[d] \in IF answer["devices"][d].value = Unlisted THEN {NoOne}
                             ELSE Owners(answer["devices"][d].value.login)
          /\ device' = [d \in Device |-> DeviceRow(d, owner[d])]
          /\ history' = [d \in Device |->
                IF answer["devices"][d].value = Unlisted THEN history[d]
                ELSE IF device[d] = NoRow
                     THEN [history[d] EXCEPT !.last = Snapshot(DeviceRow(d, owner[d]))]
                     ELSE RecordChanges(d, device[d], DeviceRow(d, owner[d]), {})]
          /\ newer' = [d \in Device |->
                IF answer["devices"][d].value = Unlisted \/ device[d] = NoRow THEN newer[d]
                ELSE newer[d] \cup Changed(device[d], DeviceRow(d, owner[d]))]
    /\ overtaken' = {d \in overtaken : answer["devices"][d].value = Unlisted}
    /\ Finishes("devices")
    /\ UNCHANGED <<user, posture, invite, deviceFailures>> /\ Stay

\* The active devices are loaded, then their routes are requested.
LoadRoutes ==
    /\ stage["routes"] = "idle" /\ Goes("routes", "fetch")
    /\ Loads("routes")
    /\ UNCHANGED <<tables, listed, answer, todo, overtaken, newer, deviceFailures>> /\ Stay

\* With the last answer, and nothing awaited in between, every event is
\* stamped; only the flush and the commit of StoreRoutes may have to wait.
FetchRoutes ==
    /\ stage["routes"] = "fetch" /\ Goes("routes", "commit")
    /\ Asks("routes", {d \in Known("routes") : node[d] # Unlisted}, LAMBDA d : node[d].routes)
    /\ newer' = [d \in Device |-> {}]
    /\ UNCHANGED <<tables, loaded, todo, listed, overtaken>> /\ Stay

\* The roles are computed from the raw listing as it was loaded.
Routed(d) ==
    LET routes == answer["routes"][d].value
    IN  [loaded["routes"][d] EXCEPT !.advertised = routes,
                                    !.roles = Classify(loaded["routes"][d].raw, routes)]

StoreRoutes ==
    /\ stage["routes"] = "commit"
    /\ LET answered == {d \in Device : answer["routes"][d].ok}
       IN /\ device' = [d \in Device |->
                IF d \in answered THEN Written(device[d], loaded["routes"][d], Routed(d))
                ELSE device[d]]
          /\ history' = [d \in Device |->
                IF d \in answered THEN RecordChanges(d, loaded["routes"][d], Routed(d), newer[d])
                ELSE history[d]]
          /\ overtaken' = overtaken \cup
                {d \in answered : device[d] # loaded["routes"][d] \/ newer[d] # {}}
    /\ Finishes("routes")
    /\ UNCHANGED <<user, posture, invite, newer, deviceFailures>> /\ Stay

\* The active devices are loaded; the requests follow before the first commit.
FetchPosture ==
    /\ stage["posture"] = "idle" /\ Goes("posture", "commit")
    /\ Loads("posture")
    /\ LET active == {d \in Device : device[d].active}
       IN /\ Asks("posture", {d \in active : node[d] # Unlisted}, LAMBDA d : attribute[d])
          /\ todo' = [todo EXCEPT !["posture"] = active]
    /\ UNCHANGED <<tables, listed, overtaken, newer>> /\ Stay

\* Every device is a transaction of its own.
StorePosture(d) ==
    /\ stage["posture"] = "commit" /\ d \in todo["posture"]
    /\ todo' = [todo EXCEPT !["posture"] = @ \ {d}]
    /\ posture' = [posture EXCEPT ![d] =
          IF answer["posture"][d].ok
          THEN [status |-> "available", succeeded |-> TRUE, present |-> answer["posture"][d].value]
          ELSE [posture[d] EXCEPT !.status = IF @ # "none" /\ posture[d].succeeded
                                             THEN "stale" ELSE "unknown"]]
    /\ UNCHANGED <<user, device, history, invite, stage, loaded, listed, answer,
                   overtaken, newer, deviceFailures>>
    /\ Stay

\* Every invite is stale, and committed so, before the first request.
MarkInvites ==
    /\ stage["device_invites"] = "idle" /\ Goes("device_invites", "fetch")
    /\ Loads("device_invites")
    /\ invite' = [i \in Invite |-> IF invite[i].device = NoOne THEN invite[i]
                                   ELSE [invite[i] EXCEPT !.stale = TRUE]]
    /\ UNCHANGED <<user, device, history, posture, listed, answer, todo, overtaken, newer,
                   deviceFailures>>
    /\ Stay

FetchInvites ==
    /\ stage["device_invites"] = "fetch" /\ Goes("device_invites", "commit")
    /\ Asks("device_invites", {d \in Known("device_invites") : node[d] # Unlisted},
            LAMBDA d : invites[d])
    /\ todo' = [todo EXCEPT !["device_invites"] = Known("device_invites")]
    /\ UNCHANGED <<tables, loaded, listed, overtaken, newer>> /\ Stay

\* Mutated: every invite of the device turns fresh.
InviteRowsFresh(d, told) ==
    [i \in Invite |->
       IF i \in told THEN [device |-> d, present |-> TRUE, stale |-> FALSE]
       ELSE IF invite[i].device = d THEN [invite[i] EXCEPT !.stale = FALSE]
       ELSE invite[i]]

\* One transaction per device that answered.
InviteRows(d, told) ==
    [i \in Invite |->
       IF i \in told THEN [device |-> d, present |-> TRUE, stale |-> FALSE]
       ELSE IF invite[i].device = d THEN [invite[i] EXCEPT !.present = FALSE]
       ELSE invite[i]]

StoreInvites(d) ==
    /\ stage["device_invites"] = "commit" /\ d \in todo["device_invites"]
    /\ todo' = [todo EXCEPT !["device_invites"] = @ \ {d}]
    /\ invite' = IF answer["device_invites"][d].ok
                 THEN InviteRows(d, answer["device_invites"][d].value) ELSE invite
    /\ UNCHANGED <<user, device, history, posture, stage, loaded, listed, answer,
                   overtaken, newer, deviceFailures>>
    /\ Stay

EndOfLoop(w) ==
    /\ w \in {"posture", "device_invites"}
    /\ stage[w] = "commit" /\ todo[w] = {}
    /\ Finishes(w)
    /\ UNCHANGED <<tables, overtaken, newer, deviceFailures>> /\ Stay

Works(w) ==
    /\ w \in family
    /\ \/ w = "users" /\ (FetchUsers \/ StoreUsers)
       \/ w = "devices" /\ (FetchDevices \/ StoreDevices)
       \/ w = "routes" /\ (LoadRoutes \/ FetchRoutes \/ StoreRoutes)
       \/ w = "posture" /\ (FetchPosture \/ \E d \in Device : StorePosture(d))
       \/ w = "device_invites" /\ (MarkInvites \/ FetchInvites \/ \E d \in Device : StoreInvites(d))
       \/ EndOfLoop(w)
-----------------------------------------------------------------------------
(* Upstream changes at any time.                                            *)

TailnetChanges(w) ==
    /\ w \in family /\ deviceChanges < MaxDeviceChanges /\ deviceChanges' = deviceChanges + 1
    /\ \/ /\ w = "users" /\ account' \in SUBSET User
          /\ UNCHANGED <<node, attribute, invites>>
       \/ /\ w \in {"devices", "routes"}
          /\ \E d \in Device, to \in Node \cup {Unlisted} : node' = [node EXCEPT ![d] = to]
          /\ UNCHANGED <<account, attribute, invites>>
       \/ /\ w = "posture"
          /\ \E d \in Device, to \in Value : attribute' = [attribute EXCEPT ![d] = to]
          /\ UNCHANGED <<account, node, invites>>
       \/ /\ w = "device_invites"
          /\ \E d \in Device, to \in SUBSET Invite :
                invites' = [e \in Device |-> IF e = d THEN to ELSE invites[e] \ to]
          /\ UNCHANGED <<account, node, attribute>>
    /\ UNCHANGED <<tables, family, stage, loaded, listed, answer, todo, overtaken, newer,
                   deviceFailures>>

DeviceNext == \E w \in Worker : TailnetChanges(w) \/ Works(w) \/ (w \in family /\ WorkerFails(w))

DeviceSpec == DeviceInit /\ [][DeviceNext]_deviceVars

\* Every source is scheduled every five minutes and its requests end.
Fairness == \A w \in Worker : WF_deviceVars(Works(w))

FairDeviceSpec == DeviceSpec /\ Fairness
-----------------------------------------------------------------------------
(* Correctness.                                                             *)

(* The roles of a device are those of its stored listing and routes, unless *)
(* a routes worker that had loaded the row before a devices worker changed  *)
(* it committed afterwards; the next devices worker repairs that.           *)
RolesAgree ==
    \A d \in Device \ overtaken :
        device[d] # NoRow =>
            LET row == device[d]
            IN  \/ row.roles = Classify(row.raw, row.advertised)
                \/ row.raw.routes # {} /\ row.roles = Classify(row.raw, row.raw.routes)

(* The history of a device, read by occurred_at, ends in what the device    *)
(* shows, whichever workers overlap: no committed change of a tracked field *)
(* is missing from it.  The exception is a routes worker that stamps its    *)
(* event, waits for the row locks of a devices worker, and commits after    *)
(* it: of a field both changed, the history then ends in the devices        *)
(* worker's event, until another event changes the field.                   *)
HistoryShowsDevice ==
    \A d \in Device :
        device[d] # NoRow =>
            \A f \in TrackedField \ history[d].misdated :
                history[d].last[f] = Snapshot(device[d])[f]

(* The rows of a device agree with each other in every state.               *)
DeviceInv == DeviceTypeOK /\ RolesAgree /\ HistoryShowsDevice

(* Every event starts from what the event before it, by occurred_at, ended  *)
(* in: whatever the users and devices workers do, and also the routes       *)
(* worker, unless a devices worker changed the row after it was loaded.     *)
HistoryIsAChain ==
    [][\A d \in Device :
          history[d].sound /\ ~history'[d].sound => d \in overtaken']_deviceVars

(* An invite that is shown present and fresh was listed for its device by   *)
(* the newest answer stored for that device: a failed or interrupted run    *)
(* leaves stale rows, never fresh ones that nobody confirmed.               *)
FreshInviteIsConfirmed ==
    [][\A i \in Invite :
          /\ invite'[i].present /\ ~invite'[i].stale
          /\ invite'[i] # invite[i]
          => \E d \in todo["device_invites"] :
                /\ answer["device_invites"][d].ok
                /\ invite'[i].device = d /\ i \in answer["device_invites"][d].value]_deviceVars

\* What the store shows when it has caught up with upstream.
UsersAgree == \A u \in User : user[u] = "active" <=> u \in account
DeviceAgrees(d) ==
    /\ device[d].active <=> node[d] # Unlisted
    /\ device[d].active =>
          /\ device[d].raw = node[d]
          /\ "users" \in family => device[d].owner \in Owners(node[d].login)
          /\ "routes" \in family =>
                /\ device[d].advertised = node[d].routes
                /\ device[d].roles = Classify(node[d], node[d].routes)
PostureAgrees(d) ==
    device[d].active => posture[d].status = "available" /\ posture[d].present = attribute[d]
InvitesAgree(d) ==
    \A i \in Invite :
        /\ device[d].active /\ i \in invites[d] => invite[i].present /\ invite[i].device = d
        /\ i \notin invites[d] /\ device[d].active /\ invite[i].device = d
              => ~invite[i].present

(* Once upstream and its failures are quiet, the inventory catches up with  *)
(* it, whatever order the workers ran in before and whatever they had       *)
(* loaded: joins that were made too early and overtaken rows are repaired,  *)
(* and invites that a broken run left stale turn fresh again (they are all  *)
(* stale for a while in every run).                                         *)
CatchesUp ==
    /\ <>[](/\ "users" \in family => UsersAgree
            /\ \A d \in Device :
                  /\ "devices" \in family => DeviceAgrees(d)
                  /\ {"devices", "posture"} \subseteq family => PostureAgrees(d)
                  /\ {"devices", "device_invites"} \subseteq family => InvitesAgree(d))
    /\ \A d \in Device, i \in Invite :
          []<>(device[d].active /\ i \in invites[d] /\ "device_invites" \in family
                  => ~invite[i].stale)
=============================================================================
