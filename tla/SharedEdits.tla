----------------------------- MODULE SharedEdits -----------------------------
(***************************************************************************)
(* Saved views, the default view of a user, and the local metadata of a    *)
(* device: rows that several people edit, guarded by a revision number.    *)
(* A request is two steps: it loads what it checks, and it commits; the    *)
(* session writes only the columns that differ from what was loaded, and   *)
(* nothing locks a row in between.  Views of one page, of one schema.      *)
(***************************************************************************)
EXTENDS Integers, Sequences, FiniteSets

CONSTANTS
    View,           \* bound: the views that can be created
    User, Admin,    \* the users, and those who are administrators
    Client,         \* the browsers, each with one request at a time
    Name, Content,
    Limit,          \* settings.saved_view_limit
    Scenarios,      \* bounds: [ops, requests, user, start, horizon], one in a behaviour
    Device,         \* the device whose metadata is edited
    None

VARIABLES
    scenario, requests,   \* what may be requested, from which views, and how often
    user,           \* user[c]: who is logged in at c
    request,        \* request[c]: what the request of c has loaded
    seen,           \* seen[c][v]: what the last answer about v, or about Device, told c
    view, used,     \* the rows of saved_views, and every id there was
    default,        \* default[u]: the row of saved_view_defaults, or None
    metadata,       \* the row of local_metadata; revision 0 is no row
    edits,          \* the metadata_changed events: [before, after]
    \* --- history for the properties
    raced,          \* the views two overlapping updates were committed to
    racedMetadata

edited == <<view, used, default, metadata, edits, raced, racedMetadata>>
editVars == <<scenario, requests, user, request, seen, view, used, default, metadata, edits,
              raced, racedMetadata>>

Idle == [op |-> "idle"]
Payload == [name : Name, shared : BOOLEAN, content : Content]
Row == [owner : User, name : Name, shared : BOOLEAN, content : Content, revision : Nat]
Metadata == [content : Content \cup {None}, revision : Nat]

\* A scenario starts with views at their first revision, within the limit.
ASSUME EditsAssumption ==
    /\ Admin \subseteq User
    /\ Limit \in Nat \ {0}
    /\ None \notin View \cup Content /\ Device \notin View \cup {None}
    /\ IsFiniteSet(View) /\ IsFiniteSet(Client)
    /\ \A s \in Scenarios :
          /\ s.requests \in Nat /\ s.user \in [Client -> User]
          /\ DOMAIN s.start \subseteq View
          /\ \A v \in DOMAIN s.start : s.start[v] \in Row /\ s.start[v].revision = 1
          /\ \A u \in User :
                Cardinality({v \in DOMAIN s.start : s.start[v].owner = u}) <= Limit

EditsTypeOK ==
    /\ scenario \in Scenarios /\ requests \in 0 .. scenario.requests
    /\ user \in [Client -> User]
    /\ DOMAIN request = Client
    /\ \A c \in Client : request[c] # Idle => request[c].op \in scenario.ops
    /\ used \subseteq View /\ DOMAIN view \subseteq used
    /\ \A v \in DOMAIN view : view[v] \in Row /\ view[v].revision \in 1 .. requests + 1
    /\ \A c \in Client : DOMAIN seen[c] \subseteq used \cup {Device}
    /\ default \in [User -> View \cup {None}]
    /\ metadata \in Metadata /\ Len(edits) <= requests
    /\ raced \subseteq used /\ racedMetadata \in BOOLEAN

EditsInit ==
    /\ scenario \in Scenarios /\ requests = 0
    /\ user = scenario.user
    /\ request = [c \in Client |-> Idle]
    /\ seen = [c \in Client |-> <<>>]
    /\ view = scenario.start /\ used = DOMAIN view
    /\ default = [u \in User |-> None]
    /\ metadata = [content |-> None, revision |-> 0] /\ edits = <<>>
    /\ raced = {} /\ racedMetadata = FALSE
-----------------------------------------------------------------------------
\* The rows f with those of new inserted or replaced; the row of x among them.
Merged(new, f) ==
    [x \in DOMAIN new \cup DOMAIN f |-> IF x \in DOMAIN new THEN new[x] ELSE f[x]]
With(f, x, row) == Merged([y \in {x} |-> row], f)

Visible(u, v) ==
    v \in DOMAIN view /\ (u \in Admin \/ view[v].owner = u \/ view[v].shared)
MayEdit(u, v) ==
    v \in DOMAIN view /\ (u \in Admin \/ view[v].owner = u)

OwnedBy(u) == {v \in DOMAIN view : view[v].owner = u}
NameIsFree(u, name, except) == \A v \in OwnedBy(u) \ except : view[v].name # name

BelowLimit(u) == Cardinality(OwnedBy(u)) < Limit

\* The values written: those that differ from what the session loaded.
Written(loaded, value, row) ==
    [f \in DOMAIN row |-> IF f \in DOMAIN value /\ value[f] # loaded[f] THEN value[f] ELSE row[f]]

\* The request of c has passed its checks.
Passed(c, loaded) ==
    /\ request[c] = Idle /\ loaded.op \in scenario.ops
    /\ requests < scenario.requests /\ requests' = requests + 1
    /\ request' = [request EXCEPT ![c] = loaded]
    /\ UNCHANGED <<scenario, user, seen, edited>>

Ends(c, op) ==
    /\ request[c].op = op
    /\ request' = [request EXCEPT ![c] = Idle]
    /\ UNCHANGED <<scenario, requests, user>>

\* An IntegrityError or a StaleDataError: the commit is rolled back.
Refuse == UNCHANGED <<seen, edited>>
-----------------------------------------------------------------------------
(* Saved views.                                                             *)

Tell(c, v, row) == seen' = [seen EXCEPT ![c] = With(@, v, row)]

ReadView(c) ==
    /\ request[c] = Idle /\ scenario.ops # {}
    /\ \E v \in DOMAIN view : Visible(user[c], v) /\ Tell(c, v, view[v]) /\ seen' # seen
    /\ UNCHANGED <<scenario, requests, user, request, edited>>

Creating(d) == request[d].op \in {"create", "clone"}

\* There is an id left for every request that creates a view.
RoomFor == Cardinality({d \in Client : Creating(d)}) < Cardinality(View \ used)

CreateView(c) ==
    /\ BelowLimit(user[c]) /\ RoomFor
    /\ \E p \in Payload :
          /\ NameIsFree(user[c], p.name, {})
          /\ Passed(c, [op |-> "create", row |-> p])

CloneView(c) ==
    /\ BelowLimit(user[c]) /\ RoomFor
    /\ \E v \in DOMAIN view, name \in Name, shared \in BOOLEAN :
          /\ Visible(user[c], v)
          /\ NameIsFree(user[c], name, {})
          /\ Passed(c, [op |-> "clone",
                        row |-> [name |-> name, shared |-> shared, content |-> view[v].content]])

\* The unique index on owner and name decides.
InsertView(c) ==
    /\ Creating(c) /\ Ends(c, request[c].op)
    /\ LET row == Merged([owner |-> user[c], revision |-> 1], request[c].row)
       IN \/ /\ ~NameIsFree(row.owner, row.name, {})
             /\ Refuse
          \/ /\ NameIsFree(row.owner, row.name, {})
             /\ LET v == CHOOSE w \in View \ used : TRUE
                IN /\ used' = used \cup {v}
                   /\ view' = With(view, v, row)
                   /\ Tell(c, v, row)
             /\ UNCHANGED <<default, metadata, edits, raced, racedMetadata>>

\* Mutated: the revision that was sent is not compared.
UpdateViewBlindly(c) ==
    \E v \in DOMAIN seen[c] \cap View, p \in Payload :
       /\ MayEdit(user[c], v)
       /\ NameIsFree(view[v].owner, p.name, {v})
       /\ Passed(c, [op |-> "update", view |-> v, loaded |-> view[v], row |-> p])

UpdateView(c) ==
    \E v \in DOMAIN seen[c] \cap View, p \in Payload :
       /\ MayEdit(user[c], v)
       /\ view[v].revision = seen[c][v].revision
       /\ NameIsFree(view[v].owner, p.name, {v})
       /\ Passed(c, [op |-> "update", view |-> v, loaded |-> view[v], row |-> p])

NextRevision(loaded, row) == loaded.revision + 1

\* UPDATE ... WHERE id: no row, a name taken meanwhile, or the new revision is
\* one more than the loaded one, whatever was committed in between.  The answer
\* is the object of the session.
WriteView(c) ==
    /\ Ends(c, "update")
    /\ LET v == request[c].view
           loaded == request[c].loaded
           value == With(request[c].row, "revision", NextRevision(loaded, request[c].row))
       IN \/ /\ v \notin DOMAIN view
             /\ Refuse
          \/ /\ v \in DOMAIN view
             /\ LET row == Written(loaded, value, view[v])
                IN \/ /\ ~NameIsFree(row.owner, row.name, {v})
                      /\ Refuse
                   \/ /\ NameIsFree(row.owner, row.name, {v})
                      /\ view' = [view EXCEPT ![v] = row]
                      /\ Tell(c, v, Merged(value, loaded))
                      /\ raced' = IF view[v].revision = loaded.revision THEN raced
                                  ELSE raced \cup {v}
                      /\ UNCHANGED <<used, default, metadata, edits, racedMetadata>>

RemoveView(c) ==
    \E v \in DOMAIN view :
       /\ MayEdit(user[c], v)
       /\ Passed(c, [op |-> "delete", view |-> v])

\* ON DELETE CASCADE takes the defaults; a row that is already gone is no error.
DropView(v) ==
    /\ view' = [w \in DOMAIN view \ {v} |-> view[w]]
    /\ default' = [u \in User |-> IF default[u] = v THEN None ELSE default[u]]
    /\ UNCHANGED <<seen, used, metadata, edits, raced, racedMetadata>>

DeleteView(c) == Ends(c, "delete") /\ DropView(request[c].view)

SetDefault(c) ==
    \E v \in DOMAIN view \cup {None} :
       /\ v # None => Visible(user[c], v)
       /\ Passed(c, [op |-> "default", view |-> v, loaded |-> default[user[c]]])

\* The row is inserted if there was none when it was loaded, else updated; the
\* view it names must exist.
Stored(u, loaded, v) ==
    IF v = None THEN IF loaded = None THEN default[u] ELSE None
    ELSE IF v \notin DOMAIN view \/ (loaded = None) # (default[u] = None) \/ loaded = v
    THEN default[u]
    ELSE v

WriteDefault(c) ==
    /\ Ends(c, "default")
    /\ default' = [default EXCEPT ![user[c]] = Stored(user[c], request[c].loaded, request[c].view)]
    /\ UNCHANGED <<seen, view, used, metadata, edits, raced, racedMetadata>>
-----------------------------------------------------------------------------
(* The metadata of a device.                                                *)

ReadMetadata(c) ==
    /\ request[c] = Idle /\ "metadata" \in scenario.ops /\ metadata.revision # 0
    /\ Tell(c, Device, metadata) /\ seen' # seen
    /\ UNCHANGED <<scenario, requests, user, request, edited>>

\* The expected revision is optional; where there is no row none matches.
UpdateMetadata(c) ==
    /\ user[c] \in Admin
    /\ \E x \in Content, checked \in BOOLEAN :
          /\ checked => Device \in DOMAIN seen[c] /\ seen[c][Device].revision = metadata.revision
          /\ Passed(c, [op |-> "metadata", loaded |-> metadata, content |-> x, checked |-> checked])

\* Mutated: the snapshot is taken after the assignment.
EventLate(loaded, value) == [before |-> value.content, after |-> value.content]
Event(loaded, value) == [before |-> loaded.content, after |-> value.content]

\* The event carries what was loaded and what was asked for.
WriteMetadata(c) ==
    /\ Ends(c, "metadata")
    /\ LET loaded == request[c].loaded
           value == [content |-> request[c].content, revision |-> loaded.revision + 1]
       IN \/ /\ loaded.revision = 0 /\ metadata.revision # 0    \* the key exists meanwhile
             /\ Refuse
          \/ /\ loaded.revision # 0 \/ metadata.revision = 0
             /\ metadata' = Written(loaded, value, metadata)
             /\ edits' = IF value.content = loaded.content THEN edits
                         ELSE Append(edits, Event(loaded, value))
             /\ racedMetadata' = (racedMetadata \/ metadata.revision # loaded.revision)
             /\ Tell(c, Device, value)
             /\ UNCHANGED <<view, used, default, raced>>

EditStep(c) ==
    \/ ReadView(c)
    \/ CreateView(c) \/ CloneView(c) \/ InsertView(c)
    \/ UpdateView(c) \/ WriteView(c)
    \/ RemoveView(c) \/ DeleteView(c)
    \/ SetDefault(c) \/ WriteDefault(c)
    \/ ReadMetadata(c) \/ UpdateMetadata(c) \/ WriteMetadata(c)
-----------------------------------------------------------------------------
(* Correctness.                                                             *)

(* An update that no other update overlapped replaces exactly what its      *)
(* editor was shown, whoever edited, renamed, shared or read in between: a  *)
(* revision number stands for one content.  Two updates that overlap break  *)
(* it, because the revision is compared before the write and not by it.     *)
NoBlindOverwrite ==
    [][\A c \in Client : request[c] # Idle /\ request'[c] = Idle =>
          /\ request[c].op = "update" =>
                LET v == request[c].view
                IN v \in DOMAIN view \ raced' /\ view' # view => seen[c][v] = view[v]
          /\ request[c].op = "metadata" /\ request[c].checked =>
                (~racedMetadata' /\ metadata' # metadata => seen[c][Device] = metadata)
      ]_editVars

(* The metadata_changed events of a device tell its metadata: each begins   *)
(* where the one before it ended, and the last one ended where it is now,   *)
(* unless two updates overlapped.                                           *)
MetadataHistoryIsAChain ==
    ~racedMetadata =>
       /\ \A i \in DOMAIN edits :
             edits[i].before = IF i = 1 THEN None ELSE edits[i - 1].after
       /\ edits # <<>> => edits[Len(edits)].after = metadata.content

(* A user exceeds saved_view_limit by the requests that were under way      *)
(* together, never by more: the views are counted before the insert.        *)
LimitHolds ==
    \A u \in User :
       \/ Cardinality(OwnedBy(u)) <= Limit
       \/ Cardinality(OwnedBy(u)) < Limit + Cardinality({c \in Client : user[c] = u})
=============================================================================
