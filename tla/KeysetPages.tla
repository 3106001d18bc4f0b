----------------------------- MODULE KeysetPages ----------------------------
(***************************************************************************)
(* The lists of backend/app/api.py that are read page by page: a page is   *)
(* what follows the cursor, the cursor is the key of the last row shown,   *)
(* and rows come, go and move between two pages.  A filter of the request  *)
(* is abstracted: a row that stops to match is removed, one that begins to *)
(* match is added.  A name is told from its folded form, since one list    *)
(* sorts by lower() and another compares by casefold().                    *)
(***************************************************************************)
EXTENDS Naturals, FiniteSets

CONSTANTS
    Entry,       \* the ids of the rows, in their order
    Fold,        \* Fold[k]: what casefold() makes of the lower-cased name k
    Limit,       \* rows on a page
    MaxChanges,  \* bound: changes of the table while it is read
    NoCursor

Key == DOMAIN Fold

ASSUME PagesAssumption ==
    /\ Entry \subseteq Nat /\ Key \subseteq Nat /\ Fold \in [Key -> Key]
    /\ IsFiniteSet(Entry) /\ NoCursor \notin Nat \X Nat
    /\ Limit \in Nat \ {0} /\ MaxChanges \in Nat

VARIABLES
    list,     \* the list that is read
    table,    \* table[e]: the time or the name of row e
    changes,
    cursor,   \* next_cursor, once a page was read
    pages,    \* what the client does: "first", "next" or "done"
    \* --- history for the properties
    shown, again,  \* the rows that were shown, and those shown once more
    whole,         \* the rows there at the first page that have not changed since
    left,          \* the rows that were removed since
    names          \* the keys there were since

pageVars == <<list, table, changes, cursor, pages, shown, again, whole, left, names>>
-----------------------------------------------------------------------------
(* The lists.  "ties" is the order of ids among rows of one key; "moves"    *)
(* says how the key of a row can change; "added" where new rows appear.     *)

ByTime(name, ties, moves, added) ==
    [name |-> name, newest |-> TRUE, ties |-> ties, moves |-> moves, added |-> added,
     sorted |-> "lower", cursor |-> "lower", compared |-> "lower", rest |-> FALSE]
\* Sorted, remembered and compared by the name or by its folded form.
ByName(name, moves, sorted, remembered, compared) ==
    [name |-> name, newest |-> FALSE, ties |-> "ascending", moves |-> moves, added |-> "anywhere",
     sorted |-> sorted, cursor |-> remembered, compared |-> compared, rest |-> FALSE]

telemetry_observations == ByTime("telemetry", "descending", "never", "anywhere")
flows == ByTime("flows", "descending", "never", "anywhere")
auth_events == ByTime("auth_events", "descending", "never", "top")
reports == ByTime("reports", "descending", "never", "top")
device_history == ByTime("device_history", "descending", "never", "top")
operation_jobs == ByTime("operational-jobs", "descending", "never", "top")
app_sessions == ByTime("app_sessions", "descending", "raised", "top")
findings_list == ByTime("findings", "ascending", "raised", "top")
app_users == ByName("app_users", "never", "lower", "folded", "lower")
services == ByName("services", "renamed", "lower", "folded", "lower")
devices == ByName("devices", "renamed", "lower", "lower", "lower")
devices_by_posture == ByName("devices", "renamed", "lower", "folded", "folded")
governance_credentials == ByName("governance_credentials", "renamed", "folded", "folded", "folded")
\* The page starts at the first row beyond the cursor, whatever comes behind it.
security_posture_devices ==
    [ByName("posture_devices", "renamed", "lower", "folded", "folded") EXCEPT !.rest = TRUE]

Lists == {telemetry_observations, flows, auth_events, reports, device_history, operation_jobs,
          app_sessions, findings_list, app_users, services, devices, devices_by_posture,
          governance_credentials, security_posture_devices}
-----------------------------------------------------------------------------
(* Order, cursor and page.                                                  *)

KeyBy(form, k) == IF form = "folded" THEN Fold[k] ELSE k
SortKey(e) == <<KeyBy(list.sorted, table[e]), e>>
CompareKey(e) == <<KeyBy(list.compared, table[e]), e>>

TieOrder(d, e) == IF list.ties = "ascending" THEN d < e ELSE e < d

Precedes(a, b) ==
    \/ IF list.newest THEN a[1] > b[1] ELSE a[1] < b[1]
    \/ a[1] = b[1] /\ TieOrder(a[2], b[2])

\* Mutated: the id of the cursor is not looked at.
BehindByKey(e) == CompareKey(e)[1] # cursor[1] /\ Precedes(cursor, CompareKey(e))
Behind(e) == Precedes(cursor, CompareKey(e))

Beyond == {e \in DOMAIN table : cursor = NoCursor \/ Behind(e)}
Rest ==
    IF list.rest
    THEN {e \in DOMAIN table : e \in Beyond \/ \E d \in Beyond : Precedes(SortKey(d), SortKey(e))}
    ELSE Beyond

\* How many rows of Rest come before e in the order of the list.
Place(e) == Cardinality({d \in Rest \ {e} : Precedes(SortKey(d), SortKey(e))})
Page == {e \in Rest : Place(e) < Limit}
LastOf(page) == CHOOSE e \in page : \A d \in page : Place(d) <= Place(e)

\* A next cursor is given only where a row more than the page was found.
Read ==
    /\ pages # "done"
    /\ LET more == Cardinality(Rest) > Limit
           e == LastOf(Page)
       IN /\ pages' = IF more THEN "next" ELSE "done"
          /\ cursor' = IF more THEN <<KeyBy(list.cursor, table[e]), e>> ELSE NoCursor
    /\ shown' = shown \cup Page
    /\ again' = again \cup (shown \cap Page)
    /\ IF pages = "first" THEN whole' = DOMAIN table /\ names' = {table[e] : e \in DOMAIN table}
       ELSE UNCHANGED <<whole, names>>
    /\ UNCHANGED <<list, table, changes, left>>
-----------------------------------------------------------------------------
(* The table while it is read.                                              *)

Changed(e) ==
    /\ pages = "next" /\ changes < MaxChanges
    /\ changes' = changes + 1 /\ whole' = whole \ {e}
    /\ names' = names \cup {table'[d] : d \in DOMAIN table'}
    /\ UNCHANGED <<list, cursor, pages, shown, again>>
Top(k) == \A d \in DOMAIN table : table[d] <= k

Add(e) ==
    /\ e \notin DOMAIN table
    /\ \E k \in Key :
          /\ list.added = "top" => Top(k)
          /\ table' = [d \in DOMAIN table \cup {e} |-> IF d = e THEN k ELSE table[d]]
    /\ Changed(e) /\ UNCHANGED left

Drop(e) ==
    /\ table' = [d \in DOMAIN table \ {e} |-> table[d]]
    /\ left' = left \cup {e}
    /\ Changed(e)

\* last_seen_at and last_seen only move up to now; a name becomes any other.
Move(e) ==
    /\ list.moves # "never"
    /\ \E k \in Key \ {table[e]} :
          (list.moves = "raised" => Top(k)) /\ table' = [table EXCEPT ![e] = k]
    /\ Changed(e) /\ UNCHANGED left

PagesInit ==
    /\ list \in Lists /\ table \in UNION {[E -> Key] : E \in SUBSET Entry}
    /\ changes = 0 /\ cursor = NoCursor /\ pages = "first"
    /\ shown = {} /\ again = {} /\ whole = {} /\ left = {} /\ names = {}

PagesNext ==
    \/ Read
    \/ \E e \in Entry : Add(e)
    \/ \E e \in DOMAIN table : Drop(e) \/ Move(e)

PagesSpec == PagesInit /\ [][PagesNext]_pageVars
-----------------------------------------------------------------------------
PagesTypeOK ==
    /\ list \in Lists /\ DOMAIN table \subseteq Entry /\ changes \in 0 .. MaxChanges
    /\ \A e \in DOMAIN table : table[e] \in Key
    /\ pages \in {"first", "next", "done"} /\ (cursor = NoCursor <=> pages # "next")
    /\ shown \cup again \cup whole \cup left \subseteq Entry /\ names \subseteq Key

\* Where lower() and casefold() agree, as they do for ASCII.
PlainNames == list.newest \/ \A k \in names : Fold[k] = k

(* A client that reads to the end has seen every row that was there from    *)
(* the first page on and did not change, and no such row twice; in a list   *)
(* by time a row comes twice only if it was gone in between.                *)
PagesAreComplete ==
    /\ PagesTypeOK
    /\ PlainNames =>
          /\ pages = "done" => whole \subseteq shown
          /\ again \cap whole = {}
          /\ list.newest => again \subseteq left
=============================================================================
