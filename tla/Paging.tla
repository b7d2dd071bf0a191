-------------------------------- MODULE Paging --------------------------------
(***************************************************************************)
(* A client walks through the pages of a list, accounts or sessions, while *)
(* others write.  A page is two statements, the count and the rows, each   *)
(* of which sees what is committed when it runs.                           *)
(***************************************************************************)
EXTENDS Integers, Sequences, FiniteSets, SequencesExt

CONSTANTS
    Rows,       \* ids
    Times,      \* values of created_at
    Queries,    \* what clients ask for
    None

Roles == {"user", "admin", "super_admin"}
Users == [created_at : Times, role : Roles, full_name : {"A", None}]
Sessions == [created_at : Times, active : BOOLEAN]

(* None is a filter that is not given.  A session query is about the       *)
(* caller's own.                                                           *)
UserQueries == [resource : {"users"}, actor : {"admin", "super_admin"},
                limit : 1..100, method : {"asc", "desc"}, sort_key : STRING,
                role : Roles \cup {None}, is_profile_completed : BOOLEAN \cup {None}]
SessionQueries == [resource : {"sessions"}, actor : Roles, limit : 1..100,
                   method : {"asc", "desc"}, sort_key : STRING,
                   is_active : BOOLEAN \cup {None}]

ASSUME PagingAssumption ==
    /\ IsFiniteSet(Rows) /\ Times \subseteq Nat
    /\ Queries \subseteq UserQueries \cup SessionQueries
    /\ None \notin Users \cup Sessions \cup Queries \cup Roles

VARIABLES
    resource,   \* what the table holds
    table,      \* the committed rows
    pc, query, page, total,  \* the walk: its query, the page and its count
    items,      \* the rows it has got so far
    roles,      \* (ghost) the roles they had when they were read
    begun,      \* (ghost) the ids that matched when it began
    changed, inserted,  \* (ghost) writes since it began
    late        \* (ghost) insertions since the count of this page

walk == <<pc, query, page, total, items, roles, begun>>
ghosts == <<changed, inserted, late>>
vars == <<resource, table, walk, ghosts>>

WalkTypeOK ==
    /\ resource \in {"users", "sessions"}
    /\ table \in [Rows -> (IF resource = "users" THEN Users ELSE Sessions) \cup {None}]
    /\ pc \in {"idle", "count", "list", "done", "refused"}
    /\ query \in Queries \cup {None}
    /\ page \in Nat /\ total \in 0..Cardinality(Rows)
    /\ items \in Seq(Rows) /\ roles \subseteq Roles
    /\ begun \subseteq Rows
    /\ changed \in BOOLEAN /\ inserted \in BOOLEAN /\ late \in Nat
    /\ page <= 1 \/ page <= Cardinality(Rows)

Init ==
    /\ resource \in {"users", "sessions"}
    /\ table = [r \in Rows |-> None]
    /\ pc = "idle" /\ query = None /\ page = 0 /\ total = 0
    /\ items = <<>> /\ roles = {} /\ begun = {}
    /\ changed = FALSE /\ inserted = FALSE /\ late = 0

Present == {r \in Rows : table[r] # None}

-----------------------------------------------------------------------------
(* One page *)

Given(filter, value) == filter = None \/ value = filter

(* Conditions on status, verification, time and text are of the same form; *)
(* completed_at is NULL with full_name here.                               *)
UserConditions(q, role, row) ==
    /\ Given(role, row.role)
    /\ Given(q.is_profile_completed, row.full_name # None)

SessionConditions(q, row) == Given(q.is_active, row.active)

(* Slip: the filter as it was asked for. *)
RoleFilterAsAsked(q) == q.role

(* An admin asks for users, whatever the request says. *)
RoleFilter(q) == IF q.actor = "super_admin" THEN q.role ELSE "user"

RefusedRole(q) ==
    q.resource = "users" /\ q.actor # "super_admin" /\ q.role \notin {None, "user"}

Matches(q, row) ==
    IF q.resource = "users" THEN UserConditions(q, RoleFilter(q), row)
                            ELSE SessionConditions(q, row)

Matching(q) == {r \in Present : Matches(q, table[r])}

(* One column of each kind: a time, an enumeration, and one with NULLs.    *)
SortColumns == IF resource = "users" THEN {"created_at", "role", "full_name"}
                                     ELSE {"created_at"}

(* In the database's order, in which NULL comes last. *)
Rank(key, row) ==
    CASE key = "created_at" -> row.created_at
      [] key = "role" -> IF row.role = "admin" THEN 1 ELSE IF row.role = "super_admin" THEN 2 ELSE 3
      [] key = "full_name" -> IF row.full_name = None THEN 2 ELSE 1

Precedes(q, r, s) ==
    LET a == Rank(q.sort_key, table[r]) b == Rank(q.sort_key, table[s])
    IN IF q.method = "asc" THEN a < b ELSE b < a

(* Every order that ORDER BY allows: ties fall as they fall. *)
Sorted(q) == {seq \in SetToSeqs(Matching(q)) :
                 \A i, j \in DOMAIN seq : i < j => ~Precedes(q, seq[j], seq[i])}

(* Slip: pages counted from zero. *)
OffsetFromZero(q) == page * q.limit

Offset(q) == (page - 1) * q.limit

(* Slip: the last page is forgotten unless it is full. *)
FullPages(count, limit) == count \div limit

TotalPages(count, limit) == (count + limit - 1) \div limit

(* Slip: a page after the last. *)
HasOneMore(q) == page <= TotalPages(total, q.limit)

HasNext(q) == page < TotalPages(total, q.limit)

Slice(q, seq) == SubSeq(seq, Offset(q) + 1, Min({Offset(q) + q.limit, Len(seq)}))

-----------------------------------------------------------------------------
(* The walk *)

Ask ==
    /\ pc = "idle"
    /\ \E q \in Queries :
          /\ q.resource = resource
          /\ query' = q
          /\ IF RefusedRole(q)
             THEN pc' = "done" /\ begun' = {}
             ELSE pc' = "count" /\ begun' = Matching(q)
    /\ page' = 1 /\ total' = 0 /\ items' = <<>> /\ roles' = {}
    /\ changed' = FALSE /\ inserted' = FALSE /\ late' = 0
    /\ UNCHANGED <<resource, table>>

Count ==
    /\ pc = "count" /\ pc' = "list"
    /\ total' = Cardinality(Matching(query))
    /\ late' = 0
    /\ UNCHANGED <<resource, table, query, page, items, roles, begun, changed, inserted>>

List ==
    /\ pc = "list"
    /\ IF query.sort_key \notin SortColumns
       THEN pc' = "refused" /\ UNCHANGED <<items, roles, page>>
       ELSE /\ \E seq \in Sorted(query) : LET shown == Slice(query, seq) IN
                  /\ items' = items \o shown
                  /\ roles' = roles \cup
                        IF resource = "users" THEN {table[r].role : r \in ToSet(shown)} ELSE {}
            /\ IF HasNext(query) THEN pc' = "count" /\ page' = page + 1
                                 ELSE pc' = "done" /\ UNCHANGED page
    /\ UNCHANGED <<resource, table, query, total, begun, ghosts>>

Close ==
    /\ pc \in {"done", "refused"} /\ pc' = "idle"
    /\ query' = None /\ page' = 0 /\ total' = 0 /\ items' = <<>> /\ roles' = {} /\ begun' = {}
    /\ changed' = FALSE /\ inserted' = FALSE /\ late' = 0
    /\ UNCHANGED <<resource, table>>

-----------------------------------------------------------------------------
(* The writers *)

New == IF resource = "users"
       THEN {u \in Users : u.role = "user" /\ u.full_name = None}
       ELSE {s \in Sessions : s.active}

(* Rows may commit in another order than that of their created_at.         *)
Insert ==
    /\ \E r \in Rows \ Present : \E row \in New : table' = [table EXCEPT ![r] = row]
    /\ inserted' = (pc # "idle") /\ late' = IF pc = "idle" THEN 0 ELSE late + 1
    /\ UNCHANGED <<resource, walk, changed>>

Changed(row) ==
    IF resource = "users"
    THEN {[row EXCEPT !.role = x] : x \in {"user", "admin"}} \cup {[row EXCEPT !.full_name = "A"]}
    ELSE {[row EXCEPT !.active = FALSE]}

Change ==
    /\ \E r \in Present : \E row \in Changed(table[r]) \ {table[r]} :
          table' = [table EXCEPT ![r] = row]
    /\ changed' = (pc # "idle")
    /\ UNCHANGED <<resource, walk, inserted, late>>

Walk == Ask \/ Count \/ List \/ Close

Next == Walk \/ Insert \/ Change

Spec == Init /\ [][Next]_vars

-----------------------------------------------------------------------------
(* Properties *)

Got == ToSet(items)

DistinctKeys ==
    \A r, s \in Matching(query) : r # s => Precedes(query, r, s) \/ Precedes(query, s, r)

Walked == pc = "done" /\ ~RefusedRole(query)

SameKey(r, s) == ~Precedes(query, r, s) /\ ~Precedes(query, s, r)

(* Without writes the pages put end to end are the list: as long as it, in *)
(* its order, place by place a row of the same key, and the walk stops at  *)
(* the last one.  Only among rows of equal keys may one be shown twice and *)
(* another not at all; where keys differ it is the list itself.            *)
QuietWalkIsTheList ==
    Walked /\ ~changed /\ ~inserted =>
        \A s \in Sorted(query) :
            /\ Len(items) = Len(s)
            /\ \A i \in DOMAIN s : items[i] \in Matching(query) /\ SameKey(items[i], s[i])
            /\ DistinctKeys => items = s

(* Rows that are only added may be seen twice on the next page, wherever   *)
(* they sort.  Of those that were there from the beginning a walk misses   *)
(* no more than there were additions since it counted for its last page.   *)
AdditionsHideNothing ==
    Walked /\ ~changed /\ DistinctKeys => Cardinality(begun \ Got) <= late

(* An admin's list shows no account that was an admin's when it was read,  *)
(* whatever filters are asked for and whoever changes roles meanwhile.     *)
AdminsSeeUsers ==
    query # None /\ query.actor = "admin" => roles \subseteq {"user"}
===============================================================================
