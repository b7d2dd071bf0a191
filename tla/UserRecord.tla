------------------------------ MODULE UserRecord -----------------------------
(***************************************************************************)
(* One account's row in user_profiles or in user_preferences: created      *)
(* once, then patched by any number of requests.  The two tables differ    *)
(* only in their columns, so Columns and Fields are parameters: a field is *)
(* what a request may give or leave out, as the set of columns that hold   *)
(* it.  A phone number is one field of the profile in three columns; every *)
(* preference is one field in one column.                                  *)
(*                                                                         *)
(* A patch reads the row without locking it, assigns to the object that    *)
(* SQLAlchemy built from it, and flushes: the UPDATE names only columns    *)
(* whose value the assignment changed, and updated_at.  PostgreSQL applies *)
(* it to what is committed once the row lock is free.                      *)
(***************************************************************************)
EXTENDS Naturals

CONSTANTS Columns, Fields, Values, Null, Requests,
          Offers  \* the rows, complete and consistent, that clients have in mind

(* Every column belongs to one field. *)
ASSUME ColumnsAssumption ==
    /\ UNION Fields = Columns
    /\ \A F, G \in Fields : F = G \/ F \cap G = {}

(* Clients give values that the columns take; none of them is Null. *)
ASSUME OffersAssumption == Offers \subseteq [Columns -> Values] /\ Null \notin Values

VARIABLES
    exists,  \* the row is committed
    row,     \* its columns
    pc,      \* where each request stands
    offer,   \* what it was given
    asked,   \* the fields that it was given
    loaded,  \* the row as its SELECT returned it
    torn,    \* ghost: fields that each flushed UPDATE writes on a stale read
    stale    \* ghost: fields whose last committed patch was such a one

vars == <<exists, row, pc, offer, asked, loaded, torn, stale>>

Stages == {"idle", "absent", "inserted", "loaded", "flushed"}
Blank == [c \in Columns |-> Null]

TypeOK ==
    /\ exists \in BOOLEAN
    /\ row \in IF exists THEN [Columns -> Values] ELSE {Blank}
    /\ pc \in [Requests -> Stages]
    /\ offer \in [Requests -> Offers \cup {Blank}]
    /\ asked \in [Requests -> SUBSET Fields]
    /\ loaded \in [Requests -> [Columns -> Values] \cup {Blank}]
    /\ torn \in [Requests -> SUBSET Fields]
    /\ stale \subseteq Fields

Init ==
    /\ exists = FALSE /\ row = Blank /\ stale = {}
    /\ pc = [r \in Requests |-> "idle"]
    /\ offer = [r \in Requests |-> Blank]
    /\ asked = [r \in Requests |-> {}]
    /\ loaded = [r \in Requests |-> Blank]
    /\ torn = [r \in Requests |-> {}]

-----------------------------------------------------------------------------
Go(r, stage) == pc' = [pc EXCEPT ![r] = stage]

End(r) ==
    /\ Go(r, "idle")
    /\ offer' = [offer EXCEPT ![r] = Blank]
    /\ asked' = [asked EXCEPT ![r] = {}]
    /\ loaded' = [loaded EXCEPT ![r] = Blank]
    /\ torn' = [torn EXCEPT ![r] = {}]

(* No other open transaction has inserted or updated the row. *)
RowFree(r) == \A other \in Requests \ {r} : pc[other] \notin {"inserted", "flushed"}

-----------------------------------------------------------------------------
(* Creating.  The SELECT found no row; one that finds it ends the request. *)

Create(r, o) ==
    /\ pc[r] = "idle"
    /\ ~exists
    /\ offer' = [offer EXCEPT ![r] = o]
    /\ Go(r, "absent")
    /\ UNCHANGED <<exists, row, asked, loaded, torn, stale>>

(* Slip: the INSERT does nothing on a conflict. *)
InsertOrIgnore(r) ==
    /\ pc[r] = "absent"
    /\ RowFree(r)
    /\ Go(r, "inserted")
    /\ UNCHANGED <<exists, row, offer, asked, loaded, torn, stale>>

(* The INSERT waits for another that holds the primary key.  If that one   *)
(* commits it fails with an integrity error, which Fail stands for.        *)
Insert(r) ==
    /\ pc[r] = "absent"
    /\ RowFree(r)
    /\ ~exists
    /\ Go(r, "inserted")
    /\ UNCHANGED <<exists, row, offer, asked, loaded, torn, stale>>

CommitInsert(r) ==
    /\ pc[r] = "inserted"
    /\ exists' = TRUE
    /\ row' = offer[r]
    /\ End(r)
    /\ UNCHANGED stale

-----------------------------------------------------------------------------
(* Patching *)

(* The body of a patch must name a field, but null leaves it out again.    *)
Askable == SUBSET Fields

Patch(r, fields, o) ==
    /\ pc[r] = "idle"
    /\ exists
    /\ offer' = [offer EXCEPT ![r] = o]
    /\ asked' = [asked EXCEPT ![r] = fields]
    /\ loaded' = [loaded EXCEPT ![r] = row]
    /\ Go(r, "loaded")
    /\ UNCHANGED <<exists, row, torn, stale>>

(* The columns that the UPDATE sets besides updated_at. *)
Dirty(r) == {c \in UNION asked[r] : offer[r][c] # loaded[r][c]}

(* Slip: the UPDATE sets every column to what the object holds. *)
WholeRow(r) ==
    [c \in Columns |-> IF c \in UNION asked[r] THEN offer[r][c] ELSE loaded[r][c]]

(* Slip: a field that is left out is assigned too. *)
NullRow(r) == [c \in Columns |-> IF c \in UNION asked[r] THEN offer[r][c] ELSE Null]

Patched(r) == [c \in Columns |-> IF c \in Dirty(r) THEN offer[r][c] ELSE row[c]]

(* Ghost: fields that it is given and of which a column that it does not   *)
(* set has changed since it was read.                                      *)
Torn(r) == {F \in asked[r] : \E c \in F \ Dirty(r) : row[c] # loaded[r][c]}

(* Slip: nothing holds the row between the UPDATE and the commit. *)
FlushUnlocked(r) ==
    /\ pc[r] = "loaded"
    /\ torn' = [torn EXCEPT ![r] = Torn(r)]
    /\ Go(r, "flushed")
    /\ UNCHANGED <<exists, row, offer, asked, loaded, stale>>

(* The UPDATE waits for the lock of the row and keeps it to the commit. *)
Flush(r) ==
    /\ pc[r] = "loaded"
    /\ RowFree(r)
    /\ torn' = [torn EXCEPT ![r] = Torn(r)]
    /\ Go(r, "flushed")
    /\ UNCHANGED <<exists, row, offer, asked, loaded, stale>>

CommitPatch(r) ==
    /\ pc[r] = "flushed"
    /\ row' = Patched(r)
    /\ stale' = (stale \ asked[r]) \cup torn[r]
    /\ End(r)
    /\ UNCHANGED exists

(* An error at any await rolls back. *)
Fail(r) ==
    /\ pc[r] # "idle"
    /\ End(r)
    /\ UNCHANGED <<exists, row, stale>>

-----------------------------------------------------------------------------
Next ==
    \E r \in Requests :
        \/ \E o \in Offers : Create(r, o)
        \/ \E o \in Offers, fields \in Askable : Patch(r, fields, o)
        \/ Insert(r) \/ CommitInsert(r) \/ Flush(r) \/ CommitPatch(r) \/ Fail(r)

Spec == Init /\ [][Next]_vars

-----------------------------------------------------------------------------
(* Properties *)

(* Each field of the row holds what one request gave for it, all columns   *)
(* of it together, unless the last patch of that very field left out a     *)
(* column that had changed since it was read.  A mixture stays in its      *)
(* field, and the next patch that gives the field afresh ends it.          *)
Whole(field) == \E o \in Offers : \A c \in field : row[c] = o[c]
WholeUnlessStale == exists => \A field \in Fields \ stale : Whole(field)

(* A row that is there is never created again: of requests that all found  *)
(* none, one inserts it.                                                   *)
CreatedOnce ==
    [][\A r \in Requests : CommitInsert(r) => ~exists]_vars

(* A patch leaves alone what it was not given, also when another patch of  *)
(* those fields has committed since it read the row.                       *)
LeavesTheRest ==
    [][\A r \in Requests :
          CommitPatch(r) => \A c \in Columns \ UNION asked[r] : row'[c] = row[c]]_vars

(* "Use row locks, advisory locks, unique constraints, or idempotent       *)
(* writes for flows that can race": no field is ever a mixture.            *)
FieldsWhole == exists => \A field \in Fields : Whole(field)
=============================================================================
