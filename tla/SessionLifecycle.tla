-------------------------- MODULE SessionLifecycle --------------------------
(***************************************************************************)
(* The sessions of one account: their rows in PostgreSQL, their keys in    *)
(* Redis and the index of those keys that a revocation of all sessions     *)
(* works from.  Accounts share no session row, key or index, so one is     *)
(* enough; its role, status and authorization version stand still here     *)
(* (AccountAccess moves them) and the version key agrees.                  *)
(*                                                                         *)
(* PostgreSQL runs READ COMMITTED: an UPDATE picks its rows from what is   *)
(* committed when it starts, waits for those that another transaction      *)
(* has locked and then looks again whether they still match; rows that     *)
(* are committed after it started are not seen.                            *)
(***************************************************************************)
EXTENDS Naturals, FiniteSets

CONSTANTS Sessions, Devices, Requests, None

(* None is neither a session nor a device. *)
ASSUME NoneAssumption == None \notin Sessions \cup Devices

VARIABLES
    session,  \* each session's committed row: none, active or revoked
    device,   \* the device it was created for
    parent,   \* the session whose refresh token it was rotated from, if any
    keys,     \* sessions with a Redis key auth:session:<s>
    index,    \* members of the sorted set auth:user:<u>:sessions
    pc, op,   \* where each request stands, and in which operation
    bearer,   \* the session whose access token it presents
    target,   \* the session it revokes, or the device it verifies
    scan,     \* rows its UPDATE has yet to visit
    marked,   \* rows it has revoked, and locked, but not committed
    listed,   \* index members it has read from Redis
    seen,     \* ghost: rows its UPDATE started from
    raced,    \* ghost: sessions whose key a validation wrote too late
    late      \* ghost: its session was revoked before it arrived

rows == <<session, device, parent>>
redis == <<keys, index, raced>>
txn == <<scan, marked, listed, seen>>
vars == <<rows, redis, txn, pc, op, bearer, target, late>>

(* Operations that revoke one session, and those that revoke several and   *)
(* sweep Redis by the index.                                               *)
Single == {"rotate", "expired", "logout", "revoke_one"}
Sweeping == {"verify", "reuse", "revoke_all"}
Creating == {"verify", "rotate"}
Operations == {"none", "refresh"} \cup Single \cup Sweeping
Stages == {"idle", "cache_missed", "session_ok", "admitted", "await_lock",
           "locked", "marking", "listed", "swept"}

TypeOK ==
    /\ session \in [Sessions -> {"none", "active", "revoked"}]
    /\ device \in [Sessions -> Devices \cup {None}]
    /\ parent \in [Sessions -> Sessions \cup {None}]
    /\ keys \subseteq Sessions /\ index \subseteq Sessions
    /\ pc \in [Requests -> Stages]
    /\ op \in [Requests -> Operations]
    /\ bearer \in [Requests -> Sessions \cup {None}]
    /\ target \in [Requests -> Sessions \cup Devices \cup {None}]
    /\ scan \in [Requests -> SUBSET Sessions]
    /\ marked \in [Requests -> SUBSET Sessions]
    /\ listed \in [Requests -> SUBSET Sessions]
    /\ seen \in [Requests -> SUBSET Sessions]
    /\ raced \subseteq Sessions
    /\ late \in [Requests -> {"no", "raced", "yes"}]

Init ==
    /\ session = [s \in Sessions |-> "none"]
    /\ device = [s \in Sessions |-> None]
    /\ parent = [s \in Sessions |-> None]
    /\ keys = {} /\ index = {} /\ raced = {}
    /\ pc = [r \in Requests |-> "idle"]
    /\ op = [r \in Requests |-> "none"]
    /\ bearer = [r \in Requests |-> None]
    /\ target = [r \in Requests |-> None]
    /\ scan = [r \in Requests |-> {}]
    /\ marked = [r \in Requests |-> {}]
    /\ listed = [r \in Requests |-> {}]
    /\ seen = [r \in Requests |-> {}]
    /\ late = [r \in Requests |-> "no"]

-----------------------------------------------------------------------------
(* Helpers *)

Active == {s \in Sessions : session[s] = "active"}

Go(r, stage) == pc' = [pc EXCEPT ![r] = stage]

(* The request is over: committed, rolled back or answered. *)
End(r) ==
    /\ Go(r, "idle")
    /\ op' = [op EXCEPT ![r] = "none"]
    /\ bearer' = [bearer EXCEPT ![r] = None]
    /\ target' = [target EXCEPT ![r] = None]
    /\ scan' = [scan EXCEPT ![r] = {}]
    /\ marked' = [marked EXCEPT ![r] = {}]
    /\ listed' = [listed EXCEPT ![r] = {}]
    /\ seen' = [seen EXCEPT ![r] = {}]
    /\ late' = [late EXCEPT ![r] = "no"]

(* An UPDATE that revokes the active rows of S starts.  The access token   *)
(* that let the request in is not looked at again.                         *)
StartUpdate(r, operation, S) ==
    /\ op' = [op EXCEPT ![r] = operation]
    /\ scan' = [scan EXCEPT ![r] = S \cap Active]
    /\ seen' = [seen EXCEPT ![r] = IF operation \in Sweeping THEN S \cap Active ELSE {}]
    /\ Go(r, "marking")
    /\ bearer' = [bearer EXCEPT ![r] = None]
    /\ late' = [late EXCEPT ![r] = "no"]
    /\ UNCHANGED <<rows, redis, marked, listed>>

(* No other transaction has locked the row. *)
RowFree(r, s) == \A other \in Requests \ {r} : s \notin marked[other]

(* Ghost: a revocation of s has committed, is past its deletion of the key *)
(* or has read an index that the key is not in.                            *)
Overtaken(s) ==
    \/ session[s] # "active"
    \/ \E q \in Requests :
          \/ pc[q] = "listed" /\ s \notin listed[q]
          \/ pc[q] = "swept" /\ s \in marked[q]

-----------------------------------------------------------------------------
(* Validating the access token of session s *)

LookUp(r, s) ==
    /\ pc[r] = "idle"
    /\ session[s] # "none"
    /\ bearer' = [bearer EXCEPT ![r] = s]
    /\ late' = [late EXCEPT ![r] = IF session[s] # "revoked" THEN "no"
                                   ELSE IF s \in raced THEN "raced" ELSE "yes"]
    /\ Go(r, IF s \in keys THEN "admitted" ELSE "cache_missed")
    /\ UNCHANGED <<rows, redis, txn, op, target>>

ReadSession(r) ==
    /\ pc[r] = "cache_missed"
    /\ IF session[bearer[r]] = "active"
       THEN Go(r, "session_ok") /\ UNCHANGED <<txn, op, bearer, target, late>>
       ELSE End(r)
    /\ UNCHANGED <<rows, redis>>

(* Slip: the key is not added to the user's index. *)
CacheSessionUnindexed(r) ==
    /\ pc[r] = "session_ok"
    /\ keys' = keys \cup {bearer[r]}
    /\ raced' = IF Overtaken(bearer[r]) THEN raced \cup {bearer[r]} ELSE raced \ {bearer[r]}
    /\ Go(r, "admitted")
    /\ UNCHANGED <<rows, index, txn, op, bearer, target, late>>

(* SET of the key and ZADD to the index in one MULTI. *)
CacheSession(r) ==
    /\ pc[r] = "session_ok"
    /\ keys' = keys \cup {bearer[r]}
    /\ index' = index \cup {bearer[r]}
    /\ raced' = IF Overtaken(bearer[r]) THEN raced \cup {bearer[r]} ELSE raced \ {bearer[r]}
    /\ Go(r, "admitted")
    /\ UNCHANGED <<rows, txn, op, bearer, target, late>>

Answer(r) ==
    /\ pc[r] = "admitted"
    /\ End(r)
    /\ UNCHANGED <<rows, redis>>

-----------------------------------------------------------------------------
(* How the operations begin.  A verification has checked its one-time code *)
(* (LoginRequests); logging out and revoking are an admitted request's.    *)

VerifyEmail(r, d) ==
    /\ pc[r] = "idle"
    /\ target' = [target EXCEPT ![r] = d]
    /\ StartUpdate(r, "verify", {s \in Sessions : device[s] = d})

Logout(r) ==
    /\ pc[r] = "admitted"
    /\ target' = [target EXCEPT ![r] = bearer[r]]
    /\ StartUpdate(r, "logout", {bearer[r]})

RevokeSession(r, s) ==
    /\ pc[r] = "admitted"
    /\ session[s] = "active"
    /\ target' = [target EXCEPT ![r] = s]
    /\ StartUpdate(r, "revoke_one", {s})

RevokeAll(r) ==
    /\ pc[r] = "admitted"
    /\ StartUpdate(r, "revoke_all", Sessions)
    /\ UNCHANGED target

(* An administrator approves the account's deletion: the same UPDATE and   *)
(* the same sweep, by a request whose own token is another account's.      *)
ApproveDeletion(r) ==
    /\ pc[r] = "idle"
    /\ StartUpdate(r, "revoke_all", Sessions)
    /\ UNCHANGED target

RefreshToken(r, s) ==
    /\ pc[r] = "idle"
    /\ session[s] # "none"
    /\ target' = [target EXCEPT ![r] = s]
    /\ op' = [op EXCEPT ![r] = "refresh"]
    /\ Go(r, "await_lock")
    /\ UNCHANGED <<rows, redis, txn, bearer, late>>

(* Slip: each session has an advisory lock of its own. *)
LockSessionRefresh(r) ==
    /\ pc[r] = "await_lock"
    /\ \A other \in Requests \ {r} :
          target[other] = target[r] =>
              ~(op[other] \in {"refresh", "rotate", "expired", "reuse"}
                /\ pc[other] # "await_lock")
    /\ Go(r, "locked")
    /\ UNCHANGED <<rows, redis, txn, op, bearer, target, late>>

(* pg_advisory_xact_lock on the user: one refresh of an account at a time, *)
(* until its transaction ends.                                             *)
LockUserRefresh(r) ==
    /\ pc[r] = "await_lock"
    /\ \A other \in Requests \ {r} :
          ~(op[other] \in {"refresh", "rotate", "expired", "reuse"}
            /\ pc[other] # "await_lock")
    /\ Go(r, "locked")
    /\ UNCHANGED <<rows, redis, txn, op, bearer, target, late>>

(* Slip: the row is read without FOR UPDATE and revoked whatever it is. *)
GetSessionUnlocked(r) ==
    /\ pc[r] = "locked"
    /\ marked' = [marked EXCEPT ![r] = {target[r]}]
    /\ op' = [op EXCEPT ![r] = "rotate"]
    /\ Go(r, "marking")
    /\ UNCHANGED <<rows, redis, scan, listed, seen, bearer, target, late>>

(* SELECT ... WHERE revoked_at IS NULL FOR UPDATE finds the row, and the   *)
(* next statement revokes it, to be replaced unless it has expired.        *)
GetSessionForUpdate(r) ==
    /\ pc[r] = "locked"
    /\ session[target[r]] = "active"
    /\ RowFree(r, target[r])
    /\ marked' = [marked EXCEPT ![r] = {target[r]}]
    /\ \E operation \in {"rotate", "expired"} : op' = [op EXCEPT ![r] = operation]
    /\ Go(r, "marking")
    /\ UNCHANGED <<rows, redis, scan, listed, seen, bearer, target, late>>

(* The row is gone: a token that is used again.  All sessions go.          *)
DetectReuse(r) ==
    /\ pc[r] = "locked"
    /\ session[target[r]] = "revoked"
    /\ StartUpdate(r, "reuse", Sessions)
    /\ UNCHANGED target

-----------------------------------------------------------------------------
(* Revoking *)

(* Slip: UPDATE over rows picked by SELECT ... FOR UPDATE SKIP LOCKED. *)
SkipLockedRow(r, s) ==
    /\ pc[r] = "marking"
    /\ s \in scan[r]
    /\ marked' = [marked EXCEPT ![r] = IF RowFree(r, s) THEN @ \cup {s} ELSE @]
    /\ scan' = [scan EXCEPT ![r] = @ \ {s}]
    /\ UNCHANGED <<rows, redis, listed, seen, pc, op, bearer, target, late>>

(* The UPDATE reaches row s, waits for its lock, looks at it again. *)
MarkRow(r, s) ==
    /\ pc[r] = "marking"
    /\ s \in scan[r]
    /\ RowFree(r, s)
    /\ marked' = [marked EXCEPT ![r] = IF s \in Active THEN @ \cup {s} ELSE @]
    /\ scan' = [scan EXCEPT ![r] = @ \ {s}]
    /\ UNCHANGED <<rows, redis, listed, seen, pc, op, bearer, target, late>>

(* Redis, one session: DEL and ZREM in one MULTI.  revoke_token does not   *)
(* get here when its UPDATE changed no row.                                *)
DropKey(r) ==
    /\ pc[r] = "marking" /\ scan[r] = {}
    /\ op[r] \in Single
    /\ op[r] = "revoke_one" => marked[r] # {}
    /\ keys' = keys \ {target[r]}
    /\ index' = index \ {target[r]}
    /\ raced' = raced \ {target[r]}
    /\ Go(r, "swept")
    /\ UNCHANGED <<rows, txn, op, bearer, target, late>>

(* Redis, all sessions: ZRANGE first, DEL of what it returned afterwards.  *)
ListIndex(r) ==
    /\ pc[r] = "marking" /\ scan[r] = {}
    /\ op[r] \in Sweeping
    /\ listed' = [listed EXCEPT ![r] = index]
    /\ Go(r, "listed")
    /\ UNCHANGED <<rows, redis, scan, marked, seen, op, bearer, target, late>>

DeleteListed(r) ==
    /\ pc[r] = "listed"
    /\ keys' = keys \ listed[r]
    /\ index' = {}
    /\ raced' = raced \ listed[r]
    /\ listed' = [listed EXCEPT ![r] = {}]
    /\ Go(r, "swept")
    /\ UNCHANGED <<rows, scan, marked, seen, op, bearer, target, late>>

-----------------------------------------------------------------------------
(* Committing.  The row that a verification or a rotation inserts is seen  *)
(* by nobody before.                                                       *)

Revoked(r) ==
    [s \in Sessions |-> IF s \in marked[r] THEN "revoked" ELSE session[s]]

CommitRevocation(r) ==
    /\ pc[r] = "swept"
    /\ op[r] \notin Creating
    /\ session' = Revoked(r)
    /\ End(r)
    /\ UNCHANGED <<device, parent, redis>>

(* Slip: a rotation passes the rotated session where its device belongs. *)
CommitSessionDevice(r, s) ==
    /\ pc[r] = "swept"
    /\ op[r] \in Creating
    /\ session[s] = "none"
    /\ session' = [Revoked(r) EXCEPT ![s] = "active"]
    /\ device' = [device EXCEPT ![s] = target[r]]
    /\ parent' = [parent EXCEPT ![s] = IF op[r] = "verify" THEN None ELSE target[r]]
    /\ End(r)
    /\ UNCHANGED redis

CommitSession(r, s) ==
    /\ pc[r] = "swept"
    /\ op[r] \in Creating
    /\ session[s] = "none"
    /\ session' = [Revoked(r) EXCEPT ![s] = "active"]
    /\ device' = [device EXCEPT ![s] =
                     IF op[r] = "verify" THEN target[r] ELSE device[target[r]]]
    /\ parent' = [parent EXCEPT ![s] = IF op[r] = "verify" THEN None ELSE target[r]]
    /\ End(r)
    /\ UNCHANGED redis

(* An error at any await, an account that is not active, a deadlock broken *)
(* by PostgreSQL, a crash: the rows stay, Redis is not restored.           *)
Fail(r) ==
    /\ pc[r] \notin {"idle", "admitted"}
    /\ End(r)
    /\ UNCHANGED <<rows, redis>>

(* A session key reaches its time to live. *)
ExpireKey(s) ==
    /\ s \in keys
    /\ keys' = keys \ {s}
    /\ raced' = raced \ {s}
    /\ UNCHANGED <<rows, index, txn, pc, op, bearer, target, late>>

-----------------------------------------------------------------------------
Validation(r) ==
    \/ \E s \in Sessions : LookUp(r, s)
    \/ ReadSession(r) \/ CacheSession(r) \/ Answer(r)

Starting(r) ==
    \/ \E d \in Devices : VerifyEmail(r, d)
    \/ Logout(r) \/ RevokeAll(r) \/ ApproveDeletion(r)
    \/ \E s \in Sessions : RevokeSession(r, s) \/ RefreshToken(r, s)
    \/ LockUserRefresh(r) \/ GetSessionForUpdate(r) \/ DetectReuse(r)

Revoking(r) ==
    \/ \E s \in Sessions : MarkRow(r, s) \/ CommitSession(r, s)
    \/ DropKey(r) \/ ListIndex(r) \/ DeleteListed(r) \/ CommitRevocation(r)

Next ==
    \/ \E r \in Requests : Validation(r) \/ Starting(r) \/ Revoking(r) \/ Fail(r)
    \/ \E s \in Sessions : ExpireKey(s)

Spec == Init /\ [][Next]_vars

-----------------------------------------------------------------------------
(* Properties *)

(* A refresh token is good for one new session, however many requests      *)
(* present it at the same time or afterwards.                              *)
RotatedOnce ==
    \A s, t \in Sessions : parent[s] = parent[t] /\ parent[s] # None => s = t

(* A session revoked before the request arrived is refused, by the cached  *)
(* path and by the database path alike, unless a validation that had read  *)
(* the row as active wrote the key behind the revocation's back.           *)
RevokedUnlessRaced ==
    \A r \in Requests : pc[r] \in {"session_ok", "admitted"} => late[r] # "yes"

Commits(r) == CommitRevocation(r) \/ \E s \in Sessions : CommitSession(r, s)

(* What a revocation of all sessions found when it started is revoked when *)
(* it commits, whoever else revoked it meanwhile.                          *)
RevokesWhatItSaw ==
    [][\A r \in Requests :
          Commits(r) /\ op[r] \in Sweeping
              => \A s \in seen[r] : session'[s] = "revoked"]_vars

(* Reuse of a rotated token ends the whole family: no session obtained by  *)
(* a refresh outlives the commit, not even one rotated at the same time.   *)
ReuseEndsFamilies ==
    [][\A r \in Requests :
          Commits(r) /\ op[r] = "reuse"
              => \A s \in Sessions : session'[s] = "active" => parent'[s] = None]_vars

(* The rows change as if every login, refresh and revocation took one      *)
(* instant, whatever statements, locks and failures lie between.           *)
Register == INSTANCE SessionRegister
ImplementsRegister == Register!RegisterSpec

-----------------------------------------------------------------------------
(* Statements of the project's tests and rules that the code refutes *)

(* "revoked session must raise SessionRevokedError" *)
RevokedIsRefused == \A r \in Requests : pc[r] = "admitted" => late[r] = "no"

(* Revoking all sessions leaves none: not the one it saw, and not the one  *)
(* a concurrent refresh turned it into.                                    *)
RevokeAllReachesRotated ==
    [][\A r \in Requests :
          Commits(r) /\ op[r] = "revoke_all"
              => \A s \in Sessions :
                    session'[s] = "active" => parent'[s] \notin seen[r]]_vars
=============================================================================
