---------------------------- MODULE AccountAccess ----------------------------
(***************************************************************************)
(* Access tokens against account changes.                                  *)
(*                                                                         *)
(* An account row carries a role, a status and an authorization version.   *)
(* Every change of role or status adds one to the version in the same      *)
(* UPDATE, publishes the new version in Redis and only then commits.  A    *)
(* token remembers the role and version of the row it was minted from.  A  *)
(* request is admitted from Redis alone when the version key and the       *)
(* session key are both there, otherwise from the database, in which case  *)
(* it fills both keys afterwards.                                          *)
(*                                                                         *)
(* One action is one round trip to PostgreSQL (READ COMMITTED) or Redis:   *)
(* the event loop may run any other request between two awaits.  Session   *)
(* rows are left to SessionLifecycle: here a session check may go either   *)
(* way and a session key may disappear at any time.                        *)
(***************************************************************************)
EXTENDS Naturals, FiniteSets

CONSTANTS Users,      \* accounts
          Sessions,   \* session ids, each with the one access token minted for it
          Requests,   \* requests the event loop serves at the same time
          None,       \* no session, no token, no job, no row
          MaxVersion, \* bound: no change starts that could go beyond it
          RoleWishes, StatusWishes  \* bound: the values that requests ask for

VARIABLES
    row,      \* users table, committed
    verKey,   \* Redis authz:user:<u>:version, 0 when the key is absent
    keys,     \* sessions with a Redis key auth:session:<s>
    token,    \* the claims of session s's access token, once they are fixed
    issued,   \* sessions whose token was handed to a client
    pc,       \* where each request stands
    bearer,   \* the session a request presents, or is minting
    job,      \* the account change a request is carrying out
    pending,  \* the row that the request's uncommitted transaction has written
    since,    \* ghost: row version when the request's token was looked up
    lost      \* ghost: users whose keys Redis lost and nobody republished

redis == <<verKey, keys, lost>>
minted == <<token, issued>>
local == <<pc, bearer, job, pending, since>>
vars == <<row, redis, minted, local>>

Roles == {"super_admin", "admin", "user"}
Statuses == {"active", "blocked", "deletion_requested", "deleted"}
Rows == [role : Roles, status : Statuses, version : Nat]
Claims == [user : Users, role : Roles, av : Nat]

(* None is no session and no token. *)
ASSUME NoneAssumption == None \notin Sessions /\ None \notin Claims

(* Requests ask for roles and statuses that exist. *)
ASSUME WishAssumption == RoleWishes \subseteq Roles /\ StatusWishes \subseteq Statuses

RoleKinds == {"change_role", "bootstrap"}
StatusKinds == {"change_status", "request_deletion", "approve_deletion"}
Jobs == [kind : RoleKinds, target : Users, wish : Roles]
            \cup [kind : StatusKinds, target : Users, wish : Statuses]

Validating == {"cache_missed", "user_ok", "session_ok", "version_cached"}
InTransaction == {"updated", "published", "ready"}
Changing == {"checked"} \cup InTransaction
Stages == {"idle", "admitted", "minting"} \cup Validating \cup Changing

TypeOK ==
    /\ row \in [Users -> Rows]
    /\ verKey \in [Users -> Nat]
    /\ keys \subseteq Sessions
    /\ token \in [Sessions -> Claims \cup {None}]
    /\ issued \subseteq Sessions
    /\ pc \in [Requests -> Stages]
    /\ bearer \in [Requests -> Sessions \cup {None}]
    /\ job \in [Requests -> Jobs \cup {None}]
    /\ pending \in [Requests -> Rows \cup {None}]
    /\ since \in [Requests -> Nat]
    /\ lost \subseteq Users

Init ==
    /\ row = [u \in Users |->
                [role |-> "user", status |-> "active", version |-> 1]]
    /\ verKey = [u \in Users |-> 0]
    /\ keys = {}
    /\ token = [s \in Sessions |-> None]
    /\ issued = {}
    /\ pc = [r \in Requests |-> "idle"]
    /\ bearer = [r \in Requests |-> None]
    /\ job = [r \in Requests |-> None]
    /\ pending = [r \in Requests |-> None]
    /\ since = [r \in Requests |-> 0]
    /\ lost = {}

-----------------------------------------------------------------------------
(* Helpers *)

Go(r, stage) == pc' = [pc EXCEPT ![r] = stage]

(* The request is over: its transaction, if any, has ended. *)
End(r) ==
    /\ Go(r, "idle")
    /\ bearer' = [bearer EXCEPT ![r] = None]
    /\ job' = [job EXCEPT ![r] = None]
    /\ pending' = [pending EXCEPT ![r] = None]
    /\ since' = [since EXCEPT ![r] = 0]

(* Slip: a plain SET. *)
SetVersionAlways(u, version) == verKey' = [verKey EXCEPT ![u] = version]

(* The Lua script: SET only when the key is absent or smaller. *)
SetVersionIfGreater(u, version) ==
    verKey' = [verKey EXCEPT ![u] = IF @ < version THEN version ELSE @]

Principal(r) == token[bearer[r]]

(* The committed row lets the bearer of claims t in. *)
RowGrants(t) ==
    /\ row[t.user].status = "active"
    /\ row[t.user].role = t.role
    /\ row[t.user].version = t.av

CanManage(actorRole, target) ==
    \/ actorRole = "super_admin"
    \/ actorRole = "admin" /\ row[target].role = "user"

(* Bound: every change under way on u can commit within MaxVersion. *)
Room(u) ==
    row[u].version
        + Cardinality({r \in Requests : pc[r] \in Changing /\ job[r].target = u})
      < MaxVersion

-----------------------------------------------------------------------------
(* Minting.  Verification reads the account first and never looks at its   *)
(* status; a refresh requires an active account and an earlier session.    *)
(* Either way the claims are fixed by this read and reach the client only  *)
(* after the commit that makes the session row visible.                    *)

MintRead(r, s, u) ==
    /\ pc[r] = "idle"
    /\ token[s] = None
    /\ token' = [token EXCEPT ![s] =
                    [user |-> u, role |-> row[u].role, av |-> row[u].version]]
    /\ bearer' = [bearer EXCEPT ![r] = s]
    /\ Go(r, "minting")
    /\ UNCHANGED <<row, redis, issued, job, pending, since>>

VerifyEmail(r, s, u) == MintRead(r, s, u)

RefreshToken(r, s, u) ==
    /\ \E earlier \in issued : token[earlier].user = u
    /\ row[u].status = "active"
    /\ MintRead(r, s, u)

IssueToken(r) ==
    /\ pc[r] = "minting"
    /\ issued' = issued \cup {bearer[r]}
    /\ End(r)
    /\ UNCHANGED <<row, redis, token>>

-----------------------------------------------------------------------------
(* Validating the token of session s *)

LookUp(r, s, outcome) ==
    /\ pc[r] = "idle"
    /\ bearer' = [bearer EXCEPT ![r] = s]
    /\ since' = [since EXCEPT ![r] =
                    IF token[s].user \in lost THEN 0 ELSE row[token[s].user].version]
    /\ Go(r, outcome)
    /\ UNCHANGED <<row, redis, minted, job, pending>>

(* Slip: the session key alone admits. *)
CacheHitBySession(r, s) == s \in keys /\ LookUp(r, s, "admitted")

(* One MGET finds both keys and the version key agrees: nothing else is    *)
(* asked, and the role is the token's.                                     *)
CacheHit(r, s) ==
    /\ verKey[token[s].user] = token[s].av
    /\ s \in keys
    /\ LookUp(r, s, "admitted")

(* A version key that disagrees refuses the request at once, whatever the  *)
(* session key says.                                                       *)
CacheRefusal(r, s) ==
    /\ pc[r] = "idle"
    /\ verKey[token[s].user] \notin {0, token[s].av}
    /\ UNCHANGED vars

(* A key is missing: ask the database. *)
CacheMiss(r, s) ==
    /\ \/ verKey[token[s].user] = 0
       \/ verKey[token[s].user] = token[s].av /\ s \notin keys
    /\ LookUp(r, s, "cache_missed")

(* Slip: the version stands in for the status too. *)
ReadUserAnyStatus(r) ==
    /\ pc[r] = "cache_missed"
    /\ IF row[Principal(r).user].version = Principal(r).av
       THEN Go(r, "user_ok") /\ UNCHANGED <<bearer, job, pending, since>>
       ELSE End(r)
    /\ UNCHANGED <<row, redis, minted>>

ReadUser(r) ==
    /\ pc[r] = "cache_missed"
    /\ IF RowGrants(Principal(r))
       THEN Go(r, "user_ok") /\ UNCHANGED <<bearer, job, pending, since>>
       ELSE End(r)
    /\ UNCHANGED <<row, redis, minted>>

(* Whether the session is there, live and the user's own is not modelled   *)
(* in this module: it may be, or not.                                      *)
ReadSession(r) ==
    /\ pc[r] = "user_ok"
    /\ \/ Go(r, "session_ok") /\ UNCHANGED <<bearer, job, pending, since>>
       \/ End(r)
    /\ UNCHANGED <<row, redis, minted>>

(* cache() takes two round trips: the version script, then the session key. *)
CacheVersion(r) ==
    /\ pc[r] = "session_ok"
    /\ SetVersionIfGreater(Principal(r).user, Principal(r).av)
    /\ Go(r, "version_cached")
    /\ UNCHANGED <<row, keys, lost, minted, bearer, job, pending, since>>

CacheSession(r) ==
    /\ pc[r] = "version_cached"
    /\ keys' = keys \cup {bearer[r]}
    /\ Go(r, "admitted")
    /\ UNCHANGED <<row, verKey, lost, minted, bearer, job, pending, since>>

(* An admitted request that changes no account, or is forbidden to. *)
Answer(r) ==
    /\ pc[r] = "admitted"
    /\ End(r)
    /\ UNCHANGED <<row, redis, minted>>

-----------------------------------------------------------------------------
(* Changing an account.  The checks read the committed row, before and     *)
(* without the lock that the UPDATE takes.                                 *)

Start(r, kind, u, wish) ==
    /\ Room(u)
    /\ job' = [job EXCEPT ![r] = [kind |-> kind, target |-> u, wish |-> wish]]
    /\ Go(r, "checked")
    /\ UNCHANGED <<row, redis, minted, bearer, pending, since>>

ChangeRole(r, u, role) ==
    /\ pc[r] = "admitted"
    /\ Principal(r).role = "super_admin"
    /\ Start(r, "change_role", u, role)

ChangeStatus(r, u, status) ==
    /\ pc[r] = "admitted"
    /\ CanManage(Principal(r).role, u)
    /\ Start(r, "change_status", u, status)

RequestDeletion(r) ==
    /\ pc[r] = "admitted"
    /\ row[Principal(r).user].status = "active"
    /\ Start(r, "request_deletion", Principal(r).user, "deletion_requested")

ApproveDeletion(r, u) ==
    /\ pc[r] = "admitted"
    /\ CanManage(Principal(r).role, u)
    /\ row[u].status = "deletion_requested"
    /\ Start(r, "approve_deletion", u, "deleted")

(* The command line tool: no token, no actor. *)
Bootstrap(r, u) ==
    /\ pc[r] = "idle"
    /\ row[u].role # "super_admin"
    /\ Start(r, "bootstrap", u, "super_admin")

(* UPDATE ... SET authorization_version = authorization_version + 1 waits  *)
(* for the row lock and then works on the row committed by its last holder. *)
NewRow(r) ==
    LET old == row[job[r].target]
        isRole == job[r].kind \in RoleKinds
    IN [role |-> IF isRole THEN job[r].wish ELSE old.role,
        status |-> IF isRole THEN old.status ELSE job[r].wish,
        version |-> old.version + 1]

(* Slip: the row is locked from the check on, and never while others wait. *)
RowFreeOfCheckers(r) ==
    \A other \in Requests \ {r} :
        pc[other] \in Changing => job[other].target # job[r].target

RowFree(r) ==
    \A other \in Requests \ {r} :
        pc[other] \in InTransaction => job[other].target # job[r].target

(* Slip: the new row is computed from an unlocked read. *)
UpdateRowUnlocked(r) ==
    /\ pc[r] = "checked"
    /\ pending' = [pending EXCEPT ![r] = NewRow(r)]
    /\ Go(r, "updated")
    /\ UNCHANGED <<row, redis, minted, bearer, job, since>>

UpdateRow(r) ==
    /\ pc[r] = "checked"
    /\ RowFree(r)
    /\ pending' = [pending EXCEPT ![r] = NewRow(r)]
    /\ Go(r, "updated")
    /\ UNCHANGED <<row, redis, minted, bearer, job, since>>

(* Slip: the version read before the UPDATE is published. *)
PublishOldVersion(r) ==
    /\ pc[r] = "updated"
    /\ SetVersionIfGreater(job[r].target, row[job[r].target].version)
    /\ lost' = lost \ {job[r].target}
    /\ Go(r, IF job[r].kind = "approve_deletion" THEN "published" ELSE "ready")
    /\ UNCHANGED <<row, keys, minted, bearer, job, pending, since>>

PublishVersion(r) ==
    /\ pc[r] = "updated"
    /\ SetVersionIfGreater(job[r].target, pending[r].version)
    /\ lost' = lost \ {job[r].target}
    /\ Go(r, IF job[r].kind = "approve_deletion" THEN "published" ELSE "ready")
    /\ UNCHANGED <<row, keys, minted, bearer, job, pending, since>>

(* revoke_all_sessions deletes the keys its index lists, which need not be *)
(* every key of the account.                                               *)
SweepSessionKeys(r) ==
    /\ pc[r] = "published"
    /\ \E swept \in SUBSET {s \in keys \cap issued : token[s].user = job[r].target} :
          keys' = keys \ swept
    /\ Go(r, "ready")
    /\ UNCHANGED <<row, verKey, lost, minted, bearer, job, pending, since>>

Commit(r) ==
    /\ pc[r] = "ready"
    /\ row' = [row EXCEPT ![job[r].target] = pending[r]]
    /\ End(r)
    /\ UNCHANGED <<redis, minted>>

(* A failed call, a cancelled request or a dead process: PostgreSQL rolls  *)
(* the transaction back, Redis keeps what it was told.                     *)
Fail(r) ==
    /\ pc[r] \notin {"idle", "admitted"}
    /\ End(r)
    /\ UNCHANGED <<row, redis, minted>>

-----------------------------------------------------------------------------
(* Redis *)

(* A session key expires, or a log-out, a refresh or a verification drops it. *)
DropSessionKey(s) ==
    /\ s \in keys
    /\ keys' = keys \ {s}
    /\ UNCHANGED <<row, verKey, lost, minted, local>>

(* A restart of Redis after a crash: its append-only file is flushed once  *)
(* a second, so the last writes may be gone.                               *)
LoseWrites ==
    /\ \E left \in [Users -> 0 .. MaxVersion], kept \in SUBSET keys :
          /\ \A u \in Users : left[u] <= verKey[u]
          /\ verKey' = left
          /\ keys' = kept
          /\ lost' = lost \cup {u \in Users : left[u] < verKey[u]}
    /\ UNCHANGED <<row, minted, local>>

-----------------------------------------------------------------------------
(* One step of the code that a request is running. *)
Progress(r) ==
    \/ IssueToken(r)
    \/ ReadUser(r) \/ ReadSession(r) \/ CacheVersion(r) \/ CacheSession(r)
    \/ Answer(r)
    \/ PublishVersion(r) \/ SweepSessionKeys(r) \/ Commit(r)

Arrive(r) ==
    \/ \E s \in issued : CacheHit(r, s) \/ CacheRefusal(r, s) \/ CacheMiss(r, s)
    \/ \E s \in Sessions, u \in Users : VerifyEmail(r, s, u) \/ RefreshToken(r, s, u)
    \/ \E u \in Users : Bootstrap(r, u)

StartChange(r) ==
    \/ RequestDeletion(r)
    \/ \E u \in Users :
          \/ \E role \in RoleWishes : ChangeRole(r, u, role)
          \/ \E status \in StatusWishes : ChangeStatus(r, u, status)
          \/ ApproveDeletion(r, u)

Next ==
    \/ \E r \in Requests :
          Arrive(r) \/ StartChange(r) \/ UpdateRow(r) \/ Progress(r) \/ Fail(r)
    \/ \E s \in Sessions : DropSessionKey(s)

LossyNext == Next \/ LoseWrites

Spec == Init /\ [][Next]_vars
LossySpec == Init /\ [][LossyNext]_vars

(* Every awaited call returns or raises, and a waiter for a row lock that  *)
(* keeps being released gets it in its turn.                               *)
Fairness == \A r \in Requests : WF_vars(Progress(r)) /\ SF_vars(UpdateRow(r))
FairSpec == LossySpec /\ Fairness

-----------------------------------------------------------------------------
(* Properties *)

(* Published before committed: unless Redis lost it, the version key of an *)
(* account that ever changed is never behind the committed row, so no      *)
(* token of an earlier version can be admitted from the cache.             *)
VersionKeyCovers ==
    \A u \in Users \ lost :
        \/ verKey[u] >= row[u].version
        \/ verKey[u] = 0 /\ row[u].version = 1

(* Whatever validate_access_token would admit from the two keys alone, the *)
(* committed row grants too: the account is active and has the token's     *)
(* role, though neither is looked at on that path.                         *)
CacheGrantsWhatRowGrants ==
    \A s \in issued \cap keys :
        (token[s].user \notin lost /\ verKey[token[s].user] = token[s].av)
            => RowGrants(token[s])

(* A request whose token was looked up after a change of its account had   *)
(* committed is not admitted with a token from before the change, on any   *)
(* path and however long it slept between its reads.                       *)
AdmissionFresh ==
    \A r \in Requests : pc[r] = "admitted" => Principal(r).av >= since[r]

(* A commit leaves the version key equal to the row, even if earlier       *)
(* changes published a version and then rolled back.                       *)
CommitClosesGap ==
    [][\A u \in Users \ lost' :
          row'[u] # row[u] => verKey'[u] = row'[u].version]_vars

(* Tokens, cache and transactions together behave like accounts that       *)
(* requests see and change in single instants (see AccountAuthority).      *)
Holds(r) == pc[r] \in (Validating \ {"cache_missed"}) \cup {"admitted"} \cup Changing
Acting(r) == Holds(r) /\ bearer[r] # None
actsAs == [r \in Requests |-> IF Acting(r) THEN Principal(r) ELSE None]
Authority == INSTANCE AccountAuthority WITH NoPrincipal <- None, principal <- actsAs
ImplementsAuthority == Authority!Spec

(* Every request ends: none waits for ever for a row lock or a cache. *)
RequestsEnd == \A r \in Requests : pc[r] # "idle" ~> pc[r] = "idle"

-----------------------------------------------------------------------------
(* Statements of the project's rules and tests that the code refutes *)

(* .codex/rules/architecture-use-case.mdc: the operations of a workflow    *)
(* commit together and roll back together.  With no change of an account   *)
(* under way, its version key is then not ahead of its row.                *)
RollbackUndoesPublish ==
    \A u \in Users :
        (\A r \in Requests : pc[r] \in InTransaction => job[r].target # u)
            => verKey[u] <= row[u].version

(* .codex/rules/security.mdc: an admin manages only regular user accounts. *)
AdminsManageOnlyUsers ==
    [][\A r \in Requests, u \in Users :
          (/\ pc[r] = "ready" /\ row'[u] # row[u]
           /\ job[r].target = u /\ job[r].kind \in {"change_status", "approve_deletion"}
           /\ Principal(r).role = "admin")
              => row[u].role = "user"]_vars
=============================================================================
