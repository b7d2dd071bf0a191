----------------------- MODULE SessionLifecycleProofs -----------------------
(***************************************************************************)
(* Proofs about SessionLifecycle, for any sets of sessions, devices and    *)
(* requests: a refresh token is rotated once, a revoked session is refused *)
(* unless a validation raced with its revocation, a revocation of several  *)
(* sessions reaches what it saw, and one for a reused token ends every     *)
(* family.                                                                 *)
(***************************************************************************)
EXTENDS SessionLifecycle, TLAPS

-----------------------------------------------------------------------------
(* The inductive invariant, in named parts. *)

InUpdate == {"marking", "listed", "swept"}
Refreshing == {"refresh", "rotate", "expired", "reuse"}

(* What each stage knows of the request's operation and operands. *)
StageFacts ==
    \A r \in Requests :
        /\ pc[r] \in InUpdate <=> op[r] \in Single \cup Sweeping
        /\ pc[r] \in {"await_lock", "locked"} <=> op[r] = "refresh"
        /\ pc[r] = "listed" => op[r] \in Sweeping
        /\ pc[r] # "marking" => scan[r] = {}
        /\ pc[r] \notin InUpdate => marked[r] = {}
        /\ \A s \in scan[r] : session[s] # "none"
        /\ op[r] = "verify" => target[r] \in Devices
        /\ op[r] \in Single \cup {"refresh"} => target[r] \in Sessions
        /\ op[r] \in Single => scan[r] \cup marked[r] \subseteq {target[r]}
        /\ op[r] \in {"rotate", "expired"} => marked[r] = {target[r]} /\ scan[r] = {}
        /\ pc[r] \in {"cache_missed", "session_ok", "admitted"} => bearer[r] \in Sessions

(* A row that an open transaction has revoked is locked: nobody else has   *)
(* revoked it or can commit another state of it.                           *)
RowLocks ==
    /\ \A r \in Requests : \A s \in marked[r] : session[s] = "active"
    /\ \A r, q \in Requests : r # q => marked[r] \cap marked[q] = {}

(* The advisory lock. *)
HoldsRefresh(r) == op[r] \in Refreshing /\ pc[r] # "await_lock"
RefreshLock ==
    \A r, q \in Requests : HoldsRefresh(r) /\ HoldsRefresh(q) => r = q

(* Only a revoked session has been rotated. *)
ParentsRevoked ==
    \A s \in Sessions : parent[s] # None => session[parent[s]] = "revoked"

LookedUpLate ==
    \A r \in Requests :
        (pc[r] = "cache_missed" /\ late[r] # "no") => session[bearer[r]] = "revoked"

(* Only a validation that came too late leaves a key where a revocation    *)
(* does not find it: outside the index, outside what a sweep has read, or  *)
(* behind a deletion.                                                      *)
KeysCovered ==
    /\ keys \ index \subseteq raced
    /\ \A r \in Requests : pc[r] = "listed" => keys \ listed[r] \subseteq raced
    /\ \A r \in Requests : pc[r] = "swept" => marked[r] \cap keys \subseteq raced
    /\ \A s \in keys : session[s] # "active" => s \in raced

(* What an UPDATE of several rows started from it will visit, has revoked, *)
(* or found revoked by another.                                            *)
SeenCovered ==
    \A r \in Requests : op[r] \in Sweeping =>
        \A s \in seen[r] : s \in scan[r] \cup marked[r] \/ session[s] = "revoked"

(* While a reuse is being answered no refresh commits, so every session    *)
(* obtained by a refresh is one that its UPDATE saw.                       *)
FamiliesCovered ==
    \A r \in Requests : op[r] = "reuse" =>
        \A s \in Sessions :
            (session[s] = "active" /\ parent[s] # None) => s \in scan[r] \cup marked[r]

IInv == /\ TypeOK
        /\ StageFacts
        /\ RowLocks
        /\ RefreshLock
        /\ ParentsRevoked
        /\ RotatedOnce
        /\ LookedUpLate
        /\ KeysCovered
        /\ RevokedUnlessRaced
        /\ SeenCovered
        /\ FamiliesCovered

-----------------------------------------------------------------------------
(* Init, and one lemma per step. *)

LEMMA InitIInv == Init => IInv
BY NoneAssumption
   DEF Init, IInv, TypeOK, StageFacts, RowLocks, RefreshLock, ParentsRevoked, RotatedOnce,
       LookedUpLate, KeysCovered, RevokedUnlessRaced, SeenCovered, FamiliesCovered, InUpdate, Refreshing,
       HoldsRefresh, Stages, Operations, Single, Sweeping

(* A request that ends with no row written: Answer, Fail and a refusal. *)
LEMMA EndStep ==
    ASSUME IInv, NEW r \in Requests, End(r), UNCHANGED <<rows, redis>>
    PROVE  IInv'
<1> USE DEF IInv
<1>1. TypeOK'
  BY DEF End, Go, rows, redis, TypeOK, Stages, Operations, Single, Sweeping
<1>2. StageFacts'
  BY DEF End, Go, rows, StageFacts, TypeOK, InUpdate, Single, Sweeping
<1>3. RowLocks'
  BY DEF End, rows, RowLocks, TypeOK
<1>4. RefreshLock'
  BY DEF End, Go, RefreshLock, HoldsRefresh, Refreshing, TypeOK
<1>5. ParentsRevoked'
  BY DEF rows, ParentsRevoked, TypeOK
<1>6. RotatedOnce'
  BY DEF rows, RotatedOnce, TypeOK
<1>7. LookedUpLate'
  BY DEF End, Go, rows, LookedUpLate, TypeOK
<1>8. RevokedUnlessRaced'
  BY DEF End, Go, RevokedUnlessRaced, TypeOK
<1>9. SeenCovered'
  BY DEF End, rows, SeenCovered, TypeOK, Sweeping
<1>10. FamiliesCovered'
  BY DEF End, rows, FamiliesCovered, TypeOK
<1>11. KeysCovered'
  BY DEF End, Go, rows, redis, KeysCovered, TypeOK
<1> QED
  BY <1>1, <1>2, <1>3, <1>4, <1>5, <1>6, <1>7, <1>8, <1>9, <1>10, <1>11

LEMMA ExpireKeyStep ==
    ASSUME IInv, NEW s \in Sessions, ExpireKey(s)
    PROVE  IInv'
<1> USE DEF IInv
<1>1. TypeOK'
  BY DEF ExpireKey, rows, txn, TypeOK, Stages, Operations, Single, Sweeping
<1>2. StageFacts'
  BY DEF ExpireKey, rows, txn, StageFacts, TypeOK, InUpdate, Single, Sweeping
<1>3. RowLocks'
  BY DEF ExpireKey, rows, txn, RowLocks, TypeOK
<1>4. RefreshLock'
  BY DEF ExpireKey, RefreshLock, HoldsRefresh, Refreshing, TypeOK
<1>5. ParentsRevoked'
  BY DEF ExpireKey, rows, ParentsRevoked, TypeOK
<1>6. RotatedOnce'
  BY DEF ExpireKey, rows, RotatedOnce, TypeOK
<1>7. LookedUpLate'
  BY DEF ExpireKey, rows, LookedUpLate, TypeOK
<1>8. RevokedUnlessRaced'
  BY DEF ExpireKey, RevokedUnlessRaced, TypeOK
<1>9. SeenCovered'
  BY DEF ExpireKey, rows, txn, SeenCovered, TypeOK, Sweeping
<1>10. FamiliesCovered'
  BY DEF ExpireKey, rows, txn, FamiliesCovered, TypeOK
<1>11. KeysCovered'
  BY DEF ExpireKey, rows, txn, KeysCovered, TypeOK
<1> QED
  BY <1>1, <1>2, <1>3, <1>4, <1>5, <1>6, <1>7, <1>8, <1>9, <1>10, <1>11

LEMMA LookUpStep ==
    ASSUME IInv, NEW r \in Requests, NEW s \in Sessions, LookUp(r, s)
    PROVE  IInv'
<1> USE DEF IInv
<1>1. TypeOK'
  BY DEF LookUp, Go, rows, redis, txn, TypeOK, Stages, Operations, Single, Sweeping
<1>2. StageFacts'
  BY DEF LookUp, Go, rows, txn, StageFacts, TypeOK, InUpdate, Single, Sweeping
<1>3. RowLocks'
  BY DEF LookUp, rows, txn, RowLocks, TypeOK
<1>4. RefreshLock'
  BY DEF LookUp, Go, RefreshLock, HoldsRefresh, Refreshing, TypeOK
<1>5. ParentsRevoked'
  BY DEF LookUp, rows, ParentsRevoked, TypeOK
<1>6. RotatedOnce'
  BY DEF LookUp, rows, RotatedOnce, TypeOK
<1>7. LookedUpLate'
  BY DEF LookUp, Go, rows, LookedUpLate, TypeOK
<1>8. RevokedUnlessRaced'
  BY DEF LookUp, Go, RevokedUnlessRaced, KeysCovered, TypeOK
<1>9. SeenCovered'
  BY DEF LookUp, rows, txn, SeenCovered, TypeOK, Sweeping
<1>10. FamiliesCovered'
  BY DEF LookUp, rows, txn, FamiliesCovered, TypeOK
<1>11. KeysCovered'
  BY DEF LookUp, Go, rows, redis, txn, KeysCovered, TypeOK
<1> QED
  BY <1>1, <1>2, <1>3, <1>4, <1>5, <1>6, <1>7, <1>8, <1>9, <1>10, <1>11

LEMMA ReadSessionStep ==
    ASSUME IInv, NEW r \in Requests, pc[r] = "cache_missed", session[bearer[r]] = "active",
           Go(r, "session_ok"), UNCHANGED <<rows, redis, txn, op, bearer, target, late>>
    PROVE  IInv'
<1> USE DEF IInv
<1>1. TypeOK'
  BY DEF Go, rows, redis, txn, TypeOK, Stages, Operations, Single, Sweeping
<1>2. StageFacts'
  BY DEF Go, rows, txn, StageFacts, TypeOK, InUpdate, Single, Sweeping
<1>3. RowLocks'
  BY DEF rows, txn, RowLocks, TypeOK
<1>4. RefreshLock'
  BY DEF Go, RefreshLock, HoldsRefresh, Refreshing, TypeOK
<1>5. ParentsRevoked'
  BY DEF rows, ParentsRevoked, TypeOK
<1>6. RotatedOnce'
  BY DEF rows, RotatedOnce, TypeOK
<1>7. LookedUpLate'
  BY DEF Go, rows, LookedUpLate, TypeOK
<1>8. RevokedUnlessRaced'
  BY DEF Go, rows, txn, RevokedUnlessRaced, LookedUpLate, TypeOK
<1>9. SeenCovered'
  BY DEF rows, txn, SeenCovered, TypeOK, Sweeping
<1>10. FamiliesCovered'
  BY DEF rows, txn, FamiliesCovered, TypeOK
<1>11. KeysCovered'
  BY DEF Go, rows, redis, txn, KeysCovered, TypeOK
<1> QED
  BY <1>1, <1>2, <1>3, <1>4, <1>5, <1>6, <1>7, <1>8, <1>9, <1>10, <1>11

LEMMA CacheSessionStep ==
    ASSUME IInv, NEW r \in Requests, CacheSession(r)
    PROVE  IInv'
<1> USE DEF IInv
<1>1. TypeOK'
  BY DEF CacheSession, Go, rows, txn, TypeOK, StageFacts, Stages
<1>2. StageFacts'
  BY DEF CacheSession, Go, rows, txn, StageFacts, TypeOK, InUpdate, Single, Sweeping
<1>3. RowLocks'
  BY DEF CacheSession, rows, txn, RowLocks, TypeOK
<1>4. RefreshLock'
  BY DEF CacheSession, Go, RefreshLock, HoldsRefresh, Refreshing, TypeOK
<1>5. ParentsRevoked'
  BY DEF CacheSession, rows, ParentsRevoked, TypeOK
<1>6. RotatedOnce'
  BY DEF CacheSession, rows, RotatedOnce, TypeOK
<1>7. LookedUpLate'
  BY DEF CacheSession, Go, rows, LookedUpLate, TypeOK
<1>8. RevokedUnlessRaced'
  BY DEF CacheSession, Go, RevokedUnlessRaced, TypeOK
<1>9. SeenCovered'
  BY DEF CacheSession, rows, txn, SeenCovered, TypeOK, Sweeping
<1>10. FamiliesCovered'
  BY DEF CacheSession, rows, txn, FamiliesCovered, TypeOK
<1>11. KeysCovered'
  BY DEF CacheSession, Overtaken, Go, rows, txn, StageFacts, KeysCovered, TypeOK
<1> QED
  BY <1>1, <1>2, <1>3, <1>4, <1>5, <1>6, <1>7, <1>8, <1>9, <1>10, <1>11

(* The six operations that start with an UPDATE. *)
LEMMA StartUpdateStep ==
    ASSUME IInv, NEW r \in Requests, NEW operation, NEW S,
           StartUpdate(r, operation, S),
           pc[r] \in {"idle", "admitted", "locked"},
           \/ /\ operation = "verify" /\ pc[r] = "idle"
              /\ \E d \in Devices : target' = [target EXCEPT ![r] = d]
           \/ /\ operation \in {"logout", "revoke_one"} /\ pc[r] = "admitted"
              /\ \E s \in Sessions : S = {s} /\ target' = [target EXCEPT ![r] = s]
           \/ operation = "revoke_all" /\ pc[r] # "locked" /\ UNCHANGED target
           \/ operation = "reuse" /\ pc[r] = "locked" /\ S = Sessions /\ UNCHANGED target
    PROVE  IInv'
<1> USE DEF IInv
<1>1. TypeOK'
  BY DEF StartUpdate, Go, rows, redis, Active, TypeOK, Stages, Operations, Single, Sweeping
<1>2. StageFacts'
  BY DEF StartUpdate, Go, rows, Active, StageFacts, TypeOK, InUpdate, Single, Sweeping
<1>3. RowLocks'
  BY DEF StartUpdate, rows, RowLocks, TypeOK
<1>4. RefreshLock'
  BY DEF StartUpdate, Go, RefreshLock, HoldsRefresh, Refreshing, StageFacts, TypeOK
<1>5. ParentsRevoked'
  BY DEF StartUpdate, rows, ParentsRevoked, TypeOK
<1>6. RotatedOnce'
  BY DEF StartUpdate, rows, RotatedOnce, TypeOK
<1>7. LookedUpLate'
  BY DEF StartUpdate, Go, rows, LookedUpLate, TypeOK
<1>8. RevokedUnlessRaced'
  BY DEF StartUpdate, Go, RevokedUnlessRaced, TypeOK
<1>9. SeenCovered'
  BY DEF StartUpdate, rows, Active, SeenCovered, TypeOK, Sweeping
<1>10. FamiliesCovered'
  BY DEF StartUpdate, rows, Active, FamiliesCovered, TypeOK
<1>11. KeysCovered'
  BY DEF StartUpdate, Go, rows, redis, StageFacts, KeysCovered, TypeOK
<1> QED
  BY <1>1, <1>2, <1>3, <1>4, <1>5, <1>6, <1>7, <1>8, <1>9, <1>10, <1>11

LEMMA RefreshTokenStep ==
    ASSUME IInv, NEW r \in Requests, NEW s \in Sessions, RefreshToken(r, s)
    PROVE  IInv'
<1> USE DEF IInv
<1>1. TypeOK'
  BY DEF RefreshToken, Go, rows, redis, txn, TypeOK, Stages, Operations, Single, Sweeping
<1>2. StageFacts'
  BY DEF RefreshToken, Go, rows, txn, StageFacts, TypeOK, InUpdate, Single, Sweeping
<1>3. RowLocks'
  BY DEF RefreshToken, rows, txn, RowLocks, TypeOK
<1>4. RefreshLock'
  BY DEF RefreshToken, Go, RefreshLock, HoldsRefresh, Refreshing, TypeOK
<1>5. ParentsRevoked'
  BY DEF RefreshToken, rows, ParentsRevoked, TypeOK
<1>6. RotatedOnce'
  BY DEF RefreshToken, rows, RotatedOnce, TypeOK
<1>7. LookedUpLate'
  BY DEF RefreshToken, Go, rows, LookedUpLate, TypeOK
<1>8. RevokedUnlessRaced'
  BY DEF RefreshToken, Go, RevokedUnlessRaced, TypeOK
<1>9. SeenCovered'
  BY DEF RefreshToken, rows, txn, SeenCovered, TypeOK, Sweeping
<1>10. FamiliesCovered'
  BY DEF RefreshToken, rows, txn, FamiliesCovered, TypeOK
<1>11. KeysCovered'
  BY DEF RefreshToken, Go, rows, redis, txn, KeysCovered, TypeOK
<1> QED
  BY <1>1, <1>2, <1>3, <1>4, <1>5, <1>6, <1>7, <1>8, <1>9, <1>10, <1>11

LEMMA LockUserRefreshStep ==
    ASSUME IInv, NEW r \in Requests, LockUserRefresh(r)
    PROVE  IInv'
<1> USE DEF IInv
<1>1. TypeOK'
  BY DEF LockUserRefresh, Go, rows, redis, txn, TypeOK, Stages, Operations, Single, Sweeping
<1>2. StageFacts'
  BY DEF LockUserRefresh, Go, rows, txn, StageFacts, TypeOK, InUpdate, Single, Sweeping
<1>3. RowLocks'
  BY DEF LockUserRefresh, rows, txn, RowLocks, TypeOK
<1>4. RefreshLock'
  BY DEF LockUserRefresh, Go, RefreshLock, HoldsRefresh, Refreshing, TypeOK
<1>5. ParentsRevoked'
  BY DEF LockUserRefresh, rows, ParentsRevoked, TypeOK
<1>6. RotatedOnce'
  BY DEF LockUserRefresh, rows, RotatedOnce, TypeOK
<1>7. LookedUpLate'
  BY DEF LockUserRefresh, Go, rows, LookedUpLate, TypeOK
<1>8. RevokedUnlessRaced'
  BY DEF LockUserRefresh, Go, RevokedUnlessRaced, TypeOK
<1>9. SeenCovered'
  BY DEF LockUserRefresh, rows, txn, SeenCovered, TypeOK, Sweeping
<1>10. FamiliesCovered'
  BY DEF LockUserRefresh, rows, txn, FamiliesCovered, TypeOK
<1>11. KeysCovered'
  BY DEF LockUserRefresh, Go, rows, redis, txn, KeysCovered, TypeOK
<1> QED
  BY <1>1, <1>2, <1>3, <1>4, <1>5, <1>6, <1>7, <1>8, <1>9, <1>10, <1>11

LEMMA GetSessionForUpdateStep ==
    ASSUME IInv, NEW r \in Requests, GetSessionForUpdate(r)
    PROVE  IInv'
<1> USE DEF IInv
<1>1. TypeOK'
  BY DEF GetSessionForUpdate, Go, rows, redis, TypeOK, StageFacts, Stages, Operations, Single
<1>2. StageFacts'
  BY DEF GetSessionForUpdate, Go, RowFree, rows, StageFacts, TypeOK, InUpdate, Single, Sweeping
<1>3. RowLocks'
  BY DEF GetSessionForUpdate, RowFree, rows, RowLocks, TypeOK
<1>4. RefreshLock'
  BY DEF GetSessionForUpdate, Go, RefreshLock, HoldsRefresh, Refreshing, StageFacts, TypeOK
<1>5. ParentsRevoked'
  BY DEF GetSessionForUpdate, rows, ParentsRevoked, TypeOK
<1>6. RotatedOnce'
  BY DEF GetSessionForUpdate, rows, RotatedOnce, TypeOK
<1>7. LookedUpLate'
  BY DEF GetSessionForUpdate, Go, rows, LookedUpLate, TypeOK
<1>8. RevokedUnlessRaced'
  BY DEF GetSessionForUpdate, Go, RevokedUnlessRaced, TypeOK
<1>9. SeenCovered'
  BY DEF GetSessionForUpdate, rows, SeenCovered, TypeOK, Sweeping
<1>10. FamiliesCovered'
  BY DEF GetSessionForUpdate, rows, FamiliesCovered, TypeOK
<1>11. KeysCovered'
  BY DEF GetSessionForUpdate, Go, rows, redis, KeysCovered, TypeOK
<1> QED
  BY <1>1, <1>2, <1>3, <1>4, <1>5, <1>6, <1>7, <1>8, <1>9, <1>10, <1>11

LEMMA MarkRowStep ==
    ASSUME IInv, NEW r \in Requests, NEW s \in Sessions, MarkRow(r, s)
    PROVE  IInv'
<1> USE DEF IInv
<1>1. TypeOK'
  BY DEF MarkRow, RowFree, Active, rows, redis, TypeOK, Stages, Operations, Single, Sweeping
<1>2. StageFacts'
  BY DEF MarkRow, RowFree, Active, rows, StageFacts, TypeOK, InUpdate, Single, Sweeping
<1>3. RowLocks'
  BY DEF MarkRow, RowFree, Active, rows, RowLocks, TypeOK
<1>4. RefreshLock'
  BY DEF MarkRow, RefreshLock, HoldsRefresh, Refreshing, TypeOK
<1>5. ParentsRevoked'
  BY DEF MarkRow, rows, ParentsRevoked, TypeOK
<1>6. RotatedOnce'
  BY DEF MarkRow, rows, RotatedOnce, TypeOK
<1>7. LookedUpLate'
  BY DEF MarkRow, rows, LookedUpLate, TypeOK
<1>8. RevokedUnlessRaced'
  BY DEF MarkRow, RevokedUnlessRaced, TypeOK
<1>9. SeenCovered'
  BY DEF MarkRow, Active, rows, SeenCovered, StageFacts, TypeOK, Sweeping
<1>10. FamiliesCovered'
  BY DEF MarkRow, Active, rows, FamiliesCovered, TypeOK
<1>11. KeysCovered'
  BY DEF MarkRow, Go, rows, redis, KeysCovered, TypeOK
<1> QED
  BY <1>1, <1>2, <1>3, <1>4, <1>5, <1>6, <1>7, <1>8, <1>9, <1>10, <1>11

(* The steps that only touch Redis. *)
LEMMA SweepStep ==
    ASSUME IInv, NEW r \in Requests, DropKey(r) \/ ListIndex(r) \/ DeleteListed(r)
    PROVE  IInv'
<1> USE DEF IInv
<1>1. TypeOK'
  BY DEF DropKey, ListIndex, DeleteListed, Go, rows, redis, txn, TypeOK, Stages, Operations, Single, Sweeping
<1>2. StageFacts'
  BY DEF DropKey, ListIndex, DeleteListed, Go, rows, txn, StageFacts, TypeOK, InUpdate, Single, Sweeping
<1>3. RowLocks'
  BY DEF DropKey, ListIndex, DeleteListed, rows, txn, RowLocks, TypeOK
<1>4. RefreshLock'
  BY DEF DropKey, ListIndex, DeleteListed, Go, RefreshLock, HoldsRefresh, Refreshing, TypeOK
<1>5. ParentsRevoked'
  BY DEF DropKey, ListIndex, DeleteListed, rows, ParentsRevoked, TypeOK
<1>6. RotatedOnce'
  BY DEF DropKey, ListIndex, DeleteListed, rows, RotatedOnce, TypeOK
<1>7. LookedUpLate'
  BY DEF DropKey, ListIndex, DeleteListed, Go, rows, LookedUpLate, TypeOK
<1>8. RevokedUnlessRaced'
  BY DEF DropKey, ListIndex, DeleteListed, Go, RevokedUnlessRaced, TypeOK
<1>9. SeenCovered'
  BY DEF DropKey, ListIndex, DeleteListed, rows, txn, SeenCovered, TypeOK, Sweeping
<1>10. FamiliesCovered'
  BY DEF DropKey, ListIndex, DeleteListed, rows, txn, FamiliesCovered, TypeOK
<1>11. KeysCovered'
  <2>1. CASE DropKey(r)
    <3>1. marked[r] \subseteq {target[r]}
      BY <2>1 DEF DropKey, StageFacts
    <3> QED
      BY <2>1, <3>1 DEF DropKey, Go, rows, txn, KeysCovered, TypeOK
  <2>2. CASE ListIndex(r)
    BY <2>2 DEF ListIndex, Go, rows, redis, KeysCovered, TypeOK
  <2>3. CASE DeleteListed(r)
    BY <2>3 DEF DeleteListed, Go, rows, KeysCovered, TypeOK
  <2> QED
    BY <2>1, <2>2, <2>3
<1> QED
  BY <1>1, <1>2, <1>3, <1>4, <1>5, <1>6, <1>7, <1>8, <1>9, <1>10, <1>11

LEMMA CommitRevocationStep ==
    ASSUME IInv, NEW r \in Requests, CommitRevocation(r)
    PROVE  IInv'
<1> USE DEF IInv
<1>1. TypeOK'
  BY DEF CommitRevocation, Revoked, End, Go, redis, TypeOK, Stages, Operations, Single, Sweeping
<1>2. StageFacts'
  BY DEF CommitRevocation, Revoked, End, Go, StageFacts, TypeOK, InUpdate, Single, Sweeping
<1>3. RowLocks'
  BY DEF CommitRevocation, Revoked, End, RowLocks, TypeOK
<1>4. RefreshLock'
  BY DEF CommitRevocation, End, Go, RefreshLock, HoldsRefresh, Refreshing, TypeOK
<1>5. ParentsRevoked'
  BY DEF CommitRevocation, Revoked, ParentsRevoked, TypeOK
<1>6. RotatedOnce'
  BY DEF CommitRevocation, RotatedOnce, TypeOK
<1>7. LookedUpLate'
  BY DEF CommitRevocation, Revoked, End, Go, LookedUpLate, StageFacts, TypeOK
<1>8. RevokedUnlessRaced'
  BY DEF CommitRevocation, End, Go, RevokedUnlessRaced, TypeOK
<1>9. SeenCovered'
  BY DEF CommitRevocation, Revoked, End, SeenCovered, TypeOK, Sweeping
<1>10. FamiliesCovered'
  BY DEF CommitRevocation, Revoked, End, FamiliesCovered, TypeOK
<1>11. KeysCovered'
  BY DEF CommitRevocation, Revoked, End, Go, redis, KeysCovered, TypeOK
<1> QED
  BY <1>1, <1>2, <1>3, <1>4, <1>5, <1>6, <1>7, <1>8, <1>9, <1>10, <1>11

LEMMA CommitSessionStep ==
    ASSUME IInv, NEW r \in Requests, NEW s \in Sessions, CommitSession(r, s)
    PROVE  IInv'
<1> USE DEF IInv
<1>1. /\ pc[r] = "swept" /\ op[r] \in {"verify", "rotate"}
      /\ session[s] = "none" /\ session'[s] = "active"
      /\ \A t \in Sessions \ {s} :
            session'[t] = IF t \in marked[r] THEN "revoked" ELSE session[t]
      /\ \A t \in Sessions \ {s} : parent'[t] = parent[t]
      /\ op[r] = "verify" => parent'[s] = None
      /\ op[r] = "rotate" =>
            /\ parent'[s] = target[r] /\ target[r] \in Sessions /\ target[r] # s
            /\ target[r] \in marked[r] /\ session[target[r]] = "active"
  BY DEF CommitSession, Revoked, Creating, TypeOK, StageFacts, RowLocks, Single
<1>2. TypeOK'
  BY <1>1 DEF CommitSession, End, Go, redis, TypeOK, Revoked, StageFacts, Creating, Single, Stages, Operations
<1>3. StageFacts'
  BY DEF CommitSession, Revoked, Creating, End, Go, StageFacts, TypeOK, InUpdate, Single, Sweeping
<1>4. RowLocks'
  BY DEF CommitSession, Revoked, End, RowLocks, TypeOK
<1>5. RefreshLock'
  BY DEF CommitSession, End, Go, RefreshLock, HoldsRefresh, Refreshing, TypeOK
<1>6. ParentsRevoked'
  BY <1>1, NoneAssumption DEF ParentsRevoked, TypeOK
<1>7. RotatedOnce'
  BY <1>1 DEF ParentsRevoked, RotatedOnce, TypeOK
<1>8. LookedUpLate'
  BY <1>1 DEF CommitSession, End, Go, LookedUpLate, StageFacts, TypeOK
<1>9. RevokedUnlessRaced'
  BY DEF CommitSession, End, Go, RevokedUnlessRaced, TypeOK
<1>10. SeenCovered'
  BY DEF CommitSession, Revoked, End, SeenCovered, TypeOK, Sweeping
<1>11. FamiliesCovered'
  <2> SUFFICES ASSUME NEW q \in Requests, op'[q] = "reuse", NEW t \in Sessions,
                      session'[t] = "active", parent'[t] # None
               PROVE  t \in scan'[q] \cup marked'[q]
    BY DEF FamiliesCovered
  <2>1. q # r /\ op[q] = "reuse" /\ scan'[q] = scan[q] /\ marked'[q] = marked[q]
    BY DEF CommitSession, End, Go, TypeOK
  <2>2. op[r] = "verify"
    BY <1>1, <2>1 DEF RefreshLock, HoldsRefresh, Refreshing, StageFacts, InUpdate, Single, Sweeping
  <2>3. t # s /\ session[t] = "active" /\ parent[t] # None
    BY <1>1, <2>2
  <2> QED
    BY <2>1, <2>3 DEF FamiliesCovered
<1>12. KeysCovered'
  BY DEF CommitSession, Revoked, End, Go, redis, KeysCovered, TypeOK
<1> QED
  BY <1>2, <1>3, <1>4, <1>5, <1>6, <1>7, <1>8, <1>9, <1>10, <1>11, <1>12

-----------------------------------------------------------------------------
(* Every step, by the operation it belongs to. *)

LEMMA ValidationStep ==
    ASSUME IInv, NEW r \in Requests, Validation(r)
    PROVE  IInv'
<1>1. ASSUME NEW s \in Sessions, LookUp(r, s) PROVE IInv'
  BY <1>1, LookUpStep
<1>2. CASE ReadSession(r)
  <2>1. CASE session[bearer[r]] = "active"
    BY <1>2, <2>1, ReadSessionStep DEF ReadSession, rows, redis
  <2>2. CASE session[bearer[r]] # "active"
    BY <1>2, <2>2, EndStep DEF ReadSession, rows, redis
  <2> QED
    BY <2>1, <2>2
<1>3. CASE CacheSession(r)
  BY <1>3, CacheSessionStep
<1>4. CASE Answer(r)
  BY <1>4, EndStep DEF Answer, rows, redis
<1> QED
  BY <1>1, <1>2, <1>3, <1>4 DEF Validation

LEMMA StartingStep ==
    ASSUME IInv, NEW r \in Requests, Starting(r)
    PROVE  IInv'
<1>1. ASSUME NEW d \in Devices, VerifyEmail(r, d) PROVE IInv'
  BY <1>1, StartUpdateStep DEF VerifyEmail
<1>2. CASE Logout(r)
  BY <1>2, StartUpdateStep DEF Logout, IInv, StageFacts
<1>3. CASE RevokeAll(r)
  BY <1>3, StartUpdateStep DEF RevokeAll
<1>4. CASE ApproveDeletion(r)
  BY <1>4, StartUpdateStep DEF ApproveDeletion
<1>5. ASSUME NEW s \in Sessions, RevokeSession(r, s) PROVE IInv'
  BY <1>5, StartUpdateStep DEF RevokeSession
<1>6. ASSUME NEW s \in Sessions, RefreshToken(r, s) PROVE IInv'
  BY <1>6, RefreshTokenStep
<1>7. CASE LockUserRefresh(r)
  BY <1>7, LockUserRefreshStep
<1>8. CASE GetSessionForUpdate(r)
  BY <1>8, GetSessionForUpdateStep
<1>9. CASE DetectReuse(r)
  BY <1>9, StartUpdateStep DEF DetectReuse
<1> QED
  BY <1>1, <1>2, <1>3, <1>4, <1>5, <1>6, <1>7, <1>8, <1>9 DEF Starting

LEMMA RevokingStep ==
    ASSUME IInv, NEW r \in Requests, Revoking(r)
    PROVE  IInv'
<1>1. ASSUME NEW s \in Sessions, MarkRow(r, s) PROVE IInv'
  BY <1>1, MarkRowStep
<1>2. ASSUME NEW s \in Sessions, CommitSession(r, s) PROVE IInv'
  BY <1>2, CommitSessionStep
<1>3. CASE DropKey(r) \/ ListIndex(r) \/ DeleteListed(r)
  BY <1>3, SweepStep
<1>4. CASE CommitRevocation(r)
  BY <1>4, CommitRevocationStep
<1> QED
  BY <1>1, <1>2, <1>3, <1>4 DEF Revoking

LEMMA NextStep == IInv /\ [Next]_vars => IInv'
<1> SUFFICES ASSUME IInv, [Next]_vars PROVE IInv'
  OBVIOUS
<1>1. ASSUME NEW r \in Requests, Validation(r) PROVE IInv'
  BY <1>1, ValidationStep
<1>2. ASSUME NEW r \in Requests, Starting(r) PROVE IInv'
  BY <1>2, StartingStep
<1>3. ASSUME NEW r \in Requests, Revoking(r) PROVE IInv'
  BY <1>3, RevokingStep
<1>4. ASSUME NEW r \in Requests, Fail(r) PROVE IInv'
  BY <1>4, EndStep DEF Fail, rows, redis
<1>5. ASSUME NEW s \in Sessions, ExpireKey(s) PROVE IInv'
  BY <1>5, ExpireKeyStep
<1>6. CASE UNCHANGED vars
  BY <1>6 DEF vars, rows, redis, txn, IInv, TypeOK, StageFacts, RowLocks, RefreshLock,
      HoldsRefresh, ParentsRevoked, RotatedOnce, LookedUpLate, KeysCovered, RevokedUnlessRaced, SeenCovered,
      FamiliesCovered
<1> QED
  BY <1>1, <1>2, <1>3, <1>4, <1>5, <1>6 DEF Next

(* The invariant holds throughout. *)
THEOREM Inductive == Spec => []IInv
<1>1. Init => IInv
  BY InitIInv
<1>2. IInv /\ [Next]_vars => IInv'
  BY NextStep
<1> QED
  BY <1>1, <1>2, PTL DEF Spec

-----------------------------------------------------------------------------
(* The properties that the runs check *)

(* Every variable has its type. *)
THEOREM TypeCorrect == Spec => []TypeOK
<1>1. IInv => TypeOK
  BY DEF IInv
<1> QED
  BY <1>1, Inductive, PTL

(* No two sessions come from the same refresh token, for any number of     *)
(* requests that present it. It rests on the row locks: the row that a     *)
(* rotation replaces is active until its commit, and a rotated one is not. *)
THEOREM RefreshTokensRotateOnce == Spec => []RotatedOnce
<1>1. IInv => RotatedOnce
  BY DEF IInv
<1> QED
  BY <1>1, Inductive, PTL

(* validate_access_token refuses a session that was revoked before the     *)
(* request arrived, on the cached path and on the database path, unless a  *)
(* validation cached the key after the revocation had swept Redis.  The    *)
(* argument is KeysCovered: every other key of a session is where the next *)
(* revocation of it looks.                                                 *)
THEOREM RevokedIsRefusedUnlessRaced == Spec => []RevokedUnlessRaced
<1>1. IInv => RevokedUnlessRaced
  BY DEF IInv
<1> QED
  BY <1>1, Inductive, PTL

(* A revocation of several sessions leaves none of those it started from   *)
(* active, whoever revoked them and in whatever order the locks came free. *)
THEOREM RevocationsReachTheirRows == Spec => RevokesWhatItSaw
<1> DEFINE Reaches(r) == Commits(r) /\ op[r] \in Sweeping
                             => \A s \in seen[r] : session'[s] = "revoked"
<1>1. IInv /\ [Next]_vars => [\A r \in Requests : Reaches(r)]_vars
  <2> SUFFICES ASSUME IInv, NEW r \in Requests, Commits(r), op[r] \in Sweeping,
                      NEW s \in seen[r]
               PROVE  session'[s] = "revoked"
    OBVIOUS
  <2>1. pc[r] = "swept"
    BY DEF Commits, CommitRevocation, CommitSession
  <2>2. s \in Sessions /\ (s \in marked[r] \/ session[s] = "revoked")
    BY <2>1 DEF IInv, StageFacts, SeenCovered, TypeOK
  <2>3. CASE CommitRevocation(r)
    BY <2>2, <2>3 DEF CommitRevocation, Revoked
  <2>4. ASSUME NEW n \in Sessions, CommitSession(r, n) PROVE session'[s] = "revoked"
    <3>1. n # s
      BY <2>2, <2>4 DEF CommitSession, IInv, RowLocks
    <3> QED
      BY <2>2, <2>4, <3>1 DEF CommitSession, Revoked, IInv, TypeOK
  <2> QED
    BY <2>3, <2>4 DEF Commits
<1> QED
  BY <1>1, Inductive, PTL DEF Spec, RevokesWhatItSaw

(* When a reused refresh token is answered, no session that any refresh    *)
(* ever created is active any more: the advisory lock lets none commit     *)
(* between the start of the UPDATE and its own commit.                     *)
THEOREM ReuseIsFinal == Spec => ReuseEndsFamilies
<1> DEFINE Ends(r) == Commits(r) /\ op[r] = "reuse"
                          => \A s \in Sessions : session'[s] = "active" => parent'[s] = None
<1>1. IInv /\ [Next]_vars => [\A r \in Requests : Ends(r)]_vars
  <2> SUFFICES ASSUME IInv, NEW r \in Requests, Commits(r), op[r] = "reuse",
                      NEW s \in Sessions, session'[s] = "active"
               PROVE  parent'[s] = None
    OBVIOUS
  <2>1. CommitRevocation(r)
    BY DEF Commits, CommitSession, Creating
  <2>2. scan[r] = {}
    BY <2>1 DEF CommitRevocation, IInv, StageFacts
  <2>3. session[s] = "active" /\ s \notin marked[r] /\ parent'[s] = parent[s]
    BY <2>1 DEF CommitRevocation, Revoked
  <2> QED
    BY <2>2, <2>3 DEF IInv, FamiliesCovered
<1> QED
  BY <1>1, Inductive, PTL DEF Spec, ReuseEndsFamilies

-----------------------------------------------------------------------------
(* The refinement *)

(* The rows that a verification will visit or has revoked are of the       *)
(* device it verifies.                                                     *)
ItsDevice ==
    \A r \in Requests : op[r] = "verify" =>
        \A s \in scan[r] \cup marked[r] : device[s] = target[r]

LEMMA ItsDeviceStep ==
    ASSUME IInv, ItsDevice, [Next]_vars
    PROVE  ItsDevice'
<1> USE DEF IInv
<1>1. ASSUME NEW r \in Requests, Validation(r) PROVE ItsDevice'
  <2>1. CASE \E s \in Sessions : LookUp(r, s)
    BY <2>1 DEF LookUp, rows, txn, ItsDevice
  <2>2. CASE ReadSession(r)
    BY <2>2 DEF ReadSession, End, rows, txn, ItsDevice, TypeOK
  <2>3. CASE CacheSession(r)
    BY <2>3 DEF CacheSession, rows, txn, ItsDevice
  <2>4. CASE Answer(r)
    BY <2>4 DEF Answer, End, rows, ItsDevice, TypeOK
  <2> QED
    BY <1>1, <2>1, <2>2, <2>3, <2>4 DEF Validation
<1>2. ASSUME NEW r \in Requests, Starting(r) PROVE ItsDevice'
  <2>1. ASSUME NEW d \in Devices, VerifyEmail(r, d) PROVE ItsDevice'
    <3>1. /\ pc[r] = "idle" /\ marked'[r] = {} /\ target'[r] = d
          /\ \A s \in scan'[r] : device'[s] = d
      BY <2>1 DEF VerifyEmail, StartUpdate, rows, StageFacts, InUpdate, TypeOK
    <3>2. \A q \in Requests \ {r} :
            /\ op'[q] = op[q] /\ scan'[q] = scan[q] /\ marked'[q] = marked[q]
            /\ target'[q] = target[q]
      BY <2>1 DEF VerifyEmail, StartUpdate, TypeOK
    <3>3. device' = device
      BY <2>1 DEF VerifyEmail, StartUpdate, rows
    <3> QED
      BY <3>1, <3>2, <3>3 DEF ItsDevice
  <2>2. CASE Logout(r) \/ RevokeAll(r) \/ ApproveDeletion(r) \/ DetectReuse(r)
    BY <2>2 DEF Logout, RevokeAll, ApproveDeletion, DetectReuse, StartUpdate, rows,
         ItsDevice, TypeOK
  <2>3. CASE \E s \in Sessions : RevokeSession(r, s) \/ RefreshToken(r, s)
    BY <2>3 DEF RevokeSession, RefreshToken, StartUpdate, rows, txn, ItsDevice, TypeOK
  <2>4. CASE LockUserRefresh(r)
    BY <2>4 DEF LockUserRefresh, rows, txn, ItsDevice
  <2>5. CASE GetSessionForUpdate(r)
    BY <2>5 DEF GetSessionForUpdate, rows, ItsDevice, TypeOK
  <2> QED
    BY <1>2, <2>1, <2>2, <2>3, <2>4, <2>5 DEF Starting
<1>3. ASSUME NEW r \in Requests, Revoking(r) PROVE ItsDevice'
  <2>1. CASE \E s \in Sessions : MarkRow(r, s)
    BY <2>1 DEF MarkRow, rows, ItsDevice, TypeOK
  <2>2. ASSUME NEW s \in Sessions, CommitSession(r, s) PROVE ItsDevice'
    <3>1. op'[r] = "none"
      BY <2>2 DEF CommitSession, End, TypeOK
    <3>2. \A q \in Requests \ {r} :
            /\ op'[q] = op[q] /\ scan'[q] = scan[q] /\ marked'[q] = marked[q]
            /\ target'[q] = target[q]
      BY <2>2 DEF CommitSession, End, TypeOK
    <3>3. \A q \in Requests : \A t \in scan[q] \cup marked[q] : device'[t] = device[t]
      BY <2>2 DEF CommitSession, StageFacts, RowLocks, TypeOK
    <3> QED
      BY <3>1, <3>2, <3>3 DEF ItsDevice
  <2>3. CASE DropKey(r) \/ ListIndex(r) \/ DeleteListed(r)
    BY <2>3 DEF DropKey, ListIndex, DeleteListed, rows, txn, ItsDevice
  <2>4. CASE CommitRevocation(r)
    BY <2>4 DEF CommitRevocation, End, ItsDevice, TypeOK
  <2> QED
    BY <1>3, <2>1, <2>2, <2>3, <2>4 DEF Revoking
<1>4. ASSUME NEW r \in Requests, Fail(r) PROVE ItsDevice'
  BY <1>4 DEF Fail, End, rows, ItsDevice, TypeOK
<1>5. CASE UNCHANGED vars \/ \E s \in Sessions : ExpireKey(s)
  BY <1>5 DEF ExpireKey, vars, rows, txn, ItsDevice
<1> QED
  BY <1>1, <1>2, <1>3, <1>4, <1>5 DEF Next

LEMMA CommitRevocationMaps ==
    ASSUME IInv, NEW r \in Requests, CommitRevocation(r)
    PROVE  Register!RegisterNext
<1>1. marked[r] \in SUBSET Register!Open
  BY DEF IInv, RowLocks, TypeOK, Register!Open
<1>2. Register!Close(marked[r]) /\ UNCHANGED <<device, parent>>
  BY DEF CommitRevocation, Revoked, Register!Close
<1> QED
  BY <1>1, <1>2 DEF Register!RegisterNext, Register!Revoke

LEMMA CommitSessionMaps ==
    ASSUME IInv, ItsDevice, NEW r \in Requests, NEW s \in Sessions, CommitSession(r, s)
    PROVE  Register!RegisterNext
<1> USE DEF IInv
<1>1. session' = [t \in Sessions |-> IF t = s THEN "active"
                                     ELSE IF t \in marked[r] THEN "revoked" ELSE session[t]]
  BY DEF CommitSession, Revoked
<1>2. session[s] = "none" /\ pc[r] = "swept" /\ op[r] \in {"verify", "rotate"}
  BY DEF CommitSession, Creating
<1>3. \A t \in marked[r] : t \in Register!Open
  BY DEF RowLocks, TypeOK, Register!Open
<1>4. CASE op[r] = "verify"
  <2>1. target[r] \in Devices /\ \A t \in marked[r] : device[t] = target[r]
    BY <1>4 DEF StageFacts, ItsDevice
  <2>2. /\ device' = [device EXCEPT ![s] = target[r]]
        /\ parent' = [parent EXCEPT ![s] = None]
    BY <1>4 DEF CommitSession
  <2>3. Register!CloseAndOpen(marked[r], s, target[r], None)
    BY <1>1, <1>2, <2>2 DEF Register!CloseAndOpen
  <2>4. marked[r] \in SUBSET {t \in Register!Open : device[t] = target[r]}
    BY <1>3, <2>1
  <2>5. Register!Login(target[r], s)
    BY <2>3, <2>4 DEF Register!Login
  <2> QED
    BY <2>1, <2>5 DEF Register!RegisterNext
<1>5. CASE op[r] = "rotate"
  <2>1. target[r] \in Sessions /\ marked[r] = {target[r]}
    BY <1>5 DEF StageFacts, Single
  <2>2. /\ device' = [device EXCEPT ![s] = device[target[r]]]
        /\ parent' = [parent EXCEPT ![s] = target[r]]
    BY <1>5 DEF CommitSession
  <2>3. Register!CloseAndOpen({target[r]}, s, device[target[r]], target[r])
    BY <1>1, <1>2, <2>1, <2>2 DEF Register!CloseAndOpen
  <2>4. Register!Refresh(target[r], s)
    BY <1>3, <2>1, <2>3 DEF Register!Refresh
  <2> QED
    BY <2>1, <2>4 DEF Register!RegisterNext
<1> QED
  BY <1>2, <1>4, <1>5

LEMMA StepMaps ==
    ASSUME IInv, ItsDevice, [Next]_vars
    PROVE  [Register!RegisterNext]_Register!register
<1>1. ASSUME NEW r \in Requests, Validation(r) PROVE UNCHANGED rows
  BY <1>1 DEF Validation, LookUp, ReadSession, CacheSession, Answer, rows
<1>2. ASSUME NEW r \in Requests, Starting(r) PROVE UNCHANGED rows
  BY <1>2 DEF Starting, VerifyEmail, Logout, RevokeAll, ApproveDeletion, RevokeSession,
       RefreshToken, LockUserRefresh, GetSessionForUpdate, DetectReuse, StartUpdate, rows
<1>3. ASSUME NEW r \in Requests, Revoking(r) PROVE UNCHANGED rows \/ Register!RegisterNext
  <2>1. CASE \/ \E s \in Sessions : MarkRow(r, s)
             \/ DropKey(r) \/ ListIndex(r) \/ DeleteListed(r)
    BY <2>1 DEF MarkRow, DropKey, ListIndex, DeleteListed, rows
  <2>2. CASE \E s \in Sessions : CommitSession(r, s)
    BY <2>2, CommitSessionMaps
  <2>3. CASE CommitRevocation(r)
    BY <2>3, CommitRevocationMaps
  <2> QED
    BY <1>3, <2>1, <2>2, <2>3 DEF Revoking
<1>4. ASSUME NEW r \in Requests, Fail(r) PROVE UNCHANGED rows
  BY <1>4 DEF Fail, rows
<1>5. ASSUME UNCHANGED vars \/ \E s \in Sessions : ExpireKey(s)
      PROVE  UNCHANGED rows
  BY <1>5 DEF ExpireKey, vars, rows
<1> QED
  BY <1>1, <1>2, <1>3, <1>4, <1>5 DEF Next, rows, Register!register

(* Each session row is changed as by the register's single steps: between  *)
(* the first statement of a login, a refresh or a revocation and its       *)
(* commit others may do what they like, and any of them may fail.          *)
THEOREM SessionsImplementRegister == Spec => ImplementsRegister
<1>1. Init => ItsDevice /\ Register!RegisterInit
  BY DEF Init, ItsDevice, Register!RegisterInit
<1>2. Spec => []ItsDevice
  BY <1>1, ItsDeviceStep, Inductive, PTL DEF Spec
<1> QED
  BY <1>1, <1>2, StepMaps, Inductive, PTL DEF Spec, ImplementsRegister, Register!RegisterSpec
===============================================================================
