------------------------- MODULE AccountAccessProofs -------------------------
(***************************************************************************)
(* Proofs about AccountAccess, for any sets of users, sessions and         *)
(* requests and any bound, with Redis losing writes at any time; and, when *)
(* it loses none, that AccountAccess implements AccountAuthority.          *)
(***************************************************************************)
EXTENDS AccountAccess, TLAPS

-----------------------------------------------------------------------------
(* The inductive invariant, in named parts. *)

(* Claims are those of a committed row, which is the present row as long   *)
(* as the version has not moved: role and version change together.         *)
ClaimsOfRow ==
    /\ \A u \in Users : 1 <= row[u].version
    /\ \A s \in Sessions :
          token[s] # None =>
              /\ token[s] \in Claims
              /\ 1 <= token[s].av
              /\ token[s].av <= row[token[s].user].version
              /\ token[s].av = row[token[s].user].version
                    => token[s].role = row[token[s].user].role

HandedOut ==
    /\ \A s \in issued : token[s] # None
    /\ keys \subseteq issued
    /\ \A r \in Requests :
          /\ pc[r] \in Validating \cup {"admitted"} => bearer[r] \in issued
          /\ pc[r] = "minting" => bearer[r] \in Sessions /\ token[bearer[r]] # None

(* A session that is cached, or on its way to be, was read from an active  *)
(* row; this stays so until the version moves.                             *)
ReadAsActive(s) ==
    token[s].av = row[token[s].user].version
        => row[token[s].user].status = "active"

CachedWasRead ==
    /\ \A s \in keys : ReadAsActive(s)
    /\ \A r \in Requests :
          pc[r] \in {"user_ok", "session_ok", "version_cached"} => ReadAsActive(bearer[r])

(* At most one transaction holds an account's row, and it wrote the        *)
(* successor of the committed row.                                         *)
RowLock ==
    /\ \A r \in Requests : pc[r] \in Changing => job[r] \in Jobs
    /\ \A r \in Requests : pc[r] \in InTransaction => pending[r] = NewRow(r)
    /\ \A r, q \in Requests :
          (r # q /\ pc[r] \in InTransaction /\ pc[q] \in InTransaction)
              => job[r].target # job[q].target

Published ==
    /\ \A u \in Users : verKey[u] <= row[u].version + 1
    /\ \A r \in Requests :
          (pc[r] \in {"published", "ready"} /\ job[r].target \notin lost)
              => verKey[job[r].target] >= pending[r].version

LookedUp ==
    \A r \in Requests :
        /\ pc[r] \in Validating \cup {"admitted"}
              => since[r] <= row[Principal(r).user].version
        /\ pc[r] \in {"user_ok", "session_ok", "version_cached", "admitted"}
              => since[r] <= Principal(r).av

IInv == /\ TypeOK
        /\ ClaimsOfRow
        /\ HandedOut
        /\ CachedWasRead
        /\ RowLock
        /\ Published
        /\ LookedUp
        /\ VersionKeyCovers

-----------------------------------------------------------------------------
(* Init, and one lemma per step. *)

LEMMA InitIInv == Init => IInv
BY NoneAssumption
   DEF Init, IInv, TypeOK, ClaimsOfRow, HandedOut, CachedWasRead, RowLock, Published,
       LookedUp, VersionKeyCovers, Rows, Roles, Statuses, Stages, Validating, Changing,
       InTransaction

LEMMA CommitStep ==
    ASSUME IInv, NEW r \in Requests, Commit(r)
    PROVE  IInv'
<1> USE DEF IInv
<1> DEFINE u == job[r].target
<1>1. /\ pc[r] = "ready" /\ r \in Requests
      /\ u \in Users
      /\ pending[r] = NewRow(r)
      /\ pending[r] \in Rows
      /\ pending[r].version = row[u].version + 1
      /\ row' = [row EXCEPT ![u] = pending[r]]
  BY DEF Commit, TypeOK, RowLock, NewRow, Jobs, Rows, Changing, InTransaction, Roles, Statuses, RoleKinds, StatusKinds
<1>2. /\ row'[u] = pending[r]
      /\ \A v \in Users \ {u} : row'[v] = row[v]
  BY <1>1 DEF TypeOK
<1>3. TypeOK'
  BY <1>1, NoneAssumption DEF Commit, End, Go, TypeOK, redis, minted, Stages
<1>4. ClaimsOfRow'
  BY <1>1, <1>2 DEF Commit, ClaimsOfRow, TypeOK, minted, Claims, Rows
<1>5. HandedOut'
  BY DEF Commit, End, Go, HandedOut, TypeOK, redis, minted, Validating
<1>6. CachedWasRead'
  BY <1>1, <1>2 DEF Commit, End, Go, CachedWasRead, ReadAsActive, ClaimsOfRow, HandedOut, TypeOK, redis, minted, Validating, Claims, Rows
<1>7. RowLock'
  BY <1>1, <1>2 DEF Commit, End, Go, RowLock, TypeOK, NewRow, InTransaction, Changing
<1>8. Published'
  BY <1>1, <1>2 DEF Commit, End, Go, Published, RowLock, TypeOK, redis, InTransaction, Changing, Rows
<1>9. LookedUp'
  BY <1>1, <1>2 DEF Commit, End, Go, LookedUp, HandedOut, ClaimsOfRow, TypeOK, Principal, minted, Validating, Claims, Rows
<1>10. VersionKeyCovers'
  BY <1>1, <1>2 DEF Commit, VersionKeyCovers, Published, TypeOK, redis, Rows
<1> QED
  BY <1>3, <1>4, <1>5, <1>6, <1>7, <1>8, <1>9, <1>10

(* A request that ends with nothing written: Fail, Answer and refusals. *)
LEMMA EndStep ==
    ASSUME IInv, NEW r \in Requests, End(r), UNCHANGED <<row, redis, minted>>
    PROVE  IInv'
<1> USE DEF IInv
<1>1. TypeOK'
  BY DEF End, Go, TypeOK, redis, minted, Stages
<1>2. ClaimsOfRow'
  BY DEF ClaimsOfRow, minted
<1>3. HandedOut'
  BY DEF End, Go, HandedOut, TypeOK, redis, minted, Validating
<1>4. CachedWasRead'
  BY DEF End, Go, CachedWasRead, ReadAsActive, TypeOK, redis, minted
<1>5. RowLock'
  BY DEF End, Go, RowLock, TypeOK, NewRow, InTransaction, Changing
<1>6. Published'
  BY DEF End, Go, Published, TypeOK, redis
<1>7. LookedUp'
  BY DEF End, Go, LookedUp, TypeOK, Principal, minted, Validating
<1>8. VersionKeyCovers'
  BY DEF VersionKeyCovers, redis
<1> QED
  BY <1>1, <1>2, <1>3, <1>4, <1>5, <1>6, <1>7, <1>8

LEMMA MintReadStep ==
    ASSUME IInv, NEW r \in Requests, NEW s \in Sessions, NEW u \in Users,
           MintRead(r, s, u)
    PROVE  IInv'
<1> USE DEF IInv
<1>1. /\ token[s] = None /\ s \notin issued /\ s \notin keys
      /\ \A x \in Sessions \ {s} : token'[x] = token[x]
      /\ token'[s] = [user |-> u, role |-> row[u].role, av |-> row[u].version]
      /\ token'[s] \in Claims
      /\ 1 <= row[u].version
      /\ UNCHANGED <<row, verKey, keys, lost, issued, job, pending, since>>
  BY NoneAssumption DEF MintRead, ClaimsOfRow, HandedOut, TypeOK, Claims, Rows, redis
<1>2. TypeOK'
  BY <1>1 DEF MintRead, Go, TypeOK, Stages
<1>3. ClaimsOfRow'
  BY <1>1, NoneAssumption DEF ClaimsOfRow, TypeOK, Claims, Rows
<1>4. HandedOut'
  BY <1>1, NoneAssumption DEF MintRead, Go, HandedOut, TypeOK, Validating
<1>5. CachedWasRead'
  BY <1>1 DEF MintRead, Go, CachedWasRead, ReadAsActive, HandedOut, TypeOK, Validating
<1>6. RowLock'
  BY <1>1 DEF MintRead, Go, RowLock, TypeOK, NewRow, InTransaction, Changing
<1>7. Published'
  BY <1>1 DEF MintRead, Go, Published, TypeOK
<1>8. LookedUp'
  BY <1>1 DEF MintRead, Go, LookedUp, HandedOut, TypeOK, Principal, Validating
<1>9. VersionKeyCovers'
  BY <1>1 DEF VersionKeyCovers
<1> QED
  BY <1>2, <1>3, <1>4, <1>5, <1>6, <1>7, <1>8, <1>9

LEMMA IssueTokenStep ==
    ASSUME IInv, NEW r \in Requests, IssueToken(r)
    PROVE  IInv'
<1> USE DEF IInv
<1>1. TypeOK'
  BY DEF IssueToken, End, Go, TypeOK, HandedOut, redis, Stages
<1>2. ClaimsOfRow'
  BY DEF IssueToken, ClaimsOfRow
<1>3. HandedOut'
  BY DEF IssueToken, End, Go, HandedOut, TypeOK, redis, Validating
<1>4. CachedWasRead'
  BY DEF IssueToken, End, Go, CachedWasRead, ReadAsActive, TypeOK, redis
<1>5. RowLock'
  BY DEF IssueToken, End, Go, RowLock, TypeOK, NewRow, InTransaction, Changing
<1>6. Published'
  BY DEF IssueToken, End, Go, Published, TypeOK, redis
<1>7. LookedUp'
  BY DEF IssueToken, End, Go, LookedUp, TypeOK, Principal, Validating
<1>8. VersionKeyCovers'
  BY DEF IssueToken, VersionKeyCovers, redis
<1> QED
  BY <1>1, <1>2, <1>3, <1>4, <1>5, <1>6, <1>7, <1>8

LEMMA LookUpStep ==
    ASSUME IInv, NEW r \in Requests, NEW s \in issued,
           CacheHit(r, s) \/ CacheMiss(r, s)
    PROVE  IInv'
<1> USE DEF IInv
<1> DEFINE u == token[s].user
<1>1. /\ s \in Sessions /\ token[s] # None /\ token[s] \in Claims /\ u \in Users
      /\ 1 <= token[s].av /\ token[s].av <= row[u].version
      /\ UNCHANGED <<row, verKey, keys, lost, token, issued, job, pending>>
      /\ bearer' = [bearer EXCEPT ![r] = s]
      /\ since' = [since EXCEPT ![r] = IF u \in lost THEN 0 ELSE row[u].version]
      /\ row[u].version \in Nat
  BY DEF CacheHit, CacheMiss, LookUp, HandedOut, ClaimsOfRow, TypeOK, Claims, Rows, redis, minted
<1>2. /\ pc' = [pc EXCEPT ![r] = pc'[r]]
      /\ pc'[r] \in {"admitted", "cache_missed"}
      /\ pc'[r] = "admitted" => since'[r] <= token[s].av
  <2>1. CASE CacheHit(r, s)
    <3>1. u \notin lost => row[u].version <= token[s].av
      BY <1>1, <2>1 DEF CacheHit, VersionKeyCovers, TypeOK, Claims, Rows
    <3> QED
      BY <3>1, <2>1, <1>1 DEF CacheHit, LookUp, Go, TypeOK, Claims
  <2>2. CASE CacheMiss(r, s)
    BY <2>2, <1>1 DEF CacheMiss, LookUp, Go, TypeOK
  <2> QED
    BY <2>1, <2>2
<1>3. since'[r] <= row[u].version
  BY <1>1 DEF TypeOK
<1>4. TypeOK'
  BY <1>1, <1>2 DEF TypeOK, Stages, Validating
<1>5. ClaimsOfRow'
  BY <1>1 DEF ClaimsOfRow
<1>6. HandedOut'
  BY <1>1, <1>2 DEF HandedOut, TypeOK, Validating
<1>7. CachedWasRead'
  BY <1>1, <1>2 DEF CachedWasRead, ReadAsActive, TypeOK
<1>8. RowLock'
  BY <1>1, <1>2 DEF RowLock, TypeOK, NewRow, InTransaction, Changing
<1>9. Published'
  BY <1>1, <1>2 DEF Published, TypeOK
<1>10. LookedUp'
  BY <1>1, <1>2, <1>3 DEF LookedUp, TypeOK, Principal, Validating
<1>11. VersionKeyCovers'
  BY <1>1 DEF VersionKeyCovers
<1> QED
  BY <1>4, <1>5, <1>6, <1>7, <1>8, <1>9, <1>10, <1>11

(* The reads of the validation's slow path that let the token through. *)
LEMMA ReadStep ==
    ASSUME IInv, NEW r \in Requests, ReadUser(r) \/ ReadSession(r)
    PROVE  IInv'
<1>1. CASE End(r)
  BY <1>1, EndStep DEF ReadUser, ReadSession
<1>2. CASE ~ End(r)
  <2> USE DEF IInv
  <2>1. /\ pc[r] \in {"cache_missed", "user_ok"}
        /\ pc' = [pc EXCEPT ![r] = pc'[r]]
        /\ pc'[r] \in {"user_ok", "session_ok"}
        /\ UNCHANGED <<row, verKey, keys, lost, token, issued, bearer, job, pending, since>>
    BY <1>2 DEF ReadUser, ReadSession, Go, TypeOK, redis, minted
  <2>2. bearer[r] \in Sessions /\ token[bearer[r]] \in Claims
        /\ token[bearer[r]].user \in Users /\ bearer[r] \in issued
    BY <2>1 DEF HandedOut, ClaimsOfRow, TypeOK, Validating, Claims
  <2>3. ReadAsActive(bearer[r]) /\ since[r] <= token[bearer[r]].av
    <3>1. CASE pc[r] = "cache_missed"
      <4>1. RowGrants(Principal(r))
        BY <1>2, <3>1 DEF ReadUser, ReadSession
      <4> QED
        BY <4>1, <3>1, <2>2 DEF RowGrants, Principal, ReadAsActive, LookedUp, Validating
    <3>2. CASE pc[r] = "user_ok"
      BY <3>2 DEF CachedWasRead, LookedUp, Principal
    <3> QED
      BY <2>1, <3>1, <3>2
  <2>4. TypeOK'
    BY <2>1 DEF TypeOK, Stages, Validating
  <2>5. ClaimsOfRow'
    BY <2>1 DEF ClaimsOfRow
  <2>6. HandedOut'
    BY <2>1, <2>2 DEF HandedOut, TypeOK, Validating
  <2>7. CachedWasRead'
    BY <2>1, <2>3 DEF CachedWasRead, ReadAsActive, TypeOK
  <2>8. RowLock'
    BY <2>1 DEF RowLock, TypeOK, NewRow, InTransaction, Changing
  <2>9. Published'
    BY <2>1 DEF Published, TypeOK
  <2>10. LookedUp'
    BY <2>1, <2>3 DEF LookedUp, TypeOK, Principal, Validating
  <2>11. VersionKeyCovers'
    BY <2>1 DEF VersionKeyCovers
  <2> QED
    BY <2>4, <2>5, <2>6, <2>7, <2>8, <2>9, <2>10, <2>11
<1> QED
  BY <1>1, <1>2

(* A late write of an old version changes nothing that matters: the script *)
(* keeps the larger one.                                                   *)
LEMMA CacheVersionStep ==
    ASSUME IInv, NEW r \in Requests, CacheVersion(r)
    PROVE  IInv'
<1> USE DEF IInv
<1> DEFINE t == token[bearer[r]]
<1>1. /\ pc[r] = "session_ok" /\ bearer[r] \in issued /\ bearer[r] \in Sessions
      /\ t \in Claims /\ t.user \in Users /\ 1 <= t.av /\ t.av <= row[t.user].version
      /\ t.av \in Nat /\ row[t.user].version \in Nat
      /\ verKey' = [verKey EXCEPT ![t.user] = IF @ < t.av THEN t.av ELSE @]
      /\ pc' = [pc EXCEPT ![r] = "version_cached"]
      /\ UNCHANGED <<row, keys, lost, token, issued, bearer, job, pending, since>>
  BY DEF CacheVersion, SetVersionIfGreater, Go, Principal, HandedOut, ClaimsOfRow,
         TypeOK, Validating, Claims, Rows, minted
<1>2. \A u \in Users : verKey[u] <= verKey'[u] /\ verKey'[u] \in Nat
  BY <1>1 DEF TypeOK
<1>3. TypeOK'
  BY <1>1, <1>2 DEF TypeOK, Stages, Validating
<1>4. ClaimsOfRow'
  BY <1>1 DEF ClaimsOfRow
<1>5. HandedOut'
  BY <1>1 DEF HandedOut, TypeOK, Validating
<1>6. CachedWasRead'
  BY <1>1 DEF CachedWasRead, ReadAsActive, TypeOK
<1>7. RowLock'
  BY <1>1 DEF RowLock, TypeOK, NewRow, InTransaction, Changing
<1>8. Published'
  <2>1. \A u \in Users : verKey'[u] <= row[u].version + 1
    BY <1>1 DEF Published, TypeOK, Rows
  <2>2. \A q \in Requests :
           (pc[q] \in {"published", "ready"} /\ job[q].target \notin lost)
              => verKey'[job[q].target] >= pending[q].version
    BY <1>2 DEF Published, RowLock, TypeOK, Changing, InTransaction, Jobs, NewRow, Rows
  <2> QED
    BY <1>1, <2>1, <2>2 DEF Published, TypeOK
<1>9. LookedUp'
  BY <1>1 DEF LookedUp, TypeOK, Principal, Validating
<1>10. VersionKeyCovers'
  BY <1>1, <1>2 DEF VersionKeyCovers, TypeOK, Rows
<1> QED
  BY <1>3, <1>4, <1>5, <1>6, <1>7, <1>8, <1>9, <1>10

LEMMA CacheSessionStep ==
    ASSUME IInv, NEW r \in Requests, CacheSession(r)
    PROVE  IInv'
<1> USE DEF IInv
<1>1. /\ pc[r] = "version_cached" /\ bearer[r] \in issued /\ bearer[r] \in Sessions
      /\ ReadAsActive(bearer[r])
      /\ keys' = keys \cup {bearer[r]}
      /\ pc' = [pc EXCEPT ![r] = "admitted"]
      /\ UNCHANGED <<row, verKey, lost, token, issued, bearer, job, pending, since>>
  BY DEF CacheSession, Go, HandedOut, CachedWasRead, TypeOK, Validating, minted
<1>2. TypeOK'
  BY <1>1 DEF TypeOK, Stages
<1>3. ClaimsOfRow'
  BY <1>1 DEF ClaimsOfRow
<1>4. HandedOut'
  BY <1>1 DEF HandedOut, TypeOK, Validating
<1>5. CachedWasRead'
  BY <1>1 DEF CachedWasRead, ReadAsActive, TypeOK
<1>6. RowLock'
  BY <1>1 DEF RowLock, TypeOK, NewRow, InTransaction, Changing
<1>7. Published'
  BY <1>1 DEF Published, TypeOK
<1>8. LookedUp'
  BY <1>1 DEF LookedUp, TypeOK, Principal, Validating
<1>9. VersionKeyCovers'
  BY <1>1 DEF VersionKeyCovers
<1> QED
  BY <1>2, <1>3, <1>4, <1>5, <1>6, <1>7, <1>8, <1>9

LEMMA StartStep ==
    ASSUME IInv, NEW r \in Requests, NEW kind, NEW u, NEW wish,
           [kind |-> kind, target |-> u, wish |-> wish] \in Jobs,
           Start(r, kind, u, wish)
    PROVE  IInv'
<1> USE DEF IInv
<1>1. /\ job' = [job EXCEPT ![r] = [kind |-> kind, target |-> u, wish |-> wish]]
      /\ pc' = [pc EXCEPT ![r] = "checked"]
      /\ UNCHANGED <<row, verKey, keys, lost, token, issued, bearer, pending, since>>
  BY DEF Start, Go, redis, minted
<1>2. TypeOK'
  BY <1>1 DEF TypeOK, Stages, Changing
<1>3. ClaimsOfRow'
  BY <1>1 DEF ClaimsOfRow
<1>4. HandedOut'
  BY <1>1 DEF HandedOut, TypeOK, Validating
<1>5. CachedWasRead'
  BY <1>1 DEF CachedWasRead, ReadAsActive, TypeOK
<1>6. RowLock'
  BY <1>1 DEF RowLock, TypeOK, NewRow, InTransaction, Changing
<1>7. Published'
  BY <1>1 DEF Published, TypeOK
<1>8. LookedUp'
  BY <1>1 DEF LookedUp, TypeOK, Principal, Validating
<1>9. VersionKeyCovers'
  BY <1>1 DEF VersionKeyCovers
<1> QED
  BY <1>2, <1>3, <1>4, <1>5, <1>6, <1>7, <1>8, <1>9

(* The row a transaction writes is a row. *)
LEMMA NewRowIsRow ==
    ASSUME TypeOK, NEW r \in Requests, job[r] \in Jobs
    PROVE  NewRow(r) \in Rows
BY DEF NewRow, TypeOK, Jobs, Rows, RoleKinds, StatusKinds, Roles, Statuses

LEMMA UpdateRowStep ==
    ASSUME IInv, NEW r \in Requests, UpdateRow(r)
    PROVE  IInv'
<1> USE DEF IInv
<1>1. /\ pc[r] = "checked" /\ job[r] \in Jobs
      /\ RowFree(r)
      /\ pending' = [pending EXCEPT ![r] = NewRow(r)]
      /\ NewRow(r) \in Rows
      /\ pc' = [pc EXCEPT ![r] = "updated"]
      /\ UNCHANGED <<row, verKey, keys, lost, token, issued, bearer, job, since>>
  BY NewRowIsRow DEF UpdateRow, Go, RowLock, Changing, redis, minted
<1>2. TypeOK'
  BY <1>1 DEF TypeOK, Stages, Changing, InTransaction
<1>3. ClaimsOfRow'
  BY <1>1 DEF ClaimsOfRow
<1>4. HandedOut'
  BY <1>1 DEF HandedOut, TypeOK, Validating
<1>5. CachedWasRead'
  BY <1>1 DEF CachedWasRead, ReadAsActive, TypeOK
<1>6. RowLock'
  BY <1>1 DEF RowLock, RowFree, TypeOK, NewRow, InTransaction, Changing
<1>7. Published'
  BY <1>1 DEF Published, TypeOK
<1>8. LookedUp'
  BY <1>1 DEF LookedUp, TypeOK, Principal, Validating
<1>9. VersionKeyCovers'
  BY <1>1 DEF VersionKeyCovers
<1> QED
  BY <1>2, <1>3, <1>4, <1>5, <1>6, <1>7, <1>8, <1>9

LEMMA PublishVersionStep ==
    ASSUME IInv, NEW r \in Requests, PublishVersion(r)
    PROVE  IInv'
<1> USE DEF IInv
<1> DEFINE u == job[r].target
<1>1. /\ pc[r] = "updated" /\ job[r] \in Jobs /\ u \in Users
      /\ pending[r] = NewRow(r)
      /\ pending[r].version = row[u].version + 1
      /\ row[u].version \in Nat /\ verKey[u] \in Nat
  BY DEF PublishVersion, RowLock, Changing, InTransaction, Jobs, NewRow, TypeOK, Rows
<1>2. /\ verKey' = [verKey EXCEPT ![u] =
                      IF @ < row[u].version + 1 THEN row[u].version + 1 ELSE @]
      /\ lost' = lost \ {u}
      /\ pc' = [pc EXCEPT ![r] = pc'[r]]
      /\ pc'[r] \in {"published", "ready"}
      /\ UNCHANGED <<row, keys, token, issued, bearer, job, pending, since>>
  BY <1>1 DEF PublishVersion, SetVersionIfGreater, Go, TypeOK, minted
<1>3. /\ \A v \in Users \ {u} : verKey'[v] = verKey[v]
      /\ verKey'[u] = row[u].version + 1
  BY <1>1, <1>2 DEF TypeOK, Published
<1>4. TypeOK'
  BY <1>1, <1>2 DEF TypeOK, Stages, Changing, InTransaction
<1>5. ClaimsOfRow'
  BY <1>2 DEF ClaimsOfRow
<1>6. HandedOut'
  BY <1>2 DEF HandedOut, TypeOK, Validating
<1>7. CachedWasRead'
  BY <1>2 DEF CachedWasRead, ReadAsActive, TypeOK
<1>8. RowLock'
  BY <1>1, <1>2 DEF RowLock, TypeOK, NewRow, InTransaction, Changing
<1>9. Published'
  <2>1. \A v \in Users : verKey'[v] <= row[v].version + 1
    BY <1>1, <1>3 DEF Published
  <2>2. ASSUME NEW q \in Requests, pc'[q] \in {"published", "ready"},
               job[q].target \notin lost'
        PROVE  verKey'[job[q].target] >= pending[q].version
    <3>1. CASE q = r
      BY <3>1, <1>1, <1>3
    <3>2. CASE q # r
      <4>1. pc[q] \in {"published", "ready"} /\ job[q] \in Jobs
            /\ job[q].target \in Users \ {u}
        BY <3>2, <2>2, <1>1, <1>2 DEF RowLock, InTransaction, Changing, Jobs, TypeOK
      <4> QED
        BY <4>1, <2>2, <1>2, <1>3 DEF Published
    <3> QED
      BY <3>1, <3>2
  <2> QED
    BY <2>1, <2>2, <1>2 DEF Published
<1>10. LookedUp'
  BY <1>2 DEF LookedUp, TypeOK, Principal, Validating
<1>11. VersionKeyCovers'
  BY <1>1, <1>2, <1>3 DEF VersionKeyCovers, TypeOK
<1> QED
  BY <1>4, <1>5, <1>6, <1>7, <1>8, <1>9, <1>10, <1>11

LEMMA SweepStep ==
    ASSUME IInv, NEW r \in Requests, SweepSessionKeys(r)
    PROVE  IInv'
<1> USE DEF IInv
<1>1. /\ pc[r] = "published"
      /\ keys' \subseteq keys
      /\ pc' = [pc EXCEPT ![r] = "ready"]
      /\ UNCHANGED <<row, verKey, lost, token, issued, bearer, job, pending, since>>
  BY DEF SweepSessionKeys, Go, minted
<1>2. TypeOK'
  BY <1>1 DEF TypeOK, Stages, Changing, InTransaction
<1>3. ClaimsOfRow'
  BY <1>1 DEF ClaimsOfRow
<1>4. HandedOut'
  BY <1>1 DEF HandedOut, TypeOK, Validating
<1>5. CachedWasRead'
  BY <1>1 DEF CachedWasRead, ReadAsActive, TypeOK
<1>6. RowLock'
  BY <1>1 DEF RowLock, TypeOK, NewRow, InTransaction, Changing
<1>7. Published'
  BY <1>1 DEF Published, TypeOK
<1>8. LookedUp'
  BY <1>1 DEF LookedUp, TypeOK, Principal, Validating
<1>9. VersionKeyCovers'
  BY <1>1 DEF VersionKeyCovers
<1> QED
  BY <1>2, <1>3, <1>4, <1>5, <1>6, <1>7, <1>8, <1>9

(* Keys that disappear, version keys that fall back and steps of no one.   *)
LEMMA RedisStep ==
    ASSUME IInv, (\E s \in Sessions : DropSessionKey(s)) \/ LoseWrites \/ UNCHANGED vars
    PROVE  IInv'
<1> USE DEF IInv
<1>1. /\ keys' \subseteq keys
      /\ verKey' \in [Users -> Nat]
      /\ \A u \in Users : verKey'[u] <= verKey[u]
      /\ lost' \subseteq Users /\ lost \subseteq lost'
      /\ \A u \in Users \ lost' : verKey'[u] = verKey[u]
      /\ UNCHANGED <<row, token, issued, pc, bearer, job, pending, since>>
  <2>1. CASE \E s \in Sessions : DropSessionKey(s)
    BY <2>1 DEF DropSessionKey, TypeOK, minted, local
  <2>2. CASE LoseWrites
    BY <2>2 DEF LoseWrites, TypeOK, minted, local
  <2>3. CASE UNCHANGED vars
    BY <2>3 DEF vars, TypeOK, redis, minted, local
  <2> QED
    BY <2>1, <2>2, <2>3
<1>2. TypeOK'
  BY <1>1 DEF TypeOK
<1>3. ClaimsOfRow'
  BY <1>1 DEF ClaimsOfRow
<1>4. HandedOut'
  BY <1>1 DEF HandedOut
<1>5. CachedWasRead'
  BY <1>1 DEF CachedWasRead, ReadAsActive
<1>6. RowLock'
  BY <1>1 DEF RowLock, NewRow
<1>7. Published'
  BY <1>1 DEF Published, RowLock, TypeOK, Jobs, Rows, InTransaction, Changing, NewRow
<1>8. LookedUp'
  BY <1>1 DEF LookedUp, Principal
<1>9. VersionKeyCovers'
  BY <1>1 DEF VersionKeyCovers
<1> QED
  BY <1>2, <1>3, <1>4, <1>5, <1>6, <1>7, <1>8, <1>9

(* A job started by any of the five operations is a job. *)
LEMMA StartChangeStep ==
    ASSUME IInv, NEW r \in Requests,
           StartChange(r) \/ \E u \in Users : Bootstrap(r, u)
    PROVE  IInv'
<1>1. CASE RequestDeletion(r)
  <2>1. Principal(r).user \in Users
    BY <1>1 DEF RequestDeletion, Principal, IInv, HandedOut, ClaimsOfRow, TypeOK, Claims
  <2> QED
    BY <1>1, <2>1, StartStep DEF RequestDeletion, Jobs, StatusKinds, Statuses
<1>2. ASSUME NEW u \in Users, NEW role \in RoleWishes, ChangeRole(r, u, role)
      PROVE  IInv'
  BY <1>2, StartStep, WishAssumption DEF ChangeRole, Jobs, RoleKinds
<1>3. ASSUME NEW u \in Users, NEW status \in StatusWishes, ChangeStatus(r, u, status)
      PROVE  IInv'
  BY <1>3, StartStep, WishAssumption DEF ChangeStatus, Jobs, StatusKinds
<1>4. ASSUME NEW u \in Users, ApproveDeletion(r, u)
      PROVE  IInv'
  BY <1>4, StartStep DEF ApproveDeletion, Jobs, StatusKinds, Statuses
<1>5. ASSUME NEW u \in Users, Bootstrap(r, u)
      PROVE  IInv'
  BY <1>5, StartStep DEF Bootstrap, Jobs, RoleKinds, Roles
<1> QED
  BY <1>1, <1>2, <1>3, <1>4, <1>5 DEF StartChange

LEMMA NextIInv == IInv /\ [LossyNext]_vars => IInv'
<1> SUFFICES ASSUME IInv, [LossyNext]_vars
             PROVE  IInv'
  OBVIOUS
<1>1. ASSUME NEW r \in Requests, Arrive(r)
      PROVE  IInv'
  <2>1. ASSUME NEW s \in issued, CacheHit(r, s) \/ CacheMiss(r, s)
        PROVE  IInv'
    BY <2>1, LookUpStep
  <2>2. ASSUME NEW s \in issued, CacheRefusal(r, s)
        PROVE  IInv'
    BY <2>2, RedisStep DEF CacheRefusal
  <2>3. ASSUME NEW s \in Sessions, NEW u \in Users, VerifyEmail(r, s, u) \/ RefreshToken(r, s, u)
        PROVE  IInv'
    BY <2>3, MintReadStep DEF VerifyEmail, RefreshToken
  <2> QED
    BY <1>1, <2>1, <2>2, <2>3, StartChangeStep DEF Arrive
<1>2. ASSUME NEW r \in Requests, StartChange(r)
      PROVE  IInv'
  BY <1>2, StartChangeStep
<1>3. ASSUME NEW r \in Requests, UpdateRow(r)
      PROVE  IInv'
  BY <1>3, UpdateRowStep
<1>4. ASSUME NEW r \in Requests, Progress(r)
      PROVE  IInv'
  BY <1>4, IssueTokenStep, ReadStep, CacheVersionStep, CacheSessionStep, EndStep,
     PublishVersionStep, SweepStep, CommitStep
     DEF Progress, Answer
<1>5. ASSUME NEW r \in Requests, Fail(r)
      PROVE  IInv'
  BY <1>5, EndStep DEF Fail
<1> QED
  BY <1>1, <1>2, <1>3, <1>4, <1>5, RedisStep DEF LossyNext, Next

(* The inductive invariant holds throughout, whatever Redis loses. *)
THEOREM Inductive == LossySpec => []IInv
BY InitIInv, NextIInv, PTL DEF LossySpec

-----------------------------------------------------------------------------
(* What the runs check, for every value of the constants. *)

(* The variables keep their types. *)
THEOREM TypeCorrect == LossySpec => []TypeOK
<1>1. IInv => TypeOK
  BY DEF IInv
<1> QED
  BY <1>1, Inductive, PTL

(* No account's version key is behind its committed row. *)
THEOREM VersionKeyNeverBehind == LossySpec => []VersionKeyCovers
<1>1. IInv => VersionKeyCovers
  BY DEF IInv
<1> QED
  BY <1>1, Inductive, PTL

(* The fast path of the validation agrees with the database. *)
LEMMA CacheAgrees == IInv => CacheGrantsWhatRowGrants
<1> SUFFICES ASSUME IInv, NEW s \in issued \cap keys, token[s].user \notin lost,
                    verKey[token[s].user] = token[s].av
             PROVE  RowGrants(token[s])
  BY DEF CacheGrantsWhatRowGrants
<1>1. /\ s \in Sessions /\ token[s] # None /\ token[s] \in Claims
      /\ token[s].user \in Users
  BY DEF IInv, HandedOut, ClaimsOfRow, TypeOK, Claims
<1>2. /\ 1 <= token[s].av /\ token[s].av <= row[token[s].user].version
      /\ token[s].av \in Nat /\ row[token[s].user].version \in Nat
      /\ \/ verKey[token[s].user] >= row[token[s].user].version
         \/ verKey[token[s].user] = 0
  BY <1>1 DEF IInv, ClaimsOfRow, VersionKeyCovers, TypeOK, Claims, Rows
<1>3. token[s].av = row[token[s].user].version
  BY <1>2
<1> QED
  BY <1>1, <1>3 DEF IInv, ClaimsOfRow, CachedWasRead, ReadAsActive, RowGrants

THEOREM CacheAgreesWithRow == LossySpec => []CacheGrantsWhatRowGrants
BY CacheAgrees, Inductive, PTL

(* A token from before a committed change does not outlive it. *)
THEOREM AdmissionIsFresh == LossySpec => []AdmissionFresh
<1>1. IInv => AdmissionFresh
  BY DEF IInv, TypeOK, LookedUp, HandedOut, ClaimsOfRow, AdmissionFresh, Principal, Claims
<1> QED
  BY <1>1, Inductive, PTL

(* A commit repairs what rolled-back publications left behind. *)
THEOREM CommitsCloseGap == LossySpec => CommitClosesGap
<1> DEFINE Gap == \A u \in Users \ lost' :
                     row'[u] # row[u] => verKey'[u] = row'[u].version
<1>1. IInv /\ [LossyNext]_vars => [Gap]_vars
  <2> SUFFICES ASSUME IInv, LossyNext
               PROVE  Gap
    BY DEF vars
  <2>1. CASE row' = row
    BY <2>1
  <2>2. ASSUME NEW r \in Requests, Commit(r)
        PROVE  Gap
    <3>1. /\ pending[r] = NewRow(r) /\ job[r] \in Jobs /\ job[r].target \in Users
          /\ job[r].target \notin lost => verKey[job[r].target] >= pending[r].version
          /\ verKey[job[r].target] <= row[job[r].target].version + 1
      BY <2>2 DEF Commit, IInv, RowLock, Published, InTransaction, Changing, Jobs
    <3>2. /\ pending[r].version = row[job[r].target].version + 1
          /\ row[job[r].target].version \in Nat /\ verKey[job[r].target] \in Nat
      BY <3>1 DEF IInv, TypeOK, Rows, NewRow
    <3> QED
      BY <2>2, <3>1, <3>2 DEF Commit, redis, IInv, TypeOK
  <2>3. row' = row \/ \E r \in Requests : Commit(r)
    BY DEF LossyNext, Next, Arrive, StartChange, Progress, CacheHit, CacheMiss, CacheRefusal,
           LookUp, VerifyEmail, RefreshToken, MintRead, Bootstrap, Start, RequestDeletion,
           ChangeRole, ChangeStatus, ApproveDeletion, UpdateRow, IssueToken, ReadUser,
           ReadSession, CacheVersion, CacheSession, Answer, PublishVersion, SweepSessionKeys,
           Fail, DropSessionKey, LoseWrites, vars
  <2> QED
    BY <2>1, <2>2, <2>3
<1> QED
  BY <1>1, Inductive, PTL DEF LossySpec, CommitClosesGap

-----------------------------------------------------------------------------
(* The refinement.  As long as Redis loses nothing, AccountAccess          *)
(* implements AccountAuthority: caches, races and roll-backs included, a   *)
(* request works with what an active account's row was in one instant, and *)
(* accounts change in single steps of someone entitled to change them.     *)

(* Beyond IInv: who started which change, and as whom.                     *)
Entitled(r) ==
    LET j == job[r]  me == token[bearer[r]] IN
    \/ j.kind = "bootstrap" /\ j.wish = "super_admin" /\ bearer[r] = None
    \/ /\ bearer[r] \in issued
       /\ \/ j.kind = "change_role" /\ me.role = "super_admin"
          \/ /\ j.kind \in {"change_status", "approve_deletion"}
             /\ me.role \in {"admin", "super_admin"}
          \/ /\ j.kind = "request_deletion"
             /\ j.target = me.user /\ j.wish = "deletion_requested"

Startings ==
    /\ lost = {}
    /\ \A r \in Requests :
          /\ pc[r] = "idle" => bearer[r] = None
          /\ pc[r] \in Changing => Entitled(r)

RInv == IInv /\ Startings

LEMMA InitRInv == Init => RInv
BY InitIInv DEF RInv, Init, Startings, Changing, InTransaction

(* Steps that start no change keep what is known of those under way.       *)
LEMMA NextRInv == RInv /\ [Next]_vars => RInv'
<1> SUFFICES ASSUME RInv, [Next]_vars
             PROVE  Startings'
  BY NextIInv DEF RInv, LossyNext
<1> USE DEF RInv
<1>1. ASSUME NEW r \in Requests, End(r), UNCHANGED <<row, redis, token>>,
             issued \subseteq issued'
      PROVE  Startings'
  BY <1>1 DEF End, Go, Startings, Entitled, Changing, InTransaction, IInv, TypeOK, redis
<1>2. ASSUME NEW r \in Requests, NEW s \in Sessions, NEW u \in Users, MintRead(r, s, u)
      PROVE  Startings'
  BY <1>2 DEF MintRead, Go, Startings, Entitled, Changing, InTransaction, IInv, HandedOut, TypeOK, redis
<1>3. ASSUME NEW r \in Requests, NEW s \in issued, CacheHit(r, s) \/ CacheMiss(r, s)
      PROVE  Startings'
  BY <1>3 DEF CacheHit, CacheMiss, LookUp, Go, Startings, Entitled, Changing, InTransaction, IInv, TypeOK, redis, minted
<1>4. ASSUME NEW r \in Requests, NEW stage \in Stages, Go(r, stage),
             pc[r] \in Changing <=> stage \in Changing, stage # "idle",
             UNCHANGED <<lost, token, issued, bearer, job>>
      PROVE  Startings'
  BY <1>4 DEF Go, Startings, Entitled, IInv, TypeOK
<1>5. ASSUME NEW r \in Requests, NEW kind, NEW u, NEW wish, Start(r, kind, u, wish),
             LET me == token[bearer[r]] IN
             \/ kind = "bootstrap" /\ wish = "super_admin" /\ bearer[r] = None
             \/ /\ bearer[r] \in issued
                /\ \/ kind = "change_role" /\ me.role = "super_admin"
                   \/ /\ kind \in {"change_status", "approve_deletion"}
                      /\ me.role \in {"admin", "super_admin"}
                   \/ /\ kind = "request_deletion"
                      /\ u = me.user /\ wish = "deletion_requested"
      PROVE  Startings'
  BY <1>5 DEF Start, Go, Startings, Entitled, IInv, TypeOK, redis, minted
<1>6. ASSUME NEW r \in Requests, Arrive(r)
      PROVE  Startings'
  <2>1. ASSUME NEW s \in issued, CacheRefusal(r, s)
        PROVE  Startings'
    BY <2>1 DEF CacheRefusal, vars, redis, minted, local, Startings, Entitled
  <2>2. ASSUME NEW u \in Users, Bootstrap(r, u)
        PROVE  Startings'
    BY <2>2, <1>5 DEF Bootstrap, Startings
  <2> QED
    BY <1>6, <1>2, <1>3, <2>1, <2>2 DEF Arrive, VerifyEmail, RefreshToken
<1>7. ASSUME NEW r \in Requests, StartChange(r)
      PROVE  Startings'
  <2>1. pc[r] = "admitted" /\ bearer[r] \in issued
    BY <1>7 DEF StartChange, RequestDeletion, ChangeRole, ChangeStatus, ApproveDeletion, IInv, HandedOut
  <2>2. ASSUME RequestDeletion(r) PROVE Startings'
    BY <2>1, <2>2, <1>5 DEF RequestDeletion, Principal
  <2>3. ASSUME NEW u \in Users, NEW role, ChangeRole(r, u, role) PROVE Startings'
    BY <2>1, <2>3, <1>5 DEF ChangeRole, Principal
  <2>4. ASSUME NEW u \in Users, NEW status, ChangeStatus(r, u, status) PROVE Startings'
    BY <2>1, <2>4, <1>5 DEF ChangeStatus, CanManage, Principal
  <2>5. ASSUME NEW u \in Users, ApproveDeletion(r, u) PROVE Startings'
    BY <2>1, <2>5, <1>5 DEF ApproveDeletion, CanManage, Principal
  <2> QED
    BY <1>7, <2>2, <2>3, <2>4, <2>5 DEF StartChange
<1>8. ASSUME NEW r \in Requests, UpdateRow(r)
      PROVE  Startings'
  BY <1>8, <1>4 DEF UpdateRow, redis, minted, Changing, InTransaction, Stages
<1>9. ASSUME NEW r \in Requests, Progress(r)
      PROVE  Startings'
  <2>1. CASE IssueToken(r)
    BY <2>1, <1>1 DEF IssueToken
  <2>2. CASE ReadUser(r) \/ ReadSession(r) \/ CacheVersion(r) \/ CacheSession(r)
    <3>1. CASE End(r)
      BY <3>1, <2>2, <1>1 DEF ReadUser, ReadSession, CacheVersion, CacheSession, End, Go, IInv, TypeOK, minted
    <3>2. CASE ~ End(r)
      <4>1. \E stage \in {"user_ok", "session_ok", "version_cached", "admitted"} : Go(r, stage)
        BY <2>2, <3>2 DEF ReadUser, ReadSession, CacheVersion, CacheSession
      <4>2. /\ pc[r] \in Validating
            /\ UNCHANGED <<lost, token, issued, bearer, job>>
        BY <2>2, <3>2 DEF ReadUser, ReadSession, CacheVersion, CacheSession, Validating, redis, minted
      <4> QED
        BY <4>1, <4>2, <1>4 DEF Validating, Changing, InTransaction, Stages
    <3> QED
      BY <3>1, <3>2
  <2>3. CASE Answer(r)
    BY <2>3, <1>1 DEF Answer, minted
  <2>4. CASE PublishVersion(r)
    <3>1. lost' = lost
      BY <2>4 DEF PublishVersion, Startings
    <3> QED
      BY <2>4, <3>1, <1>4 DEF PublishVersion, minted, Changing, InTransaction, Stages
  <2>5. CASE SweepSessionKeys(r)
    BY <2>5, <1>4 DEF SweepSessionKeys, minted, Changing, InTransaction, Stages
  <2>6. CASE Commit(r)
    BY <2>6 DEF Commit, End, Go, Startings, Entitled, Changing, InTransaction, IInv, TypeOK, redis, minted
  <2> QED
    BY <1>9, <2>1, <2>2, <2>3, <2>4, <2>5, <2>6 DEF Progress
<1>10. ASSUME NEW r \in Requests, Fail(r)
       PROVE  Startings'
  BY <1>10, <1>1 DEF Fail, minted
<1>11. CASE (\E s \in Sessions : DropSessionKey(s)) \/ UNCHANGED vars
  BY <1>11 DEF DropSessionKey, vars, redis, minted, local, Startings, Entitled
<1> QED
  BY <1>6, <1>7, <1>8, <1>9, <1>10, <1>11 DEF Next

-----------------------------------------------------------------------------
(* Refinement.  First, what a request that acts is known to hold.          *)

LEMMA ActingHolds ==
    ASSUME RInv, NEW r \in Requests
    PROVE  /\ actsAs[r] = IF Acting(r) THEN token[bearer[r]] ELSE None
           /\ Acting(r) => /\ bearer[r] \in issued
                           /\ token[bearer[r]] \in Claims
                           /\ token[bearer[r]] # None
<1>1. actsAs[r] = IF Acting(r) THEN token[bearer[r]] ELSE None
  BY DEF actsAs, Principal
<1>2. ASSUME Acting(r) PROVE bearer[r] \in issued
  BY <1>2 DEF Acting, Holds, RInv, IInv, HandedOut, Startings, Entitled
<1>3. \A s \in issued : token[s] \in Claims /\ token[s] # None
  BY DEF RInv, IInv, TypeOK, HandedOut, ClaimsOfRow
<1> QED
  BY <1>1, <1>2, <1>3

(* A step that moves neither the rows nor the principals is a stutter.     *)
LEMMA SameActing ==
    ASSUME row' = row,
           \A r \in Requests : Acting(r)' <=> Acting(r),
           \A r \in Requests : Acting(r) => token'[bearer'[r]] = token[bearer[r]]
    PROVE  UNCHANGED Authority!vars
BY DEF Authority!vars, actsAs, Principal

(* The end of a request that changed nothing: its principal is dropped.    *)
LEMMA EndDrops ==
    ASSUME RInv, NEW r \in Requests, End(r), row' = row, token' = token
    PROVE  UNCHANGED Authority!vars \/ Authority!Drop(r)
<1>1. /\ \A q \in Requests \ {r} : pc'[q] = pc[q] /\ bearer'[q] = bearer[q]
      /\ ~ Acting(r)'
  BY DEF RInv, IInv, TypeOK, End, Go, Acting, Holds, Validating, Changing, InTransaction
<1>2. CASE Acting(r)
  <2>1. actsAs[r] # None
    BY <1>2, ActingHolds
  <2>2. actsAs' = [actsAs EXCEPT ![r] = None]
    BY <1>1 DEF actsAs, Principal, Acting, Holds
  <2> QED
    BY <2>1, <2>2 DEF Authority!Drop
<1>3. CASE ~ Acting(r)
  <2>1. \A q \in Requests : Acting(q)' <=> Acting(q)
    BY <1>1, <1>3 DEF Acting, Holds
  <2>2. \A q \in Requests : Acting(q) => token'[bearer'[q]] = token[bearer[q]]
    BY <1>1, <1>3
  <2> QED
    BY <2>1, <2>2, SameActing
<1> QED
  BY <1>2, <1>3

(* A request that moves on with the bearer it has.                         *)
LEMMA GoStutters ==
    ASSUME RInv, NEW r \in Requests, NEW stage, Go(r, stage),
           row' = row, token' = token, bearer' = bearer,
           Acting(r)' <=> Acting(r)
    PROVE  UNCHANGED Authority!vars
<1>1. \A q \in Requests \ {r} : pc'[q] = pc[q]
  BY DEF RInv, IInv, TypeOK, Go
<1>2. \A q \in Requests : Acting(q)' <=> Acting(q)
  BY <1>1 DEF Acting, Holds
<1> QED
  BY <1>2, SameActing

(* Whom the row lets in becomes the request's principal in that instant.   *)
LEMMA Grants ==
    ASSUME RInv, NEW r \in Requests, NEW s \in issued, RowGrants(token[s]),
           ~ Acting(r), Acting(r)', bearer'[r] = s,
           \A q \in Requests \ {r} : pc'[q] = pc[q] /\ bearer'[q] = bearer[q],
           row' = row, token' = token
    PROVE  Authority!Grant(r, token[s].user) /\ token[s].user \in Users
<1>1. token[s] \in Claims
  BY DEF RInv, IInv, HandedOut, ClaimsOfRow, TypeOK
<1>2. token[s] = [user |-> token[s].user, role |-> row[token[s].user].role,
                  av |-> row[token[s].user].version]
  BY <1>1 DEF Claims, RowGrants
<1>3. actsAs' = [actsAs EXCEPT ![r] = token[s]]
  BY DEF actsAs, Principal, Acting, Holds
<1>4. actsAs[r] = None
  BY DEF actsAs
<1> QED
  BY <1>1, <1>2, <1>3, <1>4 DEF Authority!Grant, Authority!Entitled, RowGrants, Claims

(* The commit is the instant at which the account changes.                 *)
LEMMA CommitChanges ==
    ASSUME RInv, NEW r \in Requests, Commit(r)
    PROVE  Authority!Next
<1> DEFINE j == job[r]
           u == job[r].target
           old == row[job[r].target]
<1>1. /\ j \in Jobs /\ u \in Users /\ Entitled(r)
      /\ pending[r] = NewRow(r)
      /\ row' = [row EXCEPT ![u] = NewRow(r)]
      /\ token' = token
  BY DEF Commit, RInv, IInv, RowLock, Startings, Changing, InTransaction, Jobs, minted
<1>2. /\ \A q \in Requests \ {r} : pc'[q] = pc[q] /\ bearer'[q] = bearer[q]
      /\ ~ Acting(r)'
      /\ Acting(r) <=> bearer[r] # None
  BY DEF RInv, IInv, TypeOK, Commit, End, Go, Acting, Holds, Validating, Changing, InTransaction
<1>3. j.kind \in RoleKinds =>
         row' = [row EXCEPT ![u] = [role |-> j.wish, status |-> @.status, version |-> @.version + 1]]
  BY <1>1 DEF NewRow, RInv, IInv, TypeOK
<1>4. j.kind \notin RoleKinds =>
         row' = [row EXCEPT ![u] = [role |-> @.role, status |-> j.wish, version |-> @.version + 1]]
  BY <1>1 DEF NewRow, RInv, IInv, TypeOK
<1>5. CASE bearer[r] = None
  <2>1. j.kind = "bootstrap" /\ j.wish = "super_admin"
    BY <1>1, <1>5, NoneAssumption DEF Entitled, RInv, IInv, TypeOK
  <2>2. actsAs' = actsAs
    BY <1>1, <1>2, <1>5 DEF actsAs, Principal, Acting, Holds
  <2>3. Authority!Bootstrap(u)
    BY <2>1, <2>2, <1>3 DEF Authority!Bootstrap, Authority!SetRole, RoleKinds
  <2> QED
    BY <2>3, <1>1 DEF Authority!Next
<1>6. CASE bearer[r] # None
  <2> DEFINE me == token[bearer[r]]
  <2>1. actsAs[r] = me /\ me # None /\ me \in Claims
    BY <1>6, <1>2, ActingHolds
  <2>2. actsAs' = [actsAs EXCEPT ![r] = None]
    BY <1>1, <1>2, <1>6 DEF actsAs, Principal, Acting, Holds
  <2>3. Authority!ActsAndEnds(r)
    BY <2>1, <2>2 DEF Authority!ActsAndEnds
  <2>4. CASE j.kind = "change_role" /\ me.role = "super_admin"
    <3>1. j.wish \in Roles
      BY <1>1, <2>4 DEF Jobs, StatusKinds
    <3>2. Authority!ChangeRole(r, u, j.wish)
      BY <1>3, <2>1, <2>3, <2>4 DEF Authority!ChangeRole, Authority!SetRole, RoleKinds
    <3> QED
      BY <1>1, <3>1, <3>2 DEF Authority!Next, Authority!Roles, Roles
  <2>5. CASE /\ j.kind \in {"change_status", "approve_deletion"}
             /\ me.role \in {"admin", "super_admin"}
    <3>1. j.wish \in Statuses
      BY <1>1, <2>5 DEF Jobs, RoleKinds
    <3>2. Authority!ChangeStatus(r, u, j.wish)
      BY <1>4, <2>1, <2>3, <2>5 DEF Authority!ChangeStatus, Authority!SetStatus, RoleKinds
    <3> QED
      BY <1>1, <3>1, <3>2 DEF Authority!Next, Authority!Statuses, Statuses
  <2>6. CASE /\ j.kind = "request_deletion"
             /\ u = me.user /\ j.wish = "deletion_requested"
    <3>1. Authority!RequestDeletion(r)
      BY <1>4, <2>1, <2>3, <2>6 DEF Authority!RequestDeletion, Authority!SetStatus, RoleKinds
    <3> QED
      BY <3>1 DEF Authority!Next
  <2> QED
    BY <1>1, <1>6, <2>4, <2>5, <2>6 DEF Entitled
<1> QED
  BY <1>5, <1>6

LEMMA LookUpMaps ==
    ASSUME RInv, NEW r \in Requests, NEW s \in issued, CacheHit(r, s) \/ CacheMiss(r, s)
    PROVE  Authority!Next \/ UNCHANGED Authority!vars
<1>1. /\ row' = row /\ token' = token /\ ~ Acting(r) /\ s \in Sessions
      /\ bearer'[r] = s /\ s # None
      /\ \A q \in Requests \ {r} : pc'[q] = pc[q] /\ bearer'[q] = bearer[q]
  BY NoneAssumption DEF CacheHit, CacheMiss, LookUp, Go, minted, Acting, Holds, Validating, Changing,
         InTransaction, RInv, IInv, TypeOK
<1>2. CASE CacheHit(r, s)
  <2>1. RowGrants(token[s])
    BY <1>2, CacheAgrees DEF RInv, IInv, TypeOK, ClaimsOfRow, HandedOut, Startings, CacheHit, CacheGrantsWhatRowGrants
  <2>2. Acting(r)'
    BY <1>1, <1>2 DEF CacheHit, LookUp, Go, Acting, Holds, RInv, IInv, TypeOK
  <2> QED
    BY <1>1, <2>1, <2>2, Grants DEF Authority!Next
<1>3. CASE CacheMiss(r, s)
  <2>1. ~ Acting(r)'
    BY <1>3 DEF CacheMiss, LookUp, Go, Acting, Holds, Validating, Changing, InTransaction, RInv, IInv, TypeOK
  <2>2. \A q \in Requests : Acting(q)' <=> Acting(q)
    BY <1>1, <2>1 DEF Acting, Holds
  <2> QED
    BY <1>1, <2>2, SameActing
<1> QED
  BY <1>2, <1>3

LEMMA MintMaps ==
    ASSUME RInv, NEW r \in Requests, NEW s \in Sessions, NEW u \in Users, MintRead(r, s, u)
    PROVE  UNCHANGED Authority!vars
<1>1. /\ row' = row
      /\ \A q \in Requests : Acting(q)' <=> Acting(q)
      /\ \A q \in Requests : Acting(q) => q # r
  BY DEF MintRead, Go, Acting, Holds, Validating, Changing, InTransaction, RInv, IInv, TypeOK
<1>2. \A q \in Requests : Acting(q) => bearer'[q] = bearer[q] /\ bearer[q] # s
  BY <1>1, ActingHolds DEF MintRead, RInv, IInv, TypeOK
<1>3. \A q \in Requests : Acting(q) => token'[bearer'[q]] = token[bearer[q]]
  BY <1>2, ActingHolds DEF MintRead, RInv, IInv, TypeOK
<1> QED
  BY <1>1, <1>3, SameActing

LEMMA ReadMaps ==
    ASSUME RInv, NEW r \in Requests,
           ReadUser(r) \/ ReadSession(r) \/ CacheVersion(r) \/ CacheSession(r)
    PROVE  Authority!Next \/ UNCHANGED Authority!vars
<1>1. row' = row /\ token' = token /\ bearer[r] \in issued /\ bearer[r] # None
  BY NoneAssumption DEF ReadUser, ReadSession, CacheVersion, CacheSession, minted, RInv, IInv,
         HandedOut, TypeOK, Validating
<1>2. CASE End(r)
  BY <1>1, <1>2, EndDrops DEF Authority!Next
<1>3. CASE ~ End(r) /\ ReadUser(r)
  <2>1. RowGrants(token[bearer[r]]) /\ Go(r, "user_ok") /\ bearer' = bearer /\ pc[r] = "cache_missed"
    BY <1>3 DEF ReadUser, Principal
  <2>2. /\ ~ Acting(r) /\ Acting(r)'
        /\ \A q \in Requests \ {r} : pc'[q] = pc[q]
    BY <1>1, <2>1 DEF Go, Acting, Holds, Validating, Changing, InTransaction, RInv, IInv, TypeOK
  <2> QED
    BY <1>1, <2>1, <2>2, Grants DEF Authority!Next
<1>4. CASE ~ End(r) /\ ~ ReadUser(r)
  <2>1. PICK stage \in {"session_ok", "version_cached", "admitted"} :
           Go(r, stage) /\ bearer' = bearer
    BY <1>4 DEF ReadSession, CacheVersion, CacheSession
  <2>2. Acting(r) /\ Acting(r)'
    BY <1>1, <1>4, <2>1 DEF ReadSession, CacheVersion, CacheSession, Go, Acting, Holds, Validating,
       RInv, IInv, TypeOK
  <2> QED
    BY <1>1, <2>1, <2>2, GoStutters
<1> QED
  BY <1>2, <1>3, <1>4

LEMMA StartMaps ==
    ASSUME RInv, NEW r \in Requests, NEW kind, NEW u, NEW wish, Start(r, kind, u, wish),
           pc[r] \in {"idle", "admitted"}
    PROVE  UNCHANGED Authority!vars
<1>1. Go(r, "checked") /\ row' = row /\ token' = token /\ bearer' = bearer
  BY DEF Start, minted
<1>2. Acting(r)' <=> Acting(r)
  BY <1>1 DEF Go, Acting, Holds, Validating, Changing, InTransaction, RInv, IInv, TypeOK, Startings
<1> QED
  BY <1>1, <1>2, GoStutters

LEMMA TransactionMaps ==
    ASSUME RInv, NEW r \in Requests, UpdateRow(r) \/ PublishVersion(r) \/ SweepSessionKeys(r)
    PROVE  UNCHANGED Authority!vars
<1>1. PICK stage \in {"updated", "published", "ready"} :
         Go(r, stage) /\ row' = row /\ token' = token /\ bearer' = bearer
  BY DEF UpdateRow, PublishVersion, SweepSessionKeys, minted
<1>2. Acting(r)' <=> Acting(r)
  BY <1>1 DEF UpdateRow, PublishVersion, SweepSessionKeys, Go, Acting, Holds, Changing,
     InTransaction, RInv, IInv, TypeOK
<1> QED
  BY <1>1, <1>2, GoStutters

LEMMA IssueMaps ==
    ASSUME RInv, NEW r \in Requests, IssueToken(r)
    PROVE  Authority!Next \/ UNCHANGED Authority!vars
BY EndDrops DEF IssueToken, Authority!Next

LEMMA NextMaps == RInv /\ [Next]_vars => [Authority!Next]_(Authority!vars)
<1> SUFFICES ASSUME RInv, [Next]_vars
             PROVE  Authority!Next \/ UNCHANGED Authority!vars
  OBVIOUS
<1>1. ASSUME NEW r \in Requests, Arrive(r)
      PROVE  Authority!Next \/ UNCHANGED Authority!vars
  <2>1. ASSUME NEW s \in issued, CacheRefusal(r, s)
        PROVE  UNCHANGED Authority!vars
    BY <2>1, SameActing DEF CacheRefusal, vars, minted, local, Acting, Holds
  <2>2. ASSUME NEW u \in Users, Bootstrap(r, u)
        PROVE  UNCHANGED Authority!vars
    BY <2>2, StartMaps DEF Bootstrap
  <2> QED
    BY <1>1, <2>1, <2>2, LookUpMaps, MintMaps DEF Arrive, VerifyEmail, RefreshToken
<1>2. ASSUME NEW r \in Requests, StartChange(r)
      PROVE  UNCHANGED Authority!vars
  BY <1>2, StartMaps DEF StartChange, RequestDeletion, ChangeRole, ChangeStatus, ApproveDeletion
<1>3. ASSUME NEW r \in Requests, UpdateRow(r) \/ Progress(r)
      PROVE  Authority!Next \/ UNCHANGED Authority!vars
  <2>1. CASE Answer(r)
    BY <2>1, EndDrops DEF Answer, minted, Authority!Next
  <2> QED
    BY <1>3, <2>1, IssueMaps, ReadMaps, TransactionMaps, CommitChanges DEF Progress
<1>4. ASSUME NEW r \in Requests, Fail(r)
      PROVE  Authority!Next \/ UNCHANGED Authority!vars
  BY <1>4, EndDrops DEF Fail, minted, Authority!Next
<1>5. CASE (\E s \in Sessions : DropSessionKey(s)) \/ UNCHANGED vars
  BY <1>5, SameActing DEF DropSessionKey, vars, minted, local, Acting, Holds
<1> QED
  BY <1>1, <1>2, <1>3, <1>4, <1>5 DEF Next

LEMMA InitMaps == Init => Authority!Init
BY DEF Init, Authority!Init, actsAs, Acting, Holds, Validating, Changing, InTransaction

(* Requests, caches and transactions implement the account authority.      *)
THEOREM AccessImplementsAuthority == Spec => ImplementsAuthority
<1>1. Spec => []RInv
  BY InitRInv, NextRInv, PTL DEF Spec
<1> QED
  BY <1>1, InitMaps, NextMaps, PTL DEF Spec, ImplementsAuthority, Authority!Spec
=============================================================================
