# Verification of base_backend

TLA+ models of the parts of this backend in which several requests, two data
stores and crashes meet, with TLC runs on small instances and TLAPS proofs for
every instance. `PROJECT.json` lists components, runs, mutants, findings,
hazards, theorems, and for each definition the source lines it stands for.

## 1. The system

A FastAPI application on one asyncio event loop per process. A request runs
until an `await`; every PostgreSQL statement and every Redis command is one, so
between any two of them any other request (or the bootstrap command, another
process) may run. Each request has one SQLAlchemy session; statements run at
READ COMMITTED, and nothing is visible to others before `commit`.

| Component | State | Operations | Correct when |
|---|---|---|---|
| Access-token validation (`validate_access_token.py`) | Redis: version key per account, key per session, index of session keys | look both keys up; otherwise read account and session row and fill the cache | nobody is admitted with a role, status or version the account no longer has; a revoked session is refused |
| Account changes (`change_user_role.py`, `change_user_status.py`, `request_account_deletion.py`, `approve_user_deletion_request.py`, `bootstrap_super_admin.py`) | users table: role, status, authorization version | check, `UPDATE ... version + 1`, publish the version in Redis, commit | no change is lost; tokens from before the commit stop working; only entitled actors change others |
| Session lifecycle (`verify_email.py`, `refresh_token.py`, `logout_user.py`, `revoke_token.py`, `revoke_all_tokens.py`) | user_sessions table, session keys and index | create, rotate, detect reuse, revoke one, a device's, or all | a refresh token is good once; a revocation reaches every session it concerns |
| Login requests (`redis_login_request_store.py`, `login_user.py`, `verify_email.py`) | one JSON document per login request, a set of pending ones per device | replace pending, create, count wrong codes, mark consumed | one live code per device, one session per code, bounded guesses |
| Profiles, preferences, avatars, device notifications | their tables, files on disk | create, partial update, upload, remove | row and file agree; a concurrent creation does not fail the request |
| Queries, pagination (`common/pagination`, `get_users.py`, `get_sessions.py`) | none | filter, sort, count, one page | pages put end to end are the list; an admin sees regular accounts only |
| Schema start-up (`core/database.py`, `main.py`, `super_admin_bootstrap.py`) | the catalog of the database | create_all, ALTER TABLE | whoever serves finds everything; processes that start together all come up |
| HTTP boundary (`core/middleware.py`, `exceptions/handlers.py`, `core/security.py`, `common/localization`, `core/logging.py`) | context variables of a task, the limiter's counters | set id and locale, count a hit, turn an exception into an answer | an answer carries its own id and language; the limiter stops what it should and nothing else |
| Rollout (`deploy/ec2/*.sh`, `deploy-app.yml`) | `current-image`, `previous-image`, the container | deploy, health check, roll back | a failed or interrupted rollout leaves a known image |
| Release and deployment gates (`tool/ci`, `container-image.yml`, `delivery.yml`) | tags and signatures in ECR, artifacts of runs | build, scan, judge, sign, store and verify evidence | what reaches the host is what a run approved for that commit |
| Device notifications | user_devices | ON CONFLICT upsert, UPDATE | not modelled, see section 7 |
| Telemetry, settings, JWT, hashing, mail | none shared | export, parse, sign, send | not modelled, see section 7 |

How they interact: every protected endpoint first runs the validation; the
account changes and the session operations write PostgreSQL and Redis in one
request, Redis before the commit and never undone; verification ends a login
request and starts a session; refresh and verification mint tokens from the
account row they have read. The HTTP boundary wraps every endpoint: what a use
case raises becomes an answer there. Start-up runs before the first request, in
the server and in the bootstrap command. The gates decide what the rollout is
given to run.

## 2. Modules

| Module | What it is |
|---|---|
| `AccountAuthority` | abstract specification: accounts whose rows are read and changed in single instants |
| `AccountAccess` | account rows, tokens, the access-state cache and the requests between them; implements `AccountAuthority` |
| `AccountAccessProofs` | the invariant of `AccountAccess`, its theorems, and the refinement |
| `SessionRegister` | abstract specification: session rows that each login, refresh and revocation changes in a single instant |
| `SessionLifecycle` | the session rows and session keys of one account; implements `SessionRegister` |
| `SessionLifecycleProofs` | its invariant, its theorems, and the refinement |
| `LoginRequests` | the one-time codes of one account on one device |
| `UserRecord` | one account's row in user_profiles or user_preferences |
| `Avatars` | the avatar of one account: a file in the storage and the columns that name it |
| `Deliverables` | the images that are built and deployed |
| `Rollout` | deploy jobs, the commands they send, and the host |
| `ReleaseGate` | release runs, ECR, and the deploy job's verification of evidence |
| `RequestBoundary` | middleware, limiter and exception handlers around every request |
| `Paging` | a client's walk through a list while others write |
| `SchemaStartup` | processes that bring one database's schema up to date |
| `ProfileProofs` | invariants and theorems of `UserRecord` and `Avatars` |
| `DeliveryProofs` | those of `ReleaseGate` and `Rollout` |
| `LoginRequestsProofs`, `RequestBoundaryProofs`, `PagingProofs`, `SchemaStartupProofs` | those of the modules they are named for |
| `MC...` | symmetry and small tables of values for TLC |

In the modules about the server `pc[r]` says which `await` request `r` is about
to issue; an action is one round trip with the code around it, a use case is a
sequence of actions, and what the code keeps in local variables is a function
of `r` (`bearer`, `job`, `pending`, `scan`, `marked`, `copy`, `raw`...). Every
`await` may fail: `Fail` ends the request, rolls PostgreSQL back and leaves
Redis as it is, which also stands for a cancelled request and a dead process. A
definition commented `Slip:` is a plausible mistake that no specification uses;
`PROJECT.json` pairs it with the definition it would replace and the property
that then fails.

**AccountAccess.** `row` is the committed users table; `pending[r]` is the row
an open transaction has written. `UpdateRow` is guarded by the row lock and
computes from the row its last holder committed, as `authorization_version =
authorization_version + 1` does; the checks before it (`ChangeStatus`,
`ApproveDeletion`, `RequestDeletion`) read without a lock and hold nothing.
`SetVersionIfGreater` is the Lua script. `CacheHit`, `CacheRefusal`, `CacheMiss`
are the three outcomes of the MGET; `ReadUser`, `ReadSession`, `CacheVersion`,
`CacheSession` the database path. A token is represented by the claims it
carries; `MintRead` fixes them when the account is read, `IssueToken` hands the
token out after the commit. Session rows are not in this module, so
`ReadSession` may go either way and a session key may vanish (`DropSessionKey`).
`LoseWrites` is a Redis restart: `appendonly yes` flushes once a second by
default, so version keys may fall back and session keys go. The ghost `lost`
names the accounts whose version key fell back and was not published since;
`since[r]` is the row's version when a request's token was looked up.
`set_verified`, the e-mail and the timestamps do not matter to the properties
and are left out. Two branches of the code are unreachable with tokens this
server signs, and are left out: a session key that names another account, and a
session row of another account.

**SessionLifecycle.** One account is enough because accounts share no session
row, key or index. A bulk `UPDATE` is `StartUpdate` (the rows it will visit are
the committed active ones, its snapshot), then `MarkRow` for each in any order,
waiting for its lock and looking at it again, as READ COMMITTED does; rows that
commit later are not visited. `LockUserRefresh` is `pg_advisory_xact_lock`, held
to the end of the transaction. `GetSessionForUpdate` and the `UPDATE` that
follows it are one action, since the row stays locked in between.
`ListIndex`/`DeleteListed` are the two round trips of `revoke_all_sessions`. A
refresh token past its own expiry, and an account that is not active, end in
`Fail`: both roll back. Role, status and version stand still here
(`AccountAccess` moves them). The branch in which the stored refresh hash does
not match cannot be reached with a signed token of that session id. The ghost
`raced` names the sessions whose key a validation wrote when a revocation had
already committed, had deleted the key, or had read an index without it
(`Overtaken`).

**LoginRequests.** Login holds the row of its device from the upsert to the
commit (`HoldsDevice`), so logins on one device do not overlap up to there; a
failed commit has given the row up before the clean-up runs, and the model lets
every failed login do so. The checks of a verification depend only on the
document it read and on a time taken before, so `GetLoginRequest` is the read
and the checks; a request they refuse writes nothing and is not a step.
`PatchRead` and `PatchLeft`/`PatchConsumed` are the two halves of
`_patch_request`, `NothingToPatch` its early return. `wrong` counts the wrong
codes that were answered, `accepted` the sessions. The ghost `overlaps` counts
the verifications of an id that began while another was under way; `revived`
names the ids whose document a late SET wrote back, or whose time to live a
patch made longer than that of the pending set. Times to live are whole seconds
and rounded, so document and `expires_at` end apart (`ExpireDocument`,
`PassExpiry`), in either order; the pending set got its time in one transaction
with its newest document and goes with it unless a patch came between
(`ExpirePending`).

**UserRecord.** The two tables behave alike, so columns and fields are
parameters: a field is what a body may give or leave out, as the set of its
columns. `Patch` is the unlocked SELECT, `Dirty` what SQLAlchemy's change
tracking puts into the UPDATE (a column whose new value differs from the loaded
one), `Flush` the UPDATE, which waits for the row, and `CommitPatch` applies it
to what is committed by then. `Insert` waits for a concurrent insert of the same
primary key; if that one commits, the integrity error is `Fail`. Identity maps
hold objects weakly, so a request's second SELECT sees the row afresh. The check
of the account's status refuses without effect and is left out, and so are
`updated_at`, `completed_at` and a profile created without a phone number (all
its columns change at once then). The ghost `torn[r]` has the fields of a patch
in which a column it leaves out has changed since it was read; `stale` the
fields whose last patch was such a one.

**Avatars.** `SaveAvatar` stores under a fresh name (`uuid4`); `DeleteAvatar`
unlinks. A removal reads the row twice: `Remove` for the name to delete,
`ReadAgain` inside `clear_avatar`, whose UPDATE sets the columns only if they
were not NULL (`wipes`). The storage calls contain no `await`, so each is one
step; they are not undone by `Fail`. The profile exists throughout. `broken` is
a ghost. Other columns of the row are in `UserRecord`.

**Rollout.** One run of `rollout.sh` per SSM command (`cpc`, `mode`, `image`),
one job at a time because of the concurrency group (`jpc`). `SetEnv` and
`ComposeUp` are apart because compose starts what `.env` says when it runs,
which is another script's image if two overlap; `Truncate` and `Record` are
apart because the shell truncates the file before it writes. A failing step of a
deployment turns into `mode = "restore"`, as the script goes on to its automatic
rollback. `Die` is a command that is never delivered, cancelled, killed or lost
with the host; `GiveUp` a job whose last poll finds the command unfinished, or
that finds it being cancelled, with the output there is so far; `EndJob` also a
job lost with its runner. `previous-image` is written and never read by the
script, and is left out. The ghost `overlapped` says that two commands were once
unfinished together, `passed` which images were running when a probe passed.
Starting from an empty host, the first deployment has no previous image.

**ReleaseGate.** One action per job step that can race with something: `Resolve`
(look the commit's tag up), `Build` (push; `MayPush` is ECR's immutable tag),
`Scan`, `Policy` (registry of exceptions, platform, attestations, Trivy report),
`WaitForSignature` (a bounded poll), `StoreEvidence`; then `StartDeploy`, with
the commit, image and document that an automatic or a hand-started job names,
and `Revalidate`, the last look at the signature before the command is sent.
Around them days pass (exceptions expire), commits are merged, vulnerabilities
become known, ECR signs or fails to. A digest is the thing it names, so a
document's hash is the document. `EvidenceFits` is `verify_evidence`, `NotStale`
the check of automatic deployments that their commit is still the head. A run
may be started once more as a whole (`StartRun`) or with its failed jobs only
(`RerunRelease`), which looks neither at the head nor at the repository gate.

**RequestBoundary.** `EnterContext` and `LeaveContext` are the two sides of
`request_context_middleware`; between them a request is refused, limited
(`Admit`, `Hit`) or run, and returns or raises. `Handle` is Starlette's inner
exception layer, `HandleOutside` the outermost one, where the handler for
`Exception` runs after the middleware has reset its context. Each request is a
task with context variables of its own. `Negotiate` is the Accept-Language rule,
with tags as numbers in the order of their text, since ties fall by text. `Hit`
is the fixed window of the limiter's storage, which starts with a first hit and
counts refused hits as well. Error codes stand for their texts; wording is left
out. Of the phrases that the framework itself raises, 404 and 405 are there; its
400 for a body that cannot be parsed takes the same way. `admitted` is a ghost:
the requests let through in the last `Window` ticks, each with its age.

**Paging.** `Ask` takes a query, `Count` and `List` are its two statements with
a snapshot each, and the walk goes on while `has_next` says so. `Sorted` gives
every order the `ORDER BY` allows: rows with equal keys come in any, anew for
each page. `UserConditions`, `SessionConditions` and `RoleFilter` are the
conditions; who may ask for which roles is decided in the use case. Of the sort
columns and conditions those are there that differ in kind: a time, an
enumeration and a text that may be NULL; `completed_at` is NULL with `full_name`
here. `Insert` and `Change` are what other requests commit. `begun`, `roles`,
`changed`, `inserted` and `late`, which counts the insertions since the count of
the page, are ghosts.

**SchemaStartup.** One PostgreSQL transaction per start: `Look` (create_all asks
table by table before it creates the first, the two functions after it read the
columns of a table at once), `Execute` (a statement without IF NOT EXISTS: it
waits for the locks of others and then fails on what exists), `NextStage`,
`Commit`. A table made by create_all has every mapped column. A failure ends the
process; Docker restarts servers, and nobody need run a command again.
`LockedBy` says which tables a statement locks: its own and, for a foreign key,
the one it refers to. Locks of serving requests are short and left out. The
metadata's order and the order of creation are one here, which makes no
difference as long as nothing is seen before a commit. An upgraded schema
differs from a new one in one thing the module does not show: the added columns
have no index.

## 3. What is checked

| Run | Instance | States | Shows |
|---|---|---|---|
| `access_lossy` | 1 account, 2 tokens, 2 requests, version up to 3, Redis losing writes, with fairness | 230 k | version key covers the row; the cache grants only what the row grants; admission is fresh; commits close gaps; every request ends |
| `access_atomic` | 2 accounts, 2 tokens, 2 requests, version up to 3 | 204 k | `AccountAccess` implements `AccountAuthority` |
| `session_lifecycle` | 3 sessions, 1 device, 2 requests | 967 k | one rotation per token; what was revoked is refused unless its key was written too late; revocations reach what they saw; reuse ends the families; `SessionLifecycle` implements `SessionRegister` |
| `login_requests` | 2 ids, 2 requests, 2 attempts, 2 overlaps | 4.9 M | types; one live code; a code's sessions and guesses, bounded by its overlapping verifications |
| `user_record` | a name and a two-column phone number, three numbers, 2 requests | 142 k | one creation; no lost field; a mixture only where the last patch was stale |
| `avatars` | 3 file names, 3 requests | 21 k | a dead avatar is explained by one removal; uploads commit with their file |
| `rollout` | 2 images, 2 commands | 388 k | results are true of the host; the recorded image was healthy |
| `release_gate` | 2 commits, 2 runs, 2 images in 3 indexes, 2 polls, one day boundary | 1.1 M | types; what is sent was approved for its commit; one image per commit; no automatic way back |
| `request_boundary` | 2 streams of requests, 1 address, 2 endpoints, a limit of 2 in 2 ticks | 1.6 M | types; answers are traced and speak the client's language; limits hold and refusals have a cause |
| `paging` | 3 rows, 3 times, 7 queries | 2.9 M | types; a quiet walk is the list; additions hide no more rows than came after the count; admins see users |
| `schema_startup` | 2 servers, 1 command, 3 tables, 3 columns, 1 crash, every earlier schema, with fairness | 113 k | types; who serves finds all; all or nothing; failures are harmless; servers come up and stay |
| `session_revoked` | 2 devices | stops at the counterexample | finding 1 of section 4 |

Further configurations are kept beside these. `access_wide.cfg` checks the
properties of `AccountAccess` without liveness for versions up to 4 and all
wishes (TLC finds no error in 313 k states up to symmetry), `preferences.cfg`
checks `FieldsWhole` for columns that are fields of their own (no error in 20 k
states, and `SingleColumnsStayWhole` proves it), and nine show the
counterexamples of section 4 that are not listed as runs. Type invariants that a
theorem proves are not repeated in every run.

Bounds. Two requests give every pairwise race, and the invariants relate at most
two requests and one account; for the modules with proofs the theorems lift them
to any number. `MaxVersion` bounds the changes an account can commit (`Room`
keeps a change from starting that could pass it): two committed changes, with
any number of failed ones between, let one fail after it has published, one
repair it and one race with it. Three sessions allow a login, its rotation and
one more of either while a revocation runs; with two devices its invariants hold
in 2.7 million states as well, but the run takes well over three times as long,
so it keeps one (the theorems, the refinement's among them, are for any number).
The configurations that show violations of sessions have two devices. Two login
requests let one replace the other, two attempts tell the last wrong code from
the one before, and `MaxOverlaps` lets the verifications of an id overlap twice,
enough for a code to open three sessions. `access_atomic` and
`access_admin_target` switch the deadlock check off: with two accounts sharing
two tokens every token may have been spent on a failed login while every account
is a super admin, and then the finite instance has nothing left to do.
`release_gate` does so because a finite world ends: once both runs are over and
no day is left, nothing need happen. All other runs check deadlock.

Three requests over three file names let an upload race with two removals of
different avatars. Two commands are the fewest that overlap, and a command is
sent again once it has ended, so jobs, rollbacks and lost scripts follow one
another without a bound. Two images tell the deployed one from the one before.

Two release runs on two commits race on one tag or finish in either order; the
third index carries an image without attestations; one day boundary lets an
exception expire between two policies of a run, and a finding may be published
at any time. A limit of two in two ticks has a window that begins with the first
hit, meets its end and is crossed. Three rows give a full page and a last one
with one row at limit 2, and three pages at limit 1; queries cover both orders,
both roles, a filter an admin may not use, ties, NULL names and a sort column
that does not exist. In `schema_startup` two servers and a command are one more
than a pairwise race, two tables refer to the first, so that creating them locks
it as well, and one crash may fall between any two steps.

Fairness. In `access_lossy`: weak fairness of `Progress(r)`: an awaited call
returns or raises, and the event loop resumes the request. Strong fairness of
`UpdateRow(r)`: PostgreSQL queues the waiters of a row lock, and a lock that is
released again and again reaches each of them. Nothing is assumed of arrivals,
failures, expiry or Redis restarts. In `schema_startup`: a process that runs
goes on (a statement whose locks are free is executed), and Docker restarts a
server that has ended (`restart: unless-stopped`); crashes are bounded, and
nothing is assumed of commands being started.

## 4. Where code and documentation differ

Listed as a finding, with the run `session_revoked`:

1. `RevokedIsRefused`: a validation that read the session before its revocation
   puts the session key back afterwards, and the cached path then admits the
   revoked session. `RevokedUnlessRaced` shows that this is the only way, on
   either path.

Stated in the modules, and refuted by TLC on the configuration named:

2. `RevokeAllReachesRotated` (`session_revoke_all.cfg`): a refresh that commits
   while a revocation of all sessions waits leaves its new session active.
   `ReuseEndsFamilies` shows the revocation inside a refresh, which holds the
   advisory lock, has no such gap.
3. `AcceptedOnce` (`login_reuse.cfg`): two verifications that overlap both
   spend one code. `OneSessionAndOverlaps` shows that overlap is the only way,
   and that each overlapping verification costs one session at most.
4. `DeployedPassed` (`rollout_overlap.cfg`): a script that outlives its job
   shares `.env` with the next one, whose job then reports a digest that never
   ran. `ResultIsTrue` shows that overlap is the only way.
5. `RollbackUndoesPublish` (`access_rollback.cfg`): the version is published
   before the commit; if the commit fails, the rollback does not reach Redis
   and the account's current tokens are refused. `CommitClosesGap` shows the
   next change repairs it.
6. `AdminsManageOnlyUsers` (`access_admin_target.cfg`): an admin's change may
   commit on an account that was promoted between the check and the `UPDATE`;
   `.codex/rules/security.mdc:13` says admins manage only regular accounts.
7. `FieldsWhole` (`user_record_torn.cfg`): two patches of a phone number each
   leave out the column that agreed with what they had read, and the row ends
   with a number nobody gave. `WholeUnlessStale` shows it takes a stale read,
   stays in the field, and ends with its next patch of a current row.
8. `RemovalDeletesWhatItClears` (`avatars_orphan.cfg`): a removal clears an
   avatar that was uploaded after its first read, and leaves the file.
9. `PreviousWasRunning` (`rollout_previous.cfg`): a script that dies between
   starting an image and recording it makes the next deployment report another
   digest than the one running as the previous one (`deploy-app.yml:27`).
   `CurrentPassed` shows that digest was healthy once.
10. `EveryAnswerTraced` (`request_untraced.cfg`): the handler for `Exception`
   runs outside the middleware, after id and locale were reset, so an
   unexpected error is answered without `x-request-id`, in English, and logged
   with `request_id=-`; `.codex/rules/logging.mdc:9` asks for the id in the
   headers of every response. `HandledAnswersTraced` shows that all others have
   it.

Met while modelling, and said by no document: the count and the rows of a page
are two statements, so an account that registers between those of the last page
pushes a row off it that no page shows (`AdditionsHideNothing` says how many); a
sort by a column with ties may repeat one row and miss another though nothing
was written (`QuietWalkIsTheList` says only that their keys are right); two
verifications on one device may leave two active sessions; replaced avatar files
are never deleted.

## 5. What is proved

Everything below holds for any sets of accounts, sessions, devices and
requests. Assumptions: `None` is no session, device or claim
(`NoneAssumption`), and requests ask for roles and statuses that exist
(`WishAssumption`); further ones are named below. TLC evaluates all of them in
the runs.

*AccountAccess* (`LossySpec`, so with Redis restarts). `IInv` adds to the
properties: claims are those of a committed row and equal the present one while
the version has not moved (`ClaimsOfRow`); what is cached or about to be was
read from an active row (`CachedWasRead`); at most one transaction holds a row
and has written its successor (`RowLock`); a version is at most one ahead and is
published before its commit (`Published`); a request that passed the account
read has a token at least as new as its look-up (`LookedUp`). The properties are
not inductive without these: `CacheGrantsWhatRowGrants`, say, survives a commit
only because that commit published a version no old token carries. Theorems:
`TypeCorrect`, `VersionKeyNeverBehind`, `CacheAgreesWithRow`,
`AdmissionIsFresh`, `CommitsCloseGap`.

*AccountAuthority*. `AccessImplementsAuthority`: with `principal[r]` the claims
of a request from the successful read (or cache hit) to its end, each step of
`Spec` is a step of `AccountAuthority` or a stutter. A cache hit maps to `Grant`
because the cache agrees with the row; a commit maps to the change because the
row lock kept the row that `pending` was computed from. It is about `Spec`,
without Redis restarts: after one, an old token may match an old version key.

*SessionLifecycle*. `IInv`: what each stage knows of its operands
(`StageFacts`), rows revoked by an open transaction are active and held by it
alone (`RowLocks`), one refresh at a time (`RefreshLock`), rotated sessions are
revoked (`ParentsRevoked`), and what an open `UPDATE` has yet to visit, has
revoked or found revoked covers what it saw (`SeenCovered`) and, for reuse, all
rotated sessions (`FamiliesCovered`). A key that a sweep does not find was
written too late (`KeysCovered`): without it a revocation could commit and leave
a key that `raced` does not know of. Theorems: `TypeCorrect`,
`RefreshTokensRotateOnce`, `RevokedIsRefusedUnlessRaced`,
`RevocationsReachTheirRows`, `ReuseIsFinal`.

*SessionRegister*. `SessionsImplementRegister`: the rows are their own image,
every commit is one step of the register and every other step a stutter. A
rotation maps to `Refresh` because the row it locked is active until the commit
(`RowLocks`), a verification to `Login` because what its `UPDATE` revoked is of
its device (`ItsDevice`). The run has one device; with two, TLC found no error
in the first 2.4 million states, and the theorem holds for any number.

*LoginRequests*. Assumptions: `Absent` is no id and no document, and a code may
be tried at least once. `IInv`: what each stage knows (`StageFacts`), one holder
of the device's row and one login per new id (`OneHolder`, `NewIds`), what is
live is pending and known to the login that is about to delete it
(`LivePending`). The bounds of a code are potentials of its verifications under
way, `Flights`: sessions opened and flights never exceed one and the overlaps,
and while a document could let in another that nobody is about to mark, one of
them is left (`Sessions`); wrong codes, flights and the attempts that a document
or a copy of it has left never exceed the limit and the overlaps by more than
one (`Guesses`). A verification that begins alone adds a flight where there was
none, one that overlaps pays with its overlap. `OneLiveCode` fails without
`OneHolder`: a second login's clean-up would forget what the first one created.
Theorems: `TypeCorrect`, `DeviceHasOneLiveCode`, `SessionsPerCode`,
`GuessesPerCode`, for any bound on overlaps (`OverlapsAssumption`).

*SchemaStartup*. Assumption (`StartupAssumption`): additions are columns of
mapped tables and no list names an object twice. `IInv`: the stages a process
has behind it are visible to it, and so is what it looked at and need not make
(`CoveredAt`); what it found missing is still missing or was made with all the
rest (`MissingAt`). A commit therefore completes the schema, and a statement can
only fail on a complete one. Theorems: `TypeCorrect`, `ServersFindTheSchema`,
`SchemaIsUpgradedAtOnce`, `FailuresAreHarmless`.

*UserRecord*. `IInv`: what each stage knows (`StageFacts`), one open writer of
the row (`OneWriter`), an insert only where there is no row (`InsertedIsNew`),
what a flushed patch leaves out of a field that is not torn is still as it was
read (`FlushedIsFresh`), and columns that somebody gave (`ColumnsGiven`).
`WholeUnlessStale` needs the last two: a fresh patch changes the columns of a
field to one offer, and those it leaves out agreed with that offer already.
Theorems: `TypeCorrect`, `FreshPatchesKeepFieldsWhole`, `SingleColumnsStayWhole`
(under the assumption that each field has one column), `RowIsCreatedOnce`,
`PatchesKeepToTheirFields`. Assumptions: columns belong to one field each, and
clients give values that are not NULL.

*Avatars*. `IInv`: the name of a pending upload is known to nobody else and its
file is there (`PendingKeys`), and a removal that will leave the columns alone
has not deleted what they name (`KeepsOther`). Without freshness of names both
fail. Theorems: `AvatarTypeCorrect`, `DanglingAvatarsAreExplained`,
`UploadsAreServed`.

*Rollout*. Unless commands overlapped (`Serial`): one script at a time, what it
did to the host is still so (`Starting`), and from the success of its command to
the end of the job nothing moves (`SuccessStands`); always: outcomes
(`Outcomes`) and the command a job waits for (`JobCommand`). Theorems:
`HostTypeCorrect`, `ResultsAreTrue`, `RecordedImagesPassed`. `None` is no image
and no command.

*ReleaseGate*. `IInv`: what a release job relies on at each step (`JobsKnow`),
that stored evidence was approved (`StoredIsApproved`), that what a deploy job
accepted is stored and about its inputs (`AcceptedFits`), and that an automatic
job's commit was the head, with nothing newer sent since it began (`Forward`). A
job looks at the index it builds, not at the tag: that both are the same to the
end rests on the tag being immutable, and `SentIsApproved` on its evidence
naming that index. Assumptions (`ReleaseAssumption`): there is a commit, polls
and days are bounded, an index names images and what attests them, `None` is no
index and no run. Theorems: `TypeCorrect`, `SentImagesAreApproved`,
`CommitsHaveOneImage`, `AutomaticGoesForward`.

*RequestBoundary*. Two invariants that do not meet. `RequestInv`: from the
middleware to the way out, a task has its own request's id and locale
(`Entered`); nothing is raised too early, and what escapes was logged as 500
(`RaisedInTime`); on the way out an answer is in the request's language
(`Answered`). That `Negotiate` finds a language at all, and one of the greatest
weight, is `NegotiateKnows`, for any finite header. `LimiterInv` says of each
counter, by `Counted`: it counts what the current window let through, up to the
limit; fewer than the limit are left of the window before, since its first
request is more than `Window` ticks old; and the first of the current window is
still there. `LessThanTwiceTheLimit` is not inductive without the last part,
which is what makes the window before lose one as the next begins. Theorems:
`TypeCorrect`, `HandledAreTraced`, `AnswersSpeak`, `BelowTwiceTheLimit`,
`RefusedForCause`. Assumptions (`BoundaryAssumption`): limit and window are at
least 1; headers are finite; tags have a supported language or none; the
translation files know every key that an answer takes, as `en.json`, `ru.json`
and `kk.json` do.

*Paging*. For any finite table. `IInv`: the total falls short of the rows that
match by no more than the insertions since (`Counted`); what matched still does
(`BegunStands`); a row that was there and has not been shown has at least as
many rows before it as the pages so far took (`NotYetPassed`); and in a quiet
walk the rows so far have the keys of the sorted list down to the next page
(`PagesSoFar`). The first three carry `AdditionsHideNothing`: an insertion can
only add to the rows before another, so that what is missing has its place
behind the last page, where there are no more places than insertions
(`RowsBehind`). Any two sorted lists have the same keys place by place
(`KeysAtAPlace`): the rows before a place of one cannot all fit before that
place in the other. They rest also on `PlaceInTheList` (a row's place is the
number of rows before it) and `PagesCover` (the last page ends at or after the
last row). Theorems: `TypeCorrect`, `QuietWalksShowTheList`,
`AddedRowsHideNothing`, `AdminsAreShownUsers`. Assumptions (`PagingAssumption`):
the table is finite, `None` is no user, session, query or role.

Induction over data is not available to the provers, and two of these proofs
would use it: that a finite set has a greatest member (`Greatest`), and that
sorted lists agree (`KeysAtAPlace`). The one takes a minimal member of a family
of subsets, which the library's theorem on finite subsets provides (strict
inclusion is well-founded), the other the pigeonhole principle.

## 6. What is only model-checked

`RequestsEnd` and `EveryoneServes`: liveness under fairness is out of the
prover's reach. The counterexamples of section 4. And that the assumptions above
hold of the instances. Every safety property of the passing runs is a theorem.

## 7. What is not modelled, and why

Device notifications are one upsert or UPDATE of one row, after a check of the
session that a revocation may overtake (`update_device_notifications.py:22`) as it may a
validation (finding 1); they are left for later. Creating
the super admin's account before promoting it is left out; reading a profile or
preferences changes nothing. Of the host, the installation of packages and
`enable_https.sh` (run by an operator) are left out: they do not touch the
image. Of the workflows, secret scan, workflow lint, smoke test and the
pull-request checks keep no state. Parsing of requests, CORS, the OpenAPI
document, dependency factories, wording, log formatting, telemetry and settings
keep no state that the modelled parts read. Cryptography, JWT encoding, bcrypt
and SMTP are assumed to do what they say; a code either matches or not, a mail
is sent or fails. Terraform, nginx and compose files are configuration. Clocks
are one clock: an expiry is an event.

## 8. Plan

1. Done: `AccountAuthority`, `AccountAccess`, `SessionRegister`,
   `SessionLifecycle`, `LoginRequests`, `UserRecord`, `Avatars`, `ReleaseGate`,
   `Rollout`, `RequestBoundary`, `Paging`, `SchemaStartup`, all with proofs.
2. An abstract specification of an environment, which only ever runs images
   approved for a commit: `ReleaseGate` and `Rollout` composed implement it
   while commands do not overlap.
3. Composition of `SessionLifecycle` with `LoginRequests` for the verification
   that both share; liveness of the session operations.
4. Device notifications, and `UserRecord` with `Avatars` on one profile row.
