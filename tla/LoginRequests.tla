---------------------------- MODULE LoginRequests ----------------------------
(***************************************************************************)
(* The one-time codes of one account on one device, kept in Redis as one   *)
(* JSON document per login request and a set of the pending ones.  Logins  *)
(* replace what is pending; verifications count wrong codes and mark the   *)
(* request consumed.  The document is patched by GET and SET of the whole, *)
(* two round trips that anything may come between, and none of it is       *)
(* undone when the database transaction of the same request rolls back.    *)
(* Other accounts and devices use other keys and another row.              *)
(***************************************************************************)
EXTENDS Integers, FiniteSets

CONSTANTS Ids,         \* login request ids
          Requests,    \* requests the event loop serves at the same time
          MaxAttempts, \* otp_max_attempts
          MaxOverlaps, \* bounds overlaps for TLC; the proofs take any value
          Absent       \* no document, no id

Documents == [left : 0 .. MaxAttempts, consumed : BOOLEAN]

(* Absent is no id and no document, and a code may be tried at least once. *)
ASSUME AbsentAssumption == Absent \notin Ids \cup Documents
ASSUME AttemptsAssumption == MaxAttempts \in Nat \ {0}
ASSUME OverlapsAssumption == MaxOverlaps \in Nat

VARIABLES
    store,    \* Redis login_request:<id>: the document, or Absent
    pending,  \* Redis login_request_pending:<user>:<device>
    expired,  \* ids past their expires_at
    answered, \* ids that a login has returned to its caller
    pc, id,   \* where each request stands, and the id it works on
    listed,   \* the pending ids that a login read
    copy,     \* the document a verification decided on
    raw,      \* the document it will write from
    accepted, \* ghost: verifications of an id that ended in a session
    wrong,    \* ghost: wrong codes for an id that were answered
    overlaps, \* ghost: verifications of an id begun while another was under way
    revived   \* ghost: ids whose document outlived its deletion or the pending set

ghosts == <<accepted, wrong, overlaps, revived>>
vars == <<store, pending, expired, answered, pc, id, listed, copy, raw, ghosts>>

(* A login holds the row of its device from the upsert to the commit. *)
HoldsDevice == {"deleting", "clearing", "creating", "created"}
Verifies == {"wrong", "right", "set_left", "set_consumed", "consumed"}

TypeOK ==
    /\ store \in [Ids -> Documents \cup {Absent}]
    /\ \A ids \in {pending, expired, answered, revived} : ids \subseteq Ids
    /\ pc \in [Requests -> {"idle", "cleanup"} \cup HoldsDevice \cup Verifies]
    /\ id \in [Requests -> Ids \cup {Absent}]
    /\ listed \in [Requests -> SUBSET Ids]
    /\ copy \in [Requests -> Documents \cup {Absent}]
    /\ raw \in [Requests -> Documents \cup {Absent}]
    /\ accepted \in [Ids -> Nat] /\ wrong \in [Ids -> Nat] /\ overlaps \in [Ids -> Nat]

Init ==
    /\ store = [i \in Ids |-> Absent]
    /\ pending = {} /\ expired = {} /\ answered = {} /\ revived = {}
    /\ pc = [r \in Requests |-> "idle"]
    /\ id = [r \in Requests |-> Absent]
    /\ listed = [r \in Requests |-> {}]
    /\ copy = [r \in Requests |-> Absent]
    /\ raw = [r \in Requests |-> Absent]
    /\ accepted = [i \in Ids |-> 0] /\ wrong = [i \in Ids |-> 0] /\ overlaps = [i \in Ids |-> 0]

-----------------------------------------------------------------------------
Go(r, stage) == pc' = [pc EXCEPT ![r] = stage]

End(r) ==
    /\ Go(r, "idle")
    /\ id' = [id EXCEPT ![r] = Absent]
    /\ listed' = [listed EXCEPT ![r] = {}]
    /\ copy' = [copy EXCEPT ![r] = Absent]
    /\ raw' = [raw EXCEPT ![r] = Absent]

DeviceFree == \A r \in Requests : pc[r] \notin HoldsDevice

(* An id nobody has drawn yet. *)
Fresh(i) == /\ \A r \in Requests : id[r] # i
            /\ i \notin answered \cup pending \cup expired
            /\ store[i] = Absent

-----------------------------------------------------------------------------
(* login_user: the upsert of the device takes its row, and a second login  *)
(* on the device waits there.  Then delete_pending_logins in three round   *)
(* trips, the new document and its membership in one, the mail, the commit.*)

(* Slip: a login that does not write the device's row. *)
LoginBesideAnother(r) ==
    /\ pc[r] = "idle"
    /\ listed' = [listed EXCEPT ![r] = pending]
    /\ Go(r, IF pending = {} THEN "clearing" ELSE "deleting")
    /\ UNCHANGED <<store, pending, expired, answered, id, copy, raw, ghosts>>

Login(r) ==
    /\ pc[r] = "idle"
    /\ DeviceFree
    /\ listed' = [listed EXCEPT ![r] = pending]
    /\ Go(r, IF pending = {} THEN "clearing" ELSE "deleting")
    /\ UNCHANGED <<store, pending, expired, answered, id, copy, raw, ghosts>>

DeleteListed(r) ==
    /\ pc[r] = "deleting"
    /\ store' = [i \in Ids |-> IF i \in listed[r] THEN Absent ELSE store[i]]
    /\ Go(r, "clearing")
    /\ UNCHANGED <<pending, expired, answered, id, listed, copy, raw, ghosts>>

ClearPending(r) ==
    /\ pc[r] = "clearing"
    /\ pending' = {}
    /\ listed' = [listed EXCEPT ![r] = {}]
    /\ Go(r, "creating")
    /\ UNCHANGED <<store, expired, answered, id, copy, raw, ghosts>>

CreateLoginRequest(r, i) ==
    /\ pc[r] = "creating"
    /\ Fresh(i)
    /\ store' = [store EXCEPT ![i] = [left |-> MaxAttempts, consumed |-> FALSE]]
    /\ pending' = pending \cup {i}
    /\ id' = [id EXCEPT ![r] = i]
    /\ Go(r, "created")
    /\ UNCHANGED <<expired, answered, listed, copy, raw, ghosts>>

(* The code is on its way and the transaction has committed. *)
AnswerLogin(r) ==
    /\ pc[r] = "created"
    /\ answered' = answered \cup {id[r]}
    /\ End(r)
    /\ UNCHANGED <<store, pending, expired, ghosts>>

(* The mail or the commit failed: the request deletes its document, then   *)
(* its membership.  A failed commit has let go of the row before that.     *)
LoginFails(r) ==
    /\ pc[r] = "created"
    /\ store' = [store EXCEPT ![id[r]] = Absent]
    /\ Go(r, "cleanup")
    /\ UNCHANGED <<pending, expired, answered, id, listed, copy, raw, ghosts>>

ForgetPending(r) ==
    /\ pc[r] = "cleanup"
    /\ pending' = pending \ {id[r]}
    /\ End(r)
    /\ UNCHANGED <<store, expired, answered, ghosts>>

-----------------------------------------------------------------------------
(* verify_email *)

(* Slip: the consumed mark is not looked at. *)
AcceptableUnlessSpent(i) == store[i] # Absent /\ i \notin expired /\ store[i].left > 0

(* The checks before the code is compared, on the document as it was read. *)
(* A request that fails them is answered and writes nothing.               *)
Acceptable(i) ==
    /\ store[i] # Absent
    /\ ~store[i].consumed
    /\ i \notin expired
    /\ store[i].left > 0

Verifying(i) == {r \in Requests : pc[r] \in Verifies /\ id[r] = i}

GetLoginRequest(r, i, right) ==
    /\ pc[r] = "idle"
    /\ i \in answered
    /\ Acceptable(i)
    /\ id' = [id EXCEPT ![r] = i]
    /\ copy' = [copy EXCEPT ![r] = store[i]]
    /\ IF Verifying(i) = {} THEN UNCHANGED overlaps
       ELSE overlaps[i] < MaxOverlaps /\ overlaps' = [overlaps EXCEPT ![i] = @ + 1]
    /\ Go(r, IF right THEN "right" ELSE "wrong")
    /\ UNCHANGED <<store, pending, expired, answered, listed, raw, accepted, wrong, revived>>

(* _patch_request, first half: GET and TTL. *)
PatchRead(r) ==
    /\ pc[r] \in {"wrong", "right"}
    /\ store[id[r]] # Absent
    /\ raw' = [raw EXCEPT ![r] = store[id[r]]]
    /\ Go(r, IF pc[r] = "wrong" THEN "set_left" ELSE "set_consumed")
    /\ UNCHANGED <<store, pending, expired, answered, id, listed, copy, ghosts>>

(* A document that is gone is not patched, and the request goes on. *)
NothingToPatch(r) ==
    /\ pc[r] \in {"wrong", "right"}
    /\ store[id[r]] = Absent
    /\ \/ /\ pc[r] = "wrong"
          /\ wrong' = [wrong EXCEPT ![id[r]] = @ + 1]
          /\ End(r)
       \/ /\ pc[r] = "right"
          /\ Go(r, "consumed")
          /\ UNCHANGED <<id, listed, copy, raw, wrong>>
    /\ UNCHANGED <<store, pending, expired, answered, accepted, overlaps, revived>>

(* Second half: SET of the whole document, whatever became of it. *)
SetDocument(r, document) ==
    /\ store' = [store EXCEPT ![id[r]] = document]
    /\ revived' = IF store[id[r]] = Absent THEN revived \cup {id[r]} ELSE revived

(* Slip: the attempt that was just made is not counted. *)
PatchLeftUncounted(r) ==
    /\ pc[r] = "set_left"
    /\ SetDocument(r, [raw[r] EXCEPT !.left = copy[r].left])
    /\ wrong' = [wrong EXCEPT ![id[r]] = @ + 1]
    /\ End(r)
    /\ UNCHANGED <<pending, expired, answered, accepted, overlaps>>

(* The count is what the decision read less one, not what is stored now.   *)
(* With the last attempt and without, the request commits and is refused.  *)
PatchLeft(r) ==
    /\ pc[r] = "set_left"
    /\ SetDocument(r, [raw[r] EXCEPT !.left = copy[r].left - 1])
    /\ wrong' = [wrong EXCEPT ![id[r]] = @ + 1]
    /\ End(r)
    /\ UNCHANGED <<pending, expired, answered, accepted, overlaps>>

(* Slip: the mark takes the place of the document. *)
PatchConsumedWhole(r) ==
    /\ pc[r] = "set_consumed"
    /\ SetDocument(r, [consumed |-> TRUE])
    /\ Go(r, "consumed")
    /\ UNCHANGED <<pending, expired, answered, id, listed, copy, raw, accepted, wrong, overlaps>>

PatchConsumed(r) ==
    /\ pc[r] = "set_consumed"
    /\ SetDocument(r, [raw[r] EXCEPT !.consumed = TRUE])
    /\ Go(r, "consumed")
    /\ UNCHANGED <<pending, expired, answered, id, listed, copy, raw, accepted, wrong, overlaps>>

(* The new session is stored and the device touched, which waits for its   *)
(* row; the transaction commits.                                           *)
Accept(r) ==
    /\ pc[r] = "consumed"
    /\ DeviceFree
    /\ accepted' = [accepted EXCEPT ![id[r]] = @ + 1]
    /\ End(r)
    /\ UNCHANGED <<store, pending, expired, answered, wrong, overlaps, revived>>

-----------------------------------------------------------------------------
(* An error or a crash: Redis stays as it is. *)
Fail(r) ==
    /\ pc[r] # "idle"
    /\ End(r)
    /\ UNCHANGED <<store, pending, expired, answered, ghosts>>

(* Times to live are whole seconds and rounded, when a document is made    *)
(* and again when it is patched, so a document may go before its           *)
(* expires_at or after it.                                                 *)
ExpireDocument(i) ==
    /\ store[i] # Absent
    /\ store' = [store EXCEPT ![i] = Absent]
    /\ UNCHANGED <<pending, expired, answered, pc, id, listed, copy, raw, ghosts>>

PassExpiry(i) ==
    /\ store[i] # Absent /\ i \notin expired
    /\ expired' = expired \cup {i}
    /\ UNCHANGED <<store, pending, answered, pc, id, listed, copy, raw, ghosts>>

NeverPatched(i) == store[i] = [left |-> MaxAttempts, consumed |-> FALSE]

(* The pending set goes with the newest document in it, unless a patch has *)
(* given that document another time to live.                               *)
ExpirePending ==
    /\ pending # {} /\ pending' = {}
    /\ LET outlive == {i \in pending : store[i] # Absent /\ ~NeverPatched(i)}
       IN /\ store' = [i \in Ids |-> IF i \in pending \ outlive THEN Absent ELSE store[i]]
          /\ revived' = revived \cup outlive
    /\ UNCHANGED <<expired, answered, pc, id, listed, copy, raw, accepted, wrong, overlaps>>

Next ==
    \/ \E r \in Requests :
          \/ Login(r) \/ DeleteListed(r) \/ ClearPending(r)
          \/ AnswerLogin(r) \/ LoginFails(r) \/ ForgetPending(r)
          \/ PatchRead(r) \/ NothingToPatch(r) \/ PatchLeft(r) \/ PatchConsumed(r)
          \/ Accept(r) \/ Fail(r)
          \/ \E i \in Ids : \/ CreateLoginRequest(r, i)
                            \/ \E right \in BOOLEAN : GetLoginRequest(r, i, right)
    \/ \E i \in Ids : ExpireDocument(i) \/ PassExpiry(i)
    \/ ExpirePending

Spec == Init /\ [][Next]_vars

-----------------------------------------------------------------------------
(* Properties *)

(* A device has one code at a time: a login leaves no earlier document     *)
(* behind, because delete_pending_logins and create_login_request run with *)
(* the device's row held, although Redis itself keeps them apart by        *)
(* nothing.  The exception is a document that a verification wrote back    *)
(* after a login, a cleanup or its time had deleted it, or with a time to  *)
(* live, rounded up, that ends after that of the pending set.              *)
OneLiveCode == Cardinality({i \in Ids : store[i] # Absent} \ revived) <= 1

(* A code opens one session, and one more at most for each verification of *)
(* it that began while another was under way: whatever fails in between,   *)
(* whether or not a login deletes the document meanwhile, and whoever      *)
(* writes it back without the mark or with an older count.                 *)
OneSessionAndOverlaps == \A i \in Ids : accepted[i] <= 1 + overlaps[i]

(* ... and answers otp_max_attempts wrong codes, and one more at most for  *)
(* each of those verifications.                                            *)
AttemptsAndOverlaps == \A i \in Ids : wrong[i] <= MaxAttempts + overlaps[i]

(* What the test of the endpoint states of every code: it is good for one  *)
(* session.  Two verifications that both read the document before either   *)
(* marks it are both accepted.                                             *)
AcceptedOnce == \A i \in Ids : accepted[i] <= 1
=============================================================================
