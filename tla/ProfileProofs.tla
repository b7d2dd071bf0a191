------------------------------ MODULE ProfileProofs ---------------------------
(***************************************************************************)
(* Proofs about an account's records and its avatar.                       *)
(*                                                                         *)
(* About UserRecord, for any columns, fields, clients and requests: one    *)
(* creation, patches that keep to their fields, fields that are never a    *)
(* mixture unless their last patch was stale, and never at all when each   *)
(* has one column.                                                         *)
(*                                                                         *)
(* About Avatars, for any names and requests: a profile that names a       *)
(* missing file is explained, and uploads are served.                      *)
(***************************************************************************)
EXTENDS UserRecord, Avatars, TLAPS

-----------------------------------------------------------------------------
(* The record *)

(* What each stage knows of its request. *)
StageFacts ==
    \A r \in Requests :
        /\ pc[r] # "idle" => offer[r] \in Offers
        /\ pc[r] \in {"loaded", "flushed"} => exists /\ loaded[r] \in [Columns -> Values]

(* The row lock, which an INSERT holds on its key. *)
Writing(r) == pc[r] \in {"inserted", "flushed"}
OneWriter == \A r, q \in Requests : Writing(r) /\ Writing(q) => r = q

InsertedIsNew == \A r \in Requests : pc[r] = "inserted" => ~exists

(* Outside its torn fields, what a flushed patch does not set is still as  *)
(* it was read.                                                            *)
FlushedIsFresh ==
    \A r \in Requests : pc[r] = "flushed" =>
        \A F \in asked[r] \ torn[r] : \A c \in F \ Dirty(r) : row[c] = loaded[r][c]

(* Each column holds what somebody gave for it. *)
ColumnsGiven == exists => \A c \in Columns : \E o \in Offers : row[c] = o[c]

IInv == /\ TypeOK
        /\ StageFacts
        /\ OneWriter
        /\ InsertedIsNew
        /\ FlushedIsFresh
        /\ ColumnsGiven
        /\ WholeUnlessStale

-----------------------------------------------------------------------------
LEMMA InitIInv == Init => IInv
BY DEF Init, IInv, TypeOK, Stages, Blank, StageFacts, OneWriter, Writing, InsertedIsNew,
       FlushedIsFresh, ColumnsGiven, WholeUnlessStale

(* Steps that leave the committed row alone keep what is said of it. *)
LEMMA RowKept ==
    ASSUME IInv, UNCHANGED <<exists, row, stale>>
    PROVE  ColumnsGiven' /\ WholeUnlessStale'
BY DEF IInv, ColumnsGiven, WholeUnlessStale, Whole

LEMMA EndStep ==
    ASSUME IInv, NEW r \in Requests, End(r), UNCHANGED <<exists, row, stale>>
    PROVE  IInv'
<1> USE DEF IInv, End, Go
<1>1. TypeOK'
  BY DEF TypeOK, Stages
<1>2. StageFacts'
  BY DEF StageFacts, TypeOK
<1>3. OneWriter' /\ InsertedIsNew' /\ FlushedIsFresh'
  BY DEF OneWriter, Writing, InsertedIsNew, FlushedIsFresh, Dirty, TypeOK
<1> QED
  BY <1>1, <1>2, <1>3, RowKept

LEMMA CreateStep ==
    ASSUME IInv, NEW r \in Requests, NEW o \in Offers, Create(r, o)
    PROVE  IInv'
<1> USE DEF IInv, Create, Go
<1>1. TypeOK'
  BY DEF TypeOK, Stages
<1>2. StageFacts'
  BY DEF StageFacts, TypeOK
<1>3. OneWriter' /\ InsertedIsNew' /\ FlushedIsFresh'
  BY DEF OneWriter, Writing, InsertedIsNew, FlushedIsFresh, Dirty, TypeOK
<1> QED
  BY <1>1, <1>2, <1>3, RowKept

LEMMA InsertStep ==
    ASSUME IInv, NEW r \in Requests, Insert(r)
    PROVE  IInv'
<1> USE DEF IInv, Insert, Go
<1>1. TypeOK'
  BY DEF TypeOK, Stages
<1>2. StageFacts'
  BY DEF StageFacts, TypeOK
<1>3. OneWriter' /\ InsertedIsNew' /\ FlushedIsFresh'
  BY DEF RowFree, OneWriter, Writing, InsertedIsNew, FlushedIsFresh, Dirty, TypeOK
<1> QED
  BY <1>1, <1>2, <1>3, RowKept

LEMMA PatchStep ==
    ASSUME IInv, NEW r \in Requests, NEW o \in Offers, NEW fields \in SUBSET Fields,
           Patch(r, fields, o)
    PROVE  IInv'
<1> USE DEF IInv, Patch, Go
<1>1. TypeOK'
  BY DEF TypeOK, Stages
<1>2. StageFacts'
  BY DEF StageFacts, TypeOK
<1>3. OneWriter' /\ InsertedIsNew' /\ FlushedIsFresh'
  BY DEF OneWriter, Writing, InsertedIsNew, FlushedIsFresh, Dirty, TypeOK
<1> QED
  BY <1>1, <1>2, <1>3, RowKept

LEMMA FlushStep ==
    ASSUME IInv, NEW r \in Requests, Flush(r)
    PROVE  IInv'
<1> USE DEF IInv, Flush, Go
<1>1. TypeOK'
  BY DEF TypeOK, Stages, Torn
<1>2. StageFacts'
  BY DEF StageFacts, TypeOK
<1>3. OneWriter' /\ InsertedIsNew' /\ FlushedIsFresh'
  BY DEF RowFree, OneWriter, Writing, InsertedIsNew, FlushedIsFresh, Dirty, Torn, StageFacts, TypeOK
<1> QED
  BY <1>1, <1>2, <1>3, RowKept

(* The inserted row is one client's; nobody else can have read an old one. *)
LEMMA CommitInsertStep ==
    ASSUME IInv, NEW r \in Requests, CommitInsert(r)
    PROVE  IInv'
<1> USE DEF IInv, CommitInsert, End, Go
<1>1. offer[r] \in Offers /\ offer[r] \in [Columns -> Values]
  BY OffersAssumption DEF StageFacts
<1>2. TypeOK'
  BY <1>1 DEF TypeOK, Stages
<1>3. StageFacts'
  BY DEF StageFacts, TypeOK
<1>4. OneWriter' /\ InsertedIsNew' /\ FlushedIsFresh'
  BY DEF OneWriter, Writing, InsertedIsNew, FlushedIsFresh, Dirty, StageFacts, TypeOK
<1>5. ColumnsGiven' /\ WholeUnlessStale'
  BY <1>1 DEF ColumnsGiven, WholeUnlessStale, Whole
<1> QED
  BY <1>2, <1>3, <1>4, <1>5

LEMMA CommitPatchStep ==
    ASSUME IInv, NEW r \in Requests, CommitPatch(r)
    PROVE  IInv'
<1> USE DEF IInv, CommitPatch
<1>1. /\ exists /\ exists' /\ stale' = (stale \ asked[r]) \cup torn[r]
      /\ offer[r] \in Offers /\ offer[r] \in [Columns -> Values]
      /\ loaded[r] \in [Columns -> Values] /\ row \in [Columns -> Values]
      /\ asked[r] \subseteq Fields
  BY OffersAssumption DEF StageFacts, TypeOK
<1>2. /\ row' \in [Columns -> Values]
      /\ \A c \in Columns : row'[c] = IF c \in Dirty(r) THEN offer[r][c] ELSE row[c]
  BY <1>1 DEF Patched
<1>3. TypeOK'
  BY <1>1, <1>2 DEF End, Go, TypeOK, Stages
<1>4. StageFacts'
  BY <1>1 DEF End, Go, StageFacts, TypeOK
<1>5. OneWriter' /\ InsertedIsNew' /\ FlushedIsFresh'
  BY DEF End, Go, OneWriter, Writing, InsertedIsNew, FlushedIsFresh, Dirty, TypeOK
<1>6. ColumnsGiven'
  BY <1>1, <1>2 DEF ColumnsGiven
<1>7. WholeUnlessStale'
  <2> SUFFICES ASSUME NEW F \in Fields \ stale'
               PROVE  \E o \in Offers : \A c \in F : row'[c] = o[c]
    BY <1>1 DEF WholeUnlessStale, Whole
  <2>1. F \subseteq Columns
    BY ColumnsAssumption
  <2>2. CASE F \in asked[r]
    <3>0. \A c \in F \ Dirty(r) : row[c] = loaded[r][c]
      BY <1>1, <2>2 DEF FlushedIsFresh
    <3>1. \A c \in F : row'[c] = offer[r][c]
      BY <1>2, <2>1, <2>2, <3>0 DEF Dirty
    <3> QED
      BY <1>1, <3>1
  <2>3. CASE F \notin asked[r]
    <3>1. \A c \in F : c \notin UNION asked[r]
      BY <1>1, <2>3, ColumnsAssumption
    <3>2. \A c \in F : row'[c] = row[c]
      BY <1>2, <2>1, <3>1 DEF Dirty
    <3> QED
      BY <1>1, <2>3, <3>2 DEF WholeUnlessStale, Whole
  <2> QED
    BY <2>2, <2>3
<1> QED
  BY <1>3, <1>4, <1>5, <1>6, <1>7

LEMMA NextStep == IInv /\ [Next]_vars => IInv'
<1> SUFFICES ASSUME IInv, [Next]_vars PROVE IInv'
  OBVIOUS
<1>1. ASSUME NEW r \in Requests, NEW o \in Offers, Create(r, o) PROVE IInv'
  BY <1>1, CreateStep
<1>2. ASSUME NEW r \in Requests, NEW o \in Offers, NEW fields \in SUBSET Fields,
             Patch(r, fields, o)
      PROVE  IInv'
  BY <1>2, PatchStep
<1>3. ASSUME NEW r \in Requests, Insert(r) PROVE IInv'
  BY <1>3, InsertStep
<1>4. ASSUME NEW r \in Requests, CommitInsert(r) PROVE IInv'
  BY <1>4, CommitInsertStep
<1>5. ASSUME NEW r \in Requests, Flush(r) PROVE IInv'
  BY <1>5, FlushStep
<1>6. ASSUME NEW r \in Requests, CommitPatch(r) PROVE IInv'
  BY <1>6, CommitPatchStep
<1>7. ASSUME NEW r \in Requests, Fail(r) PROVE IInv'
  BY <1>7, EndStep DEF Fail
<1>8. CASE UNCHANGED vars
  BY <1>8 DEF vars, IInv, TypeOK, StageFacts, OneWriter, Writing, InsertedIsNew,
      FlushedIsFresh, Dirty, ColumnsGiven, WholeUnlessStale, Whole
<1> QED
  BY <1>1, <1>2, <1>3, <1>4, <1>5, <1>6, <1>7, <1>8 DEF Next, Askable

(* The invariant holds throughout. *)
THEOREM Inductive == Spec => []IInv
<1>1. Init => IInv
  BY InitIInv
<1>2. IInv /\ [Next]_vars => IInv'
  BY NextStep
<1> QED
  BY <1>1, <1>2, PTL DEF Spec

-----------------------------------------------------------------------------
(* Every variable has its type; a row that exists has no Null in it. *)
THEOREM TypeCorrect == Spec => []TypeOK
<1>1. IInv => TypeOK
  BY DEF IInv
<1> QED
  BY <1>1, Inductive, PTL

(* A field of several columns is one client's, unless the last patch of    *)
(* that field left out a column that had changed since it was read.        *)
THEOREM FreshPatchesKeepFieldsWhole == Spec => []WholeUnlessStale
<1>1. IInv => WholeUnlessStale
  BY DEF IInv
<1> QED
  BY <1>1, Inductive, PTL

(* Where every field has one column, as in user_preferences, no concurrent *)
(* patch can mix one up, stale or not.                                     *)
THEOREM SingleColumnsStayWhole ==
    ASSUME \A F \in Fields : \E c \in Columns : F = {c}
    PROVE  Spec => []FieldsWhole
<1>1. IInv => FieldsWhole
  BY DEF IInv, ColumnsGiven, FieldsWhole, Whole
<1> QED
  BY <1>1, Inductive, PTL

(* Requests that all saw no row create one. *)
THEOREM RowIsCreatedOnce == Spec => CreatedOnce
<1>1. IInv /\ [Next]_vars => [\A r \in Requests : CommitInsert(r) => ~exists]_vars
  BY DEF IInv, InsertedIsNew, CommitInsert
<1> QED
  BY <1>1, Inductive, PTL DEF Spec, CreatedOnce

(* A patch changes no column that it was not given, whatever has committed *)
(* since it read the row.                                                  *)
THEOREM PatchesKeepToTheirFields == Spec => LeavesTheRest
<1> DEFINE Keeps(r) == CommitPatch(r) =>
                           \A c \in Columns \ UNION asked[r] : row'[c] = row[c]
<1>1. [\A r \in Requests : Keeps(r)]_vars
  BY DEF CommitPatch, Patched, Dirty
<1> QED
  BY <1>1, PTL DEF LeavesTheRest

-----------------------------------------------------------------------------
(* The avatar *)

(* The name of an upload that is under way is its own: its file is there,  *)
(* and neither the row nor another request knows the name.                 *)
PendingKeys ==
    \A r \in AvatarRequests :
        stage[r] \in {"saved", "written"} =>
            /\ key[r] \in files
            /\ key[r] # avatar
            /\ \A q \in AvatarRequests \ {r} : key[q] # key[r]

(* A removal that leaves the columns alone leaves a name in them that it   *)
(* has not deleted.                                                        *)
KeepsOther ==
    \A r \in AvatarRequests :
        stage[r] \in {"reread", "cleared"} /\ ~wipes[r] => avatar = None \/ avatar # key[r]

AvatarInv == AvatarTypeOK /\ PendingKeys /\ KeepsOther /\ DanglingExplained

-----------------------------------------------------------------------------
LEMMA InitAvatarInv == AvatarInit => AvatarInv
BY DEF AvatarInit, AvatarInv, AvatarTypeOK, Uploading, Removing,
       PendingKeys, KeepsOther, DanglingExplained

LEMMA AvatarTypeStep == AvatarTypeOK /\ [AvatarNext]_avatarVars => AvatarTypeOK'
<1> SUFFICES ASSUME AvatarTypeOK, [AvatarNext]_avatarVars
             PROVE  AvatarTypeOK'
  OBVIOUS
<1> USE NoneAssumption DEF AvatarTypeOK, Uploading, Removing, GoTo,
            EndRequest
<1>1. ASSUME NEW r \in AvatarRequests, Upload(r) PROVE AvatarTypeOK'
  BY <1>1 DEF Upload
<1>2. ASSUME NEW r \in AvatarRequests, NEW k \in Keys, SaveAvatar(r, k) PROVE AvatarTypeOK'
  BY <1>2 DEF SaveAvatar
<1>3. ASSUME NEW r \in AvatarRequests, UpdateAvatar(r) PROVE AvatarTypeOK'
  BY <1>3 DEF UpdateAvatar
<1>4. ASSUME NEW r \in AvatarRequests, CommitUpload(r) PROVE AvatarTypeOK'
  BY <1>4 DEF CommitUpload
<1>5. ASSUME NEW r \in AvatarRequests, Remove(r) PROVE AvatarTypeOK'
  BY <1>5 DEF Remove
<1>6. ASSUME NEW r \in AvatarRequests, DeleteAvatar(r) PROVE AvatarTypeOK'
  BY <1>6 DEF DeleteAvatar
<1>7. ASSUME NEW r \in AvatarRequests, ReadAgain(r) PROVE AvatarTypeOK'
  BY <1>7 DEF ReadAgain
<1>8. ASSUME NEW r \in AvatarRequests, ClearAvatar(r) PROVE AvatarTypeOK'
  BY <1>8 DEF ClearAvatar
<1>9. ASSUME NEW r \in AvatarRequests, CommitRemoval(r) PROVE AvatarTypeOK'
  BY <1>9 DEF CommitRemoval
<1>10. ASSUME NEW r \in AvatarRequests, AvatarFails(r) PROVE AvatarTypeOK'
  BY <1>10 DEF AvatarFails, Unlinked
<1>11. ASSUME UNCHANGED avatarVars PROVE AvatarTypeOK'
  BY <1>11 DEF avatarVars
<1> QED
  BY <1>1, <1>2, <1>3, <1>4, <1>5, <1>6, <1>7, <1>8, <1>9, <1>10, <1>11 DEF AvatarNext

(* Storing: the name is new to the row and to every request. *)
LEMMA SaveStep ==
    ASSUME AvatarInv, NEW r \in AvatarRequests, NEW k \in Keys, SaveAvatar(r, k)
    PROVE  PendingKeys' /\ KeepsOther' /\ DanglingExplained'
<1> USE NoneAssumption DEF AvatarInv, SaveAvatar, GoTo
<1>1. PendingKeys'
  BY DEF PendingKeys, AvatarTypeOK
<1>2. KeepsOther'
  BY DEF KeepsOther, AvatarTypeOK
<1>3. DanglingExplained'
  BY DEF DanglingExplained, Unlinked, AvatarTypeOK
<1> QED
  BY <1>1, <1>2, <1>3

(* Committing an upload: its file is there, and no removal waits for it.   *)
LEMMA CommitUploadStep ==
    ASSUME AvatarInv, NEW r \in AvatarRequests, CommitUpload(r)
    PROVE  PendingKeys' /\ KeepsOther' /\ DanglingExplained'
<1> USE DEF AvatarInv, CommitUpload, EndRequest, GoTo
<1>1. PendingKeys'
  BY DEF PendingKeys, AvatarTypeOK
<1>2. KeepsOther'
  BY DEF KeepsOther, PendingKeys, AvatarTypeOK
<1>3. DanglingExplained'
  BY DEF DanglingExplained, PendingKeys
<1> QED
  BY <1>1, <1>2, <1>3

(* Deleting: what the row names may be gone now, and this removal says so. *)
LEMMA DeleteStep ==
    ASSUME AvatarInv, NEW r \in AvatarRequests, DeleteAvatar(r)
    PROVE  PendingKeys' /\ KeepsOther' /\ DanglingExplained'
<1> USE DEF AvatarInv, DeleteAvatar, GoTo
<1>1. PendingKeys'
  BY DEF PendingKeys, AvatarTypeOK
<1>2. KeepsOther'
  BY DEF KeepsOther, AvatarTypeOK
<1>3. CASE avatar = key[r]
  BY <1>1, <1>2, <1>3 DEF DanglingExplained, Unlinked, AvatarTypeOK
<1>4. CASE avatar # key[r]
  BY <1>1, <1>2, <1>4 DEF DanglingExplained, Unlinked, AvatarTypeOK
<1> QED
  BY <1>3, <1>4

(* Clearing: the removal either empties the columns, or has not deleted    *)
(* the file that they name.                                                *)
LEMMA CommitRemovalStep ==
    ASSUME AvatarInv, NEW r \in AvatarRequests, CommitRemoval(r)
    PROVE  PendingKeys' /\ KeepsOther' /\ DanglingExplained'
<1> USE DEF AvatarInv, CommitRemoval, EndRequest, GoTo
<1>1. PendingKeys'
  BY DEF PendingKeys, AvatarTypeOK
<1>2. KeepsOther'
  BY DEF KeepsOther, AvatarTypeOK
<1>3. DanglingExplained'
  BY DEF DanglingExplained, Unlinked, KeepsOther, AvatarTypeOK
<1> QED
  BY <1>1, <1>2, <1>3

(* Failing: a removal that has deleted its file is remembered.             *)
LEMMA AvatarFailStep ==
    ASSUME AvatarInv, NEW r \in AvatarRequests, AvatarFails(r)
    PROVE  PendingKeys' /\ KeepsOther' /\ DanglingExplained'
<1> USE DEF AvatarInv, AvatarFails, EndRequest, GoTo
<1>1. PendingKeys'
  BY DEF PendingKeys, AvatarTypeOK
<1>2. KeepsOther'
  BY DEF KeepsOther, AvatarTypeOK
<1>3. DanglingExplained'
  BY DEF DanglingExplained, Unlinked, AvatarTypeOK
<1> QED
  BY <1>1, <1>2, <1>3

LEMMA OtherAvatarSteps ==
    ASSUME AvatarInv, NEW r \in AvatarRequests,
           \/ Upload(r) \/ UpdateAvatar(r) \/ Remove(r)
           \/ ReadAgain(r) \/ ClearAvatar(r)
    PROVE  PendingKeys' /\ KeepsOther' /\ DanglingExplained'
<1> USE DEF AvatarInv, GoTo, Upload, UpdateAvatar, Remove,
            ReadAgain, ClearAvatar
<1>1. PendingKeys'
  BY DEF PendingKeys, AvatarTypeOK
<1>2. KeepsOther'
  BY DEF KeepsOther, AvatarTypeOK
<1>3. DanglingExplained'
  BY DEF DanglingExplained, Unlinked, AvatarTypeOK
<1> QED
  BY <1>1, <1>2, <1>3

LEMMA StepAvatarInv == AvatarInv /\ [AvatarNext]_avatarVars => AvatarInv'
<1> SUFFICES ASSUME AvatarInv, [AvatarNext]_avatarVars
             PROVE  AvatarInv'
  OBVIOUS
<1>1. AvatarTypeOK'
  BY AvatarTypeStep DEF AvatarInv
<1>2. CASE UNCHANGED avatarVars
  BY <1>2 DEF avatarVars, AvatarInv, AvatarTypeOK, PendingKeys, KeepsOther,
         DanglingExplained, Unlinked
<1>3. CASE AvatarNext
  <2>1. PICK r \in AvatarRequests :
          \/ Upload(r) \/ UpdateAvatar(r) \/ CommitUpload(r)
          \/ \E k \in Keys : SaveAvatar(r, k)
          \/ Remove(r) \/ DeleteAvatar(r) \/ ReadAgain(r)
          \/ ClearAvatar(r) \/ CommitRemoval(r) \/ AvatarFails(r)
    BY <1>3 DEF AvatarNext
  <2>2. PendingKeys' /\ KeepsOther' /\ DanglingExplained'
    BY <2>1, SaveStep, CommitUploadStep, DeleteStep, CommitRemovalStep, AvatarFailStep,
       OtherAvatarSteps
  <2> QED
    BY <1>1, <2>2 DEF AvatarInv
<1> QED
  BY <1>2, <1>3

LEMMA AvatarInvariance == AvatarSpec => []AvatarInv
BY InitAvatarInv, StepAvatarInv, PTL DEF AvatarSpec

-----------------------------------------------------------------------------
(* Every variable keeps its type; the storage is only asked to delete      *)
(* what has a name.                                                        *)
THEOREM AvatarTypeCorrect == AvatarSpec => []AvatarTypeOK
<1>1. AvatarInv => AvatarTypeOK
  BY DEF AvatarInv
<1> QED
  BY <1>1, AvatarInvariance, PTL

(* A profile that names a missing file was left so by a removal that       *)
(* failed, or one is about to clear it.                                    *)
THEOREM DanglingAvatarsAreExplained == AvatarSpec => []DanglingExplained
<1>1. AvatarInv => DanglingExplained
  BY DEF AvatarInv
<1> QED
  BY <1>1, AvatarInvariance, PTL

(* No upload is committed without its file. *)
THEOREM UploadsAreServed == AvatarSpec => UploadServed
<1>1. AvatarInv /\ [AvatarNext]_avatarVars =>
        [\A r \in AvatarRequests : CommitUpload(r) => avatar' \in files']_avatarVars
  BY DEF AvatarInv, PendingKeys, CommitUpload
<1> QED
  BY <1>1, AvatarInvariance, PTL DEF AvatarSpec, UploadServed
=============================================================================
