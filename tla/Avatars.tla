-------------------------------- MODULE Avatars -------------------------------
(***************************************************************************)
(* The avatar of one account: a file in the avatar storage and the two     *)
(* avatar columns of the account's profile row, which name it.  An upload  *)
(* stores a file under a fresh name, then updates the row; a removal       *)
(* deletes the file that the row named, then clears the columns.  No       *)
(* transaction covers both stores: a failure rolls the row back and leaves *)
(* the storage as it is.                                                   *)
(***************************************************************************)
CONSTANTS
    Keys,            \* names of files
    AvatarRequests,
    None

ASSUME NoneAssumption == None \notin Keys

VARIABLES
    files,   \* the names under which the storage holds a file
    avatar,  \* the committed avatar_object_key, None for NULL
    used,    \* the names given out so far
    stage,   \* where each request stands
    key,     \* the name that an upload was given, or that a removal read first
    wipes,   \* whether a removal's UPDATE sets the avatar columns to NULL
    broken   \* ghost: names of files that a removal deleted before it failed

avatarVars == <<files, avatar, used, stage, key, wipes, broken>>

Uploading == {"profile", "saved", "written"}
Removing == {"found", "deleted", "reread", "cleared"}

(* delete_avatar is only called with a name. *)
AvatarTypeOK ==
    /\ used \subseteq Keys
    /\ files \subseteq used
    /\ avatar \in used \cup {None}
    /\ broken \subseteq used
    /\ stage \in [AvatarRequests -> {"idle"} \cup Uploading \cup Removing]
    /\ key \in [AvatarRequests -> used \cup {None}]
    /\ \A r \in AvatarRequests :
          stage[r] \in {"found", "saved", "written"} => key[r] # None
    /\ wipes \in [AvatarRequests -> BOOLEAN]

(* A profile without an avatar. *)
AvatarInit ==
    /\ files = {} /\ avatar = None /\ used = {} /\ broken = {}
    /\ stage = [r \in AvatarRequests |-> "idle"]
    /\ key = [r \in AvatarRequests |-> None]
    /\ wipes = [r \in AvatarRequests |-> FALSE]

-----------------------------------------------------------------------------
GoTo(r, next) == stage' = [stage EXCEPT ![r] = next]

EndRequest(r) ==
    /\ GoTo(r, "idle")
    /\ key' = [key EXCEPT ![r] = None]
    /\ wipes' = [wipes EXCEPT ![r] = FALSE]

(* No other open transaction has updated the profile row. *)
ProfileFree(r) ==
    \A other \in AvatarRequests \ {r} : stage[other] \notin {"written", "cleared"}

-----------------------------------------------------------------------------
(* Uploading.  The row that the SELECT finds is not looked at.             *)

Upload(r) ==
    /\ stage[r] = "idle"
    /\ GoTo(r, "profile")
    /\ UNCHANGED <<files, avatar, used, key, wipes, broken>>

(* Slip: the file is named after the account. *)
SaveAvatarUnderOneName(r, k) ==
    /\ stage[r] = "profile"
    /\ files' = files \cup {k}
    /\ used' = used \cup {k}
    /\ key' = [key EXCEPT ![r] = k]
    /\ GoTo(r, "saved")
    /\ UNCHANGED <<avatar, wipes, broken>>

SaveAvatar(r, k) ==
    /\ stage[r] = "profile"
    /\ k \notin used
    /\ files' = files \cup {k}
    /\ used' = used \cup {k}
    /\ key' = [key EXCEPT ![r] = k]
    /\ GoTo(r, "saved")
    /\ UNCHANGED <<avatar, wipes, broken>>

(* The name is new, so that the UPDATE always sets the avatar columns.     *)
UpdateAvatar(r) ==
    /\ stage[r] = "saved"
    /\ ProfileFree(r)
    /\ GoTo(r, "written")
    /\ UNCHANGED <<files, avatar, used, key, wipes, broken>>

CommitUpload(r) ==
    /\ stage[r] = "written"
    /\ avatar' = key[r]
    /\ EndRequest(r)
    /\ UNCHANGED <<files, used, broken>>

-----------------------------------------------------------------------------
(* Removing *)

(* Slip: the storage is called for a profile that has no avatar. *)
RemoveUnasked(r) ==
    /\ stage[r] = "idle"
    /\ key' = [key EXCEPT ![r] = avatar]
    /\ GoTo(r, "found")
    /\ UNCHANGED <<files, avatar, used, wipes, broken>>

Remove(r) ==
    /\ stage[r] = "idle"
    /\ key' = [key EXCEPT ![r] = avatar]
    /\ GoTo(r, IF avatar = None THEN "deleted" ELSE "found")
    /\ UNCHANGED <<files, avatar, used, wipes, broken>>

(* Slip: the account's directory is emptied. *)
DeleteDirectory(r) ==
    /\ stage[r] = "found"
    /\ files' = {}
    /\ GoTo(r, "deleted")
    /\ UNCHANGED <<avatar, used, key, wipes, broken>>

DeleteAvatar(r) ==
    /\ stage[r] = "found"
    /\ files' = files \ {key[r]}
    /\ GoTo(r, "deleted")
    /\ UNCHANGED <<avatar, used, key, wipes, broken>>

(* clear_avatar selects the row again, and assigns NULL to its columns:    *)
(* that is an update of them only if they were not NULL.                   *)
ReadAgain(r) ==
    /\ stage[r] = "deleted"
    /\ wipes' = [wipes EXCEPT ![r] = avatar # None]
    /\ GoTo(r, "reread")
    /\ UNCHANGED <<files, avatar, used, key, broken>>

ClearAvatar(r) ==
    /\ stage[r] = "reread"
    /\ ProfileFree(r)
    /\ GoTo(r, "cleared")
    /\ UNCHANGED <<files, avatar, used, key, wipes, broken>>

CommitRemoval(r) ==
    /\ stage[r] = "cleared"
    /\ avatar' = IF wipes[r] THEN None ELSE avatar
    /\ EndRequest(r)
    /\ UNCHANGED <<files, used, broken>>

-----------------------------------------------------------------------------
(* The file of the key has been deleted and the row still to be cleared. *)
Unlinked(r) == stage[r] \in {"deleted", "reread", "cleared"}

(* An error at any await, or the end of the process: the row is rolled     *)
(* back, the storage is not.                                               *)
AvatarFails(r) ==
    /\ stage[r] # "idle"
    /\ broken' = IF Unlinked(r) /\ key[r] # None THEN broken \cup {key[r]} ELSE broken
    /\ EndRequest(r)
    /\ UNCHANGED <<files, avatar, used>>

AvatarNext ==
    \E r \in AvatarRequests :
        \/ Upload(r) \/ (\E k \in Keys : SaveAvatar(r, k)) \/ UpdateAvatar(r) \/ CommitUpload(r)
        \/ Remove(r) \/ DeleteAvatar(r) \/ ReadAgain(r) \/ ClearAvatar(r) \/ CommitRemoval(r)
        \/ AvatarFails(r)

AvatarSpec == AvatarInit /\ [][AvatarNext]_avatarVars

-----------------------------------------------------------------------------
(* Properties *)

(* The profile names a file that is not there only while the removal that  *)
(* deleted it is under way, or after that removal failed: no interleaving  *)
(* of requests that all succeed leaves a profile with a dead avatar.       *)
DanglingExplained ==
    avatar # None /\ avatar \notin files =>
        avatar \in broken \/ \E r \in AvatarRequests : Unlinked(r) /\ key[r] = avatar

(* The file of an upload is there when its row is committed, whatever was  *)
(* removed since it was stored.                                            *)
UploadServed ==
    [][\A r \in AvatarRequests : CommitUpload(r) => avatar' \in files']_avatarVars

(* "remove avatar deletes storage object and clears profile fields": the   *)
(* file that a removal takes out of the profile is gone.                   *)
RemovalDeletesWhatItClears ==
    [][\A r \in AvatarRequests :
          CommitRemoval(r) /\ avatar # None /\ avatar' = None => avatar \notin files']_avatarVars
=============================================================================
