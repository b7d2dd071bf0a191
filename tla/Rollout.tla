-------------------------------- MODULE Rollout -------------------------------
(***************************************************************************)
(* Deployments of one environment: the workflow's deploy jobs, of which    *)
(* the concurrency group lets one run at a time; the commands they send    *)
(* through SSM, each one run of rollout.sh on the host; and the host, with *)
(* its .env file, its app container and the file current-image.            *)
(*                                                                         *)
(* A job learns of its command by polling for ten minutes.  A command that *)
(* takes longer, or whose job was cancelled or timed out, runs on.         *)
(***************************************************************************)
EXTENDS Deliverables

CONSTANT Commands

ASSUME CommandsAssumption == None \notin Commands

VARIABLES
    envImage,    \* CONTAINER_IMAGE in .env
    running,     \* the image of the app container, None when there is none
    recorded,    \* current-image exists
    current,     \* its content, None when there is none
    cpc,         \* where each run of the script stands
    mode,        \* what it is doing: deploy, restore (after a failed deploy), rollback
    image,       \* the image it is starting
    previous,    \* PREVIOUS_IMAGE, as it printed it
    outcome,     \* how SSM sees it end
    jpc,         \* where the job stands; its result is a place of its own
    jimage,      \* the image it deploys
    jcmd,        \* the command it waits for
    jprev,       \* the previous image, as the job got it
    passed,      \* ghost: images that were running when a health probe passed
    overlapped   \* ghost: two commands were unfinished at once

host == <<envImage, running, recorded, current>>
script == <<cpc, mode, image, previous, outcome>>
job == <<jpc, jimage, jcmd, jprev>>
rolloutVars == <<host, script, job, passed, overlapped>>

Stages == {"ended", "sent", "begun", "configured", "up", "healthy", "truncated"}
Results == {"success", "rolled_back", "rollback_failed"}
Maybe == Images \cup {None}

RolloutTypeOK ==
    /\ envImage \in Maybe /\ running \in Maybe /\ current \in Maybe
    /\ recorded \in BOOLEAN /\ (current # None => recorded)
    /\ cpc \in [Commands -> Stages]
    /\ mode \in [Commands -> {"deploy", "restore", "rollback"}]
    /\ image \in [Commands -> Maybe]
    /\ \A c \in Commands : cpc[c] # "ended" => image[c] \in Images
    /\ previous \in [Commands -> Maybe]
    /\ outcome \in [Commands -> {"none", "success", "failed"}]
    /\ jpc \in {"idle", "waiting", "external", "rollback", "restoring"} \cup Results
    /\ jimage \in Maybe /\ jprev \in Maybe
    /\ jcmd \in Commands \cup {None}
    /\ passed \subseteq Images
    /\ overlapped \in BOOLEAN

(* A host on which nothing was ever deployed. *)
RolloutInit ==
    /\ envImage = None /\ running = None /\ recorded = FALSE /\ current = None
    /\ cpc = [c \in Commands |-> "ended"]
    /\ mode = [c \in Commands |-> "deploy"]
    /\ image = [c \in Commands |-> None]
    /\ previous = [c \in Commands |-> None]
    /\ outcome = [c \in Commands |-> "none"]
    /\ jpc = "idle" /\ jimage = None /\ jcmd = None /\ jprev = None
    /\ passed = {} /\ overlapped = FALSE

-----------------------------------------------------------------------------
(* rollout.sh *)

Go(c, stage) == cpc' = [cpc EXCEPT ![c] = stage]

Start(c) ==
    /\ cpc[c] = "sent"
    /\ \E p \in IF mode[c] = "rollback" THEN {None}
                ELSE IF recorded THEN {current} ELSE {running, None} :
          previous' = [previous EXCEPT ![c] = p]
    /\ Go(c, "begun")
    /\ UNCHANGED <<host, mode, image, outcome, job, passed, overlapped>>

(* bootstrap.sh writes the image into .env; compose pulls and starts what  *)
(* .env says by then.                                                      *)
SetEnv(c) ==
    /\ cpc[c] = "begun"
    /\ envImage' = image[c]
    /\ Go(c, "configured")
    /\ UNCHANGED <<running, recorded, current, mode, image, previous, outcome, job,
                   passed, overlapped>>

ComposeUp(c) ==
    /\ cpc[c] = "configured"
    /\ running' = envImage
    /\ Go(c, "up")
    /\ UNCHANGED <<envImage, recorded, current, mode, image, previous, outcome, job,
                   passed, overlapped>>

(* Slip: a container that came up counts as healthy. *)
ProbeNothing(c) ==
    /\ cpc[c] = "up"
    /\ running # None
    /\ Go(c, "healthy")
    /\ UNCHANGED <<host, mode, image, previous, outcome, job, passed, overlapped>>

(* The super-admin command and the health probe, both run inside whatever  *)
(* app container there is.                                                 *)
Probe(c) ==
    /\ cpc[c] = "up"
    /\ running # None
    /\ passed' = passed \cup {running}
    /\ Go(c, "healthy")
    /\ UNCHANGED <<host, mode, image, previous, outcome, job, overlapped>>

(* The shell truncates current-image before it writes it. *)
Truncate(c) ==
    /\ cpc[c] = "healthy"
    /\ recorded' = TRUE /\ current' = None
    /\ Go(c, "truncated")
    /\ UNCHANGED <<envImage, running, mode, image, previous, outcome, job, passed, overlapped>>

Record(c) ==
    /\ cpc[c] = "truncated"
    /\ current' = image[c]
    /\ outcome' = [outcome EXCEPT ![c] = IF mode[c] = "restore" THEN "failed" ELSE "success"]
    /\ Go(c, "ended")
    /\ UNCHANGED <<envImage, running, recorded, mode, image, previous, job, passed, overlapped>>

Finish(c) ==
    /\ outcome' = [outcome EXCEPT ![c] = "failed"]
    /\ Go(c, "ended")
    /\ UNCHANGED <<mode, image>>

Restore(c) ==
    /\ mode' = [mode EXCEPT ![c] = "restore"]
    /\ image' = [image EXCEPT ![c] = previous[c]]
    /\ Go(c, "begun")
    /\ UNCHANGED outcome

(* Slip: the previous image is taken for granted. *)
CanAlwaysRestore(c) == mode[c] = "deploy"

CanRestore(c) == mode[c] = "deploy" /\ previous[c] # None

(* bootstrap.sh or the probe fails; compose may have stopped the old       *)
(* container by then, and may have started the new one.                    *)
StepFails(c) ==
    /\ cpc[c] \in {"begun", "configured", "up"}
    /\ running' \in IF cpc[c] = "configured" THEN {running, None, envImage} ELSE {running}
    /\ IF CanRestore(c) THEN Restore(c) ELSE Finish(c)
    /\ UNCHANGED <<envImage, recorded, current, previous, job, passed, overlapped>>

(* The command is never delivered, is cancelled, or dies with the host. *)
Die(c) ==
    /\ cpc[c] # "ended"
    /\ Finish(c)
    /\ UNCHANGED <<host, previous, job, passed, overlapped>>

-----------------------------------------------------------------------------
(* deploy-app.yml *)

Send(c, what, i) ==
    /\ cpc[c] = "ended"
    /\ Go(c, "sent")
    /\ mode' = [mode EXCEPT ![c] = what]
    /\ image' = [image EXCEPT ![c] = i]
    /\ previous' = [previous EXCEPT ![c] = None]
    /\ outcome' = [outcome EXCEPT ![c] = "none"]
    /\ jcmd' = c
    /\ overlapped' = (overlapped \/ \E other \in Commands : cpc[other] # "ended")
    /\ UNCHANGED <<host, passed>>

BeginDeploy(c, i) ==
    /\ jpc = "idle"
    /\ Send(c, "deploy", i)
    /\ jpc' = "waiting" /\ jimage' = i /\ jprev' = None

Move(place) == jpc' = place /\ UNCHANGED <<host, script, jimage, jcmd, passed, overlapped>>

SeeSuccess ==
    /\ jpc = "waiting"
    /\ outcome[jcmd] = "success"
    /\ jprev' = previous[jcmd]
    /\ Move("external")

(* Also a success is taken for a failure: the command does more after the  *)
(* script, and its output may not arrive, or not in full.                  *)
SeeFailure ==
    /\ jpc = "waiting"
    /\ cpc[jcmd] = "ended"
    /\ jprev' \in {previous[jcmd], None}
    /\ Move("rollback")

(* The last poll found the command unfinished, and no output; or one poll  *)
(* found it being cancelled, with the output it had so far.                *)
GiveUp ==
    /\ jpc = "waiting"
    /\ cpc[jcmd] # "ended"
    /\ jprev' \in {previous[jcmd], None}
    /\ Move("rollback")

ExternalHealth ==
    /\ jpc = "external"
    /\ \E place \in {"success", "rollback"} : Move(place)
    /\ UNCHANGED jprev

SendRollback(c) ==
    /\ jpc = "rollback"
    /\ jprev # None
    /\ Send(c, "rollback", jprev)
    /\ jpc' = "restoring"
    /\ UNCHANGED <<jimage, jprev>>

(* Slip: the job takes the end of its command for success. *)
SeeEnded ==
    /\ jpc = "restoring"
    /\ cpc[jcmd] = "ended"
    /\ Move("rolled_back")
    /\ UNCHANGED jprev

SeeRestored ==
    /\ jpc = "restoring"
    /\ outcome[jcmd] = "success"
    /\ Move("rolled_back")
    /\ UNCHANGED jprev

(* No previous image, no command sent, or no success seen of it. *)
NotRestored ==
    /\ jpc \in {"rollback", "restoring"}
    /\ Move("rollback_failed")
    /\ UNCHANGED jprev

(* A job reports its result, or it is lost with its runner. *)
EndJob ==
    /\ jpc # "idle"
    /\ Move("idle")
    /\ UNCHANGED jprev

-----------------------------------------------------------------------------
RolloutNext ==
    \/ \E c \in Commands :
          \/ Start(c) \/ SetEnv(c) \/ ComposeUp(c) \/ Probe(c) \/ Truncate(c) \/ Record(c)
          \/ StepFails(c) \/ Die(c)
          \/ (\E i \in Images : BeginDeploy(c, i)) \/ SendRollback(c)
    \/ SeeSuccess \/ SeeFailure \/ GiveUp \/ ExternalHealth \/ SeeRestored \/ NotRestored
    \/ EndJob

RolloutSpec == RolloutInit /\ [][RolloutNext]_rolloutVars

-----------------------------------------------------------------------------
(* Properties *)

(* The image is in the container, in .env and in current-image, and it     *)
(* passed a health probe.                                                  *)
Deployed(i) ==
    /\ i \in passed
    /\ running = i /\ envImage = i /\ current = i

(* What a job reports is how the host is, as long as commands never        *)
(* overlapped, whatever scripts or jobs died on the way.                   *)
ResultIsTrue ==
    ~overlapped =>
        /\ jpc = "success" => Deployed(jimage)
        /\ jpc = "rolled_back" => Deployed(jprev)

(* The image that a later deployment would go back to once passed its      *)
(* health probe, whatever failed since.                                    *)
CurrentPassed == ~overlapped /\ current # None => current \in passed

(* "Digest running after health/rollback": the digest that a successful    *)
(* job names is the one that was probed.                                   *)
DeployedPassed == jpc = "success" => jimage \in passed

(* "Digest running before this rollout": with one script at a time, the    *)
(* digest that a deployment prints is no other than the one that runs.     *)
PreviousWasRunning ==
    [][\A c \in Commands :
          Start(c) /\ ~overlapped /\ running # None => previous'[c] \in {running, None}]_rolloutVars
=============================================================================
