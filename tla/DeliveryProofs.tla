----------------------------- MODULE DeliveryProofs ---------------------------
(***************************************************************************)
(* Proofs about the way of a commit to a host.                             *)
(*                                                                         *)
(* About ReleaseGate, for any commits, images, findings and runs: what is  *)
(* sent was approved for its commit, a commit has one image, and automatic *)
(* deployments only go forward.                                            *)
(*                                                                         *)
(* About Rollout, for any images and commands: the result of a job is      *)
(* true, and the recorded image passed its probe, as long as no two        *)
(* commands were unfinished at once.                                       *)
(***************************************************************************)
EXTENDS ReleaseGate, Rollout, TLAPS

-----------------------------------------------------------------------------
(* The gate *)

(* The exceptions of a commit excused a report on the day it was judged.   *)
Approves(s, report, day) ==
    /\ s \notin Malformed
    /\ \A f \in report : Blocking(f) =>
          \E x \in Exceptions[s] : Covers(x, f) /\ x.expires >= day

(* What a job at some stage, for commit s, may rely on: the index it works *)
(* on is the one under the commit's tag, and it has passed the steps so    *)
(* far.                                                                    *)
Knows(stage, s, l) ==
    /\ stage \in {"scan", "policy", "poll", "store"} => l.top # None /\ l.top = tag[s]
    /\ stage \in {"policy", "poll", "store"} => OnePlatform(l.top)
    /\ stage \in {"poll", "store"} => Attested(l.top) /\ Approves(s, l.report, l.judged)
    /\ stage = "store" => signing[Platform(l.top)] = "COMPLETE"
    /\ stage \in {"gate", "resolve", "build", "scan", "policy"} => l.polls = 0
    /\ stage = "poll" => l.polls < Attempts

JobsKnow == \A r \in Runs : Knows(rpc[r], rsource[r], local[r])

StoredIsApproved == \A r \in Runs : \A e \in artifact[r] : ApprovedBy(e)

(* What a deploy job accepted is still there and is about its inputs.      *)
AcceptedFits ==
    dpc = "accepted" =>
        /\ input.hash \in Stored
        /\ input.hash.source = input.source /\ input.hash.image = input.image

(* An automatic job's commit was the head, and nothing newer was sent      *)
(* automatically since it began.                                           *)
Forward ==
    /\ lastAuto <= head
    /\ dpc = "accepted" /\ auto => lastAuto <= input.source /\ input.source <= head

IInv ==
    /\ ReleaseTypeOK
    /\ JobsKnow
    /\ StoredIsApproved
    /\ SentIsApproved
    /\ AcceptedFits
    /\ Forward

-----------------------------------------------------------------------------
(* Operators *)

(* The platform of an index that names one image is that image. *)
LEMMA PlatformIsTheImage ==
    ASSUME NEW x, NEW i \in Images, Manifest[x].platforms = {i}
    PROVE  OnePlatform(x) /\ Platform(x) = i
<1>1. \A j \in Images : Manifest[x].platforms = {j} => j = i
  OBVIOUS
<1> QED
  BY <1>1 DEF OnePlatform, Platform

LEMMA PlatformType ==
    ASSUME NEW x, OnePlatform(x)
    PROVE  Platform(x) \in Images /\ Manifest[x].platforms = {Platform(x)}
BY PlatformIsTheImage DEF OnePlatform

(* A registry without expired entries approves whatever it excuses today.  *)
LEMMA EnforcedIsApproved ==
    ASSUME NEW s, NEW report, EnforceFindings(s, report)
    PROVE  Approves(s, report, today)
BY DEF EnforceFindings, RegistryValid, Excused, Approves

LEMMA BlankIsLocal == Blank \in Local
BY ReleaseAssumption DEF Blank, Local

(* Tags that are set stay as they are, and complete signatures stay        *)
(* complete: the two facts about ECR that evidence rests on.               *)
Kept ==
    /\ \A s \in Sources : tag[s] # None => tag'[s] = tag[s]
    /\ \A i \in Images : signing[i] = "COMPLETE" => signing'[i] = "COMPLETE"

LEMMA ApprovalStands ==
    ASSUME Kept, NEW e \in Evidence, ApprovedBy(e)
    PROVE  ApprovedBy(e)'
BY DEF Kept, ApprovedBy, Evidence

LEMMA KnowledgeStands ==
    ASSUME Kept, NEW stage, NEW s \in Sources, NEW l \in Local, Knows(stage, s, l)
    PROVE  Knows(stage, s, l)'
<1>1. OnePlatform(l.top) => Platform(l.top) \in Images
  BY PlatformType
<1>2. OnePlatform(l.top)' = OnePlatform(l.top) /\ Attested(l.top)' = Attested(l.top)
      /\ Platform(l.top)' = Platform(l.top)
  BY DEF OnePlatform, Attested, Platform
<1>3. Approves(s, l.report, l.judged)' = Approves(s, l.report, l.judged)
  BY DEF Approves, Blocking, Severe, Covers
<1> HIDE DEF OnePlatform, Attested, Platform, Approves
<1> QED
  BY <1>1, <1>2, <1>3 DEF Kept, Knows

(* What was stored stays stored, so what was approved and sent stays so.   *)
LEMMA StoredStands ==
    ASSUME ReleaseTypeOK, Kept, \A r \in Runs : artifact[r] \subseteq artifact'[r]
    PROVE  /\ Stored \subseteq Stored'
           /\ SentIsApproved /\ UNCHANGED sent => SentIsApproved'
           /\ AcceptedFits /\ UNCHANGED deploy => AcceptedFits'
<1>1. Stored \subseteq Stored' /\ Stored \subseteq Evidence
  BY DEF Stored, ReleaseTypeOK
<1>2. \A e \in Stored : ApprovedBy(e) => ApprovedBy(e)'
  BY <1>1, ApprovalStands
<1> HIDE DEF Stored, ApprovedBy
<1> QED
  BY <1>1, <1>2 DEF SentIsApproved, AcceptedFits, deploy

-----------------------------------------------------------------------------
LEMMA InitIInv == Init => IInv
<1> SUFFICES ASSUME Init
             PROVE  IInv
  OBVIOUS
<1> USE DEF Init
<1>1. ReleaseTypeOK
  <2>1. head \in Sources /\ 1 \in Sources /\ lastAuto \in 0..NumSources /\ today \in Nat
    BY ReleaseAssumption DEF Sources
  <2>2. signing \in [Images -> Statuses] /\ rpc \in [Runs -> Ended \cup Steps]
    BY DEF Statuses, Ended
  <2>3. local \in [Runs -> Local]
    BY BlankIsLocal
  <2> QED
    BY <2>1, <2>2, <2>3 DEF ReleaseTypeOK
<1>2. JobsKnow /\ StoredIsApproved /\ SentIsApproved /\ AcceptedFits
  BY DEF JobsKnow, Knows, StoredIsApproved, SentIsApproved, AcceptedFits
<1>3. Forward
  BY DEF Forward
<1> QED
  BY <1>1, <1>2, <1>3 DEF IInv

-----------------------------------------------------------------------------
(* The steps of a release run.  Each takes one run to a stage with what it *)
(* then knows; tags may be set, and evidence may be added.                 *)

LEMMA RunMoves ==
    ASSUME IInv, NEW r \in Runs, NEW stage \in Ended \cup Steps, NEW l \in Local, NEW s \in Sources,
           NEW added \in SUBSET Evidence,
           Become(r, stage, l),
           rsource' = [rsource EXCEPT ![r] = s],
           artifact' = [artifact EXCEPT ![r] = @ \cup added],
           tag' \in [Sources -> Indexes \cup {None}], Kept,
           Knows(stage, s, l)',
           \A e \in added : ApprovedBy(e)'
    PROVE  IInv'
<1> USE DEF IInv
<1>1. /\ UNCHANGED <<world, deploy>>
      /\ rpc' = [rpc EXCEPT ![r] = stage]
      /\ local' = [local EXCEPT ![r] = IF stage \in Ended THEN Blank ELSE l]
  BY DEF Become
<1>2. JobsKnow'
  <2>1. ASSUME NEW q \in Runs, q # r,
               NEW a, a = rpc[q], NEW b, b = rsource[q], NEW c, c = local[q]
        PROVE  /\ Knows(a, b, c)'
               /\ rpc'[q] = a /\ rsource'[q] = b /\ local'[q] = c
    <3>1. b \in Sources /\ c \in Local /\ Knows(a, b, c)
      BY <2>1 DEF ReleaseTypeOK, JobsKnow
    <3> QED
      BY <1>1, <2>1, <3>1, KnowledgeStands DEF ReleaseTypeOK
  <2>2. rpc'[r] = stage /\ rsource'[r] = s /\ (stage \notin Ended => local'[r] = l)
    BY <1>1 DEF ReleaseTypeOK
  <2> QED
    BY <2>1, <2>2 DEF JobsKnow, Knows, Ended
<1>3. ReleaseTypeOK'
  <2>1. \A q \in Runs : rpc'[q] \in {"scan", "policy", "poll", "store"} => local'[q].top # None
    BY <1>2 DEF JobsKnow, Knows
  <2>2. rpc' \in [Runs -> Ended \cup Steps] /\ local' \in [Runs -> Local]
        /\ rsource' \in [Runs -> Sources]
    BY <1>1, BlankIsLocal DEF ReleaseTypeOK
  <2>3. artifact' \in [Runs -> SUBSET Evidence]
    BY DEF ReleaseTypeOK
  <2> QED
    BY <1>1, <2>1, <2>2, <2>3 DEF ReleaseTypeOK, world, deploy
<1>4. StoredIsApproved'
  <2>1. ASSUME NEW q \in Runs, NEW e \in artifact'[q]
        PROVE  ApprovedBy(e)'
    <3>1. CASE e \in artifact[q]
      BY <3>1, ApprovalStands DEF ReleaseTypeOK, StoredIsApproved
    <3>2. CASE e \in added
      BY <3>2
    <3> QED
      BY <3>1, <3>2 DEF ReleaseTypeOK
  <2> QED
    BY <2>1 DEF StoredIsApproved
<1>5. SentIsApproved' /\ AcceptedFits'
  <2>1. \A q \in Runs : artifact[q] \subseteq artifact'[q]
    BY DEF ReleaseTypeOK
  <2> QED
    BY <1>1, <2>1, StoredStands DEF deploy
<1>6. Forward'
  BY <1>1 DEF Forward, world, deploy
<1> QED
  BY <1>2, <1>3, <1>4, <1>5, <1>6

(* Most steps leave the run its commit and its artifact. *)
LEMMA RunMovesOn ==
    ASSUME IInv, NEW r \in Runs, NEW stage \in Ended \cup Steps, NEW l \in Local, NEW s \in Sources,
           s = rsource[r], UNCHANGED <<rsource, artifact>>,
           Become(r, stage, l),
           tag' \in [Sources -> Indexes \cup {None}], Kept,
           Knows(stage, s, l)'
    PROVE  IInv'
<1>1. PICK none \in SUBSET Evidence : none = {}
  OBVIOUS
<1>2. rsource' = [rsource EXCEPT ![r] = s] /\ artifact' = [artifact EXCEPT ![r] = @ \cup none]
  BY <1>1 DEF IInv, ReleaseTypeOK
<1>3. \A e \in none : ApprovedBy(e)'
  BY <1>1
<1> QED
  BY <1>2, <1>3, RunMoves

LEMMA StartRunStep == ASSUME IInv, NEW r \in Runs, StartRun(r) PROVE IInv'
<1> SUFFICES ASSUME NEW s \in Sources, s = head, NEW l \in Local, l = Blank
             PROVE  IInv'
  BY BlankIsLocal DEF IInv, ReleaseTypeOK
<1>1. Become(r, "gate", l) /\ rsource' = [rsource EXCEPT ![r] = s] /\ UNCHANGED <<tag, artifact>>
  BY DEF StartRun
<1>2. PICK none \in SUBSET Evidence : none = {}
  OBVIOUS
<1>3. artifact' = [artifact EXCEPT ![r] = @ \cup none] /\ tag' \in [Sources -> Indexes \cup {None}]
  BY <1>1, <1>2 DEF IInv, ReleaseTypeOK
<1>4. \A e \in none : ApprovedBy(e)'
  BY <1>2
<1>5. Kept /\ Knows("gate", s, l)'
  BY <1>1 DEF Kept, Knows, Become, Blank, world
<1> QED
  BY <1>1, <1>3, <1>4, <1>5, RunMoves DEF Steps

(* What a step of a run needs of the state before it. *)
LEMMA BeforeStep ==
    ASSUME IInv, NEW r \in Runs
    PROVE  /\ rsource[r] \in Sources /\ local[r] \in Local /\ Knows(rpc[r], rsource[r], local[r])
           /\ tag \in [Sources -> Indexes \cup {None}] /\ signing \in [Images -> Statuses]
           /\ known \subseteq Findings /\ today \in Nat
BY DEF IInv, ReleaseTypeOK, JobsKnow

LEMMA RepositoryGateStep == ASSUME IInv, NEW r \in Runs, RepositoryGate(r) PROVE IInv'
<1> SUFFICES ASSUME NEW s \in Sources, s = rsource[r], NEW l \in Local, l = local[r],
                    NEW stage \in {"resolve", "failed"}, Become(r, stage, l)
             PROVE  IInv'
  BY BeforeStep DEF RepositoryGate
<1>1. UNCHANGED <<tag, rsource, artifact>> /\ stage \in Ended \cup Steps /\ l.polls = 0
  BY BeforeStep DEF RepositoryGate, Ended, Steps, Knows
<1>2. Kept /\ Knows(stage, s, l)'
  BY <1>1 DEF Kept, Knows, Become, world
<1> QED
  BY <1>1, <1>2, BeforeStep, RunMovesOn

LEMMA ResolveStep == ASSUME IInv, NEW r \in Runs, Resolve(r) PROVE IInv'
<1> SUFFICES ASSUME NEW s \in Sources, s = rsource[r], NEW k \in Local, k = local[r]
             PROVE  IInv'
  BY BeforeStep
<1>1. UNCHANGED <<tag, rsource, artifact>> /\ rpc[r] = "resolve"
  BY DEF Resolve
<1>2. ASSUME NEW l, l = [k EXCEPT !.top = tag[s]], tag[s] # None, Become(r, "scan", l)
      PROVE  IInv'
  <2>1. l \in Local /\ l.top = tag[s] /\ l.polls = k.polls
    BY <1>2, BeforeStep DEF Local
  <2>2. Kept /\ Knows("scan", s, l)'
    BY <1>1, <1>2, <2>1, BeforeStep DEF Kept, Knows, Become, world
  <2> QED
    BY <1>1, <1>2, <2>1, <2>2, BeforeStep, RunMovesOn DEF Steps
<1>3. ASSUME Become(r, "build", k)
      PROVE  IInv'
  <2>1. Kept /\ Knows("build", s, k)'
    BY <1>1, <1>3, BeforeStep DEF Kept, Knows, Become, world
  <2> QED
    BY <1>1, <1>3, <2>1, BeforeStep, RunMovesOn DEF Steps
<1> QED
  BY <1>2, <1>3 DEF Resolve

(* A push that is admitted sets the tag or repeats it. *)
LEMMA BuildStep == ASSUME IInv, NEW r \in Runs, Build(r) PROVE IInv'
<1> SUFFICES ASSUME NEW s \in Sources, s = rsource[r], NEW k \in Local, k = local[r]
             PROVE  IInv'
  BY BeforeStep
<1>1. UNCHANGED <<rsource, artifact>> /\ rpc[r] = "build" /\ k.polls = 0
  BY BeforeStep DEF Build, Knows
<1>2. ASSUME NEW x \in Indexes, MayPush(s, x), tag' = [tag EXCEPT ![s] = x],
             NEW l, l = [k EXCEPT !.top = x], Become(r, "scan", l)
      PROVE  IInv'
  <2>1. l \in Local /\ l.top = x /\ x # None /\ l.polls = k.polls
    BY <1>2, ReleaseAssumption DEF Local
  <2>2. tag' \in [Sources -> Indexes \cup {None}] /\ tag'[s] = x
    BY <1>2, BeforeStep
  <2>3. Kept
    BY <1>2, BeforeStep DEF Kept, MayPush, Become, world
  <2>4. Knows("scan", s, l)'
    BY <1>1, <2>1, <2>2 DEF Knows
  <2> QED
    BY <1>1, <1>2, <2>1, <2>2, <2>3, <2>4, RunMovesOn DEF Steps
<1>3. ASSUME NEW l \in Local, Become(r, "unreleased", l), UNCHANGED tag
      PROVE  IInv'
  <2>1. Kept /\ Knows("unreleased", s, l)'
    BY <1>3 DEF Kept, Knows, Become, world
  <2> QED
    BY <1>1, <1>3, <2>1, BeforeStep, RunMovesOn DEF Ended
<1> QED
  BY <1>2, <1>3, BlankIsLocal DEF Build

(* A job that ends without a result, or is about to begin, knows nothing.  *)
LEMMA BlankStep ==
    ASSUME IInv, NEW r \in Runs, NEW stage \in {"failed", "unreleased", "resolve"},
           Become(r, stage, Blank), UNCHANGED <<tag, rsource, artifact>>
    PROVE  IInv'
<1> SUFFICES ASSUME NEW s \in Sources, s = rsource[r], NEW l \in Local, l = Blank
             PROVE  IInv'
  BY BeforeStep, BlankIsLocal
<1>1. Kept /\ Knows(stage, s, l)'
  BY DEF Kept, Knows, Become, world, Blank
<1> QED
  BY <1>1, BeforeStep, RunMovesOn DEF Ended, Steps

LEMMA ScanStep == ASSUME IInv, NEW r \in Runs, Scan(r) PROVE IInv'
<1> SUFFICES ASSUME NEW s \in Sources, s = rsource[r], NEW k \in Local, k = local[r]
             PROVE  IInv'
  BY BeforeStep
<1>1. UNCHANGED <<tag, rsource, artifact>> /\ rpc[r] = "scan"
  BY DEF Scan
<1>2. ASSUME NEW report \in SUBSET Findings, OnePlatform(k.top),
             NEW l, l = [k EXCEPT !.report = report], Become(r, "policy", l)
      PROVE  IInv'
  <2>1. l \in Local /\ l.top = k.top /\ l.polls = k.polls
    BY <1>2 DEF Local
  <2>2. k.top # None /\ k.top = tag[s] /\ k.polls = 0
    BY <1>1, BeforeStep DEF Knows
  <2>3. Kept /\ Knows("policy", s, l)'
    BY <1>1, <1>2, <2>1, <2>2 DEF Kept, Knows, Become, world, OnePlatform
  <2> QED
    BY <1>1, <1>2, <2>1, <2>3, BeforeStep, RunMovesOn DEF Steps
<1> QED
  BY <1>1, <1>2, BlankStep, BeforeStep DEF Scan

LEMMA PolicyStep == ASSUME IInv, NEW r \in Runs, Policy(r) PROVE IInv'
<1> SUFFICES ASSUME NEW s \in Sources, s = rsource[r], NEW k \in Local, k = local[r]
             PROVE  IInv'
  BY BeforeStep
<1>1. UNCHANGED <<tag, rsource, artifact>> /\ rpc[r] = "policy"
  BY DEF Policy
<1>2. ASSUME Attested(k.top), EnforceFindings(s, k.report),
             NEW day, day = today,
             NEW l, l = [k EXCEPT !.judged = day], Become(r, "poll", l)
      PROVE  IInv'
  <2>1. l \in Local /\ l.top = k.top /\ l.report = k.report /\ l.judged = day /\ l.polls = k.polls
    BY <1>2, BeforeStep DEF Local
  <2>2. k.top # None /\ k.top = tag[s] /\ OnePlatform(k.top) /\ k.polls = 0
    BY <1>1, BeforeStep DEF Knows
  <2>3. Approves(s, k.report, day)
    BY <1>2, EnforcedIsApproved
  <2>4. Kept
    BY <1>1, <1>2 DEF Kept, Become, world
  <2>5. 0 < Attempts
    BY ReleaseAssumption
  <2>6. Knows("poll", s, l)'
    BY <1>1, <1>2, <2>1, <2>2, <2>3, <2>5 DEF Knows
  <2> QED
    BY <1>1, <1>2, <2>1, <2>4, <2>6, BeforeStep, RunMovesOn DEF Steps
<1> QED
  BY <1>1, <1>2, BlankStep, BeforeStep DEF Policy

LEMMA WaitForSignatureStep == ASSUME IInv, NEW r \in Runs, WaitForSignature(r) PROVE IInv'
<1> SUFFICES ASSUME NEW s \in Sources, s = rsource[r], NEW k \in Local, k = local[r],
                    NEW polls, polls = k.polls + 1,
                    NEW l, l = [k EXCEPT !.polls = polls],
                    NEW stage \in {"store", "unreleased", "poll"}, Become(r, stage, l),
                    stage = "store" => signing[Platform(k.top)] = "COMPLETE",
                    stage = "poll" => polls # Attempts
             PROVE  IInv'
  BY BeforeStep DEF WaitForSignature
<1>1. UNCHANGED <<tag, rsource, artifact>> /\ rpc[r] = "poll"
  BY DEF WaitForSignature
<1>2. /\ k.top # None /\ k.top = tag[s] /\ OnePlatform(k.top) /\ k.polls < Attempts
      /\ Attested(k.top) /\ Approves(s, k.report, k.judged)
  BY <1>1, BeforeStep DEF Knows
<1>3. polls \in 0..Attempts /\ (stage = "poll" => polls < Attempts)
  <2>1. k.polls \in 0..Attempts
    BY DEF Local
  <2>2. Attempts \in Nat
    BY ReleaseAssumption
  <2>3. k.polls < Attempts
    BY <1>2
  <2> QED
    BY <2>1, <2>2, <2>3
<1>4. /\ l \in Local /\ l.top = k.top /\ l.report = k.report /\ l.judged = k.judged
      /\ l.polls = polls
  BY <1>3 DEF Local
<1>5. Kept /\ Knows(stage, s, l)'
  BY <1>1, <1>2, <1>3, <1>4
     DEF Kept, Knows, Become, world, OnePlatform, Attested, Platform, Approves, Blocking,
         Severe, Covers
<1> QED
  BY <1>1, <1>4, <1>5, BeforeStep, RunMovesOn DEF Steps, Ended

(* The document says what the job knows, and all of it still holds.        *)
LEMMA StoreEvidenceStep == ASSUME IInv, NEW r \in Runs, StoreEvidence(r) PROVE IInv'
<1> SUFFICES ASSUME NEW s \in Sources, s = rsource[r], NEW k \in Local, k = local[r],
                    NEW i, i = Platform(k.top),
                    NEW e, e = [source |-> s, image |-> i, judged |-> k.judged,
                                scanned |-> k.report,
                                predicates |-> Manifest[k.top].attested[i],
                                status |-> "COMPLETE"],
                    NEW l \in Local, l = Blank
             PROVE  IInv'
  BY BeforeStep, BlankIsLocal
<1>1. /\ Become(r, "done", l) /\ UNCHANGED <<tag, rsource>> /\ rpc[r] = "store"
      /\ artifact' = [artifact EXCEPT ![r] = @ \cup {e}]
  BY DEF StoreEvidence
<1>2. /\ k.top # None /\ k.top = tag[s] /\ OnePlatform(k.top)
      /\ Attested(k.top) /\ Approves(s, k.report, k.judged) /\ signing[i] = "COMPLETE"
  BY <1>1, BeforeStep DEF Knows
<1>3. k.top \in Indexes /\ i \in Images /\ Manifest[k.top].platforms = {i}
  BY <1>2, PlatformType DEF Local
<1>4. e \in Evidence
  BY <1>3, ReleaseAssumption DEF Evidence, Local, Statuses
<1>5. Kept /\ Knows("done", s, l)' /\ tag' \in [Sources -> Indexes \cup {None}]
  BY <1>1, BeforeStep DEF Kept, Knows, Become, world
<1>6. ApprovedBy(e)'
  BY <1>1, <1>2, <1>3 DEF ApprovedBy, Approves, Attested, Become, world
<1>7. rsource' = [rsource EXCEPT ![r] = s]
  BY <1>1 DEF IInv, ReleaseTypeOK
<1>8. PICK added \in SUBSET Evidence : added = {e}
  BY <1>4
<1> QED
  BY <1>1, <1>5, <1>6, <1>7, <1>8, RunMoves DEF Ended

LEMMA RerunReleaseStep == ASSUME IInv, NEW r \in Runs, RerunRelease(r) PROVE IInv'
BY BlankStep DEF RerunRelease

LEMMA LoseRunStep == ASSUME IInv, NEW r \in Runs, LoseRun(r) PROVE IInv'
BY BlankStep DEF LoseRun

-----------------------------------------------------------------------------
(* The deploy jobs and the world: no run moves. *)

LEMMA StartDeployStep == ASSUME IInv, StartDeploy PROVE IInv'
<1> USE DEF IInv
<1>1. UNCHANGED <<world, release, sent, lastAuto>> /\ dpc' = "accepted"
  BY DEF StartDeploy
<1>2. PICK r \in Runs, q \in Runs, s \in Sources, i \in Images : \E hash \in artifact[r] :
         LET in == [source |-> s, image |-> i, run |-> q, hash |-> hash] IN
         /\ \E e \in artifact[q] : EvidenceFits(e, in)
         /\ input' = in
         /\ auto' \in BOOLEAN
         /\ auto' => s = head
  BY DEF StartDeploy, NotStale
<1>3. PICK hash \in artifact[r] :
         /\ \E e \in artifact[q] : e = hash /\ e.source = s /\ e.image = i
         /\ input' = [source |-> s, image |-> i, run |-> q, hash |-> hash]
         /\ auto' \in BOOLEAN
         /\ auto' => s = head
  BY <1>2 DEF EvidenceFits
<1>4. ReleaseTypeOK'
  BY <1>1, <1>3 DEF ReleaseTypeOK, world, release
<1>5. Stored' = Stored /\ hash \in Stored
  BY <1>1, <1>3 DEF Stored, release
<1>6. AcceptedFits' /\ Forward'
  BY <1>1, <1>3, <1>5 DEF AcceptedFits, Forward, ReleaseTypeOK, world, Sources
<1>7. JobsKnow' /\ StoredIsApproved'
  BY <1>1 DEF JobsKnow, Knows, StoredIsApproved, ApprovedBy, world, release
<1>8. SentIsApproved'
  BY <1>1, <1>5 DEF SentIsApproved, ApprovedBy, world, release
<1> QED
  BY <1>4, <1>6, <1>7, <1>8

LEMMA RevalidateStep == ASSUME IInv, Revalidate PROVE IInv'
<1> USE DEF IInv
<1>1. UNCHANGED <<world, release>> /\ dpc = "accepted" /\ dpc' = "idle" /\ input' = None /\ auto' = FALSE
  BY DEF Revalidate
<1>2. input.source \in Sources /\ input.image \in Images
  BY <1>1 DEF ReleaseTypeOK
<1>3. ReleaseTypeOK'
  <2>1. sent' \subseteq Sources \X Images
    BY <1>2 DEF Revalidate, ReleaseTypeOK
  <2>2. lastAuto' \in 0..NumSources
    BY <1>2 DEF Revalidate, ReleaseTypeOK, Sources
  <2> QED
    BY <1>1, <2>1, <2>2 DEF ReleaseTypeOK, world, release
<1>4. AcceptedFits' /\ Forward'
  BY <1>1 DEF Revalidate, AcceptedFits, Forward, world
<1>5. JobsKnow' /\ StoredIsApproved'
  BY <1>1 DEF JobsKnow, Knows, StoredIsApproved, ApprovedBy, world, release
<1>6. SentIsApproved'
  <2>1. Stored' = Stored
    BY <1>1 DEF Stored, release
  <2>2. \A e : ApprovedBy(e)' = ApprovedBy(e)
    BY <1>1 DEF ApprovedBy, world, release
  <2>3. input.hash \in Stored /\ ApprovedBy(input.hash)
    BY <1>1 DEF AcceptedFits, StoredIsApproved, Stored
  <2>4. sent' \subseteq sent \cup {<<input.source, input.image>>}
    BY DEF Revalidate
  <2> HIDE DEF ApprovedBy, Stored
  <2> QED
    BY <1>1, <2>1, <2>2, <2>3, <2>4 DEF SentIsApproved, AcceptedFits
<1> QED
  BY <1>3, <1>4, <1>5, <1>6

LEMMA WorldStep == ASSUME IInv, World PROVE IInv'
<1> USE DEF IInv
<1>1. UNCHANGED <<release, deploy>>
  BY DEF World
<1>2. Kept
  BY <1>1 DEF World, PassDay, MergeToMain, Disclose, Sign, Kept, ReleaseTypeOK, release
<1>3. /\ today' \in Nat /\ head' \in Sources /\ head <= head' /\ known' \subseteq Findings
      /\ signing' \in [Images -> Statuses]
  <2>1. CASE PassDay
    BY <2>1 DEF PassDay, ReleaseTypeOK, Sources
  <2>2. CASE MergeToMain
    BY <2>2, ReleaseAssumption DEF MergeToMain, ReleaseTypeOK, Sources
  <2>3. CASE Disclose
    BY <2>3 DEF Disclose, ReleaseTypeOK, Sources
  <2>4. CASE Sign
    BY <2>4 DEF Sign, ReleaseTypeOK, Sources, Statuses
  <2> QED
    BY <2>1, <2>2, <2>3, <2>4 DEF World
<1>4. ReleaseTypeOK'
  BY <1>1, <1>3 DEF ReleaseTypeOK, release, deploy
<1>5. JobsKnow'
  <2>1. ASSUME NEW q \in Runs,
               NEW a, a = rpc[q], NEW b, b = rsource[q], NEW c, c = local[q]
        PROVE  Knows(a, b, c)'
    BY <1>2, <2>1, BeforeStep, KnowledgeStands
  <2> QED
    BY <1>1, <2>1 DEF JobsKnow, Knows, release
<1>6. StoredIsApproved'
  BY <1>1, <1>2, ApprovalStands DEF StoredIsApproved, ReleaseTypeOK, release
<1>7. SentIsApproved' /\ AcceptedFits'
  BY <1>1, <1>2, StoredStands DEF release, deploy
<1>8. Forward'
  BY <1>1, <1>3 DEF Forward, ReleaseTypeOK, Sources, deploy
<1> QED
  BY <1>4, <1>5, <1>6, <1>7, <1>8

-----------------------------------------------------------------------------
LEMMA StepIInv == IInv /\ [Next]_vars => IInv'
<1> SUFFICES ASSUME IInv, [Next]_vars
             PROVE  IInv'
  OBVIOUS
<1>1. CASE UNCHANGED vars
  <2> USE <1>1 DEF IInv, vars, world, release, deploy
  <2>1. Stored' = Stored
    BY DEF Stored
  <2>2. ReleaseTypeOK' /\ Forward'
    BY DEF ReleaseTypeOK, Forward
  <2>3. JobsKnow'
    BY DEF JobsKnow, Knows
  <2>4. \A e : ApprovedBy(e)' = ApprovedBy(e)
    BY DEF ApprovedBy, Blocking, Severe, Covers
  <2>5. StoredIsApproved' /\ SentIsApproved'
    BY <2>1, <2>4 DEF StoredIsApproved, SentIsApproved
  <2>6. AcceptedFits'
    BY <2>1 DEF AcceptedFits
  <2> QED
    BY <2>2, <2>3, <2>5, <2>6
<1>2. CASE Next
  BY <1>2, StartRunStep, RepositoryGateStep, ResolveStep, BuildStep, ScanStep, PolicyStep,
     WaitForSignatureStep, StoreEvidenceStep, RerunReleaseStep, LoseRunStep, StartDeployStep,
     RevalidateStep, WorldStep
     DEF Next, Deploy, RunStep
<1> QED
  BY <1>1, <1>2

LEMMA Invariance == Spec => []IInv
BY InitIInv, StepIInv, PTL DEF Spec

(* Every variable keeps its type: a job that works on an index has one,    *)
(* and no run looks for its signature more often than it may.              *)
THEOREM TypeCorrect == Spec => []ReleaseTypeOK
<1>1. IInv => ReleaseTypeOK
  BY DEF IInv
<1> QED
  BY <1>1, Invariance, PTL

(* Whatever is sent to the host is the one attested and signed image under *)
(* its commit's tag, and was approved under the commit's own exceptions.   *)
THEOREM SentImagesAreApproved == Spec => []SentIsApproved
<1>1. IInv => SentIsApproved
  BY DEF IInv
<1> QED
  BY <1>1, Invariance, PTL

(* No two documents name different images for one commit. *)
THEOREM CommitsHaveOneImage == Spec => []OneImagePerSource
<1>1. IInv => OneImagePerSource
  <2> SUFFICES ASSUME IInv, NEW e \in Stored, NEW f \in Stored, e.source = f.source
               PROVE  e.image = f.image
    BY DEF OneImagePerSource
  <2>1. ApprovedBy(e) /\ ApprovedBy(f)
    BY DEF IInv, StoredIsApproved, Stored
  <2> QED
    BY <2>1 DEF ApprovedBy
<1> QED
  BY <1>1, Invariance, PTL

(* Automatic deployments never go back to an older commit. *)
THEOREM AutomaticGoesForward == Spec => NoAutomaticDowngrade
<1>1. IInv /\ [Next]_vars => [lastAuto' >= lastAuto]_vars
  <2> SUFFICES ASSUME IInv, Next
               PROVE  lastAuto' >= lastAuto
    OBVIOUS
  <2>1. lastAuto \in Int
    BY DEF IInv, ReleaseTypeOK
  <2>2. CASE Revalidate
    BY <2>1, <2>2 DEF Revalidate, IInv, Forward
  <2>3. CASE ~Revalidate
    <3>1. UNCHANGED lastAuto
      BY <2>3
         DEF Next, Deploy, World, StartDeploy, StartRun, RerunRelease, RunStep, LoseRun, RepositoryGate,
             Resolve, Build, Scan, Policy, WaitForSignature, StoreEvidence, Become, deploy
    <3> QED
      BY <2>1, <3>1
  <2> QED
    BY <2>2, <2>3
<1> QED
  BY <1>1, Invariance, PTL DEF Spec, NoAutomaticDowngrade

-----------------------------------------------------------------------------
(* The host *)

Active(c) == cpc[c] # "ended"
Settled == \A c \in Commands : ~Active(c)

OneScript == \A c, d \in Commands : Active(c) /\ Active(d) => c = d

(* What a script has done to the host is still so: nothing else changes it.*)
Starting ==
    \A c \in Commands :
        /\ cpc[c] \in {"configured", "up", "healthy", "truncated"} => envImage = image[c]
        /\ cpc[c] \in {"up", "healthy", "truncated"} => running = image[c]
        /\ cpc[c] \in {"healthy", "truncated"} => image[c] \in passed

(* The file is there once it was truncated; no outcome before the end, and *)
(* no success of a restoration.                                            *)
Outcomes ==
    \A c \in Commands :
        /\ cpc[c] = "truncated" => recorded
        /\ Active(c) => outcome[c] = "none"
        /\ outcome[c] = "success" => mode[c] # "restore"

(* The command that a job waits for is the one it sent. *)
JobCommand ==
    /\ jpc = "waiting" =>
          /\ jcmd \in Commands /\ mode[jcmd] # "rollback"
          /\ mode[jcmd] = "deploy" => image[jcmd] = jimage
    /\ jpc = "restoring" =>
          jcmd \in Commands /\ mode[jcmd] = "rollback" /\ image[jcmd] = jprev

(* From the success of its command to the end of the job nothing moves.    *)
SuccessStands ==
    /\ jpc \in {"waiting", "restoring"} /\ outcome[jcmd] = "success" =>
          Settled /\ Deployed(image[jcmd])
    /\ jpc \in {"external", "success"} => Settled /\ Deployed(jimage)
    /\ jpc = "rolled_back" => Settled /\ Deployed(jprev)

Serial ==
    /\ OneScript
    /\ Starting
    /\ SuccessStands
    /\ current # None => current \in passed

HostInv == RolloutTypeOK /\ Outcomes /\ JobCommand /\ (~overlapped => Serial)

-----------------------------------------------------------------------------
LEMMA InitHostInv == RolloutInit => HostInv
BY ImagesAssumption DEF RolloutInit, HostInv, RolloutTypeOK, Maybe, Stages,
       Results, Outcomes, JobCommand, Serial, OneScript, Starting, SuccessStands,
       Active

(* The steps of the scripts *)

LEMMA StartStep ==
    ASSUME HostInv, NEW c \in Commands, Start(c)
    PROVE  HostInv'
<1> USE DEF HostInv, Start, Go, host, job
<1>1. RolloutTypeOK'
  BY DEF RolloutTypeOK, Maybe, Stages
<1>2. Outcomes' /\ JobCommand'
  BY DEF RolloutTypeOK, Outcomes, JobCommand, Active
<1>3. ~overlapped' => Serial'
  BY DEF RolloutTypeOK, Outcomes, JobCommand, Serial, OneScript, Starting, SuccessStands,
         Settled, Deployed, Active
<1> QED
  BY <1>1, <1>2, <1>3

LEMMA SetEnvStep ==
    ASSUME HostInv, NEW c \in Commands, SetEnv(c)
    PROVE  HostInv'
<1> USE DEF HostInv, SetEnv, Go, job
<1>1. RolloutTypeOK'
  BY DEF RolloutTypeOK, Maybe, Stages
<1>2. Outcomes' /\ JobCommand'
  BY DEF RolloutTypeOK, Outcomes, JobCommand, Active
<1>3. ~overlapped' => Serial'
  BY DEF RolloutTypeOK, Outcomes, JobCommand, Serial, OneScript, Starting, SuccessStands,
         Settled, Deployed, Active
<1> QED
  BY <1>1, <1>2, <1>3

LEMMA ComposeUpStep ==
    ASSUME HostInv, NEW c \in Commands, ComposeUp(c)
    PROVE  HostInv'
<1> USE DEF HostInv, ComposeUp, Go, job
<1>1. RolloutTypeOK'
  BY DEF RolloutTypeOK, Maybe, Stages
<1>2. Outcomes' /\ JobCommand'
  BY DEF RolloutTypeOK, Outcomes, JobCommand, Active
<1>3. ~overlapped' => Serial'
  BY DEF RolloutTypeOK, Outcomes, JobCommand, Serial, OneScript, Starting, SuccessStands,
         Settled, Deployed, Active
<1> QED
  BY <1>1, <1>2, <1>3

LEMMA ProbeStep ==
    ASSUME HostInv, NEW c \in Commands, Probe(c)
    PROVE  HostInv'
<1> USE DEF HostInv, Probe, Go, host, job
<1>1. RolloutTypeOK'
  BY DEF RolloutTypeOK, Maybe, Stages
<1>2. Outcomes' /\ JobCommand'
  BY DEF RolloutTypeOK, Outcomes, JobCommand, Active
<1>3. ~overlapped' => Serial'
  BY DEF RolloutTypeOK, Outcomes, JobCommand, Serial, OneScript, Starting, SuccessStands,
         Settled, Deployed, Active
<1> QED
  BY <1>1, <1>2, <1>3

LEMMA TruncateStep ==
    ASSUME HostInv, NEW c \in Commands, Truncate(c)
    PROVE  HostInv'
<1> USE DEF HostInv, Truncate, Go, job
<1>1. RolloutTypeOK'
  BY DEF RolloutTypeOK, Maybe, Stages
<1>2. Outcomes' /\ JobCommand'
  BY DEF RolloutTypeOK, Outcomes, JobCommand, Active
<1>3. ~overlapped' => Serial'
  BY DEF RolloutTypeOK, Outcomes, JobCommand, Serial, OneScript, Starting, SuccessStands,
         Settled, Deployed, Active
<1> QED
  BY <1>1, <1>2, <1>3

(* Recording ends the only script there is, so that the host stands still. *)
LEMMA RecordStep ==
    ASSUME HostInv, NEW c \in Commands, Record(c)
    PROVE  HostInv'
<1> USE DEF HostInv, Record, Go, job
<1>1. RolloutTypeOK'
  BY DEF RolloutTypeOK, Maybe, Stages, Outcomes
<1>2. Outcomes' /\ JobCommand'
  BY DEF RolloutTypeOK, Outcomes, JobCommand, Active
<1>3. ASSUME ~overlapped PROVE Serial'
  <2>1. OneScript' /\ Starting' /\ Settled'
    BY <1>3 DEF RolloutTypeOK, Serial, OneScript, Starting, Settled, Active
  <2>2. Deployed(image[c])' /\ image' = image
    BY <1>3 DEF Serial, Starting, Deployed
  <2>3. SuccessStands'
    BY <1>3, <2>1, <2>2
       DEF RolloutTypeOK, JobCommand, Serial, SuccessStands, Settled, Deployed, Active
  <2> QED
    BY <2>1, <2>2, <2>3 DEF Serial, Deployed
<1> QED
  BY <1>1, <1>2, <1>3

LEMMA StepFailsStep ==
    ASSUME HostInv, NEW c \in Commands, StepFails(c)
    PROVE  HostInv'
<1> USE DEF HostInv, StepFails, CanRestore, Restore, Finish, Go,
            job
<1>1. RolloutTypeOK'
  BY DEF RolloutTypeOK, Maybe, Stages
<1>2. Outcomes' /\ JobCommand'
  BY DEF RolloutTypeOK, Outcomes, JobCommand, Active
<1>3. ~overlapped' => Serial'
  BY DEF RolloutTypeOK, Outcomes, JobCommand, Serial, OneScript, Starting, SuccessStands,
         Settled, Deployed, Active
<1> QED
  BY <1>1, <1>2, <1>3

LEMMA DieStep ==
    ASSUME HostInv, NEW c \in Commands, Die(c)
    PROVE  HostInv'
<1> USE DEF HostInv, Die, Finish, Go, host, job
<1>1. RolloutTypeOK'
  BY DEF RolloutTypeOK, Maybe, Stages
<1>2. Outcomes' /\ JobCommand'
  BY DEF RolloutTypeOK, Outcomes, JobCommand, Active
<1>3. ~overlapped' => Serial'
  BY DEF RolloutTypeOK, Outcomes, JobCommand, Serial, OneScript, Starting, SuccessStands,
         Settled, Deployed, Active
<1> QED
  BY <1>1, <1>2, <1>3

(* The steps of the job *)

LEMMA DeployStep ==
    ASSUME HostInv, NEW c \in Commands, NEW i \in Images, BeginDeploy(c, i)
    PROVE  HostInv'
<1> USE DEF HostInv, BeginDeploy, Send, Go, host
<1>1. RolloutTypeOK'
  BY DEF RolloutTypeOK, Maybe, Stages
<1>2. Outcomes' /\ JobCommand'
  BY DEF RolloutTypeOK, Outcomes, JobCommand, Active
<1>3. ~overlapped' => Serial'
  BY DEF RolloutTypeOK, Serial, OneScript, Starting, SuccessStands, Active
<1> QED
  BY <1>1, <1>2, <1>3

LEMMA SendRollbackStep ==
    ASSUME HostInv, NEW c \in Commands, SendRollback(c)
    PROVE  HostInv'
<1> USE DEF HostInv, SendRollback, Send, Go, host
<1>1. RolloutTypeOK'
  BY DEF RolloutTypeOK, Maybe, Stages
<1>2. Outcomes' /\ JobCommand'
  BY DEF RolloutTypeOK, Outcomes, JobCommand, Active
<1>3. ~overlapped' => Serial'
  BY DEF RolloutTypeOK, Serial, OneScript, Starting, SuccessStands, Active
<1> QED
  BY <1>1, <1>2, <1>3

LEMMA JobStep ==
    ASSUME HostInv,
           \/ SeeSuccess \/ SeeFailure \/ GiveUp \/ ExternalHealth
           \/ SeeRestored \/ NotRestored \/ EndJob
    PROVE  HostInv'
<1> USE DEF HostInv, SeeSuccess, SeeFailure, GiveUp, ExternalHealth,
            SeeRestored, NotRestored, EndJob, Move, host,
            script
<1>1. RolloutTypeOK'
  BY DEF RolloutTypeOK, Maybe, Results, JobCommand
<1>2. Outcomes' /\ JobCommand'
  BY DEF RolloutTypeOK, Outcomes, JobCommand, Active
<1>3. ~overlapped' => Serial'
  BY DEF RolloutTypeOK, Outcomes, JobCommand, Serial, OneScript, Starting, SuccessStands,
         Settled, Deployed, Active
<1> QED
  BY <1>1, <1>2, <1>3

LEMMA StepHostInv == HostInv /\ [RolloutNext]_rolloutVars => HostInv'
<1> SUFFICES ASSUME HostInv, [RolloutNext]_rolloutVars
             PROVE  HostInv'
  OBVIOUS
<1>1. CASE UNCHANGED rolloutVars
  BY <1>1 DEF rolloutVars, host, script, job, HostInv, RolloutTypeOK, Outcomes,
         JobCommand, Serial, OneScript, Starting, SuccessStands, Settled, Deployed,
         Active
<1>2. CASE RolloutNext
  BY <1>2, StartStep, SetEnvStep, ComposeUpStep, ProbeStep, TruncateStep, RecordStep,
     StepFailsStep, DieStep, DeployStep, SendRollbackStep, JobStep DEF RolloutNext
<1> QED
  BY <1>1, <1>2

LEMMA HostInvariance == RolloutSpec => []HostInv
BY InitHostInv, StepHostInv, PTL DEF RolloutSpec

-----------------------------------------------------------------------------
(* Every variable keeps its type; a script always has an image to start.   *)
THEOREM HostTypeCorrect == RolloutSpec => []RolloutTypeOK
<1>1. HostInv => RolloutTypeOK
  BY DEF HostInv
<1> QED
  BY <1>1, HostInvariance, PTL

(* A job that reports success, or a rollback, leaves the host with that    *)
(* image running, recorded and probed, unless commands overlapped.         *)
THEOREM ResultsAreTrue == RolloutSpec => []ResultIsTrue
<1>1. HostInv => ResultIsTrue
  BY DEF HostInv, Serial, SuccessStands, ResultIsTrue
<1> QED
  BY <1>1, HostInvariance, PTL

(* The image that is recorded passed its probe, unless commands overlapped.*)
THEOREM RecordedImagesPassed == RolloutSpec => []CurrentPassed
<1>1. HostInv => CurrentPassed
  BY DEF HostInv, Serial, CurrentPassed
<1> QED
  BY <1>1, HostInvariance, PTL
=============================================================================
