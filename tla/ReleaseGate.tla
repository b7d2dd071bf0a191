------------------------------ MODULE ReleaseGate -----------------------------
(***************************************************************************)
(* From a commit to the command that deploys it: release runs, which       *)
(* publish an image and store evidence about it, and the deploy jobs of    *)
(* one environment, which accept an image on the strength of evidence.     *)
(* Sources are the commits of main, in their order.  A digest determines   *)
(* what it names: an index is its manifests, a document its hash.          *)
(***************************************************************************)
EXTENDS Integers, Deliverables

CONSTANTS
    NumSources,   \* commits 1..NumSources
    Indexes,      \* digests of what a build may push
    Manifest,     \* what each of them lists
    Exceptions,   \* each commit's security/exceptions.json
    Malformed,    \* the commits whose registry breaks a rule other than expiry
    Services,     \* each commit's compose services
    Findings,     \* what scanners may come to know of commits and images
    Runs,         \* release runs, one per tag
    Attempts,     \* how often a run looks for the signature
    LastDay       \* TLC only: the days that pass

Sources == 1..NumSources
Kinds == {"configuration", "image_vulnerability", "python_dependency"}
Required == {"sbom", "provenance"}

ASSUME ReleaseAssumption ==
    /\ NumSources \in Nat \ {0} /\ Attempts \in Nat \ {0} /\ LastDay \in Nat
    /\ None \notin Indexes \cup Runs
    /\ Manifest \in [Indexes -> [platforms : SUBSET Images,
                                 attested : [Images -> SUBSET Required]]]
    /\ Malformed \subseteq Sources
    /\ DOMAIN Exceptions = Sources /\ DOMAIN Services = Sources

VARIABLES
    today, head, known, signing,  \* the world: date, main, findings published, ECR signatures
    tag,          \* the index under the tag sha-<commit>
    rpc,          \* where each release run stands
    rsource,      \* the commit it releases
    local,        \* what its job knows: see Local
    artifact,     \* the evidence each run has stored
    dpc,          \* where the deploy job stands
    input,        \* its inputs: commit, image, run and hash (the document) of the evidence
    auto,         \* it was started by a pushed tag
    sent,         \* <<commit, image>> sent to the host so far
    lastAuto      \* the commit last sent by an automatic job, 0 for none

world == <<today, head, known, signing>>
release == <<tag, rpc, rsource, local, artifact>>
deploy == <<dpc, input, auto, sent, lastAuto>>
vars == <<world, release, deploy>>

(* A run whose repository gate passed and whose release job then failed    *)
(* is "unreleased": what went before need not be repeated.                 *)
Ended == {"idle", "done", "failed", "unreleased"}
Steps == {"gate", "resolve", "build", "scan", "policy", "poll", "store"}
(* ECR reports nothing at first, which every reader takes for in progress. *)
Statuses == {"IN_PROGRESS", "COMPLETE", "FAILED"}
Evidence == [source : Sources, image : Images, judged : Nat, scanned : SUBSET Findings,
             predicates : SUBSET Required, status : Statuses]

(* A job's index (resolved or pushed), the findings in its Trivy report,   *)
(* how often it looked for the signature, and (ghost) the day on which it  *)
(* enforced the policy.                                                    *)
Local == [top : Indexes \cup {None}, report : SUBSET Findings, polls : 0..Attempts,
          judged : Nat]

Blank == [top |-> None, report |-> {}, polls |-> 0, judged |-> 0]

ReleaseTypeOK ==
    /\ today \in Nat /\ head \in Sources /\ known \subseteq Findings
    /\ signing \in [Images -> Statuses]
    /\ tag \in [Sources -> Indexes \cup {None}]
    /\ rpc \in [Runs -> Ended \cup Steps]
    /\ rsource \in [Runs -> Sources]
    /\ local \in [Runs -> Local]
    /\ \A r \in Runs : rpc[r] \in {"scan", "policy", "poll", "store"} => local[r].top # None
    /\ artifact \in [Runs -> SUBSET Evidence]
    /\ dpc \in {"idle", "accepted"}
    /\ IF dpc = "idle" THEN input = None
       ELSE input \in [source : Sources, image : Images, run : Runs, hash : Evidence]
    /\ auto \in BOOLEAN
    /\ sent \subseteq Sources \X Images
    /\ lastAuto \in 0..NumSources

Init ==
    /\ today = 0 /\ head = 1 /\ known = {}
    /\ signing = [i \in Images |-> "IN_PROGRESS"]
    /\ tag = [s \in Sources |-> None]
    /\ rpc = [r \in Runs |-> "idle"]
    /\ rsource = [r \in Runs |-> 1]
    /\ local = [r \in Runs |-> Blank]
    /\ artifact = [r \in Runs |-> {}]
    /\ dpc = "idle" /\ input = None /\ auto = FALSE
    /\ sent = {} /\ lastAuto = 0

-----------------------------------------------------------------------------
(* The policies *)

(* An exception that has expired fails the whole registry. *)
RegistryValid(s) == s \notin Malformed /\ \A e \in Exceptions[s] : e.expires >= today

Covers(e, f) ==
    /\ e.type = f.type /\ e.id = f.id
    /\ f.type = "configuration" => f.path \in e.paths

Excused(s, f) == \E e \in Exceptions[s] : Covers(e, f)

Severe(f) == f.severity \in {"HIGH", "CRITICAL"}

Blocking(f) == Severe(f) /\ f.fixed

DependenciesPass(s) ==
    \A f \in known : f.type = "python_dependency" /\ f.subject = s => Excused(s, f)

ConfigurationPasses(s) ==
    \A f \in known : f.type = "configuration" /\ f.subject = s /\ Severe(f) => Excused(s, f)

ServiceIsSafe(service) ==
    /\ ~service.privileged
    /\ service.hostNamespaces = {}
    /\ "ALL" \notin service.cap_add
    /\ service.unconfined = {}
    /\ \A bind \in service.binds : ~bind.sensitive /\ bind.readOnly

ComposePasses(s) == Services[s] # {} /\ \A service \in Services[s] : ServiceIsSafe(service)

(* The one image of an index, and the predicates attested of it. *)
Platform(x) == CHOOSE i \in Images : Manifest[x].platforms = {i}

OnePlatform(x) == \E i \in Images : Manifest[x].platforms = {i}

Attested(x) == OnePlatform(x) /\ Required \subseteq Manifest[x].attested[Platform(x)]

EnforceFindings(s, report) ==
    /\ RegistryValid(s)
    /\ \A f \in report : Blocking(f) => Excused(s, f)

-----------------------------------------------------------------------------
(* A release run *)

(* The job goes on to a stage with what it then knows, or it has ended.    *)
Become(r, stage, l) ==
    /\ rpc' = [rpc EXCEPT ![r] = stage]
    /\ local' = [local EXCEPT ![r] = IF stage \in Ended THEN Blank ELSE l]
    /\ UNCHANGED <<world, deploy>>

(* A tag on the head of main, or all jobs of such a tag's run once more.   *)
StartRun(r) ==
    /\ \/ rpc[r] = "idle"
       \/ rpc[r] \in {"done", "failed", "unreleased"} /\ rsource[r] = head
    /\ Become(r, "gate", Blank)
    /\ rsource' = [rsource EXCEPT ![r] = head]
    /\ UNCHANGED <<tag, artifact>>

(* The failed jobs of a run once more: neither the head of main nor the    *)
(* repository gate is looked at again.                                     *)
RerunRelease(r) ==
    /\ rpc[r] = "unreleased"
    /\ Become(r, "resolve", Blank)
    /\ UNCHANGED <<tag, rsource, artifact>>

GatePasses(s) ==
    RegistryValid(s) /\ DependenciesPass(s) /\ ConfigurationPasses(s) /\ ComposePasses(s)

RepositoryGate(r) ==
    /\ rpc[r] = "gate"
    /\ Become(r, IF GatePasses(rsource[r]) THEN "resolve" ELSE "failed", local[r])
    /\ UNCHANGED <<tag, rsource, artifact>>

(* An image that exists is reused.  A look-up that fails counts as none.   *)
Resolve(r) ==
    /\ rpc[r] = "resolve"
    /\ \/ /\ tag[rsource[r]] # None
          /\ Become(r, "scan", [local[r] EXCEPT !.top = tag[rsource[r]]])
       \/ Become(r, "build", local[r])
    /\ UNCHANGED <<tag, rsource, artifact>>

(* Slip: tags that a later push moves. *)
PushMovesTag(s, x) == TRUE

(* The registry's tags are immutable: a second push under one fails.       *)
MayPush(s, x) == tag[s] \in {None, x}

Build(r) ==
    /\ rpc[r] = "build"
    /\ \E x \in Indexes :
          IF MayPush(rsource[r], x)
          THEN /\ tag' = [tag EXCEPT ![rsource[r]] = x]
               /\ Become(r, "scan", [local[r] EXCEPT !.top = x])
          ELSE Become(r, "unreleased", Blank) /\ UNCHANGED tag
    /\ UNCHANGED <<rsource, artifact>>

(* Trivy scans the index's one platform digest with what is known by now.  *)
Scan(r) ==
    /\ rpc[r] = "scan"
    /\ LET i == Platform(local[r].top)
           report == {f \in known : f.type = "image_vulnerability" /\ f.subject = i}
       IN IF OnePlatform(local[r].top)
          THEN Become(r, "policy", [local[r] EXCEPT !.report = report])
          ELSE Become(r, "unreleased", Blank)
    /\ UNCHANGED <<tag, rsource, artifact>>

Policy(r) ==
    /\ rpc[r] = "policy"
    /\ IF Attested(local[r].top) /\ EnforceFindings(rsource[r], local[r].report)
       THEN Become(r, "poll", [local[r] EXCEPT !.judged = today])
       ELSE Become(r, "unreleased", Blank)
    /\ UNCHANGED <<tag, rsource, artifact>>

(* Slip: polling without a last attempt. *)
WaitWithoutEnd(r) ==
    /\ rpc[r] = "poll"
    /\ LET status == signing[Platform(local[r].top)]
       IN Become(r, IF status = "COMPLETE" THEN "store"
                    ELSE IF status = "FAILED" THEN "unreleased" ELSE "poll",
                 [local[r] EXCEPT !.polls = @ + 1])
    /\ UNCHANGED <<tag, rsource, artifact>>

(* One call of describe-image-signing-status; a sleep unless it was the last. *)
WaitForSignature(r) ==
    /\ rpc[r] = "poll"
    /\ LET status == signing[Platform(local[r].top)]
           polls == local[r].polls + 1
       IN Become(r, IF status = "COMPLETE" THEN "store"
                    ELSE IF status = "FAILED" \/ polls = Attempts THEN "unreleased"
                    ELSE "poll",
                 [local[r] EXCEPT !.polls = polls])
    /\ UNCHANGED <<tag, rsource, artifact>>

StoreEvidence(r) ==
    /\ rpc[r] = "store"
    /\ LET top == local[r].top
           evidence == [source |-> rsource[r], image |-> Platform(top),
                        judged |-> local[r].judged, scanned |-> local[r].report,
                        predicates |-> Manifest[top].attested[Platform(top)],
                        status |-> "COMPLETE"]
       IN artifact' = [artifact EXCEPT ![r] = @ \cup {evidence}]
    /\ Become(r, "done", Blank)
    /\ UNCHANGED <<tag, rsource>>

(* A call fails, or the job is cancelled, times out or is lost. *)
LoseRun(r) ==
    /\ rpc[r] \in Steps
    /\ Become(r, IF rpc[r] = "gate" THEN "failed" ELSE "unreleased", Blank)
    /\ UNCHANGED <<tag, rsource, artifact>>

RunStep(r) ==
    RepositoryGate(r) \/ Resolve(r) \/ Build(r) \/ Scan(r) \/ Policy(r)
        \/ WaitForSignature(r) \/ StoreEvidence(r)

-----------------------------------------------------------------------------
(* The deploy jobs, one at a time because of their concurrency group *)

(* Slip: a document that is genuine, whatever it is about. *)
EvidenceIsGenuine(e, in) ==
    e = in.hash /\ e.status = "COMPLETE" /\ Required \subseteq e.predicates

(* verify_evidence: the document has the hash that was given, and is about *)
(* the commit and the image that were given.                               *)
EvidenceFits(e, in) ==
    /\ e = in.hash
    /\ e.source = in.source /\ e.image = in.image
    /\ e.status = "COMPLETE"
    /\ Required \subseteq e.predicates

(* Slip: any commit that was on main will do. *)
OnMain(source) == source <= head

NotStale(source) == source = head

(* A job that follows its release run gives up if its commit is no longer  *)
(* the head of main.  One started by hand has inputs from wherever the     *)
(* operator found them.  Either downloads what the run named has stored,   *)
(* in whichever attempt; a job whose evidence does not fit ends.           *)
StartDeploy ==
    /\ dpc = "idle" /\ dpc' = "accepted"
    /\ \E r, q \in Runs, s \in Sources, i \in Images : \E hash \in artifact[r] :
          LET in == [source |-> s, image |-> i, run |-> q, hash |-> hash] IN
          /\ \E e \in artifact[q] : EvidenceFits(e, in)
          /\ input' = in
          /\ \/ /\ rpc[r] = "done" /\ q = r /\ s = hash.source /\ i = hash.image
                /\ NotStale(s)
                /\ auto' = TRUE
             \/ auto' = FALSE
    /\ UNCHANGED <<world, release, sent, lastAuto>>

(* The signature is looked up again; the command is sent, or the job ends. *)
Revalidate ==
    /\ dpc = "accepted" /\ dpc' = "idle"
    /\ input' = None /\ auto' = FALSE
    /\ \/ /\ signing[input.image] = "COMPLETE"
          /\ sent' = sent \cup {<<input.source, input.image>>}
          /\ lastAuto' = IF auto THEN input.source ELSE lastAuto
       \/ UNCHANGED <<sent, lastAuto>>
    /\ UNCHANGED <<world, release>>

-----------------------------------------------------------------------------
(* The world *)

PassDay == today < LastDay /\ today' = today + 1 /\ UNCHANGED <<head, known, signing>>

MergeToMain == head < NumSources /\ head' = head + 1 /\ UNCHANGED <<today, known, signing>>

Disclose ==
    /\ \E f \in Findings \ known : known' = known \cup {f}
    /\ UNCHANGED <<today, head, signing>>

(* ECR signs what is pushed, or fails to. *)
Sign ==
    /\ \E i \in Images, result \in {"COMPLETE", "FAILED"} :
          /\ \E s \in Sources : tag[s] # None /\ i \in Manifest[tag[s]].platforms
          /\ signing[i] = "IN_PROGRESS" /\ signing' = [signing EXCEPT ![i] = result]
    /\ UNCHANGED <<today, head, known>>

World == (PassDay \/ MergeToMain \/ Disclose \/ Sign) /\ UNCHANGED <<release, deploy>>

Deploy == StartDeploy \/ Revalidate

Next == World \/ Deploy \/ \E r \in Runs : StartRun(r) \/ RerunRelease(r) \/ RunStep(r) \/ LoseRun(r)

Spec == Init /\ [][Next]_vars

-----------------------------------------------------------------------------
(* Properties *)

Stored == UNION {artifact[r] : r \in Runs}

(* Whatever is sent to the host comes from the index under its commit's    *)
(* tag, as the one image of it, with both attestations and a complete      *)
(* signature; and on the day some run approved it, the commit's exceptions *)
(* were in force and excused every blocking finding of its scan: however   *)
(* runs, attempts and hand-started jobs with mixed inputs interleave.      *)
ApprovedBy(e) ==
    /\ e.source \notin Malformed
    /\ \A f \in e.scanned : Blocking(f) =>
          \E x \in Exceptions[e.source] : Covers(x, f) /\ x.expires >= e.judged
    /\ tag[e.source] # None
    /\ Manifest[tag[e.source]].platforms = {e.image}
    /\ Required \subseteq Manifest[tag[e.source]].attested[e.image]
    /\ signing[e.image] = "COMPLETE"

SentIsApproved ==
    \A p \in sent : \E e \in Stored : <<e.source, e.image>> = p /\ ApprovedBy(e)

(* docs/ci-cd-workflow-structure.md: one source, one immutable digest.  Two *)
(* tags on a commit release it at once, and a failed look-up builds anew.  *)
OneImagePerSource ==
    \A e, f \in Stored : e.source = f.source => e.image = f.image

(* No automatic deployment goes back to a commit before the one that an    *)
(* automatic deployment sent last.                                         *)
NoAutomaticDowngrade == [][lastAuto' >= lastAuto]_vars
===============================================================================
