------------------------------ MODULE Validation ------------------------------
(***************************************************************************)
(* How a Release is admitted, attributed to an author, judged and given    *)
(* its expiration time: the webhooks (api/v1alpha1/webhooks), the five     *)
(* validations of EnsureReleaseIsValid, EnsureApplicationMetadataIsSet and *)
(* EnsureReleaseExpirationTimeIsAdded, while people edit the objects the   *)
(* Release refers to, the service that created an automated Release marks *)
(* it as such, and the informer cache lags behind.                         *)
(*                                                                         *)
(* Every validation reads the objects again, so that they may change       *)
(* between two of them.  In ReleaseController a reconcile has one verdict  *)
(* (Validates); here the verdict is taken apart and the pipelines are left *)
(* out.                                                                    *)
(***************************************************************************)
EXTENDS Integers

CONSTANTS
  Users,       \* who sends requests
  AuthorOf,    \* the label value a user name becomes (several may share one)
  Names,       \* names of a Snapshot and a ReleasePlan, which are treated alike
  LongNames,   \* those of more than 63 characters
  Plans,       \* the ReleasePlans people write
  Admissions,  \* what a search for the active ReleasePlanAdmission may find
  Snapshots,   \* the Snapshot the Release refers to
  Graces,      \* spec.gracePeriodDays of a Release, 0 when not given
  MaxEdits,    \* bound on edits of the objects
  MaxFaults    \* bound on failed calls and restarts

VARIABLES
  plan,       \* the ReleasePlan
  admission,  \* the ReleasePlanAdmission
  snapshot,   \* the Snapshot
  release,    \* the Release in the API server
  cache,      \* the Release in the informer cache, at most one write behind
  mem,        \* a.release
  base,       \* the copy of a.release a patch is computed from
  pc,         \* the next step of a reconcile
  queued,     \* is the Release in the work queue?
  late,       \* have five minutes passed since the creation?
  creator,    \* the author the webhook wrote at the creation (history)
  edits,
  faults

vars == <<plan, admission, snapshot, release, cache, mem, base, pc, queued, late, creator, edits, faults>>
referred == <<plan, admission, snapshot>>

None == "none"

Authors == {AuthorOf[u] : u \in Users}

\* A pipeline: not defined, defined, or with the resolver for debugging.
Pipelines == {"none", "plain", "cluster"}

Plan == [exists : BOOLEAN, target : BOOLEAN, tenant : Pipelines, final : Pipelines,
         application : STRING, attribution : BOOLEAN, author : Authors \cup {None}, grace : Nat]

\* active: one matches and it does not block releases.  policy: is there an
\* EnterpriseContractPolicy?
Admission == [active : BOOLEAN, pipeline : Pipelines, policy : BOOLEAN]

Snapshot == [at : {"cluster", "archive", "nowhere"}, application : STRING]

ReleaseSpec == [name : Names, grace : Nat]

Labels == [automated : BOOLEAN, author : Authors \cup {None}, name : Names \cup {None}]

Conditions == [validated : {"unset", "succeeded", "failed"},
               released : {"unset", "progressing", "failed"}]

Status == [automated : BOOLEAN, author : Authors \cup {None}, standing : BOOLEAN,
           target : {None, "own", "other"}, expiration : Nat \cup {-1}, conds : Conditions]

Release == [exists : BOOLEAN, spec : ReleaseSpec, labels : Labels, status : Status]

NewStatus == [automated |-> FALSE, author |-> None, standing |-> FALSE, target |-> None,
              expiration |-> -1,
              conds |-> [validated |-> "unset", released |-> "unset"]]

NoRelease == [exists |-> FALSE,
              spec   |-> [name |-> CHOOSE n \in Names : TRUE, grace |-> 0],
              labels |-> [automated |-> FALSE, author |-> None, name |-> None],
              status |-> NewStatus]

ASSUME RequestsAssumption == Names # {} /\ LongNames \subseteq Names /\ Graces \subseteq Nat
ASSUME ObjectsAssumption ==
  Plans \subseteq Plan /\ Admissions \subseteq Admission /\ Snapshots \subseteq Snapshot
ASSUME BoundsAssumption == MaxEdits \in Nat /\ MaxFaults \in Nat

Init ==
  /\ plan \in Plans
  /\ admission \in Admissions
  /\ snapshot \in Snapshots
  /\ release = NoRelease
  /\ cache = NoRelease
  /\ mem = NoRelease
  /\ base = NoRelease
  /\ pc = "idle"
  /\ queued = FALSE
  /\ late = FALSE
  /\ creator = None
  /\ edits = 0
  /\ faults = 0

Fault == faults < MaxFaults /\ faults' = faults + 1

\* A write to the API server; the informer has seen everything before it.
WriteRelease(r) == release' = r /\ cache' = IF r = release THEN cache ELSE release

NoWrite == UNCHANGED <<release, cache>>

-----------------------------------------------------------------------------
(* Webhooks. *)

\* What people ask for: a Release without status.
Requests == [exists : {TRUE}, spec : [name : Names, grace : Graces], labels : Labels,
             status : {NewStatus}]

\* author webhook, handleRelease on Create.
WithAuthor(user, r) ==
  IF r.labels.automated THEN r ELSE [r EXCEPT !.labels.author = AuthorOf[user]]

\* Mutant: labels the request brings are kept.
Default_KeepLabels(r) ==
  [r EXCEPT !.labels.name = IF @ = None THEN r.spec.name ELSE @,
            !.spec.grace = IF @ # 0 \/ ~plan.exists THEN @ ELSE plan.grace]

\* release webhook, Default.
Default(r) ==
  [r EXCEPT !.labels.name = r.spec.name,
            !.spec.grace = IF @ # 0 \/ ~plan.exists THEN @ ELSE plan.grace]

ValidateCreate(r) == r.spec.name \notin LongNames

\* A Release that is created as automated keeps the labels of its request; no
\* author is written for it.
CreateRelease ==
  /\ ~release.exists
  /\ \E user \in Users, r \in Requests :
       /\ ValidateCreate(Default(WithAuthor(user, r)))
       /\ release' = Default(WithAuthor(user, r))
       /\ creator' = IF r.labels.automated THEN None ELSE AuthorOf[user]
  /\ cache' = release'
  /\ queued' = TRUE
  /\ UNCHANGED <<referred, mem, base, pc, late, edits, faults>>

\* Mutant: the author may be changed.
ValidateUpdate_AnyAuthor(old, new) ==
  /\ new.spec = old.spec
  /\ new.labels.name = old.labels.name

\* release webhook, ValidateUpdate, and handleRelease of the author webhook.
ValidateUpdate(old, new) ==
  /\ new.spec = old.spec
  /\ new.labels.name = old.labels.name
  /\ new.labels.author = old.labels.author

Edit == edits < MaxEdits /\ edits' = edits + 1

\* Labels are no part of the generation: not an event.
UpdateRelease ==
  /\ release.exists
  /\ Edit
  /\ \E l \in Labels :
       /\ ValidateUpdate(release, [release EXCEPT !.labels = l])
       /\ WriteRelease([release EXCEPT !.labels = l])
  /\ UNCHANGED <<referred, mem, base, pc, queued, late, creator, faults>>

\* author webhook.
handleReleasePlan(user, q) ==
  CASE ~q.attribution                     -> [q EXCEPT !.author = None]
    [] q.attribution /\ q.author = None   -> [q EXCEPT !.author = AuthorOf[user]]
    [] q.attribution /\ q.author # None   -> q

\* Somebody edits, creates or deletes an object the Release refers to.
EditPlan ==
  /\ Edit
  /\ \E user \in Users, q \in Plans \ {plan} : plan' = handleReleasePlan(user, q)
  /\ UNCHANGED <<admission, snapshot, release, cache, mem, base, pc, queued, late, creator, faults>>

EditOthers ==
  /\ Edit
  /\ \/ admission' \in Admissions \ {admission} /\ UNCHANGED snapshot
     \/ snapshot' \in Snapshots \ {snapshot} /\ UNCHANGED admission
  /\ UNCHANGED <<plan, release, cache, mem, base, pc, queued, late, creator, faults>>

-----------------------------------------------------------------------------
(* A reconcile. *)

RequeueWithError == pc' = "idle" /\ mem' = NoRelease /\ base' = NoRelease /\ queued' = TRUE

StopProcessing == pc' = "idle" /\ mem' = NoRelease /\ base' = NoRelease /\ UNCHANGED queued

\* ContinueProcessing: the next operation copies what this one leaves.
Continue(next, r) == pc' = next /\ mem' = r /\ base' = r /\ UNCHANGED queued

\* Within EnsureReleaseIsValid.
Proceed(next, r) == pc' = next /\ mem' = r /\ UNCHANGED <<base, queued>>

Reconcile ==
  /\ pc = "idle" /\ queued
  /\ queued' = FALSE
  /\ mem' = cache
  /\ base' = cache
  /\ pc' = "ReleaseIsRunning"
  /\ NoWrite /\ UNCHANGED faults

\* Mutant: the whole status is written, not what has changed.
Patched_Whole(new) == [release EXCEPT !.status = new.status]

\* What a merge patch leaves in the API server when base has become new.  A list
\* such as the conditions is written as a whole.
Patched(new) ==
  [release EXCEPT !.status =
     [f \in DOMAIN NewStatus |->
        IF new.status[f] # base.status[f] THEN new.status[f] ELSE release.status[f]]]

\* The answer of the API server replaces a.release.
PatchStatus(new, next) ==
  \/ WriteRelease(Patched(new)) /\ Continue(next, release') /\ UNCHANGED faults
  \/ Fault /\ RequeueWithError /\ NoWrite

\* All phases of r may have finished: they start after the expiration time is set.
MayBeOver(r) == r.status.conds.released = "failed" /\ r.status.expiration # -1

EnsureReleaseIsRunning ==
  /\ pc = "ReleaseIsRunning"
  /\ CASE mem.status.conds.released = "unset" ->
            PatchStatus([mem EXCEPT !.status.conds.released = "progressing"], "PipelineDefined")
       [] mem.status.conds.released # "unset" ->
            /\ Continue("PipelineDefined", mem) \/ (MayBeOver(mem) /\ StopProcessing)
            /\ NoWrite /\ UNCHANGED faults

\* Mutant: the validation stays in progress.
MarkValidationFailed_Progressing(r) == [r EXCEPT !.status.conds.validated = "progressing"]

MarkValidationFailed(r) == [r EXCEPT !.status.conds.validated = "failed"]

\* ValidationResult{Valid: false}: the rest of the validations is left out.
Invalid(r) == Proceed("invalid", MarkValidationFailed(r))

\* A validation comes to an end.
Verdict(ok, r, next) ==
  IF ok THEN Proceed(next, r) ELSE Invalid(r)

\* validationError for a call that fails: a retriable error requeues; any other
\* is a verdict.
ReadFails == Fault /\ (RequeueWithError \/ Invalid(mem))

validatePipelineDefined ==
  LET target == IF ~plan.exists THEN mem.status.target ELSE IF plan.target THEN "other" ELSE "own"
      defined == \/ plan.tenant # "none"
                 \/ plan.target /\ admission.active /\ admission.pipeline # "none"
  IN /\ pc = "PipelineDefined"
     /\ \/ /\ Verdict(plan.exists /\ defined, [mem EXCEPT !.status.target = target],
                      "ProcessingResources")
           /\ UNCHANGED faults
        \/ ReadFails
     /\ NoWrite

\* loader.GetSnapshot: a Snapshot that is not in the cluster is looked for in
\* KubeArchive; when that fails it counts as not found.
GetSnapshot(found) ==
  \/ found = (snapshot.at # "nowhere") /\ UNCHANGED faults
  \/ snapshot.at = "archive" /\ ~found /\ Fault

\* loader.GetProcessingResources
ProcessingResourcesExist == plan.target /\ admission.active /\ admission.policy

validateProcessingResources ==
  /\ pc = "ProcessingResources"
  /\ \/ /\ plan.exists /\ plan.tenant # "none"
        /\ Proceed("Application", mem)
        /\ UNCHANGED faults
     \/ /\ ~(plan.exists /\ plan.tenant # "none")
        /\ \E found \in BOOLEAN :
             /\ GetSnapshot(found)
             /\ Verdict(plan.exists /\ ProcessingResourcesExist /\ found, mem, "Application")
     \/ ReadFails
  /\ NoWrite

validateApplication ==
  /\ pc = "Application"
  /\ \/ \E found \in BOOLEAN :
          /\ GetSnapshot(found)
          /\ Verdict(plan.exists /\ found /\ plan.application = snapshot.application, mem, "Author")
     \/ ReadFails
  /\ NoWrite

\* Mutant: an automated Release that is not marked waits for ever.
TimeIsUp_Never == FALSE

\* The five minutes in which an automated Release has to be marked as such.
TimeIsUp == late

\* Mutant: the ReleasePlan may have no author.
Attribute_Unchecked(author, standing) ==
  Proceed("PipelineSource",
          [mem EXCEPT !.status.author = author, !.status.standing = @ \/ standing])

\* The end of validateAuthor.
Attribute(author, standing) ==
  IF author = None
  THEN Invalid(mem)
  ELSE Proceed("PipelineSource",
               [mem EXCEPT !.status.author = author, !.status.standing = @ \/ standing])

validateAuthor ==
  LET attributed == mem.status.author # None
      unmarked   == mem.labels.automated /\ ~mem.status.automated
  IN /\ pc = "Author"
     /\ \/ attributed /\ Proceed("PipelineSource", mem) /\ UNCHANGED faults
        \/ /\ ~attributed /\ unmarked
           /\ IF TimeIsUp THEN Invalid(mem) ELSE RequeueWithError
           /\ UNCHANGED faults
        \/ /\ ~attributed /\ ~unmarked
           /\ \/ /\ CASE ~plan.exists -> Invalid(mem)
                      [] plan.exists /\ mem.labels.automated -> Attribute(plan.author, TRUE)
                      [] plan.exists /\ ~mem.labels.automated -> Attribute(mem.labels.author, FALSE)
                 /\ UNCHANGED faults
              \/ ReadFails
     /\ NoWrite

\* What is for debugging only is refused otherwise.  Every reconcile loads the
\* configuration that says so (spec.debug) again.
validatePipelineSource ==
  LET sources == {plan.tenant, plan.final}
                   \cup (IF plan.target THEN {admission.pipeline} ELSE {})
      allowed(debug) == /\ plan.exists
                        /\ plan.target => admission.active
                        /\ debug \/ "cluster" \notin sources
  IN /\ pc = "PipelineSource"
     /\ \/ \E debug \in BOOLEAN : Verdict(allowed(debug), mem, "valid") /\ UNCHANGED faults
        \/ ReadFails
     /\ NoWrite

\* The verdict is written.
EnsureReleaseIsValid ==
  LET conds == mem.status.conds
      judged == CASE pc = "valid" /\ conds.released = "progressing" ->
                       [mem EXCEPT !.status.conds.validated = "succeeded"]
                  [] pc = "valid" /\ conds.released # "progressing" -> mem
                  [] pc = "invalid" -> [mem EXCEPT !.status.conds.released = "failed"]
  IN /\ pc \in {"valid", "invalid"}
     /\ \/ PatchStatus(judged, "ApplicationMetadataIsSet")
        \/ /\ MayBeOver(judged)
           /\ WriteRelease(Patched(judged)) /\ StopProcessing /\ UNCHANGED faults

\* The patch of labels and annotations leaves the status alone; its answer
\* replaces a.release.
EnsureApplicationMetadataIsSet ==
  /\ pc = "ApplicationMetadataIsSet"
  /\ \/ \E found \in BOOLEAN :
          /\ GetSnapshot(found)
          /\ IF found THEN Continue("ExpirationTimeIsAdded", release) ELSE RequeueWithError
     \/ Fault /\ RequeueWithError
  /\ NoWrite

\* Mutant: the plan's grace period comes first.
GracePeriodDays_OfPlan(r) == IF plan.exists THEN plan.grace ELSE r.spec.grace

\* In days.  A ReleasePlan that is not found counts as one without grace period.
GracePeriodDays(r) ==
  CASE r.spec.grace # 0                 -> r.spec.grace
    [] r.spec.grace = 0 /\ plan.exists  -> plan.grace
    [] r.spec.grace = 0 /\ ~plan.exists -> 0

\* Here the part of a reconcile that is modelled ends.
EnsureReleaseExpirationTimeIsAdded ==
  /\ pc = "ExpirationTimeIsAdded"
  /\ \/ mem.status.expiration # -1 /\ StopProcessing /\ NoWrite /\ UNCHANGED faults
     \/ /\ mem.status.expiration = -1
        /\ LET new == [mem EXCEPT !.status.expiration = GracePeriodDays(mem)]
           IN \/ WriteRelease(Patched(new)) /\ StopProcessing /\ UNCHANGED faults
              \/ Fault /\ RequeueWithError /\ NoWrite

-----------------------------------------------------------------------------
(* The surroundings. *)

\* The service that creates automated Releases marks them in a second call.
SetAutomated ==
  /\ release.exists /\ release.labels.automated
  /\ ~release.status.automated
  /\ WriteRelease([release EXCEPT !.status.automated = TRUE])
  /\ UNCHANGED <<referred, mem, base, pc, queued, late, creator, edits, faults>>

FiveMinutesPass ==
  /\ release.exists /\ ~late
  /\ late' = TRUE
  /\ UNCHANGED <<referred, release, cache, mem, base, pc, queued, creator, edits, faults>>

\* The informer catches up.
Sync ==
  /\ cache # release
  /\ cache' = release
  /\ UNCHANGED <<referred, release, mem, base, pc, queued, late, creator, edits, faults>>

\* A PipelineRun of the Release changes; there is none before the expiration
\* time is set.
PipelineRunEvent ==
  /\ release.status.expiration # -1 /\ ~queued
  /\ queued' = TRUE
  /\ UNCHANGED <<referred, release, cache, mem, base, pc, late, creator, edits, faults>>

\* The initial list of the new manager queues every Release.
Restart ==
  /\ release.exists
  /\ Fault
  /\ RequeueWithError /\ cache' = release
  /\ UNCHANGED <<referred, release, late, creator, edits>>

Controller ==
  /\ \/ Reconcile
     \/ EnsureReleaseIsRunning
     \/ validatePipelineDefined
     \/ validateProcessingResources
     \/ validateApplication
     \/ validateAuthor
     \/ validatePipelineSource
     \/ EnsureReleaseIsValid
     \/ EnsureApplicationMetadataIsSet
     \/ EnsureReleaseExpirationTimeIsAdded
  /\ UNCHANGED <<referred, late, creator, edits>>

Next ==
  \/ CreateRelease \/ UpdateRelease \/ EditPlan \/ EditOthers
  \/ SetAutomated \/ FiveMinutesPass \/ Sync \/ PipelineRunEvent \/ Restart
  \/ Controller

Spec == Init /\ [][Next]_vars

\* The work queue is served and time passes.
FairSpec == Spec /\ WF_vars(Controller) /\ WF_vars(FiveMinutesPass)

-----------------------------------------------------------------------------
(* Properties. *)

\* Every variable keeps its type.
TypeOK ==
  /\ plan \in Plan /\ admission \in Admission /\ snapshot \in Snapshot
  /\ release \in Release /\ cache \in Release /\ mem \in Release /\ base \in Release
  /\ pc \in {"idle", "ReleaseIsRunning", "PipelineDefined", "ProcessingResources", "Application",
             "Author", "PipelineSource", "valid", "invalid", "ApplicationMetadataIsSet",
             "ExpirationTimeIsAdded"}
  /\ queued \in BOOLEAN /\ late \in BOOLEAN /\ creator \in Authors \cup {None}
  /\ edits \in 0..MaxEdits /\ faults \in 0..MaxFaults

\* A Release that validation has accepted has an author and a target, even when
\* the label, the ReleasePlan or its author changed between two validations
\* (validateAuthor, validatePipelineDefined).
ValidatedIsAttributed ==
  release.status.conds.validated = "succeeded" =>
    release.status.author # None /\ release.status.target # None

\* The author recorded without a standing authorization is the user who created
\* the Release, as the webhook wrote it, whatever was edited since and however
\* often it was validated (handleRelease, validateAuthor).  This is for Releases
\* that were not created as automated: the webhook writes no author for those.
AuthorIsTheCreator ==
  creator # None /\ release.status.author # None /\ ~release.status.standing =>
    release.status.author = creator

\* The labels by which Releases are found agree with the spec and fit the limit
\* of label values, through creation and updates (Default, ValidateUpdate).
LabelsNameTheSpec ==
  release.exists => release.labels.name = release.spec.name /\ release.spec.name \notin LongNames

\* No patch of the controller takes back that another service has marked the
\* Release as automated in the meantime (client.MergeFrom).
MarkIsNeverLost == [][release.status.automated => release'.status.automated]_vars

\* The expiration time follows the grace period the Release was admitted with:
\* neither a later edit of the ReleasePlan nor a stale cache changes it
\* (Default, EnsureReleaseExpirationTimeIsAdded).
KeptForGracePeriod ==
  release.status.expiration # -1 /\ release.spec.grace # 0 =>
    release.status.expiration = release.spec.grace

\* Every Release is judged: one that waits to be marked as automated does so
\* for five minutes only (validateAuthor, EnsureReleaseIsValid).
EveryReleaseIsJudged == release.exists ~> release.status.conds.validated # "unset"

\* Every Release gets an expiration time (the comment of
\* EnsureReleaseExpirationTimeIsAdded).  One whose Snapshot cannot be found does
\* not: EnsureApplicationMetadataIsSet fails before.
EveryReleaseExpires == release.exists ~> release.status.expiration # -1

=============================================================================
