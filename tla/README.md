# TLA+ specifications of the release service

The release service is a Kubernetes operator. An author creates a `Release`,
which names a `Snapshot` and a `ReleasePlan`; the `ReleasePlan` may name a target
namespace, where a `ReleasePlanAdmission` of the managed team says which pipelines
may run. The operator runs up to five Tekton pipelines for the Release, one after
the other, and reports on them in the status of the Release.

This directory holds models of the operator's core, the TLC configurations that
check them on small instances and TLAPS proofs for every instance. Paths below are
relative to the root of the repository.

## Inventory

| Component | State | Operations | Interacts with |
|---|---|---|---|
| Release status (`api/v1alpha1/release_types.go`) | conditions, managed pipeline attempts, RoleBinding references | `Mark...`, `Has...`, `Is...` | called by the Release adapter |
| Release controller (`controllers/release`) | none of its own: a copy of the Release during a reconcile; labelled PipelineRuns and RoleBindings in the API server | the 21 `Ensure...` operations of `Reconcile` | API server, informer caches, Tekton (creates PipelineRuns, watches them), loader |
| Loader (`loader/loader.go`) | none | lookups by label, by reference and by field index; matching of plans and admissions | informer caches |
| ReleasePlan and ReleasePlanAdmission controllers (`controllers/releaseplan`, `controllers/releaseplanadmission`, `controllers/utils`) | the matching information in the status of both resources, the retry information of the admission | `EnsureMatchingInformationIsSet`, `EnsureRetryInformationIsSet` | each other, through the events of the objects they patch |
| Retry decision and mitigations (`retry`) | none (pure functions) | `DetermineRetryInfo`, tag and pipeline matching, increments of memory and timeouts, merge of overrides | both controllers |
| PipelineRun builder (`tekton/utils`) | the PipelineRun under construction | `With...`, timeout adjustment | Release adapter, git references |
| Git references (`git`) | none | resolves a branch to a commit, with retries on rate limits | builder; a git host |
| Webhooks (`api/v1alpha1/webhooks`) | none | author, defaults and validation of one object per request | API server; decide what the Release adapter finds in labels and spec |
| KubeArchive client (`kubearchive`) | none | looks for a Snapshot that is no longer in the cluster | loader |
| Metrics, tracing, snapshot syncer, field indexes, manager | counters, spans, registrations | | |

What is hard about it:

* *Interleaving.* A reconcile is a walk through 21 operations, most of which
  patch the status. Between any two of them a PipelineRun may finish or be deleted,
  the admission may be blocked, the author may delete the Release, the process may
  die. The validation alone reads the ReleasePlan five times, and the ReleasePlan may
  be another one each time. Every reconcile starts from the beginning and has to find out from
  labels and conditions how far the last one came.
* *Failure.* Every call may fail; some errors requeue the Release, others (an
  admission webhook that refuses a PipelineRun) fail it for good, and some are
  only logged. PipelineRun and RoleBindings are created before the patch that
  registers them.
* *Stale reads.* Reads go to informer caches that lag behind. Patches are merge
  patches without a resource version: they replace the list of conditions as a
  whole by what the adapter computed from its possibly old copy.
* *Retries.* The next attempt of a managed pipeline is made from the last PipelineRun, the
  ReleasePlanAdmission as it is now and what the status says about the failure; each of the
  three may be missing, and the timeouts have to fit into each other at the end.
* *Events.* A Release is queued again only for the events that pass the
  predicates: a change of its generation or its deletion, a finished or deleted
  PipelineRun. A patch of the status alone triggers nothing.

What makes the core correct: phases run in order; a failure is never lost; a
Release marked as released has run everything it had to; no PipelineRun is made
twice; retries are bounded and each is given more of what the last one lacked;
RoleBindings live as long as they are needed; nothing the status knows of is left
behind by a deleted Release; an accepted Release has an author; every Release is judged
and finishes in the end. The hazards in `PROJECT.json` say where in the code
each of these can go wrong.

## Modules

### `ReleaseStatus`

The Release as a record: its life in the API server (`present`, `deleting`,
`finalizer`), a value for each condition type, the managed pipeline attempts and
the references to the RoleBindings of the collectors. A condition is the pair of
status and reason, with five values (`unset`, `progressing`, `succeeded`, `failed`,
`skipped`). The operators are the functions of `release_types.go` by their own names;
the five families `Mark<Phase>PipelineProcessing...` differ only in the
condition they touch and are one operator with the phase as a parameter. Times,
messages and metrics are left out: no decision of the controller reads them.

### `ReleaseController`

One Release with everything around it. The variables are

* `plan`, `admission`: what the ReleasePlan and the ReleasePlanAdmission ask for, and
  whether the admission is active;
* `rel`, `cache`, `mem`: the Release in the API server, in the informer cache and in
  the adapter (`a.release`);
* `pc`, `queued`: the next operation of the running reconcile, and whether the Release
  is in the work queue;
* `runs`, `bindings`, `made`: the PipelineRuns and RoleBindings in the API server and
  how many were ever made;
* `faults`, `disruptions`: counters for the two bounds.

Each operation of `Reconcile` (`controllers/release/controller.go`) is one action named
after it. An operation is atomic up to its first API call that changes something,
and the changes are made in one step; a failure may happen before or after each
call, and the state it leaves is that of the calls made so far. This is exact as
long as nobody else changes what the operation read; the operations read
caches, whose lag is modelled separately. An operation that continues moves `pc`; one that
stops or requeues drops the adapter's copy. `Patched` is what a merge patch computed by
`client.MergeFrom` leaves in the API server: lists are replaced, other fields merged.

The environment: `FinishRun` is Tekton; `DeleteRun`, `DeleteRelease` and `ChangeAdmission` are
people; `ObserveRelease`, `ObserveRun` and `Resync` are the informers; `Restart` is a new
process with full caches, which queues every Release. Events queue the Release exactly
when the predicates of `tekton/predicates.go` and `Register` let them pass.

A plan says which pipelines are defined, whether there is a target, which
RoleBindings each pipeline needs, how many retries are allowed, whether a tag of
the Release forbids them, and whether the objects outside of the model (author,
application, snapshot) pass validation.

### `MCReleaseController`

The plans the runs use. The theorems are in `ReleaseController_proofs`, `ReleaseFinalizer_proofs`, `ReleaseSteps_proofs` and
`ReleaseFresh_proofs`, each of which extends the one before.

### `ReleaseLife` and `ReleaseRefinement`

`ReleaseLife` is the abstract specification: what the author of a Release is promised and
can see in its status. It knows the five conditions, the verdict (`Released`), the
status of the attempts and whether the Release exists, and has one action for each change:
`Start`, `Begin`, `Skip`, `Succeed` and `Fail` of a phase, `FailAttempt` and `Retry` of the managed
pipeline, `Reject` (validation), `Complete`, `Remove`. There are no operations, PipelineRuns,
caches, errors or restarts. `Abandon` is there because the code does it: a phase that
is running when a later validation rejects the Release is marked as skipped (see
`EarlyCleanUp` below).

`ReleaseRefinement` maps `ReleaseController` to it: the status of the Release in the API
server, the pipelines the plan asks for, and the retries the admission grants unless a tag forbids
them. `ImplementsReleaseLife` says that every step of the controller, with all its failures, is one of
these actions or changes nothing of what the author sees. It is claimed for fresh
caches: a reconcile on an old Release can set a condition back.

### `Matching`

The ReleasePlan and the ReleasePlanAdmission controller. Each writes into the
status of its own objects which objects of the other kind they match, each is woken by
the patches of the other, and neither looks at anything it was not woken for.

State: both kinds of objects in the API server (`plans`, `admissions`) and in the
informer cache (`plansSeen`, `admissionsSeen`), the two work queues, the running reconcile of
each object (`planWork`, `admissionWork`) and whether the configuration makes the pipeline
retryable. A reconcile reads in one step and patches in another, so that reconciles
of different objects, edits and events come between. `ObservePlan` and `ObserveAdmission` bring a version
into the cache and queue whatever the predicates and
`EnqueueRequestForMatchedResource` let through. `ChangePlan`, `ChangeAdmission` and `ChangeConfig` are
people; `Restart` is a new process, for which every object is an event.

Abstractions: one tenant and one managed namespace, so a target or an origin is right or
wrong; applications and component groups are one set; a transition time is one of two values,
enough to tell a version from the one before; pipeline, data and configuration are
reduced to whether they make retries possible, and the tags of a
ReleasePlan to whether one of them disables retries. A label without a value is not told
from a missing one.

`MCMatching` holds the specifications of objects that the runs choose from.

### `Mitigations`

Pure operators: `AdjustTimeouts` and Tekton's own rule for timeouts, the three mitigations of
`retry/mitigations.go` with their ceilings, `MergeTaskRunSpecs`, and the lookups of the memory of a step
and the timeout of a task. Durations and memory are natural numbers and `Nil` stands for a nil
pointer; zero and `Nil` are told apart wherever the code does. The buffer of
ten minutes is `10 * Minute`, so that an instance can choose its unit. `TektonAccepts` is the rule of Tekton's webhook: no part is longer
than the whole, which is an hour when it is not given, both parts together neither, and a part may be without a timeout (zero) only when the whole is. Negative durations,
which the code would take for unset ones, are not modelled. A multiplier is given in
hundredths and rounded up, as `multiplyQuantity` rounds up.

### `ManagedPipeline`

The contents of the managed PipelineRuns of one Release, from the first attempt to the last.
State: the pipeline and the retry information of the ReleasePlanAdmission, the PipelineRuns
(timeouts, overrides, git revision, how they failed), the attempts in the status, the managed
condition and the last creation error. The operations of the adapter that matter here are
`EnsureManagedPipelineIsProcessed`, `EnsureManagedPipelineProcessingIsTracked` and
`EnsureManagedPipelineProcessingIsCompleted`, with `createManagedPipelineRun`, `computeRetryOverrides` and
`registerManagedProcessingStatus`. A creation may fail in the git configuration, at
the git host (missing branch, no answer, refused, rate limit), at the API server, for now or for
good, or because Tekton refuses the timeouts of the PipelineRun (`createAndRegister`), which fails the Release for good; the controller may die between creation and registration; the failed PipelineRun may be gone or its
TaskRuns may not be listed; somebody may edit the pipeline between two attempts. The retry policy stays as it was at the start: an edit that makes
the other controller compute it again between two attempts is not modelled, and `GrowthIsBounded` and `RetryHelps` are about one policy.
`ReleaseController` has the same attempts without contents and everything else around
them. `MCManagedPipeline` holds ten pipelines, five retry policies and the ways in which
a PipelineRun fails. `DurationsAssumption` leaves out a pipeline timeout of a single unit, which `AdjustTimeouts` would halve to zero: a
`metav1.Duration` counts nanoseconds.

### `Validation`

How a Release is admitted, attributed, judged and given an expiration time. State: the ReleasePlan, what a
search for the active ReleasePlanAdmission finds, the Snapshot (in the cluster, in the archive or nowhere); the
Release with its labels and the part of its status the other modules leave out (author, automated
mark, target, expiration), in the API server, in the cache and in the adapter; and
`base`, the deep copy a patch is computed against. `Patched` writes the fields in which `base` and the
adapter's Release differ, and leaves the others as somebody else may have written them.

`CreateRelease`, `UpdateRelease` and `EditPlan` contain the webhooks in the order in which the API server
calls them: author, defaults, validation. A request may bring labels of any kind. The author webhook overwrites the author label unless the request is for an automated
Release, whose label it leaves as it is; the history variable `creator` has the user of the request in the first case and `None` in the second. A reconcile goes through `EnsureReleaseIsRunning`, the five
validations one by one, the patch of `EnsureReleaseIsValid`, `EnsureApplicationMetadataIsSet` and
`EnsureReleaseExpirationTimeIsAdded`; there the modelled part ends. Each validation reads the objects afresh. The
operator loads its configuration in every reconcile, so whether it is in debug mode is a free
choice each time. The cache is at most one write behind. PipelineRuns exist only after the expiration time
is set, and so do their events. `SetAutomated` is the service that created an automated Release and marks it in
a second call, in time, late or never; `FiveMinutesPass` is the end of the time the adapter waits for it.
`ReleaseController` reduces all this to whether a Release validates. `MCValidation` holds the objects.

## Runs

| Run | Instance | Shows |
|---|---|---|
| `Faults` | five plans; one failed call or restart; one block of the admission or deletion of a PipelineRun; the Release deleted at any time; fresh caches | the invariants and action properties of the core, and that it implements `ReleaseLife` |
| `Stale` | a tenant and a managed pipeline; caches of any age, two reconciles on lagging caches or failures; the Release deleted at any time | order, report of failures, completeness and the finalizer rule do not rest on fresh caches |
| `Liveness` | two plans, one fault, one disruption, fairness | every Release completes; finalizers are removed |
| `EarlyCleanUp` | a managed pipeline, one block of the admission | the clean-up does not wait for a PipelineRun whose Release was rejected (below) |
| `Mitigated` | ten pipelines, five policies, up to three attempts, one edit, one fault | retries help, accumulate timeouts, stay below their ceilings and are accepted by Tekton, but for timeouts of zero alone; outages do not fail a Release; the status tells the truth |
| `LostMitigation` | the same without edits and faults | a recorded memory mitigation is lost to that of another step of the task (below) |
| `Validated` | two users, three plans, two admissions, three Snapshots, one edit, one fault or restart, cache one write behind, fairness | what is accepted is attributed, labels and grace period are those of the creation, the author is the creator unless the Release was created as automated, the automated mark is not lost, every Release is judged |
| `NeverExpires` | the same | a Release without Snapshot gets no expiration time (below) |
| `MatchOneAtATime` | one ReleasePlan, two ReleasePlanAdmissions, two edits made at rest, one failed call or restart, fresh caches, fairness | every false match is taken back, both sides of a match know of it, tags disable retries, the controllers come to rest |
| `MatchRestart` | two admissions, open at first, one edit at any moment, two failed calls or restarts, fresh caches, transitions within one second | a restart puts every status right, after a failed list or a lost event too |
| `MatchMoved`, `MatchUnhealed` | smallest instances | two situations in which the code does not do what its comments say (below) |

In the core runs `MaxFaults = 1` lets a single failure hit any call of any operation of any reconcile. The
properties relate what one interrupted reconcile leaves behind to what the next ones make
of it; each needs one interruption to break, as their mutants show, and the theorems
below cover any number of them. `MaxDisruptions = 1` is enough for the admission to be blocked
from the start and to come back, or to go half-way. Two retries (`RetryPlan`) make the
attempt lists long enough for first, current and next attempt to differ.

In the runs of `Matching` an edit replaces the whole specification of an object by any other one of the
instance, or creates or deletes it; the specifications differ in one respect at a
time, so two edits take an object from one kind of change to another. Two
ReleasePlanAdmissions are enough for an ambiguous match. A cache is at most one version behind
its object, which keeps events from being merged: merged events would only hide more. `Patient = TRUE`
means that people edit only when both controllers are at rest. `NoFalseMatch` is claimed for such
edits and for fresh caches: a ReleasePlanAdmission that gives up an application between
the moment a ReleasePlan is matched to it and the moment it lists that ReleasePlan passes
its event on to the ReleasePlans in its status, where this one is missing. `CoarseClock = TRUE` lets two
transitions have the same time, to the second. In `MatchRestart` two faults let a failed list, which unmatches a ReleasePlan or drops the
event of a changed configuration, come before the restart; `OpenSpec` keeps the run small by its first objects.

In `Mitigated` a unit is a minute. The pipelines have timeouts below, at and above the buffer, zero, unset and contradictory
ones, a timeout for `finally` alone and a zero alone; overrides of a task and of a step; every kind of git
reference. The policies have ceilings below and above the values they apply to, a ceiling of zero, or none. Two
retries let one mitigation follow another, for the same task or step or for a different one; more retries repeat
this. One edit and one fault can fall between any two steps.

In `Validated` the plans, admissions and Snapshots differ in what each validation decides on, and the one edit takes any of them to any
other, or changes the labels, between any two validations. Names are short or too long. Two users are enough to tell an author
from another. The grace period of a Release is its own or comes from one of two plans.

Deadlock is not checked: a finished Release, and controllers without work, are at rest.

**Fairness** (`FairSpec`): the work queue hands out what is in it and a reconcile takes its next
step (a Go worker is not stopped by anything but a restart); Tekton finishes every
PipelineRun, since they have timeouts; informers catch up; and a finished PipelineRun
causes another event in the end, by the resync of the informer or by an update of
another controller. Nobody is obliged to unblock an admission, so the liveness
properties ask for one that stays active. In `Matching` the informers and the workers of the two
controllers, taken together, go on as long as they have something to do. In `Validation` the work queue is served and
time passes; the mark of an automated Release need never come.

### Where code and comments differ

* `EarlyCleanUp`: validation is repeated in every reconcile. When the admission is blocked while the managed PipelineRun
  is running, the Release is marked as failed and the running phase as skipped. All phases
  then count as finished, and the next reconcile removes the finalizer and the RoleBinding of a PipelineRun that
  goes on; `EnsureReleaseProcessingResourcesAreCleanedUp` says "once processing is finished".
* `LostMitigation`: `computeRetryOverrides` takes the failed PipelineRun as base "so mitigations accumulate". For
  timeouts they do (`TimeoutsAccumulate`). The override for a step replaces all step overrides of its
  task. In the trace the step `upload` runs out of memory in the first attempt, the second has more memory for it, as its attempt records, and runs out of
  memory in `sign`; the third attempt has more for `sign`, and `upload` is back at the memory that was too little.
* `NeverExpires`: a failed validation continues "so we can complete properly". For a Release whose Snapshot is neither in the
  cluster nor in the archive, `EnsureApplicationMetadataIsSet` then fails in every reconcile: the Release is requeued for
  ever, finishes no phase and gets no expiration time.
* `MatchMoved`: `MatchPredicate` "returns true when [...] the matched resource of one changes", but what
  it compares is the transition time of the Matched condition, which stays when the match moves from one
  ReleasePlanAdmission to another. The new one is not told and does not list the ReleasePlan.
* `MatchUnhealed`: a reconcile that works on a copy of a ReleasePlan older than its first match
  patches the condition to False and leaves the name; `MarkUnmatched`, which "marks the
  ReleasePlan as not matched to any ReleasePlanAdmission", then returns early for ever.

### Observations

What else the models do because the code does; no run is about these:

* The RoleBinding of a managed PipelineRun that is refused for good is recorded in the deprecated
  `status.managedProcessing` (`controllers/release/adapter.go:608`), where neither clean-up nor finalizer looks.
  The RoleBindings that `handlePipelineCreationError` records wait for a reconcile that nothing triggers
  (`controllers/release/utils.go:27`).
* A managed PipelineRun that was created while its registration failed is not deleted with the Release:
  `finalizeRelease` goes by the registered attempts (`adapter.go:1791`).
* A retry found by its label after a crash is registered without the mitigation it was created with.
* The tasks timeout in `AppliedMitigation` is recorded before `AdjustTimeouts`, which may lower it. The
  pipeline timeout may exceed its ceiling by the time for `finally`, or because a task was given more. A value that is above
  the ceiling to begin with is reduced by its mitigation.
* `AdjustTimeouts` returns timeouts as they are when none is positive (`tekton/utils/pipeline.go:232`). A zero for tasks or finally without a timeout for
  the pipeline (`OnlyZeros`) is then refused by Tekton and the Release fails; `TimeoutsAreAccepted` makes this exception. It makes another for a policy with a ceiling
  of zero, which takes the pipeline timeout away instead of raising it.
* When the TaskRuns of a failed attempt cannot be listed (`adapter.go:2130`), the attempt is recorded as a plain error and the retry it deserved is
  not made.
* A Release that was created as automated keeps the author label of its request. `AuthorIsTheCreator` does not speak of
  such a Release: when its automated label is dropped, that label is what is recorded.
* A Release without grace period whose ReleasePlan is not found expires at its creation.
* A reconcile on an old copy of an automated Release may attribute it again, to the author the
  ReleasePlan has by then. On a copy from before the verdict it writes the conditions of that copy back; the next
  reconcile judges again.
* A ReleasePlan that is deleted and created again under its own reconcile may end with Matched "True" and no admission
  (see Matching under Proofs).
* The default of the `auto-release` label is added to a ReleasePlan only when it has no labels at all.

## Proofs

TLAPS checks the theorems below for every value of the constants that the named assumptions of the modules
allow: any plans, objects and policies, any number of faults, edits, retries and restarts.

| Module | Theorems | Hypotheses |
|---|---|---|
| `ReleaseController_proofs` | `TypeCorrect`, `OrderIsKept`, `FailuresAreReported`, `ReleasedIsComplete` | none: caches of any age |
| `ReleaseFinalizer_proofs` | `CreationIsGuarded` | none: caches of any age |
| `ReleaseFresh_proofs` (over the lemmas of `ReleaseSteps_proofs`) | `FreshInvariance`, `ReleasedWasValidated`, `RunsAreNotDuplicated`, `RetriesEnd`, `RecordedSuccessIsReal`, `BindingsLastLongEnough`, `DeletionIsThorough`, `FinishedStaysFinished`, `LifeIsImplemented` | fresh caches (`~StaleReads`) |
| `ManagedPipeline_proofs` (over the lemmas of `Mitigations_proofs`) | `ManagedPipelineTypeCorrect`, `EveryPipelineRunIsAccepted`, `RetriesStayWithinTheirCeilings`, `MitigatedRetriesHelp`, `RecordsAreTrue`, `TaskTimeoutsAccumulate`, `OnlyLastingErrorsAreFinal` | none beyond the assumptions of the modules |
| `Validation_proofs` | `ValidationTypeCorrect`, `AcceptedReleasesAreAttributed`, `RecordedAuthorIsTheCreator`, `LabelsFollowTheSpec`, `ExpirationFollowsGracePeriod`, `MarkIsKept` | none: a cache one write behind |
| `Matching_proofs` | `MatchingTypeCorrect` | none: caches of any age |
| | `HealInvariance`, `RestartsHeal`, `UnmatchedPlansNameNobody` | fresh caches, and `PlansAreNotReplaced` |
| | `ClaimInvariance`, `FalseMatchesAreTakenBack`, `MatchesAreMutual`, `TagsAreHeard` | `OneAtATime`: fresh caches, patient people, distinct transition times, no designating label, no move to another application |

### The core, with caches of any age

None of `PhasesInOrder`, `FailureIsReported` and `ReleasedMeansEverythingSucceeded` is inductive. A patch replaces the
conditions in the API server by those of the adapter's copy, so an invariant of `rel` alone says nothing about the
next state: the invariant `Inv` asks of *every* copy (`rel`, `cache`, `mem`) that it is
`Consistent`, that is in order, with failures reported, with no unplanned
phase begun, and complete when released. This works because each operation
computes the new conditions from one copy: it is enough that each `Mark` function leads
from a consistent Release to a consistent one (`BeginConsistent`, `SucceedConsistent`,
`SkipConsistent`, `FailConsistent`, ...). Two more facts are needed. `MarkReleaseFailed` does
nothing on a Release that is not releasing, so a phase may be failed only after
`EnsureReleaseIsRunning`: `Inv` says that after this operation the adapter's copy has
`Begun`, and that a copy that has begun means the API server's has. And a
phase that fails must be a planned one or follow from a failed Release, which needs
that PipelineRuns exist only for planned phases (`ObjectsOK`). The proof that a
step keeps `Inv` has a lemma per operation, on top of lemmas for the ways in which an
operation ends (`PassStep`, `PatchStatusStep`, `RequeueStep`, ...).

`CreationIsGuarded` proves the action property `RunsAreCreatedUnderFinalizer`. Whether the API server has the
finalizer cannot be read off a copy that may be old; `FinalizerInv` says which copies vouch for it (`Guarded`): one with
the finalizer and without deletion timestamp, because the finalizer goes only in a reconcile that has seen the
timestamp. `Numbered` says that new PipelineRuns are the ones with numbers above `made`.

### The core, with fresh caches

The properties about PipelineRuns, RoleBindings, retries and finality are false when a cache may lag: a reconcile
that starts on an old Release overwrites newer conditions, and one that does not see a new PipelineRun makes
another. They are proved for `~StaleReads`, which still leaves every interleaving with
Tekton and people, every failed call and every restart.

`FreshInv` adds to `FinalizerInv`: all copies agree on the status (`Fresh`); attempts and managed condition fit
(`StatusOK`); what the place in the reconcile says about the verdict (`PlaceOK`), since a
blocked admission makes a later reconcile fail a Release that an earlier one has accepted; PipelineRuns are unique,
those of unfinished phases keep their finalizer, and a phase that is processed has the PipelineRun it waits for (`RunsOK`);
references to RoleBindings are not confused with those of other phases (`BindingsOK`). The last two are needed because `Track`
judges a phase by whatever PipelineRun it finds, and because the clean-up deletes by number. `ReleaseSteps_proofs` first reduces the
twenty-one operations with their errors and early returns to a few kinds of steps (a condition is set, a phase begins with a
registered PipelineRun, an attempt ends, a retry is registered, objects are made and not registered, ...);
`ReleaseFresh_proofs` proves every part of the invariant once per kind of step.

`LifeIsImplemented` is the refinement: the mapping of `ReleaseRefinement` takes initial states to initial states
and each kind of step to an action of `ReleaseLife` or to a stutter. The invariant is what shows that a retry comes only
after a retriable failure within the granted number, and that nothing finished is touched.

### Retries and mitigations

`Mitigations_proofs` has what `AdjustTimeouts`, the three mitigations and the merge of overrides do for all durations,
zero and unset ones included. The invariant of `ManagedPipeline` says of every PipelineRun that its timeouts are
the defaults or come out of `AdjustTimeouts` and that its overrides are within ceilings or written by people (`Made`), and of every attempt that what it
records is what its PipelineRun was made with (`Explained`, `History`). For `TimeoutsAreAccepted` this is extended by `Refusals`: every PipelineRun that exists has timeouts
Tekton accepts, and a refusal is one of the exceptions and has failed the Release. The first PipelineRun passes because `AdjustTimeouts` makes any timeouts but
`OnlyZeros` fit (`AdjustedIsAccepted`); a retry starts from timeouts that were accepted, which a mitigation raises without making them zeros
(`RetriedIsAccepted`), and is adjusted again. `GrowthIsBounded` counts the defaults, and what
`AdjustTimeouts` makes of them on a retry, among the timeouts without mitigation, and leaves a pipeline timeout the
buffer of ten minutes above its ceiling; a memory limit is compared with those that people wrote for the same step.
`TimeoutsAccumulate` leaves out a failed PipelineRun without overrides: its retry starts from the
ReleasePlanAdmission, which somebody may have edited.

### Validation

A patch writes the fields in which the adapter's Release differs from the deep copy `base`, onto a Release that somebody else may
have written meanwhile. The invariant asks of every copy, `base` included, that it is `Sound`: it is the
admitted Release with its spec and author label, its label is the `creator` unless it was created as automated, and its status agrees with these. For an accepted Release it also says
which validations the running reconcile has passed (`Held`), since author and target are written by different
validations and patched together.

### Matching

`HealInv` is the argument for `RestartHeals`. Since the last start, if nothing was edited and no call failed: an object whose status is
not what the loader finds is in its work queue, in work with a patch that will put it right, or has an event to come
(`Heals`). To keep this one has to know that an early return (`IsSameMatch`, `IsSameList`) leaves a right status
alone, for which the parts of a status must agree (`Coherent`): a match that says "True" names somebody. That is the
place where it can break. If a ReleasePlan is deleted and created again while its own reconcile is under way, and the match had moved,
the merge patch leaves a status with Matched "True" and no name, which `MarkMatched` then never repairs; TLC
finds this with two such replacements. Hence the hypothesis `PlansAreNotReplaced`: people wait until
the controllers are at rest, or do not both create and delete ReleasePlans. `UnmatchedPlansNameNobody`
proves the property that the run `MatchUnhealed` refutes, from the hypothesis that caches do not lag: the lag is the cause.

`ClaimInv` is the argument for `NoFalseMatch`, `MatchIsMutual` and `TagsDisableRetries`, which speak of states at rest only and so say
nothing about how the controllers get there. It adds to `HealInv` that running reconciles have computed what is right
(`PlanWorkFresh`, `AdmissionWorkFresh`) and, of every ReleasePlan that names a ReleasePlanAdmission, that

* the claim is right, or the ReleasePlan is in its queue, in work or has an event on its way, or another
  ReleasePlanAdmission fits that does not list it yet, and listing it will wake it up (`ClaimIsRight`). The last case is
  the hard one: a second candidate makes a match ambiguous, and the ReleasePlan hears of it only from the patch of that candidate's list;
* the match has not moved to another ReleasePlanAdmission (`ClaimStays`). This is what makes the merge patch of a new claim
  change the transition time, the only thing that passes the predicate of the other controller;
* the ReleasePlanAdmission that it names lists it and heeds its tag, or has a reconcile or an event to come (`ClaimIsHeard`).

An event that has not arrived is a difference between cache and object that passes the predicates (`PlanWakes`,
`PlanWakesAdmission`, `AdmissionWakes`, `AdmissionWakesPlan`), so the proof goes through the predicates
field by field. Each part of `OneAtATime` is needed: TLC finds a violation with lagging caches or edits at any
time (`NoFalseMatch`), with equal transition times, with a designating label or with a ReleasePlan that moves
to another application (`MatchIsMutual`; the last is the run `MatchMoved`). The instance of `MatchOneAtATime` satisfies `OneAtATime`.

### What is not proved

Liveness (`EveryReleaseCompletes`, `FinalizersAreRemoved`, `EveryReleaseIsJudged`, `ComesToRest`): fairness is out of the
prover's reach. Every invariant and every action property of a passing run is a theorem, with the hypotheses of the table.

## Not modelled

* Parameters, workspaces, volumes, owner annotations and service accounts of PipelineRuns, messages and artifacts: they fill
  fields in, and no decision depends on them.
* Metrics and tracing: output that the operator does not read back. The syncer, which no controller calls. The
  field indexes and the start of the manager: registration.
* HTTP, tokens and decoding of the KubeArchive client, and URLs and credentials of the git references: their answers are
  modelled where the operator decides on them (`GetSnapshot`, `WithPipelineRef`).
* The webhooks of ReleasePlan and ReleasePlanAdmission, which set a default label and check the length of names of a single object:
  a property of them would restate the check.
* Lookups of previous Releases, whose results are only passed on to pipelines.
* A second Release: the controller handles Releases independently, and labels
  tell their PipelineRuns apart.

## Plan

Modelling is complete as far as the code has decisions to model, and every safety property of a passing run is proved.
When the code changes, the runs whose instances cover the change come first, then the
lemmas of the operations it touches.
