-------------------------- MODULE ReleaseController --------------------------
(***************************************************************************)
(* The Release controller (controllers/release): one Release, its adapter, *)
(* the PipelineRuns and RoleBindings the adapter creates, and what runs    *)
(* around them: the API server, the informer caches, Tekton, the users and *)
(* administrators of the cluster.                                          *)
(*                                                                         *)
(* A reconcile is a walk through the list of operations of Reconcile; pc   *)
(* names the next one.  Each Ensure operation is one action; a call to the *)
(* API server may fail inside it, which costs one of MaxFaults.            *)
(***************************************************************************)
EXTENDS ReleaseStatus

CONSTANTS
  Plans,           \* the ReleasePlan / ReleasePlanAdmission pairs to consider
  Disruptions,     \* what people do: subset of {"block", "deleteRun", "deleteRelease"}
  MaxDisruptions,  \* bound on "block" and "deleteRun" steps
  MaxFaults,       \* bound on failed API calls and controller restarts
  StaleReads       \* may the informer caches lag behind the API server?

VARIABLES
  plan,        \* the ReleasePlan and ReleasePlanAdmission of the Release
  admission,   \* "active", or "unavailable": blocked by label, or no match
  rel,         \* the Release in the API server
  cache,       \* the Release in the informer cache
  mem,         \* a.release: the adapter's copy during a reconcile
  pc,          \* "idle" or the operation to run next
  queued,      \* is the Release in the work queue?
  runs,        \* the PipelineRuns in the API server
  bindings,    \* the RoleBindings in the API server
  made,        \* how many PipelineRuns and RoleBindings were ever created
  faults,      \* how many faults have happened
  disruptions  \* how many disruptions have happened

vars == <<plan, admission, rel, cache, mem, pc, queued, runs, bindings, made,
          faults, disruptions>>

\* The objects the adapter creates, and what only the environment changes.
objects == <<runs, bindings, made>>
environment == <<plan, admission, disruptions>>

Slots == {"tenant", "managed", "secret"}

Plan == [pipelines : SUBSET Phases,        \* the pipelines that are defined
         target : BOOLEAN,                 \* does the ReleasePlan name a target?
         bindings : [Phases -> Seq(Slots)],\* the RoleBindings a pipeline needs
         maxRetries : Nat,                 \* 0: retries are not enabled
         retryDisabled : BOOLEAN,          \* does a Release tag disable retries?
         sound : BOOLEAN]                  \* do author, application and source check?

ASSUME PlansAssumption == Plans \subseteq Plan
ASSUME BoundsAssumption == /\ MaxFaults \in Nat
                           /\ MaxDisruptions \in Nat
                           /\ StaleReads \in BOOLEAN
                           /\ Disruptions \subseteq {"block", "deleteRun", "deleteRelease"}

\* seen: is the PipelineRun in the informer cache?  "exhausted": it failed on
\* memory or on a timeout, which a retry may mitigate; "error": anything else.
PipelineRun == [id : Nat, phase : Phases, attempt : Nat,
                state : {"running", "succeeded", "error", "exhausted"},
                finalizer : BOOLEAN, deleting : BOOLEAN, seen : BOOLEAN]

RoleBinding == [id : Nat, phase : Phases, slot : Slots]

Operations ==
  {"FinalizersAreCalled", "ConfigIsLoaded", "CollectorsCleanedUp", "ProcessingCleanedUp",
   "ReleaseIsRunning", "ReleaseIsValid", "ApplicationMetadataIsSet", "FinalizerIsAdded",
   "ExpirationTimeIsAdded", "TenantCollectorsProcessed", "TenantCollectorsTracked",
   "ManagedCollectorsProcessed", "ManagedCollectorsTracked", "TenantProcessed",
   "TenantTracked", "ManagedProcessed", "ManagedTracked", "ManagedCompleted",
   "FinalProcessed", "FinalTracked", "ReleaseIsCompleted"}

Init ==
  /\ plan \in Plans
  /\ admission \in {"active", "unavailable"}
  /\ rel = NewRelease
  /\ cache = NewRelease
  /\ mem = NewRelease
  /\ pc = "idle"
  /\ queued = TRUE
  /\ runs = {}
  /\ bindings = {}
  /\ made = 0
  /\ faults = 0
  /\ disruptions = 0

-----------------------------------------------------------------------------
(* How an operation ends (operator-toolkit, controller.OperationResult). *)

\* ContinueProcessing: the next operation runs on the adapter's copy r.
ContinueWith(op, r) == pc' = op /\ mem' = r

\* StopProcessing: the reconcile is over and the adapter is dropped.
StopProcessing == pc' = "idle" /\ mem' = NewRelease

\* Requeue, RequeueWithError: the same, and the Release is queued again.
Requeue == StopProcessing /\ queued' = TRUE

\* The operation has nothing to do.
Pass(op) ==
  /\ ContinueWith(op, mem)
  /\ UNCHANGED <<rel, cache, queued, objects, faults>>

Fault == faults < MaxFaults /\ faults' = faults + 1

\* A call that changes nothing fails and the operation requeues.
CallFails == Fault /\ Requeue /\ UNCHANGED <<rel, cache, objects>>

-----------------------------------------------------------------------------
(* Writing the Release. *)

WriteRelease(r) == rel' = r /\ cache' = IF StaleReads THEN cache ELSE r

(***************************************************************************)
(* What a JSON merge patch computed by client.MergeFrom leaves in the API  *)
(* server when the adapter has changed its copy mem to new.  A list is     *)
(* replaced as a whole when it differs (conditions, attempts); the other   *)
(* fields are merged one by one.  There is no optimistic lock.             *)
(***************************************************************************)
Patched(new) ==
  [rel EXCEPT
     !.conds = IF new.conds # mem.conds THEN new.conds ELSE rel.conds,
     !.attempts = IF new.attempts # mem.attempts THEN new.attempts ELSE rel.attempts,
     !.refs = [b \in CollectorBindings |->
                 IF new.refs[b] # mem.refs[b] THEN new.refs[b] ELSE rel.refs[b]]]

\* The response of a patch replaces the adapter's copy.
PatchSucceeds(new, op) ==
  /\ rel.present
  /\ WriteRelease(Patched(new))
  /\ ContinueWith(op, Patched(new))
  /\ UNCHANGED <<queued, faults>>

\* The patch fails, by a fault or because the Release is gone.
PatchFails ==
  /\ \/ Fault
     \/ ~rel.present /\ UNCHANGED faults
  /\ Requeue
  /\ UNCHANGED <<rel, cache>>

\* RequeueOnErrorOrContinue(a.client.Status().Patch(...))
PatchStatus(new, op) ==
  /\ PatchSucceeds(new, op) \/ PatchFails
  /\ UNCHANGED objects

-----------------------------------------------------------------------------
(* Finding, cleaning up and deleting PipelineRuns and RoleBindings. *)

\* Mutant: a PipelineRun that is being deleted is not returned.
Listed_Live(p, k) == {x \in runs : x.seen /\ ~x.deleting /\ x.phase = p /\ x.attempt = k}

\* loader.GetReleasePipelineRun (attempt 0) and GetReleasePipelineRunAttempt:
\* one of the PipelineRuns with these labels that the cache shows.
Listed(p, k) == {x \in runs : x.seen /\ x.phase = p /\ x.attempt = k}

\* tekton.IsPipelineRunDone
IsPipelineRunDone(x) == x.state # "running" \/ x.deleting

\* Mutant: only the last attempt is cleaned up.
Labels_Last(r, p) == IF p = "managed" THEN {Len(r.attempts) - 1} ELSE {0}

\* The attempt labels under which the PipelineRuns of p are looked for when
\* they are cleaned up: the managed ones by the attempts in the status.
Labels(r, p) == IF p = "managed" THEN 0 .. Len(r.attempts) - 1 ELSE {0}

\* The PipelineRuns of phases P the loader returns: one of each label.
Picks(r, P) ==
  {S \in SUBSET {x \in runs : x.seen /\ x.phase \in P /\ x.attempt \in Labels(r, x.phase)} :
     \A p \in P : \A k \in Labels(r, p) :
       Listed(p, k) # {} => \E x \in Listed(p, k) : S \cap Listed(p, k) = {x}}

\* The RoleBindings of p the status of r refers to: for the managed pipeline
\* the one of the first attempt.
Referenced(r, p) ==
  {b \in bindings :
     \/ \E key \in CollectorBindings : key[1] = p /\ b.id = r.refs[key]
     \/ p = "managed" /\ Len(r.attempts) > 0 /\ b.id = r.attempts[1].roleBinding}

\* cleanupProcessingResources: without its last finalizer a PipelineRun that
\* is being deleted goes away.
RemoveFinalizers(S) ==
  (runs \ S) \cup {[x EXCEPT !.finalizer = FALSE] : x \in {y \in S : ~y.deleting}}

\* A finalizer change is an event for the Release (hasFinalizersChanged).
FinalizerEvent(S) == queued' = (queued \/ \E x \in S : x.finalizer)

-----------------------------------------------------------------------------
(* Reconcile: the Release is taken from the queue and read from the cache. *)

\* Do the informer caches lag behind the API server?
Lagging == cache # rel \/ \E x \in runs : ~x.seen

\* Starting on lagging caches counts as a fault, which bounds how often it
\* happens.
ReconcileFound ==
  /\ pc = "idle" /\ queued /\ cache.present
  /\ IF Lagging THEN Fault ELSE UNCHANGED faults
  /\ queued' = FALSE
  /\ ContinueWith("FinalizersAreCalled", cache)
  /\ UNCHANGED <<rel, cache, objects>>

ReconcileNotFound ==
  /\ pc = "idle" /\ queued /\ ~cache.present
  /\ queued' = FALSE
  /\ UNCHANGED <<rel, cache, mem, pc, objects, faults>>

-----------------------------------------------------------------------------
(* EnsureFinalizersAreCalled and finalizeRelease. *)

\* The order in which finalizeRelease visits the PipelineRuns, by phase and label.
FinalizeOrder(r) ==
  << <<"managedCollectors", 0>>, <<"tenantCollectors", 0>>, <<"tenant", 0>> >>
  \o [i \in 1 .. Len(r.attempts) |-> <<"managed", i - 1>>]
  \o << <<"final", 0>> >>

\* The RoleBindings deleted together with the PipelineRuns of a set of visits.
VisitedBindings(r, visits) ==
  UNION {Referenced(r, p) : p \in {q \in Phases : \E v \in visits : v[1] = q}}

\* finalizeRelease stops at its n-th visit: before touching anything (stage 0),
\* after deleting the RoleBindings (1), or after removing the finalizer (2).
FinalizeFails(S) ==
  \E n \in 1 .. Len(FinalizeOrder(mem)), stage \in 0 .. 2 :
    LET order == FinalizeOrder(mem)
        earlier == {order[i] : i \in 1 .. n - 1}
        begun == earlier \cup (IF stage > 0 THEN {order[n]} ELSE {})
        deleted == {x \in S : <<x.phase, x.attempt>> \in earlier}
        current == {x \in S : <<x.phase, x.attempt>> = order[n]}
    IN /\ Fault
       /\ runs' = (IF stage = 2 THEN RemoveFinalizers(current) ELSE runs) \ deleted
       /\ bindings' = bindings \ VisitedBindings(mem, begun)
       /\ UNCHANGED <<made, rel, cache>>
       /\ Requeue

\* Everything the status refers to is deleted; the deletion of a RoleBinding
\* that fails (kept) is only logged.  Then the Release loses its finalizer.
FinalizeSucceeds(S) ==
  \E kept \in SUBSET UNION {Referenced(mem, p) : p \in Phases} :
    /\ runs' = runs \ S
    /\ bindings' = bindings \ (UNION {Referenced(mem, p) : p \in Phases} \ kept)
    /\ UNCHANGED made
    /\ \/ /\ rel.present
          /\ kept # {} => faults < MaxFaults
          /\ faults' = IF kept = {} THEN faults ELSE faults + 1
          /\ WriteRelease([rel EXCEPT !.finalizer = FALSE, !.present = FALSE])
          /\ Requeue
       \/ kept = {} /\ PatchFails

\* In the model a Release that is being deleted still has this finalizer: it
\* has no other.
EnsureFinalizersAreCalled ==
  /\ pc = "FinalizersAreCalled"
  /\ \/ ~mem.deleting /\ Pass("ConfigIsLoaded")
     \/ /\ mem.deleting /\ mem.finalizer
        /\ \E S \in Picks(mem, Phases) : FinalizeSucceeds(S) \/ FinalizeFails(S)

\* EnsureConfigIsLoaded: the ReleaseServiceConfig is read; an empty one stands
\* in for a missing one.  SERVICE_NAMESPACE is set in every deployment.
EnsureConfigIsLoaded ==
  /\ pc = "ConfigIsLoaded"
  /\ Pass("CollectorsCleanedUp") \/ CallFails

-----------------------------------------------------------------------------
(* Cleaning up finished phases. *)

\* The finalizers of S are removed and the RoleBindings B deleted.
CleanUp(S, B) ==
  /\ runs' = RemoveFinalizers(S)
  /\ bindings' = bindings \ B
  /\ UNCHANGED <<made, rel, cache>>

\* Clean-up of phases P.  Errors are collected and the other steps still run,
\* but the attempts of the managed pipeline are cleaned in order up to the
\* first error.  A retriable error requeues, unless errors are dropped.
CleanUpPhases(P, op, requeues) ==
  \E S \in Picks(mem, P) :
    LET B == UNION {Referenced(mem, p) : p \in P}
    IN \/ /\ CleanUp(S, B)
          /\ FinalizerEvent(S)
          /\ ContinueWith(op, mem)
          /\ UNCHANGED faults
       \/ \E T \in SUBSET S, C \in SUBSET B :
            /\ \A x \in S, y \in T :
                 x.phase = "managed" /\ y.phase = "managed" /\ x.attempt < y.attempt => x \in T
            /\ Fault
            /\ CleanUp(T, C)
            /\ \/ FinalizerEvent(T) /\ ContinueWith(op, mem)
               \/ requeues /\ Requeue

\* Mutant: the clean-up does not wait for the managed collectors.
EnsureCollectorsProcessingResourcesAreCleanedUp_Early ==
  /\ pc = "CollectorsCleanedUp"
  /\ IF hasPhaseFinished(mem, "tenantCollectors")
     THEN CleanUpPhases({"tenantCollectors", "managedCollectors"}, "ProcessingCleanedUp", TRUE)
     ELSE Pass("ProcessingCleanedUp")

EnsureCollectorsProcessingResourcesAreCleanedUp ==
  /\ pc = "CollectorsCleanedUp"
  /\ IF /\ hasPhaseFinished(mem, "tenantCollectors")
        /\ hasPhaseFinished(mem, "managedCollectors")
     THEN CleanUpPhases({"tenantCollectors", "managedCollectors"}, "ProcessingCleanedUp", TRUE)
     ELSE Pass("ProcessingCleanedUp")

\* The phases EnsureReleaseProcessingResourcesAreCleanedUp reaches before it
\* meets one that has not finished.
CleanablePhases(r) ==
  {p \in {"tenant", "managed", "final"} :
     \A q \in (Before(p) \cup {p}) \cap {"tenant", "managed", "final"} : hasPhaseFinished(r, q)}

EnsureReleaseProcessingResourcesAreCleanedUp ==
  /\ pc = "ProcessingCleanedUp"
  /\ IF CleanablePhases(mem) = {}
     THEN Pass("ReleaseIsRunning")
     ELSE CleanUpPhases(CleanablePhases(mem), "ReleaseIsRunning", "final" \in CleanablePhases(mem))

-----------------------------------------------------------------------------
(* Starting and validating the Release. *)

\* Mutant: a finished Release stops the reconcile whatever its phases.
EnsureReleaseIsRunning_StopWhenFinished ==
  /\ pc = "ReleaseIsRunning"
  /\ \/ /\ HasReleaseFinished(mem)
        /\ StopProcessing
        /\ UNCHANGED <<rel, cache, queued, objects, faults>>
     \/ IsReleasing(mem) /\ Pass("ReleaseIsValid")
     \/ /\ ~HasReleaseFinished(mem) /\ ~IsReleasing(mem)
        /\ PatchStatus(MarkReleasing(mem), "ReleaseIsValid")

EnsureReleaseIsRunning ==
  /\ pc = "ReleaseIsRunning"
  /\ \/ HasReleaseFinished(mem) /\ ~AreAllProcessingPhasesFinished(mem) /\ Pass("ReleaseIsValid")
     \/ /\ HasReleaseFinished(mem) /\ AreAllProcessingPhasesFinished(mem)
        /\ StopProcessing
        /\ UNCHANGED <<rel, cache, queued, objects, faults>>
     \/ IsReleasing(mem) /\ Pass("ReleaseIsValid")
     \/ /\ ~HasReleaseFinished(mem) /\ ~IsReleasing(mem)
        /\ PatchStatus(MarkReleasing(mem), "ReleaseIsValid")

\* The five validations: a pipeline is defined, the resources exist, author,
\* application and pipeline source are right.  plan.sound stands for the checks
\* on what is not modelled here; Validation has them in detail.  The Snapshot exists.
Validates ==
  /\ plan.sound
  /\ plan.target => admission = "active"
  /\ "tenant" \in plan.pipelines \/ (plan.target /\ "managed" \in plan.pipelines)

\* Mutant: a failed validation is recorded and the Release goes on.
EnsureReleaseIsValid_OnlyRecorded ==
  /\ pc = "ReleaseIsValid"
  /\ PatchStatus(IF Validates THEN MarkValidated(mem) ELSE MarkValidationFailed(mem),
                 "ApplicationMetadataIsSet")

EnsureReleaseIsValid ==
  /\ pc = "ReleaseIsValid"
  /\ LET judged == IF Validates THEN mem ELSE MarkReleaseFailed(MarkValidationFailed(mem))
     IN \/ IsReleasing(judged) /\ PatchStatus(MarkValidated(judged), "ApplicationMetadataIsSet")
        \/ /\ ~IsReleasing(judged)
           /\ UNCHANGED objects
           /\ \/ /\ ~AreAllProcessingPhasesFinished(Patched(judged))
                 /\ PatchSucceeds(judged, "ApplicationMetadataIsSet")
              \/ /\ rel.present /\ AreAllProcessingPhasesFinished(Patched(judged))
                 /\ WriteRelease(Patched(judged))
                 /\ StopProcessing
                 /\ UNCHANGED <<queued, faults>>
              \/ PatchFails
        \/ CallFails

\* The labels and annotations of the Snapshot are copied and patched; they are
\* not modelled, but the response refreshes the adapter's copy.  A Release
\* that is gone is not an error here.
EnsureApplicationMetadataIsSet ==
  /\ pc = "ApplicationMetadataIsSet"
  /\ \/ /\ ContinueWith("FinalizerIsAdded", IF rel.present THEN rel ELSE mem)
        /\ UNCHANGED <<rel, cache, queued, objects, faults>>
     \/ CallFails

\* Mutant: the finalizer is not added.
EnsureFinalizerIsAdded_Skipped ==
  /\ pc = "FinalizerIsAdded"
  /\ Pass("ExpirationTimeIsAdded")

EnsureFinalizerIsAdded ==
  /\ pc = "FinalizerIsAdded"
  /\ \/ mem.finalizer /\ Pass("ExpirationTimeIsAdded")
     \/ /\ ~mem.finalizer
        /\ LET new == [rel EXCEPT !.finalizer = TRUE]
           IN \/ /\ rel.present
                 /\ WriteRelease(new)
                 /\ ContinueWith("ExpirationTimeIsAdded", new)
                 /\ UNCHANGED <<queued, faults>>
              \/ PatchFails
        /\ UNCHANGED objects

\* The expiration time is set once in the status; it is not modelled.
EnsureReleaseExpirationTimeIsAdded ==
  /\ pc = "ExpirationTimeIsAdded"
  /\ Pass("TenantCollectorsProcessed") \/ CallFails

-----------------------------------------------------------------------------
(* Creating the PipelineRun of a phase and its RoleBindings. *)

\* The RoleBinding the status names for slot s of p: for the managed pipeline
\* it is the one of the current attempt.
BindingRef(r, p, s) ==
  IF p = "managed"
  THEN IF Len(r.attempts) = 0 THEN 0 ELSE GetCurrentManagedPipelineAttempt(r).roleBinding
  ELSE IF <<p, s>> \in CollectorBindings THEN r.refs[<<p, s>>] ELSE 0

\* It is used again when it still exists.
IsBound(p, s) == \E b \in bindings : b.id = BindingRef(mem, p, s)

\* Of the first j RoleBindings of the list, the ones that have to be created.
ToCreate(p, list, j) == {i \in 1 .. j : ~IsBound(p, list[i])}

NewBindings(p, list, j) ==
  {[id |-> made + i, phase |-> p, slot |-> list[i]] : i \in ToCreate(p, list, j)}

\* Mutant: the attempt label is one too small.
NewRun_OffByOne(p, k, list) ==
  [id |-> made + Len(list) + 1, phase |-> p, attempt |-> k - 1, state |-> "running",
   finalizer |-> TRUE, deleting |-> FALSE, seen |-> ~StaleReads]

\* createTenantPipelineRun and its siblings: the labels and the finalizer.
NewRun(p, k, list) ==
  [id |-> made + Len(list) + 1, phase |-> p, attempt |-> k, state |-> "running",
   finalizer |-> TRUE, deleting |-> FALSE, seen |-> ~StaleReads]

\* The references to the RoleBindings created for a collectors pipeline.
WithRefs(r, p, list, j) ==
  [r EXCEPT !.refs =
     [b \in CollectorBindings |->
        IF b[1] = p /\ \E i \in ToCreate(p, list, j) : list[i] = b[2]
        THEN made + (CHOOSE i \in ToCreate(p, list, j) : list[i] = b[2])
        ELSE r.refs[b]]]

\* Mutant: the Release itself is not marked as failed.
FailPhase_KeepReleasing(r, p) ==
  MarkPipelineProcessingFailed(MarkPipelineProcessing(r, p), p)

\* handlePipelineCreationError, permanent error: what it marks.
FailPhase(r, p) ==
  MarkReleaseFailed(MarkPipelineProcessingFailed(MarkPipelineProcessing(r, p), p))

(***************************************************************************)
(* handlePipelineCreationError: the creation of the PipelineRun, or of the *)
(* RoleBinding after the first j, is refused.  A retryable error requeues  *)
(* and the RoleBindings made so far are not recorded (nor are they when    *)
(* the patch fails).  A permanent error fails phase and Release and        *)
(* continues; the RoleBindings are recorded for the collectors pipelines.  *)
(* For the managed pipeline the code writes them to the deprecated         *)
(* status.managedProcessing, which nothing reads and which has no state    *)
(* here.                                                                   *)
(***************************************************************************)
CreationFails(p, list, op) ==
  \E j \in 0 .. Len(list) :
    LET new == FailPhase(WithRefs(mem, p, list, j), p)
    IN /\ Fault
       /\ bindings' = bindings \cup NewBindings(p, list, j)
       /\ made' = made + j
       /\ UNCHANGED runs
       /\ \/ Requeue /\ UNCHANGED <<rel, cache>>
          \/ /\ rel.present
             /\ WriteRelease(Patched(new))
             /\ ContinueWith(op, Patched(new))
             /\ UNCHANGED queued

\* Everything is created; registering it in the status as new may still fail.
CreationSucceeds(p, k, list, new, op) ==
  /\ bindings' = bindings \cup NewBindings(p, list, Len(list))
  /\ runs' = runs \cup {NewRun(p, k, list)}
  /\ made' = made + Len(list) + 1
  /\ PatchSucceeds(new, op) \/ PatchFails

Create(p, k, list, new, op) ==
  CreationFails(p, list, op) \/ CreationSucceeds(p, k, list, new, op)

\* register...ProcessingData for all pipelines but the managed one.
Register(r, p, list) == MarkPipelineProcessing(WithRefs(r, p, list, Len(list)), p)

\* registerManagedProcessingData
RegisterAttempt(r, roleBinding) ==
  MarkCurrentManagedPipelineAttemptProcessing(
    [r EXCEPT !.attempts = Append(r.attempts, [status |-> "progressing",
                                               retriable |-> FALSE,
                                               roleBinding |-> roleBinding])])

Skip(p, op) == PatchStatus(MarkPipelineProcessingSkipped(mem, p), op)

\* An object the operation needs is not there: it requeues with the error.
NotAvailable == Requeue /\ UNCHANGED <<rel, cache, objects, faults>>

\* GetActiveReleasePlanAdmission, called when the ReleasePlan has a target.
AdmissionMissing == plan.target /\ admission = "unavailable"

\* The PipelineRun of p exists and has been registered.
IsRegistered(p, k) == Listed(p, k) # {} /\ isPhaseProgressing(mem, p)

-----------------------------------------------------------------------------
(* The Ensure...IsProcessed operations. *)

\* Not skipped when the Release has failed, and registered again by every
\* reconcile that finds it still running.
EnsureTenantCollectorsPipelineIsProcessed ==
  LET p == "tenantCollectors"
      op == "TenantCollectorsTracked"
      list == plan.bindings[p]
  IN /\ pc = "TenantCollectorsProcessed"
     /\ \/ hasPhaseFinished(mem, p) /\ Pass(op)
        \/ /\ ~hasPhaseFinished(mem, p)
           /\ \/ p \notin plan.pipelines /\ Skip(p, op)
              \/ p \in plan.pipelines /\ AdmissionMissing /\ NotAvailable
              \/ /\ p \in plan.pipelines /\ ~AdmissionMissing
                 /\ IF Listed(p, 0) = {}
                    THEN Create(p, 0, list, Register(mem, p, list), op)
                    ELSE PatchStatus(MarkPipelineProcessing(mem, p), op)
              \/ CallFails

EnsureManagedCollectorsPipelineIsProcessed ==
  LET p == "managedCollectors"
      op == "ManagedCollectorsTracked"
      list == plan.bindings[p]
      waits == hasPhaseFinished(mem, p) \/ ~hasPhaseFinished(mem, "tenantCollectors")
  IN /\ pc = "ManagedCollectorsProcessed"
     /\ \/ waits /\ Pass(op)
        \/ ~waits /\ IsFailed(mem) /\ Skip(p, op)
        \/ ~waits /\ ~IsFailed(mem) /\ IsRegistered(p, 0) /\ Pass(op)
        \/ /\ ~waits /\ ~IsFailed(mem) /\ ~IsRegistered(p, 0)
           /\ \/ AdmissionMissing /\ NotAvailable
              \/ ~AdmissionMissing /\ ~(plan.target /\ p \in plan.pipelines) /\ Skip(p, op)
              \/ /\ ~AdmissionMissing /\ plan.target /\ p \in plan.pipelines
                 /\ IF Listed(p, 0) = {}
                    THEN Create(p, 0, list, Register(mem, p, list), op)
                    ELSE PatchStatus(MarkPipelineProcessing(mem, p), op)
        \/ ~waits /\ CallFails

\* Mutant: the tenant pipeline runs even when the Release has failed.
EnsureTenantPipelineIsProcessed_AfterFailure ==
  LET p == "tenant"
      op == "TenantTracked"
      waits == hasPhaseFinished(mem, p) \/ ~hasPhaseFinished(mem, "managedCollectors")
  IN /\ pc = "TenantProcessed"
     /\ \/ (waits \/ IsRegistered(p, 0)) /\ Pass(op)
        \/ ~waits /\ ~IsRegistered(p, 0) /\ p \notin plan.pipelines /\ Skip(p, op)
        \/ /\ ~waits /\ ~IsRegistered(p, 0) /\ p \in plan.pipelines
           /\ Create(p, 0, << >>, Register(mem, p, << >>), op)

EnsureTenantPipelineIsProcessed ==
  LET p == "tenant"
      op == "TenantTracked"
      waits == hasPhaseFinished(mem, p) \/ ~hasPhaseFinished(mem, "managedCollectors")
  IN /\ pc = "TenantProcessed"
     /\ \/ waits /\ Pass(op)
        \/ ~waits /\ IsFailed(mem) /\ Skip(p, op)
        \/ ~waits /\ ~IsFailed(mem) /\ IsRegistered(p, 0) /\ Pass(op)
        \/ /\ ~waits /\ ~IsFailed(mem) /\ ~IsRegistered(p, 0)
           /\ \/ p \notin plan.pipelines /\ Skip(p, op)
              \/ /\ p \in plan.pipelines
                 /\ IF Listed(p, 0) = {}
                    THEN Create(p, 0, << >>, Register(mem, p, << >>), op)
                    ELSE PatchStatus(MarkPipelineProcessing(mem, p), op)
        \/ ~waits /\ CallFails

\* The RoleBinding a managed PipelineRun is registered with when the ones of
\* list were created for it.
AttemptBinding(list) ==
  IF IsBound("managed", "tenant") THEN BindingRef(mem, "managed", "tenant")
  ELSE IF Len(list) = 0 THEN 0 ELSE made + 1

EnsureManagedPipelineIsProcessed ==
  LET p == "managed"
      op == "ManagedTracked"
      list == plan.bindings[p]
      current == GetManagedPipelineRetryCount(mem)
      waits == hasPhaseFinished(mem, p) \/ ~hasPhaseFinished(mem, "tenant")
      acts == ~waits /\ ~IsFailed(mem) /\ ~IsCurrentManagedPipelineAttemptFailed(mem)
  IN /\ pc = "ManagedProcessed"
     /\ \/ waits /\ Pass(op)
        \/ ~waits /\ IsFailed(mem) /\ Skip(p, op)
        \/ ~waits /\ ~IsFailed(mem) /\ IsCurrentManagedPipelineAttemptFailed(mem) /\ Pass(op)
        \/ acts /\ IsRegistered(p, current) /\ Pass(op)
        \/ /\ acts /\ ~IsRegistered(p, current)
           /\ \/ ~plan.target /\ Skip(p, op)
              \/ AdmissionMissing /\ NotAvailable
              \/ /\ plan.target /\ ~AdmissionMissing
                 /\ IF Listed(p, current) # {}
                    THEN PatchStatus(RegisterAttempt(mem, AttemptBinding(<< >>)), op)
                    ELSE IF p \notin plan.pipelines
                         THEN Skip(p, op)
                         ELSE Create(p, Len(mem.attempts), list,
                                     RegisterAttempt(mem, AttemptBinding(list)), op)
        \/ acts /\ CallFails

\* Runs whether or not the Release has failed.
EnsureFinalPipelineIsProcessed ==
  LET p == "final"
      op == "FinalTracked"
      waits == hasPhaseFinished(mem, p) \/ ~hasPhaseFinished(mem, "managed")
  IN /\ pc = "FinalProcessed"
     /\ \/ waits /\ Pass(op)
        \/ ~waits /\ IsRegistered(p, 0) /\ Pass(op)
        \/ /\ ~waits /\ ~IsRegistered(p, 0)
           /\ \/ p \notin plan.pipelines /\ Skip(p, op)
              \/ /\ p \in plan.pipelines
                 /\ IF Listed(p, 0) = {}
                    THEN Create(p, 0, << >>, Register(mem, p, << >>), op)
                    ELSE PatchStatus(MarkPipelineProcessing(mem, p), op)
        \/ ~waits /\ CallFails

-----------------------------------------------------------------------------
(* The Ensure...IsTracked operations: the result of a PipelineRun that is  *)
(* done, or is being deleted, is written to the status.                    *)

\* Mutant: a pipeline that fails fails its phase, but not the Release.
TrackedResult_PhaseOnly(x, p) ==
  IF x.state = "succeeded"
  THEN MarkPipelineProcessed(mem, p)
  ELSE MarkPipelineProcessingFailed(mem, p)

\* Mutant: a PipelineRun that was deleted while it ran counts as a success.
TrackedResult_UnlessFailed(x, p) ==
  IF x.state \in {"error", "exhausted"}
  THEN MarkReleaseFailed(MarkPipelineProcessingFailed(mem, p))
  ELSE MarkPipelineProcessed(mem, p)

\* register...ProcessingStatus
TrackedResult(x, p) ==
  IF x.state = "succeeded"
  THEN MarkPipelineProcessed(mem, p)
  ELSE MarkReleaseFailed(MarkPipelineProcessingFailed(mem, p))

TrackPipeline(p, op) ==
  \/ ~isPhaseProgressing(mem, p) /\ Pass(op)
  \/ isPhaseProgressing(mem, p) /\ Listed(p, 0) = {} /\ Pass(op)
  \/ /\ isPhaseProgressing(mem, p)
     /\ \E x \in Listed(p, 0) :
          \/ ~IsPipelineRunDone(x) /\ Pass(op)
          \/ IsPipelineRunDone(x) /\ PatchStatus(TrackedResult(x, p), op)
  \/ isPhaseProgressing(mem, p) /\ CallFails

EnsureTenantCollectorsPipelineIsTracked ==
  /\ pc = "TenantCollectorsTracked"
  /\ TrackPipeline("tenantCollectors", "ManagedCollectorsProcessed")

EnsureManagedCollectorsPipelineIsTracked ==
  /\ pc = "ManagedCollectorsTracked"
  /\ TrackPipeline("managedCollectors", "TenantProcessed")

EnsureTenantPipelineProcessingIsTracked ==
  /\ pc = "TenantTracked"
  /\ TrackPipeline("tenant", "ManagedProcessed")

EnsureFinalPipelineProcessingIsTracked ==
  /\ pc = "FinalTracked"
  /\ TrackPipeline("final", "ReleaseIsCompleted")

\* The verdict on a failed attempt is read from its TaskRuns
\* (GetPipelineRunFailureInfo).  A run deleted while it was running may already
\* have a TaskRun that failed on memory or on a timeout.
AttemptVerdicts(x) ==
  CASE x.state = "exhausted" -> {TRUE}
    [] x.state = "error"     -> {FALSE}
    [] OTHER                 -> BOOLEAN

\* The TaskRuns may not be listed: that is only logged, and the reason is Error.
registerManagedProcessingStatus(x, op) ==
  LET tracks == IsPipelineRunDone(x) /\ ~IsCurrentManagedPipelineAttemptDone(mem)
  IN \/ ~tracks /\ Pass(op)
     \/ /\ tracks /\ x.state = "succeeded"
        /\ PatchStatus(MarkCurrentManagedPipelineAttemptProcessed(mem), op)
     \/ /\ tracks /\ x.state # "succeeded"
        /\ \E retriable \in AttemptVerdicts(x) :
             PatchStatus(MarkCurrentManagedPipelineAttemptFailed(mem, retriable), op)
     \/ /\ tracks /\ x.state = "exhausted" /\ Fault /\ rel.present
        /\ LET new == Patched(MarkCurrentManagedPipelineAttemptFailed(mem, FALSE))
           IN WriteRelease(new) /\ ContinueWith(op, new)
        /\ UNCHANGED <<queued, objects>>

EnsureManagedPipelineProcessingIsTracked ==
  LET p == "managed"
      op == "ManagedCompleted"
      found == Listed(p, GetManagedPipelineRetryCount(mem))
  IN /\ pc = "ManagedTracked"
     /\ \/ ~isPhaseProgressing(mem, p) /\ Pass(op)
        \/ isPhaseProgressing(mem, p) /\ found = {} /\ Pass(op)
        \/ /\ isPhaseProgressing(mem, p)
           /\ \E x \in found : registerManagedProcessingStatus(x, op)
        \/ isPhaseProgressing(mem, p) /\ CallFails

-----------------------------------------------------------------------------
(* EnsureManagedPipelineProcessingIsCompleted: retry, or fail. *)

\* Mutant: one retry too many.
canRetryManagedPipeline_OffByOne(r) ==
  /\ IsCurrentManagedPipelineAttemptRetriable(r)
  /\ plan.maxRetries > 0
  /\ GetManagedPipelineRetryCount(r) <= plan.maxRetries

\* IsRetryEnabled is maxRetries > 0 here.
canRetryManagedPipeline(r) ==
  /\ IsCurrentManagedPipelineAttemptRetriable(r)
  /\ plan.maxRetries > 0
  /\ GetManagedPipelineRetryCount(r) < plan.maxRetries

\* An error of retryManagedPipeline, the registration included, goes through
\* handlePipelineCreationError: a permanent one fails the phase even when the
\* PipelineRun (created) has been made.
RetryFails(created, op) ==
  /\ Fault
  /\ runs' = runs \cup created
  /\ made' = IF created = {} THEN made ELSE made + 1
  /\ UNCHANGED bindings
  /\ \/ Requeue /\ UNCHANGED <<rel, cache>>
     \/ /\ rel.present
        /\ WriteRelease(Patched(FailPhase(mem, "managed")))
        /\ ContinueWith(op, Patched(FailPhase(mem, "managed")))
        /\ UNCHANGED queued

\* The PipelineRun of the next attempt may exist already and only be registered.
retryManagedPipeline(op) ==
  LET next == GetManagedPipelineRetryCount(mem) + 1
      registered == RegisterAttempt(mem, AttemptBinding(<< >>))
      new == IF Listed("managed", next) = {} THEN {NewRun("managed", next, << >>)} ELSE {}
  IN \/ /\ runs' = runs \cup new
        /\ made' = IF new = {} THEN made ELSE made + 1
        /\ UNCHANGED bindings
        /\ \/ PatchSucceeds(registered, op)
           \/ ~rel.present /\ Requeue /\ UNCHANGED <<rel, cache, faults>>
     \/ \E created \in {{}, new} : RetryFails(created, op)

EnsureManagedPipelineProcessingIsCompleted ==
  LET op == "FinalProcessed"
      acts == isPhaseProgressing(mem, "managed") /\ IsCurrentManagedPipelineAttemptFailed(mem)
      retries == canRetryManagedPipeline(mem) /\ ~plan.retryDisabled
  IN /\ pc = "ManagedCompleted"
     /\ \/ ~acts /\ Pass(op)
        \/ acts /\ AdmissionMissing /\ NotAvailable
        \/ acts /\ ~AdmissionMissing /\ retries /\ retryManagedPipeline(op)
        \/ /\ acts /\ ~AdmissionMissing /\ ~retries
           /\ PatchStatus(MarkReleaseFailed(MarkPipelineProcessingFailed(mem, "managed")), op)
        \/ acts /\ CallFails

\* The last operation: the reconcile is over when it continues.
EnsureReleaseIsCompleted ==
  LET acts == ~HasReleaseFinished(mem) /\ IsProcessedSuccessfully(mem, "final")
  IN /\ pc = "ReleaseIsCompleted"
     /\ UNCHANGED objects
     /\ \/ /\ ~acts
           /\ StopProcessing
           /\ UNCHANGED <<rel, cache, queued, faults>>
        \/ /\ acts /\ rel.present
           /\ WriteRelease(Patched(MarkReleased(mem)))
           /\ StopProcessing
           /\ UNCHANGED <<queued, faults>>
        \/ acts /\ PatchFails

-----------------------------------------------------------------------------
(* Around the controller. *)

unmoved == <<mem, pc>>

\* Why a PipelineRun failed is looked at for the managed pipeline only.
Outcomes(p) == {"succeeded", "error"} \cup IF p = "managed" THEN {"exhausted"} ELSE {}

\* Tekton finishes a PipelineRun (hasPipelineSucceeded: an event).
FinishRun ==
  \E x \in {y \in runs : y.state = "running"} : \E s \in Outcomes(x.phase) :
    /\ runs' = (runs \ {x}) \cup {[x EXCEPT !.state = s, !.seen = TRUE]}
    /\ queued' = TRUE
    /\ UNCHANGED <<plan, admission, rel, cache, bindings, made, faults, disruptions, unmoved>>

Disrupt(kind) ==
  /\ kind \in Disruptions
  /\ disruptions < MaxDisruptions
  /\ disruptions' = disruptions + 1

\* Somebody deletes a PipelineRun.  The finalizer of the service keeps it, and
\* its deletion timestamp is an event; without it nobody hears of it.
DeleteRun ==
  /\ Disrupt("deleteRun")
  /\ \E x \in {y \in runs : ~y.deleting} :
       \/ /\ x.finalizer
          /\ runs' = (runs \ {x}) \cup {[x EXCEPT !.deleting = TRUE, !.seen = TRUE]}
          /\ queued' = TRUE
       \/ /\ ~x.finalizer
          /\ runs' = runs \ {x}
          /\ UNCHANGED queued
  /\ UNCHANGED <<plan, admission, rel, cache, bindings, made, faults, unmoved>>

\* The author deletes the Release: an event once the cache shows it.
DeleteRelease ==
  /\ "deleteRelease" \in Disruptions
  /\ rel.present /\ ~rel.deleting
  /\ WriteRelease(IF rel.finalizer THEN [rel EXCEPT !.deleting = TRUE]
                                   ELSE [rel EXCEPT !.present = FALSE])
  /\ queued' = (queued \/ ~StaleReads)
  /\ UNCHANGED <<plan, admission, objects, faults, disruptions, unmoved>>

\* The ReleasePlanAdmission is blocked or removed, or comes back.  No event of
\* the Release controller.
ChangeAdmission ==
  /\ Disrupt("block")
  /\ admission' = IF admission = "active" THEN "unavailable" ELSE "active"
  /\ UNCHANGED <<plan, rel, cache, queued, objects, faults, unmoved>>

\* The informers catch up.  Of the changes of a Release only the deletion passes
\* GenerationChangedPredicate; a new PipelineRun is no event (CreateFunc).
ObserveRelease ==
  /\ cache # rel
  /\ cache' = rel
  /\ queued' = (queued \/ cache.deleting # rel.deleting \/ cache.present # rel.present)
  /\ UNCHANGED <<plan, admission, rel, objects, faults, disruptions, unmoved>>

ObserveRun ==
  \E x \in {y \in runs : ~y.seen} :
    /\ runs' = (runs \ {x}) \cup {[x EXCEPT !.seen = TRUE]}
    /\ UNCHANGED <<plan, admission, rel, cache, queued, bindings, made, faults, disruptions, unmoved>>

\* The periodic resync of the PipelineRun informer, or an update by another
\* controller: an event for every finished PipelineRun.
Resync ==
  /\ ~queued
  /\ \E x \in runs : x.seen /\ x.state # "running"
  /\ queued' = TRUE
  /\ UNCHANGED <<plan, admission, rel, cache, objects, faults, disruptions, unmoved>>

\* The controller dies; another one starts, fills its caches and queues every
\* Release.
Restart ==
  /\ Fault
  /\ StopProcessing
  /\ cache' = rel
  /\ queued' = rel.present
  /\ runs' = {[x EXCEPT !.seen = TRUE] : x \in runs}
  /\ UNCHANGED <<plan, admission, rel, bindings, made, disruptions>>

-----------------------------------------------------------------------------

Operation ==
  \/ EnsureFinalizersAreCalled
  \/ EnsureConfigIsLoaded
  \/ EnsureCollectorsProcessingResourcesAreCleanedUp
  \/ EnsureReleaseProcessingResourcesAreCleanedUp
  \/ EnsureReleaseIsRunning
  \/ EnsureReleaseIsValid
  \/ EnsureApplicationMetadataIsSet
  \/ EnsureFinalizerIsAdded
  \/ EnsureReleaseExpirationTimeIsAdded
  \/ EnsureTenantCollectorsPipelineIsProcessed
  \/ EnsureTenantCollectorsPipelineIsTracked
  \/ EnsureManagedCollectorsPipelineIsProcessed
  \/ EnsureManagedCollectorsPipelineIsTracked
  \/ EnsureTenantPipelineIsProcessed
  \/ EnsureTenantPipelineProcessingIsTracked
  \/ EnsureManagedPipelineIsProcessed
  \/ EnsureManagedPipelineProcessingIsTracked
  \/ EnsureManagedPipelineProcessingIsCompleted
  \/ EnsureFinalPipelineIsProcessed
  \/ EnsureFinalPipelineProcessingIsTracked
  \/ EnsureReleaseIsCompleted

Reconcile == (ReconcileFound \/ ReconcileNotFound \/ Operation) /\ UNCHANGED environment

Next ==
  \/ Reconcile
  \/ FinishRun
  \/ DeleteRun
  \/ DeleteRelease
  \/ ChangeAdmission
  \/ ObserveRelease
  \/ ObserveRun
  \/ Resync
  \/ Restart

Spec == Init /\ [][Next]_vars

\* The work queue hands out what is in it and a reconcile takes its next step,
\* Tekton finishes every PipelineRun (it has timeouts), the informers catch up
\* and resync.  Nobody has to delete, block or unblock anything.
Fairness ==
  /\ WF_vars(Reconcile)
  /\ WF_vars(FinishRun)
  /\ WF_vars(ObserveRelease)
  /\ WF_vars(ObserveRun)
  /\ WF_vars(Resync)

FairSpec == Spec /\ Fairness

-----------------------------------------------------------------------------
(* Properties. *)

\* Every variable has its type.
TypeOK ==
  /\ plan \in Plans
  /\ admission \in {"active", "unavailable"}
  /\ rel \in Release /\ cache \in Release /\ mem \in Release
  /\ pc \in Operations \cup {"idle"}
  /\ queued \in BOOLEAN
  /\ runs \subseteq PipelineRun
  /\ bindings \subseteq RoleBinding
  /\ made \in Nat
  /\ faults \in 0 .. MaxFaults
  /\ disruptions \in 0 .. MaxDisruptions

\* The pipelines this Release has to run: those of the ReleasePlanAdmission only
\* when the ReleasePlan names a target.
Planned(p) ==
  p \in plan.pipelines /\ (p \in {"managedCollectors", "managed"} => plan.target)

\* A phase is begun (or skipped) only when every phase before it has finished,
\* whatever copy of the Release the operations worked on: the first condition of
\* every Ensure...IsProcessed operation.
InOrder(r) ==
  \A p \in Phases : r.conds[p] # "unset" =>
    \A q \in Before(p) : r.conds[q] \in {"succeeded", "failed", "skipped"}

PhasesInOrder == InOrder(rel)

\* A failed phase, or a planned one that was skipped, means a failed Release:
\* every operation that fails a phase marks the Release in the same patch, and
\* only a failed Release makes the later operations skip.
Reports(r) ==
  \A p \in Phases :
    r.conds[p] = "failed" \/ (r.conds[p] = "skipped" /\ Planned(p))
      => r.conds["released"] = "failed"

FailureIsReported == Reports(rel)

\* EnsureReleaseIsCompleted looks at the final pipeline alone; yet a Release that
\* is marked Released ran every planned pipeline with success and skipped the
\* others.
EverythingSucceeded(r) ==
  r.conds["released"] = "succeeded" =>
    \A p \in Phases : r.conds[p] = IF Planned(p) THEN "succeeded" ELSE "skipped"

ReleasedMeansEverythingSucceeded == EverythingSucceeded(rel)

\* A Release is never marked Released while its Validated condition is False or
\* missing, although every reconcile validates it again.
ReleasedIsValidated ==
  rel.conds["released"] = "succeeded" => rel.conds["validated"] = "succeeded"

\* A PipelineRun is created only for a Release that exists and that carries the
\* finalizer through which EnsureFinalizersAreCalled will delete the PipelineRun,
\* even when the Release is deleted during the reconcile or the cache is old.
RunsAreCreatedUnderFinalizer ==
  [][\A x \in runs' : x.id > made => rel.present /\ rel.finalizer]_vars

\* What the status says is final: no finished phase and no finished Release is
\* ever reopened or judged again.  (Only a lagging cache can undo this.)
FinishedIsFinal ==
  [][\A c \in ConditionTypes \ {"validated"} :
       hasPhaseFinished(rel, c) => rel'.conds[c] = rel.conds[c]]_vars

\* Errors, restarts and repeated reconciles never make two PipelineRuns for one
\* phase, or for one attempt of the managed phase: the PipelineRun that was
\* created and not registered is found by its labels.
OneRunPerAttempt ==
  \A x, y \in runs : x.phase = y.phase /\ x.attempt = y.attempt => x = y

\* The managed pipeline is retried at most maxRetries times, and only after an
\* attempt that failed for a retriable reason.
RetriesAreBounded ==
  /\ Len(rel.attempts) <= plan.maxRetries + 1
  /\ \A i \in 1 .. Len(rel.attempts) - 1 :
       rel.attempts[i].status = "failed" /\ rel.attempts[i].retriable

\* A phase recorded as succeeded is one whose PipelineRun, for the managed phase
\* the one of the last attempt, has succeeded.
SuccessIsReal ==
  \A x \in runs :
    /\ rel.conds[x.phase] = "succeeded"
    /\ x.phase = "managed" => x.attempt = Len(rel.attempts) - 1
    => x.state = "succeeded"

\* While the PipelineRun of a phase is being processed, the RoleBindings it was
\* registered with exist, unless the Release is being deleted: the clean-up that
\* starts every reconcile waits for the right phases.
RoleBindingsOutlastTheirPipeline ==
  rel.present /\ ~rel.deleting =>
    /\ \A key \in CollectorBindings :
         isPhaseProgressing(rel, key[1]) /\ rel.refs[key] # 0
           => \E b \in bindings : b.id = rel.refs[key]
    /\ isPhaseProgressing(rel, "managed") =>
         \A i \in 1 .. Len(rel.attempts) :
           rel.attempts[i].roleBinding # 0
             => \E b \in bindings : b.id = rel.attempts[i].roleBinding

\* A Release goes only after finalizeRelease has deleted its PipelineRuns; a
\* managed one that was never registered in the status is the exception.
DeletionReachesEveryRegisteredRun ==
  ~rel.present =>
    \A x \in runs : x.phase = "managed" /\ x.attempt >= Len(rel.attempts)

\* Once the ReleasePlanAdmission stays active, every phase of the Release
\* finishes, or the Release is deleted.
EveryReleaseCompletes ==
  <>[](admission = "active") =>
     <>(~rel.present \/ (AreAllProcessingPhasesFinished(rel) /\ HasReleaseFinished(rel)))

\* The finalizers of the PipelineRuns are removed in the end, so that the
\* PipelineRuns can be pruned: by the clean-up of a later reconcile.  Managed
\* PipelineRuns that were created and never registered are excluded: the
\* clean-up visits the registered attempts only.
FinalizersAreRemoved ==
  <>[](admission = "active") =>
     <>[](rel.present => \A x \in runs : x.finalizer => x.attempt >= Len(rel.attempts) /\ x.phase = "managed")

-----------------------------------------------------------------------------
(* What a comment of the code promises and the code does not keep. *)

\* EnsureReleaseProcessingResourcesAreCleanedUp cleans up "once processing is
\* finished": a PipelineRun that runs, of a Release that nobody has deleted, still
\* has the finalizer that keeps it.
CleanUpWaitsForTheRun ==
  rel.present /\ ~rel.deleting => \A x \in runs : x.state = "running" => x.finalizer
=============================================================================
