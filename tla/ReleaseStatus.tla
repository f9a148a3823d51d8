---------------------------- MODULE ReleaseStatus ----------------------------
(***************************************************************************)
(* The Release resource and the functions of api/v1alpha1/release_types.go *)
(* that read and change its status.  A Release is a record                 *)
(*                                                                         *)
(*   present, deleting, finalizer  its life in the API server              *)
(*   conds      the status conditions: one value per condition type        *)
(*   attempts   status.managedPipelineAttempts, oldest first               *)
(*   refs       the RoleBindings named by status.collectorsProcessing      *)
(*                                                                         *)
(* A condition is the pair (status, reason) of a metav1.Condition; "unset" *)
(* stands for a condition that is not in the list.  Times, messages and    *)
(* the names of the PipelineRuns are left out.                             *)
(***************************************************************************)
EXTENDS Integers, Sequences

\* The pipelines of a Release, one condition type each.
Phases == {"tenantCollectors", "managedCollectors", "tenant", "managed", "final"}

\* The pipelines before p, in the order in which they are run.
Before(p) ==
  CASE p = "tenantCollectors"  -> {}
    [] p = "managedCollectors" -> {"tenantCollectors"}
    [] p = "tenant"            -> {"tenantCollectors", "managedCollectors"}
    [] p = "managed"           -> {"tenantCollectors", "managedCollectors", "tenant"}
    [] p = "final"             -> Phases \ {"final"}

ConditionTypes == Phases \cup {"validated", "released"}

ConditionValues == {"unset", "progressing", "succeeded", "failed", "skipped"}

\* The RoleBinding references of status.collectorsProcessing.
CollectorBindings ==
  {<<"tenantCollectors", "tenant">>, <<"tenantCollectors", "secret">>,
   <<"managedCollectors", "tenant">>, <<"managedCollectors", "managed">>,
   <<"managedCollectors", "secret">>}

\* PipelineAttempt: failureReason is kept as "is it a reason to retry", the
\* RoleBinding by its number (0: none).
Attempt == [status : {"progressing", "succeeded", "failed"},
            retriable : BOOLEAN,
            roleBinding : Nat]

Release == [present : BOOLEAN, deleting : BOOLEAN, finalizer : BOOLEAN,
            conds : [ConditionTypes -> ConditionValues],
            attempts : Seq(Attempt),
            refs : [CollectorBindings -> Nat]]

\* A Release as its author creates it.
NewRelease == [present   |-> TRUE,
               deleting  |-> FALSE,
               finalizer |-> FALSE,
               conds     |-> [c \in ConditionTypes |-> "unset"],
               attempts  |-> << >>,
               refs      |-> [b \in CollectorBindings |-> 0]]

-----------------------------------------------------------------------------
(* Reading the conditions. *)

\* Mutant: a phase that is running counts as finished.
hasPhaseFinished_NotUnset(r, c) == r.conds[c] # "unset"

hasPhaseFinished(r, c) == r.conds[c] \in {"succeeded", "failed", "skipped"}

isPhaseProgressing(r, c) == r.conds[c] = "progressing"

\* The condition is True: a skipped phase counts as processed successfully.
IsProcessedSuccessfully(r, c) == r.conds[c] \in {"succeeded", "skipped"}

AreAllProcessingPhasesFinished(r) == \A p \in Phases : hasPhaseFinished(r, p)

\* Mutant: a failed Release does not count as finished.
HasReleaseFinished_OnlySuccess(r) == r.conds["released"] = "succeeded"

HasReleaseFinished(r) == hasPhaseFinished(r, "released")

IsReleasing(r) == isPhaseProgressing(r, "released")

IsFailed(r) == r.conds["released"] = "failed"

-----------------------------------------------------------------------------
(* Reading the attempts of the managed pipeline. *)

GetCurrentManagedPipelineAttempt(r) == r.attempts[Len(r.attempts)]

GetManagedPipelineRetryCount(r) ==
  IF Len(r.attempts) = 0 THEN 0 ELSE Len(r.attempts) - 1

IsCurrentManagedPipelineAttemptDone(r) ==
  /\ Len(r.attempts) > 0
  /\ GetCurrentManagedPipelineAttempt(r).status \in {"succeeded", "failed"}

IsCurrentManagedPipelineAttemptFailed(r) ==
  /\ Len(r.attempts) > 0
  /\ GetCurrentManagedPipelineAttempt(r).status = "failed"

IsCurrentManagedPipelineAttemptRetriable(r) ==
  /\ IsCurrentManagedPipelineAttemptFailed(r)
  /\ GetCurrentManagedPipelineAttempt(r).retriable

-----------------------------------------------------------------------------
(* Changing the conditions.  Each Mark function has its own guard and is   *)
(* the identity when the guard is false.                                   *)

SetCondition(r, c, v) == [r EXCEPT !.conds[c] = v]

MarkPipelineProcessing(r, p) ==
  IF hasPhaseFinished(r, p) THEN r ELSE SetCondition(r, p, "progressing")

MarkPipelineProcessed(r, p) ==
  IF isPhaseProgressing(r, p) THEN SetCondition(r, p, "succeeded") ELSE r

MarkPipelineProcessingFailed(r, p) ==
  IF isPhaseProgressing(r, p) THEN SetCondition(r, p, "failed") ELSE r

MarkPipelineProcessingSkipped(r, p) ==
  IF hasPhaseFinished(r, p) THEN r ELSE SetCondition(r, p, "skipped")

MarkReleasing(r) ==
  IF HasReleaseFinished(r) THEN r ELSE SetCondition(r, "released", "progressing")

MarkReleased(r) ==
  IF IsReleasing(r) THEN SetCondition(r, "released", "succeeded") ELSE r

\* Mutant: the release condition is left alone when the pipeline fails.
MarkReleaseFailed_Forgotten(r) == r

MarkReleaseFailed(r) ==
  IF IsReleasing(r) THEN SetCondition(r, "released", "failed") ELSE r

MarkValidated(r) == SetCondition(r, "validated", "succeeded")

MarkValidationFailed(r) == SetCondition(r, "validated", "failed")

-----------------------------------------------------------------------------
(* Changing the attempts of the managed pipeline. *)

MarkCurrentManagedPipelineAttemptProcessing(r) ==
  IF IsProcessedSuccessfully(r, "managed") \/ Len(r.attempts) = 0
  THEN r
  ELSE SetCondition([r EXCEPT !.attempts[Len(r.attempts)].status = "progressing"],
                    "managed", "progressing")

MarkCurrentManagedPipelineAttemptProcessed(r) ==
  IF \/ ~isPhaseProgressing(r, "managed")
     \/ IsCurrentManagedPipelineAttemptDone(r)
     \/ Len(r.attempts) = 0
  THEN r
  ELSE SetCondition([r EXCEPT !.attempts[Len(r.attempts)].status = "succeeded"],
                    "managed", "succeeded")

\* The managed condition stays "progressing": EnsureManagedPipelineProcessing-
\* IsCompleted decides between a retry and a failure.
MarkCurrentManagedPipelineAttemptFailed(r, retriable) ==
  IF \/ ~isPhaseProgressing(r, "managed")
     \/ IsCurrentManagedPipelineAttemptDone(r)
     \/ Len(r.attempts) = 0
  THEN r
  ELSE [r EXCEPT !.attempts[Len(r.attempts)].status = "failed",
                 !.attempts[Len(r.attempts)].retriable = retriable]
=============================================================================
