--------------------------- MODULE ManagedPipeline ---------------------------
(***************************************************************************)
(* What the managed PipelineRuns of one Release are made of, from the      *)
(* first attempt to the last: the git revision, the timeouts and the       *)
(* overrides each is created with, why it fails, what the status records   *)
(* and what the next attempt is given (createManagedPipelineRun,           *)
(* registerManagedProcessingStatus, retryManagedPipeline and               *)
(* computeRetryOverrides of controllers/release/adapter.go).               *)
(*                                                                         *)
(* ReleaseController has the same attempts without their contents and with *)
(* the rest of the Release around them.                                    *)
(***************************************************************************)
EXTENDS Mitigations, Sequences

CONSTANTS
  Definition,       \* the timeout and the resources the pipeline gives each task
  DefaultTimeouts,  \* of the ReleaseServiceConfig
  Pipelines,        \* spec.pipeline of a ReleasePlanAdmission: [specs, timeouts, ref]
  Policies,         \* status.retryInfo: [maxRetries, memory, task, pipeline]
  Outcomes,         \* how a PipelineRun may fail
  MaxEdits,         \* bound on edits of the ReleasePlanAdmission
  MaxFaults         \* bound on failed calls and crashes

VARIABLES
  pipeline,   \* spec.pipeline of the ReleasePlanAdmission
  policy,     \* status.retryInfo of the ReleasePlanAdmission
  runs,       \* the managed PipelineRuns, by attempt label
  attempts,   \* status.managedPipelineAttempts
  phase,      \* the managed condition of the Release
  refusal,    \* why the last creation did not happen
  edits,
  faults

vars == <<pipeline, policy, runs, attempts, phase, refusal, edits, faults>>

\* PipelineRef: is the configuration complete, is the revision a commit, is it
\* a GitHub URL with a token configured?
PipelineRef == [valid : BOOLEAN, sha : BOOLEAN, token : BOOLEAN]

\* The children of a failed PipelineRun in the order of its child references.
ChildRun == [task : Tasks, result : {"succeeded", "error", "timeout", "oom"}, step : Steps]

Outcome == [timedOut : BOOLEAN, children : Seq(ChildRun)]

TimeoutPolicy == [on : BOOLEAN, increment : Nat, max : Optional]

MemoryPolicy == [on : BOOLEAN, percent : Nat, limit : Optional, request : Optional]

Policy == [maxRetries : Nat, memory : MemoryPolicy, task : TimeoutPolicy, pipeline : TimeoutPolicy]

Pipeline == [specs : [Tasks -> Override], timeouts : TimeoutFields, ref : PipelineRef]

AppliedMitigation == [limit : Optional, request : Optional, taskTimeout : Optional,
                      tasksTimeout : Optional, pipelinesTimeout : Optional]

NoMitigation == [limit |-> Nil, request |-> Nil, taskTimeout |-> Nil,
                 tasksTimeout |-> Nil, pipelinesTimeout |-> Nil]

PipelineRun == [specs : [Tasks -> Override], timeouts : TimeoutFields,
                revision : {"commit", "branch"},
                state : {"running", "succeeded", "failed"}, outcome : Outcome]

\* PipelineAttempt.  last: the failed child, a sequence of at most one.
Attempt == [status : {"progressing", "succeeded", "failed"},
            reason : {"none", "OOMKill", "TaskRunTimeout", "PipelineRunTimeout", "Error"},
            last : Seq(ChildRun), mitigation : AppliedMitigation]

\* Errors of a creation: of the git configuration and of the remote, the API
\* server's, which refuses for now or for good, and Tekton's.
CreationErrors ==
  {"invalidConfig", "branchNotFound", "rejected", "rateLimited", "busy", "denied", "badTimeouts"}

ASSUME DefaultsAssumption == DefaultTimeouts \in TimeoutFields /\ TektonAccepts(DefaultTimeouts)
\* AdjustTimeouts halves short timeouts; a duration counts nanoseconds and
\* nobody writes a single one.
ASSUME DurationsAssumption ==
  DefaultTimeouts.finally # 1 /\ \A q \in Pipelines : q.timeouts.pipeline # 1
ASSUME DefinitionAssumption == Definition \in [Tasks -> Override]
ASSUME PipelinesAssumption == Pipelines \subseteq Pipeline
ASSUME PoliciesAssumption == Policies \subseteq Policy
ASSUME OutcomesAssumption == Outcomes \subseteq Outcome
ASSUME BoundsAssumption == MaxEdits \in Nat /\ MaxFaults \in Nat

Init ==
  /\ pipeline \in Pipelines
  /\ policy \in Policies
  /\ runs = << >>
  /\ attempts = << >>
  /\ phase = "pending"
  /\ refusal = "none"
  /\ edits = 0
  /\ faults = 0

Fault == faults < MaxFaults /\ faults' = faults + 1

current == Len(attempts)

-----------------------------------------------------------------------------
(* Why a PipelineRun failed. *)

Failed(x) == x.result # "succeeded"

FirstFailed(children) ==
  {i \in 1 .. Len(children) : Failed(children[i]) /\ \A j \in 1 .. i - 1 : ~Failed(children[j])}

\* The first failed child, as a sequence of at most one.
getFailedTaskRun(children) ==
  IF FirstFailed(children) = {} THEN << >>
  ELSE <<children[CHOOSE i \in FirstFailed(children) : TRUE]>>

\* The reason of a failed attempt, from its first failed child, if any.
FailureReason(timedOut, last) ==
  CASE last # << >> /\ last[1].result = "oom" -> "OOMKill"
    [] last # << >> /\ last[1].result = "timeout" -> "TaskRunTimeout"
    [] OTHER -> IF timedOut THEN "PipelineRunTimeout" ELSE "Error"

-----------------------------------------------------------------------------
(* Creating a PipelineRun. *)

\* Mutant: the fallback leaves the revision empty.
WithPipelineRef_NoRevision(ref, answer) ==
  CASE ~ref.valid -> "invalidConfig"
    [] ref.valid /\ (ref.sha \/ answer = "found") -> "commit"
    [] OTHER -> CASE answer = "missing" -> "branchNotFound"
                  [] answer = "unreachable" -> ""
                  [] answer = "rejected" -> IF ref.token THEN "rejected" ELSE ""
                  [] answer = "rateLimited" -> "rateLimited"

\* git.ResolveBranchToSHA and the fallback of WithPipelineRef: the revision the
\* tasks will use, or the error.  rateLimited: so were four calls in a row.
WithPipelineRef(ref, answer) ==
  CASE ~ref.valid -> "invalidConfig"
    [] ref.valid /\ (ref.sha \/ answer = "found") -> "commit"
    [] OTHER -> CASE answer = "missing" -> "branchNotFound"
                  [] answer = "unreachable" -> "branch"
                  [] answer = "rejected" -> IF ref.token THEN "rejected" ELSE "branch"
                  [] answer = "rateLimited" -> "rateLimited"

\* Mutant: every error of a creation is final.
IsRetryableCreationError_Never(err) == FALSE

IsRetryableCreationError(err) == err \in {"rejected", "rateLimited", "busy"}

\* handlePipelineCreationError
CreationFails(err) ==
  /\ refusal' = err
  /\ phase' = IF IsRetryableCreationError(err) THEN phase ELSE "failed"
  /\ UNCHANGED <<runs, attempts>>

NewRun(specs, timeouts, revision) ==
  [specs    |-> specs,
   timeouts |-> WithTimeouts(AdjustTimeouts(timeouts), DefaultTimeouts),
   revision |-> revision,
   state    |-> "running",
   outcome  |-> [timedOut |-> FALSE, children |-> << >>]]

registerManagedProcessingData(mitigation) ==
  /\ attempts' = Append(attempts, [status |-> "progressing", reason |-> "none",
                                   last |-> << >>, mitigation |-> mitigation])
  /\ phase' = "progressing"

\* Tekton takes x, which is registered, or refuses it.
createAndRegister(x, mitigation) ==
  \/ /\ TektonAccepts(x.timeouts)
     /\ runs' = Append(runs, x)
     /\ registerManagedProcessingData(mitigation)
     /\ UNCHANGED refusal
  \/ ~TektonAccepts(x.timeouts) /\ CreationFails("badTimeouts")

\* The remote answers, or it does not and that is a fault.
Answers(answer) ==
  \/ answer = "found" /\ UNCHANGED faults
  \/ answer \in {"missing", "unreachable", "rejected", "rateLimited"} /\ Fault

\* createManagedPipelineRun and the registration that follows.  The controller
\* may die, or fail to patch the status, between the two; on a retry a patch
\* that is refused for good fails the phase (handlePipelineCreationError).
createManagedPipelineRun(specs, timeouts, mitigation) ==
  \/ \E answer \in {"found", "missing", "unreachable", "rejected", "rateLimited"} :
       LET built == WithPipelineRef(pipeline.ref, answer)
       IN /\ Answers(answer)
          /\ \/ built \in CreationErrors /\ CreationFails(built)
             \/ /\ built \notin CreationErrors
                /\ createAndRegister(NewRun(specs, timeouts, built), mitigation)
  \/ /\ pipeline.ref.valid
     /\ Fault
     /\ \/ \E err \in {"busy", "denied"} : CreationFails(err)
        \/ /\ TektonAccepts(NewRun(specs, timeouts, "commit").timeouts)
           /\ runs' = Append(runs, NewRun(specs, timeouts, "commit"))
           /\ \/ UNCHANGED <<phase, refusal>>
              \/ current > 0 /\ phase' = "failed" /\ refusal' = "denied"
           /\ UNCHANGED attempts

unregistered == Len(runs) > current

EnsureManagedPipelineIsProcessed ==
  /\ phase = "pending"
  /\ \/ ~unregistered /\ createManagedPipelineRun(pipeline.specs, pipeline.timeouts, NoMitigation)
     \/ /\ unregistered /\ registerManagedProcessingData(NoMitigation)
        /\ UNCHANGED <<runs, refusal, faults>>
  /\ UNCHANGED <<pipeline, policy, edits>>

-----------------------------------------------------------------------------
(* The end of an attempt. *)

\* registerManagedProcessingStatus.  listed: the TaskRuns could be listed.
registerManagedProcessingStatus(listed) ==
  LET x == runs[current]
      last == IF listed THEN getFailedTaskRun(x.outcome.children) ELSE << >>
  IN IF x.state = "succeeded"
     THEN /\ attempts' = [attempts EXCEPT ![current].status = "succeeded"]
          /\ phase' = "succeeded"
     ELSE /\ attempts' = [attempts EXCEPT ![current].status = "failed",
                                          ![current].last = last,
                                          ![current].reason = FailureReason(x.outcome.timedOut, last)]
          /\ UNCHANGED phase

EnsureManagedPipelineProcessingIsTracked ==
  /\ phase = "progressing"
  /\ attempts[current].status = "progressing"
  /\ runs[current].state # "running"
  /\ \/ registerManagedProcessingStatus(TRUE) /\ UNCHANGED faults
     \/ Fault /\ runs[current].state = "failed" /\ registerManagedProcessingStatus(FALSE)
  /\ UNCHANGED <<pipeline, policy, runs, refusal, edits>>

-----------------------------------------------------------------------------
(* The next attempt. *)

canRetryManagedPipeline ==
  /\ attempts[current].reason \in {"OOMKill", "TaskRunTimeout", "PipelineRunTimeout"}
  /\ current - 1 < policy.maxRetries

Retry(specs, timeouts, mitigation) ==
  [specs |-> specs, timeouts |-> timeouts, mitigation |-> mitigation]

\* Mutant: every retry starts from the ReleasePlanAdmission.
BaseTimeouts_Original == pipeline.timeouts

\* The failed PipelineRun is the base, so that mitigations accumulate.
BaseSpecs == IF runs[current].specs = NoSpecs THEN pipeline.specs ELSE runs[current].specs
BaseTimeouts == runs[current].timeouts

\* An OOMKill: more memory for the step that was killed.
MitigateOOMKill(definition) ==
  LET c == attempts[current].last[1]
      more == ApplyMemoryMitigation(
                GetStepComputeResources(runs[current].specs, definition, c.task, c.step),
                policy.memory)
  IN IF more.set
     THEN Retry(MergeTaskRunSpecs(BaseSpecs, c.task,
                                  [NoOverride EXCEPT !.steps[c.step] = more]),
                BaseTimeouts,
                [NoMitigation EXCEPT !.limit = more.limit, !.request = more.request])
     ELSE Retry(BaseSpecs, BaseTimeouts, NoMitigation)

\* A task that timed out: more time for it, and around it.
MitigateTaskRunTimeout(definition) ==
  LET c == attempts[current].last[1]
      more == ApplyTaskTimeoutMitigation(
                GetTaskRunTimeout(runs[current].specs, definition, c.task),
                BaseTimeouts, policy.task)
  IN IF more.timeout # Nil
     THEN Retry(MergeTaskRunSpecs(BaseSpecs, c.task, [NoOverride EXCEPT !.timeout = more.timeout]),
                more.timeouts,
                [NoMitigation EXCEPT !.taskTimeout = more.timeout])
     ELSE Retry(BaseSpecs, BaseTimeouts, NoMitigation)

\* Mutant: the recorded timeout is the one before enforcePipelineCeiling.
MitigatePipelineRunTimeout_RecordedFirst ==
  LET more == ApplyPipelineTimeoutMitigation(BaseTimeouts, policy.pipeline)
      first == addCappedDuration(BaseTimeouts.pipeline, policy.pipeline)
  IN Retry(BaseSpecs, more, [NoMitigation EXCEPT !.pipelinesTimeout = first])

MitigatePipelineRunTimeout ==
  LET more == ApplyPipelineTimeoutMitigation(BaseTimeouts, policy.pipeline)
  IN IF more.pipeline # Nil \/ more.tasks # Nil
     THEN Retry(BaseSpecs, more,
                [NoMitigation EXCEPT !.tasksTimeout = more.tasks,
                                     !.pipelinesTimeout = more.pipeline])
     ELSE Retry(BaseSpecs, BaseTimeouts, NoMitigation)

\* found, listed: could the failed PipelineRun be read, and its TaskRuns listed?
computeRetryOverrides(found, listed) ==
  LET a == attempts[current]
      definition == IF listed /\ a.last # << >> THEN Definition[a.last[1].task] ELSE NoOverride
  IN CASE ~found \/ ~(policy.memory.on \/ policy.task.on \/ policy.pipeline.on) ->
            Retry(pipeline.specs, pipeline.timeouts, NoMitigation)
       [] OTHER ->
            CASE a.reason = "OOMKill" /\ policy.memory.on -> MitigateOOMKill(definition)
              [] a.reason = "TaskRunTimeout" /\ policy.task.on -> MitigateTaskRunTimeout(definition)
              [] a.reason = "PipelineRunTimeout" /\ policy.pipeline.on -> MitigatePipelineRunTimeout
              [] OTHER -> Retry(BaseSpecs, BaseTimeouts, NoMitigation)

\* A PipelineRun that was created and not registered is registered without the
\* mitigation it was created with.
retryManagedPipeline ==
  \/ /\ ~unregistered
     /\ LET r == computeRetryOverrides(TRUE, TRUE)
        IN createManagedPipelineRun(r.specs, r.timeouts, r.mitigation)
  \/ /\ ~unregistered /\ pipeline.ref.valid
     /\ Fault
     /\ \E found \in BOOLEAN :
          LET r == computeRetryOverrides(found, FALSE)
          IN createAndRegister(NewRun(r.specs, r.timeouts, "commit"), r.mitigation)
  \/ /\ unregistered
     /\ registerManagedProcessingData(NoMitigation)
     /\ UNCHANGED <<runs, refusal, faults>>

EnsureManagedPipelineProcessingIsCompleted ==
  /\ phase = "progressing"
  /\ attempts[current].status = "failed"
  /\ \/ canRetryManagedPipeline /\ retryManagedPipeline
     \/ /\ ~canRetryManagedPipeline
        /\ phase' = "failed"
        /\ UNCHANGED <<runs, attempts, refusal, faults>>
  /\ UNCHANGED <<pipeline, policy, edits>>

-----------------------------------------------------------------------------
(* Around the controller. *)

\* A PipelineRun times out, and a task times out, only where there is a timeout.
Possible(o, x) ==
  /\ o.timedOut => x.timeouts.pipeline # 0
  /\ \A i \in 1 .. Len(o.children) :
       LET c == o.children[i]
       IN c.result = "timeout" => GetTaskRunTimeout(x.specs, Definition[c.task], c.task) > 0

\* Tekton finishes the PipelineRun.
FinishRun ==
  /\ runs # << >> /\ runs[Len(runs)].state = "running"
  /\ \/ runs' = [runs EXCEPT ![Len(runs)].state = "succeeded"]
     \/ \E o \in {o \in Outcomes : Possible(o, runs[Len(runs)])} :
          runs' = [runs EXCEPT ![Len(runs)].state = "failed", ![Len(runs)].outcome = o]
  /\ UNCHANGED <<pipeline, policy, attempts, phase, refusal, edits, faults>>

\* Somebody edits the pipeline of the ReleasePlanAdmission.
EditPipeline ==
  /\ edits < MaxEdits
  /\ phase \in {"pending", "progressing"}
  /\ pipeline' \in Pipelines \ {pipeline}
  /\ edits' = edits + 1
  /\ UNCHANGED <<policy, runs, attempts, phase, refusal, faults>>

Controller ==
  \/ EnsureManagedPipelineIsProcessed
  \/ EnsureManagedPipelineProcessingIsTracked
  \/ EnsureManagedPipelineProcessingIsCompleted

Next == Controller \/ FinishRun \/ EditPipeline

Spec == Init /\ [][Next]_vars

-----------------------------------------------------------------------------
(* Properties. *)

\* Every variable has its type: PipelineRuns have a commit or a branch, and at
\* most the last of them is not registered yet.
TypeOK ==
  /\ pipeline \in Pipelines /\ policy \in Policies
  /\ runs \in Seq(PipelineRun)
  /\ attempts \in Seq(Attempt)
  /\ phase \in {"pending", "progressing", "succeeded", "failed"}
  /\ refusal \in CreationErrors \cup {"none"}
  /\ edits \in 0 .. MaxEdits /\ faults \in 0 .. MaxFaults
  /\ Len(runs) \in {current, current + 1}

\* Timeouts AdjustTimeouts leaves alone and Tekton refuses: no timeout for the
\* tasks or for finally, and no word on the pipeline.
OnlyZeros(t) ==
  t.pipeline = Nil /\ t.tasks <= 0 /\ t.finally <= 0 /\ (t.tasks = 0 \/ t.finally = 0)

\* However often timeouts were mitigated and whatever people write but OnlyZeros,
\* Tekton refuses no PipelineRun for its timeouts: AdjustTimeouts comes after the
\* mitigations.  (A ceiling of zero takes timeouts away instead of raising them.)
TimeoutsAreAccepted ==
  refusal = "badTimeouts" => OnlyZeros(pipeline.timeouts) \/ policy.pipeline.max = 0

\* The pipeline timeouts PipelineRuns have without any mitigation: as people or
\* the defaults give them, and what AdjustTimeouts makes of the defaults on a retry.
UnmitigatedPipelineTimeouts ==
  {DefaultTimeouts.pipeline,
   Value(DefaultTimeouts.tasks) + Value(DefaultTimeouts.finally) + 10 * Minute}
  \cup {WithTimeouts(AdjustTimeouts(q.timeouts), DefaultTimeouts).pipeline : q \in Pipelines}

\* The memory limits people wrote for a step.
WrittenLimits(t, s) ==
  {Definition[t].steps[s].limit} \cup
  UNION {{q.specs[t].steps[s].limit, q.specs[t].resources.limit} : q \in Pipelines}

\* A memory limit is within its ceiling or one that people wrote.
LimitIsBounded(limit, t, s) == limit <= policy.memory.limit \/ limit \in WrittenLimits(t, s)

\* A pipeline timeout is within the ceiling of a mitigation and the time for
\* finally or the buffer of AdjustTimeouts, or not more than without mitigations.
PipelineTimeoutIsBounded(t) ==
  \/ \E unmitigated \in UnmitigatedPipelineTimeouts : t.pipeline <= unmitigated
  \/ \E max \in {policy.task.max, policy.pipeline.max}, f \in {Value(t.finally), 10 * Minute} :
       t.pipeline <= max + f

\* Retries do not raise a value without end, where the policy has ceilings.
GrowthIsBounded ==
  \A i \in 1 .. Len(runs) :
    /\ policy.memory.limit # Nil =>
         \A t \in Tasks, s \in Steps :
           LimitIsBounded(GetStepComputeResources(runs[i].specs, Definition[t], t, s).limit, t, s)
    /\ policy.task.max # Nil /\ policy.pipeline.max # Nil =>
         PipelineTimeoutIsBounded(runs[i].timeouts)

\* Is attempt i + 1 a retry of attempt i whose mitigation the status records?
Mitigated(i) == i < current /\ attempts[i + 1].mitigation # NoMitigation

\* The memory of a step and the timeout of a task of PipelineRun i.
StepMemory(i, task, step) ==
  GetStepComputeResources(runs[i].specs, Definition[task], task, step)

TaskTimeout(i, task) == GetTaskRunTimeout(runs[i].specs, Definition[task], task)

\* d is more than c, unless the ceiling or the policy allows no more.
Raised(c, d, grows, max) == c = Nil \/ d > c \/ ~grows \/ (max # Nil /\ c >= max)

\* A mitigated retry has more of what the failed attempt ran out of, unless that
\* was at its ceiling: however many retries, faults and edits came before.
RetryHelps ==
  \A i \in 1 .. current : Mitigated(i) =>
    LET a == attempts[i] IN
    /\ a.reason = "OOMKill" =>
         LET c == a.last[1]
             before == StepMemory(i, c.task, c.step)
             after == StepMemory(i + 1, c.task, c.step)
             grows == policy.memory.percent > 100
         IN /\ before.limit > 0 => Raised(before.limit, after.limit, grows, policy.memory.limit)
            /\ before.request > 0 => Raised(before.request, after.request, grows, policy.memory.request)
    /\ a.reason = "TaskRunTimeout" =>
         LET c == a.last[1]
         IN Raised(TaskTimeout(i, c.task), TaskTimeout(i + 1, c.task),
                   policy.task.increment > 0, policy.task.max)
    /\ a.reason = "PipelineRunTimeout" =>
         Raised(runs[i].timeouts.pipeline, runs[i + 1].timeouts.pipeline,
                policy.pipeline.increment > 0, policy.pipeline.max)

\* What the status records as the mitigation of an attempt is what its
\* PipelineRun was created with; a crash loses the record, never falsifies it.
\* (The tasks timeout is the exception: AdjustTimeouts may lower it afterwards.)
RecordedMitigationIsReal ==
  \A i \in 1 .. current - 1 :
    LET m == attempts[i + 1].mitigation
        c == attempts[i].last
    IN /\ m.limit # Nil => StepMemory(i + 1, c[1].task, c[1].step).limit = m.limit
       /\ m.request # Nil => StepMemory(i + 1, c[1].task, c[1].step).request = m.request
       /\ m.taskTimeout # Nil => TaskTimeout(i + 1, c[1].task) = m.taskTimeout
       /\ m.pipelinesTimeout # Nil => runs[i + 1].timeouts.pipeline = m.pipelinesTimeout

\* Is the PipelineRun of attempt j made from the one of attempt i, by retries
\* that all recorded a mitigation?
Chain(i, j) == \A k \in i .. j - 1 : Mitigated(k)

\* The mitigations of several retries accumulate: the timeout one task was given
\* stays when another task, a step or the pipeline needs more later.  (Where the
\* failed PipelineRun has no overrides at all, the retry takes the ones of the
\* ReleasePlanAdmission, as somebody may have edited them meanwhile.)
TimeoutsAccumulate ==
  \A i, j \in 1 .. current : i < j /\ Chain(i, j) /\ runs[i].specs # NoSpecs =>
    \A t \in Tasks :
      \/ TaskTimeout(j, t) >= TaskTimeout(i, t)
      \/ policy.task.max # Nil /\ TaskTimeout(i, t) > policy.task.max

\* The managed phase fails for good only on an attempt that failed or on an
\* error of the creation that would come again: never on an outage of git or of
\* the API server.
OutagesAreNotFinal ==
  phase = "failed" =>
    \/ current > 0 /\ attempts[current].status = "failed" /\ ~canRetryManagedPipeline
    \/ refusal \in {"invalidConfig", "branchNotFound", "denied", "badTimeouts"}

-----------------------------------------------------------------------------
(* What a comment of the code promises and the code does not keep. *)

\* computeRetryOverrides takes the failed PipelineRun as its base "so mitigations
\* accumulate": the memory limit that a recorded mitigation gave a step is still
\* there after the retries that follow.
MitigationsAccumulate ==
  \A i, j \in 2 .. current : i < j /\ Chain(i, j) =>
    LET given == attempts[i].mitigation.limit
        killed == attempts[i - 1].last
    IN given # Nil => StepMemory(j, killed[1].task, killed[1].step).limit >= given
=============================================================================
