----------------------------- MODULE Mitigations -----------------------------
(***************************************************************************)
(* The timeouts, the memory and the overrides of a managed PipelineRun, as *)
(* functions of their inputs: AdjustTimeouts (tekton/utils/pipeline.go),   *)
(* the mitigations of retry/mitigations.go and the lookups of              *)
(* tekton/utils.go they start from.                                        *)
(*                                                                         *)
(* Durations and memory are natural numbers, or Nil where the Go code has  *)
(* a nil pointer or no entry.  The overrides of a PipelineRun              *)
(* (spec.taskRunSpecs) are a function of the task; a task without an entry *)
(* has NoOverride.                                                         *)
(***************************************************************************)
EXTENDS Integers

CONSTANTS
  Tasks,   \* the tasks of the managed pipeline
  Steps,   \* the steps of a task
  Minute   \* how many units of time a minute has

ASSUME MinuteAssumption == Minute \in Nat \ {0}

Nil == -1
Optional == Nat \cup {Nil}

\* The number a nil pointer stands for.
Value(d) == IF d = Nil THEN 0 ELSE d

TimeoutFields == [pipeline : Optional, tasks : Optional, finally : Optional]

Timeouts(p, k, f) == [pipeline |-> p, tasks |-> k, finally |-> f]

NoTimeouts == Timeouts(Nil, Nil, Nil)

\* ResourceRequirements: the memory limit and request.  set: is there an entry
\* at all?  One that sets only the CPU has neither.
Resources == [set : BOOLEAN, limit : Optional, request : Optional]

Memory(limit, request) == [set |-> TRUE, limit |-> limit, request |-> request]

NoResources == [set |-> FALSE, limit |-> Nil, request |-> Nil]

\* PipelineTaskRunSpec.
Override == [timeout : Optional, resources : Resources, steps : [Steps -> Resources]]

NoSteps == [s \in Steps |-> NoResources]

NoOverride == [timeout |-> Nil, resources |-> NoResources, steps |-> NoSteps]

NoSpecs == [t \in Tasks |-> NoOverride]

-----------------------------------------------------------------------------
(* The timeouts of a PipelineRun. *)

\* Set, for AdjustTimeouts: zero counts as unset.
IsSet(d) == d > 0

AdjustmentBuffer(t) ==
  IF IsSet(t.pipeline) /\ t.pipeline < 20 * Minute THEN t.pipeline \div 2 ELSE 10 * Minute

\* Mutant: the timeouts are taken as they are.
AdjustTimeouts_AsGiven(t) == t

AdjustTimeouts(t) ==
  LET p == t.pipeline
      k == t.tasks
      f == t.finally
      b == AdjustmentBuffer(t)
      given == Timeouts(p, k, IF IsSet(f) THEN f ELSE Nil)
  IN CASE ~IsSet(p) /\ ~IsSet(k) /\ ~IsSet(f) -> t
       [] IsSet(p) /\ IsSet(k) /\ IsSet(f)    -> IF p >= k + f THEN given
                                                 ELSE Timeouts(p, p - b, b)
       [] IsSet(p) /\ IsSet(k) /\ ~IsSet(f)   -> IF k < p THEN given
                                                 ELSE Timeouts(p, p - b, Nil)
       [] IsSet(p) /\ ~IsSet(k) /\ IsSet(f)   -> IF f <= p \div 2 THEN Timeouts(p, p - f, f)
                                                 ELSE Timeouts(p, p - b, b)
       [] IsSet(p) /\ ~IsSet(k) /\ ~IsSet(f)  -> Timeouts(p, p - b, Nil)
       [] ~IsSet(p) /\ IsSet(k) /\ ~IsSet(f)  -> Timeouts(k + b, k, Nil)
       [] ~IsSet(p) /\ ~IsSet(k) /\ IsSet(f)  -> NoTimeouts
       [] ~IsSet(p) /\ IsSet(k) /\ IsSet(f)   -> Timeouts(k + f, k, f)

\* The builder takes the defaults only when nothing at all is given.
WithTimeouts(t, default) == IF t = NoTimeouts THEN default ELSE t

\* Tekton's own check of a PipelineRun; without a pipeline timeout it takes an
\* hour.  A timeout of zero is none, which a part may only have with the whole.
TektonAccepts(t) ==
  LET p == IF t.pipeline = Nil THEN 60 * Minute ELSE t.pipeline
      within(d) == d = Nil \/ p = 0 \/ (d # 0 /\ d <= p)
  IN /\ within(t.tasks) /\ within(t.finally)
     /\ t.tasks # Nil /\ t.finally # Nil => t.tasks + t.finally <= p

-----------------------------------------------------------------------------
(* Mitigations of timeouts.  A policy is [increment, max], max may be Nil. *)

Capped(d, max) == IF max # Nil /\ d > max THEN max ELSE d

\* Mutant: the ceiling is forgotten.
addCappedDuration_Uncapped(d, policy) == Value(d) + policy.increment

addCappedDuration(d, policy) == Capped(Value(d) + policy.increment, policy.max)

\* pipeline >= tasks + finally, by raising pipeline.
enforcePipelineCeiling(t) ==
  IF t.pipeline # Nil /\ t.pipeline < Value(t.tasks) + Value(t.finally)
  THEN [t EXCEPT !.pipeline = Value(t.tasks) + Value(t.finally)]
  ELSE t

\* The new timeout of the task, Nil when it had none, and the timeouts around it.
ApplyTaskTimeoutMitigation(current, t, policy) ==
  LET d == addCappedDuration(current, policy)
      around == IF t.tasks # Nil /\ d > t.tasks THEN [t EXCEPT !.tasks = d] ELSE t
  IN IF current = Nil THEN [timeout |-> Nil, timeouts |-> t]
     ELSE [timeout |-> d, timeouts |-> enforcePipelineCeiling(around)]

ApplyPipelineTimeoutMitigation(t, policy) ==
  LET more(d) == IF d = Nil THEN Nil ELSE addCappedDuration(d, policy)
  IN enforcePipelineCeiling(Timeouts(more(t.pipeline), more(t.tasks), t.finally))

-----------------------------------------------------------------------------
(* Mitigation of memory.  A policy is [percent, limit, request]: the       *)
(* multiplier in hundredths and the ceilings, which may be Nil.            *)

\* Rounded up.
multiplyQuantity(q, percent) == (q * percent + 99) \div 100

\* NoResources: there is nothing to mitigate.
ApplyMemoryMitigation(r, policy) ==
  LET more(q, max) == IF q = Nil THEN Nil ELSE Capped(multiplyQuantity(q, policy.percent), max)
  IN IF policy.percent = 0 \/ (r.limit = Nil /\ r.request = Nil)
     THEN NoResources
     ELSE Memory(more(r.limit, policy.limit), more(r.request, policy.request))

-----------------------------------------------------------------------------
(* Overrides. *)

\* Mutant: the overrides of the other tasks are dropped.
MergeTaskRunSpecs_Replace(specs, task, o) == [NoSpecs EXCEPT ![task] = o]

\* StepSpecs and ComputeResources replace one another, each as a whole.
MergeTaskRunSpecs(specs, task, o) ==
  LET old == specs[task]
      steps == o.steps # NoSteps
  IN [specs EXCEPT ![task] =
        [timeout   |-> IF o.timeout # Nil THEN o.timeout ELSE old.timeout,
         resources |-> IF o.resources.set THEN o.resources
                       ELSE IF steps THEN NoResources ELSE old.resources,
         steps     |-> IF o.resources.set THEN NoSteps
                       ELSE IF steps THEN o.steps ELSE old.steps]]

\* definition: the task as the pipeline defines it, [timeout, steps], NoOverride
\* when the TaskRun was not found.
GetStepComputeResources(specs, definition, task, step) ==
  CASE specs[task].steps[step].set -> specs[task].steps[step]
    [] ~specs[task].steps[step].set /\ specs[task].resources.set -> specs[task].resources
    [] ~specs[task].steps[step].set /\ ~specs[task].resources.set -> definition.steps[step]

GetTaskRunTimeout(specs, definition, task) ==
  IF specs[task].timeout # Nil THEN specs[task].timeout ELSE definition.timeout
=============================================================================
