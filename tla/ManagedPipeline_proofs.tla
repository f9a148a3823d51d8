------------------------ MODULE ManagedPipeline_proofs ------------------------
(***************************************************************************)
(* Proofs about ManagedPipeline for all pipelines, policies, definitions,  *)
(* defaults and outcomes, and for any number of retries, edits and faults. *)
(***************************************************************************)
EXTENDS ManagedPipeline, Mitigations_proofs

-----------------------------------------------------------------------------
(* The pipeline timeout of a retry. *)

\* Not more than a pipeline timeout without mitigations.
Small(d) == \E unmitigated \in UnmitigatedPipelineTimeouts : d <= unmitigated

\* The timeouts of a PipelineRun are the defaults or come from AdjustTimeouts, and
\* the time for finally is not the product of a mitigation.
Ordinary(t) ==
  /\ t \in TimeoutFields
  /\ t = DefaultTimeouts \/ Coherent(t)
  /\ Small(Value(t.finally))

\* Which timeouts are unmitigated.
LEMMA UnmitigatedTimeouts ==
  LET time == Value(DefaultTimeouts.tasks) + Value(DefaultTimeouts.finally) + 10 * Minute
  IN  /\ UnmitigatedPipelineTimeouts \subseteq Optional
      /\ DefaultTimeouts.pipeline \in UnmitigatedPipelineTimeouts
      /\ time \in UnmitigatedPipelineTimeouts
      /\ Value(DefaultTimeouts.tasks) \in Nat /\ Value(DefaultTimeouts.finally) \in Nat
      /\ 10 * Minute \in Nat
<1>1. DefaultTimeouts \in TimeoutFields
  BY DefaultsAssumption
<1>2. /\ Value(DefaultTimeouts.tasks) \in Nat /\ Value(DefaultTimeouts.finally) \in Nat
      /\ 10 * Minute \in Nat /\ DefaultTimeouts.pipeline \in Optional
  BY <1>1, FieldsOfTimeouts, ValueType, MinuteAssumption
<1>3. Value(DefaultTimeouts.tasks) + Value(DefaultTimeouts.finally) + 10 * Minute \in Optional
  BY <1>2 DEF Optional
<1>4. ASSUME NEW q \in Pipelines
      PROVE  WithTimeouts(AdjustTimeouts(q.timeouts), DefaultTimeouts).pipeline \in Optional
  <2>1. q.timeouts \in TimeoutFields
    BY PipelinesAssumption DEF Pipeline
  <2>2. QED BY <1>1, <2>1, TimeoutsOfARun, FieldsOfTimeouts
<1>5. QED BY <1>2, <1>3, <1>4 DEF UnmitigatedPipelineTimeouts

\* A duration within the defaults is small.
LEMMA SmallDurations ==
  /\ \A d \in Int : d <= 10 * Minute => Small(d)
  /\ \A d \in Int : d <= Value(DefaultTimeouts.tasks) + Value(DefaultTimeouts.finally) + 10 * Minute
       => Small(d)
  /\ Small(DefaultTimeouts.pipeline)
  /\ \A d \in Int, e \in Int : d <= e /\ Small(e) => Small(d)
<1> DEFINE time == Value(DefaultTimeouts.tasks) + Value(DefaultTimeouts.finally) + 10 * Minute
<1>1. /\ time \in UnmitigatedPipelineTimeouts /\ time \in Int /\ 10 * Minute <= time
      /\ 10 * Minute \in Int
      /\ DefaultTimeouts.pipeline \in UnmitigatedPipelineTimeouts
  BY UnmitigatedTimeouts
<1>2. UnmitigatedPipelineTimeouts \subseteq Int
  BY UnmitigatedTimeouts DEF Optional, Nil
<1> HIDE DEF time
<1>3. \A d \in Int, e \in Int : d <= e /\ Small(e) => Small(d)
  BY <1>2 DEF Small
<1>4. Small(time) /\ Small(DefaultTimeouts.pipeline)
  <2>1. \A u \in UnmitigatedPipelineTimeouts : u <= u
    BY <1>2
  <2>2. QED BY <1>1, <2>1 DEF Small
<1>5. \A d \in Int : d <= time => Small(d)
  BY <1>1, <1>3, <1>4
<1>6. \A d \in Int : d <= 10 * Minute => Small(d)
  <2> SUFFICES ASSUME NEW d \in Int, d <= 10 * Minute PROVE Small(d)
    OBVIOUS
  <2>1. d <= time
    BY <1>1
  <2>2. QED BY <1>5, <2>1
<1>7. QED BY <1>3, <1>4, <1>5, <1>6 DEF time

\* The defaults are ordinary.
LEMMA DefaultsAreOrdinary == Ordinary(DefaultTimeouts)
<1>1. DefaultTimeouts \in TimeoutFields
  BY DefaultsAssumption
<1>2. /\ Value(DefaultTimeouts.tasks) \in Nat /\ Value(DefaultTimeouts.finally) \in Nat
      /\ 10 * Minute \in Nat
  BY UnmitigatedTimeouts
<1>3. Value(DefaultTimeouts.finally) <=
        Value(DefaultTimeouts.tasks) + Value(DefaultTimeouts.finally) + 10 * Minute
  BY <1>2
<1>4. QED BY <1>1, <1>2, <1>3, SmallDurations DEF Ordinary

\* Timeouts made from ordinary ones, finally included, are ordinary.
LEMMA OrdinaryTimeouts ==
  ASSUME NEW m \in TimeoutFields, Small(Value(m.finally))
  PROVE  Ordinary(WithTimeouts(AdjustTimeouts(m), DefaultTimeouts))
<1> DEFINE a == AdjustTimeouts(m)
           w == WithTimeouts(a, DefaultTimeouts)
<1>1. CASE w = DefaultTimeouts
  BY <1>1, DefaultsAreOrdinary
<1>2. CASE w # DefaultTimeouts
  <2>1. DefaultTimeouts \in TimeoutFields
    BY DefaultsAssumption
  <2>2. w = a /\ a \in TimeoutFields /\ Coherent(a)
    BY <1>2, <2>1, TimeoutsOfARun, AdjustedTimeouts
  <2>3. a.finally = m.finally \/ a.finally <= 10 * Minute
    BY AdjustedTimeouts
  <2> HIDE DEF a, w
  <2>4. a.finally \in Optional
    BY <2>2, FieldsOfTimeouts
  <2>5. 10 * Minute \in Nat
    BY UnmitigatedTimeouts
  <2>6. a.finally <= 10 * Minute => Value(a.finally) <= 10 * Minute /\ Value(a.finally) \in Int
    BY <2>4, <2>5 DEF Value, Optional, Nil
  <2>7. Small(Value(a.finally))
    BY <2>3, <2>6, SmallDurations
  <2>8. Ordinary(w)
    BY <2>2, <2>7 DEF Ordinary
  <2>9. QED BY <2>8 DEF w, a
<1>3. QED BY <1>1, <1>2

\* The timeouts of a PipelineRun without mitigations.
LEMMA GivenTimeouts ==
  ASSUME NEW q \in Pipelines
  PROVE  LET w == WithTimeouts(AdjustTimeouts(q.timeouts), DefaultTimeouts)
         IN  Ordinary(w) /\ PipelineTimeoutIsBounded(w)
<1> DEFINE a == AdjustTimeouts(q.timeouts)
           w == WithTimeouts(a, DefaultTimeouts)
<1>1. q.timeouts \in TimeoutFields /\ DefaultTimeouts \in TimeoutFields
  BY PipelinesAssumption, DefaultsAssumption DEF Pipeline
<1>2. w.pipeline \in UnmitigatedPipelineTimeouts /\ w.pipeline \in Int
  BY UnmitigatedTimeouts DEF UnmitigatedPipelineTimeouts, Optional, Nil
<1>3. Small(w.pipeline)
  BY <1>2 DEF Small
<1>4. PipelineTimeoutIsBounded(w)
  BY <1>3 DEF PipelineTimeoutIsBounded, Small
<1>5. Ordinary(w)
  <2>1. CASE w = DefaultTimeouts
    BY <2>1, DefaultsAreOrdinary
  <2>2. CASE w # DefaultTimeouts
    <3>1. w \in TimeoutFields /\ Coherent(w)
      BY <1>1, <2>2, TimeoutsOfARun
    <3> HIDE DEF w
    <3>2. w.pipeline \in Optional /\ w.tasks \in Optional /\ w.finally \in Optional
      BY <3>1, FieldsOfTimeouts
    <3>3. Value(w.finally) <= w.pipeline \/ Value(w.finally) <= 10 * Minute
      BY <3>1, <3>2, UnmitigatedTimeouts DEF Coherent, Value, Optional, Nil
    <3>4. Value(w.finally) \in Int
      BY <3>2, ValueType
    <3>5. Small(Value(w.finally))
      BY <1>2, <1>3, <3>3, <3>4, SmallDurations
    <3>6. QED BY <3>1, <3>5 DEF Ordinary
  <2>3. QED BY <2>1, <2>2
<1>6. QED BY <1>4, <1>5

\* Timeouts that a mitigation with the ceiling max has made from t: every
\* duration is as before, within the ceiling or what the parts need.
Extended(t, m, max) ==
  LET parts == Value(m.tasks) + Value(m.finally)
  IN  /\ m \in TimeoutFields /\ m.finally = t.finally
      /\ m.tasks = t.tasks \/ (t.tasks # Nil /\ m.tasks <= max)
      /\ t.pipeline = Nil => m.pipeline = Nil
      /\ t.pipeline # Nil =>
           /\ m.pipeline >= parts
           /\ \/ m.pipeline = t.pipeline /\ m.tasks >= t.tasks
              \/ m.pipeline <= max
              \/ m.pipeline = parts

\* AdjustTimeouts keeps mitigated timeouts bounded.
LEMMA MitigatedTimeouts ==
  ASSUME NEW t, Ordinary(t), PipelineTimeoutIsBounded(t), NEW m, NEW max \in Nat,
         max \in {policy.task.max, policy.pipeline.max},
         policy.task.max \in Nat, policy.pipeline.max \in Nat,
         m = t \/ Extended(t, m, max)
  PROVE  LET w == WithTimeouts(AdjustTimeouts(m), DefaultTimeouts)
         IN  Ordinary(w) /\ PipelineTimeoutIsBounded(w)
<1> DEFINE a == AdjustTimeouts(m)
           w == WithTimeouts(a, DefaultTimeouts)
           parts == Value(m.tasks) + Value(m.finally)
<1>1. t \in TimeoutFields /\ m \in TimeoutFields /\ m.finally = t.finally
      /\ DefaultTimeouts \in TimeoutFields
  BY DefaultsAssumption DEF Ordinary, Extended
<1>2. Ordinary(w)
  BY <1>1, OrdinaryTimeouts DEF Ordinary
<1>3. /\ t.pipeline \in Optional /\ t.tasks \in Optional /\ t.finally \in Optional
      /\ m.pipeline \in Optional /\ m.tasks \in Optional
  BY <1>1, FieldsOfTimeouts
<1>4. 10 * Minute \in Nat
  BY UnmitigatedTimeouts
<1>5. CASE w = DefaultTimeouts
  BY <1>2, <1>5, SmallDurations DEF PipelineTimeoutIsBounded, Small
<1>6. CASE w # DefaultTimeouts
  <2>1. w = a /\ a \in TimeoutFields /\ a # NoTimeouts
    BY <1>1, <1>6, TimeoutsOfARun
  <2>2. /\ m.pipeline > 0 => a.pipeline = m.pipeline
        /\ m.pipeline <= 0 /\ Value(m.tasks) <= 0 /\ Value(m.finally) <= 0 => a = m
        /\ m.pipeline <= 0 /\ Value(m.tasks) <= 0 /\ Value(m.finally) > 0 => a = NoTimeouts
        /\ m.pipeline <= 0 /\ Value(m.tasks) > 0 /\ Value(m.finally) > 0 =>
             a = Timeouts(parts, Value(m.tasks), Value(m.finally))
        /\ m.pipeline <= 0 /\ Value(m.tasks) > 0 /\ Value(m.finally) <= 0 =>
             a = Timeouts(Value(m.tasks) + 10 * Minute, Value(m.tasks), Nil)
        /\ m.pipeline > 0 /\ Value(m.tasks) > 0 /\ parts <= m.pipeline /\ Value(m.finally) > 0 =>
             a.finally = m.finally
    BY <1>1, AdjustedTimeouts
  <2> HIDE DEF a, w
  <2>3. a.pipeline \in Optional /\ a.finally \in Optional
    BY <2>1, FieldsOfTimeouts
  <2> DEFINE k == Value(m.tasks)
             f == Value(m.finally)
  <2>4. k \in Nat /\ f \in Nat /\ Value(t.tasks) \in Nat /\ Value(a.finally) \in Nat
    BY <1>1, <1>3, <2>3, ValueType
  <2>5. a.pipeline \in Int /\ m.pipeline \in Int /\ t.pipeline \in Int /\ t.tasks \in Int /\ m.tasks \in Int
    BY <1>3, <2>3 DEF Optional, Nil
  \* How the bound of t carries over to a shorter pipeline timeout.
  <2>6. \/ Small(t.pipeline)
        \/ \E x \in {policy.task.max, policy.pipeline.max} :
             t.pipeline <= x + f \/ t.pipeline <= x + 10 * Minute
    BY <1>1 DEF PipelineTimeoutIsBounded, Small
  <2>7. ASSUME a.pipeline <= t.pipeline, f = 0 \/ Value(a.finally) = f
        PROVE  PipelineTimeoutIsBounded(a)
    <3>1. CASE Small(t.pipeline)
      BY <2>5, <2>7, <3>1, SmallDurations DEF PipelineTimeoutIsBounded, Small
    <3>2. CASE ~Small(t.pipeline)
      <4>1. PICK x \in {policy.task.max, policy.pipeline.max} :
              t.pipeline <= x + f \/ t.pipeline <= x + 10 * Minute
        BY <2>6, <3>2
      <4>2. x \in Nat
        BY <4>1
      <4>3. a.pipeline <= x + Value(a.finally) \/ a.pipeline <= x + 10 * Minute
        BY <1>4, <2>4, <2>5, <2>7, <4>1, <4>2
      <4>4. QED BY <4>1, <4>3 DEF PipelineTimeoutIsBounded
    <3>3. QED BY <3>1, <3>2
  <2>8. ASSUME a.pipeline <= max + 10 * Minute \/ a.pipeline <= max + Value(a.finally)
        PROVE  PipelineTimeoutIsBounded(a)
    BY <2>8 DEF PipelineTimeoutIsBounded
  <2>9. ASSUME Small(a.pipeline)
        PROVE  PipelineTimeoutIsBounded(a)
    BY <2>9 DEF PipelineTimeoutIsBounded, Small
  <2>10. PipelineTimeoutIsBounded(a)
    <3>1. CASE m.pipeline <= 0
      <4>1. CASE k <= 0
        <5>1. a = m
          BY <2>1, <2>2, <2>4, <3>1, <4>1
        <5>2. a.pipeline <= 10 * Minute
          BY <1>4, <2>5, <3>1, <5>1
        <5>3. QED BY <2>5, <2>9, <5>2, SmallDurations
      <4>2. CASE k > 0
        <5>1. \/ f > 0 /\ a.pipeline = k + f /\ Value(a.finally) = f
              \/ f = 0 /\ a.pipeline = k + 10 * Minute
          <6>1. CASE f > 0
            <7>1. a = Timeouts(k + f, k, f)
              BY <2>2, <3>1, <4>2, <6>1
            <7>2. k + f \in Optional /\ k \in Optional /\ f \in Optional /\ f # Nil
              BY <2>4 DEF Optional, Nil
            <7>3. a.pipeline = k + f /\ a.finally = f
              BY <7>1, <7>2, TimeoutsFields
            <7>4. QED BY <6>1, <7>2, <7>3 DEF Value
          <6>2. CASE f = 0
            <7>1. a = Timeouts(k + 10 * Minute, k, Nil)
              BY <2>2, <3>1, <4>2, <6>2
            <7>2. k + 10 * Minute \in Optional /\ k \in Optional /\ Nil \in Optional
              BY <1>4, <2>4 DEF Optional, Nil
            <7>3. QED BY <6>2, <7>1, <7>2, TimeoutsFields
          <6>3. QED BY <2>4, <6>1, <6>2
        <5>2. m.tasks = t.tasks \/ m.tasks <= max
          BY DEF Extended
        <5>3. CASE m.tasks <= max
          <6>1. k <= max
            BY <2>4, <2>5, <5>3, <1>3 DEF Value
          <6>2. QED BY <1>4, <2>4, <2>8, <5>1, <6>1
        <5>4. CASE m.tasks = t.tasks
          <6>1. t.tasks > 0
            BY <1>3, <4>2, <5>4 DEF Value, Optional, Nil
          <6>2. t = DefaultTimeouts
            <7>1. CASE Coherent(t)
              <8>1. t.pipeline > 0 /\ t.pipeline # Nil
                BY <1>3, <6>1, <7>1 DEF Coherent, Optional, Nil
              <8>2. m.pipeline >= k + f \/ m = t
                BY <8>1 DEF Extended
              <8>3. QED BY <2>4, <2>5, <3>1, <4>2, <8>1, <8>2
            <7>2. QED BY <7>1 DEF Ordinary
          <6>3. a.pipeline <= Value(DefaultTimeouts.tasks) + Value(DefaultTimeouts.finally) + 10 * Minute
            BY <1>1, <1>4, <2>4, <5>1, <5>4, <6>2
          <6>4. QED BY <2>5, <2>9, <6>3, SmallDurations
        <5>5. QED BY <5>2, <5>3, <5>4
      <4>3. QED BY <2>4, <4>1, <4>2
    <3>2. CASE m.pipeline > 0
      <4>1. a.pipeline = m.pipeline
        BY <2>2, <3>2
      <4>2. k > 0 /\ k + f <= m.pipeline => f = 0 \/ Value(a.finally) = f
        BY <2>2, <2>4, <3>2
      <4>3. CASE t = DefaultTimeouts /\ m.pipeline = t.pipeline
        BY <2>9, <4>1, <4>3, SmallDurations
      <4>4. CASE m.pipeline <= max
        BY <1>4, <2>5, <2>8, <4>1, <4>4
      <4>5. CASE m.pipeline = k + f /\ k <= 0
        <5>1. a.pipeline = Value(t.finally)
          BY <1>1, <2>4, <4>1, <4>5
        <5>2. QED BY <2>9, <5>1 DEF Ordinary
      <4>6. CASE m.pipeline = k + f /\ k > 0 /\ m.tasks <= max
        <5>1. k <= max
          BY <2>4, <2>5, <4>6, <1>3 DEF Value
        <5>2. f = 0 \/ Value(a.finally) = f
          BY <2>4, <2>5, <4>2, <4>6
        <5>3. QED BY <1>4, <2>4, <2>8, <4>1, <4>6, <5>1, <5>2
      <4>7. CASE m.pipeline = k + f /\ k > 0 /\ m.tasks = t.tasks
        <5>1. f = 0 \/ Value(a.finally) = f
          BY <2>4, <2>5, <4>2, <4>7
        <5>2. CASE t = DefaultTimeouts
          <6>1. a.pipeline <= Value(DefaultTimeouts.tasks) + Value(DefaultTimeouts.finally) + 10 * Minute
            BY <1>1, <1>4, <2>4, <4>1, <4>7, <5>2
          <6>2. QED BY <2>5, <2>9, <6>1, SmallDurations
        <5>3. CASE Coherent(t)
          <6>1. a.pipeline <= t.pipeline
            BY <1>1, <1>3, <2>4, <4>1, <4>7, <5>3 DEF Coherent, Value, Optional, Nil
          <6>2. QED BY <2>7, <5>1, <6>1
        <5>4. QED BY <5>2, <5>3 DEF Ordinary
      <4>8. CASE Coherent(t) /\ m.pipeline = t.pipeline /\ m.tasks >= t.tasks
        <5>1. t.tasks > 0
          BY <1>3, <3>2, <4>8 DEF Coherent, Optional, Nil
        <5>2. k > 0
          BY <1>3, <2>5, <4>8, <5>1 DEF Value, Optional, Nil
        <5>3. k + f <= m.pipeline
          <6>1. t.pipeline # Nil
            BY <3>2, <4>8 DEF Nil
          <6>2. CASE Extended(t, m, max)
            BY <2>4, <2>5, <6>1, <6>2 DEF Extended
          <6>3. CASE m = t
            BY <3>2, <4>8, <6>3, <2>5 DEF Coherent
          <6>4. QED BY <6>2, <6>3
        <5>4. a.pipeline <= t.pipeline
          BY <2>5, <4>1, <4>8
        <5>5. QED BY <2>7, <4>2, <5>2, <5>3, <5>4
      <4>9. QED
        <5>1. t.pipeline # Nil \/ m = t
          BY <3>2 DEF Extended, Nil
        <5>2. \/ m.pipeline = t.pipeline /\ m.tasks >= t.tasks
              \/ m.pipeline <= max
              \/ m.pipeline = k + f
          BY <2>5, <5>1 DEF Extended
        <5>3. m.tasks = t.tasks \/ m.tasks <= max
          BY DEF Extended
        <5>4. t = DefaultTimeouts \/ Coherent(t)
          BY DEF Ordinary
        <5>5. k <= 0 \/ k > 0
          BY <2>4
        <5>6. QED BY <4>3, <4>4, <4>5, <4>6, <4>7, <4>8, <5>2, <5>3, <5>4, <5>5
    <3>3. QED BY <2>5, <3>1, <3>2
  <2>11. QED BY <1>2, <2>1, <2>10 DEF w, a
<1>7. QED BY <1>5, <1>6

-----------------------------------------------------------------------------
(* The invariant. *)

\* The memory of a step and the timeout of a task in a PipelineRun x.
MemoryOf(x, task, step) == GetStepComputeResources(x.specs, Definition[task], task, step)
TimeoutOf(x, task) == GetTaskRunTimeout(x.specs, Definition[task], task)

\* Every memory limit among the overrides is bounded.
LimitsAreBounded(specs) ==
  policy.memory.limit # Nil =>
    \A t \in Tasks, s \in Steps : /\ LimitIsBounded(specs[t].steps[s].limit, t, s)
                                  /\ LimitIsBounded(specs[t].resources.limit, t, s)

TimeoutIsBounded(t) ==
  policy.task.max # Nil /\ policy.pipeline.max # Nil => PipelineTimeoutIsBounded(t)

\* What holds of every PipelineRun, whatever retries led to it.
Made(x) ==
  /\ x \in PipelineRun
  /\ Ordinary(x.timeouts)
  /\ LimitsAreBounded(x.specs)
  /\ TimeoutIsBounded(x.timeouts)

\* RetryHelps of one retry: y follows x, whose attempt is a.
Helps(x, y, a) ==
  /\ a.reason = "OOMKill" =>
       LET c == a.last[1]
           before == MemoryOf(x, c.task, c.step)
           after == MemoryOf(y, c.task, c.step)
           grows == policy.memory.percent > 100
       IN /\ before.limit > 0 => Raised(before.limit, after.limit, grows, policy.memory.limit)
          /\ before.request > 0 => Raised(before.request, after.request, grows, policy.memory.request)
  /\ a.reason = "TaskRunTimeout" =>
       LET c == a.last[1]
       IN Raised(TimeoutOf(x, c.task), TimeoutOf(y, c.task),
                 policy.task.increment > 0, policy.task.max)
  /\ a.reason = "PipelineRunTimeout" =>
       Raised(x.timeouts.pipeline, y.timeouts.pipeline,
              policy.pipeline.increment > 0, policy.pipeline.max)

\* RecordedMitigationIsReal of one retry: y was created with the mitigation m.
Records(y, a, m) ==
  /\ m.limit # Nil => MemoryOf(y, a.last[1].task, a.last[1].step).limit = m.limit
  /\ m.request # Nil => MemoryOf(y, a.last[1].task, a.last[1].step).request = m.request
  /\ m.taskTimeout # Nil => TimeoutOf(y, a.last[1].task) = m.taskTimeout
  /\ m.pipelinesTimeout # Nil => y.timeouts.pipeline = m.pipelinesTimeout

\* TimeoutsAccumulate of one retry: no task loses time but to the ceiling.
Accumulates(x, y) ==
  x.specs # NoSpecs =>
    /\ y.specs # NoSpecs
    /\ \A t \in Tasks :
         \/ TimeoutOf(y, t) >= TimeoutOf(x, t)
         \/ policy.task.max # Nil /\ TimeoutOf(y, t) = policy.task.max
            /\ TimeoutOf(x, t) > policy.task.max

\* y is a mitigated retry of x.
Follows(x, y, a, m) == Helps(x, y, a) /\ Records(y, a, m) /\ Accumulates(x, y)

\* An attempt knows the child that ran out of something.
Explained(a) == a.reason \in {"OOMKill", "TaskRunTimeout"} => a.last # << >>

\* Every retry that recorded a mitigation follows the attempt before it, and the
\* overrides of a PipelineRun stay in the ones that follow.
History ==
  /\ \A i \in 1 .. current - 1 :
       attempts[i + 1].mitigation # NoMitigation =>
         Follows(runs[i], runs[i + 1], attempts[i], attempts[i + 1].mitigation)
  /\ \A i, j \in 1 .. current :
       i < j /\ Chain(i, j) /\ runs[i].specs # NoSpecs => runs[j].specs # NoSpecs
  /\ TimeoutsAccumulate

\* What RetryHelps, RecordedMitigationIsReal and TimeoutsAccumulate say of earlier
\* retries concerns PipelineRuns and attempts that no longer change; the invariant
\* has to say it of one retry at a time, for the failed attempt the next one
\* starts from, whatever its own history.
Inv ==
  /\ TypeOK
  /\ phase = "pending" => current = 0
  /\ phase = "progressing" => current > 0
  /\ \A i \in 1 .. Len(runs) : Made(runs[i])
  /\ \A i \in 1 .. current : Explained(attempts[i])
  /\ History
  /\ OutagesAreNotFinal

\* The policies have the types their parts need.
LEMMA PolicyTypes ==
  ASSUME TypeOK
  PROVE  /\ IncrementPolicy(policy.task) /\ IncrementPolicy(policy.pipeline)
         /\ MultiplyPolicy(policy.memory)
         /\ policy \in Policy /\ pipeline \in Pipeline /\ pipeline \in Pipelines
<1>1. policy \in Policy /\ pipeline \in Pipeline /\ pipeline \in Pipelines
  BY PoliciesAssumption, PipelinesAssumption DEF TypeOK
<1>2. policy.task \in TimeoutPolicy /\ policy.pipeline \in TimeoutPolicy /\ policy.memory \in MemoryPolicy
  BY <1>1 DEF Policy
<1>3. QED BY <1>1, <1>2 DEF TimeoutPolicy, MemoryPolicy, IncrementPolicy, MultiplyPolicy

\* No mitigation is a record of a mitigation.
LEMMA NoMitigationType == NoMitigation \in AppliedMitigation
BY NilIsOptional DEF NoMitigation, AppliedMitigation

\* What a new PipelineRun has.
LEMMA NewRunFields ==
  ASSUME NEW specs \in [Tasks -> Override], NEW timeouts \in TimeoutFields,
         NEW revision \in {"commit", "branch"}
  PROVE  LET x == NewRun(specs, timeouts, revision)
         IN  /\ x \in PipelineRun /\ x.specs = specs
             /\ x.timeouts = WithTimeouts(AdjustTimeouts(timeouts), DefaultTimeouts)
<1> DEFINE w == WithTimeouts(AdjustTimeouts(timeouts), DefaultTimeouts)
           o == [timedOut |-> FALSE, children |-> << >>]
<1>1. w \in TimeoutFields
  BY TimeoutsOfARun, DefaultsAssumption
<1>2. o \in Outcome
  BY DEF Outcome
<1>3. NewRun(specs, timeouts, revision) =
        [specs |-> specs, timeouts |-> w, revision |-> revision, state |-> "running", outcome |-> o]
  BY DEF NewRun
<1> HIDE DEF w, o
<1>4. QED BY <1>1, <1>2, <1>3 DEF PipelineRun, w

-----------------------------------------------------------------------------
(* What the next attempt is given. *)

\* A PipelineRun made of specs and timeouts is one the invariant allows, and with a
\* mitigation it follows the failed one.
Offered(specs, timeouts, mitigation) ==
  /\ specs \in [Tasks -> Override] /\ timeouts \in TimeoutFields
  /\ mitigation \in AppliedMitigation
  /\ \A revision \in {"commit", "branch"} :
       LET y == NewRun(specs, timeouts, revision)
       IN  /\ Made(y)
           /\ mitigation # NoMitigation =>
                current > 0 /\ Follows(runs[current], y, attempts[current], mitigation)

\* What has to be shown of an offer.
LEMMA OfferStep ==
  ASSUME NEW specs \in [Tasks -> Override], NEW timeouts \in TimeoutFields,
         NEW mitigation \in AppliedMitigation,
         LimitsAreBounded(specs),
         LET w == WithTimeouts(AdjustTimeouts(timeouts), DefaultTimeouts)
         IN  /\ Ordinary(w) /\ TimeoutIsBounded(w)
             /\ \A y : y.specs = specs /\ y.timeouts = w /\ mitigation # NoMitigation =>
                  current > 0 /\ Follows(runs[current], y, attempts[current], mitigation)
  PROVE  Offered(specs, timeouts, mitigation)
<1> SUFFICES ASSUME NEW revision \in {"commit", "branch"}
             PROVE  LET y == NewRun(specs, timeouts, revision)
                    IN  /\ Made(y)
                        /\ mitigation # NoMitigation =>
                             current > 0 /\ Follows(runs[current], y, attempts[current], mitigation)
  BY DEF Offered
<1> DEFINE y == NewRun(specs, timeouts, revision)
<1>1. /\ y \in PipelineRun /\ y.specs = specs
      /\ y.timeouts = WithTimeouts(AdjustTimeouts(timeouts), DefaultTimeouts)
  BY NewRunFields
<1> HIDE DEF y
<1>2. Made(y)
  BY <1>1 DEF Made
<1>3. QED BY <1>1, <1>2 DEF y

\* What a ReleasePlanAdmission writes is within the bounds by definition.
LEMMA WrittenIsBounded ==
  ASSUME NEW q \in Pipelines
  PROVE  LimitsAreBounded(q.specs)
<1> SUFFICES ASSUME NEW t \in Tasks, NEW s \in Steps
             PROVE  /\ q.specs[t].steps[s].limit \in WrittenLimits(t, s)
                    /\ q.specs[t].resources.limit \in WrittenLimits(t, s)
  BY DEF LimitsAreBounded, LimitIsBounded
<1> DEFINE F(p) == {p.specs[t].steps[s].limit, p.specs[t].resources.limit}
<1>1. F(q) \in {F(p) : p \in Pipelines}
  OBVIOUS
<1>2. F(q) \subseteq UNION {F(p) : p \in Pipelines}
  BY <1>1
<1>3. F(q) \subseteq WrittenLimits(t, s)
  BY <1>2 DEF WrittenLimits
<1>4. QED BY <1>3

\* The pipeline of the ReleasePlanAdmission as it is.
LEMMA OriginalIsOffered ==
  ASSUME Inv
  PROVE  Offered(pipeline.specs, pipeline.timeouts, NoMitigation)
<1>1. pipeline \in Pipeline /\ pipeline \in Pipelines /\ policy \in Policy
  BY PolicyTypes DEF Inv
<1>2. pipeline.specs \in [Tasks -> Override] /\ pipeline.timeouts \in TimeoutFields
  BY <1>1 DEF Pipeline
<1>3. LimitsAreBounded(pipeline.specs)
  BY <1>1, WrittenIsBounded
<1>4. LET w == WithTimeouts(AdjustTimeouts(pipeline.timeouts), DefaultTimeouts)
      IN  Ordinary(w) /\ TimeoutIsBounded(w)
  BY <1>1, GivenTimeouts DEF TimeoutIsBounded
<1>5. QED BY <1>2, <1>3, <1>4, NoMitigationType, OfferStep

\* What a retry starts from.
LEMMA TheBase ==
  ASSUME Inv, current > 0
  PROVE  /\ Made(runs[current]) /\ runs[current] \in PipelineRun
         /\ runs[current].specs \in [Tasks -> Override]
         /\ BaseSpecs \in [Tasks -> Override] /\ LimitsAreBounded(BaseSpecs)
         /\ runs[current].specs # NoSpecs => BaseSpecs = runs[current].specs
         /\ BaseTimeouts = runs[current].timeouts /\ BaseTimeouts \in TimeoutFields
         /\ Ordinary(BaseTimeouts) /\ TimeoutIsBounded(BaseTimeouts)
         /\ attempts[current] \in Attempt /\ Explained(attempts[current])
<1>1. /\ runs \in Seq(PipelineRun) /\ attempts \in Seq(Attempt) /\ current \in Nat
      /\ Len(runs) \in {current, current + 1}
  BY DEF Inv, TypeOK, current
<1>2. current \in 1 .. Len(runs) /\ current \in 1 .. Len(attempts) /\ current \in 1 .. current
  BY <1>1 DEF current
<1>3. runs[current] \in PipelineRun /\ attempts[current] \in Attempt
  BY <1>1, <1>2
<1>4. Made(runs[current]) /\ Explained(attempts[current])
  BY <1>2 DEF Inv
<1>5. runs[current].specs \in [Tasks -> Override] /\ runs[current].timeouts \in TimeoutFields
  BY <1>3 DEF PipelineRun
<1>6. pipeline.specs \in [Tasks -> Override] /\ LimitsAreBounded(pipeline.specs)
  <2>1. pipeline \in Pipelines /\ pipeline \in Pipeline
    BY PolicyTypes DEF Inv
  <2>2. pipeline.specs \in [Tasks -> Override]
    BY <2>1 DEF Pipeline
  <2>3. LimitsAreBounded(pipeline.specs)
    BY <2>1, WrittenIsBounded
  <2>4. QED BY <2>2, <2>3
<1>7. QED BY <1>3, <1>4, <1>5, <1>6 DEF BaseSpecs, BaseTimeouts, Made

\* The next attempt when nothing is mitigated.
LEMMA BaseIsOffered ==
  ASSUME Inv, current > 0
  PROVE  Offered(BaseSpecs, BaseTimeouts, NoMitigation)
<1>1. /\ BaseSpecs \in [Tasks -> Override] /\ LimitsAreBounded(BaseSpecs)
      /\ Ordinary(BaseTimeouts) /\ TimeoutIsBounded(BaseTimeouts) /\ BaseTimeouts \in TimeoutFields
  BY TheBase
<1> DEFINE w == WithTimeouts(AdjustTimeouts(BaseTimeouts), DefaultTimeouts)
<1>2. policy.task.max \in Optional /\ policy.pipeline.max \in Optional
  BY PolicyTypes DEF Inv, IncrementPolicy
<1>3. Ordinary(w)
  BY <1>1, OrdinaryTimeouts DEF Ordinary
<1>4. TimeoutIsBounded(w)
  <2> SUFFICES ASSUME policy.task.max # Nil, policy.pipeline.max # Nil
               PROVE  PipelineTimeoutIsBounded(w)
    BY DEF TimeoutIsBounded
  <2>1. policy.task.max \in Nat /\ policy.pipeline.max \in Nat
    BY <1>2 DEF Optional
  <2>2. PipelineTimeoutIsBounded(BaseTimeouts)
    BY <1>1 DEF TimeoutIsBounded
  <2>3. QED BY <1>1, <2>1, <2>2, MitigatedTimeouts
<1>5. QED BY <1>1, <1>3, <1>4, NoMitigationType, OfferStep

\* Timeouts within ceilings make a bounded PipelineRun.
LEMMA ExtendedIsBounded ==
  ASSUME Inv, current > 0, NEW m \in TimeoutFields, m.finally = BaseTimeouts.finally,
         NEW max \in {policy.task.max, policy.pipeline.max},
         max # Nil => Extended(BaseTimeouts, m, max)
  PROVE  LET w == WithTimeouts(AdjustTimeouts(m), DefaultTimeouts)
         IN  Ordinary(w) /\ TimeoutIsBounded(w)
<1>1. /\ Ordinary(BaseTimeouts) /\ TimeoutIsBounded(BaseTimeouts) /\ BaseTimeouts \in TimeoutFields
  BY TheBase
<1> DEFINE w == WithTimeouts(AdjustTimeouts(m), DefaultTimeouts)
<1>2. policy.task.max \in Optional /\ policy.pipeline.max \in Optional
  BY PolicyTypes DEF Inv, IncrementPolicy
<1>3. Ordinary(w)
  BY <1>1, OrdinaryTimeouts DEF Ordinary
<1>4. TimeoutIsBounded(w)
  <2> SUFFICES ASSUME policy.task.max # Nil, policy.pipeline.max # Nil
               PROVE  PipelineTimeoutIsBounded(w)
    BY DEF TimeoutIsBounded
  <2>1. policy.task.max \in Nat /\ policy.pipeline.max \in Nat /\ max # Nil /\ max \in Nat
    BY <1>2 DEF Optional
  <2>2. PipelineTimeoutIsBounded(BaseTimeouts)
    BY <1>1 DEF TimeoutIsBounded
  <2>3. QED BY <1>1, <2>1, <2>2, MitigatedTimeouts
<1>5. QED BY <1>3, <1>4

\* What the failed PipelineRun gives a step or a task, when it can be looked up.
LEMMA LookedUp ==
  ASSUME NEW specs \in [Tasks -> Override], NEW task \in Tasks, NEW step \in Steps,
         NEW definition \in {Definition[task], NoOverride}
  PROVE  LET r == GetStepComputeResources(specs, definition, task, step)
             d == GetTaskRunTimeout(specs, definition, task)
         IN  /\ r \in Resources /\ d \in Optional
             /\ \/ r = GetStepComputeResources(specs, Definition[task], task, step)
                \/ r = NoResources
             /\ d = GetTaskRunTimeout(specs, Definition[task], task) \/ d = Nil
<1>1. definition \in Override
  BY NoOverrideType, DefinitionAssumption
<1>2. NoOverride.steps[step] = NoResources /\ NoOverride.timeout = Nil
  BY DEF NoOverride, NoSteps
<1>3. specs[task].steps[step].set \in BOOLEAN /\ specs[task].resources.set \in BOOLEAN
  BY DEF Override, Resources
<1>4. QED BY <1>1, <1>2, <1>3, LookupTypes DEF GetStepComputeResources, GetTaskRunTimeout

\* An OOMKill: the step gets more memory, and nothing else changes for the worse.
LEMMA OOMKillIsOffered ==
  ASSUME Inv, current > 0, attempts[current].reason = "OOMKill",
         NEW definition \in {Definition[attempts[current].last[1].task], NoOverride}
  PROVE  LET r == MitigateOOMKill(definition)
         IN  Offered(r.specs, r.timeouts, r.mitigation)
<1> DEFINE x == runs[current]
           a == attempts[current]
           c == a.last[1]
           res == GetStepComputeResources(x.specs, definition, c.task, c.step)
           more == ApplyMemoryMitigation(res, policy.memory)
           o == MoreMemory(c.step, more)
           specs == MergeTaskRunSpecs(BaseSpecs, c.task, o)
           mitigation == [NoMitigation EXCEPT !.limit = more.limit, !.request = more.request]
<1>1. /\ x.specs \in [Tasks -> Override] /\ BaseSpecs \in [Tasks -> Override]
      /\ LimitsAreBounded(BaseSpecs) /\ BaseTimeouts \in TimeoutFields
      /\ x.specs # NoSpecs => BaseSpecs = x.specs
      /\ a \in Attempt /\ Explained(a)
  BY TheBase
<1>2. c \in ChildRun /\ c.task \in Tasks /\ c.step \in Steps
  <2>1. a.last \in Seq(ChildRun) /\ a.last # << >>
    BY <1>1 DEF Attempt, Explained
  <2>2. c \in ChildRun
    BY <2>1
  <2>3. QED BY <2>2 DEF ChildRun
<1>3. /\ res \in Resources
      /\ res = GetStepComputeResources(x.specs, Definition[c.task], c.task, c.step)
         \/ res = NoResources
  BY <1>1, <1>2, LookedUp
<1>4. MultiplyPolicy(policy.memory)
  BY PolicyTypes DEF Inv
<1>5. /\ more \in Resources
      /\ more.set = FALSE => more = NoResources
      /\ more.set = TRUE =>
           /\ res.limit = Nil <=> more.limit = Nil
           /\ res.request = Nil <=> more.request = Nil
           /\ policy.memory.limit # Nil => more.limit <= policy.memory.limit
           /\ res.limit > 0 => Raised(res.limit, more.limit, policy.memory.percent > 100, policy.memory.limit)
           /\ res.request > 0 => Raised(res.request, more.request, policy.memory.percent > 100, policy.memory.request)
      /\ res.limit = Nil /\ res.request = Nil => more.set = FALSE
  BY <1>3, <1>4, MemoryMitigated DEF Raised
<1>6. CASE more.set = FALSE
  <2>1. MitigateOOMKill(definition) = Retry(BaseSpecs, BaseTimeouts, NoMitigation)
    BY <1>6 DEF MitigateOOMKill
  <2>2. QED BY <2>1, BaseIsOffered DEF Retry
<1>7. CASE more.set = TRUE
  <2>1. MitigateOOMKill(definition) = Retry(specs, BaseTimeouts, mitigation)
    BY <1>7 DEF MitigateOOMKill, MoreMemory
  <2>2. res = MemoryOf(x, c.task, c.step)
    <3>1. res # NoResources
      BY <1>5, <1>7 DEF NoResources
    <3>2. QED BY <1>3, <3>1 DEF MemoryOf
  <2> HIDE DEF res, more
  <2>3. /\ o \in Override
        /\ specs[c.task].timeout = BaseSpecs[c.task].timeout
        /\ specs[c.task].resources = NoResources
        /\ specs[c.task].steps[c.step] = more
        /\ \A s \in Steps \ {c.step} : specs[c.task].steps[s] = NoResources
    <3>1. more \in Resources /\ BaseSpecs[c.task] \in Override /\ c.task \in Tasks /\ c.step \in Steps
      BY <1>1, <1>2, <1>5
    <3>2. o \in Override /\ specs[c.task] = WithMemory(BaseSpecs[c.task], c.step, more)
      BY <1>1, <1>7, <3>1, MergedMemory
    <3> HIDE DEF o, specs
    <3> DEFINE w == WithMemory(BaseSpecs[c.task], c.step, more)
    <3>3. /\ w.timeout = BaseSpecs[c.task].timeout /\ w.resources = NoResources
          /\ w.steps[c.step] = more
          /\ \A s \in Steps \ {c.step} : w.steps[s] = NoResources
      BY <3>1, MemoryParts
    <3> HIDE DEF w
    <3>4. specs[c.task] = w
      BY <3>2 DEF w
    <3>5. QED BY <3>2, <3>3, <3>4
  <2> HIDE DEF o
  <2>4. /\ specs \in [Tasks -> Override]
        /\ \A t \in Tasks \ {c.task} : specs[t] = BaseSpecs[t]
    BY <1>1, <1>2, <2>3, MergedSpecs
  <2>5. /\ mitigation \in AppliedMitigation /\ mitigation.limit = more.limit
        /\ mitigation.request = more.request /\ mitigation.taskTimeout = Nil
        /\ mitigation.pipelinesTimeout = Nil
    BY <1>5, NilIsOptional DEF NoMitigation, AppliedMitigation, Resources
  <2> HIDE DEF specs, mitigation
  <2>6. LimitsAreBounded(specs)
    <3> SUFFICES ASSUME policy.memory.limit # Nil, NEW t \in Tasks, NEW s \in Steps
                 PROVE  /\ LimitIsBounded(specs[t].steps[s].limit, t, s)
                        /\ LimitIsBounded(specs[t].resources.limit, t, s)
      BY DEF LimitsAreBounded
    <3>1. policy.memory.limit \in Nat
      BY <1>4 DEF MultiplyPolicy, Optional
    <3>2. NoResources.limit <= policy.memory.limit
      BY <3>1 DEF NoResources, Nil
    <3>3. CASE t = c.task
      BY <1>5, <1>7, <2>3, <3>2, <3>3 DEF LimitIsBounded
    <3>4. CASE t # c.task
      BY <1>1, <2>4, <3>4 DEF LimitsAreBounded
    <3>5. QED BY <3>3, <3>4
  <2>7. LET w == WithTimeouts(AdjustTimeouts(BaseTimeouts), DefaultTimeouts)
        IN  Ordinary(w) /\ TimeoutIsBounded(w)
    <3>1. Offered(BaseSpecs, BaseTimeouts, NoMitigation)
      BY BaseIsOffered
    <3>2. QED BY <3>1, NewRunFields DEF Offered, Made
  <2>8. ASSUME NEW y, y.specs = specs
        PROVE  Follows(x, y, a, mitigation)
    <3>1. MemoryOf(y, c.task, c.step) = more
      BY <1>7, <2>3, <2>8 DEF MemoryOf, GetStepComputeResources
    <3>2. Helps(x, y, a)
      BY <1>5, <1>7, <2>2, <3>1 DEF Helps
    <3>3. Records(y, a, mitigation)
      BY <2>5, <3>1 DEF Records
    <3>4. Accumulates(x, y)
      <4> SUFFICES ASSUME x.specs # NoSpecs
                   PROVE  /\ y.specs # NoSpecs
                          /\ \A t \in Tasks : TimeoutOf(y, t) >= TimeoutOf(x, t)
        BY DEF Accumulates
      <4>1. y.specs # NoSpecs
        <5>1. NoSpecs[c.task].steps[c.step].set = FALSE
          BY <1>2 DEF NoSpecs, NoOverride, NoSteps, NoResources
        <5>2. QED BY <1>7, <2>3, <2>8, <5>1
      <4>2. \A t \in Tasks : y.specs[t].timeout = x.specs[t].timeout
        BY <1>1, <2>3, <2>4, <2>8
      <4>3. \A t \in Tasks : TimeoutOf(y, t) = TimeoutOf(x, t) /\ TimeoutOf(x, t) \in Int
        <5> TAKE t \in Tasks
        <5>1. Definition[t] \in Override
          BY DefinitionAssumption
        <5>2. TimeoutOf(x, t) \in Optional
          BY <1>1, <5>1 DEF TimeoutOf, GetTaskRunTimeout, Override
        <5>3. QED BY <4>2, <5>2 DEF TimeoutOf, GetTaskRunTimeout, Optional, Nil
      <4>4. QED BY <4>1, <4>3
    <3>5. QED BY <3>2, <3>3, <3>4 DEF Follows
  <2>9. Offered(specs, BaseTimeouts, mitigation)
    BY <1>1, <2>4, <2>5, <2>6, <2>7, <2>8, OfferStep
  <2>10. QED BY <2>1, <2>9 DEF Retry
<1>8. QED BY <1>5, <1>6, <1>7 DEF Resources

\* A task that timed out: it gets more time, and so does what is around it.
LEMMA TaskRunTimeoutIsOffered ==
  ASSUME Inv, current > 0, attempts[current].reason = "TaskRunTimeout",
         NEW definition \in {Definition[attempts[current].last[1].task], NoOverride}
  PROVE  LET r == MitigateTaskRunTimeout(definition)
         IN  Offered(r.specs, r.timeouts, r.mitigation)
<1> DEFINE x == runs[current]
           a == attempts[current]
           c == a.last[1]
           old == GetTaskRunTimeout(x.specs, definition, c.task)
           d == addCappedDuration(old, policy.task)
           more == ApplyTaskTimeoutMitigation(old, BaseTimeouts, policy.task)
           specs == MergeTaskRunSpecs(BaseSpecs, c.task, MoreTime(d))
           mitigation == [NoMitigation EXCEPT !.taskTimeout = d]
<1>1. /\ x.specs \in [Tasks -> Override] /\ BaseSpecs \in [Tasks -> Override]
      /\ LimitsAreBounded(BaseSpecs) /\ BaseTimeouts \in TimeoutFields
      /\ x.specs # NoSpecs => BaseSpecs = x.specs
      /\ a \in Attempt /\ Explained(a)
  BY TheBase
<1>2. c \in ChildRun /\ c.task \in Tasks /\ c.step \in Steps
  <2>1. a.last \in Seq(ChildRun) /\ a.last # << >>
    BY <1>1 DEF Attempt, Explained
  <2>2. c \in ChildRun
    BY <2>1
  <2>3. QED BY <2>2 DEF ChildRun
<1>3. old \in Optional /\ (old = TimeoutOf(x, c.task) \/ old = Nil)
  BY <1>1, <1>2, LookedUp DEF TimeoutOf
<1>4. IncrementPolicy(policy.task)
  BY PolicyTypes DEF Inv
<1>5. CASE old = Nil
  <2>1. MitigateTaskRunTimeout(definition) = Retry(BaseSpecs, BaseTimeouts, NoMitigation)
    BY <1>5 DEF MitigateTaskRunTimeout, ApplyTaskTimeoutMitigation
  <2>2. QED BY <2>1, BaseIsOffered DEF Retry
<1>6. CASE old # Nil
  <2> DEFINE m == more.timeouts
  <2>1. /\ more.timeout = d
        /\ m \in TimeoutFields /\ m.finally = BaseTimeouts.finally
        /\ m.tasks = BaseTimeouts.tasks \/ (BaseTimeouts.tasks # Nil /\ m.tasks = d /\ d > BaseTimeouts.tasks)
        /\ BaseTimeouts.pipeline = Nil => m.pipeline = Nil
        /\ BaseTimeouts.pipeline # Nil =>
             /\ m.pipeline >= Value(m.tasks) + Value(BaseTimeouts.finally)
             /\ \/ m.pipeline = BaseTimeouts.pipeline
                \/ m.pipeline = Value(m.tasks) + Value(BaseTimeouts.finally)
    BY <1>1, <1>3, <1>4, <1>6, TaskTimeoutMitigated
  <2>2. /\ d \in Nat
        /\ policy.task.max # Nil => d <= policy.task.max
        /\ d >= Value(old) \/ (policy.task.max # Nil /\ d = policy.task.max /\ policy.task.max < Value(old))
        /\ policy.task.increment > 0 => d > Value(old) \/ (policy.task.max # Nil /\ Value(old) >= policy.task.max)
    BY <1>3, <1>4, AddedDuration
  <2>3. old \in Nat /\ Value(old) = old /\ old = TimeoutOf(x, c.task)
    BY <1>3, <1>6, ValueType
  <2>4. MitigateTaskRunTimeout(definition) = Retry(specs, m, mitigation)
    BY <2>1, <2>2 DEF MitigateTaskRunTimeout, MoreTime, Nil
  <2> HIDE DEF old, d, more, m
  <2>5. /\ MoreTime(d) \in Override /\ BaseSpecs[c.task] \in Override
        /\ specs[c.task] = WithTime(BaseSpecs[c.task], d)
    BY <1>1, <1>2, <2>2, MergedTime
  <2>6. /\ specs \in [Tasks -> Override]
        /\ \A t \in Tasks \ {c.task} : specs[t] = BaseSpecs[t]
    BY <1>1, <1>2, <2>5, MergedSpecs
  <2> HIDE DEF specs
  <2>7. /\ specs[c.task].timeout = d
        /\ specs[c.task].resources = BaseSpecs[c.task].resources
        /\ specs[c.task].steps = BaseSpecs[c.task].steps
    BY <2>5, TimeParts
  <2>8. /\ mitigation \in AppliedMitigation /\ mitigation.limit = Nil
        /\ mitigation.request = Nil /\ mitigation.taskTimeout = d
        /\ mitigation.pipelinesTimeout = Nil
    BY <2>2, NilIsOptional DEF NoMitigation, AppliedMitigation
  <2> HIDE DEF mitigation
  <2>9. LimitsAreBounded(specs)
    <3> SUFFICES ASSUME policy.memory.limit # Nil, NEW t \in Tasks, NEW s \in Steps
                 PROVE  /\ LimitIsBounded(specs[t].steps[s].limit, t, s)
                        /\ LimitIsBounded(specs[t].resources.limit, t, s)
      BY DEF LimitsAreBounded
    <3>1. CASE t = c.task
      BY <1>1, <2>7, <3>1 DEF LimitsAreBounded
    <3>2. CASE t # c.task
      BY <1>1, <2>6, <3>2 DEF LimitsAreBounded
    <3>3. QED BY <3>1, <3>2
  <2>10. LET w == WithTimeouts(AdjustTimeouts(m), DefaultTimeouts)
         IN  Ordinary(w) /\ TimeoutIsBounded(w)
    <3>1. ASSUME policy.task.max # Nil
          PROVE  Extended(BaseTimeouts, m, policy.task.max)
      <4>1. BaseTimeouts.tasks \in Int
        BY <1>1, FieldsOfTimeouts DEF Optional, Nil
      <4>2. QED BY <2>1, <2>2, <3>1, <4>1 DEF Extended
    <3>2. QED BY <2>1, <3>1, ExtendedIsBounded
  <2>11. ASSUME NEW y, y.specs = specs
         PROVE  Follows(x, y, a, mitigation)
    <3>1. TimeoutOf(y, c.task) = d
      BY <2>2, <2>7, <2>11 DEF TimeoutOf, GetTaskRunTimeout, Nil
    <3>2. Raised(old, d, policy.task.increment > 0, policy.task.max)
      BY <2>2, <2>3 DEF Raised
    <3>3. Helps(x, y, a)
      BY <2>3, <3>1, <3>2 DEF Helps
    <3>4. Records(y, a, mitigation)
      BY <2>8, <3>1 DEF Records
    <3>5. Accumulates(x, y)
      <4> SUFFICES ASSUME x.specs # NoSpecs, NEW t \in Tasks
                   PROVE  /\ y.specs # NoSpecs
                          /\ \/ TimeoutOf(y, t) >= TimeoutOf(x, t)
                             \/ policy.task.max # Nil /\ TimeoutOf(y, t) = policy.task.max
                                /\ TimeoutOf(x, t) > policy.task.max
        <5>1. Tasks # {}
          BY <1>2
        <5>2. QED BY <5>1 DEF Accumulates
      <4>1. y.specs # NoSpecs
        <5>1. NoSpecs[c.task].timeout = Nil
          BY <1>2 DEF NoSpecs, NoOverride
        <5>2. QED BY <2>2, <2>7, <2>11, <5>1 DEF Nil
      <4>2. CASE t = c.task
        <5>1. policy.task.max \in Int
          BY <1>4 DEF IncrementPolicy, Optional, Nil
        <5>2. QED BY <2>2, <2>3, <3>1, <4>1, <4>2, <5>1
      <4>3. CASE t # c.task
        <5>1. y.specs[t].timeout = x.specs[t].timeout
          BY <1>1, <2>6, <2>11, <4>3
        <5>2. Definition[t] \in Override
          BY DefinitionAssumption
        <5>3. TimeoutOf(x, t) \in Optional
          BY <1>1, <5>2 DEF TimeoutOf, GetTaskRunTimeout, Override
        <5>4. TimeoutOf(y, t) = TimeoutOf(x, t) /\ TimeoutOf(x, t) \in Int
          BY <5>1, <5>3 DEF TimeoutOf, GetTaskRunTimeout, Optional, Nil
        <5>5. QED BY <4>1, <5>4
      <4>4. QED BY <4>2, <4>3
    <3>6. QED BY <3>3, <3>4, <3>5 DEF Follows
  <2>12. Offered(specs, m, mitigation)
    BY <2>1, <2>6, <2>8, <2>9, <2>10, <2>11, OfferStep
  <2>13. QED BY <2>4, <2>12 DEF Retry
<1>7. QED BY <1>5, <1>6

\* A new PipelineRun has the pipeline timeout it was given, where that leaves room
\* for the tasks and finally.
LEMMA GivenPipelineTimeout ==
  ASSUME NEW m \in TimeoutFields, m.pipeline # Nil,
         m.pipeline >= Value(m.tasks) + Value(m.finally)
  PROVE  WithTimeouts(AdjustTimeouts(m), DefaultTimeouts).pipeline = m.pipeline
<1> DEFINE a == AdjustTimeouts(m)
<1>1. /\ m.pipeline \in Nat /\ m.pipeline \in Optional
      /\ Value(m.tasks) \in Nat /\ Value(m.finally) \in Nat
  BY FieldsOfTimeouts, ValueType
<1>2. /\ m.pipeline > 0 => a.pipeline = m.pipeline
      /\ m.pipeline <= 0 /\ Value(m.tasks) <= 0 /\ Value(m.finally) <= 0 => a = m
  BY AdjustedTimeouts
<1> HIDE DEF a
<1>3. a.pipeline = m.pipeline
  BY <1>1, <1>2
<1>4. a # NoTimeouts
  BY <1>3, NilIsOptional, TimeoutsFields DEF NoTimeouts
<1>5. QED BY <1>3, <1>4 DEF WithTimeouts, a

\* A PipelineRun that timed out: it gets more time, and so do its tasks.
LEMMA PipelineRunTimeoutIsOffered ==
  ASSUME Inv, current > 0, attempts[current].reason = "PipelineRunTimeout"
  PROVE  LET r == MitigatePipelineRunTimeout
         IN  Offered(r.specs, r.timeouts, r.mitigation)
<1> DEFINE x == runs[current]
           a == attempts[current]
           t == BaseTimeouts
           m == ApplyPipelineTimeoutMitigation(t, policy.pipeline)
           max == policy.pipeline.max
           mitigation == [NoMitigation EXCEPT !.tasksTimeout = m.tasks,
                                              !.pipelinesTimeout = m.pipeline]
<1>1. /\ x.specs \in [Tasks -> Override] /\ BaseSpecs \in [Tasks -> Override]
      /\ LimitsAreBounded(BaseSpecs) /\ t \in TimeoutFields /\ t = x.timeouts
      /\ x.specs # NoSpecs => BaseSpecs = x.specs
  BY TheBase
<1>2. IncrementPolicy(policy.pipeline)
  BY PolicyTypes DEF Inv
<1>3. /\ t.pipeline \in Optional /\ t.tasks \in Optional
      /\ t.pipeline # Nil => t.pipeline = Value(t.pipeline)
  BY <1>1, FieldsOfTimeouts, ValueType
<1>4. /\ m \in TimeoutFields /\ m.finally = t.finally
      /\ m.tasks = IF t.tasks = Nil THEN Nil ELSE addCappedDuration(t.tasks, policy.pipeline)
      /\ t.pipeline = Nil => m.pipeline = Nil
      /\ t.pipeline # Nil =>
           /\ m.pipeline # Nil /\ m.pipeline >= addCappedDuration(t.pipeline, policy.pipeline)
           /\ m.pipeline >= Value(m.tasks) + Value(t.finally)
           /\ \/ m.pipeline = addCappedDuration(t.pipeline, policy.pipeline)
              \/ m.pipeline = Value(m.tasks) + Value(t.finally)
  BY <1>1, <1>2, PipelineTimeoutMitigated
<1>5. CASE m.pipeline = Nil /\ m.tasks = Nil
  <2>1. MitigatePipelineRunTimeout = Retry(BaseSpecs, BaseTimeouts, NoMitigation)
    BY <1>5 DEF MitigatePipelineRunTimeout
  <2>2. QED BY <2>1, BaseIsOffered DEF Retry
<1>6. CASE m.pipeline # Nil \/ m.tasks # Nil
  <2>1. MitigatePipelineRunTimeout = Retry(BaseSpecs, m, mitigation)
    BY <1>6 DEF MitigatePipelineRunTimeout
  <2> HIDE DEF m, t
  <2>2. m.pipeline \in Optional /\ m.tasks \in Optional
    BY <1>4, FieldsOfTimeouts
  <2>3. /\ mitigation \in AppliedMitigation /\ mitigation.limit = Nil
        /\ mitigation.request = Nil /\ mitigation.taskTimeout = Nil
        /\ mitigation.pipelinesTimeout = m.pipeline
    BY <2>2, NilIsOptional DEF NoMitigation, AppliedMitigation
  <2> HIDE DEF mitigation
  <2>4. /\ addCappedDuration(t.tasks, policy.pipeline) \in Nat
        /\ max # Nil => addCappedDuration(t.tasks, policy.pipeline) <= max
    BY <1>2, <1>3, AddedDuration
  <2>5. /\ addCappedDuration(t.pipeline, policy.pipeline) \in Nat
        /\ max # Nil => addCappedDuration(t.pipeline, policy.pipeline) <= max
        /\ policy.pipeline.increment > 0 =>
             addCappedDuration(t.pipeline, policy.pipeline) > Value(t.pipeline)
             \/ (max # Nil /\ Value(t.pipeline) >= max)
    BY <1>2, <1>3, AddedDuration
  <2>6. LET w == WithTimeouts(AdjustTimeouts(m), DefaultTimeouts)
        IN  Ordinary(w) /\ TimeoutIsBounded(w)
    <3>1. ASSUME max # Nil
          PROVE  Extended(t, m, max)
      BY <1>4, <2>4, <2>5, <3>1 DEF Extended
    <3>2. QED BY <1>4, <3>1, ExtendedIsBounded DEF t
  <2>7. ASSUME NEW y, y.specs = BaseSpecs,
               y.timeouts = WithTimeouts(AdjustTimeouts(m), DefaultTimeouts)
        PROVE  Follows(x, y, a, mitigation)
    <3>1. m.pipeline # Nil => y.timeouts.pipeline = m.pipeline
      BY <1>4, <2>7, GivenPipelineTimeout
    <3>2. Raised(t.pipeline, y.timeouts.pipeline, policy.pipeline.increment > 0, max)
      <4>1. CASE t.pipeline = Nil
        BY <4>1 DEF Raised
      <4>2. CASE t.pipeline # Nil
        <5>1. /\ t.pipeline = Value(t.pipeline) /\ t.pipeline \in Nat
              /\ y.timeouts.pipeline = m.pipeline /\ m.pipeline \in Int
              /\ m.pipeline >= addCappedDuration(t.pipeline, policy.pipeline)
          BY <1>3, <1>4, <2>2, <3>1, <4>2 DEF Optional, Nil
        <5>2. QED BY <2>5, <5>1 DEF Raised
      <4>3. QED BY <4>1, <4>2
    <3>3. Helps(x, y, a)
      BY <1>1, <3>2 DEF Helps
    <3>4. Records(y, a, mitigation)
      BY <2>3, <3>1 DEF Records
    <3>5. Accumulates(x, y)
      <4> SUFFICES ASSUME x.specs # NoSpecs
                   PROVE  /\ y.specs # NoSpecs
                          /\ \A task \in Tasks : TimeoutOf(y, task) >= TimeoutOf(x, task)
        BY DEF Accumulates
      <4>1. y.specs = x.specs
        BY <1>1, <2>7
      <4>2. \A task \in Tasks : TimeoutOf(y, task) = TimeoutOf(x, task) /\ TimeoutOf(x, task) \in Int
        <5> TAKE task \in Tasks
        <5>1. Definition[task] \in Override
          BY DefinitionAssumption
        <5>2. TimeoutOf(x, task) \in Optional
          BY <1>1, <5>1 DEF TimeoutOf, GetTaskRunTimeout, Override
        <5>3. QED BY <4>1, <5>2 DEF TimeoutOf, Optional, Nil
      <4>3. QED BY <4>1, <4>2
    <3>6. QED BY <3>3, <3>4, <3>5 DEF Follows
  <2>8. Offered(BaseSpecs, m, mitigation)
    BY <1>1, <1>4, <2>3, <2>6, <2>7, OfferStep
  <2>9. QED BY <2>1, <2>8 DEF Retry
<1>7. QED BY <1>5, <1>6

\* Whatever computeRetryOverrides finds, what it returns is an offer.
LEMMA RetryIsOffered ==
  ASSUME Inv, current > 0, NEW found \in BOOLEAN, NEW listed \in BOOLEAN
  PROVE  LET r == computeRetryOverrides(found, listed)
         IN  Offered(r.specs, r.timeouts, r.mitigation)
<1> DEFINE a == attempts[current]
           definition == IF listed /\ a.last # << >> THEN Definition[a.last[1].task] ELSE NoOverride
           r == computeRetryOverrides(found, listed)
<1>1. CASE ~found \/ ~(policy.memory.on \/ policy.task.on \/ policy.pipeline.on)
  <2>1. r = Retry(pipeline.specs, pipeline.timeouts, NoMitigation)
    BY <1>1 DEF computeRetryOverrides
  <2>2. QED BY <2>1, OriginalIsOffered DEF Retry
<1>2. CASE found /\ (policy.memory.on \/ policy.task.on \/ policy.pipeline.on)
  <2>1. CASE a.reason = "OOMKill" /\ policy.memory.on
    <3>1. r = MitigateOOMKill(definition)
      BY <1>2, <2>1 DEF computeRetryOverrides
    <3>2. definition \in {Definition[attempts[current].last[1].task], NoOverride}
      OBVIOUS
    <3> HIDE DEF definition, r
    <3>3. QED BY <2>1, <3>1, <3>2, OOMKillIsOffered DEF r
  <2>2. CASE a.reason = "TaskRunTimeout" /\ policy.task.on
    <3>1. r = MitigateTaskRunTimeout(definition)
      BY <1>2, <2>2 DEF computeRetryOverrides
    <3>2. definition \in {Definition[attempts[current].last[1].task], NoOverride}
      OBVIOUS
    <3> HIDE DEF definition, r
    <3>3. QED BY <2>2, <3>1, <3>2, TaskRunTimeoutIsOffered DEF r
  <2>3. CASE a.reason = "PipelineRunTimeout" /\ policy.pipeline.on
    <3>1. r = MitigatePipelineRunTimeout
      BY <1>2, <2>3 DEF computeRetryOverrides
    <3>2. QED BY <2>3, <3>1, PipelineRunTimeoutIsOffered
  <2>4. CASE /\ ~(a.reason = "OOMKill" /\ policy.memory.on)
             /\ ~(a.reason = "TaskRunTimeout" /\ policy.task.on)
             /\ ~(a.reason = "PipelineRunTimeout" /\ policy.pipeline.on)
    <3>1. r = Retry(BaseSpecs, BaseTimeouts, NoMitigation)
      BY <1>2, <2>4 DEF computeRetryOverrides
    <3>2. QED BY <3>1, BaseIsOffered DEF Retry
  <2>5. QED BY <2>1, <2>2, <2>3, <2>4
<1>3. QED BY <1>1, <1>2

-----------------------------------------------------------------------------
(* What the steps do to the past. *)

\* What the invariant says of a PipelineRun depends on nothing that changes.
LEMMA MadeStays ==
  ASSUME policy' = policy, NEW x
  PROVE  Made(x)' <=> Made(x)
BY DEF Made, LimitsAreBounded, LimitIsBounded, TimeoutIsBounded, PipelineTimeoutIsBounded

\* What it says of a retry depends on the overrides and the timeouts only.
LEMMA FollowsStays ==
  ASSUME policy' = policy, NEW x, NEW y, NEW a, NEW m, NEW u, NEW v,
         u.specs = x.specs, u.timeouts = x.timeouts, v.specs = y.specs, v.timeouts = y.timeouts
  PROVE  Follows(u, v, a, m)' <=> Follows(x, y, a, m)
BY DEF Follows, Helps, Records, Accumulates, MemoryOf, TimeoutOf

\* The timeout of a task is a number, or Nil.
LEMMA TimeoutsAreNumbers ==
  ASSUME NEW x \in PipelineRun, NEW t \in Tasks
  PROVE  TimeoutOf(x, t) \in Int
<1>1. x.specs \in [Tasks -> Override] /\ Definition[t] \in Override
  BY DefinitionAssumption DEF PipelineRun
<1>2. TimeoutOf(x, t) \in Optional
  BY <1>1 DEF TimeoutOf, GetTaskRunTimeout, Override
<1>3. QED BY <1>2 DEF Optional, Nil

\* The registered PipelineRuns keep what they were created with.
Kept ==
  /\ policy' = policy
  /\ current' = current
  /\ \A i \in 1 .. current :
       /\ runs'[i].specs = runs[i].specs /\ runs'[i].timeouts = runs[i].timeouts
       /\ attempts'[i].mitigation = attempts[i].mitigation
  /\ \A i \in 1 .. current - 1 : attempts'[i] = attempts[i]

\* A step that starts no attempt leaves the history as it is.
LEMMA HistoryStays ==
  ASSUME Inv, Kept
  PROVE  History'
<1>1. current \in Nat /\ History /\ current' = current /\ policy' = policy
  BY DEF Inv, TypeOK, current, Kept
<1>2. ASSUME NEW i \in 1 .. current - 1, (attempts[i + 1].mitigation # NoMitigation)'
      PROVE  Follows(runs[i], runs[i + 1], attempts[i], attempts[i + 1].mitigation)'
  <2>1. i \in 1 .. current /\ i + 1 \in 1 .. current
    BY <1>1
  <2>2. /\ runs'[i].specs = runs[i].specs /\ runs'[i].timeouts = runs[i].timeouts
        /\ runs'[i + 1].specs = runs[i + 1].specs /\ runs'[i + 1].timeouts = runs[i + 1].timeouts
        /\ attempts'[i] = attempts[i] /\ attempts'[i + 1].mitigation = attempts[i + 1].mitigation
    BY <2>1 DEF Kept
  <2>3. Follows(runs[i], runs[i + 1], attempts[i], attempts[i + 1].mitigation)
    BY <1>1, <1>2, <2>2 DEF History
  <2>4. QED BY <1>1, <2>2, <2>3, FollowsStays
<1>3. \A i, j \in 1 .. current : i < j /\ Chain(i, j)' => Chain(i, j)
  <2> SUFFICES ASSUME NEW i \in 1 .. current, NEW j \in 1 .. current, i < j, Chain(i, j)',
                      NEW k \in i .. j - 1
               PROVE  k < current /\ attempts[k + 1].mitigation # NoMitigation
    BY DEF Chain, Mitigated
  <2>1. k < current /\ k + 1 \in 1 .. current
    BY <1>1
  <2>2. attempts'[k + 1].mitigation # NoMitigation
    BY DEF Chain, Mitigated
  <2>3. QED BY <2>1, <2>2 DEF Kept
<1>4. ASSUME NEW i \in 1 .. current, NEW j \in 1 .. current, i < j, Chain(i, j)',
             runs'[i].specs # NoSpecs
      PROVE  /\ runs'[j].specs # NoSpecs
             /\ \A t \in Tasks :
                  \/ TaskTimeout(j, t)' >= TaskTimeout(i, t)'
                  \/ policy'.task.max # Nil /\ TaskTimeout(i, t)' > policy'.task.max
  <2>1. Chain(i, j) /\ runs'[i].specs = runs[i].specs /\ runs'[j].specs = runs[j].specs
    BY <1>3, <1>4 DEF Kept
  <2>2. runs[j].specs # NoSpecs
    BY <1>1, <1>4, <2>1 DEF History
  <2>3. \A t \in Tasks :
          \/ TaskTimeout(j, t) >= TaskTimeout(i, t)
          \/ policy.task.max # Nil /\ TaskTimeout(i, t) > policy.task.max
    BY <1>1, <1>4, <2>1 DEF History, TimeoutsAccumulate
  <2>4. QED BY <1>1, <2>1, <2>2, <2>3 DEF TaskTimeout
<1>5. TimeoutsAccumulate'
  BY <1>1, <1>4 DEF TimeoutsAccumulate
<1>6. QED BY <1>1, <1>2, <1>4, <1>5 DEF History

\* A new attempt with the mitigation m, whose PipelineRun is the last one.
Started(m) ==
  /\ policy' = policy
  /\ attempts' = Append(attempts, [status |-> "progressing", reason |-> "none",
                                   last |-> << >>, mitigation |-> m])
  /\ Len(runs') = current + 1
  /\ \A i \in 1 .. current : runs'[i] = runs[i]
  /\ m # NoMitigation => current > 0 /\ Follows(runs[current], runs'[current + 1], attempts[current], m)

\* A new attempt continues the history.
LEMMA HistoryContinues ==
  ASSUME Inv, NEW m \in AppliedMitigation, Started(m), runs' \in Seq(PipelineRun)
  PROVE  /\ attempts' \in Seq(Attempt) /\ current' = current + 1
         /\ (\A i \in 1 .. current : Explained(attempts[i]))'
         /\ History'
<1> DEFINE n == current
           new == [status |-> "progressing", reason |-> "none", last |-> << >>, mitigation |-> m]
<1>1. /\ n \in Nat /\ attempts \in Seq(Attempt) /\ runs \in Seq(PipelineRun) /\ n = Len(attempts)
      /\ Len(runs) >= n /\ History /\ policy' = policy
  BY DEF Inv, TypeOK, current, Started
<1>2. new \in Attempt
  BY DEF Attempt
<1>3. /\ attempts' \in Seq(Attempt) /\ current' = n + 1
      /\ attempts'[n + 1] = new /\ \A i \in 1 .. n : attempts'[i] = attempts[i]
  BY <1>1, <1>2 DEF Started, current
<1>4. /\ \A i \in 1 .. n : runs'[i] = runs[i]
      /\ m # NoMitigation => n > 0 /\ Follows(runs[n], runs'[n + 1], attempts[n], m)
  BY DEF Started
<1> HIDE DEF n
<1>5. (\A i \in 1 .. current : Explained(attempts[i]))'
  <2>1. \A i \in 1 .. n : Explained(attempts[i])
    BY DEF Inv, n
  <2>2. Explained(new)
    BY DEF Explained
  <2>3. \A i \in 1 .. n + 1 : Explained(attempts'[i])
    BY <1>1, <1>3, <2>1, <2>2, SMTT(40)
  <2>4. QED BY <1>3, <2>3 DEF Explained
<1>6. ASSUME NEW i \in 1 .. n, attempts'[i + 1].mitigation # NoMitigation
      PROVE  Follows(runs[i], runs[i + 1], attempts[i], attempts[i + 1].mitigation)'
  <2>1. CASE i = n
    <3>1. attempts'[i + 1].mitigation = m /\ attempts'[i] = attempts[n] /\ runs'[i] = runs[n]
      BY <1>3, <1>4, <2>1
    <3>2. Follows(runs'[i], runs'[i + 1], attempts'[i], attempts'[i + 1].mitigation)
      BY <1>4, <1>6, <2>1, <3>1
    <3>3. QED BY <1>1, <3>2, FollowsStays
  <2>2. CASE i # n
    <3>1. i \in 1 .. n - 1 /\ i + 1 \in 1 .. n
      BY <1>1, <2>2
    <3>2. /\ runs'[i] = runs[i] /\ runs'[i + 1] = runs[i + 1]
          /\ attempts'[i] = attempts[i] /\ attempts'[i + 1] = attempts[i + 1]
      BY <1>3, <1>4, <3>1
    <3>3. Follows(runs[i], runs[i + 1], attempts[i], attempts[i + 1].mitigation)
      BY <1>1, <1>6, <3>1, <3>2 DEF History, n
    <3>4. QED BY <1>1, <3>2, <3>3, FollowsStays
  <2>3. QED BY <2>1, <2>2
<1>7. ASSUME NEW i \in 1 .. n + 1, NEW j \in 1 .. n + 1, i < j, Chain(i, j)'
      PROVE  /\ \A k \in i .. j - 1 : attempts'[k + 1].mitigation # NoMitigation
             /\ i \in 1 .. n
             /\ j \in 1 .. n => Chain(i, j)
             /\ j = n + 1 /\ i < n => Chain(i, n)
  <2>1. \A k \in i .. j - 1 : attempts'[k + 1].mitigation # NoMitigation
    BY <1>7 DEF Chain, Mitigated
  <2>2. ASSUME NEW e \in 1 .. n, e <= j, NEW k \in i .. e - 1
        PROVE  k < current /\ attempts[k + 1].mitigation # NoMitigation
    <3>1. k \in i .. j - 1 /\ k + 1 \in 1 .. n /\ k < n
      BY <1>1, <2>2
    <3>2. QED BY <1>3, <2>1, <3>1 DEF n
  <2>3. \A e \in 1 .. n : e <= j => Chain(i, e)
    BY <2>2 DEF Chain, Mitigated
  <2>4. QED BY <1>1, <1>7, <2>1, <2>3
<1>8. ASSUME NEW i \in 1 .. n + 1, NEW j \in 1 .. n + 1, i < j, Chain(i, j)',
             runs'[i].specs # NoSpecs
      PROVE  /\ runs'[j].specs # NoSpecs
             /\ \A t \in Tasks :
                  \/ TaskTimeout(j, t)' >= TaskTimeout(i, t)'
                  \/ policy'.task.max # Nil /\ TaskTimeout(i, t)' > policy'.task.max
  <2>1. /\ \A k \in i .. j - 1 : attempts'[k + 1].mitigation # NoMitigation
        /\ i \in 1 .. n /\ runs'[i] = runs[i] /\ runs[i].specs # NoSpecs
        /\ j \in 1 .. n => Chain(i, j)
        /\ j = n + 1 /\ i < n => Chain(i, n)
    BY <1>4, <1>7, <1>8
  <2>2. ASSUME NEW e \in 1 .. n, i < e, Chain(i, e)
        PROVE  /\ runs[e].specs # NoSpecs
               /\ \A t \in Tasks :
                    \/ TaskTimeout(e, t) >= TaskTimeout(i, t)
                    \/ policy.task.max # Nil /\ TaskTimeout(i, t) > policy.task.max
    BY <1>1, <2>1, <2>2 DEF History, TimeoutsAccumulate, n
  <2>3. CASE j \in 1 .. n
    <3>1. runs'[j] = runs[j]
      BY <1>4, <2>3
    <3>2. QED BY <1>1, <1>8, <2>1, <2>2, <2>3, <3>1 DEF TaskTimeout
  <2>4. CASE j = n + 1
    <3>1. Accumulates(runs[n], runs'[n + 1])
      <4>1. n \in i .. j - 1
        BY <1>1, <2>1, <2>4
      <4>2. m # NoMitigation
        BY <1>3, <2>1, <4>1
      <4>3. QED BY <1>4, <4>2 DEF Follows
    <3>2. /\ runs[n].specs # NoSpecs
          /\ \A t \in Tasks :
               \/ TimeoutOf(runs[n], t) >= TimeoutOf(runs[i], t)
               \/ policy.task.max # Nil /\ TimeoutOf(runs[i], t) > policy.task.max
      <4>1. CASE i = n
        <5>1. runs[n] \in PipelineRun
          BY <1>1, <2>1
        <5>2. QED BY <2>1, <4>1, <5>1, TimeoutsAreNumbers
      <4>2. CASE i # n
        <5>1. i < n /\ n \in 1 .. n
          BY <1>1, <2>1, <4>2
        <5>2. QED BY <2>1, <2>2, <2>4, <5>1 DEF TaskTimeout, TimeoutOf
      <4>3. QED BY <4>1, <4>2
    <3>3. runs[i] \in PipelineRun /\ runs[n] \in PipelineRun /\ runs'[n + 1] \in PipelineRun
      <4>1. i \in 1 .. Len(runs) /\ n \in 1 .. Len(runs) /\ n + 1 \in 1 .. Len(runs')
        BY <1>1, <2>1 DEF Started, n
      <4>2. QED BY <1>1, <4>1
    <3>4. policy.task.max \in Int
      BY PolicyTypes DEF Inv, IncrementPolicy, Optional, Nil
    <3>5. ASSUME NEW t \in Tasks
          PROVE  \/ TimeoutOf(runs'[n + 1], t) >= TimeoutOf(runs[i], t)
                 \/ policy.task.max # Nil /\ TimeoutOf(runs[i], t) > policy.task.max
      <4>1. /\ TimeoutOf(runs'[n + 1], t) \in Int /\ TimeoutOf(runs[n], t) \in Int
            /\ TimeoutOf(runs[i], t) \in Int
        BY <3>3, TimeoutsAreNumbers
      <4>2. \/ TimeoutOf(runs'[n + 1], t) >= TimeoutOf(runs[n], t)
            \/ policy.task.max # Nil /\ TimeoutOf(runs'[n + 1], t) = policy.task.max
        BY <3>1, <3>2 DEF Accumulates
      <4>3. QED BY <3>2, <3>4, <4>1, <4>2
    <3>6. runs'[j].specs # NoSpecs
      BY <2>4, <3>1, <3>2 DEF Accumulates
    <3>7. QED BY <1>1, <2>1, <2>4, <3>5, <3>6 DEF TaskTimeout, TimeoutOf
  <2>5. QED BY <1>1, <2>3, <2>4
<1>9. TimeoutsAccumulate'
  BY <1>1, <1>3, <1>8 DEF TimeoutsAccumulate
<1>10. QED BY <1>1, <1>3, <1>5, <1>6, <1>8, <1>9 DEF History, n

-----------------------------------------------------------------------------
(* The steps. *)

\* The number of attempts.
LEMMA Counts ==
  ASSUME Inv
  PROVE  /\ current \in Nat /\ current = Len(attempts)
         /\ runs \in Seq(PipelineRun) /\ attempts \in Seq(Attempt)
         /\ Len(runs) \in {current, current + 1}
         /\ ~unregistered => Len(runs) = current
         /\ unregistered => Len(runs) = current + 1
BY DEF Inv, TypeOK, current, unregistered

\* A step that adds neither a PipelineRun nor an attempt and ends the phase only
\* for a reason that OutagesAreNotFinal allows.
LEMMA QuietStep ==
  ASSUME Inv, UNCHANGED <<policy, runs, attempts>>, TypeOK',
         phase' = "pending" => current = 0, phase' = "progressing" => current > 0,
         OutagesAreNotFinal'
  PROVE  Inv'
<1>1. current' = current
  BY DEF current
<1>2. (\A i \in 1 .. Len(runs) : Made(runs[i]))'
  BY MadeStays DEF Inv
<1>3. (\A i \in 1 .. current : Explained(attempts[i]))'
  BY <1>1 DEF Inv, Explained
<1>4. History'
  BY <1>1, HistoryStays DEF Kept
<1>5. QED BY <1>1, <1>2, <1>3, <1>4 DEF Inv

\* A new attempt, registered together with its PipelineRun or after it.
LEMMA AttemptStep ==
  ASSUME Inv, NEW m \in AppliedMitigation, Started(m), runs' \in Seq(PipelineRun),
         (\A i \in 1 .. Len(runs) : Made(runs[i]))',
         phase' = "progressing", UNCHANGED <<pipeline, edits>>,
         refusal' \in CreationErrors \cup {"none"}, faults' \in 0 .. MaxFaults
  PROVE  Inv'
<1>1. /\ attempts' \in Seq(Attempt) /\ current' = current + 1
      /\ (\A i \in 1 .. current : Explained(attempts[i]))'
      /\ History'
  BY HistoryContinues
<1>2. Len(runs') = current + 1 /\ policy' = policy /\ current \in Nat
  BY Counts DEF Started
<1>3. TypeOK'
  BY <1>1, <1>2 DEF Inv, TypeOK
<1>4. OutagesAreNotFinal'
  BY DEF OutagesAreNotFinal
<1>5. QED BY <1>1, <1>2, <1>3, <1>4 DEF Inv

\* The registration of a PipelineRun that was created before a crash.
LEMMA RegistrationStep ==
  ASSUME Inv, unregistered, registerManagedProcessingData(NoMitigation),
         UNCHANGED <<pipeline, policy, edits, runs, refusal, faults>>
  PROVE  Inv'
<1>1. runs \in Seq(PipelineRun) /\ Len(runs) = current + 1
  BY Counts
<1>2. Started(NoMitigation)
  BY <1>1 DEF Started, registerManagedProcessingData
<1>3. (\A i \in 1 .. Len(runs) : Made(runs[i]))'
  BY MadeStays DEF Inv
<1>4. phase' = "progressing" /\ refusal' \in CreationErrors \cup {"none"} /\ faults' \in 0 .. MaxFaults
  BY DEF registerManagedProcessingData, Inv, TypeOK
<1>5. QED BY <1>1, <1>2, <1>3, <1>4, NoMitigationType, AttemptStep

\* A new PipelineRun at the end of the list.
LEMMA RunAdded ==
  ASSUME Inv, ~unregistered, policy' = policy, NEW x, Made(x), runs' = Append(runs, x)
  PROVE  /\ runs' \in Seq(PipelineRun) /\ Len(runs') = current + 1
         /\ runs'[current + 1] = x /\ \A i \in 1 .. current : runs'[i] = runs[i]
         /\ (\A i \in 1 .. Len(runs) : Made(runs[i]))'
<1>1. runs \in Seq(PipelineRun) /\ Len(runs) = current /\ current \in Nat /\ x \in PipelineRun
  BY Counts DEF Made
<1>2. /\ runs' \in Seq(PipelineRun) /\ Len(runs') = current + 1
      /\ runs'[current + 1] = x /\ \A i \in 1 .. current : runs'[i] = runs[i]
  BY <1>1
<1>3. \A i \in 1 .. Len(runs') : Made(runs'[i])
  <2>1. \A i \in 1 .. current : Made(runs[i])
    BY <1>1 DEF Inv
  <2>2. QED BY <1>1, <1>2, <2>1
<1>4. QED BY <1>2, <1>3, MadeStays

\* Creating a PipelineRun from an offer and registering it.
LEMMA NewAttemptStep ==
  ASSUME Inv, ~unregistered, NEW specs, NEW timeouts, NEW m, NEW revision \in {"commit", "branch"},
         Offered(specs, timeouts, m),
         runs' = Append(runs, NewRun(specs, timeouts, revision)),
         registerManagedProcessingData(m),
         UNCHANGED <<pipeline, policy, edits, refusal>>, faults' \in 0 .. MaxFaults
  PROVE  Inv'
<1> DEFINE x == NewRun(specs, timeouts, revision)
<1>1. /\ m \in AppliedMitigation /\ Made(x)
      /\ m # NoMitigation => current > 0 /\ Follows(runs[current], x, attempts[current], m)
  BY DEF Offered
<1> HIDE DEF x
<1>2. /\ runs' \in Seq(PipelineRun) /\ Len(runs') = current + 1
      /\ runs'[current + 1] = x /\ \A i \in 1 .. current : runs'[i] = runs[i]
      /\ (\A i \in 1 .. Len(runs) : Made(runs[i]))'
  BY <1>1, RunAdded DEF x
<1>3. Started(m)
  BY <1>1, <1>2 DEF Started, registerManagedProcessingData
<1>4. phase' = "progressing" /\ refusal' \in CreationErrors \cup {"none"}
  BY DEF registerManagedProcessingData, Inv, TypeOK
<1>5. QED BY <1>1, <1>2, <1>3, <1>4, AttemptStep

\* A creation that fails ends the phase only for an error that would come again.
LEMMA FailedCreationStep ==
  ASSUME Inv, phase \in {"pending", "progressing"}, NEW err \in CreationErrors, CreationFails(err),
         UNCHANGED <<pipeline, policy, edits>>, faults' \in 0 .. MaxFaults
  PROVE  Inv'
<1>1. /\ refusal' = err /\ runs' = runs /\ attempts' = attempts
      /\ phase' = IF IsRetryableCreationError(err) THEN phase ELSE "failed"
  BY DEF CreationFails
<1>2. current' = current
  BY <1>1 DEF current
<1>3. TypeOK'
  BY <1>1, <1>2 DEF Inv, TypeOK
<1>4. OutagesAreNotFinal'
  BY <1>1 DEF OutagesAreNotFinal, IsRetryableCreationError, CreationErrors
<1>5. (phase' = "pending" => current = 0) /\ (phase' = "progressing" => current > 0)
  BY <1>1 DEF Inv
<1>6. QED BY <1>1, <1>3, <1>4, <1>5, QuietStep

\* Tekton takes the PipelineRun of an offer or refuses it.
LEMMA SubmissionStep ==
  ASSUME Inv, phase \in {"pending", "progressing"}, ~unregistered,
         NEW specs, NEW timeouts, NEW m, NEW revision \in {"commit", "branch"},
         Offered(specs, timeouts, m), createAndRegister(NewRun(specs, timeouts, revision), m),
         UNCHANGED <<pipeline, policy, edits>>, faults' \in 0 .. MaxFaults
  PROVE  Inv'
<1> DEFINE x == NewRun(specs, timeouts, revision)
<1>1. CASE runs' = Append(runs, x) /\ registerManagedProcessingData(m) /\ UNCHANGED refusal
  BY <1>1, NewAttemptStep
<1>2. CASE CreationFails("badTimeouts")
  <2>1. "badTimeouts" \in CreationErrors
    BY DEF CreationErrors
  <2>2. QED BY <1>2, <2>1, FailedCreationStep
<1>3. QED BY <1>1, <1>2 DEF createAndRegister

\* createManagedPipelineRun, with every way it can fail.
LEMMA CreationStep ==
  ASSUME Inv, phase \in {"pending", "progressing"}, ~unregistered,
         NEW specs, NEW timeouts, NEW m, Offered(specs, timeouts, m),
         createManagedPipelineRun(specs, timeouts, m), UNCHANGED <<pipeline, policy, edits>>
  PROVE  Inv'
<1>1. faults \in 0 .. MaxFaults /\ MaxFaults \in Nat
  BY BoundsAssumption DEF Inv, TypeOK
<1>2. Fault => faults' \in 0 .. MaxFaults
  BY <1>1 DEF Fault
<1>3. ASSUME NEW answer \in {"found", "missing", "unreachable", "rejected", "rateLimited"},
             Answers(answer),
             LET built == WithPipelineRef(pipeline.ref, answer)
             IN  \/ built \in CreationErrors /\ CreationFails(built)
                 \/ /\ built \notin CreationErrors
                    /\ createAndRegister(NewRun(specs, timeouts, built), m)
      PROVE  Inv'
  <2> DEFINE built == WithPipelineRef(pipeline.ref, answer)
  <2>1. faults' \in 0 .. MaxFaults
    BY <1>1, <1>2, <1>3 DEF Answers
  <2>2. built \in CreationErrors \cup {"commit", "branch"}
    <3>1. pipeline.ref.valid \in BOOLEAN /\ pipeline.ref.sha \in BOOLEAN /\ pipeline.ref.token \in BOOLEAN
      <4>1. pipeline \in Pipeline
        BY PolicyTypes DEF Inv
      <4>2. QED BY <4>1 DEF Pipeline, PipelineRef
    <3>2. QED BY <3>1 DEF WithPipelineRef, CreationErrors
  <2> HIDE DEF built
  <2>3. CASE built \in CreationErrors /\ CreationFails(built)
    BY <2>1, <2>3, FailedCreationStep
  <2>4. CASE /\ built \notin CreationErrors
             /\ createAndRegister(NewRun(specs, timeouts, built), m)
    <3>1. built \in {"commit", "branch"}
      BY <2>2, <2>4
    <3>2. QED BY <2>1, <2>4, <3>1, SubmissionStep
  <2>5. QED BY <1>3, <2>3, <2>4 DEF built
<1>4. ASSUME Fault, NEW err \in {"busy", "denied"}, CreationFails(err)
      PROVE  Inv'
  <2>1. err \in CreationErrors
    BY DEF CreationErrors
  <2>2. QED BY <1>2, <1>4, <2>1, FailedCreationStep
<1>5. ASSUME Fault, runs' = Append(runs, NewRun(specs, timeouts, "commit")), UNCHANGED attempts,
             UNCHANGED <<phase, refusal>> \/ (current > 0 /\ phase' = "failed" /\ refusal' = "denied")
      PROVE  Inv'
  <2> DEFINE x == NewRun(specs, timeouts, "commit")
  <2>1. Made(x)
    BY DEF Offered
  <2> HIDE DEF x
  <2>2. /\ runs' \in Seq(PipelineRun) /\ Len(runs') = current + 1
        /\ runs'[current + 1] = x /\ \A i \in 1 .. current : runs'[i] = runs[i]
        /\ (\A i \in 1 .. Len(runs) : Made(runs[i]))'
    BY <1>5, <2>1, RunAdded DEF x
  <2>3. current' = current
    BY <1>5 DEF current
  <2>4. TypeOK'
    BY <1>2, <1>5, <2>2, <2>3 DEF Inv, TypeOK, CreationErrors
  <2>5. History'
    BY <1>5, <2>2, <2>3, HistoryStays DEF Kept
  <2>6. (\A i \in 1 .. current : Explained(attempts[i]))'
    BY <1>5, <2>3 DEF Inv, Explained
  <2>7. OutagesAreNotFinal'
    BY <1>5 DEF OutagesAreNotFinal
  <2>8. QED BY <1>5, <2>2, <2>3, <2>4, <2>5, <2>6, <2>7 DEF Inv
<1>6. QED BY <1>3, <1>4, <1>5 DEF createManagedPipelineRun

\* The first attempt.
LEMMA ProcessedStep ==
  ASSUME Inv, EnsureManagedPipelineIsProcessed
  PROVE  Inv'
<1>1. phase \in {"pending", "progressing"} /\ UNCHANGED <<pipeline, policy, edits>>
  BY DEF EnsureManagedPipelineIsProcessed
<1>2. CASE ~unregistered /\ createManagedPipelineRun(pipeline.specs, pipeline.timeouts, NoMitigation)
  BY <1>1, <1>2, OriginalIsOffered, CreationStep
<1>3. CASE /\ unregistered /\ registerManagedProcessingData(NoMitigation)
           /\ UNCHANGED <<runs, refusal, faults>>
  BY <1>1, <1>3, RegistrationStep
<1>4. QED BY <1>2, <1>3 DEF EnsureManagedPipelineIsProcessed

\* The first failed child, and why an attempt failed.
LEMMA FailuresAreExplained ==
  ASSUME NEW children \in Seq(ChildRun), NEW listed \in BOOLEAN, NEW timedOut \in BOOLEAN
  PROVE  LET last == IF listed THEN getFailedTaskRun(children) ELSE << >>
             reason == FailureReason(timedOut, last)
         IN  /\ last \in Seq(ChildRun)
             /\ reason \in {"OOMKill", "TaskRunTimeout", "PipelineRunTimeout", "Error"}
             /\ reason \in {"OOMKill", "TaskRunTimeout"} => last # << >>
<1> DEFINE last == IF listed THEN getFailedTaskRun(children) ELSE << >>
<1>1. getFailedTaskRun(children) \in Seq(ChildRun)
  <2>1. CASE FirstFailed(children) = {}
    BY <2>1 DEF getFailedTaskRun
  <2>2. CASE FirstFailed(children) # {}
    <3> DEFINE i == CHOOSE i \in FirstFailed(children) : TRUE
    <3>1. i \in FirstFailed(children)
      BY <2>2
    <3>2. children[i] \in ChildRun
      BY <3>1 DEF FirstFailed
    <3>3. getFailedTaskRun(children) = <<children[i]>>
      BY <2>2 DEF getFailedTaskRun
    <3> HIDE DEF i
    <3>4. QED BY <3>2, <3>3
  <2>3. QED BY <2>1, <2>2
<1>2. last \in Seq(ChildRun)
  BY <1>1
<1> HIDE DEF last
<1>3. QED BY <1>2 DEF FailureReason, last

\* The end of an attempt.
LEMMA TrackedStep ==
  ASSUME Inv, EnsureManagedPipelineProcessingIsTracked
  PROVE  Inv'
<1> DEFINE n == current
           a == attempts[n]
           x == runs[n]
<1>1. /\ phase = "progressing" /\ n > 0 /\ n \in Nat /\ n \in 1 .. Len(attempts) /\ n \in 1 .. Len(runs)
      /\ UNCHANGED <<pipeline, policy, runs, refusal, edits>>
      /\ runs \in Seq(PipelineRun) /\ attempts \in Seq(Attempt) /\ n = Len(attempts)
  BY Counts DEF EnsureManagedPipelineProcessingIsTracked, Inv
<1>2. a \in Attempt /\ x \in PipelineRun
  BY <1>1
<1>3. x.outcome.children \in Seq(ChildRun) /\ x.outcome.timedOut \in BOOLEAN
  BY <1>2 DEF PipelineRun, Outcome
<1>4. faults' \in 0 .. MaxFaults
  <2>1. faults \in 0 .. MaxFaults /\ MaxFaults \in Nat
    BY BoundsAssumption DEF Inv, TypeOK
  <2>2. UNCHANGED faults \/ Fault
    BY DEF EnsureManagedPipelineProcessingIsTracked
  <2>3. QED BY <2>1, <2>2 DEF Fault
<1>5. PICK listed \in BOOLEAN : registerManagedProcessingStatus(listed)
  BY DEF EnsureManagedPipelineProcessingIsTracked
<1> DEFINE last == IF listed THEN getFailedTaskRun(x.outcome.children) ELSE << >>
           reason == FailureReason(x.outcome.timedOut, last)
<1>6. /\ last \in Seq(ChildRun)
      /\ reason \in {"OOMKill", "TaskRunTimeout", "PipelineRunTimeout", "Error"}
      /\ reason \in {"OOMKill", "TaskRunTimeout"} => last # << >>
  BY <1>3, FailuresAreExplained
\* What becomes of the attempt.
<1>7. PICK b \in Attempt :
        /\ attempts' = [attempts EXCEPT ![n] = b]
        /\ b.mitigation = a.mitigation /\ Explained(b)
        /\ phase' \in {"succeeded", "progressing"}
  <2>1. CASE x.state = "succeeded"
    <3> DEFINE b == [a EXCEPT !.status = "succeeded"]
    <3>1. attempts' = [attempts EXCEPT ![n] = b] /\ phase' = "succeeded"
      BY <1>5, <2>1 DEF registerManagedProcessingStatus
    <3>2. Explained(a)
      BY <1>1 DEF Inv
    <3>3. b \in Attempt /\ b.mitigation = a.mitigation /\ b.reason = a.reason /\ b.last = a.last
      BY <1>2 DEF Attempt
    <3> HIDE DEF b
    <3>4. Explained(b)
      BY <3>2, <3>3 DEF Explained
    <3>5. QED BY <3>1, <3>3, <3>4
  <2>2. CASE x.state # "succeeded"
    <3> DEFINE b == [a EXCEPT !.status = "failed", !.last = last, !.reason = reason]
    <3>1. attempts' = [attempts EXCEPT ![n].status = "failed", ![n].last = last, ![n].reason = reason]
          /\ phase' = phase
      BY <1>5, <2>2 DEF registerManagedProcessingStatus
    <3> HIDE DEF last, reason
    <3>2. attempts' = [attempts EXCEPT ![n] = b]
      BY <1>1, <3>1
    <3>3. b \in Attempt /\ b.mitigation = a.mitigation /\ b.reason = reason /\ b.last = last
      BY <1>2, <1>6 DEF Attempt
    <3> HIDE DEF b
    <3>4. Explained(b)
      BY <1>6, <3>3 DEF Explained
    <3>5. QED BY <1>1, <3>1, <3>2, <3>3, <3>4
  <2>3. QED BY <2>1, <2>2
<1> HIDE DEF n, a, last, reason
<1>8. /\ attempts' \in Seq(Attempt) /\ Len(attempts') = n /\ attempts'[n] = b
      /\ \A i \in 1 .. n - 1 : attempts'[i] = attempts[i]
  BY <1>1, <1>7
<1>9. current' = current
  BY <1>8 DEF current, n
<1>10. TypeOK'
  BY <1>1, <1>4, <1>7, <1>8, <1>9 DEF Inv, TypeOK
<1>11. History'
  <2>1. \A i \in 1 .. n : attempts'[i].mitigation = attempts[i].mitigation
    BY <1>1, <1>7, <1>8 DEF a
  <2>2. Kept
    BY <1>1, <1>8, <1>9, <2>1 DEF Kept, n
  <2>3. QED BY <2>2, HistoryStays
<1>12. (\A i \in 1 .. current : Explained(attempts[i]))'
  <2>1. \A i \in 1 .. n : Explained(attempts[i])
    BY DEF Inv, n
  <2>2. \A i \in 1 .. n : Explained(attempts'[i])
    BY <1>1, <1>7, <1>8, <2>1
  <2>3. QED BY <1>9, <2>2 DEF Explained, n
<1>13. (\A i \in 1 .. Len(runs) : Made(runs[i]))'
  BY <1>1, MadeStays DEF Inv
<1>14. OutagesAreNotFinal'
  BY <1>7 DEF OutagesAreNotFinal
<1>15. QED BY <1>1, <1>7, <1>9, <1>10, <1>11, <1>12, <1>13, <1>14 DEF Inv, n

\* The next attempt, or the end of the phase.
LEMMA CompletedStep ==
  ASSUME Inv, EnsureManagedPipelineProcessingIsCompleted
  PROVE  Inv'
<1>1. /\ phase = "progressing" /\ current > 0 /\ UNCHANGED <<pipeline, policy, edits>>
      /\ attempts[current].status = "failed"
  BY DEF EnsureManagedPipelineProcessingIsCompleted, Inv
<1>2. ASSUME ~unregistered,
             LET r == computeRetryOverrides(TRUE, TRUE)
             IN createManagedPipelineRun(r.specs, r.timeouts, r.mitigation)
      PROVE  Inv'
  <2> DEFINE r == computeRetryOverrides(TRUE, TRUE)
  <2>1. Offered(r.specs, r.timeouts, r.mitigation)
    BY <1>1, RetryIsOffered
  <2> HIDE DEF r
  <2>2. QED BY <1>1, <1>2, <2>1, CreationStep DEF r
<1>3. ASSUME ~unregistered, Fault, NEW found \in BOOLEAN,
             LET r == computeRetryOverrides(found, FALSE)
             IN createAndRegister(NewRun(r.specs, r.timeouts, "commit"), r.mitigation)
      PROVE  Inv'
  <2> DEFINE r == computeRetryOverrides(found, FALSE)
  <2>1. Offered(r.specs, r.timeouts, r.mitigation)
    BY <1>1, RetryIsOffered
  <2>2. faults' \in 0 .. MaxFaults
    BY <1>3, BoundsAssumption DEF Fault, Inv, TypeOK
  <2> HIDE DEF r
  <2>3. QED BY <1>1, <1>3, <2>1, <2>2, SubmissionStep DEF r
<1>4. CASE unregistered /\ registerManagedProcessingData(NoMitigation) /\ UNCHANGED <<runs, refusal, faults>>
  BY <1>1, <1>4, RegistrationStep
<1>5. CASE ~canRetryManagedPipeline /\ phase' = "failed" /\ UNCHANGED <<runs, attempts, refusal, faults>>
  <2>1. current' = current
    BY <1>5 DEF current
  <2>2. OutagesAreNotFinal'
    BY <1>1, <1>5, <2>1 DEF OutagesAreNotFinal, canRetryManagedPipeline
  <2>3. TypeOK'
    BY <1>1, <1>5, <2>1 DEF Inv, TypeOK
  <2>4. QED BY <1>1, <1>5, <2>2, <2>3, QuietStep
<1>6. CASE canRetryManagedPipeline /\ retryManagedPipeline
  BY <1>2, <1>3, <1>4, <1>6 DEF retryManagedPipeline
<1>7. QED BY <1>5, <1>6 DEF EnsureManagedPipelineProcessingIsCompleted

\* Tekton finishes a PipelineRun: what it was created with stays.
LEMMA FinishStep ==
  ASSUME Inv, FinishRun
  PROVE  Inv'
<1> DEFINE n == Len(runs)
           x == runs[n]
<1>1. /\ UNCHANGED <<pipeline, policy, attempts, phase, refusal, edits, faults>>
      /\ runs \in Seq(PipelineRun) /\ runs # << >>
  BY Counts DEF FinishRun
<1>2. n \in 1 .. n /\ n \in Nat /\ x \in PipelineRun
  BY <1>1
<1>3. PICK y \in PipelineRun :
        runs' = [runs EXCEPT ![n] = y] /\ y.specs = x.specs /\ y.timeouts = x.timeouts
  <2>1. CASE runs' = [runs EXCEPT ![n].state = "succeeded"]
    <3> DEFINE y == [x EXCEPT !.state = "succeeded"]
    <3>1. y \in PipelineRun /\ y.specs = x.specs /\ y.timeouts = x.timeouts
      BY <1>2 DEF PipelineRun
    <3>2. QED BY <2>1, <3>1
  <2>2. ASSUME NEW o \in Outcomes, runs' = [runs EXCEPT ![n].state = "failed", ![n].outcome = o]
        PROVE  \E y \in PipelineRun :
                 runs' = [runs EXCEPT ![n] = y] /\ y.specs = x.specs /\ y.timeouts = x.timeouts
    <3> DEFINE y == [x EXCEPT !.state = "failed", !.outcome = o]
    <3>1. o \in Outcome
      BY OutcomesAssumption
    <3>2. y \in PipelineRun /\ y.specs = x.specs /\ y.timeouts = x.timeouts
      BY <1>2, <3>1 DEF PipelineRun
    <3>3. runs' = [runs EXCEPT ![n] = y]
      BY <1>1, <1>2, <2>2
    <3>4. QED BY <3>2, <3>3
  <2>3. QED BY <2>1, <2>2 DEF FinishRun
<1>4. /\ runs' \in Seq(PipelineRun) /\ Len(runs') = n /\ runs'[n] = y
      /\ \A i \in 1 .. n : i # n => runs'[i] = runs[i]
  BY <1>1, <1>2, <1>3
<1>5. current' = current
  BY <1>1 DEF current
<1>6. TypeOK'
  BY <1>1, <1>4, <1>5 DEF Inv, TypeOK
<1>7. History'
  <2>1. current \in Nat /\ current <= n
    BY <1>2, Counts
  <2>2. \A i \in 1 .. current : runs'[i].specs = runs[i].specs /\ runs'[i].timeouts = runs[i].timeouts
    <3> TAKE i \in 1 .. current
    <3>1. CASE i = n
      BY <1>3, <1>4, <3>1
    <3>2. CASE i # n
      <4>1. runs'[i] = runs[i]
        BY <1>2, <1>4, <2>1, <3>2
      <4>2. QED BY <4>1
    <3>3. QED BY <3>1, <3>2
  <2>3. Kept
    BY <1>1, <1>5, <2>2 DEF Kept
  <2>4. QED BY <2>3, HistoryStays
<1>8. (\A i \in 1 .. Len(runs) : Made(runs[i]))'
  <2>1. Made(x)
    BY <1>2 DEF Inv
  <2>2. Made(y)
    BY <1>3, <2>1 DEF Made
  <2>3. \A i \in 1 .. n : Made(runs'[i])
    BY <1>2, <1>4, <2>2 DEF Inv
  <2>4. QED BY <1>1, <1>4, <2>3, MadeStays
<1>9. (\A i \in 1 .. current : Explained(attempts[i]))'
  BY <1>1, <1>5 DEF Inv, Explained
<1>10. OutagesAreNotFinal'
  BY <1>1, <1>5 DEF Inv, OutagesAreNotFinal, canRetryManagedPipeline
<1>11. QED BY <1>1, <1>5, <1>6, <1>7, <1>8, <1>9, <1>10 DEF Inv

\* Somebody edits the ReleasePlanAdmission: the past does not change.
LEMMA EditStep ==
  ASSUME Inv, EditPipeline
  PROVE  Inv'
<1>1. current' = current /\ UNCHANGED <<policy, runs, attempts, phase, refusal, faults>>
  BY DEF EditPipeline, current
<1>2. TypeOK'
  BY <1>1, BoundsAssumption DEF EditPipeline, Inv, TypeOK
<1>3. OutagesAreNotFinal'
  BY <1>1 DEF Inv, OutagesAreNotFinal, canRetryManagedPipeline
<1>4. QED BY <1>1, <1>2, <1>3, QuietStep DEF Inv

\* Every step keeps the invariant.
LEMMA InvNext ==
  ASSUME Inv, [Next]_vars
  PROVE  Inv'
<1>1. CASE EnsureManagedPipelineIsProcessed
  BY <1>1, ProcessedStep
<1>2. CASE EnsureManagedPipelineProcessingIsTracked
  BY <1>2, TrackedStep
<1>3. CASE EnsureManagedPipelineProcessingIsCompleted
  BY <1>3, CompletedStep
<1>4. CASE FinishRun
  BY <1>4, FinishStep
<1>5. CASE EditPipeline
  BY <1>5, EditStep
<1>6. CASE UNCHANGED vars
  <2>1. current' = current /\ UNCHANGED <<pipeline, policy, runs, attempts, phase, refusal, edits, faults>>
    BY <1>6 DEF vars, current
  <2>2. TypeOK'
    BY <2>1 DEF Inv, TypeOK
  <2>3. OutagesAreNotFinal'
    BY <2>1 DEF Inv, OutagesAreNotFinal, canRetryManagedPipeline
  <2>4. QED BY <2>1, <2>2, <2>3, QuietStep DEF Inv
<1>7. QED BY <1>1, <1>2, <1>3, <1>4, <1>5, <1>6 DEF Next, Controller

\* The invariant holds at the start.
LEMMA InvInit ==
  ASSUME Init
  PROVE  Inv
<1>1. /\ runs = << >> /\ attempts = << >> /\ current = 0 /\ Len(runs) = 0
      /\ phase = "pending" /\ refusal = "none" /\ edits = 0 /\ faults = 0
      /\ pipeline \in Pipelines /\ policy \in Policies
  BY DEF Init, current
<1>2. TypeOK
  BY <1>1, BoundsAssumption DEF TypeOK
<1>3. History
  BY <1>1 DEF History, TimeoutsAccumulate
<1>4. OutagesAreNotFinal
  BY <1>1 DEF OutagesAreNotFinal
<1>5. QED BY <1>1, <1>2, <1>3, <1>4 DEF Inv

\* The invariant holds always.
LEMMA Invariance == Spec => []Inv
<1>1. Init => Inv
  BY InvInit
<1>2. Inv /\ [Next]_vars => Inv'
  BY InvNext
<1>3. QED BY <1>1, <1>2, PTL DEF Spec

-----------------------------------------------------------------------------
(* What Tekton makes of the timeouts. *)

\* AdjustTimeouts leaves timeouts that Tekton accepts, or none and so the
\* defaults, of anything but zeros and a single nanosecond.
LEMMA AdjustedIsAccepted ==
  ASSUME NEW t \in TimeoutFields, ~OnlyZeros(t), t.pipeline = 1 => t.finally <= 0
  PROVE  TektonAccepts(WithTimeouts(AdjustTimeouts(t), DefaultTimeouts))
<1> DEFINE a == AdjustTimeouts(t)
           k == Value(t.tasks)
           f == Value(t.finally)
<1>1. /\ t.pipeline \in Optional /\ t.tasks \in Optional /\ t.finally \in Optional
      /\ k \in Nat /\ f \in Nat /\ Minute \in Nat
      /\ t = Timeouts(t.pipeline, t.tasks, t.finally)
  BY FieldsOfTimeouts, ValueType, MinuteAssumption
<1>2. /\ a \in TimeoutFields /\ Coherent(a)
      /\ t.pipeline > 0 => a.pipeline = t.pipeline
      /\ t.pipeline <= 0 /\ k <= 0 /\ f <= 0 => a = t
      /\ t.pipeline <= 0 /\ k <= 0 /\ f > 0 => a = NoTimeouts
      /\ t.pipeline <= 0 /\ k > 0 /\ f > 0 => a = Timeouts(k + f, k, f)
      /\ t.pipeline <= 0 /\ k > 0 /\ f <= 0 => a = Timeouts(k + 10 * Minute, k, Nil)
      /\ t.pipeline > 1 => a.finally # 0
      /\ t.pipeline > 0 /\ t.finally <= 0 => a.finally # 0
  BY AdjustedTimeouts
<1> HIDE DEF a
<1>3. a = NoTimeouts \/ a.pipeline = 0 \/ (a.pipeline > 0 /\ a.finally # 0)
  <2>1. CASE t.pipeline > 0
    BY <1>1, <1>2, <2>1 DEF Optional, Nil
  <2>2. CASE t.pipeline <= 0 /\ k <= 0 /\ f <= 0
    <3>1. t.tasks <= 0 /\ t.finally <= 0
      BY <1>1, <2>2, ValueType DEF Optional, Nil
    <3>2. t.pipeline = 0 \/ t.pipeline = Nil
      BY <1>1, <2>2 DEF Optional, Nil
    <3>3. t.pipeline = Nil => t.tasks = Nil /\ t.finally = Nil
      BY <1>1, <3>1 DEF OnlyZeros, Optional, Nil
    <3>4. t.pipeline = Nil => t = NoTimeouts
      BY <1>1, <3>3 DEF NoTimeouts
    <3>5. QED BY <1>2, <2>2, <3>2, <3>4
  <2>3. CASE t.pipeline <= 0 /\ k > 0
    <3>1. CASE f > 0
      <4>1. k + f \in Optional /\ k \in Optional /\ f \in Optional /\ k + f > 0
        BY <1>1, <2>3 DEF Optional
      <4>2. a.pipeline = k + f /\ a.finally = f
        BY <1>2, <2>3, <3>1, <4>1, TimeoutsFields
      <4>3. QED BY <3>1, <4>1, <4>2
    <3>2. CASE f <= 0
      <4>1. k + 10 * Minute \in Optional /\ k \in Optional /\ Nil \in Optional /\ k + 10 * Minute > 0
        BY <1>1, <2>3 DEF Optional
      <4>2. a.pipeline = k + 10 * Minute /\ a.finally = Nil
        BY <1>2, <2>3, <3>2, <4>1, TimeoutsFields
      <4>3. QED BY <4>1, <4>2 DEF Nil
    <3>3. QED BY <1>1, <3>1, <3>2
  <2>4. QED BY <1>1, <1>2, <2>1, <2>2, <2>3 DEF Optional, Nil
<1>4. QED BY <1>2, <1>3, CoherentIsAccepted, DefaultsAssumption DEF WithTimeouts, a

\* Tekton takes a PipelineRun made from these timeouts, or it is one of the two
\* cases of TimeoutsAreAccepted.
Passes(timeouts) ==
  \/ TektonAccepts(WithTimeouts(AdjustTimeouts(timeouts), DefaultTimeouts))
  \/ OnlyZeros(pipeline.timeouts)
  \/ policy.pipeline.max = 0

\* What Tekton has accepted leaves room for the parts: a retry that keeps the
\* time for finally and takes none away from the tasks passes.
LEMMA RetriedIsAccepted ==
  ASSUME NEW t \in TimeoutFields, TektonAccepts(t), Ordinary(t), NEW m \in TimeoutFields,
         m.finally = t.finally, t.tasks > 0 => m.tasks > 0, m.tasks = Nil <=> t.tasks = Nil,
         m.pipeline = Nil <=> t.pipeline = Nil,
         m = t \/ m.pipeline = Nil \/ m.pipeline >= Value(m.tasks) + Value(m.finally)
  PROVE  TektonAccepts(WithTimeouts(AdjustTimeouts(m), DefaultTimeouts))
<1>1. /\ t.pipeline \in Optional /\ t.tasks \in Optional /\ t.finally \in Optional
      /\ m.pipeline \in Optional /\ m.tasks \in Optional /\ m.finally \in Optional
      /\ Minute \in Nat \ {0}
  BY FieldsOfTimeouts, MinuteAssumption
<1>2. ~OnlyZeros(m)
  <2> SUFFICES ASSUME OnlyZeros(m) PROVE FALSE
    OBVIOUS
  <2>1. /\ m.pipeline = Nil /\ m.tasks <= 0 /\ m.finally <= 0 /\ (m.tasks = 0 \/ m.finally = 0)
        /\ t.pipeline = Nil
    BY DEF OnlyZeros
  <2>2. t.tasks # 0 /\ t.finally # 0
    BY <1>1, <2>1 DEF TektonAccepts, Nil
  <2>3. QED BY <1>1, <2>1, <2>2 DEF Optional, Nil
<1>3. m.pipeline = 1 => m.finally <= 0
  <2> SUFFICES ASSUME m.pipeline = 1, m.finally > 0 PROVE FALSE
    BY <1>1 DEF Optional, Nil
  <2>1. t.finally > 0 /\ t.pipeline # Nil /\ m.finally = t.finally
    BY DEF Nil
  <2>2. CASE t = DefaultTimeouts
    <3>1. t.finally > 1
      BY <1>1, <2>1, <2>2, DurationsAssumption DEF Optional, Nil
    <3>2. CASE m = t
      <4>1. t.pipeline = 1 /\ t.finally # Nil
        BY <1>1, <3>1, <3>2 DEF Nil
      <4>2. t.finally <= t.pipeline
        BY <1>1, <4>1 DEF TektonAccepts, Optional, Nil
      <4>3. QED BY <1>1, <3>1, <4>1, <4>2 DEF Optional, Nil
    <3>3. CASE m # t
      BY <1>1, <2>1, <3>1, <3>3 DEF Value, Optional, Nil
    <3>4. QED BY <3>2, <3>3
  <2>3. CASE Coherent(t)
    <3>1. t.pipeline > 0 /\ t.tasks > 0 /\ Value(t.tasks) + Value(t.finally) <= t.pipeline
      BY <1>1, <2>1, <2>3 DEF Coherent, Optional, Nil
    <3>2. m.pipeline >= Value(m.tasks) + Value(m.finally)
      BY <3>1 DEF Nil
    <3>3. QED BY <1>1, <2>1, <3>1, <3>2 DEF Value, Optional, Nil
  <2>4. QED BY <2>2, <2>3 DEF Ordinary
<1>4. QED BY <1>2, <1>3, AdjustedIsAccepted

\* So far Tekton has accepted every PipelineRun.
Accepted == \A i \in 1 .. Len(runs) : TektonAccepts(runs[i].timeouts)

\* The pipeline of the ReleasePlanAdmission passes.
LEMMA OriginalPasses ==
  ASSUME Inv
  PROVE  Passes(pipeline.timeouts)
<1>1. pipeline \in Pipelines /\ pipeline.timeouts \in TimeoutFields
  BY PolicyTypes DEF Inv, Pipeline
<1>2. pipeline.timeouts.pipeline # 1
  BY <1>1, DurationsAssumption
<1>3. QED BY <1>1, <1>2, AdjustedIsAccepted DEF Passes

\* So does whatever computeRetryOverrides makes of a PipelineRun Tekton accepted.
LEMMA RetryPasses ==
  ASSUME Inv, Accepted, current > 0, NEW found \in BOOLEAN, NEW listed \in BOOLEAN
  PROVE  Passes(computeRetryOverrides(found, listed).timeouts)
<1> DEFINE t == BaseTimeouts
           a == attempts[current]
           definition == IF listed /\ a.last # << >> THEN Definition[a.last[1].task] ELSE NoOverride
           r == computeRetryOverrides(found, listed)
<1>1. /\ t \in TimeoutFields /\ Ordinary(t) /\ t = runs[current].timeouts
      /\ runs[current].specs \in [Tasks -> Override] /\ a \in Attempt /\ Explained(a)
  BY TheBase
<1>2. TektonAccepts(t)
  <2>1. current \in 1 .. Len(runs)
    BY Counts
  <2>2. QED BY <1>1, <2>1 DEF Accepted
<1>3. t.pipeline \in Optional /\ t.tasks \in Optional /\ t.finally \in Optional
  BY <1>1, FieldsOfTimeouts
<1>4. Passes(t)
  BY <1>1, <1>2, RetriedIsAccepted DEF Passes
<1>5. IncrementPolicy(policy.task) /\ IncrementPolicy(policy.pipeline)
  BY PolicyTypes DEF Inv
<1> HIDE DEF t
<1>6. CASE ~found \/ ~(policy.memory.on \/ policy.task.on \/ policy.pipeline.on)
  <2>1. r = Retry(pipeline.specs, pipeline.timeouts, NoMitigation)
    BY <1>6 DEF computeRetryOverrides
  <2>2. QED BY <2>1, OriginalPasses DEF Retry
<1>7. CASE found /\ (policy.memory.on \/ policy.task.on \/ policy.pipeline.on)
  <2>1. CASE a.reason = "OOMKill" /\ policy.memory.on
    <3>1. r = MitigateOOMKill(definition)
      BY <1>7, <2>1 DEF computeRetryOverrides
    <3>2. r.timeouts = t
      BY <3>1 DEF MitigateOOMKill, Retry, t
    <3>3. QED BY <1>4, <3>2
  <2>2. CASE a.reason = "TaskRunTimeout" /\ policy.task.on
    <3> DEFINE c == a.last[1]
               old == GetTaskRunTimeout(runs[current].specs, definition, c.task)
               more == ApplyTaskTimeoutMitigation(old, t, policy.task)
               d == addCappedDuration(old, policy.task)
    <3>1. r = MitigateTaskRunTimeout(definition)
      BY <1>7, <2>2 DEF computeRetryOverrides
    <3>2. CASE more.timeout = Nil
      <4>1. r.timeouts = t
        BY <3>1, <3>2 DEF MitigateTaskRunTimeout, Retry, t
      <4>2. QED BY <1>4, <4>1
    <3>3. CASE more.timeout # Nil
      <4>1. r.timeouts = more.timeouts
        BY <3>1, <3>3 DEF MitigateTaskRunTimeout, Retry, t
      <4>2. old \in Optional
        <5>1. a.last \in Seq(ChildRun) /\ a.last # << >>
          BY <1>1, <2>2 DEF Attempt, Explained
        <5>2. c \in ChildRun
          BY <5>1
        <5>3. c.task \in Tasks /\ c.step \in Steps
          BY <5>2 DEF ChildRun
        <5>4. definition \in {Definition[c.task], NoOverride}
          OBVIOUS
        <5> HIDE DEF definition, c
        <5>5. QED BY <1>1, <5>3, <5>4, LookedUp
      <4>3. old # Nil
        BY <3>3 DEF ApplyTaskTimeoutMitigation
      <4> HIDE DEF old
      <4>4. d \in Nat
        BY <1>5, <4>2, AddedDuration
      <4> DEFINE m == more.timeouts
      <4>5. /\ m \in TimeoutFields /\ m.finally = t.finally
            /\ m.tasks = t.tasks \/ (t.tasks # Nil /\ m.tasks = d /\ d > t.tasks)
            /\ t.pipeline = Nil => m.pipeline = Nil
            /\ t.pipeline # Nil =>
                 m.pipeline # Nil /\ m.pipeline >= Value(m.tasks) + Value(t.finally)
        BY <1>1, <1>5, <4>2, <4>3, TaskTimeoutMitigated
      <4> HIDE DEF m, d
      <4>6. (t.tasks > 0 => m.tasks > 0) /\ (m.tasks = Nil <=> t.tasks = Nil)
        BY <1>3, <4>4, <4>5 DEF Optional, Nil
      <4>7. QED BY <1>1, <1>2, <4>1, <4>5, <4>6, RetriedIsAccepted DEF Passes, m
    <3>4. QED BY <3>2, <3>3
  <2>3. CASE a.reason = "PipelineRunTimeout" /\ policy.pipeline.on
    <3> DEFINE m == ApplyPipelineTimeoutMitigation(t, policy.pipeline)
    <3>1. r = MitigatePipelineRunTimeout
      BY <1>7, <2>3 DEF computeRetryOverrides
    <3>2. r.timeouts = t \/ r.timeouts = m
      BY <3>1 DEF MitigatePipelineRunTimeout, Retry, t
    <3>3. /\ m \in TimeoutFields /\ m.finally = t.finally
          /\ m.tasks = IF t.tasks = Nil THEN Nil ELSE addCappedDuration(t.tasks, policy.pipeline)
          /\ t.pipeline = Nil => m.pipeline = Nil
          /\ t.pipeline # Nil =>
               m.pipeline # Nil /\ m.pipeline >= Value(m.tasks) + Value(t.finally)
      BY <1>1, <1>5, PipelineTimeoutMitigated
    <3> HIDE DEF m
    <3>4. policy.pipeline.max # 0 =>
            (t.tasks > 0 => m.tasks > 0) /\ (m.tasks = Nil <=> t.tasks = Nil)
      <4>1. policy.pipeline.increment \in Nat /\ policy.pipeline.max \in Optional
        BY <1>5 DEF IncrementPolicy
      <4>2. QED BY <1>3, <3>3, <4>1 DEF addCappedDuration, Capped, Value, Optional, Nil
    <3>5. QED BY <1>1, <1>2, <1>4, <3>2, <3>3, <3>4, RetriedIsAccepted DEF Passes
  <2>4. CASE /\ ~(a.reason = "OOMKill" /\ policy.memory.on)
             /\ ~(a.reason = "TaskRunTimeout" /\ policy.task.on)
             /\ ~(a.reason = "PipelineRunTimeout" /\ policy.pipeline.on)
    <3>1. r = Retry(BaseSpecs, BaseTimeouts, NoMitigation)
      BY <1>7, <2>4 DEF computeRetryOverrides
    <3>2. QED BY <1>4, <3>1 DEF Retry, t
  <2>5. QED BY <2>1, <2>2, <2>3, <2>4
<1>8. QED BY <1>6, <1>7

\* What the invariant has to say of refusals: one is final, so that the pipeline of
\* the ReleasePlanAdmission is still the one that was refused.
Refusals ==
  /\ Accepted
  /\ TimeoutsAreAccepted
  /\ refusal = "badTimeouts" => phase = "failed"

\* A step that adds no PipelineRun and refuses none.
LEMMA UnrefusedStep ==
  ASSUME Refusals, phase # "failed", UNCHANGED runs,
         refusal' = refusal \/ refusal' # "badTimeouts"
  PROVE  Refusals'
BY DEF Refusals, Accepted, TimeoutsAreAccepted

\* A PipelineRun that Tekton accepts is added.
LEMMA AcceptedStep ==
  ASSUME Inv, Refusals, phase # "failed", NEW x, TektonAccepts(x.timeouts),
         runs' = Append(runs, x), refusal' = refusal \/ refusal' # "badTimeouts"
  PROVE  Refusals'
<1>1. runs \in Seq(PipelineRun)
  BY Counts
<1>2. Len(runs') = Len(runs) + 1 /\ Len(runs) \in Nat
  BY <1>1
<1>3. \A i \in 1 .. Len(runs') : runs'[i] = IF i = Len(runs) + 1 THEN x ELSE runs[i]
  BY <1>1, <1>2
<1>4. Accepted'
  BY <1>2, <1>3 DEF Refusals, Accepted
<1>5. QED BY <1>4 DEF Refusals, TimeoutsAreAccepted

\* A PipelineRun from timeouts that pass is submitted.
LEMMA SubmittedStep ==
  ASSUME Inv, Refusals, phase # "failed", NEW specs, NEW timeouts, NEW revision, NEW m,
         Passes(timeouts), createAndRegister(NewRun(specs, timeouts, revision), m),
         UNCHANGED <<pipeline, policy>>
  PROVE  Refusals'
<1> DEFINE x == NewRun(specs, timeouts, revision)
<1>1. x.timeouts = WithTimeouts(AdjustTimeouts(timeouts), DefaultTimeouts)
  BY DEF NewRun
<1> HIDE DEF x
<1>2. CASE TektonAccepts(x.timeouts) /\ runs' = Append(runs, x) /\ UNCHANGED refusal
  BY <1>2, AcceptedStep
<1>3. CASE ~TektonAccepts(x.timeouts) /\ CreationFails("badTimeouts")
  <2>1. runs' = runs /\ phase' = "failed" /\ refusal' = "badTimeouts"
    BY <1>3 DEF CreationFails, IsRetryableCreationError
  <2>2. OnlyZeros(pipeline.timeouts) \/ policy.pipeline.max = 0
    BY <1>1, <1>3 DEF Passes
  <2>3. QED BY <2>1, <2>2 DEF Refusals, Accepted, TimeoutsAreAccepted
<1>4. QED BY <1>2, <1>3 DEF createAndRegister, x

\* createManagedPipelineRun with timeouts that pass.
LEMMA PassingCreationStep ==
  ASSUME Inv, Refusals, phase # "failed", NEW specs, NEW timeouts, NEW m, Passes(timeouts),
         createManagedPipelineRun(specs, timeouts, m), UNCHANGED <<pipeline, policy>>
  PROVE  Refusals'
<1>1. ASSUME NEW err, err # "badTimeouts", CreationFails(err)
      PROVE  Refusals'
  BY <1>1, UnrefusedStep DEF CreationFails
<1>2. ASSUME NEW answer \in {"found", "missing", "unreachable", "rejected", "rateLimited"},
             LET built == WithPipelineRef(pipeline.ref, answer)
             IN  \/ built \in CreationErrors /\ CreationFails(built)
                 \/ /\ built \notin CreationErrors
                    /\ createAndRegister(NewRun(specs, timeouts, built), m)
      PROVE  Refusals'
  <2> DEFINE built == WithPipelineRef(pipeline.ref, answer)
  <2>1. built # "badTimeouts"
    <3>1. pipeline.ref.valid \in BOOLEAN /\ pipeline.ref.sha \in BOOLEAN /\ pipeline.ref.token \in BOOLEAN
      <4>1. pipeline \in Pipeline
        BY PolicyTypes DEF Inv
      <4>2. QED BY <4>1 DEF Pipeline, PipelineRef
    <3>2. QED BY <3>1 DEF WithPipelineRef
  <2> HIDE DEF built
  <2>2. QED BY <1>1, <1>2, <2>1, SubmittedStep DEF built
<1>3. ASSUME NEW err \in {"busy", "denied"}, CreationFails(err)
      PROVE  Refusals'
  BY <1>1, <1>3
<1>4. ASSUME TektonAccepts(NewRun(specs, timeouts, "commit").timeouts),
             runs' = Append(runs, NewRun(specs, timeouts, "commit")),
             UNCHANGED refusal \/ refusal' = "denied"
      PROVE  Refusals'
  BY <1>4, AcceptedStep
<1>5. QED BY <1>2, <1>3, <1>4 DEF createManagedPipelineRun

\* Every step keeps it.
LEMMA RefusalsNext ==
  ASSUME Inv, Refusals, [Next]_vars
  PROVE  Refusals'
<1>1. CASE EnsureManagedPipelineIsProcessed
  <2>1. phase # "failed" /\ UNCHANGED <<pipeline, policy>>
    BY <1>1 DEF EnsureManagedPipelineIsProcessed
  <2>2. CASE createManagedPipelineRun(pipeline.specs, pipeline.timeouts, NoMitigation)
    BY <2>1, <2>2, OriginalPasses, PassingCreationStep
  <2>3. CASE UNCHANGED <<runs, refusal, faults>>
    BY <2>1, <2>3, UnrefusedStep
  <2>4. QED BY <1>1, <2>2, <2>3 DEF EnsureManagedPipelineIsProcessed
<1>2. CASE EnsureManagedPipelineProcessingIsTracked
  BY <1>2, UnrefusedStep DEF EnsureManagedPipelineProcessingIsTracked
<1>3. CASE EnsureManagedPipelineProcessingIsCompleted
  <2>1. phase # "failed" /\ current > 0 /\ UNCHANGED <<pipeline, policy>>
    BY <1>3 DEF EnsureManagedPipelineProcessingIsCompleted, Inv
  <2>2. ASSUME LET r == computeRetryOverrides(TRUE, TRUE)
               IN createManagedPipelineRun(r.specs, r.timeouts, r.mitigation)
        PROVE  Refusals'
    <3> DEFINE r == computeRetryOverrides(TRUE, TRUE)
    <3>1. Passes(r.timeouts)
      BY <2>1, RetryPasses DEF Refusals
    <3> HIDE DEF r
    <3>2. QED BY <2>1, <2>2, <3>1, PassingCreationStep DEF r
  <2>3. ASSUME NEW found \in BOOLEAN,
               LET r == computeRetryOverrides(found, FALSE)
               IN createAndRegister(NewRun(r.specs, r.timeouts, "commit"), r.mitigation)
        PROVE  Refusals'
    <3> DEFINE r == computeRetryOverrides(found, FALSE)
    <3>1. Passes(r.timeouts)
      BY <2>1, RetryPasses DEF Refusals
    <3> HIDE DEF r
    <3>2. QED BY <2>1, <2>3, <3>1, SubmittedStep DEF r
  <2>4. CASE UNCHANGED <<runs, refusal, faults>>
    BY <2>1, <2>4, UnrefusedStep
  <2>5. CASE retryManagedPipeline
    BY <2>2, <2>3, <2>4, <2>5 DEF retryManagedPipeline
  <2>6. QED BY <1>3, <2>4, <2>5 DEF EnsureManagedPipelineProcessingIsCompleted
<1>4. CASE FinishRun
  <2>1. UNCHANGED <<pipeline, policy, phase, refusal>>
    BY <1>4 DEF FinishRun
  <2>2. Len(runs') = Len(runs) /\ \A i \in 1 .. Len(runs) : runs'[i].timeouts = runs[i].timeouts
    <3>1. runs \in Seq(PipelineRun)
      BY Counts
    <3>2. \A i \in 1 .. Len(runs) : runs[i] \in PipelineRun
      BY <3>1
    <3>3. CASE runs' = [runs EXCEPT ![Len(runs)].state = "succeeded"]
      BY <3>1, <3>2, <3>3 DEF PipelineRun
    <3>4. ASSUME NEW o,
                 runs' = [runs EXCEPT ![Len(runs)].state = "failed", ![Len(runs)].outcome = o]
          PROVE  Len(runs') = Len(runs) /\ \A i \in 1 .. Len(runs) : runs'[i].timeouts = runs[i].timeouts
      BY <3>1, <3>2, <3>4 DEF PipelineRun
    <3>5. QED BY <1>4, <3>3, <3>4 DEF FinishRun
  <2>3. QED BY <2>1, <2>2 DEF Refusals, Accepted, TimeoutsAreAccepted
<1>5. CASE EditPipeline
  BY <1>5, UnrefusedStep DEF EditPipeline
<1>6. CASE UNCHANGED vars
  BY <1>6 DEF vars, Refusals, Accepted, TimeoutsAreAccepted
<1>7. QED BY <1>1, <1>2, <1>3, <1>4, <1>5, <1>6 DEF Next, Controller

-----------------------------------------------------------------------------
(* The theorems. *)

\* Whatever happens, the state has its types; in particular at most one
\* PipelineRun is not registered.
THEOREM ManagedPipelineTypeCorrect == Spec => []TypeOK
<1>1. Inv => TypeOK
  BY DEF Inv
<1>2. QED BY <1>1, Invariance, PTL

\* Tekton refuses no PipelineRun for its timeouts, for every number of retries,
\* edits and faults and for all timeouts, short ones and zeros included, but the
\* ones TimeoutsAreAccepted names: what Tekton accepted once passes again after any
\* mitigation, because AdjustTimeouts comes last.
THEOREM EveryPipelineRunIsAccepted == Spec => []TimeoutsAreAccepted
<1>1. Init => Refusals
  <2> SUFFICES ASSUME Init PROVE Refusals
    OBVIOUS
  <2>1. runs = << >> /\ refusal = "none" /\ Len(runs) = 0
    BY DEF Init
  <2>2. QED BY <2>1 DEF Refusals, Accepted, TimeoutsAreAccepted
<1>2. Inv /\ Refusals /\ [Next]_vars => Refusals'
  BY RefusalsNext
<1>3. Refusals => TimeoutsAreAccepted
  BY DEF Refusals
<1>4. QED BY <1>1, <1>2, <1>3, Invariance, PTL DEF Spec

\* Retries do not raise a memory limit or a pipeline timeout without end, however
\* many there are and whatever is edited between them.
THEOREM RetriesStayWithinTheirCeilings == Spec => []GrowthIsBounded
<1>1. Inv => GrowthIsBounded
  <2> SUFFICES ASSUME Inv, NEW i \in 1 .. Len(runs)
               PROVE  /\ policy.memory.limit # Nil =>
                           \A t \in Tasks, s \in Steps :
                             LimitIsBounded(MemoryOf(runs[i], t, s).limit, t, s)
                      /\ policy.task.max # Nil /\ policy.pipeline.max # Nil =>
                           PipelineTimeoutIsBounded(runs[i].timeouts)
    BY DEF GrowthIsBounded, MemoryOf
  <2>1. Made(runs[i]) /\ runs[i].specs \in [Tasks -> Override]
    BY DEF Inv, Made, PipelineRun
  <2>2. ASSUME policy.memory.limit # Nil, NEW t \in Tasks, NEW s \in Steps
        PROVE  LimitIsBounded(MemoryOf(runs[i], t, s).limit, t, s)
    <3>1. /\ LimitIsBounded(runs[i].specs[t].steps[s].limit, t, s)
          /\ LimitIsBounded(runs[i].specs[t].resources.limit, t, s)
      BY <2>1, <2>2 DEF Made, LimitsAreBounded
    <3>2. LimitIsBounded(Definition[t].steps[s].limit, t, s)
      BY DEF LimitIsBounded, WrittenLimits
    <3>3. runs[i].specs[t].steps[s].set \in BOOLEAN /\ runs[i].specs[t].resources.set \in BOOLEAN
      BY <2>1 DEF Override, Resources
    <3>4. QED BY <3>1, <3>2, <3>3 DEF MemoryOf, GetStepComputeResources
  <2>3. QED BY <2>1, <2>2 DEF Made, TimeoutIsBounded
<1>2. QED BY <1>1, Invariance, PTL

\* What the invariant says of a recorded retry.
LEMMA MitigatedFollows ==
  ASSUME Inv, NEW i \in 1 .. current, Mitigated(i)
  PROVE  i \in 1 .. current - 1
         /\ Follows(runs[i], runs[i + 1], attempts[i], attempts[i + 1].mitigation)
<1>1. current \in Nat /\ i < current /\ attempts[i + 1].mitigation # NoMitigation
  BY Counts DEF Mitigated
<1>2. i \in 1 .. current - 1
  BY <1>1
<1>3. QED BY <1>1, <1>2 DEF Inv, History

\* A retry with a recorded mitigation has more of what the failed attempt ran out
\* of, unless the ceiling or the policy allows no more.
THEOREM MitigatedRetriesHelp == Spec => []RetryHelps
<1>1. Inv => RetryHelps
  <2> SUFFICES ASSUME Inv, NEW i \in 1 .. current, Mitigated(i)
               PROVE  Helps(runs[i], runs[i + 1], attempts[i])
    BY DEF RetryHelps, Helps, MemoryOf, TimeoutOf, StepMemory, TaskTimeout
  <2>1. QED BY MitigatedFollows DEF Follows
<1>2. QED BY <1>1, Invariance, PTL

\* The mitigation in the status is the one the PipelineRun was created with.
THEOREM RecordsAreTrue == Spec => []RecordedMitigationIsReal
<1>1. Inv => RecordedMitigationIsReal
  <2> SUFFICES ASSUME Inv, NEW i \in 1 .. current - 1
               PROVE  Records(runs[i + 1], attempts[i], attempts[i + 1].mitigation)
    BY DEF RecordedMitigationIsReal, Records, MemoryOf, TimeoutOf, StepMemory, TaskTimeout
  <2>1. CASE attempts[i + 1].mitigation = NoMitigation
    BY <2>1 DEF Records, NoMitigation
  <2>2. CASE attempts[i + 1].mitigation # NoMitigation
    BY <2>2 DEF Inv, History, Follows
  <2>3. QED BY <2>1, <2>2
<1>2. QED BY <1>1, Invariance, PTL

\* The timeout a task was given stays through the retries that follow.
THEOREM TaskTimeoutsAccumulate == Spec => []TimeoutsAccumulate
<1>1. Inv => TimeoutsAccumulate
  BY DEF Inv, History
<1>2. QED BY <1>1, Invariance, PTL

\* No outage of git or of the API server ends the managed phase.
THEOREM OnlyLastingErrorsAreFinal == Spec => []OutagesAreNotFinal
<1>1. Inv => OutagesAreNotFinal
  BY DEF Inv
<1>2. QED BY <1>1, Invariance, PTL
=============================================================================
