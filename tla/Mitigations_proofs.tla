-------------------------- MODULE Mitigations_proofs --------------------------
(***************************************************************************)
(* What the operators of Mitigations return, for all timeouts, memory      *)
(* quantities, overrides and policies.                                     *)
(***************************************************************************)
EXTENDS Mitigations, TLAPS

-----------------------------------------------------------------------------
(* Timeouts. *)

\* Nothing is an optional quantity.
LEMMA NilIsOptional == Nil \in Optional /\ Nil \in Int /\ Nil < 0 /\ Nat \subseteq Optional
BY DEF Nil, Optional

\* The number an optional quantity stands for.
LEMMA ValueType ==
  ASSUME NEW d \in Optional
  PROVE  Value(d) \in Nat /\ d <= Value(d) /\ (d > 0 <=> Value(d) > 0) /\ (d # Nil => d = Value(d) /\ d \in Nat)
BY DEF Value, Nil, Optional

\* A record of timeouts is made of its three fields.
LEMMA TimeoutsFields ==
  ASSUME NEW p \in Optional, NEW k \in Optional, NEW f \in Optional
  PROVE  /\ Timeouts(p, k, f) \in TimeoutFields
         /\ Timeouts(p, k, f).pipeline = p
         /\ Timeouts(p, k, f).tasks = k
         /\ Timeouts(p, k, f).finally = f
BY DEF Timeouts, TimeoutFields

\* The fields of a record of timeouts.
LEMMA FieldsOfTimeouts ==
  ASSUME NEW t \in TimeoutFields
  PROVE  /\ t.pipeline \in Optional /\ t.tasks \in Optional /\ t.finally \in Optional
         /\ t = Timeouts(t.pipeline, t.tasks, t.finally)
BY DEF Timeouts, TimeoutFields

\* The buffer leaves time for the tasks.
LEMMA BufferLeavesTime ==
  ASSUME NEW t \in TimeoutFields
  PROVE  /\ AdjustmentBuffer(t) \in Nat /\ AdjustmentBuffer(t) <= 10 * Minute
         /\ IsSet(t.pipeline) => AdjustmentBuffer(t) < t.pipeline
         /\ t.pipeline # 1 => AdjustmentBuffer(t) # 0
         /\ ~IsSet(t.pipeline) => AdjustmentBuffer(t) = 10 * Minute
<1>1. t.pipeline \in Optional
  BY FieldsOfTimeouts
<1>2. Minute \in Nat \ {0}
  BY MinuteAssumption
<1>3. QED BY <1>1, <1>2 DEF AdjustmentBuffer, IsSet, Optional, Nil

\* The adjusted timeouts have a pipeline timeout only together with one for the
\* tasks, and then the parts fit into the whole.  A pipeline timeout that is given
\* stays.
Coherent(t) ==
  \/ t.pipeline > 0 /\ t.tasks > 0 /\ Value(t.tasks) + Value(t.finally) <= t.pipeline
  \/ t.pipeline <= 0 /\ t.tasks <= 0 /\ t.finally <= 0

\* What AdjustTimeouts does to any timeouts.
LEMMA AdjustedTimeouts ==
  ASSUME NEW t \in TimeoutFields
  PROVE  LET a == AdjustTimeouts(t)
             k == Value(t.tasks)
             f == Value(t.finally)
         IN  /\ a \in TimeoutFields
             /\ Coherent(a)
             /\ t.pipeline > 0 => a.pipeline = t.pipeline
             /\ t.pipeline <= 0 /\ k <= 0 /\ f <= 0 => a = t
             /\ t.pipeline <= 0 /\ k <= 0 /\ f > 0 => a = NoTimeouts
             /\ t.pipeline <= 0 /\ k > 0 /\ f > 0 => a = Timeouts(k + f, k, f)
             /\ t.pipeline <= 0 /\ k > 0 /\ f <= 0 => a = Timeouts(k + 10 * Minute, k, Nil)
             /\ t.pipeline > 0 /\ k > 0 /\ k + f <= t.pipeline /\ f > 0 => a.finally = t.finally
             /\ a.finally = t.finally \/ a.finally <= 10 * Minute
             /\ t.pipeline > 1 => a.finally # 0
             /\ t.pipeline > 0 /\ t.finally <= 0 => a.finally # 0
<1> DEFINE p == t.pipeline
           k == t.tasks
           f == t.finally
           b == AdjustmentBuffer(t)
           a == AdjustTimeouts(t)
<1>1. p \in Optional /\ k \in Optional /\ f \in Optional
  BY FieldsOfTimeouts
<1>2. /\ b \in Nat /\ b <= 10 * Minute /\ (p > 0 => b < p) /\ (~(p > 0) => b = 10 * Minute)
      /\ p # 1 => b # 0
  BY BufferLeavesTime DEF IsSet
<1>3. Minute \in Nat \ {0} /\ 10 * Minute \in Nat
  BY MinuteAssumption
<1>4. a = CASE ~(p > 0) /\ ~(k > 0) /\ ~(f > 0) -> t
            [] p > 0 /\ k > 0 /\ f > 0    -> IF p >= k + f THEN Timeouts(p, k, f)
                                             ELSE Timeouts(p, p - b, b)
            [] p > 0 /\ k > 0 /\ ~(f > 0)   -> IF k < p THEN Timeouts(p, k, Nil)
                                             ELSE Timeouts(p, p - b, Nil)
            [] p > 0 /\ ~(k > 0) /\ f > 0   -> IF f <= p \div 2 THEN Timeouts(p, p - f, f)
                                             ELSE Timeouts(p, p - b, b)
            [] p > 0 /\ ~(k > 0) /\ ~(f > 0)  -> Timeouts(p, p - b, Nil)
            [] ~(p > 0) /\ k > 0 /\ ~(f > 0)  -> Timeouts(k + b, k, Nil)
            [] ~(p > 0) /\ ~(k > 0) /\ f > 0  -> NoTimeouts
            [] ~(p > 0) /\ k > 0 /\ f > 0   -> Timeouts(k + f, k, f)
  BY DEF AdjustTimeouts, IsSet
<1> DEFINE Kept ==
      /\ p > 0 => a.pipeline = p
      /\ p <= 0 /\ Value(k) <= 0 /\ Value(f) <= 0 => a = t
      /\ p <= 0 /\ Value(k) <= 0 /\ Value(f) > 0 => a = NoTimeouts
      /\ p <= 0 /\ Value(k) > 0 /\ Value(f) > 0 =>
           a = Timeouts(Value(k) + Value(f), Value(k), Value(f))
      /\ p <= 0 /\ Value(k) > 0 /\ Value(f) <= 0 =>
           a = Timeouts(Value(k) + 10 * Minute, Value(k), Nil)
      /\ p > 0 /\ Value(k) > 0 /\ Value(k) + Value(f) <= p /\ Value(f) > 0 => a.finally = f
      /\ a.finally = f \/ a.finally <= 10 * Minute
      /\ p > 1 => a.finally # 0
      /\ p > 0 /\ f <= 0 => a.finally # 0
<1>5. a \in TimeoutFields /\ Coherent(a) /\ Kept
  <2> HIDE DEF a, b, p, k, f
  <2>1. CASE ~(p > 0) /\ ~(k > 0) /\ ~(f > 0)
    <3>1. a = t /\ a.pipeline = p /\ a.tasks = k /\ a.finally = f
      BY <1>4, <2>1 DEF p, k, f
    <3>2. QED BY <1>1, <2>1, <3>1 DEF Coherent, Value, Nil, Optional
  <2>2. CASE p > 0 /\ k > 0 /\ f > 0 /\ p >= k + f
    <3>1. a = Timeouts(p, k, f)
      BY <1>4, <2>2
    <3>2. a.pipeline = p /\ a.tasks = k /\ a.finally = f /\ a \in TimeoutFields
      BY <1>1, <3>1, TimeoutsFields
    <3>3. QED BY <1>1, <2>2, <3>2 DEF Coherent, Value, Nil, Optional
  <2>3. CASE p > 0 /\ ~(k > 0 /\ f > 0 /\ p >= k + f)
    <3>1. \/ a = Timeouts(p, k, Nil) /\ k > 0 /\ k < p /\ ~(f > 0)
          \/ a = Timeouts(p, p - b, Nil) /\ ~(f > 0)
          \/ a = Timeouts(p, p - f, f) /\ f <= p \div 2 /\ f > 0 /\ ~(k > 0)
          \/ a = Timeouts(p, p - b, b) /\ f > 0 /\ ~(k > 0 /\ p >= k + f)
      BY <1>4, <2>3
    <3>2. f <= p \div 2 => f < p
      BY <1>1, <2>3 DEF Optional, Nil
    <3>3. b \in Optional /\ p - b \in Optional /\ p - b > 0 /\ Nil \in Optional
      BY <1>1, <1>2, <2>3 DEF Optional, Nil
    <3>4. f > 0 /\ f < p => p - f \in Optional
      BY <1>1 DEF Optional, Nil
    <3>5. /\ a \in TimeoutFields /\ a.pipeline = p
          /\ \/ a.tasks = k /\ a.finally = Nil /\ k > 0 /\ k < p /\ ~(f > 0)
             \/ a.tasks = p - b /\ a.finally = Nil /\ ~(f > 0)
             \/ a.tasks = p - f /\ a.finally = f /\ f < p /\ f > 0 /\ ~(k > 0)
             \/ a.tasks = p - b /\ a.finally = b /\ f > 0 /\ ~(k > 0 /\ p >= k + f)
      BY <1>1, <3>1, <3>2, <3>3, <3>4, TimeoutsFields, SMTT(40)
    <3>6. Coherent(a)
      BY <1>1, <1>2, <2>3, <3>5 DEF Coherent, Value, Nil, Optional
    <3>7. QED BY <1>1, <1>2, <1>3, <2>3, <3>5, <3>6 DEF Value, Nil, Optional
  <2>4. CASE ~(p > 0) /\ k > 0 /\ ~(f > 0)
    <3>1. a = Timeouts(k + b, k, Nil)
      BY <1>4, <2>4
    <3>2. k + b \in Optional /\ Nil \in Optional
      BY <1>1, <1>2, <2>4 DEF Optional, Nil
    <3>3. a.pipeline = k + b /\ a.tasks = k /\ a.finally = Nil /\ a \in TimeoutFields
      BY <1>1, <3>1, <3>2, TimeoutsFields
    <3>4. QED BY <1>1, <1>2, <1>3, <2>4, <3>1, <3>3 DEF Coherent, Value, Nil, Optional
  <2>5. CASE ~(p > 0) /\ ~(k > 0) /\ f > 0
    <3>1. a = NoTimeouts
      BY <1>4, <2>5
    <3>2. a.pipeline = Nil /\ a.tasks = Nil /\ a.finally = Nil /\ a \in TimeoutFields
      BY <3>1, NilIsOptional, TimeoutsFields DEF NoTimeouts
    <3>3. QED BY <1>1, <1>3, <2>5, <3>1, <3>2 DEF Coherent, Value, Nil, Optional
  <2>6. CASE ~(p > 0) /\ k > 0 /\ f > 0
    <3>1. a = Timeouts(k + f, k, f)
      BY <1>4, <2>6
    <3>2. k + f \in Optional
      BY <1>1, <2>6 DEF Optional, Nil
    <3>3. a.pipeline = k + f /\ a.tasks = k /\ a.finally = f /\ a \in TimeoutFields
      BY <1>1, <3>1, <3>2, TimeoutsFields
    <3>4. QED BY <1>1, <2>6, <3>1, <3>3 DEF Coherent, Value, Nil, Optional
  <2>7. QED BY <2>1, <2>2, <2>3, <2>4, <2>5, <2>6
<1>6. QED BY <1>5

\* The timeouts of a PipelineRun: the adjusted ones or the defaults (WithTimeouts).
LEMMA TimeoutsOfARun ==
  ASSUME NEW t \in TimeoutFields, NEW default \in TimeoutFields
  PROVE  LET r == WithTimeouts(AdjustTimeouts(t), default)
         IN  /\ r \in TimeoutFields
             /\ r = default \/ (r = AdjustTimeouts(t) /\ Coherent(r))
             /\ r # default => r # NoTimeouts
BY AdjustedTimeouts DEF WithTimeouts

\* Coherent timeouts with a pipeline timeout pass Tekton's check, unless finally has
\* none; so do timeouts that are none at all.
LEMMA CoherentIsAccepted ==
  ASSUME NEW t \in TimeoutFields, Coherent(t),
         t.pipeline = 0 \/ (t.pipeline > 0 /\ t.finally # 0)
  PROVE  TektonAccepts(t)
<1>1. t.pipeline \in Optional /\ t.tasks \in Optional /\ t.finally \in Optional
  BY FieldsOfTimeouts
<1>2. QED BY <1>1 DEF Coherent, TektonAccepts, Value, Nil, Optional

-----------------------------------------------------------------------------
(* Mitigations of timeouts. *)

\* A policy for timeouts.
IncrementPolicy(policy) == policy.increment \in Nat /\ policy.max \in Optional

\* A duration grows by the increment, never over the ceiling.
LEMMA AddedDuration ==
  ASSUME NEW d \in Optional, NEW policy, IncrementPolicy(policy)
  PROVE  /\ addCappedDuration(d, policy) \in Nat
         /\ policy.max # Nil => addCappedDuration(d, policy) <= policy.max
         /\ addCappedDuration(d, policy) >= Value(d)
              \/ (policy.max # Nil /\ addCappedDuration(d, policy) = policy.max /\ policy.max < Value(d))
         /\ policy.increment > 0 =>
              addCappedDuration(d, policy) > Value(d) \/ (policy.max # Nil /\ Value(d) >= policy.max)
<1>1. Value(d) \in Nat
  BY ValueType
<1>2. policy.increment \in Nat /\ policy.max \in Optional
  BY DEF IncrementPolicy
<1>3. QED BY <1>1, <1>2 DEF addCappedDuration, Capped, Optional, Nil

\* enforcePipelineCeiling raises the pipeline timeout, if there is one, to what
\* the parts need, and no further.
LEMMA EnforcedCeiling ==
  ASSUME NEW t \in TimeoutFields
  PROVE  LET e == enforcePipelineCeiling(t)
             parts == Value(t.tasks) + Value(t.finally)
         IN  /\ e \in TimeoutFields /\ e.tasks = t.tasks /\ e.finally = t.finally
             /\ t.pipeline = Nil => e.pipeline = Nil
             /\ t.pipeline # Nil => e.pipeline # Nil /\ e.pipeline >= parts /\ e.pipeline >= t.pipeline
             /\ e.pipeline = t.pipeline \/ e.pipeline = parts
<1> DEFINE parts == Value(t.tasks) + Value(t.finally)
<1>1. t.pipeline \in Optional /\ t.tasks \in Optional /\ t.finally \in Optional
  BY FieldsOfTimeouts
<1>2. parts \in Nat /\ parts \in Optional
  <2>1. Value(t.tasks) \in Nat /\ Value(t.finally) \in Nat
    BY <1>1, ValueType
  <2>2. QED BY <2>1 DEF Optional
<1> HIDE DEF parts
<1>3. CASE t.pipeline # Nil /\ t.pipeline < parts
  <2>1. enforcePipelineCeiling(t) = [t EXCEPT !.pipeline = parts]
    BY <1>3 DEF enforcePipelineCeiling, parts
  <2>2. /\ enforcePipelineCeiling(t) \in TimeoutFields
        /\ enforcePipelineCeiling(t).pipeline = parts
        /\ enforcePipelineCeiling(t).tasks = t.tasks
        /\ enforcePipelineCeiling(t).finally = t.finally
    BY <1>2, <2>1 DEF TimeoutFields
  <2>3. parts # Nil /\ parts >= parts /\ parts >= t.pipeline
    BY <1>1, <1>2, <1>3 DEF Nil, Optional
  <2>4. QED BY <1>3, <2>2, <2>3 DEF parts
<1>4. CASE ~(t.pipeline # Nil /\ t.pipeline < parts)
  <2>1. enforcePipelineCeiling(t) = t
    BY <1>4 DEF enforcePipelineCeiling, parts
  <2>2. t.pipeline # Nil => t.pipeline >= parts /\ t.pipeline >= t.pipeline
    BY <1>1, <1>2, <1>4 DEF Nil, Optional
  <2>3. QED BY <2>1, <2>2 DEF parts
<1>5. QED BY <1>3, <1>4

\* More time for a task: the task's own timeout is raised, the timeouts around it
\* only as far as the task needs.
LEMMA TaskTimeoutMitigated ==
  ASSUME NEW cur \in Optional, cur # Nil, NEW t \in TimeoutFields, NEW policy, IncrementPolicy(policy)
  PROVE  LET m == ApplyTaskTimeoutMitigation(cur, t, policy)
             d == addCappedDuration(cur, policy)
         IN  /\ m.timeout = d
             /\ m.timeouts \in TimeoutFields
             /\ m.timeouts.finally = t.finally
             /\ m.timeouts.tasks = t.tasks \/ (t.tasks # Nil /\ m.timeouts.tasks = d /\ d > t.tasks)
             /\ t.pipeline = Nil => m.timeouts.pipeline = Nil
             /\ t.pipeline # Nil =>
                  /\ m.timeouts.pipeline # Nil /\ m.timeouts.pipeline >= t.pipeline
                  /\ m.timeouts.pipeline >= Value(m.timeouts.tasks) + Value(t.finally)
                  /\ \/ m.timeouts.pipeline = t.pipeline
                     \/ m.timeouts.pipeline = Value(m.timeouts.tasks) + Value(t.finally)
<1> DEFINE d == addCappedDuration(cur, policy)
           around == IF t.tasks # Nil /\ d > t.tasks THEN [t EXCEPT !.tasks = d] ELSE t
           m == ApplyTaskTimeoutMitigation(cur, t, policy)
<1>1. d \in Nat /\ d \in Optional
  BY AddedDuration, NilIsOptional
<1>2. m.timeout = d /\ m.timeouts = enforcePipelineCeiling(around)
  BY DEF ApplyTaskTimeoutMitigation
<1> HIDE DEF d, m
<1>3. /\ around \in TimeoutFields /\ around.finally = t.finally /\ around.pipeline = t.pipeline
      /\ around.tasks = t.tasks \/ (t.tasks # Nil /\ around.tasks = d /\ d > t.tasks)
  BY <1>1 DEF TimeoutFields
<1> HIDE DEF around
<1>4. QED BY <1>2, <1>3, EnforcedCeiling DEF m, d

\* More time for the pipeline and its tasks.
LEMMA PipelineTimeoutMitigated ==
  ASSUME NEW t \in TimeoutFields, NEW policy, IncrementPolicy(policy)
  PROVE  LET m == ApplyPipelineTimeoutMitigation(t, policy)
             more(d) == IF d = Nil THEN Nil ELSE addCappedDuration(d, policy)
         IN  /\ m \in TimeoutFields
             /\ m.finally = t.finally
             /\ m.tasks = more(t.tasks)
             /\ t.pipeline = Nil => m.pipeline = Nil
             /\ t.pipeline # Nil =>
                  /\ m.pipeline # Nil /\ m.pipeline >= more(t.pipeline)
                  /\ m.pipeline >= Value(m.tasks) + Value(t.finally)
                  /\ \/ m.pipeline = more(t.pipeline)
                     \/ m.pipeline = Value(m.tasks) + Value(t.finally)
<1> DEFINE more(d) == IF d = Nil THEN Nil ELSE addCappedDuration(d, policy)
           u == Timeouts(more(t.pipeline), more(t.tasks), t.finally)
           m == ApplyPipelineTimeoutMitigation(t, policy)
<1>1. t.pipeline \in Optional /\ t.tasks \in Optional /\ t.finally \in Optional
  BY FieldsOfTimeouts
<1>2. \A d \in Optional : more(d) \in Optional /\ (more(d) = Nil <=> d = Nil)
  <2>1. \A d \in Optional : addCappedDuration(d, policy) \in Nat
    BY AddedDuration
  <2>2. QED BY <2>1, NilIsOptional
<1>3. m = enforcePipelineCeiling(u)
  BY DEF ApplyPipelineTimeoutMitigation
<1> HIDE DEF more, m
<1>4. /\ u \in TimeoutFields /\ u.pipeline = more(t.pipeline) /\ u.tasks = more(t.tasks)
      /\ u.finally = t.finally
  BY <1>1, <1>2, TimeoutsFields
<1> HIDE DEF u
<1>5. QED BY <1>1, <1>2, <1>3, <1>4, EnforcedCeiling DEF m, more

-----------------------------------------------------------------------------
(* Mitigation of memory. *)

\* The kind of number a policy for memory has.
MultiplyPolicy(policy) ==
  policy.percent \in Nat /\ policy.limit \in Optional /\ policy.request \in Optional

\* A quantity multiplied by more than one is more, also after rounding.
LEMMA MultipliedQuantity ==
  ASSUME NEW q \in Nat, NEW percent \in Nat
  PROVE  /\ multiplyQuantity(q, percent) \in Nat
         /\ percent > 100 /\ q > 0 => multiplyQuantity(q, percent) > q
<1>1. q * percent \in Nat
  OBVIOUS
<1>2. multiplyQuantity(q, percent) \in Nat
  BY <1>1 DEF multiplyQuantity
<1>3. ASSUME percent > 100, q > 0 PROVE multiplyQuantity(q, percent) > q
  <2>1. PICK k \in Nat : percent = 101 + k
    <3>1. percent - 101 \in Nat /\ percent = 101 + (percent - 101)
      BY <1>3
    <3>2. QED BY <3>1
  <2>2. q * percent = 101 * q + q * k
    BY <2>1
  <2>3. q * k \in Nat
    BY <2>1
  <2>4. q * percent + 99 >= 100 * (q + 1)
    BY <1>3, <2>2, <2>3
  <2>5. (q * percent + 99) \div 100 >= q + 1
    BY <1>1, <2>4
  <2>6. QED BY <1>2, <2>5 DEF multiplyQuantity
<1>4. QED BY <1>2, <1>3

\* What a mitigation of memory returns: nothing, or a limit and a request that are
\* within their ceilings and more than before where the ceilings allow it.
LEMMA MemoryMitigated ==
  ASSUME NEW r \in Resources, NEW policy, MultiplyPolicy(policy)
  PROVE  LET m == ApplyMemoryMitigation(r, policy)
             grows(c, d, max) == d > c \/ ~(policy.percent > 100) \/ (max # Nil /\ c >= max)
         IN  /\ m \in Resources
             /\ m.set = FALSE => m = NoResources
             /\ m.set = TRUE =>
                  /\ (r.limit = Nil <=> m.limit = Nil) /\ (r.request = Nil <=> m.request = Nil)
                  /\ policy.limit # Nil => m.limit <= policy.limit
                  /\ r.limit > 0 => grows(r.limit, m.limit, policy.limit)
                  /\ r.request > 0 => grows(r.request, m.request, policy.request)
             /\ r.limit = Nil /\ r.request = Nil => m.set = FALSE
<1> DEFINE more(q, max) == IF q = Nil THEN Nil ELSE Capped(multiplyQuantity(q, policy.percent), max)
           grows(c, d, max) == d > c \/ ~(policy.percent > 100) \/ (max # Nil /\ c >= max)
           m == ApplyMemoryMitigation(r, policy)
<1>1. r.limit \in Optional /\ r.request \in Optional /\ policy.percent \in Nat
      /\ policy.limit \in Optional /\ policy.request \in Optional
  BY DEF Resources, MultiplyPolicy
<1>2. \A q \in Optional, max \in Optional :
        /\ more(q, max) \in Optional
        /\ q = Nil <=> more(q, max) = Nil
        /\ max # Nil => more(q, max) <= max
        /\ q > 0 => grows(q, more(q, max), max)
  <2> TAKE q \in Optional, max \in Optional
  <2>1. CASE q = Nil
    BY <2>1 DEF Nil, Optional
  <2>2. CASE q # Nil
    <3>1. q \in Nat
      BY <2>2 DEF Optional
    <3> DEFINE x == multiplyQuantity(q, policy.percent)
    <3>2. x \in Nat /\ (policy.percent > 100 /\ q > 0 => x > q)
      BY <1>1, <3>1, MultipliedQuantity
    <3> HIDE DEF x
    <3>3. more(q, max) = Capped(x, max)
      BY <2>2 DEF x
    <3>4. QED BY <1>1, <3>1, <3>2, <3>3 DEF Capped, Nil, Optional
  <2>3. QED BY <2>1, <2>2
<1>3. CASE policy.percent = 0 \/ (r.limit = Nil /\ r.request = Nil)
  <2>1. m = NoResources
    BY <1>3 DEF ApplyMemoryMitigation
  <2>2. m \in Resources /\ m.set = FALSE
    BY <2>1, NilIsOptional DEF NoResources, Resources
  <2>3. QED BY <2>1, <2>2
<1>4. CASE ~(policy.percent = 0 \/ (r.limit = Nil /\ r.request = Nil))
  <2>1. m = Memory(more(r.limit, policy.limit), more(r.request, policy.request))
    BY <1>4 DEF ApplyMemoryMitigation
  <2> HIDE DEF more
  <2>2. /\ m \in Resources /\ m.set = TRUE /\ m.limit = more(r.limit, policy.limit)
        /\ m.request = more(r.request, policy.request)
    BY <1>1, <1>2, <2>1 DEF Memory, Resources
  <2> HIDE DEF m, grows
  <2>3. QED BY <1>1, <1>2, <1>4, <2>2 DEF grows, m
<1>5. QED BY <1>3, <1>4

-----------------------------------------------------------------------------
(* Overrides. *)

\* No override is an override.
LEMMA NoOverrideType ==
  /\ NoResources \in Resources /\ NoSteps \in [Steps -> Resources]
  /\ NoOverride \in Override /\ NoSpecs \in [Tasks -> Override]
<1>1. NoResources \in Resources
  BY NilIsOptional DEF NoResources, Resources
<1>2. NoSteps \in [Steps -> Resources]
  BY <1>1 DEF NoSteps
<1>3. NoOverride \in Override
  BY <1>1, <1>2, NilIsOptional DEF NoOverride, Override
<1>4. QED BY <1>1, <1>2, <1>3 DEF NoSpecs

\* What a merge changes: only the entry of one task.
LEMMA MergedSpecs ==
  ASSUME NEW specs \in [Tasks -> Override], NEW task \in Tasks, NEW o \in Override
  PROVE  /\ MergeTaskRunSpecs(specs, task, o) \in [Tasks -> Override]
         /\ \A t \in Tasks \ {task} : MergeTaskRunSpecs(specs, task, o)[t] = specs[t]
<1>1. o.timeout \in Optional /\ o.resources \in Resources /\ o.steps \in [Steps -> Resources]
      /\ specs[task].timeout \in Optional /\ specs[task].resources \in Resources
      /\ specs[task].steps \in [Steps -> Resources]
  BY DEF Override
<1>2. QED BY <1>1, NoOverrideType DEF MergeTaskRunSpecs, Override

\* The override that gives a step more memory, and what the entry of its task
\* becomes: the other steps lose their overrides.
MoreMemory(step, r) == [NoOverride EXCEPT !.steps[step] = r]
WithMemory(o, step, r) ==
  [timeout |-> o.timeout, resources |-> NoResources, steps |-> [NoSteps EXCEPT ![step] = r]]

\* The merge of such an override.
LEMMA MergedMemory ==
  ASSUME NEW specs \in [Tasks -> Override], NEW task \in Tasks, NEW step \in Steps,
         NEW r \in Resources, r.set = TRUE
  PROVE  /\ MoreMemory(step, r) \in Override
         /\ MergeTaskRunSpecs(specs, task, MoreMemory(step, r))[task] =
              WithMemory(specs[task], step, r)
<1> DEFINE o == MoreMemory(step, r)
           merged == MergeTaskRunSpecs(specs, task, o)
<1>1. /\ o \in Override /\ o.timeout = Nil /\ o.resources = NoResources
      /\ o.steps = [NoSteps EXCEPT ![step] = r]
  BY NoOverrideType DEF NoOverride, Override, MoreMemory
<1>2. o.steps[step] = r
  BY <1>1 DEF NoSteps
<1>3. o.steps # NoSteps
  BY <1>2 DEF NoSteps, NoResources
<1>4. o.resources.set = FALSE
  BY <1>1 DEF NoResources
<1> HIDE DEF o
<1>5. merged[task] = [timeout |-> specs[task].timeout, resources |-> NoResources, steps |-> o.steps]
  BY <1>1, <1>3, <1>4 DEF MergeTaskRunSpecs
<1>6. QED BY <1>1, <1>5 DEF o, WithMemory

\* The parts of such an entry.
LEMMA MemoryParts ==
  ASSUME NEW o \in Override, NEW step \in Steps, NEW r \in Resources
  PROVE  /\ WithMemory(o, step, r).timeout = o.timeout
         /\ WithMemory(o, step, r).resources = NoResources
         /\ WithMemory(o, step, r).steps[step] = r
         /\ \A s \in Steps \ {step} : WithMemory(o, step, r).steps[s] = NoResources
BY DEF WithMemory, NoSteps

\* The override that gives a task more time, and what its entry becomes: the
\* memory stays.
MoreTime(d) == [NoOverride EXCEPT !.timeout = d]
WithTime(o, d) == [timeout |-> d, resources |-> o.resources, steps |-> o.steps]

\* The merge of more time for a task.
LEMMA MergedTime ==
  ASSUME NEW specs \in [Tasks -> Override], NEW task \in Tasks, NEW d \in Nat
  PROVE  /\ MoreTime(d) \in Override
         /\ MergeTaskRunSpecs(specs, task, MoreTime(d))[task] = WithTime(specs[task], d)
<1> DEFINE o == MoreTime(d)
           merged == MergeTaskRunSpecs(specs, task, o)
<1>1. d \in Optional /\ d # Nil
  BY DEF Optional, Nil
<1>2. o \in Override /\ o.timeout = d /\ o.resources = NoResources /\ o.steps = NoSteps
  BY <1>1, NoOverrideType DEF NoOverride, Override, MoreTime
<1>3. o.resources.set = FALSE
  BY <1>2 DEF NoResources
<1> HIDE DEF o
<1>4. merged[task] = [timeout |-> d, resources |-> specs[task].resources, steps |-> specs[task].steps]
  BY <1>1, <1>2, <1>3 DEF MergeTaskRunSpecs
<1>5. QED BY <1>2, <1>4 DEF o, WithTime

\* The parts of such an entry.
LEMMA TimeParts ==
  ASSUME NEW o \in Override, NEW d
  PROVE  /\ WithTime(o, d).timeout = d
         /\ WithTime(o, d).resources = o.resources
         /\ WithTime(o, d).steps = o.steps
BY DEF WithTime

\* The lookups return what their types say.
LEMMA LookupTypes ==
  ASSUME NEW specs \in [Tasks -> Override], NEW definition \in Override, NEW task \in Tasks,
         NEW step \in Steps
  PROVE  /\ GetStepComputeResources(specs, definition, task, step) \in Resources
         /\ GetTaskRunTimeout(specs, definition, task) \in Optional
<1>1. /\ specs[task].timeout \in Optional /\ specs[task].resources \in Resources
      /\ specs[task].steps[step] \in Resources /\ definition.steps[step] \in Resources
      /\ definition.timeout \in Optional
  BY DEF Override
<1>2. specs[task].steps[step].set \in BOOLEAN /\ specs[task].resources.set \in BOOLEAN
  BY <1>1 DEF Resources
<1>3. QED BY <1>1, <1>2 DEF GetStepComputeResources, GetTaskRunTimeout
=============================================================================
