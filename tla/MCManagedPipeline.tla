-------------------------- MODULE MCManagedPipeline --------------------------
(* Small instances of ManagedPipeline for TLC. *)
EXTENDS ManagedPipeline, TLC

\* Two tasks with two steps.  The first task has a timeout and memory of its own.
MCDefinition ==
  ("push" :> [timeout |-> 50, resources |-> NoResources,
              steps |-> ("upload" :> Memory(60, 30) @@ "sign" :> Memory(60, Nil))])
  @@ ("check" :> NoOverride)

MCDefaultTimeouts == Timeouts(120, 100, Nil)

Ref(valid, sha, token) == [valid |-> valid, sha |-> sha, token |-> token]

Plain(t) == [specs |-> NoSpecs, timeouts |-> t, ref |-> Ref(TRUE, FALSE, FALSE)]

\* Pipelines with timeouts of several kinds (short, unset, zero, finally alone,
\* zero alone),
\* with overrides of a task and of a step, and with every kind of git reference.
MCPipelines ==
  {Plain(Timeouts(60, 50, Nil)), Plain(Timeouts(15, 20, 10)), Plain(Timeouts(0, 40, 0)),
   Plain(Timeouts(Nil, 45, 15)), Plain(Timeouts(3, 3, 1)), Plain(Timeouts(70, Nil, Nil)),
   Plain(Timeouts(Nil, 0, Nil)),
   [specs    |-> [NoSpecs EXCEPT !["push"].resources = Memory(100, 80),
                                 !["check"].timeout = 20],
    timeouts |-> Timeouts(80, Nil, 20),
    ref      |-> Ref(TRUE, FALSE, TRUE)],
   [specs    |-> [NoSpecs EXCEPT !["push"].steps["upload"] = Memory(100, 80)],
    timeouts |-> Timeouts(Nil, Nil, 15),
    ref      |-> Ref(TRUE, TRUE, FALSE)],
   [specs    |-> NoSpecs,
    timeouts |-> NoTimeouts,
    ref      |-> Ref(FALSE, FALSE, FALSE)]}

Increment(n, max) == [on |-> TRUE, increment |-> n, max |-> max]
NoIncrement == [on |-> FALSE, increment |-> 0, max |-> Nil]
Multiply(percent, limit, request) ==
  [on |-> TRUE, percent |-> percent, limit |-> limit, request |-> request]
NoMultiply == [on |-> FALSE, percent |-> 0, limit |-> Nil, request |-> Nil]

Ceilings(n) == [maxRetries |-> n, memory |-> Multiply(150, 200, 50),
                task |-> Increment(30, 100), pipeline |-> Increment(30, 100)]

MCPolicies ==
  {Ceilings(2),
   [maxRetries |-> 1, memory |-> Multiply(101, Nil, Nil),
    task |-> Increment(5, Nil), pipeline |-> Increment(5, Nil)],
   [maxRetries |-> 1, memory |-> NoMultiply, task |-> NoIncrement, pipeline |-> Increment(30, 60)],
   [maxRetries |-> 1, memory |-> NoMultiply, task |-> NoIncrement, pipeline |-> Increment(30, 0)],
   [maxRetries |-> 1, memory |-> NoMultiply, task |-> NoIncrement, pipeline |-> NoIncrement]}

Child(task, result, step) == [task |-> task, result |-> result, step |-> step]

Failure(timedOut, children) == [timedOut |-> timedOut, children |-> children]

MCOutcomes ==
  {Failure(FALSE, <<Child("push", "oom", "upload")>>),
   Failure(FALSE, <<Child("push", "oom", "sign")>>),
   Failure(FALSE, <<Child("check", "succeeded", "sign"), Child("push", "timeout", "upload")>>),
   Failure(FALSE, <<Child("check", "timeout", "sign"), Child("push", "oom", "upload")>>),
   Failure(FALSE, <<Child("check", "error", "sign"), Child("push", "oom", "sign")>>),
   Failure(TRUE, <<Child("check", "error", "sign")>>)}
=============================================================================
