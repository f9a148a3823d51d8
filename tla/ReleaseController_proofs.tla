----------------------- MODULE ReleaseController_proofs -----------------------
(***************************************************************************)
(* Proofs about ReleaseController for every set of plans, every bound and  *)
(* with or without lagging caches.                                         *)
(***************************************************************************)
EXTENDS ReleaseController, TLAPS

\* A pipeline that is not planned is never begun, only skipped.
Unplanned(r) ==
  \A p \in Phases : ~Planned(p) => r.conds[p] \in {"unset", "skipped"}

\* A Release, unlike a phase, is never skipped.
NotSkipped(r) == r.conds["released"] # "skipped"

\* What holds of every copy of the Release, however old.
Consistent(r) ==
  InOrder(r) /\ Reports(r) /\ Unplanned(r) /\ EverythingSucceeded(r) /\ NotSkipped(r)

-----------------------------------------------------------------------------
(* The status functions. *)

\* SetCondition changes one condition and keeps the type (meta.SetStatusCondition).
LEMMA SetConditionType ==
  ASSUME NEW r \in Release, NEW c \in ConditionTypes, NEW v \in ConditionValues
  PROVE  /\ SetCondition(r, c, v) \in Release
         /\ SetCondition(r, c, v).conds = [r.conds EXCEPT ![c] = v]
BY DEF SetCondition, Release

\* The condition types are the phases, Validated and Released, all distinct.
LEMMA PhaseTypes == Phases \subseteq ConditionTypes /\ "released" \in ConditionTypes
                    /\ "validated" \in ConditionTypes
                    /\ "released" \notin Phases /\ "validated" \notin Phases
                    /\ \A p \in Phases : Before(p) \subseteq Phases
BY DEF Phases, ConditionTypes, Before

\* Every Mark function of release_types.go returns a Release.
LEMMA MarkTypes ==
  ASSUME NEW r \in Release, NEW p \in Phases
  PROVE  /\ MarkPipelineProcessing(r, p) \in Release
         /\ MarkPipelineProcessed(r, p) \in Release
         /\ MarkPipelineProcessingFailed(r, p) \in Release
         /\ MarkPipelineProcessingSkipped(r, p) \in Release
         /\ MarkReleasing(r) \in Release
         /\ MarkReleased(r) \in Release
         /\ MarkReleaseFailed(r) \in Release
         /\ MarkValidated(r) \in Release
         /\ MarkValidationFailed(r) \in Release
BY SetConditionType, PhaseTypes
   DEF MarkPipelineProcessing, MarkPipelineProcessed, MarkPipelineProcessingFailed,
       MarkPipelineProcessingSkipped, MarkReleasing, MarkReleased, MarkReleaseFailed,
       MarkValidated, MarkValidationFailed, ConditionValues

\* A phase may begin, or be skipped, when the phases before it have finished.
Ready(r, p) == \A q \in Before(p) : r.conds[q] \in {"succeeded", "failed", "skipped"}

\* A planned phase whose predecessors have finished may be marked as processing.
LEMMA BeginConsistent ==
  ASSUME NEW r \in Release, NEW p \in Phases, Consistent(r), Ready(r, p), Planned(p)
  PROVE  Consistent(MarkPipelineProcessing(r, p))
<1>1. CASE hasPhaseFinished(r, p)
  BY <1>1 DEF MarkPipelineProcessing
<1>2. CASE ~hasPhaseFinished(r, p)
  <2> DEFINE s == SetCondition(r, p, "progressing")
  <2>1. s \in Release /\ s.conds = [r.conds EXCEPT ![p] = "progressing"]
    BY SetConditionType, PhaseTypes DEF ConditionValues
  <2> HIDE DEF s
  <2>2. InOrder(s)
    BY <2>1, <1>2, PhaseTypes DEF Consistent, InOrder, Ready, hasPhaseFinished, Release, Phases, Before
  <2>3. Reports(s)
    BY <2>1, PhaseTypes DEF Consistent, Reports, Release
  <2>4. Unplanned(s)
    BY <2>1, PhaseTypes DEF Consistent, Unplanned, Release
  <2>5. EverythingSucceeded(s) /\ NotSkipped(s)
    BY <2>1, <1>2, PhaseTypes DEF Consistent, EverythingSucceeded, NotSkipped, hasPhaseFinished, Release
  <2>6. QED
    BY <1>2, <2>2, <2>3, <2>4, <2>5 DEF Consistent, MarkPipelineProcessing, s
<1>3. QED BY <1>1, <1>2

\* A phase that is processing may be marked as processed.
LEMMA SucceedConsistent ==
  ASSUME NEW r \in Release, NEW p \in Phases, Consistent(r)
  PROVE  Consistent(MarkPipelineProcessed(r, p))
<1>1. CASE ~isPhaseProgressing(r, p)
  BY <1>1 DEF MarkPipelineProcessed
<1>2. CASE isPhaseProgressing(r, p)
  <2> DEFINE s == SetCondition(r, p, "succeeded")
  <2>1. s \in Release /\ s.conds = [r.conds EXCEPT ![p] = "succeeded"]
    BY SetConditionType, PhaseTypes DEF ConditionValues
  <2> HIDE DEF s
  <2>2. InOrder(s)
    BY <2>1, <1>2, PhaseTypes DEF Consistent, InOrder, isPhaseProgressing, Release, Phases, Before
  <2>3. Reports(s)
    BY <2>1, PhaseTypes DEF Consistent, Reports, Release
  <2>4. Unplanned(s)
    BY <2>1, <1>2, PhaseTypes DEF Consistent, Unplanned, isPhaseProgressing, Release
  <2>5. EverythingSucceeded(s) /\ NotSkipped(s)
    BY <2>1, <1>2, PhaseTypes DEF Consistent, EverythingSucceeded, NotSkipped, isPhaseProgressing, Release
  <2>6. QED
    BY <1>2, <2>2, <2>3, <2>4, <2>5 DEF Consistent, MarkPipelineProcessed, s
<1>3. QED BY <1>1, <1>2

\* A phase may be skipped when it is its turn and it is not planned, or the
\* Release has failed.
LEMMA SkipConsistent ==
  ASSUME NEW r \in Release, NEW p \in Phases, Consistent(r), Ready(r, p),
         Planned(p) => IsFailed(r)
  PROVE  Consistent(MarkPipelineProcessingSkipped(r, p))
<1>1. CASE hasPhaseFinished(r, p)
  BY <1>1 DEF MarkPipelineProcessingSkipped
<1>2. CASE ~hasPhaseFinished(r, p)
  <2> DEFINE s == SetCondition(r, p, "skipped")
  <2>1. s \in Release /\ s.conds = [r.conds EXCEPT ![p] = "skipped"]
    BY SetConditionType, PhaseTypes DEF ConditionValues
  <2> HIDE DEF s
  <2>2. InOrder(s)
    BY <2>1, <1>2, PhaseTypes DEF Consistent, InOrder, Ready, hasPhaseFinished, Release, Phases, Before
  <2>3. Reports(s)
    BY <2>1, PhaseTypes DEF Consistent, Reports, IsFailed, Release
  <2>4. Unplanned(s)
    BY <2>1, PhaseTypes DEF Consistent, Unplanned, Release
  <2>5. EverythingSucceeded(s) /\ NotSkipped(s)
    BY <2>1, <1>2, PhaseTypes DEF Consistent, EverythingSucceeded, NotSkipped, hasPhaseFinished, Release
  <2>6. QED
    BY <1>2, <2>2, <2>3, <2>4, <2>5 DEF Consistent, MarkPipelineProcessingSkipped, s
<1>3. QED BY <1>1, <1>2

\* The Release has been marked as releasing, or more.
Begun(r) == r.conds["released"] # "unset"

\* Marks of the Release itself leave the phases alone.
LEMMA ReleaseMarksConsistent ==
  ASSUME NEW r \in Release, Consistent(r)
  PROVE  /\ Consistent(MarkReleasing(r))
         /\ Consistent(MarkReleaseFailed(r))
         /\ Consistent(MarkValidated(r))
         /\ Consistent(MarkValidationFailed(r))
<1>1. ASSUME NEW s \in Release,
             \/ s.conds = r.conds
             \/ \E v \in ConditionValues : s.conds = [r.conds EXCEPT !["validated"] = v]
             \/ s.conds = [r.conds EXCEPT !["released"] = "failed"]
             \/ ~HasReleaseFinished(r) /\ s.conds = [r.conds EXCEPT !["released"] = "progressing"]
      PROVE  Consistent(s)
  <2>1. \A p \in Phases : s.conds[p] = r.conds[p]
    BY <1>1, PhaseTypes DEF Release
  <2>2. \/ s.conds["released"] \in {r.conds["released"], "failed"}
        \/ ~HasReleaseFinished(r) /\ s.conds["released"] = "progressing"
    BY <1>1, PhaseTypes DEF Release
  <2>3. InOrder(s) /\ Unplanned(s)
    BY <2>1, PhaseTypes DEF Consistent, InOrder, Unplanned
  <2>4. Reports(s) /\ EverythingSucceeded(s) /\ NotSkipped(s)
    BY <2>1, <2>2
       DEF Consistent, Reports, EverythingSucceeded, NotSkipped, HasReleaseFinished, hasPhaseFinished
  <2>5. QED BY <2>3, <2>4 DEF Consistent
<1>2. QED
  BY <1>1, SetConditionType, PhaseTypes
     DEF MarkReleasing, MarkReleaseFailed, MarkValidated, MarkValidationFailed, ConditionValues

\* A phase and the Release fail together.
LEMMA FailConsistent ==
  ASSUME NEW r \in Release, NEW p \in Phases, Consistent(r), Begun(r)
  PROVE  Consistent(MarkReleaseFailed(MarkPipelineProcessingFailed(r, p)))
<1> DEFINE s == MarkPipelineProcessingFailed(r, p)
           t == MarkReleaseFailed(s)
<1>1. CASE ~isPhaseProgressing(r, p)
  BY <1>1, ReleaseMarksConsistent DEF MarkPipelineProcessingFailed
<1>2. CASE isPhaseProgressing(r, p)
  <2>1. s \in Release /\ s.conds = [r.conds EXCEPT ![p] = "failed"]
    BY <1>2, SetConditionType, PhaseTypes DEF MarkPipelineProcessingFailed, ConditionValues
  <2>2. r.conds["released"] \in {"progressing", "failed"}
    BY <1>2, PhaseTypes DEF Begun, Consistent, Reports, Unplanned, EverythingSucceeded, NotSkipped, isPhaseProgressing,
       Release, ConditionValues, IsFailed
  <2>3. t \in Release /\ t.conds = [s.conds EXCEPT !["released"] = "failed"]
    <3> HIDE DEF s
    <3>1. CASE IsReleasing(s)
      BY <2>1, <3>1, SetConditionType, PhaseTypes DEF MarkReleaseFailed, ConditionValues
    <3>2. CASE ~IsReleasing(s)
      BY <2>1, <2>2, <3>2, PhaseTypes DEF MarkReleaseFailed, IsReleasing, isPhaseProgressing, Release
    <3>3. QED BY <3>1, <3>2
  <2> HIDE DEF s, t
  <2>4. InOrder(t)
    BY <2>1, <2>3, <1>2, PhaseTypes DEF Consistent, InOrder, isPhaseProgressing, Release, Phases, Before
  <2>5. Reports(t) /\ EverythingSucceeded(t) /\ NotSkipped(t)
    BY <2>1, <2>3, PhaseTypes DEF Reports, EverythingSucceeded, NotSkipped, Release
  <2>6. Unplanned(t)
    BY <2>1, <2>3, <1>2, PhaseTypes DEF Consistent, Unplanned, isPhaseProgressing, Release
  <2>7. QED BY <2>4, <2>5, <2>6 DEF Consistent, s, t
<1>3. QED BY <1>1, <1>2

\* EnsureReleaseIsCompleted needs to look at the final phase alone.
LEMMA ReleasedConsistent ==
  ASSUME NEW r \in Release, Consistent(r), IsProcessedSuccessfully(r, "final")
  PROVE  Consistent(MarkReleased(r))
<1>1. CASE ~IsReleasing(r)
  BY <1>1 DEF MarkReleased
<1>2. CASE IsReleasing(r)
  <2> DEFINE s == SetCondition(r, "released", "succeeded")
  <2>1. s \in Release /\ s.conds = [r.conds EXCEPT !["released"] = "succeeded"]
    BY SetConditionType, PhaseTypes DEF ConditionValues
  <2> HIDE DEF s
  <2>2. \A p \in Phases : r.conds[p] \in {"succeeded", "failed", "skipped"}
    BY DEF Consistent, InOrder, IsProcessedSuccessfully, Phases, Before
  <2>3. \A p \in Phases : r.conds[p] = IF Planned(p) THEN "succeeded" ELSE "skipped"
    BY <1>2, <2>2 DEF Consistent, Reports, Unplanned, IsReleasing, isPhaseProgressing
  <2>4. InOrder(s) /\ Reports(s) /\ Unplanned(s) /\ EverythingSucceeded(s) /\ NotSkipped(s)
    BY <2>1, <2>3, PhaseTypes
       DEF Consistent, InOrder, Reports, Unplanned, EverythingSucceeded, NotSkipped, Release
  <2>5. QED
    BY <1>2, <2>4 DEF Consistent, MarkReleased, s
<1>3. QED BY <1>1, <1>2

-----------------------------------------------------------------------------
(* The attempts of the managed pipeline. *)

\* Replacing one element keeps the type and the length of a sequence.
LEMMA SeqUpdate ==
  ASSUME NEW S, NEW s \in Seq(S), NEW n \in 1 .. Len(s), NEW x \in S
  PROVE  /\ [s EXCEPT ![n] = x] \in Seq(S)
         /\ Len([s EXCEPT ![n] = x]) = Len(s)
OBVIOUS

\* Changing the current attempt changes no condition.
LEMMA AttemptUpdate ==
  ASSUME NEW r \in Release, Len(r.attempts) > 0,
         NEW st \in {"progressing", "succeeded", "failed"}, NEW b \in BOOLEAN
  PROVE  LET n == Len(r.attempts)
             s == [r EXCEPT !.attempts[n].status = st]
             t == [r EXCEPT !.attempts[n].status = st, !.attempts[n].retriable = b]
         IN  s \in Release /\ s.conds = r.conds /\ t \in Release /\ t.conds = r.conds
<1> DEFINE n == Len(r.attempts)
           a == r.attempts[n]
           x == [a EXCEPT !.status = st]
           y == [x EXCEPT !.retriable = b]
<1>1. n \in 1 .. Len(r.attempts) /\ a \in Attempt
  BY DEF Release
<1>2. x \in Attempt /\ y \in Attempt
  BY <1>1 DEF Attempt
<1>3. /\ [r.attempts EXCEPT ![n] = x] \in Seq(Attempt)
      /\ [r.attempts EXCEPT ![n] = y] \in Seq(Attempt)
  BY <1>1, <1>2, SeqUpdate DEF Release
<1>4. QED
  BY <1>1, <1>2, <1>3 DEF Release

\* A copy with the same conditions is as consistent.
LEMMA SameConditions ==
  ASSUME NEW r, NEW s, s.conds = r.conds
  PROVE  /\ Consistent(r) => Consistent(s)
         /\ Begun(r) => Begun(s)
         /\ \A p : Ready(r, p) => Ready(s, p)
         /\ \A p : hasPhaseFinished(s, p) = hasPhaseFinished(r, p)
         /\ \A p : isPhaseProgressing(s, p) = isPhaseProgressing(r, p)
BY DEF Consistent, InOrder, Reports, Unplanned, EverythingSucceeded, NotSkipped, Begun, Ready,
       hasPhaseFinished, isPhaseProgressing

\* registerManagedProcessingData keeps a Release consistent when it is the turn of
\* the managed phase.
LEMMA RegisterAttemptConsistent ==
  ASSUME NEW r \in Release, NEW b \in Nat, Consistent(r), Ready(r, "managed"),
         Planned("managed"), ~hasPhaseFinished(r, "managed")
  PROVE  /\ RegisterAttempt(r, b) \in Release
         /\ Consistent(RegisterAttempt(r, b))
         /\ Begun(r) => Begun(RegisterAttempt(r, b))
<1> DEFINE x == [status |-> "progressing", retriable |-> FALSE, roleBinding |-> b]
           s == [r EXCEPT !.attempts = Append(r.attempts, x)]
           t == [s EXCEPT !.attempts[Len(s.attempts)].status = "progressing"]
<1>1. x \in Attempt
  BY DEF Attempt
<1>2. s \in Release /\ s.conds = r.conds /\ Len(s.attempts) > 0
  <2> HIDE DEF x
  <2>1. r.attempts \in Seq(Attempt)
    BY DEF Release
  <2>2. Append(r.attempts, x) \in Seq(Attempt) /\ Len(Append(r.attempts, x)) > 0
    BY <1>1, <2>1
  <2>3. QED BY <2>2 DEF Release
<1>3. t \in Release /\ t.conds = r.conds
  BY <1>2, AttemptUpdate
<1> HIDE DEF t, s, x
<1>4. Consistent(t) /\ Ready(t, "managed") /\ ~hasPhaseFinished(t, "managed")
  BY <1>3, SameConditions
<1>5. "managed" \in Phases
  BY DEF Phases
<1>6. MarkPipelineProcessing(t, "managed") = SetCondition(t, "managed", "progressing")
  BY <1>4 DEF MarkPipelineProcessing
<1>7. RegisterAttempt(r, b) = SetCondition(t, "managed", "progressing")
  <2>1. ~IsProcessedSuccessfully(s, "managed")
    BY <1>2 DEF IsProcessedSuccessfully, hasPhaseFinished
  <2>2. RegisterAttempt(r, b) = MarkCurrentManagedPipelineAttemptProcessing(s)
    BY DEF RegisterAttempt, s, x
  <2>3. Len(s.attempts) # 0
    BY <1>2
  <2>4. QED
    BY <2>1, <2>2, <2>3 DEF MarkCurrentManagedPipelineAttemptProcessing, t
<1>8. Consistent(SetCondition(t, "managed", "progressing"))
  BY <1>3, <1>4, <1>5, <1>6, BeginConsistent
<1>9. /\ SetCondition(t, "managed", "progressing") \in Release
      /\ SetCondition(t, "managed", "progressing").conds = [r.conds EXCEPT !["managed"] = "progressing"]
  <2>1. "managed" \in ConditionTypes /\ "progressing" \in ConditionValues
    BY <1>5, PhaseTypes DEF ConditionValues
  <2>2. /\ SetCondition(t, "managed", "progressing") \in Release
        /\ SetCondition(t, "managed", "progressing").conds = [t.conds EXCEPT !["managed"] = "progressing"]
    BY <1>3, <2>1, SetConditionType
  <2>3. QED BY <1>3, <2>2
<1>10. QED
  BY <1>7, <1>8, <1>9, PhaseTypes DEF Begun, Release, Phases

\* The success of the current attempt is the success of the managed phase.
LEMMA AttemptProcessedConsistent ==
  ASSUME NEW r \in Release, Consistent(r)
  PROVE  /\ MarkCurrentManagedPipelineAttemptProcessed(r) \in Release
         /\ Consistent(MarkCurrentManagedPipelineAttemptProcessed(r))
         /\ Begun(r) => Begun(MarkCurrentManagedPipelineAttemptProcessed(r))
<1> DEFINE new == MarkCurrentManagedPipelineAttemptProcessed(r)
           s == [r EXCEPT !.attempts[Len(r.attempts)].status = "succeeded"]
<1>1. CASE new = r
  BY <1>1
<1>2. CASE new # r
  <2>1. /\ isPhaseProgressing(r, "managed") /\ Len(r.attempts) > 0
        /\ new = SetCondition(s, "managed", "succeeded")
    BY <1>2 DEF MarkCurrentManagedPipelineAttemptProcessed, Release
  <2>2. s \in Release /\ s.conds = r.conds
    BY <2>1, AttemptUpdate
  <2> HIDE DEF s, new
  <2>3. Consistent(s) /\ isPhaseProgressing(s, "managed")
    BY <2>1, <2>2, SameConditions
  <2>4. new = MarkPipelineProcessed(s, "managed")
    BY <2>1, <2>3 DEF MarkPipelineProcessed
  <2>5. /\ SetCondition(s, "managed", "succeeded") \in Release
        /\ SetCondition(s, "managed", "succeeded").conds = [r.conds EXCEPT !["managed"] = "succeeded"]
    <3>1. "managed" \in ConditionTypes /\ "succeeded" \in ConditionValues
      BY DEF ConditionTypes, Phases, ConditionValues
    <3>2. /\ SetCondition(s, "managed", "succeeded") \in Release
          /\ SetCondition(s, "managed", "succeeded").conds = [s.conds EXCEPT !["managed"] = "succeeded"]
      BY <2>2, <3>1, SetConditionType
    <3>3. QED BY <2>2, <3>2
  <2>6. new \in Release /\ Consistent(new)
    BY <2>1, <2>2, <2>3, <2>4, <2>5, SucceedConsistent DEF Phases
  <2>7. Begun(r) => Begun(new)
    BY <2>1, <2>5, PhaseTypes DEF Begun, Release, Phases
  <2>8. QED BY <2>6, <2>7 DEF new
<1>3. QED BY <1>1, <1>2

\* The failure of an attempt alone changes no condition.
LEMMA AttemptFailedConsistent ==
  ASSUME NEW r \in Release, Consistent(r), NEW retriable \in BOOLEAN
  PROVE  /\ MarkCurrentManagedPipelineAttemptFailed(r, retriable) \in Release
         /\ Consistent(MarkCurrentManagedPipelineAttemptFailed(r, retriable))
         /\ Begun(r) => Begun(MarkCurrentManagedPipelineAttemptFailed(r, retriable))
<1> DEFINE new == MarkCurrentManagedPipelineAttemptFailed(r, retriable)
<1>1. new \in Release /\ new.conds = r.conds
  <2>1. CASE new = r
    BY <2>1
  <2>2. CASE new # r
    <3>1. Len(r.attempts) > 0
      BY <2>2 DEF MarkCurrentManagedPipelineAttemptFailed, Release
    <3>2. QED
      BY <2>2, <3>1, AttemptUpdate DEF MarkCurrentManagedPipelineAttemptFailed
  <2>3. QED BY <2>1, <2>2
<1> HIDE DEF new
<1>2. Consistent(new) /\ (Begun(r) => Begun(new))
  BY <1>1, SameConditions
<1>3. QED BY <1>1, <1>2 DEF new

\* No mark takes the condition of the Release back to unset.
LEMMA MarksBegun ==
  ASSUME NEW r \in Release, NEW p \in Phases
  PROVE  /\ Begun(r) => Begun(MarkPipelineProcessing(r, p))
         /\ Begun(r) => Begun(MarkPipelineProcessed(r, p))
         /\ Begun(r) => Begun(MarkPipelineProcessingFailed(r, p))
         /\ Begun(r) => Begun(MarkPipelineProcessingSkipped(r, p))
         /\ Begun(r) => Begun(MarkReleaseFailed(r))
         /\ Begun(r) => Begun(MarkReleased(r))
         /\ Begun(r) => Begun(MarkValidated(r))
         /\ Begun(r) => Begun(MarkValidationFailed(r))
         /\ Begun(MarkReleasing(r))
<1>1. ASSUME NEW v \in ConditionValues
      PROVE  /\ Begun(r) => Begun(SetCondition(r, p, v))
             /\ Begun(r) => Begun(SetCondition(r, "validated", v))
             /\ v # "unset" => Begun(SetCondition(r, "released", v))
  <2>1. ASSUME NEW c \in ConditionTypes
        PROVE  SetCondition(r, c, v).conds["released"]
                 = IF c = "released" THEN v ELSE r.conds["released"]
    <3>1. SetCondition(r, c, v).conds = [r.conds EXCEPT ![c] = v]
      BY SetConditionType
    <3>2. QED BY <3>1, PhaseTypes DEF Release
  <2>2. p \in ConditionTypes /\ p # "released"
    BY PhaseTypes
  <2>3. QED BY <2>1, <2>2, PhaseTypes DEF Begun
<1>2. HasReleaseFinished(r) => Begun(r)
  BY DEF HasReleaseFinished, hasPhaseFinished, Begun
<1>3. QED
  BY <1>1, <1>2
     DEF MarkPipelineProcessing, MarkPipelineProcessed, MarkPipelineProcessingFailed,
         MarkPipelineProcessingSkipped, MarkReleasing, MarkReleased, MarkReleaseFailed,
         MarkValidated, MarkValidationFailed, ConditionValues

\* handlePipelineCreationError fails the phase together with the Release.
LEMMA FailPhaseConsistent ==
  ASSUME NEW r \in Release, NEW p \in Phases, Consistent(r), Ready(r, p), Planned(p), Begun(r)
  PROVE  FailPhase(r, p) \in Release /\ Consistent(FailPhase(r, p)) /\ Begun(FailPhase(r, p))
<1> DEFINE s == MarkPipelineProcessing(r, p)
<1>1. s \in Release /\ Consistent(s) /\ Begun(s)
  BY MarkTypes, BeginConsistent, MarksBegun
<1> HIDE DEF s
<1> DEFINE t == MarkPipelineProcessingFailed(s, p)
<1>2. t \in Release /\ Begun(t)
  BY <1>1, MarkTypes, MarksBegun
<1>3. Consistent(MarkReleaseFailed(t))
  BY <1>1, FailConsistent
<1> HIDE DEF t
<1>4. MarkReleaseFailed(t) \in Release /\ Begun(MarkReleaseFailed(t))
  BY <1>2, MarkTypes, MarksBegun
<1>5. FailPhase(r, p) = MarkReleaseFailed(t)
  BY DEF FailPhase, s, t
<1>6. QED BY <1>3, <1>4, <1>5

-----------------------------------------------------------------------------
(* The invariant. *)

\* The operations that follow EnsureReleaseIsRunning.
AfterRunning ==
  Operations \ {"FinalizersAreCalled", "ConfigIsLoaded", "CollectorsCleanedUp",
                "ProcessingCleanedUp", "ReleaseIsRunning"}

Good(r) == r \in Release /\ Consistent(r)

\* What the adapter has created is typed, and only planned pipelines are run.
ObjectsOK ==
  /\ runs \subseteq PipelineRun
  /\ \A x \in runs : Planned(x.phase)
  /\ bindings \subseteq RoleBinding
  /\ made \in Nat

\* All copies of the Release are consistent.  A phase is failed only together
\* with the Release, which needs a Release that was marked as releasing.
Inv ==
  /\ TypeOK
  /\ ObjectsOK
  /\ Consistent(rel) /\ Consistent(cache) /\ Consistent(mem)
  /\ pc \in AfterRunning => Begun(mem)
  /\ Begun(cache) \/ Begun(mem) => Begun(rel)

\* A Release as its author creates it is consistent and not begun.
LEMMA NewReleaseGood == Good(NewRelease) /\ ~Begun(NewRelease)
<1>1. NewRelease.conds = [c \in ConditionTypes |-> "unset"]
  BY DEF NewRelease
<1>2. NewRelease \in Release
  BY DEF NewRelease, Release, ConditionValues
<1>3. QED
  BY <1>1, <1>2, PhaseTypes
     DEF Good, Consistent, InOrder, Reports, Unplanned, EverythingSucceeded, NotSkipped, Begun

\* The invariant holds when the Release is created.
LEMMA InvInit == Init => Inv
<1> SUFFICES ASSUME Init PROVE Inv
  OBVIOUS
<1>1. TypeOK
  BY NewReleaseGood, BoundsAssumption DEF Init, TypeOK, Good
<1>2. ObjectsOK
  BY DEF Init, ObjectsOK
<1>3. QED
  BY <1>1, <1>2, NewReleaseGood DEF Init, Inv, Good, AfterRunning, Operations

\* plan does not change during a reconcile, nor does what is consistent with it.
LEMMA ConsistentNext ==
  ASSUME plan' = plan
  PROVE  /\ Consistent(rel') => Consistent(rel)'
         /\ Consistent(cache') => Consistent(cache)'
         /\ Consistent(mem') => Consistent(mem)'
BY DEF Consistent, InOrder, Reports, Unplanned, EverythingSucceeded, NotSkipped, Planned

\* A step of an operation that goes on to op with the copy r.
LEMMA ContinueStep ==
  ASSUME Inv, UNCHANGED environment, NEW op \in Operations, NEW r,
         ContinueWith(op, r), Good(r), Good(rel'), cache' \in {cache, rel'},
         Begun(rel) => Begun(rel'), op \in AfterRunning => Begun(r), Begun(r) => Begun(rel'),
         queued' \in BOOLEAN, ObjectsOK', faults' \in 0 .. MaxFaults
  PROVE  Inv'
<1>1. pc' = op /\ mem' = r
  BY DEF ContinueWith
<1>2. plan' = plan /\ admission' = admission /\ disruptions' = disruptions
  BY DEF environment
<1>3. Good(cache') /\ Good(mem') /\ Good(rel')
  BY <1>1 DEF Inv, TypeOK, Good
<1>4. TypeOK'
  BY <1>1, <1>2, <1>3 DEF Inv, TypeOK, Good, ObjectsOK
<1>5. Consistent(rel)' /\ Consistent(cache)' /\ Consistent(mem)'
  BY <1>2, <1>3, ConsistentNext DEF Good
<1>6. (pc \in AfterRunning => Begun(mem))'
  BY <1>1 DEF AfterRunning, Operations, Begun
<1>7. (Begun(cache) \/ Begun(mem) => Begun(rel))'
  BY <1>1 DEF Inv, Begun
<1>8. QED BY <1>4, <1>5, <1>6, <1>7 DEF Inv

\* A step that ends the reconcile.
LEMMA EndStep ==
  ASSUME Inv, UNCHANGED environment, StopProcessing, Good(rel'), cache' \in {cache, rel'},
         Begun(rel) => Begun(rel'), queued' \in BOOLEAN, ObjectsOK', faults' \in 0 .. MaxFaults
  PROVE  Inv'
<1>1. pc' = "idle" /\ mem' = NewRelease
  BY DEF StopProcessing
<1>2. plan' = plan /\ admission' = admission /\ disruptions' = disruptions
  BY DEF environment
<1>3. Good(cache') /\ Good(mem') /\ Good(rel')
  BY <1>1, NewReleaseGood DEF Inv, TypeOK, Good
<1>4. TypeOK'
  BY <1>1, <1>2, <1>3 DEF Inv, TypeOK, Good, ObjectsOK
<1>5. Consistent(rel)' /\ Consistent(cache)' /\ Consistent(mem)'
  BY <1>2, <1>3, ConsistentNext DEF Good
<1>6. (pc \in AfterRunning => Begun(mem))'
  BY <1>1 DEF AfterRunning, Operations
<1>7. (Begun(cache) \/ Begun(mem) => Begun(rel))'
  BY <1>1, NewReleaseGood DEF Inv, Begun
<1>8. QED BY <1>4, <1>5, <1>6, <1>7 DEF Inv

-----------------------------------------------------------------------------
(* The ways in which operations end. *)

\* Steps that touch no PipelineRun and no RoleBinding keep ObjectsOK.
LEMMA ObjectsKept ==
  ASSUME Inv, UNCHANGED environment, UNCHANGED objects
  PROVE  ObjectsOK'
BY DEF Inv, ObjectsOK, objects, environment, Planned

\* The faults never exceed their bound.
LEMMA FaultType ==
  ASSUME Inv, Fault
  PROVE  faults' \in 0 .. MaxFaults
BY BoundsAssumption DEF Inv, TypeOK, Fault

\* All three copies of the Release are typed and consistent.
LEMMA RelGood == Inv => Good(rel) /\ Good(cache) /\ Good(mem)
BY DEF Inv, TypeOK, Good

\* An operation that only continues preserves the invariant.
LEMMA PassStep ==
  ASSUME Inv, UNCHANGED environment, NEW op \in Operations, op \in AfterRunning => Begun(mem),
         Pass(op)
  PROVE  Inv'
<1>1. ObjectsOK'
  BY ObjectsKept DEF Pass
<1>2. Good(mem) /\ Good(rel') /\ cache' \in {cache, rel'}
  BY RelGood DEF Pass
<1>3. /\ Begun(rel) => Begun(rel')
      /\ Begun(mem) => Begun(rel')
      /\ queued' \in BOOLEAN /\ faults' \in 0 .. MaxFaults
  BY DEF Pass, Inv, TypeOK
<1>4. ContinueWith(op, mem)
  BY DEF Pass
<1>5. QED BY <1>1, <1>2, <1>3, <1>4, ContinueStep

\* So does one that requeues without writing the Release,
LEMMA RequeueStep ==
  ASSUME Inv, UNCHANGED environment, Requeue, UNCHANGED <<rel, cache>>, ObjectsOK',
         faults' \in 0 .. MaxFaults
  PROVE  Inv'
<1>1. StopProcessing /\ queued' \in BOOLEAN
  BY DEF Requeue
<1>2. Good(rel') /\ cache' \in {cache, rel'} /\ (Begun(rel) => Begun(rel'))
  BY RelGood
<1>3. QED BY <1>1, <1>2, EndStep

\* one whose first call fails,
LEMMA CallFailsStep ==
  ASSUME Inv, UNCHANGED environment, CallFails
  PROVE  Inv'
<1>1. Requeue /\ UNCHANGED <<rel, cache>> /\ UNCHANGED objects /\ Fault
  BY DEF CallFails
<1>2. QED BY <1>1, ObjectsKept, FaultType, RequeueStep

\* and one that misses a resource.
LEMMA NotAvailableStep ==
  ASSUME Inv, UNCHANGED environment, NotAvailable
  PROVE  Inv'
<1>1. Requeue /\ UNCHANGED <<rel, cache>> /\ UNCHANGED objects /\ faults' \in 0 .. MaxFaults
  BY DEF NotAvailable, Inv, TypeOK
<1>2. QED BY <1>1, ObjectsKept, RequeueStep

\* The conditions of a merge patch are those of the adapter or those of the API
\* server, never a mixture: a patch of a consistent copy is consistent.
LEMMA PatchedGood ==
  ASSUME Inv, NEW new, Good(new)
  PROVE  /\ Good(Patched(new))
         /\ Begun(new) /\ Begun(rel) => Begun(Patched(new))
         /\ new.conds # mem.conds => Patched(new).conds = new.conds
         /\ Patched(new).present = rel.present
         /\ Patched(new).deleting = rel.deleting
         /\ Patched(new).finalizer = rel.finalizer
<1> DEFINE s == Patched(new)
<1>1. rel \in Release /\ new \in Release /\ mem \in Release
  BY DEF Inv, TypeOK, Good
<1>2. /\ s.conds = IF new.conds # mem.conds THEN new.conds ELSE rel.conds
      /\ s.present = rel.present /\ s.deleting = rel.deleting /\ s.finalizer = rel.finalizer
  BY <1>1 DEF Patched, Release
<1>3. s \in Release
  BY <1>1 DEF Patched, Release
<1> HIDE DEF s
<1>4. CASE new.conds # mem.conds
  BY <1>2, <1>3, <1>4, SameConditions DEF Good, s
<1>5. CASE new.conds = mem.conds
  BY <1>2, <1>3, <1>5, SameConditions, RelGood DEF Good, s
<1>6. QED BY <1>4, <1>5

\* After a write the cache shows the old or the new Release.
LEMMA WriteStep ==
  ASSUME NEW r, WriteRelease(r)
  PROVE  rel' = r /\ cache' \in {cache, rel'}
BY DEF WriteRelease

\* A patch that succeeds preserves the invariant when the new copy is good.
LEMMA PatchSucceedsStep ==
  ASSUME Inv, UNCHANGED environment, NEW op \in Operations, NEW new, Good(new),
         Begun(Patched(new)), ObjectsOK', PatchSucceeds(new, op)
  PROVE  Inv'
<1>1. /\ WriteRelease(Patched(new)) /\ ContinueWith(op, Patched(new))
      /\ queued' \in BOOLEAN /\ faults' \in 0 .. MaxFaults
  BY DEF PatchSucceeds, Inv, TypeOK
<1>2. rel' = Patched(new) /\ cache' \in {cache, rel'} /\ Good(rel') /\ Begun(rel')
  BY <1>1, WriteStep, PatchedGood
<1>3. Good(Patched(new))
  BY <1>2
<1>4. QED BY <1>1, <1>2, <1>3, ContinueStep

\* A patch that fails preserves the invariant.
LEMMA PatchFailsStep ==
  ASSUME Inv, UNCHANGED environment, ObjectsOK', PatchFails
  PROVE  Inv'
<1>1. Requeue /\ UNCHANGED <<rel, cache>>
  BY DEF PatchFails
<1>2. faults' \in 0 .. MaxFaults
  BY FaultType DEF PatchFails, Inv, TypeOK
<1>3. QED BY <1>1, <1>2, RequeueStep

\* RequeueOnErrorOrContinue(Patch) preserves the invariant when the new copy is good.
LEMMA PatchStatusStep ==
  ASSUME Inv, UNCHANGED environment, NEW op \in Operations, NEW new, Good(new),
         Begun(Patched(new)), PatchStatus(new, op)
  PROVE  Inv'
<1>1. ObjectsOK' /\ (PatchSucceeds(new, op) \/ PatchFails)
  BY ObjectsKept DEF PatchStatus
<1>2. QED BY <1>1, PatchSucceedsStep, PatchFailsStep

\* During the operations that follow EnsureReleaseIsRunning every mark keeps the
\* Release begun.
LEMMA BegunPatched ==
  ASSUME Inv, pc \in AfterRunning, NEW new, Good(new), Begun(new)
  PROVE  Begun(Patched(new))
BY PatchedGood DEF Inv

-----------------------------------------------------------------------------
(* Creating PipelineRuns and RoleBindings. *)

\* The plan is one of Plans.
LEMMA PlanType ==
  ASSUME Inv, NEW p \in Phases
  PROVE  plan.bindings[p] \in Seq(Slots)
BY PlansAssumption DEF Inv, TypeOK, Plan

\* Recording RoleBindings changes no condition.
LEMMA WithRefsType ==
  ASSUME Inv, NEW p, NEW list \in Seq(Slots), NEW j \in 0 .. Len(list)
  PROVE  WithRefs(mem, p, list, j) \in Release /\ WithRefs(mem, p, list, j).conds = mem.conds
<1> DEFINE new(b) == IF b[1] = p /\ \E i \in ToCreate(p, list, j) : list[i] = b[2]
                     THEN made + (CHOOSE i \in ToCreate(p, list, j) : list[i] = b[2])
                     ELSE mem.refs[b]
<1>1. mem \in Release /\ made \in Nat
  BY DEF Inv, TypeOK
<1>2. ToCreate(p, list, j) \subseteq Nat
  BY DEF ToCreate
<1>3. ASSUME NEW b \in CollectorBindings
      PROVE  new(b) \in Nat
  <2>1. CASE b[1] = p /\ \E i \in ToCreate(p, list, j) : list[i] = b[2]
    <3>1. (CHOOSE i \in ToCreate(p, list, j) : list[i] = b[2]) \in Nat
      BY <1>2, <2>1
    <3>2. QED BY <1>1, <2>1, <3>1
  <2>2. CASE ~(b[1] = p /\ \E i \in ToCreate(p, list, j) : list[i] = b[2])
    BY <1>1, <2>2 DEF Release
  <2>3. QED BY <2>1, <2>2
<1>4. [b \in CollectorBindings |-> new(b)] \in [CollectorBindings -> Nat]
  BY <1>3
<1>5. WithRefs(mem, p, list, j) = [mem EXCEPT !.refs = [b \in CollectorBindings |-> new(b)]]
  BY DEF WithRefs
<1> HIDE DEF new
<1>6. QED BY <1>1, <1>4, <1>5 DEF Release

\* The RoleBindings that are created are typed.
LEMMA NewBindingsType ==
  ASSUME Inv, NEW p \in Phases, NEW list \in Seq(Slots), NEW j \in 0 .. Len(list)
  PROVE  NewBindings(p, list, j) \subseteq RoleBinding
<1>1. made \in Nat
  BY DEF Inv, TypeOK
<1>2. \A i \in ToCreate(p, list, j) : i \in Nat /\ list[i] \in Slots
  BY DEF ToCreate
<1>3. QED BY <1>1, <1>2 DEF NewBindings, RoleBinding

\* The PipelineRun that is created is typed and of the phase asked for.
LEMMA NewRunType ==
  ASSUME Inv, NEW p \in Phases, NEW k \in Nat, NEW list \in Seq(Slots)
  PROVE  NewRun(p, k, list) \in PipelineRun /\ NewRun(p, k, list).phase = p
BY BoundsAssumption DEF Inv, TypeOK, NewRun, PipelineRun

\* A creation that fails, for now or for good, preserves the invariant.
LEMMA CreationFailsStep ==
  ASSUME Inv, UNCHANGED environment, pc \in AfterRunning, NEW op \in Operations,
         NEW p \in Phases, NEW list \in Seq(Slots), Planned(p), Ready(mem, p),
         CreationFails(p, list, op)
  PROVE  Inv'
<1> PICK j \in 0 .. Len(list) :
      LET new == FailPhase(WithRefs(mem, p, list, j), p)
      IN /\ Fault
         /\ bindings' = bindings \cup NewBindings(p, list, j)
         /\ made' = made + j
         /\ UNCHANGED runs
         /\ \/ Requeue /\ UNCHANGED <<rel, cache>>
            \/ /\ rel.present
               /\ WriteRelease(Patched(new))
               /\ ContinueWith(op, Patched(new))
               /\ UNCHANGED queued
  BY DEF CreationFails
<1> DEFINE r == WithRefs(mem, p, list, j)
           new == FailPhase(r, p)
<1>1. ObjectsOK'
  BY NewBindingsType DEF Inv, ObjectsOK, Planned, environment
<1>2. faults' \in 0 .. MaxFaults
  BY FaultType
<1>3. CASE Requeue /\ UNCHANGED <<rel, cache>>
  BY <1>1, <1>2, <1>3, RequeueStep
<1>4. CASE WriteRelease(Patched(new)) /\ ContinueWith(op, Patched(new)) /\ UNCHANGED queued
  <2>1. r \in Release /\ r.conds = mem.conds
    BY WithRefsType
  <2> HIDE DEF r
  <2>2. Consistent(r) /\ Ready(r, p) /\ Begun(r)
    BY <2>1, SameConditions DEF Inv
  <2>3. Good(new) /\ Begun(new)
    BY <2>1, <2>2, FailPhaseConsistent DEF Good
  <2> HIDE DEF new
  <2>4. Good(Patched(new)) /\ Begun(Patched(new))
    BY <2>3, PatchedGood, BegunPatched
  <2>5. rel' = Patched(new) /\ cache' \in {cache, rel'} /\ Good(rel') /\ Begun(rel')
    BY <1>4, <2>4, WriteStep
  <2>6. queued' \in BOOLEAN
    BY <1>4 DEF Inv, TypeOK
  <2>7. QED BY <1>1, <1>2, <1>4, <2>4, <2>5, <2>6, ContinueStep
<1>5. QED BY <1>3, <1>4

\* Creating a PipelineRun and its RoleBindings preserves the invariant.
LEMMA CreateStep ==
  ASSUME Inv, UNCHANGED environment, pc \in AfterRunning, NEW op \in Operations,
         NEW p \in Phases, NEW k \in Nat, NEW list \in Seq(Slots), Planned(p), Ready(mem, p),
         NEW new, Good(new), Begun(new), Create(p, k, list, new, op)
  PROVE  Inv'
<1>1. CASE CreationFails(p, list, op)
  BY <1>1, CreationFailsStep
<1>2. CASE CreationSucceeds(p, k, list, new, op)
  <2>1. ObjectsOK'
    <3>1. NewBindings(p, list, Len(list)) \subseteq RoleBinding
      BY NewBindingsType
    <3>2. NewRun(p, k, list) \in PipelineRun /\ NewRun(p, k, list).phase = p
      BY NewRunType
    <3>3. QED
      BY <1>2, <3>1, <3>2 DEF CreationSucceeds, Inv, ObjectsOK, Planned, environment
  <2>2. Begun(Patched(new))
    BY BegunPatched
  <2>3. PatchSucceeds(new, op) \/ PatchFails
    BY <1>2 DEF CreationSucceeds
  <2>4. QED BY <2>1, <2>2, <2>3, PatchSucceedsStep, PatchFailsStep
<1>3. QED BY <1>1, <1>2 DEF Create

\* The RoleBinding of an attempt is a number.
LEMMA AttemptBindingType ==
  ASSUME Inv, NEW list \in Seq(Slots)
  PROVE  AttemptBinding(list) \in Nat
<1>1. mem \in Release /\ made \in Nat
  BY DEF Inv, TypeOK
<1>2. BindingRef(mem, "managed", "tenant") \in Nat
  <2>1. mem.attempts \in Seq(Attempt)
    BY <1>1 DEF Release
  <2>2. Len(mem.attempts) # 0 => mem.attempts[Len(mem.attempts)] \in Attempt
    BY <2>1
  <2>3. Len(mem.attempts) # 0 => mem.attempts[Len(mem.attempts)].roleBinding \in Nat
    BY <2>2 DEF Attempt
  <2>4. QED BY <2>3 DEF BindingRef, GetCurrentManagedPipelineAttempt
<1>3. QED BY <1>1, <1>2 DEF AttemptBinding

-----------------------------------------------------------------------------
(* Cleaning up and finalizing. *)

\* Removing finalizers leaves PipelineRuns of the same phases.
LEMMA RemoveFinalizersType ==
  ASSUME Inv, NEW S, S \subseteq runs
  PROVE  /\ RemoveFinalizers(S) \subseteq PipelineRun
         /\ \A x \in RemoveFinalizers(S) : Planned(x.phase)
<1>1. ASSUME NEW y \in runs
      PROVE  /\ [y EXCEPT !.finalizer = FALSE] \in PipelineRun
             /\ [y EXCEPT !.finalizer = FALSE].phase = y.phase
  BY DEF Inv, ObjectsOK, PipelineRun
<1>2. QED BY <1>1 DEF RemoveFinalizers, Inv, ObjectsOK

\* What the loader returns exists.
LEMMA PicksType ==
  ASSUME NEW r, NEW P, NEW S \in Picks(r, P)
  PROVE  S \subseteq runs
BY DEF Picks

\* A clean-up keeps ObjectsOK.
LEMMA CleanUpObjects ==
  ASSUME Inv, UNCHANGED environment, NEW S, S \subseteq runs, NEW B, CleanUp(S, B)
  PROVE  ObjectsOK' /\ UNCHANGED <<rel, cache>>
<1>1. /\ RemoveFinalizers(S) \subseteq PipelineRun
      /\ \A x \in RemoveFinalizers(S) : Planned(x.phase)
  BY RemoveFinalizersType
<1>2. QED BY <1>1 DEF CleanUp, Inv, ObjectsOK, Planned, environment

\* An event leaves queued Boolean.
LEMMA EventType ==
  ASSUME Inv, NEW S, FinalizerEvent(S)
  PROVE  queued' \in BOOLEAN
BY DEF FinalizerEvent, Inv, TypeOK

\* A clean-up that goes on to the next operation.
LEMMA CleanedStep ==
  ASSUME Inv, UNCHANGED environment, NEW op \in Operations, op \notin AfterRunning,
         ObjectsOK', UNCHANGED <<rel, cache>>, queued' \in BOOLEAN,
         faults' \in 0 .. MaxFaults, ContinueWith(op, mem)
  PROVE  Inv'
<1>1. Good(mem) /\ Good(rel') /\ cache' \in {cache, rel'}
  BY RelGood
<1>2. (Begun(rel) => Begun(rel')) /\ (Begun(mem) => Begun(rel'))
  BY DEF Inv
<1>3. QED BY <1>1, <1>2, ContinueStep

\* The clean-up of phases, complete or not, preserves the invariant.
LEMMA CleanUpPhasesStep ==
  ASSUME Inv, UNCHANGED environment, NEW op \in Operations, op \notin AfterRunning,
         NEW P, NEW requeues, CleanUpPhases(P, op, requeues)
  PROVE  Inv'
<1> DEFINE B == UNION {Referenced(mem, p) : p \in P}
<1>1. PICK S \in Picks(mem, P) :
        \/ /\ CleanUp(S, B)
           /\ FinalizerEvent(S)
           /\ ContinueWith(op, mem)
           /\ UNCHANGED faults
        \/ \E T \in SUBSET S, C \in SUBSET B :
             /\ Fault
             /\ CleanUp(T, C)
             /\ \/ FinalizerEvent(T) /\ ContinueWith(op, mem)
                \/ requeues /\ Requeue
  BY DEF CleanUpPhases
<1> HIDE DEF B
<1>2. S \subseteq runs
  BY PicksType
<1>3. CASE CleanUp(S, B) /\ FinalizerEvent(S) /\ ContinueWith(op, mem) /\ UNCHANGED faults
  <2>1. ObjectsOK' /\ UNCHANGED <<rel, cache>> /\ queued' \in BOOLEAN
    BY <1>2, <1>3, CleanUpObjects, EventType
  <2>2. faults' \in 0 .. MaxFaults
    BY <1>3 DEF Inv, TypeOK
  <2>3. QED BY <1>3, <2>1, <2>2, CleanedStep
<1>4. ASSUME NEW T \in SUBSET S, NEW C, Fault, CleanUp(T, C),
             (FinalizerEvent(T) /\ ContinueWith(op, mem)) \/ Requeue
      PROVE  Inv'
  <2>1. ObjectsOK' /\ UNCHANGED <<rel, cache>> /\ faults' \in 0 .. MaxFaults
    BY <1>2, <1>4, CleanUpObjects, FaultType
  <2>2. CASE FinalizerEvent(T) /\ ContinueWith(op, mem)
    BY <2>1, <2>2, EventType, CleanedStep
  <2>3. CASE Requeue
    BY <2>1, <2>3, RequeueStep
  <2>4. QED BY <1>4, <2>2, <2>3
<1>5. QED BY <1>1, <1>3, <1>4

\* A finalizeRelease that stops half-way preserves the invariant.
LEMMA FinalizeFailsStep ==
  ASSUME Inv, UNCHANGED environment, NEW S, S \subseteq runs, FinalizeFails(S)
  PROVE  Inv'
<1>1. PICK current, deleted, visits :
        /\ current \subseteq S
        /\ Fault
        /\ runs' = RemoveFinalizers(current) \ deleted \/ runs' = runs \ deleted
        /\ bindings' = bindings \ visits
        /\ UNCHANGED <<made, rel, cache>>
        /\ Requeue
  <2>1. PICK n \in 1 .. Len(FinalizeOrder(mem)), stage \in 0 .. 2 :
          LET order == FinalizeOrder(mem)
              earlier == {order[i] : i \in 1 .. n - 1}
              begun == earlier \cup (IF stage > 0 THEN {order[n]} ELSE {})
              deleted == {x \in S : <<x.phase, x.attempt>> \in earlier}
              current == {x \in S : <<x.phase, x.attempt>> = order[n]}
          IN /\ Fault
             /\ runs' = (IF stage = 2 THEN RemoveFinalizers(current) ELSE runs) \ deleted
             /\ bindings' = bindings \ VisitedBindings(mem, begun)
             /\ UNCHANGED <<made, rel, cache>>
             /\ Requeue
    BY DEF FinalizeFails
  <2> DEFINE order == FinalizeOrder(mem)
             earlier == {order[i] : i \in 1 .. n - 1}
             begun == earlier \cup (IF stage > 0 THEN {order[n]} ELSE {})
             deleted == {x \in S : <<x.phase, x.attempt>> \in earlier}
             current == {x \in S : <<x.phase, x.attempt>> = order[n]}
  <2>2. current \subseteq S
    OBVIOUS
  <2>3. /\ Fault
        /\ runs' = RemoveFinalizers(current) \ deleted \/ runs' = runs \ deleted
        /\ bindings' = bindings \ VisitedBindings(mem, begun)
        /\ UNCHANGED <<made, rel, cache>>
        /\ Requeue
    BY <2>1
  <2> HIDE DEF order, earlier, begun, deleted, current
  <2>4. QED BY <2>2, <2>3
<1>2. current \subseteq runs
  BY <1>1
<1>3. ObjectsOK'
  <2>1. /\ RemoveFinalizers(current) \subseteq PipelineRun
        /\ \A x \in RemoveFinalizers(current) : Planned(x.phase)
    BY <1>2, RemoveFinalizersType
  <2>2. QED BY <1>1, <2>1 DEF Inv, ObjectsOK, Planned, environment
<1>4. QED BY <1>1, <1>3, FaultType, RequeueStep

\* A finalizeRelease that comes to its end preserves the invariant.
LEMMA FinalizeSucceedsStep ==
  ASSUME Inv, UNCHANGED environment, NEW S, FinalizeSucceeds(S)
  PROVE  Inv'
<1> DEFINE gone == [rel EXCEPT !.finalizer = FALSE, !.present = FALSE]
<1>1. PICK kept :
        /\ runs' = runs \ S
        /\ bindings' = bindings \ (UNION {Referenced(mem, p) : p \in Phases} \ kept)
        /\ UNCHANGED made
        /\ \/ /\ rel.present
              /\ kept # {} => faults < MaxFaults
              /\ faults' = IF kept = {} THEN faults ELSE faults + 1
              /\ WriteRelease(gone)
              /\ Requeue
           \/ kept = {} /\ PatchFails
  BY DEF FinalizeSucceeds
<1>2. ObjectsOK'
  BY <1>1 DEF Inv, ObjectsOK, Planned, environment
<1>3. CASE PatchFails
  BY <1>2, <1>3, PatchFailsStep
<1>4. CASE /\ kept # {} => faults < MaxFaults
           /\ faults' = IF kept = {} THEN faults ELSE faults + 1
           /\ WriteRelease(gone)
           /\ Requeue
  <2>1. gone \in Release /\ gone.conds = rel.conds
    BY DEF Inv, TypeOK, Release
  <2> HIDE DEF gone
  <2>2. Good(gone) /\ (Begun(rel) => Begun(gone))
    BY <2>1, SameConditions, RelGood DEF Good
  <2>3. rel' = gone /\ cache' \in {cache, rel'}
    BY <1>4, WriteStep
  <2>4. faults' \in 0 .. MaxFaults
    BY <1>4, BoundsAssumption DEF Inv, TypeOK
  <2>5. StopProcessing /\ queued' \in BOOLEAN
    BY <1>4 DEF Requeue
  <2>6. QED BY <1>2, <2>2, <2>3, <2>4, <2>5, EndStep
<1>5. QED BY <1>1, <1>3, <1>4

-----------------------------------------------------------------------------
(* The operations before the first pipeline. *)

\* Which operations run after EnsureReleaseIsRunning.
LEMMA OperationNames ==
  /\ AfterRunning \subseteq Operations
  /\ {"FinalizersAreCalled", "ConfigIsLoaded", "CollectorsCleanedUp", "ProcessingCleanedUp",
      "ReleaseIsRunning"} \subseteq Operations \ AfterRunning
  /\ {"ReleaseIsValid", "ApplicationMetadataIsSet", "FinalizerIsAdded", "ExpirationTimeIsAdded",
      "TenantCollectorsProcessed", "TenantCollectorsTracked", "ManagedCollectorsProcessed",
      "ManagedCollectorsTracked", "TenantProcessed", "TenantTracked", "ManagedProcessed",
      "ManagedTracked", "ManagedCompleted", "FinalProcessed", "FinalTracked",
      "ReleaseIsCompleted"} \subseteq AfterRunning
BY DEF AfterRunning, Operations

\* Reconcile, before its first operation.
LEMMA ReconcileStep ==
  ASSUME Inv, UNCHANGED environment, ReconcileFound \/ ReconcileNotFound
  PROVE  Inv'
<1>1. CASE ReconcileFound
  <2>1. /\ ContinueWith("FinalizersAreCalled", cache)
        /\ UNCHANGED <<rel, cache>> /\ UNCHANGED objects /\ queued' \in BOOLEAN
    BY <1>1 DEF ReconcileFound
  <2>2. faults' \in 0 .. MaxFaults
    BY <1>1, FaultType DEF ReconcileFound, Inv, TypeOK
  <2>3. Good(cache) /\ Good(rel') /\ cache' \in {cache, rel'}
    BY <2>1, RelGood
  <2>4. (Begun(rel) => Begun(rel')) /\ (Begun(cache) => Begun(rel'))
    BY <2>1 DEF Inv
  <2>5. ObjectsOK'
    BY <2>1, ObjectsKept
  <2>6. QED BY <2>1, <2>2, <2>3, <2>4, <2>5, OperationNames, ContinueStep
<1>2. CASE ReconcileNotFound
  <2>1. /\ UNCHANGED <<rel, cache, mem, pc, faults>> /\ UNCHANGED objects /\ queued' \in BOOLEAN
        /\ UNCHANGED <<plan, admission, disruptions>>
    BY <1>2 DEF ReconcileNotFound, environment
  <2>2. ObjectsOK'
    BY <2>1, ObjectsKept
  <2>3. TypeOK'
    BY <2>1, <2>2 DEF Inv, TypeOK, ObjectsOK
  <2>4. Consistent(rel') /\ Consistent(cache') /\ Consistent(mem')
    BY <2>1 DEF Inv
  <2>5. QED BY <2>1, <2>2, <2>3, <2>4, ConsistentNext DEF Inv, Begun
<1>3. QED BY <1>1, <1>2

\* EnsureFinalizersAreCalled preserves the invariant.
LEMMA FinalizersAreCalledStep ==
  ASSUME Inv, UNCHANGED environment, EnsureFinalizersAreCalled
  PROVE  Inv'
<1>1. CASE Pass("ConfigIsLoaded")
  BY <1>1, OperationNames, PassStep
<1>2. ASSUME NEW S \in Picks(mem, Phases), FinalizeSucceeds(S) \/ FinalizeFails(S)
      PROVE  Inv'
  BY <1>2, PicksType, FinalizeSucceedsStep, FinalizeFailsStep
<1>3. QED BY <1>1, <1>2 DEF EnsureFinalizersAreCalled

\* EnsureConfigIsLoaded and the two clean-up operations preserve the invariant.
LEMMA CleanUpOperationsStep ==
  ASSUME Inv, UNCHANGED environment,
         \/ EnsureConfigIsLoaded
         \/ EnsureCollectorsProcessingResourcesAreCleanedUp
         \/ EnsureReleaseProcessingResourcesAreCleanedUp
  PROVE  Inv'
<1>1. CASE EnsureConfigIsLoaded
  BY <1>1, OperationNames, PassStep, CallFailsStep DEF EnsureConfigIsLoaded
<1>2. CASE EnsureCollectorsProcessingResourcesAreCleanedUp
  BY <1>2, OperationNames, PassStep, CleanUpPhasesStep
     DEF EnsureCollectorsProcessingResourcesAreCleanedUp
<1>3. CASE EnsureReleaseProcessingResourcesAreCleanedUp
  BY <1>3, OperationNames, PassStep, CleanUpPhasesStep
     DEF EnsureReleaseProcessingResourcesAreCleanedUp
<1>4. QED BY <1>1, <1>2, <1>3

\* After EnsureReleaseIsRunning the Release is begun.
LEMMA ReleaseIsRunningStep ==
  ASSUME Inv, UNCHANGED environment, EnsureReleaseIsRunning
  PROVE  Inv'
<1>1. ASSUME HasReleaseFinished(mem) \/ IsReleasing(mem), Pass("ReleaseIsValid")
      PROVE  Inv'
  <2>1. Begun(mem)
    BY <1>1 DEF HasReleaseFinished, IsReleasing, hasPhaseFinished, isPhaseProgressing, Begun
  <2>2. QED BY <1>1, <2>1, OperationNames, PassStep
<1>2. ASSUME StopProcessing, UNCHANGED <<rel, cache, queued, faults>>, UNCHANGED objects
      PROVE  Inv'
  <2>1. Good(rel') /\ cache' \in {cache, rel'} /\ (Begun(rel) => Begun(rel'))
    BY <1>2, RelGood
  <2>2. queued' \in BOOLEAN /\ faults' \in 0 .. MaxFaults
    BY <1>2 DEF Inv, TypeOK
  <2>3. QED BY <1>2, <2>1, <2>2, ObjectsKept, EndStep
<1>3. ASSUME ~HasReleaseFinished(mem), ~IsReleasing(mem),
             PatchStatus(MarkReleasing(mem), "ReleaseIsValid")
      PROVE  Inv'
  <2> DEFINE new == MarkReleasing(mem)
  <2>1. Good(mem)
    BY RelGood
  <2>2. Good(new) /\ Begun(new)
    BY <2>1, MarkTypes, ReleaseMarksConsistent, MarksBegun DEF Good, Phases
  <2>3. ~Begun(mem)
    BY <1>3, <2>1, PhaseTypes
       DEF Begun, Good, Consistent, NotSkipped, HasReleaseFinished, IsReleasing, hasPhaseFinished,
           isPhaseProgressing, Release, ConditionValues
  <2> HIDE DEF new
  <2>4. new.conds # mem.conds
    BY <2>2, <2>3 DEF Begun
  <2>5. Begun(Patched(new))
    BY <2>2, <2>4, PatchedGood, SameConditions
  <2>6. QED BY <1>3, <2>2, <2>5, OperationNames, PatchStatusStep DEF new
<1>4. QED BY <1>1, <1>2, <1>3 DEF EnsureReleaseIsRunning

\* A failed validation fails a begun Release and leaves its phases alone.
LEMMA ReleaseIsValidStep ==
  ASSUME Inv, UNCHANGED environment, EnsureReleaseIsValid
  PROVE  Inv'
<1> DEFINE judged == IF Validates THEN mem ELSE MarkReleaseFailed(MarkValidationFailed(mem))
           op == "ApplicationMetadataIsSet"
<1>1. pc \in AfterRunning /\ op \in Operations /\ op \in AfterRunning
  BY OperationNames DEF EnsureReleaseIsValid
<1>2. Good(mem) /\ Begun(mem)
  BY <1>1, RelGood DEF Inv
<1>3. Good(judged) /\ Begun(judged)
  <2>1. Good(MarkValidationFailed(mem)) /\ Begun(MarkValidationFailed(mem))
    BY <1>2, MarkTypes, ReleaseMarksConsistent, MarksBegun DEF Good, Phases
  <2>2. /\ Good(MarkReleaseFailed(MarkValidationFailed(mem)))
        /\ Begun(MarkReleaseFailed(MarkValidationFailed(mem)))
    BY <2>1, MarkTypes, ReleaseMarksConsistent, MarksBegun DEF Good, Phases
  <2>3. QED BY <1>2, <2>2
<1>4. \/ IsReleasing(judged) /\ PatchStatus(MarkValidated(judged), op)
      \/ /\ ~IsReleasing(judged)
         /\ UNCHANGED objects
         /\ \/ PatchSucceeds(judged, op)
            \/ /\ WriteRelease(Patched(judged))
               /\ StopProcessing
               /\ UNCHANGED <<queued, faults>>
            \/ PatchFails
      \/ CallFails
  BY DEF EnsureReleaseIsValid
<1> HIDE DEF judged
<1>5. Good(Patched(judged)) /\ Begun(Patched(judged))
  BY <1>1, <1>3, PatchedGood, BegunPatched
<1>6. CASE PatchStatus(MarkValidated(judged), op)
  <2>1. Good(MarkValidated(judged)) /\ Begun(MarkValidated(judged))
    BY <1>3, MarkTypes, ReleaseMarksConsistent, MarksBegun DEF Good, Phases
  <2>2. QED BY <1>1, <1>6, <2>1, BegunPatched, PatchStatusStep
<1>7. CASE UNCHANGED objects /\ PatchSucceeds(judged, op)
  BY <1>1, <1>3, <1>5, <1>7, ObjectsKept, PatchSucceedsStep
<1>8. CASE /\ UNCHANGED objects
           /\ WriteRelease(Patched(judged)) /\ StopProcessing /\ UNCHANGED <<queued, faults>>
  <2>1. rel' = Patched(judged) /\ cache' \in {cache, rel'}
    BY <1>8, WriteStep
  <2>2. queued' \in BOOLEAN /\ faults' \in 0 .. MaxFaults
    BY <1>8 DEF Inv, TypeOK
  <2>3. QED BY <1>5, <1>8, <2>1, <2>2, ObjectsKept, EndStep
<1>9. CASE UNCHANGED objects /\ PatchFails
  BY <1>9, ObjectsKept, PatchFailsStep
<1>10. CASE CallFails
  BY <1>10, CallFailsStep
<1>11. QED BY <1>4, <1>6, <1>7, <1>8, <1>9, <1>10

\* The three operations on metadata leave the conditions alone.
LEMMA MetadataStep ==
  ASSUME Inv, UNCHANGED environment,
         \/ EnsureApplicationMetadataIsSet
         \/ EnsureFinalizerIsAdded
         \/ EnsureReleaseExpirationTimeIsAdded
  PROVE  Inv'
<1>1. pc \in AfterRunning
  BY OperationNames
     DEF EnsureApplicationMetadataIsSet, EnsureFinalizerIsAdded, EnsureReleaseExpirationTimeIsAdded
<1>2. Good(mem) /\ Good(rel) /\ Begun(mem) /\ Begun(rel)
  BY <1>1, RelGood DEF Inv
<1>3. ASSUME NEW r, r \in {rel, mem}, ContinueWith("FinalizerIsAdded", r),
             UNCHANGED <<rel, cache, queued, faults>>, UNCHANGED objects
      PROVE  Inv'
  <2>1. Good(r) /\ Begun(r) /\ Good(rel') /\ Begun(rel') /\ cache' \in {cache, rel'}
    BY <1>2, <1>3
  <2>2. queued' \in BOOLEAN /\ faults' \in 0 .. MaxFaults
    BY <1>3 DEF Inv, TypeOK
  <2>3. QED BY <1>3, <2>1, <2>2, OperationNames, ObjectsKept, ContinueStep
<1>4. CASE EnsureApplicationMetadataIsSet
  BY <1>3, <1>4, CallFailsStep DEF EnsureApplicationMetadataIsSet
<1>5. CASE EnsureFinalizerIsAdded
  <2> DEFINE new == [rel EXCEPT !.finalizer = TRUE]
  <2>1. \/ Pass("ExpirationTimeIsAdded")
        \/ /\ WriteRelease(new) /\ ContinueWith("ExpirationTimeIsAdded", new)
           /\ UNCHANGED <<queued, faults>> /\ UNCHANGED objects
        \/ PatchFails /\ UNCHANGED objects
    BY <1>5 DEF EnsureFinalizerIsAdded
  <2>2. new \in Release /\ new.conds = rel.conds
    BY DEF Inv, TypeOK, Release
  <2> HIDE DEF new
  <2>3. Good(new) /\ Begun(new)
    BY <1>2, <2>2, SameConditions DEF Good
  <2>4. CASE Pass("ExpirationTimeIsAdded")
    BY <1>2, <2>4, OperationNames, PassStep
  <2>5. CASE /\ WriteRelease(new) /\ ContinueWith("ExpirationTimeIsAdded", new)
             /\ UNCHANGED <<queued, faults>> /\ UNCHANGED objects
    <3>1. rel' = new /\ cache' \in {cache, rel'}
      BY <2>5, WriteStep
    <3>2. queued' \in BOOLEAN /\ faults' \in 0 .. MaxFaults
      BY <2>5 DEF Inv, TypeOK
    <3>3. QED BY <2>3, <2>5, <3>1, <3>2, OperationNames, ObjectsKept, ContinueStep
  <2>6. CASE PatchFails /\ UNCHANGED objects
    BY <2>6, ObjectsKept, PatchFailsStep
  <2>7. QED BY <2>1, <2>4, <2>5, <2>6
<1>6. CASE EnsureReleaseExpirationTimeIsAdded
  BY <1>2, <1>6, OperationNames, PassStep, CallFailsStep DEF EnsureReleaseExpirationTimeIsAdded
<1>7. QED BY <1>4, <1>5, <1>6

-----------------------------------------------------------------------------
(* The operations that create PipelineRuns. *)

\* In a consistent Release it is enough to look at the phase before.
LEMMA ReadyAfter ==
  ASSUME NEW r, Consistent(r)
  PROVE  /\ Ready(r, "tenantCollectors")
         /\ hasPhaseFinished(r, "tenantCollectors") => Ready(r, "managedCollectors")
         /\ hasPhaseFinished(r, "managedCollectors") => Ready(r, "tenant")
         /\ hasPhaseFinished(r, "tenant") => Ready(r, "managed")
         /\ hasPhaseFinished(r, "managed") => Ready(r, "final")
BY DEF Consistent, InOrder, Ready, hasPhaseFinished, Phases, Before

\* Skipping a phase preserves the invariant.
LEMMA SkipStep ==
  ASSUME Inv, UNCHANGED environment, pc \in AfterRunning, NEW op \in Operations,
         NEW p \in Phases, Ready(mem, p), Planned(p) => IsFailed(mem), Skip(p, op)
  PROVE  Inv'
<1> DEFINE new == MarkPipelineProcessingSkipped(mem, p)
<1>1. Good(mem) /\ Begun(mem)
  BY RelGood DEF Inv
<1>2. Good(new) /\ Begun(new)
  BY <1>1, MarkTypes, SkipConsistent, MarksBegun DEF Good
<1>3. PatchStatus(new, op)
  BY DEF Skip
<1> HIDE DEF new
<1>4. QED BY <1>2, <1>3, BegunPatched, PatchStatusStep

\* Beginning a phase, with or without new RoleBindings in the status.
LEMMA RegisterGood ==
  ASSUME Inv, pc \in AfterRunning, NEW p \in Phases, Ready(mem, p), Planned(p),
         NEW list \in Seq(Slots)
  PROVE  /\ Good(Register(mem, p, list)) /\ Begun(Register(mem, p, list))
         /\ Good(MarkPipelineProcessing(mem, p)) /\ Begun(MarkPipelineProcessing(mem, p))
<1> DEFINE r == WithRefs(mem, p, list, Len(list))
<1>1. Good(mem) /\ Begun(mem)
  BY RelGood DEF Inv
<1>2. r \in Release /\ r.conds = mem.conds
  BY WithRefsType
<1>3. Register(mem, p, list) = MarkPipelineProcessing(r, p)
  BY DEF Register
<1> HIDE DEF r
<1>4. Consistent(r) /\ Ready(r, p) /\ Begun(r)
  BY <1>1, <1>2, SameConditions DEF Good
<1>5. Good(MarkPipelineProcessing(r, p)) /\ Begun(MarkPipelineProcessing(r, p))
  BY <1>2, <1>4, MarkTypes, BeginConsistent, MarksBegun DEF Good
<1>6. Good(MarkPipelineProcessing(mem, p)) /\ Begun(MarkPipelineProcessing(mem, p))
  BY <1>1, MarkTypes, BeginConsistent, MarksBegun DEF Good
<1>7. QED BY <1>3, <1>5, <1>6

\* What four of the five operations do once the pipeline is known to be planned.
LEMMA BeginStep ==
  ASSUME Inv, UNCHANGED environment, pc \in AfterRunning, NEW op \in Operations,
         NEW p \in Phases, Ready(mem, p), Planned(p), NEW list \in Seq(Slots),
         \/ Create(p, 0, list, Register(mem, p, list), op)
         \/ PatchStatus(MarkPipelineProcessing(mem, p), op)
  PROVE  Inv'
<1>1. /\ Good(Register(mem, p, list)) /\ Begun(Register(mem, p, list))
      /\ Good(MarkPipelineProcessing(mem, p)) /\ Begun(MarkPipelineProcessing(mem, p))
  BY RegisterGood
<1>2. CASE Create(p, 0, list, Register(mem, p, list), op)
  BY <1>1, <1>2, CreateStep
<1>3. CASE PatchStatus(MarkPipelineProcessing(mem, p), op)
  BY <1>1, <1>3, BegunPatched, PatchStatusStep
<1>4. QED BY <1>2, <1>3

\* EnsureTenantCollectorsPipelineIsProcessed preserves the invariant.
LEMMA TenantCollectorsProcessedStep ==
  ASSUME Inv, UNCHANGED environment, EnsureTenantCollectorsPipelineIsProcessed
  PROVE  Inv'
<1> DEFINE p == "tenantCollectors"
           op == "TenantCollectorsTracked"
           list == plan.bindings[p]
<1>1. pc \in AfterRunning /\ op \in Operations /\ Begun(mem) /\ p \in Phases
  BY OperationNames DEF EnsureTenantCollectorsPipelineIsProcessed, Inv, Phases
<1>2. Ready(mem, p) /\ list \in Seq(Slots)
  BY <1>1, RelGood, ReadyAfter, PlanType DEF Good
<1>3. \/ Pass(op)
      \/ p \notin plan.pipelines /\ Skip(p, op)
      \/ NotAvailable
      \/ /\ p \in plan.pipelines
         /\ \/ Create(p, 0, list, Register(mem, p, list), op)
            \/ PatchStatus(MarkPipelineProcessing(mem, p), op)
      \/ CallFails
  BY DEF EnsureTenantCollectorsPipelineIsProcessed
<1>4. Planned(p) = (p \in plan.pipelines)
  BY DEF Planned
<1> HIDE DEF p, op, list
<1>5. QED
  BY <1>1, <1>2, <1>3, <1>4, PassStep, SkipStep, NotAvailableStep, BeginStep, CallFailsStep

\* EnsureManagedCollectorsPipelineIsProcessed preserves the invariant.
LEMMA ManagedCollectorsProcessedStep ==
  ASSUME Inv, UNCHANGED environment, EnsureManagedCollectorsPipelineIsProcessed
  PROVE  Inv'
<1> DEFINE p == "managedCollectors"
           op == "ManagedCollectorsTracked"
           list == plan.bindings[p]
<1>1. pc \in AfterRunning /\ op \in Operations /\ Begun(mem) /\ p \in Phases
  BY OperationNames DEF EnsureManagedCollectorsPipelineIsProcessed, Inv, Phases
<1>2. list \in Seq(Slots)
  BY <1>1, PlanType
<1>3. \/ Pass(op)
      \/ /\ hasPhaseFinished(mem, "tenantCollectors")
         /\ \/ (IsFailed(mem) \/ ~(plan.target /\ p \in plan.pipelines)) /\ Skip(p, op)
            \/ /\ plan.target /\ p \in plan.pipelines
               /\ \/ Create(p, 0, list, Register(mem, p, list), op)
                  \/ PatchStatus(MarkPipelineProcessing(mem, p), op)
      \/ NotAvailable
      \/ CallFails
  BY DEF EnsureManagedCollectorsPipelineIsProcessed
<1>4. Planned(p) <=> plan.target /\ p \in plan.pipelines
  BY DEF Planned
<1>5. hasPhaseFinished(mem, "tenantCollectors") => Ready(mem, p)
  BY RelGood, ReadyAfter DEF Good
<1> HIDE DEF p, op, list
<1>6. QED
  BY <1>1, <1>2, <1>3, <1>4, <1>5, PassStep, SkipStep, NotAvailableStep, BeginStep, CallFailsStep

\* EnsureTenantPipelineIsProcessed preserves the invariant.
LEMMA TenantProcessedStep ==
  ASSUME Inv, UNCHANGED environment, EnsureTenantPipelineIsProcessed
  PROVE  Inv'
<1> DEFINE p == "tenant"
           op == "TenantTracked"
<1>1. pc \in AfterRunning /\ op \in Operations /\ Begun(mem) /\ p \in Phases
  BY OperationNames DEF EnsureTenantPipelineIsProcessed, Inv, Phases
<1>2. << >> \in Seq(Slots)
  OBVIOUS
<1>3. \/ Pass(op)
      \/ /\ hasPhaseFinished(mem, "managedCollectors")
         /\ \/ (IsFailed(mem) \/ p \notin plan.pipelines) /\ Skip(p, op)
            \/ /\ p \in plan.pipelines
               /\ \/ Create(p, 0, << >>, Register(mem, p, << >>), op)
                  \/ PatchStatus(MarkPipelineProcessing(mem, p), op)
      \/ CallFails
  BY DEF EnsureTenantPipelineIsProcessed
<1>4. Planned(p) <=> p \in plan.pipelines
  BY DEF Planned
<1>5. hasPhaseFinished(mem, "managedCollectors") => Ready(mem, p)
  BY RelGood, ReadyAfter DEF Good
<1> HIDE DEF p, op
<1>6. QED
  BY <1>1, <1>2, <1>3, <1>4, <1>5, PassStep, SkipStep, BeginStep, CallFailsStep

\* EnsureFinalPipelineIsProcessed preserves the invariant, failed Release or not.
LEMMA FinalProcessedStep ==
  ASSUME Inv, UNCHANGED environment, EnsureFinalPipelineIsProcessed
  PROVE  Inv'
<1> DEFINE p == "final"
           op == "FinalTracked"
<1>1. pc \in AfterRunning /\ op \in Operations /\ Begun(mem) /\ p \in Phases
  BY OperationNames DEF EnsureFinalPipelineIsProcessed, Inv, Phases
<1>2. << >> \in Seq(Slots)
  OBVIOUS
<1>3. \/ Pass(op)
      \/ /\ hasPhaseFinished(mem, "managed")
         /\ \/ p \notin plan.pipelines /\ Skip(p, op)
            \/ /\ p \in plan.pipelines
               /\ \/ Create(p, 0, << >>, Register(mem, p, << >>), op)
                  \/ PatchStatus(MarkPipelineProcessing(mem, p), op)
      \/ CallFails
  BY DEF EnsureFinalPipelineIsProcessed
<1>4. Planned(p) <=> p \in plan.pipelines
  BY DEF Planned
<1>5. hasPhaseFinished(mem, "managed") => Ready(mem, p)
  BY RelGood, ReadyAfter DEF Good
<1> HIDE DEF p, op
<1>6. QED
  BY <1>1, <1>2, <1>3, <1>4, <1>5, PassStep, SkipStep, BeginStep, CallFailsStep

\* A managed PipelineRun is registered as the next attempt.
LEMMA RegisterAttemptGood ==
  ASSUME Inv, pc \in AfterRunning, Ready(mem, "managed"), Planned("managed"),
         ~hasPhaseFinished(mem, "managed"), NEW list \in Seq(Slots)
  PROVE  /\ Good(RegisterAttempt(mem, AttemptBinding(list)))
         /\ Begun(RegisterAttempt(mem, AttemptBinding(list)))
<1>1. Good(mem) /\ Begun(mem)
  BY RelGood DEF Inv
<1>2. AttemptBinding(list) \in Nat
  BY AttemptBindingType
<1>3. QED BY <1>1, <1>2, RegisterAttemptConsistent DEF Good

\* EnsureManagedPipelineIsProcessed preserves the invariant.
LEMMA ManagedProcessedStep ==
  ASSUME Inv, UNCHANGED environment, EnsureManagedPipelineIsProcessed
  PROVE  Inv'
<1> DEFINE p == "managed"
           op == "ManagedTracked"
           list == plan.bindings[p]
           found == RegisterAttempt(mem, AttemptBinding(<< >>))
           new == RegisterAttempt(mem, AttemptBinding(list))
           acts == hasPhaseFinished(mem, "tenant") /\ ~hasPhaseFinished(mem, p)
<1>1. pc \in AfterRunning /\ op \in Operations /\ Begun(mem) /\ p \in Phases
  BY OperationNames DEF EnsureManagedPipelineIsProcessed, Inv, Phases
<1>2. list \in Seq(Slots) /\ << >> \in Seq(Slots) /\ Len(mem.attempts) \in Nat
  BY <1>1, PlanType DEF Inv, TypeOK, Release
<1>3. \/ Pass(op)
      \/ /\ acts
         /\ \/ (IsFailed(mem) \/ ~plan.target \/ p \notin plan.pipelines) /\ Skip(p, op)
            \/ /\ plan.target /\ Listed(p, GetManagedPipelineRetryCount(mem)) # {}
               /\ PatchStatus(found, op)
            \/ /\ plan.target /\ p \in plan.pipelines
               /\ Create(p, Len(mem.attempts), list, new, op)
      \/ NotAvailable
      \/ CallFails
  BY DEF EnsureManagedPipelineIsProcessed
<1>4. Planned(p) <=> plan.target /\ p \in plan.pipelines
  BY DEF Planned
<1>5. acts => Ready(mem, p) /\ ~hasPhaseFinished(mem, "managed")
  BY RelGood, ReadyAfter DEF Good
<1>6. Listed(p, GetManagedPipelineRetryCount(mem)) # {} => Planned(p)
  BY DEF Listed, Inv, ObjectsOK
<1>7. acts /\ Planned(p) => Good(found) /\ Begun(found) /\ Good(new) /\ Begun(new)
  BY <1>1, <1>2, <1>5, RegisterAttemptGood
<1>8. acts /\ Planned(p) => Begun(Patched(found))
  BY <1>1, <1>7, BegunPatched
<1> HIDE DEF p, op, list, found, new, acts
<1>9. CASE acts /\ Planned(p) /\ PatchStatus(found, op)
  BY <1>1, <1>7, <1>8, <1>9, PatchStatusStep
<1>10. CASE acts /\ Planned(p) /\ Create(p, Len(mem.attempts), list, new, op)
  BY <1>1, <1>2, <1>5, <1>7, <1>10, CreateStep
<1>11. CASE acts /\ (IsFailed(mem) \/ ~Planned(p)) /\ Skip(p, op)
  BY <1>1, <1>5, <1>11, SkipStep
<1>12. QED
  BY <1>1, <1>3, <1>4, <1>6, <1>9, <1>10, <1>11, PassStep, NotAvailableStep, CallFailsStep

-----------------------------------------------------------------------------
(* The operations that record the results of PipelineRuns. *)

\* The result of a PipelineRun is written to its phase and, when it failed, to
\* the Release.
LEMMA TrackPipelineStep ==
  ASSUME Inv, UNCHANGED environment, pc \in AfterRunning, NEW op \in Operations,
         NEW p \in Phases, TrackPipeline(p, op)
  PROVE  Inv'
<1>1. Good(mem) /\ Begun(mem)
  BY RelGood DEF Inv
<1>2. ASSUME NEW x, PatchStatus(TrackedResult(x, p), op)
      PROVE  Inv'
  <2> DEFINE new == TrackedResult(x, p)
  <2>1. Good(MarkPipelineProcessed(mem, p)) /\ Begun(MarkPipelineProcessed(mem, p))
    BY <1>1, MarkTypes, SucceedConsistent, MarksBegun DEF Good
  <2>2. MarkPipelineProcessingFailed(mem, p) \in Release /\ Begun(MarkPipelineProcessingFailed(mem, p))
    BY <1>1, MarkTypes, MarksBegun DEF Good
  <2>3. /\ Good(MarkReleaseFailed(MarkPipelineProcessingFailed(mem, p)))
        /\ Begun(MarkReleaseFailed(MarkPipelineProcessingFailed(mem, p)))
    BY <1>1, <2>2, MarkTypes, FailConsistent, MarksBegun DEF Good
  <2>4. Good(new) /\ Begun(new)
    BY <2>1, <2>3 DEF TrackedResult
  <2> HIDE DEF new
  <2>5. QED BY <1>2, <2>4, BegunPatched, PatchStatusStep DEF new
<1>3. QED BY <1>1, <1>2, PassStep, CallFailsStep DEF TrackPipeline

\* The four Ensure...IsTracked operations without attempts.
LEMMA TrackedStep ==
  ASSUME Inv, UNCHANGED environment,
         \/ EnsureTenantCollectorsPipelineIsTracked
         \/ EnsureManagedCollectorsPipelineIsTracked
         \/ EnsureTenantPipelineProcessingIsTracked
         \/ EnsureFinalPipelineProcessingIsTracked
  PROVE  Inv'
BY OperationNames, TrackPipelineStep
   DEF EnsureTenantCollectorsPipelineIsTracked, EnsureManagedCollectorsPipelineIsTracked,
       EnsureTenantPipelineProcessingIsTracked, EnsureFinalPipelineProcessingIsTracked, Phases

\* EnsureManagedPipelineProcessingIsTracked preserves the invariant.
LEMMA ManagedTrackedStep ==
  ASSUME Inv, UNCHANGED environment, EnsureManagedPipelineProcessingIsTracked
  PROVE  Inv'
<1> DEFINE op == "ManagedCompleted"
           done == MarkCurrentManagedPipelineAttemptProcessed(mem)
           failed(b) == MarkCurrentManagedPipelineAttemptFailed(mem, b)
<1>1. pc \in AfterRunning /\ op \in Operations
  BY OperationNames DEF EnsureManagedPipelineProcessingIsTracked
<1>2. Good(mem) /\ Begun(mem)
  BY <1>1, RelGood DEF Inv
<1>3. Good(done) /\ Begun(done) /\ Begun(Patched(done))
  BY <1>1, <1>2, AttemptProcessedConsistent, BegunPatched DEF Good
<1>4. \A b \in BOOLEAN : Good(failed(b)) /\ Begun(failed(b))
  BY <1>2, AttemptFailedConsistent DEF Good
<1>5. \A x : AttemptVerdicts(x) \subseteq BOOLEAN
  BY DEF AttemptVerdicts
<1>6. \/ Pass(op)
      \/ PatchStatus(done, op)
      \/ \E b \in BOOLEAN : PatchStatus(failed(b), op)
      \/ /\ Fault
         /\ WriteRelease(Patched(failed(FALSE))) /\ ContinueWith(op, Patched(failed(FALSE)))
         /\ UNCHANGED queued /\ UNCHANGED objects
      \/ CallFails
  BY <1>5 DEF EnsureManagedPipelineProcessingIsTracked, registerManagedProcessingStatus
<1> HIDE DEF op, done, failed
<1>7. CASE Pass(op)
  BY <1>1, <1>2, <1>7, PassStep
<1>8. CASE PatchStatus(done, op)
  BY <1>1, <1>3, <1>8, PatchStatusStep
<1>9. ASSUME NEW b \in BOOLEAN, PatchStatus(failed(b), op)
      PROVE  Inv'
  <2> DEFINE new == failed(b)
  <2>1. Good(new) /\ Begun(new) /\ PatchStatus(new, op)
    BY <1>4, <1>9
  <2> HIDE DEF new
  <2>2. Begun(Patched(new))
    BY <1>1, <2>1, BegunPatched
  <2>3. QED BY <1>1, <2>1, <2>2, PatchStatusStep
<1>10. CASE /\ Fault
            /\ WriteRelease(Patched(failed(FALSE))) /\ ContinueWith(op, Patched(failed(FALSE)))
            /\ UNCHANGED queued /\ UNCHANGED objects
  <2> DEFINE new == failed(FALSE)
  <2>1. Good(new) /\ Begun(new)
    BY <1>4
  <2>2. /\ Fault
        /\ WriteRelease(Patched(new)) /\ ContinueWith(op, Patched(new))
        /\ UNCHANGED queued /\ UNCHANGED objects
    BY <1>10
  <2> HIDE DEF new
  <2>3. Good(Patched(new)) /\ Begun(Patched(new))
    BY <1>1, <2>1, PatchedGood, BegunPatched
  <2>4. rel' = Patched(new) /\ cache' \in {cache, rel'}
    BY <2>2, WriteStep
  <2>5. queued' \in BOOLEAN /\ faults' \in 0 .. MaxFaults
    BY <2>2, FaultType DEF Inv, TypeOK
  <2>6. QED BY <1>1, <2>2, <2>3, <2>4, <2>5, ObjectsKept, ContinueStep
<1>11. QED BY <1>6, <1>7, <1>8, <1>9, <1>10, CallFailsStep

\* A retry that fails preserves the invariant.
LEMMA RetryFailsStep ==
  ASSUME Inv, UNCHANGED environment, pc \in AfterRunning, NEW op \in Operations,
         isPhaseProgressing(mem, "managed"), NEW created,
         created \subseteq PipelineRun, \A x \in created : x.phase = "managed",
         RetryFails(created, op)
  PROVE  Inv'
<1> DEFINE new == FailPhase(mem, "managed")
<1>1. Good(mem) /\ Begun(mem)
  BY RelGood DEF Inv
<1>2. Planned("managed") /\ Ready(mem, "managed") /\ "managed" \in Phases
  BY <1>1 DEF Good, Consistent, Unplanned, InOrder, Ready, isPhaseProgressing, Phases
<1>3. ObjectsOK'
  BY <1>2 DEF RetryFails, Inv, ObjectsOK, Planned, environment
<1>4. faults' \in 0 .. MaxFaults
  BY FaultType DEF RetryFails
<1>5. Good(new) /\ Begun(new)
  BY <1>1, <1>2, FailPhaseConsistent DEF Good
<1>6. \/ Requeue /\ UNCHANGED <<rel, cache>>
      \/ WriteRelease(Patched(new)) /\ ContinueWith(op, Patched(new)) /\ UNCHANGED queued
  BY DEF RetryFails
<1> HIDE DEF new
<1>7. Good(Patched(new)) /\ Begun(Patched(new))
  BY <1>5, PatchedGood, BegunPatched
<1>8. CASE Requeue /\ UNCHANGED <<rel, cache>>
  BY <1>3, <1>4, <1>8, RequeueStep
<1>9. CASE WriteRelease(Patched(new)) /\ ContinueWith(op, Patched(new)) /\ UNCHANGED queued
  <2>1. rel' = Patched(new) /\ cache' \in {cache, rel'}
    BY <1>9, WriteStep
  <2>2. queued' \in BOOLEAN
    BY <1>9 DEF Inv, TypeOK
  <2>3. QED BY <1>3, <1>4, <1>7, <1>9, <2>1, <2>2, ContinueStep
<1>10. QED BY <1>6, <1>8, <1>9

\* A retry preserves the invariant.
LEMMA RetryStep ==
  ASSUME Inv, UNCHANGED environment, pc \in AfterRunning, NEW op \in Operations,
         isPhaseProgressing(mem, "managed"), retryManagedPipeline(op)
  PROVE  Inv'
<1> DEFINE next == GetManagedPipelineRetryCount(mem) + 1
           registered == RegisterAttempt(mem, AttemptBinding(<< >>))
           new == IF Listed("managed", next) = {} THEN {NewRun("managed", next, << >>)} ELSE {}
<1>1. Good(mem) /\ Begun(mem)
  BY RelGood DEF Inv
<1>2. /\ Planned("managed") /\ Ready(mem, "managed") /\ ~hasPhaseFinished(mem, "managed")
      /\ "managed" \in Phases
  BY <1>1 DEF Good, Consistent, Unplanned, InOrder, Ready, isPhaseProgressing, hasPhaseFinished, Phases
<1>3. next \in Nat /\ << >> \in Seq(Slots)
  BY <1>1 DEF Good, Release, GetManagedPipelineRetryCount
<1>4. new \subseteq PipelineRun /\ \A x \in new : x.phase = "managed"
  <2> HIDE DEF next
  <2>1. /\ NewRun("managed", next, << >>) \in PipelineRun
        /\ NewRun("managed", next, << >>).phase = "managed"
    BY <1>2, <1>3, NewRunType
  <2>2. QED BY <2>1
<1>5. Good(registered) /\ Begun(registered) /\ Begun(Patched(registered))
  BY <1>2, <1>3, RegisterAttemptGood, BegunPatched
<1>6. \/ /\ runs' = runs \cup new
         /\ made' = IF new = {} THEN made ELSE made + 1
         /\ UNCHANGED bindings
         /\ \/ PatchSucceeds(registered, op)
            \/ ~rel.present /\ Requeue /\ UNCHANGED <<rel, cache, faults>>
      \/ \E created \in {{}, new} : RetryFails(created, op)
  BY DEF retryManagedPipeline
<1> HIDE DEF new, registered, next
<1>7. CASE /\ runs' = runs \cup new
           /\ made' = IF new = {} THEN made ELSE made + 1
           /\ UNCHANGED bindings
           /\ \/ PatchSucceeds(registered, op)
              \/ ~rel.present /\ Requeue /\ UNCHANGED <<rel, cache, faults>>
  <2>1. ObjectsOK'
    BY <1>2, <1>4, <1>7 DEF Inv, ObjectsOK, Planned, environment
  <2>2. CASE PatchSucceeds(registered, op)
    BY <1>5, <2>1, <2>2, PatchSucceedsStep
  <2>3. CASE Requeue /\ UNCHANGED <<rel, cache, faults>>
    <3>1. faults' \in 0 .. MaxFaults
      BY <2>3 DEF Inv, TypeOK
    <3>2. QED BY <2>1, <2>3, <3>1, RequeueStep
  <2>4. QED BY <1>7, <2>2, <2>3
<1>8. ASSUME NEW created \in {{}, new}, RetryFails(created, op)
      PROVE  Inv'
  BY <1>4, <1>8, RetryFailsStep
<1>9. QED BY <1>6, <1>7, <1>8

\* EnsureManagedPipelineProcessingIsCompleted preserves the invariant.
LEMMA ManagedCompletedStep ==
  ASSUME Inv, UNCHANGED environment, EnsureManagedPipelineProcessingIsCompleted
  PROVE  Inv'
<1> DEFINE op == "FinalProcessed"
           new == MarkReleaseFailed(MarkPipelineProcessingFailed(mem, "managed"))
<1>1. pc \in AfterRunning /\ op \in Operations /\ "managed" \in Phases
  BY OperationNames DEF EnsureManagedPipelineProcessingIsCompleted, Phases
<1>2. Good(mem) /\ Begun(mem)
  BY <1>1, RelGood DEF Inv
<1>3. Good(new) /\ Begun(new)
  <2>1. /\ MarkPipelineProcessingFailed(mem, "managed") \in Release
        /\ Begun(MarkPipelineProcessingFailed(mem, "managed"))
    BY <1>1, <1>2, MarkTypes, MarksBegun DEF Good
  <2>2. QED BY <1>1, <1>2, <2>1, MarkTypes, FailConsistent, MarksBegun DEF Good
<1>4. \/ Pass(op)
      \/ NotAvailable
      \/ isPhaseProgressing(mem, "managed") /\ retryManagedPipeline(op)
      \/ PatchStatus(new, op)
      \/ CallFails
  BY DEF EnsureManagedPipelineProcessingIsCompleted
<1> HIDE DEF new, op
<1>5. Begun(Patched(new))
  BY <1>1, <1>3, BegunPatched
<1>6. QED
  BY <1>1, <1>2, <1>3, <1>4, <1>5, PassStep, NotAvailableStep, RetryStep, PatchStatusStep, CallFailsStep

\* EnsureReleaseIsCompleted preserves the invariant.
LEMMA ReleaseIsCompletedStep ==
  ASSUME Inv, UNCHANGED environment, EnsureReleaseIsCompleted
  PROVE  Inv'
<1> DEFINE new == MarkReleased(mem)
<1>1. pc \in AfterRunning /\ ObjectsOK'
  BY OperationNames, ObjectsKept DEF EnsureReleaseIsCompleted
<1>2. Good(mem) /\ Begun(mem)
  BY <1>1, RelGood DEF Inv
<1>3. \/ StopProcessing /\ UNCHANGED <<rel, cache, queued, faults>>
      \/ /\ IsProcessedSuccessfully(mem, "final")
         /\ WriteRelease(Patched(new)) /\ StopProcessing /\ UNCHANGED <<queued, faults>>
      \/ PatchFails
  BY DEF EnsureReleaseIsCompleted
<1>4. CASE StopProcessing /\ UNCHANGED <<rel, cache, queued, faults>>
  <2>1. Good(rel') /\ cache' \in {cache, rel'} /\ (Begun(rel) => Begun(rel'))
    BY <1>4, RelGood
  <2>2. queued' \in BOOLEAN /\ faults' \in 0 .. MaxFaults
    BY <1>4 DEF Inv, TypeOK
  <2>3. QED BY <1>1, <1>4, <2>1, <2>2, EndStep
<1>5. CASE /\ IsProcessedSuccessfully(mem, "final")
           /\ WriteRelease(Patched(new)) /\ StopProcessing /\ UNCHANGED <<queued, faults>>
  <2>1. Good(new) /\ Begun(new)
    BY <1>2, <1>5, MarkTypes, ReleasedConsistent, MarksBegun DEF Good, Phases
  <2> HIDE DEF new
  <2>2. Good(Patched(new)) /\ Begun(Patched(new))
    BY <1>1, <2>1, PatchedGood, BegunPatched
  <2>3. rel' = Patched(new) /\ cache' \in {cache, rel'}
    BY <1>5, WriteStep
  <2>4. queued' \in BOOLEAN /\ faults' \in 0 .. MaxFaults
    BY <1>5 DEF Inv, TypeOK
  <2>5. QED BY <1>1, <1>5, <2>2, <2>3, <2>4, EndStep
<1>6. CASE PatchFails
  BY <1>1, <1>6, PatchFailsStep
<1>7. QED BY <1>3, <1>4, <1>5, <1>6

-----------------------------------------------------------------------------
(* The steps around the controller. *)

\* A step that leaves the adapter alone and writes neither conditions nor, but
\* for the cache catching up, any copy of the Release.
LEMMA AroundStep ==
  ASSUME Inv, plan' = plan, UNCHANGED unmoved,
         rel' \in Release, rel'.conds = rel.conds, cache' \in {cache, rel'},
         admission' \in {"active", "unavailable"}, queued' \in BOOLEAN, ObjectsOK',
         faults' \in 0 .. MaxFaults, disruptions' \in 0 .. MaxDisruptions
  PROVE  Inv'
<1>1. mem' = mem /\ pc' = pc
  BY DEF unmoved
<1>2. Good(rel') /\ (Begun(rel) => Begun(rel'))
  BY RelGood, SameConditions DEF Good
<1>3. Good(cache') /\ Good(mem')
  BY <1>1, <1>2, RelGood
<1>4. TypeOK'
  BY <1>1, <1>2, <1>3 DEF Inv, TypeOK, Good, ObjectsOK
<1>5. Consistent(rel)' /\ Consistent(cache)' /\ Consistent(mem)'
  BY <1>2, <1>3, ConsistentNext DEF Good
<1>6. (pc \in AfterRunning => Begun(mem))'
  BY <1>1 DEF Inv, AfterRunning, Operations, Begun
<1>7. (Begun(cache) \/ Begun(mem) => Begun(rel))'
  BY <1>1, <1>2 DEF Inv, Begun
<1>8. QED BY <1>4, <1>5, <1>6, <1>7 DEF Inv

\* PipelineRuns are finished, marked as deleted, shown by the cache or removed:
\* those that remain are typed and of the same phases.
LEMMA RunsChanged ==
  ASSUME Inv, plan' = plan, UNCHANGED <<bindings, made>>, runs' \subseteq PipelineRun,
         \A x \in runs' : \E y \in runs : x.phase = y.phase
  PROVE  ObjectsOK'
BY DEF Inv, ObjectsOK, Planned

\* FinishRun, DeleteRun and ObserveRun change PipelineRuns only.
LEMMA RunStep ==
  ASSUME Inv, FinishRun \/ DeleteRun \/ ObserveRun
  PROVE  Inv'
<1>1. ASSUME NEW x \in runs, NEW s \in {"succeeded", "error", "exhausted"}
      PROVE  /\ [x EXCEPT !.state = s, !.seen = TRUE] \in PipelineRun
             /\ [x EXCEPT !.state = s, !.seen = TRUE].phase = x.phase
             /\ [x EXCEPT !.deleting = TRUE, !.seen = TRUE] \in PipelineRun
             /\ [x EXCEPT !.deleting = TRUE, !.seen = TRUE].phase = x.phase
             /\ [x EXCEPT !.seen = TRUE] \in PipelineRun
             /\ [x EXCEPT !.seen = TRUE].phase = x.phase
  <2>1. x \in PipelineRun
    BY DEF Inv, ObjectsOK
  <2>2. QED BY <2>1 DEF PipelineRun
<1>2. /\ plan' = plan /\ UNCHANGED <<admission, rel, cache, bindings, made, faults>>
      /\ UNCHANGED unmoved
  BY DEF FinishRun, DeleteRun, ObserveRun
<1>3. queued' \in BOOLEAN /\ disruptions' \in 0 .. MaxDisruptions
  <2>1. CASE FinishRun \/ ObserveRun
    BY <2>1 DEF FinishRun, ObserveRun, Inv, TypeOK
  <2>2. CASE DeleteRun
    <3>1. queued' \in BOOLEAN
      BY <2>2 DEF DeleteRun, Inv, TypeOK
    <3>2. disruptions' \in 0 .. MaxDisruptions
      BY <2>2, BoundsAssumption DEF DeleteRun, Disrupt, Inv, TypeOK
    <3>3. QED BY <3>1, <3>2
  <2>3. QED BY <2>1, <2>2
<1>4. runs' \subseteq PipelineRun /\ \A x \in runs' : \E y \in runs : x.phase = y.phase
  <2>1. CASE FinishRun
    <3>1. PICK x \in {y \in runs : y.state = "running"}, s \in {"succeeded", "error", "exhausted"} :
            runs' = (runs \ {x}) \cup {[x EXCEPT !.state = s, !.seen = TRUE]}
      BY <2>1 DEF FinishRun, Outcomes
    <3>2. x \in runs
      OBVIOUS
    <3> DEFINE z == [x EXCEPT !.state = s, !.seen = TRUE]
    <3>3. z \in PipelineRun /\ z.phase = x.phase
      BY <3>2, <1>1
    <3> HIDE DEF z
    <3>4. runs' = (runs \ {x}) \cup {z}
      BY <3>1 DEF z
    <3>5. QED BY <3>2, <3>3, <3>4 DEF Inv, ObjectsOK
  <2>2. CASE DeleteRun
    <3>1. PICK x \in runs :
            \/ runs' = (runs \ {x}) \cup {[x EXCEPT !.deleting = TRUE, !.seen = TRUE]}
            \/ runs' = runs \ {x}
      BY <2>2 DEF DeleteRun
    <3>2. QED BY <3>1, <1>1, ZenonT(60) DEF Inv, ObjectsOK
  <2>3. CASE ObserveRun
    <3>1. PICK x \in runs : runs' = (runs \ {x}) \cup {[x EXCEPT !.seen = TRUE]}
      BY <2>3 DEF ObserveRun
    <3>2. QED BY <3>1, <1>1 DEF Inv, ObjectsOK
  <2>4. QED BY <2>1, <2>2, <2>3
<1>5. ObjectsOK'
  BY <1>2, <1>4, RunsChanged
<1>6. QED
  BY <1>2, <1>3, <1>5, AroundStep DEF Inv, TypeOK

\* Deleting the Release leaves its status.
LEMMA DeleteReleaseStep ==
  ASSUME Inv, DeleteRelease
  PROVE  Inv'
<1>1. /\ plan' = plan /\ UNCHANGED unmoved
      /\ UNCHANGED <<admission, runs, bindings, made, faults, disruptions>>
  BY DEF DeleteRelease, objects
<1>2. rel' \in Release /\ rel'.conds = rel.conds /\ cache' \in {cache, rel'}
  <2>1. /\ [rel EXCEPT !.deleting = TRUE] \in Release
        /\ [rel EXCEPT !.deleting = TRUE].conds = rel.conds
        /\ [rel EXCEPT !.present = FALSE] \in Release
        /\ [rel EXCEPT !.present = FALSE].conds = rel.conds
    BY DEF Inv, TypeOK, Release
  <2>2. QED BY <2>1 DEF DeleteRelease, WriteRelease
<1>3. ObjectsOK'
  BY <1>1 DEF Inv, ObjectsOK, Planned
<1>4. queued' \in BOOLEAN
  BY BoundsAssumption DEF DeleteRelease, Inv, TypeOK
<1>5. QED
  BY <1>1, <1>2, <1>3, <1>4, AroundStep DEF Inv, TypeOK

\* Steps that change no object at all.
LEMMA SurroundingsStep ==
  ASSUME Inv, ChangeAdmission \/ ObserveRelease \/ Resync
  PROVE  Inv'
<1>1. /\ plan' = plan /\ UNCHANGED unmoved /\ rel' = rel /\ cache' \in {cache, rel'}
      /\ UNCHANGED <<runs, bindings, made, faults>>
  BY DEF ChangeAdmission, ObserveRelease, Resync, objects
<1>2. queued' \in BOOLEAN
  BY DEF ChangeAdmission, ObserveRelease, Resync, Inv, TypeOK, Release
<1>3. /\ admission' \in {"active", "unavailable"}
      /\ disruptions' \in 0 .. MaxDisruptions
  BY BoundsAssumption DEF ChangeAdmission, ObserveRelease, Resync, Disrupt, Inv, TypeOK
<1>4. ObjectsOK'
  BY <1>1 DEF Inv, ObjectsOK, Planned
<1>5. QED
  BY <1>1, <1>2, <1>3, <1>4, AroundStep DEF Inv, TypeOK

\* A restart drops the adapter and refills the caches.
LEMMA RestartStep ==
  ASSUME Inv, Restart
  PROVE  Inv'
<1>1. UNCHANGED environment /\ StopProcessing /\ rel' = rel /\ cache' = rel'
  BY DEF Restart, environment
<1>2. faults' \in 0 .. MaxFaults /\ queued' \in BOOLEAN
  BY FaultType DEF Restart, Inv, TypeOK, Release
<1>3. ObjectsOK'
  <2>1. \A x \in runs : /\ [x EXCEPT !.seen = TRUE] \in PipelineRun
                        /\ [x EXCEPT !.seen = TRUE].phase = x.phase
    <3>1. \A x \in runs : x \in PipelineRun
      BY DEF Inv, ObjectsOK
    <3>2. QED BY <3>1 DEF PipelineRun
  <2>2. runs' = {[x EXCEPT !.seen = TRUE] : x \in runs} /\ plan' = plan
        /\ UNCHANGED <<bindings, made>>
    BY DEF Restart
  <2>3. QED BY <2>1, <2>2, RunsChanged
<1>4. Good(rel') /\ (Begun(rel) => Begun(rel'))
  BY <1>1, RelGood
<1>5. QED
  BY <1>1, <1>2, <1>3, <1>4, EndStep

-----------------------------------------------------------------------------
(* The theorems. *)

\* Every step, the ones that change nothing included, preserves the invariant.
LEMMA InvNext == Inv /\ [Next]_vars => Inv'
<1> SUFFICES ASSUME Inv, [Next]_vars PROVE Inv'
  OBVIOUS
<1>1. CASE Reconcile
  <2>1. UNCHANGED environment
    BY <1>1 DEF Reconcile
  <2>2. CASE ReconcileFound \/ ReconcileNotFound
    BY <2>1, <2>2, ReconcileStep
  <2>3. CASE Operation
    BY <2>1, <2>3, FinalizersAreCalledStep, CleanUpOperationsStep, ReleaseIsRunningStep,
       ReleaseIsValidStep, MetadataStep, TenantCollectorsProcessedStep,
       ManagedCollectorsProcessedStep, TenantProcessedStep, ManagedProcessedStep,
       FinalProcessedStep, TrackedStep, ManagedTrackedStep, ManagedCompletedStep,
       ReleaseIsCompletedStep
       DEF Operation
  <2>4. QED BY <1>1, <2>2, <2>3 DEF Reconcile
<1>2. CASE FinishRun \/ DeleteRun \/ ObserveRun
  BY <1>2, RunStep
<1>3. CASE DeleteRelease
  BY <1>3, DeleteReleaseStep
<1>4. CASE ChangeAdmission \/ ObserveRelease \/ Resync
  BY <1>4, SurroundingsStep
<1>5. CASE Restart
  BY <1>5, RestartStep
<1>6. CASE UNCHANGED vars
  <2>1. /\ plan' = plan /\ UNCHANGED unmoved /\ rel' = rel /\ cache' = cache
        /\ UNCHANGED <<admission, queued, runs, bindings, made, faults, disruptions>>
    BY <1>6 DEF vars, unmoved
  <2>2. ObjectsOK'
    BY <2>1 DEF Inv, ObjectsOK, Planned
  <2>3. QED BY <2>1, <2>2, AroundStep DEF Inv, TypeOK
<1>7. QED BY <1>1, <1>2, <1>3, <1>4, <1>5, <1>6 DEF Next

\* The invariant holds in every reachable state, for all plans and bounds.
THEOREM Invariance == Spec => []Inv
BY InvInit, InvNext, PTL DEF Spec

\* Every variable keeps its type.
THEOREM TypeCorrect == Spec => []TypeOK
<1>1. Inv => TypeOK
  BY DEF Inv
<1>2. QED BY <1>1, Invariance, PTL

\* No phase is begun or skipped before the ones it follows have finished, for any
\* number of faults, restarts and disruptions and with caches of any age.
THEOREM OrderIsKept == Spec => []PhasesInOrder
<1>1. Inv => PhasesInOrder
  BY DEF Inv, Consistent, PhasesInOrder
<1>2. QED BY <1>1, Invariance, PTL

\* A failed phase, or a planned phase that was skipped, means a failed Release.
THEOREM FailuresAreReported == Spec => []FailureIsReported
<1>1. Inv => FailureIsReported
  BY DEF Inv, Consistent, FailureIsReported
<1>2. QED BY <1>1, Invariance, PTL

\* A Release marked Released has run every planned pipeline with success and has
\* skipped the others.
THEOREM ReleasedIsComplete == Spec => []ReleasedMeansEverythingSucceeded
<1>1. Inv => ReleasedMeansEverythingSucceeded
  BY DEF Inv, Consistent, ReleasedMeansEverythingSucceeded
<1>2. QED BY <1>1, Invariance, PTL
=============================================================================
