-------------------------- MODULE ReleaseFresh_proofs --------------------------
(***************************************************************************)
(* Without lagging caches: the safety properties of the Release controller *)
(* for every set of plans and any number of faults and disruptions, and    *)
(* the refinement of ReleaseLife.  They follow from one invariant,         *)
(* FreshInv, and from the kinds of steps of ReleaseSteps_proofs.           *)
(***************************************************************************)
EXTENDS ReleaseSteps_proofs, ReleaseRefinement

-----------------------------------------------------------------------------
(* What the kinds of steps have in common. *)

\* No condition is taken back; a phase that begins has its PipelineRun and one that
\* succeeds a PipelineRun that has succeeded.
CondsMove ==
  /\ \A c \in ConditionTypes \ {"validated"} :
       /\ hasPhaseFinished(rel, c) => rel'.conds[c] = rel.conds[c]
       /\ rel'.conds[c] = "unset" => rel.conds[c] = "unset"
  /\ \A p \in Phases :
       /\ rel'.conds[p] = "progressing" /\ rel.conds[p] # "progressing" =>
            \E x \in runs' : x.phase = p /\ x.attempt = Current(rel', p)
       /\ rel'.conds[p] = "succeeded" /\ rel.conds[p] # "succeeded" =>
            \E x \in runs : x.phase = p /\ x.attempt = Current(rel, p) /\ x.state = "succeeded"
  /\ rel'.conds["released"] = "succeeded" =>
       rel.conds["released"] = "succeeded" \/ rel.conds["validated"] = "succeeded"
  /\ rel.conds["released"] = "succeeded" \/ rel'.conds["released"] = "succeeded" =>
       rel'.conds["validated"] = rel.conds["validated"]

\* The attempts stay, with at most a verdict on the last one, or one is added.
AttemptsMove ==
  \/ /\ Len(rel'.attempts) = Len(rel.attempts)
     /\ \A i \in 1 .. Len(rel.attempts) - 1 : rel'.attempts[i] = rel.attempts[i]
     /\ \A i \in 1 .. Len(rel.attempts) :
          rel'.attempts[i].roleBinding = rel.attempts[i].roleBinding
     /\ rel'.conds["managed"] = "progressing" => rel.conds["managed"] = "progressing"
  \/ /\ rel'.conds["managed"] = "progressing" /\ rel.conds["managed"] \in {"unset", "progressing"}
     /\ \/ rel.attempts = << >>
        \/ Last.status = "failed" /\ Last.retriable /\ Len(rel.attempts) <= plan.maxRetries
     /\ \E x \in runs' : x.phase = "managed" /\ x.attempt = Len(rel.attempts)
     /\ \E n \in Nat :
          /\ rel'.attempts = Append(rel.attempts, NewAttempt(n))
          /\ n = 0 \/ (n <= made' /\ \E b \in bindings' : b.id = n)
          /\ \A b \in bindings' : b.id = n => b.phase = "managed"

\* At most one PipelineRun is created, of a phase that has not succeeded.
RunsMove ==
  \/ UNCHANGED runs
  \/ \E p \in Phases, k \in Nat :
       AddsRun(p, k) /\ (p # "managed" => k = 0) /\ rel'.conds[p] # "succeeded"

\* RoleBindings are created for one phase, and recorded when it begins or fails.
BindingsMove ==
  \E p \in Phases :
    /\ AddsBindings(p) /\ AddsRefs(p, rel'.refs)
    /\ rel'.refs # rel.refs => rel'.conds[p] # "unset"

Moves == CondsMove /\ AttemptsMove /\ RunsMove /\ BindingsMove

-----------------------------------------------------------------------------
(* The kinds of steps are moves. *)

\* The types of the status.
LEMMA RelType ==
  ASSUME FreshInv
  PROVE  /\ rel \in Release /\ rel.conds \in [ConditionTypes -> ConditionValues]
         /\ rel.attempts \in Seq(Attempt) /\ rel.refs \in [CollectorBindings -> Nat]
         /\ made \in Nat /\ runs \subseteq PipelineRun /\ bindings \subseteq RoleBinding
BY DEF FreshInv, FinalizerInv, Inv, TypeOK, Release

\* Nothing is created.
LEMMA SameObjectsMove ==
  ASSUME FreshInv, UNCHANGED objects, rel'.refs = rel.refs
  PROVE  RunsMove /\ BindingsMove
<1>1. AddsBindings("managed")
  BY RelType DEF objects, AddsBindings
<1>2. AddsRefs("managed", rel'.refs)
  BY RelType DEF AddsRefs
<1>3. QED BY <1>1, <1>2 DEF objects, RunsMove, BindingsMove, Phases

\* One condition is set.
LEMMA SetMove ==
  ASSUME FreshInv, NEW c \in ConditionTypes, NEW v \in ConditionValues,
         rel'.conds = Set(rel.conds, c, v)
  PROVE  /\ rel'.conds[c] = v
         /\ \A d \in ConditionTypes \ {c} : rel'.conds[d] = rel.conds[d]
BY RelType, SetType

\* A phase or the validation fails, and the Release with it.
LEMMA FailedMove ==
  ASSUME FreshInv, NEW c \in ConditionTypes,
         rel'.conds = Set(Set(rel.conds, c, "failed"), "released", "failed")
  PROVE  /\ rel'.conds[c] = "failed" /\ rel'.conds["released"] = "failed"
         /\ \A d \in ConditionTypes \ {c, "released"} : rel'.conds[d] = rel.conds[d]
<1> DEFINE f == Set(rel.conds, c, "failed")
<1>1. "failed" \in ConditionValues /\ rel.conds \in [ConditionTypes -> ConditionValues]
  BY RelType DEF ConditionValues
<1>2. /\ f \in [ConditionTypes -> ConditionValues]
      /\ \A d \in ConditionTypes : f[d] = IF d = c THEN "failed" ELSE rel.conds[d]
  BY <1>1, SetType
<1> HIDE DEF f
<1>3. \A d \in ConditionTypes : Set(f, "released", "failed")[d] = IF d = "released" THEN "failed" ELSE f[d]
  BY <1>1, <1>2, SetType, PhaseTypes
<1>4. rel'.conds = Set(f, "released", "failed")
  BY DEF f
<1>5. QED BY <1>2, <1>3, <1>4, PhaseTypes

\* The attempts are left alone and the managed pipeline does not begin.
LEMMA SameAttemptsMove ==
  ASSUME rel'.attempts = rel.attempts,
         rel'.conds["managed"] = "progressing" => rel.conds["managed"] = "progressing"
  PROVE  AttemptsMove
BY DEF AttemptsMove

\* A step that leaves the status alone is a move of the conditions and attempts.
LEMMA SameStatusMove ==
  ASSUME FreshInv, rel'.conds = rel.conds, rel'.attempts = rel.attempts
  PROVE  CondsMove /\ AttemptsMove
BY SameAttemptsMove DEF CondsMove, FreshInv, StatusOK, ReleasedIsValidated

\* Starting, judging and completing the Release.
LEMMA ReleaseMoves ==
  ASSUME FreshInv, UNCHANGED objects, Started \/ Accepted \/ Rejected \/ Completed
  PROVE  Moves
<1>1. rel'.attempts = rel.attempts /\ rel'.refs = rel.refs
  BY DEF Started, Accepted, Rejected, Completed, Change, Status
<1>2. RunsMove /\ BindingsMove
  BY <1>1, SameObjectsMove
<1>3. \A p \in Phases : rel'.conds[p] = rel.conds[p]
  <2>1. CASE Started \/ Accepted \/ Completed
    BY <2>1, SetMove, PhaseTypes DEF Started, Accepted, Completed, Change, Status, ConditionValues
  <2>2. CASE Rejected
    <3>1. rel'.conds = Set(Set(rel.conds, "validated", "failed"), "released", "failed")
      BY <2>2 DEF Rejected, Change, Status
    <3>2. QED BY <3>1, FailedMove, PhaseTypes
  <2>3. QED BY <2>1, <2>2
<1>4. /\ hasPhaseFinished(rel, "released") => rel'.conds["released"] = rel.conds["released"]
      /\ rel'.conds["released"] # "unset"
      /\ rel'.conds["released"] = "succeeded" => rel.conds["validated"] = "succeeded"
      /\ rel.conds["released"] # "succeeded"
      /\ rel'.conds["released"] = "succeeded" => rel'.conds["validated"] = rel.conds["validated"]
  <2>1. CASE Started
    BY <2>1, SetMove, PhaseTypes DEF Started, Change, Status, ConditionValues, hasPhaseFinished
  <2>2. CASE Accepted
    BY <2>2, SetMove, PhaseTypes DEF Accepted, Change, Status, ConditionValues, hasPhaseFinished
  <2>3. CASE Completed
    BY <2>3, SetMove, PhaseTypes DEF Completed, Change, Status, ConditionValues, hasPhaseFinished
  <2>4. CASE Rejected
    <3>1. rel'.conds = Set(Set(rel.conds, "validated", "failed"), "released", "failed")
      BY <2>4 DEF Rejected, Change, Status
    <3>3. rel'.conds["released"] = "failed"
      BY <3>1, FailedMove, PhaseTypes
    <3>4. QED BY <2>4, <3>3 DEF Rejected, hasPhaseFinished
  <2>5. QED BY <2>1, <2>2, <2>3, <2>4
<1>5. CondsMove
  BY <1>3, <1>4 DEF CondsMove, ConditionTypes
<1>6. AttemptsMove
  BY <1>1, <1>3, SameAttemptsMove DEF Phases
<1>7. QED BY <1>2, <1>5, <1>6 DEF Moves


\* A phase that has not finished changes, and the Release may fail.
LEMMA PhaseChanges ==
  ASSUME FreshInv, NEW p \in Phases, ~hasPhaseFinished(rel, p), rel'.conds[p] # "unset",
         \A d \in ConditionTypes \ {p, "released"} : rel'.conds[d] = rel.conds[d],
         \/ rel'.conds["released"] = rel.conds["released"]
         \/ rel'.conds["released"] = "failed" /\ rel.conds["released"] \in {"progressing", "failed"},
         rel'.conds[p] = "progressing" /\ rel.conds[p] # "progressing" =>
           \E x \in runs' : x.phase = p /\ x.attempt = Current(rel', p),
         rel'.conds[p] = "succeeded" =>
           \E x \in runs : x.phase = p /\ x.attempt = Current(rel, p) /\ x.state = "succeeded"
  PROVE  CondsMove
<1>1. "released" \notin Phases /\ "validated" \notin Phases /\ Phases \subseteq ConditionTypes
  BY PhaseTypes DEF Phases
<1>2. ReleasedIsValidated
  BY DEF FreshInv, StatusOK
<1>3. \A c \in ConditionTypes \ {"validated"} :
        /\ hasPhaseFinished(rel, c) => rel'.conds[c] = rel.conds[c]
        /\ rel'.conds[c] = "unset" => rel.conds[c] = "unset"
  BY <1>1 DEF hasPhaseFinished
<1>4. \A q \in Phases \ {p} : rel'.conds[q] = rel.conds[q]
  BY <1>1
<1>5. rel'.conds["validated"] = rel.conds["validated"]
  BY <1>1, PhaseTypes
<1>6. QED BY <1>2, <1>3, <1>4, <1>5 DEF CondsMove, ReleasedIsValidated

\* The managed pipeline is not the one that begins.
LEMMA OtherPhase ==
  ASSUME NEW p \in Phases, p # "managed", rel'.attempts = rel.attempts,
         \A d \in ConditionTypes \ {p, "released"} : rel'.conds[d] = rel.conds[d]
  PROVE  AttemptsMove /\ Current(rel', p) = 0 /\ Current(rel, p) = 0
<1>1. rel'.conds["managed"] = rel.conds["managed"]
  BY DEF ConditionTypes, Phases
<1>2. QED BY <1>1, SameAttemptsMove DEF Current

\* The status steps of a phase.
LEMMA PhaseMoves ==
  ASSUME FreshInv, UNCHANGED objects, NEW p \in Phases,
         Skipped(p) \/ Registered(p) \/ Succeeded(p) \/ Failed(p)
  PROVE  Moves
<1>1. rel'.attempts = rel.attempts /\ rel'.refs = rel.refs
  BY DEF Skipped, Registered, Succeeded, Failed, Change, Status
<1>2. RunsMove /\ BindingsMove
  BY <1>1, SameObjectsMove
<1>3. p \in ConditionTypes /\ p # "released"
  BY PhaseTypes DEF Phases
<1>4. CASE Skipped(p)
  <2>1. rel'.conds[p] = "skipped" /\ \A d \in ConditionTypes \ {p} : rel'.conds[d] = rel.conds[d]
    BY <1>3, <1>4, SetMove DEF Skipped, Change, Status, ConditionValues
  <2>2. ~hasPhaseFinished(rel, p)
    BY <1>4 DEF Skipped, Due
  <2>3. rel'.conds["released"] = rel.conds["released"]
    BY <1>3, <2>1, PhaseTypes
  <2>4. CondsMove
    BY <2>1, <2>2, <2>3, PhaseChanges
  <2>5. AttemptsMove
    BY <1>1, <2>1, SameAttemptsMove, PhaseTypes DEF Phases, ConditionTypes
  <2>6. QED BY <1>2, <2>4, <2>5 DEF Moves
<1>5. CASE Registered(p)
  <2>1. rel'.conds[p] = "progressing" /\ \A d \in ConditionTypes \ {p} : rel'.conds[d] = rel.conds[d]
    BY <1>3, <1>5, SetMove DEF Registered, Change, Status, ConditionValues
  <2>2. ~hasPhaseFinished(rel, p) /\ Has(p, 0) /\ p # "managed"
    BY <1>5 DEF Registered, MayRun, Due
  <2>3. rel'.conds["released"] = rel.conds["released"]
    BY <1>3, <2>1, PhaseTypes
  <2>4. AttemptsMove /\ Current(rel', p) = 0
    BY <1>1, <2>1, <2>2, OtherPhase
  <2>5. \E x \in runs' : x.phase = p /\ x.attempt = 0
    BY <2>2 DEF Has, objects
  <2>6. CondsMove
    BY <2>1, <2>2, <2>3, <2>4, <2>5, PhaseChanges
  <2>7. QED BY <1>2, <2>4, <2>6 DEF Moves
<1>6. CASE Succeeded(p)
  <2>1. rel'.conds[p] = "succeeded" /\ \A d \in ConditionTypes \ {p} : rel'.conds[d] = rel.conds[d]
    BY <1>3, <1>6, SetMove DEF Succeeded, Change, Status, ConditionValues
  <2>2. ~hasPhaseFinished(rel, p) /\ p # "managed"
    BY <1>6 DEF Succeeded, isPhaseProgressing, hasPhaseFinished
  <2>3. rel'.conds["released"] = rel.conds["released"]
    BY <1>3, <2>1, PhaseTypes
  <2>4. AttemptsMove /\ Current(rel, p) = 0
    BY <1>1, <2>1, <2>2, OtherPhase
  <2>5. \E x \in runs : x.phase = p /\ x.attempt = 0 /\ x.state = "succeeded"
    BY <1>6 DEF Succeeded
  <2>6. CondsMove
    BY <2>1, <2>2, <2>3, <2>4, <2>5, PhaseChanges
  <2>7. QED BY <1>2, <2>4, <2>6 DEF Moves
<1>7. CASE Failed(p)
  <2>1. /\ rel'.conds[p] = "failed" /\ rel'.conds["released"] = "failed"
        /\ \A d \in ConditionTypes \ {p, "released"} : rel'.conds[d] = rel.conds[d]
    BY <1>3, <1>7, FailedMove DEF Failed, Change, Status, FailedConds
  <2>2. ~hasPhaseFinished(rel, p) /\ rel.conds["released"] \in {"progressing", "failed"}
    BY <1>7 DEF Failed, isPhaseProgressing, hasPhaseFinished
  <2>3. CondsMove
    BY <2>1, <2>2, PhaseChanges
  <2>4. AttemptsMove
    BY <1>1, <2>1, SameAttemptsMove, PhaseTypes DEF Phases, ConditionTypes
  <2>5. QED BY <1>2, <2>3, <2>4 DEF Moves
<1>8. QED BY <1>4, <1>5, <1>6, <1>7

\* A verdict on the last attempt.
LEMMA VerdictMove ==
  ASSUME FreshInv, NEW v \in Attempt, rel.attempts # << >>, v.roleBinding = Last.roleBinding,
         rel'.attempts = [rel.attempts EXCEPT ![Len(rel.attempts)] = v],
         rel'.conds["managed"] = "progressing" => rel.conds["managed"] = "progressing"
  PROVE  AttemptsMove
<1>1. rel.attempts \in Seq(Attempt) /\ Len(rel.attempts) \in 1 .. Len(rel.attempts)
  BY RelType
<1>2. Len(rel'.attempts) = Len(rel.attempts)
  BY <1>1
<1>3. \A i \in 1 .. Len(rel.attempts) - 1 : rel'.attempts[i] = rel.attempts[i]
  BY <1>1
<1>4. \A i \in 1 .. Len(rel.attempts) :
          rel'.attempts[i].roleBinding = rel.attempts[i].roleBinding
  BY <1>1 DEF Last
<1>5. QED BY <1>2, <1>3, <1>4 DEF AttemptsMove

\* The attempt of the managed pipeline succeeds or fails.
LEMMA AttemptMoves ==
  ASSUME FreshInv, UNCHANGED objects, AttemptSucceeded \/ AttemptFailed
  PROVE  Moves
<1>1. rel'.refs = rel.refs /\ rel.conds["managed"] = "progressing"
  BY DEF AttemptSucceeded, AttemptFailed, Status, isPhaseProgressing
<1>2. RunsMove /\ BindingsMove
  BY <1>1, SameObjectsMove
<1>3. rel.attempts # << >>
  BY <1>1 DEF FreshInv, StatusOK
<1>4. Last \in Attempt
  BY <1>3, RelType DEF Last
<1>5. CASE AttemptSucceeded
  <2>1. /\ rel'.conds["managed"] = "succeeded"
        /\ \A d \in ConditionTypes \ {"managed"} : rel'.conds[d] = rel.conds[d]
    BY <1>5, SetMove, PhaseTypes DEF AttemptSucceeded, Status, ConditionValues, Phases
  <2>2. \E x \in runs : x.phase = "managed" /\ x.attempt = Current(rel, "managed") /\ x.state = "succeeded"
    BY <1>5 DEF AttemptSucceeded, Current
  <2>3. CondsMove
    BY <1>1, <2>1, <2>2, PhaseChanges DEF Phases, ConditionTypes, hasPhaseFinished
  <2>4. /\ [Last EXCEPT !.status = "succeeded"] \in Attempt
        /\ [Last EXCEPT !.status = "succeeded"].roleBinding = Last.roleBinding
    BY <1>4 DEF Attempt
  <2>5. rel'.attempts = [rel.attempts EXCEPT ![Len(rel.attempts)] = [Last EXCEPT !.status = "succeeded"]]
    BY <1>5 DEF AttemptSucceeded, Status
  <2>6. AttemptsMove
    BY <1>3, <2>1, <2>4, <2>5, VerdictMove
  <2>7. QED BY <1>2, <2>3, <2>6 DEF Moves
<1>6. CASE AttemptFailed
  <2>1. PICK v \in BOOLEAN :
          Status(rel.conds, [rel.attempts EXCEPT ![Len(rel.attempts)] =
                               [Last EXCEPT !.status = "failed", !.retriable = v]], rel.refs)
    BY <1>6 DEF AttemptFailed
  <2>2. rel'.conds = rel.conds
    BY <2>1 DEF Status
  <2>3. CondsMove
    BY <2>2 DEF CondsMove, FreshInv, StatusOK, ReleasedIsValidated
  <2>4. /\ [Last EXCEPT !.status = "failed", !.retriable = v] \in Attempt
        /\ [Last EXCEPT !.status = "failed", !.retriable = v].roleBinding = Last.roleBinding
    BY <1>4 DEF Attempt
  <2>5. rel'.attempts = [rel.attempts EXCEPT ![Len(rel.attempts)] =
                           [Last EXCEPT !.status = "failed", !.retriable = v]]
    BY <2>1 DEF Status
  <2>6. AttemptsMove
    BY <1>3, <2>2, <2>4, <2>5, VerdictMove
  <2>7. QED BY <1>2, <2>3, <2>6 DEF Moves
<1>7. QED BY <1>5, <1>6

\* So every status step is a move.
LEMMA StatusMoves ==
  ASSUME FreshInv, StatusStep
  PROVE  Moves
<1>1. UNCHANGED objects
  BY DEF StatusStep
<1>2. CASE UNCHANGED rel
  BY <1>1, <1>2, SameStatusMove, SameObjectsMove DEF Moves
<1>3. QED BY <1>1, <1>2, ReleaseMoves, PhaseMoves, AttemptMoves DEF StatusStep

-----------------------------------------------------------------------------
(* The steps that create. *)

\* Nothing is recorded.
LEMMA UnrecordedMove ==
  ASSUME FreshInv, NEW p \in Phases, UNCHANGED rel, AddsBindings(p), RunsMove
  PROVE  Moves
<1>1. AddsRefs(p, rel'.refs)
  BY RelType DEF AddsRefs
<1>2. BindingsMove
  BY <1>1 DEF BindingsMove
<1>3. QED BY <1>2, SameStatusMove DEF Moves

\* The PipelineRun of a phase is created.
LEMMA CreatedMoves ==
  ASSUME FreshInv, NEW p \in Phases, Created(p)
  PROVE  Moves
<1>1. /\ p # "managed" /\ rel.conds[p] = "unset" /\ AddsRun(p, 0) /\ AddsBindings(p)
      /\ p \in ConditionTypes /\ p # "released"
  BY PhaseTypes DEF Created, Phases
<1>2. CASE UNCHANGED rel
  <2>1. RunsMove
    BY <1>1, <1>2 DEF RunsMove
  <2>2. QED BY <1>1, <1>2, <2>1, UnrecordedMove
<1>3. ASSUME NEW refs, AddsRefs(p, refs), Status(Set(rel.conds, p, "progressing"), rel.attempts, refs)
      PROVE  Moves
  <2>1. /\ rel'.conds[p] = "progressing" /\ \A d \in ConditionTypes \ {p} : rel'.conds[d] = rel.conds[d]
        /\ rel'.attempts = rel.attempts /\ rel'.refs = refs
    BY <1>1, <1>3, SetMove DEF Status, ConditionValues
  <2>2. rel'.conds["released"] = rel.conds["released"]
    BY <1>1, <2>1, PhaseTypes
  <2>3. AttemptsMove /\ Current(rel', p) = 0
    BY <1>1, <2>1, OtherPhase
  <2>4. \E x \in runs' : x.phase = p /\ x.attempt = 0
    BY <1>1 DEF AddsRun, IsNew
  <2>5. CondsMove
    BY <1>1, <2>1, <2>2, <2>3, <2>4, PhaseChanges DEF hasPhaseFinished
  <2>6. RunsMove
    BY <1>1, <2>1 DEF RunsMove
  <2>7. BindingsMove
    BY <1>1, <1>3, <2>1 DEF BindingsMove
  <2>8. QED BY <2>3, <2>5, <2>6, <2>7 DEF Moves
<1>4. QED BY <1>2, <1>3 DEF Created

\* The creation is refused.
LEMMA RefusedMoves ==
  ASSUME FreshInv, NEW p \in Phases, Refused(p)
  PROVE  Moves
<1>1. /\ rel.conds[p] = "unset" /\ runs' = runs /\ AddsBindings(p)
      /\ p \in ConditionTypes /\ p # "released" /\ rel.conds["released"] \in {"progressing", "failed"}
  BY PhaseTypes DEF Refused, Phases, MayRun, Due
<1>2. RunsMove
  BY <1>1 DEF RunsMove
<1>3. CASE UNCHANGED rel
  BY <1>1, <1>2, <1>3, UnrecordedMove
<1>4. ASSUME NEW refs, AddsRefs(p, refs), Status(FailedConds(p), rel.attempts, refs)
      PROVE  Moves
  <2>1. /\ rel'.conds[p] = "failed" /\ rel'.conds["released"] = "failed"
        /\ \A d \in ConditionTypes \ {p, "released"} : rel'.conds[d] = rel.conds[d]
        /\ rel'.attempts = rel.attempts /\ rel'.refs = refs
    BY <1>1, <1>4, FailedMove DEF Status, FailedConds
  <2>2. CondsMove
    BY <1>1, <2>1, PhaseChanges DEF hasPhaseFinished
  <2>3. AttemptsMove
    BY <2>1, SameAttemptsMove, PhaseTypes DEF Phases, ConditionTypes
  <2>4. BindingsMove
    BY <1>1, <1>4, <2>1 DEF BindingsMove
  <2>5. QED BY <1>2, <2>2, <2>3, <2>4 DEF Moves
<1>5. QED BY <1>3, <1>4 DEF Refused

\* The numbers of the RoleBindings are used up, and new ones are those of p.
LEMMA NewBindingPhase ==
  ASSUME FreshInv, NEW p, AddsBindings(p), NEW n \in Nat, n = 0 \/ IsNewBinding(n)
  PROVE  \A b \in bindings' : b.id = n => b.phase = p
<1>1. \A b \in bindings : 1 <= b.id /\ b.id <= made /\ b.id \in Nat
  BY RelType DEF FreshInv, BindingsOK, RoleBinding
<1>2. made \in Nat
  BY RelType
<1>3. QED BY <1>1, <1>2 DEF AddsBindings, IsNewBinding

\* The first attempt of the managed pipeline.
LEMMA FirstAttemptMoves ==
  ASSUME FreshInv, FirstAttempt
  PROVE  Moves
<1>1. /\ rel.conds["managed"] = "unset" /\ rel.attempts = << >>
      /\ "managed" \in Phases /\ "managed" \in ConditionTypes
  BY PhaseTypes DEF FirstAttempt, Phases, FreshInv, StatusOK
<1>2. AddsBindings("managed")
  BY RelType DEF FirstAttempt, objects, AddsBindings
<1>3. \E x \in runs' : x.phase = "managed" /\ x.attempt = 0
  BY DEF FirstAttempt, AddsRun, IsNew, Has, objects
<1>4. CASE UNCHANGED rel
  <2>1. RunsMove
    BY <1>1, <1>4 DEF RunsMove, FirstAttempt, objects
  <2>2. QED BY <1>1, <1>2, <1>4, <2>1, UnrecordedMove
<1>5. ASSUME NEW n \in Nat, n = 0 \/ IsNewBinding(n),
             Status(Set(rel.conds, "managed", "progressing"), <<NewAttempt(n)>>, rel.refs)
      PROVE  Moves
  <2>1. /\ rel'.conds["managed"] = "progressing"
        /\ \A d \in ConditionTypes \ {"managed"} : rel'.conds[d] = rel.conds[d]
        /\ rel'.attempts = <<NewAttempt(n)>> /\ rel'.refs = rel.refs
    BY <1>1, <1>5, SetMove DEF Status, ConditionValues
  <2>2. rel'.conds["released"] = rel.conds["released"]
    BY <2>1, PhaseTypes
  <2>3. Len(rel'.attempts) = 1 /\ Len(rel.attempts) = 0
    BY <1>1, <2>1
  <2>4. Current(rel', "managed") = 0
    BY <2>3 DEF Current
  <2>5. CondsMove
    BY <1>1, <1>3, <2>1, <2>2, <2>4, PhaseChanges DEF hasPhaseFinished
  <2>6. \A b \in bindings' : b.id = n => b.phase = "managed"
    BY <1>2, <1>5, NewBindingPhase
  <2>7. rel'.attempts = Append(rel.attempts, NewAttempt(n))
    BY <1>1, <2>1
  <2>8. n = 0 \/ (n <= made' /\ \E b \in bindings' : b.id = n)
    BY <1>5 DEF IsNewBinding
  <2>9. AttemptsMove
    BY <1>1, <1>3, <2>1, <2>3, <2>6, <2>7, <2>8 DEF AttemptsMove
  <2>10. RunsMove
    BY <1>1, <2>1 DEF RunsMove, FirstAttempt, objects
  <2>11. BindingsMove
    BY <1>1, <1>2, <2>1, RelType DEF BindingsMove, AddsRefs
  <2>12. QED BY <2>5, <2>9, <2>10, <2>11 DEF Moves
<1>6. QED BY <1>4, <1>5 DEF FirstAttempt

\* A retry.
LEMMA RetriedMoves ==
  ASSUME FreshInv, Retried
  PROVE  Moves
<1>1. /\ rel.conds["managed"] = "progressing" /\ Len(rel.attempts) \in Nat
      /\ "managed" \in Phases /\ "managed" \in ConditionTypes
      /\ UNCHANGED bindings /\ made' \in Nat /\ made <= made' /\ made \in Nat
  BY RelType, PhaseTypes DEF Retried, Phases, isPhaseProgressing
<1>2. AddsBindings("managed")
  BY <1>1 DEF AddsBindings
<1>3. ASSUME rel'.conds["managed"] # "succeeded" PROVE RunsMove
  BY <1>1, <1>3 DEF RunsMove, Retried
<1>4. ASSUME rel'.refs = rel.refs PROVE BindingsMove
  BY <1>1, <1>2, <1>4, RelType DEF BindingsMove, AddsRefs
<1>5. CASE UNCHANGED rel
  BY <1>1, <1>2, <1>3, <1>5, UnrecordedMove
<1>6. CASE Change(FailedConds("managed"))
  <2>1. /\ rel'.conds["managed"] = "failed" /\ rel'.conds["released"] = "failed"
        /\ \A d \in ConditionTypes \ {"managed", "released"} : rel'.conds[d] = rel.conds[d]
        /\ rel'.attempts = rel.attempts /\ rel'.refs = rel.refs
    BY <1>1, <1>6, FailedMove DEF Change, Status, FailedConds
  <2>2. rel.conds["released"] \in {"progressing", "failed"}
    BY DEF Retried
  <2>3. CondsMove
    BY <1>1, <2>1, <2>2, PhaseChanges DEF hasPhaseFinished
  <2>4. AttemptsMove
    BY <2>1, SameAttemptsMove
  <2>5. QED BY <1>3, <1>4, <2>1, <2>3, <2>4 DEF Moves
<1>7. ASSUME \E x \in runs' : x.phase = "managed" /\ x.attempt = Len(rel.attempts),
             NEW n \in Nat, n = 0 \/ (n <= made /\ \E b \in bindings : b.id = n),
             \A b \in bindings : b.id = n => b.phase = "managed",
             Status(rel.conds, Append(rel.attempts, NewAttempt(n)), rel.refs)
      PROVE  Moves
  <2>1. /\ rel'.conds = rel.conds /\ rel'.attempts = Append(rel.attempts, NewAttempt(n))
        /\ rel'.refs = rel.refs
    BY <1>7 DEF Status
  <2>2. CondsMove
    BY <2>1 DEF CondsMove, FreshInv, StatusOK, ReleasedIsValidated
  <2>3. n = 0 \/ (n <= made' /\ \E b \in bindings' : b.id = n)
    BY <1>1, <1>7
  <2>4. \A b \in bindings' : b.id = n => b.phase = "managed"
    BY <1>1, <1>7
  <2>5. Last.status = "failed" /\ Last.retriable /\ Len(rel.attempts) <= plan.maxRetries
    BY DEF Retried
  <2>6. AttemptsMove
    BY <1>1, <1>7, <2>1, <2>3, <2>4, <2>5 DEF AttemptsMove
  <2>7. QED BY <1>1, <1>3, <1>4, <2>1, <2>2, <2>6 DEF Moves
<1>8. QED BY <1>5, <1>6, <1>7 DEF Retried

\* So every creation step is a move.
LEMMA CreationMoves ==
  ASSUME FreshInv, CreationStep
  PROVE  Moves
BY CreatedMoves, RefusedMoves, FirstAttemptMoves, RetriedMoves DEF CreationStep

-----------------------------------------------------------------------------
(* Moves preserve the invariant. *)

\* The Release lives on, and what is created has a finalizer to be deleted by.
Lives ==
  /\ rel'.present = rel.present /\ rel'.deleting = rel.deleting
  /\ rel.finalizer => rel'.finalizer
  /\ UNCHANGED runs \/ rel.finalizer
  /\ UNCHANGED rel \/ rel.present
  /\ plan' = plan

\* The types of the next status.
LEMMA NextType ==
  ASSUME FinalizerInv'
  PROVE  /\ rel' \in Release /\ rel'.conds \in [ConditionTypes -> ConditionValues]
         /\ rel'.attempts \in Seq(Attempt) /\ rel'.refs \in [CollectorBindings -> Nat]
         /\ made' \in Nat /\ runs' \subseteq PipelineRun /\ bindings' \subseteq RoleBinding
         /\ (rel'.finalizer => rel'.present)
BY DEF FinalizerInv, Guarded, Inv, TypeOK, Release

\* The plan of the Release.
LEMMA PlanRetries ==
  ASSUME FreshInv
  PROVE  plan.maxRetries \in Nat
BY PlansAssumption DEF FreshInv, FinalizerInv, Inv, TypeOK, Plan

\* The status stays as it should be.
LEMMA MovesStatus ==
  ASSUME FreshInv, FinalizerInv', Moves, Lives
  PROVE  StatusOK'
<1>1. /\ rel.conds["managed"] = "unset" => rel.attempts = << >>
      /\ rel.conds["managed"] = "progressing" => rel.attempts # << >>
      /\ RetriesAreBounded /\ ReleasedIsValidated
  BY DEF FreshInv, StatusOK
<1>2. "managed" \in ConditionTypes \ {"validated"}
  BY DEF ConditionTypes, Phases
<1>3. rel'.conds["managed"] = "unset" => rel.conds["managed"] = "unset"
  BY <1>2 DEF Moves, CondsMove
<1>4. ReleasedIsValidated'
  BY <1>1 DEF Moves, CondsMove, ReleasedIsValidated
<1>5. plan' = plan /\ plan.maxRetries \in Nat
  BY PlanRetries DEF Lives
<1>6. /\ rel.attempts \in Seq(Attempt) /\ rel'.attempts \in Seq(Attempt)
      /\ Len(rel.attempts) \in Nat /\ Len(rel'.attempts) \in Nat
  BY RelType, NextType
<1>7. ASSUME Len(rel'.attempts) = Len(rel.attempts),
             \A i \in 1 .. Len(rel.attempts) - 1 : rel'.attempts[i] = rel.attempts[i],
             rel'.conds["managed"] = "progressing" => rel.conds["managed"] = "progressing"
      PROVE  StatusOK'
  <2>1. rel'.attempts = << >> <=> rel.attempts = << >>
    BY <1>6, <1>7
  <2>2. RetriesAreBounded'
    BY <1>1, <1>5, <1>6, <1>7 DEF RetriesAreBounded
  <2>3. QED BY <1>1, <1>3, <1>4, <1>7, <2>1, <2>2 DEF StatusOK
<1>8. ASSUME rel'.conds["managed"] = "progressing", NEW n \in Nat,
             rel'.attempts = Append(rel.attempts, NewAttempt(n)),
             \/ rel.attempts = << >>
             \/ Last.status = "failed" /\ Last.retriable /\ Len(rel.attempts) <= plan.maxRetries
      PROVE  StatusOK'
  <2>1. NewAttempt(n) \in Attempt
    BY DEF NewAttempt, Attempt
  <2>2. /\ Len(rel'.attempts) = Len(rel.attempts) + 1
        /\ \A i \in 1 .. Len(rel.attempts) : rel'.attempts[i] = rel.attempts[i]
    BY <1>6, <1>8, <2>1
  <2>3. Len(rel'.attempts) <= plan'.maxRetries + 1
    BY <1>5, <1>6, <1>8, <2>2
  <2>4. \A i \in 1 .. Len(rel.attempts) : rel.attempts[i].status = "failed" /\ rel.attempts[i].retriable
    BY <1>1, <1>6, <1>8 DEF RetriesAreBounded, Last
  <2>5. RetriesAreBounded'
    BY <1>6, <2>2, <2>3, <2>4 DEF RetriesAreBounded
  <2>6. rel'.attempts # << >>
    BY <1>6, <2>2
  <2>7. QED BY <1>4, <1>8, <2>5, <2>6 DEF StatusOK
<1>9. QED BY <1>7, <1>8 DEF Moves, AttemptsMove

\* The attempt whose PipelineRun the managed phase waits for.
LEMMA MovesCurrent ==
  ASSUME FreshInv, FinalizerInv', Moves
  PROVE  /\ Len(rel'.attempts) >= Len(rel.attempts)
         /\ rel'.conds["managed"] = "succeeded" => Len(rel'.attempts) = Len(rel.attempts)
         /\ rel'.conds["managed"] = "progressing" =>
              \/ Len(rel'.attempts) = Len(rel.attempts)
              \/ \E x \in runs' : x.phase = "managed" /\ x.attempt = Len(rel'.attempts) - 1
<1>1. /\ rel.attempts \in Seq(Attempt) /\ rel'.attempts \in Seq(Attempt)
      /\ Len(rel.attempts) \in Nat /\ Len(rel'.attempts) \in Nat
  BY RelType, NextType
<1>2. ASSUME NEW n \in Nat, rel'.attempts = Append(rel.attempts, NewAttempt(n))
      PROVE  Len(rel'.attempts) = Len(rel.attempts) + 1
  BY <1>1, <1>2 DEF NewAttempt, Attempt
<1>3. QED BY <1>1, <1>2 DEF Moves, AttemptsMove

\* PipelineRuns are added for attempts that have none.
LEMMA MovesOne ==
  ASSUME FreshInv, RunsMove
  PROVE  /\ OneRunPerAttempt'
         /\ \A x \in runs' : x.phase # "managed" => x.attempt = 0
         /\ runs \subseteq runs'
         /\ \A x \in runs' \ runs : x.finalizer /\ rel'.conds[x.phase] # "succeeded"
<1>1. OneRunPerAttempt /\ \A x \in runs : x.phase # "managed" => x.attempt = 0
  BY DEF FreshInv, RunsOK
<1>2. CASE UNCHANGED runs
  BY <1>1, <1>2 DEF OneRunPerAttempt
<1>3. ASSUME NEW p \in Phases, NEW k \in Nat, AddsRun(p, k), p # "managed" => k = 0,
             rel'.conds[p] # "succeeded"
      PROVE  /\ OneRunPerAttempt'
             /\ \A x \in runs' : x.phase # "managed" => x.attempt = 0
             /\ runs \subseteq runs'
             /\ \A x \in runs' \ runs : x.finalizer /\ rel'.conds[x.phase] # "succeeded"
  <2>1. PICK x : IsNew(x, p, k) /\ runs' = runs \cup {x}
    BY <1>3 DEF AddsRun
  <2>2. x.phase = p /\ x.attempt = k /\ x.finalizer
    BY <2>1 DEF IsNew
  <2>3. \A y \in runs : ~(y.phase = p /\ y.attempt = k)
    BY <1>3 DEF AddsRun, Has
  <2>4. OneRunPerAttempt'
    BY <1>1, <2>1, <2>2, <2>3 DEF OneRunPerAttempt
  <2>5. QED BY <1>1, <1>3, <2>1, <2>2, <2>4
<1>4. QED BY <1>2, <1>3 DEF RunsMove

\* The PipelineRuns stay as they should be.
LEMMA MovesRuns ==
  ASSUME FreshInv, FinalizerInv', Moves, Lives, Alive
  PROVE  RunsOK'
<1>1. /\ OneRunPerAttempt /\ Kept /\ Waited /\ SuccessIsReal
      /\ rel.present /\ ~rel.finalizer => runs = {}
      /\ DeletionReachesEveryRegisteredRun
  BY DEF FreshInv, RunsOK
<1>2. CondsMove /\ RunsMove
  BY DEF Moves
<1>3. /\ OneRunPerAttempt'
      /\ \A x \in runs' : x.phase # "managed" => x.attempt = 0
      /\ runs \subseteq runs'
      /\ \A x \in runs' \ runs : x.finalizer /\ rel'.conds[x.phase] # "succeeded"
  BY <1>2, MovesOne
<1>4. runs' \subseteq PipelineRun /\ runs \subseteq PipelineRun
  BY RelType, NextType
<1>5. \A x \in runs' : x.phase \in Phases /\ x.phase \in ConditionTypes \ {"validated"}
  BY <1>4 DEF PipelineRun, ConditionTypes, Phases
<1>6. Kept'
  <2>1. \A x \in runs : hasPhaseFinished(rel, x.phase) => hasPhaseFinished(rel', x.phase)
    BY <1>2, <1>3, <1>5 DEF CondsMove, hasPhaseFinished
  <2>2. QED BY <1>1, <1>3, <2>1 DEF Kept
<1>7. Waited'
  <2>1. SUFFICES ASSUME NEW p \in Phases, isPhaseProgressing(rel', p)
                 PROVE  \E x \in runs' : x.phase = p /\ x.attempt = Current(rel', p)
    BY DEF Waited, Has
  <2>2. CASE rel.conds[p] # "progressing"
    BY <1>2, <2>1, <2>2 DEF CondsMove, isPhaseProgressing
  <2>3. CASE rel.conds[p] = "progressing"
    <3>1. \E x \in runs' : x.phase = p /\ x.attempt = Current(rel, p)
      BY <1>1, <1>3, <2>3 DEF Waited, Has, isPhaseProgressing
    <3>2. Current(rel', p) = Current(rel, p) \/ \E x \in runs' : x.phase = p /\ x.attempt = Current(rel', p)
      BY <2>1, MovesCurrent DEF Current, isPhaseProgressing
    <3>3. QED BY <3>1, <3>2
  <2>4. QED BY <2>2, <2>3
<1>8. SuccessIsReal'
  <2>1. SUFFICES ASSUME NEW x \in runs', rel'.conds[x.phase] = "succeeded",
                        x.phase = "managed" => x.attempt = Len(rel'.attempts) - 1
                 PROVE  x.state = "succeeded"
    BY DEF SuccessIsReal
  <2>2. x \in runs /\ x.phase \in Phases
    BY <1>3, <1>5, <2>1
  <2>3. x.phase = "managed" => x.attempt = Len(rel.attempts) - 1
    BY <2>1, MovesCurrent
  <2>4. CASE rel.conds[x.phase] = "succeeded"
    BY <1>1, <2>2, <2>3, <2>4 DEF SuccessIsReal
  <2>5. CASE rel.conds[x.phase] # "succeeded"
    <3>1. PICK y \in runs : y.phase = x.phase /\ y.attempt = Current(rel, x.phase) /\ y.state = "succeeded"
      BY <1>2, <2>1, <2>2, <2>5 DEF CondsMove
    <3>2. x.attempt = Current(rel, x.phase)
      BY <1>3, <2>2, <2>3 DEF Current
    <3>3. QED BY <1>1, <2>2, <3>1, <3>2 DEF OneRunPerAttempt
  <2>6. QED BY <2>4, <2>5
<1>9. rel'.present /\ ~rel'.finalizer => runs' = {}
  BY <1>1 DEF Lives
<1>10. DeletionReachesEveryRegisteredRun'
  <2>1. SUFFICES ASSUME ~rel'.present PROVE DeletionReachesEveryRegisteredRun'
    BY DEF DeletionReachesEveryRegisteredRun
  <2>2. ~rel.present /\ UNCHANGED rel
    BY <2>1 DEF Lives
  <2>3. UNCHANGED runs
    BY <2>2 DEF Lives, FreshInv, FinalizerInv, Guarded
  <2>4. QED BY <1>1, <2>2, <2>3 DEF DeletionReachesEveryRegisteredRun
<1>11. QED BY <1>3, <1>6, <1>7, <1>8, <1>9, <1>10 DEF RunsOK

\* The references of the collectors pipelines stay as they should be.
LEMMA MovesRefs ==
  ASSUME FreshInv, FinalizerInv', Moves, Lives
  PROVE  /\ \A b \in bindings' : 1 <= b.id /\ b.id <= made'
         /\ \A key \in CollectorBindings :
              /\ Refers(rel.refs[key], key[1])' /\ (rel'.conds[key[1]] = "unset" => rel'.refs[key] = 0)
              /\ rel'.present /\ ~rel'.deleting /\ isPhaseProgressing(rel', key[1]) /\ rel'.refs[key] # 0
                   => \E b \in bindings' : b.id = rel'.refs[key]
<1>1. PICK p \in Phases : /\ AddsBindings(p) /\ AddsRefs(p, rel'.refs)
                          /\ rel'.refs # rel.refs => rel'.conds[p] # "unset"
  BY DEF Moves, BindingsMove
<1>2. /\ made \in Nat /\ made' \in Nat /\ made <= made'
      /\ \A b \in bindings : 1 <= b.id /\ b.id <= made /\ b.id \in Nat
      /\ \A b \in bindings' : b.id \in Nat
  BY <1>1, RelType, NextType DEF AddsBindings, FreshInv, BindingsOK, RoleBinding
<1>3. \A b \in bindings' : 1 <= b.id /\ b.id <= made'
  BY <1>1, <1>2 DEF AddsBindings
<1>4. ASSUME NEW key \in CollectorBindings
      PROVE  /\ Refers(rel.refs[key], key[1])' /\ (rel'.conds[key[1]] = "unset" => rel'.refs[key] = 0)
             /\ rel'.present /\ ~rel'.deleting /\ isPhaseProgressing(rel', key[1]) /\ rel'.refs[key] # 0
                  => \E b \in bindings' : b.id = rel'.refs[key]
  <2>1. rel.refs[key] \in Nat /\ rel'.refs[key] \in Nat
    BY RelType, NextType
  <2>2. /\ Refers(rel.refs[key], key[1]) /\ (rel.conds[key[1]] = "unset" => rel.refs[key] = 0)
        /\ rel.present /\ ~rel.deleting /\ isPhaseProgressing(rel, key[1]) /\ rel.refs[key] # 0
             => \E b \in bindings : b.id = rel.refs[key]
    BY DEF FreshInv, BindingsOK, RoleBindingsOutlastTheirPipeline
  <2>3. key[1] \in ConditionTypes \ {"validated"} /\ rel.conds[key[1]] \in ConditionValues
    BY RelType DEF CollectorBindings, ConditionTypes, Phases
  <2>4. CASE rel'.refs[key] = rel.refs[key]
    <3>1. Refers(rel.refs[key], key[1])'
      <4>1. made <= made' /\ Refers(rel.refs[key], key[1])
        BY <1>2, <2>2
      <4>2. \A b \in bindings' : b.id = rel'.refs[key] => b \in bindings
        BY <1>1, <1>2, <2>1, <2>2, <2>4 DEF AddsBindings, Refers
      <4>3. QED BY <1>2, <2>1, <2>4, <4>1, <4>2 DEF Refers
    <3>2. rel'.conds[key[1]] = "unset" => rel'.refs[key] = 0
      BY <2>2, <2>3, <2>4 DEF Moves, CondsMove
    <3>3. isPhaseProgressing(rel', key[1]) /\ rel'.refs[key] # 0 => isPhaseProgressing(rel, key[1])
      BY <2>2, <2>3, <2>4 DEF Moves, CondsMove, isPhaseProgressing, hasPhaseFinished, ConditionValues
    <3>4. QED BY <1>1, <2>2, <2>4, <3>1, <3>2, <3>3 DEF Lives, AddsBindings
  <2>5. CASE rel'.refs[key] # rel.refs[key]
    <3>1. key[1] = p /\ IsNewBinding(rel'.refs[key])
      BY <1>1, <2>5 DEF AddsRefs
    <3>2. \A b \in bindings' : b.id = rel'.refs[key] => b.phase = key[1]
      BY <1>1, <2>1, <3>1, NewBindingPhase
    <3>3. rel'.conds[key[1]] # "unset"
      BY <1>1, <2>5, <3>1
    <3>4. QED BY <3>1, <3>2, <3>3 DEF Refers, IsNewBinding
  <2>6. QED BY <2>4, <2>5
<1>5. QED BY <1>3, <1>4

\* So do those of the attempts.
LEMMA MovesAttemptRefs ==
  ASSUME FreshInv, FinalizerInv', Moves, Lives, NEW i \in 1 .. Len(rel'.attempts)
  PROVE  /\ Refers(rel.attempts[i].roleBinding, "managed")'
         /\ rel'.present /\ ~rel'.deleting /\ isPhaseProgressing(rel', "managed")
            /\ rel'.attempts[i].roleBinding # 0
              => \E b \in bindings' : b.id = rel'.attempts[i].roleBinding
<1>1. PICK p \in Phases : AddsBindings(p)
  BY DEF Moves, BindingsMove
<1>2. /\ rel.attempts \in Seq(Attempt) /\ rel'.attempts \in Seq(Attempt)
      /\ Len(rel.attempts) \in Nat /\ Len(rel'.attempts) \in Nat
      /\ made \in Nat /\ made' \in Nat /\ made <= made'
  BY <1>1, RelType, NextType DEF AddsBindings
<1>3. ASSUME i \in 1 .. Len(rel.attempts),
             rel'.attempts[i].roleBinding = rel.attempts[i].roleBinding,
             rel'.conds["managed"] = "progressing" => rel.conds["managed"] = "progressing"
      PROVE  /\ Refers(rel.attempts[i].roleBinding, "managed")'
             /\ rel'.present /\ ~rel'.deleting /\ isPhaseProgressing(rel', "managed")
                /\ rel'.attempts[i].roleBinding # 0
                  => \E b \in bindings' : b.id = rel'.attempts[i].roleBinding
  <2> DEFINE n == rel.attempts[i].roleBinding
  <2>1. n \in Nat
    <3>1. rel.attempts[i] \in Attempt
      BY <1>2, <1>3
    <3>2. QED BY <3>1 DEF Attempt
  <2>2. /\ n <= made /\ \A b \in bindings : b.id = n => b.phase = "managed"
        /\ rel.present /\ ~rel.deleting /\ isPhaseProgressing(rel, "managed") /\ n # 0
             => \E b \in bindings : b.id = n
    BY <1>3 DEF FreshInv, BindingsOK, RoleBindingsOutlastTheirPipeline, Refers
  <2>3. rel'.attempts[i].roleBinding = n
    BY <1>3
  <2> HIDE DEF n
  <2>4. \A b \in bindings' : b.id = n => b \in bindings
    BY <1>1, <1>2, <2>1, <2>2 DEF AddsBindings
  <2>5. n <= made' /\ \A b \in bindings' : b.id = n => b.phase = "managed"
    BY <1>2, <2>1, <2>2, <2>4
  <2>6. bindings \subseteq bindings'
    BY <1>1 DEF AddsBindings
  <2>7. isPhaseProgressing(rel', "managed") => isPhaseProgressing(rel, "managed")
    BY <1>3 DEF isPhaseProgressing
  <2>8. rel'.present /\ ~rel'.deleting => rel.present /\ ~rel.deleting
    BY DEF Lives
  <2>9. QED BY <2>2, <2>3, <2>5, <2>6, <2>7, <2>8 DEF Refers
<1>4. ASSUME NEW n \in Nat, rel'.attempts = Append(rel.attempts, NewAttempt(n)),
             n = 0 \/ (n <= made' /\ \E b \in bindings' : b.id = n),
             \A b \in bindings' : b.id = n => b.phase = "managed",
             rel.conds["managed"] \in {"unset", "progressing"}
      PROVE  /\ Refers(rel.attempts[i].roleBinding, "managed")'
             /\ rel'.present /\ ~rel'.deleting /\ isPhaseProgressing(rel', "managed")
                /\ rel'.attempts[i].roleBinding # 0
                  => \E b \in bindings' : b.id = rel'.attempts[i].roleBinding
  <2>1. NewAttempt(n) \in Attempt /\ NewAttempt(n).roleBinding = n
    BY DEF NewAttempt, Attempt
  <2>2. CASE i = Len(rel.attempts) + 1
    <3>1. rel'.attempts[i].roleBinding = n
      BY <1>2, <1>4, <2>1, <2>2
    <3>2. QED BY <1>2, <1>4, <3>1 DEF Refers
  <2>3. CASE i # Len(rel.attempts) + 1
    <3>1. i \in 1 .. Len(rel.attempts) /\ rel'.attempts[i] = rel.attempts[i]
      BY <1>2, <1>4, <2>1, <2>3
    <3>2. rel.attempts # << >>
      BY <3>1
    <3>3. rel.conds["managed"] = "progressing"
      BY <1>4, <3>2 DEF FreshInv, StatusOK
    <3>4. QED BY <1>3, <3>1, <3>3
  <2>4. QED BY <2>2, <2>3
<1>5. QED BY <1>2, <1>3, <1>4 DEF Moves, AttemptsMove

\* The RoleBindings stay as they should be.
LEMMA MovesBindings ==
  ASSUME FreshInv, FinalizerInv', Moves, Lives
  PROVE  BindingsOK'
<1>1. RoleBindingsOutlastTheirPipeline'
  BY MovesRefs, MovesAttemptRefs DEF RoleBindingsOutlastTheirPipeline
<1>2. (\A i \in 1 .. Len(rel.attempts) : Refers(rel.attempts[i].roleBinding, "managed"))'
  BY MovesAttemptRefs
<1>3. QED BY <1>1, <1>2, MovesRefs DEF BindingsOK

-----------------------------------------------------------------------------
(* Steps that change or remove PipelineRuns and remove RoleBindings. *)

\* Fewer PipelineRuns, each with the labels and the success it had.
LEMMA EvolvedRuns ==
  ASSUME FreshInv, UNCHANGED rel, NEW D, NEW f, Evolves(D, f)
  PROVE  /\ OneRunPerAttempt'
         /\ \A x \in runs' : x.seen /\ (x.phase # "managed" => x.attempt = 0)
         /\ SuccessIsReal'
         /\ rel'.present /\ ~rel'.finalizer => runs' = {}
         /\ DeletionReachesEveryRegisteredRun'
<1>1. /\ OneRunPerAttempt /\ SuccessIsReal /\ DeletionReachesEveryRegisteredRun
      /\ \A x \in runs : x.phase # "managed" => x.attempt = 0
      /\ rel.present /\ ~rel.finalizer => runs = {}
  BY DEF FreshInv, RunsOK
<1>2. \A x \in runs' : \E y \in runs : /\ y \in D /\ x = f[y] /\ x.phase = y.phase
                                       /\ x.attempt = y.attempt /\ x.seen
                                       /\ (y.state = "succeeded" => x.state = "succeeded")
  BY DEF Evolves
<1>3. OneRunPerAttempt'
  BY <1>1, <1>2 DEF OneRunPerAttempt
<1>4. SuccessIsReal'
  BY <1>1, <1>2 DEF SuccessIsReal
<1>5. DeletionReachesEveryRegisteredRun'
  BY <1>1, <1>2 DEF DeletionReachesEveryRegisteredRun
<1>6. QED BY <1>1, <1>2, <1>3, <1>4, <1>5

\* Fewer RoleBindings.
LEMMA FewerBindings ==
  ASSUME FreshInv, rel'.conds = rel.conds, rel'.attempts = rel.attempts, rel'.refs = rel.refs,
         UNCHANGED made, bindings' \subseteq bindings, RoleBindingsOutlastTheirPipeline'
  PROVE  BindingsOK'
BY DEF FreshInv, BindingsOK, Refers

\* A RoleBinding to which the status refers twice is of both phases.
LEMMA ReferencedPhase ==
  ASSUME FreshInv, NEW p, NEW b \in Referenced(rel, p)
  PROVE  b \in bindings /\ b.phase = p
<1>1. b \in bindings
  BY DEF Referenced
<1>2. CASE \E key \in CollectorBindings : key[1] = p /\ b.id = rel.refs[key]
  BY <1>1, <1>2 DEF FreshInv, BindingsOK, Refers
<1>3. CASE p = "managed" /\ Len(rel.attempts) > 0 /\ b.id = rel.attempts[1].roleBinding
  <2>1. 1 \in 1 .. Len(rel.attempts)
    BY <1>3, RelType
  <2>2. QED BY <1>1, <1>3, <2>1 DEF FreshInv, BindingsOK, Refers
<1>4. QED BY <1>2, <1>3 DEF Referenced

\* The clean-up leaves the phases alone that have not finished.
LEMMA CleanUpKeeps ==
  ASSUME FreshInv, CleanUpStep, plan' = plan, Alive' => Alive
  PROVE  StatusOK' /\ RunsOK' /\ BindingsOK' /\ (\A x \in runs' : x.seen)
<1>1. UNCHANGED rel /\ UNCHANGED made /\ bindings' \subseteq bindings
  BY DEF CleanUpStep
<1>2. PICK D, f : /\ Evolves(D, f)
                  /\ \A x \in D : f[x].finalizer = x.finalizer \/ hasPhaseFinished(rel, x.phase)
                  /\ \A x \in runs \ D : ~x.finalizer \/ hasPhaseFinished(rel, x.phase)
  BY DEF CleanUpStep
<1>3. /\ OneRunPerAttempt'
      /\ \A x \in runs' : x.seen /\ (x.phase # "managed" => x.attempt = 0)
      /\ SuccessIsReal'
      /\ rel'.present /\ ~rel'.finalizer => runs' = {}
      /\ DeletionReachesEveryRegisteredRun'
  BY <1>1, <1>2, EvolvedRuns
<1>4. ASSUME Alive' PROVE Kept' /\ Waited'
  <2>1. Kept /\ Waited
    BY <1>4 DEF FreshInv, RunsOK
  <2>2. Kept'
    BY <1>1, <1>2, <2>1 DEF Kept, Evolves
  <2>3. Waited'
    <3>1. SUFFICES ASSUME NEW p \in Phases, isPhaseProgressing(rel, p)
                   PROVE  \E y \in runs' : y.phase = p /\ y.attempt = Current(rel, p)
      BY <1>1 DEF Waited, Has, Current
    <3>2. PICK x \in runs : x.phase = p /\ x.attempt = Current(rel, p)
      BY <2>1, <3>1 DEF Waited, Has
    <3>3. ~hasPhaseFinished(rel, x.phase)
      BY <3>1, <3>2 DEF isPhaseProgressing, hasPhaseFinished
    <3>4. x \in D
      BY <1>2, <2>1, <3>2, <3>3 DEF Kept
    <3>5. QED BY <1>2, <3>2, <3>4 DEF Evolves
  <2>4. QED BY <2>2, <2>3
<1>5. RunsOK'
  BY <1>3, <1>4 DEF RunsOK
<1>6. StatusOK'
  BY <1>1 DEF FreshInv, StatusOK, RetriesAreBounded, ReleasedIsValidated
<1>7. ASSUME NEW b \in bindings, ~hasPhaseFinished(rel, b.phase) PROVE b \in bindings'
  BY <1>7, ReferencedPhase DEF CleanUpStep
<1>8. RoleBindingsOutlastTheirPipeline'
  <2>1. RoleBindingsOutlastTheirPipeline
    BY DEF FreshInv, BindingsOK
  <2>2. ASSUME NEW key \in CollectorBindings, isPhaseProgressing(rel, key[1]),
               NEW b \in bindings, b.id = rel.refs[key]
        PROVE  b \in bindings'
    <3>1. b.phase = key[1]
      BY <2>2 DEF FreshInv, BindingsOK, Refers
    <3>2. QED BY <1>7, <2>2, <3>1 DEF isPhaseProgressing, hasPhaseFinished
  <2>3. ASSUME isPhaseProgressing(rel, "managed"), NEW i \in 1 .. Len(rel.attempts),
               NEW b \in bindings, b.id = rel.attempts[i].roleBinding
        PROVE  b \in bindings'
    <3>1. b.phase = "managed"
      BY <2>3 DEF FreshInv, BindingsOK, Refers
    <3>2. QED BY <1>7, <2>3, <3>1 DEF isPhaseProgressing, hasPhaseFinished
  <2>4. QED BY <1>1, <2>1, <2>2, <2>3 DEF RoleBindingsOutlastTheirPipeline
<1>9. BindingsOK'
  BY <1>1, <1>8, FewerBindings
<1>10. QED BY <1>3, <1>5, <1>6, <1>9

\* While the Release is being deleted, anything may go.
LEMMA FinalizationKeeps ==
  ASSUME FreshInv, UNCHANGED <<rel, made, plan>>, rel.deleting, pc' = "idle",
         bindings' \subseteq bindings, \E D, f : Evolves(D, f)
  PROVE  StatusOK' /\ RunsOK' /\ BindingsOK' /\ (\A x \in runs' : x.seen)
<1>1. ~Alive'
  BY DEF Alive
<1>2. PICK D, f : Evolves(D, f)
  OBVIOUS
<1>3. RunsOK' /\ \A x \in runs' : x.seen
  BY <1>1, <1>2, EvolvedRuns DEF RunsOK
<1>4. StatusOK'
  BY DEF FreshInv, StatusOK, RetriesAreBounded, ReleasedIsValidated
<1>5. BindingsOK'
  BY FewerBindings DEF RoleBindingsOutlastTheirPipeline
<1>6. QED BY <1>3, <1>4, <1>5

\* Removing finalizers and PipelineRuns.
LEMMA RemovalEvolves ==
  ASSUME FreshInv, NEW T \in SUBSET runs, NEW G,
         runs' = RemoveFinalizers(T) \ G \/ runs' = runs \ G
  PROVE  \E D, f : Evolves(D, f)
<1>1. runs \subseteq PipelineRun /\ \A x \in runs : x.seen
  BY DEF FreshInv, FinalizerInv, Inv, TypeOK, Fresh
<1>2. CASE runs' = runs \ G
  <2> DEFINE f == [x \in runs |-> x]
  <2>1. Evolves(runs \ G, f)
    BY <1>1, <1>2 DEF Evolves
  <2>2. QED BY <2>1
<1>3. CASE runs' = RemoveFinalizers(T) \ G
  <2> DEFINE f == [x \in runs |-> IF x \in T THEN [x EXCEPT !.finalizer = FALSE] ELSE x]
             D == {x \in runs : ~(x \in T /\ x.deleting) /\ f[x] \notin G}
  <2>1. runs' = {f[x] : x \in D}
    BY <1>3 DEF RemoveFinalizers
  <2>2. \A x \in D : /\ f[x].phase = x.phase /\ f[x].attempt = x.attempt /\ f[x].seen
                     /\ x.state = "succeeded" => f[x].state = "succeeded"
    BY <1>1 DEF PipelineRun
  <2>3. D \subseteq runs
    OBVIOUS
  <2> HIDE DEF f, D
  <2>4. Evolves(D, f)
    BY <2>1, <2>2, <2>3 DEF Evolves
  <2>5. QED BY <2>4
<1>4. QED BY <1>2, <1>3

\* finalizeRelease visits the PipelineRuns of all labels in the status, and there is
\* one of each.
LEMMA AllVisited ==
  ASSUME FreshInv, pc # "idle", NEW S \in Picks(mem, Phases)
  PROVE  /\ S \subseteq runs
         /\ \A x \in runs \ S : x.phase = "managed" /\ x.attempt >= Len(rel.attempts)
<1>1. S \subseteq runs
  BY DEF Picks
<1>2. SUFFICES ASSUME NEW x \in runs \ S, ~(x.phase = "managed" /\ x.attempt >= Len(rel.attempts))
               PROVE  FALSE
  BY <1>1
<1>3. /\ mem.attempts = rel.attempts /\ Len(rel.attempts) \in Nat
      /\ x.phase \in Phases /\ x.attempt \in Nat /\ (x.phase # "managed" => x.attempt = 0)
  BY MemStatus, RelType DEF PipelineRun, FreshInv, RunsOK
<1>4. x.attempt \in Labels(mem, x.phase)
  BY <1>2, <1>3 DEF Labels
<1>5. x \in Listed(x.phase, x.attempt)
  BY AllListed
<1>6. \E y \in Listed(x.phase, x.attempt) : S \cap Listed(x.phase, x.attempt) = {y}
  BY <1>3, <1>4, <1>5 DEF Picks
<1>7. PICK y \in runs : y \in S /\ y.phase = x.phase /\ y.attempt = x.attempt
  BY <1>6, AllListed
<1>8. x = y
  BY <1>7 DEF FreshInv, RunsOK, OneRunPerAttempt
<1>9. QED BY <1>7, <1>8

\* The status is left alone; the Release may be removed.
Settled ==
  /\ rel'.conds = rel.conds /\ rel'.attempts = rel.attempts /\ rel'.refs = rel.refs
  /\ rel'.present = rel.present \/ (rel.present /\ ~rel'.present)

\* The reconcile is over.
LEMMA IdleFresh ==
  ASSUME FinalizerInv', pc' = "idle", cache' = rel', \A x \in runs' : x.seen,
         StatusOK', RunsOK', BindingsOK'
  PROVE  FreshInv'
<1>1. PlaceOK'
  BY DEF PlaceOK, AfterValid, AfterRunning, Operations
<1>2. Fresh'
  BY DEF Fresh
<1>3. QED BY <1>1, <1>2 DEF FreshInv

\* EnsureFinalizersAreCalled.
LEMMA FinalizersAreCalledFresh ==
  ASSUME ~StaleReads, FreshInv, FinalizerInv', plan' = plan, EnsureFinalizersAreCalled
  PROVE  FreshInv' /\ Settled
<1>0. /\ pc = "FinalizersAreCalled" /\ cache = rel /\ (mem.deleting => rel.deleting)
      /\ rel \in Release /\ \A x \in runs : x.seen
  BY RelType DEF EnsureFinalizersAreCalled, FreshInv, Fresh
<1>1. CASE ~mem.deleting /\ Pass("ConfigIsLoaded")
  <2>1. UNCHANGED <<rel, cache, mem>> /\ pc' = "ConfigIsLoaded" /\ UNCHANGED objects
    BY <1>1 DEF Pass, ContinueWith
  <2>2. Fresh' /\ PlaceOK'
    <3>1. Fresh'
      BY <1>0, <2>1 DEF FreshInv, Fresh, SameStatus, objects
    <3>2. PlaceOK'
      BY <2>1 DEF PlaceOK, AfterValid, AfterRunning
    <3>3. QED BY <3>1, <3>2
  <2>3. StatusOK' /\ BindingsOK'
    BY <2>1 DEF FreshInv, StatusOK, BindingsOK, RetriesAreBounded, ReleasedIsValidated, Refers,
                RoleBindingsOutlastTheirPipeline, objects
  <2>4. Alive
    BY <1>0, <1>1 DEF Alive
  <2>5. RunsOK'
    BY <2>1, <2>4 DEF FreshInv, RunsOK, Kept, Waited, Has, Current, OneRunPerAttempt,
                      SuccessIsReal, DeletionReachesEveryRegisteredRun, objects
  <2>6. QED BY <2>1, <2>2, <2>3, <2>5 DEF FreshInv, Settled
<1>2. ASSUME mem.deleting, NEW S \in Picks(mem, Phases), FinalizeFails(S)
      PROVE  FreshInv' /\ Settled
  <2>1. PICK current, deleted, gone :
          /\ current \subseteq S
          /\ runs' = RemoveFinalizers(current) \ deleted \/ runs' = runs \ deleted
          /\ bindings' = bindings \ gone
          /\ UNCHANGED <<made, rel, cache>>
          /\ Requeue
    <3>1. PICK n \in 1 .. Len(FinalizeOrder(mem)), stage \in 0 .. 2 :
            LET order == FinalizeOrder(mem)
                earlier == {order[i] : i \in 1 .. n - 1}
                begun == earlier \cup (IF stage > 0 THEN {order[n]} ELSE {})
                deleted == {x \in S : <<x.phase, x.attempt>> \in earlier}
                current == {x \in S : <<x.phase, x.attempt>> = order[n]}
            IN /\ runs' = (IF stage = 2 THEN RemoveFinalizers(current) ELSE runs) \ deleted
               /\ bindings' = bindings \ VisitedBindings(mem, begun)
               /\ UNCHANGED <<made, rel, cache>>
               /\ Requeue
      BY <1>2 DEF FinalizeFails
    <3> DEFINE earlier == {FinalizeOrder(mem)[i] : i \in 1 .. n - 1}
               begun == earlier \cup (IF stage > 0 THEN {FinalizeOrder(mem)[n]} ELSE {})
               deleted == {x \in S : <<x.phase, x.attempt>> \in earlier}
               current == {x \in S : <<x.phase, x.attempt>> = FinalizeOrder(mem)[n]}
               gone == VisitedBindings(mem, begun)
    <3>2. /\ current \subseteq S
          /\ runs' = RemoveFinalizers(current) \ deleted \/ runs' = runs \ deleted
          /\ bindings' = bindings \ gone
          /\ UNCHANGED <<made, rel, cache>>
          /\ Requeue
      BY <3>1
    <3> HIDE DEF deleted, current, gone
    <3>3. QED BY <3>2
  <2>2. \E D, f : Evolves(D, f)
    BY <1>0, <2>1, AllVisited, RemovalEvolves
  <2>3. pc' = "idle" /\ UNCHANGED <<made, rel, cache>> /\ bindings' \subseteq bindings
    BY <2>1 DEF Requeue, StopProcessing
  <2>4. StatusOK' /\ RunsOK' /\ BindingsOK' /\ \A x \in runs' : x.seen
    BY <1>0, <1>2, <2>2, <2>3, FinalizationKeeps
  <2>5. QED BY <1>0, <2>3, <2>4, IdleFresh DEF Settled
<1>3. ASSUME mem.deleting, NEW S \in Picks(mem, Phases), FinalizeSucceeds(S)
      PROVE  FreshInv' /\ Settled
  <2>1. /\ runs' = runs \ S /\ bindings' \subseteq bindings /\ UNCHANGED made
        /\ \/ rel.present /\ WriteRelease([rel EXCEPT !.finalizer = FALSE, !.present = FALSE]) /\ Requeue
           \/ PatchFails
    BY <1>3 DEF FinalizeSucceeds
  <2>2. CASE PatchFails
    <3>1. pc' = "idle" /\ UNCHANGED <<rel, cache>>
      BY <2>2 DEF PatchFails, Requeue, StopProcessing
    <3>2. \E D, f : Evolves(D, f)
      BY <1>0, <2>1, AllVisited, RemovalEvolves
    <3>3. StatusOK' /\ RunsOK' /\ BindingsOK' /\ \A x \in runs' : x.seen
      BY <1>0, <1>3, <2>1, <3>1, <3>2, FinalizationKeeps
    <3>4. QED BY <1>0, <3>1, <3>3, IdleFresh DEF Settled
  <2>3. CASE rel.present /\ WriteRelease([rel EXCEPT !.finalizer = FALSE, !.present = FALSE]) /\ Requeue
    <3>1. /\ rel'.conds = rel.conds /\ rel'.attempts = rel.attempts /\ rel'.refs = rel.refs
          /\ ~rel'.present /\ cache' = rel' /\ pc' = "idle"
      BY <1>0, <2>3 DEF WriteRelease, Requeue, StopProcessing, Release
    <3>2. StatusOK'
      BY <3>1 DEF FreshInv, StatusOK, RetriesAreBounded, ReleasedIsValidated
    <3>3. BindingsOK'
      BY <2>1, <3>1, FewerBindings DEF RoleBindingsOutlastTheirPipeline
    <3>4. DeletionReachesEveryRegisteredRun'
      BY <1>0, <1>3, <2>1, <3>1, AllVisited DEF DeletionReachesEveryRegisteredRun
    <3>5. RunsOK'
      BY <2>1, <3>1, <3>4 DEF FreshInv, RunsOK, OneRunPerAttempt, SuccessIsReal, Alive
    <3>6. \A x \in runs' : x.seen
      BY <1>0, <2>1
    <3>7. QED BY <2>3, <3>1, <3>2, <3>3, <3>5, <3>6, IdleFresh DEF Settled
  <2>4. QED BY <2>1, <2>2, <2>3
<1>4. QED BY <1>1, <1>2, <1>3 DEF EnsureFinalizersAreCalled

-----------------------------------------------------------------------------
(* The operations preserve the invariant. *)

\* The operations that run after EnsureFinalizersAreCalled.
Underway == pc \notin {"idle", "FinalizersAreCalled"}

\* Steps that create nothing leave the Release alive.
LEMMA StatusLives ==
  ASSUME plan' = plan, StatusStep \/ FinalizerAdded \/ (UNCHANGED objects /\ Completed)
  PROVE  Lives
<1>1. UNCHANGED runs
  BY DEF StatusStep, FinalizerAdded, objects
<1>2. CASE UNCHANGED rel
  BY <1>1, <1>2 DEF Lives
<1>3. CASE FinalizerAdded
  BY <1>1, <1>3 DEF Lives, FinalizerAdded
<1>4. CASE ~UNCHANGED rel /\ ~FinalizerAdded
  <2>1. rel.present /\ SameLife(rel, rel')
    BY <1>4 DEF StatusStep, Started, Accepted, Rejected, Completed, Skipped, Registered, Succeeded, Failed,
                AttemptSucceeded, AttemptFailed, Change, Status
  <2>2. QED BY <1>1, <2>1 DEF Lives, SameLife
<1>5. QED BY <1>2, <1>3, <1>4

\* Steps that create happen under the finalizer.
LEMMA CreationLives ==
  ASSUME FreshInv, plan' = plan, pc \in AfterFinalizer, CreationStep
  PROVE  Lives
<1>1. rel.finalizer
  BY DEF FreshInv, FinalizerInv, Guarded
<1>2. CASE UNCHANGED rel
  BY <1>1, <1>2 DEF Lives
<1>3. CASE ~UNCHANGED rel
  <2>1. rel.present /\ SameLife(rel, rel')
    BY <1>3 DEF CreationStep, Created, Refused, FirstAttempt, Retried, Change, Status
  <2>2. QED BY <1>1, <2>1 DEF Lives, SameLife
<1>4. QED BY <1>2, <1>3

\* Adding the finalizer is a move.
LEMMA FinalizerMoves ==
  ASSUME FreshInv, FinalizerAdded
  PROVE  Moves
BY SameStatusMove, SameObjectsMove DEF FinalizerAdded, Moves

\* A step that moves the status preserves the invariant.
LEMMA MovesFresh ==
  ASSUME FreshInv, FinalizerInv', Moves, Lives, Underway, NEW op, Ends(op), PlaceOK'
  PROVE  FreshInv'
<1>1. Alive
  BY DEF Alive, Underway
<1>2. \A x \in runs' : x.seen
  BY DEF FreshInv, Fresh, Moves, RunsMove, AddsRun, IsNew
<1>3. Fresh'
  BY <1>2 DEF Fresh, Ends
<1>4. QED BY <1>1, <1>3, MovesStatus, MovesRuns, MovesBindings DEF FreshInv

\* So does one that cleans up.
LEMMA CleanUpFresh ==
  ASSUME FreshInv, FinalizerInv', CleanUpStep, plan' = plan, Underway, NEW op, Ends(op), PlaceOK'
  PROVE  FreshInv'
<1>1. Alive
  BY DEF Alive, Underway
<1>2. StatusOK' /\ RunsOK' /\ BindingsOK' /\ \A x \in runs' : x.seen
  BY <1>1, CleanUpKeeps
<1>3. Fresh'
  BY <1>2 DEF Fresh, Ends
<1>4. QED BY <1>2, <1>3 DEF FreshInv

\* The place is not one that says anything about the status.
LEMMA EarlyPlace ==
  ASSUME NEW op, op \notin AfterRunning, Ends(op)
  PROVE  PlaceOK'
BY DEF Ends, PlaceOK, AfterValid, AfterRunning, Operations

\* How the conditions change.
LEMMA CondsKinds ==
  ASSUME FreshInv, StatusStep \/ CreationStep \/ FinalizerAdded
  PROVE  \/ Started \/ Accepted \/ Rejected
         \/ rel'.conds = rel.conds
         \/ \E p \in Phases : rel'.conds = FailedConds(p)
         \/ \E p \in Phases, v \in ConditionValues : rel'.conds = Set(rel.conds, p, v)
<1>1. /\ "managed" \in Phases
      /\ {"progressing", "succeeded", "skipped"} \subseteq ConditionValues
  BY DEF Phases, ConditionValues
<1>2. CASE StatusStep
  BY <1>1, <1>2 DEF StatusStep, Skipped, Registered, Succeeded, Failed, AttemptSucceeded, AttemptFailed,
                    Change, Status
<1>3. CASE CreationStep
  BY <1>1, <1>3 DEF CreationStep, Created, Refused, FirstAttempt, Retried, Change, Status
<1>4. QED BY <1>2, <1>3 DEF FinalizerAdded

\* Once the Release is validated in this reconcile, it stays so.
LEMMA LatePlace ==
  ASSUME FreshInv, pc \in AfterValid, StatusStep \/ CreationStep \/ FinalizerAdded
  PROVE  PlaceOK'
<1>1. /\ rel.conds["released"] \in {"progressing", "failed"}
      /\ rel.conds["released"] = "progressing" => rel.conds["validated"] = "succeeded"
  BY ReleasedNow DEF FreshInv, PlaceOK, IsReleasing, isPhaseProgressing, AfterValid
<1>2. SUFFICES /\ rel'.conds["released"] # "succeeded"
               /\ rel'.conds["released"] = "progressing" => rel'.conds["validated"] = "succeeded"
  BY DEF PlaceOK, IsReleasing, isPhaseProgressing
<1>3. CASE Started
  BY <1>1, <1>3 DEF Started
<1>4. CASE Accepted
  BY <1>1, <1>4, SetMove, PhaseTypes DEF Accepted, Change, Status, ConditionValues
<1>5. CASE Rejected
  BY <1>5, FailedMove, PhaseTypes DEF Rejected, Change, Status
<1>6. CASE rel'.conds = rel.conds
  BY <1>1, <1>6
<1>7. ASSUME NEW p \in Phases, rel'.conds = FailedConds(p)
      PROVE  rel'.conds["released"] = "failed"
  BY <1>7, FailedMove, PhaseTypes DEF FailedConds
<1>8. ASSUME NEW p \in Phases, NEW v \in ConditionValues, rel'.conds = Set(rel.conds, p, v)
      PROVE  /\ rel'.conds["released"] = rel.conds["released"]
             /\ rel'.conds["validated"] = rel.conds["validated"]
  <2>1. p \in ConditionTypes /\ p \notin {"released", "validated"}
    BY PhaseTypes DEF Phases
  <2>2. QED BY <1>8, <2>1, SetMove, PhaseTypes
<1>9. QED BY <1>1, <1>3, <1>4, <1>5, <1>6, <1>7, <1>8, CondsKinds

\* An operation that follows the validation.
LEMMA LateFresh ==
  ASSUME FreshInv, FinalizerInv', plan' = plan, pc \in AfterValid, NEW op, Ends(op),
         StatusStep \/ (CreationStep /\ pc \in AfterFinalizer) \/ FinalizerAdded
  PROVE  FreshInv'
<1>1. PlaceOK'
  BY LatePlace
<1>2. Moves /\ Lives
  BY StatusMoves, CreationMoves, FinalizerMoves, StatusLives, CreationLives
<1>3. Underway
  BY DEF AfterValid, AfterRunning, Underway, Operations
<1>4. QED BY <1>1, <1>2, <1>3, MovesFresh

\* What a step of the system does to the status.
Step == StatusStep \/ CreationStep \/ (UNCHANGED objects /\ Completed) \/ Settled

\* Steps that leave the status alone.
LEMMA SettledSteps ==
  ASSUME CleanUpStep \/ FinalizerAdded \/ UNCHANGED rel
  PROVE  Settled
BY DEF CleanUpStep, FinalizerAdded, Settled

\* EnsureConfigIsLoaded and the clean-up.
LEMMA EarlyOperationsFresh ==
  ASSUME ~StaleReads, FreshInv, FinalizerInv', plan' = plan,
         \/ EnsureConfigIsLoaded \/ EnsureCollectorsProcessingResourcesAreCleanedUp
         \/ EnsureReleaseProcessingResourcesAreCleanedUp
  PROVE  FreshInv' /\ Step
<1>1. Underway
  BY DEF Underway, EnsureConfigIsLoaded, EnsureCollectorsProcessingResourcesAreCleanedUp,
         EnsureReleaseProcessingResourcesAreCleanedUp
<1>2. PICK op : op \notin AfterRunning /\ Ends(op) /\ (StatusStep \/ CleanUpStep)
  <2>1. /\ "CollectorsCleanedUp" \notin AfterRunning /\ "ProcessingCleanedUp" \notin AfterRunning
        /\ "ReleaseIsRunning" \notin AfterRunning
    BY DEF AfterRunning
  <2>2. QED BY <2>1, CleanUpKinds
<1>3. PlaceOK'
  BY <1>2, EarlyPlace
<1>4. CASE StatusStep
  BY <1>1, <1>2, <1>3, <1>4, StatusMoves, StatusLives, MovesFresh DEF Step
<1>5. CASE CleanUpStep
  BY <1>1, <1>2, <1>3, <1>5, CleanUpFresh, SettledSteps DEF Step
<1>6. QED BY <1>2, <1>4, <1>5

\* EnsureReleaseIsRunning.
LEMMA RunningFresh ==
  ASSUME ~StaleReads, FreshInv, FinalizerInv', plan' = plan, EnsureReleaseIsRunning
  PROVE  FreshInv' /\ Step
<1>1. Underway
  BY DEF Underway, EnsureReleaseIsRunning
<1>2. /\ Ends("ReleaseIsValid") /\ StatusStep
      /\ pc' # "idle" => rel'.conds["released"] # "succeeded"
  BY RunningKind DEF StatusStep
<1>3. PlaceOK'
  BY <1>2 DEF Ends, PlaceOK, AfterValid, AfterRunning, Operations
<1>4. QED BY <1>1, <1>2, <1>3, StatusMoves, StatusLives, MovesFresh DEF Step

\* EnsureReleaseIsValid.
LEMMA ValidFresh ==
  ASSUME ~StaleReads, FreshInv, FinalizerInv', plan' = plan, EnsureReleaseIsValid
  PROVE  FreshInv' /\ Step
<1>1. Underway
  BY DEF Underway, EnsureReleaseIsValid
<1>2. /\ Ends("ApplicationMetadataIsSet") /\ UNCHANGED objects
      /\ UNCHANGED rel \/ Change(rel.conds) \/ Accepted \/ Rejected
      /\ pc' # "idle" =>
           /\ rel'.conds["released"] # "succeeded"
           /\ rel'.conds["released"] = "progressing" => rel'.conds["validated"] = "succeeded"
  BY ValidKind
<1>3. Change(rel.conds) => UNCHANGED rel
  <2>1. SUFFICES ASSUME Change(rel.conds) PROVE rel' = rel
    OBVIOUS
  <2>2. /\ rel'.conds = rel.conds /\ rel'.attempts = rel.attempts /\ rel'.refs = rel.refs
        /\ SameLife(rel, rel')
    BY <2>1 DEF Change, Status
  <2>3. rel \in Release /\ rel' \in Release
    BY RelType, NextType
  <2>4. SameLife(rel', rel)
    BY <2>2 DEF SameLife
  <2>5. QED BY <2>2, <2>3, <2>4, ReleaseEquality
<1>4. StatusStep
  BY <1>2, <1>3 DEF StatusStep
<1>5. PlaceOK'
  BY <1>2 DEF Ends, PlaceOK, IsReleasing, isPhaseProgressing, AfterValid, AfterRunning, Operations
<1>6. QED BY <1>1, <1>2, <1>4, <1>5, StatusMoves, StatusLives, MovesFresh DEF Step

\* The operations that follow the validation, but the last.
LEMMA LateOperationsFresh ==
  ASSUME ~StaleReads, FreshInv, FinalizerInv', plan' = plan,
         \/ EnsureApplicationMetadataIsSet \/ EnsureFinalizerIsAdded
         \/ EnsureReleaseExpirationTimeIsAdded
         \/ EnsureTenantCollectorsPipelineIsProcessed \/ EnsureTenantCollectorsPipelineIsTracked
         \/ EnsureManagedCollectorsPipelineIsProcessed \/ EnsureManagedCollectorsPipelineIsTracked
         \/ EnsureTenantPipelineIsProcessed \/ EnsureTenantPipelineProcessingIsTracked
         \/ EnsureManagedPipelineIsProcessed \/ EnsureManagedPipelineProcessingIsTracked
         \/ EnsureManagedPipelineProcessingIsCompleted
         \/ EnsureFinalPipelineIsProcessed \/ EnsureFinalPipelineProcessingIsTracked
  PROVE  FreshInv' /\ Step
<1>1. AfterFinalizer \subseteq AfterValid /\ "ApplicationMetadataIsSet" \in AfterValid
      /\ "FinalizerIsAdded" \in AfterValid
  BY DEF AfterFinalizer, AfterValid, AfterRunning, Operations
<1>2. CASE EnsureApplicationMetadataIsSet \/ EnsureFinalizerIsAdded
  <2>1. pc \in AfterValid
    BY <1>1, <1>2 DEF EnsureApplicationMetadataIsSet, EnsureFinalizerIsAdded
  <2>2. PICK op : Ends(op) /\ (StatusStep \/ FinalizerAdded)
    BY <1>2, MetadataKind, FinalizerKind
  <2>3. QED BY <2>1, <2>2, LateFresh, SettledSteps DEF Step
<1>3. CASE ~(EnsureApplicationMetadataIsSet \/ EnsureFinalizerIsAdded)
  <2>1. pc \in AfterFinalizer
    BY <1>3 DEF AfterFinalizer, EnsureReleaseExpirationTimeIsAdded,
          EnsureTenantCollectorsPipelineIsProcessed, EnsureTenantCollectorsPipelineIsTracked,
          EnsureManagedCollectorsPipelineIsProcessed, EnsureManagedCollectorsPipelineIsTracked,
          EnsureTenantPipelineIsProcessed, EnsureTenantPipelineProcessingIsTracked,
          EnsureManagedPipelineIsProcessed, EnsureManagedPipelineProcessingIsTracked,
          EnsureManagedPipelineProcessingIsCompleted, EnsureFinalPipelineIsProcessed,
          EnsureFinalPipelineProcessingIsTracked
  <2>2. PICK op : Ends(op) /\ (StatusStep \/ CreationStep)
    BY <1>3, CleanUpKinds, TenantCollectorsKind, ManagedCollectorsKind, TenantKind, ManagedKind,
       FinalKind, TrackedKinds, ManagedTrackedKind, ManagedCompletedKind
  <2>3. QED BY <1>1, <2>1, <2>2, LateFresh DEF Step
<1>4. QED BY <1>2, <1>3

\* EnsureReleaseIsCompleted.
LEMMA CompletedFresh ==
  ASSUME ~StaleReads, FreshInv, FinalizerInv', plan' = plan, EnsureReleaseIsCompleted
  PROVE  FreshInv' /\ Step
<1>1. Underway
  BY DEF Underway, EnsureReleaseIsCompleted
<1>2. Ends("idle") /\ UNCHANGED objects /\ (UNCHANGED rel \/ Completed) /\ pc' = "idle"
  BY CompletedKind
<1>3. Moves /\ Lives
  <2>1. CASE UNCHANGED rel
    BY <1>2, <2>1, StatusMoves, StatusLives DEF StatusStep
  <2>2. CASE Completed
    BY <1>2, <2>2, ReleaseMoves, StatusLives
  <2>3. QED BY <1>2, <2>1, <2>2
<1>4. PlaceOK'
  BY <1>2 DEF PlaceOK, AfterValid, AfterRunning, Operations
<1>5. Step
  BY <1>2, SettledSteps DEF Step
<1>6. QED BY <1>1, <1>2, <1>3, <1>4, <1>5, MovesFresh

\* Every operation.
LEMMA OperationFresh ==
  ASSUME ~StaleReads, FreshInv, FinalizerInv', plan' = plan, Operation
  PROVE  FreshInv' /\ Step
BY FinalizersAreCalledFresh, EarlyOperationsFresh, RunningFresh, ValidFresh, LateOperationsFresh,
   CompletedFresh DEF Operation, Step

-----------------------------------------------------------------------------
(* What happens around the controller preserves the invariant. *)

\* A step that leaves the Release alone.
LEMMA AroundFresh ==
  ASSUME FreshInv, FinalizerInv', CleanUpStep, plan' = plan, cache' = rel', PlaceOK', Alive' => Alive,
         pc' # "idle" => SameStatus(mem', rel') /\ (mem'.deleting => rel'.deleting)
  PROVE  FreshInv' /\ Step
<1>1. StatusOK' /\ RunsOK' /\ BindingsOK' /\ \A x \in runs' : x.seen
  BY CleanUpKeeps
<1>2. Fresh'
  BY <1>1 DEF Fresh
<1>3. QED BY <1>1, <1>2, SettledSteps DEF FreshInv, Step

\* PipelineRuns keep their labels, their finalizers and their success; only one without
\* finalizer goes.
LEMMA RunsEvolve ==
  ASSUME FreshInv, UNCHANGED <<rel, made, bindings>>, NEW D, NEW f, Evolves(D, f),
         \A x \in D : f[x].finalizer = x.finalizer,
         \A x \in runs \ D : ~x.finalizer
  PROVE  CleanUpStep
BY DEF CleanUpStep

\* Nothing happens to the objects.
LEMMA NothingEvolves ==
  ASSUME FreshInv, UNCHANGED rel, UNCHANGED objects
  PROVE  CleanUpStep
<1> DEFINE f == [x \in runs |-> x]
<1>1. Evolves(runs, f) /\ \A x \in runs : f[x].finalizer = x.finalizer
  BY DEF Evolves, FreshInv, Fresh, objects
<1> HIDE DEF f
<1>2. QED BY <1>1, RunsEvolve DEF objects

\* FinishRun, DeleteRun and Restart.
LEMMA RunStepsEvolve ==
  ASSUME FreshInv, FinishRun \/ DeleteRun \/ Restart
  PROVE  CleanUpStep
<1>1. runs \subseteq PipelineRun /\ \A x \in runs : x.seen
  BY RelType DEF FreshInv, Fresh
<1>2. UNCHANGED <<rel, made, bindings>>
  BY DEF FinishRun, DeleteRun, Restart
<1>3. CASE FinishRun
  <2>1. PICK x \in runs : x.state = "running" /\
          \E s \in Outcomes(x.phase) : runs' = (runs \ {x}) \cup {[x EXCEPT !.state = s, !.seen = TRUE]}
    BY <1>3 DEF FinishRun
  <2>2. PICK s : runs' = (runs \ {x}) \cup {[x EXCEPT !.state = s, !.seen = TRUE]}
    BY <2>1
  <2> DEFINE f == [y \in runs |-> IF y = x THEN [x EXCEPT !.state = s, !.seen = TRUE] ELSE y]
  <2>3. runs' = {f[y] : y \in runs}
    BY <2>2
  <2>4. \A y \in runs : /\ f[y].phase = y.phase /\ f[y].attempt = y.attempt /\ f[y].seen
                        /\ f[y].finalizer = y.finalizer
                        /\ y.state = "succeeded" => f[y].state = "succeeded"
    BY <1>1, <2>1 DEF PipelineRun
  <2> HIDE DEF f
  <2>5. Evolves(runs, f)
    BY <2>3, <2>4 DEF Evolves
  <2>6. QED BY <1>2, <2>4, <2>5, RunsEvolve
<1>4. CASE DeleteRun
  <2>1. PICK x \in runs : \/ runs' = (runs \ {x}) \cup {[x EXCEPT !.deleting = TRUE, !.seen = TRUE]}
                          \/ ~x.finalizer /\ runs' = runs \ {x}
    BY <1>4 DEF DeleteRun
  <2>2. CASE runs' = (runs \ {x}) \cup {[x EXCEPT !.deleting = TRUE, !.seen = TRUE]}
    <3> DEFINE f == [y \in runs |-> IF y = x THEN [x EXCEPT !.deleting = TRUE, !.seen = TRUE] ELSE y]
    <3>1. runs' = {f[y] : y \in runs}
      BY <2>2
    <3>2. \A y \in runs : /\ f[y].phase = y.phase /\ f[y].attempt = y.attempt /\ f[y].seen
                          /\ f[y].finalizer = y.finalizer
                          /\ y.state = "succeeded" => f[y].state = "succeeded"
      BY <1>1 DEF PipelineRun
    <3> HIDE DEF f
    <3>3. Evolves(runs, f)
      BY <3>1, <3>2 DEF Evolves
    <3>4. QED BY <1>2, <3>2, <3>3, RunsEvolve
  <2>3. CASE ~x.finalizer /\ runs' = runs \ {x}
    <3> DEFINE f == [y \in runs |-> y]
    <3>1. Evolves(runs \ {x}, f) /\ \A y \in runs : f[y].finalizer = y.finalizer
      BY <1>1, <2>3 DEF Evolves
    <3> HIDE DEF f
    <3>2. QED BY <1>2, <2>3, <3>1, RunsEvolve
  <2>4. QED BY <2>1, <2>2, <2>3
<1>5. CASE Restart
  <2> DEFINE f == [y \in runs |-> [y EXCEPT !.seen = TRUE]]
  <2>1. runs' = {f[y] : y \in runs}
    BY <1>5 DEF Restart
  <2>2. \A y \in runs : /\ f[y].phase = y.phase /\ f[y].attempt = y.attempt /\ f[y].seen
                        /\ f[y].finalizer = y.finalizer
                        /\ y.state = "succeeded" => f[y].state = "succeeded"
    BY <1>1 DEF PipelineRun
  <2> HIDE DEF f
  <2>3. Evolves(runs, f)
    BY <2>1, <2>2 DEF Evolves
  <2>4. QED BY <1>2, <2>2, <2>3, RunsEvolve
<1>6. QED BY <1>3, <1>4, <1>5

\* The author deletes the Release.
LEMMA DeleteReleaseFresh ==
  ASSUME ~StaleReads, FreshInv, FinalizerInv', DeleteRelease
  PROVE  FreshInv' /\ Step
<1>1. /\ rel \in Release /\ rel.present /\ UNCHANGED <<plan, mem, pc>> /\ UNCHANGED objects
      /\ cache' = rel'
      /\ \/ rel.finalizer /\ rel' = [rel EXCEPT !.deleting = TRUE]
         \/ ~rel.finalizer /\ rel' = [rel EXCEPT !.present = FALSE]
  BY RelType DEF DeleteRelease, WriteRelease, unmoved, Release
<1>2. /\ rel'.conds = rel.conds /\ rel'.attempts = rel.attempts /\ rel'.refs = rel.refs
      /\ rel'.finalizer = rel.finalizer /\ (rel.deleting => rel'.deleting)
      /\ \/ rel.finalizer /\ rel'.present /\ rel'.deleting
         \/ ~rel.finalizer /\ ~rel'.present
  BY <1>1 DEF Release
<1>3. Fresh' /\ PlaceOK'
  <2>1. Fresh'
    BY <1>1, <1>2 DEF FreshInv, Fresh, SameStatus, objects
  <2>2. PlaceOK'
    BY <1>1, <1>2 DEF FreshInv, PlaceOK, IsReleasing, isPhaseProgressing
  <2>3. QED BY <2>1, <2>2
<1>4. StatusOK'
  BY <1>1, <1>2 DEF FreshInv, StatusOK, RetriesAreBounded, ReleasedIsValidated
<1>5. BindingsOK'
  BY <1>1, <1>2, FewerBindings DEF objects, RoleBindingsOutlastTheirPipeline
<1>6. Alive' => Alive
  BY <1>1, <1>2 DEF Alive
<1>7. RunsOK'
  <2>1. /\ OneRunPerAttempt' /\ SuccessIsReal'
        /\ \A x \in runs' : x.phase # "managed" => x.attempt = 0
    BY <1>1, <1>2 DEF FreshInv, RunsOK, OneRunPerAttempt, SuccessIsReal, objects
  <2>2. Alive' => Kept' /\ Waited'
    BY <1>1, <1>2, <1>6 DEF FreshInv, RunsOK, Kept, Waited, Has, Current, hasPhaseFinished,
                            isPhaseProgressing, objects
  <2>3. rel'.present /\ ~rel'.finalizer => runs' = {}
    BY <1>2
  <2>4. DeletionReachesEveryRegisteredRun'
    <3>1. ~rel'.present => runs' = {}
      BY <1>1, <1>2 DEF FreshInv, RunsOK, objects
    <3>2. QED BY <3>1 DEF DeletionReachesEveryRegisteredRun
  <2>5. QED BY <2>1, <2>2, <2>3, <2>4 DEF RunsOK
<1>8. Step
  BY <1>1, <1>2 DEF Step, Settled, FreshInv, FinalizerInv, Guarded, Inv, TypeOK, Release
<1>9. QED BY <1>3, <1>4, <1>5, <1>7, <1>8 DEF FreshInv

\* Every other step.
LEMMA SurroundingsFresh ==
  ASSUME ~StaleReads, FreshInv, FinalizerInv', plan' = plan,
         \/ ReconcileFound \/ ReconcileNotFound \/ FinishRun \/ DeleteRun \/ DeleteRelease
         \/ ChangeAdmission \/ ObserveRelease \/ ObserveRun \/ Resync \/ Restart \/ UNCHANGED vars
  PROVE  FreshInv' /\ Step
<1>0. cache = rel /\ \A x \in runs : x.seen
  BY DEF FreshInv, Fresh
<1>1. CASE ReconcileFound
  <2>1. /\ pc = "idle" /\ cache.present /\ UNCHANGED <<rel, cache>> /\ UNCHANGED objects
        /\ pc' = "FinalizersAreCalled" /\ mem' = rel
    BY <1>0, <1>1 DEF ReconcileFound, ContinueWith
  <2>2. Alive' => Alive
    BY <1>0, <2>1 DEF Alive
  <2>3. PlaceOK'
    BY <2>1 DEF PlaceOK, AfterValid, AfterRunning
  <2>4. CleanUpStep
    BY <2>1, NothingEvolves
  <2>5. QED BY <1>0, <2>1, <2>2, <2>3, <2>4, AroundFresh DEF SameStatus
<1>2. CASE ReconcileNotFound \/ ChangeAdmission \/ Resync \/ UNCHANGED vars \/ FinishRun \/ DeleteRun
  <2>1. UNCHANGED <<rel, cache, mem, pc>>
    BY <1>2 DEF ReconcileNotFound, ChangeAdmission, Resync, FinishRun, DeleteRun, vars, unmoved
  <2>2. CleanUpStep
    <3>1. CASE FinishRun \/ DeleteRun
      BY <3>1, RunStepsEvolve
    <3>2. CASE ~(FinishRun \/ DeleteRun)
      <4>1. UNCHANGED objects
        BY <1>2, <3>2 DEF ReconcileNotFound, ChangeAdmission, Resync, vars, objects
      <4>2. QED BY <2>1, <4>1, NothingEvolves
    <3>3. QED BY <3>1, <3>2
  <2>3. Alive' => Alive
    BY <2>1 DEF Alive
  <2>4. PlaceOK'
    BY <2>1 DEF FreshInv, PlaceOK, IsReleasing
  <2>5. pc' # "idle" => SameStatus(mem', rel') /\ (mem'.deleting => rel'.deleting)
    BY <2>1 DEF FreshInv, Fresh, SameStatus
  <2>6. QED BY <1>0, <2>1, <2>2, <2>3, <2>4, <2>5, AroundFresh
<1>3. CASE Restart
  <2>1. UNCHANGED rel /\ cache' = rel /\ pc' = "idle"
    BY <1>3 DEF Restart, StopProcessing
  <2>2. Alive' => Alive
    BY <2>1 DEF Alive
  <2>3. PlaceOK'
    BY <2>1 DEF PlaceOK, AfterValid, AfterRunning, Operations
  <2>4. QED BY <1>3, <2>1, <2>2, <2>3, RunStepsEvolve, AroundFresh
<1>4. CASE ObserveRelease \/ ObserveRun
  BY <1>0, <1>4 DEF ObserveRelease, ObserveRun
<1>5. QED BY <1>1, <1>2, <1>3, <1>4, DeleteReleaseFresh

-----------------------------------------------------------------------------
(* The invariant and what follows from it. *)

\* The invariant holds when the Release is created.
LEMMA FreshInit == Init => FreshInv
<1> SUFFICES ASSUME Init PROVE FreshInv
  OBVIOUS
<1>1. /\ rel = NewRelease /\ cache = rel /\ pc = "idle" /\ runs = {} /\ bindings = {} /\ made = 0
      /\ rel.conds = [c \in ConditionTypes |-> "unset"] /\ rel.attempts = << >>
      /\ rel.refs = [b \in CollectorBindings |-> 0] /\ rel.present
  BY DEF Init, NewRelease
<1>2. FinalizerInv
  BY FinalizerInit
<1>3. Fresh /\ PlaceOK
  BY <1>1 DEF Fresh, PlaceOK, AfterValid, AfterRunning, Operations
<1>4. \A c \in ConditionTypes : rel.conds[c] = "unset"
  BY <1>1
<1>5. StatusOK
  <2>1. plan.maxRetries \in Nat
    BY <1>2, PlansAssumption DEF FinalizerInv, Inv, TypeOK, Plan
  <2>2. RetriesAreBounded
    BY <1>1, <2>1 DEF RetriesAreBounded
  <2>3. QED BY <1>1, <1>4, <2>2, PhaseTypes DEF StatusOK, ReleasedIsValidated, Phases, ConditionTypes
<1>6. RunsOK
  BY <1>1, <1>4, PhaseTypes
     DEF RunsOK, OneRunPerAttempt, Kept, Waited, SuccessIsReal, DeletionReachesEveryRegisteredRun,
         isPhaseProgressing
<1>7. BindingsOK
  <2>1. \A key \in CollectorBindings : rel.refs[key] = 0
    BY <1>1
  <2>2. QED BY <1>1, <2>1 DEF BindingsOK, Refers, RoleBindingsOutlastTheirPipeline
<1>8. QED BY <1>2, <1>3, <1>5, <1>6, <1>7 DEF FreshInv

\* Every step preserves it.
LEMMA FreshNext ==
  ASSUME ~StaleReads, FreshInv, [Next]_vars
  PROVE  FreshInv' /\ Step /\ plan' = plan
<1>1. FinalizerInv'
  BY FinalizerNext DEF FreshInv
<1>2. plan' = plan
  BY DEF Next, Reconcile, environment, FinishRun, DeleteRun, DeleteRelease, ChangeAdmission,
         ObserveRelease, ObserveRun, Resync, Restart, vars
<1>3. CASE Operation
  BY <1>1, <1>2, <1>3, OperationFresh
<1>4. CASE ~Operation
  BY <1>1, <1>2, <1>4, SurroundingsFresh DEF Next, Reconcile
<1>5. QED BY <1>2, <1>3, <1>4

\* The invariant without lagging caches, for all plans and bounds.
THEOREM FreshInvariance == ASSUME ~StaleReads PROVE Spec => []FreshInv
<1>1. FreshInv /\ [Next]_vars => FreshInv'
  BY FreshNext
<1>2. QED BY <1>1, FreshInit, PTL DEF Spec

\* A Release is never marked Released while its Validated condition is not True,
\* although EnsureReleaseIsValid judges it anew in every reconcile.
THEOREM ReleasedWasValidated == ASSUME ~StaleReads PROVE Spec => []ReleasedIsValidated
<1>1. FreshInv => ReleasedIsValidated
  BY DEF FreshInv, StatusOK
<1>2. QED BY <1>1, FreshInvariance, PTL

\* Two PipelineRuns are never made for one phase, or for one attempt of the managed
\* phase, whatever calls fail and wherever the controller dies.
THEOREM RunsAreNotDuplicated == ASSUME ~StaleReads PROVE Spec => []OneRunPerAttempt
<1>1. FreshInv => OneRunPerAttempt
  BY DEF FreshInv, RunsOK
<1>2. QED BY <1>1, FreshInvariance, PTL

\* The managed pipeline is retried at most maxRetries times, and only after attempts
\* that failed for a reason to retry.
THEOREM RetriesEnd == ASSUME ~StaleReads PROVE Spec => []RetriesAreBounded
<1>1. FreshInv => RetriesAreBounded
  BY DEF FreshInv, StatusOK
<1>2. QED BY <1>1, FreshInvariance, PTL

\* A phase recorded as succeeded is one whose PipelineRun has succeeded, for the managed
\* phase the PipelineRun of the last attempt.
THEOREM RecordedSuccessIsReal == ASSUME ~StaleReads PROVE Spec => []SuccessIsReal
<1>1. FreshInv => SuccessIsReal
  BY DEF FreshInv, RunsOK
<1>2. QED BY <1>1, FreshInvariance, PTL

\* The clean-up that starts every reconcile never deletes a RoleBinding that a pipeline
\* in progress was registered with.
THEOREM BindingsLastLongEnough == ASSUME ~StaleReads PROVE Spec => []RoleBindingsOutlastTheirPipeline
<1>1. FreshInv => RoleBindingsOutlastTheirPipeline
  BY DEF FreshInv, BindingsOK
<1>2. QED BY <1>1, FreshInvariance, PTL

\* A Release that is gone has left no PipelineRun behind, but a managed one that was
\* never registered in its status.
THEOREM DeletionIsThorough == ASSUME ~StaleReads PROVE Spec => []DeletionReachesEveryRegisteredRun
<1>1. FreshInv => DeletionReachesEveryRegisteredRun
  BY DEF FreshInv, RunsOK
<1>2. QED BY <1>1, FreshInvariance, PTL

\* What a step does to the status takes nothing back.
LEMMA StepIsFinal ==
  ASSUME FreshInv, Step, NEW c \in ConditionTypes \ {"validated"}, hasPhaseFinished(rel, c)
  PROVE  rel'.conds[c] = rel.conds[c]
<1>1. CASE Settled
  BY <1>1 DEF Settled
<1>2. CASE StatusStep \/ CreationStep \/ (UNCHANGED objects /\ Completed)
  <2>1. CondsMove
    BY <1>2, StatusMoves, CreationMoves, ReleaseMoves DEF Moves
  <2>2. QED BY <2>1 DEF CondsMove
<1>3. QED BY <1>1, <1>2 DEF Step

\* No finished phase and no finished Release is ever reopened or judged again.
THEOREM FinishedStaysFinished == ASSUME ~StaleReads PROVE Spec => FinishedIsFinal
<1>1. FreshInv /\ [Next]_vars =>
        [\A c \in ConditionTypes \ {"validated"} :
           hasPhaseFinished(rel, c) => rel'.conds[c] = rel.conds[c]]_vars
  BY FreshNext, StepIsFinal
<1>2. QED BY <1>1, FreshInvariance, PTL DEF Spec, FinishedIsFinal

-----------------------------------------------------------------------------
(* The refinement of ReleaseLife. *)

\* The conditions and attempts in the refinement mapping of ReleaseRefinement.
LifeConds == [p \in Phases |-> rel.conds[p]]
LifeAttempts == [i \in 1 .. Len(rel.attempts) |-> rel.attempts[i].status]

\* The terms of the Release do not change.
LEMMA SameTerms ==
  ASSUME plan' = plan
  PROVE  UNCHANGED Life!terms
BY DEF Life!terms, Planned

\* ReleaseLife names the phases and their order as the controller does.
LEMMA LifeNames ==
  /\ Life!Phases = Phases
  /\ \A p \in Phases : Life!Before(p) = Before(p) /\ Before(p) \subseteq Phases
BY DEF Life!Phases, Phases, Life!Before, Before

\* One pipeline changes its condition.
LEMMA LifeChange ==
  ASSUME FreshInv, FinalizerInv', NEW p \in Phases, NEW v, rel'.conds[p] = v,
         \A q \in Phases \ {p} : rel'.conds[q] = rel.conds[q]
  PROVE  LifeConds' = [LifeConds EXCEPT ![p] = v]
BY DEF LifeConds

\* The pipelines keep their conditions.
LEMMA LifeSame ==
  ASSUME \A p \in Phases : rel'.conds[p] = rel.conds[p]
  PROVE  LifeConds' = LifeConds
BY DEF LifeConds

\* A status step of a phase.
LEMMA SkippedLife ==
  ASSUME FreshInv, FinalizerInv', plan' = plan, NEW p \in Phases, Skipped(p)
  PROVE  Life!Skip(p) \/ Life!Abandon(p)
<1>1. /\ p \in ConditionTypes /\ p # "released" /\ p # "validated"
      /\ rel.present /\ rel'.attempts = rel.attempts /\ rel'.present = rel.present
      /\ rel'.conds = Set(rel.conds, p, "skipped")
  BY PhaseTypes DEF Skipped, Change, Status, SameLife, Phases
<1>2. rel'.conds[p] = "skipped" /\ \A d \in ConditionTypes \ {p} : rel'.conds[d] = rel.conds[d]
  BY <1>1, SetMove DEF ConditionValues
<1>3. LifeConds' = [LifeConds EXCEPT ![p] = "skipped"] /\ LifeAttempts' = LifeAttempts
      /\ rel'.conds["released"] = rel.conds["released"]
  BY <1>1, <1>2, LifeChange, PhaseTypes DEF LifeAttempts
<1>4. /\ rel.conds["released"] \in {"progressing", "failed"}
      /\ rel.conds[p] \in {"unset", "progressing"}
      /\ \A q \in Before(p) : rel.conds[q] \in {"succeeded", "failed", "skipped"}
      /\ ~Planned(p) \/ (rel.conds["released"] = "failed" /\ p \notin Anyway)
  BY <1>1, RelType DEF Skipped, Due, hasPhaseFinished, ConditionValues
<1>5. rel.conds[p] = "progressing" => Planned(p)
  BY DEF FreshInv, FinalizerInv, Inv, Consistent, Unplanned
<1>6. UNCHANGED Life!terms
  BY SameTerms
<1>7. Life!Before(p) = Before(p) /\ Before(p) \subseteq Phases
  BY LifeNames
<1>8. CASE rel.conds[p] = "unset"
  <2>1. Life!Turn(p)
    BY <1>4, <1>7, <1>8 DEF Life!Turn, Life!Finished
  <2>2. Life!Skip(p)
    BY <1>1, <1>3, <1>4, <1>6, <2>1
       DEF Life!Skip, Life!Unconditional, Anyway, LifeConds, LifeAttempts
  <2>3. QED BY <2>2
<1>9. CASE rel.conds[p] = "progressing"
  BY <1>1, <1>3, <1>4, <1>5, <1>6, <1>9
     DEF Life!Abandon, Life!Unconditional, Anyway, LifeConds, LifeAttempts
<1>10. QED BY <1>4, <1>8, <1>9

\* Starting, judging and completing the Release.
LEMMA ReleaseLifeStep ==
  ASSUME FreshInv, FinalizerInv', plan' = plan, Started \/ Accepted \/ Rejected \/ Completed
  PROVE  Life!Start \/ Life!Reject \/ Life!Complete \/ UNCHANGED Life!vars
<1>1. /\ rel.present /\ rel'.present = rel.present /\ rel'.attempts = rel.attempts
      /\ rel'.refs = rel.refs
  BY DEF Started, Accepted, Rejected, Completed, Change, Status, SameLife
<1>2. UNCHANGED Life!terms
  BY SameTerms
<1>3. CASE Started
  <2>1. /\ rel'.conds["released"] = "progressing"
        /\ \A d \in ConditionTypes \ {"released"} : rel'.conds[d] = rel.conds[d]
    BY <1>3, SetMove, PhaseTypes DEF Started, Change, Status, ConditionValues
  <2>2. LifeConds' = LifeConds
    BY <2>1, LifeSame, PhaseTypes DEF Phases
  <2>3. Life!Start
    BY <1>1, <1>2, <1>3, <2>1, <2>2 DEF Started, Life!Start, LifeConds
  <2>4. QED BY <2>3
<1>4. CASE Accepted
  <2>1. \A d \in ConditionTypes \ {"validated"} : rel'.conds[d] = rel.conds[d]
    BY <1>4, SetMove, PhaseTypes DEF Accepted, Change, Status, ConditionValues
  <2>2. LifeConds' = LifeConds /\ rel'.conds["released"] = rel.conds["released"]
    BY <2>1, LifeSame, PhaseTypes DEF Phases
  <2>3. UNCHANGED Life!vars
    BY <1>1, <1>2, <2>2 DEF Life!vars, Life!terms, LifeConds
  <2>4. QED BY <2>3
<1>5. CASE Rejected
  <2>1. /\ rel'.conds["released"] = "failed"
        /\ \A d \in ConditionTypes \ {"released", "validated"} : rel'.conds[d] = rel.conds[d]
    BY <1>5, FailedMove, PhaseTypes DEF Rejected, Change, Status
  <2>2. LifeConds' = LifeConds
    BY <2>1, LifeSame, PhaseTypes DEF Phases
  <2>3. CASE rel.conds["released"] = "progressing"
    BY <1>1, <1>2, <2>1, <2>2, <2>3 DEF Life!Reject, LifeConds
  <2>4. CASE rel.conds["released"] = "failed"
    BY <1>1, <1>2, <2>1, <2>2, <2>4 DEF Life!vars, Life!terms, LifeConds
  <2>5. QED BY <1>5, <2>3, <2>4 DEF Rejected
<1>6. CASE Completed
  <2>1. /\ rel'.conds["released"] = "succeeded" /\ rel.conds["released"] = "progressing"
        /\ \A d \in ConditionTypes \ {"released"} : rel'.conds[d] = rel.conds[d]
    BY <1>6, SetMove, PhaseTypes DEF Completed, Change, Status, ConditionValues
  <2>2. LifeConds' = LifeConds /\ \A p \in Phases : rel'.conds[p] = rel.conds[p]
    BY <2>1, LifeSame, PhaseTypes DEF Phases
  <2>3. EverythingSucceeded(rel)'
    BY DEF FinalizerInv, Inv, Consistent
  <2>4. \A p \in Phases : rel.conds[p] = IF Planned(p) THEN "succeeded" ELSE "skipped"
    BY <2>1, <2>2, <2>3 DEF EverythingSucceeded, Planned
  <2>5. Life!Complete
    BY <1>1, <1>2, <2>1, <2>2, <2>4, LifeNames DEF Life!Complete, LifeConds
  <2>6. QED BY <2>5
<1>7. QED BY <1>3, <1>4, <1>5, <1>6

\* What may be run may begin.
LEMMA MayBegin ==
  ASSUME FreshInv, NEW p \in Phases, MayRun(p), rel.conds[p] = "unset"
  PROVE  Life!MayBegin(p)
<1>1. Life!Before(p) = Before(p) /\ Before(p) \subseteq Phases
  BY LifeNames
<1>2. Life!Turn(p)
  BY <1>1 DEF MayRun, Due, hasPhaseFinished, Life!Turn, Life!Finished
<1>3. QED BY <1>2 DEF MayRun, Life!MayBegin, Life!Unconditional, Anyway

\* A pipeline begins.
LEMMA BeginLife ==
  ASSUME FreshInv, FinalizerInv', plan' = plan, NEW p \in Phases, p # "managed", MayRun(p),
         rel.conds[p] = "unset", rel'.conds = Set(rel.conds, p, "progressing"),
         rel'.attempts = rel.attempts, rel'.present = rel.present
  PROVE  Life!Begin(p)
<1>1. p \in ConditionTypes /\ p # "released"
  BY PhaseTypes DEF Phases
<1>2. rel'.conds[p] = "progressing" /\ \A d \in ConditionTypes \ {p} : rel'.conds[d] = rel.conds[d]
  BY <1>1, SetMove DEF ConditionValues
<1>3. LifeConds' = [LifeConds EXCEPT ![p] = "progressing"]
      /\ rel'.conds["released"] = rel.conds["released"]
  BY <1>1, <1>2, LifeChange, PhaseTypes
<1>4. UNCHANGED Life!terms
  BY SameTerms
<1>5. QED BY <1>3, <1>4, MayBegin DEF Life!Begin, LifeConds

\* A pipeline fails: the Release with it.
LEMMA FailLife ==
  ASSUME FreshInv, FinalizerInv', plan' = plan, NEW p \in Phases,
         rel.conds[p] = "progressing" \/ Life!MayBegin(p),
         p = "managed" /\ rel.conds[p] = "progressing" => Life!Last = "failed",
         rel'.conds = FailedConds(p), rel'.attempts = rel.attempts, rel'.present = rel.present
  PROVE  Life!Fail(p)
<1>1. p \in ConditionTypes /\ p # "released"
  BY PhaseTypes DEF Phases
<1>2. /\ rel'.conds[p] = "failed" /\ rel'.conds["released"] = "failed"
      /\ \A d \in ConditionTypes \ {p, "released"} : rel'.conds[d] = rel.conds[d]
  BY <1>1, FailedMove DEF FailedConds
<1>3. LifeConds' = [LifeConds EXCEPT ![p] = "failed"]
  BY <1>1, <1>2, LifeChange, PhaseTypes DEF Phases
<1>4. UNCHANGED Life!terms
  BY SameTerms
<1>5. QED BY <1>2, <1>3, <1>4 DEF Life!Fail, LifeConds

\* The status of the attempts.
StatusOf(a) == [i \in 1 .. Len(a) |-> a[i].status]

LifeStatus == {"progressing", "succeeded", "failed"}

\* It is a list of the same length.
LEMMA StatusOfType ==
  ASSUME NEW a \in Seq(Attempt)
  PROVE  /\ StatusOf(a) \in Seq(LifeStatus) /\ Len(StatusOf(a)) = Len(a)
         /\ \A i \in 1 .. Len(a) : StatusOf(a)[i] = a[i].status
<1>1. \A i \in 1 .. Len(a) : a[i].status \in LifeStatus
  <2>1. \A i \in 1 .. Len(a) : a[i] \in Attempt
    OBVIOUS
  <2>2. QED BY <2>1 DEF Attempt, LifeStatus
<1>2. QED BY <1>1 DEF StatusOf

\* It changes with the last attempt.
LEMMA StatusOfUpdate ==
  ASSUME NEW a \in Seq(Attempt), a # << >>, NEW v \in Attempt
  PROVE  StatusOf([a EXCEPT ![Len(a)] = v]) = [StatusOf(a) EXCEPT ![Len(a)] = v.status]
<1> DEFINE b == [a EXCEPT ![Len(a)] = v]
<1>1. /\ b \in Seq(Attempt) /\ Len(b) = Len(a) /\ Len(a) \in 1 .. Len(a)
      /\ \A i \in 1 .. Len(a) : b[i] = IF i = Len(a) THEN v ELSE a[i]
  OBVIOUS
<1> HIDE DEF b
<1>2. StatusOf(b) = [i \in 1 .. Len(a) |-> b[i].status]
  BY <1>1 DEF StatusOf
<1>3. StatusOf(b) = [StatusOf(a) EXCEPT ![Len(a)] = v.status]
  BY <1>1, <1>2 DEF StatusOf
<1>4. QED BY <1>3 DEF b

\* It grows with the attempts.
LEMMA StatusOfAppend ==
  ASSUME NEW a \in Seq(Attempt), NEW v \in Attempt
  PROVE  StatusOf(Append(a, v)) = Append(StatusOf(a), v.status)
<1> DEFINE b == Append(a, v)
           c == Append(StatusOf(a), v.status)
<1>1. /\ b \in Seq(Attempt) /\ Len(b) = Len(a) + 1 /\ b[Len(a) + 1] = v
      /\ \A i \in 1 .. Len(a) : b[i] = a[i]
  OBVIOUS
<1>2. v.status \in LifeStatus
  BY DEF Attempt, LifeStatus
<1>3. /\ c \in Seq(LifeStatus) /\ Len(c) = Len(a) + 1 /\ c[Len(a) + 1] = v.status
      /\ \A i \in 1 .. Len(a) : c[i] = a[i].status
  <2>1. /\ StatusOf(a) \in Seq(LifeStatus) /\ Len(StatusOf(a)) = Len(a)
        /\ \A i \in 1 .. Len(a) : StatusOf(a)[i] = a[i].status
    BY StatusOfType
  <2> DEFINE s == StatusOf(a)
  <2> HIDE DEF s
  <2>2. s \in Seq(LifeStatus) /\ Len(s) = Len(a) /\ \A i \in 1 .. Len(a) : s[i] = a[i].status
    BY <2>1 DEF s
  <2>3. c = Append(s, v.status)
    BY DEF s
  <2>4. QED BY <1>2, <2>2, <2>3
<1>4. /\ StatusOf(b) \in Seq(LifeStatus) /\ Len(StatusOf(b)) = Len(a) + 1
      /\ \A i \in 1 .. Len(a) + 1 : StatusOf(b)[i] = b[i].status
  BY <1>1, StatusOfType
<1> HIDE DEF b, c
<1>5. \A i \in 1 .. Len(a) + 1 : StatusOf(b)[i] = c[i]
  BY <1>1, <1>3, <1>4
<1>6. StatusOf(b) = c
  BY <1>3, <1>4, <1>5
<1>7. QED BY <1>6 DEF b, c

\* The attempts of ReleaseLife are the status of the attempts.
LEMMA LifeAttemptsAre ==
  ASSUME FreshInv, FinalizerInv'
  PROVE  /\ LifeAttempts = StatusOf(rel.attempts) /\ LifeAttempts' = StatusOf(rel'.attempts)
         /\ Len(LifeAttempts) = Len(rel.attempts)
         /\ rel.attempts # << >> => Life!Last = Last.status
<1>1. rel.attempts \in Seq(Attempt)
  BY RelType
<1>2. LifeAttempts = StatusOf(rel.attempts) /\ LifeAttempts' = StatusOf(rel'.attempts)
  BY DEF LifeAttempts, StatusOf
<1>3. Len(LifeAttempts) = Len(rel.attempts)
  BY <1>1, <1>2, StatusOfType
<1>4. Life!Last = LifeAttempts[Len(LifeAttempts)]
  BY DEF Life!Last, LifeAttempts
<1>5. rel.attempts # << >> => Len(rel.attempts) \in 1 .. Len(rel.attempts)
  BY <1>1
<1>6. QED BY <1>1, <1>2, <1>3, <1>4, <1>5, StatusOfType DEF Last

\* The status steps of a phase.
LEMMA PhaseLife ==
  ASSUME FreshInv, FinalizerInv', plan' = plan, NEW p \in Phases,
         Registered(p) \/ Succeeded(p) \/ Failed(p)
  PROVE  Life!Begin(p) \/ Life!Succeed(p) \/ Life!Fail(p) \/ UNCHANGED Life!vars
<1>1. /\ p \in ConditionTypes /\ p # "released"
      /\ rel'.attempts = rel.attempts /\ rel'.present = rel.present
  BY PhaseTypes DEF Registered, Succeeded, Failed, Change, Status, SameLife, Phases
<1>2. UNCHANGED Life!terms
  BY SameTerms
<1>3. CASE Registered(p)
  <2>1. p # "managed" /\ MayRun(p) /\ rel'.conds = Set(rel.conds, p, "progressing")
    BY <1>3 DEF Registered, Change, Status
  <2>2. CASE rel.conds[p] = "unset"
    BY <1>1, <2>1, <2>2, BeginLife
  <2>3. CASE rel.conds[p] # "unset"
    <3>1. rel.conds[p] = "progressing"
      BY <1>1, <2>1, <2>3, RelType DEF MayRun, Due, hasPhaseFinished, ConditionValues
    <3>2. rel'.conds = rel.conds
      BY <1>1, <2>1, <3>1, RelType, SetSame
    <3>3. UNCHANGED Life!vars
      BY <1>1, <1>2, <3>2 DEF Life!vars, Life!terms
    <3>4. QED BY <3>3
  <2>4. QED BY <2>2, <2>3
<1>4. CASE Succeeded(p)
  <2>1. rel'.conds[p] = "succeeded" /\ \A d \in ConditionTypes \ {p} : rel'.conds[d] = rel.conds[d]
    BY <1>1, <1>4, SetMove DEF Succeeded, Change, Status, ConditionValues
  <2>2. LifeConds' = [LifeConds EXCEPT ![p] = "succeeded"]
        /\ rel'.conds["released"] = rel.conds["released"]
    BY <1>1, <2>1, LifeChange, PhaseTypes
  <2>3. p # "managed" /\ rel.conds[p] = "progressing"
    BY <1>4 DEF Succeeded, isPhaseProgressing
  <2>4. Life!Succeed(p)
    BY <1>1, <1>2, <2>2, <2>3 DEF Life!Succeed, LifeConds
  <2>5. QED BY <2>4
<1>5. CASE Failed(p)
  <2>1. /\ rel.conds[p] = "progressing" /\ rel'.conds = FailedConds(p)
        /\ p = "managed" => Last.status = "failed"
    BY <1>5 DEF Failed, Change, Status, isPhaseProgressing
  <2>2. p = "managed" => Life!Last = "failed"
    BY <2>1, LifeAttemptsAre DEF FreshInv, StatusOK
  <2>3. Life!Fail(p)
    BY <1>1, <2>1, <2>2, FailLife
  <2>4. QED BY <2>3
<1>6. QED BY <1>3, <1>4, <1>5

\* The verdict on an attempt.
LEMMA AttemptLife ==
  ASSUME FreshInv, FinalizerInv', plan' = plan, AttemptSucceeded \/ AttemptFailed
  PROVE  Life!Succeed("managed") \/ Life!FailAttempt
<1>1. /\ rel.conds["managed"] = "progressing" /\ Last.status = "progressing"
      /\ rel'.present = rel.present /\ "managed" \in Phases /\ "managed" \in ConditionTypes
  BY PhaseTypes DEF AttemptSucceeded, AttemptFailed, Status, SameLife, isPhaseProgressing, Phases
<1>2. rel.attempts # << >> /\ rel.attempts \in Seq(Attempt)
  BY <1>1, RelType DEF FreshInv, StatusOK
<1>3. Last \in Attempt
  BY <1>2 DEF Last
<1>4. UNCHANGED Life!terms /\ Life!Last = "progressing"
  BY <1>1, <1>2, SameTerms, LifeAttemptsAre
<1>5. ASSUME NEW v \in Attempt, rel'.attempts = [rel.attempts EXCEPT ![Len(rel.attempts)] = v]
      PROVE  LifeAttempts' = [LifeAttempts EXCEPT ![Len(LifeAttempts)] = v.status]
  BY <1>2, <1>5, StatusOfUpdate, LifeAttemptsAre
<1>6. CASE AttemptSucceeded
  <2>1. /\ rel'.conds["managed"] = "succeeded"
        /\ \A d \in ConditionTypes \ {"managed"} : rel'.conds[d] = rel.conds[d]
    BY <1>1, <1>6, SetMove DEF AttemptSucceeded, Status, ConditionValues
  <2>2. LifeConds' = [LifeConds EXCEPT !["managed"] = "succeeded"]
        /\ rel'.conds["released"] = rel.conds["released"]
    BY <1>1, <2>1, LifeChange, PhaseTypes
  <2>3. /\ [Last EXCEPT !.status = "succeeded"] \in Attempt
        /\ [Last EXCEPT !.status = "succeeded"].status = "succeeded"
    BY <1>3 DEF Attempt
  <2>4. rel'.attempts = [rel.attempts EXCEPT ![Len(rel.attempts)] = [Last EXCEPT !.status = "succeeded"]]
    BY <1>6 DEF AttemptSucceeded, Status
  <2>5. LifeAttempts' = [LifeAttempts EXCEPT ![Len(LifeAttempts)] = "succeeded"]
    BY <1>5, <2>3, <2>4
  <2>6. Life!Succeed("managed")
    BY <1>1, <1>4, <2>2, <2>5 DEF Life!Succeed, LifeConds, LifeAttempts
  <2>7. QED BY <2>6
<1>7. CASE AttemptFailed
  <2>1. PICK v \in BOOLEAN :
          Status(rel.conds, [rel.attempts EXCEPT ![Len(rel.attempts)] =
                               [Last EXCEPT !.status = "failed", !.retriable = v]], rel.refs)
    BY <1>7 DEF AttemptFailed
  <2>2. /\ [Last EXCEPT !.status = "failed", !.retriable = v] \in Attempt
        /\ [Last EXCEPT !.status = "failed", !.retriable = v].status = "failed"
    BY <1>3 DEF Attempt
  <2>3. /\ rel'.conds = rel.conds
        /\ rel'.attempts = [rel.attempts EXCEPT ![Len(rel.attempts)] =
                              [Last EXCEPT !.status = "failed", !.retriable = v]]
    BY <2>1 DEF Status
  <2>4. LifeAttempts' = [LifeAttempts EXCEPT ![Len(LifeAttempts)] = "failed"]
    BY <1>5, <2>2, <2>3
  <2>5. Life!FailAttempt
    BY <1>1, <1>4, <2>3, <2>4 DEF Life!FailAttempt, LifeAttempts
  <2>6. QED BY <2>5
<1>8. QED BY <1>6, <1>7

\* The steps that create.
LEMMA CreationLife ==
  ASSUME FreshInv, FinalizerInv', plan' = plan, CreationStep, ~UNCHANGED rel
  PROVE  Life!Retry \/ \E p \in Phases : Life!Begin(p) \/ Life!Fail(p)
<1>1. ASSUME NEW p \in Phases, Created(p) PROVE Life!Begin(p)
  <2>1. PICK refs : Status(Set(rel.conds, p, "progressing"), rel.attempts, refs)
    BY <1>1 DEF Created
  <2>2. QED BY <1>1, <2>1, BeginLife DEF Created, Status, SameLife
<1>2. ASSUME NEW p \in Phases, Refused(p) PROVE Life!Fail(p)
  <2>1. PICK refs : Status(FailedConds(p), rel.attempts, refs)
    BY <1>2 DEF Refused
  <2>2. Life!MayBegin(p) /\ rel.conds[p] = "unset"
    BY <1>2, MayBegin DEF Refused
  <2>3. rel'.conds = FailedConds(p) /\ rel'.attempts = rel.attempts /\ rel'.present = rel.present
    BY <2>1 DEF Status, SameLife
  <2>4. QED BY <2>2, <2>3, FailLife
<1>3. UNCHANGED Life!terms /\ "managed" \in Phases /\ "managed" \in ConditionTypes
  BY SameTerms, PhaseTypes DEF Phases
<1>4. ASSUME NEW n \in Nat
      PROVE  NewAttempt(n) \in Attempt /\ NewAttempt(n).status = "progressing"
  BY DEF NewAttempt, Attempt
<1>5. CASE FirstAttempt
  <2>1. PICK n \in Nat : Status(Set(rel.conds, "managed", "progressing"), <<NewAttempt(n)>>, rel.refs)
    BY <1>5 DEF FirstAttempt
  <2>2. /\ rel'.conds = Set(rel.conds, "managed", "progressing") /\ rel'.attempts = <<NewAttempt(n)>>
        /\ rel'.present = rel.present
    BY <2>1 DEF Status, SameLife
  <2>3. rel'.conds["managed"] = "progressing"
        /\ \A d \in ConditionTypes \ {"managed"} : rel'.conds[d] = rel.conds[d]
    BY <1>3, <2>2, SetMove DEF ConditionValues
  <2>4. LifeConds' = [LifeConds EXCEPT !["managed"] = "progressing"]
        /\ rel'.conds["released"] = rel.conds["released"]
    BY <1>3, <2>3, LifeChange, PhaseTypes
  <2>5. LifeAttempts' = <<"progressing">>
    <3> DEFINE a == <<NewAttempt(n)>>
    <3>1. Len(a) = 1 /\ a[1] = NewAttempt(n)
      OBVIOUS
    <3> HIDE DEF a
    <3>2. StatusOf(a) = <<"progressing">>
      BY <1>4, <3>1 DEF StatusOf
    <3>3. rel'.attempts = a
      BY <2>2 DEF a
    <3>4. QED BY <3>2, <3>3, LifeAttemptsAre
  <2>6. Life!MayBegin("managed")
    BY <1>3, <1>5, MayBegin DEF FirstAttempt
  <2>7. Life!Begin("managed")
    BY <1>3, <2>2, <2>4, <2>5, <2>6 DEF Life!Begin, LifeConds, LifeAttempts
  <2>8. QED BY <1>3, <2>7
<1>6. CASE Retried
  <2>1. /\ rel.conds["managed"] = "progressing" /\ Last.status = "failed" /\ rel.attempts # << >>
        /\ Len(rel.attempts) <= plan.maxRetries /\ ~plan.retryDisabled
        /\ rel.attempts \in Seq(Attempt)
    BY <1>6, RelType DEF Retried, isPhaseProgressing, FreshInv, StatusOK
  <2>2. Life!Last = "failed"
    BY <2>1, LifeAttemptsAre
  <2>3. CASE Change(FailedConds("managed"))
    <3>1. rel'.conds = FailedConds("managed") /\ rel'.attempts = rel.attempts /\ rel'.present = rel.present
      BY <2>3 DEF Change, Status, SameLife
    <3>2. QED BY <1>3, <2>1, <2>2, <3>1, FailLife
  <2>4. ASSUME NEW n \in Nat, Status(rel.conds, Append(rel.attempts, NewAttempt(n)), rel.refs)
        PROVE  Life!Retry
    <3>1. /\ rel'.conds = rel.conds /\ rel'.attempts = Append(rel.attempts, NewAttempt(n))
          /\ rel'.present = rel.present
      BY <2>4 DEF Status, SameLife
    <3>2. LifeAttempts' = Append(LifeAttempts, "progressing") /\ Len(LifeAttempts) <= plan.maxRetries
      BY <1>4, <2>1, <3>1, StatusOfAppend, LifeAttemptsAre
    <3>3. QED BY <1>3, <2>1, <2>2, <3>1, <3>2 DEF Life!Retry, LifeAttempts
  <2>5. QED BY <1>6, <2>3, <2>4 DEF Retried
<1>7. QED BY <1>1, <1>2, <1>5, <1>6 DEF CreationStep

\* A step of the system is a step of ReleaseLife or leaves its variables alone.
LEMMA StepLife ==
  ASSUME FreshInv, FinalizerInv', plan' = plan, Step
  PROVE  [Life!Next]_(Life!vars)
<1>1. rel.present \in BOOLEAN /\ rel'.present \in BOOLEAN /\ Life!Phases = Phases
  BY RelType, NextType, LifeNames DEF Release
<1>2. CASE Settled
  <2>1. CASE rel'.present = rel.present
    BY <1>2, <2>1, SameTerms DEF Settled, Life!vars, Life!terms
  <2>2. CASE rel.present /\ ~rel'.present
    <3>1. Life!Remove
      BY <1>1, <1>2, <2>2, SameTerms DEF Settled, Life!Remove
    <3>2. QED BY <1>1, <2>2, <3>1 DEF Life!Next
  <2>3. QED BY <1>2, <2>1, <2>2 DEF Settled
<1>3. CASE UNCHANGED rel
  BY <1>3, SameTerms DEF Life!vars, Life!terms
<1>4. CASE ~Settled /\ ~UNCHANGED rel
  <2>1. rel.present = TRUE
    BY <1>1, <1>4 DEF Step, StatusStep, CreationStep, Started, Accepted, Rejected, Completed, Skipped,
          Registered, Succeeded, Failed, AttemptSucceeded, AttemptFailed, Created, Refused,
          FirstAttempt, Retried, Change, Status
  <2>2. \/ Life!Start \/ Life!Reject \/ Life!Complete \/ Life!FailAttempt \/ Life!Retry
        \/ \E p \in Phases : \/ Life!Begin(p) \/ Life!Skip(p) \/ Life!Abandon(p)
                             \/ Life!Succeed(p) \/ Life!Fail(p)
        \/ UNCHANGED Life!vars
    <3>1. CASE CreationStep
      BY <1>4, <3>1, CreationLife
    <3>2. CASE StatusStep \/ (UNCHANGED objects /\ Completed)
      <4>1. "managed" \in Phases
        BY DEF Phases
      <4>2. QED BY <1>4, <3>2, <4>1, ReleaseLifeStep, SkippedLife, PhaseLife, AttemptLife DEF StatusStep
    <3>3. QED BY <1>4, <3>1, <3>2 DEF Step
  <2>3. QED BY <1>1, <2>1, <2>2 DEF Life!Next
<1>5. QED BY <1>2, <1>3, <1>4

\* A new Release begins its life.
LEMMA InitLife == Init => Life!Init
<1> SUFFICES ASSUME Init PROVE Life!Init
  OBVIOUS
<1>1. /\ rel.present = TRUE /\ rel.attempts = << >>
      /\ rel.conds = [c \in ConditionTypes |-> "unset"]
  BY DEF Init, NewRelease
<1>2. plan.maxRetries \in Nat
  BY PlansAssumption DEF Init, Plan
<1>3. [p \in Phases |-> rel.conds[p]] = [p \in Phases |-> "unset"] /\ rel.conds["released"] = "unset"
  BY <1>1, PhaseTypes
<1>4. [i \in 1 .. Len(rel.attempts) |-> rel.attempts[i].status] = << >>
  BY <1>1
<1>5. {p \in Phases : Planned(p)} \in SUBSET Life!Phases
  BY LifeNames
<1>6. QED BY <1>1, <1>2, <1>3, <1>4, <1>5, LifeNames DEF Life!Init

\* The controller implements the life that ReleaseLife promises, for all plans: every
\* change of the status is one of its steps, whatever calls fail, wherever the
\* controller dies and whatever people delete or block.
THEOREM LifeIsImplemented == ASSUME ~StaleReads PROVE Spec => ImplementsReleaseLife
<1>1. FreshInv /\ [Next]_vars => [Life!Next]_(Life!vars)
  <2>1. SUFFICES ASSUME FreshInv, [Next]_vars PROVE [Life!Next]_(Life!vars)
    OBVIOUS
  <2>2. FreshInv' /\ Step /\ plan' = plan
    BY <2>1, FreshNext
  <2>3. QED BY <2>1, <2>2, StepLife DEF FreshInv
<1>2. QED BY <1>1, InitLife, FreshInvariance, PTL DEF Spec, ImplementsReleaseLife, Life!Spec
=============================================================================
