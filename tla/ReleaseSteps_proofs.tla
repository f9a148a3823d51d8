------------------------- MODULE ReleaseSteps_proofs -------------------------
(***************************************************************************)
(* What every operation of the adapter does to the status of the Release,  *)
(* to the PipelineRuns and to the RoleBindings when the informer caches do *)
(* not lag.  The twenty-one operations, with their guards, errors and      *)
(* early returns, come down to a few kinds of steps; ReleaseFresh_proofs   *)
(* reasons about these.                                                    *)
(***************************************************************************)
EXTENDS ReleaseFinalizer_proofs

-----------------------------------------------------------------------------
(* The invariant. *)

\* The operations that follow EnsureReleaseIsValid.
AfterValid == AfterRunning \ {"ReleaseIsValid"}

\* Two copies of the Release with the same status and finalizer.
SameStatus(r, s) ==
  /\ r.conds = s.conds /\ r.attempts = s.attempts /\ r.refs = s.refs
  /\ r.finalizer = s.finalizer

\* The caches do not lag, and nobody but the adapter writes the status.
Fresh ==
  /\ cache = rel
  /\ \A x \in runs : x.seen
  /\ pc # "idle" => SameStatus(mem, rel) /\ (mem.deleting => rel.deleting)

\* The attempts agree with the condition of the managed pipeline; attempts and
\* validation are as they should be.
StatusOK ==
  /\ rel.conds["managed"] = "unset" => rel.attempts = << >>
  /\ rel.conds["managed"] = "progressing" => rel.attempts # << >>
  /\ RetriesAreBounded
  /\ ReleasedIsValidated

\* What the place in the reconcile says about the status: every reconcile
\* validates the Release anew, and only one that validates goes on to complete it.
PlaceOK ==
  /\ pc \in AfterRunning => rel.conds["released"] # "succeeded"
  /\ pc \in AfterValid /\ IsReleasing(rel) => rel.conds["validated"] = "succeeded"

\* Operations may still run: when the Release is being deleted, those of the
\* reconcile that is under way.
Alive ==
  \/ rel.present /\ ~rel.deleting
  \/ pc \notin {"idle", "FinalizersAreCalled"}
  \/ pc = "FinalizersAreCalled" /\ ~mem.deleting

\* The label of the PipelineRun phase p waits for.
Current(r, p) == IF p = "managed" THEN Len(r.attempts) - 1 ELSE 0

\* The PipelineRuns of phases that have not finished keep their finalizer.
Kept == \A x \in runs : hasPhaseFinished(rel, x.phase) \/ x.finalizer

Has(p, k) == \E x \in runs : x.phase = p /\ x.attempt = k

\* A phase that is progressing has the PipelineRun it waits for.
Waited == \A p \in Phases : isPhaseProgressing(rel, p) => Has(p, Current(rel, p))

RunsOK ==
  /\ OneRunPerAttempt
  /\ \A x \in runs : x.phase # "managed" => x.attempt = 0
  /\ Alive => Kept /\ Waited
  /\ SuccessIsReal
  /\ rel.present /\ ~rel.finalizer => runs = {}
  /\ DeletionReachesEveryRegisteredRun

\* A reference n to a RoleBinding of phase p: it may be gone, but its number is
\* not that of another phase's RoleBinding, nor one that is still to be given.
Refers(n, p) == n <= made /\ \A b \in bindings : b.id = n => b.phase = p

BindingsOK ==
  /\ \A b \in bindings : 1 <= b.id /\ b.id <= made
  /\ \A key \in CollectorBindings :
       Refers(rel.refs[key], key[1]) /\ (rel.conds[key[1]] = "unset" => rel.refs[key] = 0)
  /\ \A i \in 1 .. Len(rel.attempts) : Refers(rel.attempts[i].roleBinding, "managed")
  /\ RoleBindingsOutlastTheirPipeline

FreshInv == FinalizerInv /\ Fresh /\ StatusOK /\ PlaceOK /\ RunsOK /\ BindingsOK

-----------------------------------------------------------------------------
(* The kinds of steps. *)

Set(f, c, v) == [f EXCEPT ![c] = v]

\* The status that a patch writes; the life of the Release is left alone.
Status(c, a, f) ==
  /\ rel.present
  /\ rel'.conds = c /\ rel'.attempts = a /\ rel'.refs = f
  /\ SameLife(rel, rel')

\* A patch of the conditions.
Change(c) == Status(c, rel.attempts, rel.refs)

\* The conditions when p fails.
FailedConds(p) == Set(Set(rel.conds, p, "failed"), "released", "failed")

Started ==
  /\ rel.conds["released"] = "unset"
  /\ Change(Set(rel.conds, "released", "progressing"))

Accepted ==
  /\ rel.conds["released"] = "progressing"
  /\ Change(Set(rel.conds, "validated", "succeeded"))

Rejected ==
  /\ rel.conds["released"] \in {"progressing", "failed"}
  /\ Change(Set(Set(rel.conds, "validated", "failed"), "released", "failed"))

Completed ==
  /\ rel.conds["released"] = "progressing" /\ rel.conds["validated"] = "succeeded"
  /\ Change(Set(rel.conds, "released", "succeeded"))

\* It is the turn of p, which has not finished.
Due(p) ==
  /\ rel.conds["released"] \in {"progressing", "failed"}
  /\ ~hasPhaseFinished(rel, p)
  /\ \A q \in Before(p) : hasPhaseFinished(rel, q)

\* The pipelines that are run for a failed Release too.
Anyway == {"tenantCollectors", "final"}

\* p is to be run.
MayRun(p) == Due(p) /\ Planned(p) /\ (rel.conds["released"] = "progressing" \/ p \in Anyway)

Skipped(p) ==
  /\ Due(p)
  /\ ~Planned(p) \/ (rel.conds["released"] = "failed" /\ p \notin Anyway)
  /\ Change(Set(rel.conds, p, "skipped"))

\* The PipelineRun exists and is registered, perhaps again.
Registered(p) ==
  /\ p # "managed" /\ MayRun(p) /\ Has(p, 0)
  /\ Change(Set(rel.conds, p, "progressing"))

Succeeded(p) ==
  /\ p # "managed" /\ isPhaseProgressing(rel, p)
  /\ \E x \in runs : x.phase = p /\ x.attempt = 0 /\ x.state = "succeeded"
  /\ Change(Set(rel.conds, p, "succeeded"))

\* The last attempt of the managed pipeline.
Last == rel.attempts[Len(rel.attempts)]

Failed(p) ==
  /\ rel.conds["released"] \in {"progressing", "failed"}
  /\ isPhaseProgressing(rel, p)
  /\ p = "managed" => Last.status = "failed"
  /\ Change(FailedConds(p))

AttemptSucceeded ==
  /\ isPhaseProgressing(rel, "managed") /\ Last.status = "progressing"
  /\ \E x \in runs : x.phase = "managed" /\ x.attempt = Len(rel.attempts) - 1 /\ x.state = "succeeded"
  /\ Status(Set(rel.conds, "managed", "succeeded"),
            [rel.attempts EXCEPT ![Len(rel.attempts)] = [Last EXCEPT !.status = "succeeded"]], rel.refs)

AttemptFailed ==
  /\ isPhaseProgressing(rel, "managed") /\ Last.status = "progressing"
  /\ \E v \in BOOLEAN :
       Status(rel.conds,
              [rel.attempts EXCEPT ![Len(rel.attempts)] =
                 [Last EXCEPT !.status = "failed", !.retriable = v]], rel.refs)

\* The steps that create and delete nothing.
StatusStep ==
  /\ UNCHANGED objects
  /\ \/ UNCHANGED rel
     \/ Started \/ Accepted \/ Rejected
     \/ \E p \in Phases : Skipped(p) \/ Registered(p) \/ Succeeded(p) \/ Failed(p)
     \/ AttemptSucceeded \/ AttemptFailed

\* A new PipelineRun for label k of phase p.
IsNew(x, p, k) ==
  /\ x \in PipelineRun
  /\ x.phase = p /\ x.attempt = k /\ x.state = "running" /\ x.finalizer /\ x.seen

AddsRun(p, k) == ~Has(p, k) /\ \E x : IsNew(x, p, k) /\ runs' = runs \cup {x}

\* RoleBindings are added, and only RoleBindings of p.
AddsBindings(p) ==
  /\ made' \in Nat /\ made <= made'
  /\ bindings \subseteq bindings'
  /\ \A b \in bindings' \ bindings : b.phase = p /\ made < b.id /\ b.id <= made'

\* The number of a RoleBinding that was just created.
IsNewBinding(n) == made < n /\ n <= made' /\ \E b \in bindings' : b.id = n

\* The references to the RoleBindings of the collectors pipeline p.
AddsRefs(p, refs) ==
  /\ refs \in [CollectorBindings -> Nat]
  /\ \A key \in CollectorBindings :
       refs[key] = rel.refs[key] \/ (key[1] = p /\ IsNewBinding(refs[key]))

\* The PipelineRun of p is created, and registered unless the patch fails.
Created(p) ==
  /\ p # "managed" /\ MayRun(p) /\ rel.conds[p] = "unset"
  /\ AddsRun(p, 0) /\ AddsBindings(p)
  /\ \/ UNCHANGED rel
     \/ \E refs : AddsRefs(p, refs) /\ Status(Set(rel.conds, p, "progressing"), rel.attempts, refs)

\* The creation of the PipelineRun of p, or of a RoleBinding, is refused.
Refused(p) ==
  /\ MayRun(p) /\ rel.conds[p] = "unset"
  /\ UNCHANGED runs /\ AddsBindings(p)
  /\ \/ UNCHANGED rel
     \/ \E refs : AddsRefs(p, refs) /\ Status(FailedConds(p), rel.attempts, refs)

NewAttempt(n) == [status |-> "progressing", retriable |-> FALSE, roleBinding |-> n]

\* The first PipelineRun of the managed pipeline is created or found.
FirstAttempt ==
  /\ MayRun("managed") /\ rel.conds["managed"] = "unset"
  /\ \/ Has("managed", 0) /\ UNCHANGED objects
     \/ AddsRun("managed", 0) /\ AddsBindings("managed")
  /\ \/ UNCHANGED rel
     \/ \E n \in Nat : /\ n = 0 \/ IsNewBinding(n)
                       /\ Status(Set(rel.conds, "managed", "progressing"), <<NewAttempt(n)>>, rel.refs)

\* A retry of the managed pipeline: the PipelineRun of the next attempt is created
\* or found and registered, or the creation is refused and the phase fails.
Retried ==
  /\ isPhaseProgressing(rel, "managed") /\ Last.status = "failed" /\ Last.retriable
  /\ rel.conds["released"] \in {"progressing", "failed"}
  /\ Len(rel.attempts) <= plan.maxRetries /\ ~plan.retryDisabled
  /\ AddsRun("managed", Len(rel.attempts)) \/ UNCHANGED runs
  /\ UNCHANGED bindings /\ made' \in Nat /\ made <= made'
  /\ \/ UNCHANGED rel
     \/ Change(FailedConds("managed"))
     \/ /\ \E x \in runs' : x.phase = "managed" /\ x.attempt = Len(rel.attempts)
        /\ \E n \in Nat : /\ n = 0 \/ (n <= made /\ \E b \in bindings : b.id = n)
                          /\ \A b \in bindings : b.id = n => b.phase = "managed"
                          /\ Status(rel.conds, Append(rel.attempts, NewAttempt(n)), rel.refs)

\* The steps that may create something.
CreationStep ==
  \/ \E p \in Phases : Created(p) \/ Refused(p)
  \/ FirstAttempt
  \/ Retried

\* PipelineRuns change or go: f says what becomes of those in D.
Evolves(D, f) ==
  /\ D \subseteq runs /\ runs' = {f[x] : x \in D}
  /\ \A x \in D : /\ f[x].phase = x.phase /\ f[x].attempt = x.attempt /\ f[x].seen
                  /\ x.state = "succeeded" => f[x].state = "succeeded"

\* Only PipelineRuns of finished phases lose the finalizer or go.
CleanUpStep ==
  /\ UNCHANGED rel /\ UNCHANGED made
  /\ \E D, f : /\ Evolves(D, f)
               /\ \A x \in D : f[x].finalizer = x.finalizer \/ hasPhaseFinished(rel, x.phase)
               /\ \A x \in runs \ D : ~x.finalizer \/ hasPhaseFinished(rel, x.phase)
  /\ bindings' \subseteq bindings
  /\ \A b \in bindings \ bindings' :
       \E p \in Phases : hasPhaseFinished(rel, p) /\ b \in Referenced(rel, p)

\* How an operation ends when the caches do not lag.
Ends(op) ==
  /\ cache' = rel'
  /\ \/ pc' = "idle"
     \/ pc' = op /\ SameStatus(mem', rel') /\ (mem'.deleting => rel'.deleting)

-----------------------------------------------------------------------------
(* What the Mark functions write. *)

\* SetCondition writes one condition and nothing else.
LEMMA SetConditionStatus ==
  ASSUME NEW r \in Release, NEW c \in ConditionTypes, NEW v
  PROVE  /\ SetCondition(r, c, v).conds = Set(r.conds, c, v)
         /\ SetCondition(r, c, v).attempts = r.attempts
         /\ SetCondition(r, c, v).refs = r.refs
BY DEF SetCondition, Release, Set

\* A condition that is set to its value does not change.
LEMMA SetSame ==
  ASSUME NEW f \in [ConditionTypes -> ConditionValues], NEW c \in ConditionTypes
  PROVE  Set(f, c, f[c]) = f
BY DEF Set

\* Setting a condition.
LEMMA SetType ==
  ASSUME NEW f \in [ConditionTypes -> ConditionValues], NEW c \in ConditionTypes,
         NEW v \in ConditionValues
  PROVE  /\ Set(f, c, v) \in [ConditionTypes -> ConditionValues]
         /\ \A d \in ConditionTypes : Set(f, c, v)[d] = IF d = c THEN v ELSE f[d]
BY DEF Set

\* What is written when a phase begins, succeeds or is skipped.
LEMMA MarkStatus ==
  ASSUME NEW r \in Release, NEW p \in Phases
  PROVE  /\ ~hasPhaseFinished(r, p) =>
              /\ MarkPipelineProcessing(r, p).conds = Set(r.conds, p, "progressing")
              /\ MarkPipelineProcessingSkipped(r, p).conds = Set(r.conds, p, "skipped")
         /\ isPhaseProgressing(r, p) =>
              /\ MarkPipelineProcessed(r, p).conds = Set(r.conds, p, "succeeded")
              /\ MarkPipelineProcessingFailed(r, p).conds = Set(r.conds, p, "failed")
         /\ MarkPipelineProcessing(r, p).attempts = r.attempts
         /\ MarkPipelineProcessing(r, p).refs = r.refs
         /\ MarkPipelineProcessingSkipped(r, p).attempts = r.attempts
         /\ MarkPipelineProcessingSkipped(r, p).refs = r.refs
         /\ MarkPipelineProcessed(r, p).attempts = r.attempts
         /\ MarkPipelineProcessed(r, p).refs = r.refs
         /\ MarkPipelineProcessingFailed(r, p).attempts = r.attempts
         /\ MarkPipelineProcessingFailed(r, p).refs = r.refs
BY SetConditionStatus, PhaseTypes
   DEF MarkPipelineProcessing, MarkPipelineProcessed, MarkPipelineProcessingFailed,
       MarkPipelineProcessingSkipped

\* What is written when the Release begins, succeeds or fails.
LEMMA MarkReleaseStatus ==
  ASSUME NEW r \in Release
  PROVE  /\ ~HasReleaseFinished(r) => MarkReleasing(r).conds = Set(r.conds, "released", "progressing")
         /\ IsReleasing(r) => MarkReleased(r).conds = Set(r.conds, "released", "succeeded")
         /\ r.conds["released"] \in {"progressing", "failed"} =>
              MarkReleaseFailed(r).conds = Set(r.conds, "released", "failed")
         /\ MarkValidated(r).conds = Set(r.conds, "validated", "succeeded")
         /\ MarkValidationFailed(r).conds = Set(r.conds, "validated", "failed")
         /\ MarkReleasing(r).attempts = r.attempts /\ MarkReleasing(r).refs = r.refs
         /\ MarkReleased(r).attempts = r.attempts /\ MarkReleased(r).refs = r.refs
         /\ MarkReleaseFailed(r).attempts = r.attempts /\ MarkReleaseFailed(r).refs = r.refs
         /\ MarkValidated(r).attempts = r.attempts /\ MarkValidated(r).refs = r.refs
         /\ MarkValidationFailed(r).attempts = r.attempts /\ MarkValidationFailed(r).refs = r.refs
<1>1. r.conds["released"] = "failed" => r.conds = Set(r.conds, "released", "failed")
  BY SetSame, PhaseTypes DEF Release
<1>2. QED
  BY <1>1, SetConditionStatus, PhaseTypes
     DEF MarkReleasing, MarkReleased, MarkReleaseFailed, MarkValidated, MarkValidationFailed,
         IsReleasing, isPhaseProgressing

\* What is written when a phase fails and the Release with it.
LEMMA FailStatus ==
  ASSUME NEW r \in Release, NEW p \in Phases, isPhaseProgressing(r, p),
         r.conds["released"] \in {"progressing", "failed"}
  PROVE  LET s == MarkReleaseFailed(MarkPipelineProcessingFailed(r, p))
         IN /\ s \in Release
            /\ s.conds = Set(Set(r.conds, p, "failed"), "released", "failed")
            /\ s.attempts = r.attempts /\ s.refs = r.refs
<1> DEFINE t == MarkPipelineProcessingFailed(r, p)
<1>1. t \in Release /\ t.conds = Set(r.conds, p, "failed") /\ t.attempts = r.attempts /\ t.refs = r.refs
  BY MarkTypes, MarkStatus
<1>2. t.conds["released"] = r.conds["released"]
  BY <1>1, SetType, PhaseTypes, SMTT(40) DEF Release, ConditionValues
<1> HIDE DEF t
<1>3. /\ MarkReleaseFailed(t) \in Release
      /\ MarkReleaseFailed(t).conds = Set(t.conds, "released", "failed")
      /\ MarkReleaseFailed(t).attempts = t.attempts /\ MarkReleaseFailed(t).refs = t.refs
  BY <1>1, <1>2, MarkReleaseStatus, MarkTypes
<1>4. QED BY <1>1, <1>3 DEF t

\* What handlePipelineCreationError writes.
LEMMA FailPhaseStatus ==
  ASSUME NEW r \in Release, NEW p \in Phases, ~hasPhaseFinished(r, p),
         r.conds["released"] \in {"progressing", "failed"}
  PROVE  /\ FailPhase(r, p) \in Release
         /\ FailPhase(r, p).conds = Set(Set(r.conds, p, "failed"), "released", "failed")
         /\ FailPhase(r, p).attempts = r.attempts /\ FailPhase(r, p).refs = r.refs
<1> DEFINE t == MarkPipelineProcessing(r, p)
<1>1. t \in Release /\ t.conds = Set(r.conds, p, "progressing") /\ t.attempts = r.attempts /\ t.refs = r.refs
  BY MarkTypes, MarkStatus
<1>2. r.conds \in [ConditionTypes -> ConditionValues]
  BY DEF Release
<1>3. t.conds["released"] = r.conds["released"] /\ t.conds[p] = "progressing"
  BY <1>1, <1>2, SetType, PhaseTypes DEF ConditionValues
<1>4. Set(t.conds, p, "failed") = Set(r.conds, p, "failed")
  BY <1>1, <1>2 DEF Set
<1>5. FailPhase(r, p) = MarkReleaseFailed(MarkPipelineProcessingFailed(t, p))
  BY DEF FailPhase
<1> HIDE DEF t
<1>6. isPhaseProgressing(t, p)
  BY <1>3 DEF isPhaseProgressing
<1>7. QED BY <1>1, <1>3, <1>4, <1>5, <1>6, FailStatus

-----------------------------------------------------------------------------
(* How operations end. *)

\* Two Releases with the same fields are the same.
LEMMA ReleaseEquality ==
  ASSUME NEW r \in Release, NEW s \in Release,
         r.conds = s.conds, r.attempts = s.attempts, r.refs = s.refs, SameLife(r, s)
  PROVE  r = s
BY SMTT(40) DEF Release, SameLife

\* During a reconcile the adapter's copy has the status of the Release.
LEMMA MemStatus ==
  ASSUME FreshInv, pc # "idle"
  PROVE  /\ rel \in Release /\ mem \in Release /\ Good(mem)
         /\ mem.conds = rel.conds /\ mem.attempts = rel.attempts /\ mem.refs = rel.refs
         /\ mem.finalizer = rel.finalizer /\ SameStatus(mem, rel) /\ (mem.deleting => rel.deleting)
BY RelGood DEF FreshInv, FinalizerInv, Inv, TypeOK, Fresh, SameStatus

\* Then a patch writes the status it was computed for.
LEMMA FreshPatch ==
  ASSUME FreshInv, pc # "idle", NEW new \in Release
  PROVE  /\ Patched(new).conds = new.conds
         /\ Patched(new).attempts = new.attempts
         /\ Patched(new).refs = new.refs
         /\ SameLife(rel, Patched(new))
<1>1. /\ rel \in Release /\ mem.conds = rel.conds /\ mem.attempts = rel.attempts
      /\ mem.refs = rel.refs
  BY MemStatus
<1>2. Inv
  BY DEF FreshInv, FinalizerInv
<1>3. new.refs \in [CollectorBindings -> Nat]
  BY DEF Release
<1>4. Patched(new).conds = new.conds /\ Patched(new).attempts = new.attempts
  BY <1>1 DEF Patched, Release
<1>5. Patched(new).refs = [b \in CollectorBindings |->
                              IF new.refs[b] # mem.refs[b] THEN new.refs[b] ELSE rel.refs[b]]
  BY <1>1 DEF Patched, Release
<1>6. Patched(new).refs = new.refs
  BY <1>1, <1>3, <1>5
<1>7. QED BY <1>2, <1>4, <1>6, PatchedLife

\* The status of new is written.
Writes(new) == Status(new.conds, new.attempts, new.refs)

\* Operations that write nothing.
LEMMA KeepEnds ==
  ASSUME ~StaleReads, FreshInv, pc # "idle", NEW op
  PROVE  /\ Pass(op) => Ends(op) /\ UNCHANGED rel /\ UNCHANGED objects
         /\ CallFails => Ends(op) /\ UNCHANGED rel /\ UNCHANGED objects
         /\ NotAvailable => Ends(op) /\ UNCHANGED rel /\ UNCHANGED objects
         /\ PatchFails => Ends(op) /\ UNCHANGED rel
         /\ Requeue /\ UNCHANGED <<rel, cache>> => Ends(op)
         /\ StopProcessing /\ UNCHANGED <<rel, cache>> => Ends(op)
         /\ ContinueWith(op, mem) /\ UNCHANGED <<rel, cache>> => Ends(op)
<1>1. cache = rel /\ SameStatus(mem, rel) /\ (mem.deleting => rel.deleting)
  BY MemStatus DEF FreshInv, Fresh
<1>2. QED
  BY <1>1 DEF Pass, CallFails, NotAvailable, PatchFails, Requeue, StopProcessing, ContinueWith, Ends,
              SameStatus

\* Operations that write the status of new.
LEMMA WriteEnds ==
  ASSUME ~StaleReads, FreshInv, pc # "idle", NEW op, NEW new \in Release
  PROVE  /\ PatchSucceeds(new, op) => Ends(op) /\ Writes(new)
         /\ rel.present /\ WriteRelease(Patched(new)) /\ ContinueWith(op, Patched(new))
              => Ends(op) /\ Writes(new)
         /\ rel.present /\ WriteRelease(Patched(new)) /\ StopProcessing => Ends(op) /\ Writes(new)
         /\ PatchStatus(new, op) =>
              Ends(op) /\ UNCHANGED objects /\ (UNCHANGED rel \/ Writes(new))
<1>1. /\ rel.present /\ WriteRelease(Patched(new)) /\ ContinueWith(op, Patched(new))
           => Ends(op) /\ Writes(new)
      /\ rel.present /\ WriteRelease(Patched(new)) /\ StopProcessing => Ends(op) /\ Writes(new)
  BY FreshPatch DEF WriteRelease, ContinueWith, StopProcessing, Ends, Writes, Status, SameStatus
<1>2. PatchSucceeds(new, op) => Ends(op) /\ Writes(new)
  BY <1>1 DEF PatchSucceeds
<1>3. QED BY <1>1, <1>2, KeepEnds DEF PatchStatus

\* Without lagging caches every PipelineRun is found.
LEMMA AllListed ==
  ASSUME FreshInv, NEW p, NEW k
  PROVE  Listed(p, k) = {x \in runs : x.phase = p /\ x.attempt = k} /\ (Listed(p, k) # {} <=> Has(p, k))
BY DEF FreshInv, Fresh, Listed, Has

\* During a reconcile the phases that are progressing have their PipelineRuns.
LEMMA WaitedNow ==
  ASSUME FreshInv, pc \notin {"idle", "FinalizersAreCalled"}
  PROVE  Waited /\ Kept
BY DEF FreshInv, RunsOK, Alive

\* The condition of the Release once it was started.
LEMMA ReleasedNow ==
  ASSUME FreshInv, pc \in AfterRunning
  PROVE  /\ pc \notin {"idle", "FinalizersAreCalled"}
         /\ rel.conds["released"] \in {"progressing", "failed"}
         /\ ~IsFailed(mem) => rel.conds["released"] = "progressing"
<1>1. pc \notin {"idle", "FinalizersAreCalled"}
  BY DEF AfterRunning, Operations
<1>2. mem.conds = rel.conds /\ rel \in Release
  BY <1>1, MemStatus
<1>3. rel.conds["released"] \in ConditionValues
  BY <1>2, PhaseTypes DEF Release
<1>4. rel.conds["released"] # "unset" /\ rel.conds["released"] # "skipped"
  BY <1>2 DEF FreshInv, FinalizerInv, Inv, Begun, Consistent, NotSkipped
<1>5. rel.conds["released"] # "succeeded"
  BY DEF FreshInv, PlaceOK
<1>6. QED BY <1>1, <1>2, <1>3, <1>4, <1>5 DEF ConditionValues, IsFailed

-----------------------------------------------------------------------------
(* The operations before the first pipeline. *)

\* A clean-up of finished phases.
LEMMA CleanUpPhasesKind ==
  ASSUME ~StaleReads, FreshInv, pc # "idle", NEW P \in SUBSET Phases, NEW op, NEW requeues,
         \A p \in P : hasPhaseFinished(rel, p), CleanUpPhases(P, op, requeues)
  PROVE  Ends(op) /\ CleanUpStep
<1> DEFINE B == UNION {Referenced(mem, p) : p \in P}
<1>1. PICK S \in Picks(mem, P) :
        \/ /\ CleanUp(S, B)
           /\ ContinueWith(op, mem)
        \/ \E T \in SUBSET S, C \in SUBSET B :
             CleanUp(T, C) /\ (ContinueWith(op, mem) \/ Requeue)
  BY DEF CleanUpPhases
<1>2. PICK T \in SUBSET S, C \in SUBSET B : CleanUp(T, C) /\ (ContinueWith(op, mem) \/ Requeue)
  BY <1>1
<1>3. \A x \in T : x \in runs /\ hasPhaseFinished(rel, x.phase)
  BY <1>2 DEF Picks
<1>4. \A b \in C : \E p \in Phases : hasPhaseFinished(rel, p) /\ b \in Referenced(rel, p)
  <2>1. mem.refs = rel.refs /\ mem.attempts = rel.attempts
    BY MemStatus
  <2>2. \A p : Referenced(mem, p) = Referenced(rel, p)
    BY <2>1 DEF Referenced
  <2>3. QED BY <1>2, <2>2
<1> HIDE DEF B
<1>5. /\ runs' = RemoveFinalizers(T) /\ bindings' = bindings \ C
      /\ UNCHANGED made /\ UNCHANGED rel /\ UNCHANGED cache
  BY <1>2 DEF CleanUp
<1>6. Ends(op)
  BY <1>2, <1>5, KeepEnds
<1> DEFINE f == [x \in runs |-> IF x \in T THEN [x EXCEPT !.finalizer = FALSE] ELSE x]
           D == runs \ {x \in T : x.deleting}
<1>7. runs \subseteq PipelineRun /\ \A x \in runs : x.seen
  BY DEF FreshInv, FinalizerInv, Inv, TypeOK, Fresh
<1>8. runs' = {f[x] : x \in D}
  BY <1>3, <1>5 DEF RemoveFinalizers
<1>9. \A x \in D : /\ f[x].phase = x.phase /\ f[x].attempt = x.attempt /\ f[x].seen
                   /\ x.state = "succeeded" => f[x].state = "succeeded"
                   /\ f[x].finalizer = x.finalizer \/ hasPhaseFinished(rel, x.phase)
  BY <1>3, <1>7 DEF PipelineRun
<1>10. D \subseteq runs /\ \A x \in runs \ D : hasPhaseFinished(rel, x.phase)
  BY <1>3
<1> HIDE DEF f, D
<1>11. Evolves(D, f)
  BY <1>8, <1>9, <1>10 DEF Evolves
<1>12. CleanUpStep
  BY <1>4, <1>5, <1>9, <1>10, <1>11 DEF CleanUpStep
<1>13. QED BY <1>6, <1>12

\* EnsureConfigIsLoaded and the clean-up operations.
LEMMA CleanUpKinds ==
  ASSUME ~StaleReads, FreshInv
  PROVE  /\ EnsureConfigIsLoaded => Ends("CollectorsCleanedUp") /\ StatusStep
         /\ EnsureCollectorsProcessingResourcesAreCleanedUp
              => Ends("ProcessingCleanedUp") /\ (StatusStep \/ CleanUpStep)
         /\ EnsureReleaseProcessingResourcesAreCleanedUp
              => Ends("ReleaseIsRunning") /\ (StatusStep \/ CleanUpStep)
         /\ EnsureReleaseExpirationTimeIsAdded => Ends("TenantCollectorsProcessed") /\ StatusStep
<1>1. pc # "idle" => \A c : hasPhaseFinished(mem, c) = hasPhaseFinished(rel, c)
  BY MemStatus DEF hasPhaseFinished
<1>2. EnsureConfigIsLoaded => Ends("CollectorsCleanedUp") /\ StatusStep
  BY KeepEnds DEF EnsureConfigIsLoaded, StatusStep
<1>3. EnsureReleaseExpirationTimeIsAdded => Ends("TenantCollectorsProcessed") /\ StatusStep
  BY KeepEnds DEF EnsureReleaseExpirationTimeIsAdded, StatusStep
<1>4. EnsureCollectorsProcessingResourcesAreCleanedUp
        => Ends("ProcessingCleanedUp") /\ (StatusStep \/ CleanUpStep)
  <2> SUFFICES ASSUME EnsureCollectorsProcessingResourcesAreCleanedUp
               PROVE  Ends("ProcessingCleanedUp") /\ (StatusStep \/ CleanUpStep)
    OBVIOUS
  <2>1. pc # "idle"
    BY DEF EnsureCollectorsProcessingResourcesAreCleanedUp
  <2>2. CASE Pass("ProcessingCleanedUp")
    BY <2>1, <2>2, KeepEnds DEF StatusStep
  <2>3. CASE /\ hasPhaseFinished(mem, "tenantCollectors")
             /\ hasPhaseFinished(mem, "managedCollectors")
             /\ CleanUpPhases({"tenantCollectors", "managedCollectors"}, "ProcessingCleanedUp", TRUE)
    <3>1. {"tenantCollectors", "managedCollectors"} \in SUBSET Phases
      BY DEF Phases
    <3>2. \A p \in {"tenantCollectors", "managedCollectors"} : hasPhaseFinished(rel, p)
      BY <1>1, <2>1, <2>3
    <3>3. QED BY <2>1, <2>3, <3>1, <3>2, CleanUpPhasesKind
  <2>4. QED BY <2>2, <2>3 DEF EnsureCollectorsProcessingResourcesAreCleanedUp
<1>5. EnsureReleaseProcessingResourcesAreCleanedUp
        => Ends("ReleaseIsRunning") /\ (StatusStep \/ CleanUpStep)
  <2> SUFFICES ASSUME EnsureReleaseProcessingResourcesAreCleanedUp
               PROVE  Ends("ReleaseIsRunning") /\ (StatusStep \/ CleanUpStep)
    OBVIOUS
  <2>1. pc # "idle"
    BY DEF EnsureReleaseProcessingResourcesAreCleanedUp
  <2>2. CASE Pass("ReleaseIsRunning")
    BY <2>1, <2>2, KeepEnds DEF StatusStep
  <2>3. ASSUME NEW requeues, CleanUpPhases(CleanablePhases(mem), "ReleaseIsRunning", requeues)
        PROVE  Ends("ReleaseIsRunning") /\ CleanUpStep
    <3>1. CleanablePhases(mem) \in SUBSET Phases
      BY DEF CleanablePhases, Phases
    <3>2. \A p \in CleanablePhases(mem) : hasPhaseFinished(rel, p)
      BY <1>1, <2>1 DEF CleanablePhases
    <3>3. QED BY <2>1, <2>3, <3>1, <3>2, CleanUpPhasesKind
  <2>4. QED BY <2>2, <2>3 DEF EnsureReleaseProcessingResourcesAreCleanedUp
<1>6. QED BY <1>2, <1>3, <1>4, <1>5

\* EnsureReleaseIsRunning: a Release that is Released is not worked on again.
LEMMA RunningKind ==
  ASSUME ~StaleReads, FreshInv, EnsureReleaseIsRunning
  PROVE  /\ Ends("ReleaseIsValid") /\ UNCHANGED objects /\ (UNCHANGED rel \/ Started)
         /\ pc' # "idle" => rel'.conds["released"] # "succeeded"
<1>0. pc # "idle"
  BY DEF EnsureReleaseIsRunning
<1>1. /\ rel \in Release /\ mem \in Release /\ mem.conds = rel.conds
      /\ mem.attempts = rel.attempts /\ mem.refs = rel.refs
  BY <1>0, MemStatus
<1>2. CASE HasReleaseFinished(mem) /\ ~AreAllProcessingPhasesFinished(mem) /\ Pass("ReleaseIsValid")
  <2>1. mem.conds["released"] # "succeeded"
    <3>1. EverythingSucceeded(mem)
      BY DEF FreshInv, FinalizerInv, Inv, Consistent
    <3>2. QED BY <1>2, <3>1 DEF EverythingSucceeded, AreAllProcessingPhasesFinished, hasPhaseFinished
  <2>2. QED BY <1>0, <1>1, <1>2, <2>1, KeepEnds
<1>3. CASE StopProcessing /\ UNCHANGED <<rel, cache, queued, objects, faults>>
  BY <1>0, <1>3, KeepEnds DEF StopProcessing
<1>4. CASE IsReleasing(mem) /\ Pass("ReleaseIsValid")
  BY <1>0, <1>1, <1>4, KeepEnds DEF IsReleasing, isPhaseProgressing
<1>5. CASE /\ ~HasReleaseFinished(mem) /\ ~IsReleasing(mem)
           /\ PatchStatus(MarkReleasing(mem), "ReleaseIsValid")
  <2> DEFINE new == MarkReleasing(mem)
  <2>1. /\ new \in Release /\ new.conds = Set(rel.conds, "released", "progressing")
        /\ new.attempts = rel.attempts /\ new.refs = rel.refs
    BY <1>1, <1>5, MarkReleaseStatus, MarkTypes DEF Phases
  <2>2. rel.conds["released"] = "unset"
    BY <1>1, <1>5, PhaseTypes
       DEF Release, ConditionValues, HasReleaseFinished, hasPhaseFinished, IsReleasing, isPhaseProgressing
  <2> HIDE DEF new
  <2>3. Ends("ReleaseIsValid") /\ UNCHANGED objects /\ (UNCHANGED rel \/ Writes(new))
    BY <1>0, <1>5, <2>1, WriteEnds DEF new
  <2>4. CASE Writes(new)
    <3>1. Started
      BY <2>1, <2>2, <2>4 DEF Started, Change, Writes
    <3>2. rel'.conds["released"] = "progressing"
      BY <1>1, <2>1, <2>4, SetType, PhaseTypes, SMTT(40) DEF Writes, Status, Release, ConditionValues
    <3>3. QED BY <2>3, <3>1, <3>2
  <2>5. QED BY <2>2, <2>3, <2>4
<1>6. QED BY <1>2, <1>3, <1>4, <1>5 DEF EnsureReleaseIsRunning

\* EnsureReleaseIsValid: the Release goes on only validated, or failed.
LEMMA ValidKind ==
  ASSUME ~StaleReads, FreshInv, EnsureReleaseIsValid
  PROVE  /\ Ends("ApplicationMetadataIsSet") /\ UNCHANGED objects
         /\ UNCHANGED rel \/ Change(rel.conds) \/ Accepted \/ Rejected
         /\ pc' # "idle" =>
              /\ rel'.conds["released"] # "succeeded"
              /\ rel'.conds["released"] = "progressing" => rel'.conds["validated"] = "succeeded"
<1> DEFINE op == "ApplicationMetadataIsSet"
           judged == IF Validates THEN mem ELSE MarkReleaseFailed(MarkValidationFailed(mem))
<1>0. pc # "idle" /\ pc \in AfterRunning
  BY OperationNames DEF EnsureReleaseIsValid
<1>1. /\ rel \in Release /\ mem \in Release /\ mem.conds = rel.conds
      /\ mem.attempts = rel.attempts /\ mem.refs = rel.refs
  BY <1>0, MemStatus
<1>2. rel.conds["released"] \in {"progressing", "failed"}
  BY <1>0, ReleasedNow
<1>3. rel.conds \in [ConditionTypes -> ConditionValues]
  BY <1>1 DEF Release
<1>4. CASE Validates
  <2>1. judged = mem
    BY <1>4
  <2>2. CASE IsReleasing(judged) /\ PatchStatus(MarkValidated(judged), op)
    <3> DEFINE new == MarkValidated(mem)
    <3>1. /\ new \in Release /\ new.conds = Set(rel.conds, "validated", "succeeded")
          /\ new.attempts = rel.attempts /\ new.refs = rel.refs
      BY <1>1, MarkReleaseStatus, MarkTypes DEF Phases
    <3>2. rel.conds["released"] = "progressing"
      BY <1>1, <2>1, <2>2 DEF IsReleasing, isPhaseProgressing
    <3> HIDE DEF new
    <3>3. Ends(op) /\ UNCHANGED objects /\ (UNCHANGED rel \/ Writes(new))
      BY <1>0, <2>1, <2>2, <3>1, WriteEnds DEF new
    <3>4. CASE Writes(new)
      <4>1. Accepted
        BY <3>1, <3>2, <3>4 DEF Accepted, Change, Writes
      <4>2. rel'.conds["validated"] = "succeeded" /\ rel'.conds["released"] = "progressing"
        BY <1>3, <3>1, <3>2, <3>4, SetType, PhaseTypes DEF Writes, Status, ConditionValues
      <4>3. QED BY <3>3, <4>1, <4>2
    <3>5. CASE UNCHANGED rel /\ ~Writes(new)
      <4>1. pc' = "idle"
        <5>1. PatchSucceeds(new, op) => Writes(new)
          BY <1>0, <3>1, WriteEnds
        <5>2. QED BY <2>1, <2>2, <3>5, <5>1 DEF PatchStatus, PatchFails, Requeue, StopProcessing, new
      <4>2. QED BY <3>3, <3>5, <4>1
    <3>6. QED BY <3>3, <3>4, <3>5
  <2>3. CASE /\ ~IsReleasing(judged) /\ UNCHANGED objects
             /\ \/ PatchSucceeds(judged, op)
                \/ rel.present /\ WriteRelease(Patched(judged)) /\ StopProcessing
                \/ PatchFails
    <3>1. Ends(op) /\ (UNCHANGED rel \/ Writes(mem))
      BY <1>0, <1>1, <2>1, <2>3, WriteEnds, KeepEnds
    <3>2. rel'.conds = rel.conds /\ (UNCHANGED rel \/ Change(rel.conds))
      BY <1>1, <3>1 DEF Writes, Change, Status
    <3>3. rel.conds["released"] = "failed"
      BY <1>1, <1>2, <2>1, <2>3 DEF IsReleasing, isPhaseProgressing
    <3>4. QED BY <2>3, <3>1, <3>2, <3>3
  <2>4. CASE CallFails
    <3>1. pc' = "idle"
      BY <2>4 DEF CallFails, Requeue, StopProcessing
    <3>2. QED BY <1>0, <2>4, <3>1, KeepEnds
  <2>5. QED BY <2>2, <2>3, <2>4 DEF EnsureReleaseIsValid
<1>5. CASE ~Validates
  <2> DEFINE s == MarkValidationFailed(mem)
  <2>1. /\ s \in Release /\ s.conds = Set(rel.conds, "validated", "failed")
        /\ s.attempts = rel.attempts /\ s.refs = rel.refs
    BY <1>1, MarkReleaseStatus, MarkTypes DEF Phases
  <2> HIDE DEF s
  <2>2. s.conds["released"] = rel.conds["released"]
    BY <1>3, <2>1, SetType, PhaseTypes DEF ConditionValues
  <2>3. /\ judged \in Release
        /\ judged.conds = Set(Set(rel.conds, "validated", "failed"), "released", "failed")
        /\ judged.attempts = rel.attempts /\ judged.refs = rel.refs
    <3>1. judged = MarkReleaseFailed(s)
      BY <1>5 DEF s
    <3>2. /\ MarkReleaseFailed(s) \in Release
          /\ MarkReleaseFailed(s).conds = Set(s.conds, "released", "failed")
          /\ MarkReleaseFailed(s).attempts = s.attempts /\ MarkReleaseFailed(s).refs = s.refs
      BY <1>2, <2>1, <2>2, MarkReleaseStatus, MarkTypes DEF Phases
    <3> HIDE DEF judged
    <3>3. QED BY <2>1, <3>1, <3>2
  <2>4. judged.conds["released"] = "failed"
    <3>1. Set(rel.conds, "validated", "failed") \in [ConditionTypes -> ConditionValues]
      BY <1>3, SetType, PhaseTypes DEF ConditionValues
    <3>2. Set(Set(rel.conds, "validated", "failed"), "released", "failed")["released"] = "failed"
      BY <3>1, SetType, PhaseTypes DEF ConditionValues
    <3> HIDE DEF judged
    <3>3. QED BY <2>3, <3>2
  <2>5. ~IsReleasing(judged)
    BY <2>4 DEF IsReleasing, isPhaseProgressing
  <2>6. CASE /\ UNCHANGED objects
             /\ \/ PatchSucceeds(judged, op)
                \/ rel.present /\ WriteRelease(Patched(judged)) /\ StopProcessing
    <3> HIDE DEF judged
    <3>1. Ends(op) /\ Writes(judged)
      BY <1>0, <2>3, <2>6, WriteEnds
    <3>2. Rejected
      BY <1>2, <2>3, <3>1 DEF Rejected, Change, Writes
    <3>3. rel'.conds["released"] = "failed"
      BY <2>4, <3>1 DEF Writes, Status
    <3>4. QED BY <2>6, <3>1, <3>2, <3>3
  <2>7. CASE (UNCHANGED objects /\ PatchFails) \/ CallFails
    <3>1. pc' = "idle"
      BY <2>7 DEF CallFails, PatchFails, Requeue, StopProcessing
    <3>2. QED BY <1>0, <2>7, <3>1, KeepEnds
  <2>8. QED BY <2>5, <2>6, <2>7 DEF EnsureReleaseIsValid
<1>6. QED BY <1>4, <1>5

\* EnsureApplicationMetadataIsSet.
LEMMA MetadataKind ==
  ASSUME ~StaleReads, FreshInv, EnsureApplicationMetadataIsSet
  PROVE  Ends("FinalizerIsAdded") /\ StatusStep
<1>0. pc # "idle" /\ cache = rel
  BY DEF EnsureApplicationMetadataIsSet, FreshInv, Fresh
<1>1. SameStatus(rel, rel)
  BY DEF SameStatus
<1>2. CASE /\ ContinueWith("FinalizerIsAdded", IF rel.present THEN rel ELSE mem)
           /\ UNCHANGED <<rel, cache, queued, objects, faults>>
  <2>1. SameStatus(mem, rel) /\ (mem.deleting => rel.deleting)
    BY <1>0, MemStatus
  <2>2. QED BY <1>0, <1>1, <1>2, <2>1 DEF ContinueWith, Ends, StatusStep, SameStatus
<1>3. CASE CallFails
  BY <1>0, <1>3, KeepEnds DEF StatusStep
<1>4. QED BY <1>2, <1>3 DEF EnsureApplicationMetadataIsSet

\* The finalizer is added to a Release that has no PipelineRuns yet.
FinalizerAdded ==
  /\ rel.present
  /\ UNCHANGED objects
  /\ rel'.conds = rel.conds /\ rel'.attempts = rel.attempts /\ rel'.refs = rel.refs
  /\ rel'.present = rel.present /\ rel'.deleting = rel.deleting /\ rel'.finalizer = TRUE

\* EnsureFinalizerIsAdded.
LEMMA FinalizerKind ==
  ASSUME ~StaleReads, FreshInv, EnsureFinalizerIsAdded
  PROVE  Ends("ExpirationTimeIsAdded") /\ (StatusStep \/ FinalizerAdded)
<1>0. pc # "idle" /\ cache = rel
  BY DEF EnsureFinalizerIsAdded, FreshInv, Fresh
<1>1. CASE mem.finalizer /\ Pass("ExpirationTimeIsAdded")
  BY <1>0, <1>1, KeepEnds DEF StatusStep
<1>2. CASE PatchFails /\ UNCHANGED objects
  BY <1>0, <1>2, KeepEnds DEF StatusStep
<1>3. CASE /\ rel.present /\ UNCHANGED objects
           /\ WriteRelease([rel EXCEPT !.finalizer = TRUE])
           /\ ContinueWith("ExpirationTimeIsAdded", [rel EXCEPT !.finalizer = TRUE])
  <2>1. rel \in Release
    BY <1>0, MemStatus
  <2>2. FinalizerAdded
    BY <1>3, <2>1 DEF FinalizerAdded, WriteRelease, Release
  <2>3. Ends("ExpirationTimeIsAdded")
    BY <1>3 DEF WriteRelease, ContinueWith, Ends, SameStatus
  <2>4. QED BY <2>2, <2>3
<1>4. QED BY <1>1, <1>2, <1>3 DEF EnsureFinalizerIsAdded

-----------------------------------------------------------------------------
(* Creating PipelineRuns and RoleBindings. *)

\* The RoleBindings that are created, and the references to them.
LEMMA BindingsKind ==
  ASSUME FreshInv, pc # "idle", NEW p \in Phases, NEW list \in Seq(Slots), NEW j \in 0 .. Len(list),
         bindings' = bindings \cup NewBindings(p, list, j), made' \in Nat, made + j <= made'
  PROVE  /\ AddsBindings(p)
         /\ WithRefs(mem, p, list, j) \in Release
         /\ WithRefs(mem, p, list, j).conds = rel.conds
         /\ WithRefs(mem, p, list, j).attempts = rel.attempts
         /\ AddsRefs(p, WithRefs(mem, p, list, j).refs)
<1>0. made \in Nat /\ Inv
  BY DEF FreshInv, FinalizerInv, Inv, TypeOK
<1>1. \A i \in ToCreate(p, list, j) : i \in Nat /\ 1 <= i /\ i <= j
  BY DEF ToCreate
<1>2. \A b \in NewBindings(p, list, j) : b.phase = p /\ made < b.id /\ b.id <= made'
  BY <1>0, <1>1 DEF NewBindings
<1>3. AddsBindings(p)
  BY <1>0, <1>2 DEF AddsBindings
<1> DEFINE r == WithRefs(mem, p, list, j)
<1>4. r \in Release /\ r.conds = rel.conds
  BY <1>0, WithRefsType, MemStatus
<1>5. r.attempts = rel.attempts
  BY MemStatus DEF WithRefs, Release
<1>6. \A key \in CollectorBindings :
        r.refs[key] = rel.refs[key] \/ (key[1] = p /\ IsNewBinding(r.refs[key]))
  <2> SUFFICES ASSUME NEW key \in CollectorBindings
               PROVE  r.refs[key] = rel.refs[key] \/ (key[1] = p /\ IsNewBinding(r.refs[key]))
    OBVIOUS
  <2>1. r.refs[key] = IF key[1] = p /\ \E i \in ToCreate(p, list, j) : list[i] = key[2]
                      THEN made + (CHOOSE i \in ToCreate(p, list, j) : list[i] = key[2])
                      ELSE rel.refs[key]
    BY MemStatus DEF WithRefs, Release
  <2> HIDE DEF r
  <2>2. CASE key[1] = p /\ \E i \in ToCreate(p, list, j) : list[i] = key[2]
    <3>1. PICK i \in ToCreate(p, list, j) : r.refs[key] = made + i
      BY <2>1, <2>2
    <3>2. [id |-> made + i, phase |-> p, slot |-> list[i]] \in bindings'
      BY <3>1 DEF NewBindings
    <3>3. IsNewBinding(r.refs[key])
      BY <1>0, <1>1, <3>1, <3>2 DEF IsNewBinding
    <3>4. QED BY <2>2, <3>3
  <2>3. CASE ~(key[1] = p /\ \E i \in ToCreate(p, list, j) : list[i] = key[2])
    BY <2>1, <2>3
  <2>4. QED BY <2>2, <2>3
<1>7. QED BY <1>3, <1>4, <1>5, <1>6 DEF AddsRefs, Release

\* The PipelineRun that is created is new and in the cache.
LEMMA NewRunKind ==
  ASSUME ~StaleReads, FreshInv, NEW p \in Phases, NEW k \in Nat, NEW list \in Seq(Slots)
  PROVE  IsNew(NewRun(p, k, list), p, k)
BY NewRunType DEF FreshInv, FinalizerInv, NewRun, IsNew

\* A creation that is refused.
LEMMA RefusedKind ==
  ASSUME ~StaleReads, FreshInv, pc # "idle", NEW p \in Phases, NEW list \in Seq(Slots), NEW op,
         MayRun(p), rel.conds[p] = "unset", CreationFails(p, list, op)
  PROVE  Ends(op) /\ Refused(p)
<1>1. PICK j \in 0 .. Len(list) :
        LET new == FailPhase(WithRefs(mem, p, list, j), p)
        IN /\ bindings' = bindings \cup NewBindings(p, list, j)
           /\ made' = made + j
           /\ UNCHANGED runs
           /\ \/ Requeue /\ UNCHANGED <<rel, cache>>
              \/ rel.present /\ WriteRelease(Patched(new)) /\ ContinueWith(op, Patched(new))
  BY DEF CreationFails
<1> DEFINE r == WithRefs(mem, p, list, j)
           new == FailPhase(r, p)
<1>2. made' \in Nat /\ made + j <= made'
  BY <1>1 DEF FreshInv, FinalizerInv, Inv, TypeOK
<1>3. /\ AddsBindings(p)
      /\ r \in Release /\ r.conds = rel.conds /\ r.attempts = rel.attempts
      /\ AddsRefs(p, r.refs)
  BY <1>1, <1>2, BindingsKind
<1> HIDE DEF r
<1>4. new \in Release /\ new.conds = FailedConds(p) /\ new.attempts = rel.attempts /\ new.refs = r.refs
  BY <1>3, FailPhaseStatus DEF MayRun, Due, hasPhaseFinished, FailedConds
<1> HIDE DEF new
<1>5. CASE Requeue /\ UNCHANGED <<rel, cache>>
  BY <1>1, <1>3, <1>5, KeepEnds DEF Refused
<1>6. CASE rel.present /\ WriteRelease(Patched(new)) /\ ContinueWith(op, Patched(new))
  <2>1. Ends(op) /\ Writes(new)
    BY <1>4, <1>6, WriteEnds
  <2>2. Status(FailedConds(p), rel.attempts, r.refs)
    BY <1>4, <2>1 DEF Writes
  <2>3. QED BY <1>1, <1>3, <2>1, <2>2 DEF Refused
<1>7. QED BY <1>1, <1>5, <1>6 DEF r, new

\* The creation of a PipelineRun other than the managed one.
LEMMA CreateKind ==
  ASSUME ~StaleReads, FreshInv, pc # "idle", NEW p \in Phases, NEW list \in Seq(Slots), NEW op,
         p # "managed", MayRun(p), rel.conds[p] = "unset", ~Has(p, 0),
         Create(p, 0, list, Register(mem, p, list), op)
  PROVE  Ends(op) /\ (Created(p) \/ Refused(p))
<1>1. CASE CreationFails(p, list, op)
  BY <1>1, RefusedKind
<1>2. CASE CreationSucceeds(p, 0, list, Register(mem, p, list), op)
  <2> DEFINE r == WithRefs(mem, p, list, Len(list))
             new == Register(mem, p, list)
  <2>1. /\ bindings' = bindings \cup NewBindings(p, list, Len(list))
        /\ runs' = runs \cup {NewRun(p, 0, list)}
        /\ made' = made + Len(list) + 1
        /\ PatchSucceeds(new, op) \/ PatchFails
    BY <1>2 DEF CreationSucceeds
  <2>2. made' \in Nat /\ made + Len(list) <= made' /\ Len(list) \in 0 .. Len(list)
    BY <2>1 DEF FreshInv, FinalizerInv, Inv, TypeOK
  <2>3. /\ AddsBindings(p)
        /\ r \in Release /\ r.conds = rel.conds /\ r.attempts = rel.attempts
        /\ AddsRefs(p, r.refs)
    BY <2>1, <2>2, BindingsKind
  <2>4. new = MarkPipelineProcessing(r, p)
    BY DEF Register
  <2> HIDE DEF r, new
  <2>5. /\ new \in Release /\ new.conds = Set(rel.conds, p, "progressing")
        /\ new.attempts = rel.attempts /\ new.refs = r.refs
    BY <2>3, <2>4, MarkStatus, MarkTypes DEF MayRun, Due, hasPhaseFinished
  <2>6. AddsRun(p, 0)
    BY <2>1, NewRunKind DEF AddsRun
  <2>7. CASE PatchFails
    BY <2>3, <2>6, <2>7, KeepEnds DEF Created
  <2>8. CASE PatchSucceeds(new, op)
    <3>1. Ends(op) /\ Writes(new)
      BY <2>5, <2>8, WriteEnds
    <3>2. Status(Set(rel.conds, p, "progressing"), rel.attempts, r.refs)
      BY <2>5, <3>1 DEF Writes
    <3>3. QED BY <2>3, <2>6, <3>1, <3>2 DEF Created
  <2>9. QED BY <2>1, <2>7, <2>8
<1>3. QED BY <1>1, <1>2 DEF Create

\* A phase that is skipped.
LEMMA SkipKind ==
  ASSUME ~StaleReads, FreshInv, pc # "idle", NEW p \in Phases, NEW op, Due(p),
         ~Planned(p) \/ (rel.conds["released"] = "failed" /\ p \notin Anyway),
         Skip(p, op)
  PROVE  Ends(op) /\ StatusStep
<1> DEFINE new == MarkPipelineProcessingSkipped(mem, p)
<1>1. /\ mem \in Release /\ mem.conds = rel.conds
      /\ mem.attempts = rel.attempts /\ mem.refs = rel.refs
  BY MemStatus
<1>2. /\ new \in Release /\ new.conds = Set(rel.conds, p, "skipped")
      /\ new.attempts = rel.attempts /\ new.refs = rel.refs
  BY <1>1, MarkStatus, MarkTypes DEF Due, hasPhaseFinished
<1> HIDE DEF new
<1>3. Ends(op) /\ UNCHANGED objects /\ (UNCHANGED rel \/ Writes(new))
  BY <1>2, WriteEnds DEF Skip, new
<1>4. Writes(new) => Skipped(p)
  BY <1>2 DEF Writes, Change, Skipped
<1>5. QED BY <1>3, <1>4 DEF StatusStep

\* A PipelineRun that is found and registered.
LEMMA RegisterKind ==
  ASSUME ~StaleReads, FreshInv, pc # "idle", NEW p \in Phases, NEW op, p # "managed",
         MayRun(p), Has(p, 0), PatchStatus(MarkPipelineProcessing(mem, p), op)
  PROVE  Ends(op) /\ StatusStep
<1> DEFINE new == MarkPipelineProcessing(mem, p)
<1>1. /\ mem \in Release /\ mem.conds = rel.conds
      /\ mem.attempts = rel.attempts /\ mem.refs = rel.refs
  BY MemStatus
<1>2. /\ new \in Release /\ new.conds = Set(rel.conds, p, "progressing")
      /\ new.attempts = rel.attempts /\ new.refs = rel.refs
  BY <1>1, MarkStatus, MarkTypes DEF MayRun, Due, hasPhaseFinished
<1> HIDE DEF new
<1>3. Ends(op) /\ UNCHANGED objects /\ (UNCHANGED rel \/ Writes(new))
  BY <1>2, WriteEnds DEF new
<1>4. Writes(new) => Registered(p)
  BY <1>2 DEF Writes, Change, Registered
<1>5. QED BY <1>3, <1>4 DEF StatusStep

-----------------------------------------------------------------------------
(* The Ensure...IsProcessed operations. *)

\* A pipeline other than the managed one is started.
LEMMA StartKind ==
  ASSUME ~StaleReads, FreshInv, pc \in AfterRunning, NEW p \in Phases, NEW list \in Seq(Slots),
         NEW op, p # "managed", MayRun(p),
         IF Listed(p, 0) = {} THEN Create(p, 0, list, Register(mem, p, list), op)
                              ELSE PatchStatus(MarkPipelineProcessing(mem, p), op)
  PROVE  Ends(op) /\ (StatusStep \/ CreationStep)
<1>0. pc # "idle"
  BY ReleasedNow
<1>1. CASE Has(p, 0)
  <2>1. PatchStatus(MarkPipelineProcessing(mem, p), op)
    BY <1>1, AllListed
  <2>2. QED BY <1>0, <1>1, <2>1, RegisterKind
<1>2. CASE ~Has(p, 0)
  <2>1. Create(p, 0, list, Register(mem, p, list), op)
    BY <1>2, AllListed
  <2>2. rel.conds[p] = "unset"
    <3>1. rel.conds[p] # "progressing"
      BY <1>2, WaitedNow, ReleasedNow DEF Waited, Current, isPhaseProgressing
    <3>2. rel.conds[p] \in ConditionValues
      BY <1>0, MemStatus, PhaseTypes DEF Release
    <3>3. QED BY <3>1, <3>2 DEF ConditionValues, MayRun, Due, hasPhaseFinished
  <2>3. QED BY <1>0, <1>2, <2>1, <2>2, CreateKind DEF CreationStep
<1>3. QED BY <1>1, <1>2

\* The phases before p have finished when the one just before it has.
LEMMA DueNow ==
  ASSUME FreshInv, pc \in AfterRunning, NEW p \in Phases, ~hasPhaseFinished(mem, p),
         Ready(mem, p)
  PROVE  Due(p)
<1>1. rel.conds["released"] \in {"progressing", "failed"} /\ mem.conds = rel.conds
  BY ReleasedNow, MemStatus
<1>2. QED BY <1>1 DEF Due, Ready, hasPhaseFinished

\* EnsureTenantCollectorsPipelineIsProcessed.
LEMMA TenantCollectorsKind ==
  ASSUME ~StaleReads, FreshInv, EnsureTenantCollectorsPipelineIsProcessed
  PROVE  Ends("TenantCollectorsTracked") /\ (StatusStep \/ CreationStep)
<1> DEFINE p == "tenantCollectors"
           op == "TenantCollectorsTracked"
           list == plan.bindings[p]
<1>1. pc \in AfterRunning /\ pc # "idle" /\ p \in Phases /\ p # "managed" /\ p \in Anyway
  BY OperationNames DEF EnsureTenantCollectorsPipelineIsProcessed, Phases, Anyway
<1>2. Good(mem) /\ list \in Seq(Slots)
  BY <1>1, MemStatus, PlanType DEF FreshInv, FinalizerInv
<1>3. \/ Pass(op) \/ CallFails \/ NotAvailable
      \/ ~hasPhaseFinished(mem, p) /\ p \notin plan.pipelines /\ Skip(p, op)
      \/ /\ ~hasPhaseFinished(mem, p) /\ p \in plan.pipelines
         /\ IF Listed(p, 0) = {} THEN Create(p, 0, list, Register(mem, p, list), op)
                                 ELSE PatchStatus(MarkPipelineProcessing(mem, p), op)
  BY DEF EnsureTenantCollectorsPipelineIsProcessed
<1>4. ~hasPhaseFinished(mem, p) => Due(p)
  BY <1>1, <1>2, DueNow, ReadyAfter DEF Good
<1>5. p \in plan.pipelines <=> Planned(p)
  BY DEF Planned
<1> HIDE DEF list
<1>6. CASE Pass(op) \/ CallFails \/ NotAvailable
  BY <1>1, <1>6, KeepEnds DEF StatusStep
<1>7. CASE ~hasPhaseFinished(mem, p) /\ p \notin plan.pipelines /\ Skip(p, op)
  BY <1>1, <1>4, <1>5, <1>7, SkipKind
<1>8. CASE /\ ~hasPhaseFinished(mem, p) /\ p \in plan.pipelines
           /\ IF Listed(p, 0) = {} THEN Create(p, 0, list, Register(mem, p, list), op)
                                   ELSE PatchStatus(MarkPipelineProcessing(mem, p), op)
  <2>1. MayRun(p)
    BY <1>1, <1>4, <1>5, <1>8 DEF MayRun
  <2>2. QED BY <1>1, <1>2, <1>8, <2>1, StartKind
<1>9. QED BY <1>3, <1>6, <1>7, <1>8

\* EnsureManagedCollectorsPipelineIsProcessed.
LEMMA ManagedCollectorsKind ==
  ASSUME ~StaleReads, FreshInv, EnsureManagedCollectorsPipelineIsProcessed
  PROVE  Ends("ManagedCollectorsTracked") /\ (StatusStep \/ CreationStep)
<1> DEFINE p == "managedCollectors"
           op == "ManagedCollectorsTracked"
           list == plan.bindings[p]
           due == ~hasPhaseFinished(mem, p) /\ hasPhaseFinished(mem, "tenantCollectors")
<1>1. pc \in AfterRunning /\ pc # "idle" /\ p \in Phases /\ p # "managed" /\ p \notin Anyway
  BY OperationNames DEF EnsureManagedCollectorsPipelineIsProcessed, Phases, Anyway
<1>2. Good(mem) /\ list \in Seq(Slots)
  BY <1>1, MemStatus, PlanType DEF FreshInv, FinalizerInv
<1>3. \/ Pass(op) \/ CallFails \/ NotAvailable
      \/ due /\ IsFailed(mem) /\ Skip(p, op)
      \/ due /\ ~(plan.target /\ p \in plan.pipelines) /\ Skip(p, op)
      \/ /\ due /\ ~IsFailed(mem) /\ plan.target /\ p \in plan.pipelines
         /\ IF Listed(p, 0) = {} THEN Create(p, 0, list, Register(mem, p, list), op)
                                 ELSE PatchStatus(MarkPipelineProcessing(mem, p), op)
  BY DEF EnsureManagedCollectorsPipelineIsProcessed
<1>4. due => Due(p)
  BY <1>1, <1>2, DueNow, ReadyAfter DEF Good
<1>5. plan.target /\ p \in plan.pipelines <=> Planned(p)
  BY DEF Planned
<1>6. IsFailed(mem) => rel.conds["released"] = "failed"
  BY <1>1, MemStatus DEF IsFailed
<1> HIDE DEF list, due
<1>7. CASE Pass(op) \/ CallFails \/ NotAvailable
  BY <1>1, <1>7, KeepEnds DEF StatusStep
<1>8. CASE due /\ (IsFailed(mem) \/ ~(plan.target /\ p \in plan.pipelines)) /\ Skip(p, op)
  BY <1>1, <1>4, <1>5, <1>6, <1>8, SkipKind
<1>9. CASE /\ due /\ ~IsFailed(mem) /\ plan.target /\ p \in plan.pipelines
           /\ IF Listed(p, 0) = {} THEN Create(p, 0, list, Register(mem, p, list), op)
                                   ELSE PatchStatus(MarkPipelineProcessing(mem, p), op)
  <2>1. MayRun(p)
    BY <1>1, <1>4, <1>5, <1>9, ReleasedNow DEF MayRun
  <2>2. QED BY <1>1, <1>2, <1>9, <2>1, StartKind
<1>10. QED BY <1>3, <1>7, <1>8, <1>9

\* EnsureTenantPipelineIsProcessed.
LEMMA TenantKind ==
  ASSUME ~StaleReads, FreshInv, EnsureTenantPipelineIsProcessed
  PROVE  Ends("TenantTracked") /\ (StatusStep \/ CreationStep)
<1> DEFINE p == "tenant"
           op == "TenantTracked"
           due == ~hasPhaseFinished(mem, p) /\ hasPhaseFinished(mem, "managedCollectors")
<1>1. pc \in AfterRunning /\ pc # "idle" /\ p \in Phases /\ p # "managed" /\ p \notin Anyway
  BY OperationNames DEF EnsureTenantPipelineIsProcessed, Phases, Anyway
<1>2. Good(mem) /\ << >> \in Seq(Slots)
  BY <1>1, MemStatus
<1>3. \/ Pass(op) \/ CallFails
      \/ due /\ IsFailed(mem) /\ Skip(p, op)
      \/ due /\ p \notin plan.pipelines /\ Skip(p, op)
      \/ /\ due /\ ~IsFailed(mem) /\ p \in plan.pipelines
         /\ IF Listed(p, 0) = {} THEN Create(p, 0, << >>, Register(mem, p, << >>), op)
                                 ELSE PatchStatus(MarkPipelineProcessing(mem, p), op)
  BY DEF EnsureTenantPipelineIsProcessed
<1>4. due => Due(p)
  BY <1>1, <1>2, DueNow, ReadyAfter DEF Good
<1>5. p \in plan.pipelines <=> Planned(p)
  BY DEF Planned
<1>6. IsFailed(mem) => rel.conds["released"] = "failed"
  BY <1>1, MemStatus DEF IsFailed
<1> HIDE DEF due
<1>7. CASE Pass(op) \/ CallFails
  BY <1>1, <1>7, KeepEnds DEF StatusStep
<1>8. CASE due /\ (IsFailed(mem) \/ p \notin plan.pipelines) /\ Skip(p, op)
  BY <1>1, <1>4, <1>5, <1>6, <1>8, SkipKind
<1>9. CASE /\ due /\ ~IsFailed(mem) /\ p \in plan.pipelines
           /\ IF Listed(p, 0) = {} THEN Create(p, 0, << >>, Register(mem, p, << >>), op)
                                   ELSE PatchStatus(MarkPipelineProcessing(mem, p), op)
  <2>1. MayRun(p)
    BY <1>1, <1>4, <1>5, <1>9, ReleasedNow DEF MayRun
  <2>2. QED BY <1>1, <1>2, <1>9, <2>1, StartKind
<1>10. QED BY <1>3, <1>7, <1>8, <1>9

\* EnsureFinalPipelineIsProcessed.
LEMMA FinalKind ==
  ASSUME ~StaleReads, FreshInv, EnsureFinalPipelineIsProcessed
  PROVE  Ends("FinalTracked") /\ (StatusStep \/ CreationStep)
<1> DEFINE p == "final"
           op == "FinalTracked"
           due == ~hasPhaseFinished(mem, p) /\ hasPhaseFinished(mem, "managed")
<1>1. pc \in AfterRunning /\ pc # "idle" /\ p \in Phases /\ p # "managed" /\ p \in Anyway
  BY OperationNames DEF EnsureFinalPipelineIsProcessed, Phases, Anyway
<1>2. Good(mem) /\ << >> \in Seq(Slots)
  BY <1>1, MemStatus
<1>3. \/ Pass(op) \/ CallFails
      \/ due /\ p \notin plan.pipelines /\ Skip(p, op)
      \/ /\ due /\ p \in plan.pipelines
         /\ IF Listed(p, 0) = {} THEN Create(p, 0, << >>, Register(mem, p, << >>), op)
                                 ELSE PatchStatus(MarkPipelineProcessing(mem, p), op)
  BY DEF EnsureFinalPipelineIsProcessed
<1>4. due => Due(p)
  BY <1>1, <1>2, DueNow, ReadyAfter DEF Good
<1>5. p \in plan.pipelines <=> Planned(p)
  BY DEF Planned
<1> HIDE DEF due
<1>6. CASE Pass(op) \/ CallFails
  BY <1>1, <1>6, KeepEnds DEF StatusStep
<1>7. CASE due /\ p \notin plan.pipelines /\ Skip(p, op)
  BY <1>1, <1>4, <1>5, <1>7, SkipKind
<1>8. CASE /\ due /\ p \in plan.pipelines
           /\ IF Listed(p, 0) = {} THEN Create(p, 0, << >>, Register(mem, p, << >>), op)
                                   ELSE PatchStatus(MarkPipelineProcessing(mem, p), op)
  <2>1. MayRun(p)
    BY <1>1, <1>4, <1>5, <1>8 DEF MayRun
  <2>2. QED BY <1>1, <1>2, <1>8, <2>1, StartKind
<1>9. QED BY <1>3, <1>6, <1>7, <1>8

-----------------------------------------------------------------------------
(* The managed pipeline. *)

\* What registerManagedProcessingData writes.
LEMMA RegisterAttemptStatus ==
  ASSUME NEW r \in Release, NEW n \in Nat, ~hasPhaseFinished(r, "managed")
  PROVE  /\ RegisterAttempt(r, n) \in Release
         /\ RegisterAttempt(r, n).conds = Set(r.conds, "managed", "progressing")
         /\ RegisterAttempt(r, n).attempts = Append(r.attempts, NewAttempt(n))
         /\ RegisterAttempt(r, n).refs = r.refs
<1> DEFINE x == NewAttempt(n)
           s == [r EXCEPT !.attempts = Append(r.attempts, x)]
           t == [s EXCEPT !.attempts[Len(s.attempts)].status = "progressing"]
<1>0. x \in Attempt /\ x.status = "progressing"
  BY DEF Attempt, NewAttempt
<1>2. RegisterAttempt(r, n) = MarkCurrentManagedPipelineAttemptProcessing(s)
  BY DEF RegisterAttempt, NewAttempt
<1> HIDE DEF x
<1>1. x \in Attempt /\ [x EXCEPT !.status = "progressing"] = x
  BY <1>0 DEF Attempt
<1>3. r.attempts \in Seq(Attempt)
  BY DEF Release
<1>4. /\ Append(r.attempts, x) \in Seq(Attempt)
      /\ Len(Append(r.attempts, x)) = Len(r.attempts) + 1 /\ Len(r.attempts) \in Nat
      /\ Append(r.attempts, x)[Len(r.attempts) + 1] = x
  BY <1>1, <1>3
<1>5. /\ s \in Release /\ s.conds = r.conds /\ s.refs = r.refs
      /\ s.attempts = Append(r.attempts, x)
  BY <1>4 DEF Release
<1>6. t = s
  <2>1. t = [s EXCEPT !.attempts = [s.attempts EXCEPT ![Len(s.attempts)] =
                                      [s.attempts[Len(s.attempts)] EXCEPT !.status = "progressing"]]]
    BY <1>5 DEF Release
  <2> HIDE DEF s, t
  <2>2. s.attempts[Len(s.attempts)] = x
    BY <1>4, <1>5
  <2>3. [s.attempts EXCEPT ![Len(s.attempts)] = x] = s.attempts
    <3>1. s.attempts \in Seq(Attempt)
      BY <1>5, <1>4
    <3>2. QED BY <2>2, <3>1
  <2>4. [s EXCEPT !.attempts = s.attempts] = s
    BY <1>5 DEF Release
  <2>5. QED BY <1>1, <2>1, <2>2, <2>3, <2>4
<1>7. MarkCurrentManagedPipelineAttemptProcessing(s) = SetCondition(t, "managed", "progressing")
  <2>1. ~IsProcessedSuccessfully(s, "managed")
    BY <1>5 DEF IsProcessedSuccessfully, hasPhaseFinished
  <2>2. Len(s.attempts) # 0
    BY <1>4, <1>5
  <2> HIDE DEF s
  <2>3. QED BY <2>1, <2>2 DEF MarkCurrentManagedPipelineAttemptProcessing
<1> HIDE DEF s, t
<1>8. "managed" \in ConditionTypes /\ "progressing" \in ConditionValues
  BY DEF ConditionTypes, Phases, ConditionValues
<1>9. /\ SetCondition(s, "managed", "progressing") \in Release
      /\ SetCondition(s, "managed", "progressing").conds = Set(s.conds, "managed", "progressing")
      /\ SetCondition(s, "managed", "progressing").attempts = s.attempts
      /\ SetCondition(s, "managed", "progressing").refs = s.refs
  <2>1. s \in Release
    BY <1>5
  <2>2. SetCondition(s, "managed", "progressing") \in Release
    BY <2>1, <1>8, SetConditionType
  <2>3. QED BY <2>1, <2>2, <1>8, SetConditionStatus
<1>10. RegisterAttempt(r, n) = SetCondition(s, "managed", "progressing")
  BY <1>2, <1>6, <1>7
<1>11. QED BY <1>5, <1>9, <1>10 DEF x

\* A managed pipeline whose PipelineRun is not registered has not begun.
LEMMA NotRegistered ==
  ASSUME FreshInv, pc \in AfterRunning, ~hasPhaseFinished(mem, "managed"),
         ~IsRegistered("managed", GetManagedPipelineRetryCount(mem))
  PROVE  /\ rel.conds["managed"] = "unset" /\ rel.attempts = << >>
         /\ Len(mem.attempts) = 0 /\ GetManagedPipelineRetryCount(mem) = 0
<1>0. pc \notin {"idle", "FinalizersAreCalled"}
  BY ReleasedNow
<1>1. mem.conds = rel.conds /\ mem.attempts = rel.attempts /\ rel \in Release
  BY <1>0, MemStatus
<1>2. "managed" \in Phases /\ "managed" \in ConditionTypes
  BY DEF Phases, ConditionTypes
<1>3. rel.conds["managed"] # "progressing"
  <2> SUFFICES ASSUME rel.conds["managed"] = "progressing" PROVE FALSE
    OBVIOUS
  <2>1. rel.attempts # << >> /\ rel.attempts \in Seq(Attempt)
    BY <1>1 DEF FreshInv, StatusOK, Release
  <2>2. GetManagedPipelineRetryCount(mem) = Current(rel, "managed")
    BY <1>1, <2>1 DEF GetManagedPipelineRetryCount, Current
  <2>3. Has("managed", Current(rel, "managed"))
    BY <1>0, <1>2, WaitedNow DEF Waited, isPhaseProgressing
  <2>4. QED BY <1>1, <2>2, <2>3, AllListed DEF IsRegistered, isPhaseProgressing
<1>4. rel.conds["managed"] \in ConditionValues
  BY <1>1, <1>2 DEF Release
<1>5. rel.conds["managed"] = "unset"
  BY <1>1, <1>3, <1>4 DEF ConditionValues, hasPhaseFinished
<1>6. QED BY <1>1, <1>5 DEF FreshInv, StatusOK, GetManagedPipelineRetryCount

\* The first attempt is registered with the RoleBinding created for it, if any.
LEMMA FirstBinding ==
  ASSUME FreshInv, Len(mem.attempts) = 0, NEW list \in Seq(Slots)
  PROVE  /\ AttemptBinding(list) = IF Len(list) = 0 THEN 0 ELSE made + 1
         /\ \A s : ~IsBound("managed", s)
<1>1. \A s : BindingRef(mem, "managed", s) = 0
  BY DEF BindingRef
<1>2. \A b \in bindings : b.id \in Nat /\ 1 <= b.id
  BY DEF FreshInv, BindingsOK, FinalizerInv, Inv, TypeOK, RoleBinding
<1>3. \A s : ~IsBound("managed", s)
  BY <1>1, <1>2 DEF IsBound
<1>4. QED BY <1>3 DEF AttemptBinding

\* EnsureManagedPipelineIsProcessed, when the PipelineRun exists.
LEMMA FoundAttemptKind ==
  ASSUME ~StaleReads, FreshInv, pc # "idle", NEW op, MayRun("managed"),
         rel.conds["managed"] = "unset", rel.attempts = << >>, Has("managed", 0),
         PatchStatus(RegisterAttempt(mem, AttemptBinding(<< >>)), op)
  PROVE  Ends(op) /\ (StatusStep \/ CreationStep)
<1> DEFINE new == RegisterAttempt(mem, 0)
<1>1. /\ mem \in Release /\ mem.conds = rel.conds
      /\ mem.attempts = rel.attempts /\ mem.refs = rel.refs
  BY MemStatus
<1>2. AttemptBinding(<< >>) = 0
  <2>1. << >> \in Seq(Slots) /\ Len(mem.attempts) = 0
    BY <1>1
  <2>2. QED BY <2>1, FirstBinding
<1>3. Append(<< >>, NewAttempt(0)) = <<NewAttempt(0)>>
  OBVIOUS
<1>4. /\ new \in Release /\ new.conds = Set(rel.conds, "managed", "progressing")
      /\ new.attempts = <<NewAttempt(0)>> /\ new.refs = rel.refs
  BY <1>1, <1>3, RegisterAttemptStatus DEF hasPhaseFinished
<1> HIDE DEF new
<1>5. Ends(op) /\ UNCHANGED objects /\ (UNCHANGED rel \/ Writes(new))
  BY <1>2, <1>4, WriteEnds DEF new
<1>6. Writes(new) => Status(Set(rel.conds, "managed", "progressing"), <<NewAttempt(0)>>, rel.refs)
  BY <1>4 DEF Writes
<1>7. FirstAttempt
  BY <1>5, <1>6 DEF FirstAttempt
<1>8. QED BY <1>5, <1>7 DEF CreationStep

\* The same, when it has to be created.
LEMMA NewAttemptKind ==
  ASSUME ~StaleReads, FreshInv, pc # "idle", NEW op, NEW list \in Seq(Slots), MayRun("managed"),
         rel.conds["managed"] = "unset", rel.attempts = << >>, ~Has("managed", 0),
         Create("managed", 0, list, RegisterAttempt(mem, AttemptBinding(list)), op)
  PROVE  Ends(op) /\ CreationStep
<1> DEFINE n == AttemptBinding(list)
           new == RegisterAttempt(mem, n)
<1>0. "managed" \in Phases
  BY DEF Phases
<1>1. CASE CreationFails("managed", list, op)
  BY <1>0, <1>1, RefusedKind DEF CreationStep
<1>2. CASE CreationSucceeds("managed", 0, list, new, op)
  <2>1. /\ bindings' = bindings \cup NewBindings("managed", list, Len(list))
        /\ runs' = runs \cup {NewRun("managed", 0, list)}
        /\ made' = made + Len(list) + 1
        /\ PatchSucceeds(new, op) \/ PatchFails
    BY <1>2 DEF CreationSucceeds
  <2>2. /\ mem \in Release /\ mem.conds = rel.conds
        /\ mem.attempts = rel.attempts /\ mem.refs = rel.refs
    BY MemStatus
  <2>3. made \in Nat /\ made' \in Nat /\ made + Len(list) <= made' /\ Len(list) \in 0 .. Len(list)
    BY <2>1 DEF FreshInv, FinalizerInv, Inv, TypeOK
  <2>4. AddsBindings("managed")
    BY <1>0, <2>1, <2>3, BindingsKind
  <2>5. AddsRun("managed", 0)
    BY <1>0, <2>1, NewRunKind DEF AddsRun
  <2>6. /\ n = IF Len(list) = 0 THEN 0 ELSE made + 1
        /\ \A s : ~IsBound("managed", s)
    BY <2>2, FirstBinding
  <2> HIDE DEF n
  <2>7. n \in Nat /\ (n = 0 \/ IsNewBinding(n))
    <3>1. CASE Len(list) = 0
      BY <2>6, <3>1
    <3>2. CASE Len(list) # 0
      <4>1. n = made + 1 /\ 1 \in 1 .. Len(list)
        BY <2>6, <3>2
      <4>2. 1 \in ToCreate("managed", list, Len(list))
        BY <2>6, <4>1 DEF ToCreate
      <4>3. [id |-> made + 1, phase |-> "managed", slot |-> list[1]] \in bindings'
        BY <2>1, <4>2 DEF NewBindings
      <4>4. IsNewBinding(n)
        BY <2>1, <2>3, <3>2, <4>1, <4>3 DEF IsNewBinding
      <4>5. QED BY <2>3, <4>1, <4>4
    <3>3. QED BY <3>1, <3>2
  <2>8. Append(<< >>, NewAttempt(n)) = <<NewAttempt(n)>>
    OBVIOUS
  <2>9. /\ new \in Release /\ new.conds = Set(rel.conds, "managed", "progressing")
        /\ new.attempts = <<NewAttempt(n)>> /\ new.refs = rel.refs
    BY <2>2, <2>7, <2>8, RegisterAttemptStatus DEF hasPhaseFinished
  <2> HIDE DEF new
  <2>10. CASE PatchFails
    BY <2>4, <2>5, <2>10, KeepEnds DEF FirstAttempt, CreationStep
  <2>11. CASE PatchSucceeds(new, op)
    <3>1. Ends(op) /\ Writes(new)
      BY <2>9, <2>11, WriteEnds
    <3>2. Status(Set(rel.conds, "managed", "progressing"), <<NewAttempt(n)>>, rel.refs)
      BY <2>9, <3>1 DEF Writes
    <3>3. FirstAttempt
      BY <2>4, <2>5, <2>7, <3>2 DEF FirstAttempt
    <3>4. QED BY <3>1, <3>3 DEF CreationStep
  <2>12. QED BY <2>1, <2>10, <2>11
<1>3. QED BY <1>1, <1>2 DEF Create

\* EnsureManagedPipelineIsProcessed.
LEMMA ManagedKind ==
  ASSUME ~StaleReads, FreshInv, EnsureManagedPipelineIsProcessed
  PROVE  Ends("ManagedTracked") /\ (StatusStep \/ CreationStep)
<1> DEFINE p == "managed"
           op == "ManagedTracked"
           list == plan.bindings[p]
           current == GetManagedPipelineRetryCount(mem)
           due == ~hasPhaseFinished(mem, p) /\ hasPhaseFinished(mem, "tenant")
           acts == due /\ ~IsFailed(mem) /\ ~IsRegistered(p, current)
<1>1. pc \in AfterRunning /\ pc # "idle" /\ p \in Phases /\ p \notin Anyway
  BY OperationNames DEF EnsureManagedPipelineIsProcessed, Phases, Anyway
<1>2. Good(mem) /\ list \in Seq(Slots)
  BY <1>1, MemStatus, PlanType DEF FreshInv, FinalizerInv
<1>3. \/ Pass(op) \/ CallFails \/ NotAvailable
      \/ due /\ IsFailed(mem) /\ Skip(p, op)
      \/ acts /\ ~plan.target /\ Skip(p, op)
      \/ acts /\ p \notin plan.pipelines /\ Skip(p, op)
      \/ /\ acts /\ Listed(p, current) # {}
         /\ PatchStatus(RegisterAttempt(mem, AttemptBinding(<< >>)), op)
      \/ /\ acts /\ Listed(p, current) = {} /\ plan.target /\ p \in plan.pipelines
         /\ Create(p, Len(mem.attempts), list, RegisterAttempt(mem, AttemptBinding(list)), op)
  BY DEF EnsureManagedPipelineIsProcessed
<1>4. due => Due(p)
  BY <1>1, <1>2, DueNow, ReadyAfter DEF Good
<1>5. plan.target /\ p \in plan.pipelines <=> Planned(p)
  BY DEF Planned
<1>6. IsFailed(mem) => rel.conds["released"] = "failed"
  BY <1>1, MemStatus DEF IsFailed
<1>7. acts => /\ rel.conds[p] = "unset" /\ rel.attempts = << >>
              /\ Len(mem.attempts) = 0 /\ current = 0
              /\ rel.conds["released"] = "progressing" /\ due
  BY <1>1, NotRegistered, ReleasedNow
<1> HIDE DEF list, due, acts, current
<1>8. CASE Pass(op) \/ CallFails \/ NotAvailable
  BY <1>1, <1>8, KeepEnds DEF StatusStep
<1>9. CASE due /\ IsFailed(mem) /\ Skip(p, op)
  BY <1>1, <1>4, <1>6, <1>9, SkipKind
<1>10. CASE acts /\ ~(plan.target /\ p \in plan.pipelines) /\ Skip(p, op)
  BY <1>1, <1>4, <1>5, <1>7, <1>10, SkipKind
<1>11. CASE /\ acts /\ Listed(p, current) # {}
            /\ PatchStatus(RegisterAttempt(mem, AttemptBinding(<< >>)), op)
  <2>1. Has(p, 0)
    BY <1>7, <1>11, AllListed
  <2>2. Planned(p)
    BY <2>1 DEF Has, FreshInv, FinalizerInv, Inv, ObjectsOK
  <2>3. MayRun(p)
    BY <1>4, <1>7, <1>11, <2>2 DEF MayRun
  <2>4. QED BY <1>1, <1>7, <1>11, <2>1, <2>3, FoundAttemptKind
<1>12. CASE /\ acts /\ Listed(p, current) = {} /\ plan.target /\ p \in plan.pipelines
            /\ Create(p, Len(mem.attempts), list, RegisterAttempt(mem, AttemptBinding(list)), op)
  <2>1. ~Has(p, 0)
    BY <1>7, <1>12, AllListed
  <2>2. MayRun(p)
    BY <1>4, <1>5, <1>7, <1>12 DEF MayRun
  <2>3. QED BY <1>1, <1>2, <1>7, <1>12, <2>1, <2>2, NewAttemptKind
<1>13. QED BY <1>3, <1>8, <1>9, <1>10, <1>11, <1>12

-----------------------------------------------------------------------------
(* The Ensure...IsTracked operations. *)

\* The result of a pipeline other than the managed one.
LEMMA TrackKind ==
  ASSUME ~StaleReads, FreshInv, pc \in AfterRunning, NEW p \in Phases, NEW op, p # "managed",
         TrackPipeline(p, op)
  PROVE  Ends(op) /\ StatusStep
<1>0. pc # "idle" /\ rel.conds["released"] \in {"progressing", "failed"}
  BY ReleasedNow
<1>1. /\ mem \in Release /\ mem.conds = rel.conds
      /\ mem.attempts = rel.attempts /\ mem.refs = rel.refs
  BY <1>0, MemStatus
<1>2. CASE Pass(op) \/ CallFails
  BY <1>0, <1>2, KeepEnds DEF StatusStep
<1>3. ASSUME isPhaseProgressing(mem, p), NEW x \in Listed(p, 0), PatchStatus(TrackedResult(x, p), op)
      PROVE  Ends(op) /\ StatusStep
  <2>1. x \in runs /\ x.phase = p /\ x.attempt = 0 /\ isPhaseProgressing(rel, p)
    BY <1>1, <1>3 DEF Listed, isPhaseProgressing
  <2>2. CASE x.state = "succeeded"
    <3> DEFINE new == MarkPipelineProcessed(mem, p)
    <3>0. /\ new \in Release /\ new.conds = Set(mem.conds, p, "succeeded")
          /\ new.attempts = mem.attempts /\ new.refs = mem.refs
      <4>1. new \in Release
        BY <1>1, MarkTypes
      <4>2. QED BY <1>1, <1>3, <4>1, MarkStatus
    <3>1. /\ new \in Release /\ new.conds = Set(rel.conds, p, "succeeded")
          /\ new.attempts = rel.attempts /\ new.refs = rel.refs
      BY <1>1, <3>0
    <3>2. TrackedResult(x, p) = new
      BY <2>2 DEF TrackedResult
    <3> HIDE DEF new
    <3>3. Ends(op) /\ UNCHANGED objects /\ (UNCHANGED rel \/ Writes(new))
      BY <1>0, <1>3, <3>1, <3>2, WriteEnds
    <3>4. Writes(new) => Succeeded(p)
      BY <2>1, <2>2, <3>1 DEF Writes, Change, Succeeded
    <3>5. QED BY <3>3, <3>4 DEF StatusStep
  <2>3. CASE x.state # "succeeded"
    <3> DEFINE new == MarkReleaseFailed(MarkPipelineProcessingFailed(mem, p))
    <3>1. /\ new \in Release /\ new.conds = FailedConds(p)
          /\ new.attempts = rel.attempts /\ new.refs = rel.refs
      BY <1>0, <1>1, <1>3, FailStatus DEF FailedConds
    <3>2. TrackedResult(x, p) = new
      BY <2>3 DEF TrackedResult
    <3> HIDE DEF new
    <3>3. Ends(op) /\ UNCHANGED objects /\ (UNCHANGED rel \/ Writes(new))
      BY <1>0, <1>3, <3>1, <3>2, WriteEnds
    <3>4. Writes(new) => Failed(p)
      BY <1>0, <2>1, <3>1 DEF Writes, Change, Failed
    <3>5. QED BY <3>3, <3>4 DEF StatusStep
  <2>4. QED BY <2>2, <2>3
<1>4. QED BY <1>2, <1>3 DEF TrackPipeline

\* EnsureTenantCollectorsPipelineIsTracked and its siblings.
LEMMA TrackedKinds ==
  ASSUME ~StaleReads, FreshInv
  PROVE  /\ EnsureTenantCollectorsPipelineIsTracked => Ends("ManagedCollectorsProcessed") /\ StatusStep
         /\ EnsureManagedCollectorsPipelineIsTracked => Ends("TenantProcessed") /\ StatusStep
         /\ EnsureTenantPipelineProcessingIsTracked => Ends("ManagedProcessed") /\ StatusStep
         /\ EnsureFinalPipelineProcessingIsTracked => Ends("ReleaseIsCompleted") /\ StatusStep
<1>1. {"tenantCollectors", "managedCollectors", "tenant", "final"} \subseteq Phases
  BY DEF Phases
<1>2. QED
  BY <1>1, TrackKind, OperationNames
     DEF EnsureTenantCollectorsPipelineIsTracked, EnsureManagedCollectorsPipelineIsTracked,
         EnsureTenantPipelineProcessingIsTracked, EnsureFinalPipelineProcessingIsTracked

\* What is written about the current attempt.
LEMMA AttemptStatus ==
  ASSUME NEW r \in Release, isPhaseProgressing(r, "managed"), Len(r.attempts) > 0,
         ~IsCurrentManagedPipelineAttemptDone(r), NEW v \in BOOLEAN
  PROVE  LET n == Len(r.attempts)
             last == r.attempts[n]
             s == MarkCurrentManagedPipelineAttemptProcessed(r)
             t == MarkCurrentManagedPipelineAttemptFailed(r, v)
         IN /\ s \in Release /\ t \in Release
            /\ s.conds = Set(r.conds, "managed", "succeeded") /\ t.conds = r.conds
            /\ s.attempts = [r.attempts EXCEPT ![n] = [last EXCEPT !.status = "succeeded"]]
            /\ t.attempts = [r.attempts EXCEPT ![n] = [last EXCEPT !.status = "failed",
                                                                   !.retriable = v]]
            /\ s.refs = r.refs /\ t.refs = r.refs
            /\ last.status = "progressing"
<1> DEFINE n == Len(r.attempts)
           last == r.attempts[n]
           a == [r EXCEPT !.attempts[n].status = "succeeded"]
           t == [r EXCEPT !.attempts[n].status = "failed", !.attempts[n].retriable = v]
           s == SetCondition(a, "managed", "succeeded")
<1>1. n \in 1 .. Len(r.attempts) /\ last \in Attempt
  BY DEF Release
<1>2. last.status = "progressing"
  BY <1>1 DEF Attempt, IsCurrentManagedPipelineAttemptDone, GetCurrentManagedPipelineAttempt
<1>3. a \in Release /\ a.conds = r.conds /\ t \in Release /\ t.conds = r.conds
  BY AttemptUpdate
<1>4. /\ a.attempts = [r.attempts EXCEPT ![n] = [last EXCEPT !.status = "succeeded"]]
      /\ a.refs = r.refs
  BY <1>1 DEF Release
<1>5. /\ t.attempts = [r.attempts EXCEPT ![n] = [last EXCEPT !.status = "failed", !.retriable = v]]
      /\ t.refs = r.refs
  BY <1>1 DEF Release
<1>6. /\ MarkCurrentManagedPipelineAttemptProcessed(r) = s
      /\ MarkCurrentManagedPipelineAttemptFailed(r, v) = t
  BY DEF MarkCurrentManagedPipelineAttemptProcessed, MarkCurrentManagedPipelineAttemptFailed
<1> HIDE DEF a, t
<1>7. "managed" \in ConditionTypes /\ "succeeded" \in ConditionValues
  BY DEF ConditionTypes, Phases, ConditionValues
<1>8. s \in Release
  BY <1>3, <1>7, SetConditionType
<1>9. s.conds = Set(a.conds, "managed", "succeeded") /\ s.attempts = a.attempts /\ s.refs = a.refs
  BY <1>3, <1>7, SetConditionStatus
<1> HIDE DEF s
<1>10. QED BY <1>2, <1>3, <1>4, <1>5, <1>6, <1>8, <1>9

\* EnsureManagedPipelineProcessingIsTracked.
LEMMA ManagedTrackedKind ==
  ASSUME ~StaleReads, FreshInv, EnsureManagedPipelineProcessingIsTracked
  PROVE  Ends("ManagedCompleted") /\ StatusStep
<1> DEFINE op == "ManagedCompleted"
           current == GetManagedPipelineRetryCount(mem)
<1>0. pc # "idle"
  BY DEF EnsureManagedPipelineProcessingIsTracked
<1>1. /\ mem \in Release /\ mem.conds = rel.conds
      /\ mem.attempts = rel.attempts /\ mem.refs = rel.refs
  BY <1>0, MemStatus
<1>2. CASE Pass(op) \/ CallFails
  BY <1>0, <1>2, KeepEnds DEF StatusStep
<1>3. ASSUME isPhaseProgressing(mem, "managed"), NEW x \in Listed("managed", current),
             registerManagedProcessingStatus(x, op)
      PROVE  Ends(op) /\ StatusStep
  <2>1. isPhaseProgressing(rel, "managed") /\ rel.attempts # << >> /\ rel.attempts \in Seq(Attempt)
    BY <1>0, <1>1, <1>3, MemStatus DEF isPhaseProgressing, FreshInv, StatusOK, Release
  <2>2. current = Len(rel.attempts) - 1 /\ Len(rel.attempts) > 0
    BY <1>1, <2>1 DEF GetManagedPipelineRetryCount
  <2>3. x \in runs /\ x.phase = "managed" /\ x.attempt = Len(rel.attempts) - 1
    BY <1>3, <2>2 DEF Listed
  <2> HIDE DEF current
  <2>4. CASE Pass(op)
    BY <1>0, <2>4, KeepEnds DEF StatusStep
  <2>5. CASE ~IsCurrentManagedPipelineAttemptDone(mem) /\ ~Pass(op)
    <3> DEFINE s == MarkCurrentManagedPipelineAttemptProcessed(mem)
               t(v) == MarkCurrentManagedPipelineAttemptFailed(mem, v)
    <3>1. /\ s \in Release /\ s.conds = Set(rel.conds, "managed", "succeeded")
          /\ s.attempts = [rel.attempts EXCEPT ![Len(rel.attempts)] = [Last EXCEPT !.status = "succeeded"]]
          /\ s.refs = rel.refs /\ Last.status = "progressing"
      BY <1>1, <1>3, <2>2, <2>5, AttemptStatus DEF Last
    <3>2. \A v \in BOOLEAN :
            /\ t(v) \in Release /\ t(v).conds = rel.conds /\ t(v).refs = rel.refs
            /\ t(v).attempts = [rel.attempts EXCEPT ![Len(rel.attempts)] =
                                  [Last EXCEPT !.status = "failed", !.retriable = v]]
      BY <1>1, <1>3, <2>2, <2>5, AttemptStatus DEF Last
    <3>3. \A v \in BOOLEAN : Writes(t(v)) => AttemptFailed
      <4> SUFFICES ASSUME NEW v \in BOOLEAN, Writes(t(v)) PROVE AttemptFailed
        OBVIOUS
      <4> HIDE DEF t
      <4>1. Status(rel.conds, [rel.attempts EXCEPT ![Len(rel.attempts)] =
                                 [Last EXCEPT !.status = "failed", !.retriable = v]], rel.refs)
        BY <3>2 DEF Writes
      <4>2. QED BY <2>1, <3>1, <4>1 DEF AttemptFailed
    <3>4. CASE x.state = "succeeded" /\ PatchStatus(s, op)
      <4> HIDE DEF s
      <4>1. Ends(op) /\ UNCHANGED objects /\ (UNCHANGED rel \/ Writes(s))
        BY <1>0, <3>1, <3>4, WriteEnds
      <4>2. Writes(s) => AttemptSucceeded
        BY <2>1, <2>3, <3>1, <3>4 DEF Writes, AttemptSucceeded
      <4>3. QED BY <4>1, <4>2 DEF StatusStep
    <3>5. ASSUME NEW v \in BOOLEAN, PatchStatus(t(v), op)
          PROVE  Ends(op) /\ StatusStep
      <4> HIDE DEF t
      <4>1. Ends(op) /\ UNCHANGED objects /\ (UNCHANGED rel \/ Writes(t(v)))
        BY <1>0, <3>2, <3>5, WriteEnds
      <4>2. QED BY <3>3, <4>1 DEF StatusStep
    <3>6. CASE /\ rel.present /\ UNCHANGED objects
               /\ WriteRelease(Patched(t(FALSE))) /\ ContinueWith(op, Patched(t(FALSE)))
      <4> HIDE DEF t
      <4>1. Ends(op) /\ Writes(t(FALSE))
        BY <1>0, <3>2, <3>6, WriteEnds
      <4>2. QED BY <3>3, <3>6, <4>1 DEF StatusStep
    <3>7. AttemptVerdicts(x) \subseteq BOOLEAN
      BY DEF AttemptVerdicts
    <3>8. \/ x.state = "succeeded" /\ PatchStatus(s, op)
          \/ \E v \in AttemptVerdicts(x) : PatchStatus(t(v), op)
          \/ /\ rel.present /\ UNCHANGED objects
             /\ WriteRelease(Patched(t(FALSE))) /\ ContinueWith(op, Patched(t(FALSE)))
      BY <1>3, <2>5 DEF registerManagedProcessingStatus
    <3> HIDE DEF s, t
    <3>9. QED BY <3>4, <3>5, <3>6, <3>7, <3>8
  <2>6. QED BY <1>3, <2>4, <2>5 DEF registerManagedProcessingStatus
<1>4. QED BY <1>2, <1>3 DEF EnsureManagedPipelineProcessingIsTracked

-----------------------------------------------------------------------------
(* The end of the managed pipeline, and of the Release. *)

\* A retry uses the RoleBinding of the attempt before it, while it exists.
LEMMA RetryBinding ==
  ASSUME FreshInv, pc # "idle", rel.attempts # << >>
  PROVE  LET n == AttemptBinding(<< >>)
         IN /\ n \in Nat
            /\ n = 0 \/ (n <= made /\ \E b \in bindings : b.id = n)
            /\ \A b \in bindings : b.id = n => b.phase = "managed"
<1>1. mem.attempts = rel.attempts /\ rel \in Release
  BY MemStatus
<1>2. rel.attempts \in Seq(Attempt) /\ Len(rel.attempts) \in 1 .. Len(rel.attempts)
  BY <1>1 DEF Release
<1> DEFINE ref == rel.attempts[Len(rel.attempts)].roleBinding
<1>3. BindingRef(mem, "managed", "tenant") = ref
  BY <1>1, <1>2 DEF BindingRef, GetCurrentManagedPipelineAttempt
<1>4. Refers(ref, "managed")
  BY <1>2 DEF FreshInv, BindingsOK
<1> HIDE DEF ref
<1>5. IsBound("managed", "tenant") <=> \E b \in bindings : b.id = ref
  BY <1>3 DEF IsBound
<1>6. AttemptBinding(<< >>) = IF IsBound("managed", "tenant") THEN ref ELSE 0
  BY <1>3 DEF AttemptBinding
<1>7. \A b \in bindings : b.id \in Nat /\ 1 <= b.id
  BY DEF FreshInv, BindingsOK, FinalizerInv, Inv, TypeOK, RoleBinding
<1>8. CASE IsBound("managed", "tenant")
  BY <1>4, <1>5, <1>6, <1>7, <1>8 DEF Refers
<1>9. CASE ~IsBound("managed", "tenant")
  BY <1>6, <1>7, <1>9
<1>10. QED BY <1>8, <1>9

\* retryManagedPipeline.
LEMMA RetryKind ==
  ASSUME ~StaleReads, FreshInv, pc \in AfterRunning, NEW op, isPhaseProgressing(mem, "managed"),
         canRetryManagedPipeline(mem), ~plan.retryDisabled, retryManagedPipeline(op)
  PROVE  Ends(op) /\ Retried
<1>0. pc # "idle" /\ rel.conds["released"] \in {"progressing", "failed"}
  BY ReleasedNow
<1>1. /\ mem \in Release /\ rel \in Release /\ mem.conds = rel.conds
      /\ mem.attempts = rel.attempts /\ mem.refs = rel.refs
  BY <1>0, MemStatus
<1>2. /\ isPhaseProgressing(rel, "managed") /\ ~hasPhaseFinished(mem, "managed")
      /\ rel.attempts # << >> /\ rel.attempts \in Seq(Attempt) /\ Len(rel.attempts) > 0
  BY <1>1 DEF isPhaseProgressing, hasPhaseFinished, FreshInv, StatusOK, Release
<1>3. Last.status = "failed" /\ Last.retriable
  BY <1>1 DEF canRetryManagedPipeline, IsCurrentManagedPipelineAttemptRetriable,
        IsCurrentManagedPipelineAttemptFailed, GetCurrentManagedPipelineAttempt, Last
<1>4. plan.maxRetries \in Nat
  BY PlansAssumption DEF FreshInv, FinalizerInv, Inv, TypeOK, Plan
<1>5. /\ GetManagedPipelineRetryCount(mem) + 1 = Len(rel.attempts)
      /\ Len(rel.attempts) <= plan.maxRetries
  BY <1>1, <1>2, <1>4 DEF canRetryManagedPipeline, GetManagedPipelineRetryCount
<1> DEFINE k == Len(rel.attempts)
           run == NewRun("managed", k, << >>)
           n == AttemptBinding(<< >>)
           registered == RegisterAttempt(mem, n)
           failed == FailPhase(mem, "managed")
<1>6. IsNew(run, "managed", k)
  <2>1. "managed" \in Phases /\ k \in Nat /\ << >> \in Seq(Slots)
    BY <1>2 DEF Phases
  <2>2. QED BY <2>1, NewRunKind
<1>7. /\ n \in Nat
      /\ n = 0 \/ (n <= made /\ \E b \in bindings : b.id = n)
      /\ \A b \in bindings : b.id = n => b.phase = "managed"
  BY <1>0, <1>2, RetryBinding
<1> HIDE DEF n
<1>8. /\ registered \in Release /\ registered.conds = rel.conds
      /\ registered.attempts = Append(rel.attempts, NewAttempt(n)) /\ registered.refs = rel.refs
  <2>1. Set(mem.conds, "managed", "progressing") = rel.conds
    BY <1>1, <1>2, SetSame DEF Release, isPhaseProgressing, ConditionTypes, Phases
  <2>2. QED BY <1>1, <1>2, <1>7, <2>1, RegisterAttemptStatus
<1>9. /\ failed \in Release /\ failed.conds = FailedConds("managed")
      /\ failed.attempts = rel.attempts /\ failed.refs = rel.refs
  BY <1>0, <1>1, <1>2, FailPhaseStatus DEF FailedConds, Phases
<1>10. PICK created \in {{}, {run}} :
        /\ created = {} \/ ~Has("managed", k)
        /\ runs' = runs \cup created
        /\ made' = IF created = {} THEN made ELSE made + 1
        /\ UNCHANGED bindings
        /\ \/ PatchSucceeds(registered, op) /\ (created = {} => Has("managed", k))
           \/ Requeue /\ UNCHANGED <<rel, cache>>
           \/ rel.present /\ WriteRelease(Patched(failed)) /\ ContinueWith(op, Patched(failed))
  <2>1. Listed("managed", k) = {} <=> ~Has("managed", k)
    BY AllListed
  <2>2. QED BY <1>5, <2>1 DEF retryManagedPipeline, RetryFails, n
<1> HIDE DEF registered, failed, run
<1>11. AddsRun("managed", k) \/ UNCHANGED runs
  BY <1>6, <1>10 DEF AddsRun
<1>12. made' \in Nat /\ made <= made'
  BY <1>10 DEF FreshInv, FinalizerInv, Inv, TypeOK
<1>13. CASE Requeue /\ UNCHANGED <<rel, cache>>
  <2>1. Ends(op)
    BY <1>0, <1>13, KeepEnds
  <2>2. Retried
    BY <1>0, <1>2, <1>3, <1>5, <1>10, <1>11, <1>12, <1>13 DEF Retried
  <2>3. QED BY <2>1, <2>2
<1>14. CASE rel.present /\ WriteRelease(Patched(failed)) /\ ContinueWith(op, Patched(failed))
  <2>1. Ends(op) /\ Writes(failed)
    BY <1>0, <1>9, <1>14, WriteEnds
  <2>2. Change(FailedConds("managed"))
    BY <1>9, <2>1 DEF Writes, Change
  <2>3. QED BY <1>0, <1>2, <1>3, <1>5, <1>10, <1>11, <1>12, <2>1, <2>2 DEF Retried
<1>15. CASE PatchSucceeds(registered, op) /\ (created = {} => Has("managed", k))
  <2>1. Ends(op) /\ Writes(registered)
    BY <1>0, <1>8, <1>15, WriteEnds
  <2>2. Status(rel.conds, Append(rel.attempts, NewAttempt(n)), rel.refs)
    BY <1>8, <2>1 DEF Writes
  <2>3. \E x \in runs' : x.phase = "managed" /\ x.attempt = k
    BY <1>6, <1>10, <1>15 DEF Has, IsNew
  <2>4. QED BY <1>0, <1>2, <1>3, <1>5, <1>7, <1>10, <1>11, <1>12, <2>1, <2>2, <2>3 DEF Retried
<1>16. QED BY <1>10, <1>13, <1>14, <1>15

\* EnsureManagedPipelineProcessingIsCompleted.
LEMMA ManagedCompletedKind ==
  ASSUME ~StaleReads, FreshInv, EnsureManagedPipelineProcessingIsCompleted
  PROVE  Ends("FinalProcessed") /\ (StatusStep \/ CreationStep)
<1> DEFINE op == "FinalProcessed"
           acts == isPhaseProgressing(mem, "managed") /\ IsCurrentManagedPipelineAttemptFailed(mem)
           new == MarkReleaseFailed(MarkPipelineProcessingFailed(mem, "managed"))
<1>0. pc \in AfterRunning /\ pc # "idle" /\ rel.conds["released"] \in {"progressing", "failed"}
  BY OperationNames, ReleasedNow DEF EnsureManagedPipelineProcessingIsCompleted
<1>1. /\ mem \in Release /\ mem.conds = rel.conds
      /\ mem.attempts = rel.attempts /\ mem.refs = rel.refs
  BY <1>0, MemStatus
<1>2. \/ Pass(op) \/ NotAvailable \/ CallFails
      \/ acts /\ canRetryManagedPipeline(mem) /\ ~plan.retryDisabled /\ retryManagedPipeline(op)
      \/ acts /\ PatchStatus(new, op)
  BY DEF EnsureManagedPipelineProcessingIsCompleted
<1>3. CASE Pass(op) \/ NotAvailable \/ CallFails
  BY <1>0, <1>3, KeepEnds DEF StatusStep
<1>4. CASE acts /\ canRetryManagedPipeline(mem) /\ ~plan.retryDisabled /\ retryManagedPipeline(op)
  BY <1>0, <1>4, RetryKind DEF CreationStep
<1>5. CASE acts /\ PatchStatus(new, op)
  <2>0. "managed" \in Phases
    BY DEF Phases
  <2>1. /\ new \in Release /\ new.conds = FailedConds("managed")
        /\ new.attempts = rel.attempts /\ new.refs = rel.refs
    BY <1>0, <1>1, <1>5, <2>0, FailStatus DEF FailedConds
  <2> HIDE DEF new
  <2>2. Ends(op) /\ UNCHANGED objects /\ (UNCHANGED rel \/ Writes(new))
    BY <1>0, <1>5, <2>1, WriteEnds
  <2>3. isPhaseProgressing(rel, "managed") /\ Last.status = "failed"
    BY <1>1, <1>5 DEF isPhaseProgressing, IsCurrentManagedPipelineAttemptFailed,
          GetCurrentManagedPipelineAttempt, Last
  <2>4. Writes(new) => Failed("managed")
    BY <1>0, <2>1, <2>3 DEF Writes, Change, Failed
  <2>5. QED BY <2>0, <2>2, <2>4 DEF StatusStep
<1>6. QED BY <1>2, <1>3, <1>4, <1>5

\* EnsureReleaseIsCompleted: only a validated Release is completed.
LEMMA CompletedKind ==
  ASSUME ~StaleReads, FreshInv, EnsureReleaseIsCompleted
  PROVE  Ends("idle") /\ UNCHANGED objects /\ (UNCHANGED rel \/ Completed) /\ pc' = "idle"
<1> DEFINE new == MarkReleased(mem)
<1>0. pc \in AfterRunning /\ pc \in AfterValid /\ pc # "idle"
  BY OperationNames DEF EnsureReleaseIsCompleted, AfterValid
<1>1. /\ mem \in Release /\ mem.conds = rel.conds
      /\ mem.attempts = rel.attempts /\ mem.refs = rel.refs
  BY <1>0, MemStatus
<1>2. \/ StopProcessing /\ UNCHANGED <<rel, cache>>
      \/ PatchFails
      \/ ~HasReleaseFinished(mem) /\ rel.present /\ WriteRelease(Patched(new)) /\ StopProcessing
  BY DEF EnsureReleaseIsCompleted
<1>3. UNCHANGED objects /\ pc' = "idle"
  BY <1>2 DEF EnsureReleaseIsCompleted, PatchFails, Requeue, StopProcessing
<1>4. CASE (StopProcessing /\ UNCHANGED <<rel, cache>>) \/ PatchFails
  BY <1>0, <1>3, <1>4, KeepEnds
<1>5. CASE ~HasReleaseFinished(mem) /\ rel.present /\ WriteRelease(Patched(new)) /\ StopProcessing
  <2>1. rel.conds["released"] = "progressing"
    BY <1>0, <1>1, <1>5, ReleasedNow DEF HasReleaseFinished, hasPhaseFinished
  <2>2. IsReleasing(mem) /\ IsReleasing(rel)
    BY <1>1, <2>1 DEF IsReleasing, isPhaseProgressing
  <2>3. rel.conds["validated"] = "succeeded"
    BY <1>0, <2>2 DEF FreshInv, PlaceOK
  <2>4. /\ new \in Release /\ new.conds = Set(rel.conds, "released", "succeeded")
        /\ new.attempts = rel.attempts /\ new.refs = rel.refs
    BY <1>1, <2>2, MarkReleaseStatus, MarkTypes DEF Phases
  <2> HIDE DEF new
  <2>5. Ends("idle") /\ Writes(new)
    BY <1>0, <1>5, <2>4, WriteEnds
  <2>6. Completed
    BY <2>1, <2>3, <2>4, <2>5 DEF Writes, Change, Completed
  <2>7. QED BY <1>3, <2>5, <2>6
<1>6. QED BY <1>2, <1>4, <1>5
=============================================================================
