------------------------------- MODULE Matching -------------------------------
(***************************************************************************)
(* The ReleasePlan and the ReleasePlanAdmission controller                 *)
(* (controllers/releaseplan, controllers/releaseplanadmission): each keeps *)
(* in the status of its resource which objects of the other kind it        *)
(* matches, and learns of changes through the events of both kinds.        *)
(*                                                                         *)
(* All ReleasePlans are in one tenant namespace, all ReleasePlanAdmissions *)
(* in one managed namespace.  A reconcile reads the informer caches in one *)
(* step and patches the status in another; reconciles of different objects *)
(* interleave, those of one object do not (work queue).                    *)
(***************************************************************************)
EXTENDS Naturals, FiniteSets

CONSTANTS
  ReleasePlans, Admissions,    \* the names of the objects
  Groups,                      \* applications and component groups
  None,                        \* no name
  PlanSpecs, AdmissionSpecs,   \* what people write into the objects
  Edits,                       \* what people do, a subset of EditKinds
  MaxEdits, MaxFaults,         \* how often, and how many calls fail
  StaleReads,                  \* may caches lag behind when they are read?
  CoarseClock,                 \* may two transitions have the same time (1 s)?
  Patient                      \* do people wait until the controllers are at rest?

VARIABLES
  plans,      \* the ReleasePlans in the API server
  plansSeen,  \* and in the informer cache
  admissions, admissionsSeen,
  config,     \* does the ReleaseServiceConfig make the pipeline retryable?
  planQueue, admissionQueue,   \* the two work queues
  planWork, admissionWork,     \* the running reconciles
  edits, faults,
  untouched   \* no edit, no failed read since the last start of the operator

vars == <<plans, plansSeen, admissions, admissionsSeen, config, planQueue,
          admissionQueue, planWork, admissionWork, edits, faults, untouched>>

EditKinds == {"createPlan", "editPlan", "deletePlan", "createAdmission",
              "editAdmission", "deleteAdmission", "config"}

Conditions == {"unset", "True", "False"}

\* label: the release-plan-admission label; auto: auto-release is "true";
\* tagged: a tag in spec.data disables retries.
PlanSpec == [group : Groups, target : BOOLEAN, label : Admissions \cup {None},
             auto : BOOLEAN, tagged : BOOLEAN]

\* open: block-releases is "false"; retryable: the pipeline is one of those
\* the configuration may make retryable.
AdmissionSpec == [groups : SUBSET Groups, origin : BOOLEAN, open : BOOLEAN,
                  retryable : BOOLEAN]

\* stamp: the last transition time of the Matched condition; two values are
\* enough to tell a version from the one before.
PlanStatus == [matched : Conditions, stamp : 0 .. 1,
               admission : Admissions \cup {None}, active : BOOLEAN]

MatchedPlan == [plan : ReleasePlans, active : BOOLEAN]

AdmissionStatus == [matched : Conditions, stamp : 0 .. 1,
                    plans : SUBSET MatchedPlan, retry : {"unset", "on", "off"}]

ASSUME ConstantsAssumption ==
  /\ PlanSpecs \subseteq PlanSpec /\ PlanSpecs # {}
  /\ AdmissionSpecs \subseteq AdmissionSpec /\ AdmissionSpecs # {}
  /\ IsFiniteSet(Admissions) /\ None \notin Admissions
  /\ Edits \subseteq EditKinds
  /\ MaxEdits \in Nat /\ MaxFaults \in Nat
  /\ StaleReads \in BOOLEAN /\ CoarseClock \in BOOLEAN /\ Patient \in BOOLEAN

NewPlan == [matched |-> "unset", stamp |-> 0, admission |-> None, active |-> FALSE]
NewAdmission == [matched |-> "unset", stamp |-> 0, plans |-> {}, retry |-> "unset"]

\* A name without an object.
Absent(spec, status) == [exists |-> FALSE, spec |-> spec, status |-> status]
AbsentPlan == Absent(CHOOSE s \in PlanSpecs : TRUE, NewPlan)
AbsentAdmission == Absent(CHOOSE s \in AdmissionSpecs : TRUE, NewAdmission)

Existing(objects) == {o \in DOMAIN objects : objects[o].exists}

\* A reconcile between two of its steps: the object it works on, and the status
\* it is about to write.
Idle(object) == [stage |-> "idle", object |-> object, new |-> object.status]

\* The operator has started and every object is in its queue.
Init ==
  /\ plans \in [ReleasePlans -> {AbsentPlan} \cup
                  {[exists |-> TRUE, spec |-> s, status |-> NewPlan] : s \in PlanSpecs}]
  /\ admissions \in [Admissions -> {AbsentAdmission} \cup
                       {[exists |-> TRUE, spec |-> s, status |-> NewAdmission] : s \in AdmissionSpecs}]
  /\ plansSeen = plans
  /\ admissionsSeen = admissions
  /\ config \in BOOLEAN
  /\ planQueue = Existing(plans)
  /\ admissionQueue = Existing(admissions)
  /\ planWork = [p \in ReleasePlans |-> Idle(AbsentPlan)]
  /\ admissionWork = [a \in Admissions |-> Idle(AbsentAdmission)]
  /\ edits = 0
  /\ faults = 0
  /\ untouched = TRUE

-----------------------------------------------------------------------------
(* The loader, over ReleasePlans P and ReleasePlanAdmissions A. *)

\* spec: the specification of a ReleasePlanAdmission.
MatchesReleasePlan(spec, plan) == plan.spec.group \in spec.groups

\* A designated ReleasePlanAdmission has to exist in the target namespace and to
\* have the right origin; its applications are not looked at.  Otherwise there
\* has to be exactly one that matches.
GetMatchingReleasePlanAdmission(P, A, p) ==
  LET label == P[p].spec.label
      candidates ==
        {a \in Existing(A) :
           /\ A[a].spec.origin
           /\ IF label = None THEN MatchesReleasePlan(A[a].spec, P[p]) ELSE a = label}
  IN IF P[p].spec.target /\ Cardinality(candidates) = 1
     THEN CHOOSE a \in candidates : TRUE
     ELSE None

\* The ReleasePlans labelled with a, and when there are none all of them; those
\* without a matching application or with another label are removed.
GetMatchingReleasePlans(P, spec, a) ==
  LET targeting == {p \in Existing(P) : spec.origin /\ P[p].spec.target}
      labelled == {p \in targeting : P[p].spec.label = a}
  IN {p \in IF labelled = {} THEN targeting ELSE labelled :
        MatchesReleasePlan(spec, P[p]) /\ P[p].spec.label \in {a, None}}

\* retry.DetermineRetryInfo
DetermineRetryInfo(P, spec, a) ==
  IF /\ config /\ spec.retryable
     /\ \A p \in GetMatchingReleasePlans(P, spec, a) : ~P[p].spec.tagged
  THEN "on" ELSE "off"

-----------------------------------------------------------------------------
(* The status functions. *)

\* ReleasePlan.MarkMatched and MarkUnmatched.  (Without a ReleasePlanAdmission
\* nothing is active.)
MarkMatched(status, A, a) ==
  IF a # None
  THEN [status EXCEPT !.matched = "True", !.admission = a, !.active = A[a].spec.open]
  ELSE IF status.matched = "False"
       THEN status
       ELSE [status EXCEPT !.matched = "False", !.admission = None, !.active = FALSE]

\* ReleasePlanAdmission.ClearMatchingInfo, then MarkMatched for every plan.
SetMatchingInfo(status, P, S) ==
  [status EXCEPT !.plans = {[plan |-> p, active |-> P[p].spec.auto] : p \in S},
                 !.matched = IF S = {} THEN "False" ELSE "True"]

-----------------------------------------------------------------------------
(* Events: what the two controllers enqueue when an object changes from    *)
(* old to new in the cache.                                                *)

hasConditionChanged(old, new) ==
  (old.matched = "unset") # (new.matched = "unset") \/ old.stamp # new.stamp

\* Mutant: the auto-release label is not looked at.
PlanMatchChanged_NoLabel(old, new) ==
  \/ old.spec.group # new.spec.group
  \/ old.spec.target # new.spec.target
  \/ hasConditionChanged(old.status, new.status)

\* MatchPredicate (update) for ReleasePlans.
PlanMatchChanged(old, new) ==
  \/ old.spec.group # new.spec.group
  \/ old.spec.auto # new.spec.auto
  \/ old.spec.target # new.spec.target
  \/ hasConditionChanged(old.status, new.status)

\* GenerationChangedPredicate: labels and status are not part of the generation.
PlanGenerationChanged(old, new) ==
  <<old.spec.group, old.spec.target, old.spec.tagged>>
    # <<new.spec.group, new.spec.target, new.spec.tagged>>

\* RetryInfoPredicate (update) for both kinds.  Mutant: hasDataChanged knows
\* ReleasePlanAdmissions only.
PlanRetryChanged_Never(old, new) == FALSE

PlanRetryChanged(old, new) == old.spec.tagged # new.spec.tagged

AdmissionRetryChanged(old, new) == old.spec.retryable # new.spec.retryable

\* Mutant: the block-releases label is not looked at.
AdmissionMatchChanged_NoLabel(old, new) ==
  \/ old.spec.groups # new.spec.groups
  \/ old.spec.origin # new.spec.origin
  \/ hasConditionChanged(old.status, new.status)

\* MatchPredicate (update) for ReleasePlanAdmissions.
AdmissionMatchChanged(old, new) ==
  \/ old.spec.groups # new.spec.groups
  \/ old.spec.open # new.spec.open
  \/ old.spec.origin # new.spec.origin
  \/ hasConditionChanged(old.status, new.status)

\* Mutant: the empty name of a ReleasePlan without a match is enqueued too
\* (enqueueRequest without its early return).
PlanNames_EmptyToo(plan) == {plan.status.admission}

\* The ReleasePlanAdmission, the ReleasePlans an object names in its status.
PlanNames(plan) == {plan.status.admission} \ {None}
AdmissionNames(admission) == {m.plan : m \in admission.status.plans}

\* Create and delete events pass every MatchPredicate; a created object names
\* nobody.
PlanEvent(p, old, new) ==
  IF old.exists /\ new.exists
  THEN /\ planQueue' = planQueue \cup
            IF PlanGenerationChanged(old, new) /\ PlanMatchChanged(old, new) THEN {p} ELSE {}
       /\ admissionQueue' = admissionQueue \cup
            IF PlanMatchChanged(old, new) \/ PlanRetryChanged(old, new)
            THEN PlanNames(old) \cup PlanNames(new) ELSE {}
  ELSE /\ planQueue' = planQueue \cup {p}
       /\ admissionQueue' = admissionQueue \cup PlanNames(old)

AdmissionEvent(a, old, new) ==
  IF old.exists /\ new.exists
  THEN /\ admissionQueue' = admissionQueue \cup
            IF AdmissionMatchChanged(old, new) \/ AdmissionRetryChanged(old, new)
            THEN {a} ELSE {}
       /\ planQueue' = planQueue \cup
            IF AdmissionMatchChanged(old, new)
            THEN AdmissionNames(old) \cup AdmissionNames(new) ELSE {}
  ELSE /\ admissionQueue' = admissionQueue \cup {a}
       /\ planQueue' = planQueue \cup AdmissionNames(old)

ObservePlan(p) ==
  /\ plansSeen[p] # plans[p]
  /\ plansSeen' = [plansSeen EXCEPT ![p] = plans[p]]
  /\ PlanEvent(p, plansSeen[p], plans[p])
  /\ UNCHANGED <<plans, admissions, admissionsSeen, config, planWork, admissionWork,
                 edits, faults, untouched>>

ObserveAdmission(a) ==
  /\ admissionsSeen[a] # admissions[a]
  /\ admissionsSeen' = [admissionsSeen EXCEPT ![a] = admissions[a]]
  /\ AdmissionEvent(a, admissionsSeen[a], admissions[a])
  /\ UNCHANGED <<plans, plansSeen, admissions, config, planWork, admissionWork,
                 edits, faults, untouched>>

Synced == plansSeen = plans /\ admissionsSeen = admissions

\* Caches are read, or anything else is done, only when they are up to date,
\* unless they may lag.
Ready == StaleReads \/ Synced

\* An object is written only when the cache has its last version: a lag of at
\* most one version, so that no event is lost.
WritePlan(p, object) ==
  /\ Ready /\ plansSeen[p] = plans[p]
  /\ plans' = [plans EXCEPT ![p] = object]
  /\ UNCHANGED <<plansSeen, admissions, admissionsSeen, config>>

WriteAdmission(a, object) ==
  /\ Ready /\ admissionsSeen[a] = admissions[a]
  /\ admissions' = [admissions EXCEPT ![a] = object]
  /\ UNCHANGED <<plans, plansSeen, admissionsSeen, config>>

Fault == faults < MaxFaults /\ faults' = faults + 1

\* The transition time of a condition whose status changes is set to now.
NewStamp(old) == IF CoarseClock THEN 0 .. 1 ELSE {1 - old}

-----------------------------------------------------------------------------
(* The ReleasePlan controller. *)

\* Mutant: that the ReleasePlanAdmission was blocked or unblocked is not noticed.
IsSameMatch_NameOnly(base, new) == base.admission = new.admission /\ base.matched # "unset"

\* No patch when the match is the same and the condition is present.
IsSameMatch(base, new) ==
  /\ base.admission = new.admission /\ base.active = new.active
  /\ base.matched # "unset"

\* Reconcile, and EnsureMatchingInformationIsSet up to its patch.  An error of
\* the loader, a failed read included, counts as no match; when the ReleasePlan
\* itself cannot be read the reconcile is retried.
ReconcilePlan(p) ==
  /\ Ready /\ p \in planQueue /\ planWork[p].stage = "idle"
  /\ LET base == plansSeen[p].status
         match(a) ==
           LET new == MarkMatched(base, admissionsSeen, a)
           IN planWork' = IF ~plansSeen[p].exists \/ IsSameMatch(base, new)
                          THEN planWork
                          ELSE [planWork EXCEPT ![p] = [stage |-> "patch", object |-> plansSeen[p], new |-> new]]
     IN \/ /\ planQueue' = planQueue \ {p}
           /\ \/ /\ match(GetMatchingReleasePlanAdmission(plansSeen, admissionsSeen, p))
                 /\ UNCHANGED <<faults, untouched>>
              \/ Fault /\ match(None) /\ untouched' = FALSE
        \/ Fault /\ UNCHANGED <<planQueue, planWork, untouched>>
  /\ UNCHANGED <<plans, plansSeen, admissions, admissionsSeen, config, admissionQueue,
                 admissionWork, edits>>

\* A merge patch: what has not changed between base and new is left alone.
PatchedPlan(status, base, new, stamp) ==
  [matched   |-> IF new.matched # base.matched THEN new.matched ELSE status.matched,
   stamp     |-> IF new.matched # base.matched THEN stamp ELSE status.stamp,
   admission |-> IF new.admission # base.admission THEN new.admission ELSE status.admission,
   active    |-> IF new.active # base.active THEN new.active ELSE status.active]

PatchPlan(p) ==
  /\ planWork[p].stage = "patch"
  /\ planWork' = [planWork EXCEPT ![p] = Idle(AbsentPlan)]
  /\ \/ /\ plans[p].exists
        /\ \E stamp \in NewStamp(plans[p].status.stamp) :
             WritePlan(p, [plans[p] EXCEPT
               !.status = PatchedPlan(@, planWork[p].object.status, planWork[p].new, stamp)])
        /\ UNCHANGED <<planQueue, faults>>
     \/ /\ Fault \/ (~plans[p].exists /\ UNCHANGED faults)
        /\ planQueue' = planQueue \cup {p}
        /\ UNCHANGED <<plans, plansSeen, admissions, admissionsSeen, config>>
  /\ UNCHANGED <<admissionQueue, admissionWork, edits, untouched>>

-----------------------------------------------------------------------------
(* The ReleasePlanAdmission controller. *)

admissionFrame == <<plans, plansSeen, admissionsSeen, config, planQueue, planWork, edits, untouched>>

\* Mutant: the status is patched by every reconcile.
IsSameList_Never(base, new) == FALSE

\* No patch when the list is the same and the condition is present.
IsSameList(base, new) == base.plans = new.plans /\ base.matched # "unset"

\* EnsureMatchingInformationIsSet up to its patch.
ReconcileAdmission(a) ==
  /\ Ready /\ a \in admissionQueue /\ admissionWork[a].stage = "idle"
  /\ LET object == admissionsSeen[a]
         base == object.status
         new == SetMatchingInfo(base, plansSeen, GetMatchingReleasePlans(plansSeen, object.spec, a))
         same == IsSameList(base, new)
     IN \/ /\ admissionQueue' = admissionQueue \ {a}
           /\ admissionWork' =
                IF ~object.exists
                THEN admissionWork
                ELSE [admissionWork EXCEPT ![a] =
                        [stage |-> IF same THEN "retry" ELSE "patch", object |-> object,
                         new |-> IF same THEN base ELSE new]]
           /\ UNCHANGED faults
        \/ Fault /\ UNCHANGED <<admissionQueue, admissionWork>>
  /\ UNCHANGED admissionFrame
  /\ UNCHANGED admissions

\* A merge patch, as above; relisted: of the list.  A list that is matched again
\* has been cleared in between, which makes its transition time new; the empty
\* list of a status that was never set is no list yet.
PatchedAdmission(status, base, new, relisted, stamp) ==
  LET transition == relisted /\ ~(base.matched = "False" /\ new.matched = "False")
  IN [matched |-> IF transition THEN new.matched ELSE status.matched,
      stamp   |-> IF transition THEN stamp ELSE status.stamp,
      plans   |-> IF new.plans # base.plans \/ base.matched = "unset" THEN new.plans ELSE status.plans,
      retry   |-> IF new.retry # base.retry THEN new.retry ELSE status.retry]

\* The two patches of the reconcile.
PatchAdmission(a) ==
  LET work == admissionWork[a]
  IN /\ work.stage \in {"patch", "patchRetry"}
     /\ \/ /\ admissions[a].exists
           /\ \E stamp \in NewStamp(admissions[a].status.stamp) :
                LET object == [admissions[a] EXCEPT
                                 !.status = PatchedAdmission(@, work.object.status, work.new,
                                                             work.stage = "patch", stamp)]
                IN /\ WriteAdmission(a, object)
                   /\ admissionWork' = [admissionWork EXCEPT ![a] =
                        IF work.stage = "patch"
                        THEN [stage |-> "retry", object |-> object, new |-> object.status]
                        ELSE Idle(AbsentAdmission)]
           /\ UNCHANGED <<admissionQueue, faults>>
        \/ /\ Fault \/ (~admissions[a].exists /\ UNCHANGED faults)
           /\ admissionWork' = [admissionWork EXCEPT ![a] = Idle(AbsentAdmission)]
           /\ admissionQueue' = admissionQueue \cup {a}
           /\ UNCHANGED admissions
     /\ UNCHANGED admissionFrame

\* EnsureRetryInformationIsSet up to its patch.
EnsureRetryInformationIsSet(a) ==
  LET object == admissionWork[a].object
      retry == DetermineRetryInfo(plansSeen, object.spec, a)
  IN /\ Ready /\ admissionWork[a].stage = "retry"
     /\ \/ /\ admissionWork' = [admissionWork EXCEPT ![a] =
                IF object.status.retry = retry
                THEN Idle(AbsentAdmission)
                ELSE [stage |-> "patchRetry", object |-> object,
                      new |-> [object.status EXCEPT !.retry = retry]]]
           /\ UNCHANGED <<admissionQueue, faults>>
        \/ /\ Fault
           /\ admissionWork' = [admissionWork EXCEPT ![a] = Idle(AbsentAdmission)]
           /\ admissionQueue' = admissionQueue \cup {a}
     /\ UNCHANGED admissionFrame
     /\ UNCHANGED admissions

-----------------------------------------------------------------------------
(* People, and the operator's own life. *)

\* Nothing is left to do.
AtRest ==
  /\ Synced
  /\ planQueue = {} /\ admissionQueue = {}
  /\ \A p \in ReleasePlans : planWork[p].stage = "idle"
  /\ \A a \in Admissions : admissionWork[a].stage = "idle"

Edit(kind) ==
  /\ kind \in Edits /\ edits < MaxEdits
  /\ Patient => AtRest
  /\ edits' = edits + 1
  /\ untouched' = FALSE
  /\ UNCHANGED <<planWork, admissionWork>>

ChangePlan(p) ==
  /\ \/ /\ Edit("createPlan") /\ ~plans[p].exists
        /\ \E s \in PlanSpecs : WritePlan(p, [exists |-> TRUE, spec |-> s, status |-> NewPlan])
     \/ /\ Edit("editPlan") /\ plans[p].exists
        /\ \E s \in PlanSpecs : WritePlan(p, [plans[p] EXCEPT !.spec = s])
     \/ /\ Edit("deletePlan") /\ plans[p].exists
        /\ WritePlan(p, AbsentPlan)
  /\ UNCHANGED <<planQueue, admissionQueue, faults>>

ChangeAdmission(a) ==
  /\ \/ /\ Edit("createAdmission") /\ ~admissions[a].exists
        /\ \E s \in AdmissionSpecs :
             WriteAdmission(a, [exists |-> TRUE, spec |-> s, status |-> NewAdmission])
     \/ /\ Edit("editAdmission") /\ admissions[a].exists
        /\ \E s \in AdmissionSpecs : WriteAdmission(a, [admissions[a] EXCEPT !.spec = s])
     \/ /\ Edit("deleteAdmission") /\ admissions[a].exists
        /\ WriteAdmission(a, AbsentAdmission)
  /\ UNCHANGED <<planQueue, admissionQueue, faults>>

\* enqueueAllRPAs, which drops the event when it cannot list them.
ChangeConfig ==
  /\ Edit("config") /\ Ready
  /\ config' = ~config
  /\ \/ /\ admissionQueue' = admissionQueue \cup Existing(admissionsSeen)
        /\ UNCHANGED faults
     \/ Fault /\ UNCHANGED admissionQueue
  /\ UNCHANGED <<plans, plansSeen, admissions, admissionsSeen, planQueue>>

\* Running reconciles are lost, caches are filled again, every object is an event.
Restart ==
  /\ Fault
  /\ plansSeen' = plans
  /\ admissionsSeen' = admissions
  /\ planQueue' = Existing(plans)
  /\ admissionQueue' = Existing(admissions)
  /\ planWork' = [p \in ReleasePlans |-> Idle(AbsentPlan)]
  /\ admissionWork' = [a \in Admissions |-> Idle(AbsentAdmission)]
  /\ untouched' = TRUE
  /\ UNCHANGED <<plans, admissions, config, edits>>

Controllers ==
  \/ \E p \in ReleasePlans : ObservePlan(p) \/ ReconcilePlan(p) \/ PatchPlan(p)
  \/ \E a \in Admissions :
       \/ ObserveAdmission(a)
       \/ ReconcileAdmission(a)
       \/ PatchAdmission(a)
       \/ EnsureRetryInformationIsSet(a)

Next ==
  \/ Controllers
  \/ \E p \in ReleasePlans : ChangePlan(p)
  \/ \E a \in Admissions : ChangeAdmission(a)
  \/ ChangeConfig
  \/ Restart

Spec == Init /\ [][Next]_vars

FairSpec == Spec /\ WF_vars(Controllers)

-----------------------------------------------------------------------------
(* Properties. *)

\* Every variable has its type.  The work queues hold names only: the handlers
\* never enqueue the empty name of a status without a match.
TypeOK ==
  LET Plan == [exists : BOOLEAN, spec : PlanSpecs, status : PlanStatus]
      Admission == [exists : BOOLEAN, spec : AdmissionSpecs, status : AdmissionStatus]
  IN /\ plans \in [ReleasePlans -> Plan] /\ plansSeen \in [ReleasePlans -> Plan]
     /\ admissions \in [Admissions -> Admission] /\ admissionsSeen \in [Admissions -> Admission]
     /\ config \in BOOLEAN /\ untouched \in BOOLEAN
     /\ planQueue \subseteq ReleasePlans /\ admissionQueue \subseteq Admissions
     /\ planWork \in [ReleasePlans -> [stage : {"idle", "patch"}, object : Plan, new : PlanStatus]]
     /\ admissionWork \in [Admissions -> [stage : {"idle", "patch", "retry", "patchRetry"},
                                          object : Admission, new : AdmissionStatus]]
     /\ edits \in 0 .. MaxEdits /\ faults \in 0 .. MaxFaults

\* What the status of p should say.
PlanIsRight(p) ==
  LET a == GetMatchingReleasePlanAdmission(plans, admissions, p)
      status == plans[p].status
  IN /\ status.admission = a
     /\ status.matched = IF a = None THEN "False" ELSE "True"
     /\ status.active = (a # None /\ admissions[a].spec.open)

AdmissionIsRight(a) ==
  LET S == GetMatchingReleasePlans(plans, admissions[a].spec, a)
      status == admissions[a].status
  IN /\ status.plans = {[plan |-> p, active |-> plans[p].spec.auto] : p \in S}
     /\ status.matched = IF S = {} THEN "False" ELSE "True"
     /\ status.retry = DetermineRetryInfo(plans, admissions[a].spec, a)

\* The two controllers answer each other's patches with reconciles, and the
\* ReleasePlanAdmission controller its own; when people leave the objects
\* alone, this ends: only the comparison before each patch stops it.
ComesToRest == <>[]AtRest

\* A start of the operator puts everything right that an event missed before:
\* when no object has been edited since, no read has failed and the controllers
\* are at rest, every status says what the loader finds.  (With caches that are
\* up to date when they are read: what a patch from an old copy has left in the
\* status of a ReleasePlan, UnmatchedNamesNobody, a start does not repair.)
RestartHeals ==
  AtRest /\ untouched =>
    /\ \A p \in Existing(plans) : PlanIsRight(p)
    /\ \A a \in Existing(admissions) : AdmissionIsRight(a)

\* At rest no ReleasePlan claims a match it does not have, or the wrong state of
\* its ReleasePlanAdmission: EnsureMatchingInformationIsSet "will ensure that
\* the ReleasePlan has updated matching information in its status".
NoFalseMatch ==
  AtRest => \A p \in Existing(plans) : plans[p].status.admission # None => PlanIsRight(p)

\* At rest the ReleasePlanAdmission of a ReleasePlan lists it, with its
\* auto-release label: the events of either side reach the other.
MatchIsMutual ==
  AtRest => \A p \in Existing(plans) :
    LET a == plans[p].status.admission
    IN a # None /\ admissions[a].exists =>
         [plan |-> p, active |-> plans[p].spec.auto] \in admissions[a].status.plans

\* At rest retries are not enabled for a ReleasePlanAdmission while a tag of a
\* ReleasePlan that is matched to it disables them.
TagsDisableRetries ==
  AtRest => \A p \in Existing(plans) :
    LET a == plans[p].status.admission
    IN plans[p].spec.tagged /\ a # None /\ admissions[a].exists
         => admissions[a].status.retry # "on"

\* MarkUnmatched "marks the ReleasePlan as not matched to any
\* ReleasePlanAdmission": an unmatched ReleasePlan names none.
UnmatchedNamesNobody ==
  AtRest => \A p \in Existing(plans) :
    plans[p].status.matched = "False" => plans[p].status.admission = None
=============================================================================
