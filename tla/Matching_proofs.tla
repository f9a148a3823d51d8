---------------------------- MODULE Matching_proofs ----------------------------
(***************************************************************************)
(* What the ReleasePlan and the ReleasePlanAdmission controller guarantee  *)
(* for any objects, any specifications and any number of edits and faults: *)
(* the type invariant; when caches do not lag, that a start of the         *)
(* operator puts every status right; and when people wait for the          *)
(* controllers, that matches are right and known to both sides at rest.    *)
(***************************************************************************)
EXTENDS Matching, FiniteSetTheorems, TLAPS

PlanObject == [exists : BOOLEAN, spec : PlanSpecs, status : PlanStatus]
AdmissionObject == [exists : BOOLEAN, spec : AdmissionSpecs, status : AdmissionStatus]
PlanWork == [stage : {"idle", "patch"}, object : PlanObject, new : PlanStatus]
AdmissionWork == [stage : {"idle", "patch", "retry", "patchRetry"},
                  object : AdmissionObject, new : AdmissionStatus]

\* TypeOK with the sets above.
Typed ==
  /\ plans \in [ReleasePlans -> PlanObject] /\ plansSeen \in [ReleasePlans -> PlanObject]
  /\ admissions \in [Admissions -> AdmissionObject]
  /\ admissionsSeen \in [Admissions -> AdmissionObject]
  /\ config \in BOOLEAN /\ untouched \in BOOLEAN
  /\ planQueue \subseteq ReleasePlans /\ admissionQueue \subseteq Admissions
  /\ planWork \in [ReleasePlans -> PlanWork]
  /\ admissionWork \in [Admissions -> AdmissionWork]
  /\ edits \in 0 .. MaxEdits /\ faults \in 0 .. MaxFaults

-----------------------------------------------------------------------------
(* The invariant. *)

\* The parts of a status agree: a condition that is set is False exactly when
\* nothing is named, and nothing is active without a match.
PlanCoherent(status) ==
  /\ status.matched # "unset" => (status.matched = "False" <=> status.admission = None)
  /\ status.admission = None => ~status.active

AdmissionCoherent(status) ==
  status.matched # "unset" => (status.matched = "False" <=> status.plans = {})

\* A patch of p is on its way; p has still the status it was computed from, if
\* it exists.
PlanPatchOK(p) ==
  planWork[p].stage = "patch" =>
    /\ PlanCoherent(planWork[p].object.status)
    /\ PlanCoherent(planWork[p].new) /\ planWork[p].new.matched # "unset"
    /\ plans[p].exists => plans[p].status = planWork[p].object.status
    /\ "deletePlan" \notin Edits => plans[p].exists

\* A patch of a is on its way.  There is one only when the list has to change,
\* and the retry information comes after the list.
AdmissionPatchOK(a) ==
  LET work == admissionWork[a]
  IN /\ work.stage = "patch" =>
          /\ AdmissionCoherent(work.object.status)
          /\ AdmissionCoherent(work.new) /\ work.new.matched # "unset"
          /\ ~IsSameList(work.object.status, work.new)
     /\ work.stage \in {"retry", "patchRetry"} => work.object.status.matched # "unset"
     /\ work.stage = "patchRetry" => work.new.plans = work.object.status.plans

Coherent ==
  /\ \A p \in ReleasePlans : PlanCoherent(plans[p].status) /\ PlanPatchOK(p)
  /\ \A a \in Admissions : AdmissionCoherent(admissions[a].status) /\ AdmissionPatchOK(a)

\* DetermineRetryInfo with the configuration c.
RetryOf(c, P, spec, a) ==
  IF /\ c /\ spec.retryable
     /\ \A p \in GetMatchingReleasePlans(P, spec, a) : ~P[p].spec.tagged
  THEN "on" ELSE "off"

\* The status says what the loader finds in P and A; of the status of a
\* ReleasePlanAdmission the part without the retry information.
SaysMatch(status, P, A, p) ==
  LET a == GetMatchingReleasePlanAdmission(P, A, p)
  IN /\ status.admission = a
     /\ status.matched = IF a = None THEN "False" ELSE "True"
     /\ status.active = (a # None /\ A[a].spec.open)

SaysList(status, P, spec, a) ==
  LET S == GetMatchingReleasePlans(P, spec, a)
  IN /\ status.plans = {[plan |-> p, active |-> P[p].spec.auto] : p \in S}
     /\ status.matched = IF S = {} THEN "False" ELSE "True"

\* A ReleasePlan is going to be reconciled, or patched to be right, or is right.
PlanHeals(p) ==
  \/ p \in planQueue
  \/ planWork[p].stage = "patch" /\ SaysMatch(planWork[p].new, plans, admissions, p)
  \/ planWork[p].stage = "idle" /\ SaysMatch(plans[p].status, plans, admissions, p)

\* The same for a ReleasePlanAdmission, in the steps of its reconcile.
AdmissionHeals(a) ==
  LET work == admissionWork[a]
  IN \/ a \in admissionQueue
     \/ /\ work.stage = "patch" /\ work.object = admissions[a]
        /\ SaysList(work.new, plans, admissions[a].spec, a)
     \/ /\ work.stage \in {"retry", "patchRetry"} /\ work.object = admissions[a]
        /\ SaysList(admissions[a].status, plans, admissions[a].spec, a)
        /\ work.stage = "patchRetry" =>
             /\ work.new.retry = RetryOf(config, plans, admissions[a].spec, a)
             /\ work.new.retry # work.object.status.retry
     \/ /\ work.stage = "idle"
        /\ SaysList(admissions[a].status, plans, admissions[a].spec, a)
        /\ admissions[a].status.retry = RetryOf(config, plans, admissions[a].spec, a)

\* Since the last start of the operator nothing has been missed.
Heals ==
  untouched =>
    /\ \A p \in ReleasePlans : plans[p].exists => PlanHeals(p)
    /\ \A a \in Admissions : admissions[a].exists => AdmissionHeals(a)

\* No ReleasePlan is deleted and created again under a running reconcile, whose
\* patch would then meet a status it was not computed from.
PlansAreNotReplaced ==
  Patient \/ "createPlan" \notin Edits \/ "deletePlan" \notin Edits

HealInv == Typed /\ Coherent /\ Heals

-----------------------------------------------------------------------------
(* The operators the actions are built from. *)

\* TypeOK and Typed are the same.
LEMMA Types ==
  (TypeOK <=> Typed) /\ (TypeOK' <=> Typed')
  BY DEF TypeOK, Typed, PlanObject, AdmissionObject, PlanWork, AdmissionWork

\* New and absent objects, and the work of nobody, have their types.
LEMMA AbsentTypes ==
  /\ NewPlan \in PlanStatus /\ NewAdmission \in AdmissionStatus
  /\ AbsentPlan \in PlanObject /\ AbsentAdmission \in AdmissionObject
  /\ Idle(AbsentPlan) \in PlanWork /\ Idle(AbsentAdmission) \in AdmissionWork
  <1>1. NewPlan \in PlanStatus /\ NewAdmission \in AdmissionStatus
    BY DEF NewPlan, NewAdmission, PlanStatus, AdmissionStatus, Conditions
  <1>2. (CHOOSE s \in PlanSpecs : TRUE) \in PlanSpecs
    BY ConstantsAssumption
  <1>3. (CHOOSE s \in AdmissionSpecs : TRUE) \in AdmissionSpecs
    BY ConstantsAssumption
  <1>4. AbsentPlan \in PlanObject /\ AbsentPlan.status = NewPlan
    BY <1>1, <1>2 DEF AbsentPlan, Absent, PlanObject
  <1>5. AbsentAdmission \in AdmissionObject /\ AbsentAdmission.status = NewAdmission
    BY <1>1, <1>3 DEF AbsentAdmission, Absent, AdmissionObject
  <1> QED
    BY <1>1, <1>4, <1>5 DEF Idle, PlanWork, AdmissionWork

\* An object that somebody creates.
LEMMA CreatedTypes ==
  /\ \A s \in PlanSpecs : [exists |-> TRUE, spec |-> s, status |-> NewPlan] \in PlanObject
  /\ \A s \in AdmissionSpecs :
       [exists |-> TRUE, spec |-> s, status |-> NewAdmission] \in AdmissionObject
  BY AbsentTypes DEF PlanObject, AdmissionObject

\* The loader finds a ReleasePlanAdmission that exists, or none.
LEMMA FoundAdmission ==
  ASSUME NEW P, NEW A, DOMAIN A = Admissions, NEW p
  PROVE  LET a == GetMatchingReleasePlanAdmission(P, A, p)
         IN a # None => a \in Admissions /\ A[a].exists
  <1> DEFINE candidates ==
        {a \in Existing(A) :
           /\ A[a].spec.origin
           /\ IF P[p].spec.label = None THEN MatchesReleasePlan(A[a].spec, P[p])
              ELSE a = P[p].spec.label}
  <1>1. CASE P[p].spec.target /\ Cardinality(candidates) = 1
    <2>3. GetMatchingReleasePlanAdmission(P, A, p) = CHOOSE a \in candidates : TRUE
      BY <1>1 DEF GetMatchingReleasePlanAdmission
    <2>4. \A a \in candidates : a \in Admissions /\ A[a].exists
      BY DEF Existing
    <2> HIDE DEF candidates
    <2>1. candidates # {}
      BY <1>1, FS_EmptySet
    <2>2. (CHOOSE a \in candidates : TRUE) \in candidates
      BY <2>1
    <2> QED
      BY <2>2, <2>3, <2>4
  <1>2. CASE ~(P[p].spec.target /\ Cardinality(candidates) = 1)
    BY <1>2 DEF GetMatchingReleasePlanAdmission
  <1> QED
    BY <1>1, <1>2

\* The parts of a status.
LEMMA StatusParts ==
  /\ \A s \in PlanStatus :
       /\ s.matched \in Conditions /\ s.stamp \in 0 .. 1
       /\ s.admission \in Admissions \cup {None} /\ s.active \in BOOLEAN
       /\ s = [matched |-> s.matched, stamp |-> s.stamp, admission |-> s.admission,
               active |-> s.active]
  /\ \A s \in AdmissionStatus :
       /\ s.matched \in Conditions /\ s.stamp \in 0 .. 1
       /\ s.plans \subseteq MatchedPlan /\ s.retry \in {"unset", "on", "off"}
       /\ s = [matched |-> s.matched, stamp |-> s.stamp, plans |-> s.plans, retry |-> s.retry]
  BY DEF PlanStatus, AdmissionStatus

\* The parts of an object and of a reconcile.
LEMMA ObjectParts ==
  /\ \A o \in PlanObject :
       o.exists \in BOOLEAN /\ o.spec \in PlanSpecs /\ o.status \in PlanStatus
  /\ \A o \in AdmissionObject :
       o.exists \in BOOLEAN /\ o.spec \in AdmissionSpecs /\ o.status \in AdmissionStatus
  /\ \A w \in PlanWork :
       w.stage \in {"idle", "patch"} /\ w.object \in PlanObject /\ w.new \in PlanStatus
  /\ \A w \in AdmissionWork :
       /\ w.stage \in {"idle", "patch", "retry", "patchRetry"}
       /\ w.object \in AdmissionObject /\ w.new \in AdmissionStatus
  BY DEF PlanObject, AdmissionObject, PlanWork, AdmissionWork

\* An object with another status, or another specification.
LEMMA ChangedObject ==
  /\ \A o \in PlanObject, st \in PlanStatus :
       LET n == [o EXCEPT !.status = st]
       IN n \in PlanObject /\ n.status = st /\ n.spec = o.spec /\ n.exists = o.exists
  /\ \A o \in PlanObject, sp \in PlanSpecs :
       LET n == [o EXCEPT !.spec = sp]
       IN n \in PlanObject /\ n.status = o.status /\ n.spec = sp /\ n.exists = o.exists
  /\ \A o \in AdmissionObject, st \in AdmissionStatus :
       LET n == [o EXCEPT !.status = st]
       IN n \in AdmissionObject /\ n.status = st /\ n.spec = o.spec /\ n.exists = o.exists
  /\ \A o \in AdmissionObject, sp \in AdmissionSpecs :
       LET n == [o EXCEPT !.spec = sp]
       IN n \in AdmissionObject /\ n.status = o.status /\ n.spec = sp /\ n.exists = o.exists
  BY DEF PlanObject, AdmissionObject

\* The specifications' flags that get into a status.
LEMMA SpecParts ==
  /\ \A s \in PlanSpecs : s.auto \in BOOLEAN
  /\ \A s \in AdmissionSpecs : s.open \in BOOLEAN
  BY ConstantsAssumption DEF PlanSpec, AdmissionSpec

\* ReleasePlan.MarkMatched and MarkUnmatched, field by field.
LEMMA MarkMatchedParts ==
  ASSUME NEW st \in PlanStatus, NEW A \in [Admissions -> AdmissionObject],
         NEW a, a # None => a \in Admissions
  PROVE  LET n == MarkMatched(st, A, a)
         IN /\ n \in PlanStatus
            /\ a # None => n.matched = "True" /\ n.admission = a /\ n.active = A[a].spec.open
            /\ a = None /\ st.matched = "False" => n = st
            /\ a = None /\ st.matched # "False" =>
                 n.matched = "False" /\ n.admission = None /\ n.active = FALSE
  <1>1. CASE a # None
    <2>1. A[a].spec.open \in BOOLEAN
      BY <1>1, SpecParts, ObjectParts
    <2>2. MarkMatched(st, A, a) =
            [matched |-> "True", stamp |-> st.stamp, admission |-> a, active |-> A[a].spec.open]
      BY <1>1 DEF MarkMatched, PlanStatus
    <2> QED
      BY <1>1, <2>1, <2>2, StatusParts DEF PlanStatus, Conditions
  <1>2. CASE a = None /\ st.matched = "False"
    BY <1>2 DEF MarkMatched
  <1>3. CASE a = None /\ st.matched # "False"
    <2>2. MarkMatched(st, A, a) =
            [matched |-> "False", stamp |-> st.stamp, admission |-> None, active |-> FALSE]
      BY <1>3 DEF MarkMatched, PlanStatus
    <2> QED
      BY <1>3, <2>2, StatusParts DEF PlanStatus, Conditions
  <1> QED
    BY <1>1, <1>2, <1>3

\* The ReleasePlans that match are ReleasePlans.
LEMMA FoundPlans ==
  ASSUME NEW P, DOMAIN P = ReleasePlans, NEW spec, NEW a
  PROVE  GetMatchingReleasePlans(P, spec, a) \subseteq ReleasePlans
  BY DEF GetMatchingReleasePlans, Existing

\* ClearMatchingInfo and MarkMatched of a ReleasePlanAdmission, field by field.
LEMMA SetMatchingInfoParts ==
  ASSUME NEW st \in AdmissionStatus, NEW P \in [ReleasePlans -> PlanObject],
         NEW S \in SUBSET ReleasePlans
  PROVE  LET n == SetMatchingInfo(st, P, S)
         IN /\ n \in AdmissionStatus
            /\ n.plans = {[plan |-> p, active |-> P[p].spec.auto] : p \in S}
            /\ n.matched = (IF S = {} THEN "False" ELSE "True")
            /\ n.retry = st.retry
  <1> DEFINE list == {[plan |-> p, active |-> P[p].spec.auto] : p \in S}
             cond == IF S = {} THEN "False" ELSE "True"
  <1>1. SetMatchingInfo(st, P, S) =
          [matched |-> cond, stamp |-> st.stamp, plans |-> list, retry |-> st.retry]
    <2>1. SetMatchingInfo(st, P, S) = [[st EXCEPT !.plans = list] EXCEPT !.matched = cond]
      BY Zenon DEF SetMatchingInfo
    <2> HIDE DEF list, cond
    <2>2. [st EXCEPT !.plans = list] =
            [matched |-> st.matched, stamp |-> st.stamp, plans |-> list, retry |-> st.retry]
      BY DEF AdmissionStatus
    <2> QED
      BY <2>1, <2>2
  <1>2. \A p \in S : [plan |-> p, active |-> P[p].spec.auto] \in MatchedPlan
    BY SpecParts, ObjectParts DEF MatchedPlan
  <1>3. list \in SUBSET MatchedPlan
    BY <1>2
  <1>4. cond \in Conditions
    BY DEF Conditions
  <1>5. st.stamp \in 0 .. 1 /\ st.retry \in {"unset", "on", "off"}
    BY StatusParts
  <1>6. SetMatchingInfo(st, P, S).plans = list /\ SetMatchingInfo(st, P, S).matched = cond
        /\ SetMatchingInfo(st, P, S).retry = st.retry
    BY <1>1
  <1>7. SetMatchingInfo(st, P, S) \in AdmissionStatus
    <2> HIDE DEF list, cond
    <2> QED
      BY <1>1, <1>3, <1>4, <1>5 DEF AdmissionStatus
  <1> QED
    BY <1>6, <1>7

\* The retry information is on or off.
LEMMA RetryInfoType ==
  \A P, spec, a : DetermineRetryInfo(P, spec, a) \in {"on", "off"}
  BY DEF DetermineRetryInfo

\* A transition time is one of the two.
LEMMA StampType ==
  ASSUME NEW old \in 0 .. 1
  PROVE  NewStamp(old) \subseteq 0 .. 1
  BY DEF NewStamp

\* What the merge patches leave has its type.
LEMMA PatchedTypes ==
  /\ \A st, base, new \in PlanStatus : \A stamp \in 0 .. 1 :
       PatchedPlan(st, base, new, stamp) \in PlanStatus
  /\ \A st, base, new \in AdmissionStatus : \A stamp \in 0 .. 1 : \A relisted \in BOOLEAN :
       PatchedAdmission(st, base, new, relisted, stamp) \in AdmissionStatus
  <1>1. \A st, base, new \in PlanStatus : \A stamp \in 0 .. 1 :
          PatchedPlan(st, base, new, stamp) \in PlanStatus
    BY StatusParts DEF PatchedPlan, PlanStatus
  <1>2. \A st, base, new \in AdmissionStatus : \A stamp \in 0 .. 1 : \A relisted \in BOOLEAN :
          PatchedAdmission(st, base, new, relisted, stamp) \in AdmissionStatus
    BY StatusParts DEF PatchedAdmission, AdmissionStatus
  <1> QED
    BY <1>1, <1>2

-----------------------------------------------------------------------------
(* Type correctness. *)

\* The initial states.
LEMMA TypeInit == Init => Typed
  <1> SUFFICES ASSUME Init PROVE Typed
    OBVIOUS
  <1>1. plans \in [ReleasePlans -> PlanObject]
    <2> DEFINE S == {AbsentPlan} \cup
                      {[exists |-> TRUE, spec |-> s, status |-> NewPlan] : s \in PlanSpecs}
    <2>1. S \subseteq PlanObject
      BY AbsentTypes, CreatedTypes
    <2>2. plans \in [ReleasePlans -> S]
      BY DEF Init
    <2> HIDE DEF S
    <2> QED
      BY <2>1, <2>2
  <1>2. admissions \in [Admissions -> AdmissionObject]
    <2> DEFINE S == {AbsentAdmission} \cup
                      {[exists |-> TRUE, spec |-> s, status |-> NewAdmission] : s \in AdmissionSpecs}
    <2>1. S \subseteq AdmissionObject
      BY AbsentTypes, CreatedTypes
    <2>2. admissions \in [Admissions -> S]
      BY DEF Init
    <2> HIDE DEF S
    <2> QED
      BY <2>1, <2>2
  <1>3. /\ plansSeen = plans /\ admissionsSeen = admissions
        /\ config \in BOOLEAN /\ untouched = TRUE /\ edits = 0 /\ faults = 0
        /\ planQueue = Existing(plans) /\ admissionQueue = Existing(admissions)
        /\ planWork = [p \in ReleasePlans |-> Idle(AbsentPlan)]
        /\ admissionWork = [a \in Admissions |-> Idle(AbsentAdmission)]
    BY DEF Init
  <1>4. Existing(plans) \subseteq ReleasePlans /\ Existing(admissions) \subseteq Admissions
    BY <1>1, <1>2 DEF Existing
  <1>5. 0 \in 0 .. MaxEdits /\ 0 \in 0 .. MaxFaults
    BY ConstantsAssumption
  <1> QED
    BY <1>1, <1>2, <1>3, <1>4, <1>5, AbsentTypes DEF Typed

\* A fault is counted up to the bound.
LEMMA FaultType ==
  ASSUME Typed, Fault
  PROVE  faults' \in 0 .. MaxFaults
  BY ConstantsAssumption DEF Typed, Fault

\* The informers only add names of objects to the queues.
LEMMA TypeObserve ==
  ASSUME Typed,
         \/ \E p \in ReleasePlans : ObservePlan(p)
         \/ \E a \in Admissions : ObserveAdmission(a)
  PROVE  Typed'
  <1>1. ASSUME NEW p \in ReleasePlans, ObservePlan(p)
        PROVE  Typed'
    <2>1. \A o \in PlanObject : PlanNames(o) \subseteq Admissions
      BY ObjectParts, StatusParts DEF PlanNames
    <2>2. plansSeen[p] \in PlanObject /\ plans[p] \in PlanObject
      BY DEF Typed
    <2>3. plansSeen' = [plansSeen EXCEPT ![p] = plans[p]]
      BY <1>1 DEF ObservePlan
    <2>4. planQueue' \subseteq ReleasePlans /\ admissionQueue' \subseteq Admissions
      BY <1>1, <2>1, <2>2 DEF ObservePlan, PlanEvent, Typed
    <2>5. plansSeen' \in [ReleasePlans -> PlanObject]
      BY <2>2, <2>3 DEF Typed
    <2> QED
      BY <1>1, <2>4, <2>5 DEF ObservePlan, Typed
  <1>2. ASSUME NEW a \in Admissions, ObserveAdmission(a)
        PROVE  Typed'
    <2>1. \A o \in AdmissionObject : AdmissionNames(o) \subseteq ReleasePlans
      <3> SUFFICES ASSUME NEW o \in AdmissionObject, NEW m \in o.status.plans
                   PROVE  m.plan \in ReleasePlans
        BY DEF AdmissionNames
      <3>1. m \in MatchedPlan
        BY ObjectParts, StatusParts
      <3> QED
        BY <3>1 DEF MatchedPlan
    <2>2. admissionsSeen[a] \in AdmissionObject /\ admissions[a] \in AdmissionObject
      BY DEF Typed
    <2>3. admissionsSeen' = [admissionsSeen EXCEPT ![a] = admissions[a]]
      BY <1>2 DEF ObserveAdmission
    <2>4. planQueue' \subseteq ReleasePlans /\ admissionQueue' \subseteq Admissions
      BY <1>2, <2>1, <2>2 DEF ObserveAdmission, AdmissionEvent, Typed
    <2>5. admissionsSeen' \in [Admissions -> AdmissionObject]
      BY <2>2, <2>3 DEF Typed
    <2> QED
      BY <1>2, <2>4, <2>5 DEF ObserveAdmission, Typed
  <1> QED
    BY <1>1, <1>2

\* What a reconcile of a ReleasePlan computes, and what it does.
PlanResult(p, a) == MarkMatched(plansSeen[p].status, admissionsSeen, a)

\* The branches of ReconcilePlan: the read may fail, and then nothing matches.
LEMMA ReconcilePlanCases ==
  ASSUME Typed, NEW p \in ReleasePlans, ReconcilePlan(p)
  PROVE  /\ Ready /\ p \in planQueue /\ planWork[p].stage = "idle"
         /\ UNCHANGED <<plans, plansSeen, admissions, admissionsSeen, config, admissionQueue,
                        admissionWork, edits>>
         /\ \/ Fault /\ UNCHANGED <<planQueue, planWork, untouched>>
            \/ /\ planQueue' = planQueue \ {p}
               /\ \E a : /\ \/ /\ a = GetMatchingReleasePlanAdmission(plansSeen, admissionsSeen, p)
                               /\ UNCHANGED <<faults, untouched>>
                            \/ a = None /\ Fault /\ untouched' = FALSE
                         /\ planWork' =
                              IF ~plansSeen[p].exists \/ IsSameMatch(plansSeen[p].status, PlanResult(p, a))
                              THEN planWork
                              ELSE [planWork EXCEPT ![p] =
                                      [stage |-> "patch", object |-> plansSeen[p],
                                       new |-> PlanResult(p, a)]]
  BY Zenon DEF ReconcilePlan, PlanResult

\* A match that the loader finds in the caches has its type.
LEMMA PlanResultType ==
  ASSUME Typed, NEW p \in ReleasePlans, NEW a,
         a = GetMatchingReleasePlanAdmission(plansSeen, admissionsSeen, p) \/ a = None
  PROVE  PlanResult(p, a) \in PlanStatus
  <1>1. a # None => a \in Admissions
    BY FoundAdmission DEF Typed
  <1>2. plansSeen[p].status \in PlanStatus
    BY ObjectParts DEF Typed
  <1> QED
    BY <1>1, <1>2, MarkMatchedParts DEF Typed, PlanResult

\* A reconcile of a ReleasePlan.
LEMMA TypeReconcilePlan ==
  ASSUME Typed, NEW p \in ReleasePlans, ReconcilePlan(p)
  PROVE  Typed'
  <1> USE ReconcilePlanCases
  <1>1. CASE Fault /\ UNCHANGED <<planQueue, planWork, untouched>>
    BY <1>1, FaultType DEF Typed
  <1>2. ASSUME planQueue' = planQueue \ {p}, NEW a,
               \/ /\ a = GetMatchingReleasePlanAdmission(plansSeen, admissionsSeen, p)
                  /\ UNCHANGED <<faults, untouched>>
               \/ a = None /\ Fault /\ untouched' = FALSE,
               planWork' =
                 IF ~plansSeen[p].exists \/ IsSameMatch(plansSeen[p].status, PlanResult(p, a))
                 THEN planWork
                 ELSE [planWork EXCEPT ![p] =
                         [stage |-> "patch", object |-> plansSeen[p], new |-> PlanResult(p, a)]]
        PROVE  Typed'
    <2>1. PlanResult(p, a) \in PlanStatus
      BY <1>2, PlanResultType
    <2>2. [stage |-> "patch", object |-> plansSeen[p], new |-> PlanResult(p, a)] \in PlanWork
      BY <2>1 DEF PlanWork, Typed
    <2>3. planWork' \in [ReleasePlans -> PlanWork]
      BY <1>2, <2>2 DEF Typed
    <2>4. faults' \in 0 .. MaxFaults /\ untouched' \in BOOLEAN
      BY <1>2, FaultType DEF Typed
    <2> QED
      BY <1>2, <2>3, <2>4 DEF Typed
  <1> QED
    BY <1>1, <1>2

\* The branches of PatchPlan, with the object that is written.
LEMMA PatchPlanCases ==
  ASSUME Typed, NEW p \in ReleasePlans, PatchPlan(p)
  PROVE  /\ planWork[p].stage = "patch"
         /\ planWork' = [planWork EXCEPT ![p] = Idle(AbsentPlan)]
         /\ UNCHANGED <<plansSeen, admissions, admissionsSeen, config,
                        admissionQueue, admissionWork, edits, untouched>>
         /\ \/ /\ plans[p].exists /\ Ready
               /\ \E stamp \in NewStamp(plans[p].status.stamp) :
                    LET st == PatchedPlan(plans[p].status, planWork[p].object.status,
                                          planWork[p].new, stamp)
                    IN /\ st \in PlanStatus
                       /\ plans' = [plans EXCEPT ![p] = [plans[p] EXCEPT !.status = st]]
               /\ UNCHANGED <<planQueue, faults>>
            \/ /\ faults' \in 0 .. MaxFaults
               /\ planQueue' = planQueue \cup {p}
               /\ plans' = plans
  <1>1. /\ planWork[p].stage = "patch"
        /\ planWork' = [planWork EXCEPT ![p] = Idle(AbsentPlan)]
        /\ UNCHANGED <<plansSeen, admissions, admissionsSeen, config,
                       admissionQueue, admissionWork, edits, untouched>>
    BY DEF PatchPlan, WritePlan
  <1>2. plans[p].status \in PlanStatus /\ planWork[p].object.status \in PlanStatus
        /\ planWork[p].new \in PlanStatus
    BY ObjectParts DEF Typed
  <1>3. NewStamp(plans[p].status.stamp) \subseteq 0 .. 1
    BY <1>2, StatusParts, StampType
  <1>4. CASE plans[p].exists
             /\ (\E stamp \in NewStamp(plans[p].status.stamp) :
                   WritePlan(p, [plans[p] EXCEPT
                     !.status = PatchedPlan(@, planWork[p].object.status, planWork[p].new, stamp)]))
             /\ UNCHANGED <<planQueue, faults>>
    <2>1. PICK stamp \in NewStamp(plans[p].status.stamp) :
            WritePlan(p, [plans[p] EXCEPT
              !.status = PatchedPlan(plans[p].status, planWork[p].object.status, planWork[p].new, stamp)])
      BY <1>4
    <2> DEFINE st == PatchedPlan(plans[p].status, planWork[p].object.status,
                                 planWork[p].new, stamp)
    <2>2. st \in PlanStatus
      BY <1>2, <1>3, PatchedTypes
    <2>3. Ready /\ plans' = [plans EXCEPT ![p] = [plans[p] EXCEPT !.status = st]]
      BY <2>1 DEF WritePlan
    <2> HIDE DEF st
    <2>4. \E stamp1 \in NewStamp(plans[p].status.stamp) :
            /\ PatchedPlan(plans[p].status, planWork[p].object.status, planWork[p].new, stamp1)
                 \in PlanStatus
            /\ plans' = [plans EXCEPT ![p] = [plans[p] EXCEPT !.status =
                 PatchedPlan(plans[p].status, planWork[p].object.status, planWork[p].new, stamp1)]]
      BY <1>3, <2>2, <2>3 DEF st
    <2> QED
      BY <1>1, <1>4, <2>3, <2>4
  <1>5. CASE /\ Fault \/ (~plans[p].exists /\ UNCHANGED faults)
             /\ planQueue' = planQueue \cup {p}
             /\ UNCHANGED <<plans, plansSeen, admissions, admissionsSeen, config>>
    BY <1>1, <1>5, FaultType DEF Typed
  <1> QED
    BY <1>4, <1>5 DEF PatchPlan

\* The patch of a ReleasePlan.
LEMMA TypePatchPlan ==
  ASSUME Typed, NEW p \in ReleasePlans, PatchPlan(p)
  PROVE  Typed'
  <1> USE PatchPlanCases
  <1>1. planWork' \in [ReleasePlans -> PlanWork]
    BY AbsentTypes DEF Typed
  <1>2. ASSUME NEW st \in PlanStatus, plans' = [plans EXCEPT ![p] = [plans[p] EXCEPT !.status = st]]
        PROVE  plans' \in [ReleasePlans -> PlanObject]
    BY <1>2, ChangedObject DEF Typed
  <1>3. plans' \in [ReleasePlans -> PlanObject]
    BY <1>2 DEF Typed
  <1> QED
    BY <1>1, <1>3 DEF Typed

\* The lists of matches that a reconcile of a ReleasePlanAdmission computes.
AdmissionResult(a) ==
  SetMatchingInfo(admissionsSeen[a].status, plansSeen,
                  GetMatchingReleasePlans(plansSeen, admissionsSeen[a].spec, a))

\* The list has its type.
LEMMA AdmissionResultType ==
  ASSUME Typed, NEW a \in Admissions
  PROVE  AdmissionResult(a) \in AdmissionStatus
  <1>1. admissionsSeen[a].status \in AdmissionStatus
    BY ObjectParts DEF Typed
  <1>2. GetMatchingReleasePlans(plansSeen, admissionsSeen[a].spec, a) \in SUBSET ReleasePlans
    BY FoundPlans DEF Typed
  <1> QED
    BY <1>1, <1>2, SetMatchingInfoParts DEF Typed, AdmissionResult

\* The branches of ReconcileAdmission.
LEMMA ReconcileAdmissionCases ==
  ASSUME Typed, NEW a \in Admissions, ReconcileAdmission(a)
  PROVE  /\ Ready /\ a \in admissionQueue /\ admissionWork[a].stage = "idle"
         /\ UNCHANGED <<plans, plansSeen, admissions, admissionsSeen, config, planQueue, planWork,
                        edits, untouched>>
         /\ \/ Fault /\ UNCHANGED <<admissionQueue, admissionWork>>
            \/ /\ admissionQueue' = admissionQueue \ {a}
               /\ UNCHANGED faults
               /\ LET base == admissionsSeen[a].status
                      same == IsSameList(base, AdmissionResult(a))
                  IN admissionWork' =
                       IF ~admissionsSeen[a].exists
                       THEN admissionWork
                       ELSE [admissionWork EXCEPT ![a] =
                               [stage |-> IF same THEN "retry" ELSE "patch",
                                object |-> admissionsSeen[a],
                                new |-> IF same THEN base ELSE AdmissionResult(a)]]
  BY Zenon DEF ReconcileAdmission, AdmissionResult, admissionFrame

\* A reconcile of a ReleasePlanAdmission up to the first patch.
LEMMA TypeReconcileAdmission ==
  ASSUME Typed, NEW a \in Admissions, ReconcileAdmission(a)
  PROVE  Typed'
  <1> DEFINE base == admissionsSeen[a].status
             same == IsSameList(base, AdmissionResult(a))
             work == [stage |-> IF same THEN "retry" ELSE "patch",
                      object |-> admissionsSeen[a],
                      new |-> IF same THEN base ELSE AdmissionResult(a)]
  <1>1. work \in AdmissionWork
    BY AdmissionResultType, ObjectParts DEF Typed, AdmissionWork
  <1>2. admissionWork' \in {admissionWork, [admissionWork EXCEPT ![a] = work]}
    BY ReconcileAdmissionCases
  <1>3. admissionWork' \in [Admissions -> AdmissionWork]
    <2> HIDE DEF work
    <2> QED BY <1>1, <1>2 DEF Typed
  <1>4. faults' \in 0 .. MaxFaults /\ admissionQueue' \subseteq Admissions
    BY ReconcileAdmissionCases, FaultType DEF Typed
  <1> QED
    BY <1>3, <1>4, ReconcileAdmissionCases DEF Typed

\* The status that PatchAdmission writes.
WrittenStatus(a, stamp) ==
  PatchedAdmission(admissions[a].status, admissionWork[a].object.status, admissionWork[a].new,
                   admissionWork[a].stage = "patch", stamp)

\* The branches of PatchAdmission, with the object that is written.
LEMMA PatchAdmissionCases ==
  ASSUME Typed, NEW a \in Admissions, PatchAdmission(a)
  PROVE  LET work == admissionWork[a]
         IN /\ work.stage \in {"patch", "patchRetry"}
            /\ UNCHANGED <<plans, plansSeen, admissionsSeen, config, planQueue, planWork,
                           edits, untouched>>
            /\ \/ /\ admissions[a].exists /\ Ready
                  /\ \E stamp \in NewStamp(admissions[a].status.stamp) :
                       LET st == WrittenStatus(a, stamp)
                           object == [admissions[a] EXCEPT !.status = st]
                       IN /\ st \in AdmissionStatus
                          /\ admissions' = [admissions EXCEPT ![a] = object]
                          /\ admissionWork' = [admissionWork EXCEPT ![a] =
                               IF work.stage = "patch"
                               THEN [stage |-> "retry", object |-> object, new |-> object.status]
                               ELSE Idle(AbsentAdmission)]
                  /\ UNCHANGED <<admissionQueue, faults>>
               \/ /\ faults' \in 0 .. MaxFaults
                  /\ admissionWork' = [admissionWork EXCEPT ![a] = Idle(AbsentAdmission)]
                  /\ admissionQueue' = admissionQueue \cup {a}
                  /\ admissions' = admissions
  <1> DEFINE work == admissionWork[a]
             status(stamp) == WrittenStatus(a, stamp)
             object(stamp) == [admissions[a] EXCEPT !.status = status(stamp)]
             next(stamp) == IF work.stage = "patch"
                            THEN [stage |-> "retry", object |-> object(stamp),
                                  new |-> object(stamp).status]
                            ELSE Idle(AbsentAdmission)
  <1>1. /\ work.stage \in {"patch", "patchRetry"}
        /\ UNCHANGED <<plans, plansSeen, admissionsSeen, config, planQueue, planWork,
                       edits, untouched>>
    BY DEF PatchAdmission, admissionFrame
  <1>2. admissions[a].status \in AdmissionStatus /\ work.object.status \in AdmissionStatus
        /\ work.new \in AdmissionStatus
    BY ObjectParts DEF Typed
  <1>3. NewStamp(admissions[a].status.stamp) \subseteq 0 .. 1
    BY <1>2, StatusParts, StampType
  <1>4. \/ /\ admissions[a].exists
           /\ \E stamp \in NewStamp(admissions[a].status.stamp) :
                /\ WriteAdmission(a, object(stamp))
                /\ admissionWork' = [admissionWork EXCEPT ![a] = next(stamp)]
           /\ UNCHANGED <<admissionQueue, faults>>
        \/ /\ Fault \/ (~admissions[a].exists /\ UNCHANGED faults)
           /\ admissionWork' = [admissionWork EXCEPT ![a] = Idle(AbsentAdmission)]
           /\ admissionQueue' = admissionQueue \cup {a}
           /\ UNCHANGED admissions
    BY DEF PatchAdmission, WrittenStatus
  <1>5. \A stamp \in NewStamp(admissions[a].status.stamp) :
          stamp \in 0 .. 1 /\ status(stamp) \in AdmissionStatus
    BY <1>2, <1>3, PatchedTypes DEF WrittenStatus
  <1>6. \A stamp : WriteAdmission(a, object(stamp)) =>
          Ready /\ admissions' = [admissions EXCEPT ![a] = object(stamp)]
    BY DEF WriteAdmission
  <1>7. \/ /\ admissions[a].exists /\ Ready
           /\ \E stamp \in NewStamp(admissions[a].status.stamp) :
                /\ status(stamp) \in AdmissionStatus
                /\ admissions' = [admissions EXCEPT ![a] = object(stamp)]
                /\ admissionWork' = [admissionWork EXCEPT ![a] = next(stamp)]
           /\ UNCHANGED <<admissionQueue, faults>>
        \/ /\ faults' \in 0 .. MaxFaults
           /\ admissionWork' = [admissionWork EXCEPT ![a] = Idle(AbsentAdmission)]
           /\ admissionQueue' = admissionQueue \cup {a}
           /\ admissions' = admissions
    <2> HIDE DEF status, object, next
    <2>1. Fault \/ UNCHANGED faults => faults' \in 0 .. MaxFaults
      BY FaultType DEF Typed
    <2> QED
      BY <1>4, <1>5, <1>6, <2>1
  <1> QED
    BY <1>1, <1>7, Zenon

\* The patches of a ReleasePlanAdmission.
LEMMA TypePatchAdmission ==
  ASSUME Typed, NEW a \in Admissions, PatchAdmission(a)
  PROVE  Typed'
  <1> USE PatchAdmissionCases
  <1>1. ASSUME NEW st \in AdmissionStatus, NEW w \in {"patch", "patchRetry"},
               admissions' = [admissions EXCEPT ![a] = [admissions[a] EXCEPT !.status = st]],
               admissionWork' = [admissionWork EXCEPT ![a] =
                 IF w = "patch"
                 THEN [stage |-> "retry", object |-> [admissions[a] EXCEPT !.status = st],
                       new |-> [admissions[a] EXCEPT !.status = st].status]
                 ELSE Idle(AbsentAdmission)]
        PROVE  /\ admissions' \in [Admissions -> AdmissionObject]
               /\ admissionWork' \in [Admissions -> AdmissionWork]
    <2> DEFINE object == [admissions[a] EXCEPT !.status = st]
               next == [stage |-> "retry", object |-> object, new |-> object.status]
    <2>1. object \in AdmissionObject /\ object.status = st
      BY ChangedObject DEF Typed
    <2>2. next \in AdmissionWork
      <3> HIDE DEF object
      <3> QED BY <2>1 DEF AdmissionWork
    <2>3. admissions' = [admissions EXCEPT ![a] = object]
          /\ admissionWork' = [admissionWork EXCEPT ![a] =
                                 IF w = "patch" THEN next ELSE Idle(AbsentAdmission)]
      BY <1>1
    <2> HIDE DEF object, next
    <2> QED
      BY <2>1, <2>2, <2>3, AbsentTypes DEF Typed
  <1>2. CASE faults' \in 0 .. MaxFaults
             /\ admissionWork' = [admissionWork EXCEPT ![a] = Idle(AbsentAdmission)]
             /\ admissionQueue' = admissionQueue \cup {a}
             /\ admissions' = admissions
    BY <1>2, AbsentTypes DEF Typed
  <1>3. admissions' \in [Admissions -> AdmissionObject]
        /\ admissionWork' \in [Admissions -> AdmissionWork]
    BY <1>1, <1>2 DEF Typed
  <1>4. faults' \in 0 .. MaxFaults /\ admissionQueue' \subseteq Admissions
    BY DEF Typed
  <1> QED
    BY <1>3, <1>4 DEF Typed

\* The retry information that a reconcile of a computes.
RetryResult(a) == DetermineRetryInfo(plansSeen, admissionWork[a].object.spec, a)

\* The branches of EnsureRetryInformationIsSet.
LEMMA EnsureRetryCases ==
  ASSUME Typed, NEW a \in Admissions, EnsureRetryInformationIsSet(a)
  PROVE  LET object == admissionWork[a].object
         IN /\ Ready /\ admissionWork[a].stage = "retry"
            /\ UNCHANGED <<plans, plansSeen, admissions, admissionsSeen, config, planQueue,
                           planWork, edits, untouched>>
            /\ \/ /\ admissionWork' = [admissionWork EXCEPT ![a] =
                       IF object.status.retry = RetryResult(a)
                       THEN Idle(AbsentAdmission)
                       ELSE [stage |-> "patchRetry", object |-> object,
                             new |-> [object.status EXCEPT !.retry = RetryResult(a)]]]
                  /\ UNCHANGED <<admissionQueue, faults>>
               \/ /\ Fault
                  /\ admissionWork' = [admissionWork EXCEPT ![a] = Idle(AbsentAdmission)]
                  /\ admissionQueue' = admissionQueue \cup {a}
  BY Zenon DEF EnsureRetryInformationIsSet, RetryResult, admissionFrame

\* A status with another retry information.
LEMMA RetrySetParts ==
  ASSUME NEW st \in AdmissionStatus, NEW r \in {"on", "off"}
  PROVE  LET n == [st EXCEPT !.retry = r]
         IN /\ n \in AdmissionStatus /\ n.retry = r
            /\ n.plans = st.plans /\ n.matched = st.matched
  BY DEF AdmissionStatus

\* The second half of the reconcile of a ReleasePlanAdmission.
LEMMA TypeEnsureRetry ==
  ASSUME Typed, NEW a \in Admissions, EnsureRetryInformationIsSet(a)
  PROVE  Typed'
  <1> DEFINE object == admissionWork[a].object
             new == [object.status EXCEPT !.retry = RetryResult(a)]
             work == [stage |-> "patchRetry", object |-> object, new |-> new]
  <1>1. object \in AdmissionObject /\ object.status \in AdmissionStatus
    BY ObjectParts DEF Typed
  <1>2. new \in AdmissionStatus
    <2>1. RetryResult(a) \in {"on", "off"}
      BY RetryInfoType DEF RetryResult
    <2> QED
      BY <1>1, <2>1, RetrySetParts
  <1>3. work \in AdmissionWork
    <2> HIDE DEF object, new
    <2> QED BY <1>1, <1>2 DEF AdmissionWork
  <1>4. \/ /\ admissionWork' \in {[admissionWork EXCEPT ![a] = Idle(AbsentAdmission)],
                                  [admissionWork EXCEPT ![a] = work]}
           /\ UNCHANGED <<admissionQueue, faults>>
        \/ /\ Fault
           /\ admissionWork' = [admissionWork EXCEPT ![a] = Idle(AbsentAdmission)]
           /\ admissionQueue' = admissionQueue \cup {a}
    BY EnsureRetryCases
  <1>5. admissionWork' \in [Admissions -> AdmissionWork]
    <2> HIDE DEF work
    <2> QED BY <1>3, <1>4, AbsentTypes DEF Typed
  <1>6. faults' \in 0 .. MaxFaults /\ admissionQueue' \subseteq Admissions
    BY <1>4, FaultType DEF Typed
  <1> QED
    BY <1>5, <1>6, EnsureRetryCases DEF Typed

\* People: an edit gives one object a new version, or changes the configuration.
LEMMA EditType ==
  ASSUME Typed, NEW kind, Edit(kind)
  PROVE  /\ edits' \in 0 .. MaxEdits /\ untouched' = FALSE
         /\ UNCHANGED <<planWork, admissionWork>>
         /\ Patient => AtRest
         /\ kind \in Edits
  BY ConstantsAssumption DEF Typed, Edit

\* The edits of a ReleasePlan, with the version that is written.
LEMMA ChangePlanCases ==
  ASSUME Typed, NEW p \in ReleasePlans, ChangePlan(p)
  PROVE  /\ edits' \in 0 .. MaxEdits /\ untouched' = FALSE /\ (Patient => AtRest)
         /\ UNCHANGED <<planWork, admissionWork, planQueue, admissionQueue, faults,
                        plansSeen, admissions, admissionsSeen, config>>
         /\ \E o \in PlanObject :
              /\ plans' = [plans EXCEPT ![p] = o]
              /\ \/ "createPlan" \in Edits /\ ~plans[p].exists /\ o.exists /\ o.status = NewPlan
                 \/ /\ "editPlan" \in Edits
                    /\ plans[p].exists /\ o.exists /\ o.status = plans[p].status
                 \/ "deletePlan" \in Edits /\ ~o.exists /\ o.status = NewPlan
  <1>1. UNCHANGED <<planQueue, admissionQueue, faults>>
    BY DEF ChangePlan
  <1>2. \A o : WritePlan(p, o) => /\ plans' = [plans EXCEPT ![p] = o]
                                  /\ UNCHANGED <<plansSeen, admissions, admissionsSeen, config>>
    BY DEF WritePlan
  <1>3. CASE Edit("createPlan") /\ ~plans[p].exists
             /\ \E s \in PlanSpecs : WritePlan(p, [exists |-> TRUE, spec |-> s, status |-> NewPlan])
    <2>1. PICK s \in PlanSpecs : WritePlan(p, [exists |-> TRUE, spec |-> s, status |-> NewPlan])
      BY <1>3
    <2>2. [exists |-> TRUE, spec |-> s, status |-> NewPlan] \in PlanObject
      BY CreatedTypes
    <2> QED
      BY <1>1, <1>2, <1>3, <2>1, <2>2, EditType
  <1>4. CASE Edit("editPlan") /\ plans[p].exists
             /\ \E s \in PlanSpecs : WritePlan(p, [plans[p] EXCEPT !.spec = s])
    <2>1. PICK s \in PlanSpecs : WritePlan(p, [plans[p] EXCEPT !.spec = s])
      BY <1>4
    <2> DEFINE o == [plans[p] EXCEPT !.spec = s]
    <2>2. o \in PlanObject /\ o.exists = plans[p].exists /\ o.status = plans[p].status
      BY ChangedObject DEF Typed
    <2>3. plans' = [plans EXCEPT ![p] = o]
          /\ UNCHANGED <<plansSeen, admissions, admissionsSeen, config>>
      BY <2>1, <1>2
    <2> HIDE DEF o
    <2> QED
      BY <1>1, <1>4, <2>2, <2>3, EditType
  <1>5. CASE Edit("deletePlan") /\ plans[p].exists /\ WritePlan(p, AbsentPlan)
    <2>1. AbsentPlan \in PlanObject /\ ~AbsentPlan.exists /\ AbsentPlan.status = NewPlan
      BY AbsentTypes DEF AbsentPlan, Absent
    <2> QED
      BY <1>1, <1>2, <1>5, <2>1, EditType
  <1> QED
    BY <1>3, <1>4, <1>5 DEF ChangePlan

\* The edits of a ReleasePlanAdmission.
LEMMA ChangeAdmissionCases ==
  ASSUME Typed, NEW a \in Admissions, ChangeAdmission(a)
  PROVE  /\ edits' \in 0 .. MaxEdits /\ untouched' = FALSE /\ (Patient => AtRest)
         /\ UNCHANGED <<planWork, admissionWork, planQueue, admissionQueue, faults,
                        plans, plansSeen, admissionsSeen, config>>
         /\ \E o \in AdmissionObject :
              /\ admissions' = [admissions EXCEPT ![a] = o]
              /\ \/ ~admissions[a].exists /\ o.exists /\ o.status = NewAdmission
                 \/ admissions[a].exists /\ o.exists /\ o.status = admissions[a].status
                 \/ ~o.exists /\ o.status = NewAdmission
  <1>1. UNCHANGED <<planQueue, admissionQueue, faults>>
    BY DEF ChangeAdmission
  <1>2. \A o : WriteAdmission(a, o) => /\ admissions' = [admissions EXCEPT ![a] = o]
                                       /\ UNCHANGED <<plans, plansSeen, admissionsSeen, config>>
    BY DEF WriteAdmission
  <1>3. CASE Edit("createAdmission") /\ ~admissions[a].exists
             /\ \E s \in AdmissionSpecs :
                  WriteAdmission(a, [exists |-> TRUE, spec |-> s, status |-> NewAdmission])
    <2>1. PICK s \in AdmissionSpecs :
            WriteAdmission(a, [exists |-> TRUE, spec |-> s, status |-> NewAdmission])
      BY <1>3
    <2>2. [exists |-> TRUE, spec |-> s, status |-> NewAdmission] \in AdmissionObject
      BY CreatedTypes
    <2> QED
      BY <1>1, <1>2, <1>3, <2>1, <2>2, EditType
  <1>4. CASE Edit("editAdmission") /\ admissions[a].exists
             /\ \E s \in AdmissionSpecs : WriteAdmission(a, [admissions[a] EXCEPT !.spec = s])
    <2>1. PICK s \in AdmissionSpecs : WriteAdmission(a, [admissions[a] EXCEPT !.spec = s])
      BY <1>4
    <2> DEFINE o == [admissions[a] EXCEPT !.spec = s]
    <2>2. o \in AdmissionObject /\ o.exists = admissions[a].exists
          /\ o.status = admissions[a].status
      BY ChangedObject DEF Typed
    <2>3. admissions' = [admissions EXCEPT ![a] = o]
          /\ UNCHANGED <<plans, plansSeen, admissionsSeen, config>>
      BY <2>1, <1>2
    <2> HIDE DEF o
    <2> QED
      BY <1>1, <1>4, <2>2, <2>3, EditType
  <1>5. CASE Edit("deleteAdmission") /\ WriteAdmission(a, AbsentAdmission)
    <2>1. AbsentAdmission \in AdmissionObject /\ ~AbsentAdmission.exists
          /\ AbsentAdmission.status = NewAdmission
      BY AbsentTypes DEF AbsentAdmission, Absent
    <2> QED
      BY <1>1, <1>2, <1>5, <2>1, EditType
  <1> QED
    <2>1. \/ Edit("createAdmission") /\ ~admissions[a].exists
             /\ \E s \in AdmissionSpecs :
                  WriteAdmission(a, [exists |-> TRUE, spec |-> s, status |-> NewAdmission])
          \/ Edit("editAdmission") /\ admissions[a].exists
             /\ \E s \in AdmissionSpecs : WriteAdmission(a, [admissions[a] EXCEPT !.spec = s])
          \/ Edit("deleteAdmission") /\ WriteAdmission(a, AbsentAdmission)
      BY Zenon DEF ChangeAdmission
    <2> QED
      BY <1>3, <1>4, <1>5, <2>1

\* The edits, the configuration and a restart.
LEMMA TypeChange ==
  ASSUME Typed,
         \/ \E p \in ReleasePlans : ChangePlan(p)
         \/ \E a \in Admissions : ChangeAdmission(a)
         \/ ChangeConfig \/ Restart
  PROVE  Typed'
  <1>1. ASSUME NEW p \in ReleasePlans, ChangePlan(p) PROVE Typed'
    <2>1. PICK o \in PlanObject : plans' = [plans EXCEPT ![p] = o]
      BY <1>1, ChangePlanCases
    <2> QED
      BY <1>1, <2>1, ChangePlanCases DEF Typed
  <1>2. ASSUME NEW a \in Admissions, ChangeAdmission(a) PROVE Typed'
    <2>1. PICK o \in AdmissionObject : admissions' = [admissions EXCEPT ![a] = o]
      BY <1>2, ChangeAdmissionCases
    <2> QED
      BY <1>2, <2>1, ChangeAdmissionCases DEF Typed
  <1>3. ASSUME ChangeConfig PROVE Typed'
    <2>1. Existing(admissionsSeen) \subseteq Admissions
      BY DEF Typed, Existing
    <2>2. Edit("config")
      BY <1>3 DEF ChangeConfig
    <2>3. Fault => faults' \in 0 .. MaxFaults
      BY FaultType
    <2>4. edits' \in 0 .. MaxEdits /\ untouched' = FALSE /\ UNCHANGED <<planWork, admissionWork>>
      BY <2>2, EditType
    <2> QED
      BY <1>3, <2>1, <2>3, <2>4 DEF ChangeConfig, Typed
  <1>4. ASSUME Restart PROVE Typed'
    <2>1. Existing(plans) \subseteq ReleasePlans /\ Existing(admissions) \subseteq Admissions
      BY DEF Typed, Existing
    <2>2. faults' \in 0 .. MaxFaults
      BY <1>4, FaultType DEF Restart
    <2> QED
      BY <1>4, <2>1, <2>2, AbsentTypes DEF Restart, Typed
  <1> QED
    BY <1>1, <1>2, <1>3, <1>4

\* Every step keeps the types.
LEMMA TypeNext ==
  ASSUME Typed, [Next]_vars
  PROVE  Typed'
  <1>1. CASE UNCHANGED vars
    BY <1>1 DEF vars, Typed
  <1>2. CASE Next
    BY <1>2, TypeObserve, TypeReconcilePlan, TypePatchPlan, TypeReconcileAdmission,
       TypePatchAdmission, TypeEnsureRetry, TypeChange DEF Next, Controllers
  <1> QED
    BY <1>1, <1>2

\* Every variable keeps its type, with caches of any age, any number of edits
\* and faults, and for any specifications of the objects.
THEOREM MatchingTypeCorrect == Spec => []TypeOK
  <1>1. Init => TypeOK
    BY TypeInit, Types
  <1>2. TypeOK /\ [Next]_vars => TypeOK'
    BY TypeNext, Types
  <1> QED
    BY <1>1, <1>2, PTL DEF Spec

-----------------------------------------------------------------------------
(* What the loader finds depends on the existence and the specification of *)
(* objects only, never on their status.                                    *)

SameSpecs(P, Q) ==
  /\ DOMAIN P = DOMAIN Q
  /\ \A o \in DOMAIN P : P[o].exists = Q[o].exists /\ P[o].spec = Q[o].spec

\* The match of a ReleasePlan.
LEMMA SameMatch ==
  ASSUME NEW P, NEW Q, NEW A, NEW B, NEW p \in DOMAIN P, SameSpecs(P, Q), SameSpecs(A, B)
  PROVE  GetMatchingReleasePlanAdmission(P, A, p) = GetMatchingReleasePlanAdmission(Q, B, p)
  <1> DEFINE C(X, Y) ==
        {a \in Existing(Y) :
           /\ Y[a].spec.origin
           /\ IF X[p].spec.label = None THEN MatchesReleasePlan(Y[a].spec, X[p])
              ELSE a = X[p].spec.label}
  <1>1. C(P, A) = C(Q, B)
    BY DEF SameSpecs, Existing, MatchesReleasePlan
  <1>2. P[p].spec = Q[p].spec
    BY DEF SameSpecs
  <1>3. \A X, Y : GetMatchingReleasePlanAdmission(X, Y, p) =
          IF X[p].spec.target /\ Cardinality(C(X, Y)) = 1
          THEN CHOOSE a \in C(X, Y) : TRUE ELSE None
    BY DEF GetMatchingReleasePlanAdmission
  <1> HIDE DEF C
  <1> QED
    BY <1>1, <1>2, <1>3

\* The list of a ReleasePlanAdmission.
LEMMA SameList ==
  ASSUME NEW P, NEW Q, NEW spec, NEW a, SameSpecs(P, Q)
  PROVE  /\ GetMatchingReleasePlans(P, spec, a) = GetMatchingReleasePlans(Q, spec, a)
         /\ GetMatchingReleasePlans(P, spec, a) \subseteq DOMAIN P
  <1> DEFINE T(X) == {p \in Existing(X) : spec.origin /\ X[p].spec.target}
             L(X) == {p \in T(X) : X[p].spec.label = a}
             F(X, S) == {p \in S : MatchesReleasePlan(spec, X[p]) /\ X[p].spec.label \in {a, None}}
  <1>1. T(P) = T(Q) /\ T(P) \subseteq DOMAIN P
    BY DEF SameSpecs, Existing
  <1>2. L(P) = L(Q) /\ L(P) \subseteq DOMAIN P
    <2> HIDE DEF T
    <2>1. \A p \in T(P) : P[p].spec = Q[p].spec
      BY <1>1 DEF SameSpecs
    <2> QED BY <1>1, <2>1
  <1>3. \A S \in SUBSET DOMAIN P : F(P, S) = F(Q, S) /\ F(P, S) \subseteq DOMAIN P
    BY DEF SameSpecs, MatchesReleasePlan
  <1>4. \A X : GetMatchingReleasePlans(X, spec, a) = F(X, IF L(X) = {} THEN T(X) ELSE L(X))
    BY Zenon DEF GetMatchingReleasePlans
  <1> HIDE DEF T, L, F
  <1> QED
    BY <1>1, <1>2, <1>3, <1>4

\* So a status says the same about both.
LEMMA SameMatchSaid ==
  ASSUME NEW P, NEW Q, NEW A, NEW B, NEW p \in DOMAIN P, NEW status,
         DOMAIN A = Admissions, SameSpecs(P, Q), SameSpecs(A, B)
  PROVE  SaysMatch(status, P, A, p) <=> SaysMatch(status, Q, B, p)
  <1> DEFINE a == GetMatchingReleasePlanAdmission(P, A, p)
  <1>1. a = GetMatchingReleasePlanAdmission(Q, B, p)
    BY SameMatch
  <1>2. a # None => A[a].spec = B[a].spec
    BY FoundAdmission DEF SameSpecs
  <1> QED
    BY <1>1, <1>2 DEF SaysMatch

\* The same for the list.
LEMMA SameListSaid ==
  ASSUME NEW P, NEW Q, NEW spec, NEW a, NEW status, SameSpecs(P, Q)
  PROVE  /\ SaysList(status, P, spec, a) <=> SaysList(status, Q, spec, a)
         /\ \A c : RetryOf(c, P, spec, a) = RetryOf(c, Q, spec, a)
  <1> DEFINE S == GetMatchingReleasePlans(P, spec, a)
  <1>1. S = GetMatchingReleasePlans(Q, spec, a) /\ S \subseteq DOMAIN P
    BY SameList
  <1>2. \A p \in S : P[p].spec = Q[p].spec
    BY <1>1 DEF SameSpecs
  <1>3. {[plan |-> p, active |-> P[p].spec.auto] : p \in S}
          = {[plan |-> p, active |-> Q[p].spec.auto] : p \in S}
    <2> HIDE DEF S
    <2> QED BY <1>2
  <1>4. SaysList(status, P, spec, a) <=> SaysList(status, Q, spec, a)
    BY <1>1, <1>3 DEF SaysList
  <1>5. \A c : RetryOf(c, P, spec, a) = RetryOf(c, Q, spec, a)
    BY <1>1, <1>2 DEF RetryOf
  <1> QED
    BY <1>4, <1>5

\* Nothing differs from itself, and a patch of a status changes no specification.
LEMMA PatchKeepsSpecs ==
  /\ \A P : SameSpecs(P, P)
  /\ \A P \in [ReleasePlans -> PlanObject] : \A p \in ReleasePlans, st \in PlanStatus :
       SameSpecs(P, [P EXCEPT ![p] = [P[p] EXCEPT !.status = st]])
  /\ \A A \in [Admissions -> AdmissionObject] : \A a \in Admissions, st \in AdmissionStatus :
       SameSpecs(A, [A EXCEPT ![a] = [A[a] EXCEPT !.status = st]])
  <1>1. \A P : SameSpecs(P, P)
    BY DEF SameSpecs
  <1>2. ASSUME NEW P \in [ReleasePlans -> PlanObject], NEW p \in ReleasePlans, NEW st \in PlanStatus
        PROVE  SameSpecs(P, [P EXCEPT ![p] = [P[p] EXCEPT !.status = st]])
    <2> DEFINE o == [P[p] EXCEPT !.status = st]
    <2>1. o.exists = P[p].exists /\ o.spec = P[p].spec
      BY ChangedObject
    <2> HIDE DEF o
    <2> SUFFICES SameSpecs(P, [P EXCEPT ![p] = o])
      BY DEF o
    <2> QED BY <2>1 DEF SameSpecs
  <1>3. ASSUME NEW A \in [Admissions -> AdmissionObject], NEW a \in Admissions,
               NEW st \in AdmissionStatus
        PROVE  SameSpecs(A, [A EXCEPT ![a] = [A[a] EXCEPT !.status = st]])
    <2> DEFINE o == [A[a] EXCEPT !.status = st]
    <2>1. o.exists = A[a].exists /\ o.spec = A[a].spec
      BY ChangedObject
    <2> HIDE DEF o
    <2> SUFFICES SameSpecs(A, [A EXCEPT ![a] = o])
      BY DEF o
    <2> QED BY <2>1 DEF SameSpecs
  <1> QED
    BY <1>1, <1>2, <1>3

-----------------------------------------------------------------------------
(* Steps that leave an object and its reconcile alone. *)

\* The retry information is that of the configuration.
LEMMA RetryInfoIs ==
  \A P, spec, a : DetermineRetryInfo(P, spec, a) = RetryOf(config, P, spec, a)
  BY DEF DetermineRetryInfo, RetryOf

\* A ReleasePlan whose status and reconcile stay.
LEMMA PlanStays ==
  ASSUME Typed, Typed', SameSpecs(plans, plans'), SameSpecs(admissions, admissions'),
         NEW p \in ReleasePlans, plans'[p].status = plans[p].status,
         planWork'[p] = planWork[p], p \in planQueue => p \in planQueue', PlanHeals(p)
  PROVE  PlanHeals(p)'
  <1>1. DOMAIN plans = ReleasePlans /\ DOMAIN admissions = Admissions
    BY DEF Typed
  <1>2. \A st : SaysMatch(st, plans, admissions, p) <=> SaysMatch(st, plans', admissions', p)
    BY <1>1, SameMatchSaid
  <1> QED
    BY <1>2 DEF PlanHeals

\* A ReleasePlanAdmission that stays, with its reconcile.
LEMMA AdmissionStays ==
  ASSUME Typed, Typed', SameSpecs(plans, plans'), config' = config,
         NEW a \in Admissions, admissions'[a] = admissions[a],
         admissionWork'[a] = admissionWork[a], a \in admissionQueue => a \in admissionQueue',
         AdmissionHeals(a)
  PROVE  AdmissionHeals(a)'
  <1> DEFINE spec == admissions[a].spec
  <1>1. \A st : SaysList(st, plans, spec, a) <=> SaysList(st, plans', spec, a)
    BY SameListSaid
  <1>2. RetryOf(config, plans, spec, a) = RetryOf(config', plans', spec, a)
    BY SameListSaid
  <1> QED
    BY <1>1, <1>2 DEF AdmissionHeals

\* A step of one ReleasePlan keeps the invariant when it does so for this one.
LEMMA PlanStep ==
  ASSUME HealInv, Typed', NEW p \in ReleasePlans,
         UNCHANGED <<admissions, admissionWork, admissionQueue, config>>,
         SameSpecs(plans, plans'), untouched' => untouched,
         \A q \in ReleasePlans \ {p} :
           /\ plans'[q] = plans[q] /\ planWork'[q] = planWork[q]
           /\ q \in planQueue => q \in planQueue',
         PlanCoherent(plans'[p].status), PlanPatchOK(p)',
         untouched' /\ plans[p].exists => PlanHeals(p)'
  PROVE  Coherent' /\ Heals'
  <1>1. Typed /\ Coherent /\ Heals
    BY DEF HealInv
  <1>2. DOMAIN plans = ReleasePlans /\ SameSpecs(admissions, admissions')
    BY <1>1, PatchKeepsSpecs DEF Typed
  <1>3. \A q \in ReleasePlans : plans'[q].exists = plans[q].exists
    BY <1>2 DEF SameSpecs
  <1>4. ASSUME NEW q \in ReleasePlans PROVE PlanCoherent(plans'[q].status) /\ PlanPatchOK(q)'
    BY <1>1 DEF Coherent, PlanPatchOK
  <1>5. ASSUME NEW a \in Admissions
        PROVE  AdmissionCoherent(admissions'[a].status) /\ AdmissionPatchOK(a)'
    BY <1>1 DEF Coherent, AdmissionPatchOK
  <1>6. ASSUME untouched', NEW q \in ReleasePlans, plans'[q].exists PROVE PlanHeals(q)'
    <2>1. CASE q = p
      BY <1>3, <1>6, <2>1
    <2>2. CASE q # p
      <3>1. PlanHeals(q)
        BY <1>1, <1>3, <1>6 DEF Heals
      <3> QED
        BY <1>1, <1>2, <2>2, <3>1, PlanStays
    <2> QED
      BY <2>1, <2>2
  <1>7. ASSUME untouched', NEW a \in Admissions, admissions'[a].exists PROVE AdmissionHeals(a)'
    <2>1. AdmissionHeals(a)
      BY <1>1, <1>7 DEF Heals
    <2> QED
      BY <1>1, <2>1, AdmissionStays
  <1> QED
    BY <1>4, <1>5, <1>6, <1>7 DEF Coherent, Heals

\* The same for a step of one ReleasePlanAdmission.
LEMMA AdmissionStep ==
  ASSUME HealInv, Typed', NEW a \in Admissions,
         UNCHANGED <<plans, planWork, planQueue, config>>,
         SameSpecs(admissions, admissions'), untouched' => untouched,
         \A b \in Admissions \ {a} :
           /\ admissions'[b] = admissions[b] /\ admissionWork'[b] = admissionWork[b]
           /\ b \in admissionQueue => b \in admissionQueue',
         AdmissionCoherent(admissions'[a].status), AdmissionPatchOK(a)',
         untouched' /\ admissions[a].exists => AdmissionHeals(a)'
  PROVE  Coherent' /\ Heals'
  <1>1. Typed /\ Coherent /\ Heals
    BY DEF HealInv
  <1>2. DOMAIN admissions = Admissions /\ SameSpecs(plans, plans')
    BY <1>1, PatchKeepsSpecs DEF Typed
  <1>3. \A b \in Admissions : admissions'[b].exists = admissions[b].exists
    BY <1>2 DEF SameSpecs
  <1>4. ASSUME NEW q \in ReleasePlans PROVE PlanCoherent(plans'[q].status) /\ PlanPatchOK(q)'
    BY <1>1 DEF Coherent, PlanPatchOK
  <1>5. ASSUME NEW b \in Admissions
        PROVE  AdmissionCoherent(admissions'[b].status) /\ AdmissionPatchOK(b)'
    BY <1>1 DEF Coherent, AdmissionPatchOK
  <1>6. ASSUME untouched', NEW q \in ReleasePlans, plans'[q].exists PROVE PlanHeals(q)'
    <2>1. PlanHeals(q)
      BY <1>1, <1>6 DEF Heals
    <2> QED
      BY <1>1, <1>2, <2>1, PlanStays
  <1>7. ASSUME untouched', NEW b \in Admissions, admissions'[b].exists PROVE AdmissionHeals(b)'
    <2>1. CASE b = a
      BY <1>3, <1>7, <2>1
    <2>2. CASE b # a
      <3>1. AdmissionHeals(b)
        BY <1>1, <1>3, <1>7 DEF Heals
      <3> QED
        BY <1>1, <1>2, <2>2, <3>1, AdmissionStays
    <2> QED
      BY <2>1, <2>2
  <1> QED
    BY <1>4, <1>5, <1>6, <1>7 DEF Coherent, Heals

\* A step that changes nothing but caches and counters and may fill the queues.
LEMMA QuietStep ==
  ASSUME HealInv, Typed', UNCHANGED <<plans, planWork, admissions, admissionWork, config>>,
         planQueue \subseteq planQueue', admissionQueue \subseteq admissionQueue',
         untouched' => untouched
  PROVE  Coherent' /\ Heals'
  <1>1. Typed /\ Coherent /\ Heals
    BY DEF HealInv
  <1>2. SameSpecs(plans, plans') /\ SameSpecs(admissions, admissions')
    BY PatchKeepsSpecs
  <1>3. Coherent'
    BY <1>1 DEF Coherent, PlanPatchOK, AdmissionPatchOK
  <1>4. ASSUME untouched', NEW q \in ReleasePlans, plans'[q].exists PROVE PlanHeals(q)'
    <2>1. PlanHeals(q)
      BY <1>1, <1>4 DEF Heals
    <2> QED
      BY <1>1, <1>2, <2>1, PlanStays
  <1>5. ASSUME untouched', NEW b \in Admissions, admissions'[b].exists PROVE AdmissionHeals(b)'
    <2>1. AdmissionHeals(b)
      BY <1>1, <1>5 DEF Heals
    <2> QED
      BY <1>1, <1>2, <2>1, AdmissionStays
  <1> QED
    BY <1>3, <1>4, <1>5 DEF Heals

-----------------------------------------------------------------------------
(* The steps of the controllers, when caches do not lag. *)

\* MarkMatched and MarkUnmatched leave a coherent status that says what the
\* loader found; and when that is no reason for a patch, the old one said so.
LEMMA MarkMatchedSays ==
  ASSUME NEW P, NEW A \in [Admissions -> AdmissionObject], NEW p,
         NEW st \in PlanStatus, PlanCoherent(st), NEW a,
         a = GetMatchingReleasePlanAdmission(P, A, p) \/ a = None
  PROVE  LET n == MarkMatched(st, A, a)
         IN /\ PlanCoherent(n) /\ n.matched # "unset"
            /\ a = GetMatchingReleasePlanAdmission(P, A, p) =>
                 /\ SaysMatch(n, P, A, p)
                 /\ IsSameMatch(st, n) => SaysMatch(st, P, A, p)
  <1> DEFINE n == MarkMatched(st, A, a)
  <1>1. a # None => a \in Admissions
    BY FoundAdmission
  <1>2. /\ n \in PlanStatus
        /\ a # None => n.matched = "True" /\ n.admission = a /\ n.active = A[a].spec.open
        /\ a = None /\ st.matched = "False" => n = st
        /\ a = None /\ st.matched # "False" =>
             n.matched = "False" /\ n.admission = None /\ n.active = FALSE
    BY <1>1, MarkMatchedParts
  <1>3. n.active \in BOOLEAN /\ st.active \in BOOLEAN /\ st.matched \in {"unset", "True", "False"}
    BY <1>2, StatusParts DEF Conditions
  <1>4. a # None => A[a].spec.open \in BOOLEAN
    BY <1>1, SpecParts, ObjectParts
  <1> HIDE DEF n
  <1>5. PlanCoherent(n) /\ n.matched # "unset"
    BY <1>2, <1>3 DEF PlanCoherent
  <1>6. ASSUME a = GetMatchingReleasePlanAdmission(P, A, p)
        PROVE  SaysMatch(n, P, A, p)
    <2>1. CASE a # None
      BY <1>2, <1>4, <1>6, <2>1 DEF SaysMatch
    <2>2. CASE a = None
      <3>1. n.matched = "False" /\ n.admission = None /\ n.active = FALSE
        BY <1>2, <1>3, <2>2 DEF PlanCoherent
      <3> QED BY <1>6, <2>2, <3>1 DEF SaysMatch
    <2> QED BY <2>1, <2>2
  <1>7. ASSUME a = GetMatchingReleasePlanAdmission(P, A, p), IsSameMatch(st, n)
        PROVE  SaysMatch(st, P, A, p)
    <2>1. st.admission = n.admission /\ st.active = n.active /\ st.matched # "unset"
      BY <1>7 DEF IsSameMatch
    <2>2. n.matched \in {"True", "False"}
      BY <1>2, <1>3
    <2>3. st.matched = n.matched
      BY <1>3, <1>5, <2>1, <2>2 DEF PlanCoherent
    <2> QED
      BY <1>6, <1>7, <2>1, <2>3 DEF SaysMatch
  <1> QED
    BY <1>5, <1>6, <1>7 DEF n

\* A reconcile of a ReleasePlan reads what is there.
LEMMA HealReconcilePlan ==
  ASSUME HealInv, Typed', ~StaleReads, NEW p \in ReleasePlans, ReconcilePlan(p)
  PROVE  Coherent' /\ Heals'
  <1>1. Typed /\ Coherent /\ Heals
    BY DEF HealInv
  <1>2. plansSeen = plans /\ admissionsSeen = admissions /\ planWork[p].stage = "idle"
    BY <1>1, ReconcilePlanCases DEF Ready, Synced
  <1>3. CASE Fault /\ UNCHANGED <<planQueue, planWork, untouched>>
    BY <1>1, <1>3, ReconcilePlanCases, QuietStep
  <1>4. ASSUME planQueue' = planQueue \ {p}, NEW a,
               \/ /\ a = GetMatchingReleasePlanAdmission(plans, admissions, p)
                  /\ UNCHANGED <<faults, untouched>>
               \/ a = None /\ Fault /\ untouched' = FALSE,
               planWork' =
                 IF ~plans[p].exists \/ IsSameMatch(plans[p].status, PlanResult(p, a))
                 THEN planWork
                 ELSE [planWork EXCEPT ![p] =
                         [stage |-> "patch", object |-> plans[p], new |-> PlanResult(p, a)]]
        PROVE  Coherent' /\ Heals'
    <2> DEFINE st == plans[p].status
               n == PlanResult(p, a)
    <2>1. st \in PlanStatus /\ PlanCoherent(st)
      BY <1>1, ObjectParts DEF Typed, Coherent
    <2>2. n = MarkMatched(st, admissions, a)
      BY <1>2 DEF PlanResult
    <2>3. /\ PlanCoherent(n) /\ n.matched # "unset"
          /\ a = GetMatchingReleasePlanAdmission(plans, admissions, p) =>
               /\ SaysMatch(n, plans, admissions, p)
               /\ IsSameMatch(st, n) => SaysMatch(st, plans, admissions, p)
      <3>1. admissions \in [Admissions -> AdmissionObject]
            /\ (a = GetMatchingReleasePlanAdmission(plans, admissions, p) \/ a = None)
        BY <1>1, <1>4 DEF Typed
      <3> HIDE DEF st, n
      <3> QED
        BY <2>1, <2>2, <3>1, MarkMatchedSays
    <2>4. UNCHANGED <<plans, admissions, admissionWork, admissionQueue, config>>
      BY <1>1, ReconcilePlanCases
    <2>5. SameSpecs(plans, plans')
      BY <2>4, PatchKeepsSpecs
    <2>6. CASE ~plans[p].exists \/ IsSameMatch(st, n)
      <3>1. planWork' = planWork
        BY <1>4, <2>6
      <3>2. PlanCoherent(plans'[p].status) /\ PlanPatchOK(p)'
        BY <1>2, <2>1, <2>4, <3>1 DEF PlanPatchOK
      <3>3. untouched' /\ plans[p].exists => PlanHeals(p)'
        <4> SUFFICES ASSUME untouched', plans[p].exists PROVE PlanHeals(p)'
          OBVIOUS
        <4>1. SaysMatch(st, plans, admissions, p)
          BY <1>4, <2>3, <2>6
        <4> QED BY <1>2, <2>4, <3>1, <4>1 DEF PlanHeals
      <3> QED
        BY <1>4, <2>4, <2>5, <3>1, <3>2, <3>3, PlanStep
    <2>7. CASE plans[p].exists /\ ~IsSameMatch(st, n)
      <3>1. planWork' = [planWork EXCEPT ![p] =
                           [stage |-> "patch", object |-> plans[p], new |-> n]]
        BY <1>4, <2>7
      <3> HIDE DEF n
      <3>2. planWork'[p].stage = "patch" /\ planWork'[p].object = plans[p] /\ planWork'[p].new = n
            /\ \A q \in ReleasePlans \ {p} : planWork'[q] = planWork[q]
        BY <1>1, <3>1 DEF Typed
      <3>3. PlanCoherent(plans'[p].status) /\ PlanPatchOK(p)'
        BY <2>1, <2>3, <2>4, <2>7, <3>2 DEF PlanPatchOK
      <3>4. untouched' /\ plans[p].exists => PlanHeals(p)'
        BY <1>4, <2>3, <2>4, <3>2 DEF PlanHeals
      <3> QED
        BY <1>4, <2>4, <2>5, <3>2, <3>3, <3>4, PlanStep
    <2> QED BY <2>6, <2>7
  <1> QED
    BY <1>1, <1>2, <1>3, <1>4, ReconcilePlanCases

\* The patch meets the status it was computed from, and leaves the new one
\* except for the time.
LEMMA PatchedPlanIs ==
  ASSUME NEW base \in PlanStatus, NEW new \in PlanStatus, NEW stamp
  PROVE  LET n == PatchedPlan(base, base, new, stamp)
         IN n.matched = new.matched /\ n.admission = new.admission /\ n.active = new.active
  BY DEF PatchedPlan

\* The patch of a ReleasePlan.
LEMMA HealPatchPlan ==
  ASSUME HealInv, Typed', NEW p \in ReleasePlans, PatchPlan(p)
  PROVE  Coherent' /\ Heals'
  <1>1. Typed /\ Coherent /\ Heals
    BY DEF HealInv
  <1>2. /\ planWork[p].stage = "patch"
        /\ planWork' = [planWork EXCEPT ![p] = Idle(AbsentPlan)]
        /\ UNCHANGED <<plansSeen, admissions, admissionsSeen, config,
                       admissionQueue, admissionWork, edits, untouched>>
    BY <1>1, PatchPlanCases
  <1>3. planWork'[p].stage = "idle" /\ \A q \in ReleasePlans \ {p} : planWork'[q] = planWork[q]
    BY <1>1, <1>2 DEF Typed, Idle
  <1>4. PlanPatchOK(p)'
    BY <1>3 DEF PlanPatchOK
  <1>5. CASE planQueue' = planQueue \cup {p} /\ plans' = plans
    <2>1. PlanCoherent(plans'[p].status) /\ SameSpecs(plans, plans')
      BY <1>1, <1>5, PatchKeepsSpecs DEF Coherent
    <2>2. PlanHeals(p)'
      BY <1>5 DEF PlanHeals
    <2> QED
      BY <1>2, <1>3, <1>4, <1>5, <2>1, <2>2, PlanStep
  <1>6. ASSUME plans[p].exists, planQueue' = planQueue, NEW stamp, NEW st \in PlanStatus,
               st = PatchedPlan(plans[p].status, planWork[p].object.status, planWork[p].new, stamp),
               plans' = [plans EXCEPT ![p] = [plans[p] EXCEPT !.status = st]]
        PROVE  Coherent' /\ Heals'
    <2> DEFINE new == planWork[p].new
    <2>1. /\ PlanCoherent(new) /\ plans[p].status = planWork[p].object.status
      BY <1>1, <1>2, <1>6 DEF Coherent, PlanPatchOK
    <2>2. new \in PlanStatus /\ plans[p].status \in PlanStatus
      BY <1>1, ObjectParts DEF Typed
    <2>3. st.matched = new.matched /\ st.admission = new.admission /\ st.active = new.active
      BY <1>6, <2>1, <2>2, PatchedPlanIs
    <2>4. SameSpecs(plans, plans')
      BY <1>1, <1>6, PatchKeepsSpecs DEF Typed
    <2>5. [plans[p] EXCEPT !.status = st].status = st
      BY <1>1, ChangedObject DEF Typed
    <2>6. plans'[p].status = st /\ \A q \in ReleasePlans \ {p} : plans'[q] = plans[q]
      BY <1>1, <1>6, <2>5 DEF Typed
    <2>7. PlanCoherent(st)
      BY <2>1, <2>3 DEF PlanCoherent
    <2>8. ASSUME untouched' PROVE PlanHeals(p)'
      <3>1. PlanHeals(p)
        BY <1>1, <1>2, <1>6, <2>8 DEF Heals
      <3>2. CASE p \in planQueue
        BY <1>6, <3>2 DEF PlanHeals
      <3>3. CASE SaysMatch(new, plans, admissions, p)
        <4>1. SaysMatch(st, plans, admissions, p)
          BY <2>3, <3>3 DEF SaysMatch
        <4>2. SaysMatch(st, plans', admissions', p)
          BY <1>1, <1>2, <2>4, <4>1, SameMatchSaid, PatchKeepsSpecs DEF Typed
        <4> QED BY <1>3, <2>6, <4>2 DEF PlanHeals
      <3> QED BY <1>2, <3>1, <3>2, <3>3 DEF PlanHeals
    <2> QED
      BY <1>2, <1>3, <1>4, <1>6, <2>4, <2>6, <2>7, <2>8, PlanStep
  <1> QED
    BY <1>1, <1>5, <1>6, PatchPlanCases

\* ClearMatchingInfo and MarkMatched of a ReleasePlanAdmission leave a coherent
\* status that lists what the loader found; and so did the old one when there
\* is no reason for a patch.
LEMMA SetMatchingInfoSays ==
  ASSUME NEW P \in [ReleasePlans -> PlanObject], NEW spec, NEW a,
         NEW st \in AdmissionStatus, AdmissionCoherent(st)
  PROVE  LET n == SetMatchingInfo(st, P, GetMatchingReleasePlans(P, spec, a))
         IN /\ AdmissionCoherent(n) /\ n.matched # "unset"
            /\ SaysList(n, P, spec, a)
            /\ IsSameList(st, n) => SaysList(st, P, spec, a)
  <1> DEFINE S == GetMatchingReleasePlans(P, spec, a)
             list == {[plan |-> p, active |-> P[p].spec.auto] : p \in S}
             n == SetMatchingInfo(st, P, S)
  <1>1. S \in SUBSET ReleasePlans
    BY FoundPlans
  <1>2. /\ n.plans = list
        /\ n.matched = (IF S = {} THEN "False" ELSE "True")
    <2> HIDE DEF S
    <2> QED BY <1>1, SetMatchingInfoParts
  <1>3. list = {} <=> S = {}
    <2> HIDE DEF S
    <2> QED OBVIOUS
  <1>4. SaysList(n, P, spec, a)
    BY <1>2 DEF SaysList
  <1>5. SaysList(st, P, spec, a) <=> st.plans = list /\ st.matched = (IF S = {} THEN "False" ELSE "True")
    BY DEF SaysList
  <1>6. st.matched \in {"unset", "True", "False"}
    BY StatusParts DEF Conditions
  <1> HIDE DEF S, list, n
  <1>7. AdmissionCoherent(n) /\ n.matched # "unset"
    BY <1>2, <1>3 DEF AdmissionCoherent
  <1>8. IsSameList(st, n) => SaysList(st, P, spec, a)
    BY <1>2, <1>3, <1>5, <1>6 DEF IsSameList, AdmissionCoherent
  <1> QED
    BY <1>4, <1>7, <1>8 DEF n, S

\* A reconcile of a ReleasePlanAdmission reads what is there.
LEMMA HealReconcileAdmission ==
  ASSUME HealInv, Typed', ~StaleReads, NEW a \in Admissions, ReconcileAdmission(a)
  PROVE  Coherent' /\ Heals'
  <1>1. Typed /\ Coherent /\ Heals
    BY DEF HealInv
  <1>2. plansSeen = plans /\ admissionsSeen = admissions /\ admissionWork[a].stage = "idle"
    BY <1>1, ReconcileAdmissionCases DEF Ready, Synced
  <1>3. UNCHANGED <<plans, admissions, config, planQueue, planWork, untouched>>
    BY <1>1, ReconcileAdmissionCases
  <1>4. CASE UNCHANGED <<admissionQueue, admissionWork>>
    BY <1>3, <1>4, QuietStep
  <1> DEFINE base == admissions[a].status
             n == AdmissionResult(a)
             same == IsSameList(base, n)
  <1>5. base \in AdmissionStatus /\ AdmissionCoherent(base) /\ plans \in [ReleasePlans -> PlanObject]
    BY <1>1, ObjectParts DEF Typed, Coherent
  <1>6. n = SetMatchingInfo(base, plans, GetMatchingReleasePlans(plans, admissions[a].spec, a))
    BY <1>2 DEF AdmissionResult
  <1>7. /\ AdmissionCoherent(n) /\ n.matched # "unset"
        /\ SaysList(n, plans, admissions[a].spec, a)
        /\ same => SaysList(base, plans, admissions[a].spec, a)
    <2> HIDE DEF base, n
    <2> QED BY <1>5, <1>6, SetMatchingInfoSays
  <1>8. SameSpecs(admissions, admissions')
    BY <1>3, PatchKeepsSpecs
  <1>9. CASE admissionQueue' = admissionQueue \ {a} /\ ~admissions[a].exists
             /\ admissionWork' = admissionWork
    <2>1. AdmissionCoherent(admissions'[a].status) /\ AdmissionPatchOK(a)'
      BY <1>3, <1>5, <1>9, <1>1 DEF AdmissionPatchOK, Coherent
    <2> QED
      BY <1>3, <1>8, <1>9, <2>1, AdmissionStep
  <1>10. CASE admissionQueue' = admissionQueue \ {a} /\ admissions[a].exists
              /\ admissionWork' = [admissionWork EXCEPT ![a] =
                                     [stage |-> IF same THEN "retry" ELSE "patch",
                                      object |-> admissions[a],
                                      new |-> IF same THEN base ELSE n]]
    <2> HIDE DEF n, same
    <2>1. /\ admissionWork'[a].stage = (IF same THEN "retry" ELSE "patch")
          /\ admissionWork'[a].object = admissions[a]
          /\ admissionWork'[a].new = (IF same THEN base ELSE n)
          /\ \A b \in Admissions \ {a} : admissionWork'[b] = admissionWork[b]
      BY <1>1, <1>10 DEF Typed
    <2>2. AdmissionCoherent(admissions'[a].status) /\ AdmissionPatchOK(a)'
      BY <1>3, <1>5, <1>7, <2>1 DEF AdmissionPatchOK, same, IsSameList
    <2>3. AdmissionHeals(a)'
      BY <1>3, <1>7, <2>1 DEF AdmissionHeals
    <2> QED
      BY <1>3, <1>8, <1>10, <2>1, <2>2, <2>3, AdmissionStep
  <1> QED
    BY <1>1, <1>2, <1>4, <1>9, <1>10, ReconcileAdmissionCases

\* What the two patches of a reconcile of a ReleasePlanAdmission leave.
PatchedList(st, base, new, stamp) == PatchedAdmission(st, base, new, TRUE, stamp)
PatchedRetry(st, base, new, stamp) == PatchedAdmission(st, base, new, FALSE, stamp)

\* The first patch sets the list whole.
LEMMA PatchedListIs ==
  ASSUME NEW st \in AdmissionStatus, NEW base \in AdmissionStatus, NEW new \in AdmissionStatus,
         NEW stamp, AdmissionCoherent(base), AdmissionCoherent(new), new.matched # "unset",
         ~IsSameList(base, new), NEW n, n = PatchedList(st, base, new, stamp)
  PROVE  n.matched = new.matched /\ n.plans = new.plans
  <1>1. new.plans # base.plans \/ base.matched = "unset"
    BY DEF IsSameList
  <1>2. ~(base.matched = "False" /\ new.matched = "False")
    BY <1>1 DEF AdmissionCoherent
  <1> QED
    BY <1>1, <1>2 DEF PatchedAdmission, PatchedList

\* The second patch leaves the list alone.
LEMMA PatchedRetryIs ==
  ASSUME NEW st \in AdmissionStatus, NEW base \in AdmissionStatus, NEW new \in AdmissionStatus,
         NEW stamp, base.matched # "unset", new.plans = base.plans,
         NEW n, n = PatchedRetry(st, base, new, stamp)
  PROVE  /\ n.matched = st.matched /\ n.plans = st.plans
         /\ new.retry # base.retry => n.retry = new.retry
  BY DEF PatchedAdmission, PatchedRetry

\* The patches of a ReleasePlanAdmission.
LEMMA HealPatchAdmission ==
  ASSUME HealInv, Typed', NEW a \in Admissions, PatchAdmission(a)
  PROVE  Coherent' /\ Heals'
  <1>1. Typed /\ Coherent /\ Heals
    BY DEF HealInv
  <1> DEFINE work == admissionWork[a]
  <1>2. /\ work.stage \in {"patch", "patchRetry"}
        /\ UNCHANGED <<plans, config, planQueue, planWork, untouched>>
    BY <1>1, PatchAdmissionCases
  <1>3. CASE admissionWork' = [admissionWork EXCEPT ![a] = Idle(AbsentAdmission)]
             /\ admissionQueue' = admissionQueue \cup {a} /\ admissions' = admissions
    <2>1. admissionWork'[a].stage = "idle"
          /\ \A b \in Admissions \ {a} : admissionWork'[b] = admissionWork[b]
      BY <1>1, <1>3 DEF Typed, Idle
    <2>2. AdmissionCoherent(admissions'[a].status) /\ AdmissionPatchOK(a)'
      BY <1>1, <1>3, <2>1 DEF Coherent, AdmissionPatchOK
    <2>3. SameSpecs(admissions, admissions') /\ AdmissionHeals(a)'
      BY <1>3, PatchKeepsSpecs DEF AdmissionHeals
    <2> QED
      BY <1>2, <1>3, <2>1, <2>2, <2>3, AdmissionStep
  <1>4. ASSUME admissions[a].exists, admissionQueue' = admissionQueue,
               NEW stamp, NEW st \in AdmissionStatus, NEW object,
               st = WrittenStatus(a, stamp),
               object = [admissions[a] EXCEPT !.status = st],
               admissions' = [admissions EXCEPT ![a] = object],
               admissionWork' = [admissionWork EXCEPT ![a] =
                 IF work.stage = "patch"
                 THEN [stage |-> "retry", object |-> object, new |-> object.status]
                 ELSE Idle(AbsentAdmission)]
        PROVE  Coherent' /\ Heals'
    <2> DEFINE status == admissions[a].status
    <2>1. /\ status \in AdmissionStatus /\ work.object.status \in AdmissionStatus
          /\ work.new \in AdmissionStatus
      BY <1>1, ObjectParts DEF Typed
    <2>2. object.status = st /\ object.spec = admissions[a].spec /\ object.exists = admissions[a].exists
      <3>1. admissions[a] \in AdmissionObject
        BY <1>1 DEF Typed
      <3>2. object = [admissions[a] EXCEPT !.status = st]
        BY <1>4
      <3> QED BY <3>1, <3>2, ChangedObject
    <2>3. SameSpecs(admissions, admissions')
      BY <1>1, <1>4, PatchKeepsSpecs DEF Typed
    <2>4. admissions'[a] = object /\ \A b \in Admissions \ {a} :
            admissions'[b] = admissions[b] /\ admissionWork'[b] = admissionWork[b]
      BY <1>1, <1>4 DEF Typed
    <2>5. AdmissionCoherent(status) /\ AdmissionPatchOK(a)
      BY <1>1 DEF Coherent
    <2>6. untouched' => AdmissionHeals(a)
      BY <1>1, <1>2, <1>4 DEF Heals
    <2>7. CASE work.stage = "patch"
      <3>1. /\ AdmissionCoherent(work.object.status)
            /\ AdmissionCoherent(work.new) /\ work.new.matched # "unset"
            /\ ~IsSameList(work.object.status, work.new)
        BY <2>5, <2>7 DEF AdmissionPatchOK
      <3>2. st = PatchedList(status, work.object.status, work.new, stamp)
        BY <1>4, <2>7 DEF PatchedList, WrittenStatus
      <3>3. st.matched = work.new.matched /\ st.plans = work.new.plans
        <4> HIDE DEF status, work
        <4> DEFINE base == work.object.status
                   new == work.new
        <4>1. base \in AdmissionStatus /\ new \in AdmissionStatus /\ status \in AdmissionStatus
          BY <2>1
        <4>2. AdmissionCoherent(base) /\ AdmissionCoherent(new) /\ new.matched # "unset"
              /\ ~IsSameList(base, new) /\ st = PatchedList(status, base, new, stamp)
          BY <3>1, <3>2
        <4> HIDE DEF base, new
        <4>3. st.matched = new.matched /\ st.plans = new.plans
          BY <4>1, <4>2, PatchedListIs
        <4> QED BY <4>3 DEF new
      <3>4. admissionWork'[a].stage = "retry" /\ admissionWork'[a].object = object
        BY <1>1, <1>4, <2>7 DEF Typed
      <3>5. AdmissionCoherent(admissions'[a].status) /\ AdmissionPatchOK(a)'
        BY <2>2, <2>4, <3>1, <3>3, <3>4 DEF AdmissionCoherent, AdmissionPatchOK
      <3>6. ASSUME untouched' PROVE AdmissionHeals(a)'
        <4>1. CASE a \in admissionQueue
          BY <1>4, <4>1 DEF AdmissionHeals
        <4>2. CASE SaysList(work.new, plans, admissions[a].spec, a)
          <5>1. SaysList(st, plans, admissions[a].spec, a)
            BY <3>3, <4>2 DEF SaysList
          <5> QED
            BY <1>2, <2>2, <2>4, <3>4, <5>1 DEF AdmissionHeals
        <4> QED
          BY <2>6, <2>7, <3>6, <4>1, <4>2 DEF AdmissionHeals
      <3> QED
        BY <1>2, <1>4, <2>3, <2>4, <3>5, <3>6, AdmissionStep
    <2>8. CASE work.stage = "patchRetry"
      <3>1. work.object.status.matched # "unset" /\ work.new.plans = work.object.status.plans
        BY <2>5, <2>8 DEF AdmissionPatchOK
      <3>2. st = PatchedRetry(status, work.object.status, work.new, stamp)
        BY <1>4, <2>8 DEF PatchedRetry, WrittenStatus
      <3>3. st.matched = status.matched /\ st.plans = status.plans
            /\ (work.new.retry # work.object.status.retry => st.retry = work.new.retry)
        <4> HIDE DEF status, work
        <4> DEFINE base == work.object.status
                   new == work.new
        <4>1. base \in AdmissionStatus /\ new \in AdmissionStatus /\ status \in AdmissionStatus
          BY <2>1
        <4>2. base.matched # "unset" /\ new.plans = base.plans
              /\ st = PatchedRetry(status, base, new, stamp)
          BY <3>1, <3>2
        <4> HIDE DEF base, new
        <4>3. st.matched = status.matched /\ st.plans = status.plans
              /\ (new.retry # base.retry => st.retry = new.retry)
          BY <4>1, <4>2, PatchedRetryIs
        <4> QED BY <4>3 DEF new, base
      <3>4. admissionWork'[a].stage = "idle"
        BY <1>1, <1>4, <2>8 DEF Typed, Idle
      <3>5. AdmissionCoherent(admissions'[a].status) /\ AdmissionPatchOK(a)'
        BY <2>2, <2>4, <2>5, <3>3, <3>4 DEF AdmissionCoherent, AdmissionPatchOK
      <3>6. ASSUME untouched' PROVE AdmissionHeals(a)'
        <4>1. CASE a \in admissionQueue
          BY <1>4, <4>1 DEF AdmissionHeals
        <4>2. CASE /\ SaysList(status, plans, admissions[a].spec, a)
                   /\ work.new.retry = RetryOf(config, plans, admissions[a].spec, a)
                   /\ work.new.retry # work.object.status.retry
          <5>1. SaysList(st, plans, admissions[a].spec, a)
            BY <3>3, <4>2 DEF SaysList
          <5> QED
            BY <1>2, <2>2, <2>4, <3>3, <3>4, <4>2, <5>1 DEF AdmissionHeals
        <4> QED
          BY <2>6, <2>8, <3>6, <4>1, <4>2 DEF AdmissionHeals
      <3> QED
        BY <1>2, <1>4, <2>3, <2>4, <3>5, <3>6, AdmissionStep
    <2> QED
      BY <1>2, <2>7, <2>8
  <1>5. ASSUME admissions[a].exists, admissionQueue' = admissionQueue,
               \E stamp \in NewStamp(admissions[a].status.stamp) :
                 LET st == WrittenStatus(a, stamp)
                     object == [admissions[a] EXCEPT !.status = st]
                 IN /\ st \in AdmissionStatus
                    /\ admissions' = [admissions EXCEPT ![a] = object]
                    /\ admissionWork' = [admissionWork EXCEPT ![a] =
                         IF work.stage = "patch"
                         THEN [stage |-> "retry", object |-> object, new |-> object.status]
                         ELSE Idle(AbsentAdmission)]
        PROVE  Coherent' /\ Heals'
    <2>1. PICK stamp \in NewStamp(admissions[a].status.stamp) :
            /\ WrittenStatus(a, stamp) \in AdmissionStatus
            /\ admissions' = [admissions EXCEPT ![a] =
                 [admissions[a] EXCEPT !.status = WrittenStatus(a, stamp)]]
            /\ admissionWork' = [admissionWork EXCEPT ![a] =
                 IF work.stage = "patch"
                 THEN [stage |-> "retry",
                       object |-> [admissions[a] EXCEPT !.status = WrittenStatus(a, stamp)],
                       new |-> [admissions[a] EXCEPT !.status = WrittenStatus(a, stamp)].status]
                 ELSE Idle(AbsentAdmission)]
      BY <1>5
    <2> DEFINE st == WrittenStatus(a, stamp)
               object == [admissions[a] EXCEPT !.status = st]
    <2>2. st \in AdmissionStatus
          /\ st = WrittenStatus(a, stamp)
          /\ object = [admissions[a] EXCEPT !.status = st]
          /\ admissions' = [admissions EXCEPT ![a] = object]
          /\ admissionWork' = [admissionWork EXCEPT ![a] =
               IF work.stage = "patch"
               THEN [stage |-> "retry", object |-> object, new |-> object.status]
               ELSE Idle(AbsentAdmission)]
      BY <2>1
    <2> HIDE DEF st, object, work
    <2> QED BY <1>4, <1>5, <2>2
  <1> QED
    BY <1>1, <1>3, <1>5, PatchAdmissionCases

\* The retry information is determined from what is there.
LEMMA HealEnsureRetry ==
  ASSUME HealInv, Typed', ~StaleReads, NEW a \in Admissions, EnsureRetryInformationIsSet(a)
  PROVE  Coherent' /\ Heals'
  <1>1. Typed /\ Coherent /\ Heals
    BY DEF HealInv
  <1> DEFINE object == admissionWork[a].object
             r == RetryResult(a)
             new == [object.status EXCEPT !.retry = r]
  <1>2. /\ plansSeen = plans /\ admissionWork[a].stage = "retry"
        /\ UNCHANGED <<plans, admissions, config, planQueue, planWork, untouched>>
    BY <1>1, EnsureRetryCases DEF Ready, Synced
  <1>3. r \in {"on", "off"} /\ r = RetryOf(config, plans, object.spec, a)
    BY <1>2, RetryInfoType, RetryInfoIs DEF RetryResult
  <1>4. object.status \in AdmissionStatus /\ object.status.matched # "unset"
    BY <1>1, <1>2, ObjectParts DEF Typed, Coherent, AdmissionPatchOK
  <1>5. new.retry = r /\ new.plans = object.status.plans
    BY <1>3, <1>4, RetrySetParts
  <1>6. SameSpecs(admissions, admissions') /\ AdmissionCoherent(admissions'[a].status)
    BY <1>1, <1>2, PatchKeepsSpecs DEF Coherent
  <1>7. untouched' /\ admissions[a].exists => AdmissionHeals(a)
    BY <1>1, <1>2 DEF Heals
  <1>8. CASE admissionWork' = [admissionWork EXCEPT ![a] = Idle(AbsentAdmission)]
             /\ admissionQueue' = admissionQueue \cup {a}
    <2>1. admissionWork'[a].stage = "idle"
          /\ \A b \in Admissions \ {a} : admissionWork'[b] = admissionWork[b]
      BY <1>1, <1>8 DEF Typed, Idle
    <2>2. AdmissionPatchOK(a)' /\ AdmissionHeals(a)'
      BY <1>8, <2>1 DEF AdmissionPatchOK, AdmissionHeals
    <2> QED
      BY <1>2, <1>6, <1>8, <2>1, <2>2, AdmissionStep
  <1>9. CASE admissionWork' = [admissionWork EXCEPT ![a] = Idle(AbsentAdmission)]
             /\ admissionQueue' = admissionQueue /\ object.status.retry = r
    <2>1. admissionWork'[a].stage = "idle"
          /\ \A b \in Admissions \ {a} : admissionWork'[b] = admissionWork[b]
      BY <1>1, <1>9 DEF Typed, Idle
    <2>2. AdmissionPatchOK(a)'
      BY <2>1 DEF AdmissionPatchOK
    <2>3. untouched' /\ admissions[a].exists => AdmissionHeals(a)'
      BY <1>2, <1>3, <1>7, <1>9, <2>1 DEF AdmissionHeals
    <2> QED
      BY <1>2, <1>6, <1>9, <2>1, <2>2, <2>3, AdmissionStep
  <1>10. CASE admissionWork' = [admissionWork EXCEPT ![a] =
                                  [stage |-> "patchRetry", object |-> object, new |-> new]]
              /\ admissionQueue' = admissionQueue /\ object.status.retry # r
    <2>1. /\ admissionWork'[a].stage = "patchRetry" /\ admissionWork'[a].object = object
          /\ admissionWork'[a].new = new
          /\ \A b \in Admissions \ {a} : admissionWork'[b] = admissionWork[b]
      <3> HIDE DEF new, object
      <3> QED BY <1>1, <1>10 DEF Typed
    <2>2. AdmissionPatchOK(a)'
      <3> HIDE DEF new, object
      <3> QED BY <1>4, <1>5, <2>1 DEF AdmissionPatchOK
    <2>3. ASSUME untouched', admissions[a].exists PROVE AdmissionHeals(a)'
      <3>1. CASE a \in admissionQueue
        BY <1>10, <3>1 DEF AdmissionHeals
      <3>2. CASE object = admissions[a] /\ SaysList(admissions[a].status, plans, admissions[a].spec, a)
        <4> HIDE DEF new, object, r
        <4> QED BY <1>2, <1>3, <1>5, <1>10, <2>1, <3>2 DEF AdmissionHeals
      <3> QED
        BY <1>2, <1>7, <2>3, <3>1, <3>2 DEF AdmissionHeals
    <2> QED
      BY <1>2, <1>6, <1>10, <2>1, <2>2, <2>3, AdmissionStep
  <1>11. \/ /\ admissionWork' = [admissionWork EXCEPT ![a] =
                 IF object.status.retry = r THEN Idle(AbsentAdmission)
                 ELSE [stage |-> "patchRetry", object |-> object, new |-> new]]
            /\ admissionQueue' = admissionQueue
         \/ /\ admissionWork' = [admissionWork EXCEPT ![a] = Idle(AbsentAdmission)]
            /\ admissionQueue' = admissionQueue \cup {a}
    BY <1>1, EnsureRetryCases
  <1> HIDE DEF object, r, new
  <1> QED
    BY <1>8, <1>9, <1>10, <1>11

-----------------------------------------------------------------------------
(* People, and the operator's own life. *)

\* The edits of ReleasePlans; after one nothing is claimed until the next start.
LEMMA HealChangePlan ==
  ASSUME HealInv, PlansAreNotReplaced, NEW p \in ReleasePlans, ChangePlan(p)
  PROVE  Coherent' /\ Heals'
  <1>1. Typed /\ Coherent
    BY DEF HealInv
  <1>2. /\ untouched' = FALSE /\ (Patient => AtRest)
        /\ UNCHANGED <<planWork, admissions, admissionWork>>
    BY <1>1, ChangePlanCases
  <1>3. PICK o \in PlanObject :
          /\ plans' = [plans EXCEPT ![p] = o]
          /\ \/ "createPlan" \in Edits /\ ~plans[p].exists /\ o.exists /\ o.status = NewPlan
             \/ /\ "editPlan" \in Edits
                /\ plans[p].exists /\ o.exists /\ o.status = plans[p].status
             \/ "deletePlan" \in Edits /\ ~o.exists /\ o.status = NewPlan
    BY <1>1, ChangePlanCases
  <1>4. plans'[p] = o /\ \A q \in ReleasePlans \ {p} : plans'[q] = plans[q]
    BY <1>1, <1>3 DEF Typed
  <1>5. PlanCoherent(NewPlan)
    BY DEF PlanCoherent, NewPlan
  <1>6. PlanCoherent(o.status)
    BY <1>1, <1>3, <1>5 DEF Coherent
  <1>7. Patient => planWork[p].stage = "idle"
    BY <1>2 DEF AtRest
  <1>8. PlanPatchOK(p)'
    <2> SUFFICES ASSUME planWork[p].stage = "patch"
                 PROVE  PlanPatchOK(p)'
      BY <1>2 DEF PlanPatchOK
    <2>1. /\ PlanCoherent(planWork[p].object.status)
          /\ PlanCoherent(planWork[p].new) /\ planWork[p].new.matched # "unset"
          /\ plans[p].exists => plans[p].status = planWork[p].object.status
          /\ "deletePlan" \notin Edits => plans[p].exists
      BY <1>1 DEF Coherent, PlanPatchOK
    <2>2. "createPlan" \notin Edits \/ "deletePlan" \notin Edits
      BY <1>7 DEF PlansAreNotReplaced
    <2> QED
      BY <1>2, <1>3, <1>4, <2>1, <2>2 DEF PlanPatchOK
  <1>9. \A q \in ReleasePlans : PlanCoherent(plans'[q].status) /\ PlanPatchOK(q)'
    BY <1>1, <1>2, <1>4, <1>6, <1>8 DEF Coherent, PlanPatchOK
  <1>10. \A a \in Admissions : AdmissionCoherent(admissions'[a].status) /\ AdmissionPatchOK(a)'
    BY <1>1, <1>2 DEF Coherent, AdmissionPatchOK
  <1> QED
    BY <1>2, <1>9, <1>10 DEF Coherent, Heals

\* The edits of ReleasePlanAdmissions and of the configuration.
LEMMA HealChange ==
  ASSUME HealInv, (\E a \in Admissions : ChangeAdmission(a)) \/ ChangeConfig
  PROVE  Coherent' /\ Heals'
  <1>1. Typed /\ Coherent
    BY DEF HealInv
  <1>2. ASSUME NEW a \in Admissions, ChangeAdmission(a) PROVE Coherent' /\ Heals'
    <2>1. untouched' = FALSE /\ UNCHANGED <<plans, planWork, admissionWork>>
      BY <1>1, <1>2, ChangeAdmissionCases
    <2>2. PICK o \in AdmissionObject : /\ admissions' = [admissions EXCEPT ![a] = o]
                                       /\ o.status = NewAdmission \/ o.status = admissions[a].status
      BY <1>1, <1>2, ChangeAdmissionCases
    <2>3. admissions'[a] = o /\ \A b \in Admissions \ {a} : admissions'[b] = admissions[b]
      BY <1>1, <2>2 DEF Typed
    <2>4. AdmissionCoherent(NewAdmission)
      BY DEF AdmissionCoherent, NewAdmission
    <2>5. \A b \in Admissions : AdmissionCoherent(admissions'[b].status) /\ AdmissionPatchOK(b)'
      BY <1>1, <2>1, <2>2, <2>3, <2>4 DEF Coherent, AdmissionPatchOK
    <2>6. \A q \in ReleasePlans : PlanCoherent(plans'[q].status) /\ PlanPatchOK(q)'
      BY <1>1, <2>1 DEF Coherent, PlanPatchOK
    <2> QED
      BY <2>1, <2>5, <2>6 DEF Coherent, Heals
  <1>3. ASSUME ChangeConfig PROVE Coherent' /\ Heals'
    <2>1. Edit("config") /\ UNCHANGED <<plans, admissions>>
      BY <1>3 DEF ChangeConfig
    <2>2. untouched' = FALSE /\ UNCHANGED <<planWork, admissionWork>>
      BY <1>1, <2>1, EditType
    <2> QED
      BY <1>1, <2>1, <2>2 DEF Coherent, PlanPatchOK, AdmissionPatchOK, Heals
  <1> QED
    BY <1>2, <1>3

\* A start of the operator forgets every reconcile and queues every object.
LEMMA Started ==
  ASSUME \A p \in ReleasePlans : PlanCoherent(plans[p].status),
         \A a \in Admissions : AdmissionCoherent(admissions[a].status),
         DOMAIN plans = ReleasePlans, DOMAIN admissions = Admissions,
         planQueue = Existing(plans), admissionQueue = Existing(admissions),
         planWork = [p \in ReleasePlans |-> Idle(AbsentPlan)],
         admissionWork = [a \in Admissions |-> Idle(AbsentAdmission)]
  PROVE  Coherent /\ Heals
  <1>1. \A p \in ReleasePlans : planWork[p].stage = "idle"
    BY DEF Idle
  <1>2. \A a \in Admissions : admissionWork[a].stage = "idle"
    BY DEF Idle
  <1>3. Coherent
    BY <1>1, <1>2 DEF Coherent, PlanPatchOK, AdmissionPatchOK
  <1>4. Heals
    BY DEF Heals, PlanHeals, AdmissionHeals, Existing
  <1> QED
    BY <1>3, <1>4

\* The initial states.
LEMMA HealInit == Init => HealInv
  <1> SUFFICES ASSUME Init PROVE HealInv
    OBVIOUS
  <1>1. Typed
    BY TypeInit
  <1>2. \A p \in ReleasePlans : plans[p].status = NewPlan
    <2> DEFINE S == {AbsentPlan} \cup
                      {[exists |-> TRUE, spec |-> s, status |-> NewPlan] : s \in PlanSpecs}
    <2>1. \A o \in S : o.status = NewPlan
      BY DEF AbsentPlan, Absent
    <2>2. plans \in [ReleasePlans -> S]
      BY DEF Init
    <2> HIDE DEF S
    <2> QED BY <2>1, <2>2
  <1>3. \A a \in Admissions : admissions[a].status = NewAdmission
    <2> DEFINE S == {AbsentAdmission} \cup
                      {[exists |-> TRUE, spec |-> s, status |-> NewAdmission] : s \in AdmissionSpecs}
    <2>1. \A o \in S : o.status = NewAdmission
      BY DEF AbsentAdmission, Absent
    <2>2. admissions \in [Admissions -> S]
      BY DEF Init
    <2> HIDE DEF S
    <2> QED BY <2>1, <2>2
  <1>4. PlanCoherent(NewPlan) /\ AdmissionCoherent(NewAdmission)
    BY DEF PlanCoherent, NewPlan, AdmissionCoherent, NewAdmission
  <1>5. /\ planQueue = Existing(plans) /\ admissionQueue = Existing(admissions)
        /\ planWork = [p \in ReleasePlans |-> Idle(AbsentPlan)]
        /\ admissionWork = [a \in Admissions |-> Idle(AbsentAdmission)]
    BY DEF Init
  <1>6. Coherent /\ Heals
    BY <1>1, <1>2, <1>3, <1>4, <1>5, Started DEF Typed
  <1> QED
    BY <1>1, <1>6 DEF HealInv

\* A restart.
LEMMA HealRestart ==
  ASSUME HealInv, Restart
  PROVE  Coherent' /\ Heals'
  <1>1. Typed /\ Coherent
    BY DEF HealInv
  <1>2. /\ UNCHANGED <<plans, admissions>>
        /\ planQueue' = Existing(plans) /\ admissionQueue' = Existing(admissions)
        /\ planWork' = [p \in ReleasePlans |-> Idle(AbsentPlan)]
        /\ admissionWork' = [a \in Admissions |-> Idle(AbsentAdmission)]
    BY DEF Restart
  <1>3. \A p \in ReleasePlans : planWork'[p].stage = "idle"
    BY <1>2 DEF Idle
  <1>4. \A a \in Admissions : admissionWork'[a].stage = "idle"
    BY <1>2 DEF Idle
  <1>5. Coherent'
    BY <1>1, <1>2, <1>3, <1>4 DEF Coherent, PlanPatchOK, AdmissionPatchOK
  <1>6. Heals'
    BY <1>1, <1>2 DEF Heals, PlanHeals, AdmissionHeals, Existing, Typed
  <1> QED
    BY <1>5, <1>6

\* Events only fill the queues.
LEMMA HealObserve ==
  ASSUME HealInv, Typed',
         \/ \E p \in ReleasePlans : ObservePlan(p)
         \/ \E a \in Admissions : ObserveAdmission(a)
  PROVE  Coherent' /\ Heals'
  <1>1. /\ UNCHANGED <<plans, planWork, admissions, admissionWork, config, untouched>>
        /\ planQueue \subseteq planQueue' /\ admissionQueue \subseteq admissionQueue'
    BY DEF ObservePlan, ObserveAdmission, PlanEvent, AdmissionEvent
  <1> QED
    BY <1>1, QuietStep

\* Every step keeps the invariant.
LEMMA HealNext ==
  ASSUME HealInv, ~StaleReads, PlansAreNotReplaced, [Next]_vars
  PROVE  HealInv'
  <1>1. Typed /\ Coherent /\ Heals
    BY DEF HealInv
  <1>2. Typed'
    BY <1>1, TypeNext
  <1>3. Coherent' /\ Heals'
    <2>1. CASE UNCHANGED vars
      BY <1>2, <2>1, QuietStep DEF vars
    <2>2. CASE Next
      BY <1>2, <2>2, HealObserve, HealReconcilePlan, HealPatchPlan, HealReconcileAdmission,
         HealPatchAdmission, HealEnsureRetry, HealChangePlan, HealChange, HealRestart
         DEF Next, Controllers
    <2> QED
      BY <2>1, <2>2
  <1> QED
    BY <1>2, <1>3 DEF HealInv

\* While caches are up to date when they are read, and no ReleasePlan is deleted
\* and created again under its reconcile, the invariant holds.
THEOREM HealInvariance ==
  ASSUME ~StaleReads, PlansAreNotReplaced
  PROVE  Spec => []HealInv
  <1>1. Init => HealInv
    BY HealInit
  <1>2. HealInv /\ [Next]_vars => HealInv'
    BY HealNext
  <1> QED
    BY <1>1, <1>2, PTL DEF Spec

\* A start of the operator puts everything right: when nothing has been edited
\* and no read has failed since, and both controllers are at rest, every status
\* says what the loader finds.  Whatever edits, failed calls and lost events
\* came before, and even if two transitions have the same time.
THEOREM RestartsHeal ==
  ASSUME ~StaleReads, PlansAreNotReplaced
  PROVE  Spec => []RestartHeals
  <1>1. HealInv => RestartHeals
    <2> SUFFICES ASSUME Typed, Heals, AtRest, untouched
                 PROVE  /\ \A p \in Existing(plans) : PlanIsRight(p)
                        /\ \A a \in Existing(admissions) : AdmissionIsRight(a)
      BY DEF HealInv, RestartHeals
    <2>1. ASSUME NEW p \in Existing(plans) PROVE PlanIsRight(p)
      <3>1. p \in ReleasePlans /\ plans[p].exists
        BY DEF Existing, Typed
      <3>2. PlanHeals(p) /\ p \notin planQueue /\ planWork[p].stage = "idle"
        BY <3>1 DEF Heals, AtRest
      <3>3. SaysMatch(plans[p].status, plans, admissions, p)
        BY <3>2 DEF PlanHeals
      <3> QED BY <3>3 DEF SaysMatch, PlanIsRight
    <2>2. ASSUME NEW a \in Existing(admissions) PROVE AdmissionIsRight(a)
      <3>1. a \in Admissions /\ admissions[a].exists
        BY DEF Existing, Typed
      <3>2. AdmissionHeals(a) /\ a \notin admissionQueue /\ admissionWork[a].stage = "idle"
        BY <3>1 DEF Heals, AtRest
      <3>3. /\ SaysList(admissions[a].status, plans, admissions[a].spec, a)
            /\ admissions[a].status.retry = RetryOf(config, plans, admissions[a].spec, a)
        BY <3>2 DEF AdmissionHeals
      <3> QED BY <3>3, RetryInfoIs DEF SaysList, AdmissionIsRight
    <2> QED BY <2>1, <2>2
  <1> QED
    BY <1>1, HealInvariance, PTL

\* What MarkUnmatched promises holds as long as caches do not lag: an unmatched
\* ReleasePlan names no ReleasePlanAdmission, at rest or not.
THEOREM UnmatchedPlansNameNobody ==
  ASSUME ~StaleReads, PlansAreNotReplaced
  PROVE  Spec => []UnmatchedNamesNobody
  <1>1. HealInv => UnmatchedNamesNobody
    BY DEF HealInv, Coherent, PlanCoherent, UnmatchedNamesNobody, Existing, Typed
  <1> QED
    BY <1>1, HealInvariance, PTL

-----------------------------------------------------------------------------
(* Edits one at a time.                                                    *)
(*                                                                         *)
(* When people wait until the controllers are at rest, caches do not lag,  *)
(* transitions have different times, no ReleasePlan designates a           *)
(* ReleasePlanAdmission and none changes its application, every edit wakes *)
(* up whoever it concerns.                                                 *)

OneAtATime ==
  /\ Patient /\ ~StaleReads /\ ~CoarseClock
  /\ \A s \in PlanSpecs : s.label = None
  /\ "editPlan" \in Edits => \A s, t \in PlanSpecs : s.group = t.group

\* The ReleasePlanAdmissions that p may be matched to; it is when there is one.
Candidates(P, A, p) ==
  {a \in Admissions : A[a].exists /\ A[a].spec.origin /\ MatchesReleasePlan(A[a].spec, P[p])}

\* a is to list p.
Belongs(P, A, p, a) ==
  P[p].exists /\ P[p].spec.target /\ a \in Candidates(P, A, p)

\* The entry of p.
Entry(P, p) == [plan |-> p, active |-> P[p].spec.auto]

\* The list of a ReleasePlanAdmission.
ListOf(P, A, a) == {Entry(P, p) : p \in {q \in ReleasePlans : Belongs(P, A, q, a)}}

\* An event that has not arrived yet wakes somebody up.
PlanWakes(p) ==
  plansSeen[p] # plans[p] /\
    \/ ~plansSeen[p].exists \/ ~plans[p].exists
    \/ PlanGenerationChanged(plansSeen[p], plans[p]) /\ PlanMatchChanged(plansSeen[p], plans[p])

PlanWakesAdmission(p, a) ==
  plansSeen[p] # plans[p] /\
    IF plansSeen[p].exists /\ plans[p].exists
    THEN /\ PlanMatchChanged(plansSeen[p], plans[p]) \/ PlanRetryChanged(plansSeen[p], plans[p])
         /\ a \in PlanNames(plansSeen[p]) \cup PlanNames(plans[p])
    ELSE a \in PlanNames(plansSeen[p])

AdmissionWakes(a) ==
  admissionsSeen[a] # admissions[a] /\
    \/ ~admissionsSeen[a].exists \/ ~admissions[a].exists
    \/ AdmissionMatchChanged(admissionsSeen[a], admissions[a])

AdmissionWakesPlan(a, p) ==
  admissionsSeen[a] # admissions[a] /\
    IF admissionsSeen[a].exists /\ admissions[a].exists
    THEN /\ AdmissionMatchChanged(admissionsSeen[a], admissions[a])
         /\ p \in AdmissionNames(admissionsSeen[a]) \cup AdmissionNames(admissions[a])
    ELSE p \in AdmissionNames(admissionsSeen[a])

\* A reconcile works on the object as it is, and computes what is right; a
\* failed read makes it compute no match.
PlanWorkFresh(p) ==
  planWork[p].stage = "patch" =>
    /\ planWork[p].object = plans[p] /\ plans[p].exists
    /\ planWork[p].new.admission # None => SaysMatch(planWork[p].new, plans, admissions, p)

AdmissionWorkFresh(a) ==
  LET work == admissionWork[a]
  IN /\ work.stage # "idle" => work.object = admissions[a] /\ admissions[a].exists
     /\ work.stage = "patch" =>
          work.new.plans = ListOf(plans, admissions, a)
     /\ work.stage = "patchRetry" =>
          /\ work.new.retry = RetryOf(config, plans, admissions[a].spec, a)
          /\ work.new.retry # work.object.status.retry

Claim(p) == plans[p].status.admission

\* p is going to be reconciled.
PlanBusy(p) ==
  \/ p \in planQueue \/ planWork[p].stage = "patch" \/ PlanWakes(p)
  \/ \E b \in Admissions : AdmissionWakesPlan(b, p)

\* b is going to list p, which wakes p up.
WillList(b, p) ==
  /\ Belongs(plans, admissions, p, b) /\ p \notin AdmissionNames(admissions[b])
  /\ b \in admissionQueue \/ admissionWork[b].stage = "patch" \/ AdmissionWakes(b)

\* A claim is right, or will be looked at.
ClaimIsRight(p) ==
  \/ SaysMatch(plans[p].status, plans, admissions, p)
  \/ PlanBusy(p)
  \/ \E b \in Admissions : WillList(b, p)

\* A match does not move from one ReleasePlanAdmission to another.
ClaimStays(p) ==
  LET a == GetMatchingReleasePlanAdmission(plans, admissions, p)
  IN a # None => Claim(p) = a

\* The ReleasePlanAdmission a lists p, or is going to be reconciled.
Listed(p, a) ==
  \/ Entry(plans, p) \in admissions[a].status.plans
  \/ a \in admissionQueue \/ admissionWork[a].stage = "patch"
  \/ PlanWakesAdmission(p, a)

\* The same for its retry information.
Heard(p, a) ==
  \/ ~plans[p].spec.tagged
  \/ admissions[a].status.retry # "on"
  \/ a \in admissionQueue \/ admissionWork[a].stage # "idle"
  \/ PlanWakesAdmission(p, a)

ClaimIsHeard(p) ==
  Belongs(plans, admissions, p, Claim(p)) => Listed(p, Claim(p)) /\ Heard(p, Claim(p))

ClaimOK(p) ==
  plans[p].exists /\ Claim(p) # None => ClaimIsRight(p) /\ ClaimStays(p) /\ ClaimIsHeard(p)

\* The invariant.
ClaimsOK ==
  /\ \A p \in ReleasePlans : PlanWorkFresh(p)
  /\ \A a \in Admissions : AdmissionWorkFresh(a)
  /\ \A p \in ReleasePlans : ClaimOK(p)

ClaimInv == HealInv /\ ClaimsOK

\* With one ReleasePlanAdmission that fits there is a match, and with none or
\* several there is not.
LEMMA MatchIsTheCandidate ==
  ASSUME NEW P \in [ReleasePlans -> PlanObject], NEW A \in [Admissions -> AdmissionObject],
         NEW p \in ReleasePlans, P[p].spec.label = None, NEW a, a # None
  PROVE  GetMatchingReleasePlanAdmission(P, A, p) = a
           <=> P[p].spec.target /\ Candidates(P, A, p) = {a}
  <1> DEFINE C == {b \in Existing(A) :
                     /\ A[b].spec.origin
                     /\ IF P[p].spec.label = None THEN MatchesReleasePlan(A[b].spec, P[p])
                        ELSE b = P[p].spec.label}
  <1>1. C = Candidates(P, A, p)
    BY DEF Candidates, Existing
  <1>2. IsFiniteSet(C)
    <2>1. C \in SUBSET Admissions
      BY <1>1 DEF Candidates
    <2> HIDE DEF C
    <2> QED BY <2>1, FS_Subset, ConstantsAssumption
  <1>3. GetMatchingReleasePlanAdmission(P, A, p) =
          IF P[p].spec.target /\ Cardinality(C) = 1 THEN CHOOSE b \in C : TRUE ELSE None
    BY DEF GetMatchingReleasePlanAdmission
  <1> HIDE DEF C
  <1>4. Cardinality(C) = 1 <=> \E x : C = {x}
    BY <1>2, FS_Singleton
  <1>5. \A x : C = {x} => (CHOOSE b \in C : TRUE) = x
    OBVIOUS
  <1> QED
    BY <1>1, <1>3, <1>4, <1>5

\* What a status that names a ReleasePlanAdmission has to say.
LEMMA ClaimSays ==
  ASSUME NEW P \in [ReleasePlans -> PlanObject], NEW A \in [Admissions -> AdmissionObject],
         NEW p \in ReleasePlans, P[p].spec.label = None, NEW st \in PlanStatus,
         st.admission # None
  PROVE  SaysMatch(st, P, A, p) <=>
           /\ P[p].spec.target /\ Candidates(P, A, p) = {st.admission}
           /\ st.matched = "True" /\ st.active = A[st.admission].spec.open
  <1> DEFINE a == st.admission
             g == GetMatchingReleasePlanAdmission(P, A, p)
  <1>1. g = a <=> P[p].spec.target /\ Candidates(P, A, p) = {a}
    BY MatchIsTheCandidate
  <1>2. st.active \in BOOLEAN /\ a \in Admissions
    BY StatusParts
  <1>3. A[a].spec.open \in BOOLEAN
    BY <1>2, ObjectParts, SpecParts
  <1>4. SaysMatch(st, P, A, p) <=>
          a = g /\ st.matched = (IF g = None THEN "False" ELSE "True")
                /\ st.active = (g # None /\ A[g].spec.open)
    BY DEF SaysMatch
  <1> HIDE DEF g
  <1> QED
    BY <1>1, <1>2, <1>3, <1>4

\* Without labels a ReleasePlanAdmission lists the ReleasePlans that belong to it.
LEMMA ListIs ==
  ASSUME NEW P \in [ReleasePlans -> PlanObject], NEW A \in [Admissions -> AdmissionObject],
         NEW a \in Admissions, A[a].exists, \A p \in ReleasePlans : P[p].spec.label = None
  PROVE  /\ GetMatchingReleasePlans(P, A[a].spec, a) = {p \in ReleasePlans : Belongs(P, A, p, a)}
         /\ {[plan |-> p, active |-> P[p].spec.auto] : p \in GetMatchingReleasePlans(P, A[a].spec, a)}
              = ListOf(P, A, a)
  <1> DEFINE spec == A[a].spec
             T == {p \in Existing(P) : spec.origin /\ P[p].spec.target}
             L == {p \in T : P[p].spec.label = a}
             B == {p \in ReleasePlans : Belongs(P, A, p, a)}
  <1>1. a # None
    BY ConstantsAssumption
  <1>2. T \subseteq ReleasePlans /\ L = {}
    BY <1>1 DEF Existing
  <1>3. GetMatchingReleasePlans(P, spec, a) =
          {p \in T : MatchesReleasePlan(spec, P[p]) /\ P[p].spec.label \in {a, None}}
    BY <1>2 DEF GetMatchingReleasePlans
  <1>4. GetMatchingReleasePlans(P, spec, a) = B
    BY <1>2, <1>3 DEF Existing, Belongs, Candidates
  <1>5. ListOf(P, A, a) = {[plan |-> p, active |-> P[p].spec.auto] : p \in B}
    BY DEF ListOf, Entry
  <1> HIDE DEF B
  <1> QED
    BY <1>4, <1>5 DEF B

\* A list and the names in it.
LEMMA ListedNames ==
  ASSUME NEW P, NEW A, NEW p \in ReleasePlans, NEW a, NEW object
  PROVE  /\ Belongs(P, A, p, a) => Entry(P, p) \in ListOf(P, A, a)
         /\ Entry(P, p) \in object.status.plans => p \in AdmissionNames(object)
  <1>1. Belongs(P, A, p, a) => Entry(P, p) \in ListOf(P, A, a)
    BY DEF ListOf
  <1>2. Entry(P, p).plan = p
    BY DEF Entry
  <1>3. Entry(P, p) \in object.status.plans => p \in AdmissionNames(object)
    BY <1>2 DEF AdmissionNames
  <1> QED
    BY <1>1, <1>3

\* A tag of a ReleasePlan that belongs to a ReleasePlanAdmission disables retries.
LEMMA TagTurnsOff ==
  ASSUME NEW P \in [ReleasePlans -> PlanObject], NEW A \in [Admissions -> AdmissionObject],
         NEW a \in Admissions, A[a].exists, \A p \in ReleasePlans : P[p].spec.label = None,
         NEW p \in ReleasePlans, Belongs(P, A, p, a), P[p].spec.tagged, NEW c
  PROVE  RetryOf(c, P, A[a].spec, a) = "off"
  BY ListIs DEF RetryOf

\* None of this depends on the status of objects.
LEMMA SameBelongs ==
  ASSUME NEW P \in [ReleasePlans -> PlanObject], NEW Q \in [ReleasePlans -> PlanObject],
         NEW A \in [Admissions -> AdmissionObject], NEW B \in [Admissions -> AdmissionObject],
         SameSpecs(P, Q), SameSpecs(A, B)
  PROVE  /\ \A p \in ReleasePlans : Entry(P, p) = Entry(Q, p)
         /\ \A p \in ReleasePlans : \A a : Belongs(P, A, p, a) <=> Belongs(Q, B, p, a)
         /\ \A a : ListOf(P, A, a) = ListOf(Q, B, a)
         /\ \A p \in ReleasePlans :
              GetMatchingReleasePlanAdmission(P, A, p) = GetMatchingReleasePlanAdmission(Q, B, p)
         /\ \A p \in ReleasePlans : \A st : SaysMatch(st, P, A, p) <=> SaysMatch(st, Q, B, p)
         /\ \A spec, a, c : RetryOf(c, P, spec, a) = RetryOf(c, Q, spec, a)
  <1>1. /\ \A p \in ReleasePlans : P[p].exists = Q[p].exists /\ P[p].spec = Q[p].spec
        /\ \A a \in Admissions : A[a].exists = B[a].exists /\ A[a].spec = B[a].spec
    BY DEF SameSpecs
  <1>2. \A p \in ReleasePlans : Entry(P, p) = Entry(Q, p)
    BY <1>1 DEF Entry
  <1>3. \A p \in ReleasePlans : \A a : Belongs(P, A, p, a) <=> Belongs(Q, B, p, a)
    BY <1>1 DEF Belongs, Candidates, MatchesReleasePlan
  <1>4. \A a : ListOf(P, A, a) = ListOf(Q, B, a)
    <2> TAKE a
    <2>1. {q \in ReleasePlans : Belongs(P, A, q, a)} = {q \in ReleasePlans : Belongs(Q, B, q, a)}
      BY <1>3
    <2> DEFINE S == {q \in ReleasePlans : Belongs(Q, B, q, a)}
    <2>2. ListOf(P, A, a) = {Entry(P, p) : p \in S} /\ ListOf(Q, B, a) = {Entry(Q, p) : p \in S}
      BY <2>1 DEF ListOf
    <2>3. S \subseteq ReleasePlans
      OBVIOUS
    <2> HIDE DEF S
    <2> QED
      BY <1>2, <2>2, <2>3
  <1>5. \A p \in ReleasePlans :
          GetMatchingReleasePlanAdmission(P, A, p) = GetMatchingReleasePlanAdmission(Q, B, p)
    BY SameMatch
  <1>6. \A p \in ReleasePlans : \A st : SaysMatch(st, P, A, p) <=> SaysMatch(st, Q, B, p)
    BY SameMatchSaid
  <1>7. \A spec, a, c : RetryOf(c, P, spec, a) = RetryOf(c, Q, spec, a)
    <2> TAKE spec, a
    <2> DEFINE S == GetMatchingReleasePlans(P, spec, a)
    <2>1. S = GetMatchingReleasePlans(Q, spec, a) /\ S \subseteq DOMAIN P
      BY SameList
    <2>2. \A p \in S : P[p].spec = Q[p].spec
      BY <1>1, <2>1
    <2> QED
      BY <2>1, <2>2 DEF RetryOf
  <1> QED
    BY <1>2, <1>3, <1>4, <1>5, <1>6, <1>7

\* With edits one at a time no ReleasePlan is labelled.
LEMMA NoLabels ==
  ASSUME OneAtATime, NEW P \in [ReleasePlans -> PlanObject]
  PROVE  \A p \in ReleasePlans : P[p].spec.label = None
  BY ObjectParts DEF OneAtATime

\* What a reconcile has computed stays right as long as specifications do.
LEMMA WorkStays ==
  ASSUME Typed, Typed', SameSpecs(plans, plans'), SameSpecs(admissions, admissions')
  PROVE  /\ \A p \in ReleasePlans :
              /\ PlanWorkFresh(p) /\ plans'[p] = plans[p]
              /\ planWork'[p] = planWork[p] \/ planWork'[p].stage = "idle"
              => PlanWorkFresh(p)'
         /\ \A a \in Admissions :
              /\ AdmissionWorkFresh(a) /\ admissions'[a] = admissions[a] /\ config' = config
              /\ admissionWork'[a] = admissionWork[a] \/ admissionWork'[a].stage = "idle"
              => AdmissionWorkFresh(a)'
  <1>1. /\ plans \in [ReleasePlans -> PlanObject] /\ plans' \in [ReleasePlans -> PlanObject]
        /\ admissions \in [Admissions -> AdmissionObject]
        /\ admissions' \in [Admissions -> AdmissionObject]
    BY DEF Typed
  <1>2. /\ \A p \in ReleasePlans : \A st :
             SaysMatch(st, plans, admissions, p) <=> SaysMatch(st, plans', admissions', p)
        /\ \A a : ListOf(plans, admissions, a) = ListOf(plans', admissions', a)
        /\ \A spec, a, c : RetryOf(c, plans, spec, a) = RetryOf(c, plans', spec, a)
    BY <1>1, SameBelongs
  <1>3. ASSUME NEW p \in ReleasePlans, PlanWorkFresh(p), plans'[p] = plans[p],
               planWork'[p] = planWork[p] \/ planWork'[p].stage = "idle"
        PROVE  PlanWorkFresh(p)'
    BY <1>2, <1>3 DEF PlanWorkFresh
  <1>4. ASSUME NEW a \in Admissions, AdmissionWorkFresh(a), admissions'[a] = admissions[a],
               config' = config,
               admissionWork'[a] = admissionWork[a] \/ admissionWork'[a].stage = "idle"
        PROVE  AdmissionWorkFresh(a)'
    BY <1>2, <1>4 DEF AdmissionWorkFresh
  <1> QED
    BY <1>3, <1>4

\* A claim is kept by a step that leaves the ReleasePlan and all specifications
\* alone, when nobody is forgotten who was going to be reconciled.
LEMMA ClaimKept ==
  ASSUME Typed, Typed', SameSpecs(plans, plans'), SameSpecs(admissions, admissions'),
         NEW p \in ReleasePlans, ClaimOK(p), plans'[p] = plans[p],
         Claim(p) # None /\ plans[p].exists =>
           /\ PlanBusy(p) => PlanBusy(p)' \/ SaysMatch(plans[p].status, plans, admissions, p)
           /\ \A b \in Admissions : WillList(b, p) => WillList(b, p)' \/ PlanBusy(p)'
           /\ Belongs(plans, admissions, p, Claim(p)) =>
                /\ Listed(p, Claim(p)) => Listed(p, Claim(p))'
                /\ Heard(p, Claim(p)) => Heard(p, Claim(p))'
  PROVE  ClaimOK(p)'
  <1>1. /\ plans \in [ReleasePlans -> PlanObject] /\ plans' \in [ReleasePlans -> PlanObject]
        /\ admissions \in [Admissions -> AdmissionObject]
        /\ admissions' \in [Admissions -> AdmissionObject]
    BY DEF Typed
  <1>2. /\ \A st : SaysMatch(st, plans, admissions, p) <=> SaysMatch(st, plans', admissions', p)
        /\ \A a : Belongs(plans, admissions, p, a) <=> Belongs(plans', admissions', p, a)
        /\ GetMatchingReleasePlanAdmission(plans, admissions, p)
             = GetMatchingReleasePlanAdmission(plans', admissions', p)
    BY <1>1, SameBelongs
  <1>3. Claim(p)' = Claim(p)
    BY DEF Claim
  <1> SUFFICES ASSUME plans[p].exists, Claim(p) # None
               PROVE  ClaimIsRight(p)' /\ ClaimStays(p)' /\ ClaimIsHeard(p)'
    BY <1>3 DEF ClaimOK
  <1>4. ClaimIsRight(p) /\ ClaimStays(p) /\ ClaimIsHeard(p)
    BY DEF ClaimOK
  <1>5. ClaimIsRight(p)'
    BY <1>2, <1>4 DEF ClaimIsRight
  <1>6. ClaimStays(p)'
    BY <1>2, <1>3, <1>4 DEF ClaimStays
  <1>7. ClaimIsHeard(p)'
    <2>1. ASSUME Belongs(plans, admissions, p, Claim(p))
          PROVE  Listed(p, Claim(p))' /\ Heard(p, Claim(p))'
      BY <1>4, <2>1 DEF ClaimIsHeard
    <2> QED BY <1>2, <1>3, <2>1 DEF ClaimIsHeard
  <1> QED
    BY <1>5, <1>6, <1>7

\* A reconcile is due that will look at the claim, at the list, at the retry
\* information.
PlanTodo(p) == p \in planQueue \/ planWork[p].stage = "patch"
ListTodo(a) == a \in admissionQueue \/ admissionWork[a].stage = "patch"
RetryTodo(a) == a \in admissionQueue \/ admissionWork[a].stage # "idle"

\* No tag is overlooked.
TagOK(p, a) == ~plans[p].spec.tagged \/ admissions[a].status.retry # "on"

\* A claim is kept by a step of the controllers that writes no object, when
\* work that is left undone was not needed.
LEMMA ClaimQuiet ==
  ASSUME Typed, Typed', UNCHANGED <<plans, plansSeen, admissions, admissionsSeen>>,
         NEW p \in ReleasePlans, ClaimOK(p),
         plans[p].exists /\ Claim(p) # None /\ PlanTodo(p) =>
           PlanTodo(p)' \/ SaysMatch(plans[p].status, plans, admissions, p),
         \A b \in Admissions : Belongs(plans, admissions, p, b) =>
           /\ ListTodo(b) => ListTodo(b)' \/ Entry(plans, p) \in admissions[b].status.plans
           /\ RetryTodo(b) => RetryTodo(b)' \/ TagOK(p, b)
  PROVE  ClaimOK(p)'
  <1>1. SameSpecs(plans, plans') /\ SameSpecs(admissions, admissions')
    BY PatchKeepsSpecs
  <1>2. /\ PlanWakes(p) <=> PlanWakes(p)'
        /\ \A b : AdmissionWakes(b) <=> AdmissionWakes(b)'
        /\ \A b : AdmissionWakesPlan(b, p) <=> AdmissionWakesPlan(b, p)'
        /\ \A b : PlanWakesAdmission(p, b) <=> PlanWakesAdmission(p, b)'
        /\ \A b : Belongs(plans, admissions, p, b) <=> Belongs(plans', admissions', p, b)
        /\ Entry(plans', p) = Entry(plans, p)
        /\ \A b : TagOK(p, b) <=> TagOK(p, b)'
    BY DEF PlanWakes, AdmissionWakes, AdmissionWakesPlan, PlanWakesAdmission, TagOK
  <1>3. /\ PlanBusy(p) <=> \/ PlanTodo(p) \/ PlanWakes(p)
                           \/ \E b \in Admissions : AdmissionWakesPlan(b, p)
        /\ PlanBusy(p)' <=> \/ PlanTodo(p)' \/ PlanWakes(p)'
                            \/ \E b \in Admissions : AdmissionWakesPlan(b, p)'
    BY DEF PlanBusy, PlanTodo
  <1>4. plans[p].exists /\ Claim(p) # None /\ PlanBusy(p) =>
          PlanBusy(p)' \/ SaysMatch(plans[p].status, plans, admissions, p)
    BY <1>2, <1>3
  <1>5. ASSUME NEW b \in Admissions, WillList(b, p) PROVE WillList(b, p)'
    <2>1. Belongs(plans, admissions, p, b) /\ p \notin AdmissionNames(admissions[b])
          /\ (ListTodo(b) \/ AdmissionWakes(b))
      BY <1>5 DEF WillList, ListTodo
    <2>2. Entry(plans, p) \notin admissions[b].status.plans
      BY <2>1, ListedNames
    <2>3. ListTodo(b)' \/ AdmissionWakes(b)'
      BY <1>2, <2>1, <2>2
    <2> QED BY <1>2, <2>1, <2>3 DEF WillList, ListTodo
  <1>6. ASSUME NEW a, Belongs(plans, admissions, p, a)
        PROVE  (Listed(p, a) => Listed(p, a)') /\ (Heard(p, a) => Heard(p, a)')
    <2>1. a \in Admissions
      BY <1>6 DEF Belongs, Candidates
    <2>2. /\ Listed(p, a) <=> \/ Entry(plans, p) \in admissions[a].status.plans
                              \/ ListTodo(a) \/ PlanWakesAdmission(p, a)
          /\ Listed(p, a)' <=> \/ Entry(plans', p) \in admissions'[a].status.plans
                               \/ ListTodo(a)' \/ PlanWakesAdmission(p, a)'
      BY DEF Listed, ListTodo
    <2>3. /\ Heard(p, a) <=> TagOK(p, a) \/ RetryTodo(a) \/ PlanWakesAdmission(p, a)
          /\ Heard(p, a)' <=> TagOK(p, a)' \/ RetryTodo(a)' \/ PlanWakesAdmission(p, a)'
      BY DEF Heard, RetryTodo, TagOK
    <2>4. /\ ListTodo(a) => ListTodo(a)' \/ Entry(plans, p) \in admissions[a].status.plans
          /\ RetryTodo(a) => RetryTodo(a)' \/ TagOK(p, a)
      BY <1>6, <2>1
    <2> QED BY <1>2, <2>2, <2>3, <2>4
  <1>7. Claim(p)' = Claim(p)
    BY DEF Claim
  <1>8. /\ \A b \in Admissions : WillList(b, p) => WillList(b, p)'
        /\ Belongs(plans, admissions, p, Claim(p)) =>
             /\ Listed(p, Claim(p)) => Listed(p, Claim(p))'
             /\ Heard(p, Claim(p)) => Heard(p, Claim(p))'
    BY <1>5, <1>6, <1>7
  <1> QED
    BY <1>1, <1>4, <1>7, <1>8, ClaimKept

-----------------------------------------------------------------------------
(* The steps of the controllers. *)

\* An event that arrives puts those it wakes up into the queues.
LEMMA EventsWake ==
  ASSUME Typed,
         \/ \E p \in ReleasePlans : ObservePlan(p)
         \/ \E a \in Admissions : ObserveAdmission(a)
  PROVE  /\ \A q \in ReleasePlans : PlanWakes(q) => PlanWakes(q)' \/ q \in planQueue'
         /\ \A q \in ReleasePlans : \A a : PlanWakesAdmission(q, a) =>
              PlanWakesAdmission(q, a)' \/ a \in admissionQueue'
         /\ \A b \in Admissions : AdmissionWakes(b) => AdmissionWakes(b)' \/ b \in admissionQueue'
         /\ \A b \in Admissions : \A q : AdmissionWakesPlan(b, q) =>
              AdmissionWakesPlan(b, q)' \/ q \in planQueue'
  <1>1. ASSUME NEW p \in ReleasePlans, ObservePlan(p)
        PROVE  /\ UNCHANGED <<plans, admissions, admissionsSeen>>
               /\ \A q \in ReleasePlans \ {p} : plansSeen'[q] = plansSeen[q]
               /\ PlanWakes(p) => p \in planQueue'
               /\ \A a : PlanWakesAdmission(p, a) => a \in admissionQueue'
    <2>1. UNCHANGED <<plans, admissions, admissionsSeen>> /\ PlanEvent(p, plansSeen[p], plans[p])
          /\ plansSeen' = [plansSeen EXCEPT ![p] = plans[p]]
      BY <1>1 DEF ObservePlan
    <2>2. PlanWakes(p) => p \in planQueue'
      BY <2>1 DEF PlanWakes, PlanEvent
    <2>3. \A a : PlanWakesAdmission(p, a) => a \in admissionQueue'
      BY <2>1 DEF PlanWakesAdmission, PlanEvent
    <2>4. \A q \in ReleasePlans \ {p} : plansSeen'[q] = plansSeen[q]
      BY <2>1 DEF Typed
    <2> QED BY <2>1, <2>2, <2>3, <2>4
  <1>2. ASSUME NEW a \in Admissions, ObserveAdmission(a)
        PROVE  /\ UNCHANGED <<plans, plansSeen, admissions>>
               /\ \A b \in Admissions \ {a} : admissionsSeen'[b] = admissionsSeen[b]
               /\ AdmissionWakes(a) => a \in admissionQueue'
               /\ \A q : AdmissionWakesPlan(a, q) => q \in planQueue'
    <2>1. UNCHANGED <<plans, plansSeen, admissions>>
          /\ AdmissionEvent(a, admissionsSeen[a], admissions[a])
          /\ admissionsSeen' = [admissionsSeen EXCEPT ![a] = admissions[a]]
      BY <1>2 DEF ObserveAdmission
    <2>2. AdmissionWakes(a) => a \in admissionQueue'
      BY <2>1 DEF AdmissionWakes, AdmissionEvent
    <2>3. \A q : AdmissionWakesPlan(a, q) => q \in planQueue'
      BY <2>1 DEF AdmissionWakesPlan, AdmissionEvent
    <2>4. \A b \in Admissions \ {a} : admissionsSeen'[b] = admissionsSeen[b]
      BY <2>1 DEF Typed
    <2> QED BY <2>1, <2>2, <2>3, <2>4
  <1>3. ASSUME NEW p \in ReleasePlans, ObservePlan(p)
        PROVE  /\ \A q \in ReleasePlans \ {p} : PlanWakes(q) => PlanWakes(q)'
               /\ \A q \in ReleasePlans \ {p} : \A a :
                    PlanWakesAdmission(q, a) => PlanWakesAdmission(q, a)'
               /\ \A b : AdmissionWakes(b) => AdmissionWakes(b)'
               /\ \A b, q : AdmissionWakesPlan(b, q) => AdmissionWakesPlan(b, q)'
    BY <1>1, <1>3 DEF PlanWakes, PlanWakesAdmission, AdmissionWakes, AdmissionWakesPlan
  <1>4. ASSUME NEW a \in Admissions, ObserveAdmission(a)
        PROVE  /\ \A b \in Admissions \ {a} : AdmissionWakes(b) => AdmissionWakes(b)'
               /\ \A b \in Admissions \ {a} : \A q :
                    AdmissionWakesPlan(b, q) => AdmissionWakesPlan(b, q)'
               /\ \A q : PlanWakes(q) => PlanWakes(q)'
               /\ \A q, b : PlanWakesAdmission(q, b) => PlanWakesAdmission(q, b)'
    BY <1>2, <1>4 DEF PlanWakes, PlanWakesAdmission, AdmissionWakes, AdmissionWakesPlan
  <1>5. CASE \E p \in ReleasePlans : ObservePlan(p)
    BY <1>1, <1>3, <1>5
  <1>6. CASE \E a \in Admissions : ObserveAdmission(a)
    BY <1>2, <1>4, <1>6
  <1> QED
    BY <1>5, <1>6

\* So no claim is forgotten.
LEMMA ClaimObserve ==
  ASSUME ClaimInv, Typed',
         \/ \E p \in ReleasePlans : ObservePlan(p)
         \/ \E a \in Admissions : ObserveAdmission(a)
  PROVE  ClaimsOK'
  <1>1. Typed /\ ClaimsOK
    BY DEF ClaimInv, HealInv
  <1>2. /\ UNCHANGED <<plans, planWork, admissions, admissionWork, config>>
        /\ planQueue \subseteq planQueue' /\ admissionQueue \subseteq admissionQueue'
    BY DEF ObservePlan, ObserveAdmission, PlanEvent, AdmissionEvent
  <1>3. SameSpecs(plans, plans') /\ SameSpecs(admissions, admissions')
    BY <1>2, PatchKeepsSpecs
  <1>4. /\ \A q \in ReleasePlans : PlanWakes(q) => PlanWakes(q)' \/ q \in planQueue'
        /\ \A q \in ReleasePlans : \A a : PlanWakesAdmission(q, a) =>
             PlanWakesAdmission(q, a)' \/ a \in admissionQueue'
        /\ \A b \in Admissions : AdmissionWakes(b) => AdmissionWakes(b)' \/ b \in admissionQueue'
        /\ \A b \in Admissions : \A q : AdmissionWakesPlan(b, q) =>
             AdmissionWakesPlan(b, q)' \/ q \in planQueue'
    BY <1>1, EventsWake
  <1>5. ASSUME NEW p \in ReleasePlans PROVE ClaimOK(p)'
    <2>1. ClaimOK(p)
      BY <1>1 DEF ClaimsOK
    <2>2. PlanBusy(p) => PlanBusy(p)'
      BY <1>2, <1>4 DEF PlanBusy
    <2>3. \A b \in Admissions : WillList(b, p) => WillList(b, p)'
      BY <1>2, <1>4 DEF WillList
    <2>4. \A a : Listed(p, a) => Listed(p, a)'
      BY <1>2, <1>4 DEF Listed
    <2>5. \A a : Heard(p, a) => Heard(p, a)'
      BY <1>2, <1>4 DEF Heard
    <2>6. Claim(p)' = Claim(p) /\ plans'[p] = plans[p]
      BY <1>2 DEF Claim
    <2>7. /\ Listed(p, Claim(p)) => Listed(p, Claim(p))'
          /\ Heard(p, Claim(p)) => Heard(p, Claim(p))'
      BY <2>4, <2>5, <2>6
    <2> QED BY <1>1, <1>3, <2>1, <2>2, <2>3, <2>6, <2>7, ClaimKept
  <1>6. (\A p \in ReleasePlans : PlanWorkFresh(p)') /\ (\A a \in Admissions : AdmissionWorkFresh(a)')
    BY <1>1, <1>2, <1>3, WorkStays DEF ClaimsOK
  <1> QED
    BY <1>5, <1>6 DEF ClaimsOK

\* A reconcile of a ReleasePlan takes back a claim that is not right.
LEMMA ClaimReconcilePlan ==
  ASSUME ClaimInv, Typed', OneAtATime, NEW p \in ReleasePlans, ReconcilePlan(p)
  PROVE  ClaimsOK'
  <1>1. Typed /\ Coherent /\ ClaimsOK
    BY DEF ClaimInv, HealInv
  <1>2. /\ plansSeen = plans /\ admissionsSeen = admissions
        /\ p \in planQueue /\ planWork[p].stage = "idle"
        /\ UNCHANGED <<plans, plansSeen, admissions, admissionsSeen, config, admissionQueue,
                       admissionWork>>
    BY <1>1, ReconcilePlanCases DEF Ready, Synced, OneAtATime
  <1>3. SameSpecs(plans, plans') /\ SameSpecs(admissions, admissions')
    BY <1>2, PatchKeepsSpecs
  <1>4. \A q \in ReleasePlans \ {p} :
          planWork'[q] = planWork[q] /\ (q \in planQueue => q \in planQueue')
    BY <1>1, ReconcilePlanCases DEF Typed
  <1>5. /\ PlanWorkFresh(p)'
        /\ plans[p].exists /\ Claim(p) # None =>
             PlanTodo(p)' \/ SaysMatch(plans[p].status, plans, admissions, p)
    <2>1. CASE Fault /\ UNCHANGED <<planQueue, planWork, untouched>>
      BY <1>2, <2>1 DEF PlanWorkFresh, PlanTodo
    <2>2. ASSUME NEW a,
                 a = GetMatchingReleasePlanAdmission(plans, admissions, p) \/ a = None,
                 planWork' =
                   IF ~plans[p].exists \/ IsSameMatch(plans[p].status, PlanResult(p, a))
                   THEN planWork
                   ELSE [planWork EXCEPT ![p] =
                           [stage |-> "patch", object |-> plans[p], new |-> PlanResult(p, a)]]
          PROVE  /\ PlanWorkFresh(p)'
                 /\ plans[p].exists /\ Claim(p) # None =>
                      PlanTodo(p)' \/ SaysMatch(plans[p].status, plans, admissions, p)
      <3> DEFINE st == plans[p].status
                 n == PlanResult(p, a)
      <3>1. st \in PlanStatus /\ PlanCoherent(st) /\ Claim(p) = st.admission
        BY <1>1, ObjectParts DEF Typed, Coherent, Claim
      <3>2. n = MarkMatched(st, admissions, a) /\ admissions \in [Admissions -> AdmissionObject]
        BY <1>1, <1>2 DEF PlanResult, Typed
      <3>3. a # None => a \in Admissions
        BY <2>2, <3>2, FoundAdmission
      <3>4. a = GetMatchingReleasePlanAdmission(plans, admissions, p) =>
              /\ SaysMatch(n, plans, admissions, p)
              /\ IsSameMatch(st, n) => SaysMatch(st, plans, admissions, p)
        <4> HIDE DEF st, n
        <4> QED BY <2>2, <3>1, <3>2, MarkMatchedSays
      <3>5. a = None => n.admission = None
        <4>1. /\ a = None /\ st.matched = "False" => n = st
              /\ a = None /\ st.matched # "False" => n.admission = None
          <5> HIDE DEF st, n
          <5> QED BY <3>1, <3>2, <3>3, MarkMatchedParts
        <4> QED BY <3>1, <4>1 DEF PlanCoherent
      <3>6. n.admission # None => SaysMatch(n, plans, admissions, p)
        BY <2>2, <3>4, <3>5
      <3>7. IsSameMatch(st, n) /\ st.admission # None => SaysMatch(st, plans, admissions, p)
        BY <2>2, <3>4, <3>5 DEF IsSameMatch
      <3>8. CASE ~plans[p].exists \/ IsSameMatch(st, n)
        <4>1. planWork' = planWork
          BY <2>2, <3>8
        <4> QED BY <1>2, <3>1, <3>7, <3>8, <4>1 DEF PlanWorkFresh
      <3>9. CASE plans[p].exists /\ ~IsSameMatch(st, n)
        <4>1. planWork' = [planWork EXCEPT ![p] =
                             [stage |-> "patch", object |-> plans[p], new |-> n]]
          BY <2>2, <3>9
        <4> HIDE DEF n, st
        <4>2. planWork'[p].stage = "patch" /\ planWork'[p].object = plans[p] /\ planWork'[p].new = n
          BY <1>1, <4>1 DEF Typed
        <4> QED BY <1>2, <3>6, <3>9, <4>2 DEF PlanWorkFresh, PlanTodo
      <3> QED BY <3>8, <3>9
    <2> QED
      BY <1>1, <1>2, <2>1, <2>2, ReconcilePlanCases
  <1>6. ASSUME NEW q \in ReleasePlans PROVE ClaimOK(q)'
    <2>1. ClaimOK(q)
      BY <1>1 DEF ClaimsOK
    <2>2. plans[q].exists /\ Claim(q) # None /\ PlanTodo(q) =>
            PlanTodo(q)' \/ SaysMatch(plans[q].status, plans, admissions, q)
      <3>1. CASE q = p
        BY <1>5, <3>1
      <3>2. CASE q # p
        BY <1>4, <3>2 DEF PlanTodo
      <3> QED BY <3>1, <3>2
    <2>3. \A b : (ListTodo(b) => ListTodo(b)') /\ (RetryTodo(b) => RetryTodo(b)')
      BY <1>2 DEF ListTodo, RetryTodo
    <2> QED BY <1>1, <1>2, <2>1, <2>2, <2>3, ClaimQuiet
  <1>7. \A q \in ReleasePlans : PlanWorkFresh(q)'
    BY <1>1, <1>2, <1>3, <1>4, <1>5, WorkStays DEF ClaimsOK
  <1>8. \A a \in Admissions : AdmissionWorkFresh(a)'
    BY <1>1, <1>2, <1>3, WorkStays DEF ClaimsOK
  <1> QED
    BY <1>6, <1>7, <1>8 DEF ClaimsOK

\* A transition gets a new time.
LEMMA StampFlips ==
  ASSUME OneAtATime, NEW old \in 0 .. 1, NEW stamp \in NewStamp(old)
  PROVE  stamp # old
  BY DEF OneAtATime, NewStamp

\* A patch that makes a claim wakes the ReleasePlanAdmission up.
LEMMA ClaimIsTold ==
  ASSUME OneAtATime, NEW old \in PlanObject, NEW new \in PlanStatus, PlanCoherent(old.status),
         old.status.admission = None, new.admission # None, new.matched = "True",
         NEW stamp \in NewStamp(old.status.stamp), NEW o \in PlanObject,
         o.status = PatchedPlan(old.status, old.status, new, stamp)
  PROVE  PlanMatchChanged(old, o) /\ new.admission \in PlanNames(o)
  <1>1. old.status \in PlanStatus /\ old.status.matched # "True"
    BY ObjectParts, StatusParts DEF PlanCoherent, Conditions
  <1>2. stamp # old.status.stamp
    BY <1>1, StatusParts, StampFlips
  <1>3. o.status.stamp = stamp /\ o.status.admission = new.admission
    BY <1>1 DEF PatchedPlan
  <1> QED
    BY <1>2, <1>3 DEF PlanMatchChanged, hasConditionChanged, PlanNames

\* The patch of a ReleasePlan: a match does not move, so one that is new has a
\* new transition time.
LEMMA ClaimPatchPlan ==
  ASSUME ClaimInv, Typed', OneAtATime, NEW p \in ReleasePlans, PatchPlan(p)
  PROVE  ClaimsOK'
  <1>1. Typed /\ Coherent /\ ClaimsOK
    BY DEF ClaimInv, HealInv
  <1>2. /\ planWork[p].stage = "patch"
        /\ planWork' = [planWork EXCEPT ![p] = Idle(AbsentPlan)]
        /\ UNCHANGED <<plansSeen, admissions, admissionsSeen, config, admissionQueue, admissionWork>>
    BY <1>1, PatchPlanCases
  <1>3. planWork'[p].stage = "idle" /\ \A q \in ReleasePlans \ {p} : planWork'[q] = planWork[q]
    BY <1>1, <1>2 DEF Typed, Idle
  <1>4. /\ planWork[p].object = plans[p] /\ plans[p].exists
        /\ planWork[p].new.admission # None => SaysMatch(planWork[p].new, plans, admissions, p)
    BY <1>1, <1>2 DEF ClaimsOK, PlanWorkFresh
  <1>5. CASE planQueue' = planQueue \cup {p} /\ plans' = plans
    <2>1. SameSpecs(plans, plans') /\ SameSpecs(admissions, admissions')
      BY <1>2, <1>5, PatchKeepsSpecs
    <2>2. ASSUME NEW q \in ReleasePlans PROVE ClaimOK(q)'
      <3>1. ClaimOK(q)
        BY <1>1 DEF ClaimsOK
      <3>2. PlanTodo(q) => PlanTodo(q)'
        BY <1>3, <1>5 DEF PlanTodo
      <3>3. \A b : (ListTodo(b) => ListTodo(b)') /\ (RetryTodo(b) => RetryTodo(b)')
        BY <1>2 DEF ListTodo, RetryTodo
      <3> QED BY <1>1, <1>2, <1>5, <3>1, <3>2, <3>3, ClaimQuiet
    <2>3. (\A q \in ReleasePlans : PlanWorkFresh(q)') /\ (\A a \in Admissions : AdmissionWorkFresh(a)')
      BY <1>1, <1>2, <1>3, <1>5, <2>1, WorkStays DEF ClaimsOK
    <2> QED BY <2>2, <2>3 DEF ClaimsOK
  <1>6. ASSUME Ready, planQueue' = planQueue, NEW stamp \in NewStamp(plans[p].status.stamp),
               NEW st \in PlanStatus,
               st = PatchedPlan(plans[p].status, planWork[p].object.status, planWork[p].new, stamp),
               plans' = [plans EXCEPT ![p] = [plans[p] EXCEPT !.status = st]]
        PROVE  ClaimsOK'
    <2> DEFINE new == planWork[p].new
               a == new.admission
    <2>1. plansSeen = plans /\ admissionsSeen = admissions
      BY <1>6 DEF Ready, Synced, OneAtATime
    <2>2. new \in PlanStatus /\ plans[p] \in PlanObject /\ plans[p].status \in PlanStatus
          /\ PlanCoherent(plans[p].status)
      BY <1>1, ObjectParts DEF Typed, Coherent
    <2>3. st = PatchedPlan(plans[p].status, plans[p].status, new, stamp)
      BY <1>4, <1>6
    <2>4. st.matched = new.matched /\ st.admission = new.admission /\ st.active = new.active
      BY <2>2, <2>3, PatchedPlanIs
    <2>5. SameSpecs(plans, plans') /\ SameSpecs(admissions, admissions')
      BY <1>1, <1>2, <1>6, PatchKeepsSpecs DEF Typed
    <2>6. LET o == [plans[p] EXCEPT !.status = st]
          IN o \in PlanObject /\ o.status = st /\ o.exists = plans[p].exists /\ o.spec = plans[p].spec
      BY <2>2, ChangedObject
    <2>7. /\ plans'[p] \in PlanObject /\ plans'[p].status = st /\ plans'[p].exists
          /\ plans'[p].spec = plans[p].spec
          /\ \A q \in ReleasePlans \ {p} : plans'[q] = plans[q]
      BY <1>1, <1>4, <1>6, <2>6 DEF Typed
    <2>8. /\ plans \in [ReleasePlans -> PlanObject] /\ plans' \in [ReleasePlans -> PlanObject]
          /\ admissions \in [Admissions -> AdmissionObject]
          /\ admissions' \in [Admissions -> AdmissionObject]
      BY <1>1 DEF Typed
    <2>9. /\ \A q \in ReleasePlans : \A s :
               SaysMatch(s, plans, admissions, q) <=> SaysMatch(s, plans', admissions', q)
          /\ \A q \in ReleasePlans : \A b :
               Belongs(plans, admissions, q, b) <=> Belongs(plans', admissions', q, b)
          /\ \A q \in ReleasePlans : Entry(plans, q) = Entry(plans', q)
          /\ \A q \in ReleasePlans :
               GetMatchingReleasePlanAdmission(plans, admissions, q)
                 = GetMatchingReleasePlanAdmission(plans', admissions', q)
      BY <2>5, <2>8, SameBelongs
    <2>10. ClaimOK(p)'
      <3> SUFFICES ASSUME Claim(p)' # None
                   PROVE  ClaimIsRight(p)' /\ ClaimStays(p)' /\ ClaimIsHeard(p)'
        BY DEF ClaimOK
      <3>1. Claim(p)' = a /\ a # None /\ Claim(p) = plans[p].status.admission
        BY <2>4, <2>7 DEF Claim
      <3>2. SaysMatch(new, plans, admissions, p)
        BY <1>4, <3>1
      <3>3. a = GetMatchingReleasePlanAdmission(plans, admissions, p) /\ new.matched = "True"
        BY <3>1, <3>2 DEF SaysMatch
      <3>4. SaysMatch(st, plans', admissions', p)
        <4>1. SaysMatch(st, plans, admissions, p)
          BY <2>4, <3>2 DEF SaysMatch
        <4> QED BY <2>9, <4>1
      <3>5. ClaimIsRight(p)'
        BY <2>7, <3>4 DEF ClaimIsRight
      <3>6. ClaimStays(p)'
        BY <2>9, <3>1, <3>3 DEF ClaimStays
      <3>7. ASSUME NEW b, b = a, Belongs(plans', admissions', p, b)
            PROVE  Listed(p, b)' /\ Heard(p, b)'
        <4>1. CASE Claim(p) = None
          <5> HIDE DEF new
          <5>1. PlanMatchChanged(plans[p], plans'[p]) /\ b \in PlanNames(plans'[p])
            <6>1. plans'[p].status = PatchedPlan(plans[p].status, plans[p].status, new, stamp)
              BY <2>3, <2>7
            <6>2. plans[p].status.admission = None /\ new.admission # None /\ new.matched = "True"
              BY <3>1, <3>3, <4>1
            <6>3. PlanMatchChanged(plans[p], plans'[p]) /\ new.admission \in PlanNames(plans'[p])
              BY <1>6, <2>2, <2>7, <6>1, <6>2, ClaimIsTold
            <6> QED BY <3>7, <6>3
          <5>2. plansSeen'[p] = plans[p]
            BY <1>2, <2>1
          <5>3. plans[p] # plans'[p]
            BY <2>7, <3>1, <4>1, <2>4
          <5>4. PlanWakesAdmission(p, b)'
            BY <1>4, <2>7, <5>1, <5>2, <5>3 DEF PlanWakesAdmission
          <5> QED BY <5>4 DEF Listed, Heard
        <4>2. CASE Claim(p) # None
          <5>1. ClaimStays(p) /\ ClaimIsHeard(p)
            BY <1>1, <1>4, <4>2 DEF ClaimsOK, ClaimOK
          <5>2. Claim(p) = b
            BY <3>1, <3>3, <3>7, <5>1 DEF ClaimStays
          <5>3. Listed(p, b) /\ Heard(p, b)
            BY <2>9, <3>7, <5>1, <5>2 DEF ClaimIsHeard
          <5>4. ~PlanWakesAdmission(p, b)
            BY <2>1 DEF PlanWakesAdmission
          <5> QED BY <1>2, <2>7, <2>9, <5>3, <5>4 DEF Listed, Heard
        <4> QED BY <4>1, <4>2
      <3>8. ClaimIsHeard(p)'
        BY <3>1, <3>7 DEF ClaimIsHeard
      <3> QED BY <3>5, <3>6, <3>8
    <2>11. ASSUME NEW q \in ReleasePlans, q # p PROVE ClaimOK(q)'
      <3>1. ClaimOK(q) /\ plans'[q] = plans[q] /\ planWork'[q] = planWork[q]
        BY <1>1, <1>3, <2>7, <2>11 DEF ClaimsOK
      <3>2. PlanBusy(q) => PlanBusy(q)'
        BY <1>2, <1>6, <3>1 DEF PlanBusy, PlanWakes, AdmissionWakesPlan
      <3>3. \A b : WillList(b, q) => WillList(b, q)'
        BY <1>2, <2>9 DEF WillList, AdmissionWakes
      <3>4. \A b : (Listed(q, b) => Listed(q, b)') /\ (Heard(q, b) => Heard(q, b)')
        BY <1>2, <2>9, <3>1 DEF Listed, Heard, PlanWakesAdmission
      <3>5. Claim(q)' = Claim(q)
        BY <3>1 DEF Claim
      <3>6. /\ Listed(q, Claim(q)) => Listed(q, Claim(q))'
            /\ Heard(q, Claim(q)) => Heard(q, Claim(q))'
        BY <3>4, <3>5
      <3> QED BY <1>1, <2>5, <3>1, <3>2, <3>3, <3>6, ClaimKept
    <2>12. PlanWorkFresh(p)'
      BY <1>3 DEF PlanWorkFresh
    <2>13. \A q \in ReleasePlans \ {p} : PlanWorkFresh(q)'
      BY <1>1, <1>3, <2>5, <2>7, WorkStays DEF ClaimsOK
    <2>14. \A b \in Admissions : AdmissionWorkFresh(b)'
      BY <1>1, <1>2, <2>5, WorkStays DEF ClaimsOK
    <2> QED BY <2>10, <2>11, <2>12, <2>13, <2>14 DEF ClaimsOK
  <1> QED
    BY <1>1, <1>5, <1>6, PatchPlanCases

\* A reconcile of a ReleasePlanAdmission: a list that needs no patch has everybody.
LEMMA ClaimReconcileAdmission ==
  ASSUME ClaimInv, Typed', OneAtATime, NEW a \in Admissions, ReconcileAdmission(a)
  PROVE  ClaimsOK'
  <1>1. Typed /\ ClaimsOK
    BY DEF ClaimInv, HealInv
  <1>2. /\ plansSeen = plans /\ admissionsSeen = admissions
        /\ a \in admissionQueue /\ admissionWork[a].stage = "idle"
        /\ UNCHANGED <<plans, plansSeen, admissions, admissionsSeen, config, planQueue, planWork>>
    BY <1>1, ReconcileAdmissionCases DEF Ready, Synced, OneAtATime
  <1>3. SameSpecs(plans, plans') /\ SameSpecs(admissions, admissions')
    BY <1>2, PatchKeepsSpecs
  <1>4. \A b \in Admissions \ {a} :
          admissionWork'[b] = admissionWork[b] /\ (b \in admissionQueue => b \in admissionQueue')
    BY <1>1, ReconcileAdmissionCases DEF Typed
  <1> DEFINE base == admissions[a].status
             new == AdmissionResult(a)
  <1>5. admissions[a].exists => new.plans = ListOf(plans, admissions, a)
    <2> SUFFICES ASSUME admissions[a].exists PROVE new.plans = ListOf(plans, admissions, a)
      OBVIOUS
    <2> DEFINE S == GetMatchingReleasePlans(plans, admissions[a].spec, a)
    <2>1. plans \in [ReleasePlans -> PlanObject] /\ admissions \in [Admissions -> AdmissionObject]
      BY <1>1 DEF Typed
    <2>2. \A p \in ReleasePlans : plans[p].spec.label = None
      BY <2>1, NoLabels
    <2>3. {[plan |-> p, active |-> plans[p].spec.auto] : p \in S} = ListOf(plans, admissions, a)
      BY <2>1, <2>2, ListIs
    <2>4. S \in SUBSET ReleasePlans /\ base \in AdmissionStatus
      BY <2>1, FoundPlans, ObjectParts
    <2>5. new = SetMatchingInfo(base, plans, S)
      BY <1>2 DEF AdmissionResult
    <2> HIDE DEF S, base, new
    <2>6. new.plans = {[plan |-> p, active |-> plans[p].spec.auto] : p \in S}
      BY <2>1, <2>4, <2>5, SetMatchingInfoParts
    <2> QED BY <2>3, <2>6
  <1>6. /\ AdmissionWorkFresh(a)'
        /\ ListTodo(a)' \/ ~admissions[a].exists \/ base.plans = ListOf(plans, admissions, a)
        /\ RetryTodo(a)' \/ ~admissions[a].exists
    <2>1. CASE Fault /\ UNCHANGED <<admissionQueue, admissionWork>>
      BY <1>2, <2>1 DEF AdmissionWorkFresh, ListTodo, RetryTodo
    <2>2. CASE admissionWork' =
                 IF ~admissions[a].exists
                 THEN admissionWork
                 ELSE [admissionWork EXCEPT ![a] =
                         [stage |-> IF IsSameList(base, new) THEN "retry" ELSE "patch",
                          object |-> admissions[a],
                          new |-> IF IsSameList(base, new) THEN base ELSE new]]
      <3>1. CASE ~admissions[a].exists
        BY <1>2, <2>2, <3>1 DEF AdmissionWorkFresh
      <3>2. CASE admissions[a].exists
        <4> HIDE DEF base, new
        <4>1. /\ admissionWork'[a].stage = (IF IsSameList(base, new) THEN "retry" ELSE "patch")
              /\ admissionWork'[a].object = admissions[a]
              /\ admissionWork'[a].new = (IF IsSameList(base, new) THEN base ELSE new)
          BY <1>1, <2>2, <3>2 DEF Typed
        <4>2. CASE IsSameList(base, new)
          <5>1. base.plans = new.plans
            BY <4>2 DEF IsSameList
          <5> QED BY <1>2, <1>5, <3>2, <4>1, <4>2, <5>1 DEF AdmissionWorkFresh, RetryTodo
        <4>3. CASE ~IsSameList(base, new)
          BY <1>2, <1>5, <3>2, <4>1, <4>3 DEF AdmissionWorkFresh, RetryTodo, ListTodo
        <4> QED BY <4>2, <4>3
      <3> QED BY <3>1, <3>2
    <2> QED
      BY <1>1, <1>2, <2>1, <2>2, ReconcileAdmissionCases
  <1>7. ASSUME NEW q \in ReleasePlans PROVE ClaimOK(q)'
    <2>1. ClaimOK(q)
      BY <1>1 DEF ClaimsOK
    <2>2. PlanTodo(q) => PlanTodo(q)'
      BY <1>2 DEF PlanTodo
    <2>3. ASSUME NEW b \in Admissions, Belongs(plans, admissions, q, b)
          PROVE  /\ ListTodo(b) => ListTodo(b)' \/ Entry(plans, q) \in admissions[b].status.plans
                 /\ RetryTodo(b) => RetryTodo(b)'
      <3>1. CASE b = a
        <4>1. admissions[a].exists
          BY <2>3, <3>1 DEF Belongs, Candidates
        <4>2. Entry(plans, q) \in ListOf(plans, admissions, a)
          BY <2>3, <3>1, ListedNames
        <4> QED BY <1>6, <3>1, <4>1, <4>2
      <3>2. CASE b # a
        BY <1>4, <3>2 DEF ListTodo, RetryTodo
      <3> QED BY <3>1, <3>2
    <2> QED BY <1>1, <1>2, <2>1, <2>2, <2>3, ClaimQuiet
  <1>8. \A q \in ReleasePlans : PlanWorkFresh(q)'
    BY <1>1, <1>2, <1>3, WorkStays DEF ClaimsOK
  <1>9. \A b \in Admissions : AdmissionWorkFresh(b)'
    BY <1>1, <1>2, <1>3, <1>4, <1>6, WorkStays DEF ClaimsOK
  <1> QED
    BY <1>7, <1>8, <1>9 DEF ClaimsOK

\* The tags of the ReleasePlans that belong to a ReleasePlanAdmission are seen.
LEMMA ClaimEnsureRetry ==
  ASSUME ClaimInv, Typed', OneAtATime, NEW a \in Admissions, EnsureRetryInformationIsSet(a)
  PROVE  ClaimsOK'
  <1>1. Typed /\ ClaimsOK
    BY DEF ClaimInv, HealInv
  <1> DEFINE object == admissionWork[a].object
             r == RetryResult(a)
             new == [object.status EXCEPT !.retry = r]
  <1>2. /\ plansSeen = plans /\ admissionWork[a].stage = "retry"
        /\ UNCHANGED <<plans, plansSeen, admissions, admissionsSeen, config, planQueue, planWork>>
    BY <1>1, EnsureRetryCases DEF Ready, Synced, OneAtATime
  <1>3. SameSpecs(plans, plans') /\ SameSpecs(admissions, admissions')
    BY <1>2, PatchKeepsSpecs
  <1>4. object = admissions[a] /\ admissions[a].exists
    BY <1>1, <1>2 DEF ClaimsOK, AdmissionWorkFresh
  <1>5. r \in {"on", "off"} /\ r = RetryOf(config, plans, admissions[a].spec, a)
    BY <1>2, <1>4, RetryInfoType, RetryInfoIs DEF RetryResult
  <1>6. object.status \in AdmissionStatus /\ new.retry = r
    BY <1>1, <1>5, ObjectParts, RetrySetParts DEF Typed
  <1>7. \/ /\ admissionWork' = [admissionWork EXCEPT ![a] =
                IF object.status.retry = r THEN Idle(AbsentAdmission)
                ELSE [stage |-> "patchRetry", object |-> object, new |-> new]]
           /\ admissionQueue' = admissionQueue
        \/ /\ admissionWork' = [admissionWork EXCEPT ![a] = Idle(AbsentAdmission)]
           /\ admissionQueue' = admissionQueue \cup {a}
    BY <1>1, EnsureRetryCases
  <1> HIDE DEF object, new, r
  <1>8. /\ \A b \in Admissions \ {a} : admissionWork'[b] = admissionWork[b]
        /\ admissionQueue \subseteq admissionQueue'
    BY <1>1, <1>7 DEF Typed
  <1>9. \/ admissionWork'[a].stage = "idle" /\ (a \in admissionQueue' \/ object.status.retry = r)
        \/ /\ admissionWork'[a].stage = "patchRetry" /\ admissionWork'[a].object = object
           /\ admissionWork'[a].new = new /\ object.status.retry # r
    BY <1>1, <1>7 DEF Typed, Idle
  <1>10. AdmissionWorkFresh(a)'
    BY <1>2, <1>4, <1>5, <1>6, <1>9 DEF AdmissionWorkFresh
  <1>11. ASSUME NEW q \in ReleasePlans, Belongs(plans, admissions, q, a)
         PROVE  RetryTodo(a)' \/ TagOK(q, a)
    <2>1. CASE admissionWork'[a].stage # "idle" \/ a \in admissionQueue'
      BY <2>1 DEF RetryTodo
    <2>2. CASE object.status.retry = r
      <3>1. plans \in [ReleasePlans -> PlanObject] /\ admissions \in [Admissions -> AdmissionObject]
        BY <1>1 DEF Typed
      <3>2. \A p \in ReleasePlans : plans[p].spec.label = None
        BY <3>1, NoLabels
      <3>3. plans[q].spec.tagged => r = "off"
        BY <1>4, <1>5, <1>11, <3>1, <3>2, TagTurnsOff
      <3> QED BY <1>4, <2>2, <3>3 DEF TagOK
    <2> QED BY <1>9, <2>1, <2>2
  <1>12. ASSUME NEW q \in ReleasePlans PROVE ClaimOK(q)'
    <2>1. ClaimOK(q)
      BY <1>1 DEF ClaimsOK
    <2>2. PlanTodo(q) => PlanTodo(q)'
      BY <1>2 DEF PlanTodo
    <2>3. ASSUME NEW b \in Admissions, Belongs(plans, admissions, q, b)
          PROVE  (ListTodo(b) => ListTodo(b)') /\ (RetryTodo(b) => RetryTodo(b)' \/ TagOK(q, b))
      <3>1. CASE b = a
        BY <1>2, <1>8, <1>11, <2>3, <3>1 DEF ListTodo
      <3>2. CASE b # a
        BY <1>8, <3>2 DEF ListTodo, RetryTodo
      <3> QED BY <3>1, <3>2
    <2> QED BY <1>1, <1>2, <2>1, <2>2, <2>3, ClaimQuiet
  <1>13. \A q \in ReleasePlans : PlanWorkFresh(q)'
    BY <1>1, <1>2, <1>3, WorkStays DEF ClaimsOK
  <1>14. \A b \in Admissions : AdmissionWorkFresh(b)'
    BY <1>1, <1>2, <1>3, <1>8, <1>10, WorkStays DEF ClaimsOK
  <1> QED
    BY <1>12, <1>13, <1>14 DEF ClaimsOK

\* A new list has a new transition time.
LEMMA ListIsTold ==
  ASSUME OneAtATime, NEW st \in AdmissionStatus, NEW base \in AdmissionStatus,
         NEW new \in AdmissionStatus, NEW stamp \in NewStamp(st.stamp), AdmissionCoherent(base),
         AdmissionCoherent(new), new.matched # "unset", ~IsSameList(base, new),
         NEW n, n = PatchedList(st, base, new, stamp)
  PROVE  n.stamp # st.stamp
  <1>1. new.plans # base.plans \/ base.matched = "unset"
    BY DEF IsSameList
  <1>2. ~(base.matched = "False" /\ new.matched = "False")
    BY <1>1 DEF AdmissionCoherent
  <1>3. n.stamp = stamp
    BY <1>2 DEF PatchedAdmission, PatchedList
  <1>4. stamp # st.stamp
    BY StatusParts, StampFlips
  <1> QED
    BY <1>3, <1>4

\* The second patch has no transition.
LEMMA RetryIsNotTold ==
  ASSUME NEW st, NEW base, NEW new, NEW stamp, NEW n, n = PatchedRetry(st, base, new, stamp)
  PROVE  n.stamp = st.stamp
  BY DEF PatchedAdmission, PatchedRetry

\* The patch of a list, which wakes up the ReleasePlans in it; and the patch of
\* the retry information.
LEMMA ClaimPatchAdmission ==
  ASSUME ClaimInv, Typed', OneAtATime, NEW a \in Admissions, PatchAdmission(a)
  PROVE  ClaimsOK'
  <1>1. Typed /\ Coherent /\ ClaimsOK
    BY DEF ClaimInv, HealInv
  <1> DEFINE work == admissionWork[a]
  <1>2. /\ work.stage \in {"patch", "patchRetry"}
        /\ UNCHANGED <<plans, plansSeen, admissionsSeen, config, planQueue, planWork>>
    BY <1>1, PatchAdmissionCases
  <1>3. /\ work.object = admissions[a] /\ admissions[a].exists
        /\ work.stage = "patch" => work.new.plans = ListOf(plans, admissions, a)
        /\ work.stage = "patchRetry" =>
             /\ work.new.retry = RetryOf(config, plans, admissions[a].spec, a)
             /\ work.new.retry # work.object.status.retry
    BY <1>1, <1>2 DEF ClaimsOK, AdmissionWorkFresh
  <1>4. CASE admissionWork' = [admissionWork EXCEPT ![a] = Idle(AbsentAdmission)]
             /\ admissionQueue' = admissionQueue \cup {a} /\ admissions' = admissions
    <2>1. SameSpecs(plans, plans') /\ SameSpecs(admissions, admissions')
      BY <1>2, <1>4, PatchKeepsSpecs
    <2>2. admissionWork'[a].stage = "idle"
          /\ \A b \in Admissions \ {a} : admissionWork'[b] = admissionWork[b]
      BY <1>1, <1>4 DEF Typed, Idle
    <2>3. ASSUME NEW q \in ReleasePlans PROVE ClaimOK(q)'
      <3>1. ClaimOK(q)
        BY <1>1 DEF ClaimsOK
      <3>2. PlanTodo(q) => PlanTodo(q)'
        BY <1>2 DEF PlanTodo
      <3>3. \A b \in Admissions : (ListTodo(b) => ListTodo(b)') /\ (RetryTodo(b) => RetryTodo(b)')
        BY <1>4, <2>2 DEF ListTodo, RetryTodo
      <3> QED BY <1>1, <1>2, <1>4, <3>1, <3>2, <3>3, ClaimQuiet
    <2>4. (\A q \in ReleasePlans : PlanWorkFresh(q)') /\ (\A b \in Admissions : AdmissionWorkFresh(b)')
      BY <1>1, <1>2, <1>4, <2>1, <2>2, WorkStays DEF ClaimsOK
    <2> QED BY <2>3, <2>4 DEF ClaimsOK
  <1>5. ASSUME Ready, admissionQueue' = admissionQueue,
               NEW stamp \in NewStamp(admissions[a].status.stamp), NEW st \in AdmissionStatus, NEW object,
               st = WrittenStatus(a, stamp),
               object = [admissions[a] EXCEPT !.status = st],
               admissions' = [admissions EXCEPT ![a] = object],
               admissionWork' = [admissionWork EXCEPT ![a] =
                 IF work.stage = "patch"
                 THEN [stage |-> "retry", object |-> object, new |-> object.status]
                 ELSE Idle(AbsentAdmission)]
        PROVE  ClaimsOK'
    <2> DEFINE status == admissions[a].status
               new == work.new
    <2>1. plansSeen = plans /\ admissionsSeen = admissions
      BY <1>5 DEF Ready, Synced, OneAtATime
    <2>2. status \in AdmissionStatus /\ new \in AdmissionStatus /\ AdmissionPatchOK(a)
      BY <1>1, ObjectParts DEF Typed, Coherent
    <2>3. object.status = st /\ object.spec = admissions[a].spec /\ object.exists
      <3>1. admissions[a] \in AdmissionObject
        BY <1>1 DEF Typed
      <3>2. object = [admissions[a] EXCEPT !.status = st]
        BY <1>5
      <3> QED BY <1>3, <3>1, <3>2, ChangedObject
    <2>4. SameSpecs(plans, plans') /\ SameSpecs(admissions, admissions')
      BY <1>1, <1>2, <1>5, PatchKeepsSpecs DEF Typed
    <2>5. admissions'[a] = object /\ \A b \in Admissions \ {a} :
            admissions'[b] = admissions[b] /\ admissionWork'[b] = admissionWork[b]
      BY <1>1, <1>5 DEF Typed
    <2>6. /\ plans \in [ReleasePlans -> PlanObject] /\ plans' \in [ReleasePlans -> PlanObject]
          /\ admissions \in [Admissions -> AdmissionObject]
          /\ admissions' \in [Admissions -> AdmissionObject]
      BY <1>1 DEF Typed
    <2>7. /\ \A q \in ReleasePlans : \A b :
               Belongs(plans, admissions, q, b) <=> Belongs(plans', admissions', q, b)
          /\ \A q \in ReleasePlans : Entry(plans, q) = Entry(plans', q)
      BY <2>4, <2>6, SameBelongs
    <2>8. /\ \A q : ~PlanWakes(q) /\ \A b : ~PlanWakesAdmission(q, b)
          /\ \A b : ~AdmissionWakes(b) /\ \A q : ~AdmissionWakesPlan(b, q)
      BY <2>1 DEF PlanWakes, PlanWakesAdmission, AdmissionWakes, AdmissionWakesPlan
    <2>9. \A q : PlanBusy(q) => PlanBusy(q)'
      BY <1>2, <2>8 DEF PlanBusy
    <2>10. ASSUME NEW q, NEW b \in Admissions, b # a, WillList(b, q), q \in ReleasePlans
           PROVE  WillList(b, q)'
      BY <1>5, <2>5, <2>7, <2>8, <2>10 DEF WillList
    <2>11. ASSUME NEW q \in ReleasePlans, NEW b \in Admissions, b # a
           PROVE  (Listed(q, b) => Listed(q, b)') /\ (Heard(q, b) => Heard(q, b)')
      BY <1>2, <1>5, <2>5, <2>7, <2>8, <2>11 DEF Listed, Heard
    <2>12. /\ AdmissionWorkFresh(a)'
           /\ \A q \in ReleasePlans : WillList(a, q) => WillList(a, q)' \/ PlanBusy(q)'
           /\ \A q \in ReleasePlans : Belongs(plans, admissions, q, a) =>
                (Listed(q, a) => Listed(q, a)') /\ Heard(q, a)'
      <3>1. CASE work.stage = "patch"
        <4>1. /\ AdmissionCoherent(status) /\ AdmissionCoherent(new) /\ new.matched # "unset"
              /\ ~IsSameList(status, new)
          BY <1>3, <2>2, <3>1 DEF AdmissionPatchOK
        <4>2. st = PatchedList(status, status, new, stamp)
          BY <1>3, <1>5, <3>1 DEF PatchedList, WrittenStatus
        <4>3. st.plans = new.plans /\ st.stamp # status.stamp
          <5> HIDE DEF status, new
          <5>1. stamp \in NewStamp(status.stamp)
            BY <1>5 DEF status
          <5> QED BY <2>2, <4>1, <4>2, <5>1, PatchedListIs, ListIsTold
        <4>4. admissionWork'[a].stage = "retry" /\ admissionWork'[a].object = object
          BY <1>1, <1>5, <3>1 DEF Typed
        <4>5. AdmissionWorkFresh(a)'
          BY <2>3, <2>5, <4>4 DEF AdmissionWorkFresh
        <4>6. ASSUME NEW q \in ReleasePlans, Belongs(plans, admissions, q, a)
              PROVE  PlanBusy(q)' /\ Listed(q, a)' /\ Heard(q, a)'
          <5>1. Entry(plans, q) \in object.status.plans
            BY <1>3, <2>3, <3>1, <4>3, <4>6, ListedNames
          <5>2. q \in AdmissionNames(object)
            BY <5>1, ListedNames
          <5>3. AdmissionMatchChanged(admissions[a], object) /\ admissions[a] # object
            BY <2>3, <4>3 DEF AdmissionMatchChanged, hasConditionChanged
          <5>4. admissionsSeen'[a] = admissions[a]
            BY <1>2, <2>1
          <5>5. AdmissionWakesPlan(a, q)'
            BY <1>3, <2>3, <2>5, <5>2, <5>3, <5>4 DEF AdmissionWakesPlan
          <5>6. PlanBusy(q)'
            BY <5>5 DEF PlanBusy
          <5>7. Listed(q, a)'
            BY <2>5, <2>7, <5>1 DEF Listed
          <5>8. Heard(q, a)'
            BY <4>4 DEF Heard
          <5> QED BY <5>6, <5>7, <5>8
        <4>7. \A q \in ReleasePlans : WillList(a, q) => PlanBusy(q)'
          BY <4>6 DEF WillList
        <4> QED BY <4>5, <4>6, <4>7
      <3>2. CASE work.stage = "patchRetry"
        <4>1. status.matched # "unset" /\ new.plans = status.plans /\ new.retry # status.retry
              /\ new.retry = RetryOf(config, plans, admissions[a].spec, a)
          BY <1>3, <2>2, <3>2 DEF AdmissionPatchOK
        <4>2. st = PatchedRetry(status, status, new, stamp)
          BY <1>3, <1>5, <3>2 DEF PatchedRetry, WrittenStatus
        <4>3. st.plans = status.plans /\ st.retry = new.retry
          <5> HIDE DEF status, new
          <5> QED BY <2>2, <4>1, <4>2, PatchedRetryIs
        <4>4. admissionWork'[a].stage = "idle"
          BY <1>1, <1>5, <3>2 DEF Typed, Idle
        <4>5. AdmissionWorkFresh(a)'
          BY <4>4 DEF AdmissionWorkFresh
        <4>6. AdmissionNames(admissions'[a]) = AdmissionNames(admissions[a])
          BY <2>3, <2>5, <4>3 DEF AdmissionNames
        <4>7. ASSUME NEW q \in ReleasePlans, WillList(a, q) PROVE WillList(a, q)'
          BY <1>5, <2>7, <2>8, <3>2, <4>6, <4>7 DEF WillList
        <4>8. ASSUME NEW q \in ReleasePlans, Belongs(plans, admissions, q, a), Listed(q, a)
              PROVE  Listed(q, a)'
          BY <1>5, <2>3, <2>5, <2>7, <2>8, <3>2, <4>3, <4>8 DEF Listed
        <4>9. ASSUME NEW q \in ReleasePlans, Belongs(plans, admissions, q, a)
              PROVE  Heard(q, a)'
          <5>1. \A p \in ReleasePlans : plans[p].spec.label = None
            BY <2>6, NoLabels
          <5>2. plans[q].spec.tagged => new.retry = "off"
            BY <1>3, <2>6, <4>1, <4>9, <5>1, TagTurnsOff
          <5> QED BY <1>2, <2>3, <2>5, <4>3, <5>2 DEF Heard
        <4> QED BY <4>5, <4>7, <4>8, <4>9
      <3> QED BY <1>2, <3>1, <3>2
    <2>13. ASSUME NEW q \in ReleasePlans PROVE ClaimOK(q)'
      <3>1. ClaimOK(q) /\ plans'[q] = plans[q]
        BY <1>1, <1>2 DEF ClaimsOK
      <3>2. \A b \in Admissions : WillList(b, q) => WillList(b, q)' \/ PlanBusy(q)'
        BY <2>10, <2>12
      <3>3. ASSUME NEW b, Belongs(plans, admissions, q, b)
            PROVE  (Listed(q, b) => Listed(q, b)') /\ (Heard(q, b) => Heard(q, b)')
        <4>1. b \in Admissions
          BY <3>3 DEF Belongs, Candidates
        <4> QED BY <2>11, <2>12, <3>3, <4>1
      <3>4. Claim(q)' = Claim(q)
        BY <3>1 DEF Claim
      <3>5. Belongs(plans, admissions, q, Claim(q)) =>
              /\ Listed(q, Claim(q)) => Listed(q, Claim(q))'
              /\ Heard(q, Claim(q)) => Heard(q, Claim(q))'
        BY <3>3, <3>4
      <3> QED BY <1>1, <2>4, <2>9, <3>1, <3>2, <3>5, ClaimKept
    <2>14. \A q \in ReleasePlans : PlanWorkFresh(q)'
      BY <1>1, <1>2, <2>4, WorkStays DEF ClaimsOK
    <2>15. \A b \in Admissions : AdmissionWorkFresh(b)'
      BY <1>1, <1>2, <2>4, <2>5, <2>12, WorkStays DEF ClaimsOK
    <2> QED BY <2>13, <2>14, <2>15 DEF ClaimsOK
  <1>6. ASSUME Ready, admissionQueue' = admissionQueue,
               \E stamp \in NewStamp(admissions[a].status.stamp) :
                 LET st == WrittenStatus(a, stamp)
                     object == [admissions[a] EXCEPT !.status = st]
                 IN /\ st \in AdmissionStatus
                    /\ admissions' = [admissions EXCEPT ![a] = object]
                    /\ admissionWork' = [admissionWork EXCEPT ![a] =
                         IF work.stage = "patch"
                         THEN [stage |-> "retry", object |-> object, new |-> object.status]
                         ELSE Idle(AbsentAdmission)]
        PROVE  ClaimsOK'
    <2>1. PICK stamp \in NewStamp(admissions[a].status.stamp) :
            /\ WrittenStatus(a, stamp) \in AdmissionStatus
            /\ admissions' = [admissions EXCEPT ![a] =
                 [admissions[a] EXCEPT !.status = WrittenStatus(a, stamp)]]
            /\ admissionWork' = [admissionWork EXCEPT ![a] =
                 IF work.stage = "patch"
                 THEN [stage |-> "retry",
                       object |-> [admissions[a] EXCEPT !.status = WrittenStatus(a, stamp)],
                       new |-> [admissions[a] EXCEPT !.status = WrittenStatus(a, stamp)].status]
                 ELSE Idle(AbsentAdmission)]
      BY <1>6
    <2> DEFINE st == WrittenStatus(a, stamp)
               object == [admissions[a] EXCEPT !.status = st]
    <2>2. st \in AdmissionStatus
          /\ st = WrittenStatus(a, stamp)
          /\ object = [admissions[a] EXCEPT !.status = st]
          /\ admissions' = [admissions EXCEPT ![a] = object]
          /\ admissionWork' = [admissionWork EXCEPT ![a] =
               IF work.stage = "patch"
               THEN [stage |-> "retry", object |-> object, new |-> object.status]
               ELSE Idle(AbsentAdmission)]
      BY <2>1
    <2> HIDE DEF st, object, work
    <2> QED BY <1>5, <1>6, <2>2
  <1> QED
    BY <1>1, <1>4, <1>6, PatchAdmissionCases

-----------------------------------------------------------------------------
(* People, and the operator's own life. *)

\* At rest a claim is right, and the other side knows of it.
LEMMA ClaimAtRest ==
  ASSUME Typed, ClaimsOK, OneAtATime, AtRest, NEW p \in ReleasePlans,
         plans[p].exists, Claim(p) # None
  PROVE  LET a == Claim(p)
         IN /\ SaysMatch(plans[p].status, plans, admissions, p)
            /\ a \in Admissions /\ admissions[a].exists
            /\ plans[p].spec.target /\ Candidates(plans, admissions, p) = {a}
            /\ plans[p].status.matched = "True"
            /\ plans[p].status.active = admissions[a].spec.open
            /\ Entry(plans, p) \in admissions[a].status.plans
            /\ TagOK(p, a)
  <1> DEFINE a == Claim(p)
  <1>1. ClaimIsRight(p) /\ ClaimIsHeard(p)
    BY DEF ClaimsOK, ClaimOK
  <1>2. /\ \A q : ~PlanWakes(q) /\ \A b : ~PlanWakesAdmission(q, b)
        /\ \A b : ~AdmissionWakes(b) /\ \A q : ~AdmissionWakesPlan(b, q)
    BY DEF AtRest, Synced, PlanWakes, PlanWakesAdmission, AdmissionWakes, AdmissionWakesPlan
  <1>3. ~PlanBusy(p) /\ \A b \in Admissions : ~WillList(b, p)
    BY <1>2 DEF PlanBusy, WillList, AtRest
  <1>4. SaysMatch(plans[p].status, plans, admissions, p)
    BY <1>1, <1>3 DEF ClaimIsRight
  <1>5. /\ plans \in [ReleasePlans -> PlanObject] /\ admissions \in [Admissions -> AdmissionObject]
        /\ plans[p].status \in PlanStatus /\ plans[p].status.admission = a
        /\ a \in Admissions
    BY ObjectParts, StatusParts DEF Typed, Claim
  <1>6. plans[p].spec.label = None
    BY <1>5, NoLabels
  <1>7. /\ plans[p].spec.target /\ Candidates(plans, admissions, p) = {a}
        /\ plans[p].status.matched = "True" /\ plans[p].status.active = admissions[a].spec.open
    BY <1>4, <1>5, <1>6, ClaimSays
  <1>8. Belongs(plans, admissions, p, a) /\ admissions[a].exists
    BY <1>7 DEF Belongs, Candidates
  <1>9. Listed(p, a) /\ Heard(p, a)
    BY <1>1, <1>8 DEF ClaimIsHeard
  <1>10. Entry(plans, p) \in admissions[a].status.plans
    BY <1>2, <1>5, <1>9 DEF Listed, AtRest
  <1>11. TagOK(p, a)
    BY <1>2, <1>5, <1>9 DEF Heard, TagOK, AtRest
  <1> QED
    BY <1>4, <1>5, <1>7, <1>8, <1>10, <1>11

\* A match does not move away from a ReleasePlanAdmission that still fits.
LEMMA MatchStays ==
  ASSUME NEW P \in [ReleasePlans -> PlanObject], NEW A \in [Admissions -> AdmissionObject],
         NEW p \in ReleasePlans, P[p].spec.label = None, NEW a,
         a \in Candidates(P, A, p) \/ Candidates(P, A, p) = {} \/ ~P[p].spec.target
  PROVE  GetMatchingReleasePlanAdmission(P, A, p) # None =>
           a = GetMatchingReleasePlanAdmission(P, A, p)
  <1> DEFINE g == GetMatchingReleasePlanAdmission(P, A, p)
  <1>1. g # None => P[p].spec.target /\ Candidates(P, A, p) = {g}
    BY MatchIsTheCandidate
  <1> HIDE DEF g
  <1>2. g # None => a = g
    BY <1>1
  <1> QED
    BY <1>2 DEF g

\* A claim that an edit does not concern stays.
LEMMA ClaimRested ==
  ASSUME Typed', OneAtATime, NEW p \in ReleasePlans, NEW a, a # None, Claim(p)' = a,
         plans'[p].spec.target, Candidates(plans', admissions', p) = {a},
         plans'[p].status.matched = "True",
         plans'[p].status.active = admissions'[a].spec.open,
         Entry(plans', p) \in admissions'[a].status.plans,
         TagOK(p, a)'
  PROVE  ClaimOK(p)'
  <1>1. /\ plans' \in [ReleasePlans -> PlanObject] /\ admissions' \in [Admissions -> AdmissionObject]
        /\ plans'[p].status \in PlanStatus /\ plans'[p].status.admission = a
    BY ObjectParts DEF Typed, Claim
  <1>2. plans'[p].spec.label = None
    BY <1>1, NoLabels
  <1>3. SaysMatch(plans'[p].status, plans', admissions', p)
    BY <1>1, <1>2, ClaimSays
  <1>4. ClaimIsRight(p)'
    BY <1>3 DEF ClaimIsRight
  <1>5. ClaimStays(p)'
    BY <1>1, <1>2, MatchStays DEF ClaimStays
  <1>6. ClaimIsHeard(p)'
    BY DEF ClaimIsHeard, Listed, Heard, TagOK
  <1> QED
    BY <1>4, <1>5, <1>6 DEF ClaimOK

\* At rest nobody works.
LEMMA RestedWork ==
  ASSUME AtRest, UNCHANGED <<planWork, admissionWork>>
  PROVE  /\ \A p \in ReleasePlans : PlanWorkFresh(p)'
         /\ \A a \in Admissions : AdmissionWorkFresh(a)'
  BY DEF AtRest, PlanWorkFresh, AdmissionWorkFresh

\* An edit of a ReleasePlan.
LEMMA ClaimChangePlan ==
  ASSUME ClaimInv, Typed', OneAtATime, NEW p \in ReleasePlans, ChangePlan(p)
  PROVE  ClaimsOK'
  <1>1. Typed /\ ClaimsOK
    BY DEF ClaimInv, HealInv
  <1>2. /\ AtRest
        /\ UNCHANGED <<planWork, admissionWork, planQueue, admissionQueue, plansSeen,
                       admissions, admissionsSeen, config>>
    BY <1>1, ChangePlanCases DEF OneAtATime
  <1>3. PICK o \in PlanObject :
          /\ plans' = [plans EXCEPT ![p] = o]
          /\ \/ "createPlan" \in Edits /\ ~plans[p].exists /\ o.exists /\ o.status = NewPlan
             \/ /\ "editPlan" \in Edits
                /\ plans[p].exists /\ o.exists /\ o.status = plans[p].status
             \/ "deletePlan" \in Edits /\ ~o.exists /\ o.status = NewPlan
    BY <1>1, ChangePlanCases
  <1>4. plans'[p] = o /\ \A q \in ReleasePlans \ {p} : plans'[q] = plans[q]
    BY <1>1, <1>3 DEF Typed
  <1>5. plansSeen = plans /\ admissionsSeen = admissions
    BY <1>2 DEF AtRest, Synced
  <1>6. /\ plans \in [ReleasePlans -> PlanObject] /\ plans' \in [ReleasePlans -> PlanObject]
        /\ admissions \in [Admissions -> AdmissionObject]
        /\ admissions' \in [Admissions -> AdmissionObject]
    BY <1>1 DEF Typed
  <1>7. ASSUME NEW q \in ReleasePlans, q # p PROVE ClaimOK(q)'
    <2>0. PICK a : a = Claim(q)
      OBVIOUS
    <2>1. plans'[q] = plans[q] /\ Claim(q)' = a
      BY <1>4, <1>7, <2>0 DEF Claim
    <2> SUFFICES ASSUME plans[q].exists, a # None PROVE ClaimOK(q)'
      BY <2>0, <2>1 DEF ClaimOK
    <2>2. /\ plans[q].spec.target /\ Candidates(plans, admissions, q) = {a}
          /\ plans[q].status.matched = "True"
          /\ plans[q].status.active = admissions[a].spec.open
          /\ Entry(plans, q) \in admissions[a].status.plans
          /\ TagOK(q, a)
      BY <1>1, <1>2, <2>0, ClaimAtRest
    <2>3. Candidates(plans', admissions', q) = {a} /\ Entry(plans', q) = Entry(plans, q)
      BY <1>2, <2>1, <2>2 DEF Candidates, Entry
    <2>4. TagOK(q, a)'
      BY <1>2, <2>1, <2>2 DEF TagOK
    <2> QED BY <1>2, <2>1, <2>2, <2>3, <2>4, ClaimRested
  <1>8. ClaimOK(p)'
    <2> SUFFICES ASSUME plans'[p].exists, Claim(p)' # None PROVE ClaimOK(p)'
      BY DEF ClaimOK
    <2>1. /\ "editPlan" \in Edits /\ plans[p].exists /\ o.exists /\ o.status = plans[p].status
      BY <1>3, <1>4 DEF Claim, NewPlan
    <2>0. PICK a : a = Claim(p)
      OBVIOUS
    <2>2. Claim(p)' = a /\ a # None
      BY <1>4, <2>0, <2>1 DEF Claim
    <2>3. /\ a \in Admissions
          /\ plans[p].spec.target /\ Candidates(plans, admissions, p) = {a}
          /\ plans[p].status.matched = "True"
          /\ plans[p].status.active = admissions[a].spec.open
          /\ Entry(plans, p) \in admissions[a].status.plans
          /\ TagOK(p, a)
      BY <1>1, <1>2, <2>0, <2>1, <2>2, ClaimAtRest
    <2>4. o.spec \in PlanSpecs /\ plans[p].spec \in PlanSpecs
          /\ o.spec.group = plans[p].spec.group /\ o.spec.label = None
      BY <1>6, <2>1, ObjectParts DEF OneAtATime
    <2>5. Candidates(plans', admissions', p) = {a}
      BY <1>2, <1>4, <2>3, <2>4 DEF Candidates, MatchesReleasePlan
    <2>6. plans[p].status.admission = a /\ plansSeen'[p] = plans[p]
      BY <1>2, <1>5, <2>0 DEF Claim
    <2>7. ClaimStays(p)'
      BY <1>4, <1>6, <2>2, <2>4, <2>5, MatchStays DEF ClaimStays
    <2>8. ClaimIsRight(p)'
      <3>1. CASE o.spec.target
        <4>1. o.status \in PlanStatus /\ o.status.admission = a
          BY <2>1, <2>6, ObjectParts
        <4>2. SaysMatch(o.status, plans', admissions', p)
          BY <1>2, <1>4, <1>6, <2>1, <2>2, <2>3, <2>4, <2>5, <3>1, <4>1, ClaimSays
        <4> QED BY <1>4, <4>2 DEF ClaimIsRight
      <3>2. CASE ~o.spec.target
        <4>1. plans[p] # o /\ PlanGenerationChanged(plans[p], o) /\ PlanMatchChanged(plans[p], o)
          BY <2>3, <3>2 DEF PlanGenerationChanged, PlanMatchChanged
        <4>2. PlanWakes(p)'
          BY <1>4, <2>6, <4>1 DEF PlanWakes
        <4> QED BY <4>2 DEF ClaimIsRight, PlanBusy
      <3> QED BY <3>1, <3>2
    <2>9. \/ o.spec.auto = plans[p].spec.auto /\ (o.spec.tagged => plans[p].spec.tagged)
          \/ PlanWakesAdmission(p, a)'
      <3> SUFFICES ASSUME o.spec.auto # plans[p].spec.auto \/ (o.spec.tagged /\ ~plans[p].spec.tagged)
                   PROVE  PlanWakesAdmission(p, a)'
        OBVIOUS
      <3>1. o.spec # plans[p].spec /\ (PlanMatchChanged(plans[p], o) \/ PlanRetryChanged(plans[p], o))
        BY DEF PlanMatchChanged, PlanRetryChanged
      <3>2. a \in PlanNames(plans[p])
        BY <2>2, <2>6 DEF PlanNames
      <3> QED BY <1>4, <2>1, <2>6, <3>1, <3>2 DEF PlanWakesAdmission
    <2>10. Listed(p, a)'
      BY <1>2, <1>4, <2>3, <2>9 DEF Listed, Entry
    <2>11. Heard(p, a)'
      BY <1>2, <1>4, <2>3, <2>9 DEF Heard, TagOK
    <2>12. ClaimIsHeard(p)'
      BY <2>2, <2>10, <2>11 DEF ClaimIsHeard
    <2> QED BY <2>7, <2>8, <2>12 DEF ClaimOK
  <1>9. (\A q \in ReleasePlans : PlanWorkFresh(q)') /\ (\A b \in Admissions : AdmissionWorkFresh(b)')
    BY <1>2, RestedWork
  <1> QED
    BY <1>7, <1>8, <1>9 DEF ClaimsOK

\* The same for the step: who else fits after an edit of c.
LEMMA CandidatesAfter ==
  ASSUME NEW P, NEW A \in [Admissions -> AdmissionObject], NEW B \in [Admissions -> AdmissionObject],
         NEW c \in Admissions, \A b \in Admissions \ {c} : B[b] = A[b], NEW p
  PROVE  Candidates(P, B, p) \ {c} = Candidates(P, A, p) \ {c}
  BY DEF Candidates

\* An edit of a ReleasePlanAdmission.
LEMMA ClaimChangeAdmission ==
  ASSUME ClaimInv, Typed', OneAtATime, NEW c \in Admissions, ChangeAdmission(c)
  PROVE  ClaimsOK'
  <1>1. Typed /\ ClaimsOK
    BY DEF ClaimInv, HealInv
  <1>2. /\ AtRest
        /\ UNCHANGED <<planWork, admissionWork, planQueue, admissionQueue, plans, plansSeen,
                       admissionsSeen, config>>
    BY <1>1, ChangeAdmissionCases DEF OneAtATime
  <1>3. PICK o \in AdmissionObject :
          /\ admissions' = [admissions EXCEPT ![c] = o]
          /\ \/ ~admissions[c].exists /\ o.exists /\ o.status = NewAdmission
             \/ admissions[c].exists /\ o.exists /\ o.status = admissions[c].status
             \/ ~o.exists /\ o.status = NewAdmission
    BY <1>1, ChangeAdmissionCases
  <1>4. admissions'[c] = o /\ \A b \in Admissions \ {c} : admissions'[b] = admissions[b]
    BY <1>1, <1>3 DEF Typed
  <1>5. admissionsSeen'[c] = admissions[c]
    BY <1>2 DEF AtRest, Synced
  <1>6. /\ plans' \in [ReleasePlans -> PlanObject]
        /\ admissions \in [Admissions -> AdmissionObject]
        /\ admissions' \in [Admissions -> AdmissionObject]
    BY <1>1 DEF Typed
  <1>7. ASSUME NEW p \in ReleasePlans PROVE ClaimOK(p)'
    <2>0. PICK a : a = Claim(p)
      OBVIOUS
    <2>1. plans'[p] = plans[p] /\ Claim(p)' = a
      BY <1>2, <2>0 DEF Claim
    <2> SUFFICES ASSUME plans[p].exists, a # None PROVE ClaimOK(p)'
      BY <2>0, <2>1 DEF ClaimOK
    <2>2. /\ a \in Admissions /\ admissions[a].exists
          /\ plans[p].spec.target /\ Candidates(plans, admissions, p) = {a}
          /\ plans[p].status.matched = "True"
          /\ plans[p].status.active = admissions[a].spec.open
          /\ Entry(plans, p) \in admissions[a].status.plans
          /\ TagOK(p, a)
      BY <1>1, <1>2, <2>0, ClaimAtRest
    <2>3. p \in AdmissionNames(admissions[a])
      BY <2>2, ListedNames
    <2>4. plans'[p].spec.label = None
      BY <1>6, NoLabels
    <2>5. Candidates(plans', admissions', p) \ {c} = {a} \ {c}
      BY <1>2, <1>4, <1>6, <2>2, CandidatesAfter
    <2>6. Entry(plans', p) = Entry(plans, p)
      BY <2>1 DEF Entry
    <2>7. CASE c = a /\ ~o.exists
      <3>1. AdmissionWakesPlan(a, p)'
        BY <1>4, <1>5, <2>2, <2>3, <2>7 DEF AdmissionWakesPlan
      <3>2. a \notin Candidates(plans', admissions', p)
        BY <1>4, <2>7 DEF Candidates
      <3>3. Candidates(plans', admissions', p) = {}
        BY <2>5, <2>7, <3>2
      <3>4. ClaimStays(p)'
        BY <1>6, <2>1, <2>4, <3>3, MatchStays DEF ClaimStays
      <3>5. ClaimIsRight(p)' /\ ClaimIsHeard(p)'
        BY <2>1, <2>2, <3>1, <3>2 DEF ClaimIsRight, PlanBusy, ClaimIsHeard, Belongs
      <3> QED BY <3>4, <3>5 DEF ClaimOK
    <2>8. CASE c = a /\ o.exists
      <3>1. o.status = admissions[a].status
        BY <1>3, <2>2, <2>8
      <3>2. Entry(plans', p) \in admissions'[a].status.plans /\ TagOK(p, a)'
        BY <1>4, <2>1, <2>2, <2>6, <2>8, <3>1 DEF TagOK
      <3>3. CASE ~AdmissionMatchChanged(admissions[a], o)
        <4>1. o.spec.groups = admissions[a].spec.groups /\ o.spec.origin = admissions[a].spec.origin
              /\ o.spec.open = admissions[a].spec.open
          BY <3>3 DEF AdmissionMatchChanged
        <4>2. a \in Candidates(plans', admissions', p)
          BY <1>4, <2>1, <2>2, <2>8, <4>1 DEF Candidates, MatchesReleasePlan
        <4>3. Candidates(plans', admissions', p) = {a}
          BY <2>5, <2>8, <4>2
        <4>4. plans'[p].status.active = admissions'[a].spec.open
          BY <1>4, <2>1, <2>2, <2>8, <4>1
        <4> QED BY <2>1, <2>2, <3>2, <4>3, <4>4, ClaimRested
      <3>4. CASE AdmissionMatchChanged(admissions[a], o)
        <4>1. admissions[a] # o
          BY <3>4 DEF AdmissionMatchChanged, hasConditionChanged
        <4>2. AdmissionWakesPlan(a, p)'
          BY <1>4, <1>5, <2>2, <2>3, <2>8, <3>4, <4>1 DEF AdmissionWakesPlan
        <4>3. a \in Candidates(plans', admissions', p) \/ Candidates(plans', admissions', p) = {}
          BY <2>5, <2>8
        <4>4. ClaimStays(p)'
          BY <1>6, <2>1, <2>4, <4>3, MatchStays DEF ClaimStays
        <4>5. ClaimIsRight(p)'
          BY <2>2, <4>2 DEF ClaimIsRight, PlanBusy
        <4>6. ClaimIsHeard(p)'
          BY <2>1, <3>2 DEF ClaimIsHeard, Listed, Heard, TagOK
        <4> QED BY <4>4, <4>5, <4>6 DEF ClaimOK
      <3> QED BY <3>3, <3>4
    <2>9. CASE c # a
      <3>1. admissions'[a] = admissions[a]
        BY <1>4, <2>2, <2>9
      <3>2. Entry(plans', p) \in admissions'[a].status.plans /\ TagOK(p, a)'
        BY <2>1, <2>2, <2>6, <3>1 DEF TagOK
      <3>3. CASE c \notin Candidates(plans', admissions', p)
        <4>1. Candidates(plans', admissions', p) = {a}
          BY <2>5, <2>9, <3>3
        <4> QED BY <2>1, <2>2, <3>1, <3>2, <4>1, ClaimRested
      <3>4. CASE c \in Candidates(plans', admissions', p)
        <4>1. a \in Candidates(plans', admissions', p)
          BY <2>5, <2>9
        <4>2. ClaimStays(p)'
          BY <1>6, <2>1, <2>4, <4>1, MatchStays DEF ClaimStays
        <4>3. ClaimIsHeard(p)'
          BY <2>1, <3>2 DEF ClaimIsHeard, Listed, Heard, TagOK
        <4>4. o.exists /\ o.spec.origin /\ MatchesReleasePlan(o.spec, plans[p])
          BY <1>4, <2>1, <3>4 DEF Candidates
        <4>5. ~(admissions[c].exists /\ admissions[c].spec.origin
                /\ MatchesReleasePlan(admissions[c].spec, plans[p]))
          BY <2>2, <2>9 DEF Candidates
        <4>6. ~admissions[c].exists \/ AdmissionMatchChanged(admissions[c], o)
          BY <4>4, <4>5 DEF AdmissionMatchChanged, MatchesReleasePlan
        <4>7. admissions[c] # o
          BY <4>4, <4>5
        <4>8. AdmissionWakes(c)'
          BY <1>4, <1>5, <4>6, <4>7 DEF AdmissionWakes
        <4>9. CASE p \notin AdmissionNames(o)
          <5>1. WillList(c, p)'
            BY <1>4, <2>1, <2>2, <3>4, <4>8, <4>9 DEF WillList, Belongs
          <5> QED BY <4>2, <4>3, <5>1 DEF ClaimOK, ClaimIsRight
        <4>10. CASE p \in AdmissionNames(o)
          <5>1. admissions[c].exists
            BY <1>3, <4>4, <4>10 DEF AdmissionNames, NewAdmission
          <5>2. AdmissionWakesPlan(c, p)'
            BY <1>4, <1>5, <4>4, <4>6, <4>7, <4>10, <5>1 DEF AdmissionWakesPlan
          <5> QED BY <4>2, <4>3, <5>2 DEF ClaimOK, ClaimIsRight, PlanBusy
        <4> QED BY <4>9, <4>10
      <3> QED BY <3>3, <3>4
    <2> QED BY <2>7, <2>8, <2>9
  <1>8. (\A q \in ReleasePlans : PlanWorkFresh(q)') /\ (\A b \in Admissions : AdmissionWorkFresh(b)')
    BY <1>2, RestedWork
  <1> QED
    BY <1>7, <1>8 DEF ClaimsOK

\* An edit of the configuration.
LEMMA ClaimChangeConfig ==
  ASSUME ClaimInv, Typed', OneAtATime, ChangeConfig
  PROVE  ClaimsOK'
  <1>1. Typed /\ ClaimsOK
    BY DEF ClaimInv, HealInv
  <1>2. Edit("config") /\ UNCHANGED <<plans, plansSeen, admissions, admissionsSeen, planQueue>>
        /\ admissionQueue \subseteq admissionQueue'
    BY DEF ChangeConfig
  <1>3. AtRest /\ UNCHANGED <<planWork, admissionWork>>
    BY <1>1, <1>2, EditType DEF OneAtATime
  <1>4. ASSUME NEW p \in ReleasePlans PROVE ClaimOK(p)'
    <2>1. ClaimOK(p)
      BY <1>1 DEF ClaimsOK
    <2>2. PlanTodo(p) => PlanTodo(p)'
      BY <1>2, <1>3 DEF PlanTodo
    <2>3. \A b : (ListTodo(b) => ListTodo(b)') /\ (RetryTodo(b) => RetryTodo(b)')
      BY <1>2, <1>3 DEF ListTodo, RetryTodo
    <2> QED BY <1>1, <1>2, <2>1, <2>2, <2>3, ClaimQuiet
  <1> QED
    BY <1>3, <1>4, RestedWork DEF ClaimsOK

\* A start of the operator: every object is reconciled.
LEMMA ClaimRestart ==
  ASSUME ClaimInv, Typed', Restart
  PROVE  ClaimsOK'
  <1>1. Typed /\ ClaimsOK
    BY DEF ClaimInv, HealInv
  <1>2. /\ UNCHANGED <<plans, admissions>>
        /\ planQueue' = Existing(plans) /\ admissionQueue' = Existing(admissions)
        /\ planWork' = [p \in ReleasePlans |-> Idle(AbsentPlan)]
        /\ admissionWork' = [a \in Admissions |-> Idle(AbsentAdmission)]
    BY DEF Restart
  <1>3. (\A p \in ReleasePlans : PlanWorkFresh(p)') /\ (\A a \in Admissions : AdmissionWorkFresh(a)')
    BY <1>2 DEF Idle, PlanWorkFresh, AdmissionWorkFresh
  <1>4. ASSUME NEW p \in ReleasePlans PROVE ClaimOK(p)'
    <2>1. Claim(p)' = Claim(p)
      BY <1>2 DEF Claim
    <2> SUFFICES ASSUME plans[p].exists, Claim(p) # None
                 PROVE  ClaimIsRight(p)' /\ ClaimStays(p)' /\ ClaimIsHeard(p)'
      BY <1>2, <2>1 DEF ClaimOK
    <2>2. p \in planQueue'
      BY <1>1, <1>2 DEF Existing, Typed
    <2>3. ClaimIsRight(p)'
      BY <2>2 DEF ClaimIsRight, PlanBusy
    <2>4. ClaimStays(p)
      BY <1>1 DEF ClaimsOK, ClaimOK
    <2>5. ClaimStays(p)'
      BY <1>2, <2>1, <2>4 DEF ClaimStays
    <2>6. ASSUME NEW a, Belongs(plans, admissions, p, a) PROVE a \in admissionQueue'
      BY <1>1, <1>2, <2>6 DEF Existing, Typed, Belongs, Candidates
    <2>7. ClaimIsHeard(p)'
      BY <1>2, <2>6 DEF ClaimIsHeard, Listed, Heard
    <2> QED BY <2>3, <2>5, <2>7
  <1> QED
    BY <1>3, <1>4 DEF ClaimsOK

\* The initial states claim nothing.
LEMMA ClaimInit == Init => ClaimInv
  <1> SUFFICES ASSUME Init PROVE ClaimInv
    OBVIOUS
  <1>1. HealInv
    BY HealInit
  <1>2. \A p \in ReleasePlans : plans[p].status = NewPlan
    <2> DEFINE S == {AbsentPlan} \cup
                      {[exists |-> TRUE, spec |-> s, status |-> NewPlan] : s \in PlanSpecs}
    <2>1. \A o \in S : o.status = NewPlan
      BY DEF AbsentPlan, Absent
    <2>2. plans \in [ReleasePlans -> S]
      BY DEF Init
    <2> HIDE DEF S
    <2> QED BY <2>1, <2>2
  <1>3. \A p \in ReleasePlans : ClaimOK(p)
    BY <1>2 DEF ClaimOK, Claim, NewPlan
  <1>4. /\ planWork = [p \in ReleasePlans |-> Idle(AbsentPlan)]
        /\ admissionWork = [a \in Admissions |-> Idle(AbsentAdmission)]
    BY DEF Init
  <1>5. (\A p \in ReleasePlans : PlanWorkFresh(p)) /\ (\A a \in Admissions : AdmissionWorkFresh(a))
    BY <1>4 DEF Idle, PlanWorkFresh, AdmissionWorkFresh
  <1> QED
    BY <1>1, <1>3, <1>5 DEF ClaimInv, ClaimsOK

\* Every step keeps the invariant.
LEMMA ClaimNext ==
  ASSUME ClaimInv, OneAtATime, [Next]_vars
  PROVE  ClaimInv'
  <1>1. HealInv /\ Typed /\ ClaimsOK
    BY DEF ClaimInv, HealInv
  <1>2. HealInv'
    BY <1>1, HealNext DEF OneAtATime, PlansAreNotReplaced
  <1>3. Typed'
    BY <1>2 DEF HealInv
  <1>4. CASE UNCHANGED vars
    <2>1. ASSUME NEW p \in ReleasePlans PROVE ClaimOK(p)'
      <3>1. ClaimOK(p)
        BY <1>1 DEF ClaimsOK
      <3>2. PlanTodo(p) => PlanTodo(p)'
        BY <1>4 DEF PlanTodo, vars
      <3>3. \A b : (ListTodo(b) => ListTodo(b)') /\ (RetryTodo(b) => RetryTodo(b)')
        BY <1>4 DEF ListTodo, RetryTodo, vars
      <3>4. UNCHANGED <<plans, plansSeen, admissions, admissionsSeen>>
        BY <1>4 DEF vars
      <3> QED BY <1>1, <1>3, <3>1, <3>2, <3>3, <3>4, ClaimQuiet
    <2>2. SameSpecs(plans, plans') /\ SameSpecs(admissions, admissions')
      BY <1>4, PatchKeepsSpecs DEF vars
    <2>3. UNCHANGED <<plans, admissions, planWork, admissionWork, config>>
      BY <1>4 DEF vars
    <2>4. (\A p \in ReleasePlans : PlanWorkFresh(p)') /\ (\A a \in Admissions : AdmissionWorkFresh(a)')
      BY <1>1, <1>3, <2>2, <2>3, WorkStays DEF ClaimsOK
    <2> QED BY <1>2, <2>1, <2>4 DEF ClaimInv, ClaimsOK
  <1>5. CASE Next
    <2>1. ClaimsOK'
      BY <1>3, <1>5, ClaimObserve, ClaimReconcilePlan, ClaimPatchPlan, ClaimReconcileAdmission,
         ClaimPatchAdmission, ClaimEnsureRetry, ClaimChangePlan, ClaimChangeAdmission,
         ClaimChangeConfig, ClaimRestart DEF Next, Controllers
    <2> QED BY <1>2, <2>1 DEF ClaimInv
  <1> QED
    BY <1>4, <1>5

\* For edits made one at a time the invariant holds.
THEOREM ClaimInvariance ==
  ASSUME OneAtATime
  PROVE  Spec => []ClaimInv
  <1>1. Init => ClaimInv
    BY ClaimInit
  <1>2. ClaimInv /\ [Next]_vars => ClaimInv'
    BY ClaimNext
  <1> QED
    BY <1>1, <1>2, PTL DEF Spec

\* When both controllers are at rest, every match that a ReleasePlan claims is
\* right, whatever was edited before and however many calls failed.
THEOREM FalseMatchesAreTakenBack ==
  ASSUME OneAtATime
  PROVE  Spec => []NoFalseMatch
  <1>1. ClaimInv => NoFalseMatch
    <2> SUFFICES ASSUME Typed, ClaimsOK, AtRest, NEW p \in Existing(plans),
                        plans[p].status.admission # None
                 PROVE  PlanIsRight(p)
      BY DEF ClaimInv, HealInv, NoFalseMatch
    <2>1. p \in ReleasePlans /\ plans[p].exists /\ Claim(p) # None
      BY DEF Existing, Typed, Claim
    <2>2. SaysMatch(plans[p].status, plans, admissions, p)
      BY <2>1, ClaimAtRest
    <2> QED BY <2>2 DEF SaysMatch, PlanIsRight
  <1> QED
    BY <1>1, ClaimInvariance, PTL

\* When both controllers are at rest, the ReleasePlanAdmission of a ReleasePlan
\* lists it: every match is known to both sides.
THEOREM MatchesAreMutual ==
  ASSUME OneAtATime
  PROVE  Spec => []MatchIsMutual
  <1>1. ClaimInv => MatchIsMutual
    <2> SUFFICES ASSUME Typed, ClaimsOK, AtRest, NEW p \in Existing(plans),
                        plans[p].status.admission # None
                 PROVE  [plan |-> p, active |-> plans[p].spec.auto]
                          \in admissions[plans[p].status.admission].status.plans
      BY DEF ClaimInv, HealInv, MatchIsMutual
    <2>1. p \in ReleasePlans /\ plans[p].exists /\ Claim(p) # None
      BY DEF Existing, Typed, Claim
    <2>2. Entry(plans, p) \in admissions[Claim(p)].status.plans
      BY <2>1, ClaimAtRest
    <2> QED BY <2>2 DEF Entry, Claim
  <1> QED
    BY <1>1, ClaimInvariance, PTL

\* When both controllers are at rest, no ReleasePlanAdmission has retries enabled
\* against a tag of a ReleasePlan that is matched to it.
THEOREM TagsAreHeard ==
  ASSUME OneAtATime
  PROVE  Spec => []TagsDisableRetries
  <1>1. ClaimInv => TagsDisableRetries
    <2> SUFFICES ASSUME Typed, ClaimsOK, AtRest, NEW p \in Existing(plans),
                        plans[p].status.admission # None, plans[p].spec.tagged
                 PROVE  admissions[plans[p].status.admission].status.retry # "on"
      BY DEF ClaimInv, HealInv, TagsDisableRetries
    <2>1. p \in ReleasePlans /\ plans[p].exists /\ Claim(p) # None
      BY DEF Existing, Typed, Claim
    <2>2. TagOK(p, Claim(p))
      BY <2>1, ClaimAtRest
    <2> QED BY <2>2 DEF TagOK, Claim
  <1> QED
    BY <1>1, ClaimInvariance, PTL
================================================================================
