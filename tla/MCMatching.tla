------------------------------ MODULE MCMatching ------------------------------
(***************************************************************************)
(* Small instances of Matching for TLC.                                    *)
(***************************************************************************)
EXTENDS Matching

\* The application "g", no designated ReleasePlanAdmission.
DefaultPlan == [group |-> "g", target |-> TRUE, label |-> None, auto |-> TRUE, tagged |-> FALSE]
DefaultAdmission == [groups |-> {"g"}, origin |-> TRUE, open |-> TRUE, retryable |-> TRUE]
OtherAdmission == [DefaultAdmission EXCEPT !.groups = {"h"}]

\* What may differ.
PlanVariants ==
  {DefaultPlan, [DefaultPlan EXCEPT !.auto = FALSE], [DefaultPlan EXCEPT !.tagged = TRUE],
   [DefaultPlan EXCEPT !.target = FALSE]}
AdmissionVariants ==
  {DefaultAdmission, OtherAdmission, [DefaultAdmission EXCEPT !.open = FALSE, !.retryable = FALSE],
   [DefaultAdmission EXCEPT !.origin = FALSE]}

\* The application of a ReleasePlan changes.
MovingPlans == {DefaultPlan, [DefaultPlan EXCEPT !.group = "h"]}
TwoAdmissions == {DefaultAdmission, OtherAdmission}

\* A ReleasePlanAdmission is designated by label, or found by application, and
\* may turn into one that is blocked and for another application.
DesignatingPlans == {DefaultPlan, [DefaultPlan EXCEPT !.label = CHOOSE a \in Admissions : TRUE]}
OpenOrGone == {DefaultAdmission, [OtherAdmission EXCEPT !.open = FALSE]}

\* People start with ReleasePlanAdmissions that are open and for the application
\* "g"; what they turn them into is an edit.
OpenInit == Init /\ \A x \in Existing(admissions) : admissions[x].spec = DefaultAdmission
OpenSpec == OpenInit /\ [][Next]_vars

OnePlan == {DefaultPlan}
===============================================================================
