------------------------- MODULE MCReleaseController -------------------------
(***************************************************************************)
(* Small instances of ReleaseController for TLC.                           *)
(***************************************************************************)
EXTENDS ReleaseRefinement

NoBindings == [p \in Phases |-> << >>]

\* Every pipeline, RoleBindings for the collectors and for the managed one, no
\* retries.
FullPlan == [pipelines |-> Phases, target |-> TRUE,
             bindings |-> [NoBindings EXCEPT !["tenantCollectors"] = <<"secret">>,
                                             !["managedCollectors"] = <<"tenant">>,
                                             !["managed"] = <<"tenant">>],
             maxRetries |-> 0, retryDisabled |-> FALSE, sound |-> TRUE]

\* A ReleasePlan without target: the tenant's pipelines only.
TenantPlan == [FullPlan EXCEPT !.pipelines = {"tenantCollectors", "tenant"}, !.target = FALSE,
                               !.bindings["tenantCollectors"] = <<"tenant", "secret">>]

\* The managed pipeline alone, with retries.
ManagedPlan == [FullPlan EXCEPT !.pipelines = {"managed"}, !.maxRetries = 1]

RetryPlan == [FullPlan EXCEPT !.pipelines = {"managed", "final"}, !.maxRetries = 2]

\* The Release says in its tags that it must not be retried.
NoRetryPlan == [ManagedPlan EXCEPT !.retryDisabled = TRUE]

\* Author, application or snapshot do not check.
UnsoundPlan == [FullPlan EXCEPT !.pipelines = {"managed", "final"}, !.sound = FALSE]

SafetyPlans == {FullPlan, TenantPlan, RetryPlan, NoRetryPlan, UnsoundPlan}
StalePlans == {[ManagedPlan EXCEPT !.pipelines = {"tenant", "managed"}]}
LivenessPlans == {ManagedPlan, TenantPlan}
ManagedPlans == {ManagedPlan}
=============================================================================
