-------------------------- MODULE ReleaseRefinement --------------------------
(***************************************************************************)
(* The Release controller implements ReleaseLife.                          *)
(***************************************************************************)
EXTENDS ReleaseController

\* The refinement mapping: the status of the Release in the API server; the
\* retries its ReleasePlanAdmission grants and its tags do not forbid.
Life == INSTANCE ReleaseLife WITH
  planned  <- {p \in Phases : Planned(p)},
  retries  <- IF plan.retryDisabled THEN 0 ELSE plan.maxRetries,
  present  <- rel.present,
  conds    <- [p \in Phases |-> rel.conds[p]],
  verdict  <- rel.conds["released"],
  attempts <- [i \in 1 .. Len(rel.attempts) |-> rel.attempts[i].status]

\* Whatever calls fail, wherever the controller dies and whatever people delete
\* or block, every change of the status of a Release is one step of the life it
\* was promised, or none: the twenty-one operations of the adapter together.
ImplementsReleaseLife == Life!Spec
=============================================================================
