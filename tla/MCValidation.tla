---------------------------- MODULE MCValidation ----------------------------
(***************************************************************************)
(* Instances of Validation for TLC.                                        *)
(***************************************************************************)
EXTENDS Validation

MCUsers == {"u", "v"}
MCAuthorOf == [x \in MCUsers |-> x]
MCNames == {"short", "long"}

\* Managed, with an author who answers for automated Releases; one with
\* pipelines of its own and no such author; none at all.
APlan == [exists |-> TRUE, target |-> TRUE, tenant |-> "none", final |-> "none",
          application |-> "app", attribution |-> TRUE, author |-> "u", grace |-> 7]

MCPlans ==
  {APlan,
   [APlan EXCEPT !.target = FALSE, !.tenant = "plain", !.final = "cluster",
                 !.attribution = FALSE, !.author = None, !.grace = 5],
   [APlan EXCEPT !.exists = FALSE]}

MCAdmissions ==
  {[active |-> TRUE, pipeline |-> "cluster", policy |-> TRUE],
   [active |-> FALSE, pipeline |-> "none", policy |-> FALSE]}

MCSnapshots ==
  {[at |-> "archive", application |-> "app"],
   [at |-> "cluster", application |-> "other"],
   [at |-> "nowhere", application |-> "app"]}

=============================================================================
