----------------------------- MODULE ReleaseLife -----------------------------
(***************************************************************************)
(* What the release service promises the author of a Release: the life of  *)
(* a Release as its status shows it, without operations, PipelineRuns,     *)
(* caches, errors or restarts.                                             *)
(*                                                                         *)
(* The pipelines run one after the other.  A pipeline that is not defined  *)
(* is skipped.  After a failure nothing is begun but the final pipeline    *)
(* (and the tenant collectors, when the failure is that of the             *)
(* validation).  A failed attempt of the managed pipeline is made again at *)
(* most retries times.  What has finished stays as it is.                  *)
(***************************************************************************)
EXTENDS ReleaseStatus

VARIABLES
  planned,   \* the pipelines this Release has to run
  retries,   \* how often the managed pipeline may be retried
  present,   \* does the Release exist?
  conds,     \* the condition of each pipeline
  verdict,   \* the Released condition
  attempts   \* the status of every attempt of the managed pipeline

vars == <<planned, retries, present, conds, verdict, attempts>>

\* What never changes.
terms == <<planned, retries>>

Init ==
  /\ planned \in SUBSET Phases
  /\ retries \in Nat
  /\ present = TRUE
  /\ conds = [p \in Phases |-> "unset"]
  /\ verdict = "unset"
  /\ attempts = << >>

Finished(c) == c \in {"succeeded", "failed", "skipped"}

Start ==
  /\ verdict = "unset"
  /\ verdict' = "progressing"
  /\ UNCHANGED <<terms, present, conds, attempts>>

\* It is the turn of p.
Turn(p) ==
  /\ verdict # "unset"
  /\ conds[p] = "unset"
  /\ \A q \in Before(p) : Finished(conds[q])

\* A failed Release still runs these.
Unconditional == {"tenantCollectors", "final"}

MayBegin(p) == p \in planned /\ Turn(p) /\ (verdict = "progressing" \/ p \in Unconditional)

Begin(p) ==
  /\ MayBegin(p)
  /\ conds' = [conds EXCEPT ![p] = "progressing"]
  /\ attempts' = IF p = "managed" THEN <<"progressing">> ELSE attempts
  /\ UNCHANGED <<terms, present, verdict>>

Skip(p) ==
  /\ Turn(p)
  /\ p \notin planned \/ (verdict = "failed" /\ p \notin Unconditional)
  /\ conds' = [conds EXCEPT ![p] = "skipped"]
  /\ UNCHANGED <<terms, present, verdict, attempts>>

\* A pipeline that is running when the Release is rejected is no longer waited
\* for.
Abandon(p) ==
  /\ verdict = "failed" /\ p \notin Unconditional
  /\ conds[p] = "progressing"
  /\ conds' = [conds EXCEPT ![p] = "skipped"]
  /\ UNCHANGED <<terms, present, verdict, attempts>>

\* The status of the last attempt.
Last == attempts[Len(attempts)]

Succeed(p) ==
  /\ conds[p] = "progressing"
  /\ p = "managed" => Last = "progressing"
  /\ conds' = [conds EXCEPT ![p] = "succeeded"]
  /\ attempts' = IF p = "managed" THEN [attempts EXCEPT ![Len(attempts)] = "succeeded"]
                                  ELSE attempts
  /\ UNCHANGED <<terms, present, verdict>>

\* A pipeline fails when it has run, or because it cannot be started.
Fail(p) ==
  /\ conds[p] = "progressing" \/ MayBegin(p)
  /\ p = "managed" /\ conds[p] = "progressing" => Last = "failed"
  /\ conds' = [conds EXCEPT ![p] = "failed"]
  /\ verdict' = "failed"
  /\ UNCHANGED <<terms, present, attempts>>

FailAttempt ==
  /\ conds["managed"] = "progressing" /\ Last = "progressing"
  /\ attempts' = [attempts EXCEPT ![Len(attempts)] = "failed"]
  /\ UNCHANGED <<terms, present, conds, verdict>>

Retry ==
  /\ conds["managed"] = "progressing" /\ Last = "failed"
  /\ Len(attempts) <= retries
  /\ attempts' = Append(attempts, "progressing")
  /\ UNCHANGED <<terms, present, conds, verdict>>

\* The validation fails, which may happen at any time before the end.
Reject ==
  /\ verdict = "progressing"
  /\ verdict' = "failed"
  /\ UNCHANGED <<terms, present, conds, attempts>>

Complete ==
  /\ verdict = "progressing"
  /\ \A p \in Phases : conds[p] = IF p \in planned THEN "succeeded" ELSE "skipped"
  /\ verdict' = "succeeded"
  /\ UNCHANGED <<terms, present, conds, attempts>>

Remove ==
  /\ present' = FALSE
  /\ UNCHANGED <<terms, conds, verdict, attempts>>

Next ==
  /\ present = TRUE
  /\ \/ Start
     \/ \E p \in Phases : Begin(p) \/ Skip(p) \/ Abandon(p) \/ Succeed(p) \/ Fail(p)
     \/ FailAttempt
     \/ Retry
     \/ Reject
     \/ Complete
     \/ Remove

Spec == Init /\ [][Next]_vars
=============================================================================
