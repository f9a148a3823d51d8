----------------------- MODULE ReleaseFinalizer_proofs -----------------------
(***************************************************************************)
(* PipelineRuns are created only for a Release that will delete them: the  *)
(* proof of RunsAreCreatedUnderFinalizer for every set of plans, any       *)
(* bounds, and with or without lagging caches.                             *)
(***************************************************************************)
EXTENDS ReleaseController_proofs

\* The operations that come after EnsureFinalizerIsAdded.
AfterFinalizer ==
  {"ExpirationTimeIsAdded", "TenantCollectorsProcessed", "TenantCollectorsTracked",
   "ManagedCollectorsProcessed", "ManagedCollectorsTracked", "TenantProcessed",
   "TenantTracked", "ManagedProcessed", "ManagedTracked", "ManagedCompleted",
   "FinalProcessed", "FinalTracked", "ReleaseIsCompleted"}

\* A Release with the finalizer stays until finalizeRelease has been called, for
\* which a copy of the Release that is being deleted is needed.  A copy without
\* deletion timestamp may be old, but then the finalizer it shows is still there.
Guarded ==
  /\ rel.finalizer => rel.present
  /\ cache.deleting => rel.deleting
  /\ cache.finalizer /\ ~cache.deleting => rel.finalizer
  /\ pc = "FinalizersAreCalled" => /\ mem.deleting => cache.deleting
                                   /\ mem.finalizer /\ ~mem.deleting => rel.finalizer
  /\ pc \notin {"idle", "FinalizersAreCalled"} /\ mem.finalizer => rel.finalizer
  /\ pc \in AfterFinalizer => rel.finalizer

\* The numbers of the PipelineRuns are used up.
Numbered == \A x \in runs : x.id <= made

FinalizerInv == Inv /\ Guarded /\ Numbered

-----------------------------------------------------------------------------
(* What an operation does to the life of the Release. *)

SameLife(r, s) ==
  s.present = r.present /\ s.deleting = r.deleting /\ s.finalizer = r.finalizer

\* The operation ends the reconcile, or goes on to op with the old copy or what it
\* has written.
Walks(op) ==
  /\ SameLife(rel, rel') /\ cache' \in {cache, rel'}
  /\ pc' = "idle" \/ (pc' = op /\ mem' \in {mem, rel'})

\* A patch of the status leaves the life of the Release alone.
LEMMA PatchedLife ==
  ASSUME Inv, NEW new
  PROVE  SameLife(rel, Patched(new))
BY DEF Inv, TypeOK, Release, Patched, SameLife

\* Ends of operations that write nothing.
LEMMA PassWalks ==
  ASSUME NEW op
  PROVE  /\ Pass(op) => Walks(op) /\ UNCHANGED objects
         /\ CallFails => Walks(op) /\ UNCHANGED objects
         /\ NotAvailable => Walks(op) /\ UNCHANGED objects
         /\ PatchFails => Walks(op)
         /\ Requeue /\ UNCHANGED <<rel, cache>> => Walks(op)
         /\ StopProcessing /\ UNCHANGED <<rel, cache>> => Walks(op)
BY DEF Pass, CallFails, NotAvailable, PatchFails, Requeue, StopProcessing, ContinueWith, Walks, SameLife

\* Ends of operations that patch the status.
LEMMA PatchWalks ==
  ASSUME Inv, NEW op, NEW new
  PROVE  /\ PatchSucceeds(new, op) => Walks(op)
         /\ PatchStatus(new, op) => Walks(op) /\ UNCHANGED objects
         /\ WriteRelease(Patched(new)) /\ ContinueWith(op, Patched(new)) => Walks(op)
         /\ WriteRelease(Patched(new)) /\ StopProcessing => Walks(op)
BY PatchedLife, PassWalks
   DEF PatchSucceeds, PatchStatus, WriteRelease, ContinueWith, StopProcessing, Walks

\* The PipelineRuns of before, and at most one with a new number.
Grows ==
  /\ made' \in Nat /\ made' >= made
  /\ \A x \in runs' : x.id > made => x.id <= made'

\* No PipelineRun is new.
NothingNew == made' = made /\ \A x \in runs' : \E y \in runs : x.id = y.id

\* An operation that creates nothing.
Quiet(op) == Walks(op) /\ NothingNew

\* An operation that may create.
Busy(op) == Walks(op) /\ Grows

\* Objects that do not change are not new.
LEMMA UnchangedIsQuiet ==
  ASSUME UNCHANGED objects
  PROVE  NothingNew
BY DEF objects, NothingNew

\* What is not new has old numbers.
LEMMA QuietGrows ==
  ASSUME FinalizerInv, NothingNew
  PROVE  Grows /\ (\A x \in runs' : x.id <= made) /\ Numbered'
<1>1. made \in Nat /\ runs \subseteq PipelineRun /\ \A x \in runs : x.id <= made
  BY DEF FinalizerInv, Inv, TypeOK, Numbered
<1>2. \A x \in runs' : x.id <= made
  BY <1>1 DEF NothingNew
<1>3. \A x \in runs' : x.id \in Nat
  BY <1>1 DEF NothingNew, PipelineRun
<1>4. QED BY <1>1, <1>2, <1>3 DEF Grows, Numbered, NothingNew

\* What grows keeps its numbers below made.
LEMMA GrowsNumbered ==
  ASSUME FinalizerInv, Grows, runs' \subseteq PipelineRun
  PROVE  Numbered'
<1>1. made \in Nat /\ made' \in Nat /\ made' >= made
  BY DEF FinalizerInv, Inv, TypeOK, Grows
<1>2. \A x \in runs' : x.id \in Nat
  BY DEF PipelineRun
<1>3. QED BY <1>1, <1>2 DEF Numbered, Grows

-----------------------------------------------------------------------------
(* The operations that create nothing. *)

\* Removing the finalizers of PipelineRuns makes no new ones.
LEMMA CleaningIsQuiet ==
  ASSUME NEW S, S \subseteq runs, NEW D, made' = made,
         runs' = RemoveFinalizers(S) \/ runs' = RemoveFinalizers(S) \ D \/ runs' = runs \ D,
         Inv
  PROVE  NothingNew
<1>1. \A x \in RemoveFinalizers(S) : \E y \in runs : x.id = y.id
  BY DEF RemoveFinalizers, Inv, TypeOK, PipelineRun
<1>2. QED BY <1>1 DEF NothingNew

\* The clean-up operations create nothing.
LEMMA CleanUpPhasesIsQuiet ==
  ASSUME Inv, NEW P, NEW op, NEW requeues, CleanUpPhases(P, op, requeues)
  PROVE  Quiet(op)
<1> DEFINE B == UNION {Referenced(mem, p) : p \in P}
<1>1. PICK S \in Picks(mem, P) :
        \/ /\ CleanUp(S, B)
           /\ ContinueWith(op, mem)
        \/ \E T \in SUBSET S, C \in SUBSET B :
             CleanUp(T, C) /\ (ContinueWith(op, mem) \/ Requeue)
  BY DEF CleanUpPhases
<1> HIDE DEF B
<1>2. PICK T, C : T \subseteq runs /\ CleanUp(T, C) /\ (ContinueWith(op, mem) \/ Requeue)
  BY <1>1, PicksType
<1>3. made' = made /\ runs' = RemoveFinalizers(T) /\ UNCHANGED <<rel, cache>>
  BY <1>2 DEF CleanUp
<1>4. NothingNew
  BY <1>2, <1>3, CleaningIsQuiet
<1>5. Walks(op)
  BY <1>2, <1>3 DEF ContinueWith, Requeue, StopProcessing, Walks, SameLife
<1>6. QED BY <1>4, <1>5 DEF Quiet

\* The operations up to the validation create nothing.
LEMMA EarlyOperationsAreQuiet ==
  ASSUME Inv
  PROVE  /\ EnsureConfigIsLoaded => Quiet("CollectorsCleanedUp")
         /\ EnsureCollectorsProcessingResourcesAreCleanedUp => Quiet("ProcessingCleanedUp")
         /\ EnsureReleaseProcessingResourcesAreCleanedUp => Quiet("ReleaseIsRunning")
         /\ EnsureReleaseIsRunning => Quiet("ReleaseIsValid")
         /\ EnsureReleaseIsValid => Quiet("ApplicationMetadataIsSet")
         /\ EnsureReleaseExpirationTimeIsAdded => Quiet("TenantCollectorsProcessed")
<1>1. EnsureConfigIsLoaded => Quiet("CollectorsCleanedUp")
  BY PassWalks, UnchangedIsQuiet DEF EnsureConfigIsLoaded, Quiet
<1>2. EnsureCollectorsProcessingResourcesAreCleanedUp => Quiet("ProcessingCleanedUp")
  BY PassWalks, UnchangedIsQuiet, CleanUpPhasesIsQuiet
     DEF EnsureCollectorsProcessingResourcesAreCleanedUp, Quiet
<1>3. EnsureReleaseProcessingResourcesAreCleanedUp => Quiet("ReleaseIsRunning")
  BY PassWalks, UnchangedIsQuiet, CleanUpPhasesIsQuiet
     DEF EnsureReleaseProcessingResourcesAreCleanedUp, Quiet
<1>4. EnsureReleaseIsRunning => Quiet("ReleaseIsValid")
  BY PassWalks, PatchWalks, UnchangedIsQuiet DEF EnsureReleaseIsRunning, Quiet
<1>5. EnsureReleaseIsValid => Quiet("ApplicationMetadataIsSet")
  BY PassWalks, PatchWalks, UnchangedIsQuiet DEF EnsureReleaseIsValid, Quiet
<1>6. EnsureReleaseExpirationTimeIsAdded => Quiet("TenantCollectorsProcessed")
  BY PassWalks, UnchangedIsQuiet DEF EnsureReleaseExpirationTimeIsAdded, Quiet
<1>7. QED BY <1>1, <1>2, <1>3, <1>4, <1>5, <1>6

-----------------------------------------------------------------------------
(* The operations that may create. *)

\* A quiet step is a busy one.
LEMMA QuietIsBusy ==
  ASSUME FinalizerInv, NEW op, Quiet(op)
  PROVE  Busy(op)
BY QuietGrows DEF Quiet, Busy

\* The PipelineRun that is created takes the last of the new numbers.
LEMMA CreationGrows ==
  ASSUME FinalizerInv, NEW n \in Nat, NEW x, x.id = made + n + 1,
         made' = made + n + 1, runs' = runs \cup {x}
  PROVE  Grows
<1>1. made \in Nat /\ \A y \in runs : y.id <= made
  BY DEF FinalizerInv, Inv, TypeOK, Numbered
<1>2. \A y \in runs : y.id \in Nat
  BY DEF FinalizerInv, Inv, TypeOK, PipelineRun
<1>3. QED BY <1>1, <1>2 DEF Grows

\* The numbers used up for RoleBindings.
LEMMA BindingsGrow ==
  ASSUME FinalizerInv, NEW j \in Nat, made' = made + j, runs' = runs
  PROVE  Grows
<1>1. made \in Nat /\ \A y \in runs : y.id <= made
  BY DEF FinalizerInv, Inv, TypeOK, Numbered
<1>2. \A y \in runs : y.id \in Nat
  BY DEF FinalizerInv, Inv, TypeOK, PipelineRun
<1>3. QED BY <1>1, <1>2 DEF Grows

\* Creating the PipelineRun of a phase.
LEMMA CreateIsBusy ==
  ASSUME FinalizerInv, NEW p, NEW k, NEW list \in Seq(Slots), NEW new, NEW op,
         Create(p, k, list, new, op)
  PROVE  Busy(op)
<1>0. Inv
  BY DEF FinalizerInv
<1>1. CASE CreationFails(p, list, op)
  <2>1. PICK j \in 0 .. Len(list) :
          /\ made' = made + j
          /\ UNCHANGED runs
          /\ \/ Requeue /\ UNCHANGED <<rel, cache>>
             \/ \E r : WriteRelease(Patched(r)) /\ ContinueWith(op, Patched(r))
    BY <1>1 DEF CreationFails
  <2>2. j \in Nat
    BY <2>1
  <2>3. Grows
    BY <2>1, <2>2, BindingsGrow
  <2>4. QED BY <1>0, <2>1, <2>3, PassWalks, PatchWalks DEF Busy
<1>2. CASE CreationSucceeds(p, k, list, new, op)
  <2>1. /\ runs' = runs \cup {NewRun(p, k, list)}
        /\ made' = made + Len(list) + 1
        /\ PatchSucceeds(new, op) \/ PatchFails
    BY <1>2 DEF CreationSucceeds
  <2>2. Len(list) \in Nat /\ NewRun(p, k, list).id = made + Len(list) + 1
    BY DEF NewRun
  <2>3. Grows
    BY <2>1, <2>2, CreationGrows
  <2>4. QED BY <1>0, <2>1, <2>3, PassWalks, PatchWalks DEF Busy
<1>3. QED BY <1>1, <1>2 DEF Create

\* The Ensure...IsProcessed operations.
LEMMA ProcessedIsBusy ==
  ASSUME FinalizerInv
  PROVE  /\ EnsureTenantCollectorsPipelineIsProcessed => Busy("TenantCollectorsTracked")
         /\ EnsureManagedCollectorsPipelineIsProcessed => Busy("ManagedCollectorsTracked")
         /\ EnsureTenantPipelineIsProcessed => Busy("TenantTracked")
         /\ EnsureManagedPipelineIsProcessed => Busy("ManagedTracked")
         /\ EnsureFinalPipelineIsProcessed => Busy("FinalTracked")
<1>0. Inv
  BY DEF FinalizerInv
<1>1. \A p \in Phases : plan.bindings[p] \in Seq(Slots)
  BY <1>0, PlanType
<1>2. << >> \in Seq(Slots)
  OBVIOUS
<1>3. ASSUME NEW op, NEW new
      PROVE  /\ Pass(op) => Busy(op)
             /\ CallFails => Busy(op)
             /\ NotAvailable => Busy(op)
             /\ PatchStatus(new, op) => Busy(op)
  BY <1>0, PassWalks, PatchWalks, UnchangedIsQuiet, QuietIsBusy DEF Quiet
<1>4. ASSUME NEW op, NEW p
      PROVE  Skip(p, op) => Busy(op)
  BY <1>3 DEF Skip
<1>5. \A p \in Phases : \A k, new, op : Create(p, k, plan.bindings[p], new, op) => Busy(op)
  BY <1>1, CreateIsBusy
<1>6. \A p, k, new, op : Create(p, k, << >>, new, op) => Busy(op)
  BY <1>2, CreateIsBusy
<1>7. {"tenantCollectors", "managedCollectors", "managed"} \subseteq Phases
  BY DEF Phases
<1>8. EnsureTenantCollectorsPipelineIsProcessed => Busy("TenantCollectorsTracked")
  BY <1>3, <1>4, <1>5, <1>7 DEF EnsureTenantCollectorsPipelineIsProcessed
<1>9. EnsureManagedCollectorsPipelineIsProcessed => Busy("ManagedCollectorsTracked")
  BY <1>3, <1>4, <1>5, <1>7 DEF EnsureManagedCollectorsPipelineIsProcessed
<1>10. EnsureTenantPipelineIsProcessed => Busy("TenantTracked")
  BY <1>3, <1>4, <1>6 DEF EnsureTenantPipelineIsProcessed
<1>11. EnsureManagedPipelineIsProcessed => Busy("ManagedTracked")
  BY <1>3, <1>4, <1>5, <1>7 DEF EnsureManagedPipelineIsProcessed
<1>12. EnsureFinalPipelineIsProcessed => Busy("FinalTracked")
  BY <1>3, <1>4, <1>6 DEF EnsureFinalPipelineIsProcessed
<1>13. QED BY <1>8, <1>9, <1>10, <1>11, <1>12

\* The Ensure...IsTracked operations create nothing.
LEMMA TrackedIsQuiet ==
  ASSUME Inv
  PROVE  /\ EnsureTenantCollectorsPipelineIsTracked => Quiet("ManagedCollectorsProcessed")
         /\ EnsureManagedCollectorsPipelineIsTracked => Quiet("TenantProcessed")
         /\ EnsureTenantPipelineProcessingIsTracked => Quiet("ManagedProcessed")
         /\ EnsureManagedPipelineProcessingIsTracked => Quiet("ManagedCompleted")
         /\ EnsureFinalPipelineProcessingIsTracked => Quiet("ReleaseIsCompleted")
<1>1. ASSUME NEW op, NEW new
      PROVE  /\ Pass(op) => Quiet(op)
             /\ CallFails => Quiet(op)
             /\ PatchStatus(new, op) => Quiet(op)
             /\ WriteRelease(Patched(new)) /\ ContinueWith(op, Patched(new)) /\ UNCHANGED objects
                  => Quiet(op)
  BY PassWalks, PatchWalks, UnchangedIsQuiet DEF Quiet
<1>2. ASSUME NEW p, NEW op, TrackPipeline(p, op)
      PROVE  Quiet(op)
  BY <1>1, <1>2 DEF TrackPipeline
<1>3. ASSUME NEW x, NEW op, registerManagedProcessingStatus(x, op)
      PROVE  Quiet(op)
  BY <1>1, <1>3 DEF registerManagedProcessingStatus
<1>4. EnsureManagedPipelineProcessingIsTracked => Quiet("ManagedCompleted")
  BY <1>1, <1>3 DEF EnsureManagedPipelineProcessingIsTracked
<1>5. QED
  BY <1>2, <1>4 DEF EnsureTenantCollectorsPipelineIsTracked, EnsureManagedCollectorsPipelineIsTracked,
        EnsureTenantPipelineProcessingIsTracked, EnsureFinalPipelineProcessingIsTracked

\* A retry creates at most the PipelineRun of the next attempt.
LEMMA RetryIsBusy ==
  ASSUME FinalizerInv, NEW op, retryManagedPipeline(op)
  PROVE  Busy(op)
<1>0. Inv
  BY DEF FinalizerInv
<1> DEFINE next == GetManagedPipelineRetryCount(mem) + 1
           run == NewRun("managed", next, << >>)
           registered == RegisterAttempt(mem, AttemptBinding(<< >>))
<1>1. run.id = made + 0 + 1
  BY <1>0 DEF NewRun, Inv, TypeOK
<1>2. PICK created \in {{}, {run}} :
        /\ runs' = runs \cup created
        /\ made' = IF created = {} THEN made ELSE made + 1
        /\ \/ PatchSucceeds(registered, op)
           \/ Requeue /\ UNCHANGED <<rel, cache>>
           \/ \E r : WriteRelease(Patched(r)) /\ ContinueWith(op, Patched(r))
  BY DEF retryManagedPipeline, RetryFails
<1> HIDE DEF run, registered
<1>3. Walks(op)
  BY <1>0, <1>2, PassWalks, PatchWalks
<1>4. CASE created = {}
  BY <1>2, <1>3, <1>4, QuietGrows DEF NothingNew, Busy
<1>5. CASE created = {run}
  <2>1. made' = made + 0 + 1 /\ runs' = runs \cup {run}
    BY <1>0, <1>2, <1>5 DEF Inv, TypeOK
  <2>2. Grows
    BY <1>1, <2>1, CreationGrows
  <2>3. QED BY <1>3, <2>2 DEF Busy
<1>6. QED BY <1>2, <1>4, <1>5

\* The operations after the attempts of the managed pipeline.
LEMMA CompletedIsBusy ==
  ASSUME FinalizerInv
  PROVE  /\ EnsureManagedPipelineProcessingIsCompleted => Busy("FinalProcessed")
         /\ EnsureReleaseIsCompleted => Busy("idle")
<1>0. Inv
  BY DEF FinalizerInv
<1>1. ASSUME NEW op, NEW new
      PROVE  /\ Pass(op) => Busy(op)
             /\ CallFails => Busy(op)
             /\ NotAvailable => Busy(op)
             /\ PatchStatus(new, op) => Busy(op)
  BY <1>0, PassWalks, PatchWalks, UnchangedIsQuiet, QuietIsBusy DEF Quiet
<1>2. EnsureManagedPipelineProcessingIsCompleted => Busy("FinalProcessed")
  BY <1>1, RetryIsBusy DEF EnsureManagedPipelineProcessingIsCompleted
<1>3. EnsureReleaseIsCompleted => Walks("idle") /\ UNCHANGED objects
  BY <1>0, PassWalks, PatchWalks DEF EnsureReleaseIsCompleted
<1>4. QED BY <1>2, <1>3, UnchangedIsQuiet, QuietIsBusy DEF Quiet

-----------------------------------------------------------------------------
(* The invariant is preserved. *)

\* What a step of the system may do: only after the finalizer was added does it
\* create a PipelineRun.
Safe == Guarded' /\ Numbered' /\ \A x \in runs' : x.id > made => rel.present /\ rel.finalizer

\* An operation between the finalizers and the end of the reconcile.
LEMMA WalkGuarded ==
  ASSUME FinalizerInv, NEW op, Walks(op), pc \notin {"idle", "FinalizersAreCalled"},
         op # "FinalizersAreCalled", op \in AfterFinalizer => pc \in AfterFinalizer
  PROVE  Guarded'
<1>1. rel'.finalizer = rel.finalizer /\ rel'.present = rel.present /\ rel'.deleting = rel.deleting
  BY DEF Walks, SameLife
<1>2. (cache.deleting => rel.deleting)' /\ (cache.finalizer /\ ~cache.deleting => rel.finalizer)'
  BY <1>1 DEF Walks, FinalizerInv, Guarded
<1>3. (pc \notin {"idle", "FinalizersAreCalled"} /\ mem.finalizer => rel.finalizer)'
  BY <1>1 DEF Walks, FinalizerInv, Guarded
<1>4. (pc \in AfterFinalizer => rel.finalizer)'
  BY <1>1 DEF Walks, FinalizerInv, Guarded, AfterFinalizer
<1>5. pc' # "FinalizersAreCalled"
  BY DEF Walks
<1>6. QED BY <1>1, <1>2, <1>3, <1>4, <1>5 DEF Guarded, FinalizerInv

\* A quiet operation is safe.
LEMMA QuietIsSafe ==
  ASSUME FinalizerInv, NEW op, Quiet(op), pc \notin {"idle", "FinalizersAreCalled"},
         op # "FinalizersAreCalled", op \in AfterFinalizer => pc \in AfterFinalizer
  PROVE  Safe
<1>1. Guarded'
  BY WalkGuarded DEF Quiet
<1>2. Numbered' /\ \A x \in runs' : x.id <= made
  BY QuietGrows DEF Quiet
<1>3. \A x \in runs' : x.id \in Nat
  BY DEF Quiet, NothingNew, FinalizerInv, Inv, TypeOK, PipelineRun
<1>4. made \in Nat
  BY DEF FinalizerInv, Inv, TypeOK
<1>5. QED BY <1>1, <1>2, <1>3, <1>4 DEF Safe

\* A busy operation is safe once the finalizer was added.
LEMMA BusyIsSafe ==
  ASSUME FinalizerInv, runs' \subseteq PipelineRun, NEW op, Busy(op), pc \in AfterFinalizer,
         op # "FinalizersAreCalled"
  PROVE  Safe
<1>1. pc \notin {"idle", "FinalizersAreCalled"}
  BY DEF AfterFinalizer
<1>2. Guarded'
  BY <1>1, WalkGuarded DEF Busy
<1>3. Numbered'
  BY GrowsNumbered DEF Busy
<1>4. rel.present /\ rel.finalizer
  BY DEF FinalizerInv, Guarded
<1>5. QED BY <1>2, <1>3, <1>4 DEF Safe

\* EnsureFinalizersAreCalled: only a Release that is being deleted loses the
\* finalizer.
LEMMA FinalizersAreCalledIsSafe ==
  ASSUME FinalizerInv, EnsureFinalizersAreCalled
  PROVE  Safe
<1>0. Inv /\ Guarded /\ pc = "FinalizersAreCalled"
  BY DEF FinalizerInv, EnsureFinalizersAreCalled
<1>1. ASSUME Guarded', NothingNew
      PROVE  Safe
  <2>1. Numbered' /\ \A x \in runs' : x.id <= made
    BY <1>1, QuietGrows
  <2>2. made \in Nat /\ \A x \in runs' : x.id \in Nat
    BY <1>1 DEF NothingNew, FinalizerInv, Inv, TypeOK, PipelineRun
  <2>3. QED BY <1>1, <2>1, <2>2 DEF Safe
<1>2. CASE ~mem.deleting /\ Pass("ConfigIsLoaded")
  <2>1. UNCHANGED <<rel, cache, mem>> /\ pc' = "ConfigIsLoaded" /\ UNCHANGED objects
    BY <1>2 DEF Pass, ContinueWith
  <2>2. Guarded'
    BY <1>0, <1>2, <2>1 DEF Guarded, AfterFinalizer
  <2>3. QED BY <1>1, <2>1, <2>2, UnchangedIsQuiet
<1>3. ASSUME mem.deleting, NEW S \in Picks(mem, Phases), FinalizeSucceeds(S) \/ FinalizeFails(S)
      PROVE  Safe
  <2>0. S \subseteq runs /\ cache.deleting /\ rel.deleting
    BY <1>0, <1>3, PicksType DEF Guarded
  <2>1. CASE FinalizeFails(S)
    <3>1. PICK current, deleted :
            /\ current \subseteq S
            /\ runs' = RemoveFinalizers(current) \ deleted \/ runs' = runs \ deleted
            /\ UNCHANGED <<made, rel, cache>>
            /\ Requeue
      <4>1. PICK n \in 1 .. Len(FinalizeOrder(mem)), stage \in 0 .. 2 :
              LET order == FinalizeOrder(mem)
                  earlier == {order[i] : i \in 1 .. n - 1}
                  deleted == {x \in S : <<x.phase, x.attempt>> \in earlier}
                  current == {x \in S : <<x.phase, x.attempt>> = order[n]}
              IN /\ runs' = (IF stage = 2 THEN RemoveFinalizers(current) ELSE runs) \ deleted
                 /\ UNCHANGED <<made, rel, cache>>
                 /\ Requeue
        BY <2>1 DEF FinalizeFails
      <4> DEFINE earlier == {FinalizeOrder(mem)[i] : i \in 1 .. n - 1}
                 deleted == {x \in S : <<x.phase, x.attempt>> \in earlier}
                 current == {x \in S : <<x.phase, x.attempt>> = FinalizeOrder(mem)[n]}
      <4>2. /\ current \subseteq S
            /\ runs' = RemoveFinalizers(current) \ deleted \/ runs' = runs \ deleted
            /\ UNCHANGED <<made, rel, cache>>
            /\ Requeue
        BY <4>1
      <4> HIDE DEF deleted, current
      <4>3. QED BY <4>2
    <3>2. NothingNew
      BY <1>0, <2>0, <3>1, CleaningIsQuiet
    <3>3. UNCHANGED <<rel, cache>> /\ pc' = "idle"
      BY <3>1 DEF Requeue, StopProcessing
    <3>4. Guarded'
      BY <1>0, <3>3 DEF Guarded, AfterFinalizer
    <3>5. QED BY <1>1, <3>2, <3>4
  <2>2. CASE FinalizeSucceeds(S)
    <3>1. /\ runs' = runs \ S /\ UNCHANGED made
          /\ \/ WriteRelease([rel EXCEPT !.finalizer = FALSE, !.present = FALSE]) /\ Requeue
             \/ PatchFails
      BY <2>2 DEF FinalizeSucceeds
    <3>2. NothingNew
      BY <3>1 DEF NothingNew
    <3>3. CASE PatchFails
      <4>1. UNCHANGED <<rel, cache>> /\ pc' = "idle"
        BY <3>3 DEF PatchFails, Requeue, StopProcessing
      <4>2. Guarded'
        BY <1>0, <4>1 DEF Guarded, AfterFinalizer
      <4>3. QED BY <1>1, <3>2, <4>2
    <3>4. CASE WriteRelease([rel EXCEPT !.finalizer = FALSE, !.present = FALSE]) /\ Requeue
      <4>1. /\ rel'.finalizer = FALSE /\ rel'.deleting = TRUE /\ cache' \in {cache, rel'}
            /\ pc' = "idle"
        BY <1>0, <2>0, <3>4 DEF WriteRelease, Requeue, StopProcessing, Inv, TypeOK, Release
      <4>2. Guarded'
        BY <1>0, <2>0, <4>1 DEF Guarded, AfterFinalizer
      <4>3. QED BY <1>1, <3>2, <4>2
    <3>5. QED BY <3>1, <3>3, <3>4
  <2>3. QED BY <1>3, <2>1, <2>2
<1>4. QED BY <1>2, <1>3 DEF EnsureFinalizersAreCalled

\* EnsureApplicationMetadataIsSet and EnsureFinalizerIsAdded.
LEMMA FinalizerIsAddedIsSafe ==
  ASSUME FinalizerInv, EnsureApplicationMetadataIsSet \/ EnsureFinalizerIsAdded
  PROVE  Safe
<1>0. Inv /\ Guarded
  BY DEF FinalizerInv
<1>1. UNCHANGED objects
  BY DEF EnsureApplicationMetadataIsSet, EnsureFinalizerIsAdded, Pass, CallFails
<1>2. Guarded' => Safe
  <2>1. NothingNew
    BY <1>1, UnchangedIsQuiet
  <2>2. Numbered' /\ \A x \in runs' : x.id <= made
    BY <2>1, QuietGrows
  <2>3. made \in Nat /\ \A x \in runs' : x.id \in Nat
    BY <1>1 DEF objects, FinalizerInv, Inv, TypeOK, PipelineRun
  <2>4. QED BY <2>2, <2>3 DEF Safe
<1>3. CASE EnsureApplicationMetadataIsSet
  <2>1. UNCHANGED <<rel, cache>> /\ (pc' = "idle" \/ (pc' = "FinalizerIsAdded" /\ mem' \in {mem, rel}))
    BY <1>3 DEF EnsureApplicationMetadataIsSet, ContinueWith, CallFails, Requeue, StopProcessing
  <2>2. pc = "ApplicationMetadataIsSet"
    BY <1>3 DEF EnsureApplicationMetadataIsSet
  <2>3. QED BY <1>0, <1>2, <2>1, <2>2 DEF Guarded, AfterFinalizer
<1>4. CASE EnsureFinalizerIsAdded
  <2>0. pc = "FinalizerIsAdded"
    BY <1>4 DEF EnsureFinalizerIsAdded
  <2>1. CASE mem.finalizer /\ Pass("ExpirationTimeIsAdded")
    <3>1. UNCHANGED <<rel, cache, mem>> /\ pc' = "ExpirationTimeIsAdded" /\ mem.finalizer
      BY <2>1 DEF Pass, ContinueWith
    <3>2. QED BY <1>0, <1>2, <2>0, <3>1 DEF Guarded, AfterFinalizer
  <2>2. CASE PatchFails
    <3>1. UNCHANGED <<rel, cache>> /\ pc' = "idle"
      BY <2>2 DEF PatchFails, Requeue, StopProcessing
    <3>2. QED BY <1>0, <1>2, <3>1 DEF Guarded, AfterFinalizer
  <2>3. CASE /\ rel.present
             /\ WriteRelease([rel EXCEPT !.finalizer = TRUE])
             /\ ContinueWith("ExpirationTimeIsAdded", [rel EXCEPT !.finalizer = TRUE])
    <3>1. /\ rel'.finalizer = TRUE /\ rel'.present = TRUE /\ rel'.deleting = rel.deleting
          /\ cache' \in {cache, rel'} /\ pc' = "ExpirationTimeIsAdded"
      BY <1>0, <2>3 DEF WriteRelease, ContinueWith, Inv, TypeOK, Release
    <3>2. QED BY <1>0, <1>2, <3>1 DEF Guarded, AfterFinalizer
  <2>4. QED BY <1>4, <2>1, <2>2, <2>3 DEF EnsureFinalizerIsAdded
<1>5. QED BY <1>3, <1>4

\* Every operation is safe.
LEMMA OperationIsSafe ==
  ASSUME FinalizerInv, Operation, runs' \subseteq PipelineRun
  PROVE  Safe
<1>0. Inv
  BY DEF FinalizerInv
<1>1. ASSUME EnsureConfigIsLoaded \/ EnsureCollectorsProcessingResourcesAreCleanedUp
               \/ EnsureReleaseProcessingResourcesAreCleanedUp \/ EnsureReleaseIsRunning
               \/ EnsureReleaseIsValid
      PROVE  Safe
  <2>1. PICK op \in {"CollectorsCleanedUp", "ProcessingCleanedUp", "ReleaseIsRunning",
                     "ReleaseIsValid", "ApplicationMetadataIsSet"} : Quiet(op)
    BY <1>0, <1>1, EarlyOperationsAreQuiet
  <2>2. pc \notin {"idle", "FinalizersAreCalled"}
    BY <1>1 DEF EnsureConfigIsLoaded, EnsureCollectorsProcessingResourcesAreCleanedUp,
          EnsureReleaseProcessingResourcesAreCleanedUp, EnsureReleaseIsRunning, EnsureReleaseIsValid
  <2>3. op # "FinalizersAreCalled" /\ op \notin AfterFinalizer
    BY DEF AfterFinalizer
  <2>4. QED BY <2>1, <2>2, <2>3, QuietIsSafe
<1>2. ASSUME EnsureReleaseExpirationTimeIsAdded \/ EnsureTenantCollectorsPipelineIsTracked
               \/ EnsureManagedCollectorsPipelineIsTracked
               \/ EnsureTenantPipelineProcessingIsTracked
               \/ EnsureManagedPipelineProcessingIsTracked \/ EnsureFinalPipelineProcessingIsTracked
      PROVE  Safe
  <2>1. PICK op \in AfterFinalizer : Quiet(op)
    BY <1>0, <1>2, EarlyOperationsAreQuiet, TrackedIsQuiet DEF AfterFinalizer
  <2>2. pc \in AfterFinalizer
    BY <1>2 DEF AfterFinalizer, EnsureReleaseExpirationTimeIsAdded,
          EnsureTenantCollectorsPipelineIsTracked, EnsureManagedCollectorsPipelineIsTracked,
          EnsureTenantPipelineProcessingIsTracked, EnsureManagedPipelineProcessingIsTracked,
          EnsureFinalPipelineProcessingIsTracked
  <2>3. op # "FinalizersAreCalled" /\ pc \notin {"idle", "FinalizersAreCalled"}
    BY <2>2 DEF AfterFinalizer
  <2>4. QED BY <2>1, <2>2, <2>3, QuietIsSafe
<1>3. ASSUME EnsureTenantCollectorsPipelineIsProcessed
               \/ EnsureManagedCollectorsPipelineIsProcessed \/ EnsureTenantPipelineIsProcessed
               \/ EnsureManagedPipelineIsProcessed \/ EnsureFinalPipelineIsProcessed
               \/ EnsureManagedPipelineProcessingIsCompleted \/ EnsureReleaseIsCompleted
      PROVE  Safe
  <2>1. PICK op : op # "FinalizersAreCalled" /\ Busy(op)
    BY <1>3, ProcessedIsBusy, CompletedIsBusy
  <2>2. pc \in AfterFinalizer
    BY <1>3 DEF AfterFinalizer, EnsureTenantCollectorsPipelineIsProcessed,
          EnsureManagedCollectorsPipelineIsProcessed, EnsureTenantPipelineIsProcessed,
          EnsureManagedPipelineIsProcessed, EnsureFinalPipelineIsProcessed,
          EnsureManagedPipelineProcessingIsCompleted, EnsureReleaseIsCompleted
  <2>3. QED BY <2>1, <2>2, BusyIsSafe
<1>4. QED
  BY <1>1, <1>2, <1>3, FinalizersAreCalledIsSafe, FinalizerIsAddedIsSafe DEF Operation

\* So is every other step.
LEMMA SurroundingsAreSafe ==
  ASSUME FinalizerInv,
         \/ ReconcileFound \/ ReconcileNotFound \/ FinishRun \/ DeleteRun \/ DeleteRelease
         \/ ChangeAdmission \/ ObserveRelease \/ ObserveRun \/ Resync \/ Restart \/ UNCHANGED vars
  PROVE  Safe
<1>0. Inv /\ Guarded
  BY DEF FinalizerInv
<1>1. Guarded' /\ NothingNew => Safe
  <2>1. SUFFICES ASSUME Guarded', NothingNew PROVE Safe
    OBVIOUS
  <2>2. Numbered' /\ \A x \in runs' : x.id <= made
    BY <2>1, QuietGrows
  <2>3. made \in Nat /\ \A x \in runs' : x.id \in Nat
    BY <2>1 DEF NothingNew, FinalizerInv, Inv, TypeOK, PipelineRun
  <2>4. QED BY <2>1, <2>2, <2>3 DEF Safe
<1>2. CASE ReconcileFound
  <2>1. UNCHANGED <<rel, cache>> /\ pc' = "FinalizersAreCalled" /\ mem' = cache /\ UNCHANGED objects
    BY <1>2 DEF ReconcileFound, ContinueWith
  <2>2. Guarded'
    BY <1>0, <2>1 DEF Guarded, AfterFinalizer
  <2>3. QED BY <1>1, <2>1, <2>2, UnchangedIsQuiet
<1>3. CASE ReconcileNotFound \/ ChangeAdmission \/ Resync \/ UNCHANGED vars
  <2>1. UNCHANGED <<rel, cache, mem, pc>> /\ UNCHANGED objects
    BY <1>3 DEF ReconcileNotFound, ChangeAdmission, Resync, vars, objects, unmoved
  <2>2. Guarded'
    BY <1>0, <2>1 DEF Guarded
  <2>3. QED BY <1>1, <2>1, <2>2, UnchangedIsQuiet
<1>4. CASE FinishRun \/ DeleteRun \/ ObserveRun
  <2>1. UNCHANGED <<rel, cache, mem, pc, made>>
    BY <1>4 DEF FinishRun, DeleteRun, ObserveRun, unmoved
  <2>2. \A x \in runs' : \E y \in runs : x.id = y.id
    BY <1>0, <1>4, ZenonT(60) DEF FinishRun, DeleteRun, ObserveRun, Inv, TypeOK, PipelineRun
  <2>3. Guarded'
    BY <1>0, <2>1 DEF Guarded
  <2>4. QED BY <1>1, <2>1, <2>2, <2>3 DEF NothingNew
<1>5. CASE DeleteRelease
  <2>1. UNCHANGED <<mem, pc>> /\ UNCHANGED objects /\ cache' \in {cache, rel'}
    BY <1>5 DEF DeleteRelease, WriteRelease, unmoved
  <2>2. /\ rel'.finalizer = rel.finalizer
        /\ rel.deleting => rel'.deleting
        /\ rel.finalizer => rel'.present = rel.present
    BY <1>0, <1>5 DEF DeleteRelease, WriteRelease, Inv, TypeOK, Release
  <2>3. ~rel.finalizer => rel'.deleting = rel.deleting
    BY <1>0, <1>5 DEF DeleteRelease, WriteRelease, Inv, TypeOK, Release
  <2>4. Guarded'
    BY <1>0, <2>1, <2>2, <2>3 DEF Guarded
  <2>5. QED BY <1>1, <2>1, <2>4, UnchangedIsQuiet
<1>6. CASE ObserveRelease
  <2>1. UNCHANGED <<rel, mem, pc>> /\ UNCHANGED objects /\ cache' = rel
    BY <1>6 DEF ObserveRelease, unmoved
  <2>2. Guarded'
    BY <1>0, <2>1 DEF Guarded
  <2>3. QED BY <1>1, <2>1, <2>2, UnchangedIsQuiet
<1>7. CASE Restart
  <2>1. UNCHANGED <<rel, made>> /\ cache' = rel /\ pc' = "idle"
    BY <1>7 DEF Restart, StopProcessing
  <2>2. \A x \in runs' : \E y \in runs : x.id = y.id
    BY <1>0, <1>7 DEF Restart, Inv, TypeOK, PipelineRun
  <2>3. Guarded'
    BY <1>0, <2>1 DEF Guarded, AfterFinalizer
  <2>4. QED BY <1>1, <2>1, <2>2, <2>3 DEF NothingNew
<1>8. QED BY <1>2, <1>3, <1>4, <1>5, <1>6, <1>7

\* The invariant holds when the Release is created.
LEMMA FinalizerInit == Init => FinalizerInv
<1> SUFFICES ASSUME Init PROVE FinalizerInv
  OBVIOUS
<1>1. Guarded /\ Numbered
  BY DEF Init, Guarded, Numbered, NewRelease, AfterFinalizer
<1>2. QED BY <1>1, InvInit DEF FinalizerInv

\* Every step is safe and preserves the invariant.
LEMMA FinalizerNext == FinalizerInv /\ [Next]_vars => FinalizerInv' /\ Safe
<1> SUFFICES ASSUME FinalizerInv, [Next]_vars PROVE FinalizerInv' /\ Safe
  OBVIOUS
<1>1. Inv'
  BY InvNext DEF FinalizerInv
<1>2. runs' \subseteq PipelineRun
  BY <1>1 DEF Inv, TypeOK
<1>3. Safe
  BY <1>2, OperationIsSafe, SurroundingsAreSafe DEF Next, Reconcile
<1>4. QED BY <1>1, <1>3 DEF FinalizerInv, Safe

\* With any plans and bounds, and however old the cached copies are: whenever a
\* PipelineRun is created, the Release is there and carries the finalizer through
\* which EnsureFinalizersAreCalled will delete the PipelineRun.
THEOREM CreationIsGuarded == Spec => RunsAreCreatedUnderFinalizer
<1>1. Spec => []FinalizerInv
  BY FinalizerInit, FinalizerNext, PTL DEF Spec
<1>2. FinalizerInv /\ [Next]_vars => [\A x \in runs' : x.id > made => rel.present /\ rel.finalizer]_vars
  BY FinalizerNext DEF Safe
<1>3. QED BY <1>1, <1>2, PTL DEF Spec, RunsAreCreatedUnderFinalizer
=============================================================================
