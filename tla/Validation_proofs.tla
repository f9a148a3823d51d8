-------------------------- MODULE Validation_proofs --------------------------
(***************************************************************************)
(* Proofs about Validation for every set of users, names, ReleasePlans,    *)
(* ReleasePlanAdmissions and Snapshots and for every bound.                *)
(***************************************************************************)
EXTENDS Validation, TLAPS

\* The fields of a status.
LEMMA StatusFields ==
  DOMAIN NewStatus = {"automated", "author", "standing", "target", "expiration", "conds"}
BY DEF NewStatus

\* What a merge patch leaves in the API server, field by field (client.MergeFrom).
LEMMA PatchedFields ==
  ASSUME release \in Release, base \in Release, NEW new \in Release
  PROVE  LET r == Patched(new)
             pick(f) == IF new.status[f] # base.status[f] THEN new.status[f] ELSE release.status[f]
         IN  /\ r \in Release
             /\ r.exists = release.exists /\ r.spec = release.spec /\ r.labels = release.labels
             /\ r.status.automated = pick("automated")
             /\ r.status.author = pick("author")
             /\ r.status.standing = pick("standing")
             /\ r.status.target = pick("target")
             /\ r.status.expiration = pick("expiration")
             /\ r.status.conds = pick("conds")
<1> DEFINE pick(f) == IF new.status[f] # base.status[f] THEN new.status[f] ELSE release.status[f]
           s == [f \in DOMAIN NewStatus |-> pick(f)]
<1>1. /\ s["automated"] = pick("automated") /\ s["author"] = pick("author")
      /\ s["standing"] = pick("standing") /\ s["target"] = pick("target")
      /\ s["expiration"] = pick("expiration") /\ s["conds"] = pick("conds")
  BY StatusFields
<1>2. s \in Status
  <2>1. /\ s["automated"] \in BOOLEAN /\ s["author"] \in Authors \cup {None}
        /\ s["standing"] \in BOOLEAN /\ s["target"] \in {None, "own", "other"}
        /\ s["expiration"] \in Nat \cup {-1} /\ s["conds"] \in Conditions
    BY <1>1 DEF Release, Status
  <2>2. s = [automated |-> s["automated"], author |-> s["author"], standing |-> s["standing"],
             target |-> s["target"], expiration |-> s["expiration"], conds |-> s["conds"]]
    BY StatusFields
  <2> HIDE DEF s
  <2>3. QED BY <2>1, <2>2 DEF Status
<1>3. Patched(new) = [release EXCEPT !.status = s]
  BY DEF Patched
<1> HIDE DEF s
<1>4. QED BY <1>1, <1>2, <1>3 DEF Release

-----------------------------------------------------------------------------
(* The invariant. *)

\* What holds of every copy r of the Release s, however old: it is the one that
\* was admitted, and what its status says agrees with that.
Sound(r, s) ==
  /\ r.exists = TRUE
  /\ r.spec = s.spec
  /\ r.labels.author = s.labels.author
  /\ r.status.author = None => r.status.standing = FALSE
  /\ r.status.author # None /\ r.status.standing = FALSE => r.status.author = r.labels.author
  /\ r.status.conds.validated = "succeeded" => r.status.author # None /\ r.status.target # None
  /\ r.status.expiration # -1 /\ r.spec.grace # 0 => r.status.expiration = r.spec.grace

\* Author and target are never taken back: s has them when an older copy r has.
Behind(r, s) ==
  /\ r.status.author # None => s.status.author # None
  /\ r.status.target # None => s.status.target # None

\* What the validations have changed in a.release (m) since they copied it (b).
Found(m, b) ==
  /\ m.status.automated = b.status.automated
  /\ m.status.author # b.status.author => b.status.author = None
  /\ m.status.author = b.status.author => m.status.standing = b.status.standing
  /\ m.status.target = None => b.status.target = None

\* What the next step may rely on.
Reached(p, m) ==
  /\ p \in {"ProcessingResources", "Application", "Author", "PipelineSource", "valid"}
       => m.status.target # None
  /\ p \in {"PipelineSource", "valid"} => m.status.author # None

\* What the API server and the cache hold.
Stored ==
  /\ release.exists = FALSE => release = NoRelease /\ cache = NoRelease
  /\ release.exists = TRUE =>
       /\ Sound(release, release) /\ LabelsNameTheSpec
       /\ creator # None => release.labels.author = creator
       /\ Sound(cache, release) /\ Behind(cache, release)

\* What a reconcile holds.
Held ==
  /\ Sound(mem, release) /\ Sound(base, release) /\ Behind(base, release)
  /\ Found(mem, base)
  /\ Reached(pc, mem)
  /\ pc = "ReleaseIsRunning" => mem = base

\* Changes of a.release go through a patch computed against base; that both are
\* sound and base is behind the API server makes the patched Release sound.
Inv ==
  /\ TypeOK
  /\ Stored
  /\ release.exists = FALSE => pc = "idle" /\ queued = FALSE
  /\ pc # "idle" => Held

\* No Release is a Release: the initial value of every copy.
LEMMA NoReleaseType == NoRelease \in Release /\ NoRelease.exists = FALSE
<1> DEFINE n == CHOOSE n \in Names : TRUE
<1>1. n \in Names
  BY RequestsAssumption
<1>2. NewStatus \in Status
  BY DEF Status, NewStatus, Conditions
<1>3. [name |-> n, grace |-> 0] \in ReleaseSpec
  BY <1>1 DEF ReleaseSpec
<1>4. [automated |-> FALSE, author |-> None, name |-> None] \in Labels
  BY DEF Labels
<1> HIDE DEF n
<1>5. QED
  BY <1>2, <1>3, <1>4 DEF NoRelease, Release, n

\* The invariant holds before the Release is created.
LEMMA InvInit == Init => Inv
<1> SUFFICES ASSUME Init PROVE Inv
  OBVIOUS
<1>1. plan \in Plan /\ admission \in Admission /\ snapshot \in Snapshot
  BY ObjectsAssumption DEF Init
<1>2. edits \in 0..MaxEdits /\ faults \in 0..MaxFaults
  BY BoundsAssumption DEF Init
<1>3. TypeOK
  BY <1>1, <1>2, NoReleaseType DEF Init, TypeOK
<1>4. QED BY <1>3, NoReleaseType DEF Init, Inv, Stored

\* A patch of the adapter leaves a sound Release that has lost nothing.
LEMMA PatchedSound ==
  ASSUME Inv, pc # "idle", NEW new \in Release, Sound(new, release), Found(new, base)
  PROVE  LET r == Patched(new)
         IN  /\ r \in Release /\ Sound(r, r) /\ Behind(release, r)
             /\ r.exists = TRUE /\ r.spec = release.spec /\ r.labels = release.labels
             /\ r.status.automated = release.status.automated
<1> DEFINE r == Patched(new)
<1>1. release \in Release /\ base \in Release
  BY DEF Inv, TypeOK
<1>2. /\ r \in Release
      /\ r.exists = release.exists /\ r.spec = release.spec /\ r.labels = release.labels
      /\ r.status.automated = release.status.automated
      /\ r.status.author \in {new.status.author, release.status.author}
      /\ new.status.author = base.status.author => r.status.author = release.status.author
      /\ new.status.author # base.status.author => r.status.author = new.status.author
      /\ new.status.standing = base.status.standing => r.status.standing = release.status.standing
      /\ new.status.standing # base.status.standing => r.status.standing = new.status.standing
      /\ new.status.target = base.status.target => r.status.target = release.status.target
      /\ new.status.target # base.status.target => r.status.target = new.status.target
      /\ r.status.expiration \in {new.status.expiration, release.status.expiration}
      /\ r.status.conds \in {new.status.conds, release.status.conds}
  BY <1>1, PatchedFields DEF Found
<1> HIDE DEF r
<1>3. Sound(release, release) /\ Sound(base, release) /\ Behind(base, release)
  BY <1>1 DEF Inv, Stored, Held, Release
<1>4. new.status.standing \in BOOLEAN /\ base.status.standing \in BOOLEAN
      /\ release.status.standing \in BOOLEAN
  BY <1>1 DEF Release, Status
<1>5. Behind(release, r)
  BY <1>2, <1>3 DEF Found, Behind
<1>6. Behind(new, r)
  BY <1>2, <1>3 DEF Behind
<1>7. r.status.author = None => r.status.standing = FALSE
  BY <1>2, <1>3, <1>4 DEF Sound, Found
<1>8. r.status.author # None /\ r.status.standing = FALSE => r.status.author = r.labels.author
  BY <1>2, <1>3, <1>4 DEF Sound, Found
<1>9. r.status.conds.validated = "succeeded" => r.status.author # None /\ r.status.target # None
  BY <1>2, <1>3, <1>5, <1>6 DEF Sound, Behind
<1>10. r.status.expiration # -1 /\ r.spec.grace # 0 => r.status.expiration = r.spec.grace
  BY <1>2, <1>3 DEF Sound
<1>11. r.exists = TRUE
  BY <1>2, <1>3 DEF Sound
<1>12. QED
  BY <1>2, <1>5, <1>7, <1>8, <1>9, <1>10, <1>11 DEF Sound, r

-----------------------------------------------------------------------------
(* The ways in which the steps of a reconcile end. *)

\* A write that keeps what was admitted and loses nothing.
LEMMA WriteStep ==
  ASSUME Inv, release.exists = TRUE, NEW r \in Release, WriteRelease(r), Sound(r, r),
         r.spec = release.spec, r.labels.author = release.labels.author,
         r.labels.name = release.labels.name, Behind(release, r), creator' = creator
  PROVE  /\ release' = r /\ cache' \in Release /\ Stored'
         /\ \A s : Sound(s, release) => Sound(s, r)
         /\ \A s : Behind(s, release) => Behind(s, r)
<1>1. release' = r /\ (cache' = cache \/ cache' = release)
  BY DEF WriteRelease
<1>2. /\ release \in Release /\ cache \in Release
      /\ Sound(release, release) /\ Sound(cache, release) /\ Behind(cache, release)
      /\ LabelsNameTheSpec
      /\ creator # None => release.labels.author = creator
  BY DEF Inv, TypeOK, Stored
<1>3. LabelsNameTheSpec'
  BY <1>1, <1>2 DEF LabelsNameTheSpec, Sound
<1>4. /\ \A s : Sound(s, release) => Sound(s, r)
      /\ \A s : Behind(s, release) => Behind(s, r)
  BY DEF Sound, Behind
<1>5. Sound(cache', r) /\ Behind(cache', r)
  BY <1>1, <1>2, <1>4 DEF Behind
<1>6. r.exists = TRUE
  BY DEF Sound
<1>7. QED BY <1>1, <1>2, <1>3, <1>4, <1>5, <1>6 DEF Stored, Sound, Behind

\* Nothing is written.
LEMMA NoWriteStep ==
  ASSUME Inv, NoWrite, creator' = creator
  PROVE  release' = release /\ cache' \in Release /\ Stored'
BY DEF Inv, TypeOK, NoWrite, Stored, Sound, Behind, LabelsNameTheSpec

\* The faults never exceed their bound.
LEMMA FaultType ==
  ASSUME Inv, Fault
  PROVE  faults' \in 0..MaxFaults
BY BoundsAssumption DEF Inv, TypeOK, Fault

\* Nobody takes back that the Release is marked as automated.
Marked == release.status.automated => release'.status.automated

\* What a step of the controller leaves alone, and what it keeps in any case.
Kept ==
  /\ UNCHANGED <<referred, late, creator, edits>>
  /\ release' \in Release /\ cache' \in Release /\ Stored'
  /\ release'.exists = TRUE
  /\ faults' \in 0..MaxFaults
  /\ Marked

\* A step that ends the reconcile.
LEMMA EndStep ==
  ASSUME Inv, Kept, RequeueWithError \/ StopProcessing
  PROVE  Inv' /\ Marked
<1>1. pc' = "idle" /\ mem' = NoRelease /\ base' = NoRelease /\ queued' \in BOOLEAN
  BY DEF RequeueWithError, StopProcessing, Inv, TypeOK
<1>2. TypeOK'
  BY <1>1, NoReleaseType DEF Inv, TypeOK, Kept, referred
<1>3. QED BY <1>1, <1>2 DEF Inv, Kept

\* A step after which the next operation works on r.
LEMMA ContinueStep ==
  ASSUME Inv, Kept, NEW r \in Release, Sound(r, release'), Behind(r, release'),
         NEW next \in {"PipelineDefined", "ApplicationMetadataIsSet", "ExpirationTimeIsAdded"},
         Continue(next, r)
  PROVE  Inv' /\ Marked
<1>1. pc' = next /\ mem' = r /\ base' = r /\ queued' \in BOOLEAN
  BY DEF Continue, Inv, TypeOK
<1>2. TypeOK'
  BY <1>1 DEF Inv, TypeOK, Kept, referred
<1>3. Found(r, r) /\ Reached(next, r)
  BY DEF Found, Reached
<1>4. Held'
  BY <1>1, <1>3 DEF Held
<1>5. QED BY <1>2, <1>4 DEF Inv, Kept

\* A step after which the validation goes on with r.
LEMMA ProceedStep ==
  ASSUME Inv, pc # "idle", Kept, release' = release, NEW r \in Release,
         Sound(r, release), Found(r, base),
         NEW next \in {"ProcessingResources", "Application", "Author", "PipelineSource",
                       "valid", "invalid"},
         Reached(next, r), Proceed(next, r)
  PROVE  Inv' /\ Marked
<1>1. pc' = next /\ mem' = r /\ base' = base /\ queued' \in BOOLEAN
  BY DEF Proceed, Inv, TypeOK
<1>2. TypeOK'
  BY <1>1 DEF Inv, TypeOK, Kept, referred
<1>3. Sound(base, release) /\ Behind(base, release)
  BY DEF Inv, Held
<1>4. Held'
  BY <1>1, <1>3 DEF Held
<1>5. QED BY <1>2, <1>4 DEF Inv, Kept

\* A verdict against the Release changes one condition.
LEMMA InvalidStep ==
  ASSUME Inv, pc # "idle", Kept, release' = release, NEW r \in Release,
         Sound(r, release), Found(r, base), Invalid(r)
  PROVE  Inv' /\ Marked
<1> DEFINE s == MarkValidationFailed(r)
<1>1. /\ s \in Release /\ s.exists = r.exists /\ s.spec = r.spec /\ s.labels = r.labels
      /\ s.status.automated = r.status.automated /\ s.status.author = r.status.author
      /\ s.status.standing = r.status.standing /\ s.status.target = r.status.target
      /\ s.status.expiration = r.status.expiration /\ s.status.conds.validated = "failed"
  BY DEF MarkValidationFailed, Release, Status, Conditions
<1> HIDE DEF s
<1>2. Sound(s, release) /\ Found(s, base) /\ Reached("invalid", s)
  BY <1>1 DEF Sound, Found, Reached
<1>3. Proceed("invalid", s)
  BY DEF Invalid, s
<1>4. QED BY <1>1, <1>2, <1>3, ProceedStep

\* A call that fails ends the reconcile or is a verdict.
LEMMA ReadFailsStep ==
  ASSUME Inv, pc # "idle", UNCHANGED <<referred, late, creator, edits>>, NoWrite, ReadFails
  PROVE  Inv' /\ Marked
<1>1. mem \in Release /\ Held /\ release.exists = TRUE /\ release \in Release
  BY DEF Inv, TypeOK, Release
<1>2. Kept
  BY <1>1, NoWriteStep, FaultType DEF ReadFails, Kept, Marked
<1>3. QED
  BY <1>1, <1>2, NoWriteStep, EndStep, InvalidStep DEF ReadFails, Held

\* The patch of a status that succeeds.
LEMMA PatchStep ==
  ASSUME Inv, pc # "idle", NEW new \in Release, Sound(new, release), Found(new, base),
         WriteRelease(Patched(new)), UNCHANGED <<referred, late, creator, edits>>, UNCHANGED faults
  PROVE  Kept /\ Sound(release', release') /\ Behind(release', release')
<1> DEFINE r == Patched(new)
<1>1. /\ r \in Release /\ Sound(r, r) /\ Behind(release, r)
      /\ r.exists = TRUE /\ r.spec = release.spec /\ r.labels = release.labels
      /\ r.status.automated = release.status.automated
  BY PatchedSound
<1>2. release.exists = TRUE /\ faults \in 0..MaxFaults
  BY DEF Inv, TypeOK, Release
<1> HIDE DEF r
<1>3. release' = r /\ cache' \in Release /\ Stored'
  BY <1>1, <1>2, WriteStep DEF r
<1>4. QED BY <1>1, <1>2, <1>3 DEF Kept, Behind, Marked

\* A patch after which the reconcile goes on with the answer, or which fails.
LEMMA PatchStatusStep ==
  ASSUME Inv, pc # "idle", NEW new \in Release, Sound(new, release), Found(new, base),
         NEW next \in {"PipelineDefined", "ApplicationMetadataIsSet", "ExpirationTimeIsAdded"},
         PatchStatus(new, next), UNCHANGED <<referred, late, creator, edits>>
  PROVE  Inv' /\ Marked
<1>1. CASE WriteRelease(Patched(new)) /\ Continue(next, release') /\ UNCHANGED faults
  BY <1>1, PatchStep, ContinueStep DEF Kept
<1>2. CASE Fault /\ RequeueWithError /\ NoWrite
  <2>1. release.exists = TRUE /\ release \in Release
    BY DEF Inv, TypeOK, Release
  <2>2. Kept
    BY <1>2, <2>1, NoWriteStep, FaultType DEF Kept, Marked
  <2>3. QED BY <1>2, <2>2, EndStep
<1>3. QED BY <1>1, <1>2 DEF PatchStatus

-----------------------------------------------------------------------------
(* The surroundings. *)

\* A copy that changes only in its labels, not in the author, stays sound.
LEMMA RelabelSound ==
  ASSUME NEW r \in Release, NEW s, Sound(r, s), NEW l \in Labels, l.author = r.labels.author
  PROVE  LET q == [r EXCEPT !.labels = l]
         IN  q \in Release /\ Sound(q, s) /\ q.spec = r.spec /\ q.labels = l
             /\ q.status = r.status /\ q.exists = r.exists
BY DEF Sound, Release

\* A new Release is labelled with its creator or, when automated, as requested.
LEMMA CreateReleaseInv == Inv /\ CreateRelease => Inv' /\ Marked
<1> SUFFICES ASSUME Inv, CreateRelease PROVE Inv' /\ Marked
  OBVIOUS
<1>1. PICK user \in Users, q \in Requests :
        /\ ValidateCreate(Default(WithAuthor(user, q)))
        /\ release' = Default(WithAuthor(user, q))
        /\ creator' = IF q.labels.automated THEN None ELSE AuthorOf[user]
  BY DEF CreateRelease
<1> DEFINE a == WithAuthor(user, q)
           r == Default(a)
<1>2. q \in Release /\ q.exists = TRUE /\ q.status = NewStatus
  <2>1. NewStatus \in Status
    BY NoReleaseType DEF Release, NoRelease
  <2>2. QED BY <2>1, RequestsAssumption DEF Requests, Release, ReleaseSpec
<1>3. /\ a \in Release /\ a.exists = TRUE /\ a.status = NewStatus
      /\ creator' # None => a.labels.author = creator'
      /\ creator' \in Authors \cup {None}
  BY <1>1, <1>2 DEF WithAuthor, Release, Labels, Authors
<1> HIDE DEF a
<1>4. plan \in Plan
  BY DEF Inv, TypeOK
<1>5. /\ r \in Release /\ r.exists = TRUE /\ r.status = NewStatus
      /\ r.labels.name = r.spec.name /\ r.labels.author = a.labels.author
  BY <1>3, <1>4 DEF Default, Release, Labels, ReleaseSpec, Plan
<1>6. r.spec.name \notin LongNames
  BY <1>1 DEF ValidateCreate, a
<1> HIDE DEF r
<1>7. Sound(r, r) /\ Behind(r, r)
  BY <1>5 DEF Sound, Behind, NewStatus
<1>8. release' = r /\ cache' = r
  BY <1>1 DEF CreateRelease, r, a
<1>9. Stored'
  BY <1>3, <1>5, <1>6, <1>7, <1>8 DEF Stored, LabelsNameTheSpec
<1>10. TypeOK'
  BY <1>3, <1>5, <1>8 DEF Inv, TypeOK, CreateRelease, referred
<1>11. pc' = "idle"
  BY <1>2 DEF Inv, TypeOK, Release, CreateRelease
<1>12. Marked
  BY <1>2 DEF Inv, TypeOK, Release, CreateRelease, Stored, NoRelease, NewStatus, Marked
<1>13. QED BY <1>5, <1>8, <1>9, <1>10, <1>11, <1>12 DEF Inv

\* What a reconcile holds stays sound when somebody else writes.
LEMMA ForeignWrite ==
  ASSUME Inv, release.exists = TRUE, NEW r \in Release, WriteRelease(r), Sound(r, r),
         r.spec = release.spec, r.labels.author = release.labels.author,
         r.labels.name = release.labels.name, Behind(release, r),
         release.status.automated => r.status.automated,
         UNCHANGED <<referred, mem, base, pc, queued, late, creator, faults>>, edits' \in 0..MaxEdits
  PROVE  Inv' /\ Marked
<1>1. /\ release' = r /\ cache' \in Release /\ Stored'
      /\ \A s : Sound(s, release) => Sound(s, r)
      /\ \A s : Behind(s, release) => Behind(s, r)
  BY WriteStep
<1>2. TypeOK'
  BY <1>1 DEF Inv, TypeOK, referred
<1>3. pc # "idle" => Held'
  BY <1>1 DEF Inv, Held
<1>4. QED BY <1>1, <1>2, <1>3 DEF Inv, Sound, Marked

\* ValidateUpdate lets nobody change the author, the name or the spec.
LEMMA UpdateReleaseInv == Inv /\ UpdateRelease => Inv' /\ Marked
<1> SUFFICES ASSUME Inv, UpdateRelease PROVE Inv' /\ Marked
  OBVIOUS
<1>1. PICK l \in Labels : /\ ValidateUpdate(release, [release EXCEPT !.labels = l])
                          /\ WriteRelease([release EXCEPT !.labels = l])
  BY DEF UpdateRelease
<1> DEFINE r == [release EXCEPT !.labels = l]
<1>2. release \in Release /\ release.exists = TRUE /\ edits' \in 0..MaxEdits
  BY BoundsAssumption DEF Inv, TypeOK, Release, UpdateRelease, Edit
<1>3. Sound(release, release)
  BY <1>2 DEF Inv, Stored
<1>4. l.author = release.labels.author /\ l.name = release.labels.name
  BY <1>1, <1>2 DEF ValidateUpdate, Release
<1>5. /\ r \in Release /\ Sound(r, release) /\ r.spec = release.spec /\ r.labels = l
      /\ r.status = release.status
  BY <1>2, <1>3, <1>4, RelabelSound
<1> HIDE DEF r
<1>6. Sound(r, r) /\ Behind(release, r)
  BY <1>5 DEF Sound, Behind
<1>7. WriteRelease(r)
  BY <1>1 DEF r
<1>8. UNCHANGED <<referred, mem, base, pc, queued, late, creator, faults>>
  BY DEF UpdateRelease
<1>9. QED BY <1>2, <1>4, <1>5, <1>6, <1>7, <1>8, ForeignWrite

\* The mark of the service that created the Release changes nothing else.
LEMMA SetAutomatedInv == Inv /\ SetAutomated => Inv' /\ Marked
<1> SUFFICES ASSUME Inv, SetAutomated PROVE Inv' /\ Marked
  OBVIOUS
<1> DEFINE r == [release EXCEPT !.status.automated = TRUE]
<1>1. release \in Release /\ release.exists = TRUE /\ edits' \in 0..MaxEdits
  BY DEF Inv, TypeOK, Release, SetAutomated
<1>2. Sound(release, release)
  BY <1>1 DEF Inv, Stored
<1>3. /\ r \in Release /\ r.exists = TRUE /\ r.spec = release.spec /\ r.labels = release.labels
      /\ r.status.author = release.status.author /\ r.status.standing = release.status.standing
      /\ r.status.target = release.status.target /\ r.status.conds = release.status.conds
      /\ r.status.expiration = release.status.expiration /\ r.status.automated = TRUE
  BY <1>1 DEF Release, Status
<1>4. WriteRelease(r) /\ UNCHANGED <<referred, mem, base, pc, queued, late, creator, faults>>
  BY DEF SetAutomated
<1> HIDE DEF r
<1>5. Sound(r, r) /\ Behind(release, r)
  BY <1>2, <1>3 DEF Sound, Behind
<1>6. QED BY <1>1, <1>3, <1>4, <1>5, ForeignWrite

\* What a step that touches no copy of the Release keeps.
LEMMA OtherStep ==
  ASSUME Inv, UNCHANGED <<release, cache, mem, base, pc, creator>>, TypeOK',
         release.exists = FALSE => queued' = FALSE
  PROVE  Inv' /\ Marked
<1>1. Stored'
  BY DEF Inv, Stored, LabelsNameTheSpec, Sound, Behind
<1>2. pc # "idle" => Held'
  BY DEF Inv, Held, Sound, Behind, Found, Reached
<1>3. QED BY <1>1, <1>2 DEF Inv, Marked

\* The author webhook keeps a ReleasePlan well formed.
LEMMA EditPlanInv == Inv /\ EditPlan => Inv' /\ Marked
<1> SUFFICES ASSUME Inv, EditPlan PROVE Inv' /\ Marked
  OBVIOUS
<1>1. PICK user \in Users, q \in Plans : plan' = handleReleasePlan(user, q)
  BY DEF EditPlan
<1>2. q \in Plan /\ AuthorOf[user] \in Authors
  BY ObjectsAssumption DEF Authors
<1>3. plan' \in Plan
  <2>1. q.attribution \in BOOLEAN
    BY <1>2 DEF Plan
  <2>2. \/ plan' = [q EXCEPT !.author = None]
        \/ plan' = [q EXCEPT !.author = AuthorOf[user]]
        \/ plan' = q
    BY <1>1, <2>1 DEF handleReleasePlan
  <2>3. QED BY <1>2, <2>2 DEF Plan
<1>4. edits' \in 0..MaxEdits
  BY BoundsAssumption DEF Inv, TypeOK, EditPlan, Edit
<1>5. TypeOK'
  BY <1>3, <1>4 DEF Inv, TypeOK, EditPlan
<1>6. QED BY <1>5, OtherStep DEF EditPlan, Inv

\* The other objects may change at any time.
LEMMA EditOthersInv == Inv /\ EditOthers => Inv' /\ Marked
<1> SUFFICES ASSUME Inv, EditOthers PROVE Inv' /\ Marked
  OBVIOUS
<1>1. edits' \in 0..MaxEdits
  BY BoundsAssumption DEF Inv, TypeOK, EditOthers, Edit
<1>2. admission' \in Admission /\ snapshot' \in Snapshot
  BY ObjectsAssumption DEF Inv, TypeOK, EditOthers
<1>3. TypeOK'
  BY <1>1, <1>2 DEF Inv, TypeOK, EditOthers
<1>4. QED BY <1>3, OtherStep DEF EditOthers, Inv

\* Time passes.
LEMMA FiveMinutesPassInv == Inv /\ FiveMinutesPass => Inv' /\ Marked
<1> SUFFICES ASSUME Inv, FiveMinutesPass PROVE Inv' /\ Marked
  OBVIOUS
<1>1. TypeOK'
  BY DEF Inv, TypeOK, FiveMinutesPass, referred
<1>2. QED BY <1>1, OtherStep DEF FiveMinutesPass, Inv

\* There is no PipelineRun without a Release.
LEMMA PipelineRunEventInv == Inv /\ PipelineRunEvent => Inv' /\ Marked
<1> SUFFICES ASSUME Inv, PipelineRunEvent PROVE Inv' /\ Marked
  OBVIOUS
<1>1. TypeOK'
  BY DEF Inv, TypeOK, PipelineRunEvent, referred
<1>2. release # NoRelease
  BY DEF PipelineRunEvent, NoRelease, NewStatus
<1>3. release.exists # FALSE
  BY <1>2 DEF Inv, Stored
<1>4. QED BY <1>1, <1>3, OtherStep DEF PipelineRunEvent, Inv

\* A synced cache holds what the API server holds.
LEMMA SyncedCache ==
  ASSUME Inv, release' = release, cache' = release, creator' = creator
  PROVE  Stored'
BY DEF Inv, Stored, LabelsNameTheSpec, Sound, Behind

\* The informer catches up.
LEMMA SyncInv == Inv /\ Sync => Inv' /\ Marked
<1> SUFFICES ASSUME Inv, Sync PROVE Inv' /\ Marked
  OBVIOUS
<1>1. Stored'
  BY SyncedCache DEF Sync
<1>2. TypeOK'
  BY DEF Inv, TypeOK, Sync, referred
<1>3. pc # "idle" => Held'
  BY DEF Inv, Sync, Held, Sound, Behind, Found, Reached
<1>4. QED BY <1>1, <1>2, <1>3 DEF Inv, Sync, Marked

\* A restart forgets the reconcile.
LEMMA RestartInv == Inv /\ Restart => Inv' /\ Marked
<1> SUFFICES ASSUME Inv, Restart PROVE Inv' /\ Marked
  OBVIOUS
<1>1. Stored'
  BY SyncedCache DEF Restart
<1>2. release' \in Release /\ cache' \in Release /\ release'.exists = TRUE
  BY DEF Inv, TypeOK, Release, Restart
<1>3. Kept
  BY <1>1, <1>2, FaultType DEF Restart, Kept, Marked
<1>4. QED BY <1>3, EndStep DEF Restart

-----------------------------------------------------------------------------
(* The operations of a reconcile. *)

\* A reconcile is under way.
Working == pc # "idle" /\ UNCHANGED <<referred, late, creator, edits>>

\* What a step of a reconcile starts from.
LEMMA AtWork ==
  ASSUME Inv, Working
  PROVE  /\ Held /\ release.exists = TRUE /\ mem \in Release /\ base \in Release
         /\ plan \in Plan
         /\ faults \in 0..MaxFaults
         /\ UNCHANGED faults \/ Fault => (NoWrite => Kept)
<1>1. Held /\ release.exists = TRUE /\ release \in Release /\ mem \in Release /\ base \in Release
      /\ faults \in 0..MaxFaults /\ plan \in Plan
  BY DEF Inv, TypeOK, Release, Working
<1>2. UNCHANGED faults \/ Fault => (NoWrite => Kept)
  BY <1>1, NoWriteStep, FaultType DEF Kept, Working, Marked
<1>3. QED BY <1>1, <1>2

\* A reconcile begins with the copy in the cache, which may be old.
LEMMA ReconcileInv ==
  ASSUME Inv, Reconcile, UNCHANGED <<referred, late, creator, edits>>
  PROVE  Inv' /\ Marked
<1>1. release.exists = TRUE
  BY DEF Inv, TypeOK, Release, Reconcile
<1>2. release' = release /\ cache' = cache /\ Stored'
  BY NoWriteStep DEF Reconcile, NoWrite
<1>3. mem' = cache /\ base' = cache /\ pc' = "ReleaseIsRunning" /\ queued' = FALSE /\ faults' = faults
  BY DEF Reconcile
<1>4. Sound(cache, release) /\ Behind(cache, release)
  BY <1>1 DEF Inv, Stored
<1>5. TypeOK'
  BY <1>2, <1>3 DEF Inv, TypeOK, referred
<1>6. Held'
  BY <1>2, <1>3, <1>4 DEF Held, Found, Reached
<1>7. QED BY <1>1, <1>2, <1>5, <1>6 DEF Inv, Marked

\* What stays sound when only the condition "released" changes.
LEMMA SoundReleased ==
  ASSUME Inv, Working, NEW c \in {"progressing", "failed"}
  PROVE  LET r == [mem EXCEPT !.status.conds.released = c]
         IN  r \in Release /\ Sound(r, release) /\ Found(r, base)
<1> DEFINE r == [mem EXCEPT !.status.conds.released = c]
<1>1. mem \in Release /\ Held
  BY AtWork
<1>2. /\ r \in Release /\ r.exists = mem.exists /\ r.spec = mem.spec /\ r.labels = mem.labels
      /\ r.status.automated = mem.status.automated /\ r.status.author = mem.status.author
      /\ r.status.standing = mem.status.standing /\ r.status.target = mem.status.target
      /\ r.status.expiration = mem.status.expiration
      /\ r.status.conds.validated = mem.status.conds.validated
  BY <1>1 DEF Release, Status, Conditions
<1> HIDE DEF r
<1>3. Sound(r, release) /\ Found(r, base)
  BY <1>1, <1>2 DEF Held, Sound, Found
<1>4. QED BY <1>2, <1>3 DEF r

\* EnsureReleaseIsRunning patches a condition or changes nothing.
LEMMA EnsureReleaseIsRunningInv ==
  ASSUME Inv, EnsureReleaseIsRunning, UNCHANGED <<referred, late, creator, edits>>
  PROVE  Inv' /\ Marked
<1>1. Working /\ pc = "ReleaseIsRunning"
  BY DEF EnsureReleaseIsRunning, Working
<1>2. /\ Held /\ mem \in Release /\ release.exists = TRUE
      /\ UNCHANGED faults \/ Fault => (NoWrite => Kept)
  BY <1>1, AtWork
<1>3. CASE mem.status.conds.released = "unset"
  <2> DEFINE r == [mem EXCEPT !.status.conds.released = "progressing"]
  <2>1. PatchStatus(r, "PipelineDefined")
    BY <1>3 DEF EnsureReleaseIsRunning
  <2>2. r \in Release /\ Sound(r, release) /\ Found(r, base)
    BY <1>1, SoundReleased
  <2> HIDE DEF r
  <2>3. QED BY <1>1, <2>1, <2>2, PatchStatusStep DEF Working
<1>4. CASE mem.status.conds.released # "unset"
  <2>1. Continue("PipelineDefined", mem) \/ StopProcessing
    BY <1>4 DEF EnsureReleaseIsRunning
  <2>2. Kept /\ release' = release
    BY <1>2, <1>4, NoWriteStep DEF EnsureReleaseIsRunning
  <2>3. Sound(mem, release) /\ Behind(mem, release)
    BY <1>1, <1>2 DEF Held
  <2>4. QED BY <1>2, <2>1, <2>2, <2>3, ContinueStep, EndStep
<1>5. QED BY <1>3, <1>4

\* A validation that ends with a verdict on r.
LEMMA VerdictStep ==
  ASSUME Inv, Working, UNCHANGED faults \/ Fault, NoWrite, NEW r \in Release,
         Sound(r, release), Found(r, base), NEW ok \in BOOLEAN,
         NEW next \in {"ProcessingResources", "Application", "Author", "PipelineSource", "valid"},
         ok => Reached(next, r), Verdict(ok, r, next)
  PROVE  Inv' /\ Marked
<1>1. Kept /\ release' = release
  BY AtWork, NoWriteStep DEF Working
<1>2. CASE ok
  <2>1. Proceed(next, r)
    BY <1>2 DEF Verdict
  <2>2. QED BY <1>1, <1>2, <2>1, ProceedStep DEF Working
<1>3. CASE ~ok
  <2>1. Invalid(r)
    BY <1>3 DEF Verdict
  <2>2. QED BY <1>1, <2>1, InvalidStep DEF Working
<1>4. QED BY <1>2, <1>3

\* The target is set before the verdict.
LEMMA validatePipelineDefinedInv ==
  ASSUME Inv, validatePipelineDefined, UNCHANGED <<referred, late, creator, edits>>
  PROVE  Inv' /\ Marked
<1> DEFINE target == IF ~plan.exists THEN mem.status.target ELSE IF plan.target THEN "other" ELSE "own"
           defined == \/ plan.tenant # "none"
                      \/ plan.target /\ admission.active /\ admission.pipeline # "none"
           ok == plan.exists /\ defined
           r == [mem EXCEPT !.status.target = target]
<1>1. Working /\ NoWrite
  BY DEF validatePipelineDefined, Working
<1>2. /\ Held /\ mem \in Release
      /\ plan.exists \in BOOLEAN /\ plan.target \in BOOLEAN
  BY <1>1, AtWork DEF Plan
<1>3. CASE Verdict(ok, r, "ProcessingResources") /\ UNCHANGED faults
  <2>1. target \in {None, "own", "other"}
    BY <1>2 DEF Release, Status
  <2>2. plan.exists => target # None
    BY DEF None
  <2>3. mem.status.target # None => target # None
    BY DEF None
  <2> HIDE DEF target
  <2>4. /\ r \in Release /\ r.exists = mem.exists /\ r.spec = mem.spec /\ r.labels = mem.labels
        /\ r.status.automated = mem.status.automated /\ r.status.author = mem.status.author
        /\ r.status.standing = mem.status.standing /\ r.status.target = target
        /\ r.status.expiration = mem.status.expiration
        /\ r.status.conds = mem.status.conds
    BY <1>2, <2>1 DEF Release, Status
  <2>5. ok \in BOOLEAN
    BY <1>2
  <2>6. ok => plan.exists
    OBVIOUS
  <2> HIDE DEF r, ok
  <2>7. Sound(r, release) /\ Found(r, base)
    BY <1>2, <2>3, <2>4 DEF Held, Sound, Found
  <2>8. ok => Reached("ProcessingResources", r)
    BY <2>2, <2>4, <2>6 DEF Reached
  <2>9. QED BY <1>1, <1>3, <2>4, <2>5, <2>7, <2>8, VerdictStep
<1>4. CASE ReadFails
  BY <1>1, <1>4, ReadFailsStep DEF Working
<1>5. QED BY <1>3, <1>4 DEF validatePipelineDefined

\* GetSnapshot fails or not.
LEMMA GetSnapshotFaults ==
  ASSUME NEW found, GetSnapshot(found)
  PROVE  UNCHANGED faults \/ Fault
BY DEF GetSnapshot

\* The validations that leave a.release as it is.
LEMMA validateProcessingResourcesInv ==
  ASSUME Inv, validateProcessingResources, UNCHANGED <<referred, late, creator, edits>>
  PROVE  Inv' /\ Marked
<1>1. Working /\ NoWrite /\ pc = "ProcessingResources"
  BY DEF validateProcessingResources, Working
<1>2. /\ Held /\ mem \in Release /\ Sound(mem, release) /\ Found(mem, base)
      /\ Reached("Application", mem)
  BY <1>1, AtWork DEF Held, Reached
<1>3. CASE Proceed("Application", mem) /\ UNCHANGED faults
  BY <1>1, <1>2, <1>3, AtWork, NoWriteStep, ProceedStep DEF Working
<1>4. CASE \E found \in BOOLEAN :
             /\ GetSnapshot(found)
             /\ Verdict(plan.exists /\ ProcessingResourcesExist /\ found, mem, "Application")
  <2>1. PICK found \in BOOLEAN :
             /\ GetSnapshot(found)
             /\ Verdict(plan.exists /\ ProcessingResourcesExist /\ found, mem, "Application")
    BY <1>4
  <2> DEFINE ok == plan.exists /\ ProcessingResourcesExist /\ found
  <2>2. ok \in BOOLEAN
    OBVIOUS
  <2> HIDE DEF ok
  <2>3. Verdict(ok, mem, "Application")
    BY <2>1 DEF ok
  <2>4. QED BY <1>1, <1>2, <2>1, <2>2, <2>3, GetSnapshotFaults, VerdictStep
<1>5. CASE ReadFails
  BY <1>1, <1>5, ReadFailsStep DEF Working
<1>6. QED BY <1>3, <1>4, <1>5 DEF validateProcessingResources

\* The validation of the Application changes nothing either.
LEMMA validateApplicationInv ==
  ASSUME Inv, validateApplication, UNCHANGED <<referred, late, creator, edits>>
  PROVE  Inv' /\ Marked
<1>1. Working /\ NoWrite /\ pc = "Application"
  BY DEF validateApplication, Working
<1>2. /\ Held /\ mem \in Release /\ Sound(mem, release) /\ Found(mem, base)
      /\ Reached("Author", mem)
  BY <1>1, AtWork DEF Held, Reached
<1>3. CASE \E found \in BOOLEAN :
             /\ GetSnapshot(found)
             /\ Verdict(plan.exists /\ found /\ plan.application = snapshot.application,
                        mem, "Author")
  <2>1. PICK found \in BOOLEAN :
             /\ GetSnapshot(found)
             /\ Verdict(plan.exists /\ found /\ plan.application = snapshot.application,
                        mem, "Author")
    BY <1>3
  <2> DEFINE ok == plan.exists /\ found /\ plan.application = snapshot.application
  <2>2. ok \in BOOLEAN
    OBVIOUS
  <2> HIDE DEF ok
  <2>3. Verdict(ok, mem, "Author")
    BY <2>1 DEF ok
  <2>4. QED BY <1>1, <1>2, <2>1, <2>2, <2>3, GetSnapshotFaults, VerdictStep
<1>4. CASE ReadFails
  BY <1>1, <1>4, ReadFailsStep DEF Working
<1>5. QED BY <1>3, <1>4 DEF validateApplication

\* An author is recorded once: the label's, or the ReleasePlan's with a standing
\* authorization.
LEMMA AttributeStep ==
  ASSUME Inv, Working, NoWrite, UNCHANGED faults, pc = "Author", mem.status.author = None,
         NEW author \in Authors \cup {None}, NEW standing \in BOOLEAN, Attribute(author, standing),
         standing = FALSE => author = mem.labels.author
  PROVE  Inv' /\ Marked
<1>1. Kept /\ release' = release /\ Held /\ mem \in Release
  BY AtWork, NoWriteStep DEF Working
<1>2. Sound(mem, release) /\ Found(mem, base)
  BY <1>1 DEF Held
<1>3. CASE author = None
  BY <1>1, <1>2, <1>3, InvalidStep DEF Attribute, Working
<1>4. CASE author # None
  <2> DEFINE r == [mem EXCEPT !.status.author = author, !.status.standing = @ \/ standing]
  <2>1. mem.status.standing = FALSE /\ base.status.author = None
    BY <1>2 DEF Sound, Found
  <2>2. /\ r \in Release /\ r.exists = mem.exists /\ r.spec = mem.spec /\ r.labels = mem.labels
        /\ r.status.automated = mem.status.automated /\ r.status.author = author
        /\ r.status.standing = standing /\ r.status.target = mem.status.target
        /\ r.status.expiration = mem.status.expiration
        /\ r.status.conds = mem.status.conds
    BY <1>1, <2>1 DEF Release, Status
  <2>3. Proceed("PipelineSource", r)
    BY <1>4 DEF Attribute
  <2> HIDE DEF r
  <2>4. Sound(r, release)
    BY <1>2, <1>4, <2>2 DEF Sound
  <2>5. Found(r, base)
    BY <1>2, <1>4, <2>1, <2>2 DEF Found
  <2>6. Reached("PipelineSource", r)
    BY <1>1, <1>4, <2>2 DEF Held, Reached
  <2>7. QED BY <1>1, <2>2, <2>3, <2>4, <2>5, <2>6, ProceedStep DEF Working
<1>5. QED BY <1>3, <1>4

\* The author is looked for when none is recorded.
LEMMA validateAuthorInv ==
  ASSUME Inv, validateAuthor, UNCHANGED <<referred, late, creator, edits>>
  PROVE  Inv' /\ Marked
<1>1. Working /\ NoWrite /\ pc = "Author"
  BY DEF validateAuthor, Working
<1>2. /\ Held /\ mem \in Release /\ plan \in Plan /\ Sound(mem, release) /\ Found(mem, base)
      /\ Reached("Author", mem)
  BY <1>1, AtWork DEF Held
<1>3. CASE mem.status.author # None /\ Proceed("PipelineSource", mem) /\ UNCHANGED faults
  <2>1. Reached("PipelineSource", mem)
    BY <1>2, <1>3 DEF Reached
  <2>2. Kept /\ release' = release
    BY <1>1, <1>3, AtWork, NoWriteStep
  <2>3. QED BY <1>1, <1>2, <1>3, <2>1, <2>2, ProceedStep DEF Working
<1>4. CASE (Invalid(mem) \/ RequeueWithError) /\ UNCHANGED faults
  BY <1>1, <1>2, <1>4, AtWork, NoWriteStep, InvalidStep, EndStep DEF Working
<1>5. CASE mem.status.author = None /\ mem.labels.automated /\ Attribute(plan.author, TRUE)
           /\ UNCHANGED faults
  BY <1>1, <1>2, <1>5, AttributeStep DEF Plan
<1>6. CASE mem.status.author = None /\ Attribute(mem.labels.author, FALSE) /\ UNCHANGED faults
  BY <1>1, <1>2, <1>6, AttributeStep DEF Release, Labels
<1>7. CASE ReadFails
  BY <1>1, <1>7, ReadFailsStep DEF Working
<1>8. QED
  <2>1. mem.labels.automated \in BOOLEAN /\ plan.exists \in BOOLEAN
    BY <1>2 DEF Release, Labels, Plan
  <2>2. CASE mem.status.author # None
    BY <1>3, <2>2 DEF validateAuthor
  <2>3. CASE mem.status.author = None /\ mem.labels.automated /\ ~mem.status.automated
    BY <1>4, <2>3 DEF validateAuthor
  <2>4. CASE mem.status.author = None /\ ~(mem.labels.automated /\ ~mem.status.automated)
    <3>1. \/ ReadFails
          \/ /\ CASE ~plan.exists -> Invalid(mem)
                  [] plan.exists /\ mem.labels.automated -> Attribute(plan.author, TRUE)
                  [] plan.exists /\ ~mem.labels.automated -> Attribute(mem.labels.author, FALSE)
             /\ UNCHANGED faults
      BY <2>4 DEF validateAuthor
    <3>2. QED BY <1>4, <1>5, <1>6, <1>7, <2>1, <2>4, <3>1
  <2>5. QED BY <2>2, <2>3, <2>4

\* The last validation changes nothing.
LEMMA validatePipelineSourceInv ==
  ASSUME Inv, validatePipelineSource, UNCHANGED <<referred, late, creator, edits>>
  PROVE  Inv' /\ Marked
<1>1. Working /\ NoWrite /\ pc = "PipelineSource"
  BY DEF validatePipelineSource, Working
<1>2. /\ Held /\ mem \in Release /\ Sound(mem, release) /\ Found(mem, base)
      /\ Reached("valid", mem)
  BY <1>1, AtWork DEF Held, Reached
<1>3. CASE \E ok \in BOOLEAN : Verdict(ok, mem, "valid") /\ UNCHANGED faults
  BY <1>1, <1>2, <1>3, VerdictStep
<1>4. CASE ReadFails
  BY <1>1, <1>4, ReadFailsStep DEF Working
<1> DEFINE sources == {plan.tenant, plan.final}
                        \cup (IF plan.target THEN {admission.pipeline} ELSE {})
           allowed(debug) == /\ plan.exists
                             /\ plan.target => admission.active
                             /\ debug \/ "cluster" \notin sources
<1>5. \/ \E debug \in BOOLEAN : Verdict(allowed(debug), mem, "valid") /\ UNCHANGED faults
      \/ ReadFails
  BY DEF validatePipelineSource
<1>6. \A debug \in BOOLEAN : allowed(debug) \in BOOLEAN
  OBVIOUS
<1> HIDE DEF allowed
<1>7. QED BY <1>3, <1>4, <1>5, <1>6

\* A verdict for the Release is written with its author and target.
LEMMA EnsureReleaseIsValidInv ==
  ASSUME Inv, EnsureReleaseIsValid, UNCHANGED <<referred, late, creator, edits>>
  PROVE  Inv' /\ Marked
<1> DEFINE conds == mem.status.conds
           judged == CASE pc = "valid" /\ conds.released = "progressing" ->
                            [mem EXCEPT !.status.conds.validated = "succeeded"]
                       [] pc = "valid" /\ conds.released # "progressing" -> mem
                       [] pc = "invalid" -> [mem EXCEPT !.status.conds.released = "failed"]
<1>1. Working /\ pc \in {"valid", "invalid"}
  BY DEF EnsureReleaseIsValid, Working
<1>2. Held /\ mem \in Release /\ Sound(mem, release) /\ Found(mem, base)
  BY <1>1, AtWork DEF Held
<1>3. judged \in Release /\ Sound(judged, release) /\ Found(judged, base)
  <2>1. CASE pc = "valid" /\ conds.released = "progressing"
    <3> DEFINE r == [mem EXCEPT !.status.conds.validated = "succeeded"]
    <3>1. judged = r
      BY <2>1
    <3>2. mem.status.author # None /\ mem.status.target # None
      BY <1>2, <2>1 DEF Held, Reached
    <3>3. /\ r \in Release /\ r.exists = mem.exists /\ r.spec = mem.spec /\ r.labels = mem.labels
          /\ r.status.automated = mem.status.automated /\ r.status.author = mem.status.author
          /\ r.status.standing = mem.status.standing /\ r.status.target = mem.status.target
          /\ r.status.expiration = mem.status.expiration
      BY <1>2 DEF Release, Status, Conditions
    <3> HIDE DEF r, judged
    <3>4. QED BY <1>2, <3>1, <3>2, <3>3 DEF Sound, Found
  <2>2. CASE pc = "valid" /\ conds.released # "progressing"
    <3>1. judged = mem
      BY <2>2
    <3>2. QED BY <1>2, <3>1
  <2>3. CASE pc = "invalid"
    <3>1. judged = [mem EXCEPT !.status.conds.released = "failed"]
      BY <2>3
    <3> HIDE DEF judged
    <3>2. QED BY <1>1, <3>1, SoundReleased
  <2>4. QED BY <1>1, <2>1, <2>2, <2>3
<1>4. \/ PatchStatus(judged, "ApplicationMetadataIsSet")
      \/ WriteRelease(Patched(judged)) /\ StopProcessing /\ UNCHANGED faults
  BY DEF EnsureReleaseIsValid
<1> HIDE DEF judged
<1>5. QED BY <1>1, <1>3, <1>4, PatchStatusStep, PatchStep, EndStep DEF Working

\* The answer of the patch of labels is the Release itself.
LEMMA EnsureApplicationMetadataIsSetInv ==
  ASSUME Inv, EnsureApplicationMetadataIsSet, UNCHANGED <<referred, late, creator, edits>>
  PROVE  Inv' /\ Marked
<1>1. Working /\ NoWrite
  BY DEF EnsureApplicationMetadataIsSet, Working
<1>2. \/ Continue("ExpirationTimeIsAdded", release)
      \/ RequeueWithError
  BY DEF EnsureApplicationMetadataIsSet
<1>3. UNCHANGED faults \/ Fault
  BY GetSnapshotFaults DEF EnsureApplicationMetadataIsSet
<1>4. Kept /\ release' = release /\ release.exists = TRUE
  BY <1>1, <1>3, AtWork, NoWriteStep
<1>5. release \in Release /\ Sound(release, release) /\ Behind(release, release)
  BY <1>4 DEF Inv, TypeOK, Stored, Behind
<1>6. QED BY <1>2, <1>4, <1>5, ContinueStep, EndStep

\* The expiration time follows the grace period of the Release when it has one.
LEMMA EnsureReleaseExpirationTimeIsAddedInv ==
  ASSUME Inv, EnsureReleaseExpirationTimeIsAdded, UNCHANGED <<referred, late, creator, edits>>
  PROVE  Inv' /\ Marked
<1>1. Working
  BY DEF EnsureReleaseExpirationTimeIsAdded, Working
<1>2. Held /\ mem \in Release /\ plan \in Plan /\ Sound(mem, release) /\ Found(mem, base)
  BY <1>1, AtWork DEF Held
<1>3. CASE StopProcessing /\ NoWrite /\ UNCHANGED faults
  BY <1>1, <1>3, AtWork, EndStep
<1>4. CASE Fault /\ RequeueWithError /\ NoWrite
  BY <1>1, <1>4, AtWork, EndStep
<1> DEFINE new == [mem EXCEPT !.status.expiration = GracePeriodDays(mem)]
<1>5. CASE WriteRelease(Patched(new)) /\ StopProcessing /\ UNCHANGED faults
  <2>1. GracePeriodDays(mem) \in Nat /\ (mem.spec.grace # 0 => GracePeriodDays(mem) = mem.spec.grace)
    <3>1. mem.spec.grace \in Nat /\ plan.grace \in Nat /\ plan.exists \in BOOLEAN
      BY <1>2 DEF Release, ReleaseSpec, Plan
    <3>2. QED BY <3>1 DEF GracePeriodDays
  <2>2. /\ new \in Release /\ new.exists = mem.exists /\ new.spec = mem.spec
        /\ new.labels = mem.labels
        /\ new.status.automated = mem.status.automated /\ new.status.author = mem.status.author
        /\ new.status.standing = mem.status.standing /\ new.status.target = mem.status.target
        /\ new.status.expiration = GracePeriodDays(mem) /\ new.status.conds = mem.status.conds
    BY <1>2, <2>1 DEF Release, Status
  <2> HIDE DEF new
  <2>3. Sound(new, release) /\ Found(new, base)
    BY <1>2, <2>1, <2>2 DEF Sound, Found
  <2>4. QED BY <1>1, <1>5, <2>2, <2>3, PatchStep, EndStep DEF Working
<1>6. QED BY <1>3, <1>4, <1>5 DEF EnsureReleaseExpirationTimeIsAdded

-----------------------------------------------------------------------------
(* The theorems. *)

\* Every step keeps the invariant.
LEMMA InvNext == Inv /\ [Next]_vars => Inv' /\ Marked
<1> SUFFICES ASSUME Inv, [Next]_vars PROVE Inv' /\ Marked
  OBVIOUS
<1>1. CASE Controller
  BY <1>1, ReconcileInv, EnsureReleaseIsRunningInv, validatePipelineDefinedInv,
     validateProcessingResourcesInv, validateApplicationInv, validateAuthorInv,
     validatePipelineSourceInv, EnsureReleaseIsValidInv, EnsureApplicationMetadataIsSetInv,
     EnsureReleaseExpirationTimeIsAddedInv
  DEF Controller
<1>2. CASE UNCHANGED vars
  <2>1. TypeOK'
    BY <1>2 DEF Inv, TypeOK, vars
  <2>2. QED BY <1>2, <2>1, OtherStep DEF Inv, vars
<1>3. QED
  BY <1>1, <1>2, CreateReleaseInv, UpdateReleaseInv, EditPlanInv, EditOthersInv, SetAutomatedInv,
     FiveMinutesPassInv, SyncInv, PipelineRunEventInv, RestartInv
  DEF Next

\* The invariant holds always.
LEMMA InvAlways == Spec => []Inv
BY InvInit, InvNext, PTL DEF Spec

\* No Release leaves its type: what the API server, the cache and a reconcile
\* hold is a Release, whatever the order of edits, patches and restarts.
THEOREM ValidationTypeCorrect == Spec => []TypeOK
<1>1. Inv => TypeOK
  BY DEF Inv
<1>2. QED BY <1>1, InvAlways, PTL

\* A Release that validation has accepted has an author and a target, for any
\* number of edits between two validations and any lag of the cache
\* (validateAuthor, validatePipelineDefined, client.MergeFrom).
THEOREM AcceptedReleasesAreAttributed == Spec => []ValidatedIsAttributed
<1>1. Inv => ValidatedIsAttributed
  <2> SUFFICES ASSUME Inv PROVE ValidatedIsAttributed
    OBVIOUS
  <2>1. CASE release.exists = TRUE
    BY <2>1 DEF Inv, Stored, Sound, ValidatedIsAttributed
  <2>2. CASE release.exists = FALSE
    BY <2>2 DEF Inv, Stored, NoRelease, NewStatus, ValidatedIsAttributed
  <2>3. QED BY <2>1, <2>2 DEF Inv, TypeOK, Release
<1>2. QED BY <1>1, InvAlways, PTL

\* The author recorded without a standing authorization is the user who created
\* the Release, unless it was created as automated (handleRelease,
\* ValidateUpdate, validateAuthor): the label is the one the webhook wrote, and
\* every copy of the Release has it.
THEOREM RecordedAuthorIsTheCreator == Spec => []AuthorIsTheCreator
<1>1. Inv => AuthorIsTheCreator
  <2> SUFFICES ASSUME Inv PROVE AuthorIsTheCreator
    OBVIOUS
  <2>1. CASE release.exists = TRUE
    BY <2>1 DEF Inv, Stored, Sound, AuthorIsTheCreator
  <2>2. CASE release.exists = FALSE
    BY <2>2 DEF Inv, Stored, NoRelease, NewStatus, AuthorIsTheCreator
  <2>3. QED BY <2>1, <2>2 DEF Inv, TypeOK, Release
<1>2. QED BY <1>1, InvAlways, PTL

\* The labels agree with the spec through creation and updates (Default,
\* ValidateCreate, ValidateUpdate).
THEOREM LabelsFollowTheSpec == Spec => []LabelsNameTheSpec
<1>1. Inv => LabelsNameTheSpec
  BY DEF Inv, Stored, LabelsNameTheSpec, TypeOK, Release
<1>2. QED BY <1>1, InvAlways, PTL

\* The expiration time follows the grace period the Release was admitted with
\* (Default, EnsureReleaseExpirationTimeIsAdded).
THEOREM ExpirationFollowsGracePeriod == Spec => []KeptForGracePeriod
<1>1. Inv => KeptForGracePeriod
  <2> SUFFICES ASSUME Inv PROVE KeptForGracePeriod
    OBVIOUS
  <2>1. CASE release.exists = TRUE
    BY <2>1 DEF Inv, Stored, Sound, KeptForGracePeriod
  <2>2. CASE release.exists = FALSE
    BY <2>2 DEF Inv, Stored, NoRelease, NewStatus, KeptForGracePeriod
  <2>3. QED BY <2>1, <2>2 DEF Inv, TypeOK, Release
<1>2. QED BY <1>1, InvAlways, PTL

\* No patch of the controller, however stale the copy it starts from, takes back
\* the mark another service has set in the meantime (client.MergeFrom).
THEOREM MarkIsKept == Spec => MarkIsNeverLost
<1>1. Inv /\ [Next]_vars => [release.status.automated => release'.status.automated]_vars
  BY InvNext DEF Marked
<1>2. QED BY <1>1, InvAlways, PTL DEF Spec, MarkIsNeverLost
=============================================================================
