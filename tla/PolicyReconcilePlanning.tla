---------------------- MODULE PolicyReconcilePlanning -----------------------
(***************************************************************************)
(* The steps of a reconcile that find, create and retire plans keep the    *)
(* invariant of PolicyReconcileInvariant: one lemma per action saying that *)
(* the replica moves legally and that the rest keeps its type.             *)
(***************************************************************************)
EXTENDS PolicyReconcileInvariant

\* reconcile starts from the policy the watch dispatched.
LEMMA BeginMoves ==
    ASSUME IInv, NEW r \in Replicas, Begin(r)
    PROVE  Moved(r) /\ WorldOK'
<1> DEFINE j == [NoJob EXCEPT !.spec = spec, !.ref = planRef]
<1>1. j \in Jobs
  BY Zenon, NoJobType DEF Jobs, IInv, TypeOK
<1>2. JobOK(plans, next, "idle", NoJob)
  BY NoJobOK DEF IInv
<1>3. /\ j.spec \in Specs /\ j.cur = NoJob.cur /\ j.snap = NoJob.snap /\ j.snap = AbsentPlan
      /\ j.listed = NoJob.listed /\ j.todo = NoJob.todo /\ j.after = "idle"
  BY DEF NoJob, IInv, TypeOK
<1>4. Continue(r, "locking", j) /\ UNCHANGED <<cluster, world>>
  BY DEF Begin
<1> HIDE DEF j
<1>5. JobOK(plans, next, "locking", j)
  BY <1>2, <1>3 DEF JobOK, MatchedAt, ApprovedAt, CopiedAt
<1> QED
  BY <1>1, <1>4, <1>5, Knows, ContinueMoves, WorldStable DEF cluster, Steps

\* Both database locks are taken, or contention ends the reconcile.
LEMMA TakeLockMoves ==
    ASSUME IInv, NEW r \in Replicas, TakeLock(r)
    PROVE  Moved(r) /\ WorldOK'
<1>1. WorldOK' /\ UNCHANGED <<plans, next>>
  BY WorldStable DEF TakeLock, cluster
<1>2. CASE holder[job[r].spec.target] = NoOne
  <2>1. JobOK(plans, next, "recover", job[r])
    BY Knows DEF JobOK, MatchedAt, ApprovedAt, CopiedAt, TakeLock
  <2>2. /\ pc' = [pc EXCEPT ![r] = "recover"]
        /\ job' = [job EXCEPT ![r] = job[r]]
        /\ holder' \in [Targets -> Replicas \cup {NoOne}]
    BY <1>2 DEF TakeLock, Goto, IInv, TypeOK
  <2> QED
    BY Zenon, <1>1, <2>1, <2>2, Knows DEF Moved, Steps
<1>3. CASE holder[job[r].spec.target] # NoOne
  <2>1. /\ pc' = [pc EXCEPT ![r] = "idle"]
        /\ job' = [job EXCEPT ![r] = NoJob]
        /\ holder' \in [Targets -> Replicas \cup {NoOne}]
    BY <1>3 DEF TakeLock, Goto, IInv, TypeOK
  <2>2. JobOK(plans, next, "idle", NoJob)
    BY NoJobOK, Knows
  <2> QED
    BY Zenon, <1>1, <2>1, <2>2, Knows, NoJobType DEF Moved, Steps
<1> QED
  BY <1>1, <1>2, <1>3

\* Plans stuck in Applying are marked Failed before planning.
LEMMA RecoverStuckMoves ==
    ASSUME IInv, NEW r \in Replicas, RecoverStuck(r)
    PROVE  Moved(r) /\ WorldOK'
<1>1. Evolved(plans, next, plans', next')
  <2>1. ASSUME NEW p \in PlanIds
        PROVE  Evolved(plans, next, Patched(plans, p, FailedStatus(plans[p], clock)), next)
    <3>1. plans[p] \in Plans /\ clock \in Nat
      BY Knows
    <3>2. /\ FailedStatus(plans[p], clock) \in Plans
          /\ FailedStatus(plans[p], clock).phase = "Failed"
          /\ FailedStatus(plans[p], clock).digest = plans[p].digest
      BY Zenon, <3>1 DEF FailedStatus, Plans, Phases
    <3> QED
      BY <3>2, Knows, PatchedEvolves DEF GatedPhases
  <2>2. \/ UNCHANGED plans
        \/ \E p \in PlanIds : plans' = Patched(plans, p, FailedStatus(plans[p], clock))
    BY DEF RecoverStuck, get_plan_by_phase, Newest
  <2>3. next' = next
    BY DEF RecoverStuck
  <2> QED
    BY <2>1, <2>2, <2>3, Knows
<1>2. JobOK(plans, next, "inspect", job[r])
  BY Knows DEF JobOK, MatchedAt, ApprovedAt, CopiedAt, RecoverStuck
<1>3. JobOK(plans', next', "inspect", job[r])
  BY <1>1, <1>2, Knows, JobStable
<1> QED
  BY <1>1, <1>3, Knows, ContinueMoves, WorldStable DEF RecoverStuck, Steps

\* The database is inspected and the changes are computed.
LEMMA InspectMoves ==
    ASSUME IInv, NEW r \in Replicas, Inspect(r)
    PROVE  Moved(r) /\ WorldOK'
<1> DEFINE s == job[r].spec
           changes == policy_changes(s.desired, db[s.target])
           step == CASE s.mode = "manual" -> "lookup"
                     [] s.mode # "manual" /\ changes # NoChanges -> "list"
                     [] s.mode = "auto" /\ changes = NoChanges -> "find"
                     [] s.mode = "observe" /\ changes = NoChanges -> "clear"
           after == IF s.mode = "auto" THEN "fetch" ELSE "point"
           j == [job[r] EXCEPT !.changes = changes, !.auth = authority, !.after = after]
<1>1. s \in Specs /\ pc[r] = "inspect"
  BY Knows DEF JobOK, Inspect
<1>2. changes \in Changes
  BY <1>1 DEF policy_changes, Changes, Specs, IInv, TypeOK
<1>3. after \in Steps
  BY DEF Steps
<1> HIDE DEF changes, after
<1>4. /\ j \in Jobs /\ j.spec = s /\ j.cur = job[r].cur /\ j.snap = job[r].snap
      /\ j.listed = job[r].listed /\ j.todo = job[r].todo /\ j.after = after
  BY ZenonT(30), <1>2, <1>3, Knows DEF Jobs, IInv, TypeOK
<1>5. Continue(r, step, j) /\ UNCHANGED <<cluster, world>>
  BY DEF Inspect, changes, after
<1>6. step \in {"lookup", "find", "clear", "list"}
  BY <1>1 DEF Specs, Modes
<1> HIDE DEF j, step
<1>7. JobOK(plans, next, step, j)
  BY <1>1, <1>4, <1>6, Knows DEF JobOK, MatchedAt, ApprovedAt, CopiedAt, after
<1>8. step \in Steps
  BY <1>6 DEF Steps
<1> QED
  BY SMTT(30), <1>4, <1>5, <1>7, <1>8, Knows, ContinueMoves, WorldStable DEF cluster

\* A step that presumes nothing about the plan acted on.
LEMMA Inert ==
    ASSUME NEW ps, NEW nx, NEW from, NEW step, NEW j, JobOK(ps, nx, from, j),
           from \notin {"idle", "cleanup"},
           from \in {"sweep", "retiring"} => j.todo = {},
           step \notin MatchedAt \cup CopiedAt,
           step \notin {"locking", "recover", "inspect", "find", "create"}
    PROVE  JobOK(ps, nx, step, j)
BY DEF JobOK, MatchedAt, ApprovedAt

\* A plan that is there has a rank below next.
LEMMA ExistingRank ==
    ASSUME NEW ps, NEW nx, StoreOK(ps, nx), NEW p \in PlanIds, ps[p].phase # "absent"
    PROVE  p < nx
BY StoreAssumption DEF StoreOK, AbsentPlan, PlanIds

\* A current actionable plan was found and is held as a copy.
LEMMA LookedUpMoves ==
    ASSUME IInv, NEW r \in Replicas, pc[r] = "lookup", UNCHANGED <<cluster, world>>,
           NEW p \in get_current_actionable_plan(plans),
           NEW step \in {"reject", "approve", "planned", "supersede", "list"},
           NEW after \in {"planned", "point"},
           step = "approve" => plans[p].digest = Digest(r),
           Continue(r, step, Holding(r, p, after))
    PROVE  Moved(r) /\ WorldOK'
<1>2. p \in PlanIds /\ Actionable(plans[p])
  BY DEF get_current_actionable_plan, Newest, actionable_policy_plans
<1>3. p < next /\ plans[p] \in Plans /\ plans[p].phase # "absent"
  BY <1>2, ExistingRank, Knows DEF Actionable
<1> DEFINE j == Holding(r, p, after)
<1>11. /\ j \in Jobs /\ j.spec = job[r].spec /\ j.cur = p /\ j.snap = plans[p]
       /\ j.listed = job[r].listed /\ j.todo = job[r].todo /\ j.after = after
       /\ j.changes = job[r].changes
  BY ZenonT(30), <1>2, <1>3, Knows DEF Jobs, Steps, Holding
<1> HIDE DEF j
<1>12. CopyOK(plans, next, p, plans[p])
  BY <1>2, <1>3 DEF CopyOK
<1>13. JobOK(plans, next, step, j)
  BY <1>2, <1>3, <1>11, <1>12, Knows
     DEF JobOK, MatchedAt, ApprovedAt, CopiedAt, Digest
<1>14. step \in Steps
  BY DEF Steps
<1> QED
  BY <1>11, <1>13, <1>14, Knows, ContinueMoves, WorldStable DEF cluster, j

\* The plan found is approved: execute, replace or clear it.
LEMMA LookupApprovedMoves ==
    ASSUME IInv, NEW r \in Replicas, LookupApproved(r)
    PROVE  Moved(r) /\ WorldOK'
<1> DEFINE verdict(p) == decide_approved_plan(plans[p], Digest(r), HasChanges(r))
           steps == [Execute |-> "approve", Clear |-> "supersede", Replace |-> "list"]
<1>1. PICK p \in get_current_actionable_plan(plans) :
          Continue(r, steps[verdict(p)], Holding(r, p, "point"))
  BY DEF LookupApproved
<1>2. /\ steps[verdict(p)] \in {"approve", "supersede", "list"}
      /\ steps[verdict(p)] = "approve" => plans[p].digest = Digest(r)
  BY DEF decide_approved_plan, plan_matches_digest
<1>3. pc[r] = "lookup" /\ UNCHANGED <<cluster, world>>
  BY DEF LookupApproved
<1> QED
  BY <1>1, <1>2, <1>3, LookedUpMoves

\* The plan found is denied.
LEMMA LookupRejectedMoves ==
    ASSUME IInv, NEW r \in Replicas, LookupRejected(r)
    PROVE  Moved(r) /\ WorldOK'
  BY LookedUpMoves DEF LookupRejected

\* The plan found awaits its decision: retain, replace or clear it.
LEMMA LookupPendingMoves ==
    ASSUME IInv, NEW r \in Replicas, LookupPending(r)
    PROVE  Moved(r) /\ WorldOK'
<1> DEFINE verdict(p) == decide_pending_plan(plans[p], Digest(r), HasChanges(r))
           steps == [Retain |-> "planned", Clear |-> "supersede", Replace |-> "list"]
<1>1. PICK p \in get_current_actionable_plan(plans) :
          Continue(r, steps[verdict(p)], Holding(r, p, "planned"))
  BY DEF LookupPending
<1>2. steps[verdict(p)] \in {"planned", "supersede", "list"}
  BY DEF decide_pending_plan
<1>3. pc[r] = "lookup" /\ UNCHANGED <<cluster, world>>
  BY DEF LookupPending
<1> QED
  BY <1>1, <1>2, <1>3, LookedUpMoves

\* No actionable plan was found.
LEMMA LookupNothingMoves ==
    ASSUME IInv, NEW r \in Replicas, LookupNothing(r)
    PROVE  Moved(r) /\ WorldOK'
<1> DEFINE step == IF HasChanges(r) THEN "list" ELSE "clear"
<1>1. step \in {"list", "clear"}
  OBVIOUS
<1>2. Continue(r, step, job[r]) /\ UNCHANGED <<cluster, world>> /\ pc[r] = "lookup"
  BY DEF LookupNothing
<1> HIDE DEF step
<1>3. JobOK(plans, next, step, job[r])
  BY <1>1, <1>2, Knows, Inert DEF MatchedAt, CopiedAt
<1> QED
  BY <1>1, <1>2, <1>3, Knows, ContinueMoves, WorldStable DEF cluster, Steps

\* The job with a new plan to act on and no copy of it.
LEMMA ActOn ==
    ASSUME NEW ps, NEW nx, StoreOK(ps, nx), NEW from, NEW j \in Jobs,
           JobOK(ps, nx, from, j), from \notin {"idle", "cleanup"},
           NEW step, step \notin CopiedAt \cup ApprovedAt,
           NEW k \in Jobs, k.cur < nx,
           k.spec = j.spec, k.changes = j.changes, k.after = j.after,
           k.snap = AbsentPlan,
           \A p \in PlanIds : CopyOK(ps, nx, p, k.listed[p]),
           \A p \in k.todo : k.listed[p].phase # "absent",
           step \notin {"sweep", "retiring"} => k.todo = {},
           step \in MatchedAt =>
              /\ k.cur \in PlanIds
              /\ ps[k.cur].digest = compute_change_digest(j.changes, j.spec.target)
    PROVE  JobOK(ps, nx, step, k)
BY DEF JobOK, CopyOK, AbsentPlan

\* A listing of the plans as they are is a correct copy.
LEMMA ListingOK ==
    ASSUME NEW ps, NEW nx, StoreOK(ps, nx)
    PROVE  \A p \in PlanIds : CopyOK(ps, nx, p, ps[p])
BY ExistingRank DEF CopyOK

\* The sweep writes only to plans the listing has.
LEMMA SweptAreListed ==
    ASSUME NEW ps, NEW kept, NEW digest, NEW reuse
    PROVE  /\ SweptPlans(ps, kept, digest, reuse) \subseteq PlanIds
           /\ \A p \in SweptPlans(ps, kept, digest, reuse) : ps[p].phase # "absent"
BY DEF SweptPlans, RejectedBySweep, supersede_cause, supersedes_after_create, Actionable

\* create_or_update_plan cleans up, lists, and reuses a plan or goes on.
LEMMA ListPlansMoves ==
    ASSUME IInv, NEW r \in Replicas, ListPlans(r)
    PROVE  Moved(r) /\ WorldOK'
<1> DEFINE listed   == cleanup_old_plans(plans, clock)
           reusable == reusable_plan(listed, Digest(r), Reuse(r))
           failing  == failed_recently(listed, Digest(r), clock)
           Kept(p)  == [job[r] EXCEPT !.cur = p, !.listed = listed, !.snap = AbsentPlan,
                           !.todo = SweptPlans(listed, p, Digest(r), Reuse(r))]
           Failed(p) == [job[r] EXCEPT !.cur = p, !.snap = AbsentPlan]
           fresh     == [job[r] EXCEPT !.listed = listed, !.snap = AbsentPlan]
<1>1. /\ pc[r] = "list" /\ plans' = listed /\ UNCHANGED <<next, planRef, world>>
  BY Zenon DEF ListPlans
<1>2. Evolved(plans, next, plans', next') /\ StoreOK(plans', next')
  BY <1>1, Knows, CleanupEvolves DEF Evolved
<1>3. JobOK(plans', next', "list", job[r]) /\ job[r] \in Jobs
  BY <1>1, <1>2, Knows, JobStable
<1>4. ASSUME NEW p \in reusable, Continue(r, "sweep", Kept(p))
      PROVE  Moved(r)
  <2>1. p \in PlanIds /\ plans'[p].digest = Digest(r) /\ plans'[p].phase # "absent"
    BY <1>1 DEF reusable_plan, Newest
  <2> DEFINE todo == SweptPlans(plans', p, Digest(r), Reuse(r))
             k == [job[r] EXCEPT !.cur = p, !.listed = plans', !.snap = AbsentPlan, !.todo = todo]
  <2>2. Continue(r, "sweep", k)
    BY <1>1, <1>4
  <2>3. todo \subseteq PlanIds /\ \A q \in todo : plans'[q].phase # "absent"
    BY SweptAreListed
  <2> HIDE DEF todo
  <2>4. AbsentPlan \in Plans
    BY NoJobType DEF NoJob, Jobs
  <2>5. k \in Jobs
    BY Zenon, <1>2, <1>3, <2>1, <2>3, <2>4 DEF Jobs, StoreOK
  <2>6. /\ k.spec = job[r].spec /\ k.changes = job[r].changes /\ k.after = job[r].after
        /\ k.cur = p /\ k.listed = plans' /\ k.snap = AbsentPlan /\ k.todo = todo
    BY <1>3 DEF Jobs
  <2> HIDE DEF k
  <2>7. k.cur < next'
    BY <1>2, <2>1, <2>6, ExistingRank
  <2>8. JobOK(plans', next', "sweep", k)
    <3>1. "sweep" \notin CopiedAt \cup ApprovedAt
      BY DEF CopiedAt, ApprovedAt
    <3>2. /\ \A q \in PlanIds : CopyOK(plans', next', q, k.listed[q])
          /\ \A q \in k.todo : k.listed[q].phase # "absent"
      BY <1>2, <2>3, <2>6, ListingOK
    <3>3. /\ k.cur \in PlanIds
          /\ plans'[k.cur].digest = compute_change_digest(job[r].changes, job[r].spec.target)
      BY <2>1, <2>6 DEF Digest
    <3> QED
      BY <1>2, <1>3, <2>5, <2>6, <2>7, <3>1, <3>2, <3>3, ActOn
  <2> QED
    BY <1>2, <2>2, <2>5, <2>8, ContinueMoves DEF Steps
<1>5. ASSUME NEW p \in failing, job[r].spec.mode # "auto",
             Continue(r, job[r].after, Failed(p))
      PROVE  Moved(r)
  <2>1. p \in PlanIds /\ plans'[p].phase # "absent"
    BY <1>1 DEF failed_recently
  <2> DEFINE k == [job[r] EXCEPT !.cur = p, !.snap = AbsentPlan]
             step == job[r].after
  <2>2. step \in {"idle", "point", "planned"}
    BY <1>3, <1>5 DEF JobOK
  <2>3. AbsentPlan \in Plans
    BY NoJobType DEF NoJob, Jobs
  <2>4. /\ k \in Jobs
        /\ k.spec = job[r].spec /\ k.changes = job[r].changes /\ k.after = job[r].after
        /\ k.cur = p /\ k.listed = job[r].listed /\ k.snap = AbsentPlan
        /\ k.todo = job[r].todo
    BY Zenon, <1>3, <2>1, <2>3 DEF Jobs
  <2>5. Continue(r, step, k)
    BY <1>5
  <2> HIDE DEF k, step
  <2>6. k.cur < next'
    BY <1>2, <2>1, <2>4, ExistingRank
  <2>7. /\ \A q \in PlanIds : CopyOK(plans', next', q, k.listed[q])
        /\ k.todo = {}
    BY <1>3, <2>4 DEF JobOK
  <2>8. JobOK(plans', next', step, k)
    <3>1. step \notin CopiedAt \cup ApprovedAt \cup MatchedAt
      BY <2>2 DEF CopiedAt, ApprovedAt, MatchedAt
    <3> QED
      BY <1>2, <1>3, <2>4, <2>6, <2>7, <3>1, ActOn
  <2>9. step \in Steps
    BY <2>2 DEF Steps
  <2> QED
    BY <1>2, <2>4, <2>5, <2>8, <2>9, ContinueMoves
<1>6. ASSUME Continue(r, "create", fresh)
      PROVE  Moved(r)
  <2> DEFINE k == [job[r] EXCEPT !.listed = plans', !.snap = AbsentPlan]
  <2>1. AbsentPlan \in Plans
    BY NoJobType DEF NoJob, Jobs
  <2>2. /\ k \in Jobs
        /\ k.spec = job[r].spec /\ k.changes = job[r].changes /\ k.after = job[r].after
        /\ k.cur = job[r].cur /\ k.listed = plans' /\ k.snap = AbsentPlan
        /\ k.todo = job[r].todo
    BY Zenon, <1>2, <1>3, <2>1 DEF Jobs, StoreOK
  <2>3. Continue(r, "create", k)
    BY <1>1, <1>6
  <2> HIDE DEF k
  <2>4. k.todo = {} /\ k.cur < next'
    BY <1>3, <2>2 DEF JobOK
  <2>5. JobOK(plans', next', "create", k)
    BY <1>2, <1>3, <2>2, <2>4, ActOn, ListingOK DEF CopiedAt, ApprovedAt, MatchedAt
  <2> QED
    BY <1>2, <2>2, <2>3, <2>5, ContinueMoves DEF Steps
<1>7. ASSUME Leave(r)
      PROVE  Moved(r)
  BY <1>2, <1>7, LeaveMoves
<1>8. \/ \E p \in reusable : Continue(r, "sweep", Kept(p))
      \/ job[r].spec.mode # "auto"
            /\ \E p \in failing : Continue(r, job[r].after, Failed(p))
      \/ Continue(r, "create", fresh)
      \/ Leave(r)
  <2>1. \/ \E p \in reusable : Continue(r, "sweep", Kept(p))
        \/ \E p \in failing : IF job[r].spec.mode = "auto" THEN Leave(r)
                               ELSE Continue(r, job[r].after, Failed(p))
        \/ Leave(r)
        \/ Continue(r, "create", fresh)
    BY Zenon DEF ListPlans
  <2> HIDE DEF Kept, Failed, fresh, reusable, failing
  <2> QED
    BY <2>1
<1> HIDE DEF Kept, Failed, fresh, reusable, failing
<1> QED
  BY SMTT(20), <1>1, <1>4, <1>5, <1>6, <1>7, <1>8, WorldStable

\* The plan object is created.
LEMMA CreatePlanMoves ==
    ASSUME IInv, NEW r \in Replicas, CreatePlan(r)
    PROVE  Moved(r) /\ WorldOK'
<1> DEFINE k == [job[r] EXCEPT !.cur = next, !.created = TRUE]
<1>1. /\ pc[r] = "create" /\ next <= MaxPlans /\ next' = next + 1
      /\ plans' = [plans EXCEPT ![next] = NewPlan(Digest(r), clock)]
      /\ Continue(r, "publish", k) /\ UNCHANGED <<planRef, world>>
  BY DEF CreatePlan
<1>2. Evolved(plans, next, plans', next') /\ next \in PlanIds
  BY Zenon, <1>1, Knows, CreateEvolves
<1>3. JobOK(plans', next', "create", job[r]) /\ job[r] \in Jobs
  BY <1>1, <1>2, Knows, JobStable
<1>4. /\ k \in Jobs
      /\ k.spec = job[r].spec /\ k.changes = job[r].changes /\ k.after = job[r].after
      /\ k.cur = next /\ k.listed = job[r].listed /\ k.snap = job[r].snap
      /\ k.todo = job[r].todo
  BY Zenon, <1>2, <1>3 DEF Jobs
<1> HIDE DEF k
<1>5. k.cur < next'
  BY <1>1, <1>2, <1>4, StoreAssumption DEF PlanIds
<1>6. plans'[k.cur].digest = Digest(r)
  BY SMTT(30), <1>1, <1>2, <1>4, Knows DEF NewPlan, AbsentPlan
<1>7. /\ \A q \in PlanIds : CopyOK(plans', next', q, k.listed[q])
      /\ k.todo = {} /\ k.snap = AbsentPlan
  BY <1>3, <1>4 DEF JobOK
<1>8. JobOK(plans', next', "publish", k)
  BY <1>2, <1>3, <1>4, <1>5, <1>6, <1>7, ActOn DEF Evolved, CopiedAt, ApprovedAt, Digest
<1> QED
  BY Zenon, <1>1, <1>2, <1>4, <1>8, ContinueMoves, WorldStable DEF Steps

\* The create call met an object of the same name and resumes it.
LEMMA ResumeCreationMoves ==
    ASSUME IInv, NEW r \in Replicas, ResumeCreation(r)
    PROVE  Moved(r) /\ WorldOK'
<1> DEFINE K(p) == [job[r] EXCEPT !.cur = p]
<1>1. PICK p \in PlanIds : plans[p] = NewPlan(Digest(r), clock) /\ Continue(r, "publish", K(p))
  BY DEF ResumeCreation
<1>2. pc[r] = "create" /\ UNCHANGED <<cluster, world>>
  BY DEF ResumeCreation
<1> DEFINE k == K(p)
<1>3. /\ k \in Jobs
      /\ k.spec = job[r].spec /\ k.changes = job[r].changes /\ k.after = job[r].after
      /\ k.cur = p /\ k.listed = job[r].listed /\ k.snap = job[r].snap
      /\ k.todo = job[r].todo
  BY Knows DEF Jobs
<1>4. Continue(r, "publish", k)
  BY <1>1
<1> HIDE DEF k
<1>5. plans[k.cur].digest = Digest(r) /\ plans[k.cur].phase # "absent"
  BY Zenon, <1>1, <1>3 DEF NewPlan, AbsentPlan
<1>6. k.cur < next
  BY SMTT(30), <1>3, <1>5, Knows, ExistingRank
<1>7. /\ \A q \in PlanIds : CopyOK(plans, next, q, k.listed[q])
      /\ k.todo = {} /\ k.snap = AbsentPlan
  BY <1>2, <1>3, Knows DEF JobOK
<1>8. JobOK(plans, next, "publish", k)
  BY ZenonT(30), <1>2, <1>3, <1>5, <1>6, <1>7, Knows, ActOn DEF CopiedAt, ApprovedAt, Digest
<1> QED
  BY <1>2, <1>3, <1>4, <1>8, Knows, ContinueMoves, WorldStable DEF Steps, cluster

\* The create call met an object of the same name that is another plan.
LEMMA NameCollidesMoves ==
    ASSUME IInv, NEW r \in Replicas, NameCollides(r)
    PROVE  Moved(r) /\ WorldOK'
<1>1. WorldOK'
  BY DisturbedWorld DEF NameCollides, cluster, IInv, TypeOK
<1> QED
  BY <1>1, Knows, LeaveMoves DEF NameCollides, cluster

\* The first status of a plan carries the digest it was created with, so
\* writing it is a legal step.
LEMMA PublishedEvolves ==
    ASSUME IInv, NEW r \in Replicas, pc[r] = "publish"
    PROVE  Evolved(plans, next, Patched(plans, job[r].cur, PublishedStatus(r)), next)
<1>1. job[r].cur \in PlanIds /\ plans[job[r].cur].digest = Digest(r)
  BY Knows DEF JobOK, MatchedAt, Digest
<1>2. /\ PublishedStatus(r) \in Plans
      /\ PublishedStatus(r).digest = Digest(r)
      /\ PublishedStatus(r).phase = "Pending"
  <2>1. plans[job[r].cur].createdAt \in Nat
    BY <1>1, Knows DEF Plans
  <2> QED
    BY Zenon, <2>1, Knows DEF PublishedStatus, NewPlan, AbsentPlan, Plans, Phases, Decisions,
                       Deciders, NoTime
<1> QED
  BY <1>1, <1>2, Knows, PatchedEvolves DEF GatedPhases

\* The first status of a new plan is written.
LEMMA PublishStatusMoves ==
    ASSUME IInv, NEW r \in Replicas, PublishStatus(r)
    PROVE  Moved(r) /\ WorldOK'
<1> DEFINE todo == SweptPlans(job[r].listed, job[r].cur, Digest(r), Reuse(r))
           k == [job[r] EXCEPT !.todo = todo]
<1>1. /\ pc[r] = "publish" /\ plans' = Patched(plans, job[r].cur, PublishedStatus(r))
      /\ Continue(r, "sweep", k) /\ UNCHANGED <<next, planRef, world>>
  BY DEF PublishStatus
<1>4. Evolved(plans, next, plans', next')
  BY <1>1, PublishedEvolves
<1>5. JobOK(plans', next', "publish", job[r]) /\ job[r] \in Jobs
  BY <1>1, <1>4, Knows, JobStable
<1>6. todo \subseteq PlanIds /\ \A p \in todo : job[r].listed[p].phase # "absent"
  BY SweptAreListed
<1> HIDE DEF todo
<1>7. /\ k \in Jobs
      /\ k.spec = job[r].spec /\ k.changes = job[r].changes /\ k.after = job[r].after
      /\ k.cur = job[r].cur /\ k.listed = job[r].listed /\ k.snap = job[r].snap
      /\ k.todo = todo
  BY SMTT(30), <1>5, <1>6 DEF Jobs
<1> HIDE DEF k
<1>8. JobOK(plans', next', "sweep", k)
  BY <1>5, <1>6, <1>7 DEF JobOK, MatchedAt, ApprovedAt, CopiedAt
<1> QED
  BY <1>1, <1>4, <1>7, <1>8, ContinueMoves, WorldStable DEF Steps

\* The first status of a new plan is not written, or its answer is lost.
LEMMA PublishFailsMoves ==
    ASSUME IInv, NEW r \in Replicas, PublishFails(r)
    PROVE  Moved(r) /\ WorldOK'
<1>1. pc[r] = "publish" /\ UNCHANGED <<next, planRef, spec, authority, db, clock>>
  BY DEF PublishFails
<1>2. \/ plans' = plans
      \/ plans' = Patched(plans, job[r].cur, PublishedStatus(r))
  BY DEF PublishFails
<1>3. Evolved(plans, next, plans', next')
  BY <1>1, <1>2, Knows, PublishedEvolves
<1>4. budget' \in 0..MaxDisturbances
  BY DisturbType DEF PublishFails, IInv, TypeOK
<1>5. WorldOK'
  BY <1>1, <1>4 DEF WorldOK, IInv, TypeOK
<1>6. JobOK(plans', next', "publish", job[r]) /\ job[r] \in Jobs
  BY SMTT(30), <1>1, <1>3, Knows, JobStable
<1>7. JobOK(plans', next', "withdraw", job[r])
  BY SMTT(30), <1>6 DEF JobOK, MatchedAt, ApprovedAt, CopiedAt
<1>8. Leave(r) \/ Continue(r, "withdraw", job[r])
  BY DEF PublishFails
<1> QED
  BY SMTT(30), <1>3, <1>5, <1>6, <1>7, <1>8, ContinueMoves, LeaveMoves DEF Steps

\* delete_plan_best_effort deletes the plan this reconcile created.
LEMMA WithdrawPlanMoves ==
    ASSUME IInv, NEW r \in Replicas, WithdrawPlan(r)
    PROVE  Moved(r) /\ WorldOK'
<1>1. /\ pc[r] = "withdraw" /\ Leave(r) /\ UNCHANGED <<next, planRef, world>>
      /\ plans' = [plans EXCEPT ![job[r].cur].phase = "deleted"]
  BY DEF WithdrawPlan
<1>2. job[r].cur \in PlanIds /\ job[r].cur < next
  BY <1>1, Knows DEF JobOK, MatchedAt
<1>3. Evolved(plans, next, plans', next')
  BY Zenon, <1>1, <1>2, Knows, PhaseEvolves DEF Phases, GatedPhases
<1> QED
  BY <1>1, <1>3, LeaveMoves, WorldStable

\* supersede_stale_plans writes to one listed plan.
LEMMA SweepPlanMoves ==
    ASSUME IInv, NEW r \in Replicas, SweepPlan(r)
    PROVE  Moved(r) /\ WorldOK'
<1> DEFINE listed == job[r].listed
           Status(p) == superseded_status(listed[p])
           Rest(p) == [job[r] EXCEPT !.todo = @ \ {p}]
<1>1. pc[r] = "sweep" /\ UNCHANGED <<next, planRef, world>>
  BY DEF SweepPlan
<1>2. PICK p \in First(job[r].todo) :
          /\ \/ plans' = Patched(plans, p, Status(p))
             \/ plans' = plans
             \/ Exists(plans[p]) /\ plans' = [plans EXCEPT ![p].phase = "Rejected"]
          /\ Leave(r) \/ Continue(r, "sweep", Rest(p))
  <2> HIDE DEF Rest, Status
  <2> QED
    BY Zenon DEF SweepPlan, Rest, Status
<1>3. p \in job[r].todo /\ p \in PlanIds
  BY Knows DEF First, Jobs
<1>4. Evolved(plans, next, plans', next')
  <2>1. /\ listed[p] \in Plans /\ p < next
        /\ listed[p].digest = plans[p].digest
    BY <1>1, <1>3, Knows DEF JobOK, CopyOK, Jobs
  <2>2. Status(p) \in Plans /\ Status(p).digest = plans[p].digest /\ Status(p).phase = "Superseded"
    BY <2>1 DEF superseded_status, Plans, Phases
  <2> HIDE DEF Status
  <2>3. Evolved(plans, next, Patched(plans, p, Status(p)), next)
    BY SMTT(20), <1>3, <2>2, Knows, PatchedEvolves DEF GatedPhases
  <2>4. Evolved(plans, next, [plans EXCEPT ![p].phase = "Rejected"], next)
    BY Zenon, <1>3, <2>1, Knows, PhaseEvolves DEF Phases, GatedPhases
  <2> QED
    BY SMTT(30), <1>1, <1>2, <2>3, <2>4, Knows
<1>5. JobOK(plans', next', "sweep", job[r]) /\ job[r] \in Jobs
  BY <1>1, <1>4, Knows, JobStable
<1> DEFINE k == Rest(p)
<1>6. /\ k \in Jobs
      /\ k.spec = job[r].spec /\ k.changes = job[r].changes /\ k.after = job[r].after
      /\ k.cur = job[r].cur /\ k.listed = job[r].listed /\ k.snap = job[r].snap
      /\ k.todo \subseteq job[r].todo
  BY <1>5 DEF Jobs
<1>7. Leave(r) \/ Continue(r, "sweep", k)
  BY SMTT(30), <1>2
<1> HIDE DEF k
<1>8. JobOK(plans', next', "sweep", k)
  BY SMTT(20), <1>5, <1>6 DEF JobOK, MatchedAt, ApprovedAt, CopiedAt
<1> QED
  BY <1>1, <1>4, <1>6, <1>7, <1>8, ContinueMoves, LeaveMoves, WorldStable DEF Steps

\* A plan is passed over in the sweep or in the retirement: its write was lost.
LEMMA SkipMoves ==
    ASSUME IInv, NEW r \in Replicas, NEW step \in {"sweep", "retiring"}, pc[r] = step,
           NEW p, Continue(r, step, [job[r] EXCEPT !.todo = @ \ {p}]),
           UNCHANGED <<plans, next>>
    PROVE  Moved(r)
<1> DEFINE k == [job[r] EXCEPT !.todo = @ \ {p}]
<1>1. /\ k \in Jobs
      /\ k.spec = job[r].spec /\ k.changes = job[r].changes /\ k.after = job[r].after
      /\ k.cur = job[r].cur /\ k.listed = job[r].listed /\ k.snap = job[r].snap
      /\ k.todo \subseteq job[r].todo
  BY Knows DEF Jobs
<1>2. Continue(r, step, k)
  OBVIOUS
<1> HIDE DEF k
<1>3. JobOK(plans, next, step, k)
  BY SMTT(20), <1>1, Knows DEF JobOK, MatchedAt, ApprovedAt, CopiedAt
<1> QED
  BY <1>1, <1>2, <1>3, Knows, ContinueMoves DEF Steps

\* A duplicate or denied plan could not be written.
LEMMA SweepSkipsMoves ==
    ASSUME IInv, NEW r \in Replicas, SweepSkips(r)
    PROVE  Moved(r) /\ WorldOK'
<1>1. WorldOK'
  BY SMTT(30), DisturbedWorld DEF SweepSkips, cluster, IInv, TypeOK
<1> QED
  BY <1>1, SkipMoves DEF SweepSkips, cluster

\* supersede_stale_plans is through.
LEMMA SweepDoneMoves ==
    ASSUME IInv, NEW r \in Replicas, SweepDone(r)
    PROVE  Moved(r) /\ WorldOK'
<1> DEFINE k == [job[r] EXCEPT !.listed = NoList, !.created = FALSE]
           step == job[r].after
<1>1. /\ pc[r] = "sweep" /\ job[r].todo = {} /\ Continue(r, step, k)
      /\ UNCHANGED <<cluster, world>>
  BY SMTT(30) DEF SweepDone
<1>2. step \in {"idle", "fetch", "point", "planned"}
  BY Knows DEF JobOK
<1>3. NoList \in [PlanIds -> Plans]
  BY NoJobType DEF NoJob, Jobs
<1>4. /\ k \in Jobs
      /\ k.spec = job[r].spec /\ k.changes = job[r].changes /\ k.after = job[r].after
      /\ k.cur = job[r].cur /\ k.listed = NoList /\ k.snap = job[r].snap
      /\ k.todo = {}
  BY ZenonT(30), <1>1, <1>3, Knows DEF Jobs
<1> HIDE DEF k, step
<1>5. \A p \in PlanIds : CopyOK(plans, next, p, k.listed[p])
  <2>1. k.listed = NoList
    BY <1>4
  <2>2. \A p \in PlanIds : NoList[p].phase = "absent"
    BY ONLY Zenon DEF NoList, AbsentPlan
  <2> QED
    BY ONLY <2>1, <2>2 DEF CopyOK
<1>6. JobOK(plans, next, step, k)
  <2>1. JobOK(plans, next, "sweep", job[r])
    BY <1>1, Knows
  <2>2. /\ step \notin ApprovedAt \cup CopiedAt /\ "sweep" \in MatchedAt
        /\ step \notin {"locking", "recover", "inspect", "find", "create"}
    BY <1>2 DEF MatchedAt, ApprovedAt, CopiedAt
  <2> QED
    BY <1>4, <1>5, <2>1, <2>2 DEF JobOK
<1>7. step \in Steps
  BY <1>2 DEF Steps
<1> QED
  BY <1>1, <1>4, <1>6, <1>7, Knows, ContinueMoves, WorldStable DEF cluster
=============================================================================
