----------------------- MODULE PolicyReconcileProofs ------------------------
(***************************************************************************)
(* The steps of a reconcile that approve, execute and report a plan, the   *)
(* failures and the environment keep the invariant; and the theorems that  *)
(* follow from it.                                                         *)
(***************************************************************************)
EXTENDS PolicyReconcilePlanning

\* A patch built from the copy held is a legal step.
LEMMA CopyPatched ==
    ASSUME IInv, NEW r \in Replicas, pc[r] \in CopiedAt, NEW status \in Plans,
           status.digest = job[r].snap.digest,
           status.phase \in GatedPhases => status.decision = "Approved"
    PROVE  Evolved(plans, next, Patched(plans, job[r].cur, status), next)
BY Knows, PatchedEvolves DEF JobOK, CopyOK

\* The plan to auto-approve is fetched.
LEMMA FetchPlanMoves ==
    ASSUME IInv, NEW r \in Replicas, FetchPlan(r)
    PROVE  Moved(r) /\ WorldOK'
<1> DEFINE p == job[r].cur
           k == [job[r] EXCEPT !.snap = plans[p]]
<1>1. pc[r] = "fetch" /\ UNCHANGED <<plans, next, world>>
  BY DEF FetchPlan
<1>2. p \in PlanIds /\ plans[p] \in Plans /\ plans[p].digest = Digest(r) /\ p < next
  BY <1>1, Knows DEF JobOK, MatchedAt, Digest
<1>3. WorldOK'
  <2>1. planRef' \in {planRef, p}
    BY DEF FetchPlan
  <2> QED
    BY <1>1, <1>2, <2>1 DEF WorldOK, world, IInv, TypeOK
<1>4. Leave(r) \/ (Exists(plans[p]) /\ Continue(r, "approve", k))
  BY DEF FetchPlan
<1>5. /\ k \in Jobs
      /\ k.spec = job[r].spec /\ k.changes = job[r].changes /\ k.after = job[r].after
      /\ k.cur = p /\ k.listed = job[r].listed /\ k.snap = plans[p]
      /\ k.todo = job[r].todo
  BY <1>2, Knows DEF Jobs
<1> HIDE DEF k, p
<1>6. ASSUME Exists(plans[p])
      PROVE  JobOK(plans, next, "approve", k)
  <2>1. CopyOK(plans, next, k.cur, k.snap) /\ k.snap.phase # "absent"
    BY <1>2, <1>5, <1>6 DEF CopyOK, Exists
  <2> QED
    BY <1>1, <1>2, <1>5, <2>1, Knows DEF JobOK, MatchedAt, ApprovedAt, CopiedAt, p
<1> QED
  BY <1>1, <1>3, <1>4, <1>5, <1>6, Knows, ContinueMoves, LeaveMoves DEF Steps

\* mark_plan_approved writes the approval.
LEMMA ApprovePlanMoves ==
    ASSUME IInv, NEW r \in Replicas, ApprovePlan(r)
    PROVE  Moved(r) /\ WorldOK'
<1> DEFINE p == job[r].cur
           snap == job[r].snap
           decided == has_terminal_decision(snap)
           granted == /\ ~is_denied(snap)
                      /\ Exists(plans[p])
                      /\ decided \/ Patchable(plans, p, ApprovedStatus(snap))
           k == [job[r] EXCEPT !.snap = AbsentPlan]
<1>1. pc[r] = "approve" /\ UNCHANGED <<next, planRef, world>>
  BY DEF ApprovePlan
<1>2. /\ p \in PlanIds /\ p < next /\ snap \in Plans /\ snap.digest = plans[p].digest
      /\ snap.decision # "none" => plans[p].decision = snap.decision
      /\ plans[p].digest = Digest(r) /\ plans[p] \in Plans
  BY <1>1, Knows DEF JobOK, CopyOK, CopiedAt, MatchedAt, Digest, Jobs
<1>3. CASE ~granted
  BY SMTT(20), <1>1, <1>3, Knows, LeaveMoves, WorldStable DEF ApprovePlan
<1>4. CASE granted
  <2>1. /\ Continue(r, "refetch", k)
        /\ plans' = IF decided THEN [plans EXCEPT ![p].phase = "Approved"]
                               ELSE Patched(plans, p, ApprovedStatus(snap))
    BY <1>4 DEF ApprovePlan
  <2>2. /\ ApprovedStatus(snap) \in Plans
        /\ ApprovedStatus(snap).digest = snap.digest
        /\ ApprovedStatus(snap).decision = "Approved"
    BY Zenon, <1>2 DEF ApprovedStatus, Plans, Phases, Decisions, Deciders
  <2>3. decided => plans[p].decision = "Approved"
    BY <1>2, <1>4 DEF has_terminal_decision, is_denied, Plans, Decisions
  <2>4. Evolved(plans, next, plans', next') /\ plans'[p].decision = "Approved"
    <3>1. CASE decided
      BY Zenon, <1>1, <1>2, <2>1, <2>3, <3>1, Knows, PhaseEvolves DEF Phases, Plans
    <3>2. CASE ~decided
      <4>1. Patchable(plans, p, ApprovedStatus(snap))
        BY <1>4, <3>2
      <4>2. Merged(plans[p], ApprovedStatus(snap)).decision = "Approved"
        BY <2>2 DEF Merged, Plans
      <4>3. plans' = [plans EXCEPT ![p] = Merged(plans[p], ApprovedStatus(snap))]
        BY <2>1, <3>2, <4>1 DEF Patched
      <4>4. plans'[p].decision = "Approved"
        BY <1>2, <4>2, <4>3, Knows
      <4>5. pc[r] \in CopiedAt
        BY <1>1 DEF CopiedAt
      <4>6. Evolved(plans, next, Patched(plans, p, ApprovedStatus(snap)), next)
        BY <2>2, <4>5, CopyPatched
      <4> QED
        BY <1>1, <2>1, <3>2, <4>4, <4>6
    <3> QED
      BY <3>1, <3>2
  <2>5. JobOK(plans', next', "approve", job[r]) /\ job[r] \in Jobs
    BY <1>1, <2>4, Knows, JobStable
  <2>6. AbsentPlan \in Plans
    BY NoJobType DEF NoJob, Jobs
  <2>7. /\ k \in Jobs
        /\ k.spec = job[r].spec /\ k.changes = job[r].changes /\ k.after = job[r].after
        /\ k.cur = p /\ k.listed = job[r].listed /\ k.snap = AbsentPlan
        /\ k.todo = job[r].todo
    BY <2>5, <2>6 DEF Jobs
  <2> HIDE DEF k
  <2>8. CopyOK(plans', next', p, AbsentPlan)
    BY DEF CopyOK, AbsentPlan
  <2>9. JobOK(plans', next', "refetch", k)
    BY <2>4, <2>5, <2>7, <2>8 DEF JobOK, MatchedAt, ApprovedAt, CopiedAt
  <2> QED
    BY Zenon, <1>1, <2>1, <2>4, <2>7, <2>9, ContinueMoves, WorldStable DEF Steps
<1> QED
  BY <1>3, <1>4

\* The approved plan is fetched again before it is executed.
LEMMA RefetchPlanMoves ==
    ASSUME IInv, NEW r \in Replicas, RefetchPlan(r)
    PROVE  Moved(r) /\ WorldOK'
<1> DEFINE p == job[r].cur
           k == [job[r] EXCEPT !.snap = plans[p]]
<1>1. pc[r] = "refetch" /\ UNCHANGED <<cluster, world>>
  BY DEF RefetchPlan
<1>2. /\ p \in PlanIds /\ plans[p] \in Plans /\ p < next
  BY <1>1, Knows DEF JobOK, MatchedAt
<1>3. Leave(r) \/ (Exists(plans[p]) /\ Continue(r, "apply", k))
  <2>1. CASE Exists(plans[p]) /\ job[r].auth
    BY <2>1 DEF RefetchPlan
  <2>2. CASE ~(Exists(plans[p]) /\ job[r].auth)
    BY <2>2 DEF RefetchPlan
  <2> QED
    BY <2>1, <2>2
<1>4. /\ k \in Jobs
      /\ k.spec = job[r].spec /\ k.changes = job[r].changes /\ k.after = job[r].after
      /\ k.cur = p /\ k.listed = job[r].listed /\ k.snap = plans[p]
      /\ k.todo = job[r].todo
  BY <1>2, Knows DEF Jobs
<1> HIDE DEF k
<1>5. ASSUME Exists(plans[p])
      PROVE  JobOK(plans, next, "apply", k)
  <2>1. CopyOK(plans, next, k.cur, k.snap) /\ k.snap.phase # "absent"
    BY <1>2, <1>4, <1>5 DEF CopyOK, Exists
  <2> QED
    BY <1>1, <1>2, <1>4, <2>1, Knows DEF JobOK, MatchedAt, ApprovedAt, CopiedAt
<1> QED
  BY <1>1, <1>3, <1>4, <1>5, Knows, ContinueMoves, LeaveMoves, WorldStable DEF Steps, cluster

\* Recording a failure over the copy held (mark_plan_failed, execute_plan).
LEMMA FailureRecorded ==
    ASSUME IInv, NEW r \in Replicas, pc[r] \in CopiedAt
    PROVE  Evolved(plans, next, Patched(plans, job[r].cur, FailedStatus(job[r].snap, clock)), next)
<1> DEFINE snap == job[r].snap
           status == FailedStatus(snap, clock)
<1>1. snap \in Plans
  BY Knows DEF Jobs
<1>2. status \in Plans /\ status.digest = snap.digest /\ status.phase = "Failed"
  BY Zenon, <1>1, Knows DEF FailedStatus, Plans, Phases
<1> HIDE DEF status
<1>3. Evolved(plans, next, Patched(plans, job[r].cur, status), next)
  BY <1>2, CopyPatched DEF GatedPhases
<1> QED
  BY <1>3 DEF status

\* Preparing the execution fails, which fails the plan.
LEMMA MaterializeFailsMoves ==
    ASSUME IInv, NEW r \in Replicas, MaterializeFails(r)
    PROVE  Moved(r) /\ WorldOK'
<1>1. Evolved(plans, next, plans', next')
  BY FailureRecorded DEF MaterializeFails, CopiedAt
<1>2. WorldOK'
  BY DisturbedWorld DEF MaterializeFails, IInv, TypeOK
<1> QED
  BY <1>1, <1>2, LeaveMoves DEF MaterializeFails

\* execute_plan marks the plan Applying.
LEMMA StartApplyMoves ==
    ASSUME IInv, NEW r \in Replicas, StartApply(r)
    PROVE  Moved(r) /\ WorldOK'
<1> DEFINE p == job[r].cur
           deferred == retry_deferred_until_window_expires(job[r].snap, clock) \/ ~Exists(plans[p])
<1>1. pc[r] = "apply" /\ UNCHANGED <<next, planRef, world>>
  BY DEF StartApply
<1>2. p \in PlanIds /\ p < next /\ plans[p].decision = "Approved"
  BY <1>1, Knows DEF JobOK, MatchedAt, ApprovedAt
<1>3. CASE deferred
  BY <1>1, <1>3, Knows, LeaveMoves, WorldStable DEF StartApply
<1>4. CASE ~deferred
  <2>1. Continue(r, "sql", job[r]) /\ plans' = [plans EXCEPT ![p].phase = "Applying"]
    BY <1>4 DEF StartApply, ApplyingStatus
  <2>2. Evolved(plans, next, plans', next')
    BY Zenon, <1>1, <1>2, <2>1, Knows, PhaseEvolves DEF Phases
  <2>3. JobOK(plans', next', "apply", job[r]) /\ job[r] \in Jobs
    BY <1>1, <2>2, Knows, JobStable
  <2>4. JobOK(plans', next', "sql", job[r])
    BY <2>3 DEF JobOK, MatchedAt, ApprovedAt, CopiedAt
  <2> QED
    BY Zenon, <1>1, <2>1, <2>2, <2>3, <2>4, ContinueMoves, WorldStable DEF Steps
<1> QED
  BY <1>3, <1>4

\* From running the SQL to recording its outcome.
LEMMA SqlJob ==
    ASSUME IInv, NEW r \in Replicas, pc[r] = "sql", NEW step \in {"applied", "failed"}
    PROVE  JobOK(plans, next, step, job[r])
BY Knows DEF JobOK, MatchedAt, ApprovedAt, CopiedAt

\* Executed changes leave the databases well typed.
LEMMA ExecutedType ==
    ASSUME IInv, NEW r \in Replicas
    PROVE  [db EXCEPT ![job[r].spec.target] = Executed(@, job[r].changes)]
               \in [Targets -> SUBSET Items]
<1>1. job[r].changes.add \subseteq Items
  BY Knows DEF Jobs, Changes
<1> QED
  BY Zenon, <1>1 DEF Executed, IInv, TypeOK

\* The SQL transaction commits.
LEMMA RunSqlMoves ==
    ASSUME IInv, NEW r \in Replicas, RunSql(r)
    PROVE  Moved(r) /\ WorldOK'
<1>1. WorldOK'
  BY ExecutedType DEF RunSql, WorldOK, cluster, IInv, TypeOK
<1>2. JobOK(plans, next, "applied", job[r])
  BY SqlJob DEF RunSql
<1> QED
  BY <1>1, <1>2, Knows, ContinueMoves DEF RunSql, cluster, Steps

\* The SQL commits and the database does not show its effects.
LEMMA SqlHasNoEffectMoves ==
    ASSUME IInv, NEW r \in Replicas, SqlHasNoEffect(r)
    PROVE  Moved(r) /\ WorldOK'
<1>1. WorldOK'
  BY DisturbedWorld DEF SqlHasNoEffect, cluster, IInv, TypeOK
<1>2. JobOK(plans, next, "applied", job[r])
  BY SqlJob DEF SqlHasNoEffect
<1> QED
  BY <1>1, <1>2, Knows, ContinueMoves DEF SqlHasNoEffect, cluster, Steps

\* The SQL transaction fails.
LEMMA SqlFailsMoves ==
    ASSUME IInv, NEW r \in Replicas, SqlFails(r)
    PROVE  Moved(r) /\ WorldOK'
<1>1. db' \in [Targets -> SUBSET Items]
  BY ExecutedType DEF SqlFails, IInv, TypeOK
<1>2. WorldOK'
  BY <1>1, DisturbedWorld DEF SqlFails, cluster
<1>3. JobOK(plans, next, "failed", job[r])
  BY SqlJob DEF SqlFails
<1> QED
  BY <1>2, <1>3, Knows, ContinueMoves DEF SqlFails, cluster, Steps

\* execute_plan records Applied.
LEMMA RecordAppliedMoves ==
    ASSUME IInv, NEW r \in Replicas, RecordApplied(r)
    PROVE  Moved(r) /\ WorldOK'
<1> DEFINE snap == job[r].snap
           status == AppliedStatus(snap, clock)
           step == IF job[r].spec.mode = "auto" THEN "point" ELSE "done"
<1>1. /\ pc[r] = "applied" /\ UNCHANGED <<next, planRef, world>>
      /\ plans' = Patched(plans, job[r].cur, status)
  BY DEF RecordApplied
<1>2. Leave(r) \/ Continue(r, step, job[r])
  BY DEF RecordApplied
<1>3. step \in {"point", "done"}
  OBVIOUS
<1>4. snap \in Plans
  BY Knows DEF Jobs
<1>5. status \in Plans /\ status.digest = snap.digest /\ status.decision = "Approved"
  BY Zenon, <1>4, Knows DEF AppliedStatus, Plans, Phases, Decisions
<1> HIDE DEF status, step
<1>6. Evolved(plans, next, plans', next')
  BY <1>1, <1>5, CopyPatched DEF CopiedAt
<1>7. JobOK(plans', next', "applied", job[r]) /\ job[r] \in Jobs
  BY <1>1, <1>6, Knows, JobStable
<1>8. JobOK(plans', next', step, job[r])
  BY <1>3, <1>7, Inert DEF MatchedAt, CopiedAt
<1>9. step \in Steps
  BY <1>3 DEF Steps
<1> QED
  BY <1>1, <1>2, <1>6, <1>7, <1>8, <1>9, ContinueMoves, LeaveMoves, WorldStable

\* execute_plan records Failed.
LEMMA RecordFailedMoves ==
    ASSUME IInv, NEW r \in Replicas, RecordFailed(r)
    PROVE  Moved(r) /\ WorldOK'
<1>1. Evolved(plans, next, plans', next')
  BY FailureRecorded DEF RecordFailed, CopiedAt
<1> QED
  BY <1>1, LeaveMoves, WorldStable DEF RecordFailed

\* A plan that is no longer needed is superseded.
LEMMA SupersedePlanMoves ==
    ASSUME IInv, NEW r \in Replicas, SupersedePlan(r)
    PROVE  Moved(r) /\ WorldOK'
<1> DEFINE snap == job[r].snap
           status == superseded_status(snap)
           k == [job[r] EXCEPT !.snap = AbsentPlan]
<1>1. /\ pc[r] = "supersede" /\ UNCHANGED <<next, planRef, world>>
      /\ plans' = Patched(plans, job[r].cur, status)
  BY DEF SupersedePlan
<1>2. Leave(r) \/ Continue(r, "clear", k)
  BY DEF SupersedePlan
<1>3. snap \in Plans /\ AbsentPlan \in Plans
  BY Knows, NoJobType DEF Jobs, NoJob
<1>4. status \in Plans /\ status.digest = snap.digest /\ status.phase = "Superseded"
  BY <1>3 DEF superseded_status, Plans, Phases
<1> HIDE DEF status
<1>5. Evolved(plans, next, plans', next')
  BY <1>1, <1>4, CopyPatched DEF CopiedAt, GatedPhases
<1>6. JobOK(plans', next', "supersede", job[r]) /\ job[r] \in Jobs
  BY <1>1, <1>5, Knows, JobStable
<1>7. /\ k \in Jobs
      /\ k.spec = job[r].spec /\ k.changes = job[r].changes /\ k.after = job[r].after
      /\ k.cur = job[r].cur /\ k.listed = job[r].listed /\ k.snap = AbsentPlan
      /\ k.todo = job[r].todo
  BY <1>3, <1>6 DEF Jobs
<1> HIDE DEF k
<1>8. /\ \A q \in PlanIds : CopyOK(plans', next', q, k.listed[q])
      /\ k.todo = {} /\ k.cur < next'
  BY <1>6, <1>7 DEF JobOK
<1>9. JobOK(plans', next', "clear", k)
  <2>1. "clear" \notin CopiedAt \cup ApprovedAt \cup MatchedAt
    BY DEF CopiedAt, ApprovedAt, MatchedAt
  <2>2. StoreOK(plans', next')
    BY <1>5 DEF Evolved
  <2> QED
    BY <1>6, <1>7, <1>8, <2>1, <2>2, ActOn
<1> QED
  BY <1>1, <1>2, <1>5, <1>7, <1>9, ContinueMoves, LeaveMoves, WorldStable DEF Steps

\* A denied plan is marked Rejected.
LEMMA RejectPlanMoves ==
    ASSUME IInv, NEW r \in Replicas, RejectPlan(r)
    PROVE  Moved(r) /\ WorldOK'
<1> DEFINE p == job[r].cur
<1>1. pc[r] = "reject" /\ UNCHANGED <<next, planRef, world>>
  BY DEF RejectPlan
<1>2. CASE ~Exists(plans[p])
  BY <1>1, <1>2, Knows, LeaveMoves, WorldStable DEF RejectPlan
<1>3. CASE Exists(plans[p])
  <2>1. Continue(r, "rejected", job[r]) /\ plans' = [plans EXCEPT ![p].phase = "Rejected"]
    BY <1>3 DEF RejectPlan
  <2>2. p \in PlanIds /\ p < next
    BY <1>1, Knows DEF JobOK, CopyOK, CopiedAt
  <2>3. Evolved(plans, next, plans', next')
    BY Zenon, <1>1, <2>1, <2>2, Knows, PhaseEvolves DEF Phases, GatedPhases
  <2>4. JobOK(plans', next', "reject", job[r]) /\ job[r] \in Jobs
    BY <1>1, <2>3, Knows, JobStable
  <2>5. JobOK(plans', next', "rejected", job[r])
    BY <2>4, Inert DEF MatchedAt, CopiedAt
  <2> QED
    BY Zenon, <1>1, <2>1, <2>3, <2>4, <2>5, ContinueMoves, WorldStable DEF Steps
<1> QED
  BY <1>2, <1>3

\* The status of the policy points to the plan.
LEMMA PointToPlanMoves ==
    ASSUME IInv, NEW r \in Replicas, PointToPlan(r)
    PROVE  Moved(r) /\ WorldOK'
<1> DEFINE step == IF job[r].spec.mode = "auto" THEN "done" ELSE "planned"
<1>1. /\ pc[r] = "point" /\ planRef' = job[r].cur /\ Continue(r, step, job[r])
      /\ UNCHANGED <<plans, next, world>>
  BY DEF PointToPlan
<1>2. step \in {"done", "planned"}
  OBVIOUS
<1> HIDE DEF step
<1>3. WorldOK'
  BY <1>1, Knows DEF WorldOK, world, IInv, TypeOK, Jobs
<1>4. JobOK(plans, next, step, job[r])
  BY <1>1, <1>2, Knows, Inert DEF MatchedAt, CopiedAt
<1>5. step \in Steps
  BY SMTT(30), <1>2 DEF Steps
<1> QED
  BY <1>1, <1>3, <1>4, <1>5, Knows, ContinueMoves

\* The outcome is reported in the status of the policy.
LEMMA ReportMoves ==
    ASSUME IInv, NEW r \in Replicas,
           ReportPlanned(r) \/ ReportApplied(r) \/ ReportRejected(r)
    PROVE  Moved(r) /\ WorldOK'
<1>1. Leave(r) /\ UNCHANGED <<plans, next, world>>
  BY DEF ReportPlanned, ReportApplied, ReportRejected, cluster
<1>2. planRef' \in {job[r].cur, NoPlan, planRef}
  BY DEF ReportPlanned, ReportApplied, ReportRejected, cluster
<1>3. WorldOK'
  BY <1>1, <1>2, Knows DEF WorldOK, world, IInv, TypeOK, Jobs
<1> QED
  BY <1>1, <1>3, Knows, LeaveMoves

\* approval: auto found the plan the policy refers to, or that it is not live.
LEMMA FindReferencedMoves ==
    ASSUME IInv, NEW r \in Replicas, FindReferenced(r)
    PROVE  Moved(r) /\ WorldOK'
<1> DEFINE p == referenced_actionable_plan(r)
           k == [job[r] EXCEPT !.cur = p]
<1>1. /\ pc[r] = "find" /\ Continue(r, "clear", k) /\ UNCHANGED <<cluster, world>>
  BY DEF FindReferenced
<1>2. p = NoPlan \/ (p \in PlanIds /\ plans[p].phase # "absent")
  BY Knows DEF referenced_actionable_plan, Actionable, Jobs
<1>3. p \in PlanIds \cup {NoPlan} /\ p < next
  BY <1>2, Knows, ExistingRank, StoreAssumption DEF NoPlan, StoreOK
<1> HIDE DEF p
<1>4. /\ k \in Jobs
      /\ k.spec = job[r].spec /\ k.changes = job[r].changes /\ k.after = job[r].after
      /\ k.cur = p /\ k.listed = job[r].listed /\ k.snap = job[r].snap
      /\ k.todo = job[r].todo
  BY SMTT(30), <1>3, Knows DEF Jobs
<1> HIDE DEF k
<1>5. /\ \A q \in PlanIds : CopyOK(plans, next, q, k.listed[q])
      /\ k.todo = {} /\ k.snap = AbsentPlan
  BY <1>1, <1>4, Knows DEF JobOK
<1>6. JobOK(plans, next, "clear", k)
  <2>1. "clear" \notin CopiedAt \cup ApprovedAt \cup MatchedAt
    BY DEF CopiedAt, ApprovedAt, MatchedAt
  <2> QED
    BY <1>1, <1>3, <1>4, <1>5, <2>1, Knows, ActOn
<1> QED
  BY <1>1, <1>4, <1>6, Knows, ContinueMoves, WorldStable DEF Steps, cluster

\* approval: auto could not read that plan.
LEMMA FindFailsMoves ==
    ASSUME IInv, NEW r \in Replicas, FindFails(r)
    PROVE  Moved(r) /\ WorldOK'
<1>1. WorldOK'
  BY DisturbedWorld DEF FindFails, cluster, IInv, TypeOK
<1>2. JobOK(plans, next, "clear", job[r])
  BY Knows, Inert DEF FindFails, MatchedAt, CopiedAt
<1> QED
  BY <1>1, <1>2, Knows, ContinueMoves DEF FindFails, cluster, Steps

\* A policy with nothing to do is reported so.
LEMMA ReportClearMoves ==
    ASSUME IInv, NEW r \in Replicas, ReportClear(r) \/ ReportConverged(r)
    PROVE  Moved(r) /\ WorldOK'
<1>1. /\ pc[r] = "clear" /\ Continue(r, "retire", job[r]) /\ UNCHANGED <<plans, next, world>>
      /\ planRef' \in {planRef, NoPlan}
  BY DEF ReportClear, ReportConverged
<1>2. WorldOK'
  BY <1>1 DEF WorldOK, world, IInv, TypeOK
<1>3. JobOK(plans, next, "retire", job[r])
  BY SMTT(30), <1>1, Knows, Inert DEF MatchedAt, CopiedAt
<1> QED
  BY <1>1, <1>2, <1>3, Knows, ContinueMoves DEF Steps

\* The plans to retire once the policy is in sync are listed.
LEMMA RetireListMoves ==
    ASSUME IInv, NEW r \in Replicas, RetireList(r)
    PROVE  Moved(r) /\ WorldOK'
<1> DEFINE todo == actionable_policy_plans(plans)
           k == [job[r] EXCEPT !.listed = plans, !.todo = todo]
<1>1. /\ pc[r] = "retire" /\ Continue(r, "retiring", k) /\ UNCHANGED <<cluster, world>>
  BY DEF RetireList
<1>2. todo \subseteq PlanIds /\ \A p \in todo : plans[p].phase # "absent"
  BY DEF actionable_policy_plans, Actionable
<1> HIDE DEF todo
<1>3. /\ k \in Jobs
      /\ k.spec = job[r].spec /\ k.changes = job[r].changes /\ k.after = job[r].after
      /\ k.cur = job[r].cur /\ k.listed = plans /\ k.snap = job[r].snap
      /\ k.todo = todo
  BY Zenon, <1>2, Knows DEF Jobs
<1> HIDE DEF k
<1>4. \A p \in PlanIds : CopyOK(plans, next, p, k.listed[p])
  BY SMTT(30), <1>3, Knows, ListingOK
<1>5. JobOK(plans, next, "retiring", k)
  BY SMTT(30), <1>1, <1>2, <1>3, <1>4, Knows DEF JobOK, MatchedAt, ApprovedAt, CopiedAt
<1> QED
  BY <1>1, <1>3, <1>5, Knows, ContinueMoves, WorldStable DEF Steps, cluster

\* One of them is superseded.
LEMMA RetirePlanMoves ==
    ASSUME IInv, NEW r \in Replicas, RetirePlan(r)
    PROVE  Moved(r) /\ WorldOK'
<1> DEFINE listed == job[r].listed
           Status(p) == superseded_status(listed[p])
           Rest(p) == [job[r] EXCEPT !.todo = @ \ {p}]
<1>1. pc[r] = "retiring" /\ UNCHANGED <<next, planRef, world>>
  BY DEF RetirePlan
<1>2. PICK p \in Newest(listed, job[r].todo) :
          plans' = Patched(plans, p, Status(p)) /\ Continue(r, "retiring", Rest(p))
  BY Zenon DEF RetirePlan
<1>3. p \in job[r].todo /\ p \in PlanIds
  BY Knows DEF Newest, Jobs
<1>4. Evolved(plans, next, plans', next')
  <2>1. listed[p] \in Plans /\ p < next /\ listed[p].digest = plans[p].digest
    BY <1>1, <1>3, Knows DEF JobOK, CopyOK, Jobs
  <2>2. Status(p) \in Plans /\ Status(p).digest = plans[p].digest /\ Status(p).phase = "Superseded"
    BY <2>1 DEF superseded_status, Plans, Phases
  <2> HIDE DEF Status
  <2> QED
    BY SMTT(30), <1>1, <1>2, <1>3, <2>2, Knows, PatchedEvolves DEF GatedPhases
<1>5. JobOK(plans', next', "retiring", job[r]) /\ job[r] \in Jobs
  BY <1>1, <1>4, Knows, JobStable
<1> DEFINE k == Rest(p)
<1>6. /\ k \in Jobs
      /\ k.spec = job[r].spec /\ k.changes = job[r].changes /\ k.after = job[r].after
      /\ k.cur = job[r].cur /\ k.listed = job[r].listed /\ k.snap = job[r].snap
      /\ k.todo \subseteq job[r].todo
  BY <1>5 DEF Jobs
<1>7. Continue(r, "retiring", k)
  BY SMTT(30), <1>2
<1> HIDE DEF k
<1>8. JobOK(plans', next', "retiring", k)
  BY <1>5, <1>6 DEF JobOK, MatchedAt, ApprovedAt, CopiedAt
<1> QED
  BY <1>1, <1>4, <1>6, <1>7, <1>8, ContinueMoves, WorldStable DEF Steps

\* One of them could not be written.
LEMMA RetireSkipsMoves ==
    ASSUME IInv, NEW r \in Replicas, RetireSkips(r)
    PROVE  Moved(r) /\ WorldOK'
<1>1. WorldOK'
  BY DisturbedWorld DEF RetireSkips, cluster, IInv, TypeOK
<1> QED
  BY <1>1, SkipMoves DEF RetireSkips, cluster

\* All of them were superseded.
LEMMA RetireDoneMoves ==
    ASSUME IInv, NEW r \in Replicas, RetireDone(r)
    PROVE  Moved(r) /\ WorldOK'
BY Knows, LeaveMoves, WorldStable DEF RetireDone, cluster

\* cleanup_old_plans deletes what retention does not keep.
LEMMA CleanupMoves ==
    ASSUME IInv, NEW r \in Replicas, Cleanup(r)
    PROVE  Moved(r) /\ WorldOK'
<1>1. /\ pc[r] = "cleanup" /\ plans' = cleanup_old_plans(plans, clock) /\ next' = next
      /\ pc' = [pc EXCEPT ![r] = "idle"] /\ UNCHANGED <<planRef, holder, job, world>>
  BY DEF Cleanup, Goto
<1>2. Evolved(plans, next, plans', next')
  BY <1>1, Knows, CleanupEvolves
<1>3. JobOK(plans', next', "cleanup", job[r]) /\ job[r] \in Jobs
  BY <1>1, <1>2, Knows, JobStable
<1>4. JobOK(plans', next', "idle", job[r])
  BY <1>3 DEF JobOK, MatchedAt, ApprovedAt, CopiedAt
<1>5. job' = [job EXCEPT ![r] = job[r]] /\ holder' \in [Targets -> Replicas \cup {NoOne}]
  BY <1>1 DEF IInv, TypeOK
<1> QED
  BY Zenon, <1>1, <1>2, <1>3, <1>4, <1>5, WorldStable DEF Moved, Steps

\* Every step of a reconcile keeps the invariant.
LEMMA StepPreserves ==
    ASSUME IInv, NEW r \in Replicas, Step(r)
    PROVE  IInv'
<1>1. Moved(r) /\ WorldOK'
  <2>1. CASE Begin(r) \/ TakeLock(r) \/ RecoverStuck(r) \/ Inspect(r)
    BY <2>1, BeginMoves, TakeLockMoves, RecoverStuckMoves, InspectMoves
  <2>2. CASE \/ LookupApproved(r) \/ LookupRejected(r) \/ LookupPending(r)
             \/ LookupNothing(r) \/ ListPlans(r) \/ CreatePlan(r)
    BY <2>2, LookupApprovedMoves, LookupRejectedMoves, LookupPendingMoves,
       LookupNothingMoves, ListPlansMoves, CreatePlanMoves
  <2>3. CASE \/ ResumeCreation(r) \/ NameCollides(r)
             \/ PublishStatus(r) \/ PublishFails(r) \/ WithdrawPlan(r)
    BY <2>3, ResumeCreationMoves, NameCollidesMoves, PublishStatusMoves,
       PublishFailsMoves, WithdrawPlanMoves
  <2>4. CASE SweepPlan(r) \/ SweepSkips(r) \/ SweepDone(r) \/ FetchPlan(r) \/ ApprovePlan(r)
    BY <2>4, SweepPlanMoves, SweepSkipsMoves, SweepDoneMoves, FetchPlanMoves, ApprovePlanMoves
  <2>5. CASE RefetchPlan(r) \/ MaterializeFails(r) \/ StartApply(r) \/ RunSql(r)
    BY <2>5, RefetchPlanMoves, MaterializeFailsMoves, StartApplyMoves, RunSqlMoves
  <2>6. CASE SqlHasNoEffect(r) \/ SqlFails(r) \/ RecordApplied(r) \/ RecordFailed(r)
    BY <2>6, SqlHasNoEffectMoves, SqlFailsMoves, RecordAppliedMoves, RecordFailedMoves
  <2>7. CASE \/ SupersedePlan(r) \/ RejectPlan(r) \/ PointToPlan(r)
             \/ ReportPlanned(r) \/ ReportApplied(r) \/ ReportRejected(r)
    BY <2>7, SupersedePlanMoves, RejectPlanMoves, PointToPlanMoves, ReportMoves
  <2>8. CASE \/ FindReferenced(r) \/ FindFails(r) \/ ReportClear(r) \/ ReportConverged(r)
             \/ RetireList(r) \/ RetirePlan(r) \/ RetireSkips(r) \/ RetireDone(r) \/ Cleanup(r)
    BY SMTT(30), <2>8, FindReferencedMoves, FindFailsMoves, ReportClearMoves, RetireListMoves,
       RetirePlanMoves, RetireSkipsMoves, RetireDoneMoves, CleanupMoves
  <2> QED
    BY <2>1, <2>2, <2>3, <2>4, <2>5, <2>6, <2>7, <2>8 DEF Step
<1> QED
  BY <1>1, MovedPreserves

----------------------------------------------------------------------------
(* Failures and the environment *)

\* A failed API or database call ends the reconcile.
LEMMA CallFailsPreserves ==
    ASSUME IInv, NEW r \in Replicas, CallFails(r)
    PROVE  IInv'
<1>1. WorldOK'
  BY DisturbedWorld DEF CallFails, cluster, IInv, TypeOK
<1> QED
  BY <1>1, Knows, LeaveMoves, MovedPreserves DEF CallFails, cluster

\* A crashed replica loses its locals and its locks.
LEMMA CrashPreserves ==
    ASSUME IInv, NEW r \in Replicas, Crash(r)
    PROVE  IInv'
<1>1. WorldOK'
  BY DisturbedWorld DEF Crash, cluster, IInv, TypeOK
<1>2. JobOK(plans, next, "idle", NoJob)
  BY Knows, NoJobOK
<1>3. Moved(r)
  BY Zenon, <1>2, Knows, NoJobType, ReleasedType DEF Moved, Crash, Goto, cluster, Steps
<1> QED
  BY <1>1, <1>3, MovedPreserves

\* The session that holds the advisory lock is lost.
LEMMA LoseSessionPreserves ==
    ASSUME IInv, NEW r \in Replicas, LoseSession(r)
    PROVE  IInv'
<1>1. WorldOK'
  BY DisturbedWorld DEF LoseSession, cluster, IInv, TypeOK
<1> QED
  BY <1>1, Knows, ReleasedType, StillPreserves DEF LoseSession, cluster

\* A reviewer decides a plan.
LEMMA ReviewPreserves ==
    ASSUME IInv, NEW p \in PlanIds, NEW d \in {"Approved", "Denied"}, Review(p, d)
    PROVE  IInv'
<1>1. Evolved(plans, next, plans', next')
  BY Zenon, ReviewEvolves DEF Review, IInv
<1>2. budget' \in 0..MaxDisturbances
  BY DisturbType DEF Review, IInv, TypeOK
<1>3. WorldOK' /\ holder' = holder /\ UNCHANGED <<pc, job>>
  BY <1>2 DEF Review, WorldOK, IInv, TypeOK
<1> QED
  BY <1>1, <1>3, StillPreserves DEF IInv, TypeOK

\* The policy is edited.
LEMMA EditPolicyPreserves ==
    ASSUME IInv, EditPolicy
    PROVE  IInv'
<1>1. spec' \in Specs
  BY DEF EditPolicy, Specs, IInv, TypeOK
<1>2. budget' \in 0..MaxDisturbances
  BY DisturbType DEF EditPolicy
<1>3. WorldOK' /\ UNCHANGED <<plans, next, holder, pc, job>>
  BY <1>1, <1>2 DEF EditPolicy, WorldOK, cluster, IInv, TypeOK
<1> QED
  BY <1>3, Unwritten, StillPreserves DEF IInv, TypeOK

\* Time passes, or the databases change behind the operator.
LEMMA WorldMovesPreserves ==
    ASSUME IInv, Drift \/ AuthorityChanges \/ Tick \/ ClockBack
    PROVE  IInv'
<1>1. UNCHANGED <<plans, next, planRef, spec, holder, pc, job>>
  BY DEF Drift, AuthorityChanges, Tick, ClockBack, cluster
<1>2. budget' \in 0..MaxDisturbances
  BY DisturbType DEF Drift, AuthorityChanges, Tick, ClockBack, IInv, TypeOK
<1>3. db' \in [Targets -> SUBSET Items]
  BY DEF Drift, AuthorityChanges, Tick, ClockBack, IInv, TypeOK
<1>4. authority' \in BOOLEAN
  BY Zenon DEF Drift, AuthorityChanges, Tick, ClockBack, IInv, TypeOK
<1>5. clock' \in Nat \ {0}
  BY DEF Drift, AuthorityChanges, Tick, ClockBack, IInv, TypeOK
<1>6. WorldOK'
  BY SMTT(30), <1>1, <1>2, <1>3, <1>4, <1>5 DEF WorldOK, IInv, TypeOK
<1> QED
  BY SMTT(30), <1>1, <1>6, Unwritten, StillPreserves DEF IInv, TypeOK

----------------------------------------------------------------------------
(* The theorems *)

\* The invariant holds initially.
LEMMA InitOK == Init => IInv
<1> SUFFICES ASSUME Init
             PROVE  IInv
  OBVIOUS
<1>1. AbsentPlan \in Plans
  BY NoJobType DEF NoJob, Jobs
<1>2. StoreOK(plans, next)
  BY <1>1, StoreAssumption DEF Init, StoreOK, PlanIds, AbsentPlan, GatedPhases
<1>3. TypeOK
  BY <1>1, NoJobType, StoreAssumption, ReconcileAssumption
     DEF Init, TypeOK, NoPlan, Steps
<1>4. \A r \in Replicas : JobOK(plans, next, pc[r], job[r])
  BY <1>2, NoJobOK DEF Init
<1> QED
  BY <1>2, <1>3, <1>4 DEF IInv

\* Every step keeps the invariant.
LEMMA NextOK == IInv /\ [Next]_vars => IInv'
<1> SUFFICES ASSUME IInv, [Next]_vars
             PROVE  IInv'
  OBVIOUS
<1>1. CASE UNCHANGED vars
  BY <1>1 DEF vars, IInv, TypeOK
<1>2. ASSUME NEW r \in Replicas, Step(r) \/ CallFails(r) \/ Crash(r) \/ LoseSession(r)
      PROVE  IInv'
  BY <1>2, StepPreserves, CallFailsPreserves, CrashPreserves, LoseSessionPreserves
<1>3. CASE Environment
  BY <1>3, ReviewPreserves, EditPolicyPreserves, WorldMovesPreserves DEF Environment
<1> QED
  BY <1>1, <1>2, <1>3 DEF Next

\* The inductive invariant holds throughout.
THEOREM Invariance == Spec => []IInv
BY InitOK, NextOK, PTL DEF Spec

\* Every reachable state is well typed.
THEOREM TypeCorrectness == Spec => []TypeOK
<1>1. IInv => TypeOK
  BY DEF IInv
<1> QED
  BY <1>1, Invariance, PTL

\* No replica ever runs SQL other than the changes, on the database, of a
\* plan that carries an approval: for any number of replicas, whatever the
\* reviewers, edits, crashes and lost locks in between.
THEOREM ExecutionIsApproved == Spec => []ExecutesWhatWasApproved
<1>1. IInv => ExecutesWhatWasApproved
  BY DEF IInv, JobOK, MatchedAt, ApprovedAt, ExecutesWhatWasApproved, Digest
<1> QED
  BY <1>1, Invariance, PTL

\* No plan is Approved, Applying or Applied without an approval on it.
THEOREM PhaseIsGated == Spec => []DecisionGatesPhase
<1>1. IInv => DecisionGatesPhase
  BY DEF IInv, StoreOK, GatedPhases, DecisionGatesPhase
<1> QED
  BY <1>1, Invariance, PTL
=============================================================================
