---------------------- MODULE PolicyReconcileInvariant ----------------------
(***************************************************************************)
(* Proofs about PolicyReconcile for any number of replicas, plans,         *)
(* databases and disturbances, lost database locks included.               *)
(*                                                                         *)
(* The argument rests on two facts about the store that no write of the    *)
(* operator or of a reviewer breaks (Evolved): a plan's digest never       *)
(* changes, and a decision, once recorded, never changes.  What a          *)
(* reconcile knew about its plan when it last looked (JobOK) therefore     *)
(* still holds at the moment it runs SQL.                                  *)
(*                                                                         *)
(* This module states the inductive invariant IInv and what it needs of    *)
(* the plan objects and of the locals of a reconcile.                      *)
(***************************************************************************)
EXTENDS PolicyReconcile, TLAPS

GatedPhases == {"Approved", "Applying", "Applied"}

\* The plan objects: slots not used yet are absent, and a gated phase carries
\* an approval.
StoreOK(ps, nx) ==
    /\ ps \in [PlanIds -> Plans]
    /\ nx \in 1..(MaxPlans + 1)
    /\ \A p \in PlanIds : p >= nx => ps[p] = AbsentPlan
    /\ \A p \in PlanIds : ps[p].phase \in GatedPhases => ps[p].decision = "Approved"

\* What one step may do to the plan objects.
Evolved(ps, nx, ps2, nx2) ==
    /\ StoreOK(ps2, nx2)
    /\ nx <= nx2
    /\ \A p \in PlanIds : p < nx =>
          /\ ps2[p].digest = ps[p].digest
          /\ ps[p].decision # "none" => ps2[p].decision = ps[p].decision

\* A copy of plan p that was read earlier: still the plan's digest, and, if it
\* was decided then, still its decision.
CopyOK(ps, nx, p, copy) ==
    copy.phase # "absent" =>
        /\ p \in PlanIds /\ p < nx
        /\ copy.digest = ps[p].digest
        /\ copy.decision # "none" => ps[p].decision = copy.decision

\* Steps at which the plan acted on has the digest of the computed changes,
\* at which it is approved, and at which a copy of it is held.
MatchedAt  == {"publish", "withdraw", "sweep", "fetch", "approve", "refetch", "apply",
               "sql"}
ApprovedAt == {"refetch", "apply", "sql"}
CopiedAt   == {"approve", "apply", "sql", "applied", "failed", "supersede", "reject"}

\* The locals of a reconcile at a step, against the plan objects.
JobOK(ps, nx, step, j) ==
    /\ step \notin {"idle", "cleanup"} => j.spec \in Specs
    /\ j.after \in {"idle", "fetch", "point", "planned"}
    /\ j.after = "fetch" => j.spec.mode = "auto"
    /\ j.cur < nx
    /\ CopyOK(ps, nx, j.cur, j.snap)
    /\ \A p \in PlanIds : CopyOK(ps, nx, p, j.listed[p])
    /\ \A p \in j.todo : j.listed[p].phase # "absent"
    /\ step \notin {"sweep", "retiring"} => j.todo = {}
    /\ step \in {"locking", "recover", "inspect", "find", "create"} => j.snap = AbsentPlan
    /\ step \in MatchedAt =>
          /\ j.cur \in PlanIds
          /\ ps[j.cur].digest = compute_change_digest(j.changes, j.spec.target)
    /\ step \in ApprovedAt => ps[j.cur].decision = "Approved"
    /\ step \in CopiedAt => j.snap.phase # "absent"

IInv ==
    /\ TypeOK
    /\ StoreOK(plans, next)
    /\ \A r \in Replicas : JobOK(plans, next, pc[r], job[r])

----------------------------------------------------------------------------
(* The plan objects *)

\* Leaving the plan objects alone is a legal step (any action that does not
\* write to a plan).
LEMMA Unwritten ==
    ASSUME NEW ps, NEW nx, StoreOK(ps, nx)
    PROVE  Evolved(ps, nx, ps, nx)
BY DEF Evolved, StoreOK

\* A status patch, accepted or refused, is a legal step when it carries the
\* plan's own digest and does not claim a gated phase without an approval
\* (the admission rules of crd.rs keep the decision).
LEMMA PatchedEvolves ==
    ASSUME NEW ps, NEW nx, StoreOK(ps, nx),
           NEW p \in PlanIds, NEW status \in Plans,
           p < nx => status.digest = ps[p].digest,
           status.phase \in GatedPhases => status.decision = "Approved"
    PROVE  Evolved(ps, nx, Patched(ps, p, status), nx)
<1>1. CASE ~Patchable(ps, p, status)
  BY <1>1, Unwritten DEF Patched
<1>2. CASE Patchable(ps, p, status)
  <2> DEFINE new == Merged(ps[p], status)
  <2>1. p < nx
    BY <1>2, StoreAssumption DEF Patchable, Exists, StoreOK, AbsentPlan, PlanIds
  <2>2. /\ new \in Plans
        /\ new.digest = status.digest
        /\ new.phase = status.phase
        /\ new.decision = status.decision
    BY DEF Merged, Plans, StoreOK, Deciders
  <2>3. ps[p].decision # "none" => new.decision = ps[p].decision
    BY <1>2 DEF Patchable, Admitted, has_terminal_decision
  <2>4. Patched(ps, p, status) = [ps EXCEPT ![p] = new]
    BY <1>2 DEF Patched
  <2> HIDE DEF new
  <2> QED
    BY <2>1, <2>2, <2>3, <2>4 DEF Evolved, StoreOK, PlanIds
<1> QED
  BY <1>1, <1>2

\* Writing only the phase of a created plan is a legal step, given an
\* approval if the phase is gated (update_plan_phase).
LEMMA PhaseEvolves ==
    ASSUME NEW ps, NEW nx, StoreOK(ps, nx),
           NEW p \in PlanIds, NEW phase \in Phases, p < nx,
           phase \in GatedPhases => ps[p].decision = "Approved"
    PROVE  Evolved(ps, nx, [ps EXCEPT ![p].phase = phase], nx)
BY DEF Evolved, StoreOK, PlanIds, Plans

\* Retention only deletes (cleanup_old_plans).
LEMMA CleanupEvolves ==
    ASSUME NEW ps, NEW nx, NEW now, StoreOK(ps, nx)
    PROVE  Evolved(ps, nx, cleanup_old_plans(ps, now), nx)
<1> DEFINE ps2 == cleanup_old_plans(ps, now)
<1>1. \A p \in PlanIds : ps2[p] = ps[p] \/ ps2[p] = [ps[p] EXCEPT !.phase = "deleted"]
  BY DEF cleanup_old_plans
<1>2. \A p \in PlanIds : p >= nx => ps2[p] = AbsentPlan
  <2> SUFFICES ASSUME NEW p \in PlanIds, p >= nx
               PROVE  ps2[p] = ps[p]
    BY DEF StoreOK
  <2>1. ps[p].phase = "absent"
    BY DEF StoreOK, AbsentPlan
  <2>2. p \notin plans_to_evict(ps)
    BY <2>1 DEF plans_to_evict, oldest_beyond
  <2>3. ~is_stale_statusless_plan(ps[p], now)
    BY <2>1 DEF is_stale_statusless_plan
  <2> QED
    BY <2>2, <2>3 DEF cleanup_old_plans
<1>3. ps2 \in [PlanIds -> Plans]
  <2>1. ps2 = [p \in PlanIds |-> ps2[p]]
    BY DEF cleanup_old_plans
  <2> HIDE DEF ps2
  <2>2. ASSUME NEW p \in PlanIds
        PROVE  ps2[p] \in Plans
    <3>1. ps[p] \in Plans
      BY DEF StoreOK
    <3>2. [ps[p] EXCEPT !.phase = "deleted"] \in Plans
      BY <3>1 DEF Plans, Phases
    <3> QED
      BY <1>1, <3>1, <3>2
  <2> QED
    BY <2>1, <2>2
<1>4. \A p \in PlanIds : /\ ps2[p].digest = ps[p].digest
                         /\ ps2[p].decision = ps[p].decision
                         /\ ps2[p].phase \in {ps[p].phase, "deleted"}
  BY Zenon, <1>1 DEF StoreOK, Plans
<1> HIDE DEF ps2
<1>5. \A p \in PlanIds : ps2[p].phase \in GatedPhases => ps2[p].decision = "Approved"
  BY <1>4 DEF StoreOK, GatedPhases
<1>6. StoreOK(ps2, nx)
  BY <1>2, <1>3, <1>5 DEF StoreOK
<1>7. Evolved(ps, nx, ps2, nx)
  BY <1>4, <1>6 DEF Evolved, StoreOK
<1> QED
  BY <1>7 DEF ps2

\* A new plan object takes the next slot (the create of
\* create_or_update_plan).
LEMMA CreateEvolves ==
    ASSUME NEW ps, NEW nx, StoreOK(ps, nx), nx <= MaxPlans,
           NEW digest \in Digests, NEW now \in Nat
    PROVE  /\ Evolved(ps, nx, [ps EXCEPT ![nx] = NewPlan(digest, now)], nx + 1)
           /\ nx \in PlanIds
<1> DEFINE new == NewPlan(digest, now)
<1>1. nx \in PlanIds /\ nx + 1 \in 1..(MaxPlans + 1)
  BY StoreAssumption DEF StoreOK, PlanIds
<1>2. new \in Plans /\ new.phase = "new"
  BY Zenon DEF NewPlan, AbsentPlan, Plans, Phases, Decisions, Deciders, NoTime
<1> HIDE DEF new
<1>3. Evolved(ps, nx, [ps EXCEPT ![nx] = new], nx + 1)
  BY <1>1, <1>2, StoreAssumption DEF Evolved, StoreOK, PlanIds, GatedPhases
<1> QED
  BY <1>1, <1>3 DEF new

\* A reviewer decides an undecided live plan.
LEMMA ReviewEvolves ==
    ASSUME NEW ps, NEW nx, StoreOK(ps, nx), NEW p \in PlanIds,
           NEW decision \in {"Approved", "Denied"},
           Actionable(ps[p]), ~has_terminal_decision(ps[p])
    PROVE  Evolved(ps, nx, [ps EXCEPT ![p].decision = decision,
                                      ![p].decider = "reviewer"], nx)
<1>1. p < nx
  BY StoreAssumption DEF Actionable, StoreOK, AbsentPlan, PlanIds
<1>2. ps[p].phase = "Pending" /\ ps[p].decision = "none"
  BY DEF Actionable, has_terminal_decision, StoreOK, GatedPhases
<1> DEFINE new == [ps[p] EXCEPT !.decision = decision, !.decider = "reviewer"]
<1>3. new \in Plans /\ new.phase = "Pending" /\ new.digest = ps[p].digest
  BY Zenon, <1>2 DEF StoreOK, Plans, Decisions, Deciders
<1>4. [ps EXCEPT ![p].decision = decision, ![p].decider = "reviewer"] = [ps EXCEPT ![p] = new]
  BY Zenon DEF StoreOK, Plans
<1> HIDE DEF new
<1> QED
  BY <1>1, <1>2, <1>3, <1>4 DEF Evolved, StoreOK, PlanIds, GatedPhases

----------------------------------------------------------------------------
(* The locals of a reconcile *)

\* What a reconcile knows of the plans survives every legal step of somebody
\* else.
LEMMA JobStable ==
    ASSUME NEW ps, NEW nx, NEW ps2, NEW nx2, NEW step, NEW j \in Jobs,
           StoreOK(ps, nx), Evolved(ps, nx, ps2, nx2), JobOK(ps, nx, step, j)
    PROVE  JobOK(ps2, nx2, step, j)
<1>1. nx \in Int /\ nx2 \in Int /\ nx <= nx2 /\ PlanIds \subseteq Int
  BY StoreAssumption DEF StoreOK, Evolved, PlanIds
<1>2. ASSUME NEW p, NEW copy, CopyOK(ps, nx, p, copy)
      PROVE  CopyOK(ps2, nx2, p, copy)
  BY <1>1, <1>2 DEF CopyOK, Evolved
<1>3. j.cur \in Int /\ j.cur < nx2
  <2> DEFINE cur == j.cur
  <2>1. cur \in PlanIds \cup {0} /\ cur < nx
    BY DEF Jobs, NoPlan, JobOK
  <2> HIDE DEF cur
  <2>2. cur \in Int /\ cur < nx2
    BY <1>1, <2>1
  <2> QED
    BY <2>2 DEF cur
<1>4. CopyOK(ps2, nx2, j.cur, j.snap) /\ \A p \in PlanIds : CopyOK(ps2, nx2, p, j.listed[p])
  BY <1>2 DEF JobOK
<1>5. j.cur \in PlanIds =>
        /\ ps2[j.cur].digest = ps[j.cur].digest
        /\ ps[j.cur].decision # "none" => ps2[j.cur].decision = ps[j.cur].decision
  BY DEF Evolved, JobOK
<1>6. step \in MatchedAt =>
        /\ j.cur \in PlanIds
        /\ ps2[j.cur].digest = compute_change_digest(j.changes, j.spec.target)
  BY <1>5 DEF JobOK
<1>7. step \in ApprovedAt => ps2[j.cur].decision = "Approved"
  BY <1>5 DEF JobOK, ApprovedAt, MatchedAt
<1> QED
  BY <1>3, <1>4, <1>6, <1>7 DEF JobOK

\* An idle replica knows nothing.
LEMMA NoJobType == NoJob \in Jobs
BY DEF NoJob, Jobs, NoSpec, NoPlan, NoChanges, Changes, AbsentPlan, NoList, Plans,
       Phases, Digests, Decisions, Deciders, NoTime, Steps, compute_change_digest

\* An idle replica has no locals, which is correct against any plan objects.
LEMMA NoJobOK ==
    ASSUME NEW ps, NEW nx, StoreOK(ps, nx), NEW step \in {"idle", "cleanup"}
    PROVE  JobOK(ps, nx, step, NoJob)
BY StoreAssumption
   DEF JobOK, NoJob, NoPlan, StoreOK, CopyOK, NoList, AbsentPlan, MatchedAt,
       ApprovedAt, CopiedAt

\* The replica r moves to some step with some locals.
Moved(r) ==
    /\ Evolved(plans, next, plans', next')
    /\ holder' \in [Targets -> Replicas \cup {NoOne}]
    /\ \E step \in Steps, j \in Jobs :
          /\ pc' = [pc EXCEPT ![r] = step]
          /\ job' = [job EXCEPT ![r] = j]
          /\ JobOK(plans', next', step, j)

\* The rest of the state keeps its type.
WorldOK ==
    /\ planRef \in PlanIds \cup {NoPlan}
    /\ spec \in Specs
    /\ authority \in BOOLEAN
    /\ db \in [Targets -> SUBSET Items]
    /\ clock \in Nat \ {0}
    /\ budget \in 0..MaxDisturbances

\* A legal move of one replica keeps the invariant of all.
LEMMA MovedPreserves ==
    ASSUME IInv, NEW r \in Replicas, Moved(r), WorldOK'
    PROVE  IInv'
<1>1. PICK step \in Steps, j \in Jobs :
          /\ pc' = [pc EXCEPT ![r] = step]
          /\ job' = [job EXCEPT ![r] = j]
          /\ JobOK(plans', next', step, j)
  BY Zenon DEF Moved
<1>2. StoreOK(plans', next') /\ Evolved(plans, next, plans', next')
  BY DEF Moved, Evolved
<1>3. TypeOK'
  BY <1>1, <1>2 DEF IInv, TypeOK, WorldOK, Moved, StoreOK
<1>4. ASSUME NEW q \in Replicas
      PROVE  JobOK(plans', next', pc'[q], job'[q])
  <2>1. CASE q = r
    BY <1>1, <2>1 DEF IInv, TypeOK
  <2>2. CASE q # r
    <3>1. pc'[q] = pc[q] /\ job'[q] = job[q] /\ job[q] \in Jobs
      BY <1>1, <2>2 DEF IInv, TypeOK
    <3>2. JobOK(plans, next, pc[q], job[q]) /\ StoreOK(plans, next)
      BY DEF IInv
    <3> QED
      BY <1>2, <3>1, <3>2, JobStable
  <2> QED
    BY <2>1, <2>2
<1> QED
  BY <1>2, <1>3, <1>4 DEF IInv

\* Nobody moves (steps of the environment).
LEMMA StillPreserves ==
    ASSUME IInv, UNCHANGED <<pc, job>>, WorldOK',
           Evolved(plans, next, plans', next'),
           holder' \in [Targets -> Replicas \cup {NoOne}]
    PROVE  IInv'
<1>1. TypeOK' /\ StoreOK(plans', next')
  BY DEF IInv, TypeOK, WorldOK, Evolved, StoreOK
<1>2. ASSUME NEW q \in Replicas
      PROVE  JobOK(plans', next', pc'[q], job'[q])
  <2>1. pc'[q] = pc[q] /\ job'[q] = job[q] /\ job[q] \in Jobs
    BY DEF IInv, TypeOK
  <2>2. JobOK(plans, next, pc[q], job[q]) /\ StoreOK(plans, next)
    BY DEF IInv
  <2> QED
    BY <2>1, <2>2, JobStable
<1> QED
  BY <1>1, <1>2 DEF IInv

\* A step that goes on to another step with correct locals is a legal move.
LEMMA ContinueMoves ==
    ASSUME IInv, NEW r \in Replicas, NEW step \in Steps, NEW j \in Jobs,
           Continue(r, step, j), Evolved(plans, next, plans', next'),
           JobOK(plans', next', step, j)
    PROVE  Moved(r)
BY Zenon DEF Moved, Continue, Goto, IInv, TypeOK

\* Releasing the locks keeps their type.
LEMMA ReleasedType ==
    ASSUME IInv, NEW r \in Replicas
    PROVE  Released(r) \in [Targets -> Replicas \cup {NoOne}]
BY DEF Released, IInv, TypeOK

\* Ending a reconcile (an early return or an error) is a legal move.
LEMMA LeaveMoves ==
    ASSUME IInv, NEW r \in Replicas, Leave(r), Evolved(plans, next, plans', next')
    PROVE  Moved(r)
<1>1. JobOK(plans', next', "cleanup", NoJob)
  BY NoJobOK DEF Evolved
<1> QED
  BY Zenon, <1>1, NoJobType, ReleasedType DEF Moved, Leave, Goto, Steps

----------------------------------------------------------------------------
(* One lemma per action: the replica moves, and the rest keeps its type *)

\* What a step leaves alone keeps its type.
LEMMA WorldStable ==
    ASSUME IInv, UNCHANGED <<planRef, world>>
    PROVE  WorldOK'
BY DEF IInv, TypeOK, WorldOK, world

\* A failure uses up the budget of failures.
LEMMA DisturbType ==
    ASSUME IInv, NEW kind, Disturb(kind)
    PROVE  budget' \in 0..MaxDisturbances
BY ReconcileAssumption DEF Disturb, IInv, TypeOK

\* Running SQL, or failing to, keeps the types of the rest.
LEMMA DisturbedWorld ==
    ASSUME IInv, NEW kind, Disturb(kind), UNCHANGED <<planRef, spec, authority, clock>>,
           db' \in [Targets -> SUBSET Items]
    PROVE  WorldOK'
BY DisturbType DEF WorldOK, IInv, TypeOK

\* What IInv says of one replica.
LEMMA Knows ==
    ASSUME IInv, NEW r \in Replicas
    PROVE  /\ job[r] \in Jobs
           /\ pc[r] \in Steps
           /\ StoreOK(plans, next)
           /\ Evolved(plans, next, plans, next)
           /\ JobOK(plans, next, pc[r], job[r])
           /\ Digest(r) \in Digests
           /\ plans \in [PlanIds -> Plans]
           /\ clock \in Nat
<1>1. Digest(r) \in Digests
  BY DEF Digest, compute_change_digest, Digests, IInv, TypeOK, Jobs, Changes, Specs, NoSpec
<1> QED
  BY <1>1, Unwritten DEF IInv, TypeOK
=============================================================================
