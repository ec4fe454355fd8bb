-------------------------- MODULE PolicyReconcile --------------------------
(***************************************************************************)
(* One PostgresPolicy reconciled by the operator's replicas: a reconcile   *)
(* snapshots the policy, takes the database locks, inspects the database,  *)
(* and then, depending on the policy's mode, publishes a plan, executes    *)
(* one, or retires the ones left over.  Every call to the Kubernetes API   *)
(* or to PostgreSQL is a step of its own, so that reviewers, policy edits, *)
(* drift, other replicas, errors and crashes interleave with it.           *)
(***************************************************************************)
EXTENDS PlanStore

CONSTANTS
    Replicas,       \* operator processes
    Kinds,          \* which disturbances (see Disturb) this instance has
    MaxDisturbances,\* bound: disturbances in one behaviour
    NoOne           \* holder of a free database lock

ASSUME ReconcileAssumption ==
    /\ MaxDisturbances \in Nat
    /\ NoOne \notin Replicas

VARIABLES
    plans,      \* [PlanIds -> Plans], the policy's own plan objects
    next,       \* rank of the next plan object
    planRef,    \* status.current_plan_ref
    spec,       \* the policy: effective mode, desired state, target
    authority,  \* the executor holds the authority the changes need
    db,         \* [Targets -> SUBSET Items], what PostgreSQL holds
    clock,
    holder,     \* [Targets -> Replicas or NoOne], the lock of each database
    pc,         \* where each replica's reconcile is
    job,        \* its locals
    budget      \* disturbances left

vars == <<plans, next, planRef, spec, authority, db, clock, holder, pc, job, budget>>
cluster  == <<plans, next, planRef>>
world    == <<spec, authority, db, clock, budget>>

Modes == {"observe", "auto", "manual"}
Specs == [mode : Modes, desired : SUBSET Items, target : Targets]

Steps == {"idle", "locking", "recover", "inspect", "lookup", "list", "create",
          "publish", "withdraw", "sweep", "fetch", "approve", "refetch", "apply",
          "sql", "applied", "failed", "supersede", "reject", "point", "planned",
          "done", "rejected", "find", "clear", "retire", "retiring", "cleanup"}

NoSpec == [mode |-> "observe", desired |-> {}, target |-> Nowhere]
NoList == [p \in PlanIds |-> AbsentPlan]

\* Locals of a reconcile: the policy as dispatched (spec, ref), the computed
\* changes, the authority verdict, the plan acted on and the copy of it that
\* was read last, the plans as listed, those still to be written, whether the
\* plan was created by this reconcile, and where to go after the sweep.
NoJob == [spec |-> NoSpec, ref |-> NoPlan, changes |-> NoChanges,
          auth |-> TRUE, cur |-> NoPlan, snap |-> AbsentPlan, listed |-> NoList,
          todo |-> {}, created |-> FALSE, after |-> "idle"]

Jobs == [spec : Specs \cup {NoSpec}, ref : PlanIds \cup {NoPlan},
         changes : Changes, auth : BOOLEAN, cur : PlanIds \cup {NoPlan},
         snap : Plans, listed : [PlanIds -> Plans], todo : SUBSET PlanIds,
         created : BOOLEAN, after : Steps]

TypeOK ==
    /\ plans \in [PlanIds -> Plans]
    /\ next \in 1..(MaxPlans + 1)
    /\ planRef \in PlanIds \cup {NoPlan}
    /\ spec \in Specs
    /\ authority \in BOOLEAN
    /\ db \in [Targets -> SUBSET Items]
    /\ clock \in Nat \ {0}
    /\ holder \in [Targets -> Replicas \cup {NoOne}]
    /\ pc \in [Replicas -> Steps]
    /\ job \in [Replicas -> Jobs]
    /\ budget \in 0..MaxDisturbances

Init ==
    /\ plans = [p \in PlanIds |-> AbsentPlan]
    /\ next = 1
    /\ planRef = NoPlan
    /\ spec \in Specs
    /\ authority = TRUE
    /\ db = [t \in Targets |-> {}]
    /\ clock = 1
    /\ holder = [t \in Targets |-> NoOne]
    /\ pc = [r \in Replicas |-> "idle"]
    /\ job = [r \in Replicas |-> NoJob]
    /\ budget = MaxDisturbances

----------------------------------------------------------------------------
(* Control of a reconcile *)

HasChanges(r) == job[r].changes # NoChanges
Digest(r)     == compute_change_digest(job[r].changes, job[r].spec.target)
Reuse(r)      == IF job[r].spec.mode = "auto" THEN "AutoApproval" ELSE "PendingOnly"

Goto(r, step) == pc' = [pc EXCEPT ![r] = step]

\* The advisory lock is released, and nothing is if its session is gone.
Released(r) == [t \in Targets |-> IF holder[t] = r THEN NoOne ELSE holder[t]]

\* apply_under_lock returned, with a result or an error: the lock is released
\* and the retention pass runs.
Leave(r) ==
    /\ Goto(r, "cleanup")
    /\ job' = [job EXCEPT ![r] = NoJob]
    /\ holder' = Released(r)

\* Move on within the lock, with new locals.
Continue(r, step, locals) ==
    /\ Goto(r, step)
    /\ job' = [job EXCEPT ![r] = locals]
    /\ UNCHANGED holder

\* Disturbances are bounded together; an instance enables some kinds.
Disturb(kind) ==
    /\ kind \in Kinds
    /\ budget > 0
    /\ budget' = budget - 1

----------------------------------------------------------------------------
(* A reconcile, step by step *)

\* The controller dispatches the policy as its cache holds it.
Begin(r) ==
    /\ pc[r] = "idle"
    /\ Continue(r, "locking", [NoJob EXCEPT !.spec = spec, !.ref = planRef])
    /\ UNCHANGED <<cluster, world>>

\* Mutant: the reconcile goes ahead without the lock.
EnterWithoutLock(r) ==
    /\ pc[r] = "locking"
    /\ Goto(r, "recover")
    /\ UNCHANGED <<cluster, world, holder, job>>

\* Both locks are tried once; contention ends the reconcile silently.
TakeLock(r) ==
    /\ pc[r] = "locking"
    /\ IF holder[job[r].spec.target] = NoOne
       THEN /\ Goto(r, "recover")
            /\ holder' = [holder EXCEPT ![job[r].spec.target] = r]
            /\ UNCHANGED job
       ELSE /\ Goto(r, "idle")
            /\ job' = [job EXCEPT ![r] = NoJob]
            /\ UNCHANGED holder
    /\ UNCHANGED <<cluster, world>>

\* The newest Applying plan is failed once it has been Applying for too long.
RecoverStuck(r) ==
    /\ pc[r] = "recover"
    /\ LET stuck == {p \in get_plan_by_phase(plans, "Applying") :
                        /\ plans[p].applyingSince # NoTime
                        /\ clock - plans[p].applyingSince > StuckAfter}
       IN  IF stuck = {} THEN UNCHANGED plans
           ELSE \E p \in stuck : plans' = Patched(plans, p, FailedStatus(plans[p], clock))
    /\ Continue(r, "inspect", job[r])
    /\ UNCHANGED <<next, planRef, world>>

\* What the policy would change in the database right now.
policy_changes(want, have) == [add |-> want \ have, del |-> have \ want]

\* Inspection, diff and guards; then the branch on the policy's mode.
Inspect(r) ==
    /\ pc[r] = "inspect"
    /\ LET s == job[r].spec
           changes == policy_changes(s.desired, db[s.target])
           step == CASE s.mode = "manual" -> "lookup"
                     [] s.mode # "manual" /\ changes # NoChanges -> "list"
                     [] s.mode = "auto" /\ changes = NoChanges -> "find"
                     [] s.mode = "observe" /\ changes = NoChanges -> "clear"
           after == IF s.mode = "auto" THEN "fetch" ELSE "point"
       IN  Continue(r, step, [job[r] EXCEPT !.changes = changes,
                                            !.auth = authority, !.after = after])
    /\ UNCHANGED <<cluster, world>>

\* approval: manual acts on the newest actionable plan, if there is one.
Holding(r, p, after) ==
    [job[r] EXCEPT !.cur = p, !.snap = plans[p], !.after = after]

\* It is approved: execute it if it still describes the current effects.
LookupApproved(r) ==
    /\ pc[r] = "lookup"
    /\ \E p \in get_current_actionable_plan(plans) :
         LET verdict == decide_approved_plan(plans[p], Digest(r), HasChanges(r))
             step == [Execute |-> "approve", Clear |-> "supersede", Replace |-> "list"]
         IN  /\ check_plan_approval(plans[p]) = "Approved"
             /\ Continue(r, step[verdict], Holding(r, p, "point"))
    /\ UNCHANGED <<cluster, world>>

\* It is denied: record that, and plan again in a later reconcile.
LookupRejected(r) ==
    /\ pc[r] = "lookup"
    /\ \E p \in get_current_actionable_plan(plans) :
         /\ check_plan_approval(plans[p]) = "Rejected"
         /\ Continue(r, "reject", Holding(r, p, "point"))
    /\ UNCHANGED <<cluster, world>>

\* It awaits a decision: revalidate it.  A replacement is not pointed to
\* before the closing status write.
LookupPending(r) ==
    /\ pc[r] = "lookup"
    /\ \E p \in get_current_actionable_plan(plans) :
         LET verdict == decide_pending_plan(plans[p], Digest(r), HasChanges(r))
             step == [Retain |-> "planned", Clear |-> "supersede", Replace |-> "list"]
         IN  /\ check_plan_approval(plans[p]) = "Pending"
             /\ Continue(r, step[verdict], Holding(r, p, "planned"))
    /\ UNCHANGED <<cluster, world>>

\* approval: manual, with no actionable plan.
LookupNothing(r) ==
    /\ pc[r] = "lookup"
    /\ get_current_actionable_plan(plans) = {}
    /\ Continue(r, IF HasChanges(r) THEN "list" ELSE "clear", job[r])
    /\ UNCHANGED <<cluster, world>>

----------------------------------------------------------------------------
(* create_or_update_plan *)

\* The retention pass, the listing, and what the listing already answers: an
\* actionable plan of the same effects is kept, effects that failed recently
\* are not planned again, nor, under auto-approval, effects that were applied
\* recently; otherwise a plan is created.
ListPlans(r) ==
    /\ pc[r] = "list"
    /\ LET listed   == cleanup_old_plans(plans, clock)
           reusable == reusable_plan(listed, Digest(r), Reuse(r))
           failing  == failed_recently(listed, Digest(r), clock)
           idling   == applied_recently_without_converging(listed, Digest(r), clock)
       IN  /\ plans' = listed
           /\ \/ \E p \in reusable :
                   Continue(r, "sweep",
                       [job[r] EXCEPT !.cur = p, !.listed = listed, !.snap = AbsentPlan,
                           !.todo = SweptPlans(listed, p, Digest(r), Reuse(r))])
              \/ /\ reusable = {}
                 /\ \E p \in failing :
                      IF job[r].spec.mode = "auto" THEN Leave(r)
                      ELSE Continue(r, job[r].after,
                               [job[r] EXCEPT !.cur = p, !.snap = AbsentPlan])
              \/ /\ reusable = {} /\ failing = {}
                 /\ job[r].spec.mode = "auto" /\ idling # {}
                 /\ Leave(r)
              \/ /\ reusable = {} /\ failing = {}
                 /\ job[r].spec.mode = "auto" => idling = {}
                 /\ Continue(r, "create",
                       [job[r] EXCEPT !.listed = listed, !.snap = AbsentPlan])
    /\ UNCHANGED <<next, planRef, world>>

\* The plan object is created.
CreatePlan(r) ==
    /\ pc[r] = "create"
    /\ next <= MaxPlans
    /\ plans' = [plans EXCEPT ![next] = NewPlan(Digest(r), clock)]
    /\ next' = next + 1
    /\ Continue(r, "publish", [job[r] EXCEPT !.cur = next, !.created = TRUE])
    /\ UNCHANGED <<planRef, world>>

\* Mutant: whatever plan has the name is taken for an interrupted creation.
ResumeAnyPlan(r) ==
    /\ pc[r] = "create"
    /\ \E p \in PlanIds :
         /\ Exists(plans[p]) /\ plans[p].createdAt = clock /\ plans[p].digest = Digest(r)
         /\ Continue(r, "publish", [job[r] EXCEPT !.cur = p])
    /\ UNCHANGED <<cluster, world>>

\* The name is taken by an interrupted creation of the very same plan.
ResumeCreation(r) ==
    /\ pc[r] = "create"
    /\ \E p \in PlanIds :
         /\ plans[p] = NewPlan(Digest(r), clock)
         /\ Continue(r, "publish", [job[r] EXCEPT !.cur = p])
    /\ UNCHANGED <<cluster, world>>

\* The name, made of the second and of the SQL, is taken by a plan that is
\* not this creation: the reconcile fails, to be tried again in a later
\* second.  Plans of one tick need not be of one second, so this is a
\* disturbance; the rest of the spec of an unpublished plan may differ too.
NameCollides(r) ==
    /\ pc[r] = "create"
    /\ \E p \in PlanIds : /\ Exists(plans[p])
                          /\ plans[p].createdAt = clock
                          /\ plans[p].digest.add = Digest(r).add
                          /\ plans[p].digest.del = Digest(r).del
    /\ Disturb("collision")
    /\ Leave(r)
    /\ UNCHANGED <<cluster, spec, authority, db, clock>>

\* The status write that makes the plan visible for review.
PublishedStatus(r) ==
    [NewPlan(Digest(r), plans[job[r].cur].createdAt) EXCEPT !.phase = "Pending"]

PublishStatus(r) ==
    /\ pc[r] = "publish"
    /\ Patchable(plans, job[r].cur, PublishedStatus(r))
    /\ plans' = Patched(plans, job[r].cur, PublishedStatus(r))
    /\ Continue(r, "sweep", [job[r] EXCEPT !.todo =
           SweptPlans(job[r].listed, job[r].cur, Digest(r), Reuse(r))])
    /\ UNCHANGED <<next, planRef, world>>

\* The status write fails: it is refused, it does not arrive, or it is made
\* and the answer is lost.  A plan this reconcile created is then withdrawn.
PublishFails(r) ==
    /\ pc[r] = "publish"
    /\ IF Patchable(plans, job[r].cur, PublishedStatus(r))
       THEN /\ Disturb("publishFails")
            /\ plans' \in {plans, Patched(plans, job[r].cur, PublishedStatus(r))}
       ELSE UNCHANGED <<plans, budget>>
    /\ IF job[r].created THEN Continue(r, "withdraw", job[r]) ELSE Leave(r)
    /\ UNCHANGED <<next, planRef, spec, authority, db, clock>>

\* delete_plan_best_effort, whatever has become of the plan.
WithdrawPlan(r) ==
    /\ pc[r] = "withdraw"
    /\ plans' = [plans EXCEPT ![job[r].cur].phase = "deleted"]
    /\ Leave(r)
    /\ UNCHANGED <<next, planRef, world>>

First(S) == {p \in S : \A q \in S : p <= q}

\* supersede_stale_plans, one write: every plan is written from its listed
\* status.  A refused write fails the reconcile, except for a duplicate and
\* for the rejection of a denied plan, which writes only the phase.
SweepPlan(r) ==
    /\ pc[r] = "sweep"
    /\ \E p \in First(job[r].todo) :
         LET listed == job[r].listed
             status == superseded_status(listed[p])
             cause  == supersede_cause(listed, p, job[r].cur, Digest(r), Reuse(r))
             rest   == [job[r] EXCEPT !.todo = @ \ {p}]
         IN  \/ /\ RejectedBySweep(listed, p, Reuse(r))
                /\ plans' = IF Exists(plans[p])
                            THEN [plans EXCEPT ![p].phase = "Rejected"] ELSE plans
                /\ Continue(r, "sweep", rest)
             \/ /\ ~RejectedBySweep(listed, p, Reuse(r))
                /\ plans' = Patched(plans, p, status)
                /\ IF Patchable(plans, p, status) \/ cause = "Duplicate"
                   THEN Continue(r, "sweep", rest)
                   ELSE Leave(r)
    /\ UNCHANGED <<next, planRef, world>>

\* That the write of a rejection or of a duplicate fails is only logged.
Tolerated(r, p) ==
    \/ RejectedBySweep(job[r].listed, p, Reuse(r))
    \/ supersede_cause(job[r].listed, p, job[r].cur, Digest(r), Reuse(r)) = "Duplicate"

\* Such a write does not arrive.
SweepSkips(r) ==
    /\ pc[r] = "sweep"
    /\ \E p \in First(job[r].todo) :
         /\ Tolerated(r, p)
         /\ Continue(r, "sweep", [job[r] EXCEPT !.todo = @ \ {p}])
    /\ Disturb("callFails")
    /\ UNCHANGED <<cluster, spec, authority, db, clock>>

SweepDone(r) ==
    /\ pc[r] = "sweep" /\ job[r].todo = {}
    /\ Continue(r, job[r].after, [job[r] EXCEPT !.listed = NoList, !.created = FALSE])
    /\ UNCHANGED <<cluster, world>>

----------------------------------------------------------------------------
(* Executing a plan *)

\* approval: auto reads the plan it settled on.  Without the authority to
\* execute it, the plan is left for review and the policy points to it.
FetchPlan(r) ==
    /\ pc[r] = "fetch"
    /\ LET p == job[r].cur IN
       \/ /\ Exists(plans[p]) /\ job[r].auth
          /\ Continue(r, "approve", [job[r] EXCEPT !.snap = plans[p]])
          /\ UNCHANGED planRef
       \/ /\ Exists(plans[p]) /\ ~job[r].auth
          /\ planRef' = p
          /\ Leave(r)
       \/ /\ ~Exists(plans[p])
          /\ Leave(r)
          /\ UNCHANGED planRef
    /\ UNCHANGED <<plans, next, world>>

\* mark_plan_approved, from the plan as read: a denial stops the reconcile,
\* a recorded approval only advances the phase, an undecided plan becomes
\* approved by the operator unless a decision landed meanwhile.
ApprovePlan(r) ==
    /\ pc[r] = "approve"
    /\ LET p == job[r].cur
           snap == job[r].snap
           decided == has_terminal_decision(snap)
           granted == /\ ~is_denied(snap)
                      /\ Exists(plans[p])
                      /\ decided \/ Patchable(plans, p, ApprovedStatus(snap))
       IN  IF granted
           THEN /\ plans' = IF decided
                            THEN [plans EXCEPT ![p].phase = "Approved"]
                            ELSE Patched(plans, p, ApprovedStatus(snap))
                /\ Continue(r, "refetch", [job[r] EXCEPT !.snap = AbsentPlan])
           ELSE Leave(r) /\ UNCHANGED plans
    /\ UNCHANGED <<next, planRef, world>>

\* The plan is read again; under approval: manual missing authority stops the
\* reconcile only here, with the plan left Approved.
RefetchPlan(r) ==
    /\ pc[r] = "refetch"
    /\ IF Exists(plans[job[r].cur]) /\ job[r].auth
       THEN Continue(r, "apply", [job[r] EXCEPT !.snap = plans[job[r].cur]])
       ELSE Leave(r)
    /\ UNCHANGED <<cluster, world>>

\* Generated Secrets could not be created: no SQL runs, the plan is Failed.
MaterializeFails(r) ==
    /\ pc[r] = "apply"
    /\ Disturb("materializeFails")
    /\ plans' = Patched(plans, job[r].cur, FailedStatus(job[r].snap, clock))
    /\ Leave(r)
    /\ UNCHANGED <<next, planRef, spec, authority, db, clock>>

\* execute_plan, before the SQL: back off from a recent failure, or move the
\* plan to Applying whatever its phase has become.
StartApply(r) ==
    /\ pc[r] = "apply"
    /\ LET p == job[r].cur IN
       IF retry_deferred_until_window_expires(job[r].snap, clock) \/ ~Exists(plans[p])
       THEN Leave(r) /\ UNCHANGED plans
       ELSE /\ plans' = [plans EXCEPT ![p] = ApplyingStatus(@, clock)]
            /\ Continue(r, "sql", job[r])
    /\ UNCHANGED <<next, planRef, world>>

Executed(state, changes) == (state \cup changes.add) \ changes.del

\* The transaction commits.
RunSql(r) ==
    /\ pc[r] = "sql"
    /\ db' = [db EXCEPT ![job[r].spec.target] = Executed(@, job[r].changes)]
    /\ Continue(r, "applied", job[r])
    /\ UNCHANGED <<cluster, spec, authority, clock, budget>>

\* PostgreSQL accepts the statements and none has an effect.
SqlHasNoEffect(r) ==
    /\ pc[r] = "sql"
    /\ Disturb("sqlHasNoEffect")
    /\ Continue(r, "applied", job[r])
    /\ UNCHANGED <<cluster, spec, authority, db, clock>>

\* The transaction fails, or it commits and the acknowledgement is lost.
SqlFails(r) ==
    /\ pc[r] = "sql"
    /\ Disturb("sqlFails")
    /\ \/ UNCHANGED db
       \/ db' = [db EXCEPT ![job[r].spec.target] = Executed(@, job[r].changes)]
    /\ Continue(r, "failed", job[r])
    /\ UNCHANGED <<cluster, spec, authority, clock>>

\* The outcome is written over the status read before execution.
RecordApplied(r) ==
    /\ pc[r] = "applied"
    /\ LET status == AppliedStatus(job[r].snap, clock) IN
       /\ plans' = Patched(plans, job[r].cur, status)
       /\ IF Patchable(plans, job[r].cur, status)
          THEN Continue(r, IF job[r].spec.mode = "auto" THEN "point" ELSE "done", job[r])
          ELSE Leave(r)
    /\ UNCHANGED <<next, planRef, world>>

RecordFailed(r) ==
    /\ pc[r] = "failed"
    /\ plans' = Patched(plans, job[r].cur, FailedStatus(job[r].snap, clock))
    /\ Leave(r)
    /\ UNCHANGED <<next, planRef, world>>

----------------------------------------------------------------------------
(* Retiring plans and reporting *)

\* approval: manual, and the effects of the current plan are gone.
SupersedePlan(r) ==
    /\ pc[r] = "supersede"
    /\ LET status == superseded_status(job[r].snap) IN
       /\ plans' = Patched(plans, job[r].cur, status)
       /\ IF Patchable(plans, job[r].cur, status)
          THEN Continue(r, "clear", [job[r] EXCEPT !.snap = AbsentPlan])
          ELSE Leave(r)
    /\ UNCHANGED <<next, planRef, world>>

\* approval: manual, and a reviewer denied the current plan.
RejectPlan(r) ==
    /\ pc[r] = "reject"
    /\ LET p == job[r].cur IN
       IF Exists(plans[p])
       THEN /\ plans' = [plans EXCEPT ![p].phase = "Rejected"]
            /\ Continue(r, "rejected", job[r])
       ELSE Leave(r) /\ UNCHANGED plans
    /\ UNCHANGED <<next, planRef, world>>

\* update_policy_plan_ref.
PointToPlan(r) ==
    /\ pc[r] = "point"
    /\ planRef' = job[r].cur
    /\ Continue(r, IF job[r].spec.mode = "auto" THEN "done" ELSE "planned", job[r])
    /\ UNCHANGED <<plans, next, world>>

\* The closing status write of a reconcile that planned: the plan awaits a
\* decision.
ReportPlanned(r) ==
    /\ pc[r] = "planned"
    /\ planRef' = job[r].cur
    /\ Leave(r)
    /\ UNCHANGED <<plans, next, world>>

\* That of a reconcile that executed a plan leaves the reference alone.
ReportApplied(r) ==
    /\ pc[r] = "done"
    /\ Leave(r)
    /\ UNCHANGED <<cluster, world>>

\* That of a reconcile that found its plan denied clears it.
ReportRejected(r) ==
    /\ pc[r] = "rejected"
    /\ planRef' = NoPlan
    /\ Leave(r)
    /\ UNCHANGED <<plans, next, world>>

\* The plan the policy referenced when it was dispatched, if still live.
referenced_actionable_plan(r) ==
    IF job[r].ref # NoPlan /\ Actionable(plans[job[r].ref]) THEN job[r].ref ELSE NoPlan

\* approval: auto looks that plan up before its closing status write.
FindReferenced(r) ==
    /\ pc[r] = "find"
    /\ Continue(r, "clear", [job[r] EXCEPT !.cur = referenced_actionable_plan(r)])
    /\ UNCHANGED <<cluster, world>>

\* A plan that could not be read counts as one that is not live.
FindFails(r) ==
    /\ pc[r] = "find"
    /\ Disturb("findFails")
    /\ Continue(r, "clear", job[r])
    /\ UNCHANGED <<cluster, spec, authority, db, clock>>

\* Mutant: a live reference is left in place.
ReportKeepsReference(r) ==
    /\ pc[r] = "clear" /\ job[r].spec.mode # "auto"
    /\ Continue(r, "retire", job[r])
    /\ UNCHANGED <<cluster, world>>

\* The closing status write of a reconcile that found nothing to change.
ReportClear(r) ==
    /\ pc[r] = "clear" /\ job[r].spec.mode # "auto"
    /\ planRef' = NoPlan
    /\ Continue(r, "retire", job[r])
    /\ UNCHANGED <<plans, next, world>>


\* approval: auto clears the reference only if it found it to name a live plan.
ReportConverged(r) ==
    /\ pc[r] = "clear" /\ job[r].spec.mode = "auto"
    /\ planRef' = IF job[r].cur = NoPlan THEN planRef ELSE NoPlan
    /\ Continue(r, "retire", job[r])
    /\ UNCHANGED <<plans, next, world>>

\* Mutant: only the plan the policy referenced is retired.
RetireReferenced(r) ==
    /\ pc[r] = "retire"
    /\ Continue(r, "retiring",
           [job[r] EXCEPT !.listed = plans, !.todo = {referenced_actionable_plan(r)} \ {NoPlan}])
    /\ UNCHANGED <<cluster, world>>

\* retire_actionable_plans: list, then write one by one from the listing;
\* failures are only logged.
RetireList(r) ==
    /\ pc[r] = "retire"
    /\ Continue(r, "retiring",
           [job[r] EXCEPT !.listed = plans, !.todo = actionable_policy_plans(plans)])
    /\ UNCHANGED <<cluster, world>>

RetirePlan(r) ==
    /\ pc[r] = "retiring"
    /\ \E p \in Newest(job[r].listed, job[r].todo) :
         /\ plans' = Patched(plans, p, superseded_status(job[r].listed[p]))
         /\ Continue(r, "retiring", [job[r] EXCEPT !.todo = @ \ {p}])
    /\ UNCHANGED <<next, planRef, world>>

RetireSkips(r) ==
    /\ pc[r] = "retiring"
    /\ \E p \in Newest(job[r].listed, job[r].todo) :
         Continue(r, "retiring", [job[r] EXCEPT !.todo = @ \ {p}])
    /\ Disturb("callFails")
    /\ UNCHANGED <<cluster, spec, authority, db, clock>>

RetireDone(r) ==
    /\ pc[r] = "retiring" /\ job[r].todo = {}
    /\ Leave(r)
    /\ UNCHANGED <<cluster, world>>

\* The retention pass that closes every reconcile, outside the advisory lock.
Cleanup(r) ==
    /\ pc[r] = "cleanup"
    /\ plans' = cleanup_old_plans(plans, clock)
    /\ Goto(r, "idle")
    /\ UNCHANGED <<next, planRef, holder, job, world>>

Step(r) ==
    \/ Begin(r) \/ TakeLock(r) \/ RecoverStuck(r) \/ Inspect(r)
    \/ LookupApproved(r) \/ LookupRejected(r) \/ LookupPending(r) \/ LookupNothing(r)
    \/ ListPlans(r) \/ CreatePlan(r) \/ ResumeCreation(r) \/ NameCollides(r)
    \/ PublishStatus(r) \/ PublishFails(r) \/ WithdrawPlan(r)
    \/ SweepPlan(r) \/ SweepSkips(r) \/ SweepDone(r)
    \/ FetchPlan(r) \/ ApprovePlan(r) \/ RefetchPlan(r)
    \/ MaterializeFails(r) \/ StartApply(r)
    \/ RunSql(r) \/ SqlHasNoEffect(r) \/ SqlFails(r)
    \/ RecordApplied(r) \/ RecordFailed(r)
    \/ SupersedePlan(r) \/ RejectPlan(r) \/ PointToPlan(r)
    \/ ReportPlanned(r) \/ ReportApplied(r) \/ ReportRejected(r)
    \/ FindReferenced(r) \/ FindFails(r) \/ ReportClear(r) \/ ReportConverged(r)
    \/ RetireList(r) \/ RetirePlan(r) \/ RetireSkips(r) \/ RetireDone(r) \/ Cleanup(r)

----------------------------------------------------------------------------
(* Everything else *)

\* An API or database call fails: the reconcile returns the error.  (At
\* "publish" it is the answer to the creation that is lost; at "withdraw" and
\* "retire" the error is logged and the reconcile ends all the same.)
CallFails(r) ==
    /\ pc[r] \notin {"idle", "locking", "cleanup", "sql", "find", "retiring"}
    /\ pc[r] = "sweep" => \E p \in First(job[r].todo) : ~Tolerated(r, p)
    /\ Disturb("callFails")
    /\ Leave(r)
    /\ UNCHANGED <<cluster, spec, authority, db, clock>>

\* The process dies: its database session ends and the lock goes with it.
Crash(r) ==
    /\ pc[r] # "idle"
    /\ Disturb("crash")
    /\ Goto(r, "idle")
    /\ job' = [job EXCEPT ![r] = NoJob]
    /\ holder' = Released(r)
    /\ UNCHANGED <<cluster, spec, authority, db, clock>>

\* The session that holds the advisory lock drops; the reconcile goes on.
LoseSession(r) ==
    /\ \E t \in Targets : holder[t] = r
    /\ Disturb("loseSession")
    /\ holder' = Released(r)
    /\ UNCHANGED <<cluster, spec, authority, db, clock, pc, job>>

\* A reviewer decides a live plan.  (The admission rules allow a decision on
\* a retired plan too; nothing reads it.)
Review(p, decision) ==
    /\ Actionable(plans[p])
    /\ ~has_terminal_decision(plans[p])
    /\ IF decision = "Denied" THEN Disturb("denial") ELSE UNCHANGED budget
    /\ plans' = [plans EXCEPT ![p].decision = decision, ![p].decider = "reviewer"]
    /\ UNCHANGED <<next, planRef, spec, authority, db, clock, holder, pc, job>>

\* The policy is edited, or its connection Secret points elsewhere.
EditPolicy ==
    /\ \/ Disturb("edit") /\ \E d \in SUBSET Items : spec' = [spec EXCEPT !.desired = d]
       \/ Disturb("mode") /\ \E m \in Modes : spec' = [spec EXCEPT !.mode = m]
       \/ Disturb("target") /\ \E t \in Targets : spec' = [spec EXCEPT !.target = t]
    /\ spec' # spec
    /\ UNCHANGED <<cluster, authority, db, clock, holder, pc, job>>

\* Somebody else changes the database.
Drift ==
    /\ Disturb("drift")
    /\ \E t \in Targets, s \in SUBSET Items : s # db[t] /\ db' = [db EXCEPT ![t] = s]
    /\ UNCHANGED <<cluster, spec, authority, clock, holder, pc, job>>

AuthorityChanges ==
    /\ Disturb("authority")
    /\ authority' = ~authority
    /\ UNCHANGED <<cluster, spec, db, clock, holder, pc, job>>

\* Time matters while a plan's timestamps are within reach of a window.
Tick ==
    /\ \E p \in PlanIds :
         \/ plans[p].phase = "new" /\ clock <= plans[p].createdAt
         \/ plans[p].phase = "Applying" /\ plans[p].applyingSince # NoTime
               /\ clock - plans[p].applyingSince <= StuckAfter
         \/ plans[p].phase # "deleted" /\ plans[p].failedAt > 0
               /\ clock - plans[p].failedAt < FailedWindow
         \/ plans[p].phase # "deleted" /\ plans[p].appliedAt > 0
               /\ clock - plans[p].appliedAt < AppliedWindow
    /\ clock' = clock + 1
    /\ UNCHANGED <<cluster, spec, authority, db, budget, holder, pc, job>>

\* The clock is stepped back.
ClockBack ==
    /\ clock > 1
    /\ Disturb("clockBack")
    /\ clock' = clock - 1
    /\ UNCHANGED <<cluster, spec, authority, db, holder, pc, job>>

Environment ==
    \/ \E p \in PlanIds, d \in {"Approved", "Denied"} : Review(p, d)
    \/ EditPolicy \/ Drift \/ AuthorityChanges \/ Tick \/ ClockBack

Next ==
    \/ \E r \in Replicas : Step(r) \/ CallFails(r) \/ Crash(r) \/ LoseSession(r)
    \/ Environment

Spec == Init /\ [][Next]_vars

\* The controller requeues every policy and its calls return; time passes.
FairSpec == Spec /\ (\A r \in Replicas : WF_vars(Step(r))) /\ WF_vars(Tick)

----------------------------------------------------------------------------
(* Safety *)

\* Whenever SQL is about to run, the plan it runs for carries an approval and
\* describes exactly the changes that will run and the database they will run
\* on (the gate of decide_approved_plan and create_or_update_plan, upheld
\* across every call made between the decision and execute_plan).
ExecutesWhatWasApproved ==
    \A r \in Replicas :
        pc[r] = "sql" => LET plan == plans[job[r].cur] IN
            /\ plan.decision = "Approved"
            /\ plan.digest = Digest(r)

\* A plan is Approved, Applying or Applied only with an approval recorded on
\* it; in particular no denied plan ever gets that far (mark_plan_approved).
DecisionGatesPhase ==
    \A p \in PlanIds :
        plans[p].phase \in {"Approved", "Applying", "Applied"}
            => plans[p].decision = "Approved"

\* The phases a plan may move between in one step.
Lifecycle ==
    {<<"absent", "new">>, <<"new", "Pending">>, <<"new", "deleted">>,
     <<"Pending", "Approved">>, <<"Pending", "Rejected">>,
     <<"Pending", "Superseded">>, <<"Approved", "Applying">>,
     <<"Approved", "Failed">>, <<"Approved", "Superseded">>,
     <<"Applying", "Applied">>, <<"Applying", "Failed">>}
        \cup {<<phase, "deleted">> : phase \in TerminalPhases}

\* The reconcile that created plan p takes it back after its first status
\* write failed, or seemed to, and before the policy refers to it.
Withdraws(r, p) == pc[r] = "withdraw" /\ job[r].cur = p /\ planRef # p

\* A plan's phase only moves forward, whatever stale copies the reconciler
\* writes statuses from: it executes at most once; what was applied, failed,
\* rejected or superseded stays so; and a live plan is never deleted, by
\* retention or otherwise, but for a Pending one that its creator withdraws
\* (create_or_update_plan, cleanup_old_plans).
PhasesMoveForward ==
    [][\A p \in PlanIds : plans'[p].phase # plans[p].phase
          => \/ <<plans[p].phase, plans'[p].phase>> \in Lifecycle
             \/ /\ plans[p].phase = "Pending" /\ plans'[p].phase = "deleted"
                /\ \E r \in Replicas : Withdraws(r, p)]_vars

\* The changes about to run are the ones still needed: no other replica has
\* changed the database since this one inspected it (the two database locks,
\* for databases that nobody else writes to and sessions that stay up).
EffectsAreCurrent ==
    \A r \in Replicas :
        pc[r] = "sql" => LET s == job[r].spec IN
            job[r].changes = policy_changes(s.desired, db[s.target])

\* No reconcile retires the plan a reviewer is looking at before the plan it
\* settled on instead is actionable, unless it found nothing left to change
\* (supersede_stale_plans: "callers must never supersede ahead of creating").
ReplacedBeforeRetired ==
    [][\A p \in PlanIds :
          Actionable(plans[p]) /\ plans'[p].phase = "Superseded"
            => \E r \in Replicas :
                  \/ /\ pc[r] = "sweep" /\ job[r].cur # p
                     /\ Actionable(plans'[job[r].cur])
                     /\ plans'[job[r].cur].digest = Digest(r)
                  \/ pc[r] \in {"supersede", "retiring"} /\ ~HasChanges(r)]_vars

\* Plans of these effects that ended in phase within the last window ticks.
Recent(phase, at(_), window, digest) ==
    {p \in PlanIds : /\ plans[p].phase = phase
                     /\ plans[p].digest = digest
                     /\ at(plans[p]) <= clock /\ clock - at(plans[p]) < window}

FailedTime(plan)  == plan.failedAt
AppliedTime(plan) == plan.appliedAt

\* approval: auto never starts executing effects that failed, or that were
\* applied to no avail, within the back-off windows: a permanently failing or
\* silently ineffective change cannot make the controller spin on its own
\* plan writes.
AutoBacksOff ==
    [][\A r \in Replicas :
          pc[r] = "apply" /\ pc'[r] = "sql" /\ job[r].spec.mode = "auto"
            => /\ Recent("Failed", FailedTime, FailedWindow, Digest(r)) = {}
               /\ Recent("Applied", AppliedTime, AppliedWindow, Digest(r)) = {}]_vars

\* A converged reconcile never retires the plan that the policy refers to: the
\* reference is cleared first, and stays so.  Under approval: auto this is so
\* of a plan it found to be referenced and live; a reference written since the
\* policy was dispatched, or whose plan could not be read, is kept
\* (mark_reconciled_no_changes, referenced_actionable_plan).
RetiredIsNotReferenced ==
    [][\A r \in Replicas, p \in PlanIds :
          ( /\ pc[r] = "retiring"
            /\ Actionable(plans[p]) /\ plans'[p].phase = "Superseded"
            /\ job[r].spec.mode = "auto" => job[r].cur = p )
              => planRef' # p]_vars

----------------------------------------------------------------------------
(* Liveness, once the disturbances are over *)

InSync == db[spec.target] = spec.desired

CurrentDigest ==
    compute_change_digest(policy_changes(spec.desired, db[spec.target]), spec.target)

\* approval: auto brings the database to the desired state, whatever crashes,
\* failures, denials and left-over plans it went through.
AutoConverges == <>[](spec.mode = "auto" /\ authority => InSync)

\* Otherwise the policy either is in sync or refers to an actionable plan of
\* exactly the changes that are outstanding.
OutstandingIsPlanned ==
    <>[](spec.mode # "auto" /\ authority
            => InSync \/ /\ planRef # NoPlan
                         /\ Actionable(plans[planRef])
                         /\ plans[planRef].digest = CurrentDigest)

\* A policy in sync is left with no actionable plan (one would hold every
\* candidate of the policy at AwaitingDecision).
NoStrandedPlan ==
    <>[](InSync => actionable_policy_plans(plans) = {})

----------------------------------------------------------------------------
(* What the repository says of this code, and the code does not do *)

\* approval: manual is "a human gate on every change": SQL of a manual
\* reconcile runs only for a plan that a reviewer approved.  Refuted by a plan
\* that was auto-approved and not executed before the switch to manual.
HumanGate ==
    \A r \in Replicas :
        pc[r] = "sql" /\ job[r].spec.mode = "manual"
            => plans[job[r].cur].decider = "reviewer"

\* A converged reconcile clears the reference "in the same pass" in which it
\* retires the plan.  Refuted under approval: auto by a plan that could not
\* be read, or that another replica has made the reference since dispatch.
ClearedInTheSamePass ==
    [][\A r \in Replicas, p \in PlanIds :
          pc[r] = "retiring" /\ Actionable(plans[p]) /\ plans'[p].phase = "Superseded"
            => planRef' # p]_vars

\* A plan left in Applying by a crash is eventually recovered (marked
\* Failed).  Refuted: applyingSince is never stored, so RecoverStuck never
\* finds a plan to recover.
StuckApplyingRecovered ==
    \A p \in PlanIds : plans[p].phase = "Applying" ~> plans[p].phase # "Applying"

\* An approval that no longer describes the current effects is voided rather
\* than left looking actionable.  Refuted by an approval that lands between
\* the listing and the sweep: the write from the listed status is refused,
\* and later reconciles retain the replacement and never sweep again.
StaleApprovalVoided ==
    <>[](\A p \in PlanIds :
            Actionable(plans[p]) /\ plans[p].decision = "Approved"
                => plans[p].digest = CurrentDigest)

\* "A superseded plan is never selected for execution."  Refuted when the
\* policy moves to another database: the replica that plans for the new one
\* supersedes a plan that another replica, under the old database's lock, is
\* about to approve and execute.
SupersededNeverExecutes ==
    [][\A p \in PlanIds : plans[p].phase = "Superseded"
          => plans'[p].phase \notin {"Approved", "Applying"}]_vars

\* Planning is put off only because of a failure, or a fruitless apply,
\* within the last window.  Refuted by a failure recorded in the future,
\* after the clock was stepped back.
BacksOffForThePastOnly ==
    [][\A r \in Replicas :
          pc[r] = "list" /\ pc'[r] = "cleanup" /\ budget' = budget
            => \/ Recent("Failed", FailedTime, FailedWindow, Digest(r)) # {}
               \/ Recent("Applied", AppliedTime, AppliedWindow, Digest(r)) # {}]_vars
=============================================================================
