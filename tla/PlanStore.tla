----------------------------- MODULE PlanStore -----------------------------
(***************************************************************************)
(* PostgresPolicyPlan objects as the operator sees them through the        *)
(* Kubernetes API: the fields the plan lifecycle reads, the admission      *)
(* rules the API server holds every status write to, and the pure          *)
(* decisions of plan.rs on which the reconciler branches.                  *)
(*                                                                         *)
(* A plan is identified by its creation rank; its name, its rendered SQL   *)
(* and its messages are abstracted away.  The change digest is kept as     *)
(* what it digests: the typed changes and the database they are for.       *)
(***************************************************************************)
EXTENDS Integers, FiniteSets

CONSTANTS
    Items,           \* grants (and memberships, roles, ...) a policy manages
    Targets,         \* databases the policy's connection may resolve to
    MaxPlans,        \* bound: plan objects ever created for the policy
    FailedWindow,    \* FAILED_PLAN_DEDUP_WINDOW_SECS, in ticks
    AppliedWindow,   \* APPLIED_PLAN_NONCONVERGENT_WINDOW_SECS, in ticks
    StuckAfter,      \* age beyond which an Applying plan counts as stuck
    KeepDecided,     \* PlanRetention.decided
    KeepSuperseded   \* PlanRetention.superseded

ASSUME StoreAssumption ==
    /\ MaxPlans \in Nat
    /\ FailedWindow \in Nat
    /\ AppliedWindow \in Nat
    /\ StuckAfter \in Nat
    /\ KeepDecided \in Nat
    /\ KeepSuperseded \in Nat

PlanIds == 1..MaxPlans
NoPlan  == 0
NoTime  == 0        \* an absent timestamp; the clock starts at 1
Nowhere == "nowhere"

Decisions == {"none", "Approved", "Denied"}
Deciders  == {"none", "reviewer", "operator"}

\* PlanPhase, with what the API adds: "absent" (not created yet), "new"
\* (created, status not written yet) and "deleted".
Phases == {"absent", "new", "Pending", "Approved", "Applying", "Applied",
           "Failed", "Rejected", "Superseded", "deleted"}

Changes == [add : SUBSET Items, del : SUBSET Items]
Digests == [add : SUBSET Items, del : SUBSET Items, on : Targets \cup {Nowhere}]

NoChanges == [add |-> {}, del |-> {}]

\* Mutant: the digest does not bind the target.
DigestWithoutTarget(changes, target) == [add |-> changes.add, del |-> changes.del]

compute_change_digest(changes, target) ==
    [add |-> changes.add, del |-> changes.del, on |-> target]

Plans == [phase : Phases, digest : Digests, decision : Decisions,
          decider : Deciders, createdAt : Nat, failedAt : Nat,
          appliedAt : Nat, applyingSince : Nat]

AbsentPlan ==
    [phase |-> "absent", digest |-> compute_change_digest(NoChanges, Nowhere),
     decision |-> "none", decider |-> "none", createdAt |-> NoTime,
     failedAt |-> NoTime, appliedAt |-> NoTime, applyingSince |-> NoTime]

\* The object the create call persists: a spec and no status.
NewPlan(digest, now) ==
    [AbsentPlan EXCEPT !.phase = "new", !.digest = digest, !.createdAt = now]

Exists(plan)     == plan.phase \notin {"absent", "deleted"}
HasStatus(plan)  == Exists(plan) /\ plan.phase # "new"
Actionable(plan) == plan.phase \in {"Pending", "Approved"}
TerminalPhases   == {"Applied", "Failed", "Rejected", "Superseded"}

----------------------------------------------------------------------------
(* Status writes *)

is_denied(plan) == plan.decision = "Denied"

has_terminal_decision(plan) == plan.decision # "none"

\* The CEL rules of the plan's status: the set of true decisions is frozen
\* once it is not empty, decidedBy is write-once, and neither exists without
\* the other.  (The change digest is write-once too: no write below moves it.)
Admitted(old, new) ==
    /\ has_terminal_decision(old) => new.decision = old.decision
    /\ old.decider # "none" => new.decider = old.decider
    /\ has_terminal_decision(new) <=> new.decider # "none"

\* What the object holds after a whole-status merge patch.  An absent
\* decidedBy is not serialised, so the patch leaves the stored one.
Merged(old, status) ==
    [status EXCEPT !.decider = IF @ = "none" THEN old.decider ELSE @]

\* The patch of plan p by status is accepted by the API server.
Patchable(plans, p, status) ==
    /\ Exists(plans[p])
    /\ Admitted(plans[p], Merged(plans[p], status))

\* The plans after that patch, when it is accepted; unchanged otherwise.
Patched(plans, p, status) ==
    IF Patchable(plans, p, status)
    THEN [plans EXCEPT ![p] = Merged(plans[p], status)]
    ELSE plans

superseded_status(plan) == [plan EXCEPT !.phase = "Superseded"]

\* mark_plan_failed and the Failed branch of execute_plan.
FailedStatus(plan, now) ==
    [plan EXCEPT !.phase = "Failed", !.failedAt = now]

\* The Applied branch of execute_plan: it also sets Approved=True.
AppliedStatus(plan, now) ==
    [plan EXCEPT !.phase = "Applied", !.appliedAt = now,
                 !.decision = "Approved"]

\* Mutant: auto-approval moves the phase and records no decision.
ApprovedPhaseOnly(plan) == [plan EXCEPT !.phase = "Approved"]

\* mark_plan_approved: a recorded approval only advances the phase, an
\* undecided plan is approved by the operator in one whole-status write.
ApprovedStatus(plan) ==
    [plan EXCEPT !.phase = "Approved", !.decision = "Approved",
                 !.decider = "operator"]

\* update_plan_phase(Applying): the patch also carries applying_since, a key
\* the CRD schema (applyingSince) does not have, so the API server prunes it.
ApplyingStatus(plan, now) == [plan EXCEPT !.phase = "Applying"]

----------------------------------------------------------------------------
(* Decisions *)

check_plan_approval(plan) ==
    IF ~HasStatus(plan) \/ plan.decision = "none" THEN "Pending"
    ELSE IF is_denied(plan) THEN "Rejected" ELSE "Approved"

\* Mutant: effects are compared without the database they are for.
MatchesEffectsOnly(plan, digest) ==
    /\ HasStatus(plan)
    /\ plan.digest.add = digest.add
    /\ plan.digest.del = digest.del

plan_matches_digest(plan, digest) == HasStatus(plan) /\ plan.digest = digest

\* Mutant: a pending plan is never revalidated.
PendingIsFrozen(plan, fresh, hasChanges) == "Retain"

decide_pending_plan(plan, fresh, hasChanges) ==
    IF ~hasChanges THEN "Clear"
    ELSE IF plan_matches_digest(plan, fresh) THEN "Retain" ELSE "Replace"

\* Mutant: an approval is executed without comparing digests.
ApprovalIsEnough(plan, fresh, hasChanges) == "Execute"

decide_approved_plan(plan, fresh, hasChanges) ==
    IF plan_matches_digest(plan, fresh) THEN "Execute"
    ELSE IF hasChanges THEN "Replace" ELSE "Clear"

\* Newest first by creation timestamp; which of several plans of one
\* timestamp comes first depends on their names.
Newest(plans, S) ==
    {p \in S : \A q \in S : plans[q].createdAt <= plans[p].createdAt}

actionable_policy_plans(plans) == {p \in PlanIds : Actionable(plans[p])}

get_current_actionable_plan(plans) ==
    Newest(plans, actionable_policy_plans(plans))

get_plan_by_phase(plans, phase) ==
    Newest(plans, {p \in PlanIds : plans[p].phase = phase})

\* reuse is "AutoApproval" or "PendingOnly".
reusable_plan(plans, digest, reuse) ==
    LET reusable == {p \in PlanIds :
            /\ plans[p].phase \in
                   IF reuse = "AutoApproval" THEN {"Pending", "Approved"} ELSE {"Pending"}
            /\ ~is_denied(plans[p])
            /\ plans[p].digest = digest}
        approved == {p \in reusable : plans[p].phase = "Approved"}
    IN  Newest(plans, IF approved # {} THEN approved ELSE reusable)

supersedes_after_create(plan, digest) ==
    \/ plan.phase = "Pending"
    \/ plan.phase = "Approved" /\ plan.digest # digest

\* Mutant: the kept plan is not excluded from the sweep.
KeptIsSweptToo(plans, p, kept, digest, reuse) ==
    IF supersedes_after_create(plans[p], digest) THEN "Replaced" ELSE "none"

\* "none", "Duplicate" (a failed retirement is only logged) or "Replaced"
\* (a failed retirement fails the reconcile).
supersede_cause(plans, p, kept, digest, reuse) ==
    IF p = kept THEN "none"
    ELSE IF reuse = "AutoApproval" /\ Actionable(plans[p]) /\ plans[p].digest = digest
    THEN "Duplicate"
    ELSE IF supersedes_after_create(plans[p], digest) THEN "Replaced" ELSE "none"

\* Under auto-approval a denied Pending plan is marked Rejected by the sweep.
RejectedBySweep(plans, p, reuse) ==
    reuse = "AutoApproval" /\ plans[p].phase = "Pending" /\ is_denied(plans[p])

\* The listed plans that supersede_stale_plans writes to.
SweptPlans(plans, kept, digest, reuse) ==
    {p \in PlanIds : \/ RejectedBySweep(plans, p, reuse)
                     \/ supersede_cause(plans, p, kept, digest, reuse) # "none"}

----------------------------------------------------------------------------
(* Windows and retention *)

\* Mutant: a failure is held against its effects for ever.
FailedOnce(plans, digest, now) ==
    {p \in PlanIds : plans[p].phase = "Failed" /\ plans[p].digest = digest}

\* The recently-failed test of create_or_update_plan.
failed_recently(plans, digest, now) ==
    {p \in PlanIds : /\ plans[p].phase = "Failed"
                     /\ plans[p].digest = digest
                     /\ plans[p].failedAt > 0
                     /\ now - plans[p].failedAt < FailedWindow}

\* Mutant: an apply that did not converge is forgotten at once.
AppliedIsForgotten(plans, digest, now) == {}

applied_recently_without_converging(plans, digest, now) ==
    {p \in PlanIds : /\ plans[p].phase = "Applied"
                     /\ plans[p].digest = digest
                     /\ plans[p].appliedAt > 0
                     /\ plans[p].appliedAt <= now
                     /\ now - plans[p].appliedAt < AppliedWindow}

retry_deferred_until_window_expires(plan, now) ==
    /\ plan.failedAt > 0
    /\ plan.failedAt <= now
    /\ now - plan.failedAt < FailedWindow
    /\ plan.appliedAt <= plan.failedAt

\* All but the newest keep of S, taken in the order of creation.
oldest_beyond(S, keep) ==
    {p \in S : Cardinality({q \in S : q > p}) >= keep}

\* Applied plans stay: the age floor (30 days) and the ceiling (200) are out
\* of reach of the bounded time and the MaxPlans objects of this model.
plans_to_evict(plans) ==
    LET InPhase(P) == {p \in PlanIds : plans[p].phase \in P}
    IN  oldest_beyond(InPhase({"Failed", "Rejected"}), KeepDecided)
            \cup oldest_beyond(InPhase({"Superseded"}), KeepSuperseded)

is_stale_statusless_plan(plan, now) ==
    plan.phase = "new" /\ plan.createdAt < now

cleanup_old_plans(plans, now) ==
    [p \in PlanIds |->
        IF p \in plans_to_evict(plans) \/ is_stale_statusless_plan(plans[p], now)
        THEN [plans[p] EXCEPT !.phase = "deleted"]
        ELSE plans[p]]
=============================================================================
