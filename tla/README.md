# A TLA+ model of pgroles

pgroles manages PostgreSQL roles, memberships and grants declaratively.  A
command line tool and a Kubernetes operator share the same core (manifest, role
graph, diff, SQL) and the same inspection of a live database.  What is hard to
get right is in the operator: several replicas, reviewers, editors and other
database users act on the same objects while a reconcile is half-way through a
dozen API and database calls.  That is what this directory models first.

The modules are translated from the Rust source, file by file; definitions keep
the names of the functions they stand for (`decide_approved_plan`,
`supersede_stale_plans`, ...).  `PROJECT.json` maps every definition to the lines
it models.

## The system and its parts

| Part | State | Operations | Interacts with |
|---|---|---|---|
| Plan lifecycle (`plan.rs`, `crd.rs`) | plan objects: phase, change digest, decision, decider, timestamps | create, publish, approve, reject, supersede, execute, fail, evict | reviewers, the policy reconciler, candidates |
| Policy reconciler (`reconciler.rs`) | policy status (plan reference, conditions, counters), locals of a reconcile | reconcile in `observe`, `approval: auto`, `approval: manual`; clean up; error back-off | plans, locks, database, ephemeral overlays, candidates, Secrets |
| Database locks (`advisory.rs`, `context.rs`) | in-process set of locked databases, a PostgreSQL session lock | try once, release, drop | every writer of the database |
| Ephemeral access (`ephemeral.rs`, `request_index.rs`, `request_deadline.rs`) | access policies, requests, scoped plans, deadlines | resolve, decide, activate, expire, revoke, compose into a policy's desired graph | policy reconciler, locks |
| Candidates (`candidate.rs`) | candidate status, candidate-owned plans | classify, plan, invalidate, supersede, prune | parent policy, its locks and plans |
| Promotion (`promotion.rs`) | candidate phase, content digest | recognise, adopt a plan, record, strand the others | policy reconciler, candidates |
| Password Secrets (`password.rs`, `reconciler.rs`) | Secrets, source versions in the policy status | resolve, generate, materialise before SQL | plan execution |
| Controllers (`main.rs`, `concurrency.rs`, `controller_health.rs`) | streams, in-flight reconciles, health | dispatch, wake on owned objects, probe | all of the above |
| Diff (`diff.rs`, `membership_options.rs`) | none | compute and order changes, filter by mode | inspection, SQL |
| Role graph, manifest, composition (`model.rs`, `manifest.rs`, `composition.rs`, `overlap.rs`, `ownership.rs`) | none | expand, merge, check overlap | diff |
| Approval digest (`approval.rs`) | none | bind effects and target, judge a target identity | plans |
| Inspection and guards (`pgroles-inspect`) | none (reads PostgreSQL) | snapshot, preflight, drop safety, authority | reconciler, CLI |
| Command line, review, suggestion, explorer, WASM | none shared | report and render | core |

What makes it hard:

* every Kubernetes status write is a JSON merge patch of a status read earlier,
  admitted or refused by CEL rules (decisions are terminal, the decider is
  recorded with the decision and only once);
* a reviewer's decision may land between any two calls of a reconcile;
* the process may die between any two calls, the SQL transaction may commit
  although its acknowledgement is lost, and it may succeed without any effect;
* the operator's own plan writes wake it up again, so a failing change spins
  unless it is held back, and holding back must never become giving up;
* replicas exclude each other per *database*, while plans belong to a *policy*;
* policies are edited, switched between modes and pointed at another database
  while plans of the old kind are still around;
* ephemeral access works from a watch-fed copy of every request: SQL runs on the
  strength of a version that may be outdated, and who owns a membership is
  decided from an index that lags.

The `hazards` list of `PROJECT.json` has each of these at the line where it
bites, with the properties that would catch it going wrong.

## Modules

* `PlanStore` - no variables.  Plan objects as records of the fields the
  lifecycle reads, the API server's admission rules and merge semantics
  (`Admitted`, `Merged`, `Patched`), the status bodies each writer sends, and the
  pure decisions of `plan.rs`.
* `PolicyReconcile` - the state machine.  One policy, its plans, the databases it
  may point to and any number of replicas.  Every call of a reconcile that
  reads or changes shared state is an action; `pc[r]` is the call a replica is
  about to make and `job[r]` its locals, in particular the copies it read
  earlier and will write from.
* `MCPolicyReconcile` - the symmetry used by the runs with two replicas.
* `PolicyReconcileInvariant`, `PolicyReconcilePlanning`, `PolicyReconcileProofs` - the
  TLAPS proofs: the inductive invariant and its lemmas, the steps that find and
  create plans, and the remaining steps with the theorems.
* `EphemeralAccess` - the state machine of ephemeral access: requests, their
  scoped plans, the access policy, the target policy and any number of replicas,
  composed with the target's own reconcile as far as memberships go.
* `MCEphemeralAccess` - the policy specs and the symmetry its runs use.
* `EphemeralAccessInvariant`, `EphemeralAccessSteps`, `EphemeralAccessProofs` - its
  TLAPS proofs: the inductive invariant and the handlers, the steps that write,
  grant and revoke, and the environment with the theorems.

### State and actions of PolicyReconcile

`plans`, `next` and `planRef` are the cluster's objects; `spec` is the policy
(effective mode, desired state, target); `db` is what each database holds;
`authority` is whether the executor may execute the changes; `holder` is the lock
of each database, the in-process and the advisory lock folded into one (both are
tried once, and a reconcile that gets one and not the other returns);
`clock` is wall-clock time in ticks; `budget` bounds the disturbances.

A reconcile goes

    Begin -> TakeLock -> RecoverStuck -> Inspect -> by mode
      observe, auto with changes, manual without a plan:
        ListPlans -> CreatePlan | ResumeCreation | NameCollides
                  -> PublishStatus -> SweepPlan* -> SweepDone
                   | PublishFails [-> WithdrawPlan]
      manual with a plan: LookupApproved | LookupRejected | LookupPending
      execution: FetchPlan -> ApprovePlan -> RefetchPlan -> StartApply
                 -> RunSql | SqlHasNoEffect | SqlFails -> RecordApplied | RecordFailed
      report: PointToPlan, ReportPlanned | ReportApplied | ReportRejected
      nothing to change: [SupersedePlan ->] ReportClear,
                 under auto FindReferenced | FindFails -> ReportConverged,
                 -> RetireList -> RetirePlan* -> RetireDone
    -> Cleanup

and any of them may end early: a refused status write, a plan that is gone, a
back-off, an API error (`CallFails`), a crash (`Crash`).  Errors that the code only
logs do not end the reconcile: `FindFails` (the referenced plan could not be read),
`SweepSkips` (a duplicate or a denied plan is not swept), `RetireSkips`.  A status
write that publishes a plan may fail, or be made and only its answer be lost; the
plan is deleted again in both cases (`PublishFails`, `WithdrawPlan`).  The environment
reviews plans, edits the policy, drifts the database, takes the authority away and gives
it back, moves the clock and drops lock sessions.

Abstractions:

* The desired state and the database are sets of items; a change set is the
  pair of set differences, and executing it makes them so.  The diff's own
  correctness is a separate question (see the plan).
* The change digest is what it digests: changes and target.  SHA-256 and the
  canonical encoding are taken to be injective.
* A plan is known by its creation rank.  `createdAt` is kept because the code
  sorts by it; plans of one tick may come in either order where the code only
  looks at timestamps.  A plan's name is made of the second and of its SQL; a tick
  is longer, so that plans of one tick and the same changes may or may not collide
  (`NameCollides` is a disturbance).
* `applying_since` is written under a key that the CRD schema does not have and
  the API server prunes it: `ApplyingStatus` leaves the field alone.
* The dispatched copy of the policy is current when it is dispatched; it goes
  stale afterwards, while the reconcile runs.
* `update_status` (read, edit, patch) is one step, and only its effect on the plan
  reference is kept.  Its lost updates are listed as a hazard.
* A retention pass is one step, as its deletions are best effort.

### State and actions of EphemeralAccess

`request` is what the API server holds, `seen[w]` the request index of replica
`w`, `access` and `target` the two policies, `scoped[q]` the activation and the
revocation plan of a request, `members` the memberships in PostgreSQL, `lock` the
database locks (as above, folded into one).  `pc[w][q]` and `job[w][q]` are the
reconcile of request `q` at replica `w`: the version it was dispatched with
(`snap`), the version its status write would make of it (`write`) and the scope of
its SQL.  `sync[w]` is the target's reconcile.

    Begin -> AddFinalizer | Rest
      not resolved:    Resolve -> Label -> Transition
      denied:          Deny
      waiting, applying: Unresolvable | Cancel | Await | Apply
      active, revoking:  Expire | StartRevoking
      deleted:         Cleanup
    [-> CheckProvenance] [-> EnterScoped -> TakeLock -> PlanScoped -> CreateScopedPlan
        -> StartScopedPlan -> RunSql | SqlFails -> FinishApplied | FinishFailed]
    -> Transition | RemoveFinalizer

    PolicyBegin -> PolicyCompose -> PolicyApply

`CallFails` ends a reconcile at any call but the labelling, which is best effort
(`LabelFails`: the reconcile goes on), `Crash` ends all those of a replica.  The
environment creates, decides and deletes requests, edits and deletes both
policies, and moves the clock; Kubernetes delivers watch events (`observe`) and
collects the plans of requests that are gone (`CollectPlans`).

Abstractions:

* There is one access policy, one target and one subject, so a membership is
  its role.  `underMode` records the approval mode a request was resolved under;
  the status does not have it, and no action reads it.
* A status write fails exactly when the object differs from the dispatched one,
  which is what its `resourceVersion` tests.  Labelling moves the version, so the
  first attempt to record a resolution conflicts and a retry makes it.
* Request UIDs are not used twice.  The reads of `resolve_request` are one step.
* The target applies automatically; its plans are `PolicyReconcile`'s subject.
* The target stays on one database, durations and specs are valid, the roles
  exist in PostgreSQL.  Writes that only carry an error or a condition
  (`lastError`, role retirement) are left out; they can only cause one more
  conflict, which `CallFails` has.

## What is checked

### Policy plans

One item, at most 4 plan objects (2 where two replicas meet), windows of one tick,
two decided (`two_replicas`: one) and one superseded plan kept.  One item gives the three states that matter to a digest (nothing, add,
remove); four plans are a plan, its replacement, that one's replacement and a
left-over, and retention with these limits evicts within a behaviour.  Two plans are
enough for two replicas to disagree on which one is live, replaced or referenced.
`MaxDisturbances` bounds edits, drift, errors and crashes together; approvals and
the passage of time are not bounded by it.

| Run | Instance | Properties |
|---|---|---|
| `single_replica` | one replica, fair, every disturbance but lock loss and target moves, two per behaviour | `TypeOK`, `ExecutesWhatWasApproved`, `DecisionGatesPhase`, `PhasesMoveForward`, `ReplacedBeforeRetired`, `RetiredIsNotReferenced`, `AutoConverges`, `OutstandingIsPlanned`, `NoStrandedPlan` |
| `auto_backoff` | one replica, three failures, ineffective applies, crashes or edits | `AutoBacksOff` |
| `two_replicas` | two replicas, one database, two of: crash, edit, denial, change of mode or authority, failing SQL, failing publication, name collision, unreadable reference | `EffectsAreCurrent`, `PhasesMoveForward`, `RetiredIsNotReferenced` |
| `lock_loss` | two replicas, two databases, a lost session, a moved target or a denial | `ExecutesWhatWasApproved`, `DecisionGatesPhase` |

* `ExecutesWhatWasApproved`: when SQL is about to run, the plan it runs for carries
  an approval and describes exactly these changes on this database.
* `DecisionGatesPhase`: no plan is Approved, Applying or Applied without a
  recorded approval, whatever stale copies are written back.
* `PhasesMoveForward`: a plan executes at most once, terminal phases are final and
  live plans are never deleted, but for a Pending one that the reconcile that created
  it withdraws because its publication failed or seemed to, before the policy refers
  to it.
* `ReplacedBeforeRetired`: the plan a reviewer looks at is retired only by a reconcile
  whose own plan, of the changes it found, is actionable, or that found nothing left
  to change.
* `RetiredIsNotReferenced`: retiring left-over plans does not leave the policy pointing
  at one.  Under `approval: auto` this is so of a plan that the reconcile found
  referenced and live; what else it may retire is below (`ClearedInTheSamePass`).
  `single_replica` has it with crashes and failing calls, `two_replicas` with another
  replica that moves the reference after the dispatch.
* `AutoBacksOff`: auto-approval never executes effects that failed, or were applied
  to no avail, inside their window.  It is checked of a policy that keeps its mode and
  a clock that does not step back: an actionable plan left from `approval: manual` is
  reused before the windows are consulted, and a window is measured by the clock.
* `EffectsAreCurrent`: with the lock, what is executed is still the difference
  between the desired state and the database.
* `AutoConverges`, `OutstandingIsPlanned`, `NoStrandedPlan`: once disturbances are
  over an auto policy converges, any other is in sync or refers to an actionable
  plan of the outstanding changes, and a policy in sync keeps no live plan.

Fairness (`FairSpec`) is weak fairness of a replica's steps and of the clock: the
controller requeues every policy after its interval whatever the outcome, and
every call returns or fails.  Nothing is assumed of reviewers.  `Tick` is enabled
only while some timestamp is within reach of a window, which keeps the state
space finite and stops time only where no guard can tell.

### Ephemeral access

One or two requests, one or two replicas, one role and two to four ticks (one
where only deletion matters); access lasts one tick, so activation, expiry and revocation all happen within a
behaviour and can overtake each other.  `Kinds` says which disturbances an
instance has and `MaxEvents` (at most three) how many per behaviour; creation, the
clock, watches and reconciles are not bounded by it.  One role is enough
for properties about one membership; the theorems have any number.  The runs say `CHECK_DEADLOCK FALSE`, because a system whose requests have
ended and whose clock has reached its bound has nothing left to do.

| Run | Instance | Properties |
|---|---|---|
| `access_replicas` | two replicas, one request; decisions, edits of the mode, failing calls and labelling | `TypeOK`, `ApprovalGatesAccess`, `DeadlineIsKept`, `TerminalIsFinal` |
| `access_single` | one replica, one request, additive; deletion of request, access policy and target, failing calls, crashes | `Accounted` |
| `access_liveness` | one replica, one request, authoritative, with the target's reconcile; denial, deletion, failing calls and SQL, lost commits, crashes, a membership that becomes durable or stops being so | `ActiveIsGranted`, `ExpiryEnds`, `DeletionEnds`, `Converges` |
| `access_overlap` | two requests for one membership and the target's reconcile, contending for the locks | `ActiveIsGranted`, `ExpiryEnds`, `Converges` |

* `ApprovalGatesAccess`: no activation plan exists for a request resolved under
  `Required` that is not approved, whatever the policy says by now.
* `DeadlineIsKept`, `TerminalIsFinal`: no retry, restart or other replica moves a
  recorded deadline or leaves a terminal phase.
* `Accounted`: every membership is durable or has a request left to take it back.
* `ActiveIsGranted`: an Active request has its memberships until its time is up
  (or it is deleted or denied), although the target's authoritative reconcile composes
  from a lagging index and another request for the same membership expires.
* `ExpiryEnds`, `DeletionEnds`: access past its deadline is given up, a deleted
  request goes.
* `Converges`: authoritative reconciliation ends with exactly the durable and the
  active memberships.

`Accounted` holds of one request under additive reconciliation, with no target
reconcile, no denial and no failing SQL beside it; below is what each of these
breaks.  `ActiveIsGranted` holds of one replica and of policies that are not
suspended.  Both limits are the code's.

Fairness: watches deliver, reconciles are dispatched and each of their calls
returns or fails, the clock moves, the controllers of both policies come back at
their interval.  A lock is tried once and contention retried after a jittered
delay (`ephemeral_lock_retry_delay`), so that whoever asks again and again does not
always ask while another holds it: `[]<>(pc = "lock") => []<>(pc = "owned")`, and the
like for the target's reconcile.

### Where the code and what it says of itself differ

Four runs expect a violation; the quotes are in `findings`.

* `stuck_applying` - plans left in Applying by a crash are never recovered,
  because the timestamp recovery looks for is pruned from every write.
* `overlapping_deletion` - two requests for one membership are deleted, and each
  revocation leaves it to the other.
* `late_denial` - a denial recorded on a Revoking request ends it unrevoked.
* `stuck_expiry` - an Applying request that no longer resolves never expires.

Further differences, which the same modules show on other instances.  For each the
property that TLC finds violated, and what to change in the configuration named.

| Property | Instance | What happens |
|---|---|---|
| `HumanGate` | `single_replica`, `Kinds` crash, mode | a plan auto-approved before a switch to `approval: manual` is executed by the manual reconcile |
| `StaleApprovalVoided` | `single_replica`, two items, `Kinds` edit, one disturbance | an approval that lands between the listing and the sweep makes the sweep's write fail, and no later reconcile sweeps again |
| `ClearedInTheSamePass` | `single_replica`, `Kinds` authority, findFails, drift, three disturbances | a converged reconcile under `approval: auto` that fails to read the referenced plan keeps the reference and retires that very plan |
| `ClearedInTheSamePass` | `two_replicas`, `Kinds` authority, drift, edit, three disturbances | a reference that another replica wrote after this one was dispatched is kept while its plan is retired |
| `BacksOffForThePastOnly` | `single_replica`, `Kinds` sqlFails, clockBack, drift, edit, four disturbances | the planning back-off accepts failures dated in the future; its two siblings do not |
| `SupersededNeverExecutes` | `lock_loss`, `Kinds` target | after a move to another database, a plan that one replica superseded is approved and executed by another under the old lock |
| `Accounted` | `access_single`, `Kinds` delete and sync | the target's additive reconcile grants again what a deletion has just revoked, from an index that still shows the request |
| `Accounted` | `access_single`, `Kinds` sql and crash | activation committed, crash, failing retry: the plan is Failed, and expiry finds nothing to revoke |
| `ActiveIsGranted` | `access_single`, `Suspending`, `Kinds` edit | a stale dispatch revokes, for a suspension, the memberships of a request that has become Active, and then fails to say so |
| `ActiveIsGranted` | `access_single`, two replicas, authoritative, `Kinds` sync | another replica's reconcile takes away the membership of a request its index does not have yet |
| `DeletionEnds` | `stuck_expiry`, `Kinds` edit and delete | deleting a request is blocked by its own use of a retired role |

`PhasesMoveForward` is therefore checked where the policy has one target.

A plan whose publication arrived although its answer was lost is Pending until it is
withdrawn.  A reviewer may decide it in between, and the decision goes with the plan;
the next reconcile publishes a new one, which has to be decided again.

## What is proved

`PolicyReconcileProofs` proves, for every set of items, targets and replicas and
every value of the bounds and windows, with every disturbance, lock loss and
target moves included:

* `TypeCorrectness`: `Spec => []TypeOK`;
* `ExecutionIsApproved`: `Spec => []ExecutesWhatWasApproved`;
* `PhaseIsGated`: `Spec => []DecisionGatesPhase`.

They follow from `Invariance`, the inductive invariant `IInv`: the types, `StoreOK`
and, for each replica, `JobOK`.

* `StoreOK(ps, nx)`: ranks from `nx` on are unused; a phase that needs an approval
  has one.
* `JobOK(ps, nx, step, j)`: what a replica knows at each step - the plan it acts on
  exists or existed, the copy it holds agrees with the object on what can no
  longer change (its digest, and its decision once made), between the decision to
  execute and the end of execution the digest is that of its own changes, and
  from the approval on the object is approved.

`ExecutesWhatWasApproved` is not inductive by itself: it speaks of one step, and
what makes it true there was established up to eight calls earlier and has to
survive everything others do since.  The argument is that of monotonicity:
`Evolved(ps, nx, ps2, nx2)` says that a plan's digest never changes and a decision,
once made, stays.  Every write to the store evolves it (`PatchedEvolves`,
`PhaseEvolves`, `CleanupEvolves`, `CreateEvolves`, `ReviewEvolves`), every `JobOK`
survives evolution (`JobStable`), so each action only has to be shown to evolve
the store and to leave its own replica in a good state (one lemma `...Moves` per
action); the others need no argument.  No lemma presumes who holds a lock:
the approval gate does not rest on the locks.

The assumptions are `StoreAssumption` and `ReconcileAssumption`: the bounds are
natural numbers and the free-lock marker is not a replica.

`EphemeralAccessProofs` proves, for every set of replicas, requests and roles, every
set of specs and every bound, under every disturbance:

* `AccessTypes`: `Spec => []TypeOK`;
* `ApprovalGate`: `Spec => []ApprovalGatesAccess`;
* `DeadlineKept`: `Spec => DeadlineIsKept`;
* `TerminalFinal`: `Spec => TerminalIsFinal`.

They follow from `AccessInvariance`.  `Past(old, new)` says that what is settled in one
version of a request (the mode it was resolved under, a decision, the deadline) is
settled in another; `IInv` says that every copy, in an index or in a running
reconcile, is past in this sense, that the version a reconcile is about to write
follows from the one it was dispatched with, that it was dispatched in a phase
that is not terminal, and that the copy of an activation under way is sanctioned
(`Sanctioned`: automatic, or approved).  The gate needs all of this because the
activation plan is created many calls after the copy was taken: what the copy
was sanctioned by is settled, so it still sanctions the request as it is now
(`SanctionStays`).  `Preserved` reduces a step to its own writes, and each action
has its `...Moves` lemma.  The two action properties rest on the one write that
changes a phase or a deadline (`TransitionKeeps`): it is made of the version it was
prepared from, and that version was not terminal.  No lemma uses the locks.  The
assumption is `EphemeralAssumption`: specs are specs, bounds are natural numbers
and the free-lock marker is not a holder.  `IInv` itself was model-checked on the
instance of `access_replicas` before it was proved.

Only model-checked: the liveness properties (fairness is out of the prover's
reach), `PhasesMoveForward`, `EffectsAreCurrent`, `ReplacedBeforeRetired`,
`RetiredIsNotReferenced`, `AutoBacksOff`, `Accounted` and `ActiveIsGranted`.

## Plan

In order:

1. `Candidate` and `Promotion`: the parent gate, compare-and-set status writes,
   open-candidate budget, pruning, recognition and adoption of a plan; an abstract
   specification of promotion (one candidate, one transition, once) that the
   detailed one implements.
2. `Locks`: in-process set, connection pool and advisory session, with the failed
   unlock; shown to implement the single lock of `PolicyReconcile`.
3. `Retention` (Applied floor and ceiling, SQL ConfigMaps) and `PolicyStatus`
   (conditions, counters, lost updates).
4. `PasswordMaterialization`, `Backoff` and controller health.
5. Pure operators: diff convergence and ordering, profile expansion, composition,
   overlap and target identity, against reference definitions on small graphs.
6. Proofs: `PhasesMoveForward` for one target, `EffectsAreCurrent` from mutual
   exclusion, `ActiveIsGranted` for one request,
   the refinements of 1 and 2.

Not going to be modelled: SQL text, catalog queries, cloud authentication,
telemetry, rendering and the generators; they compute or move data and keep no
state that the rest depends on.
