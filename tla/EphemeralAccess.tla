-------------------------- MODULE EphemeralAccess --------------------------
(***************************************************************************)
(* Ephemeral access: EphemeralAccessRequest objects that grant the roles   *)
(* of an EphemeralAccessPolicy to a subject for a bounded time, and the    *)
(* PostgresPolicy (the target) whose reconciliation must leave those       *)
(* memberships alone while they last.                                      *)
(*                                                                         *)
(* There is one access policy, one target and one subject, so a membership *)
(* is identified with the role granted.  A request is dispatched from a    *)
(* replica's watch-fed index, every call it makes to the API server or to  *)
(* PostgreSQL is a step, and its status writes carry the resourceVersion   *)
(* it was dispatched with: they fail when the object has changed since.    *)
(***************************************************************************)
EXTENDS Integers, FiniteSets

CONSTANTS
    Replicas,        \* operator processes
    Requests,        \* requests that may be created
    Roles,           \* roles an access policy may grant
    AccessSpecs,     \* specs the access policy may be given
    TargetSpecs,     \* specs the target may be given
    Reconciliation,  \* "authoritative" or "additive", the target's mode
    Duration,        \* granted duration, in ticks
    PendingTTL,      \* pendingRequestTTL, in ticks
    MaxTime,         \* bound: the clock
    Kinds,           \* which events of the environment this instance has
    MaxEvents,       \* bound: such events in one behaviour
    NoOne            \* holder of the free database lock

AllAccessSpecs == [bundle : SUBSET Roles, mode : {"Automatic", "Required"}, suspend : BOOLEAN]
AllTargetSpecs == [durable : SUBSET Roles, roles : SUBSET Roles, suspend : BOOLEAN]

ASSUME EphemeralAssumption ==
    /\ AccessSpecs \subseteq AllAccessSpecs
    /\ TargetSpecs \subseteq AllTargetSpecs
    /\ Reconciliation \in {"authoritative", "additive"}
    /\ Duration \in Nat
    /\ PendingTTL \in Nat
    /\ MaxTime \in Nat
    /\ MaxEvents \in Nat
    /\ NoOne \notin (Replicas \X Requests) \cup Replicas

VARIABLES
    request,   \* [Requests -> RequestObjects], as the API server has them
    seen,      \* [Replicas -> [Requests -> RequestObjects]], the request index
    access,    \* the EphemeralAccessPolicy
    target,    \* the PostgresPolicy
    scoped,    \* [Requests -> [Operations -> ScopedPhases]], the scoped plans
    members,   \* memberships of the subject in PostgreSQL
    now,
    lock,      \* holder of the database locks
    pc,        \* [Replicas -> [Requests -> Steps]], the reconcile of a request
    job,       \* its locals
    sync,      \* [Replicas -> Syncs], the reconcile of the target
    events     \* events of the environment left

vars     == <<request, seen, access, target, scoped, members, now, lock, pc, job, sync, events>>
policies == <<access, target>>
world    == <<seen, access, target, now, sync, events>>

LivePhases     == {"Applying", "Active"}
TerminalPhases == {"Ended", "Revoked", "Cancelled", "Denied", "ApprovalExpired", "Failed"}
Phases         == {"Pending", "PendingApproval", "Revoking"} \cup LivePhases \cup TerminalPhases
Operations     == {"Activate", "Revoke"}
Modes          == {"Automatic", "Required"}

\* A stray approval is Approved=True that does not attest to the resolved
\* bundle and duration.
Decisions == {"none", "Approved", "Denied", "Stray"}

\* "none": no such plan; "new": created, its status not written yet.
ScopedPhases == {"none", "new", "Applying", "Applied", "Failed"}

\* resolved is the bundle of resolvedAccess, empty before resolution (an
\* access policy with an empty bundle is never accepted); underMode is the
\* approval mode it was resolved under, which the status does not record.
RequestObjects ==
    [there : BOOLEAN, finalizer : BOOLEAN, deleting : BOOLEAN, labelled : BOOLEAN,
     phase : Phases, resolved : SUBSET Roles, underMode : Modes \cup {"none"},
     decision : Decisions, approveBy : Nat, expires : Nat]

NoRequest ==
    [there |-> FALSE, finalizer |-> FALSE, deleting |-> FALSE, labelled |-> FALSE,
     phase |-> "Pending", resolved |-> {}, underMode |-> "none",
     decision |-> "none", approveBy |-> 0, expires |-> 0]

Steps == {"idle", "started", "label", "provenance", "scoped", "lock", "owned",
          "create", "start", "sql", "finish", "failed", "transition", "unfinalize"}

\* The request as dispatched and the object its status write would make of it;
\* the scoped operation, the spec of the target read before it, and its SQL.
NoJob == [snap |-> NoRequest, write |-> NoRequest, op |-> "Activate",
          durable |-> {}, roles |-> {}, changes |-> {}]

Jobs == [snap : RequestObjects, write : RequestObjects, op : Operations,
         durable : SUBSET Roles, roles : SUBSET Roles, changes : SUBSET Roles]

Syncs == [at : {"idle", "begun", "composed"}, durable : SUBSET Roles,
          roles : SUBSET Roles, overlay : SUBSET Roles]
NoSync == [at |-> "idle", durable |-> {}, roles |-> {}, overlay |-> {}]

TypeOK ==
    /\ request \in [Requests -> RequestObjects]
    /\ seen \in [Replicas -> [Requests -> RequestObjects]]
    /\ access \in [there : BOOLEAN, deleting : BOOLEAN, accepted : BOOLEAN,
                   spec : AllAccessSpecs]
    /\ target \in [there : BOOLEAN, deleting : BOOLEAN, spec : AllTargetSpecs]
    /\ scoped \in [Requests -> [Operations -> ScopedPhases]]
    /\ members \subseteq Roles
    /\ now \in Nat
    /\ lock \in (Replicas \X Requests) \cup Replicas \cup {NoOne}
    /\ pc \in [Replicas -> [Requests -> Steps]]
    /\ job \in [Replicas -> [Requests -> Jobs]]
    /\ sync \in [Replicas -> Syncs]
    /\ events \in 0..MaxEvents

Init ==
    /\ request = [q \in Requests |-> NoRequest]
    /\ seen = [w \in Replicas |-> request]
    /\ \E s \in AccessSpecs :
          access = [there |-> TRUE, deleting |-> FALSE, accepted |-> FALSE, spec |-> s]
    /\ \E s \in TargetSpecs : target = [there |-> TRUE, deleting |-> FALSE, spec |-> s]
    /\ scoped = [q \in Requests |-> [op \in Operations |-> "none"]]
    /\ members = target.spec.durable
    /\ now = 1
    /\ lock = NoOne
    /\ pc = [w \in Replicas |-> [q \in Requests |-> "idle"]]
    /\ job = [w \in Replicas |-> [q \in Requests |-> NoJob]]
    /\ sync = [w \in Replicas |-> NoSync]
    /\ events = MaxEvents

----------------------------------------------------------------------------
(* Control of the reconcile of a request *)

\* A reconcile returned, with a result or an error; its locks are dropped.
Leave(w, q) ==
    /\ pc' = [pc EXCEPT ![w][q] = "idle"]
    /\ job' = [job EXCEPT ![w][q] = NoJob]
    /\ lock' = IF lock = <<w, q>> THEN NoOne ELSE lock

Continue(w, q, step, locals) ==
    /\ pc' = [pc EXCEPT ![w][q] = step]
    /\ job' = [job EXCEPT ![w][q] = locals]
    /\ UNCHANGED lock

\* Go on to write the phase.
Enter(w, q, phase) ==
    Continue(w, q, "transition", [job[w][q] EXCEPT !.write = [job[w][q].snap EXCEPT !.phase = phase]])

\* Go on to revoke, then write the phase.
RevokeFirst(w, q, step, phase) ==
    Continue(w, q, step, [job[w][q] EXCEPT !.op = "Revoke",
                              !.write = [job[w][q].snap EXCEPT !.phase = phase]])

\* Mutant: only a finished activation counts.
OnlyAppliedAuthorizes(q) == scoped[q]["Activate"] = "Applied"

\* plan_authorizes_activation, for the activation plan of q.
plan_authorizes_activation(q) == scoped[q]["Activate"] \in {"new", "Applying", "Applied"}

suspended == access.spec.suspend \/ target.spec.suspend

\* resolve_request succeeds: both policies are there, the current generation
\* of the access policy is accepted, and the target has its roles.
Resolvable ==
    /\ access.there /\ access.accepted /\ target.there
    /\ access.spec.bundle \subseteq target.spec.roles

----------------------------------------------------------------------------
(* reconcile_access_request_apply *)

\* The controller dispatches a request as its replica has seen it.
Begin(w, q) ==
    /\ pc[w][q] = "idle"
    /\ seen[w][q].there
    /\ Continue(w, q, "started", [NoJob EXCEPT !.snap = seen[w][q], !.write = seen[w][q]])
    /\ UNCHANGED <<request, scoped, members, world>>

\* The finalizer is added before anything else.
AddFinalizer(w, q) ==
    /\ pc[w][q] = "started"
    /\ ~job[w][q].snap.finalizer /\ ~job[w][q].snap.deleting
    /\ request' = IF request[q].there /\ ~request[q].deleting
                  THEN [request EXCEPT ![q].finalizer = TRUE] ELSE request
    /\ Leave(w, q)
    /\ UNCHANGED <<scoped, members, world>>

\* Nothing to do for this phase, or nothing left to clean up.
Rest(w, q) ==
    /\ pc[w][q] = "started"
    /\ LET snap == job[w][q].snap
       IN  IF snap.deleting THEN ~snap.finalizer
           ELSE /\ snap.finalizer
                /\ \/ snap.phase \in TerminalPhases
                   \/ snap.phase = "Active" /\ snap.decision # "Denied" /\ now < snap.expires
    /\ Leave(w, q)
    /\ UNCHANGED <<request, scoped, members, world>>

Dispatched(w, q) ==
    /\ pc[w][q] = "started"
    /\ job[w][q].snap.finalizer /\ ~job[w][q].snap.deleting
    /\ job[w][q].snap.phase \notin TerminalPhases

\* Mutant: a resolved request is applied whatever the approval mode.
ResolveIntoApplying(w, q) ==
    /\ Dispatched(w, q)
    /\ job[w][q].snap.resolved = {}
    /\ IF Resolvable /\ ~suspended
       THEN Continue(w, q, "label", [job[w][q] EXCEPT !.write =
                [job[w][q].snap EXCEPT
                    !.resolved = access.spec.bundle, !.underMode = access.spec.mode,
                    !.phase = "Applying", !.expires = now + Duration]])
       ELSE Leave(w, q)
    /\ UNCHANGED <<request, scoped, members, world>>

\* The bundle is resolved against the policies as they are now.  A request
\* that does not resolve, or whose policies are suspended, is tried again.
Resolve(w, q) ==
    /\ Dispatched(w, q)
    /\ job[w][q].snap.resolved = {}
    /\ IF Resolvable /\ ~suspended
       THEN Continue(w, q, "label", [job[w][q] EXCEPT !.write =
                [job[w][q].snap EXCEPT
                    !.resolved = access.spec.bundle,
                    !.underMode = access.spec.mode,
                    !.phase = IF access.spec.mode = "Automatic" THEN "Applying" ELSE "PendingApproval",
                    !.approveBy = now + PendingTTL,
                    !.expires = IF access.spec.mode = "Automatic" THEN now + Duration ELSE 0]])
       ELSE Leave(w, q)
    /\ UNCHANGED <<request, scoped, members, world>>

\* patch_request_index_labels: it does not carry the resourceVersion, and it
\* moves it, so the status write that follows fails and is made by a retry.
Label(w, q) ==
    /\ pc[w][q] = "label"
    /\ request' = IF request[q].there THEN [request EXCEPT ![q].labelled = TRUE] ELSE request
    /\ Continue(w, q, "transition", job[w][q])
    /\ UNCHANGED <<scoped, members, world>>

\* Mutant: the status write does not carry the resourceVersion.
UnconditionalTransition(w, q) ==
    /\ pc[w][q] = "transition"
    /\ request' = [request EXCEPT ![q] = job[w][q].write]
    /\ Leave(w, q)
    /\ UNCHANGED <<scoped, members, world>>

\* Mutant: the status write is held to the deadline it was made for only.
TransitionForDeadline(w, q) ==
    /\ pc[w][q] = "transition"
    /\ request' = IF request[q].there /\ request[q].expires = job[w][q].snap.expires
                  THEN [request EXCEPT ![q] = job[w][q].write] ELSE request
    /\ Leave(w, q)
    /\ UNCHANGED <<scoped, members, world>>

\* transition_request, or the status write that records the resolution: the
\* object must still be the one that was dispatched.
Transition(w, q) ==
    /\ pc[w][q] = "transition"
    /\ request' = IF request[q] = job[w][q].snap
                  THEN [request EXCEPT ![q] = job[w][q].write] ELSE request
    /\ Leave(w, q)
    /\ UNCHANGED <<scoped, members, world>>

\* A denied request revokes what it may have granted and ends.
Deny(w, q) ==
    /\ Dispatched(w, q)
    /\ LET snap == job[w][q].snap
       IN  /\ snap.resolved # {} /\ snap.decision = "Denied"
           /\ \/ snap.phase = "Active" /\ RevokeFirst(w, q, "scoped", "Denied")
              \/ snap.phase = "Applying" /\ RevokeFirst(w, q, "provenance", "Denied")
              \/ snap.phase \notin LivePhases /\ Enter(w, q, "Denied")
    /\ UNCHANGED <<request, scoped, members, world>>

\* The policies no longer say what was resolved.  The mode it was resolved
\* under is inferred: a decision, or waiting for one, means Required.
Changed(snap) ==
    \/ access.spec.bundle # snap.resolved
    \/ access.spec.mode # IF snap.phase = "PendingApproval" \/ snap.decision # "none"
                          THEN "Required" ELSE "Automatic"

\* What is checked before a request waits for approval or is applied.
Reassessed(w, q) ==
    /\ Dispatched(w, q)
    /\ job[w][q].snap.resolved # {}
    /\ job[w][q].snap.decision # "Denied"
    /\ job[w][q].snap.phase \in {"PendingApproval", "Applying"}

\* A resolution error ends the reconcile before any deadline is looked at.
Unresolvable(w, q) ==
    /\ Reassessed(w, q)
    /\ ~Resolvable
    /\ Leave(w, q)
    /\ UNCHANGED <<request, scoped, members, world>>

Cancel(w, q) ==
    /\ Reassessed(w, q)
    /\ Resolvable
    /\ LET snap == job[w][q].snap
       IN  /\ Changed(snap) \/ (suspended /\ snap.phase = "Applying")
           /\ IF snap.phase = "Applying" THEN RevokeFirst(w, q, "provenance", "Cancelled")
              ELSE Enter(w, q, "Cancelled")
    /\ UNCHANGED <<request, scoped, members, world>>

\* A request that waits for a decision: its time is up, it is approved, or
\* it waits on.
Await(w, q) ==
    /\ Reassessed(w, q)
    /\ Resolvable
    /\ LET snap == job[w][q].snap
       IN  /\ snap.phase = "PendingApproval" /\ ~Changed(snap)
           /\ IF now >= snap.approveBy THEN Enter(w, q, "ApprovalExpired")
              ELSE IF suspended \/ snap.decision # "Approved" THEN Leave(w, q)
              ELSE Continue(w, q, "transition", [job[w][q] EXCEPT !.write =
                       [snap EXCEPT !.phase = "Applying", !.expires = now + Duration]])
    /\ UNCHANGED <<request, scoped, members, world>>

\* A request to be applied: its time is up, or its memberships are granted.
Apply(w, q) ==
    /\ Reassessed(w, q)
    /\ Resolvable
    /\ LET snap == job[w][q].snap
       IN  /\ snap.phase = "Applying" /\ ~Changed(snap) /\ ~suspended
           /\ IF access.spec.mode = "Required" /\ snap.decision # "Approved" THEN Leave(w, q)
              ELSE IF snap.expires <= now THEN RevokeFirst(w, q, "provenance", "Ended")
              ELSE Continue(w, q, "scoped", [job[w][q] EXCEPT !.op = "Activate",
                       !.write = [snap EXCEPT !.phase = "Active"]])
    /\ UNCHANGED <<request, scoped, members, world>>

\* Mutant: access ends after its deadline only.
ExpireLate(w, q) ==
    /\ Dispatched(w, q)
    /\ job[w][q].snap.phase = "Active" /\ job[w][q].snap.decision # "Denied"
    /\ now > job[w][q].snap.expires
    /\ Enter(w, q, "Revoking")
    /\ UNCHANGED <<request, scoped, members, world>>

\* Mutant: the phase written is none of the CRD's.
ExpireUnknown(w, q) ==
    /\ Dispatched(w, q)
    /\ job[w][q].snap.phase = "Active" /\ job[w][q].snap.decision # "Denied"
    /\ now >= job[w][q].snap.expires
    /\ Enter(w, q, "Expired")
    /\ UNCHANGED <<request, scoped, members, world>>

\* The deadline of an Active request has come.
Expire(w, q) ==
    /\ Dispatched(w, q)
    /\ job[w][q].snap.phase = "Active" /\ job[w][q].snap.decision # "Denied"
    /\ now >= job[w][q].snap.expires
    /\ Enter(w, q, "Revoking")
    /\ UNCHANGED <<request, scoped, members, world>>

StartRevoking(w, q) ==
    /\ Dispatched(w, q)
    /\ job[w][q].snap.phase = "Revoking" /\ job[w][q].snap.decision # "Denied"
    /\ RevokeFirst(w, q, "scoped", "Ended")
    /\ UNCHANGED <<request, scoped, members, world>>

\* reconcile_access_request_cleanup.
Cleanup(w, q) ==
    /\ pc[w][q] = "started"
    /\ LET snap == job[w][q].snap
       IN  /\ snap.deleting /\ snap.finalizer
           /\ IF snap.resolved # {} /\ snap.phase \in {"Applying", "Active", "Revoking"}
              THEN RevokeFirst(w, q, "provenance", "Revoked")
              ELSE Continue(w, q, "unfinalize", job[w][q])
    /\ UNCHANGED <<request, scoped, members, world>>

\* Mutant: nothing to revoke is an error.
ProvenanceIsRequired(w, q) ==
    /\ pc[w][q] = "provenance"
    /\ IF plan_authorizes_activation(q) THEN Continue(w, q, "scoped", job[w][q]) ELSE Leave(w, q)
    /\ UNCHANGED <<request, scoped, members, world>>

\* Without a plan that shows activation may have begun there is nothing to
\* revoke; a request whose time was up is then cancelled instead of ended.
CheckProvenance(w, q) ==
    /\ pc[w][q] = "provenance"
    /\ IF plan_authorizes_activation(q) THEN Continue(w, q, "scoped", job[w][q])
       ELSE IF job[w][q].snap.deleting THEN Continue(w, q, "unfinalize", job[w][q])
       ELSE Enter(w, q, IF job[w][q].write.phase = "Ended" THEN "Cancelled" ELSE job[w][q].write.phase)
    /\ UNCHANGED <<request, scoped, members, world>>

\* The finalizer is removed and the object goes; what it said is kept here.
RemoveFinalizer(w, q) ==
    /\ pc[w][q] = "unfinalize"
    /\ request' = [request EXCEPT ![q].there = FALSE]
    /\ Leave(w, q)
    /\ UNCHANGED <<scoped, members, world>>

----------------------------------------------------------------------------
(* apply_scoped_memberships *)

\* The policies are read before the database locks are asked for.
EnterScoped(w, q) ==
    /\ pc[w][q] = "scoped"
    /\ IF /\ job[w][q].op = "Revoke" => plan_authorizes_activation(q)
          /\ access.there /\ target.there
       THEN Continue(w, q, "lock", [job[w][q] EXCEPT !.durable = target.spec.durable,
                                                     !.roles = target.spec.roles])
       ELSE Leave(w, q)
    /\ UNCHANGED <<request, scoped, members, world>>

\* Lock contention ends the reconcile.
TakeLock(w, q) ==
    /\ pc[w][q] = "lock"
    /\ IF lock = NoOne
       THEN /\ pc' = [pc EXCEPT ![w][q] = "owned"]
            /\ lock' = <<w, q>>
            /\ UNCHANGED job
       ELSE Leave(w, q)
    /\ UNCHANGED <<request, scoped, members, world>>

\* Mutant: every request with an activation plan owns its memberships.
EveryActivationOwns(w) ==
    {r \in Requests : seen[w][r].resolved # {} /\ plan_authorizes_activation(r)}

\* Mutant: a request that is still being applied owns nothing.
OnlyActiveOwns(w) ==
    {r \in Requests : /\ seen[w][r].there
                      /\ seen[w][r].phase = "Active"
                      /\ plan_authorizes_activation(r)}

\* The requests that own memberships, as replica w sees them.
active_owners(w) ==
    {r \in Requests : /\ seen[w][r].there
                      /\ seen[w][r].phase \in LivePhases
                      /\ plan_authorizes_activation(r)}

OwnedBy(w, owners) == UNION {seen[w][r].resolved : r \in owners}

\* Activation refuses a membership that is durable, or that is there already
\* and that no request owns.  Revocation leaves durable memberships and those
\* of other owners.  A role that an owner uses and the target does not have
\* any more blocks both.
PlanScoped(w, q) ==
    /\ pc[w][q] = "owned"
    /\ LET this    == job[w][q]
           bundle  == this.snap.resolved
           others  == OwnedBy(w, active_owners(w) \ {q})
           unowned == IF plan_authorizes_activation(q) THEN {} ELSE (bundle \cap members) \ others
           Create(changes) == Continue(w, q, "create", [this EXCEPT !.changes = changes])
       IN  IF ~(OwnedBy(w, active_owners(w)) \subseteq this.roles) THEN Leave(w, q)
           ELSE IF this.op = "Revoke" THEN Create((bundle \ (this.durable \cup others)) \cap members)
           ELSE IF bundle \cap this.durable # {} \/ unowned # {} THEN Leave(w, q)
           ELSE Create(bundle \ members)
    /\ UNCHANGED <<request, scoped, members, world>>

\* The locks are dropped and the caller goes on.
Scoped(w, q) ==
    /\ pc' = [pc EXCEPT ![w][q] = IF job[w][q].snap.deleting THEN "unfinalize" ELSE "transition"]
    /\ lock' = NoOne
    /\ UNCHANGED job

\* A plan of that name which is already Applied stands for the SQL; one that
\* is not is executed again as it stands.
CreateScopedPlan(w, q) ==
    /\ pc[w][q] = "create"
    /\ LET phase == scoped[q][job[w][q].op]
       IN  /\ \/ phase = "none" /\ Continue(w, q, "start", job[w][q])
              \/ phase = "Applied" /\ Scoped(w, q)
              \/ phase \notin {"none", "Applied"} /\ Continue(w, q, "sql", job[w][q])
           /\ scoped' = [scoped EXCEPT ![q][job[w][q].op] = IF phase = "none" THEN "new" ELSE @]
    /\ UNCHANGED <<request, members, world>>

\* A status write of the scoped plan, if the plan is still there.
StartScopedPlan(w, q) ==
    /\ pc[w][q] = "start"
    /\ IF scoped[q][job[w][q].op] = "none"
       THEN Leave(w, q) /\ UNCHANGED scoped
       ELSE /\ scoped' = [scoped EXCEPT ![q][job[w][q].op] = "Applying"]
            /\ Continue(w, q, "sql", job[w][q])
    /\ UNCHANGED <<request, members, world>>

Executed(w, q) ==
    IF job[w][q].op = "Activate" THEN members \cup job[w][q].changes
                                 ELSE members \ job[w][q].changes

\* execute_changes_in_transaction.
RunSql(w, q) ==
    /\ pc[w][q] = "sql"
    /\ members' = Executed(w, q)
    /\ Continue(w, q, "finish", job[w][q])
    /\ UNCHANGED <<request, scoped, world>>

\* finish_scoped_plan(Applied).
FinishApplied(w, q) ==
    /\ pc[w][q] = "finish"
    /\ IF scoped[q][job[w][q].op] = "none"
       THEN Leave(w, q) /\ UNCHANGED scoped
       ELSE /\ scoped' = [scoped EXCEPT ![q][job[w][q].op] = "Applied"]
            /\ Scoped(w, q)
    /\ UNCHANGED <<request, members, world>>

\* finish_scoped_plan(Failed), and the error is returned.
FinishFailed(w, q) ==
    /\ pc[w][q] = "failed"
    /\ scoped' = IF scoped[q][job[w][q].op] = "none" THEN scoped
                 ELSE [scoped EXCEPT ![q][job[w][q].op] = "Failed"]
    /\ Leave(w, q)
    /\ UNCHANGED <<request, members, world>>

----------------------------------------------------------------------------
(* The other controllers *)

\* The watch delivers the request to replica w: the index follows it.
observe(w, q) ==
    /\ seen[w][q] # request[q]
    /\ seen' = [seen EXCEPT ![w][q] = request[q]]
    /\ UNCHANGED <<request, policies, scoped, members, now, lock, pc, job, sync, events>>

\* Kubernetes collects the plans of a request that is gone.
CollectPlans(q) ==
    /\ ~request[q].there
    /\ scoped[q] # [op \in Operations |-> "none"]
    /\ scoped' = [scoped EXCEPT ![q] = [op \in Operations |-> "none"]]
    /\ UNCHANGED <<request, members, lock, pc, job, world>>

\* reconcile_access_policy_apply.
AcceptAccess ==
    /\ access.there /\ ~access.deleting
    /\ access' = [access EXCEPT !.accepted =
           /\ access.spec.bundle # {}
           /\ target.there
           /\ access.spec.bundle \subseteq target.spec.roles]
    /\ access' # access
    /\ UNCHANGED <<request, seen, target, scoped, members, now, lock, pc, job, sync, events>>

\* The API server's answer to a delete call.
Deleted(object) ==
    IF object.finalizer THEN [object EXCEPT !.deleting = TRUE] ELSE [object EXCEPT !.there = FALSE]

\* reconcile_access_policy_cleanup, one delete call at a time: the policy
\* goes when the index of the replica has no request of it left.
AccessCleanup(w) ==
    /\ access.there /\ access.deleting
    /\ \/ \E q \in Requests :
             /\ seen[w][q].there /\ ~seen[w][q].deleting
             /\ request[q].there /\ ~request[q].deleting
             /\ request' = [request EXCEPT ![q] = Deleted(@)]
             /\ UNCHANGED access
       \/ /\ \A q \in Requests : ~seen[w][q].there
          /\ access' = [access EXCEPT !.there = FALSE]
          /\ UNCHANGED request
    /\ UNCHANGED <<seen, target, scoped, members, now, lock, pc, job, sync, events>>

\* reconcile_cleanup of the target: its access policies go first.
TargetCleanup ==
    /\ target.there /\ target.deleting
    /\ IF access.there
       THEN ~access.deleting /\ access' = [access EXCEPT !.deleting = TRUE] /\ UNCHANGED target
       ELSE target' = [target EXCEPT !.there = FALSE] /\ UNCHANGED access
    /\ UNCHANGED <<request, seen, scoped, members, now, lock, pc, job, sync, events>>

\* The target's reconcile: its spec, read before the locks are taken.
PolicyBegin(w) ==
    /\ "sync" \in Kinds
    /\ sync[w].at = "idle"
    /\ target.there /\ ~target.deleting /\ ~target.spec.suspend
    /\ sync' = [sync EXCEPT ![w] = [NoSync EXCEPT !.at = "begun", !.durable = target.spec.durable,
                                                  !.roles = target.spec.roles]]
    /\ UNCHANGED <<request, seen, policies, scoped, members, now, lock, pc, job, events>>

\* Mutant: the overlay is left out.
ComposeDurableOnly(w) ==
    /\ sync[w].at = "begun"
    /\ IF lock = NoOne
       THEN lock' = w /\ sync' = [sync EXCEPT ![w].at = "composed"]
       ELSE sync' = [sync EXCEPT ![w] = NoSync] /\ UNCHANGED lock
    /\ UNCHANGED <<request, seen, policies, scoped, members, now, pc, job, events>>

\* compose_effective_graph, under the locks: the memberships of active
\* requests join the desired ones.  Contention, and a role that an active
\* request uses and the target does not have, end the reconcile.
PolicyCompose(w) ==
    /\ sync[w].at = "begun"
    /\ LET overlay == OwnedBy(w, active_owners(w))
       IN  IF lock = NoOne /\ overlay \subseteq sync[w].roles
           THEN /\ lock' = w
                /\ sync' = [sync EXCEPT ![w].at = "composed", ![w].overlay = overlay]
           ELSE sync' = [sync EXCEPT ![w] = NoSync] /\ UNCHANGED lock
    /\ UNCHANGED <<request, seen, policies, scoped, members, now, pc, job, events>>

\* Its SQL.  Additive reconciliation drops what would take away.
PolicyApply(w) ==
    /\ sync[w].at = "composed"
    /\ members' = (IF Reconciliation = "authoritative" THEN members \ sync[w].roles ELSE members)
                       \cup sync[w].durable \cup sync[w].overlay
    /\ sync' = [sync EXCEPT ![w] = NoSync]
    /\ lock' = NoOne
    /\ UNCHANGED <<request, seen, policies, scoped, now, pc, job, events>>

----------------------------------------------------------------------------
(* Failures *)

Happens(kind) == kind \in Kinds /\ events > 0 /\ events' = events - 1

\* A call other than the SQL and the labelling fails, and with it the reconcile.
CallFails(w, q) ==
    /\ Happens("call")
    /\ pc[w][q] \notin {"idle", "label", "sql"}
    /\ Leave(w, q)
    /\ UNCHANGED <<request, seen, policies, scoped, members, now, sync>>

\* The labelling is best-effort: its failure is logged and the reconcile goes on.
LabelFails(w, q) ==
    /\ Happens("label")
    /\ pc[w][q] = "label"
    /\ Continue(w, q, "transition", job[w][q])
    /\ UNCHANGED <<request, seen, policies, scoped, members, now, sync>>

\* The transaction fails, or its commit succeeds and the answer is lost.
SqlFails(w, q) ==
    /\ Happens("sql")
    /\ pc[w][q] = "sql"
    /\ members' \in {members} \cup (IF "lost" \in Kinds THEN {Executed(w, q)} ELSE {})
    /\ Continue(w, q, "failed", job[w][q])
    /\ UNCHANGED <<request, seen, policies, scoped, now, sync>>

PolicyFails(w) ==
    /\ Happens("call")
    /\ sync[w].at # "idle"
    /\ sync' = [sync EXCEPT ![w] = NoSync]
    /\ lock' = IF lock = w THEN NoOne ELSE lock
    /\ UNCHANGED <<request, seen, policies, scoped, members, now, pc, job>>

\* A replica restarts: its reconciles are gone, PostgreSQL drops the locks of
\* its session, and it lists the requests anew.
Crash(w) ==
    /\ Happens("crash")
    /\ pc' = [pc EXCEPT ![w] = [q \in Requests |-> "idle"]]
    /\ job' = [job EXCEPT ![w] = [q \in Requests |-> NoJob]]
    /\ sync' = [sync EXCEPT ![w] = NoSync]
    /\ seen' = [seen EXCEPT ![w] = request]
    /\ lock' = IF lock \in {w} \cup ({w} \X Requests) THEN NoOne ELSE lock
    /\ UNCHANGED <<request, policies, scoped, members, now>>

----------------------------------------------------------------------------
(* The environment *)

Elsewhere == <<seen, scoped, members, lock, pc, job, sync>>

\* A request is created once: Requests are UIDs.
CreateRequest(q) ==
    /\ request[q] = NoRequest
    /\ request' = [request EXCEPT ![q].there = TRUE]
    /\ UNCHANGED <<policies, now, events, Elsewhere>>

DeleteRequest(q) ==
    /\ Happens("delete")
    /\ request[q].there /\ ~request[q].deleting
    /\ request' = [request EXCEPT ![q] = Deleted(@)]
    /\ UNCHANGED <<policies, now, Elsewhere>>

\* A decision is final: the CRD admits no second one.
Decide(q, decision) ==
    /\ Happens("decide")
    /\ request[q].there /\ request[q].resolved # {}
    /\ request[q].phase \notin TerminalPhases
    /\ request[q].decision = "none"
    /\ request' = [request EXCEPT ![q].decision = decision]
    /\ UNCHANGED <<policies, now, Elsewhere>>

\* A new generation is not accepted until it has been reconciled.
EditAccess(spec) ==
    /\ Happens("edit")
    /\ access.there /\ access.spec # spec
    /\ access' = [access EXCEPT !.spec = spec, !.accepted = FALSE]
    /\ UNCHANGED <<request, target, now, Elsewhere>>

EditTarget(spec) ==
    /\ Happens("edit")
    /\ target.there /\ target.spec # spec
    /\ target' = [target EXCEPT !.spec = spec]
    /\ UNCHANGED <<request, access, now, Elsewhere>>

DeleteAccess ==
    /\ Happens("drop")
    /\ access.there /\ ~access.deleting
    /\ access' = [access EXCEPT !.deleting = TRUE]
    /\ UNCHANGED <<request, target, now, Elsewhere>>

DeleteTarget ==
    /\ Happens("drop")
    /\ target.there /\ ~target.deleting
    /\ target' = [target EXCEPT !.deleting = TRUE]
    /\ UNCHANGED <<request, access, now, Elsewhere>>

Tick ==
    /\ now < MaxTime
    /\ now' = now + 1
    /\ UNCHANGED <<request, policies, events, Elsewhere>>

----------------------------------------------------------------------------

Step(w, q) ==
    \/ AddFinalizer(w, q) \/ Rest(w, q)
    \/ Resolve(w, q) \/ Label(w, q) \/ Transition(w, q)
    \/ Deny(w, q) \/ Unresolvable(w, q) \/ Cancel(w, q)
    \/ Await(w, q) \/ Apply(w, q) \/ Expire(w, q) \/ StartRevoking(w, q)
    \/ Cleanup(w, q) \/ CheckProvenance(w, q) \/ RemoveFinalizer(w, q)
    \/ EnterScoped(w, q) \/ TakeLock(w, q) \/ PlanScoped(w, q)
    \/ CreateScopedPlan(w, q) \/ StartScopedPlan(w, q) \/ RunSql(w, q)
    \/ FinishApplied(w, q) \/ FinishFailed(w, q)

Policy(w) == PolicyBegin(w) \/ PolicyCompose(w) \/ PolicyApply(w)

Next ==
    \/ \E w \in Replicas, q \in Requests :
          \/ Begin(w, q) \/ Step(w, q) \/ observe(w, q)
          \/ CallFails(w, q) \/ LabelFails(w, q) \/ SqlFails(w, q)
    \/ \E w \in Replicas : Policy(w) \/ PolicyFails(w) \/ AccessCleanup(w) \/ Crash(w)
    \/ \E q \in Requests : CollectPlans(q) \/ CreateRequest(q) \/ DeleteRequest(q)
    \/ \E q \in Requests, d \in Decisions \ {"none"} : Decide(q, d)
    \/ \E spec \in AccessSpecs : EditAccess(spec)
    \/ \E spec \in TargetSpecs : EditTarget(spec)
    \/ AcceptAccess \/ TargetCleanup \/ DeleteAccess \/ DeleteTarget \/ Tick

Spec == Init /\ [][Next]_vars

\* Watches deliver, reconciles are dispatched and run on, the clock moves, and
\* the target is reconciled at its interval.  Contention for the locks is
\* retried with jitter: who keeps asking does not always ask at a bad time.
Fairness ==
    /\ \A w \in Replicas, q \in Requests :
          /\ WF_vars(Begin(w, q)) /\ WF_vars(Step(w, q)) /\ WF_vars(observe(w, q))
          /\ []<>(pc[w][q] = "lock") => []<>(pc[w][q] = "owned")
    /\ \A w \in Replicas :
          /\ WF_vars(Policy(w)) /\ WF_vars(AccessCleanup(w))
          /\ []<>(sync[w].at = "begun") => []<>(sync[w].at = "composed")
    /\ WF_vars(AcceptAccess) /\ WF_vars(TargetCleanup) /\ WF_vars(Tick)

FairSpec == Spec /\ Fairness

----------------------------------------------------------------------------
(* Properties *)

\* Memberships are granted under the automatic mode or on an approval that
\* attests to them: no activation plan exists for a request that was resolved
\* under Required and is not approved, whatever the policy says by now
\* (reconcile_access_request_apply infers the mode of the snapshot).
ApprovalGatesAccess ==
    \A q \in Requests :
        scoped[q]["Activate"] # "none" =>
            request[q].underMode = "Automatic" \/ request[q].decision = "Approved"

\* Once recorded, the deadline of a request is never moved, by a retry, a
\* restart or another replica (persist_activation_deadline).
DeadlineIsKept ==
    [][\A q \in Requests : request[q].expires # 0 => request'[q].expires = request[q].expires]_vars

\* A terminal phase is final, whoever still works on an older copy: every
\* status write of transition_request carries the resourceVersion.
TerminalIsFinal ==
    [][\A q \in Requests :
          request[q].phase \in TerminalPhases => request'[q].phase = request[q].phase]_vars

Responsible(q) == request[q].there /\ request[q].phase \in {"Applying", "Active", "Revoking"}

\* A membership is durable, or there is a request left to take it back: as
\* the documentation has it, only the forced removal of a finalizer strands a
\* membership (the revocation paths of reconcile_access_request_apply and of
\* reconcile_access_request_cleanup).
Accounted ==
    members \subseteq target.spec.durable
        \cup UNION {request[q].resolved : q \in {r \in Requests : Responsible(r)}}

\* An Active request has its memberships until its time is up, or until it
\* is deleted or denied (apply_scoped_memberships precedes the transition, and
\* compose_effective_graph keeps the target's reconcile from taking them away).
ActiveIsGranted ==
    \A q \in Requests :
        /\ request[q].there /\ ~request[q].deleting
        /\ request[q].phase = "Active" /\ request[q].decision # "Denied"
        /\ now < request[q].expires
        => request[q].resolved \subseteq members

\* Access that has begun to be applied is given up after its deadline: the
\* request is revoked, ended or cancelled (the Applying, Active and Revoking
\* arms of reconcile_access_request_apply).
ExpiryEnds ==
    \A q \in Requests :
        (Responsible(q) /\ request[q].expires # 0 /\ now >= request[q].expires) ~> ~Responsible(q)

\* A deleted request goes: reconcile_access_request_cleanup completes and
\* its finalizer is removed.
DeletionEnds == \A q \in Requests : request[q].deleting ~> ~request[q].there

\* Under authoritative reconciliation PostgreSQL ends up with the durable
\* memberships and those of Active requests, and no others, whatever the
\* scoped plans did (compose_effective_graph and the target's apply).
Converges ==
    <>[](members = target.spec.durable
             \cup UNION {request[q].resolved : q \in {r \in Requests :
                              request[r].there /\ request[r].phase = "Active"}})
=============================================================================
