----------------------- MODULE EphemeralAccessSteps ------------------------
(***************************************************************************)
(* The steps that write a request, apply_scoped_memberships and the        *)
(* target's reconcile preserve the invariant of ephemeral access.          *)
(***************************************************************************)
EXTENDS EphemeralAccessInvariant

----------------------------------------------------------------------------
(* Steps that write the request *)

\* A step of a reconcile that writes its request and returns.
LEMMA WriteMoves ==
    ASSUME IInv, NEW w \in Replicas, NEW q \in Requests, NEW s \in Steps, NEW j \in Jobs,
           NEW r \in RequestObjects, ObjectOK(r), Past(request[q], r),
           request' = [request EXCEPT ![q] = r],
           pc' = [pc EXCEPT ![w][q] = s], job' = [job EXCEPT ![w][q] = j],
           lock' \in (Replicas \X Requests) \cup Replicas \cup {NoOne},
           UNCHANGED <<scoped, members, world>>,
           JobOK(s, j, request[q])
    PROVE  IInv'
<1>1. \A p \in Requests : ObjectOK(request'[p]) /\ Past(request[p], request'[p])
  BY PastSelf DEF IInv, TypeOK, StoreOK
<1>2. /\ request' \in [Requests -> RequestObjects] /\ members' \subseteq Roles
      /\ scoped' \in [Requests -> [Operations -> ScopedPhases]]
  BY DEF IInv, TypeOK
<1>3. \A p \in Requests : scoped'[p]["Activate"] # "none" => scoped[p]["Activate"] # "none"
  OBVIOUS
<1>4. UNCHANGED world
  OBVIOUS
<1> QED BY <1>1, <1>2, <1>3, <1>4, HandlerMoves

\* The same, when the reconcile is over.
LEMMA LastWriteMoves ==
    ASSUME IInv, NEW w \in Replicas, NEW q \in Requests,
           NEW r \in RequestObjects, ObjectOK(r), Past(request[q], r),
           request' = [request EXCEPT ![q] = r],
           Leave(w, q), UNCHANGED <<scoped, members, world>>
    PROVE  IInv'
<1>1. NoJob \in Jobs
  BY DEF NoJob, Jobs, NoRequest, RequestObjects, Phases, Modes, Decisions, Operations
<1>2. "idle" \in Steps /\ JobOK("idle", NoJob, request[q])
  BY DEF Steps, JobOK
<1>3. lock' \in (Replicas \X Requests) \cup Replicas \cup {NoOne}
  BY DEF Leave, IInv, TypeOK
<1> QED BY <1>1, <1>2, <1>3, WriteMoves DEF Leave

\* The finalizer and the labels settle nothing.
LEMMA MetadataWrite ==
    ASSUME NEW r \in RequestObjects, ObjectOK(r)
    PROVE  \A s \in {r, [r EXCEPT !.finalizer = TRUE], [r EXCEPT !.labelled = TRUE],
                      [r EXCEPT !.there = TRUE], [r EXCEPT !.there = FALSE],
                      [r EXCEPT !.deleting = TRUE]} :
               s \in RequestObjects /\ ObjectOK(s) /\ Past(r, s)
BY DEF RequestObjects, ObjectOK, Sanctioned, Past

\* Adding the finalizer.
LEMMA AddFinalizerMoves ==
    ASSUME IInv, NEW w \in Replicas, NEW q \in Requests, AddFinalizer(w, q)
    PROVE  IInv'
<1>1. PICK r \in {request[q], [request[q] EXCEPT !.finalizer = TRUE]} :
          request' = [request EXCEPT ![q] = r]
  BY DEF AddFinalizer, IInv, TypeOK
<1>2. r \in RequestObjects /\ ObjectOK(r) /\ Past(request[q], r)
  BY <1>1, Running, MetadataWrite
<1>3. Leave(w, q) /\ UNCHANGED <<scoped, members, world>>
  BY DEF AddFinalizer
<1> QED BY <1>1, <1>2, <1>3, LastWriteMoves

\* Labelling, after which the status write is still to come.
LEMMA LabelMoves ==
    ASSUME IInv, NEW w \in Replicas, NEW q \in Requests, Label(w, q)
    PROVE  IInv'
<1>1. PICK r \in {request[q], [request[q] EXCEPT !.labelled = TRUE]} :
          request' = [request EXCEPT ![q] = r]
  BY DEF Label, IInv, TypeOK
<1>2. r \in RequestObjects /\ ObjectOK(r) /\ Past(request[q], r)
  BY <1>1, Running, MetadataWrite
<1>3. "transition" \in Steps /\ JobOK("transition", job[w][q], request[q])
  BY Running DEF Label, JobOK, Steps, ScopedSteps
<1>4. /\ pc' = [pc EXCEPT ![w][q] = "transition"] /\ job' = [job EXCEPT ![w][q] = job[w][q]]
      /\ lock' \in (Replicas \X Requests) \cup Replicas \cup {NoOne}
      /\ UNCHANGED <<scoped, members, world>>
  BY DEF Label, Continue, IInv, TypeOK
<1> QED BY <1>1, <1>2, <1>3, <1>4, Running, WriteMoves

\* The status write, which is made of the version it was prepared from.
LEMMA TransitionMoves ==
    ASSUME IInv, NEW w \in Replicas, NEW q \in Requests, Transition(w, q)
    PROVE  IInv'
<1>1. PICK r : /\ r = IF request[q] = job[w][q].snap THEN job[w][q].write ELSE request[q]
               /\ request' = [request EXCEPT ![q] = r]
  BY DEF Transition, IInv, TypeOK
<1>2. ObjectOK(job[w][q].write) /\ Past(job[w][q].snap, job[w][q].write)
  BY Running DEF Transition, JobOK
<1>3. r \in RequestObjects /\ ObjectOK(r) /\ Past(request[q], r)
  BY <1>1, <1>2, Running, PastSelf
<1>4. Leave(w, q) /\ UNCHANGED <<scoped, members, world>>
  BY DEF Transition
<1> QED BY <1>1, <1>3, <1>4, LastWriteMoves

\* Removing the finalizer.
LEMMA RemoveFinalizerMoves ==
    ASSUME IInv, NEW w \in Replicas, NEW q \in Requests, RemoveFinalizer(w, q)
    PROVE  IInv'
<1>1. request' = [request EXCEPT ![q] = [request[q] EXCEPT !.there = FALSE]]
  BY DEF RemoveFinalizer, IInv, TypeOK
<1>2. /\ [request[q] EXCEPT !.there = FALSE] \in RequestObjects
      /\ ObjectOK([request[q] EXCEPT !.there = FALSE])
      /\ Past(request[q], [request[q] EXCEPT !.there = FALSE])
  BY Running, MetadataWrite
<1>3. Leave(w, q) /\ UNCHANGED <<scoped, members, world>>
  BY DEF RemoveFinalizer
<1> QED BY <1>1, <1>2, <1>3, LastWriteMoves

----------------------------------------------------------------------------
(* apply_scoped_memberships *)

\* A reconcile goes from one step of a scoped operation to another, or on to
\* the status write or the finalizer, with locals that differ in the scope only.
LEMMA ScopedJob ==
    ASSUME IInv, NEW w \in Replicas, NEW q \in Requests, pc[w][q] \in ScopedSteps,
           NEW s \in ScopedSteps \cup {"transition", "unfinalize"}, NEW j,
           j.snap = job[w][q].snap, j.write = job[w][q].write, j.op = job[w][q].op
    PROVE  s \in Steps /\ JobOK(s, j, request[q])
BY Running DEF JobOK, ScopedSteps, Steps

\* A step of a scoped operation that writes its plan or runs its SQL: what an
\* activation writes is sanctioned by the copy it was dispatched with, and so
\* by the request as it is now.
LEMMA ScopedMoves ==
    ASSUME IInv, NEW w \in Replicas, NEW q \in Requests, pc[w][q] \in ScopedSteps,
           NEW s \in ScopedSteps \cup {"transition", "unfinalize"},
           pc' = [pc EXCEPT ![w][q] = s], job' = [job EXCEPT ![w][q] = job[w][q]],
           lock' \in (Replicas \X Requests) \cup Replicas \cup {NoOne},
           members' \subseteq Roles,
           NEW phase \in ScopedPhases,
           scoped' = [scoped EXCEPT ![q][job[w][q].op] = phase],
           UNCHANGED <<request, world>>
    PROVE  IInv'
<1>1. s \in Steps /\ JobOK(s, job[w][q], request[q])
  BY ScopedJob
<1>2. request' = request /\ UNCHANGED world
  OBVIOUS
<1>3. \A r \in Requests : ObjectOK(request'[r]) /\ Past(request[r], request'[r])
  BY <1>2, PastSelf DEF IInv, StoreOK
<1>4. request' \in [Requests -> RequestObjects]
  BY <1>2 DEF IInv, TypeOK
<1>5. scoped' \in [Requests -> [Operations -> ScopedPhases]]
  BY Running DEF IInv, TypeOK
<1>6. job[w][q].op = "Activate" => Sanctioned(request[q])
  BY Running, SanctionStays DEF JobOK, ScopedSteps
<1>7. \A r \in Requests : scoped'[r]["Activate"] # "none" =>
         scoped[r]["Activate"] # "none" \/ Sanctioned(request[r])
  BY <1>6, Running DEF IInv, TypeOK, Operations
<1> QED BY <1>1, <1>2, <1>3, <1>4, <1>5, <1>7, Running, HandlerMoves

\* The same when the plan is not written.
LEMMA ScopedContinues ==
    ASSUME IInv, NEW w \in Replicas, NEW q \in Requests, pc[w][q] \in ScopedSteps,
           NEW s \in ScopedSteps \cup {"transition", "unfinalize"},
           pc' = [pc EXCEPT ![w][q] = s], job' = [job EXCEPT ![w][q] = job[w][q]],
           lock' \in (Replicas \X Requests) \cup Replicas \cup {NoOne},
           members' \subseteq Roles,
           UNCHANGED <<scoped, request, world>>
    PROVE  IInv'
<1>1. PICK phase \in ScopedPhases : phase = scoped[q][job[w][q].op]
  BY Running DEF IInv, TypeOK
<1>2. scoped' = [scoped EXCEPT ![q][job[w][q].op] = phase]
  BY <1>1, Running DEF IInv, TypeOK
<1>3. UNCHANGED <<request, world>>
  OBVIOUS
<1> QED BY <1>2, <1>3, ScopedMoves

\* The spec of the target is read before the locks are asked for.
LEMMA EnterScopedMoves ==
    ASSUME IInv, NEW w \in Replicas, NEW q \in Requests, EnterScoped(w, q)
    PROVE  IInv'
<1> DEFINE j == [job[w][q] EXCEPT !.durable = target.spec.durable, !.roles = target.spec.roles]
<1>1. pc[w][q] \in ScopedSteps /\ "lock" \in ScopedSteps /\ UNCHANGED <<request, scoped, members, world>>
  BY DEF EnterScoped, ScopedSteps
<1>2. /\ j \in Jobs /\ j.snap = job[w][q].snap /\ j.write = job[w][q].write
      /\ j.op = job[w][q].op
  <2>1. target.spec.durable \in SUBSET Roles /\ target.spec.roles \in SUBSET Roles
    BY DEF IInv, TypeOK, AllTargetSpecs
  <2> QED BY <2>1, Running DEF Jobs
<1>3. Leave(w, q) \/ Continue(w, q, "lock", j)
  BY DEF EnterScoped
<1> HIDE DEF j
<1>4. "lock" \in Steps /\ JobOK("lock", j, request[q])
  BY <1>1, <1>2, ScopedJob
<1> QED BY <1>1, <1>2, <1>3, <1>4, LeaveMoves, ContinueMoves

\* The locks.
LEMMA TakeLockMoves ==
    ASSUME IInv, NEW w \in Replicas, NEW q \in Requests, TakeLock(w, q)
    PROVE  IInv'
<1>1. pc[w][q] \in ScopedSteps /\ "owned" \in ScopedSteps /\ UNCHANGED <<request, scoped, members, world>>
  BY DEF TakeLock, ScopedSteps
<1>2. CASE Leave(w, q)
  BY <1>1, <1>2, LeaveMoves
<1>3. CASE pc' = [pc EXCEPT ![w][q] = "owned"] /\ lock' = <<w, q>> /\ UNCHANGED job
  <2>1. job' = [job EXCEPT ![w][q] = job[w][q]] /\ members' \subseteq Roles
    BY <1>1, <1>3 DEF IInv, TypeOK
  <2>2. lock' \in (Replicas \X Requests) \cup Replicas \cup {NoOne}
    BY <1>3
  <2> QED BY <1>1, <1>3, <2>1, <2>2, ScopedContinues
<1> QED BY <1>2, <1>3 DEF TakeLock

\* The SQL is planned under the locks.
LEMMA PlanScopedMoves ==
    ASSUME IInv, NEW w \in Replicas, NEW q \in Requests, PlanScoped(w, q)
    PROVE  IInv'
<1>1. pc[w][q] \in ScopedSteps /\ "create" \in ScopedSteps /\ UNCHANGED <<request, scoped, members, world>>
  BY DEF PlanScoped, ScopedSteps
<1>2. job[w][q].snap.resolved \subseteq Roles /\ members \subseteq Roles
  BY Running DEF RequestObjects, IInv, TypeOK
<1>3. \/ Leave(w, q)
      \/ \E c \in SUBSET Roles : Continue(w, q, "create", [job[w][q] EXCEPT !.changes = c])
  <2> DEFINE others == OwnedBy(w, active_owners(w) \ {q})
             taken == (job[w][q].snap.resolved \ (job[w][q].durable \cup others)) \cap members
             given == job[w][q].snap.resolved \ members
  <2>1. taken \in SUBSET Roles /\ given \in SUBSET Roles
    BY <1>2
  <2>2. \/ Leave(w, q)
        \/ Continue(w, q, "create", [job[w][q] EXCEPT !.changes = taken])
        \/ Continue(w, q, "create", [job[w][q] EXCEPT !.changes = given])
    BY DEF PlanScoped
  <2> HIDE DEF taken, given
  <2> QED BY <2>1, <2>2
<1>4. ASSUME NEW c \in SUBSET Roles, Continue(w, q, "create", [job[w][q] EXCEPT !.changes = c])
      PROVE  IInv'
  <2> DEFINE j == [job[w][q] EXCEPT !.changes = c]
  <2>1. /\ j \in Jobs /\ j.snap = job[w][q].snap /\ j.write = job[w][q].write
        /\ j.op = job[w][q].op
    BY Running DEF Jobs
  <2>2. Continue(w, q, "create", j)
    BY <1>4
  <2> HIDE DEF j
  <2>3. "create" \in Steps /\ JobOK("create", j, request[q])
    BY <1>1, <2>1, ScopedJob
  <2> QED BY <1>1, <2>1, <2>2, <2>3, ContinueMoves
<1> QED BY <1>1, <1>3, <1>4, LeaveMoves

\* The end of a scoped operation, which keeps the locals.
LEMMA ScopedEnds ==
    ASSUME IInv, NEW w \in Replicas, NEW q \in Requests, Scoped(w, q)
    PROVE  /\ \E s \in {"transition", "unfinalize"} : pc' = [pc EXCEPT ![w][q] = s]
           /\ job' = [job EXCEPT ![w][q] = job[w][q]]
           /\ lock' \in (Replicas \X Requests) \cup Replicas \cup {NoOne}
BY DEF Scoped, IInv, TypeOK

\* A step that leaves and writes the plan of the operation, if there is one.
LEMMA ScopedLeaves ==
    ASSUME IInv, NEW w \in Replicas, NEW q \in Requests, Leave(w, q), NEW phase \in ScopedPhases,
           scoped[q][job[w][q].op] # "none",
           scoped' = [scoped EXCEPT ![q][job[w][q].op] = phase],
           UNCHANGED <<request, members, world>>
    PROVE  IInv'
<1>1. NoJob \in Jobs
  BY DEF NoJob, Jobs, NoRequest, RequestObjects, Phases, Modes, Decisions, Operations
<1>2. "idle" \in Steps /\ JobOK("idle", NoJob, request[q])
  BY DEF Steps, JobOK
<1>3. lock' \in (Replicas \X Requests) \cup Replicas \cup {NoOne}
  BY DEF Leave, IInv, TypeOK
<1>4. request' = request /\ members' = members /\ UNCHANGED world
  OBVIOUS
<1>5. \A r \in Requests : ObjectOK(request'[r]) /\ Past(request[r], request'[r])
  BY <1>4, PastSelf DEF IInv, StoreOK
<1>6. request' \in [Requests -> RequestObjects] /\ members' \subseteq Roles
  BY <1>4 DEF IInv, TypeOK
<1>7. scoped' \in [Requests -> [Operations -> ScopedPhases]]
  BY Running DEF IInv, TypeOK
<1>8. \A r \in Requests : scoped'[r]["Activate"] # "none" => scoped[r]["Activate"] # "none"
  BY Running DEF IInv, TypeOK, Operations
<1> QED BY <1>1, <1>2, <1>3, <1>4, <1>5, <1>6, <1>7, <1>8, HandlerMoves DEF Leave

\* An activation plan is created for a sanctioned request only.
LEMMA CreateScopedPlanMoves ==
    ASSUME IInv, NEW w \in Replicas, NEW q \in Requests, CreateScopedPlan(w, q)
    PROVE  IInv'
<1> DEFINE phase == IF scoped[q][job[w][q].op] = "none" THEN "new" ELSE scoped[q][job[w][q].op]
<1>1. pc[w][q] \in ScopedSteps /\ UNCHANGED <<request, world>> /\ members' \subseteq Roles
  BY DEF CreateScopedPlan, ScopedSteps, IInv, TypeOK
<1>2. phase \in ScopedPhases
  BY Running DEF ScopedPhases, IInv, TypeOK
<1>3. scoped' = [scoped EXCEPT ![q][job[w][q].op] = phase]
  BY DEF CreateScopedPlan
<1> HIDE DEF phase
<1>4. \E s \in {"start", "sql"} : Continue(w, q, s, job[w][q]) \/ Scoped(w, q)
  BY DEF CreateScopedPlan
<1>5. \E s \in ScopedSteps \cup {"transition", "unfinalize"} : pc' = [pc EXCEPT ![w][q] = s]
  BY <1>4, ScopedEnds DEF Continue, ScopedSteps
<1>6. /\ job' = [job EXCEPT ![w][q] = job[w][q]]
      /\ lock' \in (Replicas \X Requests) \cup Replicas \cup {NoOne}
  BY <1>4, ScopedEnds DEF Continue, IInv, TypeOK
<1> QED BY <1>1, <1>2, <1>3, <1>5, <1>6, ScopedMoves

\* Its status says that execution may have begun.
LEMMA StartScopedPlanMoves ==
    ASSUME IInv, NEW w \in Replicas, NEW q \in Requests, StartScopedPlan(w, q)
    PROVE  IInv'
<1>1. /\ pc[w][q] \in ScopedSteps /\ "sql" \in ScopedSteps /\ "Applying" \in ScopedPhases
      /\ UNCHANGED <<request, world>> /\ members' = members /\ members' \subseteq Roles
  BY DEF StartScopedPlan, ScopedSteps, ScopedPhases, IInv, TypeOK
<1>2. CASE Leave(w, q) /\ UNCHANGED scoped
  BY <1>1, <1>2, LeaveMoves
<1>3. CASE /\ scoped' = [scoped EXCEPT ![q][job[w][q].op] = "Applying"]
           /\ Continue(w, q, "sql", job[w][q])
  <2>1. lock' \in (Replicas \X Requests) \cup Replicas \cup {NoOne}
    BY <1>3 DEF Continue, IInv, TypeOK
  <2> QED BY <1>1, <1>3, <2>1, ScopedMoves DEF Continue
<1> QED BY <1>2, <1>3 DEF StartScopedPlan

\* What the SQL leaves is a set of memberships.
LEMMA ExecutedType ==
    ASSUME IInv, NEW w \in Replicas, NEW q \in Requests
    PROVE  Executed(w, q) \subseteq Roles
<1>1. job[w][q].changes \subseteq Roles /\ members \subseteq Roles
  BY Running DEF Jobs, IInv, TypeOK
<1> QED BY <1>1 DEF Executed

\* The transaction commits.
LEMMA RunSqlMoves ==
    ASSUME IInv, NEW w \in Replicas, NEW q \in Requests, RunSql(w, q)
    PROVE  IInv'
<1>1. /\ pc[w][q] \in ScopedSteps /\ "finish" \in ScopedSteps
      /\ UNCHANGED <<scoped, request, world>> /\ members' \subseteq Roles
  BY ExecutedType DEF RunSql, ScopedSteps
<1>2. Continue(w, q, "finish", job[w][q])
  BY DEF RunSql
<1>3. lock' \in (Replicas \X Requests) \cup Replicas \cup {NoOne}
  BY <1>2 DEF Continue, IInv, TypeOK
<1> QED BY <1>1, <1>2, <1>3, ScopedContinues DEF Continue

\* The outcome is recorded on the plan.
LEMMA FinishMoves ==
    ASSUME IInv, NEW w \in Replicas, NEW q \in Requests, FinishApplied(w, q) \/ FinishFailed(w, q)
    PROVE  IInv'
<1>1. /\ pc[w][q] \in ScopedSteps /\ UNCHANGED <<request, members, world>>
      /\ "Applied" \in ScopedPhases /\ "Failed" \in ScopedPhases
  BY DEF FinishApplied, FinishFailed, ScopedSteps, ScopedPhases
<1>2. CASE Leave(w, q) /\ UNCHANGED scoped
  BY <1>1, <1>2, LeaveMoves
<1>3. CASE /\ scoped[q][job[w][q].op] # "none"
           /\ scoped' = [scoped EXCEPT ![q][job[w][q].op] = "Failed"] /\ Leave(w, q)
  BY <1>1, <1>3, ScopedLeaves
<1>4. CASE scoped' = [scoped EXCEPT ![q][job[w][q].op] = "Applied"] /\ Scoped(w, q)
  <2>1. PICK s \in {"transition", "unfinalize"} : pc' = [pc EXCEPT ![w][q] = s]
    BY <1>4, ScopedEnds
  <2>2. /\ job' = [job EXCEPT ![w][q] = job[w][q]]
        /\ lock' \in (Replicas \X Requests) \cup Replicas \cup {NoOne}
    BY <1>4, ScopedEnds
  <2>3. members' \subseteq Roles /\ UNCHANGED <<request, world>>
    BY <1>1 DEF IInv, TypeOK
  <2> QED BY <1>1, <1>4, <2>1, <2>2, <2>3, ScopedMoves
<1> QED BY <1>2, <1>3, <1>4 DEF FinishApplied, FinishFailed

----------------------------------------------------------------------------
(* The other controllers, failures and the environment *)

\* A step that leaves requests, scoped plans and reconciles of requests alone.
LEMMA QuietMoves ==
    ASSUME IInv, TypeOK', UNCHANGED <<request, pc, job>>,
           access'.accepted => access'.spec.bundle # {},
           \A q \in Requests : scoped'[q]["Activate"] # "none" => scoped[q]["Activate"] # "none",
           \A w \in Replicas, q \in Requests : seen'[w][q] \in {seen[w][q], request[q]}
    PROVE  IInv'
<1>1. request' = request /\ pc' = pc /\ job' = job
  OBVIOUS
<1>2. \A q \in Requests : ObjectOK(request'[q]) /\ Past(request[q], request'[q])
  BY <1>1, PastSelf DEF IInv, StoreOK
<1> QED BY <1>1, <1>2, Preserved

\* The request index follows the objects.
LEMMA observeMoves ==
    ASSUME IInv, NEW w \in Replicas, NEW q \in Requests, observe(w, q)
    PROVE  IInv'
<1>1. \A v \in Replicas, r \in Requests : seen'[v][r] \in {seen[v][r], request[r]}
  BY DEF observe, IInv, TypeOK
<1>2. TypeOK'
  BY DEF observe, IInv, TypeOK, policies
<1>3. UNCHANGED <<request, pc, job>> /\ access' = access /\ scoped' = scoped
  BY DEF observe, policies
<1>4. access'.accepted => access'.spec.bundle # {}
  BY <1>3 DEF IInv, StoreOK
<1> QED BY <1>1, <1>2, <1>3, <1>4, QuietMoves

\* Collecting scoped plans sanctions nothing.
LEMMA CollectPlansMoves ==
    ASSUME IInv, NEW q \in Requests, CollectPlans(q)
    PROVE  IInv'
<1>1. scoped' = [scoped EXCEPT ![q] = [op \in Operations |-> "none"]]
  BY DEF CollectPlans
<1>2. \A r \in Requests : scoped'[r]["Activate"] # "none" => scoped[r]["Activate"] # "none"
  BY <1>1 DEF IInv, TypeOK, Operations
<1>3. TypeOK'
  BY <1>1 DEF CollectPlans, IInv, TypeOK, world, ScopedPhases
<1>4. UNCHANGED <<request, pc, job>> /\ access' = access /\ seen' = seen
  BY DEF CollectPlans, world
<1>5. access'.accepted => access'.spec.bundle # {}
  BY <1>4 DEF IInv, StoreOK
<1> QED BY <1>2, <1>3, <1>4, <1>5, QuietMoves

\* Steps of the target's reconcile.
LEMMA PolicyMoves ==
    ASSUME IInv, NEW w \in Replicas, Policy(w) \/ PolicyFails(w)
    PROVE  IInv'
<1>1. UNCHANGED <<request, seen, access, target, scoped, now, pc, job>>
  BY DEF Policy, PolicyBegin, PolicyCompose, PolicyApply, PolicyFails, policies
<1>2. events' \in 0..MaxEvents
  BY EphemeralAssumption DEF Policy, PolicyBegin, PolicyCompose, PolicyApply, PolicyFails, Happens, IInv, TypeOK
<1>3. lock' \in (Replicas \X Requests) \cup Replicas \cup {NoOne}
  BY DEF Policy, PolicyBegin, PolicyCompose, PolicyApply, PolicyFails, IInv, TypeOK
<1>4. sync' \in [Replicas -> Syncs]
  <2>1. NoSync \in Syncs /\ sync[w] \in Syncs
    BY DEF NoSync, Syncs, IInv, TypeOK
  <2>2. CASE sync' = [sync EXCEPT ![w] = NoSync]
    BY <2>1, <2>2 DEF IInv, TypeOK
  <2>3. CASE PolicyBegin(w)
    <3>1. target.spec.durable \in SUBSET Roles /\ target.spec.roles \in SUBSET Roles
      BY DEF IInv, TypeOK, AllTargetSpecs
    <3>2. [NoSync EXCEPT !.at = "begun", !.durable = target.spec.durable,
                         !.roles = target.spec.roles] \in Syncs
      BY <3>1 DEF NoSync, Syncs
    <3> QED BY <2>3, <3>2 DEF PolicyBegin, IInv, TypeOK
  <2>4. CASE PolicyCompose(w)
    <3> DEFINE overlay == OwnedBy(w, active_owners(w))
    <3>1. SUFFICES ASSUME sync' = [sync EXCEPT ![w].at = "composed", ![w].overlay = overlay]
                   PROVE  sync' \in [Replicas -> Syncs]
      BY <2>2, <2>4 DEF PolicyCompose
    <3>2. overlay \in SUBSET Roles
      BY DEF OwnedBy, active_owners, IInv, TypeOK, RequestObjects
    <3> HIDE DEF overlay
    <3>3. [sync[w] EXCEPT !.at = "composed", !.overlay = overlay] \in Syncs
      BY <2>1, <3>2 DEF Syncs
    <3> QED BY <3>1, <3>3 DEF IInv, TypeOK
  <2> QED BY <2>2, <2>3, <2>4 DEF Policy, PolicyApply, PolicyFails
<1>5. members' \subseteq Roles
  <2>1. CASE PolicyApply(w)
    <3>1. sync[w].durable \subseteq Roles /\ sync[w].overlay \subseteq Roles /\ members \subseteq Roles
      BY DEF IInv, TypeOK, Syncs
    <3> QED BY <2>1, <3>1 DEF PolicyApply
  <2> QED BY <2>1 DEF Policy, PolicyBegin, PolicyCompose, PolicyFails, IInv, TypeOK
<1>6. TypeOK'
  BY <1>1, <1>2, <1>3, <1>4, <1>5 DEF IInv, TypeOK
<1>7. access'.accepted => access'.spec.bundle # {}
  BY <1>1 DEF IInv, StoreOK
<1> QED BY <1>1, <1>6, <1>7, QuietMoves
=============================================================================
