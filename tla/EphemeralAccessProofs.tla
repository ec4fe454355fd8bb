----------------------- MODULE EphemeralAccessProofs -----------------------
(***************************************************************************)
(* The invariant of ephemeral access, and what follows from it: the gate   *)
(* of approvals, the write-once deadline and the finality of phases.       *)
(***************************************************************************)
EXTENDS EphemeralAccessSteps

----------------------------------------------------------------------------
(* The environment and failures *)

\* Steps on the two policies and the clock; only an accepted access policy
\* has to have a bundle.
LEMMA PoliciesMove ==
    ASSUME IInv,
           \/ AcceptAccess \/ TargetCleanup \/ DeleteAccess \/ DeleteTarget \/ Tick
           \/ \E spec \in AccessSpecs : EditAccess(spec)
           \/ \E spec \in TargetSpecs : EditTarget(spec)
    PROVE  IInv'
<1>1. UNCHANGED <<request, seen, scoped, members, lock, pc, job, sync>>
  BY DEF AcceptAccess, TargetCleanup, DeleteAccess, DeleteTarget, Tick, EditAccess, EditTarget, Elsewhere
<1>2. events' \in 0..MaxEvents /\ now' \in Nat
  <2>1. \/ UNCHANGED <<events, now>>
        \/ events > 0 /\ events' = events - 1 /\ now' = now
        \/ events' = events /\ now' = now + 1
    BY ZenonT(30) DEF AcceptAccess, TargetCleanup, DeleteAccess, DeleteTarget, Tick, EditAccess,
       EditTarget, Happens
  <2>2. events \in 0..MaxEvents /\ now \in Nat /\ MaxEvents \in Nat
    BY EphemeralAssumption DEF IInv, TypeOK
  <2> QED BY ONLY <2>1, <2>2
<1>3. access' \in [there : BOOLEAN, deleting : BOOLEAN, accepted : BOOLEAN, spec : AllAccessSpecs]
  BY EphemeralAssumption, ZenonT(30) DEF AcceptAccess, TargetCleanup, DeleteAccess, DeleteTarget, Tick,
     EditAccess, EditTarget, policies, IInv, TypeOK
<1>4. target' \in [there : BOOLEAN, deleting : BOOLEAN, spec : AllTargetSpecs]
  BY EphemeralAssumption, ZenonT(30) DEF AcceptAccess, TargetCleanup, DeleteAccess, DeleteTarget, Tick,
     EditAccess, EditTarget, policies, IInv, TypeOK
<1>5. access'.accepted => access'.spec.bundle # {}
  BY DEF AcceptAccess, TargetCleanup, DeleteAccess, DeleteTarget, Tick,
     EditAccess, EditTarget, policies, IInv, TypeOK, StoreOK
<1>6. TypeOK'
  BY <1>1, <1>2, <1>3, <1>4, SMTT(30) DEF IInv, TypeOK
<1> QED BY <1>1, <1>5, <1>6, QuietMoves, SMTT(30)

\* A version of request q is replaced by a later one, outside its reconcile.
LEMMA ObjectMoves ==
    ASSUME IInv, NEW q \in Requests, NEW r \in RequestObjects, ObjectOK(r), Past(request[q], r),
           request' = [request EXCEPT ![q] = r],
           events' \in 0..MaxEvents,
           UNCHANGED <<seen, access, target, scoped, members, now, lock, pc, job, sync>>
    PROVE  IInv'
<1>1. \A p \in Requests : ObjectOK(request'[p]) /\ Past(request[p], request'[p])
  BY PastSelf DEF IInv, TypeOK, StoreOK
<1>2. TypeOK'
  BY DEF IInv, TypeOK
<1>3. access'.accepted => access'.spec.bundle # {}
  BY DEF IInv, StoreOK
<1> QED BY <1>1, <1>2, <1>3, Preserved

\* The lifecycle of the object.
LEMMA LifecycleMoves ==
    ASSUME IInv, NEW q \in Requests, CreateRequest(q) \/ DeleteRequest(q)
    PROVE  IInv'
<1>1. request[q] \in RequestObjects /\ ObjectOK(request[q])
  BY DEF IInv, TypeOK, StoreOK
<1>2. PICK r \in {[request[q] EXCEPT !.there = TRUE], [request[q] EXCEPT !.there = FALSE],
                  [request[q] EXCEPT !.deleting = TRUE]} :
          request' = [request EXCEPT ![q] = r]
  BY DEF CreateRequest, DeleteRequest, Deleted, IInv, TypeOK
<1>3. r \in RequestObjects /\ ObjectOK(r) /\ Past(request[q], r)
  BY <1>1, <1>2, MetadataWrite
<1>4. events' \in 0..MaxEvents
  BY EphemeralAssumption DEF CreateRequest, DeleteRequest, Happens, IInv, TypeOK
<1>5. UNCHANGED <<seen, access, target, scoped, members, now, lock, pc, job, sync>>
  BY DEF CreateRequest, DeleteRequest, policies, Elsewhere
<1> QED BY <1>2, <1>3, <1>4, <1>5, ObjectMoves

\* A decision on an undecided request.
LEMMA DecideMoves ==
    ASSUME IInv, NEW q \in Requests, NEW d \in Decisions \ {"none"}, Decide(q, d)
    PROVE  IInv'
<1> DEFINE r == [request[q] EXCEPT !.decision = d]
<1>1. request[q] \in RequestObjects /\ ObjectOK(request[q]) /\ request[q].decision = "none"
  BY DEF Decide, IInv, TypeOK, StoreOK
<1>2. r \in RequestObjects /\ ObjectOK(r) /\ Past(request[q], r)
  BY <1>1 DEF RequestObjects, ObjectOK, Sanctioned, Past
<1>3. request' = [request EXCEPT ![q] = r]
  BY DEF Decide, IInv, TypeOK
<1>4. events' \in 0..MaxEvents
  BY EphemeralAssumption DEF Decide, Happens, IInv, TypeOK
<1>5. UNCHANGED <<seen, access, target, scoped, members, now, lock, pc, job, sync>>
  BY DEF Decide, policies, Elsewhere
<1> HIDE DEF r
<1> QED BY <1>2, <1>3, <1>4, <1>5, ObjectMoves

\* The access policy deletes its requests, then goes.
LEMMA AccessCleanupMoves ==
    ASSUME IInv, NEW w \in Replicas, AccessCleanup(w)
    PROVE  IInv'
<1>1. UNCHANGED <<seen, target, scoped, members, now, lock, pc, job, sync, events>>
  BY DEF AccessCleanup
<1>2. CASE access' = [access EXCEPT !.there = FALSE] /\ UNCHANGED request
  <2>1. TypeOK' /\ (access'.accepted => access'.spec.bundle # {})
    BY <1>1, <1>2 DEF IInv, TypeOK, StoreOK
  <2> QED BY <1>1, <1>2, <2>1, QuietMoves
<1>3. ASSUME NEW q \in Requests, request' = [request EXCEPT ![q] = Deleted(request[q])],
             UNCHANGED access
      PROVE  IInv'
  <2>1. Deleted(request[q]) \in RequestObjects /\ ObjectOK(Deleted(request[q]))
        /\ Past(request[q], Deleted(request[q]))
    BY MetadataWrite DEF Deleted, IInv, TypeOK, StoreOK
  <2>2. events' \in 0..MaxEvents
    BY <1>1 DEF IInv, TypeOK
  <2>3. UNCHANGED <<seen, access, target, scoped, members, now, lock, pc, job, sync>>
    BY <1>1, <1>3
  <2> QED BY <1>3, <2>1, <2>2, <2>3, ObjectMoves
<1> QED BY <1>2, <1>3 DEF AccessCleanup, IInv, TypeOK

\* A failure moves the reconcile of a request and uses up an event.
LEMMA MovesAnyway ==
    ASSUME IInv, NEW w \in Replicas, NEW q \in Requests, NEW s \in Steps, NEW j \in Jobs,
           pc' = [pc EXCEPT ![w][q] = s], job' = [job EXCEPT ![w][q] = j],
           lock' \in (Replicas \X Requests) \cup Replicas \cup {NoOne},
           members' \subseteq Roles, events' \in 0..MaxEvents,
           UNCHANGED <<request, seen, access, target, scoped, now, sync>>,
           JobOK(s, j, request[q])
    PROVE  IInv'
<1>1. TypeOK'
  BY DEF IInv, TypeOK
<1>2. \A v \in Replicas, r \in Requests :
         \/ pc'[v][r] = pc[v][r] /\ job'[v][r] = job[v][r]
         \/ JobOK(pc'[v][r], job'[v][r], request[r])
  BY DEF IInv, TypeOK
<1>3. /\ \A r \in Requests : ObjectOK(request'[r]) /\ Past(request[r], request'[r])
      /\ access'.accepted => access'.spec.bundle # {}
  BY PastSelf DEF IInv, StoreOK
<1> QED BY <1>1, <1>2, <1>3, Preserved

\* A call fails, and with it the reconcile.
LEMMA CallFailsMoves ==
    ASSUME IInv, NEW w \in Replicas, NEW q \in Requests, CallFails(w, q)
    PROVE  IInv'
<1>1. JobOK("idle", NoJob, request[q]) /\ "idle" \in Steps
  BY DEF Steps, JobOK
<1>2. NoJob \in Jobs
  BY DEF NoJob, Jobs, NoRequest, RequestObjects, Phases, Modes, Decisions, Operations
<1>3. /\ UNCHANGED <<request, seen, access, target, scoped, members, now, sync>> /\ Leave(w, q)
      /\ events' \in 0..MaxEvents
  BY EphemeralAssumption DEF CallFails, policies, Happens, IInv, TypeOK
<1>4. lock' \in (Replicas \X Requests) \cup Replicas \cup {NoOne}
  BY <1>3 DEF Leave, IInv, TypeOK
<1>5. /\ pc' = [pc EXCEPT ![w][q] = "idle"] /\ job' = [job EXCEPT ![w][q] = NoJob]
  BY <1>3 DEF Leave
<1>6. members' \subseteq Roles /\ UNCHANGED <<request, seen, access, target, scoped, now, sync>>
  BY <1>3 DEF IInv, TypeOK
<1> QED BY <1>1, <1>2, <1>3, <1>4, <1>5, <1>6, MovesAnyway

\* The labelling fails, and the reconcile goes on.
LEMMA LabelFailsMoves ==
    ASSUME IInv, NEW w \in Replicas, NEW q \in Requests, LabelFails(w, q)
    PROVE  IInv'
<1>1. "transition" \in Steps /\ JobOK("transition", job[w][q], request[q])
  BY Running DEF LabelFails, JobOK, Steps, ScopedSteps
<1>2. /\ UNCHANGED <<request, seen, access, target, scoped, members, now, sync>>
      /\ Continue(w, q, "transition", job[w][q]) /\ events' \in 0..MaxEvents
  BY EphemeralAssumption DEF LabelFails, policies, Happens, IInv, TypeOK
<1>3. /\ lock' \in (Replicas \X Requests) \cup Replicas \cup {NoOne}
      /\ members' \subseteq Roles
  BY <1>2 DEF Continue, IInv, TypeOK
<1>4. /\ pc' = [pc EXCEPT ![w][q] = "transition"] /\ job' = [job EXCEPT ![w][q] = job[w][q]]
      /\ UNCHANGED <<request, seen, access, target, scoped, now, sync>>
  BY <1>2 DEF Continue
<1> QED BY <1>1, <1>2, <1>3, <1>4, Running, MovesAnyway

\* The transaction fails, or seems to.
LEMMA SqlFailsMoves ==
    ASSUME IInv, NEW w \in Replicas, NEW q \in Requests, SqlFails(w, q)
    PROVE  IInv'
<1>1. pc[w][q] \in ScopedSteps /\ "failed" \in ScopedSteps
  BY DEF SqlFails, ScopedSteps
<1>2. "failed" \in Steps /\ JobOK("failed", job[w][q], request[q])
  BY <1>1, ScopedJob
<1>3. /\ UNCHANGED <<request, seen, access, target, scoped, now, sync>>
      /\ Continue(w, q, "failed", job[w][q]) /\ events' \in 0..MaxEvents
  BY EphemeralAssumption DEF SqlFails, policies, Happens, IInv, TypeOK
<1>4. members' \subseteq Roles
  BY ExecutedType DEF SqlFails, IInv, TypeOK
<1>5. /\ lock' \in (Replicas \X Requests) \cup Replicas \cup {NoOne}
      /\ pc' = [pc EXCEPT ![w][q] = "failed"] /\ job' = [job EXCEPT ![w][q] = job[w][q]]
  BY <1>3 DEF Continue, IInv, TypeOK
<1> QED BY <1>2, <1>3, <1>4, <1>5, Running, MovesAnyway

\* A restart drops the reconciles of a replica and takes fresh copies.
LEMMA CrashMoves ==
    ASSUME IInv, NEW w \in Replicas, Crash(w)
    PROVE  IInv'
<1>1. NoJob \in Jobs /\ "idle" \in Steps /\ NoSync \in Syncs
  BY DEF NoJob, Jobs, NoRequest, RequestObjects, Phases, Modes, Decisions, Operations, Steps,
     NoSync, Syncs
<1>2. /\ UNCHANGED <<request, access, target, scoped, members, now>>
      /\ events' \in 0..MaxEvents
  BY EphemeralAssumption DEF Crash, policies, Happens, IInv, TypeOK
<1>3. lock' \in (Replicas \X Requests) \cup Replicas \cup {NoOne}
  BY DEF Crash, IInv, TypeOK
<1>4. /\ pc' \in [Replicas -> [Requests -> Steps]] /\ job' \in [Replicas -> [Requests -> Jobs]]
      /\ sync' \in [Replicas -> Syncs] /\ seen' \in [Replicas -> [Requests -> RequestObjects]]
  BY <1>1 DEF Crash, IInv, TypeOK
<1>5. TypeOK'
  BY <1>2, <1>3, <1>4 DEF IInv, TypeOK
<1>6. /\ \A q \in Requests : ObjectOK(request'[q]) /\ Past(request[q], request'[q])
      /\ access'.accepted => access'.spec.bundle # {}
  BY <1>2, PastSelf DEF IInv, StoreOK
<1>7. \A v \in Replicas, q \in Requests : seen'[v][q] \in {seen[v][q], request[q]}
  BY DEF Crash, IInv, TypeOK
<1>8. \A v \in Replicas, q \in Requests :
         \/ pc'[v][q] = pc[v][q] /\ job'[v][q] = job[v][q]
         \/ pc'[v][q] = "idle"
  BY DEF Crash, IInv, TypeOK
<1>9. \A v \in Replicas, q \in Requests :
         \/ pc'[v][q] = pc[v][q] /\ job'[v][q] = job[v][q]
         \/ JobOK(pc'[v][q], job'[v][q], request[q])
  BY <1>8 DEF JobOK
<1> QED BY <1>2, <1>5, <1>6, <1>7, <1>9, Preserved

----------------------------------------------------------------------------
(* Theorems *)

\* The invariant holds at the start.
LEMMA Initially == Init => IInv
<1> SUFFICES ASSUME Init PROVE IInv
  OBVIOUS
<1>1. NoRequest \in RequestObjects /\ ObjectOK(NoRequest)
  BY DEF NoRequest, RequestObjects, ObjectOK, Phases, Modes, Decisions
<1>2. NoJob \in Jobs /\ NoSync \in Syncs /\ "idle" \in Steps
  BY <1>1 DEF NoJob, Jobs, Operations, NoSync, Syncs, Steps
<1>3. PICK a \in AccessSpecs :
         access = [there |-> TRUE, deleting |-> FALSE, accepted |-> FALSE, spec |-> a]
  BY DEF Init
<1>4. PICK s \in TargetSpecs : target = [there |-> TRUE, deleting |-> FALSE, spec |-> s]
  BY DEF Init
<1>5. target.spec.durable \subseteq Roles
  BY <1>4, EphemeralAssumption DEF AllTargetSpecs
<1>6. TypeOK
  BY <1>1, <1>2, <1>3, <1>4, <1>5, EphemeralAssumption DEF Init, TypeOK, ScopedPhases
<1>7. StoreOK
  BY <1>1, <1>3 DEF Init, StoreOK, Operations
<1>8. CopiesOK
  BY <1>1, PastSelf DEF Init, CopiesOK, JobOK
<1> QED BY <1>6, <1>7, <1>8 DEF IInv

\* Every step of the reconcile of a request preserves the invariant.
LEMMA StepMoves ==
    ASSUME IInv, NEW w \in Replicas, NEW q \in Requests, Step(w, q)
    PROVE  IInv'
<1>1. CASE \/ AddFinalizer(w, q) \/ Label(w, q) \/ Transition(w, q) \/ RemoveFinalizer(w, q)
  BY <1>1, AddFinalizerMoves, LabelMoves, TransitionMoves, RemoveFinalizerMoves
<1>2. CASE \/ Rest(w, q) \/ Unresolvable(w, q) \/ Resolve(w, q) \/ Deny(w, q) \/ Cancel(w, q)
  BY <1>2, RestMoves, ResolveMoves, DenyMoves, CancelMoves
<1>3. CASE \/ Await(w, q) \/ Apply(w, q) \/ Expire(w, q) \/ StartRevoking(w, q)
           \/ Cleanup(w, q) \/ CheckProvenance(w, q)
  BY <1>3, AwaitMoves, ApplyMoves, ExpireMoves, StartRevokingMoves, CleanupMoves, CheckProvenanceMoves
<1>4. CASE \/ EnterScoped(w, q) \/ TakeLock(w, q) \/ PlanScoped(w, q) \/ CreateScopedPlan(w, q)
           \/ StartScopedPlan(w, q) \/ RunSql(w, q) \/ FinishApplied(w, q) \/ FinishFailed(w, q)
  BY <1>4, EnterScopedMoves, TakeLockMoves, PlanScopedMoves, CreateScopedPlanMoves,
     StartScopedPlanMoves, RunSqlMoves, FinishMoves
<1> QED BY <1>1, <1>2, <1>3, <1>4 DEF Step

\* So does every step.
LEMMA NextMoves == IInv /\ [Next]_vars => IInv'
<1> SUFFICES ASSUME IInv, [Next]_vars PROVE IInv'
  OBVIOUS
<1>1. CASE UNCHANGED vars
  BY <1>1 DEF vars, IInv, TypeOK, StoreOK, CopiesOK
<1>2. ASSUME NEW w \in Replicas, NEW q \in Requests,
             \/ Begin(w, q) \/ Step(w, q) \/ observe(w, q)
             \/ CallFails(w, q) \/ LabelFails(w, q) \/ SqlFails(w, q)
      PROVE  IInv'
  BY <1>2, BeginMoves, StepMoves, observeMoves, CallFailsMoves, LabelFailsMoves,
     SqlFailsMoves
<1>3. ASSUME NEW w \in Replicas, Policy(w) \/ PolicyFails(w) \/ AccessCleanup(w) \/ Crash(w)
      PROVE  IInv'
  BY <1>3, PolicyMoves, AccessCleanupMoves, CrashMoves
<1>4. ASSUME NEW q \in Requests, CollectPlans(q) \/ CreateRequest(q) \/ DeleteRequest(q)
      PROVE  IInv'
  BY <1>4, CollectPlansMoves, LifecycleMoves
<1>5. ASSUME NEW q \in Requests, NEW d \in Decisions \ {"none"}, Decide(q, d)
      PROVE  IInv'
  BY <1>5, DecideMoves
<1> QED BY <1>1, <1>2, <1>3, <1>4, <1>5, PoliciesMove DEF Next

\* The invariant: every copy of a request is a past version of it, and what
\* an activation rests on is settled in the copy it was dispatched with.
THEOREM AccessInvariance == Spec => []IInv
BY Initially, NextMoves, PTL DEF Spec

\* Every variable keeps its type, the deadlines that reconciles record and the
\* memberships that SQL leaves included.
THEOREM AccessTypes == Spec => []TypeOK
<1>1. IInv => TypeOK
  BY DEF IInv
<1> QED BY <1>1, AccessInvariance, PTL

\* No membership is granted without the automatic mode or an attested approval
\* (reconcile_access_request_apply), for any number of replicas and requests,
\* however stale the copies they work from.
THEOREM ApprovalGate == Spec => []ApprovalGatesAccess
<1>1. IInv => ApprovalGatesAccess
  BY DEF IInv, StoreOK, ApprovalGatesAccess, Sanctioned
<1> QED BY <1>1, AccessInvariance, PTL

\* What a version of a request has that a later one keeps.
Keeps(old, new) ==
    /\ old.expires # 0 => new.expires = old.expires
    /\ old.phase \in TerminalPhases => new.phase = old.phase

\* The status write is made of the version it was prepared from, which is not
\* in a terminal phase.
LEMMA TransitionKeeps ==
    ASSUME IInv, NEW w \in Replicas, NEW q \in Requests, Transition(w, q)
    PROVE  \A p \in Requests : Keeps(request[p], request'[p])
<1>1. /\ job[w][q].snap.phase \notin TerminalPhases
      /\ Past(job[w][q].snap, job[w][q].write)
  BY Running DEF Transition, JobOK
<1>2. request' = request \/ (/\ request[q] = job[w][q].snap
                            /\ request' = [request EXCEPT ![q] = job[w][q].write])
  BY DEF Transition
<1> QED BY <1>1, <1>2 DEF Keeps, Past, IInv, TypeOK

\* The other writes of a request touch neither its deadline nor its phase.
LEMMA MetadataKeeps ==
    ASSUME IInv,
           NEW q \in Requests,
           NEW r \in {[request[q] EXCEPT !.finalizer = TRUE], [request[q] EXCEPT !.labelled = TRUE],
                      [request[q] EXCEPT !.there = TRUE], [request[q] EXCEPT !.there = FALSE],
                      [request[q] EXCEPT !.deleting = TRUE]}
                   \cup {[request[q] EXCEPT !.decision = d] : d \in Decisions},
           request' = [request EXCEPT ![q] = r]
    PROVE  \A p \in Requests : Keeps(request[p], request'[p])
<1>1. request[q] \in RequestObjects
  BY DEF IInv, TypeOK
<1>2. r.phase = request[q].phase /\ r.expires = request[q].expires
  BY <1>1, SMTT(30) DEF RequestObjects
<1> QED BY <1>2 DEF Keeps, IInv, TypeOK

\* Every step keeps them.
LEMMA NextKeeps ==
    ASSUME IInv, [Next]_vars
    PROVE  \A p \in Requests : Keeps(request[p], request'[p])
<1>1. CASE UNCHANGED request
  BY <1>1 DEF Keeps
<1>2. CASE \E w \in Replicas, q \in Requests : Transition(w, q)
  BY <1>2, TransitionKeeps
<1>3. CASE \E q \in Requests :
             \E r \in {[request[q] EXCEPT !.finalizer = TRUE], [request[q] EXCEPT !.labelled = TRUE],
                       [request[q] EXCEPT !.there = TRUE], [request[q] EXCEPT !.there = FALSE],
                       [request[q] EXCEPT !.deleting = TRUE]}
                   \cup {[request[q] EXCEPT !.decision = d] : d \in Decisions} :
                 request' = [request EXCEPT ![q] = r]
  BY <1>3, MetadataKeeps
<1>4. ASSUME NEW w \in Replicas, NEW q \in Requests,
             \/ Begin(w, q) \/ Step(w, q) \/ observe(w, q)
             \/ CallFails(w, q) \/ LabelFails(w, q) \/ SqlFails(w, q)
      PROVE  \A p \in Requests : Keeps(request[p], request'[p])
  <2>1. CASE AddFinalizer(w, q) \/ Label(w, q) \/ RemoveFinalizer(w, q)
    BY <1>1, <1>3, <2>1 DEF AddFinalizer, Label, RemoveFinalizer
  <2>2. \/ AddFinalizer(w, q) \/ Label(w, q) \/ RemoveFinalizer(w, q) \/ Transition(w, q)
        \/ UNCHANGED request
    BY <1>4 DEF Step, Begin, observe, CallFails, LabelFails, SqlFails, Rest, Resolve, Deny,
       Unresolvable, Cancel, Await, Apply, Expire, StartRevoking, Cleanup, CheckProvenance, EnterScoped, TakeLock,
       PlanScoped, CreateScopedPlan, StartScopedPlan, RunSql, FinishApplied, FinishFailed
  <2> QED BY <1>1, <1>2, <2>1, <2>2
<1>5. ASSUME NEW w \in Replicas, Policy(w) \/ PolicyFails(w) \/ AccessCleanup(w) \/ Crash(w)
      PROVE  \A p \in Requests : Keeps(request[p], request'[p])
  <2>1. CASE AccessCleanup(w)
    BY <1>1, <1>3, <2>1 DEF AccessCleanup, Deleted
  <2> QED BY <1>1, <1>5, <2>1 DEF Policy, PolicyBegin, PolicyCompose, PolicyApply, PolicyFails, Crash
<1>6. ASSUME NEW q \in Requests, CollectPlans(q) \/ CreateRequest(q) \/ DeleteRequest(q)
      PROVE  \A p \in Requests : Keeps(request[p], request'[p])
  BY <1>1, <1>3, <1>6 DEF CollectPlans, CreateRequest, DeleteRequest, Deleted
<1>7. ASSUME NEW q \in Requests, NEW d \in Decisions \ {"none"}, Decide(q, d)
      PROVE  \A p \in Requests : Keeps(request[p], request'[p])
  BY <1>3, <1>7 DEF Decide
<1>8. CASE \/ AcceptAccess \/ TargetCleanup \/ DeleteAccess \/ DeleteTarget \/ Tick
           \/ \E spec \in AccessSpecs : EditAccess(spec)
           \/ \E spec \in TargetSpecs : EditTarget(spec)
  BY <1>1, <1>8 DEF AcceptAccess, TargetCleanup, DeleteAccess, DeleteTarget, Tick, EditAccess, EditTarget
<1>9. CASE UNCHANGED vars
  BY <1>1, <1>9 DEF vars
<1> QED BY <1>4, <1>5, <1>6, <1>7, <1>8, <1>9 DEF Next

\* A recorded deadline is never moved (persist_activation_deadline), although
\* several replicas may be recording it.
THEOREM DeadlineKept == Spec => DeadlineIsKept
<1>1. IInv /\ [Next]_vars =>
        [\A q \in Requests : request[q].expires # 0 => request'[q].expires = request[q].expires]_vars
  BY NextKeeps DEF Keeps
<1> QED BY <1>1, AccessInvariance, PTL DEF Spec, DeadlineIsKept

\* A terminal phase is final, whatever an older copy of the request is still
\* being worked on (transition_request).
THEOREM TerminalFinal == Spec => TerminalIsFinal
<1>1. IInv /\ [Next]_vars =>
        [\A q \in Requests :
            request[q].phase \in TerminalPhases => request'[q].phase = request[q].phase]_vars
  BY NextKeeps DEF Keeps
<1> QED BY <1>1, AccessInvariance, PTL DEF Spec, TerminalIsFinal
=============================================================================
