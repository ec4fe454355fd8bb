--------------------- MODULE EphemeralAccessInvariant ----------------------
(***************************************************************************)
(* What holds of ephemeral access for every number of replicas, requests   *)
(* and roles.  A copy of a request, in an index or in a running reconcile, *)
(* is a past version of the object: what was settled then (the mode it was *)
(* resolved under, a decision, the deadline) is settled still.             *)
(***************************************************************************)
EXTENDS EphemeralAccess, TLAPS

Sanctioned(r) == r.underMode = "Automatic" \/ r.decision = "Approved"

\* What every version of a request satisfies.
ObjectOK(r) ==
    /\ r.phase = "Applying" => Sanctioned(r)
    /\ r.phase = "PendingApproval" => r.expires = 0
    /\ r.resolved = {} => r.expires = 0 /\ r.underMode = "none"

\* What is settled in old is settled in new.
Past(old, new) ==
    /\ old.underMode # "none" => new.underMode = old.underMode
    /\ old.decision # "none" => new.decision = old.decision
    /\ old.expires # 0 => new.expires = old.expires

ScopedSteps == {"scoped", "lock", "owned", "create", "start", "sql", "finish", "failed"}

\* A reconcile at step s with locals j, of a request that is now r.
JobOK(s, j, r) ==
    s # "idle" =>
        /\ ObjectOK(j.snap) /\ ObjectOK(j.write)
        /\ Past(j.snap, r) /\ Past(j.snap, j.write)
        /\ s \notin {"started", "unfinalize"} => j.snap.phase \notin TerminalPhases
        /\ s = "provenance" => j.op = "Revoke" /\ j.write.phase \notin {"Applying", "PendingApproval"}
        /\ s \in ScopedSteps /\ j.op = "Activate" => Sanctioned(j.snap)

StoreOK ==
    /\ access.accepted => access.spec.bundle # {}
    /\ \A q \in Requests :
          /\ ObjectOK(request[q])
          /\ scoped[q]["Activate"] # "none" => Sanctioned(request[q])

CopiesOK ==
    \A w \in Replicas, q \in Requests :
        /\ ObjectOK(seen[w][q]) /\ Past(seen[w][q], request[q])
        /\ JobOK(pc[w][q], job[w][q], request[q])

IInv == TypeOK /\ StoreOK /\ CopiesOK

----------------------------------------------------------------------------
(* Versions of a request *)

\* A version is a past version of itself.
LEMMA PastSelf == \A r : Past(r, r)
BY DEF Past

\* A past version of a past version is one.
LEMMA PastTrans ==
    ASSUME NEW r, NEW s, NEW t, Past(r, s), Past(s, t)
    PROVE  Past(r, t)
BY DEF Past

\* What was sanctioned stays sanctioned.
LEMMA SanctionStays ==
    ASSUME NEW r, NEW s, Past(r, s), Sanctioned(r)
    PROVE  Sanctioned(s)
BY DEF Past, Sanctioned

\* The write of a new phase into a copy: what is settled stays, and the phases
\* that need more than a phase are not among those written this way.
LEMMA PhaseWrite ==
    ASSUME NEW r \in RequestObjects, ObjectOK(r),
           NEW phase \in Phases \ {"Applying", "PendingApproval"}
    PROVE  /\ [r EXCEPT !.phase = phase] \in RequestObjects
           /\ ObjectOK([r EXCEPT !.phase = phase])
           /\ Past(r, [r EXCEPT !.phase = phase])
BY DEF RequestObjects, ObjectOK, Past, Sanctioned

----------------------------------------------------------------------------
(* Steps *)

\* A step preserves the invariant when objects only evolve, activation plans
\* appear for sanctioned requests only, copies are taken from the objects, and
\* the reconciles that move are in order.
LEMMA Preserved ==
    ASSUME IInv, TypeOK',
           access'.accepted => access'.spec.bundle # {},
           \A q \in Requests : ObjectOK(request'[q]) /\ Past(request[q], request'[q]),
           \A q \in Requests : scoped'[q]["Activate"] # "none" =>
               scoped[q]["Activate"] # "none" \/ Sanctioned(request[q]),
           \A w \in Replicas, q \in Requests : seen'[w][q] \in {seen[w][q], request[q]},
           \A w \in Replicas, q \in Requests :
               \/ pc'[w][q] = pc[w][q] /\ job'[w][q] = job[w][q]
               \/ JobOK(pc'[w][q], job'[w][q], request[q])
    PROVE  IInv'
<1>1. StoreOK'
  <2>1. \A q \in Requests : scoped'[q]["Activate"] # "none" => Sanctioned(request[q])
    BY DEF IInv, StoreOK
  <2>2. \A q \in Requests : scoped'[q]["Activate"] # "none" => Sanctioned(request'[q])
    BY <2>1, SanctionStays
  <2> QED BY <2>2 DEF StoreOK
<1>2. ASSUME NEW w \in Replicas, NEW q \in Requests
      PROVE  /\ ObjectOK(seen'[w][q]) /\ Past(seen'[w][q], request'[q])
             /\ JobOK(pc'[w][q], job'[w][q], request'[q])
  <2>1. ObjectOK(seen'[w][q]) /\ Past(seen'[w][q], request[q])
    BY PastSelf DEF IInv, StoreOK, CopiesOK
  <2>2. JobOK(pc'[w][q], job'[w][q], request[q])
    BY DEF IInv, CopiesOK
  <2>3. Past(request[q], request'[q])
    OBVIOUS
  <2>4. Past(seen'[w][q], request'[q])
    BY <2>1, <2>3, PastTrans
  <2>5. pc'[w][q] # "idle" => Past(job'[w][q].snap, request'[q])
    BY <2>2, <2>3, PastTrans DEF JobOK
  <2>6. JobOK(pc'[w][q], job'[w][q], request'[q])
    BY <2>2, <2>5 DEF JobOK
  <2> QED BY <2>1, <2>4, <2>6
<1>3. CopiesOK'
  BY <1>2 DEF CopiesOK
<1> QED BY <1>1, <1>3 DEF IInv

\* A step of the reconcile of a request.
LEMMA HandlerMoves ==
    ASSUME IInv, NEW w \in Replicas, NEW q \in Requests, NEW s \in Steps, NEW j \in Jobs,
           pc' = [pc EXCEPT ![w][q] = s], job' = [job EXCEPT ![w][q] = j],
           lock' \in (Replicas \X Requests) \cup Replicas \cup {NoOne},
           request' \in [Requests -> RequestObjects],
           scoped' \in [Requests -> [Operations -> ScopedPhases]],
           members' \subseteq Roles,
           UNCHANGED world,
           \A r \in Requests : ObjectOK(request'[r]) /\ Past(request[r], request'[r]),
           \A r \in Requests : scoped'[r]["Activate"] # "none" =>
               scoped[r]["Activate"] # "none" \/ Sanctioned(request[r]),
           JobOK(s, j, request[q])
    PROVE  IInv'
<1>1. TypeOK'
  BY DEF IInv, TypeOK, world
<1>2. \A v \in Replicas, r \in Requests :
         \/ pc'[v][r] = pc[v][r] /\ job'[v][r] = job[v][r]
         \/ JobOK(pc'[v][r], job'[v][r], request[r])
  BY DEF IInv, TypeOK
<1>3. access' = access /\ seen' = seen
  BY DEF world
<1>4. access'.accepted => access'.spec.bundle # {}
  BY <1>3 DEF IInv, StoreOK
<1> QED BY <1>1, <1>2, <1>3, <1>4, Preserved

\* The reconcile of a request moves and nothing else does.
LEMMA JobMoves ==
    ASSUME IInv, NEW w \in Replicas, NEW q \in Requests, NEW s \in Steps, NEW j \in Jobs,
           pc' = [pc EXCEPT ![w][q] = s], job' = [job EXCEPT ![w][q] = j],
           lock' \in (Replicas \X Requests) \cup Replicas \cup {NoOne},
           UNCHANGED <<request, scoped, members, world>>,
           JobOK(s, j, request[q])
    PROVE  IInv'
<1>1. /\ request' = request /\ scoped' = scoped /\ members' = members /\ UNCHANGED world
  OBVIOUS
<1>2. \A r \in Requests : ObjectOK(request'[r]) /\ Past(request[r], request'[r])
  BY <1>1, PastSelf DEF IInv, StoreOK
<1>3. /\ request' \in [Requests -> RequestObjects] /\ members' \subseteq Roles
      /\ scoped' \in [Requests -> [Operations -> ScopedPhases]]
  BY <1>1 DEF IInv, TypeOK
<1> QED BY <1>1, <1>2, <1>3, HandlerMoves

\* Whatever a reconcile leaves with is in order.
LEMMA LeaveMoves ==
    ASSUME IInv, NEW w \in Replicas, NEW q \in Requests, Leave(w, q),
           UNCHANGED <<request, scoped, members, world>>
    PROVE  IInv'
<1>1. NoJob \in Jobs
  BY DEF NoJob, Jobs, NoRequest, RequestObjects, Phases, Modes, Decisions, Operations
<1>2. "idle" \in Steps /\ JobOK("idle", NoJob, request[q])
  BY DEF Steps, JobOK
<1>3. lock' \in (Replicas \X Requests) \cup Replicas \cup {NoOne}
  BY DEF Leave, IInv, TypeOK
<1> QED BY <1>1, <1>2, <1>3, JobMoves DEF Leave

\* So is a step to s with locals j, when they are.
LEMMA ContinueMoves ==
    ASSUME IInv, NEW w \in Replicas, NEW q \in Requests, NEW s \in Steps, NEW j \in Jobs,
           Continue(w, q, s, j), JobOK(s, j, request[q]),
           UNCHANGED <<request, scoped, members, world>>
    PROVE  IInv'
<1>1. lock' \in (Replicas \X Requests) \cup Replicas \cup {NoOne}
  BY DEF Continue, IInv, TypeOK
<1> QED BY <1>1, JobMoves DEF Continue

\* A running reconcile and its locals are in order.
LEMMA Running ==
    ASSUME IInv, NEW w \in Replicas, NEW q \in Requests
    PROVE  /\ request[q] \in RequestObjects /\ seen[w][q] \in RequestObjects
           /\ pc[w][q] \in Steps /\ job[w][q] \in Jobs
           /\ job[w][q].snap \in RequestObjects /\ job[w][q].write \in RequestObjects
           /\ job[w][q].op \in Operations
           /\ JobOK(pc[w][q], job[w][q], request[q])
           /\ ObjectOK(request[q])
<1>1. job[w][q] \in Jobs
  BY DEF IInv, TypeOK
<1>2. /\ job[w][q].snap \in RequestObjects /\ job[w][q].write \in RequestObjects
      /\ job[w][q].op \in Operations
  BY <1>1 DEF Jobs
<1>3. /\ request[q] \in RequestObjects /\ seen[w][q] \in RequestObjects /\ pc[w][q] \in Steps
  BY DEF IInv, TypeOK
<1>4. JobOK(pc[w][q], job[w][q], request[q]) /\ ObjectOK(request[q])
  BY DEF IInv, StoreOK, CopiesOK
<1> QED BY <1>1, <1>2, <1>3, <1>4

\* Setting out to write another phase.
LEMMA EnterMoves ==
    ASSUME IInv, NEW w \in Replicas, NEW q \in Requests,
           NEW phase \in Phases \ {"Applying", "PendingApproval"},
           pc[w][q] # "idle", job[w][q].snap.phase \notin TerminalPhases,
           Enter(w, q, phase), UNCHANGED <<request, scoped, members, world>>
    PROVE  IInv'
<1> DEFINE j == [job[w][q] EXCEPT !.write = [job[w][q].snap EXCEPT !.phase = phase]]
<1>1. ObjectOK(job[w][q].snap) /\ Past(job[w][q].snap, request[q])
  BY Running DEF JobOK
<1>2. /\ j \in Jobs /\ j.snap = job[w][q].snap /\ j.op = job[w][q].op
      /\ j.write = [job[w][q].snap EXCEPT !.phase = phase]
  BY <1>1, Running, PhaseWrite DEF Jobs
<1>3. ObjectOK(j.write) /\ Past(j.snap, j.write)
  BY <1>1, <1>2, Running, PhaseWrite
<1>4. "transition" \in Steps /\ JobOK("transition", j, request[q])
  BY <1>1, <1>2, <1>3 DEF JobOK, Steps, ScopedSteps
<1>5. Continue(w, q, "transition", j)
  BY DEF Enter
<1> HIDE DEF j
<1> QED BY <1>2, <1>4, <1>5, ContinueMoves

\* Setting out to revoke and then write another phase.
LEMMA RevokeFirstMoves ==
    ASSUME IInv, NEW w \in Replicas, NEW q \in Requests,
           NEW phase \in Phases \ {"Applying", "PendingApproval"},
           NEW step \in {"scoped", "provenance"},
           pc[w][q] # "idle", job[w][q].snap.phase \notin TerminalPhases,
           RevokeFirst(w, q, step, phase), UNCHANGED <<request, scoped, members, world>>
    PROVE  IInv'
<1> DEFINE j == [job[w][q] EXCEPT !.op = "Revoke",
                                  !.write = [job[w][q].snap EXCEPT !.phase = phase]]
<1>1. ObjectOK(job[w][q].snap) /\ Past(job[w][q].snap, request[q])
  BY Running DEF JobOK
<1>2. /\ j \in Jobs /\ j.snap = job[w][q].snap /\ j.op = "Revoke"
      /\ j.write = [job[w][q].snap EXCEPT !.phase = phase]
  BY <1>1, Running, PhaseWrite DEF Jobs, Operations
<1>3. ObjectOK(j.write) /\ Past(j.snap, j.write)
  BY <1>1, <1>2, Running, PhaseWrite
<1>4. j.write.phase = phase
  BY <1>2, Running DEF RequestObjects
<1>5. step \in Steps /\ JobOK(step, j, request[q])
  BY <1>1, <1>2, <1>3, <1>4 DEF JobOK, Steps, ScopedSteps
<1>6. Continue(w, q, step, j)
  BY DEF RevokeFirst
<1> HIDE DEF j
<1> QED BY <1>2, <1>5, <1>6, ContinueMoves

----------------------------------------------------------------------------
(* reconcile_access_request_apply and _cleanup *)

\* A request is dispatched as the replica has seen it.
LEMMA BeginMoves ==
    ASSUME IInv, NEW w \in Replicas, NEW q \in Requests, Begin(w, q)
    PROVE  IInv'
<1> DEFINE j == [NoJob EXCEPT !.snap = seen[w][q], !.write = seen[w][q]]
<1>1. j \in Jobs /\ j.snap = seen[w][q] /\ j.write = seen[w][q]
  BY Running DEF NoJob, Jobs, Operations
<1>2. ObjectOK(seen[w][q]) /\ Past(seen[w][q], request[q])
  BY DEF IInv, CopiesOK
<1>3. "started" \in Steps /\ JobOK("started", j, request[q])
  BY <1>1, <1>2, PastSelf DEF JobOK, Steps, ScopedSteps
<1>4. Continue(w, q, "started", j) /\ UNCHANGED <<request, scoped, members, world>>
  BY DEF Begin
<1> HIDE DEF j
<1> QED BY <1>1, <1>3, <1>4, ContinueMoves

\* The bundle is resolved, under the mode the policy has now.
LEMMA ResolveMoves ==
    ASSUME IInv, NEW w \in Replicas, NEW q \in Requests, Resolve(w, q)
    PROVE  IInv'
<1> DEFINE snap == job[w][q].snap
           r == [snap EXCEPT
                    !.resolved = access.spec.bundle,
                    !.underMode = access.spec.mode,
                    !.phase = IF access.spec.mode = "Automatic" THEN "Applying" ELSE "PendingApproval",
                    !.approveBy = now + PendingTTL,
                    !.expires = IF access.spec.mode = "Automatic" THEN now + Duration ELSE 0]
           j == [job[w][q] EXCEPT !.write = r]
<1>1. UNCHANGED <<request, scoped, members, world>>
  BY DEF Resolve
<1>2. CASE Leave(w, q)
  BY <1>1, <1>2, LeaveMoves
<1>3. CASE Resolvable /\ Continue(w, q, "label", j)
  <2>1. /\ access.spec.bundle \in SUBSET Roles /\ access.spec.bundle # {}
        /\ access.spec.mode \in {"Automatic", "Required"}
    BY <1>3 DEF IInv, TypeOK, StoreOK, Resolvable, AllAccessSpecs
  <2>2. now + PendingTTL \in Nat /\ now + Duration \in Nat
    BY EphemeralAssumption DEF IInv, TypeOK
  <2>3. pc[w][q] = "started" /\ snap.resolved = {} /\ snap.phase \notin TerminalPhases
    BY DEF Resolve, Dispatched
  <2>4. ObjectOK(snap) /\ Past(snap, request[q]) /\ snap \in RequestObjects
    BY <2>3, Running DEF JobOK
  <2>5. r \in RequestObjects
    BY <2>1, <2>2, <2>4 DEF RequestObjects, Phases, LivePhases, Modes
  <2>6. ObjectOK(r)
    BY <2>1, <2>4 DEF RequestObjects, ObjectOK, Sanctioned
  <2>7. Past(snap, r)
    BY <2>3, <2>4 DEF RequestObjects, ObjectOK, Past
  <2>8. j \in Jobs /\ j.snap = snap /\ j.write = r
    BY <2>5, Running DEF Jobs
  <2>9. "label" \in Steps /\ JobOK("label", j, request[q])
    BY <2>3, <2>4, <2>6, <2>7, <2>8 DEF JobOK, Steps, ScopedSteps
  <2> HIDE DEF j, r, snap
  <2> QED BY <1>1, <1>3, <2>8, <2>9, ContinueMoves
<1> QED BY <1>2, <1>3 DEF Resolve

\* Reconciles that change nothing.
LEMMA RestMoves ==
    ASSUME IInv, NEW w \in Replicas, NEW q \in Requests, Rest(w, q) \/ Unresolvable(w, q)
    PROVE  IInv'
BY LeaveMoves DEF Rest, Unresolvable

\* A denial is written as a phase, after a revocation where one may be due.
LEMMA DenyMoves ==
    ASSUME IInv, NEW w \in Replicas, NEW q \in Requests, Deny(w, q)
    PROVE  IInv'
<1>1. /\ pc[w][q] # "idle" /\ job[w][q].snap.phase \notin TerminalPhases
      /\ UNCHANGED <<request, scoped, members, world>>
  BY DEF Deny, Dispatched
<1>2. "Denied" \in Phases \ {"Applying", "PendingApproval"}
  BY DEF Phases, TerminalPhases
<1>3. \/ RevokeFirst(w, q, "scoped", "Denied") \/ RevokeFirst(w, q, "provenance", "Denied")
      \/ Enter(w, q, "Denied")
  BY DEF Deny
<1> QED BY <1>1, <1>2, <1>3, EnterMoves, RevokeFirstMoves

\* So is a cancellation.
LEMMA CancelMoves ==
    ASSUME IInv, NEW w \in Replicas, NEW q \in Requests, Cancel(w, q)
    PROVE  IInv'
<1>1. /\ pc[w][q] # "idle" /\ job[w][q].snap.phase \notin TerminalPhases
      /\ UNCHANGED <<request, scoped, members, world>>
  BY DEF Cancel, Reassessed, Dispatched
<1>2. "Cancelled" \in Phases \ {"Applying", "PendingApproval"}
  BY DEF Phases, TerminalPhases
<1>3. RevokeFirst(w, q, "provenance", "Cancelled") \/ Enter(w, q, "Cancelled")
  BY DEF Cancel
<1> QED BY <1>1, <1>2, <1>3, EnterMoves, RevokeFirstMoves

\* The deadline is written as a phase.
LEMMA ExpireMoves ==
    ASSUME IInv, NEW w \in Replicas, NEW q \in Requests, Expire(w, q)
    PROVE  IInv'
<1>1. /\ pc[w][q] # "idle" /\ job[w][q].snap.phase \notin TerminalPhases
      /\ Enter(w, q, "Revoking") /\ UNCHANGED <<request, scoped, members, world>>
  BY DEF Expire, Dispatched
<1>2. "Revoking" \in Phases \ {"Applying", "PendingApproval"}
  BY DEF Phases
<1> QED BY <1>1, <1>2, EnterMoves

\* Revocation at the deadline.
LEMMA StartRevokingMoves ==
    ASSUME IInv, NEW w \in Replicas, NEW q \in Requests, StartRevoking(w, q)
    PROVE  IInv'
<1>1. /\ pc[w][q] # "idle" /\ job[w][q].snap.phase \notin TerminalPhases
      /\ RevokeFirst(w, q, "scoped", "Ended") /\ UNCHANGED <<request, scoped, members, world>>
  BY DEF StartRevoking, Dispatched
<1>2. "Ended" \in Phases \ {"Applying", "PendingApproval"}
  BY DEF Phases, TerminalPhases
<1> QED BY <1>1, <1>2, RevokeFirstMoves

\* A request becomes Applying only on an approval, and its deadline is set then.
LEMMA AwaitMoves ==
    ASSUME IInv, NEW w \in Replicas, NEW q \in Requests, Await(w, q)
    PROVE  IInv'
<1> DEFINE snap == job[w][q].snap
           r == [snap EXCEPT !.phase = "Applying", !.expires = now + Duration]
           j == [job[w][q] EXCEPT !.write = r]
<1>1. /\ pc[w][q] = "started" /\ snap.phase \notin TerminalPhases /\ snap.phase = "PendingApproval"
      /\ UNCHANGED <<request, scoped, members, world>>
  BY DEF Await, Reassessed, Dispatched
<1>2. CASE Leave(w, q)
  BY <1>1, <1>2, LeaveMoves
<1>3. CASE Enter(w, q, "ApprovalExpired")
  <2>1. "ApprovalExpired" \in Phases \ {"Applying", "PendingApproval"}
    BY DEF Phases, TerminalPhases
  <2> QED BY <1>1, <1>3, <2>1, EnterMoves
<1>4. CASE snap.decision = "Approved" /\ Continue(w, q, "transition", j)
  <2>1. ObjectOK(snap) /\ Past(snap, request[q]) /\ snap \in RequestObjects
    BY <1>1, Running DEF JobOK
  <2>2. now + Duration \in Nat
    BY EphemeralAssumption DEF IInv, TypeOK
  <2>3. r \in RequestObjects
    BY <2>1, <2>2 DEF RequestObjects, Phases, LivePhases
  <2>4. snap.resolved # {} /\ snap.expires = 0
    BY <1>1, <2>1 DEF Await, Reassessed, ObjectOK
  <2>5. ObjectOK(r)
    BY <1>4, <2>1, <2>4 DEF RequestObjects, ObjectOK, Sanctioned
  <2>6. Past(snap, r)
    BY <2>1, <2>4 DEF RequestObjects, Past
  <2>7. j \in Jobs /\ j.snap = snap /\ j.write = r
    BY <2>3, Running DEF Jobs
  <2>8. "transition" \in Steps /\ JobOK("transition", j, request[q])
    BY <1>1, <2>1, <2>5, <2>6, <2>7 DEF JobOK, Steps, ScopedSteps
  <2> HIDE DEF j, r, snap
  <2> QED BY <1>1, <1>4, <2>7, <2>8, ContinueMoves
<1> QED BY <1>2, <1>3, <1>4 DEF Await

\* Memberships are granted for a request that is Applying, hence sanctioned.
LEMMA ApplyMoves ==
    ASSUME IInv, NEW w \in Replicas, NEW q \in Requests, Apply(w, q)
    PROVE  IInv'
<1> DEFINE snap == job[w][q].snap
           r == [snap EXCEPT !.phase = "Active"]
           j == [job[w][q] EXCEPT !.op = "Activate", !.write = r]
<1>1. /\ pc[w][q] = "started" /\ snap.phase \notin TerminalPhases /\ snap.phase = "Applying"
      /\ UNCHANGED <<request, scoped, members, world>>
  BY DEF Apply, Reassessed, Dispatched
<1>2. CASE Leave(w, q)
  BY <1>1, <1>2, LeaveMoves
<1>3. CASE RevokeFirst(w, q, "provenance", "Ended")
  <2>1. "Ended" \in Phases \ {"Applying", "PendingApproval"}
    BY DEF Phases, TerminalPhases
  <2> QED BY <1>1, <1>3, <2>1, RevokeFirstMoves
<1>4. CASE Continue(w, q, "scoped", j)
  <2>1. ObjectOK(snap) /\ Past(snap, request[q]) /\ snap \in RequestObjects
    BY <1>1, Running DEF JobOK
  <2>2. Sanctioned(snap)
    BY <1>1, <2>1 DEF ObjectOK
  <2>3. "Active" \in Phases \ {"Applying", "PendingApproval"}
    BY DEF Phases, LivePhases
  <2>4. r \in RequestObjects /\ ObjectOK(r) /\ Past(snap, r)
    BY <2>1, <2>3, PhaseWrite
  <2>5. j \in Jobs /\ j.snap = snap /\ j.write = r
    BY <2>4, Running DEF Jobs, Operations
  <2>6. "scoped" \in Steps /\ JobOK("scoped", j, request[q])
    BY <1>1, <2>1, <2>2, <2>4, <2>5 DEF JobOK, Steps, ScopedSteps
  <2> HIDE DEF j, r, snap
  <2> QED BY <1>1, <1>4, <2>5, <2>6, ContinueMoves, SMTT(30)
<1> QED BY <1>2, <1>3, <1>4 DEF Apply

\* Deletion revokes what may have been granted, or has nothing to do.
LEMMA CleanupMoves ==
    ASSUME IInv, NEW w \in Replicas, NEW q \in Requests, Cleanup(w, q)
    PROVE  IInv'
<1>1. pc[w][q] = "started" /\ UNCHANGED <<request, scoped, members, world>>
  BY DEF Cleanup
<1>2. CASE /\ job[w][q].snap.phase \in {"Applying", "Active", "Revoking"}
           /\ RevokeFirst(w, q, "provenance", "Revoked")
  <2>1. "Revoked" \in Phases \ {"Applying", "PendingApproval"}
    BY DEF Phases, TerminalPhases
  <2>2. job[w][q].snap.phase \notin TerminalPhases
    BY <1>2 DEF TerminalPhases
  <2> QED BY <1>1, <1>2, <2>1, <2>2, RevokeFirstMoves
<1>3. CASE Continue(w, q, "unfinalize", job[w][q])
  <2>1. "unfinalize" \in Steps /\ JobOK("unfinalize", job[w][q], request[q])
    BY <1>1, Running DEF JobOK, Steps, ScopedSteps
  <2> QED BY <1>1, <1>3, <2>1, Running, ContinueMoves
<1> QED BY <1>2, <1>3 DEF Cleanup

\* Whatever the plans show, only a revocation follows.
LEMMA CheckProvenanceMoves ==
    ASSUME IInv, NEW w \in Replicas, NEW q \in Requests, CheckProvenance(w, q)
    PROVE  IInv'
<1>1. pc[w][q] = "provenance" /\ UNCHANGED <<request, scoped, members, world>>
  BY DEF CheckProvenance
<1>2. /\ job[w][q].snap.phase \notin TerminalPhases /\ job[w][q].op = "Revoke"
      /\ job[w][q].write.phase \in Phases \ {"Applying", "PendingApproval"}
  BY <1>1, Running DEF JobOK, RequestObjects
<1>3. ASSUME NEW s \in {"scoped", "unfinalize"}, Continue(w, q, s, job[w][q])
      PROVE  IInv'
  <2>1. s \in Steps /\ JobOK(s, job[w][q], request[q])
    BY <1>1, <1>2, Running DEF JobOK, Steps, ScopedSteps
  <2> QED BY <1>1, <1>3, <2>1, Running, ContinueMoves
<1>4. CASE Enter(w, q, IF job[w][q].write.phase = "Ended" THEN "Cancelled" ELSE job[w][q].write.phase)
  <2>1. "Cancelled" \in Phases \ {"Applying", "PendingApproval"}
    BY DEF Phases, TerminalPhases
  <2> QED BY <1>1, <1>2, <1>4, <2>1, EnterMoves
<1> QED BY <1>3, <1>4 DEF CheckProvenance
=============================================================================
