--------------------------- MODULE OutcomeProofs ---------------------------
(***************************************************************************)
(* Proofs about what Reconciler reports and whose objects it writes, for   *)
(* all values of its constants that satisfy the hypotheses of a theorem.   *)
(***************************************************************************)
EXTENDS ReconcilerProofs

-----------------------------------------------------------------------------
(* The policies processes know *)

\* A reconcile keeps the policy it was called with, the one in the store at its start.
KeepsPolicy(i) ==
    \/ rec'[i].pc = "idle"
    \/ rec[i].pc # "idle" /\ rec'[i].pol = rec[i].pol
    \/ store[i] # None /\ rec'[i].pol = store[i]

LEMMA MoverKeepsPolicy ==
    ASSUME NEW i \in Instances, NEW j \in Instances, OnlyAt(j), GoesOn(j) \/ Returns(j)
    PROVE  KeepsPolicy(i)
<1>1. CASE i = j
  BY <1>1 DEF GoesOn, Returns, KeepsPolicy
<1>2. CASE i # j
  BY <1>2 DEF OnlyAt, KeepsPolicy
<1>. QED BY <1>1, <1>2

LEMMA PoliciesKept ==
    ASSUME TypedInv, [Next]_vars, NEW i \in Instances
    PROVE  KeepsPolicy(i)
<1>1. CASE UNCHANGED rec
  BY <1>1 DEF KeepsPolicy
<1>2. ASSUME NEW j \in Instances, Start(j) PROVE KeepsPolicy(i)
  BY <1>2 DEF Start, KeepsPolicy, TypedInv, RecOK
<1>3. ASSUME NEW j \in Instances, CleanupEvent(j) \/ Crash(j) PROVE KeepsPolicy(i)
  BY <1>3 DEF CleanupEvent, Crash, Finish, Idle, KeepsPolicy, TypedInv, RecOK
<1>4. ASSUME NEW j \in Instances, Reconcile(j) PROVE KeepsPolicy(i)
  <2>1. CASE StartMissing(j)
    BY <2>1, <1>1 DEF StartMissing
  <2>. QED BY <1>2, <1>3, <1>4, <2>1, QuietStepsMove, WriteStepsMove, MoverKeepsPolicy DEF Reconcile
<1>5. CASE Disruption
  <2>1. ASSUME NEW t \in Tasks, TaskPatch(t, "lost") \/ TaskFails(t) PROVE UNCHANGED rec
    BY <2>1 DEF TaskPatch, TaskFails
  <2>. QED BY <1>1, <1>3, <1>5, <2>1, QuietStepsMove, WriteStepsMove, MoverKeepsPolicy DEF Disruption
<1>6. ASSUME NEW j \in Instances, DeliverPolicy(j) \/ DeliverNetpol(j) \/ TimerFires(j)
      PROVE  UNCHANGED rec
  BY <1>6 DEF DeliverPolicy, DeliverNetpol, TimerFires
<1>7. ASSUME NEW t \in Tasks, HandleFailure(t) PROVE UNCHANGED rec
  BY <1>7 DEF HandleFailure, TaskRead, TaskPatch, TaskPatchMissing, TaskReport
<1>8. CASE GarbageCollect \/ Environment
  BY <1>1, <1>8 DEF GarbageCollect, Environment, CreatePolicy, UpdateSpec, MarkDeleting, RemovePolicy,
     UserEdit, RemoteChange
<1>9. CASE UNCHANGED vars
  BY <1>1, <1>9 DEF vars
<1>. QED BY <1>1, <1>4, <1>5, <1>6, <1>7, <1>8, <1>9 DEF Next, Work

\* A policy stays the object it is until it is removed, and one that is created has the next uid.
SamePolicy == policy' # None => policy # None /\ policy'.uid = policy.uid
NewPolicy == policy'.uid = lastUid + 1 /\ lastUid' = lastUid + 1

\* A store follows the API server.
FollowsPolicy(i) == store'[i] \in {store[i], policy, None}

LEMMA PolicySteps ==
    ASSUME TypedInv, [Next]_vars
    PROVE  /\ (SamePolicy /\ UNCHANGED lastUid) \/ NewPolicy
           /\ \A i \in Instances : FollowsPolicy(i)
<1>1. CASE UNCHANGED <<policy, lastUid, store>>
  BY <1>1 DEF SamePolicy, FollowsPolicy
<1>2. ASSUME NEW j \in Instances, Reconcile(j) PROVE UNCHANGED <<policy, lastUid, store>>
  BY <1>2 DEF Reconcile, StartMissing, Start, RejectSpec, FetchPointer, Fetch, GetNetpol,
     ReportCollision, ApplyNetpol, ApplyRefused, PatchStatus, PatchStatusMissing, PublishOutcome,
     CleanupDelete, CleanupEvent, cluster, runtime
<1>3. ASSUME NEW t \in Tasks, HandleFailure(t) PROVE UNCHANGED <<policy, lastUid, store>>
  BY <1>3 DEF HandleFailure, TaskRead, TaskPatch, TaskPatchMissing, TaskReport, cluster, runtime
<1>4. ASSUME NEW j \in Instances, DeliverPolicy(j) \/ Crash(j)
      PROVE  UNCHANGED <<policy, lastUid>> /\ \A i \in Instances : FollowsPolicy(i)
  BY <1>4 DEF DeliverPolicy, Crash, cluster, FollowsPolicy, TypedInv, RuntimeOK
<1>5. ASSUME NEW j \in Instances, DeliverNetpol(j) \/ TimerFires(j)
      PROVE  UNCHANGED <<policy, lastUid, store>>
  BY <1>5 DEF DeliverNetpol, TimerFires, cluster
<1>6. ASSUME Disruption, \A i \in Instances : ~Crash(i)
      PROVE  UNCHANGED <<policy, lastUid, store>>
  BY <1>6 DEF Disruption, ApplyNetpol, PatchStatus, CleanupDelete, CallFails, TaskPatch, TaskFails,
     cluster, runtime
<1>7. CASE GarbageCollect \/ UserEdit \/ \E src \in Sources : RemoteChange(src)
  BY <1>1, <1>7 DEF GarbageCollect, UserEdit, RemoteChange, runtime
<1>8. CASE \/ \E s \in Specs : CreatePolicy(s) \/ UpdateSpec(s)
           \/ MarkDeleting \/ RemovePolicy
  <2>1. \A i \in Instances : FollowsPolicy(i)
    BY <1>8 DEF CreatePolicy, UpdateSpec, MarkDeleting, RemovePolicy, FollowsPolicy
  <2>2. ASSUME NEW s \in Specs, CreatePolicy(s) PROVE NewPolicy
    BY <2>2 DEF CreatePolicy, NewPolicy
  <2>3. ASSUME NEW s \in Specs, UpdateSpec(s) PROVE SamePolicy /\ UNCHANGED lastUid
    BY <2>3 DEF UpdateSpec, SamePolicy, TypedInv, ClusterOK, Policies
  <2>4. CASE MarkDeleting
    BY <2>1, <2>4 DEF MarkDeleting, SamePolicy, TypedInv, ClusterOK, Policies
  <2>5. CASE RemovePolicy
    BY <2>1, <2>5 DEF RemovePolicy, SamePolicy
  <2>. QED BY <1>8, <2>1, <2>2, <2>3, <2>4, <2>5
<1>9. CASE UNCHANGED vars
  BY <1>1, <1>9 DEF vars
<1>10. CASE \E j \in Instances : DeliverPolicy(j) \/ Crash(j)
  BY <1>4, <1>10 DEF SamePolicy
<1>. QED BY <1>1, <1>2, <1>3, <1>5, <1>6, <1>7, <1>8, <1>9, <1>10 DEF Next, Work, Disruption, Environment

LEMMA UidsTyped ==
    ASSUME TypedInv
    PROVE  /\ lastUid \in Nat /\ Uids \subseteq Nat
           /\ policy # None => policy.uid \in Uids
           /\ \A i \in Instances : /\ store[i] # None => store[i].uid \in Uids
                                   /\ rec[i].pc # "idle" => rec[i].pol.uid \in Uids
  BY ReconcilerAssumption, RecordTyped DEF TypedInv, ClusterOK, RuntimeOK, Policies, Uids

\* The uid of a new policy is larger than any that is still known.
LEMMA UidsInductive ==
    ASSUME TypedInv, UidsAreGiven, [Next]_vars
    PROVE  UidsAreGiven'
<1>1. lastUid \in Nat /\ lastUid' \in Nat /\ lastUid <= lastUid'
  BY PolicySteps, UidsTyped DEF NewPolicy
<1>2. policy' # None => policy'.uid <= lastUid'
  <2>1. CASE SamePolicy /\ UNCHANGED lastUid
    BY <2>1 DEF SamePolicy, UidsAreGiven
  <2>2. CASE NewPolicy
    BY <2>2, <1>1 DEF NewPolicy
  <2>. QED BY <2>1, <2>2, PolicySteps
<1>3. ASSUME NEW i \in Instances, store'[i] # None PROVE store'[i].uid <= lastUid'
  <2>1. store'[i] \in {store[i], policy}
    BY <1>3, PolicySteps DEF FollowsPolicy
  <2>2. store'[i].uid \in Uids /\ store'[i].uid <= lastUid
    BY <1>3, <2>1, UidsTyped DEF UidsAreGiven
  <2>. QED BY <1>1, <2>2, UidsTyped
<1>4. ASSUME NEW i \in Instances, rec'[i].pc # "idle" PROVE rec'[i].pol.uid <= lastUid'
  <2>1. \/ rec[i].pc # "idle" /\ rec'[i].pol = rec[i].pol
        \/ store[i] # None /\ rec'[i].pol = store[i]
    BY <1>4, PoliciesKept DEF KeepsPolicy
  <2>2. rec'[i].pol.uid \in Uids /\ rec'[i].pol.uid <= lastUid
    BY <2>1, UidsTyped DEF UidsAreGiven
  <2>. QED BY <1>1, <2>2, UidsTyped
<1>. QED BY <1>2, <1>3, <1>4 DEF UidsAreGiven

LEMMA UidsInit == Init => UidsAreGiven
  BY DEF Init, UidsAreGiven, Idle

-----------------------------------------------------------------------------
(* Collisions are warned of *)

Collision == "managed-policy-collision"

LEMMA EventsGrow ==
    ASSUME [Next]_vars
    PROVE  events \subseteq events'
<1>1. ASSUME NEW i \in Instances, Reconcile(i) PROVE events \subseteq events'
  BY <1>1 DEF Reconcile, StartMissing, Start, RejectSpec, FetchPointer, Fetch, GetNetpol,
     ReportCollision, ApplyNetpol, ApplyRefused, PatchStatus, PatchStatusMissing, PublishOutcome,
     CleanupDelete, CleanupEvent, Publish, cluster
<1>2. ASSUME NEW t \in Tasks, HandleFailure(t) PROVE events \subseteq events'
  BY <1>2 DEF HandleFailure, TaskRead, TaskPatch, TaskPatchMissing, TaskReport, Publish, cluster
<1>3. ASSUME NEW i \in Instances, DeliverPolicy(i) \/ DeliverNetpol(i) \/ TimerFires(i)
      PROVE  UNCHANGED events
  BY <1>3 DEF DeliverPolicy, DeliverNetpol, TimerFires, cluster
<1>4. CASE Disruption
  BY <1>4 DEF Disruption, ApplyNetpol, PatchStatus, CleanupDelete, CallFails, Crash, TaskPatch,
     TaskFails, cluster
<1>5. CASE GarbageCollect \/ Environment
  BY <1>5 DEF GarbageCollect, Environment, CreatePolicy, UpdateSpec, MarkDeleting, RemovePolicy,
     UserEdit, RemoteChange
<1>6. CASE UNCHANGED vars
  BY <1>6 DEF vars
<1>. QED BY <1>1, <1>2, <1>3, <1>4, <1>5, <1>6 DEF Next, Work

\* A warning once given is there for good.
LEMMA WarnedStays ==
    ASSUME TypedInv, Warned, [Next]_vars
    PROVE  Warned'
<1>1. lastUid \in Nat /\ lastUid' \in Nat /\ lastUid <= lastUid'
  BY PolicySteps, UidsTyped DEF NewPolicy
<1>2. PICK uid \in 1 .. lastUid : <<"ManagedPolicyCollision", uid>> \in events
  BY DEF Warned
<1>3. uid \in 1 .. lastUid'
  BY <1>1
<1>. QED BY <1>2, <1>3, EventsGrow DEF Warned

\* A failure is blamed on its own stage and what tasks blame otherwise does not change.
LEMMA FailBlames ==
    ASSUME TypedInv, NEW i \in Instances, NEW stage, Fail(i, stage), NEW t \in Tasks
    PROVE  task'[t].stage \in {task[t].stage, stage}
  BY DEF Fail, Spawn, TypedInv, TaskOK

LEMMA EndTaskBlames ==
    ASSUME TypedInv, NEW t \in Tasks, EndTask(t), NEW u \in Tasks
    PROVE  task'[u].stage \in {task[u].stage, "none"}
  BY DEF EndTask, NoTask, TypedInv, TaskOK

\* What a reconcile fails with, apart from the collision it reports.
LEMMA ReconcileBlames ==
    ASSUME TypedInv, NEW i \in Instances, NEW t \in Tasks, NEW reply,
           \/ Reconcile(i) /\ ~ReportCollision(i)
           \/ ApplyNetpol(i, reply) \/ PatchStatus(i, reply) \/ CleanupDelete(i, reply)
           \/ CallFails(i)
    PROVE  task'[t].stage # Collision \/ task'[t].stage = task[t].stage
<1>1. CASE UNCHANGED task
  BY <1>1
<1>2. ASSUME NEW stage, Fail(i, stage), stage # Collision
      PROVE  task'[t].stage # Collision \/ task'[t].stage = task[t].stage
  BY <1>2, FailBlames
<1>3. CASE Requeue(i) \/ Fail(i, "kubernetes-api")
  BY <1>1, <1>2, <1>3 DEF Requeue, Collision
<1>4. CASE StartMissing(i) \/ Start(i) \/ GetNetpol(i) \/ CleanupEvent(i)
  BY <1>1, <1>4 DEF StartMissing, Start, GetNetpol, CleanupEvent
<1>5. CASE RejectSpec(i)
  <2>1. Defect(rec[i].pol.spec) # Collision
    BY <1>5, RecordTyped, SpecFacts DEF RejectSpec, Collision
  <2>. QED BY <1>2, <1>5, <2>1 DEF RejectSpec
<1>6. CASE FetchPointer(i)
  BY <1>1, <1>2, <1>6 DEF FetchPointer, Collision
<1>7. CASE Fetch(i)
  <2> DEFINE stage == ExtractCidrs(remote[rec[i].source]).stage
  <2>1. rec[i].source \in Sources
    BY <1>7, RecordTyped, SpecFacts DEF Fetch, Sound
  <2>2. remote[rec[i].source] \in Documents(Sources)
    BY <2>1, ReconcilerAssumption DEF TypedInv, ClusterOK
  <2>3. stage # Collision
    BY <2>2, ExtractionIsWhole DEF DocumentStages, Collision
  <2> HIDE DEF stage
  <2>4. Fail(i, stage) \/ Fail(i, "selector-translation") \/ UNCHANGED task
    BY <1>7 DEF Fetch, stage
  <2>. QED BY <1>1, <1>2, <2>3, <2>4 DEF Collision
<1>8. CASE ApplyRefused(i) \/ PatchStatusMissing(i) \/ PublishOutcome(i)
  BY <1>3, <1>8 DEF ApplyRefused, PatchStatusMissing, PublishOutcome
<1>9. ASSUME NEW answer, ApplyNetpol(i, answer) \/ PatchStatus(i, answer) \/ CleanupDelete(i, answer)
      PROVE  task'[t].stage # Collision \/ task'[t].stage = task[t].stage
  BY <1>1, <1>3, <1>9 DEF ApplyNetpol, PatchStatus, CleanupDelete, Answered
<1>10. CASE CallFails(i)
  <2>1. FailureStage(rec[i].pc) # Collision
    BY DEF FailureStage, Collision
  <2>. QED BY <1>2, <1>10, <2>1 DEF CallFails
<1>. QED BY <1>4, <1>5, <1>6, <1>7, <1>8, <1>9, <1>10 DEF Reconcile

LEMMA TaskBlames ==
    ASSUME TypedInv, NEW t \in Tasks, NEW u \in Tasks, NEW reply,
           HandleFailure(t) \/ TaskPatch(t, reply) \/ TaskFails(t)
    PROVE  task'[u].stage # Collision \/ task'[u].stage = task[u].stage
<1>1. CASE EndTask(t)
  BY <1>1, EndTaskBlames DEF Collision
<1>2. CASE \/ task' = [task EXCEPT ![t].pc = "patch", ![t].read = status]
           \/ task' = [task EXCEPT ![t].pc = "report", ![t].read = NoStatus]
  <2>1. task \in [Tasks -> Failures]
    BY DEF TypedInv, TaskOK
  <2>2. task'[u].stage = task[u].stage
    BY <1>2, <2>1 DEF Failures
  <2>. QED BY <2>2
<1>. QED BY <1>1, <1>2
     DEF HandleFailure, TaskRead, TaskPatch, TaskPatchMissing, TaskReport, TaskFails

\* A task comes to blame a collision only when a reconcile has just reported one.
LEMMA BlameSpreads ==
    ASSUME TypedInv, [Next]_vars, NEW t \in Tasks, task'[t].stage = Collision
    PROVE  task[t].stage = Collision \/ \E i \in Instances : ReportCollision(i)
<1>1. CASE UNCHANGED task
  BY <1>1
<1>2. ASSUME NEW i \in Instances, Crash(i) PROVE task[t].stage = Collision
  <2>1. task'[t].stage \in {task[t].stage, "none"}
    BY <1>2 DEF Crash, NoTask
  <2>. QED BY <2>1 DEF Collision
<1>3. CASE Disruption
  BY <1>2, <1>3, ReconcileBlames, TaskBlames DEF Disruption
<1>4. ASSUME NEW i \in Instances, DeliverPolicy(i) \/ DeliverNetpol(i) \/ TimerFires(i)
      PROVE  UNCHANGED task
  BY <1>4 DEF DeliverPolicy, DeliverNetpol, TimerFires
<1>5. CASE GarbageCollect \/ Environment
  BY <1>1, <1>5 DEF GarbageCollect, Environment, CreatePolicy, UpdateSpec, MarkDeleting, RemovePolicy,
     UserEdit, RemoteChange
<1>6. CASE UNCHANGED vars
  BY <1>1, <1>6 DEF vars
<1>. QED BY <1>1, <1>3, <1>4, <1>5, <1>6, ReconcileBlames, TaskBlames DEF Next, Work

\* The status comes to blame what a task blames.
LEMMA StatusBlames ==
    ASSUME [Next]_vars, status'.error = {Collision}
    PROVE  status.error = {Collision} \/ \E t \in Tasks : task[t].stage = Collision
<1>1. CASE UNCHANGED status
  BY <1>1
<1>2. ASSUME NEW i \in Instances, NEW reply, PatchStatus(i, reply) PROVE FALSE
  BY <1>2 DEF PatchStatus
<1>3. ASSUME NEW t \in Tasks, NEW reply, TaskPatch(t, reply) PROVE task[t].stage = Collision
  BY <1>3 DEF TaskPatch
<1>4. ASSUME NEW i \in Instances, Reconcile(i) PROVE UNCHANGED status
  BY <1>2, <1>4 DEF Reconcile, StartMissing, Start, RejectSpec, FetchPointer, Fetch, GetNetpol,
     ReportCollision, ApplyNetpol, ApplyRefused, PatchStatusMissing, PublishOutcome, CleanupDelete,
     CleanupEvent, cluster
<1>5. ASSUME NEW t \in Tasks, HandleFailure(t)
      PROVE  UNCHANGED status \/ task[t].stage = Collision
  BY <1>3, <1>5 DEF HandleFailure, TaskRead, TaskPatchMissing, TaskReport, cluster
<1>6. CASE Disruption
  BY <1>1, <1>2, <1>3, <1>6 DEF Disruption, ApplyNetpol, CleanupDelete, CallFails, Crash, TaskFails,
     cluster
<1>7. ASSUME NEW i \in Instances, DeliverPolicy(i) \/ DeliverNetpol(i) \/ TimerFires(i)
      PROVE  UNCHANGED status
  BY <1>7 DEF DeliverPolicy, DeliverNetpol, TimerFires, cluster
<1>8. CASE GarbageCollect \/ Environment
  BY <1>1, <1>8 DEF GarbageCollect, Environment, CreatePolicy, UpdateSpec, MarkDeleting, RemovePolicy,
     UserEdit, RemoteChange, NoStatus
<1>9. CASE UNCHANGED vars
  BY <1>1, <1>9 DEF vars
<1>. QED BY <1>1, <1>4, <1>5, <1>6, <1>7, <1>8, <1>9 DEF Next, Work

LEMMA BlameInductive ==
    ASSUME "ManagedPolicyCollision" \in RecordedReasons,
           TypedInv, UidsAreGiven, BlameIsWarned, [Next]_vars
    PROVE  BlameIsWarned'
<1>1. ASSUME NEW i \in Instances, ReportCollision(i) PROVE Warned'
  <2>1. rec[i].pc # "idle"
    BY <1>1 DEF ReportCollision
  <2>2. rec[i].pol.uid \in Uids /\ rec[i].pol.uid <= lastUid
    BY <2>1, RecordTyped DEF UidsAreGiven
  <2>3. rec[i].pol.uid \in 1 .. lastUid'
    BY <1>1, <2>2, UidsTyped DEF ReportCollision, Uids
  <2>4. <<"ManagedPolicyCollision", rec[i].pol.uid>> \in events'
    BY <1>1 DEF ReportCollision, Publish
  <2>. QED BY <2>3, <2>4 DEF Warned
<1>2. ASSUME NEW t \in Tasks, task[t].stage = Collision PROVE Warned'
  BY <1>2, WarnedStays DEF BlameIsWarned, Collision
<1>3. ASSUME NEW t \in Tasks, task'[t].stage = Collision PROVE Warned'
  BY <1>1, <1>2, <1>3, BlameSpreads
<1>4. ASSUME status'.error = {Collision} PROVE Warned'
  BY <1>2, <1>4, StatusBlames, WarnedStays DEF BlameIsWarned, Collision
<1>. QED BY <1>3, <1>4 DEF BlameIsWarned, Collision

\* Whenever the status blames a collision, a warning event names a policy of this name that met one:
\* the event is published before the error, and the error before the status. The hypothesis says that
\* the model keeps a record of these events, as the API server does for a while.
THEOREM CollisionsAreWarned ==
    ASSUME "ManagedPolicyCollision" \in RecordedReasons
    PROVE  Spec => []CollisionIsWarned
<1>1. Init => BlameIsWarned
  BY DEF Init, BlameIsWarned, NoStatus, NoTask
<1>2. TypedInv /\ UidsAreGiven /\ BlameIsWarned /\ [Next]_vars => UidsAreGiven' /\ BlameIsWarned'
  BY UidsInductive, BlameInductive
<1>3. BlameIsWarned => CollisionIsWarned
  BY DEF BlameIsWarned, Warned, CollisionIsWarned
<1>. QED BY <1>1, <1>2, <1>3, InitTyped, NextTyped, UidsInit, PTL DEF Spec

-----------------------------------------------------------------------------
(* The steps of a single process *)

OneProcess == \A i, j \in Instances : i = j

\* What may happen to the NetworkPolicy.
LEMMA NetpolChanges ==
    ASSUME [Next]_vars, netpol' # netpol
    PROVE  \/ \E i \in Instances, reply \in {"ok", "lost"} :
                 ApplyNetpol(i, reply) \/ CleanupDelete(i, reply)
           \/ (UserEdit \/ GarbageCollect) /\ UNCHANGED <<rec, policy, lastUid>>
<1>1. ASSUME NEW i \in Instances, Reconcile(i)
      PROVE  ApplyNetpol(i, "ok") \/ CleanupDelete(i, "ok")
  BY <1>1 DEF Reconcile, cluster, StartMissing, Start, RejectSpec, FetchPointer, Fetch, GetNetpol,
     ReportCollision, ApplyRefused, PatchStatus, PatchStatusMissing, PublishOutcome, CleanupEvent
<1>2. ASSUME NEW i \in Instances, DeliverPolicy(i) \/ DeliverNetpol(i) \/ TimerFires(i)
      PROVE  FALSE
  BY <1>2 DEF DeliverPolicy, DeliverNetpol, TimerFires, cluster
<1>3. ASSUME NEW t \in Tasks, HandleFailure(t) PROVE FALSE
  BY <1>3 DEF HandleFailure, TaskRead, TaskPatch, TaskPatchMissing, TaskReport, cluster
<1>4. CASE Environment \/ GarbageCollect
  BY <1>4 DEF Environment, CreatePolicy, UpdateSpec, MarkDeleting, RemovePolicy, UserEdit,
     GarbageCollect, RemoteChange
<1>5. CASE Disruption
  BY <1>5 DEF Disruption, PatchStatus, CallFails, Crash, TaskPatch, TaskFails, cluster
<1>6. ~UNCHANGED vars
  BY DEF vars
<1>. QED BY <1>1, <1>2, <1>3, <1>4, <1>5, <1>6 DEF Next, Work

\* What may happen to the reconcile of the one process there is.
LEMMA RecordChanges ==
    ASSUME OneProcess, [Next]_vars, NEW i \in Instances, rec'[i] # rec[i]
    PROVE  \/ Reconcile(i) \/ CallFails(i) \/ Crash(i)
           \/ ApplyNetpol(i, "lost") \/ PatchStatus(i, "lost") \/ CleanupDelete(i, "lost")
<1>1. \A j \in Instances : j = i
  BY DEF OneProcess
<1>2. ASSUME DeliverPolicy(i) \/ DeliverNetpol(i) \/ TimerFires(i) PROVE FALSE
  BY <1>2 DEF DeliverPolicy, DeliverNetpol, TimerFires
<1>3. ASSUME NEW t \in Tasks, HandleFailure(t) \/ TaskPatch(t, "lost") \/ TaskFails(t) PROVE FALSE
  BY <1>3 DEF HandleFailure, TaskRead, TaskPatch, TaskPatchMissing, TaskReport, TaskFails
<1>4. CASE Environment \/ GarbageCollect
  BY <1>4 DEF Environment, CreatePolicy, UpdateSpec, MarkDeleting, RemovePolicy, UserEdit,
     GarbageCollect, RemoteChange
<1>5. ~UNCHANGED vars
  BY DEF vars
<1>6. CASE Disruption
  BY <1>1, <1>3, <1>6 DEF Disruption
<1>. QED BY <1>1, <1>2, <1>3, <1>4, <1>5, <1>6 DEF Next, Work

\* An error or the end of a reconcile leaves it idle.
LEMMA Ends ==
    ASSUME TypedInv, NEW i \in Instances, NEW stage, NEW when,
           Finish(i, when) \/ Fail(i, stage) \/ Requeue(i)
    PROVE  rec'[i].pc = "idle"
  BY DEF Finish, Fail, Requeue, Idle, TypedInv, RecOK

-----------------------------------------------------------------------------
(* Success is in force *)

\* The ways to the awaits that follow the write of the NetworkPolicy.
LEMMA SuccessSteps ==
    ASSUME OneProcess, TypedInv, [Next]_vars, NEW i \in Instances, rec'[i] # rec[i],
           rec'[i].pc \in {"status", "event"}
    PROVE  \/ GetNetpol(i)
           \/ \E reply : ApplyNetpol(i, reply) \/ PatchStatus(i, reply)
<1>1. ASSUME \/ RejectSpec(i) \/ ReportCollision(i) \/ ApplyRefused(i) \/ PatchStatusMissing(i)
             \/ PublishOutcome(i) \/ CleanupEvent(i) \/ CallFails(i)
      PROVE  rec'[i].pc = "idle"
  BY <1>1, Ends DEF RejectSpec, ReportCollision, ApplyRefused, PatchStatusMissing, PublishOutcome,
     CleanupEvent, CallFails
<1>2. ASSUME StartMissing(i) \/ Start(i) PROVE FALSE
  BY <1>2 DEF StartMissing, Start, FirstAwait, TypedInv, RecOK
<1>3. ASSUME FetchPointer(i) PROVE FALSE
  <2>1. ASSUME NEW final, rec' = [rec EXCEPT ![i].pc = "fetch", ![i].source = final]
        PROVE  rec'[i].pc = "fetch"
    BY <2>1, RecordTyped DEF TypedInv, RecOK, Reconciles
  <2>. QED BY <1>3, <2>1, Ends DEF FetchPointer
<1>4. ASSUME Fetch(i) PROVE FALSE
  <2>1. ASSUME NEW cidrs,
               rec' = [rec EXCEPT ![i].pc = "get", ![i].source = None, ![i].cidrs = cidrs]
        PROVE  rec'[i].pc = "get"
    BY <2>1, RecordTyped DEF TypedInv, RecOK, Reconciles
  <2>. QED BY <1>4, <2>1, Ends DEF Fetch
<1>5. ASSUME NEW reply, CleanupDelete(i, reply) PROVE FALSE
  <2>1. ASSUME Goto(i, "cleanupEvent") PROVE rec'[i].pc = "cleanupEvent"
    BY <2>1, RecordTyped DEF Goto, TypedInv, RecOK, Reconciles
  <2>. QED BY <1>5, <2>1, Ends DEF CleanupDelete, Answered
<1>6. ASSUME Crash(i) PROVE FALSE
  BY <1>6 DEF Crash, Idle, TypedInv, RecOK
<1>. QED BY <1>1, <1>2, <1>3, <1>4, <1>5, <1>6, RecordChanges DEF Reconcile

\* What a reconcile holds when it goes on.
LEMMA GotoKeeps ==
    ASSUME TypedInv, NEW i \in Instances, NEW pc, Goto(i, pc)
    PROVE  rec'[i].pc = pc /\ rec'[i].pol = rec[i].pol /\ rec'[i].cidrs = rec[i].cidrs
<1>1. rec[i] \in Reconciles
  BY RecordTyped
<1>2. rec'[i] = [rec[i] EXCEPT !.pc = pc, !.existing = None]
  BY DEF Goto, TypedInv, RecOK
<1>. QED BY <1>1, <1>2 DEF Reconciles

\* What users may do, as long as they only create an object where there is none, or annotate it.
LEMMA HarmlessEdit ==
    ASSUME TypedInv, UserEdits \subseteq {"create", "annotate"}, UserEdit
    PROVE  \/ netpol = None /\ netpol'.owner \notin Uids
           \/ netpol # None /\ netpol' # None /\ netpol'.marked = netpol.marked
              /\ netpol'.owner = netpol.owner /\ netpol'.spec = netpol.spec
<1>1. PICK edit \in {"create", "annotate"} : \E new \in UserEdited(edit) : SetNetpol(new)
  BY DEF UserEdit
<1>2. PICK new \in UserEdited(edit) : netpol' = new
  BY <1>1 DEF SetNetpol
<1>3. CASE edit = "create"
  <2>1. netpol = None /\ new \in UserNetpols
    BY <1>2, <1>3 DEF UserEdited
  <2>2. new.owner \in {NoOwner, OtherOwner}
    BY <2>1, ReconcilerAssumption
  <2>. QED BY <1>2, <2>1, <2>2, ReconcilerAssumption DEF Uids, NoOwner, OtherOwner
<1>4. CASE edit = "annotate"
  <2>1. netpol \in Netpols /\ new = [netpol EXCEPT !.extra = TRUE]
    BY <1>2, <1>4 DEF UserEdited, TypedInv, ClusterOK
  <2>2. new \in Netpols /\ new.marked = netpol.marked /\ new.owner = netpol.owner
        /\ new.spec = netpol.spec
    BY <2>1 DEF Netpols
  <2>. QED BY <1>2, <2>1, <2>2, ReconcilerAssumption
<1>. QED BY <1>1, <1>3, <1>4

LEMMA StoredInductive ==
    ASSUME TypedInv, StoredAsRead, UserEdits \subseteq {"create", "annotate"}, [Next]_vars
    PROVE  StoredAsRead'
<1>1. CASE netpol' = netpol
  BY <1>1 DEF StoredAsRead, Uids
<1>2. ASSUME NEW i \in Instances, NEW reply, ApplyNetpol(i, reply) PROVE StoredAsRead'
  <2>1. netpol'.spec = Returned(RenderSpec(rec[i].pol.spec, rec[i].cidrs))
    BY <1>2, ApplyWrites DEF ApplyNetpol, SetNetpol
  <2>. QED BY <2>1, ReadTwice DEF StoredAsRead
<1>3. ASSUME NEW i \in Instances, NEW reply, CleanupDelete(i, reply) PROVE StoredAsRead'
  BY <1>3 DEF CleanupDelete, SetNetpol, StoredAsRead
<1>4. CASE GarbageCollect
  BY <1>4 DEF GarbageCollect, SetNetpol, StoredAsRead
<1>5. CASE UserEdit
  BY <1>5, HarmlessEdit DEF StoredAsRead, Uids
<1>. QED BY <1>1, <1>2, <1>3, <1>4, <1>5, NetpolChanges

\* A step that leaves a reconcile beyond its write leaves what is in force in force.
LEMMA ForceStays ==
    ASSUME OneProcess, UserEdits \subseteq {"create", "annotate"},
           TypedInv, UidsAreGiven, [Next]_vars, NEW i \in Instances, InForce(i),
           policy # None, policy.uid = rec[i].pol.uid, rec[i].pc \in {"status", "event"},
           rec'[i] = rec[i]
    PROVE  InForce(i)'
<1>1. CASE netpol' = netpol
  BY <1>1 DEF InForce, ProvablyOwned
<1>2. ASSUME NEW j \in Instances, NEW reply, ApplyNetpol(j, reply) \/ CleanupDelete(j, reply)
      PROVE  FALSE
  BY <1>2 DEF OneProcess, ApplyNetpol, CleanupDelete
<1>3. CASE UserEdit
  BY <1>3, HarmlessEdit DEF InForce, ProvablyOwned
<1>4. CASE GarbageCollect
  BY <1>4 DEF GarbageCollect, Dangling, InForce, ProvablyOwned
<1>. QED BY <1>1, <1>2, <1>3, <1>4, NetpolChanges

\* A reconcile comes to its success with the object in force.
LEMMA SuccessReached ==
    ASSUME TypedInv, StoredAsRead, SuccessIsInForce, NEW i \in Instances, NEW reply,
           GetNetpol(i) \/ ApplyNetpol(i, reply) \/ PatchStatus(i, reply),
           rec'[i].pc \in {"status", "event"}, policy # None, policy.uid = rec[i].pol.uid
    PROVE  InForce(i)'
<1>1. CASE GetNetpol(i)
  <2> DEFINE pol == rec[i].pol
             same == netpol # None /\ ManagedPolicyMatches(netpol, Desired(i))
             pc == IF Foreign(pol, netpol) THEN "collision"
                   ELSE IF pol.deleting
                        THEN IF netpol = None THEN "cleanupEvent" ELSE "cleanupDelete"
                   ELSE IF same THEN "status" ELSE "apply"
             outcome == IF same THEN "NoChange" ELSE "Reconciled"
             r == [rec[i] EXCEPT !.pc = pc, !.existing = netpol, !.outcome = outcome]
  <2>1. rec' = [rec EXCEPT ![i] = r] /\ netpol' = netpol
    BY <1>1 DEF GetNetpol, cluster
  <2>2. pc \in {"status", "event"} => netpol # None /\ netpol = Desired(i)
    BY DEF ManagedPolicyMatches
  <2> HIDE DEF pc, outcome
  <2>3. r.pc = pc /\ r.pol = pol /\ r.cidrs = rec[i].cidrs
    BY RecordTyped DEF Reconciles
  <2> HIDE DEF r
  <2>4. rec'[i] = r
    BY <2>1 DEF TypedInv, RecOK
  <2>5. netpol # None /\ netpol = Desired(i)
    BY <2>2, <2>3, <2>4
  <2>6. /\ netpol.marked /\ netpol.owner = pol.uid
        /\ netpol.spec = RenderSpec(pol.spec, rec[i].cidrs)
    BY <2>5 DEF Desired, BuildManagedNetworkPolicy
  <2>7. pol.uid \in Uids
    BY <1>1, RecordTyped DEF GetNetpol
  <2>8. netpol.spec = Returned(RenderSpec(pol.spec, rec[i].cidrs))
    BY <2>5, <2>6, <2>7 DEF StoredAsRead
  <2>. QED BY <2>1, <2>3, <2>4, <2>5, <2>6, <2>8 DEF InForce, ProvablyOwned
<1>2. CASE ApplyNetpol(i, reply)
  <2>1. Goto(i, "status")
    BY <1>2, Ends DEF ApplyNetpol, Answered
  <2>2. netpol' = ServerSideApply(netpol, Desired(i)) /\ rec[i].pc = "apply"
    BY <1>2 DEF ApplyNetpol, SetNetpol
  <2>3. /\ netpol' \in Netpols /\ netpol'.owner = rec[i].pol.uid
        /\ netpol'.spec = Returned(RenderSpec(rec[i].pol.spec, rec[i].cidrs))
    BY <2>2, ApplyWrites
  <2>4. netpol'.marked /\ netpol' # None
    BY <2>2, <2>3, ReconcilerAssumption DEF ServerSideApply, Desired, BuildManagedNetworkPolicy
  <2>. QED BY <2>1, <2>3, <2>4, GotoKeeps DEF InForce, ProvablyOwned
<1>3. CASE PatchStatus(i, reply)
  <2>1. Goto(i, "event")
    BY <1>3, Ends DEF PatchStatus, Answered
  <2>2. InForce(i) /\ netpol' = netpol
    BY <1>3 DEF PatchStatus, SuccessIsInForce
  <2>. QED BY <2>1, <2>2, GotoKeeps DEF InForce, ProvablyOwned
<1>. QED BY <1>1, <1>2, <1>3

LEMMA SuccessInductive ==
    ASSUME OneProcess, UserEdits \subseteq {"create", "annotate"},
           TypedInv, UidsAreGiven, StoredAsRead, SuccessIsInForce, [Next]_vars
    PROVE  SuccessIsInForce'
<1> SUFFICES ASSUME NEW i \in Instances, rec'[i].pc \in {"status", "event"},
                    policy' # None, policy'.uid = rec'[i].pol.uid
             PROVE  InForce(i)'
  BY DEF SuccessIsInForce
<1>1. SamePolicy \/ \A j \in Instances :
                       (rec[j].pc # "idle" => rec[j].pol.uid # policy'.uid)
  <2>1. CASE NewPolicy
    BY <2>1, UidsTyped DEF NewPolicy, UidsAreGiven
  <2>. QED BY <2>1, PolicySteps
<1>2. CASE rec'[i] = rec[i]
  <2>1. policy # None /\ policy.uid = rec[i].pol.uid
    BY <1>1, <1>2 DEF SamePolicy
  <2>2. InForce(i)
    BY <1>2, <2>1 DEF SuccessIsInForce
  <2>. QED BY <1>2, <2>1, <2>2, ForceStays
<1>3. CASE rec'[i] # rec[i]
  <2>1. PICK reply : GetNetpol(i) \/ ApplyNetpol(i, reply) \/ PatchStatus(i, reply)
    BY <1>3, SuccessSteps
  <2>2. rec[i].pc # "idle" /\ UNCHANGED <<policy, lastUid>>
    BY <2>1 DEF GetNetpol, ApplyNetpol, PatchStatus, cluster
  <2>3. rec'[i].pol = rec[i].pol
    <3>1. OnlyAt(i) /\ (GoesOn(i) \/ Returns(i))
      BY <2>1, QuietStepsMove, WriteStepsMove
    <3>. QED BY <3>1 DEF GoesOn, Returns
  <2>4. policy # None /\ policy.uid = rec[i].pol.uid
    BY <2>2, <2>3
  <2>. QED BY <2>1, <2>4, SuccessReached
<1>. QED BY <1>2, <1>3

\* With one process, and users who create and annotate but neither change nor delete what the
\* controller wrote, a reconcile reports success only of a NetworkPolicy that is in force: apply comes
\* before the status and the status before the event, in spite of failed calls, lost answers, crashes,
\* failure tasks of the past and policies that are created anew.
THEOREM SuccessMeansInForce ==
    ASSUME OneProcess, UserEdits \subseteq {"create", "annotate"}
    PROVE  Spec => []SuccessIsInForce
<1>1. Init => StoredAsRead /\ SuccessIsInForce
  BY ReconcilerAssumption
     DEF Init, StoredAsRead, SuccessIsInForce, Idle, Uids, NoOwner, OtherOwner
<1>2. TypedInv /\ UidsAreGiven /\ StoredAsRead /\ SuccessIsInForce /\ [Next]_vars
         => UidsAreGiven' /\ StoredAsRead' /\ SuccessIsInForce'
  BY UidsInductive, StoredInductive, SuccessInductive
<1>. QED BY <1>1, <1>2, InitTyped, NextTyped, UidsInit, PTL DEF Spec

-----------------------------------------------------------------------------
(* Foreign objects are left alone *)

\* The one way to the awaits that write the NetworkPolicy.
LEMMA WriterSteps ==
    ASSUME OneProcess, TypedInv, [Next]_vars, NEW i \in Instances, rec'[i] # rec[i],
           rec'[i].pc \in {"apply", "cleanupDelete"}
    PROVE  GetNetpol(i)
<1>1. ASSUME \/ RejectSpec(i) \/ ReportCollision(i) \/ ApplyRefused(i) \/ PatchStatusMissing(i)
             \/ PublishOutcome(i) \/ CleanupEvent(i) \/ CallFails(i)
      PROVE  rec'[i].pc = "idle"
  BY <1>1, Ends DEF RejectSpec, ReportCollision, ApplyRefused, PatchStatusMissing, PublishOutcome,
     CleanupEvent, CallFails
<1>2. ASSUME StartMissing(i) \/ Start(i) PROVE FALSE
  BY <1>2 DEF StartMissing, Start, FirstAwait, TypedInv, RecOK
<1>3. ASSUME FetchPointer(i) PROVE FALSE
  <2>1. ASSUME NEW final, rec' = [rec EXCEPT ![i].pc = "fetch", ![i].source = final]
        PROVE  rec'[i].pc = "fetch"
    BY <2>1, RecordTyped DEF TypedInv, RecOK, Reconciles
  <2>. QED BY <1>3, <2>1, Ends DEF FetchPointer
<1>4. ASSUME Fetch(i) PROVE FALSE
  <2>1. ASSUME NEW cidrs,
               rec' = [rec EXCEPT ![i].pc = "get", ![i].source = None, ![i].cidrs = cidrs]
        PROVE  rec'[i].pc = "get"
    BY <2>1, RecordTyped DEF TypedInv, RecOK, Reconciles
  <2>. QED BY <1>4, <2>1, Ends DEF Fetch
<1>5. ASSUME NEW reply, ApplyNetpol(i, reply) \/ PatchStatus(i, reply) \/ CleanupDelete(i, reply)
      PROVE  FALSE
  BY <1>5, Ends, GotoKeeps DEF ApplyNetpol, PatchStatus, CleanupDelete, Answered
<1>6. ASSUME Crash(i) PROVE FALSE
  BY <1>6 DEF Crash, Idle, TypedInv, RecOK
<1>. QED BY <1>1, <1>2, <1>3, <1>4, <1>5, <1>6, RecordChanges DEF Reconcile

\* Users who neither create an object nor take the mark from one leave the ownership of it alone.
LEMMA OwnerStays ==
    ASSUME TypedInv, UserEdits \cap {"create", "strip"} = {}, UserEdit
    PROVE  \/ netpol' = None
           \/ netpol # None /\ netpol'.marked = netpol.marked /\ netpol'.owner = netpol.owner
<1>1. PICK edit \in {"delete", "annotate", "rewrite"} : \E new \in UserEdited(edit) : SetNetpol(new)
  BY ReconcilerAssumption DEF UserEdit, Edits
<1>2. PICK new \in UserEdited(edit) : netpol' = new
  BY <1>1 DEF SetNetpol
<1>3. netpol \in Netpols \cup {None}
  BY DEF TypedInv, ClusterOK
<1>4. CASE edit = "delete"
  BY <1>2, <1>4 DEF UserEdited
<1>5. CASE edit = "annotate"
  BY <1>2, <1>3, <1>5 DEF UserEdited, Netpols
<1>6. CASE edit = "rewrite"
  BY <1>2, <1>3, <1>6 DEF UserEdited, Netpols
<1>. QED BY <1>1, <1>4, <1>5, <1>6

LEMMA WritesOwnInductive ==
    ASSUME OneProcess, UserEdits \cap {"create", "strip"} = {}, TypedInv, WritesOwn, [Next]_vars
    PROVE  WritesOwn'
<1> SUFFICES ASSUME NEW i \in Instances, rec'[i].pc \in {"apply", "cleanupDelete"}, netpol' # None
             PROVE  IsManagedNetworkPolicyFor(rec'[i].pol, netpol')
  BY DEF WritesOwn
<1>1. CASE rec'[i] # rec[i]
  <2>1. GetNetpol(i)
    BY <1>1, WriterSteps
  <2>2. rec'[i].pol = rec[i].pol
    <3>1. GoesOn(i) \/ Returns(i)
      BY <2>1, QuietStepsMove
    <3>. QED BY <3>1 DEF GoesOn, Returns
  <2>3. netpol' = netpol
    BY <2>1 DEF GetNetpol, cluster
  <2>4. ~Foreign(rec[i].pol, netpol)
    <3> DEFINE pol == rec[i].pol
               same == netpol # None /\ ManagedPolicyMatches(netpol, Desired(i))
               pc == IF Foreign(pol, netpol) THEN "collision"
                     ELSE IF pol.deleting
                          THEN IF netpol = None THEN "cleanupEvent" ELSE "cleanupDelete"
                     ELSE IF same THEN "status" ELSE "apply"
               outcome == IF same THEN "NoChange" ELSE "Reconciled"
               r == [rec[i] EXCEPT !.pc = pc, !.existing = netpol, !.outcome = outcome]
    <3>1. rec' = [rec EXCEPT ![i] = r]
      BY <2>1 DEF GetNetpol
    <3>2. pc \in {"apply", "cleanupDelete"} => ~Foreign(pol, netpol)
      OBVIOUS
    <3> HIDE DEF pc, outcome
    <3>3. r.pc = pc
      BY RecordTyped DEF Reconciles
    <3> HIDE DEF r
    <3>4. rec'[i] = r
      BY <3>1 DEF TypedInv, RecOK
    <3>. QED BY <3>2, <3>3, <3>4
  <2>. QED BY <2>2, <2>3, <2>4 DEF Foreign
<1>2. CASE rec'[i] = rec[i]
  <2>1. netpol # None => IsManagedNetworkPolicyFor(rec[i].pol, netpol)
    BY <1>2 DEF WritesOwn
  <2>2. CASE netpol' = netpol
    BY <1>2, <2>1, <2>2
  <2>3. ASSUME NEW j \in Instances, NEW reply, ApplyNetpol(j, reply) PROVE FALSE
    BY <1>2, <2>3, Ends, GotoKeeps DEF OneProcess, ApplyNetpol, Answered
  <2>4. ASSUME NEW j \in Instances, NEW reply, CleanupDelete(j, reply) PROVE FALSE
    BY <1>2, <2>4, Ends, GotoKeeps DEF OneProcess, CleanupDelete, Answered
  <2>5. CASE GarbageCollect
    BY <2>5 DEF GarbageCollect, SetNetpol
  <2>6. CASE UserEdit
    BY <1>2, <2>1, <2>6, OwnerStays DEF IsManagedNetworkPolicyFor
  <2>. QED BY <2>2, <2>3, <2>4, <2>5, <2>6, NetpolChanges
<1>. QED BY <1>1, <1>2

\* What spec.md asks of the controller, that it never modifies or deletes an object it does not
\* provably own, holds of one process as long as no user creates an object of the managed name or
\* takes the mark from one. Either of these, or a second process, can come between the check of
\* get_managed_network_policy and the write; that the promise does not hold of them is what the run
\* foreign_overwritten shows.
THEOREM ForeignLeftAlone ==
    ASSUME OneProcess, UserEdits \cap {"create", "strip"} = {}
    PROVE  Spec => ForeignIsNeverTouched
<1> DEFINE LeftAlone ==
      \A i \in Instances :
         /\ rec[i].pc \in {"apply", "cleanupDelete"} /\ rec'[i] # rec[i] /\ netpol # None
         /\ ~ProvablyOwned(rec[i].pol)
         => netpol' = netpol
<1>1. Init => WritesOwn
  BY DEF Init, WritesOwn, Idle
<1>2. TypedInv /\ WritesOwn /\ [Next]_vars => WritesOwn'
  BY WritesOwnInductive
<1>3. WritesOwn /\ [Next]_vars => [LeftAlone]_vars
  BY DEF WritesOwn, IsManagedNetworkPolicyFor, ProvablyOwned
<1>. QED BY <1>1, <1>2, <1>3, InitTyped, NextTyped, PTL DEF Spec, ForeignIsNeverTouched

-----------------------------------------------------------------------------
(* Selectors *)

\* No reconcile fails in the translation of a selector: what validate_policy lets pass is rendered
\* (build_managed_network_policy, render_selector).
THEOREM SelectorsAreTranslated ==
    Spec => []~\E i \in Instances : rec[i].pc = "fetch" /\ ~Renders(rec[i].pol.spec)
<1>1. TypedInv => ~\E i \in Instances : rec[i].pc = "fetch" /\ ~Renders(rec[i].pol.spec)
  BY RecordTyped, AcceptedSpecRenders DEF Sound
<1>. QED BY <1>1, InitTyped, NextTyped, PTL DEF Spec
=============================================================================
