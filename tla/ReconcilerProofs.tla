-------------------------- MODULE ReconcilerProofs --------------------------
(***************************************************************************)
(* Proofs about Reconciler, for all values of its constants.               *)
(***************************************************************************)
EXTENDS Reconciler, RenderingProofs

-----------------------------------------------------------------------------
(* Documents *)

\* Extraction succeeds on the documents every check accepts and on no other, and then returns all of
\* the document; a failure names one of the stages of a document (extract_cidrs, fetch_json).
THEOREM ExtractionIsWhole ==
    ASSUME NEW S, NEW d \in Documents(S)
    PROVE  /\ ExtractCidrs(d).stage \in DocumentStages \cup {"none"}
           /\ Accepted(d) => ExtractCidrs(d).stage = "none"
           /\ ExtractCidrs(d).stage = "none" => ExtractCidrs(d).cidrs \in Yields(d)
<1> DEFINE bad == Rejected(d.elements)
           first == CHOOSE k \in bad : \A j \in bad : k <= j
<1>1. d.stage \in DocumentStages \cup {"none"} /\ DOMAIN d.elements \subseteq Nat
  BY DEF Documents
<1>2. CASE d.stage # "none"
  BY <1>1, <1>2 DEF ExtractCidrs, Accepted
<1>3. CASE d.stage = "none" /\ bad = {}
  <2>1. ExtractCidrs(d) = [stage |-> "none", cidrs |-> SortedCidrs(d.elements)]
    BY <1>3 DEF ExtractCidrs
  <2>2. Accepted(d)
    BY <1>3 DEF Accepted, Rejected, ElementStage, ToSet
  <2>. QED BY <2>1, <2>2 DEF Yields
<1>4. CASE d.stage = "none" /\ bad # {}
  <2>1. bad \subseteq Nat
    BY <1>1 DEF Rejected
  <2>2. first \in bad
    BY <1>4, <2>1, LeastExists
  <2>3. ElementStage(d.elements[first]) # "none"
    BY <2>2 DEF Rejected
  <2>4. ElementStage(d.elements[first]) \in DocumentStages
    BY <2>3 DEF ElementStage, DocumentStages
  <2>5. ExtractCidrs(d) = [stage |-> ElementStage(d.elements[first]), cidrs |-> <<>>]
    BY <1>4 DEF ExtractCidrs
  <2>6. ~Accepted(d)
    <3>1. d.elements[first] \in ToSet(d.elements)
      BY <2>2 DEF Rejected, ToSet
    <3>2. ~(d.elements[first].string /\ d.elements[first].cidr # {})
      BY <2>3, Zenon DEF ElementStage
    <3>. QED BY <3>1, <3>2, Zenon DEF Accepted
  <2>. QED BY <2>3, <2>4, <2>5, <2>6
<1>. QED BY <1>2, <1>3, <1>4

-----------------------------------------------------------------------------
(* The constants *)

LEMMA SpecFacts ==
    ASSUME NEW s \in Specs
    PROVE  /\ s.source \in Sources
           /\ Defect(s) \in {"none", "validation", "jmespath-compile"}
           /\ Finals(s) \subseteq Sources
           /\ WholeLists(s) \subseteq Yielded
<1>1. s.source \in Sources /\ Defect(s) \in {"none", "validation", "jmespath-compile"}
  BY ReconcilerAssumption DEF Defect
<1>2. \A src \in Sources : \A d \in Published[src] : Resolved(d) \subseteq Sources
  BY ReconcilerAssumption DEF Documents, Options, Resolved
<1>3. Finals(s) \subseteq Sources
  BY <1>1, <1>2 DEF Finals
<1>4. WholeLists(s) \subseteq Yielded
  BY <1>3 DEF WholeLists, Yielded
<1>. QED BY <1>1, <1>3, <1>4

\* What is written to the NetworkPolicy has the type of one.
LEMMA AppliedTyped ==
    ASSUME NEW np \in Netpols \cup {None}, NEW pol \in Policies, NEW cidrs \in Yielded,
           NEW applied, applied = ServerSideApply(np, BuildManagedNetworkPolicy(pol, cidrs))
    PROVE  /\ applied \in Netpols
           /\ applied.owner = pol.uid
           /\ applied.spec = Returned(RenderSpec(pol.spec, cidrs))
<1>1. pol.uid \in Owners /\ pol.spec \in Specs
  BY DEF Policies, Owners
<1>2. Returned(RenderSpec(pol.spec, cidrs)) \in Rendered
  BY <1>1 DEF Rendered
<1>3. np # None => np.extra \in BOOLEAN
  BY DEF Netpols
<1>4. applied = [marked |-> TRUE, owner |-> pol.uid,
                 extra |-> IF np = None THEN FALSE ELSE np.extra,
                 spec |-> Returned(RenderSpec(pol.spec, cidrs))]
  BY DEF ServerSideApply, BuildManagedNetworkPolicy
<1>5. applied.owner = pol.uid /\ applied.spec = Returned(RenderSpec(pol.spec, cidrs))
  BY <1>4
<1>6. (IF np = None THEN FALSE ELSE np.extra) \in BOOLEAN
  BY <1>3, Zenon
<1> DEFINE extra == IF np = None THEN FALSE ELSE np.extra
<1> HIDE DEF extra
<1>7. applied \in Netpols
  <2>1. extra \in BOOLEAN
    BY <1>6 DEF extra
  <2>2. applied = [marked |-> TRUE, owner |-> pol.uid, extra |-> extra,
                   spec |-> Returned(RenderSpec(pol.spec, cidrs))]
    BY <1>4 DEF extra
  <2>. QED BY <1>1, <1>2, <2>1, <2>2 DEF Netpols
<1>. QED BY <1>5, <1>7

LEMMA IdleSound == Idle \in Reconciles /\ Sound(Idle)
<1>1. Idle \in Reconciles
  BY DEF Idle, Reconciles
<1>2. Idle.pc = "idle"
  BY DEF Idle
<1>3. Sound(Idle)
  BY <1>2 DEF Sound
<1>. QED BY <1>1, <1>3

LEMMA NoTaskTyped == NoTask \in Failures /\ NoStatus \in Statuses
  BY ReconcilerAssumption DEF NoTask, Failures, NoStatus, Statuses, Options

-----------------------------------------------------------------------------
(* Type correctness, with what the reconciles and tasks have established *)

ClusterOK ==
    /\ policy \in Policies \cup {None} /\ status \in Statuses /\ lastUid \in 0 .. MaxUid
    /\ netpol \in Netpols \cup {None} /\ events \subseteq Reasons \X Uids
    /\ \A src \in Sources : remote[src] \in Published[src]
RuntimeOK ==
    /\ store \in [Instances -> Policies \cup {None}]
    /\ polEvent \in [Instances -> BOOLEAN] /\ npEvent \in [Instances -> BOOLEAN]
    /\ due \in [Instances -> {"none", "now", "retry", "resync"}]
RecOK == rec \in [Instances -> Reconciles] /\ SoundReconciles
TaskOK == task \in [Tasks -> Failures] /\ SoundTasks
TypedInv == ClusterOK /\ RuntimeOK /\ RecOK /\ TaskOK

LEMMA TypedInvIsTypeOK == TypedInv <=> TypeOK /\ SoundReconciles /\ SoundTasks
  BY DEF TypedInv, TypeOK, ClusterOK, RuntimeOK, RecOK, TaskOK, SoundReconciles, Sound

\* A reconcile that moves on keeps its process well-formed when its new record is.
LEMMA MoveOK ==
    ASSUME RecOK, NEW i \in Instances, NEW r \in Reconciles, Sound(r),
           rec' = [rec EXCEPT ![i] = r]
    PROVE  RecOK'
  BY DEF RecOK, SoundReconciles

LEMMA FinishOK ==
    ASSUME TypedInv, NEW i \in Instances, NEW when \in {"none", "retry", "resync"},
           Finish(i, when)
    PROVE  RecOK' /\ due' \in [Instances -> {"none", "now", "retry", "resync"}]
<1>1. RecOK'
  BY IdleSound, MoveOK DEF Finish, TypedInv
<1>2. due' \in [Instances -> {"none", "now", "retry", "resync"}]
  BY DEF Finish, TypedInv, RuntimeOK
<1>. QED BY <1>1, <1>2

LEMMA FailOK ==
    ASSUME TypedInv, NEW i \in Instances, rec[i].pc # "idle", NEW stage \in Stages,
           Fail(i, stage)
    PROVE  /\ RecOK' /\ TaskOK'
           /\ due' \in [Instances -> {"none", "now", "retry", "resync"}]
<1>1. RecOK' /\ due' \in [Instances -> {"none", "now", "retry", "resync"}]
  BY FinishOK DEF Fail
<1>2. rec[i].pol.uid \in Uids /\ rec[i].pol.uid \in 0 .. MaxUid
  BY ReconcilerAssumption DEF TypedInv, RecOK, SoundReconciles, Sound, Policies, Uids
<1> DEFINE new == [pc |-> "read", by |-> i, uid |-> rec[i].pol.uid, stage |-> stage,
                   read |-> NoStatus]
<1>3. new \in Failures
  BY <1>2, NoTaskTyped DEF Failures, TaskAwaits
<1>4. TaskOK'
  BY <1>2, <1>3 DEF Fail, Spawn, TypedInv, TaskOK, SoundTasks
<1>. QED BY <1>1, <1>4

LEMMA SetNetpolOK ==
    ASSUME TypedInv, NEW new \in Netpols \cup {None}, SetNetpol(new)
    PROVE  netpol' \in Netpols \cup {None} /\ npEvent' \in [Instances -> BOOLEAN]
  BY DEF SetNetpol, TypedInv, RuntimeOK

LEMMA PublishOK ==
    ASSUME TypedInv, NEW reason, NEW uid \in Uids, Publish(reason, uid)
    PROVE  events' \subseteq Reasons \X Uids
  BY ReconcilerAssumption DEF Publish, TypedInv, ClusterOK

\* The states of the pieces of a step that a step leaves alone.
LEMMA Unchanged ==
    ASSUME TypedInv
    PROVE  /\ UNCHANGED cluster => ClusterOK'
           /\ UNCHANGED runtime => RuntimeOK'
           /\ UNCHANGED rec => RecOK'
           /\ UNCHANGED task => TaskOK'
  BY DEF TypedInv, ClusterOK, RuntimeOK, RecOK, TaskOK, SoundReconciles, SoundTasks, cluster, runtime

\* What is known of the record of a reconcile.
LEMMA RecordTyped ==
    ASSUME TypedInv, NEW i \in Instances
    PROVE  /\ rec[i] \in Reconciles /\ Sound(rec[i])
           /\ rec[i].pc # "idle" => /\ rec[i].pol \in Policies /\ rec[i].pol.uid \in Uids
                                    /\ rec[i].pol.spec \in Specs
           /\ rec = [rec EXCEPT ![i] = rec[i]]
  BY DEF TypedInv, RecOK, SoundReconciles, Sound, Policies

\* A step that ends a reconcile with an error and touches nothing else.
LEMMA FailStepTyped ==
    ASSUME TypedInv, NEW i \in Instances, rec[i].pc # "idle", NEW stage \in Stages,
           Fail(i, stage), UNCHANGED <<cluster, store, polEvent, npEvent>>
    PROVE  TypedInv'
<1>1. RecOK' /\ TaskOK' /\ due' \in [Instances -> {"none", "now", "retry", "resync"}]
  BY FailOK
<1>2. ClusterOK'
  BY Unchanged
<1>. QED BY <1>1, <1>2 DEF TypedInv, RuntimeOK

LEMMA StartTyped ==
    ASSUME TypedInv, NEW i \in Instances, StartMissing(i) \/ Start(i)
    PROVE  TypedInv'
<1>1. ClusterOK' /\ TaskOK' /\ RuntimeOK'
  BY Unchanged DEF StartMissing, Start, TypedInv, RuntimeOK
<1>2. CASE StartMissing(i)
  BY <1>1, <1>2, Unchanged DEF StartMissing, TypedInv
<1>3. CASE Start(i)
  <2> DEFINE pol == store[i]
             pc == FirstAwait(pol)
             r == [pc |-> pc, pol |-> pol, source |-> pol.spec.source, cidrs |-> <<>>,
                   existing |-> None, outcome |-> "none"]
  <2>1. pol \in Policies /\ pol.spec \in Specs
    BY <1>3 DEF Start, TypedInv, RuntimeOK, Policies
  <2>2. pol.spec.source \in Sources
    BY <2>1, SpecFacts
  <2>3. pc \in Awaits \cup {"idle", "invalid"}
    BY DEF Awaits, FirstAwait
  <2> HIDE DEF pol
  <2>4. r \in Reconciles
    BY <2>1, <2>2, <2>3 DEF Reconciles
  <2>5. Sound(r)
    BY <2>1, <2>2 DEF Sound, Finals, FirstAwait
  <2>6. rec' = [rec EXCEPT ![i] = r]
    BY <1>3 DEF Start, pol
  <2>7. RecOK'
    <3> HIDE DEF r
    <3>. QED BY <2>4, <2>5, <2>6, MoveOK DEF TypedInv
  <2>. QED BY <1>1, <2>7 DEF TypedInv
<1>. QED BY <1>2, <1>3

LEMMA RejectSpecTyped ==
    ASSUME TypedInv, NEW i \in Instances, RejectSpec(i)
    PROVE  TypedInv'
<1>1. Defect(rec[i].pol.spec) \in Stages
  BY RecordTyped, SpecFacts DEF RejectSpec, Sound, Stages
<1>. QED BY <1>1, FailStepTyped DEF RejectSpec

LEMMA FetchPointerTyped ==
    ASSUME TypedInv, NEW i \in Instances, FetchPointer(i)
    PROVE  TypedInv'
<1> DEFINE document == remote[rec[i].source]
<1>1. "pointer-retrieval" \in Stages /\ "pointer-extraction" \in Stages
  BY DEF Stages
<1>2. CASE Fail(i, "pointer-retrieval") \/ Fail(i, "pointer-extraction")
  BY <1>1, <1>2, FailStepTyped DEF FetchPointer
<1>3. ASSUME NEW final \in Resolved(document),
             rec' = [rec EXCEPT ![i].pc = "fetch", ![i].source = final],
             UNCHANGED <<due, task>>
      PROVE  TypedInv'
  <2> DEFINE r == [rec[i] EXCEPT !.pc = "fetch", !.source = final]
  <2>1. /\ rec[i] \in Reconciles /\ Sound(rec[i]) /\ rec[i].pc = "pointer"
        /\ rec[i].pol.spec \in Specs
    BY RecordTyped DEF FetchPointer
  <2>2. rec[i].source = rec[i].pol.spec.source /\ rec[i].pol.spec.pointer # {}
    BY <2>1 DEF Sound
  <2>3. document \in Published[rec[i].source]
    BY <2>1, <2>2, SpecFacts DEF TypedInv, ClusterOK
  <2>4. final \in Finals(rec[i].pol.spec)
    BY <1>3, <2>2, <2>3 DEF Finals
  <2>5. final \in Sources
    BY <2>1, <2>4, SpecFacts
  <2>6. r \in Reconciles
    BY <2>1, <2>5 DEF Reconciles, Awaits
  <2>7. Sound(r)
    BY <2>1, <2>4 DEF Sound, Reconciles
  <2>8. rec' = [rec EXCEPT ![i] = r]
    BY <1>3
  <2>9. RecOK'
    <3> HIDE DEF r
    <3>. QED BY <2>6, <2>7, <2>8, MoveOK DEF TypedInv
  <2>10. ClusterOK' /\ TaskOK' /\ RuntimeOK'
    BY <1>3, Unchanged DEF FetchPointer, TypedInv, RuntimeOK
  <2>. QED BY <2>9, <2>10 DEF TypedInv
<1>. QED BY <1>2, <1>3 DEF FetchPointer

LEMMA FetchTyped ==
    ASSUME TypedInv, NEW i \in Instances, Fetch(i)
    PROVE  TypedInv'
<1> DEFINE document == remote[rec[i].source]
           result == ExtractCidrs(document)
           spec == rec[i].pol.spec
<1>1. /\ rec[i] \in Reconciles /\ Sound(rec[i]) /\ rec[i].pc = "fetch" /\ spec \in Specs
  BY RecordTyped DEF Fetch
<1>2. rec[i].source \in Finals(spec) /\ rec[i].source \in Sources
  BY <1>1, SpecFacts DEF Sound
<1>3. document \in Published[rec[i].source] /\ document \in Documents(Sources)
  BY <1>2, ReconcilerAssumption DEF TypedInv, ClusterOK
<1>4. /\ result.stage \in DocumentStages \cup {"none"}
      /\ result.stage = "none" => result.cidrs \in Yields(document)
  BY <1>3, ExtractionIsWhole
<1> HIDE DEF result
<1>5. CASE result.stage # "none"
  <2>1. result.stage \in Stages
    BY <1>4, <1>5 DEF Stages
  <2>2. Fail(i, result.stage) /\ UNCHANGED <<cluster, store, polEvent, npEvent>>
    BY <1>5 DEF Fetch, result
  <2>. QED BY <1>1, <2>1, <2>2, FailStepTyped
<1>6. CASE result.stage = "none" /\ ~Renders(spec)
  <2>1. "selector-translation" \in Stages
    BY DEF Stages
  <2>2. Fail(i, "selector-translation") /\ UNCHANGED <<cluster, store, polEvent, npEvent>>
    BY <1>6 DEF Fetch, result
  <2>. QED BY <1>1, <2>1, <2>2, FailStepTyped
<1>7. CASE result.stage = "none" /\ Renders(spec)
  <2> DEFINE r == [rec[i] EXCEPT !.pc = "get", !.source = None, !.cidrs = result.cidrs]
  <2>1. rec' = [rec EXCEPT ![i] = r] /\ UNCHANGED <<due, task>>
    BY <1>7 DEF Fetch, result
  <2>2. result.cidrs \in WholeLists(spec)
    BY <1>2, <1>3, <1>4, <1>7 DEF WholeLists
  <2>3. result.cidrs \in Yielded
    BY <1>1, <2>2, SpecFacts
  <2>4. r \in Reconciles
    BY <1>1, <2>3 DEF Reconciles, Awaits
  <2>5. Sound(r)
    BY <1>1, <2>2 DEF Sound, Reconciles
  <2>6. RecOK'
    <3> HIDE DEF r
    <3>. QED BY <2>1, <2>4, <2>5, MoveOK DEF TypedInv
  <2>7. ClusterOK' /\ TaskOK' /\ RuntimeOK'
    BY <2>1, Unchanged DEF Fetch, TypedInv, RuntimeOK
  <2>. QED BY <2>6, <2>7 DEF TypedInv
<1>. QED BY <1>5, <1>6, <1>7

LEMMA GotoOK ==
    ASSUME TypedInv, NEW i \in Instances, NEW pc \in Awaits, Goto(i, pc),
           Sound([rec[i] EXCEPT !.pc = pc, !.existing = None])
    PROVE  RecOK'
<1> DEFINE r == [rec[i] EXCEPT !.pc = pc, !.existing = None]
<1>1. r \in Reconciles
  BY RecordTyped DEF Reconciles
<1>2. rec' = [rec EXCEPT ![i] = r]
  BY DEF Goto
<1> HIDE DEF r
<1>. QED BY <1>1, <1>2, MoveOK DEF TypedInv, r

LEMMA RequeueOK ==
    ASSUME TypedInv, NEW i \in Instances, rec[i].pc # "idle", Requeue(i)
    PROVE  /\ RecOK' /\ TaskOK'
           /\ due' \in [Instances -> {"none", "now", "retry", "resync"}]
<1>1. CASE Fail(i, "scheduling")
  BY <1>1, FailOK DEF Stages
<1>2. CASE Finish(i, "resync") /\ UNCHANGED task
  BY <1>2, FinishOK, Unchanged
<1>. QED BY <1>1, <1>2 DEF Requeue

\* A call that took effect: the continuation, or the failure that a lost answer means.
LEMMA AnsweredOK ==
    ASSUME TypedInv, NEW i \in Instances, rec[i].pc # "idle", NEW reply, NEW next,
           Answered(i, reply, next),
           next => /\ RecOK' /\ TaskOK'
                   /\ due' \in [Instances -> {"none", "now", "retry", "resync"}]
    PROVE  /\ RecOK' /\ TaskOK'
           /\ due' \in [Instances -> {"none", "now", "retry", "resync"}]
  BY FailOK DEF Answered, Stages

LEMMA GetNetpolTyped ==
    ASSUME TypedInv, NEW i \in Instances, GetNetpol(i)
    PROVE  TypedInv'
<1> DEFINE pol == rec[i].pol
           same == netpol # None /\ ManagedPolicyMatches(netpol, Desired(i))
           pc == IF Foreign(pol, netpol) THEN "collision"
                 ELSE IF pol.deleting
                      THEN IF netpol = None THEN "cleanupEvent" ELSE "cleanupDelete"
                 ELSE IF same THEN "status" ELSE "apply"
           outcome == IF same THEN "NoChange" ELSE "Reconciled"
           r == [rec[i] EXCEPT !.pc = pc, !.existing = netpol, !.outcome = outcome]
<1>1. rec[i] \in Reconciles /\ Sound(rec[i]) /\ rec[i].pc = "get" /\ pol \in Policies
  BY RecordTyped DEF GetNetpol
<1>2. netpol \in Netpols \cup {None}
  BY DEF TypedInv, ClusterOK
<1>3. rec' = [rec EXCEPT ![i] = r] /\ UNCHANGED <<cluster, runtime, task>>
  BY DEF GetNetpol
<1>4. /\ pc \in {"collision", "cleanupEvent", "cleanupDelete", "status", "apply"}
      /\ outcome \in {"NoChange", "Reconciled"}
      /\ pc # "collision" /\ netpol # None => IsManagedNetworkPolicyFor(pol, netpol)
      /\ pc \in {"cleanupEvent", "cleanupDelete"} => pol.deleting
      /\ pc \in {"status", "apply"} => ~pol.deleting
  BY DEF Foreign
<1> HIDE DEF pc, outcome
<1>5. r \in Reconciles
  BY <1>1, <1>2, <1>4 DEF Reconciles, Awaits
<1>6. Sound(r)
  BY <1>1, <1>4 DEF Sound, Reconciles
<1>7. RecOK'
  <2> HIDE DEF r
  <2>. QED BY <1>3, <1>5, <1>6, MoveOK DEF TypedInv
<1>. QED BY <1>3, <1>7, Unchanged DEF TypedInv

LEMMA ReportCollisionTyped ==
    ASSUME TypedInv, NEW i \in Instances, ReportCollision(i)
    PROVE  TypedInv'
<1>1. rec[i].pc # "idle" /\ rec[i].pol.uid \in Uids
  BY RecordTyped DEF ReportCollision
<1>2. RecOK' /\ TaskOK' /\ due' \in [Instances -> {"none", "now", "retry", "resync"}]
  BY <1>1, FailOK DEF ReportCollision, Stages
<1>3. events' \subseteq Reasons \X Uids
  BY <1>1, PublishOK DEF ReportCollision
<1>. QED BY <1>2, <1>3 DEF ReportCollision, TypedInv, ClusterOK, RuntimeOK

\* What a reconcile writes at its apply step.
LEMMA ApplyWrites ==
    ASSUME TypedInv, NEW i \in Instances, rec[i].pc = "apply",
           NEW new, new = ServerSideApply(netpol, Desired(i))
    PROVE  /\ new \in Netpols /\ new.owner = rec[i].pol.uid
           /\ new.spec = Returned(RenderSpec(rec[i].pol.spec, rec[i].cidrs))
           /\ rec[i].cidrs \in WholeLists(rec[i].pol.spec)
           /\ Defect(rec[i].pol.spec) = "none" /\ ~rec[i].pol.deleting
<1>1. /\ rec[i] \in Reconciles /\ rec[i].pol \in Policies /\ rec[i].pol.spec \in Specs
      /\ rec[i].cidrs \in WholeLists(rec[i].pol.spec)
      /\ Defect(rec[i].pol.spec) = "none" /\ ~rec[i].pol.deleting
  BY RecordTyped DEF Sound
<1>2. rec[i].cidrs \in Yielded
  BY <1>1, SpecFacts
<1>3. netpol \in Netpols \cup {None}
  BY DEF TypedInv, ClusterOK
<1>. QED BY <1>1, <1>2, <1>3, AppliedTyped DEF Desired

LEMMA ApplyTyped ==
    ASSUME TypedInv, NEW i \in Instances, NEW reply, ApplyNetpol(i, reply)
    PROVE  TypedInv'
<1> DEFINE new == ServerSideApply(netpol, Desired(i))
           next == Goto(i, "status") /\ UNCHANGED <<due, task>>
<1>1. rec[i].pc = "apply" /\ SetNetpol(new) /\ Answered(i, reply, next)
  BY DEF ApplyNetpol
<1>2. netpol' \in Netpols \cup {None} /\ npEvent' \in [Instances -> BOOLEAN]
  BY <1>1, ApplyWrites, SetNetpolOK
<1>3. ASSUME next
      PROVE  /\ RecOK' /\ TaskOK'
             /\ due' \in [Instances -> {"none", "now", "retry", "resync"}]
  <2>1. Sound([rec[i] EXCEPT !.pc = "status", !.existing = None])
    BY <1>1, RecordTyped DEF Sound, Reconciles
  <2>2. RecOK'
    BY <1>3, <2>1, GotoOK DEF Awaits
  <2>. QED BY <1>3, <2>2, Unchanged DEF TypedInv, RuntimeOK
<1>4. RecOK' /\ TaskOK' /\ due' \in [Instances -> {"none", "now", "retry", "resync"}]
  <2> HIDE DEF next
  <2>. QED BY <1>1, <1>3, AnsweredOK
<1>. QED BY <1>2, <1>4 DEF ApplyNetpol, TypedInv, ClusterOK, RuntimeOK

LEMMA PatchStatusTyped ==
    ASSUME TypedInv, NEW i \in Instances, NEW reply, PatchStatus(i, reply)
    PROVE  TypedInv'
<1> DEFINE next == IF rec[i].outcome = "NoChange" THEN Requeue(i)
                   ELSE Goto(i, "event") /\ UNCHANGED <<due, task>>
<1>1. rec[i].pc = "status" /\ Answered(i, reply, next)
  BY DEF PatchStatus
<1>2. rec[i] \in Reconciles /\ Sound(rec[i]) /\ rec[i].pol.spec \in Specs
  BY <1>1, RecordTyped
<1>3. rec[i].cidrs \in Yielded
  BY <1>1, <1>2, SpecFacts DEF Sound
<1>4. status' \in Statuses
  BY <1>3 DEF PatchStatus, Statuses, Options
<1>5. ASSUME next
      PROVE  /\ RecOK' /\ TaskOK'
             /\ due' \in [Instances -> {"none", "now", "retry", "resync"}]
  <2>1. CASE Requeue(i)
    BY <1>1, <2>1, RequeueOK
  <2>2. CASE Goto(i, "event") /\ UNCHANGED <<due, task>>
    <3>1. Sound([rec[i] EXCEPT !.pc = "event", !.existing = None])
      BY <1>1, <1>2 DEF Sound, Reconciles
    <3>2. RecOK'
      BY <2>2, <3>1, GotoOK DEF Awaits
    <3>. QED BY <2>2, <3>2, Unchanged DEF TypedInv, RuntimeOK
  <2>. QED BY <1>5, <2>1, <2>2
<1>6. RecOK' /\ TaskOK' /\ due' \in [Instances -> {"none", "now", "retry", "resync"}]
  <2> HIDE DEF next
  <2>. QED BY <1>1, <1>5, AnsweredOK
<1>. QED BY <1>4, <1>6 DEF PatchStatus, PolicyChanged, TypedInv, ClusterOK, RuntimeOK

LEMMA PublishOutcomeTyped ==
    ASSUME TypedInv, NEW i \in Instances, PublishOutcome(i)
    PROVE  TypedInv'
<1>1. rec[i].pc # "idle" /\ rec[i].pol.uid \in Uids
  BY RecordTyped DEF PublishOutcome
<1>2. RecOK' /\ TaskOK' /\ due' \in [Instances -> {"none", "now", "retry", "resync"}]
  BY <1>1, RequeueOK DEF PublishOutcome
<1>3. events' \subseteq Reasons \X Uids
  BY <1>1, PublishOK DEF PublishOutcome
<1>. QED BY <1>2, <1>3 DEF PublishOutcome, TypedInv, ClusterOK, RuntimeOK

LEMMA CleanupDeleteTyped ==
    ASSUME TypedInv, NEW i \in Instances, NEW reply, CleanupDelete(i, reply)
    PROVE  TypedInv'
<1> DEFINE next == Goto(i, "cleanupEvent") /\ UNCHANGED <<due, task>>
<1>1. rec[i].pc = "cleanupDelete" /\ SetNetpol(None) /\ Answered(i, reply, next)
  BY DEF CleanupDelete
<1>2. netpol' \in Netpols \cup {None} /\ npEvent' \in [Instances -> BOOLEAN]
  BY <1>1, SetNetpolOK
<1>3. ASSUME next
      PROVE  /\ RecOK' /\ TaskOK'
             /\ due' \in [Instances -> {"none", "now", "retry", "resync"}]
  <2>1. Sound([rec[i] EXCEPT !.pc = "cleanupEvent", !.existing = None])
    BY <1>1, RecordTyped DEF Sound, Reconciles
  <2>2. RecOK'
    BY <1>3, <2>1, GotoOK DEF Awaits
  <2>. QED BY <1>3, <2>2, Unchanged DEF TypedInv, RuntimeOK
<1>4. RecOK' /\ TaskOK' /\ due' \in [Instances -> {"none", "now", "retry", "resync"}]
  <2> HIDE DEF next
  <2>. QED BY <1>1, <1>3, AnsweredOK
<1>. QED BY <1>2, <1>4 DEF CleanupDelete, TypedInv, ClusterOK, RuntimeOK

LEMMA CleanupEventTyped ==
    ASSUME TypedInv, NEW i \in Instances, CleanupEvent(i)
    PROVE  TypedInv'
<1>1. rec[i].pol.uid \in Uids
  BY RecordTyped DEF CleanupEvent
<1>2. RecOK' /\ due' \in [Instances -> {"none", "now", "retry", "resync"}]
  BY FinishOK DEF CleanupEvent
<1>3. events' \subseteq Reasons \X Uids
  BY <1>1, PublishOK DEF CleanupEvent
<1>. QED BY <1>2, <1>3, Unchanged DEF CleanupEvent, TypedInv, ClusterOK, RuntimeOK

\* The errors of the calls themselves.
LEMMA FailuresTyped ==
    ASSUME TypedInv, NEW i \in Instances,
           ApplyRefused(i) \/ PatchStatusMissing(i) \/ CallFails(i)
    PROVE  TypedInv'
<1>1. CASE ApplyRefused(i) \/ PatchStatusMissing(i)
  BY <1>1, FailStepTyped DEF ApplyRefused, PatchStatusMissing, Stages
<1>2. CASE CallFails(i)
  <2>1. rec[i].pc # "idle"
    BY <1>2 DEF CallFails, Awaits
  <2>2. FailureStage(rec[i].pc) \in Stages
    BY DEF FailureStage, Stages, DocumentStages
  <2>. QED BY <1>2, <2>1, <2>2, FailStepTyped DEF CallFails
<1>. QED BY <1>1, <1>2

LEMMA EndTaskOK ==
    ASSUME TypedInv, NEW t \in Tasks, EndTask(t)
    PROVE  TaskOK'
  BY NoTaskTyped DEF EndTask, TypedInv, TaskOK, SoundTasks, NoTask

LEMMA TaskTyped ==
    ASSUME TypedInv, NEW t \in Tasks
    PROVE  /\ task[t] \in Failures
           /\ task[t].pc # "free" => task[t].stage \in Stages /\ task[t].uid \in Uids
  BY DEF TypedInv, TaskOK, SoundTasks

LEMMA TaskReadTyped ==
    ASSUME TypedInv, NEW t \in Tasks, TaskRead(t)
    PROVE  TypedInv'
<1> DEFINE new == [task[t] EXCEPT !.pc = "patch", !.read = status]
<1>1. CASE EndTask(t)
  BY <1>1, EndTaskOK, Unchanged DEF TaskRead, TypedInv
<1>2. CASE task' = [task EXCEPT ![t].pc = "patch", ![t].read = status]
  <2>1. new \in Failures
    BY TaskTyped DEF TypedInv, ClusterOK, Failures, TaskAwaits
  <2>2. new.stage \in Stages /\ new.uid \in Uids
    BY TaskTyped DEF TaskRead, Failures
  <2>3. task' = [task EXCEPT ![t] = new]
    BY <1>2
  <2>4. TaskOK'
    <3> HIDE DEF new
    <3>. QED BY <2>1, <2>2, <2>3 DEF TypedInv, TaskOK, SoundTasks
  <2>. QED BY <2>4, Unchanged DEF TaskRead, TypedInv
<1>. QED BY <1>1, <1>2 DEF TaskRead

LEMMA TaskPatchTyped ==
    ASSUME TypedInv, NEW t \in Tasks, NEW reply, TaskPatch(t, reply)
    PROVE  TypedInv'
<1> DEFINE new == [task[t] EXCEPT !.pc = "report", !.read = NoStatus]
<1>1. task[t] \in Failures /\ task[t].stage \in Stages /\ task[t].uid \in Uids
  BY TaskTyped DEF TaskPatch
<1>2. status' \in Statuses
  BY <1>1 DEF TaskPatch, Statuses, Options, Failures
<1>3. TaskOK'
  <2>1. CASE EndTask(t)
    BY <2>1, EndTaskOK
  <2>2. CASE task' = [task EXCEPT ![t].pc = "report", ![t].read = NoStatus]
    <3>1. new \in Failures /\ new.stage \in Stages /\ new.uid \in Uids
      BY <1>1, NoTaskTyped DEF Failures, TaskAwaits
    <3>2. task' = [task EXCEPT ![t] = new]
      BY <2>2
    <3> HIDE DEF new
    <3>. QED BY <3>1, <3>2 DEF TypedInv, TaskOK, SoundTasks
  <2>. QED BY <2>1, <2>2 DEF TaskPatch
<1>4. polEvent' \in [Instances -> BOOLEAN]
  BY DEF TaskPatch, PolicyChanged, TypedInv, RuntimeOK
<1>5. RecOK'
  BY Unchanged DEF TaskPatch
<1>. QED BY <1>2, <1>3, <1>4, <1>5 DEF TaskPatch, TypedInv, ClusterOK, RuntimeOK

\* The other steps of a failure task only end it; the report also records an event.
LEMMA TaskEndsTyped ==
    ASSUME TypedInv, NEW t \in Tasks,
           TaskPatchMissing(t) \/ TaskReport(t) \/ TaskFails(t)
    PROVE  TypedInv'
<1>1. TaskOK'
  BY EndTaskOK DEF TaskPatchMissing, TaskReport, TaskFails
<1>2. RecOK' /\ RuntimeOK'
  BY Unchanged DEF TaskPatchMissing, TaskReport, TaskFails
<1>3. CASE TaskPatchMissing(t) \/ TaskFails(t)
  BY <1>1, <1>2, <1>3, Unchanged DEF TaskPatchMissing, TaskFails, TypedInv
<1>4. CASE TaskReport(t)
  <2>1. task[t].uid \in Uids
    BY <1>4, TaskTyped DEF TaskReport
  <2>2. events' \subseteq Reasons \X Uids
    BY <1>4, <2>1, PublishOK DEF TaskReport
  <2>. QED BY <1>1, <1>2, <1>4, <2>2 DEF TaskReport, TypedInv, ClusterOK
<1>. QED BY <1>3, <1>4

LEMMA RuntimeTyped ==
    ASSUME TypedInv, NEW i \in Instances,
           DeliverPolicy(i) \/ DeliverNetpol(i) \/ TimerFires(i)
    PROVE  TypedInv'
<1>1. ClusterOK' /\ RecOK' /\ TaskOK'
  BY Unchanged DEF DeliverPolicy, DeliverNetpol, TimerFires
<1>2. RuntimeOK'
  BY DEF DeliverPolicy, DeliverNetpol, TimerFires, TypedInv, RuntimeOK, ClusterOK, cluster
<1>. QED BY <1>1, <1>2 DEF TypedInv

LEMMA CrashTyped ==
    ASSUME TypedInv, NEW i \in Instances, Crash(i)
    PROVE  TypedInv'
<1>1. ClusterOK'
  BY Unchanged DEF Crash
<1>2. RecOK'
  BY IdleSound, MoveOK DEF Crash, TypedInv
<1>3. TaskOK'
  BY NoTaskTyped DEF Crash, TypedInv, TaskOK, SoundTasks, NoTask
<1>4. (netpol # None /\ netpol.owner \in Uids) \in BOOLEAN
  OBVIOUS
<1>5. RuntimeOK'
  BY <1>4 DEF Crash, TypedInv, RuntimeOK
<1>. QED BY <1>1, <1>2, <1>3, <1>5 DEF TypedInv

\* Users write the policy: every process will be told.
LEMMA PolicyWriteTyped ==
    ASSUME TypedInv,
           \/ \E s \in Specs : CreatePolicy(s) \/ UpdateSpec(s)
           \/ MarkDeleting \/ RemovePolicy
    PROVE  TypedInv'
<1>1. RecOK' /\ TaskOK'
  BY Unchanged DEF CreatePolicy, UpdateSpec, MarkDeleting, RemovePolicy
<1>2. RuntimeOK'
  BY DEF CreatePolicy, UpdateSpec, MarkDeleting, RemovePolicy, PolicyChanged, TypedInv, RuntimeOK
<1>3. ClusterOK'
  <2>1. ASSUME NEW s \in Specs, CreatePolicy(s) PROVE ClusterOK'
    BY <2>1, ReconcilerAssumption DEF CreatePolicy, TypedInv, ClusterOK, Policies, Uids
  <2>2. ASSUME NEW s \in Specs, UpdateSpec(s) PROVE ClusterOK'
    BY <2>2 DEF UpdateSpec, TypedInv, ClusterOK, Policies
  <2>3. CASE MarkDeleting
    BY <2>3 DEF MarkDeleting, TypedInv, ClusterOK, Policies
  <2>4. CASE RemovePolicy
    BY <2>4, NoTaskTyped DEF RemovePolicy, TypedInv, ClusterOK
  <2>. QED BY <2>1, <2>2, <2>3, <2>4
<1>. QED BY <1>1, <1>2, <1>3 DEF TypedInv

\* Whatever a user makes of the object of the managed name is a NetworkPolicy.
LEMMA EditedTyped ==
    ASSUME TypedInv, NEW edit \in UserEdits, NEW new \in UserEdited(edit)
    PROVE  new \in Netpols \cup {None}
<1>1. edit \in Edits /\ netpol \in Netpols \cup {None}
  BY ReconcilerAssumption DEF TypedInv, ClusterOK
<1>2. UserNetpols \subseteq Netpols
  BY ReconcilerAssumption DEF Netpols, Owners, NoOwner
<1>3. CASE edit = "create"
  BY <1>2, <1>3 DEF UserEdited
<1>4. CASE edit = "delete"
  BY <1>4 DEF UserEdited
<1>5. CASE edit = "annotate"
  BY <1>1, <1>5 DEF UserEdited, Netpols
<1>6. CASE edit = "strip"
  BY <1>1, <1>6 DEF UserEdited, Netpols
<1>7. CASE edit = "rewrite"
  BY <1>1, <1>7 DEF UserEdited, Netpols
<1>. QED BY <1>1, <1>3, <1>4, <1>5, <1>6, <1>7 DEF Edits

LEMMA NetpolWriteTyped ==
    ASSUME TypedInv, UserEdit \/ GarbageCollect
    PROVE  TypedInv'
<1>1. RecOK' /\ TaskOK'
  BY Unchanged DEF UserEdit, GarbageCollect
<1>2. netpol' \in Netpols \cup {None} /\ npEvent' \in [Instances -> BOOLEAN]
  <2>1. CASE UserEdit
    BY <2>1, EditedTyped, SetNetpolOK DEF UserEdit
  <2>2. CASE GarbageCollect
    BY <2>2, SetNetpolOK DEF GarbageCollect
  <2>. QED BY <2>1, <2>2
<1>. QED BY <1>1, <1>2 DEF UserEdit, GarbageCollect, TypedInv, ClusterOK, RuntimeOK

LEMMA RemoteChangeTyped ==
    ASSUME TypedInv, NEW src \in Sources, RemoteChange(src)
    PROVE  TypedInv'
<1>1. RuntimeOK' /\ RecOK' /\ TaskOK'
  BY Unchanged DEF RemoteChange
<1>2. \A s \in Sources : remote'[s] \in Published[s]
  BY DEF RemoteChange, TypedInv, ClusterOK
<1>. QED BY <1>1, <1>2 DEF RemoteChange, TypedInv, ClusterOK

LEMMA InitTyped == Init => TypedInv
<1> SUFFICES ASSUME Init PROVE TypedInv
  OBVIOUS
<1>1. ClusterOK
  BY NoTaskTyped, ReconcilerAssumption DEF Init, ClusterOK, Netpols, Owners, NoOwner
<1>2. RuntimeOK
  BY DEF Init, RuntimeOK
<1>3. RecOK
  BY IdleSound DEF Init, RecOK, SoundReconciles
<1>4. TaskOK
  BY NoTaskTyped DEF Init, TaskOK, SoundTasks, NoTask
<1>. QED BY <1>1, <1>2, <1>3, <1>4 DEF TypedInv

LEMMA NextTyped == TypedInv /\ [Next]_vars => TypedInv'
<1> SUFFICES ASSUME TypedInv, [Next]_vars PROVE TypedInv'
  OBVIOUS
<1>1. ASSUME NEW i \in Instances, Reconcile(i) PROVE TypedInv'
  BY <1>1, StartTyped, RejectSpecTyped, FetchPointerTyped, FetchTyped, GetNetpolTyped,
     ReportCollisionTyped, ApplyTyped, FailuresTyped, PatchStatusTyped, PublishOutcomeTyped,
     CleanupDeleteTyped, CleanupEventTyped DEF Reconcile
<1>2. ASSUME NEW t \in Tasks, HandleFailure(t) PROVE TypedInv'
  BY <1>2, TaskReadTyped, TaskPatchTyped, TaskEndsTyped DEF HandleFailure
<1>3. CASE Disruption
  BY <1>3, ApplyTyped, PatchStatusTyped, CleanupDeleteTyped, FailuresTyped, CrashTyped,
     TaskPatchTyped, TaskEndsTyped DEF Disruption
<1>4. CASE Environment
  BY <1>4, PolicyWriteTyped, NetpolWriteTyped, RemoteChangeTyped DEF Environment
<1>5. CASE UNCHANGED vars
  BY <1>5, Unchanged DEF vars, cluster, runtime, TypedInv
<1>6. ASSUME NEW i \in Instances, DeliverPolicy(i) \/ DeliverNetpol(i) \/ TimerFires(i)
      PROVE  TypedInv'
  BY <1>6, RuntimeTyped
<1>7. CASE GarbageCollect
  BY <1>7, NetpolWriteTyped
<1>. QED BY <1>1, <1>2, <1>3, <1>4, <1>5, <1>6, <1>7 DEF Next, Work

\* Every variable keeps its type, and every reconcile and failure task has established at each await
\* what the code before that await checks.
THEOREM TypeCorrect == Spec => [](TypeOK /\ SoundReconciles /\ SoundTasks)
<1>1. TypedInv => TypeOK /\ SoundReconciles /\ SoundTasks
  BY TypedInvIsTypeOK
<1>. QED BY <1>1, InitTyped, NextTyped, PTL DEF Spec

-----------------------------------------------------------------------------
(* What the controller does to the NetworkPolicy *)

\* The object that is overwritten or deleted is not the one that was read, unless it is the
\* controller's own: the record of the read says whose object it was.
THEOREM OwnershipChecked == Spec => TouchesOnlyChecked
<1> DEFINE Checked ==
      \A i \in Instances :
         /\ rec[i].pc \in {"apply", "cleanupDelete"} /\ rec'[i] # rec[i]
         /\ netpol' # netpol /\ netpol # None /\ ~ProvablyOwned(rec[i].pol)
         => netpol # rec[i].existing
<1>1. ASSUME TypedInv PROVE Checked
  <2> SUFFICES ASSUME NEW i \in Instances, rec[i].pc \in {"apply", "cleanupDelete"},
                      netpol # None, netpol = rec[i].existing
               PROVE  ProvablyOwned(rec[i].pol)
    OBVIOUS
  <2>1. IsManagedNetworkPolicyFor(rec[i].pol, rec[i].existing)
    BY <1>1, RecordTyped DEF Sound
  <2>. QED BY <2>1 DEF IsManagedNetworkPolicyFor, ProvablyOwned
<1>2. TypedInv /\ [Next]_vars => [Checked]_vars
  BY <1>1
<1>. QED BY <1>2, InitTyped, NextTyped, PTL DEF Spec, TouchesOnlyChecked

\* A step of process i changes the record of no other process.
LEMMA OwnRecord ==
    ASSUME NEW i \in Instances, NEW j \in Instances, i # j, RecOK, NEW reply,
           ApplyNetpol(i, reply) \/ CleanupDelete(i, reply)
    PROVE  rec'[j] = rec[j]
  BY DEF ApplyNetpol, CleanupDelete, Answered, Goto, Fail, Finish, RecOK

\* The steps that change the NetworkPolicy.
LEMMA NetpolWriters ==
    ASSUME [Next]_vars, netpol' # netpol
    PROVE  \/ \E i \in Instances, reply \in {"ok", "lost"} :
                 ApplyNetpol(i, reply) \/ CleanupDelete(i, reply)
           \/ UNCHANGED rec
<1>1. ASSUME NEW i \in Instances, Reconcile(i)
      PROVE  ApplyNetpol(i, "ok") \/ CleanupDelete(i, "ok")
  BY <1>1 DEF Reconcile, cluster, StartMissing, Start, RejectSpec, FetchPointer, Fetch, GetNetpol,
     ReportCollision, ApplyRefused, PatchStatus, PatchStatusMissing, PublishOutcome, CleanupEvent
<1>2. ASSUME NEW i \in Instances, DeliverPolicy(i) \/ DeliverNetpol(i) \/ TimerFires(i)
      PROVE  UNCHANGED rec
  BY <1>2 DEF DeliverPolicy, DeliverNetpol, TimerFires
<1>3. ASSUME NEW t \in Tasks, HandleFailure(t) PROVE UNCHANGED rec
  BY <1>3 DEF HandleFailure, TaskRead, TaskPatch, TaskPatchMissing, TaskReport
<1>4. CASE GarbageCollect
  BY <1>4 DEF GarbageCollect
<1>5. CASE Environment
  BY <1>5 DEF Environment, CreatePolicy, UpdateSpec, MarkDeleting, RemovePolicy, UserEdit,
     RemoteChange
<1>6. CASE Disruption
  BY <1>6 DEF Disruption, PatchStatus, CallFails, Crash, TaskPatch, TaskFails, cluster
<1>7. CASE UNCHANGED vars
  BY <1>7 DEF vars
<1>. QED BY <1>1, <1>2, <1>3, <1>4, <1>5, <1>6, <1>7 DEF Next, Work

\* Whatever fails, the NetworkPolicy only ever becomes the complete rendering of an accepted spec and
\* an accepted document of that spec's own source.
THEOREM NoPartialWrite == Spec => WritesWholeSource
<1> DEFINE Whole(i) ==
      /\ Defect(rec[i].pol.spec) = "none" /\ ~rec[i].pol.deleting
      /\ netpol'.owner = rec[i].pol.uid
      /\ \E cidrs \in WholeLists(rec[i].pol.spec) :
            netpol'.spec = Returned(RenderSpec(rec[i].pol.spec, cidrs))
<1> DEFINE Step ==
      \A i \in Instances :
         rec[i].pc = "apply" /\ rec'[i] # rec[i] /\ netpol' # netpol => Whole(i)
<1>1. ASSUME TypedInv, [Next]_vars PROVE Step
  <2> SUFFICES ASSUME NEW i \in Instances, rec[i].pc = "apply", rec'[i] # rec[i],
                      netpol' # netpol
               PROVE  Whole(i)
    OBVIOUS
  <2>1. PICK j \in Instances, reply \in {"ok", "lost"} :
           ApplyNetpol(j, reply) \/ CleanupDelete(j, reply)
    BY <1>1, NetpolWriters
  <2>2. j = i
    BY <1>1, <2>1, OwnRecord DEF TypedInv
  <2>3. ApplyNetpol(i, reply)
    BY <2>1, <2>2 DEF CleanupDelete
  <2>4. netpol' = ServerSideApply(netpol, Desired(i))
    BY <2>3 DEF ApplyNetpol, SetNetpol
  <2>. QED BY <1>1, <2>4, ApplyWrites
<1>2. TypedInv /\ [Next]_vars => [Step]_vars
  BY <1>1
<1>. QED BY <1>2, InitTyped, NextTyped, PTL DEF Spec, WritesWholeSource

\* The apply that follows a spurious difference leaves an object that is in force as it is.
THEOREM ReapplyIsNoChange == Spec => ReapplyChangesNothing
<1> DEFINE Kept ==
      \A i \in Instances :
         rec[i].pc = "apply" /\ rec'[i] # rec[i] /\ InForce(i) => netpol' = netpol
<1>1. ASSUME TypedInv, [Next]_vars PROVE Kept
  <2> SUFFICES ASSUME NEW i \in Instances, rec[i].pc = "apply", rec'[i] # rec[i], InForce(i),
                      netpol' # netpol
               PROVE  FALSE
    OBVIOUS
  <2>1. PICK j \in Instances, reply \in {"ok", "lost"} :
           ApplyNetpol(j, reply) \/ CleanupDelete(j, reply)
    BY <1>1, NetpolWriters
  <2>2. j = i
    BY <1>1, <2>1, OwnRecord DEF TypedInv
  <2>3. netpol' = ServerSideApply(netpol, Desired(i))
    BY <2>1, <2>2 DEF CleanupDelete, ApplyNetpol, SetNetpol
  <2>4. /\ netpol \in Netpols /\ netpol' \in Netpols
        /\ netpol'.owner = netpol.owner /\ netpol'.spec = netpol.spec
    BY <1>1, <2>3, ApplyWrites DEF InForce, ProvablyOwned, TypedInv, ClusterOK
  <2>5. netpol'.marked = netpol.marked /\ netpol'.extra = netpol.extra
    BY <2>3, <2>4, ReconcilerAssumption
    DEF ServerSideApply, Desired, BuildManagedNetworkPolicy, InForce, ProvablyOwned, Netpols
  <2>. QED BY <2>4, <2>5 DEF Netpols
<1>2. TypedInv /\ [Next]_vars => [Kept]_vars
  BY <1>1
<1>. QED BY <1>2, InitTyped, NextTyped, PTL DEF Spec, ReapplyChangesNothing

-----------------------------------------------------------------------------
(* No lost wake-up *)

AllInformed == \A i \in Instances : Informed(i)

\* Watch events that are under way stay so; a change of the NetworkPolicy that could make it the
\* policy's own is under way to everybody.
Raised == \A i \in Instances : (polEvent[i] => polEvent'[i]) /\ (npEvent[i] => npEvent'[i])
Noticed ==
    netpol' = netpol \/ netpol' = None \/ netpol'.owner \notin Uids \/ \A i \in Instances : npEvent'[i]

\* A step of process i, which goes on with its reconcile or returns from it with a time to come back.
OnlyAt(i) == \A j \in Instances \ {i} : rec'[j] = rec[j] /\ due'[j] = due[j]
GoesOn(i) ==
    /\ rec[i].pc # "idle" /\ rec'[i].pc # "idle" /\ rec'[i].pol = rec[i].pol
    /\ due'[i] = due[i]
    /\ rec'[i].pc = "cleanupEvent" => netpol' = None
Returns(i) == rec'[i].pc = "idle" /\ due'[i] # "none"

\* A process whose own record does not change stays informed when the policy is unchanged or its
\* change is announced.
LEMMA StaysInformed ==
    ASSUME TypedInv, NEW i \in Instances, Informed(i), Raised, Noticed,
           rec'[i] = rec[i], due'[i] = due[i], store'[i] = store[i],
           policy' = policy \/ polEvent'[i]
    PROVE  Informed(i)'
<1>1. policy # None => policy.uid \in Uids
  BY DEF TypedInv, ClusterOK, Policies
<1>2. CASE polEvent'[i]
  BY <1>2 DEF Informed, Pending
<1>3. CASE policy' = policy /\ ~polEvent'[i]
  <2>1. policy # None /\ ProvablyOwned(policy)' => ProvablyOwned(policy) \/ npEvent'[i]
    BY <1>1, <1>3 DEF Noticed, ProvablyOwned
  <2>2. store'[i] = policy'
    BY <1>3 DEF Informed, Raised
  <2>3. rec'[i].pc # "idle" => rec'[i].pol = store'[i] \/ store'[i] = None \/ due'[i] = "now"
    BY DEF Informed
  <2>4. rec'[i].pc = "cleanupEvent" /\ policy' # None /\ ProvablyOwned(policy)'
            => npEvent'[i] \/ due'[i] = "now"
    BY <1>3, <2>1 DEF Informed, Raised
  <2>5. policy' # None /\ (policy'.deleting => ProvablyOwned(policy)') => Pending(i)'
    BY <1>3, <2>1 DEF Informed, Raised, Pending
  <2>. QED BY <2>2, <2>3, <2>4, <2>5 DEF Informed
<1>. QED BY <1>2, <1>3

LEMMA StepInformed ==
    ASSUME TypedInv, AllInformed, NEW i \in Instances, Raised, Noticed, OnlyAt(i),
           UNCHANGED <<policy, store>>, GoesOn(i) \/ Returns(i)
    PROVE  AllInformed'
<1>1. ASSUME NEW j \in Instances, j # i PROVE Informed(j)'
  BY <1>1, StaysInformed DEF AllInformed, OnlyAt
<1>2. CASE GoesOn(i)
  <2>1. Informed(i)'
    BY <1>2 DEF GoesOn, AllInformed, Informed, Pending, Raised, ProvablyOwned
  <2>. QED BY <1>1, <2>1 DEF AllInformed
<1>3. CASE Returns(i)
  <2>1. Informed(i)'
    BY <1>3 DEF Returns, AllInformed, Informed, Pending, Raised
  <2>. QED BY <1>1, <2>1 DEF AllInformed
<1>. QED BY <1>2, <1>3

LEMMA FinishReturns ==
    ASSUME TypedInv, NEW i \in Instances, NEW when \in {"retry", "resync"}, Finish(i, when)
    PROVE  OnlyAt(i) /\ Returns(i)
  BY DEF Finish, TypedInv, RecOK, RuntimeOK, OnlyAt, Returns, Idle

LEMMA FailReturns ==
    ASSUME TypedInv, NEW i \in Instances, NEW stage, Fail(i, stage) \/ Requeue(i)
    PROVE  OnlyAt(i) /\ Returns(i)
  BY FinishReturns DEF Fail, Requeue

LEMMA GotoGoesOn ==
    ASSUME TypedInv, NEW i \in Instances, NEW pc \in Awaits, rec[i].pc # "idle",
           Goto(i, pc), UNCHANGED due, pc = "cleanupEvent" => netpol' = None
    PROVE  OnlyAt(i) /\ GoesOn(i)
<1>1. rec[i] \in Reconciles
  BY RecordTyped
<1>2. rec'[i] = [rec[i] EXCEPT !.pc = pc, !.existing = None]
  BY DEF Goto, TypedInv, RecOK
<1>3. rec'[i].pc = pc /\ rec'[i].pol = rec[i].pol
  BY <1>1, <1>2 DEF Reconciles
<1>4. OnlyAt(i)
  BY DEF Goto, OnlyAt, TypedInv, RecOK
<1>. QED BY <1>3, <1>4 DEF GoesOn, Awaits

LEMMA SetNetpolNoticed ==
    ASSUME TypedInv, NEW new \in Netpols \cup {None}, SetNetpol(new)
    PROVE  Noticed /\ \A i \in Instances : npEvent[i] => npEvent'[i]
  BY DEF SetNetpol, Noticed

\* The steps of a reconcile go on or return, and are steps of no other.
LEMMA QuietStepsMove ==
    ASSUME TypedInv, NEW i \in Instances,
           \/ RejectSpec(i) \/ FetchPointer(i) \/ Fetch(i) \/ GetNetpol(i) \/ ReportCollision(i)
           \/ ApplyRefused(i) \/ PatchStatusMissing(i) \/ PublishOutcome(i) \/ CallFails(i)
    PROVE  OnlyAt(i) /\ (GoesOn(i) \/ Returns(i))
<1>1. CASE \/ RejectSpec(i) \/ ReportCollision(i) \/ ApplyRefused(i)
           \/ PatchStatusMissing(i) \/ PublishOutcome(i) \/ CallFails(i)
  BY <1>1, FailReturns DEF RejectSpec, ReportCollision, ApplyRefused, PatchStatusMissing,
     PublishOutcome, CallFails
<1>2. CASE FetchPointer(i)
  <2>1. CASE Fail(i, "pointer-retrieval") \/ Fail(i, "pointer-extraction")
    BY <2>1, FailReturns
  <2>2. ASSUME NEW final, rec' = [rec EXCEPT ![i].pc = "fetch", ![i].source = final],
               UNCHANGED due
        PROVE  OnlyAt(i) /\ GoesOn(i)
    BY <1>2, <2>2, RecordTyped
       DEF FetchPointer, OnlyAt, GoesOn, TypedInv, RecOK, Reconciles
  <2>. QED BY <1>2, <2>1, <2>2 DEF FetchPointer
<1>3. CASE Fetch(i)
  <2>1. ASSUME NEW cidrs,
               rec' = [rec EXCEPT ![i].pc = "get", ![i].source = None, ![i].cidrs = cidrs],
               UNCHANGED due
        PROVE  OnlyAt(i) /\ GoesOn(i)
    BY <1>3, <2>1, RecordTyped DEF Fetch, OnlyAt, GoesOn, TypedInv, RecOK, Reconciles
  <2>. QED BY <1>3, <2>1, FailReturns DEF Fetch
<1>4. CASE GetNetpol(i)
  <2> DEFINE pol == rec[i].pol
             same == netpol # None /\ ManagedPolicyMatches(netpol, Desired(i))
             pc == IF Foreign(pol, netpol) THEN "collision"
                   ELSE IF pol.deleting
                        THEN IF netpol = None THEN "cleanupEvent" ELSE "cleanupDelete"
                   ELSE IF same THEN "status" ELSE "apply"
             outcome == IF same THEN "NoChange" ELSE "Reconciled"
             r == [rec[i] EXCEPT !.pc = pc, !.existing = netpol, !.outcome = outcome]
  <2>1. rec' = [rec EXCEPT ![i] = r] /\ UNCHANGED <<due, netpol>> /\ rec[i].pc = "get"
    BY <1>4 DEF GetNetpol, runtime, cluster
  <2>2. pc # "idle" /\ (pc = "cleanupEvent" => netpol = None)
    OBVIOUS
  <2> HIDE DEF pc, outcome
  <2>3. r.pc = pc /\ r.pol = rec[i].pol
    BY RecordTyped DEF Reconciles
  <2> HIDE DEF r
  <2>4. OnlyAt(i) /\ rec'[i] = r
    BY <2>1 DEF OnlyAt, TypedInv, RecOK
  <2>. QED BY <2>1, <2>2, <2>3, <2>4 DEF GoesOn
<1>. QED BY <1>1, <1>2, <1>3, <1>4

LEMMA WriteStepsMove ==
    ASSUME TypedInv, NEW i \in Instances, NEW reply,
           ApplyNetpol(i, reply) \/ PatchStatus(i, reply) \/ CleanupDelete(i, reply)
    PROVE  OnlyAt(i) /\ (GoesOn(i) \/ Returns(i))
<1>1. CASE Fail(i, "kubernetes-api") \/ Requeue(i)
  BY <1>1, FailReturns
<1>2. CASE ApplyNetpol(i, reply) /\ Goto(i, "status") /\ UNCHANGED due
  BY <1>2, GotoGoesOn DEF ApplyNetpol, Awaits
<1>3. CASE PatchStatus(i, reply) /\ Goto(i, "event") /\ UNCHANGED due
  BY <1>3, GotoGoesOn DEF PatchStatus, Awaits
<1>4. CASE CleanupDelete(i, reply) /\ Goto(i, "cleanupEvent") /\ UNCHANGED due
  BY <1>4, GotoGoesOn DEF CleanupDelete, SetNetpol, Awaits
<1>. QED BY <1>1, <1>2, <1>3, <1>4 DEF ApplyNetpol, PatchStatus, CleanupDelete, Answered

\* The steps of a reconcile that go on or fail and leave policy, NetworkPolicy and watches alone.
LEMMA QuietStepsInformed ==
    ASSUME TypedInv, AllInformed, NEW i \in Instances,
           \/ RejectSpec(i) \/ FetchPointer(i) \/ Fetch(i) \/ GetNetpol(i) \/ ReportCollision(i)
           \/ ApplyRefused(i) \/ PatchStatusMissing(i) \/ PublishOutcome(i) \/ CallFails(i)
    PROVE  AllInformed'
<1>1. UNCHANGED <<policy, store, netpol, polEvent, npEvent>>
  BY DEF RejectSpec, FetchPointer, Fetch, GetNetpol, ReportCollision, ApplyRefused,
     PatchStatusMissing, PublishOutcome, CallFails, cluster, runtime
<1>2. Raised /\ Noticed
  BY <1>1 DEF Raised, Noticed
<1>3. OnlyAt(i) /\ (GoesOn(i) \/ Returns(i))
  BY QuietStepsMove
<1>. QED BY <1>1, <1>2, <1>3, StepInformed

\* The steps of a reconcile that write the NetworkPolicy or the status.
LEMMA WriteStepsInformed ==
    ASSUME TypedInv, AllInformed, NEW i \in Instances, NEW reply,
           ApplyNetpol(i, reply) \/ PatchStatus(i, reply) \/ CleanupDelete(i, reply)
    PROVE  AllInformed'
<1>1. UNCHANGED <<policy, store>>
  BY DEF ApplyNetpol, PatchStatus, CleanupDelete
<1>2. Raised /\ Noticed
  <2>1. CASE ApplyNetpol(i, reply)
    BY <2>1, ApplyWrites, SetNetpolNoticed DEF ApplyNetpol, Raised
  <2>2. CASE CleanupDelete(i, reply)
    BY <2>2, SetNetpolNoticed DEF CleanupDelete, Raised
  <2>3. CASE PatchStatus(i, reply)
    BY <2>3 DEF PatchStatus, PolicyChanged, Raised, Noticed
  <2>. QED BY <2>1, <2>2, <2>3
<1>3. OnlyAt(i) /\ (GoesOn(i) \/ Returns(i))
  BY WriteStepsMove
<1>. QED BY <1>1, <1>2, <1>3, StepInformed

\* The end of cleanup sets no timer: the policy it was called for is still the one there is, or the
\* process is about to be told, and what became of the NetworkPolicy since is under way too.
LEMMA CleanupEventInformed ==
    ASSUME TypedInv, AllInformed, NEW i \in Instances, CleanupEvent(i)
    PROVE  AllInformed'
<1>1. UNCHANGED <<policy, store, netpol, polEvent, npEvent>>
  BY DEF CleanupEvent
<1>2. \A j \in Instances \ {i} : rec'[j] = rec[j] /\ due'[j] = due[j]
  BY DEF CleanupEvent, Finish, TypedInv, RecOK, RuntimeOK
<1>3. ASSUME NEW j \in Instances, j # i PROVE Informed(j)'
  BY <1>1, <1>2, <1>3, StaysInformed DEF AllInformed, Raised, Noticed
<1>4. rec'[i].pc = "idle" /\ due'[i] = (IF due[i] = "now" THEN "now" ELSE "none")
  BY DEF CleanupEvent, Finish, TypedInv, RecOK, RuntimeOK, Idle
<1>5. Informed(i) /\ rec[i].pc = "cleanupEvent" /\ rec[i].pol.deleting
  BY RecordTyped DEF CleanupEvent, AllInformed, Sound
<1>6. Informed(i)'
  BY <1>1, <1>4, <1>5 DEF Informed, Pending, ProvablyOwned
<1>. QED BY <1>3, <1>6 DEF AllInformed

\* A request is taken up, or dropped because the store of the process has no such policy.
LEMMA StartInformed ==
    ASSUME TypedInv, AllInformed, NEW i \in Instances, StartMissing(i) \/ Start(i)
    PROVE  AllInformed'
<1>1. UNCHANGED <<policy, store, netpol, polEvent, npEvent>>
  BY DEF StartMissing, Start, cluster
<1>2. \A j \in Instances \ {i} : rec'[j] = rec[j] /\ due'[j] = due[j]
  BY DEF StartMissing, Start, TypedInv, RecOK, RuntimeOK
<1>3. ASSUME NEW j \in Instances, j # i PROVE Informed(j)'
  BY <1>1, <1>2, <1>3, StaysInformed DEF AllInformed, Raised, Noticed
<1>4. CASE Start(i)
  <2>1. rec'[i].pc \in {"get", "invalid", "pointer", "fetch"} /\ rec'[i].pol = store[i]
    BY <1>4 DEF Start, FirstAwait, TypedInv, RecOK
  <2>2. Informed(i)'
    BY <1>1, <2>1 DEF AllInformed, Informed, Pending
  <2>. QED BY <1>3, <2>2 DEF AllInformed
<1>5. CASE StartMissing(i)
  <2>1. Informed(i)'
    BY <1>1, <1>5 DEF StartMissing, Begin, AllInformed, Informed, Pending
  <2>. QED BY <1>3, <2>1 DEF AllInformed
<1>. QED BY <1>4, <1>5

LEMMA RuntimeInformed ==
    ASSUME TypedInv, AllInformed, NEW i \in Instances,
           DeliverPolicy(i) \/ DeliverNetpol(i) \/ TimerFires(i) \/ Crash(i)
    PROVE  AllInformed'
<1>1. UNCHANGED <<policy, netpol>>
  BY DEF DeliverPolicy, DeliverNetpol, TimerFires, Crash, cluster
<1>2. \A j \in Instances \ {i} :
        /\ rec'[j] = rec[j] /\ due'[j] = due[j] /\ store'[j] = store[j]
        /\ polEvent'[j] = polEvent[j] /\ npEvent'[j] = npEvent[j]
  BY DEF DeliverPolicy, DeliverNetpol, TimerFires, Crash, TypedInv, RecOK, RuntimeOK
<1>3. ASSUME NEW j \in Instances, j # i PROVE Informed(j)'
  BY <1>1, <1>2, <1>3 DEF AllInformed, Informed, Pending, ProvablyOwned
<1>4. Informed(i)'
  <2>1. CASE DeliverPolicy(i)
    BY <1>1, <2>1 DEF DeliverPolicy, AllInformed, Informed, Pending, TypedInv, RuntimeOK,
       ProvablyOwned
  <2>2. CASE DeliverNetpol(i)
    BY <1>1, <2>2 DEF DeliverNetpol, AllInformed, Informed, Pending, TypedInv, RuntimeOK
  <2>3. CASE TimerFires(i)
    BY <1>1, <2>3 DEF TimerFires, AllInformed, Informed, Pending, TypedInv, RuntimeOK
  <2>4. CASE Crash(i)
    BY <1>1, <2>4 DEF Crash, Informed, Pending, TypedInv, RuntimeOK, RecOK, Idle
  <2>. QED BY <2>1, <2>2, <2>3, <2>4
<1>. QED BY <1>3, <1>4 DEF AllInformed

\* What tasks, users, sources and the garbage collector do changes no reconcile.
LEMMA OthersInformed ==
    ASSUME TypedInv, AllInformed, UNCHANGED <<rec, due, store>>, Raised, Noticed,
           policy' = policy \/ \A i \in Instances : polEvent'[i]
    PROVE  AllInformed'
  BY StaysInformed DEF AllInformed

LEMMA TaskInformed ==
    ASSUME TypedInv, AllInformed, NEW t \in Tasks, NEW reply,
           \/ TaskRead(t) \/ TaskPatch(t, reply) \/ TaskPatchMissing(t) \/ TaskReport(t)
           \/ TaskFails(t)
    PROVE  AllInformed'
<1>1. UNCHANGED <<rec, due, store, policy, netpol, npEvent>>
  BY DEF TaskRead, TaskPatch, TaskPatchMissing, TaskReport, TaskFails, cluster, runtime
<1>2. Raised
  BY <1>1 DEF TaskRead, TaskPatch, TaskPatchMissing, TaskReport, TaskFails, runtime, Raised,
     PolicyChanged
<1>. QED BY <1>1, <1>2, OthersInformed DEF Noticed

LEMMA EnvironmentInformed ==
    ASSUME TypedInv, AllInformed, Environment \/ GarbageCollect
    PROVE  AllInformed'
<1>1. CASE \/ \E s \in Specs : CreatePolicy(s) \/ UpdateSpec(s)
           \/ MarkDeleting \/ RemovePolicy
  <2>1. UNCHANGED <<rec, due, store, netpol, npEvent>> /\ \A i \in Instances : polEvent'[i]
    BY <1>1 DEF CreatePolicy, UpdateSpec, MarkDeleting, RemovePolicy, PolicyChanged
  <2>. QED BY <2>1, OthersInformed DEF Raised, Noticed
<1>2. CASE UserEdit
  <2>1. PICK edit \in UserEdits : \E new \in UserEdited(edit) : SetNetpol(new)
    BY <1>2 DEF UserEdit
  <2>2. PICK new \in UserEdited(edit) : SetNetpol(new)
    BY <2>1
  <2>3. Noticed /\ Raised
    BY <1>2, <2>2, EditedTyped, SetNetpolNoticed DEF UserEdit, Raised
  <2>. QED BY <1>2, <2>3, OthersInformed DEF UserEdit
<1>3. CASE GarbageCollect
  <2>1. Noticed /\ Raised
    BY <1>3, SetNetpolNoticed DEF GarbageCollect, Raised
  <2>. QED BY <1>3, <2>1, OthersInformed DEF GarbageCollect
<1>4. ASSUME NEW src \in Sources, RemoteChange(src) PROVE AllInformed'
  BY <1>4, OthersInformed DEF RemoteChange, runtime, Raised, Noticed
<1>. QED BY <1>1, <1>2, <1>3, <1>4 DEF Environment

LEMMA InitInformed == Init => AllInformed
  BY DEF Init, AllInformed, Informed, Idle

LEMMA NextInformed == TypedInv /\ AllInformed /\ [Next]_vars => AllInformed'
<1> SUFFICES ASSUME TypedInv, AllInformed, [Next]_vars PROVE AllInformed'
  OBVIOUS
<1>1. ASSUME NEW i \in Instances, Reconcile(i) PROVE AllInformed'
  BY <1>1, QuietStepsInformed, WriteStepsInformed, CleanupEventInformed, StartInformed
     DEF Reconcile
<1>2. ASSUME NEW i \in Instances, DeliverPolicy(i) \/ DeliverNetpol(i) \/ TimerFires(i)
      PROVE  AllInformed'
  BY <1>2, RuntimeInformed
<1>3. ASSUME NEW t \in Tasks, HandleFailure(t) PROVE AllInformed'
  BY <1>3, TaskInformed DEF HandleFailure
<1>4. CASE Disruption
  BY <1>4, WriteStepsInformed, QuietStepsInformed, RuntimeInformed, TaskInformed DEF Disruption
<1>5. CASE Environment \/ GarbageCollect
  BY <1>5, EnvironmentInformed
<1>6. CASE UNCHANGED vars
  BY <1>6, OthersInformed DEF vars, Raised, Noticed
<1>. QED BY <1>1, <1>2, <1>3, <1>4, <1>5, <1>6 DEF Next, Work

\* The invariant of the safety properties is inductive.
THEOREM Inductive == Spec => []IInv
<1>1. TypedInv /\ AllInformed => IInv
  BY TypedInvIsTypeOK DEF IInv, AllInformed
<1>. QED BY <1>1, InitTyped, InitInformed, NextTyped, NextInformed, PTL DEF Spec

\* In every process a live policy, or a deleted one whose NetworkPolicy is still there, always has a
\* reconcile under way or coming.
THEOREM NoLostWakeUp == Spec => []NeverForgotten
<1>1. IInv => NeverForgotten
  BY DEF IInv, Informed, NeverForgotten
<1>. QED BY <1>1, Inductive, PTL
=============================================================================
