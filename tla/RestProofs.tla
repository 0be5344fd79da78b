----------------------------- MODULE RestProofs -----------------------------
(***************************************************************************)
(* Proofs that the controller leaves a cluster at rest in peace, for all   *)
(* values of the constants of Reconciler.                                  *)
(***************************************************************************)
EXTENDS OutcomeProofs

-----------------------------------------------------------------------------
(* What the policy wants *)

\* A pointer page yields one address, and a document one list.
LEMMA OneFinalSource ==
    ASSUME TypedInv, policy # None,
           NEW a \in FinalSources(policy.spec), NEW b \in FinalSources(policy.spec)
    PROVE  a = b
<1>1. policy.spec.source \in Sources
  BY SpecFacts DEF TypedInv, ClusterOK, Policies
<1>2. remote[policy.spec.source].captures \in Options(Sources)
  BY <1>1, ReconcilerAssumption DEF TypedInv, ClusterOK, Documents
<1>. QED BY <1>2 DEF FinalSources, Resolved, Options

LEMMA WantedYields ==
    ASSUME TypedInv, policy # None, Defect(policy.spec) = "none",
           NEW src \in FinalSources(policy.spec)
    PROVE  Wanted = Yields(remote[src])
<1>1. FinalSources(policy.spec) = {src}
  BY OneFinalSource
<1>. QED BY <1>1 DEF Wanted

LEMMA OneWanted ==
    ASSUME TypedInv, policy # None, NEW cidrs \in Wanted
    PROVE  Wanted = {cidrs}
<1>1. Defect(policy.spec) = "none"
  BY DEF Wanted
<1>2. PICK src \in FinalSources(policy.spec) : cidrs \in Yields(remote[src])
  BY <1>1 DEF Wanted
<1>3. Wanted = Yields(remote[src])
  BY <1>1, <1>2, WantedYields
<1>. QED BY <1>2, <1>3 DEF Yields

-----------------------------------------------------------------------------
(* What a step leaves as it is *)

\* Neither the policy nor what it wants changes, and whether its name is taken only matters while it is
\* not under deletion.
SameWorld == UNCHANGED <<policy, remote>> /\ ((Taken' <=> Taken) \/ policy.deleting)

LEMMA SameWanted ==
    ASSUME UNCHANGED <<policy, remote>>
    PROVE  Wanted' = Wanted /\ FinalSources(policy.spec)' = FinalSources(policy.spec)
  BY DEF Wanted, FinalSources

LEMMA SameNetpol ==
    ASSUME UNCHANGED <<policy, remote, netpol>>
    PROVE  SameWorld
  BY DEF SameWorld, Taken, ProvablyOwned

LEMMA StillExpected ==
    ASSUME SameWorld, NEW stage, Expected(stage)
    PROVE  Expected(stage)'
  BY SameWanted DEF SameWorld, Expected

LEMMA StillInSync ==
    ASSUME UNCHANGED <<policy, remote, netpol, status>>, InSync, ~Dangling
    PROVE  InSync' /\ ~Dangling'
<1>1. Taken' <=> Taken
  BY DEF Taken, ProvablyOwned
<1>2. Wanted' = Wanted
  BY SameWanted
<1>3. InSync'
  BY <1>1, <1>2 DEF InSync, Uids
<1>4. ~Dangling'
  BY DEF Dangling, Uids
<1>. QED BY <1>3, <1>4

LEMMA StillUpToDate ==
    ASSUME SameWorld, NEW i \in Instances, UpToDate(i), rec'[i] = rec[i], store'[i] = store[i]
    PROVE  UpToDate(i)'
<1>1. Wanted' = Wanted /\ FinalSources(policy.spec)' = FinalSources(policy.spec)
  BY SameWanted DEF SameWorld
<1>2. FinalSources(policy.spec)' = FinalSources(policy.spec)
  BY <1>1
<1>. QED BY <1>1 DEF UpToDate, SameWorld

AllUpToDate == \A i \in Instances : UpToDate(i)
AllExpected == \A t \in Tasks : task[t].pc \in {"read", "patch"} => Expected(task[t].stage)

\* A step that only one process makes: the others are as they were.
LEMMA OneMoves ==
    ASSUME SameWorld, AllUpToDate, NEW i \in Instances, OnlyAt(i), UNCHANGED store,
           rec'[i].pc = "idle" \/ UpToDate(i)'
    PROVE  AllUpToDate'
<1>1. ASSUME NEW j \in Instances, j # i PROVE UpToDate(j)'
  BY <1>1, StillUpToDate DEF AllUpToDate, OnlyAt
<1>2. ASSUME rec'[i].pc = "idle" PROVE UpToDate(i)'
  BY <1>2 DEF UpToDate, AllUpToDate, SameWorld
<1>. QED BY <1>1, <1>2 DEF AllUpToDate

LEMMA TasksUnchanged ==
    ASSUME SameWorld, AllExpected, UNCHANGED task
    PROVE  AllExpected'
  BY StillExpected DEF AllExpected

\* A failing reconcile leaves every failure task as it is, or makes it one of its own.
LEMMA FailSpawns ==
    ASSUME TypedInv, NEW i \in Instances, NEW stage, Fail(i, stage), NEW t \in Tasks
    PROVE  \/ task'[t] = task[t]
           \/ task'[t].by = i /\ task'[t].stage = stage
  BY DEF Fail, Spawn, TypedInv, TaskOK

LEMMA FailExpected ==
    ASSUME TypedInv, SameWorld, AllExpected, NEW i \in Instances, NEW stage, Fail(i, stage),
           Expected(stage)
    PROVE  AllExpected'
<1> SUFFICES ASSUME NEW t \in Tasks, task'[t].pc \in {"read", "patch"},
                    NEW s, s = task'[t].stage
             PROVE  Expected(s)'
  BY DEF AllExpected, Expected
<1>1. CASE task'[t] = task[t]
  <2>1. Expected(s)
    BY <1>1 DEF AllExpected
  <2>. QED BY <2>1, StillExpected
<1>2. CASE task'[t].stage = stage
  BY <1>2, StillExpected
<1>. QED BY <1>1, <1>2, FailSpawns

\* A reconcile that fails for the reason there is.
LEMMA FailsAtRest ==
    ASSUME TypedInv, AtRest, NEW i \in Instances, NEW stage, Fail(i, stage), Expected(stage),
           UNCHANGED <<policy, status, netpol, remote, store>>
    PROVE  AtRest'
<1>1. SameWorld /\ InSync' /\ ~Dangling'
  BY SameNetpol, StillInSync DEF AtRest
<1>2. AllUpToDate'
  BY <1>1, FailReturns, OneMoves, Ends DEF AtRest, AllUpToDate
<1>3. AllExpected'
  BY <1>1, FailExpected DEF AtRest, AllExpected
<1>. QED BY <1>1, <1>2, <1>3 DEF AtRest, AllUpToDate, AllExpected

\* A reconcile that goes on to something that is of the moment too.
LEMMA MovesAtRest ==
    ASSUME TypedInv, AtRest, NEW i \in Instances, OnlyAt(i), UpToDate(i)',
           UNCHANGED <<policy, status, netpol, remote, store, task>>
    PROVE  AtRest'
<1>1. SameWorld /\ InSync' /\ ~Dangling'
  BY SameNetpol, StillInSync DEF AtRest
<1>2. AllUpToDate'
  BY <1>1, OneMoves DEF AtRest, AllUpToDate
<1>3. AllExpected'
  BY <1>1, TasksUnchanged DEF AtRest, AllExpected
<1>. QED BY <1>1, <1>2, <1>3 DEF AtRest, AllUpToDate, AllExpected

-----------------------------------------------------------------------------
(* The steps of a reconcile *)

\* What a reconcile at rest knows.
LEMMA Reconciled ==
    ASSUME TypedInv, AtRest, NEW i \in Instances, rec[i].pc # "idle"
    PROVE  /\ policy \in Policies /\ policy # None /\ policy.uid \in Uids /\ policy.spec \in Specs
           /\ rec[i].pol = policy /\ rec[i] \in Reconciles /\ Sound(rec[i]) /\ UpToDate(i)
  BY RecordTyped, ReconcilerAssumption DEF AtRest, UpToDate

LEMMA NothingAtRest ==
    ASSUME AtRest, UNCHANGED <<policy, status, netpol, remote, store, rec, task>>
    PROVE  AtRest'
<1>1. SameWorld /\ InSync' /\ ~Dangling'
  BY SameNetpol, StillInSync DEF AtRest
<1>2. AllUpToDate'
  BY <1>1, StillUpToDate DEF AtRest, AllUpToDate
<1>3. AllExpected'
  BY <1>1, TasksUnchanged DEF AtRest, AllExpected
<1>. QED BY <1>1, <1>2, <1>3 DEF AtRest, AllUpToDate, AllExpected

LEMMA StartAtRest ==
    ASSUME TypedInv, AtRest, NEW i \in Instances, StartMissing(i) \/ Start(i)
    PROVE  AtRest'
<1>1. CASE StartMissing(i)
  BY <1>1, NothingAtRest DEF StartMissing, cluster
<1>2. CASE Start(i)
  <2>1. store[i] = policy /\ policy # None
    BY <1>2 DEF Start, AtRest, UpToDate
  <2>2. /\ rec'[i].pc = FirstAwait(policy) /\ rec'[i].pol = policy
        /\ rec'[i].source = policy.spec.source
    BY <1>2, <2>1 DEF Start, TypedInv, RecOK
  <2>3. \A j \in Instances \ {i} : rec'[j] = rec[j]
    BY <1>2 DEF Start, TypedInv, RecOK
  <2>4. UNCHANGED <<policy, status, netpol, remote, store, task>>
    BY <1>2 DEF Start, cluster
  <2>5. FinalSources(policy.spec)' = FinalSources(policy.spec)
    BY <2>4, SameWanted
  <2>6. FirstAwait(policy) = "fetch" => policy.spec.source \in FinalSources(policy.spec)
    BY DEF FirstAwait, FinalSources
  <2>7. /\ FirstAwait(policy) \in {"get", "invalid", "pointer", "fetch"}
        /\ FirstAwait(policy) = "get" => policy.deleting
    BY DEF FirstAwait
  <2>8. UpToDate(i)'
    BY <2>1, <2>2, <2>4, <2>5, <2>6, <2>7 DEF UpToDate
  <2>9. SameWorld /\ InSync' /\ ~Dangling'
    BY <2>4, SameNetpol, StillInSync DEF AtRest
  <2>10. AllUpToDate'
    BY <2>3, <2>4, <2>8, <2>9, StillUpToDate DEF AtRest, AllUpToDate
  <2>11. AllExpected'
    BY <2>4, <2>9, TasksUnchanged DEF AtRest, AllExpected
  <2>. QED BY <2>9, <2>10, <2>11 DEF AtRest, AllUpToDate, AllExpected
<1>. QED BY <1>1, <1>2

LEMMA RejectSpecAtRest ==
    ASSUME TypedInv, AtRest, NEW i \in Instances, RejectSpec(i)
    PROVE  AtRest'
<1>1. rec[i].pc = "invalid" /\ rec[i].pol = policy /\ policy.spec \in Specs /\ Sound(rec[i])
  BY Reconciled DEF RejectSpec
<1>2. Defect(policy.spec) \in {"validation", "jmespath-compile"}
  BY <1>1, SpecFacts DEF Sound
<1>3. Expected(Defect(policy.spec))
  BY <1>2 DEF Expected, Wanted
<1>. QED BY <1>1, <1>3, FailsAtRest DEF RejectSpec, cluster

LEMMA FetchPointerAtRest ==
    ASSUME TypedInv, AtRest, NEW i \in Instances, FetchPointer(i)
    PROVE  AtRest'
<1> DEFINE document == remote[policy.spec.source]
<1>1. /\ rec[i].pc = "pointer" /\ rec[i].pol = policy /\ rec[i] \in Reconciles
      /\ rec[i].source = policy.spec.source /\ policy.spec.pointer # {}
      /\ UpToDate(i) /\ policy # None
  BY Reconciled DEF FetchPointer, Sound
<1>2. FinalSources(policy.spec) =
        IF document.stage = "transport" THEN {} ELSE Resolved(document)
  BY <1>1 DEF FinalSources
<1>3. UNCHANGED <<policy, status, netpol, remote, store>>
  BY DEF FetchPointer, cluster
<1>4. CASE document.stage = "transport" \/ Resolved(document) = {}
  <2>1. Wanted = {}
    BY <1>2, <1>4 DEF Wanted
  <2>2. Expected("pointer-retrieval") /\ Expected("pointer-extraction")
    BY <2>1 DEF Expected
  <2>3. Fail(i, "pointer-retrieval") \/ Fail(i, "pointer-extraction")
    BY <1>1, <1>4 DEF FetchPointer
  <2>. QED BY <1>3, <2>2, <2>3, FailsAtRest
<1>5. CASE document.stage # "transport" /\ Resolved(document) # {}
  <2>1. PICK final \in Resolved(document) :
           rec' = [rec EXCEPT ![i].pc = "fetch", ![i].source = final]
    BY <1>1, <1>5 DEF FetchPointer
  <2>2. UNCHANGED <<due, task>>
    BY <1>1, <1>5 DEF FetchPointer
  <2>3. rec'[i].pc = "fetch" /\ rec'[i].source = final /\ rec'[i].pol = policy
    BY <1>1, <2>1 DEF TypedInv, RecOK, Reconciles
  <2>4. final \in FinalSources(policy.spec)'
    BY <1>2, <1>3, <1>5, SameWanted
  <2>5. UpToDate(i)'
    BY <1>1, <1>3, <2>3, <2>4 DEF UpToDate
  <2>6. OnlyAt(i)
    BY <2>1, <2>2 DEF OnlyAt, TypedInv, RecOK
  <2>. QED BY <1>3, <2>2, <2>5, <2>6, MovesAtRest
<1>. QED BY <1>4, <1>5

LEMMA FetchAtRest ==
    ASSUME TypedInv, AtRest, NEW i \in Instances, Fetch(i)
    PROVE  AtRest'
<1> DEFINE document == remote[rec[i].source]
           result == ExtractCidrs(document)
<1>1. /\ rec[i].pc = "fetch" /\ rec[i].pol = policy /\ rec[i] \in Reconciles
      /\ rec[i].source \in FinalSources(policy.spec) /\ Defect(policy.spec) = "none"
      /\ ~policy.deleting /\ UpToDate(i) /\ policy # None /\ policy.spec \in Specs
      /\ rec[i].source \in Finals(policy.spec)
  BY Reconciled DEF Fetch, Sound, UpToDate
<1>2. document \in Documents(Sources)
  BY <1>1, SpecFacts, ReconcilerAssumption DEF TypedInv, ClusterOK
<1>3. Wanted = Yields(document)
  BY <1>1, WantedYields
<1>4. UNCHANGED <<policy, status, netpol, remote, store>>
  BY DEF Fetch, cluster
<1>5. /\ result.stage \in DocumentStages \cup {"none"}
      /\ Accepted(document) => result.stage = "none"
      /\ result.stage = "none" => result.cidrs \in Yields(document)
  BY <1>2, ExtractionIsWhole
<1> HIDE DEF result
<1>6. CASE result.stage # "none"
  <2>1. Wanted = {}
    BY <1>3, <1>5, <1>6 DEF Yields
  <2>2. Expected(result.stage)
    BY <1>5, <1>6, <2>1 DEF Expected, DocumentStages
  <2>3. Fail(i, result.stage)
    BY <1>6 DEF Fetch, result
  <2>. QED BY <1>4, <2>2, <2>3, FailsAtRest
<1>7. CASE result.stage = "none"
  <2>1. Renders(rec[i].pol.spec)
    BY <1>1, AcceptedSpecRenders
  <2>2. /\ rec' = [rec EXCEPT ![i].pc = "get", ![i].source = None, ![i].cidrs = result.cidrs]
        /\ UNCHANGED <<due, task>>
    BY <1>7, <2>1 DEF Fetch, result
  <2>3. rec'[i].pc = "get" /\ rec'[i].cidrs = result.cidrs /\ rec'[i].pol = policy
    BY <1>1, <2>2 DEF TypedInv, RecOK, Reconciles
  <2>4. result.cidrs \in Wanted'
    BY <1>3, <1>4, <1>5, <1>7, SameWanted
  <2>5. UpToDate(i)'
    BY <1>1, <1>4, <2>3, <2>4 DEF UpToDate
  <2>6. OnlyAt(i)
    BY <2>2 DEF OnlyAt, TypedInv, RecOK
  <2>. QED BY <1>4, <2>2, <2>5, <2>6, MovesAtRest
<1>. QED BY <1>6, <1>7

LEMMA GetNetpolAtRest ==
    ASSUME TypedInv, AtRest, NEW i \in Instances, GetNetpol(i)
    PROVE  AtRest'
<1> DEFINE pol == rec[i].pol
           same == netpol # None /\ ManagedPolicyMatches(netpol, Desired(i))
           pc == IF Foreign(pol, netpol) THEN "collision"
                 ELSE IF pol.deleting
                      THEN IF netpol = None THEN "cleanupEvent" ELSE "cleanupDelete"
                 ELSE IF same THEN "status" ELSE "apply"
           outcome == IF same THEN "NoChange" ELSE "Reconciled"
           r == [rec[i] EXCEPT !.pc = pc, !.existing = netpol, !.outcome = outcome]
<1>1. rec[i].pc = "get" /\ pol = policy /\ rec[i] \in Reconciles /\ UpToDate(i) /\ policy # None
  BY Reconciled DEF GetNetpol
<1>2. rec' = [rec EXCEPT ![i] = r] /\ UNCHANGED <<due, task>>
  BY DEF GetNetpol, runtime
<1>3. UNCHANGED <<policy, status, netpol, remote, store>>
  BY DEF GetNetpol, cluster, runtime
<1>4. Taken <=> Foreign(pol, netpol)
  BY <1>1 DEF Taken, Foreign, ProvablyOwned, IsManagedNetworkPolicyFor
<1>5. /\ pc \in {"collision", "cleanupEvent", "cleanupDelete", "status", "apply"}
      /\ Taken <=> pc = "collision"
  BY <1>4
<1> HIDE DEF pc, outcome
<1>6. r.pc = pc /\ r.pol = policy /\ r.cidrs = rec[i].cidrs
  BY <1>1 DEF Reconciles
<1> HIDE DEF r
<1>7. rec'[i] = r /\ OnlyAt(i)
  BY <1>2 DEF OnlyAt, TypedInv, RecOK
<1>8. (Taken' <=> Taken) /\ Wanted' = Wanted
  BY <1>3, SameWanted DEF Taken, ProvablyOwned
<1>9. UpToDate(i)'
  BY <1>1, <1>3, <1>5, <1>6, <1>7, <1>8 DEF UpToDate
<1>. QED BY <1>2, <1>3, <1>7, <1>9, MovesAtRest

LEMMA ReportCollisionAtRest ==
    ASSUME TypedInv, AtRest, NEW i \in Instances, ReportCollision(i)
    PROVE  AtRest'
<1>1. rec[i].pc = "collision" /\ rec[i].pol = policy /\ UpToDate(i)
  BY Reconciled DEF ReportCollision
<1>2. Expected("managed-policy-collision")
  BY <1>1 DEF UpToDate, Expected
<1>. QED BY <1>2, FailsAtRest DEF ReportCollision

\* Neither the apply nor the patch of a reconcile at rest is refused.
LEMMA NotRefusedAtRest ==
    ASSUME TypedInv, AtRest, NEW i \in Instances
    PROVE  ~ApplyRefused(i) /\ ~PatchStatusMissing(i)
<1>1. ~PatchStatusMissing(i)
  BY Reconciled DEF PatchStatusMissing
<1>2. ASSUME ApplyRefused(i) PROVE FALSE
  <2>1. /\ rec[i].pc = "apply" /\ rec[i].pol = policy /\ ~policy.deleting /\ UpToDate(i)
        /\ policy.uid \in Uids
    BY <1>2, Reconciled DEF ApplyRefused, Sound
  <2>2. netpol # None => netpol.owner = policy.uid
    BY <2>1 DEF UpToDate, Taken, ProvablyOwned
  <2>. QED BY <1>2, <2>1, <2>2
       DEF ApplyRefused, ApplyAccepted, Uids, OtherOwner
<1>. QED BY <1>1, <1>2

LEMMA ApplyAtRest ==
    ASSUME TypedInv, AtRest, NEW i \in Instances, ApplyNetpol(i, "ok")
    PROVE  AtRest'
<1>1. /\ rec[i].pc = "apply" /\ rec[i].pol = policy /\ ~policy.deleting /\ UpToDate(i)
      /\ policy # None /\ policy.uid \in Uids
  BY Reconciled DEF ApplyNetpol, Sound
<1>2. rec[i].cidrs \in Wanted /\ ~Taken
  BY <1>1 DEF UpToDate
<1>3. /\ UNCHANGED <<policy, status, remote, store, due, task>> /\ Goto(i, "status")
      /\ netpol' = ServerSideApply(netpol, Desired(i))
  BY DEF ApplyNetpol, Answered, SetNetpol
<1>4. /\ netpol' \in Netpols /\ netpol'.owner = policy.uid
      /\ netpol'.spec = Returned(RenderSpec(policy.spec, rec[i].cidrs))
  BY <1>1, <1>3, ApplyWrites
<1>5. netpol'.marked /\ netpol' # None
  BY <1>3, <1>4, ReconcilerAssumption DEF ServerSideApply, Desired, BuildManagedNetworkPolicy
<1>6. ~Taken' /\ ~Dangling'
  BY <1>1, <1>3, <1>4, <1>5 DEF Taken, ProvablyOwned, Dangling
<1>7. Wanted' = Wanted /\ SameWorld
  BY <1>2, <1>3, <1>6, SameWanted DEF SameWorld
<1>8. InSync'
  <2>1. Fires(policy.spec) => status = [observed |-> Wanted, error |-> {}]
    BY <1>1, <1>2 DEF AtRest, InSync
  <2>2. netpol'.spec \in {Returned(RenderSpec(policy.spec, cidrs)) : cidrs \in Wanted}
    BY <1>2, <1>4
  <2>. QED BY <1>1, <1>2, <1>3, <1>5, <1>6, <1>7, <2>1, <2>2 DEF InSync
<1>9. UpToDate(i)' /\ OnlyAt(i)
  <2>1. rec'[i].pc = "status" /\ rec'[i].pol = policy /\ rec'[i].cidrs = rec[i].cidrs
    BY <1>1, <1>3, GotoKeeps
  <2>2. UpToDate(i)'
    BY <1>1, <1>2, <1>3, <1>6, <1>7, <2>1 DEF UpToDate
  <2>3. OnlyAt(i)
    BY <1>3 DEF Goto, OnlyAt, TypedInv, RecOK
  <2>. QED BY <2>2, <2>3
<1>10. AllUpToDate' /\ AllExpected'
  BY <1>3, <1>7, <1>9, OneMoves, TasksUnchanged DEF AtRest, AllUpToDate, AllExpected
<1>. QED BY <1>6, <1>8, <1>10 DEF AtRest, AllUpToDate, AllExpected

\* The schedule that has no next time is a failure a live policy may have at any time.
LEMMA RequeueExpected ==
    ASSUME TypedInv, SameWorld, AllExpected, NEW i \in Instances, Requeue(i),
           rec[i].pol = policy, Wanted # {}, ~Taken
    PROVE  AllExpected'
<1>1. CASE UNCHANGED task
  BY <1>1, TasksUnchanged
<1>2. CASE ~Fires(policy.spec) /\ Fail(i, "scheduling")
  <2>1. Expected("scheduling")
    BY <1>2 DEF Expected
  <2>. QED BY <1>2, <2>1, FailExpected
<1>. QED BY <1>1, <1>2 DEF Requeue

LEMMA PatchStatusAtRest ==
    ASSUME TypedInv, AtRest, NEW i \in Instances, PatchStatus(i, "ok")
    PROVE  AtRest'
<1>1. /\ rec[i].pc = "status" /\ rec[i].pol = policy /\ ~policy.deleting /\ UpToDate(i)
      /\ policy # None
  BY Reconciled DEF PatchStatus, Sound
<1>2. rec[i].cidrs \in Wanted /\ ~Taken
  BY <1>1 DEF UpToDate
<1>3. /\ UNCHANGED <<policy, netpol, remote, store>>
      /\ status' = [observed |-> {rec[i].cidrs}, error |-> {}]
      /\ Requeue(i) \/ (Goto(i, "event") /\ UNCHANGED <<due, task>>)
  BY DEF PatchStatus, Answered
<1>4. SameWorld /\ Wanted' = Wanted /\ Wanted = {rec[i].cidrs}
  BY <1>1, <1>2, <1>3, SameNetpol, SameWanted, OneWanted
<1>5. ~Taken' /\ ~Dangling'
  BY <1>2, <1>3 DEF AtRest, Taken, ProvablyOwned, Dangling, Uids
<1>6. InSync'
  BY <1>1, <1>2, <1>3, <1>4, <1>5 DEF AtRest, InSync
<1>7. CASE Requeue(i)
  <2>1. AllExpected'
    BY <1>1, <1>2, <1>4, <1>7, RequeueExpected DEF AtRest, AllExpected
  <2>2. AllUpToDate'
    BY <1>3, <1>4, <1>7, FailReturns, Ends, OneMoves DEF AtRest, AllUpToDate
  <2>. QED BY <1>5, <1>6, <2>1, <2>2 DEF AtRest, AllUpToDate, AllExpected
<1>8. CASE Goto(i, "event") /\ UNCHANGED <<due, task>>
  <2>1. rec'[i].pc = "event" /\ rec'[i].pol = policy /\ rec'[i].cidrs = rec[i].cidrs
    BY <1>1, <1>8, GotoKeeps
  <2>2. UpToDate(i)'
    BY <1>1, <1>2, <1>3, <1>4, <1>5, <2>1 DEF UpToDate
  <2>3. OnlyAt(i)
    BY <1>8 DEF Goto, OnlyAt, TypedInv, RecOK
  <2>4. AllUpToDate' /\ AllExpected'
    BY <1>3, <1>4, <1>8, <2>2, <2>3, OneMoves, TasksUnchanged DEF AtRest, AllUpToDate, AllExpected
  <2>. QED BY <1>5, <1>6, <2>4 DEF AtRest, AllUpToDate, AllExpected
<1>. QED BY <1>3, <1>7, <1>8

LEMMA PublishOutcomeAtRest ==
    ASSUME TypedInv, AtRest, NEW i \in Instances, PublishOutcome(i)
    PROVE  AtRest'
<1>1. rec[i].pc = "event" /\ rec[i].pol = policy /\ ~policy.deleting /\ UpToDate(i)
  BY Reconciled DEF PublishOutcome, Sound
<1>2. Wanted # {} /\ ~Taken
  BY <1>1 DEF UpToDate
<1>3. UNCHANGED <<policy, status, netpol, remote, store>> /\ Requeue(i)
  BY DEF PublishOutcome
<1>4. SameWorld /\ InSync' /\ ~Dangling'
  BY <1>3, SameNetpol, StillInSync DEF AtRest
<1>5. AllExpected' /\ AllUpToDate'
  BY <1>1, <1>2, <1>3, <1>4, RequeueExpected, FailReturns, Ends, OneMoves
     DEF AtRest, AllExpected, AllUpToDate
<1>. QED BY <1>4, <1>5 DEF AtRest, AllUpToDate, AllExpected

\* Cleanup may still delete an object that took the name after it had looked; a policy under deletion
\* wants nothing there.
LEMMA CleanupAtRest ==
    ASSUME TypedInv, AtRest, NEW i \in Instances, CleanupDelete(i, "ok") \/ CleanupEvent(i)
    PROVE  AtRest'
<1>1. rec[i].pol = policy /\ policy.deleting /\ policy # None /\ UpToDate(i)
  BY Reconciled DEF CleanupDelete, CleanupEvent, Sound
<1>2. UNCHANGED <<policy, status, remote, store, task>>
  BY DEF CleanupDelete, CleanupEvent, Answered, Fail
<1>3. SameWorld
  BY <1>1, <1>2 DEF SameWorld
<1>4. AllExpected'
  BY <1>2, <1>3, TasksUnchanged DEF AtRest, AllExpected
<1>5. ASSUME NEW j \in Instances, rec'[j] = rec[j] PROVE UpToDate(j)'
  BY <1>2, <1>3, <1>5, StillUpToDate DEF AtRest
<1>6. CASE CleanupDelete(i, "ok")
  <2>1. netpol' = None /\ Goto(i, "cleanupEvent")
    BY <1>6 DEF CleanupDelete, SetNetpol, Answered
  <2>2. InSync' /\ ~Dangling'
    BY <1>1, <1>2, <2>1 DEF InSync, Dangling
  <2>3. rec'[i].pc = "cleanupEvent" /\ rec'[i].pol = policy
    BY <1>1, <2>1, GotoKeeps
  <2>4. UpToDate(i)'
    BY <1>1, <1>2, <2>3 DEF UpToDate
  <2>5. \A j \in Instances \ {i} : rec'[j] = rec[j]
    BY <2>1 DEF Goto, TypedInv, RecOK
  <2>. QED BY <1>4, <1>5, <2>2, <2>4, <2>5 DEF AtRest, AllExpected
<1>7. CASE CleanupEvent(i)
  <2>1. InSync' /\ ~Dangling'
    BY <1>7, StillInSync DEF CleanupEvent, AtRest
  <2>2. rec'[i].pc = "idle" /\ \A j \in Instances \ {i} : rec'[j] = rec[j]
    BY <1>7, Ends DEF CleanupEvent, Finish, TypedInv, RecOK
  <2>3. UpToDate(i)'
    BY <1>1, <1>2, <2>2 DEF UpToDate
  <2>. QED BY <1>4, <1>5, <2>1, <2>2, <2>3 DEF AtRest, AllExpected
<1>. QED BY <1>6, <1>7

-----------------------------------------------------------------------------
(* The failure tasks and the runtime *)

\* A step of a failure task moves on with the stage it has, or ends it.
LEMMA TaskMoves ==
    ASSUME TypedInv, NEW t \in Tasks, HandleFailure(t), NEW u \in Tasks,
           task'[u].pc \in {"read", "patch"}
    PROVE  task[u].pc \in {"read", "patch"} /\ task'[u].stage = task[u].stage
<1>1. task \in [Tasks -> Failures]
  BY DEF TypedInv, TaskOK
<1>2. CASE EndTask(t)
  BY <1>1, <1>2 DEF EndTask, NoTask
<1>3. CASE task[t].pc = "read" /\ task' = [task EXCEPT ![t].pc = "patch", ![t].read = status]
  BY <1>1, <1>3 DEF Failures
<1>4. CASE task' = [task EXCEPT ![t].pc = "report", ![t].read = NoStatus]
  BY <1>1, <1>4 DEF Failures
<1>. QED BY <1>2, <1>3, <1>4 DEF HandleFailure, TaskRead, TaskPatch, TaskPatchMissing, TaskReport

\* The error a failure task writes at rest is one the status may show.
LEMMA TaskAtRest ==
    ASSUME TypedInv, AtRest, NEW t \in Tasks, HandleFailure(t)
    PROVE  AtRest'
<1>1. UNCHANGED <<policy, netpol, remote, store, rec>>
  BY DEF HandleFailure, TaskRead, TaskPatch, TaskPatchMissing, TaskReport, cluster, runtime
<1>2. SameWorld
  BY <1>1, SameNetpol
<1>3. AllUpToDate'
  BY <1>1, <1>2, StillUpToDate DEF AtRest, AllUpToDate
<1>4. AllExpected'
  <2> SUFFICES ASSUME NEW u \in Tasks, task'[u].pc \in {"read", "patch"},
                      NEW s, s = task'[u].stage
               PROVE  Expected(s)'
    BY DEF AllExpected, Expected
  <2>1. Expected(s)
    BY TaskMoves DEF AtRest
  <2>. QED BY <1>2, <2>1, StillExpected
<1>5. CASE UNCHANGED status
  BY <1>1, <1>3, <1>4, <1>5, StillInSync DEF AtRest, AllUpToDate, AllExpected
<1>6. CASE TaskPatch(t, "ok")
  <2>1. Expected(task[t].stage) /\ policy # None /\ status'.error = {task[t].stage}
    BY <1>6 DEF TaskPatch, AtRest
  <2>2. Wanted' = Wanted /\ (Taken' <=> Taken) /\ ~Dangling'
    BY <1>1, SameWanted DEF Taken, ProvablyOwned, AtRest, Dangling, Uids
  <2>3. InSync'
    <3>1. CASE policy.deleting
      BY <1>1, <2>1, <2>2, <3>1 DEF AtRest, InSync
    <3>2. CASE ~policy.deleting /\ Wanted = {}
      <4>1. status'.error \notin {{}, {"managed-policy-collision"}}
        BY <2>1, <3>2 DEF Expected
      <4>. QED BY <1>1, <2>1, <2>2, <3>2, <4>1 DEF InSync
    <3>3. CASE ~policy.deleting /\ Wanted # {} /\ Taken
      <4>1. status'.error = {"managed-policy-collision"}
        BY <2>1, <3>3 DEF Expected
      <4>. QED BY <1>1, <2>1, <2>2, <3>3, <4>1 DEF InSync
    <3>4. CASE ~policy.deleting /\ Wanted # {} /\ ~Taken
      <4>1. ~Fires(policy.spec)
        BY <2>1, <3>4 DEF Expected
      <4>. QED BY <1>1, <2>1, <2>2, <3>4, <4>1 DEF AtRest, InSync
    <3>. QED BY <3>1, <3>2, <3>3, <3>4
  <2>. QED BY <1>3, <1>4, <2>2, <2>3 DEF AtRest, AllUpToDate, AllExpected
<1>. QED BY <1>5, <1>6 DEF HandleFailure, TaskRead, TaskPatchMissing, TaskReport, cluster

LEMMA RuntimeAtRest ==
    ASSUME TypedInv, AtRest, NEW i \in Instances,
           DeliverPolicy(i) \/ DeliverNetpol(i) \/ TimerFires(i)
    PROVE  AtRest'
<1>1. UNCHANGED store
  <2>1. CASE DeliverPolicy(i)
    <3>1. store[i] = policy /\ store \in [Instances -> Policies \cup {None}]
      BY DEF AtRest, UpToDate, TypedInv, RuntimeOK
    <3>. QED BY <2>1, <3>1 DEF DeliverPolicy
  <2>. QED BY <2>1 DEF DeliverNetpol, TimerFires
<1>2. UNCHANGED <<policy, status, netpol, remote, rec, task>>
  BY DEF DeliverPolicy, DeliverNetpol, TimerFires, cluster
<1>. QED BY <1>1, <1>2, NothingAtRest

LEMMA StepAtRest ==
    ASSUME TypedInv, AtRest, Work
    PROVE  AtRest'
<1>1. ASSUME NEW i \in Instances, Reconcile(i) PROVE AtRest'
  BY <1>1, StartAtRest, RejectSpecAtRest, FetchPointerAtRest, FetchAtRest, GetNetpolAtRest,
     ReportCollisionAtRest, NotRefusedAtRest, ApplyAtRest, PatchStatusAtRest, PublishOutcomeAtRest,
     CleanupAtRest DEF Reconcile
<1>2. ASSUME NEW i \in Instances, DeliverPolicy(i) \/ DeliverNetpol(i) \/ TimerFires(i)
      PROVE  AtRest'
  BY <1>2, RuntimeAtRest
<1>3. ASSUME NEW t \in Tasks, HandleFailure(t) PROVE AtRest'
  BY <1>3, TaskAtRest
<1>4. ~GarbageCollect
  BY DEF GarbageCollect, AtRest
<1>. QED BY <1>1, <1>2, <1>3, <1>4 DEF Work

\* The safety half of convergence, for any number of processes and tasks, and with sources that never
\* answer: once the cluster is as it should be and everything under way is of the moment, only users,
\* sources and failures can change that. Resyncs, watch events, the reconciles they start, and the
\* failure tasks of a spec that cannot be satisfied go on for ever and keep it so.
THEOREM RestKept == Spec => RestIsKept
<1> DEFINE Kept == AtRest /\ Work => AtRest'
<1>1. TypedInv /\ [Next]_vars => [Kept]_vars
  BY StepAtRest
<1>. QED BY <1>1, InitTyped, NextTyped, PTL DEF Spec, RestIsKept
=============================================================================
