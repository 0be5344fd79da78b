-------------------------- MODULE RefinementProofs --------------------------
(***************************************************************************)
(* Proof that Reconciler implements ManagedPolicyContract, for all values  *)
(* of its constants.                                                       *)
(***************************************************************************)
EXTENDS ReconcilerRefinement, ReconcilerProofs

Duties == [i \in Instances |-> Duty(rec[i])]

LEMMA Phases ==
    ASSUME NEW r
    PROVE  /\ r.pc = "idle" => Phase(r) = "free"
           /\ r.pc \in {"invalid", "pointer", "fetch"} => Phase(r) = "held"
           /\ r.pc = "get" => Phase(r) = IF r.pol.deleting THEN "held" ELSE "resolved"
           /\ r.pc = "collision" => Phase(r) = "refused"
           /\ r.pc \in {"apply", "cleanupDelete"} => Phase(r) = "cleared"
           /\ r.pc \in {"status", "event", "cleanupEvent"} => Phase(r) = "settled"
  BY DEF Phase

LEMMA IdleIsFree == Duty(Idle) = Contract!Free
  BY Phases DEF Duty, Idle, Contract!Free

LEMMA InitRefines == Init => Contract!Init
<1>1. ASSUME Init PROVE Duties = [i \in Instances |-> Contract!Free]
  BY <1>1, IdleIsFree DEF Init, Duties
<1>. QED BY <1>1 DEF Init, Contract!Init, Duties

\* A step of a reconcile is a step of its duty.
LEMMA DutyMoves ==
    ASSUME TypedInv, NEW i \in Instances, NEW r, rec' = [rec EXCEPT ![i] = r]
    PROVE  /\ Duties' = [Duties EXCEPT ![i] = Duty(r)]
           /\ Duties[i] = Duty(rec[i])
<1>1. rec'[i] = r /\ \A j \in Instances \ {i} : rec'[j] = rec[j]
  BY DEF TypedInv, RecOK
<1>2. Duties' = [j \in Instances |-> Duty(rec'[j])]
  BY DEF Duties, Duty, Phase
<1>3. \A j \in Instances : Duty(rec'[j]) = IF j = i THEN Duty(r) ELSE Duty(rec[j])
  BY <1>1
<1>4. [Duties EXCEPT ![i] = Duty(r)] = [j \in Instances |-> IF j = i THEN Duty(r) ELSE Duty(rec[j])]
  BY DEF Duties
<1>. QED BY <1>2, <1>3, <1>4 DEF Duties

\* A step that keeps the policy and the list only changes the phase.
LEMMA PhaseMoves ==
    ASSUME TypedInv, NEW i \in Instances, NEW r, rec' = [rec EXCEPT ![i] = r],
           r.pol = rec[i].pol, r.cidrs = rec[i].cidrs
    PROVE  Contract!Become(i, Phase(r))
<1>1. Duties' = [Duties EXCEPT ![i] = Duty(r)] /\ Duties[i] = Duty(rec[i])
  BY DutyMoves
<1>2. Duty(r) = [Duty(rec[i]) EXCEPT !.phase = Phase(r)]
  BY DEF Duty
<1>3. Duties' = [Duties EXCEPT ![i].phase = Phase(r)]
  BY <1>1, <1>2
<1>. QED BY <1>3 DEF Contract!Become, Duties

\* Two fields of a duty change at once.
LEMMA TwoFields ==
    ASSUME NEW I, NEW f, f = [j \in I |-> f[j]], NEW i \in I, NEW phase, NEW cidrs
    PROVE  [f EXCEPT ![i].phase = phase, ![i].cidrs = cidrs]
              = [f EXCEPT ![i] = [f[i] EXCEPT !.phase = phase, !.cidrs = cidrs]]
<1> DEFINE g == [f EXCEPT ![i].phase = phase]
<1>1. g[i] = [f[i] EXCEPT !.phase = phase] /\ \A j \in I \ {i} : g[j] = f[j]
  OBVIOUS
<1>2. g = [j \in I |-> g[j]]
  OBVIOUS
<1> HIDE DEF g
<1>3. [g EXCEPT ![i].cidrs = cidrs] = [g EXCEPT ![i] = [g[i] EXCEPT !.cidrs = cidrs]]
  BY <1>2
<1>4. [g EXCEPT ![i].cidrs = cidrs]
         = [f EXCEPT ![i] = [f[i] EXCEPT !.phase = phase, !.cidrs = cidrs]]
  BY <1>1, <1>2, <1>3
<1>. QED BY <1>4 DEF g

LEMMA ResolvedDuty ==
    ASSUME NEW d, NEW cidrs, d = [phase |-> d.phase, pol |-> d.pol, cidrs |-> d.cidrs]
    PROVE  [d EXCEPT !.phase = "resolved", !.cidrs = cidrs]
              = [phase |-> "resolved", pol |-> d.pol, cidrs |-> cidrs]
<1> DEFINE e == [phase |-> "resolved", pol |-> d.pol, cidrs |-> d.cidrs]
<1>1. [d EXCEPT !.phase = "resolved"] = e
  OBVIOUS
<1>2. [e EXCEPT !.cidrs = cidrs] = [phase |-> "resolved", pol |-> d.pol, cidrs |-> cidrs]
  OBVIOUS
<1>. QED BY <1>1, <1>2, Zenon

LEMMA StutterRefines ==
    ASSUME UNCHANGED <<store, rec>>
    PROVE  Contract!Next
<1>1. Contract!Others
  BY DEF Contract!Others
<1>. QED BY <1>1 DEF Contract!Next

LEMMA GiveUpRefines ==
    ASSUME TypedInv, NEW i \in Instances, rec' = [rec EXCEPT ![i] = Idle],
           UNCHANGED <<policy, netpol, remote, store>>
    PROVE  Contract!Next
<1>1. Duties' = [Duties EXCEPT ![i] = Contract!Free]
  BY DutyMoves, IdleIsFree
<1>2. Contract!GiveUp(i)
  BY <1>1 DEF Contract!GiveUp, Contract!world, Duties
<1>. QED BY <1>2 DEF Contract!Next

LEMMA FailRefines ==
    ASSUME TypedInv, NEW i \in Instances, NEW stage, NEW when,
           Fail(i, stage) \/ Finish(i, when) \/ Requeue(i),
           UNCHANGED <<policy, netpol, remote, store>>
    PROVE  Contract!Next
<1>1. rec' = [rec EXCEPT ![i] = Idle]
  BY DEF Fail, Finish, Requeue
<1>. QED BY <1>1, GiveUpRefines

\* Within a phase nothing happens to the duty.
LEMMA SamePhaseRefines ==
    ASSUME TypedInv, NEW i \in Instances, NEW r, rec' = [rec EXCEPT ![i] = r],
           r.pol = rec[i].pol, r.cidrs = rec[i].cidrs, Phase(r) = Phase(rec[i]),
           UNCHANGED store
    PROVE  Contract!Next
<1>1. Duties' = [Duties EXCEPT ![i] = Duty(r)] /\ Duties[i] = Duty(rec[i])
  BY DutyMoves
<1>2. Duty(r) = Duty(rec[i])
  BY DEF Duty
<1>3. Duties' = Duties
  BY <1>1, <1>2 DEF Duties
<1>4. Contract!Others
  BY <1>3 DEF Contract!Others, Duties
<1>. QED BY <1>4 DEF Contract!Next

LEMMA StartRefines ==
    ASSUME TypedInv, NEW i \in Instances, Start(i)
    PROVE  Contract!Next
<1> DEFINE pol == store[i]
           r == [pc |-> FirstAwait(pol), pol |-> pol, source |-> pol.spec.source, cidrs |-> <<>>,
                 existing |-> None, outcome |-> "none"]
<1>1. Duties' = [Duties EXCEPT ![i] = Duty(r)] /\ Duties[i] = Duty(rec[i])
  <2>1. rec' = [rec EXCEPT ![i] = r]
    BY DEF Start
  <2> HIDE DEF r
  <2>. QED BY <2>1, DutyMoves
<1>2. rec[i] = Idle
  BY RecordTyped DEF Start, Begin, Sound
<1>3. r.pc = "get" => r.pol.deleting
  BY DEF FirstAwait
<1>4. r.pc \in {"invalid", "pointer", "fetch", "get"}
  BY DEF FirstAwait
<1>5. Phase(r) = "held"
  <2> HIDE DEF r
  <2>. QED BY <1>3, <1>4, Phases
<1>6. Duty(r) = [phase |-> "held", pol |-> pol, cidrs |-> <<>>]
  BY <1>5 DEF Duty
<1> HIDE DEF r
<1>7. Contract!TakeUp(i)
  BY <1>1, <1>2, <1>6, IdleIsFree DEF Contract!TakeUp, Contract!world, Duties, Start, cluster
<1>. QED BY <1>7 DEF Contract!Next

LEMMA FetchPointerRefines ==
    ASSUME TypedInv, NEW i \in Instances, FetchPointer(i)
    PROVE  Contract!Next
<1>1. UNCHANGED <<policy, netpol, remote, store>>
  BY DEF FetchPointer, cluster
<1>2. CASE Fail(i, "pointer-retrieval") \/ Fail(i, "pointer-extraction")
  BY <1>1, <1>2, FailRefines
<1>3. ASSUME NEW final, rec' = [rec EXCEPT ![i].pc = "fetch", ![i].source = final]
      PROVE  Contract!Next
  <2> DEFINE r == [rec[i] EXCEPT !.pc = "fetch", !.source = final]
  <2>1. rec[i] \in Reconciles /\ rec[i].pc = "pointer"
    BY RecordTyped DEF FetchPointer
  <2>2. r.pc = "fetch" /\ r.pol = rec[i].pol /\ r.cidrs = rec[i].cidrs
    BY <2>1 DEF Reconciles
  <2>3. rec' = [rec EXCEPT ![i] = r]
    BY <1>3
  <2> HIDE DEF r
  <2>. QED BY <1>1, <2>1, <2>2, <2>3, Phases, SamePhaseRefines
<1>. QED BY <1>2, <1>3 DEF FetchPointer

LEMMA FetchRefines ==
    ASSUME TypedInv, NEW i \in Instances, Fetch(i)
    PROVE  Contract!Next
<1> DEFINE document == remote[rec[i].source]
           result == ExtractCidrs(document)
           spec == rec[i].pol.spec
<1>1. UNCHANGED <<policy, netpol, remote, store>>
  BY DEF Fetch, cluster
<1>2. CASE Fail(i, result.stage) \/ Fail(i, "selector-translation")
  BY <1>1, <1>2, FailRefines
<1>3. ASSUME result.stage = "none",
             rec' = [rec EXCEPT ![i].pc = "get", ![i].source = None, ![i].cidrs = result.cidrs]
      PROVE  Contract!Next
  <2>1. /\ rec[i] \in Reconciles /\ rec[i].pc = "fetch" /\ spec \in Specs
        /\ rec[i].source \in Finals(spec) /\ ~rec[i].pol.deleting
    BY RecordTyped DEF Fetch, Sound
  <2>2. document \in Documents(Sources)
    BY <2>1, SpecFacts, ReconcilerAssumption DEF TypedInv, ClusterOK
  <2>3. result.cidrs \in ListsNow(spec, remote)
    BY <1>3, <2>1, <2>2, ExtractionIsWhole DEF ListsNow
  <2> DEFINE r == [rec[i] EXCEPT !.pc = "get", !.source = None, !.cidrs = result.cidrs]
  <2> HIDE DEF result
  <2>4. r.pc = "get" /\ r.pol = rec[i].pol /\ r.cidrs = result.cidrs
    BY <2>1 DEF Reconciles
  <2>5. rec' = [rec EXCEPT ![i] = r]
    BY <1>3
  <2> HIDE DEF r
  <2>6. Duties' = [Duties EXCEPT ![i] = Duty(r)] /\ Duties[i] = Duty(rec[i])
    BY <2>5, DutyMoves
  <2>7. Duty(rec[i]) = [phase |-> "held", pol |-> rec[i].pol, cidrs |-> rec[i].cidrs]
    BY <2>1, Phases DEF Duty
  <2>8. Duty(r) = [phase |-> "resolved", pol |-> rec[i].pol, cidrs |-> result.cidrs]
    BY <2>1, <2>4, Phases DEF Duty
  <2>9. Duties' = [Duties EXCEPT ![i].phase = "resolved", ![i].cidrs = result.cidrs]
    <3>1. Duties = [j \in Instances |-> Duties[j]]
      BY DEF Duties
    <3>2. /\ Duties[i] = [phase |-> Duties[i].phase, pol |-> Duties[i].pol,
                           cidrs |-> Duties[i].cidrs]
          /\ Duties[i].pol = rec[i].pol
      BY <2>6, <2>7
    <3>3. [Duties[i] EXCEPT !.phase = "resolved", !.cidrs = result.cidrs] = Duty(r)
      <4> DEFINE d == Duties[i]
      <4>1. d = [phase |-> d.phase, pol |-> d.pol, cidrs |-> d.cidrs] /\ d.pol = rec[i].pol
        BY <3>2
      <4> HIDE DEF d
      <4>2. [d EXCEPT !.phase = "resolved", !.cidrs = result.cidrs]
               = [phase |-> "resolved", pol |-> d.pol, cidrs |-> result.cidrs]
        BY <4>1, ResolvedDuty
      <4>. QED BY <2>8, <4>1, <4>2 DEF d
    <3>. QED BY <2>6, <3>1, <3>3, TwoFields
  <2>10. Contract!Resolve(i)
    <3>1. Duties[i].phase = "held" /\ Duties[i].pol = rec[i].pol
      BY <2>6, <2>7
    <3>2. \E cidrs \in ListsNow(Duties[i].pol.spec, remote) :
             Duties' = [Duties EXCEPT ![i].phase = "resolved", ![i].cidrs = cidrs]
      BY <2>3, <2>9, <3>1, Zenon
    <3>3. UNCHANGED <<Contract!world, store>>
      BY <1>1 DEF Contract!world
    <3>. QED BY <2>1, <3>1, <3>2, <3>3, Zenon DEF Contract!Resolve, Duties
  <2>. QED BY <2>10 DEF Contract!Next
<1>. QED BY <1>2, <1>3 DEF Fetch

\* The phase of a process that may clear, refuse or confirm.
LEMMA GetIsPrepared ==
    ASSUME TypedInv, NEW i \in Instances, rec[i].pc = "get"
    PROVE  Contract!Prepared(i)
<1>1. Phase(rec[i]) = IF rec[i].pol.deleting THEN "held" ELSE "resolved"
  BY Phases
<1>2. Duties[i].phase = Phase(rec[i]) /\ Duties[i].pol = rec[i].pol
  BY DEF Duties, Duty
<1>. QED BY <1>1, <1>2, Zenon DEF Contract!Prepared, Duties

LEMMA GetNetpolRefines ==
    ASSUME TypedInv, NEW i \in Instances, GetNetpol(i)
    PROVE  Contract!Next
<1> DEFINE pol == rec[i].pol
           same == netpol # None /\ ManagedPolicyMatches(netpol, Desired(i))
           pc == IF Foreign(pol, netpol) THEN "collision"
                 ELSE IF pol.deleting
                      THEN IF netpol = None THEN "cleanupEvent" ELSE "cleanupDelete"
                 ELSE IF same THEN "status" ELSE "apply"
           outcome == IF same THEN "NoChange" ELSE "Reconciled"
           r == [rec[i] EXCEPT !.pc = pc, !.existing = netpol, !.outcome = outcome]
<1>1. rec[i] \in Reconciles /\ rec[i].pc = "get"
  BY RecordTyped DEF GetNetpol
<1>2. rec' = [rec EXCEPT ![i] = r]
  <2> HIDE DEF pc, outcome
  <2>1. rec' = [rec EXCEPT ![i].pc = pc, ![i].existing = netpol, ![i].outcome = outcome]
    BY Zenon DEF GetNetpol, pc, outcome
  <2>. QED BY <2>1
<1>3. r.pc = pc /\ r.pol = pol /\ r.cidrs = rec[i].cidrs
  <2> HIDE DEF pc, outcome
  <2>. QED BY <1>1 DEF Reconciles
<1>4. UNCHANGED <<policy, netpol, remote, store>>
  BY DEF GetNetpol, cluster, runtime
<1>5. UNCHANGED <<Contract!world, store>>
  BY <1>4 DEF Contract!world
<1>6. Contract!Prepared(i)
  BY <1>1, GetIsPrepared
<1>7. /\ Duties[i].pol = pol /\ Duties[i].cidrs = rec[i].cidrs
      /\ Foreign(pol, netpol) <=> netpol # None /\ NotOwn(pol, netpol)
  BY DEF Duties, Duty, Foreign, IsManagedNetworkPolicyFor, NotOwn
<1> HIDE DEF r
<1>8. Contract!Become(i, Phase(r))
  BY <1>2, <1>3, PhaseMoves
<1>9. CASE Foreign(pol, netpol)
  <2>1. Phase(r) = "refused"
    BY <1>3, <1>9, Phases
  <2>2. Contract!Refuse(i)
    BY <1>5, <1>6, <1>7, <1>8, <1>9, <2>1, Zenon DEF Contract!Refuse, Duties
  <2>. QED BY <2>2 DEF Contract!Next
<1>10. CASE ~Foreign(pol, netpol) /\ pc \in {"cleanupDelete", "apply"}
  <2>1. Phase(r) = "cleared"
    BY <1>3, <1>10, Phases
  <2>2. Contract!Clear(i)
    BY <1>5, <1>6, <1>7, <1>8, <1>10, <2>1, Zenon DEF Contract!Clear, Duties
  <2>. QED BY <2>2 DEF Contract!Next
<1>11. CASE ~Foreign(pol, netpol) /\ pc \in {"cleanupEvent", "status"}
  <2>1. Phase(r) = "settled"
    BY <1>3, <1>11, Phases
  <2>2. pol.deleting => netpol = None
    BY <1>11
  <2>3. ~pol.deleting => netpol # None /\ ReadsAsDesired(pol, rec[i].cidrs, netpol)
    <3>1. ASSUME ~pol.deleting PROVE netpol # None /\ netpol = Desired(i)
      BY <1>11, <3>1 DEF ManagedPolicyMatches
    <3>2. ASSUME netpol = Desired(i) PROVE ReadsAsDesired(pol, rec[i].cidrs, netpol)
      BY <3>2 DEF Desired, BuildManagedNetworkPolicy, ReadsAsDesired, NotOwn
    <3>. QED BY <3>1, <3>2
  <2>4. Contract!Confirm(i)
    BY <1>5, <1>6, <1>7, <1>8, <2>1, <2>2, <2>3, Zenon DEF Contract!Confirm, Duties
  <2>. QED BY <2>4 DEF Contract!Next
<1>. QED BY <1>9, <1>10, <1>11

\* A change of the object that is answered settles the duty; one whose answer is lost ends it.
LEMMA EnforceRefines ==
    ASSUME TypedInv, NEW i \in Instances, NEW reply, NEW pc \in {"status", "cleanupEvent"},
           rec[i].pc \in {"apply", "cleanupDelete"},
           Answered(i, reply, Goto(i, pc) /\ UNCHANGED <<due, task>>),
           IF rec[i].pol.deleting THEN netpol' = None
           ELSE netpol' # None /\ ReadsAsDesired(rec[i].pol, rec[i].cidrs, netpol'),
           UNCHANGED <<policy, remote, store>>
    PROVE  Contract!Next
<1>1. rec[i] \in Reconciles
  BY RecordTyped
<1>2. /\ Duties[i].phase = "cleared" /\ Duties[i].pol = rec[i].pol
      /\ Duties[i].cidrs = rec[i].cidrs
  BY Phases DEF Duties, Duty
<1>3. Contract!Become(i, "settled") \/ Duties' = [Duties EXCEPT ![i] = Contract!Free]
  <2>1. CASE Goto(i, pc)
    <3> DEFINE r == [rec[i] EXCEPT !.pc = pc, !.existing = None]
    <3>1. rec' = [rec EXCEPT ![i] = r]
      BY <2>1 DEF Goto
    <3>2. r.pc = pc /\ r.pol = rec[i].pol /\ r.cidrs = rec[i].cidrs
      BY <1>1 DEF Reconciles
    <3> HIDE DEF r
    <3>3. Phase(r) = "settled"
      BY <3>2, Phases
    <3>. QED BY <3>1, <3>2, <3>3, PhaseMoves
  <2>2. CASE Fail(i, "kubernetes-api")
    BY <2>2, DutyMoves, IdleIsFree DEF Fail, Finish
  <2>. QED BY <2>1, <2>2 DEF Answered
<1>4. Contract!Enforce(i)
  BY <1>2, <1>3, Zenon DEF Contract!Enforce, Duties
<1>. QED BY <1>4 DEF Contract!Next

LEMMA ApplyRefines ==
    ASSUME TypedInv, NEW i \in Instances, NEW reply, ApplyNetpol(i, reply)
    PROVE  Contract!Next
<1> DEFINE new == ServerSideApply(netpol, Desired(i))
<1>1. rec[i].pc = "apply" /\ netpol' = new
  BY DEF ApplyNetpol, SetNetpol
<1>2. /\ new \in Netpols /\ new.owner = rec[i].pol.uid
      /\ new.spec = Returned(RenderSpec(rec[i].pol.spec, rec[i].cidrs))
      /\ ~rec[i].pol.deleting
  BY <1>1, ApplyWrites
<1>3. new # None
  BY <1>2, ReconcilerAssumption
<1>4. new.marked
  BY DEF ServerSideApply, Desired, BuildManagedNetworkPolicy
<1> HIDE DEF new
<1>5. ReadsAsDesired(rec[i].pol, rec[i].cidrs, new)
  BY <1>2, <1>4, ReadTwice DEF ReadsAsDesired, NotOwn
<1>. QED BY <1>1, <1>2, <1>3, <1>5, EnforceRefines DEF ApplyNetpol

LEMMA CleanupDeleteRefines ==
    ASSUME TypedInv, NEW i \in Instances, NEW reply, CleanupDelete(i, reply)
    PROVE  Contract!Next
<1>1. rec[i].pc = "cleanupDelete" /\ netpol' = None
  BY DEF CleanupDelete, SetNetpol
<1>2. rec[i].pol.deleting
  BY <1>1, RecordTyped DEF Sound
<1>. QED BY <1>1, <1>2, EnforceRefines DEF CleanupDelete

\* After the status patch the reconcile returns, fails, or goes on to the event.
LEMMA PatchStatusRefines ==
    ASSUME TypedInv, NEW i \in Instances, NEW reply, PatchStatus(i, reply)
    PROVE  Contract!Next
<1>1. UNCHANGED <<policy, netpol, remote, store>> /\ rec[i].pc = "status"
  BY DEF PatchStatus
<1>2. CASE Requeue(i) \/ Fail(i, "kubernetes-api")
  BY <1>1, <1>2, FailRefines
<1>3. CASE Goto(i, "event")
  <2> DEFINE r == [rec[i] EXCEPT !.pc = "event", !.existing = None]
  <2>1. rec[i] \in Reconciles
    BY RecordTyped
  <2>2. r.pc = "event" /\ r.pol = rec[i].pol /\ r.cidrs = rec[i].cidrs
    BY <2>1 DEF Reconciles
  <2>3. rec' = [rec EXCEPT ![i] = r]
    BY <1>3 DEF Goto
  <2> HIDE DEF r
  <2>. QED BY <1>1, <2>2, <2>3, Phases, SamePhaseRefines
<1>. QED BY <1>2, <1>3, Zenon DEF PatchStatus, Answered

LEMMA ReconcileRefines ==
    ASSUME TypedInv, NEW i \in Instances, Reconcile(i)
    PROVE  Contract!Next
<1>1. CASE StartMissing(i)
  BY <1>1, StutterRefines DEF StartMissing
<1>2. CASE Start(i)
  BY <1>2, StartRefines
<1>3. CASE RejectSpec(i)
  BY <1>3, FailRefines DEF RejectSpec, cluster
<1>4. CASE FetchPointer(i)
  BY <1>4, FetchPointerRefines
<1>5. CASE Fetch(i)
  BY <1>5, FetchRefines
<1>6. CASE GetNetpol(i)
  BY <1>6, GetNetpolRefines
<1>7. CASE ReportCollision(i)
  BY <1>7, FailRefines DEF ReportCollision
<1>8. CASE ApplyNetpol(i, "ok")
  BY <1>8, ApplyRefines
<1>9. CASE ApplyRefused(i) \/ PatchStatusMissing(i)
  BY <1>9, FailRefines DEF ApplyRefused, PatchStatusMissing, cluster
<1>10. CASE PatchStatus(i, "ok")
  BY <1>10, PatchStatusRefines
<1>11. CASE PublishOutcome(i) \/ CleanupEvent(i)
  BY <1>11, FailRefines DEF PublishOutcome, CleanupEvent
<1>12. CASE CleanupDelete(i, "ok")
  BY <1>12, CleanupDeleteRefines
<1>. QED BY <1>1, <1>2, <1>3, <1>4, <1>5, <1>6, <1>7, <1>8, <1>9, <1>10, <1>11, <1>12 DEF Reconcile

LEMMA RuntimeRefines ==
    ASSUME TypedInv, NEW i \in Instances,
           DeliverPolicy(i) \/ DeliverNetpol(i) \/ TimerFires(i) \/ Crash(i)
    PROVE  Contract!Next
<1>1. CASE DeliverPolicy(i)
  <2>1. Contract!Learn(i)
    BY <1>1 DEF DeliverPolicy, cluster, Contract!Learn, Contract!world
  <2>. QED BY <2>1 DEF Contract!Next
<1>2. CASE DeliverNetpol(i) \/ TimerFires(i)
  BY <1>2, StutterRefines DEF DeliverNetpol, TimerFires
<1>3. CASE Crash(i)
  <2>1. rec' = [rec EXCEPT ![i] = Idle]
    BY <1>3 DEF Crash
  <2>2. Duties' = [Duties EXCEPT ![i] = Contract!Free]
    BY <2>1, DutyMoves, IdleIsFree
  <2>3. Contract!Restart(i)
    BY <1>3, <2>2 DEF Crash, cluster, Contract!Restart, Contract!world, Duties
  <2>. QED BY <2>3 DEF Contract!Next
<1>. QED BY <1>1, <1>2, <1>3

LEMMA OthersRefine ==
    ASSUME \/ \E t \in Tasks : HandleFailure(t) \/ TaskPatch(t, "lost") \/ TaskFails(t)
           \/ GarbageCollect \/ Environment \/ UNCHANGED vars
    PROVE  Contract!Next
<1>1. ASSUME NEW t \in Tasks, HandleFailure(t) \/ TaskPatch(t, "lost") \/ TaskFails(t)
      PROVE  UNCHANGED <<store, rec>>
  BY <1>1 DEF HandleFailure, TaskRead, TaskPatch, TaskPatchMissing, TaskReport, TaskFails, runtime
<1>2. CASE GarbageCollect
  BY <1>2, StutterRefines DEF GarbageCollect
<1>3. CASE Environment
  BY <1>3, StutterRefines DEF Environment, CreatePolicy, UpdateSpec, MarkDeleting, RemovePolicy,
     UserEdit, RemoteChange, runtime
<1>4. CASE UNCHANGED vars
  BY <1>4, StutterRefines DEF vars
<1>. QED BY <1>1, <1>2, <1>3, <1>4, StutterRefines

LEMMA NextRefines == TypedInv /\ [Next]_vars => [Contract!Next]_(Contract!vars)
<1> SUFFICES ASSUME TypedInv, [Next]_vars PROVE Contract!Next
  OBVIOUS
<1>1. ASSUME NEW i \in Instances, CallFails(i) PROVE Contract!Next
  BY <1>1, FailRefines DEF CallFails, cluster
<1>2. CASE Disruption
  BY <1>1, <1>2, ApplyRefines, PatchStatusRefines, CleanupDeleteRefines, RuntimeRefines,
     OthersRefine DEF Disruption
<1>. QED BY <1>2, ReconcileRefines, RuntimeRefines, OthersRefine DEF Next, Work

\* Reconciler implements the contract, with any number of processes and incarnations, any specs,
\* sources and documents, and whatever fails: the initial states map to initial states, and every step
\* to a step of the contract or to none.
THEOREM HonoursContract == Spec => ImplementsContract
  BY InitRefines, InitTyped, NextTyped, NextRefines, PTL DEF Spec, ImplementsContract,
     Contract!Spec
=============================================================================
