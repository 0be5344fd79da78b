----------------------------- MODULE Reconciler -----------------------------
(***************************************************************************)
(* The reconcile loop of ipmaze-controller for one CIDRPolicy name         *)
(* (crates/ipmaze-controller/src/controller.rs and status.rs), with the    *)
(* kube-rs runtime that calls it and the API server, users and remote      *)
(* sources it shares its objects with.                                     *)
(*                                                                         *)
(* Each await of reconcile(), cleanup() and handle_reconcile_failure() is  *)
(* a point where everything else may move, so the code between two awaits  *)
(* is one action. rec[i] is the reconcile that runs in controller process  *)
(* i, with the snapshot of the policy it was called with; task[t] is a     *)
(* detached failure task that error_policy() spawned. The runtime keeps    *)
(* the reconciles of one object apart from each other within a process,    *)
(* but not from the failure tasks.                                         *)
(***************************************************************************)
EXTENDS NetworkPolicyObject, FiniteSets

CONSTANTS
    Instances,      \* controller processes that run at the same time
    MaxUid,         \* bound: how many times the CIDRPolicy is created
    Tasks,          \* bound: failure tasks that may be alive at the same time
    Specs,          \* CIDRPolicy specs
    Sources,        \* the addresses of remote sources, those no request can be made of included
    Published,      \* the documents each source may serve
    Silent,         \* sources that may take a request and never answer it
    UserNetpols,    \* NetworkPolicies of users that may take the managed name
    UserEdits,      \* what users do to the object of the managed name
    Faults,         \* the awaits whose call may fail
    MayCrash,       \* whether a process may crash and restart
    RecordedReasons \* the event reasons the model keeps a record of

Uids == 1 .. MaxUid
Owners == Uids \cup {NoOwner, OtherOwner}
Edits == {"create", "delete", "annotate", "strip", "rewrite"}
Awaits == {"pointer", "fetch", "get", "collision", "apply", "status", "event",
           "cleanupDelete", "cleanupEvent"}
TaskAwaits == {"read", "patch", "report"}
Stages == DocumentStages \cup
    {"validation", "jmespath-compile", "managed-policy-collision", "pointer-retrieval",
     "pointer-extraction", "selector-translation", "scheduling", "kubernetes-api"}
Reasons == {"Reconciled", "ReconcileFailed", "ManagedPolicyCollision", "CleanupManagedPolicy"}

\* The CIDR sequences the documents of the sources yield, and what the specs render them to.
Yielded == UNION {Yields(d) : d \in UNION {Published[src] : src \in Sources}}
Rendered == {Returned(RenderSpec(s, cidrs)) : s \in Specs, cidrs \in Yielded}

Policies == [uid : Uids, spec : Specs, deleting : BOOLEAN]
Netpols == [marked : BOOLEAN, owner : Owners, extra : BOOLEAN,
            spec : Rendered \cup {np.spec : np \in UserNetpols}]
Statuses == [observed : Options(Yielded), error : Options(Stages)]
Reconciles == [pc : Awaits \cup {"idle", "invalid"}, pol : Policies \cup {None},
               source : Sources \cup {None}, cidrs : Yielded \cup {<<>>},
               existing : Netpols \cup {None}, outcome : {"none", "NoChange", "Reconciled"}]
Failures == [pc : TaskAwaits \cup {"free"}, by : Instances \cup {None}, uid : 0 .. MaxUid,
             stage : Stages \cup {"none"}, read : Statuses]

ASSUME ReconcilerAssumption ==
    /\ MaxUid \in Nat
    /\ UserEdits \subseteq Edits
    /\ RecordedReasons \subseteq Reasons
    /\ Faults \subseteq Awaits \cup TaskAwaits
    /\ MayCrash \in BOOLEAN
    /\ \A s \in Specs : s.source \in Sources
    /\ Silent \subseteq Sources
    /\ \A src \in Sources : Published[src] # {} /\ Published[src] \subseteq Documents(Sources)
    /\ UserNetpols \subseteq [marked : BOOLEAN, owner : {NoOwner, OtherOwner}, extra : BOOLEAN,
                              spec : {np.spec : np \in UserNetpols}]
    /\ None \notin Policies \cup Netpols

VARIABLES
    policy,     \* the CIDRPolicy in the API server, or None
    status,     \* its status: the CIDRs of the last success, the stage of the last failure
    lastUid,    \* the uid given last
    netpol,     \* the NetworkPolicy of the managed name, or None
    events,     \* recorded Kubernetes events, as <<reason, uid of the policy>>
    remote,     \* the document each source serves now
    store,      \* the reflector's copy of the policy, per process
    polEvent,   \* whether a watch event of the policy is under way to the process
    npEvent,    \* whether a watch event of an owned NetworkPolicy is under way to the process
    due,        \* when the runtime calls reconcile() next
    rec,        \* the reconcile under way in the process
    task        \* the detached failure tasks

cluster == <<policy, status, lastUid, netpol, events, remote>>
runtime == <<store, polEvent, npEvent, due>>
vars == <<policy, status, lastUid, netpol, events, remote, store, polEvent, npEvent, due, rec, task>>

NoStatus == [observed |-> {}, error |-> {}]
Idle == [pc |-> "idle", pol |-> None, source |-> None, cidrs |-> <<>>, existing |-> None,
         outcome |-> "none"]
NoTask == [pc |-> "free", by |-> None, uid |-> 0, stage |-> "none", read |-> NoStatus]

-----------------------------------------------------------------------------
(* What the steps are made of *)

\* A write to the policy or its status that the watches of all processes will report.
PolicyChanged == polEvent' = [i \in Instances |-> TRUE]

\* Mutant: the controller does not watch the NetworkPolicies it owns.
SetNetpolUnwatched(new) == netpol' = new /\ UNCHANGED npEvent

\* The object of the managed name becomes new; the watches report it when the object they see, the
\* old one for a deletion, has an owner reference to a CIDRPolicy.
SetNetpol(new) ==
    LET seen == IF new = None THEN netpol ELSE new
    IN  /\ netpol' = new
        /\ npEvent' = IF new # netpol /\ seen.owner \in Uids
                      THEN [i \in Instances |-> TRUE] ELSE npEvent

Publish(reason, uid) == events' = events \cup (({reason} \cap RecordedReasons) \X {uid})

\* The reconcile goes on; what it read before a write is of no use after it.
Goto(i, pc) == rec' = [rec EXCEPT ![i].pc = pc, ![i].existing = None]

\* The reconcile returns and the runtime calls again at the given time, or sooner when a watch event
\* asked for it meanwhile.
Finish(i, when) ==
    /\ rec' = [rec EXCEPT ![i] = Idle]
    /\ due' = [due EXCEPT ![i] = IF @ = "now" THEN "now" ELSE when]

Spawn(i, stage) ==
    \E t \in Tasks :
        /\ task[t] = NoTask
        /\ task' = [task EXCEPT ![t] = [pc |-> "read", by |-> i, uid |-> rec[i].pol.uid,
                                        stage |-> stage, read |-> NoStatus]]

\* Mutant: a failure waits for the next change.
FailAndWait(i, stage) == Spawn(i, stage) /\ Finish(i, "none")

\* The reconcile returns an error: error_policy spawns handle_reconcile_failure and requeues.
Fail(i, stage) == Spawn(i, stage) /\ Finish(i, "retry")

\* Mutant: a schedule with a next time counts as one without.
RequeueUnlessFires(i) ==
    IF Fires(rec[i].pol.spec) THEN Fail(i, "scheduling")
    ELSE Finish(i, "resync") /\ UNCHANGED task

\* The end of reconcile: Action::requeue at the next time of the cron schedule, if it has one.
Requeue(i) ==
    IF Fires(rec[i].pol.spec) THEN Finish(i, "resync") /\ UNCHANGED task
    ELSE Fail(i, "scheduling")

\* A call that took effect is answered, or its answer is lost and the code sees an error.
Answered(i, reply, next) ==
    \/ reply = "ok" /\ next
    \/ reply = "lost" /\ rec[i].pc \in Faults /\ Fail(i, "kubernetes-api")

-----------------------------------------------------------------------------
(* reconcile() *)

Begin(i) == rec[i].pc = "idle" /\ due[i] = "now"

\* The runtime finds no such object in its store and drops the request.
StartMissing(i) ==
    /\ Begin(i) /\ store[i] = None
    /\ due' = [due EXCEPT ![i] = "none"]
    /\ UNCHANGED <<cluster, store, polEvent, npEvent, rec, task>>

\* Mutant: a policy under deletion is reconciled like any other.
FirstAwaitOfAny(pol) ==
    IF Defect(pol.spec) # "none" THEN "invalid"
    ELSE IF pol.spec.pointer # {} THEN "pointer" ELSE "fetch"

\* Where reconcile comes to first: cleanup of a policy under deletion before anything else.
FirstAwait(pol) ==
    IF pol.deleting THEN "get"
    ELSE IF Defect(pol.spec) # "none" THEN "invalid"
    ELSE IF pol.spec.pointer # {} THEN "pointer" ELSE "fetch"

Start(i) ==
    /\ Begin(i) /\ store[i] # None
    /\ LET pol == store[i]
       IN  rec' = [rec EXCEPT ![i] = [pc |-> FirstAwait(pol), pol |-> pol,
                                      source |-> pol.spec.source, cidrs |-> <<>>,
                                      existing |-> None, outcome |-> "none"]]
    /\ due' = [due EXCEPT ![i] = "none"]
    /\ UNCHANGED <<cluster, store, polEvent, npEvent, task>>

\* Mutant: a rejected spec is no error.
RejectSpecQuietly(i) ==
    /\ rec[i].pc = "invalid"
    /\ Finish(i, "none")
    /\ UNCHANGED <<cluster, store, polEvent, npEvent, task>>

\* validate_policy rejects the spec.
RejectSpec(i) ==
    /\ rec[i].pc = "invalid"
    /\ Fail(i, Defect(rec[i].pol.spec))
    /\ UNCHANGED <<cluster, store, polEvent, npEvent>>

\* The address the text of a pointer page stands for, read by the rules of a configured one.
Resolved(document) == {address \in document.captures : AcceptedAddress(address)}

\* Mutant: without a match the base address is fetched.
FetchPointerOrBase(i) ==
    /\ rec[i].pc = "pointer"
    /\ LET document == remote[rec[i].source]
           finals == IF Resolved(document) = {} THEN {rec[i].source} ELSE Resolved(document)
       IN  IF document.stage = "transport" THEN Fail(i, "pointer-retrieval")
           ELSE /\ \E final \in finals :
                     rec' = [rec EXCEPT ![i].pc = "fetch", ![i].source = final]
                /\ UNCHANGED <<due, task>>
    /\ UNCHANGED <<cluster, store, polEvent, npEvent>>

\* resolve_final_source with a pointer: the regex is applied to the text of the source.
FetchPointer(i) ==
    /\ rec[i].pc = "pointer"
    /\ LET document == remote[rec[i].source]
       IN  IF document.stage = "transport" THEN Fail(i, "pointer-retrieval")
           ELSE IF Resolved(document) = {} THEN Fail(i, "pointer-extraction")
           ELSE /\ \E final \in Resolved(document) :
                     rec' = [rec EXCEPT ![i].pc = "fetch", ![i].source = final]
                /\ UNCHANGED <<due, task>>
    /\ UNCHANGED <<cluster, store, polEvent, npEvent>>

\* fetch_json, extract_cidrs and build_managed_network_policy.
Fetch(i) ==
    /\ rec[i].pc = "fetch"
    /\ LET result == ExtractCidrs(remote[rec[i].source])
       IN  IF result.stage # "none" THEN Fail(i, result.stage)
           ELSE IF ~Renders(rec[i].pol.spec) THEN Fail(i, "selector-translation")
           ELSE /\ rec' = [rec EXCEPT ![i].pc = "get", ![i].source = None,
                                        ![i].cidrs = result.cidrs]
                /\ UNCHANGED <<due, task>>
    /\ UNCHANGED <<cluster, store, polEvent, npEvent>>

Desired(i) == BuildManagedNetworkPolicy(rec[i].pol, rec[i].cidrs)

\* Mutant: cleanup does not look whose object it is.
ForeignToReconcile(pol, np) ==
    ~pol.deleting /\ np # None /\ ~IsManagedNetworkPolicyFor(pol, np)

Foreign(pol, np) == np # None /\ ~IsManagedNetworkPolicyFor(pol, np)

\* get_managed_network_policy, and then what the caller does with the answer: reconcile classifies
\* it, cleanup deletes what is there.
GetNetpol(i) ==
    /\ rec[i].pc = "get"
    /\ LET pol == rec[i].pol
           same == netpol # None /\ ManagedPolicyMatches(netpol, Desired(i))
           pc == IF Foreign(pol, netpol) THEN "collision"
                 ELSE IF pol.deleting
                      THEN IF netpol = None THEN "cleanupEvent" ELSE "cleanupDelete"
                 ELSE IF same THEN "status" ELSE "apply"
       IN  rec' = [rec EXCEPT ![i].pc = pc, ![i].existing = netpol,
                              ![i].outcome = IF same THEN "NoChange" ELSE "Reconciled"]
    /\ UNCHANGED <<cluster, runtime, task>>

\* Mutants: a collision raises no event, or no error.
CollisionWithoutEvent(i) ==
    /\ rec[i].pc = "collision"
    /\ Fail(i, "managed-policy-collision")
    /\ UNCHANGED <<cluster, store, polEvent, npEvent>>
CollisionWithoutError(i) ==
    /\ rec[i].pc = "collision"
    /\ Publish("ManagedPolicyCollision", rec[i].pol.uid)
    /\ Finish(i, "none")
    /\ UNCHANGED <<policy, status, lastUid, netpol, remote, store, polEvent, npEvent, task>>

\* report_managed_policy_collision, and the error that follows it.
ReportCollision(i) ==
    /\ rec[i].pc = "collision"
    /\ Publish("ManagedPolicyCollision", rec[i].pol.uid)
    /\ Fail(i, "managed-policy-collision")
    /\ UNCHANGED <<policy, status, lastUid, netpol, remote, store, polEvent, npEvent>>

\* apply_managed_network_policy: nothing but the name says which object is written.
ApplyNetpol(i, reply) ==
    /\ rec[i].pc = "apply"
    /\ ApplyAccepted(netpol)
    /\ SetNetpol(ServerSideApply(netpol, Desired(i)))
    /\ Answered(i, reply, Goto(i, "status") /\ UNCHANGED <<due, task>>)
    /\ UNCHANGED <<policy, status, lastUid, events, remote, store, polEvent>>

ApplyRefused(i) ==
    /\ rec[i].pc = "apply"
    /\ ~ApplyAccepted(netpol)
    /\ Fail(i, "kubernetes-api")
    /\ UNCHANGED <<cluster, store, polEvent, npEvent>>

\* patch_status_for_outcome after a success: by name, with a new success time, so that the patch is
\* always a change. publish_outcome_event has nothing to publish after NoChange.
PatchStatus(i, reply) ==
    /\ rec[i].pc = "status" /\ policy # None
    /\ status' = [observed |-> {rec[i].cidrs}, error |-> {}]
    /\ PolicyChanged
    /\ Answered(i, reply,
          IF rec[i].outcome = "NoChange" THEN Requeue(i)
          ELSE Goto(i, "event") /\ UNCHANGED <<due, task>>)
    /\ UNCHANGED <<policy, lastUid, netpol, events, remote, store, npEvent>>

PatchStatusMissing(i) ==
    /\ rec[i].pc = "status" /\ policy = None
    /\ Fail(i, "kubernetes-api")
    /\ UNCHANGED <<cluster, store, polEvent, npEvent>>

\* publish_outcome_event and the end of reconcile.
PublishOutcome(i) ==
    /\ rec[i].pc = "event"
    /\ Publish("Reconciled", rec[i].pol.uid)
    /\ Requeue(i)
    /\ UNCHANGED <<policy, status, lastUid, netpol, remote, store, polEvent, npEvent>>

-----------------------------------------------------------------------------
(* cleanup() *)

\* delete_managed_network_policy: by name again, and an object that is gone is no error.
CleanupDelete(i, reply) ==
    /\ rec[i].pc = "cleanupDelete"
    /\ SetNetpol(None)
    /\ Answered(i, reply, Goto(i, "cleanupEvent") /\ UNCHANGED <<due, task>>)
    /\ UNCHANGED <<policy, status, lastUid, events, remote, store, polEvent>>

\* The event of a finished cleanup; reconcile then waits for a change and sets no timer.
CleanupEvent(i) ==
    /\ rec[i].pc = "cleanupEvent"
    /\ Publish("CleanupManagedPolicy", rec[i].pol.uid)
    /\ Finish(i, "none")
    /\ UNCHANGED <<policy, status, lastUid, netpol, remote, store, polEvent, npEvent, task>>

\* The call of an await fails without effect.
FailureStage(pc) ==
    CASE pc = "pointer" -> "pointer-retrieval"
      [] pc = "fetch" -> "transport"
      [] OTHER -> "kubernetes-api"

CallFails(i) ==
    /\ rec[i].pc \in Faults \cap Awaits
    /\ Fail(i, FailureStage(rec[i].pc))
    /\ UNCHANGED <<cluster, store, polEvent, npEvent>>

-----------------------------------------------------------------------------
(* handle_reconcile_failure(), in the detached task *)

EndTask(t) == task' = [task EXCEPT ![t] = NoTask]

\* patch_status_for_outcome after a failure reads the policy first ...
TaskRead(t) ==
    /\ task[t].pc = "read"
    /\ IF policy = None THEN EndTask(t)
       ELSE task' = [task EXCEPT ![t].pc = "patch", ![t].read = status]
    /\ UNCHANGED <<cluster, runtime, rec>>

\* ... and writes back all three fields, two of them as it read them. An unchanged status is no
\* change of the object.
TaskPatch(t, reply) ==
    /\ task[t].pc = "patch" /\ policy # None
    /\ status' = [observed |-> task[t].read.observed, error |-> {task[t].stage}]
    /\ IF status' = status THEN UNCHANGED polEvent ELSE PolicyChanged
    /\ \/ reply = "ok"
          /\ task' = [task EXCEPT ![t].pc = "report", ![t].read = NoStatus]
       \/ reply = "lost" /\ "patch" \in Faults /\ EndTask(t)
    /\ UNCHANGED <<policy, lastUid, netpol, events, remote, store, npEvent, due, rec>>

TaskPatchMissing(t) ==
    /\ task[t].pc = "patch" /\ policy = None
    /\ EndTask(t)
    /\ UNCHANGED <<cluster, runtime, rec>>

TaskReport(t) ==
    /\ task[t].pc = "report"
    /\ Publish("ReconcileFailed", task[t].uid)
    /\ EndTask(t)
    /\ UNCHANGED <<policy, status, lastUid, netpol, remote, runtime, rec>>

\* A failed call ends the task; the error is only logged.
TaskFails(t) ==
    /\ task[t].pc \in Faults \cap TaskAwaits
    /\ EndTask(t)
    /\ UNCHANGED <<cluster, runtime, rec>>

-----------------------------------------------------------------------------
(* The kube-rs runtime, set up by run_controller() *)

\* A watch event of the policy: the store follows, and a policy that exists is reconciled at once.
DeliverPolicy(i) ==
    /\ polEvent[i]
    /\ polEvent' = [polEvent EXCEPT ![i] = FALSE]
    /\ store' = [store EXCEPT ![i] = policy]
    /\ due' = IF policy = None THEN due ELSE [due EXCEPT ![i] = "now"]
    /\ UNCHANGED <<cluster, npEvent, rec, task>>

\* A watch event of a NetworkPolicy: its owner is reconciled at once.
DeliverNetpol(i) ==
    /\ npEvent[i]
    /\ npEvent' = [npEvent EXCEPT ![i] = FALSE]
    /\ due' = [due EXCEPT ![i] = "now"]
    /\ UNCHANGED <<cluster, store, polEvent, rec, task>>

\* The requeue delay of a failure, or the time of the schedule, has come.
TimerFires(i) ==
    /\ rec[i].pc = "idle" /\ due[i] \in {"retry", "resync"}
    /\ due' = [due EXCEPT ![i] = "now"]
    /\ UNCHANGED <<cluster, store, polEvent, npEvent, rec, task>>

\* The process dies with everything it holds and is started again: its watches begin with the
\* objects there are.
Crash(i) ==
    /\ MayCrash
    /\ rec' = [rec EXCEPT ![i] = Idle]
    /\ task' = [t \in Tasks |-> IF task[t].by = i THEN NoTask ELSE task[t]]
    /\ store' = [store EXCEPT ![i] = None]
    /\ due' = [due EXCEPT ![i] = "none"]
    /\ polEvent' = [polEvent EXCEPT ![i] = TRUE]
    /\ npEvent' = [npEvent EXCEPT ![i] = netpol # None /\ netpol.owner \in Uids]
    /\ UNCHANGED cluster

-----------------------------------------------------------------------------
(* Users, the garbage collector and the remote sources *)

CreatePolicy(spec) ==
    /\ policy = None /\ lastUid < MaxUid
    /\ policy' = [uid |-> lastUid + 1, spec |-> spec, deleting |-> FALSE]
    /\ lastUid' = lastUid + 1
    /\ PolicyChanged
    /\ UNCHANGED <<status, netpol, events, remote, store, npEvent, due, rec, task>>

UpdateSpec(spec) ==
    /\ policy # None /\ policy.spec # spec
    /\ policy' = [policy EXCEPT !.spec = spec]
    /\ PolicyChanged
    /\ UNCHANGED <<status, lastUid, netpol, events, remote, store, npEvent, due, rec, task>>

\* A deletion that a finalizer of somebody else holds up: the one case in which cleanup() runs.
MarkDeleting ==
    /\ policy # None /\ ~policy.deleting
    /\ policy' = [policy EXCEPT !.deleting = TRUE]
    /\ PolicyChanged
    /\ UNCHANGED <<status, lastUid, netpol, events, remote, store, npEvent, due, rec, task>>

RemovePolicy ==
    /\ policy # None
    /\ policy' = None
    /\ status' = NoStatus
    /\ PolicyChanged
    /\ UNCHANGED <<lastUid, netpol, events, remote, store, npEvent, due, rec, task>>

\* The owner reference names a policy that is no more.
Dangling ==
    netpol # None /\ netpol.owner \in Uids /\ (policy # None => policy.uid # netpol.owner)

GarbageCollect ==
    /\ Dangling
    /\ SetNetpol(None)
    /\ UNCHANGED <<policy, status, lastUid, events, remote, store, polEvent, due, rec, task>>

\* What a user may turn the object of the managed name into.
UserEdited(edit) ==
    CASE edit = "create" -> IF netpol = None THEN UserNetpols ELSE {}
      [] edit = "delete" -> IF netpol = None THEN {} ELSE {None}
      [] edit = "annotate" -> IF netpol = None THEN {} ELSE {[netpol EXCEPT !.extra = TRUE]}
      [] edit = "rewrite" -> IF netpol = None THEN {}
                             ELSE {[netpol EXCEPT !.spec = np.spec] : np \in UserNetpols}
      [] edit = "strip" -> IF netpol = None THEN {} ELSE {[netpol EXCEPT !.marked = FALSE]}

UserEdit ==
    /\ \E edit \in UserEdits : \E new \in UserEdited(edit) : new # netpol /\ SetNetpol(new)
    /\ UNCHANGED <<policy, status, lastUid, events, remote, store, polEvent, due, rec, task>>

RemoteChange(src) ==
    /\ \E d \in Published[src] : d # remote[src] /\ remote' = [remote EXCEPT ![src] = d]
    /\ UNCHANGED <<policy, status, lastUid, netpol, events, runtime, rec, task>>

-----------------------------------------------------------------------------
(* The specification *)

Init ==
    /\ policy = None /\ status = NoStatus /\ lastUid = 0
    /\ netpol \in UserNetpols \cup {None}
    /\ events = {}
    /\ remote \in {f \in [Sources -> UNION {Published[src] : src \in Sources}] :
                    \A src \in Sources : f[src] \in Published[src]}
    /\ store = [i \in Instances |-> None]
    /\ polEvent = [i \in Instances |-> FALSE]
    /\ npEvent = [i \in Instances |-> FALSE]
    /\ due = [i \in Instances |-> "none"]
    /\ rec = [i \in Instances |-> Idle]
    /\ task = [t \in Tasks |-> NoTask]

\* The steps of a reconcile whose calls are answered.
Reconcile(i) ==
    \/ StartMissing(i) \/ Start(i) \/ RejectSpec(i) \/ FetchPointer(i) \/ Fetch(i)
    \/ GetNetpol(i) \/ ReportCollision(i) \/ ApplyNetpol(i, "ok") \/ ApplyRefused(i)
    \/ PatchStatus(i, "ok") \/ PatchStatusMissing(i) \/ PublishOutcome(i)
    \/ CleanupDelete(i, "ok") \/ CleanupEvent(i)

HandleFailure(t) ==
    TaskRead(t) \/ TaskPatch(t, "ok") \/ TaskPatchMissing(t) \/ TaskReport(t)

\* What goes wrong with the calls and the processes.
Disruption ==
    \/ \E i \in Instances : \/ ApplyNetpol(i, "lost") \/ PatchStatus(i, "lost")
                             \/ CleanupDelete(i, "lost") \/ CallFails(i) \/ Crash(i)
    \/ \E t \in Tasks : TaskPatch(t, "lost") \/ TaskFails(t)

\* What users and remote sources do.
Environment ==
    \/ \E s \in Specs : CreatePolicy(s) \/ UpdateSpec(s)
    \/ MarkDeleting \/ RemovePolicy \/ UserEdit
    \/ \E src \in Sources : RemoteChange(src)

\* What the controller, its runtime and the garbage collector do.
Work ==
    \/ \E i \in Instances : \/ Reconcile(i)
                             \/ DeliverPolicy(i) \/ DeliverNetpol(i) \/ TimerFires(i)
    \/ \E t \in Tasks : HandleFailure(t)
    \/ GarbageCollect

Next == Work \/ Disruption \/ Environment

Spec == Init /\ [][Next]_vars

\* The reconcile waits for an answer that need not come: no request of the HTTP client has a timeout.
Hangs(i) == rec[i].pc \in {"pointer", "fetch"} /\ rec[i].source \in Silent

\* The other calls are answered, watches deliver, timers fire, spawned tasks run and the garbage
\* collector works; nobody has to change anything and nothing has to go wrong.
Fairness ==
    /\ \A i \in Instances : /\ WF_vars(~Hangs(i) /\ Reconcile(i)) /\ WF_vars(DeliverPolicy(i))
                             /\ WF_vars(DeliverNetpol(i)) /\ WF_vars(TimerFires(i))
    /\ \A t \in Tasks : WF_vars(HandleFailure(t))
    /\ WF_vars(GarbageCollect)

FairSpec == Spec /\ Fairness

-----------------------------------------------------------------------------
(* Properties *)

\* The types of the variables; a running reconcile has a snapshot of the policy it is for.
TypeOK ==
    /\ policy \in Policies \cup {None}
    /\ status \in Statuses
    /\ lastUid \in 0 .. MaxUid
    /\ netpol \in Netpols \cup {None}
    /\ events \subseteq Reasons \X Uids
    /\ \A src \in Sources : remote[src] \in Published[src]
    /\ store \in [Instances -> Policies \cup {None}]
    /\ polEvent \in [Instances -> BOOLEAN]
    /\ npEvent \in [Instances -> BOOLEAN]
    /\ due \in [Instances -> {"none", "now", "retry", "resync"}]
    /\ rec \in [Instances -> Reconciles]
    /\ \A i \in Instances : rec[i].pc # "idle" => rec[i].pol \in Policies
    /\ task \in [Tasks -> Failures]

\* The proof of ownership the specification of the controller asks for (spec.md, Entity: Managed
\* NetworkPolicy): label, annotation and the owner reference to this very object.
ProvablyOwned(pol) == netpol # None /\ netpol.marked /\ netpol.owner = pol.uid

\* The managed object is what the reconciled policy asks for.
InForce(i) ==
    /\ ProvablyOwned(rec[i].pol)
    /\ netpol.spec = Returned(RenderSpec(rec[i].pol.spec, rec[i].cidrs))

\* A reconcile is under way, asked for, or about to be asked for by a watch event.
Pending(i) == rec[i].pc # "idle" \/ due[i] # "none" \/ polEvent[i] \/ npEvent[i]

\* No lost wake-up: in every process a live policy has a reconcile pending, and so has a policy
\* under deletion whose managed NetworkPolicy is still there. The retries, the schedule, the watch
\* events and the restarts between them never lose the object
\* (error_policy, the Actions of reconcile, run_controller).
NeverForgotten ==
    policy # None /\ (policy.deleting => ProvablyOwned(policy))
        => \A i \in Instances : Pending(i)

\* The controller changes an object it does not own only when that object took the place of what
\* get_managed_network_policy had read: the check is never skipped, not for another incarnation of
\* the policy, not by cleanup, not with another instance at work.
TouchesOnlyChecked ==
    [][\A i \in Instances :
         /\ rec[i].pc \in {"apply", "cleanupDelete"} /\ rec'[i] # rec[i]
         /\ netpol' # netpol /\ netpol # None /\ ~ProvablyOwned(rec[i].pol)
         => netpol # rec[i].existing]_vars

\* The sources a spec may end at, and the CIDR sequences it may stand for.
Finals(spec) ==
    IF spec.pointer = {} THEN {spec.source}
    ELSE UNION {Resolved(d) : d \in Published[spec.source]}
WholeLists(spec) == UNION {Yields(d) : d \in UNION {Published[src] : src \in Finals(spec)}}

\* What apply_managed_network_policy writes is the whole rendering of an accepted spec, with all the
\* CIDRs of one document that a source of that spec served and every check accepted: no failure, no
\* partial document and no document of another spec ever reaches the NetworkPolicy.
WritesWholeSource ==
    [][\A i \in Instances :
         rec[i].pc = "apply" /\ rec'[i] # rec[i] /\ netpol' # netpol
         => /\ Defect(rec[i].pol.spec) = "none" /\ ~rec[i].pol.deleting
            /\ netpol'.owner = rec[i].pol.uid
            /\ \E cidrs \in WholeLists(rec[i].pol.spec) :
                  netpol'.spec = Returned(RenderSpec(rec[i].pol.spec, cidrs))]_vars

\* Annotations of users and the lists the API server leaves out make managed_policy_matches fail in
\* every reconcile of an object in force. The apply that follows changes nothing then, not even what
\* users added, so the NetworkPolicy of an idle cluster is left in peace.
ReapplyChangesNothing ==
    [][\A i \in Instances :
         rec[i].pc = "apply" /\ rec'[i] # rec[i] /\ InForce(i) => netpol' = netpol]_vars

\* With one process and nobody tampering, success is only reported of a NetworkPolicy that is in
\* force, whatever calls failed and wherever the process was killed before
\* (the order of apply, patch_status_for_outcome and publish_outcome_event in reconcile).
SuccessIsInForce ==
    \A i \in Instances :
        rec[i].pc \in {"status", "event"} /\ policy # None /\ policy.uid = rec[i].pol.uid
        => InForce(i)

\* A status that blames a collision is backed by a collision warning event for this incarnation of
\* the policy or an earlier one (report_managed_policy_collision comes before the error).
CollisionIsWarned ==
    status.error = {"managed-policy-collision"}
        => \E uid \in 1 .. lastUid : <<"ManagedPolicyCollision", uid>> \in events

-----------------------------------------------------------------------------
(* The inductive invariant of the safety properties *)

\* What a reconcile has established by the time it is at a given await; between reconciles a process
\* holds nothing of the last one.
Sound(r) ==
    /\ IF r.pc = "idle" THEN r = Idle ELSE r.pol \in Policies
    /\ r.pc = "invalid" => Defect(r.pol.spec) # "none"
    /\ r.pc \in {"pointer", "fetch", "apply", "status", "event"} => ~r.pol.deleting
    /\ r.pc \in {"pointer", "fetch", "get", "apply", "status", "event"} /\ ~r.pol.deleting
            => Defect(r.pol.spec) = "none"
    /\ r.pc = "pointer" => r.pol.spec.pointer # {} /\ r.source = r.pol.spec.source
    /\ r.pc = "fetch" => r.source \in Finals(r.pol.spec)
    /\ r.pc \in {"get", "apply", "status", "event"} /\ ~r.pol.deleting
            => r.cidrs \in WholeLists(r.pol.spec)
    /\ r.pc \in {"apply", "cleanupDelete"} /\ r.existing # None
            => IsManagedNetworkPolicyFor(r.pol, r.existing)
    /\ r.pc \in {"cleanupDelete", "cleanupEvent"} => r.pol.deleting

SoundReconciles == \A i \in Instances : Sound(rec[i])
SoundTasks == \A t \in Tasks : task[t].pc # "free" => task[t].stage \in Stages /\ task[t].uid \in Uids

\* What a process does not know yet it is going to be told: of the policy by its watch, of the policy
\* a reconcile was not called with by the request that waits for its end, and of a NetworkPolicy that
\* came back after its deletion by the watch of the owned objects.
Informed(i) ==
    /\ store[i] = policy \/ polEvent[i]
    /\ rec[i].pc # "idle" => rec[i].pol = store[i] \/ store[i] = None \/ due[i] = "now"
    /\ rec[i].pc = "cleanupEvent" /\ policy # None /\ ProvablyOwned(policy)
            => npEvent[i] \/ polEvent[i] \/ due[i] = "now"
    /\ policy # None /\ (policy.deleting => ProvablyOwned(policy)) => Pending(i)

IInv == TypeOK /\ SoundReconciles /\ SoundTasks /\ \A i \in Instances : Informed(i)

\* A policy that is created is not the one anybody still knows.
UidsAreGiven ==
    /\ policy # None => policy.uid <= lastUid
    /\ \A i \in Instances : /\ store[i] # None => store[i].uid <= lastUid
                            /\ rec[i].pc # "idle" => rec[i].pol.uid <= lastUid

\* Nobody is to blame a collision before it was warned of: neither the status nor a task that is going
\* to write it. The event must be one the model keeps.
Warned == \E uid \in 1 .. lastUid : <<"ManagedPolicyCollision", uid>> \in events
BlameIsWarned ==
    /\ status.error = {"managed-policy-collision"} => Warned
    /\ \A t \in Tasks : task[t].stage = "managed-policy-collision" => Warned

\* What the controller wrote is stored the way it is read, when nobody else edits it: an object that
\* equals the rendering when it is read is in force.
StoredAsRead == netpol # None /\ netpol.owner \in Uids => Returned(netpol.spec) = netpol.spec

\* The object about to be written is the controller's own still, when nobody else creates one or takes
\* the mark from it.
WritesOwn ==
    \A i \in Instances :
        rec[i].pc \in {"apply", "cleanupDelete"} /\ netpol # None
            => IsManagedNetworkPolicyFor(rec[i].pol, netpol)

-----------------------------------------------------------------------------
(* Properties under fairness *)

\* From some point on nobody but the controller, its runtime and the garbage collector moves.
Settled == <>[][Work]_vars

\* The sources a reconcile that starts now would fetch.
FinalSources(spec) ==
    IF spec.pointer = {} THEN {spec.source}
    ELSE IF remote[spec.source].stage = "transport" THEN {} ELSE Resolved(remote[spec.source])

\* The CIDR sequence the policy stands for now, if every check accepts it.
Wanted ==
    IF Defect(policy.spec) # "none" THEN {}
    ELSE UNION {Yields(remote[src]) : src \in FinalSources(policy.spec)}

\* The managed name is taken by an object that is not the policy's.
Taken == netpol # None /\ ~ProvablyOwned(policy)

\* The cluster is as the policy wants it, or the status says that and why it cannot be.
InSync ==
    IF policy = None THEN netpol = None \/ netpol.owner \notin Uids
    ELSE IF policy.deleting THEN netpol = None \/ Taken
    ELSE IF Wanted = {} THEN status.error \notin {{}, {"managed-policy-collision"}}
    ELSE IF Taken THEN status.error = {"managed-policy-collision"}
    ELSE /\ netpol # None
         /\ netpol.spec \in {Returned(RenderSpec(policy.spec, cidrs)) : cidrs \in Wanted}
         /\ Fires(policy.spec) => status = [observed |-> Wanted, error |-> {}]

\* A process whose copy of the policy, and whose reconcile, are of the moment: what was looked up or
\* decided so far would be looked up and decided the same way now.
UpToDate(i) ==
    LET r == rec[i]
    IN  /\ store[i] = policy
        /\ r.pc # "idle" => r.pol = policy
        /\ r.pc = "fetch" => r.source \in FinalSources(policy.spec)
        /\ r.pc \in {"get", "collision", "apply", "status", "event"} /\ ~policy.deleting
               => r.cidrs \in Wanted /\ (r.pc # "get" => (Taken <=> r.pc = "collision"))

\* Whether a live policy may fail at a stage as things are now.
Expected(stage) ==
    policy # None /\ ~policy.deleting =>
        IF Wanted = {} THEN stage # "managed-policy-collision"
        ELSE IF Taken THEN stage = "managed-policy-collision"
        ELSE ~Fires(policy.spec)

\* The cluster is as it should be, and nothing the controller still is about to do comes from before.
AtRest ==
    /\ InSync /\ ~Dangling
    /\ \A i \in Instances : UpToDate(i)
    /\ \A t \in Tasks : task[t].pc \in {"read", "patch"} => Expected(task[t].stage)

\* Once users, sources and failures are quiet, the NetworkPolicy and the status become what the
\* policy asks for and stay so: every failure was retried, every tampering noticed, every stale
\* status overwritten, every orphan collected.
Converges == Settled => <>[]AtRest

\* A cluster at rest is disturbed by users, sources and failures alone: no reconcile, failure task,
\* watch, timer or garbage collection undoes what the others have done, in any number of processes.
RestIsKept == [][AtRest /\ Work => AtRest']_vars

-----------------------------------------------------------------------------
(* What documents and tests promise and the code does not always keep *)

\* spec.md: an object that is not provably owned is never modified or deleted. With one process it holds
\* as long as nobody else takes the managed name or strips the marks of the object.
ForeignIsNeverTouched ==
    [][\A i \in Instances :
         /\ rec[i].pc \in {"apply", "cleanupDelete"} /\ rec'[i] # rec[i] /\ netpol # None
         /\ ~ProvablyOwned(rec[i].pol)
         => netpol' = netpol]_vars

\* status.rs, test failed_outcome_preserves_last_good_status: a failure leaves the CIDRs of the last
\* success in the status.
FailurePreservesLastGood ==
    [][\A t \in Tasks : task[t].pc = "patch" /\ task'[t].pc = "report"
                          => status'.observed = status.observed]_vars

\* spec.md: a failed reconcile distinguishes a naming collision from a Kubernetes API failure.
CollisionIsNamed ==
    [][\A i \in Instances, t \in Tasks :
         rec[i].pc = "collision" /\ task[t] = NoTask /\ task'[t].by = i
         => task'[t].stage = "managed-policy-collision"]_vars

\* spec.md: creates and updates are reconciled immediately; once nothing changes any more, a process
\* with a reconcile under way has the policy as it is.
UpdatesReachReconcile ==
    Settled => <>[](policy # None => \A i \in Instances : rec[i].pc = "idle" \/ rec[i].pol = policy)

\* spec.md, impl.md: watch events are for creates and updates, the schedule for the rest; once nothing
\* changes any more, no further watch event of the policy comes.
ScheduleGovernsResync == Settled => <>[](\A i \in Instances : ~polEvent[i])
=============================================================================
