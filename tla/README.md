# ipmaze-controller in TLA+

`ipmaze-controller` watches `CIDRPolicy` objects. For each of them it fetches a JSON document from a
remote address, extracts a list of CIDRs with a JMESPath query, and keeps one `NetworkPolicy`,
`<name>-managed`, in line with the policy and that list. This directory holds TLA+ models of the
controller, the TLC configurations that check them, and proofs about them that TLAPS checks. Paths
below are relative to `crates/ipmaze-controller/src/`; `spec.md` is `spec/ipmaze-controller/spec.md` and `impl.md`
is `impl/ipmaze-controller-rs/impl.md`.

## The system

| Part | State it keeps | Operations | Works with |
|---|---|---|---|
| Reconcile loop, `controller.rs` | nothing of its own: the snapshot of the policy it is called with, and locals across awaits | `reconcile`, `cleanup`, `get_managed_network_policy`, `delete_managed_network_policy`, `report_managed_policy_collision`, `next_resync_after` | all others |
| Failure policy, `controller.rs` | detached tasks | `error_policy`, `handle_reconcile_failure` | status, events |
| Status, `status.rs` | the `status` of the `CIDRPolicy` | `status_for_outcome`, `patch_status_for_outcome` | API server |
| Rendering and ownership, `netpol.rs` | the `NetworkPolicy` | `build_managed_network_policy`, `is_managed_network_policy_for`, `apply_managed_network_policy` | API server |
| Retrieval, `source.rs` | none | `resolve_final_source`, `fetch_text`, `fetch_json`, `normalize_source_address` | remote sources |
| Extraction, `extract.rs` | none | `compile_query`, `extract_cidrs` | |
| Validation, `validation.rs` | none | `validate_spec`, `validate_resync_schedule` | |
| kube-runtime (external) | reflector store, one pending request per object with its time, the reconciles under way | watch events, requeue, one reconcile of an object at a time | calls `reconcile` and `error_policy` |
| API server and garbage collector (external) | the objects | get, server-side apply, delete, merge patch of the status, watches, deletion of objects without their owner | |
| Users, remote sources (external) | | create, change and delete policies; take, edit or delete the object of the managed name; publish other documents | |

The types of `api.rs` are the records of the models. `lib.rs`, `main.rs`, the generated CRD, the manifests
and the Helm chart are declarations and configuration without behaviour of their own and are not modelled.

What makes it correct, and is hard to test:

* Every await of a reconcile is a point where the cluster may change. Reads (the policy snapshot, the
  ownership check, the pointer page) are stale when they are used, and writes go by name, without a
  `uid` or `resourceVersion`.
* `error_policy` spawns a task that is not serialised with the reconciles of the same object: it reads
  the status and writes all of it back, perhaps after a later success.
* Nothing is persisted but the objects themselves. Retry delay, cron schedule, watch events and
  restarts share one pending request per object, and together they must never lose it.
* There is no finalizer, no leader election and no HTTP timeout.
* A document that is in part unusable must change nothing; a document in another order is no change.

PROJECT.json lists these hazards at their lines, with the properties that cover them.

## Modules

| Module | Models |
|---|---|
| `SourceAddress` | `normalize_source_address` and `is_valid_hostname`: which addresses are accepted, and the scheme of the request |
| `PolicyValidation` | `validate_spec` with the order of its checks: selectors, rules, address, pointer, query, schedule |
| `CidrDocument` | what a body turns into: `ExtractCidrs` is `fetch_json` and `extract_cidrs` on one document; `Yields` is the reference it is compared with |
| `CidrExtraction` | the loop of `extract_cidrs`, an element a step, against `CidrDocument` |
| `NetworkPolicyObject` | the rendering of `netpol.rs` with the errors of `render_selector`, the ownership test, `managed_policy_matches`, and server-side apply |
| `Reconciler` | the controller: `reconcile`, `cleanup`, the failure tasks, the runtime, users, sources and the garbage collector |
| `PolicyAdmission` | one spec on its way through `validate_spec` and `build_managed_network_policy` |
| `ManagedPolicyContract` | the abstract promise: what a process may do to the managed object, and after what |
| `ReconcilerRefinement` | the refinement mapping from `Reconciler` to the contract |
| `OrderProofs` | lemmas: the ascending sequence of a finite set exists and is unique |
| `ExtractionProofs` | theorems about `CidrExtraction` |
| `RenderingProofs` | lemmas about `NetworkPolicyObject`: what is rendered, and what reads and applies do to it |
| `AdmissionProofs` | theorems about `PolicyAdmission` |
| `ReconcilerProofs` | the inductive invariant of `Reconciler` and what follows from it |
| `RefinementProofs` | that `Reconciler` implements `ManagedPolicyContract` |
| `OutcomeProofs` | what `Reconciler` reports, and under which conditions the promises of the documents hold |
| `RestProofs` | that `Reconciler` leaves a cluster at rest in peace |
| `MCCidrExtraction`, `MCPolicyAdmission`, `MCReconciler` | the values TLC instantiates them with |

`PolicyValidation` and `CidrDocument` EXTEND `SourceAddress`; `NetworkPolicyObject` EXTENDS both, and
`Reconciler` and `PolicyAdmission` EXTEND `NetworkPolicyObject`. A spec is one record in all of them:
its source address, whether its pointer regex and its query compile, its schedule, its target selector
and its rules. The proof modules build on one another too: `ExtractionProofs` and `RenderingProofs` EXTEND
`OrderProofs`; `AdmissionProofs` and `ReconcilerProofs` EXTEND `RenderingProofs`; `RefinementProofs` and
`OutcomeProofs` take the inductive invariant from `ReconcilerProofs`, and `RestProofs` EXTENDS
`OutcomeProofs`.

### How `Reconciler` corresponds to the code

The model is about one `(namespace, name)`. The managed name `{name}-managed` is an injective function
of the policy's name, the controller keeps no state across objects, and the runtime serialises
reconciles per object, so different names do not meet.

The code between two awaits is one action. `rec[i].pc` names the await the reconcile of process `i` is
at:

| `pc` | await | action |
|---|---|---|
| `idle` | not running | `Start`, `StartMissing` |
| `invalid` | none: `validate_policy` has failed and the runtime is about to call `error_policy` | `RejectSpec` |
| `pointer` | `fetch_text` of `resolve_final_source` | `FetchPointer` |
| `fetch` | `fetch_json` (then extraction and rendering) | `Fetch` |
| `get` | `get_opt` in reconcile and in cleanup | `GetNetpol` |
| `collision` | the collision event | `ReportCollision` |
| `apply` | the forced apply | `ApplyNetpol`, `ApplyRefused` |
| `status` | `patch_status` | `PatchStatus`, `PatchStatusMissing` |
| `event` | the `Reconciled` event, and the requeue | `PublishOutcome` |
| `cleanupDelete`, `cleanupEvent` | `delete`, the cleanup event | `CleanupDelete`, `CleanupEvent` |

`task[t]` is a failure task: `read` (`TaskRead`), `patch` (`TaskPatch`), `report` (`TaskReport`). A
failing call is `CallFails` or `TaskFails`; a call that took effect and whose answer is lost is the
`"lost"` case of the writes. `due[i]` is the request the runtime holds for the object: none, now, after
the retry delay, or at the next time of the schedule; a watch event makes it now (the scheduler keeps
the earlier time). `polEvent[i]` and `npEvent[i]` say that a watch event is under way to process `i`;
the events of one watch collapse into one, because the store takes the latest object anyway.

Data is reduced to what the properties tell apart. A CIDR is a number that stands for its text. A
document is the stage that rejects it, or its elements, and the address the pointer regex captures in
its text. An address is what the parsers see of it: its scheme as a URL, its family as an IP address,
its labels as a host name, and whether it can be the host of a URL. Of a label selector the expressions
are kept with their operator and the number of their values; labels are opaque. A `NetworkPolicy` is whether it carries the management marks, whose
`uid` its controller reference holds, whether others added labels or annotations, and its spec. Status
times are left out; that every success writes a new one is kept, as the fact that a success patch is
always a change that the watches report.

External behaviour that the model assumes: an apply to an object whose controller reference another
operator set is refused, as it would be a second one, while a reference to an earlier incarnation of the
policy is dropped by the apply, because all processes are one field manager (`ApplyAccepted`); the API server returns an empty rule list as absent when `OmitsEmptyLists`,
the object of a removed policy is collected in the background, and a policy stays visible as deleting
only when somebody else's finalizer holds it (the controller sets none).

## What the runs check

| Run | Question | Properties |
|---|---|---|
| `recovery` | every call may fail or lose its answer, the process may be killed anywhere, the policy is changed, deleted and recreated | `TypeOK`, `NeverForgotten`, `SuccessIsInForce`, `WritesWholeSource`, `TouchesOnlyChecked`, `ForeignIsNeverTouched` |
| `sources` | pointer pages, captured addresses that are none, rejected specs, schedules that never fire, a list that reads omit, annotations of users | `NeverForgotten`, `WritesWholeSource`, `IInv`, `ReapplyChangesNothing` |
| `tampering` | users and other operators take, strip and delete the object of the managed name | `NeverForgotten`, `CollisionIsWarned`, `TouchesOnlyChecked`, `ImplementsContract` |
| `rollout` | two processes at once, either of which may be killed and restarted, and a user who takes the managed name | `NeverForgotten`, `TouchesOnlyChecked`, `ImplementsContract`, `RestIsKept` |
| `convergence` | liveness, once disturbances stop | `Converges` |
| `admission` | which specs are accepted, and what they are rendered to | `TranslationNeverFails`, `NeverAllowsAll`, `DirectionsAreComplete`, `RulesAreComplete` |
| `extraction` | the loop of `extract_cidrs` | `TypeOK`, `ReturnsReference`, `IgnoresOrder` |

* `NeverForgotten`: in every process, a live policy has a reconcile running, requested, or about to be
  requested by a watch event; so has a policy under deletion whose managed object is still there.
* `TouchesOnlyChecked`: an object the controller cannot prove to own is changed only if it took the
  place of the one that was checked. The stronger wish, that it is never changed, is false (below).
* `WritesWholeSource`: what is applied is the rendering of an accepted spec with all CIDRs of one
  document its source served.
* `ReapplyChangesNothing`: annotations of users and empty lists that reads omit make
  `managed_policy_matches` fail for an object that is in force; the apply that follows in every
  reconcile leaves the object as it is.
* `ImplementsContract`: every step of the controller is a step of `ManagedPolicyContract`: take up the
  policy as the store has it, settle on one whole list a source of it serves at that moment, make sure
  that the object is one's own, change it once, and never anything but a deletion for a policy under
  deletion. It orders what the other properties say of single steps.
* `TranslationNeverFails`: `render_selector` repeats the conditions of `validate_selector_requirement`
  in other words; no accepted spec fails there after its source was fetched.
* `NeverAllowsAll`, `DirectionsAreComplete`, `RulesAreComplete`: what an accepted spec is rendered to,
  by the meaning Kubernetes gives it: no rule that allows everything, not for an empty list of CIDRs
  either; no policy type without a rule; every rule in its place, with each CIDR once.
* `SuccessIsInForce`: with one process and nobody tampering, by the time success is reported the
  rendered object is in the cluster. With two processes or tampering it would be false, so only
  `recovery` checks it.
* `ForeignIsNeverTouched`: what spec.md promises of objects the controller does not own. It holds in
  `recovery`, where crashes, failing calls and new incarnations of the policy abound and nobody else
  takes the name, and fails in `foreign_overwritten`, where somebody does.
* `Converges`: if from some point on only the controller, its runtime and the garbage collector move
  (`Settled`: every step is one of `Work`), then `AtRest` holds from some
  point on. `AtRest` is `InSync` (the object is what the policy wants, or the status says why it cannot
  be; of a deleted policy nothing is left) and more: each process has the policy as it is, each
  reconcile under way would decide again what it has decided, and no failure task carries an error of
  the past.
* `RestIsKept`: a cluster in `AtRest` is taken out of it by users, sources and failures alone. Resyncs,
  watch events of the controller's own writes, the failure tasks of a spec that cannot be satisfied and
  the other process go on for ever; none of them undoes what is right. It is the safety half of
  `Converges`, and `rollout` checks it with two processes, which are too many for a liveness check.

Five runs show where the code departs from its documents and tests. Each is a `violation` run of one
property:

| Run | Property | What happens |
|---|---|---|
| `foreign_overwritten` | `ForeignIsNeverTouched` | an object that takes the managed name between the check and the forced apply, or the delete, is overwritten or deleted (`controller.rs:153-158`, spec.md:243) |
| `stale_status` | `FailurePreservesLastGood` | a failure task writes back the CIDRs it read before a later success (`status.rs:84-102`, the test at `status.rs:157`); the next success repairs it, as `convergence` shows |
| `collision_unnamed` | `CollisionIsNamed` | a collision whose event cannot be published is reported as a Kubernetes API error (`controller.rs:284`, spec.md:260) |
| `hot_loop` | `ScheduleGovernsResync` | each success writes a new time into the status, the watch reports it, the next reconcile starts: the schedule never gets to decide (`status.rs:66`, spec.md:179 and 261) |
| `silent_source` | `UpdatesReachReconcile` | the HTTP client has no timeout, and a source that never answers keeps every later change of the policy waiting, the user's correction of the address included (`source.rs:97`, spec.md:180). Where no source is silent, `convergence` shows more than this property, which `AtRest` contains |

Divergences met on the way that no run shows: a pointer regex without a capture group is accepted
(spec.md:170 asks for a rejection, `validation.rs:152`); a bare IPv6 address is rejected, because it is put
into the URL without brackets, or taken for a URL when it begins like a scheme (spec.md:48,
`source.rs:77-81`); and `managed_policy_matches` compares all labels
and annotations and the empty lists a read omits, so that such an object is applied in every reconcile
(impl.md:167 says only if the effective spec differs).

### Bounds

* Policies: two incarnations (`MaxUid`), enough for a reconcile or failure task of an old one to meet a
  new one; two specs where a change of spec matters.
* One policy name, one or two processes (`Instances`; they are interchangeable, and `rollout` declares
  the symmetry), one failure task at a time (`Tasks`), of all processes together: a failure
  while the earlier task is alive waits for it. A task that is overtaken by a reconcile, the case the
  hazards name, needs one. Two tasks that overtake each other are left out: with two, no run that has
  anything else happen stays within a few minutes. For the same reason no run has two processes and two
  incarnations, where a process that still holds the old policy may apply over the object of the new one;
  the theorems about ownership, lost wake-ups, the contract and rest cover any number of both.
* Addresses: a source, a page, and a host name with a path, which is no address. `admission` has
  addresses of every kind, and host names at the limits of 63 and 253 bytes.
* Specs: `admission` has every spec of one rule whose selectors have at most one expression (or two, the
  first of which is good), every pair of rules with plain selectors, and lists of up to two CIDRs. No
  check relates an expression, a rule or a CIDR to more than one other.
* Documents: one good array with a repetition, one torn, a pointer page in four states. What matters
  of a document is whether it is accepted and which list it yields. `extraction` looks at all arrays of
  up to four elements, enough for each order of a repetition, a fresh CIDR and both kinds of failure.
* `Faults` names the calls that may fail, `UserEdits` the edits users make, `RecordedReasons` the event
  reasons of which a record is kept (none where no property asks). They differ by run to keep each
  below a few minutes, and between them everything fails and everything is edited.
* Deadlock is not checked: when the policy is gone and the cluster is as it should be, nothing has to
  happen, and the bounds on incarnations make that a real end.

### Fairness

`FairSpec` asks weak fairness of the steps of a reconcile with answered calls, of the watches, of the
timers, of each spawned task and of the garbage collector. The runtime polls all of them on one
executor, none holds a lock another waits for, and once enabled each stays enabled or is replaced by
another step of the same reconcile or task. No fairness is asked of users, sources, failures or
crashes: `Converges` assumes that they stop, nothing assumes that they occur. No fairness
either of a request to a source in `Silent`: the client has no timeout (`source.rs:96`), so such a source
may keep the connection open for ever (`Hangs`). `convergence` has no such source, since nothing
converges behind one; `silent_source` shows what is lost.

## What is proved

The proofs are of every value of the constants: any number of processes, incarnations, tasks, sources,
specs, rules, elements and CIDRs. They use the assumptions that are named in the modules
(`ReconcilerAssumption`, `OmitsEmptyListsAssumption`, `AdmissionAssumption`, `ExtractionAssumption`),
which say what the constants are and which TLC evaluates on every run, and the hypotheses that the
theorems below state.

| Theorem | Says |
|---|---|
| `ExtractionProofs` | |
| `ExtractionTyped` | `[]TypeOK` |
| `LoopReturnsReference` | `[]ReturnsReference`: the loop of `extract_cidrs` returns what the operator `ExtractCidrs` says |
| `OrderIsIgnored` | `[]IgnoresOrder` |
| `RenderingProofs`, `AdmissionProofs` | |
| `AcceptedSpecRenders` | a spec without a `Defect` has only selectors that render |
| `AcceptedIsRendered` | `[]TranslationNeverFails` |
| `NothingAllowsAll`, `PolicyTypesFit`, `NoRuleIsLost` | `[]NeverAllowsAll`, `[]DirectionsAreComplete`, `[]RulesAreComplete` |
| `ReconcilerProofs`, `RefinementProofs` | |
| `ExtractionIsWhole` | extraction succeeds on exactly the accepted documents and returns the whole list |
| `TypeCorrect` | `TypeOK`, and what a reconcile and a task have established at each await (`SoundReconciles`, `SoundTasks`) |
| `OwnershipChecked` | `TouchesOnlyChecked` |
| `NoPartialWrite` | `WritesWholeSource` |
| `ReapplyIsNoChange` | `ReapplyChangesNothing` |
| `Inductive`, `NoLostWakeUp` | `[]IInv` and `[]NeverForgotten` |
| `HonoursContract` | `ImplementsContract` |
| `OutcomeProofs` | |
| `CollisionsAreWarned` | `[]CollisionIsWarned`, when the warning events are among those the model keeps |
| `SuccessMeansInForce` | `[]SuccessIsInForce`, with one process and users who only create or annotate the object |
| `ForeignLeftAlone` | `ForeignIsNeverTouched`, with one process and users who neither create nor strip the object |
| `SelectorsAreTranslated` | no reconcile fails in the stage `selector-translation` |
| `RestProofs` | |
| `RestKept` | `RestIsKept` |

The hypotheses of `OutcomeProofs` are conditions under which a promise holds that is false without
them. `foreign_overwritten` shows a user who takes the name; `ForeignLeftAlone` says that nothing else
stands in the way of one process: no crash, failing call, lost answer or new incarnation. A second process breaks `SuccessIsInForce` and
`ForeignIsNeverTouched` by its own legal steps: it may delete or render anew what the first one is about
to report, and it may put the object of a new incarnation where the first one is about to delete the old.

### The arguments

Order. `SortedCidrs` and the choice of the rules of a direction are `Ascending` of a set. That it exists
is an induction over the size of the set; it cannot be applied from the library, whose induction
theorems take an operator, so `OrderProofs` argues with the least size for which there is none. That it is
unique makes the choice a function, and lets the proofs say what is at each position.

Extraction. `Collected` is what the loop knows after `next - 1` elements: all of them were CIDRs, `seen`
holds just these, and `cidrs` lists each once. The sort permutes without repetitions, so its result
ascends, and there is only one such sequence of the set.

Admission. `PolicyAdmission!IInv` says that what is rendered is the rendering of an accepted spec; what
that looks like are lemmas about `RenderSpec`, `BuildRules` and `BuildPeers`.

`Sound(rec[i])` says what holds of a reconcile at each await: the snapshot is of an accepted spec, the
address belongs to it, the CIDRs are the whole list of one of its documents, the object that was read is
owned. Each action establishes it for the next await, and nobody else writes `rec[i]`. With it the action
properties hold of the two actions that write the `NetworkPolicy`.

`NeverForgotten` is not inductive. A process may be called with an old snapshot and return without a
timer; it is not lost because the process is going to be told. `Informed(i)` says so: the store is the
policy, or an event is under way; the snapshot is the store, or another request is pending; after a
cleanup has deleted the object, one that is there again comes with its watch event. The proof has one
lemma for each kind of step: those that return from a reconcile, those that go on, deliveries, crashes,
and changes by others (each of which raises an event in all processes).

`HonoursContract` has one lemma for each action: which step of the contract it is under the mapping of
`ReconcilerRefinement`, or that it stutters. From `Sound` it takes that a process between reconciles
holds nothing of the last one, that the address fetched belongs to the policy, and that apply and
delete are not mixed up; from `ExtractionIsWhole`, that the list is one the source serves at that moment.

Outcomes. `CollisionIsWarned` needs that the tasks which are going to write the status blame nothing
unwarned either (`BlameIsWarned`), and that the uid in the event is one that was given
(`UidsAreGiven`). `SuccessIsInForce` needs that an object which equals the rendering when it is read is
stored as it is read, `StoredAsRead`; and `UidsAreGiven` again, as a policy that is created is not the
one a reconcile reports of. `ForeignIsNeverTouched` needs that the object is the controller's own from
the check to the write, `WritesOwn`.

Rest. The first idea, that `InSync` is kept, is false: a reconcile that fetched an old document, or a
task with an old error, spoils it. `AtRest` adds that these are gone, and is inductive for the steps that
are not of users, sources or failures. The lemmas go action by action: a reconcile at rest comes to the
decision there is, is not refused, and fails only for the reason the status may show (`Expected`). That
a policy stands for one list at most (`OneWanted`) makes what is fetched again the same.

`StoredAsRead`, `WritesOwn`, `BlameIsWarned`, `UidsAreGiven`, `CidrExtraction!IInv` and
`PolicyAdmission!IInv` are stated in their modules and were model-checked before they were proved; they
can be added to the INVARIANTS of the configurations that meet the hypotheses.

Out of the reach of the provers, and only model-checked: `Converges`, since liveness under fairness needs
ENABLED. Of the disagreements with the documents, `FailurePreservesLastGood`, `CollisionIsNamed`,
`UpdatesReachReconcile` and `ScheduleGovernsResync` are refuted by their runs and no theorem states when they hold.

## Not modelled

The parsers of regular expressions, JMESPath, cron and URLs, HTTP and TLS (external libraries, whose
verdicts are inputs); the length of delays, as the models have no clock and nothing the controller does
depends on how long it waited; event texts, logs and object sizes (a patch or event the API server
refuses is a call that fails); the generated CRD schema and what the API server rejects by it; a
deserialised list that is empty and not absent in a selector; renamed or adopted owner references; an
etcd that loses writes; a request that is still on its way when its process dies, or when its call has
failed, and takes effect only later (in the model it has taken effect by then, or never will); command line, manifests and chart, which are configuration.

## Plan

The parts of the system that carry its logic are modelled, and every safety property that a run checks
is proved. What is left:

1. `FailurePreservesLastGood` under the condition that makes it true: no reconcile succeeds between the
   two calls of a failure task.
2. Of `SourceAddress`: every accepted address has a scheme of its own or a host the request can be made
   of.
3. A contract of the status, as `ManagedPolicyContract` is one of the object.
