# Verification of the AppDynamics operator

TLA+ models of the operator in this repository (`src/cmd`, `src/pkg`), the
TLC runs that check them on small instances, and TLAPS proofs about them for
every value of the constants.

    tlc -workers 2 -config Safety.cfg MCClusterAgent.tla      # one run
    tlapm ClusterAgentProofs.tla                              # its proofs

| file | content |
|---|---|
| `ClusterAgent.tla` | the Clusteragent controller and its environment |
| `ClusterAgentProofs.tla` | types, ConfigMaps before the Deployment, no lost and no forgotten edit: theorems with proofs |
| `ClusterAgentFollows.tla` | the theorem that it implements `Follower`, with its proof |
| `ClusterAgentRestarts.tla` | the theorem that a pod is restarted at most once for an edit, with its proof |
| `InfraViz.tla` | the InfraViz controller and its environment |
| `InfraVizProofs.tla` | types, ma-config before the DaemonSet, no lost and no forgotten edit: theorems with proofs |
| `Adam.tla` | the Adam controller and its environment |
| `AdamProofs.tla` | types, no lost edit, one restart for an edit, the refinement of `Follower`: theorems with proofs |
| `Follower.tla` | what the controllers of agents promise: the abstract specification `ClusterAgent` and `Adam` implement |
| `PropertyBag.tla` | the property bag of an Adam as operators: defaults, merge, comparison |
| `PropertyBagProofs.tla` | lemmas about these operators, with proofs |
| `AgentSettings.tla` | an Adam's settings through its life, one step per reconcile |
| `AgentSettingsProofs.tla` | theorems about them and about `ControllerUrl`, with proofs |
| `ControllerUrl.tla` | `validateControllerUrl` as operators, and the addresses users write |
| `LeaderForLife.tla` | the leader election of the operator's pods |
| `LeaderForLifeProofs.tla` | theorems about it, with proofs |
| `MCClusterAgent.tla`, `MCInfraViz.tla`, `MCAdam.tla`, `MCAgentSettings.tla` | values of the constants for TLC |
| `MCOperator.tla` | composes `LeaderForLife`, `AgentSettings` and `ControllerUrl` for one run |
| `*.cfg` | one TLC run each (see "Runs") |
| `PROJECT.json` | components, runs, map to the source, hazards, findings, theorems |

## 1. The system

The operator is one process that keeps custom resources (CRs) of a Kubernetes
cluster and the objects derived from them in step. It has no state that
outlives it but what is stored in the cluster.

| part | where | state | operations |
|---|---|---|---|
| Clusteragent controller | `pkg/controller/clusteragent/clusteragent_controller.go` | in the cluster: Deployment (with the annotation `appdynamics-cluster-agent-spec`), ConfigMaps `cluster-agent-config`, `cluster-agent-mon`, `cluster-agent-log`, Secret `cluster-agent-secret`, the CR's status; in a reconcile: copies of CR and Deployment | `Reconcile`, `cleanUp`, `ensureSecret`, `ensureConfigMap` (3 ConfigMaps), `hasBreakingChanges`, `newAgentDeployment`, `restartAgent`, `updateStatus` |
| InfraViz controller | `pkg/controller/infraviz/infraviz_controller.go` | DaemonSet (with the old spec in an annotation), ConfigMaps `ma-config`, `ma-log-config`, `ma-ssl-config`, `netviz-agent-log`, Service, Secret, status | `Reconcile`, `newInfraVizDaemonSet` (also Service and Secret), `ensureConfigMap`, `ensureLogConfig`, `ensureSSLConfig`, `ensureNetVizConfig`, `hasDSpecChanged`, `restartDaemonSet`, `updateStatus` |
| Adam controller | `pkg/controller/adam/adam_controller.go`, `utils.go` | Deployment, Service, ConfigMap made from a property bag, Secret, status fetched over HTTP from the pod | `Reconcile`, `ensureConfigMap`, `updateMap`, `hasBreakingChanges`, `restartAgent`, `updateStatus` |
| Property bag | `pkg/apis/appdynamics/v1alpha1/bag.go`, `pkg/controller/adam/utils.go` | none | defaults, merge of bag and CR, comparison for breaking changes |
| Controller address | `validateControllerUrl` in both controllers | none | a URL to host, 16-bit port, ssl flag |
| Work queue, controller loop | vendored `controller-runtime`, `client-go/util/workqueue` | queued, processing and delayed keys | add (de-duplicating), take, done, add with back-off, add after 60 s |
| Client, informer cache, event handlers | vendored `controller-runtime` | a cache per kind | reads from the cache; writes to the API server, with the resource version of the copy; events of watched kinds (the CRs and the objects they own) add keys |
| Leader election | `cmd/manager/main.go:56`, vendored `operator-sdk/pkg/leader` | the ConfigMap `appdynamics-operator-lock` | `Become` |
| Manager start-up | `cmd/manager/main.go`, `pkg/controller/*.go` | none | registers schemes and controllers, starts caches, then workers |
| API types; generated code; manifests | `pkg/apis/...`, `deploy/` | none | the CRDs, deep copies, the Role the operator runs under |

**Interaction.** Each controller has one worker goroutine that takes one key
at a time. `Reconcile` reads CR and owned object from the informer cache and
then makes a sequence of API calls; between any two of them users, the
cluster's own controllers, the informers and the other two controllers run.
Its own writes come back as events and queue the key again. Within a
namespace all CRs of a kind share ConfigMaps with fixed names, and all three
controllers share the Secret. The pods read ConfigMaps and Secret into their
environment when their containers start and never again, so that a new
address reaches them by a restart only.

**What is hard.**

- *Stale reads.* The cache lags. Writes carry the version of the copy, so that
  a stale write is refused - except the InfraViz DaemonSet's, which carries
  none - and a `Create` of what exists is refused. A stale list of pods is
  not detected by anything.
- *No transactions.* Several objects stand for one change. The marks that say
  "handled" (annotation, ConfigMap) are separate from the restart they mark.
- *Partial failure.* Some errors are returned (the key comes back), some are
  logged and dropped.
- *Self-triggering.* The operator writes the CR it watches.
- *Crashes.* All progress is in the marks above; the queue is rebuilt from a
  list of all objects.

**What makes each part correct.**

- Clusteragent: Deployment and ConfigMaps end up following the CR, after any
  edits, deletions, failures and crashes; the Deployment is changed only once
  the ConfigMaps are written; an address marked as handled is in the ConfigMap; a
  pod is restarted for every change of address, and once only; no edit of a
  user is overwritten; the loop comes to rest; the CR gets a status; the
  ConfigMap of one CR is not removed by another one's clean-up.
- InfraViz: the same for its DaemonSet and ConfigMaps, with pods on several nodes;
  every part of the template is rolled out; `ma-ssl-config` is there.
- Adam: as for Clusteragent, although only the Adam itself is watched.
- Property bag: what is compared for breaking changes is what is written, so
  that a reconcile leaves nothing behind that the next one would restart for, and
  the agent runs with the stored values.
- Address: means to the agents what it says in the documented format.
- Work queue: a key is never processed twice at once, and an added key is
  eventually processed after the last add (taken for granted in the
  controllers' models, which use it).
- Leader election: at most one operator reconciles for each error of `Become`
  that is ignored, and some operator does.

## 2. Plan

| step | module | state |
|---|---|---|
| 1 | `ClusterAgent` with its environment (API server, caches, queue, pods, faults) | done |
| 2 | `ClusterAgentProofs`: types, ConfigMaps before Deployment, no lost edits | done |
| 3 | `InfraViz` in the same environment, for one CR and several nodes, with NetViz and SSL | done |
| 4 | `ControllerUrl`, checked against the documented format | done |
| 5 | `PropertyBag` and `AgentSettings`: what is compared against what is written; `AgentSettingsProofs` | done |
| 6 | `Adam`: the controller on top of the property bag | done |
| 7 | `Follower`, implemented by `ClusterAgent` and `Adam` (TLC); also by proof (`ClusterAgentFollows`, `AdamProofs`) | done |
| 8 | `LeaderForLife`: `Become` with an ignored error, overlapping pods; `LeaderForLifeProofs` | done |
| 9 | `InfraVizProofs`: types, `ConfigBeforeRestart`, `UserEditsSurvive` | done |
| 10 | `AdamProofs`: types, `RestartedOnce`, `FollowsEdits`, `UserEditsSurvive` | done |
| 11 | `ClusterAgentRestarts`: `RestartOncePerEdit` for any number of Clusteragents | done |
| 12 | `EditsAttended` (Clusteragent, InfraViz) and `ConfigsAttended`: what must hold whenever nothing is pending, the part of convergence that can be proved | done |
| 13 | `UrlsAgree` for every address in the documented format | done |
| 14 | The same for the restart: a settled Clusteragent of patient users has no running pod with an old address | open |

Two modules of an earlier plan were given up. One for the inside of the work
queue: it is vendored code of another project, and the controllers' models
contain the part of its behaviour they depend on. One for the Secret the three
controllers share: each `ensureSecret` creates it only if it is absent and then
reads it back, and what can go wrong (another key set than the controller's own)
is in the Secret's content, which the controllers do not look at.

Modules that are proved about declare no RECURSIVE operator. Invariants are
conjunctions of named parts, and each API call is one action, so that a
proof has one step for each call.

## 3. How the models correspond to the code

### Common conventions

- **Reconcile** is a program counter `pc`, with one value for each API call
  that can change the cluster, and one action for each. Reads from the cache are
  merged with the call they precede, when nothing the controller reads comes
  between; where it matters (the CR and the Deployment at the start, `ma-config`
  before `ma-log-config`, the Secret after its creation, the list of pods)
  they are separate. `ca` is the copy of the CR that `Reconcile` changes
  (defaults) and finally writes, `exd` the copy of the Deployment or DaemonSet.
- **An object** is a record of the fields the properties tell apart, or `None`.
- **Resource versions.** A version is only ever compared with the version of a
  copy. The model keeps the outcome of that comparison: `stale...` are
  the entries of a cache whose object was written since, `outdated` the
  worker's copies with that fate. A write that changes nothing is
  dropped by the API server and does not move a version.
- **Caches** are separate variables (`seen...`). An informer catches up with
  all objects of its kind in one step, at any time. The lag between kinds is
  free; a cache of one kind never shows a mix of two times, but it may skip
  intermediate states, as an informer that was disconnected does.
- **Queue.** `dirty` are the keys that are due (de-duplicated), `delayed` those
  added with back-off or after 60 s. A key added while processed
  is due again when the worker is done.
- **Users** create, edit and delete CRs, delete Deployments or DaemonSets, and fill or
  recreate the Secret. `gen` numbers edits, `uid` is the number of the
  creation. **The cluster** collects garbage by owner uid, rolls pods out,
  starts and retires them, and updates the Deployment's status (an event).
- **Failures.** `CallFails` at any `pc`: the call of that step fails, or the
  one before was applied and its answer was lost. `Crash` forgets worker, queue
  and caches; the next start lists every object. `Resync` is the
  informers' periodic resync.

### `ClusterAgent`

| action | code (`clusteragent_controller.go`) |
|---|---|
| `Fetch` | `Reconcile` 93-118, the two cached reads |
| `CleanUp` | `cleanUp` 296-318, called without CR (101) or without Deployment (118) |
| `EnsureSecret`, `ReloadSecret` | `ensureSecret` 253-294 |
| `EnsureAgentMonConfig`, `EnsureAgentConfig`, `EnsureLogConfig` | `ensureConfigMap` 320-337 and the three functions it calls, 371-505 |
| `AfterConfig`, `ImageChanged`, `AddressChanged` | the branches of `Reconcile` and `hasBreakingChanges` 224-251 |
| `CreateDeployment` | `newAgentDeployment` 528-695 and the Create |
| `UpdateImage` | the Update for an image 182-204, which always requeues |
| `SaveAnnotation` | 170 and the Update that follows; 697-707 |
| `RestartAgent` | `restartAgent` 709-727 |
| `UpdateCr`, `UpdateStatus` | `updateStatus` 207-222 |

`url` stands for `controllerUrl` and `account`, the two fields whose change is
breaking; `conf` for all other fields the ConfigMaps are rendered from, with
one default (`setClusterAgentConfigDefaults`); `stamped` says that
`status.lastUpdateTime` is set. `InvalidUrls` are those `validateControllerUrl`
refuses. `cfgGen` (the edit that was last written to `cluster-agent-config`)
and `restarted` (the last edit a pod was deleted for) are history variables:
no guard reads them. `PodDeleteAllowed` says whether the Role grants
`delete` on pods; the Role in `deploy/` does not.

### `InfraViz`

One CR. `address` folds the fields of `ma-config` but for the log level (`log`)
and `enableServerViz` (`viz`), the field whose default `ensureConfigMap` sets
after `desiredDS` and its annotation were made. `image` folds the
template fields `hasDSpecChanged` compares, `netviz` is the NetViz port (0
without NetViz), which it also compares, `ssl` stands for those it does not.
`stamped` says that there is a `status.lastUpdateTime`. The time has a precision of
one second, so that a later write of it may or may not change the object.
`made` are the Service and the Secret.
The pods are one per node; creating a pod and starting its container are one
step. `listed` are the nodes whose pod the cache shows, `phantom` says that it also shows
one that is gone; `todo` is the list `restartDaemonSet` works through, with `None` for a pod
that is gone. Its Delete fails, or succeeds when the pod still terminates (`RestartPod`).
The ConfigMap of an SSL store the user provides is taken to exist.
`enableMasters` and `pks` are left out: with them the template has tolerations or
arguments the spec has not, `hasDSpecChanged` is true in every reconcile, and
each of them writes the DaemonSet again (the same one, but for its annotation).

| action | code (`infraviz_controller.go`) |
|---|---|
| `Fetch` | `Reconcile` up to `newInfraVizDaemonSet`, with the defaults and the annotation |
| `EnsureAgentService`, `EnsureSecret` | called by `newInfraVizDaemonSet`; errors are printed |
| `CreateDaemonSet` | the Create; `Reconcile` returns without a ConfigMap |
| `EnsureNetVizConfig` | `ensureNetVizConfig`, written in every reconcile with NetViz; its error is dropped |
| `EnsureLogConfig`, `EnsureMaConfig`, `EnsureSSLConfig`, `Breaking` | `ensureConfigMap`, `ensureLogConfig`, `ensureSSLConfig` |
| `UpdateDaemonSet`, `RestartPod` | the branch `breakingChanges` of `Reconcile`, `restartDaemonSet` |
| `RespecDaemonSet` | the branch `hasDSpecChanged` of `Reconcile` |
| `UpdateCr`, `UpdateStatus` | `updateStatus` |

### `Adam`

One Adam, whose `conf` gives its fields a value in the sense of
`PropertyBag`. Only the Adam is watched (`SyncCr` alone queues the key): a
Deployment that is deleted comes back with the next event for the Adam or the
resync after ten hours, which therefore is an action (`Resync`) that
comes again and again. The first status write is an event. Later ones need not be: `Update`
(217) decodes the stored status, with its time, into the copy, so that the status write
after it repeats the old time (the status is a subresource, see
`deploy/cluster-agent-operator.yaml`). They may be, as the state the agent reports
over HTTP may have changed. Pods are not modelled: a restart finds one or none.

| action | code (`adam_controller.go`) |
|---|---|
| `Fetch` | `Reconcile`, the two cached reads |
| `CleanUp` | `cleanUp`, called without Adam or without Deployment |
| `EnsureSecret`, `ReloadSecret` | `ensureSecret` |
| `EnsureConfigMap` | `ensureConfigMap`: load what the cache shows, or create |
| `EnsureAgentService`, `CreateDeployment` | the branch without Deployment |
| `UpdateMap`, `ImageChanged`, `AfterMap` | `updateMap` and the branches of `hasBreakingChanges` |
| `RestartAgent`, `UpdateImage` | `restartAgent`, the Update for an image, both followed by a requeue |
| `UpdateCr`, `UpdateStatus` | `updateStatus` |

### `PropertyBag` and `AgentSettings`

`reconcileBag` (`bag.go`, `adam/utils.go`) treats some 75 fields by one of a few
patterns, so the model is sets of field names: `Mirrored` fields get the value of
the resource whatever it is, `Overridden` ones if it is set; the two `Biq`
fields have a pattern of their own. A value is `Unset`, `Empty` (a list without elements,
which Go's nil test tells from a nil one), `Default` (the field's own default) or another.
`UpdatedBag` is `updateMap`: it starts from the defaults, not from
what is stored. `HasBreakingChanges` compares seven fields and the Secret's
version, but in the bag it is given (`LoadedBag`) `ensureConfigMap` has replaced that
version by the present one. `AgentSettings` lets users edit the fields and recreate the
Secret, keeps what the agent started with (`running`), and folds a reconcile into
one step, since `Adam` takes its calls apart.

### `ControllerUrl`

The code splits the address at colons, and asks of a piece whether it contains
`http` or `s`, which number it is and what is left without slashes: a piece
is a record of these answers. `Convert` is the conversion to `uint16`.
`UrlsAgree` is over addresses in the format the function's error message
gives (`protocol://dns:port`); TLC takes ports at the boundaries of the range, the
proof all of them. An address is written piece by piece (`WritePiece`).
Outside that format the code is more permissive than a reference could be: a
port of 65536 becomes 0, and the protocol may stand in any piece.

### `LeaderForLife`

`cmd/manager/main.go:56` calls `leader.Become` and drops its error. `FindLock`
is the Get at its start, `CreateLock` the Create in its loop, `CallFails` an
error of either, after which main goes on. The lock is owned by
the pod: it goes when the pod's object goes. An evicted pod stays as an object, an exited
container is started again in the same pod.

### `Follower`

The specification both agents' controllers implement, without caches or
retries: `wanted` edits are `installed` (in the ConfigMap) and then `applied`.
For `ClusterAgent`, `applied` is the edit the annotation of the Deployment was made
of; for `Adam`, which has no annotation, the last edit a pod was
deleted for. The refinement says that both stages only go forward,
that nothing is applied that is not installed, and thus that an edit is applied at most
once.

`PROJECT.json` maps each definition to its lines.

## 4. Runs

| run | bounds | question and answer |
|---|---|---|
| `Safety` | 1 Clusteragent, 1 pod, 3 specs, 2 edits, 1 fault | `TypeOK`; `ConfigInstalled`: past `ensureConfigMap` the three ConfigMaps hold what the copy renders to; `FollowsEdits`: it implements `Follower`; `UserEditsSurvive`; `RestartOncePerEdit`; `EditsAttended` and `ConfigsAttended`: when neither the worker nor the queue nor an event to come is about the Clusteragent, its Deployment and ConfigMaps are those of its latest edit. All hold. |
| `Convergence` | 1 Clusteragent, no pods, 3 specs, 2 edits, a key for the Secret, 1 fault | `DeploymentConverges`, `ConfigConverges`, `StatusConverges` (without a failure), `Quiesces` (with valid addresses). All hold: every refused write is retried or superseded by an event. |
| `PatientRestart` | 1 Clusteragent, 2 pods, 2 edits | `AddressReachesPods` holds for users who wait for the last change to settle (`PatientSpec`), without failures, also when the image changes at the same time. |
| `LostRestartRace` | 1 Clusteragent, 1 pod, 2 edits, no failures | `AddressReachesPods` is violated: the annotation is saved, then the list of pods is empty or stale, and the retry finds nothing to do. |
| `SharedConfigMap` | 2 Clusteragents | `ConfigMapStays` is violated: the clean-up for one removes the ConfigMap of the other. |
| `VizConvergence` | 1 InfraViz, no pods, 3 specs, 2 edits, 1 fault | `TypeOK`, `ConfigBeforeRestart`, `UserEditsSurvive`, `EditsAttended`, `DaemonSetConverges`, `ConfigConverges`. All hold, although the DaemonSet is written without a version and several errors are dropped. |
| `VizPatient` | 1 InfraViz, 2 nodes, 2 edits, 3 specs | `AddressReachesPods` and `LogLevelConverges` hold for patient users without failures, when the address or the log level changes alone, when both do, and with the late default of `enableServerViz`, whose second round of restarts may find a pod gone and end halfway. |
| `VizMaskedChange` | a log level and another template field | `TemplateConverges` is violated: a new log level takes a breaking change back. |
| `VizSslConfig` | an SSL store | `SslConfigStays` is violated: `ma-ssl-config` is deleted and then updated. |
| `AdamConvergence` | 1 Adam, 3 specs, 2 edits, an empty and a filled Secret, 1 fault | `TypeOK`; `FollowsEdits`; `RestartedOnce`; `UserEditsSurvive`; `DeploymentConverges` and `MapConverges`: although only the Adam is watched and the first reconcile may take a ConfigMap it has just deleted for the current one. All hold. |
| `Operator` | 3 pods of the operator, 1 failed call, 2 stops; 5 fields of all classes that are compared, 2 addresses, 2 Secrets; addresses of up to 3 of 15 pieces | `TypeOK`, `LeadersOwnLock`, `FewLeaders`; `LeaderEmerges`, but for an evicted pod that keeps the lock; `RestartsSettle`, `AgentHasBreakingFields`; `UrlsAgree`. All hold. |
| `SecretRestart` | 5 fields, 2 addresses, 2 Secrets | `AgentHasSecret` is violated: a recreated Secret never restarts the agent. |

The five violations are the findings of `PROJECT.json`, each with the
line of the code or of the documentation it contradicts. Every property of a
passing run has a faulty variant of a definition (`\* Faulty variant` in
the modules) that breaks it under the same configuration.

Variations of these configurations that are worth knowing:

- `PodDeleteAllowed = FALSE` in `PatientRestart` (the Role in `deploy/` does not
  grant `delete` on pods): `AddressReachesPods` is violated, each Delete is refused.
- A Secret that is recreated does not reach the running pods of any agent. The
  `hasBreakingChanges` of Adam compares its version, in vain (line 444 has overwritten the one
  to compare with: `SecretRestart`), that of Clusteragent does not look at it.
- `MaxFaults = 1` in `VizPatient`: `AddressReachesPods` is violated, as the
  ConfigMap and the annotation are written before the pods are deleted.
- Two images in `VizPatient`, with an edit that empties `enableServerViz`:
  `AddressReachesPods` is violated on two nodes. A restart fails on a listed pod that is
  gone, so that the reconcile ends before it writes the default to the CR; `ma-config` has the
  default and the CR the empty field, which the next reconcile takes for a breaking change
  (line 322), and its restart makes the list stale again. The schedule is an
  unlucky one, but each retry may meet it.
- `LogLevelConverges` without patience, with three edits (a log level, another one,
  the first again), is violated even without failures: `ma-log-config` is written only if
  the level in `ma-config` differs, and before `ma-config`. When the second of
  the two writes is refused, since the cache lags, and the level is taken back before the
  retry, `ma-config` has the right level and `ma-log-config` keeps the other one.
  For patient users two edits are enough: each edit starts from a state in
  which both agree.
- `ConfigConverges` of `InfraViz` leaves `netviz-config` out. With it, and two different
  NetViz ports, it is violated: the refused write is dropped, and when the last
  status write falls into the same second as the one before, nothing queues the
  key again.

**Bounds and why they are enough.** Two edits give create-edit, create-delete,
delete the Deployment and re-creation; the second edit can fall
between any two calls of the reconcile for the first. One fault can fall between any two calls too, and
the retry after it is unbounded. Three specs contain two addresses, each
optional field empty and set, two images, and an address that is refused. One pod of a Clusteragent
suffices to lose a restart; two are needed to roll an image out. On two nodes of an InfraViz the first Delete can end
the restart of the second. Two CRs share
one ConfigMap. Runs without pods are
about objects that do not depend on them: only the ready bit does,
which is one more event. For `AgentSettings` a field matters by its class only
(its comparison, its pattern in `reconcileBag`, its default); the run has one of each class that
is compared and a benign one, and the proofs cover all. Three pods of the operator are one more than ever
overlap in a rollout, two stops are an exit and an eviction or deletion of the
leader and its successor. `MCOperator` lets the settings change only while one pod leads that has
never met a failure, an address be written only while they are as created, and the pods change only while
there is no address: the parts share no state, so that all of their interleavings show
no more. `CHECK_DEADLOCK` is off since each system rests when
nothing changes: `Quiesces` and `LeaderEmerges` say in which state.

Two runs were also finished with larger bounds, and found no error: `AdamConvergence` with three
edits (4.7 million states) and `Convergence` with three edits and no fault.

**Fairness.** The worker and the informers are goroutines of the operator: weak
fairness on the steps of `Reconcile`, on each informer and on the ends of delays
(timers). The queue is a FIFO: a key that keeps being queued is taken although
others are queued, too, hence strong fairness on `Fetch(a)`. The cluster's
controllers and kubelets run (in `InfraViz`, some node that has a pod to start or to retire does so). Nothing is assumed of users and failures, which
may or may not happen; their bounds end them. In `Adam` the ten-hour resync is fair,
as the informer's timer repeats, and so are the steps of the worker,
which presumes that the agent answers or refuses the HTTP request for its
status: the code sets no timeout. In `LeaderForLife` the steps of `Become` are fair (a loop with a
bounded back-off), and so are the kubelet that restarts containers, the Deployment that
starts a pod when none runs, and the garbage collector. `PatientSpec` adds that users
change something only in a state where nothing is pending; it shows under which
condition the restart works, next to the runs in which it does not.

## 5. Proofs

All theorems hold for any values of the constants, under the assumptions
named in the modules.

`ClusterAgentProofs.tla`, from `BoundsAssumption` (the bounds are natural numbers) and
`NoneAssumption` (`None` is not one of the values it stands for the absence of):

- **TypeCorrect**: `Spec => []TypeOK`. `WorkerOK` is more than types: at each step
  the worker holds the copies the step dereferences (no nil pointer).
- **ConfigIsInstalled**: `Spec => []ConfigInstalled`. It is not inductive: that the three
  ConfigMaps are written when the last call returns says nothing about the
  call before. `ConfigSoFar` says which of them are written at each step; it
  and `TypeOK` are inductive. The proof shows why several CRs may share the
  ConfigMaps during a reconcile: only the worker writes them, and it has one key.
- **EditsSurvive**: `Spec => UserEditsSurvive`. The strengthening is
  `CopiesCurrent`: a cache entry that is not stale equals its object, and a copy of
  the worker that is not outdated has the fields of its CR or their defaults. A
  write that the API server accepts is thus of a current copy.
- **NoEditForgotten**: `Spec => []EditsAttended`, for any number of Clusteragents. This is
  the safety half of `DeploymentConverges`: a controller that rests has
  nothing left to do; that it comes to rest is liveness and stays with TLC. The invariant
  is `NothingForgotten`, of four parts. `CopiesCurrent` as above. `GensGiven`: no
  CR has a number of an edit to come, so that an edit changes the CR, and the
  watch tells. `CopiesWatched`: a copy that is out of date, in a cache or in the worker, brings
  its key back. `NothingLeft`: a reconcile that has reached the status has found image
  and address as its copy asks, or an event is on its way. The step is shown
  once for all actions: whoever leaves a key unwatched did not touch it, or is the
  reconcile that ends with it (`LetGo`).
- **NoConfigForgotten**: `Spec => []ConfigsAttended`, under `OneAgent` (one Clusteragent in the
  namespace; with two the shared ConfigMaps make it false, see `SharedConfigMap`), by
  `ConfigSoFar` and the same invariant.

`ClusterAgentFollows.tla`:

- **FollowsItsEdits**: `Spec => FollowsEdits`, the refinement of `Follower`, also under
  `OneAgent`. Two invariants carry it. `EditsOrdered` puts the numbers of the edits in
  order everywhere they are copied: the ConfigMap's is not ahead of the worker's copy, that not
  ahead of the cache, and the cache not ahead of the CR.
  `MarkCurrent` says that the annotation the worker is about to save is of the
  edit in the ConfigMap. Each action then maps to one of `Follower`'s or to a stutter.

`ClusterAgentRestarts.tla`, for any number of Clusteragents:

- **RestartsOnce**: `Spec => RestartOncePerEdit`. Two invariants, next to `CopiesCurrent`.
  `Ordered` is about the numbers of the edits of each resource: the worker's copy is the
  oldest, two copies of one edit have one address, the mark on the Deployment is
  not ahead of any copy and has the address of its edit, and the last restart is
  not ahead of the mark. `MarkRead` ties the worker to the Deployment: the mark it compared
  with is the one it overwrites, unless its write is refused. So an address that differs from the
  mark's is of a later edit, and in the step of the restart `restarted[key] < ca.gen`.

`InfraVizProofs.tla`, from `BoundsAssumption`, `SpecsAssumption` (users write specs of
the modelled form) and `NoneAssumption`, for any set of nodes and specs:

- **TypeCorrect**: `Spec => []TypeOK`, with the copies the worker dereferences.
- **ConfigComesFirst**: `Spec => []ConfigBeforeRestart`, by `MaConfigWritten`: from the
  write of `ma-config` to the end of the reconcile the ConfigMap is that of the
  worker's copy. Defaults that are filled in after it was rendered do not show
  in it (`RenderedDefault`).
- **EditsSurvive**: `Spec => UserEditsSurvive`, by `CopyCurrent`. The defaults come in two
  places of the reconcile; the invariant says which of them the copy has at which step,
  and that all are filled in by the step that writes it back.
- **NoEditForgotten**: `Spec => []EditsAttended`. The invariant is that of the Clusteragent,
  for a DaemonSet that is written without a version: `CopiesWatched` has that the copy
  read at the start is the DaemonSet, or an event of it is on its way, although
  older reconciles may overwrite it, and that what is written has the template of the worker's copy
  of the CR. So a reconcile that skips the write compared with the right one
  (`SameTemplate`). The end is `StopsWatching`: of all steps only the last of a
  reconcile, or a failure there, leaves the InfraViz unwatched.

The analogue for Adam is false: only the Adam is watched, and a Deployment or ConfigMap
that a stale cache hid is seen again by the resync after ten hours. There
convergence is checked by TLC, with the resync.

`PropertyBagProofs.tla` has lemmas only: what `UpdatedBag` stores in a breaking field, and
that what is stored for some settings is not breaking for them (`StoredNotBreaking`).
The two modules that follow cite them.

`AdamProofs.tla`, from `BoundsAssumption`, `NoneAssumption` and `FieldsAssumption`:

- **TypeCorrect**: `Spec => []TypeOK`. `TypeInv` adds to the types that the stored
  bags are bags made of settings.
- **EditsSurvive**: `Spec => UserEditsSurvive`, by `CopyCurrent` as above.
- **RestartsOnce**: `Spec => []RestartedOnce`, by `FollowInv`. It has the order of the edits
  (`EditsOrdered`), that copies of one edit agree and the ConfigMap of this edit holds the bag
  made of it (`SameConf`), and that the bag the worker compares is the stored one unless
  the write will be refused (`BagCurrent`). A breaking difference then means, by
  `StoredNotBreaking`, that the ConfigMap is of an earlier edit than the worker's copy.
- **FollowsItsEdits**: `Spec => FollowsEdits`, from the same invariant: each action is
  one of `Follower`'s or a stutter.

`AgentSettingsProofs.tla`, from `FieldsAssumption`, for any set of fields of the bag and any
settings:

- **NoRestartRepeated**: `SettingsSpec => []RestartsSettle`. Its invariant, `MapReconciled`,
  is that the stored bag is what a reconciled resource asks for; the rest is that
  each compared field is written by `Merged` in such a way that the comparison is equal afterwards.
- **AgentUpToDate**: `SettingsSpec => []AgentHasBreakingFields`, by a case for a
  breaking field that is set, one for an unset one (`UnsetIsDefault`: then the bag holds
  its default before and after) and one for one that was emptied. It is about the fields; the
  Secret is what `AgentHasSecret` is about, and there the agent falls behind.

- **UrlsMeanWhatTheySay**: `UrlSpec => []UrlsAgree`, from `PiecesAssumption`, for any host,
  also one that contains `http` or `s`, and any port from 1 to 65535. It rests on `ConvertKeeps`:
  the conversion to 16 bits keeps exactly the numbers that 16 bits hold.

`LeaderForLifeProofs.tla`, from `LeaderAssumption`, for any number of pods:

- **TypeCorrect**, **LockOwned**: `Spec => []LeadersOwnLock`, which is inductive with the
  types: a lock changes its owner only when the owner's pod is gone.
- **LeadersFew**: `Spec => []FewLeaders`, from `LockOwned` and `FewProceeded`
  (the pods that got past an error are at most as many as the failed calls), with the
  cardinality of a union.

Only model-checked: everything about liveness, which is out of the prover's reach. Each invariant and
each action property of the passing runs is a theorem.

## 6. What is not modelled

- The work queue's internals, client and informers as code: vendored. What the
  controllers see of them is in their modules.
- InfraViz: `enableMasters` and the host paths of PKS (see section 3).
- Formatting of the ConfigMaps and of `log4j.xml`, whose old or new format depends
  on the image; environment variables one by one; logging.
- The pods of an Adam, and the content of the status it fetches over HTTP.
- Code nothing calls: `slicesEqual`, `IsBreakingProperty`, all of
  `clusteragent/utils.go` (a copy of Adam's), Adam's `ensureSSLConfig`.
- Two operators that reconcile at once: `LeaderForLife` shows when it happens,
  the controllers' models have one worker. CRs in more than one namespace:
  `InDefaultNamespace` says whether the one namespace is the `appdynamics` that
  `cleanUp` names.
- API server and etcd: a write is atomic and the answer may be lost.
- Option parsing, registration of schemes, generated deep copies: sequential
  or generated, without state of their own.
