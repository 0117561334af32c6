# TLA+ models of kubeless

This directory holds TLA+ models of the kubeless sources under `src/`. It also
holds the TLC configurations that check the models on small instances, and the
TLAPS proofs of the controller's main safety properties and of its refinement
of an abstract finalizer protocol. `PROJECT.json` lists
the following:

- the components;
- the runs, and the mutants that show each checked property can fail;
- the map from every modelling definition to the source lines it translates;
- the findings, the hazards and the theorems.

## The system and how its parts interact

A user declares a **Function** (a custom resource) with the CLI.

- `kubeless function update` (`src/cmd/kubeless/update.go`) reads the stored
  Function. `getFunctionDescription` (`src/cmd/kubeless/function.go`) then
  builds the new Function: every flag left empty inherits the stored value.
- When a source file is given, the **content provisioning pipeline** runs.
  `uploadFunction` refuses files over 50 MB. It uploads the file to minio when
  `isMinioAvailable` says so, and the content type is then `URL`. Otherwise it
  inlines the file, refusing it over 1 MB, as `text` or `base64`. Every branch
  records a `sha256:` checksum.
- `kubeless function delete` deletes the object.

The **workload derivation** (`src/pkg/utils/k8sutil.go`) turns a stored
Function into its resources:

- `EnsureFuncConfigMap` stores the payload under the file name given by
  `getFileName`.
- `EnsureFuncDeployment` builds the pod template. It adds a `prepare` init
  container whose script `getProvisionContainer` composes in order:
  1. decode base64;
  2. write and check the sha256 sidecar;
  3. unzip, or copy the file to `<module>.<ext>`;
  4. copy the dependency file.

  When there are dependencies it also adds an `install` container from the
  runtime registry.

An **HTTPTrigger** (`kubeless trigger http create`) references a Function by
name. The **HTTP trigger controller** (`src/pkg/controller/http_trigger_controller.go`)
keeps the two consistent with finalizers:

- Two informers keep caches of triggers and functions. Every trigger event
  queues the trigger's key.
- One worker takes keys from a rate-limited work queue. It adds the finalizer
  `kubeless.io/httptrigger` to a live trigger, and removes it from a trigger
  whose deletion timestamp is set. It also adds the finalizer to the
  referenced Function.
- The function informer's handler removes that finalizer from a Function being
  deleted.
- A failed reconcile is retried while `NumRequeues(key) < 5`. After that the key
  is dropped.

The CLI also applies a Function's **resources** and its **autoscaler**:

- `EnsureFuncConfigMap`, `EnsureFuncService`, `EnsureFuncDeployment` and
  `EnsureFuncCronJob` create an object, and on AlreadyExists update it. After
  updating the Deployment, `EnsureFuncDeployment` lists the Function's pods
  and deletes each one, so that they restart with the new ConfigMap content.
  A failed pod deletion is only remembered, and returned at the end.
- `kubeless autoscale create` calls `CreateAutoscale`. For the `qps` metric it
  first creates a ServiceMonitor (`createServiceMonitor`), then the
  HorizontalPodAutoscaler. `DeleteAutoscale` and `DeleteServiceMonitor` remove
  them, and so does `kubeless function delete`.

## Modules

| module | models | state |
|---|---|---|
| `HTTPTriggerController` | the controller and its environment (API server, informer caches, work queue, user, restarts) | `trig`, `fn` (API server objects); `trigCache`, `fnCache`; `queue`, `waiting` (delayed re-adds), `requeues` (NumRequeues), `gaveUpAfter`; budgets `failures`, `userOps`, `restarts` |
| `HTTPTriggerController_proofs` | TLAPS proofs about it | — |
| `MC_HTTPTriggerController` | two triggers referencing one function, as model values | — |
| `FunctionDeployment` | one Function through deploy, update and delete, and what is derived from it | `present`, `fspec` (the stored spec), `ops` |
| `HTTPTriggerController_refinement` | the proof that the controller implements `FinalizerProtocol` | — |
| `FinalizerProtocol` | the abstract finalizer protocol of one kind of object | `status[o]`: absent, live, guarded, terminating |
| `FunctionResources` | the apply layer: create-or-update of ConfigMap, Service, Deployment and CronJob, the pod kick, and the ReplicaSet's rollout | `spec`, `cm`, `svc`, `dep`, `cj`, `pods`, `nextId`, `kick` (the pod loop), `last`, `failures` |
| `Autoscale` | `CreateAutoscale`, `createServiceMonitor`, `DeleteAutoscale`, `DeleteServiceMonitor`, and the Function delete that calls them | `fn`, `hpa` (metric or none), `sm` (kubeless, other or none), `last`, `failures`, `ops` |
| `MC_Autoscale` | two Functions; a value that parses as int32, one only as a quantity, one as neither; the metrics cpu, qps and memory | — |
| `MC_FunctionResources` | the apply layer for TLC, bounds in the cfg files | — |
| `MC_FunctionDeployment` | four source files at the size boundaries, a valid and a malformed handler, a runtime with and one without a dependency file | — |

### HTTPTriggerController

An object is a record with four fields:

- `exists`;
- `fin`, the number of copies of the finalizer;
- `deleting`, the deletion timestamp;
- `inc`, the incarnation, which stands for UID and resource version across a
  delete and re-create under the same name.

The controller writes through `UpdateHTTPTriggerCustomResource` and
`UpdateFunctionCustomResource`. Such a write succeeds only when the cached copy
equals the server's object. Otherwise it fails: a resource-version conflict, or
NotFound. It can also fail with a transient error while the `MaxFailures`
budget lasts. `Persist` is garbage collection: a deleted object without
finalizers goes.

How the code maps to actions:

- `SyncTrigger` and `SyncFunction`: an informer event (the store is updated,
  then the handler runs). For functions, `functionAddedDeletedUpdated` runs in
  the same step.
- `ProcessNextItem`: `processNextItem` with the whole of `processItem` and the
  Forget/AddRateLimited decision (`HandleErr`, `Retryable`).
- `RetryFire`: the rate limiter's delay elapsing.
- `Restart`: a new process. The queue is empty except for a list of all
  triggers. The trigger store is synced, since `HasSynced` waits for it, and the
  function store is still empty.
- The user's actions: `CreateFunction`, `DeleteFunction`, `CreateTrigger` (the
  function must exist, as `create.go` checks) and `DeleteTrigger`.

The refinement: `StatusOf` reads an object's protocol status off it: gone,
being deleted, carrying a finalizer, or none of these. `TrigStatus` and
`FnStatus` apply it to every trigger and every function.
`ImplementsFinalizerProtocol` says that both kinds of object behave as
`FinalizerProtocol` under that mapping. That protocol has four steps:

- `Create`: absent to live;
- `Guard`: live to guarded;
- `Delete`: live to absent, or guarded to terminating;
- `Release`: terminating to absent.

So no object is unguarded while live, and nothing comes back but through a
create.

### FunctionDeployment

Data is abstracted to what the code branches on:

- A file is a model value with a size, a text flag and a zip flag.
- A payload records its encoding and the file it came from.
- A checksum records its algorithm and the file whose digest it is.
- A generated file name is `<<module, runtime>>`.

The conversions are modelled by what they do:

- `path.Base("")` is `"."` (`PathBase`).
- The base64 length of `n` bytes is `4 * ((n + 2) \div 3)`.
- `appendToCommand` concatenates command sequences.

How the code maps to the model:

- `UpdateFunction(file)` is the whole update command. `DeployFunction` is the
  deploy command, which is not under `src/` and is modelled from the spec:
  `getFunctionDescription` from the zero Function, then create.
- `Derive` applies `EnsureFuncConfigMap`, then `EnsureFuncDeployment` up to the
  API call.
- `RunPrepare` gives the meaning of the prepare script: each command of it in
  turn (`RunStep`), stopping at the first failure, as `&&` does.
  The decode command `cat f | base64 -d > f` runs its two processes at once.
  The shell truncates `f` for `base64` while `cat` may still be reading it.
  `RunPrepare(s, race)` takes the outcome of that race as an input, one of
  `PipeRaces`:
  - `"whole"`: `cat` read all of `f` first, and the decode is correct;
  - `"cut"`: `cat` read a prefix that ends on a 4-character group, or nothing.
    `base64 -d` succeeds, and the file holds a prefix of the bytes;
  - `"invalid"`: the prefix ends inside a group, and `base64 -d` exits
    non-zero.

  `PlacedFrom` says what the unzip or copy command then places.
  `getProvisionContainer` appends at most five commands, so `RunPrepare`
  applies `RunCommand` for the indices 1 to 5, and an index past the end of
  the script is a no-op. This is the same as folding over the script, and the
  provers can reason about it without induction.
- The initial states include Functions created from manifests on the
  deprecated path: an empty file name, no checksum or an md5 one, and inline
  text. The code still supports this path ("DEPRECATED: If the filename is
  empty").

### FunctionResources

The Function is a version and the version of the pod template it derives.
An update of the source alone keeps the template. Each derived object holds
the version it was last written from. A pod records the ConfigMap version it
copied when it started, and its template.

How the code maps to actions:

- `EnsureFuncConfigMap`, `EnsureFuncService` and `EnsureFuncCronJob`: the
  whole create, AlreadyExists, update sequence in one step, since no other
  writer of these objects is modelled.
- `EnsureFuncDeployment`: the create, or the update followed by
  `GetPodsByLabel`. The deletion loop that follows is `KickPod`, one pod per
  step, because the ReplicaSet runs between the deletions. A pod that is
  already gone gives NotFound. A failed deletion sets the error that is
  returned when the loop ends.
- `UpdateFunction`: `kubeless function update` writing a new version.
- `StartPod` and `RolloutRemove`: the ReplicaSet and the rolling update, with
  the extensions/v1beta1 defaults `MaxSurge = MaxUnavailable = 1`. A pod
  starts only when a ConfigMap exists. These two actions are modelled from
  the Kubernetes semantics, not from `src/`.

### Autoscale

A target value is a model value in `Int32Values` (accepted by
`strconv.ParseInt(value, 10, 32)`), in `QtyValues` (accepted by
`resource.ParseQuantity`), or in neither. `CreateAutoscale` follows the code's
order:

- For `qps`, `createServiceMonitor` runs first. It may fail on the client, on
  the Get (an error that the code swallows) or on the Create. It reports an
  existing monitor as AlreadyExisted, whoever made it.
- `CreateHPA` comes next: a failure, AlreadyExists, or Invalid for bad bounds.
- Any other metric is UnsupportedMetric.

`ForeignMonitor` is another tool creating a ServiceMonitor of the same name.

## Runs

| run | expect | what it shows |
|---|---|---|
| `trigger_safety` (`MC_safety.cfg`) | pass | `TypeOK`, `FunctionLinkedOnlyForGuardedTrigger`, `FinalizerRemovedOnlyOnDeletion`, `ImplementsFinalizerProtocol`, under stale caches, 2 transient errors, 4 user calls and 1 restart |
| `trigger_liveness` (`MC_liveness.cfg`) | pass | `TriggerDeletionCompletes`, `TriggerEventuallyFinalized` under weak fairness, with a restart and no transient errors |
| `fn_gc_blocked` | violation | a Function is garbage-collected while a live trigger references it (spec 8) |
| `trigger_delete_stuck` | violation | requeues left over from earlier failures plus one transient error leave a trigger in deletion for ever |
| `trigger_link_stale` | violation | with no failing call, a function store that lags spends the trigger's retries. No Function event queues the trigger again, so the function of a live trigger never gets the finalizer (spec 3). A failed `FunctionObjAddFinalizer`, which is only logged, breaks the same property |
| `resources_safety` (`MC_resources.cfg`) | pass | `TypeOK`, `EnsuredMeansApplied`: an Ensure call that returns no error has written the current version, over 2 updates, 2 replicas, 4 pods and 2 failures |
| `pod_kick` | violation | with no failing call, the rollout removes a listed pod before the kick deletes it. The NotFound fails `EnsureFuncDeployment` |
| `autoscale_safety` (`MC_autoscale.cfg`) | pass | `TypeOK`, `MonitorCreatedOnlyForValidQps`, over 4 commands and 2 failures |
| `autoscale_partial` | violation | a failed HPA create leaves the ServiceMonitor it created behind |
| `deploy_safety` (`MC_deploy.cfg`) | pass | `TypeOK`, `SizeWithinLimits`, `PrepareProvisionsSource`, `TriggerFieldsExclusive` over 3 CLI commands. Whatever the outcome of the decode pipeline's race, the prepare container never succeeds with anything but the decoded source, because the sha256 check catches a cut file. It succeeds when the file is read whole |
| `inline_limit` | violation | a 1 MiB binary is stored as 1398104 bytes of base64 (spec 3: at most 1 MiB inline) |
| `url_content` | violation | an uploaded Function (content type URL) is rejected by `getProvisionContainer` |

Each property of a passing run has a mutant in `PROJECT.json`. The mutant is a
plausible bug in the code the property is about, and TLC finds the property
violated when the mutant replaces the code:

- an off-by-one retry check;
- a `processItem` that goes on to link the Function after removing the
  finalizer of a trigger being deleted (the missing `return nil`);
- `||` for `&&` in the deletion test;
- an informer without the Update or the Add handler;
- a missing 1 MB check;
- the checksum verified before decoding;
- `--trigger-http` keeping the topic;
- an inherited content type dropped;
- a Function handler that drops the deletion-timestamp check
  (`ImplementsFinalizerProtocol`);
- a ConfigMap apply that stops at AlreadyExists, or only creates;
- a ServiceMonitor created before the metric is checked, and a metric switch
  without its default.

The modules also state properties that no run checks, because the
project keeps its runs to twelve. They are not results of the project.
`PROJECT.json` names them in the notes of the hazards they are about. Reading
the code suggests that each is violated:

- `RetryCeiling`: a failing key is attempted at most 5 times. The ceiling is
  compared after the failure, which suggests 6 attempts.
- `FunctionDeletionCompletes`: a Function in deletion is eventually gone. A
  failed finalizer removal is not retried.
- `UpdateWithoutSourceKeepsContent`: an update without `--from-file` keeps
  the content. `path.Base("")` is `"."`.
- `QpsHPAMonitored`: a qps HPA has its monitor. A failing Get is swallowed.
- `AutoscalerOwnedByFunction`: an HPA belongs to a live Function. The HPA
  carries no owner reference.
- `AlreadyMonitoredOnlyForOthers`: AlreadyExisted is reported only for a
  foreign monitor. A retry after a partial failure finds kubeless's own.
- `PodsRefreshed`: pods run the current ConfigMap content. A failed pod
  deletion is only logged.

The decode race is a defect of the code that no run shows as a violation.
`PrepareProvisionsSource` holds for every outcome of the race. The outcomes
other than `"whole"` make the prepare container of a base64 Function fail,
and no run checks that outcome. A base64 Function's pods may therefore fail
to start at random, each time the init container runs.

### Bounds

- **Controller.** Two triggers on one function is the smallest instance in
  which a function's finalizer is shared and a GC decision concerns one of
  several triggers. `MaxRetries = 5` is the code's constant, so the retry
  ceiling is reached with its real value. Two transient errors, four user calls
  and one restart are enough for every interleaving the hazards name: a delete
  racing a finalizer add, a re-create under the same name while the cache lags,
  and a restart with an empty function store.
- **FunctionDeployment.** The file sizes are the code's own limits: 1048576
  (exactly 1 MB), 52428800 (exactly 50 MB) and 52428801. Each `>` check therefore
  meets both sides of its boundary. Storage observations cover the following
  cases:
  - no Service;
  - a Service with a pending pod;
  - a Service with no pods (counted as available);
  - a failed upload.

  Three commands allow deploy, update, update, or an update of a legacy
  Function twice.

- **FunctionResources.** Three versions allow two updates, one of which keeps
  the template. Two replicas with surge 1 give a rollout with an old and a new
  pod side by side. Four pods let a second rollout start, and two failures hit
  two different calls. `MaxPods = 5` passes as well and takes about 2 minutes.
- **Autoscale.** Two Functions, so that one Function's objects can meet
  another's. Four commands cover a failed create and its retry, a delete,
  and a foreign monitor. The three values cover each parse result.

### Fairness

`FairSpec` assumes weak fairness of informer delivery (`SyncTrigger`,
`SyncFunction`), of the worker (`ProcessNextItem`) and of the rate limiter's
timers (`RetryFire`). These all run in their own goroutines for as long as the
process runs: `go Informer().Run`, and `wait.Until(c.runWorker, ...)` with a
worker that blocks only in `queue.Get()`. Nothing is assumed of the user.
Restarts and transient errors are bounded, so fairness is not used to rule
them out. The deadlock check is off in every cfg: a controller with nothing to
do blocks in `queue.Get()`, and the CLI stops after its last command.

## What is proved

`HTTPTriggerController_proofs` proves the following for every set of triggers
and functions, every `FunctionOf` and every bound:

- `TypeCorrect`: `Spec => []TypeOK`. `TypeOK` is inductive here. The part of it
  that matters is that `Obj` excludes a gone object that still carries a
  finalizer or a deletion mark. Lemmas:
  - `ObjOps`: the object operators stay in `Obj` (with `exists` for the
    finalizer edits);
  - `PersistExists` and `PersistFin`;
  - a type lemma for each update and for `processItem` and `HandleErr`.
- `FunctionLinkedOnlyForGuardedTriggerThm`:
  `Spec => FunctionLinkedOnlyForGuardedTrigger`. `processItem` decides from
  its trigger cache, which may lag behind the server, so the property is not
  a fact about one step alone. It rests on the invariant `GuardSound`
  (`GuardSoundInvariant`): a trigger that the cache shows live, carrying its
  finalizer and not being deleted is live and carries its finalizer on the
  server. `GuardSound` is inductive together with `TypeOK`:
  - a cache is only refreshed from the server (`SyncTrigger`);
  - the controller's own finalizer add is applied to the server only from a
    copy equal to the server's object;
  - a user's delete only marks the object. The finalizer stays until the
    controller removes it, and that happens only in the branch that returns
    at once (`GuardKept`).

  `processItem` adds the Function finalizer only in the branch where the
  cached trigger carries its finalizer and is not being deleted, so
  `GuardSound` gives the trigger on the server (`LinkStep`). A `processItem`
  without the `return nil` after the finalizer removal violates the property
  (mutant `processItemNoReturn`).
- `FinalizerRemovedOnlyOnDeletionThm`: `Spec => FinalizerRemovedOnlyOnDeletion`.

  It rests on `ServerStep`: under `TypeOK`, every step is harmless to the
  server's objects. Its argument has one case per action:
  - a controller write succeeds only from a copy equal to the server's object,
    and that copy exists (`ControllerTriggerWrite`, `ControllerFunctionWrite`);
  - the finalizer is removed only in the branch where the copy, and so the
    object, has its deletion timestamp set;
  - user creates give `Fresh` objects;
  - deletes only mark and collect.

  The temporal step combines `TypeCorrect` with `ServerStep` by PTL.

`HTTPTriggerController_refinement` proves `RefinementThm`:
`Spec => ImplementsFinalizerProtocol`.

- **Invariant.** `TypeOK` alone does not suffice. An object that has a
  deletion timestamp and no finalizer maps to terminating, and the
  controller's `AddFinalizer` from such a copy would be no protocol step.
  `CollectedInvariant` proves `Spec => []AllCollected`: every object on the
  server that is being deleted carries a finalizer. It holds because every
  write goes through `Persist`, and a user create gives a fresh object
  (`PersistCollected`, `FreshCollected`).
- **Status lemmas.** `StatusCreate`, `StatusDelete`, `StatusGuard` and
  `StatusRelease` give the status before and after each object operator.
- **Write lemmas.** `TrigMove` and `FnMove` show that a write of one object
  moves only that object's status.
- **Step lemmas.** `TrigRefStep` and `FnRefStep` have one case per action. A
  controller write either fails, leaving the object alone, or succeeds from a
  copy equal to the server's object. In `processItem`, its deletion branch is
  `Release`. The add branch is `Guard`, because `AllCollected` excludes a
  deleting copy without a finalizer. The user's actions are `Create` and
  `Delete`.
- **Final step.** The initial state maps to the protocol's initial state. PTL
  then combines the step lemmas with the two invariants.

`FunctionResources_proofs` proves, for every set of functions and every bound
of `BoundsAssumption`:

- `TypeCorrect`: `Spec => []TypeOK`.
- `EnsuredMeansAppliedThm`: `Spec => []EnsuredMeansApplied`.

Both follow from `IInvariant`, `Spec => []IInv`. `IInv` strengthens the checked
invariants with two facts:
- `PodIdsBelow`: every pod's id is below `nextId`. Without it, `StartPod` could
  number a pod like one that exists, and the pod set would not grow.
- `KickConsistent`: while the pod-deletion loop of `EnsureFuncDeployment` is
  pending, the Deployment holds the version the loop will report. Without it,
  the step that ends the loop with a nil result could report a version that
  was never written. It holds because the loop starts right after the
  Deployment write, and no other Ensure call runs until it ends.
`IInv` is also checked by TLC on the instance of `resources_safety`.

`Autoscale_proofs` proves, for every non-empty set of functions
(`ConstAssumption` needs `Functions # {}` for the CHOOSE of `Init`):

- `TypeCorrect`: `Spec => []TypeOK`. `TypeOK` is inductive. The lemmas
  `ResultType` and `ResultMonitor` give what each API call returns.
- `MonitorCreatedOnlyForValidQpsThm`. This is the action property that a
  ServiceMonitor appears only in a create command, for that function, with the
  qps metric and a value that parses as a quantity. `MonitorStep` shows it for
  one step under `TypeOK`, with one case per action.

`FunctionDeployment_proofs` proves, for all files, handlers, runtimes and all
limits with `InlineLimit <= MaxFunctionSize` (the code's values are 1MB and
50MB):

- `TypeCorrect`: `Spec => []TypeOK`.
- `SizeWithinLimitsThm`: `Spec => []SizeWithinLimits`.
- `TriggerFieldsExclusiveThm`: `Spec => []TriggerFieldsExclusive`.

They follow from `IInvariant`. Its invariant `IInv` is `TypeOK`, plus this
fact: when a Function is stored, its content is within the limits (`SizeOK`)
and it has at most one trigger kind (`TriggerOK`). This has to be stated of the
stored Function itself, and not only of its description. `UpdateFunction`
takes the stored Function as the default of every flag, so an update keeps
the stored content and triggers wherever its flags leave them unset. The step
for it rests on these lemmas:
- `DescriptionResult`: `getFunctionDescription` returns a Function that
  satisfies both, whenever it returns no error and its default does;
- `UploadResult` and `ContentResult`: what the upload returns;
- `LegacyOK`: the initial Functions of the deprecated path satisfy both.
`IInv` is also checked by TLC on the instance of `deploy_safety`.

- `PrepareProvisionsSourceThm`: `Spec => []PrepareProvisionsSource`. It rests
  on a second invariant, `ProvisionInvariant` (`Spec => []PInv`). `PInv` says
  three things (`ChecksumOK` holds the last two):
  - a stored Function names a handler;
  - its sha256 checksum is the digest of the file its payload came from;
  - a base64 payload always has a sha256 checksum.

  Each fact is needed:
  - Without the handler, the ConfigMap would carry no source, and the script
    would start failed.
  - Without the checksum fact, an update could pair one file's payload with
    another file's checksum, and the `sha256sum -c` step would fail.
  - Without the last fact, a decode cut short by the pipeline race would
    meet no check, and the copy would place a corrupt file.

  `PInv` is inductive. `uploadFunction` computes the payload and the checksum
  from one file (`UploadChecksum`). An update without a file inherits both
  (`DescriptionProvision`). The Functions of the deprecated path have no
  checksum, or an md5 one, which `Derive` rejects. The script itself is
  handled by these lemmas:
  - `ProvisionScript`: an accepted prepare container is one of eight concrete
    scripts (`Script`);
  - `ScriptShapeOK`: each of them has the `ScriptShape` order;
  - `CommandStep`: under that order, one step keeps the run `Good`, that is,
    not failed, reading the payload file, decoded after the first step, and
    placed once the copy or unzip command has run. There is one lemma per
    command (`StepDecode`, `StepCheckSha`, and so on);
  - `ScriptRuns`: chains `CommandStep` over the five steps, for a text
    payload or a decode that reads the whole file;
  - `CutCaught`: for a base64 payload and any other outcome of the race, the
    decode fails, or the `sha256sum -c` step fails on the cut file, and every
    later command is skipped (`StepFailed`).

  `PInv` is also checked by TLC on the instance of `deploy_safety`.

The following are only model-checked:

- The liveness properties: TLAPS does not reason about fairness or ENABLED.
- The properties of the violation runs, which TLC refutes.

## Not modelled

The following are listed in `PROJECT.json` with reasons:

- ingress helpers, client bootstrap and pod lookup;
- the object store's own state, and so the orphan left in minio when the
  update's patch fails;

Environment variables, labels, memory values and images enter the models only
through the error paths they cause. The runtime registry, which has only tests
under `src/`, enters as constants.
