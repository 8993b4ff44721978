# TLA+ verification of discoblocks

This directory holds TLA+ models of the discoblocks operator in `src/`, together with:
- the TLC configurations that check the models on small clusters;
- the TLAPS proofs about them.

The machine-readable index is `PROJECT.json`. It covers:
- components and their status;
- runs;
- mutants;
- the map from definitions to source lines;
- findings;
- hazards;
- theorems.

## 1. The system

discoblocks attaches extra block volumes to pods and grows them as they fill.

| Part | Source | State it touches |
|---|---|---|
| Volume Monitor | `pvc_controller.go` `MonitorVolumes` 132-361, ticker 411-423 | PVC `spec.resources.requests.storage`; per-cycle DiskConfig cache |
| Metric Parser | `pvc_controller.go` 168-212 (parse of `node_filesystem_avail_bytes`) | none (pure) |
| Claim Reconciler | `pvc_controller.go` `Reconcile` 61-129, worker options 424-431 | `DiskConfig.Status.PersistentVolumeClaims` |
| Event Filter | `pvc_controller.go` `pvcEventFilter` 363-405 | decides what enters the work queue |
| Concurrency gate | `controllerSemaphore` (called at 64, defined outside `src/`) | one try-lock |
| Pod Mutator | `pvc_controller.go` `PodMutator.Handle` 465-599 | creates PVCs; patches the pod |
| Job Renderer | `kube.go` templates 1-180, `Render*Job` 214-297 | none in-process (host shell scripts) |
| Claim construction | `kube.go` `NewPVC` 299-329 | the PVC object created by the mutator |
| EBS driver | `drivers/ebs.csi.aws.com/main.go` | none (fixed strings) |

### How the parts interact

1. The **Pod Mutator** runs at pod admission. For every DiskConfig whose selector matches the pod, it creates a PVC carrying three things:
   - the config's finalizer;
   - the label `discoblocks=<config>`;
   - the config's capacity as its request.

   It also injects the volume and a metrics sidecar.
2. Claim changes pass through the **Event Filter** into a work queue. The queue is drained by one worker running the **Claim Reconciler**. It takes the **gate**, reads the claim, then reads the DiskConfig and writes the claim's phase into the config's status map. If the claim is being deleted, it removes the claim from the map instead.
3. Every minute the **Volume Monitor** scrapes the free space of every mount from the metrics sidecars of all pods behind each config's metrics endpoint. For every sample, it resolves the mount point to a claim and checks:
   - that the claim carries the config's finalizer;
   - the config's policy (pause flag, trigger percentage, maximum).

   When the free space is below the trigger, it raises the claim's request by 1Gi, lowered to the maximum. The external resizer later grows the volume to that request.

### Hard behaviours

- The monitor's reads and writes are not atomic. The free space, the claim's capacity and the policy are read at different times, and the resizer, the workload and the operator act in between.
- The reconciler reads the claim and writes the status in separate API calls. The claim can be bound, marked deleted or removed in between.
- Errors, conflicts and refusals by the busy gate are handled by requeue (reconciler) or by skipping a sample (monitor). Whether everything still converges depends on fairness.
- Delete events are dropped by the filter.
- The monitor does not take the gate.

### Properties per component

- **Volume Monitor.**
  - Safety: a claim's request never falls below its capacity and never runs more than one step ahead of it.
  - Safety: only claims carrying the config's finalizer are resized, never past the maximum the cycle read.
  - Liveness: a monitored claim under pressure is eventually relieved or reaches its maximum.
- **Claim Reconciler and filter.**
  - Safety: every claim whose status entry is out of date is queued or being reconciled.
  - Liveness: the map eventually mirrors every live claim.
  - Spec claim: no entry remains for a claim that is gone.
- **Gate.** The spec says a reconcile and a monitor cycle never overlap.
- **Pod Mutator.**
  - Safety: no admission assigns one mount path to two claims.
  - Safety: a patched pod carries exactly the configs that selected it when they were listed, and every claim it mounts exists.
  - Spec claim: one claim per matching pod.
- **Job scripts.**
  - Safety: a mount job reports success only after the global mount.
  - Action: a pod on which every command works completes the job.
  - Spec claims: success means the volume is mounted in every container, and a resize job on a supported file system succeeds only if the resize did.

## 2. Modules

### VolumeMonitor.tla

This module models the monitor, raced by its environment. Units are half-GiB, so `Step = 2` is the code's 1Gi.

**State.**

| Variable | Code |
|---|---|
| `request[p]` | `pvc.Spec.Resources.Requests[storage]` |
| `capacity[p]` | `pvc.Status.Capacity` |
| `used[p]` | the file system's used space |
| `policy[c]` | `DiskConfig.Spec.Policy` |
| `phase` and `pending` | a cycle in progress, with the samples not yet handled |
| `cached` and `cache` | `diskConfigCache` |
| `edits` | bounds the operator's policy edits |

**Actions.**

| Action | Code |
|---|---|
| `Tick(ok)` | the scrape, lines 138-214: each endpoint whose pod answered yields one sample per mounted file system; failed endpoints are skipped |
| `ProcessSample(s)` | one sample, lines 216-360: config lookup through the cache, pause, mount-point resolution (`ClaimOf`), finalizer (`Manages`), headroom test `HasHeadroom` (line 326, kept strict), the `actual = max` stop, `NewCapacity` (1Gi added, lowered to the max) and the Update; the API server refuses a shrinking request, so `request` changes only when the new value is not below it |
| `SampleFails(s)` | any of the `continue` error paths (Get, parse, Update) |
| `ResizeVolume`, `Write`, `Delete`, `EditPolicy` | the external resizer, the workload and the operator, modelled from the spec |

The initial claims are as `NewPVC` builds them: the request equals the capacity.

### ClaimReconciler.tla

This module models the reconciler, the event filter, the queue with its single worker, the gate, and the monitor's on/off.

**State.**

| Variable | Code |
|---|---|
| `pvc[p]` | the claim: life `none`, `live` or `gone`; finalizer; deletion stamp; phase |
| `status[p]` | the claim's entry in its config's status map, or `Absent` |
| `queue` | work-queue keys |
| `worker` | stage `idle`, `getPVC` or `update`, the key, and the claim as read |
| `gate` | semaphore holder |
| `monitor` | a monitor cycle running |

**Actions.**

| Action | Code |
|---|---|
| `CreateClaim`, `BindClaim`, `MarkDeleted`, `RemoveFinalizer` | claim changes (spec-modelled); each enqueues the key when `CreatePasses` or `UpdatePasses`, the code's filter, admits it (`ChangeClaim`) |
| `StartReconcile(p)` | try-lock at lines 64-69; a refusal returns `Requeue` and changes nothing, so it is a stutter |
| `ClaimNotFound` / `ClaimRead` / `GetClaimFails` | the claim Get at 78-86 |
| `StatusUpdated` / `StatusUpdateFails` | the config Get, `NewEntry` (103-115) and `Status().Update` (121-124); errors are returned and requeued |
| `MonitorStart` / `MonitorEnd` | the ticker; the monitor takes no lock |
| `OtherLock` / `OtherUnlock` | another holder of the semaphore |

### AbstractAutoscaler.tla

What the autoscaler promises, without cycles, samples, caches or policies.
- **State:** `request`, `capacity` and `used` per claim.
- **Actions:**
  - `RaiseRequest(p, r)`: only for a claim in `Managed`, strictly upwards, and to at most `capacity + Step`;
  - `Expand`: capacity grows to the request;
  - `Fill` and `Free`: the workload.

`VolumeMonitor` instantiates it as `Autoscaler == INSTANCE AbstractAutoscaler WITH Managed <- {p \in PVCs : Owner[p] \in Configs}`. The other constants and the three variables map to themselves, and the rest of the monitor's state is hidden. `AutoscalerSpec == Autoscaler!Spec` is checked as a property of `volume_safety` and proved in `VolumeMonitorProofs`.

### HostJobScript.tla

Models the shell script of a mount or resize host job (`kube.go` templates 153-179, `RenderMountJob` 236-247, `RenderResizeJob` 270-276) as `bash -exc` runs it, and the Job that reruns a failed pod up to `backoffLimit: 3` (148). That retry belongs to the Kubernetes Job controller and is modelled from its documented behaviour.
- **Constants:** `Kind` (mount or resize), `HostPID`, `Containers` (the container ids, in order), `PreCommand` (`"none"`, a plain device lookup `"lookup"`, or the EBS driver's `"ebs"` from `main.go:59`), and `FS`.
- **Commands** are records: the variables a command expands, the variables it sets, and whether its status is that of a trailing `awk`. A command works when the host lets it (`o[id]`, chosen per pod attempt over `Outcomes`, one choice for each command the chosen template can run: the bind command with `hostPID`, the mknod commands without) and every variable it expands is set. The environment sets the six variables of `hostJobTemplate` (108-120); `DEV` comes only from the driver's pre-command, and `PID` only from the mknod loop.
- **Control** is kept: `&&` short-circuits (`AndThen`); an assignment from a pipeline succeeds (`pipe`); the `for` loop's status is its last iteration's (`ForLoop`, a recursive function); the resize alternatives are `||`-chained and end in `echo unsupported`; under `-e` a failed command that ends an `&&` list ends the script.
- **State:** `job`, `failures`, `last` (the shell state at the end of the last pod), and `allOk` (every command worked in that pod; used only for checking). `RunPod(o)` runs a whole pod: the script, then the Job's decision (`AfterExit`). A script that hangs leaves its pod running.

### PodMutator.tla

Models `PodMutator.Handle` (`pvc_controller.go` 465-599) for several concurrent admissions.
- **Constants:**
  - `Configs` and `ConfigList` (the order List returns them in). `ListAssumption` says the list holds every config of the namespace, as `Client.List` does; it may repeat one;
  - `Selects` (which pods a config's selector matches);
  - `MountPoint` (the rendered path);
  - `SC` (the config's StorageClass exists, is missing, or its driver refuses the stub);
  - `Strict`.
- **State:**
  - `deleting` (configs' deletion stamps);
  - `claims` (claims in the API server, by name; `NewPVC` names a claim after its config, `kube.go:300`);
  - `req[p]`, the admission in progress: the deletion stamps as listed, the loop index, the volumes map as pairs, and the response.
- **Actions:** one per outcome of a loop iteration:
  - skip;
  - StorageClass NotFound, or any other Get error;
  - `NewPVC` fails;
  - Create fails;
  - claim ensured (created or AlreadyExists), followed by the mount-point check.

  Also `ListConfigs` and `ListFails`, `Respond` after the loop, and `DeleteConfig`. `ErrorMode` answers denied in strict mode and allowed, with the pod unmodified, otherwise.

### AbstractAdmission.tla

What the admission webhook promises, without the listing loop, its index or its partial volumes map.
- **State:** `deleting` and `claims` as in `PodMutator`; `answer[p]`, the response (`"none"` while undecided); `mounts[p]`, the volumes the patch adds.
- **Actions:**
  - `DeleteConfig(c)`;
  - `CreateClaim(p, c)`: an undecided admission creates the claim of a config that selects `p` and whose StorageClass is usable;
  - `Fail(p, r)`: an undecided admission answers Errored or the error mode's response, possibly creating one more such claim in the same step;
  - `Allow(p, del)`: no config selects `p` under a snapshot `del` of the deletion stamps that is no newer than today's;
  - `Patch(p, del)`: `p` is patched with `<<c, MountPoint[c]>>` for exactly the configs matching under `del`. These must be non-empty, have distinct mount points, and have their claims already created.

`PodMutator` instantiates it as `Admission == INSTANCE AbstractAdmission WITH answer <- AnswerOf, mounts <- MountsOf`:
- `AnswerOf[p]` is the admission's response;
- `MountsOf[p]` is its volumes map when it is patched, and empty otherwise;
- the loop's index, the listed stamps and a partial map are hidden.

`AdmissionSpec == Admission!Spec` is checked as a property of `mutator_safety` and proved in `PodMutatorRefinement`.

### Harness and proof modules

- `MCVolumeMonitor.tla`, `MCClaimReconciler.tla`, `MCHostJobScript.tla` and `MCPodMutator.tla` are the TLC harnesses.
- `VolumeMonitorProofs.tla`, `ClaimReconcilerProofs.tla`, `PodMutatorProofs.tla` and `PodMutatorRefinement.tla` (which extends `PodMutatorProofs`) hold the TLAPS proofs.

## 3. Runs

| Run | cfg | Checks | Result |
|---|---|---|---|
| volume_safety | MCVolumeMonitor.cfg | `TypeOK`, `ResizeStepBounded`, `ResizeOnlyOwnedWithinMax`, `AutoscalerSpec` (refinement) | pass, 553,696 states |
| volume_liveness | MCVolumeMonitorLive.cfg | `GrowthUnderPressure` under `FairSpec` | pass |
| volume_headroom_boundary | MCVolumeMonitorHeadroom.cfg | `NoResizeWithSpecHeadroom` | violation (finding 1) |
| reconcile_mirror | MCClaimReconciler.cfg | `UnmirroredClaimQueued`, `LiveClaimsMirrored` | pass, 21,940 states |
| reconcile_gone_claim | MCClaimReconcilerGone.cfg | `NoEntryForGoneClaims` | violation (finding 2) |
| gate_monitor_reconcile | MCClaimReconcilerGate.cfg | `MonitorExcludesReconcile` | violation (finding 3) |
| job_mount | MCHostJobMount.cfg | `GlobalMountedWhenOk`, `WorkingCommandsSucceed` | pass, 153 states (4,096 outcome choices per pod) |
| job_mount_masked | MCHostJobMountMasked.cfg | `MountedInEveryContainer` | violation (finding 4) |
| job_resize_masked | MCHostJobResize.cfg | `ResizedWhenOk` | violation (finding 5) |
| job_hostpid_bind | MCHostJobBind.cfg | `WorkingCommandsSucceed` | violation (finding 6) |
| mutator_safety | MCPodMutator.cfg | `MountPointsUnique`, `PatchedCarriesEveryMatch`, `PatchedClaimsExist`, `AdmissionSpec` (refinement) | pass, 103,113 states |
| mutator_shared_claim | MCPodMutatorShared.cfg | `ClaimPerPod` | violation (finding 7) |

Each property of a passing run has a mutant in `PROJECT.json`: a plausible bug in a mapped definition, which TLC then catches.
- The clamp dropped.
- The capacity read from the request.
- The finalizer check dropped.
- The 1Gi not added.
- The requeue on error dropped.
- The phase comparison dropped from the update filter.
- The global mount line missing from the mount template.
- The PID lookup run so that `PID` is not set after it (as in a subshell).
- The mount-point uniqueness check finding nothing.
- The config loop stopping after the first attached volume.
- A Create error other than AlreadyExists ignored.
- The two branches of the mutator's error mode swapped.

### Bounds

**Monitor.**
- One pod mounts two claims. `v1` is managed by `c1`. `v2` has no finalizer and sits at `c2`'s mount point, so both configs scrape both lines, and the finalizer check and the mount-point check each have a sample that they alone reject.
- In the safety run, quantities run over 0..5 half-GiB and claims start at 0.5Gi. The maxima are 1Gi and 2.5Gi. The clamp is reached from either maximum (0.5Gi to 1Gi, and 1.5Gi to 2.5Gi), and a claim can grow by a full step and then again before the maximum stops it. That second raise is what a growth computed from the request instead of the capacity needs to break `ResizeStepBounded`.
- In the liveness run, quantities run over 0..6 half-GiB, claims start at 1Gi, and the maxima are 1.5Gi and 3Gi.
- The trigger is 50%. One policy edit is allowed in the safety run and none in the liveness run, where an edit would only restart the obligation.

**Reconciler.**
- Two claims of one config, each going once through its life, with unbounded refusals and failures. Two claims are enough for one to be reconciled while the other changes.

**Host jobs.**
- Two containers: the loop's masking needs a first iteration that fails and a last that works.
- Every command works or fails independently in every pod attempt (2^12 choices for a mount job), and up to `backoffLimit + 1` = 4 attempts run, so every prefix of failures and the final failed state are reached.
- The runs use the plain device lookup as the pre-command. The repository's only driver, EBS (`main.go:59`), starts with `sleep infinity`, so every pod of its jobs hangs at the first command and never exits. A run with it would say nothing about the templates, and the hang is plain in the source, so no run checks it.
- Termination is not checked. With a pre-command that returns, the Job ends by the Job controller's backoff alone, whatever this repository's code does. With the EBS driver, it never ends.

**Pod mutator.**
- Two pods and five configs in list order. `c1` selects both pods; `c1` and `c3` render the same mount point; `c4`'s StorageClass is missing; `c5`'s driver refuses the stub.
- So both pods can be patched with `c1`'s claim, `p2` meets a collision or a missing StorageClass after a claim was created, and `p1` is patched only once `c5` was deleted before it listed the configs.
- Any config can be deleted at any time, and every API call can fail.
### Fairness

**Monitor.**
- Ticks: the ticker fires forever (411-422).
- Samples: strong fairness, because a sample's success is disabled while the error paths are taken and errors are transient.
- The resizer: weak fairness.

**Reconciler.**
- Strong fairness on taking a key and on the successful outcomes of both API calls. The controller retries every requeued key, and the semaphore and API errors are transient.
- Weak fairness on releasing the semaphore and on ending a monitor cycle (the 59-second deadline at line 138).

**Host jobs.** No fairness is assumed, because only safety is checked.

**Pod mutator.** No fairness is assumed, because only safety is checked. The runs set `CHECK_DEADLOCK FALSE` because the model stops once every admission is answered.

## 4. Proofs (TLAPS)

`VolumeMonitorProofs.tla` proves these for all values of the constants, under `ConstantsAssumption`:
- `TypeCorrect`: `Spec => []TypeOK`;
- `StepBounded`: `Spec => []ResizeStepBounded`;
- `Refinement`: `Spec => AutoscalerSpec`. The monitor implements the abstract autoscaler.
- `OwnedWithinMax`: `Spec => ResizeOnlyOwnedWithinMax`, the action property that a request changes only for a claim carrying the finalizer of a config read in this cycle, and never beyond that config's maximum as read.

Neither invariant is inductive alone, so both rest on the inductive invariant
`IInv == TypeOK /\ UsedWithinCapacity /\ ResizeStepBounded`:
- The scraped free space `capacity - used` is a quantity only if `used <= capacity`.
- The capacity the resizer copies from the request is a quantity only if the request bound holds.
- The request bound is preserved by a resize only because `NewCapacity` never exceeds `actual + Step` (lemma `NewCapacityBounds`), and `actual` is the capacity.

The proof of `IInv /\ [Next]_vars => IInv'` has one step per action. The `ProcessSample` step is split on whether the update is issued, and then on the claim resized versus the others.

**The refinement** follows the usual layout:
- `Init => Autoscaler!Init`;
- lemma `StepRefines`: `IInv /\ [Next]_vars => [Autoscaler!Next]_avars`, with one step per action;
- the temporal combination `BY PTL`.

The step needs the inductive invariant: a raise stays within `capacity + Step` only because the request bound and the types hold before it. Lemma `SampleRaises` shows that a handled sample either leaves every request alone or raises one finalized claim's request within that bound. When `NewCapacity` equals the current request, the update is a stutter of the abstract spec.

**The action property** rests on the same invariant. Lemma `StepOwnedWithinMax` shows `IInv /\ [Next]_vars => [A]_vars`, where `A` is the step formula of `ResizeOnlyOwnedWithinMax`. Only `ProcessSample` changes a request. It does so only for the claim `Manages` found, whose owner is the sample's config. That config enters `cached` and `cache` in the same step with the policy the step used. Lemma `NewCapacityWithinMax` shows the new request never exceeds that policy's maximum. The temporal step combines `[]IInv` with the step lemma `BY PTL`.

`ClaimReconcilerProofs.tla` proves these for every set of claims:
- `ReconcilerTypeCorrect`: `Spec => []TypeOK`;
- `UnmirroredAlwaysQueued`: `Spec => []UnmirroredClaimQueued`.

The inductive invariant is `TypeOK /\ LiveFinalized /\ SnapCurrentOrQueued /\ UnmirroredClaimQueued`. It needs two extra conjuncts:
- **`SnapCurrentOrQueued`.** A status write uses the claim as it was read earlier. When that entry would now differ, the key has already been queued again.
- **`LiveFinalized`.** Every live claim carries the finalizer, so the filter admits each such change.

Lemma `LiveChangeIInv` covers every claim change the filter admits: create, bind and deletion stamp.

`PodMutatorProofs.tla` proves these for every set of configs and pods, every List order and either error mode, under `MutatorAssumption`:
- `UniqueMountPoints`: `Spec => []MountPointsUnique`;
- `PatchedClaimsCreated`: `Spec => []PatchedClaimsExist`;
- `EveryMatchAttached`: `Spec => []PatchedCarriesEveryMatch`, also under `ListAssumption`.

`PatchedClaimsExist` is not inductive, because a volume enters an admission's map during the loop, long before the pod is patched. The inductive invariant is `TypeOK /\ MountPointsUnique /\ VolsCreated`, where `VolsCreated` says that every volume in any admission's map, finished or not, names a claim that exists. It holds because `ClaimEnsured` adds the claim in the same step that adds the volume, and no step of the webhook removes a claim. `MountPointsUnique` is preserved because `ClaimEnsured` adds a volume only when `Collides` is false.
- Lemma `UpdateKeeps` shows that replacing one admission by a well-typed record with the same volumes map keeps the invariant's types.
- Lemma `AnswerKeeps` applies it to every step that answers.

`PatchedCarriesEveryMatch` is a postcondition of the loop, so it is not inductive either. It rests on `AttachedSoFar`, which says for every admission `p` (`MatchOf(p)`):
- a new admission has index 1 and an empty map;
- during the loop, the claims in the map are exactly the matching configs (`Matches(p)`: selecting `p`, not deleted as listed) among those the loop has walked past (`Seen(p)`: the list before index `i`);
- an unanswered admission has no response;
- a patched one carries exactly its matching configs.

Each step acts on one admission, and `MatchOf(q)` reads only `req[q]` (lemma `MatchKept`), so the proof of `NextAttached` checks only the admission the step acts on:
- a skipped config is not a match and joins `Seen` (lemma `SeenStep`);
- an attached config is a match and joins both `Seen` and the map;
- every answer other than `Respond`'s patch is not "patched" (lemma `AnswerMatch`);
- `Respond` patches only at index `Len(ConfigList) + 1`, where `Seen(p)` is every config by `ListAssumption`.

The theorem needs `IInv` too, for the types.

`PodMutatorRefinement.tla` proves `AdmissionRefinement`: `Spec => AdmissionSpec`, under `MutatorAssumption` and `ListAssumption`. The webhook implements the abstract admission. The proof follows the usual layout:
- `Init => Admission!Init`;
- lemma `StepRefines`: `IInv /\ AttachedSoFar /\ RInv /\ [Next]_vars => [Admission!Next]_Admission!avars`, with one step per action;
- the temporal combination `BY PTL`.

The actions map as follows:
- `ListConfigs` and `ConfigSkipped` change neither a response nor a patched pod's map, so they are stutters (lemma `MappingKept`).
- `ClaimEnsured` without a collision is `CreateClaim`.
- Every failing action, and `ClaimEnsured` with a collision, is `Fail` (lemma `FailRefines`).
- `Respond` is `Allow` or `Patch`, with the listed stamps `req[p].del` as the snapshot.

The step rests on `AttachedSoFar` and `IInv` from `PodMutatorProofs`, and on a third invariant, `RInv`, with three conjuncts:
- **`Shaped`.** Every volume is `<<c, MountPoint[c]>>`. Without it the map could not be written as a function of the matching configs.
- **`Listed`.** Every stamp an admission listed is still set, because stamps are never removed. This makes the listed stamps a snapshot the abstract `Patch` accepts.
- **`Answered`.** An admission that is done has a response. Together with `MatchOf`, this makes "undecided" the same as "not done".

`Patch`'s conditions come from three places:
- the matching configs are exactly the map's claims, by `MatchOf` at the end of the list;
- they are created, by `VolsCreated`;
- their mount points are distinct, by `MountPointsUnique` and `Shaped`.

TLC checked `RInv` on the `mutator_safety` instance before the proof.

**Only model-checked.**
- The liveness properties (`GrowthUnderPressure`, `LiveClaimsMirrored`): TLAPS does not handle fairness and ENABLED reasoning.
- Everything about the host jobs. `HostJobScript` computes the script's result with a recursive function over the containers, and what that computes for every input is induction over data, which the installed provers cannot instantiate.
- The action property `WorkingCommandsSucceed` of the host jobs, for the same reason.

## 5. Findings

1. **Headroom boundary** (`pvc_controller.go:326`). The test `treshold > actual - available` resizes a claim whose free space is exactly at the threshold. Spec 4.4 and 8 say that case needs no action. In TLC's trace, a 1Gi claim with 0.5Gi used and a 50% trigger gets a request of 1Gi plus 1Gi, lowered to its 1.5Gi maximum.
2. **Stale status entries** (`pvc_controller.go:80`, `:377`).
   - How it happens: a reconcile reads a live claim. The claim is then deleted and its finalizer removed before the write. The write upserts the old phase, and the next reconcile gets NotFound and returns.
   - Why it is never repaired: delete events are filtered out, so nothing removes the entry again.
   - What it contradicts: spec 2 says the map mirrors live claims.
3. **Ungated monitor** (`pvc_controller.go:132`). `MonitorVolumes` never calls `controllerSemaphore`. Spec 5 and 8 say reconcile and monitor share the gate and the monitor skips a busy cycle.

4. **Masked container failure** (`kube.go:161`). The mknod `for` loop has the status of its last iteration. A failed PID lookup, mkdir, mknod or mount in the first container is hidden when the second works, and the job prints `ok`. Spec 4.3 says the `&&` chain ending in `ok` signals success unambiguously.
5. **Resize success without a resize** (`kube.go:177`).
   - The alternatives end in `|| echo unsupported`, and the whole subshell in `&& echo ok`.
   - So on ext4 a failed `resize2fs` still exits 0, for instance with `DEV` empty: the driver's `DEV=$(... | awk ...)` assignment always succeeds.
   - Spec 4.3 says any discovery failure aborts the script, and only an unsupported file system passes.
6. **hostPID bind never works** (`kube.go:168`). `bindMountTemplate` targets `${PID}`. Only the mknod loop sets `PID`, and it is not in the Job's environment (108-120), so a hostPID mount job fails after its backoff limit even when every command would work.
7. **One claim shared by every matching pod** (`pvc_controller.go:531`). `NewPVC` names the claim from the provisioner, config and namespace only, and Create tolerates AlreadyExists. So two pods selected by one config are patched with the same claim. Spec 3 says one claim per matching pod.

Further hazards are recorded in `PROJECT.json` and not turned into runs:
- The EBS pre-command `sleep infinity` (`main.go:59`): every EBS host job hangs.
- Claims created before a later failure of the same admission stay behind with no pod (`pvc_controller.go:537`).
- With a successful Create, the strict collision path calls `admission.Errored(500, nil)` (551).
- The mutator mounts a claim at `RenderMountPoint(pattern, pvc.Name, 0)` (546), but the monitor compares with `RenderMountPoint(pattern, config.Name, 0)` (274). `RenderMountPoint` is not in `src/`, so whether they differ is not modelled.

Also noted while reading the source, and not checked: in this snapshot `NewPVC` is called with a logger where its signature takes a driver, and `RenderMetricsSidecar` is called without its argument.

## 6. Not modelled, and plan

Parts left out, and why:
- **Metric text parsing, YAML templating, resource naming, the metrics service and sidecar, and the EBS driver's other exports.** These are pure formatting or constant strings. The parse is abstracted to the samples it yields.
- **`RenderAttachJob`.** Its command has no control flow to check.
- **The label `discoblocks/metrics` set by the mutator (511).** The service selector that reads it is outside `src/`.
- **DiskConfig deletion in the reconciler.** Its NotFound path in `Reconcile` (92-96) therefore does not arise.
- **The informer cache.** Reads are taken as fresh.

Next steps:
1. **The informer cache** as a stale read, in the reconciler and the mutator.
2. **A refinement for the reconciler**: an abstract status map that mirrors the live claims, with `ClaimReconciler` shown to implement it up to its queue.
