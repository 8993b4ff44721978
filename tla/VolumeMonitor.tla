--------------------------- MODULE VolumeMonitor ---------------------------
(***************************************************************************)
(* The volume autoscaler of discoblocks: PVCReconciler.MonitorVolumes      *)
(* (src/controllers/pvc_controller.go), run once a minute by the ticker   *)
(* goroutine of SetupWithManager, together with the parts of the cluster  *)
(* it races with: the external resizer that turns a raised storage        *)
(* request into provisioned capacity, the workload that fills and empties *)
(* the file system, and an operator editing a DiskConfig's policy.        *)
(*                                                                         *)
(* Capacities, requests and used space count half GiB, so that a maximum *)
(* capacity that is not a whole number of GiB, where the code lowers     *)
(* actual + 1Gi to the maximum, can be configured.  A monitor cycle is   *)
(* split where the code reads state that other actors change meanwhile:   *)
(* the scrape of every endpoint (Tick) takes a snapshot of the free space *)
(* of every mounted file system; each scraped sample is then handled by   *)
(* its own step (ProcessSample), which reads the claim's capacity and     *)
(* updates its request as it stands at that later moment.                 *)
(***************************************************************************)
EXTENDS Integers, FiniteSets

CONSTANTS
  Pods,         \* pods behind a discoblocks metrics endpoint
  Configs,      \* DiskConfig objects
  PVCs,         \* PersistentVolumeClaim objects
  MountPoints,  \* mount paths inside the pods
  NoConfig,     \* model value: a claim carrying no discoblocks finalizer
  NoPVC,        \* model value: no claim mounted at a path
  Pattern,      \* [Configs -> MountPoints]: RenderMountPoint(pattern, name, 0)
  Mounts,       \* [Pods -> [MountPoints -> PVCs \cup {NoPVC}]]: volumeMounts of Containers[0]
  Owner,        \* [PVCs -> Configs \cup {NoConfig}]: the config named by the claim's finalizer
  Endpoints,    \* set of <<pod, config>>: pod address in an endpoint labelled discoblocks=config
  Percents,     \* values of Policy.UpscaleTriggerPercentage
  MaxChoices,   \* values of Policy.MaximumCapacityOfDisk, in half GiB
  InitCaps,     \* capacities a claim is provisioned with, in half GiB
  QuantityBound, \* a quantity no maximum and no initial capacity exceeds
  MaxEdits      \* bound on the operator's policy edits

ASSUME ConstantsAssumption ==
  /\ NoConfig \notin Configs
  /\ NoPVC \notin PVCs
  /\ Pattern \in [Configs -> MountPoints]
  /\ Mounts \in [Pods -> [MountPoints -> PVCs \cup {NoPVC}]]
  /\ Owner \in [PVCs -> Configs \cup {NoConfig}]
  /\ Endpoints \subseteq Pods \X Configs
  /\ Percents \subseteq 0..100
  /\ QuantityBound \in Nat
  /\ MaxChoices \subseteq 0..QuantityBound
  /\ InitCaps \subseteq 0..QuantityBound
  /\ MaxEdits \in Nat

(* resource.ParseQuantity("1Gi"): the growth step of one resize, in the  *)
(* model's unit of half a GiB.                                           *)
Step == 2

(* The storage quantities a claim can legitimately have.                *)
Quantity == 0..QuantityBound

Policy == [pause : BOOLEAN, max : MaxChoices, pct : Percents]

(* A scraped node_filesystem_avail_bytes line, attributed to the pod whose *)
(* address served it and to one config label of that pod's endpoints.     *)
Sample == [pod : Pods, dc : Configs, mp : MountPoints, avail : Quantity]

VARIABLES
  request,   \* [PVCs -> Nat]: pvc.Spec.Resources.Requests[storage]
  capacity,  \* [PVCs -> Nat]: pvc.Status.Capacity[storage], the file system size
  used,      \* [PVCs -> Nat]: bytes used on the claim's file system
  policy,    \* [Configs -> Policy]: DiskConfig.Spec.Policy in the API server
  edits,     \* number of policy edits made so far
  phase,     \* "idle" between cycles, "processing" while samples remain
  pending,   \* samples of the current cycle not handled yet
  cached,    \* configs read into diskConfigCache during this cycle
  cache      \* [Configs -> Policy]: diskConfigCache entries (valid on cached)

vars == <<request, capacity, used, policy, edits, phase, pending, cached, cache>>

-----------------------------------------------------------------------------
(* Free space reported by node-exporter for a claim's file system.        *)
Avail(p) == capacity[p] - used[p]

(* The claim mounted at a sample's path in containers[0] of its pod.      *)
ClaimOf(s) == Mounts[s.pod][s.mp]

(* The mount paths of a pod's containers[0] that have a volume, each one *)
(* a file system node-exporter reports.                                 *)
MountedAt(pod) == {m \in MountPoints : Mounts[pod][m] # NoPVC}

(* The policy the cycle uses for config c: the cached copy once read.     *)
PolicyOf(c) == IF c \in cached THEN cache[c] ELSE policy[c]

(* Mutant: growth computed from the request instead of the status.      *)
ActualCapacityFromRequest(p) == request[p]

(* actualCapacity := pvc.Status.Capacity.Storage()                        *)
ActualCapacity(p) == capacity[p]

(* treshold > actual - available: with treshold = actual * pct / 100.     *)
HasHeadroom(actual, avail, pct) == actual * pct > 100 * (actual - avail)

(* Mutants: the lowering to the maximum dropped; newCapacity.Add(actual) *)
(* forgotten, so that the request is set to 1Gi.                         *)
NewCapacityNoClamp(actual, max) == actual + Step

NewCapacityNoAdd(actual, max) == IF max < Step THEN max ELSE Step

(* newCapacity = actual + 1Gi, lowered to the maximum when beyond it.     *)
NewCapacity(actual, max) == IF max < actual + Step THEN max ELSE actual + Step

(* Mutant: the ContainsFinalizer check dropped.                          *)
ManagesAnyClaim(s) ==
  /\ s.mp = Pattern[s.dc]
  /\ ClaimOf(s) # NoPVC

(* The sample is about a claim of its config: the label's mount point is  *)
(* the config's rendered one, a volume is mounted there, and the claim    *)
(* carries the config's finalizer.                                        *)
Manages(s) ==
  /\ s.mp = Pattern[s.dc]
  /\ ClaimOf(s) # NoPVC
  /\ Owner[ClaimOf(s)] = s.dc

(* The sample leads to r.Update with a new storage request.               *)
WantsResize(s, pol) ==
  /\ ~pol.pause
  /\ Manages(s)
  /\ ~HasHeadroom(ActualCapacity(ClaimOf(s)), s.avail, pol.pct)
  /\ ActualCapacity(ClaimOf(s)) # pol.max

-----------------------------------------------------------------------------
Init ==
  /\ capacity \in [PVCs -> InitCaps]
  /\ request = capacity
  /\ used = [p \in PVCs |-> 0]
  /\ policy \in [Configs -> Policy]
  /\ \A p \in PVCs : Owner[p] \in Configs => capacity[p] <= policy[Owner[p]].max
  /\ edits = 0
  /\ phase = "idle"
  /\ pending = {}
  /\ cached = {}
  /\ cache = policy

(* A tick of the ticker: MonitorVolumes lists the endpoints and fetches   *)
(* http://<ip>:9100/metrics from every address; the fetches of the pods   *)
(* outside ok fail and are skipped.  Every avail line of a scraped pod is *)
(* kept once per config label of that pod.  With no line at all the      *)
(* cycle returns at once ("Metrics data not found").                      *)
Tick(ok) ==
  LET samples == UNION {{[pod |-> e[1], dc |-> e[2], mp |-> m, avail |-> Avail(Mounts[e[1]][m])] :
                           m \in MountedAt(e[1])} :
                         e \in {x \in Endpoints : x[1] \in ok}}
  IN /\ phase = "idle"
     /\ pending' = samples
     /\ phase' = IF samples = {} THEN "idle" ELSE "processing"
     /\ cached' = {}
     /\ UNCHANGED <<request, capacity, used, policy, edits, cache>>

ScrapedPods == {e[1] : e \in Endpoints}

(* One sample handled to the end: the DiskConfig is read (through the     *)
(* cache), paused configs and foreign or unmanaged claims are skipped,    *)
(* and a claim short of headroom and below its maximum gets the request   *)
(* NewCapacity.  The API server refuses a request below the current one.  *)
ProcessSample(s) ==
  LET pol == PolicyOf(s.dc)
      p   == ClaimOf(s)
      new == NewCapacity(ActualCapacity(p), pol.max)
  IN /\ phase = "processing"
     /\ s \in pending
     /\ pending' = pending \ {s}
     /\ phase' = IF pending' = {} THEN "idle" ELSE "processing"
     /\ cached' = cached \cup {s.dc}
     /\ cache' = [cache EXCEPT ![s.dc] = pol]
     /\ request' = IF WantsResize(s, pol) /\ new >= request[p]
                     THEN [request EXCEPT ![p] = new]
                     ELSE request
     /\ UNCHANGED <<capacity, used, policy, edits>>

(* A sample dropped by an error: the pod, DiskConfig or PVC Get, the      *)
(* metric parse or the Update fails, or the cycle's deadline has passed.  *)
(* The DiskConfig may have been read and cached before the failure.       *)
SampleFails(s) ==
  /\ phase = "processing"
  /\ s \in pending
  /\ pending' = pending \ {s}
  /\ phase' = IF pending' = {} THEN "idle" ELSE "processing"
  /\ \/ UNCHANGED <<cached, cache>>
     \/ /\ cached' = cached \cup {s.dc}
        /\ cache' = [cache EXCEPT ![s.dc] = PolicyOf(s.dc)]
  /\ UNCHANGED <<request, capacity, used, policy, edits>>

(* The external resizer and kubelet expand the volume and its file       *)
(* system to the requested size, then report it in the claim's status.    *)
ResizeVolume(p) ==
  /\ capacity[p] < request[p]
  /\ capacity' = [capacity EXCEPT ![p] = request[p]]
  /\ UNCHANGED <<request, used, policy, edits, phase, pending, cached, cache>>

(* The workload writes or deletes half a GiB on the claim's file system. *)
Write(p) ==
  /\ used[p] < capacity[p]
  /\ used' = [used EXCEPT ![p] = @ + 1]
  /\ UNCHANGED <<request, capacity, policy, edits, phase, pending, cached, cache>>

Delete(p) ==
  /\ used[p] > 0
  /\ used' = [used EXCEPT ![p] = @ - 1]
  /\ UNCHANGED <<request, capacity, policy, edits, phase, pending, cached, cache>>

(* An operator edits a DiskConfig's autoscaling policy.                   *)
EditPolicy(c, pol) ==
  /\ edits < MaxEdits
  /\ policy' = [policy EXCEPT ![c] = pol]
  /\ edits' = edits + 1
  /\ UNCHANGED <<request, capacity, used, phase, pending, cached, cache>>

Next ==
  \/ \E ok \in SUBSET ScrapedPods : Tick(ok)
  \/ \E s \in pending : ProcessSample(s) \/ SampleFails(s)
  \/ \E p \in PVCs : ResizeVolume(p) \/ Write(p) \/ Delete(p)
  \/ \E c \in Configs, pol \in Policy : EditPolicy(c, pol)

(* Fairness.  The ticker fires every minute and a failed fetch is retried *)
(* by the next tick, so a cycle that scrapes every pod, and a sample that *)
(* is handled without error, cannot be refused forever (strong fairness:  *)
(* errors disable them only intermittently).  The resizer keeps working   *)
(* on a pending expansion until it is done.                               *)
Fairness ==
  /\ SF_vars(Tick(ScrapedPods))
  /\ \A pod \in Pods, c \in Configs, m \in MountPoints :
       SF_vars(\E s \in pending : s.pod = pod /\ s.dc = c /\ s.mp = m /\ ProcessSample(s))
  /\ \A p \in PVCs : WF_vars(ResizeVolume(p))

Spec == Init /\ [][Next]_vars

FairSpec == Spec /\ Fairness

-----------------------------------------------------------------------------
(* Type invariant.                                                        *)
TypeOK ==
  /\ request \in [PVCs -> Quantity]
  /\ capacity \in [PVCs -> Quantity]
  /\ used \in [PVCs -> Quantity]
  /\ policy \in [Configs -> Policy]
  /\ edits \in 0..MaxEdits
  /\ phase \in {"idle", "processing"}
  /\ pending \subseteq Sample
  /\ cached \subseteq Configs
  /\ cache \in [Configs -> Policy]

(* The blast radius of autoscaling (spec 4.4): the request of a claim is  *)
(* never below its provisioned capacity and never more than one 1Gi step *)
(* above it, however many cycles run while the resizer lags behind.  It  *)
(* rests on MonitorVolumes growing from pvc.Status.Capacity, not from the *)
(* request it raised in an earlier cycle.                                 *)
ResizeStepBounded ==
  \A p \in PVCs : capacity[p] <= request[p] /\ request[p] <= capacity[p] + Step

(* A claim's request is only ever changed for a claim that carries the   *)
(* finalizer of a config read in the current cycle, and never beyond the *)
(* maximum capacity of that, its owning, config as the cycle read it: a   *)
(* claim mounted at another config's mount point, or with no finalizer,  *)
(* is left alone (the ContainsFinalizer check of MonitorVolumes).         *)
ResizeOnlyOwnedWithinMax ==
  [][\A p \in PVCs : request'[p] # request[p] =>
        /\ Owner[p] \in cached'
        /\ request'[p] <= cache'[Owner[p]].max]_vars

(* A claim the monitor can see: its owning config's endpoint lists a pod *)
(* that mounts it at that config's mount point.                          *)
Monitored(p) ==
  /\ Owner[p] \in Configs
  /\ \E pod \in Pods : <<pod, Owner[p]>> \in Endpoints /\ Mounts[pod][Pattern[Owner[p]]] = p

(* x * q for the quantities the model reaches, tabulated: TLC's liveness *)
(* checker does not evaluate * applied to state variables.               *)
PercentOf == [x \in Quantity, q \in 0..100 |-> x * q]

(* The claim's file system is, by the code's own test, short of headroom: *)
(* treshold <= actual - available, where actual - available is the used  *)
(* space.                                                                *)
UnderPressure(p) ==
  PercentOf[capacity[p], policy[Owner[p]].pct] <= PercentOf[used[p], 100]

(* Autoscaling makes progress: a monitored claim under pressure is       *)
(* eventually out of pressure, at (or beyond) its config's maximum, or   *)
(* its config is paused, however the workload and the operator act.      *)
GrowthUnderPressure ==
  \A p \in {q \in PVCs : Monitored(q)} :
     UnderPressure(p) ~> (\/ ~UnderPressure(p)
                          \/ capacity[p] >= policy[Owner[p]].max
                          \/ policy[Owner[p]].pause)

(* The autoscaler as its users see it: the monitor implements            *)
(* AbstractAutoscaler, with the claims that carry a config's finalizer   *)
(* as the managed ones; cycles, samples, caches and policies are hidden.  *)
Autoscaler == INSTANCE AbstractAutoscaler WITH Managed <- {p \in PVCs : Owner[p] \in Configs}

(* Every step of MonitorVolumes, of the resizer and of the workload is a  *)
(* step of the abstract autoscaler or leaves its state alone: a cycle     *)
(* only ever raises the request of a claim carrying a discoblocks         *)
(* finalizer, never lowers it, and never beyond one step above the        *)
(* capacity, whatever cache it read and however it interleaves.           *)
AutoscalerSpec == Autoscaler!Spec

(* Spec 4.4 and 8: "if availableBytes >= currentCapacity - threshold, the *)
(* volume has enough headroom -- no action".  A sample whose handling    *)
(* raises a claim's request had, by that rule, no headroom.              *)
SpecHeadroom(s) ==
  LET p == ClaimOf(s) IN
  100 * s.avail >= 100 * capacity[p] - capacity[p] * PolicyOf(s.dc).pct

NoResizeWithSpecHeadroom ==
  [][\A s \in pending \ pending' :
        ClaimOf(s) # NoPVC /\ request'[ClaimOf(s)] > request[ClaimOf(s)] => ~SpecHeadroom(s)]_vars
=============================================================================
