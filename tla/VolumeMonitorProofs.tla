------------------------ MODULE VolumeMonitorProofs ------------------------
(***************************************************************************)
(* Proofs about VolumeMonitor for every value of its constants: the type  *)
(* invariant, and ResizeStepBounded, the bound on how far a claim's       *)
(* storage request can run ahead of its provisioned capacity.             *)
(*                                                                         *)
(* Neither is inductive alone.  TypeOK needs used <= capacity (the free   *)
(* space a scrape records is then a quantity) and the request bound (the  *)
(* capacity the resizer copies from the request is then a quantity), so   *)
(* the inductive invariant IInv conjoins the three.                       *)
(***************************************************************************)
EXTENDS VolumeMonitor, TLAPS

(* The workload never fills a file system beyond its size.               *)
UsedWithinCapacity == \A p \in PVCs : used[p] <= capacity[p]

IInv == TypeOK /\ UsedWithinCapacity /\ ResizeStepBounded

USE ConstantsAssumption

-----------------------------------------------------------------------------
(* NewCapacity never exceeds the maximum it is given, nor one step above *)
(* the capacity it starts from.                                           *)
LEMMA NewCapacityBounds ==
  ASSUME NEW a \in Nat, NEW m \in Nat, m >= a
  PROVE  /\ NewCapacity(a, m) \in Nat
         /\ NewCapacity(a, m) <= m
         /\ NewCapacity(a, m) <= a + Step
  BY DEF NewCapacity, Step

(* A sample scraped from a valid state is a Sample.                       *)
LEMMA TickSamples ==
  ASSUME TypeOK, UsedWithinCapacity, NEW ok
  PROVE  UNION {{[pod |-> e[1], dc |-> e[2], mp |-> m, avail |-> Avail(Mounts[e[1]][m])] :
                   m \in MountedAt(e[1])} :
                 e \in {x \in Endpoints : x[1] \in ok}} \subseteq Sample
  <1> SUFFICES ASSUME NEW e \in Endpoints, NEW m \in MountedAt(e[1])
               PROVE  [pod |-> e[1], dc |-> e[2], mp |-> m,
                       avail |-> Avail(Mounts[e[1]][m])] \in Sample
    OBVIOUS
  <1>1. e[1] \in Pods /\ e[2] \in Configs
    OBVIOUS
  <1>2. m \in MountPoints /\ Mounts[e[1]][m] \in PVCs
    BY <1>1 DEF MountedAt
  <1>3. Avail(Mounts[e[1]][m]) \in Quantity
    BY <1>2 DEF Avail, TypeOK, UsedWithinCapacity, Quantity
  <1> QED
    BY <1>1, <1>2, <1>3 DEF Sample

-----------------------------------------------------------------------------
LEMMA InitIInv == Init => IInv
  <1> SUFFICES ASSUME Init PROVE IInv
    OBVIOUS
  <1>1. capacity \in [PVCs -> Quantity] /\ request = capacity
    BY DEF Init, Quantity
  <1>2. used \in [PVCs -> Quantity] /\ UsedWithinCapacity
    BY <1>1 DEF Init, Quantity, UsedWithinCapacity
  <1>3. TypeOK
    BY <1>1, <1>2 DEF Init, TypeOK
  <1>4. ResizeStepBounded
    BY <1>1 DEF ResizeStepBounded, Quantity, Step
  <1> QED
    BY <1>2, <1>3, <1>4 DEF IInv

LEMMA NextIInv == IInv /\ [Next]_vars => IInv'
  <1> SUFFICES ASSUME IInv, [Next]_vars PROVE IInv'
    OBVIOUS
  <1> USE DEF IInv
  <1>1. ASSUME NEW ok \in SUBSET ScrapedPods, Tick(ok) PROVE IInv'
    <2>1. pending' \subseteq Sample
      BY <1>1, TickSamples DEF Tick
    <2> QED
      BY <1>1, <2>1 DEF Tick, TypeOK, UsedWithinCapacity, ResizeStepBounded
  <1>2. ASSUME NEW s \in pending, ProcessSample(s) PROVE IInv'
    <2> DEFINE pol == PolicyOf(s.dc)
               p   == ClaimOf(s)
               new == NewCapacity(ActualCapacity(p), pol.max)
    <2>1. s \in Sample /\ s.dc \in Configs
      BY DEF TypeOK, Sample
    <2>2. pol \in Policy
      BY <2>1 DEF TypeOK, PolicyOf
    <2>3. pol.max \in 0..QuantityBound
      BY <2>2 DEF Policy
    <2>4. /\ UNCHANGED <<capacity, used, policy, edits>>
          /\ pending' \subseteq Sample
          /\ phase' \in {"idle", "processing"}
          /\ cached' \subseteq Configs
          /\ cache' \in [Configs -> Policy]
      BY <1>2, <2>1, <2>2 DEF ProcessSample, TypeOK
    <2>5. CASE WantsResize(s, pol) /\ new >= request[p]
      <3>1. p \in PVCs
        BY <2>1, <2>5 DEF WantsResize, Manages, ClaimOf, Sample
      <3>2. capacity[p] \in Nat /\ capacity[p] <= request[p]
        BY <3>1 DEF TypeOK, ResizeStepBounded, Quantity
      <3>3. new \in 0..QuantityBound /\ new <= capacity[p] + Step
        <4>1. CASE pol.max >= capacity[p]
          BY <2>3, <3>2, <4>1, NewCapacityBounds DEF ActualCapacity
        <4>2. CASE pol.max < capacity[p]
          BY <2>3, <3>2, <4>2 DEF NewCapacity, ActualCapacity, Step
        <4> QED
          BY <2>3, <3>2, <4>1, <4>2
      <3>4. request' = [request EXCEPT ![p] = new]
        BY <1>2, <2>5 DEF ProcessSample
      <3>5. request' \in [PVCs -> Quantity]
        BY <3>1, <3>3, <3>4 DEF TypeOK, Quantity
      <3>6. ResizeStepBounded'
        <4> SUFFICES ASSUME NEW q \in PVCs
                     PROVE  capacity'[q] <= request'[q] /\ request'[q] <= capacity'[q] + Step
          BY DEF ResizeStepBounded
        <4>1. CASE q = p
          <5>1. request'[q] = new /\ capacity'[q] = capacity[p]
            BY <2>4, <3>1, <3>4, <4>1 DEF TypeOK
          <5>2. request[p] <= new
            BY <2>5
          <5> QED
            BY <3>1, <3>2, <3>3, <5>1, <5>2 DEF TypeOK, Quantity
        <4>2. CASE q # p
          BY <2>4, <3>4, <4>2 DEF ResizeStepBounded
        <4> QED
          BY <4>1, <4>2
      <3> QED
        BY <2>4, <3>5, <3>6 DEF TypeOK, UsedWithinCapacity
    <2>6. CASE ~(WantsResize(s, pol) /\ new >= request[p])
      <3>1. request' = request
        BY <1>2, <2>6 DEF ProcessSample
      <3> QED
        BY <2>4, <3>1 DEF TypeOK, UsedWithinCapacity, ResizeStepBounded
    <2> QED
      BY <2>5, <2>6
  <1>3. ASSUME NEW s \in pending, SampleFails(s) PROVE IInv'
    <2>1. PolicyOf(s.dc) \in Policy /\ s.dc \in Configs
      BY DEF TypeOK, PolicyOf, Sample
    <2> QED
      BY <1>3, <2>1 DEF SampleFails, TypeOK, UsedWithinCapacity, ResizeStepBounded
  <1>4. ASSUME NEW p \in PVCs, ResizeVolume(p) PROVE IInv'
    <2>1. capacity' = [capacity EXCEPT ![p] = request[p]]
          /\ UNCHANGED <<request, used, policy, edits, phase, pending, cached, cache>>
      BY <1>4 DEF ResizeVolume
    <2>2. capacity' \in [PVCs -> Quantity]
      BY <2>1 DEF TypeOK
    <2>3. UsedWithinCapacity'
      BY <1>4, <2>1 DEF ResizeVolume, TypeOK, UsedWithinCapacity, Quantity
    <2>4. ResizeStepBounded'
      BY <2>1 DEF TypeOK, ResizeStepBounded, Quantity, Step
    <2> QED
      BY <2>1, <2>2, <2>3, <2>4 DEF TypeOK
  <1>5. ASSUME NEW p \in PVCs, Write(p) PROVE IInv'
    BY <1>5 DEF Write, TypeOK, UsedWithinCapacity, ResizeStepBounded, Quantity
  <1>6. ASSUME NEW p \in PVCs, Delete(p) PROVE IInv'
    BY <1>6 DEF Delete, TypeOK, UsedWithinCapacity, ResizeStepBounded, Quantity
  <1>7. ASSUME NEW c \in Configs, NEW pol \in Policy, EditPolicy(c, pol) PROVE IInv'
    BY <1>7 DEF EditPolicy, TypeOK, UsedWithinCapacity, ResizeStepBounded
  <1>8. CASE UNCHANGED vars
    BY <1>8 DEF vars, TypeOK, UsedWithinCapacity, ResizeStepBounded
  <1> QED
    BY <1>1, <1>2, <1>3, <1>4, <1>5, <1>6, <1>7, <1>8 DEF Next

-----------------------------------------------------------------------------
(* Every state of the monitor is well typed.                              *)
THEOREM TypeCorrect == Spec => []TypeOK
  <1>1. IInv => TypeOK
    BY DEF IInv
  <1> QED
    BY InitIInv, NextIInv, <1>1, PTL DEF Spec

(* However the monitor's cycles interleave with the resizer, no claim's  *)
(* storage request is ever below its capacity or more than one 1Gi step  *)
(* above it (the check ResizeStepBounded of the run volume_safety).      *)
THEOREM StepBounded == Spec => []ResizeStepBounded
  <1>1. IInv => ResizeStepBounded
    BY DEF IInv
  <1> QED
    BY InitIInv, NextIInv, <1>1, PTL DEF Spec
-----------------------------------------------------------------------------
(* A handled sample either leaves every request alone or raises the      *)
(* request of one claim carrying a discoblocks finalizer, to a value at  *)
(* most one step above the claim's capacity.                             *)
LEMMA SampleRaises ==
  ASSUME IInv, NEW s \in pending, ProcessSample(s)
  PROVE  \/ request' = request
         \/ \E p \in PVCs, r \in Nat :
              /\ Owner[p] \in Configs
              /\ request[p] < r /\ r <= capacity[p] + Step
              /\ request' = [request EXCEPT ![p] = r]
  <1> DEFINE pol == PolicyOf(s.dc)
             p   == ClaimOf(s)
             new == NewCapacity(ActualCapacity(p), pol.max)
  <1>1. s \in Sample /\ s.dc \in Configs /\ pol \in Policy
    BY DEF IInv, TypeOK, Sample, PolicyOf
  <1>2. CASE WantsResize(s, pol) /\ new >= request[p]
    <2>1. p \in PVCs /\ Owner[p] \in Configs
      BY <1>1, <1>2 DEF WantsResize, Manages, ClaimOf, Sample
    <2>2. capacity[p] \in Nat /\ request[p] \in Nat /\ capacity[p] <= request[p]
      BY <2>1 DEF IInv, TypeOK, ResizeStepBounded, Quantity
    <2>3. new \in Nat /\ new <= capacity[p] + Step
      <3>1. pol.max \in 0..QuantityBound
        BY <1>1 DEF Policy
      <3>2. CASE pol.max >= capacity[p]
        BY <2>2, <3>1, <3>2, NewCapacityBounds DEF ActualCapacity
      <3>3. CASE pol.max < capacity[p]
        BY <2>2, <3>1, <3>3 DEF NewCapacity, ActualCapacity, Step
      <3> QED
        BY <2>2, <3>1, <3>2, <3>3
    <2>4. request' = [request EXCEPT ![p] = new]
      BY <1>2 DEF ProcessSample
    <2>5. CASE new = request[p]
      BY <2>1, <2>4, <2>5 DEF IInv, TypeOK
    <2>6. CASE new # request[p]
      <3>1. request[p] < new
        <4>1. new >= request[p]
          BY <1>2
        <4>2. \A a, b \in Nat : a >= b /\ a # b => b < a
          OBVIOUS
        <4> QED
          BY <2>2, <2>3, <2>6, <4>1, <4>2, Zenon
      <3>2. /\ Owner[p] \in Configs
            /\ request[p] < new /\ new <= capacity[p] + Step
            /\ request' = [request EXCEPT ![p] = new]
        BY <2>1, <2>3, <2>4, <3>1
      <3> QED
        BY <2>1, <2>3, <3>2, Zenon
    <2> QED
      BY <2>5, <2>6
  <1>3. CASE ~(WantsResize(s, pol) /\ new >= request[p])
    BY <1>3 DEF ProcessSample
  <1> QED
    BY <1>2, <1>3

(* Every step of the monitor model is a step of the abstract autoscaler  *)
(* or leaves request, capacity and used alone.                            *)
LEMMA StepRefines == IInv /\ [Next]_vars => [Autoscaler!Next]_Autoscaler!avars
  <1> SUFFICES ASSUME IInv, [Next]_vars PROVE [Autoscaler!Next]_Autoscaler!avars
    OBVIOUS
  <1> DEFINE Stutter == UNCHANGED Autoscaler!avars
  <1>1. ASSUME NEW ok \in SUBSET ScrapedPods, Tick(ok) PROVE Stutter
    BY <1>1 DEF Tick, Autoscaler!avars
  <1>2. ASSUME NEW s \in pending, ProcessSample(s) PROVE [Autoscaler!Next]_Autoscaler!avars
    <2>1. UNCHANGED <<capacity, used>>
      BY <1>2 DEF ProcessSample
    <2>2. CASE request' = request
      BY <2>1, <2>2 DEF Autoscaler!avars
    <2>3. CASE \E p \in PVCs, r \in Nat :
                 /\ Owner[p] \in Configs
                 /\ request[p] < r /\ r <= capacity[p] + Step
                 /\ request' = [request EXCEPT ![p] = r]
      <3>1. PICK p \in PVCs, r \in Nat :
                 /\ Owner[p] \in Configs
                 /\ request[p] < r /\ r <= capacity[p] + Step
                 /\ request' = [request EXCEPT ![p] = r]
        BY <2>3
      <3>2. r \in Autoscaler!Raises(p)
        BY <3>1 DEF Autoscaler!Raises, IInv, TypeOK, Quantity
      <3>3. Autoscaler!RaiseRequest(p, r)
        BY <2>1, <3>1, <3>2 DEF Autoscaler!RaiseRequest
      <3> QED
        BY <3>2, <3>3 DEF Autoscaler!Next
    <2> QED
      BY <1>2, <2>2, <2>3, SampleRaises
  <1>3. ASSUME NEW s \in pending, SampleFails(s) PROVE Stutter
    BY <1>3 DEF SampleFails, Autoscaler!avars
  <1>4. ASSUME NEW p \in PVCs, ResizeVolume(p) PROVE Autoscaler!Next
    BY <1>4 DEF ResizeVolume, Autoscaler!Next, Autoscaler!Expand
  <1>5. ASSUME NEW p \in PVCs, Write(p) PROVE Autoscaler!Next
    BY <1>5 DEF Write, Autoscaler!Next, Autoscaler!Fill
  <1>6. ASSUME NEW p \in PVCs, Delete(p) PROVE Autoscaler!Next
    BY <1>6 DEF Delete, Autoscaler!Next, Autoscaler!Free
  <1>7. ASSUME NEW c \in Configs, NEW pol \in Policy, EditPolicy(c, pol) PROVE Stutter
    BY <1>7 DEF EditPolicy, Autoscaler!avars
  <1>8. CASE UNCHANGED vars
    BY <1>8 DEF vars, Autoscaler!avars
  <1> QED
    BY <1>1, <1>2, <1>3, <1>4, <1>5, <1>6, <1>7, <1>8 DEF Next

(* The monitor implements the abstract autoscaler (the check             *)
(* AutoscalerSpec of the run volume_safety): for every value of the      *)
(* constants, only claims carrying a discoblocks finalizer have their    *)
(* request raised, never lowered and never past one step above their     *)
(* capacity, and the capacity only grows to the request.                  *)
THEOREM Refinement == Spec => AutoscalerSpec
  <1>1. Init => Autoscaler!Init
    BY DEF Init, Autoscaler!Init
  <1> QED
    BY <1>1, InitIInv, NextIInv, StepRefines, PTL DEF Spec, AutoscalerSpec, Autoscaler!Spec

-----------------------------------------------------------------------------
(* NewCapacity never exceeds the maximum it is given.                     *)
LEMMA NewCapacityWithinMax ==
  ASSUME NEW a \in Nat, NEW m \in Nat
  PROVE  NewCapacity(a, m) <= m
  BY DEF NewCapacity, Step

(* A step of the monitor changes a claim's request only for a claim that *)
(* carries the finalizer of a config the cycle has read, and never       *)
(* beyond that config's maximum as read.                                 *)
LEMMA StepOwnedWithinMax ==
  IInv /\ [Next]_vars =>
    [\A p \in PVCs : request'[p] # request[p] =>
        /\ Owner[p] \in cached'
        /\ request'[p] <= cache'[Owner[p]].max]_vars
  <1> SUFFICES ASSUME IInv, [Next]_vars
               PROVE  \A q \in PVCs : request'[q] # request[q] =>
                        /\ Owner[q] \in cached'
                        /\ request'[q] <= cache'[Owner[q]].max
    OBVIOUS
  <1>1. CASE request' = request
    BY <1>1
  <1>2. CASE request' # request
    <2>1. PICK s \in pending : ProcessSample(s)
      BY <1>2 DEF Next, Tick, SampleFails, ResizeVolume, Write, Delete, EditPolicy, vars
    <2> DEFINE pol == PolicyOf(s.dc)
               p   == ClaimOf(s)
               new == NewCapacity(ActualCapacity(p), pol.max)
    <2>2. WantsResize(s, pol) /\ request' = [request EXCEPT ![p] = new]
      BY <1>2, <2>1 DEF ProcessSample
    <2>3. s \in Sample /\ s.dc \in Configs /\ pol \in Policy
      BY DEF IInv, TypeOK, Sample, PolicyOf
    <2>4. p \in PVCs /\ Owner[p] = s.dc
      BY <2>2, <2>3 DEF WantsResize, Manages, ClaimOf, Sample
    <2>5. s.dc \in cached' /\ cache'[s.dc] = pol
      BY <2>1, <2>3 DEF ProcessSample, IInv, TypeOK
    <2>6. new <= pol.max
      <3>1. pol.max \in 0..QuantityBound
        BY <2>3 DEF Policy
      <3>2. capacity[p] \in Nat
        BY <2>4 DEF IInv, TypeOK, Quantity
      <3> QED
        BY <3>1, <3>2, NewCapacityWithinMax DEF ActualCapacity
    <2> SUFFICES ASSUME NEW q \in PVCs, request'[q] # request[q]
                 PROVE  Owner[q] \in cached' /\ request'[q] <= cache'[Owner[q]].max
      OBVIOUS
    <2>7. q = p
      BY <2>2, <2>4 DEF IInv, TypeOK
    <2> QED
      BY <2>2, <2>4, <2>5, <2>6, <2>7 DEF IInv, TypeOK
  <1> QED
    BY <1>1, <1>2

(* The ContainsFinalizer check and the maximum of MonitorVolumes (the    *)
(* check ResizeOnlyOwnedWithinMax of the run volume_safety): for every  *)
(* value of the constants, a claim's storage request is only changed    *)
(* for a claim carrying the finalizer of a config read in the current   *)
(* cycle, and never beyond that config's maximum capacity as read.      *)
THEOREM OwnedWithinMax == Spec => ResizeOnlyOwnedWithinMax
  BY InitIInv, NextIInv, StepOwnedWithinMax, PTL DEF Spec, ResizeOnlyOwnedWithinMax

=============================================================================
