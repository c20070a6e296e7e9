-------------------------- MODULE LifecycleProofs --------------------------
(***************************************************************************)
(* Proofs about the life of the exporter's processes, for any replicas,    *)
(* any number of faults and any timeouts for which a lease is longer than  *)
(* its holder goes on without renewing it.                                 *)
(***************************************************************************)
EXTENDS Lifecycle, TLAPS

LEMMA InitIInv == Init => IInv
<1> SUFFICES ASSUME Init PROVE IInv
  OBVIOUS
<1> USE DEF Init
<1>1. TypeOK
  BY LifecycleAssumption DEF TypeOK, Stages
<1>2. \A r \in Replicas : ~Leads(r)
  BY DEF Leads
<1>3. ExportersRun
  BY DEF ExportersRun
<1>4. QED
  BY <1>1, <1>2, <1>3 DEF IInv, LeaderHolds, HeldLongEnough

(* A step that leaves the lease alone and makes nobody lead keeps what the *)
(* lease is for.                                                           *)
LEMMA LeaseKept ==
  ASSUME LeaderHolds, HeldLongEnough, UNCHANGED <<lease, leaderElect>>,
         leaderElect => \A r \in Replicas : Leads(r)' => Leads(r)
  PROVE  LeaderHolds' /\ HeldLongEnough'
BY DEF LeaderHolds, HeldLongEnough, lease

----------------------------------------------------------------------------
(* One lemma for each action of a process. *)
LEMMA EndsIInv ==
  ASSUME IInv, NEW r \in Replicas, NEW how \in {"exited", "killed"}, Ends(r, how),
         UNCHANGED <<lease, leaderElect>>, outage' \in BOOLEAN, faults' \in 0..MaxFaults
  PROVE  IInv'
<1> USE DEF Ends, lease
<1>1. TypeOK'
  BY LifecycleAssumption DEF IInv, TypeOK, Stages
<1>2. \A s \in Replicas : Leads(s)' => Leads(s)
  BY DEF IInv, TypeOK, Leads, Exports
<1>3. ExportersRun'
  BY DEF IInv, TypeOK, ExportersRun
<1>4. QED
  BY <1>1, <1>2, <1>3, LeaseKept DEF IInv

LEMMA WarmUpIInv ==
  ASSUME IInv, NEW r \in Replicas, WarmUp(r, TRUE)
  PROVE  IInv'
<1> USE DEF WarmUp, lease, world
<1>1. TypeOK'
  BY DEF IInv, TypeOK, Stages
<1>2. leaderElect => \A s \in Replicas : Leads(s)' => Leads(s)
  BY DEF IInv, TypeOK, Leads, Exports
<1>3. ExportersRun'
  BY DEF IInv, TypeOK, ExportersRun
<1>4. QED
  BY <1>1, <1>2, <1>3, LeaseKept DEF IInv

LEMMA WarmUpFailsIInv ==
  ASSUME IInv, NEW r \in Replicas, WarmUpFails(r)
  PROVE  IInv'
<1>1. Ends(r, "exited") /\ UNCHANGED <<lease, world>>
  BY DEF WarmUpFails, WarmUp
<1>2. outage' \in BOOLEAN /\ faults' \in 0..MaxFaults /\ UNCHANGED <<lease, leaderElect>>
  BY <1>1 DEF world, IInv, TypeOK
<1>3. QED
  BY <1>1, <1>2, EndsIInv

LEMMA RunIInv ==
  ASSUME IInv, NEW r \in Replicas, run(r)
  PROVE  IInv'
<1> USE DEF run, lease, world
<1>1. TypeOK'
  BY DEF IInv, TypeOK, Stages
<1>2. \A s \in Replicas : Leads(s)' => Leads(s)
  BY DEF IInv, TypeOK, Leads, Exports
<1>3. ExportersRun'
  BY DEF IInv, TypeOK, ExportersRun
<1>4. QED
  BY <1>1, <1>2, <1>3, LeaseKept DEF IInv

LEMMA EmitterStopsIInv ==
  ASSUME IInv, NEW r \in Replicas, EmitterStops(r)
  PROVE  IInv'
<1> USE DEF EmitterStops, lease, world
<1>1. TypeOK'
  BY DEF IInv, TypeOK, Stages
<1>2. \A s \in Replicas : Leads(s)' => Leads(s)
  BY DEF IInv, TypeOK, Leads, Exports
<1>3. ExportersRun'
  BY DEF IInv, TypeOK, ExportersRun
<1>4. QED
  BY <1>1, <1>2, <1>3, LeaseKept DEF IInv

(* Whoever returns from leading still leads, and whoever returns from      *)
(* standby exports nothing.                                                *)
LEMMA ReturnsIInv ==
  ASSUME IInv, NEW r \in Replicas, Returns(r)
  PROVE  IInv'
<1> USE DEF Returns, lease, world
<1>1. pc[r] \in {"standby", "leading"}
  BY DEF Done, LeaseLost
<1>2. TypeOK'
  BY <1>1 DEF IInv, TypeOK, Stages
<1>3. \A s \in Replicas : Leads(s)' => Leads(s)
  BY <1>1 DEF IInv, TypeOK, ExportersRun, Leads, Exports
<1>4. ExportersRun'
  BY <1>1 DEF IInv, TypeOK, ExportersRun
<1>5. QED
  BY <1>2, <1>3, <1>4, LeaseKept DEF IInv

LEMMA ShutdownIInv ==
  ASSUME IInv, NEW r \in Replicas, Shutdown(r) \/ ShutdownReturns(r)
  PROVE  IInv'
<1> USE DEF Shutdown, ShutdownReturns, lease, world
<1>1. TypeOK'
  BY LifecycleAssumption DEF IInv, TypeOK, Stages
<1>2. \A s \in Replicas : Leads(s)' => Leads(s)
  BY DEF IInv, TypeOK, Leads, Exports
<1>3. ExportersRun'
  BY DEF IInv, TypeOK, ExportersRun
<1>4. QED
  BY <1>1, <1>2, <1>3, LeaseKept DEF IInv

LEMMA ScrapeIInv ==
  ASSUME IInv, NEW r \in Replicas, ScrapeBegins(r) \/ ScrapeEnds(r)
  PROVE  IInv'
<1> USE DEF ScrapeBegins, ScrapeEnds, lease, world
<1>1. TypeOK'
  BY DEF IInv, TypeOK, Stages
<1>2. \A s \in Replicas : Leads(s)' => Leads(s)
  BY DEF IInv, TypeOK, Leads, Exports
<1>3. ExportersRun'
  BY DEF IInv, TypeOK, ExportersRun
<1>4. QED
  BY <1>1, <1>2, <1>3, LeaseKept DEF IInv

LEMMA SignalIInv ==
  ASSUME IInv, NEW r \in Replicas, Signal(r)
  PROVE  IInv'
<1> USE DEF Signal, Fault, lease
<1>1. TypeOK'
  BY LifecycleAssumption DEF IInv, TypeOK, Stages
<1>2. \A s \in Replicas : Leads(s)' => Leads(s)
  BY DEF IInv, TypeOK, Leads, Exports
<1>3. ExportersRun'
  BY DEF IInv, TypeOK, ExportersRun
<1>4. QED
  BY <1>1, <1>2, <1>3, LeaseKept DEF IInv

(* A process ends by a fault, or because Run returns. *)
LEMMA FaultIInv ==
  ASSUME IInv, NEW r \in Replicas, ListenFails(r) \/ Killed(r)
  PROVE  IInv'
<1>1. PICK how \in {"exited", "killed"} : Ends(r, how)
  BY DEF ListenFails, Killed
<1>2. outage' \in BOOLEAN /\ faults' \in 0..MaxFaults /\ UNCHANGED <<lease, leaderElect>>
  BY LifecycleAssumption DEF ListenFails, Killed, Fault, IInv, TypeOK
<1>3. QED
  BY <1>1, <1>2, EndsIInv

LEMMA ExitIInv ==
  ASSUME IInv, NEW r \in Replicas, Exit(r)
  PROVE  IInv'
<1>1. Ends(r, "exited") /\ UNCHANGED <<lease, world>>
  BY DEF Exit
<1>2. outage' \in BOOLEAN /\ faults' \in 0..MaxFaults /\ UNCHANGED <<lease, leaderElect>>
  BY <1>1 DEF world, IInv, TypeOK
<1>3. QED
  BY <1>1, <1>2, EndsIInv

----------------------------------------------------------------------------
(* The lease.  Nobody can take it from a replica that leads: whoever has   *)
(* seen the lease since it was written has to wait longer.                 *)
LEMMA OnlyFromTheDead ==
  ASSUME IInv, leaderElect, NEW r \in Replicas, NEW s \in Replicas,
         pc[r] = "standby", MayTake(r), Leads(s)
  PROVE  FALSE
<1>1. holder = s /\ s # r
  BY DEF IInv, TypeOK, LeaderHolds, ExportersRun, Leads, Exports
<1>2. holder # Nobody
  BY <1>1, LifecycleAssumption
<1>3. CASE changed[r]
  BY <1>2, <1>3, LifecycleAssumption DEF MayTake, SeesLease
<1>4. CASE ~changed[r]
  <2>1. leaseLeft[r] > renewLeft[s] /\ renewLeft[s] \in Nat
    BY <1>1, <1>4, LifecycleAssumption DEF IInv, TypeOK, HeldLongEnough
  <2>2. leaseLeft[r] = 0
    BY <1>2, <1>4 DEF MayTake, SeesLease
  <2>3. QED
    BY <2>1, <2>2
<1>5. QED
  BY <1>3, <1>4

LEMMA TryAcquireIInv ==
  ASSUME IInv, NEW r \in Replicas, tryAcquire(r)
  PROVE  IInv'
<1> USE DEF tryAcquire, world
<1>1. leaderElect' = leaderElect
  OBVIOUS
<1>2. CASE MayTake(r)
  <2>1. TypeOK'
    <3>1. /\ holder' = r /\ changed' = Written(r) /\ UNCHANGED leaseLeft
          /\ renewLeft' = [renewLeft EXCEPT ![r] = RenewDeadline + RetryPeriod]
          /\ pc' = [pc EXCEPT ![r] = "leading"]
      BY <1>2
    <3>2. RenewDeadline + RetryPeriod \in 0..(RenewDeadline + RetryPeriod)
      BY LifecycleAssumption
    <3>3. renewLeft' \in [Replicas -> 0..(RenewDeadline + RetryPeriod)]
      BY <3>1, <3>2 DEF IInv, TypeOK
    <3>4. pc' \in [Replicas -> Stages] /\ changed' \in [Replicas -> BOOLEAN]
      BY <3>1 DEF IInv, TypeOK, Stages, Written
    <3>5. \A s \in Replicas : server'[s] # "down" => pc'[s] \in {"leading", "returning"}
      BY <3>1 DEF IInv, TypeOK
    <3>6. QED
      BY <3>1, <3>3, <3>4, <3>5 DEF IInv, TypeOK
  <2>2. leaderElect => \A s \in Replicas : Leads(s)' => s = r
    <3> SUFFICES ASSUME leaderElect, NEW s \in Replicas, s # r, Leads(s)' PROVE FALSE
      OBVIOUS
    <3>1. Leads(s)
      BY <1>2 DEF IInv, TypeOK, Leads, Exports
    <3>2. QED
      BY <1>2, <3>1, OnlyFromTheDead
  <2>3. LeaderHolds'
    BY <1>2, <2>2 DEF LeaderHolds
  <2>4. HeldLongEnough'
    BY <1>2, <2>2 DEF HeldLongEnough, Written
  <2>5. ExportersRun'
    BY <1>2 DEF IInv, TypeOK, ExportersRun
  <2>6. QED
    BY <2>1, <2>3, <2>4, <2>5 DEF IInv
<1>3. CASE ~MayTake(r)
  <2>1. changed[r] /\ leaseLeft' = [leaseLeft EXCEPT ![r] = LeaseDuration]
        /\ changed' = [changed EXCEPT ![r] = FALSE] /\ UNCHANGED <<holder, renewLeft, pc>>
    BY <1>3 DEF SeesLease
  <2>2. TypeOK'
    BY <2>1, LifecycleAssumption DEF IInv, TypeOK
  <2>3. \A s \in Replicas : Leads(s)' <=> Leads(s)
    BY <2>1 DEF Leads, Exports
  <2>4. LeaderHolds'
    BY <2>1, <2>3 DEF IInv, LeaderHolds
  <2>5. HeldLongEnough'
    <3> SUFFICES ASSUME leaderElect, NEW s \in Replicas, NEW t \in Replicas,
                        Leads(s), t # s, ~changed'[t]
                 PROVE  leaseLeft'[t] > renewLeft[s]
      BY <2>1, <2>3 DEF HeldLongEnough
    <3>1. renewLeft[s] \in 0..(RenewDeadline + RetryPeriod)
      BY DEF IInv, TypeOK
    <3>2. CASE t = r
      BY <2>1, <3>1, <3>2, LifecycleAssumption DEF IInv, TypeOK
    <3>3. CASE t # r
      BY <2>1, <3>3 DEF IInv, TypeOK, HeldLongEnough
    <3>4. QED
      BY <3>2, <3>3
  <2>6. ExportersRun'
    BY <2>1 DEF IInv, ExportersRun
  <2>7. QED
    BY <2>2, <2>4, <2>5, <2>6 DEF IInv
<1>4. QED
  BY <1>2, <1>3

LEMMA RenewIInv ==
  ASSUME IInv, NEW r \in Replicas, renew(r)
  PROVE  IInv'
<1> USE DEF renew, process, world
<1>1. TypeOK'
  BY LifecycleAssumption DEF IInv, TypeOK, Written
<1>2. \A s \in Replicas : Leads(s)' => Leads(s) /\ s = r
  BY DEF IInv, LeaderHolds, Leads, Exports
<1>3. LeaderHolds'
  BY <1>2 DEF LeaderHolds
<1>4. HeldLongEnough'
  BY <1>2 DEF HeldLongEnough, Written
<1>5. ExportersRun'
  BY DEF IInv, ExportersRun
<1>6. QED
  BY <1>1, <1>3, <1>4, <1>5 DEF IInv

LEMMA RestartedIInv ==
  ASSUME IInv, NEW r \in Replicas, Restarted(r)
  PROVE  IInv'
<1> USE DEF Restarted, Alive, world
<1>1. TypeOK'
  BY LifecycleAssumption DEF IInv, TypeOK, Stages
<1>2. \A s \in Replicas : Leads(s)' => Leads(s) /\ s # r
  BY DEF IInv, TypeOK, ExportersRun, Leads, Exports
<1>3. LeaderHolds'
  BY <1>2 DEF IInv, LeaderHolds
<1>4. HeldLongEnough'
  BY <1>2 DEF IInv, TypeOK, HeldLongEnough
<1>5. ExportersRun'
  BY DEF IInv, TypeOK, ExportersRun
<1>6. QED
  BY <1>1, <1>3, <1>4, <1>5 DEF IInv

LEMMA OutageIInv ==
  ASSUME IInv, OutageStarts \/ OutageEnds
  PROVE  IInv'
<1> USE DEF OutageStarts, OutageEnds, Fault, process, lease
<1>1. TypeOK'
  <2>1. outage' \in BOOLEAN /\ faults' \in 0..MaxFaults
    <3>1. faults \in 0..MaxFaults /\ MaxFaults \in Nat
      BY LifecycleAssumption DEF IInv, TypeOK
    <3>2. faults' = faults \/ (faults < MaxFaults /\ faults' = faults + 1)
      <4>1. CASE OutageStarts
        BY <4>1
      <4>2. CASE OutageEnds
        BY <4>2
      <4>3. QED
        BY <4>1, <4>2
    <3>3. faults' \in 0..MaxFaults
      BY <3>1, <3>2
    <3>4. outage' = TRUE \/ outage' = FALSE
      OBVIOUS
    <3>5. QED
      BY <3>3, <3>4
  <2>2. UNCHANGED <<process, lease, leaderElect>>
    OBVIOUS
  <2>3. QED
    BY <2>1, <2>2 DEF IInv, TypeOK
<1>2. \A s \in Replicas : Leads(s)' => Leads(s)
  BY DEF Leads, Exports
<1>3. ExportersRun'
  BY DEF IInv, ExportersRun
<1>4. QED
  BY <1>1, <1>2, <1>3, LeaseKept DEF IInv

(* Time passes only while everybody who leads has time left to renew. *)
LEMMA TickIInv == IInv /\ Tick => IInv'
<1> SUFFICES ASSUME IInv, Tick PROVE IInv'
  OBVIOUS
<1> USE DEF Tick, world
<1>1. TypeOK'
  BY LifecycleAssumption DEF IInv, TypeOK, Less
<1>2. \A s \in Replicas : Leads(s)' <=> Leads(s)
  BY DEF Leads, Exports
<1>3. LeaderHolds'
  BY <1>2 DEF IInv, LeaderHolds
<1>4. HeldLongEnough'
  <2> SUFFICES ASSUME leaderElect, NEW r \in Replicas, NEW s \in Replicas,
                      Leads(r), s # r, ~changed[s]
               PROVE  leaseLeft'[s] > renewLeft'[r]
    BY <1>2 DEF HeldLongEnough
  <2>1. leaseLeft[s] > renewLeft[r]
    BY DEF IInv, HeldLongEnough
  <2>2. renewLeft[r] \in Nat /\ leaseLeft[s] \in Nat
    BY LifecycleAssumption DEF IInv, TypeOK
  <2>3. ~ReturnsFromRun(r) /\ ~LeaseLost(r)
    BY DEF Due, Done
  <2>4. pc[r] = "leading"
    BY <2>3 DEF ReturnsFromRun, Leads
  <2>5. renewLeft[r] > 0
    BY <2>2, <2>3, <2>4 DEF LeaseLost
  <2>6. leaseLeft'[s] = leaseLeft[s] - 1 /\ renewLeft'[r] = renewLeft[r] - 1
    BY <2>1, <2>2, <2>5 DEF Less
  <2>7. QED
    BY <2>1, <2>2, <2>6
<1>5. ExportersRun'
  BY DEF IInv, TypeOK, ExportersRun, Less
<1>6. QED
  BY <1>1, <1>3, <1>4, <1>5 DEF IInv

LEMMA NextIInv == IInv /\ [Next]_vars => IInv'
<1> SUFFICES ASSUME IInv, [Next]_vars PROVE IInv'
  OBVIOUS
<1>1. ASSUME NEW r \in Replicas, Run(r) \/ WarmUpFails(r) \/ ListenFails(r)
      PROVE  IInv'
  BY <1>1, WarmUpIInv, RunIInv, EmitterStopsIInv, ReturnsIInv, ShutdownIInv, ExitIInv,
     WarmUpFailsIInv, FaultIInv DEF Run
<1>2. ASSUME NEW r \in Replicas, tryAcquire(r) \/ renew(r)
      PROVE  IInv'
  BY <1>2, TryAcquireIInv, RenewIInv
<1>3. ASSUME NEW r \in Replicas,
             ScrapeBegins(r) \/ ScrapeEnds(r) \/ Signal(r) \/ Killed(r) \/ Restarted(r)
      PROVE  IInv'
  BY <1>3, ScrapeIInv, SignalIInv, FaultIInv, RestartedIInv
<1>4. CASE OutageStarts \/ OutageEnds
  BY <1>4, OutageIInv
<1>5. CASE Tick
  BY <1>5, TickIInv
<1>6. CASE UNCHANGED vars
  BY <1>6 DEF vars, process, lease, world, IInv, TypeOK, LeaderHolds, HeldLongEnough,
              ExportersRun, Leads, Exports
<1>7. QED
  BY <1>1, <1>2, <1>3, <1>4, <1>5, <1>6 DEF Next

----------------------------------------------------------------------------
(* A replica that leads holds the lease, and everybody who knows the lease *)
(* waits longer than it goes on: for any timeouts in that order.           *)
THEOREM LeadersHoldTheLease == Spec => []IInv
<1>1. IInv /\ [Next]_vars => IInv'
  BY NextIInv
<1>2. QED
  BY InitIInv, <1>1, PTL DEF Spec

(* Metrics do not allow multiple instances at the same time: of the        *)
(* replicas that elect a leader at most one emits or serves.               *)
THEOREM OneReplicaExports == Spec => []OneExporter
<1>1. IInv => OneExporter
  <2> SUFFICES ASSUME IInv, leaderElect, NEW r \in Replicas, NEW s \in Replicas,
                      Exports(r), Exports(s)
               PROVE  r = s
    BY DEF OneExporter
  <2>1. Leads(r) /\ Leads(s)
    BY DEF IInv, TypeOK, ExportersRun, Leads, Exports
  <2>2. QED
    BY <2>1 DEF IInv, LeaderHolds
<1>2. QED
  BY LeadersHoldTheLease, <1>1, PTL

(* Without election a process that ends by itself has waited for the       *)
(* scrapes it was answering, as long as it allows itself to.               *)
THEOREM ShutdownWaits == Spec => GracefulShutdown
<1>1. IInv /\ [Next]_vars =>
        [\A r \in Replicas :
           ~leaderElect /\ pc[r] # "exited" /\ pc'[r] = "exited" /\ scrapes[r] =>
              server[r] = "closed" /\ shutdownLeft[r] = 0]_vars
  <2> SUFFICES ASSUME IInv, Next, NEW r \in Replicas,
                      ~leaderElect, pc[r] # "exited", pc'[r] = "exited", scrapes[r]
               PROVE  server[r] = "closed" /\ shutdownLeft[r] = 0
    OBVIOUS
  <2>1. server[r] # "down" /\ pc[r] \in {"leading", "returning"}
    BY DEF IInv, TypeOK, ExportersRun
  <2>2. ~ListenFails(r)
    BY <2>1 DEF ListenFails, IInv, ExportersRun
  <2>3. \A s \in Replicas : tryAcquire(s) => UNCHANGED pc \/ pc' = [pc EXCEPT ![s] = "leading"]
    BY DEF tryAcquire
  <2>4. Exit(r)
    <3>1. ASSUME NEW s \in Replicas, Run(s) \/ WarmUpFails(s) \/ ListenFails(s)
          PROVE  Exit(r)
      BY <2>1, <2>2, <3>1 DEF Run, WarmUpFails, ListenFails, WarmUp, Ends, run, EmitterStops,
                              Returns, Shutdown, ShutdownReturns, Exit, IInv, TypeOK
    <3>2. ASSUME NEW s \in Replicas, tryAcquire(s) \/ renew(s)
          PROVE  Exit(r)
      BY <2>3, <3>2 DEF renew, process, IInv, TypeOK
    <3>3. ASSUME NEW s \in Replicas,
                 ScrapeBegins(s) \/ ScrapeEnds(s) \/ Signal(s) \/ Killed(s) \/ Restarted(s)
          PROVE  Exit(r)
      BY <3>3 DEF ScrapeBegins, ScrapeEnds, Signal, Killed, Ends, Restarted, IInv, TypeOK
    <3>4. CASE OutageStarts \/ OutageEnds \/ Tick
      BY <3>4 DEF OutageStarts, OutageEnds, Tick, process
    <3>5. QED
      BY <3>1, <3>2, <3>3, <3>4 DEF Next
  <2>5. server[r] = "closed"
    BY <2>1, <2>4 DEF Exit, ReturnsFromRun
  <2>6. QED
    BY <2>5 DEF IInv, ExportersRun
<1>2. QED
  BY LeadersHoldTheLease, <1>1, PTL DEF Spec, GracefulShutdown
=============================================================================
