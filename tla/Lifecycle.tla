------------------------------ MODULE Lifecycle ------------------------------
(***************************************************************************)
(* The life of the exporter's processes: Run of cmd/fadvisor/app with the  *)
(* callbacks it gives to the leader elector, and Serve of the HTTP server. *)
(* Several replicas run; each warms its price cache, then waits for the    *)
(* lease; the one that holds it emits metrics and serves scrapes.  A       *)
(* process that loses the lease ends, and is started again by Kubernetes   *)
(* under a new identity, for which it has to wait like any other.          *)
(*                                                                         *)
(* The elector is that of client-go.  It reads the lease every RetryPeriod *)
(* and takes it over when it has seen no change for LeaseDuration.  The    *)
(* holder renews it every RetryPeriod, and gives up when it has not        *)
(* managed to within RenewDeadline.  Timers count down; time does not pass *)
(* while something is due.                                                 *)
(***************************************************************************)
EXTENDS Integers, FiniteSets

CONSTANTS
    Replicas,
    Nobody, Former,    \* holders of the lease that no longer run: none, a dead process
    LeaseDuration, RenewDeadline, RetryPeriod,
    ShutdownTimeout,   \* how long Shutdown waits for connections
    MaxFaults          \* bound on signals, kills and outages

ASSUME LifecycleAssumption ==
    /\ Nobody # Former /\ {Nobody, Former} \cap Replicas = {}
    /\ {LeaseDuration, RenewDeadline, RetryPeriod, ShutdownTimeout} \subseteq Nat \ {0}
    /\ LeaseDuration > RenewDeadline + RetryPeriod
    /\ MaxFaults \in Nat

VARIABLES
    leaderElect, \* --leader-elect, the same for all
    pc,          \* where Run is in each process
    ctxDone,     \* has the context of the process been cancelled?
    emitting,    \* does metricEmitter.Start run?
    server,      \* the state of the HTTP server
    scrapes,     \* is a scrape being answered?
    shutdownLeft,   \* until Shutdown gives up
    holder,      \* the lease: who holds it, if anybody
    changed,     \* has the lease changed since this replica last read it?
    leaseLeft,   \* until this replica takes the lease for expired
    renewLeft,   \* until this leader gives up
    outage,      \* is the API server out of reach?
    faults       \* how many faults have occurred

lease == <<holder, changed, leaseLeft, renewLeft>>
process == <<pc, ctxDone, emitting, server, scrapes, shutdownLeft>>
world == <<leaderElect, outage, faults>>
vars == <<process, lease, world>>

\* warming: in WarmUp; standby: in the elector, without the lease; leading:
\* with it, or in run without election; returning: on the way out of Run.
Stages == {"warming", "standby", "leading", "returning", "exited", "killed"}
Alive(r) == pc[r] \notin {"exited", "killed"}

Init ==
    /\ leaderElect \in BOOLEAN
    /\ pc = [r \in Replicas |-> "warming"]
    /\ ctxDone = [r \in Replicas |-> FALSE]
    /\ emitting = [r \in Replicas |-> FALSE]
    /\ server = [r \in Replicas |-> "down"]
    /\ scrapes = [r \in Replicas |-> FALSE]
    /\ shutdownLeft = [r \in Replicas |-> 0]
    /\ holder = Nobody
    /\ changed = [r \in Replicas |-> TRUE]
    /\ leaseLeft = [r \in Replicas |-> 0]
    /\ renewLeft = [r \in Replicas |-> 0]
    /\ outage \in BOOLEAN
    /\ faults = 0

----------------------------------------------------------------------------
(* The process is gone, with all that ran in it. *)
Ends(r, how) ==
    /\ pc' = [pc EXCEPT ![r] = how]
    /\ ctxDone' = [ctxDone EXCEPT ![r] = FALSE]
    /\ emitting' = [emitting EXCEPT ![r] = FALSE]
    /\ server' = [server EXCEPT ![r] = "down"]
    /\ scrapes' = [scrapes EXCEPT ![r] = FALSE]
    /\ shutdownLeft' = [shutdownLeft EXCEPT ![r] = 0]

Fault == faults < MaxFaults /\ faults' = faults + 1

(* Before the election; without it, on to run. *)
WarmUp(r, ok) ==
    /\ pc[r] = "warming"
    /\ ok \/ outage
    /\ IF ok THEN /\ pc' = [pc EXCEPT ![r] = IF leaderElect THEN "standby" ELSE "leading"]
                  /\ UNCHANGED <<ctxDone, emitting, server, scrapes, shutdownLeft>>
             ELSE Ends(r, "exited")
    /\ UNCHANGED <<lease, world>>

\* Mutant: the callback runs before the lease is there.
RunsOnStandby(r) ==
    /\ pc[r] \in {"standby", "leading"}
    /\ ~emitting[r]
    /\ ~ctxDone[r]
    /\ emitting' = [emitting EXCEPT ![r] = TRUE]
    /\ server' = [server EXCEPT ![r] = "serving"]
    /\ UNCHANGED <<pc, ctxDone, scrapes, shutdownLeft, lease, world>>
(* The callback OnStartedLeading, or run itself. *)
run(r) ==
    /\ pc[r] = "leading"
    /\ ~emitting[r]
    /\ ~ctxDone[r]
    /\ emitting' = [emitting EXCEPT ![r] = TRUE]
    /\ server' = [server EXCEPT ![r] = "serving"]
    /\ UNCHANGED <<pc, ctxDone, scrapes, shutdownLeft, lease, world>>
(* Listen fails, and the process exits with the emitter just started. *)
ListenFails(r) ==
    /\ Fault
    /\ pc[r] = "leading" /\ ~emitting[r] /\ ~ctxDone[r]
    /\ Ends(r, "exited")
    /\ UNCHANGED <<lease, leaderElect, outage>>

(* metricEmitter.Start listens to the context of the program alone.        *)
EmitterStops(r) ==
    /\ emitting[r] /\ ctxDone[r]
    /\ emitting' = [emitting EXCEPT ![r] = FALSE]
    /\ UNCHANGED <<pc, ctxDone, server, scrapes, shutdownLeft, lease, world>>

(* The elector returns: the context of the program is cancelled, or the    *)
(* lease is lost.  This cancels the context of the callback, too.  Without *)
(* election it is run that sees its context cancelled.                     *)
LeaseLost(r) == leaderElect /\ pc[r] = "leading" /\ renewLeft[r] = 0
Done(r) == LeaseLost(r) \/ (ctxDone[r] /\ pc[r] \in {"standby", "leading"})
Returns(r) ==
    /\ Done(r)
    /\ pc' = [pc EXCEPT ![r] = "returning"]
    /\ UNCHANGED <<ctxDone, emitting, server, scrapes, shutdownLeft, lease, world>>

(* The first goroutine of Serve, once the context of the callback is done. *)
Shutdown(r) ==
    /\ pc[r] = "returning" \/ ctxDone[r]
    /\ server[r] = "serving"
    /\ server' = [server EXCEPT ![r] = "draining"]
    /\ shutdownLeft' = [shutdownLeft EXCEPT ![r] = ShutdownTimeout]
    /\ UNCHANGED <<pc, ctxDone, emitting, scrapes, lease, world>>
\* Mutant: Shutdown has no timeout.
WaitsForScrapes(r) ==
    /\ server[r] = "draining"
    /\ ~scrapes[r]
    /\ server' = [server EXCEPT ![r] = "closed"]
    /\ UNCHANGED <<pc, ctxDone, emitting, scrapes, shutdownLeft, lease, world>>
ShutdownReturns(r) ==
    /\ server[r] = "draining"
    /\ ~scrapes[r] \/ shutdownLeft[r] = 0
    /\ server' = [server EXCEPT ![r] = "closed"]
    /\ UNCHANGED <<pc, ctxDone, emitting, scrapes, shutdownLeft, lease, world>>

\* Mutants: Run waits for the server in any case; it never does.
WaitsForServer(r) == pc[r] = "returning" /\ server[r] \in {"down", "closed"}
WaitsForNothing(r) == pc[r] = "returning"
(* Run returns.  Without election, run has waited for the server; with it,  *)
(* the elector has not waited for the callback, and the process ends.      *)
ReturnsFromRun(r) ==
    /\ pc[r] = "returning"
    /\ leaderElect \/ server[r] \in {"down", "closed"}
Exit(r) ==
    /\ ReturnsFromRun(r)
    /\ Ends(r, "exited")
    /\ UNCHANGED <<lease, world>>

Run(r) ==
    \/ WarmUp(r, TRUE)
    \/ run(r) \/ EmitterStops(r) \/ Returns(r)
    \/ Shutdown(r) \/ ShutdownReturns(r) \/ Exit(r)
WarmUpFails(r) == WarmUp(r, FALSE)

----------------------------------------------------------------------------
(* The elector.  A read that finds the lease changed starts the clock anew.*)
SeesLease(r) == IF changed[r] THEN LeaseDuration ELSE leaseLeft[r]
MayTake(r) == holder = Nobody \/ SeesLease(r) = 0
Written(r) == [s \in Replicas |-> s # r]

tryAcquire(r) ==
    /\ pc[r] = "standby"
    /\ ~outage
    /\ MayTake(r) \/ changed[r]
    /\ IF MayTake(r)
       THEN /\ holder' = r
            /\ changed' = Written(r)
            /\ renewLeft' = [renewLeft EXCEPT ![r] = RenewDeadline + RetryPeriod]
            /\ pc' = [pc EXCEPT ![r] = "leading"]
            /\ UNCHANGED leaseLeft
       ELSE /\ leaseLeft' = [leaseLeft EXCEPT ![r] = SeesLease(r)]
            /\ changed' = [changed EXCEPT ![r] = FALSE]
            /\ UNCHANGED <<holder, renewLeft, pc>>
    /\ UNCHANGED <<ctxDone, emitting, server, scrapes, shutdownLeft, world>>

renew(r) ==
    /\ leaderElect
    /\ pc[r] = "leading"
    /\ holder = r
    /\ ~outage
    /\ renewLeft[r] \in 1..RenewDeadline
    /\ renewLeft' = [renewLeft EXCEPT ![r] = RenewDeadline + RetryPeriod]
    /\ changed' = Written(r)
    /\ UNCHANGED <<process, holder, leaseLeft, world>>

----------------------------------------------------------------------------
(* Prometheus scrapes whoever serves; how long an answer takes is up to    *)
(* the one who reads it.                                                   *)
ScrapeBegins(r) ==
    /\ server[r] = "serving"
    /\ ~scrapes[r]
    /\ scrapes' = [scrapes EXCEPT ![r] = TRUE]
    /\ UNCHANGED <<pc, ctxDone, emitting, server, shutdownLeft, lease, world>>
ScrapeEnds(r) ==
    /\ scrapes[r]
    /\ scrapes' = [scrapes EXCEPT ![r] = FALSE]
    /\ UNCHANGED <<pc, ctxDone, emitting, server, shutdownLeft, lease, world>>

Signal(r) ==
    /\ Fault
    /\ Alive(r)
    /\ ~ctxDone[r]
    /\ ctxDone' = [ctxDone EXCEPT ![r] = TRUE]
    /\ UNCHANGED <<pc, emitting, server, scrapes, shutdownLeft, lease, leaderElect, outage>>
Killed(r) ==
    /\ Fault
    /\ Alive(r)
    /\ Ends(r, "killed")
    /\ UNCHANGED <<lease, leaderElect, outage>>
(* The kubelet starts a new process, with an identity of its own.          *)
Restarted(r) ==
    /\ ~Alive(r)
    /\ pc' = [pc EXCEPT ![r] = "warming"]
    /\ holder' = IF holder = r THEN Former ELSE holder
    /\ changed' = [changed EXCEPT ![r] = TRUE]
    /\ leaseLeft' = [leaseLeft EXCEPT ![r] = 0]
    /\ renewLeft' = [renewLeft EXCEPT ![r] = 0]
    /\ UNCHANGED <<ctxDone, emitting, server, scrapes, shutdownLeft, world>>
OutageStarts ==
    /\ Fault
    /\ ~outage /\ outage' = TRUE
    /\ UNCHANGED <<process, lease, leaderElect>>
OutageEnds ==
    /\ outage /\ outage' = FALSE
    /\ UNCHANGED <<process, lease, leaderElect, faults>>

(* Time passes, but not past a timer that has run out, nor past a retry    *)
(* that is due and would succeed, nor while a process is on its way out.   *)
Less(f) == [r \in Replicas |-> IF f[r] > 0 THEN f[r] - 1 ELSE 0]
Due(r) ==
    \/ ReturnsFromRun(r)
    \/ Done(r)
    \/ pc[r] = "returning" /\ server[r] = "serving"
    \/ server[r] = "draining" /\ shutdownLeft[r] = 0
    \/ ctxDone[r] /\ emitting[r]
    \/ /\ pc[r] = "leading" /\ holder = r /\ ~outage
       /\ renewLeft[r] <= RenewDeadline - RetryPeriod
Tick ==
    /\ \A r \in Replicas : ~Due(r)
    /\ leaseLeft' = Less(leaseLeft)
    /\ renewLeft' = Less(renewLeft)
    /\ shutdownLeft' = Less(shutdownLeft)
    /\ <<leaseLeft, renewLeft, shutdownLeft>>' # <<leaseLeft, renewLeft, shutdownLeft>>
    /\ UNCHANGED <<pc, ctxDone, emitting, server, scrapes, holder, changed, world>>

Next ==
    \/ \E r \in Replicas :
          \/ Run(r) \/ WarmUpFails(r) \/ ListenFails(r) \/ tryAcquire(r) \/ renew(r)
          \/ ScrapeBegins(r) \/ ScrapeEnds(r)
          \/ Signal(r) \/ Killed(r) \/ Restarted(r)
    \/ OutageStarts \/ OutageEnds \/ Tick
Spec == Init /\ [][Next]_vars

(* Goroutines run, the elector retries, the kubelet restarts, outages end, *)
(* time passes.  No scrape has to end.                                     *)
Fairness ==
    /\ \A r \in Replicas : /\ WF_vars(Run(r)) /\ WF_vars(tryAcquire(r))
                           /\ WF_vars(renew(r)) /\ WF_vars(Restarted(r))
    /\ WF_vars(OutageEnds) /\ WF_vars(Tick)
FairSpec == Spec /\ Fairness

----------------------------------------------------------------------------
TypeOK ==
    /\ leaderElect \in BOOLEAN
    /\ pc \in [Replicas -> Stages]
    /\ ctxDone \in [Replicas -> BOOLEAN]
    /\ emitting \in [Replicas -> BOOLEAN]
    /\ server \in [Replicas -> {"down", "serving", "draining", "closed"}]
    /\ \A r \in Replicas : server[r] # "down" => pc[r] \in {"leading", "returning"}
    /\ scrapes \in [Replicas -> BOOLEAN]
    /\ shutdownLeft \in [Replicas -> 0..ShutdownTimeout]
    /\ holder \in Replicas \cup {Nobody, Former}
    /\ changed \in [Replicas -> BOOLEAN]
    /\ leaseLeft \in [Replicas -> 0..LeaseDuration]
    /\ renewLeft \in [Replicas -> 0..(RenewDeadline + RetryPeriod)]
    /\ outage \in BOOLEAN
    /\ faults \in 0..MaxFaults

(* What the moments of a lease have in common.  A process that leads, or   *)
(* has led and still exports, holds the lease, and every replica that has  *)
(* read it since will take it for expired only after that one has given    *)
(* up: time does not pass while it is on its way out.                      *)
Exports(r) == emitting[r] \/ server[r] = "serving"
Leads(r) == pc[r] = "leading" \/ (pc[r] = "returning" /\ Exports(r))
LeaderHolds == leaderElect => \A r \in Replicas : Leads(r) => holder = r
HeldLongEnough == leaderElect =>
    \A r, s \in Replicas : Leads(r) /\ s # r /\ ~changed[s] => leaseLeft[s] > renewLeft[r]
(* Only the process that runs exports, and what is left of it when its     *)
(* emitter has stopped is on the way out; a scrape that is cut short has   *)
(* been waited for.                                                        *)
ExportersRun == \A r \in Replicas :
    /\ emitting[r] => pc[r] \in {"leading", "returning"}
    /\ server[r] # "down" => emitting[r] \/ ctxDone[r]
    /\ scrapes[r] => server[r] # "down"
    /\ scrapes[r] /\ server[r] = "closed" => shutdownLeft[r] = 0
IInv == TypeOK /\ LeaderHolds /\ HeldLongEnough /\ ExportersRun

(* "metrics do not allow multiple instances at the same time": at most one *)
(* of the replicas that elect a leader emits or serves.  The emitter       *)
(* listens to the context of the program and not to that of the lease, so  *)
(* that this rests on the end of the process coming before the lease is    *)
(* anybody else's.                                                         *)
OneExporter == leaderElect => \A r, s \in Replicas : Exports(r) /\ Exports(s) => r = s

(* "Shutdown server gracefully": without election a process that ends by   *)
(* itself has let the scrapes it was answering end, or has waited for them *)
(* as long as it allows itself to.  With election it has not: the elector  *)
(* returns, and the process ends, while Shutdown has yet to begin.         *)
GracefulShutdown ==
    [][\A r \in Replicas :
         ~leaderElect /\ pc[r] # "exited" /\ pc'[r] = "exited" /\ scrapes[r] =>
            server[r] = "closed" /\ shutdownLeft[r] = 0]_vars

(* Exporting resumes: once there are no more faults, one replica comes to  *)
(* lead, emits and serves, and goes on for ever.                           *)
SomeExporter == \E r \in Replicas : emitting[r] /\ server[r] = "serving"
ExportingResumes == <>[]SomeExporter
=============================================================================
