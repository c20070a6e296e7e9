----------------------------- MODULE RateLimit -----------------------------
(***************************************************************************)
(* The rate-limited Prometheus client, pkg/datasource-providers/prom:      *)
(* prometheusRateLimitClient.Do, which brackets every HTTP request with    *)
(* increaseInFightWait and decreaseInFlightSignal.  The two share a        *)
(* counter and a sync.Cond under one mutex.  Each critical section is one  *)
(* step; the one place where a critical section is split is cond.Wait,     *)
(* which queues the goroutine, releases the mutex, and takes it again only *)
(* some time after a Signal.                                               *)
(*                                                                         *)
(* sync.Cond keeps its waiters in the order of their tickets (notifyList)  *)
(* and Signal wakes the oldest one.                                        *)
(***************************************************************************)
EXTENDS Naturals, Sequences, FiniteSets

CONSTANTS Requests,     \* the goroutines that call Do
          maxInFlight   \* --prometheus-query-concurrency

ASSUME RateLimitAssumption ==
    /\ IsFiniteSet(Requests)
    /\ maxInFlight \in Nat

VARIABLES
    pc,               \* where each goroutine is with respect to Do
    ctxDone,          \* has the context of the goroutine's call expired?
    currentInFlight,  \* mfc.currentInFlight
    notifyList        \* the waiters of mfc.cond, the oldest first

limiter == <<pc, ctxDone, currentInFlight, notifyList>>

\* idle: outside Do; waiting: in cond.Wait, not signalled; signalled: in
\* cond.Wait, signalled, has yet to take the mutex again; inflight: in
\* pc.client.Do, between the two brackets.
PC == {"idle", "waiting", "signalled", "inflight"}

LimiterInit ==
    /\ pc = [r \in Requests |-> "idle"]
    /\ ctxDone = [r \in Requests |-> FALSE]
    /\ currentInFlight = 0
    /\ notifyList = <<>>

----------------------------------------------------------------------------
(* Does the caller that has just counted itself have to wait? *)
OneTooMany(n) == n > maxInFlight + 1   \* mutant: the test looks at the old count
OneTooFew(n) == n >= maxInFlight       \* mutant: the last slot is never used
OverLimit(n) == n > maxInFlight

\* Mutant: a caller that has to wait is not counted.
CountOnlyInFlight(r) ==
    /\ pc[r] = "idle"
    /\ IF OverLimit(currentInFlight + 1)
       THEN /\ pc' = [pc EXCEPT ![r] = "waiting"]
            /\ notifyList' = Append(notifyList, r)
            /\ UNCHANGED currentInFlight
       ELSE /\ pc' = [pc EXCEPT ![r] = "inflight"]
            /\ currentInFlight' = currentInFlight + 1
            /\ UNCHANGED notifyList
    /\ UNCHANGED ctxDone

(* Do, up to the end of increaseInFightWait or to its cond.Wait.  A fresh  *)
(* call comes with a context that has not expired yet.                     *)
increaseInFightWait(r) ==
    /\ pc[r] = "idle"
    /\ currentInFlight' = currentInFlight + 1
    /\ IF OverLimit(currentInFlight')
       THEN /\ pc' = [pc EXCEPT ![r] = "waiting"]
            /\ notifyList' = Append(notifyList, r)
       ELSE /\ pc' = [pc EXCEPT ![r] = "inflight"]
            /\ UNCHANGED notifyList
    /\ UNCHANGED ctxDone

(* cond.Wait returns: the goroutine takes the mutex again, does not look   *)
(* at the counter a second time, and goes on to the request.               *)
WaitReturns(r) ==
    /\ pc[r] = "signalled"
    /\ pc' = [pc EXCEPT ![r] = "inflight"]
    /\ UNCHANGED <<ctxDone, currentInFlight, notifyList>>

(* cond.Signal: the oldest waiter, if there is one, leaves the list. *)
Signalled(p) ==
    IF notifyList = <<>> THEN p ELSE [p EXCEPT ![Head(notifyList)] = "signalled"]
ListAfterSignal == IF notifyList = <<>> THEN <<>> ELSE Tail(notifyList)

\* Mutant: Signal only when the count has dropped below the limit.
SignalWhenBelowLimit(r) ==
    /\ pc[r] = "inflight"
    /\ currentInFlight' = currentInFlight - 1
    /\ IF currentInFlight' < maxInFlight
       THEN /\ pc' = Signalled([pc EXCEPT ![r] = "idle"])
            /\ notifyList' = ListAfterSignal
       ELSE /\ pc' = [pc EXCEPT ![r] = "idle"]
            /\ UNCHANGED notifyList
    /\ ctxDone' = [ctxDone EXCEPT ![r] = FALSE]

\* Mutant: a request whose context has expired returns early, past the Signal.
SkipSignalOnTimeout(r) ==
    /\ pc[r] = "inflight"
    /\ currentInFlight' = currentInFlight - 1
    /\ IF ctxDone[r]
       THEN /\ pc' = [pc EXCEPT ![r] = "idle"]
            /\ UNCHANGED notifyList
       ELSE /\ pc' = Signalled([pc EXCEPT ![r] = "idle"])
            /\ notifyList' = ListAfterSignal
    /\ ctxDone' = [ctxDone EXCEPT ![r] = FALSE]

(* The HTTP request ends, with an answer or an error, and the deferred     *)
(* decreaseInFlightSignal runs.                                            *)
decreaseInFlightSignal(r) ==
    /\ pc[r] = "inflight"
    /\ currentInFlight' = currentInFlight - 1
    /\ pc' = Signalled([pc EXCEPT ![r] = "idle"])
    /\ notifyList' = ListAfterSignal
    /\ ctxDone' = [ctxDone EXCEPT ![r] = FALSE]

(* The timeout that QueryTimeSeries and QueryLatestTimeSeries put on every *)
(* context fires.  The limiter never looks at the context.                 *)
CtxExpires(r) ==
    /\ pc[r] # "idle"
    /\ ~ctxDone[r]
    /\ ctxDone' = [ctxDone EXCEPT ![r] = TRUE]
    /\ UNCHANGED <<pc, currentInFlight, notifyList>>

LimiterNext ==
    \E r \in Requests :
        \/ increaseInFightWait(r)
        \/ WaitReturns(r)
        \/ decreaseInFlightSignal(r)
        \/ CtxExpires(r)

LimiterSpec == LimiterInit /\ [][LimiterNext]_limiter

(* Goroutines that can run are scheduled, timers fire, and a request whose *)
(* context has expired comes back.  Nothing obliges a request to come back *)
(* before that, nor a caller to call.                                      *)
LimiterFairness ==
    \A r \in Requests :
        /\ WF_limiter(WaitReturns(r))
        /\ WF_limiter(CtxExpires(r))
        /\ WF_limiter(ctxDone[r] /\ decreaseInFlightSignal(r))

LimiterFairSpec == LimiterSpec /\ LimiterFairness

----------------------------------------------------------------------------
InFlight == {r \in Requests : pc[r] = "inflight"}
Granted == {r \in Requests : pc[r] \in {"signalled", "inflight"}}
Waiting == {r \in Requests : pc[r] = "waiting"}

LimiterTypeOK ==
    /\ pc \in [Requests -> PC]
    /\ ctxDone \in [Requests -> BOOLEAN]
    /\ currentInFlight \in Nat
    /\ notifyList \in Seq(Requests)

(* The inductive invariant behind the properties below.  The counter is    *)
(* the number of slots granted plus the number of waiters, and there are   *)
(* waiters only when every slot is granted; this is why one look at the    *)
(* counter before the wait, and one Signal per return, are enough.         *)
ListIsWaiting == \A r \in Requests :
    pc[r] = "waiting" <=> \E i \in 1..Len(notifyList) : notifyList[i] = r
WaitsOnce == \A i, j \in 1..Len(notifyList) :
    notifyList[i] = notifyList[j] => i = j
CountExact == currentInFlight = Cardinality(Granted) + Len(notifyList)
GrantedBounded == Cardinality(Granted) <= maxInFlight
WaitOnlyWhenFull == notifyList # <<>> => Cardinality(Granted) = maxInFlight
IInv ==
    /\ LimiterTypeOK
    /\ ListIsWaiting
    /\ WaitsOnce
    /\ CountExact
    /\ GrantedBounded
    /\ WaitOnlyWhenFull

(* The limit is kept: never more than maxInFlight requests are in flight,  *)
(* although a signalled goroutine does not test the counter again and the  *)
(* counter also counts those that wait.                                    *)
LimitKept == Cardinality(InFlight) <= maxInFlight

(* No wakeup is lost: a goroutine waits only while every slot is taken by  *)
(* a request in flight or by a goroutine already signalled for it.         *)
NoLostWakeup == Waiting # {} => Cardinality(Granted) = maxInFlight

(* No overtaking: a goroutine that is granted a slot while others wait is  *)
(* the one that has waited longest, so that a newcomer whose increase      *)
(* comes between a Signal and the return of Wait cannot steal the slot.    *)
Overtakes(r) ==
    /\ r \notin Granted
    /\ r \in Granted'
    /\ notifyList # <<>>
    /\ r # Head(notifyList)
OldestFirst == \A r \in Requests : ~Overtakes(r)
NoOvertaking == [][OldestFirst]_limiter

(* Nobody is blocked for ever: when every caller's context has a timeout,  *)
(* as the comment above increaseInFightWait asks for, each blocked caller  *)
(* gets its slot.                                                          *)
BlockedIsServed == \A r \in Requests : pc[r] = "waiting" ~> pc[r] = "inflight"

(* The limiter is a counting semaphore with first-come-first-served        *)
(* hand-over, for its safety and for its progress.                         *)
Sem == INSTANCE Semaphore WITH
    Clients <- Requests, Permits <- maxInFlight,
    holders <- Granted, queue <- notifyList
ImplementsSemaphore == Sem!FairSpec
=============================================================================
