-------------------------- MODULE PrometheusProofs --------------------------
(***************************************************************************)
(* Proofs about the Prometheus data source.  The in-flight limiter, for    *)
(* every set of goroutines and every limit: the inductive invariant IInv,  *)
(* the safety properties that follow from it, and the implementation of    *)
(* the abstract semaphore.  Range queries and the proxies of the data      *)
(* sources, for any windows, limits, histories and names, whatever         *)
(* providers come and go.                                                  *)
(***************************************************************************)
EXTENDS RateLimit, DataSourceProxy, FiniteSetTheorems, WellFoundedInduction, TLAPS

(* The goroutines that hold a slot are a finite set. *)
LEMMA GrantedFinite == IsFiniteSet(Granted)
<1>1. Granted \subseteq Requests
  BY DEF Granted
<1>2. QED
  BY <1>1, RateLimitAssumption, FS_Subset

(* Adding to, and removing from, the set of goroutines that hold a slot. *)
LEMMA GrantOne ==
  ASSUME NEW S, NEW T, NEW x, IsFiniteSet(S), x \notin S, T = S \cup {x}
  PROVE  Cardinality(T) = Cardinality(S) + 1 /\ Cardinality(S) \in Nat
BY FS_AddElement, FS_CardinalityType

(* Removing a goroutine from the set. *)
LEMMA ReturnOne ==
  ASSUME NEW S, NEW T, NEW x, IsFiniteSet(S), x \in S, T = S \ {x}
  PROVE  Cardinality(T) = Cardinality(S) - 1 /\ Cardinality(S) \in Nat
BY FS_RemoveElement, FS_CardinalityType

(* One goroutine hands its slot to another one. *)
LEMMA HandOver ==
  ASSUME NEW S, NEW T, NEW x, NEW y, IsFiniteSet(S), x \in S, y \notin S,
         T = (S \ {x}) \cup {y}
  PROVE  Cardinality(T) = Cardinality(S) /\ Cardinality(S) \in Nat
<1>1. IsFiniteSet(S \ {x}) /\ Cardinality(S \ {x}) = Cardinality(S) - 1
  BY FS_RemoveElement
<1>2. Cardinality(T) = Cardinality(S \ {x}) + 1
  BY <1>1, FS_AddElement
<1>3. Cardinality(S) \in Nat
  BY FS_CardinalityType
<1>4. QED
  BY <1>1, <1>2, <1>3

----------------------------------------------------------------------------
(* The invariant holds at the start. *)
LEMMA InitIInv == LimiterInit => IInv
<1> SUFFICES ASSUME LimiterInit PROVE IInv
  OBVIOUS
<1>1. Granted = {}
  BY DEF LimiterInit, Granted
<1>2. Cardinality(Granted) = 0
  BY <1>1, FS_EmptySet
<1>3. LimiterTypeOK
  BY DEF LimiterInit, LimiterTypeOK, PC
<1>4. ListIsWaiting /\ WaitsOnce
  BY DEF LimiterInit, ListIsWaiting, WaitsOnce
<1>5. CountExact /\ GrantedBounded /\ WaitOnlyWhenFull
  BY <1>2, RateLimitAssumption
     DEF LimiterInit, CountExact, GrantedBounded, WaitOnlyWhenFull
<1>6. QED
  BY <1>3, <1>4, <1>5 DEF IInv

(* What each kind of step does to the set of goroutines that hold a slot. *)
LEMMA EntersFree ==
  ASSUME IInv, NEW r \in Requests, increaseInFightWait(r),
         currentInFlight + 1 <= maxInFlight
  PROVE  /\ notifyList = <<>>
         /\ pc' = [pc EXCEPT ![r] = "inflight"]
         /\ notifyList' = notifyList
         /\ r \notin Granted
         /\ Granted' = Granted \cup {r}
         /\ Cardinality(Granted) < maxInFlight
<1> USE DEF IInv, LimiterTypeOK
<1>1. ~OverLimit(currentInFlight')
  BY RateLimitAssumption DEF OverLimit, increaseInFightWait
<1>2. /\ pc' = [pc EXCEPT ![r] = "inflight"]
      /\ notifyList' = notifyList
  BY <1>1 DEF increaseInFightWait
<1>3. Cardinality(Granted) \in Nat
  BY GrantedFinite, FS_CardinalityType
<1>4. Cardinality(Granted) < maxInFlight
  BY <1>3, RateLimitAssumption DEF CountExact
<1>5. notifyList = <<>>
  BY <1>3, <1>4, RateLimitAssumption DEF WaitOnlyWhenFull
<1>6. r \notin Granted /\ Granted' = Granted \cup {r}
  BY <1>2 DEF Granted, increaseInFightWait
<1>7. QED
  BY <1>2, <1>4, <1>5, <1>6

(* A caller that finds every slot taken queues up. *)
LEMMA EntersQueue ==
  ASSUME IInv, NEW r \in Requests, increaseInFightWait(r),
         ~(currentInFlight + 1 <= maxInFlight)
  PROVE  /\ pc' = [pc EXCEPT ![r] = "waiting"]
         /\ notifyList' = Append(notifyList, r)
         /\ r \notin Granted
         /\ Granted' = Granted
         /\ Cardinality(Granted) = maxInFlight
<1> USE DEF IInv, LimiterTypeOK
<1>1. OverLimit(currentInFlight')
  BY RateLimitAssumption DEF OverLimit, increaseInFightWait
<1>2. /\ pc' = [pc EXCEPT ![r] = "waiting"]
      /\ notifyList' = Append(notifyList, r)
  BY <1>1 DEF increaseInFightWait
<1>3. Cardinality(Granted) \in Nat
  BY GrantedFinite, FS_CardinalityType
<1>4. Cardinality(Granted) = maxInFlight
  <2>1. CASE notifyList = <<>>
    BY <2>1, <1>3, RateLimitAssumption DEF CountExact, GrantedBounded
  <2>2. CASE notifyList # <<>>
    BY <2>2 DEF WaitOnlyWhenFull
  <2>3. QED
    BY <2>1, <2>2
<1>5. r \notin Granted /\ Granted' = Granted
  BY <1>2 DEF Granted, increaseInFightWait
<1>6. QED
  BY <1>2, <1>4, <1>5

(* A goroutine that wakes up holds its slot already. *)
LEMMA WakesUp ==
  ASSUME IInv, NEW r \in Requests, WaitReturns(r)
  PROVE  Granted' = Granted /\ r \in Granted
BY DEF IInv, LimiterTypeOK, WaitReturns, Granted

(* A caller that returns while nobody waits frees its slot. *)
LEMMA LeavesAlone ==
  ASSUME IInv, NEW r \in Requests, decreaseInFlightSignal(r), notifyList = <<>>
  PROVE  /\ r \in Granted
         /\ pc' = [pc EXCEPT ![r] = "idle"]
         /\ notifyList' = <<>>
         /\ Granted' = Granted \ {r}
BY DEF IInv, LimiterTypeOK, decreaseInFlightSignal, Granted, Signalled, ListAfterSignal

(* A caller that returns passes its slot to the oldest waiter. *)
LEMMA HandsOver ==
  ASSUME IInv, NEW r \in Requests, decreaseInFlightSignal(r), notifyList # <<>>
  PROVE  /\ r \in Granted
         /\ Head(notifyList) \in Requests
         /\ Head(notifyList) \notin Granted
         /\ pc' = [pc EXCEPT ![r] = "idle", ![Head(notifyList)] = "signalled"]
         /\ notifyList' = Tail(notifyList)
         /\ Granted' = (Granted \ {r}) \cup {Head(notifyList)}
<1> DEFINE h == Head(notifyList)
<1> USE DEF IInv, LimiterTypeOK
<1>1. h \in Requests /\ h = notifyList[1] /\ 1 \in 1..Len(notifyList)
  OBVIOUS
<1>2. pc[h] = "waiting"
  BY <1>1 DEF ListIsWaiting
<1>3. r \in Granted /\ h \notin Granted /\ h # r
  BY <1>2 DEF Granted, decreaseInFlightSignal
<1>4. pc' = [pc EXCEPT ![r] = "idle", ![h] = "signalled"]
  BY <1>1, <1>3 DEF decreaseInFlightSignal, Signalled
<1>5. Granted' = (Granted \ {r}) \cup {h}
  BY <1>1, <1>3, <1>4 DEF Granted
<1>6. notifyList' = Tail(notifyList)
  BY DEF decreaseInFlightSignal, ListAfterSignal
<1>7. QED
  BY <1>1, <1>3, <1>4, <1>5, <1>6

----------------------------------------------------------------------------
(* Each action preserves the inductive invariant. *)
LEMMA IncreaseIInv ==
  ASSUME IInv, NEW r \in Requests, increaseInFightWait(r)
  PROVE  IInv'
<1> USE DEF IInv
<1>t. pc \in [Requests -> PC] /\ currentInFlight \in Nat
      /\ notifyList \in Seq(Requests) /\ ctxDone \in [Requests -> BOOLEAN]
  BY DEF LimiterTypeOK
<1>c. currentInFlight' = currentInFlight + 1 /\ ctxDone' = ctxDone /\ pc[r] = "idle"
  BY DEF increaseInFightWait
<1>n. Cardinality(Granted) \in Nat
  BY GrantedFinite, FS_CardinalityType
<1>1. CASE currentInFlight + 1 <= maxInFlight
  <2>1. /\ notifyList = <<>>
        /\ pc' = [pc EXCEPT ![r] = "inflight"]
        /\ notifyList' = notifyList
        /\ r \notin Granted
        /\ Granted' = Granted \cup {r}
        /\ Cardinality(Granted) < maxInFlight
    BY <1>1, EntersFree
  <2>2. Cardinality(Granted') = Cardinality(Granted) + 1
    BY <2>1, GrantedFinite, GrantOne
  <2>3. LimiterTypeOK'
    BY <1>t, <1>c, <2>1 DEF LimiterTypeOK, PC
  <2>4. ListIsWaiting' /\ WaitsOnce'
    BY <1>t, <1>c, <2>1 DEF ListIsWaiting, WaitsOnce
  <2>5. CountExact' /\ GrantedBounded' /\ WaitOnlyWhenFull'
    BY <1>c, <1>n, <2>1, <2>2, RateLimitAssumption
       DEF CountExact, GrantedBounded, WaitOnlyWhenFull
  <2>6. QED
    BY <2>3, <2>4, <2>5
<1>2. CASE ~(currentInFlight + 1 <= maxInFlight)
  <2>1. /\ pc' = [pc EXCEPT ![r] = "waiting"]
        /\ notifyList' = Append(notifyList, r)
        /\ r \notin Granted
        /\ Granted' = Granted
        /\ Cardinality(Granted) = maxInFlight
    BY <1>2, EntersQueue
  <2>2. LimiterTypeOK'
    BY <1>t, <1>c, <2>1 DEF LimiterTypeOK, PC
  <2>3. /\ Len(notifyList') = Len(notifyList) + 1
        /\ \A i \in 1..Len(notifyList) : notifyList'[i] = notifyList[i]
        /\ notifyList'[Len(notifyList) + 1] = r
        /\ Len(notifyList) \in Nat
    BY <1>t, <2>1
  <2>4. ListIsWaiting'
    BY <1>t, <1>c, <2>1, <2>3 DEF ListIsWaiting
  <2>5. \A i \in 1..Len(notifyList) : notifyList[i] # r
    BY <1>c DEF ListIsWaiting
  <2>6. WaitsOnce'
    BY <2>3, <2>5 DEF WaitsOnce
  <2>7. CountExact' /\ GrantedBounded' /\ WaitOnlyWhenFull'
    BY <1>c, <1>t, <2>1, <2>3, RateLimitAssumption
       DEF CountExact, GrantedBounded, WaitOnlyWhenFull
  <2>8. QED
    BY <2>2, <2>4, <2>6, <2>7
<1>3. QED
  BY <1>1, <1>2

(* cond.Wait returning preserves the invariant. *)
LEMMA WaitReturnsIInv ==
  ASSUME IInv, NEW r \in Requests, WaitReturns(r)
  PROVE  IInv'
<1>1. Granted' = Granted
  BY WakesUp
<1>2. LimiterTypeOK' /\ ListIsWaiting' /\ WaitsOnce'
  BY DEF IInv, LimiterTypeOK, PC, WaitReturns, ListIsWaiting, WaitsOnce
<1>3. CountExact' /\ GrantedBounded' /\ WaitOnlyWhenFull'
  BY <1>1 DEF IInv, WaitReturns, CountExact, GrantedBounded, WaitOnlyWhenFull
<1>4. QED
  BY <1>2, <1>3 DEF IInv

(* decreaseInFlightSignal preserves the invariant. *)
LEMMA DecreaseIInv ==
  ASSUME IInv, NEW r \in Requests, decreaseInFlightSignal(r)
  PROVE  IInv'
<1> USE DEF IInv
<1>t. pc \in [Requests -> PC] /\ currentInFlight \in Nat
      /\ notifyList \in Seq(Requests) /\ ctxDone \in [Requests -> BOOLEAN]
  BY DEF LimiterTypeOK
<1>c. /\ currentInFlight' = currentInFlight - 1
      /\ ctxDone' \in [Requests -> BOOLEAN]
      /\ pc[r] = "inflight"
  BY <1>t DEF decreaseInFlightSignal
<1>n. Cardinality(Granted) \in Nat
  BY GrantedFinite, FS_CardinalityType
<1>1. CASE notifyList = <<>>
  <2>1. /\ r \in Granted
        /\ pc' = [pc EXCEPT ![r] = "idle"]
        /\ notifyList' = <<>>
        /\ Granted' = Granted \ {r}
    BY <1>1, LeavesAlone
  <2>2. Cardinality(Granted') = Cardinality(Granted) - 1
    BY <2>1, GrantedFinite, ReturnOne
  <2>3. Cardinality(Granted') \in Nat
    BY <2>1, GrantedFinite, FS_RemoveElement, FS_CardinalityType
  <2>4. currentInFlight' = Cardinality(Granted') + Len(notifyList')
    BY <1>1, <1>c, <1>n, <2>1, <2>2 DEF CountExact
  <2>5. LimiterTypeOK'
    BY <1>t, <1>c, <2>1, <2>3, <2>4 DEF LimiterTypeOK, PC
  <2>6. ListIsWaiting' /\ WaitsOnce'
    BY <1>1, <1>t, <1>c, <2>1 DEF ListIsWaiting, WaitsOnce
  <2>7. CountExact' /\ GrantedBounded' /\ WaitOnlyWhenFull'
    BY <1>n, <2>1, <2>2, <2>4, RateLimitAssumption
       DEF CountExact, GrantedBounded, WaitOnlyWhenFull
  <2>8. QED
    BY <2>5, <2>6, <2>7
<1>2. CASE notifyList # <<>>
  <2> DEFINE h == Head(notifyList)
  <2>1. /\ r \in Granted
        /\ h \in Requests
        /\ h \notin Granted
        /\ pc' = [pc EXCEPT ![r] = "idle", ![h] = "signalled"]
        /\ notifyList' = Tail(notifyList)
        /\ Granted' = (Granted \ {r}) \cup {h}
    BY <1>2, HandsOver
  <2>2. Cardinality(Granted') = Cardinality(Granted)
    BY <2>1, GrantedFinite, HandOver
  <2>3. /\ Len(notifyList) \in Nat /\ Len(notifyList) >= 1
        /\ Len(notifyList') = Len(notifyList) - 1
        /\ \A i \in 1..Len(notifyList') : notifyList'[i] = notifyList[i + 1]
        /\ h = notifyList[1]
        /\ notifyList' \in Seq(Requests)
    BY <1>2, <1>t, <2>1
  <2>4. currentInFlight' = Cardinality(Granted') + Len(notifyList')
    BY <1>c, <1>n, <2>2, <2>3 DEF CountExact
  <2>5. LimiterTypeOK'
    BY <1>t, <1>c, <1>n, <2>1, <2>2, <2>3, <2>4 DEF LimiterTypeOK, PC
  <2>6. WaitsOnce'
    BY <2>3 DEF WaitsOnce
  <2>7. ListIsWaiting'
    <3> SUFFICES ASSUME NEW q \in Requests
                 PROVE  pc'[q] = "waiting" <=>
                        \E i \in 1..Len(notifyList') : notifyList'[i] = q
      BY DEF ListIsWaiting
    <3>1. pc'[q] = "waiting" <=> pc[q] = "waiting" /\ q # h
      BY <1>t, <1>c, <2>1
    <3>2. pc[q] = "waiting" <=> \E i \in 1..Len(notifyList) : notifyList[i] = q
      BY DEF ListIsWaiting
    <3>3. ASSUME NEW i \in 1..Len(notifyList'), notifyList'[i] = q
          PROVE  pc[q] = "waiting" /\ q # h
      <4>1. i + 1 \in 1..Len(notifyList) /\ notifyList[i + 1] = q /\ i + 1 # 1
        BY <2>3, <3>3
      <4>2. 1 \in 1..Len(notifyList)
        BY <2>3
      <4>3. q # h
        BY <2>3, <4>1, <4>2 DEF WaitsOnce
      <4>4. QED
        BY <3>2, <4>1, <4>3
    <3>4. ASSUME pc[q] = "waiting", q # h
          PROVE  \E i \in 1..Len(notifyList') : notifyList'[i] = q
      <4>1. PICK i \in 1..Len(notifyList) : notifyList[i] = q
        BY <3>2, <3>4
      <4>2. i # 1
        BY <2>3, <3>4, <4>1
      <4>3. i - 1 \in 1..Len(notifyList') /\ notifyList'[i - 1] = q
        BY <2>3, <4>1, <4>2
      <4>4. QED
        BY <4>3
    <3>5. QED
      BY <3>1, <3>3, <3>4
  <2>8. CountExact' /\ GrantedBounded' /\ WaitOnlyWhenFull'
    BY <1>2, <2>2, <2>4 DEF CountExact, GrantedBounded, WaitOnlyWhenFull
  <2>9. QED
    BY <2>5, <2>6, <2>7, <2>8
<1>3. QED
  BY <1>1, <1>2

(* So does a context that expires ... *)
LEMMA CtxExpiresIInv ==
  ASSUME IInv, NEW r \in Requests, CtxExpires(r)
  PROVE  IInv' /\ Granted' = Granted
<1>1. Granted' = Granted
  BY DEF CtxExpires, Granted
<1>2. LimiterTypeOK'
  BY DEF IInv, LimiterTypeOK, CtxExpires
<1>3. ListIsWaiting' /\ WaitsOnce'
  BY DEF IInv, CtxExpires, ListIsWaiting, WaitsOnce
<1>4. CountExact' /\ GrantedBounded' /\ WaitOnlyWhenFull'
  BY <1>1 DEF IInv, CtxExpires, CountExact, GrantedBounded, WaitOnlyWhenFull
<1>5. QED
  BY <1>1, <1>2, <1>3, <1>4 DEF IInv

(* ... and a step that changes nothing. *)
LEMMA StutterIInv == IInv /\ UNCHANGED limiter => IInv' /\ Granted' = Granted
BY DEF limiter, IInv, LimiterTypeOK, ListIsWaiting, WaitsOnce, CountExact, GrantedBounded,
       WaitOnlyWhenFull, Granted

(* Every step preserves the invariant. *)
LEMMA NextIInv == IInv /\ [LimiterNext]_limiter => IInv'
<1> SUFFICES ASSUME IInv, [LimiterNext]_limiter PROVE IInv'
  OBVIOUS
<1>1. ASSUME NEW r \in Requests, increaseInFightWait(r) PROVE IInv'
  BY <1>1, IncreaseIInv
<1>2. ASSUME NEW r \in Requests, WaitReturns(r) PROVE IInv'
  BY <1>2, WaitReturnsIInv
<1>3. ASSUME NEW r \in Requests, decreaseInFlightSignal(r) PROVE IInv'
  BY <1>3, DecreaseIInv
<1>4. ASSUME NEW r \in Requests, CtxExpires(r) PROVE IInv'
  BY <1>4, CtxExpiresIInv
<1>5. CASE UNCHANGED limiter
  BY <1>5, StutterIInv
<1>6. QED
  BY <1>1, <1>2, <1>3, <1>4, <1>5 DEF LimiterNext

----------------------------------------------------------------------------
(* The counter, the list of waiters and the goroutines agree for ever:     *)
(* currentInFlight is what increaseInFightWait and decreaseInFlightSignal  *)
(* make of it together, in whatever order the goroutines run.              *)
THEOREM LimiterInvariant == LimiterSpec => []IInv
<1>1. LimiterInit => IInv
  BY InitIInv
<1>2. IInv /\ [LimiterNext]_limiter => IInv'
  BY NextIInv
<1>3. QED
  BY <1>1, <1>2, PTL DEF LimiterSpec

(* The variables keep their types; in particular the counter never becomes *)
(* negative, so a decrease is always matched by an earlier increase.       *)
THEOREM TypeCorrect == LimiterSpec => []LimiterTypeOK
<1>1. IInv => LimiterTypeOK
  BY DEF IInv
<1>2. QED
  BY <1>1, LimiterInvariant, PTL

(* Never more than maxInFlight requests are in flight at Prometheus. *)
THEOREM LimitIsKept == LimiterSpec => []LimitKept
<1>1. IInv => LimitKept
  <2> SUFFICES ASSUME IInv PROVE LimitKept
    OBVIOUS
  <2>1. InFlight \subseteq Granted
    BY DEF InFlight, Granted
  <2>2. Cardinality(InFlight) <= Cardinality(Granted)
    BY <2>1, GrantedFinite, FS_Subset
  <2>3. Cardinality(InFlight) \in Nat /\ Cardinality(Granted) \in Nat
    BY <2>1, GrantedFinite, FS_Subset, FS_CardinalityType
  <2>4. QED
    BY <2>2, <2>3, RateLimitAssumption DEF IInv, GrantedBounded, LimitKept
<1>2. QED
  BY <1>1, LimiterInvariant, PTL

(* A goroutine waits in cond.Wait only while every slot is granted. *)
THEOREM NoWakeupIsLost == LimiterSpec => []NoLostWakeup
<1>1. IInv => NoLostWakeup
  BY DEF IInv, LimiterTypeOK, ListIsWaiting, WaitOnlyWhenFull, NoLostWakeup, Waiting
<1>2. QED
  BY <1>1, LimiterInvariant, PTL

(* A slot is never granted past the goroutine that has waited longest. *)
THEOREM NobodyOvertakes == LimiterSpec => NoOvertaking
<1>1. IInv /\ [LimiterNext]_limiter => [OldestFirst]_limiter
  <2> SUFFICES ASSUME IInv, LimiterNext, NEW q \in Requests, Overtakes(q)
               PROVE  FALSE
    BY DEF OldestFirst
  <2>1. ASSUME NEW r \in Requests, increaseInFightWait(r) PROVE FALSE
    <3>1. CASE currentInFlight + 1 <= maxInFlight
      BY <2>1, <3>1, EntersFree DEF Overtakes
    <3>2. CASE ~(currentInFlight + 1 <= maxInFlight)
      BY <2>1, <3>2, EntersQueue DEF Overtakes
    <3>3. QED
      BY <3>1, <3>2
  <2>2. ASSUME NEW r \in Requests, WaitReturns(r) PROVE FALSE
    BY <2>2, WakesUp DEF Overtakes
  <2>3. ASSUME NEW r \in Requests, decreaseInFlightSignal(r) PROVE FALSE
    BY <2>3, HandsOver DEF Overtakes
  <2>4. ASSUME NEW r \in Requests, CtxExpires(r) PROVE FALSE
    BY <2>4, CtxExpiresIInv DEF Overtakes
  <2>5. QED
    BY <2>1, <2>2, <2>3, <2>4 DEF LimiterNext
<1>2. QED
  BY <1>1, LimiterInvariant, PTL DEF LimiterSpec, NoOvertaking

----------------------------------------------------------------------------
(* The waiters in the list hold no slot. *)
LEMMA QueuedHoldNothing == IInv => Sem!Queued = Waiting
BY DEF IInv, LimiterTypeOK, ListIsWaiting, Sem!Queued, Waiting

(* The semaphore counts as the limiter does. *)
LEMMA SameCardinality == \A S : Sem!Cardinality(S) = Cardinality(S)
BY DEF Sem!Cardinality, Cardinality

(* The limiter implements the abstract semaphore: a pass is an Acquire, a  *)
(* return with its Signal is a Release, and the return of Wait, like the   *)
(* expiry of a context, changes nothing the semaphore can see.             *)
THEOREM LimiterIsSemaphore == LimiterSpec => Sem!Spec
<1>1. LimiterInit => Sem!Init
  BY DEF LimiterInit, Sem!Init, Granted
<1>2. IInv /\ [LimiterNext]_limiter => [Sem!Next]_(Sem!semVars)
  <2> SUFFICES ASSUME IInv, [LimiterNext]_limiter
               PROVE  Sem!Next \/ (Granted' = Granted /\ notifyList' = notifyList)
    BY DEF Sem!semVars
  <2>1. ASSUME NEW r \in Requests, increaseInFightWait(r) PROVE Sem!Acquire(r)
    <3>1. r \notin Sem!Queued
      BY <2>1, QueuedHoldNothing DEF increaseInFightWait, Waiting
    <3>2. CASE currentInFlight + 1 <= maxInFlight
      BY <2>1, <3>1, <3>2, EntersFree, SameCardinality DEF Sem!Acquire
    <3>3. CASE ~(currentInFlight + 1 <= maxInFlight)
      <4>1. ~(Cardinality(Granted) < maxInFlight)
        BY <2>1, <3>3, EntersQueue, RateLimitAssumption
      <4>2. QED
        BY <2>1, <3>1, <3>3, <4>1, EntersQueue, SameCardinality DEF Sem!Acquire
    <3>4. QED
      BY <3>2, <3>3
  <2>2. ASSUME NEW r \in Requests, WaitReturns(r)
        PROVE  Granted' = Granted /\ notifyList' = notifyList
    BY <2>2, WakesUp DEF WaitReturns
  <2>3. ASSUME NEW r \in Requests, decreaseInFlightSignal(r) PROVE Sem!Release(r)
    <3>1. CASE notifyList = <<>>
      BY <2>3, <3>1, LeavesAlone DEF Sem!Release
    <3>2. CASE notifyList # <<>>
      BY <2>3, <3>2, HandsOver DEF Sem!Release
    <3>3. QED
      BY <3>1, <3>2
  <2>4. ASSUME NEW r \in Requests, CtxExpires(r)
        PROVE  Granted' = Granted /\ notifyList' = notifyList
    BY <2>4, CtxExpiresIInv DEF CtxExpires
  <2>5. CASE UNCHANGED limiter
    BY <2>5, StutterIInv DEF limiter
  <2>6. QED
    BY <2>1, <2>2, <2>3, <2>4, <2>5 DEF LimiterNext, Sem!Next
<1>3. QED
  BY <1>1, <1>2, LimiterInvariant, PTL DEF LimiterSpec, Sem!Spec

----------------------------------------------------------------------------
(* Integer division, and the multiples of a step. *)
LEMMA Division ==
  ASSUME NEW n \in Nat, NEW d \in Nat \ {0}
  PROVE  /\ n \div d \in Nat
         /\ n = (n \div d) * d + (n % d)
         /\ n % d \in 0..d - 1
<1>1. n \div d \in Nat /\ (n \div d) * d <= n /\ n < (n \div d) * d + d
  OBVIOUS
<1>2. n % d \in 0..d - 1
  OBVIOUS
<1>3. n = d * (n \div d) + (n % d)
  OBVIOUS
<1>4. d * (n \div d) = (n \div d) * d
  BY <1>1
<1>5. QED
  BY <1>1, <1>2, <1>3, <1>4

LEMMA Distributes ==
  ASSUME NEW a \in Int, NEW b \in Int, NEW d \in Int
  PROVE  /\ (a - b) * d = a * d - b * d
         /\ (a + b) * d = a * d + b * d
         /\ a * d \in Int /\ b * d \in Int
OBVIOUS

LEMMA Grows ==
  ASSUME NEW a \in Int, NEW b \in Int, NEW d \in Nat
  PROVE  /\ a <= b => a * d <= b * d
         /\ d # 0 /\ a * d <= b * d => a <= b
<1>1. ASSUME a <= b PROVE a * d <= b * d
  <2>1. (b - a) \in Nat /\ (b - a) * d >= 0
    BY <1>1
  <2>2. QED
    BY <2>1, Distributes
<1>2. ASSUME d # 0, a * d <= b * d, b + 1 <= a PROVE FALSE
  <2>1. (a - b - 1) * d >= 0
    BY <1>2
  <2>2. (a - b - 1) * d = a * d - b * d - d
    OBVIOUS
  <2>3. QED
    BY <1>2, <2>1, <2>2, Distributes
<1>3. QED
  BY <1>1, <1>2

LEMMA Multiples ==
  ASSUME NEW n \in Nat, NEW d \in Nat \ {0}
  PROVE  /\ \A k \in Int : n = k * d => n % d = 0
         /\ n % d = 0 => n = (n \div d) * d
<1>1. /\ n \div d \in Nat
      /\ n = (n \div d) * d + (n % d)
      /\ n % d \in 0..d - 1
  BY Division
<1>2. ASSUME NEW k \in Int, n = k * d PROVE n % d = 0
  <2>1. PICK q \in Nat : q = n \div d
    BY <1>1
  <2>2. PICK r \in 0..d - 1 : r = n % d
    BY <1>1
  <2>3. k * d = q * d + r
    BY <1>1, <1>2, <2>1, <2>2
  <2>4. q <= k
    BY <2>3, Grows, Distributes
  <2>5. k <= q
    <3>1. (q + 1) * d = q * d + d
      OBVIOUS
    <3>2. CASE q + 1 <= k
      <4>1. (q + 1) * d <= k * d
        BY <3>2, Grows
      <4>2. QED
        BY <2>3, <3>1, <4>1, Distributes
    <3>3. QED
      BY <3>2
  <2>6. k = q
    BY <2>4, <2>5
  <2>7. r = 0
    BY <2>3, <2>6, Distributes
  <2>8. QED
    BY <2>2, <2>7
<1>3. QED
  BY <1>1, <1>2

(* A window of less than K steps has at most K points. *)
LEMMA PointsBounded ==
  ASSUME NEW w, w.start \in Nat, w.end \in Nat, w.step \in Nat \ {0},
         NEW K \in Nat, w.end - w.start < K * w.step
  PROVE  IsFiniteSet(Points(w)) /\ Cardinality(Points(w)) <= K
<1> DEFINE number == [t \in Points(w) |-> (t - w.start) \div w.step]
<1>1. ASSUME NEW t \in Points(w)
      PROVE  number[t] \in 0..K - 1 /\ t = w.start + number[t] * w.step
  <2>1. t - w.start \in Nat /\ (t - w.start) % w.step = 0 /\ t <= w.end /\ t \in Int
    BY <1>1 DEF Points
  <2>2. /\ number[t] \in Nat
        /\ t - w.start = number[t] * w.step
    BY <2>1, Multiples, Division
  <2>3. number[t] * w.step < K * w.step
    BY <2>1, <2>2
  <2>4. number[t] < K
    <3>1. \A m \in Nat : K <= m => K * w.step <= m * w.step
      BY Grows
    <3>2. \A m \in Nat : m * w.step \in Nat
      OBVIOUS
    <3>3. QED
      BY <2>2, <2>3, <3>1, <3>2
  <2> HIDE DEF number
  <2>5. QED
    BY <2>1, <2>2, <2>4
<1>2. number \in Injection(Points(w), 0..K - 1)
  <2> HIDE DEF number
  <2>1. number \in [Points(w) -> 0..K - 1]
    BY <1>1 DEF number
  <2>2. \A s, t \in Points(w) : number[s] = number[t] => s = t
    BY <1>1
  <2>3. QED
    BY <2>1, <2>2, Zenon DEF Injection, IsInjective
<1>3. IsFiniteSet(0..K - 1) /\ Cardinality(0..K - 1) = K
  <2>1. 0 \in Int /\ K - 1 \in Int
    OBVIOUS
  <2>2. /\ IsFiniteSet(0..K - 1)
        /\ Cardinality(0..K - 1) = IF 0 > K - 1 THEN 0 ELSE (K - 1) - 0 + 1
    BY <2>1, FS_Interval, Zenon
  <2>3. QED
    BY <2>2
<1>4. QED
  BY <1>2, <1>3, FS_Injection

AWindow(w) == w.start \in Nat /\ w.end \in Nat /\ w.step \in Nat \ {0}

(* How many points there are, and how many shards for them. *)
LEMMA PossiblePoints ==
  ASSUME NEW w, AWindow(w), w.start <= w.end
  PROVE  /\ possiblePoints(w) \in Nat \ {0}
         /\ (possiblePoints(w) - 1) * w.step <= w.end - w.start
         /\ w.end - w.start < possiblePoints(w) * w.step
<1> DEFINE n == (w.end - w.start) \div w.step
<1>1. w.end - w.start \in Nat /\ w.step \in Nat \ {0}
  BY DEF AWindow
<1>2. /\ n \in Nat
      /\ w.end - w.start = n * w.step + ((w.end - w.start) % w.step)
      /\ (w.end - w.start) % w.step \in 0..w.step - 1
  BY <1>1, Division
<1>3. possiblePoints(w) = n + 1
  BY <1>1 DEF possiblePoints, AWindow
<1> HIDE DEF n
<1>4. (n + 1) * w.step = n * w.step + w.step
  <2>1. \A s \in Int : (n + 1) * s = n * s + s
    BY <1>2
  <2>2. QED
    BY <1>1, <2>1
<1>5. (n + 1) - 1 = n
  BY <1>2
<1>6. n * w.step \in Nat
  BY <1>1, <1>2
<1>7. QED
  BY <1>1, <1>2, <1>3, <1>4, <1>5, <1>6

LEMMA ShardsNumber ==
  ASSUME NEW w, AWindow(w), NEW limit \in Nat \ {0}, possiblePoints(w) \in Nat
  PROVE  /\ shardsNum(w, limit) \in Nat
         /\ (shardsNum(w, limit) - 1) * limit < possiblePoints(w)
         /\ possiblePoints(w) <= shardsNum(w, limit) * limit
<1> DEFINE n == possiblePoints(w)
           q == n \div limit
<1>1. q \in Nat /\ n = q * limit + (n % limit) /\ n % limit \in 0..limit - 1
  BY Division
<1> HIDE DEF n, q
<1>2. (q - 1) * limit = q * limit - limit /\ (q + 1) * limit = q * limit + limit
  BY <1>1, Distributes
<1>3. (q + 1) - 1 = q /\ q * limit \in Nat /\ n \in Nat
  BY <1>1 DEF n
<1>4. CASE n % limit > 0
  <2>1. shardsNum(w, limit) = q + 1
    BY <1>4 DEF shardsNum, n, q
  <2>2. QED
    BY <1>1, <1>2, <1>3, <1>4, <2>1 DEF n
<1>5. CASE n % limit = 0
  <2>1. shardsNum(w, limit) = q
    BY <1>5 DEF shardsNum, n, q
  <2>2. n = q * limit /\ (q - 1) * limit < n
    BY <1>1, <1>2, <1>3, <1>5
  <2>3. QED
    BY <1>1, <1>3, <2>1, <2>2 DEF n
<1>6. QED
  BY <1>1, <1>4, <1>5

(* Where the shards are: each is as wide as limit points, and but for the  *)
(* end of the last none is cut off at the end of the window.               *)
LEMMA ShardsInPlace ==
  ASSUME NEW w, AWindow(w), NEW limit \in Nat \ {0},
         NEW i \in 1..shardsNum(w, limit)
  PROVE  LET sh == ComputeWindowShards(w, limit)[i]
             width == (limit - 1) * w.step
         IN  /\ width \in Nat /\ (i - 1) * width \in Nat
             /\ sh.start = w.start + (i - 1) * width
             /\ sh.end = Earlier(w.start + i * width, w.end)
             /\ sh.end \in Nat /\ sh.step = w.step
             /\ sh.start <= sh.end /\ sh.end <= w.end /\ sh.end - sh.start <= width
<1> DEFINE sh == ComputeWindowShards(w, limit)[i]
           width == (limit - 1) * w.step
           num == shardsNum(w, limit)
           n == possiblePoints(w)
<1>1. w.start <= w.end
  <2>1. CASE w.start > w.end
    <3>1. n = 0 /\ 0 % limit = 0 /\ 0 \div limit = 0
      BY <2>1 DEF possiblePoints
    <3>2. num = 0
      BY <3>1 DEF shardsNum
    <3>3. QED
      BY <3>2
  <2>2. QED
    BY <2>1 DEF AWindow
<1>2. /\ n \in Nat \ {0} /\ num \in Nat
      /\ (n - 1) * w.step <= w.end - w.start
      /\ (num - 1) * limit < n
  BY <1>1, PossiblePoints, ShardsNumber
<1>3. width \in Nat /\ i \in Nat /\ w.step \in Nat /\ i - 1 \in Nat
  BY DEF AWindow
<1>4. /\ shardBound(w, limit, i - 1) = Earlier(w.start + (i - 1) * width, w.end)
      /\ shardBound(w, limit, i) = Earlier(w.start + i * width, w.end)
  <2>1. \A k \in Nat : k * (limit - 1) * w.step = k * ((limit - 1) * w.step)
    BY <1>3
  <2>2. QED
    BY <1>3, <2>1 DEF shardBound
<1>5. (i - 1) * width <= w.end - w.start
  <2>1. (i - 1) * (limit - 1) <= (num - 1) * limit
    <3>1. (i - 1) * (limit - 1) <= (i - 1) * limit
      BY <1>3
    <3>2. (i - 1) * limit <= (num - 1) * limit
      BY <1>2, Grows
    <3>3. QED
      BY <1>2, <1>3, <3>1, <3>2, Distributes
  <2>2. (i - 1) * (limit - 1) <= n - 1
    BY <1>2, <1>3, <2>1, Distributes
  <2>3. ((i - 1) * (limit - 1)) * w.step <= (n - 1) * w.step
    BY <1>2, <1>3, <2>2, Grows, Distributes
  <2>4. (i - 1) * width = ((i - 1) * (limit - 1)) * w.step
    BY <1>3
  <2>5. (n - 1) * w.step \in Int /\ (i - 1) * width \in Int
    BY <1>2, <1>3
  <2>6. QED
    BY <1>2, <1>3, <2>3, <2>4, <2>5 DEF AWindow
<1>6. i * width = (i - 1) * width + width /\ (i - 1) * width \in Nat
  BY <1>3
<1>7. /\ sh.start = shardBound(w, limit, i - 1)
      /\ sh.end = shardBound(w, limit, i)
      /\ sh.step = w.step
  BY DEF ComputeWindowShards
<1> HIDE DEF width, sh
<1>8. QED
  <2>1. sh.start = w.start + (i - 1) * width
    BY <1>3, <1>4, <1>5, <1>6, <1>7 DEF Earlier, AWindow
  <2>2. sh.end = Earlier(w.start + i * width, w.end)
    BY <1>4, <1>7
  <2>3. /\ sh.end \in Nat /\ sh.start <= sh.end
        /\ sh.end <= w.end /\ sh.end - sh.start <= width
    BY <1>3, <1>5, <1>6, <2>1, <2>2 DEF Earlier, AWindow
  <2>4. QED
    BY <1>3, <1>6, <1>7, <2>1, <2>2, <2>3 DEF sh, width

(* Multiples of the step are as good as zero to the grid. *)
LEMMA OnGrid ==
  ASSUME NEW x \in Int, NEW k \in Int, NEW d \in Nat \ {0}, x >= 0, x + k * d >= 0
  PROVE  x % d = 0 <=> (x + k * d) % d = 0
<1> DEFINE y == x + k * d
<1>1. x \in Nat /\ y \in Nat
  OBVIOUS
<1>2. ASSUME x % d = 0 PROVE y % d = 0
  <2>1. PICK q \in Nat : x = q * d
    BY <1>1, <1>2, Multiples, Division
  <2>2. y = (q + k) * d /\ q + k \in Int
    BY <2>1, Distributes
  <2>3. QED
    BY <1>1, <2>2, Multiples
<1>3. ASSUME y % d = 0 PROVE x % d = 0
  <2> HIDE DEF y
  <2>1. PICK q \in Nat : y = q * d
    BY <1>1, <1>3, Multiples, Division
  <2>2. x = (q - k) * d /\ q - k \in Int
    BY <2>1, Distributes DEF y
  <2>3. QED
    BY <1>1, <2>2, Multiples
<1>4. QED
  BY <1>2, <1>3

(* A shard asks for what the window asks for at its place. *)
LEMMA ShardPoints ==
  ASSUME NEW w, AWindow(w), NEW limit \in Nat \ {0},
         NEW i \in 1..shardsNum(w, limit)
  PROVE  LET sh == ComputeWindowShards(w, limit)[i]
         IN  Points(sh) = Points(w) \cap sh.start..sh.end
<1> DEFINE sh == ComputeWindowShards(w, limit)[i]
           before == (i - 1) * (limit - 1)
<1>1. (i - 1) * ((limit - 1) * w.step) = before * w.step /\ before \in Nat
  <2>1. \A s \in Int : (i - 1) * ((limit - 1) * s) = ((i - 1) * (limit - 1)) * s
    OBVIOUS
  <2>2. w.step \in Int
    BY DEF AWindow
  <2>3. i - 1 \in Nat /\ limit - 1 \in Nat
    OBVIOUS
  <2>4. before \in Nat
    BY <2>3
  <2>5. QED
    BY <2>1, <2>2, <2>4
<1>2. /\ before * w.step \in Nat /\ sh.start = w.start + before * w.step
      /\ sh.end \in Nat /\ sh.end <= w.end /\ sh.step = w.step
  BY <1>1, ShardsInPlace
<1> HIDE DEF sh, before
<1>3. ASSUME NEW t \in sh.start..sh.end
      PROVE  (t - sh.start) % w.step = 0 <=> (t - w.start) % w.step = 0
  <2> DEFINE x == t - sh.start
  <2>1. x \in Int /\ x >= 0 /\ x + before * w.step = t - w.start /\ t - w.start >= 0
    BY <1>2, <1>3 DEF AWindow
  <2> HIDE DEF x
  <2>2. x % w.step = 0 <=> (x + before * w.step) % w.step = 0
    <3>1. before \in Int /\ w.step \in Nat \ {0} /\ x + before * w.step >= 0
      BY <1>1, <2>1 DEF AWindow
    <3>2. QED
      BY <2>1, <3>1, OnGrid
  <2>3. QED
    BY <2>1, <2>2 DEF x
<1>4. sh.start..sh.end \subseteq w.start..w.end
  BY <1>2 DEF AWindow
<1>5. Points(sh) = Points(w) \cap sh.start..sh.end
  BY <1>2, <1>3, <1>4 DEF Points
<1>6. QED
  BY <1>5 DEF sh

LEMMA ShardsSmall ==
  ASSUME NEW w, AWindow(w), NEW limit \in Nat \ {0},
         NEW i \in 1..shardsNum(w, limit)
  PROVE  LET asked == Points(ComputeWindowShards(w, limit)[i])
         IN  IsFiniteSet(asked) /\ Cardinality(asked) <= limit
<1> DEFINE sh == ComputeWindowShards(w, limit)[i]
<1>1. /\ sh.start \in Nat /\ sh.end \in Nat /\ sh.step = w.step
      /\ sh.end - sh.start <= (limit - 1) * w.step
  BY ShardsInPlace DEF AWindow
<1> HIDE DEF sh
<1>2. (limit - 1) * w.step < limit * w.step
  <2>1. \A s \in Nat \ {0} : (limit - 1) * s = limit * s - s /\ limit * s \in Nat
    OBVIOUS
  <2>2. w.step \in Nat \ {0}
    BY DEF AWindow
  <2>3. QED
    BY <2>1, <2>2
<1>3. (limit - 1) * w.step \in Int /\ limit * w.step \in Int
  BY DEF AWindow
<1>4. sh.end - sh.start < limit * sh.step
  BY <1>1, <1>2, <1>3
<1>5. IsFiniteSet(Points(sh)) /\ Cardinality(Points(sh)) <= limit
  BY <1>1, <1>4, PointsBounded DEF AWindow
<1>6. QED
  BY <1>5 DEF sh

(* Up to the end of the last shard no point of the window is left out. *)
LEMMA ShardsCover ==
  ASSUME NEW w, AWindow(w), NEW limit \in Nat \ {0}, shardsNum(w, limit) \in Nat \ {0},
         NEW t \in Points(w),
         t <= ComputeWindowShards(w, limit)[shardsNum(w, limit)].end
  PROVE  \E i \in 1..shardsNum(w, limit) : t \in Points(ComputeWindowShards(w, limit)[i])
<1> DEFINE num == shardsNum(w, limit)
           width == (limit - 1) * w.step
           sh(i) == ComputeWindowShards(w, limit)[i]
           x == t - w.start
<1>1. t \in Int /\ x \in Nat /\ t <= w.end /\ w.start \in Nat /\ w.end \in Nat
  BY DEF Points, AWindow
<1>2. width \in Nat /\ num \in Nat \ {0}
  BY DEF AWindow
<1>3. t <= w.start + num * width
  <2>1. sh(num).end = Earlier(w.start + num * width, w.end) /\ num * width \in Int
    BY <1>2, ShardsInPlace
  <2>2. QED
    BY <1>1, <2>1 DEF Earlier
<1>4. ASSUME NEW i \in 1..num, (i - 1) * width <= x, x <= i * width
      PROVE  t \in Points(sh(i))
  <2>1. /\ sh(i).start = w.start + (i - 1) * width
        /\ sh(i).end = Earlier(w.start + i * width, w.end)
    BY ShardsInPlace
  <2>2. (i - 1) * width \in Int /\ i * width \in Int
    BY <1>2
  <2>3. t \in sh(i).start..sh(i).end
    BY <1>1, <1>4, <2>1, <2>2 DEF Earlier
  <2>4. Points(sh(i)) = Points(w) \cap sh(i).start..sh(i).end
    BY ShardPoints
  <2>5. QED
    BY <2>3, <2>4
<1> HIDE DEF sh, width, num, x
<1>5. CASE width = 0
  <2>1. x <= 0 /\ (1 - 1) * width <= x /\ x <= 1 * width /\ 1 \in 1..num
    BY <1>1, <1>2, <1>3, <1>5 DEF x
  <2>2. QED
    BY <1>4, <2>1 DEF sh, num
<1>6. CASE width # 0
  <2> DEFINE q == x \div width
  <2>1. /\ q \in Nat
        /\ x = q * width + (x % width)
        /\ x % width \in 0..width - 1
    BY <1>1, <1>2, <1>6, Division
  <2> HIDE DEF q
  <2>2. q * width \in Nat /\ (q + 1) * width = q * width + width /\ (q + 1) - 1 = q
    BY <1>2, <2>1
  <2>3. CASE q < num
    <3>1. q + 1 \in 1..num /\ q * width <= x /\ x <= (q + 1) * width
      BY <1>2, <2>1, <2>2, <2>3
    <3>2. t \in Points(sh(q + 1))
      BY <1>4, <2>2, <3>1
    <3>3. QED
      BY <3>1, <3>2 DEF sh, num
  <2>4. CASE num <= q
    <3>1. num * width <= q * width /\ num * width \in Int
      BY <1>2, <2>1, <2>4, Grows
    <3>2. x = num * width
      BY <1>1, <1>3, <2>1, <2>2, <3>1 DEF x
    <3>3. (num - 1) * width <= num * width
      BY <1>2, Grows
    <3>4. num \in 1..num /\ (num - 1) * width <= x /\ x <= num * width
      BY <1>2, <3>1, <3>2, <3>3
    <3>5. t \in Points(sh(num))
      BY <1>4, <3>4
    <3>6. QED
      BY <3>4, <3>5 DEF sh, num
  <2>5. QED
    BY <1>2, <2>1, <2>3, <2>4
<1>7. QED
  BY <1>5, <1>6

(* Behind the last shard are fewer points than there are shards. *)
LEMMA TailShort ==
  ASSUME NEW w, AWindow(w), NEW limit \in Nat \ {0}, shardsNum(w, limit) \in Nat \ {0}
  PROVE  LET num == shardsNum(w, limit)
             lost == {t \in Points(w) : t > ComputeWindowShards(w, limit)[num].end}
         IN  IsFiniteSet(lost) /\ Cardinality(lost) < num
<1> DEFINE num == shardsNum(w, limit)
           width == (limit - 1) * w.step
           last == ComputeWindowShards(w, limit)[num].end
           lost == {t \in Points(w) : t > last}
           n == possiblePoints(w)
<1>1. num \in 1..num /\ width \in Nat /\ num * width \in Nat /\ w.step \in Nat \ {0}
  BY DEF AWindow
<1>2. last = Earlier(w.start + num * width, w.end) /\ last \in Nat /\ last <= w.end
  BY <1>1, ShardsInPlace
<1>3. w.start <= w.end
  BY <1>1, <1>2, ShardsInPlace DEF AWindow
<1>4. n \in Nat /\ w.end - w.start < n * w.step /\ n <= num * limit
  BY <1>3, PossiblePoints, ShardsNumber
<1> HIDE DEF num, width, last, n
<1>5. CASE last = w.end
  <2>1. lost = {}
    BY <1>5 DEF Points, AWindow
  <2>2. IsFiniteSet({}) /\ Cardinality({}) = 0
    BY FS_EmptySet
  <2>3. IsFiniteSet(lost) /\ Cardinality(lost) = 0
    BY <2>1, <2>2
  <2> HIDE DEF lost
  <2>4. IsFiniteSet(lost) /\ Cardinality(lost) < num
    BY <1>1, <2>3
  <2>5. QED
    BY <2>4 DEF num, last, lost
<1>6. CASE last # w.end
  <2> DEFINE rest == [start |-> last, end |-> w.end, step |-> w.step]
             steps == num * (limit - 1)
  <2>1. last = w.start + num * width /\ last < w.end
    BY <1>1, <1>2, <1>6 DEF Earlier, AWindow
  <2>2. num * width = steps * w.step /\ steps \in Nat
    <3>1. \A s \in Int : num * ((limit - 1) * s) = (num * (limit - 1)) * s
      BY <1>1
    <3>2. num \in Nat /\ limit - 1 \in Nat
      BY <1>1
    <3>3. QED
      BY <1>1, <3>1, <3>2 DEF width
  <2> HIDE DEF steps
  <2>3. w.end - last < num * w.step
    <3>1. n * w.step <= (num * limit) * w.step
      BY <1>1, <1>4, Grows
    <3>2. num * limit = steps + num
      BY <1>1 DEF steps
    <3>3. (steps + num) * w.step = steps * w.step + num * w.step
      BY <1>1, <2>2, Distributes
    <3>4. n * w.step \in Int /\ steps * w.step \in Int /\ num * w.step \in Int
      BY <1>1, <1>4, <2>2
    <3>5. QED
      BY <1>2, <1>4, <2>1, <2>2, <3>1, <3>2, <3>3, <3>4 DEF AWindow
  <2>4. IsFiniteSet(Points(rest)) /\ Cardinality(Points(rest)) <= num
    <3>1. rest.start \in Nat /\ rest.end \in Nat /\ rest.step \in Nat \ {0} /\ num \in Nat
      BY <1>1, <1>2 DEF AWindow
    <3>2. rest.end - rest.start < num * rest.step
      BY <2>3
    <3> HIDE DEF rest
    <3>3. QED
      BY <3>1, <3>2, PointsBounded
  <2>5. last \in Points(rest)
    <3>1. 0 * w.step = 0 /\ 0 % w.step = 0
      BY <1>1, Multiples
    <3>2. last - last = 0
      BY <1>2
    <3>3. QED
      BY <1>2, <3>1, <3>2 DEF Points, AWindow
  <2>6. lost \subseteq Points(rest) \ {last}
    <3>1. ASSUME NEW t \in lost PROVE t \in Points(rest) \ {last}
      <4> DEFINE x == t - last
      <4>1. /\ t \in Int /\ t > last /\ t <= w.end /\ t \in last..w.end
            /\ (t - w.start) % w.step = 0
        BY <1>2 DEF Points, AWindow
      <4>2. x \in Int /\ x >= 0 /\ x + steps * w.step = t - w.start
        BY <1>1, <1>2, <2>1, <2>2, <4>1 DEF AWindow
      <4>3. x + steps * w.step >= 0 /\ steps \in Int
        BY <1>1, <2>2, <4>2
      <4> HIDE DEF x
      <4>4. x % w.step = 0
        BY <1>1, <4>1, <4>2, <4>3, OnGrid
      <4>5. QED
        BY <1>2, <4>1, <4>4 DEF Points, x
    <3>2. QED
      BY <3>1
  <2>7. /\ IsFiniteSet(Points(rest) \ {last})
        /\ Cardinality(Points(rest) \ {last}) = Cardinality(Points(rest)) - 1
    BY <2>4, <2>5, FS_RemoveElement
  <2>8. IsFiniteSet(lost) /\ Cardinality(lost) <= Cardinality(Points(rest) \ {last})
    BY <2>6, <2>7, FS_Subset
  <2>9. /\ Cardinality(lost) \in Nat /\ Cardinality(Points(rest)) \in Nat
        /\ Cardinality(Points(rest) \ {last}) \in Nat
    BY <2>4, <2>7, <2>8, FS_CardinalityType
  <2> HIDE DEF lost, rest
  <2>10. Cardinality(lost) < num
    BY <1>1, <2>4, <2>7, <2>8, <2>9
  <2>11. QED
    BY <2>8, <2>10 DEF num, last, lost
<1>7. QED
  BY <1>5, <1>6

(* The windows of a range query, however wide and whatever the limit.  No  *)
(* shard asks for more points than the limit; together the shards ask for  *)
(* the points of the window up to the end of the last shard and for no     *)
(* others; and what is lost behind it are fewer points than shards.        *)
Lost(w, limit) ==
    {t \in Points(w) : t > ComputeWindowShards(w, limit)[shardsNum(w, limit)].end}
THEOREM ShardsFitWindow ==
  ASSUME NEW w \in Windows
  PROVE  LET limit == maxPointsPerTimeSeries
             num == shardsNum(w, limit)
             asked(i) == Points(ComputeWindowShards(w, limit)[i])
         IN  /\ num \in Nat
             /\ \A i \in 1..num : IsFiniteSet(asked(i)) /\ Cardinality(asked(i)) <= limit
             /\ num = 0 => Points(w) = {}
             /\ num > 0 =>
                  /\ UNION {asked(i) : i \in 1..num} = Points(w) \ Lost(w, limit)
                  /\ IsFiniteSet(Lost(w, limit)) /\ Cardinality(Lost(w, limit)) < num
<1> DEFINE limit == maxPointsPerTimeSeries
           num == shardsNum(w, limit)
           sh(i) == ComputeWindowShards(w, limit)[i]
           asked(i) == Points(sh(i))
<1>1. AWindow(w) /\ limit \in Nat \ {0}
  BY ShardQueryAssumption DEF AWindow
<1>2. possiblePoints(w) \in Nat /\ (possiblePoints(w) = 0 => w.start > w.end)
  <2>1. CASE w.start > w.end
    BY <2>1 DEF possiblePoints
  <2>2. CASE w.start <= w.end
    BY <1>1, <2>2, PossiblePoints
  <2>3. QED
    BY <1>1, <2>1, <2>2 DEF AWindow
<1>3. num \in Nat /\ possiblePoints(w) <= num * limit
  BY <1>1, <1>2, ShardsNumber
<1>4. \A i \in 1..num : IsFiniteSet(asked(i)) /\ Cardinality(asked(i)) <= limit
  BY <1>1, ShardsSmall
<1>5. ASSUME num = 0 PROVE Points(w) = {}
  <2>1. w.start > w.end
    BY <1>1, <1>2, <1>3, <1>5
  <2>2. QED
    BY <1>1, <2>1 DEF Points, AWindow
<1>6. ASSUME num > 0
      PROVE  /\ UNION {asked(i) : i \in 1..num} = Points(w) \ Lost(w, limit)
             /\ IsFiniteSet(Lost(w, limit)) /\ Cardinality(Lost(w, limit)) < num
  <2>1. num \in Nat \ {0} /\ num \in 1..num
    BY <1>3, <1>6
  <2>2. ASSUME NEW i \in 1..num, NEW t \in asked(i)
        PROVE  t \in Points(w) \ Lost(w, limit)
    <3>1. t \in Points(w) /\ t \in Int /\ t <= sh(i).end
      BY <1>1, ShardPoints DEF Points
    <3>2. /\ sh(i).end = Earlier(w.start + i * ((limit - 1) * w.step), w.end)
          /\ sh(num).end = Earlier(w.start + num * ((limit - 1) * w.step), w.end)
          /\ (limit - 1) * w.step \in Nat
      BY <1>1, <2>1, ShardsInPlace
    <3>3. /\ i * ((limit - 1) * w.step) <= num * ((limit - 1) * w.step)
          /\ i * ((limit - 1) * w.step) \in Nat /\ num * ((limit - 1) * w.step) \in Nat
      BY <2>1, <3>2, Grows
    <3>4. sh(i).end <= sh(num).end /\ sh(i).end \in Int /\ sh(num).end \in Int
      BY <1>1, <3>2, <3>3 DEF Earlier, AWindow
    <3> HIDE DEF sh
    <3>5. t <= sh(num).end
      BY <3>1, <3>4
    <3>6. QED
      BY <3>1, <3>4, <3>5 DEF Lost, sh
  <2>3. ASSUME NEW t \in Points(w) \ Lost(w, limit)
        PROVE  \E i \in 1..num : t \in asked(i)
    <3>1. t \in Int /\ sh(num).end \in Int
      BY <1>1, <2>1, ShardsInPlace DEF Points
    <3>2. t <= sh(num).end
      BY <3>1 DEF Lost
    <3>3. QED
      BY <1>1, <2>1, <3>2, ShardsCover
  <2>4. IsFiniteSet(Lost(w, limit)) /\ Cardinality(Lost(w, limit)) < num
    BY <1>1, <2>1, TailShort DEF Lost
  <2> HIDE DEF asked
  <2>5. UNION {asked(i) : i \in 1..num} = Points(w) \ Lost(w, limit)
    BY <2>2, <2>3
  <2>6. QED
    BY <2>4, <2>5
<1>7. QED
  BY <1>3, <1>4, <1>5, <1>6

----------------------------------------------------------------------------
(* How the pieces of a series are merged, however long they are. *)

(* Induction up to a bound, over a set, since the provers cannot           *)
(* instantiate the library's theorems, which are about operators.          *)
LessThan == {ss \in Nat \X Nat : ss[1] < ss[2]}
LEMMA InductionUpTo ==
  ASSUME NEW N \in Nat, NEW T, 0 \in T, \A n \in 1..N : n - 1 \in T => n \in T
  PROVE  \A n \in 0..N : n \in T
<1> SUFFICES ASSUME (0..N) \ T # {} PROVE FALSE
  OBVIOUS
<1>1. IsWellFoundedOn(LessThan, Nat)
  BY NatLessThanWellFounded DEF OpToRel, LessThan
<1>2. (0..N) \ T \in SUBSET Nat
  OBVIOUS
<1>3. PICK n \in (0..N) \ T : \A m \in (0..N) \ T : ~(<<m, n>> \in LessThan)
  BY <1>1, <1>2, WFMin
<1>4. n \in 1..N /\ n - 1 \in (0..N) \ T
  BY <1>3
<1>5. <<n - 1, n>> \in LessThan
  BY <1>4 DEF LessThan
<1>6. QED
  BY <1>3, <1>4, <1>5

Up(q) == \A i, j \in 1..Len(q) : i < j => q[i] <= q[j]

LEMMA SetOfAppended ==
  ASSUME NEW q \in Seq(Int), NEW x \in Int
  PROVE  /\ Append(q, x) \in Seq(Int)
         /\ ToSet(Append(q, x)) = ToSet(q) \cup {x}
         /\ StrictlyUp(q) /\ (\A y \in ToSet(q) : y < x) => StrictlyUp(Append(q, x))
<1> DEFINE r == Append(q, x)
<1>1. /\ r \in Seq(Int) /\ Len(r) = Len(q) + 1 /\ Len(q) \in Nat
      /\ \A i \in 1..Len(q) : r[i] = q[i] /\ q[i] \in Int
      /\ r[Len(q) + 1] = x
  OBVIOUS
<1>2. DOMAIN q = 1..Len(q) /\ DOMAIN r = 1..Len(q) + 1
  BY <1>1
<1> HIDE DEF r
<1>3. ToSet(r) = ToSet(q) \cup {x}
  <2>1. \A y \in ToSet(r) : y \in ToSet(q) \/ y = x
    BY <1>1, <1>2 DEF ToSet
  <2>2. \A y \in ToSet(q) : y \in ToSet(r)
    BY <1>1, <1>2 DEF ToSet
  <2>3. x \in ToSet(r)
    BY <1>1, <1>2 DEF ToSet
  <2>4. QED
    BY <2>1, <2>2, <2>3
<1>4. ASSUME StrictlyUp(q), \A y \in ToSet(q) : y < x
      PROVE  StrictlyUp(r)
  <2>1. \A i \in 1..Len(q) : q[i] < x
    BY <1>2, <1>4 DEF ToSet
  <2>2. ASSUME NEW i \in 1..Len(r), NEW j \in 1..Len(r), i < j
        PROVE  r[i] < r[j]
    <3>1. i \in 1..Len(q)
      BY <1>1, <2>2
    <3>2. CASE j = Len(q) + 1
      BY <1>1, <2>1, <3>1, <3>2
    <3>3. CASE j # Len(q) + 1
      <4>1. j \in 1..Len(q)
        BY <1>1, <3>3
      <4>2. QED
        BY <1>1, <1>4, <2>2, <3>1, <4>1 DEF StrictlyUp
    <3>4. QED
      BY <3>2, <3>3
  <2>3. QED
    BY <2>2 DEF StrictlyUp
<1>5. QED
  BY <1>1, <1>3, <1>4 DEF r

LEMMA SetOfPrefixed ==
  ASSUME NEW q \in Seq(Int), NEW x \in Int
  PROVE  /\ <<x>> \o q \in Seq(Int)
         /\ ToSet(<<x>> \o q) = {x} \cup ToSet(q)
         /\ Up(q) /\ (\A y \in ToSet(q) : x <= y) => Up(<<x>> \o q)
<1> DEFINE r == <<x>> \o q
<1>1. /\ r \in Seq(Int) /\ Len(r) = Len(q) + 1 /\ Len(q) \in Nat
      /\ r[1] = x
  OBVIOUS
<1>2. \A i \in 2..Len(q) + 1 : r[i] = q[i - 1] /\ i - 1 \in 1..Len(q)
  BY <1>1
<1>3. DOMAIN q = 1..Len(q) /\ DOMAIN r = 1..Len(q) + 1
  BY <1>1
<1>4. \A i \in 1..Len(q) : r[i + 1] = q[i] /\ i + 1 \in 1..Len(q) + 1 /\ q[i] \in Int
  BY <1>1, <1>2
<1> HIDE DEF r
<1>5. ToSet(r) = {x} \cup ToSet(q)
  <2>1. 1 \in 1..Len(q) + 1 /\ \A i \in 1..Len(q) + 1 : i = 1 \/ i \in 2..Len(q) + 1
    BY <1>1
  <2>2. ASSUME NEW y \in ToSet(r) PROVE y \in {x} \cup ToSet(q)
    <3>1. PICK i \in 1..Len(q) + 1 : y = r[i]
      BY <1>3 DEF ToSet
    <3>2. y = x \/ (i - 1 \in DOMAIN q /\ y = q[i - 1])
      BY <1>1, <1>2, <1>3, <2>1, <3>1
    <3>3. QED
      BY <3>2 DEF ToSet
  <2>3. x \in ToSet(r)
    BY <1>1, <1>3, <2>1 DEF ToSet
  <2>4. ASSUME NEW y \in ToSet(q) PROVE y \in ToSet(r)
    <3>1. PICK i \in 1..Len(q) : y = q[i]
      BY <1>3 DEF ToSet
    <3>2. i + 1 \in DOMAIN r /\ y = r[i + 1]
      BY <1>3, <1>4, <3>1
    <3>3. QED
      BY <3>2 DEF ToSet
  <2>5. QED
    BY <2>2, <2>3, <2>4
<1>6. ASSUME Up(q), \A y \in ToSet(q) : x <= y
      PROVE  Up(r)
  <2>1. \A i \in 1..Len(q) : x <= q[i]
    BY <1>3, <1>6 DEF ToSet
  <2>2. ASSUME NEW i \in 1..Len(r), NEW j \in 1..Len(r), i < j
        PROVE  r[i] <= r[j]
    <3>1. j \in 2..Len(q) + 1 /\ r[j] = q[j - 1] /\ j - 1 \in 1..Len(q)
      BY <1>1, <1>2, <2>2, SMTT(30)
    <3>2. CASE i = 1
      BY <1>1, <2>1, <3>1, <3>2
    <3>3. CASE i # 1
      <4>1. i \in 2..Len(q) + 1 /\ r[i] = q[i - 1] /\ i - 1 \in 1..Len(q) /\ i - 1 < j - 1
        BY <1>1, <1>2, <2>2, <3>3, SMTT(30)
      <4>2. \A k, l \in 1..Len(q) : k < l => q[k] <= q[l]
        BY <1>6 DEF Up
      <4>3. q[i - 1] <= q[j - 1]
        BY <3>1, <4>1, <4>2
      <4>4. QED
        BY <3>1, <4>1, <4>3
    <3>4. QED
      BY <3>2, <3>3
  <2>3. QED
    BY <2>2 DEF Up
<1>7. QED
  BY <1>1, <1>5, <1>6 DEF r

----------------------------------------------------------------------------
(* What Among selects. *)
AmongTo(f, s, S, n) ==
    IF n = 0 THEN <<>> ELSE IF s[n] \in S THEN Append(f[n - 1], s[n]) ELSE f[n - 1]
LEMMA AmongDefined ==
  ASSUME NEW s, NEW S, Len(s) \in Nat
  PROVE  \E f : f = [n \in 0..Len(s) |-> AmongTo(f, s, S, n)] /\ Among(s, S) = f[Len(s)]
<1> DEFINE N == Len(s)
           T == {m \in 0..N : \E f : f = [n \in 0..m |-> AmongTo(f, s, S, n)]}
<1>1. 0 \in T
  <2>1. [n \in 0..0 |-> <<>>] = [n \in 0..0 |-> AmongTo([n_1 \in 0..0 |-> <<>>], s, S, n)]
    BY DEF AmongTo
  <2>2. QED
    BY <2>1
<1>2. ASSUME NEW m \in 1..N, m - 1 \in T
      PROVE  m \in T
  <2>1. PICK f : f = [n \in 0..m - 1 |-> AmongTo(f, s, S, n)]
    BY <1>2
  <2> DEFINE g == [n \in 0..m |-> AmongTo(f, s, S, n)]
  <2>2. \A n \in 0..m - 1 : g[n] = f[n]
    BY <2>1
  <2>3. ASSUME NEW n \in 0..m PROVE AmongTo(f, s, S, n) = AmongTo(g, s, S, n)
    <3> HIDE DEF g
    <3>1. n = 0 \/ n - 1 \in 0..m - 1
      OBVIOUS
    <3>2. QED
      BY <2>2, <3>1 DEF AmongTo
  <2>4. g = [n \in 0..m |-> AmongTo(g, s, S, n)]
    BY <2>3
  <2> HIDE DEF g
  <2>5. QED
    BY <2>4
<1>3. N \in T
  <2> HIDE DEF T
  <2>1. \A n \in 0..N : n \in T
    BY <1>1, <1>2, InductionUpTo
  <2>2. QED
    BY <2>1
<1>4. \E f : f = [n \in 0..N |-> AmongTo(f, s, S, n)]
  BY <1>3
<1> DEFINE among == CHOOSE f : f = [n \in 0..N |-> AmongTo(f, s, S, n)]
<1>5. among = [n \in 0..N |-> AmongTo(among, s, S, n)]
  BY <1>4
<1>6. Among(s, S) = among[N]
  BY DEF Among, AmongTo
<1>7. QED
  BY <1>5, <1>6

LEMMA AmongSelects ==
  ASSUME NEW s \in Seq(Int), NEW S, StrictlyUp(s)
  PROVE  /\ Among(s, S) \in Seq(Int)
         /\ StrictlyUp(Among(s, S))
         /\ ToSet(Among(s, S)) = ToSet(s) \cap S
<1> DEFINE N == Len(s)
<1>1. N \in Nat /\ DOMAIN s = 1..N /\ \A i \in 1..N : s[i] \in Int
  OBVIOUS
<1>2. PICK f : f = [n \in 0..N |-> AmongTo(f, s, S, n)] /\ Among(s, S) = f[N]
  BY <1>1, AmongDefined
<1>a. \A n \in 0..N : f[n] = AmongTo(f, s, S, n)
  BY <1>2
<1> DEFINE Right(n) == /\ f[n] \in Seq(Int) /\ StrictlyUp(f[n])
                       /\ ToSet(f[n]) = {s[i] : i \in 1..n} \cap S
           T == {n \in 0..N : Right(n)}
<1>3. 0 \in T
  <2>1. f[0] = <<>>
    BY <1>1, <1>a DEF AmongTo
  <2>2. <<>> \in Seq(Int) /\ StrictlyUp(<<>>) /\ ToSet(<<>>) = {}
    BY DEF StrictlyUp, ToSet
  <2>3. {s[i] : i \in 1..0} = {}
    OBVIOUS
  <2>4. {s[i] : i \in 1..0} \cap S = {}
    BY <2>3
  <2>5. Right(0)
    BY <2>1, <2>2, <2>4, Zenon
  <2>6. 0 \in 0..N
    BY <1>1
  <2> HIDE DEF Right
  <2>7. QED
    BY <2>5, <2>6
<1>4. ASSUME NEW n \in 1..N, n - 1 \in T
      PROVE  n \in T
  <2> DEFINE q == f[n - 1]
  <2>1. /\ q \in Seq(Int) /\ StrictlyUp(q)
        /\ ToSet(q) = {s[i] : i \in 1..n - 1} \cap S
    BY <1>4
  <2>2. f[n] = IF s[n] \in S THEN Append(q, s[n]) ELSE q
    <3>1. n \in 0..N /\ n # 0
      OBVIOUS
    <3>2. QED
      BY <1>a, <3>1 DEF AmongTo
  <2>3. {s[i] : i \in 1..n} = {s[i] : i \in 1..n - 1} \cup {s[n]}
    BY <1>1
  <2>4. \A i \in 1..n - 1 : s[i] < s[n]
    BY <1>1 DEF StrictlyUp
  <2>5. \A y \in ToSet(q) : y < s[n]
    BY <2>1, <2>4
  <2> HIDE DEF q
  <2>6. Right(n)
    <3>1. CASE s[n] \in S
      <4>1. s[n] \in Int /\ f[n] = Append(q, s[n])
        BY <1>1, <2>2, <3>1
      <4>2. /\ f[n] \in Seq(Int) /\ StrictlyUp(f[n])
            /\ ToSet(f[n]) = ToSet(q) \cup {s[n]}
        BY <2>1, <2>5, <4>1, SetOfAppended
      <4>3. QED
        BY <2>1, <2>3, <3>1, <4>2
    <3>2. CASE s[n] \notin S
      BY <2>1, <2>2, <2>3, <3>2
    <3>3. QED
      BY <3>1, <3>2
  <2>7. QED
    BY <2>6
<1>5. N \in T
  <2> HIDE DEF T
  <2>1. \A n \in 0..N : n \in T
    BY <1>1, <1>3, <1>4, InductionUpTo
  <2>2. QED
    BY <1>1, <2>1
<1>6. ToSet(s) = {s[i] : i \in 1..N}
  BY <1>1 DEF ToSet
<1>7. QED
  BY <1>2, <1>5, <1>6

----------------------------------------------------------------------------
(* What the walk leads to. *)
Fingers(s1, s2) == (1..Len(s1) + 1) \X (1..Len(s2) + 1)
ToWalk(s1, s2, at) == (Len(s1) + 1 - at[1]) + (Len(s2) + 1 - at[2])
WalkFrom(f, s1, s2, at) ==
    IF at[1] > Len(s1) THEN SubSeq(s2, at[2], Len(s2))
    ELSE IF at[2] > Len(s2) THEN SubSeq(s1, at[1], Len(s1))
    ELSE IF s1[at[1]] <= s2[at[2]]
         THEN <<s1[at[1]]>> \o f[<<at[1] + 1, at[2]>>]
         ELSE <<s2[at[2]]>> \o f[<<at[1], at[2] + 1>>]

LEMMA FingersInPlace ==
  ASSUME NEW s1, NEW s2, Len(s1) \in Nat, Len(s2) \in Nat, NEW at \in Fingers(s1, s2)
  PROVE  /\ at[1] \in 1..Len(s1) + 1 /\ at[2] \in 1..Len(s2) + 1
         /\ at = <<at[1], at[2]>>
         /\ ToWalk(s1, s2, at) \in 0..Len(s1) + Len(s2)
<1>1. at[1] \in 1..Len(s1) + 1 /\ at[2] \in 1..Len(s2) + 1 /\ at = <<at[1], at[2]>>
  BY DEF Fingers
<1>2. ToWalk(s1, s2, at) \in 0..Len(s1) + Len(s2)
  BY <1>1 DEF ToWalk
<1>3. QED
  BY <1>1, <1>2

Nearer(s1, s2, to, at) ==
    to \in Fingers(s1, s2) /\ ToWalk(s1, s2, to) = ToWalk(s1, s2, at) - 1
LEMMA OneFingerMoves ==
  ASSUME NEW s1, NEW s2, Len(s1) \in Nat, Len(s2) \in Nat, NEW at \in Fingers(s1, s2),
         ~(at[1] > Len(s1)), ~(at[2] > Len(s2))
  PROVE  /\ Nearer(s1, s2, <<at[1] + 1, at[2]>>, at)
         /\ Nearer(s1, s2, <<at[1], at[2] + 1>>, at)
<1>1. at[1] \in 1..Len(s1) /\ at[2] \in 1..Len(s2) /\ at = <<at[1], at[2]>>
  BY FingersInPlace
<1>2. \A k, l \in Int : ToWalk(s1, s2, <<k, l>>) = (Len(s1) + 1 - k) + (Len(s2) + 1 - l)
  BY DEF ToWalk
<1>3. ASSUME NEW k \in 1..Len(s1), NEW l \in 1..Len(s2)
      PROVE  /\ ToWalk(s1, s2, <<k + 1, l>>) = ToWalk(s1, s2, <<k, l>>) - 1
             /\ ToWalk(s1, s2, <<k, l + 1>>) = ToWalk(s1, s2, <<k, l>>) - 1
  <2>1. /\ ToWalk(s1, s2, <<k, l>>) = (Len(s1) + 1 - k) + (Len(s2) + 1 - l)
        /\ ToWalk(s1, s2, <<k + 1, l>>) = (Len(s1) + 1 - (k + 1)) + (Len(s2) + 1 - l)
        /\ ToWalk(s1, s2, <<k, l + 1>>) = (Len(s1) + 1 - k) + (Len(s2) + 1 - (l + 1))
    BY <1>2
  <2>2. QED
    BY <2>1
<1>4. ASSUME NEW k \in 1..Len(s1), NEW l \in 1..Len(s2)
      PROVE  <<k + 1, l>> \in Fingers(s1, s2) /\ <<k, l + 1>> \in Fingers(s1, s2)
  BY DEF Fingers
<1>5. QED
  BY <1>1, <1>3, <1>4, Zenon DEF Nearer

LEMMA WalkDefined ==
  ASSUME NEW s1, NEW s2, Len(s1) \in Nat, Len(s2) \in Nat
  PROVE  \E f : /\ f = [at \in Fingers(s1, s2) |-> WalkFrom(f, s1, s2, at)]
                /\ Walk(s1, s2) = f[<<1, 1>>]
<1> DEFINE N == Len(s1) + Len(s2)
           Within(m) == {at \in Fingers(s1, s2) : ToWalk(s1, s2, at) <= m}
           T == {m \in 0..N : \E f : f = [at \in Within(m) |-> WalkFrom(f, s1, s2, at)]}
<1>1. N \in Nat
  OBVIOUS
<1>a. ASSUME NEW at \in Fingers(s1, s2)
      PROVE  /\ at[1] \in 1..Len(s1) + 1 /\ at[2] \in 1..Len(s2) + 1
             /\ ToWalk(s1, s2, at) \in 0..N
  BY FingersInPlace
<1>2. 0 \in T
  <2> DEFINE f == [at \in Within(0) |-> SubSeq(s2, at[2], Len(s2))]
  <2>1. ASSUME NEW at \in Within(0) PROVE at[1] > Len(s1)
    <3>1. at[1] \in 1..Len(s1) + 1 /\ at[2] \in 1..Len(s2) + 1
      BY <1>a
    <3>2. (Len(s1) + 1 - at[1]) + (Len(s2) + 1 - at[2]) <= 0
      BY DEF ToWalk
    <3>3. QED
      BY <3>1, <3>2
  <2>2. \A at \in Within(0) : WalkFrom(f, s1, s2, at) = SubSeq(s2, at[2], Len(s2))
    <3> HIDE DEF f
    <3>1. QED
      BY <2>1 DEF WalkFrom
  <2>3. f = [at \in Within(0) |-> WalkFrom(f, s1, s2, at)]
    BY <2>2
  <2> HIDE DEF f, Within
  <2>4. \E h : h = [at \in Within(0) |-> WalkFrom(h, s1, s2, at)]
    BY <2>3
  <2>5. QED
    BY <1>1, <2>4
<1>3. ASSUME NEW m \in 1..N, m - 1 \in T
      PROVE  m \in T
  <2>1. PICK f : f = [at \in Within(m - 1) |-> WalkFrom(f, s1, s2, at)]
    BY <1>3
  <2> DEFINE g == [at \in Within(m) |-> WalkFrom(f, s1, s2, at)]
  <2>2. Within(m - 1) \subseteq Within(m)
    BY <1>a
  <2>3. \A at \in Within(m - 1) : g[at] = f[at]
    <3>1. \A at \in Within(m - 1) : f[at] = WalkFrom(f, s1, s2, at)
      BY <2>1
    <3>2. \A at \in Within(m) : g[at] = WalkFrom(f, s1, s2, at)
      OBVIOUS
    <3> HIDE DEF g, Within
    <3>3. QED
      BY <2>2, <3>1, <3>2
  <2>4. ASSUME NEW at \in Within(m)
        PROVE  WalkFrom(f, s1, s2, at) = WalkFrom(g, s1, s2, at)
    <3> HIDE DEF g
    <3>1. CASE at[1] > Len(s1) \/ at[2] > Len(s2)
      BY <3>1 DEF WalkFrom
    <3>2. CASE ~(at[1] > Len(s1)) /\ ~(at[2] > Len(s2))
      <4>1. ASSUME NEW to \in {<<at[1] + 1, at[2]>>, <<at[1], at[2] + 1>>}
            PROVE  to \in Within(m - 1)
        <5>1. at \in Fingers(s1, s2) /\ ToWalk(s1, s2, at) <= m
          OBVIOUS
        <5>2. to \in Fingers(s1, s2) /\ ToWalk(s1, s2, to) = ToWalk(s1, s2, at) - 1
          <6>1. /\ Nearer(s1, s2, <<at[1] + 1, at[2]>>, at)
                /\ Nearer(s1, s2, <<at[1], at[2] + 1>>, at)
            BY <3>2, OneFingerMoves
          <6>2. Nearer(s1, s2, to, at)
            BY <6>1
          <6>3. QED
            BY <6>2 DEF Nearer
        <5>3. ToWalk(s1, s2, at) \in Int
          BY <1>a, <5>1
        <5>4. ToWalk(s1, s2, to) <= m - 1
          BY <5>1, <5>2, <5>3
        <5>5. QED
          BY <5>2, <5>4
      <4>2. \A to \in {<<at[1] + 1, at[2]>>, <<at[1], at[2] + 1>>} : g[to] = f[to]
        BY <2>3, <4>1
      <4>3. QED
        BY <3>2, <4>2 DEF WalkFrom
    <3>3. QED
      BY <3>1, <3>2
  <2>5. g = [at \in Within(m) |-> WalkFrom(g, s1, s2, at)]
    BY <2>4
  <2> HIDE DEF g, Within
  <2>6. \E h : h = [at \in Within(m) |-> WalkFrom(h, s1, s2, at)]
    BY <2>5
  <2>7. QED
    BY <2>6
<1>4. N \in T
  <2> HIDE DEF T
  <2>1. \A m \in 0..N : m \in T
    BY <1>1, <1>2, <1>3, InductionUpTo
  <2>2. QED
    BY <1>1, <2>1
<1>5. Within(N) = Fingers(s1, s2)
  BY <1>a
<1>6. \E f : f = [at \in Fingers(s1, s2) |-> WalkFrom(f, s1, s2, at)]
  BY <1>4, <1>5
<1> DEFINE from == CHOOSE f : f = [at \in Fingers(s1, s2) |-> WalkFrom(f, s1, s2, at)]
<1>7. from = [at \in Fingers(s1, s2) |-> WalkFrom(from, s1, s2, at)]
  BY <1>6
<1>8. Walk(s1, s2) = from[<<1, 1>>]
  BY DEF Walk, Fingers, WalkFrom
<1>9. QED
  BY <1>7, <1>8

LEMMA RestOfPiece ==
  ASSUME NEW s \in Seq(Int), StrictlyUp(s), NEW k \in 1..Len(s) + 1
  PROVE  LET rest == SubSeq(s, k, Len(s))
         IN  rest \in Seq(Int) /\ Up(rest) /\ ToSet(rest) = {s[i] : i \in k..Len(s)}
<1> DEFINE rest == SubSeq(s, k, Len(s))
<1>1. /\ Len(s) \in Nat /\ \A i \in 1..Len(s) : s[i] \in Int
      /\ rest \in Seq(Int) /\ Len(rest) = Len(s) + 1 - k
      /\ \A i \in 1..Len(rest) : rest[i] = s[k + i - 1]
  OBVIOUS
<1>2. DOMAIN rest = 1..Len(rest)
  BY <1>1
<1> HIDE DEF rest
<1>3. \A i \in 1..Len(rest) : k + i - 1 \in k..Len(s)
  BY <1>1
<1>4. \A i \in k..Len(s) : i - k + 1 \in 1..Len(rest) /\ k + (i - k + 1) - 1 = i
  BY <1>1
<1>5. ASSUME NEW i \in 1..Len(rest), NEW j \in 1..Len(rest), i < j
      PROVE  rest[i] <= rest[j]
  <2>1. k + i - 1 \in 1..Len(s) /\ k + j - 1 \in 1..Len(s) /\ k + i - 1 < k + j - 1
    BY <1>1, <1>3, <1>5
  <2>2. s[k + i - 1] < s[k + j - 1]
    BY <2>1 DEF StrictlyUp
  <2>3. rest[i] = s[k + i - 1] /\ rest[j] = s[k + j - 1]
    BY <1>1
  <2>4. s[k + i - 1] \in Int /\ s[k + j - 1] \in Int
    BY <1>1, <2>1
  <2>5. QED
    BY <2>2, <2>3, <2>4
<1>6. ASSUME NEW y \in ToSet(rest) PROVE y \in {s[i] : i \in k..Len(s)}
  <2>1. PICK i \in 1..Len(rest) : y = rest[i]
    BY <1>2 DEF ToSet
  <2>2. QED
    BY <1>1, <1>3, <2>1
<1>7. ASSUME NEW i \in k..Len(s) PROVE s[i] \in ToSet(rest)
  <2>1. s[i] = rest[i - k + 1]
    BY <1>1, <1>4
  <2>2. QED
    BY <1>2, <1>4, <2>1 DEF ToSet
<1>8. QED
  BY <1>1, <1>5, <1>6, <1>7 DEF rest, Up

LEMMA WalkSorts ==
  ASSUME NEW s1 \in Seq(Int), NEW s2 \in Seq(Int), StrictlyUp(s1), StrictlyUp(s2)
  PROVE  /\ Walk(s1, s2) \in Seq(Int)
         /\ Up(Walk(s1, s2))
         /\ ToSet(Walk(s1, s2)) = ToSet(s1) \cup ToSet(s2)
<1> DEFINE N == Len(s1) + Len(s2)
           Rest(s, k) == {s[i] : i \in k..Len(s)}
<1>1. /\ Len(s1) \in Nat /\ DOMAIN s1 = 1..Len(s1) /\ \A i \in 1..Len(s1) : s1[i] \in Int
      /\ Len(s2) \in Nat /\ DOMAIN s2 = 1..Len(s2) /\ \A i \in 1..Len(s2) : s2[i] \in Int
      /\ N \in Nat
  OBVIOUS
<1>2. PICK f : /\ f = [at \in Fingers(s1, s2) |-> WalkFrom(f, s1, s2, at)]
               /\ Walk(s1, s2) = f[<<1, 1>>]
  BY <1>1, WalkDefined
<1>3. \A at \in Fingers(s1, s2) : f[at] = WalkFrom(f, s1, s2, at)
  BY <1>2
<1> DEFINE Right(at) == /\ f[at] \in Seq(Int) /\ Up(f[at])
                        /\ ToSet(f[at]) = Rest(s1, at[1]) \cup Rest(s2, at[2])
           T == {m \in 0..N : \A at \in Fingers(s1, s2) : ToWalk(s1, s2, at) = m => Right(at)}
<1>4. ASSUME NEW s \in Seq(Int), StrictlyUp(s), NEW k \in 1..Len(s)
      PROVE  /\ Rest(s, k) = {s[k]} \cup Rest(s, k + 1)
             /\ \A y \in Rest(s, k) : y \in Int /\ s[k] <= y
  <2>1. Len(s) \in Nat /\ \A i \in 1..Len(s) : s[i] \in Int
    OBVIOUS
  <2>2. k..Len(s) = {k} \cup (k + 1..Len(s))
    BY <2>1
  <2>3. \A i \in k..Len(s) : s[i] \in Int /\ s[k] <= s[i]
    BY <1>4, <2>1, <2>2 DEF StrictlyUp
  <2>4. QED
    BY <2>2, <2>3
<1>5. ASSUME NEW at \in Fingers(s1, s2), at[1] > Len(s1) \/ at[2] > Len(s2)
      PROVE  Right(at)
  <2>1. at[1] \in 1..Len(s1) + 1 /\ at[2] \in 1..Len(s2) + 1
    BY <1>1, FingersInPlace
  <2>2. CASE at[1] > Len(s1)
    <3>1. Rest(s1, at[1]) = {}
      BY <1>1, <2>1, <2>2
    <3>2. f[at] = SubSeq(s2, at[2], Len(s2))
      BY <1>3, <2>2 DEF WalkFrom
    <3>3. QED
      BY <2>1, <3>1, <3>2, RestOfPiece
  <2>3. CASE ~(at[1] > Len(s1))
    <3>1. Rest(s2, at[2]) = {}
      BY <1>1, <1>5, <2>1, <2>3
    <3>2. f[at] = SubSeq(s1, at[1], Len(s1))
      BY <1>3, <1>5, <2>3 DEF WalkFrom
    <3>3. QED
      BY <2>1, <3>1, <3>2, RestOfPiece
  <2>4. QED
    BY <2>2, <2>3
<1>6. ASSUME NEW at \in Fingers(s1, s2), ~(at[1] > Len(s1)), ~(at[2] > Len(s2)),
             \A to \in {<<at[1] + 1, at[2]>>, <<at[1], at[2] + 1>>} : Right(to)
      PROVE  Right(at)
  <2> DEFINE i == at[1]
             j == at[2]
  <2>1. i \in 1..Len(s1) /\ j \in 1..Len(s2)
    BY <1>1, <1>6, FingersInPlace, SMTT(30)
  <2>2. /\ Rest(s1, i) = {s1[i]} \cup Rest(s1, i + 1)
        /\ \A y \in Rest(s1, i) : y \in Int /\ s1[i] <= y
        /\ Rest(s2, j) = {s2[j]} \cup Rest(s2, j + 1)
        /\ \A y \in Rest(s2, j) : y \in Int /\ s2[j] <= y
        /\ s1[i] \in Int /\ s2[j] \in Int
    <3> HIDE DEF i, j, Rest
    <3>1. /\ Rest(s1, i) = {s1[i]} \cup Rest(s1, i + 1)
          /\ \A y \in Rest(s1, i) : y \in Int /\ s1[i] <= y
      BY <1>4, <2>1
    <3>2. /\ Rest(s2, j) = {s2[j]} \cup Rest(s2, j + 1)
          /\ \A y \in Rest(s2, j) : y \in Int /\ s2[j] <= y
      BY <1>4, <2>1
    <3>3. QED
      BY <1>1, <2>1, <3>1, <3>2
  <2>3. Right(<<i + 1, j>>) /\ Right(<<i, j + 1>>)
    BY <1>6
  <2>4. f[at] = IF s1[i] <= s2[j] THEN <<s1[i]>> \o f[<<i + 1, j>>]
                ELSE <<s2[j]>> \o f[<<i, j + 1>>]
    BY <1>3, <1>6 DEF WalkFrom
  <2> HIDE DEF i, j, Rest
  <2>5. CASE s1[i] <= s2[j]
    <3> DEFINE q == f[<<i + 1, j>>]
    <3>1. q \in Seq(Int) /\ Up(q) /\ ToSet(q) = Rest(s1, i + 1) \cup Rest(s2, j)
      BY <2>3
    <3>2. \A y \in ToSet(q) : s1[i] <= y
      BY <2>2, <2>5, <3>1
    <3>3. f[at] = <<s1[i]>> \o q
      BY <2>4, <2>5
    <3> HIDE DEF q
    <3>4. f[at] \in Seq(Int) /\ Up(f[at]) /\ ToSet(f[at]) = {s1[i]} \cup ToSet(q)
      BY <2>2, <3>1, <3>2, <3>3, SetOfPrefixed
    <3>5. QED
      BY <2>2, <3>1, <3>4 DEF i, j
  <2>6. CASE ~(s1[i] <= s2[j])
    <3> DEFINE q == f[<<i, j + 1>>]
    <3>1. q \in Seq(Int) /\ Up(q) /\ ToSet(q) = Rest(s1, i) \cup Rest(s2, j + 1)
      BY <2>3
    <3>2. \A y \in ToSet(q) : s2[j] <= y
      BY <2>2, <2>6, <3>1
    <3>3. f[at] = <<s2[j]>> \o q
      BY <2>4, <2>6
    <3> HIDE DEF q
    <3>4. f[at] \in Seq(Int) /\ Up(f[at]) /\ ToSet(f[at]) = {s2[j]} \cup ToSet(q)
      BY <2>2, <3>1, <3>2, <3>3, SetOfPrefixed
    <3>5. QED
      BY <2>2, <3>1, <3>4 DEF i, j
  <2>7. QED
    BY <2>5, <2>6
<1> HIDE DEF Right
<1>7. 0 \in T
  <2>1. ASSUME NEW at \in Fingers(s1, s2), ToWalk(s1, s2, at) = 0
        PROVE  at[1] > Len(s1)
    <3>1. at[1] \in 1..Len(s1) + 1 /\ at[2] \in 1..Len(s2) + 1
      BY <1>1, FingersInPlace
    <3>2. (Len(s1) + 1 - at[1]) + (Len(s2) + 1 - at[2]) = 0
      BY <2>1 DEF ToWalk
    <3>3. Len(s1) \in Nat /\ Len(s2) \in Nat
      BY <1>1
    <3>4. \A a, b \in Nat : \A i \in 1..a + 1, j \in 1..b + 1 :
            (a + 1 - i) + (b + 1 - j) = 0 => i > a
      OBVIOUS
    <3>5. QED
      BY <3>1, <3>2, <3>3, <3>4
  <2>2. \A at \in Fingers(s1, s2) : ToWalk(s1, s2, at) = 0 => Right(at)
    BY <1>5, <2>1
  <2>3. QED
    BY <1>1, <2>2
<1>8. ASSUME NEW m \in 1..N, m - 1 \in T
      PROVE  m \in T
  <2>1. ASSUME NEW at \in Fingers(s1, s2), ToWalk(s1, s2, at) = m
        PROVE  Right(at)
    <3>1. CASE at[1] > Len(s1) \/ at[2] > Len(s2)
      BY <1>5, <3>1
    <3>2. CASE ~(at[1] > Len(s1)) /\ ~(at[2] > Len(s2))
      <4>1. ASSUME NEW to \in {<<at[1] + 1, at[2]>>, <<at[1], at[2] + 1>>}
            PROVE  Right(to)
        <5>1. to \in Fingers(s1, s2) /\ ToWalk(s1, s2, to) = m - 1
          <6>1. to \in Fingers(s1, s2) /\ ToWalk(s1, s2, to) = ToWalk(s1, s2, at) - 1
            <7>1. /\ Nearer(s1, s2, <<at[1] + 1, at[2]>>, at)
                  /\ Nearer(s1, s2, <<at[1], at[2] + 1>>, at)
              BY <1>1, <3>2, OneFingerMoves
            <7>2. Nearer(s1, s2, to, at)
              BY <7>1
            <7>3. QED
              BY <7>2 DEF Nearer
          <6>2. QED
            BY <2>1, <6>1
        <5>2. QED
          BY <1>8, <5>1
      <4>2. QED
        BY <1>6, <3>2, <4>1
    <3>3. QED
      BY <3>1, <3>2
  <2>2. \A at \in Fingers(s1, s2) : ToWalk(s1, s2, at) = m => Right(at)
    BY <2>1
  <2>3. QED
    BY <2>2
<1>9. Right(<<1, 1>>)
  <2>1. <<1, 1>> \in Fingers(s1, s2) /\ ToWalk(s1, s2, <<1, 1>>) = N
    BY <1>1 DEF Fingers, ToWalk
  <2>2. N \in T
    <3> HIDE DEF T, N
    <3>1. \A m \in 0..N : m \in T
      BY <1>1, <1>7, <1>8, InductionUpTo
    <3>2. QED
      BY <1>1, <3>1
  <2>3. QED
    BY <2>1, <2>2
<1>10. Rest(s1, 1) = ToSet(s1) /\ Rest(s2, 1) = ToSet(s2)
  BY <1>1 DEF ToSet
<1>11. QED
  <2>1. Right(<<1, 1>>) = (/\ f[<<1, 1>>] \in Seq(Int) /\ Up(f[<<1, 1>>])
                           /\ ToSet(f[<<1, 1>>]) = Rest(s1, 1) \cup Rest(s2, 1))
    BY DEF Right
  <2> HIDE DEF Rest
  <2>2. QED
    BY <1>2, <1>9, <1>10, <2>1

(* What is left once the repeats are dropped. *)
LEMMA DropRepeatsKeeps ==
  ASSUME NEW s \in Seq(Int), Up(s)
  PROVE  /\ DropRepeats(s) \in Seq(Int)
         /\ StrictlyUp(DropRepeats(s))
         /\ ToSet(DropRepeats(s)) = ToSet(s)
<1> DEFINE N == Len(s)
           ident == [k \in 1..N |-> k]
           New == {k \in 1..N : IsNew(s, k)}
           taken_1 == Among(ident, New)
           r == [n \in 1..Len(taken_1) |-> s[taken_1[n]]]
<1>1. N \in Nat /\ DOMAIN s = 1..N /\ \A k \in 1..N : s[k] \in Int
  OBVIOUS
<1>2. ident \in Seq(Int) /\ DOMAIN ident = 1..N /\ Len(ident) = N /\ \A k \in 1..N : ident[k] = k
  BY <1>1
<1>3. StrictlyUp(ident)
  <2> HIDE DEF ident
  <2>1. QED
    BY <1>1, <1>2 DEF StrictlyUp
<1>4. ToSet(ident) = 1..N
  <2> HIDE DEF ident
  <2>1. QED
    BY <1>2 DEF ToSet
<1>5. /\ taken_1 \in Seq(Int) /\ StrictlyUp(taken_1)
      /\ ToSet(taken_1) = New
  <2>1. 1..N \cap New = New
    OBVIOUS
  <2> HIDE DEF ident, New
  <2>2. QED
    BY <1>2, <1>3, <1>4, <2>1, AmongSelects
<1>6. DropRepeats(s) = r
  BY DEF DropRepeats
<1> HIDE DEF taken_1
<1>7. /\ Len(taken_1) \in Nat /\ DOMAIN taken_1 = 1..Len(taken_1)
      /\ \A n \in 1..Len(taken_1) : taken_1[n] \in 1..N /\ IsNew(s, taken_1[n])
  <2>1. Len(taken_1) \in Nat /\ DOMAIN taken_1 = 1..Len(taken_1)
    BY <1>5
  <2>2. \A n \in 1..Len(taken_1) : taken_1[n] \in New
    BY <1>5, <2>1 DEF ToSet
  <2>3. QED
    BY <2>1, <2>2
<1>8. \A n \in 1..Len(taken_1) : s[taken_1[n]] \in Int
  BY <1>1, <1>7
<1>9. /\ r \in Seq(Int) /\ Len(r) = Len(taken_1) /\ DOMAIN r = 1..Len(taken_1)
      /\ \A n \in 1..Len(taken_1) : r[n] = s[taken_1[n]]
  BY <1>7, <1>8
<1> HIDE DEF r
<1>10. ASSUME NEW i \in 1..Len(r), NEW j \in 1..Len(r), i < j
       PROVE  r[i] < r[j]
  <2> DEFINE a == taken_1[i]
             b == taken_1[j]
  <2>1. a \in 1..N /\ b \in 1..N /\ IsNew(s, b) /\ r[i] = s[a] /\ r[j] = s[b]
    BY <1>7, <1>9
  <2>2. a < b
    BY <1>5, <1>9, <1>10 DEF StrictlyUp
  <2> HIDE DEF a, b
  <2>3. b - 1 \in 1..N /\ a <= b - 1 /\ s[b] # s[b - 1]
    BY <2>1, <2>2 DEF IsNew
  <2>a. \A k, l \in 1..N : k < l => s[k] <= s[l]
    BY DEF Up
  <2>4. s[b - 1] <= s[b]
    BY <2>1, <2>3, <2>a, SMTT(30)
  <2>5. s[a] <= s[b - 1]
    <3>1. CASE a = b - 1
      BY <1>1, <2>1, <3>1
    <3>2. CASE a < b - 1
      BY <2>1, <2>3, <2>a, <3>2
    <3>3. QED
      BY <2>1, <2>3, <3>1, <3>2
  <2>6. s[a] \in Int /\ s[b] \in Int /\ s[b - 1] \in Int
    BY <1>1, <2>1, <2>3
  <2>7. s[a] < s[b]
    BY <2>3, <2>4, <2>5, <2>6
  <2>8. QED
    BY <2>1, <2>7
<1>11. ASSUME NEW y \in ToSet(s)
       PROVE  y \in ToSet(r)
  <2> DEFINE T == {k \in 0..N : k = 0 \/ \E d \in New : s[d] = s[k]}
  <2>1. 0 \in T
    BY <1>1
  <2>2. ASSUME NEW k \in 1..N, k - 1 \in T
        PROVE  k \in T
    <3>1. CASE IsNew(s, k)
      <4>1. k \in New
        BY <3>1
      <4> HIDE DEF New
      <4>2. QED
        BY <4>1
    <3>2. CASE ~IsNew(s, k)
      <4>1. k # 1 /\ s[k] = s[k - 1]
        BY <3>2 DEF IsNew
      <4>2. k - 1 # 0
        BY <4>1
      <4>3. \E d \in New : s[d] = s[k - 1]
        BY <2>2, <4>2
      <4> HIDE DEF New
      <4>4. QED
        BY <4>1, <4>3
    <3>3. QED
      BY <3>1, <3>2
  <2>3. \A k \in 0..N : k \in T
    <3> HIDE DEF T, N
    <3>1. QED
      BY <1>1, <2>1, <2>2, InductionUpTo
  <2>4. PICK k \in 1..N : y = s[k]
    BY <1>1 DEF ToSet
  <2>5. PICK d \in New : s[d] = s[k]
    <3>1. k \in T /\ k # 0
      BY <1>1, <2>3
    <3> HIDE DEF New
    <3>2. QED
      BY <3>1
  <2>6. PICK n \in 1..Len(taken_1) : d = taken_1[n]
    <3>1. d \in ToSet(taken_1)
      BY <1>5
    <3>2. QED
      BY <1>7, <3>1 DEF ToSet
  <2>7. y = r[n] /\ n \in DOMAIN r
    BY <1>9, <2>4, <2>5, <2>6
  <2>8. QED
    BY <2>7 DEF ToSet
<1>12. ASSUME NEW y \in ToSet(r)
       PROVE  y \in ToSet(s)
  <2>1. PICK n \in 1..Len(taken_1) : y = s[taken_1[n]]
    BY <1>9 DEF ToSet
  <2>2. QED
    BY <1>1, <1>7, <2>1 DEF ToSet
<1>13. StrictlyUp(r)
  BY <1>10 DEF StrictlyUp
<1>14. QED
  BY <1>6, <1>9, <1>11, <1>12, <1>13

LEMMA MergeKeepsOrder ==
  ASSUME NEW s1 \in Seq(Int), NEW s2 \in Seq(Int), StrictlyUp(s1), StrictlyUp(s2)
  PROVE  /\ MergeSortedTimeSeries(s1, s2) \in Seq(Int)
         /\ StrictlyUp(MergeSortedTimeSeries(s1, s2))
         /\ ToSet(MergeSortedTimeSeries(s1, s2)) = ToSet(s1) \cup ToSet(s2)
BY WalkSorts, DropRepeatsKeeps DEF MergeSortedTimeSeries

LEMMA OfNaturals ==
  ASSUME NEW q \in Seq(Int), ToSet(q) \subseteq Nat
  PROVE  q \in Seq(Nat)
<1>1. Len(q) \in Nat /\ DOMAIN q = 1..Len(q) /\ q = [i \in 1..Len(q) |-> q[i]]
  OBVIOUS
<1>2. \A i \in 1..Len(q) : q[i] \in Nat
  BY <1>1 DEF ToSet
<1>3. QED
  BY <1>1, <1>2

(* What the server returns of one series. *)
LEMMA SeriesOfWindow ==
  ASSUME NEW w, AWindow(w), NEW k \in Keys, history[k] \in SUBSET Nat
  PROVE  /\ SeriesIn(w, k) \in Seq(Nat)
         /\ StrictlyUp(SeriesIn(w, k))
         /\ ToSet(SeriesIn(w, k)) = Points(w) \cap history[k]
<1> DEFINE num == possiblePoints(w)
           grid == [n \in 1..num |-> w.start + (n - 1) * w.step]
<1>1. w.start \in Nat /\ w.end \in Nat /\ w.step \in Nat \ {0}
  BY DEF AWindow
<1>2. num \in Nat /\ (w.start > w.end => num = 0)
  <2>1. CASE w.start > w.end
    BY <2>1 DEF possiblePoints
  <2>2. CASE w.start <= w.end
    BY <1>1, <2>2, PossiblePoints
  <2>3. QED
    BY <1>1, <2>1, <2>2
<1> HIDE DEF num
<1>3. \A n \in 1..num : (n - 1) * w.step \in Nat
  BY <1>1, <1>2
<1>4. /\ grid \in Seq(Int) /\ Len(grid) = num /\ DOMAIN grid = 1..num
      /\ \A n \in 1..num : grid[n] = w.start + (n - 1) * w.step
  BY <1>1, <1>2, <1>3
<1>5. StrictlyUp(grid)
  <2>1. ASSUME NEW i \in 1..Len(grid), NEW j \in 1..Len(grid), i < j
        PROVE  grid[i] < grid[j]
    <3>1. i - 1 \in Int /\ j - 1 \in Int /\ i \in 1..num /\ j \in 1..num
      BY <1>2, <1>4
    <3>2. i * w.step <= (j - 1) * w.step
      BY <1>1, <1>2, <2>1, <3>1, Grows
    <3>3. (i - 1) * w.step = i * w.step - w.step /\ i * w.step \in Int
      <4>1. i \in Int /\ w.step \in Int
        BY <1>1, <3>1
      <4>2. \A c, d \in Int : (c - 1) * d = c * d - d /\ c * d \in Int
        OBVIOUS
      <4>3. QED
        BY <4>1, <4>2
    <3>4. (i - 1) * w.step < (j - 1) * w.step
      BY <1>1, <1>3, <3>1, <3>2, <3>3
    <3>5. grid[i] = w.start + (i - 1) * w.step /\ grid[j] = w.start + (j - 1) * w.step
      BY <1>4, <3>1
    <3>6. \A a, b, c \in Nat : a < b => c + a < c + b
      OBVIOUS
    <3>7. (i - 1) * w.step \in Nat /\ (j - 1) * w.step \in Nat
      BY <1>3, <3>1
    <3> HIDE DEF grid
    <3>8. QED
      BY <1>1, <3>4, <3>5, <3>6, <3>7
  <2>2. QED
    BY <2>1 DEF StrictlyUp
<1>6. ToSet(grid) = Points(w)
  <2>1. ASSUME NEW n \in 1..num
        PROVE  grid[n] \in Points(w)
    <3>1. (n - 1) * w.step <= (num - 1) * w.step /\ (num - 1) * w.step \in Int
      BY <1>1, <1>2, Grows
    <3>2. (num - 1) * w.step <= w.end - w.start
      <4>1. ~(w.start > w.end)
        BY <1>2
      <4>2. QED
        BY <1>1, <4>1, PossiblePoints DEF num
    <3>3. grid[n] \in w.start..w.end /\ grid[n] - w.start = (n - 1) * w.step
      BY <1>1, <1>3, <1>4, <3>1, <3>2
    <3>4. ((n - 1) * w.step) % w.step = 0
      <4>1. n - 1 \in Int /\ (n - 1) * w.step \in Nat
        BY <1>3
      <4>2. QED
        BY <1>1, <4>1, Multiples
    <3>5. QED
      BY <3>3, <3>4 DEF Points
  <2>2. ASSUME NEW t \in Points(w)
        PROVE  \E n \in 1..num : grid[n] = t
    <3> DEFINE x == t - w.start
               q == x \div w.step
    <3>1. t \in w.start..w.end /\ x \in Nat /\ x % w.step = 0 /\ w.start <= w.end
      BY <1>1 DEF Points
    <3>2. q \in Nat /\ x = q * w.step
      BY <1>1, <3>1, Multiples, Division
    <3>3. w.end - w.start < num * w.step
      BY <1>1, <3>1, PossiblePoints DEF num
    <3> HIDE DEF x, q
    <3>4. q < num
      <4>1. ~(num * w.step <= q * w.step)
        <5>1. x <= w.end - w.start /\ x \in Int /\ num * w.step \in Int
          BY <1>1, <1>2, <3>1 DEF x
        <5>2. QED
          BY <1>1, <3>2, <3>3, <5>1
      <4>2. QED
        BY <1>1, <1>2, <3>2, <4>1, Grows
    <3>5. q + 1 \in 1..num /\ (q + 1) - 1 = q
      BY <1>2, <3>2, <3>4
    <3>6. grid[q + 1] = t
      BY <1>1, <1>4, <3>1, <3>2, <3>5 DEF x
    <3>7. QED
      BY <3>5, <3>6
  <2>3. DOMAIN grid = 1..num
    BY <1>4
  <2> HIDE DEF grid, num
  <2>4. \A t : t \in ToSet(grid) <=> \E n \in 1..num : grid[n] = t
    BY <2>3 DEF ToSet
  <2>5. QED
    BY <2>1, <2>2, <2>4
<1>7. SeriesIn(w, k) = Among(grid, history[k])
  BY DEF SeriesIn, num
<1> HIDE DEF grid
<1>8. /\ SeriesIn(w, k) \in Seq(Int) /\ StrictlyUp(SeriesIn(w, k))
      /\ ToSet(SeriesIn(w, k)) = Points(w) \cap history[k]
  BY <1>4, <1>5, <1>6, <1>7, AmongSelects
<1>9. QED
  BY <1>8, OfNaturals

LEMMA EmptyOnlyWithout ==
  ASSUME NEW q \in Seq(Nat)
  PROVE  q = <<>> <=> ToSet(q) = {}
<1>1. Len(q) \in Nat /\ DOMAIN q = 1..Len(q)
  OBVIOUS
<1>2. ASSUME ToSet(q) = {} PROVE q = <<>>
  <2>1. ~(1 \in DOMAIN q)
    BY <1>2 DEF ToSet
  <2>2. Len(q) = 0
    BY <1>1, <2>1
  <2>3. QED
    BY <2>2
<1>3. ASSUME q = <<>> PROVE ToSet(q) = {}
  <2>1. DOMAIN q = {}
    BY <1>3
  <2>2. QED
    BY <2>1 DEF ToSet
<1>4. QED
  BY <1>2, <1>3

LEMMA ServerHolds ==
  ASSUME NEW w, AWindow(w), history \in Histories
  PROVE  HoldsAt(QueryRange(w), Points(w))
<1>1. ASSUME NEW k \in Keys
      PROVE  /\ SeriesIn(w, k) \in Seq(Nat) /\ StrictlyUp(SeriesIn(w, k))
             /\ ToSet(SeriesIn(w, k)) = Points(w) \cap history[k]
             /\ SeriesIn(w, k) # <<>> <=> Points(w) \cap history[k] # {}
  <2>1. history[k] \in SUBSET Nat
    BY ShardQueryAssumption
  <2>2. QED
    BY <2>1, SeriesOfWindow, EmptyOnlyWithout
<1>2. DOMAIN QueryRange(w) = {k \in Keys : Points(w) \cap history[k] # {}}
  BY <1>1 DEF QueryRange
<1>3. \A k \in DOMAIN QueryRange(w) : k \in Keys /\ QueryRange(w)[k] = SeriesIn(w, k)
  BY DEF QueryRange
<1>4. QED
  BY <1>1, <1>2, <1>3 DEF HoldsAt

LEMMA NothingHolds == HoldsAt(NoSeries, {})
<1>1. DOMAIN NoSeries = {}
  BY DEF NoSeries
<1>2. QED
  BY <1>1 DEF HoldsAt

(* A result that is folded in adds what its shard asked for. *)
LEMMA AddResultHolds ==
  ASSUME NEW map, NEW T, HoldsAt(map, T), history \in Histories,
         NEW r, NEW w, AWindow(w), r.ok => r.data = QueryRange(w)
  PROVE  HoldsAt(AddResult(map, r), IF r.ok THEN T \cup Points(w) ELSE T)
<1>1. CASE ~r.ok
  BY <1>1 DEF AddResult
<1>2. CASE r.ok
  <2> DEFINE data == r.data
             sum == AddResult(map, r)
             All == T \cup Points(w)
  <2>1. HoldsAt(data, Points(w))
    BY <1>2, ServerHolds
  <2>2. /\ DOMAIN sum = DOMAIN map \cup DOMAIN data
        /\ \A k \in DOMAIN sum :
              sum[k] = IF k \notin DOMAIN data THEN map[k]
                       ELSE IF k \notin DOMAIN map THEN data[k]
                       ELSE MergeSortedTimeSeries(map[k], data[k])
    BY <1>2 DEF AddResult
  <2> HIDE DEF data, sum
  <2>3. DOMAIN sum = {k \in Keys : All \cap history[k] # {}}
    BY <2>1, <2>2 DEF HoldsAt
  <2>4. ASSUME NEW k \in DOMAIN sum
        PROVE  sum[k] \in Seq(Nat) /\ StrictlyUp(sum[k]) /\ ToSet(sum[k]) = All \cap history[k]
    <3>1. k \in Keys
      BY <2>3
    <3>2. CASE k \notin DOMAIN data
      BY <2>1, <2>2, <3>1, <3>2 DEF HoldsAt
    <3>3. CASE k \notin DOMAIN map /\ k \in DOMAIN data
      BY <2>1, <2>2, <3>1, <3>3 DEF HoldsAt
    <3>4. CASE k \in DOMAIN map /\ k \in DOMAIN data
      <4>1. /\ map[k] \in Seq(Nat) /\ StrictlyUp(map[k]) /\ ToSet(map[k]) = T \cap history[k]
            /\ data[k] \in Seq(Nat) /\ StrictlyUp(data[k])
            /\ ToSet(data[k]) = Points(w) \cap history[k]
        BY <2>1, <3>4 DEF HoldsAt
      <4>2. map[k] \in Seq(Int) /\ data[k] \in Seq(Int)
        BY <4>1
      <4>3. sum[k] = MergeSortedTimeSeries(map[k], data[k])
        BY <2>2, <3>4
      <4>4. /\ sum[k] \in Seq(Int) /\ StrictlyUp(sum[k])
            /\ ToSet(sum[k]) = ToSet(map[k]) \cup ToSet(data[k])
        BY <4>1, <4>2, <4>3, MergeKeepsOrder
      <4>5. history[k] \subseteq Nat
        BY <3>1, ShardQueryAssumption
      <4>6. ToSet(sum[k]) = All \cap history[k]
        BY <4>1, <4>4
      <4>7. QED
        BY <4>4, <4>5, <4>6, OfNaturals
    <3>5. QED
      BY <3>2, <3>3, <3>4
  <2>5. HoldsAt(sum, All)
    BY <2>3, <2>4 DEF HoldsAt
  <2>6. QED
    BY <1>2, <2>5 DEF sum
<1>3. QED
  BY <1>1, <1>2

----------------------------------------------------------------------------
(* The merging of a range query, step by step. *)
LEMMA ShardsAreWindows ==
  ASSUME window \in Windows
  PROVE  /\ DOMAIN shards = 1..Len(shards) /\ Len(shards) \in Nat
         /\ Len(shards) = shardsNum(window, maxPointsPerTimeSeries)
         /\ \A i \in DOMAIN shards : AWindow(shards[i])
<1> DEFINE num == shardsNum(window, maxPointsPerTimeSeries)
<1>1. AWindow(window) /\ maxPointsPerTimeSeries \in Nat \ {0}
  BY ShardQueryAssumption DEF AWindow
<1>2. num \in Nat
  BY ShardsFitWindow
<1>3. DOMAIN shards = 1..num /\ Len(shards) = num
  BY <1>2 DEF shards, ComputeWindowShards
<1>4. ASSUME NEW i \in 1..num PROVE AWindow(shards[i])
  <2>1. /\ shards[i].start = window.start + (i - 1) * ((maxPointsPerTimeSeries - 1) * window.step)
        /\ (i - 1) * ((maxPointsPerTimeSeries - 1) * window.step) \in Nat
        /\ shards[i].end \in Nat /\ shards[i].step = window.step
    BY <1>1, ShardsInPlace DEF shards
  <2>2. QED
    BY <1>1, <2>1 DEF AWindow
<1>5. QED
  BY <1>2, <1>3, <1>4

Results == {ResultOf(i, ok) : i \in DOMAIN shards, ok \in BOOLEAN}
LEMMA ResultFields ==
  \A i, ok : /\ ResultOf(i, ok).shard = i /\ ResultOf(i, ok).ok = ok
             /\ ok => ResultOf(i, ok).data = QueryRange(shards[i])
BY DEF ResultOf

LEMMA ResultsChTyped ==
  ASSUME TypeOK, NEW n \in 1..Len(resultsCh)
  PROVE  /\ Len(resultsCh) \in Nat /\ DOMAIN resultsCh = 1..Len(resultsCh)
         /\ resultsCh[n].shard \in DOMAIN shards /\ resultsCh[n].ok \in BOOLEAN
         /\ resultsCh[n].ok => resultsCh[n].data = QueryRange(shards[resultsCh[n].shard])
<1>1. resultsCh \in Seq(Results)
  BY DEF TypeOK, Results
<1>2. resultsCh[n] \in Results
  BY <1>1
<1>3. PICK i \in DOMAIN shards, ok \in BOOLEAN : resultsCh[n] = ResultOf(i, ok)
  BY <1>2 DEF Results
<1>4. QED
  BY <1>1, <1>3, ResultFields

LEMMA InitMergeIInv == Init => MergeIInv
<1> SUFFICES ASSUME Init PROVE MergeIInv
  OBVIOUS
<1> USE DEF Init
<1>1. window \in Windows
  BY ShardQueryAssumption
<1>2. /\ answer.status = "pending" /\ answer.series = NoSeries /\ ~Answered
      /\ DOMAIN NoSeries = {}
  BY DEF NoAnswer, NoSeries, Answered
<1>3. <<>> \in Seq(Results) /\ Len(<<>>) = 0
  OBVIOUS
<1>4. TypeOK
  BY <1>1, <1>2, <1>3 DEF TypeOK, Results
<1>5. Received = {}
  BY DEF Received
<1>6. MergeKept
  BY <1>2, <1>5, NothingHolds DEF MergeKept
<1>7. QED
  BY <1>4, <1>6 DEF MergeIInv

(* What depends on the window and the history only. *)
LEMMA QueryAsBefore ==
  ASSUME UNCHANGED <<history, window>>
  PROVE  /\ shards' = shards /\ Results' = Results /\ LastShardEnd' = LastShardEnd
         /\ \A map, T : HoldsAt(map, T)' <=> HoldsAt(map, T)
<1>1. shards' = shards
  BY DEF shards
<1>2. \A w : QueryRange(w)' = QueryRange(w)
  BY DEF QueryRange, SeriesIn
<1>3. \A i, ok : ResultOf(i, ok)' = ResultOf(i, ok)
  BY <1>1, <1>2 DEF ResultOf
<1>4. Results' = Results
  BY <1>1, <1>3 DEF Results
<1>5. LastShardEnd' = LastShardEnd
  BY <1>1 DEF LastShardEnd
<1>6. \A map, T : HoldsAt(map, T)' <=> HoldsAt(map, T)
  BY DEF HoldsAt
<1>7. QED
  BY <1>1, <1>4, <1>5, <1>6

LEMMA AskedMergeIInv ==
  ASSUME MergeIInv, NEW w \in Windows, QueryRangeSync(w)
  PROVE  MergeIInv'
<1> USE DEF QueryRangeSync
<1> DEFINE n == Len(ComputeWindowShards(w, maxPointsPerTimeSeries))
<1>1. shards' = ComputeWindowShards(w, maxPointsPerTimeSeries)
  BY DEF shards
<1>2. /\ window' \in Windows /\ history' = history /\ history \in Histories
      /\ resultsMap' = NoSeries /\ resultsCh' = <<>> /\ taken' = 0 /\ answer' = NoAnswer
  BY DEF MergeIInv, TypeOK
<1>3. DOMAIN shards' = 1..n /\ n \in Nat
  <2>1. n = shardsNum(w, maxPointsPerTimeSeries) /\ n \in Nat
    <3>1. shardsNum(w, maxPointsPerTimeSeries) \in Nat
      BY ShardsFitWindow
    <3>2. QED
      BY <3>1 DEF ComputeWindowShards
  <2>2. QED
    BY <1>1, <2>1 DEF ComputeWindowShards
<1>4. /\ answer'.status = "pending" /\ answer'.series = NoSeries /\ ~Answered'
      /\ DOMAIN NoSeries = {}
  BY <1>2 DEF NoAnswer, NoSeries, Answered
<1>5. \/ n <= 1 /\ phase' = "direct" /\ running' = {}
      \/ ~(n <= 1) /\ phase' = "shards" /\ running' = 1..n
  OBVIOUS
<1>6. <<>> \in Seq(Results') /\ Len(<<>>) = 0
  OBVIOUS
<1> HIDE DEF n
<1>7. TypeOK'
  <2>1. phase' \in {"idle", "direct", "shards"} /\ running' \subseteq DOMAIN shards'
    BY <1>3, <1>5
  <2>2. resultsCh' \in Seq(Results') /\ taken' \in 0..Len(resultsCh')
    BY <1>2, <1>6
  <2>3. QED
    BY <1>2, <1>4, <2>1, <2>2 DEF TypeOK, Results
<1>8. Received' = {}
  BY <1>2 DEF Received
<1>9. HoldsAt(resultsMap, Received)'
  <2>1. DOMAIN resultsMap' = {}
    BY <1>2, <1>4
  <2>2. QED
    BY <1>8, <2>1 DEF HoldsAt
<1>10. phase' = "shards" => Len(shards') > 1 /\ DOMAIN shards' \ running' = {}
  BY <1>1, <1>3, <1>5 DEF n
<1>11. /\ phase' # "shards" => running' = {}
       /\ phase' = "direct" => Len(shards') <= 1
  BY <1>1, <1>5 DEF n
<1>12. QED
  BY <1>2, <1>4, <1>7, <1>9, <1>10, <1>11 DEF MergeIInv, MergeKept

LEMMA DirectReturnsMergeIInv ==
  ASSUME MergeIInv, NEW ok \in BOOLEAN, DirectReturns(ok)
  PROVE  MergeIInv'
<1> USE DEF DirectReturns, MergeIInv
<1>1. UNCHANGED <<history, window, running, resultsCh, taken, resultsMap>>
  OBVIOUS
<1>2. /\ shards' = shards /\ Results' = Results /\ LastShardEnd' = LastShardEnd
      /\ \A map, T : HoldsAt(map, T)' <=> HoldsAt(map, T)
  BY <1>1, QueryAsBefore
<1>3. Received' = Received
  BY <1>1, <1>2 DEF Received
<1>4. Len(shards) <= 1 /\ running = {} /\ ~Answered
  BY DEF MergeKept, NoAnswer, Answered
<1>5. {t \in Points(window) : t <= LastShardEnd} = Points(window)
  <2>1. LastShardEnd = window.end
    BY <1>4 DEF LastShardEnd
  <2>2. window.start \in Nat /\ window.end \in Nat
    BY ShardQueryAssumption DEF TypeOK
  <2>3. QED
    BY <2>1, <2>2 DEF Points
<1>6. HoldsAt(QueryRange(window), Points(window))
  <2>1. AWindow(window) /\ history \in Histories
    BY ShardQueryAssumption DEF TypeOK, AWindow
  <2>2. QED
    BY <2>1, ServerHolds
<1>7. \/ answer' = Delivered(QueryRange(window)) /\ answer'.status = "ok"
         /\ answer'.series = QueryRange(window)
      \/ answer' = Failed /\ answer'.status = "error" /\ answer'.series = NoSeries
  BY DEF Delivered, Failed
<1>8. /\ DOMAIN answer'.series \subseteq Keys
      /\ \A k \in DOMAIN answer'.series : answer'.series[k] \in Seq(Nat)
  <2>1. DOMAIN NoSeries = {}
    BY DEF NoSeries
  <2>2. QED
    BY <1>6, <1>7, <2>1 DEF HoldsAt
<1>9. TypeOK'
  <2>1. phase' = "idle" /\ answer'.status \in {"pending", "ok", "error"}
    BY <1>7
  <2>2. resultsCh' \in Seq(Results') /\ taken' \in 0..Len(resultsCh')
        /\ running' \subseteq DOMAIN shards'
    <3>1. /\ resultsCh \in Seq(Results) /\ running \subseteq DOMAIN shards
          /\ taken \in 0..Len(resultsCh)
      BY DEF TypeOK, Results
    <3>2. QED
      BY <1>1, <1>2, <3>1
  <2>3. QED
    BY <1>1, <1>8, <2>1, <2>2 DEF TypeOK, Results
<1>10. MergeKept'
  <2>1. HoldsAt(resultsMap, Received)'
    BY <1>1, <1>2, <1>3 DEF MergeKept, HoldsAt
  <2>2. Answered' => answer'.series = QueryRange(window)
    BY <1>7 DEF Answered
  <2>3. Answered' => HoldsAt(answer.series, {t \in Points(window) : t <= LastShardEnd})'
    <3>1. {t \in Points(window) : t <= LastShardEnd}' = Points(window)
      BY <1>1, <1>2, <1>5
    <3>2. QED
      BY <1>1, <1>2, <1>6, <2>2, <3>1 DEF HoldsAt
  <2>4. ~Answered' => answer'.series = NoSeries
    BY <1>7 DEF Answered
  <2>5. QED
    BY <1>1, <1>4, <2>1, <2>3, <2>4 DEF MergeKept
<1>11. QED
  BY <1>9, <1>10

LEMMA ShardReturnsMergeIInv ==
  ASSUME MergeIInv, NEW i \in running, NEW ok \in BOOLEAN, ShardReturns(i, ok)
  PROVE  MergeIInv'
<1> USE DEF ShardReturns
<1>1. UNCHANGED <<history, phase, window, taken, resultsMap, answer>>
  OBVIOUS
<1>2. /\ shards' = shards /\ Results' = Results /\ LastShardEnd' = LastShardEnd
      /\ \A map, T : HoldsAt(map, T)' <=> HoldsAt(map, T)
  BY <1>1, QueryAsBefore
<1>3. /\ resultsCh \in Seq(Results) /\ i \in DOMAIN shards /\ ResultOf(i, ok) \in Results
      /\ taken \in 0..Len(resultsCh)
  BY DEF MergeIInv, TypeOK, Results
<1>4. /\ resultsCh' \in Seq(Results) /\ Len(resultsCh') = Len(resultsCh) + 1
      /\ Len(resultsCh) \in Nat
      /\ \A n \in 1..Len(resultsCh) : resultsCh'[n] = resultsCh[n]
      /\ resultsCh'[Len(resultsCh) + 1] = ResultOf(i, ok)
      /\ DOMAIN resultsCh' = 1..Len(resultsCh) + 1 /\ DOMAIN resultsCh = 1..Len(resultsCh)
  <2> DEFINE r == ResultOf(i, ok)
  <2>1. resultsCh \in Seq(Results) /\ r \in Results /\ resultsCh' = Append(resultsCh, r)
    BY <1>3
  <2> HIDE DEF r
  <2>2. /\ resultsCh' \in Seq(Results) /\ Len(resultsCh') = Len(resultsCh) + 1
        /\ Len(resultsCh) \in Nat
        /\ \A n \in 1..Len(resultsCh) : resultsCh'[n] = resultsCh[n]
        /\ resultsCh'[Len(resultsCh) + 1] = r
    BY <2>1
  <2>3. QED
    BY <2>1, <2>2 DEF r
<1>5. running' = running \ {i}
  OBVIOUS
<1>6. TypeOK'
  <2>1. running' \subseteq DOMAIN shards' /\ taken' \in 0..Len(resultsCh')
    BY <1>1, <1>2, <1>3, <1>4, <1>5 DEF MergeIInv, TypeOK
  <2>2. resultsCh' \in Seq(Results')
    BY <1>2, <1>4
  <2>3. QED
    BY <1>1, <2>1, <2>2 DEF MergeIInv, TypeOK, Results
<1>7. Received' = Received
  <2>1. \A n \in 1..taken : resultsCh'[n] = resultsCh[n]
    BY <1>3, <1>4
  <2>2. QED
    BY <1>1, <1>2, <2>1 DEF Received
<1>8. phase' = "shards" =>
        /\ Len(shards') > 1
        /\ \A j \in DOMAIN shards' \ running' :
               \E n \in DOMAIN resultsCh' : resultsCh'[n].shard = j
  <2> SUFFICES ASSUME phase' = "shards", NEW j \in DOMAIN shards' \ running'
               PROVE  \E n \in DOMAIN resultsCh' : resultsCh'[n].shard = j
    BY <1>1, <1>2 DEF MergeIInv, MergeKept
  <2>1. CASE j = i
    <3>1. resultsCh'[Len(resultsCh) + 1].shard = j /\ Len(resultsCh) + 1 \in DOMAIN resultsCh'
      BY <1>4, <2>1, ResultFields
    <3>2. QED
      BY <3>1
  <2>2. CASE j # i
    <3>1. PICK n \in DOMAIN resultsCh : resultsCh[n].shard = j
      BY <1>1, <1>2, <1>5, <2>2 DEF MergeIInv, MergeKept
    <3>2. n \in DOMAIN resultsCh' /\ resultsCh'[n].shard = j
      BY <1>4, <3>1
    <3>3. QED
      BY <3>2
  <2>3. QED
    BY <2>1, <2>2
<1>9. MergeKept'
  <2>1. phase' # "shards" => running' = {}
    BY <1>1, <1>5 DEF MergeIInv, MergeKept
  <2>2. HoldsAt(resultsMap, Received)'
    BY <1>1, <1>2, <1>7 DEF MergeIInv, MergeKept, HoldsAt
  <2>3. Answered' <=> Answered
    BY <1>1 DEF Answered
  <2>4. Answered' => HoldsAt(answer.series, {t \in Points(window) : t <= LastShardEnd})'
    BY <1>1, <1>2, <2>3 DEF MergeIInv, MergeKept, HoldsAt
  <2>5. QED
    BY <1>1, <1>2, <1>8, <2>1, <2>2, <2>3, <2>4 DEF MergeIInv, MergeKept
<1>10. QED
  BY <1>6, <1>9 DEF MergeIInv

LEMMA MergeNextMergeIInv ==
  ASSUME MergeIInv, MergeNext
  PROVE  MergeIInv'
<1> USE DEF MergeNext
<1> DEFINE r == resultsCh[taken + 1]
           w == shards[r.shard]
<1>1. UNCHANGED <<history, phase, window, running, resultsCh, answer>>
  OBVIOUS
<1>2. /\ shards' = shards /\ Results' = Results /\ LastShardEnd' = LastShardEnd
      /\ \A map, T : HoldsAt(map, T)' <=> HoldsAt(map, T)
  BY <1>1, QueryAsBefore
<1>3. /\ taken \in 0..Len(resultsCh) /\ Len(resultsCh) \in Nat
      /\ window \in Windows /\ history \in Histories
  <2>1. resultsCh \in Seq(Results)
    BY DEF MergeIInv, TypeOK, Results
  <2>2. QED
    BY <2>1 DEF MergeIInv, TypeOK
<1>4. taken' = taken + 1 /\ taken + 1 \in 1..Len(resultsCh) /\ 1..taken + 1 = 1..taken \cup {taken + 1}
  BY <1>3
<1>5. /\ r.shard \in DOMAIN shards /\ r.ok \in BOOLEAN
      /\ r.ok => r.data = QueryRange(w)
  BY <1>4, ResultsChTyped DEF MergeIInv
<1>6. AWindow(w)
  BY <1>3, <1>5, ShardsAreWindows
<1>7. resultsMap' = AddResult(resultsMap, r)
  OBVIOUS
<1>8. Received' = IF r.ok THEN Received \cup Points(w) ELSE Received
  <2> DEFINE Oks(n) == {i \in 1..n : resultsCh[i].ok}
             Of(i) == Points(shards[resultsCh[i].shard])
  <2>1. Oks(taken + 1) = IF r.ok THEN Oks(taken) \cup {taken + 1} ELSE Oks(taken)
    BY <1>4
  <2>2. Received = UNION {Of(i) : i \in Oks(taken)}
    BY DEF Received
  <2>3. Received' = UNION {Of(i) : i \in Oks(taken + 1)}
    BY <1>1, <1>2, <1>4 DEF Received
  <2>4. Of(taken + 1) = Points(w)
    OBVIOUS
  <2> HIDE DEF Oks, Of
  <2>5. QED
    BY <2>1, <2>2, <2>3, <2>4
<1> HIDE DEF r, w
<1>9. HoldsAt(resultsMap', Received')
  <2>1. HoldsAt(resultsMap, Received)
    BY DEF MergeIInv, MergeKept
  <2>2. HoldsAt(AddResult(resultsMap, r), IF r.ok THEN Received \cup Points(w) ELSE Received)
    BY <1>3, <1>5, <1>6, <2>1, AddResultHolds
  <2>3. QED
    BY <1>7, <1>8, <2>2
<1>10. HoldsAt(resultsMap, Received)'
  BY <1>1, <1>9 DEF HoldsAt
<1>11. TypeOK'
  <2>1. DOMAIN resultsMap' \subseteq Keys
    BY <1>9 DEF HoldsAt
  <2>2. resultsCh' \in Seq(Results') /\ taken' \in 0..Len(resultsCh')
        /\ running' \subseteq DOMAIN shards'
    <3>1. /\ resultsCh \in Seq(Results) /\ running \subseteq DOMAIN shards
          /\ taken \in 0..Len(resultsCh)
      BY DEF MergeIInv, TypeOK, Results
    <3>2. QED
      BY <1>1, <1>2, <1>3, <1>4, <3>1
  <2>3. QED
    BY <1>1, <2>1, <2>2 DEF MergeIInv, TypeOK, Results
<1>12. MergeKept'
  <2>1. Answered' <=> Answered
    BY <1>1 DEF Answered
  <2>2. Answered' => HoldsAt(answer.series, {t \in Points(window) : t <= LastShardEnd})'
    BY <1>1, <1>2, <2>1 DEF MergeIInv, MergeKept, HoldsAt
  <2>3. QED
    BY <1>1, <1>2, <1>10, <2>1, <2>2 DEF MergeIInv, MergeKept
<1>13. QED
  BY <1>11, <1>12 DEF MergeIInv

(* When all results are received and none is an error, what was received   *)
(* is what the shards asked for, and that is the window but for its tail.  *)
LEMMA AllReceived ==
  ASSUME MergeIInv, phase = "shards", running = {}, taken = Len(resultsCh),
         ~AnyError(resultsCh)
  PROVE  Received = {t \in Points(window) : t <= LastShardEnd}
<1> DEFINE limit == maxPointsPerTimeSeries
           num == shardsNum(window, limit)
           asked(i) == Points(shards[i])
<1>1. /\ window \in Windows /\ resultsCh \in Seq(Results)
      /\ Len(shards) > 1
      /\ \A i \in DOMAIN shards : \E n \in DOMAIN resultsCh : resultsCh[n].shard = i
  BY DEF MergeIInv, MergeKept, TypeOK, Results
<1>2. /\ Len(shards) = num /\ num \in Nat /\ DOMAIN shards = 1..num
      /\ \A i \in 1..num : AWindow(shards[i])
  BY <1>1, ShardsAreWindows
<1>3. DOMAIN resultsCh = 1..taken /\ \A n \in 1..taken : resultsCh[n].ok
  <2>1. DOMAIN resultsCh = 1..Len(resultsCh)
    BY <1>1
  <2>2. QED
    BY <2>1 DEF AnyError
<1>4. Received = UNION {asked(i) : i \in 1..num}
  <2>1. Received = UNION {asked(resultsCh[n].shard) : n \in 1..taken}
    BY <1>3 DEF Received
  <2>2. \A n \in 1..taken : resultsCh[n].shard \in 1..num
    BY <1>2, <1>3, ResultsChTyped DEF MergeIInv
  <2>3. \A i \in 1..num : \E n \in 1..taken : resultsCh[n].shard = i
    BY <1>1, <1>2, <1>3
  <2> HIDE DEF asked
  <2>4. QED
    BY <2>1, <2>2, <2>3
<1>5. UNION {asked(i) : i \in 1..num} = Points(window) \ Lost(window, limit)
  BY <1>1, <1>2, ShardsFitWindow DEF shards
<1>6. LastShardEnd = ComputeWindowShards(window, limit)[num].end
  BY <1>1, <1>2 DEF LastShardEnd, shards
<1>7. LastShardEnd \in Int /\ Points(window) \subseteq Int
  <2>1. num \in DOMAIN shards
    BY <1>1, <1>2
  <2>2. QED
    BY <1>2, <1>6, <2>1 DEF AWindow, shards, Points
<1>8. Lost(window, limit) = {t \in Points(window) : t > LastShardEnd}
  BY <1>6 DEF Lost
<1> HIDE DEF limit, num, asked
<1>9. \A t \in Points(window) : ~(t > LastShardEnd) <=> t <= LastShardEnd
  BY <1>7
<1>10. QED
  BY <1>4, <1>5, <1>8, <1>9

LEMMA MergeEndsMergeIInv ==
  ASSUME MergeIInv, MergeEnds
  PROVE  MergeIInv'
<1> USE DEF MergeEnds
<1>1. UNCHANGED <<history, window, running, resultsCh, taken, resultsMap>>
  OBVIOUS
<1>2. /\ shards' = shards /\ Results' = Results /\ LastShardEnd' = LastShardEnd
      /\ \A map, T : HoldsAt(map, T)' <=> HoldsAt(map, T)
  BY <1>1, QueryAsBefore
<1>3. Received' = Received
  BY <1>1, <1>2 DEF Received
<1>4. \/ ~AnyError(resultsCh) /\ answer'.status = "ok" /\ answer'.series = resultsMap
      \/ answer'.status = "error" /\ answer'.series = NoSeries
  BY DEF ShardsAnswer, Delivered, Failed
<1>5. HoldsAt(resultsMap, Received)
  BY DEF MergeIInv, MergeKept
<1>6. /\ DOMAIN answer'.series \subseteq Keys
      /\ \A k \in DOMAIN answer'.series : answer'.series[k] \in Seq(Nat)
  <2>1. DOMAIN NoSeries = {}
    BY DEF NoSeries
  <2>2. QED
    BY <1>4, <1>5, <2>1 DEF HoldsAt
<1>7. TypeOK'
  <2>1. phase' = "idle" /\ answer'.status \in {"pending", "ok", "error"}
    BY <1>4
  <2>2. resultsCh' \in Seq(Results') /\ taken' \in 0..Len(resultsCh')
        /\ running' \subseteq DOMAIN shards'
    BY <1>1, <1>2 DEF MergeIInv, TypeOK, Results
  <2>3. QED
    BY <1>1, <1>6, <2>1, <2>2 DEF MergeIInv, TypeOK, Results
<1>8. MergeKept'
  <2>1. HoldsAt(resultsMap, Received)'
    BY <1>1, <1>2, <1>3, <1>5 DEF HoldsAt
  <2>2. Answered' => answer'.series = resultsMap /\ ~AnyError(resultsCh)
    BY <1>4 DEF Answered
  <2>3. Answered' => HoldsAt(answer.series, {t \in Points(window) : t <= LastShardEnd})'
    <3>1. ~AnyError(resultsCh) => Received = {t \in Points(window) : t <= LastShardEnd}
      BY AllReceived
    <3>2. {t \in Points(window) : t <= LastShardEnd}' = {t \in Points(window) : t <= LastShardEnd}
      BY <1>1, <1>2
    <3>3. QED
      BY <1>1, <1>2, <1>5, <2>2, <3>1, <3>2 DEF HoldsAt
  <2>4. ~Answered' => answer'.series = NoSeries
    BY <1>4 DEF Answered
  <2>5. QED
    BY <1>1, <2>1, <2>3, <2>4 DEF MergeKept
<1>9. QED
  BY <1>7, <1>8 DEF MergeIInv

LEMMA NextMergeIInv == MergeIInv /\ [Next]_vars => MergeIInv'
<1> SUFFICES ASSUME MergeIInv, [Next]_vars PROVE MergeIInv'
  OBVIOUS
<1>1. CASE QueryProceeds
  BY <1>1, DirectReturnsMergeIInv, ShardReturnsMergeIInv, MergeNextMergeIInv,
     MergeEndsMergeIInv DEF QueryProceeds
<1>2. CASE UNCHANGED vars
  <2> USE <1>2 DEF vars
  <2>1. /\ shards' = shards /\ Results' = Results /\ LastShardEnd' = LastShardEnd
        /\ \A map, T : HoldsAt(map, T)' <=> HoldsAt(map, T)
    BY QueryAsBefore
  <2>2. TypeOK'
    BY <2>1 DEF MergeIInv, TypeOK, Results
  <2>3. Received' = Received /\ (Answered' <=> Answered)
    BY <2>1 DEF Received, Answered
  <2>4. HoldsAt(resultsMap, Received)'
    BY <2>1, <2>3 DEF MergeIInv, MergeKept, HoldsAt
  <2>5. Answered' => HoldsAt(answer.series, {t \in Points(window) : t <= LastShardEnd})'
    BY <2>1, <2>3 DEF MergeIInv, MergeKept, HoldsAt
  <2>6. QED
    BY <2>1, <2>2, <2>3, <2>4, <2>5 DEF MergeIInv, MergeKept
<1>3. QED
  BY <1>1, <1>2, AskedMergeIInv DEF Next

LEMMA HeldFits == MergeIInv => ShardsFit
<1> SUFFICES ASSUME MergeIInv PROVE ShardsFit
  OBVIOUS
<1> DEFINE num == shardsNum(window, maxPointsPerTimeSeries)
<1>1. window \in Windows /\ history \in Histories
  BY DEF MergeIInv, TypeOK
<1>2. /\ Len(shards) = num /\ num \in Nat /\ DOMAIN shards = 1..num
      /\ AWindow(window)
  BY <1>1, ShardsAreWindows, ShardQueryAssumption DEF AWindow
<1>3. ShardWithinLimit
  BY <1>1, <1>2, ShardsFitWindow DEF ShardWithinLimit, shards
<1>4. ASSUME Answered
      PROVE  \A k \in Keys : \A t \in Points(window) \cap history[k] :
                 t <= LastShardEnd =>
                     k \in DOMAIN answer.series /\ t \in ToSet(answer.series[k])
  BY <1>4 DEF MergeIInv, MergeKept, HoldsAt
<1>5. Cardinality({t \in Points(window) : t > LastShardEnd})
          < IF Len(shards) <= 1 THEN 1 ELSE Len(shards)
  <2>1. CASE Len(shards) <= 1
    <3>1. LastShardEnd = window.end
      BY <2>1 DEF LastShardEnd
    <3>2. {t \in Points(window) : t > LastShardEnd} = {}
      BY <1>2, <3>1 DEF Points, AWindow
    <3>3. QED
      BY <2>1, <3>2, FS_EmptySet
  <2>2. CASE ~(Len(shards) <= 1)
    <3>1. LastShardEnd = ComputeWindowShards(window, maxPointsPerTimeSeries)[num].end
      BY <1>2, <2>2 DEF LastShardEnd, shards
    <3>2. {t \in Points(window) : t > LastShardEnd} = Lost(window, maxPointsPerTimeSeries)
      BY <3>1 DEF Lost
    <3>3. num > 0
      BY <1>2, <2>2
    <3>4. Cardinality(Lost(window, maxPointsPerTimeSeries)) < num
      BY <1>1, <3>3, ShardsFitWindow
    <3>5. QED
      BY <1>2, <2>2, <3>2, <3>4
  <2>3. QED
    BY <2>1, <2>2
<1>6. QED
  BY <1>3, <1>4, <1>5 DEF ShardsFit, LossOnlyAtTail

LEMMA HeldIsSubseries == MergeIInv => MergedIsSubseries
BY DEF MergeIInv, MergeKept, HoldsAt, MergedIsSubseries

(* What holds in any query keeps holding, in every interleaving. *)
LEMMA QueriesKept == Spec => []MergeIInv
<1>1. MergeIInv /\ [Next]_vars => MergeIInv'
  BY NextMergeIInv
<1>2. QED
  BY InitMergeIInv, <1>1, PTL DEF Spec

(* No request asks for more points than the limit.  Whatever order the     *)
(* goroutines answer in, every sample up to the end of the last shard is   *)
(* in the series that the query returns, and behind it are fewer points    *)
(* than there are shards.                                                  *)
THEOREM LossOnlyBehindShards == Spec => []ShardsFit
BY QueriesKept, HeldFits, PTL

(* Each series that a query returns is in strict time order and consists   *)
(* of samples that the server stores at points of the window.              *)
THEOREM MergingKeepsSeries == Spec => []MergedIsSubseries
BY QueriesKept, HeldIsSubseries, PTL

----------------------------------------------------------------------------
(* Seen from the range query the proxy is a caller like any other. *)
LEMMA RangeQuerySteps == [ProxyNext]_allVars => [Next]_vars
BY DEF ProxyNext, ProxyProceeds, RegisterProvider, DeleteProvider, Query, ProviderReturns,
       AskPrometheus, RangeQuery, PrometheusReturns, GivesUp, Next, allVars

THEOREM ProxyRunsRangeQueries == ProxySpec => Spec
<1>1. ProxyInit => Init
  BY DEF ProxyInit
<1>2. QED
  BY <1>1, RangeQuerySteps, PTL DEF ProxySpec, Spec

----------------------------------------------------------------------------
(* A query of a proxy, step by step. *)
LEMMA NoErrorInNothing == ~AnyError(<<>>)
<1>1. DOMAIN <<>> = {}
  OBVIOUS
<1>2. QED
  BY <1>1 DEF AnyError

LEMMA ResultsDiffer ==
  /\ NoResult # NotAvailable
  /\ \A p : From(p) # NoResult /\ From(p) # NotAvailable
  /\ \A p, q : From(p) = From(q) => p = q
<1>1. NoResult.status = "none" /\ NotAvailable.status = "error"
  BY DEF NoResult, NotAvailable
<1>2. \A p : From(p).status = "ok" /\ From(p).from = p
  BY DEF From
<1>3. QED
  BY <1>1, <1>2

LEMMA InitProxyIInv == ProxyInit => ProxyIInv
<1> SUFFICES ASSUME ProxyInit PROVE ProxyIInv
  OBVIOUS
<1>1. ListKept /\ ResultExplained
  BY ResultsDiffer DEF ProxyInit, ListKept, ResultExplained
<1>2. RangeQueryKept
  BY NoErrorInNothing DEF ProxyInit, Init, RangeQueryKept, ErrorIsReported
<1>3. QED
  BY <1>1, <1>2 DEF ProxyIInv

----------------------------------------------------------------------------
(* Without a step of the range query, what it has left stays as it was. *)
LEMMA RangeQueryRests ==
  ASSUME RangeQueryKept, UNCHANGED vars,
         phase # "idle" => proxyPhase' = "waiting",
         proxyPhase' = "waiting" => proxyPhase = "waiting"
  PROVE  RangeQueryKept'
BY DEF RangeQueryKept, vars, ErrorIsReported, AnyError, Answered

LEMMA RegisterProviderProxyIInv ==
  ASSUME ProxyIInv, NEW p, RegisterProvider(p)
  PROVE  ProxyIInv'
<1> USE DEF ProxyIInv, RegisterProvider, query
<1>1. ListKept'
  BY DEF ListKept, IsHead, Before
<1>2. ResultExplained'
  BY ResultsDiffer DEF ResultExplained, ListKept, Before, IsRangeQuery, Answered, vars
<1>3. RangeQueryKept'
  BY RangeQueryRests DEF RangeQueryKept
<1>4. QED
  BY <1>1, <1>2, <1>3

LEMMA DeleteProviderProxyIInv ==
  ASSUME ProxyIInv, NEW p, DeleteProvider(p)
  PROVE  ProxyIInv'
<1> USE DEF ProxyIInv, DeleteProvider, query
<1>1. ListKept'
  BY DEF ListKept, IsHead, Before
<1>2. ResultExplained'
  BY DEF ResultExplained, Before, IsRangeQuery, Answered, vars
<1>3. RangeQueryKept'
  BY RangeQueryRests DEF RangeQueryKept
<1>4. QED
  BY <1>1, <1>2, <1>3

(* The list is a snapshot: everyone who is there now is on it. *)
LEMMA QueryProxyIInv ==
  ASSUME ProxyIInv, Query
  PROVE  ProxyIInv'
<1> USE DEF ProxyIInv, Query
<1>1. ListKept'
  BY DEF ListKept, getSortedProviders
<1>2. ResultExplained'
  BY ResultsDiffer DEF ResultExplained
<1>3. RangeQueryKept'
  BY RangeQueryRests DEF RangeQueryKept
<1>4. QED
  BY <1>1, <1>2, <1>3

(* An answer comes from the head of the list: everyone before it who       *)
(* stayed is off the list, and so has failed.                              *)
LEMMA TakeExplains ==
  ASSUME ProxyIInv, proxyPhase # "idle", NEW p, IsHead(p), Take(From(p)),
         IsRangeQuery(p) => Answered', UNCHANGED <<kind, presence>>
  PROVE  ListKept' /\ ResultExplained'
<1> USE DEF ProxyIInv, Take, presence
<1>1. p \in seen \ errs /\ stayed \cap Before(p) \subseteq errs
  BY DEF ListKept, IsHead
<1>2. ListKept'
  BY DEF ListKept
<1>3. ResultExplained'
  BY <1>1, ResultsDiffer DEF ResultExplained, Before, IsRangeQuery
<1>4. QED
  BY <1>2, <1>3

LEMMA GoOnKeepsList ==
  ASSUME ProxyIInv, proxyPhase # "idle", NEW p, IsHead(p), GoOn(p), UNCHANGED <<kind, presence>>
  PROVE  ListKept' /\ ResultExplained'
<1> USE DEF ProxyIInv, GoOn, OtherProviders, presence
<1>1. result = NoResult /\ result' = NoResult
  BY DEF ListKept
<1>2. ListKept'
  BY <1>1 DEF ListKept, IsHead
<1>3. ResultExplained'
  BY <1>1, ResultsDiffer DEF ResultExplained
<1>4. QED
  BY <1>2, <1>3

LEMMA ProviderReturnsProxyIInv ==
  ASSUME ProxyIInv, NEW p, NEW ok \in BOOLEAN, ProviderReturns(p, ok)
  PROVE  ProxyIInv'
<1> USE DEF ProviderReturns
<1>1. ListKept' /\ ResultExplained'
  BY TakeExplains, GoOnKeepsList
<1>2. RangeQueryKept'
  BY RangeQueryRests DEF RangeQueryKept, ProxyIInv, Take, GoOn
<1>3. QED
  BY <1>1, <1>2 DEF ProxyIInv

LEMMA AskPrometheusProxyIInv ==
  ASSUME ProxyIInv, NEW w \in Windows, AskPrometheus(w)
  PROVE  ProxyIInv'
<1> USE DEF ProxyIInv, AskPrometheus, presence
<1>1. ListKept'
  BY DEF ListKept, IsHead, Before, IsRangeQuery
<1>2. ResultExplained'
  BY ResultsDiffer DEF ResultExplained, ListKept
<1>3. RangeQueryKept'
  BY DEF RangeQueryKept, QueryRangeSync, ErrorIsReported
<1>4. QED
  BY <1>1, <1>2, <1>3

(* The range query ends with an answer or with Failed, and with the latter *)
(* if any of its shards has failed.                                        *)
LEMMA RangeQueryProxyIInv ==
  ASSUME ProxyIInv, RangeQuery
  PROVE  ProxyIInv'
<1> USE DEF ProxyIInv, RangeQuery, proxyVars, query, presence
<1>1. proxyPhase = "waiting" /\ phase # "idle"
  BY DEF RangeQueryKept, QueryProceeds, DirectReturns, ShardReturns, MergeNext, MergeEnds
<1>2. ListKept'
  BY DEF ListKept, IsHead, Before
<1>3. ResultExplained'
  BY <1>1, ResultsDiffer DEF ResultExplained, ListKept
<1>4. Failed.status = "error" /\ \A map : Delivered(map).status = "ok"
  BY DEF Failed, Delivered
<1>5. RangeQueryKept'
  <2>1. ASSUME NEW ok \in BOOLEAN, DirectReturns(ok)
        PROVE  RangeQueryKept'
    BY <1>1, <1>4, <2>1, NoErrorInNothing
       DEF DirectReturns, RangeQueryKept, ErrorIsReported, AnyError, Answered
  <2>2. ASSUME NEW i \in running, NEW ok \in BOOLEAN, ShardReturns(i, ok)
        PROVE  RangeQueryKept'
    BY <1>1, <2>2 DEF ShardReturns, RangeQueryKept, ErrorIsReported
  <2>3. CASE MergeNext
    BY <1>1, <2>3 DEF MergeNext, RangeQueryKept, ErrorIsReported
  <2>4. CASE MergeEnds
    BY <1>1, <1>4, <2>4
       DEF MergeEnds, RangeQueryKept, ErrorIsReported, ShardsAnswer, AnyError, Answered
  <2>5. QED
    BY <2>1, <2>2, <2>3, <2>4 DEF QueryProceeds
<1>6. QED
  BY <1>2, <1>3, <1>5

LEMMA PrometheusReturnsProxyIInv ==
  ASSUME ProxyIInv, PrometheusReturns
  PROVE  ProxyIInv'
<1> USE DEF PrometheusReturns
<1>1. IsHead(prom) /\ (answer = Failed \/ Answered)
  BY DEF ProxyIInv, ListKept, RangeQueryKept
<1>2. Answered => Answered'
  BY DEF Answered, vars
<1>3. ListKept' /\ ResultExplained'
  BY <1>1, <1>2, TakeExplains, GoOnKeepsList
<1>4. RangeQueryKept'
  BY RangeQueryRests DEF RangeQueryKept, ProxyIInv, Take, GoOn
<1>5. QED
  BY <1>3, <1>4 DEF ProxyIInv

(* The list is used up: everyone who stayed has failed. *)
LEMMA GivesUpProxyIInv ==
  ASSUME ProxyIInv, GivesUp
  PROVE  ProxyIInv'
<1> USE DEF ProxyIInv, GivesUp, Take, presence
<1>1. ListKept'
  BY DEF ListKept
<1>2. ResultExplained'
  BY ResultsDiffer DEF ResultExplained, ListKept
<1>3. RangeQueryKept'
  BY RangeQueryRests DEF RangeQueryKept
<1>4. QED
  BY <1>1, <1>2, <1>3

LEMMA NextProxyIInv == ProxyIInv /\ [ProxyNext]_allVars => ProxyIInv'
<1> SUFFICES ASSUME ProxyIInv, [ProxyNext]_allVars PROVE ProxyIInv'
  OBVIOUS
<1>1. CASE ProxyProceeds
  BY <1>1, ProviderReturnsProxyIInv, AskPrometheusProxyIInv, RangeQueryProxyIInv,
     PrometheusReturnsProxyIInv, GivesUpProxyIInv DEF ProxyProceeds
<1>2. CASE UNCHANGED allVars
  <2> USE <1>2 DEF ProxyIInv, allVars, proxyVars, query, presence
  <2>1. ListKept' /\ ResultExplained'
    BY DEF ListKept, ResultExplained, IsHead, Before, IsRangeQuery, Answered, vars
  <2>2. RangeQueryKept'
    BY RangeQueryRests DEF RangeQueryKept
  <2>3. QED
    BY <2>1, <2>2
<1>3. QED
  BY <1>1, <1>2, RegisterProviderProxyIInv, DeleteProviderProxyIInv, QueryProxyIInv DEF ProxyNext

(* However providers come and go while a query is on its way, nobody who   *)
(* was there all the time is passed over, and a range query of which any   *)
(* shard has failed is never taken for an answer.                          *)
THEOREM ProxiesAskEveryone == ProxySpec => []NobodyPassedOver
<1>1. ProxyIInv /\ [ProxyNext]_allVars => ProxyIInv'
  BY NextProxyIInv
<1>2. ProxyIInv => NobodyPassedOver
  <2> SUFFICES ASSUME ProxyIInv PROVE NobodyPassedOver
    OBVIOUS
  <2> USE DEF ProxyIInv
  <2>1. ASSUME result.status = "ok"
        PROVE  \E p \in seen \ errs : result = From(p) /\ result.from = p
    BY <2>1 DEF ResultExplained, NoResult, NotAvailable, From
  <2>2. QED
    BY <2>1 DEF ListKept, ResultExplained, RangeQueryKept, NobodyPassedOver
<1>3. QED
  BY InitProxyIInv, <1>1, <1>2, PTL DEF ProxySpec

----------------------------------------------------------------------------
(* Who is on the lists is somebody whose name may be there. *)
ListsTyped ==
    /\ kind \in Kinds
    /\ registered \subseteq ToSet(Names[kind]) /\ seen \subseteq ToSet(Names[kind])
    /\ stayed \subseteq seen
    /\ providers \subseteq ToSet(Names[kind]) /\ errs \subseteq ToSet(Names[kind])
    /\ proxyPhase \in {"idle", "asking", "waiting"}

LEMMA NextListsTyped == ListsTyped /\ ProxyIInv /\ [ProxyNext]_allVars => ListsTyped'
<1> SUFFICES ASSUME ListsTyped, ProxyIInv, [ProxyNext]_allVars PROVE ListsTyped'
  OBVIOUS
<1> USE DEF ListsTyped, query, presence, proxyVars
<1>1. ASSUME NEW p \in ToSet(Names[kind]), RegisterProvider(p) PROVE ListsTyped'
  BY <1>1 DEF RegisterProvider
<1>2. ASSUME NEW p \in ToSet(Names[kind]), DeleteProvider(p) PROVE ListsTyped'
  BY <1>2 DEF DeleteProvider
<1>3. CASE Query
  BY <1>3 DEF Query, getSortedProviders
<1>4. ASSUME NEW p \in providers, NEW ok \in BOOLEAN, ProviderReturns(p, ok) PROVE ListsTyped'
  BY <1>4 DEF ProviderReturns, Take, GoOn, OtherProviders
<1>5. ASSUME NEW w \in Windows, AskPrometheus(w) PROVE ListsTyped'
  BY <1>5 DEF AskPrometheus
<1>6. CASE RangeQuery
  BY <1>6 DEF RangeQuery
<1>7. CASE PrometheusReturns
  <2>1. prom \in providers
    BY <1>7 DEF PrometheusReturns, ProxyIInv, ListKept, IsHead
  <2>2. QED
    BY <1>7, <2>1 DEF PrometheusReturns, Take, GoOn, OtherProviders
<1>8. CASE GivesUp
  BY <1>8 DEF GivesUp, Take
<1>9. CASE UNCHANGED allVars
  BY <1>9 DEF allVars
<1>10. QED
  BY <1>1, <1>2, <1>3, <1>4, <1>5, <1>6, <1>7, <1>8, <1>9 DEF ProxyNext, ProxyProceeds

(* The lists of a proxy hold names of providers, the range query behind it *)
(* is well typed at each of its steps, and the invariants that the other   *)
(* theorems rest on hold together.                                         *)
THEOREM ProxyKept == ProxySpec => []ProxyInv
<1>1. ProxyInit => ListsTyped
  BY DEF ProxyInit, ListsTyped
<1>2. ListsTyped /\ ProxyIInv /\ [ProxyNext]_allVars => ListsTyped'
  BY NextListsTyped
<1>3. ProxyIInv /\ [ProxyNext]_allVars => ProxyIInv'
  BY NextProxyIInv
<1>4. ListsTyped /\ ProxyIInv /\ MergeIInv => ProxyInv
  BY DEF ListsTyped, ProxyIInv, RangeQueryKept, MergeIInv, ProxyTypeOK, ProxyInv
<1>5. QED
  BY <1>1, <1>2, <1>3, <1>4, InitProxyIInv, ProxyRunsRangeQueries, QueriesKept, PTL DEF ProxySpec
=============================================================================
