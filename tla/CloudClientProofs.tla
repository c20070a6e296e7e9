------------------------- MODULE CloudClientProofs -------------------------
(***************************************************************************)
(* Proofs about the fan-out of the cloud client, for any regions, any of   *)
(* them without a name, any number of retries, any bucket of tokens and    *)
(* any number of failures.                                                 *)
(***************************************************************************)
EXTENDS CloudClient, FiniteSetTheorems, TLAPS

(* Sequences as channels: one item goes in at the end, one comes out at    *)
(* the front.                                                              *)
LEMMA Sent ==
  ASSUME NEW S, NEW q \in Seq(S), NEW x \in S
  PROVE  /\ Append(q, x) \in Seq(S) /\ Len(Append(q, x)) = Len(q) + 1
         /\ ToSet(Append(q, x)) = ToSet(q) \cup {x}
<1>1. /\ Append(q, x) \in Seq(S) /\ Len(q) \in Nat /\ Len(Append(q, x)) = Len(q) + 1
      /\ \A i \in 1..Len(q) : Append(q, x)[i] = q[i]
      /\ Append(q, x)[Len(q) + 1] = x
  OBVIOUS
<1>2. DOMAIN q = 1..Len(q) /\ DOMAIN Append(q, x) = 1..Len(q) \cup {Len(q) + 1}
  BY <1>1
<1>3. QED
  BY <1>1, <1>2 DEF ToSet

LEMMA Received ==
  ASSUME NEW S, NEW q \in Seq(S), q # <<>>
  PROVE  /\ Tail(q) \in Seq(S) /\ Len(q) \in Nat /\ Len(Tail(q)) = Len(q) - 1
         /\ Head(q) \in S
         /\ ToSet(q) = {Head(q)} \cup ToSet(Tail(q))
<1>1. /\ Tail(q) \in Seq(S) /\ Len(q) \in Nat \ {0} /\ Len(Tail(q)) = Len(q) - 1
      /\ Head(q) = q[1] /\ q[1] \in S
      /\ \A i \in 1..Len(Tail(q)) : Tail(q)[i] = q[i + 1]
  OBVIOUS
<1>2. DOMAIN q = 1..Len(q) /\ DOMAIN Tail(q) = 1..Len(Tail(q))
  BY <1>1
<1>3. /\ \A i \in 1..Len(Tail(q)) : i + 1 \in 1..Len(q)
      /\ \A j \in 1..Len(q) : j = 1 \/ (j - 1 \in 1..Len(Tail(q)) /\ (j - 1) + 1 = j)
      /\ 1 \in 1..Len(q)
  BY <1>1
<1>4. ToSet(q) \subseteq {Head(q)} \cup ToSet(Tail(q))
  <2> SUFFICES ASSUME NEW j \in 1..Len(q), q[j] # Head(q)
               PROVE  q[j] \in ToSet(Tail(q))
    BY <1>2 DEF ToSet
  <2>1. j - 1 \in 1..Len(Tail(q)) /\ Tail(q)[j - 1] = q[j]
    BY <1>1, <1>3
  <2>2. QED
    BY <1>2, <2>1 DEF ToSet
<1>5. {Head(q)} \cup ToSet(Tail(q)) \subseteq ToSet(q)
  BY <1>1, <1>2, <1>3 DEF ToSet
<1>6. QED
  BY <1>1, <1>4, <1>5

LEMMA EmptyChannel == ToSet(<<>>) = {}
BY DEF ToSet

(* The goroutines are finitely many. *)
LEMMA GoroutinesFinite ==
  ASSUME TypeOK
  PROVE  IsFiniteSet(regionInfos) /\ IsFiniteSet(Running) /\ IsFiniteSet(Finished)
<1>1. Running \subseteq Regions /\ Finished \subseteq Regions /\ regionInfos \subseteq Regions
  BY DEF TypeOK, Running, Finished, Named
<1>2. QED
  BY <1>1, FS_Subset, CloudClientAssumption

LEMMA InitIInv == Init => IInv
<1> SUFFICES ASSUME Init PROVE IInv
  OBVIOUS
<1> USE DEF Init
<1>1. Running = {} /\ Finished = {} /\ {r \in regionInfos : worker[r] # "returned"} = {}
  BY DEF Running, Finished, Named
<1>2. Cardinality({}) = 0
  BY FS_EmptySet
<1>3. DefaultRetryCnt + 1 \in Nat /\ Burst \in Nat /\ MaxFailures \in Nat /\ DefaultRetryCnt \in Nat
  BY CloudClientAssumption
<1>4. TypeOK
  BY <1>1, <1>2, <1>3 DEF TypeOK
<1>5. Started /\ TriesLeft /\ ClosedBehindTheLast
  BY <1>1, <1>3 DEF Started, TriesLeft, ClosedBehindTheLast
<1>6. Accounted
  <2>1. Failed = {} /\ errors \in Seq(Regions)
    BY EmptyChannel DEF Failed
  <2>2. QED
    BY <1>1, <1>2, <2>1, EmptyChannel DEF Accounted
<1>7. QED
  BY <1>4, <1>5, <1>6 DEF IInv

----------------------------------------------------------------------------
(* The goroutines are counted before the first of them can be done. *)
LEMMA GetAllRegionsIInv ==
  ASSUME IInv, NEW infos \in SUBSET Regions, GetAllRegions(infos)
  PROVE  IInv'
<1> USE DEF IInv, GetAllRegions, channels
<1>1. Accounted /\ regionInfos = {} /\ closed = {}
  BY DEF RegionsUnknown, Started
<1>2. Finished = {} /\ Finished' = {} /\ Running' = infos
  BY <1>1 DEF Finished, Named, Running, TypeOK
<1>3. TypeOK'
  <2>1. {r \in regionInfos' : worker'[r] # "returned"} = infos
    BY DEF TypeOK
  <2>2. QED
    BY <2>1 DEF TypeOK
<1>4. Started' /\ TriesLeft' /\ ClosedBehindTheLast'
  BY <1>1, CloudClientAssumption DEF Started, TriesLeft, ClosedBehindTheLast, TypeOK
<1>5. Accounted'
  <2>1. Len(insConfsCh) + Len(instanceConfs) + Len(errorCh) + Len(errors) = 0
    BY <1>1, <1>2, FS_EmptySet DEF Accounted
  <2>2. insConfsCh = <<>> /\ errorCh = <<>> /\ errors = <<>>
    BY <1>1, <2>1 DEF TypeOK, Accounted
  <2>3. QED
    BY <1>1, <1>2, <2>1, <2>2, EmptyChannel, FS_EmptySet DEF Accounted, Failed
<1>6. QED
  BY <1>3, <1>4, <1>5

LEMMA GetAllRegionsFailsIInv ==
  ASSUME IInv, GetAllRegionsFails
  PROVE  IInv'
<1> USE DEF IInv, GetAllRegionsFails, channels
<1>1. Accounted /\ regionInfos = {} /\ closed = {}
  BY DEF RegionsUnknown, Started
<1>2. Finished = {}
  BY <1>1 DEF Finished, Named
<1>3. TypeOK'
  BY CloudClientAssumption DEF TypeOK
<1>4. Started' /\ TriesLeft' /\ ClosedBehindTheLast'
  BY <1>1 DEF Started, TriesLeft, ClosedBehindTheLast, TypeOK
<1>5. RegionsUnknown'
  <2>1. Len(insConfsCh) + Len(instanceConfs) + Len(errorCh) + Len(errors) = 0
    BY <1>1, <1>2, FS_EmptySet DEF Accounted
  <2>2. insConfsCh = <<>> /\ errorCh = <<>>
    BY <1>1, <2>1 DEF TypeOK, Accounted
  <2>3. QED
    BY <1>1, <2>2 DEF RegionsUnknown
<1>6. QED
  BY <1>3, <1>4, <1>5

----------------------------------------------------------------------------
(* While one goroutine is on its way the caller reads answers, and the     *)
(* closer waits.                                                           *)
LEMMA OnItsWay ==
  ASSUME IInv, NEW r \in Regions, worker[r] \notin {"none", "returned"}
  PROVE  r \in Running /\ r \in regionInfos /\ closed = {} /\ pc = "reading" /\ Accounted
<1>1. r \in regionInfos /\ r \in Running
  BY DEF IInv, Started, Running
<1>2. closed = {} /\ Accounted
  BY <1>1 DEF IInv, ClosedBehindTheLast, RegionsUnknown
<1>3. pc = "reading"
  BY <1>1, <1>2 DEF IInv, TypeOK, Started, Accounted
<1>4. QED
  BY <1>1, <1>2, <1>3

(* A step that sends nothing and is not done. *)
LEMMA SilentStep ==
  ASSUME IInv, NEW r \in Regions, worker[r] \notin {"none", "returning", "returned"},
         NEW w, worker' = [worker EXCEPT ![r] = w],
         w \in {"accepting", "calling", "answered", "failed"} \/ (w = "returning" /\ r \notin NamedRegions),
         UNCHANGED <<caller, wg, channels>>,
         \A x \in Regions \ {r} : attempts'[x] = attempts[x]
  PROVE  /\ Running' = Running
         /\ wg' = Cardinality({x \in regionInfos : worker[x] # "returned"})'
         /\ worker' \in [Regions -> {"none", "started", "accepting", "calling", "answered",
                                     "failed", "returning", "returned"}]
         /\ r \in NamedRegions \/ w = "returning" => Started'
         /\ ClosedBehindTheLast' /\ Accounted'
<1> USE DEF caller, channels
<1>1. /\ r \in regionInfos /\ closed = {} /\ pc = "reading" /\ Accounted
      /\ regionInfos \subseteq Regions
      /\ worker \in [Regions -> {"none", "started", "accepting", "calling", "answered",
                                 "failed", "returning", "returned"}]
  BY OnItsWay DEF IInv, TypeOK
<1>2. worker'[r] = w /\ \A x \in Regions \ {r} : worker'[x] = worker[x]
  BY <1>1
<1>3. /\ Running' = Running
      /\ {x \in regionInfos : worker[x] # "returned"}' = {x \in regionInfos : worker[x] # "returned"}
  BY <1>1, <1>2 DEF Running
<1>4. Finished' = Finished
  BY <1>1, <1>2 DEF Finished, Named
<1>5. worker' \in [Regions -> {"none", "started", "accepting", "calling", "answered",
                               "failed", "returning", "returned"}]
  BY <1>1
<1>6. r \in NamedRegions \/ w = "returning" => Started'
  BY <1>1, <1>2 DEF Started, IInv
<1>7. ClosedBehindTheLast'
  BY <1>1 DEF ClosedBehindTheLast
<1>8. Accounted'
  <2>1. Failed' = Failed
    BY DEF Failed
  <2>2. r \notin Failed /\ Failed \subseteq Regions
    BY <1>1 DEF Accounted, Finished, Named
  <2>3. \A x \in Failed : GaveUp(x)'
    BY <1>1, <2>2 DEF Accounted, GaveUp
  <2>4. QED
    BY <1>1, <1>4, <2>1, <2>3 DEF Accounted
<1>9. wg' = Cardinality({x \in regionInfos : worker[x] # "returned"})'
  BY <1>3 DEF IInv, TypeOK
<1>10. QED
  BY <1>3, <1>5, <1>6, <1>7, <1>8, <1>9

LEMMA StartIInv ==
  ASSUME IInv, NEW r \in Regions, Start(r)
  PROVE  IInv'
<1> DEFINE w == IF r \in NamedRegions THEN "accepting" ELSE "returning"
<1>0. worker' = [worker EXCEPT ![r] = w] /\ client' \in BOOLEAN /\ worker[r] = "started"
  BY DEF Start, IInv, TypeOK
<1>1. /\ Running' = Running /\ Started' /\ ClosedBehindTheLast' /\ Accounted'
      /\ wg' = Cardinality({x \in regionInfos : worker[x] # "returned"})'
      /\ worker' \in [Regions -> {"none", "started", "accepting", "calling", "answered",
                                  "failed", "returning", "returned"}]
  BY <1>0, SilentStep DEF Start
<1>2. TypeOK'
  BY <1>0, <1>1 DEF Start, IInv, TypeOK, caller, channels
<1>3. TriesLeft'
  BY <1>0, CloudClientAssumption DEF Start, IInv, TriesLeft, TypeOK, GaveUp
<1>4. QED
  BY <1>1, <1>2, <1>3 DEF IInv

(* Without a client no attempt is made. *)
LEMMA GetClientFailsIInv ==
  ASSUME IInv, NEW r \in Regions, GetClientFails(r)
  PROVE  IInv'
<1>1. /\ Running' = Running /\ Started' /\ ClosedBehindTheLast' /\ Accounted'
      /\ wg' = Cardinality({x \in regionInfos : worker[x] # "returned"})'
      /\ worker' \in [Regions -> {"none", "started", "accepting", "calling", "answered",
                                  "failed", "returning", "returned"}]
  BY SilentStep DEF GetClientFails
<1>2. TypeOK'
  BY <1>1, CloudClientAssumption DEF GetClientFails, IInv, TypeOK, caller, channels
<1>3. TriesLeft'
  BY DEF GetClientFails, IInv, TriesLeft, TypeOK, GaveUp
<1>4. QED
  BY <1>1, <1>2, <1>3 DEF IInv

(* Only a region with a name is asked for. *)
LEMMA Asked ==
  ASSUME IInv, NEW r \in Regions, worker[r] \in {"accepting", "calling", "answered", "failed"}
  PROVE  r \in NamedRegions
BY DEF IInv, Started

LEMMA AcceptIInv ==
  ASSUME IInv, NEW r \in Regions, Accept(r)
  PROVE  IInv'
<1>1. /\ Running' = Running /\ Started' /\ ClosedBehindTheLast' /\ Accounted'
      /\ wg' = Cardinality({x \in regionInfos : worker[x] # "returned"})'
      /\ worker' \in [Regions -> {"none", "started", "accepting", "calling", "answered",
                                  "failed", "returning", "returned"}]
  BY SilentStep, Asked DEF Accept
<1>2. TypeOK'
  BY <1>1, CloudClientAssumption DEF Accept, IInv, TypeOK, caller, channels
<1>3. TriesLeft'
  BY DEF Accept, IInv, TriesLeft, TypeOK, GaveUp
<1>4. QED
  BY <1>1, <1>2, <1>3 DEF IInv

LEMMA SucceedsIInv ==
  ASSUME IInv, NEW r \in Regions, Succeeds(r)
  PROVE  IInv'
<1>0. /\ attempts[r] \in Nat /\ attempts[r] <= DefaultRetryCnt /\ DefaultRetryCnt \in Nat
      /\ attempts'[r] = attempts[r] + 1
      /\ \A x \in Regions \ {r} : attempts'[x] = attempts[x]
  BY CloudClientAssumption DEF Succeeds, IInv, TypeOK, TriesLeft
<1>1. /\ Running' = Running /\ Started' /\ ClosedBehindTheLast' /\ Accounted'
      /\ wg' = Cardinality({x \in regionInfos : worker[x] # "returned"})'
      /\ worker' \in [Regions -> {"none", "started", "accepting", "calling", "answered",
                                  "failed", "returning", "returned"}]
  BY <1>0, SilentStep, Asked DEF Succeeds, caller
<1>2. TypeOK'
  BY <1>0, <1>1 DEF Succeeds, IInv, TypeOK, caller, channels
<1>3. TriesLeft'
  BY <1>0 DEF Succeeds, IInv, TriesLeft, TypeOK, GaveUp
<1>4. QED
  BY <1>1, <1>2, <1>3 DEF IInv

LEMMA FailsIInv ==
  ASSUME IInv, NEW r \in Regions, Fails(r)
  PROVE  IInv'
<1>0. /\ attempts[r] \in Nat /\ attempts[r] <= DefaultRetryCnt /\ DefaultRetryCnt \in Nat
      /\ attempts'[r] = attempts[r] + 1
      /\ \A x \in Regions \ {r} : attempts'[x] = attempts[x]
  BY CloudClientAssumption DEF Fails, IInv, TypeOK, TriesLeft
<1>1. /\ Running' = Running /\ Started' /\ ClosedBehindTheLast' /\ Accounted'
      /\ wg' = Cardinality({x \in regionInfos : worker[x] # "returned"})'
      /\ worker' \in [Regions -> {"none", "started", "accepting", "calling", "answered",
                                  "failed", "returning", "returned"}]
  BY <1>0, SilentStep, Asked DEF Fails, caller
<1>2. TypeOK'
  BY <1>0, <1>1, CloudClientAssumption DEF Fails, IInv, TypeOK, caller, channels
<1>3. TriesLeft'
  BY <1>0 DEF Fails, IInv, TriesLeft, TypeOK, LastTry, GaveUp
<1>4. QED
  BY <1>1, <1>2, <1>3 DEF IInv

(* One item for a region with a name, whatever became of its call. *)
LEMMA SendIInv ==
  ASSUME IInv, NEW r \in Regions, Send(r)
  PROVE  IInv'
<1> USE DEF IInv, Send, caller
<1>1. /\ r \in regionInfos /\ closed = {} /\ pc = "reading" /\ Accounted
      /\ r \in NamedRegions /\ regionInfos \subseteq Regions
      /\ worker \in [Regions -> {"none", "started", "accepting", "calling", "answered",
                                 "failed", "returning", "returned"}]
  BY OnItsWay, Asked DEF TypeOK
<1>2. worker'[r] = "returning" /\ \A x \in Regions \ {r} : worker'[x] = worker[x]
  BY <1>1
<1>3. {x \in regionInfos : worker[x] # "returned"}' = {x \in regionInfos : worker[x] # "returned"}
  BY <1>1, <1>2
<1>4. /\ insConfsCh \in Seq(Regions) /\ errorCh \in Seq(Regions)
      /\ instanceConfs \in Seq(Regions) /\ errors \in Seq(Regions)
      /\ AskedFor(r) \in Regions /\ AskedFor(r) = Configured
  BY <1>1, CloudClientAssumption DEF TypeOK, Accounted, AskedFor
<1>5. \/ /\ insConfsCh' = Append(insConfsCh, AskedFor(r)) /\ insConfsCh' \in Seq(Regions)
         /\ Len(insConfsCh') = Len(insConfsCh) + 1
         /\ ToSet(insConfsCh') = ToSet(insConfsCh) \cup {Configured}
         /\ errorCh' = errorCh
      \/ /\ worker[r] = "failed" /\ insConfsCh' = insConfsCh /\ errorCh' \in Seq(Regions)
         /\ Len(errorCh') = Len(errorCh) + 1 /\ ToSet(errorCh') = ToSet(errorCh) \cup {r}
  <2>1. CASE worker[r] = "answered"
    <3>1. insConfsCh' = Append(insConfsCh, AskedFor(r)) /\ errorCh' = errorCh
      BY <2>1
    <3>2. QED
      BY <1>4, <3>1, Sent
  <2>2. CASE worker[r] = "failed"
    <3>1. errorCh' = Append(errorCh, r) /\ insConfsCh' = insConfsCh
      BY <2>2
    <3>2. QED
      BY <1>4, <2>2, <3>1, Sent
  <2>3. QED
    BY <2>1, <2>2
<1>6. TypeOK'
  BY <1>1, <1>3, <1>5 DEF TypeOK
<1>7. Started' /\ TriesLeft' /\ ClosedBehindTheLast'
  BY <1>1, <1>2 DEF Started, TriesLeft, ClosedBehindTheLast, GaveUp
<1>8. Accounted'
  <2>1. r \notin Finished /\ Finished' = Finished \cup {r}
    BY <1>1, <1>2 DEF Finished, Named
  <2>2. Cardinality(Finished') = Cardinality(Finished) + 1
    BY <2>1, GoroutinesFinite, FS_AddElement
  <2>3. /\ Len(insConfsCh) \in Nat /\ Len(errorCh) \in Nat
        /\ Len(instanceConfs) \in Nat /\ Len(errors) \in Nat
    BY <1>4
  <2>4. Len(insConfsCh') + Len(instanceConfs') + Len(errorCh') + Len(errors')
          = Cardinality(Finished')
    BY <1>1, <1>5, <2>2, <2>3 DEF Accounted
  <2>5. /\ Len(errorCh') + Len(errors) = Cardinality(Failed')
        /\ Failed' \subseteq Finished'
        /\ \A x \in Failed' : GaveUp(x)'
    <3>1. CASE errorCh' = errorCh
      BY <1>1, <2>1, <3>1 DEF Accounted, Failed, GaveUp
    <3>2. CASE /\ worker[r] = "failed" /\ Len(errorCh') = Len(errorCh) + 1
               /\ ToSet(errorCh') = ToSet(errorCh) \cup {r}
      <4>1. Failed' = Failed \cup {r} /\ r \notin Failed
        BY <1>1, <2>1, <3>2 DEF Failed, Accounted
      <4>2. IsFiniteSet(Failed)
        BY <1>1, GoroutinesFinite, FS_Subset DEF Accounted
      <4>3. Cardinality(Failed') = Cardinality(Failed) + 1
        BY <4>1, <4>2, FS_AddElement
      <4>4. GaveUp(r)'
        BY <1>1, <3>2 DEF TriesLeft, GaveUp
      <4>5. \A x \in Failed : GaveUp(x)'
        BY <1>1 DEF Accounted, GaveUp
      <4>6. QED
        BY <1>1, <2>1, <2>3, <3>2, <4>1, <4>3, <4>4, <4>5 DEF Accounted
    <3>3. QED
      BY <1>5, <3>1, <3>2
  <2>6. ToSet(insConfsCh') \cup ToSet(instanceConfs') \subseteq {Configured}
    BY <1>1, <1>5 DEF Accounted
  <2>7. QED
    BY <1>1, <1>4, <2>4, <2>5, <2>6 DEF Accounted
<1>9. QED
  BY <1>6, <1>7, <1>8

(* The counter follows those who are not done. *)
LEMMA DoneIInv ==
  ASSUME IInv, NEW r \in Regions, Done(r)
  PROVE  IInv'
<1> USE DEF IInv, Done, caller, channels
<1>1. /\ r \in regionInfos /\ r \in Running /\ closed = {} /\ pc = "reading" /\ Accounted
      /\ regionInfos \subseteq Regions
      /\ worker \in [Regions -> {"none", "started", "accepting", "calling", "answered",
                                 "failed", "returning", "returned"}]
  BY OnItsWay DEF TypeOK
<1>2. worker'[r] = "returned" /\ \A x \in Regions \ {r} : worker'[x] = worker[x]
  BY <1>1
<1>3. wg' = Cardinality({x \in regionInfos : worker[x] # "returned"})'
  <2>1. {x \in regionInfos : worker[x] # "returned"}' = Running \ {r}
    BY <1>1, <1>2 DEF Running
  <2>2. Cardinality(Running \ {r}) = Cardinality(Running) - 1
    BY <1>1, GoroutinesFinite, FS_RemoveElement
  <2>3. wg = Cardinality(Running)
    BY DEF TypeOK, Running
  <2>4. QED
    BY <2>1, <2>2, <2>3
<1>4. TypeOK'
  BY <1>1, <1>3 DEF TypeOK
<1>5. Started' /\ TriesLeft' /\ ClosedBehindTheLast'
  BY <1>1, <1>2 DEF Started, TriesLeft, ClosedBehindTheLast, GaveUp
<1>6. Accounted'
  <2>1. Finished' = Finished
    BY <1>1, <1>2 DEF Finished, Named
  <2>2. QED
    BY <1>1, <2>1 DEF Accounted, Failed, GaveUp
<1>7. QED
  BY <1>4, <1>5, <1>6

(* The closer has waited for the last of them. *)
LEMMA CloseIInv ==
  ASSUME IInv, Close
  PROVE  IInv'
<1> USE DEF IInv, Close, caller
<1>1. Accounted
  BY DEF RegionsUnknown
<1>2. Running = {}
  BY GoroutinesFinite, FS_EmptySet DEF TypeOK, Running, AllDone
<1>3. TypeOK'
  BY DEF TypeOK
<1>4. Started' /\ TriesLeft'
  BY DEF Started, TriesLeft, GaveUp
<1>5. ClosedBehindTheLast'
  BY <1>2 DEF ClosedBehindTheLast, Running
<1>6. Accounted'
  BY <1>1 DEF Accounted, Finished, Named, Failed, GaveUp
<1>7. QED
  BY <1>3, <1>4, <1>5, <1>6

(* The caller takes over what it reads. *)
LEMMA ReadAnswerIInv ==
  ASSUME IInv, ReadAnswer
  PROVE  IInv'
<1> USE DEF IInv, ReadAnswer
<1>1. Accounted
  BY DEF RegionsUnknown
<1>2. insConfsCh \in Seq(Regions) /\ instanceConfs \in Seq(Regions)
  BY DEF TypeOK
<1>3. /\ insConfsCh' \in Seq(Regions) /\ instanceConfs' \in Seq(Regions)
      /\ Len(insConfsCh') = Len(insConfsCh) - 1
      /\ Len(instanceConfs') = Len(instanceConfs) + 1
      /\ Len(insConfsCh) \in Nat /\ Len(instanceConfs) \in Nat
      /\ ToSet(insConfsCh') \cup ToSet(instanceConfs') = ToSet(insConfsCh) \cup ToSet(instanceConfs)
  BY <1>2, Sent, Received
<1>4. TypeOK'
  BY <1>3 DEF TypeOK
<1>5. Started' /\ TriesLeft' /\ ClosedBehindTheLast'
  BY DEF Started, TriesLeft, ClosedBehindTheLast, Running, GaveUp
<1>6. Accounted'
  <2>1. errorCh \in Seq(Regions) /\ errors \in Seq(Regions)
    BY <1>1 DEF TypeOK, Accounted
  <2>2. Len(errorCh) \in Nat /\ Len(errors) \in Nat
    BY <2>1
  <2>3. Len(insConfsCh') + Len(instanceConfs') + Len(errorCh) + Len(errors) = Cardinality(Finished)
    BY <1>1, <1>3, <2>2 DEF Accounted
  <2>4. Finished' = Finished
    BY DEF Finished, Named
  <2>5. QED
    BY <1>1, <1>3, <2>3, <2>4 DEF Accounted, Failed, GaveUp
<1>7. QED
  BY <1>4, <1>5, <1>6

LEMMA ReadErrorIInv ==
  ASSUME IInv, ReadError
  PROVE  IInv'
<1> USE DEF IInv, ReadError
<1>1. Accounted
  BY DEF RegionsUnknown
<1>2. errorCh \in Seq(Regions) /\ errors \in Seq(Regions)
  BY <1>1 DEF TypeOK, Accounted
<1>3. /\ errorCh' \in Seq(Regions) /\ errors' \in Seq(Regions)
      /\ Len(errorCh') = Len(errorCh) - 1 /\ Len(errors') = Len(errors) + 1
      /\ Len(errorCh) \in Nat /\ Len(errors) \in Nat
      /\ ToSet(errorCh') \cup ToSet(errors') = ToSet(errorCh) \cup ToSet(errors)
  BY <1>2, Sent, Received
<1>4. TypeOK'
  <2>1. errors' \in Seq(Regions \cup {"regions"})
    BY <1>3
  <2>2. QED
    BY <1>3, <2>1 DEF TypeOK
<1>5. Started' /\ TriesLeft' /\ ClosedBehindTheLast'
  BY DEF Started, TriesLeft, ClosedBehindTheLast, Running, GaveUp
<1>6. Accounted'
  <2>1. insConfsCh \in Seq(Regions) /\ instanceConfs \in Seq(Regions)
    BY DEF TypeOK
  <2>2. Len(insConfsCh) \in Nat /\ Len(instanceConfs) \in Nat
    BY <2>1
  <2>3. Len(insConfsCh) + Len(instanceConfs) + Len(errorCh') + Len(errors') = Cardinality(Finished)
    BY <1>1, <1>3, <2>2 DEF Accounted
  <2>4. Finished' = Finished /\ Failed' = Failed
    BY <1>3 DEF Finished, Named, Failed
  <2>5. Len(errorCh') + Len(errors') = Cardinality(Failed')
    BY <1>1, <1>3, <2>4 DEF Accounted
  <2>6. QED
    BY <1>1, <1>3, <2>3, <2>4, <2>5 DEF Accounted, GaveUp
<1>7. QED
  BY <1>4, <1>5, <1>6

LEMMA ReadsEndIInv ==
  ASSUME IInv, AnswersEnd \/ Return
  PROVE  IInv'
<1> USE DEF IInv, AnswersEnd, Return, channels
<1>1. Accounted
  BY DEF RegionsUnknown
<1>2. TypeOK' /\ Started' /\ TriesLeft' /\ ClosedBehindTheLast'
  BY DEF TypeOK, Started, TriesLeft, ClosedBehindTheLast, Running, GaveUp
<1>3. Accounted'
  BY <1>1 DEF Accounted, Finished, Named, Failed, GaveUp
<1>4. QED
  BY <1>2, <1>3

(* Refills, and steps of others, leave the fan-out alone. *)
LEMMA RefillIInv ==
  ASSUME IInv, tokens' \in 0..Burst,
         UNCHANGED <<caller, worker, client, attempts, wg, channels, failures>>
  PROVE  IInv'
BY DEF IInv, TypeOK, Started, TriesLeft, ClosedBehindTheLast, Running, RegionsUnknown,
       Accounted, Finished, Named, Failed, GaveUp, caller, channels

LEMMA NextIInv == IInv /\ [Next]_vars => IInv'
<1> SUFFICES ASSUME IInv, [Next]_vars PROVE IInv'
  OBVIOUS
<1>1. CASE Caller
  BY <1>1, GetAllRegionsIInv, GetAllRegionsFailsIInv, ReadAnswerIInv, ReadErrorIInv,
     ReadsEndIInv DEF Caller
<1>2. CASE Close
  BY <1>2, CloseIInv
<1>3. CASE Refill
  <2>1. tokens' \in 0..Burst
    BY <1>3, CloudClientAssumption DEF Refill, IInv, TypeOK
  <2>2. QED
    BY <1>3, <2>1, RefillIInv DEF Refill
<1>4. ASSUME NEW r \in Regions, Goroutine(r)
      PROVE  IInv'
  BY <1>4, StartIInv, GetClientFailsIInv, AcceptIInv, SucceedsIInv, FailsIInv, SendIInv,
     DoneIInv DEF Goroutine
<1>5. CASE UNCHANGED vars
  BY <1>5, RefillIInv DEF vars, caller, channels, IInv, TypeOK
<1>6. QED
  BY <1>1, <1>2, <1>3, <1>4, <1>5 DEF Next

----------------------------------------------------------------------------
(* wg, channels, goroutines and caller agree at every moment. *)
THEOREM FanOutAgrees == Spec => []IInv
<1>1. IInv /\ [Next]_vars => IInv'
  BY NextIInv
<1>2. QED
  BY InitIInv, <1>1, PTL DEF Spec

(* Nobody sends on a channel that is closed, which would end the program,  *)
(* for any number of regions and however their goroutines are scheduled.   *)
THEOREM SendsBeforeClose == Spec => []NoSendAfterClose
<1>1. IInv => NoSendAfterClose
  BY DEF IInv, TypeOK, Started, ClosedBehindTheLast, Running, NoSendAfterClose
<1>2. QED
  BY FanOutAgrees, <1>1, PTL

(* What the caller returns accounts for the goroutines, each error for one *)
(* that found no client or failed in every try, whichever calls fail; and  *)
(* all of the answers are about the one region of the client.              *)
THEOREM GoroutinesAreAccounted == Spec => []GoroutinesAccounted
<1>1. IInv => GoroutinesAccounted
  <2> SUFFICES ASSUME IInv, pc = "returned", errors # <<"regions">>
               PROVE  GoroutinesAccounted
    BY DEF GoroutinesAccounted
  <2>1. Accounted
    BY DEF IInv, RegionsUnknown
  <2>2. insConfsCh = <<>> /\ errorCh = <<>> /\ Running = {}
    BY <2>1 DEF IInv, Accounted, ClosedBehindTheLast
  <2>3. Finished = Named /\ Failed = ToSet(errors)
    BY <2>2, EmptyChannel DEF Running, Finished, Named, Failed
  <2>4. Len(instanceConfs) \in Nat /\ Len(errors) \in Nat
    <3>1. instanceConfs \in Seq(Regions) /\ errors \in Seq(Regions)
      BY <2>1 DEF IInv, TypeOK, Accounted
    <3>2. QED
      BY <3>1
  <2>5. Len(insConfsCh) = 0 /\ Len(errorCh) = 0
    BY <2>2
  <2>6. /\ ToSet(errors) \subseteq Named /\ Len(errors) = Cardinality(ToSet(errors))
        /\ Len(instanceConfs) + Len(errors) = Cardinality(Named)
        /\ \A r \in ToSet(errors) : GaveUp(r)
        /\ ToSet(instanceConfs) \subseteq {Configured}
    BY <2>1, <2>3, <2>4, <2>5 DEF Accounted
  <2>7. Cardinality(Named) = Cardinality(Named \ ToSet(errors)) + Cardinality(ToSet(errors))
    <3>1. IsFiniteSet(Named)
      BY <2>3, GoroutinesFinite DEF IInv
    <3>2. Named \cap ToSet(errors) = ToSet(errors)
      BY <2>6
    <3>3. Cardinality(Named \ ToSet(errors)) = Cardinality(Named) - Cardinality(ToSet(errors))
      BY <3>1, <3>2, FS_Difference
    <3>4. Cardinality(Named) \in Nat /\ Cardinality(ToSet(errors)) \in Nat
      BY <2>4, <2>6, <3>1, FS_CardinalityType
    <3>5. QED
      BY <3>3, <3>4
  <2>8. Len(instanceConfs) = Cardinality(Named \ ToSet(errors))
    <3>1. IsFiniteSet(Named \ ToSet(errors))
      BY <2>3, GoroutinesFinite, FS_Difference DEF IInv
    <3>2. Cardinality(Named \ ToSet(errors)) \in Nat
      BY <3>1, FS_CardinalityType
    <3>3. QED
      BY <2>4, <2>6, <2>7, <3>2
  <2>9. QED
    BY <2>6, <2>8 DEF GoroutinesAccounted
<1>2. QED
  BY FanOutAgrees, <1>1, PTL

(* A goroutine that has its answer or its error finds its channel open,    *)
(* with room for it, whoever reads: the two channels hold together no more *)
(* than one item for each goroutine that is through.                       *)
THEOREM SendsGoThrough == Spec => []SendsNeverBlock
<1>1. IInv => SendsNeverBlock
  <2> SUFFICES ASSUME IInv, NEW r \in Regions, worker[r] \in {"answered", "failed"}
               PROVE  closed = {} /\ Len(insConfsCh) < Capacity /\ Len(errorCh) < Capacity
    BY DEF SendsNeverBlock
  <2>1. closed = {} /\ Accounted /\ r \in regionInfos
    BY OnItsWay
  <2>2. Finished \subseteq regionInfos \ {r}
    BY DEF Finished, Named
  <2>3. Cardinality(Finished) <= Capacity - 1 /\ Cardinality(Finished) \in Nat /\ Capacity \in Nat
    <3>1. IsFiniteSet(regionInfos) /\ IsFiniteSet(regionInfos \ {r})
      BY GoroutinesFinite, FS_RemoveElement DEF IInv
    <3>2. Cardinality(regionInfos \ {r}) = Cardinality(regionInfos) - 1
      BY <2>1, <3>1, FS_RemoveElement
    <3>3. Cardinality(Finished) <= Cardinality(regionInfos \ {r}) /\ IsFiniteSet(Finished)
      BY <2>2, <3>1, FS_Subset
    <3>4. /\ Cardinality(Finished) \in Nat /\ Cardinality(regionInfos) \in Nat
          /\ Cardinality(regionInfos \ {r}) \in Nat
      BY <3>1, <3>3, FS_CardinalityType
    <3>5. QED
      BY <3>2, <3>3, <3>4 DEF Capacity
  <2>4. /\ Len(insConfsCh) \in Nat /\ Len(instanceConfs) \in Nat
        /\ Len(errorCh) \in Nat /\ Len(errors) \in Nat
    <3>1. /\ insConfsCh \in Seq(Regions) /\ instanceConfs \in Seq(Regions)
          /\ errorCh \in Seq(Regions) /\ errors \in Seq(Regions)
      BY <2>1 DEF IInv, TypeOK, Accounted
    <3>2. QED
      BY <3>1
  <2>5. QED
    BY <2>1, <2>3, <2>4 DEF Accounted
<1>2. QED
  BY FanOutAgrees, <1>1, PTL
=============================================================================
