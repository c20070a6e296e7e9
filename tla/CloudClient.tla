----------------------------- MODULE CloudClient -----------------------------
(***************************************************************************)
(* CVMClient.GetAllZoneInstanceConfigInfos: one goroutine for each region  *)
(* the cloud names, each with the retries of ExponentialRetryCall, two     *)
(* buffered channels for answers and errors, a goroutine that closes them  *)
(* when all are done, and the caller that reads first the one and then the *)
(* other until they are closed.  All calls wait for the same token bucket. *)
(*                                                                         *)
(* The answer for a region is that region.  All goroutines share one       *)
(* client, which the first of them makes; requests have no filters.  How   *)
(* long a goroutine sleeps before it tries again is left open.             *)
(***************************************************************************)
EXTENDS Integers, Sequences, FiniteSets, SequencesExt

CONSTANTS
    Regions,           \* the regions there may be
    NamedRegions,      \* those whose description has a name
    Configured,        \* config.Region, the region of the client
    DefaultRetryCnt,   \* how often a call is tried again
    Burst,             \* the size of the token bucket
    MaxFailures        \* bound on calls that fail

ASSUME CloudClientAssumption ==
    /\ IsFiniteSet(Regions) /\ NamedRegions \subseteq Regions
    /\ Configured \in Regions
    /\ DefaultRetryCnt \in Nat /\ Burst \in Nat \ {0} /\ MaxFailures \in Nat

VARIABLES
    pc,              \* where the caller is
    regionInfos,     \* the answer to DescribeRegions
    worker,          \* where the goroutine of each region is
    client,          \* has the client been made?
    attempts,        \* the attempts of each goroutine
    wg,              \* the counter of the wait group
    insConfsCh, errorCh,   \* the channels: what is in them
    closed,          \* which channels are closed
    instanceConfs, errors, \* what the caller has read
    tokens,          \* in the bucket of RateLimiter
    failures         \* calls that failed so far

channels == <<insConfsCh, errorCh, closed>>
caller == <<pc, regionInfos, instanceConfs, errors>>
vars == <<pc, regionInfos, worker, client, attempts, wg, insConfsCh, errorCh, closed,
          instanceConfs, errors, tokens, failures>>

Init ==
    /\ pc = "asking"
    /\ regionInfos = {}
    /\ worker = [r \in Regions |-> "none"]
    /\ client \in BOOLEAN
    /\ attempts = [r \in Regions |-> 0]
    /\ wg = 0
    /\ insConfsCh = <<>> /\ errorCh = <<>> /\ closed = {}
    /\ instanceConfs = <<>> /\ errors = <<>>
    /\ tokens = Burst
    /\ failures = 0

----------------------------------------------------------------------------
(* getAllRegions is tried once.  With its answer the goroutines start. *)
GetAllRegions(infos) ==
    /\ pc = "asking"
    /\ pc' = "reading"
    /\ regionInfos' = infos
    /\ wg' = Cardinality(infos)
    /\ worker' = [r \in Regions |-> IF r \in infos THEN "started" ELSE "none"]
    /\ UNCHANGED <<client, attempts, channels, instanceConfs, errors, tokens, failures>>
GetAllRegionsFails ==
    /\ pc = "asking"
    /\ failures < MaxFailures /\ failures' = failures + 1
    /\ pc' = "returned"
    /\ errors' = <<"regions">>
    /\ UNCHANGED <<regionInfos, worker, client, attempts, wg, channels, instanceConfs, tokens>>

(* A goroutine asks, unless its region has no name.  getClient makes the   *)
(* client if there is none, and that may fail.                             *)
Start(r) ==
    /\ worker[r] = "started"
    /\ \/ /\ r \notin NamedRegions
          /\ worker' = [worker EXCEPT ![r] = "returning"]
          /\ UNCHANGED client
       \/ /\ r \in NamedRegions
          /\ worker' = [worker EXCEPT ![r] = "accepting"]
          /\ client' = TRUE
    /\ UNCHANGED <<caller, attempts, wg, channels, tokens, failures>>
GetClientFails(r) ==
    /\ worker[r] = "started" /\ r \in NamedRegions
    /\ ~client
    /\ failures < MaxFailures /\ failures' = failures + 1
    /\ worker' = [worker EXCEPT ![r] = "failed"]
    /\ UNCHANGED <<caller, client, attempts, wg, channels, tokens>>

(* RateLimiter.Accept blocks until there is a token. *)
Accept(r) ==
    /\ worker[r] = "accepting"
    /\ tokens > 0
    /\ tokens' = tokens - 1
    /\ worker' = [worker EXCEPT ![r] = "calling"]
    /\ UNCHANGED <<caller, client, attempts, wg, channels, failures>>

(* What DescribeZoneInstanceConfigInfos is told for: the client's region.  *)
AskedFor(r) == Configured

Succeeds(r) ==
    /\ worker[r] = "calling"
    /\ attempts' = [attempts EXCEPT ![r] = @ + 1]
    /\ worker' = [worker EXCEPT ![r] = "answered"]
    /\ UNCHANGED <<caller, client, wg, channels, tokens, failures>>

\* Mutant: one retry less.
StopsEarly(r) == attempts[r] + 1 >= DefaultRetryCnt
LastTry(r) == attempts[r] = DefaultRetryCnt
Fails(r) ==
    /\ worker[r] = "calling"
    /\ failures < MaxFailures /\ failures' = failures + 1
    /\ attempts' = [attempts EXCEPT ![r] = @ + 1]
    /\ worker' = [worker EXCEPT ![r] = IF LastTry(r) THEN "failed" ELSE "accepting"]
    /\ UNCHANGED <<caller, client, wg, channels, tokens>>

\* Mutant: an error is logged only.
SendsAnswersOnly(r) ==
    /\ worker[r] \in {"answered", "failed"}
    /\ insConfsCh' = IF worker[r] = "answered" THEN Append(insConfsCh, AskedFor(r)) ELSE insConfsCh
    /\ worker' = [worker EXCEPT ![r] = "returning"]
    /\ UNCHANGED <<caller, client, attempts, wg, errorCh, closed, tokens, failures>>
\* Mutant: one place for each channel.
RoomForOne == 1
(* How much each channel holds: one item for each region. *)
Capacity == Cardinality(regionInfos)
(* A goroutine blocks while its channel is full. *)
Send(r) ==
    /\ \/ /\ worker[r] = "answered"
          /\ Len(insConfsCh) < Capacity
          /\ insConfsCh' = Append(insConfsCh, AskedFor(r))
          /\ UNCHANGED errorCh
       \/ /\ worker[r] = "failed"
          /\ Len(errorCh) < Capacity
          /\ errorCh' = Append(errorCh, r)
          /\ UNCHANGED insConfsCh
    /\ worker' = [worker EXCEPT ![r] = "returning"]
    /\ UNCHANGED <<caller, client, attempts, wg, closed, tokens, failures>>

\* Mutant: only a goroutine that asked is done.
DoneIfNamed(r) ==
    /\ worker[r] = "returning"
    /\ worker' = [worker EXCEPT ![r] = "returned"]
    /\ wg' = IF r \in NamedRegions THEN wg - 1 ELSE wg
    /\ UNCHANGED <<caller, client, attempts, channels, tokens, failures>>
(* The deferred wg.Done. *)
Done(r) ==
    /\ worker[r] = "returning"
    /\ worker' = [worker EXCEPT ![r] = "returned"]
    /\ wg' = wg - 1
    /\ UNCHANGED <<caller, client, attempts, channels, tokens, failures>>

Goroutine(r) ==
    \/ Start(r) \/ GetClientFails(r)
    \/ Accept(r) \/ Succeeds(r) \/ Fails(r)
    \/ Send(r) \/ Done(r)

\* Mutant: the channels are closed without waiting for the last goroutine.
OneIsLeft == wg <= 1
AllDone == wg = 0
(* The closer: the errors first. *)
Close ==
    /\ pc # "asking" /\ errors # <<"regions">>
    /\ AllDone
    /\ \/ closed = {} /\ closed' = {"errorCh"}
       \/ closed = {"errorCh"} /\ closed' = {"errorCh", "insConfsCh"}
    /\ UNCHANGED <<caller, worker, client, attempts, wg, insConfsCh, errorCh, tokens, failures>>

(* The caller: a channel is read until it is closed and empty. *)
ReadAnswer ==
    /\ pc = "reading"
    /\ insConfsCh # <<>>
    /\ instanceConfs' = Append(instanceConfs, Head(insConfsCh))
    /\ insConfsCh' = Tail(insConfsCh)
    /\ UNCHANGED <<pc, regionInfos, errors, worker, client, attempts, wg, errorCh, closed, tokens, failures>>
AnswersEnd ==
    /\ pc = "reading"
    /\ insConfsCh = <<>> /\ "insConfsCh" \in closed
    /\ pc' = "readingErrors"
    /\ UNCHANGED <<regionInfos, instanceConfs, errors, worker, client, attempts, wg, channels, tokens, failures>>
ReadError ==
    /\ pc = "readingErrors"
    /\ errorCh # <<>>
    /\ errors' = Append(errors, Head(errorCh))
    /\ errorCh' = Tail(errorCh)
    /\ UNCHANGED <<pc, regionInfos, instanceConfs, worker, client, attempts, wg, insConfsCh, closed, tokens, failures>>
Return ==
    /\ pc = "readingErrors"
    /\ errorCh = <<>> /\ "errorCh" \in closed
    /\ pc' = "returned"
    /\ UNCHANGED <<regionInfos, instanceConfs, errors, worker, client, attempts, wg, channels, tokens, failures>>
Caller ==
    \/ \E infos \in SUBSET Regions : GetAllRegions(infos)
    \/ GetAllRegionsFails
    \/ ReadAnswer \/ AnswersEnd \/ ReadError \/ Return

(* The bucket is filled at the configured rate. *)
Refill ==
    /\ tokens < Burst
    /\ tokens' = tokens + 1
    /\ UNCHANGED <<caller, worker, client, attempts, wg, channels, failures>>

Next == Caller \/ Close \/ Refill \/ \E r \in Regions : Goroutine(r)
Spec == Init /\ [][Next]_vars

(* Goroutines are scheduled and requests return; the limiter serves those  *)
(* who wait for it in turn.                                                *)
Fairness ==
    /\ WF_vars(Caller) /\ WF_vars(Close) /\ WF_vars(Refill)
    /\ \A r \in Regions : WF_vars(Goroutine(r)) /\ SF_vars(Accept(r))
FairSpec == Spec /\ Fairness

----------------------------------------------------------------------------
TypeOK ==
    /\ pc \in {"asking", "reading", "readingErrors", "returned"}
    /\ regionInfos \subseteq Regions
    /\ worker \in [Regions -> {"none", "started", "accepting", "calling", "answered",
                               "failed", "returning", "returned"}]
    /\ client \in BOOLEAN
    /\ attempts \in [Regions -> 0..(DefaultRetryCnt + 1)]
    /\ wg = Cardinality({r \in regionInfos : worker[r] # "returned"})
    /\ \A c \in {insConfsCh, errorCh, instanceConfs} : c \in Seq(Regions)
    /\ errors \in Seq(Regions \cup {"regions"})
    /\ closed \in {{}, {"errorCh"}, {"errorCh", "insConfsCh"}}
    /\ tokens \in 0..Burst
    /\ failures \in 0..MaxFailures

(* Nobody sends on a channel that is closed, which would end the program:  *)
(* the closer waits for every goroutine, and each sends before it is done. *)
NoSendAfterClose ==
    closed # {} => \A r \in Regions : worker[r] \in {"none", "returning", "returned"}

(* Nor does a goroutine block there with its answer or its error.          *)
SendsNeverBlock ==
    \A r \in Regions :
        worker[r] \in {"answered", "failed"} =>
            closed = {} /\ Len(insConfsCh) < Capacity /\ Len(errorCh) < Capacity

(* What the caller returns accounts for the goroutines.  Each of a region  *)
(* that has a name has handed over one item, an answer or an error, so     *)
(* that the call succeeds only if all of them did; an error stands for a   *)
(* goroutine that found no client or that failed in every try, however     *)
(* they compete for tokens.  It does not account for the regions: nobody   *)
(* asks for the region it was started for, so that all the answers are     *)
(* those of the client's own region, and the comment that promises all     *)
(* regions and all zones is wrong.                                         *)
Named == regionInfos \cap NamedRegions
GaveUp(r) == attempts[r] \in {0, DefaultRetryCnt + 1}
GoroutinesAccounted ==
    pc = "returned" /\ errors # <<"regions">> =>
        /\ ToSet(errors) \subseteq Named /\ Len(errors) = Cardinality(ToSet(errors))
        /\ Len(instanceConfs) = Cardinality(Named \ ToSet(errors))
        /\ \A r \in ToSet(errors) : GaveUp(r)
        /\ ToSet(instanceConfs) \subseteq {Configured}

(* Why they hold.  wg counts the goroutines that are not done, so that the *)
(* channels are closed behind the last of them; what is in the channels    *)
(* and in the hands of the caller is one item for each region with a name  *)
(* whose goroutine has sent; nobody sends an error twice; and a goroutine  *)
(* gives up after the last try, or before the first.                       *)
Running == {r \in regionInfos : worker[r] # "returned"}
Finished == {r \in Named : worker[r] \in {"returning", "returned"}}
Failed == ToSet(errorCh) \cup ToSet(errors)

Started ==
    /\ pc = "asking" => regionInfos = {} /\ closed = {}
    /\ \A r \in Regions : worker[r] = "none" <=> r \notin regionInfos
    /\ \A r \in Regions \ NamedRegions :
          worker[r] \in {"none", "started", "returning", "returned"}
TriesLeft ==
    \A r \in Regions :
        /\ worker[r] \in {"none", "started"} => attempts[r] = 0
        /\ worker[r] \in {"accepting", "calling"} => attempts[r] <= DefaultRetryCnt
        /\ worker[r] = "failed" => GaveUp(r)
ClosedBehindTheLast == closed # {} => Running = {}

RegionsUnknown ==
    /\ pc = "returned" /\ errors = <<"regions">>
    /\ regionInfos = {} /\ insConfsCh = <<>> /\ errorCh = <<>> /\ closed = {}
Accounted ==
    /\ errors \in Seq(Regions)
    /\ Len(insConfsCh) + Len(instanceConfs) + Len(errorCh) + Len(errors)
         = Cardinality(Finished)
    /\ Len(errorCh) + Len(errors) = Cardinality(Failed)
    /\ Failed \subseteq Finished /\ \A r \in Failed : GaveUp(r)
    /\ ToSet(insConfsCh) \cup ToSet(instanceConfs) \subseteq {Configured}
    /\ pc \in {"readingErrors", "returned"} => insConfsCh = <<>> /\ "insConfsCh" \in closed
    /\ pc = "returned" => errorCh = <<>>

IInv ==
    /\ TypeOK /\ Started /\ TriesLeft /\ ClosedBehindTheLast
    /\ RegionsUnknown \/ Accounted

(* The fan-out returns, whatever fails, and however few tokens there are. *)
FanOutReturns == <>(pc = "returned")
=============================================================================
