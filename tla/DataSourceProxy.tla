--------------------------- MODULE DataSourceProxy ---------------------------
(***************************************************************************)
(* The proxies of pkg/datasource/proxy.go, of which one has providers of   *)
(* the latest samples and the other of history.  A query takes the list of *)
(* providers under the lock, sorted by name, and asks them one by one, the *)
(* lock released, until one answers without an error; providers may be     *)
(* registered and deleted meanwhile.  History of Prometheus is asked for   *)
(* with a range query, which ShardQuery describes; every other answer is   *)
(* one step here.  A provider that does not support the metric, as the     *)
(* metrics server a PromQL expression or the cloud monitor a pod, is one   *)
(* that fails, and so is one whose service returns no item; an answer may  *)
(* well be empty, as that of a cloud monitor without a response.           *)
(***************************************************************************)
EXTENDS ShardQuery

CONSTANTS
    Names,   \* for each kind of proxy, the names its providers may have, sorted
    prom     \* the name of Prometheus

Kinds == {"realtime", "history"}
ASSUME ProxyAssumption == DOMAIN Names = Kinds

VARIABLES
    kind,         \* which of the two proxies this is
    registered,   \* the names in its map of providers
    proxyPhase,   \* idle; asking: providers are left to ask; waiting: for prom
    providers,    \* the providers that this query has still to ask
    errs,         \* those that returned an error
    result,       \* whose answer, if any, the last query returned
    stayed, seen  \* history: registered throughout, or once during, that query

query == <<proxyPhase, providers, errs, result>>
presence == <<stayed, seen>>
proxyVars == <<kind, registered, query, presence>>

NoResult == [status |-> "none"]
NotAvailable == [status |-> "error"]
From(p) == [status |-> "ok", from |-> p]

ProxyInit ==
    /\ Init
    /\ kind \in Kinds
    /\ registered \in SUBSET ToSet(Names[kind])
    /\ proxyPhase = "idle"
    /\ providers = {}
    /\ errs = {}
    /\ result = NoResult
    /\ stayed = {} /\ seen = {}

(* The providers that the sort puts before p. *)
Before(p) == LET at == CHOOSE i \in DOMAIN Names[kind] : Names[kind][i] = p
             IN  {Names[kind][i] : i \in 1..at - 1}

(* A sorted list without repetitions is a set of which the first by name   *)
(* is at the head.                                                         *)
getSortedProviders == registered
IsHead(p) == p \in providers /\ Before(p) \cap providers = {}

(* Providers come and go under the lock, at any time. *)
RegisterProvider(p) ==
    /\ registered' = registered \cup {p}
    /\ seen' = IF proxyPhase = "idle" THEN seen ELSE seen \cup {p}
    /\ UNCHANGED <<vars, kind, query, stayed>>

DeleteProvider(p) ==
    /\ registered' = registered \ {p}
    /\ stayed' = IF proxyPhase = "idle" THEN stayed ELSE stayed \ {p}
    /\ UNCHANGED <<vars, kind, query, seen>>

(* A query begins with the list of those that are registered now. *)
Query ==
    /\ proxyPhase = "idle"
    /\ proxyPhase' = "asking"
    /\ providers' = getSortedProviders
    /\ errs' = {}
    /\ result' = NoResult
    /\ stayed' = registered /\ seen' = registered
    /\ UNCHANGED <<vars, kind, registered>>

IsRangeQuery(p) == kind = "history" /\ p = prom

\* Mutant: the list is made anew for each provider, and indexed.
ReadAgain(p) == {q \in registered : Cardinality(Before(q) \cap registered) > Cardinality(errs)}
(* The provider at the head has returned an error: go on with the others.  *)
OtherProviders(p) == providers \ {p}
GoOn(p) ==
    /\ proxyPhase' = "asking"
    /\ providers' = OtherProviders(p)
    /\ errs' = errs \cup {p}
    /\ UNCHANGED result

(* The first answer without an error is that of the proxy. *)
Take(outcome) ==
    /\ proxyPhase' = "idle"
    /\ result' = outcome
    /\ UNCHANGED <<providers, errs>>

(* A provider answers, or fails. *)
ProviderReturns(p, ok) ==
    /\ proxyPhase = "asking"
    /\ IsHead(p)
    /\ ~IsRangeQuery(p)
    /\ IF ok THEN Take(From(p)) ELSE GoOn(p)
    /\ UNCHANGED <<vars, kind, registered, presence>>

(* Prometheus is asked for the window of the query, which no other         *)
(* provider of this model looks at.                                        *)
AskPrometheus(w) ==
    /\ proxyPhase = "asking"
    /\ IsHead(prom)
    /\ IsRangeQuery(prom)
    /\ QueryRangeSync(w)
    /\ proxyPhase' = "waiting"
    /\ UNCHANGED <<kind, registered, providers, errs, result, presence>>

RangeQuery == QueryProceeds /\ UNCHANGED proxyVars

\* Mutant: whatever came back is returned.
TakesSeriesOrError ==
    /\ proxyPhase = "waiting"
    /\ phase = "idle"
    /\ Take(From(prom))
    /\ UNCHANGED <<vars, kind, registered, presence>>
PrometheusReturns ==
    /\ proxyPhase = "waiting"
    /\ phase = "idle"
    /\ IF answer = Failed THEN GoOn(prom) ELSE Take(From(prom))
    /\ UNCHANGED <<vars, kind, registered, presence>>

GivesUp ==
    /\ proxyPhase = "asking"
    /\ providers = {}
    /\ Take(NotAvailable)
    /\ UNCHANGED <<vars, kind, registered, presence>>

(* A query that has begun. *)
ProxyProceeds ==
    \/ \E p \in providers, ok \in BOOLEAN : ProviderReturns(p, ok)
    \/ \E w \in Windows : AskPrometheus(w)
    \/ RangeQuery
    \/ PrometheusReturns
    \/ GivesUp

ProxyNext ==
    \/ \E p \in ToSet(Names[kind]) : RegisterProvider(p) \/ DeleteProvider(p)
    \/ Query
    \/ ProxyProceeds

allVars == <<vars, proxyVars>>
(* Goroutines are scheduled, and every request comes back, at the latest   *)
(* when the timeout of its context fires.                                  *)
ProxySpec == ProxyInit /\ [][ProxyNext]_allVars /\ WF_allVars(ProxyProceeds)

----------------------------------------------------------------------------
ProxyTypeOK ==
    /\ TypeOK
    /\ kind \in Kinds
    /\ \A s \in {registered, stayed, seen, providers, errs} :
           s \subseteq ToSet(Names[kind])
    /\ stayed \subseteq seen
    /\ proxyPhase \in {"idle", "asking", "waiting"}
    /\ phase # "idle" => proxyPhase = "waiting"

(* However providers come and go while a query is on its way, nobody who   *)
(* was there all the time is passed over: an answer comes from one who was *)
(* there and did not fail, after all such before it failed, and there is   *)
(* no answer only when all such failed.  A range query that failed, in     *)
(* whichever of its shards, has no answer.                                 *)
NobodyPassedOver ==
    /\ errs \subseteq seen
    /\ result = NotAvailable => stayed \subseteq errs
    /\ result.status = "ok" =>
         /\ result.from \in seen \ errs
         /\ stayed \cap Before(result.from) \subseteq errs
         /\ IsRangeQuery(result.from) => Answered
    /\ ErrorIsReported

(* Why it holds.  Whoever stayed is still to be asked or has failed, and   *)
(* nobody else has been asked; prom is at the head while it is waited for; *)
(* and what a range query leaves behind says how it went.                  *)
ListKept ==
    /\ errs \subseteq seen /\ providers \subseteq seen /\ providers \cap errs = {}
    /\ proxyPhase # "idle" => stayed \subseteq providers \cup errs /\ result = NoResult
    /\ proxyPhase = "waiting" => IsHead(prom) /\ kind = "history"
ResultExplained ==
    /\ result \in {NoResult, NotAvailable} \cup {From(p) : p \in seen \ errs}
    /\ result = NotAvailable => stayed \subseteq errs
    /\ \A p \in seen : result = From(p) =>
          /\ stayed \cap Before(p) \subseteq errs
          /\ IsRangeQuery(p) => Answered
RangeQueryKept ==
    /\ phase \in {"idle", "direct", "shards"}
    /\ phase # "idle" => proxyPhase = "waiting"
    /\ phase # "shards" => running = {}
    /\ phase = "direct" => resultsCh = <<>>
    /\ proxyPhase = "waiting" /\ phase = "idle" => answer = Failed \/ Answered
    /\ ErrorIsReported
ProxyIInv == ListKept /\ ResultExplained /\ RangeQueryKept
ProxyInv == ProxyTypeOK /\ ProxyIInv /\ MergeKept

(* A query comes back: no goroutine is stuck on the channel, the wait for  *)
(* the group ends, and there is not always one more provider to ask.       *)
QueryReturns == proxyPhase # "idle" ~> proxyPhase = "idle"
=============================================================================
