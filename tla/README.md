# fadvisor in TLA+

fadvisor is a small Go program with two faces. As an **exporter** it runs in a
Kubernetes cluster, learns the price of every node from the cloud provider and
exports hourly costs as Prometheus gauges. As a **comparator** it is run by
hand: it fetches weeks of usage series of every workload, keeps them in
checkpoint files, and compares what the cluster costs with what it would cost
if requests were right or pods were serverless.

The TLA+ modules here model the parts of it that keep state or compute
something easy to get wrong. TLC checks them on small instances (the `.cfg`
files), TLAPS proves the theorems of the `...Proofs` modules for every value of the
constants. `PROJECT.json` maps each definition to the lines it translates.

## Inventory

| component | state | operations | what must hold |
|---|---|---|---|
| Prometheus client limiter (`datasource-providers/prom/prom.go`) | `currentInFlight`, a `sync.Cond` | `Do` = `increaseInFightWait`, the request, `decreaseInFlightSignal` | at most `maxInFlight` requests in flight; no lost wakeup; first come, first served |
| Range queries (`prom/ctx.go`, `prom/prometheus.go`) | a channel, a wait group and a map per query | `QueryRangeSync`, `queryByShards`, `ComputeWindowShards`, `MergeSortedTimeSeries` | every shard within the limit of points; the sharded answer is the direct one; no failure hidden |
| Price cache (`cloudproviders/qcloud/price_cache.go`, with `cloudsdk/.../cvm.go`) | `instances` under `instanceLock` | `WarmUp`, `Refresh`, `GetCVMInstances`, `GetCVMInstancesPrice` | failures do not lose prices; entries are coherent; the cache converges |
| Emitter (`cost-exporter/store/prometheus/prom_emitter.go`) | `nodesLastSeen`, three gauge vectors, ticker, stop channel | `Start` | the gauges mirror the last answer; nothing stale, nothing flickers; it stops |
| Cost of a node (`qcloud.go`, `cloudcost/model.go`) | none | `computeNodeBreakdownCost`, `getDefaultNodePrice`, `getCloudInstancePrice` | the parts add up to the price of the node |
| Comparator: initialisation and checkpoints (`cost-comparator/comparator.go` 83-1340) | two caches, two files | `Init`, `ContainerTsDataInit`, `WorkloadTsDataInit`, loaders and writers | what is loaded is what was fetched; nothing is missing without a reason; a checkpoint that can be read stays |
| Comparator: recommendations, costers, reports (`comparator.go` 98-220 and from 1348, `coster/`, `estimator/`, `comparator_reporter.go`) | the workloads' specifications and recommendations, during one analysis | `DoAnalysis`: `initWorkloadsSpec`, `GetAllWorkloadRecommendedData`, the three costers, the reports | recommendations can be deployed and are in order; all reports count the same pods over the same time span |
| Program life cycle (`cmd/fadvisor/app/fadvisor.go`, `cost-exporter/server.go`) | the lease, the contexts, the HTTP server | `Run`, the callbacks of the elector, `Serve` | one exporter at a time; orderly shutdown |
| Cloud SDK client (`cloudsdk/qcloud`) | clients, credentials, a rate limiter | retry loop, fan-out over regions | a retry ends and takes its turn; the goroutine of every region is accounted for, and none blocks |
| Data source proxies (`datasource/proxy.go`), metrics server, cloud monitor | a map of providers behind a mutex | `QueryTimeSeries`, `QueryLatestTimeSeries`, registering and deleting of providers | a provider that is there and works is found, no failure passes for an answer |
| Custom prices (`cloud/cloud.go`, `cloudproviders/default`) | one record behind a mutex | `GetConfig`, `getDefaultNodePrice` | the default price of a node and its parts agree |
| Owners, targets, names (`util/owner`, `util/target`, `querybuilder-providers/prometheus`) | none | `FindRootOwner`, `FetchReplicas`, the queries for usage | every pod leads to its workload, every workload gets its own usage |
| Informer cache, options, handlers, logging | none of their own | | |
| Tencent Cloud SDK (`staging/`) | none | generated requests and responses | |

How they interact: `Run` makes the provider, starts the informers and, as
leader, three goroutines: the refresher of the price cache (every 30 minutes),
the emitter (every 5 minutes) and the HTTP server from which Prometheus scrapes
the gauges. Refresher and emitter share the cache's map under a read-write
lock. `RunComparator` makes a data source and a `Comparator`, whose `Init`
fetches owner after owner, each metric with range queries that share one limiter;
the goroutines of one query meet at a wait group and a channel.

What is hard to test, each entry with its line in `PROJECT.json` under
`hazards`: the condition variable whose counter also counts the waiters; shards
that share their bounds while their number is computed as if they did not;
answers that arrive in any order; minutes between reading the list of nodes and
changing the cache by it; calls that fail one by one in the middle of a round;
scrapes in the middle of a pass; a select with two ready cases; crashes while a
checkpoint is written in place; a checkpoint that is older than the cluster it is read for; an error variable that outlives its error;
providers that are replaced under a query; pods that are found by owner and by name.

## Modules

| module | models | used by |
|---|---|---|
| `Semaphore` | abstract: a counting semaphore that hands over first come, first served | `RateLimit` |
| `RateLimit` | the limiter | `PrometheusProofs`, `MCRateLimit` |
| `WindowShards` | pure: the windows and the merging of series | `ShardQuery` |
| `ShardQuery` | one `QueryRangeSync` with its goroutines | `DataSourceProxy` |
| `DataSourceProxy` | the proxies, with `ShardQuery` behind one of them | `PrometheusProofs`, `MCShardQuery` |
| `PrometheusProofs` | theorems about the limiter, range queries, the merging of series, and the proxies | |
| `PriceFeed` | abstract: what the price cache promises to those who read it | `PriceCache`, `CostExporter` |
| `PriceCache` | the refresher, the cloud and the cluster around it | `ProviderProofs`, `MCPriceCache` |
| `Emitter` | the emitter, the ticker and the changing costs around it | `EmitterProofs`, `CostExporter` |
| `EmitterProofs` | theorems about the emitter, for any costs | `CostExporterProofs` |
| `CostExporter` | `PriceFeed` and `Emitter` composed, as `Run` does it | `CostExporterProofs`, `MCCostExporter` |
| `CostExporterProofs` | theorems about the composition, from those about the emitter | |
| `CheckpointFile` | pure: what a checkpoint file holds, whole or cut, and what is read from it | `ComparatorInit` |
| `ComparatorInit` | `Init` over several runs of the program | `ComparatorInitProofs`, `MCComparatorInit` |
| `ComparatorInitProofs` | theorems about it: owners, the file, and what comes back from it | |
| `ExtendedNumbers` | pure: numbers as Go has them, exact ratios with NaN and infinity, and rounding | `NodeCost` |
| `NodeCost` | the price of a node or a pod and its parts, and the emitter's arithmetic | `ProviderProofs`, `MCNodeCost` |
| `ProviderProofs` | theorems about the provider: the price cache, the refinement of `PriceFeed` among them, and the prices of nodes and pods | |
| `WorkloadPods` | pure: the owners and the names of pods, and how workloads are found by them | `Recommendation` |
| `Recommendation` | one `DoAnalysis`, with the usage fetched for it | `RecommendationProofs`, `MCRecommendation` |
| `RecommendationProofs` | theorems about the workloads found, what is recommended for them and what that costs | |
| `Lifecycle` | replicas of the exporter, the lease, the kubelet and the scrapes around them | `LifecycleProofs`, `MCLifecycle` |
| `LifecycleProofs` | theorems about leaders and shutdown | |
| `CloudClient` | the fan-out over regions, the retries and the token bucket | `CloudClientProofs`, `MCCloudClient` |
| `CloudClientProofs` | theorems about the fan-out | |

Each `MC` module gives the constants of its module values for TLC. A definition
marked "Mutant" is a wrong variant of the one that follows it, put in its place to see
that a property can tell.

### `RateLimit`

The limiter sits in front of the Prometheus client when `--prometheus-bratelimit` is given.

`pc[r]` says where goroutine `r` is in `Do`, `currentInFlight` is the counter,
`notifyList` the queue of `sync.Cond`, which wakes its oldest waiter. A
critical section is one step; `cond.Wait` splits `increaseInFightWait` into the
step that queues the goroutine and `WaitReturns`. The code increases the counter
*before* it waits, and tests it once, with `if` and not `for`. This is right
only because a waiter keeps its count: a signalled waiter takes over the slot
of the one that signals, and a newcomer in between finds the counter above the
limit. `LimitKept` and `BlockedIsServed` say so, `IInv` says why, with the type
invariant `LimiterTypeOK` among its parts, and `ImplementsSemaphore` says it all at once: the limiter is the semaphore of `Semaphore.tla`, with `holders` the goroutines
that are signalled or in flight and `queue` the waiters.

Fairness: goroutines that can run are scheduled; the timeout that
`prom.QueryTimeSeries` puts on each context fires; a request whose context has
expired returns. A request need not return earlier than that, and nobody has to
call. The context is not looked at in the wait, so a caller may be served
after its own timeout.

### `WindowShards`, `ShardQuery` and `DataSourceProxy`

Time is counted in seconds, a series is the sequence of its samples' times (the
value is a function of the time), the backend answers a window with the points at
its multiples of the step that have a sample. `QueryRangeSync` decides between the direct and the
sharded path; on the sharded path each window is answered, or fails, in any order
(`ShardReturns`), its result carries the data to the channel (`ResultOf`), the main goroutine waits for all, then merges in the order of the answers.

`DataSourceProxy` has both proxies of `proxy.go`: `kind` says which one it is. A query reads the sorted
list of providers once, under the lock, and goes through it without; providers
are registered and deleted at any time. As names are not repeated, the rest of a sorted list is
the set of its members, of which the first by name (`IsHead`) is asked next. Every provider answers or fails in one step,
but for Prometheus in the proxy of history, whose answer is a range query of
`ShardQuery`. `stayed` and `seen` are history variables: who was registered throughout the query, and who at any
time during it. The program has no call of either proxy yet; `CreateComparator` asks
Prometheus itself, which is the case of one provider.

`MCShardQuery` tries every window from 0 to at most 7 with steps 1 and 2, one that is empty and
one that is odd, a limit of 3 points per request, and series with gaps: enough for one to four
shards with a whole or a partial last shard, for series that miss a shard, and
with three providers of the latest samples and two of history for one that fails before, and one that comes behind.

`ShardsFit`: no request asks for more points than the limit, the very purpose of
sharding, and what the windows do not cover lies at the end only. `MergedIsSubseries`: what is merged is sorted, without
repetition and without invention, in whatever order the shards answered.
`NobodyPassedOver`: a provider that was there throughout the query is passed over only if
it failed, an answer comes from one that did not, and what the shards answered without an error holds everything
they were asked for. `ProxyInv` is the type invariant with the inductive ones: what has been merged is what the shards received
asked for (`MergeKept`), and whoever stayed is still to be asked or has failed (`ListKept`). `QueryReturns`: the query returns if the requests do (their contexts
have timeouts; weak fairness of everything a query that has begun can do).

### `PriceFeed` and `PriceCache`

`PriceFeed` is the promise: the cache goes through rounds, a round comes to nothing or changes
the cache at once, what it writes is recent (`IsRecent`: a configuration the instance had since the round began,
with a price that this configuration had since then), and it takes away the entries of those instances only that
were not listed when it began. As to liveness, rounds go on, and if again and again
a round can be complete then again and again one is (`Completes`). `since` is a history variable: the facts of the cloud since the round began.

`PriceCache` cuts the round of the refresher at every call to the cloud: the standard
prices, each batch of `GetCVMInstances`, each price inquiry. Between any two of
them nodes join and leave, instances are modified or terminated, offers are
repriced and the API fails or recovers. An entry is a configuration with its
price. A failure of the first three calls ends the round (and, in `WarmUp`,
the program, so that deadlock is not checked in this run); a failed inquiry is only
skipped.

`IInv`: whatever a round has in its hands, described or priced, is a fact since it began.
`ImplementsFeed`: all this is a round of `PriceFeed`, liveness included. `CacheConverges`: once the environment is quiet, the cache
becomes, and stays, exactly the present prices of the present nodes. Fairness:
`wait.Until` calls `Refresh` again and again, outages end, and the node of a
terminated instance is removed from the cluster. Two instances in batches of
one, two offers and two prices make every interleaving of two entries
possible; at most two changes of the environment (`MaxChurn`) fall anywhere, the ends of
outages and departures of nodes are not counted.

### `Emitter` and `CostExporter`

One step per node in `GetNodesCost` (the cache's lock is taken anew for each),
one per gauge that is set or deleted, one per entry of the sweep, so that a
scrape falls between any two. A series is a node with its labels; costs and
labels change at any time. `CostExporter` puts the cache before it, as `Run` does: the
refresher is `PriceFeed`, which `PriceCache` implements, and `costOf` is no longer a
variable but `getCloudInstancePrice` of the cache's entry, whose labels come with it, or the default price.
An instance of a charge type that the code does not know is priced as if the cache had no entry for it (`CostOfEntry`;
`Charged` are the offers with a known one).
The cache may hold anything a round ever wrote when the emitter starts, since
that is when the lease is won.

`IInv` says for each phase of a pass which gauges show which answer, and that
nothing of the cloud's is lost between two hands (`NothingForgotten`).
`MirrorAtRest`, `NeverStale`, `NoFlicker` and `TotalHasParts` say what a scrape may see
between and within passes. `PricedByItsOffer`: whatever a scrape sees is a price the
cloud has had for a configuration this very instance has had, under the labels of
that configuration, or the default under the labels of the default. `GaugesConverge`: when the cloud and the cluster are quiet, the gauges become, and
stay, the present prices of the present nodes; and when the program is told to
stop, the loop ends, though a tick be always ready. Fairness: what
`PriceFeed` promises, the goroutine is scheduled, the ticker ticks, and the select, which Go decides at random, does not ignore a
ready stop channel for ever (strong fairness of `Stop`, for `Stop` is disabled
during a pass). Two nodes come and go in the run, their instances of one offer, of a known charge type, with two prices, and
the default price is a third; one change of the cloud (`MaxChanges`) may fall anywhere, and any difference
between the cache and the cloud may be there at the start, so that a pass meets series that are new, changed, and gone.

### `CheckpointFile` and `ComparatorInit`

A file is a header of columns and rows of cells, or a part of that: a crash, an
error or a full disk leaves any number of whole rows and one cut row, whose
last cell may be cut, too. Cells hold `"%.5f"` of their value (`Printed`), a series comes back
with the times of the header, which the row written last has stamped.
`ComparatorInit` runs `Init` for containers or for workloads several times over the same
file. Each run finds out anew which owners the cluster has (`workloadsSpecCache`, any set of them at each
`Start`), with the flag for checkpoints or without it: load, else fetch owner by owner with failing queries and answers of several
shapes, then save, with crashes anywhere. Two owners and three runs let a first run
leave a file, a second read or write it, a third read what the second left, while owners come and go between them. Deadlock is not checked:
the runs are bounded and the program ends.

`IInv`: each owner of a run that queries is in memory, refused or still to be queried, and there is no file it could
have read (`FetchInv`), what is on disk is the file of the
run that wrote last, or a part of it if that was interrupted (`DiskInv`), and what has been loaded is what
such a file says (`LoadInv`).
`SeriesSurvive`: whatever a run holds after loading are values that were fetched for this
owner and metric, with the times they were fetched with, provided
the series of all owners share their times. Left out are the metrics of workloads that the loader looks for in the wrong
place (`Misplaced`). `MissingForAReason`: an owner of the
cluster has no data only if a query for it failed, the file was cut, or the run that wrote the checkpoint did not know it;
and what is held of an owner that is gone comes from a checkpoint. `WholeCheckpointsStay`: no run empties or replaces a
file that can be read. Together they are the bargain of the checkpoint: it is never made anew,
and owners that came after it are never queried.

### `NodeCost`

A number is NaN, an infinity, or a fraction; `Rounded` is what `"%f"` does to it before
it is parsed again. A node starts without capacity, reports it, its instance enters, changes in and
leaves the cache, and a pass of the emitter prices it and sets its gauges; a
pod is priced in between. The default provider does only what `getDefaultNodePrice` does.

`PartsAddUp`: cores and gigabytes, priced in the ratio of the defaults, add up to the price
of the machine, up to rounding, those of a node as those of a pod. `PartsKeepRatio`: and they keep that ratio. `GaugesAreNumbers`: a
scrape never meets NaN or infinity, provided the default price of a core is
a number. A node or a pod whose parts are nothing (`NothingToDivideBy`) is left out of the first. The default prices in the run are zero,
NaN and one number each, for `computeNodeBreakdownCost` has a branch
for each of these; `Decimals = 100` stands for the six decimals of `"%f"`,
the slack of the properties is stated in it (`Slack`).

### `WorkloadPods` and `Recommendation`

The comparator identifies the pods of a workload in two ways, and `WorkloadPods` has both.
To find the workloads it walks from each pod up to its root owner, asking the API server for owner after
owner, and then for the replicas; a failure skips that pod. To fetch their usage it asks
for the series of all pods whose name begins with that of the workload. Names are sequences of parts.

`Recommendation` takes the pods one by one (`RecordWorkload`, `SkipPod`,
`OwnerLost`, `ReplicasLost`), in any order; then the usage is fetched, a
query failing or not (`fetchContainerData`), several series being merged into one; then
there is one step per phase of `DoAnalysis`, each of which takes all workloads. The inquiries
that fail in it are a parameter. The checkpoint between fetching and analysis is `ComparatorInit`'s.
Quantities are integers, in thousandths of a core and bytes, for the
code truncates to them. Workloads are deployments on real or virtual nodes, daemon
sets, jobs, which only the original coster counts, and pods of their own. The cluster is settled: the pods that run are those
that are desired. Time spans are whole hours. The tariff is linear in what is ordered. What pods have used is a set of statistics per
container, the merged series having the greatest maximum.
At most one call of an analysis fails (`AtMostOne`).
Of the names the proofs assume that nobody is called what a controller calls the pods of
others (`NamesAssumption`), and of the resources what the API server enforces (`Valid`); requests of
zero are valid, and `OfNoNumber` is what the code makes of a ratio to them. Two workloads with one container each, the name of one
beginning with that of the other, are enough to
see sums and omissions; among the specifications are a workload scaled to zero and
a container that requests no cores under a limit. `time_span` has one workload with two containers.
Deadlock is not checked: the analysis ends.

`IInv`: the pods are accounted for, what was fetched for a container covers what
its pods used, what is recommended follows what was fetched (`FoundInv`), and every cost is a number that
follows from both (`CostInv`).
`NobodyForgotten`: a workload that is missing from the reports is a job, is scaled to zero, or each single pod of
it met a failure; one pod that goes well is enough. `CoversOwnUsage`: a recommendation
by maximum is at least what the workload's own pods used, and exactly that unless the name of another begins with its name.
`RequestsWithinLimits`: what is recommended can be deployed, unless a container requests no cores
under a limit. `CostsOrdered`: percentile, then margin or
maximum, then maximum with margin, whatever is rounded up by the cloud or replaced by a default.
`SameRequestsSameCost`: a recommendation that changes nothing costs what the present requests cost. It
compares two costers, and holds only for a time span of one hour. `MovingNowhereIsFree`:
workloads that are serverless already cost the same counted pod by pod and by replicas.

### `Lifecycle`

`leaderElect` is the flag, the same for all replicas. `pc[r]` is where `Run` is in the process of replica `r`; the context of the program, the
emitter, the server and the one scrape it may be answering have a variable each. The
elector is that of client-go, an environment: it notices a change of the lease when it reads
it, and counts from then. Timers count down, and `Tick` does not happen while anything is `Due`: a goroutine that can
run does so within a tick, as do retries that would succeed. `LifecycleAssumption` demands
`LeaseDuration > RenewDeadline + RetryPeriod`; the defaults of fadvisor, 15 s, 10 s
and 2 s, satisfy it. Signals, kills, a port that is taken and outages of the API server
are faults, at most `MaxFaults`; five allow both replicas to fail in an outage and once more.
Without election there is nothing between the replicas, and `OneExporter` does not apply.

`IInv`: who leads holds the lease, and whoever has read the lease will wait for longer than its holder
goes on (`HeldLongEnough`).
`OneExporter`: never two replicas emit or serve, although the emitter is not told when the
lease is lost: it rests on the process ending before somebody else may take the lease. `ExportingResumes`:
after the last fault one replica exports, and goes on. `GracefulShutdown`: without
election, a process that ends by itself has waited for its scrapes; with it, it does not wait. Fairness: goroutines
run, the elector retries, the kubelet restarts, outages end and time passes; no scrape need ever end, which is
what the timeout of `Shutdown` is for.

### `CloudClient`

`GetAllZoneInstanceConfigInfos` and `ExponentialRetryCall`: the goroutine of each region makes the client if
there is none yet, which may fail (`GetClientFails`), waits
for a token, calls, fails and tries again, sends an answer or an error, and is done; a closer waits
for all of them; the caller drains the one channel and then the other. A goroutine blocks while its channel is full
(`Capacity`). `NoSendAfterClose`,
`GoroutinesAccounted` and `FanOutReturns` say what must come of
this in every order: each goroutine of a region with a name has handed over one answer or one error, and an error means that
there was no client or that every try failed. The answers are all of the configured region, and
`GoroutinesAccounted` says so: the regions are not accounted for. How long a goroutine sleeps before a retry is left open. Fairness: goroutines run, requests
return, the bucket is filled, and the limiter serves those who wait (strong fairness of `Accept`, since
client-go's limiter hands out reservations in order). Two regions with a name and one without, one token at a time, one retry,
and failures enough for both to be given up. Deadlock is not checked: the call returns.

## Runs

| run | shows |
|---|---|
| `limiter` | 4 callers, 2 slots: the invariant, liveness and the refinement of the fair semaphore; two waiters behind two requests are the least that shows overtaking and lost wakeups |
| `shard_query` | every small window, order and failure, 3 and 2 providers that come and go: the properties of the query |
| `shard_loss` | **violated**: `ShardedEqualsDirect`, the last points of a long window are lost |
| `price_cache` | 2 instances, 2 offers, 2 prices, batches of 1, 2 changes: the refinement of `PriceFeed`, and convergence |
| `emitter` | 2 nodes, 1 offer, 2 prices and a default, any cache at the start, 1 change: the exporter from the cloud to the gauges |
| `container_init` | the checkpoint of the containers over 3 runs with crashes, in a cluster whose owners come and go: the invariant, what comes back, what may be missing, and that what can be read stays |
| `workload_columns` | **violated**: `LoadedIsFetched`, columns of the workload checkpoint are read shifted |
| `node_cost` | 9 configurations, 2 capacities, 12 instances: prices and their parts |
| `recommendation` | 2 workloads with one container, `web` and `web-api`, up to two pods each, a time span of one hour: every property of the analysis |
| `time_span` | **violated**: `SameRequestsSameCost` for two hours, the time span is multiplied twice |
| `cloud_client` | 3 regions, 1 token, 1 retry, 4 failures, with a client at the start or without one: the fan-out |
| `lifecycle` | 2 replicas, with and without election, 5 faults: safety and liveness |

What the violated runs show is a disagreement of the code with what its tests, comments
and documents say; `PROJECT.json` has each under `findings` with its lines.

* A range of `n` points is cut into `ceil(n / limit)` shards, but a shard is only
  `limit - 1` steps wide and shares its last point with the next: up to one point per
  shard is lost at the end of the window.
* The loader of the workload checkpoint forgets the columns of `MemRequest` when it
  computes where those of `CpuLimit` begin; limits and replicas come back
  with the values of other metrics.
* The recommender coster multiplies with the time span twice; with the default of one hour
  nobody notices.

The models contain more of that kind, which no run is spent on; the properties
are stated for the cases that are right, and say so:

* `WorkloadTsDataInit` returns the error of the load that failed before the
  fetch succeeded, unless a checkpoint was saved in between, and the program ends (`WithoutCheckpoint`); that
  happens to the workloads only, and no property is about it.
* A checkpoint is never compared with the cluster. A workload that is newer than it is not queried, its recommendation is missing,
  and only a warning in the log tells of it (`LoadCheckpoint`; `MissingForAReason` has the exception).
* The recommended limit of memory has the ratio of limit to request of the cores (`ReqLimRatio`).
* A container may request zero cores under a limit. The ratio of limit to request is then
  infinite (not a number, if the limit is zero, too), and so is every limit
  recommended for it; converted to an `int64` it is arbitrary, on amd64 the least number there is (`HasNoRatio`).
* The original coster adds platform prices per hour to costs of the time span (`OriginalCost`).
* The total of the recommended resources counts one pod of each workload
  (`ServerlessWorkloadsResourceTotal`).
* The fan-out over the regions asks for the configured region in each goroutine (`AskedFor`), so that what it
  returns is that region's configurations, once for each region that has a name. Its comment says
  "return all regions all zones instance config" (`cvm.go:259`).
* The usage of `web-api` is fetched for `web`, too, since pods are selected by the prefix of their
  name; a recommendation by maximum can only rise by it, a percentile may fall (`Selected`).
* Pods in the informer's cache have no kind, so that a pod without an owner is not
  known as one: its replicas are asked for in vain, and it is in no report but the original cost (`RootKind`).
* With leader election the process ends with the elector and does not wait for the server
  to drain (`ReturnsFromRun`).

## Theorems

Each component's theorems are in a module of their own, with the lemmas they rest on. A
theorem holds for every value of the constants its module's assumptions allow; numbers of
nodes, workers, changes and failures are arbitrary. Where nothing else is said
a proof has this form: an invariant, `IInv`, holds at first and is kept by every step, one lemma per
action, and implies what is claimed. Unless said otherwise the same invariant is checked by a run.

### `PrometheusProofs`: the limiter

For every finite set of callers and every limit, 0 included:

* `LimiterInvariant` and `TypeCorrect`: `[]IInv`, `[]TypeOK`;
* `LimitIsKept`; `NoWakeupIsLost`: nobody waits while a slot is free; `NobodyOvertakes`: slots
  are granted in the order of the queue (both are proved only, not in a run);
* `LimiterIsSemaphore`: `LimiterSpec => Sem!Spec`, every step of the limiter is a step of the
  semaphore or leaves it unchanged.

`LimitKept` is not inductive by itself: a
`WaitReturns` adds a request in flight without looking at the counter. What makes it safe
is `CountExact` (the counter is the number of granted slots plus the number of
waiters), `WaitOnlyWhenFull` (somebody waits only while every slot is
granted) and `ListIsWaiting` with `WaitsOnce` (the list holds the waiters, each once, so that `Signal`
grants a slot to exactly one of them). The lemmas about `Granted` say by how many an action changes
its cardinality.

### `PrometheusProofs`: range queries and proxies

For any windows of a positive step, any limit, history, set of providers and order of answers:

* `ShardsFitWindow`: no shard asks for more points than the limit, the shards together ask for exactly the points
  up to the end of the last of them, and fewer points than there are shards lie behind it: the bound on what
  the run `shard_loss` shows to be lost;
* `LossOnlyBehindShards`: `[]ShardsFit`, and `MergingKeepsSeries`: `[]MergedIsSubseries`;
* `ProxyRunsRangeQueries`: `ProxySpec => Spec`, which carries these two over to queries behind a proxy;
* `ProxiesAskEveryone`: `[]NobodyPassedOver`; `ProxyKept`: `[]ProxyInv`.

`ShardsFitWindow` is arithmetic; the prover knows little of `\div` and `%` by a variable, so that most lemmas
speak of multiples of the step instead. Merging rests on `MergeIInv`: what has been merged is, key by key, exactly what the server
stores at the points of the shards received (`HoldsAt`), in strict order, and every shard is running, in the
channel, or received. Its lemmas say what `Walk`, `DropRepeats` and `Among` return: for sequences in
order they return one in order, of the union, without repetitions, of the intersection. These are recursive functions, and since
the library's induction theorems have an operator as a parameter, their lemmas use induction over a set
(`InductionUpTo`, from the library's well-foundedness of the natural numbers): the set of numbers for which the claim holds
contains 0 and with each number the next. `ProxiesAskEveryone` rests on `ListKept`
(whoever was there throughout is still to be asked or has failed) and `ResultExplained`; names are not repeated, so
that a list without its head is the set without its first by name.

### `ProviderProofs`: the price cache

For any offers and prices, any finite set of instances and any positive size of a batch:

* `GatheredStaysRecent`: `[]IInv`;
* `RefresherImplementsFeed`: `Spec => Feed!Spec`, with every call, failure and change of the cloud
  between two calls.

The refinement needs `GatheredIsRecent`: what a round has described or priced so far was a fact
since it began. That is kept because `since` only grows within a round (`FactsKept`), and
what a call returns is a fact when it returns. A round of many steps maps to its beginning,
stutters, and its end: it is given up (`FeedAbandons`), or writes the cache at once
(`FeedPublishes`), whatever inquiries have failed.

### `ProviderProofs`: the prices of nodes and pods

For any configured prices, NaN and infinity among them, any machines, pods and instances, and any number of decimals:

* `PricingInvariant`: `[]PricingInv`, which TLC has checked on the instance of `node_cost`, though it is not
  among the run's properties;
* `ScrapesMeetNumbers`: `[]GaugesAreNumbers`, which is about a default price of a core that is a number: any other may be exported as it is;
* `PartsAddUpToThePrice`: `[]PartsAddUp`, if no default price of a core is infinite (`NoInfinitePrice`). It may be,
  for the flag is a `float64` and nobody looks at it; the price of memory that is broken down is then zero and that of a core no number;
* `PartsKeepTheRatio`: `[]PartsKeepRatio`, which is about default prices that are numbers.

`PricingInv` says what an answer may be: made of the default prices (`ByDefault`), or broken down from a price and
the size of one and the same machine (`BrokenDown`), though capacity, cache and configuration may have changed since; and
the gauges show that answer. The rest is arithmetic on fractions in lowest terms. `Is(x, a, q)` says that the number
`x` is `a / q`, in lowest terms or not, so that sums and products are those of integers; `GcdDivides` and `LowestIsSame` are all that is
needed of Euclid's algorithm, again by induction over a set. `RoundedPartsAddUp` and `RoundedRatio` bound what rounding
of the parts does to their sum and their ratio.

`Slack` was too small as first stated, and the attempt to prove `PartsAddUp` showed it: the price of
a gigabyte is rounded, and so is the number of gigabytes it is multiplied with, which makes half a unit of the
last decimal for each, and for both together the product of these halves, more than the instance of the run could show.

### `EmitterProofs` and `CostExporterProofs`

For any nodes, labels and costs, which the emitter reads from a parameter that may
change at any time:

* `PassDeterminesGauges`: `[]IInv`, which says for each phase of a pass which gauges show which answer;
* `MirrorsAtRest`, `NothingStale`, `TotalsHaveParts`, and `NothingFlickers`, an action property.

`GaugesShow` is the heart of it: each gauge is at every moment the previous answer, with the
series that were visited renewed or, in the sweep, with those still to visit kept (`Renewed`, `Kept`). The series at hand
is open for a gauge until its own call is made (`OpenFor`). `SeenIsKnown` says the same of
`nodesLastSeen`, and `AtHand` which calls for that series are left.

`CostExporter` is the composition, and `CostExporterProofs` instantiates the theorems about the
emitter with its costs: `ExporterMirrorsAtRest`, `ExporterNothingStale`,
`ExporterTotalsHaveParts` and `ExporterNothingFlickers` state them for the exporter as a whole. What is new is `HandsHoldFacts`
(`[]IInv`): the cloud's facts, those of the round, the entries of the cache and the costs in both answers are all
among `ever`, the facts there have been, each price under its labels (`NothingForgotten`), for any offers and any set of them
that is of a known charge type. With `NothingStale` this gives
`PricesUnderTheirLabels`: `[]PricedByItsOffer`, the path from the cloud to the scrape.

### `CloudClientProofs`

For any finite set of regions, with and without names, any number of tokens, retries and failures:

* `FanOutAgrees`: `[]IInv`, which TLC has checked on the instance of the run, though it is not
  among the run's properties;
* `SendsBeforeClose`: `[]NoSendAfterClose`; `GoroutinesAreAccounted`: `[]GoroutinesAccounted`;
* `SendsGoThrough`: `[]SendsNeverBlock`, a goroutine that has something to send finds its channel open and with room for
  it. The run sees the same in `FanOutReturns`, to which a blocked goroutine would be fatal.

`ClosedBehindTheLast` (a channel is closed only when no goroutine is running any more) gives the first. `Accounted`
gives the others: what is in the channels and in the hands of the caller is as many items as goroutines of regions with a name
have sent, those of errors one for each that has failed, and the
caller goes on only with an empty channel. `TriesLeft` says which goroutines may give up: those that have tried
as often as they may, and those that had no client to try with (`GaveUp`).

### `LifecycleProofs`

For any set of replicas, any number of faults, and any timeouts with
`LeaseDuration > RenewDeadline + RetryPeriod`:

* `LeadersHoldTheLease`: `[]IInv`; `OneReplicaExports`: `[]OneExporter`;
* `ShutdownWaits`: `GracefulShutdown`, an action property.

`OneExporter` compares two processes that know nothing of each other. `HeldLongEnough` is what relates them: whoever has
read the lease's present version will wait for longer than its holder goes on without renewing it. It is kept by
`Tick`, which takes one from both, and restored by a renewal and by whoever reads one, who waits for the whole of `LeaseDuration` from
then on, while the holder goes on for at most `RenewDeadline + RetryPeriod`: that is what the assumption about the timeouts is for.

### `ComparatorInitProofs`

For any finite set of owners, any series the data source may hold for them, any number of runs, and failures and crashes
anywhere:

* `OwnersAccountedFor`: `[]IInv`; `InitTypes`: `[]TypeOK`;
* `MissingOwnersExplained`: `[]MissingForAReason`, whatever owners each run finds;
* `ReadableCheckpointsStay`: `WholeCheckpointsStay`, an action property;
* `CheckpointsSurvive`: `[]SeriesSurvive`, for both tables: of the containers all metrics come back, of the workloads all but those
  that are `Misplaced`. The run `workload_columns` shows that these may not; the theorem says that nothing else goes wrong: the first
  four metrics come back, and the others as well if no requests of memory were fetched.

The first two and `MissingOwnersExplained` rest on what a file and its parts have for rows: each owner one (`OrderType`), a part the first of them (`PartsOfFile`),
and a load takes the owners of the rows there are (`LoadedType`). `ReadableCheckpointsStay` needs that a run queries only where it found nothing to
read, and that the file stays unreadable until it writes, which is in `FetchInv`. `CheckpointsSurvive` needs the columns, too, of which the code has
no picture: the writer appends, metric by metric and sample by sample, and the loader
counts how many columns the metrics before had. `Laid` is that picture, an offset for each metric. `WrittenInPlace` says that the writer puts
the cells of a metric behind its offset, whatever the order of the owners, filled up with empty cells to the longest series
of the metric (`WidthIsGreatest`); `OffsetOfMetric` and `ReadFromCells` say that the loader, which adds up the same
widths, takes them from there, if every metric before that it does not count has no column (`Counted`, `MisplacedBehindMemRequest`). A row is as long as the header or is refused, so that of a cut file a row is read only if it
is whole or has lost digits of its last cell (`CutRowRead`), which touches the last value of the last metric and nothing else (`CutMetric`). The
times are those of the header, stamped by the owner written last (`StampedBySample`), which are everybody's if the
series agree (`TimesComeBack`). Loops that append are folds, and their lemmas (`AppendedInPlace`, `JoinedInPlace`)
use induction over a set.

### `RecommendationProofs`

For any finite sets of workloads and containers, and any names, usage, prices and margin that satisfy the named assumptions of
`Recommendation`:

* `RecommendationsFollowData`: `[]IInv`;
* `NobodyIsForgotten`, `OwnUsageCovered` and `RequestsStayWithinLimits`;
* `MovingCostsNothing`: `[]MovingNowhereIsFree`;
* `SameRequestsCostTheSame`: `[]SameRequestsSameCost`, if the time span is one hour (`TimeSpanSeconds = 3600`); for any other
  it is false, as `time_span` shows;
* `RecommendationsCostInOrder`: `[]CostsOrdered`, if no container with usage has a percentile of memory of zero
  (`MemoryIsUsed`). A pod that requests nothing is priced as the cloud's smallest of its kind, which may cost more than a pod
  that requests a little; with memory in use there is no such pod among the recommended ones.

`NobodyForgotten` needs `PodsAccounted`: a workload not recorded has no pods but those still to visit
and those that met a failure. `CoversOwnUsage` needs that a workload's own pods are selected by its
name, which is why `DataCovers` compares maxima and not the series. `RequestsWithinLimits` is about two integer divisions that round down:
lemmas about `Factor` and the ratio of limit to request show that a request scaled by a ratio of at least one is not above the
limit. One call of an analysis at most fails (`AtMostOne`), as in the run.

The theorems about costs compare sums over workloads, containers and nodes. A sum is a fold over a finite set
(`SumFunctionOnSet`); that it is a number, and that it grows with its terms, is shown by induction over finite
subsets, once more over a set and not over an operator. `CostsOrdered` goes from the container to the pod to the
workload: what a bolder recommendation requests is less or the same at each step, through the cloud's rounding up and
its defaults. It needs of the data that a percentile is not above the maximum (`UsagesAssumption`), which is so by what they are.

Two properties were false as first stated, and the attempts to prove them showed it; the instance had
no such workload, and has now. A workload scaled to zero has no pod and is in no report; and a container that
requests zero cores under a limit is recommended limits that are no numbers.

### Only model-checked

Every invariant and action property that a passing run checks is proved, under the hypotheses named above. What is left to TLC:

* Liveness, and the fair halves of `ImplementsSemaphore` and `ImplementsFeed`, which are out of the
  prover's reach: `BlockedIsServed`, `CacheConverges`, `GaugesConverge`, `QueryReturns`,
  `FanOutReturns`, `ExportingResumes`.
* The cases the hypotheses leave out: a default price that is infinite, containers that use no memory. They are not among the instances
  of the runs either.

## Not modelled

Contents of HTTP requests, authentication, tables of reports and query strings,
flags, logging, the informers of client-go; `OnNodeAdd`,
`OnNodeDelete` and `OnNodeUpdate` of the provider, which nobody calls; standard
prices, which are fetched but never read; discounts, a constant factor of prices; the renewal of credentials, whose
setters nobody calls. A step of less than a second, a limit of
no points at all and `DefaultLimit = 0` are excluded by the models'
constants; the hazards list says what the code does with them.

* `staging/` is the generated client of the Tencent Cloud API: 64,000 of the repository's 75,000 lines of Go, one
  record and one function per request, without state or control. Of the 10,900
  lines of the program itself the map covers a third; the rest is mostly formatting, flags, and clients that repeat
  what a modelled one does.
* Of the metrics server and the cloud monitor only that they answer or fail. The sums of the first are loops over the
  containers of a pod; the second translates requests, and the units of its
  answers are the cloud's to define. With the metrics server as data source the comparator has no source at all
  (`initializationDataSource` leaves the one it is given nil), and its first query panics.
* `UpdateConfigFromConfigMap` and `SetCustomPricing`, which nobody calls; the latter accepts
  strings only, and no price is one. The methods of the default provider beyond the default price, of which several panic with "implement me".

## Plan

Done, in this order: `RateLimit` with its proofs, `ShardQuery`, `PriceCache`, `Emitter`,
`ComparatorInit`, `NodeCost`, `Lifecycle`, `Recommendation`, `CloudClient`; then `PriceFeed` and its refinement,
`CostExporter`, `WorkloadPods` with the discovery of workloads and their usage, and `DataSourceProxy`; then
the proofs about `PriceCache`, `Emitter`, `CostExporter`, `CloudClient`, `DataSourceProxy` with its range queries, `Lifecycle`,
`Recommendation`, `ComparatorInit` and `NodeCost`, up to all invariants of the runs. Next:

1. The query builders, if ever they build more than strings: only which pods they select is modelled.
2. The liveness properties, when the prover knows `ENABLED`.
