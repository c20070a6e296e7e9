--------------------------- MODULE ComparatorInit ---------------------------
(***************************************************************************)
(* Comparator.Init, pkg/cost-comparator/comparator.go: how one of the two  *)
(* tables of time series, that of the containers or that of the workloads, *)
(* comes into memory.  Each run of the command finds out which of them the *)
(* cluster has, loads the checkpoint of an earlier run if it can read it,  *)
(* whatever the cluster had then, and otherwise queries the data source    *)
(* owner by owner, leaves out an owner for which a query fails, and writes *)
(* a checkpoint if it is told to.  A run may die while it writes.          *)
(***************************************************************************)
EXTENDS CheckpointFile

CONSTANTS
    Table,      \* "container" or "workload"
    Owners,     \* the containers or workloads there may be
    Samples,    \* what a sample may be, a record of at and value
    Answers,    \* what the data source may hold for each owner
    MaxRuns     \* bound on the runs of the command

Metrics == IF Table = "container" THEN ContainerMetrics ELSE WorkloadMetrics

ASSUME ComparatorInitAssumption ==
    /\ Table \in {"container", "workload"}
    /\ IsFiniteSet(Owners)
    /\ \A o \in Owners : Answers[o] \subseteq [ToSet(Metrics) -> Seq(Seq(Samples))]
    /\ MaxRuns \in Nat

VARIABLES
    pc,             \* where the run of the command is
    checkpointing,  \* was it started with --comparator-enable-...-ts-checkpoint?
    workloadsSpecCache, \* the owners that this run has found in the cluster
    disk,           \* the checkpoint files there are, at most one
    cache,          \* containersTimeSeriesDataCache or workloadsTimeSeriesDataCache
    toFetch,        \* the owners not yet queried
    refused,        \* history: the owners of which a query failed
    writer,         \* history: what the run held that wrote the file
    runs            \* how many runs there have been

vars == <<pc, checkpointing, workloadsSpecCache, disk, cache, toFetch, refused, writer, runs>>

NoWriter == [owners |-> {}, data |-> NoData, refused |-> {}, torn |-> FALSE]

Init ==
    /\ pc = "over"
    /\ checkpointing = FALSE
    /\ workloadsSpecCache = {}
    /\ disk = {}
    /\ cache = NoData
    /\ toFetch = {}
    /\ refused = {}
    /\ writer = NoWriter
    /\ runs = 0

----------------------------------------------------------------------------
(* The command is started, with the flag or without it, and initWorkloads- *)
(* Spec builds the table of the owners anew: others than before may be in  *)
(* the cluster.                                                            *)
Start(flag, owners) ==
    /\ pc \in {"over", "loaded", "fetched", "fatal"}
    /\ runs < MaxRuns
    /\ runs' = runs + 1
    /\ pc' = "load"
    /\ checkpointing' = flag
    /\ workloadsSpecCache' = owners
    /\ cache' = NoData
    /\ refused' = {}
    /\ UNCHANGED <<disk, toFetch, writer>>

IsReadable(file) == Readable(file, IF Table = "container" THEN 4 ELSE 3)
Loaded(file) ==
    IF Table = "container" THEN LoadContainerTimeSeriesDataFromCheckpoint(file)
                           ELSE LoadWorkloadTimeSeriesDataFromCheckpoint(file)

\* Mutant: with the flag set the checkpoint is made anew.
LoadUnlessFlagged ==
    /\ pc = "load"
    /\ IF ~checkpointing /\ \E file \in disk : IsReadable(file)
       THEN /\ pc' = "loaded"
            /\ \E file \in disk : cache' = Loaded(file)
            /\ refused' = writer.refused
            /\ UNCHANGED toFetch
       ELSE /\ pc' = "fetch"
            /\ toFetch' = workloadsSpecCache
            /\ UNCHANGED <<cache, refused>>
    /\ UNCHANGED <<checkpointing, workloadsSpecCache, disk, writer, runs>>
(* TsDataInit looks for a checkpoint whether the flag is set or not, and   *)
(* is content with whatever owners it has.                                 *)
LoadCheckpoint ==
    /\ pc = "load"
    /\ IF \E file \in disk : IsReadable(file)
       THEN /\ pc' = "loaded"
            /\ \E file \in disk : cache' = Loaded(file)
            /\ refused' = writer.refused
            /\ UNCHANGED toFetch
       ELSE /\ pc' = "fetch"
            /\ toFetch' = workloadsSpecCache
            /\ UNCHANGED <<cache, refused>>
    /\ UNCHANGED <<checkpointing, workloadsSpecCache, disk, writer, runs>>

StoreAnyway(o, answer, ok) ==          \* mutant: the failure is only logged
    /\ pc = "fetch"
    /\ o \in toFetch
    /\ toFetch' = toFetch \ {o}
    /\ cache' = [p \in DOMAIN cache \cup {o} |-> IF p = o THEN answer ELSE cache[p]]
    /\ refused' = IF ok THEN refused ELSE refused \cup {o}
    /\ UNCHANGED <<pc, checkpointing, workloadsSpecCache, disk, writer, runs>>
StopAtFailure(o, answer, ok) ==        \* mutant: a failure ends the loop
    /\ pc = "fetch"
    /\ o \in toFetch
    /\ toFetch' = IF ok THEN toFetch \ {o} ELSE {}
    /\ cache' = [p \in DOMAIN cache \cup (IF ok THEN {o} ELSE {}) |->
                    IF p = o THEN answer ELSE cache[p]]
    /\ refused' = IF ok THEN refused ELSE refused \cup {o}
    /\ UNCHANGED <<pc, checkpointing, workloadsSpecCache, disk, writer, runs>>
(* One owner is queried, metric after metric: if any query fails, the      *)
(* owner is left out.                                                      *)
fetchData(o, answer, ok) ==
    /\ pc = "fetch"
    /\ o \in toFetch
    /\ toFetch' = toFetch \ {o}
    /\ IF ok THEN /\ cache' = [p \in DOMAIN cache \cup {o} |->
                                  IF p = o THEN answer ELSE cache[p]]
                  /\ UNCHANGED refused
             ELSE /\ refused' = refused \cup {o}
                  /\ UNCHANGED cache
    /\ UNCHANGED <<pc, checkpointing, workloadsSpecCache, disk, writer, runs>>

(* The end of TsDataInit when no checkpoint is wanted.  WorkloadTsDataInit *)
(* returns err, which still holds the error of the load, and Init ends the *)
(* program; ContainerTsDataInit returns nil.                               *)
WithoutCheckpoint == IF Table = "container" THEN "fetched" ELSE "fatal"

SkipCheckpoint ==
    /\ pc = "fetch"
    /\ toFetch = {}
    /\ ~checkpointing
    /\ pc' = WithoutCheckpoint
    /\ UNCHANGED <<checkpointing, workloadsSpecCache, disk, cache, toFetch, refused, writer, runs>>

----------------------------------------------------------------------------
OrdersOf(data) == {order \in [1..Cardinality(DOMAIN data) -> DOMAIN data] :
                     \A i, j \in DOMAIN order : order[i] = order[j] => i = j}
FileOf(data, order) ==
    IF Table = "container" THEN ContainerDataCheckpoint(data, order)
                           ELSE workloadTimeSeriesDataCheckpoint(data, order)
Orders == OrdersOf(cache)
FileFor(order) == FileOf(cache, order)

(* The checkpoint is written to its end. *)
Checkpoint(order) ==
    /\ pc = "fetch"
    /\ toFetch = {}
    /\ checkpointing
    /\ pc' = "fetched"
    /\ disk' = {FileFor(order)}
    /\ writer' = [owners |-> workloadsSpecCache, data |-> cache, refused |-> refused, torn |-> FALSE]
    /\ UNCHANGED <<checkpointing, workloadsSpecCache, cache, toFetch, refused, runs>>

(* The file cannot be created: the old one stays, and Init ends the        *)
(* program.                                                                *)
CreateFails ==
    /\ pc = "fetch"
    /\ toFetch = {}
    /\ checkpointing
    /\ pc' = "fatal"
    /\ UNCHANGED <<checkpointing, workloadsSpecCache, disk, cache, toFetch, refused, writer, runs>>

(* The process dies after os.Create has emptied the file, or a write fails *)
(* and Init ends the program: some part of the file is on disk.            *)
WriteInterrupted(order, dies) ==
    /\ pc = "fetch"
    /\ toFetch = {}
    /\ checkpointing
    /\ pc' = IF dies THEN "over" ELSE "fatal"
    /\ \E part \in LeftOnDisk(FileFor(order)) : disk' = {part}
    /\ writer' = [owners |-> workloadsSpecCache, data |-> cache, refused |-> refused, torn |-> TRUE]
    /\ UNCHANGED <<checkpointing, workloadsSpecCache, cache, toFetch, refused, runs>>

(* The process dies before that. *)
Dies ==
    /\ pc \in {"load", "fetch"}
    /\ pc' = "over"
    /\ toFetch' = {}
    /\ UNCHANGED <<checkpointing, workloadsSpecCache, disk, cache, refused, writer, runs>>

Next ==
    \/ \E flag \in BOOLEAN, owners \in SUBSET Owners : Start(flag, owners)
    \/ LoadCheckpoint
    \/ \E o \in Owners, ok \in BOOLEAN : \E d \in Answers[o] : fetchData(o, d, ok)
    \/ SkipCheckpoint
    \/ \E order \in Orders : Checkpoint(order)
    \/ CreateFails
    \/ \E order \in Orders, dies \in BOOLEAN : WriteInterrupted(order, dies)
    \/ Dies

Spec == Init /\ [][Next]_vars

----------------------------------------------------------------------------
TypeOK ==
    /\ pc \in {"over", "load", "fetch", "loaded", "fetched", "fatal"}
    /\ checkpointing \in BOOLEAN
    /\ workloadsSpecCache \subseteq Owners
    /\ Cardinality(disk) <= 1
    /\ DOMAIN cache \subseteq Owners
    /\ \A o \in DOMAIN cache : DOMAIN cache[o] = ToSet(Metrics)
    /\ toFetch \subseteq Owners /\ refused \subseteq Owners
    /\ toFetch \cap DOMAIN cache = {}
    /\ refused \cap (toFetch \cup DOMAIN cache) = {}
    /\ runs \in 0..MaxRuns

(* The inductive invariant: at every point of a run that queries each of   *)
(* its owners is in memory, refused, or yet to be queried, and what it     *)
(* holds is what it was answered, and there was no checkpoint to be read;  *)
(* what is on disk is the file, or a part of it, of what the last run that *)
(* wrote one held; and a run that has loaded holds what can be read of     *)
(* that file.                                                              *)
FetchInv ==
    /\ pc # "fetch" => toFetch = {}
    /\ pc = "load" => cache = NoData /\ refused = {}
    /\ pc = "fetch" => \A o \in DOMAIN cache : cache[o] \in Answers[o]
    /\ pc \in {"fetch", "fetched"} =>
          toFetch \cup DOMAIN cache \cup refused = workloadsSpecCache
    /\ pc = "fetch" => \A file \in disk : ~IsReadable(file)
DiskInv ==
    \/ disk = {} /\ writer = NoWriter
    \/ /\ writer.owners \subseteq Owners
       /\ DOMAIN writer.data \cup writer.refused = writer.owners
       /\ DOMAIN writer.data \cap writer.refused = {}
       /\ \A o \in DOMAIN writer.data : writer.data[o] \in Answers[o]
       /\ \E order \in OrdersOf(writer.data) :
             LET file == FileOf(writer.data, order)
             IN  IF writer.torn THEN \E part \in LeftOnDisk(file) : disk = {part}
                                ELSE disk = {file}
LoadInv ==
    pc = "loaded" => /\ \E file \in disk : IsReadable(file) /\ cache = Loaded(file)
                     /\ refused = writer.refused
IInv == TypeOK /\ FetchInv /\ DiskInv /\ LoadInv

ValuesOf(s) == [i \in DOMAIN s |-> s[i].value]
TimesOf(s) == [i \in DOMAIN s |-> s[i].at]
Want(o, m) == FirstSeries(writer.data[o][m])
Got(o, m) == FirstSeries(cache[o][m])

(* The one cell that a torn file may hold a part of: the last one. *)
IsTornCell(o, m) ==
    writer.torn /\ \E file \in disk :
        Last(file.rows).owner = o /\ Last(file.header).metric = m

(* The loader of the workloads does not count the columns of MemRequest:   *)
(* if there are any, it looks for the metrics behind them too far left.    *)
Misplaced(m) ==
    /\ Table = "workload" /\ m \in {"CpuLimit", "MemLimit", "Replicas"}
    /\ \E o \in DOMAIN writer.data : Want(o, "MemRequest") # <<>>

ValuesSurvive == \A o \in DOMAIN cache :
    /\ o \in DOMAIN writer.data
    /\ \A m \in ToSet(Metrics) : ~Misplaced(m) =>
        LET want == [i \in DOMAIN Want(o, m) |-> Printed(Want(o, m)[i].value)]
            got == ValuesOf(Got(o, m))
        IN  \/ got = want
            \/ IsTornCell(o, m) /\ got \in {Front(want), Append(Front(want), Garbled)}
Aligned(m) == \A o, p \in DOMAIN writer.data :
    \A i \in DOMAIN Want(o, m) \cap DOMAIN Want(p, m) :
        Want(o, m)[i].at = Want(p, m)[i].at
TimesSurvive == \A o \in DOMAIN cache, m \in ToSet(Metrics) :
    Aligned(m) /\ ~Misplaced(m) => IsPrefix(TimesOf(Got(o, m)), TimesOf(Want(o, m)))

(* The estimators see the same numbers in a run that loads the checkpoint  *)
(* as in the run that wrote it: each value of the first series of each     *)
(* metric of each owner, to the fifth decimal and in order.  Exceptions    *)
(* are the last cell of a file whose writer was interrupted, and the       *)
(* metrics that the loader of the workloads misplaces.  All rows           *)
(* share the times in the header: as long as the series of a metric agree  *)
(* on the time of their i-th samples, however long they are, each sample   *)
(* comes back with its own time.                                           *)
SeriesSurvive == pc = "loaded" => ValuesSurvive /\ TimesSurvive

(* Nothing is missing without a reason.  An owner of the cluster that the  *)
(* analysis has no data for is one whose queries failed, in this run or in *)
(* the run that wrote the checkpoint, or that run was interrupted while it *)
(* wrote, or it was not there then: what appeared after the checkpoint was *)
(* written is not queried, and only a warning tells of it.  Owners that    *)
(* are gone come from a checkpoint only, in which they were at home.       *)
MissingForAReason ==
    pc \in {"loaded", "fetched"} =>
        /\ \A o \in workloadsSpecCache \ DOMAIN cache :
              \/ o \in refused
              \/ pc = "loaded" /\ (writer.torn \/ o \notin writer.owners)
        /\ \A o \in DOMAIN cache \ workloadsSpecCache :
              pc = "loaded" /\ o \in writer.owners

(* A checkpoint that can be read stays, with the flag or without it, and   *)
(* whatever run dies or fails: no later run empties the file, or replaces  *)
(* what it holds by what the cluster has now.                              *)
WholeCheckpointsStay == [][(\E file \in disk : IsReadable(file)) => UNCHANGED disk]_vars

(* What the description of the checkpoint flags promises: a later run need *)
(* not fetch the same data again, so that what it loads is, owner by owner *)
(* and metric by metric, what was fetched, up to the fifth decimal.        *)
LoadedIsFetched ==
    pc = "loaded" /\ ~writer.torn =>
        \A o \in DOMAIN writer.data : \A m \in ToSet(Metrics) :
            ValuesOf(Got(o, m)) = [i \in DOMAIN Want(o, m) |-> Printed(Want(o, m)[i].value)]
=============================================================================
