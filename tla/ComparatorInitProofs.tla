------------------------ MODULE ComparatorInitProofs ------------------------
(***************************************************************************)
(* Proofs about Comparator.Init, for every set of owners, everything that  *)
(* the data source may hold for them, and any number of runs.              *)
(***************************************************************************)
EXTENDS ComparatorInit, FiniteSetTheorems, WellFoundedInduction, TLAPS

----------------------------------------------------------------------------
(* The rows of a file.                                                     *)

(* Each owner has a row. *)
LEMMA OrderType ==
  ASSUME NEW data, IsFiniteSet(DOMAIN data), NEW order \in OrdersOf(data)
  PROVE  /\ Cardinality(DOMAIN data) \in Nat
         /\ DOMAIN order = 1..Cardinality(DOMAIN data)
         /\ {order[r] : r \in DOMAIN order} = DOMAIN data
         /\ \A i, j \in DOMAIN order : order[i] = order[j] => i = j
<1> DEFINE N == Cardinality(DOMAIN data)
<1>1. N \in Nat
  BY FS_CardinalityType
<1>2. order \in [1..N -> DOMAIN data] /\ \A i, j \in 1..N : order[i] = order[j] => i = j
  BY DEF OrdersOf
<1>3. order \in Injection(1..N, DOMAIN data)
  BY <1>2 DEF Injection, IsInjective
<1>4. IsFiniteSet(1..N) /\ Cardinality(1..N) = N
  BY <1>1, FS_Interval
<1>5. order \in Surjection(1..N, DOMAIN data)
  BY <1>3, <1>4, FS_Injection
<1>6. \A o \in DOMAIN data : \E r \in 1..N : order[r] = o
  BY <1>5 DEF Surjection
<1> HIDE DEF N
<1>7. DOMAIN order = 1..N /\ \A r \in 1..N : order[r] \in DOMAIN data
  BY <1>2
<1>8. {order[r] : r \in DOMAIN order} = DOMAIN data
  BY <1>6, <1>7
<1>9. QED
  BY <1>1, <1>2, <1>7, <1>8 DEF N

OwnersIn(file) == {file.rows[r].owner : r \in DOMAIN file.rows}
LEMMA OwnersInFile ==
  ASSUME NEW data, IsFiniteSet(DOMAIN data), NEW order \in OrdersOf(data)
  PROVE  LET file == FileOf(data, order)
         IN  /\ DOMAIN file.rows = DOMAIN order
             /\ \A r \in DOMAIN order : file.rows[r].owner = order[r]
             /\ OwnersIn(file) = DOMAIN data
<1> DEFINE file == FileOf(data, order)
<1>1. DOMAIN file.rows = DOMAIN order /\ \A r \in DOMAIN order : file.rows[r].owner = order[r]
  BY DEF FileOf, ContainerDataCheckpoint, workloadTimeSeriesDataCheckpoint, Written
<1> HIDE DEF file
<1>2. OwnersIn(file) = {order[r] : r \in DOMAIN order}
  BY <1>1 DEF OwnersIn
<1>3. QED
  BY <1>1, <1>2, OrderType DEF file

(* What may be left of a file: some of its rows, the last of which may be  *)
(* cut, unless it ends in the header.                                      *)
PartOf(part, file, n) ==
  /\ DOMAIN part.rows = 1..n
  /\ \A r \in 1..n : part.rows[r].owner = file.rows[r].owner
  /\ n > 0 => part.header = file.header
  /\ \A r \in 1..n : r = n \/ part.rows[r] = file.rows[r]
  /\ n > 0 => part.rows[n] = file.rows[n] \/ part.rows[n] \in CutRow(file.rows[n])
IsFile(file, R) ==
  /\ file.rows \in Seq(R)
  /\ file = [header |-> file.header, rows |-> file.rows]
  /\ \A r \in DOMAIN file.rows :
        file.rows[r] = [owner |-> file.rows[r].owner, cells |-> file.rows[r].cells]
LEMMA PartsOfFile ==
  ASSUME NEW R, NEW file, IsFile(file, R), NEW part \in LeftOnDisk(file)
  PROVE  \E n \in 0..Len(file.rows) : PartOf(part, file, n)
<1> DEFINE rows == file.rows
           N == Len(rows)
<1>0. rows \in Seq(R)
  BY DEF IsFile
<1>1. N \in Nat /\ DOMAIN rows = 1..N
  BY <1>0
<1>2. CASE part \in {[header |-> SubSeq(file.header, 1, n), rows |-> <<>>] : n \in 0..Len(file.header)}
  <2>1. part.rows = <<>> /\ DOMAIN part.rows = 1..0
    BY <1>2
  <2>2. PartOf(part, file, 0)
    BY <2>1 DEF PartOf
  <2>3. QED
    BY <1>1, <2>2
<1>3. CASE part \in {[file EXCEPT !.rows = SubSeq(@, 1, n)] : n \in 0..Len(file.rows)}
  <2>1. PICK n \in 0..N : part = [file EXCEPT !.rows = SubSeq(@, 1, n)]
    BY <1>3
  <2>2. part.rows = SubSeq(rows, 1, n) /\ part.header = file.header
    BY <2>1 DEF IsFile
  <2>3. DOMAIN part.rows = 1..n /\ \A r \in 1..n : part.rows[r] = rows[r]
    BY <1>0, <1>1, <2>2
  <2>4. PartOf(part, file, n)
    <3>1. file.rows = rows
      OBVIOUS
    <3> HIDE DEF rows
    <3>2. QED
      <4>1. \A r \in 1..n : part.rows[r].owner = file.rows[r].owner
        BY <2>3, <3>1
      <4>2. part.header = file.header
        BY <2>2
      <4>3. \A r \in 1..n : part.rows[r] = file.rows[r]
        BY <2>3, <3>1
      <4>4. DOMAIN part.rows = 1..n
        BY <2>3
      <4>5. QED
        BY <4>1, <4>2, <4>3, <4>4 DEF PartOf
  <2>5. QED
    BY <2>4
<1>4. CASE part \in UNION {{[file EXCEPT !.rows = Append(SubSeq(@, 1, n - 1), row)] :
                              row \in CutRow(file.rows[n])} : n \in 1..Len(file.rows)}
  <2>1. PICK n \in 1..N : part \in {[file EXCEPT !.rows = Append(SubSeq(@, 1, n - 1), row)] :
                                       row \in CutRow(file.rows[n])}
    BY <1>4
  <2>2. PICK row \in CutRow(rows[n]) : part = [file EXCEPT !.rows = Append(SubSeq(@, 1, n - 1), row)]
    BY <2>1
  <2> DEFINE before == SubSeq(rows, 1, n - 1)
  <2>3. part.rows = Append(before, row) /\ part.header = file.header
    BY <2>2 DEF IsFile
  <2>4. before \in Seq(R) /\ Len(before) = n - 1 /\ \A r \in 1..n - 1 : before[r] = rows[r]
    BY <1>0, <1>1
  <2> HIDE DEF before
  <2>5. /\ DOMAIN Append(before, row) = 1..n /\ Append(before, row)[n] = row
        /\ \A r \in 1..n - 1 : Append(before, row)[r] = rows[r]
    <3>1. before \in Seq(R \cup {row}) /\ row \in R \cup {row}
      BY <2>4
    <3>2. QED
      BY <1>1, <2>4, <3>1
  <2>6. row.owner = rows[n].owner
    <3> DEFINE whole == rows[n]
    <3>1. whole = [owner |-> whole.owner, cells |-> whole.cells]
      BY <1>1 DEF IsFile
    <3>2. row \in CutRow(whole)
      OBVIOUS
    <3> SUFFICES row.owner = whole.owner
      BY DEF whole
    <3> HIDE DEF whole
    <3>3. CASE row \in {[whole EXCEPT !.cells = SubSeq(@, 1, k)] : k \in 0..Len(whole.cells) - 1}
      <4>1. PICK k \in 0..Len(whole.cells) - 1 : row = [whole EXCEPT !.cells = SubSeq(whole.cells, 1, k)]
        BY <3>3
      <4> DEFINE cells == SubSeq(whole.cells, 1, k)
                 a == whole.owner
                 b == whole.cells
      <4>2. row = [whole EXCEPT !.cells = cells] /\ whole = [owner |-> a, cells |-> b]
        BY <3>1, <4>1
      <4> HIDE DEF cells, a, b
      <4>3. row.owner = a
        BY <4>2
      <4>4. QED
        BY <4>3 DEF a
    <3>4. CASE row \in {[whole EXCEPT !.cells = Append(Front(@), c)] :
                          c \in IF whole.cells = <<>> THEN {} ELSE CutCell(Last(whole.cells))}
      <4>1. PICK c : row = [whole EXCEPT !.cells = Append(Front(whole.cells), c)]
        BY <3>4
      <4> DEFINE cells == Append(Front(whole.cells), c)
                 a == whole.owner
                 b == whole.cells
      <4>2. row = [whole EXCEPT !.cells = cells] /\ whole = [owner |-> a, cells |-> b]
        BY <3>1, <4>1
      <4> HIDE DEF cells, a, b
      <4>3. row.owner = a
        BY <4>2
      <4>4. QED
        BY <4>3 DEF a
    <3>5. QED
      BY <3>2, <3>3, <3>4 DEF CutRow
  <2>7. PartOf(part, file, n)
    <3>1. file.rows = rows
      OBVIOUS
    <3> HIDE DEF rows
    <3>2. part.rows[n] = row /\ \A r \in 1..n : r = n \/ r \in 1..n - 1
      BY <1>1, <2>3, <2>5
    <3>3. \A r \in 1..n - 1 : part.rows[r] = rows[r]
      BY <2>3, <2>5
    <3>4. DOMAIN part.rows = 1..n
      BY <2>3, <2>5
    <3>5. \A r \in 1..n : part.rows[r].owner = file.rows[r].owner
      BY <2>6, <3>1, <3>2, <3>3
    <3>6. part.header = file.header
      BY <2>3
    <3>7. part.rows[n] \in CutRow(file.rows[n])
      BY <3>1, <3>2
    <3>8. \A r \in 1..n : part.rows[r] = file.rows[r] \/ r = n
      BY <3>1, <3>2, <3>3
    <3>9. QED
      BY <3>4, <3>5, <3>6, <3>7, <3>8 DEF PartOf
  <2>8. QED
    BY <1>1, <2>7
<1>5. QED
  BY <1>2, <1>3, <1>4 DEF LeftOnDisk

LEMMA FileType ==
  ASSUME NEW data, IsFiniteSet(DOMAIN data), NEW order \in OrdersOf(data)
  PROVE  LET file == FileOf(data, order)
         IN  Len(file.rows) = Cardinality(DOMAIN data) /\ \E R : IsFile(file, R)
<1> DEFINE file == FileOf(data, order)
           N == Cardinality(DOMAIN data)
           R == {file.rows[r] : r \in 1..N}
<1>1. N \in Nat /\ DOMAIN order = 1..N
  BY OrderType
<1>2. /\ file = [header |-> file.header, rows |-> file.rows]
      /\ \A r \in DOMAIN file.rows :
            file.rows[r] = [owner |-> file.rows[r].owner, cells |-> file.rows[r].cells]
  BY DEF FileOf, ContainerDataCheckpoint, workloadTimeSeriesDataCheckpoint, Written
<1>3. file.rows = [r \in 1..N |-> file.rows[r]]
  BY <1>1 DEF FileOf, ContainerDataCheckpoint, workloadTimeSeriesDataCheckpoint, Written
<1> HIDE DEF file
<1>4. file.rows \in Seq(R) /\ Len(file.rows) = N
  BY <1>1, <1>3
<1>5. QED
  BY <1>2, <1>4 DEF file, IsFile

LEMMA OwnersInPart ==
  ASSUME NEW data, IsFiniteSet(DOMAIN data), NEW order \in OrdersOf(data),
         NEW part \in LeftOnDisk(FileOf(data, order))
  PROVE  OwnersIn(part) \subseteq DOMAIN data
<1> DEFINE file == FileOf(data, order)
           N == Cardinality(DOMAIN data)
<1>1. N \in Nat /\ DOMAIN file.rows = 1..N /\ OwnersIn(file) = DOMAIN data
  <2> HIDE DEF file
  <2>1. N \in Nat /\ DOMAIN order = 1..N
    BY OrderType
  <2>2. DOMAIN file.rows = DOMAIN order /\ OwnersIn(file) = DOMAIN data
    BY OwnersInFile DEF file
  <2>3. QED
    BY <2>1, <2>2
<1>2. PICK n \in 0..N : PartOf(part, file, n)
  BY FileType, PartsOfFile
<1> HIDE DEF file
<1>3. QED
  BY <1>1, <1>2 DEF OwnersIn, PartOf

----------------------------------------------------------------------------
(* What is loaded of a file has the metrics of the table, for the owners   *)
(* that have a row.                                                        *)
LEMMA LoadedType ==
  ASSUME NEW file
  PROVE  /\ DOMAIN Loaded(file) = OwnersIn(file)
         /\ \A o \in DOMAIN Loaded(file) : DOMAIN Loaded(file)[o] = ToSet(Metrics)
<1>1. CASE Table = "container"
  <2>1. Loaded(file) = Load(ContainerMetrics, ToSet(ContainerMetrics), file) /\ Metrics = ContainerMetrics
    BY <1>1 DEF Loaded, LoadContainerTimeSeriesDataFromCheckpoint, Metrics
  <2>2. QED
    BY <2>1 DEF Load, LoadRow, OwnersIn
<1>2. CASE Table # "container"
  <2>1. /\ Loaded(file) = Load(WorkloadMetrics, ToSet(WorkloadMetrics) \ {"MemRequest"}, file)
        /\ Metrics = WorkloadMetrics
    BY <1>2 DEF Loaded, LoadWorkloadTimeSeriesDataFromCheckpoint, Metrics
  <2>2. QED
    BY <2>1 DEF Load, LoadRow, OwnersIn
<1>3. QED
  BY <1>1, <1>2

(* A readable file is that of the run that wrote it. *)
LEMMA FileOnDisk ==
  ASSUME DiskInv, NEW file \in disk
  PROVE  /\ writer.owners \subseteq Owners
         /\ DOMAIN writer.data \cup writer.refused = writer.owners
         /\ DOMAIN writer.data \cap writer.refused = {}
         /\ IsFiniteSet(DOMAIN writer.data)
         /\ OwnersIn(file) \subseteq DOMAIN writer.data
         /\ writer.torn \/ OwnersIn(file) = DOMAIN writer.data
<1>1. /\ writer.owners \subseteq Owners
      /\ DOMAIN writer.data \cup writer.refused = writer.owners
      /\ DOMAIN writer.data \cap writer.refused = {}
  BY DEF DiskInv
<1>2. IsFiniteSet(DOMAIN writer.data)
  BY <1>1, FS_Subset, ComparatorInitAssumption
<1>3. PICK order \in OrdersOf(writer.data) :
        IF writer.torn THEN \E part \in LeftOnDisk(FileOf(writer.data, order)) : disk = {part}
                       ELSE disk = {FileOf(writer.data, order)}
  BY DEF DiskInv
<1>4. CASE writer.torn
  <2>1. file \in LeftOnDisk(FileOf(writer.data, order))
    BY <1>3, <1>4
  <2>2. QED
    BY <1>1, <1>2, <1>4, <2>1, OwnersInPart
<1>5. CASE ~writer.torn
  <2>1. file = FileOf(writer.data, order)
    BY <1>3, <1>5
  <2>2. QED
    BY <1>1, <1>2, <1>5, <2>1, OwnersInFile
<1>6. QED
  BY <1>4, <1>5

(* The invariant holds at the start, and after each step. *)
LEMMA InitIInv == Init => IInv
<1> SUFFICES ASSUME Init PROVE IInv
  OBVIOUS
<1>1. DOMAIN NoData = {}
  BY DEF NoData
<1>2. Cardinality(disk) <= 1
  BY FS_EmptySet DEF Init
<1>3. TypeOK
  <2>1. cache = NoData /\ DOMAIN cache = {}
    BY <1>1 DEF Init
  <2>2. runs \in 0..MaxRuns
    BY ComparatorInitAssumption DEF Init
  <2>3. QED
    BY <1>2, <2>1, <2>2 DEF Init, TypeOK
<1>4. FetchInv /\ DiskInv /\ LoadInv
  BY DEF Init, FetchInv, DiskInv, LoadInv
<1>5. QED
  BY <1>3, <1>4 DEF IInv

LEMMA DiskUnchanged ==
  ASSUME DiskInv, UNCHANGED <<disk, writer>>
  PROVE  DiskInv'
BY DEF DiskInv

LEMMA StartIInv ==
  ASSUME IInv, NEW flag \in BOOLEAN, NEW owners \in SUBSET Owners, Start(flag, owners)
  PROVE  IInv'
<1> USE DEF IInv, Start
<1>1. DOMAIN NoData = {}
  BY DEF NoData
<1>2. TypeOK'
  <2>1. cache' = NoData /\ DOMAIN cache' = {}
    BY <1>1
  <2>2. runs' \in 0..MaxRuns
    BY ComparatorInitAssumption DEF TypeOK
  <2>3. toFetch' \subseteq Owners /\ refused' \subseteq Owners /\ Cardinality(disk') <= 1
    BY DEF TypeOK
  <2>4. QED
    BY <2>1, <2>2, <2>3 DEF TypeOK
<1>3. FetchInv' /\ LoadInv'
  BY DEF FetchInv, LoadInv
<1>4. DiskInv'
  BY DiskUnchanged
<1>5. QED
  BY <1>2, <1>3, <1>4

LEMMA LoadCheckpointIInv ==
  ASSUME IInv, LoadCheckpoint
  PROVE  IInv'
<1> USE DEF IInv
<1>1. DiskInv' /\ disk' = disk /\ writer' = writer
  BY DiskUnchanged DEF LoadCheckpoint
<1>2. CASE \E file \in disk : IsReadable(file)
  <2>1. PICK file \in disk : IsReadable(file)
    BY <1>2
  <2>2. disk = {file}
    BY DEF DiskInv
  <2>3. /\ pc' = "loaded" /\ cache' = Loaded(file) /\ refused' = writer.refused
        /\ toFetch' = toFetch /\ toFetch = {}
        /\ checkpointing' = checkpointing /\ workloadsSpecCache' = workloadsSpecCache /\ runs' = runs
    BY <1>2, <2>1, <2>2 DEF LoadCheckpoint, FetchInv
  <2>4. /\ OwnersIn(file) \subseteq DOMAIN writer.data
        /\ writer.owners \subseteq Owners
        /\ DOMAIN writer.data \cup writer.refused = writer.owners
        /\ DOMAIN writer.data \cap writer.refused = {}
    BY FileOnDisk
  <2>5. TypeOK'
    BY <1>1, <2>3, <2>4, LoadedType DEF TypeOK
  <2>6. FetchInv'
    BY <2>3 DEF FetchInv
  <2>7. LoadInv'
    <3>1. file \in disk' /\ IsReadable(file)' /\ cache' = Loaded(file)'
      BY <1>1, <2>1, <2>3 DEF IsReadable, Loaded
    <3>2. QED
      BY <1>1, <2>1, <2>3 DEF LoadInv
  <2>8. QED
    BY <1>1, <2>5, <2>6, <2>7
<1>3. CASE ~\E file \in disk : IsReadable(file)
  <2>1. /\ pc' = "fetch" /\ toFetch' = workloadsSpecCache /\ cache' = cache /\ refused' = refused
        /\ checkpointing' = checkpointing /\ runs' = runs
        /\ workloadsSpecCache' = workloadsSpecCache
        /\ cache = NoData /\ refused = {}
    BY <1>3 DEF LoadCheckpoint, FetchInv
  <2>2. DOMAIN NoData = {}
    BY DEF NoData
  <2>3. TypeOK'
    BY <1>1, <2>1, <2>2 DEF TypeOK
  <2>4. \A file \in disk' : ~IsReadable(file)'
    BY <1>1, <1>3 DEF IsReadable
  <2>5. FetchInv' /\ LoadInv'
    BY <2>1, <2>2, <2>4 DEF FetchInv, LoadInv
  <2>6. QED
    BY <1>1, <2>3, <2>5
<1>4. QED
  BY <1>2, <1>3

LEMMA FetchDataIInv ==
  ASSUME IInv, NEW o \in Owners, NEW ok \in BOOLEAN, NEW d \in Answers[o], fetchData(o, d, ok)
  PROVE  IInv'
<1> USE DEF IInv
<1>1. DiskInv'
  BY DiskUnchanged DEF fetchData
<1>2. d \in [ToSet(Metrics) -> Seq(Seq(Samples))] /\ DOMAIN d = ToSet(Metrics)
  BY ComparatorInitAssumption
<1>3. CASE ok
  <2> DEFINE new == [p \in DOMAIN cache \cup {o} |-> IF p = o THEN d ELSE cache[p]]
  <2>1. cache' = new /\ refused' = refused
    BY <1>3 DEF fetchData
  <2>2. DOMAIN new = DOMAIN cache \cup {o} /\ new[o] = d /\ \A p \in DOMAIN cache \ {o} : new[p] = cache[p]
    OBVIOUS
  <2> HIDE DEF new
  <2>3. TypeOK'
    BY <1>2, <2>1, <2>2 DEF TypeOK, fetchData
  <2>4. FetchInv' /\ LoadInv'
    BY <2>1, <2>2 DEF FetchInv, LoadInv, fetchData, IsReadable
  <2>5. QED
    BY <1>1, <2>3, <2>4
<1>4. CASE ~ok
  <2>1. TypeOK'
    BY <1>4 DEF TypeOK, fetchData
  <2>2. FetchInv' /\ LoadInv'
    BY <1>4 DEF FetchInv, LoadInv, fetchData, IsReadable
  <2>3. QED
    BY <1>1, <2>1, <2>2
<1>5. QED
  BY <1>3, <1>4

(* What has been queried, all of it, is what is written. *)
LEMMA WrittenFrom ==
  ASSUME IInv, pc = "fetch", toFetch = {}, NEW torn \in BOOLEAN,
         writer' = [owners |-> workloadsSpecCache, data |-> cache, refused |-> refused, torn |-> torn],
         NEW order \in Orders,
         IF torn THEN \E part \in LeftOnDisk(FileFor(order)) : disk' = {part}
                 ELSE disk' = {FileFor(order)}
  PROVE  DiskInv' /\ Cardinality(disk') <= 1
<1>1. /\ workloadsSpecCache \subseteq Owners
      /\ DOMAIN cache \cup refused = workloadsSpecCache /\ DOMAIN cache \cap refused = {}
      /\ \A o \in DOMAIN cache : cache[o] \in Answers[o]
  BY DEF IInv, FetchInv, TypeOK
<1>2. order \in OrdersOf(cache) /\ FileFor(order) = FileOf(cache, order)
  BY DEF Orders, FileFor
<1>3. /\ DOMAIN writer'.data = DOMAIN cache /\ writer'.refused = refused /\ writer'.torn = torn
      /\ writer'.data = cache /\ writer'.owners = workloadsSpecCache
  OBVIOUS
<1>4. IF torn THEN \E part \in LeftOnDisk(FileOf(cache, order)) : disk' = {part}
      ELSE disk' = {FileOf(cache, order)}
  BY <1>2
<1>5. DiskInv'
  BY <1>1, <1>2, <1>3, <1>4 DEF DiskInv
<1>6. \E file : disk' = {file}
  BY <1>4
<1>7. QED
  BY <1>5, <1>6, FS_Singleton

LEMMA CheckpointIInv ==
  ASSUME IInv, NEW order \in Orders, Checkpoint(order)
  PROVE  IInv'
<1>1. DiskInv' /\ Cardinality(disk') <= 1
  BY WrittenFrom DEF Checkpoint
<1>2. TypeOK'
  BY <1>1 DEF Checkpoint, IInv, TypeOK
<1>3. FetchInv' /\ LoadInv'
  BY DEF Checkpoint, IInv, FetchInv, LoadInv
<1>4. QED
  BY <1>1, <1>2, <1>3 DEF IInv

LEMMA WriteInterruptedIInv ==
  ASSUME IInv, NEW order \in Orders, NEW dies \in BOOLEAN, WriteInterrupted(order, dies)
  PROVE  IInv'
<1>1. DiskInv' /\ Cardinality(disk') <= 1
  BY WrittenFrom DEF WriteInterrupted
<1>2. TypeOK'
  BY <1>1 DEF WriteInterrupted, IInv, TypeOK
<1>3. FetchInv' /\ LoadInv'
  BY DEF WriteInterrupted, IInv, FetchInv, LoadInv
<1>4. QED
  BY <1>1, <1>2, <1>3 DEF IInv

LEMMA EndsIInv ==
  ASSUME IInv, SkipCheckpoint \/ CreateFails \/ Dies \/ UNCHANGED vars
  PROVE  IInv'
<1> USE DEF IInv
<1>1. CASE SkipCheckpoint
  <2>1. DiskInv'
    BY <1>1, DiskUnchanged DEF SkipCheckpoint
  <2>2. TypeOK' /\ FetchInv' /\ LoadInv'
    BY <1>1, ComparatorInitAssumption DEF SkipCheckpoint, WithoutCheckpoint, TypeOK, FetchInv, LoadInv
  <2>3. QED
    BY <2>1, <2>2
<1>2. CASE CreateFails
  <2>1. DiskInv'
    BY <1>2, DiskUnchanged DEF CreateFails
  <2>2. TypeOK' /\ FetchInv' /\ LoadInv'
    BY <1>2 DEF CreateFails, TypeOK, FetchInv, LoadInv
  <2>3. QED
    BY <2>1, <2>2
<1>3. CASE Dies
  <2>1. DiskInv'
    BY <1>3, DiskUnchanged DEF Dies
  <2>2. TypeOK' /\ FetchInv' /\ LoadInv'
    BY <1>3 DEF Dies, TypeOK, FetchInv, LoadInv
  <2>3. QED
    BY <2>1, <2>2
<1>4. CASE UNCHANGED vars
  <2>1. DiskInv'
    BY <1>4, DiskUnchanged DEF vars
  <2>2. TypeOK' /\ FetchInv'
    BY <1>4 DEF vars, TypeOK, FetchInv, IsReadable
  <2>3. LoadInv'
    BY <1>4 DEF vars, LoadInv, IsReadable, Loaded
  <2>4. QED
    BY <2>1, <2>2, <2>3
<1>5. QED
  BY <1>1, <1>2, <1>3, <1>4

(* Every owner of a run that queries is accounted for, and what is on disk *)
(* is of the last run that wrote it.                                       *)
THEOREM OwnersAccountedFor == Spec => []IInv
<1>1. IInv /\ [Next]_vars => IInv'
  <2> SUFFICES ASSUME IInv, [Next]_vars PROVE IInv'
    OBVIOUS
  <2>1. ASSUME NEW flag \in BOOLEAN, NEW owners \in SUBSET Owners, Start(flag, owners)
        PROVE  IInv'
    BY <2>1, StartIInv
  <2>2. CASE LoadCheckpoint
    BY <2>2, LoadCheckpointIInv
  <2>3. ASSUME NEW o \in Owners, NEW ok \in BOOLEAN, NEW d \in Answers[o], fetchData(o, d, ok)
        PROVE  IInv'
    BY <2>3, FetchDataIInv
  <2>4. ASSUME NEW order \in Orders, Checkpoint(order) PROVE IInv'
    BY <2>4, CheckpointIInv
  <2>5. ASSUME NEW order \in Orders, NEW dies \in BOOLEAN, WriteInterrupted(order, dies)
        PROVE  IInv'
    BY <2>5, WriteInterruptedIInv
  <2>6. CASE SkipCheckpoint \/ CreateFails \/ Dies \/ UNCHANGED vars
    BY <2>6, EndsIInv
  <2>7. QED
    BY <2>1, <2>2, <2>3, <2>4, <2>5, <2>6 DEF Next
<1>2. QED
  BY InitIInv, <1>1, PTL DEF Spec

(* The variables keep their types, and no owner is in two places at once:  *)
(* in memory, refused, and yet to be queried.                              *)
THEOREM InitTypes == Spec => []TypeOK
<1>1. IInv => TypeOK
  BY DEF IInv
<1>2. QED
  BY <1>1, OwnersAccountedFor, PTL

(* Whatever the cluster has in each run: an owner that the analysis has no *)
(* data for is one whose queries failed, in this run or in the one that    *)
(* wrote the checkpoint it has loaded, or one that this one did not know,  *)
(* unless it was interrupted while it wrote.                               *)
THEOREM MissingOwnersExplained == Spec => []MissingForAReason
<1>1. IInv => MissingForAReason
  <2> SUFFICES ASSUME IInv PROVE MissingForAReason
    OBVIOUS
  <2>1. CASE pc = "fetched"
    BY <2>1 DEF IInv, FetchInv, MissingForAReason
  <2>2. CASE pc = "loaded"
    <3>1. PICK file \in disk : cache = Loaded(file) /\ refused = writer.refused
      BY <2>2 DEF IInv, LoadInv
    <3>2. DOMAIN cache = OwnersIn(file)
      BY <3>1, LoadedType
    <3>3. /\ OwnersIn(file) \subseteq DOMAIN writer.data
          /\ writer.torn \/ OwnersIn(file) = DOMAIN writer.data
          /\ DOMAIN writer.data \cup writer.refused = writer.owners
      BY FileOnDisk DEF IInv
    <3>4. QED
      BY <2>2, <3>1, <3>2, <3>3 DEF MissingForAReason
  <2>3. QED
    BY <2>1, <2>2 DEF MissingForAReason
<1>2. QED
  BY <1>1, OwnersAccountedFor, PTL

(* A checkpoint that can be read outlives every run: a run writes only     *)
(* where it could read nothing, and nothing can be read until it has.      *)
THEOREM ReadableCheckpointsStay == Spec => WholeCheckpointsStay
<1>1. IInv /\ [Next]_vars => [(\E file \in disk : IsReadable(file)) => UNCHANGED disk]_vars
  <2> SUFFICES ASSUME IInv, Next, NEW file \in disk, IsReadable(file) PROVE disk' = disk
    BY DEF vars
  <2>1. pc # "fetch"
    BY DEF IInv, FetchInv
  <2>2. ASSUME NEW flag \in BOOLEAN, NEW owners \in SUBSET Owners, Start(flag, owners)
        PROVE  disk' = disk
    BY <2>2 DEF Start
  <2>3. ~\E o \in Owners, ok \in BOOLEAN : \E d \in Answers[o] : fetchData(o, d, ok)
    BY <2>1 DEF fetchData
  <2>4. ~\E order \in Orders : Checkpoint(order)
    BY <2>1 DEF Checkpoint
  <2>5. ~\E order \in Orders, dies \in BOOLEAN : WriteInterrupted(order, dies)
    BY <2>1 DEF WriteInterrupted
  <2>6. CASE LoadCheckpoint \/ SkipCheckpoint \/ CreateFails \/ Dies
    BY <2>6 DEF LoadCheckpoint, SkipCheckpoint, CreateFails, Dies
  <2>7. QED
    BY <2>2, <2>3, <2>4, <2>5, <2>6 DEF Next
<1>2. QED
  BY <1>1, OwnersAccountedFor, PTL DEF Spec, WholeCheckpointsStay

----------------------------------------------------------------------------
(* What the loops that append compute.                                     *)

(* Induction up to a bound, over a set, since the provers cannot           *)
(* instantiate the library's theorems, which are about operators.          *)
LessThan == {ss \in Nat \X Nat : ss[1] < ss[2]}
LEMMA InductionUpTo ==
  ASSUME NEW N \in Nat, NEW T, 0 \in T, \A n \in 1..N : n - 1 \in T => n \in T
  PROVE  \A n \in 0..N : n \in T
<1> SUFFICES ASSUME (0..N) \ T # {} PROVE FALSE
  OBVIOUS
<1>1. IsWellFoundedOn(LessThan, Nat)
  BY NatLessThanWellFounded DEF OpToRel, LessThan
<1>2. (0..N) \ T \in SUBSET Nat
  OBVIOUS
<1>3. PICK n \in (0..N) \ T : \A m \in (0..N) \ T : ~(<<m, n>> \in LessThan)
  BY <1>1, <1>2, WFMin
<1>4. n \in 1..N /\ n - 1 \in (0..N) \ T
  BY <1>3
<1>5. <<n - 1, n>> \in LessThan
  BY <1>4 DEF LessThan
<1>6. QED
  BY <1>3, <1>4, <1>5

(* Max is the greatest member. *)
LEMMA MaxIsGreatest ==
  ASSUME NEW N \in Nat, NEW S \in SUBSET (0..N), S # {}
  PROVE  Max(S) \in S /\ \A y \in S : y <= Max(S)
<1> DEFINE T == {n \in 0..N : \A R \in SUBSET (0..n) : R # {} => \E x \in R : \A y \in R : x >= y}
<1>1. 0 \in T
  <2> SUFFICES ASSUME NEW R \in SUBSET (0..0), R # {}
               PROVE  \E x \in R : \A y \in R : x >= y
    OBVIOUS
  <2>1. PICK x \in R : TRUE
    OBVIOUS
  <2>2. \A y \in R : y = 0 /\ y >= 0
    OBVIOUS
  <2>3. QED
    BY <2>1, <2>2
<1>2. ASSUME NEW n \in 1..N, n - 1 \in T
      PROVE  n \in T
  <2> SUFFICES ASSUME NEW R \in SUBSET (0..n), R # {}
               PROVE  \E x \in R : \A y \in R : x >= y
    OBVIOUS
  <2>1. CASE n \in R
    BY <2>1
  <2>2. CASE n \notin R
    <3>1. R \in SUBSET (0..n - 1)
      BY <2>2
    <3>2. QED
      BY <1>2, <3>1
  <2>3. QED
    BY <2>1, <2>2
<1> HIDE DEF T
<1>3. N \in T
  <2>1. \A n \in 1..N : n - 1 \in T => n \in T
    BY <1>2
  <2>2. \A n \in 0..N : n \in T
    BY <1>1, <2>1, InductionUpTo
  <2>3. QED
    BY <2>2
<1>4. \E x \in S : \A y \in S : x >= y
  BY <1>3 DEF T
<1>5. Max(S) \in S /\ \A y \in S : Max(S) >= y
  BY <1>4 DEF Max
<1>6. QED
  BY <1>5

(* Finitely many lengths have a bound. *)
LEMMA Bounded ==
  ASSUME NEW N \in Nat, NEW f \in [1..N -> Nat]
  PROVE  \E B \in Nat : \A r \in 1..N : f[r] <= B
<1> DEFINE T == {n \in 0..N : \E B \in Nat : \A r \in 1..n : f[r] <= B}
<1>1. 0 \in T
  OBVIOUS
<1>2. ASSUME NEW n \in 1..N, n - 1 \in T
      PROVE  n \in T
  <2>1. PICK B \in Nat : \A r \in 1..n - 1 : f[r] <= B
    BY <1>2
  <2>2. B + f[n] \in Nat /\ \A r \in 1..n : f[r] <= B + f[n]
    BY <2>1
  <2>3. QED
    BY <2>2
<1> HIDE DEF T
<1>3. N \in T
  <2>1. \A n \in 1..N : n - 1 \in T => n \in T
    BY <1>2
  <2>2. \A n \in 0..N : n \in T
    BY <1>1, <2>1, InductionUpTo
  <2>3. QED
    BY <2>2
<1>4. QED
  BY <1>3 DEF T

(* A function defined by what each of its values makes of the one before. *)
IsStep(step, N, S) == step \in [(1..N) \X S -> S]
Unfolds(f, N, S, a, step) ==
  f \in [0..N -> S] /\ f[0] = a /\ \A k \in 1..N : f[k] = step[<<k, f[k - 1]>>]
LEMMA StepByStep ==
  ASSUME NEW N \in Nat, NEW S, NEW a \in S, NEW step, IsStep(step, N, S)
  PROVE  \E f : Unfolds(f, N, S, a, step)
<1>0. step \in [(1..N) \X S -> S]
  BY DEF IsStep
<1> DEFINE T == {n \in 0..N : \E f \in [0..n -> S] :
                    f[0] = a /\ \A k \in 1..n : f[k] = step[<<k, f[k - 1]>>]}
<1>1. 0 \in T
  <2> DEFINE f == [k \in 0..0 |-> a]
  <2>1. f \in [0..0 -> S] /\ f[0] = a
    OBVIOUS
  <2> HIDE DEF f
  <2>2. QED
    BY <2>1
<1>2. ASSUME NEW n \in 1..N, n - 1 \in T
      PROVE  n \in T
  <2>1. PICK f \in [0..n - 1 -> S] :
           f[0] = a /\ \A k \in 1..n - 1 : f[k] = step[<<k, f[k - 1]>>]
    BY <1>2
  <2> DEFINE next == step[<<n, f[n - 1]>>]
             g == [k \in 0..n |-> IF k = n THEN next ELSE f[k]]
  <2>2. next \in S
    <3>1. n - 1 \in 0..n - 1
      OBVIOUS
    <3>2. f[n - 1] \in S
      BY <3>1
    <3>3. QED
      BY <1>0, <3>2
  <2>3. /\ g[n] = next /\ \A k \in 0..n - 1 : g[k] = f[k]
        /\ g \in [0..n -> S]
    <3> HIDE DEF next
    <3>1. \A k \in 0..n : k = n \/ k \in 0..n - 1
      OBVIOUS
    <3>2. QED
      BY <2>2, <3>1
  <2> HIDE DEF g
  <2>4. ASSUME NEW k \in 1..n PROVE g[k] = step[<<k, g[k - 1]>>]
    <3>1. CASE k = n
      BY <2>3, <3>1
    <3>2. CASE k # n
      <4>1. k \in 1..n - 1 /\ k \in 0..n - 1 /\ k - 1 \in 0..n - 1
        BY <3>2
      <4>2. QED
        BY <2>1, <2>3, <4>1
    <3>3. QED
      BY <3>1, <3>2
  <2>5. g[0] = a
    BY <2>1, <2>3
  <2>6. QED
    BY <2>3, <2>4, <2>5
<1> HIDE DEF T
<1>3. N \in T
  <2>1. \A n \in 1..N : n - 1 \in T => n \in T
    BY <1>2
  <2>2. \A n \in 0..N : n \in T
    BY <1>1, <2>1, InductionUpTo
  <2>3. QED
    BY <2>2
<1>4. QED
  BY <1>3 DEF T, Unfolds

(* The members of S up to n, when they are the w numbers that follow a. *)
IsBlock(S, n, a, w) == a + w <= n /\ \A j \in 1..n : j \in S <=> a < j /\ j <= a + w
LEMMA InOrderOfBlock ==
  ASSUME NEW n \in Nat, NEW a \in Nat, NEW w \in Nat, NEW S, IsBlock(S, n, a, w)
  PROVE  InOrder(S, n) = [i \in 1..w |-> a + i]
<1> DEFINE count(j) == IF j <= a THEN 0 ELSE IF j <= a + w THEN j - a ELSE w
           From(f, j) == IF j = 0 THEN <<>> ELSE IF j \in S THEN Append(f[j - 1], j) ELSE f[j - 1]
           g == [j \in 0..n |-> [i \in 1..count(j) |-> a + i]]
           f == CHOOSE h : h = [j \in 0..n |-> From(h, j)]
<1>0. a + w <= n /\ \A j \in 1..n : j \in S <=> a < j /\ j <= a + w
  BY DEF IsBlock
<1>1. \A j \in 0..n : count(j) \in 0..w
  OBVIOUS
<1>2. \A j \in 0..n : g[j] = [i \in 1..count(j) |-> a + i]
  OBVIOUS
<1>3. ASSUME NEW j \in 1..n PROVE g[j] = IF j \in S THEN Append(g[j - 1], j) ELSE g[j - 1]
  <2>1. j - 1 \in 0..n /\ j \in 0..n
    OBVIOUS
  <2>2. CASE j \in S
    <3>1. count(j) = count(j - 1) + 1 /\ j = a + count(j)
      BY <1>0, <2>2
    <3> DEFINE c == count(j - 1)
               s == [i \in 1..c |-> a + i]
               t == [i \in 1..c + 1 |-> a + i]
    <3>2. c \in Nat /\ j = a + c + 1
      BY <1>1, <2>1, <3>1
    <3>3. g[j - 1] = s /\ g[j] = t
      BY <1>2, <2>1, <3>1
    <3> HIDE DEF count, c, g
    <3>4. s \in Seq(Nat) /\ Len(s) = c /\ t \in Seq(Nat) /\ Len(t) = c + 1
      BY <3>2
    <3>5. Append(s, j) \in Seq(Nat) /\ Len(Append(s, j)) = c + 1
      BY <3>2, <3>4
    <3>6. ASSUME NEW i \in 1..c + 1 PROVE Append(s, j)[i] = t[i]
      <4>1. CASE i = c + 1
        BY <3>2, <3>4, <4>1
      <4>2. CASE i # c + 1
        <5>1. i \in 1..c
          BY <3>2, <4>2
        <5>2. Append(s, j)[i] = s[i]
          <6> HIDE DEF s, t
          <6>1. QED
            BY <3>2, <3>4, <5>1
        <5>3. s[i] = a + i /\ t[i] = a + i
          BY <5>1
        <5>4. QED
          BY <5>2, <5>3
      <4>3. QED
        BY <4>1, <4>2
    <3>7. Append(s, j) = t
      <4> HIDE DEF s, t
      <4>1. QED
        BY <3>2, <3>4, <3>5, <3>6
    <3>8. QED
      BY <2>2, <3>3, <3>7
  <2>3. CASE j \notin S
    <3>1. count(j) = count(j - 1)
      BY <1>0, <2>3
    <3>2. QED
      BY <1>2, <2>1, <2>3, <3>1
  <2>4. QED
    BY <2>2, <2>3
<1>4. g[0] = <<>>
  BY <1>2
<1>5. g = [j \in 0..n |-> From(g, j)]
  <2>1. \A j \in 0..n : g[j] = From(g, j)
    <3> HIDE DEF g
    <3>1. \A j \in 0..n : j = 0 \/ j \in 1..n
      OBVIOUS
    <3>2. QED
      BY <1>3, <1>4, <3>1
  <2>2. g = [j \in 0..n |-> g[j]]
    OBVIOUS
  <2> HIDE DEF g, From
  <2>3. QED
    BY <2>1, <2>2
<1>6. f = [j \in 0..n |-> From(f, j)]
  <2> HIDE DEF g, From
  <2>1. QED
    BY <1>5
<1>7. InOrder(S, n) = f[n]
  BY DEF InOrder
<1> HIDE DEF f, g
<1>8. f[0] = <<>> /\ \A j \in 1..n : f[j] = IF j \in S THEN Append(f[j - 1], j) ELSE f[j - 1]
  <2>1. \A j \in 0..n : f[j] = From(f, j)
    BY <1>6
  <2>2. QED
    BY <2>1
<1> DEFINE T == {j \in 0..n : f[j] = g[j]}
<1>9. 0 \in T
  BY <1>4, <1>8
<1>10. ASSUME NEW j \in 1..n, j - 1 \in T PROVE j \in T
  BY <1>3, <1>8, <1>10
<1> HIDE DEF T
<1>11. n \in T
  BY <1>9, <1>10, InductionUpTo
<1>12. f[n] = g[n]
  BY <1>11 DEF T
<1>13. count(n) = w /\ n \in 0..n
  BY <1>0
<1>14. g[n] = [i \in 1..count(n) |-> a + i]
  BY <1>2, <1>13
<1> HIDE DEF count
<1>15. QED
  BY <1>7, <1>12, <1>13, <1>14

LEMMA AppendedInPlace ==
  ASSUME NEW T, NEW s \in Seq(T), NEW t \in Seq(T)
  PROVE  /\ s \o t \in Seq(T) /\ Len(t) \in Nat /\ Len(s \o t) = Len(s) + Len(t)
         /\ \A i \in 1..Len(s) : (s \o t)[i] = s[i]
         /\ \A i \in 1..Len(t) : (s \o t)[Len(s) + i] = t[i]
OBVIOUS

(* Sequences one after the other: each starts where the one before ends.   *)
Parts(parts, T) == Len(parts) \in Nat /\ \A k \in 1..Len(parts) : parts[k] \in Seq(T)
Starts(off, parts) ==
  /\ off \in [0..Len(parts) -> Nat]
  /\ off[0] = 0
  /\ \A k \in 1..Len(parts) : off[k] = off[k - 1] + Len(parts[k])
LEMMA JoinedInPlace ==
  ASSUME NEW T, NEW parts, Parts(parts, T), NEW off, Starts(off, parts)
  PROVE  /\ Joined(parts) \in Seq(T)
         /\ Len(Joined(parts)) = off[Len(parts)]
         /\ \A k \in 1..Len(parts) : \A i \in 1..Len(parts[k]) :
               Joined(parts)[off[k - 1] + i] = parts[k][i]
<1> DEFINE K == Len(parts)
           ST == Seq(T)
           From(f, k) == IF k = 0 THEN <<>> ELSE f[k - 1] \o parts[k]
           f == CHOOSE h : h = [k \in 0..K |-> From(h, k)]
           step == [p \in (1..K) \X ST |-> p[2] \o parts[p[1]]]
<1>1. K \in Nat /\ \A k \in 1..K : parts[k] \in ST
  BY DEF Parts
<1>2. step \in [(1..K) \X ST -> ST] /\ <<>> \in ST
  BY <1>1
<1>3. \A k \in 1..K, s \in ST : step[<<k, s>>] = s \o parts[k]
  OBVIOUS
<1>4. Joined(parts) = f[K]
  BY DEF Joined
<1>5. off \in [0..K -> Nat] /\ off[0] = 0 /\ \A k \in 1..K : off[k] = off[k - 1] + Len(parts[k])
  BY DEF Starts
<1> HIDE DEF step, K, ST, f
<1>6. PICK g \in [0..K -> ST] : g[0] = <<>> /\ \A k \in 1..K : g[k] = step[<<k, g[k - 1]>>]
  <2> DEFINE start == <<>>
  <2>1. K \in Nat /\ start \in ST /\ IsStep(step, K, ST)
    BY <1>1, <1>2 DEF IsStep
  <2> HIDE DEF start
  <2>2. \E g : Unfolds(g, K, ST, start, step)
    BY <2>1, StepByStep
  <2>3. QED
    BY <2>2 DEF start, Unfolds
<1>7. \A k \in 1..K : g[k] = g[k - 1] \o parts[k]
  <2> SUFFICES ASSUME NEW k \in 1..K PROVE g[k] = g[k - 1] \o parts[k]
    OBVIOUS
  <2>1. k - 1 \in 0..K
    BY <1>1
  <2>2. g[k - 1] \in ST
    BY <2>1
  <2>3. g[k] = step[<<k, g[k - 1]>>]
    BY <1>6
  <2>4. QED
    BY <1>3, <2>2, <2>3
<1>8. \A k \in 0..K : k = 0 \/ k \in 1..K
  BY <1>1
<1>9. f = [k \in 0..K |-> From(f, k)]
  <2>1. \A k \in 0..K : g[k] = From(g, k)
    BY <1>6, <1>7, <1>8
  <2> HIDE DEF From
  <2>2. g = [k \in 0..K |-> From(g, k)]
    BY <2>1
  <2>3. QED
    BY <2>2 DEF f
<1>10. f[0] = <<>> /\ \A k \in 1..K : f[k] = f[k - 1] \o parts[k]
  <2>1. \A k \in 0..K : f[k] = From(f, k)
    <3> HIDE DEF From
    <3>1. QED
      BY <1>9
  <2>2. 0 \in 0..K /\ \A k \in 1..K : k \in 0..K /\ k # 0
    BY <1>1
  <2>3. QED
    BY <2>1, <2>2
<1> DEFINE Placed(k) == /\ f[k] \in ST /\ Len(f[k]) = off[k]
                        /\ \A l \in 1..k : off[l] <= off[k]
                        /\ \A l \in 1..k : \A i \in 1..Len(parts[l]) :
                              f[k][off[l - 1] + i] = parts[l][i]
           Q == {k \in 0..K : Placed(k)}
<1>11. 0 \in Q
  <2>1. Len(<<>>) = 0 /\ \A l \in 1..0 : FALSE
    OBVIOUS
  <2>2. QED
    BY <1>1, <1>2, <1>5, <1>10, <2>1
<1>12. ASSUME NEW k \in 1..K, k - 1 \in Q PROVE k \in Q
  <2> DEFINE s == f[k - 1]
             t == parts[k]
             a == off[k - 1]
  <2>1. Placed(k - 1)
    BY <1>12
  <2>2. s \in ST /\ Len(s) = a
    BY <2>1
  <2>3. t \in ST /\ off[k] = a + Len(t) /\ f[k] = s \o t
    BY <1>1, <1>5, <1>10
  <2>4. k \in 0..K /\ k - 1 \in 0..K /\ a \in Nat
    BY <1>1, <1>5
  <2>5. \A l \in 1..k - 1 : off[l] <= a
    BY <2>1
  <2>6. \A l \in 1..k - 1 : \A i \in 1..Len(parts[l]) : s[off[l - 1] + i] = parts[l][i]
    BY <2>1
  <2> HIDE DEF s, t, a, Placed
  <2>7. /\ s \o t \in ST /\ Len(s \o t) = a + Len(t) /\ Len(t) \in Nat
        /\ \A i \in 1..a : (s \o t)[i] = s[i]
        /\ \A i \in 1..Len(t) : (s \o t)[a + i] = t[i]
    <3> HIDE DEF f
    <3>1. /\ s \o t \in ST /\ Len(s \o t) = Len(s) + Len(t) /\ Len(t) \in Nat
          /\ \A i \in 1..Len(s) : (s \o t)[i] = s[i]
          /\ \A i \in 1..Len(t) : (s \o t)[Len(s) + i] = t[i]
      <4>1. s \in Seq(T) /\ t \in Seq(T)
        BY <2>2, <2>3 DEF ST
      <4>2. QED
        BY <4>1, AppendedInPlace DEF ST
    <3>2. QED
      BY <2>2, <3>1
  <2>8. \A l \in 1..k : l = k \/ l \in 1..k - 1
    BY <1>1
  <2>9. \A l \in 1..k : off[l] <= off[k]
    <3> SUFFICES ASSUME NEW l \in 1..k PROVE off[l] <= off[k]
      OBVIOUS
    <3>1. CASE l = k
      BY <2>3, <2>4, <2>7, <3>1
    <3>2. CASE l \in 1..k - 1
      <4>1. l \in 0..K
        BY <1>1
      <4>2. off[l] \in Nat /\ off[l] <= a
        BY <1>5, <2>5, <3>2, <4>1
      <4>3. QED
        BY <2>3, <2>4, <2>7, <4>2
    <3>3. QED
      BY <2>8, <3>1, <3>2
  <2>10. \A l \in 1..k : \A i \in 1..Len(parts[l]) : f[k][off[l - 1] + i] = parts[l][i]
    <3> SUFFICES ASSUME NEW l \in 1..k, NEW i \in 1..Len(parts[l])
                 PROVE  (s \o t)[off[l - 1] + i] = parts[l][i]
      BY <2>3
    <3>1. CASE l = k
      BY <2>7, <3>1 DEF a, t
    <3>2. CASE l \in 1..k - 1
      <4>1. l \in 1..K /\ l - 1 \in 0..K /\ l \in 0..K
        BY <1>1
      <4> DEFINE b == off[l - 1]
                 c == off[l]
                 n == Len(parts[l])
      <4>2. b \in Nat /\ c = b + n /\ c <= a
        BY <1>5, <2>5, <3>2, <4>1
      <4>3. n \in Nat
        BY <1>1, <4>1 DEF ST
      <4>4. i \in 1..n
        OBVIOUS
      <4>5. (s \o t)[b + i] = s[b + i]
        <5> HIDE DEF b, c, n
        <5>1. b + i \in 1..a
          BY <2>4, <4>2, <4>3, <4>4
        <5>2. QED
          BY <2>7, <5>1
      <4>6. QED
        BY <2>6, <3>2, <4>5
    <3>3. QED
      BY <2>8, <3>1, <3>2
  <2>11. Placed(k)
    BY <2>3, <2>7, <2>9, <2>10 DEF Placed
  <2>12. QED
    BY <2>4, <2>11
<1> HIDE DEF Q, Placed
<1>13. K \in Q
  <2>1. \A k \in 1..K : k - 1 \in Q => k \in Q
    BY <1>12
  <2>2. \A k \in 0..K : k \in Q
    BY <1>1, <1>11, <2>1, InductionUpTo
  <2>3. QED
    BY <1>1, <2>2
<1>14. Placed(K)
  BY <1>13 DEF Q
<1>15. QED
  BY <1>4, <1>14 DEF Placed, K, ST

----------------------------------------------------------------------------
(* The columns of a file, and what is read of a row.                       *)

(* The columns of the k-th metric are those behind off[k - 1], up to       *)
(* off[k], and there are no others.                                        *)
Laid(metrics, off, header) ==
  /\ Len(metrics) \in Nat /\ DOMAIN metrics = 1..Len(metrics)
  /\ \A k, l \in DOMAIN metrics : metrics[k] = metrics[l] => k = l
  /\ off \in [0..Len(metrics) -> Nat] /\ off[0] = 0
  /\ \A k, l \in 0..Len(metrics) : k <= l => off[k] <= off[l]
  /\ DOMAIN header = 1..off[Len(metrics)] /\ Len(header) = off[Len(metrics)]
  /\ \A k \in 1..Len(metrics) : \A j \in off[k - 1] + 1..off[k] : header[j].metric = metrics[k]
  /\ \A j \in DOMAIN header : \E k \in 1..Len(metrics) : j \in off[k - 1] + 1..off[k]

LEMMA ColumnOfMetric ==
  ASSUME NEW metrics, NEW off, NEW header, Laid(metrics, off, header)
  PROVE  /\ \A k \in 1..Len(metrics) :
              /\ off[k - 1] \in Nat /\ off[k] \in Nat /\ off[k - 1] <= off[k]
              /\ off[k] <= off[Len(metrics)] /\ off[Len(metrics)] \in Nat
         /\ \A k \in 1..Len(metrics), j \in DOMAIN header :
              header[j].metric = metrics[k] <=> off[k - 1] < j /\ j <= off[k]
<1> DEFINE K == Len(metrics)
<1>1. K \in Nat /\ DOMAIN metrics = 1..K /\ off \in [0..K -> Nat]
  BY DEF Laid
<1>2. \A k, l \in 0..K : k <= l => off[k] <= off[l]
  BY DEF Laid
<1>3. \A k \in 1..K : /\ off[k - 1] \in Nat /\ off[k] \in Nat /\ off[k - 1] <= off[k]
                      /\ off[k] <= off[K] /\ off[K] \in Nat
  <2> HIDE DEF K
  <2> SUFFICES ASSUME NEW k \in 1..K
               PROVE  /\ off[k - 1] \in Nat /\ off[k] \in Nat /\ off[k - 1] <= off[k]
                      /\ off[k] <= off[K] /\ off[K] \in Nat
    OBVIOUS
  <2>1. k \in 0..K /\ k - 1 \in 0..K /\ K \in 0..K /\ k - 1 <= k /\ k <= K
    BY <1>1
  <2>2. QED
    BY <1>1, <1>2, <2>1
<1>4. ASSUME NEW k \in 1..K, NEW j \in DOMAIN header
      PROVE  header[j].metric = metrics[k] <=> off[k - 1] < j /\ j <= off[k]
  <2>1. j \in 1..off[K] /\ off[K] \in Nat
    BY <1>3 DEF Laid
  <2>2. \A l \in 1..K : \A i \in off[l - 1] + 1..off[l] : header[i].metric = metrics[l]
    BY DEF Laid
  <2>3. \A l, n \in 1..K : metrics[l] = metrics[n] => l = n
    BY <1>1 DEF Laid
  <2>4. PICK l \in 1..K : j \in off[l - 1] + 1..off[l]
    BY DEF Laid
  <2> HIDE DEF K
  <2>5. ASSUME header[j].metric = metrics[k] PROVE off[k - 1] < j /\ j <= off[k]
    <3>1. metrics[l] = metrics[k]
      BY <2>2, <2>4, <2>5
    <3>2. l = k
      BY <2>3, <3>1
    <3>3. QED
      BY <1>3, <2>4, <3>2
  <2>6. ASSUME off[k - 1] < j, j <= off[k] PROVE header[j].metric = metrics[k]
    <3>1. j \in off[k - 1] + 1..off[k]
      BY <1>3, <2>1, <2>6
    <3>2. QED
      BY <2>2, <3>1
  <2>7. QED
    BY <2>5, <2>6
<1>5. QED
  BY <1>3, <1>4

(* The loader finds a metric if no column before it is of a metric that it *)
(* does not count.                                                         *)
Counted(advancing, metrics, off, k) ==
  \A j \in 1..k - 1 : metrics[j] \in advancing \/ off[j] = off[j - 1]
LEMMA OffsetOfMetric ==
  ASSUME NEW advancing, NEW metrics, NEW off, NEW header, Laid(metrics, off, header),
         NEW k \in 1..Len(metrics), Counted(advancing, metrics, off, k)
  PROVE  Offset(metrics, advancing, header, k) = off[k - 1]
<1> DEFINE K == Len(metrics)
           before == {metrics[j] : j \in 1..k - 1} \cap advancing
           B == {j \in DOMAIN header : header[j].metric \in before}
<1>1. /\ K \in Nat /\ DOMAIN metrics = 1..K /\ DOMAIN header = 1..off[K]
      /\ \A l, n \in 0..K : l <= n => off[l] <= off[n]
      /\ \A l, n \in 1..K : metrics[l] = metrics[n] => l = n
      /\ \A j \in DOMAIN header : \E l \in 1..K : j \in off[l - 1] + 1..off[l]
  BY DEF Laid
<1>2. /\ \A l \in 1..K : /\ off[l - 1] \in Nat /\ off[l] \in Nat /\ off[l - 1] <= off[l]
                         /\ off[l] <= off[K] /\ off[K] \in Nat
      /\ \A l \in 1..K, j \in DOMAIN header :
            header[j].metric = metrics[l] <=> off[l - 1] < j /\ j <= off[l]
  BY ColumnOfMetric
<1>3. \A x : x \in before <=> x \in advancing /\ \E l \in 1..k - 1 : x = metrics[l]
  OBVIOUS
<1> HIDE DEF K, before
<1>4. ASSUME NEW j \in DOMAIN header PROVE header[j].metric \in before <=> j <= off[k - 1]
  <2>1. j \in 1..off[K] /\ off[k - 1] \in Nat /\ k \in 1..K
    BY <1>1, <1>2 DEF K
  <2>2. PICK l \in 1..K : j \in off[l - 1] + 1..off[l]
    BY <1>1
  <2>3. off[l - 1] \in Nat /\ off[l] \in Nat /\ header[j].metric = metrics[l]
    BY <1>2, <2>1, <2>2
  <2>4. CASE l <= k - 1
    <3>1. l \in 0..K /\ k - 1 \in 0..K /\ l \in 1..k - 1
      BY <1>1, <2>1, <2>4
    <3>2. off[l] <= off[k - 1]
      BY <1>1, <2>4, <3>1
    <3>3. j <= off[k - 1]
      BY <2>1, <2>2, <2>3, <3>2
    <3>4. metrics[l] \in advancing
      <4>1. off[l] # off[l - 1]
        BY <2>2, <2>3
      <4>2. QED
        BY <3>1, <4>1 DEF Counted
    <3>5. QED
      BY <1>3, <2>3, <3>1, <3>3, <3>4
  <2>5. CASE ~(l <= k - 1)
    <3>1. l - 1 \in 0..K /\ k - 1 \in 0..K /\ k - 1 <= l - 1
      BY <1>1, <2>1, <2>5
    <3>2. off[k - 1] <= off[l - 1]
      BY <1>1, <3>1
    <3>3. ~(j <= off[k - 1])
      BY <2>1, <2>2, <2>3, <3>2
    <3>4. ASSUME NEW n \in 1..k - 1, metrics[l] = metrics[n] PROVE FALSE
      <4>1. n \in 1..K
        BY <1>1, <2>1
      <4>2. l = n
        BY <1>1, <3>4, <4>1
      <4>3. QED
        BY <2>5, <4>2
    <3>5. QED
      BY <1>3, <2>3, <3>3, <3>4
  <2>6. QED
    BY <2>4, <2>5
<1>5. off[k - 1] \in Nat /\ off[k - 1] <= off[K] /\ off[K] \in Nat
  BY <1>2 DEF K
<1>6. B = 1..off[k - 1]
  <2>1. \A j \in 1..off[k - 1] : j \in DOMAIN header
    BY <1>1, <1>5
  <2>2. \A j \in DOMAIN header : j \in 1..off[k - 1] <=> j <= off[k - 1]
    BY <1>1, <1>5
  <2>3. QED
    BY <1>4, <2>1, <2>2
<1>7. Cardinality(1..off[k - 1]) = off[k - 1]
  <2> DEFINE a == off[k - 1]
  <2>1. a \in Nat
    BY <1>5
  <2> HIDE DEF a
  <2>2. Cardinality(1..a) = a
    BY <2>1, FS_Interval
  <2>3. QED
    BY <2>2 DEF a
<1>8. QED
  BY <1>6, <1>7 DEF Offset, before

(* Of a metric whose first L cells hold a number, and no other, the loader *)
(* makes a series of L samples.                                            *)
Block(off, k, a, w) == a = off[k - 1] /\ w = off[k] - off[k - 1]
Holds(cells, a, w, L) == L \in 0..w /\ \A i \in 1..w : cells[a + i] # <<>> <=> i <= L
LEMMA BlockType ==
  ASSUME NEW metrics, NEW off, NEW header, Laid(metrics, off, header),
         NEW k \in 1..Len(metrics), NEW a, NEW w, Block(off, k, a, w)
  PROVE  /\ a \in Nat /\ w \in Nat /\ a + w <= Len(header) /\ Len(header) \in Nat
         /\ DOMAIN header = 1..Len(header)
         /\ \A j \in DOMAIN header : header[j].metric = metrics[k] <=> a < j /\ j <= a + w
<1>1. /\ off[k - 1] \in Nat /\ off[k] \in Nat /\ off[k - 1] <= off[k]
      /\ off[k] <= off[Len(metrics)] /\ off[Len(metrics)] \in Nat
      /\ \A j \in DOMAIN header : header[j].metric = metrics[k] <=> off[k - 1] < j /\ j <= off[k]
  BY ColumnOfMetric
<1>2. DOMAIN header = 1..off[Len(metrics)] /\ Len(header) = off[Len(metrics)]
  BY DEF Laid
<1>3. a = off[k - 1] /\ off[k] = a + w /\ w \in Nat
  BY <1>1 DEF Block
<1>4. QED
  BY <1>1, <1>2, <1>3

Read(advancing, metrics, header, cells, m) ==
  FirstSeries(LoadRow(metrics, advancing, header, cells)[m])
LEMMA ReadFromCells ==
  ASSUME NEW advancing, NEW metrics, NEW off, NEW header, Laid(metrics, off, header),
         NEW k \in 1..Len(metrics), Counted(advancing, metrics, off, k), NEW a, NEW w, Block(off, k, a, w),
         NEW cells, NEW L, Holds(cells, a, w, L)
  PROVE  LET got == Read(advancing, metrics, header, cells, metrics[k])
         IN  /\ ValuesOf(got) = [n \in 1..L |-> cells[a + n][1]]
             /\ TimesOf(got) = [n \in 1..L |-> header[a + n].at]
<1> DEFINE m == metrics[k]
           columns == ColumnsOf(header, m)
           filled == Filled(cells, a, w)
<1>1. /\ a \in Nat /\ w \in Nat /\ a + w <= Len(header) /\ Len(header) \in Nat
      /\ DOMAIN header = 1..Len(header)
  BY BlockType
<1>2. L \in 0..w /\ \A i \in 1..w : cells[a + i] # <<>> <=> i <= L
  BY DEF Holds
<1>3. \A j \in DOMAIN header : header[j].metric = m <=> a < j /\ j <= a + w
  BY BlockType
<1>4. Offset(metrics, advancing, header, k) = a
  BY OffsetOfMetric DEF Block
<1>5. (CHOOSE j \in DOMAIN metrics : metrics[j] = m) = k /\ m \in ToSet(metrics)
  <2>1. k \in DOMAIN metrics /\ \A j \in DOMAIN metrics : metrics[j] = m => j = k
    BY DEF Laid
  <2>2. QED
    BY <2>1 DEF ToSet
<1> HIDE DEF m
<1>6. columns = [i \in 1..w |-> header[a + i]]
  <2> DEFINE S == {j \in DOMAIN header : header[j].metric = m}
             n == Len(header)
             found == InOrder(S, n)
  <2>1. n \in Nat /\ IsBlock(S, n, a, w)
    BY <1>1, <1>3 DEF IsBlock
  <2>2. columns = [i \in DOMAIN found |-> header[found[i]]]
    BY DEF ColumnsOf
  <2> HIDE DEF S, n, columns
  <2>3. found = [i \in 1..w |-> a + i]
    BY <1>1, <2>1, InOrderOfBlock
  <2> HIDE DEF found
  <2>4. QED
    BY <2>2, <2>3
<1>7. Len(columns) = w
  <2> HIDE DEF columns
  <2>1. QED
    BY <1>1, <1>6
<1>8. filled = [n \in 1..L |-> [column |-> n, cell |-> a + n]]
  <2> DEFINE S == {i \in 1..w : cells[a + i] # <<>>}
             found == InOrder(S, w)
             same == [i \in 1..L |-> 0 + i]
  <2>0. \A j \in 1..w : j \in S <=> j <= L
    BY <1>2
  <2>1. w \in Nat /\ L \in Nat /\ IsBlock(S, w, 0, L)
    <3> HIDE DEF S
    <3>1. QED
      BY <1>1, <1>2, <2>0 DEF IsBlock
  <2>2. filled = [n \in DOMAIN found |-> [column |-> found[n], cell |-> a + found[n]]]
    BY DEF Filled
  <2> HIDE DEF S, filled
  <2>3. found = same
    BY <2>1, InOrderOfBlock
  <2>4. DOMAIN same = 1..L /\ \A n \in 1..L : same[n] = n
    OBVIOUS
  <2> HIDE DEF found, same
  <2>5. QED
    BY <2>2, <2>3, <2>4
<1> DEFINE row == LoadRow(metrics, advancing, header, cells)
           series == [n \in DOMAIN filled |-> [at |-> columns[filled[n].column].at,
                                               value |-> cells[filled[n].cell][1]]]
<1>9. row[m] = <<series>>
  <2>1. row[m] = LET j == CHOOSE j \in DOMAIN metrics : metrics[j] = m
                     c == ColumnsOf(header, m)
                     f == Filled(cells, Offset(metrics, advancing, header, j), Len(c))
                 IN  <<[n \in DOMAIN f |-> [at |-> c[f[n].column].at, value |-> cells[f[n].cell][1]]]>>
    BY <1>5 DEF LoadRow
  <2>2. QED
    BY <1>4, <1>5, <1>7, <2>1
<1>10. series = [n \in 1..L |-> [at |-> header[a + n].at, value |-> cells[a + n][1]]]
  <2> HIDE DEF filled, columns
  <2>1. DOMAIN filled = 1..L /\ \A n \in 1..L : filled[n].column = n /\ filled[n].cell = a + n
    BY <1>8
  <2>2. \A n \in 1..L : columns[n] = header[a + n]
    BY <1>1, <1>2, <1>6
  <2>3. QED
    BY <2>1, <2>2
<1> DEFINE samples == [n \in 1..L |-> [at |-> header[a + n].at, value |-> cells[a + n][1]]]
           got == Read(advancing, metrics, header, cells, m)
<1>11. got = FirstSeries(<<series>>)
  BY <1>9 DEF Read
<1> HIDE DEF got, row
<1>12. FirstSeries(<<series>>) = series
  <2> HIDE DEF series
  <2>1. QED
    BY DEF FirstSeries
<1>13. got = samples
  BY <1>10, <1>11, <1>12
<1>14. /\ ValuesOf(samples) = [n \in 1..L |-> cells[a + n][1]]
       /\ TimesOf(samples) = [n \in 1..L |-> header[a + n].at]
  BY DEF ValuesOf, TimesOf
<1>15. QED
  BY <1>13, <1>14 DEF got, m

(* Where each of K pieces of the given widths begins. *)
Offsets(off, K, w) ==
  /\ off \in [0..K -> Nat] /\ off[0] = 0
  /\ \A k \in 1..K : off[k] = off[k - 1] + w[k]
  /\ \A l \in 0..K : \A k \in 0..l : off[k] <= off[l]
  /\ \A j \in 1..off[K] : \E k \in 1..K : j \in off[k - 1] + 1..off[k]
LEMMA OffsetsExist ==
  ASSUME NEW K \in Nat, NEW w \in [1..K -> Nat]
  PROVE  \E off : Offsets(off, K, w)
<1> DEFINE step == [p \in (1..K) \X Nat |-> p[2] + w[p[1]]]
<1>1. IsStep(step, K, Nat)
  BY DEF IsStep
<1>2. \A k \in 1..K, n \in Nat : step[<<k, n>>] = n + w[k]
  OBVIOUS
<1> HIDE DEF step
<1>3. PICK off : Unfolds(off, K, Nat, 0, step)
  BY <1>1, StepByStep
<1>4. off \in [0..K -> Nat] /\ off[0] = 0
  BY <1>3 DEF Unfolds
<1>5. \A k \in 1..K : off[k - 1] \in Nat /\ off[k] = off[k - 1] + w[k] /\ off[k - 1] <= off[k]
  <2> SUFFICES ASSUME NEW k \in 1..K
               PROVE  off[k - 1] \in Nat /\ off[k] = off[k - 1] + w[k] /\ off[k - 1] <= off[k]
    OBVIOUS
  <2>1. k - 1 \in 0..K /\ off[k] = step[<<k, off[k - 1]>>]
    BY <1>3 DEF Unfolds
  <2>2. off[k - 1] \in Nat /\ w[k] \in Nat
    BY <1>4, <2>1
  <2>3. QED
    BY <1>2, <2>1, <2>2
<1> DEFINE Sorted(l) == \A k \in 0..l : off[k] <= off[l]
           Covered(l) == \A j \in 1..off[l] : \E k \in 1..l : j \in off[k - 1] + 1..off[k]
           T == {l \in 0..K : Sorted(l) /\ Covered(l)}
<1>6. 0 \in T
  BY <1>4
<1>7. ASSUME NEW l \in 1..K, l - 1 \in T PROVE l \in T
  <2>1. l \in 0..K /\ l - 1 \in 0..K /\ off[l] \in Nat /\ off[l - 1] \in Nat /\ off[l - 1] <= off[l]
    BY <1>4, <1>5
  <2>2. Sorted(l - 1) /\ Covered(l - 1)
    BY <1>7
  <2>3. Sorted(l)
    <3> SUFFICES ASSUME NEW k \in 0..l PROVE off[k] <= off[l]
      OBVIOUS
    <3>1. CASE k = l
      BY <2>1, <3>1
    <3>2. CASE k # l
      <4>1. k \in 0..l - 1 /\ k \in 0..K
        BY <2>1, <3>2
      <4>2. off[k] <= off[l - 1] /\ off[k] \in Nat
        BY <1>4, <2>2, <4>1
      <4>3. QED
        BY <2>1, <4>2
    <3>3. QED
      BY <3>1, <3>2
  <2>4. Covered(l)
    <3> SUFFICES ASSUME NEW j \in 1..off[l] PROVE \E k \in 1..l : j \in off[k - 1] + 1..off[k]
      OBVIOUS
    <3>1. CASE j <= off[l - 1]
      <4>1. PICK k \in 1..l - 1 : j \in off[k - 1] + 1..off[k]
        BY <2>1, <2>2, <3>1
      <4>2. k \in 1..l
        BY <2>1
      <4>3. QED
        BY <4>1, <4>2
    <3>2. CASE ~(j <= off[l - 1])
      <4>1. j \in off[l - 1] + 1..off[l] /\ l \in 1..l
        BY <2>1, <3>2
      <4>2. QED
        BY <4>1
    <3>3. QED
      BY <3>1, <3>2
  <2> HIDE DEF Sorted, Covered
  <2>5. QED
    BY <2>1, <2>3, <2>4
<1> HIDE DEF T, Sorted, Covered
<1>8. \A l \in 0..K : l \in T
  <2>1. \A l \in 1..K : l - 1 \in T => l \in T
    BY <1>7
  <2>2. QED
    BY <1>6, <2>1, InductionUpTo
<1>9. \A l \in 0..K : Sorted(l) /\ Covered(l)
  BY <1>8 DEF T
<1>10. Covered(K) /\ \A l \in 0..K : Sorted(l)
  BY <1>9
<1>11. QED
  BY <1>4, <1>5, <1>10 DEF Offsets, Sorted, Covered

----------------------------------------------------------------------------
(* The header and the rows that are written.                               *)

(* For each owner and metric a list of series. *)
IsData(metrics, data) ==
  IsFiniteSet(DOMAIN data) /\ \A o \in DOMAIN data : data[o] \in [ToSet(metrics) -> Seq(Seq(Samples))]
Series(data, o, m) == FirstSeries(data[o][m])
LEMMA SeriesType ==
  ASSUME NEW metrics, NEW data, IsData(metrics, data),
         NEW o \in DOMAIN data, NEW m \in ToSet(metrics)
  PROVE  /\ Series(data, o, m) \in Seq(Samples)
         /\ Len(Series(data, o, m)) \in Nat
         /\ DOMAIN Series(data, o, m) = 1..Len(Series(data, o, m))
<1>1. data[o][m] \in Seq(Seq(Samples))
  BY DEF IsData
<1> DEFINE list == data[o][m]
<1> HIDE DEF list
<1>2. list \in Seq(Seq(Samples)) => FirstSeries(list) \in Seq(Samples)
  BY DEF FirstSeries
<1>3. Series(data, o, m) \in Seq(Samples)
  BY <1>1, <1>2 DEF Series, list
<1>4. QED
  BY <1>3

(* No series is longer than the columns of its metric. *)
LEMMA WidthIsGreatest ==
  ASSUME NEW metrics, NEW data, IsData(metrics, data), NEW order \in OrdersOf(data),
         NEW m \in ToSet(metrics)
  PROVE  Width(data, m) \in Nat /\ \A o \in DOMAIN data : Len(Series(data, o, m)) <= Width(data, m)
<1> DEFINE N == Cardinality(DOMAIN data)
           lengths == [r \in 1..N |-> Len(Series(data, order[r], m))]
           S == {0} \cup {Len(Series(data, o, m)) : o \in DOMAIN data}
<1>1. N \in Nat /\ DOMAIN order = 1..N /\ {order[r] : r \in DOMAIN order} = DOMAIN data
  BY OrderType DEF IsData
<1>2. \A o \in DOMAIN data : Len(Series(data, o, m)) \in Nat
  BY SeriesType
<1>3. Width(data, m) = Max(S)
  BY DEF Width, Series
<1>4. lengths \in [1..N -> Nat]
  <2> HIDE DEF N
  <2>1. \A r \in 1..N : order[r] \in DOMAIN data
    BY <1>1
  <2>2. QED
    BY <1>2, <2>1
<1>5. \A r \in 1..N : lengths[r] = Len(Series(data, order[r], m))
  OBVIOUS
<1> HIDE DEF N, lengths
<1>6. PICK B \in Nat : \A r \in 1..N : lengths[r] <= B
  BY <1>1, <1>4, Bounded
<1>7. \A o \in DOMAIN data : Len(Series(data, o, m)) <= B
  <2> SUFFICES ASSUME NEW o \in DOMAIN data PROVE Len(Series(data, o, m)) <= B
    OBVIOUS
  <2>1. PICK r \in 1..N : order[r] = o
    BY <1>1
  <2>2. QED
    BY <1>5, <1>6, <2>1
<1>8. S \in SUBSET (0..B) /\ S # {} /\ \A o \in DOMAIN data : Len(Series(data, o, m)) \in S
  BY <1>2, <1>7
<1> HIDE DEF S
<1>9. Max(S) \in S /\ \A y \in S : y <= Max(S)
  BY <1>8, MaxIsGreatest
<1> DEFINE top == Max(S)
<1>10. top \in S /\ \A y \in S : y <= top
  BY <1>9
<1> HIDE DEF top
<1>11. top \in Nat
  BY <1>8, <1>10
<1>12. QED
  BY <1>3, <1>8, <1>10, <1>11 DEF top

(* The time on a column is that of a sample of that metric and place. *)
LEMMA StampedBySample ==
  ASSUME NEW metrics, NEW data, IsData(metrics, data), NEW order \in OrdersOf(data),
         NEW m \in ToSet(metrics), NEW o \in DOMAIN data, NEW i \in 1..Len(Series(data, o, m))
  PROVE  \E p \in DOMAIN data :
            i \in DOMAIN Series(data, p, m) /\ ColumnTime(data, order, m, i) = Series(data, p, m)[i].at
<1> DEFINE N == Cardinality(DOMAIN data)
           stamping == {k \in DOMAIN order : Len(Series(data, order[k], m)) >= i}
           last == Max(stamping)
<1>1. N \in Nat /\ DOMAIN order = 1..N /\ {order[r] : r \in DOMAIN order} = DOMAIN data
  BY OrderType DEF IsData
<1>2. i \in Nat /\ i >= 1 /\ Len(Series(data, o, m)) >= i
  BY SeriesType
<1>3. ColumnTime(data, order, m, i) = Series(data, order[last], m)[i].at
  BY DEF ColumnTime, Series
<1> HIDE DEF N
<1>4. stamping \in SUBSET (0..N) /\ stamping # {}
  <2>1. PICK r \in DOMAIN order : order[r] = o
    BY <1>1
  <2>2. r \in stamping
    BY <1>2, <2>1
  <2>3. stamping \in SUBSET (1..N)
    BY <1>1
  <2> HIDE DEF stamping
  <2>4. QED
    BY <1>1, <2>2, <2>3
<1>5. last \in stamping
  <2> HIDE DEF stamping
  <2>1. QED
    BY <1>1, <1>4, MaxIsGreatest
<1>6. last \in DOMAIN order /\ Len(Series(data, order[last], m)) >= i
  BY <1>5
<1> HIDE DEF last, stamping
<1>7. order[last] \in DOMAIN data
  BY <1>1, <1>6
<1>8. i \in DOMAIN Series(data, order[last], m)
  BY <1>2, <1>6, <1>7, SeriesType
<1>9. QED
  BY <1>3, <1>7, <1>8

(* Pieces that are joined stand where the widths say. *)
Pieces(parts, K, w) ==
  /\ DOMAIN parts = 1..K /\ Len(parts) = K
  /\ \A k \in 1..K : parts[k] = [i \in 1..w[k] |-> parts[k][i]]
HasLength(s, n) == Len(s) = n /\ s = [i \in 1..n |-> s[i]]
LEMMA PiecesInPlace ==
  ASSUME NEW K \in Nat, NEW w \in [1..K -> Nat], NEW off, Offsets(off, K, w),
         NEW parts, Pieces(parts, K, w)
  PROVE  /\ DOMAIN Joined(parts) = 1..off[K] /\ Len(Joined(parts)) = off[K]
         /\ HasLength(Joined(parts), off[K])
         /\ \A k \in 1..K : \A i \in 1..w[k] : Joined(parts)[off[k - 1] + i] = parts[k][i]
<1> DEFINE T == UNION {{parts[k][i] : i \in 1..w[k]} : k \in 1..K}
<1>1. Len(parts) = K
  BY DEF Pieces
<1>2. ASSUME NEW k \in 1..K PROVE parts[k] \in Seq(T) /\ Len(parts[k]) = w[k]
  <2> DEFINE part == parts[k]
  <2>1. w[k] \in Nat /\ part = [i \in 1..w[k] |-> part[i]]
    BY DEF Pieces
  <2>2. \A i \in 1..w[k] : part[i] \in T
    OBVIOUS
  <2> HIDE DEF T, part
  <2>3. part \in Seq(T) /\ Len(part) = w[k]
    BY <2>1, <2>2
  <2>4. QED
    BY <2>3 DEF part
<1> HIDE DEF T
<1>3. Parts(parts, T)
  BY <1>1, <1>2 DEF Parts
<1>4. Starts(off, parts)
  BY <1>1, <1>2 DEF Starts, Offsets
<1>5. /\ Joined(parts) \in Seq(T)
      /\ Len(Joined(parts)) = off[Len(parts)]
      /\ \A k \in 1..Len(parts) : \A i \in 1..Len(parts[k]) :
           Joined(parts)[off[k - 1] + i] = parts[k][i]
  BY <1>3, <1>4, JoinedInPlace
<1>6. /\ DOMAIN Joined(parts) = 1..off[K] /\ Len(Joined(parts)) = off[K]
      /\ HasLength(Joined(parts), off[K])
  <2> DEFINE joined == Joined(parts)
  <2>1. joined \in Seq(T) /\ Len(joined) = off[K]
    BY <1>1, <1>5
  <2> HIDE DEF joined
  <2>2. DOMAIN joined = 1..off[K] /\ joined = [j \in 1..off[K] |-> joined[j]]
    BY <2>1
  <2>3. QED
    BY <2>1, <2>2 DEF joined, HasLength
<1>7. ASSUME NEW k \in 1..K, NEW i \in 1..w[k]
      PROVE  Joined(parts)[off[k - 1] + i] = parts[k][i]
  BY <1>1, <1>2, <1>5
<1>8. QED
  BY <1>6, <1>7

IsTable(metrics) ==
  /\ Len(metrics) \in Nat /\ DOMAIN metrics = 1..Len(metrics)
  /\ \A k, l \in DOMAIN metrics : metrics[k] = metrics[l] => k = l
WrittenAt(metrics, data, order, off, file) ==
  /\ Laid(metrics, off, file.header)
  /\ \A k \in 1..Len(metrics) : Block(off, k, off[k - 1], Width(data, metrics[k]))
  /\ \A k \in 1..Len(metrics) : \A i \in 1..Width(data, metrics[k]) :
        file.header[off[k - 1] + i] = Columns(data, order, metrics[k])[i]
  /\ \A r \in DOMAIN order :
        /\ file.rows[r].owner = order[r]
        /\ HasLength(file.rows[r].cells, Len(file.header))
        /\ \A k \in 1..Len(metrics) : \A i \in 1..Width(data, metrics[k]) :
              file.rows[r].cells[off[k - 1] + i] = Cells(data, order[r], metrics[k])[i]
LEMMA WrittenInPlace ==
  ASSUME NEW metrics, IsTable(metrics), NEW data, IsData(metrics, data), NEW order \in OrdersOf(data)
  PROVE  /\ \E off : WrittenAt(metrics, data, order, off, Written(metrics, data, order))
         /\ DOMAIN Written(metrics, data, order).rows = DOMAIN order
<1> DEFINE K == Len(metrics)
           w == [k \in 1..K |-> Width(data, metrics[k])]
           file == Written(metrics, data, order)
           columns == [k \in DOMAIN metrics |-> Columns(data, order, metrics[k])]
           cells(r) == [k \in DOMAIN metrics |-> Cells(data, order[r], metrics[k])]
<1>1. K \in Nat /\ DOMAIN metrics = 1..K /\ \A k, l \in 1..K : metrics[k] = metrics[l] => k = l
  BY DEF IsTable
<1>2. \A k \in 1..K : w[k] = Width(data, metrics[k])
  OBVIOUS
<1>3. w \in [1..K -> Nat]
  <2> HIDE DEF K
  <2>1. \A k \in 1..K : metrics[k] \in ToSet(metrics)
    BY <1>1 DEF ToSet
  <2>2. \A k \in 1..K : Width(data, metrics[k]) \in Nat
    BY <2>1, WidthIsGreatest
  <2>3. QED
    BY <2>2
<1>4. /\ file.header = Joined(columns)
      /\ DOMAIN file.rows = DOMAIN order
      /\ \A r \in DOMAIN order : file.rows[r].owner = order[r] /\ file.rows[r].cells = Joined(cells(r))
  BY DEF Written
<1> HIDE DEF w, file
<1>5. PICK off : Offsets(off, K, w)
  <2> HIDE DEF K
  <2>1. QED
    BY <1>1, <1>3, OffsetsExist
<1>6. /\ off \in [0..K -> Nat] /\ off[0] = 0
      /\ \A k \in 1..K : off[k] = off[k - 1] + w[k]
      /\ \A l \in 0..K : \A k \in 0..l : off[k] <= off[l]
      /\ \A j \in 1..off[K] : \E k \in 1..K : j \in off[k - 1] + 1..off[k]
  BY <1>5 DEF Offsets
<1>7. Pieces(columns, K, w) /\ \A k \in 1..K : columns[k] = Columns(data, order, metrics[k])
  <2>1. DOMAIN columns = 1..K /\ Len(columns) = K
    BY <1>1
  <2>2. ASSUME NEW k \in 1..K
        PROVE  columns[k] = [i \in 1..w[k] |-> columns[k][i]] /\ columns[k] = Columns(data, order, metrics[k])
    <3>1. columns[k] = Columns(data, order, metrics[k])
      BY <1>1
    <3>2. Columns(data, order, metrics[k]) = [i \in 1..w[k] |-> Columns(data, order, metrics[k])[i]]
      BY <1>2 DEF Columns
    <3> HIDE DEF columns
    <3>3. QED
      BY <3>1, <3>2
  <2> HIDE DEF columns, K
  <2>3. QED
    BY <2>1, <2>2 DEF Pieces
<1>8. ASSUME NEW r \in DOMAIN order
      PROVE  Pieces(cells(r), K, w) /\ \A k \in 1..K : cells(r)[k] = Cells(data, order[r], metrics[k])
  <2> DEFINE c == cells(r)
  <2>1. DOMAIN c = 1..K /\ Len(c) = K
    BY <1>1
  <2>2. ASSUME NEW k \in 1..K
        PROVE  c[k] = [i \in 1..w[k] |-> c[k][i]] /\ c[k] = Cells(data, order[r], metrics[k])
    <3>1. c[k] = Cells(data, order[r], metrics[k])
      BY <1>1
    <3>2. Cells(data, order[r], metrics[k]) = [i \in 1..w[k] |-> Cells(data, order[r], metrics[k])[i]]
      BY <1>2 DEF Cells
    <3> HIDE DEF c
    <3>3. QED
      BY <3>1, <3>2
  <2> HIDE DEF c, K
  <2>3. Pieces(c, K, w) /\ \A k \in 1..K : c[k] = Cells(data, order[r], metrics[k])
    BY <2>1, <2>2 DEF Pieces
  <2>4. QED
    BY <2>3 DEF c
<1> HIDE DEF columns, cells
<1>9. /\ DOMAIN file.header = 1..off[K] /\ Len(file.header) = off[K]
      /\ \A k \in 1..K : \A i \in 1..w[k] :
           file.header[off[k - 1] + i] = Columns(data, order, metrics[k])[i]
  <2> HIDE DEF K
  <2>1. K \in Nat /\ Pieces(columns, K, w)
    BY <1>1, <1>7
  <2>2. /\ DOMAIN Joined(columns) = 1..off[K] /\ Len(Joined(columns)) = off[K]
        /\ \A k \in 1..K : \A i \in 1..w[k] : Joined(columns)[off[k - 1] + i] = columns[k][i]
    BY <1>3, <1>5, <2>1, PiecesInPlace
  <2>3. QED
    BY <1>4, <1>7, <2>2
<1>10. ASSUME NEW r \in DOMAIN order
       PROVE  /\ file.rows[r].owner = order[r]
              /\ HasLength(file.rows[r].cells, off[K])
              /\ \A k \in 1..K : \A i \in 1..w[k] :
                   file.rows[r].cells[off[k - 1] + i] = Cells(data, order[r], metrics[k])[i]
  <2> HIDE DEF K
  <2>1. Pieces(cells(r), K, w) /\ \A k \in 1..K : cells(r)[k] = Cells(data, order[r], metrics[k])
    BY <1>8
  <2> DEFINE c == cells(r)
  <2>2. K \in Nat /\ Pieces(c, K, w)
    BY <1>1, <2>1
  <2> HIDE DEF c
  <2>3. /\ HasLength(Joined(c), off[K])
        /\ \A k \in 1..K : \A i \in 1..w[k] : Joined(c)[off[k - 1] + i] = c[k][i]
    BY <1>3, <1>5, <2>2, PiecesInPlace
  <2>4. file.rows[r].owner = order[r] /\ file.rows[r].cells = Joined(c)
    BY <1>4 DEF c
  <2>5. \A k \in 1..K : c[k] = Cells(data, order[r], metrics[k])
    BY <2>1 DEF c
  <2>6. QED
    BY <2>3, <2>4, <2>5
<1>11. \A k \in 1..K : Block(off, k, off[k - 1], w[k])
  <2> HIDE DEF K
  <2> SUFFICES ASSUME NEW k \in 1..K PROVE w[k] = off[k] - off[k - 1]
    BY DEF Block
  <2>1. k - 1 \in 0..K /\ w[k] \in Nat
    BY <1>1, <1>3
  <2>2. off[k - 1] \in Nat /\ off[k] = off[k - 1] + w[k]
    BY <1>6, <2>1
  <2>3. QED
    BY <2>1, <2>2
<1>12. Laid(metrics, off, file.header)
  <2>1. \A k, l \in 0..K : k <= l => off[k] <= off[l]
    <3> HIDE DEF K
    <3> SUFFICES ASSUME NEW k \in 0..K, NEW l \in 0..K, k <= l PROVE off[k] <= off[l]
      OBVIOUS
    <3>1. k \in 0..l
      BY <1>1
    <3>2. QED
      BY <1>6, <3>1
  <2>2. ASSUME NEW k \in 1..K, NEW j \in off[k - 1] + 1..off[k]
        PROVE  file.header[j].metric = metrics[k]
    <3> HIDE DEF K
    <3> DEFINE a == off[k - 1]
               i == j - a
    <3>1. k - 1 \in 0..K /\ w[k] \in Nat
      BY <1>1, <1>3
    <3>2. a \in Nat /\ off[k] = a + w[k]
      BY <1>6, <3>1
    <3>3. j \in a + 1..a + w[k]
      BY <3>2
    <3> HIDE DEF a
    <3>4. i \in 1..w[k] /\ a + i = j
      BY <3>1, <3>2, <3>3
    <3> HIDE DEF i
    <3>5. file.header[j] = Columns(data, order, metrics[k])[i]
      BY <1>9, <3>4 DEF a
    <3>6. Columns(data, order, metrics[k])[i].metric = metrics[k]
      BY <1>2, <3>4 DEF Columns
    <3>7. QED
      BY <3>5, <3>6
  <2>3. \A j \in DOMAIN file.header : \E k \in 1..K : j \in off[k - 1] + 1..off[k]
    BY <1>6, <1>9
  <2> HIDE DEF K
  <2>4. QED
    BY <1>1, <1>6, <1>9, <2>1, <2>2, <2>3 DEF Laid, K
<1>13. WrittenAt(metrics, data, order, off, file)
  BY <1>2, <1>9, <1>10, <1>11, <1>12 DEF WrittenAt
<1>14. QED
  BY <1>4, <1>13 DEF file

(* What was to be written of a metric in a row. *)
Values(data, o, m) ==
  [i \in DOMAIN Series(data, o, m) |-> Printed(Series(data, o, m)[i].value)]
TimesFrom(header, a, n) == [i \in 1..n |-> header[a + i].at]
AlignedIn(data, m) == \A o, p \in DOMAIN data :
  \A i \in DOMAIN Series(data, o, m) \cap DOMAIN Series(data, p, m) :
    Series(data, o, m)[i].at = Series(data, p, m)[i].at

(* Where a metric is in a row that is written to its end. *)
LEMMA WrittenCells ==
  ASSUME NEW metrics, IsTable(metrics), NEW data, IsData(metrics, data),
         NEW order \in OrdersOf(data), NEW off, NEW file, WrittenAt(metrics, data, order, off, file),
         NEW r \in DOMAIN order, NEW k \in 1..Len(metrics)
  PROVE  LET o == order[r]
             m == metrics[k]
             a == off[k - 1]
             w == Width(data, m)
             L == Len(Series(data, o, m))
             cells == file.rows[r].cells
         IN  /\ o \in DOMAIN data /\ m \in ToSet(metrics)
             /\ DOMAIN Series(data, o, m) = 1..L
             /\ Block(off, k, a, w) /\ Holds(cells, a, w, L)
             /\ \A i \in 1..L : cells[a + i] = <<Printed(Series(data, o, m)[i].value)>>
             /\ \A i \in 1..L : file.header[a + i].at = ColumnTime(data, order, m, i)
<1> DEFINE o == order[r]
           m == metrics[k]
           a == off[k - 1]
           w == Width(data, m)
           L == Len(Series(data, o, m))
           cells == file.rows[r].cells
<1>1. o \in DOMAIN data
  BY DEF OrdersOf
<1>2. m \in ToSet(metrics)
  BY DEF IsTable, ToSet
<1>3. L \in Nat /\ DOMAIN Series(data, o, m) = 1..L
  BY <1>1, <1>2, SeriesType
<1>4. w \in Nat /\ L <= w
  BY <1>1, <1>2, WidthIsGreatest
<1>5. Block(off, k, a, w)
  BY DEF WrittenAt
<1>6. \A i \in 1..w : cells[a + i] = Cells(data, o, m)[i] /\ file.header[a + i] = Columns(data, order, m)[i]
  BY DEF WrittenAt
<1>7. \A i \in 1..w :
        Cells(data, o, m)[i] = IF i <= L THEN <<Printed(Series(data, o, m)[i].value)>> ELSE <<>>
  BY DEF Cells, Series
<1>8. \A i \in 1..w : Columns(data, order, m)[i].at = ColumnTime(data, order, m, i)
  BY DEF Columns
<1> HIDE DEF o, m, a, w, L, cells
<1>9. \A i \in 1..L : i \in 1..w /\ i <= L
  BY <1>3, <1>4
<1>10. \A i \in 1..w : cells[a + i] = IF i <= L THEN <<Printed(Series(data, o, m)[i].value)>> ELSE <<>>
  BY <1>6, <1>7
<1>11. \A i \in 1..w : cells[a + i] # <<>> <=> i <= L
  <2> SUFFICES ASSUME NEW i \in 1..w PROVE cells[a + i] # <<>> <=> i <= L
    OBVIOUS
  <2> DEFINE v == Printed(Series(data, o, m)[i].value)
  <2>1. cells[a + i] = IF i <= L THEN <<v>> ELSE <<>>
    BY <1>10
  <2> HIDE DEF v
  <2>2. QED
    BY <2>1
<1>12. Holds(cells, a, w, L)
  BY <1>3, <1>4, <1>11 DEF Holds
<1>13. \A i \in 1..L : cells[a + i] = <<Printed(Series(data, o, m)[i].value)>>
  BY <1>9, <1>10
<1>14. \A i \in 1..L : file.header[a + i].at = ColumnTime(data, order, m, i)
  BY <1>6, <1>8, <1>9
<1>15. QED
  BY <1>1, <1>2, <1>3, <1>5, <1>12, <1>13, <1>14 DEF o, m, a, w, L, cells

(* Each sample has its own time back where series agree on their times. *)
LEMMA TimesComeBack ==
  ASSUME NEW metrics, IsTable(metrics), NEW data, IsData(metrics, data),
         NEW order \in OrdersOf(data), NEW off, NEW file, WrittenAt(metrics, data, order, off, file),
         NEW r \in DOMAIN order, NEW k \in 1..Len(metrics), AlignedIn(data, metrics[k]),
         NEW n \in Nat, n <= Len(Series(data, order[r], metrics[k]))
  PROVE  IsPrefix(TimesFrom(file.header, off[k - 1], n),
                  TimesOf(Series(data, order[r], metrics[k])))
<1> DEFINE o == order[r]
           m == metrics[k]
           s == Series(data, o, m)
           L == Len(s)
           times == TimesOf(s)
           got == [i \in 1..n |-> file.header[off[k - 1] + i].at]
<1>1. /\ o \in DOMAIN data /\ m \in ToSet(metrics) /\ DOMAIN s = 1..L
      /\ \A i \in 1..L : file.header[off[k - 1] + i].at = ColumnTime(data, order, m, i)
  BY WrittenCells
<1>2. s \in Seq(Samples) /\ L \in Nat
  BY <1>1, SeriesType
<1>3. ASSUME NEW i \in 1..L PROVE ColumnTime(data, order, m, i) = s[i].at
  <2>1. PICK p \in DOMAIN data :
           i \in DOMAIN Series(data, p, m) /\ ColumnTime(data, order, m, i) = Series(data, p, m)[i].at
    BY <1>1, StampedBySample
  <2>2. i \in DOMAIN s \cap DOMAIN Series(data, p, m)
    BY <1>1, <2>1
  <2>3. s[i].at = Series(data, p, m)[i].at
    BY <1>1, <2>2 DEF AlignedIn
  <2>4. QED
    BY <2>1, <2>3
<1>4. times = [i \in 1..L |-> s[i].at]
  BY <1>1 DEF TimesOf
<1> HIDE DEF o, m, s, times
<1>5. got = [i \in 1..n |-> s[i].at]
  <2>1. \A i \in 1..n : i \in 1..L
    BY <1>2 DEF s, o, m
  <2>2. QED
    BY <1>1, <1>3, <2>1
<1>6. IsPrefix([i \in 1..n |-> s[i].at], [i \in 1..L |-> s[i].at])
  <2> DEFINE short == [i \in 1..n |-> s[i].at]
             long == [i \in 1..L |-> s[i].at]
  <2>1. n <= L
    BY DEF s, o, m
  <2> HIDE DEF L
  <2>2. Len(short) = n /\ Len(long) = L
    BY <1>2
  <2>3. SubSeq(short, 1, n) = short
    BY <1>2
  <2>4. SubSeq(long, 1, n) = short
    BY <1>2, <2>1
  <2>5. QED
    BY <2>1, <2>2, <2>3, <2>4 DEF IsPrefix
<1>7. IsPrefix(got, times)
  BY <1>4, <1>5, <1>6
<1>8. QED
  BY <1>7 DEF TimesFrom, o, m, s, times

(* A metric whose cells are all there comes back whole. *)
Same(cells, whole, a, w) == \A i \in 1..w : cells[a + i] = whole[a + i]
CameBack(got, header, values, a, L) ==
  ValuesOf(got) = values /\ TimesOf(got) = TimesFrom(header, a, L)
LEMMA IntactMetric ==
  ASSUME NEW advancing, NEW metrics, IsTable(metrics), NEW data, IsData(metrics, data),
         NEW order \in OrdersOf(data), NEW off, NEW file, WrittenAt(metrics, data, order, off, file),
         NEW r \in DOMAIN order, NEW k \in 1..Len(metrics), Counted(advancing, metrics, off, k),
         NEW cells, Same(cells, file.rows[r].cells, off[k - 1], Width(data, metrics[k]))
  PROVE  LET m == metrics[k]
         IN  CameBack(Read(advancing, metrics, file.header, cells, m), file.header,
                      Values(data, order[r], m), off[k - 1], Len(Series(data, order[r], m)))
<1> DEFINE o == order[r]
           m == metrics[k]
           a == off[k - 1]
           w == Width(data, m)
           s == Series(data, o, m)
           L == Len(s)
           whole == file.rows[r].cells
           header == file.header
           got == Read(advancing, metrics, header, cells, m)
<1>1. /\ Block(off, k, a, w) /\ Holds(whole, a, w, L) /\ DOMAIN s = 1..L
      /\ \A i \in 1..L : whole[a + i] = <<Printed(s[i].value)>>
  BY WrittenCells
<1>2. \A i \in 1..w : cells[a + i] = whole[a + i]
  BY DEF Same
<1>3. L \in 0..w /\ Holds(cells, a, w, L) /\ w \in Nat
  <2>1. w \in Nat
    <3>1. m \in ToSet(metrics)
      BY WrittenCells
    <3>2. QED
      BY <3>1, WidthIsGreatest
  <2> HIDE DEF a, w, L, whole
  <2>2. QED
    BY <1>1, <1>2, <2>1 DEF Holds
<1>4. Laid(metrics, off, header)
  BY DEF WrittenAt
<1> HIDE DEF a, w, header
<1>5. /\ ValuesOf(got) = [n \in 1..L |-> cells[a + n][1]]
      /\ TimesOf(got) = TimesFrom(header, a, L)
  BY <1>1, <1>3, <1>4, ReadFromCells DEF TimesFrom
<1> HIDE DEF L, s, whole
<1>6. \A n \in 1..L : cells[a + n][1] = Printed(s[n].value)
  BY <1>1, <1>2, <1>3
<1>7. Values(data, o, m) = [i \in 1..L |-> Printed(s[i].value)]
  BY <1>1 DEF Values, s
<1>8. ValuesOf(got) = Values(data, o, m)
  BY <1>5, <1>6, <1>7
<1>9. QED
  BY <1>5, <1>8 DEF CameBack, a, header, L, s

LEMMA FrontOfRow ==
  ASSUME NEW N \in Nat \ {0}, NEW whole, HasLength(whole, N), NEW c
  PROVE  /\ Len(whole) = N /\ whole # <<>>
         /\ Front(whole) = [j \in 1..N - 1 |-> whole[j]]
         /\ Append(Front(whole), c) = [j \in 1..N |-> IF j = N THEN c ELSE whole[j]]
<1> DEFINE T == {whole[j] : j \in 1..N} \cup {c}
           front == [j \in 1..N - 1 |-> whole[j]]
           long == [j \in 1..N |-> IF j = N THEN c ELSE whole[j]]
<1>0. whole = [j \in 1..N |-> whole[j]]
  BY DEF HasLength
<1>1. \A j \in 1..N : whole[j] \in T
  OBVIOUS
<1>2. c \in T
  OBVIOUS
<1> HIDE DEF T
<1>3. whole \in Seq(T) /\ Len(whole) = N
  BY <1>0, <1>1
<1>4. whole # <<>>
  BY <1>3
<1>5. Front(whole) = front
  BY <1>3 DEF Front
<1>6. front \in Seq(T) /\ Len(front) = N - 1
  <2> DEFINE n == N - 1
  <2>1. n \in Nat /\ \A j \in 1..n : whole[j] \in T
    BY <1>1
  <2> HIDE DEF n
  <2>2. [j \in 1..n |-> whole[j]] \in Seq(T) /\ Len([j \in 1..n |-> whole[j]]) = n
    BY <2>1
  <2>3. QED
    BY <2>2 DEF n
<1>7. Append(front, c) = long
  <2>1. Append(front, c) \in Seq(T) /\ Len(Append(front, c)) = N
    BY <1>2, <1>6
  <2>2. long \in Seq(T) /\ Len(long) = N
    BY <1>1, <1>2
  <2>3. ASSUME NEW j \in 1..N PROVE Append(front, c)[j] = long[j]
    <3>1. CASE j = N
      <4>1. Append(front, c)[Len(front) + 1] = c
        <5> HIDE DEF front
        <5>1. QED
          BY <1>2, <1>6
      <4>2. QED
        BY <1>6, <3>1, <4>1
    <3>2. CASE j # N
      <4>1. j \in 1..N - 1
        BY <3>2
      <4>2. Append(front, c)[j] = front[j]
        <5> HIDE DEF front
        <5>1. QED
          BY <1>2, <1>6, <4>1
      <4>3. QED
        BY <3>2, <4>1, <4>2
    <3>3. QED
      BY <3>1, <3>2
  <2> HIDE DEF front, long
  <2>4. QED
    BY <2>1, <2>2, <2>3
<1>8. QED
  BY <1>3, <1>4, <1>5, <1>7

(* Of a row that has lost digits of its last cell, or that cell, all       *)
(* metrics but that of the last column come back whole, and of that one    *)
(* all values but the last.                                                *)
Cut(cells, whole, N) ==
  /\ N # 0 /\ cells[N] \in CutCell(whole[N])
  /\ \A j \in 1..N - 1 : cells[j] = whole[j]
CameBackCut(got, header, m, values, a, L) ==
  /\ \/ ValuesOf(got) = values
     \/ /\ Last(header).metric = m
        /\ ValuesOf(got) \in {Front(values), Append(Front(values), Garbled)}
  /\ \E n \in 0..L : TimesOf(got) = TimesFrom(header, a, n)
LEMMA CutMetric ==
  ASSUME NEW advancing, NEW metrics, IsTable(metrics), NEW data, IsData(metrics, data),
         NEW order \in OrdersOf(data), NEW off, NEW file, WrittenAt(metrics, data, order, off, file),
         NEW r \in DOMAIN order, NEW k \in 1..Len(metrics), Counted(advancing, metrics, off, k),
         NEW cells, Cut(cells, file.rows[r].cells, Len(file.header))
  PROVE  LET m == metrics[k]
         IN  CameBackCut(Read(advancing, metrics, file.header, cells, m), file.header, m,
                         Values(data, order[r], m), off[k - 1], Len(Series(data, order[r], m)))
<1> DEFINE o == order[r]
           m == metrics[k]
           a == off[k - 1]
           w == Width(data, m)
           s == Series(data, o, m)
           L == Len(s)
           header == file.header
           N == Len(header)
           whole == file.rows[r].cells
           values == Values(data, o, m)
           got == Read(advancing, metrics, header, cells, m)
<1>1. /\ Block(off, k, a, w) /\ Holds(whole, a, w, L) /\ DOMAIN s = 1..L
      /\ \A i \in 1..L : whole[a + i] = <<Printed(s[i].value)>>
  BY WrittenCells
<1>2. Laid(metrics, off, header)
  BY DEF WrittenAt
<1>3. /\ a \in Nat /\ w \in Nat /\ a + w <= N /\ N \in Nat /\ DOMAIN header = 1..N
      /\ \A j \in DOMAIN header : header[j].metric = m <=> a < j /\ j <= a + w
  BY <1>1, <1>2, BlockType
<1>4. L \in 0..w /\ \A i \in 1..w : whole[a + i] # <<>> <=> i <= L
  BY <1>1 DEF Holds
<1>5. cells[N] \in CutCell(whole[N]) /\ (\A j \in 1..N - 1 : cells[j] = whole[j]) /\ N # 0
  BY DEF Cut
<1>6. ASSUME Same(cells, whole, a, w)
      PROVE  ValuesOf(got) = values /\ TimesOf(got) = TimesFrom(header, a, L)
  <2>1. CameBack(got, header, values, a, L)
    BY <1>6, IntactMetric
  <2> HIDE DEF got, header, values, a, L
  <2>2. QED
    BY <2>1 DEF CameBack
<1>7. values = [i \in 1..L |-> Printed(s[i].value)]
  BY <1>1 DEF Values
<1> HIDE DEF a, w, s, L, N, whole, values, header
<1>8. CASE a + w < N \/ whole[N] = <<>>
  <2>1. ASSUME NEW i \in 1..w PROVE cells[a + i] = whole[a + i]
    <3>1. a + i \in 1..N
      BY <1>3
    <3>2. CASE a + i \in 1..N - 1
      BY <1>5, <3>2
    <3>3. CASE a + i = N
      <4>1. whole[N] = <<>>
        BY <1>3, <1>8, <3>3
      <4>2. cells[N] = <<>>
        BY <1>5, <4>1 DEF CutCell
      <4>3. QED
        BY <3>3, <4>1, <4>2
    <3>4. QED
      BY <1>3, <3>1, <3>2, <3>3
  <2>2. ValuesOf(got) = values /\ TimesOf(got) = TimesFrom(header, a, L)
    BY <1>6, <2>1 DEF Same
  <2>3. L \in 0..L
    BY <1>3, <1>4
  <2>4. QED
    BY <2>2, <2>3 DEF CameBackCut, values, header, a, L, s
<1>9. CASE a + w = N /\ whole[N] # <<>> /\ w = 0
  <2>1. \A i \in 1..w : cells[a + i] = whole[a + i]
    BY <1>9
  <2>2. ValuesOf(got) = values /\ TimesOf(got) = TimesFrom(header, a, L)
    BY <1>6, <2>1 DEF Same
  <2>3. L \in 0..L
    BY <1>3, <1>4
  <2>4. QED
    BY <2>2, <2>3 DEF CameBackCut, values, header, a, L, s
<1>10. CASE a + w = N /\ whole[N] # <<>> /\ w # 0
  <2>1. w \in 1..w /\ L = w /\ L \in Nat \ {0}
    <3>1. w \in 1..w
      BY <1>3, <1>10
    <3>2. whole[a + w] # <<>>
      BY <1>10
    <3>3. w <= L
      BY <1>4, <3>1, <3>2
    <3>4. QED
      BY <1>3, <1>4, <1>10, <3>1, <3>3
  <2>2. Last(header).metric = m
    <3>1. N \in DOMAIN header /\ a < N /\ N <= a + w
      BY <1>3, <1>5, <1>10
    <3>2. header[N].metric = m
      BY <1>3, <3>1
    <3>3. QED
      BY <3>2 DEF Last, N
  <2>3. \A i \in 1..L - 1 : cells[a + i] = whole[a + i] /\ cells[a + i] = <<Printed(s[i].value)>>
    <3> SUFFICES ASSUME NEW i \in 1..L - 1
                 PROVE  cells[a + i] = whole[a + i] /\ cells[a + i] = <<Printed(s[i].value)>>
      OBVIOUS
    <3>1. a + i \in 1..N - 1 /\ i \in 1..L
      BY <1>3, <1>10, <2>1
    <3>2. QED
      BY <1>1, <1>5, <3>1
  <2>4. values = [i \in 1..L |-> values[i]] /\ \A i \in 1..L : values[i] = Printed(s[i].value)
    BY <1>7
  <2>5. /\ Front(values) = [i \in 1..L - 1 |-> values[i]]
        /\ Append(Front(values), Garbled) = [i \in 1..L |-> IF i = L THEN Garbled ELSE values[i]]
    <3>1. HasLength(values, L)
      <4>1. Len(values) = L
        BY <1>7, <2>1
      <4>2. QED
        BY <2>4, <4>1 DEF HasLength
    <3>2. QED
      BY <2>1, <3>1, FrontOfRow
  <2>6. CASE cells[N] = <<>>
    <3>1. ASSUME NEW i \in 1..w PROVE cells[a + i] # <<>> <=> i <= L - 1
      <4>1. CASE i = L
        BY <1>10, <2>1, <2>6, <4>1
      <4>2. CASE i # L
        <5>1. i \in 1..L - 1 /\ i \in 1..L
          BY <2>1, <4>2
        <5>2. cells[a + i] # <<>>
          <6> DEFINE v == Printed(s[i].value)
          <6>1. cells[a + i] = <<v>>
            BY <2>3, <5>1
          <6> HIDE DEF v
          <6>2. QED
            BY <6>1
        <5>3. QED
          BY <2>1, <5>1, <5>2
      <4>3. QED
        BY <4>1, <4>2
    <3>2. Holds(cells, a, w, L - 1)
      BY <2>1, <3>1 DEF Holds
    <3>3. /\ ValuesOf(got) = [n \in 1..L - 1 |-> cells[a + n][1]]
          /\ TimesOf(got) = TimesFrom(header, a, L - 1)
      BY <1>1, <1>2, <3>2, ReadFromCells DEF TimesFrom
    <3>4. \A n \in 1..L - 1 : cells[a + n][1] = values[n]
      <4> SUFFICES ASSUME NEW n \in 1..L - 1 PROVE cells[a + n][1] = values[n]
        OBVIOUS
      <4>1. n \in 1..L
        BY <2>1
      <4>2. QED
        BY <2>3, <2>4, <4>1
    <3>5. ValuesOf(got) = Front(values)
      BY <2>5, <3>3, <3>4
    <3>6. L - 1 \in 0..L
      BY <2>1
    <3>7. QED
      BY <2>2, <3>3, <3>5, <3>6 DEF CameBackCut, values, header, a, L, s
  <2>7. CASE cells[N] = <<Garbled>>
    <3>1. ASSUME NEW i \in 1..w PROVE cells[a + i] # <<>> <=> i <= L
      <4>1. i <= L
        BY <2>1
      <4>2. cells[a + i] # <<>>
        <5>1. CASE i = L
          <6>1. a + i = N
            BY <1>10, <2>1, <5>1
          <6> DEFINE v == Garbled
          <6>2. cells[a + i] = <<v>>
            BY <2>7, <6>1
          <6> HIDE DEF v
          <6>3. QED
            BY <6>2
        <5>2. CASE i # L
          <6> DEFINE v == Printed(s[i].value)
          <6>1. i \in 1..L - 1
            BY <2>1, <5>2
          <6>2. cells[a + i] = <<v>>
            BY <2>3, <6>1
          <6> HIDE DEF v
          <6>3. QED
            BY <6>2
        <5>3. QED
          BY <5>1, <5>2
      <4>3. QED
        BY <4>1, <4>2
    <3>2. Holds(cells, a, w, L)
      BY <1>4, <3>1 DEF Holds
    <3>3. /\ ValuesOf(got) = [n \in 1..L |-> cells[a + n][1]]
          /\ TimesOf(got) = TimesFrom(header, a, L)
      BY <1>1, <1>2, <3>2, ReadFromCells DEF TimesFrom
    <3>4. \A n \in 1..L : cells[a + n][1] = IF n = L THEN Garbled ELSE values[n]
      <4> SUFFICES ASSUME NEW n \in 1..L
                   PROVE  cells[a + n][1] = IF n = L THEN Garbled ELSE values[n]
        OBVIOUS
      <4>1. CASE n = L
        BY <1>10, <2>1, <2>7, <4>1
      <4>2. CASE n # L
        <5>1. n \in 1..L - 1
          BY <2>1, <4>2
        <5>2. QED
          BY <2>3, <2>4, <4>2, <5>1
      <4>3. QED
        BY <4>1, <4>2
    <3>5. ValuesOf(got) = Append(Front(values), Garbled)
      BY <2>5, <3>3, <3>4
    <3>6. L \in 0..L
      BY <2>1
    <3>7. QED
      BY <2>2, <3>3, <3>5, <3>6 DEF CameBackCut, values, header, a, L, s
  <2>8. QED
    BY <1>5, <1>10, <2>6, <2>7 DEF CutCell
<1>11. a + w < N \/ a + w = N
  BY <1>3
<1>12. QED
  BY <1>8, <1>9, <1>10, <1>11, Zenon

----------------------------------------------------------------------------
(* A checkpoint that is loaded.                                            *)

(* A file on disk is, row by row, what the writer had to write; only the   *)
(* last row may be cut, when the writer was interrupted.                   *)
LEMMA PartOnDisk ==
  ASSUME DiskInv, NEW file \in disk
  PROVE  \E order \in OrdersOf(writer.data) :
           LET whole == FileOf(writer.data, order)
           IN  \E n \in 0..Len(whole.rows) :
                 /\ PartOf(file, whole, n)
                 /\ writer.torn \/ file = whole
<1>1. IsFiniteSet(DOMAIN writer.data)
  BY FileOnDisk
<1>2. PICK order \in OrdersOf(writer.data) :
        IF writer.torn THEN \E part \in LeftOnDisk(FileOf(writer.data, order)) : disk = {part}
                       ELSE disk = {FileOf(writer.data, order)}
  BY DEF DiskInv
<1> DEFINE whole == FileOf(writer.data, order)
           N == Len(whole.rows)
<1>3. N \in Nat /\ DOMAIN whole.rows = 1..N /\ \E R : IsFile(whole, R)
  <2>1. N = Cardinality(DOMAIN writer.data) /\ \E R : IsFile(whole, R)
    BY <1>1, FileType
  <2>2. DOMAIN order = 1..N /\ N \in Nat
    BY <1>1, <2>1, OrderType
  <2>3. DOMAIN whole.rows = DOMAIN order
    BY <1>1, OwnersInFile
  <2>4. QED
    BY <2>1, <2>2, <2>3
<1>4. CASE writer.torn
  <2>1. file \in LeftOnDisk(whole)
    BY <1>2, <1>4
  <2> HIDE DEF whole
  <2>2. \E n \in 0..N : PartOf(file, whole, n)
    BY <1>3, <2>1, PartsOfFile
  <2>3. QED
    BY <1>4, <2>2 DEF whole
<1>5. CASE ~writer.torn
  <2>1. file = whole
    BY <1>2, <1>5
  <2> HIDE DEF whole
  <2>2. N \in 0..N /\ PartOf(file, whole, N)
    BY <1>3, <2>1 DEF PartOf
  <2>3. QED
    BY <2>1, <2>2 DEF whole
<1>6. QED
  BY <1>4, <1>5

(* A row that is cut is refused, unless nothing but its last cell is cut. *)
LEMMA CutRowRead ==
  ASSUME NEW N \in Nat, NEW whole, HasLength(whole.cells, N),
         whole = [owner |-> whole.owner, cells |-> whole.cells],
         NEW row \in CutRow(whole), Len(row.cells) = N
  PROVE  Cut(row.cells, whole.cells, N)
<1> DEFINE cells == whole.cells
           owner == whole.owner
           T == {cells[j] : j \in 1..N}
<1>1. cells \in Seq(T) /\ Len(cells) = N
  <2>1. cells = [j \in 1..N |-> cells[j]]
    BY DEF HasLength
  <2>2. \A j \in 1..N : cells[j] \in T
    OBVIOUS
  <2> HIDE DEF T, cells
  <2>3. QED
    BY <2>1, <2>2
<1>2. whole = [owner |-> owner, cells |-> cells]
  OBVIOUS
<1>3. \/ \E n \in 0..N - 1 : row = [whole EXCEPT !.cells = SubSeq(cells, 1, n)]
      \/ /\ cells # <<>>
         /\ \E c \in CutCell(Last(cells)) : row = [whole EXCEPT !.cells = Append(Front(cells), c)]
  BY <1>1 DEF CutRow
<1>4. \A x : [whole EXCEPT !.cells = x].cells = x
  <2> HIDE DEF owner, cells
  <2>1. QED
    BY <1>2
<1> HIDE DEF owner, cells, T
<1>5. ASSUME NEW n \in 0..N - 1, row = [whole EXCEPT !.cells = SubSeq(cells, 1, n)] PROVE FALSE
  <2>1. row.cells = SubSeq(cells, 1, n)
    BY <1>4, <1>5
  <2>2. Len(SubSeq(cells, 1, n)) = n
    BY <1>1
  <2>3. QED
    BY <2>1, <2>2
<1>6. ASSUME cells # <<>>, NEW c \in CutCell(Last(cells)),
             row = [whole EXCEPT !.cells = Append(Front(cells), c)]
      PROVE  Cut(row.cells, cells, N)
  <2>1. row.cells = Append(Front(cells), c)
    BY <1>4, <1>6
  <2>2. N # 0 /\ Last(cells) = cells[N]
    BY <1>1, <1>6 DEF Last
  <2>3. Append(Front(cells), c) = [j \in 1..N |-> IF j = N THEN c ELSE cells[j]]
    BY <2>2, FrontOfRow DEF cells
  <2>4. row.cells[N] = c /\ \A j \in 1..N - 1 : row.cells[j] = cells[j]
    BY <2>1, <2>2, <2>3
  <2>5. QED
    BY <2>2, <2>4 DEF Cut
<1>7. Cut(row.cells, cells, N)
  BY <1>3, <1>5, <1>6
<1>8. QED
  BY <1>7 DEF cells

LEMMA Appended ==
  ASSUME NEW S, NEW q \in Seq(S), NEW x \in S
  PROVE  /\ Append(q, x) \in Seq(S) /\ Len(Append(q, x)) = Len(q) + 1
         /\ DOMAIN Append(q, x) = 1..Len(q) + 1
         /\ Append(q, x)[Len(q) + 1] = x
         /\ \A i \in 1..Len(q) : Append(q, x)[i] = q[i]
<1>1. Append(q, x) \in Seq(S) /\ Len(Append(q, x)) = Len(q) + 1
  OBVIOUS
<1>2. Append(q, x)[Len(q) + 1] = x
  OBVIOUS
<1>3. \A i \in 1..Len(q) : Append(q, x)[i] = q[i]
  OBVIOUS
<1>4. QED
  BY <1>1, <1>2, <1>3

(* The metrics of the two tables, and which of them the loader counts. *)
LEMMA WorkloadTable ==
  /\ DOMAIN WorkloadMetrics = 1..7 /\ Len(WorkloadMetrics) = 7
  /\ WorkloadMetrics[1] = "CpuUsage" /\ WorkloadMetrics[2] = "MemUsage"
  /\ WorkloadMetrics[3] = "CpuRequest" /\ WorkloadMetrics[4] = "MemRequest"
  /\ WorkloadMetrics[5] = "CpuLimit" /\ WorkloadMetrics[6] = "MemLimit"
  /\ WorkloadMetrics[7] = "Replicas"
<1> DEFINE T == {"CpuUsage", "MemUsage", "CpuRequest", "MemRequest", "CpuLimit", "MemLimit", "Replicas"}
           six == ContainerMetrics
<1>1. /\ Len(six) = 6 /\ \A i \in 1..6 : six[i] \in T
      /\ six[1] = "CpuUsage" /\ six[2] = "MemUsage" /\ six[3] = "CpuRequest"
      /\ six[4] = "MemRequest" /\ six[5] = "CpuLimit" /\ six[6] = "MemLimit"
  BY DEF ContainerMetrics
<1>2. six \in Seq(T)
  BY DEF ContainerMetrics
<1>3. WorkloadMetrics = Append(six, "Replicas") /\ "Replicas" \in T
  BY DEF WorkloadMetrics
<1> DEFINE x == "Replicas"
<1>4. x \in T
  OBVIOUS
<1> HIDE DEF six, T, x
<1>5. /\ Len(Append(six, x)) = Len(six) + 1 /\ DOMAIN Append(six, x) = 1..Len(six) + 1
      /\ Append(six, x)[Len(six) + 1] = x
      /\ \A i \in 1..Len(six) : Append(six, x)[i] = six[i]
  BY <1>2, <1>4, Appended
<1>6. Len(six) = 6 /\ WorkloadMetrics = Append(six, x)
  BY <1>1, <1>3 DEF x
<1>7. /\ Len(WorkloadMetrics) = 7 /\ DOMAIN WorkloadMetrics = 1..7 /\ WorkloadMetrics[7] = x
      /\ \A i \in 1..6 : WorkloadMetrics[i] = six[i]
  BY <1>5, <1>6
<1>8. QED
  BY <1>1, <1>7 DEF x

Advancing == IF Table = "container" THEN ToSet(Metrics) ELSE ToSet(Metrics) \ {"MemRequest"}
LEMMA MetricsTable ==
  /\ IsTable(Metrics) /\ DOMAIN Metrics = 1..Len(Metrics)
  /\ ToSet(Metrics) = {Metrics[k] : k \in 1..Len(Metrics)}
  /\ "CpuUsage" \in ToSet(Metrics)
<1>1. CASE Table = "container"
  <2>1. Metrics = ContainerMetrics
    BY <1>1 DEF Metrics
  <2>2. QED
    BY <2>1 DEF IsTable, ContainerMetrics, ToSet
<1>2. CASE Table # "container"
  <2>1. Metrics = WorkloadMetrics
    BY <1>2 DEF Metrics
  <2>2. QED
    BY <2>1, WorkloadTable DEF IsTable, ToSet
<1>3. QED
  BY <1>1, <1>2

(* The metrics that are not misplaced come before those that are not       *)
(* counted, or there are no columns that are not.                          *)
LEMMA MisplacedBehindMemRequest ==
  ASSUME NEW k \in 1..Len(Metrics), ~Misplaced(Metrics[k]), NEW j \in 1..k - 1,
         Metrics[j] \notin Advancing
  PROVE  Metrics[j] = "MemRequest" /\ \A o \in DOMAIN writer.data : Want(o, "MemRequest") = <<>>
<1>1. CASE Table = "container"
  BY <1>1, MetricsTable DEF Advancing
<1>2. CASE Table # "container"
  <2>1. Metrics = WorkloadMetrics /\ Len(Metrics) = 7
    BY <1>2, WorkloadTable DEF Metrics
  <2>2. Metrics[j] = "MemRequest"
    <3>1. j \in 1..Len(Metrics)
      BY <2>1
    <3>2. QED
      BY <1>2, <3>1, MetricsTable DEF Advancing
  <2>3. j = 4 /\ k \in 5..7
    BY <2>1, <2>2, WorkloadTable
  <2>4. Metrics[k] \in {"CpuLimit", "MemLimit", "Replicas"}
    BY <2>1, <2>3, WorkloadTable
  <2>5. Table = "workload"
    BY <1>2, ComparatorInitAssumption
  <2>6. QED
    BY <2>2, <2>4, <2>5 DEF Misplaced
<1>3. QED
  BY <1>1, <1>2

LEMMA WriterData ==
  ASSUME DiskInv, NEW file \in disk
  PROVE  IsData(Metrics, writer.data)
<1>1. IsFiniteSet(DOMAIN writer.data)
  BY FileOnDisk
<1>2. /\ DOMAIN writer.data \subseteq Owners
      /\ \A o \in DOMAIN writer.data : writer.data[o] \in Answers[o]
  BY FileOnDisk DEF DiskInv
<1>3. QED
  BY <1>1, <1>2, ComparatorInitAssumption DEF IsData

(* One owner and one metric of a checkpoint that is loaded. *)
LEMMA MetricSurvives ==
  ASSUME DiskInv, NEW file \in disk, IsReadable(file), cache = Loaded(file),
         NEW o \in DOMAIN cache, NEW k \in 1..Len(Metrics), ~Misplaced(Metrics[k])
  PROVE  LET m == Metrics[k]
             values == Values(writer.data, o, m)
         IN  /\ o \in DOMAIN writer.data
             /\ \/ ValuesOf(Got(o, m)) = values
                \/ /\ IsTornCell(o, m)
                   /\ ValuesOf(Got(o, m)) \in {Front(values), Append(Front(values), Garbled)}
             /\ AlignedIn(writer.data, m) =>
                  IsPrefix(TimesOf(Got(o, m)), TimesOf(Series(writer.data, o, m)))
<1> DEFINE metrics == Metrics
           data == writer.data
           m == metrics[k]
           values == Values(data, o, m)
<1>1. IsTable(metrics) /\ IsData(metrics, data)
  BY MetricsTable, WriterData
<1>2. PICK order \in OrdersOf(data) :
           \E n \in 0..Len(FileOf(data, order).rows) :
              PartOf(file, FileOf(data, order), n) /\ (writer.torn \/ file = FileOf(data, order))
  BY PartOnDisk
<1> DEFINE whole == FileOf(data, order)
<1>3. PICK n \in 0..Len(whole.rows) : PartOf(file, whole, n) /\ (writer.torn \/ file = whole)
  BY <1>2
<1>4. whole = Written(metrics, data, order)
  BY DEF FileOf, ContainerDataCheckpoint, workloadTimeSeriesDataCheckpoint, Metrics
<1>5. IsFiniteSet(DOMAIN data) /\ DOMAIN order = 1..Cardinality(DOMAIN data)
      /\ Len(whole.rows) = Cardinality(DOMAIN data) /\ Cardinality(DOMAIN data) \in Nat
      /\ DOMAIN whole.rows = DOMAIN order
      /\ \A r \in DOMAIN order : whole.rows[r].owner = order[r]
      /\ \E R : IsFile(whole, R)
  <2>1. IsFiniteSet(DOMAIN data)
    BY <1>1 DEF IsData
  <2>2. QED
    BY <2>1, OrderType, OwnersInFile, FileType
<1> HIDE DEF whole
<1>6. PICK off : WrittenAt(metrics, data, order, off, whole)
  BY <1>1, <1>4, WrittenInPlace
<1>7. Loaded(file) = Load(metrics, Advancing, file)
  BY DEF Loaded, LoadContainerTimeSeriesDataFromCheckpoint, LoadWorkloadTimeSeriesDataFromCheckpoint,
         Metrics, Advancing
<1> DEFINE r == CHOOSE j \in DOMAIN file.rows : file.rows[j].owner = o
           row == file.rows[r]
<1>8. /\ DOMAIN cache = {file.rows[j].owner : j \in DOMAIN file.rows}
      /\ cache[o] = LoadRow(metrics, Advancing, file.header, row.cells)
  BY <1>7 DEF Load
<1>9. r \in DOMAIN file.rows /\ row.owner = o
  BY <1>8
<1> HIDE DEF r
<1>10. /\ n \in Nat /\ r \in 1..n /\ file.header = whole.header /\ r \in DOMAIN order
       /\ order[r] = o
       /\ row = whole.rows[r] \/ (r = n /\ row \in CutRow(whole.rows[r]))
  <2>1. DOMAIN file.rows = 1..n /\ r \in 1..n /\ n \in Nat
    BY <1>3, <1>5, <1>9 DEF PartOf
  <2>2. n > 0 /\ r \in DOMAIN order
    BY <1>3, <1>5, <2>1
  <2>3. file.header = whole.header
    BY <1>3, <2>2 DEF PartOf
  <2>4. order[r] = o
    BY <1>3, <1>5, <1>9, <2>1, <2>2 DEF PartOf
  <2>5. row = whole.rows[r] \/ (r = n /\ row \in CutRow(whole.rows[r]))
    BY <1>3, <2>1, <2>2 DEF PartOf
  <2>6. QED
    BY <2>1, <2>2, <2>3, <2>4, <2>5
<1> DEFINE header == whole.header
           N == Len(header)
           got == Read(Advancing, metrics, header, row.cells, m)
<1>11. Got(o, m) = got
  BY <1>8, <1>10 DEF Got, Read
<1>12. o \in DOMAIN data
  BY <1>10 DEF OrdersOf
<1>13. Len(row.cells) = N
  BY <1>9, <1>10 DEF IsReadable, Readable
<1>14. N \in Nat /\ HasLength(whole.rows[r].cells, N)
  <2>1. Len(metrics) \in 0..Len(metrics)
    BY MetricsTable DEF IsTable
  <2>2. Laid(metrics, off, header) /\ HasLength(whole.rows[r].cells, N)
    BY <1>6, <1>10 DEF WrittenAt
  <2>3. QED
    BY <2>1, <2>2 DEF Laid
<1>18. Counted(Advancing, metrics, off, k)
  <2> SUFFICES ASSUME NEW j \in 1..k - 1, metrics[j] \notin Advancing PROVE off[j] = off[j - 1]
    BY DEF Counted
  <2>1. metrics[j] = "MemRequest" /\ \A p \in DOMAIN data : Series(data, p, "MemRequest") = <<>>
    BY MisplacedBehindMemRequest DEF Want, Series
  <2>2. Width(data, metrics[j]) = 0
    <3>1. {0} \cup {Len(FirstSeries(data[p][metrics[j]])) : p \in DOMAIN data} = {0}
      BY <2>1 DEF Series
    <3>2. Max({0}) = 0
      BY DEF Max
    <3>3. QED
      BY <3>1, <3>2 DEF Width
  <2>3. j \in 1..Len(metrics) /\ Len(metrics) \in Nat
    BY MetricsTable DEF IsTable
  <2>4. Block(off, j, off[j - 1], Width(data, metrics[j]))
    BY <1>6, <2>3 DEF WrittenAt
  <2>5. Laid(metrics, off, header)
    BY <1>6, Zenon DEF WrittenAt
  <2>6. off[j] \in Nat /\ off[j - 1] \in Nat
    <3> HIDE DEF metrics, header
    <3>1. QED
      BY <2>3, <2>5, ColumnOfMetric
  <2>7. QED
    BY <2>2, <2>4, <2>6 DEF Block
<1>15. CASE row = whole.rows[r]
  <2>1. Same(row.cells, whole.rows[r].cells, off[k - 1], Width(data, m))
    BY <1>15 DEF Same
  <2>2. /\ ValuesOf(got) = values
        /\ TimesOf(got) = TimesFrom(header, off[k - 1], Len(Series(data, o, m)))
    <3>1. CameBack(Read(Advancing, metrics, header, row.cells, m), header,
                   Values(data, order[r], m), off[k - 1], Len(Series(data, order[r], m)))
      <4> DEFINE cells == row.cells
      <4>1. r \in DOMAIN order /\ Same(cells, whole.rows[r].cells, off[k - 1], Width(data, m))
        BY <1>10, <2>1
      <4>2. k \in 1..Len(metrics) /\ order \in OrdersOf(data)
        OBVIOUS
      <4> HIDE DEF cells, values, got, N, metrics, data, r
      <4>3. QED
        BY <1>1, <1>6, <1>18, <4>1, <4>2, IntactMetric DEF cells
    <3>2. order[r] = o
      BY <1>10
    <3> HIDE DEF got, header, values
    <3>3. QED
      BY <3>1, <3>2 DEF CameBack, got, header, values
  <2>3. Len(Series(data, o, m)) \in Nat
    <3>1. m \in ToSet(metrics)
      BY MetricsTable
    <3>2. QED
      BY <1>1, <1>12, <3>1, SeriesType
  <2>4. ASSUME AlignedIn(data, m) PROVE IsPrefix(TimesOf(got), TimesOf(Series(data, o, m)))
    <3> DEFINE L == Len(Series(data, o, m))
    <3>1. L \in Nat /\ L <= Len(Series(data, order[r], m))
      BY <1>10, <2>3
    <3> HIDE DEF L, got
    <3>2. IsPrefix(TimesFrom(header, off[k - 1], L), TimesOf(Series(data, order[r], m)))
      BY <1>1, <1>6, <1>10, <2>4, <3>1, TimesComeBack
    <3>3. QED
      BY <1>10, <2>2, <3>2 DEF L
  <2> HIDE DEF got
  <2>5. QED
    BY <1>11, <1>12, <2>2, <2>4
<1>16. CASE row # whole.rows[r]
  <2>1. r = n /\ row \in CutRow(whole.rows[r]) /\ writer.torn
    BY <1>3, <1>10, <1>16
  <2>2. whole.rows[r] = [owner |-> whole.rows[r].owner, cells |-> whole.rows[r].cells]
    BY <1>5, <1>10 DEF IsFile
  <2>3. Cut(row.cells, whole.rows[r].cells, N)
    BY <1>13, <1>14, <2>1, <2>2, CutRowRead
  <2>4. /\ \/ ValuesOf(got) = values
           \/ /\ Last(header).metric = m
              /\ ValuesOf(got) \in {Front(values), Append(Front(values), Garbled)}
        /\ \E l \in 0..Len(Series(data, o, m)) : TimesOf(got) = TimesFrom(header, off[k - 1], l)
    <3>1. CameBackCut(Read(Advancing, metrics, header, row.cells, m), header, m, Values(data, order[r], m),
                      off[k - 1], Len(Series(data, order[r], m)))
      <4> DEFINE cut == row.cells
      <4>1. r \in DOMAIN order
        BY <1>10
      <4>2. Cut(cut, whole.rows[r].cells, Len(whole.header))
        BY <2>3
      <4>3. k \in 1..Len(metrics) /\ order \in OrdersOf(data)
        OBVIOUS
      <4> HIDE DEF cut, values, got, N, metrics, data, r
      <4>4. QED
        BY <1>1, <1>6, <1>18, <4>1, <4>2, <4>3, CutMetric DEF cut
    <3>2. order[r] = o
      BY <1>10
    <3>3. CameBackCut(got, header, m, values, off[k - 1], Len(Series(data, o, m)))
      BY <3>1, <3>2
    <3> HIDE DEF got, header, values
    <3>4. QED
      BY <3>3, Zenon DEF CameBackCut
  <2>5. Last(file.rows).owner = o
    <3>1. DOMAIN file.rows = 1..n
      BY <1>3 DEF PartOf
    <3>2. Len(file.rows) = n
      BY <1>10, <3>1
    <3>3. QED
      BY <1>9, <2>1, <3>2 DEF Last
  <2>6. Last(header).metric = m => IsTornCell(o, m)
    BY <1>10, <2>1, <2>5 DEF IsTornCell
  <2>7. PICK l \in 0..Len(Series(data, o, m)) : TimesOf(got) = TimesFrom(header, off[k - 1], l)
    BY <2>4
  <2>8. ASSUME AlignedIn(data, m) PROVE IsPrefix(TimesOf(got), TimesOf(Series(data, o, m)))
    <3>1. l \in Nat /\ l <= Len(Series(data, order[r], m))
      <4>1. m \in ToSet(metrics)
        BY MetricsTable
      <4>2. Len(Series(data, o, m)) \in Nat
        BY <1>1, <1>12, <4>1, SeriesType
      <4>3. QED
        BY <1>10, <4>2
    <3> HIDE DEF got
    <3>2. IsPrefix(TimesFrom(header, off[k - 1], l), TimesOf(Series(data, order[r], m)))
      BY <1>1, <1>6, <1>10, <2>8, <3>1, TimesComeBack
    <3>3. QED
      BY <1>10, <2>7, <3>2
  <2> HIDE DEF got
  <2>9. QED
    BY <1>11, <1>12, <2>4, <2>6, <2>8
<1>17. QED
  BY <1>15, <1>16

(* Whatever the data source has answered, whichever of the runs before     *)
(* died or failed, and in whatever order the owners were written: a run    *)
(* that loads a checkpoint has the numbers and the times that the run had  *)
(* that wrote it, for the containers in all metrics, for the workloads in  *)
(* the first four, and in all if no requests of memory were fetched.       *)
THEOREM CheckpointsSurvive == Spec => []SeriesSurvive
<1>1. IInv => SeriesSurvive
  <2> SUFFICES ASSUME IInv, pc = "loaded" PROVE ValuesSurvive /\ TimesSurvive
    BY DEF SeriesSurvive
  <2>1. PICK file \in disk : IsReadable(file) /\ cache = Loaded(file)
    BY DEF IInv, LoadInv
  <2>2. DiskInv
    BY DEF IInv
  <2>3. \A o, m : Want(o, m) = Series(writer.data, o, m)
    BY DEF Want, Series
  <2>4. ASSUME NEW o \in DOMAIN cache, NEW m \in ToSet(Metrics), ~Misplaced(m)
        PROVE  LET values == Values(writer.data, o, m)
               IN  /\ o \in DOMAIN writer.data
                   /\ \/ ValuesOf(Got(o, m)) = values
                      \/ /\ IsTornCell(o, m)
                         /\ ValuesOf(Got(o, m)) \in {Front(values), Append(Front(values), Garbled)}
                   /\ AlignedIn(writer.data, m) =>
                        IsPrefix(TimesOf(Got(o, m)), TimesOf(Series(writer.data, o, m)))
    <3>1. PICK k \in 1..Len(Metrics) : m = Metrics[k]
      BY MetricsTable
    <3>2. QED
      BY <2>1, <2>2, <2>4, <3>1, MetricSurvives
  <2>5. ValuesSurvive
    <3> SUFFICES ASSUME NEW o \in DOMAIN cache
                 PROVE  /\ o \in DOMAIN writer.data
                        /\ \A m \in ToSet(Metrics) : ~Misplaced(m) =>
                             \/ ValuesOf(Got(o, m)) = Values(writer.data, o, m)
                             \/ /\ IsTornCell(o, m)
                                /\ ValuesOf(Got(o, m)) \in
                                     {Front(Values(writer.data, o, m)),
                                      Append(Front(Values(writer.data, o, m)), Garbled)}
      BY <2>3 DEF ValuesSurvive, Values
    <3>1. "CpuUsage" \in ToSet(Metrics) /\ ~Misplaced("CpuUsage")
      BY MetricsTable DEF Misplaced
    <3>2. QED
      BY <2>4, <3>1
  <2>6. TimesSurvive
    <3>1. \A m : Aligned(m) => AlignedIn(writer.data, m)
      BY <2>3 DEF Aligned, AlignedIn
    <3>2. QED
      BY <2>3, <2>4, <3>1 DEF TimesSurvive
  <2>7. QED
    BY <2>5, <2>6
<1>2. QED
  BY <1>1, OwnersAccountedFor, PTL
=============================================================================
