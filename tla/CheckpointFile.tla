--------------------------- MODULE CheckpointFile ---------------------------
(***************************************************************************)
(* The tab-separated file in which the cost comparator keeps time series   *)
(* between two runs, pkg/cost-comparator/comparator.go: what is written of *)
(* the series of the owners (containers or workloads), what of it is on    *)
(* disk when the writer is interrupted, and what is read back.             *)
(*                                                                         *)
(* The data of an owner is, for each metric, the list of series that the   *)
(* data source returned; a series is a sequence of samples.  A cell is <<>> *)
(* for the text null and for a text that is no number, and <<v>> for the   *)
(* value v.  All the model knows of a value is which sample it belongs to  *)
(* and whether it has digits after the fifth decimal, which are not        *)
(* printed.                                                                *)
(***************************************************************************)
EXTENDS Naturals, Sequences, SequencesExt, FiniteSetsExt

ContainerMetrics ==
    <<"CpuUsage", "MemUsage", "CpuRequest", "MemRequest", "CpuLimit", "MemLimit">>
WorkloadMetrics == Append(ContainerMetrics, "Replicas")

NoData == [o \in {} |-> {}]
Printed(v) == [v EXCEPT !.fine = FALSE]       \* Float642Str
Garbled == [of |-> <<>>, fine |-> FALSE]      \* a number that has lost digits

(* One after the other, in loops that append: the sequences of a sequence, *)
(* and the members of S up to n.                                           *)
Joined(parts) ==
    LET upTo[k \in 0..Len(parts)] == IF k = 0 THEN <<>> ELSE upTo[k - 1] \o parts[k]
    IN  upTo[Len(parts)]
InOrder(S, n) ==
    LET upTo[j \in 0..n] ==
            IF j = 0 THEN <<>> ELSE IF j \in S THEN Append(upTo[j - 1], j) ELSE upTo[j - 1]
    IN  upTo[n]

----------------------------------------------------------------------------
(* Only the first series of a list is written. *)
FirstSeries(list) == IF list = <<>> THEN <<>> ELSE list[1]
Width(data, m) == Max({0} \cup {Len(FirstSeries(data[o][m])) : o \in DOMAIN data})

\* Mutant: the number of the column is taken for its time.
NumberOfColumn(data, order, m, i) == i
(* Each row that has an i-th sample stamps its time on the i-th column; the *)
(* last one stays.                                                         *)
ColumnTime(data, order, m, i) ==
    LET stamping == {k \in DOMAIN order : Len(FirstSeries(data[order[k]][m])) >= i}
    IN  FirstSeries(data[order[Max(stamping)]][m])[i].at
Columns(data, order, m) ==
    [i \in 1..Width(data, m) |-> [metric |-> m, at |-> ColumnTime(data, order, m, i)]]
Cells(data, o, m) ==
    LET samples == FirstSeries(data[o][m])
    IN  [i \in 1..Width(data, m) |->
            IF i <= Len(samples) THEN <<Printed(samples[i].value)>> ELSE <<>>]

(* The file for the rows in the order in which the maps are iterated. *)
Written(metrics, data, order) ==
    [header |-> Joined([k \in DOMAIN metrics |-> Columns(data, order, metrics[k])]),
     rows   |-> [r \in DOMAIN order |->
                   [owner |-> order[r],
                    cells |-> Joined([k \in DOMAIN metrics |->
                                            Cells(data, order[r], metrics[k])])]]]
ContainerDataCheckpoint(data, order) == Written(ContainerMetrics, data, order)
workloadTimeSeriesDataCheckpoint(data, order) == Written(WorkloadMetrics, data, order)

(* What may be on disk when the writer does not come to its end: part of   *)
(* the header, or the header, some rows, and part of the next row, whose   *)
(* last cell may have lost some of its digits.                             *)
CutCell(c) == IF c = <<>> THEN {<<>>} ELSE {<<>>, <<Garbled>>}
CutRow(row) ==
    {[row EXCEPT !.cells = SubSeq(@, 1, n)] : n \in 0..Len(row.cells) - 1}
    \cup {[row EXCEPT !.cells = Append(Front(@), c)] :
            c \in IF row.cells = <<>> THEN {} ELSE CutCell(Last(row.cells))}
LeftOnDisk(file) ==
    {[header |-> SubSeq(file.header, 1, n), rows |-> <<>>] : n \in 0..Len(file.header)}
    \cup {[file EXCEPT !.rows = SubSeq(@, 1, n)] : n \in 0..Len(file.rows)}
    \cup UNION {{[file EXCEPT !.rows = Append(SubSeq(@, 1, n - 1), row)] :
                    row \in CutRow(file.rows[n])} : n \in 1..Len(file.rows)}

----------------------------------------------------------------------------
(* csv.Reader refuses a record whose number of fields is not that of the   *)
(* first one; the loader then asks for more than four columns in all.      *)
Readable(file, fixed) ==
    /\ Len(file.header) + fixed > 4
    /\ \A r \in DOMAIN file.rows : Len(file.rows[r].cells) = Len(file.header)

ColumnsOf(header, m) ==
    LET found == InOrder({j \in DOMAIN header : header[j].metric = m}, Len(header))
    IN  [i \in DOMAIN found |-> header[found[i]]]

(* The columns of a metric whose cell, counted from the metric's offset,   *)
(* holds a number.                                                         *)
Filled(cells, from, n) ==
    LET found == InOrder({i \in 1..n : cells[from + i] # <<>>}, n)
    IN  [k \in DOMAIN found |-> [column |-> found[k], cell |-> from + found[k]]]

(* One row read back.  The offset of a metric is the number of columns of  *)
(* the metrics before it, as far as the loader adds them up.               *)
Offset(metrics, advancing, header, k) ==
    LET before == {metrics[j] : j \in 1..k - 1} \cap advancing
    IN  Cardinality({j \in DOMAIN header : header[j].metric \in before})
LoadRow(metrics, advancing, header, cells) ==
    [m \in ToSet(metrics) |->
        LET k == CHOOSE j \in DOMAIN metrics : metrics[j] = m
            columns == ColumnsOf(header, m)
            filled == Filled(cells, Offset(metrics, advancing, header, k), Len(columns))
        IN  <<[n \in DOMAIN filled |-> [at |-> columns[filled[n].column].at,
                                        value |-> cells[filled[n].cell][1]]]>>]
Load(metrics, advancing, file) ==
    [o \in {file.rows[r].owner : r \in DOMAIN file.rows} |->
        LET r == CHOOSE k \in DOMAIN file.rows : file.rows[k].owner = o
        IN  LoadRow(metrics, advancing, file.header, file.rows[r].cells)]

\* Mutant: one of the metrics is not added up.
ForgetsMemRequest(file) ==
    Load(ContainerMetrics, ToSet(ContainerMetrics) \ {"MemRequest"}, file)
LoadContainerTimeSeriesDataFromCheckpoint(file) ==
    Load(ContainerMetrics, ToSet(ContainerMetrics), file)

(* The loader of the workloads does not add the columns of MemRequest.     *)
LoadWorkloadTimeSeriesDataFromCheckpoint(file) ==
    Load(WorkloadMetrics, ToSet(WorkloadMetrics) \ {"MemRequest"}, file)
=============================================================================
