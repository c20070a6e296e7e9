---------------------------- MODULE WindowShards ----------------------------
(***************************************************************************)
(* How pkg/datasource-providers/prom/ctx.go cuts a range query into shards *)
(* that stay below the server's limit of points per series, and how it     *)
(* merges two pieces of one series.  Times are whole seconds; a sample is  *)
(* its timestamp.                                                          *)
(***************************************************************************)
EXTENDS Integers, SequencesExt

(* The smaller of two times. *)
Earlier(a, b) == IF a <= b THEN a ELSE b

(* The instants at which Prometheus evaluates a range query. *)
Points(w) == {t \in w.start..w.end : (t - w.start) % w.step = 0}

(* The counting loop at the head of ComputeWindowShards. *)
possiblePoints(w) ==
    IF w.start > w.end THEN 0 ELSE (w.end - w.start) \div w.step + 1

RoundDown(w, limit) == possiblePoints(w) \div limit   \* mutant: no partial shard
shardsNum(w, limit) ==
    IF possiblePoints(w) % limit > 0
    THEN possiblePoints(w) \div limit + 1
    ELSE possiblePoints(w) \div limit

(* Where e stands after i rounds of the loop: width further each time, but *)
(* never past the end of the window.                                       *)
FullWidth(w, limit, i) ==                             \* mutant: limit steps wide
    Earlier(w.start + i * limit * w.step, w.end)
shardBound(w, limit, i) ==
    Earlier(w.start + i * (limit - 1) * w.step, w.end)

(* The i-th shard starts where the one before it ends. *)
ComputeWindowShards(w, limit) ==
    [i \in 1..shardsNum(w, limit) |->
        [start |-> shardBound(w, limit, i - 1),
         end   |-> shardBound(w, limit, i),
         step  |-> w.step]]

----------------------------------------------------------------------------
(* The elements of a sequence that are in a set, in their order. *)
Among(s, S) ==
    LET among[n \in 0..Len(s)] ==
            IF n = 0 THEN <<>>
            ELSE IF s[n] \in S THEN Append(among[n - 1], s[n]) ELSE among[n - 1]
    IN  among[Len(s)]

(* The two-finger walk over two sorted pieces, the first piece going first *)
(* on a tie; what is left of either piece is appended.  The fingers are at *)
(* at[1] and at[2].                                                        *)
Walk(s1, s2) ==
    LET n1 == Len(s1)
        n2 == Len(s2)
        from[at \in (1..n1 + 1) \X (1..n2 + 1)] ==
            IF at[1] > n1 THEN SubSeq(s2, at[2], n2)
            ELSE IF at[2] > n2 THEN SubSeq(s1, at[1], n1)
            ELSE IF s1[at[1]] <= s2[at[2]]
                 THEN <<s1[at[1]]>> \o from[<<at[1] + 1, at[2]>>]
                 ELSE <<s2[at[2]]>> \o from[<<at[1], at[2] + 1>>]
    IN  from[<<1, 1>>]

(* A timestamp equal to the last one taken is dropped. *)
KeepRepeats(s) == s                                   \* mutant: duplicates stay
IsNew(s, k) == k = 1 \/ s[k] # s[k - 1]
DropRepeats(s) ==
    LET taken == Among([k \in 1..Len(s) |-> k], {k \in 1..Len(s) : IsNew(s, k)})
    IN  [n \in 1..Len(taken) |-> s[taken[n]]]

MergeSortedTimeSeries(s1, s2) == DropRepeats(Walk(s1, s2))
=============================================================================
