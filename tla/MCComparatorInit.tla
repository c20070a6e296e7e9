-------------------------- MODULE MCComparatorInit --------------------------
(* ComparatorInit for TLC: two owners.  The first has a sample of each     *)
(* metric at times 1 and 2, or two series of usage; the second the same,   *)
(* or began later, or has usage without requests and limits, or nothing.   *)
EXTENDS ComparatorInit

CONSTANTS old, young

MCOwners == {old, young}

SeriesOf(o, m, times) ==
    [i \in DOMAIN times |-> [at |-> times[i], value |-> [of |-> <<o, m, i>>, fine |-> i = 1]]]
IsUsage(m) == m \in {"CpuUsage", "MemUsage"}
Whole(o) == [m \in ToSet(Metrics) |-> <<SeriesOf(o, m, <<1, 2>>)>>]
TwoOfUsage(o) ==
    [m \in ToSet(Metrics) |->
        IF IsUsage(m) THEN <<SeriesOf(o, m, <<1>>), SeriesOf(o, m, <<1, 2>>)>>
                      ELSE <<SeriesOf(o, m, <<2>>)>>]
Late(o) == [m \in ToSet(Metrics) |-> <<SeriesOf(o, m, <<2>>)>>]
UsageOnly(o) ==
    [m \in ToSet(Metrics) |-> IF IsUsage(m) THEN <<SeriesOf(o, m, <<1>>)>> ELSE <<>>]
Unknown(o) == [m \in ToSet(Metrics) |-> <<>>]

MCSamples ==
    [at : {1, 2}, value : [of : MCOwners \X ToSet(Metrics) \X {1, 2}, fine : BOOLEAN]]
MCAnswers == [o \in MCOwners |->
    IF o = old THEN {Whole(o), TwoOfUsage(o)}
               ELSE {Whole(o), Late(o), UsageOnly(o), Unknown(o)}]
=============================================================================
