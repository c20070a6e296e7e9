----------------------------- MODULE Semaphore -----------------------------
(***************************************************************************)
(* What the in-flight limiter of the Prometheus client promises to its     *)
(* callers: a counting semaphore with Permits permits whose waiters are    *)
(* served first come, first served, and whose permits are handed over from *)
(* the caller that leaves to the one that waits longest.                   *)
(***************************************************************************)
EXTENDS Naturals, Sequences, FiniteSets

CONSTANTS Clients,  \* the callers
          Permits   \* how many of them may hold a permit at once

VARIABLES holders,  \* the callers that hold a permit
          queue     \* the callers that wait for one, the oldest first

semVars == <<holders, queue>>

Queued == {queue[i] : i \in DOMAIN queue}

Init == holders = {} /\ queue = <<>>

(* A caller takes a free permit, or queues up when there is none. *)
Acquire(c) ==
    /\ c \notin holders \cup Queued
    /\ IF Cardinality(holders) < Permits
       THEN holders' = holders \cup {c} /\ queue' = queue
       ELSE holders' = holders /\ queue' = Append(queue, c)

(* A caller returns its permit, which goes straight to the oldest waiter. *)
Release(c) ==
    /\ c \in holders
    /\ IF queue = <<>>
       THEN holders' = holders \ {c} /\ queue' = queue
       ELSE /\ holders' = (holders \ {c}) \cup {Head(queue)}
            /\ queue' = Tail(queue)

Next == \E c \in Clients : Acquire(c) \/ Release(c)

Spec == Init /\ [][Next]_semVars

(* Every holder gives its permit back. *)
FairSpec == Spec /\ \A c \in Clients : WF_semVars(Release(c))
=============================================================================
