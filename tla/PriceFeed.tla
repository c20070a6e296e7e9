----------------------------- MODULE PriceFeed -----------------------------
(***************************************************************************)
(* What the price cache of the Tencent Cloud provider promises to those    *)
(* who read it, whatever calls it is made of, whichever of them fail, and  *)
(* whatever changes meanwhile.  It goes through rounds.  A round either    *)
(* comes to nothing or changes the cache at once: what it writes is        *)
(* recent, that is, a configuration the instance has had since the round   *)
(* began with a price this configuration has had since then, and it takes  *)
(* away the entries of those instances, and only those, that were not      *)
(* listed when it began.  The first round has to succeed.                  *)
(***************************************************************************)
CONSTANTS
    Instances,  \* the ids of the instances there may ever be
    Offers,     \* the configurations an instance may have
    Prices      \* the prices an offer may have

VARIABLES
    nodes,      \* the instances behind the nodes of the cluster
    configOf,   \* the cloud: the configuration of each existing instance
    tariff,     \* the cloud: the price of each offer
    round,      \* "none", "open", or "gone" when the first one has failed
    warm,       \* has a round succeeded?
    listed,     \* the nodes as they were when the round began
    since,      \* the facts about the cloud that held since then
    instances   \* the cache: the price of each instance known

cloud == <<nodes, configOf, tariff>>
feedVars == <<nodes, configOf, tariff, round, warm, listed, since, instances>>

Nothing == [i \in {} |-> {}]
NoFacts == [configs |-> {}, prices |-> {}]
Entries == [offer : Offers, price : Prices]
PartialFunctions(D, R) == UNION {[E -> R] : E \in SUBSET D}

(* The facts about the cloud that hold now. *)
Facts == [configs |-> {<<i, configOf[i]>> : i \in DOMAIN configOf},
          prices  |-> {<<o, tariff[o]>> : o \in Offers}]
Together(f, g) == [configs |-> f.configs \cup g.configs,
                   prices  |-> f.prices \cup g.prices]

Init ==
    /\ nodes \in SUBSET Instances
    /\ configOf \in [Instances -> Offers]
    /\ tariff \in [Offers -> Prices]
    /\ round = "none"
    /\ warm = FALSE
    /\ listed = {}
    /\ since = NoFacts
    /\ instances = Nothing

BeginRound ==
    /\ round = "none"
    /\ round' = "open"
    /\ listed' = nodes
    /\ since' = Facts
    /\ UNCHANGED <<cloud, warm, instances>>

RoundIsOver ==
    /\ round = "open"
    /\ listed' = {}
    /\ since' = NoFacts
    /\ UNCHANGED cloud

Abandon ==
    /\ RoundIsOver
    /\ round' = IF warm THEN "none" ELSE "gone"
    /\ UNCHANGED <<warm, instances>>

IsRecent(i, entry) ==
    /\ <<i, entry.offer>> \in since.configs
    /\ <<entry.offer, entry.price>> \in since.prices

IsUpdate(cache) ==
    /\ DOMAIN instances \cap listed \subseteq DOMAIN cache
    /\ \A i \in DOMAIN cache :
          \/ i \in DOMAIN instances /\ cache[i] = instances[i]
          \/ IsRecent(i, cache[i])

Publish ==
    /\ RoundIsOver
    /\ round' = "none"
    /\ warm' = TRUE
    /\ instances' \in PartialFunctions(listed, Entries)
    /\ IsUpdate(instances')

(* Nodes come and go, instances are modified or terminated, offers are     *)
(* repriced.                                                               *)
NodesChange == nodes' \in SUBSET Instances /\ UNCHANGED <<configOf, tariff>>
InstancesChange ==
    configOf' \in PartialFunctions(DOMAIN configOf, Offers) /\ UNCHANGED <<nodes, tariff>>
TariffChanges == tariff' \in [Offers -> Prices] /\ UNCHANGED <<nodes, configOf>>

CloudChanges ==
    /\ NodesChange \/ InstancesChange \/ TariffChanges
    /\ since' = IF round = "open" THEN Together(since, Facts') ELSE since
    /\ UNCHANGED <<round, warm, listed, instances>>

Round == BeginRound \/ Abandon \/ Publish
Next == Round \/ CloudChanges
Spec == Init /\ [][Next]_feedVars

(* A round is complete when it has a recent entry for every node listed.   *)
(* While no node without an instance is listed, some round is, sooner or   *)
(* later.                                                                  *)
CanComplete ==
    round = "open" /\ \A i \in listed : \E o \in Offers : <<i, o>> \in since.configs
PublishComplete ==
    Publish /\ \A i \in listed : i \in DOMAIN instances' /\ IsRecent(i, instances'[i])

GoesOn == []<><<Round>>_feedVars \/ <>[](round = "gone")
Completes == []<>CanComplete => []<><<PublishComplete>>_feedVars
FairSpec == Spec /\ GoesOn /\ Completes
=============================================================================
