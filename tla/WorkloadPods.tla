------------------------------ MODULE WorkloadPods ------------------------------
(***************************************************************************)
(* Which pods are those of a workload?  The comparator has two answers:    *)
(* it finds workloads by following the owner references of the pods, and   *)
(* it finds their usage by name, with a query for the series of all pods   *)
(* whose name begins with that of the workload.                            *)
(*                                                                         *)
(* A name is a sequence of parts, dashes among them, so that web-api is    *)
(* <<"web", "-", "api">>.                                                  *)
(***************************************************************************)
EXTENDS Naturals, Sequences, SequencesExt

(* The owners on the way up from a pod, the last one its workload. *)
Owners(kind) == CASE kind = "Pod" -> <<>>
                  [] kind = "Deployment" -> <<"ReplicaSet", "Deployment">>
                  [] OTHER -> <<kind>>

(* How controllers name pods: the pod of its own is called what it is      *)
(* called, all others after their owner, with a suffix for each step down. *)
PodName(name, kind) ==
    name \o [k \in 1..(2 * Len(Owners(kind))) |-> IF k % 2 = 1 THEN "-" ELSE "hash"]

(* FindRootOwner reads owner after owner; one that cannot be read, because *)
(* it was deleted meanwhile, or because of the API server, ends the walk.  *)
FindRootOwner(kind, unreadable) == ToSet(Owners(kind)) \cap unreadable = {}

(* The kind of what the walk ends with.  An owner that was read has one;   *)
(* the pods in the informer's cache, with which the walk begins, do not.   *)
RootKind(kind) == IF Owners(kind) = <<>> THEN "" ELSE kind

(* FetchReplicas, which asks for the daemon set or for the scale of others, *)
(* is spared to pods; but there is no such root, and no resource to ask    *)
(* for where there is no kind.                                             *)
AsksForReplicas(kind) == RootKind(kind) # "Pod"
HasReplicas(kind) == RootKind(kind) # ""

(* The queries for the usage of a container, pod=~"^name.*$". *)
Selected(name, podName) == IsPrefix(name, podName)
=============================================================================
