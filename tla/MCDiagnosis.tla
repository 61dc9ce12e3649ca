---------------------------- MODULE MCDiagnosis ----------------------------
(***************************************************************************)
(* One cluster with a pod that has two messages and an event like the      *)
(* second, a node with a message and an event, and an entity of another    *)
(* kind with an event.  The events of nodes live in a namespace.  A third       *)
(* namespace is filtered out.                                              *)
(***************************************************************************)
EXTENDS Diagnosis, TLC

CONSTANTS c1, ns1, ns2, ns3, pod, node, job, p1, p2, pe, n1, ne, je

MCCluster == {c1}
MCEntity == {pod, node, job}
MCKey == {p1, p2, pe, n1, ne, je}
MCClusterOf == [e \in MCEntity |-> c1]
MCEntityOf == p1 :> pod @@ p2 :> pod @@ pe :> pod @@ n1 :> node @@ ne :> node @@ je :> job
MCSimilar == {<<p1, p2>>, <<p2, p1>>, <<p2, pe>>, <<pe, p2>>}
MCEvent == {pe, ne, je}
MCInspected == {pod, node}
MCKindOf == pod :> "Pod" @@ node :> "Node" @@ job :> "Other"
MCNamespace == {ns1, ns2, ns3}
MCNamespaceOf ==
    [x \in MCEntity \cup MCEvent |-> IF x \in {job, je} THEN ns2 ELSE ns1]

=============================================================================
