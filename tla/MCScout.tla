------------------------------ MODULE MCScout ------------------------------
(***************************************************************************)
(* Two clusters.  In the first a pod has three messages of which the       *)
(* second is similar to both others, and an event; in the second cluster   *)
(* an entity of another kind is known by an event alone.  Both are named   *)
(* in the kubeconfig of the environment, with a third context that is      *)
(* excluded and one without a name; the small instances run in their only  *)
(* cluster.                                                                *)
(***************************************************************************)
EXTENDS ScoutLog, Kubeconfig, Similarity, TLC

CONSTANTS c1, c2, pod, job, m1, m2, m3, e1, e2

MCCluster == {c1, c2}
MCEntity == {pod, job}
MCClusterOf == (pod :> c1) @@ (job :> c2)
MCKey == {m1, m2, m3, e1, e2}
MCEntityOf == [k \in MCKey |-> IF k = e2 THEN job ELSE pod]

\* Two messages may differ in one letter of four, and the first and the third of
\* the pod's differ in two.
Text(k) ==
    CASE k = m1 -> <<"x", "x", "x", "x">>
      [] k = m2 -> <<"x", "x", "x", "y">>
      [] k = m3 -> <<"x", "x", "y", "y">>
      [] OTHER -> <<"z", "z", "z", "z">>

Alike(j, k) ==
    /\ j # k
    /\ MCEntityOf[j] = MCEntityOf[k]
    /\ AreSimilar(Text(j), Text(k), similarityThreshold)

SimilarIn(keys) == {p \in keys \X keys : Alike(p[1], p[2])}

MCSimilar == {<<m1, m2>>, <<m2, m1>>, <<m2, m3>>, <<m3, m2>>}

\* The relation of the instances is that of dedup.go on these texts.
ASSUME SimilarityAssumption == MCSimilar = SimilarIn(MCKey)

Words == UNION {[1..n -> {"x", "y"}] : n \in 0..2}

\* The distance is one in the sense of geometry, on short words; the lines of
\* dedup_test.go that compare a letter with nothing hold.
ASSUME DistanceAssumption ==
    /\ \A a, b \in Words : /\ Distance(a, b) = Distance(b, a)
                          /\ Distance(a, b) = 0 <=> a = b
                          /\ \A c \in Words :
                                Distance(a, c) <= Distance(a, b) + Distance(b, c)
    /\ AreSimilar(<<>>, <<>>, 100)
    /\ AreSimilar(<<"x">>, <<>>, 0)
    /\ ~ AreSimilar(<<"x">>, <<>>, 10) /\ ~ AreSimilar(<<>>, <<"x">>, 10)

MCEvent == {e1, e2}
MCInspected == {pod}

Clusters == (1 :> c1) @@ (2 :> c2) @@ (InCluster :> c1)
Named(names) == [i \in DOMAIN names |-> Clusters[names[i]]]
Kconf == [names |-> 0..3, current |-> 3]
AllButTheThird == [allContexts |-> TRUE, selected |-> NoName, excluded |-> {3}]

\* In a pod, KUBECONFIG wins over the token of the cluster unless an empty flag
\* hides it; neither the instances with the variable nor those without it fail to
\* choose.
ASSUME ChoiceAssumption ==
    /\ KubeconfigSource({"empty-flag", "env", "token"}) = "in-cluster"
    /\ ~ ChoiceFails({"env", "token", "home"}, Kconf, AllButTheThird)
    /\ ~ ChoiceFails({"token", "home"}, Kconf, AllButTheThird)

MCContexts == Named(ContextsOf({"env", "token", "home"}, Kconf, AllButTheThird))
MCPersisting == {m2}

\* Two clusters, a pod with two messages in the first and an event in the second.
PairKey == {m1, m2, e2}
PairEntity == MCEntity
PairCluster == MCCluster
PairClusterOf == MCClusterOf
PairEntityOf == [k \in PairKey |-> MCEntityOf[k]]
PairSimilar == {<<m1, m2>>, <<m2, m1>>}
PairEvent == {e2}
PairInspected == MCInspected
PairContexts == MCContexts
PairPersisting == MCPersisting

\* One pod with two messages of its own.
SmallKey == {m1, m2}
SmallEntity == {pod}
SmallCluster == {c1}
SmallClusterOf == pod :> c1
SmallEntityOf == [k \in SmallKey |-> pod]
SmallSimilar == {<<m1, m2>>, <<m2, m1>>}
SmallEvent == {}
SmallInspected == {pod}
SmallContexts == Named(ContextsOf({"token", "home"}, Kconf, AllButTheThird))
SmallPersisting == {m1}

=============================================================================
