----------------------------- MODULE Kubeconfig -----------------------------
(***************************************************************************)
(* Which contexts an execution goes through: the choice of a kubeconfig    *)
(* and of the contexts in it.  The names of contexts are numbers, in the   *)
(* order in which strings are sorted.                                      *)
(***************************************************************************)
EXTENDS Integers
LOCAL INSTANCE SequencesExt

InCluster == -1     \* the name of the cluster a pod runs in
NoName == 0         \* the empty name

\* The flag, which the environment variable KUBECONFIG sets unless it is given,
\* be it as empty (config.go:67); then the token of a pod in a cluster, the
\* variable that an empty flag hid, and the home directory.
KubeconfigSource(has) ==
    IF "flag" \in has THEN "flag"
    ELSE IF "env" \in has /\ "empty-flag" \notin has THEN "env"
    ELSE IF "token" \in has /\ "not-in-cluster" \notin has THEN "in-cluster"
    ELSE IF "env" \in has THEN "env"
    ELSE IF "home" \in has THEN "home"
    ELSE "none"

contextNames(kubeconfig) == kubeconfig.names \ {NoName}

\* The current context, which is not looked for in the kubeconfig, or the one
\* that is selected, or all of them, sorted, but for the excluded ones.
ContextNames(kubeconfig, flags) ==
    IF flags.allContexts THEN SetToSortSeq(contextNames(kubeconfig) \ flags.excluded, <)
    ELSE IF flags.selected = NoName THEN <<kubeconfig.current>>
    ELSE <<flags.selected>>

\* An execution that cannot choose fails before it takes its time.
ChoiceFails(has, kubeconfig, flags) ==
    \/ KubeconfigSource(has) = "none"
    \/ /\ KubeconfigSource(has) # "in-cluster"
       /\ ~ flags.allContexts
       /\ flags.selected \notin contextNames(kubeconfig) \cup {NoName}

ContextsOf(has, kubeconfig, flags) ==
    IF KubeconfigSource(has) = "in-cluster" THEN <<InCluster>>
    ELSE ContextNames(kubeconfig, flags)

=============================================================================
