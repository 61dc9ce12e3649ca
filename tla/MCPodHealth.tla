---------------------------- MODULE MCPodHealth ----------------------------
(***************************************************************************)
(* Pods with at most one init container and one container.  A unit of the  *)
(* clock is half a minute; the periods of grace are short, so that each    *)
(* ends before the others in some behaviour, and the clock runs for long   *)
(* enough for restarts to be forgiven.  A resource of a node is one it does *)
(* not have, one in use up to the threshold, or one beyond it.             *)
(***************************************************************************)
EXTENDS EntityHealth

Status(name, state, reason, finished, restarts, last) ==
    [name |-> name, state |-> state, reason |-> reason, finished |-> finished,
     restarts |-> restarts, lastFinished |-> last]

StatusesOf(name) ==
    {Status(name, "running", "unset", None, n, l) : n \in {0, 2}, l \in {None, 1}}
    \cup {Status(name, "waiting", r, None, n, l) :
            r \in WaitingReasons, n \in {0, 2}, l \in {None, 1}}
    \cup {Status(name, "terminated", r, f, n, None) :
            r \in {"Completed", "Error"}, f \in {1, 3}, n \in {0, 2}}

MCStatuses ==
    {s \in StatusesOf("init") \cup StatusesOf("main") :
        s.restarts = 0 => s.lastFinished = None}

Amount(allocatable, capacity) == [allocatable |-> allocatable, capacity |-> capacity]

MCQuantities == {Amount(0, 0), Amount(2, 10), Amount(1, 10)}

=============================================================================
