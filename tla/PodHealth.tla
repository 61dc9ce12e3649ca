----------------------------- MODULE PodHealth -----------------------------
(***************************************************************************)
(* podState of internal/diag/state.go: which messages a pod gets, from its *)
(* status and the time of day.  A message is named by what it is about;    *)
(* its wording, and the temporal parts that the store strips, are left     *)
(* out.  The pod is one whose status does not change any more; time goes   *)
(* on, so that each period of grace passes.                                *)
(***************************************************************************)
EXTENDS Integers

CONSTANTS
    MaxTime,            \* bound of the clock
    Minute,             \* a minute, in units of the clock; a unit exceeds a second
    CreationGrace, StartingGrace, TerminationGrace, \* pod-...-grace-sec
    RestartGraceCount,  \* pod-restart-grace-count
    None,               \* an optional field that is not set
    Statuses            \* the container statuses to look at

Time == 0..MaxTime

WaitingReasons ==
    {"ContainerCreating", "PodInitializing", "CrashLoopBackOff", "ImagePullBackOff"}

ContainerStatus ==
    [name : {"init", "main"},
     state : {"running", "waiting", "terminated"},
     reason : WaitingReasons \cup {"unset", "Completed", "Error"},
     finished : Time \cup {None},
     restarts : Nat,
     lastFinished : Time \cup {None}]   \* LastTerminationState

OfName(name) == {c \in Statuses : c.name = name}

\* The instants of a pod are fixed and those of its containers and of the
\* clock vary around them.  There is at most one container of each sort.
Pod ==
    [phase : {"Pending", "Running", "Succeeded", "Failed", "Unknown"},
     reason : BOOLEAN,                  \* whether Status.Reason is set
     created : {0},
     started : {1, None},
     deleted : {2, None},
     deletionGrace : {0, None},
     unmet : BOOLEAN,                   \* whether some condition is not True
     init : {{}} \cup {{c} : c \in OfName("init")},
     main : {{}} \cup {{c} : c \in OfName("main")}]

ASSUME PodHealthAssumption ==
    /\ {MaxTime, Minute, CreationGrace, StartingGrace, TerminationGrace,
        RestartGraceCount} \subseteq Nat
    /\ None \notin Int
    /\ Statuses \subseteq ContainerStatus
    /\ \A c \in Statuses : c.state = "terminated" => c.finished # None

-----------------------------------------------------------------------------
(* Containers *)

\* Slip: the comparison of the two periods is turned.
SlipTurnedComparison(now, created, problem, started) ==
    LET healthyPeriod == now - started
        problemPeriod == problem - created
    IN  /\ problemPeriod >= 1
        /\ healthyPeriod < Minute \/ healthyPeriod > 5 * problemPeriod

\* The troubled time of a pod weighs until it has been up five times as long.
isPodExcessiveRestartProblem(now, created, problem, started) ==
    LET healthyPeriod == now - started
        problemPeriod == problem - created
    IN  /\ problemPeriod >= 1
        /\ healthyPeriod < Minute \/ healthyPeriod < 5 * problemPeriod

ignoreWaitingReasons ==
    {"CrashLoopBackOff", "Completed", "ContainerCreating", "PodInitializing"}

terminatedBadly(c) == c.state = "terminated" /\ c.reason # "Completed"

startingGracePassed(pod, now) == now - pod.created >= StartingGrace

waitingToCreate(pod, c, now) ==
    c.state = "waiting" /\ c.reason = "ContainerCreating" /\ startingGracePassed(pod, now)

waitingToInitialize(pod, c, now) ==
    c.state = "waiting" /\ c.reason = "PodInitializing" /\ startingGracePassed(pod, now)

\* An init container's restarts count only while it is in trouble.
restartsCount(c) ==
    /\ c.restarts > RestartGraceCount
    /\ c.name = "init" => terminatedBadly(c) \/ c.state = "waiting"

runProblems(c) == terminatedBadly(c) \/ c.state = "waiting" \/ restartsCount(c)

problemTimestamp(pod, c) ==
    IF c.lastFinished # None THEN c.lastFinished
    ELSE IF pod.started # None THEN pod.started ELSE pod.created

excessiveRestarts(pod, c, now) ==
    /\ restartsCount(c)
    /\ pod.started # None =>
        isPodExcessiveRestartProblem(now, pod.created, problemTimestamp(pod, c), pod.started)

\* Slip: the grace after a termination ends the alarm instead of delaying it.
SlipTerminationGrace(c, now) == terminatedBadly(c) /\ now - c.finished < TerminationGrace

terminationTold(c, now) == terminatedBadly(c) /\ now - c.finished >= TerminationGrace

waitingTold(c) == c.state = "waiting" /\ c.reason \notin ignoreWaitingReasons

checkContainerStatus(pod, c, now) ==
    {<<c.name, what>> : what \in
        (IF terminationTold(c, now) THEN {"terminated"} ELSE {})
        \cup (IF waitingTold(c) THEN {"waiting"} ELSE {})
        \cup (IF excessiveRestarts(pod, c, now) THEN {"restarted"} ELSE {})}

-----------------------------------------------------------------------------
(* Pods *)

\* The containers proper are looked at only if no init container is in trouble.
Checked(pod) ==
    pod.init \cup (IF \E c \in pod.init : runProblems(c) THEN {} ELSE pod.main)

\* One message for all containers that are still being created, or else for
\* those that are still initializing.
pendingMessages(pod, now) ==
    IF \E c \in Checked(pod) : waitingToCreate(pod, c, now) THEN {<<"pod", "creating">>}
    ELSE IF \E c \in Checked(pod) : waitingToInitialize(pod, c, now)
         THEN {<<"pod", "initializing">>}
    ELSE {}

\* Slip: a pod without a failed condition is never told to be in its phase.
SlipConditionsOnly(pod, now) == IF pod.unmet THEN {<<"pod", "condition">>} ELSE {}

\* What is said of a pod that does not run when nothing else explains it.
conditionMessages(pod, now) ==
    IF pod.unmet THEN {<<"pod", "condition">>}
    ELSE IF pod.phase # "Pending" \/ startingGracePassed(pod, now)
         THEN {<<"pod", "phase">>}
    ELSE {}

valueOrDefault(optional, default) == IF optional # None THEN optional ELSE default

\* The status reason, else the overdue deletion, else the phase.
statusMessages(pod, now) ==
    IF pod.reason THEN {<<"pod", "reason">>}
    ELSE IF pod.deleted # None
         THEN IF now - pod.deleted > valueOrDefault(pod.deletionGrace, TerminationGrace)
              THEN {<<"pod", "terminating">>} ELSE {}
    ELSE IF pod.phase \notin {"Running", "Pending"} THEN {<<"pod", "phase">>}
    ELSE {}

checkContainerStatuses(pod, now) ==
    LET said == statusMessages(pod, now) \cup pendingMessages(pod, now)
                \cup UNION {checkContainerStatus(pod, c, now) : c \in Checked(pod)}
    IN  IF /\ pod.phase # "Running"
           /\ \A c \in Checked(pod) : ~ runProblems(c)
           /\ said = {}
        THEN conditionMessages(pod, now)
        ELSE said

podState(pod, now) ==
    IF \/ pod.phase = "Succeeded"
       \/ now - valueOrDefault(pod.started, pod.created) < CreationGrace
    THEN {}
    ELSE checkContainerStatuses(pod, now)

-----------------------------------------------------------------------------

VARIABLES pod, now

vars == <<pod, now>>

\* A status does not report what is still to come.
Init ==
    /\ pod \in Pod
    /\ pod.deleted = None => pod.deletionGrace = None
    /\ now \in Time
    /\ {pod.created, pod.started, pod.deleted} \cap (now + 1)..MaxTime = {}
    /\ \A c \in pod.init \cup pod.main :
        {c.finished, c.lastFinished} \cap (now + 1)..MaxTime = {}

Tick ==
    /\ now < MaxTime
    /\ now' = now + 1
    /\ UNCHANGED pod

Spec == Init /\ [][Tick]_vars

-----------------------------------------------------------------------------
(* Properties *)

\* A container in back-off between restarts that are not counted yet says
\* nothing, and keeps the pod's conditions from being told (state.go:105, 192).
BacksOff(c) ==
    /\ c.reason \in ignoreWaitingReasons \ {"ContainerCreating", "PodInitializing"}
    /\ c.state = "waiting"

\* No pod is silently stuck: when it neither runs nor has succeeded, and every
\* period of grace is over, it gets a message, unless a container backs off or
\* has restarts behind it that are forgiven.
StuckIsTold ==
    /\ pod.phase \notin {"Running", "Succeeded"}
    /\ now - valueOrDefault(pod.started, pod.created) >= CreationGrace
    /\ startingGracePassed(pod, now)
    /\ \A c \in pod.init \cup pod.main :
        /\ c.state = "terminated" => now - c.finished >= TerminationGrace
        /\ ~ BacksOff(c)
        /\ c.restarts <= RestartGraceCount
    => podState(pod, now) # {}

\* Time alone never silences a pod that is told, but for its restarts: the
\* messages that take over when a period of grace ends are there by then.
AlarmPersists ==
    [][podState(pod, now) # {} /\ podState(pod, now)' = {} =>
        podState(pod, now) \subseteq {<<"init", "restarted">>, <<"main", "restarted">>}]_vars

\* Restarts that are forgiven stay forgiven until there are new ones.
ForgivenStaysForgiven ==
    [][\A c \in pod.init \cup pod.main :
        pod.started # None /\ ~ excessiveRestarts(pod, c, now)
            => ~ excessiveRestarts(pod, c, now)']_vars

=============================================================================
