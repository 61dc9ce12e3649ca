------------------------------- MODULE Sinks -------------------------------
(***************************************************************************)
(* Reporting to several sinks: MultiSink.Report goes through its sinks one *)
(* by one, and Scout makes of its answer what it makes of any sink's.      *)
(* Module Scout takes the report as one step with three outcomes; here it  *)
(* is a step for each sink, so that an execution can be killed between two *)
(* of them, and each sink has a record of its own of what it heard.        *)
(*                                                                         *)
(* A sink prints (console, JSON, YAML) and cannot fail, or posts to a web  *)
(* hook over the one http.DefaultClient of the process.  A sink with a     *)
(* transport getter of its own sets the transport of that client, and      *)
(* leaves it set for whoever posts next.  The client has no timeout: a     *)
(* hook that never answers holds the execution until it is killed.         *)
(***************************************************************************)
EXTENDS Scout

CONSTANTS
    Sink,       \* the sinks of a MultiSink
    Order,      \* the sequence in which it holds them
    Web,        \* those that post
    OwnGetter,  \* those of them with a transport getter
    Unreliable, \* those whose hook, transport or callback may fail at any time
    Silent,     \* those whose hook, transport or callback may never return
    Default     \* the transport of a client nobody has touched

ASSUME SinkAssumption ==
    /\ Order \in Seq(Sink)
    /\ \A s \in Sink : \E i \in 1..Len(Order) : Order[i] = s
    /\ OwnGetter \subseteq Web
    /\ Web \subseteq Sink
    /\ Unreliable \subseteq Web
    /\ Silent \subseteq Web
    /\ Default \notin Sink

VARIABLES
    heard,      \* <<message, instant of its run>> of every alert a sink got
    turn,       \* the index of the sink an execution reports to
    refusers,   \* the sinks whose errors are aggregated
    transport   \* the transport of the process's http.DefaultClient

sinkVars == <<heard, turn, refusers, transport>>

SinkTypeOK ==
    /\ heard \in [Sink -> SUBSET (Key \X Time)]
    /\ turn \in [Run -> 1..(Len(Order) + 1)]
    /\ refusers \in [Run -> SUBSET Sink]
    /\ transport \in [Run -> OwnGetter \cup {Default}]
    /\ \A r \in Run : pc[r] # "report" => turn[r] = 1 /\ refusers[r] = {}

SinkInit ==
    /\ Init
    /\ heard = [s \in Sink |-> {}]
    /\ turn = [r \in Run |-> 1]
    /\ refusers = [r \in Run |-> {}]
    /\ transport = [r \in Run |-> Default]

-----------------------------------------------------------------------------

Turn(r) == Order[turn[r]]

\* The loop is at a sink, and goes on to the next whatever comes of it.
Reporting(r) ==
    /\ pc[r] = "report"
    /\ turn[r] <= Len(Order)
    /\ turn' = [turn EXCEPT ![r] = turn[r] + 1]
    /\ UNCHANGED vars

Hears(s, r) == heard' = [heard EXCEPT ![s] = heard[s] \cup (alerts[r] \X {now[r]})]

\* Slip: a transport that is set is taken for the sink's own.
SlipFirstGetterStays(s, r) ==
    IF s \in OwnGetter /\ transport[r] = Default THEN s ELSE transport[r]

\* The transport that a post of sink s goes over, and stays for the next.
Route(s, r) == IF s \in OwnGetter THEN s ELSE transport[r]

SetTransport(r, t) == transport' = [transport EXCEPT ![r] = t]

\* Slip: only the error of the last sink is returned.
SlipLastErrorOnly(r) ==
    /\ Reporting(r)
    /\ Hears(Turn(r), r)
    /\ refusers' = [refusers EXCEPT ![r] = {}]
    /\ SetTransport(r, Route(Turn(r), r))

SinkAcknowledges(r) ==
    /\ Reporting(r)
    /\ Hears(Turn(r), r)
    /\ SetTransport(r, Route(Turn(r), r))
    /\ UNCHANGED refusers

\* Slip: the loop ends at the first sink that fails.
SlipStopsAtFirst(r) ==
    /\ pc[r] = "report"
    /\ turn[r] <= Len(Order)
    /\ turn' = [turn EXCEPT ![r] = Len(Order) + 1]
    /\ refusers' = [refusers EXCEPT ![r] = refusers[r] \cup {Turn(r)}]
    /\ UNCHANGED vars

\* The error of the sink whose turn it is joins the others.
Refuses(r) ==
    /\ Reporting(r)
    /\ refusers' = [refusers EXCEPT ![r] = refusers[r] \cup {Turn(r)}]

\* The request cannot be customised, or the getter has no transport to give.
SinkFailsToPost(r) ==
    /\ Refuses(r)
    /\ Turn(r) \in Unreliable
    /\ \/ UNCHANGED transport
       \/ Turn(r) \in OwnGetter /\ SetTransport(r, Default)
    /\ UNCHANGED heard

\* The post fails, is answered with an error code, or its answer is refused: the
\* hook may have got it all the same.
SinkPostFails(r) ==
    /\ Refuses(r)
    /\ Turn(r) \in Web
    /\ {Turn(r), Route(Turn(r), r)} \cap Unreliable # {}
    /\ SetTransport(r, Route(Turn(r), r))
    /\ Hears(Turn(r), r) \/ UNCHANGED heard

\* Whether the report got out to any sink, if they heard as much as h.
Out(r, h) == \E s \in Sink : alerts[r] \X {now[r]} \subseteq h[s]

\* Slip: one sink that got the report is enough.
SlipAnySuffices(r) ==
    /\ pc[r] = "report"
    /\ turn[r] = Len(Order) + 1
    /\ IF Out(r, heard) THEN Report(r) ELSE ReportFails(r)
    /\ turn' = [turn EXCEPT ![r] = 1]
    /\ refusers' = [refusers EXCEPT ![r] = {}]
    /\ UNCHANGED <<heard, transport>>

\* Slip: the errors of one report are still there in the next.
SlipKeepsErrors(r) ==
    /\ pc[r] = "report"
    /\ turn[r] = Len(Order) + 1
    /\ \/ refusers[r] = {} /\ Report(r)
       \/ refusers[r] # {} /\ Out(r, heard) /\ ReportUnacknowledged(r)
       \/ refusers[r] # {} /\ ~ Out(r, heard) /\ ReportFails(r)
    /\ turn' = [turn EXCEPT ![r] = 1]
    /\ UNCHANGED <<heard, refusers, transport>>

\* MultiSink returns the aggregated errors, and Scout takes it from there.
MultiSinkReturns(r) ==
    /\ pc[r] = "report"
    /\ turn[r] = Len(Order) + 1
    /\ \/ refusers[r] = {} /\ Report(r)
       \/ refusers[r] # {} /\ Out(r, heard) /\ ReportUnacknowledged(r)
       \/ refusers[r] # {} /\ ~ Out(r, heard) /\ ReportFails(r)
    /\ turn' = [turn EXCEPT ![r] = 1]
    /\ refusers' = [refusers EXCEPT ![r] = {}]
    /\ UNCHANGED <<heard, transport>>

\* The execution is that of a new process, or of one that calls Scout again.
StartProcess(r) ==
    /\ Start(r)
    /\ UNCHANGED transport \/ SetTransport(r, Default)
    /\ UNCHANGED <<heard, turn, refusers>>

\* Killed in the middle of a report, it has got out to the sinks it reached, and
\* may have got out to the one that had not answered yet.
Killed(r) ==
    /\ Crash(r)
    /\ \/ UNCHANGED heard
       \/ pc[r] = "report" /\ turn[r] <= Len(Order) /\ Hears(Turn(r), r)
    /\ pc[r] = "report" =>
         delivered' = delivered \cup
             (IF Out(r, heard') THEN alerts[r] \X {now[r]} ELSE {})
    /\ turn' = [turn EXCEPT ![r] = 1]
    /\ refusers' = [refusers EXCEPT ![r] = {}]
    /\ SetTransport(r, Default)

SinkStep(r) ==
    \/ pc[r] # "report" /\ Step(r) /\ UNCHANGED sinkVars
    \/ SinkAcknowledges(r)
    \/ SinkFailsToPost(r)
    \/ SinkPostFails(r)
    \/ MultiSinkReturns(r)

SinkNext ==
    \/ Tick /\ UNCHANGED sinkVars
    \/ \E r \in Run : StartProcess(r) \/ SinkStep(r) \/ Killed(r)

SinkSpec == SinkInit /\ [][SinkNext]_<<vars, sinkVars>>

\* The execution waits for an answer that may never come.
Waiting(r) ==
    /\ pc[r] = "report"
    /\ turn[r] <= Len(Order)
    /\ Turn(r) \in Web
    /\ {Turn(r), Route(Turn(r), r)} \cap Silent # {}

\* As in Scout, but that nobody answers for a silent hook: the step is not fair,
\* and only a deadline ends the wait.  No sink ever owes an acknowledgement.
SinkFairness ==
    \A r \in Run :
        /\ WF_<<vars, sinkVars>>(StartProcess(r))
        /\ WF_<<vars, sinkVars>>(~ Waiting(r) /\ SinkStep(r))
        /\ WF_<<vars, sinkVars>>(Waiting(r) /\ Killed(r))

\* From some time on, nothing kills an execution that does not hang.
OnlyDeadlinesKill ==
    <>[][\A r \in Run : Killed(r) => Waiting(r)]_<<vars, sinkVars>>

FairSinkSpec == SinkSpec /\ SinkFairness /\ OnlyDeadlinesKill

-----------------------------------------------------------------------------
(* Properties *)

\* Sink s heard of message k, or of one like it, recently enough for an
\* execution of instant n to keep silent about it.
ToldTo(s, k, n) ==
    \E d \in heard[s] : Matches(d[1], k) /\ (d[2] = n \/ InGrace(d[2], n))

\* What the store file remembers was heard by every sink: a sink that fails, or
\* a kill between two sinks, never lets the others' success silence an alert for
\* the one that did not get it.
RecordedWasHeardByAll ==
    file.kind = "json" =>
        \A k \in Key : file.book[k] # None =>
            \A s \in Sink : <<k, file.book[k]>> \in heard[s]

\* An execution that returns no error answers for every sink: each of them has
\* heard of every standing problem, in this execution or in grace before it.
SuccessMeansAllToldTo ==
    \A r \in Run : result[r] = "ok" =>
        \A k \in Standing, s \in Sink : ToldTo(s, k, now[r])

\* Nothing in Bad can stop the report to the i-th sink: it prints, or neither it
\* nor the transport it posts over is in Bad.  Without a getter that is the
\* transport of the last hook before it that has one, if that hook cannot fail
\* to set it; otherwise it may be any that an earlier report left behind.
Sheltered(i, Bad) ==
    Order[i] \in Web =>
        /\ Order[i] \notin Bad
        /\ \/ OwnGetter \cap Bad = {}
           \/ \E j \in 1..i :
                /\ Order[j] \in OwnGetter \ (Unreliable \cup Bad)
                /\ \A l \in (j + 1)..i : Order[l] \notin OwnGetter

\* The sinks that no failure of another one can reach, over the shared client or
\* by holding up the loop before their turn.
Dependable ==
    {Order[i] : i \in {i \in 1..Len(Order) :
                          /\ Sheltered(i, Unreliable \cup Silent)
                          /\ \A j \in 1..(i - 1) : Sheltered(j, Silent)}}

\* A dependable sink is told of a lasting problem again and again, although hooks
\* before it refuse every report, hooks after it never answer, and each execution
\* they hold up is killed.
DependableIsToldAgain ==
    \A s \in Dependable, k \in Standing :
        []<>(ToldTo(s, k, clock) \/ file.kind = "torn")

=============================================================================
