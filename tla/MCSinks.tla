------------------------------ MODULE MCSinks ------------------------------
(***************************************************************************)
(* A hook that may fail, with a transport of its own; the console; a       *)
(* reliable hook, also with its own; one that posts over what it finds in  *)
(* the shared client; a hook that may never answer.  One pod with one      *)
(* message, which a report tells as a whole.                               *)
(***************************************************************************)
EXTENDS Sinks, TLC

CONSTANTS c1, pod, m1, hook, console, proxy, shared, mute

MCCluster == {c1}
MCEntity == {pod}
MCKey == {m1}
MCClusterOf == pod :> c1
MCEntityOf == [k \in MCKey |-> pod]
MCInspected == {pod}
MCContexts == <<c1>>
MCPersisting == {m1}

MCSink == {hook, console, proxy, shared, mute}
MCOrder == <<hook, console, proxy, shared, mute>>
MCWeb == {hook, proxy, shared, mute}
MCOwnGetter == {hook, proxy}
MCUnreliable == {hook}
MCSilent == {mute}

=============================================================================
