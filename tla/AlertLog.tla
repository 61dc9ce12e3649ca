------------------------------ MODULE AlertLog ------------------------------
(***************************************************************************)
(* What kubescout promises across executions, without its executions: a    *)
(* log of delivered alerts and a memory of them.  Alerts are delivered at  *)
(* least once; what is remembered was delivered; what is remembered and    *)
(* in grace silences its likes; and nothing is forgotten before it         *)
(* expired.  Only a fragile memory may be lost, and then all of it is.     *)
(***************************************************************************)
EXTENDS Store

CONSTANT Fragile    \* whether the memory can be lost

VARIABLES clock, delivered, memory, lost

vars == <<clock, delivered, memory, lost>>

Init ==
    /\ clock = 0
    /\ delivered = {}
    /\ memory = NoMessages
    /\ lost = FALSE

Tick ==
    /\ clock' = clock + 1
    /\ UNCHANGED <<delivered, memory, lost>>

\* Messages that nothing remembered silences are delivered, under the instant
\* of an execution that began before.
Announce ==
    /\ \E n \in 0..clock : \E new \in (SUBSET Key) \ {{}} :
        /\ \A k \in new : ~ \E j \in Key :
            memory[j] # None /\ Matches(j, k) /\ InGrace(memory[j], n)
        /\ delivered' = delivered \cup (new \X {n})
    /\ UNCHANGED <<clock, memory, lost>>

\* The memory catches up with what was delivered and drops what has expired.
Remember ==
    /\ memory' \in Book
    /\ \A k \in Key :
        \/ memory'[k] = memory[k]
        \/ memory'[k] = None /\ memory[k] # None /\ Expired(memory[k], clock)
        \/ /\ <<k, memory'[k]>> \in delivered
           /\ memory[k] # None => memory[k] <= memory'[k]
    /\ lost' = FALSE
    /\ UNCHANGED <<clock, delivered>>

Forget ==
    /\ Fragile
    /\ memory' = NoMessages
    /\ lost' = TRUE
    /\ UNCHANGED <<clock, delivered>>

Next == Tick \/ Announce \/ Remember \/ Forget

Spec == Init /\ [][Next]_vars

=============================================================================
