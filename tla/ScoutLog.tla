------------------------------ MODULE ScoutLog ------------------------------
(***************************************************************************)
(* The abstract log behind the executions of one slot.  Its memory is the  *)
(* store file, or, while the file is being rewritten, what the writer has. *)
(***************************************************************************)
EXTENDS Scout

Writers == {r \in Run : pc[r] = "write"}

LogMemory == IF Writers = {} THEN file.book ELSE mem[CHOOSE r \in Writers : TRUE]

LogLost == Writers = {} /\ file.kind \in {"empty", "torn"}

Log == INSTANCE AlertLog WITH
            memory <- LogMemory,
            lost <- LogLost,
            Fragile <- Faults \cap {"crash", "torn"} # {}

\* The executions of one slot keep the promise of AlertLog: reports that fail,
\* are not acknowledged, or are not flushed, and crashes, never make the store
\* remember what was not delivered, nor forget, before it expired, what was,
\* unless the file itself got lost in the middle of a write.
ImplementsLog == Log!Spec

=============================================================================
