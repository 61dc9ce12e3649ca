----------------------------- MODULE Similarity -----------------------------
(***************************************************************************)
(* When a stored message answers for another of the same entity: dedup.go  *)
(* compares them by the cost of editing one into the other.  A message is  *)
(* a sequence of letters, already without what changes with time.          *)
(***************************************************************************)
EXTENDS Integers, Sequences
LOCAL INSTANCE FiniteSetsExt

smallFactor == 1    \* the cost of replacing a letter
bigFactor == 3      \* the cost of inserting or deleting one

\* The cost of editing the first i letters of a into the first j of b, as the library
\* does it that dedup.go takes the distance from.
Distance(a, b) ==
    LET cost[i \in 0..Len(a), j \in 0..Len(b)] ==
            IF i = 0 \/ j = 0 THEN bigFactor * (i + j)
            ELSE Min({cost[i - 1, j] + bigFactor,
                      cost[i, j - 1] + bigFactor,
                      cost[i - 1, j - 1] + (IF a[i] = b[j] THEN 0 ELSE smallFactor)})
    IN  cost[Len(a), Len(b)]

\* The score is measured against deleting all of the longer message.
AreSimilar(a, b, threshold) ==
    LET maxLenFactor == bigFactor * Max({Len(a), Len(b)})
    IN  \/ maxLenFactor = 0
        \/ 100 * (maxLenFactor - Distance(a, b)) >= threshold * maxLenFactor

\* The threshold that tryMatch uses, in per cent.
similarityThreshold == 85

=============================================================================
