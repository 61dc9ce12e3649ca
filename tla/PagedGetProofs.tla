--------------------------- MODULE PagedGetProofs ---------------------------
(***************************************************************************)
(* Lists that are read in pages, for any number of items, any page size    *)
(* and any number of empty pages.                                          *)
(***************************************************************************)
EXTENDS PagedGet, SequenceTheorems, TLAPS

\* The inductive invariant: the token stands for what has been read.  What the
\* server handed out is what the token says, so the next page begins where the
\* last one ended, and only a token at the end of the snapshot ends the loop.
PagedInv ==
    /\ items \in Seq(Nat)
    /\ limit \in Nat
    /\ token \in 0..Len(items)
    /\ got = SubSeq(items, 1, token)
    /\ answer \in {"reading", "ok", "error"}
    /\ answer = "ok" => token = Len(items)
    /\ empty \in 0..MaxEmpty

LEMMA PagedInit == Init => PagedInv
  <1> SUFFICES ASSUME Init PROVE PagedInv
    OBVIOUS
  <1>1. PICK n \in 0..MaxItems : items = [i \in 1..n |-> i]
    BY DEF Init
  <1>2. n \in Nat /\ items \in Seq(Nat) /\ Len(items) = n
    BY <1>1, PagedGetAssumption
  <1>3. got = SubSeq(items, 1, token)
    BY SubSeqEmpty DEF Init
  <1> QED  BY <1>2, <1>3, PagedGetAssumption DEF Init, PagedInv

\* A page goes on where the pages before it ended.
LEMMA PageAdjoins ==
  ASSUME PagedInv, NEW to \in PageEnds
  PROVE  /\ to \in token..Len(items)
         /\ SubSeq(items, 1, token) \o SubSeq(items, token + 1, to) = SubSeq(items, 1, to)
  <1>1. to \in token..Len(items)
    BY DEF PageEnds
  <1>2. items \in Seq(Nat) /\ token \in 0..Len(items) /\ Len(items) \in Nat
    BY DEF PagedInv
  <1>3. 1 \in 1..Len(items) + 1 /\ token \in 1 - 1..Len(items)
    BY <1>2
  <1> QED  BY <1>1, <1>2, <1>3, ConcatAdjacentSubSeq

LEMMA PagedStep == PagedInv /\ [Next]_vars => PagedInv'
  <1> SUFFICES ASSUME PagedInv, [Next]_vars PROVE PagedInv'
    OBVIOUS
  <1>1. CASE GetPage
    <2>1. PICK to \in PageEnds :
            /\ got' = got \o SubSeq(items, token + 1, to)
            /\ token' = to
            /\ empty' = IF to = token /\ to # Len(items) THEN empty + 1 ELSE empty
            /\ answer' = IF to = Len(items) THEN "ok" ELSE "reading"
      BY <1>1 DEF GetPage
    <2>2. items' = items /\ limit' = limit
      BY <1>1 DEF GetPage
    <2>3. token' \in 0..Len(items) /\ got' = SubSeq(items, 1, token')
      <3>1. to \in token..Len(items) /\ got' = SubSeq(items, 1, to)
        BY <2>1, PageAdjoins DEF PagedInv
      <3>2. token \in 0..Len(items) /\ Len(items) \in Nat
        BY DEF PagedInv
      <3>3. to \in 0..Len(items)
        BY <3>1, <3>2
      <3> QED  BY <2>1, <3>1, <3>3
    <2>4. empty' \in 0..MaxEmpty
      BY <2>1, PagedGetAssumption DEF PagedInv, PageEnds
    <2> QED  BY <2>1, <2>2, <2>3, <2>4 DEF PagedInv
  <1>2. CASE GetPageFails
    BY <1>2 DEF GetPageFails, PagedInv
  <1>3. CASE UNCHANGED vars
    BY <1>3 DEF vars, PagedInv
  <1> QED  BY <1>1, <1>2, <1>3 DEF Next

\* A list that is returned without an error is the whole snapshot, however the
\* server cut it into pages and whatever the page size (kubeclient/util.go, pagedGet).
THEOREM PagedSuccessIsComplete == Spec => []SuccessIsComplete
  <1>1. PagedInv => SuccessIsComplete
    <2> SUFFICES ASSUME PagedInv, answer = "ok" PROVE got = items
      BY DEF SuccessIsComplete
    <2> QED  BY SubSeqFull DEF PagedInv
  <1> QED  BY <1>1, PagedInit, PagedStep, PTL DEF Spec

\* What has been read at any time is a prefix of the snapshot: no page is read
\* twice and none is passed over, also when a later one fails.
THEOREM PagesHaveNoGapNoRepeat == Spec => []NoGapNoRepeat
  <1>1. PagedInv => NoGapNoRepeat
    <2> SUFFICES ASSUME PagedInv PROVE IsPrefix(got, items)
      BY DEF NoGapNoRepeat
    <2>1. /\ items \in Seq(Nat) /\ token \in 0..Len(items)
          /\ got = SubSeq(items, 1, token) /\ Len(items) \in Nat
      BY DEF PagedInv
    <2>2. \A i \in 1..token : items[i] \in Nat
      BY <2>1
    <2>3. got \in Seq(Nat) /\ Len(got) = token
      BY <2>1, <2>2, SubSeqProperties
    <2>4. SubSeq(got, 1, Len(got)) = got
      BY <2>3, SubSeqFull
    <2> QED  BY <2>1, <2>3, <2>4 DEF IsPrefix
  <1> QED  BY <1>1, PagedInit, PagedStep, PTL DEF Spec

\* A turn of the loop that does not end it gets nearer to its end: the token
\* moves on, or one of the finitely many empty pages is used up.
THEOREM PagesAdvance ==
  Spec => [][answer' = "reading" => /\ token' - token + empty' - empty >= 1
                             /\ token' >= token /\ token' <= Len(items)
                             /\ empty' >= empty /\ empty' <= MaxEmpty]_vars
  <1>1. ASSUME PagedInv, PagedInv', Next, answer' = "reading"
        PROVE  /\ token' - token + empty' - empty >= 1
               /\ token' >= token /\ token' <= Len(items)
               /\ empty' >= empty /\ empty' <= MaxEmpty
    <2>1. PICK to \in PageEnds :
            /\ token' = to
            /\ empty' = IF to = token /\ to # Len(items) THEN empty + 1 ELSE empty
            /\ answer' = IF to = Len(items) THEN "ok" ELSE "reading"
      BY <1>1 DEF Next, GetPage, GetPageFails
    <2>2. to # Len(items) /\ to \in token..Len(items)
      BY <1>1, <2>1 DEF PageEnds
    <2> QED  BY <1>1, <2>1, <2>2, PagedGetAssumption DEF PagedInv
  <1>2. [Next]_vars /\ PagedInv /\ PagedInv' =>
          [answer' = "reading" => /\ token' - token + empty' - empty >= 1
                           /\ token' >= token /\ token' <= Len(items)
                           /\ empty' >= empty /\ empty' <= MaxEmpty]_vars
    BY <1>1
  <1> QED  BY <1>2, PagedInit, PagedStep, PTL DEF Spec

=============================================================================
