------------------------------ MODULE PagedGet ------------------------------
(***************************************************************************)
(* kubeclient.pagedGet: a list is read page by page, each page asked for   *)
(* with the continue token of the one before, until a page comes without   *)
(* a token.  All list calls of the client go through it; GetEvents sets    *)
(* the page size from the configuration (config.EventsLimit), the others   *)
(* take pageSize.                                                          *)
(*                                                                         *)
(* The API server is external.  It answers from the snapshot that the      *)
(* first page was taken of; a token is the position up to which that       *)
(* snapshot has been handed out; a page may be shorter than its limit,     *)
(* even empty; a token may expire, and any request may fail.               *)
(***************************************************************************)
EXTENDS Integers, Sequences, SequencesExt

CONSTANTS
    MaxItems,   \* bound of the number of items on the server
    MaxLimit,   \* bound of the page size
    MaxEmpty    \* bound of the number of empty pages with a token

ASSUME PagedGetAssumption == MaxItems \in Nat /\ MaxLimit \in Nat /\ MaxEmpty \in Nat

VARIABLES
    items,      \* the snapshot on the server
    limit,      \* opts.Limit; zero asks for everything at once
    token,      \* opts.Continue; zero is no token
    got,        \* what the list function has appended
    answer,     \* "reading", then "ok" or "error"
    empty       \* empty pages so far

vars == <<items, limit, token, got, answer, empty>>

Init ==
    /\ \E n \in 0..MaxItems : items = [i \in 1..n |-> i]
    /\ limit \in 0..MaxLimit
    /\ token = 0
    /\ got = <<>>
    /\ answer = "reading"
    /\ empty = 0

\* How much of the snapshot a request with the token may get: up to the limit,
\* and no more than there is.
PageEnds ==
    {to \in token..Len(items) :
        /\ limit # 0 => to - token <= limit
        /\ limit = 0 => to = Len(items)
        /\ to = token /\ token # Len(items) => empty < MaxEmpty}

\* Slip: the token of the page is not carried over to the next request.
SlipTokenKept ==
    /\ answer = "reading"
    /\ \E to \in PageEnds :
        /\ got' = got \o SubSeq(items, token + 1, to)
        /\ empty' = IF to = token /\ to # Len(items) THEN empty + 1 ELSE empty
        /\ answer' = IF to = Len(items) THEN "ok" ELSE "reading"
    /\ Len(got) < 2 * MaxItems
    /\ UNCHANGED <<items, limit, token>>

\* Slip: a short page is taken for the last one.
SlipShortPageEnds ==
    /\ answer = "reading"
    /\ \E to \in PageEnds :
        /\ got' = got \o SubSeq(items, token + 1, to)
        /\ token' = to
        /\ empty' = IF to = token /\ to # Len(items) THEN empty + 1 ELSE empty
        /\ answer' = IF to = Len(items) \/ to - token < limit THEN "ok" ELSE "reading"
    /\ UNCHANGED <<items, limit>>

\* Slip: each page is asked for anew and replaces what was read.
SlipRepeatsRequest ==
    /\ answer = "reading"
    /\ \E to \in PageEnds :
        /\ got' = SubSeq(items, token + 1, to)
        /\ answer' = IF to = Len(items) THEN "ok" ELSE "reading"
    /\ UNCHANGED <<items, limit, token, empty>>

\* One turn of the loop: the page's items are appended by the list function;
\* the page that reaches the end of the snapshot has no token, and ends it.
GetPage ==
    /\ answer = "reading"
    /\ \E to \in PageEnds :
        /\ got' = got \o SubSeq(items, token + 1, to)
        /\ token' = to
        /\ empty' = IF to = token /\ to # Len(items) THEN empty + 1 ELSE empty
        /\ answer' = IF to = Len(items) THEN "ok" ELSE "reading"
    /\ UNCHANGED <<items, limit>>

\* The request fails or its token has expired: the error is returned at once,
\* with the pages read so far.
GetPageFails ==
    /\ answer = "reading"
    /\ answer' = "error"
    /\ UNCHANGED <<items, limit, token, got, empty>>

Next == GetPage \/ GetPageFails

Spec == Init /\ [][Next]_vars /\ WF_vars(Next)

-----------------------------------------------------------------------------
(* Properties *)

\* A list that is returned without an error is the whole snapshot, each item
\* once and in order, however the server cut it into pages: an item that were
\* missing would be taken for healthy by the diagnosis.
SuccessIsComplete == answer = "ok" => got = items

\* What has been read at any time, also when a later page fails, is a prefix of
\* the snapshot: no page is read twice, none is passed over.
NoGapNoRepeat == IsPrefix(got, items)

\* The loop ends: no page leads back to an earlier one.
Terminates == <>(answer # "reading")

\* config.go:57 "Maximum number of namespace events to fetch (default: 150)".
EventsLimitHonoured == answer = "ok" /\ limit # 0 => Len(got) <= limit

=============================================================================
