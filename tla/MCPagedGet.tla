----------------------------- MODULE MCPagedGet -----------------------------
(* Up to five items in pages of up to three, with up to two empty pages. *)
EXTENDS PagedGet
=============================================================================
