----------------------------- MODULE MCServices -----------------------------
(***************************************************************************)
(* Two batches, so that one has a predecessor, and one reader: requests    *)
(* are served by goroutines that share nothing but the store.              *)
(***************************************************************************)
EXTENDS BatchQueries

=============================================================================
