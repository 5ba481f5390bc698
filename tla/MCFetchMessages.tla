--------------------------- MODULE MCFetchMessages --------------------------
(* A limit that cuts and one that does not. *)
EXTENDS FetchMessages
MCLimits == {1, 16}
MCCuts == {1}
=============================================================================
