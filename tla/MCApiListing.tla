---------------------------- MODULE MCApiListing ----------------------------
(***************************************************************************)
(* Three lists of four items, all there or with gaps, one or two on a      *)
(* page, and three requests in the provider's window: a list takes up to   *)
(* four pages.  The third list waits for the window, if each has a page,   *)
(* and a signal may come in it; twice the limiter's own limit is as much   *)
(* as the provider allows, and a retry more.  The second item has no id to *)
(* go on from.                                                             *)
(***************************************************************************)
EXTENDS ApiListing

MCItem == 1 .. 4
MCStart == {1 .. 4, {2, 4}}
MCUndecodable == {2}
MCPageSizes == {1, 2}
=============================================================================
