-------------------------- MODULE MCSourceRequests --------------------------
(***************************************************************************)
(* Instances of SourceRequests: a refresh of four stocks, in batches of    *)
(* three or one by one, and one chart request.                             *)
(***************************************************************************)
EXTENDS SourceRequests

MCStocks == <<"a", "b", "c", "d">>
=============================================================================
