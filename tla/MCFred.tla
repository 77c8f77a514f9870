------------------------------- MODULE MCFred -------------------------------
(* Instances of FredAdapter for TLC. *)
EXTENDS FredAdapter

TwoSeries == <<"US10Y", "USD_BROAD">>
=============================================================================
