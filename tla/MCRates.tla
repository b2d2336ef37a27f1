------------------------------- MODULE MCRates -------------------------------
(* The names of the instance of Rates. *)
EXTENDS Rates

TwoNames == {"a", "b"}
=============================================================================
