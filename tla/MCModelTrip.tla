------------------------------ MODULE MCModelTrip ------------------------------
(* Every model of the client, one deviation and one edit in each of two trips. *)
EXTENDS ModelTrip

EveryModel == AllModels
=============================================================================
