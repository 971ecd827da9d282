------------------------------ MODULE MCCitizen ------------------------------
(* The shutdown signals of the runs, by name.                               *)
EXTENDS Citizen

CONSTANTS hup, int, term
=============================================================================
