------------------------------- MODULE MCHoist -------------------------------
(* Small instances of BoundHoist.                                          *)
EXTENDS BoundHoist, TLC

(* The names are alike: none is attached.                                  *)
AlikeNames == Permutations(Name)
=============================================================================
