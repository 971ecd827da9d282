------------------------------- MODULE MCTable -------------------------------
(* A table of at most three pages, the root among them.                    *)
EXTENDS TableWalk

CONSTANTS p1, p2, p3
=============================================================================
