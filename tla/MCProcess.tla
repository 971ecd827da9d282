------------------------------ MODULE MCProcess ------------------------------
(* Small programs: a one-layer file, a two-layer console, a peer that may  *)
(* be adopted, and two named scopes.                                       *)
EXTENDS Process, TLC

CONSTANTS file, console, peer, outer, inner

TwoLayerConsole == [r \in Resource |-> IF r = console THEN 2 ELSE 1]
NoAlternatives == [r \in Resource |-> 0]
FileHasAlternative == [r \in Resource |-> IF r = file THEN 1 ELSE 0]
ConsoleHasAlternative == [r \in Resource |-> IF r = console THEN 1 ELSE 0]
ScopeNames == Permutations({outer, inner})
=============================================================================
