-------------------------------- MODULE Raii --------------------------------
(***************************************************************************)
(* What mereo promises of every program it generates: a process owns a     *)
(* stack of things.  It takes ownership of one thing at a time, gives back *)
(* the newest first, and once it starts to wind down it takes nothing      *)
(* more, gives back all it owns and is gone.                               *)
(***************************************************************************)
EXTENDS Naturals, Sequences

CONSTANT Thing   \* what a process can own: a layer of a resource

VARIABLES
  owned,  \* the things owned, oldest first
  phase   \* "working", "winding down" or "gone"

raiiVars == <<owned, phase>>

Owns(t) == \E k \in 1..Len(owned) : owned[k] = t

Init == owned = <<>> /\ phase = "working"

Take(t) ==
  /\ phase = "working" /\ ~Owns(t)
  /\ owned' = Append(owned, t)
  /\ UNCHANGED phase

GiveBack ==
  /\ phase # "gone" /\ owned # <<>>
  /\ owned' = SubSeq(owned, 1, Len(owned) - 1)
  /\ UNCHANGED phase

(* The program's end, `leave program`, a failed check or an interrupt.     *)
WindDown == phase = "working" /\ phase' = "winding down" /\ UNCHANGED owned

Exit ==
  /\ phase = "winding down" /\ owned = <<>>
  /\ phase' = "gone"
  /\ UNCHANGED owned

Next == (\E t \in Thing : Take(t)) \/ GiveBack \/ WindDown \/ Exit

(* Winding down is never left half done.                                   *)
Fairness == WF_raiiVars(phase = "winding down" /\ (GiveBack \/ Exit))

Spec == Init /\ [][Next]_raiiVars /\ Fairness
=============================================================================
