---------------------------- MODULE MCElaborate ----------------------------
(***************************************************************************)
(* Four classes in the shapes a composition may have.                      *)
(***************************************************************************)
EXTENDS Elaborate

CONSTANTS top, left, right, low, size

MCClass == {top, left, right, low}
MCName == {size}

Extends(ofA, ofB, ofC, ofD) ==
  [k \in MCClass |-> CASE k = top -> ofA [] k = left -> ofB [] k = right -> ofC [] k = low -> ofD]

\* A chain, siblings, siblings above a chain, a diamond, one base twice, a ring,
\* and a class that extends itself.
Shapes ==
  {Extends(<<>>, <<top>>, <<left>>, <<right>>),
   Extends(<<>>, <<>>, <<top, left>>, <<right>>),
   Extends(<<>>, <<top>>, <<>>, <<left, right>>),
   Extends(<<>>, <<top>>, <<top>>, <<left, right>>),
   Extends(<<>>, <<>>, <<top, top>>, <<left, right>>),
   Extends(<<right>>, <<top>>, <<left>>, <<top>>),
   Extends(<<>>, <<left>>, <<>>, <<top>>)}

\* Nothing to own, an acquire and a release, an acquire in two steps with
\* either marked, and a release alone.
Life(calls, marker, releases) == [calls |-> calls, marker |-> marker, releases |-> releases]
Nothing == Life(0, 0, FALSE)
Single == Life(1, 1, TRUE)
Twice(marker) == Life(2, marker, TRUE)

Lives == [MCClass -> {Nothing, Single, Twice(1), Twice(2), Life(0, 0, TRUE)}]
MCLives == {life \in Lives : /\ life[left] \in {Nothing, Single, Twice(1)}
                             /\ life[right] \in {Nothing, Single, Twice(2)}
                             /\ life[low] \in {Nothing, Single}}

\* Who has the name as what, and whose part is whose.
Detail(ops, slots, takes, whole, part) ==
  [ops |-> ops, slots |-> slots, takes |-> takes, whole |-> whole, part |-> part]

Details == {Detail({}, {}, {}, {}, top), Detail({top}, {}, {}, {}, top), Detail({}, {top}, {}, {}, top),
            Detail({}, {}, {left, right}, {}, top), Detail({}, {}, {}, {low}, top), Detail({}, {}, {}, {top}, low)}

\* The name, where it is borne.
Named(k, by) == IF k \in by THEN MCName ELSE {}

MCSources ==
  {[k \in MCClass |->
      [bases |-> shape[k], calls |-> life[k].calls, marker |-> life[k].marker,
       releases |-> life[k].releases, parts |-> IF k \in more.whole THEN <<more.part>> ELSE <<>>,
       ops |-> Named(k, more.ops), slots |-> Named(k, more.slots), takes |-> Named(k, more.takes)]]
   : shape \in Shapes, life \in MCLives, more \in Details}
=============================================================================
