----------------------------- MODULE Elaborate -----------------------------
(***************************************************************************)
(* `elaborate_classes` of mereoc.py: the classes of a program are composed *)
(* from their bases and parts, depth first and each once, and what comes   *)
(* of a class is its layers: what constructing one acquires, in order, and *)
(* what the tower releases at each floor.  `Planner` takes their number as *)
(* given.                                                                  *)
(*                                                                         *)
(* A thing is named by the class that says how to acquire or release it,   *)
(* behind the parts it is reached through.                                 *)
(***************************************************************************)
EXTENDS Integers, Sequences, FiniteSets, SequencesExt

CONSTANTS Class,    \* the classes of the program
          Name,     \* names of methods, of state and of parameters
          Sources   \* what the program may say of its classes

\* A class as it is written: `NAME extends BASES is`, the parts it owns, the
\* calls of its acquire, which of them is marked `acquired`, whether it has a
\* release, the other methods, the state, and what each call of its acquire
\* takes from the construction.
Written == [bases : Seq(Class), parts : Seq(Class), calls : Nat, marker : Nat,
            releases : BOOLEAN, ops : SUBSET Name, slots : SUBSET Name, takes : SUBSET Name]

\* Every acquire marks one of its calls (mereoc.py:3755).
ASSUME SourcesAssumption ==
  \A source \in Sources : \A c \in Class :
    /\ source[c] \in Written
    /\ source[c].marker \in (IF source[c].calls = 0 THEN {0} ELSE 1..source[c].calls)

VARIABLES source,   \* the classes as they are written
          built,    \* the classes as they are by now
          frames,   \* the calls of elab under way
          done,     \* the classes elaborated
          phase     \* "elaborating", "elaborated", "cyclic" or "refused"

vars == <<source, built, frames, done, phase>>

-----------------------------------------------------------------------------
(* Composing a class.                                                      *)

Bases(c) == source[c].bases

\* One call of an acquire.
Step(c, i) == [owner |-> c, marked |-> i = source[c].marker, takes |-> source[c].takes]

\* A class before its bases are merged into it.
Bare(c) ==
  [acquire |-> [i \in 1..source[c].calls |-> Step(c, i)],
   release |-> IF source[c].releases THEN <<c>> ELSE <<>>,
   ops |-> source[c].ops, slots |-> source[c].slots, parts |-> source[c].parts,
   layered |-> FALSE, own |-> FALSE, layers |-> <<>>, cleanup |-> <<>>]

\* The class brings a lifecycle of its own.
OwnLayered(c) == source[c].calls > 0 \/ source[c].releases

\* It is a layer on its bases: their lifecycles stay theirs.
Layered(c) == Bases(c) # <<>> /\ (OwnLayered(c) \/ Len(Bases(c)) > 1)

\* A base that is not below a layer hands its lifecycle down.
View(c) == Len(Bases(c)) = 1 /\ ~Layered(c)

\* Methods or state inherited twice, a method redefined, or a second part.
Clashes(c) ==
  \/ \E i, j \in DOMAIN Bases(c) :
       /\ i < j
       /\ \/ built[Bases(c)[i]].ops \cap built[Bases(c)[j]].ops # {}
          \/ built[Bases(c)[i]].slots \cap built[Bases(c)[j]].slots # {}
  \/ \E i \in DOMAIN Bases(c) : built[Bases(c)[i]].ops \cap built[c].ops # {}
  \/ Len(built[c].parts) + Len(FlattenSeq([i \in DOMAIN Bases(c) |-> built[Bases(c)[i]].parts])) > 1

\* A class with what its bases hand down.
Merged(c) ==
  LET of == IF View(c) THEN Bases(c)[1] ELSE c
      several == Len(built[of].acquire) > 1
      below == [i \in DOMAIN Bases(c) |-> built[Bases(c)[i]]]
  IN  [built[c] EXCEPT !.acquire = built[of].acquire,
                       !.release = built[of].release,
                       !.ops = @ \cup UNION {below[i].ops : i \in DOMAIN below},
                       !.slots = @ \cup UNION {below[i].slots : i \in DOMAIN below},
                       !.parts = @ \o FlattenSeq([i \in DOMAIN below |-> below[i].parts]),
                       !.layered = Layered(c) \/ several,
                       !.own = (Layered(c) /\ OwnLayered(c)) \/ several]

\* What the class releases: its own thing, then what its part releases.
Chain(c) ==
  LET inPart(p) == [i \in DOMAIN built[p].cleanup |-> <<p>> \o built[p].cleanup[i]]
  IN  [i \in DOMAIN built[c].release |-> <<built[c].release[i]>>]
        \o FlattenSeq([i \in DOMAIN built[c].parts |-> inPart(built[c].parts[i])])

\* A layer: the call that acquires it, if any, and what its floor releases.
Layer(init, cleanup) == [init |-> init, cleanup |-> cleanup]

\* The layers of a base, a class without layers being one.
LayersOf(b) ==
  IF built[b].layers # <<>> THEN built[b].layers ELSE <<Layer(built[b].acquire, built[b].cleanup)>>

\* Mutant: the bases from the last to the first.
BaseLayersReversed(c) == FlattenSeq(Reverse([i \in DOMAIN Bases(c) |-> LayersOf(Bases(c)[i])]))

BaseLayers(c) == FlattenSeq([i \in DOMAIN Bases(c) |-> LayersOf(Bases(c)[i])])

\* Mutant: the first call has the cleanup, not the marked one.
OwnLayersAtFirst(c) ==
  IF Len(built[c].acquire) > 1
  THEN [i \in DOMAIN built[c].acquire |->
          Layer(<<built[c].acquire[i]>>, IF i = 1 THEN Chain(c) ELSE <<>>)]
  ELSE IF built[c].own \/ Chain(c) # <<>> THEN <<Layer(built[c].acquire, Chain(c))>>
  ELSE <<>>

\* Of an acquire in several steps each is a layer, and the marked one has the
\* cleanup.
OwnLayers(c) ==
  IF Len(built[c].acquire) > 1
  THEN [i \in DOMAIN built[c].acquire |->
          Layer(<<built[c].acquire[i]>>, IF built[c].acquire[i].marked THEN Chain(c) ELSE <<>>)]
  ELSE IF built[c].own \/ Chain(c) # <<>> THEN <<Layer(built[c].acquire, Chain(c))>>
  ELSE <<>>

LayersFor(c) == IF built[c].layered THEN BaseLayers(c) \o OwnLayers(c) ELSE <<>>

\* What the tower releases from the top of these layers down.
Unwinding(layers) == FlattenSeq(Reverse([i \in DOMAIN layers |-> layers[i].cleanup]))

\* Two layers would take one argument of the construction.
SharesParameter(c) ==
  LET layers == LayersFor(c)
      takes(i) == UNION {call.takes : call \in Range(layers[i].init)}
  IN  \E i, j \in DOMAIN layers : i < j /\ takes(i) \cap takes(j) # {}

-----------------------------------------------------------------------------
Init ==
  /\ source \in Sources
  /\ built = [c \in Class |-> Bare(c)]
  /\ frames = <<>> /\ done = {} /\ phase = "elaborating"

Frame(c) == [class |-> c, stage |-> "bases", next |-> 1]

Top == Last(frames)

\* Mutant: only the class under way is known to be visited.
VisitingTop == {Top.class}

\* Mutant: a class is never struck off.
VisitingEver == {frames[i].class : i \in DOMAIN frames} \cup done

Visiting == {frames[i].class : i \in DOMAIN frames}

\* What the class under way still has to see elaborated.
Pending == IF Top.stage = "bases" THEN Bases(Top.class) ELSE built[Top.class].parts
Awaits == phase = "elaborating" /\ frames # <<>> /\ Top.next \in DOMAIN Pending
Ready(stage) ==
  phase = "elaborating" /\ frames # <<>> /\ Top.stage = stage /\ Top.next > Len(Pending)

Advanced(frame) == ReplaceAt(frames, Len(frames), frame)

\* The next class of the text.
Begin ==
  /\ phase = "elaborating" /\ frames = <<>>
  /\ \E c \in Class \ done : frames' = <<Frame(c)>>
  /\ UNCHANGED <<source, built, done, phase>>

\* Mutant: it is looked at again.
SeenAgain ==
  /\ Awaits /\ Pending[Top.next] \in done
  /\ UNCHANGED vars

\* A base or part that is elaborated already.
Seen ==
  /\ Awaits /\ Pending[Top.next] \in done
  /\ frames' = Advanced([Top EXCEPT !.next = @ + 1])
  /\ UNCHANGED <<source, built, done, phase>>

Descend ==
  /\ Awaits /\ Pending[Top.next] \notin done \cup Visiting
  /\ frames' = Append(frames, Frame(Pending[Top.next]))
  /\ UNCHANGED <<source, built, done, phase>>

\* `composition cycle through ...`
FindCycle ==
  /\ Awaits /\ Pending[Top.next] \in Visiting
  /\ phase' = "cyclic"
  /\ UNCHANGED <<source, built, frames, done>>

\* The bases are elaborated: what they hand down.
Merge ==
  /\ Ready("bases") /\ ~Clashes(Top.class)
  /\ built' = [built EXCEPT ![Top.class] = Merged(Top.class)]
  /\ frames' = Advanced([Top EXCEPT !.stage = "parts", !.next = 1])
  /\ UNCHANGED <<source, done, phase>>

\* The parts are, too: the cleanup and the layers.
Finish ==
  /\ Ready("parts") /\ ~SharesParameter(Top.class)
  /\ built' = [built EXCEPT ![Top.class].layers = LayersFor(Top.class),
                            ![Top.class].cleanup = IF built[Top.class].layered
                                                   THEN Unwinding(LayersFor(Top.class))
                                                   ELSE Chain(Top.class)]
  /\ frames' = Front(frames) /\ done' = done \cup {Top.class}
  /\ UNCHANGED <<source, phase>>

Refuse ==
  /\ \/ Ready("bases") /\ Clashes(Top.class)
     \/ Ready("parts") /\ SharesParameter(Top.class)
  /\ phase' = "refused"
  /\ UNCHANGED <<source, built, frames, done>>

End ==
  /\ phase = "elaborating" /\ frames = <<>> /\ done = Class
  /\ phase' = "elaborated"
  /\ UNCHANGED <<source, built, frames, done>>

\* Nothing more to do.
Stopped == phase # "elaborating" /\ UNCHANGED vars

Elab == Begin \/ Seen \/ Descend \/ FindCycle \/ Merge \/ Finish \/ Refuse \/ End

Next == Elab \/ Stopped

\* The compiler keeps running.
Spec == Init /\ [][Next]_vars /\ WF_vars(Elab)

-----------------------------------------------------------------------------
(* What constructing an instance does.                                     *)

\* The floors of an instance: a class without layers has one.
Floors(c) == IF built[c].layers # <<>> THEN built[c].layers ELSE <<Layer(built[c].acquire, built[c].cleanup)>>

\* What the steps of a floor take.  One that acquires nothing is of a thing
\* the instance has from the start.
Takes(floor) ==
  IF floor.init = <<>> THEN floor.cleanup
  ELSE FlattenSeq([i \in DOMAIN floor.init |->
                     IF floor.init[i].marked THEN << <<floor.init[i].owner>> >> ELSE <<>>])

Taken(c, k) == FlattenSeq([i \in 1..k |-> Takes(Floors(c)[i])])

AllTaken(c) == Taken(c, Len(Floors(c)))

\* The tower entered at a floor.
GivenBack(c, k) == Unwinding(SubSeq(Floors(c), 1, k))

-----------------------------------------------------------------------------
(* Properties.                                                             *)

\* The classes a class is composed of, itself among them, and those that it
\* extends: the least sets closed under composition.
Reached(c, next(_)) ==
  {d \in Class : \A s \in SUBSET Class :
     (c \in s /\ \A x \in s : next(x) \subseteq s) => d \in s}
Family(c) == Reached(c, LAMBDA x : Range(Bases(x)))

\* No part has anything to release.
Partless(c) == \A x \in Family(c) : \A i \in DOMAIN source[x].parts : built[source[x].parts[i]].cleanup = <<>>

\* Of what was taken, what has a release.
Releasable(taken) ==
  FlattenSeq([i \in DOMAIN taken |-> IF source[taken[i][1]].releases THEN <<taken[i]>> ELSE <<>>])

\* Each class is extended along one way, and no view is of a layered class.
Plain(c) ==
  /\ \A x, y \in Family(c) : \A i \in DOMAIN Bases(x), j \in DOMAIN Bases(y) :
       Bases(x)[i] = Bases(y)[j] => x = y /\ i = j
  /\ \A x \in Family(c) : View(x) => ~built[Bases(x)[1]].layered

\* No class is elaborated within itself; what is elaborated is no longer
\* under way, and all that it is composed of was before it.
TypeOK ==
  /\ phase \in {"elaborating", "elaborated", "cyclic", "refused"}
  /\ \A i, j \in DOMAIN frames : frames[i].class = frames[j].class => i = j
  /\ \A i \in DOMAIN frames : frames[i].class \notin done
  /\ \A c \in done : Family(c) \subseteq done /\ Range(built[c].parts) \subseteq done

\* mereoc.py:67, "each base contributes its own layers in the order written,
\* then the resource's own": an instance takes each thing of its family once,
\* those of a class after those of its bases, those of a base after those of
\* the bases written before it.
BasesFirst ==
  \A c \in done : Plain(c) /\ Partless(c) =>
    LET taken == AllTaken(c)
        before(x, y) == \A i, j \in DOMAIN taken : taken[i] = <<x>> /\ taken[j] = <<y>> => i < j
    IN  /\ IsInjective(taken)
        /\ Range(taken) = {<<x>> : x \in {y \in Family(c) : OwnLayered(y)}}
        /\ \A x \in Family(c) : \A y \in Family(x) \ {x} : before(y, x)
        /\ \A x \in Family(c) : \A i, j \in DOMAIN Bases(x) : i < j =>
             \A y \in Family(Bases(x)[i]), z \in Family(Bases(x)[j]) : before(y, z)

\* mereoc.py:72, "a failure at layer k releases layers k-1..1 in reverse and
\* runs no release for k": at whatever layer the construction stops, the tower
\* gives back what was taken, newest first, however the class was composed.
TowerMirrors ==
  \A c \in done : Partless(c) =>
    \A k \in 0..Len(Floors(c)) : GivenBack(c, k) = Reverse(Releasable(Taken(c, k)))

\* A class that is composed of itself is found out, and nothing else is taken
\* for it.
CyclesAreNamed ==
  LET next(x) == Range(Bases(x)) \cup Range(built[x].parts)
      cyclic == \E c \in Class : \E d \in next(c) : c \in Reached(d, next)
  IN  /\ phase = "cyclic" => cyclic
      /\ phase = "elaborated" => ~cyclic

\* The recursion comes to an end, whatever is composed of whatever.
ElaborationEnds == phase = "elaborating" ~> phase # "elaborating"

-----------------------------------------------------------------------------
(* What the code says of itself and does not do.                           *)

\* mereoc.py:3557: "A single base with no added lifecycle is a pure VIEW that
\* inherits the base's": an instance of it takes and gives back what one of
\* its base does.
ViewsAreTheirBases ==
  \A c \in done : View(c) =>
    LET b == Bases(c)[1]
    IN  /\ AllTaken(c) = AllTaken(b)
        /\ GivenBack(c, Len(Floors(c))) = GivenBack(b, Len(Floors(b)))
=============================================================================
