------------------------------- MODULE Planner -------------------------------
(***************************************************************************)
(* The lifetime planner of mereoc: `plan` walks the spliced steps of a     *)
(* program once and turns each into planned steps, keeping the set of      *)
(* resources held at that point (`live`) so that every release and every   *)
(* failure target is a constant of the generated program.  One action      *)
(* plans one step; the program being compiled is whatever sequence of      *)
(* steps the behaviour chooses.                                            *)
(*                                                                         *)
(* A resource is one or several LAYERS, acquired base first.  A RUNG       *)
(* <<r, i>> is layer i of resource r: one floor of the release tower.      *)
(* The source keeps names in `live` and expands a name into its layers     *)
(* when it emits releases; here `live` holds the rungs themselves, so a    *)
(* release list is a reversed suffix of it.                                *)
(***************************************************************************)
EXTENDS Integers, Sequences, FiniteSets

CONSTANTS
  Resource,     \* instance names the program declares
  Adopted,      \* those written `NAME is adopted CLASS`; the rest are constructed
  Called,       \* those whose methods the program calls
  Layers,       \* layers of each resource's class
  Alternatives, \* `or (...)` lines under each resource's construction
  Name,         \* names of the program's `NAME goes` scopes
  NoRung,       \* no resource beneath: the program's `exit` landmark
  MaxSteps,     \* bound: planned steps of a program
  MaxDepth      \* bound: scopes open at once

ASSUME LayersAssumption == Layers \in [Resource -> Nat \ {0}]
ASSUME AlternativesAssumption == Alternatives \in [Resource -> Nat]
ASSUME AdoptedAssumption == Adopted \subseteq Resource /\ Called \subseteq Resource
ASSUME NoRungAssumption == NoRung \notin Resource \X Nat
ASSUME BoundsAssumption == MaxSteps \in Nat /\ MaxDepth \in Nat

VARIABLES
  live,        \* rungs held at the step being planned, oldest first
  tower_order, \* every rung that ever needed a floor, never truncated
  enclosing,   \* resource |-> the rung beneath it when it was acquired
  scopes,      \* open scopes, innermost last: the parser's and plan's stacks
  labels,      \* label |-> the position it was emitted at
  plan_steps,  \* the planned steps, in order
  done         \* the whole program has been planned

planVars == <<live, tower_order, enclosing, scopes, labels, plan_steps, done>>

-----------------------------------------------------------------------------
(* Rungs, labels, scopes and planned steps.                                *)

Rung == UNION {{<<r, i>> : i \in 1..Layers[r]} : r \in Resource}
Rungs(r) == [i \in 1..Layers[r] |-> <<r, i>>]
TopRung(r) == <<r, Layers[r]>>

(* Every label is a pair, so that any two of them compare.                 *)
Top(n) == <<"top", n>>
Done(n) == <<"done", n>>
Past(i) == <<"past", i>>
Floor(rg) == <<"release", rg>>
ProgramAgain == <<"program_again", 0>>
Nowhere == <<"nowhere", 0>>      \* a step that cannot fail and does not jump

EndLabels == ({"done"} \X Name) \cup ({"past"} \X Nat)
ScopeLabels == ({"top"} \X Name) \cup EndLabels
Labels == ScopeLabels \cup ({"release"} \X (Rung \cup {NoRung}))
                      \cup {ProgramAgain, Nowhere}

(* An open scope: its live size on entry, and the label past its end,      *)
(* Nowhere for an unguarded block.                                         *)
Scope == [kind: {"loop", "block"}, end: EndLabels \cup {Nowhere}, entry: Nat]

Ops == {"acquire", "adopt", "call", "spliced", "ensure", "loop_top",
        "scope_guard", "scope_release", "loop_back", "loop_exit", "exit"}

(* `held` is the live set the step is planned against: the source reads it *)
(* when it picks the step's target and stores only the label it chose.     *)
Step(op, rung, to, releases) ==
  [op |-> op, held |-> live, rung |-> rung, to |-> to, releases |-> releases,
   tries |-> 1, repair |-> FALSE]

PlanStep == [op: Ops, held: Seq(Rung), rung: Rung \cup {NoRung}, to: Labels,
             releases: Seq(Rung), tries: Nat \ {0}, repair: BOOLEAN]

Newest(s) == IF s = <<>> THEN NoRung ELSE s[Len(s)]
Prefix(s, n) == SubSeq(s, 1, n)

(* A resource some planned step has brought up.                            *)
constructed == DOMAIN enclosing

(* Mutant: asks whether r was ever brought up, not whether it still is.    *)
IsConstructed(r) == r \in constructed

IsLive(r) == \E k \in 1..Len(live) : live[k] = TopRung(r)

(* Mutant: the slice starts one too late, and misses the oldest.           *)
ReleasesForLate(entry) ==
  [k \in 1..(Len(live) - entry - 1) |-> live[Len(live) + 1 - k]]

(* releases_for(live[entry:]): the rungs above `entry`, newest first.      *)
ReleasesFor(entry) ==
  [k \in 1..(Len(live) - entry) |-> live[Len(live) + 1 - k]]

Innermost == scopes[Len(scopes)]
InnermostIs(kind) == scopes # <<>> /\ Innermost.kind = kind

(* The last step is `repeat NAME`: at NAME's dedent the parser turns it    *)
(* into the back-edge.                                                     *)
EndsRepeating(n) ==
  LET last == plan_steps[Len(plan_steps)]
  IN last.op = "loop_exit" /\ last.to = Top(n)

(* The release tower, complete once the program is: the floors in reverse  *)
(* order of acquisition.                                                   *)
cascade == [f \in 1..Len(tower_order) |-> tower_order[Len(tower_order) + 1 - f]]

(* Mutant: a layer's floor leads back to itself.                           *)
chainToSelf(rg) == IF rg[2] > 1 THEN rg ELSE enclosing[rg[1]]

(* A floor leads to the layer under it, or to what encloses its resource.  *)
chain(rg) == IF rg[2] > 1 THEN <<rg[1], rg[2] - 1>> ELSE enclosing[rg[1]]

-----------------------------------------------------------------------------
Init ==
  /\ live = <<>> /\ tower_order = <<>> /\ enclosing = [r \in {} |-> NoRung]
  /\ scopes = <<>> /\ labels = [l \in {} |-> 0]
  /\ plan_steps = <<>> /\ done = FALSE

(* Every handler plans a step of a program that has not ended, and the     *)
(* program's length is bounded.  The bound leaves out dedents, so that any *)
(* program begun can be ended.                                             *)
Planning == ~done /\ Len(plan_steps) < MaxSteps

Emit(step) == plan_steps' = Append(plan_steps, step)

Here == Len(plan_steps) + 1

(* A label names one position; the C compiler refuses a second.            *)
PlaceAt(label, position) ==
  labels' = [l \in DOMAIN labels \cup {label} |->
               IF l = label THEN position ELSE labels[l]]

liveVars == <<live, tower_order, enclosing>>
scopeVars == <<scopes, labels>>

(* record_live: r joins the live set and the tower, above what was newest. *)
Beneath == Newest(live)
record_live(r) ==
  /\ live' = live \o Rungs(r)
  /\ tower_order' = tower_order \o Rungs(r)
  /\ enclosing' = [x \in constructed \cup {r} |->
                     IF x = r THEN Beneath ELSE enclosing[x]]

(* `NAME is CLASS (...)`, one acquire: a failure routes by the live set    *)
(* before it, its own instance having nothing to release yet, once every   *)
(* alternative has failed too.                                             *)
ConstructSingle(r) ==
  /\ Planning
  /\ r \notin Adopted \cup constructed /\ Layers[r] = 1
  /\ record_live(r)
  /\ Emit([Step("acquire", <<r, 1>>, Floor(Newest(live)), <<>>)
             EXCEPT !.tries = 1 + Alternatives[r]])
  /\ UNCHANGED scopeVars /\ UNCHANGED done

(* Mutant: every layer fails to the floor below the whole resource.        *)
LayerStepsToOneFloor(r) ==
  [i \in 1..Layers[r] |->
     [Step("acquire", <<r, i>>, Floor(Newest(live)), <<>>)
        EXCEPT !.held = live \o Prefix(Rungs(r), i - 1)]]

(* The same on a layered class: one fallible step per layer, each routing  *)
(* to the floor that releases the layers already up.  The alternatives of  *)
(* the step are not looked at.                                             *)
LayerSteps(r) ==
  [i \in 1..Layers[r] |->
     [Step("acquire", <<r, i>>,
           Floor(IF i = 1 THEN Newest(live) ELSE <<r, i - 1>>), <<>>)
        EXCEPT !.held = live \o Prefix(Rungs(r), i - 1)]]

ConstructLayered(r) ==
  /\ Planning
  /\ r \notin Adopted \cup constructed /\ Layers[r] > 1
  /\ record_live(r)
  /\ plan_steps' = plan_steps \o LayerSteps(r)
  /\ UNCHANGED scopeVars /\ UNCHANGED done

(* `NAME is adopted CLASS (...)`: no acquiring call, so it cannot fail.    *)
Adopt(r) ==
  /\ Planning
  /\ r \in Adopted \ constructed
  /\ record_live(r)
  /\ Emit(Step("adopt", TopRung(r), Nowhere, <<>>))
  /\ UNCHANGED scopeVars /\ UNCHANGED done

(* Every other step leaves the live set alone and fails, if it can, into   *)
(* the floor of the newest rung.                                           *)
PlanPlain(step) ==
  /\ Planning
  /\ Emit(step)
  /\ UNCHANGED liveVars /\ UNCHANGED scopeVars /\ UNCHANGED done

(* `r.METHOD (...)` whose receiver is still held; with `or continue`, its  *)
(* failure is repaired and rejoins the next step.                          *)
Call(r, repair) ==
  /\ r \in Called \cap constructed /\ IsLive(r)
  /\ PlanPlain([Step("call", TopRung(r), Floor(Newest(live)), <<>>)
                  EXCEPT !.repair = repair])

(* A primitive spliced out of a multi-step template of r, with or without  *)
(* an `or continue` under the call.  The splice is a named scope of its    *)
(* own, and it rewrote the receiver into its storage before the planner    *)
(* ran, so nothing here asks whether r is still held, or was constructed.  *)
SplicedCall(r, repair) ==
  /\ r \in Called /\ InnermostIs("loop")
  /\ PlanPlain([Step("spliced", TopRung(r), Floor(Newest(live)), <<>>)
                  EXCEPT !.repair = repair])

(* `ensure COND`, tied to no call.                                         *)
Ensure == PlanPlain(Step("ensure", NoRung, Floor(Newest(live)), <<>>))

(* `NAME goes`.  Two scopes of one name would emit one label twice, which  *)
(* the C compiler refuses, so a name opens once.                           *)
LoopStart(n) ==
  /\ Planning /\ Len(scopes) < MaxDepth
  /\ Top(n) \notin DOMAIN labels
  /\ scopes' = Append(scopes, [kind |-> "loop", end |-> Done(n), entry |-> Len(live)])
  /\ PlaceAt(Top(n), Here)
  /\ Emit(Step("loop_top", NoRung, Top(n), <<>>))
  /\ UNCHANGED liveVars /\ UNCHANGED done

(* `scope`, or `GUARD goes`, which skips the body and its releases.        *)
OpenBlock(end) ==
  scopes' = Append(scopes, [kind |-> "block", end |-> end, entry |-> Len(live)])

ScopeStart ==
  /\ Planning /\ Len(scopes) < MaxDepth
  /\ OpenBlock(Nowhere)
  /\ UNCHANGED <<plan_steps, labels>> /\ UNCHANGED liveVars /\ UNCHANGED done

GuardedScopeStart ==
  /\ Planning /\ Len(scopes) < MaxDepth
  /\ OpenBlock(Past(Here))
  /\ Emit(Step("scope_guard", NoRung, Past(Here), <<>>))
  /\ UNCHANGED labels /\ UNCHANGED liveVars /\ UNCHANGED done

(* A dedent: release what the scope took, drop it from the live set, and   *)
(* place the label past the end at the step that follows.                  *)
Close(op, to) ==
  /\ Emit(Step(op, NoRung, to, ReleasesFor(Innermost.entry)))
  /\ live' = Prefix(live, Innermost.entry)
  /\ IF Innermost.end = Nowhere THEN UNCHANGED labels
                                ELSE PlaceAt(Innermost.end, Here + 1)
  /\ scopes' = Prefix(scopes, Len(scopes) - 1)
  /\ UNCHANGED <<tower_order, enclosing, done>>

(* The dedent of a named scope.  With `back` its last line repeats it: the *)
(* releases come before the test and the back-edge.                        *)
LoopEnd(back) ==
  /\ ~done /\ InnermostIs("loop")
  /\ back \/ ~EndsRepeating(Innermost.end[2])
  /\ Close(IF back THEN "loop_back" ELSE "scope_release", Top(Innermost.end[2]))

ScopeEnd ==
  /\ ~done /\ InnermostIs("block")
  /\ Close("scope_release", Nowhere)

(* `leave NAME` and `repeat NAME`: one jump with two targets, releasing    *)
(* all that was taken since that scope began.  The target is an open       *)
(* scope.  The live set stays, for the path that does not jump.            *)
Leave(k) ==
  /\ scopes[k].kind = "loop"
  /\ PlanPlain(Step("loop_exit", NoRung, scopes[k].end,
                    ReleasesFor(scopes[k].entry)))

Repeat(k) ==
  /\ scopes[k].kind = "loop"
  /\ PlanPlain(Step("loop_exit", NoRung, Top(scopes[k].end[2]),
                    ReleasesFor(scopes[k].entry)))

(* `leave program` enters the tower, which does the releasing.             *)
LeaveProgram == PlanPlain(Step("loop_exit", NoRung, Floor(Newest(live)), <<>>))

(* Mutant: as `leave program`, it leaves the releasing to somebody else.   *)
RepeatProgramHolding ==
  PlanPlain(Step("loop_exit", NoRung, ProgramAgain, <<>>))

(* `repeat program` cannot enter the tower, which ends at `exit`, so it    *)
(* releases everything live in place.                                      *)
RepeatProgram == PlanPlain(Step("loop_exit", NoRung, ProgramAgain, ReleasesFor(0)))

(* The program's `end`: every scope has dedented, and the synthesised exit *)
(* step enters the tower at the newest rung still live.                    *)
Finish ==
  /\ ~done /\ scopes = <<>>
  /\ Emit(Step("exit", NoRung, Floor(Newest(live)), <<>>))
  /\ done' = TRUE
  /\ UNCHANGED liveVars /\ UNCHANGED scopeVars

PlanNext ==
  \/ \E r \in Resource :
       \/ ConstructSingle(r) \/ ConstructLayered(r) \/ Adopt(r)
       \/ \E repair \in BOOLEAN : Call(r, repair) \/ SplicedCall(r, repair)
  \/ Ensure
  \/ \E n \in Name : LoopStart(n)
  \/ ScopeStart \/ GuardedScopeStart
  \/ \E back \in BOOLEAN : LoopEnd(back)
  \/ ScopeEnd
  \/ \E k \in 1..Len(scopes) : Leave(k) \/ Repeat(k)
  \/ LeaveProgram \/ RepeatProgram
  \/ Finish

PlanSpec == Init /\ [][PlanNext]_planVars
=============================================================================
