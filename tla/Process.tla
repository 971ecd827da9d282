------------------------------- MODULE Process -------------------------------
(***************************************************************************)
(* The generated program: one `_start` running the steps `plan` planned,   *)
(* followed by the release tower and the exit landmark.  `transpile` lays  *)
(* them out as one line of code: positions 1..Len(plan_steps) are the      *)
(* steps, then come the floors of the tower, newest resource first, then   *)
(* `exit`.  Conditions, call results and signals are the environment's:    *)
(* each test may go either way and each fallible call may fail.            *)
(***************************************************************************)
EXTENDS Planner

VARIABLES
  pc,       \* position of the next step; 0 while still compiling
  released, \* releases already performed within the current step
  attempt,  \* which alternative of the current acquire is tried
  held,     \* rungs the process really holds, oldest first
  mode      \* "compiling", "running", "unwinding" or "exited"

runVars == <<pc, released, attempt, held, mode>>
vars == <<live, tower_order, enclosing, scopes, labels, plan_steps, done,
          pc, released, attempt, held, mode>>

-----------------------------------------------------------------------------
(* Layout.                                                                 *)

FirstFloor == Len(plan_steps) + 1
ExitAddress == FirstFloor + Len(tower_order)
FloorAddress(rg) ==
  IF rg = NoRung THEN ExitAddress
  ELSE Len(plan_steps) + (CHOOSE f \in 1..Len(tower_order) : cascade[f] = rg)

Address(label) ==
  CASE label[1] = "release" -> FloorAddress(label[2])
    [] label = ProgramAgain -> 1
    [] OTHER -> labels[label]

step == plan_steps[pc]
At(ops) == mode = "running" /\ pc \in 1..Len(plan_steps) /\ step.op \in ops
ReleasesLeft == released < Len(step.releases)

InTower == mode = "unwinding" /\ pc \in FirstFloor..(ExitAddress - 1)
floor == cascade[pc - Len(plan_steps)]

(* Mutant: the floors are a ladder, not a tree.                            *)
FallsThroughAlways == pc + 1 < ExitAddress

FallsThrough ==
  /\ pc + 1 < ExitAddress
  /\ chain(floor) = cascade[pc + 1 - Len(plan_steps)]

(* What is left once rg is released: its newest acquisition goes.          *)
Without(s, rg) ==
  LET at == {k \in 1..Len(s) : s[k] = rg}
      newest == CHOOSE k \in at : \A j \in at : j <= k
  IN IF at = {} THEN s ELSE Prefix(s, newest - 1) \o SubSeq(s, newest + 1, Len(s))

-----------------------------------------------------------------------------
RunInit == pc = 0 /\ released = 0 /\ attempt = 1 /\ held = <<>> /\ mode = "compiling"

Goto(label) == pc' = Address(label) /\ released' = 0 /\ attempt' = 1
Continue == pc' = pc + 1 /\ released' = 0 /\ attempt' = 1

(* Compilation: the process does not exist yet.                            *)
Compile == mode = "compiling" /\ PlanNext /\ UNCHANGED runVars

(* The kernel starts the program at its first step.                        *)
Start ==
  /\ mode = "compiling" /\ done
  /\ pc' = 1 /\ mode' = "running"
  /\ UNCHANGED <<released, attempt, held>> /\ UNCHANGED planVars

(* The first attempt that succeeds jumps to the step's resume label.       *)
AcquireOk ==
  /\ At({"acquire"})
  /\ held' = Append(held, step.rung)
  /\ Continue
  /\ UNCHANGED mode /\ UNCHANGED planVars

(* A failed attempt jumps to the next one.                                 *)
NextAttempt ==
  /\ At({"acquire"}) /\ attempt < step.tries
  /\ attempt' = attempt + 1
  /\ UNCHANGED <<pc, released, held, mode>> /\ UNCHANGED planVars

(* What is adopted is already open: ownership of the base layer, no call.  *)
AdoptStep ==
  /\ At({"adopt"})
  /\ held' = Append(held, <<step.rung[1], 1>>)
  /\ Continue
  /\ UNCHANGED mode /\ UNCHANGED planVars

(* A call or a check that succeeds, an `or continue` repairing a failure,  *)
(* and a label, all go on to the next step.                                *)
Proceed ==
  /\ At({"call", "spliced", "ensure", "loop_top"})
  /\ Continue
  /\ UNCHANGED <<held, mode>> /\ UNCHANGED planVars

(* A failed step: its error block ends in a jump to the floor chosen when  *)
(* the step was planned.  `or continue` repairs a call, but was lost from  *)
(* a template's call when that was spliced.                                *)
Fault ==
  /\ At({"acquire", "call", "spliced", "ensure"}) /\ attempt = step.tries
  /\ ~(step.op = "call" /\ step.repair)
  /\ Goto(step.to)
  /\ mode' = "unwinding"
  /\ UNCHANGED held /\ UNCHANGED planVars

(* `if (!GUARD) goto past`                                                 *)
GuardStep ==
  /\ At({"scope_guard"})
  /\ Continue \/ Goto(step.to)
  /\ UNCHANGED <<held, mode>> /\ UNCHANGED planVars

(* One release of a scope's end or of a jump.  Its result is not looked at *)
ReleaseStep ==
  /\ At({"scope_release", "loop_back", "loop_exit"})
  /\ ReleasesLeft
  /\ held' = Without(held, step.releases[released + 1])
  /\ released' = released + 1
  /\ UNCHANGED <<pc, attempt, mode>> /\ UNCHANGED planVars

(* The end of a scope after its releases: fall out, or with a back-edge    *)
(* test it.                                                                *)
ScopeEndStep ==
  /\ At({"scope_release", "loop_back"})
  /\ ~ReleasesLeft
  /\ Continue \/ (step.op = "loop_back" /\ Goto(step.to))
  /\ UNCHANGED <<held, mode>> /\ UNCHANGED planVars

(* A jump not taken: its releases are inside the test.                     *)
JumpNotTaken ==
  /\ At({"loop_exit"}) /\ released = 0
  /\ Continue
  /\ UNCHANGED <<held, mode>> /\ UNCHANGED planVars

(* A jump taken, after its releases.  `leave program` lands in the tower.  *)
JumpTaken ==
  /\ At({"loop_exit"}) /\ ~ReleasesLeft
  /\ Goto(step.to)
  /\ mode' = IF step.to[1] = "release" THEN "unwinding" ELSE mode
  /\ UNCHANGED held /\ UNCHANGED planVars

(* The end of the program: fall into the first floor when that is the      *)
(* newest live resource's, else jump to it, or past the tower.             *)
ExitStep ==
  /\ At({"exit"})
  /\ IF tower_order # <<>> /\ step.to # Floor(cascade[1])
       THEN Goto(step.to)
       ELSE Continue
  /\ mode' = "unwinding"
  /\ UNCHANGED held /\ UNCHANGED planVars

(* One floor: release, then fall through when the next floor is the one    *)
(* it chains to, else jump there.                                          *)
FloorStep ==
  /\ InTower
  /\ held' = Without(held, floor)
  /\ IF FallsThrough THEN Continue ELSE Goto(Floor(chain(floor)))
  /\ UNCHANGED mode /\ UNCHANGED planVars

(* exit_group                                                              *)
ExitGroup ==
  /\ mode = "unwinding" /\ pc = ExitAddress
  /\ mode' = "exited"
  /\ UNCHANGED <<pc, released, attempt, held>> /\ UNCHANGED planVars

(* An exited process takes no step.                                        *)
Exited == mode = "exited" /\ UNCHANGED vars

Run ==
  \/ Start
  \/ AcquireOk \/ NextAttempt \/ AdoptStep \/ Proceed \/ Fault \/ GuardStep
  \/ ReleaseStep \/ ScopeEndStep \/ JumpNotTaken \/ JumpTaken
  \/ ExitStep \/ FloorStep \/ ExitGroup

ProcessInit == Init /\ RunInit
ProcessNext == Compile \/ Run \/ Exited

(* The processor keeps executing: a running program never just stops.      *)
Fairness == WF_vars(Run)
ProcessSpec == ProcessInit /\ [][ProcessNext]_vars /\ Fairness

-----------------------------------------------------------------------------
(* Properties.                                                             *)

TypeOK ==
  /\ mode \in {"compiling", "running", "unwinding", "exited"}
  /\ pc \in (IF mode = "compiling" THEN {0} ELSE 1..ExitAddress)
  /\ released \in Nat /\ attempt \in Nat /\ held \in Seq(Rung)

(* Whatever is released next, in a scope's end, a jump or a floor of the   *)
(* tower, is held and is the newest thing held: releases run in reverse    *)
(* order of acquisition, and nothing is given back twice.                  *)
ReleasesTheNewest ==
  /\ (At({"scope_release", "loop_back", "loop_exit"}) /\ ReleasesLeft)
       => Newest(held) = step.releases[released + 1]
  /\ InTower => Newest(held) = floor

(* However the program came to its exit landmark, it holds nothing there.  *)
NothingHeldAtExit ==
  (mode = "exited" \/ (mode = "unwinding" /\ pc = ExitAddress)) => held = <<>>

(* No loop, restart or jump reaches an acquisition with the thing it is    *)
(* about to acquire still held, which would lose the first one.            *)
AcquiresAfresh ==
  At({"acquire", "adopt"}) => \A k \in 1..Len(held) : held[k] # step.rung

(* A method call the planner accepted runs with its receiver held.         *)
ReceiverIsHeld ==
  At({"call"}) => \E k \in 1..Len(held) : held[k] = step.rung

(* The same of every method call, those of multi-step templates included:  *)
(* "its name ends with that scope too. Naming it afterwards is refused".   *)
NothingNamedAfterRelease ==
  At({"call", "spliced"}) => \E k \in 1..Len(held) : held[k] = step.rung

(* A call with an `or continue` under it never sends the program into the  *)
(* release tower.                                                          *)
RepairIsHonoured ==
  [][mode = "running" /\ mode' = "unwinding" => ~step.repair]_vars

(* A construction gives up only once every alternative written under it    *)
(* has been tried.                                                         *)
TriesEveryAlternative ==
  [][At({"acquire"}) /\ mode' = "unwinding"
       => attempt = 1 + Alternatives[step.rung[1]]]_vars

(* Once a check failed, or the program left itself, it runs to its end.    *)
UnwindingEnds == mode = "unwinding" ~> mode = "exited"

(* The generated program implements the promise of Raii: what it holds is  *)
(* the stack of things owned, and compiling it is not yet working.         *)
Promise == INSTANCE Raii WITH
  Thing <- Rung,
  owned <- held,
  phase <- CASE mode \in {"compiling", "running"} -> "working"
             [] mode = "unwinding" -> "winding down"
             [] mode = "exited" -> "gone"
KeepsPromise == Promise!Spec
=============================================================================
