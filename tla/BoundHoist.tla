------------------------------ MODULE BoundHoist ------------------------------
(***************************************************************************)
(* `hoist_guard_bounds` of mereoc, and the programs it rewrites.  A guard  *)
(* `ensure 0 < [NAME : 8]` reads its bound from memory; where the pass     *)
(* finds that nothing in a repeating scope changes it, the bound is read   *)
(* once, before the scope, and the guard compares with the copy.           *)
(*                                                                         *)
(* A behaviour writes a program, one step at a time, hoists its bounds,    *)
(* and runs the rewritten program.  The source is kept beside it, so that  *)
(* at each guard the two bounds can be compared.  A guarded block is       *)
(* a scope left at its first step; the pass sees through it the same.      *)
(***************************************************************************)
EXTENDS Integers, Sequences, FiniteSets

CONSTANTS
  Name,      \* the names the program assigns and reads memory through
  Attached,  \* those that are fields attached to a block, `HOST.FIELD`
  Value,     \* what a name or a memory cell holds; every value is an address
  Always,    \* the name of a jump without a `when`, and of a step with none
  MaxSteps,  \* bound: steps of a program, the ends of its scopes not counted
  MaxDepth   \* bound: scopes open at once

ASSUME AttachedAssumption == Attached \subseteq Name
ASSUME ValueAssumption == Value \subseteq Nat /\ 0 \in Value
ASSUME AlwaysAssumption == Always \notin Name
ASSUME BoundsAssumption == MaxSteps \in Nat /\ MaxDepth \in Nat

VARIABLES
  source,  \* the spliced steps, in order
  open,    \* first steps of the scopes still open, innermost last
  ends,    \* a closed scope's first step |-> its last
  home,    \* guard |-> the scope its bound is read before; 0 for in place
  phase,   \* "writing", "running", "done" or "failed"
  pc,      \* the step the rewritten program is at
  env,     \* name |-> what it holds
  memory,  \* address |-> what the cell holds
  bound    \* guard |-> its copy of the bound

program == <<source, open, ends, home>>
state == <<env, memory>>
vars == <<program, phase, pc, state, bound>>

-----------------------------------------------------------------------------
(* The steps.  `scope` is the first step of the scope that a jump names or *)
(* an end closes; 0 where there is none.                                   *)
Ops == {"loop_start", "loop_end", "back", "loop_exit", "loop_again",
        "assign", "afstore", "store", "guard"}
Step(op, scope, name) == [op |-> op, scope |-> scope, name |-> name]
Steps == [op: Ops, scope: Nat, name: Name \cup {Always}]

Guards == {g \in DOMAIN source : source[g].op = "guard"}

(* The steps of a closed scope, and those strictly inside it.              *)
Span(a) == a..ends[a]
Inside(a) == {i \in DOMAIN source : a < i /\ i < ends[a]}

-----------------------------------------------------------------------------
(* The pass.                                                               *)

(* The scopes whose last step goes back to the first.                      *)
Repeating == {a \in DOMAIN ends : source[ends[a]].op = "back"}

(* Mutant: a write inside a scope of the loop's body dirties that scope,   *)
(* and not the loop around it.                                             *)
WritesHere(a) ==
  \E i \in Inside(a) : /\ source[i].op = "store"
                       /\ \A b \in DOMAIN ends \ {a} : i \in Inside(b) => b < a

(* A step the pass takes to write memory stands in the scope.              *)
Dirty(a) == \E i \in Inside(a) : source[i].op = "store"

(* The names an `assign` of the scope gives a value.                       *)
AssignedIn(a) == {source[i].name : i \in {k \in Inside(a) : source[k].op = "assign"}}

(* The repeating scopes around g that write no memory.                     *)
Candidates(g) == {a \in Repeating : g \in Inside(a) /\ ~Dirty(a)}

(* The names those scopes' own conditions mention.                         *)
Tested(g) ==
  {source[i].name : i \in {k \in UNION {Span(a) : a \in Candidates(g)} :
                             source[k].op \in {"loop_exit", "loop_end", "back"}}}

(* The candidates in which g's bound stays the same, none where GCC would  *)
(* prove the check redundant by itself.                                    *)
Invariants(g) ==
  {a \in Candidates(g) : source[g].name \notin AssignedIn(a) \cup Tested(g)}

(* The outermost of them takes the load; a guard without any keeps its own.*)
IsHome(g, a) ==
  IF Invariants(g) = {} THEN a = 0
  ELSE a \in Invariants(g) /\ \A b \in Invariants(g) : a <= b
Homes == {h \in [Guards -> {0} \cup DOMAIN ends] : \A g \in Guards : IsHome(g, h[g])}

-----------------------------------------------------------------------------
Init ==
  /\ source = <<>> /\ open = <<>> /\ ends = [a \in {} |-> 0]
  /\ home = [g \in {} |-> 0] /\ phase = "writing" /\ pc = 0
  /\ env = [n \in Name |-> 0] /\ memory \in [Value -> Value]
  /\ bound = [g \in {} |-> 0]

(* Writing: a step is appended to a program of bounded length.             *)
Writing == phase = "writing" /\ Len(source) < MaxSteps + Cardinality(DOMAIN ends)

Write(step) == Writing /\ source' = Append(source, step)

(* `NAME goes`.                                                            *)
OpenScope ==
  /\ Len(open) < MaxDepth
  /\ Write(Step("loop_start", 0, Always))
  /\ open' = Append(open, Len(source) + 1)
  /\ UNCHANGED <<ends, home, phase, pc, state, bound>>

(* `leave NAME` and `repeat NAME`, of any scope around the step.           *)
Jump ==
  /\ \E op \in {"loop_exit", "loop_again"}, k \in DOMAIN open,
        name \in Name \cup {Always} : Write(Step(op, open[k], name))
  /\ UNCHANGED <<open, ends, home, phase, pc, state, bound>>

(* `NAME is VALUE`, `HOST.FIELD is VALUE` and `[NAME : 8] is VALUE`.       *)
Assignment ==
  /\ \E name \in Name :
       \/ Write(Step(IF name \in Attached THEN "afstore" ELSE "assign", 0, name))
       \/ Write(Step("store", 0, name))
  /\ UNCHANGED <<open, ends, home, phase, pc, state, bound>>

(* `ensure 0 < [NAME : 8]`.                                                *)
Ensure ==
  /\ \E name \in Name : Write(Step("guard", 0, name))
  /\ UNCHANGED <<open, ends, home, phase, pc, state, bound>>

(* The dedent that closes the innermost scope.  A `repeat` of that scope   *)
(* as the last step of its body is the way back, not a step of its own.    *)
CloseScope ==
  /\ phase = "writing" /\ open # <<>>
  /\ LET a == open[Len(open)]
         last == source[Len(source)]
     IN /\ last.op = "loop_again" => last.scope # a
        /\ \/ source' = Append(source, Step("loop_end", a, Always))
           \/ \E name \in Name \cup {Always} :
                source' = Append(source, Step("back", a, name))
        /\ ends' = [b \in DOMAIN ends \cup {a} |->
                      IF b = a THEN Len(source) + 1 ELSE ends[b]]
  /\ open' = SubSeq(open, 1, Len(open) - 1)
  /\ UNCHANGED <<home, phase, pc, state, bound>>

-----------------------------------------------------------------------------
(* Running the rewritten program.                                          *)

(* Arriving at a step from the one before it, or from a `leave`, passes    *)
(* the loads placed before the step.                                       *)
Arrive(i) ==
  /\ pc' = i
  /\ bound' = [g \in DOMAIN bound |->
                 IF home[g] = i THEN memory'[env'[source[g].name]] ELSE bound[g]]

(* A scope's label stands behind the loads.                                *)
Repeat(a) == pc' = a /\ UNCHANGED bound

After(i) == i + 1

(* The program is complete: `plan` hoists its bounds, and it starts.       *)
Hoist ==
  /\ phase = "writing" /\ open = <<>> /\ source # <<>>
  /\ home' \in Homes
  /\ bound' = [g \in Guards |->
                 IF home'[g] = 1 THEN memory[env[source[g].name]] ELSE 0]
  /\ pc' = 1 /\ phase' = "running"
  /\ UNCHANGED <<source, open, ends, state>>

At(op) == phase = "running" /\ pc \in DOMAIN source /\ source[pc].op = op
Here == source[pc]

(* A scope's first step, and the last of one that nothing repeats.         *)
PassMark ==
  /\ At("loop_start") \/ At("loop_end")
  /\ UNCHANGED <<program, phase, state>>
  /\ Arrive(After(pc))

(* `repeat`, in the body or as its last step.                              *)
GoBack ==
  /\ At("loop_again") \/ At("back")
  /\ UNCHANGED <<program, phase, state>>
  /\ \/ Repeat(Here.scope)
     \/ Here.name # Always /\ Arrive(After(pc))

(* `leave`: past the scope's last step.                                    *)
LeaveScope ==
  /\ At("loop_exit")
  /\ UNCHANGED <<program, phase, state>>
  /\ \/ Arrive(After(ends[Here.scope]))
     \/ Here.name # Always /\ Arrive(After(pc))

(* A name takes a value.                                                   *)
SetName ==
  /\ At("assign") \/ At("afstore")
  /\ \E v \in Value : env' = [env EXCEPT ![Here.name] = v]
  /\ UNCHANGED <<program, phase, memory>>
  /\ Arrive(After(pc))

(* The cell a name points at takes a value.                                *)
StoreCell ==
  /\ At("store")
  /\ \E v \in Value : memory' = [memory EXCEPT ![env[Here.name]] = v]
  /\ UNCHANGED <<program, phase, env>>
  /\ Arrive(After(pc))

(* What the source's guard would read now, and what the emitted one does.  *)
SourceBound(g) == memory[env[source[g].name]]
EmittedBound(g) == IF home[g] = 0 THEN SourceBound(g) ELSE bound[g]

(* The guard decides on the emitted bound.                                 *)
Check ==
  /\ At("guard")
  /\ UNCHANGED <<program, state>>
  /\ IF 0 < EmittedBound(pc)
     THEN Arrive(After(pc)) /\ UNCHANGED phase
     ELSE phase' = "failed" /\ UNCHANGED <<pc, bound>>

(* Past the last step.                                                     *)
Exit ==
  /\ phase = "running" /\ pc = Len(source) + 1
  /\ phase' = "done"
  /\ UNCHANGED <<program, pc, state, bound>>

WriteSteps == OpenScope \/ Jump \/ Assignment \/ Ensure \/ CloseScope
RunSteps == \/ PassMark \/ GoBack \/ LeaveScope \/ SetName \/ StoreCell
            \/ Check \/ Exit
Next == WriteSteps \/ Hoist \/ RunSteps

Spec == Init /\ [][Next]_vars

-----------------------------------------------------------------------------
(* Properties.                                                             *)

(* Types: the run stays on the program's steps and their end, a bound is   *)
(* read before a scope the program has, and holds a value.                 *)
TypeOK ==
  /\ source \in Seq(Steps)
  /\ open \in Seq(DOMAIN source)
  /\ ends \in [DOMAIN ends -> DOMAIN source] /\ DOMAIN ends \subseteq DOMAIN source
  /\ phase \in {"writing", "running", "done", "failed"}
  /\ pc \in 0..Len(source) + 1
  /\ env \in [Name -> Value] /\ memory \in [Value -> Value]
  /\ DOMAIN home \subseteq Guards
  /\ home \in [DOMAIN home -> {0} \cup DOMAIN ends]
  /\ bound \in [DOMAIN home -> Value]

(* The check a guard makes is the one its line asks for: however the       *)
(* program came to it, through whatever nesting, jumps and assignments,    *)
(* the bound it compares with is the one the source would read there.      *)
SameCheck == At("guard") => EmittedBound(pc) = SourceBound(pc)
=============================================================================
