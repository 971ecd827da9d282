---------------------------- MODULE ProcessProofs ----------------------------
(***************************************************************************)
(* What `plan` establishes about every program it accepts, whatever its    *)
(* length, resources and scopes, and what the generated program then does  *)
(* with the resources it holds, for every outcome of its calls.            *)
(*                                                                         *)
(* Each planned step is planned against the live set that the step before  *)
(* it leaves, each jump lands where what it leaves held is what is live    *)
(* there, and each failure enters the tower at the newest rung.  The       *)
(* process therefore always holds exactly what its next step was planned   *)
(* against: scopes, jumps and the tower give back the newest first,        *)
(* nothing twice and nothing left at the exit.                             *)
(***************************************************************************)
EXTENDS Process, SequenceTheorems, TLAPS

-----------------------------------------------------------------------------
(* The invariant of the planning.                                          *)

(* An adopted resource has one layer, which is the one it takes over.      *)
SingleLayerAdoption == \A r \in Adopted : Layers[r] = 1

PlanTypeOK ==
  /\ live \in Seq(Rung) /\ tower_order \in Seq(Rung)
  /\ constructed \subseteq Resource
  /\ enclosing \in [constructed -> Rung \cup {NoRung}]
  /\ scopes \in Seq(Scope)
  /\ DOMAIN labels \subseteq ScopeLabels /\ labels \in [DOMAIN labels -> Nat]
  /\ plan_steps \in Seq(PlanStep) /\ done \in BOOLEAN

(* Each rung chains to the one before it: a held set the tower can unwind. *)
Chained(s) ==
  \A k \in 1..Len(s) :
    /\ s[k][1] \in constructed
    /\ chain(s[k]) = IF k = 1 THEN NoRung ELSE s[k - 1]

(* What the step leaves held, and what is held at a position of the code.  *)
Landing(st) == Prefix(st.held, Len(st.held) - Len(st.releases))
After(st) ==
  CASE st.op \in {"acquire", "adopt"} -> Append(st.held, st.rung)
    [] st.op \in {"scope_release", "loop_back"} -> Landing(st)
    [] OTHER -> st.held
HeldAt(p) == IF p <= Len(plan_steps) THEN plan_steps[p].held ELSE live

(* Every rung of what was ever brought up has a floor.                     *)
TowerComplete ==
  \A r \in constructed : \A i \in 1..Layers[r] :
    \E f \in 1..Len(tower_order) : tower_order[f] = <<r, i>>

EveryHeldChained ==
  /\ Chained(live)
  /\ \A p \in 1..Len(plan_steps) : Chained(plan_steps[p].held)

(* A step is planned against what the one before it leaves.                *)
StepsFollow ==
  /\ HeldAt(1) = <<>>
  /\ \A p \in 1..Len(plan_steps) : HeldAt(p + 1) = After(plan_steps[p])

(* Releases are the newest of what is held, newest first.                  *)
ReleasesNewestFirst(st) ==
  /\ Len(st.releases) <= Len(st.held)
  /\ \A k \in 1..Len(st.releases) :
       st.releases[k] = st.held[Len(st.held) + 1 - k]

FailsTo(st) ==
  st.op \in {"acquire", "call", "spliced", "ensure", "exit"}
    => st.to = Floor(Newest(st.held))

TakesAfresh(st) ==
  st.op \in {"acquire", "adopt"} => \A k \in 1..Len(st.held) : st.held[k] # st.rung

NamesWhatIsHeld(st) ==
  st.op = "call" => \E k \in 1..Len(st.held) : st.held[k] = st.rung

(* Scopes' ends and jumps release; what is adopted is a base layer.        *)
StepShape(st) ==
  /\ st.op \notin {"scope_release", "loop_back", "loop_exit"} => st.releases = <<>>
  /\ st.op = "adopt" => st.rung = <<st.rung[1], 1>>

(* A jump leaves held what is live where it lands: at a label already      *)
(* placed, past the end of a scope still open, at the program's beginning, *)
(* or in the tower.                                                        *)
LandsRight(st) ==
  \/ st.to \in DOMAIN labels /\ HeldAt(labels[st.to]) = Landing(st)
  \/ /\ st.to # Nowhere
     /\ \E k \in 1..Len(scopes) :
          st.to = scopes[k].end /\ Prefix(live, scopes[k].entry) = Landing(st)
  \/ st.to = ProgramAgain /\ Landing(st) = <<>>
  \/ st.op = "loop_exit" /\ st.releases = <<>> /\ st.to = Floor(Newest(st.held))

StepOK(st) ==
  /\ ReleasesNewestFirst(st) /\ FailsTo(st) /\ TakesAfresh(st)
  /\ NamesWhatIsHeld(st) /\ StepShape(st)
  /\ st.op \in {"loop_exit", "loop_back", "scope_guard"} => LandsRight(st)

StepsOK == \A p \in 1..Len(plan_steps) : StepOK(plan_steps[p])

(* Scopes nest, and the top of a named one was planned against its entry.  *)
ScopesNested ==
  \A k \in 1..Len(scopes) :
    /\ scopes[k].entry <= Len(live)
    /\ \A j \in 1..k : scopes[j].entry <= scopes[k].entry
    /\ scopes[k].kind = "loop" =>
         \E n \in Name :
           /\ scopes[k].end = Done(n) /\ Top(n) \in DOMAIN labels
           /\ HeldAt(labels[Top(n)]) = Prefix(live, scopes[k].entry)

(* The end label of an open scope is its own, and not placed yet.          *)
EndsFresh ==
  \A k \in 1..Len(scopes) : scopes[k].end # Nowhere =>
    /\ scopes[k].end \notin DOMAIN labels
    /\ \A j \in 1..Len(scopes) : scopes[j].end = scopes[k].end => j = k

(* What makes the next label fresh: a name's end comes after its top, and  *)
(* a guard's label is numbered by the step that tests it.                  *)
LabelsNumbered ==
  \A l \in DOMAIN labels \cup {scopes[k].end : k \in 1..Len(scopes)} :
    /\ l[1] = "past" => l[2] \in 0..Len(plan_steps)
    /\ l[1] = "done" => Top(l[2]) \in DOMAIN labels

LabelsPlaced ==
  \A l \in DOMAIN labels :
    1 <= labels[l] /\ labels[l] <= Len(plan_steps) + (IF done THEN 0 ELSE 1)

ExitIsLast ==
  /\ done => /\ scopes = <<>> /\ plan_steps # <<>>
             /\ plan_steps[Len(plan_steps)].op = "exit"
  /\ \A p \in 1..Len(plan_steps) :
       plan_steps[p].op = "exit" => done /\ p = Len(plan_steps)

PlanInv ==
  /\ PlanTypeOK
  /\ TowerComplete /\ EveryHeldChained /\ StepsFollow /\ StepsOK
  /\ ScopesNested /\ EndsFresh /\ LabelsNumbered /\ LabelsPlaced /\ ExitIsLast

-----------------------------------------------------------------------------
(* Sequences.                                                              *)

(* A function on 1..n is a sequence of length n.                           *)
LEMMA FunctionIsSeq ==
  ASSUME NEW S, NEW n \in Nat, NEW f \in [1..n -> S]
  PROVE  f \in Seq(S) /\ Len(f) = n
<1>1. f \in Seq(S)
  BY SeqDef
<1>2. DOMAIN f = 1..n /\ DOMAIN f = 1..Len(f) /\ Len(f) \in Nat
  BY <1>1, LenProperties
<1> QED
  BY <1>1, <1>2

(* A prefix has its length, and the elements it had.                       *)
LEMMA PrefixProperties ==
  ASSUME NEW S, NEW s \in Seq(S), NEW n \in 0..Len(s)
  PROVE  /\ Prefix(s, n) \in Seq(S)
         /\ Len(Prefix(s, n)) = n
         /\ \A k \in 1..n : Prefix(s, n)[k] = s[k]
<1>1. \A k \in 1..n : s[k] \in S
  BY LenProperties
<1>2. QED
  BY <1>1, SubSeqProperties, LenProperties DEF Prefix

(* A prefix of a prefix is a prefix.                                       *)
LEMMA PrefixOfPrefix ==
  ASSUME NEW S, NEW s \in Seq(S), NEW n \in 0..Len(s), NEW m \in 0..n
  PROVE  Prefix(Prefix(s, n), m) = Prefix(s, m)
<1>1. m \in 0..Len(s) /\ m \in 0..Len(Prefix(s, n)) /\ Prefix(s, n) \in Seq(S)
  BY PrefixProperties, LenProperties
<1>2. /\ Prefix(Prefix(s, n), m) \in Seq(S) /\ Prefix(s, m) \in Seq(S)
      /\ Len(Prefix(Prefix(s, n), m)) = m /\ Len(Prefix(s, m)) = m
  BY <1>1, PrefixProperties
<1>3. \A k \in 1..m : Prefix(Prefix(s, n), m)[k] = Prefix(s, m)[k]
  <2>1. TAKE k \in 1..m
  <2>2. Prefix(Prefix(s, n), m)[k] = Prefix(s, n)[k] /\ Prefix(s, m)[k] = s[k]
    BY <1>1, PrefixProperties
  <2>3. k \in 1..n
    BY LenProperties
  <2> QED
    BY <2>2, <2>3, PrefixProperties
<1> QED
  BY <1>2, <1>3, SeqEqual

(* What is appended does not reach a prefix.                               *)
LEMMA PrefixOfConcat ==
  ASSUME NEW S, NEW s \in Seq(S), NEW t \in Seq(S), NEW n \in 0..Len(s)
  PROVE  Prefix(s \o t, n) = Prefix(s, n)
<1>1. s \o t \in Seq(S) /\ n \in 0..Len(s \o t)
  BY ConcatProperties, LenProperties
<1>2. /\ Prefix(s \o t, n) \in Seq(S) /\ Prefix(s, n) \in Seq(S)
      /\ Len(Prefix(s \o t, n)) = n /\ Len(Prefix(s, n)) = n
  BY <1>1, PrefixProperties
<1>3. \A k \in 1..n : Prefix(s \o t, n)[k] = Prefix(s, n)[k]
  <2>1. TAKE k \in 1..n
  <2>2. Prefix(s \o t, n)[k] = (s \o t)[k] /\ Prefix(s, n)[k] = s[k]
    BY <1>1, PrefixProperties
  <2>3. k \in 1..Len(s) + Len(t) /\ k <= Len(s)
    BY LenProperties
  <2> QED
    BY <2>2, <2>3, ConcatProperties
<1> QED
  BY <1>2, <1>3, SeqEqual

(* The longest and the shortest prefix.                                    *)
LEMMA PrefixFull ==
  ASSUME NEW S, NEW s \in Seq(S)
  PROVE  Prefix(s, Len(s)) = s /\ Prefix(s, 0) = <<>>
BY SubSeqFull, SubSeqEmpty DEF Prefix

-----------------------------------------------------------------------------
(* Rungs.                                                                  *)

(* A rung is a resource and one of its layers.                             *)
LEMMA RungDef ==
  /\ \A r \in Resource : \A i \in 1..Layers[r] : <<r, i>> \in Rung
  /\ \A rg \in Rung : /\ rg[1] \in Resource /\ rg[2] \in 1..Layers[rg[1]]
                      /\ rg = <<rg[1], rg[2]>>
  /\ NoRung \notin Rung
<1>1. \A r \in Resource : \A i \in 1..Layers[r] : <<r, i>> \in Rung
  BY DEF Rung
<1>2. \A rg \in Rung : /\ rg[1] \in Resource /\ rg[2] \in 1..Layers[rg[1]]
                       /\ rg = <<rg[1], rg[2]>>
  BY DEF Rung
<1>3. NoRung \notin Rung
  BY <1>2, NoRungAssumption, LayersAssumption
<1> QED
  BY <1>1, <1>2, <1>3

(* The rungs of a resource, base layer first.                              *)
LEMMA RungsProperties ==
  ASSUME NEW r \in Resource
  PROVE  /\ Layers[r] \in Nat /\ Layers[r] >= 1
         /\ Rungs(r) \in Seq(Rung) /\ Len(Rungs(r)) = Layers[r]
         /\ \A i \in 1..Layers[r] : Rungs(r)[i] = <<r, i>>
         /\ TopRung(r) = Rungs(r)[Layers[r]] /\ TopRung(r) \in Rung
<1>1. Layers[r] \in Nat /\ Layers[r] >= 1
  BY LayersAssumption
<1>2. \A i \in 1..Layers[r] : <<r, i>> \in Rung
  BY RungDef
<1>3. Rungs(r) \in [1..Layers[r] -> Rung]
  BY <1>2 DEF Rungs
<1>4. Rungs(r) \in Seq(Rung) /\ Len(Rungs(r)) = Layers[r]
  BY <1>1, <1>3, FunctionIsSeq
<1>5. \A i \in 1..Layers[r] : Rungs(r)[i] = <<r, i>>
  BY DEF Rungs
<1> QED
  BY <1>1, <1>2, <1>4, <1>5 DEF TopRung

(* The newest of a sequence of rungs is one of them, or there is none.     *)
LEMMA NewestProperties ==
  ASSUME NEW s \in Seq(Rung)
  PROVE  /\ Newest(s) \in Rung \cup {NoRung}
         /\ s = <<>> <=> Newest(s) = NoRung
         /\ s # <<>> => Len(s) >= 1 /\ Newest(s) = s[Len(s)]
BY RungDef, LenProperties, EmptySeq DEF Newest

-----------------------------------------------------------------------------
(* Planned steps.                                                          *)

(* The labels the operations use are labels.                               *)
LEMMA LabelTypes ==
  /\ \A rg \in Rung \cup {NoRung} : Floor(rg) \in Labels
  /\ \A n \in Name : Top(n) \in ScopeLabels /\ Done(n) \in ScopeLabels
  /\ \A i \in Nat : Past(i) \in ScopeLabels
  /\ ScopeLabels \subseteq Labels /\ ProgramAgain \in Labels /\ Nowhere \in Labels
  /\ Nowhere \notin ScopeLabels
BY DEF Labels, ScopeLabels, EndLabels, Floor, Top, Done, Past, ProgramAgain, Nowhere

(* The fields of a planned step have their types.                          *)
LEMMA StepFields ==
  ASSUME NEW st \in PlanStep
  PROVE  /\ st.held \in Seq(Rung) /\ st.releases \in Seq(Rung)
         /\ st.rung \in Rung \cup {NoRung} /\ st.to \in Labels /\ st.op \in Ops
BY DEF PlanStep

(* A step planned now is a planned step.                                   *)
LEMMA StepIsPlanStep ==
  ASSUME PlanTypeOK, NEW op \in Ops, NEW rung \in Rung \cup {NoRung},
         NEW to \in Labels, NEW releases \in Seq(Rung)
  PROVE  Step(op, rung, to, releases) \in PlanStep
<1>1. live \in Seq(Rung)
  BY DEF PlanTypeOK
<1> QED
  BY <1>1 DEF PlanStep, Step

(* The release list of a scope or a jump, element by element.              *)
LEMMA ReleasesForProperties ==
  ASSUME PlanTypeOK, NEW entry \in 0..Len(live)
  PROVE  /\ ReleasesFor(entry) \in Seq(Rung)
         /\ Len(ReleasesFor(entry)) = Len(live) - entry
         /\ \A k \in 1..(Len(live) - entry) :
              ReleasesFor(entry)[k] = live[Len(live) + 1 - k]
<1>1. Len(live) \in Nat /\ Len(live) - entry \in Nat
  BY LenProperties DEF PlanTypeOK
<1>2. \A k \in 1..(Len(live) - entry) : live[Len(live) + 1 - k] \in Rung
  BY <1>1, ElementOfSeq DEF PlanTypeOK
<1>3. ReleasesFor(entry) \in [1..(Len(live) - entry) -> Rung]
  BY <1>2 DEF ReleasesFor
<1> QED
  BY <1>1, <1>3, FunctionIsSeq DEF ReleasesFor

(* What a step leaves held is a sequence of rungs.                         *)
LEMMA LandingProperties ==
  ASSUME NEW st \in PlanStep, ReleasesNewestFirst(st)
  PROVE  /\ Len(st.held) - Len(st.releases) \in 0..Len(st.held)
         /\ Landing(st) \in Seq(Rung)
         /\ Len(Landing(st)) = Len(st.held) - Len(st.releases)
<1>1. /\ st.held \in Seq(Rung) /\ Len(st.held) \in Nat
      /\ Len(st.releases) \in Nat /\ Len(st.releases) <= Len(st.held)
  BY StepFields, LenProperties DEF ReleasesNewestFirst
<1>2. Len(st.held) - Len(st.releases) \in 0..Len(st.held)
  <2>1. \A a, b \in Nat : b <= a => a - b \in 0..a
    OBVIOUS
  <2> QED
    BY <1>1, <2>1
<1> QED
  BY <1>1, <1>2, PrefixProperties DEF Landing

(* The same rungs chain the same way once more is constructed.             *)
LEMMA ChainedKept ==
  ASSUME constructed \subseteq constructed',
         \A r \in constructed : enclosing'[r] = enclosing[r],
         NEW s, Chained(s)
  PROVE  Chained(s)'
BY DEF Chained, chain

(* Unwinding part of the way leaves what can still be unwound.             *)
LEMMA ChainedPrefix ==
  ASSUME NEW s \in Seq(Rung), Chained(s), NEW n \in 0..Len(s)
  PROVE  Chained(Prefix(s, n))
<1>1. /\ Len(Prefix(s, n)) = n /\ \A k \in 1..n : Prefix(s, n)[k] = s[k]
      /\ Len(s) \in Nat
  BY PrefixProperties, LenProperties
<1> QED
  BY <1>1 DEF Chained

(* Planning more steps, each against what the one before it leaves, moves  *)
(* nothing that was planned already.                                       *)
LEMMA GrowKeeps ==
  ASSUME PlanTypeOK, StepsFollow,
         NEW new \in Seq(PlanStep), new # <<>>, plan_steps' = plan_steps \o new,
         new[1].held = live,
         \A i \in 1..(Len(new) - 1) : new[i + 1].held = After(new[i]),
         live' = After(new[Len(new)])
  PROVE  /\ plan_steps' \in Seq(PlanStep)
         /\ Len(plan_steps') = Len(plan_steps) + Len(new)
         /\ Len(new) \in Nat /\ Len(new) >= 1 /\ Len(plan_steps) \in Nat
         /\ \A p \in 1..Len(plan_steps) : plan_steps'[p] = plan_steps[p]
         /\ \A i \in 1..Len(new) : plan_steps'[Len(plan_steps) + i] = new[i]
         /\ \A p \in 1..Len(plan_steps') :
              \/ p \in 1..Len(plan_steps)
              \/ \E i \in 1..Len(new) : p = Len(plan_steps) + i
         /\ \A p \in 1..(Len(plan_steps) + 1) : HeldAt(p)' = HeldAt(p)
         /\ StepsFollow'
<1>1. /\ plan_steps \in Seq(PlanStep) /\ Len(plan_steps) \in Nat
      /\ Len(new) \in Nat /\ Len(new) >= 1
  BY LenProperties, EmptySeq DEF PlanTypeOK
<1>2. /\ plan_steps' \in Seq(PlanStep)
      /\ Len(plan_steps') = Len(plan_steps) + Len(new)
      /\ \A p \in 1..Len(plan_steps) : plan_steps'[p] = plan_steps[p]
      /\ \A i \in 1..Len(new) : plan_steps'[Len(plan_steps) + i] = new[i]
  <2>1. /\ plan_steps' \in Seq(PlanStep)
        /\ Len(plan_steps') = Len(plan_steps) + Len(new)
        /\ \A p \in 1..(Len(plan_steps) + Len(new)) :
             plan_steps'[p] = IF p <= Len(plan_steps) THEN plan_steps[p]
                                                      ELSE new[p - Len(plan_steps)]
    BY <1>1, ConcatProperties
  <2> QED
    BY <1>1, <2>1
<1>3. \A p \in 1..Len(plan_steps') :
         \/ p \in 1..Len(plan_steps)
         \/ \E i \in 1..Len(new) : p = Len(plan_steps) + i
  <2>1. TAKE p \in 1..Len(plan_steps')
  <2>2. CASE p <= Len(plan_steps)
    BY <2>2, <1>1, <1>2
  <2>3. CASE p > Len(plan_steps)
    <3>1. p - Len(plan_steps) \in 1..Len(new) /\ p = Len(plan_steps) + (p - Len(plan_steps))
      BY <2>3, <1>1, <1>2
    <3> QED
      BY <3>1
  <2> QED
    BY <2>2, <2>3, <1>1, <1>2
<1>4. \A p \in 1..(Len(plan_steps) + 1) : HeldAt(p)' = HeldAt(p)
  <2>1. TAKE p \in 1..(Len(plan_steps) + 1)
  <2>2. CASE p \in 1..Len(plan_steps)
    BY <2>2, <1>1, <1>2 DEF HeldAt
  <2>3. CASE p = Len(plan_steps) + 1
    BY <2>3, <1>1, <1>2 DEF HeldAt
  <2> QED
    BY <2>2, <2>3, <1>1
<1>5. StepsFollow'
  <2>1. HeldAt(1)' = <<>>
    BY <1>1, <1>4 DEF StepsFollow
  <2>2. ASSUME NEW p \in 1..Len(plan_steps')
        PROVE  HeldAt(p + 1)' = After(plan_steps'[p])
    <3>1. CASE p \in 1..Len(plan_steps)
      <4>1. HeldAt(p + 1)' = HeldAt(p + 1) /\ plan_steps'[p] = plan_steps[p]
        BY <3>1, <1>1, <1>2, <1>4
      <4> QED
        BY <3>1, <4>1 DEF StepsFollow
    <3>2. ASSUME NEW i \in 1..Len(new), p = Len(plan_steps) + i
          PROVE  HeldAt(p + 1)' = After(plan_steps'[p])
      <4>1. CASE i = Len(new)
        BY <3>2, <4>1, <1>1, <1>2 DEF HeldAt
      <4>2. CASE i # Len(new)
        <5>1. i \in 1..(Len(new) - 1) /\ i + 1 \in 1..Len(new)
          BY <3>2, <4>2, <1>1
        <5>2. p + 1 <= Len(plan_steps') /\ plan_steps'[p + 1] = new[i + 1]
              /\ plan_steps'[p] = new[i]
          BY <3>2, <5>1, <1>1, <1>2
        <5> QED
          BY <5>1, <5>2 DEF HeldAt
      <4> QED
        BY <4>1, <4>2
    <3> QED
      BY <3>1, <3>2, <1>3
  <2> QED
    BY <2>1, <2>2 DEF StepsFollow
<1> QED
  BY <1>1, <1>2, <1>3, <1>4, <1>5

(* A planned jump still lands right when labels are only added, and every  *)
(* scope either stays open or has its end placed where its entry is live.  *)
LEMMA JumpsKept ==
  ASSUME LabelsPlaced, done = FALSE,
         \A p \in 1..(Len(plan_steps) + 1) : HeldAt(p)' = HeldAt(p),
         labels \in [DOMAIN labels -> Nat], Len(plan_steps) \in Nat,
         \A l \in DOMAIN labels : l \in DOMAIN labels' /\ labels'[l] = labels[l],
         \A k \in 1..Len(scopes) : scopes[k].end # Nowhere =>
           \/ \E j \in 1..Len(scopes') :
                /\ scopes'[j].end = scopes[k].end
                /\ Prefix(live', scopes'[j].entry) = Prefix(live, scopes[k].entry)
           \/ /\ scopes[k].end \in DOMAIN labels'
              /\ \E p \in Nat : /\ labels'[scopes[k].end] = p
                                /\ HeldAt(p)' = Prefix(live, scopes[k].entry),
         NEW st, LandsRight(st)
  PROVE  LandsRight(st)'
<1>1. CASE st.to \in DOMAIN labels /\ HeldAt(labels[st.to]) = Landing(st)
  <2>1. labels[st.to] \in 1..(Len(plan_steps) + 1)
    BY <1>1 DEF LabelsPlaced
  <2>2. HeldAt(labels[st.to])' = HeldAt(labels[st.to])
    <3>1. labels'[st.to] = labels[st.to]
      BY <1>1
    <3> QED
      BY <2>1, <3>1 DEF HeldAt
  <2> QED
    BY <1>1, <2>2 DEF LandsRight
<1>2. ASSUME st.to # Nowhere, NEW k \in 1..Len(scopes), st.to = scopes[k].end,
             Prefix(live, scopes[k].entry) = Landing(st)
      PROVE  LandsRight(st)'
  <2>1. CASE \E j \in 1..Len(scopes') :
               /\ scopes'[j].end = scopes[k].end
               /\ Prefix(live', scopes'[j].entry) = Prefix(live, scopes[k].entry)
    BY <1>2, <2>1 DEF LandsRight
  <2>2. CASE /\ scopes[k].end \in DOMAIN labels'
             /\ \E p \in Nat : /\ labels'[scopes[k].end] = p
                               /\ HeldAt(p)' = Prefix(live, scopes[k].entry)
    <3>1. PICK p \in Nat : /\ labels'[scopes[k].end] = p
                           /\ HeldAt(p)' = Prefix(live, scopes[k].entry)
      BY <2>2
    <3>2. HeldAt(labels[st.to])' = Landing(st)
      BY <1>2, <3>1 DEF HeldAt
    <3> QED
      BY <1>2, <2>2, <3>2 DEF LandsRight
  <2> QED
    BY <1>2, <2>1, <2>2
<1>3. CASE st.to = ProgramAgain /\ Landing(st) = <<>>
  BY <1>3 DEF LandsRight
<1>4. CASE st.op = "loop_exit" /\ st.releases = <<>> /\ st.to = Floor(Newest(st.held))
  BY <1>4 DEF LandsRight
<1> QED
  BY <1>1, <1>2, <1>3, <1>4 DEF LandsRight

-----------------------------------------------------------------------------
(* The invariant holds at first.                                           *)

(* Before the first step.                                                  *)
LEMMA PlanInit == Init => PlanInv
<1> SUFFICES ASSUME Init PROVE PlanInv
  OBVIOUS
<1>1. /\ Len(live) = 0 /\ Len(plan_steps) = 0 /\ Len(scopes) = 0
      /\ DOMAIN labels = {} /\ constructed = {}
  BY EmptySeq DEF Init, constructed
<1>2. PlanTypeOK
  BY <1>1, EmptySeq DEF Init, PlanTypeOK, constructed
<1>3. TowerComplete /\ EveryHeldChained
  BY <1>1 DEF TowerComplete, EveryHeldChained, Chained
<1>4. StepsFollow /\ StepsOK
  BY <1>1 DEF Init, StepsFollow, StepsOK, HeldAt
<1>5. ScopesNested /\ EndsFresh /\ LabelsNumbered /\ LabelsPlaced
  BY <1>1 DEF ScopesNested, EndsFresh, LabelsNumbered, LabelsPlaced
<1>6. ExitIsLast
  BY <1>1 DEF Init, ExitIsLast
<1> QED
  BY <1>2, <1>3, <1>4, <1>5, <1>6 DEF PlanInv

-----------------------------------------------------------------------------
(* A step that leaves the live set, the scopes and the labels alone.       *)

(* Appending a step is planning a sequence of one.                         *)
LEMMA OneStep ==
  ASSUME NEW st \in PlanStep, PlanTypeOK
  PROVE  /\ <<st>> \in Seq(PlanStep) /\ <<st>> # <<>> /\ Len(<<st>>) = 1
         /\ <<st>>[1] = st /\ Append(plan_steps, st) = plan_steps \o <<st>>
BY AppendIsConcat DEF PlanTypeOK

(* Planning a step that changes only the list of steps keeps the           *)
(* invariant.                                                              *)
LEMMA PlainKeeps ==
  ASSUME PlanInv, done = FALSE,
         NEW st \in PlanStep, st.held = live, After(st) = live, StepOK(st),
         Emit(st), UNCHANGED liveVars, UNCHANGED scopeVars,
         done' = (st.op = "exit"), st.op = "exit" => scopes = <<>>
  PROVE  PlanInv'
<1> DEFINE new == <<st>>
<1>1. PlanTypeOK /\ StepsFollow /\ LabelsPlaced
  BY DEF PlanInv
<1>2. /\ live' = live /\ tower_order' = tower_order /\ enclosing' = enclosing
      /\ scopes' = scopes /\ labels' = labels
      /\ plan_steps' = plan_steps \o new
  BY <1>1, OneStep DEF liveVars, scopeVars, Emit
<1>3. /\ new \in Seq(PlanStep) /\ new # <<>> /\ Len(new) = 1 /\ new[1] = st
  BY <1>1, OneStep
<1> HIDE DEF new
<1>4. /\ plan_steps' \in Seq(PlanStep)
      /\ Len(plan_steps') = Len(plan_steps) + 1 /\ Len(plan_steps) \in Nat
      /\ \A p \in 1..Len(plan_steps) : plan_steps'[p] = plan_steps[p]
      /\ plan_steps'[Len(plan_steps) + 1] = st
      /\ \A p \in 1..(Len(plan_steps) + 1) : HeldAt(p)' = HeldAt(p)
      /\ StepsFollow'
  BY <1>1, <1>2, <1>3, GrowKeeps
<1>5. ASSUME NEW s, LandsRight(s) PROVE LandsRight(s)'
  <2>1. labels \in [DOMAIN labels -> Nat]
    BY <1>1 DEF PlanTypeOK
  <2> QED
    BY <1>1, <1>2, <1>4, <1>5, <2>1, JumpsKept
<1>6. ASSUME NEW s, StepOK(s) PROVE StepOK(s)'
  BY <1>5, <1>6 DEF StepOK, ReleasesNewestFirst, FailsTo, TakesAfresh,
          NamesWhatIsHeld, StepShape
<1>7. PlanTypeOK'
  BY <1>1, <1>2, <1>4 DEF PlanTypeOK, constructed
<1>8. TowerComplete'
  BY <1>2 DEF PlanInv, TowerComplete, constructed
<1>9. EveryHeldChained'
  <2>1. ASSUME NEW s, Chained(s) PROVE Chained(s)'
    BY <1>2, <2>1 DEF Chained, chain, constructed
  <2> QED
    BY <1>2, <1>4, <2>1 DEF PlanInv, EveryHeldChained
<1>10. StepsOK'
  BY <1>4, <1>6 DEF PlanInv, StepsOK
<1>11. ScopesNested'
  <2>1. ASSUME NEW k \in 1..Len(scopes), NEW n \in Name,
               Top(n) \in DOMAIN labels,
               HeldAt(labels[Top(n)]) = Prefix(live, scopes[k].entry)
        PROVE  HeldAt(labels[Top(n)])' = Prefix(live, scopes[k].entry)'
    <3>1. labels[Top(n)] \in 1..(Len(plan_steps) + 1)
      BY <1>1, <1>4, <2>1 DEF LabelsPlaced, PlanTypeOK
    <3> QED
      BY <1>2, <1>4, <2>1, <3>1
  <2> QED
    BY <1>2, <2>1 DEF PlanInv, ScopesNested
<1>12. EndsFresh'
  BY <1>2 DEF PlanInv, EndsFresh
<1>13. LabelsNumbered'
  <2>1. \A i \in 0..Len(plan_steps) : i \in 0..Len(plan_steps')
    BY <1>4
  <2> QED
    BY <1>2, <2>1 DEF PlanInv, LabelsNumbered
<1>14. LabelsPlaced'
  BY <1>1, <1>2, <1>4 DEF LabelsPlaced, PlanTypeOK
<1>15. ExitIsLast'
  <2>1. plan_steps' # <<>> /\ plan_steps'[Len(plan_steps')].op = st.op
    BY <1>4, EmptySeq
  <2>2. \A p \in 1..Len(plan_steps) : plan_steps[p].op # "exit"
    BY DEF PlanInv, ExitIsLast
  <2>3. \A p \in 1..Len(plan_steps') :
          plan_steps'[p].op = "exit" => st.op = "exit" /\ p = Len(plan_steps')
    BY <1>4, <2>2
  <2> QED
    BY <1>2, <2>1, <2>3 DEF ExitIsLast
<1> QED
  BY <1>4, <1>7, <1>8, <1>9, <1>10, <1>11, <1>12, <1>13, <1>14, <1>15 DEF PlanInv

-----------------------------------------------------------------------------
(* Bringing up a resource.                                                 *)

(* What is held once the first i layers of r are up.                       *)
UpTo(r, i) == live \o Prefix(Rungs(r), i)

(* The live set, layer after layer, while r comes up.                      *)
LEMMA UpToProperties ==
  ASSUME live \in Seq(Rung), NEW r \in Resource
  PROVE  /\ Len(live) \in Nat
         /\ \A i \in 0..Layers[r] :
              /\ UpTo(r, i) \in Seq(Rung)
              /\ Len(UpTo(r, i)) = Len(live) + i
              /\ \A k \in 1..Len(live) : UpTo(r, i)[k] = live[k]
              /\ \A j \in 1..i : UpTo(r, i)[Len(live) + j] = <<r, j>>
         /\ UpTo(r, 0) = live /\ UpTo(r, Layers[r]) = live \o Rungs(r)
         /\ \A i \in 1..Layers[r] : Append(UpTo(r, i - 1), <<r, i>>) = UpTo(r, i)
<1>1. /\ Rungs(r) \in Seq(Rung) /\ Len(Rungs(r)) = Layers[r] /\ Layers[r] \in Nat
      /\ \A j \in 1..Layers[r] : Rungs(r)[j] = <<r, j>> /\ <<r, j>> \in Rung
  BY RungsProperties, RungDef
<1>2. Len(live) \in Nat
  BY LenProperties
<1>3. \A i \in 0..Layers[r] :
        /\ UpTo(r, i) \in Seq(Rung)
        /\ Len(UpTo(r, i)) = Len(live) + i
        /\ \A k \in 1..Len(live) : UpTo(r, i)[k] = live[k]
        /\ \A j \in 1..i : UpTo(r, i)[Len(live) + j] = <<r, j>>
  <2>1. TAKE i \in 0..Layers[r]
  <2>2. /\ Prefix(Rungs(r), i) \in Seq(Rung) /\ Len(Prefix(Rungs(r), i)) = i
        /\ \A j \in 1..i : Prefix(Rungs(r), i)[j] = <<r, j>>
    <3>1. i \in 0..Len(Rungs(r)) /\ i \in Nat
      BY <1>1
    <3>2. \A j \in 1..i : j \in 1..Layers[r]
      BY <1>1
    <3>3. /\ Prefix(Rungs(r), i) \in Seq(Rung) /\ Len(Prefix(Rungs(r), i)) = i
          /\ \A j \in 1..i : Prefix(Rungs(r), i)[j] = Rungs(r)[j]
      BY <1>1, <3>1, PrefixProperties
    <3> QED
      BY <1>1, <3>2, <3>3
  <2>3. /\ UpTo(r, i) \in Seq(Rung) /\ Len(UpTo(r, i)) = Len(live) + i
        /\ \A k \in 1..(Len(live) + i) :
             UpTo(r, i)[k] = IF k <= Len(live) THEN live[k]
                             ELSE Prefix(Rungs(r), i)[k - Len(live)]
    BY <2>2, ConcatProperties, ZenonT(60) DEF UpTo
  <2>4. \A k \in 1..Len(live) : k \in 1..(Len(live) + i) /\ k <= Len(live)
    BY <1>1, <1>2
  <2>5. ASSUME NEW j \in 1..i PROVE UpTo(r, i)[Len(live) + j] = <<r, j>>
    <3>1. /\ Len(live) + j \in 1..(Len(live) + i) /\ ~(Len(live) + j <= Len(live))
          /\ Len(live) + j - Len(live) = j
      BY <1>1, <1>2
    <3> QED
      BY <2>2, <2>3, <3>1
  <2> QED
    BY <2>3, <2>4, <2>5
<1>4. UpTo(r, 0) = live /\ UpTo(r, Layers[r]) = live \o Rungs(r)
  BY <1>1, PrefixFull, ConcatEmptySeq DEF UpTo
<1>5. ASSUME NEW i \in 1..Layers[r]
      PROVE  Append(UpTo(r, i - 1), <<r, i>>) = UpTo(r, i)
  <2>1. i - 1 \in 0..Layers[r] /\ i \in 0..Layers[r]
    BY <1>1
  <2>2. /\ UpTo(r, i - 1) \in Seq(Rung) /\ Len(UpTo(r, i - 1)) = Len(live) + (i - 1)
        /\ UpTo(r, i) \in Seq(Rung) /\ Len(UpTo(r, i)) = Len(live) + i
        /\ <<r, i>> \in Rung
    BY <1>1, <1>3, <2>1
  <2>3. /\ Append(UpTo(r, i - 1), <<r, i>>) \in Seq(Rung)
        /\ Len(Append(UpTo(r, i - 1), <<r, i>>)) = Len(live) + i
        /\ \A k \in 1..(Len(live) + (i - 1)) :
             Append(UpTo(r, i - 1), <<r, i>>)[k] = UpTo(r, i - 1)[k]
        /\ Append(UpTo(r, i - 1), <<r, i>>)[Len(live) + i] = <<r, i>>
    BY <1>2, <2>2, AppendProperties
  <2>4. ASSUME NEW k \in 1..(Len(live) + i)
        PROVE  Append(UpTo(r, i - 1), <<r, i>>)[k] = UpTo(r, i)[k]
    <3>1. CASE k \in 1..Len(live)
      <4>1. k \in 1..(Len(live) + (i - 1))
        BY <3>1, <1>2
      <4> QED
        BY <3>1, <4>1, <1>3, <2>1, <2>3
    <3>2. CASE k = Len(live) + i
      <4>1. UpTo(r, i)[Len(live) + i] = <<r, i>>
        <5>1. i \in 1..i
          BY <1>1
        <5> QED
          BY <5>1, <1>3, <2>1
      <4> QED
        BY <3>2, <4>1, <2>3
    <3>3. ASSUME NEW j \in 1..(i - 1), k = Len(live) + j
          PROVE  Append(UpTo(r, i - 1), <<r, i>>)[k] = UpTo(r, i)[k]
      <4>1. j \in 1..i /\ k \in 1..(Len(live) + (i - 1))
        BY <1>2, <3>3
      <4>2. UpTo(r, i)[k] = <<r, j>> /\ UpTo(r, i - 1)[k] = <<r, j>>
        BY <1>3, <2>1, <3>3, <4>1
      <4> QED
        BY <2>3, <4>1, <4>2
    <3>4. \/ k \in 1..Len(live) \/ k = Len(live) + i
          \/ k - Len(live) \in 1..(i - 1) /\ k = Len(live) + (k - Len(live))
      BY <1>2
    <3> QED
      BY <3>1, <3>2, <3>3, <3>4
  <2> QED
    BY <2>2, <2>3, <2>4, SeqEqual
<1> QED
  BY <1>2, <1>3, <1>4, <1>5

(* r comes up on top of what is live: a fact of the next state alone.      *)
LEMMA RecordProperties ==
  ASSUME PlanTypeOK, TowerComplete, EveryHeldChained,
         NEW r \in Resource, r \notin constructed, record_live(r)
  PROVE  /\ live' = UpTo(r, Layers[r]) /\ live' \in Seq(Rung)
         /\ tower_order' \in Seq(Rung)
         /\ constructed' = constructed \cup {r} /\ constructed' \subseteq Resource
         /\ enclosing' \in [constructed' -> Rung \cup {NoRung}]
         /\ \A x \in constructed : enclosing'[x] = enclosing[x]
         /\ TowerComplete'
         /\ \A s : Chained(s) => Chained(s)'
         /\ \A i \in 0..Layers[r] : \A s : s = UpTo(r, i) => Chained(s)'
<1>1. /\ live \in Seq(Rung) /\ tower_order \in Seq(Rung)
      /\ constructed \subseteq Resource
      /\ enclosing \in [constructed -> Rung \cup {NoRung}]
  BY DEF PlanTypeOK
<1>2. /\ Rungs(r) \in Seq(Rung) /\ Len(Rungs(r)) = Layers[r] /\ Layers[r] \in Nat
      /\ Layers[r] >= 1 /\ \A i \in 1..Layers[r] : Rungs(r)[i] = <<r, i>>
  BY RungsProperties
<1>3. /\ live' = UpTo(r, Layers[r]) /\ live' \in Seq(Rung)
      /\ tower_order' \in Seq(Rung)
  BY <1>1, <1>2, UpToProperties, ConcatProperties DEF record_live
<1>4. /\ constructed' = constructed \cup {r} /\ constructed' \subseteq Resource
      /\ \A x \in constructed : enclosing'[x] = enclosing[x]
      /\ enclosing'[r] = Newest(live)
  BY <1>1 DEF record_live, constructed, Beneath
<1>5. enclosing' \in [constructed' -> Rung \cup {NoRung}]
  <2>1. Newest(live) \in Rung \cup {NoRung}
    BY <1>1, NewestProperties
  <2> QED
    BY <1>1, <1>4, <2>1 DEF record_live, Beneath, constructed
<1>6. TowerComplete'
  <2>1. /\ Len(tower_order) \in Nat /\ Len(tower_order') = Len(tower_order) + Layers[r]
        /\ \A f \in 1..(Len(tower_order) + Layers[r]) :
             tower_order'[f] = IF f <= Len(tower_order) THEN tower_order[f]
                               ELSE Rungs(r)[f - Len(tower_order)]
    <3>1. tower_order' = tower_order \o Rungs(r)
      BY DEF record_live
    <3>2. Len(tower_order) \in Nat /\ Len(Rungs(r)) = Layers[r]
      BY <1>1, <1>2, LenProperties
    <3>3. /\ Len(tower_order \o Rungs(r)) = Len(tower_order) + Len(Rungs(r))
          /\ \A f \in 1..(Len(tower_order) + Len(Rungs(r))) :
               (tower_order \o Rungs(r))[f] =
                 IF f <= Len(tower_order) THEN tower_order[f]
                 ELSE Rungs(r)[f - Len(tower_order)]
      BY <1>1, <1>2, ConcatProperties
    <3> QED
      BY <3>1, <3>2, <3>3
  <2>2. ASSUME NEW x \in constructed, NEW i \in 1..Layers[x]
        PROVE  \E f \in 1..Len(tower_order') : tower_order'[f] = <<x, i>>
    <3>1. PICK f \in 1..Len(tower_order) : tower_order[f] = <<x, i>>
      BY <2>2 DEF TowerComplete
    <3>2. f \in 1..Len(tower_order') /\ tower_order'[f] = tower_order[f]
      BY <1>2, <2>1
    <3> QED
      BY <3>1, <3>2
  <2>3. ASSUME NEW i \in 1..Layers[r]
        PROVE  \E f \in 1..Len(tower_order') : tower_order'[f] = <<r, i>>
    <3>1. /\ Len(tower_order) + i \in 1..Len(tower_order')
          /\ Len(tower_order) + i \in 1..(Len(tower_order) + Layers[r])
          /\ ~(Len(tower_order) + i <= Len(tower_order))
          /\ Len(tower_order) + i - Len(tower_order) = i
      BY <1>2, <2>1
    <3>2. tower_order'[Len(tower_order) + i] = Rungs(r)[Len(tower_order) + i - Len(tower_order)]
      BY <2>1, <3>1
    <3>3. tower_order'[Len(tower_order) + i] = <<r, i>>
      BY <1>2, <3>1, <3>2
    <3> QED
      BY <3>1, <3>3
  <2> QED
    BY <1>4, <2>2, <2>3 DEF TowerComplete
<1>7. ASSUME NEW s, Chained(s) PROVE Chained(s)'
  BY <1>4, <1>7, ChainedKept
<1>8. ASSUME NEW i \in 0..Layers[r], NEW s, s = UpTo(r, i) PROVE Chained(s)'
  <2>1. /\ Len(live) \in Nat /\ Len(s) = Len(live) + i
        /\ \A k \in 1..Len(live) : s[k] = live[k]
        /\ \A j \in 1..i : s[Len(live) + j] = <<r, j>>
    BY <1>1, <1>8, UpToProperties
  <2>2. ASSUME NEW k \in 1..Len(live)
        PROVE  s[k][1] \in constructed' /\ chain(s[k])' = IF k = 1 THEN NoRung ELSE s[k - 1]
    <3>1. s[k] = live[k] /\ live[k][1] \in constructed
          /\ chain(live[k]) = IF k = 1 THEN NoRung ELSE live[k - 1]
      BY <2>1 DEF EveryHeldChained, Chained
    <3>2. k # 1 => s[k - 1] = live[k - 1]
      BY <2>1
    <3> QED
      BY <1>4, <3>1, <3>2 DEF chain
  <2>3. ASSUME NEW j \in 1..i, NEW k, k = Len(live) + j
        PROVE  s[k][1] \in constructed' /\ chain(s[k])' = IF k = 1 THEN NoRung ELSE s[k - 1]
    <3>1. s[k] = <<r, j>>
      BY <2>1, <2>3
    <3>2. CASE j = 1
      <4>1. chain(s[k])' = Newest(live)
        BY <1>4, <3>1, <3>2 DEF chain
      <4>2. k = Len(live) + 1 /\ k - 1 = Len(live)
        BY <2>1, <2>3, <3>2
      <4>3. Newest(live) = IF k = 1 THEN NoRung ELSE s[k - 1]
        <5>1. CASE live = <<>>
          BY <4>2, <5>1, EmptySeq DEF Newest
        <5>2. CASE live # <<>>
          <6>1. Len(live) # 0 /\ Len(live) \in 1..Len(live)
            BY <1>1, <2>1, <5>2, EmptySeq
          <6> QED
            BY <2>1, <4>2, <5>2, <6>1 DEF Newest
        <5> QED
          BY <5>1, <5>2
      <4> QED
        BY <1>4, <3>1, <4>1, <4>3
    <3>3. CASE j # 1
      <4>1. j > 1 /\ j - 1 \in 1..i /\ k - 1 = Len(live) + (j - 1) /\ k # 1
        BY <2>1, <2>3, <3>3
      <4>2. s[k - 1] = <<r, j - 1>>
        BY <2>1, <4>1
      <4> QED
        BY <1>4, <3>1, <4>1, <4>2 DEF chain
    <3> QED
      BY <3>2, <3>3
  <2>4. ASSUME NEW k \in 1..Len(s)
        PROVE  k \in 1..Len(live) \/ \E j \in 1..i : k = Len(live) + j
    <3>1. CASE k > Len(live)
      <4>1. k - Len(live) \in 1..i /\ k = Len(live) + (k - Len(live))
        BY <2>1, <3>1
      <4> QED
        BY <4>1
    <3> QED
      BY <2>1, <3>1
  <2>5. \A k \in 1..Len(s) :
          s[k][1] \in constructed' /\ chain(s[k])' = IF k = 1 THEN NoRung ELSE s[k - 1]
    BY <2>2, <2>3, <2>4
  <2> QED
    BY <2>5 DEF Chained
<1> QED
  BY <1>3, <1>4, <1>5, <1>6, <1>7, <1>8

(* The steps that bring r up, one for each layer.                          *)
BringUp(r, new) ==
  /\ Len(new) = Layers[r]
  /\ \A i \in 1..Layers[r] :
       /\ new[i].op \in {"acquire", "adopt"} /\ new[i].rung = <<r, i>>
       /\ new[i].held = UpTo(r, i - 1) /\ new[i].releases = <<>>
       /\ new[i].op = "acquire" => new[i].to = Floor(Newest(UpTo(r, i - 1)))
       /\ new[i].op = "adopt" => i = 1

(* Bringing a resource up, in one step or one for each layer, keeps the    *)
(* invariant.                                                              *)
LEMMA RecordKeeps ==
  ASSUME PlanInv, done = FALSE,
         NEW r \in Resource, r \notin constructed, record_live(r),
         NEW new \in Seq(PlanStep), BringUp(r, new), plan_steps' = plan_steps \o new,
         UNCHANGED scopeVars, UNCHANGED done
  PROVE  PlanInv'
<1>1. PlanTypeOK /\ TowerComplete /\ EveryHeldChained /\ StepsFollow /\ LabelsPlaced
  BY DEF PlanInv
<1>2. scopes' = scopes /\ labels' = labels /\ done' = done
  BY DEF scopeVars
<1>3. /\ live' = UpTo(r, Layers[r]) /\ live' \in Seq(Rung)
      /\ tower_order' \in Seq(Rung)
      /\ constructed' = constructed \cup {r} /\ constructed' \subseteq Resource
      /\ enclosing' \in [constructed' -> Rung \cup {NoRung}]
      /\ TowerComplete'
      /\ \A s : Chained(s) => Chained(s)'
      /\ \A i \in 0..Layers[r] : \A s : s = UpTo(r, i) => Chained(s)'
  BY <1>1, RecordProperties
<1>4. /\ Layers[r] \in Nat /\ Layers[r] >= 1 /\ Len(live) \in Nat
      /\ live \in Seq(Rung) /\ Rungs(r) \in Seq(Rung)
  BY <1>1, RungsProperties, LenProperties DEF PlanTypeOK
<1>5. /\ UpTo(r, 0) = live /\ UpTo(r, Layers[r]) = live \o Rungs(r)
      /\ \A i \in 1..Layers[r] : Append(UpTo(r, i - 1), <<r, i>>) = UpTo(r, i)
      /\ \A i \in 0..Layers[r] :
           /\ Len(UpTo(r, i)) = Len(live) + i
           /\ \A k \in 1..Len(live) : UpTo(r, i)[k] = live[k]
           /\ \A j \in 1..i : UpTo(r, i)[Len(live) + j] = <<r, j>>
  BY <1>4, UpToProperties
<1>6. \A i \in 1..Layers[r] : After(new[i]) = UpTo(r, i)
  BY <1>5 DEF BringUp, After
<1>7. /\ plan_steps' \in Seq(PlanStep)
      /\ Len(plan_steps') = Len(plan_steps) + Layers[r] /\ Len(plan_steps) \in Nat
      /\ \A p \in 1..Len(plan_steps) : plan_steps'[p] = plan_steps[p]
      /\ \A i \in 1..Layers[r] : plan_steps'[Len(plan_steps) + i] = new[i]
      /\ \A p \in 1..Len(plan_steps') :
           \/ p \in 1..Len(plan_steps)
           \/ \E i \in 1..Layers[r] : p = Len(plan_steps) + i
      /\ \A p \in 1..(Len(plan_steps) + 1) : HeldAt(p)' = HeldAt(p)
      /\ StepsFollow'
  <2>1. Len(new) = Layers[r] /\ new # <<>>
    BY <1>4, EmptySeq DEF BringUp
  <2>2. new[1].held = live
    <3>1. 1 \in 1..Layers[r] /\ 1 - 1 = 0
      BY <1>4
    <3>2. new[1].held = UpTo(r, 1 - 1)
      BY <3>1 DEF BringUp
    <3>3. UpTo(r, 1 - 1) = UpTo(r, 0)
      BY <3>1, Zenon
    <3> QED
      BY <1>5, <3>2, <3>3, Zenon
  <2>3. ASSUME NEW i \in 1..(Len(new) - 1) PROVE new[i + 1].held = After(new[i])
    <3>1. i \in 1..Layers[r] /\ i + 1 \in 1..Layers[r] /\ (i + 1) - 1 = i
      BY <1>4, <2>1
    <3>2. new[i + 1].held = UpTo(r, (i + 1) - 1)
      BY <3>1 DEF BringUp
    <3>3. UpTo(r, (i + 1) - 1) = UpTo(r, i)
      BY <3>1, Zenon
    <3> QED
      BY <1>6, <3>1, <3>2, <3>3, Zenon
  <2>4. live' = After(new[Len(new)])
    <3>1. Layers[r] \in 1..Layers[r]
      BY <1>4
    <3> QED
      BY <1>3, <1>6, <2>1, <3>1
  <2> QED
    <3>1. PlanTypeOK /\ StepsFollow
      BY <1>1
    <3>2. /\ plan_steps' \in Seq(PlanStep)
          /\ Len(plan_steps') = Len(plan_steps) + Len(new) /\ Len(plan_steps) \in Nat
          /\ \A p \in 1..Len(plan_steps) : plan_steps'[p] = plan_steps[p]
          /\ \A i \in 1..Len(new) : plan_steps'[Len(plan_steps) + i] = new[i]
          /\ \A p \in 1..Len(plan_steps') :
               \/ p \in 1..Len(plan_steps)
               \/ \E i \in 1..Len(new) : p = Len(plan_steps) + i
          /\ \A p \in 1..(Len(plan_steps) + 1) : HeldAt(p)' = HeldAt(p)
          /\ StepsFollow'
      BY <3>1, <2>1, <2>2, <2>3, <2>4, GrowKeeps
    <3> QED
      BY <2>1, <3>2
<1>8. \A n \in 0..Len(live) : Prefix(live', n) = Prefix(live, n)
  BY <1>3, <1>4, <1>5, PrefixOfConcat
<1>9. \A k \in 1..Len(scopes) :
        scopes[k].entry \in 0..Len(live) /\ Prefix(live', scopes[k].entry) = Prefix(live, scopes[k].entry)
  <2>1. ASSUME NEW k \in 1..Len(scopes) PROVE scopes[k].entry \in 0..Len(live)
    <3>1. scopes[k] \in Scope
      BY <1>1, ElementOfSeq DEF PlanTypeOK
    <3> QED
      BY <1>4, <3>1 DEF PlanInv, ScopesNested, Scope
  <2> QED
    BY <1>8, <2>1
<1>10. ASSUME NEW s, StepOK(s) PROVE StepOK(s)'
  <2>1. ASSUME LandsRight(s) PROVE LandsRight(s)'
    <3>1. labels \in [DOMAIN labels -> Nat]
      BY <1>1 DEF PlanTypeOK
    <3>2. \A k \in 1..Len(scopes) :
            \E j \in 1..Len(scopes') :
              /\ scopes'[j].end = scopes[k].end
              /\ Prefix(live', scopes'[j].entry) = Prefix(live, scopes[k].entry)
      BY <1>2, <1>9
    <3> QED
      BY <1>1, <1>2, <1>7, <2>1, <3>1, <3>2, JumpsKept
  <2> QED
    BY <1>10, <2>1 DEF StepOK, ReleasesNewestFirst, FailsTo, TakesAfresh,
          NamesWhatIsHeld, StepShape
<1>11. PlanTypeOK'
  BY <1>1, <1>2, <1>3, <1>7 DEF PlanTypeOK
<1>12. EveryHeldChained'
  <2>1. ASSUME NEW s, s = live' PROVE Chained(s)'
    <3>1. Layers[r] \in 0..Layers[r]
      BY <1>4
    <3> QED
      BY <1>3, <2>1, <3>1
  <2>2. ASSUME NEW p \in 1..Len(plan_steps'), NEW s, s = plan_steps'[p].held
        PROVE  Chained(s)'
    <3>1. CASE p \in 1..Len(plan_steps)
      <4>1. Chained(s)
        BY <1>1, <1>7, <2>2, <3>1 DEF EveryHeldChained
      <4> QED
        BY <1>3, <4>1
    <3>2. ASSUME NEW i \in 1..Layers[r], p = Len(plan_steps) + i
          PROVE  Chained(s)'
      <4>1. i - 1 \in 0..Layers[r]
        BY <1>4
      <4>2. new[i].held = UpTo(r, i - 1)
        BY DEF BringUp
      <4>3. s = UpTo(r, i - 1)
        BY <1>7, <2>2, <3>2, <4>2
      <4> QED
        BY <1>3, <4>1, <4>3
    <3> QED
      BY <1>7, <3>1, <3>2
  <2> QED
    <3>1. Chained(live)'
      BY <2>1 DEF Chained, chain
    <3>2. ASSUME NEW p \in 1..Len(plan_steps') PROVE Chained(plan_steps[p].held)'
      <4>1. PICK s : s = plan_steps'[p].held
        OBVIOUS
      <4>2. Chained(s)'
        BY <2>2, <4>1
      <4> QED
        BY <4>1, <4>2 DEF Chained, chain
    <3> QED
      BY <3>1, <3>2 DEF EveryHeldChained
<1>13. StepsOK'
  <2>1. ASSUME NEW i \in 1..Layers[r] PROVE StepOK(new[i])'
    <3>1. /\ new[i].op \in {"acquire", "adopt"} /\ new[i].rung = <<r, i>>
          /\ new[i].held = UpTo(r, i - 1) /\ new[i].releases = <<>>
          /\ new[i].op = "acquire" => new[i].to = Floor(Newest(new[i].held))
          /\ new[i].op = "adopt" => new[i].rung = <<new[i].rung[1], 1>>
      BY DEF BringUp
    <3>6. i \in Nat /\ i - 1 \in 0..Layers[r] /\ Len(new[i].held) = Len(live) + (i - 1)
      <4>1. i \in Nat /\ i - 1 \in 0..Layers[r]
        BY <1>4
      <4> QED
        BY <1>5, <3>1, <4>1
    <3>2. ReleasesNewestFirst(new[i])
      BY <1>4, <1>5, <3>1, EmptySeq DEF ReleasesNewestFirst
    <3>3. ASSUME NEW k \in 1..Len(new[i].held) PROVE new[i].held[k] # <<r, i>>
      <4>1. CASE k \in 1..Len(live)
        <5>1. new[i].held[k] = live[k] /\ live[k][1] \in constructed
          BY <1>1, <1>5, <3>1, <3>6, <4>1 DEF EveryHeldChained, Chained
        <5> QED
          BY <5>1
      <4>2. CASE k \notin 1..Len(live)
        <5>1. /\ k - Len(live) \in 1..(i - 1) /\ k = Len(live) + (k - Len(live))
              /\ k - Len(live) # i
          BY <1>4, <3>6, <4>2
        <5>2. new[i].held[k] = <<r, k - Len(live)>>
          BY <1>5, <3>1, <3>6, <5>1, ZenonT(60)
        <5> QED
          BY <5>1, <5>2
      <4> QED
        BY <4>1, <4>2
    <3> QED
      BY <3>1, <3>2, <3>3
      DEF StepOK, ReleasesNewestFirst, FailsTo, TakesAfresh,
          NamesWhatIsHeld, StepShape
  <2> QED
    BY <1>7, <1>10, <2>1 DEF PlanInv, StepsOK
<1>14. ScopesNested'
  <2>1. ASSUME NEW k \in 1..Len(scopes), NEW n \in Name,
               Top(n) \in DOMAIN labels,
               HeldAt(labels[Top(n)]) = Prefix(live, scopes[k].entry)
        PROVE  HeldAt(labels[Top(n)])' = Prefix(live', scopes[k].entry)
    <3>1. labels[Top(n)] \in 1..(Len(plan_steps) + 1)
      BY <1>1, <1>7, <2>1 DEF LabelsPlaced, PlanTypeOK
    <3>2. ASSUME NEW p \in 1..(Len(plan_steps) + 1), p = labels[Top(n)]
          PROVE  HeldAt(labels[Top(n)])' = HeldAt(p)
      BY <1>2, <1>7, <3>2
    <3> QED
      BY <1>9, <2>1, <3>1, <3>2
  <2>2. \A k \in 1..Len(scopes) : scopes[k].entry <= Len(live')
    <3>1. Layers[r] \in 0..Layers[r]
      BY <1>4
    <3>2. Len(live') = Len(live) + Layers[r]
      BY <1>3, <1>5, <3>1
    <3> QED
      BY <1>4, <1>9, <3>2
  <2> QED
    BY <1>2, <2>1, <2>2 DEF PlanInv, ScopesNested
<1>15. EndsFresh'
  BY <1>2 DEF PlanInv, EndsFresh
<1>16. LabelsNumbered'
  <2>1. \A i \in 0..Len(plan_steps) : i \in 0..Len(plan_steps')
    BY <1>4, <1>7
  <2> QED
    BY <1>2, <2>1 DEF PlanInv, LabelsNumbered
<1>17. LabelsPlaced'
  BY <1>1, <1>2, <1>4, <1>7 DEF LabelsPlaced, PlanTypeOK
<1>18. ExitIsLast'
  <2>1. \A p \in 1..Len(plan_steps) : plan_steps[p].op # "exit"
    BY DEF PlanInv, ExitIsLast
  <2>2. \A i \in 1..Layers[r] : new[i].op # "exit"
    BY DEF BringUp
  <2>3. \A p \in 1..Len(plan_steps') : plan_steps'[p].op # "exit"
    <3>1. ASSUME NEW p \in 1..Len(plan_steps') PROVE plan_steps'[p].op # "exit"
      <4>1. CASE p \in 1..Len(plan_steps)
        BY <1>7, <2>1, <4>1
      <4>2. ASSUME NEW i \in 1..Layers[r], p = Len(plan_steps) + i
            PROVE  plan_steps'[p].op # "exit"
        <5>1. plan_steps'[p] = new[i]
          BY <1>7, <4>2
        <5> QED
          BY <2>2, <5>1
      <4> QED
        BY <1>7, <4>1, <4>2
    <3> QED
      BY <3>1
  <2> QED
    BY <1>2, <2>3 DEF ExitIsLast
<1> QED
  BY <1>3, <1>7, <1>11, <1>12, <1>13, <1>14, <1>15, <1>16, <1>17, <1>18 DEF PlanInv

-----------------------------------------------------------------------------
(* Opening and closing scopes.                                             *)

(* A scope was entered with part of what is live now.                      *)
LEMMA ScopeEntries ==
  ASSUME PlanTypeOK, ScopesNested
  PROVE  /\ Len(scopes) \in Nat
         /\ \A k \in 1..Len(scopes) :
              scopes[k] \in Scope /\ scopes[k].entry \in 0..Len(live)
<1>1. Len(scopes) \in Nat /\ Len(live) \in Nat
  BY LenProperties DEF PlanTypeOK
<1>2. ASSUME NEW k \in 1..Len(scopes)
      PROVE  scopes[k] \in Scope /\ scopes[k].entry \in 0..Len(live)
  <2>1. scopes[k] \in Scope
    BY ElementOfSeq DEF PlanTypeOK
  <2> QED
    BY <1>1, <2>1 DEF ScopesNested, Scope
<1> QED
  BY <1>1, <1>2

(* The releases of a scope, or of a jump out of it, leave what was live at *)
(* its entry.                                                              *)
LEMMA ReleasedTo ==
  ASSUME PlanTypeOK, NEW entry \in 0..Len(live), NEW st,
         st.held = live, st.releases = ReleasesFor(entry)
  PROVE  ReleasesNewestFirst(st) /\ Landing(st) = Prefix(live, entry)
<1>1. /\ Len(st.releases) = Len(live) - entry /\ Len(live) \in Nat /\ entry <= Len(live)
      /\ \A k \in 1..(Len(live) - entry) : st.releases[k] = live[Len(live) + 1 - k]
  BY ReleasesForProperties, LenProperties DEF PlanTypeOK
<1>2. Len(st.releases) <= Len(st.held) /\ Len(live) - (Len(live) - entry) = entry
  BY <1>1
<1> QED
  BY <1>1, <1>2 DEF ReleasesNewestFirst, Landing

(* The dedent of a scope keeps the invariant.                              *)
LEMMA CloseKeeps ==
  ASSUME PlanInv, done = FALSE, scopes # <<>>,
         NEW op \in {"scope_release", "loop_back"}, NEW to \in Labels, Close(op, to),
         op = "loop_back" =>
           to \in DOMAIN labels /\ HeldAt(labels[to]) = Prefix(live, Innermost.entry)
  PROVE  PlanInv'
<1> DEFINE last == Len(scopes)
           e == Innermost.entry
           st == Step(op, NoRung, to, ReleasesFor(e))
           new == <<st>>
<1>1. PlanTypeOK /\ StepsFollow /\ LabelsPlaced /\ ScopesNested
  BY DEF PlanInv
<1>2. /\ last \in Nat /\ last \in 1..last /\ Innermost = scopes[last]
      /\ Innermost \in Scope /\ e \in 0..Len(live)
      /\ live \in Seq(Rung) /\ Len(live) \in Nat
      /\ scopes \in Seq(Scope) /\ labels \in [DOMAIN labels -> Nat]
  <2>1. last \in Nat /\ last # 0
    BY <1>1, ScopeEntries, EmptySeq DEF PlanTypeOK
  <2>2. last \in 1..last
    BY <2>1
  <2> QED
    BY <1>1, <2>1, <2>2, ScopeEntries, LenProperties DEF Innermost, PlanTypeOK
<1>3. /\ st \in PlanStep /\ st.held = live /\ st.op = op /\ st.to = to
      /\ ReleasesNewestFirst(st) /\ Landing(st) = Prefix(live, e)
      /\ After(st) = Prefix(live, e)
  <2>1. ReleasesFor(e) \in Seq(Rung)
    BY <1>1, <1>2, ReleasesForProperties
  <2>2. op \in Ops /\ NoRung \in Rung \cup {NoRung}
    BY DEF Ops
  <2>3. st \in PlanStep
    BY <1>1, <2>1, <2>2, StepIsPlanStep
  <2>4. st.held = live /\ st.op = op /\ st.to = to /\ st.releases = ReleasesFor(e)
    BY DEF Step
  <2>5. ReleasesNewestFirst(st) /\ Landing(st) = Prefix(live, e)
    BY <1>1, <1>2, <2>4, ReleasedTo
  <2> QED
    BY <2>3, <2>4, <2>5 DEF After
<1>4. /\ live' = Prefix(live, e) /\ tower_order' = tower_order
      /\ enclosing' = enclosing /\ done' = FALSE
      /\ scopes' = Prefix(scopes, last - 1)
      /\ plan_steps' = plan_steps \o new
  BY <1>1, <1>3, OneStep DEF Close, Emit
<1>5. /\ Innermost.end = Nowhere => labels' = labels
      /\ Innermost.end # Nowhere =>
           labels' = [l \in DOMAIN labels \cup {Innermost.end} |->
                        IF l = Innermost.end THEN Len(plan_steps) + 2 ELSE labels[l]]
  <2>1. Len(plan_steps) \in Nat /\ Here + 1 = Len(plan_steps) + 2
    BY <1>1, LenProperties DEF PlanTypeOK, Here
  <2> QED
    BY <2>1 DEF Close, PlaceAt
<1>6. new \in Seq(PlanStep) /\ new # <<>> /\ Len(new) = 1 /\ new[1] = st
  BY <1>1, <1>3, OneStep
<1>7. live' \in Seq(Rung) /\ Len(live') = e /\ \A n \in 0..e : Prefix(live', n) = Prefix(live, n)
  BY <1>2, <1>4, PrefixProperties, PrefixOfPrefix
<1>8. /\ scopes' \in Seq(Scope) /\ Len(scopes') = last - 1
      /\ \A k \in 1..(last - 1) : scopes'[k] = scopes[k] /\ k \in 1..last
  <2>1. last - 1 \in 0..last /\ \A k \in 1..(last - 1) : k \in 1..last
    BY <1>2
  <2> QED
    BY <1>2, <1>4, <2>1, PrefixProperties
<1>9. e = scopes[last].entry /\ last = Len(scopes) /\ Innermost.entry = e
  BY <1>2
<1> HIDE DEF new, st, e, last
<1>10. /\ plan_steps' \in Seq(PlanStep)
       /\ Len(plan_steps') = Len(plan_steps) + 1 /\ Len(plan_steps) \in Nat
       /\ \A p \in 1..Len(plan_steps) : plan_steps'[p] = plan_steps[p]
       /\ plan_steps'[Len(plan_steps) + 1] = st
       /\ \A p \in 1..(Len(plan_steps) + 1) : HeldAt(p)' = HeldAt(p)
       /\ StepsFollow'
  BY <1>1, <1>3, <1>4, <1>6, GrowKeeps
<1>11. \A p \in Nat : p = Len(plan_steps) + 2 => HeldAt(p)' = Prefix(live, e)
  BY <1>4, <1>10 DEF HeldAt
<1>12. \A k \in 1..(last - 1) :
         /\ scopes[k].entry \in 0..e
         /\ Prefix(live', scopes'[k].entry) = Prefix(live, scopes[k].entry)
  <2>1. ASSUME NEW k \in 1..(last - 1) PROVE scopes[k].entry \in 0..e
    <3>1. k \in 1..last /\ last \in 1..Len(scopes) /\ k \in 1..Len(scopes)
      BY <1>2, <1>8, <1>9
    <3>2. scopes[k].entry \in 0..Len(live) /\ scopes[k].entry <= scopes[last].entry
      BY <1>1, <3>1, ScopeEntries DEF ScopesNested
    <3> QED
      BY <1>2, <1>9, <3>2
  <2> QED
    BY <1>7, <1>8, <2>1
<1>13. /\ \A l \in DOMAIN labels : l \in DOMAIN labels' /\ labels'[l] = labels[l]
       /\ DOMAIN labels' \subseteq DOMAIN labels \cup {scopes[last].end}
       /\ scopes[last].end # Nowhere =>
            /\ scopes[last].end \in DOMAIN labels'
            /\ labels'[scopes[last].end] = Len(plan_steps) + 2
       /\ \A l \in DOMAIN labels' : l \in DOMAIN labels \/ labels'[l] = Len(plan_steps) + 2
       /\ DOMAIN labels' \subseteq ScopeLabels /\ labels' \in [DOMAIN labels' -> Nat]
  <2>1. scopes[last].end # Nowhere => scopes[last].end \notin DOMAIN labels
    BY <1>2, <1>9 DEF PlanInv, EndsFresh
  <2>2. /\ DOMAIN labels \subseteq ScopeLabels
        /\ scopes[last].end # Nowhere => scopes[last].end \in ScopeLabels
    BY <1>1, <1>2 DEF PlanTypeOK, Scope, ScopeLabels
  <2>3. CASE scopes[last].end = Nowhere
    BY <1>2, <1>5, <2>2, <2>3
  <2>4. CASE scopes[last].end # Nowhere
    BY <1>2, <1>5, <1>10, <2>1, <2>2, <2>4, SMTT(60)
  <2> QED
    BY <2>3, <2>4
<1>14. ASSUME NEW s, LandsRight(s) PROVE LandsRight(s)'
  <2>1. ASSUME NEW k \in 1..Len(scopes), scopes[k].end # Nowhere
        PROVE  \/ \E j \in 1..Len(scopes') :
                    /\ scopes'[j].end = scopes[k].end
                    /\ Prefix(live', scopes'[j].entry) = Prefix(live, scopes[k].entry)
               \/ /\ scopes[k].end \in DOMAIN labels'
                  /\ \E p \in Nat : /\ labels'[scopes[k].end] = p
                                    /\ HeldAt(p)' = Prefix(live, scopes[k].entry)
    <3>1. CASE k = last
      <4>1. Len(plan_steps) + 2 \in Nat
        BY <1>10
      <4> QED
        BY <1>9, <1>11, <1>13, <2>1, <3>1, <4>1
    <3>2. CASE k \in 1..(last - 1)
      BY <1>8, <1>12, <3>2
    <3> QED
      BY <1>2, <1>9, <3>1, <3>2
  <2> QED
    BY <1>1, <1>2, <1>10, <1>13, <1>14, <2>1, JumpsKept
<1>15. ASSUME NEW s, StepOK(s) PROVE StepOK(s)'
  BY <1>14, <1>15 DEF StepOK, ReleasesNewestFirst, FailsTo, TakesAfresh,
          NamesWhatIsHeld, StepShape
<1>16. StepOK(st)
  <2>1. op = "loop_back" => LandsRight(st)
    BY <1>3, <1>9 DEF LandsRight
  <2> QED
    BY <1>3, <2>1 DEF StepOK, FailsTo, TakesAfresh, NamesWhatIsHeld, StepShape
<1>17. PlanTypeOK'
  BY <1>1, <1>4, <1>7, <1>8, <1>10, <1>13 DEF PlanTypeOK, constructed
<1>18. TowerComplete'
  BY <1>4 DEF PlanInv, TowerComplete, constructed
<1>19. EveryHeldChained'
  <2>1. ASSUME NEW s, Chained(s) PROVE Chained(s)'
    BY <1>4, <2>1 DEF Chained, chain, constructed
  <2>2. Chained(live) /\ Chained(Prefix(live, e))
    BY <1>2, ChainedPrefix DEF PlanInv, EveryHeldChained
  <2>3. Chained(live)'
    BY <1>4, <2>1, <2>2 DEF Chained, chain, constructed
  <2>4. ASSUME NEW p \in 1..Len(plan_steps') PROVE Chained(plan_steps[p].held)'
    <3>1. PICK s : s = plan_steps'[p].held
      OBVIOUS
    <3>2. Chained(s)
      BY <1>3, <1>10, <2>2, <3>1 DEF PlanInv, EveryHeldChained
    <3> QED
      BY <1>4, <3>1, <3>2 DEF Chained, chain, constructed
  <2> QED
    BY <2>3, <2>4 DEF EveryHeldChained
<1>20. StepsOK'
  BY <1>10, <1>15, <1>16 DEF PlanInv, StepsOK
<1>21. ScopesNested'
  <2>1. ASSUME NEW k \in 1..(last - 1)
        PROVE  /\ scopes'[k].entry <= Len(live')
               /\ \A j \in 1..k : scopes'[j].entry <= scopes'[k].entry
    <3>1. \A j \in 1..k : j \in 1..(last - 1)
      BY <1>2
    <3>2. k \in 1..Len(scopes)
      BY <1>8, <1>9
    <3> QED
      BY <1>7, <1>8, <1>12, <3>1, <3>2 DEF PlanInv, ScopesNested
  <2>2. ASSUME NEW k \in 1..(last - 1), scopes[k].kind = "loop"
        PROVE  \E n \in Name :
                 /\ scopes[k].end = Done(n) /\ Top(n) \in DOMAIN labels'
                 /\ HeldAt(labels[Top(n)])' = Prefix(live', scopes'[k].entry)
    <3>1. PICK n \in Name :
            /\ scopes[k].end = Done(n) /\ Top(n) \in DOMAIN labels
            /\ HeldAt(labels[Top(n)]) = Prefix(live, scopes[k].entry)
      BY <1>1, <1>8, <1>9, <2>2 DEF ScopesNested
    <3>2. labels[Top(n)] \in 1..(Len(plan_steps) + 1)
      BY <1>2, <1>10, <3>1 DEF PlanInv, LabelsPlaced
    <3>3. ASSUME NEW p \in 1..(Len(plan_steps) + 1), p = labels[Top(n)]
          PROVE  HeldAt(labels[Top(n)])' = HeldAt(p)
      <4>1. labels'[Top(n)] = p
        BY <1>13, <3>1, <3>3
      <4> QED
        BY <1>10, <4>1
    <3> QED
      BY <1>12, <1>13, <3>1, <3>2, <3>3
  <2>3. \A k \in 1..(last - 1) : scopes'[k] = scopes[k]
    BY <1>8
  <2> QED
    BY <1>8, <2>1, <2>2, <2>3 DEF ScopesNested
<1>22. EndsFresh'
  <2>1. ASSUME NEW k \in 1..(last - 1), scopes[k].end # Nowhere
        PROVE  /\ scopes[k].end \notin DOMAIN labels'
               /\ \A j \in 1..(last - 1) : scopes[j].end = scopes[k].end => j = k
    <3>1. k \in 1..Len(scopes) /\ last \in 1..Len(scopes) /\ k # last
          /\ \A j \in 1..(last - 1) : j \in 1..Len(scopes)
      BY <1>2, <1>8, <1>9
    <3>2. scopes[k].end # scopes[last].end /\ scopes[k].end \notin DOMAIN labels
      BY <2>1, <3>1 DEF PlanInv, EndsFresh
    <3> QED
      BY <1>13, <2>1, <3>1, <3>2 DEF PlanInv, EndsFresh
  <2> QED
    BY <1>8, <2>1 DEF EndsFresh
<1>23. LabelsNumbered'
  <2>1. \A i \in 0..Len(plan_steps) : i \in 0..Len(plan_steps')
    BY <1>10
  <2>2. ASSUME NEW l \in DOMAIN labels' \cup {scopes'[k].end : k \in 1..Len(scopes')}
        PROVE  l \in DOMAIN labels \cup {scopes[k].end : k \in 1..Len(scopes)}
    BY <1>2, <1>8, <1>13, <1>9
  <2> QED
    BY <1>13, <2>1, <2>2 DEF PlanInv, LabelsNumbered
<1>24. LabelsPlaced'
  <2>1. ASSUME NEW l \in DOMAIN labels'
        PROVE  1 <= labels'[l] /\ labels'[l] <= Len(plan_steps') + 1
    <3>1. CASE labels'[l] = Len(plan_steps) + 2
      BY <1>10, <3>1
    <3>2. CASE l \in DOMAIN labels /\ labels'[l] = labels[l]
      <4>1. labels[l] \in Nat /\ 1 <= labels[l] /\ labels[l] <= Len(plan_steps) + 1
        BY <1>2, <3>2 DEF PlanInv, LabelsPlaced
      <4> QED
        BY <1>10, <3>2, <4>1
    <3> QED
      BY <1>13, <3>1, <3>2
  <2> QED
    BY <1>4, <2>1 DEF LabelsPlaced
<1>25. ExitIsLast'
  <2>1. \A p \in 1..Len(plan_steps) : plan_steps[p].op # "exit"
    BY DEF PlanInv, ExitIsLast
  <2>2. \A p \in 1..Len(plan_steps') : plan_steps'[p].op # "exit"
    BY <1>3, <1>10, <2>1
  <2> QED
    BY <1>4, <2>2 DEF ExitIsLast
<1> QED
  BY <1>10, <1>17, <1>18, <1>19, <1>20, <1>21, <1>22, <1>23, <1>24, <1>25 DEF PlanInv

(* What opening a scope sc does, with a step of its own or without one.    *)
Opens(sc) ==
  /\ sc \in Scope /\ sc.entry = Len(live) /\ scopes' = Append(scopes, sc)
  /\ UNCHANGED liveVars /\ UNCHANGED done
  /\ plan_steps' \in Seq(PlanStep) /\ Len(plan_steps) <= Len(plan_steps')
  /\ \A p \in 1..Len(plan_steps) : plan_steps'[p] = plan_steps[p]
  /\ \A p \in 1..Len(plan_steps') : p \notin 1..Len(plan_steps) =>
       /\ plan_steps'[p].op \in {"loop_top", "scope_guard"}
       /\ plan_steps'[p].held = live /\ plan_steps'[p].releases = <<>>
       /\ plan_steps'[p].op = "scope_guard" => plan_steps'[p].to = sc.end
  /\ \A l \in DOMAIN labels : l \in DOMAIN labels' /\ labels'[l] = labels[l]
  /\ labels' \in [DOMAIN labels' -> Nat]
  /\ \A l \in DOMAIN labels' :
       \/ l \in DOMAIN labels
       \/ \E n \in Name : l = Top(n) /\ labels'[l] = Len(plan_steps) + 1
  /\ sc.end = Nowhere => plan_steps' = plan_steps
  /\ sc.end # Nowhere =>
       /\ sc.end \notin DOMAIN labels
       /\ \A k \in 1..Len(scopes) : scopes[k].end # sc.end
       /\ sc.end[1] = "past" => sc.end[2] \in 0..Len(plan_steps')
       /\ sc.end[1] = "done" => Top(sc.end[2]) \in DOMAIN labels'
  /\ sc.kind = "loop" =>
       \E n \in Name : /\ sc.end = Done(n) /\ Top(n) \in DOMAIN labels'
                       /\ labels'[Top(n)] = Len(plan_steps) + 1

(* Opening a scope keeps the invariant.                                    *)
LEMMA OpenKeeps ==
  ASSUME PlanInv, done = FALSE, NEW sc, Opens(sc),
         \A p \in 1..(Len(plan_steps) + 1) : HeldAt(p)' = HeldAt(p), StepsFollow'
  PROVE  PlanInv'
<1> DEFINE last == Len(scopes)
<1>1. PlanTypeOK /\ StepsFollow /\ LabelsPlaced /\ ScopesNested
  BY DEF PlanInv
<1>2. /\ last \in Nat /\ live \in Seq(Rung) /\ Len(live) \in Nat
      /\ scopes \in Seq(Scope) /\ labels \in [DOMAIN labels -> Nat]
      /\ Len(plan_steps) \in Nat /\ Len(plan_steps') \in Nat
      /\ Len(plan_steps) <= Len(plan_steps')
      /\ \A k \in 1..last : scopes[k] \in Scope /\ scopes[k].entry \in 0..Len(live)
  BY <1>1, ScopeEntries, LenProperties DEF PlanTypeOK, Opens
<1>3. /\ live' = live /\ tower_order' = tower_order /\ enclosing' = enclosing
      /\ done' = FALSE
  BY DEF Opens, liveVars
<1>4. /\ scopes' \in Seq(Scope) /\ Len(scopes') = last + 1
      /\ \A k \in 1..last : scopes'[k] = scopes[k]
      /\ scopes'[last + 1] = sc
      /\ \A k \in 1..(last + 1) : k \in 1..last \/ k = last + 1
  <2>1. sc \in Scope /\ scopes' = Append(scopes, sc)
    BY DEF Opens
  <2>2. \A k \in 1..(last + 1) : k \in 1..last \/ k = last + 1
    BY <1>2
  <2> QED
    BY <1>2, <2>1, <2>2, AppendProperties
<1> HIDE DEF last
<1>5. last = Len(scopes) /\ last \in 1..(last + 1) \cup {0} /\ \A k \in 1..last : k \in 1..(last + 1)
  BY <1>2 DEF last
<1>6. Prefix(live, Len(live)) = live
  BY <1>2, PrefixFull
<1>7. ASSUME NEW s, LandsRight(s) PROVE LandsRight(s)'
  <2>1. ASSUME NEW k \in 1..Len(scopes), scopes[k].end # Nowhere
        PROVE  \E j \in 1..Len(scopes') :
                 /\ scopes'[j].end = scopes[k].end
                 /\ Prefix(live', scopes'[j].entry) = Prefix(live, scopes[k].entry)
    BY <1>3, <1>4, <1>5, <2>1
  <2>2. \A l \in DOMAIN labels : l \in DOMAIN labels' /\ labels'[l] = labels[l]
    BY DEF Opens
  <2> QED
    BY <1>1, <1>2, <1>7, <2>1, <2>2, JumpsKept
<1>8. ASSUME NEW s, StepOK(s) PROVE StepOK(s)'
  BY <1>7, <1>8 DEF StepOK, ReleasesNewestFirst, FailsTo, TakesAfresh,
          NamesWhatIsHeld, StepShape
<1>9. ASSUME NEW p \in 1..Len(plan_steps'), p \notin 1..Len(plan_steps),
             NEW st, st = plan_steps'[p]
      PROVE  /\ StepOK(st)' /\ st.held = live /\ st.op # "exit"
  <2>1. /\ st.op \in {"loop_top", "scope_guard"} /\ st.held = live
        /\ st.releases = <<>>
        /\ st.op = "scope_guard" => st.to = sc.end
    BY <1>9 DEF Opens
  <2>2. Len(st.releases) = 0 /\ Len(st.held) - 0 = Len(live) /\ Landing(st) = live
    BY <1>2, <1>6, <2>1, EmptySeq DEF Landing
  <2>3. sc.end # Nowhere
    <3>1. plan_steps' # plan_steps
      BY <1>9
    <3> QED
      BY <3>1 DEF Opens
  <2>4. st.op = "scope_guard" => LandsRight(st)'
    <3>1. last + 1 \in 1..Len(scopes')
      BY <1>2, <1>4, <1>5
    <3>2. Prefix(live', sc.entry) = Landing(st)
      BY <1>3, <1>6, <2>2 DEF Opens
    <3> QED
      BY <1>4, <2>1, <2>3, <3>1, <3>2 DEF LandsRight
  <2>5. ReleasesNewestFirst(st)
    BY <1>2, <2>1, <2>2 DEF ReleasesNewestFirst
  <2> QED
    BY <2>1, <2>4, <2>5
    DEF StepOK, ReleasesNewestFirst, FailsTo, TakesAfresh,
          NamesWhatIsHeld, StepShape
<1>10. PlanTypeOK'
  <2>1. DOMAIN labels' \subseteq ScopeLabels
    BY <1>1, LabelTypes DEF Opens, PlanTypeOK
  <2> QED
    BY <1>1, <1>3, <1>4, <2>1 DEF Opens, PlanTypeOK, constructed
<1>11. TowerComplete'
  BY <1>3 DEF PlanInv, TowerComplete, constructed
<1>12. EveryHeldChained'
  <2>1. ASSUME NEW s, Chained(s) PROVE Chained(s)'
    BY <1>3, <2>1 DEF Chained, chain, constructed
  <2>2. Chained(live)'
    BY <1>3 DEF PlanInv, EveryHeldChained, Chained, chain, constructed
  <2>3. ASSUME NEW p \in 1..Len(plan_steps') PROVE Chained(plan_steps[p].held)'
    <3>1. PICK s : s = plan_steps'[p].held
      OBVIOUS
    <3>2. CASE p \in 1..Len(plan_steps)
      <4>1. Chained(s)
        BY <3>1, <3>2 DEF PlanInv, EveryHeldChained, Opens
      <4> QED
        BY <1>3, <3>1, <4>1 DEF Chained, chain, constructed
    <3>3. CASE p \notin 1..Len(plan_steps)
      <4>1. s = live
        BY <1>9, <3>1, <3>3
      <4>2. Chained(s)
        BY <4>1 DEF PlanInv, EveryHeldChained
      <4> QED
        BY <1>3, <3>1, <4>2 DEF Chained, chain, constructed
    <3> QED
      BY <3>2, <3>3
  <2> QED
    BY <2>2, <2>3 DEF EveryHeldChained
<1>13. StepsOK'
  <2>1. ASSUME NEW p \in 1..Len(plan_steps'), NEW st, st = plan_steps'[p]
        PROVE  StepOK(st)'
    <3>1. CASE p \in 1..Len(plan_steps)
      BY <1>8, <2>1, <3>1 DEF PlanInv, StepsOK, Opens
    <3>2. CASE p \notin 1..Len(plan_steps)
      BY <1>9, <2>1, <3>2
    <3> QED
      BY <3>1, <3>2
  <2> QED
    BY <2>1 DEF StepsOK, StepOK, ReleasesNewestFirst, FailsTo, TakesAfresh,
                NamesWhatIsHeld, StepShape, LandsRight
<1>14. ScopesNested'
  <2>1. \A k \in 1..(last + 1) :
          /\ scopes'[k].entry <= Len(live')
          /\ \A j \in 1..k : scopes'[j].entry <= scopes'[k].entry
    <3>1. \A k \in 1..(last + 1) : scopes'[k].entry \in Nat /\ scopes'[k].entry <= Len(live)
      BY <1>2, <1>4, <1>5 DEF Opens
    <3>2. ASSUME NEW k \in 1..(last + 1), NEW j \in 1..k
          PROVE  scopes'[j].entry <= scopes'[k].entry
      <4>1. CASE k = last + 1
        <5>1. j \in 1..(last + 1) /\ scopes'[k].entry = Len(live)
          BY <1>4, <4>1 DEF Opens
        <5> QED
          BY <3>1, <5>1
      <4>2. CASE k \in 1..last
        <5>1. j \in 1..last /\ k \in 1..Len(scopes)
          BY <1>2, <1>5, <4>2
        <5> QED
          BY <1>1, <1>4, <4>2, <5>1 DEF ScopesNested
      <4> QED
        BY <1>4, <4>1, <4>2
    <3> QED
      BY <1>3, <3>1, <3>2
  <2>2. ASSUME NEW k \in 1..last, scopes[k].kind = "loop"
        PROVE  \E n \in Name :
                 /\ scopes[k].end = Done(n) /\ Top(n) \in DOMAIN labels'
                 /\ HeldAt(labels[Top(n)])' = Prefix(live', scopes[k].entry)
    <3>1. PICK n \in Name :
            /\ scopes[k].end = Done(n) /\ Top(n) \in DOMAIN labels
            /\ HeldAt(labels[Top(n)]) = Prefix(live, scopes[k].entry)
      BY <1>1, <1>5, <2>2 DEF ScopesNested
    <3>2. labels[Top(n)] \in 1..(Len(plan_steps) + 1)
      BY <1>2, <1>3, <3>1 DEF PlanInv, LabelsPlaced
    <3>3. labels'[Top(n)] = labels[Top(n)] /\ Top(n) \in DOMAIN labels'
      BY <3>1 DEF Opens
    <3>4. ASSUME NEW p \in 1..(Len(plan_steps) + 1), p = labels[Top(n)]
          PROVE  HeldAt(labels[Top(n)])' = HeldAt(p)
      BY <3>3, <3>4
    <3> QED
      BY <1>3, <3>1, <3>2, <3>3, <3>4
  <2>3. ASSUME sc.kind = "loop"
        PROVE  \E n \in Name :
                 /\ sc.end = Done(n) /\ Top(n) \in DOMAIN labels'
                 /\ HeldAt(labels[Top(n)])' = Prefix(live', sc.entry)
    <3>1. PICK n \in Name :
            /\ sc.end = Done(n) /\ Top(n) \in DOMAIN labels'
            /\ labels'[Top(n)] = Len(plan_steps) + 1
      BY <2>3 DEF Opens
    <3>2. ASSUME NEW p \in 1..(Len(plan_steps) + 1), p = Len(plan_steps) + 1
          PROVE  HeldAt(labels[Top(n)])' = live
      <4>1. HeldAt(p)' = live
        BY <1>2, <3>2 DEF HeldAt
      <4> QED
        BY <3>1, <3>2, <4>1
    <3>3. Prefix(live', sc.entry) = live /\ Len(plan_steps) + 1 \in 1..(Len(plan_steps) + 1)
      BY <1>2, <1>3, <1>6 DEF Opens
    <3> QED
      BY <3>1, <3>2, <3>3
  <2> QED
    BY <1>4, <2>1, <2>2, <2>3 DEF ScopesNested
<1>15. EndsFresh'
  <2>1. ASSUME NEW k \in 1..last, scopes[k].end # Nowhere
        PROVE  scopes[k].end \notin DOMAIN labels'
    <3>1. scopes[k].end \notin DOMAIN labels
      BY <1>5, <2>1 DEF PlanInv, EndsFresh
    <3>2. \A n \in Name : scopes[k].end # Top(n)
      BY <1>2, <2>1 DEF Scope, EndLabels, Top, Nowhere
    <3> QED
      BY <3>1, <3>2 DEF Opens
  <2>2. ASSUME sc.end # Nowhere
        PROVE  /\ sc.end \notin DOMAIN labels'
               /\ \A k \in 1..last : scopes[k].end # sc.end
    <3>1. \A n \in Name : sc.end # Top(n)
      BY <2>2 DEF Opens, Scope, EndLabels, Top, Nowhere
    <3> QED
      BY <1>5, <2>2, <3>1 DEF Opens
  <2>3. ASSUME NEW k \in 1..last, NEW j \in 1..last,
               scopes[k].end # Nowhere, scopes[j].end = scopes[k].end
        PROVE  j = k
    BY <1>5, <2>3 DEF PlanInv, EndsFresh
  <2> QED
    BY <1>4, <2>1, <2>2, <2>3 DEF EndsFresh
<1>16. LabelsNumbered'
  <2>1. \A i \in 0..Len(plan_steps) : i \in 0..Len(plan_steps')
    BY <1>2
  <2>2. \A l \in DOMAIN labels \cup {scopes[k].end : k \in 1..Len(scopes)} :
          /\ l[1] = "past" => l[2] \in 0..Len(plan_steps')
          /\ l[1] = "done" => Top(l[2]) \in DOMAIN labels'
    BY <2>1 DEF PlanInv, LabelsNumbered, Opens
  <2>3. \A n \in Name : Top(n)[1] = "top"
    BY DEF Top
  <2>4. /\ sc.end[1] = "past" => sc.end[2] \in 0..Len(plan_steps')
        /\ sc.end[1] = "done" => Top(sc.end[2]) \in DOMAIN labels'
    BY DEF Opens, Nowhere
  <2>5. ASSUME NEW l \in DOMAIN labels' \cup {scopes'[k].end : k \in 1..Len(scopes')}
        PROVE  \/ l \in DOMAIN labels \cup {scopes[k].end : k \in 1..Len(scopes)}
               \/ l = sc.end
               \/ \E n \in Name : l = Top(n)
    BY <1>4, <1>5, <2>5 DEF Opens
  <2>6. ASSUME NEW l \in DOMAIN labels' \cup {scopes'[k].end : k \in 1..Len(scopes')}
        PROVE  /\ l[1] = "past" => l[2] \in 0..Len(plan_steps')
               /\ l[1] = "done" => Top(l[2]) \in DOMAIN labels'
    BY <2>2, <2>3, <2>4, <2>5
  <2> QED
    BY <2>6 DEF LabelsNumbered
<1>17. LabelsPlaced'
  <2>1. ASSUME NEW l \in DOMAIN labels'
        PROVE  1 <= labels'[l] /\ labels'[l] <= Len(plan_steps') + 1
    <3>1. CASE l \in DOMAIN labels
      <4>1. labels[l] \in Nat /\ 1 <= labels[l] /\ labels[l] <= Len(plan_steps) + 1
        BY <1>2, <3>1 DEF PlanInv, LabelsPlaced
      <4>2. labels'[l] = labels[l]
        BY <3>1 DEF Opens
      <4> QED
        BY <1>2, <4>1, <4>2
    <3>2. CASE labels'[l] = Len(plan_steps) + 1
      BY <1>2, <3>2
    <3> QED
      BY <3>1, <3>2 DEF Opens
  <2> QED
    BY <1>3, <2>1 DEF LabelsPlaced
<1>18. ExitIsLast'
  <2>1. ASSUME NEW p \in 1..Len(plan_steps') PROVE plan_steps'[p].op # "exit"
    <3>1. CASE p \in 1..Len(plan_steps)
      BY <3>1 DEF PlanInv, ExitIsLast, Opens
    <3>2. CASE p \notin 1..Len(plan_steps)
      BY <1>9, <3>2
    <3> QED
      BY <3>1, <3>2
  <2> QED
    BY <1>3, <2>1 DEF ExitIsLast
<1> QED
  BY <1>10, <1>11, <1>12, <1>13, <1>14, <1>15, <1>16, <1>17, <1>18 DEF PlanInv

-----------------------------------------------------------------------------
(* The operations, one by one.                                             *)

(* The floor of the newest live rung is a label.                           *)
LEMMA NewestFloor ==
  ASSUME PlanTypeOK
  PROVE  Floor(Newest(live)) \in Labels
BY NewestProperties, LabelTypes DEF PlanTypeOK

(* A plain step keeps the invariant when it is right by itself.            *)
LEMMA PlanPlainKeeps ==
  ASSUME PlanInv, NEW st \in PlanStep, PlanPlain(st), st.held = live,
         st.op \in {"call", "spliced", "ensure", "loop_exit"}, StepOK(st)
  PROVE  PlanInv'
<1>1. done = FALSE /\ Emit(st) /\ UNCHANGED liveVars /\ UNCHANGED scopeVars /\ done' = done
  BY DEF PlanPlain, Planning, PlanInv, PlanTypeOK
<1>2. After(st) = live /\ st.op # "exit"
  BY DEF After
<1> QED
  BY <1>1, <1>2, PlainKeeps

(* Constructing a resource of one layer.                                   *)
LEMMA ConstructSingleKeeps ==
  ASSUME PlanInv, NEW r \in Resource, ConstructSingle(r)
  PROVE  PlanInv'
<1> DEFINE plain == Step("acquire", <<r, 1>>, Floor(Newest(live)), <<>>)
           st == [plain EXCEPT !.tries = 1 + Alternatives[r]]
           new == <<st>>
<1>1. /\ PlanTypeOK /\ done = FALSE /\ r \notin constructed /\ Layers[r] = 1
      /\ record_live(r) /\ Emit(st) /\ UNCHANGED scopeVars /\ UNCHANGED done
  BY DEF PlanInv, ConstructSingle, Planning, PlanTypeOK
<1>2. plain \in PlanStep
  <2>1. "acquire" \in Ops /\ <<r, 1>> \in Rung \cup {NoRung} /\ <<>> \in Seq(Rung)
    BY <1>1, RungDef, EmptySeq DEF Ops
  <2> QED
    BY <1>1, <2>1, NewestFloor, StepIsPlanStep
<1>3. st \in PlanStep
  <2>1. 1 + Alternatives[r] \in Nat \ {0}
    <3>1. Alternatives[r] \in Nat
      BY AlternativesAssumption
    <3> QED
      BY <3>1
  <2> HIDE DEF plain
  <2> QED
    BY <1>2, <2>1 DEF PlanStep
<1>4. /\ st.op = "acquire" /\ st.rung = <<r, 1>> /\ st.held = live
      /\ st.releases = <<>> /\ st.to = Floor(Newest(live))
  BY DEF Step
<1>5. new \in Seq(PlanStep) /\ Len(new) = 1 /\ new[1] = st /\ plan_steps' = plan_steps \o new
  BY <1>1, <1>3, OneStep DEF Emit
<1>6. UpTo(r, 0) = live
  BY <1>1, UpToProperties DEF PlanTypeOK
<1> HIDE DEF new, st
<1>7. BringUp(r, new)
  <2>1. \A i \in 1..Layers[r] : i = 1 /\ i - 1 = 0
    BY <1>1
  <2> QED
    BY <1>1, <1>4, <1>5, <1>6, <2>1 DEF BringUp
<1> QED
  BY <1>1, <1>5, <1>7, RecordKeeps

(* Constructing a resource of several layers.                              *)
LEMMA ConstructLayeredKeeps ==
  ASSUME PlanInv, NEW r \in Resource, ConstructLayered(r)
  PROVE  PlanInv'
<1> DEFINE new == LayerSteps(r)
<1>1. /\ PlanTypeOK /\ done = FALSE /\ r \notin constructed
      /\ record_live(r) /\ plan_steps' = plan_steps \o new
      /\ UNCHANGED scopeVars /\ UNCHANGED done
  BY DEF PlanInv, ConstructLayered, Planning, PlanTypeOK
<1>2. /\ Layers[r] \in Nat /\ live \in Seq(Rung)
      /\ \A i \in 1..Layers[r] : <<r, i>> \in Rung
  BY <1>1, RungsProperties, RungDef DEF PlanTypeOK
<1>3. ASSUME NEW i \in 1..Layers[r]
      PROVE  /\ UpTo(r, i - 1) \in Seq(Rung)
             /\ Newest(UpTo(r, i - 1)) = IF i = 1 THEN Newest(live) ELSE <<r, i - 1>>
  <2>1. i - 1 \in 0..Layers[r] /\ i \in Nat
    BY <1>2
  <2>2. /\ UpTo(r, i - 1) \in Seq(Rung) /\ Len(UpTo(r, i - 1)) = Len(live) + (i - 1)
        /\ \A j \in 1..(i - 1) : UpTo(r, i - 1)[Len(live) + j] = <<r, j>>
        /\ UpTo(r, 0) = live /\ Len(live) \in Nat
    BY <1>2, <2>1, UpToProperties
  <2>3. CASE i = 1
    BY <2>2, <2>3
  <2>4. CASE i # 1
    <3>1. i - 1 \in 1..(i - 1) /\ Len(live) + (i - 1) # 0
      BY <2>1, <2>2, <2>4
    <3>2. UpTo(r, i - 1) # <<>>
      BY <2>2, <3>1, EmptySeq
    <3> QED
      BY <2>2, <2>4, <3>1, <3>2 DEF Newest
  <2> QED
    BY <2>2, <2>3, <2>4
<1>4. ASSUME NEW i \in 1..Layers[r]
      PROVE  /\ new[i] \in PlanStep /\ new[i].op = "acquire" /\ new[i].rung = <<r, i>>
             /\ new[i].held = UpTo(r, i - 1) /\ new[i].releases = <<>>
             /\ new[i].to = Floor(Newest(UpTo(r, i - 1)))
  <2> DEFINE to == Floor(IF i = 1 THEN Newest(live) ELSE <<r, i - 1>>)
  <2>1. to = Floor(Newest(UpTo(r, i - 1))) /\ to \in Labels
    BY <1>3, NewestProperties, LabelTypes
  <2>2. Step("acquire", <<r, i>>, to, <<>>) \in PlanStep
    <3>1. "acquire" \in Ops /\ <<r, i>> \in Rung \cup {NoRung} /\ <<>> \in Seq(Rung)
      BY <1>2, EmptySeq DEF Ops
    <3> QED
      BY <1>1, <2>1, <3>1, StepIsPlanStep
  <2>3. new[i] = [Step("acquire", <<r, i>>, to, <<>>) EXCEPT !.held = UpTo(r, i - 1)]
    BY DEF LayerSteps, UpTo
  <2> HIDE DEF to, new
  <2>4. new[i] \in PlanStep
    BY <1>3, <2>2, <2>3 DEF PlanStep
  <2> QED
    BY <2>1, <2>3, <2>4 DEF Step
<1>5. new \in Seq(PlanStep) /\ Len(new) = Layers[r]
  <2>1. new \in [1..Layers[r] -> PlanStep]
    BY <1>4 DEF LayerSteps
  <2> QED
    BY <1>2, <2>1, FunctionIsSeq
<1> HIDE DEF new
<1>6. BringUp(r, new)
  BY <1>4, <1>5 DEF BringUp
<1> QED
  BY <1>1, <1>5, <1>6, RecordKeeps

(* Adopting a resource: the base layer is all of it.                       *)
LEMMA AdoptKeeps ==
  ASSUME SingleLayerAdoption, PlanInv, NEW r \in Resource, Adopt(r)
  PROVE  PlanInv'
<1> DEFINE st == Step("adopt", TopRung(r), Nowhere, <<>>)
           new == <<st>>
<1>1. /\ PlanTypeOK /\ done = FALSE /\ r \notin constructed /\ Layers[r] = 1
      /\ record_live(r) /\ Emit(st) /\ UNCHANGED scopeVars /\ UNCHANGED done
  BY DEF PlanInv, Adopt, Planning, PlanTypeOK, SingleLayerAdoption
<1>2. st \in PlanStep
  <2>1. "adopt" \in Ops /\ TopRung(r) \in Rung \cup {NoRung} /\ <<>> \in Seq(Rung)
    BY RungsProperties, EmptySeq DEF Ops
  <2> QED
    BY <1>1, <2>1, LabelTypes, StepIsPlanStep
<1>3. /\ st.op = "adopt" /\ st.rung = <<r, 1>> /\ st.held = live
      /\ st.releases = <<>>
  BY <1>1 DEF Step, TopRung
<1>4. new \in Seq(PlanStep) /\ Len(new) = 1 /\ new[1] = st /\ plan_steps' = plan_steps \o new
  BY <1>1, <1>2, OneStep DEF Emit
<1>5. UpTo(r, 0) = live
  BY <1>1, UpToProperties DEF PlanTypeOK
<1> HIDE DEF new, st
<1>6. BringUp(r, new)
  <2>1. \A i \in 1..Layers[r] : i = 1 /\ i - 1 = 0
    BY <1>1
  <2> QED
    BY <1>1, <1>3, <1>4, <1>5, <2>1 DEF BringUp
<1> QED
  BY <1>1, <1>4, <1>6, RecordKeeps

(* A call, a spliced call or a check: fails into the newest floor.         *)
LEMMA FallibleKeeps ==
  ASSUME PlanInv, NEW op \in {"call", "spliced", "ensure"},
         NEW rung \in Rung \cup {NoRung}, NEW repair \in BOOLEAN,
         NEW st, \/ st = Step(op, rung, Floor(Newest(live)), <<>>)
                 \/ st = [Step(op, rung, Floor(Newest(live)), <<>>)
                            EXCEPT !.repair = repair],
         op = "call" => \E k \in 1..Len(live) : live[k] = rung,
         PlanPlain(st)
  PROVE  PlanInv'
<1>1. PlanTypeOK /\ op \in Ops /\ <<>> \in Seq(Rung)
  BY EmptySeq DEF PlanInv, Ops
<1>2. st \in PlanStep
  <2>1. Step(op, rung, Floor(Newest(live)), <<>>) \in PlanStep
    BY <1>1, NewestFloor, StepIsPlanStep
  <2> QED
    BY <2>1 DEF PlanStep
<1>3. /\ st.op = op /\ st.rung = rung /\ st.held = live
      /\ st.releases = <<>> /\ st.to = Floor(Newest(live))
  BY DEF Step
<1>4. Len(live) \in Nat /\ Len(st.releases) = 0
  BY <1>1, <1>3, LenProperties, EmptySeq DEF PlanTypeOK
<1>5. StepOK(st)
  BY <1>3, <1>4 DEF StepOK, ReleasesNewestFirst, FailsTo, TakesAfresh,
          NamesWhatIsHeld, StepShape
<1> QED
  BY <1>2, <1>3, <1>5, PlanPlainKeeps

(* Calling a method, planned or spliced.                                   *)
LEMMA CallKeeps ==
  ASSUME PlanInv, NEW r \in Resource, NEW repair \in BOOLEAN,
         Call(r, repair) \/ SplicedCall(r, repair)
  PROVE  PlanInv'
<1>1. TopRung(r) \in Rung \cup {NoRung}
  BY RungsProperties
<1>2. CASE Call(r, repair)
  BY <1>1, <1>2, FallibleKeeps DEF Call, IsLive
<1>3. CASE SplicedCall(r, repair)
  BY <1>1, <1>3, FallibleKeeps DEF SplicedCall
<1> QED
  BY <1>2, <1>3

(* Checking a condition.                                                   *)
LEMMA EnsureKeeps ==
  ASSUME PlanInv, Ensure
  PROVE  PlanInv'
<1>1. PlanPlain(Step("ensure", NoRung, Floor(Newest(live)), <<>>)) /\ TRUE \in BOOLEAN
  BY DEF Ensure
<1> QED
  BY <1>1, FallibleKeeps

(* A jump, releasing down to an entry, that lands right.                   *)
LEMMA JumpKeeps ==
  ASSUME PlanInv, NEW to \in Labels, NEW entry \in 0..Len(live),
         NEW st, st = Step("loop_exit", NoRung, to, ReleasesFor(entry)),
         PlanPlain(st), Landing(st) = Prefix(live, entry) => LandsRight(st)
  PROVE  PlanInv'
<1>1. PlanTypeOK /\ "loop_exit" \in Ops
  BY DEF PlanInv, Ops
<1>2. ReleasesFor(entry) \in Seq(Rung)
  BY <1>1, ReleasesForProperties
<1>3. st \in PlanStep
  BY <1>1, <1>2, StepIsPlanStep
<1>4. /\ st.op = "loop_exit" /\ st.held = live /\ st.to = to
      /\ st.releases = ReleasesFor(entry)
  BY DEF Step
<1>5. ReleasesNewestFirst(st) /\ LandsRight(st)
  BY <1>1, <1>4, ReleasedTo
<1>6. StepOK(st)
  BY <1>4, <1>5 DEF StepOK, FailsTo, TakesAfresh, NamesWhatIsHeld, StepShape
<1> QED
  BY <1>3, <1>4, <1>6, PlanPlainKeeps

(* `leave NAME` and `repeat NAME`.                                         *)
LEMMA NamedJumpKeeps ==
  ASSUME PlanInv, NEW k \in 1..Len(scopes), Leave(k) \/ Repeat(k)
  PROVE  PlanInv'
<1>1. PlanTypeOK /\ ScopesNested
  BY DEF PlanInv
<1>2. scopes[k].entry \in 0..Len(live)
  BY <1>1, ScopeEntries
<1>3. PICK n \in Name :
        /\ scopes[k].end = Done(n) /\ Top(n) \in DOMAIN labels
        /\ HeldAt(labels[Top(n)]) = Prefix(live, scopes[k].entry)
  BY <1>1 DEF ScopesNested, Leave, Repeat
<1>4. /\ Done(n) \in Labels /\ Top(n) \in Labels /\ Done(n) # Nowhere
      /\ Top(scopes[k].end[2]) = Top(n)
  BY <1>3, LabelTypes DEF Done
<1>5. CASE Leave(k)
  <2> DEFINE st == Step("loop_exit", NoRung, scopes[k].end, ReleasesFor(scopes[k].entry))
  <2>1. PlanPlain(st)
    BY <1>5 DEF Leave
  <2>2. st.to = Done(n)
    BY <1>3 DEF Step
  <2> HIDE DEF st
  <2>3. Landing(st) = Prefix(live, scopes[k].entry) => LandsRight(st)
    BY <1>3, <1>4, <2>2 DEF LandsRight
  <2> QED
    BY <1>2, <1>3, <1>4, <2>1, <2>3, JumpKeeps DEF st
<1>6. CASE Repeat(k)
  <2> DEFINE st == Step("loop_exit", NoRung, Top(n), ReleasesFor(scopes[k].entry))
  <2>1. PlanPlain(st)
    BY <1>4, <1>6 DEF Repeat
  <2>2. st.to = Top(n)
    BY DEF Step
  <2> HIDE DEF st
  <2>3. Landing(st) = Prefix(live, scopes[k].entry) => LandsRight(st)
    BY <1>3, <2>2 DEF LandsRight
  <2> QED
    BY <1>2, <1>4, <2>1, <2>3, JumpKeeps DEF st
<1> QED
  BY <1>5, <1>6

(* `repeat program`.                                                       *)
LEMMA RepeatProgramKeeps ==
  ASSUME PlanInv, RepeatProgram
  PROVE  PlanInv'
<1> DEFINE st == Step("loop_exit", NoRung, ProgramAgain, ReleasesFor(0))
<1>1. live \in Seq(Rung) /\ Len(live) \in Nat /\ 0 \in 0..Len(live)
  BY LenProperties DEF PlanInv, PlanTypeOK
<1>2. Prefix(live, 0) = <<>>
  BY <1>1, PrefixFull
<1>3. PlanPlain(st) /\ st.to = ProgramAgain
  BY DEF RepeatProgram, Step
<1> HIDE DEF st
<1>4. Landing(st) = Prefix(live, 0) => LandsRight(st)
  BY <1>2, <1>3 DEF LandsRight
<1> QED
  BY <1>1, <1>3, <1>4, LabelTypes, JumpKeeps DEF st

(* `leave program` and the program's end go to the newest floor.           *)
LEMMA LeaveProgramKeeps ==
  ASSUME PlanInv, LeaveProgram
  PROVE  PlanInv'
<1> DEFINE st == Step("loop_exit", NoRung, Floor(Newest(live)), <<>>)
<1>1. PlanTypeOK /\ "loop_exit" \in Ops /\ NoRung \in Rung \cup {NoRung} /\ <<>> \in Seq(Rung)
  BY EmptySeq DEF PlanInv, Ops
<1>2. st \in PlanStep
  BY <1>1, NewestFloor, StepIsPlanStep
<1>3. /\ st.op = "loop_exit" /\ st.held = live /\ st.releases = <<>>
      /\ st.to = Floor(Newest(live)) /\ PlanPlain(st)
  BY DEF Step, LeaveProgram
<1>4. Len(live) \in Nat /\ Len(st.releases) = 0
  BY <1>1, <1>3, LenProperties, EmptySeq DEF PlanTypeOK
<1> HIDE DEF st
<1>5. StepOK(st)
  BY <1>3, <1>4
  DEF StepOK, ReleasesNewestFirst, FailsTo, TakesAfresh,
          NamesWhatIsHeld, StepShape, LandsRight
<1> QED
  BY <1>2, <1>3, <1>5, PlanPlainKeeps

(* The end of the program.                                                 *)
LEMMA FinishKeeps ==
  ASSUME PlanInv, Finish
  PROVE  PlanInv'
<1> DEFINE st == Step("exit", NoRung, Floor(Newest(live)), <<>>)
<1>1. PlanTypeOK /\ "exit" \in Ops /\ NoRung \in Rung \cup {NoRung} /\ <<>> \in Seq(Rung)
  BY EmptySeq DEF PlanInv, Ops
<1>2. st \in PlanStep
  BY <1>1, NewestFloor, StepIsPlanStep
<1>3. /\ st.op = "exit" /\ st.held = live /\ st.releases = <<>>
      /\ st.to = Floor(Newest(live))
  BY DEF Step
<1>4. /\ done = FALSE /\ scopes = <<>> /\ Emit(st) /\ done' = TRUE
      /\ UNCHANGED liveVars /\ UNCHANGED scopeVars
  BY <1>1 DEF Finish, PlanTypeOK
<1>5. Len(live) \in Nat /\ Len(st.releases) = 0
  BY <1>1, <1>3, LenProperties, EmptySeq DEF PlanTypeOK
<1> HIDE DEF st
<1>6. StepOK(st) /\ After(st) = live
  BY <1>3, <1>5
  DEF StepOK, ReleasesNewestFirst, FailsTo, TakesAfresh,
          NamesWhatIsHeld, StepShape, After
<1> QED
  BY <1>2, <1>3, <1>4, <1>6, PlainKeeps

(* The dedent of a named scope, with or without a back-edge.               *)
LEMMA LoopEndKeeps ==
  ASSUME PlanInv, NEW back \in BOOLEAN, LoopEnd(back)
  PROVE  PlanInv'
<1> DEFINE op == IF back THEN "loop_back" ELSE "scope_release"
           to == Top(Innermost.end[2])
<1>1. PlanTypeOK /\ ScopesNested /\ done = FALSE /\ scopes # <<>>
      /\ Innermost.kind = "loop" /\ Close(op, to)
  BY DEF PlanInv, PlanTypeOK, LoopEnd, InnermostIs
<1>2. Len(scopes) \in 1..Len(scopes)
  <2>1. Len(scopes) \in Nat /\ Len(scopes) # 0
    BY <1>1, ScopeEntries, EmptySeq DEF PlanTypeOK
  <2> QED
    BY <2>1
<1>3. PICK n \in Name :
        /\ Innermost.end = Done(n) /\ Top(n) \in DOMAIN labels
        /\ HeldAt(labels[Top(n)]) = Prefix(live, Innermost.entry)
  BY <1>1, <1>2 DEF ScopesNested, Innermost
<1>4. to = Top(n) /\ to \in Labels
  BY <1>3, LabelTypes DEF Done
<1>5. op \in {"scope_release", "loop_back"}
  OBVIOUS
<1> HIDE DEF op, to
<1> QED
  BY <1>1, <1>3, <1>4, <1>5, CloseKeeps

(* The dedent of an unnamed scope.                                         *)
LEMMA ScopeEndKeeps ==
  ASSUME PlanInv, ScopeEnd
  PROVE  PlanInv'
<1>1. done = FALSE /\ scopes # <<>> /\ Close("scope_release", Nowhere)
  BY DEF PlanInv, PlanTypeOK, ScopeEnd, InnermostIs
<1> QED
  BY <1>1, LabelTypes, CloseKeeps

(* `scope`.                                                                *)
LEMMA ScopeStartKeeps ==
  ASSUME PlanInv, ScopeStart
  PROVE  PlanInv'
<1> DEFINE sc == [kind |-> "block", end |-> Nowhere, entry |-> Len(live)]
<1>1. /\ done = FALSE /\ done' = done /\ UNCHANGED liveVars
      /\ scopes' = Append(scopes, sc)
      /\ plan_steps' = plan_steps /\ labels' = labels
  BY DEF PlanInv, PlanTypeOK, ScopeStart, Planning, OpenBlock
<1>2. /\ plan_steps \in Seq(PlanStep) /\ Len(plan_steps) \in Nat /\ Len(live) \in Nat
      /\ labels \in [DOMAIN labels -> Nat]
  BY LenProperties DEF PlanInv, PlanTypeOK
<1>3. \A p \in 1..(Len(plan_steps) + 1) : HeldAt(p)' = HeldAt(p)
  BY <1>1 DEF HeldAt, liveVars
<1>4. StepsFollow'
  <2>1. \A p \in 1..Len(plan_steps) : p + 1 \in 1..(Len(plan_steps) + 1)
    BY <1>2
  <2>2. 1 \in 1..(Len(plan_steps) + 1)
    BY <1>2
  <2> QED
    BY <1>1, <1>3, <2>1, <2>2 DEF PlanInv, StepsFollow
<1>5. sc \in Scope
  BY <1>2 DEF Scope
<1>6. Opens(sc)
  BY <1>1, <1>2, <1>5 DEF Opens
<1> QED
  BY <1>1, <1>3, <1>4, <1>6, OpenKeeps

(* Opening a scope with a step of its own.                                 *)
LEMMA OpeningStep ==
  ASSUME PlanInv, done = FALSE, UNCHANGED liveVars, UNCHANGED done,
         NEW op \in {"loop_top", "scope_guard"}, NEW to \in Labels,
         NEW st, st = Step(op, NoRung, to, <<>>), Emit(st)
  PROVE  /\ st.op = op /\ st.held = live /\ st.releases = <<>> /\ st.to = to
         /\ plan_steps' \in Seq(PlanStep)
         /\ Len(plan_steps') = Len(plan_steps) + 1 /\ Len(plan_steps) \in Nat
         /\ \A p \in 1..Len(plan_steps) : plan_steps'[p] = plan_steps[p]
         /\ plan_steps'[Len(plan_steps) + 1] = st
         /\ \A p \in 1..(Len(plan_steps) + 1) : HeldAt(p)' = HeldAt(p)
         /\ StepsFollow'
<1>1. PlanTypeOK /\ StepsFollow /\ op \in Ops /\ NoRung \in Rung \cup {NoRung}
      /\ <<>> \in Seq(Rung)
  BY EmptySeq DEF PlanInv, Ops
<1>2. st \in PlanStep
  BY <1>1, StepIsPlanStep
<1>3. st.op = op /\ st.held = live /\ st.releases = <<>> /\ st.to = to
  BY DEF Step
<1>4. After(st) = live /\ live' = live
  BY <1>3 DEF After, liveVars
<1> DEFINE new == <<st>>
<1>5. /\ new \in Seq(PlanStep) /\ new # <<>> /\ Len(new) = 1 /\ new[1] = st
      /\ plan_steps' = plan_steps \o new
  BY <1>1, <1>2, OneStep DEF Emit
<1> HIDE DEF new
<1> QED
  BY <1>1, <1>3, <1>4, <1>5, GrowKeeps

(* `NAME goes`.                                                            *)
LEMMA LoopStartKeeps ==
  ASSUME PlanInv, NEW n \in Name, LoopStart(n)
  PROVE  PlanInv'
<1> DEFINE sc == [kind |-> "loop", end |-> Done(n), entry |-> Len(live)]
           st == Step("loop_top", NoRung, Top(n), <<>>)
<1>1. /\ done = FALSE /\ done' = done /\ UNCHANGED liveVars /\ Emit(st)
      /\ Top(n) \notin DOMAIN labels /\ scopes' = Append(scopes, sc)
      /\ labels' = [l \in DOMAIN labels \cup {Top(n)} |->
                      IF l = Top(n) THEN Len(plan_steps) + 1 ELSE labels[l]]
  BY DEF PlanInv, PlanTypeOK, LoopStart, Planning, PlaceAt, Here
<1>2. /\ Len(plan_steps) \in Nat /\ Len(live) \in Nat
      /\ labels \in [DOMAIN labels -> Nat]
  BY LenProperties DEF PlanInv, PlanTypeOK
<1>3. /\ st.op = "loop_top" /\ st.held = live /\ st.releases = <<>>
      /\ plan_steps' \in Seq(PlanStep)
      /\ Len(plan_steps') = Len(plan_steps) + 1
      /\ \A p \in 1..Len(plan_steps) : plan_steps'[p] = plan_steps[p]
      /\ plan_steps'[Len(plan_steps) + 1] = st
      /\ \A p \in 1..(Len(plan_steps) + 1) : HeldAt(p)' = HeldAt(p)
      /\ StepsFollow'
  BY <1>1, LabelTypes, OpeningStep
<1>4. sc \in Scope
  BY <1>2 DEF Scope, EndLabels, Done
<1>5. \A p \in 1..Len(plan_steps') : p \notin 1..Len(plan_steps) => plan_steps'[p] = st
  BY <1>2, <1>3
<1>6. /\ Done(n) \notin DOMAIN labels
      /\ \A k \in 1..Len(scopes) : scopes[k].end # Done(n)
  <2> DEFINE end == Done(n)
  <2>1. end[1] = "done" /\ end[2] = n
    BY DEF Done
  <2> HIDE DEF end
  <2>2. end \notin DOMAIN labels \cup {scopes[k].end : k \in 1..Len(scopes)}
    BY <1>1, <2>1 DEF PlanInv, LabelsNumbered
  <2> QED
    BY <2>2 DEF end
<1>7. /\ sc.end = Done(n) /\ sc.entry = Len(live) /\ Done(n) # Nowhere
      /\ Done(n)[1] # "past" /\ Done(n)[2] = n
  BY DEF Done, Nowhere
<1>8. /\ \A l \in DOMAIN labels : l \in DOMAIN labels' /\ labels'[l] = labels[l]
      /\ labels' \in [DOMAIN labels' -> Nat]
      /\ \A l \in DOMAIN labels' :
           l \in DOMAIN labels \/ (l = Top(n) /\ labels'[l] = Len(plan_steps) + 1)
      /\ Top(n) \in DOMAIN labels' /\ labels'[Top(n)] = Len(plan_steps) + 1
  BY <1>1, <1>2
<1> HIDE DEF st, sc
<1>9. Opens(sc)
  BY <1>1, <1>2, <1>3, <1>4, <1>5, <1>6, <1>7, <1>8 DEF Opens
<1> QED
  BY <1>1, <1>3, <1>9, OpenKeeps

(* `GUARD goes`.                                                           *)
LEMMA GuardedScopeStartKeeps ==
  ASSUME PlanInv, GuardedScopeStart
  PROVE  PlanInv'
<1> DEFINE past == Past(Len(plan_steps) + 1)
           sc == [kind |-> "block", end |-> past, entry |-> Len(live)]
           st == Step("scope_guard", NoRung, past, <<>>)
<1>1. /\ done = FALSE /\ done' = done /\ UNCHANGED liveVars /\ Emit(st)
      /\ scopes' = Append(scopes, sc) /\ labels' = labels
  BY DEF PlanInv, PlanTypeOK, GuardedScopeStart, Planning, OpenBlock, Here
<1>2. /\ Len(plan_steps) \in Nat /\ Len(plan_steps) + 1 \in Nat /\ Len(live) \in Nat
      /\ labels \in [DOMAIN labels -> Nat]
  BY LenProperties DEF PlanInv, PlanTypeOK
<1>3. /\ st.op = "scope_guard" /\ st.held = live /\ st.releases = <<>> /\ st.to = past
      /\ plan_steps' \in Seq(PlanStep)
      /\ Len(plan_steps') = Len(plan_steps) + 1
      /\ \A p \in 1..Len(plan_steps) : plan_steps'[p] = plan_steps[p]
      /\ plan_steps'[Len(plan_steps) + 1] = st
      /\ \A p \in 1..(Len(plan_steps) + 1) : HeldAt(p)' = HeldAt(p)
      /\ StepsFollow'
  <2>1. past \in Labels
    BY <1>2, LabelTypes
  <2> HIDE DEF past
  <2>2. st = Step("scope_guard", NoRung, past, <<>>)
    OBVIOUS
  <2> HIDE DEF st
  <2> QED
    BY <1>1, <2>1, <2>2, OpeningStep
<1>4. sc \in Scope
  BY <1>2 DEF Scope, EndLabels, Past
<1>5. \A p \in 1..Len(plan_steps') : p \notin 1..Len(plan_steps) => plan_steps'[p] = st
  BY <1>2, <1>3
<1>6. /\ past \notin DOMAIN labels
      /\ \A k \in 1..Len(scopes) : scopes[k].end # past
  <2>1. past[1] = "past" /\ past[2] \notin 0..Len(plan_steps)
    BY <1>2 DEF Past
  <2> HIDE DEF past
  <2> QED
    BY <2>1 DEF PlanInv, LabelsNumbered
<1>7. /\ sc.end = past /\ sc.entry = Len(live) /\ past # Nowhere /\ sc.kind = "block"
      /\ past[1] = "past" /\ past[2] \in 0..Len(plan_steps')
  BY <1>2, <1>3 DEF Past, Nowhere
<1> HIDE DEF st, sc, past
<1>8. Opens(sc)
  BY <1>1, <1>2, <1>3, <1>4, <1>5, <1>6, <1>7 DEF Opens
<1> QED
  BY <1>1, <1>3, <1>8, OpenKeeps

-----------------------------------------------------------------------------
(* Whatever step of the program is planned next, the invariant is kept.    *)
LEMMA PlanNextKeeps ==
  ASSUME SingleLayerAdoption, PlanInv, PlanNext
  PROVE  PlanInv'
<1>1. ASSUME NEW r \in Resource, ConstructSingle(r) PROVE PlanInv'
  BY <1>1, ConstructSingleKeeps
<1>2. ASSUME NEW r \in Resource, ConstructLayered(r) PROVE PlanInv'
  BY <1>2, ConstructLayeredKeeps
<1>3. ASSUME NEW r \in Resource, Adopt(r) PROVE PlanInv'
  BY <1>3, AdoptKeeps
<1>4. ASSUME NEW r \in Resource, NEW repair \in BOOLEAN,
             Call(r, repair) \/ SplicedCall(r, repair)
      PROVE  PlanInv'
  BY <1>4, CallKeeps
<1>5. CASE Ensure
  BY <1>5, EnsureKeeps
<1>6. ASSUME NEW n \in Name, LoopStart(n) PROVE PlanInv'
  BY <1>6, LoopStartKeeps
<1>7. CASE ScopeStart
  BY <1>7, ScopeStartKeeps
<1>8. CASE GuardedScopeStart
  BY <1>8, GuardedScopeStartKeeps
<1>9. ASSUME NEW back \in BOOLEAN, LoopEnd(back) PROVE PlanInv'
  BY <1>9, LoopEndKeeps
<1>10. CASE ScopeEnd
  BY <1>10, ScopeEndKeeps
<1>11. ASSUME NEW k \in 1..Len(scopes), Leave(k) \/ Repeat(k) PROVE PlanInv'
  BY <1>11, NamedJumpKeeps
<1>12. CASE LeaveProgram
  BY <1>12, LeaveProgramKeeps
<1>13. CASE RepeatProgram
  BY <1>13, RepeatProgramKeeps
<1>14. CASE Finish
  BY <1>14, FinishKeeps
<1> QED
  BY <1>1, <1>2, <1>3, <1>4, <1>5, <1>6, <1>7, <1>8, <1>9, <1>10, <1>11, <1>12,
     <1>13, <1>14 DEF PlanNext

(* Nothing planned already moves when no step is planned.                  *)
LEMMA PlanStutters ==
  ASSUME PlanInv, UNCHANGED planVars
  PROVE  PlanInv'
<1>1. /\ live' = live /\ tower_order' = tower_order /\ enclosing' = enclosing
      /\ scopes' = scopes /\ labels' = labels /\ plan_steps' = plan_steps
      /\ done' = done
  BY DEF planVars
<1>2. PlanTypeOK'
  BY <1>1 DEF PlanInv, PlanTypeOK, constructed
<1>3. TowerComplete' /\ EveryHeldChained'
  BY <1>1 DEF PlanInv, TowerComplete, EveryHeldChained, Chained, chain, constructed
<1>4. StepsFollow' /\ ScopesNested'
  BY <1>1 DEF PlanInv, StepsFollow, ScopesNested, HeldAt
<1>5. StepsOK'
  <2>1. ASSUME NEW s, StepOK(s) PROVE StepOK(s)'
    <3>1. LandsRight(s) => LandsRight(s)'
      BY <1>1 DEF LandsRight, HeldAt
    <3> QED
      BY <2>1, <3>1 DEF StepOK, ReleasesNewestFirst, FailsTo, TakesAfresh,
          NamesWhatIsHeld, StepShape
  <2> QED
    BY <1>1, <2>1 DEF PlanInv, StepsOK
<1>6. EndsFresh' /\ LabelsNumbered'
  BY <1>1 DEF PlanInv, EndsFresh, LabelsNumbered
<1>7. LabelsPlaced' /\ ExitIsLast'
  BY <1>1 DEF PlanInv, LabelsPlaced, ExitIsLast
<1> QED
  BY <1>2, <1>3, <1>4, <1>5, <1>6, <1>7 DEF PlanInv

(* Every program `plan` accepts is planned right: each step against what   *)
(* the one before it leaves held, each release list the newest rungs in    *)
(* order, each jump where what it leaves held is what is live there, and   *)
(* each failure into the floor of the newest rung.                         *)
THEOREM PlansRight == SingleLayerAdoption => (PlanSpec => []PlanInv)
<1> SUFFICES ASSUME SingleLayerAdoption PROVE PlanSpec => []PlanInv
  OBVIOUS
<1>1. Init => PlanInv
  BY PlanInit
<1>2. PlanInv /\ [PlanNext]_planVars => PlanInv'
  BY PlanNextKeeps, PlanStutters
<1> QED
  BY <1>1, <1>2, PTL DEF PlanSpec

-----------------------------------------------------------------------------
(* The invariant of the process.                                           *)

ReleaseOps == {"scope_release", "loop_back", "loop_exit"}

(* At step p with n of its releases behind it, s is what the step was      *)
(* planned against, less what was released.                                *)
AtStep(p, n, s) ==
  /\ p \in 1..Len(plan_steps) /\ n \in 0..Len(plan_steps[p].releases)
  /\ s = Prefix(plan_steps[p].held, Len(plan_steps[p].held) - n)

(* In the tower, at the floor of the newest thing of s, or at the exit     *)
(* landmark with nothing.                                                  *)
AtFloor(p, s) ==
  /\ p \in FirstFloor..ExitAddress /\ s \in Seq(Rung) /\ Chained(s)
  /\ p = ExitAddress => s = <<>>
  /\ p < ExitAddress => s # <<>> /\ cascade[p - Len(plan_steps)] = Newest(s)

RunInv ==
  /\ mode \in {"compiling", "running", "unwinding", "exited"}
  /\ attempt \in Nat /\ released \in Nat
  /\ mode = "compiling" => pc = 0 /\ released = 0 /\ attempt = 1 /\ held = <<>>
  /\ mode # "compiling" => done
  /\ mode = "running" => AtStep(pc, released, held)
  /\ mode = "unwinding" => AtFloor(pc, held)
  /\ mode = "exited" => pc = ExitAddress /\ held = <<>>

IInv == PlanInv /\ RunInv

-----------------------------------------------------------------------------
(* The tower.                                                              *)

(* Releasing the newest thing leaves the rest.                             *)
LEMMA WithoutNewest ==
  ASSUME NEW s \in Seq(Rung), s # <<>>
  PROVE  /\ Without(s, Newest(s)) = Prefix(s, Len(s) - 1)
         /\ Len(s) - 1 \in 0..Len(s)
<1> DEFINE n == Len(s)
           at == {k \in 1..n : s[k] = Newest(s)}
<1>1. n \in Nat /\ n # 0 /\ n >= 1 /\ n - 1 \in 0..n /\ n \in 1..n
  <2>1. n \in Nat /\ n # 0
    BY LenProperties, EmptySeq
  <2> QED
    BY <2>1
<1>2. Newest(s) = s[n]
  BY DEF Newest
<1>3. n \in at /\ at # {} /\ \A k \in at : k \in Nat /\ k <= n
  BY <1>1, <1>2
<1> DEFINE newest == CHOOSE k \in at : \A j \in at : j <= k
<1>4. newest \in at /\ \A j \in at : j <= newest
  <2>1. \E k \in at : \A j \in at : j <= k
    BY <1>3
  <2> QED
    BY <2>1
<1>5. newest = n
  <2> HIDE DEF newest, at
  <2> QED
    BY <1>1, <1>3, <1>4
<1>6. SubSeq(s, n + 1, n) = <<>>
  BY <1>1, SubSeqEmpty
<1>7. Prefix(s, n - 1) \in Seq(Rung)
  BY <1>1, PrefixProperties
<1>8. Without(s, Newest(s)) = Prefix(s, newest - 1) \o SubSeq(s, newest + 1, n)
  BY <1>3 DEF Without
<1> HIDE DEF newest, at
<1>9. Without(s, Newest(s)) = Prefix(s, n - 1) \o <<>>
  BY <1>5, <1>6, <1>8
<1> QED
  BY <1>1, <1>7, <1>9, ConcatEmptySeq

(* Where the tower is entered holding s.                                   *)
LEMMA TowerEntry ==
  ASSUME PlanInv, NEW s \in Seq(Rung), Chained(s)
  PROVE  AtFloor(FloorAddress(Newest(s)), s)
<1>1. /\ Len(plan_steps) \in Nat /\ Len(tower_order) \in Nat /\ Len(s) \in Nat
      /\ constructed \subseteq Resource
  BY LenProperties DEF PlanInv, PlanTypeOK
<1>2. CASE s = <<>>
  <2>1. FloorAddress(Newest(s)) = ExitAddress
    BY <1>2 DEF Newest, FloorAddress
  <2> QED
    BY <1>1, <1>2, <2>1 DEF AtFloor, ExitAddress, FirstFloor
<1>3. CASE s # <<>>
  <2>1. /\ Newest(s) \in Rung /\ Newest(s) # NoRung /\ Newest(s) = s[Len(s)]
        /\ Len(s) \in 1..Len(s)
    BY <1>1, <1>3, NewestProperties, RungDef
  <2>2. /\ Newest(s)[1] \in constructed /\ Newest(s)[2] \in 1..Layers[Newest(s)[1]]
        /\ Newest(s) = <<Newest(s)[1], Newest(s)[2]>>
    BY <2>1, RungDef DEF Chained
  <2>3. PICK g \in 1..Len(tower_order) : tower_order[g] = Newest(s)
    BY <2>2 DEF PlanInv, TowerComplete
  <2> DEFINE f == CHOOSE h \in 1..Len(tower_order) : cascade[h] = Newest(s)
  <2>4. f \in 1..Len(tower_order) /\ cascade[f] = Newest(s)
    <3>1. /\ Len(tower_order) + 1 - g \in 1..Len(tower_order)
          /\ Len(tower_order) + 1 - (Len(tower_order) + 1 - g) = g
      BY <1>1
    <3>2. cascade[Len(tower_order) + 1 - g] = Newest(s)
      BY <2>3, <3>1 DEF cascade
    <3> QED
      BY <3>1, <3>2
  <2>5. FloorAddress(Newest(s)) = Len(plan_steps) + f
    BY <2>1 DEF FloorAddress
  <2> HIDE DEF f
  <2>6. /\ Len(plan_steps) + f \in FirstFloor..ExitAddress
        /\ Len(plan_steps) + f # ExitAddress
        /\ (Len(plan_steps) + f) - Len(plan_steps) = f
    BY <1>1, <2>4 DEF FirstFloor, ExitAddress
  <2> QED
    BY <1>3, <2>4, <2>5, <2>6 DEF AtFloor
<1> QED
  BY <1>2, <1>3

(* The first floor is that of the last rung brought up.                    *)
LEMMA FirstFloorEntry ==
  ASSUME PlanInv, NEW s \in Seq(Rung), Chained(s),
         tower_order = <<>> \/ Floor(Newest(s)) = Floor(cascade[1])
  PROVE  AtFloor(FirstFloor, s)
<1>1. /\ Len(plan_steps) \in Nat /\ Len(tower_order) \in Nat /\ Len(s) \in Nat
      /\ constructed \subseteq Resource /\ tower_order \in Seq(Rung)
  BY LenProperties DEF PlanInv, PlanTypeOK
<1>2. CASE tower_order = <<>>
  <2>1. Len(tower_order) = 0 /\ FirstFloor = ExitAddress
    BY <1>1, <1>2 DEF FirstFloor, ExitAddress
  <2>2. s = <<>>
    <3>1. SUFFICES ASSUME s # <<>> PROVE FALSE
      OBVIOUS
    <3>2. Newest(s) \in Rung /\ Newest(s) = s[Len(s)] /\ Len(s) \in 1..Len(s)
      BY <1>1, <3>1, NewestProperties, RungDef
    <3>3. /\ Newest(s)[1] \in constructed /\ Newest(s)[2] \in 1..Layers[Newest(s)[1]]
      BY <3>2, RungDef DEF Chained
    <3>4. \E g \in 1..Len(tower_order) : TRUE
      BY <3>3 DEF PlanInv, TowerComplete
    <3> QED
      BY <2>1, <3>4
  <2> QED
    BY <1>1, <2>1, <2>2 DEF AtFloor, FirstFloor
<1>3. CASE tower_order # <<>> /\ Newest(s) = cascade[1]
  <2>1. Len(tower_order) # 0 /\ 1 \in 1..Len(tower_order)
        /\ Len(tower_order) \in 1..Len(tower_order)
    BY <1>1, <1>3, EmptySeq
  <2>2. cascade[1] = tower_order[Len(tower_order)]
    BY <1>1, <2>1 DEF cascade
  <2>3. Newest(s) \in Rung
    BY <1>1, <1>3, <2>1, <2>2, ElementOfSeq
  <2>4. s # <<>>
    BY <2>3, NewestProperties, RungDef
  <2>5. /\ FirstFloor \in FirstFloor..ExitAddress /\ FirstFloor # ExitAddress
        /\ FirstFloor - Len(plan_steps) = 1
    BY <1>1, <2>1 DEF FirstFloor, ExitAddress
  <2> QED
    BY <1>3, <2>4, <2>5 DEF AtFloor
<1> QED
  BY <1>2, <1>3 DEF Floor

-----------------------------------------------------------------------------
(* The steps.                                                              *)

(* What the process holds at a step whose releases have not begun, and at  *)
(* one whose releases are done.                                            *)
LEMMA StepProperties ==
  ASSUME PlanInv, NEW p \in 1..Len(plan_steps)
  PROVE  /\ plan_steps[p] \in PlanStep /\ StepOK(plan_steps[p])
         /\ plan_steps[p].held \in Seq(Rung) /\ Chained(plan_steps[p].held)
         /\ Len(plan_steps[p].held) \in Nat /\ Len(plan_steps[p].releases) \in Nat
         /\ Len(plan_steps[p].releases) <= Len(plan_steps[p].held)
         /\ Prefix(plan_steps[p].held, Len(plan_steps[p].held) - 0) = plan_steps[p].held
<1> DEFINE st == plan_steps[p]
<1>1. st \in PlanStep /\ StepOK(st) /\ Chained(st.held)
  BY ElementOfSeq DEF PlanInv, PlanTypeOK, StepsOK, EveryHeldChained
<1> HIDE DEF st
<1>2. /\ st.held \in Seq(Rung) /\ st.releases \in Seq(Rung)
      /\ Len(st.held) \in Nat /\ Len(st.releases) \in Nat
  BY <1>1, StepFields, LenProperties
<1>3. Len(st.held) - 0 = Len(st.held) /\ Prefix(st.held, Len(st.held)) = st.held
  BY <1>2, PrefixFull
<1> QED
  BY <1>1, <1>2, <1>3 DEF st, StepOK, ReleasesNewestFirst

(* A step of an ended program that is not its last goes on to one planned  *)
(* against what it leaves.                                                 *)
LEMMA Continues ==
  ASSUME PlanInv, done, NEW p \in 1..Len(plan_steps), plan_steps[p].op # "exit",
         NEW s, s = After(plan_steps[p])
  PROVE  AtStep(p + 1, 0, s)
<1>1. Len(plan_steps) \in Nat /\ plan_steps[Len(plan_steps)].op = "exit"
  BY LenProperties DEF PlanInv, PlanTypeOK, ExitIsLast
<1>2. p + 1 \in 1..Len(plan_steps)
  BY <1>1
<1>3. plan_steps[p + 1].held = s
  BY <1>2 DEF PlanInv, StepsFollow, HeldAt
<1> QED
  BY <1>2, <1>3, StepProperties DEF AtStep

(* A jump of an ended program lands at a step planned against what it      *)
(* leaves, or in the tower.                                                *)
LEMMA Lands ==
  ASSUME PlanInv, done, NEW st \in PlanStep, LandsRight(st), ReleasesNewestFirst(st),
         Chained(st.held)
  PROVE  \/ st.to[1] # "release" /\ AtStep(Address(st.to), 0, Landing(st))
         \/ /\ st.op = "loop_exit" /\ st.to[1] = "release"
            /\ AtFloor(Address(st.to), Landing(st))
<1>1. /\ Len(plan_steps) \in Nat /\ scopes = <<>> /\ plan_steps # <<>>
      /\ labels \in [DOMAIN labels -> Nat] /\ DOMAIN labels \subseteq ScopeLabels
      /\ Len(scopes) = 0
  BY LenProperties, EmptySeq DEF PlanInv, PlanTypeOK, ExitIsLast
<1>2. CASE st.to \in DOMAIN labels /\ HeldAt(labels[st.to]) = Landing(st)
  <2>1. st.to[1] # "release" /\ st.to # ProgramAgain
    BY <1>1, <1>2 DEF ScopeLabels, EndLabels, ProgramAgain
  <2>2. labels[st.to] \in 1..Len(plan_steps)
    BY <1>1, <1>2 DEF PlanInv, LabelsPlaced
  <2>3. Address(st.to) = labels[st.to] /\ plan_steps[labels[st.to]].held = Landing(st)
    BY <1>2, <2>1, <2>2 DEF Address, HeldAt
  <2> QED
    BY <2>1, <2>2, <2>3, StepProperties DEF AtStep
<1>3. CASE st.to = ProgramAgain /\ Landing(st) = <<>>
  <2>1. st.to[1] # "release" /\ Address(st.to) = 1
    BY <1>3 DEF Address, ProgramAgain
  <2>2. 1 \in 1..Len(plan_steps)
    BY <1>1, EmptySeq DEF PlanInv, PlanTypeOK
  <2>3. plan_steps[1].held = Landing(st)
    BY <1>3, <2>2 DEF PlanInv, StepsFollow, HeldAt
  <2> QED
    BY <2>1, <2>2, <2>3, StepProperties DEF AtStep
<1>4. CASE st.op = "loop_exit" /\ st.releases = <<>> /\ st.to = Floor(Newest(st.held))
  <2>1. st.held \in Seq(Rung) /\ Len(st.held) \in Nat
    BY StepFields, LenProperties
  <2>2. Len(st.releases) = 0 /\ Len(st.held) - 0 = Len(st.held)
    BY <1>4, <2>1, EmptySeq
  <2>3. Landing(st) = st.held
    BY <2>1, <2>2, PrefixFull DEF Landing
  <2>4. st.to[1] = "release" /\ Address(st.to) = FloorAddress(Newest(st.held))
    <3>1. st.to[1] = "release" /\ st.to[2] = Newest(st.held)
      BY <1>4 DEF Floor
    <3>2. st.to # ProgramAgain
      BY <3>1 DEF ProgramAgain
    <3> QED
      BY <3>1, <3>2 DEF Address
  <2> QED
    BY <1>4, <2>1, <2>3, <2>4, TowerEntry
<1> QED
  BY <1>1, <1>2, <1>3, <1>4 DEF LandsRight

-----------------------------------------------------------------------------
(* The process keeps the invariant, action by action.                      *)

(* What is known at a step of the program.                                 *)
LEMMA RunningFacts ==
  ASSUME IInv, NEW ops, At(ops)
  PROVE  /\ PlanInv /\ done /\ mode = "running" /\ step.op \in ops
         /\ pc \in 1..Len(plan_steps) /\ AtStep(pc, released, held)
         /\ step \in PlanStep /\ StepOK(step)
         /\ step.held \in Seq(Rung) /\ Chained(step.held)
         /\ Len(step.held) \in Nat /\ Len(step.releases) \in Nat
         /\ Len(step.releases) <= Len(step.held)
         /\ released \in Nat /\ attempt \in Nat
         /\ released = 0 => held = step.held
         /\ step.releases = <<>> => released = 0
         /\ released = Len(step.releases) => held = Landing(step)
<1>1. /\ PlanInv /\ done /\ mode = "running" /\ step.op \in ops
      /\ pc \in 1..Len(plan_steps) /\ AtStep(pc, released, held)
      /\ released \in Nat /\ attempt \in Nat
  BY DEF IInv, RunInv, At
<1>2. /\ step \in PlanStep /\ StepOK(step)
      /\ step.held \in Seq(Rung) /\ Chained(step.held)
      /\ Len(step.held) \in Nat /\ Len(step.releases) \in Nat
      /\ Len(step.releases) <= Len(step.held)
      /\ Prefix(step.held, Len(step.held) - 0) = step.held
  BY <1>1, StepProperties DEF step
<1>3. /\ released = 0 => held = step.held
      /\ released \in 0..Len(step.releases)
      /\ released = Len(step.releases) => held = Landing(step)
  BY <1>1, <1>2 DEF AtStep, step, Landing
<1>4. step.releases = <<>> => released = 0
  BY <1>3, EmptySeq
<1> QED
  BY <1>1, <1>2, <1>3, <1>4

(* The plan stands, and the process is at a step or in the tower.          *)
LEMMA AtStepNext ==
  ASSUME PlanInv, done, UNCHANGED planVars, NEW p, p = pc', NEW n, n = released',
         NEW s, s = held',
         AtStep(p, n, s), mode' = "running", attempt' \in Nat, released' \in Nat
  PROVE  IInv'
<1>1. PlanInv'
  BY PlanStutters
<1>2. plan_steps' = plan_steps /\ done' = done
  BY DEF planVars
<1>3. AtStep(pc, released, held)'
  BY <1>2 DEF AtStep
<1> QED
  BY <1>1, <1>2, <1>3 DEF IInv, RunInv

(* The same in the tower.                                                  *)
LEMMA AtFloorNext ==
  ASSUME PlanInv, done, UNCHANGED planVars, NEW p, p = pc', NEW s, s = held',
         AtFloor(p, s), mode' = "unwinding", attempt' \in Nat, released' \in Nat
  PROVE  IInv'
<1>1. PlanInv'
  BY PlanStutters
<1>2. /\ plan_steps' = plan_steps /\ tower_order' = tower_order
      /\ enclosing' = enclosing /\ done' = done
  BY DEF planVars
<1>3. AtFloor(pc, held)'
  BY <1>2
  DEF AtFloor, FirstFloor, ExitAddress, cascade, Chained, chain, constructed, Newest
<1> QED
  BY <1>1, <1>2, <1>3 DEF IInv, RunInv

(* Compiling: the process does not exist yet.                              *)
LEMMA CompileKeeps ==
  ASSUME SingleLayerAdoption, IInv, Compile
  PROVE  IInv'
<1>1. PlanInv'
  BY PlanNextKeeps DEF IInv, Compile
<1>2. RunInv'
  BY DEF IInv, RunInv, Compile, runVars
<1> QED
  BY <1>1, <1>2 DEF IInv

(* The first step is planned against nothing held.                         *)
LEMMA StartKeeps ==
  ASSUME IInv, Start
  PROVE  IInv'
<1>1. /\ PlanInv /\ done /\ plan_steps # <<>> /\ plan_steps \in Seq(PlanStep)
      /\ held = <<>> /\ released = 0 /\ attempt = 1
  BY DEF IInv, RunInv, Start, PlanInv, ExitIsLast, PlanTypeOK
<1>2. 1 \in 1..Len(plan_steps)
  BY <1>1, EmptySeq
<1>3. plan_steps[1].held = <<>>
  BY <1>1, <1>2 DEF PlanInv, StepsFollow, HeldAt
<1>4. AtStep(1, 0, <<>>)
  BY <1>1, <1>2, <1>3, StepProperties DEF AtStep
<1>5. /\ UNCHANGED planVars /\ pc' = 1 /\ released' = 0 /\ held' = <<>>
      /\ mode' = "running" /\ attempt' = 1
  BY <1>1 DEF Start
<1> QED
  BY <1>1, <1>4, <1>5, AtStepNext

(* A step that goes on to the next, holding what was planned after it.     *)
LEMMA ContinueKeeps ==
  ASSUME IInv, NEW ops, At(ops), step.op # "exit", Continue, mode' = mode,
         UNCHANGED planVars, NEW s, s = held', s = After(step)
  PROVE  IInv'
<1>1. PlanInv /\ done /\ mode = "running" /\ pc \in 1..Len(plan_steps)
  BY RunningFacts
<1>2. AtStep(pc + 1, 0, s)
  BY <1>1, Continues DEF step
<1>3. pc' = pc + 1 /\ released' = 0 /\ attempt' = 1
  BY DEF Continue
<1> QED
  BY <1>1, <1>2, <1>3, AtStepNext

(* A jump that leaves held what its step planned.                          *)
LEMMA JumpKeepsRunning ==
  ASSUME IInv, NEW ops, At(ops), LandsRight(step), held = Landing(step),
         Goto(step.to), held' = held, UNCHANGED planVars,
         mode' = IF step.to[1] = "release" THEN "unwinding" ELSE mode
  PROVE  IInv'
<1>1. /\ PlanInv /\ done /\ mode = "running" /\ step \in PlanStep
      /\ ReleasesNewestFirst(step) /\ Chained(step.held)
  BY RunningFacts DEF StepOK
<1>2. pc' = Address(step.to) /\ released' = 0 /\ attempt' = 1
  BY DEF Goto
<1>3. \/ step.to[1] # "release" /\ AtStep(Address(step.to), 0, Landing(step))
      \/ step.to[1] = "release" /\ AtFloor(Address(step.to), Landing(step))
  BY <1>1, Lands
<1>4. CASE step.to[1] # "release" /\ AtStep(Address(step.to), 0, Landing(step))
  BY <1>1, <1>2, <1>4, AtStepNext
<1>5. CASE step.to[1] = "release" /\ AtFloor(Address(step.to), Landing(step))
  BY <1>1, <1>2, <1>5, AtFloorNext
<1> QED
  BY <1>3, <1>4, <1>5

(* Taking a thing.                                                         *)
LEMMA AcquireKeeps ==
  ASSUME IInv, AcquireOk \/ AdoptStep
  PROVE  IInv'
<1> DEFINE ops == {"acquire", "adopt"}
<1>1. At(ops) /\ Continue /\ mode' = mode /\ UNCHANGED planVars
      /\ held' = Append(held, IF step.op = "acquire" THEN step.rung
                                                     ELSE <<step.rung[1], 1>>)
  BY DEF AcquireOk, AdoptStep, At
<1>2. /\ step.op \in ops /\ step.releases = <<>> /\ held = step.held
      /\ step.op = "adopt" => step.rung = <<step.rung[1], 1>>
  BY <1>1, RunningFacts DEF StepOK, StepShape
<1>3. held' = After(step) /\ step.op # "exit"
  BY <1>1, <1>2 DEF After
<1> HIDE DEF ops
<1> QED
  BY <1>1, <1>3, ContinueKeeps

(* Another alternative is tried at the same step.                          *)
LEMMA NextAttemptKeeps ==
  ASSUME IInv, NextAttempt
  PROVE  IInv'
<1>1. At({"acquire"})
  BY DEF NextAttempt
<1>2. /\ PlanInv /\ done /\ mode = "running" /\ AtStep(pc, released, held)
      /\ released \in Nat /\ attempt + 1 \in Nat
  BY <1>1, RunningFacts
<1>3. /\ pc' = pc /\ released' = released /\ held' = held /\ mode' = mode
      /\ attempt' = attempt + 1 /\ UNCHANGED planVars
  BY DEF NextAttempt
<1> QED
  BY <1>2, <1>3, AtStepNext

(* A step that changes nothing.                                            *)
LEMMA ProceedKeeps ==
  ASSUME IInv, Proceed
  PROVE  IInv'
<1> DEFINE ops == {"call", "spliced", "ensure", "loop_top"}
<1>1. At(ops) /\ Continue /\ mode' = mode /\ held' = held /\ UNCHANGED planVars
  BY DEF Proceed
<1>2. step.op \in ops /\ step.releases = <<>> /\ held = step.held
  BY <1>1, RunningFacts DEF StepOK, StepShape
<1>3. held' = After(step) /\ step.op # "exit"
  BY <1>1, <1>2 DEF After
<1> HIDE DEF ops
<1> QED
  BY <1>1, <1>3, ContinueKeeps

(* A failed step enters the tower at the newest thing held.                *)
LEMMA FaultKeeps ==
  ASSUME IInv, Fault
  PROVE  IInv'
<1> DEFINE ops == {"acquire", "call", "spliced", "ensure"}
<1>1. /\ At(ops) /\ Goto(step.to) /\ mode' = "unwinding" /\ held' = held
      /\ UNCHANGED planVars
  BY DEF Fault
<1>2. /\ PlanInv /\ done /\ held = step.held /\ held \in Seq(Rung) /\ Chained(held)
      /\ step.to = Floor(Newest(held))
  BY <1>1, RunningFacts DEF StepOK, StepShape, FailsTo
<1>3. AtFloor(FloorAddress(Newest(held)), held)
  BY <1>2, TowerEntry
<1>4. Address(step.to) = FloorAddress(Newest(held))
  <2>1. step.to[1] = "release" /\ step.to[2] = Newest(held)
    BY <1>2 DEF Floor
  <2>2. step.to # ProgramAgain
    BY <2>1 DEF ProgramAgain
  <2> QED
    BY <2>1, <2>2 DEF Address
<1>5. pc' = Address(step.to) /\ released' = 0 /\ attempt' = 1
  BY <1>1 DEF Goto
<1> QED
  BY <1>1, <1>2, <1>3, <1>4, <1>5, AtFloorNext

(* A guard, entered or skipped.                                            *)
LEMMA GuardStepKeeps ==
  ASSUME IInv, GuardStep
  PROVE  IInv'
<1> DEFINE ops == {"scope_guard"}
<1>1. /\ At(ops) /\ mode' = mode /\ held' = held /\ UNCHANGED planVars
      /\ Continue \/ Goto(step.to)
  BY DEF GuardStep
<1>2. /\ step.op = "scope_guard" /\ step.releases = <<>> /\ held = step.held
      /\ held = Landing(step) /\ LandsRight(step) /\ PlanInv /\ done /\ step \in PlanStep
      /\ ReleasesNewestFirst(step) /\ Chained(step.held)
  <2>1. /\ step.op = "scope_guard" /\ StepOK(step) /\ Len(step.releases) \in Nat
        /\ PlanInv /\ done /\ step \in PlanStep /\ Chained(step.held)
        /\ (step.releases = <<>> => released = 0)
        /\ released = 0 => held = step.held
        /\ released = Len(step.releases) => held = Landing(step)
    BY <1>1, RunningFacts
  <2>2. step.releases = <<>> /\ LandsRight(step) /\ ReleasesNewestFirst(step)
    BY <2>1 DEF StepOK, StepShape
  <2>3. Len(step.releases) = 0
    BY <2>2, EmptySeq
  <2> QED
    BY <2>1, <2>2, <2>3
<1>3. step.to[1] # "release"
  BY <1>2, Lands
<1>4. held' = After(step)
  BY <1>1, <1>2 DEF After
<1>5. CASE Continue
  BY <1>1, <1>2, <1>4, <1>5, ContinueKeeps
<1>6. CASE Goto(step.to)
  BY <1>1, <1>2, <1>3, <1>6, JumpKeepsRunning
<1> QED
  BY <1>1, <1>5, <1>6

(* The next release of a step is that of the newest thing held.            *)
LEMMA NextRelease ==
  ASSUME IInv, At(ReleaseOps), ReleasesLeft
  PROVE  /\ held # <<>> /\ held \in Seq(Rung)
         /\ step.releases[released + 1] = Newest(held)
         /\ Prefix(held, Len(held) - 1) = Prefix(step.held, Len(step.held) - (released + 1))
         /\ released + 1 \in 0..Len(step.releases)
<1> DEFINE n == Len(step.held) - released
<1>1. /\ held = Prefix(step.held, n) /\ released \in 0..Len(step.releases)
      /\ step.held \in Seq(Rung) /\ Len(step.held) \in Nat
      /\ Len(step.releases) \in Nat /\ Len(step.releases) <= Len(step.held)
      /\ StepOK(step) /\ released \in Nat
  BY RunningFacts DEF AtStep, step
<1>2. released < Len(step.releases)
  BY DEF ReleasesLeft
<1>3. /\ n \in 0..Len(step.held) /\ n \in 1..n /\ n # 0 /\ n - 1 \in 0..n
      /\ released + 1 \in 1..Len(step.releases) /\ released + 1 \in 0..Len(step.releases)
      /\ n - 1 = Len(step.held) - (released + 1)
      /\ n = Len(step.held) + 1 - (released + 1)
  <2>1. ASSUME NEW h \in Nat, NEW m \in Nat, NEW i \in Nat, m <= h, i < m
        PROVE  /\ h - i \in 0..h /\ h - i \in 1..(h - i) /\ h - i # 0
               /\ (h - i) - 1 \in 0..(h - i) /\ i + 1 \in 1..m /\ i + 1 \in 0..m
               /\ (h - i) - 1 = h - (i + 1) /\ h - i = h + 1 - (i + 1)
    BY <2>1
  <2> QED
    BY <1>1, <1>2, <2>1
<1>4. step.releases[released + 1] = step.held[n]
  BY <1>1, <1>3 DEF StepOK, ReleasesNewestFirst
<1> HIDE DEF n
<1>5. held \in Seq(Rung) /\ Len(held) = n /\ held[n] = step.held[n] /\ held # <<>>
  <2>1. held \in Seq(Rung) /\ Len(held) = n /\ held[n] = step.held[n]
    BY <1>1, <1>3, PrefixProperties, ZenonT(60)
  <2> QED
    BY <1>3, <2>1, EmptySeq
<1>6. Newest(held) = step.held[n]
  BY <1>5 DEF Newest
<1>7. Prefix(held, n - 1) = Prefix(step.held, n - 1)
  BY <1>1, <1>3, PrefixOfPrefix
<1> QED
  BY <1>3, <1>4, <1>5, <1>6, <1>7

(* One release of a scope's end or of a jump.                              *)
LEMMA ReleaseStepKeeps ==
  ASSUME IInv, ReleaseStep
  PROVE  IInv'
<1>1. /\ At(ReleaseOps) /\ ReleasesLeft
      /\ held' = Without(held, step.releases[released + 1])
      /\ released' = released + 1 /\ pc' = pc /\ attempt' = attempt /\ mode' = mode
      /\ UNCHANGED planVars
  BY DEF ReleaseStep, ReleaseOps
<1>2. /\ PlanInv /\ done /\ mode = "running" /\ pc \in 1..Len(plan_steps)
      /\ released \in Nat /\ attempt \in Nat
  BY <1>1, RunningFacts
<1>3. held' = Prefix(step.held, Len(step.held) - (released + 1))
      /\ released + 1 \in 0..Len(step.releases)
  BY <1>1, NextRelease, WithoutNewest
<1>4. ASSUME NEW s, s = held' PROVE AtStep(pc, released + 1, s)
  BY <1>2, <1>3, <1>4 DEF AtStep, step
<1> QED
  BY <1>1, <1>2, <1>4, AtStepNext

(* The end of a scope, after its releases.                                 *)
LEMMA ScopeEndStepKeeps ==
  ASSUME IInv, ScopeEndStep
  PROVE  IInv'
<1> DEFINE ops == {"scope_release", "loop_back"}
<1>1. /\ At(ops) /\ ~ReleasesLeft /\ mode' = mode /\ held' = held
      /\ UNCHANGED planVars
      /\ Continue \/ (step.op = "loop_back" /\ Goto(step.to))
  BY DEF ScopeEndStep
<1>2. /\ step.op \in ops /\ StepOK(step) /\ PlanInv /\ done /\ step \in PlanStep
      /\ held = Landing(step) /\ Chained(step.held)
  <2>1. /\ released \in 0..Len(step.releases) /\ Len(step.releases) \in Nat
        /\ ~(released < Len(step.releases))
    BY <1>1, RunningFacts DEF AtStep, step, ReleasesLeft
  <2>2. released = Len(step.releases)
    BY <2>1
  <2> QED
    BY <1>1, <2>2, RunningFacts
<1>3. step.op # "exit" /\ held' = After(step)
  BY <1>1, <1>2 DEF After
<1>4. CASE Continue
  <2> HIDE DEF ops
  <2> QED
    BY <1>1, <1>3, <1>4, ContinueKeeps
<1>5. CASE step.op = "loop_back" /\ Goto(step.to)
  <2>1. LandsRight(step) /\ ReleasesNewestFirst(step)
    BY <1>2, <1>5 DEF StepOK
  <2>2. step.to[1] # "release"
    BY <1>2, <1>5, <2>1, Lands
  <2> HIDE DEF ops
  <2> QED
    BY <1>1, <1>2, <1>5, <2>1, <2>2, JumpKeepsRunning
<1> QED
  BY <1>1, <1>4, <1>5

(* A jump not taken.                                                       *)
LEMMA JumpNotTakenKeeps ==
  ASSUME IInv, JumpNotTaken
  PROVE  IInv'
<1>1. /\ At({"loop_exit"}) /\ released = 0 /\ Continue /\ mode' = mode /\ held' = held
      /\ UNCHANGED planVars
  BY DEF JumpNotTaken
<1>2. step.op = "loop_exit" /\ held = step.held
  BY <1>1, RunningFacts
<1>3. held' = After(step) /\ step.op # "exit"
  BY <1>1, <1>2 DEF After
<1> QED
  BY <1>1, <1>3, ContinueKeeps

(* A jump taken, after its releases.                                       *)
LEMMA JumpTakenKeeps ==
  ASSUME IInv, JumpTaken
  PROVE  IInv'
<1>1. /\ At({"loop_exit"}) /\ ~ReleasesLeft /\ Goto(step.to) /\ held' = held
      /\ mode' = IF step.to[1] = "release" THEN "unwinding" ELSE mode
      /\ UNCHANGED planVars
  BY DEF JumpTaken
<1>2. held = Landing(step) /\ LandsRight(step)
  <2>1. /\ released \in 0..Len(step.releases) /\ Len(step.releases) \in Nat
        /\ ~(released < Len(step.releases))
    BY <1>1, RunningFacts DEF AtStep, step, ReleasesLeft
  <2>2. released = Len(step.releases)
    BY <2>1
  <2> QED
    BY <1>1, <2>2, RunningFacts DEF StepOK
<1> QED
  BY <1>1, <1>2, JumpKeepsRunning

(* The last step, falling or jumping into the tower.                       *)
LEMMA ExitStepKeeps ==
  ASSUME IInv, ExitStep
  PROVE  IInv'
<1>1. /\ At({"exit"}) /\ mode' = "unwinding" /\ held' = held /\ UNCHANGED planVars
      /\ \/ Goto(step.to)
         \/ /\ tower_order = <<>> \/ step.to = Floor(cascade[1])
            /\ Continue
  BY DEF ExitStep
<1>2. /\ PlanInv /\ done /\ step.op = "exit" /\ held = step.held /\ held \in Seq(Rung)
      /\ Chained(held) /\ step.to = Floor(Newest(held)) /\ pc \in 1..Len(plan_steps)
  BY <1>1, RunningFacts DEF StepOK, StepShape, FailsTo
<1>3. CASE Goto(step.to)
  <2>1. step.to[1] = "release" /\ step.to[2] = Newest(held)
    BY <1>2 DEF Floor
  <2>2. step.to # ProgramAgain
    BY <2>1 DEF ProgramAgain
  <2>3. pc' = FloorAddress(Newest(held)) /\ released' = 0 /\ attempt' = 1
    BY <1>3, <2>1, <2>2 DEF Goto, Address
  <2>4. AtFloor(FloorAddress(Newest(held)), held)
    BY <1>2, TowerEntry
  <2> QED
    BY <1>1, <1>2, <2>3, <2>4, AtFloorNext
<1>4. CASE (tower_order = <<>> \/ step.to = Floor(cascade[1])) /\ Continue
  <2>1. pc = Len(plan_steps)
    BY <1>2 DEF PlanInv, ExitIsLast, step
  <2>2. pc' = FirstFloor /\ released' = 0 /\ attempt' = 1
    BY <1>4, <2>1 DEF Continue, FirstFloor
  <2>3. AtFloor(FirstFloor, held)
    BY <1>2, <1>4, FirstFloorEntry
  <2> QED
    BY <1>1, <1>2, <2>2, <2>3, AtFloorNext
<1> QED
  BY <1>1, <1>3, <1>4

(* What is known in the tower.                                             *)
LEMMA TowerFacts ==
  ASSUME IInv, mode = "unwinding"
  PROVE  /\ PlanInv /\ done /\ AtFloor(pc, held) /\ held \in Seq(Rung) /\ Chained(held)
         /\ InTower => held # <<>> /\ Newest(held) = floor
         /\ ~InTower => pc = ExitAddress /\ held = <<>>
<1>1. PlanInv /\ done /\ AtFloor(pc, held)
  BY DEF IInv, RunInv
<1>2. Len(plan_steps) \in Nat /\ Len(tower_order) \in Nat
  BY <1>1, LenProperties DEF PlanInv, PlanTypeOK
<1>3. /\ InTower => pc < ExitAddress
      /\ ~InTower => pc = ExitAddress
  BY <1>1, <1>2 DEF AtFloor, InTower, FirstFloor, ExitAddress
<1> QED
  BY <1>1, <1>3 DEF AtFloor, floor

(* One floor of the tower: the next is that of what is then newest.        *)
LEMMA FloorStepKeeps ==
  ASSUME IInv, FloorStep
  PROVE  /\ IInv' /\ held' = Prefix(held, Len(held) - 1)
<1>1. /\ InTower /\ mode = "unwinding" /\ held' = Without(held, floor) /\ mode' = mode
      /\ UNCHANGED planVars
      /\ \/ FallsThrough /\ Continue
         \/ Goto(Floor(chain(floor)))
  BY DEF FloorStep, InTower
<1>2. /\ PlanInv /\ done /\ AtFloor(pc, held) /\ held \in Seq(Rung) /\ Chained(held)
      /\ held # <<>> /\ Newest(held) = floor
  BY <1>1, TowerFacts
<1>3. Len(held) \in 1..Len(held) /\ Len(held) \in Nat /\ floor = held[Len(held)]
  <2>1. Len(held) \in Nat /\ Len(held) # 0
    BY <1>2, LenProperties, EmptySeq
  <2> QED
    BY <1>2, <2>1 DEF Newest
<1>4. held' = Prefix(held, Len(held) - 1) /\ Len(held) - 1 \in 0..Len(held)
  BY <1>1, <1>2, WithoutNewest
<1> DEFINE rest == Prefix(held, Len(held) - 1)
<1>5. /\ rest \in Seq(Rung) /\ Chained(rest) /\ Len(rest) = Len(held) - 1
      /\ \A k \in 1..(Len(held) - 1) : rest[k] = held[k]
  BY <1>2, <1>4, PrefixProperties, ChainedPrefix
<1>6. chain(floor) = Newest(rest)
  <2>1. chain(floor) = IF Len(held) = 1 THEN NoRung ELSE held[Len(held) - 1]
    BY <1>2, <1>3 DEF Chained
  <2> HIDE DEF rest
  <2>2. CASE Len(held) = 1
    BY <1>5, <2>1, <2>2, EmptySeq DEF Newest
  <2>3. CASE Len(held) # 1
    <3>1. Len(held) - 1 \in 1..(Len(held) - 1) /\ Len(held) - 1 # 0
      BY <1>3, <2>3
    <3>2. rest # <<>>
      BY <1>5, <3>1, EmptySeq
    <3> QED
      BY <1>5, <2>1, <2>3, <3>1, <3>2 DEF Newest
  <2> QED
    BY <2>2, <2>3
<1> HIDE DEF rest
<1>7. CASE Goto(Floor(chain(floor)))
  <2> DEFINE to == Floor(Newest(rest))
  <2>1. to[1] = "release" /\ to[2] = Newest(rest)
    BY DEF Floor
  <2>2. to # ProgramAgain
    BY <2>1 DEF ProgramAgain
  <2>3. Goto(to)
    BY <1>6, <1>7
  <2> HIDE DEF to
  <2>4. pc' = FloorAddress(Newest(rest)) /\ released' = 0 /\ attempt' = 1
    BY <2>1, <2>2, <2>3 DEF Goto, Address
  <2>5. AtFloor(FloorAddress(Newest(rest)), rest)
    BY <1>2, <1>5, TowerEntry
  <2>6. rest = held'
    BY <1>4 DEF rest
  <2> QED
    BY <1>1, <1>2, <1>4, <2>4, <2>5, <2>6, AtFloorNext
<1>8. CASE FallsThrough /\ Continue
  <2>1. /\ Len(plan_steps) \in Nat /\ Len(tower_order) \in Nat /\ tower_order \in Seq(Rung)
    BY <1>2, LenProperties DEF PlanInv, PlanTypeOK
  <2>2. /\ pc + 1 \in FirstFloor..ExitAddress /\ pc + 1 # ExitAddress
        /\ cascade[pc + 1 - Len(plan_steps)] = Newest(rest)
        /\ pc + 1 - Len(plan_steps) \in 1..Len(tower_order)
    BY <1>1, <1>6, <1>8, <2>1 DEF FallsThrough, InTower, FirstFloor, ExitAddress
  <2>3. Newest(rest) \in Rung
    <3> DEFINE f == pc + 1 - Len(plan_steps)
    <3>1. cascade[f] = tower_order[Len(tower_order) + 1 - f]
      BY <2>2 DEF cascade
    <3>2. Len(tower_order) + 1 - f \in 1..Len(tower_order)
      BY <2>1, <2>2
    <3> HIDE DEF f
    <3>3. tower_order[Len(tower_order) + 1 - f] \in Rung
      BY <2>1, <3>2, ElementOfSeq
    <3> QED
      BY <2>2, <3>1, <3>3 DEF f
  <2>4. rest # <<>>
    BY <1>5, <2>3, NewestProperties, RungDef
  <2>5. AtFloor(pc + 1, rest)
    <3> DEFINE p == pc + 1
    <3>1. /\ p \in FirstFloor..ExitAddress /\ p # ExitAddress
          /\ cascade[p - Len(plan_steps)] = Newest(rest)
      <4>1. pc + 1 - Len(plan_steps) = (pc + 1) - Len(plan_steps)
        BY <1>1, <2>1 DEF InTower, FirstFloor, ExitAddress
      <4> QED
        BY <2>2, <4>1
    <3> HIDE DEF p
    <3>2. AtFloor(p, rest)
      BY <1>5, <2>4, <3>1 DEF AtFloor
    <3> QED
      BY <3>2 DEF p
  <2>6. pc' = pc + 1 /\ released' = 0 /\ attempt' = 1
    BY <1>8 DEF Continue
  <2>7. rest = held'
    BY <1>4 DEF rest
  <2> QED
    BY <1>1, <1>2, <1>4, <2>5, <2>6, <2>7, AtFloorNext
<1> QED
  BY <1>1, <1>7, <1>8, <1>4

(* The end of the process.                                                 *)
LEMMA ExitGroupKeeps ==
  ASSUME IInv, ExitGroup
  PROVE  IInv' /\ held = <<>> /\ held' = held
<1>1. /\ mode = "unwinding" /\ pc = ExitAddress /\ mode' = "exited"
      /\ pc' = pc /\ released' = released /\ attempt' = attempt /\ held' = held
      /\ UNCHANGED planVars
  BY DEF ExitGroup
<1>2. held = <<>> /\ PlanInv /\ done
  BY <1>1 DEF IInv, RunInv, AtFloor
<1>3. PlanInv'
  BY <1>1, <1>2, PlanStutters
<1>4. plan_steps' = plan_steps /\ tower_order' = tower_order /\ done' = done
  BY <1>1 DEF planVars
<1>5. RunInv'
  BY <1>1, <1>2, <1>4 DEF IInv, RunInv, ExitAddress, FirstFloor
<1> QED
  BY <1>1, <1>2, <1>3, <1>5 DEF IInv

(* Nothing changes when nothing happens.                                   *)
LEMMA ProcessStutters ==
  ASSUME IInv, UNCHANGED vars
  PROVE  IInv'
<1>1. /\ UNCHANGED planVars /\ pc' = pc /\ released' = released
      /\ attempt' = attempt /\ held' = held /\ mode' = mode
      /\ plan_steps' = plan_steps /\ tower_order' = tower_order
      /\ enclosing' = enclosing /\ done' = done
  BY DEF vars, planVars
<1>2. PlanInv'
  BY <1>1, PlanStutters DEF IInv
<1>3. AtStep(pc, released, held) => AtStep(pc, released, held)'
  BY <1>1 DEF AtStep
<1>4. AtFloor(pc, held) => AtFloor(pc, held)'
  BY <1>1
  DEF AtFloor, FirstFloor, ExitAddress, cascade, Chained, chain, constructed, Newest
<1>5. RunInv'
  BY <1>1, <1>3, <1>4 DEF IInv, RunInv, ExitAddress, FirstFloor
<1> QED
  BY <1>2, <1>5 DEF IInv

(* Before anything is compiled.                                            *)
LEMMA ProcessInitially == ProcessInit => IInv
<1> SUFFICES ASSUME ProcessInit PROVE IInv
  OBVIOUS
<1>1. PlanInv
  BY PlanInit DEF ProcessInit
<1>2. RunInv
  BY DEF ProcessInit, RunInit, RunInv
<1> QED
  BY <1>1, <1>2 DEF IInv

(* Whatever happens next, the invariant is kept.                           *)
LEMMA ProcessNextKeeps ==
  ASSUME SingleLayerAdoption, IInv, [ProcessNext]_vars
  PROVE  IInv'
<1>1. CASE Compile
  BY <1>1, CompileKeeps
<1>2. CASE Start
  BY <1>2, StartKeeps
<1>3. CASE AcquireOk \/ AdoptStep
  BY <1>3, AcquireKeeps
<1>4. CASE NextAttempt
  BY <1>4, NextAttemptKeeps
<1>5. CASE Proceed
  BY <1>5, ProceedKeeps
<1>6. CASE Fault
  BY <1>6, FaultKeeps
<1>7. CASE GuardStep
  BY <1>7, GuardStepKeeps
<1>8. CASE ReleaseStep
  BY <1>8, ReleaseStepKeeps
<1>9. CASE ScopeEndStep
  BY <1>9, ScopeEndStepKeeps
<1>10. CASE JumpNotTaken
  BY <1>10, JumpNotTakenKeeps
<1>11. CASE JumpTaken
  BY <1>11, JumpTakenKeeps
<1>12. CASE ExitStep
  BY <1>12, ExitStepKeeps
<1>13. CASE FloorStep
  BY <1>13, FloorStepKeeps
<1>14. CASE ExitGroup
  BY <1>14, ExitGroupKeeps
<1>15. CASE Exited \/ UNCHANGED vars
  BY <1>15, ProcessStutters DEF Exited
<1> QED
  BY <1>1, <1>2, <1>3, <1>4, <1>5, <1>6, <1>7, <1>8, <1>9, <1>10, <1>11, <1>12,
     <1>13, <1>14, <1>15 DEF ProcessNext, Run

-----------------------------------------------------------------------------
(* What the invariant says of every state.                                 *)

(* The invariant holds throughout.                                         *)
LEMMA ProcessInvariant == SingleLayerAdoption => (ProcessSpec => []IInv)
<1> SUFFICES ASSUME SingleLayerAdoption PROVE ProcessSpec => []IInv
  OBVIOUS
<1>1. ProcessInit => IInv
  BY ProcessInitially
<1>2. IInv /\ [ProcessNext]_vars => IInv'
  BY ProcessNextKeeps
<1> QED
  BY <1>1, <1>2, PTL DEF ProcessSpec

(* The invariant implies the types.                                        *)
LEMMA InvariantTypes == IInv => TypeOK
<1> SUFFICES ASSUME IInv PROVE TypeOK
  OBVIOUS
<1>1. Len(plan_steps) \in Nat /\ Len(tower_order) \in Nat
  BY LenProperties DEF IInv, PlanInv, PlanTypeOK
<1>2. CASE mode = "compiling"
  BY <1>2, EmptySeq DEF IInv, RunInv, TypeOK
<1>3. CASE mode = "running"
  <2>1. pc \in 1..Len(plan_steps) /\ held \in Seq(Rung)
    <3>1. /\ pc \in 1..Len(plan_steps) /\ released \in 0..Len(plan_steps[pc].releases)
          /\ held = Prefix(plan_steps[pc].held, Len(plan_steps[pc].held) - released)
          /\ PlanInv
      BY <1>3 DEF IInv, RunInv, AtStep
    <3> DEFINE st == plan_steps[pc]
    <3>2. /\ st.held \in Seq(Rung) /\ Len(st.held) \in Nat
          /\ Len(st.releases) \in Nat /\ Len(st.releases) <= Len(st.held)
      BY <3>1, StepProperties
    <3> HIDE DEF st
    <3>3. Len(st.held) - released \in 0..Len(st.held)
      BY <3>1, <3>2 DEF st
    <3> QED
      BY <3>1, <3>2, <3>3, PrefixProperties DEF st
  <2>2. pc \in 1..ExitAddress
    BY <1>1, <2>1 DEF ExitAddress, FirstFloor
  <2> QED
    BY <1>3, <2>1, <2>2 DEF IInv, RunInv, TypeOK
<1>4. CASE mode = "unwinding"
  <2>1. pc \in 1..ExitAddress /\ held \in Seq(Rung)
    BY <1>1, <1>4 DEF IInv, RunInv, AtFloor, ExitAddress, FirstFloor
  <2> QED
    BY <1>4, <2>1 DEF IInv, RunInv, TypeOK
<1>5. CASE mode = "exited"
  <2>1. pc \in 1..ExitAddress /\ held \in Seq(Rung)
    BY <1>1, <1>5, EmptySeq DEF IInv, RunInv, ExitAddress, FirstFloor
  <2> QED
    BY <1>5, <2>1 DEF IInv, RunInv, TypeOK
<1> QED
  BY <1>2, <1>3, <1>4, <1>5 DEF IInv, RunInv

(* Every generated program stays within its code: a process that has       *)
(* started is at one of its steps, on a floor of its tower or at its exit. *)
THEOREM ProcessTypes == SingleLayerAdoption => (ProcessSpec => []TypeOK)
<1> SUFFICES ASSUME SingleLayerAdoption PROVE ProcessSpec => []TypeOK
  OBVIOUS
<1> QED
  BY InvariantTypes, ProcessInvariant, PTL

(* Scopes, jumps and the tower release in reverse order of acquisition and *)
(* release nothing that is not held: what goes next is the newest thing    *)
(* the process holds.                                                      *)
THEOREM ReleasesInReverse == SingleLayerAdoption => (ProcessSpec => []ReleasesTheNewest)
<1> SUFFICES ASSUME SingleLayerAdoption PROVE ProcessSpec => []ReleasesTheNewest
  OBVIOUS
<1>1. IInv => ReleasesTheNewest
  <2> SUFFICES ASSUME IInv PROVE ReleasesTheNewest
    OBVIOUS
  <2>1. At(ReleaseOps) /\ ReleasesLeft => Newest(held) = step.releases[released + 1]
    BY NextRelease
  <2>2. InTower => Newest(held) = floor
    BY TowerFacts DEF InTower
  <2> QED
    BY <2>1, <2>2 DEF ReleasesTheNewest, ReleaseOps
<1> QED
  BY <1>1, ProcessInvariant, PTL

(* However the program ended (its last step, a failed call or check,       *)
(* `leave program`), it holds nothing at its exit landmark.                *)
THEOREM NothingLeaks == SingleLayerAdoption => (ProcessSpec => []NothingHeldAtExit)
<1> SUFFICES ASSUME SingleLayerAdoption PROVE ProcessSpec => []NothingHeldAtExit
  OBVIOUS
<1>1. IInv => NothingHeldAtExit
  BY DEF IInv, RunInv, AtFloor, NothingHeldAtExit
<1> QED
  BY <1>1, ProcessInvariant, PTL

(* No loop, jump or restart acquires a thing that is still held.           *)
THEOREM NothingTakenTwice == SingleLayerAdoption => (ProcessSpec => []AcquiresAfresh)
<1> SUFFICES ASSUME SingleLayerAdoption PROVE ProcessSpec => []AcquiresAfresh
  OBVIOUS
<1>1. IInv => AcquiresAfresh
  <2> SUFFICES ASSUME IInv, At({"acquire", "adopt"}) PROVE AcquiresAfresh
    BY DEF AcquiresAfresh
  <2>1. /\ step.op \in {"acquire", "adopt"} /\ StepOK(step)
        /\ step.releases = <<>> => released = 0
        /\ released = 0 => held = step.held
    BY RunningFacts
  <2>2. held = step.held /\ TakesAfresh(step)
    BY <2>1 DEF StepOK, StepShape
  <2> QED
    BY <2>1, <2>2 DEF AcquiresAfresh, TakesAfresh
<1> QED
  BY <1>1, ProcessInvariant, PTL

(* A method call the planner accepted runs while its receiver is held.     *)
THEOREM CallsHaveReceivers == SingleLayerAdoption => (ProcessSpec => []ReceiverIsHeld)
<1> SUFFICES ASSUME SingleLayerAdoption PROVE ProcessSpec => []ReceiverIsHeld
  OBVIOUS
<1>1. IInv => ReceiverIsHeld
  <2> SUFFICES ASSUME IInv, At({"call"}) PROVE ReceiverIsHeld
    BY DEF ReceiverIsHeld
  <2>1. /\ step.op = "call" /\ StepOK(step)
        /\ step.releases = <<>> => released = 0
        /\ released = 0 => held = step.held
    BY RunningFacts
  <2>2. held = step.held /\ NamesWhatIsHeld(step)
    BY <2>1 DEF StepOK, StepShape
  <2> QED
    BY <2>1, <2>2 DEF ReceiverIsHeld, NamesWhatIsHeld
<1> QED
  BY <1>1, ProcessInvariant, PTL

-----------------------------------------------------------------------------
(* The promise of Raii, but for its fairness.                              *)

PromiseSafely == Promise!Init /\ [][Promise!Next]_(Promise!raiiVars)

(* A step that leaves what is held and the phase alone.                    *)
LEMMA Keeping ==
  ASSUME held' = held, mode' = mode
         \/ (mode = "compiling" /\ mode' = "running")
  PROVE  UNCHANGED Promise!raiiVars
BY DEF Promise!raiiVars

(* A step that enters the tower.                                           *)
LEMMA WindingDown ==
  ASSUME mode = "running", mode' = "unwinding", held' = held
  PROVE  Promise!WindDown
BY DEF Promise!WindDown

(* A step that releases the newest thing held.                             *)
LEMMA GivingBack ==
  ASSUME mode \in {"running", "unwinding"}, mode' = mode, held # <<>>,
         held' = Prefix(held, Len(held) - 1)
  PROVE  Promise!GiveBack
BY DEF Promise!GiveBack, Prefix

(* A step that acquires or adopts takes one new thing.                     *)
LEMMA Taking ==
  ASSUME SingleLayerAdoption, IInv, AcquireOk \/ AdoptStep
  PROVE  \E t \in Rung : Promise!Take(t)
<1>1. At({"acquire", "adopt"}) /\ mode' = mode /\ mode = "running"
      /\ held' = Append(held, IF step.op = "acquire" THEN step.rung
                                                     ELSE <<step.rung[1], 1>>)
  BY DEF AcquireOk, AdoptStep, At
<1>2. /\ step.op \in {"acquire", "adopt"} /\ StepOK(step)
      /\ (step.releases = <<>> => released = 0)
      /\ released = 0 => held = step.held
  BY <1>1, RunningFacts
<1>3. /\ held = step.held /\ \A k \in 1..Len(held) : held[k] # step.rung
      /\ step.op = "adopt" => step.rung = <<step.rung[1], 1>>
  BY <1>2 DEF StepOK, StepShape, TakesAfresh
<1>4. held' = Append(held, step.rung)
  BY <1>1, <1>2, <1>3
<1>5. held \in Seq(Rung) /\ held' \in Seq(Rung)
  <2>1. TypeOK /\ TypeOK'
    <3>1. IInv'
      BY AcquireKeeps
    <3> QED
      BY <3>1, InvariantTypes, PTL
  <2> QED
    BY <2>1 DEF TypeOK
<1>6. step.rung \in Rung
  BY <1>4, <1>5, AppendProperties
<1>7. Promise!Take(step.rung)
  BY <1>1, <1>3, <1>4 DEF Promise!Take, Promise!Owns
<1> QED
  BY <1>6, <1>7

(* Every step of the process is a step of the promise, or none.            *)
LEMMA StepImplements ==
  ASSUME SingleLayerAdoption, IInv, [ProcessNext]_vars
  PROVE  [Promise!Next]_(Promise!raiiVars)
<1>1. CASE Compile \/ Start
  BY <1>1, Keeping DEF Compile, Start, runVars
<1>2. CASE AcquireOk \/ AdoptStep
  BY <1>2, Taking DEF Promise!Next
<1>3. CASE NextAttempt \/ Proceed \/ GuardStep \/ ScopeEndStep \/ JumpNotTaken
  BY <1>3, Keeping DEF NextAttempt, Proceed, GuardStep, ScopeEndStep, JumpNotTaken
<1>4. CASE Fault \/ ExitStep \/ (JumpTaken /\ mode' = "unwinding")
  BY <1>4, WindingDown DEF Fault, ExitStep, JumpTaken, At, Promise!Next
<1>5. CASE JumpTaken /\ mode' # "unwinding"
  BY <1>5, Keeping DEF JumpTaken
<1>6. CASE ReleaseStep
  <2>1. /\ At(ReleaseOps) /\ ReleasesLeft /\ mode = "running" /\ mode' = mode
        /\ held' = Without(held, step.releases[released + 1])
    BY <1>6 DEF ReleaseStep, ReleaseOps, At
  <2>2. held # <<>> /\ held' = Prefix(held, Len(held) - 1)
    BY <2>1, NextRelease, WithoutNewest
  <2> QED
    BY <2>1, <2>2, GivingBack DEF Promise!Next
<1>7. CASE FloorStep
  <2>1. mode = "unwinding" /\ mode' = mode /\ InTower
    BY <1>7 DEF FloorStep, InTower
  <2>2. held # <<>> /\ held' = Prefix(held, Len(held) - 1)
    BY <1>7, <2>1, FloorStepKeeps, TowerFacts
  <2> QED
    BY <2>1, <2>2, GivingBack DEF Promise!Next
<1>8. CASE ExitGroup
  <2>1. held = <<>> /\ held' = held /\ mode = "unwinding" /\ mode' = "exited"
    BY <1>8, ExitGroupKeeps DEF ExitGroup
  <2> QED
    BY <2>1 DEF Promise!Next, Promise!Exit
<1>9. CASE Exited \/ UNCHANGED vars
  BY <1>9, Keeping DEF Exited, vars
<1> QED
  BY <1>1, <1>2, <1>3, <1>4, <1>5, <1>6, <1>7, <1>8, <1>9 DEF ProcessNext, Run

(* Every generated program keeps the promise of Raii in all it does: it    *)
(* takes one thing at a time and never one it owns, gives back the newest  *)
(* first, takes nothing once it winds down, and is gone only when it owns  *)
(* nothing.  (That it winds down to the end is left to the model checker.) *)
THEOREM KeepsPromiseSafely == SingleLayerAdoption => (ProcessSpec => PromiseSafely)
<1> SUFFICES ASSUME SingleLayerAdoption PROVE ProcessSpec => PromiseSafely
  OBVIOUS
<1>1. ProcessInit => Promise!Init
  BY DEF ProcessInit, RunInit, Promise!Init
<1>2. ProcessInit => IInv
  BY ProcessInitially
<1>3. IInv /\ [ProcessNext]_vars => IInv' /\ [Promise!Next]_(Promise!raiiVars)
  BY ProcessNextKeeps, StepImplements
<1> QED
  BY <1>1, <1>2, <1>3, PTL DEF ProcessSpec, PromiseSafely
=============================================================================
