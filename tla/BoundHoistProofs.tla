--------------------------- MODULE BoundHoistProofs ---------------------------
(***************************************************************************)
(* The proofs about BoundHoist, for every program: any number of steps,    *)
(* any nesting, any values.  The argument is that control enters a scope   *)
(* only at its first step, past the loads, because scopes nest and a jump  *)
(* goes only to the start or past the end of a scope around it; and that   *)
(* inside the scope a bound is hoisted from nothing it depends on changes. *)
(***************************************************************************)
EXTENDS BoundHoist, SequenceTheorems, TLAPS

(* What a step of an open or a closed scope is.                            *)
Opens(i) == source[i].op = "loop_start"
Closes(i) == source[i].op \in {"loop_end", "back"}
Jumps(i) == source[i].op \in {"loop_exit", "loop_again"}

(* Open scopes nest in one another, and stand outside the closed ones.     *)
OpenNest ==
  /\ \A k \in DOMAIN open : open[k] \in DOMAIN source /\ Opens(open[k])
  /\ \A j, k \in DOMAIN open : j < k => open[j] < open[k]
  /\ \A k \in DOMAIN open, a \in DOMAIN ends : open[k] < a \/ ends[a] < open[k]

(* A closed scope ends after it starts, and scopes nest.                   *)
ClosedNest ==
  /\ \A a \in DOMAIN ends : /\ a \in DOMAIN source /\ ends[a] \in DOMAIN source
                            /\ a < ends[a] /\ Opens(a) /\ Closes(ends[a])
                            /\ source[ends[a]].scope = a
  /\ \A a, b \in DOMAIN ends : a < b /\ b < ends[a] => ends[b] < ends[a]

(* A jump names a scope it stands in, open or closed since.                *)
JumpsOut ==
  \A i \in DOMAIN source :
    /\ Jumps(i) => LET s == source[i].scope
                   IN /\ s < i
                      /\ \/ s \in DOMAIN ends /\ i < ends[s]
                         \/ \E k \in DOMAIN open : open[k] = s
    /\ Closes(i) => LET s == source[i].scope
                    IN s \in DOMAIN ends /\ ends[s] = i

(* The pass has placed each bound, and the run is inside the program.      *)
Hoisted ==
  /\ phase # "writing" => open = <<>> /\ home \in Homes
  /\ phase = "writing" => DOMAIN home = {} /\ pc = 0
  /\ phase = "running" => pc # 0

(* The steps that name a variable do, and a field's assignment an attached *)
(* one.                                                                    *)
Named ==
  \A i \in DOMAIN source :
    /\ source[i].op \in {"assign", "afstore", "store", "guard"} => source[i].name \in Name
    /\ source[i].op = "afstore" => source[i].name \in Attached

IInv == TypeOK /\ OpenNest /\ ClosedNest /\ JumpsOut /\ Named /\ Hoisted

(* Within a bound's scope the copy is what the source would read.          *)
Loaded ==
  phase = "running" =>
    \A g \in DOMAIN home :
      home[g] # 0 /\ pc \in Span(home[g]) => bound[g] = SourceBound(g)

-----------------------------------------------------------------------------
(* What appending a step leaves and adds.                                  *)
LEMMA Appending ==
  ASSUME NEW step \in Steps, source \in Seq(Steps), source' = Append(source, step)
  PROVE  /\ source' \in Seq(Steps)
         /\ Len(source) \in Nat
         /\ DOMAIN source = 1..Len(source)
         /\ Len(source') = Len(source) + 1
         /\ DOMAIN source' = 1..(Len(source) + 1)
         /\ \A i \in DOMAIN source : source'[i] = source[i]
         /\ source'[Len(source) + 1] = step
BY DEF Steps

(* The initial state.                                                      *)
LEMMA InitIInv == Init => IInv
<1> SUFFICES ASSUME Init PROVE IInv
  OBVIOUS
<1> USE DEF Init
<1>1. TypeOK
  <2>1. env \in [Name -> Value]
    BY ValueAssumption
  <2> QED BY <2>1 DEF TypeOK, Guards
<1>2. OpenNest /\ ClosedNest /\ JumpsOut /\ Named /\ Hoisted
  BY DEF OpenNest, ClosedNest, JumpsOut, Named, Hoisted
<1> QED BY <1>1, <1>2 DEF IInv

-----------------------------------------------------------------------------
(* Writing.                                                                *)

(* The steps that only append to the source, none of them an end.          *)
LEMMA WriteIInv ==
  ASSUME IInv, NEW step \in Steps, Write(step),
         UNCHANGED <<open, ends, home, phase, pc, state, bound>>,
         step.op \notin {"loop_end", "back"},
         step.op \in {"loop_exit", "loop_again"} =>
           \E k \in DOMAIN open : step.scope = open[k],
         step.op \in {"assign", "afstore", "store", "guard"} => step.name \in Name,
         step.op = "afstore" => step.name \in Attached
  PROVE  IInv'
<1> USE DEF IInv
<1>0. /\ source \in Seq(Steps) /\ source' = Append(source, step)
      /\ phase = "writing" /\ DOMAIN home = {} /\ pc = 0
  BY DEF TypeOK, Hoisted, Write, Writing
<1>1. /\ source' \in Seq(Steps)
      /\ Len(source) \in Nat
      /\ DOMAIN source = 1..Len(source)
      /\ Len(source') = Len(source) + 1
      /\ DOMAIN source' = 1..(Len(source) + 1)
      /\ \A i \in DOMAIN source : source'[i] = source[i]
      /\ source'[Len(source) + 1] = step
  BY <1>0, Appending
<1>2. TypeOK'
  <2>1. open' \in Seq(DOMAIN source')
    BY <1>1 DEF TypeOK
  <2> QED BY <2>1, <1>0, <1>1 DEF TypeOK, state
<1>3. OpenNest'
  BY <1>1 DEF OpenNest, Opens
<1>4. ClosedNest'
  BY <1>1 DEF ClosedNest, Opens, Closes
<1>5. JumpsOut'
  <2> SUFFICES ASSUME NEW i \in DOMAIN source'
               PROVE  /\ Jumps(i)' => /\ source'[i].scope < i
                                      /\ \/ /\ source'[i].scope \in DOMAIN ends'
                                            /\ i < ends'[source'[i].scope]
                                         \/ \E k \in DOMAIN open' : open'[k] = source'[i].scope
                      /\ Closes(i)' => /\ source'[i].scope \in DOMAIN ends'
                                       /\ ends'[source'[i].scope] = i
    BY DEF JumpsOut, Jumps, Closes
  <2>1. CASE i \in DOMAIN source
    BY <2>1, <1>1 DEF JumpsOut, Jumps, Closes
  <2>2. CASE i = Len(source) + 1
    BY <2>2, <1>1 DEF Jumps, Closes, OpenNest
  <2> QED BY <2>1, <2>2, <1>1
<1>6. Hoisted' /\ Named'
  BY <1>0, <1>1 DEF Hoisted, Named
<1> QED BY <1>2, <1>3, <1>4, <1>5, <1>6

LEMMA OpenIInv == IInv /\ OpenScope => IInv'
<1> SUFFICES ASSUME IInv, OpenScope PROVE IInv'
  OBVIOUS
<1> USE DEF IInv
<1> DEFINE n == Len(source) + 1
<1> DEFINE step == Step("loop_start", 0, Always)
<1>0. /\ source \in Seq(Steps) /\ source' = Append(source, step)
      /\ phase = "writing" /\ DOMAIN home = {} /\ pc = 0
      /\ open' = Append(open, n) /\ step \in Steps
      /\ UNCHANGED <<ends, home, phase, pc, state, bound>>
  BY DEF TypeOK, Hoisted, OpenScope, Write, Writing, Steps, Step, Ops
<1>1. /\ source' \in Seq(Steps)
      /\ Len(source) \in Nat
      /\ DOMAIN source = 1..Len(source)
      /\ Len(source') = n
      /\ DOMAIN source' = 1..n
      /\ \A i \in DOMAIN source : source'[i] = source[i]
      /\ source'[n] = step
  <2> HIDE DEF step
  <2> QED BY <1>0, Appending
<1>2. /\ open \in Seq(DOMAIN source) /\ open' \in Seq(DOMAIN source')
      /\ DOMAIN open' = 1..(Len(open) + 1) /\ Len(open) \in Nat
      /\ DOMAIN open = 1..Len(open)
      /\ \A k \in DOMAIN open : open'[k] = open[k]
      /\ open'[Len(open) + 1] = n
  <2>1. open \in Seq(DOMAIN source) /\ open \in Seq(DOMAIN source')
    BY <1>1 DEF TypeOK
  <2> QED BY <2>1, <1>0, <1>1
<1>3. TypeOK'
  BY <1>0, <1>1, <1>2 DEF TypeOK, state
<1>4. \A a \in DOMAIN ends : ends[a] \in 1..Len(source)
  BY <1>1 DEF ClosedNest
<1>5. OpenNest'
  <2>1. \A k \in DOMAIN open : open[k] \in 1..Len(source) /\ open[k] < n
    BY <1>1 DEF OpenNest
  <2>2. \A k \in DOMAIN open' : \/ k \in DOMAIN open /\ open'[k] = open[k]
                                \/ k = Len(open) + 1 /\ open'[k] = n
    BY <1>2
  <2>3. \A k \in DOMAIN open' :
          open'[k] \in DOMAIN source' /\ source'[open'[k]].op = "loop_start"
    <3>1. source'[n].op = "loop_start" /\ n \in DOMAIN source'
      BY <1>1 DEF Step
    <3>2. \A k \in DOMAIN open : source'[open[k]].op = "loop_start"
      BY <1>1, <2>1 DEF OpenNest, Opens
    <3> QED BY <1>1, <2>1, <2>2, <3>1, <3>2
  <2>4. \A j, k \in DOMAIN open' : j < k => open'[j] < open'[k]
    <3> SUFFICES ASSUME NEW j \in DOMAIN open', NEW k \in DOMAIN open', j < k
                 PROVE  open'[j] < open'[k]
      OBVIOUS
    <3>1. j \in DOMAIN open
      BY <1>2
    <3>2. CASE k \in DOMAIN open
      BY <1>2, <3>1, <3>2 DEF OpenNest
    <3>3. CASE k = Len(open) + 1
      BY <1>2, <2>1, <3>1, <3>3
    <3> QED BY <1>2, <3>2, <3>3
  <2>5. \A k \in DOMAIN open', a \in DOMAIN ends' : open'[k] < a \/ ends'[a] < open'[k]
    BY <1>0, <1>1, <1>2, <1>4 DEF OpenNest
  <2> HIDE DEF n, step
  <2> QED BY <2>3, <2>4, <2>5 DEF OpenNest, Opens
<1>6. ClosedNest'
  BY <1>0, <1>1 DEF ClosedNest, Opens, Closes
<1>7. JumpsOut'
  <2> SUFFICES ASSUME NEW i \in DOMAIN source'
               PROVE  /\ Jumps(i)' => /\ source'[i].scope < i
                                      /\ \/ /\ source'[i].scope \in DOMAIN ends'
                                            /\ i < ends'[source'[i].scope]
                                         \/ \E k \in DOMAIN open' : open'[k] = source'[i].scope
                      /\ Closes(i)' => /\ source'[i].scope \in DOMAIN ends'
                                       /\ ends'[source'[i].scope] = i
    BY DEF JumpsOut, Jumps, Closes
  <2>1. CASE i \in DOMAIN source
    BY <2>1, <1>0, <1>1, <1>2 DEF JumpsOut, Jumps, Closes
  <2>2. CASE i = n
    BY <2>2, <1>1 DEF Jumps, Closes, Step
  <2> QED BY <2>1, <2>2, <1>1
<1>8. Hoisted' /\ Named'
  BY <1>0, <1>1 DEF Hoisted, Named, Step
<1> QED BY <1>3, <1>5, <1>6, <1>7, <1>8

LEMMA CloseIInv == IInv /\ CloseScope => IInv'
<1> SUFFICES ASSUME IInv, CloseScope PROVE IInv'
  OBVIOUS
<1> USE DEF IInv
<1> DEFINE n == Len(source) + 1
<1> DEFINE m == Len(open)
<1> DEFINE a == open[m]
<1>0. PICK step \in Steps :
        /\ source' = Append(source, step)
        /\ step.op \in {"loop_end", "back"} /\ step.scope = a
  <2>1. \E op \in {"loop_end", "back"}, name \in Name \cup {Always} :
          source' = Append(source, Step(op, a, name))
    BY DEF CloseScope
  <2>2. PICK op \in {"loop_end", "back"}, name \in Name \cup {Always} :
          source' = Append(source, Step(op, a, name))
    BY <2>1
  <2>3. m \in DOMAIN open /\ a \in DOMAIN source /\ DOMAIN source \subseteq Nat
    BY DEF CloseScope, TypeOK
  <2>4. Step(op, a, name) \in Steps
    BY <2>3 DEF Step, Steps, Ops
  <2>5. Step(op, a, name).op \in {"loop_end", "back"} /\ Step(op, a, name).scope = a
    BY DEF Step
  <2> QED BY <2>2, <2>4, <2>5
<1>1. /\ source \in Seq(Steps) /\ source' \in Seq(Steps)
      /\ Len(source) \in Nat
      /\ DOMAIN source = 1..Len(source)
      /\ Len(source') = n
      /\ DOMAIN source' = 1..n
      /\ \A i \in DOMAIN source : source'[i] = source[i]
      /\ source'[n] = step
  BY <1>0, Appending DEF TypeOK
<1>2. /\ open \in Seq(DOMAIN source) /\ m \in Nat /\ m \in DOMAIN open
      /\ open' \in Seq(DOMAIN source') /\ DOMAIN open = 1..m
      /\ DOMAIN open' = 1..(m - 1)
      /\ \A k \in DOMAIN open' : open'[k] = open[k] /\ k \in DOMAIN open /\ k < m
  <2>1. open \in Seq(DOMAIN source) /\ open # <<>>
    BY DEF TypeOK, CloseScope
  <2>2. open' = SubSeq(open, 1, m - 1)
    BY DEF CloseScope
  <2>3. open \in Seq(DOMAIN source')
    BY <1>1, <2>1
  <2>4. m \in Nat /\ m # 0
    BY <2>1
  <2>5. open' \in Seq(DOMAIN source') /\ Len(open') = m - 1
        /\ \A k \in 1..(m - 1) : open'[k] = open[k]
    <3> HIDE DEF m, n
    <3>1. m = Len(open)
      BY DEF m
    <3> QED BY <2>2, <2>3, <2>4, <3>1
  <2> QED BY <2>1, <2>4, <2>5
<1>3. /\ a \in 1..Len(source) /\ a < n /\ a \notin DOMAIN ends
      /\ source[a].op = "loop_start"
      /\ \A k \in DOMAIN open' : open[k] < a
  <2>1. a \in 1..Len(source) /\ a < n /\ source[a].op = "loop_start"
    BY <1>1, <1>2 DEF OpenNest, Opens
  <2>2. a \notin DOMAIN ends
    <3>1. ASSUME a \in DOMAIN ends
          PROVE  FALSE
      <4>1. a < a \/ ends[a] < a
        BY <3>1, <1>2 DEF OpenNest
      <4>2. a < ends[a] /\ ends[a] \in 1..Len(source)
        BY <3>1, <1>1 DEF ClosedNest
      <4> HIDE DEF a
      <4> QED BY <4>1, <4>2, <2>1
    <3> QED BY <3>1
  <2>3. \A k \in DOMAIN open' : open[k] < a
    BY <1>2 DEF OpenNest
  <2> QED BY <2>1, <2>2, <2>3
<1>4. /\ DOMAIN ends' = DOMAIN ends \cup {a} /\ ends'[a] = n
      /\ \A b \in DOMAIN ends : /\ ends'[b] = ends[b] /\ b \in 1..Len(source)
                                /\ ends[b] \in 1..Len(source)
  BY <1>1, <1>3 DEF CloseScope, ClosedNest
<1>5. /\ phase = "writing" /\ DOMAIN home = {} /\ pc = 0
      /\ UNCHANGED <<home, phase, pc, state, bound>>
  BY DEF Hoisted, CloseScope
<1> HIDE DEF n, m, a
<1>n. n = Len(source) + 1
  BY DEF n
<1>6. TypeOK'
  <2>1. ends' \in [DOMAIN ends' -> DOMAIN source'] /\ DOMAIN ends' \subseteq DOMAIN source'
    <3>1. ends' = [b \in DOMAIN ends' |-> ends'[b]]
      BY DEF CloseScope
    <3> QED BY <1>1, <1>3, <1>4, <1>n, <3>1
  <2> QED BY <1>1, <1>2, <1>5, <1>n, <2>1 DEF TypeOK, state
<1>7. OpenNest'
  <2>1. \A k \in DOMAIN open' : open'[k] \in DOMAIN source' /\ source'[open'[k]].op = "loop_start"
    BY <1>1, <1>2, <1>n, SMTT(60) DEF OpenNest, Opens
  <2>2. \A j, k \in DOMAIN open' : j < k => open'[j] < open'[k]
    BY <1>2 DEF OpenNest
  <2>3. \A k \in DOMAIN open', b \in DOMAIN ends' : open'[k] < b \/ ends'[b] < open'[k]
    BY <1>2, <1>3, <1>4 DEF OpenNest
  <2> QED BY <2>1, <2>2, <2>3 DEF OpenNest, Opens
<1>8. ClosedNest'
  <2>1. ASSUME NEW b \in DOMAIN ends'
        PROVE  /\ b \in DOMAIN source' /\ ends'[b] \in DOMAIN source'
               /\ b < ends'[b] /\ source'[b].op = "loop_start"
               /\ source'[ends'[b]].op \in {"loop_end", "back"}
               /\ source'[ends'[b]].scope = b
    <3>1. CASE b \in DOMAIN ends
      BY <3>1, <1>1, <1>4, <1>n DEF ClosedNest, Opens, Closes
    <3>2. CASE b = a
      BY <3>2, <1>0, <1>1, <1>3, <1>4, <1>n
    <3> QED BY <1>4, <3>1, <3>2
  <2>2. ASSUME NEW b \in DOMAIN ends', NEW c \in DOMAIN ends', b < c, c < ends'[b]
        PROVE  ends'[c] < ends'[b]
    <3>1. CASE b \in DOMAIN ends /\ c \in DOMAIN ends
      BY <2>2, <3>1, <1>4 DEF ClosedNest
    <3>2. CASE b \in DOMAIN ends /\ c = a
      <4>1. a < b \/ ends[b] < a
        BY <3>2, <1>2 DEF OpenNest, a
      <4> QED BY <2>2, <3>2, <4>1, <1>3, <1>4
    <3>3. CASE b = a /\ c \in DOMAIN ends
      BY <2>2, <3>3, <1>1, <1>4, <1>n
    <3> QED BY <2>2, <3>1, <3>2, <3>3, <1>3, <1>4
  <2> QED BY <2>1, <2>2 DEF ClosedNest, Opens, Closes
<1>9. JumpsOut'
  <2> SUFFICES ASSUME NEW i \in DOMAIN source'
               PROVE  /\ Jumps(i)' => /\ source'[i].scope < i
                                      /\ \/ /\ source'[i].scope \in DOMAIN ends'
                                            /\ i < ends'[source'[i].scope]
                                         \/ \E k \in DOMAIN open' : open'[k] = source'[i].scope
                      /\ Closes(i)' => /\ source'[i].scope \in DOMAIN ends'
                                       /\ ends'[source'[i].scope] = i
    BY DEF JumpsOut, Jumps, Closes
  <2>1. CASE i \in DOMAIN source
    <3>0. source'[i] = source[i] /\ i < n
      BY <2>1, <1>1, <1>n
    <3>1. Closes(i)' => /\ source'[i].scope \in DOMAIN ends'
                        /\ ends'[source'[i].scope] = i
      BY <2>1, <3>0, <1>4 DEF JumpsOut, Closes
    <3>2. ASSUME Jumps(i)
          PROVE  /\ source[i].scope < i
                 /\ \/ source[i].scope \in DOMAIN ends' /\ i < ends'[source[i].scope]
                    \/ \E k \in DOMAIN open' : open'[k] = source[i].scope
      <4>1. source[i].scope < i
        BY <2>1, <3>2 DEF JumpsOut
      <4>2. CASE source[i].scope \in DOMAIN ends /\ i < ends[source[i].scope]
        BY <4>1, <4>2, <1>4
      <4>3. ASSUME NEW k \in DOMAIN open, open[k] = source[i].scope
            PROVE  \/ source[i].scope \in DOMAIN ends' /\ i < ends'[source[i].scope]
                   \/ \E j \in DOMAIN open' : open'[j] = source[i].scope
        <5>1. CASE k = m
          BY <4>3, <5>1, <3>0, <1>4 DEF a
        <5>2. CASE k # m
          BY <4>3, <5>2, <1>2
        <5> QED BY <5>1, <5>2
      <4> QED BY <2>1, <3>2, <4>1, <4>2, <4>3 DEF JumpsOut
    <3> QED BY <3>0, <3>1, <3>2 DEF Jumps
  <2>2. CASE i = n
    BY <2>2, <1>0, <1>1, <1>4 DEF Jumps, Closes
  <2> QED BY <2>1, <2>2, <1>1, <1>n
<1>10. Hoisted' /\ Named'
  BY <1>0, <1>1, <1>5, <1>n DEF Hoisted, Named
<1> QED BY <1>6, <1>7, <1>8, <1>9, <1>10

-----------------------------------------------------------------------------
(* The pass.                                                               *)

(* What the pass computes depends on the program alone.                    *)
LEMMA HomesUnchanged == UNCHANGED <<source, ends>> => Homes' = Homes
BY DEF Homes, IsHome, Invariants, Candidates, Tested, AssignedIn, Dirty, Repeating,
       Guards, Inside, Span

(* A bound's home is a repeating scope around its guard, in which nothing  *)
(* is stored and the bound's name is not assigned.                         *)
LEMMA HomeIsInvariant ==
  ASSUME home \in Homes, NEW g \in DOMAIN home, home[g] # 0
  PROVE  /\ g \in Guards /\ home[g] \in DOMAIN ends /\ g \in Inside(home[g])
         /\ \A i \in Inside(home[g]) :
              /\ source[i].op # "store"
              /\ source[i].op = "assign" => source[i].name # source[g].name
<1>1. g \in Guards /\ IsHome(g, home[g])
  BY DEF Homes
<1>2. home[g] \in Invariants(g)
  BY <1>1 DEF IsHome
<1>3. /\ home[g] \in DOMAIN ends /\ g \in Inside(home[g]) /\ ~Dirty(home[g])
      /\ source[g].name \notin AssignedIn(home[g])
  BY <1>2 DEF Invariants, Candidates, Repeating
<1> QED BY <1>1, <1>3 DEF Dirty, AssignedIn

LEMMA HoistIInv == IInv /\ Hoist => IInv' /\ Loaded'
<1> SUFFICES ASSUME IInv, Hoist PROVE IInv' /\ Loaded'
  OBVIOUS
<1> USE DEF IInv
<1>1. /\ open = <<>> /\ phase' = "running" /\ pc' = 1 /\ home' \in Homes
      /\ UNCHANGED <<source, open, ends, env, memory>>
      /\ source \in Seq(Steps) /\ Len(source) \in Nat \ {0}
      /\ DOMAIN source = 1..Len(source)
  BY DEF Hoist, TypeOK, state
<1>2. Homes' = Homes /\ Guards' = Guards
  BY <1>1, HomesUnchanged DEF Guards
<1>3. DOMAIN home' = Guards /\ home' \in [Guards -> {0} \cup DOMAIN ends]
  BY <1>1 DEF Homes
<1>4. \A g \in Guards : SourceBound(g) \in Value
  BY DEF Guards, Named, SourceBound, TypeOK
<1>5. bound' \in [Guards -> Value]
  BY <1>4, ValueAssumption DEF Hoist, SourceBound
<1>6. TypeOK'
  <2>1. pc' \in 0..Len(source) + 1
    BY <1>1
  <2> QED BY <1>1, <1>2, <1>3, <1>5, <2>1 DEF TypeOK
<1>7. OpenNest' /\ ClosedNest' /\ JumpsOut' /\ Named'
  <2>1. OpenNest' /\ ClosedNest'
    BY <1>1 DEF OpenNest, ClosedNest, Opens, Closes
  <2>2. JumpsOut' /\ Named'
    BY <1>1 DEF JumpsOut, Named, Jumps, Closes
  <2> QED BY <2>1, <2>2
<1>8. Hoisted'
  BY <1>1, <1>2 DEF Hoisted
<1>9. Loaded'
  <2> SUFFICES ASSUME NEW g \in Guards, home'[g] # 0, 1 \in home'[g]..ends[home'[g]]
               PROVE  bound'[g] = SourceBound(g)'
    BY <1>1, <1>3 DEF Loaded, Span
  <2>1. home'[g] \in DOMAIN ends
    BY <1>3
  <2>2. home'[g] \in 1..Len(source)
    BY <2>1, <1>1 DEF ClosedNest
  <2>3. home'[g] = 1
    BY <2>2, <1>1 DEF ClosedNest
  <2> QED BY <2>3, <1>1 DEF Hoist, SourceBound
<1> QED BY <1>6, <1>7, <1>8, <1>9

-----------------------------------------------------------------------------
(* Running.                                                                *)

(* A step of the run leaves the program alone and keeps its types.         *)
LEMMA RunningIInv ==
  ASSUME IInv, phase = "running", UNCHANGED program, phase' # "writing",
         pc' \in 1..Len(source) + 1,
         env' \in [Name -> Value], memory' \in [Value -> Value],
         bound' \in [DOMAIN home -> Value],
         phase' \in {"running", "done", "failed"}
  PROVE  IInv'
<1> USE DEF IInv, program
<1>1. Homes' = Homes /\ Guards' = Guards
  BY HomesUnchanged DEF Guards
<1>2. TypeOK'
  <2>1. DOMAIN home \subseteq Guards /\ home \in [DOMAIN home -> {0} \cup DOMAIN ends]
    BY DEF TypeOK
  <2>2. pc' \in 0..Len(source) + 1
    BY DEF TypeOK
  <2> QED BY <1>1, <2>1, <2>2 DEF TypeOK
<1>3. OpenNest' /\ ClosedNest'
  BY DEF OpenNest, ClosedNest, Opens, Closes
<1>4. JumpsOut' /\ Named'
  BY DEF JumpsOut, Named, Jumps, Closes
<1>5. Hoisted'
  BY <1>1 DEF Hoisted, TypeOK
<1> QED BY <1>2, <1>3, <1>4, <1>5

(* Arriving keeps the types.                                               *)
LEMMA ArriveTypes ==
  ASSUME IInv, UNCHANGED source, NEW i, Arrive(i),
         env' \in [Name -> Value], memory' \in [Value -> Value]
  PROVE  bound' \in [DOMAIN home -> Value]
<1>1. DOMAIN bound = DOMAIN home /\ DOMAIN home \subseteq Guards
  BY DEF IInv, TypeOK
<1>2. \A g \in DOMAIN home : memory'[env'[source[g].name]] \in Value /\ bound[g] \in Value
  BY <1>1 DEF IInv, TypeOK, Named, Guards
<1> QED BY <1>1, <1>2 DEF Arrive

(* Where each step of the run goes: on, past a scope around it, or back to *)
(* the start of one.                                                       *)
LEMMA Landing ==
  ASSUME IInv, phase = "running", pc \in DOMAIN source
  PROVE  /\ Len(source) \in Nat /\ DOMAIN source = 1..Len(source)
         /\ pc \in 1..Len(source) /\ After(pc) = pc + 1 /\ After(pc) \in 1..Len(source) + 1
         /\ At("loop_exit") \/ At("loop_again") \/ At("back") =>
              /\ Here.scope \in DOMAIN ends
              /\ Here.scope \in 1..Len(source)
              /\ ends[Here.scope] \in 1..Len(source)
              /\ Here.scope < pc /\ pc <= ends[Here.scope]
              /\ At("loop_exit") => pc < ends[Here.scope]
<1> USE DEF IInv
<1>1. Len(source) \in Nat /\ DOMAIN source = 1..Len(source) /\ source \in Seq(Steps)
  BY DEF TypeOK
<1>2. open = <<>>
  BY DEF Hoisted
<1>3. ASSUME At("loop_exit") \/ At("loop_again")
      PROVE  Here.scope \in DOMAIN ends /\ Here.scope < pc /\ pc < ends[Here.scope]
  BY <1>2, <1>3 DEF JumpsOut, Jumps, At, Here
<1>4. ASSUME At("back")
      PROVE  Here.scope \in DOMAIN ends /\ pc = ends[Here.scope]
  BY <1>4 DEF JumpsOut, Closes, At, Here
<1>5. \A a \in DOMAIN ends : /\ a \in 1..Len(source) /\ ends[a] \in 1..Len(source)
                             /\ a < ends[a]
  BY <1>1 DEF ClosedNest
<1>6. pc \in 1..Len(source) /\ After(pc) = pc + 1 /\ After(pc) \in 1..Len(source) + 1
  BY <1>1 DEF After
<1> QED BY <1>1, <1>3, <1>4, <1>5, <1>6 DEF At

LEMMA RunIInv == IInv /\ RunSteps => IInv'
<1> SUFFICES ASSUME IInv, RunSteps PROVE IInv'
  OBVIOUS
<1>0. /\ env \in [Name -> Value] /\ memory \in [Value -> Value]
      /\ bound \in [DOMAIN home -> Value]
      /\ phase = "running" /\ UNCHANGED program
  BY DEF IInv, TypeOK, RunSteps, PassMark, GoBack, LeaveScope, SetName, StoreCell, Check,
         Exit, At
<1>s. UNCHANGED source
  BY <1>0 DEF program
<1>1. CASE PassMark
  <2>1. pc \in DOMAIN source /\ Arrive(After(pc)) /\ UNCHANGED <<phase, env, memory>>
    BY <1>1 DEF PassMark, At, state
  <2>2. pc' \in 1..Len(source) + 1
    BY <1>0, <2>1, Landing DEF Arrive
  <2>3. bound' \in [DOMAIN home -> Value]
    BY <1>0, <1>s, <2>1, ArriveTypes
  <2> QED BY <1>0, <2>1, <2>2, <2>3, RunningIInv
<1>2. CASE GoBack
  <2>1. pc \in DOMAIN source /\ UNCHANGED <<phase, env, memory>>
        /\ (At("loop_again") \/ At("back"))
        /\ (Repeat(Here.scope) \/ Arrive(After(pc)))
    BY <1>2 DEF GoBack, At, state
  <2>2. pc' \in 1..Len(source) + 1
    BY <1>0, <2>1, Landing DEF Arrive, Repeat
  <2>3. bound' \in [DOMAIN home -> Value]
    BY <1>0, <1>s, <2>1, ArriveTypes DEF Repeat
  <2> QED BY <1>0, <2>1, <2>2, <2>3, RunningIInv
<1>3. CASE LeaveScope
  <2>1. pc \in DOMAIN source /\ UNCHANGED <<phase, env, memory>> /\ At("loop_exit")
        /\ (Arrive(After(ends[Here.scope])) \/ Arrive(After(pc)))
    BY <1>3 DEF LeaveScope, At, state
  <2>2. pc' \in 1..Len(source) + 1
    BY <1>0, <2>1, Landing DEF Arrive, After
  <2>3. bound' \in [DOMAIN home -> Value]
    BY <1>0, <1>s, <2>1, ArriveTypes
  <2> QED BY <1>0, <2>1, <2>2, <2>3, RunningIInv
<1>4. CASE SetName
  <2>1. pc \in DOMAIN source /\ Arrive(After(pc)) /\ UNCHANGED <<phase, memory>>
        /\ env' \in [Name -> Value]
    BY <1>0, <1>4 DEF SetName, At
  <2>2. pc' \in 1..Len(source) + 1
    BY <1>0, <2>1, Landing DEF Arrive
  <2>3. bound' \in [DOMAIN home -> Value]
    BY <1>0, <1>s, <2>1, ArriveTypes
  <2> QED BY <1>0, <2>1, <2>2, <2>3, RunningIInv
<1>5. CASE StoreCell
  <2>0. PICK v \in Value : memory' = [memory EXCEPT ![env[Here.name]] = v]
    BY <1>5 DEF StoreCell
  <2>1. pc \in DOMAIN source /\ Arrive(After(pc)) /\ UNCHANGED <<phase, env>>
        /\ memory' \in [Value -> Value]
    <3>1. memory' \in [Value -> Value]
      <4> DEFINE n == env[Here.name]
      <4>1. memory' = [memory EXCEPT ![n] = v]
        BY <2>0
      <4> HIDE DEF n
      <4> QED BY <1>0, <4>1
    <3> QED BY <1>5, <3>1 DEF StoreCell, At
  <2>2. pc' \in 1..Len(source) + 1
    BY <1>0, <2>1, Landing DEF Arrive
  <2>3. bound' \in [DOMAIN home -> Value]
    BY <1>0, <1>s, <2>1, ArriveTypes
  <2> QED BY <1>0, <2>1, <2>2, <2>3, RunningIInv
<1>6. CASE Check
  <2>1. pc \in DOMAIN source /\ UNCHANGED <<env, memory>>
        /\ \/ Arrive(After(pc)) /\ UNCHANGED phase
           \/ phase' = "failed" /\ UNCHANGED <<pc, bound>>
    BY <1>6 DEF Check, At, state
  <2>2. pc' \in 1..Len(source) + 1
    BY <1>0, <2>1, Landing DEF Arrive
  <2>3. bound' \in [DOMAIN home -> Value]
    BY <1>0, <1>s, <2>1, ArriveTypes
  <2> QED BY <1>0, <2>1, <2>2, <2>3, RunningIInv
<1>7. CASE Exit
  <2>1. Len(source) \in Nat
    BY DEF IInv, TypeOK
  <2>2. /\ pc' \in 1..Len(source) + 1 /\ UNCHANGED <<env, memory, bound>>
        /\ phase' = "done"
    BY <1>7, <2>1 DEF Exit, state
  <2> QED BY <1>0, <2>2, RunningIInv
<1> QED BY <1>1, <1>2, <1>3, <1>4, <1>5, <1>6, <1>7 DEF RunSteps

-----------------------------------------------------------------------------
(* The copies.                                                             *)

(* Arriving at a scope's first step loads the copies taken before it; the  *)
(* copies taken before other scopes must hold already.                     *)
LEMMA ArriveLoaded ==
  ASSUME IInv, Loaded, phase = "running", UNCHANGED program, NEW i, Arrive(i),
         \A g \in DOMAIN home :
           home[g] # 0 /\ i \in Span(home[g]) /\ i # home[g] =>
             pc \in Span(home[g]) /\ SourceBound(g)' = SourceBound(g)
  PROVE  Loaded'
<1> SUFFICES ASSUME NEW g \in DOMAIN home, home[g] # 0, i \in Span(home[g])
             PROVE  bound'[g] = SourceBound(g)'
  BY DEF Loaded, Arrive, program, Span
<1>1. DOMAIN bound = DOMAIN home
  BY DEF IInv, TypeOK
<1>2. CASE i = home[g]
  BY <1>1, <1>2 DEF Arrive, SourceBound, program
<1>3. CASE i # home[g]
  <2>1. bound[g] = SourceBound(g)
    BY <1>3 DEF Loaded
  <2> QED BY <1>1, <1>3, <2>1 DEF Arrive
<1> QED BY <1>2, <1>3

(* The numbers of a hoisted bound's scope.                                 *)
LEMMA HomeSpan ==
  ASSUME IInv, phase = "running", NEW g \in DOMAIN home, home[g] # 0
  PROVE  LET a == home[g]
         IN /\ a \in DOMAIN ends /\ a \in 1..Len(source) /\ ends[a] \in 1..Len(source)
            /\ a < ends[a] /\ Opens(a) /\ Closes(ends[a]) /\ Len(source) \in Nat
            /\ DOMAIN source = 1..Len(source)
            /\ g \in DOMAIN source
            /\ Span(a) = a..ends[a]
            /\ \A i \in a + 1..ends[a] - 1 :
                 /\ source[i].op # "store"
                 /\ source[i].op = "assign" => source[i].name # source[g].name
<1> USE DEF IInv
<1>1. home \in Homes
  BY DEF Hoisted
<1>2. /\ g \in Guards /\ home[g] \in DOMAIN ends
      /\ \A i \in Inside(home[g]) : /\ source[i].op # "store"
                                    /\ source[i].op = "assign" => source[i].name # source[g].name
  BY <1>1, HomeIsInvariant
<1>3. Len(source) \in Nat /\ DOMAIN source = 1..Len(source)
  BY DEF TypeOK
<1>4. /\ home[g] \in 1..Len(source) /\ ends[home[g]] \in 1..Len(source)
      /\ home[g] < ends[home[g]] /\ Opens(home[g]) /\ Closes(ends[home[g]])
  BY <1>2, <1>3 DEF ClosedNest
<1>5. \A i \in home[g] + 1..ends[home[g]] - 1 :
        /\ source[i].op # "store"
        /\ source[i].op = "assign" => source[i].name # source[g].name
  <2> SUFFICES ASSUME NEW i \in home[g] + 1..ends[home[g]] - 1
               PROVE  /\ source[i].op # "store"
                      /\ source[i].op = "assign" => source[i].name # source[g].name
    OBVIOUS
  <2>1. i \in Inside(home[g])
    BY <1>3, <1>4 DEF Inside
  <2> QED BY <1>2, <2>1
<1>6. g \in DOMAIN source
  BY <1>2 DEF Guards
<1>7. Span(home[g]) = home[g]..ends[home[g]]
  BY DEF Span
<1> HIDE DEF IInv
<1> QED BY <1>2, <1>3, <1>4, <1>5, <1>6, <1>7

(* A step on to the next one: within a bound's scope it came from there,   *)
(* and what it changed is not the bound.                                   *)
LEMMA OnLoaded ==
  ASSUME IInv, Loaded, Attached = {}, phase = "running", UNCHANGED program,
         pc \in DOMAIN source, Arrive(After(pc)),
         At("store") \/ UNCHANGED memory,
         \/ UNCHANGED env
         \/ /\ At("assign") \/ At("afstore")
            /\ \E v \in Value : env' = [env EXCEPT ![Here.name] = v]
  PROVE  Loaded'
<1> SUFFICES ASSUME NEW g \in DOMAIN home, home[g] # 0,
                    After(pc) \in Span(home[g]), After(pc) # home[g]
             PROVE  pc \in Span(home[g]) /\ SourceBound(g)' = SourceBound(g)
  BY ArriveLoaded
<1> DEFINE a == home[g]
<1>1. /\ a \in 1..Len(source) /\ ends[a] \in 1..Len(source) /\ a < ends[a]
      /\ Opens(a) /\ Span(a) = a..ends[a] /\ Len(source) \in Nat
      /\ DOMAIN source = 1..Len(source)
      /\ \A i \in a + 1..ends[a] - 1 :
           /\ source[i].op # "store"
           /\ source[i].op = "assign" => source[i].name # source[g].name
  BY HomeSpan
<1>2. pc \in 1..Len(source) /\ After(pc) = pc + 1
  BY <1>1 DEF After
<1> HIDE DEF a
<1>3. pc \in a..ends[a] - 1 /\ pc \in Span(a)
  BY <1>1, <1>2 DEF a
<1>4. ~At("store") /\ (At("assign") => Here.name # source[g].name)
  BY <1>1, <1>3 DEF At, Here, Opens
<1>5. ~At("afstore")
  BY DEF At, IInv, Named
<1>6. UNCHANGED <<memory, source>>
  BY <1>4 DEF program
<1>7. env'[source[g].name] = env[source[g].name]
  <2>1. CASE UNCHANGED env
    BY <2>1
  <2>2. CASE At("assign") /\ \E v \in Value : env' = [env EXCEPT ![Here.name] = v]
    <3>1. Here.name # source[g].name
      BY <2>2, <1>4
    <3>2. source[g].name \in Name /\ env \in [Name -> Value]
      BY DEF IInv, TypeOK, Named, Guards
    <3> QED BY <2>2, <3>1, <3>2
  <2> QED BY <1>5, <2>1, <2>2
<1> QED BY <1>3, <1>6, <1>7 DEF SourceBound, a

(* `leave` past the end of a scope around it: a bound's scope it lands in  *)
(* is one around that scope too.                                           *)
LEMMA LeaveLoaded ==
  ASSUME IInv, Loaded, phase = "running", UNCHANGED program, UNCHANGED state,
         At("loop_exit"), Arrive(After(ends[Here.scope]))
  PROVE  Loaded'
<1> DEFINE s == Here.scope
<1> SUFFICES ASSUME NEW g \in DOMAIN home, home[g] # 0,
                    After(ends[s]) \in Span(home[g]), After(ends[s]) # home[g]
             PROVE  pc \in Span(home[g]) /\ SourceBound(g)' = SourceBound(g)
  BY ArriveLoaded
<1> DEFINE a == home[g]
<1>1. /\ a \in DOMAIN ends /\ a \in 1..Len(source) /\ ends[a] \in 1..Len(source)
      /\ a < ends[a] /\ Opens(a) /\ Span(a) = a..ends[a]
  BY HomeSpan
<1>2. pc \in DOMAIN source
  BY DEF At
<1>3. /\ Len(source) \in Nat /\ pc \in 1..Len(source)
      /\ s \in DOMAIN ends /\ s \in 1..Len(source) /\ ends[s] \in 1..Len(source)
      /\ s < pc /\ pc < ends[s]
  BY <1>2, Landing
<1>4. Closes(ends[s]) /\ ends[s] # a
  BY <1>1, <1>3 DEF IInv, ClosedNest, Opens, Closes
<1>5. \A b, c \in DOMAIN ends : b < c /\ c < ends[b] => ends[c] < ends[b]
  BY DEF IInv, ClosedNest
<1> HIDE DEF a, s
<1>6. a < ends[s] /\ ends[s] < ends[a]
  BY <1>1, <1>3, <1>4 DEF After, a, s
<1>7. a < s
  BY <1>1, <1>3, <1>5, <1>6
<1>8. pc \in Span(a)
  BY <1>1, <1>3, <1>6, <1>7
<1> QED BY <1>8 DEF SourceBound, state, program, a

(* `repeat` to the start of a scope around it, past that scope's loads.    *)
LEMMA RepeatLoaded ==
  ASSUME IInv, Loaded, phase = "running", UNCHANGED program, UNCHANGED state,
         At("loop_again") \/ At("back"), Repeat(Here.scope)
  PROVE  Loaded'
<1> DEFINE s == Here.scope
<1> SUFFICES ASSUME NEW g \in DOMAIN home, home[g] # 0, s \in Span(home[g])
             PROVE  bound[g] = SourceBound(g)'
  BY DEF Loaded, Repeat, program, Span
<1> DEFINE a == home[g]
<1>1. /\ a \in DOMAIN ends /\ a \in 1..Len(source) /\ ends[a] \in 1..Len(source)
      /\ a < ends[a] /\ Closes(ends[a]) /\ Span(a) = a..ends[a]
  BY HomeSpan
<1>2. pc \in DOMAIN source
  BY DEF At
<1>3. /\ Len(source) \in Nat /\ pc \in 1..Len(source)
      /\ s \in DOMAIN ends /\ s \in 1..Len(source) /\ ends[s] \in 1..Len(source)
      /\ s < pc /\ pc <= ends[s]
  BY <1>2, Landing
<1>4. s # ends[a]
  BY <1>1, <1>3 DEF IInv, ClosedNest, Opens, Closes
<1>5. \A b, c \in DOMAIN ends : b < c /\ c < ends[b] => ends[c] < ends[b]
  BY DEF IInv, ClosedNest
<1> HIDE DEF a, s
<1>6. a <= s /\ s < ends[a]
  BY <1>1, <1>3, <1>4 DEF a, s
<1>7. ends[s] <= ends[a]
  BY <1>1, <1>3, <1>5, <1>6
<1>8. pc \in Span(a)
  BY <1>1, <1>3, <1>6, <1>7
<1> QED BY <1>8 DEF Loaded, SourceBound, state, program, a

LEMMA RunLoaded == IInv /\ Loaded /\ Attached = {} /\ RunSteps => Loaded'
<1> SUFFICES ASSUME IInv, Loaded, Attached = {}, RunSteps PROVE Loaded'
  OBVIOUS
<1>0. phase = "running" /\ UNCHANGED program
  BY DEF RunSteps, PassMark, GoBack, LeaveScope, SetName, StoreCell, Check, Exit, At
<1>1. CASE PassMark
  BY <1>0, <1>1, OnLoaded DEF PassMark, At, state
<1>2. CASE GoBack
  <2>1. /\ At("loop_again") \/ At("back")
        /\ pc \in DOMAIN source
        /\ UNCHANGED state /\ UNCHANGED <<env, memory>>
    BY <1>2 DEF GoBack, At, state
  <2>2. CASE Repeat(Here.scope)
    BY <1>0, <2>1, <2>2, RepeatLoaded DEF At
  <2>3. CASE Arrive(After(pc))
    BY <1>0, <2>1, <2>3, OnLoaded DEF At
  <2> QED BY <1>2, <2>2, <2>3 DEF GoBack
<1>3. CASE LeaveScope
  <2>1. /\ At("loop_exit") /\ pc \in DOMAIN source
        /\ UNCHANGED state /\ UNCHANGED <<env, memory>>
    BY <1>3 DEF LeaveScope, At, state
  <2>2. CASE Arrive(After(ends[Here.scope]))
    BY <1>0, <2>1, <2>2, LeaveLoaded
  <2>3. CASE Arrive(After(pc))
    BY <1>0, <2>1, <2>3, OnLoaded
  <2> QED BY <1>3, <2>2, <2>3 DEF LeaveScope
<1>4. CASE SetName
  BY <1>0, <1>4, OnLoaded DEF SetName, At
<1>5. CASE StoreCell
  BY <1>0, <1>5, OnLoaded DEF StoreCell, At
<1>6. CASE Check
  <2>1. CASE Arrive(After(pc)) /\ UNCHANGED phase
    BY <1>0, <1>6, <2>1, OnLoaded DEF Check, At, state
  <2>2. CASE phase' = "failed"
    BY <2>2 DEF Loaded
  <2> QED BY <1>6, <2>1, <2>2 DEF Check
<1>7. CASE Exit
  BY <1>7 DEF Exit, Loaded
<1> QED BY <1>1, <1>2, <1>3, <1>4, <1>5, <1>6, <1>7 DEF RunSteps

-----------------------------------------------------------------------------
(* The theorems.                                                           *)

(* Every step that writes keeps the program well nested.                   *)
LEMMA WritingIInv == IInv /\ WriteSteps => IInv' /\ Loaded'
<1> SUFFICES ASSUME IInv, WriteSteps PROVE IInv' /\ Loaded'
  OBVIOUS
<1>0. Loaded'
  BY DEF WriteSteps, OpenScope, Jump, Assignment, Ensure, CloseScope, Write, Writing, Loaded
<1>1. CASE OpenScope
  BY <1>0, <1>1, OpenIInv
<1>2. CASE CloseScope
  BY <1>0, <1>2, CloseIInv
<1>3. CASE Jump
  <2>1. PICK op \in {"loop_exit", "loop_again"}, k \in DOMAIN open,
             name \in Name \cup {Always} : Write(Step(op, open[k], name))
    BY <1>3 DEF Jump
  <2>2. open[k] \in Nat
    BY DEF IInv, TypeOK, OpenNest
  <2>3. Step(op, open[k], name) \in Steps
    BY <2>2 DEF Step, Steps, Ops
  <2>4. Step(op, open[k], name).op = op /\ Step(op, open[k], name).scope = open[k]
    BY DEF Step
  <2> QED BY <1>0, <1>3, <2>1, <2>3, <2>4, WriteIInv DEF Jump
<1>4. CASE Assignment
  <2>1. PICK name \in Name :
          \/ Write(Step(IF name \in Attached THEN "afstore" ELSE "assign", 0, name))
          \/ Write(Step("store", 0, name))
    BY <1>4 DEF Assignment
  <2>2. \A op \in {"afstore", "assign", "store"} :
          /\ Step(op, 0, name) \in Steps
          /\ Step(op, 0, name).op = op /\ Step(op, 0, name).name = name
    BY DEF Step, Steps, Ops
  <2>3. CASE name \in Attached /\ Write(Step("afstore", 0, name))
    BY <1>0, <1>4, <2>2, <2>3, WriteIInv DEF Assignment
  <2>4. CASE Write(Step("assign", 0, name))
    BY <1>0, <1>4, <2>2, <2>4, WriteIInv DEF Assignment
  <2>5. CASE Write(Step("store", 0, name))
    BY <1>0, <1>4, <2>2, <2>5, WriteIInv DEF Assignment
  <2> QED BY <2>1, <2>3, <2>4, <2>5
<1>5. CASE Ensure
  <2>1. PICK name \in Name : Write(Step("guard", 0, name))
    BY <1>5 DEF Ensure
  <2>2. /\ Step("guard", 0, name) \in Steps
        /\ Step("guard", 0, name).op = "guard" /\ Step("guard", 0, name).name = name
    BY DEF Step, Steps, Ops
  <2> QED BY <1>0, <1>5, <2>1, <2>2, WriteIInv DEF Ensure
<1> QED BY <1>0, <1>1, <1>2, <1>3, <1>4, <1>5 DEF WriteSteps

LEMMA Stuttering == UNCHANGED vars => IInv' = IInv /\ Loaded' = Loaded
<1> SUFFICES ASSUME UNCHANGED vars PROVE IInv' = IInv /\ Loaded' = Loaded
  OBVIOUS
<1> USE DEF vars, program, state
<1>1. Homes' = Homes /\ Guards' = Guards
  BY HomesUnchanged DEF Guards
<1>2. TypeOK' = TypeOK /\ OpenNest' = OpenNest /\ ClosedNest' = ClosedNest
  BY <1>1 DEF TypeOK, OpenNest, ClosedNest, Opens, Closes
<1>3. JumpsOut' = JumpsOut /\ Named' = Named /\ Hoisted' = Hoisted
  BY <1>1 DEF JumpsOut, Named, Hoisted, Jumps, Closes
<1>4. Loaded' = Loaded
  BY DEF Loaded, SourceBound, Span
<1> QED BY <1>2, <1>3, <1>4 DEF IInv

(* Whatever the program, the run stays on its steps, every bound is placed *)
(* before a scope it has, and every copy is a value.                       *)
THEOREM HoistTypes == Spec => []TypeOK
<1>1. Init => IInv
  BY InitIInv
<1>2. IInv /\ [Next]_vars => IInv'
  BY WritingIInv, HoistIInv, RunIInv, Stuttering DEF Next
<1>3. IInv => TypeOK
  BY DEF IInv
<1> QED BY <1>1, <1>2, <1>3, PTL DEF Spec

(* In a program that attaches no field, every hoisted guard makes the      *)
(* check its line asks for, whatever the nesting, the jumps, the values    *)
(* and the number of steps.                                                *)
THEOREM ChecksAreTheSame == ASSUME Attached = {} PROVE Spec => []SameCheck
<1>1. Init => IInv /\ Loaded
  BY InitIInv DEF Init, Loaded
<1>2. IInv /\ Loaded /\ [Next]_vars => IInv' /\ Loaded'
  BY WritingIInv, HoistIInv, RunIInv, RunLoaded, Stuttering DEF Next
<1>3. IInv /\ Loaded => SameCheck
  <2> SUFFICES ASSUME IInv, Loaded, At("guard"), pc \in DOMAIN home, home[pc] # 0
               PROVE  bound[pc] = SourceBound(pc)
    <3>1. ASSUME IInv, At("guard")
          PROVE  pc \in DOMAIN home
      BY <3>1 DEF IInv, Hoisted, Homes, Guards, At
    <3> QED BY <3>1 DEF SameCheck, EmittedBound
  <2>1. home \in Homes
    BY DEF IInv, Hoisted, At
  <2>2. pc \in Inside(home[pc]) /\ home[pc] \in DOMAIN ends
    BY <2>1, HomeIsInvariant
  <2>3. pc \in Span(home[pc])
    BY <2>2 DEF Inside, Span, IInv, TypeOK, ClosedNest
  <2> QED BY <2>3 DEF Loaded, At
<1> QED BY <1>1, <1>2, <1>3, PTL DEF Spec
=============================================================================
