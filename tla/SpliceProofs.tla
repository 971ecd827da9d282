---------------------------- MODULE SpliceProofs ----------------------------
(***************************************************************************)
(* Splicing keeps jumps at home and names in their place, and the program  *)
(* it makes keeps the calls' promises, for every set of templates, their   *)
(* bodies whatever they are, every program and every cap.                  *)
(***************************************************************************)
EXTENDS Splice, SequenceTheorems, FiniteSetTheorems, TLAPS

\* What a step of the flat program may be.
Do == StepsOver(Port \cup Local) \cup StepsOver(Var)
        \cup {[op |-> "enter"], [op |-> "end"]}
        \cup {[op |-> "reset", target |-> s] : s \in Local}

\* The scopes there may be.
Scopes == {NoScope} \cup ((Template \cup {Program}) \X Nat)

FlatSteps == [splice : Nat, do : Do, scope : Scopes]

\* The symbols a splice knows.
Own(k) == IF k = 0 THEN Var ELSE Port \cup Local

Marking == {"enter", "end"}

\* What a step says is about its splice: its symbols, its scope.
Fits(st) ==
  /\ st.do.op = "assign" => st.do.target \in Own(st.splice)
  /\ st.do.op \in Jumps \cup {"assign"} => st.do.read \in Own(st.splice)
  /\ st.do.op = "reset" => st.do.target \in Own(st.splice)
  /\ st.do.op = "call" => st.do.to \in Template /\ st.do.conns \in [Port -> Own(st.splice)]
  /\ st.do.op \in Marking => st.splice # 0 /\ st.scope[2] = st.splice
  /\ st.do.op \in Jumps => st.scope = <<Program, 0>> \/ st.scope \in Template \X {st.splice}

\* Every splice so far has its names and cells, and they have values.
Made ==
  /\ \E n \in Nat : DOMAIN made = 0..n
  /\ DOMAIN promise = DOMAIN env
  /\ \A k \in DOMAIN made :
       /\ made[k].names \in [Own(k) -> DOMAIN env]
       /\ made[k].cells \in [Own(k) -> DOMAIN env]
       /\ k # 0 => made[k].given \in [Port -> DOMAIN env]
  /\ env \in [DOMAIN env -> {0, 1}] /\ promise \in [DOMAIN env -> {0, 1}]

\* A sequence of steps of splices there are.
Sound(w) == /\ w \in Seq(FlatSteps)
            /\ \A i \in 1..Len(w) : w[i].splice \in DOMAIN made /\ Fits(w[i])

\* The marks of a scope, and a jump that stands between the two of its own.
Marks(w, scope) == {j \in 1..Len(w) : w[j].do.op \in Marking /\ w[j].scope = scope}

Between(w, i) ==
  \E first, last \in 1..Len(w) : /\ Marks(w, w[i].scope) = {first, last}
                                 /\ first < i /\ i < last
                                 /\ w[first].do.op = "enter"
                                 /\ w[first].splice = w[i].splice
                                 /\ w[last].do.op = "end"

Home(w) == \A i \in 1..Len(w) : w[i].do.op \in Jumps /\ w[i].scope # <<Program, 0>> => Between(w, i)

\* The program as far as the pass under way has come, and as it was.
whole == steps \o rest

\* Where the splicer is.
Passing ==
  /\ body \in Bodies
  /\ changed \in BOOLEAN
  /\ passes \in 0..Cap
  /\ phase \in {"splicing", "refused", "recursive", "running", "done"}
  /\ phase = "splicing" => passes < Cap
  /\ phase # "running" \/ rest = <<>>
  /\ phase = "running" => pc \in 1..Len(steps) + 1
  /\ phase = "running" \/ ~changed => \A i \in 1..Len(steps) : steps[i].do.op # "call"

SpliceInv == Passing /\ Made /\ Sound(steps) /\ Sound(rest) /\ Home(whole)

-----------------------------------------------------------------------------
(* What a step is.                                                         *)

LEMMA StepShape ==
  ASSUME NEW names, NEW s \in StepsOver(names)
  PROVE  /\ s.op \in {"assign", "leave", "repeat", "call"}
         /\ s.op = "assign" => s.target \in names /\ s.read \in names
         /\ s.op \in Jumps => s.read \in names /\ s.to \in Template \cup {Program}
         /\ s.op = "call" => s.to \in Template /\ s.conns \in [Port -> names]
<1>1. CASE s \in {Assign(target, read) : target \in names, read \in names}
  BY <1>1 DEF Assign, Jumps
<1>2. CASE s \in {Leave(to, read) : to \in Template \cup {Program}, read \in names}
  BY <1>2 DEF Leave, Jumps
<1>3. CASE s \in {Repeat(to, read) : to \in Template \cup {Program}, read \in names}
  BY <1>3 DEF Repeat, Jumps
<1>4. CASE s \in {Call(to, conns) : to \in Template, conns \in [Port -> names]}
  BY <1>4 DEF Call, Jumps
<1> QED
  BY <1>1, <1>2, <1>3, <1>4 DEF StepsOver

\* What two sequences after one another hold.
LEMMA Joined ==
  ASSUME NEW S, NEW s \in Seq(S), NEW t \in Seq(S)
  PROVE  /\ s \o t \in Seq(S)
         /\ Len(s \o t) = Len(s) + Len(t)
         /\ \A i \in 1..Len(s) : (s \o t)[i] = s[i]
         /\ \A i \in 1..Len(t) : (s \o t)[Len(s) + i] = t[i]
<1>1. Len(s) \in Nat /\ Len(t) \in Nat
  OBVIOUS
<1>2. /\ s \o t \in Seq(S) /\ Len(s \o t) = Len(s) + Len(t)
      /\ \A i \in 1 .. Len(s) + Len(t) : (s \o t)[i] = IF i <= Len(s) THEN s[i] ELSE t[i - Len(s)]
  BY ConcatProperties
<1>3. ASSUME NEW i \in 1..Len(s) PROVE (s \o t)[i] = s[i]
  BY <1>1, <1>2
<1>4. ASSUME NEW i \in 1..Len(t) PROVE (s \o t)[Len(s) + i] = t[i]
  <2>1. Len(s) + i \in 1..Len(s) + Len(t) /\ ~(Len(s) + i <= Len(s)) /\ Len(s) + i - Len(s) = i
    BY <1>1
  <2> QED
    BY <1>2, <2>1
<1> QED
  BY <1>2, <1>3, <1>4

\* A sequence between a first and a last element, in two parts.
Frames(b, S, first, r, o, last) ==
  /\ b \in Seq(S)
  /\ Len(b) = 2 + Len(r) + Len(o)
  /\ b[1] = first
  /\ \A i \in 1..Len(r) : b[1 + i] = r[i]
  /\ \A i \in 1..Len(o) : b[1 + Len(r) + i] = o[i]
  /\ b[2 + Len(r) + Len(o)] = last

\* Two sequences between two elements are such a sequence.
LEMMA Framed ==
  ASSUME NEW S, NEW first \in S, NEW last \in S, NEW r \in Seq(S), NEW o \in Seq(S)
  PROVE  Frames(<<first>> \o r \o o \o <<last>>, S, first, r, o, last)
<1>1. PICK e : e = <<first>>
  OBVIOUS
<1>2. PICK f : f = <<last>>
  OBVIOUS
<1>3. e \in Seq(S) /\ Len(e) = 1 /\ e[1] = first
  BY <1>1
<1>4. f \in Seq(S) /\ Len(f) = 1 /\ f[1] = last
  BY <1>2
<1>5. PICK u : u = e \o r
  OBVIOUS
<1>6. PICK v : v = u \o o
  OBVIOUS
<1>7. PICK b : b = v \o f
  OBVIOUS
<1>8. Len(r) \in Nat /\ Len(o) \in Nat
  OBVIOUS
<1>9. /\ u \in Seq(S) /\ Len(u) = 1 + Len(r)
      /\ u[1] = first /\ \A i \in 1..Len(r) : u[1 + i] = r[i]
  <2>1. /\ u \in Seq(S) /\ Len(u) = Len(e) + Len(r)
        /\ \A i \in 1..Len(e) : u[i] = e[i]
        /\ \A i \in 1..Len(r) : u[Len(e) + i] = r[i]
    <3>1. e \in Seq(S) /\ r \in Seq(S)
      BY <1>3
    <3>2. /\ e \o r \in Seq(S) /\ Len(e \o r) = Len(e) + Len(r)
          /\ \A i \in 1..Len(e) : (e \o r)[i] = e[i]
          /\ \A i \in 1..Len(r) : (e \o r)[Len(e) + i] = r[i]
      BY <3>1, Joined
    <3> QED
      BY <1>5, <3>2, Zenon
  <2> QED
    BY <1>3, <2>1
<1>10. /\ v \in Seq(S) /\ Len(v) = 1 + Len(r) + Len(o)
       /\ \A i \in 1..1 + Len(r) : v[i] = u[i]
       /\ \A i \in 1..Len(o) : v[1 + Len(r) + i] = o[i]
  <2>1. /\ v \in Seq(S) /\ Len(v) = Len(u) + Len(o)
        /\ \A i \in 1..Len(u) : v[i] = u[i]
        /\ \A i \in 1..Len(o) : v[Len(u) + i] = o[i]
    <3>1. u \in Seq(S) /\ o \in Seq(S)
      BY <1>9
    <3>2. /\ u \o o \in Seq(S) /\ Len(u \o o) = Len(u) + Len(o)
          /\ \A i \in 1..Len(u) : (u \o o)[i] = u[i]
          /\ \A i \in 1..Len(o) : (u \o o)[Len(u) + i] = o[i]
      BY <3>1, Joined
    <3> QED
      BY <1>6, <3>2, Zenon
  <2> QED
    BY <1>9, <2>1
<1>11. /\ b \in Seq(S) /\ Len(b) = 2 + Len(r) + Len(o)
       /\ \A i \in 1..1 + Len(r) + Len(o) : b[i] = v[i]
       /\ b[2 + Len(r) + Len(o)] = last
  <2>1. /\ b \in Seq(S) /\ Len(b) = Len(v) + Len(f)
        /\ \A i \in 1..Len(v) : b[i] = v[i]
        /\ \A i \in 1..Len(f) : b[Len(v) + i] = f[i]
    <3>1. v \in Seq(S) /\ f \in Seq(S)
      BY <1>4, <1>10
    <3>2. /\ v \o f \in Seq(S) /\ Len(v \o f) = Len(v) + Len(f)
          /\ \A i \in 1..Len(v) : (v \o f)[i] = v[i]
          /\ \A i \in 1..Len(f) : (v \o f)[Len(v) + i] = f[i]
      BY <3>1, Joined
    <3> QED
      BY <1>7, <3>2, Zenon
  <2>2. 1 \in 1..Len(f) /\ Len(v) + 1 = 2 + Len(r) + Len(o)
    BY <1>4, <1>8, <1>10
  <2>3. b[Len(v) + 1] = last
    BY <1>4, <2>1, <2>2
  <2> QED
    BY <1>4, <1>8, <1>10, <2>1, <2>2, <2>3
<1>12. b[1] = first /\ \A i \in 1..Len(r) : b[1 + i] = r[i]
  BY <1>8, <1>9, <1>10, <1>11
<1>13. \A i \in 1..Len(o) : b[1 + Len(r) + i] = o[i]
  BY <1>8, <1>10, <1>11
<1>14. b = <<first>> \o r \o o \o <<last>>
  BY <1>1, <1>2, <1>5, <1>6, <1>7
<1>15. Frames(b, S, first, r, o, last)
  BY <1>11, <1>12, <1>13 DEF Frames
<1> QED
  BY <1>14, <1>15

\* The locals have an order.
LEMMA LocalsOrdered ==
  /\ LocalsInOrder \in [1..Cardinality(Local) -> Local] /\ Cardinality(Local) \in Nat
  /\ \A s \in Local : \E i \in 1..Cardinality(Local) : LocalsInOrder[i] = s
<1> DEFINE c == Cardinality(Local)
<1>1. c \in Nat /\ ExistsBijection(1..c, Local)
  BY SpliceAssumption, FS_CardinalityType
<1> HIDE DEF c
<1>2. PICK q \in Bijection(1..c, Local) : TRUE
  BY <1>1 DEF ExistsBijection
<1>3. q \in [1..c -> Local] /\ \A s \in Local : \E i \in 1..c : q[i] = s
  BY <1>2 DEF Bijection, Surjection
<1>4. DOMAIN q = 1..c
  BY <1>3
<1>5. \E r \in [1..c -> Local] : \A s \in Local : \E i \in DOMAIN r : r[i] = s
  BY <1>3, <1>4
<1>6. /\ LocalsInOrder \in [1..c -> Local]
      /\ \A s \in Local : \E i \in DOMAIN LocalsInOrder : LocalsInOrder[i] = s
  BY <1>5 DEF LocalsInOrder, c
<1>7. DOMAIN LocalsInOrder = 1..c
  BY <1>6
<1> QED
  BY <1>1, <1>6, <1>7 DEF c

\* A step of a body, as a step of the flat program.
LEMMA FlatShape ==
  ASSUME NEW k \in Nat, NEW do \in Do, NEW scope \in Scopes
  PROVE  /\ Flat(k, do, scope) \in FlatSteps
         /\ Flat(k, do, scope).splice = k
         /\ Flat(k, do, scope).do = do
         /\ Flat(k, do, scope).scope = scope
BY DEF Flat, FlatSteps

\* What the steps inside a splice are.
InBlock(st, t, k) ==
  /\ st \in FlatSteps
  /\ st.splice = k
  /\ \/ st.do.op = "reset" /\ st.do.target \in Local
     \/ \E j \in 1..Len(body[t]) : st.do = body[t][j] /\ st.scope = JumpScope(body[t][j], t, k)

\* A splice is its beginning, its locals' first values, the body and its end.
LEMMA BlockParts ==
  ASSUME NEW t \in Template, NEW k \in Nat \ {0}, body[t] \in Seq(StepsOver(Port \cup Local))
  PROVE  LET b == Spliced(t, k)
             c == Cardinality(Local)
         IN  /\ b \in Seq(FlatSteps)
             /\ Len(b) = 2 + c + Len(body[t])
             /\ b[1] = Flat(k, [op |-> "enter"], <<t, k>>)
             /\ \A i \in 1..c : b[1 + i] \in FlatSteps
                                /\ b[1 + i] = Flat(k, [op |-> "reset", target |-> LocalsInOrder[i]], NoScope)
             /\ \A i \in 1..Len(body[t]) :
                  /\ b[1 + c + i] \in FlatSteps
                  /\ b[1 + c + i] = Flat(k, body[t][i], JumpScope(body[t][i], t, k))
             /\ b[2 + c + Len(body[t])] = Flat(k, [op |-> "end"], <<t, k>>)
<1> DEFINE c == Cardinality(Local)
           l == Len(body[t])
           enter == Flat(k, [op |-> "enter"], Scope(t, k))
           end == Flat(k, [op |-> "end"], Scope(t, k))
           resets == [i \in 1..c |-> Flat(k, [op |-> "reset", target |-> LocalsInOrder[i]], NoScope)]
           own == [i \in DOMAIN body[t] |-> Flat(k, body[t][i], JumpScope(body[t][i], t, k))]
<1>1. c \in Nat /\ l \in Nat /\ DOMAIN body[t] = 1..l /\ Scope(t, k) = <<t, k>> /\ <<t, k>> \in Scopes
      /\ NoScope \in Scopes
  BY LocalsOrdered DEF Scope, Scopes
<1>2. enter \in FlatSteps /\ end \in FlatSteps
  <2>1. [op |-> "enter"] \in Do /\ [op |-> "end"] \in Do
    BY DEF Do
  <2>2. Scope(t, k) \in Scopes /\ k \in Nat
    BY <1>1
  <2> QED
    BY <2>1, <2>2, FlatShape, Zenon
<1>3. ASSUME NEW i \in 1..c
      PROVE  /\ resets[i] \in FlatSteps
             /\ resets[i] = Flat(k, [op |-> "reset", target |-> LocalsInOrder[i]], NoScope)
  <2> DEFINE do == [op |-> "reset", target |-> LocalsInOrder[i]]
  <2>1. LocalsInOrder[i] \in Local
    BY LocalsOrdered
  <2>2. do \in Do
    BY <2>1 DEF Do
  <2>3. resets[i] = Flat(k, do, NoScope)
    OBVIOUS
  <2> HIDE DEF do
  <2>4. resets[i] \in FlatSteps
    BY <1>1, <2>2, <2>3, FlatShape
  <2> QED
    BY <2>3, <2>4 DEF do
<1>4. ASSUME NEW i \in 1..l
      PROVE  own[i] \in FlatSteps /\ own[i] = Flat(k, body[t][i], JumpScope(body[t][i], t, k))
  <2> DEFINE do == body[t][i]
             scope == JumpScope(do, t, k)
  <2>1. do \in StepsOver(Port \cup Local)
    BY <1>1, ElementOfSeq
  <2>2. do.op \in Jumps => do.to \in Template \cup {Program}
    BY <2>1, StepShape
  <2>3. do \in Do
    BY <2>1 DEF Do
  <2>4. scope \in Scopes
    BY <2>2 DEF JumpScope, Scope, Scopes
  <2>5. own[i] = Flat(k, do, scope)
    BY <1>1
  <2> HIDE DEF do, scope
  <2>6. own[i] \in FlatSteps
    BY <2>3, <2>4, <2>5, FlatShape
  <2> QED
    BY <2>5, <2>6 DEF do, scope
<1> HIDE DEF enter, end
<1>5. resets \in [1..c -> FlatSteps] /\ own \in [1..l -> FlatSteps]
  BY <1>1, <1>3, <1>4
<1> HIDE DEF c, l, resets, own
<1>6. /\ resets \in Seq(FlatSteps) /\ Len(resets) = c
      /\ own \in Seq(FlatSteps) /\ Len(own) = l
  BY <1>1, <1>5
<1>7. PICK b : b = <<enter>> \o resets \o own \o <<end>>
  OBVIOUS
<1>8. /\ b \in Seq(FlatSteps)
      /\ Len(b) = 2 + Len(resets) + Len(own)
      /\ b[1] = enter
      /\ \A i \in 1..Len(resets) : b[1 + i] = resets[i]
      /\ \A i \in 1..Len(own) : b[1 + Len(resets) + i] = own[i]
      /\ b[2 + Len(resets) + Len(own)] = end
  <2>1. resets \in Seq(FlatSteps) /\ own \in Seq(FlatSteps)
    BY <1>6
  <2>2. Frames(<<enter>> \o resets \o own \o <<end>>, FlatSteps, enter, resets, own, end)
    BY <1>2, <2>1, Framed
  <2>3. Frames(b, FlatSteps, enter, resets, own, end)
    BY <1>7, <2>2
  <2> QED
    BY <2>3 DEF Frames
<1>9. /\ Len(b) = 2 + c + l
      /\ \A i \in 1..c : b[1 + i] = resets[i]
      /\ \A i \in 1..l : b[1 + c + i] = own[i]
      /\ b[2 + c + l] = end
  BY <1>6, <1>8
<1>10. Spliced(t, k) = b
  BY <1>7 DEF Spliced, resets, own, c, enter, end
<1>11. enter = Flat(k, [op |-> "enter"], <<t, k>>) /\ end = Flat(k, [op |-> "end"], <<t, k>>)
  BY <1>1 DEF enter, end
<1>12. ASSUME NEW i \in 1..c
       PROVE  /\ b[1 + i] \in FlatSteps
              /\ b[1 + i] = Flat(k, [op |-> "reset", target |-> LocalsInOrder[i]], NoScope)
  BY <1>3, <1>9
<1>13. ASSUME NEW i \in 1..l
       PROVE  b[1 + c + i] \in FlatSteps /\ b[1 + c + i] = Flat(k, body[t][i], JumpScope(body[t][i], t, k))
  BY <1>4, <1>9
<1> QED
  BY <1>8, <1>9, <1>10, <1>11, <1>12, <1>13 DEF c, l

\* A splice begins and ends with its marks, and has none between.
LEMMA BlockShape ==
  ASSUME NEW t \in Template, NEW k \in Nat \ {0}, body[t] \in Seq(StepsOver(Port \cup Local))
  PROVE  LET b == Spliced(t, k)
         IN  /\ b \in Seq(FlatSteps)
             /\ Len(b) \in Nat /\ Len(b) >= 2
             /\ b[1] = Flat(k, [op |-> "enter"], <<t, k>>)
             /\ b[Len(b)] = Flat(k, [op |-> "end"], <<t, k>>)
             /\ \A i \in 2..Len(b) - 1 : InBlock(b[i], t, k)
<1> DEFINE b == Spliced(t, k)
           c == Cardinality(Local)
           l == Len(body[t])
<1>1. c \in Nat /\ l \in Nat
  BY LocalsOrdered
<1>2. /\ b \in Seq(FlatSteps)
      /\ Len(b) = 2 + c + l
      /\ b[1] = Flat(k, [op |-> "enter"], <<t, k>>)
      /\ \A i \in 1..c : b[1 + i] \in FlatSteps
                         /\ b[1 + i] = Flat(k, [op |-> "reset", target |-> LocalsInOrder[i]], NoScope)
      /\ \A i \in 1..l : /\ b[1 + c + i] \in FlatSteps
                         /\ b[1 + c + i] = Flat(k, body[t][i], JumpScope(body[t][i], t, k))
      /\ b[2 + c + l] = Flat(k, [op |-> "end"], <<t, k>>)
  BY BlockParts
<1> HIDE DEF b, c, l
<1>3. Len(b) \in Nat /\ Len(b) >= 2 /\ b[Len(b)] = Flat(k, [op |-> "end"], <<t, k>>)
  BY <1>1, <1>2
<1>4. ASSUME NEW i \in 2..Len(b) - 1 PROVE InBlock(b[i], t, k)
  <2>1. CASE i <= 1 + c
    <3>1. PICK j \in 1..c : i = 1 + j
      <4>1. i - 1 \in 1..c /\ i = 1 + (i - 1)
        BY <1>1, <1>2, <2>1
      <4> QED
        BY <4>1
    <3>2. b[i] \in FlatSteps /\ b[i] = Flat(k, [op |-> "reset", target |-> LocalsInOrder[j]], NoScope)
      BY <1>2, <3>1
    <3>3. LocalsInOrder[j] \in Local
      BY LocalsOrdered DEF c
    <3> QED
      BY <3>2, <3>3 DEF InBlock, Flat
  <2>2. CASE ~(i <= 1 + c)
    <3>1. PICK j \in 1..l : i = 1 + c + j
      <4>1. i - 1 - c \in 1..l /\ i = 1 + c + (i - 1 - c)
        BY <1>1, <1>2, <2>2
      <4> QED
        BY <4>1
    <3>2. b[i] \in FlatSteps /\ b[i] = Flat(k, body[t][j], JumpScope(body[t][j], t, k))
      BY <1>2, <3>1
    <3>3. b[i].splice = k /\ b[i].do = body[t][j] /\ b[i].scope = JumpScope(body[t][j], t, k)
      BY <3>2 DEF Flat
    <3> QED
      BY <3>2, <3>3 DEF InBlock, l
  <2> QED
    BY <2>1, <2>2
<1> QED
  BY <1>2, <1>3, <1>4 DEF b

\* A splice's steps are the splice's, and its jumps name its own scope or the
\* program's.
LEMMA BlockSound ==
  ASSUME NEW t \in Template, NEW k \in Nat \ {0}, body[t] \in Seq(StepsOver(Port \cup Local)),
         ~Strays(t)
  PROVE  LET b == Spliced(t, k)
         IN  /\ b \in Seq(FlatSteps)
             /\ Len(b) \in Nat /\ Len(b) >= 2
             /\ \A i \in 1..Len(b) : b[i].splice = k /\ Fits(b[i])
             /\ b[1].do.op = "enter" /\ b[1].scope = <<t, k>>
             /\ b[Len(b)].do.op = "end" /\ b[Len(b)].scope = <<t, k>>
             /\ \A i \in 2..Len(b) - 1 :
                  /\ b[i].do.op \notin Marking
                  /\ b[i].do.op \in Jumps => b[i].scope \in {<<Program, 0>>, <<t, k>>}
<1> DEFINE b == Spliced(t, k)
<1>1. /\ b \in Seq(FlatSteps)
      /\ Len(b) \in Nat /\ Len(b) >= 2
      /\ b[1] = Flat(k, [op |-> "enter"], <<t, k>>)
      /\ b[Len(b)] = Flat(k, [op |-> "end"], <<t, k>>)
      /\ \A i \in 2..Len(b) - 1 : InBlock(b[i], t, k)
  BY BlockShape
<1> HIDE DEF b
<1>2. /\ b[1].splice = k /\ b[1].do.op = "enter" /\ b[1].scope = <<t, k>>
      /\ b[Len(b)].splice = k /\ b[Len(b)].do.op = "end" /\ b[Len(b)].scope = <<t, k>>
  BY <1>1 DEF Flat
<1>3. Fits(b[1]) /\ Fits(b[Len(b)])
  BY <1>2 DEF Fits, Jumps, Marking
<1>4. Own(k) = Port \cup Local
  BY DEF Own
<1>5. ASSUME NEW i \in 2..Len(b) - 1
      PROVE  /\ b[i].splice = k /\ Fits(b[i]) /\ b[i].do.op \notin Marking
             /\ b[i].do.op \in Jumps => b[i].scope \in {<<Program, 0>>, <<t, k>>}
  <2> DEFINE st == b[i]
  <2>1. InBlock(st, t, k)
    BY <1>1
  <2> HIDE DEF st
  <2>2. CASE st.do.op = "reset" /\ st.do.target \in Local
    <3>1. st.splice = k
      BY <2>1 DEF InBlock
    <3> QED
      BY <1>4, <2>2, <3>1 DEF Fits, Jumps, Marking, st
  <2>3. CASE \E j \in 1..Len(body[t]) : st.do = body[t][j] /\ st.scope = JumpScope(body[t][j], t, k)
    <3>1. PICK j \in 1..Len(body[t]) : st.do = body[t][j] /\ st.scope = JumpScope(body[t][j], t, k)
      BY <2>3
    <3>2. st.do \in StepsOver(Port \cup Local)
      BY <3>1, ElementOfSeq
    <3>3. /\ st.do.op \in {"assign", "leave", "repeat", "call"}
          /\ st.do.op = "assign" => st.do.target \in Own(k) /\ st.do.read \in Own(k)
          /\ st.do.op \in Jumps => st.do.read \in Own(k)
          /\ st.do.op = "call" => st.do.to \in Template /\ st.do.conns \in [Port -> Own(k)]
      BY <1>4, <3>2, StepShape
    <3>4. st.do.op \in Jumps => st.do.to \in {t, Program}
      <4>1. j \in DOMAIN body[t]
        BY <3>1
      <4> QED
        BY <3>1, <4>1 DEF Strays
    <3>5. st.do.op \in Jumps => st.scope \in {<<Program, 0>>, <<t, k>>}
      BY <3>1, <3>4 DEF JumpScope, Scope
    <3>6. st.splice = k
      BY <2>1 DEF InBlock
    <3>7. st.do.op \notin Marking \cup {"reset"}
      BY <3>3 DEF Marking
    <3>8. st.do.op \in Jumps => st.scope = <<Program, 0>> \/ st.scope \in Template \X {st.splice}
      BY <3>5, <3>6
    <3>9. Fits(st)
      BY <3>3, <3>6, <3>7, <3>8 DEF Fits
    <3> QED
      BY <3>5, <3>6, <3>7, <3>9 DEF st
  <2> QED
    BY <2>1, <2>2, <2>3 DEF InBlock
<1>6. ASSUME NEW i \in 1..Len(b) PROVE b[i].splice = k /\ Fits(b[i])
  <2>1. i = 1 \/ i = Len(b) \/ i \in 2..Len(b) - 1
    BY <1>1
  <2> QED
    BY <1>2, <1>3, <1>5, <2>1
<1> QED
  BY <1>1, <1>2, <1>5, <1>6 DEF b

\* A call in a splice stands in the template's body.
LEMMA BlockCalls ==
  ASSUME NEW t \in Template, NEW k \in Nat \ {0}, body[t] \in Seq(StepsOver(Port \cup Local)),
         NEW i \in 1..Len(Spliced(t, k)), Spliced(t, k)[i].do.op = "call"
  PROVE  \E j \in DOMAIN body[t] : Spliced(t, k)[i].do = body[t][j]
<1> DEFINE b == Spliced(t, k)
<1>1. /\ Len(b) \in Nat
      /\ b[1] = Flat(k, [op |-> "enter"], <<t, k>>)
      /\ b[Len(b)] = Flat(k, [op |-> "end"], <<t, k>>)
      /\ \A j \in 2..Len(b) - 1 : InBlock(b[j], t, k)
  BY BlockShape
<1>2. b[i].do.op = "call" /\ i \in 1..Len(b)
  OBVIOUS
<1> HIDE DEF b
<1>3. i # 1 /\ i # Len(b)
  BY <1>1, <1>2 DEF Flat
<1>4. i \in 2..Len(b) - 1
  BY <1>1, <1>2, <1>3
<1>5. \E j \in 1..Len(body[t]) : b[i].do = body[t][j]
  BY <1>1, <1>2, <1>4 DEF InBlock
<1>6. DOMAIN body[t] = 1..Len(body[t])
  OBVIOUS
<1> QED
  BY <1>5, <1>6 DEF b

-----------------------------------------------------------------------------
(* Putting a splice where its call stood.                                  *)

\* A step goes from what is before the pass to what it has done.
LEMMA Moved ==
  ASSUME NEW S, NEW s \in Seq(S), NEW r \in Seq(S), r # <<>>
  PROVE  /\ Head(r) \in S /\ Tail(r) \in Seq(S)
         /\ Append(s, Head(r)) \in Seq(S)
         /\ Append(s, Head(r)) \o Tail(r) = s \o r
<1>1. /\ Head(r) \in S /\ Tail(r) \in Seq(S) /\ Append(s, Head(r)) \in Seq(S)
      /\ Len(Tail(r)) = Len(r) - 1 /\ Len(Append(s, Head(r))) = Len(s) + 1
      /\ Len(s) \in Nat /\ Len(r) \in Nat /\ Len(r) >= 1
  OBVIOUS
<1>2. PICK u : u = Append(s, Head(r))
  OBVIOUS
<1>3. PICK v : v = Tail(r)
  OBVIOUS
<1>4. /\ u \in Seq(S) /\ Len(u) = Len(s) + 1
      /\ \A i \in 1..Len(s) : u[i] = s[i]
      /\ u[Len(s) + 1] = r[1]
  BY <1>1, <1>2
<1>5. /\ v \in Seq(S) /\ Len(v) = Len(r) - 1
      /\ \A i \in 1..Len(r) - 1 : v[i] = r[i + 1]
  BY <1>1, <1>3
<1>6. /\ u \o v \in Seq(S) /\ Len(u \o v) = Len(u) + Len(v)
      /\ \A i \in 1..Len(u) : (u \o v)[i] = u[i]
      /\ \A i \in 1..Len(v) : (u \o v)[Len(u) + i] = v[i]
  <2>1. u \in Seq(S) /\ v \in Seq(S)
    BY <1>4, <1>5
  <2> QED
    BY <2>1, Joined
<1>7. /\ s \o r \in Seq(S) /\ Len(s \o r) = Len(s) + Len(r)
      /\ \A i \in 1..Len(s) : (s \o r)[i] = s[i]
      /\ \A i \in 1..Len(r) : (s \o r)[Len(s) + i] = r[i]
  BY Joined
<1>8. PICK p : p = u \o v
  OBVIOUS
<1>9. PICK q : q = s \o r
  OBVIOUS
<1>10. p \in Seq(S) /\ q \in Seq(S) /\ Len(p) = Len(s) + Len(r) /\ Len(q) = Len(s) + Len(r)
  <2>1. p \in Seq(S) /\ Len(p) = Len(u) + Len(v)
    BY <1>6, <1>8, Zenon
  <2>2. q \in Seq(S) /\ Len(q) = Len(s) + Len(r)
    BY <1>7, <1>9, Zenon
  <2> QED
    BY <1>1, <1>4, <1>5, <2>1, <2>2
<1>11. ASSUME NEW i \in 1..Len(p) PROVE p[i] = q[i]
  <2>1. CASE i <= Len(s)
    <3>1. i \in 1..Len(s) /\ i \in 1..Len(u)
      BY <1>1, <1>4, <2>1
    <3> QED
      BY <1>4, <1>6, <1>7, <1>8, <1>9, <3>1
  <2>2. CASE i = Len(s) + 1
    <3>1. i \in 1..Len(u) /\ 1 \in 1..Len(r) /\ i = Len(s) + 1
      BY <1>1, <1>4, <2>2
    <3>2. p[i] = r[1] /\ q[i] = r[1]
      BY <1>4, <1>6, <1>7, <1>8, <1>9, <3>1
    <3> QED
      BY <3>2
  <2>3. CASE i > Len(s) + 1
    <3>1. PICK j \in 1..Len(v) : i = Len(u) + j
      <4>1. i - Len(u) \in 1..Len(v) /\ i = Len(u) + (i - Len(u))
        BY <1>1, <1>4, <1>5, <1>10, <2>3
      <4> QED
        BY <4>1
    <3>2. j + 1 \in 1..Len(r) /\ i = Len(s) + (j + 1) /\ j \in 1..Len(r) - 1
      BY <1>1, <1>4, <1>5, <3>1
    <3>3. p[i] = v[j] /\ q[i] = r[j + 1] /\ v[j] = r[j + 1]
      BY <1>5, <1>6, <1>7, <1>8, <1>9, <3>1, <3>2
    <3> QED
      BY <3>3
  <2> QED
    BY <1>1, <1>10, <2>1, <2>2, <2>3
<1>12. p = q
  BY <1>10, <1>11, SeqEqual
<1> QED
  BY <1>1, <1>2, <1>3, <1>8, <1>9, <1>12

\* In v the steps of b have the place of step n + 1 of w.
InPlace(w, v, b, n, c, l) ==
  /\ c >= 1 /\ Len(w) = n + c /\ Len(v) = n + l + c - 1 /\ Len(b) = l
  /\ \A i \in 1..n : v[i] = w[i]
  /\ \A i \in 1..l : v[n + i] = b[i]
  /\ \A i \in 2..c : v[n + l + i - 1] = w[n + i]

\* A sequence in the place of the step the pass is at.
LEMMA Replaced ==
  ASSUME NEW S, NEW s \in Seq(S), NEW r \in Seq(S), NEW b \in Seq(S), r # <<>>
  PROVE  LET w == s \o r
             v == (s \o b) \o Tail(r)
         IN  /\ w \in Seq(S) /\ v \in Seq(S) /\ w[Len(s) + 1] = Head(r)
             /\ InPlace(w, v, b, Len(s), Len(r), Len(b))
<1>1. PICK w : w = s \o r
  OBVIOUS
<1>2. PICK u : u = s \o b
  OBVIOUS
<1>3. PICK x : x = Tail(r)
  OBVIOUS
<1>4. PICK v : v = u \o x
  OBVIOUS
<1>5. Len(s) \in Nat /\ Len(r) \in Nat /\ Len(r) >= 1 /\ Len(b) \in Nat
  OBVIOUS
<1>6. /\ w \in Seq(S) /\ Len(w) = Len(s) + Len(r)
      /\ \A i \in 1..Len(s) : w[i] = s[i]
      /\ \A i \in 1..Len(r) : w[Len(s) + i] = r[i]
  <2>1. /\ s \o r \in Seq(S) /\ Len(s \o r) = Len(s) + Len(r)
        /\ \A i \in 1..Len(s) : (s \o r)[i] = s[i]
        /\ \A i \in 1..Len(r) : (s \o r)[Len(s) + i] = r[i]
    BY Joined
  <2> QED
    BY <1>1, <2>1, Zenon
<1>7. /\ u \in Seq(S) /\ Len(u) = Len(s) + Len(b)
      /\ \A i \in 1..Len(s) : u[i] = s[i]
      /\ \A i \in 1..Len(b) : u[Len(s) + i] = b[i]
  <2>1. /\ s \o b \in Seq(S) /\ Len(s \o b) = Len(s) + Len(b)
        /\ \A i \in 1..Len(s) : (s \o b)[i] = s[i]
        /\ \A i \in 1..Len(b) : (s \o b)[Len(s) + i] = b[i]
    BY Joined
  <2> QED
    BY <1>2, <2>1, Zenon
<1>8. /\ x \in Seq(S) /\ Len(x) = Len(r) - 1
      /\ \A i \in 1..Len(r) - 1 : x[i] = r[i + 1]
  BY <1>3, <1>5
<1>9. /\ v \in Seq(S) /\ Len(v) = Len(u) + Len(x)
      /\ \A i \in 1..Len(u) : v[i] = u[i]
      /\ \A i \in 1..Len(x) : v[Len(u) + i] = x[i]
  <2>1. u \in Seq(S) /\ x \in Seq(S)
    BY <1>7, <1>8
  <2>2. /\ u \o x \in Seq(S) /\ Len(u \o x) = Len(u) + Len(x)
        /\ \A i \in 1..Len(u) : (u \o x)[i] = u[i]
        /\ \A i \in 1..Len(x) : (u \o x)[Len(u) + i] = x[i]
    BY <2>1, Joined
  <2> QED
    BY <1>4, <2>2, Zenon
<1>10. w[Len(s) + 1] = Head(r) /\ Len(v) = Len(s) + Len(b) + Len(r) - 1
  BY <1>5, <1>6, <1>7, <1>8, <1>9
<1>11. ASSUME NEW i \in 1..Len(s) PROVE v[i] = w[i]
  <2>1. i \in 1..Len(u)
    BY <1>5, <1>7
  <2> QED
    BY <1>6, <1>7, <1>9, <2>1
<1>12. ASSUME NEW i \in 1..Len(b) PROVE v[Len(s) + i] = b[i]
  <2>1. Len(s) + i \in 1..Len(u)
    BY <1>5, <1>7
  <2> QED
    BY <1>7, <1>9, <2>1
<1>13. ASSUME NEW i \in 2..Len(r) PROVE v[Len(s) + Len(b) + i - 1] = w[Len(s) + i]
  <2>1. i - 1 \in 1..Len(x) /\ i - 1 \in 1..Len(r) - 1 /\ i \in 1..Len(r)
        /\ Len(s) + Len(b) + i - 1 = Len(u) + (i - 1) /\ (i - 1) + 1 = i
    BY <1>5, <1>7, <1>8
  <2>2. v[Len(u) + (i - 1)] = x[i - 1] /\ x[i - 1] = r[(i - 1) + 1] /\ w[Len(s) + i] = r[i]
    BY <1>6, <1>8, <1>9, <2>1
  <2> QED
    BY <2>1, <2>2
<1>14. v = (s \o b) \o Tail(r)
  BY <1>2, <1>3, <1>4
<1>15. InPlace(w, v, b, Len(s), Len(r), Len(b))
  BY <1>5, <1>6, <1>10, <1>11, <1>12, <1>13 DEF InPlace
<1>16. w \in Seq(S) /\ v \in Seq(S)
  BY <1>6, <1>9
<1> QED
  BY <1>1, <1>10, <1>14, <1>15, <1>16, Zenon

\* Where a step that stays has its place then.
Put(n, l, j) == IF j <= n THEN j ELSE j + l - 1

\* Every place is that of a step that stays or of one of the splice, and the
\* steps keep their order.
Shifted(w, v, b, n, l) ==
  /\ \A j \in 1..Len(w) : j # n + 1 =>
       /\ Put(n, l, j) \in 1..Len(v) /\ v[Put(n, l, j)] = w[j]
       /\ j < n + 1 => Put(n, l, j) < n + 1
       /\ j > n + 1 => Put(n, l, j) > n + l
  /\ \A i \in 1..Len(v) : \/ \E j \in 1..Len(w) : j # n + 1 /\ i = Put(n, l, j)
                          \/ \E j \in 1..l : i = n + j
  /\ \A i, j \in 1..Len(w) : i < j => Put(n, l, i) < Put(n, l, j)
  /\ \A j \in 1..l : n + j \in 1..Len(v) /\ v[n + j] = b[j]

\* A splice in the place of a call shifts what follows it.
LEMMA PutWell ==
  ASSUME NEW w, NEW v, NEW b, NEW n \in Nat, NEW c \in Nat, NEW l \in Nat, l >= 1,
         InPlace(w, v, b, n, c, l)
  PROVE  Shifted(w, v, b, n, l)
<1> USE DEF InPlace
<1>1. ASSUME NEW j \in 1..Len(w), j # n + 1
      PROVE  /\ Put(n, l, j) \in 1..Len(v) /\ v[Put(n, l, j)] = w[j]
             /\ j < n + 1 => Put(n, l, j) < n + 1
             /\ j > n + 1 => Put(n, l, j) > n + l
  <2>1. CASE j <= n
    <3>1. Put(n, l, j) = j /\ j \in 1..n /\ j \in 1..Len(v)
      BY <2>1 DEF Put
    <3> QED
      BY <2>1, <3>1
  <2>2. CASE ~(j <= n)
    <3>1. PICK i \in 2..c : j = n + i
      <4>1. j - n \in 2..c /\ j = n + (j - n)
        BY <1>1, <2>2
      <4> QED
        BY <4>1
    <3>2. Put(n, l, j) = n + l + i - 1
      BY <3>1 DEF Put
    <3>3. n + l + i - 1 \in 1..Len(v) /\ n + l + i - 1 > n + l
      OBVIOUS
    <3>4. v[n + l + i - 1] = w[n + i]
      OBVIOUS
    <3> QED
      BY <2>2, <3>1, <3>2, <3>3, <3>4
  <2> QED
    BY <2>1, <2>2
<1>2. ASSUME NEW i \in 1..Len(v)
      PROVE  \/ \E j \in 1..Len(w) : j # n + 1 /\ i = Put(n, l, j)
             \/ \E j \in 1..l : i = n + j
  <2>1. CASE i <= n
    <3>1. i \in 1..Len(w) /\ i # n + 1 /\ i = Put(n, l, i)
      BY <2>1 DEF Put
    <3> QED
      BY <3>1
  <2>2. CASE i > n /\ i <= n + l
    <3>1. i - n \in 1..l /\ i = n + (i - n)
      BY <2>2
    <3> QED
      BY <3>1
  <2>3. CASE i > n + l
    <3>1. i - l + 1 \in 1..Len(w) /\ i - l + 1 # n + 1 /\ i = Put(n, l, i - l + 1)
      BY <2>3 DEF Put
    <3> QED
      BY <3>1
  <2> QED
    BY <2>1, <2>2, <2>3
<1>3. ASSUME NEW i \in 1..Len(w), NEW j \in 1..Len(w), i < j
      PROVE  Put(n, l, i) < Put(n, l, j)
  <2>1. i \in Nat /\ j \in Nat
    OBVIOUS
  <2> QED
    BY <1>3, <2>1 DEF Put
<1>4. ASSUME NEW j \in 1..l
      PROVE  n + j \in 1..Len(v) /\ v[n + j] = b[j]
  OBVIOUS
<1> QED
  BY <1>1, <1>2, <1>3, <1>4 DEF Shifted

\* The steps of a splice.
Block(b, l, t, k) ==
  /\ l >= 2
  /\ \A i \in 1..l : b[i].splice = k
  /\ b[1].do.op = "enter" /\ b[1].scope = <<t, k>>
  /\ b[l].do.op = "end" /\ b[l].scope = <<t, k>>
  /\ \A i \in 2..l - 1 : /\ b[i].do.op \notin Marking
                         /\ b[i].do.op \in Jumps => b[i].scope \in {<<Program, 0>>, <<t, k>>}

\* Jumps that stood inside their scopes do so when a splice takes the place
\* of a call, and so do the splice's own.
LEMMA HomeKept ==
  ASSUME NEW w \in Seq(FlatSteps), NEW v \in Seq(FlatSteps), NEW b \in Seq(FlatSteps),
         NEW n \in Nat, NEW c \in Nat, NEW l \in Nat, NEW t \in Template, NEW k \in Nat,
         InPlace(w, v, b, n, c, l), w[n + 1].do.op = "call",
         Block(b, l, t, k),
         \A i \in 1..Len(w) : w[i].splice # k /\ Fits(w[i]),
         Home(w)
  PROVE  Home(v)
<1> USE DEF Block
<1> DEFINE Now(j) == Put(n, l, j)
<1>a. l >= 1
  OBVIOUS
<1>0. Shifted(w, v, b, n, l)
  BY <1>a, PutWell
<1>1. ASSUME NEW j \in 1..Len(w), j # n + 1
      PROVE  Now(j) \in 1..Len(v) /\ v[Now(j)] = w[j]
  BY <1>0, <1>1 DEF Shifted
<1>2. ASSUME NEW i \in 1..Len(v)
      PROVE  \/ \E j \in 1..Len(w) : j # n + 1 /\ i = Now(j)
             \/ \E j \in 1..l : i = n + j
  BY <1>0 DEF Shifted
<1>3. ASSUME NEW i \in 1..Len(w), NEW j \in 1..Len(w), i < j
      PROVE  Now(i) < Now(j)
  BY <1>0, <1>3 DEF Shifted
<1> HIDE DEF Now
<1>4. ASSUME NEW j \in 1..l
      PROVE  n + j \in 1..Len(v) /\ v[n + j] = b[j]
  BY <1>0 DEF Shifted
<1>5. 1 \in 1..l /\ l \in 1..l
  OBVIOUS
<1>6. ASSUME NEW i \in 1..Len(v), v[i].do.op \in Jumps, v[i].scope # <<Program, 0>>
      PROVE  Between(v, i)
  <2>1. CASE \E j \in 1..l : i = n + j
    <3>1. PICK j \in 1..l : i = n + j
      BY <2>1
    <3>2. v[i] = b[j]
      BY <1>4, <3>1
    <3>3. j \in 2..l - 1
      <4>1. j # 1
        BY <1>6, <3>2 DEF Jumps
      <4>2. j # l
        BY <1>6, <3>2 DEF Jumps
      <4> QED
        BY <4>1, <4>2
    <3>4. v[i].scope = <<t, k>> /\ v[i].splice = k
      BY <1>6, <3>2, <3>3
    <3> DEFINE first == n + 1
               last == n + l
    <3>5. /\ first \in 1..Len(v) /\ last \in 1..Len(v)
          /\ v[first] = b[1] /\ v[last] = b[l]
          /\ first < i /\ i < last
      BY <1>4, <1>5, <3>1, <3>3
    <3>6. first \in Marks(v, <<t, k>>) /\ last \in Marks(v, <<t, k>>)
      BY <3>5 DEF Marks, Marking
    <3>7. ASSUME NEW x \in Marks(v, <<t, k>>) PROVE x \in {first, last}
      <4>1. x \in 1..Len(v) /\ v[x].do.op \in Marking /\ v[x].scope = <<t, k>>
        BY <3>7 DEF Marks
      <4>2. CASE \E y \in 1..Len(w) : y # n + 1 /\ x = Now(y)
        <5>1. PICK y \in 1..Len(w) : y # n + 1 /\ x = Now(y)
          BY <4>2
        <5>2. v[x] = w[y]
          BY <1>1, <5>1
        <5>3. Fits(w[y]) /\ w[y].splice # k
          OBVIOUS
        <5>4. w[y].scope[2] = w[y].splice
          BY <4>1, <5>2, <5>3 DEF Fits
        <5>5. w[y].scope = <<t, k>>
          BY <4>1, <5>2
        <5> QED
          BY <5>3, <5>4, <5>5
      <4>3. CASE \E y \in 1..l : x = n + y
        <5>1. PICK y \in 1..l : x = n + y
          BY <4>3
        <5>2. v[x] = b[y]
          BY <1>4, <5>1
        <5>3. y \notin 2..l - 1
          BY <4>1, <5>2
        <5> QED
          BY <5>1, <5>3
      <4> QED
        BY <1>2, <4>1, <4>2, <4>3
    <3>8. Marks(v, v[i].scope) = {first, last}
      BY <3>4, <3>6, <3>7
    <3>9. v[first].do.op = "enter" /\ v[first].splice = v[i].splice /\ v[last].do.op = "end"
      BY <1>5, <3>4, <3>5
    <3> HIDE DEF first, last
    <3> QED
      BY <3>5, <3>8, <3>9 DEF Between
  <2>2. CASE \E j \in 1..Len(w) : j # n + 1 /\ i = Now(j)
    <3>1. PICK j \in 1..Len(w) : j # n + 1 /\ i = Now(j)
      BY <2>2
    <3>2. v[i] = w[j]
      BY <1>1, <3>1
    <3>3. Between(w, j)
      BY <1>6, <3>2 DEF Home
    <3>4. PICK f \in 1..Len(w), g \in 1..Len(w) :
                 /\ Marks(w, w[j].scope) = {f, g}
                 /\ f < j /\ j < g
                 /\ w[f].do.op = "enter"
                 /\ w[f].splice = w[j].splice
                 /\ w[g].do.op = "end"
      BY <3>3 DEF Between
    <3>5. f # n + 1 /\ g # n + 1
      BY <3>4
    <3> DEFINE first == Now(f)
               last == Now(g)
    <3>6. /\ first \in 1..Len(v) /\ last \in 1..Len(v)
          /\ v[first] = w[f] /\ v[last] = w[g]
      BY <1>1, <3>4, <3>5
    <3>7. first < i /\ i < last
      BY <1>3, <3>1, <3>4
    <3>8. w[f].do.op \in Marking /\ w[g].do.op \in Marking /\ w[f].scope = w[j].scope
          /\ w[g].scope = w[j].scope
      BY <3>4 DEF Marks
    <3>9. first \in Marks(v, v[i].scope) /\ last \in Marks(v, v[i].scope)
      BY <3>2, <3>6, <3>8 DEF Marks
    <3>10. w[j].scope # <<t, k>>
      <4>1. Fits(w[j]) /\ w[j].splice # k
        OBVIOUS
      <4>2. w[j].scope \in Template \X {w[j].splice}
        BY <1>6, <3>2, <4>1 DEF Fits
      <4> QED
        BY <4>1, <4>2
    <3>11. ASSUME NEW x \in Marks(v, v[i].scope) PROVE x \in {first, last}
      <4>1. x \in 1..Len(v) /\ v[x].do.op \in Marking /\ v[x].scope = w[j].scope
        BY <3>2, <3>11 DEF Marks
      <4>2. CASE \E y \in 1..Len(w) : y # n + 1 /\ x = Now(y)
        <5>1. PICK y \in 1..Len(w) : y # n + 1 /\ x = Now(y)
          BY <4>2
        <5>2. v[x] = w[y]
          BY <1>1, <5>1
        <5>3. y \in Marks(w, w[j].scope)
          BY <4>1, <5>2 DEF Marks
        <5>4. y \in {f, g}
          BY <3>4, <5>3
        <5> QED
          BY <5>1, <5>4
      <4>3. CASE \E y \in 1..l : x = n + y
        <5>1. PICK y \in 1..l : x = n + y
          BY <4>3
        <5>2. v[x] = b[y]
          BY <1>4, <5>1
        <5>3. y \notin 2..l - 1
          BY <4>1, <5>2
        <5>4. y = 1 \/ y = l
          BY <5>3, SMTT(60)
        <5>5. b[y].scope = <<t, k>>
          BY <5>4
        <5> QED
          BY <3>10, <4>1, <5>2, <5>5
      <4> QED
        BY <1>2, <4>1, <4>2, <4>3
    <3>12. Marks(v, v[i].scope) = {first, last}
      BY <3>9, <3>11
    <3>13. v[first].do.op = "enter" /\ v[first].splice = v[i].splice /\ v[last].do.op = "end"
      BY <3>2, <3>4, <3>6
    <3> HIDE DEF first, last
    <3> QED
      BY <3>6, <3>7, <3>12, <3>13 DEF Between
  <2> QED
    BY <1>2, <1>6, <2>1, <2>2
<1> QED
  BY <1>6 DEF Home

-----------------------------------------------------------------------------
(* The invariant.                                                          *)

\* The template's body is made of steps about its symbols.
LEMMA BodyTyped ==
  ASSUME body \in Bodies, NEW t \in Template
  PROVE  body[t] \in Seq(StepsOver(Port \cup Local))
BY SourceAssumption

\* The next splice has a number that none has.
LEMMA NextSplice ==
  ASSUME NEW n \in Nat, NEW ks, ks = 0..n
  PROVE  /\ Cardinality(ks) = n + 1
         /\ Cardinality(ks) \in Nat \ {0} /\ Cardinality(ks) \notin ks
         /\ ks \cup {Cardinality(ks)} = 0..n + 1
<1>1. Cardinality(0..n) = n + 1
  <2>1. Cardinality(0..n) = IF 0 > n THEN 0 ELSE n - 0 + 1
    BY FS_Interval
  <2> QED
    BY <2>1
<1> QED
  BY <1>1

\* The program before its first pass.
LEMMA InitSplice == Init => SpliceInv
<1> SUFFICES ASSUME Init PROVE SpliceInv
  OBVIOUS
<1>1. PICK main \in Mains :
        rest = [i \in DOMAIN main |-> Flat(0, main[i], JumpScope(main[i], Program, 0))]
  BY DEF Init
<1>2. main \in Seq(StepsOver(Var)) /\ \A i \in DOMAIN main : main[i].op \in Jumps => main[i].to = Program
  BY SourceAssumption
<1>3. DOMAIN main = 1..Len(main) /\ Len(main) \in Nat
  BY <1>2
<1>4. ASSUME NEW i \in 1..Len(main)
      PROVE  /\ rest[i] \in FlatSteps /\ rest[i].splice = 0 /\ Fits(rest[i])
             /\ rest[i].do.op \in Jumps => rest[i].scope = <<Program, 0>>
  <2> DEFINE do == main[i]
             scope == JumpScope(do, Program, 0)
  <2>1. do \in StepsOver(Var)
    BY <1>2, ElementOfSeq
  <2>2. /\ do.op \in {"assign", "leave", "repeat", "call"}
        /\ do.op = "assign" => do.target \in Var /\ do.read \in Var
        /\ do.op \in Jumps => do.read \in Var
        /\ do.op = "call" => do.to \in Template /\ do.conns \in [Port -> Var]
    BY <2>1, StepShape
  <2>3. do.op \in Jumps => do.to = Program
    BY <1>2, <1>3
  <2>4. do \in Do
    BY <2>1 DEF Do
  <2>5. scope \in Scopes /\ (do.op \in Jumps => scope = <<Program, 0>>)
    BY <2>3 DEF JumpScope, Scope, Scopes
  <2>6. rest[i] = Flat(0, do, scope)
    BY <1>1, <1>3
  <2> HIDE DEF do, scope
  <2>7. /\ rest[i] \in FlatSteps /\ rest[i].splice = 0 /\ rest[i].do = do /\ rest[i].scope = scope
    BY <2>4, <2>5, <2>6, FlatShape
  <2>8. Own(rest[i].splice) = Var /\ do.op \notin Marking \cup {"reset"}
    BY <2>2, <2>7 DEF Own, Marking
  <2>9. Fits(rest[i])
    BY <2>2, <2>5, <2>7, <2>8 DEF Fits
  <2> QED
    BY <2>5, <2>7, <2>9
<1>5. rest \in Seq(FlatSteps) /\ Len(rest) = Len(main)
  <2>1. rest \in [1..Len(main) -> FlatSteps]
    BY <1>1, <1>3, <1>4
  <2> QED
    BY <1>3, <2>1
<1>6. steps = <<>> /\ Len(steps) = 0 /\ steps \in Seq(FlatSteps)
  BY DEF Init
<1>7. DOMAIN made = {0} /\ DOMAIN made = 0..0
  BY DEF Init
<1>8. Sound(rest) /\ Sound(steps)
  BY <1>4, <1>5, <1>6, <1>7 DEF Sound
<1>9. whole = rest
  BY <1>5, <1>6, ConcatEmptySeq DEF whole
<1>10. Home(whole)
  BY <1>4, <1>5, <1>9 DEF Home
<1>11. Passing
  <2>1. 0 < Cap /\ Cap \in Nat
    <3>1. Cardinality(Template) \in Nat
      BY SpliceAssumption, FS_CardinalityType
    <3> QED
      BY <3>1, SpliceAssumption
  <2>2. 1..Len(steps) = {}
    BY <1>6
  <2>3. body \in Bodies /\ changed \in BOOLEAN /\ passes = 0 /\ phase = "splicing"
    BY DEF Init
  <2>4. passes \in 0..Cap /\ passes < Cap
    BY <2>1, <2>3
  <2> QED
    BY <1>6, <2>2, <2>3, <2>4 DEF Passing
<1>12. Made
  <2> DEFINE names == [v \in Var |-> <<0, v>>]
  <2>1. made[0].names = names /\ made[0].cells = names
    BY DEF Init
  <2>2. env \in [{<<0, v>> : v \in Var} -> {0, 1}] /\ promise = env
    BY DEF Init
  <2>3. DOMAIN env = {<<0, v>> : v \in Var}
    BY <2>2
  <2>4. names \in [Var -> DOMAIN env]
    BY <2>3
  <2>5. Own(0) = Var
    BY DEF Own
  <2> HIDE DEF names
  <2>6. env \in [DOMAIN env -> {0, 1}] /\ promise \in [DOMAIN env -> {0, 1}] /\ DOMAIN promise = DOMAIN env
    BY <2>2, <2>3
  <2> QED
    BY <1>7, <2>1, <2>4, <2>5, <2>6 DEF Made
<1> QED
  BY <1>8, <1>10, <1>11, <1>12 DEF SpliceInv

\* A step that stays where it is.
LEMMA KeepSplice == SpliceInv /\ Keep => SpliceInv'
<1> SUFFICES ASSUME SpliceInv, Keep PROVE SpliceInv'
  OBVIOUS
<1>1. /\ steps \in Seq(FlatSteps) /\ rest \in Seq(FlatSteps) /\ rest # <<>>
      /\ steps' = Append(steps, Head(rest)) /\ rest' = Tail(rest)
      /\ UNCHANGED <<body, changed, passes, made, relayed, phase, pc, env, promise>>
      /\ phase = "splicing" /\ Head(rest).do.op # "call"
  BY DEF SpliceInv, Sound, Keep, state
<1>2. steps' \in Seq(FlatSteps) /\ rest' \in Seq(FlatSteps) /\ steps' \o rest' = steps \o rest
  BY <1>1, Moved
<1>3. Home(whole)'
  <2>1. whole' = whole
    BY <1>2 DEF whole
  <2> QED
    BY <2>1 DEF SpliceInv, Home, Between, Marks
<1>4. /\ Len(steps') = Len(steps) + 1 /\ Len(steps) \in Nat
      /\ \A i \in 1..Len(steps) : steps'[i] = steps[i]
      /\ steps'[Len(steps) + 1] = rest[1]
      /\ Len(rest) \in Nat /\ Len(rest) >= 1 /\ Len(rest') = Len(rest) - 1
      /\ \A i \in 1..Len(rest) - 1 : rest'[i] = rest[i + 1]
      /\ Head(rest) = rest[1]
  BY <1>1
<1>5. ASSUME NEW i \in 1..Len(steps')
      PROVE  /\ steps'[i].splice \in DOMAIN made /\ Fits(steps'[i])
             /\ ~changed => steps'[i].do.op # "call"
  <2>1. CASE i \in 1..Len(steps)
    BY <1>1, <1>4, <2>1 DEF SpliceInv, Sound, Passing
  <2>2. CASE i = Len(steps) + 1
    <3>1. 1 \in 1..Len(rest) /\ steps'[i] = rest[1]
      BY <1>4, <2>2
    <3> QED
      BY <1>1, <1>4, <3>1 DEF SpliceInv, Sound
  <2> QED
    BY <1>4, <2>1, <2>2
<1>6. ASSUME NEW i \in 1..Len(rest') PROVE rest'[i].splice \in DOMAIN made /\ Fits(rest'[i])
  <2>1. i + 1 \in 1..Len(rest) /\ rest'[i] = rest[i + 1]
    BY <1>4, SMTT(60)
  <2> QED
    BY <2>1 DEF SpliceInv, Sound
<1>7. Sound(steps)' /\ Sound(rest)'
  BY <1>1, <1>2, <1>5, <1>6 DEF Sound, Fits, Own
<1>8. Passing'
  BY <1>1, <1>5 DEF SpliceInv, Passing
<1>9. Made'
  BY <1>1 DEF SpliceInv, Made, Own
<1> QED
  BY <1>3, <1>7, <1>8, <1>9 DEF SpliceInv

\* A call that is refused.
LEMMA RefuseSplice == SpliceInv /\ Refuse => SpliceInv'
<1> SUFFICES ASSUME SpliceInv, Refuse PROVE SpliceInv'
  OBVIOUS
<1>1. /\ UNCHANGED <<body, steps, rest, changed, passes, made, relayed, pc, env, promise>>
      /\ phase = "splicing" /\ phase' = "refused"
  BY DEF Refuse, source, state
<1>2. Home(whole)'
  <2>1. whole' = whole
    BY <1>1 DEF whole
  <2> QED
    BY <2>1 DEF SpliceInv, Home, Between, Marks
<1>3. Sound(steps)' /\ Sound(rest)' /\ Made'
  BY <1>1 DEF SpliceInv, Sound, Fits, Own, Made
<1>4. Passing'
  BY <1>1 DEF SpliceInv, Passing
<1> QED
  BY <1>2, <1>3, <1>4 DEF SpliceInv

\* The end of a pass.
LEMMA EndPassSplice == SpliceInv /\ EndPass => SpliceInv'
<1> SUFFICES ASSUME SpliceInv, EndPass PROVE SpliceInv'
  OBVIOUS
<1>1. /\ UNCHANGED <<body, made, relayed, env, promise>>
      /\ phase = "splicing" /\ rest = <<>> /\ passes' = passes + 1
      /\ passes \in 0..Cap /\ passes < Cap /\ Cap \in Nat
      /\ changed \in BOOLEAN
      /\ steps \in Seq(FlatSteps)
  BY SpliceAssumption DEF EndPass, SpliceInv, Passing, Sound
<1>2. Made'
  BY <1>1 DEF SpliceInv, Made, Own
<1>3. passes' \in 0..Cap /\ passes' # Cap => passes' < Cap
  BY <1>1
<1>4. whole = steps
  BY <1>1, ConcatEmptySeq DEF whole
<1>5. CASE UNCHANGED <<steps, rest, changed>> /\ phase' \in {"running", "recursive"}
           /\ (phase' = "running" => ~changed /\ pc' = 1)
  <2>1. Home(whole)'
    <3>1. whole' = whole
      BY <1>5 DEF whole
    <3> QED
      BY <3>1 DEF SpliceInv, Home, Between, Marks
  <2>2. Sound(steps)' /\ Sound(rest)'
    BY <1>1, <1>5 DEF SpliceInv, Sound, Fits, Own
  <2>3. 1 \in 1..Len(steps) + 1
    BY <1>1
  <2>4. passes' \in 0..Cap
    BY <1>1
  <2>5. Passing'
    BY <1>1, <1>5, <2>3, <2>4 DEF SpliceInv, Passing
  <2> QED
    BY <1>2, <2>1, <2>2, <2>5 DEF SpliceInv
<1>6. CASE rest' = steps /\ steps' = <<>> /\ changed' = FALSE /\ UNCHANGED <<phase, pc>> /\ passes' # Cap
  <2>1. <<>> \o steps = steps
    BY <1>1, ConcatEmptySeq
  <2>2. whole' = whole
    BY <1>4, <1>6, <2>1 DEF whole
  <2>3. Home(whole)'
    BY <2>2 DEF SpliceInv, Home, Between, Marks
  <2>4. Len(steps') = 0 /\ steps' \in Seq(FlatSteps)
    BY <1>6
  <2>5. Sound(steps)' /\ Sound(rest)'
    BY <1>1, <1>6, <2>4 DEF SpliceInv, Sound, Fits, Own
  <2>6. passes' \in 0..Cap /\ passes' < Cap
    BY <1>1, <1>6
  <2>7. 1..Len(steps') = {}
    BY <2>4
  <2>8. body' \in Bodies /\ phase' = "splicing"
    BY <1>1, <1>6 DEF SpliceInv, Passing
  <2>9. Passing'
    BY <1>6, <2>6, <2>7, <2>8 DEF Passing
  <2> QED
    BY <1>2, <2>3, <2>5, <2>9 DEF SpliceInv
<1>7. \/ UNCHANGED <<steps, rest, changed>> /\ phase' \in {"running", "recursive"}
         /\ (phase' = "running" => ~changed /\ pc' = 1)
      \/ rest' = steps /\ steps' = <<>> /\ changed' = FALSE /\ UNCHANGED <<phase, pc>> /\ passes' # Cap
  BY DEF EndPass
<1> QED
  BY <1>5, <1>6, <1>7

\* The names a splice adds have values.
LEMMA LocalsHeld ==
  ASSUME NEW held, NEW cells, held \in [cells -> {0, 1}], NEW k
  PROVE  WithLocals(held, k) \in [cells \cup ({k} \X (Port \cup Local)) -> {0, 1}]
BY DEF WithLocals

\* A splice.
LEMMA CallSplice == SpliceInv /\ SpliceCall => SpliceInv'
<1> SUFFICES ASSUME SpliceInv, SpliceCall PROVE SpliceInv'
  OBVIOUS
<1> DEFINE h == Head(rest)
           t == h.do.to
           k == Cardinality(DOMAIN made)
           b == Spliced(t, k)
           n == Len(steps)
           c == Len(rest)
           l == Len(b)
           w == steps \o rest
           v == (steps \o b) \o Tail(rest)
<1>1. /\ phase = "splicing" /\ rest # <<>> /\ h.do.op = "call"
      /\ ~Strays(t)
      /\ made' = [j \in DOMAIN made \cup {k} |->
                    IF j = k THEN [template |-> t, names |-> Renaming(h, k),
                                   cells |-> Cells(h, k), given |-> Given(h)]
                    ELSE made[j]]
      /\ steps' = steps \o b /\ rest' = Tail(rest) /\ changed' = TRUE
      /\ env' = WithLocals(env, k) /\ promise' = WithLocals(promise, k)
      /\ UNCHANGED <<body, passes, phase, pc>>
  BY DEF SpliceCall
<1>2. PICK last \in Nat : DOMAIN made = 0..last
  BY DEF SpliceInv, Made
<1>3. k \in Nat \ {0} /\ k \notin DOMAIN made /\ DOMAIN made \cup {k} = 0..last + 1
  BY <1>2, NextSplice
<1>4. /\ steps \in Seq(FlatSteps) /\ rest \in Seq(FlatSteps)
      /\ \A i \in 1..n : steps[i].splice \in DOMAIN made /\ Fits(steps[i])
      /\ \A i \in 1..c : rest[i].splice \in DOMAIN made /\ Fits(rest[i])
      /\ n \in Nat /\ c \in Nat
  BY DEF SpliceInv, Sound
<1>5. c >= 1 /\ h = rest[1] /\ 1 \in 1..c
  BY <1>1, <1>4
<1>6. /\ h.splice \in DOMAIN made /\ t \in Template
      /\ h.do.conns \in [Port -> Own(h.splice)]
  BY <1>1, <1>4, <1>5 DEF Fits
<1>7. body[t] \in Seq(StepsOver(Port \cup Local))
  BY <1>6, BodyTyped DEF SpliceInv, Passing
<1> HIDE DEF h, t, k
<1>8. /\ b \in Seq(FlatSteps)
      /\ l \in Nat /\ l >= 2
      /\ \A i \in 1..l : b[i].splice = k /\ Fits(b[i])
      /\ b[1].do.op = "enter" /\ b[1].scope = <<t, k>>
      /\ b[l].do.op = "end" /\ b[l].scope = <<t, k>>
      /\ \A i \in 2..l - 1 :
           /\ b[i].do.op \notin Marking
           /\ b[i].do.op \in Jumps => b[i].scope \in {<<Program, 0>>, <<t, k>>}
  BY <1>1, <1>3, <1>6, <1>7, BlockSound
<1> HIDE DEF b
<1>9. /\ w \in Seq(FlatSteps) /\ v \in Seq(FlatSteps) /\ w[n + 1] = Head(rest)
      /\ InPlace(w, v, b, n, c, l)
  <2>1. steps \in Seq(FlatSteps) /\ rest \in Seq(FlatSteps) /\ b \in Seq(FlatSteps) /\ rest # <<>>
    BY <1>1, <1>4, <1>8
  <2> QED
    BY <2>1, Replaced, Zenon
<1>10. /\ \A i \in 1..n : w[i] = steps[i]
       /\ \A i \in 1..c : w[n + i] = rest[i]
  BY <1>4, Joined
<1>11. /\ steps' \in Seq(FlatSteps) /\ Len(steps') = n + l
       /\ \A i \in 1..n : steps'[i] = steps[i]
       /\ \A i \in 1..l : steps'[n + i] = b[i]
  <2>1. /\ steps \o b \in Seq(FlatSteps) /\ Len(steps \o b) = n + l
        /\ \A i \in 1..n : (steps \o b)[i] = steps[i]
        /\ \A i \in 1..l : (steps \o b)[n + i] = b[i]
    BY <1>4, <1>8, Joined
  <2> QED
    BY <1>1, <2>1
<1>12. /\ rest' \in Seq(FlatSteps) /\ Len(rest') = c - 1
       /\ \A i \in 1..c - 1 : rest'[i] = rest[i + 1]
  BY <1>1, <1>4, <1>5
<1>13. whole' = v /\ whole = w
  BY <1>1 DEF whole
<1> HIDE DEF w, v, n, c, l
<1>14. \A i \in 1..Len(w) : w[i].splice # k /\ Fits(w[i])
  <2> SUFFICES ASSUME NEW i \in 1..Len(w) PROVE w[i].splice # k /\ Fits(w[i])
    OBVIOUS
  <2>1. CASE i \in 1..n
    BY <1>3, <1>4, <1>10, <2>1
  <2>2. CASE i \notin 1..n
    <3>1. i - n \in 1..c /\ i = n + (i - n)
      BY <1>4, <1>9, <2>2 DEF InPlace
    <3>2. w[i] = rest[i - n]
      BY <1>10, <3>1
    <3> QED
      BY <1>3, <1>4, <3>1, <3>2
  <2> QED
    BY <2>1, <2>2
<1>15. Home(v)
  <2>1. Home(w) /\ w[n + 1].do.op = "call"
    BY <1>1, <1>9, <1>13 DEF SpliceInv, h
  <2>2. Block(b, l, t, k)
    BY <1>8 DEF Block
  <2>3. k \in Nat /\ n \in Nat /\ c \in Nat /\ l \in Nat
    BY <1>3, <1>4, <1>8
  <2> QED
    BY <1>6, <1>8, <1>9, <1>14, <2>1, <2>2, <2>3, HomeKept
<1>16. Home(whole)'
  BY <1>13, <1>15 DEF Home, Between, Marks
<1>17. DOMAIN made' = 0..last + 1 /\ last + 1 \in Nat
  BY <1>1, <1>3
<1>18. /\ \A j \in DOMAIN made : j \in DOMAIN made' /\ made'[j] = made[j]
       /\ k \in DOMAIN made' /\ made'[k].names = Renaming(h, k) /\ made'[k].cells = Cells(h, k)
       /\ made'[k].given = Given(h)
  BY <1>1, <1>3
<1>19. Sound(steps)'
  <2>1. ASSUME NEW i \in 1..Len(steps')
        PROVE  steps'[i].splice \in DOMAIN made' /\ Fits(steps'[i])
    <3>1. CASE i \in 1..n
      BY <1>4, <1>11, <1>18, <3>1
    <3>2. CASE i \notin 1..n
      <4>1. PICK j \in 1..l : i = n + j
        <5>1. i - n \in 1..l /\ i = n + (i - n)
          BY <1>4, <1>8, <1>11, <3>2
        <5> QED
          BY <5>1
      <4>2. steps'[i] = b[j]
        BY <1>11, <4>1
      <4> QED
        BY <1>8, <1>18, <4>1, <4>2
    <3> QED
      BY <3>1, <3>2
  <2> QED
    BY <1>11, <2>1 DEF Sound, Fits, Own
<1>20. Sound(rest)'
  <2>1. ASSUME NEW i \in 1..Len(rest')
        PROVE  rest'[i].splice \in DOMAIN made' /\ Fits(rest'[i])
    <3>1. i + 1 \in 1..c /\ rest'[i] = rest[i + 1]
      BY <1>4, <1>12
    <3> QED
      BY <1>4, <1>18, <3>1
  <2> QED
    BY <1>12, <2>1 DEF Sound, Fits, Own
<1>21. Passing'
  BY <1>1 DEF SpliceInv, Passing
<1>22. Made'
  <2> DEFINE old == DOMAIN env
             new == old \cup ({k} \X (Port \cup Local))
  <2>1. /\ env \in [old -> {0, 1}] /\ promise \in [old -> {0, 1}]
        /\ \A j \in DOMAIN made : /\ made[j].names \in [Own(j) -> old]
                                  /\ made[j].cells \in [Own(j) -> old]
                                  /\ j # 0 => made[j].given \in [Port -> old]
    BY DEF SpliceInv, Made
  <2> HIDE DEF old
  <2>2. env' \in [new -> {0, 1}] /\ promise' \in [new -> {0, 1}]
    BY <1>1, <2>1, LocalsHeld
  <2>3. DOMAIN env' = new /\ DOMAIN promise' = new
    BY <2>2
  <2>4. /\ Actuals(h) \in [Port -> old]
        /\ Given(h) \in [Port -> old]
    <3>1. /\ made[h.splice].names \in [Own(h.splice) -> old]
          /\ made[h.splice].cells \in [Own(h.splice) -> old]
      BY <1>6, <2>1
    <3> QED
      BY <1>6, <3>1 DEF Actuals, Given
  <2>5. Own(k) = Port \cup Local
    BY <1>3 DEF Own
  <2>6. Renaming(h, k) \in [Own(k) -> new]
    <3>1. ASSUME NEW s \in Port \cup Local
          PROVE  (IF s \in Port THEN Actuals(h)[s] ELSE <<k, s>>) \in new
      BY <2>4
    <3> QED
      BY <2>5, <3>1 DEF Renaming
  <2>7. Cells(h, k) \in [Own(k) -> new]
    <3>1. ASSUME NEW s \in Port \cup Local
          PROVE  (IF s \in Writes(h.do.to) THEN Given(h)[s] ELSE <<k, s>>) \in new
      <4>1. s \in Writes(h.do.to) => s \in Port
        BY DEF Writes
      <4> QED
        BY <2>4, <4>1
    <3> QED
      BY <2>5, <3>1 DEF Cells
  <2>8. old \subseteq new
    OBVIOUS
  <2> HIDE DEF new
  <2>9. ASSUME NEW j \in DOMAIN made'
        PROVE  /\ made'[j].names \in [Own(j) -> new]
               /\ made'[j].cells \in [Own(j) -> new]
               /\ j # 0 => made'[j].given \in [Port -> new]
    <3>1. CASE j \in DOMAIN made
      <4>1. made'[j] = made[j]
        BY <1>18, <3>1
      <4>2. /\ made[j].names \in [Own(j) -> new]
            /\ made[j].cells \in [Own(j) -> new]
            /\ j # 0 => made[j].given \in [Port -> new]
        BY <2>1, <2>8, <3>1
      <4> QED
        BY <4>1, <4>2
    <3>2. CASE j = k
      <4>1. Given(h) \in [Port -> new]
        BY <2>4, <2>8
      <4> QED
        BY <1>18, <2>6, <2>7, <3>2, <4>1
    <3>3. j \in DOMAIN made \/ j = k
      BY <1>1
    <3> QED
      BY <3>1, <3>2, <3>3
  <2> QED
    BY <1>17, <2>2, <2>3, <2>9 DEF Made, Own
<1> QED
  BY <1>16, <1>19, <1>20, <1>21, <1>22 DEF SpliceInv

-----------------------------------------------------------------------------
(* The flat program runs.                                                  *)

\* A step of the program leaves the program as it is.
LEMMA RunKeeps ==
  ASSUME SpliceInv, phase = "running", phase' \in {"running", "done"},
         UNCHANGED source, pc' \in 1..Len(steps) + 1,
         env' \in [DOMAIN env -> {0, 1}], promise' \in [DOMAIN env -> {0, 1}]
  PROVE  SpliceInv'
<1>1. UNCHANGED <<body, steps, rest, changed, passes, made>>
  BY DEF source
<1>2. Home(whole)'
  <2>1. whole' = whole
    BY <1>1 DEF whole
  <2> QED
    BY <2>1 DEF SpliceInv, Home, Between, Marks
<1>3. Sound(steps)' /\ Sound(rest)'
  BY <1>1, SMTT(60) DEF SpliceInv, Sound, Fits, Own
<1>4. Passing'
  BY <1>1 DEF SpliceInv, Passing
<1>5. DOMAIN env' = DOMAIN env /\ DOMAIN promise' = DOMAIN env
  OBVIOUS
<1>6. Made'
  BY <1>1, <1>5 DEF SpliceInv, Made, Own
<1> QED
  BY <1>2, <1>3, <1>4, <1>6 DEF SpliceInv

\* The step the program is at.
LEMMA HereSound ==
  ASSUME SpliceInv, phase = "running", pc \in DOMAIN steps
  PROVE  /\ pc \in 1..Len(steps) /\ pc + 1 \in 1..Len(steps) + 1
         /\ Len(steps) \in Nat /\ 1 \in 1..Len(steps) + 1
         /\ Here.splice \in DOMAIN made /\ Fits(Here)
         /\ env \in [DOMAIN env -> {0, 1}] /\ promise \in [DOMAIN env -> {0, 1}]
         /\ Mine.names \in [Own(Here.splice) -> DOMAIN env]
         /\ Mine.cells \in [Own(Here.splice) -> DOMAIN env]
         /\ Here.splice # 0 => Mine.given \in [Port -> DOMAIN env]
         /\ whole = steps
<1>1. steps \in Seq(FlatSteps) /\ \A i \in 1..Len(steps) : steps[i].splice \in DOMAIN made /\ Fits(steps[i])
  BY DEF SpliceInv, Sound
<1>2. DOMAIN steps = 1..Len(steps) /\ Len(steps) \in Nat
  BY <1>1
<1>3. pc \in 1..Len(steps) /\ pc + 1 \in 1..Len(steps) + 1 /\ 1 \in 1..Len(steps) + 1
  BY <1>2
<1>4. Here.splice \in DOMAIN made /\ Fits(Here)
  BY <1>1, <1>3 DEF Here
<1>5. rest = <<>>
  BY DEF SpliceInv, Passing
<1>6. whole = steps
  BY <1>1, <1>5, ConcatEmptySeq DEF whole
<1> QED
  BY <1>2, <1>3, <1>4, <1>6 DEF SpliceInv, Made, Mine

\* Where the scope of a jump begins and ends.
LEMMA ScopeFound ==
  ASSUME SpliceInv, phase = "running", pc \in DOMAIN steps,
         Here.do.op \in Jumps, Here.scope[1] # Program
  PROVE  Start(Here.scope) \in 1..Len(steps) /\ End(Here.scope) \in 1..Len(steps)
<1>1. pc \in 1..Len(steps) /\ whole = steps
  BY HereSound
<1>2. Here.scope # <<Program, 0>>
  OBVIOUS
<1>3. Between(steps, pc)
  BY <1>1, <1>2 DEF SpliceInv, Home, Here
<1>4. DOMAIN steps = 1..Len(steps)
  BY DEF SpliceInv, Sound
<1>5. PICK first \in 1..Len(steps), last \in 1..Len(steps) :
             /\ Marks(steps, Here.scope) = {first, last}
             /\ steps[first].do.op = "enter" /\ steps[last].do.op = "end"
  BY <1>3 DEF Between, Here
<1>6. steps[first].scope = Here.scope /\ steps[last].scope = Here.scope
  BY <1>5 DEF Marks
<1>7. /\ \E i \in DOMAIN steps : steps[i].do.op = "enter" /\ steps[i].scope = Here.scope
      /\ \E i \in DOMAIN steps : steps[i].do.op = "end" /\ steps[i].scope = Here.scope
  BY <1>4, <1>5, <1>6
<1> QED
  BY <1>4, <1>7 DEF Start, End

\* New locals are values.
LEMMA FreshHeld ==
  ASSUME NEW cells, NEW held \in [cells -> {0, 1}]
  PROVE  FreshLocals(held) \in [cells -> {0, 1}]
BY DEF FreshLocals

\* The program takes a step.
LEMMA RunSplice == SpliceInv /\ RunProgram => SpliceInv'
<1> SUFFICES ASSUME SpliceInv, RunProgram PROVE SpliceInv'
  OBVIOUS
<1> DEFINE Values == [DOMAIN env -> {0, 1}]
<1>1. env \in Values /\ promise \in Values
  BY DEF SpliceInv, Made
<1>2. CASE EnterScope
  <2>1. phase = "running" /\ pc \in DOMAIN steps /\ Here.do.op = "enter"
        /\ UNCHANGED <<source, phase, env>> /\ pc' = pc + 1
    BY <1>2 DEF EnterScope, At
  <2> DEFINE Copied(m) == \E p \in Port : m = <<Here.splice, p>> /\ Cell(p) = m
             copies == [m \in DOMAIN promise |-> IF Copied(m) THEN promise[Mine.given[m[2]]] ELSE promise[m]]
  <2>2. Here.splice # 0
    BY <2>1, HereSound DEF Fits, Marking
  <2>3. Mine.given \in [Port -> DOMAIN env]
    BY <2>1, <2>2, HereSound
  <2>4. ASSUME NEW m \in DOMAIN env
        PROVE  (IF Copied(m) THEN promise[Mine.given[m[2]]] ELSE promise[m]) \in {0, 1}
    <3>1. CASE Copied(m)
      <4>1. m[2] \in Port
        BY <3>1
      <4>2. Mine.given[m[2]] \in DOMAIN env
        BY <2>3, <4>1
      <4> QED
        BY <1>1, <3>1, <4>2
    <3>2. CASE ~Copied(m)
      BY <1>1, <3>2
    <3> QED
      BY <3>1, <3>2
  <2>5. copies \in Values
    BY <1>1, <2>4
  <2>6. promise' = FreshLocals(copies)
    BY <1>2 DEF EnterScope
  <2> HIDE DEF copies
  <2>7. promise' \in Values
    BY <2>5, <2>6, FreshHeld
  <2>8. pc' \in 1..Len(steps) + 1
    BY <2>1, HereSound
  <2> QED
    BY <1>1, <2>1, <2>7, <2>8, RunKeeps
<1>3. CASE Reset
  <2>1. /\ phase = "running" /\ pc \in DOMAIN steps
        /\ UNCHANGED <<source, phase, promise>> /\ pc' = pc + 1
        /\ env' = [env EXCEPT ![Name(Here.do.target)] = 0]
    BY <1>3 DEF Reset, At
  <2>2. env' \in Values
    BY <1>1, <2>1
  <2>3. pc' \in 1..Len(steps) + 1
    BY <2>1, HereSound
  <2> QED
    BY <1>1, <2>1, <2>2, <2>3, RunKeeps
<1>4. CASE AssignName
  <2>1. /\ phase = "running" /\ pc \in DOMAIN steps /\ Here.do.op = "assign"
        /\ UNCHANGED <<source, phase>> /\ pc' = pc + 1
        /\ env' = [env EXCEPT ![Name(Here.do.target)] = 1 - env[Name(Here.do.read)]]
        /\ promise' = [promise EXCEPT ![Cell(Here.do.target)] = 1 - promise[Cell(Here.do.read)]]
    BY <1>4 DEF AssignName, At
  <2>2. Here.do.read \in Own(Here.splice)
    BY <2>1, HereSound DEF Fits
  <2>3. Name(Here.do.read) \in DOMAIN env /\ Cell(Here.do.read) \in DOMAIN env
    BY <2>1, <2>2, HereSound DEF Name, Cell
  <2>4. 1 - env[Name(Here.do.read)] \in {0, 1} /\ 1 - promise[Cell(Here.do.read)] \in {0, 1}
    <3>1. env[Name(Here.do.read)] \in {0, 1} /\ promise[Cell(Here.do.read)] \in {0, 1}
      BY <1>1, <2>3
    <3> QED
      BY <3>1
  <2>5. env' \in Values /\ promise' \in Values
    BY <1>1, <2>1, <2>4
  <2>6. pc' \in 1..Len(steps) + 1
    BY <2>1, HereSound
  <2> QED
    BY <2>1, <2>5, <2>6, RunKeeps
<1>5. CASE Pass \/ EndScope
  <2>1. /\ phase = "running" /\ pc \in DOMAIN steps
        /\ UNCHANGED <<source, phase, env, promise>> /\ pc' = pc + 1
    BY <1>5 DEF Pass, EndScope, At
  <2>2. pc' \in 1..Len(steps) + 1
    BY <2>1, HereSound
  <2> QED
    BY <1>1, <2>1, <2>2, RunKeeps
<1>6. CASE LeaveScope
  <2>1. /\ phase = "running" /\ pc \in DOMAIN steps /\ Here.do.op \in Jumps
        /\ UNCHANGED <<source, env, promise>>
        /\ IF Here.scope[1] = Program THEN phase' = "done" /\ UNCHANGED pc
           ELSE pc' = End(Here.scope) /\ UNCHANGED phase
    BY <1>6 DEF LeaveScope, At, Jumps
  <2>2. CASE Here.scope[1] = Program
    <3>1. pc' \in 1..Len(steps) + 1
      BY <2>1, <2>2, HereSound
    <3> QED
      BY <1>1, <2>1, <2>2, <3>1, RunKeeps
  <2>3. CASE Here.scope[1] # Program
    <3>1. End(Here.scope) \in 1..Len(steps) /\ Len(steps) \in Nat
      BY <2>1, <2>3, ScopeFound, HereSound
    <3>2. pc' \in 1..Len(steps) + 1
      BY <2>1, <2>3, <3>1
    <3> QED
      BY <1>1, <2>1, <2>3, <3>2, RunKeeps
  <2> QED
    BY <2>2, <2>3
<1>7. CASE RepeatScope
  <2>1. /\ phase = "running" /\ pc \in DOMAIN steps /\ Here.do.op \in Jumps
        /\ UNCHANGED <<source, phase, env>>
        /\ IF Here.scope[1] = Program THEN pc' = 1 /\ UNCHANGED promise
           ELSE pc' = Start(Here.scope) + 1 /\ promise' = FreshLocals(promise)
    BY <1>7 DEF RepeatScope, At, Jumps
  <2>2. CASE Here.scope[1] = Program
    <3>1. pc' \in 1..Len(steps) + 1
      BY <2>1, <2>2, HereSound
    <3> QED
      BY <1>1, <2>1, <2>2, <3>1, RunKeeps
  <2>3. CASE Here.scope[1] # Program
    <3>1. Start(Here.scope) \in 1..Len(steps) /\ Len(steps) \in Nat
      BY <2>1, <2>3, ScopeFound, HereSound
    <3>2. pc' \in 1..Len(steps) + 1
      BY <2>1, <2>3, <3>1
    <3>3. promise' \in Values
      BY <1>1, <2>1, <2>3, FreshHeld
    <3> QED
      BY <1>1, <2>1, <3>2, <3>3, RunKeeps
  <2> QED
    BY <2>2, <2>3
<1>8. CASE Exit
  <2>1. phase = "running" /\ pc = Len(steps) + 1 /\ phase' = "done" /\ UNCHANGED <<source, state>>
    BY <1>8 DEF Exit
  <2>2. pc' = pc /\ env' = env /\ promise' = promise
    BY <2>1 DEF state
  <2>3. pc' \in 1..Len(steps) + 1
    BY <2>1, <2>2 DEF SpliceInv, Passing
  <2> QED
    BY <1>1, <2>1, <2>2, <2>3, RunKeeps
<1> QED
  BY <1>2, <1>3, <1>4, <1>5, <1>6, <1>7, <1>8 DEF RunProgram

\* No step breaks the invariant.
LEMMA StepSplice == SpliceInv /\ [Next]_vars => SpliceInv'
<1> SUFFICES ASSUME SpliceInv, [Next]_vars PROVE SpliceInv'
  OBVIOUS
<1>1. CASE UNCHANGED vars
  <2>1. UNCHANGED <<body, steps, rest, changed, passes, made, phase, pc, env, promise>>
    BY <1>1 DEF vars, source, state
  <2>2. Home(whole)'
    <3>1. whole' = whole
      BY <2>1 DEF whole
    <3> QED
      BY <3>1 DEF SpliceInv, Home, Between, Marks
  <2>3. Sound(steps)' /\ Sound(rest)' /\ Passing' /\ Made'
    BY <2>1, ZenonT(60) DEF SpliceInv, Sound, Fits, Own, Passing, Made
  <2> QED
    BY <2>2, <2>3 DEF SpliceInv
<1>2. Next => SpliceProgram \/ RunProgram \/ UNCHANGED vars
  BY DEF Next, Stopped
<1>3. SpliceProgram => SpliceInv'
  BY KeepSplice, CallSplice, RefuseSplice, EndPassSplice DEF SpliceProgram
<1> QED
  BY <1>1, <1>2, <1>3, RunSplice

\* Wherever the splicer is, the invariant holds.
LEMMA SpliceHolds == Spec => []SpliceInv
<1>1. Init => SpliceInv
  BY InitSplice
<1>2. SpliceInv /\ [Next]_vars => SpliceInv'
  BY StepSplice
<1> QED
  BY <1>1, <1>2, PTL DEF Spec

-----------------------------------------------------------------------------
(* What follows.                                                           *)

\* Splices and the program they make are well formed at every step, whatever
\* the templates call: each step belongs to a splice that was made, the
\* program counter never leaves the program, and every name has a value.
THEOREM SpliceTypes == Spec => []TypeOK
<1>1. SpliceInv => TypeOK
  <2> SUFFICES ASSUME SpliceInv PROVE TypeOK
    OBVIOUS
  <2>1. /\ DOMAIN steps = 1..Len(steps) /\ DOMAIN rest = 1..Len(rest)
    BY DEF SpliceInv, Sound
  <2>2. /\ \A i \in DOMAIN steps : steps[i].splice \in DOMAIN made
        /\ \A i \in DOMAIN rest : rest[i].splice \in DOMAIN made
    BY <2>1 DEF SpliceInv, Sound
  <2>3. /\ passes \in 0..Cap
        /\ phase \in {"splicing", "refused", "recursive", "running", "done"}
        /\ phase = "running" => /\ pc \in 1..Len(steps) + 1
                                /\ \A i \in DOMAIN steps : steps[i].do.op # "call"
    BY <2>1 DEF SpliceInv, Passing
  <2>4. DOMAIN env = DOMAIN promise /\ \A m \in DOMAIN env : {env[m], promise[m]} \subseteq {0, 1}
    BY DEF SpliceInv, Made
  <2> QED
    BY <2>2, <2>3, <2>4 DEF TypeOK
<1> QED
  BY <1>1, SpliceHolds, PTL

\* In the program the splicer leaves, every jump of a splice stands inside the
\* scope that it names, its splice's own, and no other scope has that name: for
\* templates of any bodies, called by one another in any way and number.
THEOREM JumpsStayHome == Spec => []JumpsLandHome
<1>1. SpliceInv => JumpsLandHome
  <2> SUFFICES ASSUME SpliceInv, phase = "running",
                      NEW i \in DOMAIN steps,
                      steps[i].do.op \in Jumps, steps[i].scope # <<Program, 0>>
               PROVE  LET marks == {j \in DOMAIN steps : steps[j].do.op \in {"enter", "end"}
                                                         /\ steps[j].scope = steps[i].scope}
                      IN  \E first, last \in marks : /\ marks = {first, last}
                                                     /\ first < i /\ i < last
                                                     /\ steps[first].do.op = "enter"
                                                     /\ steps[first].splice = steps[i].splice
                                                     /\ steps[last].do.op = "end"
    BY DEF JumpsLandHome
  <2>1. steps \in Seq(FlatSteps) /\ rest = <<>>
    BY DEF SpliceInv, Sound, Passing
  <2>2. whole = steps /\ DOMAIN steps = 1..Len(steps)
    BY <2>1, ConcatEmptySeq DEF whole
  <2>3. Between(steps, i)
    BY <2>2 DEF SpliceInv, Home
  <2> DEFINE marks == {j \in DOMAIN steps : steps[j].do.op \in {"enter", "end"}
                                            /\ steps[j].scope = steps[i].scope}
  <2>4. marks = Marks(steps, steps[i].scope)
    BY <2>2 DEF Marks, Marking
  <2> HIDE DEF marks
  <2>5. \E first, last \in marks : /\ marks = {first, last}
                                   /\ first < i /\ i < last
                                   /\ steps[first].do.op = "enter"
                                   /\ steps[first].splice = steps[i].splice
                                   /\ steps[last].do.op = "end"
    BY <2>3, <2>4 DEF Between
  <2> QED
    BY <2>5 DEF marks
<1> QED
  BY <1>1, SpliceHolds, PTL

-----------------------------------------------------------------------------
(* Only recursion uses the passes up.                                      *)

\* A template calls another, or itself.
Calls(bodies, t, u) == \E i \in DOMAIN bodies[t] : bodies[t][i].op = "call" /\ bodies[t][i].to = u

\* A chain of calls of length n ends in t.
Deep(bodies, n, t) ==
  \E chain \in [0..n -> Template] :
    chain[n] = t /\ \A i \in 0..n - 1 : Calls(bodies, chain[i], chain[i + 1])

DeepCalls(w, n) == \A i \in 1..Len(w) : w[i].do.op = "call" => Deep(body, n, w[i].do.to)

\* What a pass has before it was called from as many templates as there were
\* passes before, what it has left from one more.
DepthInv ==
  /\ phase = "splicing" => DeepCalls(rest, passes) /\ DeepCalls(steps, passes + 1)
  /\ phase = "splicing" /\ changed => \E t \in Template : Deep(body, passes, t)
  /\ phase = "recursive" => \E t \in Template : Deep(body, Cap - 1, t)

\* A chain goes on through one more call.
LEMMA Deeper ==
  ASSUME NEW n \in Nat, NEW t \in Template, NEW u \in Template, Deep(body, n, t), Calls(body, t, u)
  PROVE  Deep(body, n + 1, u)
<1>1. PICK chain \in [0..n -> Template] :
             chain[n] = t /\ \A i \in 0..n - 1 : Calls(body, chain[i], chain[i + 1])
  BY DEF Deep
<1> DEFINE longer == [i \in 0..n + 1 |-> IF i = n + 1 THEN u ELSE chain[i]]
<1>2. longer \in [0..n + 1 -> Template]
  BY <1>1
<1>3. longer[n + 1] = u
  OBVIOUS
<1>4. ASSUME NEW i \in 0..n + 1 - 1 PROVE Calls(body, longer[i], longer[i + 1])
  <2>1. CASE i = n
    <3>1. longer[i] = t /\ longer[i + 1] = u
      BY <1>1, <2>1
    <3> QED
      BY <3>1
  <2>2. CASE i # n
    <3>1. i \in 0..n - 1
      BY <2>2
    <3>2. longer[i] = chain[i] /\ longer[i + 1] = chain[i + 1]
      BY <3>1
    <3> QED
      BY <1>1, <3>1, <3>2
  <2> QED
    BY <2>1, <2>2
<1> HIDE DEF longer
<1> QED
  BY <1>2, <1>3, <1>4 DEF Deep

\* A chain longer than there are templates goes round.
LEMMA LongChainIsRing ==
  ASSUME NEW t \in Template, Deep(body, Cap - 1, t)
  PROVE  Ring
<1>1. Cap \in Nat /\ IsFiniteSet(Template) /\ Cardinality(Template) \in Nat /\ Cardinality(Template) < Cap
  BY SpliceAssumption, FS_CardinalityType
<1>2. PICK chain \in [0..Cap - 1 -> Template] :
             \A i \in 0..(Cap - 1) - 1 : Calls(body, chain[i], chain[i + 1])
  BY DEF Deep
<1>3. IsFiniteSet(0..Cap - 1) /\ Cardinality(0..Cap - 1) = Cap
  <2>1. 0 \in Int /\ Cap - 1 \in Int
    BY <1>1
  <2>2. IsFiniteSet(0..Cap - 1) /\ Cardinality(0..Cap - 1) = IF 0 > Cap - 1 THEN 0 ELSE (Cap - 1) - 0 + 1
    BY <2>1, FS_Interval
  <2> QED
    BY <1>1, <2>2
<1>4. PICK x \in 0..Cap - 1, y \in 0..Cap - 1 : x # y /\ chain[x] = chain[y]
  BY <1>1, <1>2, <1>3, FS_PigeonHole
<1>5. PICK a \in 0..Cap - 1, b \in 0..Cap - 1 : a < b /\ chain[a] = chain[b]
  <2>1. x < y \/ y < x
    BY <1>1, <1>4
  <2> QED
    BY <1>4, <2>1
<1> DEFINE ring == {chain[i] : i \in a..b - 1}
<1>6. a \in Nat /\ b \in Nat /\ a..b - 1 \subseteq 0..(Cap - 1) - 1
  BY <1>1, <1>5
<1>7. ring \subseteq Template
  <2>1. a..b - 1 \subseteq 0..Cap - 1
    BY <1>1, <1>6
  <2> QED
    BY <1>2, <2>1
<1>8. a \in a..b - 1
  BY <1>5, <1>6
<1>9. ASSUME NEW u \in ring PROVE \E v \in ring : Calls(body, u, v)
  <2>1. PICK i \in a..b - 1 : u = chain[i]
    OBVIOUS
  <2>2. Calls(body, u, chain[i + 1])
    BY <1>2, <1>6, <2>1
  <2>3. chain[i + 1] \in ring
    <3>1. CASE i = b - 1
      <4>1. chain[i + 1] = chain[a]
        BY <1>5, <1>6, <3>1
      <4> QED
        BY <1>8, <4>1
    <3>2. CASE i # b - 1
      <4>1. i + 1 \in a..b - 1
        BY <1>6, <3>2
      <4> QED
        BY <4>1
    <3> QED
      BY <3>1, <3>2
  <2> QED
    BY <2>2, <2>3
<1>10. ring # {}
  BY <1>8
<1> HIDE DEF ring
<1>11. ring \in (SUBSET Template) \ {{}}
  BY <1>7, <1>10
<1>12. \A u \in ring : \E i \in DOMAIN body[u] : body[u][i].op = "call" /\ body[u][i].to \in ring
  BY <1>9 DEF Calls
<1> QED
  BY <1>11, <1>12, Zenon DEF Ring

\* The first pass has the program's own calls before it.
LEMMA InitDepth == Init => DepthInv
<1> SUFFICES ASSUME Init PROVE DepthInv
  OBVIOUS
<1>1. SpliceInv
  BY InitSplice
<1>2. passes = 0 /\ phase = "splicing" /\ steps = <<>> /\ ~changed
  BY DEF Init
<1>3. DeepCalls(steps, passes + 1)
  BY <1>2 DEF DeepCalls
<1>4. ASSUME NEW i \in 1..Len(rest), rest[i].do.op = "call" PROVE Deep(body, 0, rest[i].do.to)
  <2> DEFINE t == rest[i].do.to
  <2>1. t \in Template
    BY <1>1, <1>4 DEF SpliceInv, Sound, Fits
  <2> HIDE DEF t
  <2> DEFINE chain == [j \in 0..0 |-> t]
  <2>2. chain \in [0..0 -> Template] /\ chain[0] = t /\ 0..0 - 1 = {}
    BY <2>1
  <2> HIDE DEF chain
  <2>3. Deep(body, 0, t)
    BY <2>2 DEF Deep
  <2> QED
    BY <2>3 DEF t
<1> QED
  BY <1>2, <1>3, <1>4 DEF DepthInv, DeepCalls

\* A splice is a pass deeper than its call.
LEMMA CallDepth == SpliceInv /\ DepthInv /\ SpliceCall => DepthInv'
<1> SUFFICES ASSUME SpliceInv, DepthInv, SpliceCall PROVE DepthInv'
  OBVIOUS
<1> DEFINE h == Head(rest)
           t == h.do.to
           k == Cardinality(DOMAIN made)
           b == Spliced(t, k)
<1>1. /\ phase = "splicing" /\ rest # <<>> /\ h.do.op = "call" /\ ~Strays(t)
      /\ steps' = steps \o b /\ rest' = Tail(rest) /\ changed' = TRUE
      /\ UNCHANGED <<body, passes, phase>>
  BY DEF SpliceCall
<1>2. PICK last \in Nat : DOMAIN made = 0..last
  BY DEF SpliceInv, Made
<1>3. k \in Nat \ {0}
  BY <1>2, NextSplice
<1>4. /\ steps \in Seq(FlatSteps) /\ rest \in Seq(FlatSteps)
      /\ \A i \in 1..Len(rest) : Fits(rest[i])
  BY DEF SpliceInv, Sound
<1>5. Len(rest) \in Nat /\ Len(rest) >= 1 /\ h = rest[1] /\ 1 \in 1..Len(rest) /\ Len(steps) \in Nat
  BY <1>1, <1>4
<1>6. t \in Template /\ Deep(body, passes, t)
  BY <1>1, <1>4, <1>5 DEF Fits, DepthInv, DeepCalls
<1>7. body[t] \in Seq(StepsOver(Port \cup Local))
  BY <1>6, BodyTyped DEF SpliceInv, Passing
<1> HIDE DEF h, t, k
<1>8. /\ b \in Seq(FlatSteps) /\ Len(b) \in Nat
      /\ \A i \in 1..Len(b) : Fits(b[i])
  BY <1>1, <1>3, <1>6, <1>7, BlockSound
<1>9. \A i \in 1..Len(b) : b[i].do.op = "call" => \E j \in DOMAIN body[t] : b[i].do = body[t][j]
  BY <1>3, <1>6, <1>7, BlockCalls
<1> HIDE DEF b
<1>10. passes \in Nat /\ body' = body
  BY <1>1, SpliceAssumption DEF SpliceInv, Passing
<1>11. ASSUME NEW i \in 1..Len(b), b[i].do.op = "call"
       PROVE  Deep(body, passes + 1, b[i].do.to)
  <2>1. b[i].do.to \in Template
    BY <1>8, <1>11 DEF Fits
  <2>2. Calls(body, t, b[i].do.to)
    BY <1>9, <1>11 DEF Calls
  <2> QED
    BY <1>6, <1>10, <2>1, <2>2, Deeper
<1>12. /\ Len(steps') = Len(steps) + Len(b)
       /\ \A i \in 1..Len(steps) : steps'[i] = steps[i]
       /\ \A i \in 1..Len(b) : steps'[Len(steps) + i] = b[i]
  <2>1. /\ Len(steps \o b) = Len(steps) + Len(b)
        /\ \A i \in 1..Len(steps) : (steps \o b)[i] = steps[i]
        /\ \A i \in 1..Len(b) : (steps \o b)[Len(steps) + i] = b[i]
    BY <1>4, <1>8, Joined
  <2> QED
    BY <1>1, <2>1
<1>13. ASSUME NEW i \in 1..Len(steps'), steps'[i].do.op = "call"
       PROVE  Deep(body, passes + 1, steps'[i].do.to)
  <2>1. CASE i \in 1..Len(steps)
    BY <1>1, <1>12, <1>13, <2>1 DEF DepthInv, DeepCalls
  <2>2. CASE i \notin 1..Len(steps)
    <3>1. PICK j \in 1..Len(b) : i = Len(steps) + j
      <4>1. i - Len(steps) \in 1..Len(b) /\ i = Len(steps) + (i - Len(steps))
        BY <1>5, <1>8, <1>12, <2>2
      <4> QED
        BY <4>1
    <3>2. steps'[i] = b[j]
      BY <1>12, <3>1
    <3> QED
      BY <1>11, <1>13, <3>2
  <2> QED
    BY <2>1, <2>2
<1>14. ASSUME NEW i \in 1..Len(rest'), rest'[i].do.op = "call"
       PROVE  Deep(body, passes, rest'[i].do.to)
  <2>1. i + 1 \in 1..Len(rest) /\ rest'[i] = rest[i + 1]
    BY <1>1, <1>4, <1>5
  <2> QED
    BY <1>1, <1>14, <2>1 DEF DepthInv, DeepCalls
<1>15. DeepCalls(steps, passes + 1)' /\ DeepCalls(rest, passes)'
  BY <1>1, <1>10, <1>13, <1>14 DEF DeepCalls
<1>16. \E u \in Template : Deep(body', passes', u)
  BY <1>1, <1>6, <1>10
<1> QED
  BY <1>1, <1>15, <1>16 DEF DepthInv

\* A step that stays is no call.
LEMMA KeepDepth == SpliceInv /\ DepthInv /\ Keep => DepthInv'
<1> SUFFICES ASSUME SpliceInv, DepthInv, Keep PROVE DepthInv'
  OBVIOUS
<1>1. /\ steps \in Seq(FlatSteps) /\ rest \in Seq(FlatSteps) /\ rest # <<>>
      /\ steps' = Append(steps, Head(rest)) /\ rest' = Tail(rest)
      /\ UNCHANGED <<body, changed, passes, phase>>
      /\ phase = "splicing" /\ Head(rest).do.op # "call"
  BY DEF SpliceInv, Sound, Keep
<1>2. /\ Len(steps') = Len(steps) + 1 /\ Len(steps) \in Nat
      /\ \A i \in 1..Len(steps) : steps'[i] = steps[i]
      /\ steps'[Len(steps) + 1] = Head(rest)
      /\ Len(rest) \in Nat /\ Len(rest') = Len(rest) - 1
      /\ \A i \in 1..Len(rest) - 1 : rest'[i] = rest[i + 1]
  BY <1>1
<1>3. ASSUME NEW i \in 1..Len(steps'), steps'[i].do.op = "call"
      PROVE  Deep(body, passes + 1, steps'[i].do.to)
  <2>1. i \in 1..Len(steps)
    BY <1>1, <1>2, <1>3
  <2> QED
    BY <1>1, <1>2, <1>3, <2>1 DEF DepthInv, DeepCalls
<1>4. ASSUME NEW i \in 1..Len(rest'), rest'[i].do.op = "call"
      PROVE  Deep(body, passes, rest'[i].do.to)
  <2>1. i + 1 \in 1..Len(rest) /\ rest'[i] = rest[i + 1]
    BY <1>2
  <2> QED
    BY <1>1, <1>4, <2>1 DEF DepthInv, DeepCalls
<1>5. DeepCalls(steps, passes + 1)' /\ DeepCalls(rest, passes)'
  BY <1>1, <1>3, <1>4 DEF DeepCalls
<1> QED
  BY <1>1, <1>5 DEF DepthInv

\* The next pass is a call deeper, and the last one was deep enough.
LEMMA EndPassDepth == SpliceInv /\ DepthInv /\ EndPass => DepthInv'
<1> SUFFICES ASSUME SpliceInv, DepthInv, EndPass PROVE DepthInv'
  OBVIOUS
<1>1. /\ UNCHANGED body /\ phase = "splicing" /\ passes' = passes + 1 /\ passes \in Nat
      /\ changed \in BOOLEAN
  BY SpliceAssumption DEF EndPass, SpliceInv, Passing
<1>2. CASE phase' = "running"
  BY <1>2 DEF DepthInv
<1>3. CASE changed /\ passes' = Cap /\ phase' = "recursive"
  <2>1. PICK t \in Template : Deep(body, passes, t)
    BY <1>1, <1>3 DEF DepthInv
  <2>2. passes = Cap - 1
    BY <1>1, <1>3
  <2>3. \E u \in Template : Deep(body', Cap - 1, u)
    BY <1>1, <2>1, <2>2
  <2> QED
    BY <1>3, <2>3 DEF DepthInv
<1>4. CASE rest' = steps /\ steps' = <<>> /\ changed' = FALSE /\ UNCHANGED phase
  <2>1. DeepCalls(rest, passes)'
    BY <1>1, <1>4 DEF DepthInv, DeepCalls
  <2>2. DeepCalls(steps, passes + 1)'
    BY <1>4 DEF DeepCalls
  <2> QED
    BY <1>1, <1>4, <2>1, <2>2 DEF DepthInv
<1> QED
  BY <1>1, <1>2, <1>3, <1>4 DEF EndPass

\* No step breaks it.
LEMMA StepDepth == SpliceInv /\ DepthInv /\ [Next]_vars => DepthInv'
<1> SUFFICES ASSUME SpliceInv, DepthInv, [Next]_vars PROVE DepthInv'
  OBVIOUS
<1>1. CASE UNCHANGED vars
  <2>1. UNCHANGED <<body, steps, rest, changed, passes, phase>>
    BY <1>1 DEF vars, source
  <2> QED
    BY <2>1 DEF DepthInv, DeepCalls
<1>2. CASE SpliceProgram
  <2>1. CASE Refuse
    <3>1. phase' = "refused"
      BY <2>1 DEF Refuse
    <3> QED
      BY <3>1 DEF DepthInv
  <2> QED
    BY <1>2, <2>1, KeepDepth, CallDepth, EndPassDepth DEF SpliceProgram
<1>3. CASE RunProgram
  <2>1. phase' \in {"running", "done"}
    BY <1>3 DEF RunProgram, EnterScope, Reset, AssignName, Pass, LeaveScope, RepeatScope, EndScope, Exit, At
  <2> QED
    BY <2>1 DEF DepthInv
<1> QED
  BY <1>1, <1>2, <1>3 DEF Next, Stopped

\* A program that is refused as recursive has templates that call one another
\* in a ring: no depth of nesting of finitely many templates is taken for it.
THEOREM RecursionIsReal == Spec => []RecursionIsNamed
<1>1. Init => DepthInv
  BY InitDepth
<1>2. SpliceInv /\ DepthInv /\ [Next]_vars => DepthInv'
  BY StepDepth
<1>3. DepthInv => RecursionIsNamed
  BY LongChainIsRing DEF DepthInv, RecursionIsNamed
<1> QED
  BY <1>1, <1>2, <1>3, SpliceHolds, PTL DEF Spec

-----------------------------------------------------------------------------
(* The flat program reads what the calls promise.                          *)

\* The splice whose scope a step finds the program in, and the one it leaves
\* it in, where up is the splice that each stands in.
Before(st, up) == IF st.do.op = "enter" THEN up[st.splice] ELSE st.splice
After(st, up) == IF st.do.op = "end" THEN up[st.splice] ELSE st.splice

\* A step may come after another: locals are reset where their scope begins.
Follows(x, y, up) ==
  /\ After(x, up) = Before(y, up)
  /\ y.do.op = "reset" => x.do.op \in {"enter", "reset"} /\ x.splice = y.splice

\* From step i on, nothing happens before the splice k resets its local s.
Unset(w, i, k, s) ==
  \E r \in 1..Len(w) : /\ i <= r /\ w[r].do.target = s
                       /\ \A j \in i..r : w[j].do.op = "reset" /\ w[j].splice = k

\* Steps that stand in their scopes, the program's own outside, and every
\* scope with its locals' resets.
Laid(w, up) ==
  /\ \A i \in 1..Len(w) - 1 : Follows(w[i], w[i + 1], up)
  /\ 1 \in 1..Len(w) => Before(w[1], up) = 0 /\ w[1].do.op # "reset" /\ After(w[Len(w)], up) = 0
  /\ \A i \in 1..Len(w) :
       /\ w[i].do.op = "enter" => \A s \in Local : Unset(w, i + 1, w[i].splice, s)
       /\ w[i].do.op = "reset" => w[i].splice # 0 /\ w[i].do.target \in Local

\* What a splice assigns and calls stands in its template.
Stems(w) ==
  \A i \in 1..Len(w) : w[i].splice # 0 /\ w[i].do.op \in {"assign", "call"} =>
    \E x \in DOMAIN body[made[w[i].splice].template] : body[made[w[i].splice].template][x] = w[i].do

\* The symbols a splice may write through.
Written(k) == IF k = 0 THEN Var ELSE Local \cup Writes(made[k].template)

\* The ports of splice k are bound to symbols of splice j.
Inherits(k, j) ==
  \A p \in Port : \E u \in Own(j) :
    /\ made[k].names[p] = made[j].names[u]
    /\ made[k].given[p] = made[j].cells[u]
    /\ made[k].cells[p] \in {made[j].cells[u], <<k, p>>}

\* Between splice k and one it stands in, two symbols of one promised cell are
\* one name, and one that k writes through has no other cell under its name.
Alike(k, m) ==
  /\ \A s \in Own(k), u \in Own(m) :
       made[k].cells[s] = made[m].cells[u] => made[k].names[s] = made[m].names[u]
  /\ ~relayed => \A s \in Written(k), u \in Own(m) :
       made[k].names[s] = made[m].names[u] => made[k].cells[s] = made[m].cells[u]

\* How splice k came by its names.
Bound(k, up, live) ==
  /\ up[k] \in DOMAIN made /\ up[k] < k /\ live[k] = live[up[k]] \cup {k}
  /\ made[k].template \in Template
  /\ \A s \in Local : made[k].names[s] = <<k, s>> /\ made[k].cells[s] = <<k, s>>
  /\ \A p \in Port : made[k].names[p][1] \in 0..k - 1
  /\ Inherits(k, up[k])

\* The splices that splice k stands in, itself too, and how they are named.
Stands(k, live) ==
  /\ k \in live[k] /\ 0 \in live[k] /\ live[k] \subseteq 0..k
  /\ \A s \in Own(k) : made[k].names[s][1] \in 0..k /\ made[k].cells[s][1] \in 0..k
  /\ \A m \in live[k] : Alike(k, m)

\* The splices as a tree.
Tree(up, live) ==
  /\ live[0] = {0}
  /\ \A s \in Var : made[0].names[s] = <<0, s>> /\ made[0].cells[s] = <<0, s>>
  /\ \A k \in DOMAIN made : (k # 0 => Bound(k, up, live)) /\ Stands(k, live)

\* The splice whose scope the program is in.
Control(i, up) == IF i \in 1..Len(steps) THEN Before(steps[i], up) ELSE 0

\* A symbol of splice m holds what it is promised.
Agree(m, s) == env[made[m].names[s]] = promise[made[m].cells[s]]

\* In every splice the program stands in, each symbol's name holds what its
\* cell does, but for locals not yet reset, which are promised 0.
Meets(up, live) ==
  \A m \in live[Control(pc, up)] : \A s \in Own(m) :
    IF Unset(steps, pc, m, s) THEN promise[made[m].cells[s]] = 0 ELSE Agree(m, s)

\* The splices are a tree, and the program is laid out along it.
Placed(up, live) == Tree(up, live) /\ Laid(whole, up) /\ Stems(whole)

\* Nothing is promised beyond what the program holds before it runs; while it
\* runs, and when it is done, they agree, unless one name was handed on twice.
ReadsAt(up, live) ==
  /\ Placed(up, live)
  /\ phase = "splicing" => env = promise
  /\ phase = "running" /\ ~relayed => Meets(up, live)
  /\ phase = "done" /\ ~relayed => \A s \in Var : Agree(0, s)

\* So it is along some tree.
ReadsInv == \E up, live : ReadsAt(up, live)

-----------------------------------------------------------------------------
(* What a template writes.                                                 *)

\* A template writes what it assigns, and what those it calls write; what it
\* writes it assigns or hands on.
LEMMA WritesLeast ==
  ASSUME NEW t \in Template
  PROVE  /\ Assigned(t) \subseteq Writes(t)
         /\ Writes(t) \subseteq Assigned(t) \cup HandedOn(t)
         /\ \A i \in DOMAIN body[t], q \in Port :
              body[t][i].op = "call" /\ q \in Writes(body[t][i].to) /\ body[t][i].conns[q] \in Port
                => body[t][i].conns[q] \in Writes(t)
<1>1. Assigned(t) \subseteq Writes(t)
  BY DEF Writes, Closed, Assigned
<1>2. Writes(t) \subseteq Assigned(t) \cup HandedOn(t)
  <2> DEFINE w == {x \in Template \X Port : x[2] \in Assigned(x[1]) \cup HandedOn(x[1])}
  <2>1. w \in SUBSET (Template \X Port)
    OBVIOUS
  <2>2. ASSUME NEW u \in Template, NEW p \in Port
        PROVE  <<u, p>> \in w <=> p \in Assigned(u) \cup HandedOn(u)
    OBVIOUS
  <2> HIDE DEF w
  <2>3. ASSUME NEW u \in Template, NEW i \in DOMAIN body[u], body[u][i].op = "call",
               NEW q \in Port, body[u][i].conns[q] \in Port
        PROVE  <<u, body[u][i].conns[q]>> \in w
    BY <2>2, <2>3 DEF HandedOn
  <2>4. ASSUME NEW u \in Template, NEW p \in Assigned(u) PROVE <<u, p>> \in w
    <3>1. p \in Port
      BY DEF Assigned
    <3> QED
      BY <2>2, <3>1
  <2>5. Closed(w)
    BY <2>3, <2>4 DEF Closed
  <2> QED
    BY <2>1, <2>2, <2>5 DEF Writes
<1>3. ASSUME NEW i \in DOMAIN body[t], NEW q \in Port,
             body[t][i].op = "call", q \in Writes(body[t][i].to), body[t][i].conns[q] \in Port
      PROVE  body[t][i].conns[q] \in Writes(t)
  <2> SUFFICES ASSUME NEW w \in SUBSET (Template \X Port), Closed(w)
               PROVE  <<t, body[t][i].conns[q]>> \in w
    BY <1>3 DEF Writes
  <2>1. <<body[t][i].to, q>> \in w
    BY <1>3 DEF Writes
  <2> QED
    BY <1>3, <2>1 DEF Closed
<1> QED
  BY <1>1, <1>2, <1>3

\* The same templates write the same.
LEMMA WritesKept ==
  ASSUME body' = body, NEW t
  PROVE  Writes(t)' = Writes(t)
<1>1. ASSUME NEW u PROVE Assigned(u)' = Assigned(u)
  BY DEF Assigned
<1>2. ASSUME NEW w PROVE Closed(w)' <=> Closed(w)
  BY <1>1 DEF Closed
<1> QED
  BY <1>2 DEF Writes

-----------------------------------------------------------------------------
(* A splice stands where its call stood.                                   *)

\* How the steps of splice k are laid.
Scoped(b, l, k) ==
  /\ l >= 2 /\ Len(b) = l
  /\ \A i \in 1..l : b[i].splice = k
  /\ b[1].do.op = "enter" /\ b[l].do.op = "end"
  /\ \A i \in 2..l - 1 : b[i].do.op \notin Marking
  /\ \A i \in 2..l : b[i].do.op = "reset" => b[i - 1].do.op \in {"enter", "reset"} /\ b[i].do.target \in Local
  /\ \A s \in Local : Unset(b, 2, k, s)

\* The steps of a splice are laid so.
LEMMA BlockScoped ==
  ASSUME NEW t \in Template, NEW k \in Nat \ {0}, body[t] \in Seq(StepsOver(Port \cup Local))
  PROVE  Scoped(Spliced(t, k), Len(Spliced(t, k)), k)
<1> DEFINE b == Spliced(t, k)
           c == Cardinality(Local)
           m == Len(body[t])
           l == 2 + c + m
<1>1. c \in Nat /\ m \in Nat
  BY LocalsOrdered
<1>2. /\ Len(b) = l
      /\ b[1] = Flat(k, [op |-> "enter"], <<t, k>>)
      /\ \A i \in 1..c : b[1 + i] = Flat(k, [op |-> "reset", target |-> LocalsInOrder[i]], NoScope)
      /\ \A i \in 1..m : b[1 + c + i] = Flat(k, body[t][i], JumpScope(body[t][i], t, k))
      /\ b[2 + c + m] = Flat(k, [op |-> "end"], <<t, k>>)
  BY BlockParts
<1>3. /\ LocalsInOrder \in [1..c -> Local]
      /\ \A s \in Local : \E i \in 1..c : LocalsInOrder[i] = s
  BY LocalsOrdered
<1>4. ASSUME NEW i \in 1..m PROVE body[t][i].op \in {"assign", "leave", "repeat", "call"}
  <2>1. body[t][i] \in StepsOver(Port \cup Local)
    BY ElementOfSeq
  <2> QED
    BY <2>1, StepShape
<1> HIDE DEF b, c, m
<1>5. /\ b[1].splice = k /\ b[1].do.op = "enter"
      /\ b[l].splice = k /\ b[l].do.op = "end"
      /\ \A i \in 1..c : /\ b[1 + i].splice = k /\ b[1 + i].do.op = "reset"
                         /\ b[1 + i].do.target = LocalsInOrder[i]
      /\ \A i \in 1..m : /\ b[1 + c + i].splice = k
                         /\ b[1 + c + i].do.op \in {"assign", "leave", "repeat", "call"}
  <2>1. b[1].splice = k /\ b[1].do.op = "enter"
    BY <1>2 DEF Flat
  <2>2. b[l].splice = k /\ b[l].do.op = "end"
    BY <1>2 DEF Flat
  <2>3. ASSUME NEW i \in 1..c
        PROVE  b[1 + i].splice = k /\ b[1 + i].do.op = "reset" /\ b[1 + i].do.target = LocalsInOrder[i]
    <3>1. b[1 + i] = Flat(k, [op |-> "reset", target |-> LocalsInOrder[i]], NoScope)
      BY <1>2
    <3>2. b[1 + i].splice = k /\ b[1 + i].do = [op |-> "reset", target |-> LocalsInOrder[i]]
      BY <3>1 DEF Flat
    <3> QED
      BY <3>2
  <2>4. ASSUME NEW i \in 1..m
        PROVE  /\ b[1 + c + i].splice = k
               /\ b[1 + c + i].do.op \in {"assign", "leave", "repeat", "call"}
    <3>1. b[1 + c + i] = Flat(k, body[t][i], JumpScope(body[t][i], t, k))
      BY <1>2
    <3>2. b[1 + c + i].splice = k /\ b[1 + c + i].do = body[t][i]
      BY <3>1 DEF Flat
    <3> QED
      BY <1>4, <3>2 DEF m
  <2> QED
    BY <2>1, <2>2, <2>3, <2>4
<1>6. ASSUME NEW i \in 2..l - 1
      PROVE  /\ b[i].splice = k /\ b[i].do.op \notin Marking
             /\ b[i].do.op = "reset" <=> i <= 1 + c
             /\ b[i].do.op = "reset" => b[i].do.target \in Local
  <2>1. CASE i <= 1 + c
    <3>1. i - 1 \in 1..c /\ i = 1 + (i - 1)
      BY <1>1, <2>1
    <3> QED
      BY <1>3, <1>5, <2>1, <3>1 DEF Marking
  <2>2. CASE ~(i <= 1 + c)
    <3>1. i - 1 - c \in 1..m /\ i = 1 + c + (i - 1 - c)
      BY <1>1, <2>2
    <3> QED
      BY <1>5, <2>2, <3>1 DEF Marking
  <2> QED
    BY <2>1, <2>2
<1>7. l \in Nat /\ l >= 2
  BY <1>1
<1>8. ASSUME NEW i \in 2..l, b[i].do.op = "reset"
      PROVE  b[i - 1].do.op \in {"enter", "reset"} /\ b[i].do.target \in Local
  <2>1. i \in 2..l - 1
    BY <1>5, <1>7, <1>8
  <2>2. i <= 1 + c /\ b[i].do.target \in Local
    BY <1>6, <1>8, <2>1
  <2>3. CASE i = 2
    BY <1>5, <2>2, <2>3
  <2>4. CASE i # 2
    <3>1. i - 1 \in 2..l - 1 /\ i - 1 <= 1 + c
      BY <1>1, <2>1, <2>2, <2>4
    <3> QED
      BY <1>6, <2>2, <3>1
  <2> QED
    BY <2>3, <2>4
<1>9. ASSUME NEW i \in 1..l PROVE b[i].splice = k
  <2>1. i = 1 \/ i = l \/ i \in 2..l - 1
    BY <1>7
  <2> QED
    BY <1>5, <1>6, <2>1
<1>10. ASSUME NEW s \in Local PROVE Unset(b, 2, k, s)
  <2>1. PICK x \in 1..c : LocalsInOrder[x] = s
    BY <1>3
  <2>2. 1 + x \in 1..l /\ 2 <= 1 + x /\ 1 + x <= 1 + c /\ 1 + x <= l - 1
    BY <1>1
  <2>3. b[1 + x].do.target = s
    BY <1>5, <2>1
  <2>4. ASSUME NEW j \in 2..1 + x PROVE b[j].do.op = "reset" /\ b[j].splice = k
    <3>1. j \in 2..l - 1 /\ j <= 1 + c
      BY <1>1, <2>2
    <3> QED
      BY <1>6, <3>1
  <2> QED
    BY <1>2, <2>2, <2>3, <2>4 DEF Unset
<1> HIDE DEF l
<1>11. Len(b) = l
  BY <1>2 DEF l
<1>12. Scoped(b, l, k)
  BY <1>5, <1>6, <1>7, <1>8, <1>9, <1>10, <1>11 DEF Scoped
<1> QED
  BY <1>11, <1>12 DEF b

\* A reset still to come is to come wherever the same steps stand.
LEMMA UnsetMoved ==
  ASSUME NEW w, NEW v, NEW i \in Nat, NEW d \in Int, NEW k, NEW s, Len(w) \in Nat, Len(v) \in Nat,
         i >= 1,
         NEW last \in 0..Len(w), \A j \in i..last : j + d \in 1..Len(v) /\ v[j + d] = w[j],
         \E r \in i..last : /\ w[r].do.target = s
                            /\ \A j \in i..r : w[j].do.op = "reset" /\ w[j].splice = k
  PROVE  Unset(v, i + d, k, s)
<1>1. PICK r \in i..last : /\ w[r].do.target = s
                           /\ \A j \in i..r : w[j].do.op = "reset" /\ w[j].splice = k
  OBVIOUS
<1>2. r + d \in 1..Len(v) /\ i + d <= r + d /\ v[r + d].do.target = s
  BY <1>1
<1>3. ASSUME NEW j \in i + d..r + d PROVE v[j].do.op = "reset" /\ v[j].splice = k
  <2>1. j - d \in i..r /\ j - d \in i..last /\ (j - d) + d = j
    BY <1>1
  <2> QED
    BY <1>1, <2>1
<1> QED
  BY <1>2, <1>3 DEF Unset

\* A splice in the place of a call leaves the steps laid.
LEMMA LaidPut ==
  ASSUME NEW w, NEW v, NEW b, NEW up, NEW n \in Nat, NEW c \in Nat, NEW l \in Nat, NEW k \in Nat \ {0},
         InPlace(w, v, b, n, c, l), Scoped(b, l, k), Laid(w, up),
         w[n + 1].do.op = "call", up[k] = w[n + 1].splice
  PROVE  Laid(v, up)
<1> DEFINE h == w[n + 1]
           m == n + c
           q == n + l + c - 1
<1>1. /\ Len(w) = m /\ Len(v) = q /\ Len(b) = l /\ m \in Nat /\ q \in Nat /\ c >= 1 /\ l >= 2
      /\ \A i \in 1..n : v[i] = w[i]
      /\ \A i \in 1..l : v[n + i] = b[i]
      /\ \A i \in 2..c : v[n + l + i - 1] = w[n + i]
  BY DEF InPlace, Scoped
<1>2. /\ \A i \in 1..l : b[i].splice = k
      /\ b[1].do.op = "enter" /\ b[l].do.op = "end"
      /\ \A i \in 2..l - 1 : b[i].do.op \notin {"enter", "end"}
      /\ \A i \in 2..l : b[i].do.op = "reset" => b[i - 1].do.op \in {"enter", "reset"} /\ b[i].do.target \in Local
  BY DEF Scoped, Marking
<1>3. h.do.op = "call" /\ up[k] = h.splice
  OBVIOUS
<1>4. /\ \A i \in 1..m - 1 : Follows(w[i], w[i + 1], up)
      /\ Before(w[1], up) = 0 /\ w[1].do.op # "reset" /\ After(w[m], up) = 0
      /\ \A i \in 1..m :
           /\ w[i].do.op = "enter" => \A s \in Local : Unset(w, i + 1, w[i].splice, s)
           /\ w[i].do.op = "reset" => w[i].splice # 0 /\ w[i].do.target \in Local
  <2>1. 1 \in 1..Len(w)
    BY <1>1
  <2> QED
    BY <1>1, <2>1 DEF Laid
<1>5. /\ Before(h, up) = h.splice /\ After(h, up) = h.splice
      /\ Before(b[1], up) = h.splice /\ After(b[l], up) = h.splice
      /\ b[1].do.op # "reset" /\ b[l].do.op \notin {"enter", "reset"}
  <2>1. b[1].splice = k /\ b[l].splice = k
    BY <1>1, <1>2
  <2> QED
    BY <1>2, <1>3, <2>1 DEF Before, After
<1>6. ASSUME NEW i \in 1..l - 1 PROVE Follows(b[i], b[i + 1], up)
  <2>1. i \in 1..l /\ i + 1 \in 2..l /\ i + 1 \in 1..l /\ (i + 1) - 1 = i
    BY <1>1, SMTT(60)
  <2>2. b[i].splice = k /\ b[i + 1].splice = k
    BY <1>2, <2>1
  <2>3. b[i].do.op # "end"
    <3>1. i = 1 \/ i \in 2..l - 1
      BY <1>1
    <3> QED
      BY <1>2, <3>1
  <2>4. b[i + 1].do.op # "enter"
    <3>1. i + 1 = l \/ i + 1 \in 2..l - 1
      BY <1>1
    <3> QED
      BY <1>2, <3>1
  <2>5. b[i + 1].do.op = "reset" => b[i].do.op \in {"enter", "reset"}
    BY <1>2, <2>1
  <2> QED
    BY <2>2, <2>3, <2>4, <2>5 DEF Follows, Before, After
<1> HIDE DEF h, m, q
<1>7. w[n + 1] = h /\ m = n + c /\ q = n + l + c - 1
  BY DEF h, m, q
<1>8. ASSUME NEW i \in 1..q - 1 PROVE Follows(v[i], v[i + 1], up)
  <2>1. CASE i < n
    <3>1. i \in 1..n /\ i + 1 \in 1..n /\ i \in 1..m - 1
      BY <1>1, <1>7, <2>1
    <3> QED
      BY <1>1, <1>4, <3>1
  <2>2. CASE i = n
    <3>1. i \in 1..n /\ 1 \in 1..l /\ i \in 1..m - 1 /\ i + 1 = n + 1
      BY <1>1, <1>7, <2>2
    <3>2. v[i] = w[i] /\ v[i + 1] = b[1] /\ Follows(w[i], h, up)
      BY <1>1, <1>4, <1>7, <3>1
    <3> QED
      BY <1>5, <3>2 DEF Follows
  <2>3. CASE i > n /\ i < n + l
    <3>1. PICK j \in 1..l - 1 : i = n + j
      <4>1. i - n \in 1..l - 1 /\ i = n + (i - n)
        BY <2>3
      <4> QED
        BY <4>1
    <3>2. j \in 1..l /\ j + 1 \in 1..l /\ i + 1 = n + (j + 1)
      BY <3>1
    <3>3. v[i] = b[j] /\ v[i + 1] = b[j + 1]
      BY <1>1, <3>1, <3>2
    <3> QED
      BY <1>6, <3>3
  <2>4. CASE i = n + l
    <3>1. l \in 1..l /\ 2 \in 2..c /\ n + 1 \in 1..m - 1 /\ i + 1 = n + l + 2 - 1 /\ (n + 1) + 1 = n + 2
      BY <1>1, <1>7, <2>4
    <3>2. v[i] = b[l] /\ v[n + l + 2 - 1] = w[n + 2] /\ Follows(w[n + 1], w[(n + 1) + 1], up)
      BY <1>1, <1>4, <2>4, <3>1
    <3>3. v[i] = b[l] /\ v[i + 1] = w[n + 2] /\ Follows(h, w[n + 2], up)
      BY <1>7, <3>1, <3>2
    <3> QED
      BY <1>3, <1>5, <3>3 DEF Follows
  <2>5. CASE i > n + l
    <3>1. PICK j \in 2..c - 1 : i = n + l + j - 1
      <4>1. i - n - l + 1 \in 2..c - 1 /\ i = n + l + (i - n - l + 1) - 1
        BY <1>1, <1>7, <2>5
      <4> QED
        BY <4>1
    <3>2. /\ j \in 2..c /\ j + 1 \in 2..c /\ i + 1 = n + l + (j + 1) - 1
          /\ n + j \in 1..m - 1 /\ (n + j) + 1 = n + (j + 1)
      BY <1>7, <3>1
    <3>3. v[i] = w[n + j]
      BY <1>1, <3>1, <3>2
    <3>4. v[i + 1] = w[n + (j + 1)]
      BY <1>1, <3>2
    <3>5. Follows(w[n + j], w[n + (j + 1)], up)
      BY <1>4, <3>2
    <3> QED
      BY <3>3, <3>4, <3>5
  <2> QED
    BY <1>1, <2>1, <2>2, <2>3, <2>4, <2>5
<1>9. Before(v[1], up) = 0 /\ v[1].do.op # "reset"
  <2>1. CASE n = 0
    <3>1. v[1] = b[1] /\ w[1] = h
      <4>1. 1 \in 1..l /\ n + 1 = 1
        BY <1>1, <2>1
      <4> QED
        BY <1>1, <1>7, <4>1
    <3> QED
      BY <1>4, <1>5, <3>1
  <2>2. CASE n # 0
    <3>1. 1 \in 1..n
      BY <2>2
    <3> QED
      BY <1>1, <1>4, <3>1
  <2> QED
    BY <2>1, <2>2
<1>10. After(v[q], up) = 0
  <2>1. CASE c = 1
    <3>1. q = n + l /\ l \in 1..l /\ m = n + 1
      BY <1>1, <1>7, <2>1
    <3>2. v[q] = b[l] /\ w[m] = h
      BY <1>1, <1>7, <3>1
    <3> QED
      BY <1>4, <1>5, <3>2
  <2>2. CASE c # 1
    <3>1. c \in 2..c /\ q = n + l + c - 1 /\ m = n + c
      BY <1>1, <1>7, <2>2
    <3>2. v[q] = w[m]
      BY <1>1, <3>1
    <3> QED
      BY <1>4, <3>2
  <2> QED
    BY <2>1, <2>2
<1>11. ASSUME NEW i \in 1..m, i # n + 1, w[i].do.op = "enter", NEW s \in Local
       PROVE  Unset(v, Put(n, l, i) + 1, w[i].splice, s)
  <2> DEFINE kk == w[i].splice
  <2>1. PICK r \in 1..m : /\ i + 1 <= r /\ w[r].do.target = s
                          /\ \A j \in i + 1..r : w[j].do.op = "reset" /\ w[j].splice = kk
    <3>1. Unset(w, i + 1, kk, s)
      BY <1>4, <1>11
    <3> HIDE DEF kk
    <3> QED
      BY <1>1, <3>1 DEF Unset
  <2> HIDE DEF kk
  <2>2. CASE i <= n
    <3>1. r <= n
      <4>1. n + 1 \notin i + 1..r
        BY <1>3, <1>7, <2>1
      <4> QED
        BY <2>1, <2>2, <4>1
    <3>2. n \in 0..Len(w) /\ i + 1 \in Nat /\ i + 1 >= 1 /\ 0 \in Int /\ Len(w) \in Nat /\ Len(v) \in Nat
      BY <1>1, <1>7
    <3>3. \A j \in i + 1..n : j + 0 \in 1..Len(v) /\ v[j + 0] = w[j]
      BY <1>1, <1>7
    <3>4. r \in i + 1..n
      BY <2>1, <3>1
    <3>5. \E x \in i + 1..n : /\ w[x].do.target = s
                              /\ \A j \in i + 1..x : w[j].do.op = "reset" /\ w[j].splice = kk
      BY <2>1, <3>4
    <3>6. Unset(v, i + 1 + 0, kk, s)
      BY <3>2, <3>3, <3>5, UnsetMoved
    <3>7. Put(n, l, i) + 1 = i + 1 + 0
      BY <2>2 DEF Put
    <3> QED
      BY <3>6, <3>7 DEF kk
  <2>3. CASE i > n
    <3> DEFINE d == l - 1
    <3>1. m \in 0..Len(w) /\ i + 1 \in Nat /\ i + 1 >= 1 /\ d \in Int /\ Len(w) \in Nat /\ Len(v) \in Nat
      BY <1>1, <1>7
    <3>2. ASSUME NEW j \in i + 1..m PROVE j + d \in 1..Len(v) /\ v[j + d] = w[j]
      <4>1. j - n \in 2..c /\ n + (j - n) = j /\ n + l + (j - n) - 1 = j + d /\ j + d \in 1..q
        BY <1>1, <1>7, <2>3
      <4> QED
        BY <1>1, <4>1
    <3>3. r \in i + 1..m
      BY <2>1
    <3>4. \E x \in i + 1..m : /\ w[x].do.target = s
                              /\ \A j \in i + 1..x : w[j].do.op = "reset" /\ w[j].splice = kk
      BY <2>1, <3>3
    <3> HIDE DEF d
    <3>5. Unset(v, i + 1 + d, kk, s)
      BY <3>1, <3>2, <3>4, UnsetMoved
    <3>6. Put(n, l, i) + 1 = i + 1 + d
      BY <2>3 DEF Put, d
    <3> QED
      BY <3>5, <3>6 DEF kk
  <2> QED
    BY <2>2, <2>3
<1>12. ASSUME NEW s \in Local PROVE Unset(v, n + 2, k, s)
  <2>1. PICK r \in 1..l : /\ 2 <= r /\ b[r].do.target = s
                          /\ \A j \in 2..r : b[j].do.op = "reset" /\ b[j].splice = k
    BY <1>1, ZenonT(60) DEF Scoped, Unset
  <2>2. l \in 0..Len(b) /\ n \in Int /\ 2 \in Nat /\ 2 >= 1 /\ Len(b) \in Nat /\ Len(v) \in Nat
    BY <1>1, <1>7
  <2>3. ASSUME NEW j \in 2..l PROVE j + n \in 1..Len(v) /\ v[j + n] = b[j]
    <3>1. j \in 1..l /\ j + n = n + j
      OBVIOUS
    <3> QED
      BY <1>1, <1>7, <3>1, SMTT(60)
  <2>4. r \in 2..l
    BY <2>1
  <2>5. \E x \in 2..l : /\ b[x].do.target = s
                        /\ \A j \in 2..x : b[j].do.op = "reset" /\ b[j].splice = k
    BY <2>1, <2>4
  <2>6. Unset(v, 2 + n, k, s)
    BY <2>2, <2>3, <2>5, UnsetMoved
  <2>7. 2 + n = n + 2
    OBVIOUS
  <2> QED
    BY <2>6, <2>7
<1>13. Shifted(w, v, b, n, l)
  BY <1>1, PutWell
<1>14. ASSUME NEW i \in 1..q
       PROVE  /\ v[i].do.op = "enter" => \A s \in Local : Unset(v, i + 1, v[i].splice, s)
              /\ v[i].do.op = "reset" => v[i].splice # 0 /\ v[i].do.target \in Local
  <2>1. CASE \E j \in 1..Len(w) : j # n + 1 /\ i = Put(n, l, j)
    <3>1. PICK j \in 1..m : j # n + 1 /\ i = Put(n, l, j)
      BY <1>1, <2>1
    <3>2. v[i] = w[j]
      BY <1>1, <1>13, <3>1 DEF Shifted
    <3> QED
      BY <1>4, <1>11, <3>1, <3>2
  <2>2. CASE \E j \in 1..l : i = n + j
    <3>1. PICK j \in 1..l : i = n + j
      BY <2>2
    <3>2. v[i] = b[j] /\ v[i].splice = k
      BY <1>1, <1>2, <3>1
    <3>3. CASE j = 1
      <4>1. i + 1 = n + 2 /\ v[i].do.op = "enter"
        BY <1>2, <3>1, <3>2, <3>3
      <4> QED
        BY <1>12, <3>2, <4>1
    <3>4. CASE j # 1
      <4>1. j \in 2..l /\ (j = l \/ j \in 2..l - 1)
        BY <3>4
      <4>2. b[j].do.op # "enter"
        BY <1>2, <4>1
      <4> QED
        BY <1>2, <3>2, <4>1, <4>2
    <3> QED
      BY <3>3, <3>4
  <2> QED
    BY <1>1, <1>13, <2>1, <2>2 DEF Shifted
<1> QED
  BY <1>1, <1>8, <1>9, <1>10, <1>14 DEF Laid

-----------------------------------------------------------------------------
(* A splice among those there are.                                         *)

\* What a call makes of its splice's symbols, in splice k of caller o.
Named(m, k, o, conns, w) ==
  /\ \A p \in Port : /\ m.names[p] = made[o].names[conns[p]]
                     /\ m.given[p] = made[o].cells[conns[p]]
                     /\ p \in w => m.cells[p] = made[o].cells[conns[p]]
                     /\ p \notin w => m.cells[p] = <<k, p>>
  /\ \A s \in Local : m.names[s] = <<k, s>> /\ m.cells[s] = <<k, s>>

\* A call of caller o to t adds splice k; two of its ports are one name only
\* where the splicer lets them be.
Adds(k, o, t, conns) ==
  /\ k \in Nat \ {0} /\ DOMAIN made = 0..k - 1 /\ DOMAIN made' = 0..k
  /\ \A j \in DOMAIN made : made'[j] = made[j]
  /\ t \in Template /\ o \in 0..k - 1
  /\ conns \in [Port -> Own(o)]
  /\ made'[k].template = t
  /\ Named(made'[k], k, o, conns, Writes(t))
  /\ \A p, q \in Port : p # q /\ made'[k].names[p] = made'[k].names[q] =>
       /\ p \notin Assigned(t)
       /\ ~relayed' => p \notin HandedOn(t)
  /\ relayed => relayed'
  /\ body' = body

\* A splice adds itself so to those there are.
LEMMA SpliceAdded ==
  ASSUME SpliceInv, SpliceCall
  PROVE  Adds(Cardinality(DOMAIN made), Head(rest).splice, Head(rest).do.to, Head(rest).do.conns)
<1> DEFINE h == Head(rest)
           t == h.do.to
           o == h.splice
           k == Cardinality(DOMAIN made)
<1>1. /\ phase = "splicing" /\ rest # <<>> /\ h.do.op = "call"
      /\ ~Clobbered(h)
      /\ made' = [j \in DOMAIN made \cup {k} |->
                    IF j = k THEN [template |-> t, names |-> Renaming(h, k),
                                   cells |-> Cells(h, k), given |-> Given(h)]
                    ELSE made[j]]
      /\ relayed' = (relayed \/ \E p, q \in Port : p # q /\ Actuals(h)[p] = Actuals(h)[q]
                                                   /\ p \in HandedOn(t))
      /\ body' = body
  BY DEF SpliceCall
<1>2. PICK last \in Nat : DOMAIN made = 0..last
  BY DEF SpliceInv, Made
<1>3. k = last + 1 /\ k \in Nat \ {0} /\ k \notin DOMAIN made /\ DOMAIN made \cup {k} = 0..last + 1
  BY <1>2, NextSplice
<1>4. rest \in Seq(FlatSteps) /\ \A i \in 1..Len(rest) : rest[i].splice \in DOMAIN made /\ Fits(rest[i])
  BY DEF SpliceInv, Sound
<1>5. 1 \in 1..Len(rest) /\ h = rest[1]
  BY <1>1, <1>4
<1>6. o \in DOMAIN made /\ t \in Template /\ h.do.conns \in [Port -> Own(o)]
  BY <1>1, <1>4, <1>5 DEF Fits
<1> DEFINE m == [template |-> t, names |-> Renaming(h, k), cells |-> Cells(h, k), given |-> Given(h)]
<1> HIDE DEF h, t, o, k
<1>7. h.do.to = t /\ h.splice = o
  BY DEF t, o
<1>8. /\ made' = [j \in DOMAIN made \cup {k} |-> IF j = k THEN m ELSE made[j]]
      /\ m.template = t /\ m.names = Renaming(h, k) /\ m.cells = Cells(h, k) /\ m.given = Given(h)
  BY <1>1
<1> HIDE DEF m
<1>9. DOMAIN made' = DOMAIN made \cup {k} /\ made'[k] = m /\ \A j \in DOMAIN made : made'[j] = made[j]
  BY <1>3, <1>8, Zenon
<1>10. ASSUME NEW p \in Port
       PROVE  /\ Actuals(h)[p] = made[o].names[h.do.conns[p]] /\ m.names[p] = Actuals(h)[p]
              /\ m.given[p] = made[o].cells[h.do.conns[p]]
              /\ p \in Writes(t) => m.cells[p] = made[o].cells[h.do.conns[p]]
              /\ p \notin Writes(t) => m.cells[p] = <<k, p>>
  BY <1>7, <1>8 DEF Renaming, Actuals, Cells, Given
<1>11. ASSUME NEW s \in Local PROVE m.names[s] = <<k, s>> /\ m.cells[s] = <<k, s>>
  <2>1. s \notin Port /\ s \notin Writes(t)
    BY SpliceAssumption DEF Writes
  <2> QED
    BY <1>7, <1>8, <2>1 DEF Renaming, Cells
<1>12. Named(m, k, o, h.do.conns, Writes(t))
  BY <1>10, <1>11 DEF Named
<1>13. ASSUME NEW p \in Port, NEW q \in Port, p # q, m.names[p] = m.names[q]
       PROVE  /\ p \notin Assigned(t)
              /\ ~relayed' => p \notin HandedOn(t)
  <2>1. Actuals(h)[p] = Actuals(h)[q]
    BY <1>10, <1>13
  <2> QED
    BY <1>1, <1>7, <1>13, <2>1 DEF Clobbered
<1>14. relayed => relayed'
  BY <1>1
<1>15. DOMAIN made = 0..k - 1 /\ DOMAIN made' = 0..k
  BY <1>2, <1>3, <1>9
<1> QED
  <2>1. Adds(k, o, t, h.do.conns)
    BY <1>1, <1>3, <1>6, <1>8, <1>9, <1>12, <1>13, <1>14, <1>15 DEF Adds
  <2> QED
    BY <2>1 DEF h, t, o, k

\* Splices that were there before stand as they did.
LEMMA TreeStays ==
  ASSUME NEW up, NEW live, Tree(up, live), NEW up2, NEW live2, NEW k \in Nat, DOMAIN made = 0..k - 1,
         body' = body, DOMAIN made \subseteq DOMAIN made', \A j \in DOMAIN made : made'[j] = made[j],
         relayed => relayed',
         \A j \in DOMAIN made : up2[j] = up[j] /\ live2[j] = live[j],
         NEW j \in DOMAIN made
  PROVE  (j # 0 => Bound(j, up2, live2)') /\ Stands(j, live2)'
<1>1. made'[j] = made[j] /\ up2[j] = up[j] /\ live2[j] = live[j] /\ j \in 0..k - 1
  OBVIOUS
<1>2. Stands(j, live) /\ (j # 0 => Bound(j, up, live))
  BY DEF Tree
<1>3. ASSUME j # 0 PROVE Bound(j, up2, live2)'
  <2>1. Bound(j, up, live) /\ up[j] \in DOMAIN made
    BY <1>2, <1>3 DEF Bound
  <2>2. made'[up[j]] = made[up[j]] /\ live2[up[j]] = live[up[j]] /\ up[j] \in DOMAIN made'
    BY <2>1
  <2>3. Inherits(j, up2[j])'
    BY <1>1, <2>1, <2>2 DEF Bound, Inherits, Own
  <2> QED
    BY <1>1, <2>1, <2>2, <2>3 DEF Bound
<1>4. ASSUME NEW m \in live2[j] PROVE Alike(j, m)'
  <2>1. m \in live[j] /\ m \in 0..j
    BY <1>1, <1>2 DEF Stands
  <2>2. m \in DOMAIN made
    BY <1>1, <2>1
  <2>3. made'[m] = made[m] /\ Alike(j, m)
    BY <1>2, <2>1, <2>2 DEF Stands
  <2>4. Written(j)' = Written(j)
    BY <1>1, WritesKept DEF Written
  <2>5. ASSUME NEW s \in Own(j), NEW u \in Own(m)
        PROVE  made'[j].cells[s] = made'[m].cells[u] => made'[j].names[s] = made'[m].names[u]
    BY <1>1, <2>3 DEF Alike
  <2>6. ASSUME ~relayed', NEW s \in Written(j), NEW u \in Own(m)
        PROVE  made'[j].names[s] = made'[m].names[u] => made'[j].cells[s] = made'[m].cells[u]
    BY <1>1, <2>3, <2>6 DEF Alike
  <2> QED
    BY <2>4, <2>5, <2>6 DEF Alike, Own
<1>5. Stands(j, live2)'
  BY <1>1, <1>2, <1>4 DEF Stands, Own
<1> QED
  BY <1>3, <1>5

\* What a splice writes through, its caller writes through.
LEMMA CallerWrites ==
  ASSUME SpliceInv, NEW up, NEW live, Tree(up, live), NEW st, st.splice \in DOMAIN made,
         st.do.op = "call", st.do.conns \in [Port -> Own(st.splice)],
         st.splice # 0 => \E x \in DOMAIN body[made[st.splice].template] :
                            body[made[st.splice].template][x] = st.do,
         NEW q \in Writes(st.do.to)
  PROVE  st.do.conns[q] \in Written(st.splice)
<1> DEFINE o == st.splice
<1>1. q \in Port
  BY DEF Writes
<1>2. st.do.conns[q] \in Own(o)
  BY <1>1
<1>3. CASE o = 0
  BY <1>2, <1>3 DEF Own, Written
<1>4. CASE o # 0
  <2> DEFINE t == made[o].template
  <2>1. t \in Template
    BY <1>4 DEF Tree, Bound
  <2>2. PICK x \in DOMAIN body[t] : body[t][x] = st.do
    BY <1>4
  <2> HIDE DEF t
  <2>3. st.do.conns[q] \in Port => st.do.conns[q] \in Writes(t)
    BY <1>1, <2>1, <2>2, WritesLeast
  <2> QED
    BY <1>2, <1>4, <2>3 DEF Own, Written, t
<1> QED
  BY <1>3, <1>4

\* The new splice is named like those it stands in.
LEMMA TreeGrows ==
  ASSUME SpliceInv, NEW up, NEW live, Tree(up, live), NEW k, NEW o, NEW t, NEW conns,
         Adds(k, o, t, conns), \A q \in Writes(t) : conns[q] \in Written(o),
         NEW up2, NEW live2,
         \A j \in DOMAIN made : up2[j] = up[j] /\ live2[j] = live[j],
         up2[k] = o, live2[k] = live[o] \cup {k}
  PROVE  Tree(up2, live2)'
<1> DEFINE new == made'[k]
<1>1. /\ k \in Nat \ {0} /\ DOMAIN made = 0..k - 1 /\ DOMAIN made' = 0..k
      /\ \A j \in DOMAIN made : made'[j] = made[j]
      /\ t \in Template /\ o \in 0..k - 1
      /\ conns \in [Port -> Own(o)]
      /\ new.template = t
      /\ Named(new, k, o, conns, Writes(t))
      /\ \A p, q \in Port : p # q /\ new.names[p] = new.names[q] =>
           /\ p \notin Assigned(t)
           /\ ~relayed' => p \notin HandedOn(t)
      /\ relayed => relayed'
      /\ body' = body
  BY DEF Adds
<1>2. up2[k] = o /\ live2[k] = live[o] \cup {k}
  OBVIOUS
<1>5. o \in DOMAIN made
  BY <1>1
<1>6. ASSUME NEW q \in Writes(t) PROVE conns[q] \in Written(o)
  OBVIOUS
<1>7. Writes(t) \subseteq Port /\ Writes(t) \subseteq Assigned(t) \cup HandedOn(t)
  BY <1>1, WritesLeast DEF Writes
<1>8. made'[o] = made[o] /\ up2[o] = up[o] /\ live2[o] = live[o]
  BY <1>5, <1>1
<1> HIDE DEF new
<1>0. /\ k \in Nat /\ k # 0 /\ k >= 1 /\ o \in 0..k - 1
      /\ DOMAIN made = 0..k - 1 /\ DOMAIN made' = 0..k
  BY <1>1
<1>9. Port \cap Local = {} /\ Own(k) = Port \cup Local 
  BY <1>1, SpliceAssumption DEF Own
<1>10. /\ \A p \in Port : /\ new.names[p] = made[o].names[conns[p]]
                          /\ new.given[p] = made[o].cells[conns[p]]
                          /\ p \in Writes(t) => new.cells[p] = made[o].cells[conns[p]]
                          /\ p \notin Writes(t) => new.cells[p] = <<k, p>>
                          /\ conns[p] \in Own(o)
       /\ \A s \in Local : new.names[s] = <<k, s>> /\ new.cells[s] = <<k, s>>
  BY <1>1 DEF Named
<1>11. Stands(o, live)
  BY <1>5 DEF Tree
<1>12. /\ o \in live[o] /\ 0 \in live[o] /\ live[o] \subseteq 0..o
       /\ \A s \in Own(o) : made[o].names[s][1] \in 0..o /\ made[o].cells[s][1] \in 0..o
       /\ \A m \in live[o] : Alike(o, m)
  BY <1>11 DEF Stands
<1>13. ASSUME NEW m \in live[o]
       PROVE  /\ m \in DOMAIN made /\ m < k /\ made'[m] = made[m]
              /\ \A u \in Own(m) : made[m].names[u][1] # k /\ made[m].cells[u][1] # k
  <2>1. m \in DOMAIN made /\ m < k
    <3>1. m \in 0..o
      BY <1>12
    <3> QED
      BY <1>0, <3>1
  <2>2. Stands(m, live)
    BY <2>1 DEF Tree
  <2>3. ASSUME NEW u \in Own(m) PROVE made[m].names[u][1] # k /\ made[m].cells[u][1] # k
    <3>1. made[m].names[u][1] \in 0..m /\ made[m].cells[u][1] \in 0..m
      BY <2>2 DEF Stands
    <3> QED
      BY <1>0, <2>1, <3>1
  <2> QED
    BY <1>1, <2>1, <2>3
<1>14. \A p \in Port : new.names[p][1] \in 0..k - 1 /\ new.names[p][1] # k
  BY <1>0, <1>10, <1>12
<1>15. \A s \in Own(k) : new.names[s][1] \in 0..k /\ new.cells[s][1] \in 0..k
  <2>1. ASSUME NEW s \in Local PROVE new.names[s][1] \in 0..k /\ new.cells[s][1] \in 0..k
    BY <1>1, <1>10
  <2>2. ASSUME NEW p \in Port PROVE new.names[p][1] \in 0..k /\ new.cells[p][1] \in 0..k
    <3>1. new.names[p][1] \in 0..k
      BY <1>1, <1>14
    <3>2. new.cells[p] = <<k, p>> \/ new.cells[p] = made[o].cells[conns[p]]
      BY <1>10
    <3>3. made[o].cells[conns[p]][1] \in 0..o /\ <<k, p>>[1] = k
      BY <1>10, <1>12
    <3> QED
      BY <1>1, <3>1, <3>2, <3>3
  <2> QED
    BY <1>9, <2>1, <2>2
\* A cell of the new splice is its own or one that its caller passed.
<1>16. ASSUME NEW s \in Own(k)
       PROVE  \/ s \in Writes(t) /\ s \in Port /\ new.cells[s] = made[o].cells[conns[s]]
                 /\ new.cells[s][1] # k
              \/ new.cells[s] = <<k, s>>
  <2>1. CASE s \in Writes(t)
    <3>1. s \in Port /\ new.cells[s] = made[o].cells[conns[s]]
      BY <1>7, <1>10, <2>1
    <3>2. made[o].cells[conns[s]][1] \in 0..o
      BY <1>10, <1>12, <3>1
    <3> QED
      BY <1>0, <2>1, <3>1, <3>2
  <2>2. CASE s \notin Writes(t)
    BY <1>9, <1>10, <2>2
  <2> QED
    BY <2>1, <2>2
<1>17. ASSUME NEW m \in live[o], NEW s \in Own(k), NEW u \in Own(m), new.cells[s] = made[m].cells[u]
       PROVE  new.names[s] = made[m].names[u]
  <2>1. made[m].cells[u][1] # k
    BY <1>13
  <2>2. new.cells[s] # <<k, s>>
    BY <1>17, <2>1
  <2>3. s \in Port /\ new.cells[s] = made[o].cells[conns[s]]
    BY <1>16, <2>2
  <2>4. made[o].names[conns[s]] = made[m].names[u]
    <3>1. Alike(o, m) /\ conns[s] \in Own(o)
      BY <1>10, <1>12, <2>3
    <3>2. made[o].cells[conns[s]] = made[m].cells[u]
      BY <1>17, <2>3
    <3> QED
      BY <3>1, <3>2 DEF Alike
  <2> QED
    BY <1>10, <2>3, <2>4
<1>18. ASSUME ~relayed', NEW m \in live[o], NEW s \in Local \cup Writes(t), NEW u \in Own(m),
              new.names[s] = made[m].names[u]
       PROVE  new.cells[s] = made[m].cells[u]
  <2>1. made[m].names[u][1] # k
    BY <1>13
  <2>2. s \notin Local
    BY <1>10, <1>18, <2>1
  <2>3. s \in Writes(t) /\ s \in Port
    BY <1>7, <2>2
  <2>4. conns[s] \in Written(o) /\ ~relayed
    BY <1>1, <1>6, <1>18, <2>3
  <2>5. made[o].cells[conns[s]] = made[m].cells[u]
    BY <1>10, <1>12, <1>18, <2>3, <2>4 DEF Alike
  <2> QED
    BY <1>10, <2>3, <2>5
<1>19. ASSUME NEW s \in Own(k), NEW u \in Own(k), new.cells[s] = new.cells[u]
       PROVE  new.names[s] = new.names[u]
  <2>1. CASE new.cells[s] = <<k, s>> /\ new.cells[u] = <<k, u>>
    <3>1. <<k, s>> = <<k, u>>
      BY <1>19, <2>1
    <3>2. s = u
      BY <3>1
    <3> QED
      BY <3>2
  <2>2. CASE new.cells[s] = <<k, s>> /\ new.cells[u][1] # k
    BY <1>19, <2>2
  <2>3. CASE new.cells[u] = <<k, u>> /\ new.cells[s][1] # k
    BY <1>19, <2>3
  <2>4. CASE /\ s \in Port /\ new.cells[s] = made[o].cells[conns[s]]
             /\ u \in Port /\ new.cells[u] = made[o].cells[conns[u]]
    <3>1. made[o].names[conns[s]] = made[o].names[conns[u]]
      <4>1. Alike(o, o) /\ conns[s] \in Own(o) /\ conns[u] \in Own(o)
        BY <1>10, <1>12, <2>4
      <4>2. made[o].cells[conns[s]] = made[o].cells[conns[u]]
        BY <1>19, <2>4
      <4> QED
        BY <4>1, <4>2 DEF Alike
    <3> QED
      BY <1>10, <2>4, <3>1
  <2> QED
    BY <1>16, <2>1, <2>2, <2>3, <2>4
<1>20. ASSUME ~relayed', NEW s \in Local \cup Writes(t), NEW u \in Own(k), new.names[s] = new.names[u]
       PROVE  new.cells[s] = new.cells[u]
  <2>1. CASE s = u
    BY <2>1
  <2>2. CASE s # u /\ s \in Local
    <3>1. new.names[s] = <<k, s>>
      BY <1>10, <2>2
    <3>2. ASSUME u \in Local PROVE FALSE
      <4>1. new.names[u] = <<k, u>>
        BY <1>10, <3>2
      <4>2. <<k, s>> = <<k, u>>
        BY <1>20, <3>1, <4>1
      <4> QED
        BY <2>2, <4>2
    <3>3. u \in Port /\ new.names[u][1] # k
      BY <1>9, <1>14, <3>2
    <3> QED
      BY <1>20, <3>1, <3>3
  <2>3. CASE s # u /\ s \notin Local /\ u \in Local
    <3>1. new.names[u] = <<k, u>> /\ s \in Port
      BY <1>7, <1>10, <2>3
    <3>2. new.names[s][1] # k
      BY <1>14, <3>1
    <3> QED
      BY <1>20, <3>1, <3>2
  <2>4. CASE s # u /\ s \notin Local /\ u \notin Local
    <3>1. s \in Port /\ u \in Port /\ s \in Assigned(t) \cup HandedOn(t)
      BY <1>7, <1>9, <2>4
    <3> QED
      BY <1>1, <1>20, <2>4, <3>1
  <2> QED
    BY <2>1, <2>2, <2>3, <2>4
<1>21. made'[k] = new /\ Written(k)' = Local \cup Writes(t)
  <2>1. made'[k] = new
    BY DEF new
  <2> QED
    BY <1>1, <2>1, WritesKept DEF Written
<1>22. ASSUME NEW m \in live2[k] PROVE Alike(k, m)'
  <2>1. CASE m = k
    <3>1. \A s \in Own(k), u \in Own(k) : new.cells[s] = new.cells[u] => new.names[s] = new.names[u]
      BY <1>19
    <3>2. ~relayed' => \A s \in Local \cup Writes(t), u \in Own(k) :
                         new.names[s] = new.names[u] => new.cells[s] = new.cells[u]
      BY <1>20
    <3> QED
      BY <1>21, <2>1, <3>1, <3>2 DEF Alike, Own
  <2>2. CASE m \in live[o]
    <3>1. \A s \in Own(k), u \in Own(m) :
            new.cells[s] = made[m].cells[u] => new.names[s] = made[m].names[u]
      BY <1>17, <2>2
    <3>2. ~relayed' => \A s \in Local \cup Writes(t), u \in Own(m) :
                         new.names[s] = made[m].names[u] => new.cells[s] = made[m].cells[u]
      BY <1>18, <2>2
    <3>3. made'[m] = made[m]
      BY <1>13, <2>2
    <3> QED
      BY <1>21, <3>1, <3>2, <3>3 DEF Alike, Own
  <2> QED
    BY <1>2, <2>1, <2>2
<1>23. Stands(k, live2)'
  <2>1. live2[k] = live[o] \cup {k}
    BY <1>2
  <2>2. k \in live2[k] /\ 0 \in live2[k] /\ live2[k] \subseteq 0..k
    BY <1>1, <1>12, <2>1
  <2> QED
    BY <1>15, <1>21, <1>22, <2>2 DEF Stands, Own
<1>24. Bound(k, up2, live2)'
  <2>1. up2[k] = o /\ live2[k] = live2[o] \cup {k}
    BY <1>2, <1>8
  <2>2. o \in DOMAIN made' /\ o < k
    BY <1>0
  <2>3. Inherits(k, o)'
    <3>1. ASSUME NEW p \in Port
          PROVE  \E u \in Own(o) : /\ new.names[p] = made[o].names[u]
                                   /\ new.given[p] = made[o].cells[u]
                                   /\ new.cells[p] \in {made[o].cells[u], <<k, p>>}
      BY <1>10
    <3> QED
      BY <1>8, <1>21, <3>1 DEF Inherits, Own
  <2> QED
    BY <1>1, <1>10, <1>14, <1>21, <2>1, <2>2, <2>3 DEF Bound
<1>25. ASSUME NEW j \in DOMAIN made PROVE (j # 0 => Bound(j, up2, live2)') /\ Stands(j, live2)'
  <2>1. DOMAIN made \subseteq DOMAIN made' /\ k \in Nat
    BY <1>0
  <2> QED
    BY <1>1, <1>0, <2>1, TreeStays, SMTT(60)
<1>26. 0 \in DOMAIN made /\ live2[0] = live[0] /\ made'[0] = made[0]
  <2>1. 0 \in DOMAIN made
    BY <1>0
  <2> QED
    BY <1>1, <2>1
<1>27. ASSUME NEW j \in DOMAIN made' PROVE (j # 0 => Bound(j, up2, live2)') /\ Stands(j, live2)'
  <2>1. j = k \/ j \in DOMAIN made
    BY <1>0
  <2> QED
    BY <1>23, <1>24, <1>25, <2>1
<1>28. live2[0] = {0} /\ \A s \in Var : made'[0].names[s] = <<0, s>> /\ made'[0].cells[s] = <<0, s>>
  BY <1>26 DEF Tree
<1> QED
  BY <1>27, <1>28 DEF Tree

\* Laid steps of splices there were are laid when there are more.
LEMMA LaidStays ==
  ASSUME NEW w, NEW up, NEW up2, NEW ks, Laid(w, up), Len(w) \in Nat,
         \A i \in 1..Len(w) : w[i].splice \in ks, \A j \in ks : up2[j] = up[j]
  PROVE  Laid(w, up2)
<1>1. ASSUME NEW i \in 1..Len(w)
      PROVE  Before(w[i], up2) = Before(w[i], up) /\ After(w[i], up2) = After(w[i], up)
  BY DEF Before, After
<1>2. ASSUME NEW i \in 1..Len(w) - 1 PROVE Follows(w[i], w[i + 1], up2)
  <2>1. i \in 1..Len(w) /\ i + 1 \in 1..Len(w)
    OBVIOUS
  <2>2. Follows(w[i], w[i + 1], up)
    BY DEF Laid
  <2> QED
    BY <1>1, <2>1, <2>2 DEF Follows
<1>3. ASSUME 1 \in 1..Len(w)
      PROVE  Before(w[1], up2) = 0 /\ w[1].do.op # "reset" /\ After(w[Len(w)], up2) = 0
  <2>1. Len(w) \in 1..Len(w)
    BY <1>3
  <2> QED
    BY <1>1, <1>3, <2>1 DEF Laid
<1> QED
  BY <1>2, <1>3 DEF Laid

\* A call gives way to a splice.
LEMMA CallPlaced ==
  ASSUME SpliceInv, SpliceCall, NEW up, NEW live, Placed(up, live)
  PROVE  \E up2, live2 : Placed(up2, live2)'
<1>1. PICK k : k = Cardinality(DOMAIN made)
  OBVIOUS
<1>2. PICK h : h = Head(rest)
  OBVIOUS
<1>3. PICK t : t = h.do.to
  OBVIOUS
<1>4. PICK b : b = Spliced(t, k)
  OBVIOUS
<1>5. /\ rest # <<>> /\ h.do.op = "call" /\ ~Strays(t)
      /\ steps' = steps \o b /\ rest' = Tail(rest) /\ body' = body
  BY <1>1, <1>2, <1>3, <1>4 DEF SpliceCall
<1>6. Adds(k, h.splice, t, h.do.conns)
  BY <1>1, <1>2, <1>3, SpliceAdded
<1> HIDE <1>1
<1>7. /\ k \in Nat \ {0} /\ DOMAIN made = 0..k - 1 /\ DOMAIN made' = 0..k
      /\ \A j \in DOMAIN made : made'[j] = made[j]
      /\ t \in Template /\ made'[k].template = t /\ h.splice \in DOMAIN made
      /\ h.do.conns \in [Port -> Own(h.splice)]
  BY <1>6 DEF Adds
<1>8. k \notin DOMAIN made /\ k \in Nat
  BY <1>7
<1> DEFINE up2 == [j \in 0..k |-> IF j = k THEN h.splice ELSE up[j]]
           live2 == [j \in 0..k |-> IF j = k THEN live[h.splice] \cup {k} ELSE live[j]]
<1>9. /\ up2[k] = h.splice /\ live2[k] = live[h.splice] \cup {k}
      /\ \A j \in DOMAIN made : up2[j] = up[j] /\ live2[j] = live[j]
  <2>1. k \in 0..k /\ \A j \in DOMAIN made : j \in 0..k /\ j # k
    BY <1>7
  <2> QED
    BY <2>1
<1> HIDE DEF up2, live2
<1>10. /\ steps \in Seq(FlatSteps) /\ rest \in Seq(FlatSteps)
       /\ \A i \in 1..Len(steps) : steps[i].splice \in DOMAIN made
       /\ \A i \in 1..Len(rest) : rest[i].splice \in DOMAIN made
  BY DEF SpliceInv, Sound
<1>11. body[t] \in Seq(StepsOver(Port \cup Local))
  BY <1>7, BodyTyped DEF SpliceInv, Passing
<1>12. b \in Seq(FlatSteps) /\ Len(b) \in Nat /\ Scoped(b, Len(b), k)
  BY <1>4, <1>5, <1>7, <1>11, BlockSound, BlockScoped
<1>13. PICK w : w = steps \o rest
  OBVIOUS
<1>14. PICK v : v = (steps \o b) \o Tail(rest)
  OBVIOUS
<1>15. whole = w /\ whole' = v
  BY <1>5, <1>13, <1>14 DEF whole
<1>16. /\ w \in Seq(FlatSteps) /\ v \in Seq(FlatSteps) /\ w[Len(steps) + 1] = h
       /\ InPlace(w, v, b, Len(steps), Len(rest), Len(b))
  BY <1>2, <1>5, <1>10, <1>12, <1>13, <1>14, Replaced, Zenon
<1>17. /\ Len(w) = Len(steps) + Len(rest)
       /\ \A i \in 1..Len(steps) : w[i] = steps[i]
       /\ \A i \in 1..Len(rest) : w[Len(steps) + i] = rest[i]
  BY <1>10, <1>13, Joined
<1> DEFINE n == Len(steps)
           c == Len(rest)
           l == Len(b)
<1>18. n \in Nat /\ c \in Nat /\ c >= 1 /\ l \in Nat
  BY <1>5, <1>10, <1>12
<1> HIDE DEF n, c, l
<1>19. ASSUME NEW i \in 1..Len(w) PROVE w[i].splice \in DOMAIN made
  <2>1. CASE i <= n
    BY <1>10, <1>17, <1>18, <2>1 DEF n
  <2>2. CASE i > n
    <3>1. i - n \in 1..c /\ i = n + (i - n)
      BY <1>17, <1>18, <2>2 DEF n, c
    <3>2. w[i] = rest[i - n]
      BY <1>17, <3>1 DEF n, c
    <3> QED
      BY <1>10, <3>1, <3>2 DEF c
  <2> QED
    BY <1>18, <2>1, <2>2
<1>20. Laid(v, up2)
  <2>1. Laid(w, up)
    BY <1>15 DEF Placed
  <2>2. Laid(w, up2)
    <3>1. Len(w) \in Nat
      BY <1>16
    <3>2. \A i \in 1..Len(w) : w[i].splice \in DOMAIN made
      BY <1>19
    <3>3. \A j \in DOMAIN made : up2[j] = up[j]
      BY <1>9
    <3> QED
      BY <2>1, <3>1, <3>2, <3>3, LaidStays, Zenon
  <2>3. InPlace(w, v, b, n, c, l) /\ Scoped(b, l, k) /\ w[n + 1].do.op = "call" /\ up2[k] = w[n + 1].splice
    BY <1>5, <1>9, <1>12, <1>16 DEF n, c, l
  <2> QED
    BY <1>7, <1>18, <2>2, <2>3, LaidPut
<1>21. Stems(w)
  BY <1>15 DEF Placed, Stems
<1>22. Shifted(w, v, b, n, l)
  <2>1. l >= 1
    BY <1>12, <1>18 DEF Scoped, l
  <2> QED
    BY <1>16, <1>18, <2>1, PutWell DEF n, c, l
<1>23. ASSUME NEW i \in 1..Len(v), v[i].splice # 0, v[i].do.op \in {"assign", "call"}
       PROVE  \E x \in DOMAIN body[made'[v[i].splice].template] :
                body[made'[v[i].splice].template][x] = v[i].do
  <2>1. CASE \E j \in 1..Len(w) : j # n + 1 /\ i = Put(n, l, j)
    <3>1. PICK j \in 1..Len(w) : j # n + 1 /\ i = Put(n, l, j)
      BY <2>1
    <3>2. v[i] = w[j]
      BY <1>22, <3>1 DEF Shifted
    <3>3. made'[v[i].splice] = made[w[j].splice]
      BY <1>7, <1>19, <3>2
    <3>4. \E x \in DOMAIN body[made[w[j].splice].template] :
            body[made[w[j].splice].template][x] = w[j].do
      BY <1>21, <1>23, <3>2 DEF Stems
    <3> QED
      BY <3>2, <3>3, <3>4
  <2>2. CASE \E j \in 1..l : i = n + j
    <3>1. PICK j \in 1..l : i = n + j
      BY <2>2
    <3>2. v[i] = b[j]
      BY <1>22, <3>1 DEF Shifted
    <3>3. /\ b[1] = Flat(k, [op |-> "enter"], <<t, k>>)
          /\ b[l] = Flat(k, [op |-> "end"], <<t, k>>)
          /\ \A x \in 2..l - 1 : InBlock(b[x], t, k)
          /\ \A x \in 1..l : b[x].splice = k
      <4>1. /\ b[1] = Flat(k, [op |-> "enter"], <<t, k>>)
            /\ b[Len(b)] = Flat(k, [op |-> "end"], <<t, k>>)
            /\ \A x \in 2..Len(b) - 1 : InBlock(b[x], t, k)
        BY <1>4, <1>7, <1>11, BlockShape
      <4>2. \A x \in 1..Len(b) : b[x].splice = k
        BY <1>12 DEF Scoped
      <4> QED
        BY <4>1, <4>2 DEF l
    <3>4. j # 1 /\ j # l
      BY <1>23, <3>2, <3>3 DEF Flat
    <3>5. InBlock(b[j], t, k)
      <4>1. j \in 2..l - 1
        BY <1>18, <3>4
      <4> QED
        BY <3>3, <4>1
    <3>6. \E x \in 1..Len(body[t]) : b[j].do = body[t][x]
      BY <1>23, <3>2, <3>5 DEF InBlock
    <3>7. DOMAIN body[t] = 1..Len(body[t]) /\ made'[v[i].splice].template = t
      BY <1>7, <1>11, <3>2, <3>3
    <3> QED
      BY <3>2, <3>6, <3>7
  <2> QED
    BY <1>22, <2>1, <2>2 DEF Shifted
<1>24. Stems(whole)'
  BY <1>5, <1>15, <1>23 DEF Stems
<1>25. Laid(whole, up2)'
  <2>1. Laid(whole', up2)
    BY <1>15, <1>20
  <2> QED
    BY <2>1 DEF Laid, Follows, Before, After, Unset
<1>26. ASSUME NEW q \in Writes(t) PROVE h.do.conns[q] \in Written(h.splice)
  <2>1. Tree(up, live)
    BY DEF Placed
  <2>2. n + 1 \in 1..Len(w) /\ w[n + 1] = h
    BY <1>16, <1>17, <1>18 DEF n, c
  <2>3. h.splice # 0 => \E x \in DOMAIN body[made[h.splice].template] :
                          body[made[h.splice].template][x] = h.do
    BY <1>5, <1>21, <2>2 DEF Stems
  <2> QED
    BY <1>3, <1>5, <1>7, <2>1, <2>3, CallerWrites
<1>27. Tree(up2, live2)'
  BY <1>6, <1>9, <1>26, TreeGrows DEF Placed
<1>28. Placed(up2, live2)'
  BY <1>24, <1>25, <1>27 DEF Placed
<1> QED
  BY <1>28

-----------------------------------------------------------------------------
(* The program runs beside its promise.                                    *)

\* A splice the program stands in.
LEMMA StandsIn ==
  ASSUME SpliceInv, NEW up, NEW live, Tree(up, live), NEW k \in DOMAIN made, NEW m \in live[k]
  PROVE  /\ k \in Nat /\ m \in DOMAIN made /\ m \in 0..k
         /\ \A s \in Own(m) : /\ made[m].names[s][1] \in 0..m /\ made[m].cells[s][1] \in 0..m
                              /\ made[m].names[s] \in DOMAIN env /\ made[m].cells[s] \in DOMAIN env
         /\ m # 0 => \A s \in Local : made[m].names[s] = <<m, s>> /\ made[m].cells[s] = <<m, s>>
<1>1. PICK n \in Nat : DOMAIN made = 0..n
  BY DEF SpliceInv, Made
<1>2. m \in 0..k /\ k \in Nat
  BY <1>1 DEF Tree, Stands
<1>3. m \in DOMAIN made
  BY <1>1, <1>2
<1>4. Stands(m, live) /\ (m # 0 => Bound(m, up, live))
  BY <1>3 DEF Tree
<1>5. \A s \in Own(m) : made[m].names[s] \in DOMAIN env /\ made[m].cells[s] \in DOMAIN env
  BY <1>3 DEF SpliceInv, Made
<1> QED
  BY <1>2, <1>3, <1>4, <1>5 DEF Stands, Bound

\* Where a step finds the program and leaves it, and what is unset there.
LEMMA StepOn ==
  ASSUME SpliceInv, phase = "running", NEW up, NEW live, Placed(up, live), NEW i \in 1..Len(steps)
  PROVE  /\ Control(i, up) = Before(steps[i], up)
         /\ Control(i + 1, up) = After(steps[i], up)
         /\ \A m, s : Unset(steps, i, m, s) => steps[i].do.op = "reset" /\ steps[i].splice = m
         /\ \A m, s : Unset(steps, i + 1, m, s) => steps[i].do.op \in {"enter", "reset"} /\ steps[i].splice = m
<1>1. steps \in Seq(FlatSteps) /\ Len(steps) \in Nat /\ rest = <<>>
  BY DEF SpliceInv, Sound, Passing
<1>2. Laid(steps, up)
  <2>1. whole = steps
    BY <1>1, ConcatEmptySeq DEF whole
  <2> QED
    BY <2>1 DEF Placed
<1>3. Control(i, up) = Before(steps[i], up)
  BY DEF Control
<1>4. ASSUME NEW m, NEW s, Unset(steps, i, m, s)
      PROVE  steps[i].do.op = "reset" /\ steps[i].splice = m
  <2>1. PICK r \in 1..Len(steps) : i <= r /\ \A j \in i..r : steps[j].do.op = "reset" /\ steps[j].splice = m
    BY <1>4 DEF Unset
  <2> QED
    BY <1>1, <2>1
<1>5. CASE i = Len(steps)
  <2>1. i + 1 \notin 1..Len(steps) /\ 1 \in 1..Len(steps)
    BY <1>1, <1>5
  <2>2. After(steps[Len(steps)], up) = 0
    BY <1>2, <2>1 DEF Laid
  <2>3. Control(i + 1, up) = After(steps[i], up)
    BY <1>5, <2>1, <2>2 DEF Control
  <2>4. \A m, s : ~Unset(steps, i + 1, m, s)
    BY <1>1, <1>5 DEF Unset
  <2> QED
    BY <1>3, <1>4, <2>3, <2>4
<1>6. CASE i # Len(steps)
  <2>1. i \in 1..Len(steps) - 1 /\ i + 1 \in 1..Len(steps)
    BY <1>1, <1>6
  <2>2. Follows(steps[i], steps[i + 1], up)
    BY <1>2, <2>1 DEF Laid
  <2>3. Control(i + 1, up) = After(steps[i], up)
    BY <2>1, <2>2 DEF Control, Follows
  <2>4. ASSUME NEW m, NEW s, Unset(steps, i + 1, m, s)
        PROVE  steps[i].do.op \in {"enter", "reset"} /\ steps[i].splice = m
    <3>1. PICK r \in 1..Len(steps) :
                 i + 1 <= r /\ \A j \in i + 1..r : steps[j].do.op = "reset" /\ steps[j].splice = m
      BY <2>4 DEF Unset
    <3>2. steps[i + 1].do.op = "reset" /\ steps[i + 1].splice = m
      BY <1>1, <3>1
    <3> QED
      BY <2>2, <3>2 DEF Follows
  <2> QED
    BY <1>3, <1>4, <2>3, <2>4
<1> QED
  BY <1>5, <1>6

\* Where the program is, and where the next step finds it.
LEMMA Landing ==
  ASSUME SpliceInv, phase = "running", pc \in DOMAIN steps, NEW up, NEW live, Placed(up, live)
  PROVE  /\ Tree(up, live) /\ Laid(steps, up) /\ Stems(steps)
         /\ Here.splice \in DOMAIN made /\ Here.splice \in live[Here.splice] /\ 0 \in live[Here.splice]
         /\ Control(pc, up) = Before(Here, up)
         /\ Control(pc + 1, up) = After(Here, up)
         /\ Here.do.op \in Marking => Here.splice # 0
         /\ Here.splice # 0 => Bound(Here.splice, up, live)
         /\ \A m, s : Unset(steps, pc, m, s) => Here.do.op = "reset" /\ Here.splice = m
         /\ \A m, s : Unset(steps, pc + 1, m, s) => Here.do.op \in {"enter", "reset"} /\ Here.splice = m
<1>1. /\ pc \in 1..Len(steps) /\ Len(steps) \in Nat
      /\ Here.splice \in DOMAIN made /\ Fits(Here) /\ whole = steps
  BY HereSound
<1>2. Tree(up, live) /\ Laid(steps, up) /\ Stems(steps)
  BY <1>1 DEF Placed
<1>3. Stands(Here.splice, live) /\ (Here.splice # 0 => Bound(Here.splice, up, live))
  BY <1>1, <1>2 DEF Tree
<1>4. Here.do.op \in Marking => Here.splice # 0
  BY <1>1 DEF Fits
<1>5. Here.splice \in live[Here.splice] /\ 0 \in live[Here.splice]
  BY <1>3 DEF Stands
<1>6. /\ Control(pc, up) = Before(Here, up)
      /\ Control(pc + 1, up) = After(Here, up)
      /\ \A m, s : Unset(steps, pc, m, s) => Here.do.op = "reset" /\ Here.splice = m
      /\ \A m, s : Unset(steps, pc + 1, m, s) => Here.do.op \in {"enter", "reset"} /\ Here.splice = m
  BY <1>1, StepOn DEF Here
<1> QED
  BY <1>1, <1>2, <1>3, <1>4, <1>5, <1>6

\* What a step has to show.
LEMMA MeetsNext ==
  ASSUME UNCHANGED source, NEW up, NEW live,
         \A m \in live[Control(pc', up)] : \A s \in Own(m) :
           IF Unset(steps, pc', m, s) THEN promise'[made[m].cells[s]] = 0
           ELSE env'[made[m].names[s]] = promise'[made[m].cells[s]]
  PROVE  Meets(up, live)'
<1>1. steps' = steps /\ made' = made
  BY DEF source
<1>2. Control(pc, up)' = Control(pc', up)
  BY <1>1 DEF Control, Before
<1>3. ASSUME NEW m, NEW s PROVE Unset(steps, pc, m, s)' <=> Unset(steps, pc', m, s)
  BY <1>1 DEF Unset
<1> QED
  BY <1>1, <1>2, <1>3 DEF Meets, Agree, Own

\* What is still placed after a step of the program.
LEMMA PlacedStays ==
  ASSUME UNCHANGED <<body, made, relayed>>, whole' = whole, NEW up, NEW live, Placed(up, live)
  PROVE  Placed(up, live)'
<1>1. body' = body /\ made' = made /\ relayed' = relayed
  OBVIOUS
<1>2. ASSUME NEW k PROVE Written(k)' = Written(k)
  BY <1>1, WritesKept DEF Written
<1>3. ASSUME NEW k, NEW m PROVE Alike(k, m)' <=> Alike(k, m)
  BY <1>1, <1>2 DEF Alike, Own
<1>4. ASSUME NEW k PROVE Stands(k, live)' <=> Stands(k, live)
  BY <1>1, <1>3 DEF Stands, Own
<1>5. ASSUME NEW k PROVE Bound(k, up, live)' <=> Bound(k, up, live)
  <2>1. Inherits(k, up[k])' <=> Inherits(k, up[k])
    BY <1>1 DEF Inherits, Own
  <2> QED
    BY <1>1, <2>1 DEF Bound
<1>6. Tree(up, live)'
  BY <1>1, <1>4, <1>5 DEF Placed, Tree
<1>7. Stems(whole)'
  BY <1>1 DEF Placed, Stems
<1>8. Laid(whole, up)'
  <2>1. Laid(whole', up)
    BY DEF Placed
  <2> QED
    BY <2>1 DEF Laid, Follows, Before, After, Unset
<1> QED
  BY <1>6, <1>7, <1>8 DEF Placed

\* Nothing is unset, so every symbol agrees.
LEMMA AllAgree ==
  ASSUME SpliceInv, phase = "running", pc \in DOMAIN steps, NEW up, NEW live, Placed(up, live),
         Meets(up, live), Here.do.op # "reset",
         NEW m \in live[Before(Here, up)], NEW s \in Own(m)
  PROVE  Agree(m, s)
<1>1. Control(pc, up) = Before(Here, up) /\ ~Unset(steps, pc, m, s)
  BY Landing
<1> QED
  BY <1>1 DEF Meets

\* What entering a scope does to the promise.
LEMMA EnterPromise ==
  ASSUME SpliceInv, phase = "running", pc \in DOMAIN steps, EnterScope, NEW up, NEW live, Placed(up, live)
  PROVE  /\ \A n \in DOMAIN promise : n[1] # Here.splice => promise'[n] = promise[n]
         /\ \A s \in Local : <<Here.splice, s>> \in DOMAIN promise => promise'[<<Here.splice, s>>] = 0
         /\ \A p \in Port : Cell(p) = <<Here.splice, p>> /\ <<Here.splice, p>> \in DOMAIN promise
                              => promise'[<<Here.splice, p>>] = promise[Mine.given[p]]
<1> DEFINE k == Here.splice
           Copied(n) == \E p \in Port : n = <<k, p>> /\ Cell(p) = n
           copies == [n \in DOMAIN promise |-> IF Copied(n) THEN promise[Mine.given[n[2]]] ELSE promise[n]]
<1>1. promise' = FreshLocals(copies)
  BY DEF EnterScope
<1>2. DOMAIN copies = DOMAIN promise
  OBVIOUS
<1>3. \A n \in DOMAIN promise : copies[n] = IF Copied(n) THEN promise[Mine.given[n[2]]] ELSE promise[n]
  OBVIOUS
<1> HIDE DEF copies
<1>4. \A n \in DOMAIN promise : promise'[n] = IF n \in {k} \X Local THEN 0 ELSE copies[n]
  BY <1>1, <1>2 DEF FreshLocals
<1> HIDE DEF k
<1>5. ASSUME NEW n \in DOMAIN promise, n[1] # k PROVE promise'[n] = promise[n]
  <2>1. n \notin {k} \X Local
    BY <1>5
  <2>2. ~Copied(n)
    BY <1>5
  <2> QED
    BY <1>3, <1>4, <2>1, <2>2
<1>6. ASSUME NEW s \in Local, <<k, s>> \in DOMAIN promise PROVE promise'[<<k, s>>] = 0
  <2>1. <<k, s>> \in {k} \X Local
    OBVIOUS
  <2> QED
    BY <1>4, <1>6, <2>1
<1>7. ASSUME NEW p \in Port, Cell(p) = <<k, p>>, <<k, p>> \in DOMAIN promise
      PROVE  promise'[<<k, p>>] = promise[Mine.given[p]]
  <2>1. <<k, p>> \notin {k} \X Local
    BY SpliceAssumption
  <2>2. Copied(<<k, p>>) /\ <<k, p>>[2] = p
    BY <1>7
  <2> QED
    BY <1>3, <1>4, <1>7, <2>1, <2>2
<1> QED
  BY <1>5, <1>6, <1>7 DEF k

\* A splice begins: its copies hold what the caller's names do.
LEMMA EnterMeets ==
  ASSUME SpliceInv, NEW up, NEW live, Placed(up, live), Meets(up, live), EnterScope
  PROVE  Meets(up, live)'
<1>1. PICK k : k = Here.splice
  OBVIOUS
<1>2. /\ phase = "running" /\ pc \in DOMAIN steps /\ Here.do.op = "enter"
      /\ pc' = pc + 1 /\ env' = env /\ UNCHANGED source
  BY DEF EnterScope, At
<1>3. /\ Tree(up, live) /\ Laid(steps, up) /\ k \in DOMAIN made /\ k # 0
      /\ Control(pc + 1, up) = k
      /\ Bound(k, up, live)
      /\ \A m, s : Unset(steps, pc + 1, m, s) => k = m
  <2>1. /\ Tree(up, live) /\ Laid(steps, up) /\ k \in DOMAIN made /\ k # 0
        /\ Control(pc + 1, up) = After(Here, up)
        /\ Bound(k, up, live)
        /\ \A m, s : Unset(steps, pc + 1, m, s) => k = m
    BY <1>1, <1>2, Landing DEF Marking
  <2> QED
    BY <1>1, <1>2, <2>1 DEF After
<1>4. /\ up[k] \in DOMAIN made /\ up[k] < k /\ live[k] = live[up[k]] \cup {k}
      /\ \A s \in Local : made[k].names[s] = <<k, s>> /\ made[k].cells[s] = <<k, s>>
      /\ Inherits(k, up[k])
  BY <1>3 DEF Bound
<1>5. ASSUME NEW m \in live[up[k]], NEW s \in Own(m) PROVE Agree(m, s)
  <2>1. m \in live[Before(Here, up)]
    BY <1>1, <1>2 DEF Before
  <2> QED
    BY <1>2, <2>1, AllAgree
<1>6. /\ \A n \in DOMAIN promise : n[1] # k => promise'[n] = promise[n]
      /\ \A s \in Local : <<k, s>> \in DOMAIN promise => promise'[<<k, s>>] = 0
      /\ \A p \in Port : Cell(p) = <<k, p>> /\ <<k, p>> \in DOMAIN promise
                           => promise'[<<k, p>>] = promise[Mine.given[p]]
  BY <1>1, <1>2, EnterPromise
<1>7. DOMAIN promise = DOMAIN env /\ Own(k) = Port \cup Local /\ Port \cap Local = {} /\ k \in Nat
  BY <1>3, SpliceAssumption DEF SpliceInv, Made, Own
<1>8. Mine = made[k] /\ \A p : Cell(p) = made[k].cells[p]
  BY <1>1 DEF Mine, Cell
<1>9. ASSUME NEW m \in live[up[k]], NEW s \in Own(m)
      PROVE  /\ ~Unset(steps, pc + 1, m, s)
             /\ made[m].cells[s] \in DOMAIN promise
             /\ promise'[made[m].cells[s]] = promise[made[m].cells[s]]
  <2>1. /\ up[k] \in Nat /\ m \in 0..up[k] /\ made[m].cells[s][1] \in 0..m
        /\ made[m].cells[s] \in DOMAIN env
    BY <1>3, <1>4, StandsIn
  <2>2. m # k /\ made[m].cells[s][1] # k
    BY <1>4, <1>7, <2>1
  <2>3. ~Unset(steps, pc + 1, m, s)
    BY <1>3, <2>2
  <2> QED
    BY <1>6, <1>7, <2>1, <2>2, <2>3
<1>10. ASSUME NEW s \in Local
       PROVE  Unset(steps, pc + 1, k, s) /\ promise'[made[k].cells[s]] = 0
  <2>1. pc \in 1..Len(steps)
    BY <1>2, HereSound
  <2>2. Unset(steps, pc + 1, k, s)
    BY <1>1, <1>2, <1>3, <2>1 DEF Laid, Here
  <2>3. made[k].cells[s] \in DOMAIN env
    BY <1>3, <1>7 DEF SpliceInv, Made
  <2> QED
    BY <1>4, <1>6, <1>7, <2>2, <2>3, ZenonT(60)
<1>11. ASSUME NEW p \in Port
       PROVE  /\ ~Unset(steps, pc + 1, k, p)
              /\ env'[made[k].names[p]] = promise'[made[k].cells[p]]
  <2>1. ~Unset(steps, pc + 1, k, p)
    <3>1. ASSUME NEW r \in 1..Len(steps), steps[r].do.op = "reset" PROVE steps[r].do.target # p
      BY <1>3, <1>7, <3>1 DEF Laid
    <3>2. pc \in 1..Len(steps)
      BY <1>2, HereSound
    <3> QED
      BY <3>1, <3>2 DEF Unset
  <2>2. PICK u \in Own(up[k]) :
          /\ made[k].names[p] = made[up[k]].names[u]
          /\ made[k].given[p] = made[up[k]].cells[u]
          /\ made[k].cells[p] \in {made[up[k]].cells[u], <<k, p>>}
    BY <1>4 DEF Inherits
  <2>3. up[k] \in live[up[k]]
    BY <1>3, <1>4 DEF Tree, Stands
  <2>4. env[made[k].names[p]] = promise[made[up[k]].cells[u]]
    BY <1>5, <2>2, <2>3 DEF Agree
  <2>5. CASE made[k].cells[p] = <<k, p>>
    <3>1. <<k, p>> \in DOMAIN promise
      <4>1. made[k].cells \in [Own(k) -> DOMAIN env] /\ p \in Own(k)
        BY <1>3, <1>7 DEF SpliceInv, Made
      <4>2. made[k].cells[p] \in DOMAIN env
        BY <4>1
      <4> QED
        BY <1>7, <2>5, <4>2
    <3>2. promise'[<<k, p>>] = promise[made[k].given[p]]
      BY <1>6, <1>8, <2>5, <3>1
    <3> QED
      BY <1>2, <2>1, <2>2, <2>4, <2>5, <3>2
  <2>6. CASE made[k].cells[p] = made[up[k]].cells[u]
    BY <1>2, <1>9, <2>1, <2>3, <2>4, <2>6
  <2> QED
    BY <2>2, <2>5, <2>6
<1>12. ASSUME NEW m \in live[Control(pc', up)], NEW s \in Own(m)
       PROVE  IF Unset(steps, pc', m, s) THEN promise'[made[m].cells[s]] = 0
              ELSE env'[made[m].names[s]] = promise'[made[m].cells[s]]
  <2>1. CASE m = k
    <3>1. s \in Port \/ s \in Local
      BY <1>7, <2>1
    <3> QED
      BY <1>2, <1>10, <1>11, <2>1, <3>1
  <2>2. CASE m \in live[up[k]]
    BY <1>2, <1>5, <1>9, <2>2 DEF Agree
  <2>3. m \in live[k]
    BY <1>2, <1>3
  <2> QED
    BY <1>4, <2>1, <2>2, <2>3
<1> QED
  BY <1>2, <1>12, MeetsNext

\* A local's first value is the one that was promised.
LEMMA ResetMeets ==
  ASSUME SpliceInv, NEW up, NEW live, Placed(up, live), Meets(up, live), Reset
  PROVE  Meets(up, live)'
<1>1. PICK k : k = Here.splice
  OBVIOUS
<1>2. PICK t : t = Here.do.target
  OBVIOUS
<1>3. /\ phase = "running" /\ pc \in DOMAIN steps /\ Here.do.op = "reset"
      /\ pc' = pc + 1 /\ promise' = promise /\ UNCHANGED source
      /\ env' = [env EXCEPT ![made[k].names[t]] = 0]
  BY <1>1, <1>2 DEF Reset, At, Name, Mine
<1>4. pc \in 1..Len(steps) /\ Len(steps) \in Nat /\ Here = steps[pc] /\ env \in [DOMAIN env -> {0, 1}]
  BY <1>3, HereSound DEF Here
<1>5. /\ Tree(up, live) /\ Laid(steps, up) /\ k \in DOMAIN made /\ k \in live[k]
      /\ Control(pc, up) = k /\ Control(pc + 1, up) = k
      /\ k # 0 => Bound(k, up, live)
      /\ \A m, s : Unset(steps, pc, m, s) => k = m
      /\ \A m, s : Unset(steps, pc + 1, m, s) => k = m
  BY <1>1, <1>3, Landing DEF Before, After
<1>6. k # 0 /\ t \in Local
  BY <1>1, <1>2, <1>4, <1>3, <1>5 DEF Laid
<1>7. /\ \A s \in Local : made[k].names[s] = <<k, s>> /\ made[k].cells[s] = <<k, s>>
      /\ \A p \in Port : made[k].names[p][1] \in 0..k - 1
  BY <1>5, <1>6 DEF Bound
<1>8. k \in Nat /\ Own(k) = Port \cup Local
  BY <1>5, <1>6 DEF SpliceInv, Made, Own
<1>9. ASSUME NEW m \in live[k], NEW s \in Own(m), ~(m = k /\ s = t)
      PROVE  env'[made[m].names[s]] = env[made[m].names[s]]
  <2>1. made[m].names[s] \in DOMAIN env /\ made[m].names[s][1] \in 0..m /\ m \in 0..k
    BY <1>5, StandsIn
  <2>2. made[m].names[s] # <<k, t>>
    <3>1. CASE m = k /\ s \in Local
      <4>1. made[m].names[s] = <<k, s>> /\ s # t
        BY <1>7, <1>9, <3>1
      <4> QED
        BY <4>1
    <3>2. CASE m = k /\ s \in Port
      <4>1. made[m].names[s][1] # k
        BY <1>7, <1>8, <3>2
      <4> QED
        BY <4>1
    <3>3. CASE m # k
      <4>1. made[m].names[s][1] # k
        BY <1>8, <2>1, <3>3
      <4> QED
        BY <4>1
    <3> QED
      BY <1>8, <3>1, <3>2, <3>3
  <2>3. made[k].names[t] = <<k, t>>
    BY <1>6, <1>7
  <2> QED
    BY <1>3, <1>4, <2>1, <2>2, <2>3
<1>10. ASSUME NEW s, Unset(steps, pc + 1, k, s) PROVE Unset(steps, pc, k, s)
  <2>1. PICK r \in 1..Len(steps) : /\ pc + 1 <= r /\ steps[r].do.target = s
                                   /\ \A j \in pc + 1..r : steps[j].do.op = "reset" /\ steps[j].splice = k
    BY <1>10 DEF Unset
  <2>2. ASSUME NEW j \in pc..r PROVE steps[j].do.op = "reset" /\ steps[j].splice = k
    <3>1. CASE j = pc
      BY <1>1, <1>3, <1>4, <3>1
    <3>2. CASE j # pc
      <4>1. j \in pc + 1..r
        BY <1>4, <3>2
      <4> QED
        BY <2>1, <4>1
    <3> QED
      BY <3>1, <3>2
  <2>3. pc <= r
    BY <1>4, <2>1
  <2> QED
    BY <2>1, <2>2, <2>3 DEF Unset
<1>11. ASSUME NEW s, s # t, Unset(steps, pc, k, s) PROVE Unset(steps, pc + 1, k, s)
  <2>1. PICK r \in 1..Len(steps) : /\ pc <= r /\ steps[r].do.target = s
                                   /\ \A j \in pc..r : steps[j].do.op = "reset" /\ steps[j].splice = k
    BY <1>11 DEF Unset
  <2>2. r # pc
    BY <1>2, <1>4, <1>11, <2>1
  <2>3. pc + 1 <= r /\ \A j \in pc + 1..r : j \in pc..r
    BY <1>4, <2>1, <2>2
  <2> QED
    BY <2>1, <2>3 DEF Unset
<1>12. promise[made[k].cells[t]] = 0
  <2>1. Unset(steps, pc, k, t)
    <3>1. \A j \in pc..pc : steps[j].do.op = "reset" /\ steps[j].splice = k
      BY <1>1, <1>3, <1>4
    <3>2. pc <= pc /\ steps[pc].do.target = t
      BY <1>2, <1>4
    <3> QED
      BY <1>4, <3>1, <3>2 DEF Unset
  <2>2. t \in Own(k)
    BY <1>6, <1>8
  <2> QED
    BY <1>5, <2>1, <2>2 DEF Meets
<1>13. env'[made[k].names[t]] = 0
  <2>1. made[k].names[t] \in DOMAIN env
    BY <1>5, <1>6, <1>8, StandsIn
  <2> QED
    BY <1>3, <1>4, <2>1
<1>14. ASSUME NEW m \in live[Control(pc', up)], NEW s \in Own(m)
       PROVE  IF Unset(steps, pc', m, s) THEN promise'[made[m].cells[s]] = 0
              ELSE env'[made[m].names[s]] = promise'[made[m].cells[s]]
  <2>1. m \in live[k] /\ Unset(steps, pc', m, s) <=> Unset(steps, pc + 1, m, s)
    BY <1>3, <1>5
  <2>2. IF Unset(steps, pc, m, s) THEN promise[made[m].cells[s]] = 0
        ELSE env[made[m].names[s]] = promise[made[m].cells[s]]
    BY <1>3, <1>5 DEF Meets, Agree
  <2>3. CASE Unset(steps, pc + 1, m, s)
    <3>1. m = k
      BY <1>5, <2>3
    <3>2. Unset(steps, pc, m, s)
      BY <1>10, <2>3, <3>1
    <3> QED
      BY <1>3, <2>2, <2>3, <3>2
  <2>4. CASE ~Unset(steps, pc + 1, m, s) /\ m = k /\ s = t
    BY <1>3, <1>12, <1>13, <2>4
  <2>5. CASE ~Unset(steps, pc + 1, m, s) /\ ~(m = k /\ s = t)
    <3>1. ~Unset(steps, pc, m, s)
      BY <1>5, <1>11, <2>5
    <3>2. m \in live[k]
      BY <1>3, <1>5
    <3>3. env'[made[m].names[s]] = env[made[m].names[s]]
      BY <1>9, <2>5, <3>2
    <3> QED
      BY <1>3, <2>2, <2>5, <3>1, <3>3
  <2> QED
    BY <2>3, <2>4, <2>5
<1> QED
  BY <1>3, <1>14, MeetsNext

\* An assignment is to a symbol that the splice may write through.
LEMMA AssignsWritten ==
  ASSUME SpliceInv, phase = "running", pc \in DOMAIN steps, Here.do.op = "assign",
         NEW up, NEW live, Placed(up, live)
  PROVE  Here.do.target \in Own(Here.splice) /\ Here.do.target \in Written(Here.splice)
<1>1. Here.do.target \in Own(Here.splice) /\ pc \in 1..Len(steps)
  BY HereSound DEF Fits
<1>2. CASE Here.splice = 0
  BY <1>1, <1>2 DEF Own, Written
<1>3. CASE Here.splice # 0
  <2> DEFINE t == made[Here.splice].template
  <2>1. t \in Template /\ Stems(steps)
    BY <1>3, Landing DEF Bound
  <2>2. PICK x \in DOMAIN body[t] : body[t][x] = Here.do
    BY <1>1, <1>3, <2>1 DEF Stems, Here
  <2> HIDE DEF t
  <2>3. Here.do.target \in Port => Here.do.target \in Assigned(t)
    BY <2>2 DEF Assigned
  <2>4. Assigned(t) \subseteq Writes(t)
    BY <2>1, WritesLeast
  <2> QED
    BY <1>1, <1>3, <2>3, <2>4 DEF Own, Written, t
<1> QED
  BY <1>2, <1>3

\* An assignment is read where the calls promise it is, and nowhere else.
LEMMA AssignMeets ==
  ASSUME SpliceInv, NEW up, NEW live, Placed(up, live), Meets(up, live), ~relayed, AssignName
  PROVE  Meets(up, live)'
<1>1. PICK k : k = Here.splice
  OBVIOUS
<1>2. PICK t : t = Here.do.target
  OBVIOUS
<1>3. PICK q : q = Here.do.read
  OBVIOUS
<1>4. /\ phase = "running" /\ pc \in DOMAIN steps /\ Here.do.op = "assign"
      /\ pc' = pc + 1 /\ UNCHANGED source
      /\ env' = [env EXCEPT ![made[k].names[t]] = 1 - env[made[k].names[q]]]
      /\ promise' = [promise EXCEPT ![made[k].cells[t]] = 1 - promise[made[k].cells[q]]]
  BY <1>1, <1>2, <1>3 DEF AssignName, At, Name, Cell, Mine
<1>5. /\ Tree(up, live) /\ k \in DOMAIN made /\ k \in live[k]
      /\ Control(pc + 1, up) = k /\ Before(Here, up) = k
      /\ \A m, s : ~Unset(steps, pc + 1, m, s)
  BY <1>1, <1>4, Landing DEF Before, After
<1>6. t \in Own(k) /\ t \in Written(k) /\ q \in Own(k)
  BY <1>1, <1>2, <1>3, <1>4, AssignsWritten, HereSound DEF Fits
<1>7. env[made[k].names[q]] = promise[made[k].cells[q]]
  BY <1>4, <1>5, <1>6, AllAgree DEF Agree
<1>8. /\ env \in [DOMAIN env -> {0, 1}] /\ promise \in [DOMAIN env -> {0, 1}]
      /\ made[k].names[t] \in DOMAIN env /\ made[k].cells[t] \in DOMAIN env
  BY <1>4, <1>5, <1>6, HereSound, StandsIn
<1>9. ASSUME NEW m \in live[k], NEW s \in Own(m)
      PROVE  env'[made[m].names[s]] = promise'[made[m].cells[s]]
  <2>1. made[m].names[s] \in DOMAIN env /\ made[m].cells[s] \in DOMAIN env
    BY <1>5, StandsIn
  <2>2. Alike(k, m)
    BY <1>5 DEF Tree, Stands
  <2>3. made[k].names[t] = made[m].names[s] <=> made[k].cells[t] = made[m].cells[s]
    BY <1>6, <2>2 DEF Alike
  <2>4. env[made[m].names[s]] = promise[made[m].cells[s]]
    BY <1>4, <1>5, AllAgree DEF Agree
  <2>5. CASE made[k].names[t] = made[m].names[s]
    <3>1. env'[made[m].names[s]] = 1 - env[made[k].names[q]]
      BY <1>4, <1>8, <2>5
    <3>2. promise'[made[m].cells[s]] = 1 - promise[made[k].cells[q]]
      BY <1>4, <1>8, <2>3, <2>5
    <3> QED
      BY <1>7, <3>1, <3>2
  <2>6. CASE made[k].names[t] # made[m].names[s]
    <3>1. env'[made[m].names[s]] = env[made[m].names[s]]
      BY <1>4, <1>8, <2>1, <2>6
    <3>2. promise'[made[m].cells[s]] = promise[made[m].cells[s]]
      BY <1>4, <1>8, <2>1, <2>3, <2>6
    <3> QED
      BY <2>4, <3>1, <3>2
  <2> QED
    BY <2>5, <2>6
<1> QED
  BY <1>4, <1>5, <1>9, MeetsNext

\* A step that changes no value and goes on, or leaves a scope.
LEMMA PassMeets ==
  ASSUME SpliceInv, NEW up, NEW live, Placed(up, live), Meets(up, live),
         phase = "running", pc \in DOMAIN steps, Here.do.op \in Jumps \cup {"end"},
         UNCHANGED <<source, env, promise>>, pc' = pc + 1
  PROVE  Meets(up, live)'
<1>1. /\ Tree(up, live) /\ Control(pc + 1, up) = After(Here, up)
      /\ \A m, s : ~Unset(steps, pc + 1, m, s)
      /\ Here.do.op = "end" => Bound(Here.splice, up, live)
  BY Landing DEF Jumps, Marking
<1>2. Before(Here, up) = Here.splice
  BY DEF Before, Jumps
<1>3. live[After(Here, up)] \subseteq live[Here.splice]
  <2>1. CASE Here.do.op = "end"
    BY <1>1, <2>1 DEF After, Bound
  <2>2. CASE Here.do.op # "end"
    BY <2>2 DEF After
  <2> QED
    BY <2>1, <2>2
<1>4. ASSUME NEW m \in live[Control(pc', up)], NEW s \in Own(m)
      PROVE  env'[made[m].names[s]] = promise'[made[m].cells[s]] /\ ~Unset(steps, pc', m, s)
  <2>1. m \in live[Before(Here, up)]
    BY <1>1, <1>2, <1>3
  <2>2. Agree(m, s)
    BY <2>1, AllAgree DEF Jumps
  <2> QED
    BY <1>1, <2>2 DEF Agree
<1> QED
  BY <1>4, MeetsNext

\* The scope of a jump begins and ends with steps of the jump's own splice.
LEMMA ScopeOwn ==
  ASSUME SpliceInv, phase = "running", pc \in DOMAIN steps,
         Here.do.op \in Jumps, Here.scope[1] # Program
  PROVE  /\ Start(Here.scope) \in 1..Len(steps) /\ End(Here.scope) \in 1..Len(steps)
         /\ steps[Start(Here.scope)].do.op = "enter" /\ steps[Start(Here.scope)].splice = Here.splice
         /\ steps[End(Here.scope)].do.op = "end" /\ steps[End(Here.scope)].splice = Here.splice
<1>1. pc \in 1..Len(steps) /\ whole = steps /\ Fits(Here)
  BY HereSound
<1>2. Here.scope # <<Program, 0>>
  OBVIOUS
<1>3. Between(steps, pc)
  BY <1>1, <1>2 DEF SpliceInv, Home, Here
<1>4. DOMAIN steps = 1..Len(steps) /\ \A i \in 1..Len(steps) : Fits(steps[i])
  BY DEF SpliceInv, Sound
<1>5. PICK first \in 1..Len(steps), last \in 1..Len(steps) :
             /\ Marks(steps, Here.scope) = {first, last}
             /\ steps[first].do.op = "enter" /\ steps[last].do.op = "end"
  BY <1>3 DEF Between, Here
<1>6. steps[first].scope = Here.scope /\ steps[last].scope = Here.scope
  BY <1>5 DEF Marks
<1>7. /\ \E i \in DOMAIN steps : steps[i].do.op = "enter" /\ steps[i].scope = Here.scope
      /\ \E i \in DOMAIN steps : steps[i].do.op = "end" /\ steps[i].scope = Here.scope
  BY <1>4, <1>5, <1>6
<1>8. /\ Start(Here.scope) \in DOMAIN steps /\ steps[Start(Here.scope)].do.op = "enter"
      /\ steps[Start(Here.scope)].scope = Here.scope
  BY <1>7 DEF Start
<1>9. /\ End(Here.scope) \in DOMAIN steps /\ steps[End(Here.scope)].do.op = "end"
      /\ steps[End(Here.scope)].scope = Here.scope
  BY <1>7 DEF End
<1>10. Here.scope[2] = Here.splice
  BY <1>1, <1>2 DEF Fits
<1>11. ASSUME NEW i \in 1..Len(steps), steps[i].do.op \in Marking, steps[i].scope = Here.scope
       PROVE  steps[i].splice = Here.splice
  BY <1>4, <1>10, <1>11 DEF Fits
<1> QED
  BY <1>4, <1>8, <1>9, <1>11 DEF Marking

\* The program begins in its own scope.
LEMMA Outermost ==
  ASSUME SpliceInv, rest = <<>>, NEW up, NEW live, Placed(up, live)
  PROVE  /\ Control(1, up) = 0 /\ Control(Len(steps) + 1, up) = 0
         /\ \A m, s : ~Unset(steps, 1, m, s) /\ ~Unset(steps, Len(steps) + 1, m, s)
         /\ live[0] = {0}
<1>1. steps \in Seq(FlatSteps) /\ Len(steps) \in Nat
  BY DEF SpliceInv, Sound
<1>2. whole = steps
  BY <1>1, ConcatEmptySeq DEF whole
<1>3. Laid(steps, up) /\ live[0] = {0}
  BY <1>2 DEF Placed, Tree
<1>4. Control(1, up) = 0 /\ Control(Len(steps) + 1, up) = 0
  BY <1>1, <1>3 DEF Laid, Control
<1>5. ASSUME NEW m, NEW s, Unset(steps, 1, m, s) PROVE FALSE
  <2>1. PICK r \in 1..Len(steps) : \A j \in 1..r : steps[j].do.op = "reset"
    BY <1>5 DEF Unset
  <2>2. 1 \in 1..r /\ 1 \in 1..Len(steps)
    BY <1>1, <2>1
  <2> QED
    BY <1>3, <2>1, <2>2 DEF Laid
<1>6. \A m, s : ~Unset(steps, Len(steps) + 1, m, s)
  BY <1>1 DEF Unset
<1> QED
  BY <1>3, <1>4, <1>5, <1>6

\* A jump that holds to the end of its scope.
LEMMA LeaveMeets ==
  ASSUME SpliceInv, NEW up, NEW live, Placed(up, live), Meets(up, live), LeaveScope,
         Here.scope[1] # Program
  PROVE  Meets(up, live)'
<1>1. /\ phase = "running" /\ pc \in DOMAIN steps /\ Here.do.op \in Jumps
      /\ UNCHANGED <<source, env, promise>> /\ pc' = End(Here.scope)
  BY DEF LeaveScope, At, Jumps
<1>2. pc' \in 1..Len(steps) /\ steps[pc'].do.op = "end" /\ steps[pc'].splice = Here.splice
  BY <1>1, ScopeOwn
<1>3. Control(pc', up) = Here.splice /\ \A m, s : ~Unset(steps, pc', m, s)
  <2>1. PICK i \in 1..Len(steps) : i = pc'
    BY <1>2
  <2>2. steps[i].do.op = "end" /\ steps[i].splice = Here.splice
    BY <1>2, <2>1
  <2>3. Control(i, up) = Here.splice /\ \A m, s : ~Unset(steps, i, m, s)
    BY <1>1, <2>2, StepOn DEF Before
  <2> QED
    BY <2>1, <2>3
<1>4. Before(Here, up) = Here.splice
  BY <1>1 DEF Before, Jumps
<1>5. ASSUME NEW m \in live[Control(pc', up)], NEW s \in Own(m)
      PROVE  env'[made[m].names[s]] = promise'[made[m].cells[s]] /\ ~Unset(steps, pc', m, s)
  <2>1. Agree(m, s)
    BY <1>1, <1>3, <1>4, AllAgree DEF Jumps
  <2> QED
    BY <1>1, <1>3, <2>1 DEF Agree
<1> QED
  BY <1>1, <1>5, MeetsNext

\* A jump that holds to the start of its scope: the locals are new again.
LEMMA RepeatMeets ==
  ASSUME SpliceInv, NEW up, NEW live, Placed(up, live), Meets(up, live), RepeatScope
  PROVE  Meets(up, live)'
<1>1. PICK k : k = Here.splice
  OBVIOUS
<1>2. /\ phase = "running" /\ pc \in DOMAIN steps /\ Here.do.op \in Jumps
      /\ UNCHANGED <<source, env>>
      /\ IF Here.scope[1] = Program THEN pc' = 1 /\ UNCHANGED promise
         ELSE pc' = Start(Here.scope) + 1 /\ promise' = FreshLocals(promise)
  BY DEF RepeatScope, At, Jumps
<1>3. Before(Here, up) = k /\ k \in DOMAIN made /\ 0 \in live[k] /\ Tree(up, live) /\ Laid(steps, up)
  BY <1>1, <1>2, Landing DEF Before, Jumps
<1>4. ASSUME NEW m \in live[k], NEW s \in Own(m) PROVE env[made[m].names[s]] = promise[made[m].cells[s]]
  BY <1>2, <1>3, AllAgree DEF Agree, Jumps
<1>5. CASE Here.scope[1] = Program
  <2>1. rest = <<>>
    BY <1>2 DEF SpliceInv, Passing
  <2>2. Control(pc', up) = 0 /\ live[0] = {0} /\ \A m, s : ~Unset(steps, pc', m, s)
    BY <1>2, <1>5, <2>1, Outermost
  <2>3. ASSUME NEW m \in live[Control(pc', up)], NEW s \in Own(m)
        PROVE  env'[made[m].names[s]] = promise'[made[m].cells[s]] /\ ~Unset(steps, pc', m, s)
    BY <1>2, <1>3, <1>4, <1>5, <2>2
  <2> QED
    BY <1>2, <2>3, MeetsNext
<1>6. CASE Here.scope[1] # Program
  <2>1. PICK i \in 1..Len(steps) : i = Start(Here.scope)
    BY <1>2, <1>6, ScopeOwn
  <2>2. steps[i].do.op = "enter" /\ steps[i].splice = k /\ pc' = i + 1 /\ promise' = FreshLocals(promise)
    BY <1>1, <1>2, <1>6, <2>1, ScopeOwn
  <2>3. Control(i + 1, up) = k /\ \A m, s : Unset(steps, i + 1, m, s) => k = m
    BY <1>2, <2>2, StepOn DEF After
  <2>4. k # 0 /\ Bound(k, up, live)
    <3>1. Fits(steps[i])
      BY DEF SpliceInv, Sound
    <3>2. k # 0
      BY <2>2, <3>1 DEF Fits, Marking
    <3> QED
      BY <1>3, <3>2 DEF Tree
  <2>5. \A s \in Local : Unset(steps, i + 1, k, s) /\ made[k].cells[s] = <<k, s>>
    BY <1>3, <2>2, <2>4 DEF Laid, Bound
  <2>6. DOMAIN promise = DOMAIN env /\ k \in Nat /\ Own(k) = Port \cup Local
    BY <1>3, <2>4 DEF SpliceInv, Made, Own
  <2>7. ASSUME NEW n \in DOMAIN promise
        PROVE  promise'[n] = IF n \in {k} \X Local THEN 0 ELSE promise[n]
    BY <1>1, <2>2 DEF FreshLocals
  <2>8. ASSUME NEW m \in live[k], NEW s \in Own(m)
        PROVE  IF Unset(steps, i + 1, m, s) THEN promise'[made[m].cells[s]] = 0
               ELSE env[made[m].names[s]] = promise'[made[m].cells[s]]
    <3>1. made[m].cells[s] \in DOMAIN promise /\ made[m].cells[s][1] \in 0..m /\ m \in 0..k
      BY <1>3, <2>6, StandsIn
    <3>2. CASE made[m].cells[s] \in {k} \X Local
      <4>1. m = k
        BY <2>6, <3>1, <3>2
      <4>2. PICK u \in Local : made[k].cells[s] = <<k, u>>
        BY <3>2, <4>1
      <4>3. promise'[made[m].cells[s]] = 0
        BY <2>7, <3>1, <3>2
      <4>4. s \in Local
        <5>1. CASE s \in Port
          <6>1. up[k] \in DOMAIN made /\ up[k] \in Nat /\ up[k] < k /\ Inherits(k, up[k])
            BY <2>4 DEF Bound, SpliceInv, Made
          <6>2. PICK v \in Own(up[k]) : made[k].cells[s] \in {made[up[k]].cells[v], <<k, s>>}
            BY <5>1, <6>1 DEF Inherits
          <6>3. up[k] \in live[up[k]]
            BY <1>3, <6>1 DEF Tree, Stands
          <6>4. made[up[k]].cells[v][1] \in 0..up[k]
            BY <1>3, <6>1, <6>2, <6>3 DEF Tree, Stands
          <6>5. made[up[k]].cells[v][1] # <<k, u>>[1]
            BY <2>6, <6>1, <6>4
          <6>6. made[k].cells[s] = <<k, s>>
            BY <4>2, <6>2, <6>5
          <6>7. <<k, u>> = <<k, s>>
            BY <4>2, <6>6
          <6>8. u = s
            BY <6>7
          <6> QED
            BY <6>8
        <5>2. s \in Port \cup Local
          BY <2>6, <4>1
        <5> QED
          BY <5>1, <5>2
      <4> QED
        BY <2>5, <4>1, <4>3, <4>4
    <3>3. CASE made[m].cells[s] \notin {k} \X Local
      <4>1. promise'[made[m].cells[s]] = promise[made[m].cells[s]]
        BY <2>7, <3>1, <3>3
      <4>2. ASSUME Unset(steps, i + 1, m, s) PROVE FALSE
        <5>1. m = k
          BY <2>3, <4>2
        <5>2. PICK r \in 1..Len(steps) :
                     /\ i + 1 <= r /\ steps[r].do.target = s
                     /\ \A j \in i + 1..r : steps[j].do.op = "reset" /\ steps[j].splice = m
          BY <4>2 DEF Unset
        <5>3. steps[r].do.op = "reset" /\ s = steps[r].do.target
          BY <5>2
        <5>4. s \in Local
          BY <1>3, <5>3 DEF Laid
        <5>5. made[m].cells[s] = <<k, s>>
          BY <2>5, <5>1, <5>4
        <5>6. <<k, s>> \in {k} \X Local
          BY <5>4
        <5> QED
          BY <3>3, <5>5, <5>6
      <4> QED
        BY <1>4, <4>1, <4>2
    <3> QED
      BY <3>2, <3>3
  <2>9. ASSUME NEW m \in live[Control(pc', up)], NEW s \in Own(m)
        PROVE  IF Unset(steps, pc', m, s) THEN promise'[made[m].cells[s]] = 0
               ELSE env'[made[m].names[s]] = promise'[made[m].cells[s]]
    BY <1>2, <2>2, <2>3, <2>8
  <2> QED
    BY <1>2, <2>9, MeetsNext
<1> QED
  BY <1>5, <1>6

-----------------------------------------------------------------------------
(* The flat program keeps the promise.                                     *)

\* The program's own steps are laid, and promised what they hold.
LEMMA InitReads == Init => ReadsInv
<1> SUFFICES ASSUME Init PROVE ReadsInv
  OBVIOUS
<1>1. PICK main \in Mains :
        rest = [i \in DOMAIN main |-> Flat(0, main[i], JumpScope(main[i], Program, 0))]
  BY DEF Init
<1>2. main \in Seq(StepsOver(Var)) /\ DOMAIN main = 1..Len(main) /\ Len(main) \in Nat
  BY SourceAssumption
<1>3. ASSUME NEW i \in 1..Len(main)
      PROVE  rest[i].splice = 0 /\ rest[i].do.op \in {"assign", "leave", "repeat", "call"}
  <2>1. main[i].op \in {"assign", "leave", "repeat", "call"}
    BY <1>2, ElementOfSeq, StepShape
  <2>2. rest[i] = Flat(0, main[i], JumpScope(main[i], Program, 0))
    BY <1>1, <1>2
  <2>3. rest[i].splice = 0 /\ rest[i].do = main[i]
    BY <2>2 DEF Flat
  <2> QED
    BY <2>1, <2>3
<1>4. rest \in Seq(FlatSteps) /\ steps = <<>>
  BY InitSplice DEF Init, SpliceInv, Sound
<1>5. DOMAIN rest = 1..Len(main)
  BY <1>1, <1>2
<1>6. Len(rest) = Len(main)
  BY <1>2, <1>4, <1>5
<1>7. whole = rest
  BY <1>4, ConcatEmptySeq DEF whole
<1> DEFINE up == [k \in {0} |-> 0]
           live == [k \in {0} |-> {0}]
<1>8. Laid(whole, up)
  <2>1. ASSUME NEW i \in 1..Len(rest) PROVE Before(rest[i], up) = 0 /\ After(rest[i], up) = 0
    BY <1>3, <1>6 DEF Before, After
  <2>2. ASSUME NEW i \in 1..Len(rest) - 1 PROVE Follows(rest[i], rest[i + 1], up)
    <3>1. i \in 1..Len(rest) /\ i + 1 \in 1..Len(rest)
      BY <1>2, <1>6
    <3> QED
      BY <1>3, <1>6, <2>1, <3>1 DEF Follows
  <2>3. 1 \in 1..Len(rest) => Len(rest) \in 1..Len(rest)
    BY <1>2, <1>6
  <2> HIDE DEF up
  <2> QED
    BY <1>3, <1>6, <1>7, <2>1, <2>2, <2>3 DEF Laid
<1>9. Stems(whole)
  BY <1>3, <1>6, <1>7 DEF Stems
<1>10. /\ DOMAIN made = {0}
       /\ \A v \in Var : made[0].names[v] = <<0, v>> /\ made[0].cells[v] = <<0, v>>
       /\ phase = "splicing" /\ env = promise
  BY DEF Init
<1>11. Tree(up, live)
  <2>1. live[0] = {0} /\ Own(0) = Var
    BY DEF Own
  <2>2. ASSUME NEW s \in Var
        PROVE  made[0].names[s][1] \in 0..0 /\ made[0].cells[s][1] \in 0..0
    BY <1>10
  <2>3. \A s \in Var : made[0].names[s] = made[0].cells[s]
    BY <1>10
  <2>4. Alike(0, 0)
    <3>1. \A s \in Var, u \in Var : made[0].cells[s] = made[0].cells[u] <=> made[0].names[s] = made[0].names[u]
      BY <2>3
    <3>2. Own(0) = Var /\ Written(0) = Var
      BY DEF Own, Written
    <3> QED
      BY <3>1, <3>2 DEF Alike
  <2> HIDE DEF live, up
  <2>5. Stands(0, live)
    BY <2>1, <2>2, <2>4 DEF Stands
  <2> QED
    BY <1>10, <2>1, <2>5 DEF Tree
<1> HIDE DEF up, live
<1>12. ReadsAt(up, live)
  BY <1>8, <1>9, <1>10, <1>11 DEF ReadsAt, Placed
<1> QED
  BY <1>12 DEF ReadsInv

\* The splicer moves a step, or refuses one.
LEMMA KeepReads ==
  ASSUME SpliceInv, NEW up, NEW live, ReadsAt(up, live), Keep \/ Refuse
  PROVE  ReadsAt(up, live)'
<1>1. whole' = whole
  <2>1. CASE Keep
    <3>1. /\ steps \in Seq(FlatSteps) /\ rest \in Seq(FlatSteps) /\ rest # <<>>
          /\ steps' = Append(steps, Head(rest)) /\ rest' = Tail(rest)
      BY <2>1 DEF SpliceInv, Sound, Keep
    <3> QED
      BY <3>1, Moved DEF whole
  <2>2. CASE Refuse
    BY <2>2 DEF Refuse, source, whole
  <2> QED
    BY <2>1, <2>2
<1>2. /\ UNCHANGED <<body, made, relayed>> /\ UNCHANGED <<env, promise>>
      /\ phase = "splicing" /\ phase' \in {"splicing", "refused"}
  BY DEF Keep, Refuse, source, state
<1>3. Placed(up, live)'
  BY <1>1, <1>2, PlacedStays DEF ReadsAt
<1> QED
  BY <1>2, <1>3 DEF ReadsAt

\* The end of a pass: the program is as it was, or begins to run.
LEMMA EndPassReads ==
  ASSUME SpliceInv, NEW up, NEW live, ReadsAt(up, live), EndPass
  PROVE  ReadsAt(up, live)'
<1>1. /\ UNCHANGED <<body, made, relayed>> /\ UNCHANGED <<env, promise>>
      /\ phase = "splicing" /\ rest = <<>> /\ steps \in Seq(FlatSteps) /\ env = promise
      /\ Placed(up, live)
  BY DEF EndPass, SpliceInv, Sound, ReadsAt
<1>2. \/ UNCHANGED <<steps, rest>> /\ phase' \in {"running", "recursive"} /\ (phase' = "running" => pc' = 1)
      \/ rest' = steps /\ steps' = <<>> /\ phase' = "splicing"
  BY DEF EndPass
<1>3. whole' = whole
  <2>1. <<>> \o steps = steps /\ steps \o <<>> = steps
    BY <1>1, ConcatEmptySeq
  <2> QED
    BY <1>1, <1>2, <2>1 DEF whole
<1>4. Placed(up, live)'
  BY <1>1, <1>3, PlacedStays
<1>5. ASSUME phase' = "running" PROVE Meets(up, live)'
  <2>1. /\ Control(1, up) = 0 /\ live[0] = {0} /\ \A m, s : ~Unset(steps, 1, m, s)
        /\ \A s \in Var : made[0].names[s] = <<0, s>> /\ made[0].cells[s] = <<0, s>>
    BY <1>1, Outermost DEF Placed, Tree
  <2>2. steps' = steps /\ made' = made /\ pc' = 1 /\ env' = promise'
    BY <1>1, <1>2, <1>5
  <2>3. Control(pc, up)' = 0
    BY <2>1, <2>2 DEF Control, Before
  <2>4. \A m, s : ~Unset(steps, pc, m, s)'
    BY <2>1, <2>2 DEF Unset
  <2>5. ASSUME NEW s \in Own(0) PROVE Agree(0, s)'
    <3>1. made'[0].names[s] = made'[0].cells[s]
      BY <2>1, <2>2 DEF Own
    <3> QED
      BY <2>2, <3>1 DEF Agree
  <2> QED
    BY <2>1, <2>3, <2>4, <2>5 DEF Meets, Own
<1> QED
  BY <1>1, <1>2, <1>4, <1>5 DEF ReadsAt

\* A splice is one more in the tree, and its names are as new as its cells.
LEMMA CallReads ==
  ASSUME SpliceInv, NEW up, NEW live, ReadsAt(up, live), SpliceCall
  PROVE  \E up2, live2 : ReadsAt(up2, live2)'
<1>1. PICK up2, live2 : Placed(up2, live2)'
  BY CallPlaced DEF ReadsAt
<1>2. phase = "splicing" /\ phase' = "splicing"
  BY DEF SpliceCall
<1>3. env' = promise'
  <2>1. PICK k : env' = WithLocals(env, k) /\ promise' = WithLocals(promise, k)
    BY DEF SpliceCall
  <2>2. env = promise
    BY <1>2 DEF ReadsAt
  <2> QED
    BY <2>1, <2>2
<1>4. ReadsAt(up2, live2)'
  BY <1>1, <1>2, <1>3 DEF ReadsAt
<1> QED
  BY <1>4

\* What the program leaves when it is done.
LEMMA DoneReads ==
  ASSUME SpliceInv, NEW up, NEW live, ReadsAt(up, live), ~relayed, phase = "running",
         UNCHANGED <<source, env, promise>>,
         \/ pc = Len(steps) + 1
         \/ pc \in DOMAIN steps /\ Here.do.op = "leave",
         NEW s \in Var
  PROVE  Agree(0, s)'
<1>1. Placed(up, live) /\ Meets(up, live) /\ s \in Own(0)
  BY DEF ReadsAt, Own
<1>2. Agree(0, s)
  <2>1. CASE pc = Len(steps) + 1
    <3>1. rest = <<>>
      BY DEF SpliceInv, Passing
    <3>2. Control(pc, up) = 0 /\ ~Unset(steps, pc, 0, s) /\ 0 \in live[0]
      BY <1>1, <2>1, <3>1, Outermost
    <3> QED
      BY <1>1, <3>2 DEF Meets
  <2>2. CASE pc \in DOMAIN steps /\ Here.do.op = "leave"
    <3>1. 0 \in live[Here.splice] /\ Before(Here, up) = Here.splice
      BY <1>1, <2>2, Landing DEF Before
    <3> QED
      BY <1>1, <2>2, <3>1, AllAgree
  <2> QED
    BY <2>1, <2>2
<1> QED
  BY <1>2 DEF Agree, source

\* Running changes no step and no splice, and keeps what is promised.
LEMMA RunReads ==
  ASSUME SpliceInv, NEW up, NEW live, ReadsAt(up, live), RunProgram
  PROVE  ReadsAt(up, live)'
<1>1. UNCHANGED source /\ phase = "running"
  BY DEF RunProgram, EnterScope, Reset, AssignName, Pass, LeaveScope, RepeatScope, EndScope, Exit, At
<1>2. UNCHANGED <<body, made, relayed>> /\ whole' = whole
  BY <1>1 DEF source, whole
<1>3. Placed(up, live)'
  BY <1>2, PlacedStays DEF ReadsAt
<1>4. Placed(up, live) /\ (~relayed => Meets(up, live))
  BY <1>1 DEF ReadsAt
<1>5. CASE EnterScope \/ Reset \/ AssignName \/ RepeatScope
  <2>1. phase' = "running"
    BY <1>1, <1>5 DEF EnterScope, Reset, AssignName, RepeatScope
  <2>2. ~relayed => Meets(up, live)'
    BY <1>4, <1>5, EnterMeets, ResetMeets, AssignMeets, RepeatMeets
  <2> QED
    BY <1>2, <1>3, <2>1, <2>2 DEF ReadsAt
<1>6. CASE Pass \/ EndScope
  <2>1. /\ phase' = "running" /\ pc \in DOMAIN steps /\ Here.do.op \in Jumps \cup {"end"}
        /\ UNCHANGED <<source, env, promise>> /\ pc' = pc + 1
    BY <1>1, <1>6 DEF Pass, EndScope, At, Jumps
  <2>2. ~relayed => Meets(up, live)'
    BY <1>1, <1>4, <2>1, PassMeets
  <2> QED
    BY <1>2, <1>3, <2>1, <2>2 DEF ReadsAt
<1>7. CASE LeaveScope /\ Here.scope[1] # Program
  <2>1. phase' = "running"
    BY <1>1, <1>7 DEF LeaveScope
  <2>2. ~relayed => Meets(up, live)'
    BY <1>4, <1>7, LeaveMeets
  <2> QED
    BY <1>2, <1>3, <2>1, <2>2 DEF ReadsAt
<1>8. CASE Exit \/ (LeaveScope /\ Here.scope[1] = Program)
  <2>1. /\ phase' = "done" /\ UNCHANGED <<source, env, promise>>
        /\ \/ pc = Len(steps) + 1
           \/ pc \in DOMAIN steps /\ Here.do.op = "leave"
    BY <1>8 DEF Exit, LeaveScope, At, state
  <2>2. ~relayed => \A s \in Var : Agree(0, s)'
    BY <1>1, <2>1, DoneReads
  <2> QED
    BY <1>2, <1>3, <2>1, <2>2 DEF ReadsAt
<1>9. CASE LeaveScope
  <2>1. Here.scope[1] = Program \/ Here.scope[1] # Program
    OBVIOUS
  <2> QED
    BY <1>7, <1>8, <1>9, <2>1
<1> QED
  BY <1>5, <1>6, <1>8, <1>9 DEF RunProgram

\* No step breaks it.
LEMMA StepReads == SpliceInv /\ ReadsInv /\ [Next]_vars => ReadsInv'
<1> SUFFICES ASSUME SpliceInv, ReadsInv, [Next]_vars PROVE ReadsInv'
  OBVIOUS
<1>1. PICK up, live : ReadsAt(up, live)
  BY DEF ReadsInv
<1>2. \E up2, live2 : ReadsAt(up2, live2)'
  <2>1. CASE UNCHANGED vars
    <3>1. /\ UNCHANGED <<body, steps, rest, made, relayed, phase, pc, env, promise>>
      BY <2>1 DEF vars, source, state
    <3>2. whole' = whole
      BY <3>1 DEF whole
    <3>3. Placed(up, live)'
      BY <1>1, <3>1, <3>2, PlacedStays DEF ReadsAt
    <3>4. Meets(up, live) => Meets(up, live)'
      BY <3>1 DEF Meets, Control, Before, Unset, Agree, Own
    <3>5. \A s \in Var : Agree(0, s) => Agree(0, s)'
      BY <3>1 DEF Agree
    <3>6. ReadsAt(up, live)'
      BY <1>1, <3>1, <3>3, <3>4, <3>5 DEF ReadsAt
    <3> QED
      BY <3>6
  <2>2. CASE SpliceProgram
    BY <1>1, <2>2, KeepReads, EndPassReads, CallReads DEF SpliceProgram
  <2>3. CASE RunProgram
    BY <1>1, <2>3, RunReads
  <2> QED
    BY <2>1, <2>2, <2>3 DEF Next, Stopped
<1> QED
  BY <1>2 DEF ReadsInv

\* Every step of every splice reads what the calls promise it reads, and the
\* program leaves its variables as the calls would, whatever the templates'
\* bodies, however they call one another and however the program jumps: unless
\* a call has handed one name on from two of its ports.
THEOREM SplicesKeepPromises == Spec => []SameReads
<1>1. SpliceInv /\ ReadsInv => SameReads
  <2> SUFFICES ASSUME SpliceInv, ReadsInv, ~relayed
               PROVE  /\ phase = "running" /\ pc \in DOMAIN steps /\ Here.do.op \in Jumps \cup {"assign"}
                           => env[Name(Here.do.read)] = promise[Cell(Here.do.read)]
                      /\ phase = "done" => \A v \in Var : env[<<0, v>>] = promise[<<0, v>>]
    BY DEF SameReads
  <2>1. PICK up, live : ReadsAt(up, live)
    BY DEF ReadsInv
  <2>2. ASSUME phase = "running", pc \in DOMAIN steps, Here.do.op \in Jumps \cup {"assign"}
        PROVE  env[Name(Here.do.read)] = promise[Cell(Here.do.read)]
    <3>1. Placed(up, live) /\ Meets(up, live)
      BY <2>1, <2>2 DEF ReadsAt
    <3>2. Here.splice \in live[Before(Here, up)]
      BY <2>2, <3>1, Landing DEF Before, Jumps
    <3>3. Here.do.read \in Own(Here.splice)
      BY <2>2, HereSound DEF Fits
    <3>4. Agree(Here.splice, Here.do.read)
      BY <2>2, <3>1, <3>2, <3>3, AllAgree DEF Jumps
    <3> QED
      BY <3>4 DEF Agree, Name, Cell, Mine
  <2>3. ASSUME phase = "done", NEW v \in Var PROVE env[<<0, v>>] = promise[<<0, v>>]
    <3>1. Agree(0, v) /\ made[0].names[v] = <<0, v>> /\ made[0].cells[v] = <<0, v>>
      BY <2>1, <2>3 DEF ReadsAt, Placed, Tree
    <3> QED
      BY <3>1 DEF Agree
  <2> QED
    BY <2>2, <2>3
<1> QED
  BY <1>1, InitReads, StepReads, SpliceHolds, PTL DEF Spec
=============================================================================
