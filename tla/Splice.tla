------------------------------- MODULE Splice -------------------------------
(***************************************************************************)
(* The template splicer of mereoc.py, `expand_procedures` with             *)
(* `inline_procedure`: every call of a template is replaced by a copy of   *)
(* its body, pass after pass, and the program so made is run beside what   *)
(* the calls promise.  The promise is that of a call: a port the template  *)
(* only reads holds what its actual held at the call, a port it assigns is *)
(* the caller's own variable, and its locals are new each time.            *)
(*                                                                         *)
(* A name of the flat program is a splice and a symbol: the code writes    *)
(* `f_1_x` for the local x of the first splice, a copy of f.  Values are   *)
(* bits, and an assignment turns over the bit that it reads.               *)
(***************************************************************************)
EXTENDS Integers, Sequences, FiniteSets

CONSTANTS Template,  \* the templates
          Program,   \* the name that stands for the program's own scope
          Port,      \* the ports of every template
          Local,     \* the locals of every template, first value 0
          Var,       \* the program's own variables
          Bodies,    \* what the templates may be, each a sequence of steps
          Mains,     \* what the program may be
          Cap        \* passes of the splicer: 64 in the code

\* Nesting alone does not use the passes up.
ASSUME SpliceAssumption ==
  /\ Cap \in Nat
  /\ IsFiniteSet(Template) /\ Cardinality(Template) < Cap
  /\ Program \notin Template
  /\ IsFiniteSet(Local) /\ Port \cap Local = {}

VARIABLES body,     \* the templates' bodies
          steps,    \* what the pass under way has done, then the whole program
          rest,     \* what the pass still has before it
          changed,  \* the pass has spliced something
          passes,   \* passes done
          made,     \* per splice: its template, its names, the promised cells, the given
          relayed,  \* history: two ports of a call were one name, and one handed on
          phase,    \* "splicing", "refused", "recursive", "running" or "done"
          pc,       \* the step the flat program is at
          env,      \* name |-> value, in the flat program
          promise   \* name |-> value, as the calls promise

source == <<body, steps, rest, changed, passes, made, relayed>>
state == <<pc, env, promise>>
vars == <<source, phase, state>>

-----------------------------------------------------------------------------
(* The steps of a body.                                                    *)

Assign(target, read) == [op |-> "assign", target |-> target, read |-> read]

\* `leave NAME when READ` and `repeat NAME when READ`.
Leave(to, read) == [op |-> "leave", to |-> to, read |-> read]
Repeat(to, read) == [op |-> "repeat", to |-> to, read |-> read]

Call(to, conns) == [op |-> "call", to |-> to, conns |-> conns]

Jumps == {"leave", "repeat"}

\* What a body may say of the names it knows.
StepsOver(names) ==
  {Assign(target, read) : target \in names, read \in names}
    \cup {Leave(to, read) : to \in Template \cup {Program}, read \in names}
    \cup {Repeat(to, read) : to \in Template \cup {Program}, read \in names}
    \cup {Call(to, conns) : to \in Template, conns \in [Port -> names]}

\* The program's own jumps have no scope but the program to name.
ASSUME SourceAssumption ==
  /\ Bodies \subseteq [Template -> Seq(StepsOver(Port \cup Local))]
  /\ Mains \subseteq Seq(StepsOver(Var))
  /\ \A main \in Mains : \A i \in DOMAIN main : main[i].op \in Jumps => main[i].to = Program

\* A step of the flat program says which splice it came with, 0 for the
\* program's own, and what scope it opens, ends or names.
Flat(k, do, scope) == [splice |-> k, do |-> do, scope |-> scope]

\* The splice's own scope, `f_1`.
\* Mutant: the scope keeps the template's name.
ScopeOfTemplate(t, k) == <<t, 0>>

Scope(t, k) == <<t, k>>

NoScope == <<>>

\* What a jump names once it is spliced: the template's own scope or the
\* program's, which encloses every splice.
JumpScope(do, t, k) ==
  IF do.op \notin Jumps THEN NoScope
  ELSE IF do.to = t THEN Scope(t, k) ELSE <<do.to, 0>>

-----------------------------------------------------------------------------
(* A call.                                                                 *)

\* The ports a template assigns by a step of its own.
Assigned(t) == {p \in Port : \E i \in DOMAIN body[t] : body[t][i].op = "assign" /\ body[t][i].target = p}

\* The ports a template hands to one that it calls.
HandedOn(t) == {p \in Port : \E i \in DOMAIN body[t] :
                  body[t][i].op = "call" /\ \E q \in Port : body[t][i].conns[q] = p}

\* What a template writes, by itself or through those it calls: the least set
\* closed under both.
Closed(w) ==
  \A t \in Template :
    /\ \A p \in Assigned(t) : <<t, p>> \in w
    /\ \A i \in DOMAIN body[t] :
         body[t][i].op = "call" =>
           \A q \in Port : <<body[t][i].to, q>> \in w /\ body[t][i].conns[q] \in Port
                             => <<t, body[t][i].conns[q]>> \in w
Writes(t) ==
  {p \in Port : \A w \in SUBSET (Template \X Port) : Closed(w) => <<t, p>> \in w}

\* What a call's ports are bound to: the caller's names, renamed already.
Actuals(st) == [p \in Port |-> made[st.splice].names[st.do.conns[p]]]

\* The names of a splice: ports are the actuals, locals are its own.
Renaming(st, k) ==
  [s \in Port \cup Local |-> IF s \in Port THEN Actuals(st)[s] ELSE <<k, s>>]

\* The caller's promised cells, and those of the splice: a port that is only
\* read is a copy.
Given(st) == [p \in Port |-> made[st.splice].cells[st.do.conns[p]]]
Cells(st, k) == [s \in Port \cup Local |-> IF s \in Writes(st.do.to) THEN Given(st)[s] ELSE <<k, s>>]

\* Two ports are one name and the body assigns one of them.
\* Mutant: only where both are assigned.
ClobberedBoth(st) ==
  \E p, q \in Port : p # q /\ Actuals(st)[p] = Actuals(st)[q] /\ {p, q} \subseteq Assigned(st.do.to)

Clobbered(st) ==
  \E p, q \in Port : p # q /\ Actuals(st)[p] = Actuals(st)[q] /\ p \in Assigned(st.do.to)

\* The body jumps to a scope that is neither its own nor the program's.
Strays(t) == \E i \in DOMAIN body[t] : body[t][i].op \in Jumps /\ body[t][i].to \notin {t, Program}

-----------------------------------------------------------------------------
Init ==
  /\ body \in Bodies
  /\ \E main \in Mains :
       rest = [i \in DOMAIN main |-> Flat(0, main[i], JumpScope(main[i], Program, 0))]
  /\ steps = <<>> /\ changed = FALSE /\ passes = 0
  /\ made = [k \in {0} |-> [template |-> Program, names |-> [v \in Var |-> <<0, v>>],
                            cells |-> [v \in Var |-> <<0, v>>], given |-> <<>>]]
  /\ relayed = FALSE
  /\ phase = "splicing" /\ pc = 0
  /\ env \in [{<<0, v>> : v \in Var} -> {0, 1}] /\ promise = env

\* A step that calls no template stays.
Keep ==
  /\ phase = "splicing" /\ rest # <<>> /\ Head(rest).do.op # "call"
  /\ steps' = Append(steps, Head(rest)) /\ rest' = Tail(rest)
  /\ UNCHANGED <<body, changed, passes, made, relayed, phase, state>>

\* The locals of a splice, in some order.
LocalsInOrder == CHOOSE q \in [1..Cardinality(Local) -> Local] : \A l \in Local : \E i \in DOMAIN q : q[i] = l

\* A splice: its scope's start, its locals' first values, the body, its end.
Spliced(t, k) ==
  <<Flat(k, [op |-> "enter"], Scope(t, k))>>
    \o [i \in 1..Cardinality(Local) |-> Flat(k, [op |-> "reset", target |-> LocalsInOrder[i]], NoScope)]
    \o [i \in DOMAIN body[t] |-> Flat(k, body[t][i], JumpScope(body[t][i], t, k))]
    \o <<Flat(k, [op |-> "end"], Scope(t, k))>>

\* A new name holds 0.
WithLocals(held, k) == [n \in DOMAIN held \cup ({k} \X (Port \cup Local)) |->
                          IF n \in DOMAIN held THEN held[n] ELSE 0]

SpliceCall ==
  /\ phase = "splicing" /\ rest # <<>> /\ Head(rest).do.op = "call"
  /\ LET st == Head(rest)
         t == st.do.to
         k == Cardinality(DOMAIN made)
     IN /\ ~Clobbered(st) /\ ~Strays(t)
        /\ made' = [j \in DOMAIN made \cup {k} |->
                      IF j = k THEN [template |-> t, names |-> Renaming(st, k),
                                     cells |-> Cells(st, k), given |-> Given(st)]
                      ELSE made[j]]
        /\ relayed' = (relayed \/ \E p, q \in Port : p # q /\ Actuals(st)[p] = Actuals(st)[q]
                                                     /\ p \in HandedOn(t))
        /\ steps' = steps \o Spliced(t, k)
        /\ env' = WithLocals(env, k) /\ promise' = WithLocals(promise, k)
  /\ rest' = Tail(rest) /\ changed' = TRUE
  /\ UNCHANGED <<body, passes, phase, pc>>

\* A call the splicer refuses.
Refuse ==
  /\ phase = "splicing" /\ rest # <<>> /\ Head(rest).do.op = "call"
  /\ Clobbered(Head(rest)) \/ Strays(Head(rest).do.to)
  /\ phase' = "refused"
  /\ UNCHANGED <<source, state>>

\* A pass is over: another one, unless it has changed nothing or it was the last.
\* Mutant: the last but one is the last.
EndPassEarly ==
  /\ phase = "splicing" /\ rest = <<>>
  /\ passes' = passes + 1
  /\ IF ~changed THEN phase' = "running" /\ pc' = 1 /\ UNCHANGED <<steps, rest, changed>>
     ELSE IF passes' >= Cap - 1 THEN phase' = "recursive" /\ UNCHANGED <<steps, rest, changed, pc>>
     ELSE rest' = steps /\ steps' = <<>> /\ changed' = FALSE /\ UNCHANGED <<phase, pc>>
  /\ UNCHANGED <<body, made, relayed, env, promise>>

\* Mutant: at the last pass it starts over.
EndPassSpins ==
  /\ phase = "splicing" /\ rest = <<>>
  /\ passes' = IF changed /\ passes + 1 = Cap THEN passes ELSE passes + 1
  /\ IF ~changed THEN phase' = "running" /\ pc' = 1 /\ UNCHANGED <<steps, rest, changed>>
     ELSE IF passes + 1 = Cap THEN UNCHANGED <<phase, steps, rest, changed, pc>>
     ELSE rest' = steps /\ steps' = <<>> /\ changed' = FALSE /\ UNCHANGED <<phase, pc>>
  /\ UNCHANGED <<body, made, relayed, env, promise>>

EndPass ==
  /\ phase = "splicing" /\ rest = <<>>
  /\ passes' = passes + 1
  /\ IF ~changed THEN phase' = "running" /\ pc' = 1 /\ UNCHANGED <<steps, rest, changed>>
     ELSE IF passes' = Cap THEN phase' = "recursive" /\ UNCHANGED <<steps, rest, changed, pc>>
     ELSE rest' = steps /\ steps' = <<>> /\ changed' = FALSE /\ UNCHANGED <<phase, pc>>
  /\ UNCHANGED <<body, made, relayed, env, promise>>

SpliceProgram == Keep \/ SpliceCall \/ Refuse \/ EndPass

-----------------------------------------------------------------------------
(* Running the flat program, and what the calls promise beside it.         *)

Here == steps[pc]
At(op) == phase = "running" /\ pc \in DOMAIN steps /\ Here.do.op = op

Mine == made[Here.splice]
Name(s) == Mine.names[s]
Cell(s) == Mine.cells[s]

Start(scope) == CHOOSE i \in DOMAIN steps : steps[i].do.op = "enter" /\ steps[i].scope = scope
End(scope) == CHOOSE i \in DOMAIN steps : steps[i].do.op = "end" /\ steps[i].scope = scope

\* The promise's locals are new.
FreshLocals(held) == [n \in DOMAIN held |-> IF n \in {Here.splice} \X Local THEN 0 ELSE held[n]]

\* A splice begins: nothing happens in the program, and what is only read is
\* copied where a call is promised.
EnterScope ==
  /\ At("enter")
  /\ promise' = FreshLocals([n \in DOMAIN promise |->
                   IF \E p \in Port : n = <<Here.splice, p>> /\ Cell(p) = n
                   THEN promise[Mine.given[n[2]]] ELSE promise[n]])
  /\ pc' = pc + 1
  /\ UNCHANGED <<source, phase, env>>

\* A local's first value.
Reset ==
  /\ At("reset")
  /\ env' = [env EXCEPT ![Name(Here.do.target)] = 0]
  /\ pc' = pc + 1
  /\ UNCHANGED <<source, phase, promise>>

AssignName ==
  /\ At("assign")
  /\ env' = [env EXCEPT ![Name(Here.do.target)] = 1 - env[Name(Here.do.read)]]
  /\ promise' = [promise EXCEPT ![Cell(Here.do.target)] = 1 - promise[Cell(Here.do.read)]]
  /\ pc' = pc + 1
  /\ UNCHANGED <<source, phase>>

\* A jump whose condition does not hold.
Pass ==
  /\ At("leave") \/ At("repeat")
  /\ env[Name(Here.do.read)] = 0
  /\ pc' = pc + 1
  /\ UNCHANGED <<source, phase, env, promise>>

LeaveScope ==
  /\ At("leave") /\ env[Name(Here.do.read)] = 1
  /\ IF Here.scope[1] = Program THEN phase' = "done" /\ UNCHANGED pc
     ELSE pc' = End(Here.scope) /\ UNCHANGED phase
  /\ UNCHANGED <<source, env, promise>>

RepeatScope ==
  /\ At("repeat") /\ env[Name(Here.do.read)] = 1
  /\ IF Here.scope[1] = Program THEN pc' = 1 /\ UNCHANGED promise
     ELSE pc' = Start(Here.scope) + 1 /\ promise' = FreshLocals(promise)
  /\ UNCHANGED <<source, phase, env>>

EndScope ==
  /\ At("end")
  /\ pc' = pc + 1
  /\ UNCHANGED <<source, phase, env, promise>>

Exit ==
  /\ phase = "running" /\ pc = Len(steps) + 1
  /\ phase' = "done"
  /\ UNCHANGED <<source, state>>

RunProgram == EnterScope \/ Reset \/ AssignName \/ Pass \/ LeaveScope \/ RepeatScope \/ EndScope \/ Exit

\* Nothing more to do.
Stopped == phase \in {"refused", "recursive", "done"} /\ UNCHANGED vars

Next == SpliceProgram \/ RunProgram \/ Stopped

\* The compiler keeps running.
Spec == Init /\ [][Next]_vars /\ WF_vars(SpliceProgram)

-----------------------------------------------------------------------------
(* Properties.                                                             *)

\* The passes are counted, every step is some splice's, and the program has
\* its place; no step of a finished program calls a template.
TypeOK ==
  /\ passes \in 0..Cap
  /\ phase \in {"splicing", "refused", "recursive", "running", "done"}
  /\ \A i \in DOMAIN steps : steps[i].splice \in DOMAIN made
  /\ \A i \in DOMAIN rest : rest[i].splice \in DOMAIN made
  /\ phase = "running" => /\ pc \in 1..Len(steps) + 1
                          /\ \A i \in DOMAIN steps : steps[i].do.op # "call"
  /\ DOMAIN env = DOMAIN promise
  /\ \A n \in DOMAIN env : {env[n], promise[n]} \subseteq {0, 1}

\* mereoc.py:5956, "A template's control flow is its own": in the program the
\* splicer leaves, a jump of a splice stands inside the scope that it names,
\* that scope is the splice's own, and no other scope has its name.
JumpsLandHome ==
  phase = "running" =>
    \A i \in DOMAIN steps :
      steps[i].do.op \in Jumps /\ steps[i].scope # <<Program, 0>> =>
        LET marks == {j \in DOMAIN steps : steps[j].do.op \in {"enter", "end"}
                                           /\ steps[j].scope = steps[i].scope}
        IN  \E first, last \in marks : /\ marks = {first, last}
                                       /\ first < i /\ i < last
                                       /\ steps[first].do.op = "enter"
                                       /\ steps[first].splice = steps[i].splice
                                       /\ steps[last].do.op = "end"

\* The flat program reads what the calls promise it reads, at every step of
\* every splice, and leaves the program's variables as the calls would: no
\* local keeps what an earlier entry left in it, no port's copy is
\* overwritten through another name, no name is taken for another.  A call
\* with one name in two ports, one of them handed on, is set apart.
SameReads ==
  ~relayed =>
    /\ phase = "running" /\ pc \in DOMAIN steps /\ Here.do.op \in Jumps \cup {"assign"}
         => env[Name(Here.do.read)] = promise[Cell(Here.do.read)]
    /\ phase = "done" => \A v \in Var : env[<<0, v>>] = promise[<<0, v>>]

\* A ring of templates each of which calls one of the ring.
Ring == \E ring \in (SUBSET Template) \ {{}} :
          \A t \in ring : \E i \in DOMAIN body[t] : body[t][i].op = "call" /\ body[t][i].to \in ring

\* mereoc.py:6118: "Still expanding after the cap: something calls itself,
\* directly or round a cycle".  Nesting is never taken for it.
RecursionIsNamed == phase = "recursive" => Ring

\* The splicer comes to a verdict, whatever calls whatever.
SplicingEnds == phase = "splicing" ~> phase # "splicing"

-----------------------------------------------------------------------------
(* What the code says of itself and does not do.                           *)

\* mereoc.py:5936 says of an actual bound to two ports one of which the body
\* assigns: "the other's reads would see the clobbered value. Reject rather
\* than answer wrongly."
RejectsOrAnswersRight ==
  phase = "running" /\ pc \in DOMAIN steps /\ Here.do.op \in Jumps \cup {"assign"}
    => env[Name(Here.do.read)] = promise[Cell(Here.do.read)]
=============================================================================
