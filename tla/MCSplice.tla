------------------------------ MODULE MCSplice ------------------------------
(* Two templates, of which f may be any one or two of the steps below, which *)
(* call g, change a name or jump, and g is one of a few, which may call f    *)
(* back.                                                                     *)
EXTENDS Splice

CONSTANTS f, g, a, b, l, x, y

Symbol == {a, b, l}

\* Ways to hand two names on.
Conns(names) == [{a, b} -> names]

InG == {<<Assign(a, a)>>, <<Assign(a, b)>>, <<Assign(l, l), Assign(a, l)>>,
        <<Leave(g, b), Assign(b, a)>>, <<Assign(a, a), Repeat(g, a)>>,
        <<Leave(Program, a)>>, <<Leave(f, a)>>}
       \cup {<<Call(t, [p \in Port |-> p])>> : t \in {f, g}}

Steps == {Call(g, conns) : conns \in Conns(Symbol)}
           \cup {Assign(a, a), Assign(a, b), Assign(b, l), Assign(l, a), Assign(l, l)}
           \cup {Leave(f, a), Leave(g, a), Repeat(f, l)}

InF == {<<s>> : s \in Steps} \cup {<<s, t>> : s, t \in Steps}

FAndG == {[t \in {f, g} |-> IF t = f THEN inF ELSE inG] : inF \in InF, inG \in InG}

CallsOfF == {<<Call(f, [p \in {a, b} |-> x]), Repeat(Program, y)>>,
             <<Call(f, [p \in {a, b} |-> IF p = a THEN x ELSE y]), Repeat(Program, y)>>}
=============================================================================
