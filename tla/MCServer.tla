------------------------------ MODULE MCServer ------------------------------
(* A program and the library it includes, and no other program.  The new    *)
(* library declares a name that the old program has for its own, which the  *)
(* parser refuses in the program's file; the new program calls what only    *)
(* the new library has, which the planner refuses, in no file.              *)
EXTENDS LanguageServer

CONSTANTS prog, lib, old, new

TheProgram == [p \in {prog, lib} |-> prog]

\* Where the error is, the library having one text and the program another.
Verdict(library, program) ==
  CASE library = program -> Nowhere
    [] library = new /\ program = old -> prog
    [] library = old /\ program = new -> Unnamed

TheRefusals ==
  [p \in {prog, lib} |-> [texts \in [{prog, lib} -> Text] |-> Verdict(texts[lib], texts[prog])]]
=============================================================================
