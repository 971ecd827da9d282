------------------------------ MODULE TableWalk ------------------------------
(***************************************************************************)
(* The cursor `rows.step` of programs/sqlite/read.mereo: an in-order walk  *)
(* of a table b-tree with an explicit stack that belongs to the caller.    *)
(* One call of `rows.step` moves to the next row, or says that there is    *)
(* none.  Pages hold whatever a file may hold: a page may be neither a     *)
(* leaf nor an interior page, a child may be missing, pages may be shared  *)
(* and may even lie beneath themselves.  A row is named by its leaf and    *)
(* its place there; what is in it is left out.                             *)
(***************************************************************************)
EXTENDS Integers, SequencesExt

CONSTANTS Page,        \* the pages of the file
          NoPage,      \* a page number below 1
          Root,        \* the root page of the table
          DepthLimit,  \* depth_limit: the levels the caller's stack has room for
          MaxRows,     \* bound: rows of a leaf
          MaxKeys      \* bound: cells of an interior page

\* What the walk is told: a stack with room for the root, and a root.
ASSUME TableAssumption ==
  /\ NoPage \notin Page
  /\ Root \in Page
  /\ DepthLimit \in Nat \ {0}
  /\ MaxRows \in Nat
  /\ MaxKeys \in Nat

VARIABLES file,    \* the content of every page
          nest,    \* the caller's stack: a page and the next cell, per level
          depth,   \* the levels in use
          pc,      \* in "walk", or "answered" to the caller
          result,  \* 1 a row, 0 exhausted, -1 malformed, -2 the row overflows
          row,     \* the row this call arrived at
          handed   \* the rows the caller was given

\* The caller's cursor.
cursor == <<nest, depth>>

\* What one call answers.
answer == <<pc, result, row>>

vars == <<file, cursor, answer, handed>>

\* Every child a cell or the right-most pointer may name.
Child == Page \cup {NoPage}

\* A leaf with its number of rows and those that spill onto overflow pages; an
\* interior page with its children, the right-most one last; anything else.
Content == [kind : {"leaf"}, rows : 0..MaxRows, spilled : SUBSET (1..MaxRows)]
             \cup [kind : {"interior"},
                   children : UNION {[1..n + 1 -> Child] : n \in 0..MaxKeys}]
             \cup [kind : {"other"}]

\* No call has arrived at a row yet.
NoRow == <<>>

Init == /\ file \in [Page -> {c \in Content : c.kind = "leaf" => c.spilled \subseteq 1..c.rows}]
        /\ nest = [level \in 1..DepthLimit |-> [page |-> IF level = 1 THEN Root ELSE NoPage,
                                                cell |-> 0]]
        /\ depth = 1
        /\ pc = "walk"
        /\ result = 0
        /\ row = NoRow
        /\ handed = <<>>

-----------------------------------------------------------------------------
(* One pass of the loop `walk`.                                            *)

\* The top of the stack.
top == nest[depth]

\* What the page at the top holds.
page == file[top.page]

\* The walk is at a page of this kind.
At(kind) == /\ pc = "walk"
            /\ depth # 0
            /\ top.page # NoPage
            /\ page.kind = kind

\* `leave walk`: the call ends with this result.
Answer(code) == /\ pc' = "answered"
                /\ result' = code

\* Nothing is left on the stack.
Empty == /\ pc = "walk"
         /\ depth = 0
         /\ Answer(0)
         /\ UNCHANGED <<file, cursor, row, handed>>

\* A page number below 1.
BadPage == /\ pc = "walk"
           /\ depth # 0
           /\ top.page = NoPage
           /\ Answer(-1)
           /\ UNCHANGED <<file, cursor, row, handed>>

\* A leaf with a row left: the cell is taken whether or not the row fits.
LeafRow == /\ At("leaf")
           /\ top.cell < page.rows
           /\ nest' = [nest EXCEPT ![depth].cell = @ + 1]
           /\ row' = <<top.page, top.cell + 1>>
           /\ Answer(IF top.cell + 1 \in page.spilled THEN -2 ELSE 1)
           /\ UNCHANGED <<file, depth, handed>>

\* A leaf without: its level is given up, and the call ends there.
LeafPop == /\ At("leaf")
           /\ top.cell >= page.rows
           /\ depth' = depth - 1
           /\ Answer(0)
           /\ UNCHANGED <<file, nest, row, handed>>

\* An interior page has a child left: one per cell and the right-most one.
HasChild == /\ At("interior")
            /\ top.cell < Len(page.children)

\* The stack has room for a level more.
\* Mutant: and for one beyond it.
HasRoomBeyond == depth <= DepthLimit

HasRoom == depth < DepthLimit

\* An interior page whose right-most child was visited: its level is given up.
InteriorPop == /\ At("interior")
               /\ top.cell >= Len(page.children)
               /\ depth' = depth - 1
               /\ Answer(0)
               /\ UNCHANGED <<file, nest, row, handed>>

\* A level more than the stack has room for.
\* Mutant: the refusal is set and the loop goes round again.
TooDeepSpins == /\ HasChild
                /\ ~HasRoom
                /\ result' = -1
                /\ UNCHANGED <<file, cursor, pc, row, handed>>

TooDeep == /\ HasChild
           /\ ~HasRoom
           /\ Answer(-1)
           /\ UNCHANGED <<file, cursor, row, handed>>

\* The level above counts the child, and the level below begins with it.
\* Mutant: the level below goes on where the one that was there stopped.
DescendStale(child) ==
  nest' = [nest EXCEPT ![depth].cell = @ + 1, ![depth + 1].page = child]

\* Mutant: the child is written over the page it belongs to.
DescendOver(child) ==
  nest' = [nest EXCEPT ![depth] = [page |-> child, cell |-> 0]]

DescendInto(child) ==
  nest' = [nest EXCEPT ![depth].cell = @ + 1,
                       ![depth + 1] = [page |-> child, cell |-> 0]]

\* Descend into the next child, and `repeat walk`.
Descend == /\ HasChild
           /\ HasRoom
           /\ DescendInto(page.children[top.cell + 1])
           /\ depth' = depth + 1
           /\ UNCHANGED <<file, answer, handed>>

\* Neither a leaf nor an interior page of a table.
OtherPage == /\ At("other")
             /\ Answer(-1)
             /\ UNCHANGED <<file, cursor, row, handed>>

\* One pass of the loop.
Walk == \/ Empty \/ BadPage \/ LeafRow \/ LeafPop \/ InteriorPop \/ TooDeep \/ Descend
        \/ OtherPage

-----------------------------------------------------------------------------
(* The caller.                                                             *)

\* The caller takes a row and calls again.
Take == /\ pc = "answered"
        /\ result = 1
        /\ handed' = Append(handed, row)
        /\ pc' = "walk"
        /\ result' = 0
        /\ row' = NoRow
        /\ UNCHANGED <<file, cursor>>

\* A caller may call again after any other answer too.  The loops of
\* probe_rows.mereo and serve.mereo stop there instead.
CallAgain == /\ pc = "answered"
             /\ result # 1
             /\ pc' = "walk"
             /\ result' = 0
             /\ row' = NoRow
             /\ UNCHANGED <<file, cursor, handed>>

Next == Walk \/ Take \/ CallAgain

\* The processor keeps executing a call; nobody has to call.
Spec == Init /\ [][Next]_vars /\ WF_vars(Walk)

-----------------------------------------------------------------------------
(* Properties.                                                             *)

\* The walk stays within the caller's stack, whatever the pages say:
\* sixteen bytes per level, depth_limit levels.
TypeOK == /\ depth \in 0..DepthLimit
          /\ nest \in [1..DepthLimit -> [page : Child, cell : Nat]]
          /\ pc \in {"walk", "answered"}
          /\ result \in {1, 0, -1, -2}
          /\ file \in [Page -> Content]
          /\ row \in {NoRow} \cup (Page \X Nat)

\* The stack is a path of the tree: each level holds the child that the level
\* above it counted last.  A level written at the wrong place, or counted
\* late, breaks it.
StackIsPath ==
  \A level \in 1..depth - 1 :
    LET above == nest[level]
    IN  /\ above.page \in Page
        /\ file[above.page].kind = "interior"
        /\ above.cell \in DOMAIN file[above.page].children
        /\ nest[level + 1].page = file[above.page].children[above.cell]

\* The rows of a leaf from one place on.
LeafFrom(p, cell) == [i \in 1..file[p].rows - cell |-> <<p, cell + i>>]

\* The place where a walk is refused, in an order of rows.
Refused == <<NoPage, 0>>

\* What a page still gives, in order, from one of its cells on, to a stack that
\* has it at this level: its own rows, or those beneath each child that is left.
\* A place where the walk is refused stands among them.
From(p, cell, level, beneath) ==
  IF p = NoPage \/ file[p].kind = "other" THEN <<Refused>>
  ELSE IF file[p].kind = "leaf" THEN LeafFrom(p, cell)
  ELSE IF level = DepthLimit /\ cell < Len(file[p].children) THEN <<Refused>>
  ELSE FlattenSeq([n \in 1..Len(file[p].children) - cell |->
                     beneath[level + 1][file[p].children[cell + n]]])

\* The rows beneath a page, by the level the page is at.
RowsAt[level \in 1..DepthLimit] == [p \in Child |-> From(p, 0, level, RowsAt)]

\* What the level of the stack still has to give, after what is below it.
LeftAt(level) == From(nest[level].page, nest[level].cell, level, RowsAt)

\* What the cursor still has to give: the deepest level first.
Left == FlattenSeq([i \in 1..depth |-> LeftAt(depth + 1 - i)])

\* A row that does not spill, and a refusal, remain.
Remains(r) == IF r = Refused \/ r[2] \notin file[r[1]].spilled THEN <<r>> ELSE <<>>

\* The rows that do not spill.
Whole(rows) == FlattenSeq([i \in DOMAIN rows |-> Remains(rows[i])])

\* Between any two steps of a walk, what was handed out, the row just arrived
\* at and what the cursor still stands before are the table, in order: no row
\* is skipped but one that spills, none comes twice, and a place the walk
\* refused is never passed.
NothingSkipped ==
  Whole(RowsAt[1][Root]) = handed \o (IF result = 1 THEN <<row>> ELSE <<>>) \o Whole(Left)

\* Every call of `rows.step` answers, whatever the pages say: each `repeat
\* walk` is a level deeper, and the levels are bounded.
StepAnswers == pc = "walk" ~> pc = "answered"

-----------------------------------------------------------------------------
(* What the documentation says and the code does not do.                   *)

\* A table as SQLite writes one: no refusal anywhere, each leaf once, no leaf
\* without a row.
SoundTable == LET rows == RowsAt[1][Root]
              IN  /\ \A i, j \in DOMAIN rows : rows[i] # Refused /\ (rows[i] = rows[j] => i = j)
                  /\ \A p \in Page : file[p].kind = "leaf" => file[p].rows > 0

\* read.mereo:314: "result  1 a row    0 the table is exhausted".  A leaf that
\* is used up ends the call with 0 although the level above has more children.
ExhaustedIsAll == SoundTable /\ pc = "answered" /\ result = 0 => Whole(Left) = <<>>
=============================================================================
