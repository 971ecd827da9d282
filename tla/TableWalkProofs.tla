--------------------------- MODULE TableWalkProofs ---------------------------
(***************************************************************************)
(* The walk stays within the caller's stack, the stack is a path of the    *)
(* tree, and the rows handed out are the rows of the table in order, for   *)
(* every file, every number of pages and every depth_limit.                *)
(***************************************************************************)
EXTENDS TableWalk, TLAPS, SequenceTheorems, WellFoundedInduction

-----------------------------------------------------------------------------
(* Numbers and sequences.  Induction is stated over sets.                  *)

\* A set of natural numbers that is not empty has a least member.
LEMMA LeastNumber ==
  ASSUME NEW T \in SUBSET Nat, T # {}
  PROVE  \E i \in T : \A j \in T : i <= j
<1>1. PICK i \in T : \A j \in T : ~(<<j, i>> \in OpToRel(<, Nat))
  BY NatLessThanWellFounded, WFMin
<1>2. ASSUME NEW j \in T PROVE i <= j
  <2>1. ~(j < i)
    BY <1>1, <1>2, Zenon DEF OpToRel
  <2> QED
    BY <2>1
<1> QED
  BY <1>2

\* What holds at 0 and is handed on holds of every number.
LEMMA EveryNumber ==
  ASSUME NEW S, 0 \in S, \A n \in Nat : n \in S => n + 1 \in S
  PROVE  Nat \subseteq S
<1> SUFFICES ASSUME Nat \ S # {} PROVE FALSE
  OBVIOUS
<1>1. PICK n \in Nat \ S : \A m \in Nat \ S : n <= m
  BY LeastNumber
<1>2. n - 1 \in Nat /\ n - 1 \notin S
  BY <1>1
<1> QED
  BY <1>1, <1>2

\* f[i] is the first i rows of s, flattened.
Unfolded(f, s, n) ==
  /\ f = [i \in 1..n |-> f[i]]
  /\ \A i \in 1..n : f[i] = IF i = 1 THEN s[i] ELSE f[i - 1] \o s[i]

\* Each step of the flattening, from the one before it.
LEMMA UnfoldedAt ==
  ASSUME NEW f, NEW s, NEW n, Unfolded(f, s, n), NEW i \in 1..n
  PROVE  f[i] = IF i = 1 THEN s[i] ELSE f[i - 1] \o s[i]
BY Zenon DEF Unfolded

\* The flattening exists, however many rows there are.
LEMMA Unfolding ==
  ASSUME NEW s, NEW n \in Nat PROVE \E f : Unfolded(f, s, n)
<1> DEFINE S == {m \in Nat : \E f : Unfolded(f, s, m)}
<1>1. 0 \in S
  <2> DEFINE f == [i \in 1..0 |-> s[i]]
  <2>1. Unfolded(f, s, 0)
    BY DEF Unfolded
  <2> QED
    BY <2>1
<1>2. ASSUME NEW m \in Nat, m \in S PROVE m + 1 \in S
  <2>1. PICK f : Unfolded(f, s, m)
    BY <1>2
  <2> DEFINE next == IF m = 0 THEN s[1] ELSE f[m] \o s[m + 1]
             g == [i \in 1..(m + 1) |-> IF i = m + 1 THEN next ELSE f[i]]
  <2>2. ASSUME NEW i \in 1..(m + 1) PROVE g[i] = IF i = 1 THEN s[i] ELSE g[i - 1] \o s[i]
    <3>1. CASE i = m + 1
      BY <3>1
    <3>2. CASE i # m + 1
      <4>1. i \in 1..m /\ g[i] = f[i]
        BY <3>2
      <4>2. f[i] = IF i = 1 THEN s[i] ELSE f[i - 1] \o s[i]
        BY <2>1, <4>1, UnfoldedAt
      <4>3. i # 1 => g[i - 1] = f[i - 1]
        BY <4>1
      <4> QED
        BY <4>1, <4>2, <4>3
    <3> QED
      BY <3>1, <3>2
  <2>3. g = [i \in 1..(m + 1) |-> g[i]]
    BY Zenon
  <2>4. Unfolded(g, s, m + 1)
    <3> HIDE DEF g
    <3> QED
      BY <2>2, <2>3 DEF Unfolded
  <2> QED
    BY <2>4
<1> QED
  <2> HIDE DEF S
  <2>1. Nat \subseteq S
    BY <1>1, <1>2, EveryNumber
  <2> QED
    BY <2>1 DEF S

\* Rows that agree are flattened alike.
LEMMA UnfoldedAlike ==
  ASSUME NEW s, NEW t, NEW f, NEW g, NEW m \in Nat, NEW n \in Nat, m <= n,
         Unfolded(f, s, m), Unfolded(g, t, n), \A i \in 1..m : s[i] = t[i]
  PROVE  \A i \in 1..m : f[i] = g[i]
<1> DEFINE S == {k \in Nat : k \in 1..m => f[k] = g[k]}
<1>1. ASSUME NEW k \in Nat, k \in S PROVE k + 1 \in S
  <2>1. CASE k + 1 \in 1..m
    <3>1. /\ f[k + 1] = IF k + 1 = 1 THEN s[k + 1] ELSE f[(k + 1) - 1] \o s[k + 1]
          /\ g[k + 1] = IF k + 1 = 1 THEN t[k + 1] ELSE g[(k + 1) - 1] \o t[k + 1]
      <4>1. k + 1 \in 1..m /\ k + 1 \in 1..n
        BY <2>1
      <4> QED
        BY <4>1, UnfoldedAt
    <3>2. (k + 1) - 1 = k /\ s[k + 1] = t[k + 1] /\ (k = 0 \/ f[k] = g[k])
      BY <1>1, <2>1
    <3> QED
      BY <3>1, <3>2
  <2> QED
    BY <2>1
<1>2. 0 \in S
  OBVIOUS
<1> QED
  <2> HIDE DEF S
  <2>1. Nat \subseteq S
    BY <1>1, <1>2, EveryNumber
  <2> QED
    BY <2>1 DEF S

\* Nothing, flattened.
LEMMA FlattenEmpty == FlattenSeq(<<>>) = <<>>
  BY DEF FlattenSeq

\* FlattenSeq is the last step of the flattening.
LEMMA FlattenUnfolded ==
  ASSUME NEW s, NEW n \in Nat \ {0}, Len(s) = n
  PROVE  \E f : Unfolded(f, s, n) /\ FlattenSeq(s) = f[n]
<1> DEFINE f == CHOOSE f : f = [i \in 1..n |-> IF i = 1 THEN s[i] ELSE f[i - 1] \o s[i]]
<1>1. f = [i \in 1..n |-> IF i = 1 THEN s[i] ELSE f[i - 1] \o s[i]]
  <2>1. PICK g : Unfolded(g, s, n)
    BY Unfolding
  <2>2. g = [i \in 1..n |-> IF i = 1 THEN s[i] ELSE g[i - 1] \o s[i]]
    BY <2>1, Zenon DEF Unfolded
  <2> QED
    BY <2>2, Zenon
<1>2. FlattenSeq(s) = f[n]
  BY DEF FlattenSeq
<1>3. Unfolded(f, s, n)
  BY <1>1 DEF Unfolded
<1> QED
  BY <1>2, <1>3

\* Flattening takes one sequence after the other.
LEMMA FlattenAppend ==
  ASSUME NEW V, NEW s \in Seq(Seq(V)), NEW x \in Seq(V)
  PROVE  FlattenSeq(Append(s, x)) = FlattenSeq(s) \o x
<1> DEFINE t == Append(s, x)
           n == Len(s)
<1>1. n \in Nat /\ t \in Seq(Seq(V)) /\ Len(t) = n + 1 /\ t[n + 1] = x /\ \A i \in 1..n : t[i] = s[i]
  BY AppendProperties
<1> HIDE DEF n, t
<1>2. PICK g : Unfolded(g, t, n + 1) /\ FlattenSeq(t) = g[n + 1]
  <2>1. n + 1 \in Nat \ {0}
    BY <1>1
  <2> QED
    BY <1>1, <2>1, FlattenUnfolded
<1>3. g[n + 1] = IF n = 0 THEN x ELSE g[n] \o x
  <2>0. n + 1 \in 1..(n + 1)
    BY <1>1
  <2>1. g[n + 1] = IF n + 1 = 1 THEN t[n + 1] ELSE g[(n + 1) - 1] \o t[n + 1]
    BY <2>0, <1>2, UnfoldedAt
  <2> QED
    BY <1>1, <2>1
<1>4. CASE n = 0
  <2>1. s = <<>>
    BY <1>4, EmptySeq DEF n
  <2> QED
    BY <1>2, <1>3, <1>4, <2>1, FlattenEmpty, ConcatEmptySeq DEF t
<1>5. CASE n # 0
  <2>1. PICK f : Unfolded(f, s, n) /\ FlattenSeq(s) = f[n]
    BY <1>1, <1>5, FlattenUnfolded DEF n
  <2>2. f[n] = g[n]
    <3>1. n <= n + 1 /\ n + 1 \in Nat /\ n \in 1..n /\ \A i \in 1..n : s[i] = t[i]
      BY <1>1, <1>5
    <3>2. \A i \in 1..n : f[i] = g[i]
      <4> DEFINE d == n + 1
      <4>1. d \in Nat /\ n <= d /\ n \in Nat /\ Unfolded(g, t, d) /\ Unfolded(f, s, n)
        BY <1>1, <1>2, <2>1, <3>1
      <4> HIDE DEF d
      <4> QED
        BY <3>1, <4>1, UnfoldedAlike
    <3> QED
      BY <3>1, <3>2
  <2> QED
    BY <1>2, <1>3, <1>5, <2>1, <2>2 DEF t
<1> QED
  BY <1>4, <1>5 DEF t

\* What holds of the empty sequence and is handed on holds of every sequence.
LEMMA EverySequence ==
  ASSUME NEW V, NEW S, <<>> \in S, \A s \in Seq(V), x \in V : s \in S => Append(s, x) \in S
  PROVE  Seq(V) \subseteq S
<1> DEFINE N == {n \in Nat : \A s \in Seq(V) : Len(s) = n => s \in S}
<1>1. 0 \in N
  BY EmptySeq
<1>2. ASSUME NEW n \in Nat, n \in N PROVE n + 1 \in N
  <2>1. ASSUME NEW s \in Seq(V), Len(s) = n + 1 PROVE s \in S
    <3> DEFINE t == SubSeq(s, 1, n)
    <3>1. \A i \in 1..(n + 1) : s[i] \in V
      BY <2>1, ElementOfSeq
    <3>2. t \in Seq(V) /\ Len(t) = n /\ s[n + 1] \in V /\ \A i \in 1..n : t[i] = s[i]
      BY <3>1
    <3>3. s = Append(t, s[n + 1])
      <4>1. /\ Append(t, s[n + 1]) \in Seq(V) /\ Len(Append(t, s[n + 1])) = n + 1
            /\ \A i \in 1..(n + 1) : Append(t, s[n + 1])[i] = s[i]
        BY <3>2, AppendProperties
      <4> QED
        BY <2>1, <4>1, SeqEqual
    <3>4. t \in S
      BY <1>2, <3>2
    <3> QED
      BY <3>2, <3>3, <3>4
  <2> QED
    BY <2>1
<1>3. Nat \subseteq N
  <2> HIDE DEF N
  <2> QED
    BY <1>1, <1>2, EveryNumber
<1> QED
  BY <1>3, LenProperties

\* Flattened rows are a sequence of what is in the rows.
LEMMA FlattenType ==
  ASSUME NEW V, NEW s \in Seq(Seq(V))
  PROVE  FlattenSeq(s) \in Seq(V)
<1> DEFINE S == {t \in Seq(Seq(V)) : FlattenSeq(t) \in Seq(V)}
<1>1. <<>> \in S
  BY FlattenEmpty, EmptySeq
<1>2. ASSUME NEW t \in Seq(Seq(V)), NEW x \in Seq(V), t \in S PROVE Append(t, x) \in S
  BY <1>2, FlattenAppend, AppendProperties, ConcatProperties
<1>3. Seq(Seq(V)) \subseteq S
  <2> HIDE DEF S
  <2> QED
    BY <1>1, <1>2, EverySequence
<1> QED
  BY <1>3

\* A row in front comes first.
LEMMA FlattenCons ==
  ASSUME NEW V, NEW s \in Seq(Seq(V)), NEW x \in Seq(V)
  PROVE  FlattenSeq(<<x>> \o s) = x \o FlattenSeq(s)
<1> DEFINE S == {t \in Seq(Seq(V)) : FlattenSeq(<<x>> \o t) = x \o FlattenSeq(t)}
<1>0. <<x>> \in Seq(Seq(V)) /\ <<x>> = Append(<<>>, x)
  OBVIOUS
<1>1. <<>> \in S
  <2>1. FlattenSeq(<<x>>) = <<>> \o x
    BY <1>0, FlattenAppend, FlattenEmpty, EmptySeq
  <2> QED
    BY <1>0, <2>1, FlattenEmpty, EmptySeq, ConcatEmptySeq
<1>2. ASSUME NEW t \in Seq(Seq(V)), NEW y \in Seq(V), t \in S PROVE Append(t, y) \in S
  <2>1. <<x>> \o Append(t, y) = Append(<<x>> \o t, y)
    BY <1>0, SMTT(60)
  <2>2. FlattenSeq(<<x>> \o Append(t, y)) = FlattenSeq(<<x>> \o t) \o y
    BY <1>0, <2>1, FlattenAppend, ConcatProperties
  <2>3. FlattenSeq(Append(t, y)) = FlattenSeq(t) \o y
    BY FlattenAppend
  <2>4. (x \o FlattenSeq(t)) \o y = x \o (FlattenSeq(t) \o y)
    BY FlattenType, ConcatAssociative
  <2> QED
    BY <1>2, <2>2, <2>3, <2>4, AppendProperties
<1>3. Seq(Seq(V)) \subseteq S
  <2> HIDE DEF S
  <2> QED
    BY <1>1, <1>2, EverySequence
<1> QED
  BY <1>3

\* A single row, flattened.
LEMMA FlattenOne ==
  ASSUME NEW V, NEW x \in Seq(V)
  PROVE  FlattenSeq(<<x>>) = x
<1>1. <<x>> = Append(<<>>, x) /\ <<>> \in Seq(Seq(V)) /\ <<>> \in Seq(V)
  BY EmptySeq
<1>2. FlattenSeq(<<x>>) = <<>> \o x
  BY <1>1, FlattenAppend, FlattenEmpty
<1> QED
  BY <1>2, ConcatEmptySeq

\* The first sequence comes first.
LEMMA FlattenFirst ==
  ASSUME NEW V, NEW n \in Nat \ {0}, NEW rows \in [1..n -> Seq(V)],
         NEW rest \in [1..(n - 1) -> Seq(V)], \A i \in 1..(n - 1) : rest[i] = rows[i + 1]
  PROVE  /\ rows[1] \in Seq(V)
         /\ FlattenSeq(rest) \in Seq(V)
         /\ FlattenSeq(rows) = rows[1] \o FlattenSeq(rest)
<1> DEFINE x == rows[1]
<1>1. n - 1 \in Nat /\ 1 \in 1..n /\ \A i \in 1..(n - 1) : i + 1 \in 1..n
  OBVIOUS
<1>2. rest \in [1..(n - 1) -> Seq(V)] /\ x \in Seq(V)
  BY <1>1
<1>3. rest \in Seq(Seq(V)) /\ Len(rest) = n - 1 /\ rows \in Seq(Seq(V)) /\ Len(rows) = n
  BY <1>1, <1>2
<1>4. rows = <<x>> \o rest
  <2> HIDE DEF x
  <2>1. <<x>> \in Seq(Seq(V)) /\ Len(<<x>>) = 1 /\ <<x>>[1] = x
    BY <1>2
  <2>2. /\ <<x>> \o rest \in Seq(Seq(V)) /\ Len(<<x>> \o rest) = 1 + (n - 1)
        /\ \A i \in 1..(1 + (n - 1)) :
             (<<x>> \o rest)[i] = IF i <= 1 THEN <<x>>[i] ELSE rest[i - 1]
    BY <1>3, <2>1, ConcatProperties
  <2>3. ASSUME NEW i \in 1..n PROVE rows[i] = (<<x>> \o rest)[i]
    <3>1. CASE i = 1
      BY <2>1, <2>2, <3>1 DEF x
    <3>2. CASE i # 1
      <4>1. i - 1 \in 1..(n - 1) /\ (i - 1) + 1 = i /\ ~(i <= 1) /\ i \in 1..(1 + (n - 1))
        BY <3>2
      <4>2. rest[i - 1] = rows[(i - 1) + 1]
        BY <4>1
      <4> QED
        BY <2>2, <4>1, <4>2
    <3> QED
      BY <3>1, <3>2
  <2>4. Len(<<x>> \o rest) = n
    BY <2>2
  <2> DEFINE t == <<x>> \o rest
  <2>5. t \in Seq(Seq(V)) /\ Len(t) = n /\ \A i \in 1..n : rows[i] = t[i]
    BY <2>2, <2>3, <2>4
  <2> HIDE DEF t
  <2>6. rows = t
    BY <1>3, <2>5, SeqEqual
  <2> QED
    BY <2>6 DEF t
<1> HIDE DEF x
<1>5. FlattenSeq(<<x>> \o rest) = x \o FlattenSeq(rest) /\ FlattenSeq(rest) \in Seq(V)
  BY <1>2, <1>3, FlattenCons, FlattenType
<1> QED
  BY <1>2, <1>4, <1>5 DEF x

-----------------------------------------------------------------------------
(* The rows of a file.                                                     *)

\* A row, or a place where the walk is refused.
Place == Child \X Nat

\* A tree, as the content of a file is one.
Tree == [Page -> Content]

\* What a leaf of a tree gives from one of its cells on.
LeafIn(tree, p, cell) == [i \in 1..tree[p].rows - cell |-> <<p, cell + i>>]

\* What a page of a tree still gives.
FromIn(tree, p, cell, level, beneath) ==
  IF p = NoPage \/ tree[p].kind = "other" THEN <<Refused>>
  ELSE IF tree[p].kind = "leaf" THEN LeafIn(tree, p, cell)
  ELSE IF level = DepthLimit /\ cell < Len(tree[p].children) THEN <<Refused>>
  ELSE FlattenSeq([n \in 1..Len(tree[p].children) - cell |->
                     beneath[level + 1][tree[p].children[cell + n]]])

\* The rows beneath each page of a tree.
RowsIn(tree) ==
  CHOOSE rows :
    rows = [level \in 1..DepthLimit |-> [p \in Child |-> FromIn(tree, p, 0, level, rows)]]

\* What of a row of a tree remains.
RemainsIn(tree, r) == IF r = Refused \/ r[2] \notin tree[r[1]].spilled THEN <<r>> ELSE <<>>

\* The rows of a tree that do not spill.
WholeIn(tree, rows) == FlattenSeq([i \in DOMAIN rows |-> RemainsIn(tree, rows[i])])

\* The rows of the file are those of the tree in it.
LEMMA RowsOfFile == RowsAt = RowsIn(file)
BY Zenon DEF RowsAt, RowsIn, From, FromIn, LeafFrom, LeafIn

\* An interior page of a tree has at least one child.
LEMMA ChildrenIn ==
  ASSUME NEW tree \in Tree, NEW p \in Page, tree[p].kind = "interior"
  PROVE  /\ tree[p].children \in Seq(Child)
         /\ Len(tree[p].children) \in Nat \ {0}
         /\ \A i \in 1..Len(tree[p].children) : tree[p].children[i] \in Child
<1>1. tree[p] \in Content /\ tree[p].kind = "interior"
  BY DEF Tree
<1>2. tree[p].children \in UNION {[1..n + 1 -> Child] : n \in 0..MaxKeys}
  BY <1>1 DEF Content
<1>3. PICK n \in 0..MaxKeys : tree[p].children \in [1..n + 1 -> Child]
  BY <1>2
<1>4. n + 1 \in Nat \ {0}
  BY <1>3, TableAssumption
<1> QED
  BY <1>3, <1>4

\* A leaf of a tree has a number of rows.
LEMMA RowsOfLeaf ==
  ASSUME NEW tree \in Tree, NEW p \in Page, tree[p].kind = "leaf"
  PROVE  tree[p].rows \in Nat
<1>1. tree[p] \in Content /\ tree[p].kind = "leaf"
  BY DEF Tree
<1> QED
  BY <1>1, TableAssumption DEF Content

\* A page is a leaf, an interior page or neither.
LEMMA KindsOfPages ==
  ASSUME NEW tree \in Tree, NEW p \in Page
  PROVE  tree[p].kind \in {"leaf", "interior", "other"}
<1>1. tree[p] \in Content
  BY DEF Tree
<1> QED
  BY <1>1 DEF Content

\* What a leaf gives are rows.
LEMMA LeafType ==
  ASSUME NEW tree \in Tree, NEW p \in Page, tree[p].kind = "leaf", NEW cell \in Nat
  PROVE  LeafIn(tree, p, cell) \in Seq(Place)
<1> DEFINE n == IF cell <= tree[p].rows THEN tree[p].rows - cell ELSE 0
<1>1. tree[p].rows \in Nat
  BY RowsOfLeaf
<1>2. n \in Nat /\ 1..n = 1..(tree[p].rows - cell)
  BY <1>1
<1>3. \A i \in 1..n : <<p, cell + i>> \in Place
  BY DEF Place, Child
<1>4. LeafIn(tree, p, cell) \in [1..n -> Place]
  BY <1>2, <1>3 DEF LeafIn
<1> HIDE DEF n
<1> QED
  BY <1>2, <1>4

\* The levels below one of the stack.
Below(level, beneath) == level < DepthLimit => beneath[level + 1] \in [Child -> Seq(Place)]

\* What the children that are left give, as rows.
LEMMA BelowType ==
  ASSUME NEW tree \in Tree, NEW p \in Page, tree[p].kind = "interior", NEW cell \in Nat,
         NEW level \in 1..DepthLimit, NEW beneath, Below(level, beneath),
         ~(level = DepthLimit /\ cell < Len(tree[p].children))
  PROVE  [n \in 1..Len(tree[p].children) - cell |-> beneath[level + 1][tree[p].children[cell + n]]]
           \in Seq(Seq(Place))
<1> DEFINE len == Len(tree[p].children)
           n == IF cell <= len THEN len - cell ELSE 0
           rows == [k \in 1..len - cell |-> beneath[level + 1][tree[p].children[cell + k]]]
<1>1. len \in Nat /\ \A i \in 1..len : tree[p].children[i] \in Child
  BY ChildrenIn
<1>2. n \in Nat /\ 1..n = 1..(len - cell)
  BY <1>1
<1>3. ASSUME NEW k \in 1..n PROVE beneath[level + 1][tree[p].children[cell + k]] \in Seq(Place)
  <2>1. cell + k \in 1..len /\ cell < len
    BY <1>1, <1>3
  <2>2. level < DepthLimit
    BY <2>1, TableAssumption
  <2> QED
    BY <1>1, <2>1, <2>2 DEF Below
<1>4. rows \in [1..n -> Seq(Place)]
  <2> HIDE DEF n, len
  <2> QED
    BY <1>2, <1>3
<1> HIDE DEF rows, n
<1>5. rows \in Seq(Seq(Place))
  BY <1>2, <1>4
<1> QED
  BY <1>5 DEF rows

\* What a page still gives is a sequence of rows and refusals.
LEMMA FromType ==
  ASSUME NEW tree \in Tree, NEW p \in Child, NEW cell \in Nat,
         NEW level \in 1..DepthLimit, NEW beneath, Below(level, beneath)
  PROVE  FromIn(tree, p, cell, level, beneath) \in Seq(Place)
<1>1. <<Refused>> \in Seq(Place)
  BY DEF Place, Child, Refused
<1>2. CASE p = NoPage \/ tree[p].kind = "other"
  BY <1>1, <1>2 DEF FromIn
<1>3. CASE ~(p = NoPage \/ tree[p].kind = "other") /\ tree[p].kind = "leaf"
  BY <1>3, LeafType DEF FromIn, Child
<1>4. CASE ~(p = NoPage \/ tree[p].kind = "other") /\ tree[p].kind # "leaf"
  <2>1. p \in Page /\ tree[p].kind = "interior"
    BY <1>4, KindsOfPages DEF Child
  <2>2. CASE level = DepthLimit /\ cell < Len(tree[p].children)
    BY <1>1, <1>4, <2>2 DEF FromIn
  <2>3. CASE ~(level = DepthLimit /\ cell < Len(tree[p].children))
    <3> DEFINE rows == [n \in 1..Len(tree[p].children) - cell |->
                          beneath[level + 1][tree[p].children[cell + n]]]
    <3>1. rows \in Seq(Seq(Place))
      BY <2>1, <2>3, BelowType
    <3>2. FromIn(tree, p, cell, level, beneath) = FlattenSeq(rows)
      BY <1>4, <2>3, Zenon DEF FromIn
    <3> HIDE DEF rows
    <3> QED
      BY <3>1, <3>2, FlattenType
  <2> QED
    BY <2>2, <2>3
<1> QED
  BY <1>2, <1>3, <1>4

\* Only the level below matters to what a page gives.
LEMMA FromSame ==
  ASSUME NEW tree \in Tree, NEW p \in Child, NEW cell \in Nat, NEW level \in 1..DepthLimit,
         NEW beneath, NEW other, level < DepthLimit => beneath[level + 1] = other[level + 1]
  PROVE  FromIn(tree, p, cell, level, beneath) = FromIn(tree, p, cell, level, other)
<1>1. CASE level < DepthLimit
  BY <1>1, Zenon DEF FromIn
<1>2. CASE ~(level < DepthLimit)
  <2>1. level = DepthLimit
    BY <1>2, TableAssumption
  <2>2. CASE ~(p = NoPage \/ tree[p].kind = "other") /\ tree[p].kind # "leaf"
             /\ ~(cell < Len(tree[p].children))
    <3>1. p \in Page /\ tree[p].kind = "interior"
      BY <2>2, KindsOfPages DEF Child
    <3>2. 1..Len(tree[p].children) - cell = {}
      BY <2>2, <3>1, ChildrenIn
    <3>3. [n \in 1..Len(tree[p].children) - cell |-> beneath[level + 1][tree[p].children[cell + n]]]
            = [n \in 1..Len(tree[p].children) - cell |-> other[level + 1][tree[p].children[cell + n]]]
      BY <3>2
    <3> QED
      BY <3>3, Zenon DEF FromIn
  <2> QED
    BY <2>1, <2>2, Zenon DEF FromIn
<1> QED
  BY <1>1, <1>2

\* From the deepest level up, each level has its rows.
LEMMA RowsExist ==
  ASSUME NEW tree \in Tree
  PROVE  \E rows : rows = [level \in 1..DepthLimit |->
                             [p \in Child |-> FromIn(tree, p, 0, level, rows)]]
<1> DEFINE D == DepthLimit
           Right(rows, k) ==
             /\ rows = [level \in (D - k)..D |-> rows[level]]
             /\ \A level \in (D - k)..D :
                  /\ rows[level] = [p \in Child |-> FromIn(tree, p, 0, level, rows)]
                  /\ rows[level] \in [Child -> Seq(Place)]
           S == {k \in Nat : k < D => \E rows : Right(rows, k)}
<1>0. D \in Nat \ {0} /\ 0 \in Nat
  BY TableAssumption
<1>1. 0 \in S
  <2> DEFINE none == [level \in {} |-> <<>>]
             at == [p \in Child |-> FromIn(tree, p, 0, D, none)]
             rows == [level \in (D - 0)..D |-> at]
  <2>1. \A level \in (D - 0)..D : level = D /\ level \in 1..DepthLimit
    BY <1>0
  <2>2. Below(D, none)
    BY <1>0 DEF Below
  <2>3. at \in [Child -> Seq(Place)]
    BY <1>0, <2>2, FromType
  <2>4. at = [p \in Child |-> FromIn(tree, p, 0, D, rows)]
    <3> HIDE DEF none, rows
    <3>1. \A p \in Child : FromIn(tree, p, 0, D, none) = FromIn(tree, p, 0, D, rows)
      BY <1>0, FromSame
    <3> QED
      BY <3>1
  <2> HIDE DEF at
  <2>5. Right(rows, 0)
    <3>1. \A level \in (D - 0)..D : rows[level] = at
      OBVIOUS
    <3>2. rows = [level \in (D - 0)..D |-> rows[level]]
      BY Zenon
    <3> HIDE DEF rows
    <3> QED
      BY <2>1, <2>3, <2>4, <3>1, <3>2
  <2> HIDE DEF Right
  <2> QED
    BY <2>5
<1>2. ASSUME NEW k \in Nat, k \in S PROVE k + 1 \in S
  <2> SUFFICES ASSUME k + 1 < D PROVE \E rows : Right(rows, k + 1)
    OBVIOUS
  <2>1. PICK rows : Right(rows, k)
    BY <1>0, <1>2
  <2> DEFINE new == D - (k + 1)
             at == [p \in Child |-> FromIn(tree, p, 0, new, rows)]
             more == [level \in new..D |-> IF level = new THEN at ELSE rows[level]]
  <2>2. /\ new \in 1..D /\ new < D /\ new + 1 = D - k
        /\ \A level \in new..D : level = new \/ level \in (D - k)..D
        /\ \A level \in (D - k)..D : level # new /\ level \in new..D /\ level \in 1..D
        /\ \A level \in (D - k)..D : level < D => level + 1 \in (D - k)..D
        /\ D - k \in (D - k)..D
    BY <1>0
  <2>3. Below(new, rows)
    BY <2>1, <2>2 DEF Below
  <2>4. at \in [Child -> Seq(Place)]
    <3> HIDE DEF new
    <3>1. \A p \in Child : FromIn(tree, p, 0, new, rows) \in Seq(Place)
      BY <1>0, <2>2, <2>3, FromType
    <3> QED
      BY <3>1
  <2>5. more[new] = at /\ \A level \in (D - k)..D : more[level] = rows[level]
    <3> HIDE DEF new, at
    <3>1. new \in new..D
      BY <1>0, <2>2
    <3> QED
      BY <2>2, <3>1
  <2>6. more = [level \in new..D |-> more[level]]
    BY Zenon
  <2> HIDE DEF more
  <2>8. ASSUME NEW level \in new..D, NEW p \in Child
        PROVE  FromIn(tree, p, 0, level, rows) = FromIn(tree, p, 0, level, more)
    <3>1. level \in 1..DepthLimit
      BY <1>0, <2>2
    <3>2. level < DepthLimit => rows[level + 1] = more[level + 1]
      <4>1. CASE level = new
        BY <2>2, <2>5, <4>1
      <4>2. CASE level \in (D - k)..D
        BY <2>2, <2>5, <4>2
      <4> QED
        BY <2>2, <4>1, <4>2
    <3> QED
      BY <1>0, <3>1, <3>2, FromSame
  <2>9. ASSUME NEW level \in new..D
        PROVE  /\ more[level] = [p \in Child |-> FromIn(tree, p, 0, level, more)]
               /\ more[level] \in [Child -> Seq(Place)]
    <3> DEFINE r == [p \in Child |-> FromIn(tree, p, 0, level, rows)]
    <3>1. r = [p \in Child |-> FromIn(tree, p, 0, level, more)]
      BY <2>8
    <3>2. more[level] = r /\ more[level] \in [Child -> Seq(Place)]
      <4>1. CASE level = new
        BY <2>4, <2>5, <4>1
      <4>2. CASE level \in (D - k)..D
        BY <2>1, <2>5, <4>2
      <4> QED
        BY <2>2, <4>1, <4>2
    <3> QED
      BY <3>1, <3>2
  <2>10. Right(more, k + 1)
    BY <2>6, <2>9
  <2> HIDE DEF Right
  <2> QED
    BY <2>10
<1>3. Nat \subseteq S
  <2> HIDE DEF S
  <2> QED
    BY <1>1, <1>2, EveryNumber
<1>4. D - 1 \in Nat /\ D - 1 < D /\ D - (D - 1) = 1
  BY <1>0
<1>5. PICK rows : Right(rows, D - 1)
  <2>1. D - 1 \in S
    BY <1>3, <1>4
  <2> HIDE DEF Right
  <2> QED
    BY <1>4, <2>1
<1>6. /\ rows = [level \in 1..D |-> rows[level]]
      /\ \A level \in 1..D : rows[level] = [p \in Child |-> FromIn(tree, p, 0, level, rows)]
  BY <1>4, <1>5
<1>7. rows = [level \in 1..D |-> [p \in Child |-> FromIn(tree, p, 0, level, rows)]]
  BY <1>6
<1> QED
  BY <1>7

\* The rows beneath a page are what it gives from its first cell on.
LEMMA RowsOfTree ==
  ASSUME NEW tree \in Tree, NEW level \in 1..DepthLimit, NEW p \in Child
  PROVE  RowsIn(tree)[level][p] = FromIn(tree, p, 0, level, RowsIn(tree))
<1> DEFINE rows == RowsIn(tree)
<1>1. rows = [l \in 1..DepthLimit |-> [q \in Child |-> FromIn(tree, q, 0, l, rows)]]
  BY RowsExist, Zenon DEF RowsIn
<1> HIDE DEF rows
<1>2. rows[level][p] = FromIn(tree, p, 0, level, rows)
  <2>1. rows[level] = [q \in Child |-> FromIn(tree, q, 0, level, rows)]
    BY <1>1
  <2> QED
    BY <2>1
<1> QED
  BY <1>2 DEF rows

\* Each level has rows beneath every page, whatever the pages say.
LEMMA RowsType ==
  ASSUME NEW tree \in Tree
  PROVE  \A level \in 1..DepthLimit :
           Below(level, RowsIn(tree)) /\ RowsIn(tree)[level] \in [Child -> Seq(Place)]
<1> DEFINE D == DepthLimit
           rows == RowsIn(tree)
           S == {k \in Nat : k < D => /\ Below(D - k, rows)
                                      /\ rows[D - k] \in [Child -> Seq(Place)]}
<1>0. D \in Nat \ {0} /\ 0 \in Nat
  BY TableAssumption
<1>1. ASSUME NEW level \in 1..D, Below(level, rows)
      PROVE  rows[level] \in [Child -> Seq(Place)]
  <2>1. rows = [l \in 1..DepthLimit |-> [q \in Child |-> FromIn(tree, q, 0, l, rows)]]
    BY RowsExist, Zenon DEF RowsIn
  <2> HIDE DEF rows
  <2>2. rows[level] = [q \in Child |-> FromIn(tree, q, 0, level, rows)]
    BY <2>1
  <2>3. \A q \in Child : FromIn(tree, q, 0, level, rows) \in Seq(Place)
    BY <1>0, <1>1, FromType
  <2> QED
    BY <2>2, <2>3
<1> HIDE DEF rows
<1>2. 0 \in S
  <2>1. D - 0 = D /\ D \in 1..D /\ Below(D, rows)
    BY <1>0 DEF Below
  <2>2. rows[D] \in [Child -> Seq(Place)]
    BY <1>1, <2>1
  <2> QED
    BY <2>1, <2>2
<1>3. ASSUME NEW k \in Nat, k \in S PROVE k + 1 \in S
  <2> SUFFICES ASSUME k + 1 < D
               PROVE  Below(D - (k + 1), rows) /\ rows[D - (k + 1)] \in [Child -> Seq(Place)]
    OBVIOUS
  <2>1. D - (k + 1) \in 1..D /\ (D - (k + 1)) + 1 = D - k /\ k < D
    BY <1>0
  <2>2. Below(D - (k + 1), rows)
    BY <1>3, <2>1 DEF Below
  <2> QED
    BY <1>1, <2>1, <2>2
<1>4. Nat \subseteq S
  <2> HIDE DEF S
  <2> QED
    BY <1>2, <1>3, EveryNumber
<1>5. ASSUME NEW level \in 1..D
      PROVE  Below(level, rows) /\ rows[level] \in [Child -> Seq(Place)]
  <2>1. D - level \in Nat /\ D - level < D /\ D - (D - level) = level
    BY <1>0
  <2>2. D - level \in S
    BY <1>4, <2>1
  <2> QED
    BY <2>1, <2>2
<1> QED
  BY <1>5 DEF rows

\* Of a row and more, the row remains or does not, and of the rest what remains.
LEMMA WholeFirst ==
  ASSUME NEW tree, NEW r \in Place, NEW rows \in Seq(Place)
  PROVE  /\ WholeIn(tree, rows) \in Seq(Place)
         /\ RemainsIn(tree, r) \in Seq(Place)
         /\ WholeIn(tree, <<r>> \o rows) = RemainsIn(tree, r) \o WholeIn(tree, rows)
<1> DEFINE n == Len(rows)
           all == <<r>> \o rows
           kept(s) == [i \in DOMAIN s |-> RemainsIn(tree, s[i])]
<1>1. \A x \in Place : RemainsIn(tree, x) \in Seq(Place)
  BY DEF RemainsIn
<1>2. /\ n \in Nat /\ DOMAIN rows = 1..n /\ \A i \in 1..n : rows[i] \in Place
  BY LenProperties, ElementOfSeq
<1>3. /\ all \in Seq(Place) /\ Len(all) = n + 1 /\ DOMAIN all = 1..(n + 1)
      /\ all[1] = r /\ \A i \in 1..n : all[i + 1] = rows[i]
  <2>1. <<r>> \in Seq(Place) /\ Len(<<r>>) = 1 /\ <<r>>[1] = r
    OBVIOUS
  <2> HIDE DEF n
  <2>2. /\ all \in Seq(Place) /\ Len(all) = 1 + Len(rows)
        /\ \A i \in 1..(1 + Len(rows)) : all[i] = IF i <= 1 THEN <<r>>[i] ELSE rows[i - 1]
    BY <2>1, ConcatProperties
  <2> HIDE DEF all
  <2>3. DOMAIN all = 1..(n + 1) /\ Len(all) = n + 1
    BY <1>2, <2>2, LenProperties DEF n
  <2>4. all[1] = r
    <3>1. 1 \in 1..(1 + Len(rows))
      BY <1>2 DEF n
    <3> QED
      BY <2>1, <2>2, <3>1
  <2>5. ASSUME NEW i \in 1..n PROVE all[i + 1] = rows[i]
    <3>1. i + 1 \in 1..(1 + Len(rows)) /\ ~(i + 1 <= 1) /\ (i + 1) - 1 = i
      BY <1>2 DEF n
    <3> QED
      BY <2>2, <3>1
  <2> QED
    BY <2>2, <2>3, <2>4, <2>5
<1> HIDE DEF all, n
<1>4. kept(rows) \in Seq(Seq(Place))
  <2>1. kept(rows) \in [1..n -> Seq(Place)]
    BY <1>1, <1>2
  <2> HIDE DEF kept
  <2> QED
    BY <1>2, <2>1
<1>5. kept(all) \in [1..(n + 1) -> Seq(Place)]
  <2>1. \A i \in 1..(n + 1) : all[i] \in Place
    BY <1>3, ElementOfSeq
  <2> QED
    BY <1>1, <1>3, <2>1
<1>6. kept(all)[1] = RemainsIn(tree, r)
  <2>1. 1 \in DOMAIN all
    BY <1>2, <1>3
  <2> QED
    BY <1>3, <2>1
<1>7. /\ kept(rows) \in [1..((n + 1) - 1) -> Seq(Place)]
      /\ \A i \in 1..((n + 1) - 1) : kept(rows)[i] = kept(all)[i + 1]
  <2>1. (n + 1) - 1 = n
    BY <1>2
  <2>2. \A i \in 1..n : kept(all)[i + 1] = RemainsIn(tree, rows[i])
    BY <1>2, <1>3
  <2>3. kept(rows) \in [1..n -> Seq(Place)]
    BY <1>1, <1>2
  <2> QED
    BY <1>2, <2>1, <2>2, <2>3
<1>8. FlattenSeq(kept(all)) = kept(all)[1] \o FlattenSeq(kept(rows))
  <2>1. n + 1 \in Nat \ {0}
    BY <1>2
  <2> DEFINE m == n + 1
             a == kept(all)
             b == kept(rows)
  <2>2. m \in Nat \ {0} /\ a \in [1..m -> Seq(Place)] /\ b \in [1..(m - 1) -> Seq(Place)]
        /\ \A i \in 1..(m - 1) : b[i] = a[i + 1]
    BY <1>2, <1>5, <1>7, <2>1
  <2> HIDE DEF m, a, b, kept
  <2>3. FlattenSeq(a) = a[1] \o FlattenSeq(b)
    BY <2>2, FlattenFirst
  <2> QED
    BY <2>3 DEF a, b
<1>9. WholeIn(tree, rows) = FlattenSeq(kept(rows)) /\ WholeIn(tree, all) = FlattenSeq(kept(all))
  BY DEF WholeIn
<1>10. WholeIn(tree, rows) \in Seq(Place)
  <2> HIDE DEF kept
  <2> QED
    BY <1>4, <1>9, FlattenType
<1> HIDE DEF kept
<1>11. WholeIn(tree, all) = RemainsIn(tree, r) \o WholeIn(tree, rows)
  BY <1>6, <1>8, <1>9
<1> QED
  BY <1>1, <1>10, <1>11 DEF all

\* A leaf with a row left gives that row and what it gives from the next cell on.
LEMMA LeafFirst ==
  ASSUME NEW tree \in Tree, NEW p \in Page, tree[p].kind = "leaf", NEW cell \in Nat,
         cell < tree[p].rows
  PROVE  LeafIn(tree, p, cell) = <<<<p, cell + 1>>>> \o LeafIn(tree, p, cell + 1)
<1> DEFINE n == tree[p].rows - cell
           rest == LeafIn(tree, p, cell + 1)
           r == <<p, cell + 1>>
           all == <<r>> \o rest
<1>1. tree[p].rows \in Nat /\ n \in Nat \ {0} /\ tree[p].rows - (cell + 1) = n - 1
      /\ cell + 1 \in Nat
  <2>1. tree[p].rows \in Nat
    BY RowsOfLeaf
  <2> QED
    BY <2>1
<1>2. LeafIn(tree, p, cell) \in Seq(Place) /\ rest \in Seq(Place) /\ r \in Place
  BY <1>1, LeafType DEF Place, Child
<1>3. /\ LeafIn(tree, p, cell) = [i \in 1..n |-> <<p, cell + i>>]
      /\ rest = [i \in 1..(n - 1) |-> <<p, (cell + 1) + i>>]
  BY <1>1 DEF LeafIn
<1> HIDE DEF rest, n
<1>4. Len(LeafIn(tree, p, cell)) = n /\ Len(rest) = n - 1
  BY <1>1, <1>3
<1>5. /\ all \in Seq(Place) /\ Len(all) = n
      /\ \A i \in 1..n : all[i] = IF i <= 1 THEN <<r>>[i] ELSE rest[i - 1]
  <2>1. <<r>> \in Seq(Place) /\ Len(<<r>>) = 1
    BY <1>2
  <2> HIDE DEF r
  <2>2. /\ all \in Seq(Place) /\ Len(all) = 1 + (n - 1)
        /\ \A i \in 1..(1 + (n - 1)) : all[i] = IF i <= 1 THEN <<r>>[i] ELSE rest[i - 1]
    BY <1>2, <1>4, <2>1, ConcatProperties
  <2>3. 1 + (n - 1) = n
    BY <1>1
  <2> HIDE DEF all
  <2> QED
    BY <2>2, <2>3
<1> HIDE DEF all
<1>6. ASSUME NEW i \in 1..n PROVE LeafIn(tree, p, cell)[i] = all[i]
  <2>1. LeafIn(tree, p, cell)[i] = <<p, cell + i>>
    BY <1>3
  <2>2. CASE i = 1
    <3>1. all[i] = r
      BY <1>5, <2>2
    <3> QED
      BY <2>1, <2>2, <3>1
  <2>3. CASE i # 1
    <3>1. i - 1 \in 1..(n - 1) /\ ~(i <= 1) /\ (cell + 1) + (i - 1) = cell + i
      BY <1>1, <2>3
    <3>2. rest[i - 1] = <<p, (cell + 1) + (i - 1)>>
      BY <1>3, <3>1
    <3> QED
      BY <1>5, <2>1, <3>1, <3>2
  <2> QED
    BY <2>2, <2>3
<1>7. LeafIn(tree, p, cell) = all
  BY <1>2, <1>4, <1>5, <1>6, SeqEqual
<1> QED
  BY <1>7 DEF all, rest, r

\* An interior page with a child left, on a level that has room below it, gives
\* what is beneath that child and what it gives from the next cell on.
LEMMA ChildFirst ==
  ASSUME NEW tree \in Tree, NEW p \in Page, tree[p].kind = "interior", NEW cell \in Nat,
         cell < Len(tree[p].children), NEW level \in 1..DepthLimit, level < DepthLimit,
         NEW beneath, Below(level, beneath)
  PROVE  FromIn(tree, p, cell, level, beneath)
           = beneath[level + 1][tree[p].children[cell + 1]]
               \o FromIn(tree, p, cell + 1, level, beneath)
<1> DEFINE len == Len(tree[p].children)
           n == len - cell
           rows == [k \in 1..n |-> beneath[level + 1][tree[p].children[cell + k]]]
           next == [k \in 1..(len - (cell + 1)) |->
                      beneath[level + 1][tree[p].children[(cell + 1) + k]]]
<1>1. len \in Nat /\ n \in Nat \ {0} /\ cell + 1 \in Nat /\ len - (cell + 1) = n - 1
      /\ level # DepthLimit
  <2>1. len \in Nat
    BY ChildrenIn
  <2> HIDE DEF len
  <2>2. cell < len
    BY DEF len
  <2> QED
    BY <2>1, <2>2, TableAssumption
<1>2. p # NoPage
  BY TableAssumption
<1>3. FromIn(tree, p, cell, level, beneath) = FlattenSeq(rows)
  BY <1>1, <1>2, Zenon DEF FromIn
<1>4. FromIn(tree, p, cell + 1, level, beneath) = FlattenSeq(next)
  BY <1>1, <1>2, Zenon DEF FromIn
<1>5. rows \in Seq(Seq(Place))
  BY <1>1, BelowType
<1>6. rows \in [1..n -> Seq(Place)]
  <2>1. DOMAIN rows = 1..n
    OBVIOUS
  <2> HIDE DEF rows, n
  <2>2. Len(rows) = n
    BY <1>1, <1>5, <2>1, LenProperties
  <2> QED
    BY <1>5, <2>2, LenProperties
<1>7. rows[1] = beneath[level + 1][tree[p].children[cell + 1]]
  <2> HIDE DEF len
  <2> QED
    BY <1>1
<1>8. next \in [1..(n - 1) -> Seq(Place)] /\ \A i \in 1..(n - 1) : next[i] = rows[i + 1]
  <2> HIDE DEF len
  <2>1. \A i \in 1..(n - 1) : i + 1 \in 1..n /\ cell + (i + 1) = (cell + 1) + i
    BY <1>1
  <2>2. \A i \in 1..(n - 1) : rows[i + 1] = beneath[level + 1][tree[p].children[(cell + 1) + i]]
    BY <2>1
  <2>3. \A i \in 1..(n - 1) : next[i] = rows[i + 1]
    BY <1>1, <2>2
  <2>4. \A i \in 1..(n - 1) : rows[i + 1] \in Seq(Place)
    <3> HIDE DEF rows, n
    <3> QED
      BY <1>6, <2>1
  <2>5. next = [i \in 1..(n - 1) |-> next[i]]
    BY <1>1
  <2> HIDE DEF next, rows, n
  <2> QED
    BY <2>3, <2>4, <2>5
<1>9. FlattenSeq(rows) = rows[1] \o FlattenSeq(next)
  <2> HIDE DEF rows, n, next
  <2> QED
    BY <1>1, <1>6, <1>8, FlattenFirst
<1> HIDE DEF rows, next, n
<1> QED
  BY <1>3, <1>4, <1>7, <1>9

\* A page that is used up gives nothing.
LEMMA NothingFrom ==
  ASSUME NEW tree \in Tree, NEW p \in Page, NEW cell \in Nat, NEW level, NEW beneath,
         \/ tree[p].kind = "leaf" /\ cell >= tree[p].rows
         \/ tree[p].kind = "interior" /\ cell >= Len(tree[p].children)
  PROVE  FromIn(tree, p, cell, level, beneath) = <<>>
<1>1. p # NoPage
  BY TableAssumption
<1>2. CASE tree[p].kind = "leaf" /\ cell >= tree[p].rows
  <2>1. 1..tree[p].rows - cell = {}
    BY <1>2, RowsOfLeaf
  <2>2. LeafIn(tree, p, cell) = <<>>
    BY <2>1 DEF LeafIn
  <2> QED
    BY <1>1, <1>2, <2>2 DEF FromIn
<1>3. CASE tree[p].kind = "interior" /\ cell >= Len(tree[p].children)
  <2> DEFINE rows == [n \in 1..Len(tree[p].children) - cell |->
                        beneath[level + 1][tree[p].children[cell + n]]]
  <2>1. 1..Len(tree[p].children) - cell = {} /\ ~(cell < Len(tree[p].children))
    BY <1>3, ChildrenIn
  <2>2. rows = <<>>
    BY <2>1
  <2>3. FromIn(tree, p, cell, level, beneath) = FlattenSeq(rows)
    BY <1>1, <1>3, <2>1 DEF FromIn
  <2> QED
    BY <2>2, <2>3, FlattenEmpty
<1> QED
  BY <1>2, <1>3
-----------------------------------------------------------------------------
(* The walk.                                                               *)

\* The children of an interior page are a sequence with one place per cell and
\* one for the right-most pointer, and each is a page or missing.
LEMMA ChildrenAreChildren ==
  ASSUME TypeOK, NEW p \in Page, file[p].kind = "interior"
  PROVE  /\ file[p].children \in Seq(Child)
         /\ DOMAIN file[p].children = 1..Len(file[p].children)
<1>1. file[p] \in Content /\ file[p].kind = "interior"
  BY DEF TypeOK
<1>2. file[p].children \in UNION {[1..n + 1 -> Child] : n \in 0..MaxKeys}
  BY <1>1 DEF Content
<1>3. PICK n \in 0..MaxKeys : file[p].children \in [1..n + 1 -> Child]
  BY <1>2
<1>4. n + 1 \in Nat
  BY <1>3
<1> QED
  BY <1>3, <1>4

\* Where the walk is, the top of the stack is a level of it.
LEMMA TopIsALevel ==
  ASSUME TypeOK, depth # 0
  PROVE  /\ depth \in 1..DepthLimit
         /\ top \in [page : Child, cell : Nat]
         /\ top.page # NoPage => top.page \in Page
BY TableAssumption DEF TypeOK, top, Child

\* The walk begins within the stack.
LEMMA InitType == Init => TypeOK /\ StackIsPath
<1> SUFFICES ASSUME Init PROVE TypeOK /\ StackIsPath
  OBVIOUS
<1> USE TableAssumption
<1>1. TypeOK
  BY DEF Init, TypeOK, Child, NoRow
<1>2. StackIsPath
  BY DEF Init, StackIsPath
<1> QED
  BY <1>1, <1>2

\* A step that leaves the stack alone or gives up a level keeps the path.
LEMMA ShorterPath ==
  ASSUME TypeOK, StackIsPath, UNCHANGED <<file, nest>>, depth' \in 0..DepthLimit, depth' <= depth
  PROVE  StackIsPath'
BY DEF TypeOK, StackIsPath

\* Every step keeps the type and the path.
LEMMA NextType ==
  ASSUME TypeOK, StackIsPath, [Next]_vars
  PROVE  TypeOK' /\ StackIsPath'
<1> USE TableAssumption
<1>1. CASE Empty
  <2>1. TypeOK'
    BY <1>1 DEF Empty, Answer, TypeOK, cursor
  <2> QED
    BY <1>1, <2>1, ShorterPath DEF Empty, TypeOK, cursor
<1>2. CASE BadPage
  <2>1. TypeOK'
    BY <1>2 DEF BadPage, Answer, TypeOK, cursor
  <2> QED
    BY <1>2, <2>1, ShorterPath DEF BadPage, TypeOK, cursor
<1>3. CASE LeafRow
  <2>1. depth \in 1..DepthLimit /\ top \in [page : Child, cell : Nat] /\ top.page \in Page
    BY <1>3, TopIsALevel DEF LeafRow, At
  <2>2. /\ nest' = [nest EXCEPT ![depth].cell = @ + 1]
        /\ row' = <<top.page, top.cell + 1>>
        /\ pc' = "answered"
        /\ result' \in {1, -2}
        /\ file' = file /\ depth' = depth
        /\ page.kind = "leaf"
    BY <1>3 DEF LeafRow, At, Answer
  <2>3. nest' \in [1..DepthLimit -> [page : Child, cell : Nat]]
    <3>1. [nest[depth] EXCEPT !.cell = @ + 1] \in [page : Child, cell : Nat]
      BY <2>1 DEF top
    <3>2. nest' = [nest EXCEPT ![depth] = [nest[depth] EXCEPT !.cell = @ + 1]]
      BY <2>2
    <3> QED
      BY <2>1, <3>1, <3>2 DEF TypeOK
  <2>4. row' \in Page \X Nat
    BY <2>1, <2>2
  <2>5. TypeOK'
    BY <2>2, <2>3, <2>4 DEF TypeOK
  <2>6. ASSUME NEW level \in 1..depth - 1
        PROVE  nest'[level] = nest[level] /\ nest'[level + 1].page = nest[level + 1].page
    BY <2>1, <2>2 DEF TypeOK
  <2>7. StackIsPath'
    BY <2>2, <2>6 DEF StackIsPath
  <2> QED
    BY <2>5, <2>7
<1>4. CASE LeafPop \/ InteriorPop
  <2>1. depth \in 1..DepthLimit /\ UNCHANGED <<file, nest, row>> /\ depth' = depth - 1
        /\ pc' = "answered" /\ result' = 0
    BY <1>4, TopIsALevel DEF LeafPop, InteriorPop, At, Answer
  <2>2. TypeOK'
    BY <2>1 DEF TypeOK
  <2> QED
    BY <2>1, <2>2, ShorterPath DEF TypeOK
<1>5. CASE TooDeep \/ OtherPage
  <2>1. UNCHANGED <<file, nest, depth, row>> /\ pc' = "answered" /\ result' = -1
    BY <1>5 DEF TooDeep, OtherPage, Answer, cursor
  <2>2. TypeOK'
    BY <2>1 DEF TypeOK
  <2> QED
    BY <2>1, <2>2, ShorterPath DEF TypeOK
<1>6. CASE Descend
  <2> DEFINE children == file[top.page].children
             child == children[top.cell + 1]
  <2>1. depth \in 1..DepthLimit /\ top \in [page : Child, cell : Nat] /\ top.page \in Page
    BY <1>6, TopIsALevel DEF Descend, HasChild, At
  <2>2. /\ nest' = [nest EXCEPT ![depth].cell = @ + 1,
                                ![depth + 1] = [page |-> child, cell |-> 0]]
        /\ depth' = depth + 1 /\ depth < DepthLimit
        /\ UNCHANGED <<file, pc, result, row>>
        /\ file[top.page].kind = "interior"
        /\ top.cell < Len(children)
    BY <1>6 DEF Descend, HasChild, HasRoom, At, DescendInto, page, answer
  <2>3. children \in Seq(Child) /\ DOMAIN children = 1..Len(children)
    BY <2>1, <2>2, ChildrenAreChildren
  <2>4. Len(children) \in Nat
    BY <2>3
  <2>5. top.cell \in Nat /\ top.cell + 1 \in 1..Len(children)
    BY <2>1, <2>2, <2>4
  <2>6. child \in Child
    BY <2>3, <2>5
  <2> HIDE DEF child, children
  <2>7. nest \in [1..DepthLimit -> [page : Child, cell : Nat]] /\ depth + 1 \in 1..DepthLimit
    BY <2>1, <2>2 DEF TypeOK
  <2>8. nest' \in [1..DepthLimit -> [page : Child, cell : Nat]]
    <3>1. [nest[depth] EXCEPT !.cell = @ + 1] \in [page : Child, cell : Nat]
      BY <2>1 DEF top
    <3>2. [page |-> child, cell |-> 0] \in [page : Child, cell : Nat]
      BY <2>6
    <3>3. nest' = [[nest EXCEPT ![depth] = [nest[depth] EXCEPT !.cell = @ + 1]]
                     EXCEPT ![depth + 1] = [page |-> child, cell |-> 0]]
      BY <2>2
    <3>4. [nest EXCEPT ![depth] = [nest[depth] EXCEPT !.cell = @ + 1]]
            \in [1..DepthLimit -> [page : Child, cell : Nat]]
      BY <2>1, <2>7, <3>1
    <3> QED
      BY <2>7, <3>2, <3>3, <3>4
  <2>9. TypeOK'
    <3>1. depth' \in 0..DepthLimit
      BY <2>2, <2>7
    <3>2. pc' = pc /\ result' = result /\ file' = file /\ row' = row
      BY <2>2
    <3> QED
      BY <2>8, <3>1, <3>2 DEF TypeOK
  <2>10. /\ nest'[depth].page = top.page /\ nest'[depth].cell = top.cell + 1
         /\ nest'[depth + 1].page = child
    BY <2>1, <2>2, <2>7 DEF top
  <2>11. ASSUME NEW level \in 1..depth - 1
         PROVE  nest'[level] = nest[level] /\ nest'[level + 1].page = nest[level + 1].page
    <3>1. level \in 1..DepthLimit /\ level # depth /\ level # depth + 1
          /\ level + 1 \in 1..DepthLimit /\ level + 1 # depth + 1
      BY <2>1, <2>7
    <3>2. nest'[level] = nest[level]
      BY <2>2, <2>7, <3>1
    <3>3. nest'[level + 1].page = nest[level + 1].page
      <4>1. CASE level + 1 = depth
        BY <4>1, <2>10 DEF top
      <4>2. CASE level + 1 # depth
        BY <4>2, <2>2, <2>7, <3>1, SMTT(60)
      <4> QED
        BY <4>1, <4>2
    <3> QED
      BY <3>2, <3>3
  <2>12. ASSUME NEW level \in 1..depth' - 1
         PROVE  LET above == nest'[level]
                IN  /\ above.page \in Page
                    /\ file'[above.page].kind = "interior"
                    /\ above.cell \in DOMAIN file'[above.page].children
                    /\ nest'[level + 1].page = file'[above.page].children[above.cell]
    <3>1. CASE level = depth
      <4>1. file' = file /\ nest'[level].page = top.page /\ nest'[level].cell = top.cell + 1
            /\ nest'[level + 1].page = child
        BY <3>1, <2>2, <2>10
      <4>2. child = children[top.cell + 1] /\ children = file[top.page].children
        BY DEF child, children
      <4>3. top.cell + 1 \in DOMAIN children
        BY <2>3, <2>5
      <4> QED
        BY <4>1, <4>2, <4>3, <2>1, <2>2
    <3>2. CASE level \in 1..depth - 1
      BY <3>2, <2>2, <2>11 DEF StackIsPath
    <3> QED
      BY <3>1, <3>2, <2>1, <2>2
  <2>13. StackIsPath'
    BY <2>12 DEF StackIsPath
  <2> QED
    BY <2>9, <2>13
<1>7. CASE Take \/ CallAgain
  <2>1. UNCHANGED <<file, nest, depth>> /\ pc' = "walk" /\ result' = 0 /\ row' = NoRow
    BY <1>7 DEF Take, CallAgain, cursor
  <2>2. TypeOK'
    BY <2>1 DEF TypeOK
  <2> QED
    BY <2>1, <2>2, ShorterPath DEF TypeOK
<1>8. CASE UNCHANGED vars
  BY <1>8 DEF vars, cursor, answer, TypeOK, StackIsPath
<1> QED
  BY <1>1, <1>2, <1>3, <1>4, <1>5, <1>6, <1>7, <1>8 DEF Next, Walk

\* The walk never leaves the sixteen bytes per level that the caller gave it.
THEOREM StaysInTheStack == Spec => []TypeOK
<1>1. TypeOK /\ StackIsPath /\ [Next]_vars => (TypeOK /\ StackIsPath)'
  BY NextType
<1> QED
  BY InitType, <1>1, PTL DEF Spec

\* What is on the stack is a path of the tree from its root, so a row handed
\* out is a row of this table.
THEOREM TheStackIsAPath == Spec => []StackIsPath
<1>1. TypeOK /\ StackIsPath /\ [Next]_vars => (TypeOK /\ StackIsPath)'
  BY NextType
<1> QED
  BY InitType, <1>1, PTL DEF Spec
-----------------------------------------------------------------------------
(* What was handed out, and what the stack still gives.                    *)

\* What the levels of a stack still give, the deepest first.
Stacked(left, n) == FlattenSeq([i \in 1..n |-> left[n + 1 - i]])

\* The deepest level comes first, the others after it.
LEMMA StackedFirst ==
  ASSUME NEW left \in [1..DepthLimit -> Seq(Place)], NEW n \in 1..DepthLimit
  PROVE  /\ Stacked(left, n - 1) \in Seq(Place)
         /\ Stacked(left, n) = left[n] \o Stacked(left, n - 1)
<1> DEFINE rows == [i \in 1..n |-> left[n + 1 - i]]
           rest == [i \in 1..(n - 1) |-> left[(n - 1) + 1 - i]]
<1>1. n \in Nat \ {0} /\ (n + 1) - 1 = n
  BY TableAssumption
<1>2. rows \in [1..n -> Seq(Place)]
  <2>1. \A i \in 1..n : n + 1 - i \in 1..DepthLimit
    BY TableAssumption
  <2> QED
    BY <2>1
<1>3. rows[1] = left[n]
  BY <1>1
<1>4. rest \in [1..(n - 1) -> Seq(Place)] /\ \A i \in 1..(n - 1) : rest[i] = rows[i + 1]
  <2>1. \A i \in 1..(n - 1) : i + 1 \in 1..n /\ n + 1 - (i + 1) = (n - 1) + 1 - i
    BY <1>1
  <2>2. \A i \in 1..(n - 1) : rest[i] = rows[i + 1]
    BY <2>1
  <2> HIDE DEF rows
  <2>3. \A i \in 1..(n - 1) : rows[i + 1] \in Seq(Place)
    BY <1>2, <2>1
  <2>4. rest = [i \in 1..(n - 1) |-> rest[i]]
    OBVIOUS
  <2> HIDE DEF rest
  <2> QED
    BY <2>2, <2>3, <2>4
<1> HIDE DEF rows, rest
<1>5. FlattenSeq(rest) \in Seq(Place) /\ FlattenSeq(rows) = rows[1] \o FlattenSeq(rest)
  BY <1>1, <1>2, <1>4, FlattenFirst
<1>6. Stacked(left, n) = FlattenSeq(rows) /\ Stacked(left, n - 1) = FlattenSeq(rest)
  BY DEF Stacked, rows, rest
<1> QED
  BY <1>3, <1>5, <1>6

\* An empty stack gives nothing.
LEMMA StackedNone == ASSUME NEW left PROVE Stacked(left, 0) = <<>>
<1>1. [i \in 1..0 |-> left[0 + 1 - i]] = <<>>
  OBVIOUS
<1> QED
  BY <1>1, FlattenEmpty DEF Stacked

\* A stack gives rows and refusals.
LEMMA StackedType ==
  ASSUME NEW left \in [1..DepthLimit -> Seq(Place)], NEW n \in 0..DepthLimit
  PROVE  Stacked(left, n) \in Seq(Place)
<1>1. CASE n = 0
  BY <1>1, StackedNone, EmptySeq
<1>2. CASE n # 0
  <2>1. n \in 1..DepthLimit
    BY <1>2, TableAssumption
  <2>2. left[n] \in Seq(Place)
    BY <2>1
  <2> QED
    BY <2>1, <2>2, StackedFirst, ConcatProperties
<1> QED
  BY <1>1, <1>2

\* Only the levels in use matter.
LEMMA StackedSame ==
  ASSUME NEW left, NEW right, NEW n \in 0..DepthLimit,
         \A level \in 1..n : left[level] = right[level]
  PROVE  Stacked(left, n) = Stacked(right, n)
<1>1. \A i \in 1..n : n + 1 - i \in 1..n
  BY TableAssumption
<1>2. [i \in 1..n |-> left[n + 1 - i]] = [i \in 1..n |-> right[n + 1 - i]]
  BY <1>1
<1> QED
  BY <1>2, Zenon DEF Stacked

\* What each level of a stack still gives of a tree.
LeftIn(tree, stack) ==
  [level \in 1..DepthLimit |->
     FromIn(tree, stack[level].page, stack[level].cell, level, RowsIn(tree))]

\* The stacks.
Stack == [1..DepthLimit -> [page : Child, cell : Nat]]

\* Each level of a stack gives rows and refusals.
LEMMA LeftInType ==
  ASSUME NEW tree \in Tree, NEW stack \in Stack
  PROVE  LeftIn(tree, stack) \in [1..DepthLimit -> Seq(Place)]
<1>1. ASSUME NEW level \in 1..DepthLimit
      PROVE  FromIn(tree, stack[level].page, stack[level].cell, level, RowsIn(tree)) \in Seq(Place)
  <2>1. stack[level].page \in Child /\ stack[level].cell \in Nat
    BY DEF Stack
  <2>2. Below(level, RowsIn(tree))
    BY RowsType
  <2> QED
    BY <2>1, <2>2, FromType
<1> QED
  BY <1>1 DEF LeftIn

\* What the cursor still gives.
LEMMA LeftIs ==
  ASSUME depth \in 0..DepthLimit
  PROVE  Left = Stacked(LeftIn(file, nest), depth)
<1>1. \A i \in 1..depth : depth + 1 - i \in 1..DepthLimit
  BY TableAssumption
<1>2. ASSUME NEW i \in 1..depth
      PROVE  LeftAt(depth + 1 - i) = LeftIn(file, nest)[depth + 1 - i]
  <2> DEFINE level == depth + 1 - i
  <2>1. level \in 1..DepthLimit
    BY <1>1
  <2> HIDE DEF level
  <2>2. LeftAt(level) = FromIn(file, nest[level].page, nest[level].cell, level, RowsIn(file))
    <3>1. LeftAt(level) = From(nest[level].page, nest[level].cell, level, RowsIn(file))
      BY RowsOfFile, Zenon DEF LeftAt
    <3> QED
      BY <3>1, Zenon DEF From, FromIn, LeafFrom, LeafIn
  <2>3. LeftIn(file, nest)[level] = LeftAt(level)
    BY <2>1, <2>2 DEF LeftIn
  <2> QED
    BY <2>3 DEF level
<1>3. [i \in 1..depth |-> LeftAt(depth + 1 - i)]
        = [i \in 1..depth |-> LeftIn(file, nest)[depth + 1 - i]]
  BY <1>2
<1> QED
  BY <1>3, Zenon DEF Left, Stacked

\* What of some rows remains.
LEMMA WholeIs == ASSUME NEW rows PROVE Whole(rows) = WholeIn(file, rows)
BY Zenon DEF Whole, WholeIn, Remains, RemainsIn

\* The rows of a tree that remain are those handed out, the one just arrived at
\* and those the stack still gives.
InOrder(tree, out, code, at, left) ==
  WholeIn(tree, RowsIn(tree)[1][Root])
    = out \o ((IF code = 1 THEN <<at>> ELSE <<>>) \o WholeIn(tree, left))

\* A row not yet handed out is one, and a call that has not answered has none.
Walking ==
  /\ TypeOK
  /\ handed \in Seq(Place)
  /\ pc = "walk" => result = 0
  /\ result = 1 => row \in Page \X Nat
  /\ InOrder(file, handed, result, row, Stacked(LeftIn(file, nest), depth))

\* The part of the type that the rows depend on.
LEMMA TypeOfWalk ==
  ASSUME TypeOK
  PROVE  file \in Tree /\ nest \in Stack /\ depth \in 0..DepthLimit
BY DEF TypeOK, Tree, Stack

\* Three sequences in a row, however they are put together.
LEMMA InOrderMeans ==
  ASSUME TypeOK, handed \in Seq(Place), result = 1 => row \in Page \X Nat
  PROVE  NothingSkipped <=> InOrder(file, handed, result, row, Stacked(LeftIn(file, nest), depth))
<1> DEFINE left == Stacked(LeftIn(file, nest), depth)
           a == handed
           b == IF result = 1 THEN <<row>> ELSE <<>>
           c == WholeIn(file, left)
<1>1. file \in Tree /\ nest \in Stack /\ depth \in 0..DepthLimit
  BY TypeOfWalk
<1>2. left \in Seq(Place)
  BY <1>1, LeftInType, StackedType
<1>3. c \in Seq(Place) /\ b \in Seq(Place)
  <2>1. Refused \in Place
    BY DEF Refused, Place, Child
  <2>2. c \in Seq(Place)
    <3> HIDE DEF left
    <3> QED
      BY <1>2, <2>1, WholeFirst
  <2>3. b \in Seq(Place)
    <3>1. result = 1 => row \in Place
      BY DEF Place, Child
    <3> QED
      BY <3>1
  <2> QED
    BY <2>2, <2>3
<1>4. Whole(RowsAt[1][Root]) = WholeIn(file, RowsIn(file)[1][Root])
  BY RowsOfFile, WholeIs
<1>5. Whole(Left) = c
  BY <1>1, LeftIs, WholeIs
<1>6. NothingSkipped <=> WholeIn(file, RowsIn(file)[1][Root]) = (a \o b) \o c
  BY <1>4, <1>5, Zenon DEF NothingSkipped
<1>7. InOrder(file, handed, result, row, left)
        <=> WholeIn(file, RowsIn(file)[1][Root]) = a \o (b \o c)
  BY Zenon DEF InOrder
<1>8. (a \o b) \o c = a \o (b \o c)
  <2>1. a \in Seq(Place)
    OBVIOUS
  <2> HIDE DEF a, b, c
  <2> QED
    BY <1>3, <2>1, ConcatAssociative
<1> HIDE DEF a, b, c, left
<1> QED
  BY <1>6, <1>7, <1>8 DEF left

\* The walk begins before the first row.
LEMMA WalkingInit == Init => Walking
<1> SUFFICES ASSUME Init PROVE Walking
  OBVIOUS
<1>1. TypeOK
  BY InitType
<1>2. file \in Tree /\ nest \in Stack
  BY <1>1, TypeOfWalk
<1>3. depth = 1 /\ handed = <<>> /\ result = 0 /\ nest[1].page = Root /\ nest[1].cell = 0
  BY TableAssumption DEF Init
<1> DEFINE left == LeftIn(file, nest)
           rows == RowsIn(file)[1][Root]
<1>4. 1 \in 1..DepthLimit /\ 1 - 1 = 0 /\ Root \in Child
  BY TableAssumption DEF Child
<1>5. left[1] = rows
  <2>1. left[1] = FromIn(file, Root, 0, 1, RowsIn(file))
    BY <1>3, <1>4 DEF LeftIn
  <2> QED
    BY <1>2, <1>4, <2>1, RowsOfTree
<1>6. left \in [1..DepthLimit -> Seq(Place)]
  BY <1>2, LeftInType
<1>7. rows \in Seq(Place)
  BY <1>4, <1>5, <1>6
<1> HIDE DEF left, rows
<1>8. Stacked(left, 1) = rows
  <2>1. Stacked(left, 1) = left[1] \o Stacked(left, 1 - 1)
    BY <1>4, <1>6, StackedFirst, Zenon
  <2>2. Stacked(left, 1 - 1) = <<>>
    BY <1>4, StackedNone
  <2> QED
    BY <1>5, <1>7, <2>1, <2>2, ConcatEmptySeq
<1>9. Refused \in Place
  BY DEF Refused, Place, Child
<1> DEFINE whole == WholeIn(file, rows)
<1>10. whole \in Seq(Place)
  BY <1>7, <1>9, WholeFirst
<1> HIDE DEF whole
<1>11. <<>> \o (<<>> \o whole) = whole
  BY <1>10, ConcatEmptySeq
<1>12. InOrder(file, handed, result, row, Stacked(left, depth))
  BY <1>3, <1>8, <1>11 DEF InOrder, rows, whole
<1>13. handed \in Seq(Place)
  BY <1>3
<1> QED
  BY <1>1, <1>3, <1>12, <1>13 DEF Walking, left

\* A call that ends without a row, with the stack giving what it gave.
LEMMA StillInOrder ==
  ASSUME Walking, TypeOK', pc = "walk", UNCHANGED <<file, handed>>,
         result' # 1, pc' = "answered",
         Stacked(LeftIn(file, nest), depth)' = Stacked(LeftIn(file, nest), depth)
  PROVE  Walking'
<1> DEFINE left == Stacked(LeftIn(file, nest), depth)
<1>1. InOrder(file, handed, result, row, left) /\ result = 0
  BY DEF Walking
<1>2. left' = left /\ file' = file /\ handed' = handed
  OBVIOUS
<1> HIDE DEF left
<1>3. InOrder(file, handed, result, row, left)'
  BY <1>1, <1>2 DEF InOrder
<1>4. handed' \in Seq(Place)
  BY <1>2 DEF Walking
<1> QED
  BY <1>3, <1>4 DEF Walking, left

\* The level given up gave nothing any more.
LEMMA PopInOrder ==
  ASSUME Walking, TypeOK', LeafPop \/ InteriorPop
  PROVE  Walking'
<1>1. TypeOK /\ file \in Tree /\ nest \in Stack
  BY TypeOfWalk DEF Walking
<1>2. /\ pc = "walk" /\ depth # 0 /\ top.page # NoPage
      /\ \/ page.kind = "leaf" /\ top.cell >= page.rows
         \/ page.kind = "interior" /\ top.cell >= Len(page.children)
      /\ depth' = depth - 1 /\ UNCHANGED <<file, nest, row, handed>>
      /\ pc' = "answered" /\ result' = 0
  BY DEF LeafPop, InteriorPop, At, Answer
<1>3. depth \in 1..DepthLimit /\ top.cell \in Nat /\ top.page \in Page
  BY <1>1, <1>2, TopIsALevel
<1> DEFINE left == LeftIn(file, nest)
<1>4. left \in [1..DepthLimit -> Seq(Place)]
  BY <1>1, LeftInType
<1>5. left[depth] = <<>>
  <2>1. left[depth] = FromIn(file, top.page, top.cell, depth, RowsIn(file))
    BY <1>3 DEF LeftIn, top
  <2>2. \/ file[top.page].kind = "leaf" /\ top.cell >= file[top.page].rows
        \/ file[top.page].kind = "interior" /\ top.cell >= Len(file[top.page].children)
    BY <1>2 DEF page
  <2>3. FromIn(file, top.page, top.cell, depth, RowsIn(file)) = <<>>
    BY <1>1, <1>3, <2>2, NothingFrom
  <2> QED
    BY <2>1, <2>3
<1>6. left' = left
  BY <1>2
<1> HIDE DEF left
<1>7. Stacked(left, depth) = left[depth] \o Stacked(left, depth - 1)
      /\ Stacked(left, depth - 1) \in Seq(Place)
  BY <1>3, <1>4, StackedFirst, Zenon
<1>8. Stacked(left, depth) = Stacked(left, depth - 1)
  BY <1>5, <1>7, ConcatEmptySeq
<1>9. Stacked(left, depth)' = Stacked(left, depth)
  BY <1>2, <1>6, <1>8
<1> QED
  BY <1>2, <1>9, StillInOrder DEF left

\* The row taken is the first that the stack gives.
LEMMA LeafInOrder ==
  ASSUME Walking, TypeOK', LeafRow
  PROVE  Walking'
<1>1. TypeOK /\ file \in Tree /\ nest \in Stack
  BY TypeOfWalk DEF Walking
<1>2. /\ pc = "walk" /\ depth # 0 /\ top.page # NoPage /\ file[top.page].kind = "leaf"
      /\ top.cell < file[top.page].rows
      /\ nest' = [nest EXCEPT ![depth].cell = @ + 1]
      /\ row' = <<top.page, top.cell + 1>>
      /\ pc' = "answered"
      /\ result' = IF top.cell + 1 \in file[top.page].spilled THEN -2 ELSE 1
      /\ UNCHANGED <<file, depth, handed>>
  BY DEF LeafRow, At, Answer, page
<1>3. depth \in 1..DepthLimit /\ top \in [page : Child, cell : Nat] /\ top.page \in Page
  BY <1>1, <1>2, TopIsALevel
<1> DEFINE r == <<top.page, top.cell + 1>>
           left == LeftIn(file, nest)
           later == LeftIn(file, nest')
<1>4. nest' \in Stack
  BY TypeOfWalk, <1>2 DEF TypeOK, Stack
<1>5. left \in [1..DepthLimit -> Seq(Place)] /\ later \in [1..DepthLimit -> Seq(Place)]
  BY <1>1, <1>4, LeftInType
<1>6. /\ nest'[depth].page = top.page /\ nest'[depth].cell = top.cell + 1
      /\ \A level \in 1..(depth - 1) : nest'[level] = nest[level]
  BY <1>1, <1>2, <1>3 DEF Stack, top
<1>7. r \in Place /\ r # Refused
  <2>1. r \in Place
    BY <1>3 DEF Place, Child
  <2>2. r[2] # Refused[2]
    BY <1>3 DEF Refused
  <2> QED
    BY <2>1, <2>2
<1>8. left[depth] = <<r>> \o later[depth]
  <2>1. left[depth] = LeafIn(file, top.page, top.cell)
    BY <1>2, <1>3 DEF LeftIn, FromIn, top
  <2>2. later[depth] = LeafIn(file, top.page, top.cell + 1)
    BY <1>2, <1>3, <1>6 DEF LeftIn, FromIn
  <2>3. top.cell \in Nat
    BY <1>3
  <2> QED
    BY <1>1, <1>2, <1>3, <2>1, <2>2, <2>3, LeafFirst
<1>9. \A level \in 1..(depth - 1) : left[level] = later[level]
  <2>1. ASSUME NEW level \in 1..(depth - 1) PROVE left[level] = later[level]
    <3>1. level \in 1..DepthLimit
      BY <1>3, TableAssumption
    <3>2. nest'[level] = nest[level]
      BY <1>6
    <3> QED
      BY <3>1, <3>2 DEF LeftIn
  <2> QED
    BY <2>1
<1>10. later[depth] \in Seq(Place) /\ left[depth] \in Seq(Place)
  BY <1>3, <1>5
<1> DEFINE rest == Stacked(later, depth)
<1> HIDE DEF left, later, rest, r
<1>11. rest \in Seq(Place)
  BY <1>3, <1>5, StackedType DEF rest
<1>12. Stacked(left, depth) = <<r>> \o rest
  <2> DEFINE a == later[depth]
             b == Stacked(later, depth - 1)
  <2>1. Stacked(left, depth) = left[depth] \o Stacked(left, depth - 1)
    BY <1>3, <1>5, StackedFirst, Zenon
  <2>2. Stacked(later, depth) = a \o b /\ b \in Seq(Place)
    BY <1>3, <1>5, StackedFirst, Zenon
  <2>3. depth - 1 \in 0..DepthLimit
    BY <1>3, TableAssumption
  <2>4. Stacked(left, depth - 1) = b
    BY <1>9, <2>3, StackedSame
  <2>5. <<r>> \in Seq(Place) /\ a \in Seq(Place)
    BY <1>7, <1>10
  <2> HIDE DEF a, b
  <2>6. (<<r>> \o a) \o b = <<r>> \o (a \o b)
    BY <2>2, <2>5, ConcatAssociative
  <2> QED
    BY <1>8, <2>1, <2>2, <2>4, <2>6 DEF a, rest
<1>13. WholeIn(file, Stacked(left, depth)) = RemainsIn(file, r) \o WholeIn(file, rest)
       /\ WholeIn(file, rest) \in Seq(Place)
  BY <1>7, <1>11, <1>12, WholeFirst
<1>14. RemainsIn(file, r) = IF result' = 1 THEN <<r>> ELSE <<>>
  <2>1. r[2] \notin file[r[1]].spilled <=> result' = 1
    BY <1>2 DEF r
  <2> QED
    BY <1>7, <2>1 DEF RemainsIn
<1>15. InOrder(file, handed, result, row, Stacked(left, depth)) /\ result = 0
  BY <1>2 DEF Walking, left
<1>16. InOrder(file, handed, result', r, rest)
  <2> DEFINE w == WholeIn(file, rest)
             a == RemainsIn(file, r)
  <2>1. <<>> \o (a \o w) = a \o w
    <3>1. a \in Seq(Place) /\ w \in Seq(Place)
      BY <1>7, <1>13 DEF RemainsIn
    <3> HIDE DEF a, w
    <3>2. a \o w \in Seq(Place)
      BY <3>1, ConcatProperties
    <3> QED
      BY <3>2, ConcatEmptySeq
  <2>2. WholeIn(file, RowsIn(file)[1][Root]) = handed \o (<<>> \o (a \o w))
    BY <1>13, <1>15 DEF InOrder
  <2> HIDE DEF a, w
  <2>3. WholeIn(file, RowsIn(file)[1][Root]) = handed \o (a \o w)
    BY <2>1, <2>2
  <2> QED
    BY <1>14, <2>3 DEF InOrder, a, w
<1>17. /\ file' = file /\ handed' = handed /\ row' = r /\ depth' = depth
       /\ LeftIn(file, nest)' = later
  BY <1>2 DEF r, later
<1>18. InOrder(file, handed, result, row, Stacked(LeftIn(file, nest), depth))'
  BY <1>16, <1>17 DEF rest
<1>19. row' \in Page \X Nat /\ handed' \in Seq(Place)
  BY <1>2, <1>3 DEF Walking
<1> QED
  BY <1>2, <1>18, <1>19 DEF Walking

\* Descending, the rows beneath the child become the first that the stack gives.
LEMMA DescendInOrder ==
  ASSUME Walking, TypeOK', Descend
  PROVE  Walking'
<1> DEFINE child == file[top.page].children[top.cell + 1]
           left == LeftIn(file, nest)
           later == LeftIn(file, nest')
           rows == RowsIn(file)
<1>1. TypeOK /\ file \in Tree /\ nest \in Stack
  BY TypeOfWalk DEF Walking
<1>2. /\ pc = "walk" /\ depth # 0 /\ top.page # NoPage /\ file[top.page].kind = "interior"
      /\ top.cell < Len(file[top.page].children) /\ depth < DepthLimit
      /\ nest' = [nest EXCEPT ![depth].cell = @ + 1,
                              ![depth + 1] = [page |-> child, cell |-> 0]]
      /\ depth' = depth + 1
      /\ UNCHANGED <<file, pc, result, row, handed>>
  BY DEF Descend, HasChild, HasRoom, At, DescendInto, page, answer
<1>3. /\ depth \in 1..DepthLimit /\ top \in [page : Child, cell : Nat] /\ top.page \in Page
      /\ depth + 1 \in 1..DepthLimit
  <2>1. depth \in 1..DepthLimit /\ top \in [page : Child, cell : Nat] /\ top.page \in Page
    BY <1>1, <1>2, TopIsALevel
  <2> QED
    BY <1>2, <2>1, TableAssumption
<1>4. child \in Child
  <2>1. top.cell + 1 \in 1..Len(file[top.page].children)
    <3>1. Len(file[top.page].children) \in Nat
      BY <1>1, <1>2, <1>3, ChildrenIn
    <3> QED
      BY <1>2, <1>3, <3>1
  <2> QED
    BY <1>1, <1>2, <1>3, <2>1, ChildrenIn
<1>5. nest' \in Stack
  BY TypeOfWalk, <1>2 DEF TypeOK, Stack
<1>6. left \in [1..DepthLimit -> Seq(Place)] /\ later \in [1..DepthLimit -> Seq(Place)]
  BY <1>1, <1>5, LeftInType
<1> HIDE DEF child
<1>7. /\ nest'[depth].page = top.page /\ nest'[depth].cell = top.cell + 1
      /\ nest'[depth + 1].page = child /\ nest'[depth + 1].cell = 0
      /\ \A level \in 1..(depth - 1) : nest'[level] = nest[level]
  <2> DEFINE above == [nest[depth] EXCEPT !.cell = @ + 1]
             below == [page |-> child, cell |-> 0]
  <2>1. above.page = top.page /\ above.cell = top.cell + 1
    <3>1. nest[depth] = top
      BY DEF top
    <3> QED
      BY <1>3, <3>1
  <2>2. nest' = [[nest EXCEPT ![depth] = above] EXCEPT ![depth + 1] = below]
    BY <1>2
  <2>3. below.page = child /\ below.cell = 0
    OBVIOUS
  <2> HIDE DEF above, below
  <2>4. DOMAIN nest = 1..DepthLimit
    BY <1>1 DEF Stack
  <2>5. nest'[depth] = above /\ nest'[depth + 1] = below
    BY <1>3, <2>2, <2>4
  <2>6. \A level \in 1..(depth - 1) : nest'[level] = nest[level]
    <3>1. \A level \in 1..(depth - 1) :
            level \in 1..DepthLimit /\ level # depth /\ level # depth + 1
      BY <1>3, TableAssumption
    <3> QED
      BY <2>2, <2>4, <3>1
  <2> QED
    BY <2>1, <2>3, <2>5, <2>6
<1>8. later[depth + 1] = rows[depth + 1][child]
  <2>1. later[depth + 1] = FromIn(file, child, 0, depth + 1, RowsIn(file))
    BY <1>3, <1>7 DEF LeftIn
  <2> DEFINE level == depth + 1
  <2>2. level \in 1..DepthLimit
    BY <1>3
  <2> HIDE DEF level
  <2>3. RowsIn(file)[level][child] = FromIn(file, child, 0, level, RowsIn(file))
    BY <1>1, <1>4, <2>2, RowsOfTree
  <2> QED
    BY <2>1, <2>3 DEF level
<1>9. left[depth] = later[depth + 1] \o later[depth]
  <2>1. left[depth] = FromIn(file, top.page, top.cell, depth, RowsIn(file))
    BY <1>3 DEF LeftIn, top
  <2>2. later[depth] = FromIn(file, top.page, top.cell + 1, depth, RowsIn(file))
    BY <1>3, <1>7 DEF LeftIn
  <2>3. Below(depth, RowsIn(file)) /\ top.cell \in Nat
    BY <1>1, <1>3, RowsType
  <2>4. FromIn(file, top.page, top.cell, depth, RowsIn(file))
          = RowsIn(file)[depth + 1][file[top.page].children[top.cell + 1]]
              \o FromIn(file, top.page, top.cell + 1, depth, RowsIn(file))
    <3>1. /\ file \in Tree /\ top.page \in Page /\ file[top.page].kind = "interior"
          /\ top.cell \in Nat /\ top.cell < Len(file[top.page].children)
          /\ depth \in 1..DepthLimit /\ depth < DepthLimit /\ Below(depth, RowsIn(file))
      BY <1>1, <1>2, <1>3, <2>3
    <3> QED
      BY <3>1, ChildFirst, Zenon
  <2> QED
    BY <1>8, <2>1, <2>2, <2>4 DEF child
<1>10. \A level \in 1..(depth - 1) : left[level] = later[level]
  <2>1. ASSUME NEW level \in 1..(depth - 1) PROVE left[level] = later[level]
    <3>1. level \in 1..DepthLimit
      BY <1>3, TableAssumption
    <3>2. nest'[level] = nest[level]
      BY <1>7
    <3> QED
      BY <3>1, <3>2 DEF LeftIn
  <2> QED
    BY <2>1
<1> HIDE DEF left, later, rows
<1>11. Stacked(left, depth) = Stacked(later, depth + 1)
  <2> DEFINE a == later[depth + 1]
             b == later[depth]
             c == Stacked(later, depth - 1)
             level == depth + 1
  <2>1. Stacked(left, depth) = left[depth] \o Stacked(left, depth - 1)
    BY <1>3, <1>6, StackedFirst, Zenon
  <2>2. Stacked(later, depth) = b \o c /\ c \in Seq(Place)
    BY <1>3, <1>6, StackedFirst, Zenon
  <2>3. Stacked(later, level) = a \o Stacked(later, level - 1)
    <3>1. level \in 1..DepthLimit
      BY <1>3
    <3> QED
      BY <1>6, <3>1, StackedFirst, Zenon
  <2>4. level - 1 = depth
    BY <1>3
  <2>5. depth - 1 \in 0..DepthLimit
    BY <1>3, TableAssumption
  <2>6. Stacked(left, depth - 1) = c
    BY <1>10, <2>5, StackedSame
  <2>7. a \in Seq(Place) /\ b \in Seq(Place)
    BY <1>3, <1>6
  <2>8. left[depth] = a \o b
    BY <1>9
  <2> HIDE DEF a, b, c, level
  <2>9. (a \o b) \o c = a \o (b \o c)
    BY <2>2, <2>7, ConcatAssociative
  <2>10. Stacked(later, level) = a \o (b \o c)
    BY <2>2, <2>3, <2>4
  <2> QED
    BY <2>1, <2>6, <2>8, <2>9, <2>10 DEF level
<1>12. InOrder(file, handed, result, row, Stacked(left, depth)) /\ result = 0
  BY <1>2 DEF Walking, left
<1>13. /\ file' = file /\ handed' = handed /\ row' = row /\ result' = result /\ pc' = pc
       /\ depth' = depth + 1 /\ LeftIn(file, nest)' = later
  BY <1>2 DEF later
<1>14. InOrder(file, handed, result, row, Stacked(LeftIn(file, nest), depth))'
  BY <1>11, <1>12, <1>13 DEF InOrder
<1>15. handed' \in Seq(Place)
  BY <1>13 DEF Walking
<1> QED
  BY <1>12, <1>13, <1>14, <1>15 DEF Walking

\* The row taken was the next one.
LEMMA TakeInOrder ==
  ASSUME Walking, TypeOK', Take \/ CallAgain
  PROVE  Walking'
<1> DEFINE left == Stacked(LeftIn(file, nest), depth)
           w == WholeIn(file, left)
           all == WholeIn(file, RowsIn(file)[1][Root])
           next == IF result = 1 THEN <<row>> ELSE <<>>
<1>1. TypeOK /\ file \in Tree /\ nest \in Stack /\ depth \in 0..DepthLimit
  BY TypeOfWalk DEF Walking
<1>2. /\ UNCHANGED <<file, nest, depth>> /\ pc' = "walk" /\ result' = 0
      /\ \/ result = 1 /\ handed' = Append(handed, row)
         \/ result # 1 /\ handed' = handed
  BY DEF Take, CallAgain, cursor
<1>3. left \in Seq(Place)
  BY <1>1, LeftInType, StackedType
<1>4. all = handed \o (next \o w) /\ handed \in Seq(Place)
  BY DEF Walking, InOrder
<1>5. result = 1 => row \in Place
  BY DEF Walking, Place, Child
<1>6. Refused \in Place
  BY DEF Refused, Place, Child
<1> HIDE DEF left
<1>7. w \in Seq(Place)
  BY <1>3, <1>6, WholeFirst
<1>8. left' = left /\ file' = file
  BY <1>2 DEF left
<1> HIDE DEF w, all
<1>9. <<>> \o w = w
  BY <1>7, ConcatEmptySeq
<1>10. all = handed' \o (<<>> \o w) /\ handed' \in Seq(Place)
  <2>1. CASE result = 1 /\ handed' = Append(handed, row)
    <3> DEFINE one == <<row>>
    <3>1. one \in Seq(Place) /\ next = one /\ row \in Place
      BY <1>5, <2>1
    <3>2. Append(handed, row) = handed \o one /\ Append(handed, row) \in Seq(Place)
      BY <1>4, <3>1, AppendIsConcat, AppendProperties
    <3> HIDE DEF next, one
    <3>3. (handed \o one) \o w = handed \o (one \o w)
      BY <1>4, <1>7, <3>1, ConcatAssociative
    <3> QED
      BY <1>4, <1>9, <2>1, <3>1, <3>2, <3>3
  <2>2. CASE result # 1 /\ handed' = handed
    BY <1>4, <2>2
  <2> QED
    BY <1>2, <2>1, <2>2
<1>11. InOrder(file, handed', 0, row', left)
  BY <1>10 DEF InOrder, all, w
<1>12. InOrder(file, handed, result, row, left)'
  <2>1. InOrder(file', handed', result', row', left')
    BY <1>2, <1>8, <1>11
  <2> QED
    BY <2>1
<1> QED
  BY <1>2, <1>10, <1>12 DEF Walking, left

\* Every step keeps the rows in order.
LEMMA WalkingStep == Walking /\ StackIsPath /\ [Next]_vars => Walking'
<1> SUFFICES ASSUME Walking, StackIsPath, [Next]_vars PROVE Walking'
  OBVIOUS
<1>0. TypeOK'
  BY NextType DEF Walking
<1>1. CASE Empty \/ BadPage \/ TooDeep \/ OtherPage
  <2>1. /\ pc = "walk" /\ UNCHANGED <<file, nest, depth, handed>>
        /\ result' # 1 /\ pc' = "answered"
    BY <1>1 DEF Empty, BadPage, TooDeep, OtherPage, HasChild, At, Answer, cursor
  <2> QED
    BY <1>0, <2>1, StillInOrder
<1>2. CASE LeafRow
  BY <1>0, <1>2, LeafInOrder
<1>3. CASE LeafPop \/ InteriorPop
  BY <1>0, <1>3, PopInOrder
<1>4. CASE Descend
  BY <1>0, <1>4, DescendInOrder
<1>5. CASE Take \/ CallAgain
  BY <1>0, <1>5, TakeInOrder
<1>6. CASE UNCHANGED vars
  BY <1>6 DEF vars, cursor, answer, Walking, TypeOK, InOrder
<1> QED
  BY <1>1, <1>2, <1>3, <1>4, <1>5, <1>6 DEF Next, Walk

\* What was handed out, the row just arrived at and what the stack still gives
\* are the table, in order, after every step: no row is skipped but one that
\* spills, none comes twice, and no place the walk refused is passed.
THEOREM TableInOrder == Spec => []NothingSkipped
<1>1. Init => Walking /\ StackIsPath
  BY InitType, WalkingInit
<1>2. Walking /\ StackIsPath /\ [Next]_vars => (Walking /\ StackIsPath)'
  BY WalkingStep, NextType DEF Walking
<1>3. Walking => NothingSkipped
  BY InOrderMeans DEF Walking
<1> QED
  BY <1>1, <1>2, <1>3, PTL DEF Spec
=============================================================================
