-------------------------- MODULE ElaborateProofs --------------------------
(***************************************************************************)
(* What `elaborate_classes` makes of every set of classes: the recursion   *)
(* names the cycles and nothing else, what an instance takes comes base    *)
(* first and once, and the floors give back what was taken.                *)
(***************************************************************************)
EXTENDS Elaborate, SequenceTheorems, WellFoundedInduction, TLAPS

-----------------------------------------------------------------------------
(* Numbers and sequences.  Induction is stated over sets.                  *)

\* A set of natural numbers that is not empty has a least member.
LEMMA LeastNumber ==
  ASSUME NEW T \in SUBSET Nat, T # {}
  PROVE  \E i \in T : \A j \in T : i <= j
<1>1. PICK i \in T : \A j \in T : ~(<<j, i>> \in OpToRel(<, Nat))
  BY NatLessThanWellFounded, WFMin
<1>2. ASSUME NEW j \in T PROVE i <= j
  <2>1. ~(j < i)
    BY <1>1, <1>2, Zenon DEF OpToRel
  <2> QED
    BY <2>1
<1> QED
  BY <1>2

\* What holds at 0 and is handed on holds of every number.
LEMMA EveryNumber ==
  ASSUME NEW S, 0 \in S, \A n \in Nat : n \in S => n + 1 \in S
  PROVE  Nat \subseteq S
<1> SUFFICES ASSUME Nat \ S # {} PROVE FALSE
  OBVIOUS
<1>1. PICK n \in Nat \ S : \A m \in Nat \ S : n <= m
  BY LeastNumber
<1>2. n - 1 \in Nat /\ n - 1 \notin S
  BY <1>1
<1> QED
  BY <1>1, <1>2

\* f[i] is the first i rows of s, flattened.
Unfolded(f, s, n) ==
  /\ f = [i \in 1..n |-> f[i]]
  /\ \A i \in 1..n : f[i] = IF i = 1 THEN s[i] ELSE f[i - 1] \o s[i]

\* Each step of the flattening, from the one before it.
LEMMA UnfoldedAt ==
  ASSUME NEW f, NEW s, NEW n, Unfolded(f, s, n), NEW i \in 1..n
  PROVE  f[i] = IF i = 1 THEN s[i] ELSE f[i - 1] \o s[i]
BY Zenon DEF Unfolded

\* The flattening exists, however many rows there are.
LEMMA Unfolding ==
  ASSUME NEW s, NEW n \in Nat PROVE \E f : Unfolded(f, s, n)
<1> DEFINE S == {m \in Nat : \E f : Unfolded(f, s, m)}
<1>1. 0 \in S
  <2> DEFINE f == [i \in 1..0 |-> s[i]]
  <2>1. Unfolded(f, s, 0)
    BY DEF Unfolded
  <2> QED
    BY <2>1
<1>2. ASSUME NEW m \in Nat, m \in S PROVE m + 1 \in S
  <2>1. PICK f : Unfolded(f, s, m)
    BY <1>2
  <2> DEFINE next == IF m = 0 THEN s[1] ELSE f[m] \o s[m + 1]
             g == [i \in 1..(m + 1) |-> IF i = m + 1 THEN next ELSE f[i]]
  <2>2. ASSUME NEW i \in 1..(m + 1) PROVE g[i] = IF i = 1 THEN s[i] ELSE g[i - 1] \o s[i]
    <3>1. CASE i = m + 1
      BY <3>1
    <3>2. CASE i # m + 1
      <4>1. i \in 1..m /\ g[i] = f[i]
        BY <3>2
      <4>2. f[i] = IF i = 1 THEN s[i] ELSE f[i - 1] \o s[i]
        BY <2>1, <4>1, UnfoldedAt
      <4>3. i # 1 => g[i - 1] = f[i - 1]
        BY <4>1
      <4> QED
        BY <4>1, <4>2, <4>3
    <3> QED
      BY <3>1, <3>2
  <2>3. g = [i \in 1..(m + 1) |-> g[i]]
    BY Zenon
  <2>4. Unfolded(g, s, m + 1)
    <3> HIDE DEF g
    <3> QED
      BY <2>2, <2>3 DEF Unfolded
  <2> QED
    BY <2>4
<1> QED
  <2> HIDE DEF S
  <2>1. Nat \subseteq S
    BY <1>1, <1>2, EveryNumber
  <2> QED
    BY <2>1 DEF S

\* Rows that agree are flattened alike.
LEMMA UnfoldedAlike ==
  ASSUME NEW s, NEW t, NEW f, NEW g, NEW m \in Nat, NEW n \in Nat, m <= n,
         Unfolded(f, s, m), Unfolded(g, t, n), \A i \in 1..m : s[i] = t[i]
  PROVE  \A i \in 1..m : f[i] = g[i]
<1> DEFINE S == {k \in Nat : k \in 1..m => f[k] = g[k]}
<1>1. ASSUME NEW k \in Nat, k \in S PROVE k + 1 \in S
  <2>1. CASE k + 1 \in 1..m
    <3>1. /\ f[k + 1] = IF k + 1 = 1 THEN s[k + 1] ELSE f[(k + 1) - 1] \o s[k + 1]
          /\ g[k + 1] = IF k + 1 = 1 THEN t[k + 1] ELSE g[(k + 1) - 1] \o t[k + 1]
      <4>1. k + 1 \in 1..m /\ k + 1 \in 1..n
        BY <2>1
      <4> QED
        BY <4>1, UnfoldedAt
    <3>2. (k + 1) - 1 = k /\ s[k + 1] = t[k + 1] /\ (k = 0 \/ f[k] = g[k])
      BY <1>1, <2>1
    <3> QED
      BY <3>1, <3>2
  <2> QED
    BY <2>1
<1>2. 0 \in S
  OBVIOUS
<1> QED
  <2> HIDE DEF S
  <2>1. Nat \subseteq S
    BY <1>1, <1>2, EveryNumber
  <2> QED
    BY <2>1 DEF S

\* Nothing, flattened.
LEMMA FlattenEmpty == FlattenSeq(<<>>) = <<>>
  BY DEF FlattenSeq

\* FlattenSeq is the last step of the flattening.
LEMMA FlattenUnfolded ==
  ASSUME NEW s, NEW n \in Nat \ {0}, Len(s) = n
  PROVE  \E f : Unfolded(f, s, n) /\ FlattenSeq(s) = f[n]
<1> DEFINE f == CHOOSE f : f = [i \in 1..n |-> IF i = 1 THEN s[i] ELSE f[i - 1] \o s[i]]
<1>1. f = [i \in 1..n |-> IF i = 1 THEN s[i] ELSE f[i - 1] \o s[i]]
  <2>1. PICK g : Unfolded(g, s, n)
    BY Unfolding
  <2>2. g = [i \in 1..n |-> IF i = 1 THEN s[i] ELSE g[i - 1] \o s[i]]
    BY <2>1, Zenon DEF Unfolded
  <2> QED
    BY <2>2, Zenon
<1>2. FlattenSeq(s) = f[n]
  BY DEF FlattenSeq
<1>3. Unfolded(f, s, n)
  BY <1>1 DEF Unfolded
<1> QED
  BY <1>2, <1>3

\* Flattening takes one sequence after the other.
LEMMA FlattenAppend ==
  ASSUME NEW V, NEW s \in Seq(Seq(V)), NEW x \in Seq(V)
  PROVE  FlattenSeq(Append(s, x)) = FlattenSeq(s) \o x
<1> DEFINE t == Append(s, x)
           n == Len(s)
<1>1. n \in Nat /\ t \in Seq(Seq(V)) /\ Len(t) = n + 1 /\ t[n + 1] = x /\ \A i \in 1..n : t[i] = s[i]
  BY AppendProperties
<1> HIDE DEF n, t
<1>2. PICK g : Unfolded(g, t, n + 1) /\ FlattenSeq(t) = g[n + 1]
  <2>1. n + 1 \in Nat \ {0}
    BY <1>1
  <2> QED
    BY <1>1, <2>1, FlattenUnfolded
<1>3. g[n + 1] = IF n = 0 THEN x ELSE g[n] \o x
  <2>0. n + 1 \in 1..(n + 1)
    BY <1>1
  <2>1. g[n + 1] = IF n + 1 = 1 THEN t[n + 1] ELSE g[(n + 1) - 1] \o t[n + 1]
    BY <2>0, <1>2, UnfoldedAt
  <2> QED
    BY <1>1, <2>1
<1>4. CASE n = 0
  <2>1. s = <<>>
    BY <1>4, EmptySeq DEF n
  <2> QED
    BY <1>2, <1>3, <1>4, <2>1, FlattenEmpty, ConcatEmptySeq DEF t
<1>5. CASE n # 0
  <2>1. PICK f : Unfolded(f, s, n) /\ FlattenSeq(s) = f[n]
    BY <1>1, <1>5, FlattenUnfolded DEF n
  <2>2. f[n] = g[n]
    <3>1. n <= n + 1 /\ n + 1 \in Nat /\ n \in 1..n /\ \A i \in 1..n : s[i] = t[i]
      BY <1>1, <1>5
    <3>2. \A i \in 1..n : f[i] = g[i]
      <4> DEFINE d == n + 1
      <4>1. d \in Nat /\ n <= d /\ n \in Nat /\ Unfolded(g, t, d) /\ Unfolded(f, s, n)
        BY <1>1, <1>2, <2>1, <3>1
      <4> HIDE DEF d
      <4> QED
        BY <3>1, <4>1, UnfoldedAlike
    <3> QED
      BY <3>1, <3>2
  <2> QED
    BY <1>2, <1>3, <1>5, <2>1, <2>2 DEF t
<1> QED
  BY <1>4, <1>5 DEF t

\* What holds of the empty sequence and is handed on holds of every sequence.
LEMMA EverySequence ==
  ASSUME NEW V, NEW S, <<>> \in S, \A s \in Seq(V), x \in V : s \in S => Append(s, x) \in S
  PROVE  Seq(V) \subseteq S
<1> DEFINE N == {n \in Nat : \A s \in Seq(V) : Len(s) = n => s \in S}
<1>1. 0 \in N
  BY EmptySeq
<1>2. ASSUME NEW n \in Nat, n \in N PROVE n + 1 \in N
  <2>1. ASSUME NEW s \in Seq(V), Len(s) = n + 1 PROVE s \in S
    <3> DEFINE t == SubSeq(s, 1, n)
    <3>1. \A i \in 1..(n + 1) : s[i] \in V
      BY <2>1, ElementOfSeq
    <3>2. t \in Seq(V) /\ Len(t) = n /\ s[n + 1] \in V /\ \A i \in 1..n : t[i] = s[i]
      BY <3>1
    <3>3. s = Append(t, s[n + 1])
      <4>1. /\ Append(t, s[n + 1]) \in Seq(V) /\ Len(Append(t, s[n + 1])) = n + 1
            /\ \A i \in 1..(n + 1) : Append(t, s[n + 1])[i] = s[i]
        BY <3>2, AppendProperties
      <4> QED
        BY <2>1, <4>1, SeqEqual
    <3>4. t \in S
      BY <1>2, <3>2
    <3> QED
      BY <3>2, <3>3, <3>4
  <2> QED
    BY <2>1
<1>3. Nat \subseteq N
  <2> HIDE DEF N
  <2> QED
    BY <1>1, <1>2, EveryNumber
<1> QED
  BY <1>3, LenProperties

\* Flattened rows are a sequence of what is in the rows.
LEMMA FlattenType ==
  ASSUME NEW V, NEW s \in Seq(Seq(V))
  PROVE  FlattenSeq(s) \in Seq(V)
<1> DEFINE S == {t \in Seq(Seq(V)) : FlattenSeq(t) \in Seq(V)}
<1>1. <<>> \in S
  BY FlattenEmpty, EmptySeq
<1>2. ASSUME NEW t \in Seq(Seq(V)), NEW x \in Seq(V), t \in S PROVE Append(t, x) \in S
  BY <1>2, FlattenAppend, AppendProperties, ConcatProperties
<1>3. Seq(Seq(V)) \subseteq S
  <2> HIDE DEF S
  <2> QED
    BY <1>1, <1>2, EverySequence
<1> QED
  BY <1>3

\* A row in front comes first.
LEMMA FlattenCons ==
  ASSUME NEW V, NEW s \in Seq(Seq(V)), NEW x \in Seq(V)
  PROVE  FlattenSeq(<<x>> \o s) = x \o FlattenSeq(s)
<1> DEFINE S == {t \in Seq(Seq(V)) : FlattenSeq(<<x>> \o t) = x \o FlattenSeq(t)}
<1>0. <<x>> \in Seq(Seq(V)) /\ <<x>> = Append(<<>>, x)
  OBVIOUS
<1>1. <<>> \in S
  <2>1. FlattenSeq(<<x>>) = <<>> \o x
    BY <1>0, FlattenAppend, FlattenEmpty, EmptySeq
  <2> QED
    BY <1>0, <2>1, FlattenEmpty, EmptySeq, ConcatEmptySeq
<1>2. ASSUME NEW t \in Seq(Seq(V)), NEW y \in Seq(V), t \in S PROVE Append(t, y) \in S
  <2>1. <<x>> \o Append(t, y) = Append(<<x>> \o t, y)
    BY <1>0, SMTT(60)
  <2>2. FlattenSeq(<<x>> \o Append(t, y)) = FlattenSeq(<<x>> \o t) \o y
    BY <1>0, <2>1, FlattenAppend, ConcatProperties
  <2>3. FlattenSeq(Append(t, y)) = FlattenSeq(t) \o y
    BY FlattenAppend
  <2>4. (x \o FlattenSeq(t)) \o y = x \o (FlattenSeq(t) \o y)
    BY FlattenType, ConcatAssociative, SMTT(60)
  <2> QED
    BY <1>2, <2>2, <2>3, <2>4, AppendProperties
<1>3. Seq(Seq(V)) \subseteq S
  <2> HIDE DEF S
  <2> QED
    BY <1>1, <1>2, EverySequence
<1> QED
  BY <1>3

\* Each place of a flattened sequence is a place of one of its rows, in the
\* order of the rows and of the places within them.
Places(s, row, col) ==
  LET all == DOMAIN FlattenSeq(s)
  IN  /\ row \in [all -> DOMAIN s] /\ col \in [all -> Nat]
      /\ \A k \in all : col[k] \in DOMAIN s[row[k]] /\ FlattenSeq(s)[k] = s[row[k]][col[k]]
      /\ \A k, l \in all : k < l => row[k] < row[l] \/ (row[k] = row[l] /\ col[k] < col[l])
      /\ \A i \in DOMAIN s : \A j \in DOMAIN s[i] : \E k \in all : row[k] = i /\ col[k] = j

\* The places of a flattened sequence are found in its rows.
LEMMA FlattenPlaces ==
  ASSUME NEW V, NEW s \in Seq(Seq(V))
  PROVE  \E row, col : Places(s, row, col)
<1> DEFINE S == {t \in Seq(Seq(V)) : \E row, col : Places(t, row, col)}
<1>1. <<>> \in S
  <2>1. Places(<<>>, <<>>, <<>>)
    BY FlattenEmpty DEF Places
  <2> QED
    BY <2>1, EmptySeq
<1>2. ASSUME NEW t \in Seq(Seq(V)), NEW x \in Seq(V), t \in S PROVE Append(t, x) \in S
  <2>1. PICK row, col : Places(t, row, col)
    BY <1>2
  <2> DEFINE u == Append(t, x)
             f == FlattenSeq(t)
             m == Len(f)
             n == Len(t)
             all == 1..(m + Len(x))
             rows == [k \in all |-> IF k <= m THEN row[k] ELSE n + 1]
             cols == [k \in all |-> IF k <= m THEN col[k] ELSE k - m]
  <2>2. /\ f \in Seq(V) /\ m \in Nat /\ n \in Nat /\ Len(x) \in Nat
        /\ DOMAIN f = 1..m /\ DOMAIN t = 1..n /\ DOMAIN x = 1..Len(x)
    BY FlattenType, LenProperties
  <2>3. /\ u \in Seq(Seq(V)) /\ DOMAIN u = 1..(n + 1) /\ u[n + 1] = x
        /\ \A i \in 1..n : u[i] = t[i]
    BY <2>2, AppendProperties
  <2>4. /\ FlattenSeq(u) = f \o x /\ DOMAIN FlattenSeq(u) = all
        /\ \A k \in all : FlattenSeq(u)[k] = IF k <= m THEN f[k] ELSE x[k - m]
    <3>1. FlattenSeq(u) = f \o x
      BY FlattenAppend
    <3> HIDE DEF f, u
    <3>2. /\ f \o x \in Seq(V) /\ Len(f \o x) = m + Len(x)
          /\ \A k \in all : (f \o x)[k] = IF k <= m THEN f[k] ELSE x[k - m]
      BY <2>2, ConcatProperties
    <3>3. DOMAIN (f \o x) = all
      <4> HIDE DEF m
      <4> QED
        BY <3>2, LenProperties
    <3> QED
      BY <3>1, <3>2, <3>3
  <2>5. /\ row \in [1..m -> 1..n] /\ col \in [1..m -> Nat]
        /\ \A k \in 1..m : col[k] \in DOMAIN t[row[k]] /\ f[k] = t[row[k]][col[k]]
        /\ \A k, l \in 1..m : k < l => row[k] < row[l] \/ (row[k] = row[l] /\ col[k] < col[l])
        /\ \A i \in 1..n : \A j \in DOMAIN t[i] : \E k \in 1..m : row[k] = i /\ col[k] = j
    <3>1. /\ row \in [DOMAIN f -> DOMAIN t] /\ col \in [DOMAIN f -> Nat]
          /\ \A k \in DOMAIN f : col[k] \in DOMAIN t[row[k]] /\ f[k] = t[row[k]][col[k]]
          /\ \A k, l \in DOMAIN f : k < l => row[k] < row[l] \/ (row[k] = row[l] /\ col[k] < col[l])
          /\ \A i \in DOMAIN t : \A j \in DOMAIN t[i] : \E k \in DOMAIN f : row[k] = i /\ col[k] = j
      BY <2>1, Zenon DEF Places
    <3>2. DOMAIN f = 1..m /\ DOMAIN t = 1..n
      BY <2>2
    <3> HIDE DEF f, m, n
    <3>3. row \in [1..m -> 1..n] /\ col \in [1..m -> Nat]
      BY <3>1, <3>2
    <3>4. /\ \A k \in 1..m : col[k] \in DOMAIN t[row[k]] /\ f[k] = t[row[k]][col[k]]
          /\ \A k, l \in 1..m : k < l => row[k] < row[l] \/ (row[k] = row[l] /\ col[k] < col[l])
      BY <3>1, <3>2
    <3>5. ASSUME NEW i \in 1..n, NEW j \in DOMAIN t[i] PROVE \E k \in 1..m : row[k] = i /\ col[k] = j
      <4>0. i \in DOMAIN t
        BY <3>2
      <4>1. PICK k \in DOMAIN f : row[k] = i /\ col[k] = j
        BY <3>1, <4>0, Zenon
      <4> QED
        BY <3>2, <4>1
    <3> QED
      BY <3>3, <3>4, <3>5
  <2> HIDE DEF f, m, n, u
  <2>6. rows \in [all -> 1..(n + 1)] /\ cols \in [all -> Nat]
    BY <2>2, <2>5
  <2>7. ASSUME NEW k \in all
        PROVE  cols[k] \in DOMAIN u[rows[k]] /\ FlattenSeq(u)[k] = u[rows[k]][cols[k]]
    <3>1. CASE k <= m
      <4>1. k \in 1..m /\ rows[k] = row[k] /\ cols[k] = col[k] /\ row[k] \in 1..n
        BY <2>2, <2>5, <3>1
      <4>2. u[row[k]] = t[row[k]] /\ FlattenSeq(u)[k] = f[k]
        BY <2>3, <2>4, <3>1, <4>1
      <4>3. col[k] \in DOMAIN t[row[k]] /\ f[k] = t[row[k]][col[k]]
        BY <2>5, <4>1, Zenon
      <4> QED
        BY <4>1, <4>2, <4>3, Zenon
    <3>2. CASE ~(k <= m)
      BY <2>2, <2>3, <2>4, <3>2
    <3> QED
      BY <3>1, <3>2
  <2>8. ASSUME NEW k \in all, NEW l \in all, k < l
        PROVE  rows[k] < rows[l] \/ (rows[k] = rows[l] /\ cols[k] < cols[l])
    <3>1. /\ rows[k] = (IF k <= m THEN row[k] ELSE n + 1)
          /\ cols[k] = (IF k <= m THEN col[k] ELSE k - m)
          /\ rows[l] = (IF l <= m THEN row[l] ELSE n + 1)
          /\ cols[l] = (IF l <= m THEN col[l] ELSE l - m)
      OBVIOUS
    <3>2. CASE l <= m
      <4>1. k \in 1..m /\ l \in 1..m
        BY <2>2, <2>8, <3>2
      <4> QED
        BY <2>5, <2>8, <3>1, <4>1
    <3>3. CASE ~(l <= m) /\ k <= m
      <4>1. k \in 1..m /\ row[k] \in 1..n
        BY <2>2, <2>5, <3>3
      <4> QED
        BY <2>2, <3>1, <3>3, <4>1
    <3>4. CASE ~(l <= m) /\ ~(k <= m)
      BY <2>2, <2>8, <3>1, <3>4
    <3> QED
      BY <3>2, <3>3, <3>4
  <2>9. ASSUME NEW i \in 1..(n + 1), NEW j \in DOMAIN u[i]
        PROVE  \E k \in all : rows[k] = i /\ cols[k] = j
    <3>1. CASE i = n + 1
      <4>1. j \in 1..Len(x)
        BY <2>2, <2>3, <2>9, <3>1
      <4>2. m + j \in all /\ rows[m + j] = i /\ cols[m + j] = j
        BY <2>2, <3>1, <4>1, SMTT(60)
      <4> QED
        BY <4>2
    <3>2. CASE i \in 1..n
      <4>1. PICK k \in 1..m : row[k] = i /\ col[k] = j
        <5>1. j \in DOMAIN t[i]
          BY <2>3, <2>9, <3>2
        <5> QED
          BY <2>5, <3>2, <5>1, Zenon
      <4>2. k \in all /\ rows[k] = row[k] /\ cols[k] = col[k]
        BY <2>2
      <4> QED
        BY <4>1, <4>2
    <3>3. i \in 1..n \/ i = n + 1
      BY <2>2
    <3> QED
      BY <3>1, <3>2, <3>3
  <2>10. Places(u, rows, cols)
    <3> HIDE DEF rows, cols, all
    <3> QED
      BY <2>3, <2>4, <2>6, <2>7, <2>8, <2>9 DEF Places
  <2> QED
    BY <2>3, <2>10 DEF u
<1>3. Seq(Seq(V)) \subseteq S
  <2> HIDE DEF S
  <2> QED
    BY <1>1, <1>2, EverySequence
<1> QED
  BY <1>3

\* The first n places of a sequence.
LEMMA SubSeqType ==
  ASSUME NEW V, NEW s \in Seq(V), NEW n \in 0..Len(s)
  PROVE  /\ SubSeq(s, 1, n) \in Seq(V) /\ Len(SubSeq(s, 1, n)) = n
         /\ \A i \in 1..n : SubSeq(s, 1, n)[i] = s[i]
<1>1. \A i \in 1..n : s[i] \in V
  BY ElementOfSeq
<1> QED
  BY <1>1

\* A sequence of members of V, whatever else it is a sequence of.
LEMMA SequenceOf ==
  ASSUME NEW A, NEW V, NEW s \in Seq(A), \A i \in DOMAIN s : s[i] \in V
  PROVE  s \in Seq(V)
<1>1. DOMAIN s = 1..Len(s) /\ Len(s) \in Nat /\ s \in [1..Len(s) -> A]
  BY LenProperties
<1>2. s \in [1..Len(s) -> V]
  BY <1>1
<1> QED
  BY <1>1, <1>2

\* The rows of a list.
LEMMA RowsType ==
  ASSUME NEW A, NEW V, NEW s \in Seq(A), NEW f, \A x \in A : f[x] \in Seq(V)
  PROVE  /\ [i \in DOMAIN s |-> f[s[i]]] \in Seq(Seq(V))
         /\ FlattenSeq([i \in DOMAIN s |-> f[s[i]]]) \in Seq(V)
<1> DEFINE rows == [i \in DOMAIN s |-> f[s[i]]]
<1>1. DOMAIN s = 1..Len(s) /\ Len(s) \in Nat /\ \A i \in DOMAIN s : s[i] \in A
  BY LenProperties, ElementOfSeq
<1>2. rows \in [1..Len(s) -> Seq(V)]
  BY <1>1
<1>3. rows \in Seq(Seq(V))
  BY <1>1, <1>2
<1> QED
  BY <1>3, FlattenType

\* A sequence reversed is one of the same length.
LEMMA ReversedType ==
  ASSUME NEW V, NEW s \in Seq(V)
  PROVE  Reverse(s) \in Seq(V) /\ Len(Reverse(s)) = Len(s)
<1>1. Len(s) \in Nat /\ \A i \in 1..Len(s) : s[i] \in V
  BY LenProperties, ElementOfSeq
<1>2. Reverse(s) \in [1..Len(s) -> V]
  BY <1>1 DEF Reverse
<1> QED
  BY <1>1, <1>2

\* A single row, flattened.
LEMMA FlattenOne ==
  ASSUME NEW V, NEW x \in Seq(V)
  PROVE  FlattenSeq(<<x>>) = x
<1>1. <<x>> = Append(<<>>, x) /\ <<>> \in Seq(Seq(V)) /\ <<>> \in Seq(V)
  BY EmptySeq
<1>2. FlattenSeq(<<x>>) = <<>> \o x
  BY <1>1, FlattenAppend, FlattenEmpty
<1> QED
  BY <1>2, ConcatEmptySeq

\* Of rows that are all empty nothing is left.
LEMMA FlattenNothing ==
  ASSUME NEW V, NEW s \in Seq(V), \A i \in 1..Len(s) : s[i] = <<>>
  PROVE  FlattenSeq(s) = <<>>
<1>1. s \in [1..Len(s) -> Seq({})] /\ Len(s) \in Nat
  <2>1. <<>> \in Seq({})
    BY EmptySeq
  <2> QED
    BY <2>1, LenProperties
<1>2. s \in Seq(Seq({}))
  BY <1>1
<1>3. FlattenSeq(s) \in Seq({})
  BY <1>2, FlattenType
<1>4. Len(FlattenSeq(s)) = 0
  <2>1. Len(FlattenSeq(s)) \in Nat /\ \A i \in 1..Len(FlattenSeq(s)) : FlattenSeq(s)[i] \in {}
    BY <1>3, LenProperties, ElementOfSeq
  <2>2. Len(FlattenSeq(s)) # 0 => 1 \in 1..Len(FlattenSeq(s))
    BY <2>1
  <2> QED
    BY <2>1, <2>2
<1> QED
  BY <1>3, <1>4, EmptySeq

\* Where one row is not empty, it is what is left.
LEMMA FlattenSingle ==
  ASSUME NEW V, NEW s \in Seq(Seq(V)), NEW m \in 1..Len(s), \A i \in 1..Len(s) : i # m => s[i] = <<>>
  PROVE  FlattenSeq(s) = s[m]
<1> DEFINE Single(t, k) == \A i \in 1..Len(t) : i # k => t[i] = <<>>
           S == {t \in Seq(Seq(V)) : \A k \in 1..Len(t) : Single(t, k) => FlattenSeq(t) = t[k]}
<1>1. <<>> \in S
  BY EmptySeq
<1>2. ASSUME NEW t \in Seq(Seq(V)), NEW x \in Seq(V), t \in S PROVE Append(t, x) \in S
  <2> DEFINE u == Append(t, x)
             n == Len(t)
  <2>1. n \in Nat /\ u \in Seq(Seq(V)) /\ Len(u) = n + 1 /\ u[n + 1] = x /\ \A i \in 1..n : u[i] = t[i]
    BY AppendProperties
  <2>2. FlattenSeq(u) = FlattenSeq(t) \o x
    BY FlattenAppend
  <2>3. ASSUME NEW k \in 1..(n + 1), Single(u, k) PROVE FlattenSeq(u) = u[k]
    <3>1. CASE k = n + 1
      <4>1. \A i \in 1..Len(t) : t[i] = <<>>
        <5> SUFFICES ASSUME NEW i \in 1..n PROVE t[i] = <<>>
          OBVIOUS
        <5>1. i \in 1..Len(u) /\ i # k /\ u[i] = t[i]
          BY <2>1, <3>1
        <5> QED
          BY <2>3, <5>1
      <4>2. FlattenSeq(t) = <<>>
        BY <4>1, FlattenNothing
      <4> QED
        BY <2>1, <2>2, <3>1, <4>2, ConcatEmptySeq
    <3>2. CASE k \in 1..n
      <4>1. x = <<>>
        <5>1. n + 1 \in 1..Len(u) /\ n + 1 # k
          BY <2>1, <3>2
        <5> QED
          BY <2>1, <2>3, <5>1
      <4>2. Single(t, k)
        <5> SUFFICES ASSUME NEW i \in 1..n, i # k PROVE t[i] = <<>>
          OBVIOUS
        <5>1. i \in 1..Len(u) /\ u[i] = t[i]
          BY <2>1
        <5> QED
          BY <2>3, <5>1
      <4>3. FlattenSeq(t) = t[k] /\ t[k] \in Seq(V)
        BY <1>2, <3>2, <4>2, ElementOfSeq
      <4> QED
        BY <2>1, <2>2, <3>2, <4>1, <4>3, ConcatEmptySeq
    <3>3. k = n + 1 \/ k \in 1..n
      <4> HIDE DEF n
      <4> QED
        BY <2>1, <2>3
    <3> QED
      BY <3>1, <3>2, <3>3
  <2> HIDE DEF u, n, Single
  <2> QED
    BY <2>1, <2>3 DEF u
<1>3. Seq(Seq(V)) \subseteq S
  <2> HIDE DEF S
  <2> QED
    BY <1>1, <1>2, EverySequence
<1>4. Single(s, m)
  OBVIOUS
<1> QED
  BY <1>3, <1>4

\* What h makes of each member of s, one after the other.
Rewrites(h, A, V) == h \in [A -> Seq(V)]

\* The sequence rewritten, element by element.
Through(h, s) == FlattenSeq([i \in DOMAIN s |-> h[s[i]]])

\* What the elements are rewritten to are rows.
LEMMA ThroughRows ==
  ASSUME NEW A, NEW V, NEW h, Rewrites(h, A, V), NEW s \in Seq(A)
  PROVE  [i \in DOMAIN s |-> h[s[i]]] \in Seq(Seq(V)) /\ Through(h, s) \in Seq(V)
<1> DEFINE rows == [i \in DOMAIN s |-> h[s[i]]]
<1>1. DOMAIN s = 1..Len(s) /\ Len(s) \in Nat /\ \A i \in DOMAIN s : s[i] \in A
  BY LenProperties, ElementOfSeq
<1>2. rows \in [1..Len(s) -> Seq(V)]
  BY <1>1 DEF Rewrites
<1>3. rows \in Seq(Seq(V))
  BY <1>1, <1>2
<1> QED
  BY <1>3, FlattenType DEF Through

\* Nothing is rewritten to nothing.
LEMMA ThroughEmpty ==
  ASSUME NEW h
  PROVE  Through(h, <<>>) = <<>>
<1>1. [i \in DOMAIN <<>> |-> h[<<>>[i]]] = <<>>
  OBVIOUS
<1> QED
  BY <1>1, FlattenEmpty DEF Through

\* A last element is rewritten last.
LEMMA ThroughAppend ==
  ASSUME NEW A, NEW V, NEW h, Rewrites(h, A, V), NEW s \in Seq(A), NEW x \in A
  PROVE  Through(h, Append(s, x)) = Through(h, s) \o h[x]
<1> DEFINE rows == [i \in DOMAIN s |-> h[s[i]]]
           t == Append(s, x)
           more == [i \in DOMAIN t |-> h[t[i]]]
           n == Len(s)
<1>1. /\ n \in Nat /\ DOMAIN s = 1..n /\ t \in Seq(A) /\ DOMAIN t = 1..(n + 1) /\ t[n + 1] = x
      /\ \A i \in 1..n : t[i] = s[i]
  BY AppendProperties, LenProperties
<1>2. rows \in Seq(Seq(V)) /\ h[x] \in Seq(V)
  BY ThroughRows, SMTT(60) DEF Rewrites
<1>3. Len(rows) = n
  BY <1>1
<1>4. more = Append(rows, h[x])
  <2>1. /\ Append(rows, h[x]) \in Seq(Seq(V)) /\ Len(Append(rows, h[x])) = n + 1
        /\ Append(rows, h[x])[n + 1] = h[x] /\ \A i \in 1..n : Append(rows, h[x])[i] = rows[i]
    <3> HIDE DEF rows, n
    <3> QED
      BY <1>2, <1>3, AppendProperties
  <2>2. more \in Seq(Seq(V)) /\ Len(more) = n + 1
    <3> HIDE DEF t, n
    <3>1. more \in Seq(Seq(V))
      <4>1. t \in Seq(A)
        BY <1>1
      <4> QED
        BY <4>1, ThroughRows, Zenon
    <3>2. DOMAIN more = 1..(n + 1)
      BY <1>1
    <3> HIDE DEF more
    <3> QED
      BY <1>1, <3>1, <3>2, LenProperties
  <2>3. ASSUME NEW i \in 1..(n + 1) PROVE more[i] = Append(rows, h[x])[i]
    <3>1. CASE i = n + 1
      BY <1>1, <2>1, <3>1
    <3>2. CASE i \in 1..n
      BY <1>1, <2>1, <3>2
    <3>3. i = n + 1 \/ i \in 1..n
      BY <1>1
    <3> QED
      BY <3>1, <3>2, <3>3
  <2> HIDE DEF more, rows, n
  <2> QED
    BY <2>1, <2>2, <2>3, SeqEqual
<1>5. FlattenSeq(Append(rows, h[x])) = FlattenSeq(rows) \o h[x]
  <2> HIDE DEF rows
  <2> QED
    BY <1>2, FlattenAppend
<1> QED
  BY <1>4, <1>5 DEF Through

\* Of two sequences in a row, each is rewritten for itself.
LEMMA ThroughConcat ==
  ASSUME NEW A, NEW V, NEW h, Rewrites(h, A, V), NEW s \in Seq(A), NEW t \in Seq(A)
  PROVE  Through(h, s \o t) = Through(h, s) \o Through(h, t)
<1> DEFINE S == {u \in Seq(A) : Through(h, s \o u) = Through(h, s) \o Through(h, u)}
<1>1. <<>> \in S
  <2>1. <<>> \in Seq(A) /\ s \o <<>> = s
    BY ConcatEmptySeq, EmptySeq
  <2>2. Through(h, s) \o <<>> = Through(h, s)
    BY ThroughRows, ConcatEmptySeq
  <2> QED
    BY <2>1, <2>2, ThroughEmpty
<1>2. ASSUME NEW u \in Seq(A), NEW x \in A, u \in S PROVE Append(u, x) \in S
  <2>1. s \o Append(u, x) = Append(s \o u, x) /\ s \o u \in Seq(A)
    <3>1. s \o u \in Seq(A) /\ Len(s \o u) = Len(s) + Len(u) /\ Len(s) \in Nat /\ Len(u) \in Nat
          /\ \A i \in 1..(Len(s) + Len(u)) : (s \o u)[i] = IF i <= Len(s) THEN s[i] ELSE u[i - Len(s)]
      BY ConcatProperties, LenProperties
    <3>2. <<x>> \in Seq(A) /\ Append(u, x) = u \o <<x>> /\ Append(s \o u, x) = (s \o u) \o <<x>>
      BY <3>1, AppendIsConcat
    <3> QED
      BY <3>1, <3>2, ConcatAssociative
  <2>2. Through(h, Append(s \o u, x)) = Through(h, s \o u) \o h[x]
    <3> DEFINE w == s \o u
    <3>1. w \in Seq(A)
      BY <2>1
    <3> HIDE DEF w
    <3>2. Through(h, Append(w, x)) = Through(h, w) \o h[x]
      BY <3>1, ThroughAppend
    <3> QED
      BY <3>2 DEF w
  <2>3. Through(h, Append(u, x)) = Through(h, u) \o h[x]
    BY ThroughAppend
  <2>4. (Through(h, s) \o Through(h, u)) \o h[x] = Through(h, s) \o (Through(h, u) \o h[x])
    <3>1. h[x] \in Seq(V) /\ Through(h, s) \in Seq(V) /\ Through(h, u) \in Seq(V)
      BY ThroughRows DEF Rewrites
    <3> DEFINE a == Through(h, s)
               b == Through(h, u)
               c == h[x]
    <3>2. a \in Seq(V) /\ b \in Seq(V) /\ c \in Seq(V)
      BY <3>1
    <3> HIDE DEF a, b, c
    <3>3. (a \o b) \o c = a \o (b \o c)
      BY <3>2, ConcatAssociative, SMTT(60)
    <3> QED
      BY <3>3 DEF a, b, c
  <2> QED
    BY <1>2, <2>1, <2>2, <2>3, <2>4, AppendProperties
<1>3. Seq(A) \subseteq S
  <2> HIDE DEF S
  <2> QED
    BY <1>1, <1>2, EverySequence
<1> QED
  BY <1>3

\* Of rows, h makes what it makes of each.
LEMMA ThroughFlatten ==
  ASSUME NEW A, NEW V, NEW h, Rewrites(h, A, V), NEW s \in Seq(Seq(A))
  PROVE  Through(h, FlattenSeq(s)) = FlattenSeq([i \in DOMAIN s |-> Through(h, s[i])])
<1> DEFINE g == [u \in Seq(A) |-> Through(h, u)]
           S == {t \in Seq(Seq(A)) : Through(h, FlattenSeq(t)) = Through(g, t)}
<1>0. Rewrites(g, Seq(A), V)
  <2>1. \A u \in Seq(A) : Through(h, u) \in Seq(V)
    BY ThroughRows
  <2> QED
    BY <2>1 DEF Rewrites
<1>1. <<>> \in S
  BY FlattenEmpty, ThroughEmpty, EmptySeq
<1>2. ASSUME NEW t \in Seq(Seq(A)), NEW x \in Seq(A), t \in S PROVE Append(t, x) \in S
  <2>1. Through(h, FlattenSeq(Append(t, x))) = Through(h, FlattenSeq(t)) \o Through(h, x)
    <3>1. FlattenSeq(Append(t, x)) = FlattenSeq(t) \o x /\ FlattenSeq(t) \in Seq(A)
      BY FlattenAppend, FlattenType
    <3> QED
      BY <3>1, ThroughConcat
  <2>2. Through(g, Append(t, x)) = Through(g, t) \o g[x] /\ g[x] = Through(h, x)
    <3>1. g[x] = Through(h, x)
      OBVIOUS
    <3> HIDE DEF g
    <3>2. Through(g, Append(t, x)) = Through(g, t) \o g[x]
      BY <1>0, ThroughAppend
    <3> QED
      BY <3>1, <3>2
  <2> HIDE DEF g
  <2> QED
    BY <1>2, <2>1, <2>2, AppendProperties
<1>3. Seq(Seq(A)) \subseteq S
  <2> HIDE DEF S
  <2> QED
    BY <1>1, <1>2, EverySequence
<1>4. Through(g, s) = FlattenSeq([i \in DOMAIN s |-> Through(h, s[i])])
  <2>1. \A i \in DOMAIN s : s[i] \in Seq(A)
    BY LenProperties, ElementOfSeq
  <2>2. [i \in DOMAIN s |-> g[s[i]]] = [i \in DOMAIN s |-> Through(h, s[i])]
    BY <2>1
  <2> QED
    BY <2>2 DEF Through
<1> QED
  BY <1>3, <1>4

\* From the end.
LEMMA ReverseAppend ==
  ASSUME NEW V, NEW s \in Seq(V), NEW x \in V
  PROVE  Reverse(Append(s, x)) = <<x>> \o Reverse(s)
<1> DEFINE t == Append(s, x)
           n == Len(s)
<1>1. /\ n \in Nat /\ t \in Seq(V) /\ Len(t) = n + 1 /\ t[n + 1] = x
      /\ \A i \in 1..n : t[i] = s[i]
  BY AppendProperties
<1>2. /\ Reverse(s) \in Seq(V) /\ Len(Reverse(s)) = n /\ \A i \in 1..n : Reverse(s)[i] = s[(n - i) + 1]
  BY ReversedType DEF Reverse
<1> HIDE DEF t, n
<1>3. /\ Reverse(t) \in Seq(V) /\ Len(Reverse(t)) = n + 1
      /\ \A i \in 1..(n + 1) : Reverse(t)[i] = t[((n + 1) - i) + 1]
  BY <1>1, ReversedType DEF Reverse
<1>4. /\ <<x>> \o Reverse(s) \in Seq(V) /\ Len(<<x>> \o Reverse(s)) = n + 1
      /\ \A i \in 1..(n + 1) : (<<x>> \o Reverse(s))[i] = IF i = 1 THEN x ELSE Reverse(s)[i - 1]
  <2>1. <<x>> \in Seq(V) /\ Len(<<x>>) = 1 /\ <<x>>[1] = x
    OBVIOUS
  <2> QED
    BY <1>1, <1>2, <2>1, ConcatProperties
<1>5. ASSUME NEW i \in 1..(n + 1) PROVE Reverse(t)[i] = (<<x>> \o Reverse(s))[i]
  <2>1. CASE i = 1
    BY <1>1, <1>3, <1>4, <2>1
  <2>2. CASE i # 1
    <3>1. i - 1 \in 1..n /\ ((n + 1) - i) + 1 \in 1..n /\ (n - (i - 1)) + 1 = ((n + 1) - i) + 1
      BY <1>1, <2>2
    <3>2. Reverse(t)[i] = s[((n + 1) - i) + 1]
      BY <1>1, <1>3, <3>1
    <3>3. Reverse(s)[i - 1] = s[(n - (i - 1)) + 1]
      BY <1>2, <3>1
    <3> QED
      BY <1>4, <2>2, <3>1, <3>2, <3>3
  <2> QED
    BY <2>1, <2>2
<1> QED
  BY <1>3, <1>4, <1>5, SeqEqual DEF t

\* Of two sequences in a row, reversing swaps the two.
LEMMA ReverseConcat ==
  ASSUME NEW V, NEW s \in Seq(V), NEW t \in Seq(V)
  PROVE  Reverse(s \o t) = Reverse(t) \o Reverse(s)
<1> DEFINE S == {u \in Seq(V) : Reverse(s \o u) = Reverse(u) \o Reverse(s)}
<1>1. <<>> \in S
  <2>1. Reverse(<<>>) = <<>>
    BY DEF Reverse
  <2> QED
    BY <2>1, ReversedType, ConcatEmptySeq, EmptySeq
<1>2. ASSUME NEW u \in Seq(V), NEW x \in V, u \in S PROVE Append(u, x) \in S
  <2>1. s \o Append(u, x) = Append(s \o u, x) /\ s \o u \in Seq(V)
    <3>1. s \o u \in Seq(V)
      BY ConcatProperties
    <3>2. <<x>> \in Seq(V) /\ Append(u, x) = u \o <<x>> /\ Append(s \o u, x) = (s \o u) \o <<x>>
      BY <3>1, AppendIsConcat
    <3> QED
      BY <3>1, <3>2, ConcatAssociative
  <2>2. Reverse(Append(s \o u, x)) = <<x>> \o Reverse(s \o u)
    BY <2>1, ReverseAppend
  <2>3. Reverse(Append(u, x)) = <<x>> \o Reverse(u)
    BY ReverseAppend
  <2>4. <<x>> \o (Reverse(u) \o Reverse(s)) = (<<x>> \o Reverse(u)) \o Reverse(s)
    <3> DEFINE one == <<x>>
    <3>1. one \in Seq(V) /\ Reverse(u) \in Seq(V) /\ Reverse(s) \in Seq(V)
      BY ReversedType
    <3> HIDE DEF one, S
    <3>2. (one \o Reverse(u)) \o Reverse(s) = one \o (Reverse(u) \o Reverse(s))
      BY <3>1, ConcatAssociative, SMTT(60)
    <3> QED
      BY <3>2 DEF one
  <2> QED
    BY <1>2, <2>1, <2>2, <2>3, <2>4, AppendProperties
<1>3. Seq(V) \subseteq S
  <2> HIDE DEF S
  <2> QED
    BY <1>1, <1>2, EverySequence
<1> QED
  BY <1>3

-----------------------------------------------------------------------------
(* The shape of the state.                                                 *)

\* What the variables hold: the calls of an acquire, the floors, the classes as
\* they are by now and the calls of elab.
Call == [owner : Class, marked : BOOLEAN, takes : SUBSET Name]
Floor == [init : Seq(Call), cleanup : Seq(Seq(Class))]
Built == [acquire : Seq(Call), release : Seq(Class), ops : SUBSET Name, slots : SUBSET Name,
          parts : Seq(Class), layered : BOOLEAN, own : BOOLEAN,
          layers : Seq(Floor), cleanup : Seq(Seq(Class))]
Frames == [class : Class, stage : {"bases", "parts"}, next : Nat \ {0}]

\* The types of the variables.
Shape ==
  /\ source \in Sources
  /\ built \in [Class -> Built]
  /\ frames \in Seq(Frames)
  /\ done \subseteq Class
  /\ phase \in {"elaborating", "elaborated", "cyclic", "refused"}

\* A class as it is written.
LEMMA SourceType ==
  ASSUME source \in Sources, NEW c \in Class
  PROVE  /\ source[c] \in Written /\ Bases(c) \in Seq(Class)
         /\ source[c].marker \in (IF source[c].calls = 0 THEN {0} ELSE 1..source[c].calls)
         /\ DOMAIN Bases(c) = 1..Len(Bases(c)) /\ Len(Bases(c)) \in Nat
         /\ Range(Bases(c)) \subseteq Class /\ \A i \in DOMAIN Bases(c) : Bases(c)[i] \in Class
<1>1. source[c] \in Written
  BY SourcesAssumption
<1>2. Bases(c) \in Seq(Class)
  BY <1>1 DEF Written, Bases
<1>3. /\ DOMAIN Bases(c) = 1..Len(Bases(c)) /\ Len(Bases(c)) \in Nat
      /\ \A i \in DOMAIN Bases(c) : Bases(c)[i] \in Class
  BY <1>2, LenProperties, ElementOfSeq
<1> QED
  BY <1>1, <1>2, <1>3, SourcesAssumption DEF Range

\* A class before its bases are merged into it has the type of one.
LEMMA BareType ==
  ASSUME source \in Sources, NEW c \in Class
  PROVE  Bare(c) \in Built
<1>1. source[c] \in Written
  BY SourceType
<1>2. [i \in 1..source[c].calls |-> Step(c, i)] \in Seq(Call)
  <2>1. source[c].calls \in Nat /\ source[c].takes \in SUBSET Name
    BY <1>1 DEF Written
  <2>2. [i \in 1..source[c].calls |-> Step(c, i)] \in [1..source[c].calls -> Call]
    BY <2>1 DEF Step, Call
  <2> QED
    BY <2>1, <2>2
<1> QED
  BY <1>1, <1>2 DEF Bare, Built, Written

\* What a class releases is a sequence of things.
LEMMA ChainType ==
  ASSUME Shape, NEW c \in Class
  PROVE  Chain(c) \in Seq(Seq(Class))
<1> DEFINE inPart(p) == [i \in DOMAIN built[p].cleanup |-> <<p>> \o built[p].cleanup[i]]
           own == [i \in DOMAIN built[c].release |-> <<built[c].release[i]>>]
           parts == [i \in DOMAIN built[c].parts |-> inPart(built[c].parts[i])]
<1>1. built[c].release \in Seq(Class) /\ built[c].parts \in Seq(Class)
      /\ \A p \in Class : built[p].cleanup \in Seq(Seq(Class))
  BY DEF Shape, Built
<1>2. own \in Seq(Seq(Class))
  <2>1. /\ DOMAIN built[c].release = 1..Len(built[c].release) /\ Len(built[c].release) \in Nat
        /\ \A i \in DOMAIN built[c].release : built[c].release[i] \in Class
    BY <1>1, LenProperties, ElementOfSeq
  <2>2. own \in [1..Len(built[c].release) -> Seq(Class)]
    BY <2>1
  <2> QED
    BY <2>1, <2>2
<1>3. ASSUME NEW p \in Class PROVE inPart(p) \in Seq(Seq(Class))
  <2> DEFINE n == Len(built[p].cleanup)
  <2>1. DOMAIN built[p].cleanup = 1..n /\ n \in Nat /\ \A i \in 1..n : built[p].cleanup[i] \in Seq(Class)
    BY <1>1, LenProperties, ElementOfSeq
  <2>2. \A i \in 1..n : <<p>> \o built[p].cleanup[i] \in Seq(Class)
    BY <2>1, ConcatProperties
  <2>3. inPart(p) \in [1..n -> Seq(Class)]
    BY <2>1, <2>2
  <2> HIDE DEF inPart, n
  <2> QED
    BY <2>1, <2>3
<1>4. parts \in Seq(Seq(Seq(Class)))
  <2>1. /\ DOMAIN built[c].parts = 1..Len(built[c].parts) /\ Len(built[c].parts) \in Nat
        /\ \A i \in DOMAIN built[c].parts : built[c].parts[i] \in Class
    BY <1>1, LenProperties, ElementOfSeq
  <2> HIDE DEF inPart
  <2>2. parts \in [1..Len(built[c].parts) -> Seq(Seq(Class))]
    BY <1>3, <2>1
  <2> QED
    BY <2>1, <2>2
<1>5. FlattenSeq(parts) \in Seq(Seq(Class))
  <2> HIDE DEF parts
  <2> QED
    BY <1>4, FlattenType
<1>6. own \o FlattenSeq(parts) \in Seq(Seq(Class))
  <2> HIDE DEF own, parts
  <2> QED
    BY <1>2, <1>5, ConcatProperties
<1> QED
  BY <1>6 DEF Chain

\* The parts the bases hand down.
HandedParts(c) == FlattenSeq([i \in DOMAIN Bases(c) |-> built[Bases(c)[i]].parts])

\* Whose lifecycle a class takes over.
Source(c) == IF View(c) THEN Bases(c)[1] ELSE c

\* A class with what its bases hand down, field by field.
LEMMA MergedType ==
  ASSUME Shape, NEW c \in Class
  PROVE  /\ Merged(c) \in Built /\ HandedParts(c) \in Seq(Class) /\ Source(c) \in Class
         /\ Merged(c).acquire = built[Source(c)].acquire /\ Merged(c).release = built[Source(c)].release
         /\ Merged(c).parts = built[c].parts \o HandedParts(c)
         /\ Merged(c).layered = (Layered(c) \/ Len(built[Source(c)].acquire) > 1)
         /\ Merged(c).own = ((Layered(c) /\ OwnLayered(c)) \/ Len(built[Source(c)].acquire) > 1)
<1> DEFINE below == [i \in DOMAIN Bases(c) |-> built[Bases(c)[i]]]
<1>1. /\ Bases(c) \in Seq(Class) /\ \A i \in DOMAIN Bases(c) : Bases(c)[i] \in Class
      /\ DOMAIN Bases(c) = 1..Len(Bases(c))
  BY SourceType DEF Shape
<1>2. \A i \in DOMAIN below : below[i] \in Built
  BY <1>1 DEF Shape
<1>3. HandedParts(c) \in Seq(Class)
  <2> DEFINE f == [x \in Class |-> built[x].parts]
  <2>1. \A x \in Class : f[x] \in Seq(Class)
    BY DEF Shape, Built
  <2>2. FlattenSeq([i \in DOMAIN Bases(c) |-> f[Bases(c)[i]]]) \in Seq(Class)
    <3> HIDE DEF f
    <3> QED
      BY <1>1, <2>1, RowsType
  <2>3. [i \in DOMAIN Bases(c) |-> f[Bases(c)[i]]] = [i \in DOMAIN Bases(c) |-> built[Bases(c)[i]].parts]
    BY <1>1
  <2> QED
    BY <2>2, <2>3 DEF HandedParts
<1>4. [i \in DOMAIN below |-> below[i].parts] = [i \in DOMAIN Bases(c) |-> built[Bases(c)[i]].parts]
  OBVIOUS
<1>5. Source(c) \in Class
  BY <1>1 DEF View, Source
<1>6. built[c] \in Built /\ built[Source(c)] \in Built
  BY <1>5 DEF Shape
<1>7. /\ UNION {below[i].ops : i \in DOMAIN below} \subseteq Name
      /\ UNION {below[i].slots : i \in DOMAIN below} \subseteq Name
  BY <1>2 DEF Built
<1> DEFINE of == built[Source(c)]
           several == Len(of.acquire) > 1
           ops == built[c].ops \cup UNION {below[i].ops : i \in DOMAIN below}
           slots == built[c].slots \cup UNION {below[i].slots : i \in DOMAIN below}
           parts == built[c].parts \o HandedParts(c)
           layered == Layered(c) \/ several
           own == (Layered(c) /\ OwnLayered(c)) \/ several
<1>8. Merged(c) = [built[c] EXCEPT !.acquire = of.acquire, !.release = of.release, !.ops = ops,
                                   !.slots = slots, !.parts = parts, !.layered = layered, !.own = own]
  <2>1. Merged(c) = [built[c] EXCEPT !.acquire = of.acquire, !.release = of.release, !.ops = ops, !.slots = slots,
                       !.parts = built[c].parts \o FlattenSeq([i \in DOMAIN below |-> below[i].parts]),
                       !.layered = layered, !.own = own]
    BY Zenon DEF Merged, Source
  <2> QED
    BY <1>4, <2>1, Zenon DEF HandedParts
<1>9. of.acquire \in Seq(Call) /\ of.release \in Seq(Class)
  BY <1>6 DEF Built
<1>10. layered \in BOOLEAN /\ own \in BOOLEAN
  OBVIOUS
<1>11. ops \in SUBSET Name /\ slots \in SUBSET Name
  BY <1>6, <1>7 DEF Built
<1>12. parts \in Seq(Class)
  <2>1. built[c].parts \in Seq(Class)
    BY <1>6 DEF Built
  <2> QED
    BY <1>3, <2>1, ConcatProperties
<1>13. /\ Merged(c) \in Built /\ Merged(c).acquire = of.acquire /\ Merged(c).release = of.release
       /\ Merged(c).parts = parts /\ Merged(c).layered = layered /\ Merged(c).own = own
  <2> HIDE DEF of, several, ops, slots, parts, layered, own
  <2> QED
    BY <1>6, <1>8, <1>9, <1>10, <1>11, <1>12, ZenonT(60) DEF Built
<1> QED
  BY <1>3, <1>5, <1>13, Zenon

\* Every base has layers.
LEMMA LayersOfType ==
  ASSUME Shape, NEW c \in Class
  PROVE  LayersOf(c) \in Seq(Floor) /\ LayersOf(c) # <<>>
<1>1. built[c] \in Built
  BY DEF Shape
<1>2. Layer(built[c].acquire, built[c].cleanup) \in Floor
  BY <1>1 DEF Layer, Floor, Built
<1> QED
  BY <1>1, <1>2 DEF LayersOf, Built

\* The layers of the bases are floors.
LEMMA BaseLayersType ==
  ASSUME Shape, NEW c \in Class
  PROVE  /\ [i \in DOMAIN Bases(c) |-> LayersOf(Bases(c)[i])] \in Seq(Seq(Floor))
         /\ BaseLayers(c) \in Seq(Floor)
<1> DEFINE f == [x \in Class |-> LayersOf(x)]
<1>1. Bases(c) \in Seq(Class) /\ \A i \in DOMAIN Bases(c) : Bases(c)[i] \in Class
  BY SourceType DEF Shape
<1>2. \A x \in Class : f[x] \in Seq(Floor)
  BY LayersOfType
<1>3. [i \in DOMAIN Bases(c) |-> f[Bases(c)[i]]] = [i \in DOMAIN Bases(c) |-> LayersOf(Bases(c)[i])]
  BY <1>1
<1> HIDE DEF f
<1>4. /\ [i \in DOMAIN Bases(c) |-> f[Bases(c)[i]]] \in Seq(Seq(Floor))
      /\ FlattenSeq([i \in DOMAIN Bases(c) |-> f[Bases(c)[i]]]) \in Seq(Floor)
  BY <1>1, <1>2, RowsType
<1> QED
  BY <1>3, <1>4, Zenon DEF BaseLayers

\* So are those of the class itself,
LEMMA OwnLayersType ==
  ASSUME Shape, NEW c \in Class
  PROVE  OwnLayers(c) \in Seq(Floor)
<1>1. Chain(c) \in Seq(Seq(Class)) /\ built[c].acquire \in Seq(Call)
  BY ChainType DEF Shape, Built
<1> DEFINE n == Len(built[c].acquire)
           floor(i) == Layer(<<built[c].acquire[i]>>, IF built[c].acquire[i].marked THEN Chain(c) ELSE <<>>)
<1>2. DOMAIN built[c].acquire = 1..n /\ n \in Nat /\ \A i \in 1..n : built[c].acquire[i] \in Call
  BY <1>1, LenProperties, ElementOfSeq
<1>3. \A i \in 1..n : floor(i) \in Floor
  BY <1>1, <1>2 DEF Layer, Floor
<1>4. [i \in 1..n |-> floor(i)] \in Seq(Floor)
  <2> HIDE DEF floor, n
  <2>1. [i \in 1..n |-> floor(i)] \in [1..n -> Floor]
    BY <1>3
  <2> QED
    BY <1>2, <2>1
<1>5. Layer(built[c].acquire, Chain(c)) \in Floor
  BY <1>1 DEF Layer, Floor
<1> QED
  BY <1>2, <1>4, <1>5 DEF OwnLayers

\* and all of them together.
LEMMA LayersForType ==
  ASSUME Shape, NEW c \in Class
  PROVE  LayersFor(c) \in Seq(Floor)
<1>1. BaseLayers(c) \in Seq(Floor) /\ OwnLayers(c) \in Seq(Floor)
  BY BaseLayersType, OwnLayersType
<1>2. BaseLayers(c) \o OwnLayers(c) \in Seq(Floor) /\ <<>> \in Seq(Floor)
  BY <1>1, ConcatProperties, EmptySeq
<1> QED
  BY <1>2, Zenon DEF LayersFor

\* What the tower releases is a sequence of things.
LEMMA UnwindingType ==
  ASSUME NEW layers \in Seq(Floor)
  PROVE  Unwinding(layers) \in Seq(Seq(Class))
<1> DEFINE rows == [i \in DOMAIN layers |-> layers[i].cleanup]
<1>1. /\ DOMAIN layers = 1..Len(layers) /\ Len(layers) \in Nat
      /\ \A i \in 1..Len(layers) : layers[i] \in Floor
  BY LenProperties, ElementOfSeq
<1>2. rows \in [1..Len(layers) -> Seq(Seq(Class))]
  BY <1>1 DEF Floor
<1>3. rows \in Seq(Seq(Seq(Class)))
  BY <1>1, <1>2
<1> HIDE DEF rows
<1>4. Reverse(rows) \in Seq(Seq(Seq(Class)))
  BY <1>3, ReversedType
<1> QED
  BY <1>4, FlattenType DEF Unwinding, rows

-----------------------------------------------------------------------------
(* What is reached from a class, whatever the steps E are.                 *)

\* What is reached from a class by the edges E.
Closure(c, E) ==
  {d \in Class : \A s \in SUBSET Class : (c \in s /\ \A x \in s : E[x] \subseteq s) => d \in s}

\* A class reaches itself.
LEMMA ClosureSelf ==
  ASSUME NEW c \in Class, NEW E
  PROVE  c \in Closure(c, E) /\ Closure(c, E) \subseteq Class
BY DEF Closure

\* An edge from what is reached leads to what is reached.
LEMMA ClosureStep ==
  ASSUME NEW c \in Class, NEW E \in [Class -> SUBSET Class], NEW d \in Closure(c, E), NEW e \in E[d]
  PROVE  e \in Closure(c, E)
BY DEF Closure

\* It is the least set that is closed.
LEMMA ClosureLeast ==
  ASSUME NEW c \in Class, NEW E, NEW s \in SUBSET Class, c \in s, \A x \in s : E[x] \subseteq s
  PROVE  Closure(c, E) \subseteq s
BY DEF Closure

\* What is reached from there on is reached.
LEMMA ClosureOfMember ==
  ASSUME NEW c \in Class, NEW E \in [Class -> SUBSET Class], NEW d \in Closure(c, E)
  PROVE  Closure(d, E) \subseteq Closure(c, E)
<1>1. d \in Class /\ Closure(c, E) \in SUBSET Class
  BY ClosureSelf
<1>2. \A x \in Closure(c, E) : E[x] \subseteq Closure(c, E)
  BY ClosureStep
<1> QED
  BY <1>1, <1>2, ClosureLeast

\* All but the first is reached by a last step.
LEMMA ClosureParent ==
  ASSUME NEW c \in Class, NEW E \in [Class -> SUBSET Class], NEW d \in Closure(c, E), d # c
  PROVE  \E x \in Closure(c, E) : d \in E[x]
<1> SUFFICES ASSUME \A x \in Closure(c, E) : d \notin E[x] PROVE FALSE
  OBVIOUS
<1> DEFINE s == Closure(c, E) \ {d}
<1>1. s \in SUBSET Class /\ c \in s
  BY ClosureSelf
<1>2. \A x \in s : E[x] \subseteq s
  BY ClosureStep
<1>3. Closure(c, E) \subseteq s
  <2> HIDE DEF s
  <2> QED
    BY <1>1, <1>2, ClosureLeast
<1> QED
  BY <1>3

\* All but the first is reached through a first step.
LEMMA ClosureChild ==
  ASSUME NEW c \in Class, NEW E \in [Class -> SUBSET Class], NEW d \in Closure(c, E), d # c
  PROVE  \E x \in E[c] : d \in Closure(x, E)
<1> DEFINE s == {c} \cup UNION {Closure(x, E) : x \in E[c]}
<1>1. s \in SUBSET Class /\ c \in s
  BY ClosureSelf
<1>2. ASSUME NEW x \in s, NEW y \in E[x] PROVE y \in s
  <2>1. CASE x = c
    <3>1. y \in Closure(y, E)
      BY <1>2, <2>1, ClosureSelf
    <3> QED
      BY <1>2, <2>1, <3>1
  <2>2. CASE x # c
    <3>1. PICK z \in E[c] : x \in Closure(z, E)
      BY <2>2
    <3>2. z \in Class
      OBVIOUS
    <3>3. y \in Closure(z, E)
      BY <1>2, <3>1, <3>2, ClosureStep
    <3> QED
      BY <3>1, <3>3
  <2> QED
    BY <2>1, <2>2
<1>3. Closure(c, E) \subseteq s
  <2> HIDE DEF s
  <2> QED
    BY <1>1, <1>2, ClosureLeast
<1> QED
  BY <1>3

\* Where the steps are among the steps F, what is reached is, too.
LEMMA ClosureGrows ==
  ASSUME NEW c \in Class, NEW E \in [Class -> SUBSET Class], NEW F \in [Class -> SUBSET Class],
         \A x \in Closure(c, E) : E[x] \subseteq F[x]
  PROVE  Closure(c, E) \subseteq Closure(c, F)
<1> DEFINE s == Closure(c, E) \cap Closure(c, F)
<1>1. s \in SUBSET Class /\ c \in s
  BY ClosureSelf
<1>2. \A x \in s : E[x] \subseteq s
  <2> SUFFICES ASSUME NEW x \in s, NEW y \in E[x] PROVE y \in s
    OBVIOUS
  <2>1. y \in Closure(c, E)
    BY ClosureStep
  <2>2. y \in Closure(c, F)
    BY ClosureStep
  <2> QED
    BY <2>1, <2>2
<1>3. Closure(c, E) \subseteq s
  <2> HIDE DEF s
  <2> QED
    BY <1>1, <1>2, ClosureLeast
<1> QED
  BY <1>3

\* The steps of elaborate_classes: to the bases, and to the parts as well.
Extension == [x \in Class |-> Range(Bases(x))]

\* What a class is composed of by now.
Edges(x) == Range(Bases(x)) \cup Range(built[x].parts)
Composition == [x \in Class |-> Edges(x)]

\* Both relations are over the classes of the program.
LEMMA StepsType ==
  ASSUME Shape
  PROVE  /\ Extension \in [Class -> SUBSET Class]
         /\ Composition \in [Class -> SUBSET Class]
         /\ \A x \in Class : Range(built[x].parts) \subseteq Class
<1>1. \A x \in Class : Range(Bases(x)) \subseteq Class
  BY SourceType DEF Shape
<1>2. \A x \in Class : Range(built[x].parts) \subseteq Class
  <2> SUFFICES ASSUME NEW x \in Class, NEW i \in DOMAIN built[x].parts PROVE built[x].parts[i] \in Class
    BY DEF Range
  <2>1. built[x].parts \in Seq(Class)
    BY DEF Shape, Built
  <2> QED
    BY <2>1, LenProperties, ElementOfSeq
<1> QED
  BY <1>1, <1>2 DEF Extension, Composition, Edges

\* The family of a class is what it reaches by extension.
LEMMA FamilyClosure ==
  ASSUME NEW c \in Class
  PROVE  Family(c) = Closure(c, Extension)
<1>1. \A s \in SUBSET Class : (\A x \in s : Extension[x] \subseteq s) <=> (\A x \in s : Range(Bases(x)) \subseteq s)
  BY DEF Extension
<1> QED
  BY <1>1 DEF Family, Reached, Closure

\* A class that is composed of itself.
Cyclic == \E c \in Class : \E d \in Edges(c) : c \in Closure(d, Composition)

\* CyclesAreNamed, said of the closures.
LEMMA CyclicMeans ==
  ASSUME Shape
  PROVE  CyclesAreNamed <=> /\ phase = "cyclic" => Cyclic
                            /\ phase = "elaborated" => ~Cyclic
<1> DEFINE next(x) == Range(Bases(x)) \cup Range(built[x].parts)
<1>1. ASSUME NEW d \in Class PROVE Reached(d, next) = Closure(d, Composition)
  <2>1. \A s \in SUBSET Class : (\A x \in s : Composition[x] \subseteq s) <=> (\A x \in s : next(x) \subseteq s)
    BY DEF Composition, Edges
  <2> QED
    BY <2>1 DEF Reached, Closure
<1>2. \A c \in Class : next(c) = Edges(c) /\ Edges(c) \subseteq Class
  BY StepsType DEF Edges, Composition
<1>3. (\E c \in Class : \E d \in next(c) : c \in Reached(d, next)) <=> Cyclic
  BY <1>1, <1>2 DEF Cyclic
<1> QED
  BY <1>3 DEF CyclesAreNamed

-----------------------------------------------------------------------------
(* The stack of calls.                                                     *)

\* What a call still has to see elaborated is what its stage goes through.
Needs(f) == IF f.stage = "bases" THEN Bases(f.class) ELSE built[f.class].parts

\* No class is elaborated within itself, nor again.
Apart ==
  /\ \A i, j \in DOMAIN frames : frames[i].class = frames[j].class => i = j
  /\ \A i \in DOMAIN frames : frames[i].class \notin done

\* What a call has gone past is elaborated.
Past(f) ==
  /\ f.stage = "parts" => Range(Bases(f.class)) \subseteq done
  /\ \A k \in 1..(f.next - 1) : k \in DOMAIN Needs(f) => Needs(f)[k] \in done

\* Every call of elab has waited for what it is past.
Waited == \A i \in DOMAIN frames : Past(frames[i])

\* Each class under way is composed of those above it.
Descends ==
  \A i, j \in DOMAIN frames : i <= j => frames[j].class \in Closure(frames[i].class, Composition)

\* What is elaborated is composed of what is elaborated, never of itself.
Grounded ==
  \A c \in done : /\ Edges(c) \subseteq done
                  /\ \A d \in Edges(c) : c \notin Closure(d, Composition)

\* The phases that end the elaboration.
Verdict ==
  /\ phase = "cyclic" => Cyclic
  /\ phase = "elaborated" => done = Class

\* The invariant of the recursion.
Order == Apart /\ Waited /\ Descends /\ Grounded /\ Verdict

\* The call under way is the last of the stack.
LEMMA TopType ==
  ASSUME Shape, frames # <<>>
  PROVE  /\ Len(frames) \in Nat \ {0} /\ DOMAIN frames = 1..Len(frames)
         /\ Top = frames[Len(frames)] /\ Top \in Frames /\ Top.class \in Class
         /\ Pending = Needs(Top)
         /\ \A i \in 1..Len(frames) : frames[i] \in Frames /\ frames[i].class \in Class
<1>1. frames \in Seq(Frames)
  BY DEF Shape
<1>2. Len(frames) \in Nat \ {0} /\ DOMAIN frames = 1..Len(frames)
  BY <1>1, EmptySeq, LenProperties
<1>3. \A i \in 1..Len(frames) : frames[i] \in Frames
  BY <1>1, ElementOfSeq
<1>4. Top = frames[Len(frames)]
  BY DEF Top, Last
<1>5. Len(frames) \in 1..Len(frames)
  BY <1>2
<1> QED
  BY <1>2, <1>3, <1>4, <1>5 DEF Frames, Pending, Needs

\* The stack with another frame on top.
LEMMA AdvancedType ==
  ASSUME Shape, frames # <<>>, NEW f \in Frames
  PROVE  /\ Advanced(f) \in Seq(Frames) /\ Len(Advanced(f)) = Len(frames)
         /\ DOMAIN Advanced(f) = 1..Len(frames)
         /\ \A i \in 1..Len(frames) : Advanced(f)[i] = IF i = Len(frames) THEN f ELSE frames[i]
<1> DEFINE n == Len(frames)
<1>1. n \in Nat \ {0} /\ frames \in [1..n -> Frames]
  <2>1. frames \in Seq(Frames)
    BY DEF Shape
  <2> QED
    BY <2>1, TopType, LenProperties
<1>2. Advanced(f) = [frames EXCEPT ![n] = f]
  BY DEF Advanced, ReplaceAt
<1> HIDE DEF n
<1>3. Advanced(f) \in [1..n -> Frames]
  BY <1>1, <1>2
<1>4. Advanced(f) \in Seq(Frames) /\ Len(Advanced(f)) = n
  BY <1>1, <1>3
<1> QED
  BY <1>1, <1>2, <1>3, <1>4 DEF n

\* The stack without the frame on top.
LEMMA FrontType ==
  ASSUME Shape, frames # <<>>
  PROVE  /\ Front(frames) \in Seq(Frames) /\ DOMAIN Front(frames) = 1..(Len(frames) - 1)
         /\ \A i \in 1..(Len(frames) - 1) : Front(frames)[i] = frames[i]
<1> DEFINE n == Len(frames) - 1
<1>1. n \in 0..Len(frames) /\ frames \in Seq(Frames)
  BY TopType DEF Shape
<1>2. Front(frames) = SubSeq(frames, 1, n)
  BY DEF Front
<1> HIDE DEF n
<1>3. Front(frames) \in Seq(Frames) /\ Len(Front(frames)) = n /\ \A i \in 1..n : Front(frames)[i] = frames[i]
  BY <1>1, <1>2, SubSeqType
<1>4. DOMAIN Front(frames) = 1..n
  BY <1>3, LenProperties
<1> QED
  BY <1>3, <1>4 DEF n

\* What a call needs is what its class is composed of.
LEMMA NeedsType ==
  ASSUME Shape, NEW f \in Frames
  PROVE  /\ Needs(f) \in Seq(Class) /\ DOMAIN Needs(f) = 1..Len(Needs(f)) /\ Len(Needs(f)) \in Nat
         /\ \A k \in DOMAIN Needs(f) : Needs(f)[k] \in Class /\ Needs(f)[k] \in Edges(f.class)
<1>1. f.class \in Class
  BY DEF Frames
<1>2. Needs(f) \in Seq(Class)
  BY <1>1, SourceType DEF Needs, Shape, Built
<1>3. DOMAIN Needs(f) = 1..Len(Needs(f)) /\ Len(Needs(f)) \in Nat
  BY <1>2, LenProperties
<1>4. \A k \in DOMAIN Needs(f) : Needs(f)[k] \in Class
  BY <1>2, <1>3, ElementOfSeq
<1>5. \A k \in DOMAIN Needs(f) : Needs(f)[k] \in Edges(f.class)
  BY DEF Needs, Edges, Range
<1> QED
  BY <1>2, <1>3, <1>4, <1>5

\* The moves of a frame.
LEMMA FramesMoves ==
  ASSUME NEW f \in Frames
  PROVE  /\ [f EXCEPT !.next = @ + 1] \in Frames
         /\ [f EXCEPT !.next = @ + 1].class = f.class /\ [f EXCEPT !.next = @ + 1].stage = f.stage
         /\ [f EXCEPT !.next = @ + 1].next = f.next + 1
         /\ [f EXCEPT !.stage = "parts", !.next = 1] \in Frames
         /\ [f EXCEPT !.stage = "parts", !.next = 1].class = f.class
         /\ [f EXCEPT !.stage = "parts", !.next = 1].stage = "parts"
         /\ [f EXCEPT !.stage = "parts", !.next = 1].next = 1
<1>1. f.class \in Class /\ f.stage \in {"bases", "parts"} /\ f.next \in Nat \ {0}
  BY DEF Frames
<1>2. f = [class |-> f.class, stage |-> f.stage, next |-> f.next]
  BY DEF Frames
<1>3. [f EXCEPT !.next = @ + 1] = [class |-> f.class, stage |-> f.stage, next |-> f.next + 1]
  BY <1>2
<1>4. [f EXCEPT !.stage = "parts", !.next = 1] = [class |-> f.class, stage |-> "parts", next |-> 1]
  <2>1. ASSUME NEW stage, NEW next
        PROVE  [f EXCEPT !.stage = stage, !.next = next] = [class |-> f.class, stage |-> stage, next |-> next]
    <3> DEFINE g == [f EXCEPT !.stage = stage]
    <3>1. g = [class |-> f.class, stage |-> stage, next |-> f.next]
      BY <1>2
    <3>2. [f EXCEPT !.stage = stage, !.next = next] = [g EXCEPT !.next = next]
      OBVIOUS
    <3> HIDE DEF g
    <3>3. [g EXCEPT !.next = next] = [class |-> f.class, stage |-> stage, next |-> next]
      BY <3>1
    <3> QED
      BY <3>2, <3>3
  <2> QED
    BY <2>1
<1> QED
  BY <1>1, <1>3, <1>4 DEF Frames

\* A class keeps the parts it has when its bases' are added.
LEMMA MergedKeeps ==
  ASSUME Shape, NEW c \in Class
  PROVE  Range(built[c].parts) \subseteq Range(Merged(c).parts)
<1> DEFINE own == built[c].parts
           handed == HandedParts(c)
<1>1. own \in Seq(Class)
  BY DEF Shape, Built
<1>2. handed \in Seq(Class)
  BY MergedType
<1>3. Merged(c).parts = own \o handed
  BY MergedType
<1> HIDE DEF own, handed
<1>4. ASSUME NEW i \in DOMAIN own PROVE own[i] \in Range(own \o handed)
  <2>1. i \in 1..Len(own) /\ Len(own) \in Nat /\ Len(handed) \in Nat
    BY <1>1, <1>2, LenProperties
  <2>2. own \o handed \in Seq(Class) /\ Len(own \o handed) = Len(own) + Len(handed) /\ (own \o handed)[i] = own[i]
    BY <1>1, <1>2, <2>1, ConcatProperties
  <2>3. i \in DOMAIN (own \o handed)
    BY <2>1, <2>2, LenProperties
  <2> QED
    BY <2>2, <2>3 DEF Range
<1> QED
  BY <1>3, <1>4 DEF Range, own

\* Merging touches one class, and adds to what it is composed of.
LEMMA MergeMoves ==
  ASSUME Shape, Merge
  PROVE  /\ frames # <<>> /\ phase = "elaborating" /\ Top.stage = "bases" /\ Top.next > Len(Bases(Top.class))
         /\ source' = source /\ done' = done /\ phase' = phase
         /\ built' = [built EXCEPT ![Top.class] = Merged(Top.class)]
         /\ frames' = Advanced([Top EXCEPT !.stage = "parts", !.next = 1])
         /\ [Top EXCEPT !.stage = "parts", !.next = 1] \in Frames
         /\ \A x \in Class : Bases(x)' = Bases(x)
         /\ \A x \in Class \ {Top.class} : Edges(x)' = Edges(x) /\ built'[x] = built[x]
         /\ built'[Top.class] = Merged(Top.class)
         /\ \A x \in Class : Edges(x) \subseteq Edges(x)'
<1>1. /\ frames # <<>> /\ phase = "elaborating" /\ Top.stage = "bases" /\ Top.next > Len(Bases(Top.class))
      /\ source' = source /\ done' = done /\ phase' = phase
      /\ built' = [built EXCEPT ![Top.class] = Merged(Top.class)]
      /\ frames' = Advanced([Top EXCEPT !.stage = "parts", !.next = 1])
  <2>1. Ready("bases") /\ UNCHANGED <<source, done, phase>>
        /\ built' = [built EXCEPT ![Top.class] = Merged(Top.class)]
        /\ frames' = Advanced([Top EXCEPT !.stage = "parts", !.next = 1])
    BY Zenon DEF Merge
  <2> QED
    BY <2>1 DEF Ready, Pending
<1>2. Top \in Frames /\ Top.class \in Class
  BY <1>1, TopType
<1>3. [Top EXCEPT !.stage = "parts", !.next = 1] \in Frames
  BY <1>2, FramesMoves
<1>4. /\ \A x \in Class \ {Top.class} : built'[x] = built[x]
      /\ built'[Top.class] = Merged(Top.class)
  BY <1>1, <1>2 DEF Shape
<1>5. \A x \in Class : Bases(x)' = Bases(x)
  BY <1>1 DEF Bases
<1>6. \A x \in Class \ {Top.class} : Edges(x)' = Edges(x)
  BY <1>4, <1>5 DEF Edges
<1>7. \A x \in Class : Edges(x) \subseteq Edges(x)'
  <2>1. \A x \in Class : Range(built[x].parts) \subseteq Range(built'[x].parts)
    BY <1>2, <1>4, MergedKeeps
  <2> QED
    BY <1>5, <2>1 DEF Edges
<1> QED
  BY <1>1, <1>3, <1>4, <1>5, <1>6, <1>7

\* A class once its layers are known.
Finished(c) ==
  [built[c] EXCEPT !.layers = LayersFor(c),
                   !.cleanup = IF built[c].layered THEN Unwinding(LayersFor(c)) ELSE Chain(c)]

\* A finished class, field by field.
LEMMA FinishedType ==
  ASSUME Shape, NEW c \in Class
  PROVE  /\ Finished(c) \in Built
         /\ Finished(c).layers = LayersFor(c)
         /\ Finished(c).cleanup = IF built[c].layered THEN Unwinding(LayersFor(c)) ELSE Chain(c)
         /\ Finished(c).parts = built[c].parts /\ Finished(c).acquire = built[c].acquire
         /\ Finished(c).release = built[c].release /\ Finished(c).layered = built[c].layered
         /\ Finished(c).own = built[c].own
<1> DEFINE layers == LayersFor(c)
           cleanup == IF built[c].layered THEN Unwinding(LayersFor(c)) ELSE Chain(c)
<1>1. layers \in Seq(Floor)
  BY LayersForType
<1>2. cleanup \in Seq(Seq(Class))
  BY <1>1, ChainType, UnwindingType
<1>3. built[c] \in Built
  BY DEF Shape
<1>4. Finished(c) = [built[c] EXCEPT !.layers = layers, !.cleanup = cleanup]
  BY DEF Finished
<1> HIDE DEF layers, cleanup
<1>5. Finished(c) \in Built
  BY <1>1, <1>2, <1>3, <1>4 DEF Built
<1>6. /\ Finished(c).layers = layers /\ Finished(c).cleanup = cleanup
      /\ Finished(c).parts = built[c].parts /\ Finished(c).acquire = built[c].acquire
      /\ Finished(c).release = built[c].release /\ Finished(c).layered = built[c].layered
      /\ Finished(c).own = built[c].own
  BY <1>3, <1>4 DEF Built
<1> QED
  BY <1>5, <1>6 DEF layers, cleanup

\* What Finish changes, and what it leaves alone.
LEMMA FinishMoves ==
  ASSUME Shape, Finish
  PROVE  /\ frames # <<>> /\ phase = "elaborating" /\ Top.stage = "parts"
         /\ Top.next > Len(built[Top.class].parts)
         /\ source' = source /\ phase' = phase /\ done' = done \cup {Top.class}
         /\ built' = [built EXCEPT ![Top.class] = Finished(Top.class)]
         /\ frames' = Front(frames)
         /\ \A x \in Class : Bases(x)' = Bases(x) /\ Edges(x)' = Edges(x)
         /\ \A x \in Class \ {Top.class} : built'[x] = built[x]
         /\ built'[Top.class] = Finished(Top.class)
<1>1. /\ frames # <<>> /\ phase = "elaborating" /\ Top.stage = "parts"
      /\ Top.next > Len(built[Top.class].parts)
      /\ source' = source /\ phase' = phase /\ done' = done \cup {Top.class} /\ frames' = Front(frames)
  <2>1. Ready("parts") /\ UNCHANGED <<source, phase>>
        /\ frames' = Front(frames) /\ done' = done \cup {Top.class}
    BY Zenon DEF Finish
  <2> QED
    BY <2>1 DEF Ready, Pending
<1>2. Top.class \in Class
  BY <1>1, TopType
<1>3. built' = [built EXCEPT ![Top.class] = Finished(Top.class)]
  <2> DEFINE c == Top.class
             layers == LayersFor(c)
             cleanup == IF built[c].layered THEN Unwinding(LayersFor(c)) ELSE Chain(c)
  <2>1. built' = [built EXCEPT ![c].layers = layers, ![c].cleanup = cleanup]
    BY Zenon DEF Finish
  <2>2. Finished(c) = [built[c] EXCEPT !.layers = layers, !.cleanup = cleanup]
    BY DEF Finished
  <2>3. c \in Class /\ built \in [Class -> Built]
    BY <1>2 DEF Shape
  <2> HIDE DEF c, layers, cleanup
  <2>4. built' = [built EXCEPT ![c] = Finished(c)]
    BY <2>1, <2>2, <2>3
  <2> QED
    BY <2>4 DEF c
<1>4. /\ \A x \in Class \ {Top.class} : built'[x] = built[x]
      /\ built'[Top.class] = Finished(Top.class)
  BY <1>2, <1>3 DEF Shape
<1>5. \A x \in Class : Bases(x)' = Bases(x)
  BY <1>1 DEF Bases
<1>6. \A x \in Class : Edges(x)' = Edges(x)
  BY <1>2, <1>4, <1>5, FinishedType DEF Edges
<1> QED
  BY <1>1, <1>3, <1>4, <1>5, <1>6

\* The state keeps its shape.
LEMMA ShapeInit ==
  ASSUME Init PROVE Shape
<1>1. \A c \in Class : Bare(c) \in Built
  BY BareType DEF Init
<1> QED
  BY <1>1, EmptySeq DEF Init, Shape

\* Every step keeps the types.
LEMMA ShapeStep ==
  ASSUME Shape, [Next]_vars PROVE Shape'
<1>1. CASE Begin
  <2>1. PICK c \in Class \ done : frames' = <<Frame(c)>>
    BY <1>1 DEF Begin
  <2>2. Frame(c) \in Frames
    BY DEF Frame, Frames
  <2>3. frames' \in Seq(Frames)
    BY <2>1, <2>2
  <2> QED
    BY <1>1, <2>3 DEF Begin, Shape
<1>2. CASE Seen
  <2>1. frames # <<>> /\ frames' = Advanced([Top EXCEPT !.next = @ + 1])
    BY <1>2 DEF Seen, Awaits
  <2>2. [Top EXCEPT !.next = @ + 1] \in Frames
    BY <2>1, TopType, FramesMoves
  <2>3. frames' \in Seq(Frames)
    BY <2>1, <2>2, AdvancedType
  <2> QED
    BY <1>2, <2>3 DEF Seen, Shape
<1>3. CASE Descend
  <2>1. frames # <<>> /\ Top.next \in DOMAIN Pending /\ frames' = Append(frames, Frame(Pending[Top.next]))
    BY <1>3 DEF Descend, Awaits
  <2>2. Frame(Pending[Top.next]) \in Frames
    BY <2>1, TopType, NeedsType DEF Frames, Frame
  <2>3. frames' \in Seq(Frames)
    BY <2>1, <2>2, AppendProperties DEF Shape
  <2> QED
    BY <1>3, <2>3 DEF Descend, Shape
<1>4. CASE FindCycle
  BY <1>4 DEF FindCycle, Shape
<1>5. CASE Merge
  <2>1. frames' \in Seq(Frames)
    BY <1>5, MergeMoves, AdvancedType
  <2>2. built' \in [Class -> Built]
    <3>1. Top.class \in Class /\ Merged(Top.class) \in Built
      BY <1>5, MergeMoves, TopType, MergedType
    <3> QED
      BY <1>5, <3>1, MergeMoves DEF Shape
  <2> QED
    BY <1>5, <2>1, <2>2, MergeMoves DEF Shape
<1>6. CASE Finish
  <2>1. frames' \in Seq(Frames)
    BY <1>6, FinishMoves, FrontType
  <2>2. Top.class \in Class /\ Finished(Top.class) \in Built
    BY <1>6, FinishMoves, TopType, FinishedType
  <2>3. built' \in [Class -> Built]
    BY <1>6, <2>2, FinishMoves DEF Shape
  <2> QED
    BY <1>6, <2>1, <2>2, <2>3, FinishMoves DEF Shape
<1>7. CASE Refuse
  BY <1>7 DEF Refuse, Shape
<1>8. CASE End
  BY <1>8 DEF End, Shape
<1>9. CASE UNCHANGED vars
  BY <1>9 DEF vars, Shape
<1> QED
  BY <1>1, <1>2, <1>3, <1>4, <1>5, <1>6, <1>7, <1>8, <1>9 DEF Next, Elab, Stopped

\* No call of elab is under way and nothing is elaborated.
LEMMA OrderInit ==
  ASSUME Init PROVE Order
BY DEF Init, Order, Apart, Waited, Descends, Grounded, Verdict

\* Nothing moves but the phase.
LEMMA OrderSame ==
  ASSUME Order, UNCHANGED <<source, built, frames, done>>
  PROVE  /\ Apart' /\ Waited' /\ Descends' /\ Grounded'
         /\ Cyclic => Cyclic'
<1>1. Composition' = Composition
  BY DEF Composition, Edges, Bases
<1>2. Apart' /\ Descends'
  BY <1>1 DEF Order, Apart, Descends
<1>3. Waited'
  BY DEF Order, Waited, Past, Needs, Bases
<1>4. Grounded'
  BY <1>1 DEF Order, Grounded, Edges, Bases
<1>5. Cyclic => Cyclic'
  BY <1>1 DEF Cyclic, Edges, Bases
<1> QED
  BY <1>2, <1>3, <1>4, <1>5

\* Only the stack moves.
LEMMA StackMoves ==
  ASSUME Order, UNCHANGED <<source, built, done, phase>>
  PROVE  /\ Composition' = Composition /\ Grounded' /\ Verdict'
         /\ \A f : Past(f)' <=> Past(f)
<1>1. Composition' = Composition
  BY DEF Composition, Edges, Bases
<1>2. Grounded'
  BY <1>1 DEF Order, Grounded, Edges, Bases
<1>3. Verdict'
  BY <1>1 DEF Order, Verdict, Cyclic, Edges, Bases
<1>4. \A f : Past(f)' <=> Past(f)
  BY DEF Past, Needs, Bases
<1> QED
  BY <1>1, <1>2, <1>3, <1>4

\* A stack of one call is in order.
LEMMA OrderBegin ==
  ASSUME Shape, Order, Begin PROVE Order'
<1>1. PICK c \in Class \ done : frames' = <<Frame(c)>>
  BY DEF Begin
<1>2. UNCHANGED <<source, built, done, phase>>
  BY DEF Begin
<1>3. DOMAIN frames' = {1} /\ frames'[1] = Frame(c)
  BY <1>1
<1>4. Apart'
  BY <1>1, <1>2, <1>3 DEF Apart, Frame
<1>5. Waited'
  <2>1. \A i \in DOMAIN frames' : frames'[i].stage = "bases" /\ frames'[i].next = 1
    BY <1>3 DEF Frame
  <2> QED
    BY <2>1 DEF Waited, Past
<1>6. Descends'
  BY <1>3, ClosureSelf DEF Descends, Frame
<1> QED
  BY <1>2, <1>4, <1>5, <1>6, StackMoves DEF Order

\* A call that goes on past what is elaborated stays in order.
LEMMA OrderSeen ==
  ASSUME Shape, Order, Seen PROVE Order'
<1> DEFINE f == [Top EXCEPT !.next = @ + 1]
           n == Len(frames)
<1>1. /\ frames # <<>> /\ Top.next \in DOMAIN Pending /\ Pending[Top.next] \in done
      /\ frames' = Advanced(f)
      /\ UNCHANGED <<source, built, done, phase>>
  BY DEF Seen, Awaits
<1>2. /\ n \in Nat \ {0} /\ DOMAIN frames = 1..n /\ Top = frames[n] /\ Top \in Frames
      /\ Pending = Needs(Top)
  BY <1>1, TopType
<1>3. f \in Frames /\ f.class = Top.class /\ f.stage = Top.stage /\ f.next = Top.next + 1
  BY <1>2, FramesMoves
<1> HIDE DEF f, n
<1>4. /\ DOMAIN frames' = 1..n
      /\ \A i \in 1..n : frames'[i] = IF i = n THEN f ELSE frames[i]
  BY <1>1, <1>3, AdvancedType DEF n
<1>5. \A i \in 1..n : frames'[i].class = frames[i].class
  BY <1>2, <1>3, <1>4
<1>6. Apart'
  BY <1>1, <1>2, <1>4, <1>5 DEF Order, Apart
<1>7. Descends'
  <2>1. Composition' = Composition
    BY <1>1, StackMoves
  <2> QED
    BY <1>2, <1>4, <1>5, <2>1 DEF Order, Descends
<1>8. Past(f)
  <2>1. Past(Top)
    BY <1>2 DEF Order, Waited
  <2>2. Needs(f) = Needs(Top)
    BY <1>3 DEF Needs
  <2>3. ASSUME NEW k \in 1..(f.next - 1), k \in DOMAIN Needs(f) PROVE Needs(f)[k] \in done
    <3>1. k = Top.next \/ k \in 1..(Top.next - 1)
      BY <1>2, <1>3 DEF Frames
    <3> QED
      BY <1>1, <1>2, <2>1, <2>2, <2>3, <3>1 DEF Past
  <2> QED
    BY <1>3, <2>1, <2>3 DEF Past
<1>9. Waited'
  <2>1. \A g : Past(g)' <=> Past(g)
    BY <1>1, StackMoves
  <2>2. \A i \in 1..n : Past(frames[i])
    BY <1>2 DEF Order, Waited
  <2>3. ASSUME NEW i \in 1..n PROVE Past(frames[i])'
    <3>1. CASE i = n
      <4>1. frames'[i] = f
        BY <1>2, <1>4, <3>1
      <4> QED
        BY <1>8, <2>1, <4>1 DEF Past, Needs, Bases
    <3>2. CASE i # n
      <4>1. frames'[i] = frames[i]
        BY <1>4, <3>2
      <4> QED
        BY <2>1, <2>2, <4>1 DEF Past, Needs, Bases
    <3> QED
      BY <3>1, <3>2
  <2> QED
    BY <1>4, <2>3 DEF Waited
<1> QED
  BY <1>1, <1>6, <1>7, <1>9, StackMoves DEF Order

\* A call that is entered is for a class that is not under way.
LEMMA OrderDescend ==
  ASSUME Shape, Order, Descend PROVE Order'
<1> DEFINE d == Pending[Top.next]
           n == Len(frames)
<1>1. /\ frames # <<>> /\ Top.next \in DOMAIN Pending /\ d \notin done \cup Visiting
      /\ frames' = Append(frames, Frame(d))
      /\ UNCHANGED <<source, built, done, phase>>
  BY DEF Descend, Awaits
<1>2. /\ n \in Nat \ {0} /\ DOMAIN frames = 1..n /\ Top = frames[n] /\ Top \in Frames
      /\ Pending = Needs(Top) /\ frames \in Seq(Frames) /\ Top.class \in Class
      /\ \A i \in 1..n : frames[i].class \in Class
  BY <1>1, TopType DEF Shape
<1>3. d \in Class /\ d \in Edges(Top.class)
  BY <1>1, <1>2, NeedsType
<1> HIDE DEF d, n
<1>4. /\ DOMAIN frames' = 1..(n + 1) /\ frames'[n + 1] = Frame(d)
      /\ \A i \in 1..n : frames'[i] = frames[i]
  <2>1. Frame(d) \in Frames
    BY <1>3 DEF Frame, Frames
  <2> QED
    BY <1>1, <1>2, <2>1, AppendProperties DEF n
<1>5. Composition' = Composition
  BY <1>1, StackMoves
<1>6. \A i \in 1..n : frames[i].class # d
  BY <1>1, <1>2 DEF Visiting
<1>7. Frame(d).class = d /\ Frame(d).stage = "bases" /\ Frame(d).next = 1
  BY DEF Frame
<1>8. \A i \in 1..(n + 1) : i = n + 1 \/ i \in 1..n
  BY <1>2
<1>9. Apart'
  BY <1>1, <1>2, <1>4, <1>6, <1>7, <1>8 DEF Order, Apart
<1>10. Descends'
  <2>1. ASSUME NEW i \in 1..n PROVE d \in Closure(frames[i].class, Composition)
    <3>1. frames[n].class \in Closure(frames[i].class, Composition)
      BY <1>2 DEF Order, Descends
    <3>2. d \in Composition[Top.class]
      BY <1>2, <1>3 DEF Composition
    <3>3. Composition \in [Class -> SUBSET Class]
      BY StepsType
    <3> QED
      BY <1>2, <3>1, <3>2, <3>3, ClosureStep
  <2>2. d \in Closure(d, Composition)
    BY <1>3, ClosureSelf
  <2>3. \A i, j \in 1..n : i <= j => frames[j].class \in Closure(frames[i].class, Composition)
    BY <1>2 DEF Order, Descends
  <2> QED
    BY <1>2, <1>4, <1>5, <1>7, <1>8, <2>1, <2>2, <2>3 DEF Descends
<1>11. Waited'
  <2>1. \A g : Past(g)' <=> Past(g)
    BY <1>1, StackMoves
  <2>2. \A i \in 1..n : Past(frames[i])
    BY <1>2 DEF Order, Waited
  <2>3. Past(Frame(d))
    BY <1>7 DEF Past
  <2>4. ASSUME NEW i \in 1..(n + 1) PROVE Past(frames[i])'
    <3>1. CASE i = n + 1
      <4>1. frames'[i] = Frame(d)
        BY <1>4, <3>1
      <4> QED
        BY <2>1, <2>3, <4>1 DEF Past, Needs, Bases
    <3>2. CASE i \in 1..n
      <4>1. frames'[i] = frames[i]
        BY <1>4, <3>2
      <4> QED
        BY <2>1, <2>2, <3>2, <4>1 DEF Past, Needs, Bases
    <3> QED
      BY <1>8, <3>1, <3>2
  <2> QED
    BY <1>4, <2>4 DEF Waited
<1> QED
  BY <1>1, <1>9, <1>10, <1>11, StackMoves DEF Order

\* The class below in the stack is composed of the one above: a cycle.
LEMMA OrderFindCycle ==
  ASSUME Shape, Order, FindCycle PROVE Order'
<1>1. /\ frames # <<>> /\ Top.next \in DOMAIN Pending /\ Pending[Top.next] \in Visiting
      /\ phase' = "cyclic" /\ UNCHANGED <<source, built, frames, done>>
  BY DEF FindCycle, Awaits
<1>2. PICK i \in DOMAIN frames : Pending[Top.next] = frames[i].class
  BY <1>1 DEF Visiting
<1>3. Cyclic
  <2>1. /\ i \in 1..Len(frames) /\ Len(frames) \in DOMAIN frames /\ i <= Len(frames)
        /\ Top = frames[Len(frames)] /\ Top \in Frames /\ Top.class \in Class /\ Pending = Needs(Top)
    BY <1>1, <1>2, TopType
  <2>2. frames[i].class \in Edges(Top.class)
    BY <1>1, <1>2, <2>1, NeedsType
  <2>3. Top.class \in Closure(frames[i].class, Composition)
    BY <1>2, <2>1 DEF Order, Descends
  <2> QED
    BY <2>1, <2>2, <2>3 DEF Cyclic
<1> QED
  BY <1>1, <1>3, OrderSame DEF Order, Verdict

\* Of the elaborated nothing is reached by other steps than before, where
\* their own stay as they are.
LEMMA GroundedClosure ==
  ASSUME NEW E \in [Class -> SUBSET Class], NEW F \in [Class -> SUBSET Class],
         NEW s \in SUBSET Class, \A x \in s : F[x] = E[x] /\ E[x] \subseteq s, NEW d \in s
  PROVE  Closure(d, F) = Closure(d, E) /\ Closure(d, E) \subseteq s
<1>1. Closure(d, E) \subseteq s /\ Closure(d, F) \subseteq s
  BY ClosureLeast
<1>2. Closure(d, E) \subseteq Closure(d, F)
  BY <1>1, ClosureGrows
<1>3. Closure(d, F) \subseteq Closure(d, E)
  BY <1>1, ClosureGrows
<1> QED
  BY <1>1, <1>2, <1>3

\* The relation after a step is over the classes, too.
LEMMA StepsTypeLater ==
  ASSUME Shape'
  PROVE  Composition' \in [Class -> SUBSET Class]
<1>1. ASSUME NEW x \in Class PROVE (Range(Bases(x)) \subseteq Class /\ Range(built[x].parts) \subseteq Class)'
  <2>1. source'[x] \in Written
    BY SourcesAssumption DEF Shape
  <2>2. source'[x].bases \in Seq(Class)
    BY <2>1 DEF Written
  <2>3. built'[x].parts \in Seq(Class)
    BY DEF Shape, Built
  <2>4. /\ \A i \in DOMAIN source'[x].bases : source'[x].bases[i] \in Class
        /\ \A i \in DOMAIN built'[x].parts : built'[x].parts[i] \in Class
    BY <2>2, <2>3, LenProperties, ElementOfSeq
  <2> QED
    BY <2>4 DEF Bases, Range
<1> QED
  BY <1>1 DEF Composition, Edges

\* A class is merged when its bases are elaborated.
LEMMA MergeWaited ==
  ASSUME Shape, Order, Merge
  PROVE  Range(Bases(Top.class)) \subseteq done
<1> DEFINE n == Len(frames)
           c == Top.class
<1>1. frames # <<>> /\ Top.stage = "bases" /\ Top.next > Len(Bases(c))
  BY MergeMoves
<1>2. n \in Nat \ {0} /\ DOMAIN frames = 1..n /\ Top = frames[n] /\ Top \in Frames /\ c \in Class
  BY <1>1, TopType
<1> SUFFICES ASSUME NEW k \in DOMAIN Bases(c) PROVE Bases(c)[k] \in done
  BY DEF Range
<1>3. Needs(Top) = Bases(c)
  BY <1>1 DEF Needs
<1>4. k \in 1..(Top.next - 1)
  <2>1. k \in 1..Len(Bases(c)) /\ Len(Bases(c)) \in Nat
    BY <1>2, SourceType DEF Shape
  <2> QED
    BY <1>1, <1>2, <2>1 DEF Frames
<1>5. Past(Top)
  BY <1>2 DEF Order, Waited
<1> QED
  BY <1>3, <1>4, <1>5 DEF Past

\* Merging adds parts: more is reached, and nothing elaborated is changed.
LEMMA OrderMerge ==
  ASSUME Shape, Order, Merge PROVE Order'
<1> DEFINE f == [Top EXCEPT !.stage = "parts", !.next = 1]
           n == Len(frames)
           c == Top.class
<1>1. /\ frames # <<>> /\ phase = "elaborating" /\ Top.stage = "bases" /\ Top.next > Len(Bases(c))
      /\ source' = source /\ done' = done /\ phase' = phase
      /\ frames' = Advanced(f)
      /\ \A x \in Class : Bases(x)' = Bases(x)
      /\ \A x \in Class \ {c} : Edges(x)' = Edges(x) /\ built'[x] = built[x]
      /\ \A x \in Class : Edges(x) \subseteq Edges(x)'
  BY MergeMoves
<1>2. /\ n \in Nat \ {0} /\ DOMAIN frames = 1..n /\ Top = frames[n] /\ Top \in Frames
      /\ c \in Class /\ Pending = Needs(Top)
      /\ \A i \in 1..n : frames[i] \in Frames /\ frames[i].class \in Class
  BY <1>1, TopType
<1>3. f \in Frames /\ f.class = c /\ f.stage = "parts" /\ f.next = 1
  BY <1>2, FramesMoves
<1>4. Shape'
  BY ShapeStep DEF Next, Elab
<1>5. Composition \in [Class -> SUBSET Class] /\ Composition' \in [Class -> SUBSET Class]
  BY <1>4, StepsType, StepsTypeLater
<1>6. \A x \in Class : Composition[x] \subseteq Composition'[x]
  BY <1>1 DEF Composition
<1>7. c \notin done
  BY <1>2 DEF Order, Apart
<1>8. done \subseteq Class
  BY DEF Shape
<1> HIDE DEF f, n, c
<1>9. /\ DOMAIN frames' = 1..n
      /\ \A i \in 1..n : frames'[i] = IF i = n THEN f ELSE frames[i]
  BY <1>1, <1>3, AdvancedType DEF n
<1>10. \A i \in 1..n : frames'[i].class = frames[i].class
  BY <1>2, <1>3, <1>9 DEF c
<1>11. Apart'
  BY <1>1, <1>2, <1>9, <1>10 DEF Order, Apart
<1>12. Descends'
  <2>1. \A i, j \in 1..n : i <= j => frames[j].class \in Closure(frames[i].class, Composition)
    BY <1>2 DEF Order, Descends
  <2>2. \A i \in 1..n : Closure(frames[i].class, Composition) \subseteq Closure(frames[i].class, Composition')
    <3> SUFFICES ASSUME NEW i \in 1..n
                 PROVE  Closure(frames[i].class, Composition) \subseteq Closure(frames[i].class, Composition')
      OBVIOUS
    <3>1. frames[i].class \in Class
      BY <1>2
    <3>2. \A x \in Closure(frames[i].class, Composition) : Composition[x] \subseteq Composition'[x]
      BY <1>6, <3>1, ClosureSelf
    <3> QED
      BY <1>5, <3>1, <3>2, ClosureGrows
  <2> QED
    BY <1>9, <1>10, <2>1, <2>2 DEF Descends
<1>13. Grounded'
  <2>1. \A x \in done : Composition'[x] = Composition[x] /\ Composition[x] \subseteq done
    BY <1>1, <1>7, <1>8 DEF Order, Grounded, Composition
  <2>2. \A d \in done : Closure(d, Composition') = Closure(d, Composition)
    BY <1>5, <1>8, <2>1, GroundedClosure
  <2>3. \A x \in done : Edges(x)' = Edges(x)
    BY <1>1, <1>7, <1>8
  <2> QED
    BY <1>1, <2>2, <2>3 DEF Order, Grounded
<1>14. Waited'
  <2>1. \A i \in 1..n : Past(frames[i])
    BY <1>2 DEF Order, Waited
  <2>2. Range(Bases(c)) \subseteq done
    BY MergeWaited DEF c
  <2>3. ASSUME NEW i \in 1..n PROVE Past(frames[i])'
    <3>1. CASE i = n
      <4>1. frames'[i] = f
        BY <1>2, <1>9, <3>1
      <4> QED
        BY <1>1, <1>3, <2>2, <4>1 DEF Past, Bases
    <3>2. CASE i # n
      <4>1. frames'[i] = frames[i] /\ frames[i].class \in Class \ {c}
        BY <1>2, <1>9, <3>2 DEF Order, Apart, c
      <4>2. built'[frames[i].class] = built[frames[i].class]
        BY <1>1, <4>1
      <4> QED
        BY <1>1, <2>1, <4>1, <4>2 DEF Past, Needs, Bases
    <3> QED
      BY <3>1, <3>2
  <2> QED
    BY <1>9, <2>3 DEF Waited
<1>15. Verdict'
  BY <1>1 DEF Verdict
<1> QED
  BY <1>11, <1>12, <1>13, <1>14, <1>15 DEF Order

\* A class is finished when its bases and its parts are elaborated.
LEMMA FinishWaited ==
  ASSUME Shape, Order, Finish
  PROVE  Edges(Top.class) \subseteq done
<1> DEFINE n == Len(frames)
           c == Top.class
<1>1. frames # <<>> /\ Top.stage = "parts" /\ Top.next > Len(built[c].parts)
  BY FinishMoves
<1>2. n \in Nat \ {0} /\ DOMAIN frames = 1..n /\ Top = frames[n] /\ Top \in Frames /\ c \in Class
  BY <1>1, TopType
<1>3. Past(Top) /\ Needs(Top) = built[c].parts
  BY <1>1, <1>2 DEF Order, Waited, Needs
<1>4. Range(Bases(c)) \subseteq done
  BY <1>1, <1>3 DEF Past
<1>5. ASSUME NEW k \in DOMAIN built[c].parts PROVE built[c].parts[k] \in done
  <2>1. k \in 1..Len(built[c].parts) /\ Len(built[c].parts) \in Nat
    <3>1. built[c].parts \in Seq(Class)
      BY <1>2 DEF Shape, Built
    <3> QED
      BY <3>1, LenProperties
  <2>2. k \in 1..(Top.next - 1)
    BY <1>1, <1>2, <2>1 DEF Frames
  <2> QED
    BY <1>3, <2>2 DEF Past
<1> QED
  BY <1>4, <1>5 DEF Edges, Range

\* A class is finished when all it is composed of is elaborated.
LEMMA OrderFinish ==
  ASSUME Shape, Order, Finish PROVE Order'
<1> DEFINE n == Len(frames)
           c == Top.class
<1>1. /\ frames # <<>> /\ phase = "elaborating" /\ Top.stage = "parts" /\ Top.next > Len(built[c].parts)
      /\ source' = source /\ done' = done \cup {c} /\ phase' = phase /\ frames' = Front(frames)
      /\ built' = [built EXCEPT ![c] = Finished(c)]
      /\ \A x \in Class : Bases(x)' = Bases(x) /\ Edges(x)' = Edges(x)
      /\ \A x \in Class \ {c} : built'[x] = built[x]
  BY FinishMoves
<1>2. /\ n \in Nat \ {0} /\ DOMAIN frames = 1..n /\ Top = frames[n] /\ Top \in Frames /\ c \in Class
      /\ \A i \in 1..n : frames[i] \in Frames /\ frames[i].class \in Class
  BY <1>1, TopType
<1>3. DOMAIN frames' = 1..(n - 1) /\ \A i \in 1..(n - 1) : frames'[i] = frames[i]
  BY <1>1, FrontType
<1>4. Composition' = Composition
  BY <1>1 DEF Composition
<1>5. \A i \in 1..(n - 1) : i \in 1..n /\ i # n
  <2>1. n \in Nat
    BY <1>2
  <2> HIDE DEF n
  <2> QED
    BY <2>1
<1>7. Edges(c) \subseteq done
  BY FinishWaited
<1>8. c \notin done /\ done \subseteq Class
  BY <1>2 DEF Order, Apart, Shape
<1> HIDE DEF n, c
<1>9. Apart'
  <2>1. \A i \in 1..(n - 1) : frames[i].class # c /\ frames[i].class \notin done
    BY <1>2, <1>5 DEF Order, Apart, c
  <2>2. \A i, j \in 1..(n - 1) : frames[i].class = frames[j].class => i = j
    BY <1>2, <1>5 DEF Order, Apart
  <2> QED
    BY <1>1, <1>3, <2>1, <2>2 DEF Apart
<1>10. Descends'
  <2>1. \A i, j \in 1..(n - 1) : i <= j => frames[j].class \in Closure(frames[i].class, Composition)
    BY <1>2, <1>5 DEF Order, Descends
  <2> QED
    BY <1>3, <1>4, <2>1 DEF Descends
<1>11. Waited'
  <2>1. \A i \in 1..(n - 1) : Past(frames[i]) /\ frames[i].class \in Class \ {c}
    BY <1>2, <1>5 DEF Order, Waited, Apart, c
  <2>2. ASSUME NEW i \in 1..(n - 1) PROVE Past(frames[i])'
    <3>1. frames'[i] = frames[i] /\ built'[frames[i].class] = built[frames[i].class]
      BY <1>1, <1>3, <2>1
    <3> QED
      BY <1>1, <2>1, <3>1 DEF Past, Needs, Bases
  <2> QED
    BY <1>3, <2>2 DEF Waited
<1>12. Grounded'
  <2>1. ASSUME NEW x \in done' PROVE Edges(x) \subseteq done
    BY <1>1, <1>7 DEF Order, Grounded
  <2>2. ASSUME NEW x \in done', NEW d \in Edges(x) PROVE x \notin Closure(d, Composition)
    <3>1. CASE x \in done
      BY <2>2, <3>1 DEF Order, Grounded
    <3>2. CASE x = c
      <4>1. d \in done /\ \A y \in done : Composition[y] \subseteq done
        BY <1>7, <1>8, <2>2, <3>2 DEF Order, Grounded, Composition
      <4>2. Closure(d, Composition) \subseteq done
        BY <1>8, <4>1, ClosureLeast
      <4> QED
        BY <1>8, <3>2, <4>2
    <3> QED
      BY <1>1, <3>1, <3>2
  <2>3. \A x \in done' : Edges(x)' = Edges(x)
    BY <1>1, <1>2, <1>8
  <2> QED
    BY <1>1, <1>4, <2>1, <2>2, <2>3 DEF Grounded
<1>13. Verdict'
  BY <1>1 DEF Verdict
<1> QED
  BY <1>9, <1>10, <1>11, <1>12, <1>13 DEF Order

\* Every step keeps the order.
LEMMA OrderStep ==
  ASSUME Shape, Order, [Next]_vars PROVE Order'
<1>1. CASE Begin
  BY <1>1, OrderBegin
<1>2. CASE Seen
  BY <1>2, OrderSeen
<1>3. CASE Descend
  BY <1>3, OrderDescend
<1>4. CASE FindCycle
  BY <1>4, OrderFindCycle
<1>5. CASE Merge
  BY <1>5, OrderMerge
<1>6. CASE Finish
  BY <1>6, OrderFinish
<1>7. CASE Refuse
  <2>1. UNCHANGED <<source, built, frames, done>> /\ phase' = "refused"
    BY <1>7 DEF Refuse
  <2> QED
    BY <2>1, OrderSame DEF Order, Verdict
<1>8. CASE End
  <2>1. UNCHANGED <<source, built, frames, done>> /\ phase' = "elaborated" /\ done = Class
    BY <1>8 DEF End
  <2> QED
    BY <2>1, OrderSame DEF Order, Verdict
<1>9. CASE UNCHANGED vars
  <2>1. UNCHANGED <<source, built, frames, done>> /\ phase' = phase
    BY <1>9 DEF vars
  <2> QED
    BY <2>1, OrderSame DEF Order, Verdict
<1> QED
  BY <1>1, <1>2, <1>3, <1>4, <1>5, <1>6, <1>7, <1>8, <1>9 DEF Next, Elab, Stopped

\* The recursion of elab (mereoc.py:3538) keeps its stack a path of the
\* composition, waits for what it is past, and leaves what is elaborated free of
\* cycles.
THEOREM Ordered == Spec => [](Shape /\ Order)
<1>1. Init => Shape /\ Order
  BY ShapeInit, OrderInit
<1>2. Shape /\ Order /\ [Next]_vars => Shape' /\ Order'
  BY ShapeStep, OrderStep
<1> QED
  BY <1>1, <1>2, PTL DEF Spec

\* What is elaborated has its family elaborated before it.
LEMMA FamilyDone ==
  ASSUME Shape, Order, NEW c \in done
  PROVE  Family(c) \subseteq done
<1>1. done \in SUBSET Class /\ c \in Class /\ \A x \in done : Extension[x] \subseteq done
  BY DEF Shape, Order, Grounded, Edges, Extension
<1> QED
  BY <1>1, ClosureLeast, FamilyClosure

\* No class is elaborated within itself, and all that an elaborated class is
\* composed of was elaborated before it (mereoc.py:3644).
THEOREM TypeCorrect == Spec => []TypeOK
<1>1. Shape /\ Order => TypeOK
  <2> SUFFICES ASSUME Shape, Order PROVE TypeOK
    OBVIOUS
  <2>1. \A c \in done : Family(c) \subseteq done /\ Range(built[c].parts) \subseteq done
    BY FamilyDone DEF Order, Grounded, Edges
  <2> QED
    BY <2>1 DEF TypeOK, Shape, Order, Apart
<1> QED
  BY <1>1, Ordered, PTL

\* `composition cycle through ...` is said of a class that is composed of
\* itself, and of every set of classes in which there is one (mereoc.py:3648).
THEOREM CyclesNamed == Spec => []CyclesAreNamed
<1>1. Shape /\ Order => CyclesAreNamed
  <2> SUFFICES ASSUME Shape, Order PROVE CyclesAreNamed
    OBVIOUS
  <2>1. phase = "elaborated" => ~Cyclic
    BY DEF Order, Verdict, Grounded, Cyclic
  <2> QED
    BY <2>1, CyclicMeans DEF Order, Verdict
<1> QED
  BY <1>1, Ordered, PTL

-----------------------------------------------------------------------------
(* What the classes are by now.                                            *)

\* The classes that have what their bases hand down.
HavesOf(stage) == {frames[i].class : i \in {j \in DOMAIN frames : frames[j].stage = stage}}

\* The classes that have what their bases hand down.
Haves == done \cup HavesOf("parts")

\* Its lifecycle is its own, or that of the base it is a view of.
Handed(c) ==
  LET of == IF View(c) THEN built[Bases(c)[1]] ELSE Bare(c)
  IN  /\ built[c].acquire = of.acquire /\ built[c].release = of.release
      /\ built[c].layered = (Layered(c) \/ Len(of.acquire) > 1)
      /\ built[c].own = ((Layered(c) /\ OwnLayered(c)) \/ Len(of.acquire) > 1)

\* It is the lifecycle of one class of the family, as that one is written.
Origin(c) ==
  \E x \in Family(c) : built[c].acquire = Bare(x).acquire /\ built[c].release = Bare(x).release

\* Its parts are those of its family, its own among them.
FamilyParts(c) == UNION {Range(source[x].parts) : x \in Family(c)}

\* Its parts are its own and some of its family's.
Parted(c) == /\ Range(source[c].parts) \subseteq Range(built[c].parts)
             /\ Range(built[c].parts) \subseteq FamilyParts(c)

\* The invariant on the classes as they are by now.
Contents ==
  /\ \A c \in Class \ Haves : built[c] = Bare(c)
  /\ \A c \in Haves : Handed(c)
  /\ \A c \in Class : Origin(c) /\ Parted(c)

\* What is read off the text stays as it is.
LEMMA SourceStays ==
  ASSUME source' = source
  PROVE  \A c : /\ Bases(c)' = Bases(c) /\ View(c)' = View(c) /\ Layered(c)' = Layered(c)
                /\ OwnLayered(c)' = OwnLayered(c) /\ Bare(c)' = Bare(c) /\ Family(c)' = Family(c)
<1>1. \A c : Bases(c)' = Bases(c) /\ OwnLayered(c)' = OwnLayered(c)
  BY DEF Bases, OwnLayered
<1>2. \A c : Layered(c)' = Layered(c)
  BY <1>1 DEF Layered
<1>3. \A c : View(c)' = View(c)
  BY <1>1, <1>2 DEF View
<1>4. \A c : Bare(c)' = Bare(c)
  BY DEF Bare, Step
<1>5. \A c : Family(c)' = Family(c)
  BY DEF Family, Reached, Bases
<1> QED
  BY <1>1, <1>2, <1>3, <1>4, <1>5

\* The family of a class is itself and the families of its bases.
LEMMA FamilyOfBase ==
  ASSUME Shape, NEW c \in Class
  PROVE  /\ c \in Family(c) /\ Family(c) \subseteq Class
         /\ \A b \in Range(Bases(c)) : b \in Class /\ Family(b) \subseteq Family(c)
         /\ \A x \in Family(c) : Family(x) \subseteq Family(c)
         /\ \A x \in Family(c) : x = c \/ \E b \in Range(Bases(c)) : x \in Family(b)
<1>1. Extension \in [Class -> SUBSET Class]
  BY StepsType
<1>2. c \in Family(c) /\ Family(c) \subseteq Class
  BY ClosureSelf, FamilyClosure
<1>3. \A x \in Family(c) : Family(x) \subseteq Family(c)
  BY <1>1, <1>2, ClosureOfMember, FamilyClosure
<1>4. \A b \in Range(Bases(c)) : b \in Class /\ b \in Family(c)
  <2> SUFFICES ASSUME NEW b \in Extension[c] PROVE b \in Class /\ b \in Family(c)
    BY DEF Extension
  <2>1. c \in Closure(c, Extension)
    BY ClosureSelf
  <2>2. b \in Closure(c, Extension)
    BY <1>1, <2>1, ClosureStep
  <2> QED
    BY <1>2, <2>2, FamilyClosure
<1>5. ASSUME NEW x \in Family(c), x # c PROVE \E b \in Range(Bases(c)) : x \in Family(b)
  <2>1. PICK b \in Extension[c] : x \in Closure(b, Extension)
    BY <1>1, <1>5, ClosureChild, FamilyClosure
  <2>2. b \in Range(Bases(c)) /\ b \in Class
    BY <1>4, <2>1 DEF Extension
  <2> QED
    BY <2>1, <2>2, FamilyClosure
<1> QED
  BY <1>2, <1>3, <1>4, <1>5

\* A class before its bases are merged into it, field by field.
LEMMA BareFields ==
  ASSUME NEW c
  PROVE  /\ Bare(c).acquire = [i \in 1..source[c].calls |-> Step(c, i)]
         /\ Bare(c).release = (IF source[c].releases THEN <<c>> ELSE <<>>)
         /\ Bare(c).parts = source[c].parts
         /\ Bare(c).layers = <<>> /\ Bare(c).cleanup = <<>>
<1> DEFINE acquire == [i \in 1..source[c].calls |-> Step(c, i)]
           release == IF source[c].releases THEN <<c>> ELSE <<>>
           none == <<>>
<1>1. Bare(c) = [acquire |-> acquire, release |-> release, ops |-> source[c].ops, slots |-> source[c].slots,
                 parts |-> source[c].parts, layered |-> FALSE, own |-> FALSE,
                 layers |-> none, cleanup |-> none]
  BY Zenon DEF Bare
<1> HIDE DEF acquire, release, none
<1>2. /\ Bare(c).acquire = acquire /\ Bare(c).release = release /\ Bare(c).parts = source[c].parts
      /\ Bare(c).layers = none /\ Bare(c).cleanup = none
  BY <1>1
<1> QED
  BY <1>2 DEF acquire, release, none

\* Nothing has been merged.
LEMMA ContentsInit ==
  ASSUME Init PROVE Contents
<1>1. Shape
  BY ShapeInit
<1>2. Haves = {}
  BY DEF Init, Haves, HavesOf
<1>3. \A c \in Class : built[c] = Bare(c)
  BY DEF Init
<1>4. ASSUME NEW c \in Class PROVE Origin(c) /\ Parted(c)
  <2>1. c \in Family(c)
    BY <1>1, FamilyOfBase
  <2>2. built[c].parts = source[c].parts
    BY <1>3, BareFields
  <2> QED
    BY <1>3, <2>1, <2>2 DEF Origin, Parted, FamilyParts
<1> QED
  BY <1>2, <1>3, <1>4 DEF Contents

\* No class moves.
LEMMA ContentsSame ==
  ASSUME Contents, UNCHANGED <<source, built>>, Haves' = Haves
  PROVE  Contents'
<1>1. \A c : /\ Bases(c)' = Bases(c) /\ View(c)' = View(c) /\ Layered(c)' = Layered(c)
             /\ OwnLayered(c)' = OwnLayered(c) /\ Bare(c)' = Bare(c) /\ Family(c)' = Family(c)
  BY SourceStays
<1>2. \A c : Handed(c)' = Handed(c)
  BY <1>1 DEF Handed
<1>3. \A c : Origin(c)' = Origin(c) /\ Parted(c)' = Parted(c)
  BY <1>1 DEF Origin, Parted, FamilyParts
<1> QED
  BY <1>1, <1>2, <1>3 DEF Contents

\* Which classes have what their bases hand down: a call passes from its
\* bases to its parts at Merge, and to the elaborated at Finish.
LEMMA HavesMove ==
  ASSUME Shape, Order
  PROVE  /\ Begin \/ Seen \/ Descend => Haves' = Haves
         /\ Merge => Haves' = Haves \cup {Top.class} /\ Top.class \in Class \ Haves
         /\ Finish => Haves' = Haves /\ Top.class \in Haves \ done
<1> DEFINE n == Len(frames)
<1>1. frames # <<>> => /\ n \in Nat \ {0} /\ DOMAIN frames = 1..n /\ Top = frames[n] /\ Top \in Frames
                       /\ Top.class \in Class
  BY TopType
<1> HIDE DEF n
<1>2. ASSUME Begin PROVE Haves' = Haves
  <2>1. frames = <<>> /\ done' = done /\ \E c \in Class : frames' = <<Frame(c)>>
    BY <1>2 DEF Begin
  <2>2. HavesOf("parts") = {} /\ HavesOf("parts")' = {}
    BY <2>1 DEF HavesOf, Frame
  <2> QED
    BY <2>1, <2>2 DEF Haves
<1>3. ASSUME Seen PROVE Haves' = Haves
  <2>1. frames # <<>> /\ frames' = Advanced([Top EXCEPT !.next = @ + 1]) /\ done' = done
    BY <1>3 DEF Seen, Awaits
  <2>2. /\ [Top EXCEPT !.next = @ + 1] \in Frames
        /\ [Top EXCEPT !.next = @ + 1].class = Top.class /\ [Top EXCEPT !.next = @ + 1].stage = Top.stage
    BY <1>1, <2>1, FramesMoves
  <2>3. /\ DOMAIN frames' = 1..n
        /\ \A i \in 1..n : frames'[i].class = frames[i].class /\ frames'[i].stage = frames[i].stage
    BY <1>1, <2>1, <2>2, AdvancedType DEF n
  <2>4. HavesOf("parts")' = HavesOf("parts")
    BY <1>1, <2>1, <2>3 DEF HavesOf
  <2> QED
    BY <2>1, <2>4 DEF Haves
<1>4. ASSUME Descend PROVE Haves' = Haves
  <2> DEFINE f == Frame(Pending[Top.next])
  <2>1. frames # <<>> /\ frames' = Append(frames, f) /\ done' = done /\ Top.next \in DOMAIN Pending
    BY <1>4 DEF Descend, Awaits
  <2>2. f \in Frames /\ f.stage = "bases"
    BY <2>1, TopType, NeedsType DEF Frames, Frame
  <2> HIDE DEF f
  <2>3. /\ DOMAIN frames' = 1..(n + 1) /\ frames'[n + 1] = f
        /\ \A i \in 1..n : frames'[i] = frames[i]
    BY <2>1, <2>2, AppendProperties DEF Shape, n
  <2>4. ASSUME NEW x PROVE x \in HavesOf("parts")' <=> x \in HavesOf("parts")
    <3>1. x \in HavesOf("parts")' <=> \E i \in 1..(n + 1) : frames'[i].stage = "parts" /\ x = frames'[i].class
      BY <2>3 DEF HavesOf
    <3>2. x \in HavesOf("parts") <=> \E i \in 1..n : frames[i].stage = "parts" /\ x = frames[i].class
      BY <1>1, <2>1 DEF HavesOf
    <3>3. \A i : i \in 1..(n + 1) <=> i = n + 1 \/ i \in 1..n
      BY <1>1, <2>1
    <3> QED
      BY <2>2, <2>3, <3>1, <3>2, <3>3
  <2> QED
    BY <2>1, <2>4 DEF Haves
<1>5. ASSUME Merge PROVE Haves' = Haves \cup {Top.class} /\ Top.class \in Class \ Haves
  <2> DEFINE f == [Top EXCEPT !.stage = "parts", !.next = 1]
  <2>1. frames # <<>> /\ frames' = Advanced(f) /\ done' = done /\ Top.stage = "bases"
    BY <1>5, MergeMoves
  <2>2. f \in Frames /\ f.class = Top.class /\ f.stage = "parts"
    BY <1>1, <2>1, FramesMoves
  <2> HIDE DEF f
  <2>3. /\ DOMAIN frames' = 1..n
        /\ \A i \in 1..n : frames'[i] = IF i = n THEN f ELSE frames[i]
    BY <2>1, <2>2, AdvancedType DEF n
  <2>4. ASSUME NEW x PROVE x \in HavesOf("parts")' <=> x \in HavesOf("parts") \/ x = Top.class
    <3>1. x \in HavesOf("parts")' <=> \E i \in 1..n : frames'[i].stage = "parts" /\ x = frames'[i].class
      BY <2>3 DEF HavesOf
    <3>2. x \in HavesOf("parts") <=> \E i \in 1..n : frames[i].stage = "parts" /\ x = frames[i].class
      BY <1>1, <2>1 DEF HavesOf
    <3>3. "bases" # "parts" /\ n \in 1..n
      BY <1>1, <2>1
    <3> QED
      BY <1>1, <2>1, <2>2, <2>3, <3>1, <3>2, <3>3
  <2>5. Top.class \notin Haves
    <3>1. \A i \in 1..n : frames[i].class = Top.class => i = n
      BY <1>1, <2>1 DEF Order, Apart
    <3>2. frames[n].stage # "parts" /\ Top.class \notin done
      BY <1>1, <2>1 DEF Order, Apart
    <3> QED
      BY <1>1, <2>1, <3>1, <3>2 DEF Haves, HavesOf
  <2> QED
    BY <1>1, <2>1, <2>4, <2>5 DEF Haves
<1>6. ASSUME Finish PROVE Haves' = Haves /\ Top.class \in Haves \ done
  <2>1. frames # <<>> /\ frames' = Front(frames) /\ done' = done \cup {Top.class} /\ Top.stage = "parts"
    BY <1>6, FinishMoves
  <2>2. DOMAIN frames' = 1..(n - 1) /\ \A i \in 1..(n - 1) : frames'[i] = frames[i]
    BY <2>1, FrontType DEF n
  <2>3. \A i : i \in 1..n <=> i = n \/ i \in 1..(n - 1)
    BY <1>1, <2>1
  <2>4. ASSUME NEW x PROVE x \in HavesOf("parts") <=> x \in HavesOf("parts")' \/ x = Top.class
    <3>1. x \in HavesOf("parts")' <=> \E i \in 1..(n - 1) : frames'[i].stage = "parts" /\ x = frames'[i].class
      BY <2>2 DEF HavesOf
    <3>2. x \in HavesOf("parts") <=> \E i \in 1..n : frames[i].stage = "parts" /\ x = frames[i].class
      BY <1>1, <2>1 DEF HavesOf
    <3> QED
      BY <1>1, <2>1, <2>2, <2>3, <3>1, <3>2
  <2>5. Top.class \notin done
    BY <1>1, <2>1 DEF Order, Apart
  <2> QED
    BY <2>1, <2>4, <2>5 DEF Haves
<1> QED
  BY <1>2, <1>3, <1>4, <1>5, <1>6

\* What has its bases merged has them elaborated.
LEMMA HavesWaited ==
  ASSUME Shape, Order, NEW c \in Haves
  PROVE  c \in Class /\ Range(Bases(c)) \subseteq done
<1>1. CASE c \in done
  BY <1>1 DEF Shape, Order, Grounded, Edges
<1>2. CASE c \in HavesOf("parts")
  <2>1. PICK i \in DOMAIN frames : frames[i].stage = "parts" /\ c = frames[i].class
    BY <1>2 DEF HavesOf
  <2>2. frames # <<>>
    BY <2>1
  <2> QED
    BY <2>1, <2>2, TopType DEF Order, Waited, Past
<1> QED
  BY <1>1, <1>2 DEF Haves

\* Merging takes from bases that are elaborated.
LEMMA ContentsMerge ==
  ASSUME Shape, Order, Contents, Merge PROVE Contents'
<1> DEFINE c == Top.class
<1>1. /\ source' = source /\ \A x \in Class \ {c} : built'[x] = built[x]
      /\ built'[c] = Merged(c)
  BY MergeMoves
<1>2. Haves' = Haves \cup {c} /\ c \in Class \ Haves /\ Range(Bases(c)) \subseteq done
  BY HavesMove, MergeWaited
<1> HIDE DEF c
<1>3. \A x : /\ Bases(x)' = Bases(x) /\ View(x)' = View(x) /\ Layered(x)' = Layered(x)
             /\ OwnLayered(x)' = OwnLayered(x) /\ Bare(x)' = Bare(x) /\ Family(x)' = Family(x)
  BY <1>1, SourceStays
<1>4. \A x \in Class : \A i \in DOMAIN Bases(x) : Bases(x)[i] \in Range(Bases(x))
  BY DEF Range
<1>5. \A x : View(x) => Len(Bases(x)) = 1
  BY DEF View
<1>6. \A x \in Class : View(x) => Bases(x)[1] \in Range(Bases(x))
  <2> SUFFICES ASSUME NEW x \in Class, View(x) PROVE 1 \in DOMAIN Bases(x)
    BY <1>4
  <2>1. DOMAIN Bases(x) = 1..Len(Bases(x))
    BY SourceType DEF Shape
  <2> QED
    BY <1>5, <2>1
<1>7. done \subseteq Haves
  BY DEF Haves
<1>8. ASSUME NEW x \in Class \ Haves' PROVE built'[x] = Bare(x)'
  BY <1>1, <1>2, <1>3, <1>8 DEF Contents
<1>9. ASSUME NEW x \in Haves' PROVE Handed(x)'
  <2>1. CASE x \in Haves
    <3>1. x \in Class /\ Range(Bases(x)) \subseteq done /\ x # c
      BY <1>2, <2>1, HavesWaited
    <3>2. View(x) => Bases(x)[1] \in Class \ {c}
      BY <1>2, <1>6, <1>7, <3>1 DEF Shape
    <3>3. built'[x] = built[x] /\ (View(x) => built'[Bases(x)[1]] = built[Bases(x)[1]])
      BY <1>1, <3>1, <3>2
    <3>4. Handed(x)
      BY <2>1 DEF Contents
    <3> QED
      BY <1>3, <3>3, <3>4 DEF Handed
  <2>2. CASE x = c
    <3>1. /\ Merged(c).acquire = built[Source(c)].acquire /\ Merged(c).release = built[Source(c)].release
          /\ Merged(c).layered = (Layered(c) \/ Len(built[Source(c)].acquire) > 1)
          /\ Merged(c).own = ((Layered(c) /\ OwnLayered(c)) \/ Len(built[Source(c)].acquire) > 1)
      BY <1>2, MergedType
    <3>2. CASE View(c)
      <4>1. Bases(c)[1] \in Class \ {c}
        BY <1>2, <1>6, <1>7, <3>2 DEF Shape
      <4>2. built'[Bases(c)[1]] = built[Bases(c)[1]] /\ Source(c) = Bases(c)[1]
        BY <1>1, <3>2, <4>1 DEF Source
      <4> QED
        BY <1>1, <1>3, <2>2, <3>1, <3>2, <4>2 DEF Handed
    <3>3. CASE ~View(c)
      <4>1. Source(c) = c /\ built[c] = Bare(c)
        BY <1>2, <3>3 DEF Source, Contents
      <4> QED
        BY <1>1, <1>3, <2>2, <3>1, <3>3, <4>1 DEF Handed
    <3> QED
      BY <3>2, <3>3
  <2> QED
    BY <1>2, <1>9, <2>1, <2>2
<1>10. ASSUME NEW x \in Class PROVE Origin(x)'
  <2>1. CASE x # c
    BY <1>1, <1>3, <2>1 DEF Contents, Origin
  <2>2. CASE x = c
    <3>1. Source(c) \in Class /\ Family(Source(c)) \subseteq Family(c)
      BY <1>2, <1>6, FamilyOfBase DEF Source
    <3>2. PICK y \in Family(Source(c)) : /\ built[Source(c)].acquire = Bare(y).acquire
                                         /\ built[Source(c)].release = Bare(y).release
      BY <3>1 DEF Contents, Origin
    <3>3. built'[c].acquire = built[Source(c)].acquire /\ built'[c].release = built[Source(c)].release
      BY <1>1, <1>2, MergedType
    <3> QED
      BY <1>3, <2>2, <3>1, <3>2, <3>3 DEF Origin
  <2> QED
    BY <2>1, <2>2
<1>11. ASSUME NEW x \in Class PROVE Parted(x)'
  <2>1. CASE x # c
    BY <1>1, <1>3, <2>1 DEF Contents, Parted, FamilyParts
  <2>2. CASE x = c
    <3> DEFINE V == FamilyParts(c)
               f == [b \in Range(Bases(c)) |-> built[b].parts]
    <3>1. \A b \in Class : built[b].parts \in Seq(Class)
      BY DEF Shape, Built
    <3>2. \A b \in Class : \A i \in DOMAIN built[b].parts : built[b].parts[i] \in FamilyParts(b)
      BY DEF Contents, Parted, Range
    <3>3. built[c].parts \in Seq(V)
      BY <1>2, <3>1, <3>2, SequenceOf
    <3>4. ASSUME NEW b \in Range(Bases(c)) PROVE f[b] \in Seq(V)
      <4>1. b \in Class /\ Family(b) \subseteq Family(c)
        BY <1>2, FamilyOfBase
      <4>2. FamilyParts(b) \subseteq V
        BY <4>1 DEF FamilyParts
      <4>3. \A i \in DOMAIN built[b].parts : built[b].parts[i] \in V
        BY <3>2, <4>1, <4>2
      <4>4. built[b].parts \in Seq(V)
        BY <3>1, <4>1, <4>3, SequenceOf
      <4> QED
        BY <4>4
    <3>5. HandedParts(c) \in Seq(V)
      <4>1. Bases(c) \in Seq(Range(Bases(c)))
        BY <1>2, <1>4, SourceType, SequenceOf DEF Shape
      <4>2. [i \in DOMAIN Bases(c) |-> f[Bases(c)[i]]] = [i \in DOMAIN Bases(c) |-> built[Bases(c)[i]].parts]
        BY DEF Range
      <4> HIDE DEF f, V
      <4>3. FlattenSeq([i \in DOMAIN Bases(c) |-> f[Bases(c)[i]]]) \in Seq(V)
        BY <3>4, <4>1, RowsType
      <4> QED
        BY <4>2, <4>3 DEF HandedParts
    <3>6. built'[c].parts = built[c].parts \o HandedParts(c)
      BY <1>1, <1>2, MergedType
    <3>7. built'[c].parts \in Seq(V)
      <4> HIDE DEF V
      <4> QED
        BY <3>3, <3>5, <3>6, ConcatProperties
    <3>8. Range(built'[c].parts) \subseteq V
      <4> HIDE DEF V
      <4>1. \A i \in DOMAIN built'[c].parts : built'[c].parts[i] \in V
        BY <3>7, LenProperties, ElementOfSeq
      <4> QED
        BY <4>1 DEF Range
    <3>9. Range(source[c].parts) \subseteq Range(built'[c].parts)
      <4>1. Range(built[c].parts) \subseteq Range(Merged(c).parts)
        BY <1>2, MergedKeeps
      <4>2. Range(source[c].parts) \subseteq Range(built[c].parts)
        BY <1>2 DEF Contents, Parted
      <4> QED
        BY <1>1, <4>1, <4>2
    <3> QED
      BY <1>1, <1>3, <2>2, <3>8, <3>9 DEF Parted, FamilyParts
  <2> QED
    BY <2>1, <2>2
<1> QED
  BY <1>8, <1>9, <1>10, <1>11 DEF Contents

\* Finishing sets the layers and the cleanup only.
LEMMA ContentsFinish ==
  ASSUME Shape, Order, Contents, Finish PROVE Contents'
<1> DEFINE c == Top.class
<1>1. /\ source' = source /\ \A x \in Class \ {c} : built'[x] = built[x]
      /\ built'[c] = Finished(c)
  BY FinishMoves
<1>2. Haves' = Haves /\ c \in Haves \ done
  BY HavesMove
<1>3. c \in Class
  BY <1>2, HavesWaited
<1> HIDE DEF c
<1>4. \A x : /\ Bases(x)' = Bases(x) /\ View(x)' = View(x) /\ Layered(x)' = Layered(x)
             /\ OwnLayered(x)' = OwnLayered(x) /\ Bare(x)' = Bare(x) /\ Family(x)' = Family(x)
  BY <1>1, SourceStays
<1>5. \A x \in Class : /\ built'[x].acquire = built[x].acquire /\ built'[x].release = built[x].release
                       /\ built'[x].parts = built[x].parts /\ built'[x].layered = built[x].layered
                       /\ built'[x].own = built[x].own
  BY <1>1, <1>3, FinishedType
<1>6. ASSUME NEW x \in Class \ Haves' PROVE built'[x] = Bare(x)'
  BY <1>1, <1>2, <1>4, <1>6 DEF Contents
<1>7. ASSUME NEW x \in Haves' PROVE Handed(x)'
  <2>1. x \in Class /\ Handed(x)
    BY <1>2, <1>7, HavesWaited DEF Contents
  <2>2. View(x) => Bases(x)[1] \in Class
    BY <2>1, SourceType DEF Shape, View
  <2> QED
    BY <1>4, <1>5, <2>1, <2>2 DEF Handed
<1>8. ASSUME NEW x \in Class PROVE Origin(x)' /\ Parted(x)'
  BY <1>1, <1>4, <1>5 DEF Contents, Origin, Parted, FamilyParts
<1> QED
  BY <1>6, <1>7, <1>8 DEF Contents

\* Every step keeps the contents.
LEMMA ContentsStep ==
  ASSUME Shape, Order, Contents, [Next]_vars PROVE Contents'
<1>1. CASE Begin \/ Seen \/ Descend
  <2>1. UNCHANGED <<source, built>> /\ Haves' = Haves
    BY <1>1, HavesMove DEF Begin, Seen, Descend
  <2> QED
    BY <2>1, ContentsSame
<1>2. CASE FindCycle \/ Refuse \/ End \/ UNCHANGED vars
  <2>1. UNCHANGED <<source, built, frames, done>>
    BY <1>2 DEF FindCycle, Refuse, End, vars
  <2>2. Haves' = Haves
    BY <2>1 DEF Haves, HavesOf
  <2> QED
    BY <2>1, <2>2, ContentsSame
<1>3. CASE Merge
  BY <1>3, ContentsMerge
<1>4. CASE Finish
  BY <1>4, ContentsFinish
<1> QED
  BY <1>1, <1>2, <1>3, <1>4 DEF Next, Elab, Stopped

-----------------------------------------------------------------------------
(* Floors, and what they take.                                             *)

\* What each call takes.
Takings == [k \in Call |-> IF k.marked THEN << <<k.owner>> >> ELSE <<>>]

\* A floor takes what its calls take, or what it releases.
LEMMA TakesType ==
  /\ Rewrites(Takings, Call, Seq(Class))
  /\ \A f \in Floor : Takes(f) = IF f.init = <<>> THEN f.cleanup ELSE Through(Takings, f.init)
  /\ \A f \in Floor : Takes(f) \in Seq(Seq(Class))
<1>1. Rewrites(Takings, Call, Seq(Class))
  <2>1. \A k \in Call : << <<k.owner>> >> \in Seq(Seq(Class))
    BY DEF Call
  <2>2. <<>> \in Seq(Seq(Class))
    BY EmptySeq
  <2> QED
    BY <2>1, <2>2 DEF Rewrites, Takings
<1>2. ASSUME NEW f \in Floor PROVE Takes(f) = IF f.init = <<>> THEN f.cleanup ELSE Through(Takings, f.init)
  <2>1. f.init \in Seq(Call) /\ \A i \in DOMAIN f.init : f.init[i] \in Call
    BY LenProperties, ElementOfSeq DEF Floor
  <2>2. [i \in DOMAIN f.init |-> Takings[f.init[i]]]
          = [i \in DOMAIN f.init |-> IF f.init[i].marked THEN << <<f.init[i].owner>> >> ELSE <<>>]
    BY <2>1 DEF Takings
  <2> QED
    BY <2>2 DEF Takes, Through
<1>3. ASSUME NEW f \in Floor PROVE Takes(f) \in Seq(Seq(Class))
  <2>1. f.init \in Seq(Call) /\ f.cleanup \in Seq(Seq(Class))
    BY DEF Floor
  <2>2. Through(Takings, f.init) \in Seq(Seq(Class))
    BY <1>1, <2>1, ThroughRows
  <2> QED
    BY <1>2, <2>1, <2>2
<1> QED
  BY <1>1, <1>2, <1>3

\* What floors take.
Taking == [f \in Floor |-> Takes(f)]
TakenOf(floors) == Through(Taking, floors)

\* What floors take is a sequence of things.
LEMMA TakenType ==
  /\ Rewrites(Taking, Floor, Seq(Class))
  /\ \A s \in Seq(Floor) : TakenOf(s) \in Seq(Seq(Class))
<1>1. Rewrites(Taking, Floor, Seq(Class))
  BY TakesType DEF Rewrites, Taking
<1> QED
  BY <1>1, ThroughRows DEF TakenOf

\* What is released of a class, if anything.
Freed(x) == IF source[x].releases THEN << <<x>> >> ELSE <<>>

\* A floor that takes one thing, if any, and gives back that one.
Good(f) ==
  \/ Takes(f) = <<>> /\ f.cleanup = <<>>
  \/ \E x \in Class : Takes(f) = << <<x>> >> /\ f.cleanup = Freed(x)

\* The floors that are good.
GoodFloors == {f \in Floor : Good(f)}

\* What is released of a class is a sequence of things.
LEMMA FreedType ==
  ASSUME NEW x \in Class PROVE Freed(x) \in Seq(Seq(Class)) /\ << <<x>> >> \in Seq(Seq(Class))
BY EmptySeq DEF Freed

\* The calls of a class.
LEMMA StepsOf ==
  ASSUME source \in Sources, NEW x \in Class
  PROVE  /\ source[x].calls \in Nat /\ source[x].releases \in BOOLEAN
         /\ Bare(x).acquire \in Seq(Call) /\ Len(Bare(x).acquire) = source[x].calls
         /\ \A i \in 1..source[x].calls :
              /\ Bare(x).acquire[i] = Step(x, i) /\ Step(x, i) \in Call
              /\ Step(x, i).owner = x /\ Step(x, i).marked = (i = source[x].marker)
         /\ source[x].calls # 0 => source[x].marker \in 1..source[x].calls
<1>1. /\ source[x].calls \in Nat /\ source[x].releases \in BOOLEAN /\ source[x].takes \in SUBSET Name
      /\ source[x].calls # 0 => source[x].marker \in 1..source[x].calls
  BY SourceType DEF Written
<1>2. \A i : Step(x, i) = [owner |-> x, marked |-> i = source[x].marker, takes |-> source[x].takes]
  BY DEF Step
<1>3. ASSUME NEW i
      PROVE  Step(x, i) \in Call /\ Step(x, i).owner = x /\ Step(x, i).marked = (i = source[x].marker)
  <2> DEFINE marked == i = source[x].marker
  <2>1. marked \in BOOLEAN /\ Step(x, i) = [owner |-> x, marked |-> marked, takes |-> source[x].takes]
    BY <1>2, Zenon
  <2> HIDE DEF marked
  <2>2. Step(x, i) \in Call /\ Step(x, i).owner = x /\ Step(x, i).marked = marked
    BY <1>1, <2>1 DEF Call
  <2> QED
    BY <2>2, Zenon DEF marked
<1>4. Bare(x).acquire = [i \in 1..source[x].calls |-> Step(x, i)]
  BY BareFields
<1>5. Bare(x).acquire \in [1..source[x].calls -> Call]
  BY <1>3, <1>4
<1>6. Bare(x).acquire \in Seq(Call) /\ Len(Bare(x).acquire) = source[x].calls
  BY <1>1, <1>5
<1> QED
  BY <1>1, <1>3, <1>4, <1>6

\* The two fields of a layer.
LEMMA LayerFields ==
  ASSUME NEW init, NEW cleanup
  PROVE  /\ Layer(init, cleanup).init = init /\ Layer(init, cleanup).cleanup = cleanup
         /\ init \in Seq(Call) /\ cleanup \in Seq(Seq(Class)) => Layer(init, cleanup) \in Floor
BY DEF Layer, Floor

\* A floor of one call takes the thing if the call is the marked one.
LEMMA OneCall ==
  ASSUME NEW k \in Call, NEW cleanup \in Seq(Seq(Class))
  PROVE  Layer(<<k>>, cleanup) \in Floor
         /\ Takes(Layer(<<k>>, cleanup)) = IF k.marked THEN << <<k.owner>> >> ELSE <<>>
<1> DEFINE f == Layer(<<k>>, cleanup)
           row == IF k.marked THEN << <<k.owner>> >> ELSE <<>>
<1>1. <<k>> \in Seq(Call) /\ <<k>> # <<>>
  OBVIOUS
<1>2. f \in Floor /\ f.init = <<k>>
  BY <1>1, LayerFields
<1>3. Takes(f) = Through(Takings, <<k>>)
  BY <1>1, <1>2, TakesType
<1>4. row \in Seq(Seq(Class)) /\ Takings[k] = row
  <2>1. k.owner \in Class
    BY DEF Call
  <2> QED
    BY <2>1, EmptySeq DEF Takings
<1>5. [i \in DOMAIN <<k>> |-> Takings[<<k>>[i]]] = <<row>>
  <2> HIDE DEF row
  <2> QED
    BY <1>4
<1>6. FlattenSeq(<<row>>) = row
  <2> HIDE DEF row
  <2> QED
    BY <1>4, FlattenOne
<1> QED
  BY <1>2, <1>3, <1>5, <1>6 DEF Through

\* The floor of an acquire of one call, or of none.
LEMMA OneFloor ==
  ASSUME source \in Sources, NEW x \in Class, source[x].calls <= 1
  PROVE  LET f == Layer(Bare(x).acquire, Freed(x))
         IN  f \in GoodFloors /\ Takes(f) = IF OwnLayered(x) THEN << <<x>> >> ELSE <<>>
<1> DEFINE f == Layer(Bare(x).acquire, Freed(x))
           a == Bare(x).acquire
<1>1. /\ source[x].calls \in Nat /\ source[x].releases \in BOOLEAN
      /\ a \in Seq(Call) /\ Len(a) = source[x].calls
      /\ source[x].calls # 0 => source[x].marker \in 1..source[x].calls
      /\ \A i \in 1..source[x].calls : /\ a[i] = Step(x, i) /\ Step(x, i) \in Call
                                       /\ Step(x, i).owner = x /\ Step(x, i).marked = (i = source[x].marker)
  BY StepsOf
<1>2. Freed(x) \in Seq(Seq(Class))
  BY FreedType
<1>3. f \in Floor /\ f.init = a /\ f.cleanup = Freed(x)
  BY <1>1, <1>2, LayerFields
<1>4. CASE source[x].calls = 0
  <2>1. a = <<>>
    BY <1>1, <1>4, EmptySeq
  <2>2. Takes(f) = Freed(x)
    BY <1>3, <2>1, TakesType
  <2>3. Freed(x) = IF OwnLayered(x) THEN << <<x>> >> ELSE <<>>
    BY <1>1, <1>4 DEF Freed, OwnLayered
  <2>4. Good(f)
    BY <1>1, <1>3, <2>2 DEF Good, Freed
  <2> QED
    BY <1>3, <2>2, <2>3, <2>4 DEF GoodFloors
<1>5. CASE source[x].calls = 1
  <2>1. a[1] = Step(x, 1) /\ Step(x, 1) \in Call /\ Step(x, 1).owner = x /\ Step(x, 1).marked
    <3>1. 1 \in 1..source[x].calls /\ source[x].marker = 1
      BY <1>1, <1>5
    <3>2. /\ a[1] = Step(x, 1) /\ Step(x, 1) \in Call /\ Step(x, 1).owner = x
          /\ (Step(x, 1).marked <=> 1 = source[x].marker)
      <4> HIDE DEF a
      <4> QED
        BY <1>1, <3>1
    <3> QED
      BY <3>1, <3>2, Zenon
  <2>2. a = <<Step(x, 1)>>
    <3> DEFINE k == Step(x, 1)
    <3>1. k \in Call /\ a[1] = k
      BY <2>1
    <3> HIDE DEF k, a
    <3>2. <<k>> \in Seq(Call) /\ Len(<<k>>) = 1 /\ <<k>>[1] = k
      BY <3>1
    <3>3. a = <<k>>
      BY <1>1, <1>5, <3>1, <3>2, SeqEqual
    <3> QED
      BY <3>3 DEF k, a
  <2>3. Takes(f) = << <<x>> >>
    BY <1>2, <2>1, <2>2, OneCall
  <2>4. OwnLayered(x)
    BY <1>5 DEF OwnLayered
  <2> QED
    BY <1>3, <2>3, <2>4 DEF GoodFloors, Good
<1> QED
  BY <1>1, <1>4, <1>5

\* The floors of an acquire of several calls.
LEMMA SeveralFloors ==
  ASSUME source \in Sources, NEW x \in Class, source[x].calls > 1
  PROVE  LET s == [i \in DOMAIN Bare(x).acquire |->
                     Layer(<<Bare(x).acquire[i]>>, IF Bare(x).acquire[i].marked THEN Freed(x) ELSE <<>>)]
         IN  s \in Seq(GoodFloors) /\ s # <<>> /\ TakenOf(s) = << <<x>> >>
<1> DEFINE a == Bare(x).acquire
           n == source[x].calls
           m == source[x].marker
           f(i) == Layer(<<a[i]>>, IF a[i].marked THEN Freed(x) ELSE <<>>)
           s == [i \in DOMAIN a |-> f(i)]
           rows == [i \in DOMAIN s |-> Taking[s[i]]]
<1>1. /\ n \in Nat /\ n > 1 /\ a \in Seq(Call) /\ Len(a) = n /\ DOMAIN a = 1..n /\ m \in 1..n
      /\ \A i \in 1..n : a[i] \in Call /\ a[i].owner = x /\ a[i].marked = (i = m)
  BY StepsOf, LenProperties
<1>2. Freed(x) \in Seq(Seq(Class)) /\ <<>> \in Seq(Seq(Class)) /\ << <<x>> >> \in Seq(Seq(Class))
  BY FreedType, EmptySeq
<1> HIDE DEF a, n, m
<1>3. ASSUME NEW i \in 1..n
      PROVE  f(i) \in GoodFloors /\ Takes(f(i)) = IF i = m THEN << <<x>> >> ELSE <<>>
  <2> DEFINE c == IF a[i].marked THEN Freed(x) ELSE <<>>
  <2>1. c \in Seq(Seq(Class)) /\ c = (IF i = m THEN Freed(x) ELSE <<>>)
    BY <1>1, <1>2
  <2>2. f(i) = Layer(<<a[i]>>, c)
    OBVIOUS
  <2> HIDE DEF c, f
  <2>3. f(i) \in Floor /\ f(i).cleanup = c /\ Takes(f(i)) = IF i = m THEN << <<x>> >> ELSE <<>>
    <3>1. a[i] \in Call /\ a[i].owner = x /\ (a[i].marked <=> i = m)
      BY <1>1
    <3>2. f(i) \in Floor /\ Takes(f(i)) = IF a[i].marked THEN << <<a[i].owner>> >> ELSE <<>>
      BY <2>1, <2>2, <3>1, OneCall
    <3>3. f(i).cleanup = c
      BY <2>2, LayerFields
    <3> QED
      BY <3>1, <3>2, <3>3, Zenon
  <2>4. Good(f(i))
    BY <2>1, <2>3 DEF Good
  <2> QED
    BY <2>3, <2>4 DEF GoodFloors
<1> HIDE DEF f
<1>4. s \in [1..n -> GoodFloors] /\ DOMAIN s = 1..n /\ \A i \in 1..n : s[i] = f(i)
  BY <1>1, <1>3
<1>5. s \in Seq(GoodFloors) /\ Len(s) = n
  BY <1>1, <1>4
<1> HIDE DEF s
<1>6. s # <<>>
  BY <1>1, <1>5, EmptySeq
<1>7. s \in Seq(Floor)
  BY <1>5, SeqMonotonic DEF GoodFloors
<1>8. rows \in Seq(Seq(Seq(Class))) /\ DOMAIN rows = 1..n
      /\ \A i \in 1..n : rows[i] = IF i = m THEN << <<x>> >> ELSE <<>>
  <2>1. rows \in Seq(Seq(Seq(Class)))
    BY <1>7, TakenType, ThroughRows
  <2>2. \A i \in 1..n : s[i] \in Floor /\ Taking[s[i]] = IF i = m THEN << <<x>> >> ELSE <<>>
    BY <1>3, <1>4 DEF Taking, GoodFloors
  <2> QED
    BY <1>4, <2>1, <2>2
<1>9. FlattenSeq(rows) = << <<x>> >>
  <2> HIDE DEF rows
  <2>1. Len(rows) = n
    BY <1>1, <1>8, LenProperties
  <2>2. m \in 1..Len(rows) /\ \A i \in 1..Len(rows) : i # m => rows[i] = <<>>
    BY <1>1, <1>8, <2>1
  <2>3. FlattenSeq(rows) = rows[m]
    BY <1>8, <2>2, FlattenSingle
  <2> QED
    BY <1>1, <1>8, <2>3
<1>10. TakenOf(s) = << <<x>> >>
  BY <1>9 DEF TakenOf, Through
<1> QED
  BY <1>5, <1>6, <1>10 DEF s, f, a

\* Things are reached through no part.
Things == {<<x>> : x \in Class}

\* What of a thing is released.
Releasing == [t \in Things |-> IF source[t[1]].releases THEN <<t>> ELSE <<>>]

\* What has a release is a sequence of things, thing by thing.
LEMMA ReleasableType ==
  /\ Rewrites(Releasing, Things, Things)
  /\ \A taken \in Seq(Things) : Releasable(taken) = Through(Releasing, taken) /\ Releasable(taken) \in Seq(Things)
  /\ \A x \in Class : <<x>> \in Things /\ Releasing[<<x>>] = Freed(x) /\ Releasable(<< <<x>> >>) = Freed(x)
  /\ Releasable(<<>>) = <<>>
<1>1. Rewrites(Releasing, Things, Things)
  <2>1. \A t \in Things : <<t>> \in Seq(Things)
    OBVIOUS
  <2>2. <<>> \in Seq(Things)
    BY EmptySeq
  <2> QED
    BY <2>1, <2>2 DEF Rewrites, Releasing
<1>2. ASSUME NEW taken \in Seq(Things)
      PROVE  Releasable(taken) = Through(Releasing, taken) /\ Releasable(taken) \in Seq(Things)
  <2>1. \A i \in DOMAIN taken : taken[i] \in Things
    BY LenProperties, ElementOfSeq
  <2>2. [i \in DOMAIN taken |-> Releasing[taken[i]]]
          = [i \in DOMAIN taken |-> IF source[taken[i][1]].releases THEN <<taken[i]>> ELSE <<>>]
    BY <2>1 DEF Releasing
  <2>3. Through(Releasing, taken) \in Seq(Things)
    BY <1>1, ThroughRows
  <2> QED
    BY <2>2, <2>3 DEF Releasable, Through
<1>3. ASSUME NEW x \in Class
      PROVE  <<x>> \in Things /\ Releasing[<<x>>] = Freed(x) /\ Releasable(<< <<x>> >>) = Freed(x)
  <2> DEFINE t == <<x>>
  <2>1. t \in Things /\ t[1] = x /\ Freed(x) = IF source[x].releases THEN <<t>> ELSE <<>>
    BY DEF Things, Freed
  <2> HIDE DEF t
  <2>2. Releasing[t] = Freed(x)
    BY <2>1 DEF Releasing
  <2>3. <<t>> \in Seq(Things) /\ [i \in DOMAIN <<t>> |-> Releasing[<<t>>[i]]] = <<Releasing[t]>>
    BY <2>1
  <2>4. Releasing[t] \in Seq(Things)
    BY <1>1, <2>1 DEF Rewrites
  <2>5. Releasable(<<t>>) = FlattenSeq(<<Releasing[t]>>)
    BY <1>2, <2>3 DEF Through
  <2>6. FlattenSeq(<<Releasing[t]>>) = Releasing[t]
    BY <2>4, FlattenOne
  <2> QED
    BY <2>1, <2>2, <2>5, <2>6 DEF t
<1>4. Releasable(<<>>) = <<>>
  BY <1>2, ThroughEmpty, EmptySeq
<1> QED
  BY <1>1, <1>2, <1>3, <1>4

\* The tower enters at the floor on top.
LEMMA UnwindingAppend ==
  ASSUME NEW s \in Seq(Floor), NEW f \in Floor
  PROVE  Unwinding(Append(s, f)) = f.cleanup \o Unwinding(s)
<1> DEFINE V == Seq(Seq(Class))
           t == Append(s, f)
           n == Len(s)
           rows == [i \in DOMAIN s |-> s[i].cleanup]
           more == [i \in DOMAIN t |-> t[i].cleanup]
<1>1. /\ n \in Nat /\ DOMAIN s = 1..n /\ t \in Seq(Floor) /\ DOMAIN t = 1..(n + 1) /\ t[n + 1] = f
      /\ \A i \in 1..n : t[i] = s[i] /\ s[i] \in Floor
  BY AppendProperties, LenProperties, ElementOfSeq
<1>2. f.cleanup \in V /\ \A i \in 1..n : s[i].cleanup \in V
  BY <1>1 DEF Floor
<1> HIDE DEF V, t, n
<1>3. rows \in [1..n -> V] /\ more \in [1..(n + 1) -> V]
  <2>1. \A i \in 1..(n + 1) : t[i].cleanup \in V
    <3>1. \A i \in 1..(n + 1) : i = n + 1 \/ i \in 1..n
      BY <1>1
    <3> QED
      BY <1>1, <1>2, <3>1
  <2> QED
    BY <1>1, <1>2, <2>1
<1>4. rows \in Seq(V) /\ Len(rows) = n /\ more \in Seq(V) /\ Len(more) = n + 1
  BY <1>1, <1>3
<1>5. more = Append(rows, f.cleanup)
  <2>1. /\ Append(rows, f.cleanup) \in Seq(V) /\ Len(Append(rows, f.cleanup)) = n + 1
        /\ Append(rows, f.cleanup)[n + 1] = f.cleanup
        /\ \A i \in 1..n : Append(rows, f.cleanup)[i] = rows[i]
    <3> HIDE DEF rows
    <3> QED
      BY <1>2, <1>4, AppendProperties
  <2>2. ASSUME NEW i \in 1..(n + 1) PROVE more[i] = Append(rows, f.cleanup)[i]
    <3>1. CASE i = n + 1
      BY <1>1, <2>1, <3>1
    <3>2. CASE i \in 1..n
      <4>1. more[i] = t[i].cleanup /\ rows[i] = s[i].cleanup /\ t[i] = s[i]
        BY <1>1, <3>2
      <4> HIDE DEF more, rows
      <4> QED
        BY <2>1, <3>2, <4>1
    <3>3. i = n + 1 \/ i \in 1..n
      BY <1>1
    <3> QED
      BY <3>1, <3>2, <3>3
  <2> HIDE DEF more, rows
  <2> QED
    BY <1>4, <2>1, <2>2, SeqEqual
<1> HIDE DEF rows, more
<1>6. Reverse(more) = <<f.cleanup>> \o Reverse(rows) /\ Reverse(rows) \in Seq(V)
  BY <1>2, <1>4, <1>5, ReverseAppend, ReversedType
<1>7. FlattenSeq(<<f.cleanup>> \o Reverse(rows)) = f.cleanup \o FlattenSeq(Reverse(rows))
  BY <1>2, <1>6, FlattenCons DEF V
<1> QED
  BY <1>6, <1>7 DEF Unwinding, t, rows, more

\* What a good floor releases is what of its thing has a release.
LEMMA GoodReleases ==
  ASSUME NEW f \in GoodFloors
  PROVE  /\ f \in Floor /\ Takes(f) \in Seq(Things)
         /\ f.cleanup \in Seq(Things) /\ Reverse(Releasable(Takes(f))) = f.cleanup
<1>1. CASE Takes(f) = <<>> /\ f.cleanup = <<>>
  <2>1. Reverse(<<>>) = <<>>
    BY DEF Reverse
  <2> QED
    BY <1>1, <2>1, ReleasableType, EmptySeq DEF GoodFloors
<1>2. CASE \E x \in Class : Takes(f) = << <<x>> >> /\ f.cleanup = Freed(x)
  <2>1. PICK x \in Class : Takes(f) = << <<x>> >> /\ f.cleanup = Freed(x)
    BY <1>2
  <2> DEFINE t == <<x>>
  <2>2. t \in Things /\ Takes(f) = <<t>> /\ Releasable(<<t>>) = Freed(x)
    BY <2>1, ReleasableType
  <2>3. Freed(x) = IF source[x].releases THEN <<t>> ELSE <<>>
    BY DEF Freed
  <2> HIDE DEF t
  <2>4. <<t>> \in Seq(Things) /\ <<>> \in Seq(Things)
    BY <2>2, EmptySeq
  <2>5. Reverse(<<t>>) = <<t>>
    <3>1. Len(<<t>>) = 1 /\ <<t>>[1] = t
      OBVIOUS
    <3>2. Reverse(<<t>>) \in Seq(Things) /\ Len(Reverse(<<t>>)) = 1
      BY <2>4, <3>1, ReversedType
    <3>3. Reverse(<<t>>)[1] = t
      BY DEF Reverse
    <3> QED
      BY <2>4, <3>1, <3>2, <3>3, SeqEqual
  <2>6. Reverse(<<>>) = <<>>
    BY DEF Reverse
  <2>7. Reverse(Freed(x)) = Freed(x) /\ Freed(x) \in Seq(Things)
    BY <2>3, <2>4, <2>5, <2>6, Zenon
  <2> QED
    BY <2>1, <2>2, <2>4, <2>7, Zenon DEF GoodFloors
<1> QED
  BY <1>1, <1>2 DEF GoodFloors, Good

\* From whatever floor, the tower gives back what was taken, newest first.
LEMMA Mirrors ==
  ASSUME NEW s \in Seq(GoodFloors)
  PROVE  TakenOf(s) \in Seq(Things) /\ Unwinding(s) = Reverse(Releasable(TakenOf(s)))
<1> DEFINE S == {u \in Seq(GoodFloors) : /\ TakenOf(u) \in Seq(Things)
                                         /\ Unwinding(u) = Reverse(Releasable(TakenOf(u)))}
<1>1. <<>> \in S
  <2>1. TakenOf(<<>>) = <<>>
    BY ThroughEmpty DEF TakenOf
  <2>2. Reverse(<<>>) = <<>>
    BY DEF Reverse
  <2>3. Unwinding(<<>>) = <<>>
    <3>1. [i \in DOMAIN <<>> |-> <<>>[i].cleanup] = <<>>
      OBVIOUS
    <3> QED
      BY <2>2, <3>1, FlattenEmpty DEF Unwinding
  <2> QED
    BY <2>1, <2>2, <2>3, ReleasableType, EmptySeq
<1>2. ASSUME NEW u \in Seq(GoodFloors), NEW f \in GoodFloors, u \in S PROVE Append(u, f) \in S
  <2> DEFINE a == TakenOf(u)
             b == Takes(f)
  <2>1. u \in Seq(Floor) /\ f \in Floor
    BY SeqMonotonic DEF GoodFloors
  <2>2. TakenOf(Append(u, f)) = a \o b
    <3>1. Through(Taking, Append(u, f)) = Through(Taking, u) \o Taking[f]
      BY <2>1, TakenType, ThroughAppend
    <3> QED
      BY <2>1, <3>1 DEF TakenOf, Taking
  <2>3. /\ a \in Seq(Things) /\ Unwinding(u) = Reverse(Releasable(a))
        /\ b \in Seq(Things) /\ f.cleanup = Reverse(Releasable(b))
    BY <1>2, GoodReleases
  <2> HIDE DEF a, b
  <2>4. /\ a \o b \in Seq(Things)
        /\ Releasable(a) \in Seq(Things) /\ Releasable(b) \in Seq(Things)
        /\ Releasable(a) = Through(Releasing, a) /\ Releasable(b) = Through(Releasing, b)
        /\ Releasable(a \o b) = Through(Releasing, a \o b)
    <3>1. a \o b \in Seq(Things)
      BY <2>3, ConcatProperties
    <3> QED
      BY <2>3, <3>1, ReleasableType
  <2>5. Releasable(a \o b) = Releasable(a) \o Releasable(b)
    <3>1. Through(Releasing, a \o b) = Through(Releasing, a) \o Through(Releasing, b)
      <4>1. Rewrites(Releasing, Things, Things)
        BY ReleasableType
      <4> HIDE DEF S
      <4> QED
        BY <2>3, <4>1, ThroughConcat
    <3> QED
      BY <2>4, <3>1
  <2>6. Reverse(Releasable(a) \o Releasable(b)) = Reverse(Releasable(b)) \o Reverse(Releasable(a))
    BY <2>4, ReverseConcat
  <2>7. Unwinding(Append(u, f)) = f.cleanup \o Unwinding(u)
    BY <2>1, UnwindingAppend
  <2>8. Append(u, f) \in Seq(GoodFloors)
    BY AppendProperties
  <2> QED
    BY <2>2, <2>3, <2>4, <2>5, <2>6, <2>7, <2>8
<1>3. Seq(GoodFloors) \subseteq S
  <2> HIDE DEF S
  <2> QED
    BY <1>1, <1>2, EverySequence
<1> QED
  BY <1>3

-----------------------------------------------------------------------------
(* The floors of the elaborated.                                           *)

\* What is known of a class where this holds no longer changes.
Below(c) == \A x \in Family(c) : Range(Bases(x)) \subseteq done /\ Range(source[x].parts) \subseteq done

\* It holds of what is elaborated,
LEMMA BelowDone ==
  ASSUME Shape, Order, Contents, NEW c \in done
  PROVE  Below(c)
<1> SUFFICES ASSUME NEW x \in Family(c)
             PROVE  Range(Bases(x)) \subseteq done /\ Range(source[x].parts) \subseteq done
  BY DEF Below
<1>1. x \in done /\ x \in Class
  BY FamilyDone DEF Shape
<1>2. Edges(x) \subseteq done
  BY <1>1 DEF Order, Grounded
<1>3. Range(source[x].parts) \subseteq Range(built[x].parts)
  BY <1>1 DEF Contents, Parted
<1> QED
  BY <1>2, <1>3 DEF Edges

\* and of what is being finished.
LEMMA BelowFinish ==
  ASSUME Shape, Order, Contents, Finish, NEW c, c = Top.class
  PROVE  Below(c) /\ c \in Class /\ c \notin done /\ c \in Haves /\ Range(built[c].parts) \subseteq done
         /\ \A b \in Range(Bases(c)) : b \in done /\ b \in Class
<1>1. c \in Haves /\ c \notin done /\ c \in Class
  BY HavesMove, HavesWaited
<1>2. Edges(c) \subseteq done
  BY FinishWaited
<1>3. Range(source[c].parts) \subseteq Range(built[c].parts)
  BY <1>1 DEF Contents, Parted
<1>4. ASSUME NEW x \in Family(c)
      PROVE  Range(Bases(x)) \subseteq done /\ Range(source[x].parts) \subseteq done
  <2>1. CASE x = c
    BY <1>2, <1>3, <2>1 DEF Edges
  <2>2. CASE x # c
    <3>1. PICK b \in Range(Bases(c)) : x \in Family(b)
      BY <1>1, <2>2, FamilyOfBase
    <3>2. b \in done
      BY <1>2, <3>1 DEF Edges
    <3> QED
      BY <3>1, <3>2, BelowDone DEF Below
  <2> QED
    BY <2>1, <2>2
<1>5. \A b \in Range(Bases(c)) : b \in done /\ b \in Class
  BY <1>2 DEF Edges, Shape
<1>6. Range(built[c].parts) \subseteq done
  BY <1>2 DEF Edges
<1> QED
  BY <1>1, <1>4, <1>5, <1>6 DEF Below

\* Where it holds, the premises of the properties stay as they are.
LEMMA BelowStays ==
  ASSUME Shape, source' = source, \A x \in done : built'[x] = built[x], NEW c \in Class, Below(c)
  PROVE  (Partless(c)' <=> Partless(c)) /\ (Plain(c)' <=> Plain(c))
<1>1. \A x : Bases(x)' = Bases(x) /\ View(x)' = View(x) /\ Family(x)' = Family(x)
  BY SourceStays
<1>2. \A x \in Family(c) : \A i \in DOMAIN source[x].parts : source[x].parts[i] \in done
  BY DEF Below, Range
<1>3. Partless(c)' <=> Partless(c)
  BY <1>1, <1>2 DEF Partless
<1>4. \A x \in Family(c) : View(x) => Bases(x)[1] \in done
  <2> SUFFICES ASSUME NEW x \in Family(c), View(x) PROVE Bases(x)[1] \in Range(Bases(x))
    BY DEF Below
  <2>1. x \in Class
    BY FamilyOfBase
  <2>2. DOMAIN Bases(x) = 1..Len(Bases(x)) /\ Len(Bases(x)) = 1
    BY <2>1, SourceType DEF Shape, View
  <2> QED
    BY <2>2 DEF Range
<1>5. Plain(c)' <=> Plain(c)
  BY <1>1, <1>4 DEF Plain
<1> QED
  BY <1>3, <1>5

\* The floors are those of the class as it is by now.
LEMMA FloorsStay ==
  ASSUME NEW c, built'[c] = built[c]
  PROVE  Floors(c)' = Floors(c)
BY DEF Floors, Layer

\* What a class releases but for its parts.
Releases(c) == [i \in DOMAIN built[c].release |-> <<built[c].release[i]>>]

\* Without anything to release in its parts, a class releases its own thing.
LEMMA ChainOf ==
  ASSUME Shape, Contents, NEW c \in Class, NEW x \in Class, Partless(c),
         built[c].release = Bare(x).release
  PROVE  Chain(c) = Freed(x) /\ Releases(c) = Freed(x)
<1> DEFINE inPart(p) == [i \in DOMAIN built[p].cleanup |-> <<p>> \o built[p].cleanup[i]]
           parts == [i \in DOMAIN built[c].parts |-> inPart(built[c].parts[i])]
<1>1. built[c].parts \in Seq(Class) /\ DOMAIN built[c].parts = 1..Len(built[c].parts) /\ Len(built[c].parts) \in Nat
  <2>1. built[c].parts \in Seq(Class)
    BY DEF Shape, Built
  <2> QED
    BY <2>1, LenProperties
<1>2. ASSUME NEW i \in DOMAIN built[c].parts PROVE inPart(built[c].parts[i]) = <<>>
  <2>1. built[c].parts[i] \in FamilyParts(c)
    BY DEF Contents, Parted, Range
  <2>2. PICK y \in Family(c) : built[c].parts[i] \in Range(source[y].parts)
    BY <2>1 DEF FamilyParts
  <2>3. built[built[c].parts[i]].cleanup = <<>>
    BY <2>2 DEF Partless, Range
  <2> QED
    BY <2>3
<1>3. FlattenSeq(parts) = <<>>
  <2>1. parts \in [1..Len(built[c].parts) -> {<<>>}]
    BY <1>1, <1>2
  <2>2. parts \in Seq({<<>>}) /\ \A i \in 1..Len(parts) : parts[i] = <<>>
    <3> HIDE DEF parts
    <3> QED
      BY <1>1, <2>1
  <2> HIDE DEF parts
  <2> QED
    BY <2>2, FlattenNothing, SMTT(60)
<1>4. Releases(c) = Freed(x)
  <2>1. built[c].release = IF source[x].releases THEN <<x>> ELSE <<>>
    BY BareFields
  <2>2. [i \in DOMAIN <<x>> |-> << <<x>>[i] >>] = << <<x>> >>
    OBVIOUS
  <2>3. [i \in DOMAIN <<>> |-> << <<>>[i] >>] = <<>>
    OBVIOUS
  <2> QED
    BY <2>1, <2>2, <2>3 DEF Freed, Releases
<1>5. Freed(x) \o <<>> = Freed(x)
  BY FreedType, ConcatEmptySeq
<1> QED
  BY <1>3, <1>4, <1>5, Zenon DEF Chain, Releases

\* The floors a class will have when it is finished.
FloorsFor(c) ==
  IF LayersFor(c) # <<>> THEN LayersFor(c) ELSE <<Layer(Finished(c).acquire, Finished(c).cleanup)>>

\* What a class adds to the floors of its bases.
LEMMA OwnFloors ==
  ASSUME Shape, Contents, NEW c \in Class, Handed(c), Partless(c), NEW x \in Class,
         built[c].acquire = Bare(x).acquire, built[c].release = Bare(x).release
  PROVE  /\ OwnLayers(c) \in Seq(GoodFloors)
         /\ Len(built[c].acquire) > 1 => OwnLayers(c) # <<>> /\ TakenOf(OwnLayers(c)) = << <<x>> >>
         /\ ~(Len(built[c].acquire) > 1) =>
              /\ Layer(built[c].acquire, Chain(c)) \in GoodFloors
              /\ Takes(Layer(built[c].acquire, Chain(c))) = IF OwnLayered(x) THEN << <<x>> >> ELSE <<>>
              /\ OwnLayers(c) = IF built[c].own \/ Chain(c) # <<>>
                                THEN <<Layer(built[c].acquire, Chain(c))>> ELSE <<>>
         /\ Len(built[c].acquire) > 1 => OwnLayered(x)
<1>1. Chain(c) = Freed(x)
  BY ChainOf
<1>2. source \in Sources /\ Len(Bare(x).acquire) = source[x].calls /\ source[x].calls \in Nat
  BY StepsOf DEF Shape
<1>3. CASE Len(built[c].acquire) > 1
  <2>1. source[x].calls > 1
    BY <1>2, <1>3
  <2> DEFINE s == [i \in DOMAIN Bare(x).acquire |->
                     Layer(<<Bare(x).acquire[i]>>, IF Bare(x).acquire[i].marked THEN Freed(x) ELSE <<>>)]
  <2>2. s \in Seq(GoodFloors) /\ s # <<>> /\ TakenOf(s) = << <<x>> >>
    BY <1>2, <2>1, SeveralFloors
  <2>3. OwnLayers(c) = s
    BY <1>1, <1>3 DEF OwnLayers
  <2> HIDE DEF s
  <2>4. OwnLayered(x)
    BY <1>2, <2>1 DEF OwnLayered
  <2> QED
    BY <1>3, <2>2, <2>3, <2>4
<1>4. CASE ~(Len(built[c].acquire) > 1)
  <2> DEFINE f == Layer(built[c].acquire, Chain(c))
  <2>1. source[x].calls <= 1
    BY <1>2, <1>4
  <2>2. f \in GoodFloors /\ Takes(f) = IF OwnLayered(x) THEN << <<x>> >> ELSE <<>>
    BY <1>1, <1>2, <2>1, OneFloor
  <2>3. OwnLayers(c) = IF built[c].own \/ Chain(c) # <<>> THEN <<f>> ELSE <<>>
    BY <1>4 DEF OwnLayers
  <2> HIDE DEF f
  <2>4. <<f>> \in Seq(GoodFloors) /\ <<>> \in Seq(GoodFloors)
    BY <2>2, EmptySeq
  <2> QED
    BY <1>4, <2>2, <2>3, <2>4 DEF f
<1> QED
  BY <1>3, <1>4

\* A class has layers when it is layered.
LEMMA LayersAreThere ==
  ASSUME Shape, NEW c \in Class, Layered(c) \/ Len(built[c].acquire) > 1
  PROVE  BaseLayers(c) \o OwnLayers(c) # <<>>
<1>1. BaseLayers(c) \in Seq(Floor) /\ OwnLayers(c) \in Seq(Floor)
  BY BaseLayersType, OwnLayersType
<1>2. BaseLayers(c) # <<>> \/ OwnLayers(c) # <<>>
  <2>1. CASE Layered(c)
    <3> DEFINE rows == [i \in DOMAIN Bases(c) |-> LayersOf(Bases(c)[i])]
    <3>1. /\ Bases(c) # <<>> /\ Bases(c) \in Seq(Class) /\ Len(Bases(c)) \in Nat
          /\ DOMAIN Bases(c) = 1..Len(Bases(c)) /\ \A i \in DOMAIN Bases(c) : Bases(c)[i] \in Class
      BY <2>1, SourceType DEF Shape, Layered
    <3>2. 1 \in DOMAIN Bases(c)
      <4>1. Len(Bases(c)) # 0
        BY <3>1, EmptySeq
      <4> QED
        BY <3>1, <4>1
    <3>3. rows \in Seq(Seq(Floor))
      BY BaseLayersType
    <3>4. 1 \in DOMAIN rows /\ rows[1] \in Seq(Floor) /\ rows[1] # <<>>
      BY <3>1, <3>2, LayersOfType
    <3>5. 1 \in DOMAIN rows[1]
      BY <3>4, EmptySeq, LenProperties
    <3> HIDE DEF rows
    <3>6. PICK row, col : Places(rows, row, col)
      BY <3>3, FlattenPlaces
    <3>7. \E k \in DOMAIN FlattenSeq(rows) : row[k] = 1 /\ col[k] = 1
      BY <3>4, <3>5, <3>6, Zenon DEF Places
    <3>8. FlattenSeq(rows) # <<>>
      BY <3>7
    <3> QED
      BY <3>8 DEF BaseLayers, rows
  <2>2. CASE Len(built[c].acquire) > 1
    <3>1. built[c].acquire \in Seq(Call)
      BY DEF Shape, Built
    <3>2. 1 \in DOMAIN built[c].acquire
      BY <2>2, <3>1, LenProperties
    <3>3. DOMAIN OwnLayers(c) = DOMAIN built[c].acquire
      BY <2>2 DEF OwnLayers
    <3> QED
      BY <3>2, <3>3
  <2> QED
    BY <2>1, <2>2
<1> QED
  BY <1>1, <1>2, ConcatSimplifications

\* The floors of what is elaborated are good.
Towered ==
  \A c \in done :
    /\ built[c].layered <=> built[c].layers # <<>>
    /\ Partless(c) => /\ Floors(c) \in Seq(GoodFloors)
                      /\ ~built[c].layered => built[c].cleanup = Releases(c)

\* The layers a class takes over from its bases are their floors.
LEMMA BasesTowered ==
  ASSUME Shape, Order, Towered, NEW c \in Class, Range(Bases(c)) \subseteq done, Partless(c)
  PROVE  /\ \A b \in Range(Bases(c)) : Partless(b) /\ Floors(b) \in Seq(GoodFloors) /\ LayersOf(b) = Floors(b)
         /\ BaseLayers(c) = FlattenSeq([i \in DOMAIN Bases(c) |-> Floors(Bases(c)[i])])
         /\ [i \in DOMAIN Bases(c) |-> Floors(Bases(c)[i])] \in Seq(Seq(GoodFloors))
         /\ BaseLayers(c) \in Seq(GoodFloors)
<1> DEFINE f == [b \in Range(Bases(c)) |-> Floors(b)]
<1>1. ASSUME NEW b \in Range(Bases(c))
      PROVE  Partless(b) /\ Floors(b) \in Seq(GoodFloors) /\ LayersOf(b) = Floors(b)
  <2>1. Family(b) \subseteq Family(c)
    BY FamilyOfBase
  <2>2. Partless(b)
    BY <2>1 DEF Partless
  <2> QED
    BY <2>2 DEF Towered, LayersOf, Floors
<1>2. \A i \in DOMAIN Bases(c) : Bases(c)[i] \in Range(Bases(c))
  BY DEF Range
<1>3. Bases(c) \in Seq(Range(Bases(c)))
  BY <1>2, SourceType, SequenceOf DEF Shape
<1>4. /\ [i \in DOMAIN Bases(c) |-> f[Bases(c)[i]]] = [i \in DOMAIN Bases(c) |-> Floors(Bases(c)[i])]
      /\ [i \in DOMAIN Bases(c) |-> LayersOf(Bases(c)[i])] = [i \in DOMAIN Bases(c) |-> Floors(Bases(c)[i])]
  BY <1>1, <1>2
<1>5. \A b \in Range(Bases(c)) : f[b] \in Seq(GoodFloors)
  BY <1>1
<1> HIDE DEF f
<1>6. /\ [i \in DOMAIN Bases(c) |-> f[Bases(c)[i]]] \in Seq(Seq(GoodFloors))
      /\ FlattenSeq([i \in DOMAIN Bases(c) |-> f[Bases(c)[i]]]) \in Seq(GoodFloors)
  BY <1>3, <1>5, RowsType
<1> QED
  BY <1>1, <1>4, <1>6 DEF BaseLayers

\* The floors a class will have are good.
LEMMA FloorsForGood ==
  ASSUME Shape, Order, Contents, Towered, NEW c \in Haves, Range(Bases(c)) \subseteq done
  PROVE  /\ built[c].layered <=> LayersFor(c) # <<>>
         /\ Partless(c) => FloorsFor(c) \in Seq(GoodFloors)
         /\ Partless(c) /\ ~built[c].layered =>
              /\ Finished(c).cleanup = Releases(c) /\ ~(Len(built[c].acquire) > 1) /\ Chain(c) = Releases(c)
              /\ FloorsFor(c) = <<Layer(built[c].acquire, Chain(c))>>
<1>1. c \in Class /\ Handed(c)
  BY HavesWaited DEF Contents
<1>2. built[c].layered = (Layered(c) \/ Len(built[c].acquire) > 1)
  BY <1>1 DEF Handed
<1>3. built[c].layered <=> LayersFor(c) # <<>>
  BY <1>1, <1>2, LayersAreThere DEF LayersFor
<1>4. PICK x \in Family(c) : built[c].acquire = Bare(x).acquire /\ built[c].release = Bare(x).release
  BY <1>1 DEF Contents, Origin
<1>5. x \in Class
  BY <1>1, FamilyOfBase
<1>6. ASSUME Partless(c), built[c].layered PROVE FloorsFor(c) \in Seq(GoodFloors)
  <2>1. BaseLayers(c) \in Seq(GoodFloors) /\ OwnLayers(c) \in Seq(GoodFloors)
    BY <1>1, <1>4, <1>5, <1>6, BasesTowered, OwnFloors
  <2>2. BaseLayers(c) \o OwnLayers(c) \in Seq(GoodFloors)
    BY <2>1, ConcatProperties
  <2> QED
    BY <1>3, <1>6, <2>2 DEF FloorsFor, LayersFor
<1>7. ASSUME Partless(c), ~built[c].layered
      PROVE  /\ Finished(c).cleanup = Releases(c) /\ ~(Len(built[c].acquire) > 1) /\ Chain(c) = Releases(c)
             /\ FloorsFor(c) = <<Layer(built[c].acquire, Chain(c))>>
             /\ FloorsFor(c) \in Seq(GoodFloors)
  <2> DEFINE f == Layer(built[c].acquire, Chain(c))
  <2>1. Finished(c).cleanup = Chain(c) /\ Finished(c).acquire = built[c].acquire
    BY <1>1, <1>7, FinishedType
  <2>2. Chain(c) = Releases(c)
    BY <1>1, <1>4, <1>5, <1>7, ChainOf
  <2>3. ~(Len(built[c].acquire) > 1)
    BY <1>2, <1>7
  <2>4. f \in GoodFloors
    BY <1>1, <1>4, <1>5, <1>7, <2>3, OwnFloors
  <2>5. FloorsFor(c) = <<f>>
    BY <1>3, <1>7, <2>1 DEF FloorsFor
  <2> HIDE DEF f
  <2>6. <<f>> \in Seq(GoodFloors)
    BY <2>4
  <2> QED
    BY <2>1, <2>2, <2>3, <2>5, <2>6 DEF f
<1> QED
  BY <1>3, <1>6, <1>7

\* At Finish, the floors of a class are those, and those of the others stay.
LEMMA FinishFloors ==
  ASSUME Shape, Order, Contents, Finish, NEW c, c = Top.class
  PROVE  /\ c \in Haves /\ c \in Class /\ c \notin done /\ Range(Bases(c)) \subseteq done /\ done' = done \cup {c}
         /\ Floors(c)' = FloorsFor(c) /\ built'[c] = Finished(c)
         /\ (Partless(c)' <=> Partless(c)) /\ (Plain(c)' <=> Plain(c))
         /\ Releases(c)' = Releases(c)
         /\ source' = source /\ \A x \in done : built'[x] = built[x]
<1>1. /\ Below(c) /\ c \in Class /\ c \notin done /\ c \in Haves
      /\ \A b \in Range(Bases(c)) : b \in done
  BY BelowFinish
<1>2. /\ source' = source /\ done' = done \cup {c}
      /\ \A x \in Class \ {c} : built'[x] = built[x]
      /\ built'[c] = Finished(c)
  BY FinishMoves
<1>3. \A x \in done : built'[x] = built[x]
  BY <1>1, <1>2 DEF Shape
<1>4. (Partless(c)' <=> Partless(c)) /\ (Plain(c)' <=> Plain(c))
  BY <1>1, <1>2, <1>3, BelowStays
<1>5. Finished(c).layers = LayersFor(c) /\ Finished(c).release = built[c].release
  BY <1>1, FinishedType
<1>6. Floors(c)' = FloorsFor(c)
  BY <1>2, <1>5 DEF Floors, FloorsFor, Layer
<1>7. Releases(c)' = Releases(c)
  BY <1>2, <1>5 DEF Releases
<1> QED
  BY <1>1, <1>2, <1>3, <1>4, <1>6, <1>7

\* No other action touches what is elaborated.
LEMMA DoneStays ==
  ASSUME Shape, Order, Contents, [Next]_vars, ~Finish
  PROVE  source' = source /\ done' = done /\ \A x \in done : built'[x] = built[x]
<1>1. CASE Merge
  <2>1. Top.class \in Class \ Haves
    BY <1>1, HavesMove
  <2> QED
    BY <1>1, <2>1, MergeMoves DEF Haves, Shape
<1>2. CASE ~Merge
  BY <1>2 DEF Next, Elab, Stopped, Begin, Seen, Descend, FindCycle, Refuse, End, vars
<1> QED
  BY <1>1, <1>2

\* What is known of an elaborated class stays while the class does.
LEMMA ToweredStays ==
  ASSUME Shape, Order, Contents, Towered, source' = source, \A x \in done : built'[x] = built[x],
         NEW c \in done
  PROVE  /\ (Partless(c)' <=> Partless(c)) /\ (Plain(c)' <=> Plain(c))
         /\ Floors(c)' = Floors(c) /\ Releases(c)' = Releases(c)
<1>1. c \in Class /\ Below(c)
  BY BelowDone DEF Shape
<1>2. (Partless(c)' <=> Partless(c)) /\ (Plain(c)' <=> Plain(c))
  BY <1>1, BelowStays
<1>3. Floors(c)' = Floors(c)
  BY FloorsStay
<1>4. Releases(c)' = Releases(c)
  BY DEF Releases
<1> QED
  BY <1>2, <1>3, <1>4

\* Every step keeps the floors good.
LEMMA ToweredStep ==
  ASSUME Shape, Order, Contents, Towered, [Next]_vars PROVE Towered'
<1>0. GoodFloors' = GoodFloors
  <2>1. source' = source
    BY DoneStays, FinishMoves
  <2> QED
    BY <2>1 DEF GoodFloors, Good, Freed
<1>1. ASSUME NEW c \in done, source' = source, \A x \in done : built'[x] = built[x]
      PROVE  /\ (built[c].layered <=> built[c].layers # <<>>)'
             /\ (Partless(c) => /\ Floors(c) \in Seq(GoodFloors)
                                /\ ~built[c].layered => built[c].cleanup = Releases(c))'
  BY <1>0, <1>1, ToweredStays DEF Towered
<1>2. CASE Finish
  <2>1. PICK c : c = Top.class
    OBVIOUS
  <2>2. /\ c \in Haves /\ c \in Class /\ c \notin done /\ Range(Bases(c)) \subseteq done /\ done' = done \cup {c}
        /\ Floors(c)' = FloorsFor(c) /\ built'[c] = Finished(c)
        /\ (Partless(c)' <=> Partless(c)) /\ Releases(c)' = Releases(c)
        /\ source' = source /\ \A x \in done : built'[x] = built[x]
    BY <1>2, <2>1, FinishFloors
  <2>3. Finished(c).layers = LayersFor(c) /\ Finished(c).layered = built[c].layered
    BY <2>2, FinishedType
  <2>4. /\ (built[c].layered <=> built[c].layers # <<>>)'
        /\ (Partless(c) => /\ Floors(c) \in Seq(GoodFloors)
                           /\ ~built[c].layered => built[c].cleanup = Releases(c))'
    BY <1>0, <2>2, <2>3, FloorsForGood
  <2> QED
    BY <1>1, <2>2, <2>4 DEF Towered
<1>3. CASE ~Finish
  BY <1>1, <1>3, DoneStays DEF Towered
<1> QED
  BY <1>2, <1>3

\* Nothing has floors yet.
LEMMA ToweredInit ==
  ASSUME Init PROVE Towered
BY DEF Init, Towered

\* The invariant on what is elaborated.
Inv == Shape /\ Order /\ Contents /\ Towered

\* The invariant holds of every program's classes.
THEOREM Elaborated == Spec => []Inv
<1>1. Init => Inv
  BY ShapeInit, OrderInit, ContentsInit, ToweredInit DEF Inv
<1>2. Inv /\ [Next]_vars => Inv'
  BY ShapeStep, OrderStep, ContentsStep, ToweredStep DEF Inv
<1> QED
  BY <1>1, <1>2, PTL DEF Spec

\* The floors of an instance are floors.
LEMMA FloorsType ==
  ASSUME Shape, NEW c \in Class
  PROVE  Floors(c) \in Seq(Floor)
BY LayersOfType DEF Floors, LayersOf

\* What the lowest floors take, and give back.
LEMMA LowestFloors ==
  ASSUME Shape, NEW c \in Class, NEW k \in 0..Len(Floors(c))
  PROVE  /\ Taken(c, k) = TakenOf(SubSeq(Floors(c), 1, k))
         /\ AllTaken(c) = TakenOf(Floors(c))
<1> DEFINE s == Floors(c)
           n == Len(s)
           low == SubSeq(s, 1, k)
<1>1. s \in Seq(Floor) /\ n \in Nat /\ DOMAIN s = 1..n /\ \A i \in 1..n : s[i] \in Floor
  BY FloorsType, LenProperties, ElementOfSeq
<1>2. /\ \A j : Taken(c, j) = FlattenSeq([i \in 1..j |-> Takes(s[i])])
      /\ AllTaken(c) = Taken(c, n) /\ k \in 0..n
  BY DEF Taken, AllTaken
<1> HIDE DEF s
<1>3. low \in Seq(Floor) /\ DOMAIN low = 1..k /\ \A i \in 1..k : low[i] = s[i] /\ s[i] \in Floor
  <2>1. low \in Seq(Floor) /\ Len(low) = k /\ \A i \in 1..k : low[i] = s[i]
    BY <1>1, <1>2, SubSeqType
  <2>2. k \in Nat /\ \A i \in 1..k : i \in 1..n
    BY <1>1, <1>2
  <2> HIDE DEF low
  <2> QED
    BY <1>1, <2>1, <2>2, LenProperties
<1> HIDE DEF low
<1>4. [i \in DOMAIN low |-> Taking[low[i]]] = [i \in 1..k |-> Takes(s[i])]
  BY <1>3 DEF Taking
<1>5. [i \in DOMAIN s |-> Taking[s[i]]] = [i \in 1..n |-> Takes(s[i])]
  BY <1>1 DEF Taking
<1> QED
  BY <1>2, <1>4, <1>5 DEF TakenOf, Through, low, s

\* mereoc.py:72, "a failure at layer k releases layers k-1..1 in reverse and runs
\* no release for k": however a class without releases in its parts is composed,
\* the tower of its instances gives back what was taken, newest first.
THEOREM TowerMirrored == Spec => []TowerMirrors
<1>1. Inv => TowerMirrors
  <2> SUFFICES ASSUME Inv, NEW c \in done, Partless(c), NEW k \in 0..Len(Floors(c))
               PROVE  GivenBack(c, k) = Reverse(Releasable(Taken(c, k)))
    BY DEF TowerMirrors
  <2>1. c \in Class /\ Floors(c) \in Seq(GoodFloors)
    BY DEF Inv, Shape, Towered
  <2>2. SubSeq(Floors(c), 1, k) \in Seq(GoodFloors)
    BY <2>1, SubSeqType
  <2>3. Taken(c, k) = TakenOf(SubSeq(Floors(c), 1, k))
    BY <2>1, LowestFloors DEF Inv
  <2> QED
    BY <2>2, <2>3, Mirrors DEF GivenBack
<1> QED
  BY <1>1, Elaborated, PTL

-----------------------------------------------------------------------------
(* The order in which an instance takes its things.                        *)

\* What BasesFirst says of one class.
First(c, taken) ==
  LET before(x, y) == \A i, j \in DOMAIN taken : taken[i] = <<x>> /\ taken[j] = <<y>> => i < j
  IN  /\ IsInjective(taken)
      /\ Range(taken) = {<<x>> : x \in {y \in Family(c) : OwnLayered(y)}}
      /\ \A x \in Family(c) : \A y \in Family(x) \ {x} : before(y, x)
      /\ \A x \in Family(c) : \A i, j \in DOMAIN Bases(x) : i < j =>
           \A y \in Family(Bases(x)[i]), z \in Family(Bases(x)[j]) : before(y, z)

\* A base of a plain class is plain.
LEMMA PlainBelow ==
  ASSUME Shape, NEW c \in Class, Plain(c), NEW b \in Range(Bases(c))
  PROVE  Plain(b)
<1>1. Family(b) \subseteq Family(c)
  BY FamilyOfBase
<1> QED
  BY <1>1 DEF Plain

\* The families of the bases of a class have nothing in common.
LEMMA FamiliesApart ==
  ASSUME Shape, NEW c \in Class, Plain(c),
         \A b \in Range(Bases(c)) : c \notin Family(b),
         NEW i \in DOMAIN Bases(c), NEW j \in DOMAIN Bases(c), i # j
  PROVE  Family(Bases(c)[i]) \cap Family(Bases(c)[j]) = {}
<1> DEFINE b == Bases(c)[i]
           d == Bases(c)[j]
           s == Family(b) \ Family(d)
<1>1. /\ b \in Range(Bases(c)) /\ d \in Range(Bases(c)) /\ b \in Class /\ d \in Class
      /\ c \notin Family(b) /\ c \notin Family(d) /\ c \in Family(c)
      /\ Family(b) \subseteq Family(c) /\ Family(d) \subseteq Family(c) /\ Family(c) \subseteq Class
      /\ d \in Family(d) /\ b \in Family(b)
  BY FamilyOfBase DEF Range
<1>2. \A x, y \in Family(c) : \A k \in DOMAIN Bases(x), l \in DOMAIN Bases(y) :
        Bases(x)[k] = Bases(y)[l] => x = y /\ k = l
  BY DEF Plain
<1>3. /\ Extension \in [Class -> SUBSET Class] /\ Family(b) = Closure(b, Extension)
      /\ Family(d) = Closure(d, Extension) /\ \A x \in Class : Extension[x] = Range(Bases(x))
  BY <1>1, StepsType, FamilyClosure DEF Extension
<1>4. \A x, y \in Family(c) : Extension[x] \cap Extension[y] # {} => x = y
  BY <1>1, <1>2, <1>3 DEF Range
<1>5. b \in Extension[c] /\ d \in Extension[c] /\ b # d
  BY <1>1, <1>2, <1>3
<1> HIDE DEF b, d
<1>6. ASSUME NEW e \in Family(d), NEW x \in Family(b), e \in Extension[x] PROVE x \in Family(d)
  <2>1. CASE e = d
    BY <1>1, <1>4, <1>5, <1>6, <2>1
  <2>2. CASE e # d
    <3>1. PICK y \in Family(d) : e \in Extension[y]
      BY <1>1, <1>3, <2>2, ClosureParent
    <3> QED
      BY <1>1, <1>4, <1>6, <3>1
  <2> QED
    BY <2>1, <2>2
<1>7. b \notin Family(d)
  <2> SUFFICES ASSUME b \in Family(d) PROVE FALSE
    OBVIOUS
  <2>1. PICK y \in Family(d) : b \in Extension[y]
    BY <1>1, <1>3, <1>5, ClosureParent
  <2> QED
    BY <1>1, <1>4, <1>5, <2>1
<1>8. \A x \in s : Extension[x] \subseteq s
  <2> SUFFICES ASSUME NEW x \in s, NEW e \in Extension[x] PROVE e \in s
    OBVIOUS
  <2>1. e \in Family(b)
    BY <1>1, <1>3, ClosureStep
  <2> QED
    BY <1>6, <2>1
<1>9. Family(b) \subseteq s
  <2>1. s \in SUBSET Class /\ b \in s
    BY <1>1, <1>7
  <2> HIDE DEF s
  <2> QED
    BY <1>1, <1>3, <1>8, <2>1, ClosureLeast
<1> QED
  BY <1>9 DEF b, d

\* What an instance takes for the class itself.
OwnThing(c) == IF OwnLayered(c) THEN << <<c>> >> ELSE <<>>

\* Bases that each take their things in order, one after another, and then the
\* class's own.
LEMMA FirstOf ==
  ASSUME Shape, NEW c \in Class, Plain(c), \A b \in Range(Bases(c)) : c \notin Family(b),
         NEW W \in Seq(Seq(Things)), Len(W) = Len(Bases(c)) + 1,
         \A i \in DOMAIN Bases(c) : First(Bases(c)[i], W[i]),
         W[Len(W)] = OwnThing(c)
  PROVE  First(c, FlattenSeq(W))
<1> DEFINE n == Len(Bases(c))
           F(i) == Family(Bases(c)[i])
           taken == FlattenSeq(W)
<1>1. /\ n \in Nat /\ DOMAIN Bases(c) = 1..n /\ Len(W) = n + 1 /\ DOMAIN W = 1..(n + 1)
      /\ \A i \in 1..n : Bases(c)[i] \in Range(Bases(c)) /\ Bases(c)[i] \in Class
      /\ \A i \in 1..(n + 1) : i \in 1..n \/ i = n + 1
  BY SourceType, LenProperties DEF Shape, Range
<1>2. \A i \in 1..n : c \notin F(i) /\ F(i) \subseteq Family(c)
  BY <1>1, FamilyOfBase
<1>3. \A i, j \in 1..n : \A x \in F(i) : x \in F(j) => i = j
  BY <1>1, FamiliesApart
<1>4. c \in Family(c) /\ \A x \in Family(c) : x = c \/ \E i \in 1..n : x \in F(i)
  BY <1>1, FamilyOfBase DEF Range
<1>5. \A i \in 1..n : First(Bases(c)[i], W[i])
  BY <1>1
<1>6. /\ DOMAIN W[n + 1] = IF OwnLayered(c) THEN {1} ELSE {}
      /\ \A k \in DOMAIN W[n + 1] : W[n + 1][k] = <<c>>
  BY <1>1 DEF OwnThing
<1>7. \A i \in 1..n : \A x \in F(i) : Family(x) \subseteq F(i)
  BY <1>1, FamilyOfBase
<1>8. PICK row, col : Places(W, row, col)
  BY FlattenPlaces
<1>9. taken \in Seq(Things) /\ DOMAIN taken = 1..Len(taken) /\ Len(taken) \in Nat
  BY FlattenType, LenProperties
<1> DEFINE all == DOMAIN taken
<1>10. /\ \A k \in all : /\ row[k] \in 1..(n + 1) /\ col[k] \in Nat /\ col[k] \in DOMAIN W[row[k]]
                         /\ taken[k] = W[row[k]][col[k]] /\ k \in Nat
       /\ \A k, l \in all : k < l => row[k] < row[l] \/ (row[k] = row[l] /\ col[k] < col[l])
       /\ \A i \in 1..(n + 1) : \A j \in DOMAIN W[i] : \E k \in all : row[k] = i /\ col[k] = j
  <2>1. \A k \in all : k \in Nat
    BY <1>9
  <2> QED
    BY <1>1, <1>8, <2>1 DEF Places
<1> HIDE DEF n, F, taken, all
<1>11. \A k, l \in all : (row[k] < row[l] \/ (row[k] = row[l] /\ col[k] < col[l])) => k < l
  <2> SUFFICES ASSUME NEW k \in all, NEW l \in all, row[k] < row[l] \/ (row[k] = row[l] /\ col[k] < col[l]),
                      ~(k < l)
               PROVE  FALSE
    OBVIOUS
  <2>1. k = l \/ l < k
    BY <1>10
  <2>2. row[k] \in Nat /\ row[l] \in Nat /\ col[k] \in Nat /\ col[l] \in Nat
    BY <1>1, <1>10, SMTT(60)
  <2>3. ~(l < k)
    BY <1>10, <2>2
  <2> QED
    BY <2>1, <2>2, <2>3
\* The members of the row of a base are its family's.
<1>12. ASSUME NEW k \in all, row[k] \in 1..n
       PROVE  \E x \in F(row[k]) : OwnLayered(x) /\ taken[k] = <<x>>
  <2>1. /\ taken[k] \in Range(W[row[k]])
    BY <1>10 DEF Range
  <2>2. Range(W[row[k]]) = {<<x>> : x \in {y \in F(row[k]) : OwnLayered(y)}}
    BY <1>5, <1>12 DEF First, F
  <2> QED
    BY <2>1, <2>2
<1>13. \A k \in all : row[k] = n + 1 => taken[k] = <<c>> /\ OwnLayered(c)
  BY <1>6, <1>10
\* The row of a thing is that of the base whose family has it.
<1>14. ASSUME NEW k \in all, NEW x, taken[k] = <<x>>
       PROVE  /\ x = c => row[k] = n + 1
              /\ \A i \in 1..n : x \in F(i) => row[k] = i
  <2>1. \A y : <<y>> = <<x>> => y = x
    OBVIOUS
  <2>2. row[k] \in 1..n \/ row[k] = n + 1
    BY <1>1, <1>10
  <2>3. CASE row[k] = n + 1
    BY <1>2, <1>13, <1>14, <2>1, <2>3
  <2>4. CASE row[k] \in 1..n
    <3>1. x \in F(row[k])
      BY <1>12, <1>14, <2>1, <2>4
    <3> QED
      BY <1>2, <1>3, <2>4, <3>1
  <2> QED
    BY <2>2, <2>3, <2>4
<1>15. IsInjective(taken)
  <2> SUFFICES ASSUME NEW k \in all, NEW l \in all, taken[k] = taken[l] PROVE k = l
    BY DEF IsInjective, all
  <2>1. row[k] \in 1..n \/ row[k] = n + 1
    BY <1>1, <1>10
  <2>2. row[l] = row[k] /\ col[l] = col[k]
    <3>1. CASE row[k] \in 1..n
      <4>1. PICK x \in F(row[k]) : taken[k] = <<x>>
        BY <1>12, <3>1
      <4>2. row[l] = row[k]
        BY <1>14, <3>1, <4>1
      <4>3. IsInjective(W[row[k]])
        BY <1>5, <3>1 DEF First
      <4> QED
        BY <1>10, <4>2, <4>3, SMTT(60) DEF IsInjective
    <3>2. CASE row[k] = n + 1
      <4>1. taken[l] = <<c>>
        BY <1>13, <3>2
      <4>2. row[l] = n + 1
        BY <1>14, <4>1
      <4>3. col[k] = 1 /\ col[l] = 1
        BY <1>6, <1>10, <3>2, <4>2
      <4> QED
        BY <3>2, <4>2, <4>3
    <3> QED
      BY <2>1, <3>1, <3>2
  <2>3. /\ ~(k < l) /\ ~(l < k)
    <3>1. row[k] \in Nat /\ col[k] \in Nat
      BY <1>1, <1>10
    <3> QED
      BY <1>10, <2>2, <3>1
  <2> QED
    BY <1>10, <2>3
<1>16. Range(taken) = {<<x>> : x \in {y \in Family(c) : OwnLayered(y)}}
  <2>1. ASSUME NEW k \in all PROVE \E x \in Family(c) : OwnLayered(x) /\ taken[k] = <<x>>
    <3>1. row[k] \in 1..n \/ row[k] = n + 1
      BY <1>1, <1>10
    <3> QED
      BY <1>2, <1>4, <1>12, <1>13, <3>1
  <2>2. ASSUME NEW x \in Family(c), OwnLayered(x) PROVE \E k \in all : taken[k] = <<x>>
    <3>1. CASE x = c
      <4>1. 1 \in DOMAIN W[n + 1] /\ W[n + 1][1] = <<c>>
        BY <1>6, <2>2, <3>1
      <4>2. PICK k \in all : row[k] = n + 1 /\ col[k] = 1
        BY <1>1, <1>10, <4>1
      <4> QED
        BY <1>10, <3>1, <4>1, <4>2, SMTT(60)
    <3>2. ASSUME NEW i \in 1..n, x \in F(i) PROVE \E k \in all : taken[k] = <<x>>
      <4>1. <<x>> \in Range(W[i])
        BY <1>5, <2>2, <3>2 DEF First, F
      <4>2. PICK j \in DOMAIN W[i] : W[i][j] = <<x>>
        BY <4>1 DEF Range
      <4>3. PICK k \in all : row[k] = i /\ col[k] = j
        BY <1>1, <1>10, <4>2
      <4> QED
        BY <1>10, <4>2, <4>3
    <3> QED
      BY <1>4, <3>1, <3>2
  <2> QED
    BY <2>1, <2>2 DEF Range, all
<1>17. ASSUME NEW x \in Family(c), NEW y \in Family(x) \ {x}, NEW k \in all, NEW l \in all,
              taken[k] = <<y>>, taken[l] = <<x>>
       PROVE  k < l
  <2>1. CASE x = c
    <3>1. PICK i \in 1..n : y \in F(i)
      BY <1>4, <2>1
    <3>2. row[k] = i /\ row[l] = n + 1
      BY <1>14, <1>17, <2>1, <3>1
    <3> QED
      BY <1>1, <1>11, <3>1, <3>2
  <2>2. ASSUME NEW i \in 1..n, x \in F(i) PROVE k < l
    <3>1. y \in F(i)
      BY <1>7, <2>2
    <3>2. row[k] = i /\ row[l] = i
      BY <1>14, <1>17, <2>2, <3>1
    <3>3. \A p, q \in DOMAIN W[i] : W[i][p] = <<y>> /\ W[i][q] = <<x>> => p < q
      BY <1>5, <2>2 DEF First, F
    <3>4. /\ col[k] \in DOMAIN W[i] /\ W[i][col[k]] = <<y>>
          /\ col[l] \in DOMAIN W[i] /\ W[i][col[l]] = <<x>>
      BY <1>10, <1>17, <3>2, Zenon
    <3>5. col[k] < col[l]
      BY <3>3, <3>4
    <3> QED
      BY <1>11, <3>2, <3>5
  <2> QED
    BY <1>4, <2>1, <2>2
<1>18. ASSUME NEW x \in Family(c), NEW i \in DOMAIN Bases(x), NEW j \in DOMAIN Bases(x), i < j,
              NEW y \in Family(Bases(x)[i]), NEW z \in Family(Bases(x)[j]), NEW k \in all, NEW l \in all,
              taken[k] = <<y>>, taken[l] = <<z>>
       PROVE  k < l
  <2>1. CASE x = c
    <3>1. i \in 1..n /\ j \in 1..n /\ y \in F(i) /\ z \in F(j)
      BY <1>1, <2>1 DEF F
    <3>2. row[k] = i /\ row[l] = j
      BY <1>14, <1>18, <3>1
    <3> QED
      BY <1>11, <1>18, <3>2
  <2>2. ASSUME NEW m \in 1..n, x \in F(m) PROVE k < l
    <3>1. y \in F(m) /\ z \in F(m)
      <4>1. x \in Class
        BY FamilyOfBase
      <4>2. Family(Bases(x)[i]) \subseteq Family(x) /\ Family(Bases(x)[j]) \subseteq Family(x)
        BY <4>1, FamilyOfBase DEF Range
      <4> QED
        BY <1>7, <2>2, <4>2
    <3>2. row[k] = m /\ row[l] = m
      BY <1>14, <1>18, <2>2, <3>1
    <3>3. \A p, q \in DOMAIN W[m] : W[m][p] = <<y>> /\ W[m][q] = <<z>> => p < q
      BY <1>5, <1>18, <2>2 DEF First, F
    <3>4. /\ col[k] \in DOMAIN W[m] /\ W[m][col[k]] = <<y>>
          /\ col[l] \in DOMAIN W[m] /\ W[m][col[l]] = <<z>>
      BY <1>10, <1>18, <3>2, Zenon
    <3>5. col[k] < col[l]
      BY <3>3, <3>4
    <3> QED
      BY <1>11, <3>2, <3>5
  <2> QED
    BY <1>4, <2>1, <2>2
<1> QED
  BY <1>15, <1>16, <1>17, <1>18 DEF First, all, taken

\* What an instance takes for the bases of a class, one after another.
BasesThings(c) == [i \in DOMAIN Bases(c) |-> TakenOf(Floors(Bases(c)[i]))]

\* A single floor.
LEMMA TakenOne ==
  ASSUME NEW f \in Floor
  PROVE  TakenOf(<<f>>) = Takes(f)
<1>1. Takes(f) \in Seq(Seq(Class)) /\ <<f>> \in Seq(Floor)
  BY TakesType
<1>2. [i \in DOMAIN <<f>> |-> Taking[<<f>>[i]]] = <<Takes(f)>>
  BY DEF Taking
<1>3. FlattenSeq(<<Takes(f)>>) = Takes(f)
  <2> DEFINE t == Takes(f)
  <2>1. t \in Seq(Seq(Class))
    BY <1>1
  <2> HIDE DEF t
  <2>2. FlattenSeq(<<t>>) = t
    BY <2>1, FlattenOne
  <2> QED
    BY <2>2 DEF t
<1> QED
  BY <1>2, <1>3 DEF TakenOf, Through

\* The class's own thing is one thing or none.
LEMMA OwnThingType ==
  ASSUME NEW c \in Class
  PROVE  OwnThing(c) \in Seq(Things)
<1>1. << <<c>> >> \in Seq(Things)
  <2> DEFINE t == <<c>>
  <2>1. t \in Things
    BY ReleasableType
  <2> HIDE DEF t
  <2>2. <<t>> \in Seq(Things)
    BY <2>1
  <2> QED
    BY <2>2 DEF t
<1> QED
  BY <1>1, EmptySeq DEF OwnThing

\* A class that is no view adds its own thing.
LEMMA OwnTaken ==
  ASSUME Shape, Contents, NEW c \in Class, Handed(c), Partless(c), ~View(c)
  PROVE  /\ OwnLayers(c) \in Seq(GoodFloors)
         /\ Layered(c) \/ Len(built[c].acquire) > 1 => TakenOf(OwnLayers(c)) = OwnThing(c)
         /\ ~(Len(built[c].acquire) > 1) =>
              TakenOf(<<Layer(built[c].acquire, Chain(c))>>) = OwnThing(c)
<1> DEFINE f == Layer(built[c].acquire, Chain(c))
<1>1. /\ built[c].acquire = Bare(c).acquire /\ built[c].release = Bare(c).release
      /\ built[c].own = ((Layered(c) /\ OwnLayered(c)) \/ Len(built[c].acquire) > 1)
  BY DEF Handed
<1>2. /\ OwnLayers(c) \in Seq(GoodFloors)
      /\ Len(built[c].acquire) > 1 => TakenOf(OwnLayers(c)) = << <<c>> >> /\ OwnLayered(c)
      /\ ~(Len(built[c].acquire) > 1) =>
           /\ f \in GoodFloors /\ Takes(f) = IF OwnLayered(c) THEN << <<c>> >> ELSE <<>>
           /\ OwnLayers(c) = IF built[c].own \/ Chain(c) # <<>> THEN <<f>> ELSE <<>>
  BY <1>1, OwnFloors
<1>3. Chain(c) = Freed(c)
  BY <1>1, ChainOf
<1> HIDE DEF f
<1>4. ASSUME ~(Len(built[c].acquire) > 1)
      PROVE  /\ TakenOf(<<f>>) = OwnThing(c)
             /\ Layered(c) => TakenOf(OwnLayers(c)) = OwnThing(c)
  <2>1. TakenOf(<<f>>) = OwnThing(c)
    BY <1>2, <1>4, TakenOne DEF OwnThing, GoodFloors
  <2>2. CASE OwnLayered(c)
    BY <1>1, <1>2, <1>4, <2>1, <2>2
  <2>3. CASE ~OwnLayered(c)
    <3>1. Chain(c) = <<>>
      BY <1>3, <2>3 DEF Freed, OwnLayered
    <3>2. Layered(c) => OwnLayers(c) = <<>>
      BY <1>1, <1>2, <1>4, <2>3, <3>1
    <3>3. TakenOf(<<>>) = <<>>
      BY ThroughEmpty DEF TakenOf
    <3> QED
      BY <2>1, <2>3, <3>2, <3>3 DEF OwnThing
  <2> QED
    BY <2>1, <2>2, <2>3
<1>5. Len(built[c].acquire) > 1 => TakenOf(OwnLayers(c)) = OwnThing(c)
  BY <1>2 DEF OwnThing
<1> QED
  BY <1>2, <1>4, <1>5 DEF f

\* What the bases' layers take is what the bases take.
LEMMA BasesThingsType ==
  ASSUME Shape, Order, Towered, NEW c \in Class, Range(Bases(c)) \subseteq done, Partless(c)
  PROVE  /\ BasesThings(c) \in Seq(Seq(Things))
         /\ TakenOf(BaseLayers(c)) = FlattenSeq(BasesThings(c))
<1> DEFINE s == [i \in DOMAIN Bases(c) |-> Floors(Bases(c)[i])]
<1>1. /\ s \in Seq(Seq(GoodFloors)) /\ BaseLayers(c) = FlattenSeq(s)
      /\ \A b \in Range(Bases(c)) : Floors(b) \in Seq(GoodFloors)
  BY BasesTowered
<1>2. BasesThings(c) \in Seq(Seq(Things))
  <2>1. \A i \in DOMAIN Bases(c) : TakenOf(Floors(Bases(c)[i])) \in Seq(Things)
    BY <1>1, Mirrors DEF Range
  <2>2. BasesThings(c) \in [1..Len(Bases(c)) -> Seq(Things)] /\ Len(Bases(c)) \in Nat
    BY <2>1, SourceType DEF Shape, BasesThings
  <2> QED
    BY <2>2
<1>3. BasesThings(c) = [i \in DOMAIN s |-> TakenOf(s[i])]
  BY DEF BasesThings
<1> HIDE DEF s
<1>4. s \in Seq(Seq(Floor))
  BY <1>1, SeqMonotonic DEF GoodFloors
<1>5. Rewrites(Taking, Floor, Seq(Class))
  BY TakenType
<1>6. Through(Taking, FlattenSeq(s)) = FlattenSeq([i \in DOMAIN s |-> Through(Taking, s[i])])
  BY <1>4, <1>5, ThroughFlatten
<1> QED
  BY <1>1, <1>2, <1>3, <1>6 DEF TakenOf

\* An instance takes what its bases take, in the order written, then its own.
LEMMA TakesInOrder ==
  ASSUME Shape, Order, Contents, Towered, NEW c \in Haves, Range(Bases(c)) \subseteq done,
         Plain(c), Partless(c)
  PROVE  TakenOf(FloorsFor(c)) = FlattenSeq(BasesThings(c)) \o OwnThing(c)
<1> DEFINE taken == FlattenSeq(BasesThings(c))
<1>1. /\ c \in Class /\ Handed(c) /\ c \in Family(c)
      /\ Bases(c) \in Seq(Class) /\ DOMAIN Bases(c) = 1..Len(Bases(c)) /\ Len(Bases(c)) \in Nat
  BY HavesWaited, FamilyOfBase, SourceType DEF Contents, Shape
<1>2. taken \in Seq(Things) /\ BasesThings(c) \in Seq(Seq(Things)) /\ TakenOf(BaseLayers(c)) = taken
  BY <1>1, BasesThingsType, FlattenType
<1>3. OwnThing(c) \in Seq(Things)
  BY <1>1, OwnThingType
<1>4. taken \o <<>> = taken /\ <<>> \o OwnThing(c) = OwnThing(c)
  <2> HIDE DEF taken
  <2> QED
    BY <1>2, <1>3, ConcatEmptySeq
<1>5. /\ built[c].layered <=> LayersFor(c) # <<>>
      /\ ~built[c].layered =>
           /\ ~(Len(built[c].acquire) > 1) /\ Chain(c) = Releases(c)
           /\ FloorsFor(c) = <<Layer(built[c].acquire, Chain(c))>>
  BY FloorsForGood
<1>6. built[c].layered = (Layered(c) \/ Len(built[c].acquire) > 1)
  BY <1>1 DEF Handed
<1>7. CASE View(c)
  <2> DEFINE b == Bases(c)[1]
  <2>1. /\ Len(Bases(c)) = 1 /\ ~Layered(c) /\ Bases(c) # <<>> /\ b \in Range(Bases(c)) /\ b \in done
        /\ b \in Class /\ ~built[b].layered
    <3>1. Len(Bases(c)) = 1 /\ ~Layered(c)
      BY <1>7 DEF View
    <3>2. b \in Range(Bases(c)) /\ Bases(c) # <<>>
      <4>1. 1 \in DOMAIN Bases(c) /\ Len(<<>>) = 0
        BY <1>1, <3>1
      <4>2. Bases(c) # <<>>
        BY <3>1, <4>1
      <4> QED
        BY <4>1, <4>2 DEF Range
    <3>3. ~built[b].layered
      BY <1>1, <1>7 DEF Plain
    <3> QED
      BY <1>1, <3>1, <3>2, <3>3 DEF Shape
  <2>2. ~OwnLayered(c)
    BY <2>1 DEF Layered
  <2>3. built[c].acquire = built[b].acquire /\ built[c].release = built[b].release
    BY <1>1, <1>7 DEF Handed
  <2>4. ~(Len(built[b].acquire) > 1)
    <3>1. Handed(b)
      BY <2>1 DEF Contents, Haves
    <3> QED
      BY <2>1, <3>1 DEF Handed
  <2>5. Partless(b)
    BY <1>1, <2>1, BasesTowered
  <2>6. Floors(b) = <<Layer(built[b].acquire, Releases(b))>>
    BY <2>1, <2>5 DEF Towered, Floors
  <2>7. Releases(c) = Releases(b)
    BY <2>3 DEF Releases
  <2>8. FloorsFor(c) = Floors(b)
    BY <1>5, <1>6, <2>1, <2>3, <2>4, <2>6, <2>7
  <2>9. BasesThings(c) = <<TakenOf(Floors(b))>>
    BY <1>1, <2>1 DEF BasesThings
  <2>10. taken = TakenOf(Floors(b))
    <3> DEFINE t == TakenOf(Floors(b))
    <3>1. t \in Seq(Things)
      BY <1>1, <2>1, BasesTowered, Mirrors
    <3>2. FlattenSeq(<<t>>) = t
      <4> HIDE DEF t
      <4> QED
        BY <3>1, FlattenOne
    <3> QED
      BY <2>9, <3>2
  <2> QED
    BY <1>4, <2>2, <2>8, <2>10 DEF OwnThing
<1>8. CASE ~View(c)
  <2>1. /\ OwnLayers(c) \in Seq(GoodFloors)
        /\ Layered(c) \/ Len(built[c].acquire) > 1 => TakenOf(OwnLayers(c)) = OwnThing(c)
        /\ ~(Len(built[c].acquire) > 1) =>
             TakenOf(<<Layer(built[c].acquire, Chain(c))>>) = OwnThing(c)
    BY <1>1, <1>8, OwnTaken
  <2>2. CASE built[c].layered
    <3>1. FloorsFor(c) = BaseLayers(c) \o OwnLayers(c)
      BY <1>5, <2>2 DEF FloorsFor, LayersFor
    <3>2. BaseLayers(c) \in Seq(Floor) /\ OwnLayers(c) \in Seq(Floor)
      BY <1>1, BaseLayersType, OwnLayersType
    <3>3. Rewrites(Taking, Floor, Seq(Class))
      BY TakenType
    <3>4. Through(Taking, BaseLayers(c) \o OwnLayers(c))
            = Through(Taking, BaseLayers(c)) \o Through(Taking, OwnLayers(c))
      BY <3>2, <3>3, ThroughConcat
    <3> QED
      BY <1>2, <1>6, <2>1, <2>2, <3>1, <3>4 DEF TakenOf
  <2>3. CASE ~built[c].layered
    <3>1. Bases(c) = <<>>
      <4>1. ~Layered(c) /\ Len(Bases(c)) # 1
        BY <1>6, <1>8, <2>3 DEF View
      <4> QED
        BY <1>1, <4>1 DEF Layered
    <3>2. taken = <<>>
      <4>1. BasesThings(c) = <<>>
        BY <3>1 DEF BasesThings
      <4> QED
        BY <4>1, FlattenEmpty
    <3> QED
      BY <1>4, <1>5, <2>1, <2>3, <3>2
  <2> QED
    BY <2>2, <2>3
<1> QED
  BY <1>7, <1>8

\* What is elaborated takes its things in order.
Listed == \A c \in done : Plain(c) /\ Partless(c) => First(c, TakenOf(Floors(c)))

\* The order is about the classes as they are written.
LEMMA FirstStays ==
  ASSUME source' = source, NEW c, NEW taken
  PROVE  First(c, taken)' <=> First(c, taken)
BY SourceStays DEF First

\* Nothing has been elaborated.
LEMMA ListedInit ==
  ASSUME Init PROVE Listed
BY DEF Init, Listed

\* A class that is finished takes its things in order, its bases' first.
LEMMA ListedFinish ==
  ASSUME Inv, Listed, Finish, NEW c, c = Top.class, Plain(c), Partless(c)
  PROVE  First(c, TakenOf(FloorsFor(c)))
<1> DEFINE rows == BasesThings(c)
           W == Append(rows, OwnThing(c))
<1>1. Shape /\ Order /\ Contents /\ Towered
  BY DEF Inv
<1>2. c \in Haves /\ c \in Class /\ c \notin done /\ Range(Bases(c)) \subseteq done
  BY <1>1, FinishFloors
<1>3. \A b \in Range(Bases(c)) : c \notin Family(b)
  BY <1>1, <1>2, FamilyDone
<1>4. rows \in Seq(Seq(Things)) /\ OwnThing(c) \in Seq(Things)
      /\ DOMAIN rows = DOMAIN Bases(c) /\ DOMAIN Bases(c) = 1..Len(Bases(c)) /\ Len(Bases(c)) \in Nat
  BY <1>1, <1>2, BasesThingsType, OwnThingType, SourceType DEF BasesThings, Shape
<1>5. \A i \in DOMAIN Bases(c) : First(Bases(c)[i], rows[i])
  <2> SUFFICES ASSUME NEW i \in DOMAIN Bases(c) PROVE First(Bases(c)[i], rows[i])
    OBVIOUS
  <2> DEFINE b == Bases(c)[i]
  <2>1. b \in Range(Bases(c))
    BY DEF Range
  <2>2. b \in done /\ Plain(b) /\ Partless(b)
    BY <1>1, <1>2, <2>1, PlainBelow, BasesTowered
  <2>3. First(b, TakenOf(Floors(b)))
    BY <2>2 DEF Listed
  <2> QED
    BY <2>3 DEF BasesThings
<1>6. TakenOf(FloorsFor(c)) = FlattenSeq(rows) \o OwnThing(c)
  BY <1>1, <1>2, TakesInOrder
<1> HIDE DEF rows
<1>7. FlattenSeq(W) = TakenOf(FloorsFor(c))
  BY <1>4, <1>6, FlattenAppend
<1>8. /\ W \in Seq(Seq(Things)) /\ Len(W) = Len(Bases(c)) + 1 /\ W[Len(W)] = OwnThing(c)
      /\ \A i \in DOMAIN Bases(c) : W[i] = rows[i]
  <2>1. Len(rows) = Len(Bases(c))
    BY <1>4, LenProperties
  <2> QED
    BY <1>4, <2>1, AppendProperties
<1> HIDE DEF W
<1>9. \A i \in DOMAIN Bases(c) : First(Bases(c)[i], W[i])
  BY <1>5, <1>8
<1> QED
  BY <1>1, <1>2, <1>3, <1>7, <1>8, <1>9, FirstOf

\* Every step keeps the order.
LEMMA ListedStep ==
  ASSUME Inv, Listed, [Next]_vars PROVE Listed'
<1>1. ASSUME NEW c \in done, source' = source, \A x \in done : built'[x] = built[x]
      PROVE  (Plain(c) /\ Partless(c) => First(c, TakenOf(Floors(c))))'
  <2>1. /\ (Partless(c)' <=> Partless(c)) /\ (Plain(c)' <=> Plain(c))
        /\ Floors(c)' = Floors(c)
    BY <1>1, ToweredStays DEF Inv
  <2>2. TakenOf(Floors(c))' = TakenOf(Floors(c))
    BY <2>1
  <2>3. First(c, TakenOf(Floors(c)))' <=> First(c, TakenOf(Floors(c)))
    BY <1>1, <2>1, SourceStays DEF First
  <2> QED
    BY <2>1, <2>3 DEF Listed
<1>2. CASE Finish
  <2>1. PICK c : c = Top.class
    OBVIOUS
  <2>2. /\ done' = done \cup {c} /\ source' = source /\ \A x \in done : built'[x] = built[x]
        /\ Floors(c)' = FloorsFor(c)
        /\ (Partless(c)' <=> Partless(c)) /\ (Plain(c)' <=> Plain(c))
    BY <1>2, <2>1, FinishFloors DEF Inv
  <2>3. PICK taken : taken = TakenOf(FloorsFor(c))
    OBVIOUS
  <2>4. Plain(c) /\ Partless(c) => First(c, taken)
    BY <1>2, <2>1, <2>3, ListedFinish
  <2>5. First(c, taken)' <=> First(c, taken)
    BY <2>2, FirstStays
  <2>6. (Plain(c) /\ Partless(c) => First(c, TakenOf(Floors(c))))'
    BY <2>2, <2>3, <2>4, <2>5
  <2> QED
    BY <1>1, <2>2, <2>6 DEF Listed
<1>3. CASE ~Finish
  BY <1>1, <1>3, DoneStays DEF Inv, Listed
<1> QED
  BY <1>2, <1>3

\* mereoc.py:67, "each base contributes its own layers in the order written, then
\* the resource's own": an instance takes each thing of its family once, bases
\* first and in the order they are written.
THEOREM BasesComeFirst == Spec => []BasesFirst
<1>1. Init => Listed
  BY ListedInit
<1>2. Inv /\ Listed /\ [Next]_vars => Listed'
  BY ListedStep
<1>3. Inv /\ Listed => BasesFirst
  <2> SUFFICES ASSUME Inv, Listed, NEW c \in done, Plain(c), Partless(c)
               PROVE  First(c, AllTaken(c))
    BY DEF BasesFirst, First
  <2>1. c \in Class /\ 0 \in 0..Len(Floors(c))
    <3>1. c \in Class
      BY DEF Inv, Shape
    <3>2. Floors(c) \in Seq(Floor)
      BY <3>1, FloorsType DEF Inv
    <3>3. Len(Floors(c)) \in Nat
      BY <3>2, LenProperties
    <3> QED
      BY <3>1, <3>3
  <2>2. AllTaken(c) = TakenOf(Floors(c))
    BY <2>1, LowestFloors DEF Inv
  <2>3. First(c, TakenOf(Floors(c)))
    BY DEF Listed
  <2> QED
    BY <2>2, <2>3
<1> QED
  BY <1>1, <1>2, <1>3, Elaborated, PTL DEF Spec
=============================================================================
