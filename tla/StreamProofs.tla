---------------------------- MODULE StreamProofs ----------------------------
(***************************************************************************)
(* The two readers of a stream that comes in pieces.  The record reader's  *)
(* and the filler's loops keep the bytes in order, within the buffer and   *)
(* whole, for every number and length of records, every header and every   *)
(* buffer; the chunked-body decoder reads, wherever the pieces end, what a *)
(* reading symbol by symbol does, for every body whose sizes fit a signed  *)
(* word.                                                                   *)
(***************************************************************************)
EXTENDS Transfer, Chunked, SequenceTheorems, WellFoundedInduction, TLAPS

-----------------------------------------------------------------------------
(* Transfer: the two loops.                                                *)

\* The bytes up to a place are a sequence of that many numbers.
LEMMA BytesAreBytes ==
  ASSUME NEW from \in Nat, NEW to \in Nat, from <= to
  PROVE  /\ Bytes(from, to) \in Seq(Nat)
         /\ Len(Bytes(from, to)) = to - from
         /\ \A i \in 1..to - from : Bytes(from, to)[i] = from + i
<1>1. to - from \in Nat
  OBVIOUS
<1>2. Bytes(from, to) \in [1..to - from -> Nat]
  BY <1>1 DEF Bytes
<1>3. Bytes(from, to) \in Seq(Nat)
  BY <1>1, <1>2
<1> QED
  BY <1>1, <1>2, <1>3 DEF Bytes

\* A piece of the stream after the bytes up to it are the bytes up to its end.
LEMMA BytesGrow ==
  ASSUME NEW from \in Nat, NEW to \in Nat, from <= to, NEW n \in Nat
  PROVE  Bytes(from, to) \o [i \in 1..n |-> to + i] = Bytes(from, to + n)
<1> DEFINE s == Bytes(from, to)
           t == [i \in 1..n |-> to + i]
           u == Bytes(from, to + n)
<1>1. s \in Seq(Nat) /\ Len(s) = to - from /\ \A i \in 1..to - from : s[i] = from + i
  BY BytesAreBytes
<1>2. u \in Seq(Nat) /\ Len(u) = to + n - from /\ \A i \in 1..to + n - from : u[i] = from + i
  <2> DEFINE end == to + n
  <2>1. end \in Nat /\ from <= end
    OBVIOUS
  <2> HIDE DEF end
  <2>2. Bytes(from, end) \in Seq(Nat) /\ Len(Bytes(from, end)) = end - from
        /\ \A i \in 1..end - from : Bytes(from, end)[i] = from + i
    BY <2>1, BytesAreBytes
  <2> QED
    BY <2>2 DEF end
<1>3. t \in Seq(Nat) /\ Len(t) = n /\ \A i \in 1..n : t[i] = to + i
  <2>1. t \in [1..n -> Nat]
    OBVIOUS
  <2> QED
    BY <2>1
<1> HIDE DEF s, t, u
<1>4. s \o t \in Seq(Nat) /\ Len(s \o t) = to - from + n
  BY <1>1, <1>3, ConcatProperties
<1>5. ASSUME NEW i \in 1..to - from + n PROVE (s \o t)[i] = u[i]
  <2>1. CASE i <= to - from
    <3>1. (s \o t)[i] = s[i]
      BY <1>1, <1>3, <2>1, ConcatProperties
    <3> QED
      BY <3>1, <2>1, <1>1, <1>2
  <2>2. CASE i > to - from
    <3>1. (s \o t)[i] = t[i - (to - from)]
      BY <1>1, <1>3, <2>2, ConcatProperties
    <3>2. i - (to - from) \in 1..n
      BY <2>2
    <3>3. t[i - (to - from)] = to + (i - (to - from))
      BY <1>3, <3>2
    <3> QED
      BY <3>1, <3>3, <1>2
  <2> QED
    <3>1. i <= to - from \/ i > to - from
      OBVIOUS
    <3> QED
      BY <2>1, <2>2, <3>1, Zenon
<1>6. s \o t = u
  <2>1. Len(s \o t) = Len(u) /\ Len(s \o t) = to - from + n
    BY <1>2, <1>4
  <2> QED
    BY <1>2, <1>4, <1>5, <2>1, SeqEqual
<1> QED
  BY <1>6 DEF s, t, u

\* What a read that asks for some bytes gets is at least one, and no more.
LEMMA PieceFits ==
  ASSUME TypeOK, NEW want \in Int, NEW n \in Pieces(want)
  PROVE  n \in Nat \ {0} /\ n <= want /\ taken + n <= arrived
BY DEF TypeOK, Pieces

\* A buffer with a piece more.
LEMMA BufferGrows ==
  ASSUME TypeOK, NEW n \in Nat \ {0}, taken + n <= arrived, Len(buf) + n <= Capacity, Get(n)
  PROVE  /\ buf' \in Seq(Nat)
         /\ Len(buf') = Len(buf) + n
         /\ Len(buf') <= Capacity
         /\ taken' = taken + n
         /\ taken' \in 0..arrived
<1> DEFINE t == [i \in 1..n |-> taken + i]
<1>1. buf \in Seq(Nat) /\ taken \in Nat /\ arrived \in Nat /\ Len(buf) \in Nat
  BY DEF TypeOK
<1>2. t \in [1..n -> Nat]
  BY <1>1
<1>3. t \in Seq(Nat) /\ Len(t) = n
  BY <1>2
<1>4. buf' = buf \o t /\ taken' = taken + n
  BY DEF Get
<1> HIDE DEF t
<1>5. buf' \in Seq(Nat) /\ Len(buf') = Len(buf) + n
  BY <1>1, <1>3, <1>4, ConcatProperties
<1> QED
  BY <1>1, <1>4, <1>5

-----------------------------------------------------------------------------
\* What each loop of the reader knows besides: how far it is.
Place ==
  LET next == Len(handed)
  IN  /\ rpc = "head" => Len(buf) < Header
      /\ rpc = "measure" => Len(buf) = Header
      /\ rpc \in {"body", "read"} => /\ next + 1 \in 1..Records
                                     /\ total = bound[next + 1] - bound[next]
                                     /\ total <= Capacity
                                     /\ Len(buf) <= total
      /\ rpc = "read" => Len(buf) = total
      /\ rpc = "filling" => Len(buf) <= Capacity
      /\ rpc = "filled" => Len(buf) = Capacity \/ AtEnd
      /\ rpc \in {"head", "measure", "body", "read"} => next <= Records /\ bound[next] <= taken

\* The inductive invariant.
TransferInv == TypeOK /\ RecordsAreWhole /\ ShortMeansEnd /\ Place

\* The boundaries are numbers, in order.
LEMMA BoundsGrow ==
  ASSUME TypeOK
  PROVE  /\ bound \in [0..Records -> Nat]
         /\ bound[0] = 0
         /\ \A j, k \in 0..Records : j < k => bound[j] + Header <= bound[k]
BY TransferAssumption DEF TypeOK, Boundaries

\* The programs start with nothing written or read.
LEMMA InitTransfer == Init => TransferInv
<1> SUFFICES ASSUME Init PROVE TransferInv
  OBVIOUS
<1> USE TransferAssumption
<1>1. TypeOK
  BY DEF Init, TypeOK
<1>2. bound[0] = 0
  BY <1>1, BoundsGrow
<1>3. Bytes(0, 0) = <<>>
  BY BytesAreBytes, EmptySeq DEF Bytes
<1>4. RecordsAreWhole
  BY <1>2, <1>3 DEF Init, RecordsAreWhole
<1>5. ShortMeansEnd /\ Place
  BY <1>1, <1>2 DEF Init, ShortMeansEnd, Place
<1> QED
  BY <1>1, <1>4, <1>5 DEF TransferInv

\* The writer does not disturb the reader; once the stream has ended nothing
\* more arrives.
LEMMA WriteKeeps == TransferInv /\ Write => TransferInv'
<1> SUFFICES ASSUME TransferInv, Write PROVE TransferInv'
  OBVIOUS
<1> USE TransferAssumption
<1>1. UNCHANGED <<bound, taken, buf, total, rpc, handed>>
  BY DEF Write, Accept, WriteWhole, WriteShort, Close
<1>2. TypeOK'
  <2>1. CASE Accept
    BY <2>1, <1>1 DEF Accept, TransferInv, TypeOK
  <2>2. CASE WriteWhole
    BY <2>2, <1>1 DEF WriteWhole, TransferInv, TypeOK
  <2>3. CASE WriteShort \/ Close
    BY <2>3, <1>1 DEF WriteShort, Close, TransferInv, TypeOK
  <2> QED
    BY <2>1, <2>2, <2>3 DEF Write
<1>3. AtEnd => AtEnd'
  BY DEF AtEnd, Write, Accept, WriteWhole, WriteShort, Close
<1>4. RecordsAreWhole'
  BY <1>1 DEF TransferInv, RecordsAreWhole
<1>5. ShortMeansEnd' /\ Place'
  BY <1>1, <1>3 DEF TransferInv, ShortMeansEnd, Place
<1> QED
  BY <1>2, <1>4, <1>5 DEF TransferInv

\* A piece keeps the record reader's buffer at the bytes after the last record.
LEMMA RecordGrows ==
  ASSUME TransferInv, rpc \in {"head", "body"}, NEW n \in Nat, Get(n)
  PROVE  /\ buf' = Bytes(bound[Len(handed)], taken')
         /\ bound[Len(handed)] <= taken'
<1> DEFINE from == bound[Len(handed)]
<1>1. /\ buf = Bytes(from, taken) /\ from <= taken /\ Len(handed) \in 0..Records
      /\ taken \in Nat
  BY DEF TransferInv, TypeOK, RecordsAreWhole, Place
<1>2. from \in Nat
  BY <1>1, BoundsGrow DEF TransferInv
<1>3. taken' = taken + n /\ buf' = buf \o [i \in 1..n |-> taken + i]
  BY DEF Get
<1>4. buf = Bytes(from, taken) /\ from <= taken
  BY <1>1
<1> HIDE DEF from
<1>5. buf' = Bytes(from, taken')
  BY <1>1, <1>2, <1>3, <1>4, BytesGrow, ZenonT(60)
<1>6. from <= taken'
  BY <1>1, <1>2, <1>3, <1>4
<1> QED
  BY <1>5, <1>6 DEF from

\* The record reader keeps the invariant.
LEMMA ReadRecordKeeps == TransferInv /\ ReadRecord => TransferInv'
<1> SUFFICES ASSUME TransferInv, ReadRecord PROVE TransferInv'
  OBVIOUS
<1> USE TransferAssumption
<1>0. TypeOK /\ RecordsAreWhole /\ ShortMeansEnd /\ Place
  BY DEF TransferInv
<1>1. CASE ReadHead
  <2>1. PICK n \in Pieces(Header - Len(buf)) :
          Get(n) /\ rpc' = IF Len(buf) + n < Header THEN "head" ELSE "measure"
    BY <1>1 DEF ReadHead
  <2>2. rpc = "head" /\ UNCHANGED <<bound, written, wpc, arrived, total, handed>>
    BY <1>1 DEF ReadHead, writer
  <2>3. Len(buf) \in Nat
    BY <1>0 DEF TypeOK
  <2>4. n \in Nat \ {0} /\ n <= Header - Len(buf) /\ taken + n <= arrived
    BY <1>0, <2>1, <2>3, PieceFits
  <2>5. /\ buf' \in Seq(Nat) /\ Len(buf') = Len(buf) + n /\ Len(buf') <= Capacity
        /\ taken' = taken + n /\ taken' \in 0..arrived
    BY <1>0, <2>1, <2>3, <2>4, BufferGrows
  <2>6. TypeOK'
    BY <1>0, <2>1, <2>2, <2>5 DEF TypeOK
  <2>7. buf' = Bytes(bound[Len(handed)], taken') /\ bound[Len(handed)] <= taken'
    BY <2>1, <2>2, <2>4, RecordGrows
  <2>8. RecordsAreWhole'
    BY <1>0, <2>2, <2>7 DEF RecordsAreWhole
  <2>9. ShortMeansEnd'
    BY <2>1 DEF ShortMeansEnd
  <2>10. Place'
    <3>1. rpc' \in {"head", "measure"} /\ Len(handed) <= Records
      BY <1>0, <2>1, <2>2 DEF RecordsAreWhole
    <3>2. rpc' = "head" => Len(buf') < Header
      BY <2>1, <2>5
    <3>3. rpc' = "measure" => Len(buf') = Header
      BY <2>1, <2>3, <2>4, <2>5, SMTT(60)
    <3> QED
      BY <2>2, <2>7, <3>1, <3>2, <3>3 DEF Place
  <2> QED
    BY <2>6, <2>8, <2>9, <2>10 DEF TransferInv
<1>2. CASE Measure
  <2>1. /\ rpc = "measure" /\ total' \in Declared(buf[1])
        /\ rpc' = IF total' <= Capacity THEN "body" ELSE "failed"
        /\ UNCHANGED <<bound, written, wpc, arrived, taken, buf, handed>>
    BY <1>2 DEF Measure, writer
  <2> DEFINE next == Len(handed)
  <2>2. /\ next \in 0..Records /\ buf = Bytes(bound[next], taken) /\ bound[next] <= taken
        /\ Len(buf) = Header /\ taken \in Nat
    BY <1>0, <2>1 DEF RecordsAreWhole, Place, TypeOK
  <2>3. bound[next] \in Nat
    BY <1>0, <2>2, BoundsGrow
  <2>4. taken = bound[next] + Header /\ buf[1] = bound[next] + 1
    <3> DEFINE from == bound[next]
    <3>1. from \in Nat /\ taken \in Nat /\ from <= taken /\ buf = Bytes(from, taken)
      BY <2>2, <2>3
    <3> HIDE DEF from
    <3>2. Len(buf) = taken - from /\ \A i \in 1..taken - from : buf[i] = from + i
      BY <3>1, BytesAreBytes
    <3>3. taken - from = Header /\ 1 \in 1..taken - from
      BY <2>2, <3>1, <3>2
    <3>4. taken = from + Header /\ buf[1] = from + 1
      BY <3>1, <3>2, <3>3
    <3> QED
      BY <3>4 DEF from
  <2>5. PICK k \in 1..Records : bound[k - 1] + 1 = buf[1] /\ total' = bound[k] - bound[k - 1]
    BY <2>1 DEF Declared
  <2>6. k - 1 = next
    <3>1. k - 1 \in 0..Records /\ bound[k - 1] = bound[next] /\ bound[k - 1] \in Nat
      BY <1>0, <2>3, <2>4, <2>5, BoundsGrow, SMTT(60)
    <3>2. ~(k - 1 < next) /\ ~(next < k - 1)
      BY <1>0, <2>2, <3>1, BoundsGrow
    <3> QED
      BY <2>2, <3>1, <3>2
  <2>7. total' = bound[next + 1] - bound[next] /\ next + 1 \in 1..Records
    BY <2>5, <2>6
  <2>8. total' \in Nat /\ Header <= total'
    <3>1. bound[next + 1] \in Nat /\ bound[next] + Header <= bound[next + 1]
      BY <1>0, <2>2, <2>7, BoundsGrow
    <3> QED
      BY <2>3, <2>7, <3>1, SMTT(60)
  <2>9. TypeOK'
    BY <1>0, <2>1, <2>8 DEF TypeOK
  <2>10. RecordsAreWhole'
    BY <1>0, <2>1 DEF RecordsAreWhole
  <2>11. ShortMeansEnd'
    BY <2>1 DEF ShortMeansEnd
  <2>12. Place'
    BY <2>1, <2>2, <2>7, <2>8 DEF Place
  <2> QED
    BY <2>9, <2>10, <2>11, <2>12 DEF TransferInv
<1>3. CASE ReadBody
  <2>1. PICK n \in Pieces(total - Len(buf)) :
          Get(n) /\ rpc' = IF Len(buf) + n < total THEN "body" ELSE "read"
    BY <1>3 DEF ReadBody
  <2>2. rpc = "body" /\ UNCHANGED <<bound, written, wpc, arrived, total, handed>>
    BY <1>3 DEF ReadBody, writer
  <2>3. Len(buf) \in Nat /\ total \in Nat /\ total <= Capacity
    BY <1>0, <2>2 DEF TypeOK, Place
  <2>4. n \in Nat \ {0} /\ n <= total - Len(buf) /\ taken + n <= arrived
    BY <1>0, <2>1, <2>3, PieceFits
  <2>5. /\ buf' \in Seq(Nat) /\ Len(buf') = Len(buf) + n /\ Len(buf') <= Capacity
        /\ taken' = taken + n /\ taken' \in 0..arrived
    BY <1>0, <2>1, <2>3, <2>4, BufferGrows
  <2>6. TypeOK'
    BY <1>0, <2>1, <2>2, <2>5 DEF TypeOK
  <2>7. buf' = Bytes(bound[Len(handed)], taken') /\ bound[Len(handed)] <= taken'
    BY <2>1, <2>2, <2>4, RecordGrows
  <2>8. RecordsAreWhole'
    BY <1>0, <2>2, <2>7 DEF RecordsAreWhole
  <2>9. ShortMeansEnd'
    BY <2>1 DEF ShortMeansEnd
  <2>10. Place'
    <3>1. /\ rpc' \in {"body", "read"} /\ Len(handed) <= Records
          /\ Len(handed) + 1 \in 1..Records
          /\ total = bound[Len(handed) + 1] - bound[Len(handed)]
      BY <1>0, <2>1, <2>2 DEF RecordsAreWhole, Place
    <3>2. Len(buf') <= total
      BY <2>3, <2>4, <2>5
    <3>3. rpc' = "read" => Len(buf') = total
      <4>1. rpc' = "read" => ~(Len(buf) + n < total)
        BY <2>1
      <4>2. n \in Nat /\ n <= total - Len(buf) /\ Len(buf) \in Nat /\ total \in Nat
        BY <2>3, <2>4
      <4>3. ~(Len(buf) + n < total) => Len(buf) + n = total
        BY <4>2
      <4> QED
        BY <2>5, <4>1, <4>3, Zenon
    <3> QED
      BY <2>2, <2>3, <2>7, <3>1, <3>2, <3>3 DEF Place
  <2> QED
    BY <2>6, <2>8, <2>9, <2>10 DEF TransferInv
<1>4. CASE ReadNothing
  <2>1. rpc' = "failed" /\ UNCHANGED <<bound, written, wpc, arrived, taken, buf, total, handed>>
    BY <1>4 DEF ReadNothing, writer
  <2> QED
    BY <1>0, <2>1 DEF TransferInv, TypeOK, RecordsAreWhole, ShortMeansEnd, Place
<1>5. CASE Deliver
  <2>1. /\ rpc = "read" /\ rpc' = "head" /\ total' = 0
        /\ handed' = Append(handed, buf) /\ buf' = <<>>
        /\ UNCHANGED <<bound, written, wpc, arrived, taken>>
    BY <1>5 DEF Deliver, Hand, writer
  <2> DEFINE next == Len(handed)
  <2>2. /\ next \in 0..Records /\ next + 1 \in 1..Records
        /\ buf = Bytes(bound[next], taken) /\ bound[next] <= taken /\ taken \in Nat
        /\ Len(buf) = bound[next + 1] - bound[next]
        /\ handed \in Seq(Seq(Nat)) /\ buf \in Seq(Nat)
    BY <1>0, <2>1 DEF RecordsAreWhole, Place, TypeOK
  <2>3. bound[next] \in Nat /\ bound[next + 1] \in Nat
    BY <1>0, <2>2, BoundsGrow
  <2>4. taken = bound[next + 1]
    <3> DEFINE from == bound[next]
    <3>1. from \in Nat /\ from <= taken /\ buf = Bytes(from, taken)
      BY <2>2, <2>3
    <3>2. Len(buf) = bound[next + 1] - from
      BY <2>2
    <3> HIDE DEF from
    <3>3. Len(buf) = taken - from
      BY <2>2, <3>1, BytesAreBytes
    <3> QED
      BY <2>2, <2>3, <3>1, <3>2, <3>3
  <2>5. /\ handed' \in Seq(Seq(Nat)) /\ Len(handed') = next + 1 /\ handed'[next + 1] = buf
        /\ \A k \in 1..next : handed'[k] = handed[k]
    BY <2>1, <2>2, AppendProperties
  <2>6. TypeOK'
    BY <1>0, <2>1, <2>5 DEF TypeOK
  <2>7. Bytes(bound[next + 1], taken) = <<>>
    <3>1. Len(Bytes(taken, taken)) = 0 /\ Bytes(taken, taken) \in Seq(Nat)
      <4>1. taken \in Nat /\ taken <= taken
        BY <2>2
      <4>2. Len(Bytes(taken, taken)) = taken - taken /\ Bytes(taken, taken) \in Seq(Nat)
        BY <4>1, BytesAreBytes
      <4> QED
        BY <4>1, <4>2
    <3> QED
      BY <2>4, <3>1, EmptySeq
  <2>8. \A k \in 1..next + 1 : handed'[k] = Bytes(bound[k - 1], bound[k])
    <3>1. handed'[next + 1] = Bytes(bound[next + 1 - 1], bound[next + 1])
      BY <2>2, <2>4, <2>5
    <3>2. ASSUME NEW k \in 1..next PROVE handed'[k] = Bytes(bound[k - 1], bound[k])
      BY <1>0, <2>1, <2>5 DEF RecordsAreWhole
    <3> QED
      BY <2>2, <3>1, <3>2
  <2>9. RecordsAreWhole'
    BY <2>1, <2>2, <2>5, <2>7, <2>8 DEF RecordsAreWhole
  <2>10. ShortMeansEnd'
    BY <2>1 DEF ShortMeansEnd
  <2>11. Place'
    BY <2>1, <2>2, <2>3, <2>4, <2>5 DEF Place
  <2> QED
    BY <2>6, <2>9, <2>10, <2>11 DEF TransferInv
<1> QED
  BY <1>1, <1>2, <1>3, <1>4, <1>5 DEF ReadRecord

\* So does the caller of fill.
LEMMA FillKeeps == TransferInv /\ Fill => TransferInv'
<1> SUFFICES ASSUME TransferInv, Fill PROVE TransferInv'
  OBVIOUS
<1> USE TransferAssumption
<1>0. TypeOK /\ RecordsAreWhole /\ ShortMeansEnd /\ Place
  BY DEF TransferInv
<1>1. CASE Filling
  <2>1. PICK n \in Pieces(Capacity - Len(buf)) :
          Get(n) /\ rpc' = IF Len(buf) + n < Capacity THEN "filling" ELSE "filled"
    BY <1>1 DEF Filling
  <2>2. rpc = "filling" /\ UNCHANGED <<bound, written, wpc, arrived, total, handed>>
    BY <1>1 DEF Filling, writer
  <2>3. Len(buf) \in Nat
    BY <1>0 DEF TypeOK
  <2>4. n \in Nat \ {0} /\ n <= Capacity - Len(buf) /\ taken + n <= arrived
    BY <1>0, <2>1, <2>3, PieceFits
  <2>5. /\ buf' \in Seq(Nat) /\ Len(buf') = Len(buf) + n /\ Len(buf') <= Capacity
        /\ taken' = taken + n /\ taken' \in 0..arrived
    BY <1>0, <2>1, <2>3, <2>4, BufferGrows
  <2>6. TypeOK'
    BY <1>0, <2>1, <2>2, <2>5 DEF TypeOK
  <2>7. RecordsAreWhole'
    BY <2>1 DEF RecordsAreWhole
  <2>8. ShortMeansEnd' /\ Place'
    BY <2>1, <2>3, <2>4, <2>5, SMTT(60) DEF ShortMeansEnd, Place
  <2> QED
    BY <2>6, <2>7, <2>8 DEF TransferInv
<1>2. CASE FillEnds
  <2>1. rpc' = "filled" /\ AtEnd /\ UNCHANGED <<bound, written, wpc, arrived, taken, buf, total, handed>>
    BY <1>2 DEF FillEnds, writer
  <2>2. AtEnd'
    BY <2>1 DEF AtEnd
  <2>3. TypeOK'
    BY <1>0, <2>1 DEF TypeOK
  <2> QED
    BY <2>1, <2>2, <2>3 DEF TransferInv, RecordsAreWhole, ShortMeansEnd, Place
<1>3. CASE TakeFilled
  <2>1. /\ rpc = "filled" /\ rpc' = IF Len(buf) < Capacity THEN "stopped" ELSE "filling"
        /\ handed' = Append(handed, buf) /\ buf' = <<>>
        /\ UNCHANGED <<bound, written, wpc, arrived, taken, total>>
    BY <1>3 DEF TakeFilled, Hand, writer
  <2>2. TypeOK'
    <3>1. handed' \in Seq(Seq(Nat)) /\ buf' \in Seq(Nat) /\ Len(buf') = 0
      BY <1>0, <2>1, AppendProperties DEF TypeOK
    <3> QED
      BY <1>0, <2>1, <3>1 DEF TypeOK
  <2>3. Len(buf) < Capacity => AtEnd
    BY <1>0, <2>1 DEF ShortMeansEnd
  <2>4. AtEnd => AtEnd'
    BY <2>1 DEF AtEnd
  <2>5. RecordsAreWhole' /\ ShortMeansEnd'
    BY <2>1, <2>3, <2>4 DEF RecordsAreWhole, ShortMeansEnd
  <2>6. Place'
    BY <2>1 DEF Place
  <2> QED
    BY <2>2, <2>5, <2>6 DEF TransferInv
<1> QED
  BY <1>1, <1>2, <1>3 DEF Fill

\* Every step keeps the invariant.
LEMMA NextTransfer == TransferInv /\ [Next]_vars => TransferInv'
<1> SUFFICES ASSUME TransferInv, [Next]_vars PROVE TransferInv'
  OBVIOUS
<1>1. CASE Interrupt
  <2>1. rpc' = "failed" /\ UNCHANGED <<bound, written, wpc, arrived, taken, buf, total, handed>>
    BY <1>1 DEF Interrupt, writer
  <2> QED
    BY <2>1 DEF TransferInv, TypeOK, RecordsAreWhole, ShortMeansEnd, Place
<1>2. CASE Stopped \/ UNCHANGED vars
  <2>1. UNCHANGED <<bound, written, wpc, arrived, taken, buf, total, rpc, handed>>
    BY <1>2 DEF Stopped, vars, writer
  <2> QED
    BY <2>1 DEF TransferInv, TypeOK, RecordsAreWhole, ShortMeansEnd, Place, AtEnd
<1> QED
  BY <1>1, <1>2, WriteKeeps, ReadRecordKeeps, FillKeeps DEF Next

\* The inductive invariant holds.
LEMMA TransferInvariant == Spec => []TransferInv
  BY InitTransfer, NextTransfer, PTL DEF Spec

\* No byte is written beyond the reader's buffer, whatever length a header
\* declares.
THEOREM TransferTypes == Spec => []TypeOK
<1>1. TransferInv => TypeOK
  BY DEF TransferInv
<1> QED
  BY <1>1, TransferInvariant, PTL

\* A record reader hands over the records as written, whatever the pieces.
THEOREM RecordsArriveWhole == Spec => []RecordsAreWhole
<1>1. TransferInv => RecordsAreWhole
  BY DEF TransferInv
<1> QED
  BY <1>1, TransferInvariant, PTL

\* A short bufferful is the end of the stream.
THEOREM ShortIsTheEnd == Spec => []ShortMeansEnd
<1>1. TransferInv => ShortMeansEnd
  BY DEF TransferInv
<1> QED
  BY <1>1, TransferInvariant, PTL

-----------------------------------------------------------------------------
\* Where a caller of fill is in the stream: at the place its buffersful make.
Full(k) == k * Capacity

LEMMA FullGrows ==
  ASSUME NEW k \in Nat
  PROVE  Full(k) \in Nat /\ Full(k + 1) = Full(k) + Capacity
BY TransferAssumption DEF Full

\* The buffer begins after the buffersful handed over.
Filled == rpc \in {"filling", "filled"} => Full(Len(handed)) <= taken

\* What FilledInOrder says of a caller that goes on, and of one that stopped.
LEMMA FilledGoesOn ==
  ASSUME rpc \in {"filling", "filled"}
  PROVE  FilledInOrder <=> /\ \A k \in 1..Len(handed) :
                                handed[k] = Bytes(Full(k - 1), Full(k - 1) + Capacity)
                           /\ buf = Bytes(Full(Len(handed)), taken)
BY DEF FilledInOrder, Full

\* A piece keeps the bytes of fill in order.
LEMMA FillingInOrder ==
  ASSUME TransferInv, FilledInOrder, Filled, Filling
  PROVE  FilledInOrder' /\ Filled'
<1>1. PICK n \in Pieces(Capacity - Len(buf)) :
        Get(n) /\ rpc' = IF Len(buf) + n < Capacity THEN "filling" ELSE "filled"
  BY DEF Filling
<1>2. rpc = "filling" /\ handed' = handed /\ rpc' \in {"filling", "filled"}
  BY <1>1 DEF Filling
<1>3. TypeOK /\ Len(buf) \in Nat /\ taken \in Nat /\ Len(handed) \in Nat /\ Capacity \in Int
  BY TransferAssumption DEF TransferInv, TypeOK
<1>4. n \in Nat
  BY <1>1, <1>3, PieceFits
<1> DEFINE from == Full(Len(handed))
<1>5. from \in Nat /\ from <= taken
  BY <1>2, <1>3, FullGrows DEF Filled
<1>6. /\ \A k \in 1..Len(handed) : handed[k] = Bytes(Full(k - 1), Full(k - 1) + Capacity)
      /\ buf = Bytes(from, taken)
  BY <1>2, FilledGoesOn
<1>7. taken' = taken + n /\ buf' = buf \o [i \in 1..n |-> taken + i]
  BY <1>1 DEF Get
<1> HIDE DEF from
<1>8. buf' = Bytes(from, taken') /\ from <= taken'
  <2>1. buf' = Bytes(from, taken')
    <3>1. Bytes(from, taken) \o [i \in 1..n |-> taken + i] = Bytes(from, taken + n)
      BY <1>3, <1>4, <1>5, BytesGrow
    <3> QED
      BY <1>6, <1>7, <3>1
  <2>2. from <= taken'
    BY <1>3, <1>4, <1>5, <1>7
  <2> QED
    BY <2>1, <2>2
<1>9. Filled'
  BY <1>2, <1>8 DEF Filled, Full, from
<1>10. FilledInOrder'
  BY <1>2, <1>6, <1>8 DEF FilledInOrder, Full, from
<1> QED
  BY <1>9, <1>10

\* A caller that is handed a bufferful goes on after it, one that is handed
\* less has the rest.
LEMMA TakenInOrder ==
  ASSUME TransferInv, FilledInOrder, Filled, TakeFilled
  PROVE  FilledInOrder' /\ Filled'
<1> DEFINE m == Len(handed)
           from == Full(m)
<1>1. /\ rpc = "filled" /\ rpc' = IF Len(buf) < Capacity THEN "stopped" ELSE "filling"
      /\ handed' = Append(handed, buf) /\ buf' = <<>> /\ taken' = taken
  BY DEF TakeFilled, Hand
<1>2. /\ handed \in Seq(Seq(Nat)) /\ buf \in Seq(Nat) /\ Len(buf) <= Capacity
      /\ taken \in Nat /\ m \in Nat /\ Capacity \in Nat /\ Len(buf) \in Nat
  BY TransferAssumption DEF TransferInv, TypeOK
<1>3. from \in Nat /\ from <= taken /\ Full(m + 1) = from + Capacity
  BY <1>1, <1>2, FullGrows DEF Filled
<1>4. /\ \A k \in 1..m : handed[k] = Bytes(Full(k - 1), Full(k - 1) + Capacity)
      /\ buf = Bytes(from, taken)
  BY <1>1, FilledGoesOn
<1>5. /\ Len(handed') = m + 1 /\ handed'[m + 1] = buf
      /\ \A k \in 1..m : handed'[k] = handed[k]
  BY <1>1, <1>2, AppendProperties
<1>6. Len(buf) = taken - from
  <2> HIDE DEF from
  <2> QED
    BY <1>2, <1>3, <1>4, BytesAreBytes
<1> HIDE DEF from, m
<1>7. CASE Len(buf) < Capacity
  <2>1. rpc' = "stopped"
    BY <1>1, <1>7
  <2>2. ASSUME NEW k \in 1..m + 1
        PROVE  handed'[k] = Bytes(Full(k - 1), IF k < m + 1 THEN Full(k - 1) + Capacity ELSE taken)
    <3>1. CASE k = m + 1
      <4>1. k - 1 = m /\ ~(k < m + 1)
        BY <1>2, <3>1
      <4> QED
        BY <1>4, <1>5, <3>1, <4>1 DEF from
    <3>2. CASE k \in 1..m
      <4>1. k < m + 1
        BY <1>2, <3>2
      <4> QED
        BY <1>4, <1>5, <3>2, <4>1
    <3> QED
      BY <1>2, <3>1, <3>2
  <2>3. FilledInOrder'
    BY <1>1, <1>5, <2>1, <2>2 DEF FilledInOrder, Full
  <2> QED
    BY <2>1, <2>3 DEF Filled
<1>8. CASE ~(Len(buf) < Capacity)
  <2>1. rpc' = "filling" /\ taken = Full(m + 1)
    BY <1>1, <1>2, <1>3, <1>6, <1>8
  <2>2. ASSUME NEW k \in 1..m + 1
        PROVE  handed'[k] = Bytes(Full(k - 1), Full(k - 1) + Capacity)
    <3>1. CASE k = m + 1
      <4>1. k - 1 = m /\ Full(k - 1) + Capacity = taken
        BY <1>2, <1>3, <2>1, <3>1 DEF from
      <4> QED
        BY <1>4, <1>5, <3>1, <4>1 DEF from
    <3>2. CASE k \in 1..m
      BY <1>4, <1>5, <3>2
    <3> QED
      BY <1>2, <3>1, <3>2
  <2>3. buf' = Bytes(Full(m + 1), taken')
    <3>1. taken <= taken
      BY <1>2
    <3>2. Bytes(taken, taken) \in Seq(Nat) /\ Len(Bytes(taken, taken)) = taken - taken
      BY <1>2, <3>1, BytesAreBytes
    <3>3. Bytes(taken, taken) = <<>>
      BY <1>2, <3>2, EmptySeq
    <3> QED
      BY <1>1, <2>1, <3>3
  <2>4. FilledInOrder'
    BY <1>5, <2>1, <2>2, <2>3 DEF FilledInOrder, Full
  <2>5. Filled'
    BY <1>1, <1>2, <1>5, <2>1 DEF Filled, Full
  <2> QED
    BY <2>4, <2>5
<1> QED
  BY <1>7, <1>8

\* Every step keeps them.
LEMMA NextFilled ==
  TransferInv /\ FilledInOrder /\ Filled /\ [Next]_vars => FilledInOrder' /\ Filled'
<1> SUFFICES ASSUME TransferInv, FilledInOrder, Filled, [Next]_vars
             PROVE  FilledInOrder' /\ Filled'
  OBVIOUS
<1>1. CASE Write \/ Stopped \/ UNCHANGED vars
  <2>1. UNCHANGED <<taken, buf, rpc, handed>>
    BY <1>1 DEF Write, Accept, WriteWhole, WriteShort, Close, Stopped, vars
  <2> QED
    BY <2>1 DEF FilledInOrder, Filled
<1>2. CASE ReadRecord \/ Interrupt
  <2>1. rpc' \notin {"filling", "filled", "stopped"}
    BY <1>2 DEF ReadRecord, ReadHead, Measure, ReadBody, ReadNothing, Deliver, Interrupt
  <2> QED
    BY <2>1 DEF FilledInOrder, Filled
<1>3. CASE FillEnds
  <2>1. rpc = "filling" /\ rpc' = "filled" /\ UNCHANGED <<taken, buf, handed>>
    BY <1>3 DEF FillEnds
  <2> QED
    BY <2>1 DEF FilledInOrder, Filled
<1> QED
  BY <1>1, <1>2, <1>3, FillingInOrder, TakenInOrder DEF Next, Fill

\* A caller of fill has the bytes of the stream, each once and in order, and
\* every bufferful but the last is full.
THEOREM FillsInOrder == Spec => []FilledInOrder
<1>1. Init => FilledInOrder /\ Filled
  <2> SUFFICES ASSUME Init PROVE FilledInOrder /\ Filled
    OBVIOUS
  <2>1. Bytes(0, 0) = <<>>
    BY BytesAreBytes, EmptySeq DEF Bytes
  <2>2. Full(0) = 0
    BY TransferAssumption DEF Full
  <2> QED
    BY <2>1, <2>2 DEF Init, FilledInOrder, Filled, Full
<1> QED
  BY <1>1, NextFilled, TransferInvariant, PTL DEF Spec

-----------------------------------------------------------------------------
(* Chunked: numbers.  Induction is stated over sets.                       *)

\* A set of numbers that is not empty has a least one.
LEMMA LeastPlace ==
  ASSUME NEW T \in SUBSET Nat, T # {}
  PROVE  \E i \in T : \A j \in T : i <= j
<1>1. PICK i \in T : \A j \in T : ~(<<j, i>> \in OpToRel(<, Nat))
  BY NatLessThanWellFounded, WFMin
<1>2. ASSUME NEW j \in T PROVE i <= j
  <2>1. ~(j < i)
    BY <1>1, <1>2, Zenon DEF OpToRel
  <2> QED
    BY <2>1
<1> QED
  BY <1>2

\* What holds at 0 and is handed on holds of every number.
LEMMA EveryPlace ==
  ASSUME NEW S, 0 \in S, \A n \in Nat : n \in S => n + 1 \in S
  PROVE  Nat \subseteq S
<1> SUFFICES ASSUME Nat \ S # {} PROVE FALSE
  OBVIOUS
<1>1. PICK n \in Nat \ S : \A m \in Nat \ S : n <= m
  BY LeastPlace
<1>2. n - 1 \in Nat /\ n - 1 \notin S
  BY <1>1
<1> QED
  BY <1>1, <1>2

-----------------------------------------------------------------------------
(* The automaton, symbol by symbol.                                        *)

\* f[i] is what the automaton knows after the first i symbols of t.
Fed(f, t, n) ==
  /\ f = [i \in 0..n |-> f[i]]
  /\ \A i \in 0..n : f[i] = IF i = 0 THEN Start ELSE Eat(f[i - 1], t[i], i)

\* Each symbol, after those before it.
LEMMA FedAt ==
  ASSUME NEW f, NEW t, NEW n, Fed(f, t, n), NEW i \in 0..n
  PROVE  f[i] = IF i = 0 THEN Start ELSE Eat(f[i - 1], t[i], i)
BY Zenon DEF Fed

\* The automaton can be fed any number of symbols.
LEMMA Feeding ==
  ASSUME NEW t, NEW n \in Nat PROVE \E f : Fed(f, t, n)
<1> DEFINE S == {m \in Nat : \E f : Fed(f, t, m)}
<1>1. 0 \in S
  <2> DEFINE f == [i \in 0..0 |-> Start]
  <2>1. f = [i \in 0..0 |-> f[i]]
    BY Zenon
  <2>2. ASSUME NEW i \in 0..0 PROVE f[i] = Start /\ i = 0
    OBVIOUS
  <2>3. Fed(f, t, 0)
    <3> HIDE DEF f
    <3> QED
      BY <2>1, <2>2, Zenon DEF Fed
  <2> QED
    BY <2>3
<1>2. ASSUME NEW m \in Nat, m \in S PROVE m + 1 \in S
  <2>1. PICK f : Fed(f, t, m)
    BY <1>2
  <2> DEFINE next == Eat(f[m], t[m + 1], m + 1)
             g == [i \in 0..(m + 1) |-> IF i = m + 1 THEN next ELSE f[i]]
  <2>2. ASSUME NEW i \in 0..(m + 1)
        PROVE  g[i] = IF i = 0 THEN Start ELSE Eat(g[i - 1], t[i], i)
    <3>1. CASE i = m + 1
      <4>1. g[i] = next /\ i # 0 /\ i - 1 = m
        BY <3>1
      <4>2. g[m] = f[m]
        OBVIOUS
      <4> HIDE DEF g
      <4> QED
        BY <3>1, <4>1, <4>2
    <3>2. CASE i # m + 1
      <4>1. i \in 0..m /\ g[i] = f[i]
        BY <3>2
      <4>2. f[i] = IF i = 0 THEN Start ELSE Eat(f[i - 1], t[i], i)
        BY <2>1, <4>1, FedAt
      <4>3. i # 0 => g[i - 1] = f[i - 1]
        BY <4>1
      <4> QED
        BY <4>1, <4>2, <4>3
    <3> QED
      BY <3>1, <3>2
  <2>3. g = [i \in 0..(m + 1) |-> g[i]]
    BY Zenon
  <2>4. Fed(g, t, m + 1)
    <3> HIDE DEF g
    <3> QED
      BY <2>2, <2>3, Zenon DEF Fed
  <2> QED
    BY <2>4
<1> QED
  <2> HIDE DEF S
  <2>1. Nat \subseteq S
    BY <1>1, <1>2, EveryPlace
  <2> QED
    BY <2>1 DEF S

\* Of a body, the automaton knows what eating its symbols in turn gives.
LEMMA AutomatonEats ==
  ASSUME NEW t \in Text
  PROVE  /\ Automaton[t][0] = Start
         /\ \A n \in 0..Len(t) : n # 0 => Automaton[t][n] = Eat(Automaton[t][n - 1], t[n], n)
<1> DEFINE N == Len(t)
           Whole(f) == f = [n \in 0..N |-> IF n = 0 THEN Start ELSE Eat(f[n - 1], t[n], n)]
           after == CHOOSE f : Whole(f)
<1>1. N \in Nat
  BY ChunkedAssumption
<1> HIDE DEF N
<1>2. PICK f : Fed(f, t, N)
  BY <1>1, Feeding
<1>3. Whole(f)
  BY <1>2, Zenon DEF Fed
<1>4. Whole(after)
  BY <1>3, Zenon
<1>5. Automaton[t] = [n \in 0..N |-> after[n]]
  BY Zenon DEF Automaton, N
<1> HIDE DEF after
<1>6. \A n \in 0..N : after[n] = IF n = 0 THEN Start ELSE Eat(after[n - 1], t[n], n)
  BY <1>4, Zenon
<1>7. \A n \in 0..N : Automaton[t][n] = after[n]
  BY <1>5, Zenon
<1>8. Automaton[t][0] = Start
  <2>1. 0 \in 0..N
    BY <1>1
  <2> QED
    BY <2>1, <1>6, <1>7, Zenon
<1>9. ASSUME NEW n \in 0..N, n # 0 PROVE Automaton[t][n] = Eat(Automaton[t][n - 1], t[n], n)
  <2>1. n - 1 \in 0..N
    BY <1>1, <1>9
  <2> QED
    BY <2>1, <1>9, <1>6, <1>7, Zenon
<1> QED
  BY <1>8, <1>9, Zenon DEF N

-----------------------------------------------------------------------------
(* What a symbol does.                                                     *)

\* The states of the automaton.
States == {"size", "extension", "sizeLF", "data", "dataCR", "dataLF",
           "line", "field", "fieldLF", "lastLF", "over", "bad"}

\* What the automaton can know after n symbols: the data of a chunk that owes
\* nothing is over, and a size without digits is none yet.
Knowledge(n) ==
  {s \in [state : States, value : Nat, digits : 0..MaxDigits, body : Seq(1..n)] :
     /\ s.state = "data" => s.value > 0
     /\ s.state = "size" /\ s.digits = 0 => s.value = 0}

\* The digits of a size.
LEMMA EatDigit ==
  ASSUME NEW n, NEW s \in Knowledge(n), NEW c \in Symbol, NEW i, s.state = "size", c \in Digit,
         s.digits # MaxDigits
  PROVE  Eat(s, c, i) = [s EXCEPT !.value = s.value * Base + Value[c], !.digits = s.digits + 1]
BY DEF Eat

\* A digit too many.
LEMMA EatDigitTooMany ==
  ASSUME NEW n, NEW s \in Knowledge(n), NEW c \in Symbol, NEW i, s.state = "size", c \in Digit,
         s.digits = MaxDigits
  PROVE  Eat(s, c, i) = [s EXCEPT !.state = "bad"]
BY DEF Eat

\* What follows them.
LEMMA EatSize ==
  ASSUME NEW n, NEW s \in Knowledge(n), NEW c \in Symbol, NEW i, s.state = "size", c \notin Digit
  PROVE  /\ s.digits = 0 => Eat(s, c, i) = [s EXCEPT !.state = "bad"]
         /\ s.digits # 0 /\ c = CR => Eat(s, c, i) = [s EXCEPT !.state = "sizeLF"]
         /\ s.digits # 0 /\ c # CR => Eat(s, c, i) = [s EXCEPT !.state = "extension"]
BY DEF Eat

\* The rest of its line.
LEMMA EatExtension ==
  ASSUME NEW n, NEW s \in Knowledge(n), NEW c \in Symbol, NEW i
  PROVE  /\ s.state = "extension" /\ c = CR => Eat(s, c, i) = [s EXCEPT !.state = "sizeLF"]
         /\ s.state = "extension" /\ c # CR => Eat(s, c, i) = s
         /\ s.state = "sizeLF" /\ c # LF => Eat(s, c, i) = [s EXCEPT !.state = "bad"]
         /\ s.state = "sizeLF" /\ c = LF /\ s.value = 0 => Eat(s, c, i) = [s EXCEPT !.state = "line"]
         /\ s.state = "sizeLF" /\ c = LF /\ s.value # 0 => Eat(s, c, i) = [s EXCEPT !.state = "data"]
BY DEF Eat

\* The data of a chunk.
LEMMA EatData ==
  ASSUME NEW n, NEW s \in Knowledge(n), NEW c \in Symbol, NEW i, s.state = "data"
  PROVE  Eat(s, c, i) = [s EXCEPT !.body = Append(s.body, i), !.value = s.value - 1,
                                  !.state = IF s.value = 1 THEN "dataCR" ELSE "data"]
BY DEF Eat

\* The line's end after it.
LEMMA EatDataEnd ==
  ASSUME NEW n, NEW s \in Knowledge(n), NEW c \in Symbol, NEW i
  PROVE  /\ s.state = "dataCR" /\ c = CR => Eat(s, c, i) = [s EXCEPT !.state = "dataLF"]
         /\ s.state = "dataCR" /\ c # CR => Eat(s, c, i) = [s EXCEPT !.state = "bad"]
         /\ s.state = "dataLF" /\ c = LF =>
              Eat(s, c, i) = [state |-> "size", value |-> 0, digits |-> 0, body |-> s.body]
         /\ s.state = "dataLF" /\ c # LF => Eat(s, c, i) = [s EXCEPT !.state = "bad"]
BY DEF Eat, Start

\* The trailer, and what has come to an end.
LEMMA EatLine ==
  ASSUME NEW n, NEW s \in Knowledge(n), NEW c \in Symbol, NEW i
  PROVE  /\ s.state = "line" /\ c = CR => Eat(s, c, i) = [s EXCEPT !.state = "lastLF"]
         /\ s.state = "line" /\ c # CR => Eat(s, c, i) = [s EXCEPT !.state = "field"]
         /\ s.state = "field" /\ c = CR => Eat(s, c, i) = [s EXCEPT !.state = "fieldLF"]
         /\ s.state = "field" /\ c # CR => Eat(s, c, i) = [s EXCEPT !.state = "field"]
         /\ s.state = "fieldLF" /\ c = LF => Eat(s, c, i) = [s EXCEPT !.state = "line"]
         /\ s.state = "fieldLF" /\ c # LF => Eat(s, c, i) = [s EXCEPT !.state = "bad"]
         /\ s.state = "lastLF" /\ c = LF => Eat(s, c, i) = [s EXCEPT !.state = "over"]
         /\ s.state = "lastLF" /\ c # LF => Eat(s, c, i) = [s EXCEPT !.state = "bad"]
         /\ s.state \in {"bad", "over"} => Eat(s, c, i) = s
BY DEF Eat

\* Knowledge in another state, which is none of the two that say more.
LEMMA KnowledgeMoved ==
  ASSUME NEW n \in Nat, NEW s \in Knowledge(n), NEW state \in States \ {"size", "data"}
  PROVE  [s EXCEPT !.state = state] \in Knowledge(n + 1)
<1>1. Seq(1..n) \subseteq Seq(1..n + 1)
  <2>1. 1..n \subseteq 1..n + 1
    OBVIOUS
  <2> QED
    BY <2>1
<1> QED
  BY <1>1 DEF Knowledge

\* What it knows it keeps.
LEMMA KnowledgeKept ==
  ASSUME NEW n \in Nat, NEW s \in Knowledge(n)
  PROVE  s \in Knowledge(n + 1)
<1>1. Seq(1..n) \subseteq Seq(1..n + 1)
  <2>1. 1..n \subseteq 1..n + 1
    OBVIOUS
  <2> QED
    BY <2>1
<1> QED
  BY <1>1 DEF Knowledge

\* A symbol more leads from knowledge to knowledge.
LEMMA EatKnows ==
  ASSUME NEW n \in Nat, NEW s \in Knowledge(n), NEW c \in Symbol
  PROVE  Eat(s, c, n + 1) \in Knowledge(n + 1)
<1> DEFINE u == Eat(s, c, n + 1)
<1>1. /\ s.state \in States /\ s.value \in Nat /\ s.digits \in 0..MaxDigits /\ s.body \in Seq(1..n)
      /\ s = [state |-> s.state, value |-> s.value, digits |-> s.digits, body |-> s.body]
      /\ s.state = "data" => s.value > 0
  BY DEF Knowledge
<1>2. s.body \in Seq(1..n + 1)
  <2>1. 1..n \subseteq 1..n + 1
    OBVIOUS
  <2> QED
    BY <1>1, <2>1
<1>moved. \A x \in States \ {"size", "data"} : [s EXCEPT !.state = x] \in Knowledge(n + 1)
  BY KnowledgeMoved
<1>3. CASE s.state = "size"
  <2>1. CASE c \in Digit /\ s.digits # MaxDigits
    <3>1. u = [s EXCEPT !.value = s.value * Base + Value[c], !.digits = s.digits + 1]
      BY <1>3, <2>1, EatDigit
    <3>2. s.value * Base + Value[c] \in Nat
      <4>1. s.value * Base \in Nat
        BY <1>1, ChunkedAssumption
      <4>2. Value[c] \in Nat
        BY <2>1, ChunkedAssumption
      <4> QED
        BY <4>1, <4>2
    <3>3. s.digits + 1 \in 0..MaxDigits /\ s.digits + 1 # 0
      BY <1>1, <2>1, ChunkedAssumption, SMTT(60)
    <3> DEFINE v == s.value * Base + Value[c]
               d == s.digits + 1
    <3> HIDE DEF v, d
    <3>4. u = [state |-> s.state, value |-> v, digits |-> d, body |-> s.body]
      BY <1>1, <3>1 DEF v, d
    <3> HIDE DEF u
    <3>5. v \in Nat /\ d \in 0..MaxDigits /\ d # 0
      BY <3>2, <3>3 DEF v, d
    <3>9. u \in Knowledge(n + 1)
      BY <1>1, <1>2, <1>3, <3>4, <3>5 DEF Knowledge
    <3> QED
      BY <3>9 DEF u
  <2>2. CASE ~(c \in Digit /\ s.digits # MaxDigits)
    <3>1. \E x \in {"bad", "sizeLF", "extension"} : u = [s EXCEPT !.state = x]
      <4>1. CASE c \in Digit
        BY <1>3, <2>2, <4>1, EatDigitTooMany
      <4>2. CASE c \notin Digit
        BY <1>3, <4>2, EatSize
      <4> QED
        BY <4>1, <4>2
    <3> HIDE DEF u
    <3>9. u \in Knowledge(n + 1)
      BY <1>moved, <3>1 DEF States
    <3> QED
      BY <3>9 DEF u
  <2> QED
    BY <2>1, <2>2
<1>4. CASE s.state = "data"
  <2> DEFINE v == s.value - 1
             b == Append(s.body, n + 1)
             st == IF s.value = 1 THEN "dataCR" ELSE "data"
  <2>0. u = [s EXCEPT !.body = Append(s.body, n + 1), !.value = s.value - 1,
                      !.state = IF s.value = 1 THEN "dataCR" ELSE "data"]
    BY <1>4, EatData
  <2>1. u = [state |-> st, value |-> v, digits |-> s.digits, body |-> b]
    <3>1. u = [s EXCEPT !.body = b, !.value = v, !.state = st]
      BY <2>0, Zenon
    <3> HIDE DEF u, v, b, st
    <3> QED
      BY <1>1, <3>1
  <2>2. v \in Nat /\ (st = "data" => v > 0) /\ st \in States \ {"size"}
    BY <1>1, <1>4 DEF States
  <2>3. b \in Seq(1..n + 1)
    BY <1>2
  <2> HIDE DEF v, b, st, u
  <2>9. u \in Knowledge(n + 1)
    BY <1>1, <2>1, <2>2, <2>3 DEF Knowledge
  <2> QED
    BY <2>9 DEF u
<1>5. CASE s.state = "sizeLF"
  <2>1. CASE c = LF /\ s.value # 0
    <3>1. u = [state |-> "data", value |-> s.value, digits |-> s.digits, body |-> s.body]
      BY <1>1, <1>5, <2>1, EatExtension
    <3> HIDE DEF u
    <3>9. u \in Knowledge(n + 1)
      BY <1>1, <1>2, <2>1, <3>1 DEF Knowledge, States
    <3> QED
      BY <3>9 DEF u
  <2>2. CASE ~(c = LF /\ s.value # 0)
    <3>1. \E x \in {"bad", "line"} : u = [s EXCEPT !.state = x]
      BY <1>5, <2>2, EatExtension
    <3> HIDE DEF u
    <3>9. u \in Knowledge(n + 1)
      BY <1>moved, <3>1 DEF States
    <3> QED
      BY <3>9 DEF u
  <2> QED
    BY <2>1, <2>2
<1>6. CASE s.state = "dataLF"
  <2>1. CASE c = LF
    <3>1. u = [state |-> "size", value |-> 0, digits |-> 0, body |-> s.body]
      BY <1>6, <2>1, EatDataEnd
    <3> HIDE DEF u
    <3>9. u \in Knowledge(n + 1)
      BY <1>2, <3>1, ChunkedAssumption DEF Knowledge, States
    <3> QED
      BY <3>9 DEF u
  <2>2. CASE c # LF
    <3>1. u = [s EXCEPT !.state = "bad"]
      BY <1>6, <2>2, EatDataEnd
    <3> HIDE DEF u
    <3>9. u \in Knowledge(n + 1)
      BY <1>moved, <3>1 DEF States
    <3> QED
      BY <3>9 DEF u
  <2> QED
    BY <2>1, <2>2
<1>7. CASE s.state \in {"extension", "bad", "over"}
  <2>1. u = s \/ u = [s EXCEPT !.state = "sizeLF"]
    BY <1>7, EatExtension, EatLine
  <2>2. s \in Knowledge(n + 1)
    BY KnowledgeKept
  <2> HIDE DEF u
  <2>3. CASE u = s
    BY <2>2, <2>3 DEF u
  <2>4. CASE u = [s EXCEPT !.state = "sizeLF"]
    <3>1. u \in Knowledge(n + 1)
      BY <1>moved, <2>4 DEF States
    <3> QED
      BY <3>1 DEF u
  <2> QED
    BY <2>1, <2>3, <2>4
<1>8. CASE s.state = "dataCR"
  <2>1. \E x \in {"bad", "dataLF"} : u = [s EXCEPT !.state = x]
    BY <1>8, EatDataEnd
  <2> HIDE DEF u
  <2>9. u \in Knowledge(n + 1)
    BY <1>moved, <2>1 DEF States
  <2> QED
    BY <2>9 DEF u
<1>9. CASE s.state \in {"line", "field", "fieldLF", "lastLF"}
  <2>1. \E x \in {"line", "field", "fieldLF", "lastLF", "bad", "over"} : u = [s EXCEPT !.state = x]
    BY <1>9, EatLine
  <2> HIDE DEF u
  <2>9. u \in Knowledge(n + 1)
    BY <1>moved, <2>1 DEF States
  <2> QED
    BY <2>9 DEF u
<1> QED
  BY <1>1, <1>3, <1>4, <1>5, <1>6, <1>7, <1>8, <1>9 DEF States

\* The symbols of a body.
LEMMA Symbols ==
  ASSUME NEW t \in Text
  PROVE  Len(t) \in Nat /\ \A n \in 1..Len(t) : t[n] \in Symbol
<1>1. t \in Seq(Symbol)
  BY ChunkedAssumption
<1> QED
  BY <1>1

\* What the automaton knows of a body is knowledge.
LEMMA Knows ==
  ASSUME NEW t \in Text
  PROVE  \A n \in 0..Len(t) : Automaton[t][n] \in Knowledge(n)
<1> DEFINE S == {n \in Nat : n <= Len(t) => Automaton[t][n] \in Knowledge(n)}
<1>1. 0 \in S
  <2>1. Automaton[t][0] = Start
    BY AutomatonEats
  <2>2. Start \in Knowledge(0)
    BY ChunkedAssumption DEF Start, Knowledge, States
  <2> QED
    BY <2>1, <2>2
<1>2. ASSUME NEW n \in Nat, n \in S PROVE n + 1 \in S
  <2> SUFFICES ASSUME n + 1 <= Len(t) PROVE Automaton[t][n + 1] \in Knowledge(n + 1)
    OBVIOUS
  <2>1. n \in 0..Len(t) /\ n + 1 \in 0..Len(t) /\ n + 1 \in 1..Len(t) /\ n + 1 # 0 /\ (n + 1) - 1 = n
    BY Symbols
  <2>2. Automaton[t][n + 1] = Eat(Automaton[t][n], t[n + 1], n + 1)
    <3> DEFINE m == n + 1
    <3>1. m \in 0..Len(t) /\ m # 0 /\ m - 1 = n
      BY <2>1
    <3> HIDE DEF m
    <3>2. Automaton[t][m] = Eat(Automaton[t][m - 1], t[m], m)
      BY <3>1, AutomatonEats, Zenon
    <3> QED
      BY <3>1, <3>2 DEF m
  <2>3. Automaton[t][n] \in Knowledge(n)
    BY <1>2, <2>1
  <2>4. t[n + 1] \in Symbol
    BY <2>1, Symbols
  <2> QED
    BY <2>2, <2>3, <2>4, EatKnows
<1> QED
  <2> HIDE DEF S
  <2>1. Nat \subseteq S
    BY <1>1, <1>2, EveryPlace
  <2> QED
    BY <2>1, Symbols DEF S

\* A step of the automaton, from the place before.
LEMMA Eats ==
  ASSUME NEW t \in Text, NEW n \in Nat, n + 1 <= Len(t)
  PROVE  /\ Automaton[t][n + 1] = Eat(Automaton[t][n], t[n + 1], n + 1)
         /\ Automaton[t][n] \in Knowledge(n)
         /\ t[n + 1] \in Symbol
<1> DEFINE m == n + 1
<1>1. m \in 0..Len(t) /\ m \in 1..Len(t) /\ n \in 0..Len(t) /\ m # 0 /\ m - 1 = n
  BY Symbols
<1> HIDE DEF m
<1>2. Automaton[t][m] = Eat(Automaton[t][m - 1], t[m], m)
  BY <1>1, AutomatonEats, Zenon
<1>3. Automaton[t][n] \in Knowledge(n) /\ t[m] \in Symbol
  BY <1>1, Knows, Symbols, Zenon
<1> QED
  BY <1>1, <1>2, <1>3 DEF m

\* A body that is refused or over stays so.
LEMMA Stays ==
  ASSUME NEW t \in Text, NEW m \in Nat, Automaton[t][m].state \in {"bad", "over"}
  PROVE  \A n \in 0..Len(t) : m <= n => Automaton[t][n] = Automaton[t][m]
<1> DEFINE S == {n \in Nat : m <= n /\ n <= Len(t) => Automaton[t][n] = Automaton[t][m]}
<1>1. 0 \in S
  OBVIOUS
<1>2. ASSUME NEW n \in Nat, n \in S PROVE n + 1 \in S
  <2> SUFFICES ASSUME m <= n + 1, n + 1 <= Len(t) PROVE Automaton[t][n + 1] = Automaton[t][m]
    OBVIOUS
  <2>1. CASE m = n + 1
    BY <2>1
  <2>2. CASE m <= n
    <3>1. Automaton[t][n] = Automaton[t][m]
      BY <1>2, <2>2, Symbols
    <3>2. Automaton[t][n].state \in {"bad", "over"}
      BY <3>1
    <3>3. /\ Automaton[t][n + 1] = Eat(Automaton[t][n], t[n + 1], n + 1)
          /\ Automaton[t][n] \in Knowledge(n)
          /\ t[n + 1] \in Symbol
      BY Eats
    <3>4. Eat(Automaton[t][n], t[n + 1], n + 1) = Automaton[t][n]
      <4> DEFINE s == Automaton[t][n]
                 c == t[n + 1]
      <4>1. s \in Knowledge(n) /\ c \in Symbol /\ s.state \in {"bad", "over"}
        BY <3>2, <3>3
      <4> HIDE DEF s, c
      <4>2. Eat(s, c, n + 1) = s
        BY <4>1, EatLine
      <4> QED
        BY <4>2 DEF s, c
    <3> QED
      BY <3>1, <3>3, <3>4, Zenon
  <2>3. m = n + 1 \/ m <= n
    OBVIOUS
  <2> QED
    BY <2>1, <2>2, <2>3, Zenon
<1> QED
  <2> HIDE DEF S
  <2>1. Nat \subseteq S
    BY <1>1, <1>2, EveryPlace
  <2> QED
    BY <2>1, Symbols DEF S

-----------------------------------------------------------------------------
(* What a call reads.                                                      *)

\* The first place with one of these symbols is the first.
LEMMA FirstFinds ==
  ASSUME length \in Nat, NEW i \in Nat, i <= length + 1, NEW symbols
  PROVE  /\ First(i, symbols) \in i..length + 1
         /\ \A j \in i..First(i, symbols) - 1 : text[j] \notin symbols
         /\ First(i, symbols) <= length => text[First(i, symbols)] \in symbols
<1> DEFINE places == {j \in i..length : text[j] \in symbols}
<1>1. CASE places = {}
  <2>1. First(i, symbols) = length + 1
    BY <1>1, Zenon DEF First
  <2>2. (length + 1) - 1 = length
    OBVIOUS
  <2>3. \A j \in i..length : text[j] \notin symbols
    BY <1>1
  <2> QED
    BY <2>1, <2>2, <2>3
<1>2. CASE places # {}
  <2> DEFINE Least(j) == j \in places /\ \A k \in places : j <= k
  <2>1. \E j : Least(j)
    <3>1. places \in SUBSET Nat
      OBVIOUS
    <3> HIDE DEF places
    <3>2. \E j \in places : \A k \in places : j <= k
      BY <1>2, <3>1, LeastPlace
    <3> QED
      BY <3>2
  <2> DEFINE f == CHOOSE j : Least(j)
  <2>2. Least(f)
    BY <2>1, Zenon
  <2>3. First(i, symbols) = CHOOSE j \in places : \A k \in places : j <= k
    BY <1>2, Zenon DEF First
  <2>4. First(i, symbols) \in places /\ \A k \in places : First(i, symbols) <= k
    <3> HIDE DEF places
    <3>1. \E j \in places : \A k \in places : j <= k
      BY <2>1
    <3> QED
      BY <2>3, <3>1
  <2> DEFINE g == First(i, symbols)
  <2>5. g \in i..length /\ text[g] \in symbols
    BY <2>4
  <2>6. ASSUME NEW j \in i..g - 1 PROVE text[j] \notin symbols
    <3>1. j \in i..length /\ ~(g <= j)
      BY <2>5, <2>6
    <3> QED
      BY <2>4, <3>1
  <2> QED
    BY <2>5, <2>6
<1> QED
  BY <1>1, <1>2

\* f[i] is what the first i digits of d say.
Valued(f, d, n) ==
  /\ f = [i \in 0..n |-> f[i]]
  /\ \A i \in 0..n : f[i] = IF i = 0 THEN 0 ELSE f[i - 1] * Base + Value[d[i]]

\* Each digit, after those before it.
LEMMA ValuedAt ==
  ASSUME NEW f, NEW d, NEW n, Valued(f, d, n), NEW i \in 0..n
  PROVE  f[i] = IF i = 0 THEN 0 ELSE f[i - 1] * Base + Value[d[i]]
BY Zenon DEF Valued

\* Any number of digits say something.
LEMMA Valuing ==
  ASSUME NEW d, NEW n \in Nat PROVE \E f : Valued(f, d, n)
<1> DEFINE S == {m \in Nat : \E f : Valued(f, d, m)}
<1>1. 0 \in S
  <2> DEFINE f == [i \in 0..0 |-> 0]
  <2>1. f = [i \in 0..0 |-> f[i]]
    BY Zenon
  <2>2. ASSUME NEW i \in 0..0 PROVE f[i] = 0 /\ i = 0
    OBVIOUS
  <2>3. Valued(f, d, 0)
    <3> HIDE DEF f
    <3> QED
      BY <2>1, <2>2, Zenon DEF Valued
  <2> QED
    BY <2>3
<1>2. ASSUME NEW m \in Nat, m \in S PROVE m + 1 \in S
  <2>1. PICK f : Valued(f, d, m)
    BY <1>2
  <2> DEFINE next == f[m] * Base + Value[d[m + 1]]
             g == [i \in 0..(m + 1) |-> IF i = m + 1 THEN next ELSE f[i]]
  <2>2. ASSUME NEW i \in 0..(m + 1)
        PROVE  g[i] = IF i = 0 THEN 0 ELSE g[i - 1] * Base + Value[d[i]]
    <3>1. CASE i = m + 1
      <4>1. g[i] = next /\ i # 0 /\ i - 1 = m
        BY <3>1
      <4>2. g[m] = f[m]
        OBVIOUS
      <4> HIDE DEF g
      <4> QED
        BY <3>1, <4>1, <4>2
    <3>2. CASE i # m + 1
      <4>1. i \in 0..m /\ g[i] = f[i]
        BY <3>2
      <4>2. f[i] = IF i = 0 THEN 0 ELSE f[i - 1] * Base + Value[d[i]]
        <5>1. \A h \in 0..m : f[h] = IF h = 0 THEN 0 ELSE f[h - 1] * Base + Value[d[h]]
          BY <2>1, Zenon DEF Valued
        <5> QED
          BY <4>1, <5>1, Zenon
      <4>3. i # 0 => g[i - 1] = f[i - 1]
        BY <4>1
      <4> QED
        BY <4>1, <4>2, <4>3
    <3> QED
      BY <3>1, <3>2
  <2>3. g = [i \in 0..(m + 1) |-> g[i]]
    BY Zenon
  <2>4. Valued(g, d, m + 1)
    <3> HIDE DEF g
    <3> QED
      BY <2>2, <2>3, Zenon DEF Valued
  <2> QED
    BY <2>4
<1> QED
  <2> HIDE DEF S
  <2>1. Nat \subseteq S
    BY <1>1, <1>2, EveryPlace
  <2> QED
    BY <2>1 DEF S

\* The size the digits say, and what each of them adds to it.
LEMMA SizeOfValues ==
  ASSUME NEW d, Len(d) \in Nat
  PROVE  \E f : /\ Valued(f, d, Len(d))
                /\ SizeOf(d) = IF f[Len(d)] < Half THEN f[Len(d)] ELSE f[Len(d)] - 2 * Half
<1> DEFINE N == Len(d)
           Whole(f) == f = [n \in 0..N |-> IF n = 0 THEN 0 ELSE f[n - 1] * Base + Value[d[n]]]
           value == CHOOSE f : Whole(f)
<1>1. SizeOf(d) = IF value[N] < Half THEN value[N] ELSE value[N] - 2 * Half
  BY Zenon DEF SizeOf
<1>2. N \in Nat
  OBVIOUS
<1> HIDE DEF N
<1>3. PICK f : Valued(f, d, N)
  BY <1>2, Valuing
<1>4. Whole(f)
  BY <1>3, Zenon DEF Valued
<1>5. Whole(value)
  BY <1>4, Zenon
<1>6. Valued(value, d, N)
  <2> HIDE DEF value
  <2>1. \A n \in 0..N : value[n] = IF n = 0 THEN 0 ELSE value[n - 1] * Base + Value[d[n]]
    BY <1>5, Zenon
  <2>2. value = [n \in 0..N |-> value[n]]
    BY <1>5, Zenon
  <2> QED
    BY <2>1, <2>2, Zenon DEF Valued
<1> HIDE DEF value
<1> QED
  BY <1>1, <1>6, Zenon DEF N

\* d is the k digits of t after the place a.
DigitsAfter(d, t, a, k) == \A j \in 1..k : d[j] = t[a + j] /\ d[j] \in Digit

\* Digits are counted, and their size summed.
Summed(f, t, a, k) ==
  \A j \in 0..k : /\ Automaton[t][a + j].state = "size"
                  /\ Automaton[t][a + j].digits = j
                  /\ Automaton[t][a + j].value = f[j]
                  /\ Automaton[t][a + j].body = Automaton[t][a].body

\* Digits at the beginning of a size line are.
LEMMA SizeScan ==
  ASSUME NEW t \in Text, NEW a \in Nat, NEW k \in Nat, a + k <= Len(t), k <= MaxDigits,
         Automaton[t][a].state = "size", Automaton[t][a].digits = 0,
         NEW d, DigitsAfter(d, t, a, k), NEW f, Valued(f, d, k)
  PROVE  Summed(f, t, a, k)
<1> DEFINE Goes(j) == /\ Automaton[t][a + j].state = "size"
                      /\ Automaton[t][a + j].digits = j
                      /\ Automaton[t][a + j].value = f[j]
                      /\ Automaton[t][a + j].body = Automaton[t][a].body
           S == {j \in Nat : j <= k => Goes(j)}
<1>1. 0 \in S
  <2>1. a + 0 = a /\ 0 \in 0..k /\ a \in 0..Len(t)
    BY Symbols
  <2>2. f[0] = 0
    BY <2>1, ValuedAt
  <2>3. Automaton[t][a].value = 0
    BY <2>1, Knows DEF Knowledge
  <2> QED
    BY <2>1, <2>2, <2>3
<1>2. ASSUME NEW j \in Nat, j \in S PROVE j + 1 \in S
  <2> SUFFICES ASSUME j + 1 <= k PROVE Goes(j + 1)
    OBVIOUS
  <2> DEFINE n == a + j
             s == Automaton[t][n]
             c == t[n + 1]
  <2>1. Goes(j)
    BY <1>2
  <2>2. n \in Nat /\ n + 1 <= Len(t) /\ n + 1 = a + (j + 1)
    BY Symbols
  <2>3. Automaton[t][n + 1] = Eat(s, c, n + 1) /\ s \in Knowledge(n) /\ c \in Symbol
    <3> HIDE DEF n
    <3> QED
      BY <2>2, Eats
  <2>4. c \in Digit /\ c = d[j + 1]
    <3>1. j + 1 \in 1..k
      OBVIOUS
    <3>2. t[a + (j + 1)] \in Digit /\ d[j + 1] = t[a + (j + 1)]
      BY <3>1 DEF DigitsAfter
    <3> QED
      BY <2>2, <3>2, Zenon
  <2>5. s.state = "size" /\ s.digits = j /\ s.value = f[j] /\ s.body = Automaton[t][a].body
    BY <2>1
  <2>6. f[j + 1] = f[j] * Base + Value[d[j + 1]]
    <3>1. j + 1 \in 0..k /\ j + 1 # 0 /\ (j + 1) - 1 = j
      OBVIOUS
    <3>2. \A i \in 0..k : f[i] = IF i = 0 THEN 0 ELSE f[i - 1] * Base + Value[d[i]]
      BY Zenon DEF Valued
    <3>3. f[j + 1] = IF j + 1 = 0 THEN 0 ELSE f[(j + 1) - 1] * Base + Value[d[j + 1]]
      BY <3>1, <3>2, Zenon
    <3> QED
      BY <3>1, <3>3, Zenon
  <2>7. s.digits # MaxDigits
    BY <2>5, ChunkedAssumption
  <2> HIDE DEF s, c, n
  <2>8. Eat(s, c, n + 1) = [s EXCEPT !.value = s.value * Base + Value[c], !.digits = s.digits + 1]
    <3>1. s \in Knowledge(n) /\ c \in Symbol /\ s.state = "size" /\ c \in Digit
      BY <2>3, <2>4, <2>5
    <3> QED
      BY <3>1, <2>7, EatDigit
  <2> DEFINE v == s.value * Base + Value[c]
             u == Automaton[t][n + 1]
  <2>9. u = [s EXCEPT !.value = v, !.digits = s.digits + 1]
    BY <2>3, <2>8, Zenon
  <2>10. v = f[j + 1]
    BY <2>4, <2>5, <2>6, Zenon
  <2> HIDE DEF v, u
  <2>11. u.state = s.state /\ u.value = v /\ u.digits = s.digits + 1 /\ u.body = s.body
    BY <2>3, <2>9 DEF Knowledge
  <2> QED
    BY <2>2, <2>5, <2>10, <2>11, Zenon DEF u
<1> QED
  <2> HIDE DEF S, Goes
  <2>1. Nat \subseteq S
    BY <1>1, <1>2, EveryPlace
  <2>2. \A j \in 0..k : Goes(j)
    BY <2>1 DEF S
  <2> QED
    BY <2>2, Zenon DEF Goes, Summed

\* The rest of a size line and a field run on until there is a CR.
LEMMA LineScan ==
  ASSUME NEW t \in Text, NEW a \in Nat, Automaton[t][a].state \in {"extension", "field"},
         NEW e \in Nat, a <= e, e <= Len(t), \A j \in a + 1..e : t[j] # CR
  PROVE  Automaton[t][e] = Automaton[t][a]
<1> DEFINE S == {n \in Nat : a <= n /\ n <= e => Automaton[t][n] = Automaton[t][a]}
<1>1. 0 \in S
  OBVIOUS
<1>2. ASSUME NEW n \in Nat, n \in S PROVE n + 1 \in S
  <2> SUFFICES ASSUME a <= n + 1, n + 1 <= e PROVE Automaton[t][n + 1] = Automaton[t][a]
    OBVIOUS
  <2>1. CASE a = n + 1
    BY <2>1
  <2>2. CASE a <= n
    <3> DEFINE s == Automaton[t][n]
               c == t[n + 1]
    <3>1. s = Automaton[t][a]
      BY <1>2, <2>2
    <3>2. n + 1 <= Len(t) /\ n + 1 \in a + 1..e
      BY <2>2, Symbols
    <3>3. Automaton[t][n + 1] = Eat(s, c, n + 1) /\ s \in Knowledge(n) /\ c \in Symbol
      BY <3>2, Eats
    <3>4. c # CR
      BY <3>2
    <3>5. s.state \in {"extension", "field"}
      BY <3>1
    <3> HIDE DEF s, c
    <3>6. s.state = "extension" => Eat(s, c, n + 1) = s
      BY <3>3, <3>4, EatExtension
    <3>7. s.state = "field" => Eat(s, c, n + 1) = [s EXCEPT !.state = "field"]
      BY <3>3, <3>4, EatLine
    <3>8. s.state = "field" => [s EXCEPT !.state = "field"] = s
      BY <3>3 DEF Knowledge
    <3>9. Eat(s, c, n + 1) = s
      BY <3>5, <3>6, <3>7, <3>8
    <3> QED
      BY <3>1, <3>3, <3>9, Zenon
  <2>3. a = n + 1 \/ a <= n
    OBVIOUS
  <2> QED
    BY <2>1, <2>2, <2>3, Zenon
<1> QED
  <2> HIDE DEF S
  <2>1. Nat \subseteq S
    BY <1>1, <1>2, EveryPlace
  <2> QED
    BY <2>1 DEF S

\* The places from one on.
Places(a, n) == [i \in 1..n |-> a + i]

\* A body and the places after it.
LEMMA PlacesGrow ==
  ASSUME NEW b \in Seq(Nat), NEW a \in Nat, NEW n \in Nat
  PROVE  /\ b \o Places(a, 0) = b
         /\ Append(b \o Places(a, n), a + (n + 1)) = b \o Places(a, n + 1)
<1>1. ASSUME NEW m \in Nat PROVE /\ Places(a, m) \in Seq(Nat) /\ Len(Places(a, m)) = m
                                  /\ \A i \in 1..m : Places(a, m)[i] = a + i
  <2>1. Places(a, m) \in [1..m -> Nat]
    BY DEF Places
  <2>2. Places(a, m) \in Seq(Nat)
    BY <2>1
  <2> QED
    BY <2>1, <2>2 DEF Places
<1>2. b \o Places(a, 0) = b
  <2> DEFINE p == Places(a, 0)
  <2>1. p \in Seq(Nat) /\ Len(p) = 0
    BY <1>1
  <2> HIDE DEF p
  <2>2. /\ b \o p \in Seq(Nat) /\ Len(b \o p) = Len(b)
        /\ \A i \in 1..Len(b) : (b \o p)[i] = b[i]
    BY <2>1, ConcatProperties
  <2>3. b \o p = b
    BY <2>2, SeqEqual
  <2> QED
    BY <2>3 DEF p
<1>3. Append(b \o Places(a, n), a + (n + 1)) = b \o Places(a, n + 1)
  <2> DEFINE p == Places(a, n)
             q == Places(a, n + 1)
             l == Append(b \o p, a + (n + 1))
             r == b \o q
  <2>1. p \in Seq(Nat) /\ Len(p) = n /\ \A i \in 1..n : p[i] = a + i
    BY <1>1
  <2>2. q \in Seq(Nat) /\ Len(q) = n + 1 /\ \A i \in 1..n + 1 : q[i] = a + i
    <3> DEFINE m == n + 1
    <3>1. m \in Nat
      OBVIOUS
    <3> HIDE DEF m
    <3>2. Places(a, m) \in Seq(Nat) /\ Len(Places(a, m)) = m /\ \A i \in 1..m : Places(a, m)[i] = a + i
      BY <1>1, <3>1
    <3> QED
      BY <3>2 DEF m
  <2> HIDE DEF p, q
  <2>3. /\ b \o p \in Seq(Nat) /\ Len(b \o p) = Len(b) + n
        /\ \A i \in 1..Len(b) : (b \o p)[i] = b[i]
        /\ \A i \in 1..n : (b \o p)[Len(b) + i] = p[i]
    <3>1. /\ b \o p \in Seq(Nat) /\ Len(b \o p) = Len(b) + Len(p)
          /\ \A i \in 1..Len(b) + Len(p) : (b \o p)[i] = IF i <= Len(b) THEN b[i] ELSE p[i - Len(b)]
      BY <2>1, ConcatProperties
    <3>2. Len(b) \in Nat
      OBVIOUS
    <3>3. ASSUME NEW i \in 1..Len(b) PROVE (b \o p)[i] = b[i]
      <4>1. i \in 1..Len(b) + Len(p) /\ i <= Len(b)
        BY <3>2, <2>1
      <4> QED
        BY <3>1, <4>1
    <3>4. ASSUME NEW i \in 1..n PROVE (b \o p)[Len(b) + i] = p[i]
      <4> DEFINE j == Len(b) + i
      <4>1. j \in 1..Len(b) + Len(p) /\ ~(j <= Len(b)) /\ j - Len(b) = i
        BY <3>2, <2>1
      <4> HIDE DEF j
      <4>2. (b \o p)[j] = p[i]
        BY <3>1, <4>1
      <4> QED
        BY <4>2 DEF j
    <3> QED
      BY <3>1, <3>2, <3>3, <3>4, <2>1
  <2>4. /\ r \in Seq(Nat) /\ Len(r) = Len(b) + n + 1
        /\ \A i \in 1..Len(b) : r[i] = b[i]
        /\ \A i \in 1..n + 1 : r[Len(b) + i] = q[i]
    <3>1. /\ b \o q \in Seq(Nat) /\ Len(b \o q) = Len(b) + Len(q)
          /\ \A i \in 1..Len(b) + Len(q) : (b \o q)[i] = IF i <= Len(b) THEN b[i] ELSE q[i - Len(b)]
      BY <2>2, ConcatProperties
    <3>2. Len(b) \in Nat
      OBVIOUS
    <3>3. ASSUME NEW i \in 1..Len(b) PROVE (b \o q)[i] = b[i]
      <4>1. i \in 1..Len(b) + Len(q) /\ i <= Len(b)
        BY <3>2, <2>2
      <4> QED
        BY <3>1, <4>1
    <3>4. ASSUME NEW i \in 1..n + 1 PROVE (b \o q)[Len(b) + i] = q[i]
      <4> DEFINE j == Len(b) + i
      <4>1. j \in 1..Len(b) + Len(q) /\ ~(j <= Len(b)) /\ j - Len(b) = i
        BY <3>2, <2>2
      <4> HIDE DEF j
      <4>2. (b \o q)[j] = q[i]
        BY <3>1, <4>1
      <4> QED
        BY <4>2 DEF j
    <3> QED
      BY <3>1, <3>2, <3>3, <3>4, <2>2
  <2>5. /\ l \in Seq(Nat) /\ Len(l) = Len(b) + n + 1
        /\ \A i \in 1..Len(b) + n : l[i] = (b \o p)[i]
        /\ l[Len(b) + n + 1] = a + (n + 1)
    <3> DEFINE u == b \o p
    <3> HIDE DEF u
    <3>1. u \in Seq(Nat) /\ Len(u) = Len(b) + n
      BY <2>3 DEF u
    <3>2. a + (n + 1) \in Nat
      OBVIOUS
    <3> QED
      BY <3>1, <3>2, AppendProperties DEF u
  <2> HIDE DEF l, r
  <2>6. ASSUME NEW i \in 1..Len(b) + n + 1 PROVE l[i] = r[i]
    <3>0. Len(b) \in Nat
      OBVIOUS
    <3>1. CASE i <= Len(b)
      <4>1. i \in 1..Len(b) /\ i \in 1..Len(b) + n
        BY <3>0, <3>1
      <4> QED
        BY <4>1, <2>3, <2>4, <2>5
    <3>2. CASE i > Len(b) /\ i # Len(b) + n + 1
      <4> DEFINE j == i - Len(b)
      <4>1. j \in 1..n /\ j \in 1..n + 1 /\ i = Len(b) + j /\ i \in 1..Len(b) + n
        BY <3>0, <3>2
      <4> HIDE DEF j
      <4>2. l[i] = p[j]
        BY <4>1, <2>3, <2>5
      <4>3. r[i] = q[j]
        BY <4>1, <2>4
      <4> QED
        BY <4>1, <4>2, <4>3, <2>1, <2>2
    <3>3. CASE i = Len(b) + n + 1
      <4>1. n + 1 \in 1..n + 1 /\ i = Len(b) + (n + 1)
        BY <3>0, <3>3
      <4>2. r[i] = q[n + 1]
        BY <4>1, <2>4
      <4>3. q[n + 1] = a + (n + 1)
        BY <4>1, <2>2
      <4> QED
        BY <4>2, <4>3, <3>3, <2>5
    <3> QED
      BY <3>0, <3>1, <3>2, <3>3
  <2>7. l = r
    <3>1. Len(l) = Len(r) /\ \A i \in 1..Len(l) : l[i] = r[i]
      BY <2>4, <2>5, <2>6
    <3> QED
      BY <2>4, <2>5, <3>1, SeqEqual
  <2> QED
    BY <2>7 DEF l, r, p, q
<1> QED
  BY <1>2, <1>3

\* Each place more is a byte of the body, and one that is owed no longer.
TakesData(t, a, k) ==
  \A j \in 0..k :
    /\ Automaton[t][a + j].state = IF j = Automaton[t][a].value THEN "dataCR" ELSE "data"
    /\ Automaton[t][a + j].value = Automaton[t][a].value - j
    /\ Automaton[t][a + j].body = Automaton[t][a].body \o Places(a, j)

\* Data runs on until the chunk owes nothing.
LEMMA DataScan ==
  ASSUME NEW t \in Text, NEW a \in Nat, NEW k \in Nat, a + k <= Len(t),
         Automaton[t][a].state = "data", k <= Automaton[t][a].value
  PROVE  TakesData(t, a, k)
<1> DEFINE v == Automaton[t][a].value
           b == Automaton[t][a].body
           Goes(j) == /\ Automaton[t][a + j].state = IF j = v THEN "dataCR" ELSE "data"
                      /\ Automaton[t][a + j].value = v - j
                      /\ Automaton[t][a + j].body = b \o Places(a, j)
           S == {j \in Nat : j <= k => Goes(j)}
<1>1. v \in Nat /\ v > 0 /\ k <= v /\ b \in Seq(Nat)
  <2>1. a \in 0..Len(t)
    BY Symbols
  <2>2. Automaton[t][a] \in Knowledge(a)
    BY <2>1, Knows
  <2>3. Seq(1..a) \subseteq Seq(Nat)
    <3>1. 1..a \subseteq Nat
      OBVIOUS
    <3> QED
      BY <3>1
  <2> QED
    BY <2>2, <2>3 DEF Knowledge
<1>2. 0 \in S
  <2>1. a + 0 = a /\ v - 0 = v /\ 0 # v
    BY <1>1
  <2>2. b \o Places(a, 0) = b
    BY <1>1, PlacesGrow
  <2> QED
    BY <2>1, <2>2
<1>3. ASSUME NEW j \in Nat, j \in S PROVE j + 1 \in S
  <2> HIDE DEF Goes
  <2> SUFFICES ASSUME j + 1 <= k PROVE Goes(j + 1)
    OBVIOUS
  <2>1. Goes(j)
    <3>1. j <= k
      OBVIOUS
    <3> QED
      BY <1>3, <3>1, Zenon
  <2> USE DEF Goes
  <2> HIDE DEF v, b
  <2> DEFINE n == a + j
             s == Automaton[t][n]
             c == t[n + 1]
             u == Automaton[t][n + 1]
  <2>2. n \in Nat /\ n + 1 <= Len(t) /\ n + 1 = a + (j + 1)
    BY Symbols
  <2>3. u = Eat(s, c, n + 1) /\ s \in Knowledge(n) /\ c \in Symbol
    <3> HIDE DEF n
    <3> QED
      BY <2>2, Eats
  <2>4. s.state = "data" /\ s.value = v - j /\ s.body = b \o Places(a, j)
    <3>1. j # v
      BY <1>1
    <3> QED
      BY <2>1, <3>1
  <2> HIDE DEF s, c, u, n
  <2>5. u = [s EXCEPT !.body = Append(s.body, n + 1), !.value = s.value - 1,
                      !.state = IF s.value = 1 THEN "dataCR" ELSE "data"]
    <3>1. s \in Knowledge(n) /\ c \in Symbol /\ s.state = "data"
      BY <2>3, <2>4
    <3>2. Eat(s, c, n + 1) = [s EXCEPT !.body = Append(s.body, n + 1), !.value = s.value - 1,
                      !.state = IF s.value = 1 THEN "dataCR" ELSE "data"]
      BY <3>1, EatData, ZenonT(60)
    <3> QED
      BY <2>3, <3>2, Zenon
  <2> DEFINE x == Append(s.body, n + 1)
             y == s.value - 1
             z == IF s.value = 1 THEN "dataCR" ELSE "data"
  <2>6. u = [s EXCEPT !.body = x, !.value = y, !.state = z]
    BY <2>5, Zenon
  <2>7. x = b \o Places(a, j + 1)
    <3>1. Append(b \o Places(a, j), a + (j + 1)) = b \o Places(a, j + 1)
      BY <1>1, PlacesGrow
    <3> QED
      BY <2>2, <2>4, <3>1, Zenon
  <2>8. y = v - (j + 1)
    BY <1>1, <2>4
  <2>9. z = IF j + 1 = v THEN "dataCR" ELSE "data"
    BY <1>1, <2>4
  <2> HIDE DEF x, y, z
  <2>10. u.state = z /\ u.value = y /\ u.body = x
    BY <2>3, <2>6 DEF Knowledge
  <2> QED
    BY <2>2, <2>7, <2>8, <2>9, <2>10, Zenon DEF u
<1> QED
  <2> HIDE DEF S, Goes
  <2>1. Nat \subseteq S
    BY <1>2, <1>3, EveryPlace
  <2>2. \A j \in 0..k : Goes(j)
    BY <2>1 DEF S
  <2> QED
    BY <2>2, Zenon DEF Goes, TakesData, v, b

\* The end of a size line, symbol by symbol.
LEMMA SizeMoves ==
  ASSUME NEW t \in Text, NEW n \in Nat, n + 1 <= Len(t)
  PROVE  LET s == Automaton[t][n]
             u == Automaton[t][n + 1]
             c == t[n + 1]
         IN  /\ s.state = "size" /\ s.digits = 0 /\ c \notin Digit => u.state = "bad"
             /\ s.state = "size" /\ s.digits # 0 /\ c \notin Digit /\ c = CR =>
                  u.state = "sizeLF" /\ u.value = s.value /\ u.body = s.body
             /\ s.state = "size" /\ s.digits # 0 /\ c \notin Digit /\ c # CR =>
                  u.state = "extension" /\ u.value = s.value /\ u.body = s.body
             /\ s.state = "extension" /\ c = CR =>
                  u.state = "sizeLF" /\ u.value = s.value /\ u.body = s.body
             /\ s.state = "sizeLF" /\ c # LF => u.state = "bad"
             /\ s.state = "sizeLF" /\ c = LF /\ s.value = 0 =>
                  u.state = "line" /\ u.body = s.body
             /\ s.state = "sizeLF" /\ c = LF /\ s.value # 0 =>
                  u.state = "data" /\ u.value = s.value /\ u.body = s.body
<1> DEFINE s == Automaton[t][n]
           u == Automaton[t][n + 1]
           c == t[n + 1]
<1>1. u = Eat(s, c, n + 1) /\ s \in Knowledge(n) /\ c \in Symbol
  BY Eats
<1> HIDE DEF s, u, c
<1>2. /\ \A state \in States : [s EXCEPT !.state = state].state = state
      /\ \A state \in States : [s EXCEPT !.state = state].value = s.value
      /\ \A state \in States : [s EXCEPT !.state = state].body = s.body
  BY <1>1 DEF Knowledge
<1>3. ASSUME s.state = "size", s.digits = 0, c \notin Digit
      PROVE  u.state = "bad"
  <2>1. u = [s EXCEPT !.state = "bad"]
    BY <1>1, <1>3, EatSize
  <2> QED
    BY <1>2, <2>1 DEF States
<1>4. ASSUME s.state = "size", s.digits # 0, c \notin Digit, c = CR
      PROVE  u.state = "sizeLF" /\ u.value = s.value /\ u.body = s.body
  <2>1. u = [s EXCEPT !.state = "sizeLF"]
    BY <1>1, <1>4, EatSize
  <2> QED
    BY <1>2, <2>1 DEF States
<1>5. ASSUME s.state = "size", s.digits # 0, c \notin Digit, c # CR
      PROVE  u.state = "extension" /\ u.value = s.value /\ u.body = s.body
  <2>1. u = [s EXCEPT !.state = "extension"]
    BY <1>1, <1>5, EatSize
  <2> QED
    BY <1>2, <2>1 DEF States
<1>6. ASSUME s.state = "extension", c = CR
      PROVE  u.state = "sizeLF" /\ u.value = s.value /\ u.body = s.body
  <2>1. u = [s EXCEPT !.state = "sizeLF"]
    BY <1>1, <1>6, EatExtension
  <2> QED
    BY <1>2, <2>1 DEF States
<1>7. ASSUME s.state = "sizeLF", c # LF
      PROVE  u.state = "bad"
  <2>1. u = [s EXCEPT !.state = "bad"]
    BY <1>1, <1>7, EatExtension
  <2> QED
    BY <1>2, <2>1 DEF States
<1>8. ASSUME s.state = "sizeLF", c = LF, s.value = 0
      PROVE  u.state = "line" /\ u.body = s.body
  <2>1. u = [s EXCEPT !.state = "line"]
    BY <1>1, <1>8, EatExtension
  <2> QED
    BY <1>2, <2>1 DEF States
<1>9. ASSUME s.state = "sizeLF", c = LF, s.value # 0
      PROVE  u.state = "data" /\ u.value = s.value /\ u.body = s.body
  <2>1. u = [s EXCEPT !.state = "data"]
    BY <1>1, <1>9, EatExtension
  <2> QED
    BY <1>2, <2>1 DEF States
<1> QED
  BY <1>3, <1>4, <1>5, <1>6, <1>7, <1>8, <1>9, Zenon DEF s, u, c

\* The line's end after a chunk's data.
LEMMA EndMoves ==
  ASSUME NEW t \in Text, NEW n \in Nat, n + 1 <= Len(t)
  PROVE  LET s == Automaton[t][n]
             u == Automaton[t][n + 1]
             c == t[n + 1]
         IN  /\ s.state = "dataCR" /\ c = CR => u.state = "dataLF" /\ u.body = s.body
             /\ s.state = "dataCR" /\ c # CR => u.state = "bad"
             /\ s.state = "dataLF" /\ c # LF => u.state = "bad"
             /\ s.state = "dataLF" /\ c = LF =>
                  u.state = "size" /\ u.digits = 0 /\ u.body = s.body
<1> DEFINE s == Automaton[t][n]
           u == Automaton[t][n + 1]
           c == t[n + 1]
<1>1. u = Eat(s, c, n + 1) /\ s \in Knowledge(n) /\ c \in Symbol
  BY Eats
<1> HIDE DEF s, u, c
<1>2. /\ \A state \in States : [s EXCEPT !.state = state].state = state
      /\ \A state \in States : [s EXCEPT !.state = state].value = s.value
      /\ \A state \in States : [s EXCEPT !.state = state].body = s.body
  BY <1>1 DEF Knowledge
<1>3. ASSUME s.state = "dataCR", c = CR
      PROVE  u.state = "dataLF" /\ u.body = s.body
  <2>1. u = [s EXCEPT !.state = "dataLF"]
    BY <1>1, <1>3, EatDataEnd
  <2> QED
    BY <1>2, <2>1 DEF States
<1>4. ASSUME s.state = "dataCR", c # CR
      PROVE  u.state = "bad"
  <2>1. u = [s EXCEPT !.state = "bad"]
    BY <1>1, <1>4, EatDataEnd
  <2> QED
    BY <1>2, <2>1 DEF States
<1>5. ASSUME s.state = "dataLF", c # LF
      PROVE  u.state = "bad"
  <2>1. u = [s EXCEPT !.state = "bad"]
    BY <1>1, <1>5, EatDataEnd
  <2> QED
    BY <1>2, <2>1 DEF States
<1>6. ASSUME s.state = "dataLF", c = LF
      PROVE  u.state = "size" /\ u.digits = 0 /\ u.body = s.body
  <2>1. u = [state |-> "size", value |-> 0, digits |-> 0, body |-> s.body]
    BY <1>1, <1>6, EatDataEnd
  <2> QED
    BY <2>1
<1> QED
  BY <1>3, <1>4, <1>5, <1>6, Zenon DEF s, u, c

\* The lines of the trailer.
LEMMA LineMoves ==
  ASSUME NEW t \in Text, NEW n \in Nat, n + 1 <= Len(t)
  PROVE  LET s == Automaton[t][n]
             u == Automaton[t][n + 1]
             c == t[n + 1]
         IN  /\ s.state = "line" /\ c = CR => u.state = "lastLF" /\ u.body = s.body
             /\ s.state = "line" /\ c # CR => u.state = "field" /\ u.body = s.body
             /\ s.state = "field" /\ c = CR => u.state = "fieldLF" /\ u.body = s.body
             /\ s.state = "fieldLF" /\ c = LF => u.state = "line" /\ u.body = s.body
             /\ s.state = "fieldLF" /\ c # LF => u.state = "bad"
             /\ s.state = "lastLF" /\ c = LF => u.state = "over" /\ u.body = s.body
             /\ s.state = "lastLF" /\ c # LF => u.state = "bad"
<1> DEFINE s == Automaton[t][n]
           u == Automaton[t][n + 1]
           c == t[n + 1]
<1>1. u = Eat(s, c, n + 1) /\ s \in Knowledge(n) /\ c \in Symbol
  BY Eats
<1> HIDE DEF s, u, c
<1>2. /\ \A state \in States : [s EXCEPT !.state = state].state = state
      /\ \A state \in States : [s EXCEPT !.state = state].value = s.value
      /\ \A state \in States : [s EXCEPT !.state = state].body = s.body
  BY <1>1 DEF Knowledge
<1>3. ASSUME s.state = "line", c = CR
      PROVE  u.state = "lastLF" /\ u.body = s.body
  <2>1. u = [s EXCEPT !.state = "lastLF"]
    BY <1>1, <1>3, EatLine
  <2> QED
    BY <1>2, <2>1 DEF States
<1>4. ASSUME s.state = "line", c # CR
      PROVE  u.state = "field" /\ u.body = s.body
  <2>1. u = [s EXCEPT !.state = "field"]
    BY <1>1, <1>4, EatLine
  <2> QED
    BY <1>2, <2>1 DEF States
<1>5. ASSUME s.state = "field", c = CR
      PROVE  u.state = "fieldLF" /\ u.body = s.body
  <2>1. u = [s EXCEPT !.state = "fieldLF"]
    BY <1>1, <1>5, EatLine
  <2> QED
    BY <1>2, <2>1 DEF States
<1>6. ASSUME s.state = "fieldLF", c = LF
      PROVE  u.state = "line" /\ u.body = s.body
  <2>1. u = [s EXCEPT !.state = "line"]
    BY <1>1, <1>6, EatLine
  <2> QED
    BY <1>2, <2>1 DEF States
<1>7. ASSUME s.state = "fieldLF", c # LF
      PROVE  u.state = "bad"
  <2>1. u = [s EXCEPT !.state = "bad"]
    BY <1>1, <1>7, EatLine
  <2> QED
    BY <1>2, <2>1 DEF States
<1>8. ASSUME s.state = "lastLF", c = LF
      PROVE  u.state = "over" /\ u.body = s.body
  <2>1. u = [s EXCEPT !.state = "over"]
    BY <1>1, <1>8, EatLine
  <2> QED
    BY <1>2, <2>1 DEF States
<1>9. ASSUME s.state = "lastLF", c # LF
      PROVE  u.state = "bad"
  <2>1. u = [s EXCEPT !.state = "bad"]
    BY <1>1, <1>9, EatLine
  <2> QED
    BY <1>2, <2>1 DEF States
<1> QED
  BY <1>3, <1>4, <1>5, <1>6, <1>7, <1>8, <1>9, Zenon DEF s, u, c

\* The digits of a size line, all of them and not too many, say its size.
LEMMA SizeRun ==
  ASSUME NEW t \in Text, NEW a \in Nat, NEW e \in Nat, a < e, e <= Len(t) + 1,
         Automaton[t][a].state = "size", Automaton[t][a].digits = 0,
         \A j \in a + 1..e - 1 : t[j] \in Digit,
         e - (a + 1) <= MaxDigits
  PROVE  /\ Automaton[t][e - 1].state = "size"
         /\ Automaton[t][e - 1].digits = e - (a + 1)
         /\ Automaton[t][e - 1].body = Automaton[t][a].body
         /\ Automaton[t][e - 1].value < Half =>
              SizeOf(SubSeq(t, a + 1, e - 1)) = Automaton[t][e - 1].value
<1> DEFINE k == e - (a + 1)
           d == SubSeq(t, a + 1, e - 1)
<1>1. k \in Nat /\ k <= MaxDigits /\ a + k = e - 1 /\ a + k <= Len(t)
  BY Symbols
<1>2. Len(d) = k /\ DigitsAfter(d, t, a, k)
  <2>1. t \in Seq(Symbol)
    BY ChunkedAssumption
  <2>2. a + 1 \in 1..Len(t) + 1 /\ e - 1 \in a..Len(t)
    BY Symbols
  <2>3. Len(d) = k
    BY <1>1, <2>1, <2>2, SubSeqProperties
  <2>4. ASSUME NEW j \in 1..k PROVE d[j] = t[a + j]
    <3>1. d[j] = t[(a + 1) + j - 1]
      BY <1>1, <2>1, <2>2, SubSeqProperties
    <3>2. (a + 1) + j - 1 = a + j
      OBVIOUS
    <3> QED
      BY <3>1, <3>2, Zenon
  <2>5. ASSUME NEW j \in 1..k PROVE t[a + j] \in Digit
    <3>1. a + j \in a + 1..e - 1
      OBVIOUS
    <3> QED
      BY <3>1
  <2> QED
    BY <2>3, <2>4, <2>5 DEF DigitsAfter
<1> HIDE DEF k, d
<1>4. PICK f : /\ Valued(f, d, Len(d))
               /\ SizeOf(d) = IF f[Len(d)] < Half THEN f[Len(d)] ELSE f[Len(d)] - 2 * Half
  BY <1>1, <1>2, SizeOfValues
<1>5. Valued(f, d, k)
  BY <1>2, <1>4, Zenon
<1>6. k \in 0..k
  BY <1>1
<1>7. /\ Automaton[t][a + k].state = "size"
      /\ Automaton[t][a + k].digits = k
      /\ Automaton[t][a + k].value = f[k]
      /\ Automaton[t][a + k].body = Automaton[t][a].body
  <2>1. Summed(f, t, a, k)
    BY <1>1, <1>2, <1>5, SizeScan
  <2> QED
    BY <1>6, <2>1 DEF Summed
<1>8. Automaton[t][e - 1].value < Half => SizeOf(d) = Automaton[t][e - 1].value
  <2>1. SizeOf(d) = IF f[k] < Half THEN f[k] ELSE f[k] - 2 * Half
    BY <1>2, <1>4, Zenon
  <2>2. Automaton[t][e - 1].value = f[k]
    BY <1>1, <1>7, Zenon
  <2> QED
    BY <2>1, <2>2, Zenon
<1> QED
  BY <1>1, <1>7, <1>8, Zenon DEF k, d

\* A digit more than a size may have is refused.
LEMMA SizeTooLong ==
  ASSUME NEW t \in Text, NEW a \in Nat, NEW e \in Nat, a < e, e <= Len(t) + 1,
         Automaton[t][a].state = "size", Automaton[t][a].digits = 0,
         \A j \in a + 1..e - 1 : t[j] \in Digit,
         e - (a + 1) > MaxDigits
  PROVE  Automaton[t][e - 1].state = "bad"
<1> DEFINE n == a + MaxDigits
<1>1. n \in Nat /\ n + 1 <= e - 1 /\ n + 1 <= Len(t) /\ e - 1 \in 0..Len(t)
  BY Symbols, ChunkedAssumption
<1>2. Automaton[t][n].state = "size" /\ Automaton[t][n].digits = MaxDigits
  <2> DEFINE m == n + 1
  <2>1. m \in Nat /\ a < m /\ m <= Len(t) + 1 /\ m - (a + 1) <= MaxDigits
        /\ m - (a + 1) = MaxDigits /\ m - 1 = n
    BY <1>1, ChunkedAssumption
  <2>2. \A j \in a + 1..m - 1 : t[j] \in Digit
    <3> SUFFICES ASSUME NEW j \in a + 1..m - 1 PROVE t[j] \in Digit
      OBVIOUS
    <3>1. j \in a + 1..e - 1
      BY <1>1, ChunkedAssumption, SMTT(60)
    <3> QED
      BY <3>1
  <2> HIDE DEF m, n
  <2>3. Automaton[t][m - 1].state = "size" /\ Automaton[t][m - 1].digits = m - (a + 1)
    BY <2>1, <2>2, SizeRun
  <2> QED
    BY <2>1, <2>3, Zenon
<1>3. t[n + 1] \in Digit
  <2>1. n + 1 \in a + 1..e - 1
    BY <1>1, ChunkedAssumption
  <2> QED
    BY <2>1
<1> DEFINE s == Automaton[t][n]
           c == t[n + 1]
           u == Automaton[t][n + 1]
<1> HIDE DEF n
<1>4. u = Eat(s, c, n + 1) /\ s \in Knowledge(n) /\ c \in Symbol
  BY <1>1, Eats
<1>5. s.state = "size" /\ s.digits = MaxDigits /\ c \in Digit
  BY <1>2, <1>3
<1> HIDE DEF s, c, u
<1>6. u = [s EXCEPT !.state = "bad"]
  BY <1>4, <1>5, EatDigitTooMany
<1>7. u.state = "bad"
  BY <1>4, <1>6 DEF Knowledge
<1>8. Automaton[t][e - 1] = u
  <2> DEFINE m == n + 1
  <2>1. m \in Nat /\ m <= e - 1 /\ Automaton[t][m].state \in {"bad", "over"}
    BY <1>1, <1>7 DEF u
  <2> HIDE DEF m
  <2>2. Automaton[t][e - 1] = Automaton[t][m]
    BY <1>1, <2>1, Stays
  <2> QED
    BY <2>2 DEF m, u
<1> QED
  BY <1>7, <1>8

\* The line after the digits, up to its CR.
LEMMA SizeLineEnd ==
  ASSUME NEW t \in Text, NEW e \in Nat, NEW r \in Nat, 1 <= e, e <= r, r <= Len(t),
         Automaton[t][e - 1].state = "size", Automaton[t][e - 1].digits # 0,
         t[e] \notin Digit, \A j \in e..r - 1 : t[j] # CR
  PROVE  /\ Automaton[t][r].state = IF t[r] = CR THEN "sizeLF" ELSE "extension"
         /\ Automaton[t][r].value = Automaton[t][e - 1].value
         /\ Automaton[t][r].body = Automaton[t][e - 1].body
<1> DEFINE Goes(n) == /\ Automaton[t][n].state = IF t[n] = CR THEN "sizeLF" ELSE "extension"
                      /\ Automaton[t][n].value = Automaton[t][e - 1].value
                      /\ Automaton[t][n].body = Automaton[t][e - 1].body
<1>1. Goes(e)
  <2> DEFINE n == e - 1
  <2>1. n \in Nat /\ n + 1 <= Len(t) /\ n + 1 = e
    BY Symbols
  <2> HIDE DEF n
  <2>2. t[n + 1] \notin Digit /\ Automaton[t][n].state = "size" /\ Automaton[t][n].digits # 0
    BY <2>1 DEF n
  <2>3. Goes(n + 1)
    BY <2>1, <2>2, SizeMoves DEF n
  <2> QED
    BY <2>1, <2>3
<1>2. CASE r = e
  BY <1>1, <1>2
<1>3. CASE r # e
  <2> DEFINE m == r - 1
  <2>1. m \in Nat /\ e <= m /\ m + 1 <= Len(t) /\ m + 1 = r /\ m <= Len(t)
    BY <1>3, Symbols
  <2>2. t[e] # CR /\ \A j \in e + 1..m : t[j] # CR
    <3>1. e \in e..r - 1
      BY <2>1
    <3>2. ASSUME NEW j \in e + 1..m PROVE t[j] # CR
      <4>1. j \in e..r - 1
        BY <2>1
      <4> QED
        BY <4>1
    <3> QED
      BY <3>1, <3>2
  <2>3. Automaton[t][e].state = "extension"
    BY <1>1, <2>2
  <2> HIDE DEF m
  <2>4. Automaton[t][m] = Automaton[t][e]
    BY <2>1, <2>2, <2>3, LineScan
  <2>5. CASE t[m + 1] = CR
    BY <1>1, <2>1, <2>3, <2>4, <2>5, SizeMoves
  <2>6. CASE t[m + 1] # CR
    <3> DEFINE l == m + 1
    <3>1. l \in Nat /\ e <= l /\ l <= Len(t) /\ Automaton[t][e].state \in {"extension", "field"}
      BY <2>1, <2>3
    <3>2. \A j \in e + 1..l : t[j] # CR
      BY <2>1, <2>2, <2>6
    <3> HIDE DEF l
    <3>3. Automaton[t][l] = Automaton[t][e]
      BY <3>1, <3>2, LineScan
    <3> QED
      BY <1>1, <2>1, <2>3, <2>6, <3>3 DEF l
  <2> QED
    BY <2>5, <2>6
<1> QED
  BY <1>2, <1>3

\* A line of the trailer, up to its CR.
LEMMA TrailerLineEnd ==
  ASSUME NEW t \in Text, NEW a \in Nat, NEW r \in Nat, a < r, r <= Len(t),
         Automaton[t][a].state = "line", \A j \in a + 1..r - 1 : t[j] # CR
  PROVE  /\ Automaton[t][r].state =
              IF t[r] # CR THEN "field" ELSE IF r = a + 1 THEN "lastLF" ELSE "fieldLF"
         /\ Automaton[t][r].body = Automaton[t][a].body
<1>1. a + 1 <= Len(t)
  BY Symbols
<1>2. CASE r = a + 1
  BY <1>1, <1>2, LineMoves
<1>3. CASE r # a + 1
  <2> DEFINE m == r - 1
             e == a + 1
  <2>1. m \in Nat /\ e \in Nat /\ e <= m /\ m + 1 <= Len(t) /\ m + 1 = r /\ m <= Len(t)
    BY <1>3, Symbols
  <2>2. t[e] # CR /\ \A j \in e + 1..m : t[j] # CR
    <3>1. e \in a + 1..r - 1
      BY <2>1
    <3>2. ASSUME NEW j \in e + 1..m PROVE t[j] # CR
      <4>1. j \in a + 1..r - 1
        BY <2>1
      <4> QED
        BY <4>1
    <3> QED
      BY <3>1, <3>2
  <2>3. Automaton[t][e].state = "field" /\ Automaton[t][e].body = Automaton[t][a].body
    BY <1>1, <2>2, LineMoves
  <2> HIDE DEF m, e
  <2>4. Automaton[t][m] = Automaton[t][e]
    BY <2>1, <2>2, <2>3, LineScan
  <2>5. CASE t[m + 1] = CR
    <3>1. Automaton[t][m + 1].state = "fieldLF" /\ Automaton[t][m + 1].body = Automaton[t][m].body
      BY <2>1, <2>3, <2>4, <2>5, LineMoves
    <3> QED
      BY <1>3, <2>1, <2>3, <2>4, <2>5, <3>1
  <2>6. CASE t[m + 1] # CR
    <3> DEFINE l == m + 1
    <3>1. l \in Nat /\ e <= l /\ l <= Len(t) /\ Automaton[t][e].state \in {"extension", "field"}
      BY <2>1, <2>3
    <3>2. \A j \in e + 1..l : t[j] # CR
      BY <2>1, <2>2, <2>6
    <3> HIDE DEF l
    <3>3. Automaton[t][l] = Automaton[t][e]
      BY <2>1, <3>1, <3>2, LineScan
    <3> QED
      BY <2>1, <2>3, <2>6, <3>3 DEF l
  <2> QED
    BY <2>5, <2>6
<1> QED
  BY <1>2, <1>3

-----------------------------------------------------------------------------
(* The invariant, and the three ways a call ends.                          *)

\* What a phase says of the automaton.
Agrees(s, p, r) == /\ p = 0 => s.state = "size" /\ s.digits = 0
                   /\ p = 1 => s.state = "data" /\ s.value = r
                   /\ p = 2 => s.state = "dataCR"
                   /\ p = 3 => s.state = "line"
                   /\ p = 4 => s.state = "over"

\* The properties, and that a body once refused is given up.
ChunkedInv == /\ text \in Text
              /\ ChunkedTypeOK
              /\ AsSymbolBySymbol
              /\ VerdictIsDue
              /\ result = -1 => pc = "stop"

\* What the decoder carries is what its phase says of the automaton.
LEMMA Carries ==
  ASSUME phase \in 0..4
  PROVE  AsSymbolBySymbol <=> /\ body = Automaton[text][at].body
                              /\ Agrees(Automaton[text][at], phase, remaining)
<1>1. phase = 0 \/ phase = 1 \/ phase = 2 \/ phase = 3 \/ phase = 4
  OBVIOUS
<1> DEFINE s == Automaton[text][at]
<1> HIDE DEF s
<1>2. AsSymbolBySymbol <=>
        /\ body = s.body
        /\ CASE phase = 0 -> s.state = "size" /\ s.digits = 0
             [] phase = 1 -> s.state = "data" /\ s.value = remaining
             [] phase = 2 -> s.state = "dataCR"
             [] phase = 3 -> s.state = "line"
             [] phase = 4 -> s.state = "over"
  BY Zenon DEF AsSymbolBySymbol, s
<1>3. CASE phase = 0
  BY <1>2, <1>3 DEF Agrees, s
<1>4. CASE phase = 1
  BY <1>2, <1>4 DEF Agrees, s
<1>5. CASE phase = 2
  BY <1>2, <1>5 DEF Agrees, s
<1>6. CASE phase = 3
  BY <1>2, <1>6 DEF Agrees, s
<1>7. CASE phase = 4
  BY <1>2, <1>7 DEF Agrees, s
<1> QED
  BY <1>1, <1>3, <1>4, <1>5, <1>6, <1>7

\* The same of the next state.
LEMMA CarriesOn ==
  ASSUME phase' \in 0..4
  PROVE  AsSymbolBySymbol' <=> /\ body' = Automaton[text'][at'].body
                               /\ Agrees(Automaton[text'][at'], phase', remaining')
<1>1. phase' = 0 \/ phase' = 1 \/ phase' = 2 \/ phase' = 3 \/ phase' = 4
  OBVIOUS
<1> DEFINE s == Automaton[text'][at']
<1> HIDE DEF s
<1>2. AsSymbolBySymbol' <=>
        /\ body' = s.body
        /\ CASE phase' = 0 -> s.state = "size" /\ s.digits = 0
             [] phase' = 1 -> s.state = "data" /\ s.value = remaining'
             [] phase' = 2 -> s.state = "dataCR"
             [] phase' = 3 -> s.state = "line"
             [] phase' = 4 -> s.state = "over"
  BY Zenon DEF AsSymbolBySymbol, s
<1>3. CASE phase' = 0
  BY <1>2, <1>3 DEF Agrees, s
<1>4. CASE phase' = 1
  BY <1>2, <1>4 DEF Agrees, s
<1>5. CASE phase' = 2
  BY <1>2, <1>5 DEF Agrees, s
<1>6. CASE phase' = 3
  BY <1>2, <1>6 DEF Agrees, s
<1>7. CASE phase' = 4
  BY <1>2, <1>7 DEF Agrees, s
<1> QED
  BY <1>1, <1>3, <1>4, <1>5, <1>6, <1>7

\* What holds of the decoder between calls, place by place.
LEMMA Holds ==
  ASSUME ChunkedInv
  PROVE  /\ text \in Text /\ Len(text) \in Nat
         /\ length \in 0..Len(text) /\ length \in Nat /\ at \in Nat /\ at <= length
         /\ phase \in 0..4 /\ remaining \in Nat
         /\ body = Automaton[text][at].body
         /\ Agrees(Automaton[text][at], phase, remaining)
<1>1. text \in Text /\ Len(text) \in Nat
  BY Symbols DEF ChunkedInv
<1>2. /\ length \in 0..Len(text) /\ length \in Nat /\ at \in Nat /\ at <= length
      /\ phase \in 0..4 /\ remaining \in Nat
  BY <1>1 DEF ChunkedInv, ChunkedTypeOK
<1> QED
  BY <1>1, <1>2, Carries DEF ChunkedInv

\* A body is refused that is beyond repair.
LEMMA RefuseKeeps ==
  ASSUME ChunkedInv, Refuse, Automaton[text][length].state = "bad"
  PROVE  ChunkedInv'
<1>1. /\ result' = -1 /\ pc' = "stop" /\ text' = text /\ length' = length /\ at' = at
      /\ phase' = phase /\ remaining' = remaining /\ body' = body
  BY DEF Refuse
<1>2. ChunkedTypeOK'
  BY <1>1 DEF ChunkedInv, ChunkedTypeOK
<1>3. AsSymbolBySymbol'
  BY <1>1, Holds, CarriesOn
<1>4. VerdictIsDue'
  BY <1>1 DEF ChunkedInv, VerdictIsDue
<1> QED
  BY <1>1, <1>2, <1>3, <1>4 DEF ChunkedInv

\* More is asked for while it may yet become a body.
LEMMA WantKeeps ==
  ASSUME ChunkedInv, Want, Automaton[text][length].state # "over",
         length > 0 => Automaton[text][length - 1].state # "bad"
  PROVE  ChunkedInv'
<1>1. /\ result' = -2 /\ pc' = "read" /\ text' = text /\ length' = length /\ at' = at
      /\ phase' = phase /\ remaining' = remaining /\ body' = body
  BY DEF Want
<1>2. ChunkedTypeOK'
  BY <1>1 DEF ChunkedInv, ChunkedTypeOK
<1>3. AsSymbolBySymbol'
  BY <1>1, Holds, CarriesOn
<1>4. VerdictIsDue'
  BY <1>1 DEF ChunkedInv, VerdictIsDue
<1> QED
  BY <1>1, <1>2, <1>3, <1>4 DEF ChunkedInv

\* A call gets as far as the automaton agrees.
LEMMA AdvanceKeeps ==
  ASSUME ChunkedInv, NEW to \in Nat, to <= length, Advance(to),
         at <= to, phase' \in 0..4, remaining' \in Nat, body' = Automaton[text][to].body,
         Agrees(Automaton[text][to], phase', remaining')
  PROVE  ChunkedInv'
<1>1. at' = to /\ result' = to /\ pc' = "call" /\ text' = text /\ length' = length
  BY DEF Advance
<1>2. /\ text \in Text /\ Len(text) \in Nat /\ length \in 0..Len(text) /\ length \in Nat
  BY Holds
<1>3. Automaton[text][to] \in Knowledge(to)
  <2>1. to \in 0..Len(text)
    BY <1>2
  <2> QED
    BY <1>2, <2>1, Knows
<1>4. body' \in Seq(1..to)
  BY <1>3 DEF Knowledge
<1>5. ChunkedTypeOK'
  BY <1>1, <1>2, <1>4 DEF ChunkedTypeOK
<1>6. AsSymbolBySymbol'
  BY <1>1, CarriesOn
<1>7. VerdictIsDue'
  <2>1. result' # -1 /\ ~(result' = -2 /\ pc' = "read")
    BY <1>1
  <2>2. phase' = 4 => Automaton[text'][length'].state = "over"
    <3> SUFFICES ASSUME phase' = 4 PROVE Automaton[text][length].state = "over"
      BY <1>1
    <3>1. Automaton[text][to].state = "over"
      BY DEF Agrees
    <3>2. Automaton[text][length] = Automaton[text][to]
      BY <1>2, <3>1, Stays
    <3> QED
      BY <3>1, <3>2
  <2> QED
    BY <2>1, <2>2 DEF VerdictIsDue
<1> QED
  BY <1>1, <1>2, <1>5, <1>6, <1>7 DEF ChunkedInv

\* Where the automaton does not refuse the text, it did not a symbol earlier.
LEMMA NotRefusedBefore ==
  ASSUME NEW t \in Text, NEW n \in 0..Len(t), Automaton[t][n].state # "bad"
  PROVE  n > 0 => Automaton[t][n - 1].state # "bad"
<1> SUFFICES ASSUME n > 0, Automaton[t][n - 1].state = "bad" PROVE FALSE
  OBVIOUS
<1> DEFINE m == n - 1
<1>1. m \in Nat /\ m <= n /\ Automaton[t][m].state = "bad"
  BY Symbols
<1> HIDE DEF m
<1>2. Automaton[t][n] = Automaton[t][m]
  BY <1>1, Stays
<1> QED
  BY <1>1, <1>2

-----------------------------------------------------------------------------
(* Each step.                                                              *)

\* What a call sees of a size line: its digits, and no CR from their end to
\* the line's.
LEMMA SizeSeen ==
  ASSUME ChunkedInv, phase = 0
  PROVE  LET end == SizeEnd
             cr == LineEnd(end)
         IN  /\ end \in at + 1..length + 1
             /\ \A j \in at + 1..end - 1 : text[j] \in Digit
             /\ end <= length => text[end] \notin Digit
             /\ cr \in end..length + 1
             /\ \A j \in end..cr - 1 : text[j] # CR
             /\ cr <= length => text[cr] = CR
             /\ Automaton[text][at].state = "size" /\ Automaton[text][at].digits = 0
<1> DEFINE end == SizeEnd
           cr == LineEnd(end)
<1>1. /\ text \in Text /\ Len(text) \in Nat /\ length \in 0..Len(text) /\ length \in Nat
      /\ at \in Nat /\ at <= length
  BY Holds
<1>2. Automaton[text][at].state = "size" /\ Automaton[text][at].digits = 0
  BY Holds DEF Agrees
<1>3. /\ end \in at + 1..length + 1
      /\ \A j \in at + 1..end - 1 : text[j] \notin Symbol \ Digit
      /\ end <= length => text[end] \in Symbol \ Digit
  <2> DEFINE i == at + 1
             symbols == Symbol \ Digit
  <2>1. i \in Nat /\ i <= length + 1
    BY <1>1
  <2>2. end = First(i, symbols)
    BY Zenon DEF SizeEnd
  <2> HIDE DEF i, symbols, end
  <2>3. /\ end \in i..length + 1
        /\ \A j \in i..end - 1 : text[j] \notin symbols
        /\ end <= length => text[end] \in symbols
    BY <1>1, <2>1, <2>2, FirstFinds
  <2> QED
    BY <2>3 DEF i, symbols
<1> HIDE DEF end
<1>4. ASSUME NEW j \in at + 1..end - 1 PROVE text[j] \in Digit
  <2>1. j \in 1..Len(text)
    BY <1>1, <1>3
  <2>2. text[j] \in Symbol
    BY <1>1, <2>1, Symbols
  <2> QED
    BY <1>3, <2>2
<1>5. /\ cr \in end..length + 1
      /\ \A j \in end..cr - 1 : text[j] \notin {CR}
      /\ cr <= length => text[cr] \in {CR}
  <2>1. end \in Nat /\ end <= length + 1
    BY <1>1, <1>3
  <2>2. cr = First(end, {CR})
    BY Zenon DEF LineEnd
  <2> HIDE DEF cr
  <2> QED
    BY <1>1, <2>1, <2>2, FirstFinds
<1> HIDE DEF cr
<1>6. /\ \A j \in end..cr - 1 : text[j] # CR
      /\ cr <= length => text[cr] = CR
      /\ end <= length => text[end] \notin Digit
  BY <1>3, <1>5
<1> QED
  BY <1>2, <1>3, <1>4, <1>5, <1>6, Zenon DEF end, cr

\* A size line that is refused cannot be mended.
LEMMA SizeRefusedKeeps == ASSUME ChunkedInv, SizeRefused PROVE ChunkedInv'
<1> DEFINE end == SizeEnd
           cr == LineEnd(end)
<1>1. phase = 0 /\ Refuse
  BY DEF SizeRefused, In
<1>2. \/ end - (at + 1) > MaxDigits
      \/ end = at + 1 /\ end <= length
      \/ cr < length /\ ~IsCRLF(cr)
  BY DEF SizeRefused
<1>3. /\ end \in at + 1..length + 1
      /\ \A j \in at + 1..end - 1 : text[j] \in Digit
      /\ end <= length => text[end] \notin Digit
      /\ cr \in end..length + 1
      /\ \A j \in end..cr - 1 : text[j] # CR
      /\ cr <= length => text[cr] = CR
      /\ Automaton[text][at].state = "size" /\ Automaton[text][at].digits = 0
  BY <1>1, SizeSeen, Zenon
<1>4. /\ text \in Text /\ Len(text) \in Nat /\ length \in 0..Len(text) /\ length \in Nat
      /\ at \in Nat /\ at <= length
  BY Holds
<1> HIDE DEF end, cr
<1>5. \E n \in Nat : n <= length /\ Automaton[text][n].state = "bad"
  <2>1. CASE end - (at + 1) > MaxDigits
    <3>1. end \in Nat /\ at < end /\ end <= Len(text) + 1
      BY <1>3, <1>4
    <3>2. Automaton[text][end - 1].state = "bad"
      BY <1>3, <1>4, <2>1, <3>1, SizeTooLong
    <3>3. end - 1 \in Nat /\ end - 1 <= length
      BY <1>3, <1>4
    <3> QED
      BY <3>2, <3>3
  <2>2. CASE end = at + 1 /\ end <= length
    <3>1. at + 1 <= Len(text) /\ at + 1 \in Nat /\ at + 1 <= length
      BY <1>4, <2>2
    <3>2. text[at + 1] \notin Digit
      BY <1>3, <2>2
    <3>3. Automaton[text][at + 1].state = "bad"
      BY <1>3, <1>4, <3>1, <3>2, SizeMoves
    <3> QED
      BY <3>1, <3>3
  <2>3. CASE cr < length /\ ~IsCRLF(cr) /\ end # at + 1 /\ ~(end - (at + 1) > MaxDigits)
    <3>1. /\ end \in Nat /\ at < end /\ end <= Len(text) + 1 /\ end - (at + 1) <= MaxDigits
          /\ end - (at + 1) # 0 /\ cr \in Nat /\ 1 <= end /\ end <= cr /\ cr <= Len(text)
          /\ end <= length /\ cr + 1 <= Len(text) /\ cr + 1 \in Nat /\ cr + 1 <= length
      BY <1>3, <1>4, <2>3, ChunkedAssumption
    <3>2. Automaton[text][end - 1].state = "size" /\ Automaton[text][end - 1].digits = end - (at + 1)
      BY <1>3, <1>4, <3>1, SizeRun
    <3>3. Automaton[text][end - 1].digits # 0
      BY <3>1, <3>2
    <3>4. text[cr] = CR
      <4>1. cr <= length
        BY <1>4, <2>3, <3>1
      <4> QED
        BY <1>3, <4>1
    <3>5. Automaton[text][cr].state = "sizeLF"
      BY <1>3, <1>4, <3>1, <3>2, <3>3, <3>4, SizeLineEnd
    <3>6. text[cr + 1] # LF
      BY <2>3, <3>4 DEF IsCRLF
    <3>7. Automaton[text][cr + 1].state = "bad"
      BY <1>4, <3>1, <3>5, <3>6, SizeMoves
    <3> QED
      BY <3>1, <3>7
  <2>4. CASE end = at + 1 /\ ~(end <= length)
    <3>1. ~(cr < length) /\ ~(end - (at + 1) > MaxDigits)
      BY <1>3, <1>4, <2>4, ChunkedAssumption
    <3> QED
      BY <1>2, <2>4, <3>1
  <2> QED
    BY <1>2, <2>1, <2>2, <2>3, <2>4
<1>6. PICK n \in Nat : n <= length /\ Automaton[text][n].state = "bad"
  BY <1>5
<1>7. Automaton[text][length] = Automaton[text][n]
  BY <1>4, <1>6, Stays
<1> QED
  BY <1>1, <1>6, <1>7, RefuseKeeps

\* A size line whose end is not there may yet come to one.
LEMMA SizeUnseenKeeps == ASSUME ChunkedInv, SizeUnseen PROVE ChunkedInv'
<1> DEFINE end == SizeEnd
           cr == LineEnd(end)
<1>1. phase = 0 /\ Want
  BY DEF SizeUnseen, In
<1>2. end - (at + 1) <= MaxDigits /\ (end > length \/ (end # at + 1 /\ cr >= length))
  BY DEF SizeUnseen
<1>3. /\ end \in at + 1..length + 1
      /\ \A j \in at + 1..end - 1 : text[j] \in Digit
      /\ end <= length => text[end] \notin Digit
      /\ cr \in end..length + 1
      /\ \A j \in end..cr - 1 : text[j] # CR
      /\ cr <= length => text[cr] = CR
      /\ Automaton[text][at].state = "size" /\ Automaton[text][at].digits = 0
  BY <1>1, SizeSeen, Zenon
<1>4. /\ text \in Text /\ Len(text) \in Nat /\ length \in 0..Len(text) /\ length \in Nat
      /\ at \in Nat /\ at <= length
  BY Holds
<1> HIDE DEF end, cr
<1>5. end \in Nat /\ at < end /\ end <= Len(text) + 1 /\ 1 <= end
  BY <1>3, <1>4
<1>6. Automaton[text][end - 1].state = "size" /\ Automaton[text][end - 1].digits = end - (at + 1)
  BY <1>2, <1>3, <1>4, <1>5, SizeRun
<1>7. Automaton[text][length].state \in {"size", "extension", "sizeLF"}
  <2>1. CASE end > length
    <3>1. end - 1 = length
      BY <1>3, <1>4, <2>1
    <3> QED
      BY <1>6, <3>1
  <2>2. CASE end <= length
    <3>1. end # at + 1 /\ cr >= length
      BY <1>2, <1>4, <1>5, <2>2
    <3>2. Automaton[text][end - 1].digits # 0
      BY <1>4, <1>5, <1>6, <3>1
    <3>3. \A j \in end..length - 1 : text[j] # CR
      <4> SUFFICES ASSUME NEW j \in end..length - 1 PROVE text[j] # CR
        OBVIOUS
      <4>1. j \in end..cr - 1
        BY <1>3, <1>4, <1>5, <3>1
      <4> QED
        BY <1>3, <4>1
    <3>4. text[end] \notin Digit /\ length <= Len(text)
      BY <1>3, <1>4, <2>2
    <3>5. Automaton[text][length].state = IF text[length] = CR THEN "sizeLF" ELSE "extension"
      BY <1>4, <1>5, <1>6, <2>2, <3>2, <3>3, <3>4, SizeLineEnd
    <3> QED
      BY <3>5
  <2> QED
    BY <1>4, <1>5, <2>1, <2>2
<1>8. Automaton[text][length].state # "over" /\ Automaton[text][length].state # "bad"
  BY <1>7
<1>9. length > 0 => Automaton[text][length - 1].state # "bad"
  BY <1>4, <1>8, NotRefusedBefore
<1> QED
  BY <1>1, <1>8, <1>9, WantKeeps

\* A size that fits is read as the automaton reads it.
LEMMA SizeReadKeeps == ASSUME SizesFit, ChunkedInv, SizeRead PROVE ChunkedInv'
<1> DEFINE end == SizeEnd
           cr == LineEnd(end)
<1>1. /\ phase = 0
      /\ end # at + 1 /\ end - (at + 1) <= MaxDigits /\ cr < length /\ IsCRLF(cr)
      /\ remaining' = SizeOf(SubSeq(text, at + 1, end - 1))
      /\ Advance(cr + 1)
      /\ phase' = IF remaining' = 0 THEN 3 ELSE 1
      /\ body' = body
  BY DEF SizeRead, In
<1>3. /\ end \in at + 1..length + 1
      /\ \A j \in at + 1..end - 1 : text[j] \in Digit
      /\ end <= length => text[end] \notin Digit
      /\ cr \in end..length + 1
      /\ \A j \in end..cr - 1 : text[j] # CR
      /\ cr <= length => text[cr] = CR
      /\ Automaton[text][at].state = "size" /\ Automaton[text][at].digits = 0
  BY <1>1, SizeSeen, Zenon
<1>4. /\ text \in Text /\ Len(text) \in Nat /\ length \in 0..Len(text) /\ length \in Nat
      /\ at \in Nat /\ at <= length /\ body = Automaton[text][at].body
  BY Holds
<1> HIDE DEF end, cr
<1>5. /\ end \in Nat /\ at < end /\ end <= Len(text) + 1 /\ end - (at + 1) <= MaxDigits
      /\ end - (at + 1) # 0 /\ cr \in Nat /\ 1 <= end /\ end <= cr /\ cr <= Len(text)
      /\ end <= length /\ cr + 1 <= Len(text) /\ cr + 1 \in Nat /\ cr + 1 <= length
      /\ end - 1 \in 0..Len(text) /\ at <= cr + 1
  BY <1>1, <1>3, <1>4
<1>6. /\ Automaton[text][end - 1].state = "size"
      /\ Automaton[text][end - 1].digits = end - (at + 1)
      /\ Automaton[text][end - 1].body = body
      /\ Automaton[text][end - 1].value < Half =>
           SizeOf(SubSeq(text, at + 1, end - 1)) = Automaton[text][end - 1].value
  BY <1>3, <1>4, <1>5, SizeRun
<1>7. Automaton[text][end - 1].value < Half /\ Automaton[text][end - 1].value \in Nat
  <2>1. Automaton[text][end - 1] \in Knowledge(end - 1)
    BY <1>4, <1>5, Knows
  <2> QED
    BY <1>4, <1>5, <1>6, <2>1 DEF SizesFit, Knowledge
<1>8. remaining' = Automaton[text][end - 1].value /\ remaining' \in Nat
  BY <1>1, <1>6, <1>7, Zenon
<1>9. Automaton[text][end - 1].digits # 0 /\ text[cr] = CR /\ text[cr + 1] = LF /\ text[end] \notin Digit
  BY <1>1, <1>3, <1>4, <1>5, <1>6 DEF IsCRLF
<1>10. /\ Automaton[text][cr].state = "sizeLF"
       /\ Automaton[text][cr].value = remaining'
       /\ Automaton[text][cr].body = body
  BY <1>3, <1>4, <1>5, <1>6, <1>8, <1>9, SizeLineEnd
<1>11. /\ Automaton[text][cr + 1].body = body
       /\ remaining' = 0 => Automaton[text][cr + 1].state = "line"
       /\ remaining' # 0 => /\ Automaton[text][cr + 1].state = "data"
                            /\ Automaton[text][cr + 1].value = remaining'
  BY <1>4, <1>5, <1>9, <1>10, SizeMoves
<1>12. phase' \in 0..4 /\ Agrees(Automaton[text][cr + 1], phase', remaining')
  BY <1>1, <1>11 DEF Agrees
<1> DEFINE to == cr + 1
<1>13. to \in Nat /\ to <= length /\ Advance(to) /\ at <= to /\ body' = Automaton[text][to].body
       /\ Agrees(Automaton[text][to], phase', remaining')
  BY <1>1, <1>5, <1>11, <1>12
<1> HIDE DEF to
<1> QED
  BY <1>8, <1>12, <1>13, AdvanceKeeps

\* A piece of a chunk's data is what the automaton takes for it.
LEMMA DataKeeps == ASSUME ChunkedInv, Data PROVE ChunkedInv'
<1> DEFINE take == IF length - at < remaining THEN length - at ELSE remaining
           to == at + take
<1>1. /\ phase = 1 /\ length > at
      /\ body' = body \o Places(at, take)
      /\ remaining' = remaining - take
      /\ Advance(to)
      /\ phase' = IF remaining' = 0 THEN 2 ELSE 1
  BY DEF Data, In, Places
<1>2. /\ text \in Text /\ Len(text) \in Nat /\ length \in 0..Len(text) /\ length \in Nat
      /\ at \in Nat /\ at <= length /\ remaining \in Nat /\ body = Automaton[text][at].body
      /\ Automaton[text][at].state = "data" /\ Automaton[text][at].value = remaining
  BY <1>1, Holds DEF Agrees
<1>3. take \in Nat /\ take <= remaining /\ take <= length - at
  BY <1>1, <1>2
<1>4. to \in Nat /\ to <= length /\ at <= to /\ at + take <= Len(text) /\ take \in 0..take
  BY <1>2, <1>3
<1> HIDE DEF take
<1>5. /\ Automaton[text][at + take].state = IF take = remaining THEN "dataCR" ELSE "data"
      /\ Automaton[text][at + take].value = remaining - take
      /\ Automaton[text][at + take].body = body \o Places(at, take)
  <2>1. TakesData(text, at, take)
    BY <1>2, <1>3, <1>4, DataScan
  <2> QED
    BY <1>2, <1>4, <2>1 DEF TakesData
<1>6. remaining' \in Nat /\ (remaining' = 0 <=> take = remaining)
  BY <1>1, <1>2, <1>3
<1>7. phase' \in 0..4 /\ Agrees(Automaton[text][to], phase', remaining')
  BY <1>1, <1>5, <1>6 DEF Agrees
<1>8. body' = Automaton[text][to].body
  BY <1>1, <1>5
<1> HIDE DEF to
<1> QED
  BY <1>1, <1>4, <1>6, <1>7, <1>8, AdvanceKeeps

\* A chunk owes data that has not come.
LEMMA DataUnseenKeeps == ASSUME ChunkedInv, DataUnseen PROVE ChunkedInv'
<1>1. phase = 1 /\ length = at /\ Want
  BY DEF DataUnseen, In
<1>2. text \in Text /\ length \in 0..Len(text) /\ Automaton[text][length].state = "data"
  BY <1>1, Holds DEF Agrees
<1>3. Automaton[text][length].state # "over" /\ Automaton[text][length].state # "bad"
  BY <1>2
<1>4. length > 0 => Automaton[text][length - 1].state # "bad"
  BY <1>2, <1>3, NotRefusedBefore
<1> QED
  BY <1>1, <1>3, <1>4, WantKeeps

\* The line's end after a chunk's data, seen whole.
LEMMA EndSeen ==
  ASSUME ChunkedInv, phase = 2, at + 2 <= length
  PROVE  /\ ~IsCRLF(at + 1) => Automaton[text][length].state = "bad"
         /\ IsCRLF(at + 1) => /\ Automaton[text][at + 2].state = "size"
                              /\ Automaton[text][at + 2].digits = 0
                              /\ Automaton[text][at + 2].body = body
<1>1. /\ text \in Text /\ Len(text) \in Nat /\ length \in 0..Len(text) /\ length \in Nat
      /\ at \in Nat /\ body = Automaton[text][at].body /\ Automaton[text][at].state = "dataCR"
  BY Holds DEF Agrees
<1> DEFINE n == at + 1
<1>2. /\ at + 1 <= Len(text) /\ n \in Nat /\ n + 1 <= Len(text) /\ n + 1 = at + 2
      /\ n <= length /\ n + 1 <= length /\ n + 1 \in Nat
  BY <1>1
<1>3. /\ text[n] = CR => Automaton[text][n].state = "dataLF" /\ Automaton[text][n].body = body
      /\ text[n] # CR => Automaton[text][n].state = "bad"
  BY <1>1, <1>2, EndMoves
<1> HIDE DEF n
<1>4. CASE text[n] = CR /\ text[n + 1] = LF
  <2>1. /\ Automaton[text][n + 1].state = "size" /\ Automaton[text][n + 1].digits = 0
        /\ Automaton[text][n + 1].body = body
    BY <1>1, <1>2, <1>3, <1>4, EndMoves
  <2> QED
    BY <1>2, <1>4, <2>1 DEF IsCRLF, n
<1>5. CASE text[n] = CR /\ text[n + 1] # LF
  <2> DEFINE m == n + 1
  <2>1. Automaton[text][m].state = "bad"
    BY <1>1, <1>2, <1>3, <1>5, EndMoves
  <2>2. m \in Nat /\ m <= length
    BY <1>2
  <2> HIDE DEF m
  <2>3. Automaton[text][length].state = "bad"
    BY <1>1, <2>1, <2>2, Stays
  <2> QED
    BY <1>5, <2>3 DEF IsCRLF, n
<1>6. CASE text[n] # CR
  <2>1. Automaton[text][length].state = "bad"
    BY <1>1, <1>2, <1>3, <1>6, Stays
  <2> QED
    BY <1>6, <2>1 DEF IsCRLF, n
<1> QED
  BY <1>4, <1>5, <1>6

\* The next chunk begins.
LEMMA DataEndKeeps == ASSUME ChunkedInv, DataEnd PROVE ChunkedInv'
<1> DEFINE to == at + 2
<1>1. /\ phase = 2 /\ at + 2 <= length /\ IsCRLF(at + 1) /\ phase' = 0 /\ Advance(to)
      /\ remaining' = remaining /\ body' = body
  BY DEF DataEnd, In
<1>2. /\ Automaton[text][to].state = "size" /\ Automaton[text][to].digits = 0
      /\ Automaton[text][to].body = body
  BY <1>1, EndSeen
<1>3. to \in Nat /\ to <= length /\ at <= to /\ remaining' \in Nat
  BY <1>1, Holds
<1> HIDE DEF to
<1>4. phase' \in 0..4 /\ Agrees(Automaton[text][to], phase', remaining')
  BY <1>1, <1>2 DEF Agrees
<1> QED
  BY <1>1, <1>2, <1>3, <1>4, AdvanceKeeps

\* What follows a chunk's data is not the end of a line.
LEMMA DataEndRefusedKeeps == ASSUME ChunkedInv, DataEndRefused PROVE ChunkedInv'
<1>1. phase = 2 /\ at + 2 <= length /\ ~IsCRLF(at + 1) /\ Refuse
  BY DEF DataEndRefused, In
<1> QED
  BY <1>1, EndSeen, RefuseKeeps

\* One of the two symbols is there at most.
LEMMA DataEndUnseenKeeps == ASSUME ChunkedInv, DataEndUnseen PROVE ChunkedInv'
<1>1. phase = 2 /\ at + 2 > length /\ Want
  BY DEF DataEndUnseen, In
<1>2. /\ text \in Text /\ Len(text) \in Nat /\ length \in 0..Len(text) /\ length \in Nat
      /\ at \in Nat /\ at <= length /\ Automaton[text][at].state = "dataCR"
  BY <1>1, Holds DEF Agrees
<1>3. CASE length = at
  <2>1. Automaton[text][length].state # "over" /\ Automaton[text][length].state # "bad"
    BY <1>2, <1>3
  <2>2. length > 0 => Automaton[text][length - 1].state # "bad"
    BY <1>2, <2>1, NotRefusedBefore
  <2> QED
    BY <1>1, <2>1, <2>2, WantKeeps
<1>4. CASE length = at + 1
  <2>1. at + 1 <= Len(text) /\ length - 1 = at
    BY <1>2, <1>4
  <2>2. Automaton[text][at + 1].state \in {"dataLF", "bad"}
    BY <1>2, <2>1, EndMoves
  <2>3. Automaton[text][length].state # "over" /\ Automaton[text][length - 1].state # "bad"
    BY <1>2, <1>4, <2>1, <2>2
  <2> QED
    BY <1>1, <2>3, WantKeeps
<1> QED
  BY <1>1, <1>2, <1>3, <1>4

\* What a call sees of a line of the trailer: no CR before its end.
LEMMA TrailerSeen ==
  ASSUME ChunkedInv, phase = 3
  PROVE  LET cr == LineEnd(at + 1)
         IN  /\ cr \in at + 1..length + 1
             /\ \A j \in at + 1..cr - 1 : text[j] # CR
             /\ cr <= length => text[cr] = CR
             /\ Automaton[text][at].state = "line"
<1> DEFINE cr == LineEnd(at + 1)
           i == at + 1
<1>1. length \in Nat /\ i \in Nat /\ i <= length + 1 /\ Automaton[text][at].state = "line"
  BY Holds DEF Agrees
<1>2. cr = First(i, {CR})
  BY Zenon DEF LineEnd
<1> HIDE DEF cr, i
<1>3. /\ cr \in i..length + 1
      /\ \A j \in i..cr - 1 : text[j] \notin {CR}
      /\ cr <= length => text[cr] \in {CR}
  BY <1>1, <1>2, FirstFinds
<1>4. (\A j \in i..cr - 1 : text[j] # CR) /\ (cr <= length => text[cr] = CR)
  BY <1>3
<1> QED
  BY <1>1, <1>3, <1>4, Zenon DEF cr, i

\* The end of a line of the trailer, seen whole.
LEMMA TrailerEndSeen ==
  ASSUME ChunkedInv, phase = 3, NEW cr, cr = LineEnd(at + 1), cr < length
  PROVE  /\ cr \in Nat /\ at < cr
         /\ ~IsCRLF(cr) => Automaton[text][length].state = "bad"
         /\ IsCRLF(cr) => /\ Automaton[text][cr + 1].state = IF cr = at + 1 THEN "over" ELSE "line"
                          /\ Automaton[text][cr + 1].body = body
<1>1. /\ text \in Text /\ Len(text) \in Nat /\ length \in 0..Len(text) /\ length \in Nat
      /\ at \in Nat /\ body = Automaton[text][at].body
  BY Holds
<1>2. /\ cr \in at + 1..length + 1
      /\ \A j \in at + 1..cr - 1 : text[j] # CR
      /\ cr <= length => text[cr] = CR
      /\ Automaton[text][at].state = "line"
  BY TrailerSeen, Zenon
<1>3. /\ cr \in Nat /\ at < cr /\ cr <= Len(text) /\ text[cr] = CR /\ cr + 1 <= Len(text)
      /\ cr + 1 <= length
  BY <1>1, <1>2
<1>4. /\ Automaton[text][cr].state = IF cr = at + 1 THEN "lastLF" ELSE "fieldLF"
      /\ Automaton[text][cr].body = body
  BY <1>1, <1>2, <1>3, TrailerLineEnd
<1>5. CASE text[cr + 1] = LF
  <2>1. /\ Automaton[text][cr + 1].state = IF cr = at + 1 THEN "over" ELSE "line"
        /\ Automaton[text][cr + 1].body = body
    BY <1>1, <1>3, <1>4, <1>5, LineMoves
  <2> QED
    BY <1>3, <1>5, <2>1 DEF IsCRLF
<1>6. CASE text[cr + 1] # LF
  <2> DEFINE m == cr + 1
  <2>1. Automaton[text][m].state = "bad"
    BY <1>1, <1>3, <1>4, <1>6, LineMoves
  <2>2. m \in Nat /\ m <= length
    BY <1>3
  <2> HIDE DEF m
  <2>3. Automaton[text][length].state = "bad"
    BY <1>1, <2>1, <2>2, Stays
  <2> QED
    BY <1>3, <1>6, <2>3 DEF IsCRLF
<1> QED
  BY <1>5, <1>6

\* A field line is dropped whole.
LEMMA TrailerLineKeeps == ASSUME ChunkedInv, TrailerLine PROVE ChunkedInv'
<1> DEFINE cr == LineEnd(at + 1)
           to == cr + 1
<1>1. /\ phase = 3 /\ cr # at + 1 /\ cr < length /\ IsCRLF(cr) /\ Advance(to)
      /\ phase' = phase /\ remaining' = remaining /\ body' = body
  BY DEF TrailerLine, In
<1>2. cr = LineEnd(at + 1)
  OBVIOUS
<1> HIDE DEF cr
<1>3. /\ cr \in Nat /\ at < cr
      /\ Automaton[text][to].state = "line" /\ Automaton[text][to].body = body
  BY <1>1, <1>2, TrailerEndSeen
<1>4. to \in Nat /\ to <= length /\ at <= to /\ remaining' \in Nat
  BY <1>1, <1>3, Holds
<1> HIDE DEF to
<1>5. phase' \in 0..4 /\ Agrees(Automaton[text][to], phase', remaining')
  BY <1>1, <1>3 DEF Agrees
<1> QED
  BY <1>1, <1>3, <1>4, <1>5, AdvanceKeeps

\* The empty line is the end.
LEMMA FinishKeeps == ASSUME ChunkedInv, Finish PROVE ChunkedInv'
<1> DEFINE to == at + 2
           m == at + 1
<1>1. /\ phase = 3 /\ to <= length /\ IsCRLF(m) /\ phase' = 4 /\ Advance(to)
      /\ remaining' = remaining /\ body' = body
  BY DEF Finish, In
<1>2. /\ text \in Text /\ Len(text) \in Nat /\ length \in 0..Len(text) /\ length \in Nat
      /\ at \in Nat /\ body = Automaton[text][at].body /\ Automaton[text][at].state = "line"
      /\ remaining \in Nat
  BY <1>1, Holds DEF Agrees
<1>3. /\ at + 1 <= Len(text) /\ m \in Nat /\ m + 1 <= Len(text) /\ m + 1 = to
      /\ to \in Nat /\ at <= to /\ m = at + 1
  BY <1>1, <1>2
<1>4. text[m] = CR /\ text[m + 1] = LF
  BY <1>1 DEF IsCRLF
<1>5. Automaton[text][m].state = "lastLF" /\ Automaton[text][m].body = body
  BY <1>2, <1>3, <1>4, LineMoves
<1> HIDE DEF m
<1>6. Automaton[text][m + 1].state = "over" /\ Automaton[text][m + 1].body = body
  BY <1>2, <1>3, <1>4, <1>5, LineMoves
<1> HIDE DEF to
<1>7. Automaton[text][to].state = "over" /\ Automaton[text][to].body = body
  BY <1>3, <1>6
<1>8. phase' \in 0..4 /\ Agrees(Automaton[text][to], phase', remaining')
  BY <1>1, <1>7 DEF Agrees
<1> QED
  BY <1>1, <1>2, <1>3, <1>7, <1>8, AdvanceKeeps

\* A line of the trailer does not end as one.
LEMMA TrailerRefusedKeeps == ASSUME ChunkedInv, TrailerRefused PROVE ChunkedInv'
<1> DEFINE cr == LineEnd(at + 1)
<1>1. phase = 3 /\ cr < length /\ ~IsCRLF(cr) /\ Refuse /\ cr = LineEnd(at + 1)
  BY DEF TrailerRefused, In
<1> HIDE DEF cr
<1>2. Automaton[text][length].state = "bad"
  BY <1>1, TrailerEndSeen
<1> QED
  BY <1>1, <1>2, RefuseKeeps

\* A line of the trailer may yet end.
LEMMA TrailerUnseenKeeps == ASSUME ChunkedInv, TrailerUnseen PROVE ChunkedInv'
<1> DEFINE cr == LineEnd(at + 1)
<1>1. phase = 3 /\ Want /\ (at + 2 > length \/ cr >= length)
  BY DEF TrailerUnseen, In
<1>2. /\ text \in Text /\ Len(text) \in Nat /\ length \in 0..Len(text) /\ length \in Nat
      /\ at \in Nat /\ at <= length /\ Automaton[text][at].state = "line"
  BY <1>1, Holds DEF Agrees
<1>3. /\ cr \in at + 1..length + 1
      /\ \A j \in at + 1..cr - 1 : text[j] # CR
  BY <1>1, TrailerSeen, Zenon
<1> HIDE DEF cr
<1>4. Automaton[text][length].state \in {"line", "field", "lastLF", "fieldLF"}
  <2>1. CASE length = at
    BY <1>2, <2>1
  <2>2. CASE length # at
    <3>1. at < length /\ length <= Len(text)
      BY <1>2, <2>2
    <3>2. ASSUME NEW j \in at + 1..length - 1 PROVE text[j] # CR
      <4>1. j \in at + 1..cr - 1
        BY <1>1, <1>2, <1>3
      <4> QED
        BY <1>3, <4>1
    <3>3. Automaton[text][length].state =
            IF text[length] # CR THEN "field" ELSE IF length = at + 1 THEN "lastLF" ELSE "fieldLF"
      BY <1>2, <3>1, <3>2, TrailerLineEnd
    <3> QED
      BY <3>3
  <2> QED
    BY <2>1, <2>2
<1>5. Automaton[text][length].state # "over" /\ Automaton[text][length].state # "bad"
  BY <1>4
<1>6. length > 0 => Automaton[text][length - 1].state # "bad"
  BY <1>2, <1>5, NotRefusedBefore
<1> QED
  BY <1>1, <1>5, <1>6, WantKeeps

\* A call after the end changes nothing that is carried.
LEMMA OverKeeps == ASSUME ChunkedInv, Over PROVE ChunkedInv'
<1>1. /\ result' = at /\ pc' = "stop" /\ text' = text /\ length' = length /\ at' = at
      /\ phase' = phase /\ remaining' = remaining /\ body' = body
  BY DEF Over
<1>2. ChunkedTypeOK' /\ at \in Nat
  BY <1>1, Holds DEF ChunkedInv, ChunkedTypeOK
<1>3. AsSymbolBySymbol'
  BY <1>1, Holds, CarriesOn
<1>4. VerdictIsDue'
  BY <1>1, <1>2 DEF ChunkedInv, VerdictIsDue
<1> QED
  BY <1>1, <1>2, <1>3, <1>4 DEF ChunkedInv

\* More bytes change nothing that was read.
LEMMA ReadKeeps == ASSUME ChunkedInv, Read PROVE ChunkedInv'
<1>1. /\ pc = "read" /\ length' \in length + 1..Len(text) /\ pc' = "call" /\ text' = text
      /\ at' = at /\ phase' = phase /\ remaining' = remaining /\ result' = result /\ body' = body
  BY DEF Read
<1>2. /\ text \in Text /\ Len(text) \in Nat /\ length \in 0..Len(text) /\ length \in Nat
      /\ at \in Nat /\ at <= length
  BY Holds
<1>3. ChunkedTypeOK'
  BY <1>1, <1>2 DEF ChunkedInv, ChunkedTypeOK
<1>4. AsSymbolBySymbol'
  BY <1>1, Holds, CarriesOn
<1>5. VerdictIsDue'
  <2>1. result' # -1 /\ ~(result' = -2 /\ pc' = "read")
    BY <1>1 DEF ChunkedInv
  <2>2. phase' = 4 => Automaton[text'][length'].state = "over"
    <3> SUFFICES ASSUME phase = 4 PROVE Automaton[text][length'].state = "over"
      BY <1>1
    <3>1. Automaton[text][length].state = "over"
      BY DEF ChunkedInv, VerdictIsDue
    <3>2. length' \in 0..Len(text) /\ length <= length'
      BY <1>1, <1>2
    <3>3. Automaton[text][length'] = Automaton[text][length]
      BY <1>2, <3>1, <3>2, Stays
    <3> QED
      BY <3>1, <3>3
  <2> QED
    BY <2>1, <2>2 DEF VerdictIsDue
<1> QED
  BY <1>1, <1>2, <1>3, <1>4, <1>5 DEF ChunkedInv

\* A body that is cut off leaves the decoder where it is.
LEMMA CutOffKeeps == ASSUME ChunkedInv, CutOff PROVE ChunkedInv'
<1>1. /\ pc' = "stop" /\ text' = text /\ length' = length /\ at' = at /\ phase' = phase
      /\ remaining' = remaining /\ result' = result /\ body' = body
  BY DEF CutOff
<1>2. ChunkedTypeOK'
  BY <1>1 DEF ChunkedInv, ChunkedTypeOK
<1>3. AsSymbolBySymbol'
  BY <1>1, Holds, CarriesOn
<1>4. VerdictIsDue'
  BY <1>1 DEF ChunkedInv, VerdictIsDue
<1> QED
  BY <1>1, <1>2, <1>3, <1>4 DEF ChunkedInv

\* No step disturbs a variable that none changes.
LEMMA ChunkedStutterKeeps == ASSUME ChunkedInv, UNCHANGED chunkedVars PROVE ChunkedInv'
<1>1. /\ pc' = pc /\ text' = text /\ length' = length /\ at' = at /\ phase' = phase
      /\ remaining' = remaining /\ result' = result /\ body' = body
  BY DEF chunkedVars
<1>2. ChunkedTypeOK'
  BY <1>1 DEF ChunkedInv, ChunkedTypeOK
<1>3. AsSymbolBySymbol'
  BY <1>1, Holds, CarriesOn
<1>4. VerdictIsDue'
  BY <1>1 DEF ChunkedInv, VerdictIsDue
<1> QED
  BY <1>1, <1>2, <1>3, <1>4 DEF ChunkedInv

\* A body of which nothing has come is at its first size.
LEMMA ChunkedInitKeeps == ASSUME ChunkedInit PROVE ChunkedInv
<1>1. /\ text \in Text /\ length = 0 /\ at = 0 /\ phase = 0 /\ remaining = 0 /\ result = 0
      /\ body = <<>> /\ pc = "read"
  BY DEF ChunkedInit
<1>2. ChunkedTypeOK
  BY <1>1, Symbols DEF ChunkedTypeOK
<1>3. Automaton[text][0] = Start
  BY <1>1, AutomatonEats
<1>4. AsSymbolBySymbol
  <2>1. body = Automaton[text][at].body /\ Agrees(Automaton[text][at], phase, remaining)
    BY <1>1, <1>3 DEF Start, Agrees
  <2> QED
    BY <1>1, <2>1, Carries
<1>5. VerdictIsDue
  BY <1>1 DEF VerdictIsDue
<1> QED
  BY <1>1, <1>2, <1>4, <1>5 DEF ChunkedInv

\* Every step keeps the invariant.
LEMMA ChunkedKeeps ==
  ASSUME SizesFit, ChunkedInv, [ChunkedNext]_chunkedVars
  PROVE  ChunkedInv'
<1>1. CASE SizeRefused
  BY <1>1, SizeRefusedKeeps
<1>2. CASE SizeUnseen
  BY <1>2, SizeUnseenKeeps
<1>3. CASE SizeRead
  BY <1>3, SizeReadKeeps
<1>4. CASE Data
  BY <1>4, DataKeeps
<1>5. CASE DataUnseen
  BY <1>5, DataUnseenKeeps
<1>6. CASE DataEnd
  BY <1>6, DataEndKeeps
<1>7. CASE DataEndRefused
  BY <1>7, DataEndRefusedKeeps
<1>8. CASE DataEndUnseen
  BY <1>8, DataEndUnseenKeeps
<1>9. CASE Finish
  BY <1>9, FinishKeeps
<1>10. CASE Over
  BY <1>10, OverKeeps
<1>11. CASE TrailerLine
  BY <1>11, TrailerLineKeeps
<1>12. CASE TrailerRefused
  BY <1>12, TrailerRefusedKeeps
<1>13. CASE TrailerUnseen
  BY <1>13, TrailerUnseenKeeps
<1>14. CASE Read
  BY <1>14, ReadKeeps
<1>15. CASE CutOff
  BY <1>15, CutOffKeeps
<1>16. CASE UNCHANGED chunkedVars
  BY <1>16, ChunkedStutterKeeps
<1> QED
  BY <1>1, <1>2, <1>3, <1>4, <1>5, <1>6, <1>7, <1>8, <1>9, <1>10, <1>11, <1>12, <1>13,
     <1>14, <1>15, <1>16, Zenon DEF ChunkedNext, Step, ChunkedStopped

\* The invariant holds of every body whose sizes fit.
LEMMA ChunkedInvariant == ASSUME SizesFit PROVE ChunkedSpec => []ChunkedInv
<1>1. ChunkedInit => ChunkedInv
  BY ChunkedInitKeeps
<1>2. ChunkedInv /\ [ChunkedNext]_chunkedVars => ChunkedInv'
  BY ChunkedKeeps
<1> QED
  BY <1>1, <1>2, PTL DEF ChunkedSpec

\* The offset never passes what has arrived: `chunked.step` reads no byte of
\* the buffer that is not there, and hands none out.
THEOREM ChunkedTypes == ASSUME SizesFit PROVE ChunkedSpec => []ChunkedTypeOK
<1>1. ChunkedInv => ChunkedTypeOK
  BY DEF ChunkedInv
<1> QED
  BY <1>1, ChunkedInvariant, PTL

\* However the body is cut, `chunked.step` carries from call to call what
\* reading it symbol by symbol gives, every byte handed out included.
THEOREM DecodesSymbolBySymbol == ASSUME SizesFit PROVE ChunkedSpec => []AsSymbolBySymbol
<1>1. ChunkedInv => AsSymbolBySymbol
  BY DEF ChunkedInv
<1> QED
  BY <1>1, ChunkedInvariant, PTL

\* `chunked.step` refuses what cannot become a body, asks for more only while
\* it may, and says it is over when it is.
THEOREM VerdictsAreDue == ASSUME SizesFit PROVE ChunkedSpec => []VerdictIsDue
<1>1. ChunkedInv => VerdictIsDue
  BY DEF ChunkedInv
<1> QED
  BY <1>1, ChunkedInvariant, PTL
=============================================================================
