------------------------------ MODULE Transfer ------------------------------
(***************************************************************************)
(* Bytes from one program to another through a stream the kernel hands     *)
(* over in pieces.  The writer sends records with a checked write (`write` *)
(* of linux.mereo's `file`, `transmit` of programs/tls/net.mereo), which   *)
(* fails on a short count.  The reader is one of two: `read_record` of     *)
(* programs/tls/client.mereo, a header that says how long the body is and  *)
(* then the body, or a caller of `file.fill`, which asks for a bufferful   *)
(* until one comes back short.                                             *)
(*                                                                         *)
(* A byte is its place in the stream.                                      *)
(***************************************************************************)
EXTENDS Integers, Sequences

CONSTANTS Records,   \* bound: records the writer sends
          Longest,   \* bound: bytes of a record, header included
          Header,    \* bytes of a record's header
          Capacity   \* bytes of the reader's buffer

\* The buffer has room for a header.
ASSUME TransferAssumption ==
  /\ Records \in Nat
  /\ Longest \in Nat
  /\ Header \in Nat \ {0}
  /\ Capacity \in Nat
  /\ Capacity >= Header

VARIABLES bound,    \* where each record ends in the stream, 0 before the first
          written,  \* records written so far
          wpc,      \* the writer: "writing", "failed" into its tower, "closed"
          arrived,  \* bytes the kernel took over
          taken,    \* bytes the kernel handed out
          buf,      \* what the reader's buffer holds
          total,    \* the record's length, once its header is there
          rpc,      \* where the reader is
          handed    \* what the reader handed to its caller

\* The writer and what it has to write.
writer == <<bound, written, wpc, arrived>>

vars == <<writer, taken, buf, total, rpc, handed>>

\* Records of any length, a header at the least.
Boundaries == {b \in [0..Records -> 0..Records * Longest] :
                 /\ b[0] = 0
                 /\ \A k \in 1..Records : b[k] - b[k - 1] <= Longest
                 /\ \A j, k \in 0..Records : j < k => b[j] + Header <= b[k]}

Init == /\ bound \in Boundaries
        /\ written = 0
        /\ wpc = "writing"
        /\ arrived = 0
        /\ taken = 0
        /\ buf = <<>>
        /\ total = 0
        /\ rpc \in {"head", "filling"}
        /\ handed = <<>>

\* The stream has ended and all of it was handed out.
AtEnd == wpc = "closed" /\ taken = arrived

-----------------------------------------------------------------------------
(* The writer.                                                             *)

\* The kernel takes over a byte of the record being written.
Accept == /\ wpc = "writing"
          /\ written < Records
          /\ arrived < bound[written + 1]
          /\ arrived' = arrived + 1
          /\ UNCHANGED <<bound, written, wpc, taken, buf, total, rpc, handed>>

\* `ensure written == count`: the whole record was taken.
WriteWhole == /\ wpc = "writing"
              /\ written < Records
              /\ arrived = bound[written + 1]
              /\ written' = written + 1
              /\ UNCHANGED <<bound, wpc, arrived, taken, buf, total, rpc, handed>>

\* A write comes back short, or fails: the writer goes into its tower.
WriteShort == /\ wpc = "writing"
              /\ written < Records
              /\ arrived < bound[written + 1]
              /\ wpc' = "failed"
              /\ UNCHANGED <<bound, written, arrived, taken, buf, total, rpc, handed>>

\* The descriptor is closed, at the end of the program or by the tower.
Close == /\ \/ wpc = "failed"
            \/ wpc = "writing" /\ written = Records
         /\ wpc' = "closed"
         /\ UNCHANGED <<bound, written, arrived, taken, buf, total, rpc, handed>>

Write == Accept \/ WriteWhole \/ WriteShort \/ Close

-----------------------------------------------------------------------------
(* A read: the kernel hands out what has arrived, as much as was asked for  *)
(* at the most, and at least a byte.                                        *)

\* What a read that asks for `want` bytes may come back with.
Pieces(want) == {n \in 1..want : n <= arrived - taken}

\* n bytes more in the buffer.
Get(n) == /\ taken' = taken + n
          /\ buf' = buf \o [i \in 1..n |-> taken + i]

\* A buffer is handed to the caller, and its bytes are done with.
\* Mutant: the count starts where it was.
HandKeeping == /\ handed' = Append(handed, buf)
               /\ buf' = buf

Hand == /\ handed' = Append(handed, buf)
        /\ buf' = <<>>

-----------------------------------------------------------------------------
(* `read_record`.                                                          *)

\* The loop `head`: until the header is there.
ReadHead == /\ rpc = "head"
            /\ \E n \in Pieces(Header - Len(buf)) :
                 /\ Get(n)
                 /\ rpc' = IF Len(buf) + n < Header THEN "head" ELSE "measure"
            /\ UNCHANGED <<writer, total, handed>>

\* The whole length a header declares, which it does at a record's beginning.
Declared(first) == {bound[k] - bound[k - 1] : k \in {j \in 1..Records : bound[j - 1] + 1 = first}}

\* `ensure total <= capacity`, before any of the body is read.
\* Mutant: the body's length alone is compared.
MeasureBody == /\ rpc = "measure"
               /\ total' \in Declared(buf[1])
               /\ rpc' = IF total' - Header <= Capacity THEN "body" ELSE "failed"
               /\ UNCHANGED <<writer, taken, buf, handed>>

Measure == /\ rpc = "measure"
           /\ total' \in Declared(buf[1])
           /\ rpc' = IF total' <= Capacity THEN "body" ELSE "failed"
           /\ UNCHANGED <<writer, taken, buf, handed>>

\* The loop `body`: until the record is there.
\* Mutant: one read is taken for the whole.
ReadBodyOnce == /\ rpc = "body"
                /\ \E n \in Pieces(total - Len(buf)) : Get(n)
                /\ rpc' = "read"
                /\ UNCHANGED <<writer, total, handed>>

ReadBody == /\ rpc = "body"
            /\ \E n \in Pieces(total - Len(buf)) :
                 /\ Get(n)
                 /\ rpc' = IF Len(buf) + n < total THEN "body" ELSE "read"
            /\ UNCHANGED <<writer, total, handed>>

\* `ensure count >= 1` fails: the stream has ended, or the body is empty and
\* the loop, which reads before it looks, asks for no bytes.
\* Mutant: a count of 0 passes, and the loop goes round.
ReadNothingSpins == /\ \/ rpc \in {"head", "body"} /\ AtEnd
                       \/ rpc = "body" /\ Len(buf) = total
                    /\ UNCHANGED vars

ReadNothing == /\ \/ rpc \in {"head", "body"} /\ AtEnd
                  \/ rpc = "body" /\ Len(buf) = total
               /\ rpc' = "failed"
               /\ UNCHANGED <<writer, taken, buf, total, handed>>

\* The caller has the record, and reads the next.
Deliver == /\ rpc = "read"
           /\ Hand
           /\ total' = 0
           /\ rpc' = "head"
           /\ UNCHANGED <<writer, taken>>

ReadRecord == ReadHead \/ Measure \/ ReadBody \/ ReadNothing \/ Deliver

-----------------------------------------------------------------------------
(* `file.fill`.                                                            *)

\* The loop `filling`: until the buffer is full.
Filling == /\ rpc = "filling"
           /\ \E n \in Pieces(Capacity - Len(buf)) :
                /\ Get(n)
                /\ rpc' = IF Len(buf) + n < Capacity THEN "filling" ELSE "filled"
           /\ UNCHANGED <<writer, total, handed>>

\* `leave filling when chunk == 0`.
\* Mutant: it is left as soon as nothing is there.
FillEndsEarly == /\ rpc = "filling"
                 /\ taken = arrived
                 /\ rpc' = "filled"
                 /\ UNCHANGED <<writer, taken, buf, total, handed>>

FillEnds == /\ rpc = "filling"
            /\ AtEnd
            /\ rpc' = "filled"
            /\ UNCHANGED <<writer, taken, buf, total, handed>>

\* The caller has what there was, and asks again unless it was short.
TakeFilled == /\ rpc = "filled"
              /\ Hand
              /\ rpc' = IF Len(buf) < Capacity THEN "stopped" ELSE "filling"
              /\ UNCHANGED <<writer, taken, total>>

Fill == Filling \/ FillEnds \/ TakeFilled

-----------------------------------------------------------------------------
\* A read is interrupted, or fails: the reader goes into its tower.
Interrupt == /\ rpc \in {"head", "body", "filling"}
             /\ rpc' = "failed"
             /\ UNCHANGED <<writer, taken, buf, total, handed>>

\* Nothing more to do.
Stopped == /\ wpc = "closed"
           /\ rpc \in {"failed", "stopped"}
           /\ UNCHANGED vars

Next == Write \/ ReadRecord \/ Fill \/ Interrupt \/ Stopped

\* Both programs run, and the kernel moves what was written.
Spec == Init /\ [][Next]_vars /\ WF_vars(Write) /\ WF_vars(ReadRecord \/ Fill)

-----------------------------------------------------------------------------
(* Properties.                                                             *)

\* Where the two are, and the buffer's bounds: the header declares any length,
\* and no byte is read beyond the buffer for it.
TypeOK == /\ bound \in Boundaries
          /\ written \in 0..Records
          /\ wpc \in {"writing", "failed", "closed"}
          /\ arrived \in Nat
          /\ taken \in 0..arrived
          /\ buf \in Seq(Nat)
          /\ Len(buf) <= Capacity
          /\ total \in Nat
          /\ rpc \in {"head", "measure", "body", "read", "failed", "filling", "filled", "stopped"}
          /\ handed \in Seq(Seq(Nat))

\* The bytes of the stream from one place up to another.
Bytes(from, to) == [i \in 1..to - from |-> from + i]

\* However the stream is cut into pieces, a record reader hands over the
\* records as they were written, each whole and none twice: the place of the
\* next header is never lost, and half a record is never taken for one.
RecordsAreWhole ==
  rpc \in {"head", "measure", "body", "read"} =>
    /\ Len(handed) <= Records
    /\ \A k \in 1..Len(handed) : handed[k] = Bytes(bound[k - 1], bound[k])
    /\ buf = Bytes(bound[Len(handed)], taken)

\* The bytes of a caller of fill are those of the stream, in order, and every
\* bufferful but the last is full.
FilledInOrder ==
  rpc \in {"filling", "filled", "stopped"} =>
    /\ \A k \in 1..Len(handed) :
         LET before == (k - 1) * Capacity
         IN  handed[k] = Bytes(before, IF k < Len(handed) \/ rpc # "stopped"
                                       THEN before + Capacity ELSE taken)
    /\ rpc # "stopped" => buf = Bytes(Len(handed) * Capacity, taken)

\* linux.mereo: "`count < capacity` MEANS the stream ended and nothing else".
\* A caller of fill that stops at the first short bufferful has all of the
\* stream there will ever be.
ShortMeansEnd ==
  rpc \in {"filled", "stopped"} /\ (rpc = "filled" => Len(buf) < Capacity) => AtEnd

\* Neither side waits for the other for ever: a record reader comes to the end
\* of the stream and a caller of fill to the short bufferful, wherever the
\* writer stopped.
TransferEnds == <>(rpc \in {"failed", "stopped"})
=============================================================================
