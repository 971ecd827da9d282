------------------------------- MODULE Chunked -------------------------------
(***************************************************************************)
(* The chunked-body decoder `chunked.step` of programs/http/parse.mereo.   *)
(* It decodes in place from a buffer that fills as the caller reads, and   *)
(* between calls remembers only an offset, a phase and what is left of a   *)
(* chunk.  Each call looks at as much of the buffer as has arrived, and    *)
(* takes nothing back: a line it cannot see the end of it reads again from *)
(* the start in the next call.                                             *)
(***************************************************************************)
EXTENDS Integers, Sequences

CONSTANTS Symbol,    \* what a body is written in
          Text,      \* the bodies a peer may send
          CR, LF,    \* the two symbols of a line's end
          Digit,     \* the hexadecimal digits
          Value,     \* what each is worth
          Base,      \* what a place is worth: 16
          MaxDigits, \* the digits a size may have: 16
          Half       \* the least number a signed word cannot hold

\* The digits are symbols of their own.
ASSUME ChunkedAssumption ==
  /\ Text \subseteq Seq(Symbol)
  /\ CR # LF
  /\ {CR, LF} \cup Digit \subseteq Symbol
  /\ {CR, LF} \cap Digit = {}
  /\ Value \in [Digit -> Nat]
  /\ Base \in Nat \ {0}
  /\ MaxDigits \in Nat \ {0}
  /\ Half \in Nat \ {0}

VARIABLES text,       \* what the peer sends, all of it
          length,     \* how much of it is in the buffer
          at,         \* the offset carried from call to call
          phase,      \* 0 size line, 1 data, 2 data's end, 3 trailer, 4 over
          remaining,  \* what is left of the chunk
          result,     \* the last call's: the offset, -1 malformed, -2 more
          body,       \* the places in the buffer handed out as body
          pc          \* the caller: "call", "read", "stop"

chunkedVars == <<text, length, at, phase, remaining, result, body, pc>>

ChunkedInit == /\ text \in Text
               /\ length = 0
               /\ at = 0
               /\ phase = 0
               /\ remaining = 0
               /\ result = 0
               /\ body = <<>>
               /\ pc = "read"

-----------------------------------------------------------------------------
(* What a call can see.                                                    *)

\* The first place from i on, within what is here, with one of these
\* symbols; the place after all that is if there is none.
First(i, symbols) ==
  LET places == {j \in i..length : text[j] \in symbols}
  IN  IF places = {} THEN length + 1 ELSE CHOOSE j \in places : \A k \in places : j <= k

\* The place after the last digit of the size, and the place of the line's CR.
SizeEnd == First(at + 1, Symbol \ Digit)

LineEnd(i) == First(i, {CR})

\* The size the digits say, as the signed word that holds it reads.
SizeOf(digits) ==
  LET value[n \in 0..Len(digits)] == IF n = 0 THEN 0 ELSE value[n - 1] * Base + Value[digits[n]]
      size == value[Len(digits)]
  IN  IF size < Half THEN size ELSE size - 2 * Half

\* CR and LF are at this place and the next.
\* Mutant: the LF is not looked for.
IsCR(i) == text[i] = CR

IsCRLF(i) == text[i] = CR /\ text[i + 1] = LF

\* The call ends: malformed, or more bytes are needed.
Refuse == /\ result' = -1
          /\ pc' = "stop"
          /\ UNCHANGED <<text, length, at, phase, remaining, body>>

Want == /\ result' = -2
        /\ pc' = "read"
        /\ UNCHANGED <<text, length, at, phase, remaining, body>>

\* The call got as far as this offset.
Advance(to) == /\ at' = to
               /\ result' = to
               /\ pc' = "call"
               /\ UNCHANGED <<text, length>>

\* The call is in this phase.
In(n) == pc = "call" /\ phase = n

-----------------------------------------------------------------------------
(* `chunked.step`, by phase.                                               *)

\* The size line is too long, without a digit, or has no LF after its CR.
SizeRefused ==
  /\ In(0)
  /\ LET end == SizeEnd
         cr == LineEnd(end)
     IN  \/ end - (at + 1) > MaxDigits
         \/ end = at + 1 /\ end <= length
         \/ cr < length /\ ~IsCRLF(cr)
  /\ Refuse

\* Its end is not there yet.
SizeUnseen ==
  /\ In(0)
  /\ LET end == SizeEnd
     IN  /\ end - (at + 1) <= MaxDigits
         /\ \/ end > length
            \/ end # at + 1 /\ LineEnd(end) >= length
  /\ Want

\* The size is read, whatever stands between it and the CR: data follows, or
\* the trailer after a size of zero.
SizeRead ==
  /\ In(0)
  /\ LET end == SizeEnd
         cr == LineEnd(end)
     IN  /\ end # at + 1
         /\ end - (at + 1) <= MaxDigits
         /\ cr < length
         /\ IsCRLF(cr)
         /\ remaining' = SizeOf(SubSeq(text, at + 1, end - 1))
         /\ Advance(cr + 1)
  /\ phase' = IF remaining' = 0 THEN 3 ELSE 1
  /\ UNCHANGED body

\* Data: as much of the chunk as is here.
\* Mutants: the whole chunk is taken, here or not; a piece of a chunk ends it.
DataWhole ==
  /\ In(1)
  /\ length > at
  /\ remaining' = 0
  /\ Advance(at + remaining)
  /\ phase' = 2
  /\ UNCHANGED body

DataPiece ==
  /\ In(1)
  /\ length > at
  /\ LET take == IF length - at < remaining THEN length - at ELSE remaining
     IN  /\ body' = body \o [i \in 1..take |-> at + i]
         /\ remaining' = remaining - take
         /\ Advance(at + take)
  /\ phase' = 2

Data ==
  /\ In(1)
  /\ length > at
  /\ LET take == IF length - at < remaining THEN length - at ELSE remaining
     IN  /\ body' = body \o [i \in 1..take |-> at + i]
         /\ remaining' = remaining - take
         /\ Advance(at + take)
  /\ phase' = IF remaining' = 0 THEN 2 ELSE 1

\* None of it is here.
\* Mutant: nothing is taken for a piece.
DataUnseenSpins ==
  In(1) /\ length = at /\ Advance(at) /\ UNCHANGED <<phase, remaining, body>>

DataUnseen == In(1) /\ length = at /\ Want

\* The end of a chunk's data.
DataEnd == /\ In(2)
           /\ at + 2 <= length
           /\ IsCRLF(at + 1)
           /\ phase' = 0
           /\ Advance(at + 2)
           /\ UNCHANGED <<remaining, body>>

DataEndRefused == In(2) /\ at + 2 <= length /\ ~IsCRLF(at + 1) /\ Refuse

DataEndUnseen == In(2) /\ at + 2 > length /\ Want

\* The empty line that ends the trailer, and the body with it.
Finish == /\ In(3)
          /\ at + 2 <= length
          /\ IsCRLF(at + 1)
          /\ phase' = 4
          /\ Advance(at + 2)
          /\ UNCHANGED <<remaining, body>>

\* A call after the end finds the body still over.
Over == /\ In(4)
        /\ result' = at
        /\ pc' = "stop"
        /\ UNCHANGED <<text, length, at, phase, remaining, body>>

\* A field line of the trailer, which is dropped.
TrailerLine ==
  /\ In(3)
  /\ at + 2 <= length
  /\ LET cr == LineEnd(at + 1)
     IN  cr # at + 1 /\ cr < length /\ IsCRLF(cr) /\ Advance(cr + 1)
  /\ UNCHANGED <<phase, remaining, body>>

\* A line whose CR is not followed by LF.
TrailerRefused ==
  /\ In(3)
  /\ at + 2 <= length
  /\ LET cr == LineEnd(at + 1) IN cr < length /\ ~IsCRLF(cr)
  /\ Refuse

\* A line whose end is not there yet.
TrailerUnseen == /\ In(3)
                 /\ (at + 2 > length \/ LineEnd(at + 1) >= length)
                 /\ Want

Step == \/ SizeRefused \/ SizeUnseen \/ SizeRead
        \/ Data \/ DataUnseen
        \/ DataEnd \/ DataEndRefused \/ DataEndUnseen
        \/ Finish \/ Over \/ TrailerLine \/ TrailerRefused \/ TrailerUnseen

-----------------------------------------------------------------------------
(* The caller.                                                             *)

\* More bytes arrive, however many, and the decoder is called again.
Read == /\ pc = "read"
        /\ \E n \in length + 1..Len(text) : length' = n
        /\ pc' = "call"
        /\ UNCHANGED <<text, at, phase, remaining, result, body>>

\* There are none: the body is cut off.
CutOff == /\ pc = "read"
          /\ length = Len(text)
          /\ pc' = "stop"
          /\ UNCHANGED <<text, length, at, phase, remaining, result, body>>

\* The body is over, refused or cut off.
ChunkedStopped == pc = "stop" /\ UNCHANGED chunkedVars

ChunkedNext == Step \/ Read \/ CutOff \/ ChunkedStopped

\* The decoder runs, and a read comes back.
ChunkedSpec == ChunkedInit /\ [][ChunkedNext]_chunkedVars /\ WF_chunkedVars(Step \/ Read \/ CutOff)

-----------------------------------------------------------------------------
(* The reference: the same grammar a symbol at a time, which never looks    *)
(* ahead or back.                                                           *)

\* What the automaton knows: its state, the size so far and its digits, what
\* the chunk still owes, and the body.
Start == [state |-> "size", value |-> 0, digits |-> 0, body |-> <<>>]

\* The symbol c more, at place i.
Eat(s, c, i) ==
  LET To(state) == [s EXCEPT !.state = state]
      After(yes, symbol) == To(IF c = symbol THEN yes ELSE "bad")
      Line(state) == IF c = CR THEN To(state) ELSE To("field")
  IN  CASE s.state = "size" /\ c \in Digit ->
             IF s.digits = MaxDigits THEN To("bad")
             ELSE [s EXCEPT !.value = @ * Base + Value[c], !.digits = @ + 1]
        [] s.state = "size" /\ c \notin Digit ->
             To(IF s.digits = 0 THEN "bad" ELSE IF c = CR THEN "sizeLF" ELSE "extension")
        [] s.state = "extension" -> IF c = CR THEN To("sizeLF") ELSE s
        [] s.state = "sizeLF" -> After(IF s.value = 0 THEN "line" ELSE "data", LF)
        [] s.state = "data" ->
             [s EXCEPT !.body = Append(@, i), !.value = @ - 1,
                       !.state = IF s.value = 1 THEN "dataCR" ELSE "data"]
        [] s.state = "dataCR" -> After("dataLF", CR)
        [] s.state = "dataLF" ->
             IF c = LF THEN [Start EXCEPT !.body = s.body] ELSE To("bad")
        [] s.state = "line" -> Line("lastLF")
        [] s.state = "field" -> Line("fieldLF")
        [] s.state = "fieldLF" -> After("line", LF)
        [] s.state = "lastLF" -> After("over", LF)
        [] OTHER -> s

\* What it knows of each text after each of its symbols.
Automaton ==
  [t \in Text |->
    LET after[n \in 0..Len(t)] == IF n = 0 THEN Start ELSE Eat(after[n - 1], t[n], n)
    IN  [n \in 0..Len(t) |-> after[n]]]

\* Every size a body names is one a signed word holds.  `step` counts the
\* digits and not the size, so it reads a greater one as negative.
SizesFit ==
  \A t \in Text : \A n \in 0..Len(t) :
    Automaton[t][n].state = "size" => Automaton[t][n].value < Half

-----------------------------------------------------------------------------
(* Properties.                                                             *)

\* The offset never passes what has arrived, and the phases are the five.
ChunkedTypeOK == /\ length \in 0..Len(text)
                 /\ at \in 0..length
                 /\ phase \in 0..4
                 /\ remaining \in Nat
                 /\ result \in {-1, -2} \cup 0..at
                 /\ body \in Seq(1..at)
                 /\ pc \in {"call", "read", "stop"}

\* Where the text was cut never shows: after every call, what the decoder
\* carries is what reading the text symbol by symbol up to the offset gives,
\* the phase, what the chunk owes and every byte of the body.
AsSymbolBySymbol ==
  LET s == Automaton[text][at]
  IN  /\ body = s.body
      /\ CASE phase = 0 -> s.state = "size" /\ s.digits = 0
           [] phase = 1 -> s.state = "data" /\ s.value = remaining
           [] phase = 2 -> s.state = "dataCR"
           [] phase = 3 -> s.state = "line"
           [] phase = 4 -> s.state = "over"

\* A verdict comes neither early nor late: a body is refused only for what has
\* arrived, more is asked for only while the text may still become a body or
\* its last symbol alone is at fault, and a body is over when it is.
VerdictIsDue ==
  /\ result = -1 => Automaton[text][length].state = "bad"
  /\ result = -2 /\ pc = "read" => /\ Automaton[text][length].state # "over"
                                   /\ length > 0 => Automaton[text][length - 1].state # "bad"
  /\ phase = 4 => Automaton[text][length].state = "over"

\* Every call that does not stop the caller gets further or asks for more, so
\* the caller's loop ends.
DecodingEnds == <>(pc = "stop")
=============================================================================
