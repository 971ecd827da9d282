------------------------------ MODULE MCChunked ------------------------------
(* Well-formed bodies of a few chunks, and every body that differs from one *)
(* of them in one symbol, by one left out or by one put in.                 *)
EXTENDS Chunked, SequencesExt

\* Two digits suffice for a size of several places in base two.
Digits == {"0", "1"}

Values == [d \in Digits |-> IF d = "0" THEN 0 ELSE 1]

\* A symbol that is neither a digit nor part of a line's end.
Symbols == Digits \cup {"CR", "LF", "x"}

Sound == {<<"1", "CR", "LF", "x", "CR", "LF", "0", "CR", "LF", "CR", "LF">>,
          <<"1", "0", "CR", "LF", "1", "LF", "CR", "LF", "0", "CR", "LF", "CR", "LF">>,
          <<"1", "x", "CR", "LF", "CR", "CR", "LF", "0", "CR", "LF", "x", "CR", "LF", "CR", "LF">>,
          <<"0", "0", "1", "CR", "LF", "x", "CR", "LF", "1", "CR", "LF", "0", "CR", "LF",
            "0", "CR", "LF", "CR", "LF">>}

Changed(t) == {ReplaceAt(t, i, c) : i \in DOMAIN t, c \in Symbols}

Shorter(t) == {RemoveAt(t, i) : i \in DOMAIN t}

Longer(t) == {InsertAt(t, i, c) : i \in DOMAIN t, c \in Symbols}

\* Three digits, the first of them 1, say a size that turns negative; the runs
\* leave such bodies out.
Fits(t) == ~\E i \in 1..Len(t) - 2 : t[i] = "1" /\ {t[i + 1], t[i + 2]} \subseteq Digits

Bodies == {t \in Sound \cup UNION {Changed(t) \cup Shorter(t) \cup Longer(t) : t \in Sound} : Fits(t)}

\* What the theorems assume of the bodies.
ASSUME ChunkedSizes == SizesFit
=============================================================================
