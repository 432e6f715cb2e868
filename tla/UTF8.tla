-------------------------------- MODULE UTF8 --------------------------------
(***************************************************************************)
(* helpers/UTF8.cpp: the functions that walk a std::string one code point  *)
(* at a time.  A string is a sequence of bytes; offsets are the byte       *)
(* offsets of the code and start at 0.  Of a byte only its class matters:  *)
(* Cont is a continuation byte ((c & 0xC0) == 0x80), every other byte      *)
(* starts a code point.                                                    *)
(***************************************************************************)
EXTENDS Integers, SequencesExt

Cont == "cont"
Lead == "lead"
NPos == -1

IsCont(s, o) == s[o + 1] = Cont

\* std::string::substr(from, upto - from), by byte offsets
Bytes(s, from, upto) == SubSeq(s, from + 1, upto)

\* The bytes of the code point at offset o; max is what is left of the string.
CodepointLen(s, o, max) ==
  Max({1} \cup {n \in 1 .. max : \A k \in 1 .. n - 1 : IsCont(s, o + k)})

\* The bytes of the code point that ends at o; 0 when no byte before o starts one.
CodepointLenBefore(s, o) ==
  LET starts == {p \in 0 .. o - 1 : ~IsCont(s, p)}
  IN  IF starts = {} THEN 0 ELSE o - Max(starts)

\* A byte offset becomes the number of code points that begin before it.
OffsetToUTF8Len(s, offset) ==
  LET endp == Min({Len(s), offset})
      walk[c \in 0 .. Len(s)] ==
        IF c >= endp THEN 0 ELSE 1 + walk[c + CodepointLen(s, c, endp - c)]
  IN  walk[0]

\* The loop of offsetToUTF8Len, run to the end of the string.
CodepointCount(s) == OffsetToUTF8Len(s, Len(s))

\* Where the code point after the one at c begins
NextCodepoint(s, c) == IF c = Len(s) THEN c ELSE c + CodepointLen(s, c, Len(s) - c)

\* Seeded fault: len > utf8 for len >= utf8.
Utf8ToOffsetPast(s, n) ==
  LET at[len \in 0 .. n + 1] == IF len = 0 THEN 0 ELSE NextCodepoint(s, at[len - 1])
  IN  at[n + 1]

\* A code point index becomes a byte offset, the length when there are fewer.
Utf8ToOffset(s, n) ==
  LET at[len \in 0 .. n] == IF len = 0 THEN 0 ELSE NextCodepoint(s, at[len - 1])
  IN  at[n]

\* The length code points from the start-th on; without a length (NPos) the
\* loop stops as it reaches start, and a start of 0 then yields nothing.
Substr(s, start, length) ==
  LET from == Utf8ToOffset(s, start)
  IN  IF length = 0 \/ (length = NPos /\ start = 0) THEN <<>>
      ELSE Bytes(s, from, IF length = NPos THEN Len(s) ELSE Utf8ToOffset(s, start + length))

\* The forward scans: step over code points from offset until one equals ch, or one does not.
Forward(s, offset, ch, equal) ==
  LET scan[o \in 0 .. Len(s)] ==
        LET n == CodepointLen(s, o, Len(s) - o)
        IN  IF o >= Len(s) THEN NPos
            ELSE IF (Bytes(s, o, o + n) = ch) = equal THEN o ELSE scan[o + n]
  IN  IF offset >= Len(s) THEN NPos ELSE scan[offset]

\* The backward scans: from min(offset, length) down to the start.
Backward(s, offset, ch, equal) ==
  LET scan[o \in 0 .. Len(s)] ==
        LET b == o - CodepointLenBefore(s, o)
        IN  IF o = 0 THEN NPos
            ELSE IF (Bytes(s, b, o) = ch) = equal THEN b ELSE scan[b]
  IN  scan[Min({offset, Len(s)})]

FindFirstOf(s, ch, offset) == Forward(s, offset, ch, TRUE)
FindFirstNotOf(s, ch, offset) == Forward(s, offset, ch, FALSE)
FindLastOf(s, ch, offset) == Backward(s, offset, ch, TRUE)
FindLastNotOf(s, ch, offset) == Backward(s, offset, ch, FALSE)

----------------------------------------------------------------------------
\* What the walks are measured against: the offsets where characters begin.

Boundaries(s) == {o \in 0 .. Len(s) : o = Len(s) \/ ~IsCont(s, o)}

\* Every lead byte with its continuation byte, and no continuation byte else.
WellFormed(s) ==
  \A i \in 1 .. Len(s) : /\ s[i] = Lead => (i < Len(s) /\ s[i + 1] = Cont)
                         /\ s[i] = Cont => (i > 1 /\ s[i - 1] = Lead)

\* How many characters begin before o; where the one after the first i begins.
BegunBefore(s, o) == Cardinality({p \in Boundaries(s) : p < o})
Beginning(s, i) == CHOOSE o \in Boundaries(s) : BegunBefore(s, o) = i

\* The characters of a well-formed string, each a sequence of bytes.
Characters(s) ==
  [i \in 1 .. BegunBefore(s, Len(s)) |-> Bytes(s, Beginning(s, i - 1), Beginning(s, i))]

=============================================================================
