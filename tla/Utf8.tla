-------------------------------- MODULE Utf8 --------------------------------
(***************************************************************************)
(* utf-8.c: whether a text is UTF-8.  The text is any sequence of bytes,   *)
(* put together one byte after the other; the reference decodes it.        *)
(***************************************************************************)
EXTENDS Integers, Sequences, SequencesExt

CONSTANTS
    Bytes,       \* the bytes a text is made of
    MaxText      \* bound: the length of a text

VARIABLE text

Init == text = <<>>

AddByte(b) == Len(text) < MaxText /\ text' = Append(text, b)

Next == \E b \in Bytes : AddByte(b)

-----------------------------------------------------------------------------

\* A byte as a char, which is signed, holds it.
char(b) == IF b < 128 THEN b ELSE b - 256

tail == <<128, 191>>

\* A row of valid_ranges: lower and upper limit of each byte.
valid_ranges == {
    <<<<0, 127>>>>,
    <<<<194, 223>>, tail>>,
    <<<<224, 224>>, <<160, 191>>, tail>>,
    <<<<225, 236>>, tail, tail>>,
    <<<<237, 237>>, <<128, 159>>, tail>>,
    <<<<238, 239>>, tail, tail>>,
    <<<<240, 240>>, <<144, 191>>, tail, tail>>,
    <<<<241, 243>>, tail, tail, tail>>,
    <<<<244, 244>>, <<128, 143>>, tail, tail>>}

\* How many bytes the first one announces.
charlen(b) == CASE b < 128 -> 1
                [] b >= 240 -> 4
                [] b >= 224 /\ b < 240 -> 3
                [] OTHER -> 2

\* Mutant: a character that is cut off at the end of the text is accepted.
UTF8_char_validate_CutOff(data) ==
    LET n == charlen(data[1])
    IN  IF \E row \in valid_ranges :
            /\ Len(row) = n
            /\ \A j \in 1..n : j <= Len(data) =>
                char(data[j]) \in char(row[j][1])..char(row[j][2])
        THEN n ELSE 0

\* UTF8_char_validate: the length of the first character, 0 if it is not valid.
UTF8_char_validate(data) ==
    LET n == charlen(data[1])
    IN  IF /\ n <= Len(data)
           /\ \E row \in valid_ranges :
                /\ Len(row) = n
                /\ \A j \in 1..n : char(data[j]) \in char(row[j][1])..char(row[j][2])
        THEN n ELSE 0

\* UTF8_validate
UTF8_validate(data) ==
    LET end == Len(data) + 1
        validFrom[i \in 1..end] ==
            \/ i = end
            \/ LET n == UTF8_char_validate(SubSeq(data, i, Len(data)))
               IN  n > 0 /\ (i + n > end \/ validFrom[i + n])
    IN  validFrom[1]

\* The characters before the first NUL, which is where strlen stops.
untilNul(data) ==
    LET cut == {i \in 1..Len(data) : \A j \in 1..i : data[j] # 0}
    IN  SubSeq(data, 1, Cardinality(cut))

\* UTF8_validateString
UTF8_validateString(data) == UTF8_validate(untilNul(data))

-----------------------------------------------------------------------------
(* Reference: the byte sequences that encode a Unicode scalar value in the *)
(* shortest way.                                                           *)

\* The bits of a leading byte of a sequence of n, and the least value it may encode.
leadBits(n) == <<128, 32, 16, 8>>[n]
leadBase(n) == <<0, 192, 224, 240>>[n]
least(n) == <<0, 128, 2048, 65536>>[n]

encodesScalar(s) ==
    LET n == Len(s)
        value == FoldLeft(LAMBDA v, b : v * 64 + (b - 128), s[1] - leadBase(n), Tail(s))
    IN  /\ s[1] - leadBase(n) \in 0..(leadBits(n) - 1)
        /\ \A i \in 2..n : s[i] \div 64 = 2
        /\ value >= least(n) /\ value <= 1114111
        /\ value \notin 55296..57343

WellFormed(data) ==
    LET end == Len(data) + 1
        from[i \in 1..end] ==
            \/ i = end
            \/ \E n \in 1..4 : /\ i + n <= end
                               /\ encodesScalar(SubSeq(data, i, i + n - 1))
                               /\ from[i + n]
    IN  from[1]

-----------------------------------------------------------------------------
(* Properties                                                              *)

\* A text is accepted if and only if it is a sequence of Unicode scalar values
\* encoded in the shortest way: nothing cut off at its end, no surrogates, no
\* stray continuation (utf-8.c:33-54, 65-109); and what is accepted by length
\* is accepted when it ends at its first NUL.
ValidatesUtf8 ==
    /\ UTF8_validate(text) <=> WellFormed(text)
    /\ UTF8_validate(text) => UTF8_validateString(text)
=============================================================================
