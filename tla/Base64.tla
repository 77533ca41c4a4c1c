------------------------------- MODULE Base64 -------------------------------
(***************************************************************************)
(* Base64.c: encoding and decoding into a buffer of a given length.  The   *)
(* data is any sequence of bytes, put together one after the other.        *)
(***************************************************************************)
EXTENDS Integers, Sequences, SequencesExt

CONSTANTS
    Octets,      \* the bytes the data is made of
    MaxData      \* bound: the length of the data

VARIABLE data

Init == data = <<>>

AddOctet(b) == Len(data) < MaxData /\ data' = Append(data, b)

Next == \E b \in Octets : AddOctet(b)

-----------------------------------------------------------------------------

NV == 64
Padding == 61   \* '='

\* BASE64_ENCODE_TABLE: the character of an index.
ENCODE_TABLE(i) ==
    CASE i < 26 -> 65 + i
      [] i \in 26..51 -> 97 + (i - 26)
      [] i \in 52..61 -> 48 + (i - 52)
      [] i = 62 -> 43
      [] i = 63 -> 47
      [] i = 64 -> Padding

\* BASE64_DECODE_TABLE: the index of a character, NV if it has none.
DECODE_TABLE(c) ==
    CASE c \in 65..90 -> c - 65
      [] c \in 97..122 -> 26 + (c - 97)
      [] c \in 48..57 -> 52 + (c - 48)
      [] c = 43 -> 62
      [] c = 47 -> 63
      [] OTHER -> NV

\* Group g of in, of at most n.
group(in, g, n) ==
    SubSeq(in, n * (g - 1) + 1, IF n * g < Len(in) THEN n * g ELSE Len(in))

\* The four indices for up to three bytes.
indices(b) ==
    LET byte(i) == IF i <= Len(b) THEN b[i] ELSE 0
    IN  <<byte(1) \div 4,
          (byte(1) % 4) * 16 + byte(2) \div 16,
          IF Len(b) >= 2 THEN (byte(2) % 16) * 4 + byte(3) \div 64 ELSE NV,
          IF Len(b) = 3 THEN byte(3) % 64 ELSE NV>>

groups(n, size) == (n + size - 1) \div size

\* The turns of the loop of Base64_encode, which ends with the data or with the
\* buffer; the last one may have no room.
turns(out_len, in_len) ==
    LET all == groups(in_len, 3)
        room == groups(out_len, 4)
    IN  IF all < room THEN all ELSE room

\* The characters of the groups there is room for.
encodeGroups(out_len, in) ==
    LET n == turns(out_len, Len(in))
    IN  FlattenSeq([g \in 1..(IF 4 * n <= out_len THEN n ELSE n - 1) |->
            LET c == indices(group(in, g, 3))
            IN  [k \in 1..4 |-> ENCODE_TABLE(c[k])]])

\* Base64_encode
Base64_encode(out_len, in) ==
    LET out_count == 4 * turns(out_len, Len(in))
    IN  [ret |-> IF out_count <= out_len THEN out_count ELSE 0,
         out |-> encodeGroups(out_len, in)]

\* The bytes of a group of four characters: two paddings leave one.
decodeGroup(s) ==
    LET c == [k \in 1..4 |-> DECODE_TABLE(s[k])]
        first == ((c[1] * 4) % 256) + (c[2] \div 16)
        second == (c[2] % 16) * 16 + (c[3] \div 4)
        third == (c[3] % 4) * 64 + c[4]
    IN  IF c[3] = NV THEN <<first>>
        ELSE IF c[4] = NV THEN <<first, second>>
        ELSE <<first, second, third>>

\* What the groups decode to, up to the first with padding.
decodeFrom(in) ==
    LET from[g \in 1..(Len(in) \div 4 + 1)] ==
            IF g > Len(in) \div 4 THEN <<>>
            ELSE LET b == decodeGroup(group(in, g, 4))
                 IN  IF Len(b) < 3 THEN b ELSE b \o from[g + 1]
    IN  from[1]

\* Base64_decode stops as soon as the buffer is full.
Base64_decode(out_len, in) ==
    LET b == decodeFrom(in)
    IN  SubSeq(b, 1, IF Len(b) < out_len THEN Len(b) ELSE out_len)

\* Base64_decodeLength, of what is no shorter than its padding.
Base64_decodeLength(in) ==
    LET n == Len(in)
        pad(i) == IF i >= 1 /\ i <= n /\ in[i] = Padding THEN 1 ELSE 0
    IN  (n \div 4) * 3 - (pad(n - 1) + pad(n))

\* Mutant: the remainder of the division is lost.
Base64_encodeLength_Short(in_len) == 4 * (in_len \div 3)

\* Base64_encodeLength
Base64_encodeLength(in_len) == (((4 * in_len) \div 3 + 3) \div 4) * 4

-----------------------------------------------------------------------------
(* Properties                                                              *)

\* In a buffer of the length encodeLength asks for, with or without room for
\* the NUL, the data is encoded whole, and decoding it into a buffer of the
\* length decodeLength asks for gives the data back; in a shorter buffer encoding
\* stays within it and writes whole groups only, so that what it reports is 0 or
\* decodes to a prefix of the data (Base64.c:46-94, 141-171).
Base64RoundTrip ==
    LET size == Base64_encodeLength(Len(data))
    IN  \A out_len \in 0..(size + 1) :
            LET e == Base64_encode(out_len, data)
            IN  /\ Len(e.out) <= out_len
                /\ e.ret \in {0, Len(e.out)}
                /\ IsPrefix(Base64_decode(Len(data), e.out), data)
                /\ out_len >= size =>
                    /\ e.ret = size
                    /\ Base64_decodeLength(e.out) = Len(data)
                    /\ Base64_decode(Base64_decodeLength(e.out), e.out) = data
=============================================================================
