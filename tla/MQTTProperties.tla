--------------------------- MODULE MQTTProperties ---------------------------
(***************************************************************************)
(* MQTTProperties.c: a list of MQTT 5 properties grows by adding, is       *)
(* copied, and is written into a buffer whose size was computed before.    *)
(* A property is a record with its identifier, the integer or the strings  *)
(* of the union, and what is not used of it is empty.                      *)
(***************************************************************************)
EXTENDS Integers, Sequences, SequencesExt

CONSTANTS
    Samples,     \* the properties that are added
    MaxProps,    \* bound: properties in the list
    Chunk        \* 10 in the code: by how many entries the array grows

VARIABLES
    props,       \* [array, max_count, length, null], null: there is no array
    added,       \* history: the properties whose addition returned 0
    memory       \* history: FALSE when an allocation has failed

propVars == <<props, added, memory>>

MQTTProperties_initializer == [array |-> <<>>, max_count |-> 0, length |-> 0, null |-> TRUE]

Init == props = MQTTProperties_initializer /\ added = <<>> /\ memory = TRUE

-----------------------------------------------------------------------------

\* MQTTProperty_getType, "none" if the identifier is not in namesToTypes.
MQTTProperty_getType(id) ==
    CASE id \in {1, 23, 25, 36, 37, 40, 41, 42}   -> "byte"
      [] id \in {19, 33, 34, 35}                  -> "two"
      [] id \in {2, 17, 24, 39}                   -> "four"
      [] id = 11                                  -> "variable"
      [] id \in {3, 8, 9, 18, 21, 22, 26, 28, 31} -> "string"
      [] id = 38                                  -> "pair"
      [] OTHER                                    -> "none"

\* Mutant: off by one at the first border.
MQTTPacket_VBIlen_Late(n) ==
    CASE n <= 128 -> 1
      [] n > 128 /\ n < 16384 -> 2
      [] n >= 16384 /\ n < 2097152 -> 3
      [] OTHER -> 4

\* MQTTPacket_VBIlen
MQTTPacket_VBIlen(n) ==
    CASE n < 128 -> 1
      [] n >= 128 /\ n < 16384 -> 2
      [] n >= 16384 /\ n < 2097152 -> 3
      [] OTHER -> 4

\* What a property adds to props->length besides its identifier.
valueLength(p) ==
    LET type == MQTTProperty_getType(p.identifier)
    IN  CASE type = "byte" -> 1
          [] type = "two" -> 2
          [] type = "four" -> 4
          [] type = "variable" -> MQTTPacket_VBIlen(p.int)
          [] type = "string" -> 2 + Len(p.data)
          [] type = "pair" -> 2 + Len(p.data) + 2 + Len(p.value)

\* The entries there are to be, when one more is added.
enlarged(ps) ==
    IF ps.null THEN Chunk
    ELSE IF Len(ps.array) = ps.max_count THEN ps.max_count + Chunk
    ELSE ps.max_count

\* The list with p, which has a valid identifier, when there is memory.
MQTTProperties_add(ps, p) ==
    [array |-> Append(ps.array, p),
     max_count |-> enlarged(ps),
     length |-> ps.length + valueLength(p) + 1,
     null |-> FALSE]

\* MQTTProperties_copy adds each property to an empty list.
MQTTProperties_copy(ps) ==
    FoldLeft(MQTTProperties_add, MQTTProperties_initializer, ps.array)

Add(p) ==
    /\ memory /\ Len(props.array) < MaxProps
    /\ MQTTProperty_getType(p.identifier) # "none"
    /\ props' = MQTTProperties_add(props, p)
    /\ added' = Append(added, p)
    /\ UNCHANGED memory

AddInvalid(p) ==
    /\ MQTTProperty_getType(p.identifier) = "none"
    /\ UNCHANGED propVars

\* malloc or realloc fails: the pointer to the array is overwritten, and the
\* properties are counted still.
AddNoMemory ==
    /\ memory /\ enlarged(props) # props.max_count
    /\ props' = [props EXCEPT !.max_count = enlarged(props), !.null = TRUE]
    /\ memory' = FALSE
    /\ UNCHANGED added

Next == \/ \E p \in Samples : Add(p) \/ AddInvalid(p)
        \/ AddNoMemory

-----------------------------------------------------------------------------
(* Writing                                                                 *)

\* Division and remainder of C, which round towards 0, and a cast to char.
quot(a, b) == IF a >= 0 THEN a \div b ELSE -((-a) \div b)
rem(a, b) == a - b * quot(a, b)
castChar(n) == n % 256

writeInt(n) == <<castChar(n \div 256), castChar(n % 256)>>

\* writeInt4 takes an int: a value from 2^31 on is negative there.
writeInt4(n) ==
    <<castChar(quot(n, 16777216)),
      castChar(quot(rem(n, 16777216), 65536)),
      castChar(quot(rem(rem(n, 16777216), 65536), 256)),
      castChar(rem(rem(rem(n, 16777216), 65536), 256))>>

\* writeMQTTLenString
writeMQTTLenString(s) == writeInt(Len(s)) \o s

\* MQTTPacket_encode, for what needs at most five digits.
MQTTPacket_encode(n) ==
    LET digits[k \in 0..5] == IF k = 0 THEN n ELSE digits[k - 1] \div 128
        more(k) == digits[k] > 0
        size == CHOOSE k \in 1..5 : ~more(k) /\ \A j \in 1..(k - 1) : more(j)
    IN  [k \in 1..size |-> (digits[k - 1] % 128) + (IF k < size THEN 128 ELSE 0)]

\* MQTTProperty_write
MQTTProperty_write(p) ==
    LET type == MQTTProperty_getType(p.identifier)
    IN  <<p.identifier>> \o
        CASE type = "byte" -> <<p.int>>
          [] type = "two" -> writeInt(p.int)
          [] type = "four" -> writeInt4(p.int)
          [] type = "variable" -> MQTTPacket_encode(p.int)
          [] type = "string" -> writeMQTTLenString(p.data)
          [] type = "pair" -> writeMQTTLenString(p.data) \o writeMQTTLenString(p.value)

\* MQTTProperties_write
MQTTProperties_write(ps) ==
    MQTTPacket_encode(ps.length) \o
        FlattenSeq([i \in DOMAIN ps.array |-> MQTTProperty_write(ps.array[i])])

\* MQTTProperties_len: the size of the buffer.
MQTTProperties_len(ps) == ps.length + MQTTPacket_VBIlen(ps.length)

-----------------------------------------------------------------------------
(* Reference: what a broker reads, by the MQTT 5 standard                  *)

\* The variable byte integer at i: its value and the index behind it.
readVariable(bytes, i) ==
    LET last == CHOOSE j \in i..(i + 3) : bytes[j] < 128 /\ \A h \in i..(j - 1) : bytes[h] >= 128
    IN  [value |-> FoldRight(LAMBDA b, v : v * 128 + (b % 128), SubSeq(bytes, i, last), 0),
         next |-> last + 1]

bigEndian(bytes) == FoldLeft(LAMBDA n, b : n * 256 + b, 0, bytes)

readString(bytes, i) ==
    LET end == i + 1 + bigEndian(SubSeq(bytes, i, i + 1))
    IN  [value |-> SubSeq(bytes, i + 2, end), next |-> end + 1]

\* The property at i and the index behind it.
readProperty(bytes, i) ==
    LET type == MQTTProperty_getType(bytes[i])
        size == IF type = "byte" THEN 1 ELSE IF type = "two" THEN 2 ELSE 4
        prop(int, d, v) == [identifier |-> bytes[i], int |-> int, data |-> d, value |-> v]
    IN  CASE type \in {"byte", "two", "four"} ->
                [prop |-> prop(bigEndian(SubSeq(bytes, i + 1, i + size)), <<>>, <<>>),
                 next |-> i + 1 + size]
          [] type = "variable" ->
                LET r == readVariable(bytes, i + 1)
                IN  [prop |-> prop(r.value, <<>>, <<>>), next |-> r.next]
          [] type = "string" ->
                LET r == readString(bytes, i + 1)
                IN  [prop |-> prop(0, r.value, <<>>), next |-> r.next]
          [] type = "pair" ->
                LET d == readString(bytes, i + 1)
                    v == readString(bytes, d.next)
                IN  [prop |-> prop(0, d.value, v.value), next |-> v.next]

readProperties(bytes) ==
    LET head == readVariable(bytes, 1)
        from[i \in 1..(Len(bytes) + 1)] ==
            IF i > Len(bytes) THEN <<>>
            ELSE LET r == readProperty(bytes, i) IN <<r.prop>> \o from[r.next]
    IN  from[head.next]

-----------------------------------------------------------------------------
(* Properties                                                              *)

\* Exactly the bytes that were counted are written, the length in front is that
\* of what follows, and a reader gets back what was added, if no four byte
\* integer is 2^31 or more; the properties have their place in the array, and a
\* copy, which is made by adding, is the same list (MQTTProperties.c:71-138,
\* 140-224; the buffer is allocated at MQTTPacket.c:374-387).
PropertiesExact ==
    memory =>
        LET bytes == MQTTProperties_write(props)
            head == readVariable(bytes, 1)
        IN  /\ Len(bytes) = MQTTProperties_len(props)
            /\ head.value = Len(bytes) - (head.next - 1)
            /\ (\A i \in DOMAIN added : added[i].int >= 0) => readProperties(bytes) = added
            /\ Len(props.array) <= props.max_count
            /\ MQTTProperties_copy(props) = props
=============================================================================
