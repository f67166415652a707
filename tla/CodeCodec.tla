------------------------------ MODULE CodeCodec ------------------------------
(***************************************************************************)
(* The code of a cart, compressed into it and read back out: code.cpp.     *)
(* A text is a sequence of bytes; the pxa stream is a sequence of bits and *)
(* the older format one of bytes.  The search of the suffix array for      *)
(* earlier copies is modelled by what it finds.  A loop of the code is a   *)
(* function of the number of its rounds.                                   *)
(***************************************************************************)
EXTENDS Integers, Sequences, FiniteSetsExt

CONSTANTS
    Words,                  \* what the text grows by: sequences of bytes
    MaxWords, MaxLength     \* bounds: words and bytes in a text

\* A NUL would end the text, and the header has two bytes for its length.
Char == 1 .. 255
ASSUME CodecWords == Words \subseteq Seq(Char)
ASSUME CodecBounds == MaxWords \in Nat /\ MaxLength \in 0 .. 65535

\* The bytes the older format has a code for, in the order of their codes.
DecompressLut == <<10, 32>> \o [k \in 1 .. 10 |-> 47 + k] \o [k \in 1 .. 26 |-> 96 + k]
           \o <<33, 35, 37, 40, 41, 123, 125, 91, 93, 60, 62, 43, 61, 47, 42, 58, 59, 46, 44, 126, 95>>
CodeSize == 15616     \* sizeof(code_t)

Shorter(a, b) == IF a < b THEN a ELSE b
Longer(a, b) == IF a > b THEN a ELSE b

\* 1 << k
Shift(k) == <<1, 2, 4, 8, 16, 32, 64, 128, 256, 512, 1024, 2048, 4096, 8192, 16384, 32768, 65536, 131072,
              262144, 524288, 1048576, 2097152, 4194304, 8388608, 16777216>>[k + 1]
-----------------------------------------------------------------------------
(* Move to front: the 256 bytes, the most recent first, and the places the *)
(* moves that can be undone came from, the last move first.                *)

FreshMtf == [list |-> [n \in 1 .. 256 |-> n - 1], ops |-> << >>]

Find(list, b) == CHOOSE n \in 0 .. 255 : list[n + 1] = b

\* get: the byte at place n moves to the front.
Rotate(list, n) == <<list[n + 1]>> \o SubSeq(list, 1, n) \o SubSeq(list, n + 2, 256)

PushOp(m, b) == [list |-> Rotate(m.list, Find(m.list, b)), ops |-> <<Find(m.list, b)>> \o m.ops]

PopOp(m) ==
    LET n == Head(m.ops)
    IN  [list |-> SubSeq(m.list, 2, n + 1) \o <<m.list[1]>> \o SubSeq(m.list, n + 2, 256), ops |-> Tail(m.ops)]
-----------------------------------------------------------------------------
(* pxa: the cheapest path through the text, in tenths of a bit.            *)

CompressBits(n) == IF n < 16 THEN 4 ELSE IF n < 48 THEN 5 ELSE IF n < 112 THEN 6 ELSE IF n < 240 THEN 7 ELSE 8

Unreached == 2147483647     \* INT_MAX
\* Node i of the graph is element i + 1 of a sequence.
FreshNode == [length |-> 0, offset |-> 0, weight |-> Unreached, prev |-> -1,
              maxStart |-> 0, maxSum |-> 0, minSum |-> 0]

AddVertex(nodes, i, len, offset, cost) ==
    IF nodes[i + 1].weight + cost < nodes[i + len + 1].weight
    THEN [nodes EXCEPT ![i + len + 1] = [@ EXCEPT !.weight = nodes[i + 1].weight + cost, !.prev = i,
                                                  !.length = len, !.offset = offset]]
    ELSE nodes

\* Byte i of the text was written on its own on the best way to it.
Single(nodes, i) == i = nodes[i + 1].prev + 1

\* One step from i towards the origin: on the best way there, keeping the nodes of it,
\* while that is ahead, and back over the moves otherwise.
StepBack(nodes, i, u) ==
    IF u.left = u.right THEN u
    ELSE IF u.left > u.right
    THEN [u EXCEPT !.left = nodes[u.left + 1].prev, !.back = <<u.left>> \o @]
    ELSE IF Single(nodes, u.right)
    THEN [u EXCEPT !.right = u.right - 1, !.mtf = PopOp(@)]
    ELSE [u EXCEPT !.right = nodes[u.right + 1].prev]

\* The moves on the way to i - 1 undone, back to where the best way to i leaves it.
Unwind(nodes, i, m) ==
    LET round[k \in 0 .. 2 * i] ==
            IF k = 0 THEN [left |-> i, right |-> i - 1, mtf |-> PopOp(m), back |-> << >>]
            ELSE StepBack(nodes, i, round[k - 1])
    IN  round[2 * i]

\* The moves on the rest of the way to i made.
Replay(text, node, back, m) ==
    LET round[k \in 0 .. Len(back)] ==
            IF k = 0 THEN [node |-> node, mtf |-> m]
            ELSE LET r == round[k - 1]
                 IN  [node |-> back[k],
                      mtf |-> IF back[k] = r.node + 1 THEN PushOp(r.mtf, text[r.node + 1]) ELSE r.mtf]
    IN  round[Len(back)].mtf

\* Mutant: the moves of the best way are made on top of those of the way to i - 1.
KeepMtf(text, nodes, i, m) ==
    IF i = 0 \/ Single(nodes, i) THEN m
    ELSE LET u == Unwind(nodes, i, m) IN Replay(text, u.left, u.back, m)

\* The list as it is on the best way to i, from the list on the way to i - 1 and byte i.
Rollback(text, nodes, i, m) ==
    IF i = 0 \/ Single(nodes, i) THEN m
    ELSE LET u == Unwind(nodes, i, m) IN Replay(text, u.left, u.back, u.mtf)

\* The largest gain of bytes as they are over the way found, ending at i, and a
\* stored block when it has grown large enough.
Gain(text, nodes, i) ==
    LET cur == nodes[i + 1]
        from == nodes[cur.prev + 1]
        delta == (cur.weight - from.weight) - 80 * (i - cur.prev)
        least == Shorter(0, from.minSum + delta)
        sum == Longer(0, from.maxSum + delta)
        start == IF from.maxSum + delta > 0 THEN from.maxStart ELSE i
        kept == IF least < -210 THEN 0 ELSE sum
        counted == [nodes EXCEPT ![i + 1] = [@ EXCEPT !.maxStart = start, !.maxSum = kept, !.minSum = least]]
        count == i + 1 - start
    IN  IF i = 0 THEN nodes
        ELSE IF kept >= 160 /\ i + 1 < Len(text)
        THEN AddVertex(counted, start, count, -1, 210 + 80 * count + 1000 \div count)
        ELSE counted

\* The common prefix of the text from i and from j.
Common(text, i, j) ==
    CHOOSE k \in 0 .. Len(text) - i :
        /\ \A h \in 1 .. k : text[i + h] = text[j + h]
        /\ k = Len(text) - i \/ text[i + k + 1] # text[j + k + 1]

\* The longest earlier copy near, at a distance, and far: what the walk over the
\* suffix array tries, in order of falling length, until a near one is found.
Copies(text, i) ==
    {c \in {[offset |-> i - j, len |-> Common(text, i, j)] : j \in Longer(0, i - 32768) .. i - 1} :
        c.len >= 3}
RefClass(offset) == IF offset > 1024 THEN 3 ELSE IF offset > 32 THEN 2 ELSE 1
RefCost(offset) == <<110, 160, 200>>[RefClass(offset)]
References(text, i) ==
    LET copies == Copies(text, i)
    IN  {c \in copies : \A d \in copies :
            RefClass(d.offset) <= RefClass(c.offset) =>
                \/ d.len < c.len
                \/ d.len = c.len /\ d.offset >= c.offset}

\* A reference of the length found, and of the seven lengths below it; for each
\* length the cheapest is what counts in the end.
Offers(refs, len) == {r \in refs : len \in Longer(3, r.len - 7) .. r.len}
Cheapest(refs) == CHOOSE r \in refs : \A x \in refs : RefCost(r.offset) <= RefCost(x.offset)
AddReference(nodes, i, refs, len) ==
    IF Offers(refs, len) = {} THEN nodes[i + len + 1]
    ELSE LET offset == Cheapest(Offers(refs, len)).offset
         IN  AddVertex(nodes, i, len, offset, RefCost(offset) + ((len - 3) \div 7) * 30)[i + len + 1]
AddReferences(nodes, i, refs) ==
    SubSeq(nodes, 1, i + 1) \o [len \in 1 .. Len(nodes) - i - 1 |-> AddReference(nodes, i, refs, len)]

\* The ways on from the first i bytes.
Relax(text, i, r) ==
    LET here == Rollback(text, r.nodes, i, r.mtf)
        one == AddVertex(Gain(text, r.nodes, i), i, 1, -1, 20 * CompressBits(Find(here.list, text[i + 1])) - 20)
    IN  [r EXCEPT !.nodes = AddReferences(one, i, References(text, i)), !.mtf = PushOp(here, text[i + 1])]

\* The graph, and the list of bytes, after each byte of the text.
Relaxed(text) ==
    LET round[i \in 0 .. Len(text)] ==
            IF i = 0
            THEN [nodes |-> <<[FreshNode EXCEPT !.weight = 0]>> \o [n \in 1 .. Len(text) |-> FreshNode],
                  mtf |-> FreshMtf]
            ELSE Relax(text, i - 1, round[i - 1])
    IN  round

Graph(text) == Relaxed(text)[Len(text)].nodes
-----------------------------------------------------------------------------
(* The stream.                                                             *)

\* The lowest bit first.
PutBits(count, n) == [k \in 1 .. count |-> (n \div Shift(k - 1)) % 2]

\* Numbers of width bits each.
Fields(width, values) ==
    [k \in 1 .. width * Len(values) |-> (values[(k - 1) \div width + 1] \div Shift((k - 1) % width)) % 2]

\* Mutant: a length that is a multiple of seven is not ended.
LengthUnended(len) == Fields(3, [g \in 1 .. (len + 6) \div 7 |-> Shorter(len - 7 * (g - 1), 7)])

\* A length is written in sevens; the first group below seven ends it.
LengthBits(len) == Fields(3, [g \in 1 .. (len \div 7) + 1 |-> Shorter(len - 7 * (g - 1), 7)])

\* The way into node i, on a list as it is before it: a byte, a stored block, or a
\* reference back.
ByteBits(n) ==
    LET bits == CompressBits(n)
    IN  PutBits(bits - 2, Shift(bits - 3) - 1) \o PutBits(bits, n - Shift(bits) + 16)

BlockBits(block) == PutBits(13, 2) \o Fields(8, block) \o PutBits(8, 0)

OffsetBits(off) ==
    IF off < 32 THEN PutBits(8, 6 + 8 * off)
    ELSE IF off < 1024 THEN PutBits(13, 2 + 8 * off)
    ELSE PutBits(17, 4 * off)

Piece(text, nodes, i, list) ==
    LET t == nodes[i + 1]
    IN  IF t.length = 1 THEN ByteBits(Find(list, text[t.prev + 1]))
        ELSE IF t.offset = -1 THEN BlockBits(SubSeq(text, t.prev + 1, t.prev + t.length))
        ELSE OffsetBits(t.offset - 1) \o LengthBits(t.length - 3)

\* What is written on the best way to each node, and the list of bytes there.
Onward(text, nodes, i, from) ==
    LET t == nodes[i + 1]
    IN  [bits |-> from.bits \o Piece(text, nodes, i, from.list),
         list |-> IF t.length = 1 THEN Rotate(from.list, Find(from.list, text[t.prev + 1])) ELSE from.list]

Written(text, nodes) ==
    LET written[i \in 0 .. Len(nodes) - 1] ==
            IF i = 0 THEN <<[bits |-> << >>, list |-> FreshMtf.list]>>
            ELSE LET before == written[i - 1]
                 IN  Append(before, Onward(text, nodes, i, before[nodes[i + 1].prev + 1]))
    IN  written[Len(nodes) - 1]

PxaCompress(text) ==
    LET nodes == Graph(text)
        bits == Written(text, nodes)[Len(nodes)].bits
    IN  [format |-> "pxa", length |-> Len(text) % 65536, size |-> 8 + (Len(bits) + 7) \div 8, bits |-> bits]

\* Past what was written there are zeroes.
BitAt(bits, pos) == IF pos <= Len(bits) THEN bits[pos] ELSE 0
GetBits(bits, pos, count) ==
    LET number[k \in 0 .. count] == IF k = 0 THEN 0 ELSE 2 * number[k - 1] + BitAt(bits, pos + count - k)
    IN  number[count]

\* The bits before the first 0, the bytes before the first 0, the groups before the
\* first that is not 7.
Ones(bits, pos) ==
    CHOOSE k \in 0 .. Len(bits) : BitAt(bits, pos + k) = 0 /\ \A h \in 0 .. k - 1 : BitAt(bits, pos + h) = 1
RawLength(bits, pos) ==
    CHOOSE k \in 0 .. Len(bits) :
        GetBits(bits, pos + 8 * k, 8) = 0 /\ \A h \in 0 .. k - 1 : GetBits(bits, pos + 8 * h, 8) # 0
Sevens(bits, pos) ==
    CHOOSE k \in 0 .. Len(bits) :
        GetBits(bits, pos + 3 * k, 3) # 7 /\ \A h \in 0 .. k - 1 : GetBits(bits, pos + 3 * h, 3) = 7

\* A copy may reach into what it writes.
CopyBack(text, offset, len) ==
    LET grown[k \in 0 .. len] ==
            IF k = 0 THEN text
            ELSE LET before == grown[k - 1] IN Append(before, before[Len(text) + k - offset])
    IN  grown[len]

\* What has been read of a stream: up to pos, unless it made no sense.
Reading(pos, list, text) == [pos |-> pos, list |-> list, text |-> text, going |-> TRUE]
Stopped(s) == [s EXCEPT !.going = FALSE]

ReadByte(bits, s) ==
    LET ones == Ones(bits, s.pos + 1)
        nbits == 4 + ones
        n == GetBits(bits, s.pos + ones + 2, nbits) + Shift(nbits) - 16
        list == Rotate(s.list, n)
    IN  IF nbits > 24 \/ n >= 256 \/ list[1] = 0 THEN Stopped(s)
        ELSE Reading(s.pos + ones + 2 + nbits, list, Append(s.text, list[1]))

ReadBlock(bits, s, pos) ==
    LET count == RawLength(bits, pos)
    IN  Reading(pos + 8 * (count + 1), s.list,
                s.text \o [h \in 1 .. count |-> GetBits(bits, pos + 8 * (h - 1), 8)])

\* A reference to outside what was read ends the reading.
ReadReference(bits, s, pos, offset) ==
    LET sevens == Sevens(bits, pos)
        len == 3 + 7 * sevens + GetBits(bits, pos + 3 * sevens, 3)
    IN  IF offset > Len(s.text) THEN Stopped(s)
        ELSE Reading(pos + 3 * (sevens + 1), s.list, CopyBack(s.text, offset, len))

ReadBack(bits, s) ==
    LET nbits == IF GetBits(bits, s.pos + 1, 1) = 0 THEN 15
                 ELSE IF GetBits(bits, s.pos + 2, 1) = 1 THEN 5 ELSE 10
        start == IF nbits = 15 THEN s.pos + 2 ELSE s.pos + 3
        offset == GetBits(bits, start, nbits) + 1
    IN  IF nbits = 10 /\ offset = 1 THEN ReadBlock(bits, s, start + nbits)
        ELSE ReadReference(bits, s, start + nbits, offset)

\* The last bit of the last byte.
StreamEnd(c) == 8 * ((c.size % 65536) - 8)

ReadChunk(c, s) ==
    IF ~s.going \/ Len(s.text) >= c.length \/ s.pos > StreamEnd(c) THEN s
    ELSE IF GetBits(c.bits, s.pos, 1) = 1 THEN ReadByte(c.bits, s)
    ELSE ReadBack(c.bits, s)

\* A chunk that is read to its end takes six bits.
ReadPxa(c) ==
    LET round[k \in 0 .. StreamEnd(c) \div 6 + 1] ==
            IF k = 0 THEN Reading(1, FreshMtf.list, << >>)
            ELSE ReadChunk(c, round[k - 1])
    IN  round[StreamEnd(c) \div 6 + 1].text
-----------------------------------------------------------------------------
(* The older format.                                                       *)

\* The last of the longest earlier copies that do not reach into the text itself.
OldCommon(text, i, j) ==
    Max({k \in 0 .. Shorter(Shorter(Len(text) - j, 17), i - j) :
            \A h \in 1 .. k : i + h <= Len(text) /\ text[j + h] = text[i + h]})
OldCopy(text, i) ==
    LET froms == Longer(i - 3135, 0) .. i - 1
        best == Max({OldCommon(text, i, j) : j \in froms})
    IN  IF froms = {} THEN [from |-> 0, len |-> 0]
        ELSE [from |-> Max({j \in froms : OldCommon(text, i, j) = best}), len |-> best]

\* compress_lut, for the bytes that have a code.
Codes(b) == {k \in 1 .. 59 : DecompressLut[k] = b}

OldChunk(text, e) ==
    LET copy == OldCopy(text, e.i)
        b == text[e.i + 1]
        back == e.i - copy.from
    IN  IF e.i >= Len(text) THEN e
        ELSE IF Codes(b) # {} /\ copy.len <= 2
        THEN [i |-> e.i + 1, bytes |-> Append(e.bytes, CHOOSE k \in Codes(b) : TRUE)]
        ELSE IF copy.len >= 2
        THEN [i |-> e.i + copy.len,
              bytes |-> e.bytes \o <<60 + back \div 16, (back % 16) + (copy.len - 2) * 16>>]
        ELSE [i |-> e.i + 1, bytes |-> e.bytes \o <<0, b>>]

\* The bytes after each round of the loop, which takes a byte of the text or more.
OldWritten(text) ==
    LET round[k \in 0 .. Len(text)] ==
            IF k = 0 THEN [i |-> 0, bytes |-> << >>] ELSE OldChunk(text, round[k - 1])
    IN  round

LegacyCompress(text) ==
    LET bytes == OldWritten(text)[Len(text)].bytes
    IN  [format |-> "legacy", length |-> Len(text) % 65536, size |-> 8 + Len(bytes), bytes |-> bytes]

ReadOldChunk(c, s) ==
    LET a == c.bytes[s.i]
        b == c.bytes[s.i + 1]
        back == (a - 60) * 16 + (b % 16)
    IN  IF Len(s.text) >= c.length \/ s.i > Len(c.bytes) \/ s.i + 7 >= CodeSize THEN s
        ELSE IF a >= 60
        THEN [i |-> s.i + 2, text |-> IF Len(s.text) >= back THEN CopyBack(s.text, back, b \div 16 + 2) ELSE s.text]
        ELSE IF a > 0 THEN [i |-> s.i + 1, text |-> Append(s.text, DecompressLut[a])]
        ELSE [i |-> s.i + 2, text |-> Append(s.text, b)]

\* As a C string, a text ends before its first 0.
CString(bytes) ==
    LET nuls == {k \in DOMAIN bytes : bytes[k] = 0}
    IN  IF nuls = {} THEN bytes ELSE SubSeq(bytes, 1, Min(nuls) - 1)

\* The expression "junk", whose parentheses group and match nothing: a head, any of
\* some bytes, and a tail at the end of the text.
Update60 == <<95, 117, 112, 100, 97, 116, 101, 54, 48>>
JunkHead == <<105, 102>> \o Update60 \o SubSeq(Update60, 1, 7)
              \o <<61, 102, 117, 110, 99, 116, 105, 111, 110>> \o Update60
JunkBody == {40, 41, 95, 97, 98, 100, 101, 110, 111, 112, 115, 116, 117}
JunkTail == Update60 \o <<101, 110, 100>>

\* Where a match starts.
Junk(text) ==
    {i \in 0 .. Len(text) - Len(JunkHead) - Len(JunkTail) :
        /\ SubSeq(text, i + 1, i + Len(JunkHead)) = JunkHead
        /\ \A k \in i + Len(JunkHead) + 1 .. Len(text) - Len(JunkTail) : text[k] \in JunkBody
        /\ SubSeq(text, Len(text) - Len(JunkTail) + 1, Len(text)) = JunkTail}
WithoutJunk(text) == IF Junk(text) = {} THEN text ELSE SubSeq(text, 1, Min(Junk(text)))

ReadOld(c) ==
    LET round[k \in 0 .. Len(c.bytes)] ==
            IF k = 0 THEN [i |-> 1, text |-> << >>] ELSE ReadOldChunk(c, round[k - 1])
    IN  WithoutJunk(CString(round[Len(c.bytes)].text))
-----------------------------------------------------------------------------
\* format::store.
AsItIs(text) == [format |-> "store", length |-> Len(text), size |-> Len(text) + 1, bytes |-> Append(text, 0)]

\* format::best: the smaller of the two, and the text itself when both are larger.
Best(text) ==
    LET old == LegacyCompress(text)
        new == PxaCompress(text)
        smaller == IF new.size < old.size THEN new ELSE old
    IN  IF smaller.size <= Len(text) THEN smaller ELSE AsItIs(text)

\* The format is told by the first bytes, which no text of a cart begins with.
Decompress(c) ==
    IF c.format = "pxa" THEN ReadPxa(c)
    ELSE IF c.format = "legacy" THEN ReadOld(c)
    ELSE SubSeq(CString(c.bytes), 1, Shorter(Len(CString(c.bytes)), CodeSize))
-----------------------------------------------------------------------------
(* Every text of a few words.                                              *)

VARIABLES text, words

CodecInit == text = << >> /\ words = 0

\* A cart is saved with a longer text.
Write(w) ==
    /\ words < MaxWords /\ Len(text \o w) <= MaxLength
    /\ words' = words + 1
    /\ text' = text \o w

CodecNext == \E w \in Words : Write(w)
CodecSpec == CodecInit /\ [][CodecNext]_<<text, words>>

\* What is read is what was written, in each format and in the one that is picked
\* by size, when it fits the cart: the two sides agree on every class of reference,
\* on the end of a length, on a stored block among the others, and on the list of
\* recent bytes, which neither moves for a reference or a block.  The older format
\* is read without a last line that looks like one PICO-8 added.
RoundTrip ==
    \A c \in {PxaCompress(text), LegacyCompress(text), Best(text)} :
        c.size <= CodeSize =>
            Decompress(c) = IF c.format = "legacy" THEN WithoutJunk(text) ELSE text

\* The path is the cheapest only if the costs are those of the bits: the way into a
\* node that is not a stored block, whose cost has a penalty, costs ten times the
\* bits that are written for it.  The cost of a byte depends on the list of
\* recent bytes on the best path, which the search has to restore each time the
\* best path changes ("This is the correct cost because we properly rolled back
\* the MtF state just before").
CostIsReal ==
    LET nodes == Graph(text)
        written == Written(text, nodes)
        stored(t) == t.length > 1 /\ t.offset = -1
    IN  \A i \in 1 .. Len(text) :
            LET t == nodes[i + 1]
            IN  ~stored(t) =>
                    t.weight - nodes[t.prev + 1].weight = 10 * Len(Piece(text, nodes, i, written[t.prev + 1].list))
=============================================================================
