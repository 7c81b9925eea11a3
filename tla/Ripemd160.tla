------------------------------ MODULE Ripemd160 ------------------------------
(***************************************************************************)
(* ripemd160() of src/bryllite-core/ripemd160.cpp.  The code unrolls the   *)
(* two lines of 80 steps; the model keeps, per step, the message word and  *)
(* the rotation that the source line names, and rotates the roles of the   *)
(* five registers instead of writing them out.  The words are Sha256's.    *)
(***************************************************************************)
EXTENDS Sha256

ROL(w, n) == Or(Shl(w, n), Shr(w, 32 - n))

F(w1, w2, w3)  == Xor(Xor(w1, w2), w3)
G(w1, w2, w3)  == Or(And(w1, w2), And(Not(w1), w3))
H(w1, w2, w3)  == Xor(Or(w1, Not(w2)), w3)
IQ(w1, w2, w3) == Or(And(w1, w3), And(w2, Not(w3)))
J(w1, w2, w3)  == Xor(w1, Or(w2, Not(w3)))

\* The function of round r of the left line; the right line runs backwards.
RoundFunction(r, w1, w2, w3) ==
    CASE r = 1 -> F(w1, w2, w3) [] r = 2 -> G(w1, w2, w3) [] r = 3 -> H(w1, w2, w3)
      [] r = 4 -> IQ(w1, w2, w3) [] r = 5 -> J(w1, w2, w3)

LeftConstant  == <<<<0, 0>>, <<31129, 23170>>, <<60321, 28377>>, <<48348, 36635>>, <<64846, 43347>>>>
RightConstant == <<<<35814, 20642>>, <<53540, 23629>>, <<16115, 28016>>, <<30441, 31341>>, <<0, 0>>>>

\* X[...] of FF, GG, HH, II, JJ and their rotations, in the order of the lines.
LeftWord ==
    <<0, 1, 2, 3, 4, 5, 6, 7, 8, 9, 10, 11, 12, 13, 14, 15,
      7, 4, 13, 1, 10, 6, 15, 3, 12, 0, 9, 5, 2, 14, 11, 8,
      3, 10, 14, 4, 9, 15, 8, 1, 2, 7, 0, 6, 13, 11, 5, 12,
      1, 9, 11, 10, 0, 8, 12, 4, 13, 3, 7, 15, 14, 5, 6, 2,
      4, 0, 5, 9, 7, 12, 2, 10, 14, 1, 3, 8, 11, 6, 15, 13>>
LeftShift ==
    <<11, 14, 15, 12, 5, 8, 7, 9, 11, 13, 14, 15, 6, 7, 9, 8,
      7, 6, 8, 13, 11, 9, 7, 15, 7, 12, 15, 9, 11, 7, 13, 12,
      11, 13, 6, 7, 14, 9, 13, 15, 14, 8, 13, 6, 5, 12, 7, 5,
      11, 12, 14, 15, 14, 15, 9, 8, 9, 14, 5, 6, 8, 6, 5, 12,
      9, 15, 5, 11, 6, 8, 13, 12, 5, 12, 13, 14, 11, 8, 5, 6>>

\* X[...] of JJJ, III, HHH, GGG, FFF and their rotations.
RightWord ==
    <<5, 14, 7, 0, 9, 2, 11, 4, 13, 6, 15, 8, 1, 10, 3, 12,
      6, 11, 3, 7, 0, 13, 5, 10, 14, 15, 8, 12, 4, 9, 1, 2,
      15, 5, 1, 3, 7, 14, 6, 9, 11, 8, 12, 2, 10, 0, 4, 13,
      8, 6, 4, 1, 3, 11, 15, 0, 5, 12, 2, 13, 9, 7, 10, 14,
      12, 15, 10, 4, 1, 5, 8, 7, 6, 2, 13, 14, 0, 3, 9, 11>>
RightShift ==
    <<8, 9, 9, 11, 13, 15, 15, 5, 7, 7, 8, 11, 14, 14, 12, 6,
      9, 13, 15, 7, 12, 8, 9, 11, 7, 7, 12, 7, 6, 15, 13, 11,
      9, 7, 15, 11, 8, 6, 6, 14, 12, 13, 5, 14, 13, 13, 7, 5,
      15, 5, 8, 11, 14, 14, 6, 14, 6, 9, 12, 9, 12, 5, 15, 8,
      8, 5, 12, 9, 12, 5, 14, 6, 8, 13, 6, 5, 15, 13, 11, 11>>

\* One macro: <<a, b, c, d, e>> in the roles of the macro's parameters before,
\* in those of the next line after.
Step(v, f, word, const, s) ==
    LET sum == Add(Add(v[1], f), Add(word, const))
    IN  <<v[5], Add(ROL(sum, s), v[5]), v[2], ROL(v[3], 10), v[4]>>

Left(v, i, chunk) ==
    LET r == (i - 1) \div 16 + 1
    IN  Step(v, RoundFunction(r, v[2], v[3], v[4]), chunk[LeftWord[i] + 1],
             LeftConstant[r], LeftShift[i])

Right(v, i, chunk) ==
    LET r == (i - 1) \div 16 + 1
    IN  Step(v, RoundFunction(6 - r, v[2], v[3], v[4]), chunk[RightWord[i] + 1],
             RightConstant[r], RightShift[i])

compress(MDbuf, chunk) ==
    LET left(v, i)  == IF v = <<>> THEN v ELSE Left(v, i, chunk)
        right(v, i) == IF v = <<>> THEN v ELSE Right(v, i, chunk)
        l == Loop(left, MDbuf, 0, 10)
        r == Loop(right, MDbuf, 0, 10)
        third(w1, w2, w3) == Add(Add(w1, w2), w3)
    IN  <<third(MDbuf[2], l[3], r[4]), third(MDbuf[3], l[4], r[5]),
          third(MDbuf[4], l[5], r[1]), third(MDbuf[5], l[1], r[2]),
          third(MDbuf[1], l[2], r[3])>>

InitialDigest == <<<<8961, 26437>>, <<43913, 61389>>, <<56574, 39098>>, <<21622, 4146>>, <<57840, 50130>>>>

-----------------------------------------------------------------------------
VARIABLES
    msg_len,
    next,           \* chunks consumed by the first loop
    finished,           \* the last chunk was compressed
    digest,
    compressed        \* history: the chunks given to compress

ripemdVars == <<msg_len, next, finished, digest, compressed>>

msg == Message(msg_len)

\* Word j (from 1) of 64 bytes, the lowest byte first.
WordOf(bytes, j) == <<bytes[4*j - 3] + 256 * bytes[4*j - 2], bytes[4*j - 1] + 256 * bytes[4*j]>>

Chunk(bytes) == [j \in 1..16 |-> WordOf(bytes, j)] \o <<>>

ByteIn(w, v, pos) == Xor(w, Shl(<<v, 0>>, 8 * pos))

\* chunk[] after the bytes left over and the marker were xored into zeros.
Marked(rest, length) ==
    LET byte(i)  == IF i < Len(rest) THEN rest[i + 1] ELSE 0
        word(j)  == ByteIn(ByteIn(ByteIn(ByteIn(<<0, 0>>, byte(4*j), 0), byte(4*j + 1), 1),
                                  byte(4*j + 2), 2), byte(4*j + 3), 3)
        at       == (length \div 4) % 16
    IN  [j \in 1..16 |->
            IF j - 1 = at THEN Xor(word(at), Shl(<<1, 0>>, 8 * (length % 4) + 7))
                          ELSE word(j - 1)] \o <<>>

\* chunk[14] and chunk[15]: the bit length in two 32 bit words.
WithLength(chunk, length) ==
    LET w == <<length % LimbSize, length \div LimbSize>>
    IN  SubSeq(chunk, 1, 14) \o <<Shl(w, 3), Shr(w, 29)>>

ZeroChunk == [j \in 1..16 |-> <<0, 0>>] \o <<>>

LastChunks(rest, length) ==
    LET chunk == Marked(rest, length)
    IN  IF length % 64 > 55
        THEN <<chunk, WithLength(ZeroChunk, length)>>
        ELSE <<WithLength(chunk, length)>>

RipemdInit(lengths) ==
    /\ msg_len \in lengths
    /\ next = 0
    /\ finished = FALSE
    /\ digest = InitialDigest
    /\ compressed = <<>>

FullChunk ==
    /\ next < msg_len \div 64
    /\ LET chunk == Chunk(SubSeq(msg, 64 * next + 1, 64 * next + 64))
       IN  /\ digest' = compress(digest, chunk)
           /\ compressed' = Append(compressed, chunk)
    /\ next' = next + 1
    /\ UNCHANGED <<msg_len, finished>>

LastChunk ==
    /\ ~finished
    /\ next = msg_len \div 64
    /\ LET last == LastChunks(SubSeq(msg, 64 * next + 1, msg_len), msg_len)
       IN  /\ digest' = FoldLeft(compress, digest, last)
           /\ compressed' = compressed \o last
    /\ finished' = TRUE
    /\ UNCHANGED <<msg_len, next>>

RipemdNext == FullChunk \/ LastChunk

\* The twenty bytes written to hash.
hash == FlattenSeq([i \in 1..5 |-> LittleEndian(digest[i])])

-----------------------------------------------------------------------------
(* The padded message: the message, a one bit, zeros up to 56 bytes modulo 64
   and the bit length, the lowest byte first. *)
RipemdPadded ==
    LET zeros == CHOOSE z \in 0..63 : (msg_len + 1 + z) % 64 = 56
        bits  == msg_len * 8
        zero(n) == [i \in 1..n |-> 0]
    IN  msg \o <<128>> \o zero(zeros) \o <<bits % 256, bits \div 256, 0, 0, 0, 0, 0, 0>>

(* The chunks compressed are those of the padded message, also where the marker
   or the length falls into a chunk of its own. *)
CompressesPaddedMessage ==
    finished =>
        compressed = [k \in 1..(Len(RipemdPadded) \div 64) |-> Chunk(SubSeq(RipemdPadded, 64*k - 63, 64*k))]

(* Digests of the prefixes of the example: 0, 3 and 56 bytes are the published
   vectors of RIPEMD-160, the others come from an independent implementation
   that generates its tables from the permutations of the standard. *)
KnownRipemd160(length) ==
    CASE length = 0 -> <<156, 17, 133, 165, 197, 233, 252, 84, 97, 40, 8, 151, 126, 232, 245, 72, 178, 37, 141, 49>>
    [] length = 3 -> <<142, 178, 8, 247, 224, 93, 152, 122, 155, 4, 74, 142, 152, 198, 176, 135, 241, 90, 11, 252>>
    [] length = 55 -> <<215, 19, 77, 41, 132, 198, 219, 64, 120, 188, 236, 159, 57, 49, 10, 7, 176, 65, 59, 140>>
    [] length = 56 -> <<18, 160, 83, 56, 74, 156, 12, 136, 228, 5, 160, 108, 39, 220, 244, 154, 218, 98, 235, 43>>
    [] length = 63 -> <<121, 142, 6, 93, 68, 86, 31, 221, 138, 38, 153, 87, 230, 247, 88, 132, 80, 146, 226, 111>>
    [] length = 64 -> <<30, 227, 187, 101, 138, 251, 253, 119, 149, 110, 144, 177, 235, 185, 33, 150, 34, 203, 125, 224>>
    [] length = 119 -> <<2, 49, 88, 54, 121, 91, 118, 214, 41, 135, 58, 179, 40, 193, 223, 68, 40, 110, 114, 250>>
    [] length = 120 -> <<31, 140, 152, 192, 55, 104, 7, 44, 124, 63, 31, 50, 94, 98, 12, 144, 250, 219, 137, 51>>

(* The digest is RIPEMD-160 of the message: none of the 160 unrolled lines names
   a wrong register, word, rotation or constant. *)
RipemdDigestRight == finished /\ msg_len \in KnownLengths => hash = KnownRipemd160(msg_len)
=============================================================================
