------------------------------- MODULE Sha256 -------------------------------
(***************************************************************************)
(* The hasher hash256_one_by_one of src/bryllite-core/sha256.hpp: a caller *)
(* feeds a message in pieces with process(), then finish() pads what is    *)
(* left in the buffer and get_hash_bytes() reads the digest.  word_t is    *)
(* `unsigned long', 64 bits on Linux and 32 on Windows: the number of limbs*)
(* is a constant, and the code masks only where it wants 32 bits.          *)
(***************************************************************************)
EXTENDS Naturals, Sequences, SequencesExt

CONSTANTS
    MaxLength,      \* bound: bytes of a message
    WordLimbs,      \* 2: word_t has 32 bits; 4: it has 64
    Pieces,         \* lengths of the ranges given to process()
    DigitBits,      \* bits of a digit where the length is checked alone
    LongPieces, MaxTotal    \* the pieces there, bound: bytes of a message

ASSUME LengthAssumption == MaxLength \in Nat

ASSUME Sha256Assumption ==
    /\ WordLimbs \in {2, 4}
    /\ Pieces \subseteq Nat /\ LongPieces \subseteq Nat /\ MaxTotal \in Nat
    /\ DigitBits \in {d \in 4..16 : d % 2 = 0}

(***************************************************************************)
(* The unsigned machine words on which sha256.hpp and ripemd160.cpp work.  *)
(* A word is a sequence of 16 bit limbs, the lowest first: two limbs for a *)
(* uint32_t, four for the `unsigned long' of a 64 bit Linux build.  All    *)
(* operators keep the number of limbs, so what leaves the top is lost, as  *)
(* in C.                                                                   *)
(***************************************************************************)

LimbSize == 65536

Bit(v, i) == (v \div 2^i) % 2

\* Bitwise tables on bytes, indexed from 1.
ByteTable(f) ==
    [u \in 1..256 |-> [v \in 1..256 |->
        LET bit(i) == f[Bit(u - 1, i) + 1][Bit(v - 1, i) + 1] * 2^i
        IN  bit(0) + bit(1) + bit(2) + bit(3) + bit(4) + bit(5) + bit(6) + bit(7)]
            \o <<>>] \o <<>>

AndBytes == ByteTable(<<<<0, 0>>, <<0, 1>>>>)
XorBytes == ByteTable(<<<<0, 1>>, <<1, 0>>>>)

Limbwise(table, w1, w2) ==
    [k \in 1..Len(w1) |->
        table[(w1[k] % 256) + 1][(w2[k] % 256) + 1]
        + 256 * table[(w1[k] \div 256) + 1][(w2[k] \div 256) + 1]] \o <<>>

And(w1, w2) == Limbwise(AndBytes, w1, w2)
Xor(w1, w2) == Limbwise(XorBytes, w1, w2)
Not(w)      == [k \in 1..Len(w) |-> LimbSize - 1 - w[k]] \o <<>>
Or(w1, w2)  == Not(And(Not(w1), Not(w2)))

\* The carry into limb k + 1 of a sum.
Add(w1, w2) ==
    LET carry[k \in 0..Len(w1)] ==
            IF k = 0 THEN 0 ELSE (w1[k] + w2[k] + carry[k - 1]) \div LimbSize
    IN  [k \in 1..Len(w1) |-> (w1[k] + w2[k] + carry[k - 1]) % LimbSize] \o <<>>

LimbAt(w, k) == IF k \in 1..Len(w) THEN w[k] ELSE 0

Shl(w, n) ==
    LET q == n \div 16
        r == n % 16
    IN  [k \in 1..Len(w) |->
            ((LimbAt(w, k - q) * 2^r) % LimbSize)
            + (LimbAt(w, k - q - 1) \div 2^(16 - r))] \o <<>>

Shr(w, n) ==
    LET q == n \div 16
        r == n % 16
    IN  [k \in 1..Len(w) |->
            (LimbAt(w, k + q) \div 2^r)
            + ((LimbAt(w, k + q + 1) % 2^r) * 2^(16 - r))] \o <<>>

\* The word whose 32 low bits are hi * 2^16 + lo, on n limbs.
Word(n, hi, lo) == [k \in 1..n |-> CASE k = 1 -> lo [] k = 2 -> hi [] OTHER -> 0] \o <<>>

\* The bytes of the low 32 bits, the most significant first.
BigEndian(w) == <<w[2] \div 256, w[2] % 256, w[1] \div 256, w[1] % 256>>
LittleEndian(w) == <<w[1] % 256, w[1] \div 256, w[2] % 256, w[2] \div 256>>

\* A loop of 8 * n turns for i = from + 1, from + 2, ..., nested so that TLC's
\* evaluation stays shallow.  A turn must look at its first argument.
Loop(turn(_, _), start, from, n) ==
    LET eight(v, k) == IF v = <<>> THEN v
                       ELSE FoldLeft(turn, v, [i \in 1..8 |-> from + 8 * k + i - 8])
    IN  FoldLeft(eight, start, [k \in 1..n |-> k])

(***************************************************************************)
(* The messages hashed, and the prefixes whose digests are known.          *)
(***************************************************************************)

\* The message: prefixes of the two-block example of FIPS 180, repeated.
Example ==
    <<97, 98, 99, 100, 98, 99, 100, 101, 99, 100, 101, 102, 100, 101,
      102, 103, 101, 102, 103, 104, 102, 103, 104, 105, 103, 104, 105, 106,
      104, 105, 106, 107, 105, 106, 107, 108, 106, 107, 108, 109, 107, 108,
      109, 110, 108, 109, 110, 111, 109, 110, 111, 112, 110, 111, 112, 113>>

MessageByte(i) == Example[((i - 1) % 56) + 1]

Message(n) == [i \in 1..n |-> MessageByte(i)] \o <<>>

KnownLengths == {0, 3, 55, 56, 63, 64, 119, 120}

(***************************************************************************)
(* hash256_one_by_one                                                      *)
(***************************************************************************)

Wd(pair) == Word(WordLimbs, pair[1], pair[2])

add_constant == [i \in 1..64 |-> Wd(<<
      <<17034, 12184>>, <<28983, 17553>>, <<46528, 64463>>, <<59829, 56229>>,
      <<14678, 49755>>, <<23025, 4593>>, <<37439, 33444>>, <<43804, 24277>>,
      <<55303, 43672>>, <<4739, 23297>>, <<9265, 34238>>, <<21772, 32195>>,
      <<29374, 23924>>, <<32990, 45566>>, <<39900, 1703>>, <<49563, 61812>>,
      <<58523, 27073>>, <<61374, 18310>>, <<4033, 40390>>, <<9228, 41420>>,
      <<11753, 11375>>, <<19060, 33962>>, <<23728, 43484>>, <<30457, 35034>>,
      <<38974, 20818>>, <<43057, 50797>>, <<45059, 10184>>, <<48985, 32711>>,
      <<50912, 3059>>, <<54695, 37191>>, <<1738, 25425>>, <<5161, 10599>>,
      <<10167, 2693>>, <<11803, 8504>>, <<19756, 28156>>, <<21304, 3347>>,
      <<25866, 29524>>, <<30314, 2747>>, <<33218, 51502>>, <<37490, 11397>>,
      <<41663, 59553>>, <<43034, 26187>>, <<49739, 35696>>, <<51052, 20899>>,
      <<53650, 59417>>, <<54937, 1572>>, <<62478, 13701>>, <<4202, 41072>>,
      <<6564, 49430>>, <<7735, 27656>>, <<10056, 30540>>, <<13488, 48309>>,
      <<14620, 3251>>, <<20184, 43594>>, <<23452, 51791>>, <<26670, 28659>>,
      <<29839, 33518>>, <<30885, 25455>>, <<33992, 30740>>, <<36039, 520>>,
      <<37054, 65530>>, <<42064, 27883>>, <<48889, 41975>>, <<50801, 30962>> >>[i])] \o <<>>

initial_message_digest == [i \in 1..8 |-> Wd(<<
      <<27145, 58983>>, <<47975, 44677>>, <<15470, 62322>>, <<42319, 62778>>,
      <<20750, 21119>>, <<39685, 26764>>, <<8067, 55723>>, <<23520, 52505>> >>[i])] \o <<>>

mask_32bit(w) == [k \in 1..WordLimbs |-> IF k <= 2 THEN w[k] ELSE 0] \o <<>>

ch(w1, w2, w3) == Xor(And(w1, w2), And(Not(w1), w3))

maj(w1, w2, w3) == Xor(Xor(And(w1, w2), And(w1, w3)), And(w2, w3))

rotr(w, n) == mask_32bit(Or(Shr(w, n), Shl(w, 32 - n)))

bsig0(w) == Xor(Xor(rotr(w, 2), rotr(w, 13)), rotr(w, 22))
bsig1(w) == Xor(Xor(rotr(w, 6), rotr(w, 11)), rotr(w, 25))
ssig0(w) == Xor(Xor(rotr(w, 7), rotr(w, 18)), Shr(w, 3))
ssig1(w) == Xor(Xor(rotr(w, 17), rotr(w, 19)), Shr(w, 10))

\* The message schedule w[0..63] of a block of 64 bytes (indexed from 1).
Schedule(block) ==
    LET first16 == [i \in 1..16 |->
                      Wd(<<256 * block[4*i - 3] + block[4*i - 2],
                           256 * block[4*i - 1] + block[4*i]>>)] \o <<>>
        extend(w, i) == IF Len(w) < 16 THEN <<>> ELSE
            Append(w, mask_32bit(Add(Add(ssig1(w[i - 2]), w[i - 7]),
                                     Add(ssig0(w[i - 15]), w[i - 16]))))
    IN  Loop(extend, first16, 16, 6)

\* One turn of the loop over the eight working variables a, b, ..., h.
Turn(v, i, w) ==
    LET temp1 == Add(Add(Add(v[8], bsig1(v[5])), Add(ch(v[5], v[6], v[7]), add_constant[i])), w[i])
        temp2 == Add(bsig0(v[1]), maj(v[1], v[2], v[3]))
    IN  <<mask_32bit(Add(temp1, temp2)), v[1], v[2], v[3],
          mask_32bit(Add(v[4], temp1)), v[5], v[6], v[7]>>

hash256_block(digest, block) ==
    LET w == Schedule(block)
        turn(v, i) == IF Len(v) = 8 THEN Turn(v, i, w) ELSE <<>>
        v == Loop(turn, digest, 0, 8)
    IN  [i \in 1..8 |-> mask_32bit(Add(digest[i], v[i]))] \o <<>>

\* get_hash_bytes: the 32 bytes of the digest.
get_hash_bytes(digest) == FlattenSeq([i \in 1..8 |-> BigEndian(digest[i])])

-----------------------------------------------------------------------------
(* The message length: a 64 bit integer kept as four digits of 16 bits, the*)
(* lowest first, in words that are wider than a digit.  The width of a     *)
(* digit is a parameter, a byte is half a digit.                           *)

DigitBase(bits) == 2^bits

\* add_to_data_length: n is added to the lowest digit, the excess moves up.
\* The loop stops at the first digit that needs no carry.
add_to_data_length(bits, digits, n) ==
    LET sum[i \in 1..4] == digits[i] + (IF i = 1 THEN n ELSE sum[i - 1] \div DigitBase(bits))
    IN  [i \in 1..4 |-> sum[i] % DigitBase(bits)] \o <<>>

\* write_data_bit_length: the digits times eight, most significant byte first.
write_data_bit_length(bits, digits) ==
    LET times8 == [i \in 1..4 |-> (digits[i] * 8 +
            (IF i = 1 THEN 0 ELSE digits[i - 1] \div 2^(bits - 3)))
            % DigitBase(bits)] \o <<>>
        half   == 2^(bits \div 2)
    IN  <<times8[4] \div half, times8[4] % half, times8[3] \div half, times8[3] % half,
          times8[2] \div half, times8[2] % half, times8[1] \div half, times8[1] % half>>

-----------------------------------------------------------------------------
VARIABLES
    taken,                  \* bytes of the message that were handed over
    buffer_,                \* bytes not yet hashed
    data_length_digits_,
    h_,
    absorbed,               \* history: the blocks given to hash256_block
    done                    \* finish() was called

shaVars == <<taken, buffer_, data_length_digits_, h_, absorbed, done>>

ShaInit ==
    /\ taken = 0
    /\ buffer_ = <<>>
    /\ data_length_digits_ = <<0, 0, 0, 0>>
    /\ h_ = initial_message_digest
    /\ absorbed = <<>>
    /\ done = FALSE

\* The full blocks at the head of bytes, in order.
Blocks(bytes) == [k \in 1..(Len(bytes) \div 64) |-> SubSeq(bytes, 64*k - 63, 64*k)] \o <<>>

\* process(first, last) with a range of n bytes.
process(n) ==
    /\ ~done
    /\ taken + n <= MaxLength
    /\ LET bytes == buffer_ \o [i \in 1..n |-> MessageByte(taken + i)]
           full  == Blocks(bytes)
       IN  /\ h_' = FoldLeft(hash256_block, h_, full)
           /\ absorbed' = absorbed \o full
           /\ buffer_' = SubSeq(bytes, 64 * Len(full) + 1, Len(bytes))
    /\ data_length_digits_' = add_to_data_length(16, data_length_digits_, n)
    /\ taken' = taken + n
    /\ UNCHANGED done

Zeros(n) == [i \in 1..n |-> 0]

\* Slip: the marker fits as long as one byte is left.
FinalBlocksLate(bytes, length) ==
    LET marked == bytes \o <<128>> \o Zeros(63 - Len(bytes))
    IN  IF Len(bytes) > 56
        THEN <<marked, Zeros(56) \o length>>
        ELSE <<SubSeq(marked, 1, 56) \o length>>

\* The blocks finish() makes of the bytes left and of the length's 8 bytes.
FinalBlocks(bytes, length) ==
    LET marked == bytes \o <<128>> \o Zeros(63 - Len(bytes))
    IN  IF Len(bytes) > 55
        THEN <<marked, Zeros(56) \o length>>
        ELSE <<SubSeq(marked, 1, 56) \o length>>

finish ==
    /\ ~done
    /\ LET last == FinalBlocks(buffer_, write_data_bit_length(16, data_length_digits_))
       IN  /\ h_' = FoldLeft(hash256_block, h_, last)
           /\ absorbed' = absorbed \o last
    /\ done' = TRUE
    /\ UNCHANGED <<taken, buffer_, data_length_digits_>>

ShaNext ==
    \/ \E n \in Pieces : process(n)
    \/ finish

(* The counter alone, with small digits, so that messages of every number  *)
(* of digits and pieces longer than several digits come up.                *)
VARIABLES total, total_digits

lengthVars == <<total, total_digits>>

LengthInit == total = 0 /\ total_digits = <<0, 0, 0, 0>>

ProcessLong(n) ==
    /\ total + n <= MaxTotal
    /\ total' = total + n
    /\ total_digits' = add_to_data_length(DigitBits, total_digits, n)

-----------------------------------------------------------------------------
(* The padded message of FIPS 180-4: the message, a one bit, zeros up to 56
   bytes modulo 64, the bit length on 64 bits. *)
ShaPadded(n) ==
    LET zeros == CHOOSE z \in 0..63 : (n + 1 + z) % 64 = 56
        bits  == n * 8
    IN  Message(n) \o <<128>> \o Zeros(zeros)
        \o <<0, 0, 0, 0, 0, (bits \div 65536) % 256, (bits \div 256) % 256, bits % 256>>

(* The blocks hashed depend on the message only, not on how it was cut into
   calls of process(): before finish() they are the full blocks of the bytes
   taken, after it those of the padded message, also where the marker or the
   length no longer fits in the last block (remains 55, 56, 63, 0). *)
AbsorbsPaddedMessage ==
    absorbed = IF done THEN Blocks(ShaPadded(taken)) ELSE Blocks(Message(taken))

(* The buffer never keeps a full block: finish() writes the marker at
   temp[remains], which is outside temp when remains is 64. *)
MarkerFits == Len(buffer_) < 64

(* Digests of the prefixes of the example: 0, 3 and 56 bytes are the published
   vectors of FIPS 180, the others come from an independent implementation. *)
KnownSha256(length) ==
    CASE length = 0 -> <<227, 176, 196, 66, 152, 252, 28, 20, 154, 251, 244, 200, 153, 111, 185, 36,
      39, 174, 65, 228, 100, 155, 147, 76, 164, 149, 153, 27, 120, 82, 184, 85>>
    [] length = 3 -> <<186, 120, 22, 191, 143, 1, 207, 234, 65, 65, 64, 222, 93, 174, 34, 35,
      176, 3, 97, 163, 150, 23, 122, 156, 180, 16, 255, 97, 242, 0, 21, 173>>
    [] length = 55 -> <<170, 53, 62, 0, 158, 219, 174, 191, 198, 228, 148, 200, 216, 71, 105, 104,
      150, 203, 139, 57, 142, 1, 115, 164, 181, 193, 182, 54, 41, 45, 135, 199>>
    [] length = 56 -> <<36, 141, 106, 97, 210, 6, 56, 184, 229, 192, 38, 147, 12, 62, 96, 57,
      163, 60, 228, 89, 100, 255, 33, 103, 246, 236, 237, 212, 25, 219, 6, 193>>
    [] length = 63 -> <<232, 0, 40, 206, 135, 87, 40, 194, 202, 252, 174, 183, 189, 168, 132, 119,
      110, 41, 144, 138, 172, 220, 77, 227, 89, 4, 84, 172, 190, 42, 27, 60>>
    [] length = 64 -> <<197, 221, 75, 126, 54, 84, 91, 180, 177, 205, 19, 236, 253, 114, 120, 134,
      133, 172, 24, 201, 14, 129, 28, 36, 94, 86, 151, 157, 22, 96, 185, 158>>
    [] length = 119 -> <<188, 46, 50, 60, 127, 72, 116, 122, 99, 14, 200, 159, 178, 72, 84, 145,
      137, 180, 113, 55, 237, 209, 114, 201, 62, 143, 115, 80, 65, 188, 196, 167>>
    [] length = 120 -> <<124, 0, 77, 68, 167, 58, 31, 98, 36, 81, 123, 95, 156, 131, 203, 73,
      222, 45, 20, 78, 200, 3, 210, 254, 199, 98, 14, 212, 159, 80, 225, 79>>

(* The digest is SHA-256 of the message, with word_t of 32 bits and of 64: the
   code masks every sum and rotation whose excess bits could come back. *)
DigestRight == done /\ taken \in KnownLengths => get_hash_bytes(h_) = KnownSha256(taken)

-----------------------------------------------------------------------------
DigitsValue(bits, digits) ==
    digits[1] + DigitBase(bits) * (digits[2] + DigitBase(bits) * (digits[3] + DigitBase(bits) * digits[4]))

BytesValue(bits, bytes) ==
    LET half == 2^(bits \div 2)
        value[i \in 0..8] == IF i = 0 THEN 0 ELSE value[i - 1] * half + bytes[i]
    IN  value[8]

Capacity == DigitBase(DigitBits)^4

(* add_to_data_length keeps the byte count, carries through several digits and
   carries larger than one included; each digit stays below the base. *)
LengthCounted ==
    /\ \A i \in 1..4 : total_digits[i] < DigitBase(DigitBits)
    /\ DigitsValue(DigitBits, total_digits) = total % Capacity

(* write_data_bit_length writes the number of bits of the message modulo the
   capacity of the counter, most significant byte first. *)
BitLengthWritten ==
    BytesValue(DigitBits, write_data_bit_length(DigitBits, total_digits)) = (8 * total) % Capacity
=============================================================================
