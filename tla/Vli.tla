-------------------------------- MODULE Vli --------------------------------
(***************************************************************************)
(* The multi-digit arithmetic of src/bryllite-core/secp256r1.cpp, digit by *)
(* digit.  A number is four digits of 2*W bits, least significant first    *)
(* (the code has W = 32, a product has eight digits).  Everything the file *)
(* does with half digits, masks and shifts is written in terms of W, and   *)
(* curve_p_digits has the same shape for every W:                          *)
(*   t^8 - t^7 + t^6 + t^3 - 1  with  t = 2^W.                             *)
(* W = 1 gives the prime 199, so the whole file can be run on 8-bit        *)
(* numbers, with all its carries.                                          *)
(***************************************************************************)
EXTENDS Integers, Sequences

CONSTANTS
    W,                           \* bits of half a digit
    H,                           \* 2 ^ W, 0x100000000ull
    Right                        \* right operands, as numbers

\* A half digit has at least a bit: what is behind the first line follows.
ASSUME HalfDigitAssumption ==
    /\ W \in Nat \ {0} /\ H = 2 ^ W
    /\ H \in Nat /\ H >= 2 /\ H % 2 = 0

VARIABLES left, right            \* two numbers, the operands

operandVars == <<left, right>>

NUM_ECC_DIGITS == 4
B    == H * H                    \* a digit is taken modulo B
Digits == 0 .. NUM_ECC_DIGITS - 1
Word == B * B * B * B            \* a number is taken modulo Word
Top  == B \div 2                 \* 0x8000000000000000ull

ASSUME RightAssumption == Right \subseteq 0 .. Word - 1

Vlis == [Digits -> 0 .. B - 1]

Vli4(d0, d1, d2, d3) == [i \in Digits |-> <<d0, d1, d2, d3>>[i + 1]]

\* The number that a vector of digits stands for, and its digits.
Val(d)   == d[0] + B * (d[1] + B * (d[2] + B * d[3]))
ToVli(x) == Vli4(x % B, (x \div B) % B, (x \div (B * B)) % B, (x \div (B * B * B)) % B)

(* Half digits: x & 0xffffffff, x & 0xffffffff00000000, x >> 32, x << 32.  *)
lo(x)    == x % H
hi(x)    == (x \div H) * H
shr(x)   == x \div H
shl(x)   == (x * H) % B

Bool(b) == IF b THEN 1 ELSE 0

curve_p_digits == Vli4(B - 1, H - 1, 0, hi(B - 1) + 1)

-----------------------------------------------------------------------------

vli_isZero(v) == \A i \in Digits : v[i] = 0

vli_testBit(v, bit) == (v[bit \div (2 * W)] \div 2 ^ (bit % (2 * W))) % 2 = 1

vli_numDigits(v) ==
    CHOOSE n \in 0 .. NUM_ECC_DIGITS :
        /\ \A i \in Digits : i >= n => v[i] = 0
        /\ n > 0 => v[n - 1] # 0

vli_numBits(v) ==
    LET n == vli_numDigits(v)
    IN  IF n = 0 THEN 0
        ELSE (n - 1) * 2 * W
             + CHOOSE i \in 1 .. 2 * W : v[n - 1] \div 2 ^ (i - 1) = 1

\* The sign of l - r, decided by the most significant digit that differs.
vli_cmp(l, r) ==
    LET diff == {i \in Digits : l[i] # r[i]}
        top  == CHOOSE i \in diff : \A j \in diff : j <= i
    IN  IF diff = {} THEN 0 ELSE IF l[top] > r[top] THEN 1 ELSE -1

\* Shift left by 0 < s < 2W bits, factor = 2^s; the carry is what leaves the
\* top digit.
vli_lshift(v, factor) ==
    LET out(i) == IF i < 0 THEN 0 ELSE v[i] \div (B \div factor)
    IN  [result |-> [i \in Digits |-> ((v[i] * factor) % B) + out(i - 1)],
         carry  |-> out(NUM_ECC_DIGITS - 1)]

vli_rshift1(v) ==
    [i \in Digits |-> v[i] \div 2
        + IF i + 1 \in Digits THEN (v[i + 1] * Top) % B ELSE 0]

\* A digit of the sum equal to the left operand keeps the carry it came with:
\* the right digit and the carry were both 0, or added up to B.
carry_out(x, y, c) ==
    LET sum == (x + y + c) % B IN IF sum # x THEN Bool(sum < x) ELSE c

vli_add(l, r) ==
    LET c1 == carry_out(l[0], r[0], 0)
        c2 == carry_out(l[1], r[1], c1)
        c3 == carry_out(l[2], r[2], c2)
    IN  [result |-> Vli4((l[0] + r[0]) % B, (l[1] + r[1] + c1) % B,
                         (l[2] + r[2] + c2) % B, (l[3] + r[3] + c3) % B),
         carry  |-> carry_out(l[3], r[3], c3)]

borrow_out(x, y, b) ==
    LET diff == (x - y - b) % B IN IF diff # x THEN Bool(diff > x) ELSE b

vli_sub(l, r) ==
    LET b1 == borrow_out(l[0], r[0], 0)
        b2 == borrow_out(l[1], r[1], b1)
        b3 == borrow_out(l[2], r[2], b2)
    IN  [result |-> Vli4((l[0] - r[0]) % B, (l[1] - r[1] - b1) % B,
                         (l[2] - r[2] - b2) % B, (l[3] - r[3] - b3) % B),
         borrow |-> borrow_out(l[3], r[3], b3)]

-----------------------------------------------------------------------------
(* Modular operations.                                                     *)
vli_modAdd(l, r, mod) ==
    LET s == vli_add(l, r)
    IN  IF s.carry = 1 \/ vli_cmp(s.result, mod) >= 0
        THEN vli_sub(s.result, mod).result ELSE s.result

vli_modSub(l, r, mod) ==
    LET d == vli_sub(l, r)
    IN  IF d.borrow = 1 THEN vli_add(d.result, mod).result ELSE d.result

-----------------------------------------------------------------------------
(* Products: eight digits, two halves.                                     *)
Low(d)  == [i \in Digits |-> d[i]]
High(d) == [i \in Digits |-> d[NUM_ECC_DIGITS + i]]
Val8(d) == Val(Low(d)) + Word * Val(High(d))

-----------------------------------------------------------------------------
(* Products, column by column.  The builds with a 128 bit integer add whole*)
(* products modulo B^2 and count the overflows in r2; the others (MSVC)    *)
(* build products and sums from half digits.                               *)

mul_64_64(l, r) ==
    LET m0 == lo(l) * lo(r)
        m1 == lo(l) * shr(r)
        m2 == (shr(l) * lo(r) + shr(m0) + m1) % B
        m3 == shr(l) * shr(r) + Bool(m2 < m1) * H
    IN  [low |-> lo(m0) + shl(m2), high |-> (m3 + shr(m2)) % B]

add_128_128(a, b) ==
    LET low == (a.low + b.low) % B
    IN  [low |-> low, high |-> (a.high + b.high + Bool(low < a.low)) % B]

Wide(x) == [low |-> x % B, high |-> x \div B]
Num(w)  == w.high * B + w.low

\* One product added to the column, and whether that overflowed: the two
\* builds decide it differently.
acc_int128(acc, product) ==
    LET sum == (Num(acc.r01) + Num(product)) % (B * B)
    IN  [r01 |-> Wide(sum), r2 |-> acc.r2 + Bool(sum < Num(product))]

acc_64(acc, product) ==
    LET sum == add_128_128(acc.r01, product)
    IN  [r01 |-> sum, r2 |-> acc.r2 + Bool(sum.high < product.high)]

\* The product of two digits added to the column, twice in a square:
\* l_product *= 2 counts the bit that leaves it in r2.
accumulate(int128, acc, x, y, twice) ==
    LET product == IF int128 THEN Wide(x * y) ELSE mul_64_64(x, y)
        double  == Wide((Num(product) * 2) % (B * B))
        acc2    == [acc EXCEPT !.r2 = @ + product.high \div Top]
        add(a, p) == IF int128 THEN acc_int128(a, p) ELSE acc_64(a, p)
    IN  IF twice THEN add(acc2, double) ELSE add(acc, product)

l_min(k) == IF k < NUM_ECC_DIGITS THEN 0 ELSE k + 1 - NUM_ECC_DIGITS

\* Column k of a product, or of a square: i runs from l_min to the last digit
\* of the left operand that has a partner, in a square while i <= k - i.
InColumn(k, square, i) == l_min(k) <= i /\ i <= k /\ (square => i <= k - i)

AddItem(int128, square, l, r, k, acc, i) ==
    IF InColumn(k, square, i)
    THEN accumulate(int128, acc, l[i], r[k - i], square /\ i < k - i)
    ELSE acc

Column(int128, square, l, r, k, r01) ==
    LET add(acc, i) == AddItem(int128, square, l, r, k, acc, i)
    IN  add(add(add(add([r01 |-> r01, r2 |-> 0], 0), 1), 2), 3)

\* The high digit and the overflows of a column go into the next one.
CarryOver(acc) == [low |-> acc.r01.high, high |-> acc.r2]

\* The low digit of column k is digit k of the result; what the last column
\* carries is the last digit.
NoDigits == [p_result |-> [i \in 0 .. 2 * NUM_ECC_DIGITS - 1 |-> 0], r01 |-> Wide(0)]
PutDigit(x, k, acc) == [p_result |-> [x.p_result EXCEPT ![k] = acc.r01.low],
                        r01      |-> CarryOver(acc)]
PutLast(x) == [x.p_result EXCEPT ![2 * NUM_ECC_DIGITS - 1] = x.r01.low]

Product(int128, square, l, r) ==
    LET put(x, k) == PutDigit(x, k, Column(int128, square, l, r, k, x.r01))
    IN  PutLast(put(put(put(put(put(put(put(NoDigits, 0), 1), 2), 3), 4), 5), 6))

vli_mult(l, r)    == Product(TRUE, FALSE, l, r)
vli_square(l)     == Product(TRUE, TRUE, l, l)
vli_mult_64(l, r) == Product(FALSE, FALSE, l, r)
vli_square_64(l)  == Product(FALSE, TRUE, l, l)

-----------------------------------------------------------------------------
(* Reduction modulo curve_p_digits.                                        *)

\* l_carry += vli_add(p_result, p_result, t), and the same with a shift of t.
Carry(c, s)   == [r |-> s.result, carry |-> c + s.carry]
Plus(acc, t)  == Carry(acc.carry, vli_add(acc.r, t))
\* Slip: the bit that the shift pushes out is forgotten.
Plus2Lossy(acc, t) == Plus(acc, vli_lshift(t, 2).result)
Plus2(acc, t) == LET d == vli_lshift(t, 2)
                 IN  Carry(acc.carry + d.carry, vli_add(acc.r, d.result))
Borrow(c, s)  == [r |-> s.result, carry |-> c - s.borrow]
Minus(acc, t) == Borrow(acc.carry, vli_sub(acc.r, t))

\* The final correction: curve_p_digits is added while the carry is negative,
\* subtracted while there is a carry or the result is not below curve_p_digits.
AddP[acc \in [r : Vlis, carry : Int]] ==
    IF acc.carry < 0 THEN AddP[Plus(acc, curve_p_digits)] ELSE acc.r

SubP[acc \in [r : Vlis, carry : Nat]] ==
    IF acc.carry # 0 \/ vli_cmp(curve_p_digits, acc.r) # 1
    THEN SubP[Minus(acc, curve_p_digits)] ELSE acc.r

Correct(acc) == IF acc.carry < 0 THEN AddP[acc] ELSE SubP[acc]

vli_mmod_fast(p) ==
    LET s1 == Vli4(0, hi(p[5]), p[6], p[7])
        \* l_tmp[0] is 0 << 1 from s1
        s2 == Vli4(0, shl(p[6]), shr(p[6]) + shl(p[7]), shr(p[7]))
        s3 == Vli4(p[4], lo(p[5]), 0, p[7])
        s4 == Vli4(shr(p[4]) + shl(p[5]), shr(p[5]) + hi(p[6]), p[7],
                   shr(p[6]) + shl(p[4]))
        d1 == Vli4(shr(p[5]) + shl(p[6]), shr(p[6]), 0, lo(p[4]) + shl(p[5]))
        d2 == Vli4(p[6], p[7], 0, shr(p[4]) + hi(p[5]))
        d3 == Vli4(shr(p[6]) + shl(p[7]), shr(p[7]) + shl(p[4]),
                   shr(p[4]) + shl(p[5]), shl(p[6]))
        d4 == Vli4(p[7], hi(p[4]), p[5], hi(p[6]))
        t  == [r |-> Low(p), carry |-> 0]
        plus == Plus(Plus(Plus2(Plus2(t, s1), s2), s3), s4)
    IN  Correct(Minus(Minus(Minus(Minus(plus, d1), d2), d3), d4))

vli_modMult_fast(l, r) == vli_mmod_fast(vli_mult(l, r))
vli_modSquare_fast(l)  == vli_mmod_fast(vli_square(l))

-----------------------------------------------------------------------------
(* Byte strings: big endian, the digits in reverse.  A byte is one bit here*)
(* (8 bits in the code, 8 bytes to a digit).                               *)
Bytes == 0 .. NUM_ECC_DIGITS * 2 * W - 1
digit_of(n) == NUM_ECC_DIGITS - 1 - n \div (2 * W)

ecc_native2bytes(v) ==
    [n \in Bytes |-> (v[digit_of(n)] \div 2 ^ (2 * W - 1 - (n % (2 * W)))) % 2]

\* The digit that 2 * W bytes make up.
DigitOf(bytes, from) ==
    LET digit[n \in 0 .. 2 * W] ==
            IF n = 0 THEN 0 ELSE 2 * digit[n - 1] + bytes[from + n - 1]
    IN  digit[2 * W]

ecc_bytes2native(bytes) ==
    [i \in Digits |-> DigitOf(bytes, 2 * W * (NUM_ECC_DIGITS - 1 - i))]

-----------------------------------------------------------------------------
(* vli_modMult: the product modulo any p_mod, by shifting p_mod under the  *)
(* product and subtracting.  Eight digits are a pair of halves.            *)
Halves(d) == [low |-> Low(d), high |-> High(d)]
ONE == Vli4(1, 0, 0, 0)

l_productBits(p) == LET n == vli_numBits(p.high)
                    IN  IF n > 0 THEN n + NUM_ECC_DIGITS * 2 * W
                                 ELSE vli_numBits(p.low)

\* p_mod << bits in eight digits; the carry of the shift is the digit above.
l_modMultiple(mod, bits) ==
    LET digitShift == bits \div (2 * W)
        shifted == IF bits % (2 * W) = 0 THEN [result |-> mod, carry |-> 0]
                   ELSE vli_lshift(mod, 2 ^ (bits % (2 * W)))
    IN  Halves([i \in 0 .. 2 * NUM_ECC_DIGITS - 1 |->
                  IF i - digitShift \in Digits THEN shifted.result[i - digitShift]
                  ELSE IF i - digitShift = NUM_ECC_DIGITS THEN shifted.carry
                  ELSE 0])

Subtract(p, mm) ==
    LET d == vli_sub(p.low, mm.low)
        h == IF d.borrow = 1 THEN vli_sub(p.high, ONE).result ELSE p.high
    IN  [low |-> d.result, high |-> vli_sub(h, mm.high).result]

HalfShift(mm) ==
    [low  |-> [vli_rshift1(mm.low) EXCEPT ![NUM_ECC_DIGITS - 1] =
                 @ + (mm.high[0] % 2) * Top],
     high |-> vli_rshift1(mm.high)]

Pairs == [low : Vlis, high : Vlis]

\* The loop, with the product p, l_modMultiple mm and l_productBits.
Remainder(mod, start) ==
    LET loop[x \in [p : Pairs, mm : Pairs, bits : Int]] ==
            LET c    == vli_cmp(x.mm.high, x.p.high)
                fits == c < 0 \/ (c = 0 /\ vli_cmp(x.mm.low, x.p.low) <= 0)
            IN  IF x.bits > NUM_ECC_DIGITS * 2 * W \/ vli_cmp(x.mm.low, mod) >= 0
                THEN loop[[p    |-> IF fits THEN Subtract(x.p, x.mm) ELSE x.p,
                           mm   |-> HalfShift(x.mm),
                           bits |-> x.bits - 1]]
                ELSE x.p.low
    IN  loop[start]

\* A product with fewer bits than the modulus is returned as it is.
ProductModulo(p, mod) ==
    LET bits == l_productBits(p)
        m    == vli_numBits(mod)
    IN  IF bits < m THEN p.low
        ELSE Remainder(mod, [p |-> p, mm |-> l_modMultiple(mod, bits - m), bits |-> bits])

vli_modMult(l, r, mod) == ProductModulo(Halves(vli_mult(l, r)), mod)

-----------------------------------------------------------------------------
(* The operands: every left number, one after the other, with a right one. *)

VliInit(operands) == left = 0 /\ right \in operands

NextOperand == /\ left < Word - 1
               /\ left' = left + 1
               /\ UNCHANGED right

VliSpec == VliInit(Right) /\ [][NextOperand]_operandVars

LeftVli == ToVli(left)
RightVli == ToVli(right)
Prime == Val(curve_p_digits)

\* vli_add and vli_sub (secp256r1.cpp:260-292) lose no carry: the digits and
\* the flag they return are the exact sum and the exact difference, although
\* the flag is decided digit by digit from a comparison with the left digit.
AddSubExact ==
    LET s == vli_add(LeftVli, RightVli)
        d == vli_sub(LeftVli, RightVli)
    IN  /\ Val(s.result) + s.carry * Word = left + right
        /\ Val(d.result) - d.borrow * Word = left - right

\* The shifts and comparisons agree with the number (secp256r1.cpp:148-258):
\* a left shift and its carry lose no bit.
ShiftsExact ==
    LET s == vli_lshift(LeftVli, 2)
    IN  /\ Val(s.result) + s.carry * Word = 2 * left
        /\ Val(vli_rshift1(LeftVli)) = left \div 2
        /\ (vli_cmp(LeftVli, RightVli) = 1) = (left > right)
        /\ (vli_cmp(LeftVli, RightVli) = 0) = (left = right)
        /\ vli_isZero(LeftVli) = (left = 0)

\* With a 128 bit integer, vli_mult and vli_square (secp256r1.cpp:296-349)
\* return the exact product: the accumulator and its overflow count hold
\* every column.
ProductExact ==
    /\ Val8(vli_mult(LeftVli, RightVli)) = left * right
    /\ Val8(vli_square(LeftVli)) = left * left

\* vli_mmod_fast (secp256r1.cpp:472-553) reduces every product of two words,
\* reduced or not, whichever way its carry comes out, and vli_modAdd and
\* vli_modSub reduce the sum and the difference of reduced operands.
ReductionExact ==
    /\ Val(vli_modMult_fast(LeftVli, RightVli)) = (left * right) % Prime
    /\ Val(vli_modSquare_fast(LeftVli)) = (left * left) % Prime
    /\ left < Prime /\ right < Prime =>
        /\ Val(vli_modAdd(LeftVli, RightVli, curve_p_digits)) = (left + right) % Prime
        /\ Val(vli_modSub(LeftVli, RightVli, curve_p_digits)) = (left - right) % Prime

\* The digit algorithms compute the numbers they stand for: no carry, no bit
\* and no overflow of a column is lost, and the fast reduction gives the
\* remainder.
DigitsExact == AddSubExact /\ ShiftsExact /\ ProductExact /\ ReductionExact
=============================================================================
