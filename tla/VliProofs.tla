----------------------------- MODULE VliProofs -----------------------------
(***************************************************************************)
(* The digit arithmetic of src/bryllite-core/secp256r1.cpp is exact for    *)
(* digits of every size, so also for the 64 bit digits of the program: the *)
(* run has digits of two bits.  Sums, differences and shifts are chains of *)
(* digits whose carries cancel; a product is a chain of columns, each of   *)
(* which carries less than four digits' worth; the fast reduction replaces *)
(* every power of H above the eighth by its remainder modulo the prime.    *)
(***************************************************************************)
EXTENDS Vli, WellFoundedInduction, TLAPS

-----------------------------------------------------------------------------
(* Division.                                                               *)

\* Quotient and remainder are determined by their equation.
LEMMA DivModUnique ==
    ASSUME NEW b \in Int, NEW x \in Int, NEW q \in Int, NEW r \in Int,
           b > 0, 0 <= r, r < b, x = q * b + r
    PROVE  x % b = r /\ x \div b = q
OBVIOUS

\* The quotient and the remainder of a division satisfy it.
LEMMA DivMod ==
    ASSUME NEW b \in Int, NEW x \in Int, b > 0
    PROVE  /\ x % b \in Nat /\ x % b < b /\ x \div b \in Int
           /\ x = (x \div b) * b + (x % b)
OBVIOUS

\* The quotient of a natural number is one.
LEMMA DivNat ==
    ASSUME NEW b \in Int, NEW x \in Nat, b > 0
    PROVE  x \div b \in Nat
OBVIOUS

\* A number below the base is its own remainder.
LEMMA ModSmall ==
    ASSUME NEW b \in Int, NEW x \in Int, b > 0, 0 <= x, x < b
    PROVE  x % b = x /\ x \div b = 0
OBVIOUS

\* A number between the base and twice the base loses it once.
LEMMA ModOnce ==
    ASSUME NEW b \in Int, NEW x \in Int, b > 0, b <= x, x < 2 * b
    PROVE  x % b = x - b
OBVIOUS

\* A number just below zero gains the base once.
LEMMA ModBelow ==
    ASSUME NEW b \in Int, NEW x \in Int, b > 0, x < 0, 0 <= x + b
    PROVE  x % b = x + b
OBVIOUS

\* x < b * c is what it takes for a quotient below c.
LEMMA DivBound ==
    ASSUME NEW b \in Int, NEW c \in Int, NEW x \in Nat, b > 0, x < c * b
    PROVE  x \div b < c
OBVIOUS

\* The square of a base is at least twice the base.
LEMMA SquareBig ==
    ASSUME NEW h \in Nat, h >= 2
    PROVE  h * h \in Nat /\ h * h >= 4 /\ h * h >= 2 * h
OBVIOUS

\* The two bases: half digits H and digits B = H * H.
LEMMA BaseFacts == B \in Nat /\ B >= 4 /\ B >= 2 * H /\ H \in Nat /\ H >= 2 /\ B = H * H
<1>1. H \in Nat /\ H >= 2
  BY HalfDigitAssumption
<1>2. H * H \in Nat /\ H * H >= 4 /\ H * H >= 2 * H
  BY <1>1, SquareBig
<1> QED
  BY <1>1, <1>2 DEF B

\* The square of an even number is even.
LEMMA EvenTimes ==
    ASSUME NEW h \in Nat, h % 2 = 0
    PROVE  h * h = 2 * ((h * h) \div 2)
<1>1. PICK k \in Nat : k = h \div 2
  OBVIOUS
<1>2. h = 2 * k
  BY <1>1
<1>3. PICK m \in Int : m = k * h
  OBVIOUS
<1>4. h * h = 2 * m
  BY <1>2, <1>3
<1> QED
  BY <1>4

\* Top is the weight of the top bit of a digit.
LEMMA TopFacts == Top \in Nat /\ Top >= 2 /\ B = 2 * Top
<1>1. B = 2 * Top
  BY HalfDigitAssumption, EvenTimes DEF B, Top
<1> QED
  BY <1>1, BaseFacts DEF Top

-----------------------------------------------------------------------------
(* Digits and the numbers they stand for.                                  *)

\* The four places of a number.
LEMMA DigitsAre == Digits = {0, 1, 2, 3} /\ Digits = 0 .. 3
BY DEF Digits, NUM_ECC_DIGITS

\* The digits of a vector written out.
LEMMA Vli4Get ==
    ASSUME NEW d0, NEW d1, NEW d2, NEW d3
    PROVE  /\ Vli4(d0, d1, d2, d3)[0] = d0 /\ Vli4(d0, d1, d2, d3)[1] = d1
           /\ Vli4(d0, d1, d2, d3)[2] = d2 /\ Vli4(d0, d1, d2, d3)[3] = d3
BY DigitsAre DEF Vli4

\* A digit, and a number below a power of the base.
Digit(x) == x \in Nat /\ x < B

\* Four digits make a number.
LEMMA Vli4Type ==
    ASSUME NEW d0, NEW d1, NEW d2, NEW d3,
           Digit(d0), Digit(d1), Digit(d2), Digit(d3)
    PROVE  Vli4(d0, d1, d2, d3) \in Vlis
<1>1. \A i \in Digits : <<d0, d1, d2, d3>>[i + 1] \in 0 .. B - 1
  BY DigitsAre, BaseFacts DEF Digit
<1> QED
  BY <1>1 DEF Vli4, Vlis

\* The places of a number hold digits.
LEMMA VliDigits ==
    ASSUME NEW v \in Vlis
    PROVE  Digit(v[0]) /\ Digit(v[1]) /\ Digit(v[2]) /\ Digit(v[3])
BY DigitsAre, BaseFacts DEF Vlis, Digit

\* Numbers with the same digits are the same.
LEMMA VliEqual ==
    ASSUME NEW v \in Vlis, NEW w \in Vlis,
           v[0] = w[0], v[1] = w[1], v[2] = w[2], v[3] = w[3]
    PROVE  v = w
BY DigitsAre DEF Vlis

\* The value of a vector written out.
LEMMA ValVli4 ==
    ASSUME NEW d0, NEW d1, NEW d2, NEW d3
    PROVE  Val(Vli4(d0, d1, d2, d3)) = d0 + B * (d1 + B * (d2 + B * d3))
BY Vli4Get DEF Val

\* One digit below a number.
LEMMA Horner ==
    ASSUME NEW b \in Nat, NEW c \in Nat, NEW x \in Nat, NEW y \in Nat, x < b, y < c
    PROVE  x + b * y \in Nat /\ x + b * y < b * c
<1>1. y + 1 <= c
  OBVIOUS
<1>2. b * (y + 1) <= b * c
  BY <1>1
<1> QED
  BY <1>2

\* A digit and the number above it are determined by their sum.
LEMMA HornerUnique ==
    ASSUME NEW b \in Nat, NEW x \in Nat, NEW y \in Nat, NEW z \in Nat, NEW w \in Nat,
           x < b, z < b, x + b * y = z + b * w
    PROVE  x = z /\ y = w
<1>1. PICK t \in Int : t = x + b * y
  OBVIOUS
<1>2. t % b = x /\ t \div b = y
  BY <1>1, DivModUnique
<1>3. t % b = z /\ t \div b = w
  BY <1>1, DivModUnique
<1> QED
  BY <1>2, <1>3

\* The size of a word in digits.
LEMMA WordFacts ==
    /\ Word \in Nat /\ Word >= 4 /\ Word = B * (B * (B * B))
    /\ B * B \in Nat /\ B * (B * B) \in Nat /\ B * B * B = B * (B * B)
    /\ B <= B * B /\ B * B <= Word /\ B * B >= 16
<1>1. B * B \in Nat /\ B <= B * B /\ B * B >= 16
  BY BaseFacts
<1>2. PICK b2 \in Nat : b2 = B * B
  BY <1>1
<1>3. B * b2 \in Nat /\ b2 <= B * b2
  BY BaseFacts
<1>4. PICK b3 \in Nat : b3 = B * b2
  BY <1>3
<1>5. B * b3 \in Nat /\ b3 <= B * b3 
  BY BaseFacts
<1>6. Word = B * b3
  BY BaseFacts, <1>2, <1>4 DEF Word
<1>7. b2 <= B * b3 /\ B * b3 >= 4
  BY <1>1, <1>2, <1>3, <1>4, <1>5
<1>8. B * B * B = B * b2
  BY BaseFacts, <1>2
<1> QED
  BY <1>1, <1>2, <1>3, <1>4, <1>5, <1>6, <1>7, <1>8

\* Four digits stand for a number below Word.
LEMMA ValType ==
    ASSUME NEW v \in Vlis
    PROVE  Val(v) \in Nat /\ Val(v) < Word
<1>1. PICK a \in Nat, b \in Nat, c \in Nat, d \in Nat :
        a = v[0] /\ b = v[1] /\ c = v[2] /\ d = v[3] /\ a < B /\ b < B /\ c < B /\ d < B
  BY VliDigits DEF Digit
<1>2. c + B * d \in Nat /\ c + B * d < B * B
  BY <1>1, Horner, BaseFacts
<1>3. PICK e \in Nat : e = c + B * d
  BY <1>2
<1>4. b + B * e \in Nat /\ b + B * e < B * (B * B)
  BY <1>1, <1>2, <1>3, Horner, BaseFacts, WordFacts
<1>5. PICK f \in Nat : f = b + B * e
  BY <1>4
<1>6. a + B * f \in Nat /\ a + B * f < B * (B * (B * B))
  BY <1>1, <1>4, <1>5, Horner, BaseFacts, WordFacts
<1>7. Val(v) = a + B * f
  BY <1>1, <1>3, <1>5 DEF Val
<1> QED
  BY <1>6, <1>7, WordFacts

\* Different digits stand for different numbers.
LEMMA ValInjective ==
    ASSUME NEW v \in Vlis, NEW w \in Vlis, Val(v) = Val(w)
    PROVE  v = w
<1>1. PICK a \in Nat, b \in Nat, c \in Nat, d \in Nat :
        a = v[0] /\ b = v[1] /\ c = v[2] /\ d = v[3] /\ a < B /\ b < B /\ c < B /\ d < B
  BY VliDigits DEF Digit
<1>2. PICK aa \in Nat, bb \in Nat, cc \in Nat, dd \in Nat :
        aa = w[0] /\ bb = w[1] /\ cc = w[2] /\ dd = w[3] /\ aa < B /\ bb < B /\ cc < B /\ dd < B
  BY VliDigits DEF Digit
<1>3. PICK e \in Nat : e = c + B * d
  BY BaseFacts
<1>4. PICK ee \in Nat : ee = cc + B * dd
  BY BaseFacts
<1>5. PICK f \in Nat : f = b + B * e
  BY BaseFacts
<1>6. PICK ff \in Nat : ff = bb + B * ee
  BY BaseFacts
<1>7. a + B * f = aa + B * ff
  BY <1>1, <1>2, <1>3, <1>4, <1>5, <1>6 DEF Val
<1>8. a = aa /\ f = ff
  BY <1>1, <1>2, <1>7, HornerUnique, BaseFacts
<1>9. b = bb /\ e = ee
  BY <1>1, <1>2, <1>5, <1>6, <1>8, HornerUnique, BaseFacts
<1>10. c = cc /\ d = dd
  <2>1. c + B * d = cc + B * dd
    BY <1>3, <1>4, <1>9
  <2>2. B \in Nat /\ c < B /\ cc < B
    BY <1>1, <1>2, BaseFacts
  <2> QED
    BY ONLY <2>1, <2>2, HornerUnique, c \in Nat, d \in Nat, cc \in Nat, dd \in Nat
<1> QED
  BY <1>1, <1>2, <1>8, <1>9, <1>10, VliEqual

\* Dividing by a product is dividing twice.
LEMMA DivTwice ==
    ASSUME NEW x \in Nat, NEW b \in Nat, NEW c \in Nat, b > 0, c > 0
    PROVE  x \div (b * c) = (x \div b) \div c
<1>1. PICK q \in Nat, r \in Nat : x = q * b + r /\ r < b /\ q = x \div b
  BY DivMod, DivNat
<1>2. PICK p \in Nat, s \in Nat : q = p * c + s /\ s < c /\ p = q \div c
  BY DivMod, DivNat
<1>3. PICK bc \in Nat : bc = b * c
  OBVIOUS
<1>4. r + b * s < b * c /\ r + b * s \in Nat
  BY <1>1, <1>2, Horner
<1>5. PICK t \in Nat : t = r + b * s
  BY <1>4
<1>6. x = p * bc + t
  BY <1>1, <1>2, <1>3, <1>5
<1>7. bc > 0 /\ t < bc
  BY <1>3, <1>4, <1>5
<1>8. x \div bc = p
  BY <1>6, <1>7, DivModUnique
<1> QED
  BY <1>1, <1>2, <1>3, <1>8

\* ToVli gives the digits of every word.
LEMMA ToVliExact ==
    ASSUME NEW x \in Nat, x < Word
    PROVE  ToVli(x) \in Vlis /\ Val(ToVli(x)) = x
<1>0. B \in Nat /\ B > 0 /\ B \in Int
  BY BaseFacts
<1>1. PICK q1 \in Nat, r0 \in Nat : x = q1 * B + r0 /\ r0 < B /\ q1 = x \div B /\ r0 = x % B
  BY <1>0, DivMod, DivNat
<1>2. PICK q2 \in Nat, r1 \in Nat : q1 = q2 * B + r1 /\ r1 < B /\ q2 = q1 \div B /\ r1 = q1 % B
  BY <1>0, DivMod, DivNat
<1>3. PICK q3 \in Nat, r2 \in Nat : q2 = q3 * B + r2 /\ r2 < B /\ q3 = q2 \div B /\ r2 = q2 % B
  BY <1>0, DivMod, DivNat
<1>4. x \div (B * B) = q2
  <2>1. x \div (B * B) = (x \div B) \div B
    BY ONLY <1>0, DivTwice, x \in Nat
  <2> QED
    BY <2>1, <1>1, <1>2
<1>5. PICK b2 \in Nat : b2 = B * B /\ b2 > 0
  BY WordFacts
<1>6. x \div (b2 * B) = q3
  BY <1>0, <1>3, <1>4, <1>5, DivTwice
<1>7. B * B * B = b2 * B
  BY <1>5
<1>8. x < B * (B * (B * B))
  BY WordFacts
<1>9. q1 < B * b2
  <2>1. PICK b3 \in Nat : b3 = B * b2
    BY <1>0
  <2>2. x < b3 * B
    BY <1>0, <1>8, <1>5, <2>1
  <2> QED
    BY <1>0, <1>1, <2>1, <2>2, DivBound
<1>10. q2 < b2
  BY <1>0, <1>2, <1>9, DivBound
<1>11. q3 < B
  BY <1>0, <1>3, <1>5, <1>10, DivBound
<1>12. q3 % B = q3
  BY <1>0, <1>11, ModSmall
<1>13. ToVli(x) = Vli4(r0, r1, r2, q3)
  BY <1>1, <1>2, <1>3, <1>4, <1>6, <1>7, <1>12 DEF ToVli
<1>14. Vli4(r0, r1, r2, q3) \in Vlis
  BY <1>1, <1>2, <1>3, <1>11, Vli4Type DEF Digit
<1>15. x = r0 + B * (r1 + B * (r2 + B * q3))
  <2>1. q2 = r2 + B * q3
    BY <1>0, <1>3
  <2>2. q1 = r1 + B * q2
    BY <1>0, <1>2
  <2>3. x = r0 + B * q1
    BY <1>0, <1>1
  <2> QED
    BY <2>1, <2>2, <2>3
<1> QED
  BY <1>13, <1>14, <1>15, ValVli4

\* The digits of the value of a number are its digits.
LEMMA ToVliVal ==
    ASSUME NEW v \in Vlis
    PROVE  ToVli(Val(v)) = v
BY ValType, ToVliExact, ValInjective

-----------------------------------------------------------------------------
(* Sums and differences.                                                   *)

Flag(c) == c \in {0, 1}

\* carry_out is the carry of a digit sum: when the sum equals the left digit,
\* keeping the carry it came with is right.
LEMMA CarryExact ==
    ASSUME NEW x \in Nat, NEW y \in Nat, NEW c \in {0, 1}, x < B, y < B
    PROVE  /\ Flag(carry_out(x, y, c)) /\ Digit((x + y + c) % B)
           /\ ((x + y + c) % B) + carry_out(x, y, c) * B = x + y + c
<1>0. B \in Nat /\ B > 0
  BY BaseFacts
<1>1. PICK t \in Nat : t = x + y + c
  OBVIOUS
<1>2. CASE t < B
  <2>1. t % B = t
    BY <1>0, <1>2, ModSmall
  <2>2. carry_out(x, y, c) = 0
    BY <1>1, <2>1 DEF carry_out, Bool
  <2> QED
    BY <1>0, <1>1, <1>2, <2>1, <2>2 DEF Flag, Digit
<1>3. CASE t >= B
  <2>1. t < 2 * B
    BY <1>0, <1>1
  <2>2. t % B = t - B
    BY <1>0, <1>3, <2>1, ModOnce
  <2>3. carry_out(x, y, c) = 1
    BY <1>0, <1>1, <1>3, <2>2 DEF carry_out, Bool
  <2> QED
    BY <1>0, <1>1, <1>3, <2>1, <2>2, <2>3 DEF Flag, Digit
<1> QED
  BY <1>0, <1>2, <1>3

\* The same for borrow_out and a difference.
LEMMA BorrowExact ==
    ASSUME NEW x \in Nat, NEW y \in Nat, NEW c \in {0, 1}, x < B, y < B
    PROVE  /\ Flag(borrow_out(x, y, c)) /\ Digit((x - y - c) % B)
           /\ ((x - y - c) % B) - borrow_out(x, y, c) * B = x - y - c
<1>0. B \in Nat /\ B > 0
  BY BaseFacts
<1>1. PICK t \in Int : t = x - y - c
  OBVIOUS
<1>2. CASE t >= 0
  <2>0. t < B
    BY <1>0, <1>1
  <2>1. t % B = t
    BY <1>0, <1>2, <2>0, ModSmall
  <2>2. borrow_out(x, y, c) = 0
    BY <1>1, <2>1, <1>2 DEF borrow_out, Bool
  <2> QED
    BY <1>0, <1>1, <1>2, <2>0, <2>1, <2>2 DEF Flag, Digit
<1>3. CASE t < 0
  <2>1. t + B >= 0
    BY <1>0, <1>1
  <2>2. t % B = t + B
    BY <1>0, <1>3, <2>1, ModBelow
  <2>3. borrow_out(x, y, c) = 1
    BY <1>0, <1>1, <1>3, <2>2 DEF borrow_out, Bool
  <2> QED
    BY <1>0, <1>1, <1>3, <2>1, <2>2, <2>3 DEF Flag, Digit
<1> QED
  BY <1>0, <1>2, <1>3

\* Digit sums with their carries, k = 1, or differences with borrows, k = -1,
\* add up to the sum of the numbers.
LEMMA Chain ==
    ASSUME NEW b \in Int,
           NEW l0 \in Int, NEW l1 \in Int, NEW l2 \in Int, NEW l3 \in Int,
           NEW s0 \in Int, NEW s1 \in Int, NEW s2 \in Int, NEW s3 \in Int,
           NEW c1 \in Int, NEW c2 \in Int, NEW c3 \in Int, NEW c4 \in Int,
           s0 + c1 * b = l0, s1 + c2 * b = l1 + c1,
           s2 + c3 * b = l2 + c2, s3 + c4 * b = l3 + c3
    PROVE  s0 + b * (s1 + b * (s2 + b * s3)) + c4 * (b * (b * (b * b)))
             = l0 + b * (l1 + b * (l2 + b * l3))
<1>1. PICK w1 \in Int : w1 = c4 * b
  OBVIOUS
<1>2. s3 = l3 + c3 - w1
  BY <1>1
<1>3. PICK w2 \in Int : w2 = w1 * b
  OBVIOUS
<1>4. b * s3 = b * l3 + c3 * b - w2
  BY <1>2, <1>3
<1>5. PICK x3 \in Int, y3 \in Int : x3 = b * s3 /\ y3 = b * l3
  OBVIOUS
<1>6. s2 + x3 = l2 + y3 + c2 - w2
  BY <1>4, <1>5
<1>7. PICK w3 \in Int : w3 = w2 * b
  OBVIOUS
<1>8. b * (s2 + x3) = b * (l2 + y3) + c2 * b - w3
  BY <1>6, <1>7
<1>9. PICK x2 \in Int, y2 \in Int : x2 = b * (s2 + x3) /\ y2 = b * (l2 + y3)
  OBVIOUS
<1>10. s1 + x2 = l1 + y2 + c1 - w3
  BY <1>8, <1>9
<1>11. PICK w4 \in Int : w4 = w3 * b
  OBVIOUS
<1>12. b * (s1 + x2) = b * (l1 + y2) + c1 * b - w4
  BY <1>10, <1>11
<1>13. w4 = c4 * (b * (b * (b * b)))
  BY <1>1, <1>3, <1>7, <1>11
<1> QED
  BY <1>5, <1>9, <1>12, <1>13

\* vli_add is exact.
LEMMA AddExact ==
    ASSUME NEW l \in Vlis, NEW r \in Vlis
    PROVE  LET s == vli_add(l, r)
           IN  /\ s.result \in Vlis /\ Flag(s.carry)
               /\ Val(s.result) + s.carry * Word = Val(l) + Val(r)
<1> DEFINE c1 == carry_out(l[0], r[0], 0)
           c2 == carry_out(l[1], r[1], c1)
           c3 == carry_out(l[2], r[2], c2)
           c4 == carry_out(l[3], r[3], c3)
           s0 == (l[0] + r[0]) % B
           s1 == (l[1] + r[1] + c1) % B
           s2 == (l[2] + r[2] + c2) % B
           s3 == (l[3] + r[3] + c3) % B
<1>0. vli_add(l, r) = [result |-> Vli4(s0, s1, s2, s3), carry |-> c4]
  BY DEF vli_add
<1>1. /\ l[0] \in Nat /\ l[0] < B /\ l[1] \in Nat /\ l[1] < B
      /\ l[2] \in Nat /\ l[2] < B /\ l[3] \in Nat /\ l[3] < B
      /\ r[0] \in Nat /\ r[0] < B /\ r[1] \in Nat /\ r[1] < B
      /\ r[2] \in Nat /\ r[2] < B /\ r[3] \in Nat /\ r[3] < B
  BY VliDigits DEF Digit
<1>2. s0 = (l[0] + r[0] + 0) % B
  BY <1>1
<1>3. Flag(c1) /\ Digit(s0) /\ s0 + c1 * B = l[0] + r[0] + 0
  BY <1>1, <1>2, CarryExact
<1>4. c1 \in {0, 1}
  BY <1>3 DEF Flag
<1>5. Flag(c2) /\ Digit(s1) /\ s1 + c2 * B = l[1] + r[1] + c1
  BY <1>1, <1>4, CarryExact
<1>6. c2 \in {0, 1}
  BY <1>5 DEF Flag
<1>7. Flag(c3) /\ Digit(s2) /\ s2 + c3 * B = l[2] + r[2] + c2
  BY <1>1, <1>6, CarryExact
<1>8. c3 \in {0, 1}
  BY <1>7 DEF Flag
<1>9. Flag(c4) /\ Digit(s3) /\ s3 + c4 * B = l[3] + r[3] + c3
  BY <1>1, <1>8, CarryExact
<1>10. c4 \in {0, 1}
  BY <1>9 DEF Flag
<1>11. Vli4(s0, s1, s2, s3) \in Vlis
  BY <1>3, <1>5, <1>7, <1>9, Vli4Type
<1>12. s0 \in Int /\ s1 \in Int /\ s2 \in Int /\ s3 \in Int
  BY <1>3, <1>5, <1>7, <1>9 DEF Digit
<1> HIDE DEF c1, c2, c3, c4, s0, s1, s2, s3
<1>13. PICK m0 \in Int, m1 \in Int, m2 \in Int, m3 \in Int :
         m0 = l[0] + r[0] /\ m1 = l[1] + r[1] /\ m2 = l[2] + r[2] /\ m3 = l[3] + r[3]
  <2>1. l[0] + r[0] \in Int /\ l[1] + r[1] \in Int /\ l[2] + r[2] \in Int /\ l[3] + r[3] \in Int
    BY <1>1
  <2> QED
    BY <2>1
<1>14. s0 + c1 * B = m0 /\ s1 + c2 * B = m1 + c1 /\ s2 + c3 * B = m2 + c2 /\ s3 + c4 * B = m3 + c3
  BY <1>1, <1>3, <1>5, <1>7, <1>9, <1>13, <1>12
<1>15. s0 + B * (s1 + B * (s2 + B * s3)) + c4 * (B * (B * (B * B)))
         = m0 + B * (m1 + B * (m2 + B * m3))
  BY <1>4, <1>6, <1>8, <1>10, <1>12, <1>14, Chain, BaseFacts
<1>16. m0 + B * (m1 + B * (m2 + B * m3)) = Val(l) + Val(r)
  BY <1>1, <1>13, BaseFacts DEF Val
<1>17. Val(Vli4(s0, s1, s2, s3)) + c4 * Word = Val(l) + Val(r)
  BY <1>15, <1>16, ValVli4, WordFacts
<1> QED
  BY <1>0, <1>9, <1>11, <1>17

\* vli_sub is exact.
LEMMA SubExact ==
    ASSUME NEW l \in Vlis, NEW r \in Vlis
    PROVE  LET d == vli_sub(l, r)
           IN  /\ d.result \in Vlis /\ Flag(d.borrow)
               /\ Val(d.result) - d.borrow * Word = Val(l) - Val(r)
<1> DEFINE c1 == borrow_out(l[0], r[0], 0)
           c2 == borrow_out(l[1], r[1], c1)
           c3 == borrow_out(l[2], r[2], c2)
           c4 == borrow_out(l[3], r[3], c3)
           s0 == (l[0] - r[0]) % B
           s1 == (l[1] - r[1] - c1) % B
           s2 == (l[2] - r[2] - c2) % B
           s3 == (l[3] - r[3] - c3) % B
<1>0. vli_sub(l, r) = [result |-> Vli4(s0, s1, s2, s3), borrow |-> c4]
  BY DEF vli_sub
<1>1. /\ l[0] \in Nat /\ l[0] < B /\ l[1] \in Nat /\ l[1] < B
      /\ l[2] \in Nat /\ l[2] < B /\ l[3] \in Nat /\ l[3] < B
      /\ r[0] \in Nat /\ r[0] < B /\ r[1] \in Nat /\ r[1] < B
      /\ r[2] \in Nat /\ r[2] < B /\ r[3] \in Nat /\ r[3] < B
  BY VliDigits DEF Digit
<1>2. s0 = (l[0] - r[0] - 0) % B
  BY <1>1
<1>3. Flag(c1) /\ Digit(s0) /\ s0 - c1 * B = l[0] - r[0] - 0
  BY <1>1, <1>2, BorrowExact
<1>4. c1 \in {0, 1}
  BY <1>3 DEF Flag
<1>5. Flag(c2) /\ Digit(s1) /\ s1 - c2 * B = l[1] - r[1] - c1
  BY <1>1, <1>4, BorrowExact
<1>6. c2 \in {0, 1}
  BY <1>5 DEF Flag
<1>7. Flag(c3) /\ Digit(s2) /\ s2 - c3 * B = l[2] - r[2] - c2
  BY <1>1, <1>6, BorrowExact
<1>8. c3 \in {0, 1}
  BY <1>7 DEF Flag
<1>9. Flag(c4) /\ Digit(s3) /\ s3 - c4 * B = l[3] - r[3] - c3
  BY <1>1, <1>8, BorrowExact
<1>10. c4 \in {0, 1}
  BY <1>9 DEF Flag
<1>11. Vli4(s0, s1, s2, s3) \in Vlis
  BY <1>3, <1>5, <1>7, <1>9, Vli4Type
<1>12. s0 \in Int /\ s1 \in Int /\ s2 \in Int /\ s3 \in Int
  BY <1>3, <1>5, <1>7, <1>9 DEF Digit
<1> HIDE DEF c1, c2, c3, c4, s0, s1, s2, s3
<1>13. PICK m0 \in Int, m1 \in Int, m2 \in Int, m3 \in Int :
         m0 = l[0] - r[0] /\ m1 = l[1] - r[1] /\ m2 = l[2] - r[2] /\ m3 = l[3] - r[3]
  <2>1. l[0] - r[0] \in Int /\ l[1] - r[1] \in Int /\ l[2] - r[2] \in Int /\ l[3] - r[3] \in Int
    BY <1>1
  <2> QED
    BY <2>1
<1>18. PICK n1 \in Int, n2 \in Int, n3 \in Int, n4 \in Int :
         n1 = - c1 /\ n2 = - c2 /\ n3 = - c3 /\ n4 = - c4
  BY <1>4, <1>6, <1>8, <1>10
<1>14. s0 + n1 * B = m0 /\ s1 + n2 * B = m1 + n1 /\ s2 + n3 * B = m2 + n2 /\ s3 + n4 * B = m3 + n3
  BY <1>1, <1>3, <1>4, <1>5, <1>6, <1>7, <1>8, <1>9, <1>10, <1>13, <1>12, <1>18, BaseFacts
<1>15. s0 + B * (s1 + B * (s2 + B * s3)) + n4 * (B * (B * (B * B)))
         = m0 + B * (m1 + B * (m2 + B * m3))
  BY <1>12, <1>14, Chain, BaseFacts
<1>16. m0 + B * (m1 + B * (m2 + B * m3)) = Val(l) - Val(r)
  BY <1>1, <1>13, BaseFacts DEF Val
<1>17. Val(Vli4(s0, s1, s2, s3)) - c4 * Word = Val(l) - Val(r)
  <2>1. Val(Vli4(s0, s1, s2, s3)) + n4 * Word = Val(l) - Val(r)
    BY <1>15, <1>16, ValVli4, WordFacts
  <2>2. Val(Vli4(s0, s1, s2, s3)) \in Int /\ Word \in Int
    BY <1>11, ValType, WordFacts
  <2> QED
    BY <2>1, <2>2, <1>10, <1>18
<1> QED
  BY <1>0, <1>9, <1>11, <1>17

-----------------------------------------------------------------------------
(* Comparisons.                                                            *)

\* The digit above decides which of two numbers is larger.
LEMMA HornerLess ==
    ASSUME NEW b \in Nat, NEW x \in Nat, NEW y \in Nat, NEW z \in Nat, NEW w \in Nat,
           x < b, y < w
    PROVE  x + b * y < z + b * w
<1>1. b * (y + 1) <= b * w
  OBVIOUS
<1> QED
  BY <1>1

\* The digits of a number, as numbers, and the partial values of its top digits.
Parts4(v, a, b, c, d, e, f) ==
    /\ a = v[0] /\ b = v[1] /\ c = v[2] /\ d = v[3]
    /\ a < B /\ b < B /\ c < B /\ d < B
    /\ e = c + B * d /\ f = b + B * e /\ Val(v) = a + B * f

\* Every number has its digits and partial values.
LEMMA PartsExist ==
    ASSUME NEW v \in Vlis
    PROVE  \E a \in Nat, b \in Nat, c \in Nat, d \in Nat, e \in Nat, f \in Nat :
             Parts4(v, a, b, c, d, e, f)
<1>1. PICK a \in Nat, b \in Nat, c \in Nat, d \in Nat :
        a = v[0] /\ b = v[1] /\ c = v[2] /\ d = v[3] /\ a < B /\ b < B /\ c < B /\ d < B
  BY VliDigits DEF Digit
<1>2. PICK e \in Nat : e = c + B * d
  BY BaseFacts
<1>3. PICK f \in Nat : f = b + B * e
  BY BaseFacts
<1>4. Val(v) = a + B * f
  BY <1>1, <1>2, <1>3 DEF Val
<1> QED
  BY <1>1, <1>2, <1>3, <1>4 DEF Parts4

\* vli_cmp compares the highest digits that differ.
LEMMA TopDigit ==
    ASSUME NEW l, NEW r, NEW k \in Digits, l[k] # r[k],
           \A j \in Digits : j > k => l[j] = r[j]
    PROVE  vli_cmp(l, r) = IF l[k] > r[k] THEN 1 ELSE -1
<1> DEFINE diff == {i \in Digits : l[i] # r[i]}
           top == CHOOSE i \in diff : \A j \in diff : j <= i
<1>1. k \in diff /\ diff \subseteq Digits
  OBVIOUS
<1>2. \A j \in diff : j <= k
  BY DigitsAre
<1>3. top \in diff /\ \A j \in diff : j <= top
  BY <1>1, <1>2
<1>4. top = k
  BY <1>1, <1>2, <1>3, DigitsAre
<1>5. vli_cmp(l, r) = IF diff = {} THEN 0 ELSE IF l[top] > r[top] THEN 1 ELSE -1
  BY DEF vli_cmp
<1> HIDE DEF diff, top
<1> QED
  BY <1>1, <1>4, <1>5

\* vli_cmp returns the sign of the difference.
CmpIs(c, x, y) ==
    /\ c \in {-1, 0, 1}
    /\ (c = 1) = (x > y) /\ (c = 0) = (x = y)

\* vli_cmp is the sign of the difference.
LEMMA CmpExact ==
    ASSUME NEW l \in Vlis, NEW r \in Vlis
    PROVE  CmpIs(vli_cmp(l, r), Val(l), Val(r))
<1>1. PICK a \in Nat, b \in Nat, c \in Nat, d \in Nat, e \in Nat, f \in Nat :
         Parts4(l, a, b, c, d, e, f)
  BY PartsExist
<1>2. PICK aa \in Nat, bb \in Nat, cc \in Nat, dd \in Nat, ee \in Nat, ff \in Nat :
         Parts4(r, aa, bb, cc, dd, ee, ff)
  BY PartsExist
<1>3. /\ a = l[0] /\ b = l[1] /\ c = l[2] /\ d = l[3] /\ a < B /\ b < B /\ c < B /\ d < B
      /\ aa = r[0] /\ bb = r[1] /\ cc = r[2] /\ dd = r[3] /\ aa < B /\ bb < B /\ cc < B /\ dd < B
      /\ B \in Nat
  BY <1>1, <1>2, BaseFacts DEF Parts4
<1>4. PICK x \in Nat, y \in Nat : x = Val(l) /\ y = Val(r)
  BY ValType
<1>5. e = c + B * d /\ f = b + B * e /\ x = a + B * f
  BY <1>1, <1>4 DEF Parts4
<1>6. ee = cc + B * dd /\ ff = bb + B * ee /\ y = aa + B * ff
  BY <1>2, <1>4 DEF Parts4
<1>7. 0 \in Digits /\ 1 \in Digits /\ 2 \in Digits /\ 3 \in Digits
  BY DigitsAre
<1>10. CASE d # dd
  <2>1. vli_cmp(l, r) = IF d > dd THEN 1 ELSE -1
    <3>1. \A j \in Digits : j > 3 => l[j] = r[j]
      BY DigitsAre
    <3> QED
      BY <1>3, <1>7, <1>10, <3>1, TopDigit
  <2>2. CASE d > dd
    <3>1. e > ee
      BY <1>3, <1>5, <1>6, <2>2, HornerLess
    <3>2. f > ff
      BY <1>3, <1>5, <1>6, <3>1, HornerLess
    <3>3. x > y
      BY <1>3, <1>5, <1>6, <3>2, HornerLess
    <3> QED
      BY <1>4, <2>1, <2>2, <3>3 DEF CmpIs
  <2>3. CASE d < dd
    <3>1. e < ee
      BY <1>3, <1>5, <1>6, <2>3, HornerLess
    <3>2. f < ff
      BY <1>3, <1>5, <1>6, <3>1, HornerLess
    <3>3. x < y
      BY <1>3, <1>5, <1>6, <3>2, HornerLess
    <3> QED
      BY <1>4, <2>1, <2>3, <3>3 DEF CmpIs
  <2> QED
    BY <1>10, <2>2, <2>3
<1>11. CASE d = dd /\ c # cc
  <2>1. vli_cmp(l, r) = IF c > cc THEN 1 ELSE -1
    <3>1. \A j \in Digits : j > 2 => l[j] = r[j]
      <4>1. l[3] = r[3]
        BY <1>3, <1>11
      <4>2. \A j \in Digits : j > 2 => (j = 3)
        BY DigitsAre
      <4> QED
        BY <4>1, <4>2
    <3> QED
      BY <1>3, <1>7, <1>11, <3>1, TopDigit
  <2>2. CASE c > cc
    <3>1. e > ee
      BY <1>3, <1>5, <1>6, <2>2, <1>11
    <3>2. f > ff
      BY <1>3, <1>5, <1>6, <3>1, HornerLess
    <3>3. x > y
      BY <1>3, <1>5, <1>6, <3>2, HornerLess
    <3> QED
      BY <1>4, <2>1, <2>2, <3>3 DEF CmpIs
  <2>3. CASE c < cc
    <3>1. e < ee
      BY <1>3, <1>5, <1>6, <2>3, <1>11
    <3>2. f < ff
      BY <1>3, <1>5, <1>6, <3>1, HornerLess
    <3>3. x < y
      BY <1>3, <1>5, <1>6, <3>2, HornerLess
    <3> QED
      BY <1>4, <2>1, <2>3, <3>3 DEF CmpIs
  <2> QED
    BY <1>11, <2>2, <2>3
<1>12. CASE d = dd /\ c = cc /\ b # bb
  <2>0. e = ee
    BY <1>5, <1>6, <1>12
  <2>1. vli_cmp(l, r) = IF b > bb THEN 1 ELSE -1
    <3>1. \A j \in Digits : j > 1 => l[j] = r[j]
      <4>1. l[2] = r[2] /\ l[3] = r[3]
        BY <1>3, <1>12
      <4>2. \A j \in Digits : j > 1 => (j = 2 \/ j = 3)
        BY DigitsAre
      <4> QED
        BY <4>1, <4>2
    <3> QED
      BY <1>3, <1>7, <1>12, <3>1, TopDigit
  <2>2. CASE b > bb
    <3>2. f > ff
      BY <1>3, <1>5, <1>6, <2>2, <2>0
    <3>3. x > y
      BY <1>3, <1>5, <1>6, <3>2, HornerLess
    <3> QED
      BY <1>4, <2>1, <2>2, <3>3 DEF CmpIs
  <2>3. CASE b < bb
    <3>2. f < ff
      BY <1>3, <1>5, <1>6, <2>3, <2>0
    <3>3. x < y
      BY <1>3, <1>5, <1>6, <3>2, HornerLess
    <3> QED
      BY <1>4, <2>1, <2>3, <3>3 DEF CmpIs
  <2> QED
    BY <1>12, <2>2, <2>3
<1>13. CASE d = dd /\ c = cc /\ b = bb /\ a # aa
  <2>0. f = ff
    BY <1>5, <1>6, <1>13
  <2>1. vli_cmp(l, r) = IF a > aa THEN 1 ELSE -1
    <3>1. \A j \in Digits : j > 0 => l[j] = r[j]
      <4>1. l[1] = r[1] /\ l[2] = r[2] /\ l[3] = r[3]
        BY <1>3, <1>13
      <4>2. \A j \in Digits : j > 0 => (j = 1 \/ j = 2 \/ j = 3)
        BY DigitsAre
      <4> QED
        BY <4>1, <4>2
    <3> QED
      BY <1>3, <1>7, <1>13, <3>1, TopDigit
  <2>2. x - y = a - aa
    BY <1>3, <1>5, <1>6, <2>0
  <2> QED
    BY <1>4, <1>13, <2>1, <2>2 DEF CmpIs
<1>14. CASE d = dd /\ c = cc /\ b = bb /\ a = aa
  <2>1. x = y
    BY <1>5, <1>6, <1>14
  <2>2. vli_cmp(l, r) = 0
    BY <1>3, <1>14, DigitsAre DEF vli_cmp
  <2> QED
    BY <1>4, <2>1, <2>2 DEF CmpIs
<1> QED
  BY <1>10, <1>11, <1>12, <1>13, <1>14

\* vli_isZero holds of zero alone.
LEMMA ZeroExact ==
    ASSUME NEW v \in Vlis
    PROVE  vli_isZero(v) = (Val(v) = 0)
<1>1. PICK a \in Nat, b \in Nat, c \in Nat, d \in Nat, e \in Nat, f \in Nat :
         Parts4(v, a, b, c, d, e, f)
  BY PartsExist
<1>2. a = v[0] /\ b = v[1] /\ c = v[2] /\ d = v[3]
  BY <1>1 DEF Parts4
<1>3. e = c + B * d /\ f = b + B * e /\ Val(v) = a + B * f /\ B \in Nat /\ B >= 4
  BY <1>1, BaseFacts DEF Parts4
<1>4. vli_isZero(v) = (a = 0 /\ b = 0 /\ c = 0 /\ d = 0)
  BY <1>2, DigitsAre DEF vli_isZero
<1>5. (e = 0) = (c = 0 /\ d = 0)
  BY <1>3
<1>6. (f = 0) = (b = 0 /\ e = 0)
  BY <1>3
<1>7. (a + B * f = 0) = (a = 0 /\ f = 0)
  BY <1>3
<1> QED
  BY <1>3, <1>4, <1>5, <1>6, <1>7

-----------------------------------------------------------------------------
(* Shifts.                                                                 *)

\* A digit doubled: its top bit leaves it.
LEMMA DoubleDigit ==
    ASSUME NEW x \in Nat, x < B
    PROVE  /\ x \div Top \in {0, 1}
           /\ (x * 2) % B \in Nat /\ (x * 2) % B <= B - 2
           /\ ((x * 2) % B) + (x \div Top) * B = 2 * x
<1>0. B \in Nat /\ B > 0 /\ Top \in Nat /\ Top > 0 /\ B = 2 * Top
  BY BaseFacts, TopFacts
<1>1. CASE x < Top
  <2>1. x \div Top = 0
    BY <1>0, <1>1, ModSmall
  <2>2. (x * 2) % B = 2 * x
    BY <1>0, <1>1, ModSmall
  <2> QED
    BY <1>0, <1>1, <2>1, <2>2
<1>2. CASE x >= Top
  <2>1. x = 1 * Top + (x - Top) /\ x - Top < Top /\ 0 <= x - Top
    BY <1>0, <1>2
  <2>2. x \div Top = 1
    <3>1. PICK y \in Int : y = x - Top
      BY <1>0
    <3> QED
      BY <1>0, <2>1, <3>1, DivModUnique
  <2>3. (x * 2) % B = 2 * x - B
    <3>1. PICK y \in Int : y = x * 2
      BY <1>0
    <3>2. B <= y /\ y < 2 * B
      BY <1>0, <1>2, <3>1
    <3> QED
      BY <1>0, <3>1, <3>2, ModOnce
  <2> QED
    BY <1>0, <1>2, <2>2, <2>3
<1> QED
  BY <1>0, <1>1, <1>2

\* A digit halved, and the bit that leaves it for the top of the digit below.
LEMMA HalveDigit ==
    ASSUME NEW x \in Nat, x < B
    PROVE  /\ x \div 2 \in Nat /\ x \div 2 < Top /\ x % 2 \in {0, 1}
           /\ x = 2 * (x \div 2) + (x % 2)
           /\ (x * Top) % B = (x % 2) * Top
<1>0. B \in Nat /\ B > 0 /\ Top \in Nat /\ Top > 0 /\ B = 2 * Top
  BY BaseFacts, TopFacts
<1>1. PICK q \in Nat, e \in {0, 1} : q = x \div 2 /\ e = x % 2 /\ x = 2 * q + e
  OBVIOUS
<1>2. q < Top
  BY <1>0, <1>1
<1>3. PICK t \in Nat : t = e * Top
  BY <1>0
<1>4. t < B
  BY <1>0, <1>3
<1>5. x * Top = q * B + t
  <2>1. PICK qt \in Nat : qt = q * Top
    BY <1>0
  <2>2. x * Top = 2 * qt + t
    BY <1>0, <1>1, <1>3, <2>1
  <2>3. q * B = 2 * qt
    BY <1>0, <2>1
  <2> QED
    BY <2>2, <2>3
<1>6. PICK y \in Int : y = x * Top
  BY <1>0
<1>7. y % B = t
  <2>1. y = q * B + t /\ 0 <= t
    BY <1>5, <1>6
  <2>2. B \in Int /\ B > 0 /\ t < B
    BY <1>0, <1>4
  <2> QED
    BY ONLY <2>1, <2>2, DivModUnique, y \in Int, q \in Nat, t \in Nat
<1> QED
  BY <1>1, <1>2, <1>3, <1>6, <1>7

\* A function over the four places is a vector written out.
LEMMA FunIsVli4 ==
    ASSUME NEW f, f = [i \in Digits |-> f[i]]
    PROVE  f = Vli4(f[0], f[1], f[2], f[3])
<1>1. Vli4(f[0], f[1], f[2], f[3]) = [i \in Digits |-> f[i]]
  <2>1. \A i \in Digits : <<f[0], f[1], f[2], f[3]>>[i + 1] = f[i]
    BY DigitsAre
  <2> QED
    BY <2>1 DEF Vli4
<1> QED
  BY <1>1

\* vli_lshift by one bit, digit by digit.
LEMMA LshiftIs ==
    ASSUME NEW v
    PROVE  vli_lshift(v, 2) =
             [result |-> Vli4(((v[0] * 2) % B) + 0, ((v[1] * 2) % B) + (v[0] \div Top),
                              ((v[2] * 2) % B) + (v[1] \div Top), ((v[3] * 2) % B) +
                                (v[2] \div Top)),
              carry  |-> v[3] \div Top]
<1> DEFINE out(i) == IF i < 0 THEN 0 ELSE v[i] \div (B \div 2)
           f == [i \in Digits |-> ((v[i] * 2) % B) + out(i - 1)]
<1>1. vli_lshift(v, 2) = [result |-> f, carry |-> out(NUM_ECC_DIGITS - 1)]
  BY DEF vli_lshift
<1>2. out(NUM_ECC_DIGITS - 1) = v[3] \div Top
  BY DEF NUM_ECC_DIGITS, Top
<1>3. f[0] = ((v[0] * 2) % B) + 0 /\ f[1] = ((v[1] * 2) % B) + (v[0] \div Top)
  BY DigitsAre DEF Top
<1>4. f[2] = ((v[2] * 2) % B) + (v[1] \div Top) /\ f[3] = ((v[3] * 2) % B) + (v[2] \div Top)
  BY DigitsAre DEF Top
<1>5. f = [i \in Digits |-> f[i]]
  OBVIOUS
<1> HIDE DEF f
<1>6. f = Vli4(f[0], f[1], f[2], f[3])
  BY <1>5, FunIsVli4
<1> QED
  BY <1>1, <1>2, <1>3, <1>4, <1>6

\* vli_lshift by one bit doubles, its carry included.
LEMMA LshiftExact ==
    ASSUME NEW v \in Vlis
    PROVE  LET s == vli_lshift(v, 2)
           IN  /\ s.result \in Vlis /\ Flag(s.carry)
               /\ Val(s.result) + s.carry * Word = 2 * Val(v)
<1> DEFINE c1 == v[0] \div Top
           c2 == v[1] \div Top
           c3 == v[2] \div Top
           c4 == v[3] \div Top
           t0 == (v[0] * 2) % B
           t1 == (v[1] * 2) % B
           t2 == (v[2] * 2) % B
           t3 == (v[3] * 2) % B
<1>1. /\ v[0] \in Nat /\ v[0] < B /\ v[1] \in Nat /\ v[1] < B
      /\ v[2] \in Nat /\ v[2] < B /\ v[3] \in Nat /\ v[3] < B
  BY VliDigits DEF Digit
<1>2. c1 \in {0, 1} /\ t0 \in Nat /\ t0 <= B - 2 /\ t0 + c1 * B = 2 * v[0]
  BY <1>1, DoubleDigit
<1>3. c2 \in {0, 1} /\ t1 \in Nat /\ t1 <= B - 2 /\ t1 + c2 * B = 2 * v[1]
  BY <1>1, DoubleDigit
<1>4. c3 \in {0, 1} /\ t2 \in Nat /\ t2 <= B - 2 /\ t2 + c3 * B = 2 * v[2]
  BY <1>1, DoubleDigit
<1>5. c4 \in {0, 1} /\ t3 \in Nat /\ t3 <= B - 2 /\ t3 + c4 * B = 2 * v[3]
  BY <1>1, DoubleDigit
<1>6. vli_lshift(v, 2) = [result |-> Vli4(t0 + 0, t1 + c1, t2 + c2, t3 + c3), carry |-> c4]
  BY LshiftIs
<1> HIDE DEF c1, c2, c3, c4, t0, t1, t2, t3
<1>7. PICK s0 \in Nat, s1 \in Nat, s2 \in Nat, s3 \in Nat :
        s0 = t0 + 0 /\ s1 = t1 + c1 /\ s2 = t2 + c2 /\ s3 = t3 + c3
  BY <1>2, <1>3, <1>4, <1>5
<1>8. Vli4(s0, s1, s2, s3) \in Vlis
  BY <1>2, <1>3, <1>4, <1>5, <1>7, BaseFacts, Vli4Type DEF Digit
<1>9. PICK m0 \in Int, m1 \in Int, m2 \in Int, m3 \in Int :
        m0 = 2 * v[0] /\ m1 = 2 * v[1] /\ m2 = 2 * v[2] /\ m3 = 2 * v[3]
  BY <1>1
<1>10. s0 + c1 * B = m0 /\ s1 + c2 * B = m1 + c1 /\ s2 + c3 * B = m2 + c2 /\ s3 + c4 * B = m3 + c3
  <2>0. B \in Nat
    BY BaseFacts
  <2>1. s0 + c1 * B = m0
    BY <2>0, <1>1, <1>2, <1>7, <1>9
  <2>2. s1 + c2 * B = m1 + c1
    BY <2>0, <1>1, <1>2, <1>3, <1>7, <1>9
  <2>3. s2 + c3 * B = m2 + c2
    BY <2>0, <1>1, <1>3, <1>4, <1>7, <1>9
  <2>4. s3 + c4 * B = m3 + c3
    BY <2>0, <1>1, <1>4, <1>5, <1>7, <1>9
  <2> QED
    BY <2>1, <2>2, <2>3, <2>4
<1>11. s0 + B * (s1 + B * (s2 + B * s3)) + c4 * (B * (B * (B * B)))
         = m0 + B * (m1 + B * (m2 + B * m3))
  BY <1>2, <1>3, <1>4, <1>5, <1>10, Chain, BaseFacts
<1>12. m0 + B * (m1 + B * (m2 + B * m3)) = 2 * Val(v)
  <2>1. PICK a \in Nat, b \in Nat, c \in Nat, d \in Nat : a = v[0] /\ b = v[1] /\ c = v[2] /\
             d = v[3]
    BY <1>1
  <2>2. m0 + B * (m1 + B * (m2 + B * m3)) = 2 * (a + B * (b + B * (c + B * d)))
    <3>0. B \in Nat
      BY BaseFacts
    <3>1. m0 = 2 * a /\ m1 = 2 * b /\ m2 = 2 * c /\ m3 = 2 * d
      BY <1>9, <2>1
    <3> QED
      BY ONLY <3>0, <3>1, a \in Nat, b \in Nat, c \in Nat, d \in Nat
  <2> QED
    BY <2>1, <2>2 DEF Val
<1>13. Val(Vli4(s0, s1, s2, s3)) + c4 * Word = 2 * Val(v)
  BY <1>11, <1>12, ValVli4, WordFacts
<1> QED
  BY <1>5, <1>6, <1>7, <1>8, <1>13 DEF Flag

\* vli_rshift1, digit by digit.
LEMMA RshiftIs ==
    ASSUME NEW v
    PROVE  vli_rshift1(v) = Vli4((v[0] \div 2) + ((v[1] * Top) % B), (v[1] \div 2) +
               ((v[2] * Top) % B),
                                 (v[2] \div 2) + ((v[3] * Top) % B), (v[3] \div 2) + 0)
<1> DEFINE f == [i \in Digits |-> v[i] \div 2
                    + IF i + 1 \in Digits THEN (v[i + 1] * Top) % B ELSE 0]
<1>1. vli_rshift1(v) = f
  BY DEF vli_rshift1
<1>2. f[0] = (v[0] \div 2) + ((v[1] * Top) % B) /\ f[1] = (v[1] \div 2) + ((v[2] * Top) % B)
  BY DigitsAre
<1>3. f[2] = (v[2] \div 2) + ((v[3] * Top) % B) /\ f[3] = (v[3] \div 2) + 0
  BY DigitsAre
<1>4. f = [i \in Digits |-> f[i]]
  OBVIOUS
<1> HIDE DEF f
<1>5. f = Vli4(f[0], f[1], f[2], f[3])
  BY <1>4, FunIsVli4
<1> QED
  BY <1>1, <1>2, <1>3, <1>5

\* vli_rshift1 halves.
LEMMA RshiftExact ==
    ASSUME NEW v \in Vlis
    PROVE  vli_rshift1(v) \in Vlis /\ Val(vli_rshift1(v)) = Val(v) \div 2
<1> DEFINE q0 == v[0] \div 2
           q1 == v[1] \div 2
           q2 == v[2] \div 2
           q3 == v[3] \div 2
           e0 == v[0] % 2
           e1 == v[1] % 2
           e2 == v[2] % 2
           e3 == v[3] % 2
<1>1. /\ v[0] \in Nat /\ v[0] < B /\ v[1] \in Nat /\ v[1] < B
      /\ v[2] \in Nat /\ v[2] < B /\ v[3] \in Nat /\ v[3] < B
  BY VliDigits DEF Digit
<1>2. /\ q0 \in Nat /\ q0 < Top /\ e0 \in {0, 1} /\ v[0] = 2 * q0 + e0
      /\ (v[0] * Top) % B = e0 * Top
  BY <1>1, HalveDigit
<1>3. /\ q1 \in Nat /\ q1 < Top /\ e1 \in {0, 1} /\ v[1] = 2 * q1 + e1
      /\ (v[1] * Top) % B = e1 * Top
  BY <1>1, HalveDigit
<1>4. /\ q2 \in Nat /\ q2 < Top /\ e2 \in {0, 1} /\ v[2] = 2 * q2 + e2
      /\ (v[2] * Top) % B = e2 * Top
  BY <1>1, HalveDigit
<1>5. /\ q3 \in Nat /\ q3 < Top /\ e3 \in {0, 1} /\ v[3] = 2 * q3 + e3
      /\ (v[3] * Top) % B = e3 * Top
  BY <1>1, HalveDigit
<1>6. vli_rshift1(v) = Vli4(q0 + e1 * Top, q1 + e2 * Top, q2 + e3 * Top, q3 + 0)
  BY <1>3, <1>4, <1>5, RshiftIs
<1> HIDE DEF q0, q1, q2, q3, e0, e1, e2, e3
<1>7. Top \in Nat /\ B \in Nat /\ B = 2 * Top
  BY TopFacts, BaseFacts
<1>8. PICK s0 \in Nat, s1 \in Nat, s2 \in Nat, s3 \in Nat :
        s0 = q0 + e1 * Top /\ s1 = q1 + e2 * Top /\ s2 = q2 + e3 * Top /\ s3 = q3 + 0
  BY <1>2, <1>3, <1>4, <1>5, <1>7
<1>9. s0 < B /\ s1 < B /\ s2 < B /\ s3 < B
  BY <1>2, <1>3, <1>4, <1>5, <1>7, <1>8
<1>10. Vli4(s0, s1, s2, s3) \in Vlis
  BY <1>9, Vli4Type DEF Digit
<1>11. PICK u0 \in Int, u1 \in Int, u2 \in Int, u3 \in Int, n1 \in Int, n2 \in Int, n3 \in Int,
           n4 \in Int,
            m0 \in Int, m1 \in Int, m2 \in Int, m3 \in Int :
        /\ u0 = 2 * s0 /\ u1 = 2 * s1 /\ u2 = 2 * s2 /\ u3 = 2 * s3
        /\ n1 = - e1 /\ n2 = - e2 /\ n3 = - e3 /\ n4 = 0
        /\ m0 = v[0] - e0 /\ m1 = v[1] /\ m2 = v[2] /\ m3 = v[3]
  BY <1>1, <1>2, <1>3, <1>4, <1>5
<1>12. u0 + n1 * B = m0 /\ u1 + n2 * B = m1 + n1 /\ u2 + n3 * B = m2 + n2 /\ u3 + n4 * B = m3 + n3
  BY <1>1, <1>2, <1>3, <1>4, <1>5, <1>7, <1>8, <1>11
<1>13. u0 + B * (u1 + B * (u2 + B * u3)) + n4 * (B * (B * (B * B)))
         = m0 + B * (m1 + B * (m2 + B * m3))
  BY <1>12, Chain, BaseFacts
<1>14. m0 + B * (m1 + B * (m2 + B * m3)) = Val(v) - e0
  BY <1>1, <1>2, <1>11, BaseFacts DEF Val
<1>15. u0 + B * (u1 + B * (u2 + B * u3)) = 2 * Val(Vli4(s0, s1, s2, s3))
  BY <1>7, <1>8, <1>11, ValVli4
<1>16. PICK x \in Nat, y \in Nat : x = Val(v) /\ y = Val(Vli4(s0, s1, s2, s3))
  BY <1>10, ValType
<1>17. n4 * (B * (B * (B * B))) = 0
  BY <1>7, <1>11
<1>18. x = 2 * y + e0
  BY <1>2, <1>13, <1>14, <1>15, <1>16, <1>17, <1>7
<1>19. y = x \div 2
  BY <1>2, <1>18
<1> QED
  BY <1>6, <1>8, <1>10, <1>16, <1>19

-----------------------------------------------------------------------------
(* The prime, and the modular operations.                                  *)

\* t^8 - t^7 + t^6 + t^3 - 1 with t = H.
LEMMA PrimeIs ==
    /\ curve_p_digits \in Vlis
    /\ Prime = (B - 1) + B * ((H - 1) + B * (0 + B * (B - H + 1)))
    /\ Prime \in Nat /\ Prime > 0 /\ Prime < Word
<1>0. B \in Nat /\ H \in Nat /\ H >= 2 /\ B = H * H /\ B >= 2 * H
  BY BaseFacts
<1>1. (B - 1) \div H = H - 1
  <2>1. PICK x \in Int, q \in Int : x = B - 1 /\ q = H - 1
    BY <1>0
  <2>2. x = q * H + q /\ q < H /\ 0 <= q
    BY <1>0, <2>1
  <2> QED
    BY <1>0, <2>1, <2>2, DivModUnique
<1>2. hi(B - 1) + 1 = B - H + 1
  BY <1>0, <1>1 DEF hi
<1>3. PICK d0 \in Nat, d1 \in Nat, d3 \in Nat : d0 = B - 1 /\ d1 = H - 1 /\ d3 = B - H + 1
  BY <1>0
<1>4. curve_p_digits = Vli4(d0, d1, 0, d3)
  BY <1>2, <1>3 DEF curve_p_digits
<1>5. d0 < B /\ d1 < B /\ d3 < B /\ d0 > 0 /\ 0 < B
  BY <1>0, <1>3
<1>6. curve_p_digits \in Vlis
  BY <1>4, <1>5, Vli4Type DEF Digit
<1>7. Prime = d0 + B * (d1 + B * (0 + B * d3))
  BY <1>4, ValVli4 DEF Prime
<1>8. Prime \in Nat /\ Prime < Word
  BY <1>6, ValType DEF Prime
<1>9. Prime > 0
  <2>1. PICK e \in Nat : e = d1 + B * (0 + B * d3)
    BY <1>0
  <2>2. B * e \in Nat
    BY <1>0
  <2> QED
    BY <1>7, <1>5, <2>1, <2>2
<1> QED
  BY <1>3, <1>6, <1>7, <1>8, <1>9

\* vli_modAdd reduces the sum of reduced numbers with one subtraction.
LEMMA ModAddExact ==
    ASSUME NEW l \in Vlis, NEW r \in Vlis, NEW mod \in Vlis,
           Val(l) < Val(mod), Val(r) < Val(mod)
    PROVE  /\ vli_modAdd(l, r, mod) \in Vlis
           /\ Val(vli_modAdd(l, r, mod)) = (Val(l) + Val(r)) % Val(mod)
<1> DEFINE s == vli_add(l, r)
           d == vli_sub(s.result, mod)
<1>1. s.result \in Vlis /\ s.carry \in {0, 1} /\ Val(s.result) + s.carry * Word = Val(l) + Val(r)
  BY AddExact DEF Flag
<1>2. d.result \in Vlis /\ d.borrow \in {0, 1} /\
           Val(d.result) - d.borrow * Word = Val(s.result) - Val(mod)
  BY <1>1, SubExact DEF Flag
<1>3. CmpIs(vli_cmp(s.result, mod), Val(s.result), Val(mod))
  BY <1>1, CmpExact
<1>4. vli_modAdd(l, r, mod) = IF s.carry = 1 \/ vli_cmp(s.result,
           mod) >= 0 THEN d.result ELSE s.result
  BY DEF vli_modAdd
<1> HIDE DEF s, d
<1>5. PICK x \in Nat, y \in Nat, m \in Nat, z \in Nat, w \in Nat, c \in {0, 1}, b \in {0, 1} :
        /\ x = Val(l) /\ y = Val(r) /\ m = Val(mod) /\ z = Val(s.result) /\ w = Val(d.result)
        /\ c = s.carry /\ b = d.borrow
        /\ m < Word /\ z < Word /\ w < Word
  BY <1>1, <1>2, ValType
<1>6. Word \in Nat /\ z + c * Word = x + y /\ w - b * Word = z - m /\ x < m /\ y < m
  BY <1>1, <1>2, <1>5, WordFacts
<1>7. PICK t \in Nat : t = x + y
  OBVIOUS
<1>8. CASE c = 1 \/ z >= m
  <2>1. vli_modAdd(l, r, mod) = d.result
    BY <1>3, <1>4, <1>5, <1>8 DEF CmpIs
  <2>2. t >= m /\ t < 2 * m /\ w = t - m
    BY <1>5, <1>6, <1>7, <1>8
  <2>3. t % m = t - m
    BY <2>2, <1>6, ModOnce
  <2> QED
    BY <1>2, <1>5, <1>7, <2>1, <2>2, <2>3
<1>9. CASE c = 0 /\ z < m
  <2>1. vli_modAdd(l, r, mod) = s.result
    BY <1>3, <1>4, <1>5, <1>9 DEF CmpIs
  <2>2. t = z
    BY <1>6, <1>7, <1>9
  <2>3. t % m = t
    BY <2>2, <1>9, ModSmall
  <2> QED
    BY <1>1, <1>5, <1>7, <2>1, <2>2, <2>3
<1> QED
  BY <1>8, <1>9

\* vli_modSub reduces their difference with one addition.
LEMMA ModSubExact ==
    ASSUME NEW l \in Vlis, NEW r \in Vlis, NEW mod \in Vlis,
           Val(l) < Val(mod), Val(r) < Val(mod)
    PROVE  /\ vli_modSub(l, r, mod) \in Vlis
           /\ Val(vli_modSub(l, r, mod)) = (Val(l) - Val(r)) % Val(mod)
<1> DEFINE d == vli_sub(l, r)
           s == vli_add(d.result, mod)
<1>1. d.result \in Vlis /\ d.borrow \in {0, 1} /\ Val(d.result) - d.borrow * Word = Val(l) - Val(r)
  BY SubExact DEF Flag
<1>2. s.result \in Vlis /\ s.carry \in {0, 1} /\ Val(s.result) +
           s.carry * Word = Val(d.result) + Val(mod)
  BY <1>1, AddExact DEF Flag
<1>4. vli_modSub(l, r, mod) = IF d.borrow = 1 THEN s.result ELSE d.result
  BY DEF vli_modSub
<1> HIDE DEF s, d
<1>5. PICK x \in Nat, y \in Nat, m \in Nat, z \in Nat, w \in Nat, c \in {0, 1}, b \in {0, 1} :
        /\ x = Val(l) /\ y = Val(r) /\ m = Val(mod) /\ z = Val(s.result) /\ w = Val(d.result)
        /\ c = s.carry /\ b = d.borrow
        /\ m < Word /\ z < Word /\ w < Word
  BY <1>1, <1>2, ValType
<1>6. Word \in Nat /\ z + c * Word = w + m /\ w - b * Word = x - y /\ x < m /\ y < m
  BY <1>1, <1>2, <1>5, WordFacts
<1>7. PICK t \in Int : t = x - y
  OBVIOUS
<1>8. CASE b = 1
  <2>2. t < 0 /\ t + m >= 0 /\ z = t + m
    BY <1>5, <1>6, <1>7, <1>8
  <2>3. t % m = t + m
    BY <2>2, <1>6, ModBelow
  <2> QED
    BY <1>2, <1>4, <1>5, <1>7, <1>8, <2>2, <2>3
<1>9. CASE b = 0
  <2>2. t = w /\ t >= 0 /\ t < m
    BY <1>5, <1>6, <1>7, <1>9
  <2>3. t % m = t
    BY <2>2, <1>6, ModSmall
  <2> QED
    BY <1>1, <1>4, <1>5, <1>7, <1>9, <2>2, <2>3
<1> QED
  BY <1>8, <1>9

\* The number an accumulator of vli_mmod_fast stands for.
Total(acc) == Val(acc.r) + acc.carry * Word

\* Plus adds, its carry counted.
LEMMA PlusExact ==
    ASSUME NEW acc \in [r : Vlis, carry : Int], NEW t \in Vlis
    PROVE  /\ Plus(acc, t) \in [r : Vlis, carry : Int]
           /\ Total(Plus(acc, t)) = Total(acc) + Val(t)
<1> DEFINE s == vli_add(acc.r, t)
<1>1. acc.r \in Vlis /\ acc.carry \in Int
  OBVIOUS
<1>2. s.result \in Vlis /\ s.carry \in {0, 1} /\ Val(s.result) + s.carry * Word = Val(acc.r) +
           Val(t)
  BY <1>1, AddExact DEF Flag
<1>3. Plus(acc, t) = [r |-> s.result, carry |-> acc.carry + s.carry]
  BY DEF Plus, Carry
<1> HIDE DEF s
<1>4. PICK x \in Nat, y \in Nat, z \in Nat, c \in Int, a \in Int :
        x = Val(acc.r) /\ y = Val(t) /\ z = Val(s.result) /\ c = s.carry /\ a = acc.carry
  BY <1>1, <1>2, ValType
<1>5. z + (a + c) * Word = x + a * Word + y
  <2>1. Word \in Nat /\ z + c * Word = x + y
    BY <1>2, <1>4, WordFacts
  <2> QED
    BY ONLY <2>1, x \in Nat, y \in Nat, z \in Nat, c \in Int, a \in Int
<1>6. Plus(acc, t) \in [r : Vlis, carry : Int]
  BY <1>1, <1>2, <1>3
<1>7. Plus(acc, t).r = s.result /\ Plus(acc, t).carry = acc.carry + s.carry
  BY <1>3
<1>8. Total(Plus(acc, t)) = Total(acc) + Val(t)
  BY <1>4, <1>5, <1>7 DEF Total
<1> QED
  BY <1>6, <1>8

\* Minus subtracts, its borrow counted.
LEMMA MinusExact ==
    ASSUME NEW acc \in [r : Vlis, carry : Int], NEW t \in Vlis
    PROVE  /\ Minus(acc, t) \in [r : Vlis, carry : Int]
           /\ Total(Minus(acc, t)) = Total(acc) - Val(t)
<1> DEFINE s == vli_sub(acc.r, t)
<1>1. acc.r \in Vlis /\ acc.carry \in Int
  OBVIOUS
<1>2. s.result \in Vlis /\ s.borrow \in {0, 1} /\
           Val(s.result) - s.borrow * Word = Val(acc.r) - Val(t)
  BY <1>1, SubExact DEF Flag
<1>3. Minus(acc, t) = [r |-> s.result, carry |-> acc.carry - s.borrow]
  BY DEF Minus, Borrow
<1> HIDE DEF s
<1>4. PICK x \in Nat, y \in Nat, z \in Nat, c \in Int, a \in Int :
        x = Val(acc.r) /\ y = Val(t) /\ z = Val(s.result) /\ c = s.borrow /\ a = acc.carry
  BY <1>1, <1>2, ValType
<1>5. z + (a - c) * Word = x + a * Word - y
  <2>1. Word \in Nat /\ z - c * Word = x - y
    BY <1>2, <1>4, WordFacts
  <2> QED
    BY ONLY <2>1, x \in Nat, y \in Nat, z \in Nat, c \in Int, a \in Int
<1>6. Minus(acc, t) \in [r : Vlis, carry : Int]
  BY <1>1, <1>2, <1>3
<1>7. Minus(acc, t).r = s.result /\ Minus(acc, t).carry = acc.carry - s.borrow
  BY <1>3
<1>8. Total(Minus(acc, t)) = Total(acc) - Val(t)
  <2>1. Total(Minus(acc, t)) = z + (a - c) * Word
    BY <1>4, <1>7 DEF Total
  <2>2. Total(acc) = x + a * Word
    BY <1>4 DEF Total
  <2> QED
    BY <1>4, <1>5, <2>1, <2>2, WordFacts
<1> QED
  BY <1>6, <1>8

\* Plus2 adds twice the number, the bit that the shift pushes out counted.
LEMMA Plus2Exact ==
    ASSUME NEW acc \in [r : Vlis, carry : Int], NEW t \in Vlis
    PROVE  /\ Plus2(acc, t) \in [r : Vlis, carry : Int]
           /\ Total(Plus2(acc, t)) = Total(acc) + 2 * Val(t)
<1> DEFINE d == vli_lshift(t, 2)
           s == vli_add(acc.r, d.result)
<1>1. acc.r \in Vlis /\ acc.carry \in Int
  OBVIOUS
<1>0. d.result \in Vlis /\ d.carry \in {0, 1} /\ Val(d.result) + d.carry * Word = 2 * Val(t)
  BY LshiftExact DEF Flag
<1>2. s.result \in Vlis /\ s.carry \in {0, 1} /\ Val(s.result) + s.carry * Word = Val(acc.r) +
           Val(d.result)
  BY <1>0, <1>1, AddExact DEF Flag
<1>3. Plus2(acc, t) = [r |-> s.result, carry |-> acc.carry + d.carry + s.carry]
  BY DEF Plus2, Carry
<1> HIDE DEF s, d
<1>4. PICK x \in Nat, y \in Nat, z \in Nat, w \in Nat, c \in Int, a \in Int, e \in Int :
        /\ x = Val(acc.r) /\ y = Val(t) /\ z = Val(s.result) /\ c = s.carry /\ a = acc.carry
        /\ w = Val(d.result) /\ e = d.carry
  <2>1. Val(acc.r) \in Nat /\ Val(t) \in Nat /\ Val(s.result) \in Nat /\ Val(d.result) \in Nat
    BY <1>0, <1>1, <1>2, ValType
  <2>2. s.carry \in Int /\ d.carry \in Int
    BY <1>0, <1>2
  <2> QED
    BY <1>1, <2>1, <2>2
<1>5. z + (a + e + c) * Word = x + a * Word + 2 * y
  <2>1. Word \in Nat /\ z + c * Word = x + w /\ w + e * Word = 2 * y
    BY <1>0, <1>2, <1>4, WordFacts
  <2> QED
    BY ONLY <2>1, x \in Nat, y \in Nat, z \in Nat, w \in Nat, c \in Int, a \in Int, e \in Int
<1>6. Plus2(acc, t) \in [r : Vlis, carry : Int]
  BY <1>0, <1>1, <1>2, <1>3
<1>7. Plus2(acc, t).r = s.result /\ Plus2(acc, t).carry = acc.carry + d.carry + s.carry
  BY <1>3
<1>8. Total(Plus2(acc, t)) = Total(acc) + 2 * Val(t)
  BY <1>4, <1>5, <1>7 DEF Total
<1> QED
  BY <1>6, <1>8

-----------------------------------------------------------------------------
(* The final correction.                                                   *)

\* Induction over the natural numbers, for a set of them.
LEMMA AllNumbers ==
    ASSUME NEW S, 0 \in S, \A n \in Nat : n \in S => n + 1 \in S
    PROVE  Nat \subseteq S
<1>. SUFFICES ASSUME NEW z \in Nat \ S PROVE FALSE
  OBVIOUS
<1>. DEFINE R == OpToRel(<, Nat)
            T == Nat \ S
<1>1. IsWellFoundedOn(R, Nat) /\ T \subseteq Nat /\ T # {}
  BY NatLessThanWellFounded
<1>. HIDE DEF R
<1>2. PICK x \in T : \A y \in T : ~(<<y, x>> \in R)
  <2>. HIDE DEF T
  <2>. QED
    BY <1>1, WFMin
<1>3. x \in Nat /\ x \notin S
  OBVIOUS
<1>4. x # 0 /\ x - 1 \in Nat
  BY <1>3
<1>5. <<x - 1, x>> \in R
  BY <1>3, <1>4 DEF R, OpToRel
<1>6. x - 1 \in S
  BY <1>2, <1>3, <1>4, <1>5
<1>7. x - 1 + 1 \in S
  BY <1>4, <1>6
<1>. QED
  BY <1>3, <1>7

\* Adding or subtracting the modulus keeps the remainder.
LEMMA ModShift ==
    ASSUME NEW t \in Int, NEW p \in Nat, p > 0
    PROVE  (t + p) % p = t % p /\ (t - p) % p = t % p
<1>1. PICK q \in Int, r \in Int : t = q * p + r /\ 0 <= r /\ r < p /\ t % p = r
  BY DivMod
<1>2. PICK x \in Int, y \in Int, a \in Int, b \in Int :
        x = t + p /\ y = t - p /\ a = q + 1 /\ b = q - 1
  OBVIOUS
<1>3. x = a * p + r /\ y = b * p + r
  BY <1>1, <1>2
<1>4. x % p = r
  BY <1>1, <1>3, DivModUnique
<1>5. y % p = r
  BY <1>1, <1>3, DivModUnique
<1> QED
  BY <1>1, <1>2, <1>4, <1>5

Accs    == [r : Vlis, carry : Int]
NatAccs == [r : Vlis, carry : Nat]

\* The number an accumulator is reduced to.
Reduced(acc) == ToVli(Total(acc) % Prime)

\* The carry of an accumulator is the sign of its number.
LEMMA AccFacts ==
    ASSUME NEW acc \in Accs
    PROVE  /\ acc.r \in Vlis /\ acc.carry \in Int /\ Val(acc.r) \in Nat /\ Val(acc.r) < Word
           /\ Total(acc) \in Int /\ Total(acc) = Val(acc.r) + acc.carry * Word
           /\ (acc.carry < 0) = (Total(acc) < 0)
           /\ (acc.carry = 0) = (0 <= Total(acc) /\ Total(acc) < Word)
<1>1. acc.r \in Vlis /\ acc.carry \in Int
  BY DEF Accs
<1>2. PICK v \in Nat, c \in Int : v = Val(acc.r) /\ c = acc.carry /\ v < Word
  BY <1>1, ValType
<1>3. Word \in Nat
  BY WordFacts
<1>4. PICK t \in Int : t = v + c * Word
  BY <1>3
<1>5. (c < 0) = (t < 0)
  <2>1. CASE c < 0
    <3>1. c * Word <= (-1) * Word
      BY <1>3, <2>1
    <3> QED
      BY <1>2, <1>3, <1>4, <2>1, <3>1
  <2>2. CASE c >= 0
    <3>1. c * Word \in Nat
      BY <1>3, <2>2
    <3> QED
      BY <1>2, <1>3, <1>4, <2>2, <3>1
  <2> QED
    BY <2>1, <2>2
<1>6. (c = 0) = (0 <= t /\ t < Word)
  <2>1. CASE c <= 0
    BY <1>2, <1>3, <1>4, <1>5, <2>1
  <2>2. CASE c >= 1
    <3>1. c * Word >= 1 * Word
      BY <1>3, <2>2
    <3> QED
      BY <1>2, <1>3, <1>4, <2>2, <3>1
  <2> QED
    BY <2>1, <2>2
<1> QED
  BY <1>1, <1>2, <1>4, <1>5, <1>6 DEF Total

\* An accumulator below Prime is reduced.
LEMMA ReducedFacts ==
    ASSUME NEW acc \in Accs, 0 <= Total(acc), Total(acc) < Prime
    PROVE  Reduced(acc) = acc.r
<1>1. acc.r \in Vlis /\ Total(acc) \in Int /\ Total(acc) = Val(acc.r) + acc.carry * Word
  BY AccFacts
<1>2. Prime \in Nat /\ Prime < Word /\ Word \in Nat /\ Prime > 0
  BY PrimeIs, WordFacts
<1>3. acc.carry = 0
  BY AccFacts, <1>1, <1>2
<1>4. Total(acc) = Val(acc.r)
  BY <1>1, <1>2, <1>3, ValType
<1>5. Total(acc) % Prime = Total(acc)
  BY <1>1, <1>2, ModSmall
<1> QED
  BY <1>1, <1>4, <1>5, ToVliVal DEF Reduced

\* Adding curve_p_digits keeps the remainder.
LEMMA PlusPrime ==
    ASSUME NEW acc \in Accs
    PROVE  /\ Plus(acc, curve_p_digits) \in Accs
           /\ Total(Plus(acc, curve_p_digits)) = Total(acc) + Prime
           /\ Reduced(Plus(acc, curve_p_digits)) = Reduced(acc)
<1>1. /\ Plus(acc, curve_p_digits) \in Accs
      /\ Total(Plus(acc, curve_p_digits)) = Total(acc) + Prime
  BY PlusExact, PrimeIs DEF Accs, Prime
<1>2. Total(acc) \in Int /\ Prime \in Nat /\ Prime > 0
  BY AccFacts, PrimeIs
<1>3. (Total(acc) + Prime) % Prime = Total(acc) % Prime
  BY <1>2, ModShift
<1> QED
  BY <1>1, <1>3 DEF Reduced

\* Subtracting curve_p_digits keeps the remainder.
LEMMA MinusPrime ==
    ASSUME NEW acc \in Accs
    PROVE  /\ Minus(acc, curve_p_digits) \in Accs
           /\ Total(Minus(acc, curve_p_digits)) = Total(acc) - Prime
           /\ Reduced(Minus(acc, curve_p_digits)) = Reduced(acc)
<1>1. /\ Minus(acc, curve_p_digits) \in Accs
      /\ Total(Minus(acc, curve_p_digits)) = Total(acc) - Prime
  BY MinusExact, PrimeIs DEF Accs, Prime
<1>2. Total(acc) \in Int /\ Prime \in Nat /\ Prime > 0
  BY AccFacts, PrimeIs
<1>3. (Total(acc) - Prime) % Prime = Total(acc) % Prime
  BY <1>2, ModShift
<1> QED
  BY <1>1, <1>3 DEF Reduced

\* The loop that adds curve_p_digits ends with the remainder: the number it
\* works on grows towards zero.
LEMMA AddPExact ==
    ASSUME NEW acc \in Accs, acc.carry < 0
    PROVE  AddP[acc] = Reduced(acc)
<1>. DEFINE Step(f) == [a \in Accs |-> IF a.carry < 0 THEN f[Plus(a, curve_p_digits)] ELSE a.r]
            h == [a \in Accs |-> IF a.carry < 0 THEN Reduced(a) ELSE a.r]
            f == AddP
<1>0. Prime \in Nat /\ Prime > 0
  BY PrimeIs
<1>1. ASSUME NEW a \in Accs, a.carry < 0
      PROVE  /\ Plus(a, curve_p_digits) \in Accs
             /\ h[Plus(a, curve_p_digits)] = h[a]
  <2>1. Plus(a, curve_p_digits) \in Accs
    BY PlusPrime
  <2>2. PICK b \in Accs : b = Plus(a, curve_p_digits)
    BY <2>1
  <2>3. Total(b) = Total(a) + Prime /\ Reduced(b) = Reduced(a) /\ Total(a) \in Int
    BY <2>2, PlusPrime, AccFacts
  <2>4. Total(a) < 0
    BY <1>1, AccFacts
  <2>5. CASE b.carry < 0
    BY <1>1, <2>2, <2>3, <2>5
  <2>6. CASE ~(b.carry < 0)
    <3>1. 0 <= Total(b) /\ Total(b) < Prime
      <4>1. ~(Total(b) < 0)
        BY <2>6, AccFacts
      <4> QED
        BY <1>0, <2>3, <2>4, <4>1
    <3>2. Reduced(b) = b.r
      BY <3>1, ReducedFacts
    <3>3. h[b] = b.r
      BY <2>6
    <3> QED
      BY <1>1, <2>2, <2>3, <3>2, <3>3
  <2> QED
    BY <2>1, <2>5, <2>6
<1>2. f = CHOOSE g : g = Step(g)
  BY DEF AddP, Accs
<1>. HIDE DEF f
<1>3. h = Step(h)
  <2>1. ASSUME NEW a \in Accs PROVE h[a] = Step(h)[a]
    <3>1. CASE a.carry < 0
      <4>1. h[Plus(a, curve_p_digits)] = h[a]
        BY <1>1, <3>1
      <4> QED
        BY <3>1, <4>1
    <3>2. CASE ~(a.carry < 0)
      BY <3>2
    <3>. QED
      BY <3>1, <3>2
  <2>. QED
    BY <2>1
<1>4. f = Step(f)
  <2>. HIDE DEF Step, h
  <2>. QED
    BY <1>2, <1>3
<1>5. \A a \in Accs : f[a] = IF a.carry < 0 THEN f[Plus(a, curve_p_digits)] ELSE a.r
  <2>1. ASSUME NEW a \in Accs PROVE f[a] = Step(f)[a]
    <3>. HIDE DEF Step
    <3> QED
      BY <1>4
  <2> QED
    BY <2>1
<1>. DEFINE S == {n \in Nat : \A a \in Accs : 0 - Total(a) <= n => f[a] = h[a]}
<1>6. 0 \in S
  <2>1. ASSUME NEW a \in Accs, 0 - Total(a) <= 0 PROVE f[a] = h[a]
    <3>1. Total(a) \in Int
      BY AccFacts
    <3>2. ~(a.carry < 0)
      BY <2>1, <3>1, AccFacts
    <3> QED
      BY <1>5, <3>2
  <2> QED
    BY <2>1
<1>7. ASSUME NEW n \in Nat, n \in S PROVE n + 1 \in S
  <2>1. ASSUME NEW a \in Accs, 0 - Total(a) <= n + 1 PROVE f[a] = h[a]
    <3>1. Total(a) \in Int
      BY AccFacts
    <3>2. CASE ~(a.carry < 0)
      BY <1>5, <3>2
    <3>3. CASE a.carry < 0
      <4>1. PICK b \in Accs : b = Plus(a, curve_p_digits)
        BY PlusPrime
      <4>2. Total(b) = Total(a) + Prime
        BY <4>1, PlusPrime
      <4>3. 0 - Total(b) <= n
        BY <1>0, <2>1, <3>1, <4>2
      <4>4. f[b] = h[b]
        <5> HIDE DEF h
        <5> QED
          BY <1>7, <4>3
      <4>5. f[a] = f[b]
        BY <1>5, <3>3, <4>1
      <4>6. h[b] = h[a]
        <5> HIDE DEF h
        <5> QED
          BY <1>1, <3>3, <4>1
      <4> QED
        <5> HIDE DEF h
        <5> QED
          BY <4>4, <4>5, <4>6
    <3> QED
      BY <3>2, <3>3
  <2> HIDE DEF h
  <2> QED
    BY <2>1
<1>8. Nat \subseteq S
  <2> HIDE DEF S
  <2> QED
    BY <1>6, <1>7, AllNumbers
<1>9. PICK n \in Nat : n = 0 - Total(acc)
  <2>1. Total(acc) \in Int /\ Total(acc) < 0
    BY AccFacts
  <2> QED
    BY <2>1
<1>10. f[acc] = h[acc]
  <2> HIDE DEF h
  <2> QED
    BY <1>8, <1>9
<1>11. h[acc] = Reduced(acc)
  OBVIOUS
<1> HIDE DEF h
<1> QED
  BY <1>10, <1>11 DEF f

\* The loop that subtracts curve_p_digits ends with the remainder.
LEMMA SubPExact ==
    ASSUME NEW acc \in NatAccs
    PROVE  SubP[acc] = Reduced(acc)
<1>. DEFINE More(a) == a.carry # 0 \/ vli_cmp(curve_p_digits, a.r) # 1
            Step(f) == [a \in NatAccs |-> IF More(a) THEN f[Minus(a, curve_p_digits)] ELSE a.r]
            h == [a \in NatAccs |-> Reduced(a)]
            f == SubP
<1>0. Prime \in Nat /\ Prime > 0 /\ Prime < Word /\ Word \in Nat
  BY PrimeIs, WordFacts
<1>1. \A a \in NatAccs : a \in Accs /\ a.carry \in Nat /\ Total(a) \in Nat
  <2>1. ASSUME NEW a \in NatAccs PROVE a \in Accs /\ a.carry \in Nat /\ Total(a) \in Nat
    <3>1. a \in Accs /\ a.carry \in Nat
      BY DEF Accs, NatAccs
    <3> QED
      BY <3>1, AccFacts
  <2> QED
    BY <2>1
<1>2. \A a \in NatAccs : More(a) = (Total(a) >= Prime)
  <2>1. ASSUME NEW a \in NatAccs PROVE More(a) = (Total(a) >= Prime)
    <3>1. a \in Accs /\ a.r \in Vlis /\ a.carry \in Nat /\ Total(a) \in Nat
      BY <1>1, AccFacts
    <3>2. CmpIs(vli_cmp(curve_p_digits, a.r), Prime, Val(a.r))
      BY <3>1, CmpExact, PrimeIs DEF Prime
    <3>3. CASE a.carry = 0
      <4>1. Total(a) = Val(a.r)
        BY <3>1, <3>3, <1>0, ValType DEF Total
      <4> QED
        BY <3>1, <3>2, <3>3, <4>1, <1>0 DEF CmpIs
    <3>4. CASE a.carry # 0
      <4>1. ~(Total(a) < Word)
        BY <3>1, <3>4, AccFacts
      <4> QED
        BY <3>1, <3>4, <4>1, <1>0
    <3> QED
      BY <3>3, <3>4
  <2> QED
    BY <2>1
<1> HIDE DEF More
<1>3. \A a \in NatAccs : More(a) => /\ Minus(a, curve_p_digits) \in NatAccs
                                     /\ Total(Minus(a, curve_p_digits)) = Total(a) - Prime
                                     /\ Reduced(Minus(a, curve_p_digits)) = Reduced(a)
  <2>1. ASSUME NEW a \in NatAccs, More(a)
        PROVE  /\ Minus(a, curve_p_digits) \in NatAccs
               /\ Total(Minus(a, curve_p_digits)) = Total(a) - Prime
               /\ Reduced(Minus(a, curve_p_digits)) = Reduced(a)
    <3>1. a \in Accs /\ Total(a) \in Nat /\ Total(a) >= Prime
      BY <1>1, <1>2, <2>1
    <3>2. PICK b \in Accs : b = Minus(a, curve_p_digits)
      BY <3>1, MinusPrime
    <3>3. Total(b) = Total(a) - Prime /\ Reduced(b) = Reduced(a)
      BY <3>1, <3>2, MinusPrime
    <3>4. ~(Total(b) < 0)
      BY <3>1, <3>3, <1>0
    <3>5. ~(b.carry < 0) /\ b.carry \in Int
      BY <3>4, AccFacts
    <3>6. b \in NatAccs
      BY <3>5 DEF Accs, NatAccs
    <3> QED
      BY <3>2, <3>3, <3>6
  <2> QED
    BY <2>1
<1>4. \A a \in NatAccs : ~More(a) => Reduced(a) = a.r
  <2>1. ASSUME NEW a \in NatAccs, ~More(a) PROVE Reduced(a) = a.r
    <3>1. a \in Accs /\ Total(a) \in Nat
      BY <1>1
    <3>2. ~(Total(a) >= Prime)
      BY <1>2, <2>1
    <3>3. 0 <= Total(a) /\ Total(a) < Prime
      BY <3>1, <3>2, <1>0
    <3> QED
      BY <3>1, <3>3, ReducedFacts
  <2> QED
    BY <2>1
<1>5. f = CHOOSE g : g = Step(g)
  BY DEF SubP, NatAccs, More
<1>. HIDE DEF f
<1>6. h = Step(h)
  <2>1. ASSUME NEW a \in NatAccs PROVE h[a] = Step(h)[a]
    <3>1. CASE More(a)
      <4>1. h[Minus(a, curve_p_digits)] = h[a]
        BY <1>3, <3>1
      <4> QED
        BY <3>1, <4>1
    <3>2. CASE ~More(a)
      BY <1>4, <3>2
    <3>. QED
      BY <3>1, <3>2
  <2>. QED
    BY <2>1
<1>7. f = Step(f)
  <2>. HIDE DEF Step, h
  <2>. QED
    BY <1>5, <1>6
<1>8. \A a \in NatAccs : f[a] = IF More(a) THEN f[Minus(a, curve_p_digits)] ELSE a.r
  <2>1. ASSUME NEW a \in NatAccs PROVE f[a] = Step(f)[a]
    <3>. HIDE DEF Step
    <3> QED
      BY <1>7
  <2> QED
    BY <2>1
<1>. DEFINE S == {n \in Nat : \A a \in NatAccs : Total(a) <= n => f[a] = Reduced(a)}
<1>9. 0 \in S
  <2>1. ASSUME NEW a \in NatAccs, Total(a) <= 0 PROVE f[a] = Reduced(a)
    <3>0. Total(a) \in Nat
      BY <1>1
    <3>1. ~More(a)
      <4>1. ~(Total(a) >= Prime)
        BY <1>0, <2>1, <3>0
      <4> QED
        BY <1>2, <4>1
    <3> QED
      BY <1>4, <1>8, <3>1
  <2> QED
    BY <2>1
<1>10. ASSUME NEW n \in Nat, n \in S PROVE n + 1 \in S
  <2>1. ASSUME NEW a \in NatAccs, Total(a) <= n + 1 PROVE f[a] = Reduced(a)
    <3>2. CASE ~More(a)
      BY <1>4, <1>8, <3>2
    <3>3. CASE More(a)
      <4>1. PICK b \in NatAccs : b = Minus(a, curve_p_digits)
        BY <1>3, <3>3
      <4>2. Total(b) = Total(a) - Prime /\ Reduced(b) = Reduced(a) /\ Total(a) \in Nat
        BY <1>1, <1>3, <3>3, <4>1
      <4>3. Total(b) <= n
        BY <1>0, <2>1, <4>2
      <4>4. f[b] = Reduced(b)
        BY <1>10, <4>3
      <4>5. f[a] = f[b]
        BY <1>8, <3>3, <4>1
      <4> QED
        BY <4>2, <4>4, <4>5
    <3> QED
      BY <3>2, <3>3
  <2> QED
    BY <2>1
<1>11. Nat \subseteq S
  <2> HIDE DEF S
  <2> QED
    BY <1>9, <1>10, AllNumbers
<1> QED
  BY <1>1, <1>11 DEF f

\* The final correction is the remainder, for every carry.
LEMMA CorrectExact ==
    ASSUME NEW acc \in Accs
    PROVE  /\ Correct(acc) \in Vlis
           /\ Val(Correct(acc)) = Total(acc) % Prime
<1>1. Correct(acc) = Reduced(acc)
  <2>1. CASE acc.carry < 0
    BY <2>1, AddPExact DEF Correct
  <2>2. CASE ~(acc.carry < 0)
    <3>1. acc \in NatAccs
      BY <2>2 DEF Accs, NatAccs
    <3> QED
      BY <2>2, <3>1, SubPExact DEF Correct
  <2> QED
    BY <2>1, <2>2
<1>2. Prime \in Nat /\ Prime > 0 /\ Prime < Word /\ Word \in Nat /\ Total(acc) \in Int
  BY PrimeIs, WordFacts, AccFacts
<1>3. Total(acc) % Prime \in Nat /\ Total(acc) % Prime < Word
  BY <1>2, DivMod
<1> QED
  BY <1>1, <1>3, ToVliExact DEF Reduced

-----------------------------------------------------------------------------
(* Half digits.                                                            *)

\* The powers of a half digit's base.
Powers(h1, h2, h3, h4, h5, h6, h7, h8) ==
    /\ h1 = H /\ h2 = H * h1 /\ h3 = H * h2 /\ h4 = H * h3
    /\ h5 = H * h4 /\ h6 = H * h5 /\ h7 = H * h6 /\ h8 = H * h7

\* The powers of H, named.
LEMMA PowersExist ==
    \E h1 \in Nat, h2 \in Nat, h3 \in Nat, h4 \in Nat, h5 \in Nat, h6 \in Nat, h7 \in Nat,
      h8 \in Nat :
        Powers(h1, h2, h3, h4, h5, h6, h7, h8)
<1>0. H \in Nat
  BY BaseFacts
<1>1. PICK h1 \in Nat : h1 = H
  BY <1>0
<1>2. PICK h2 \in Nat : h2 = H * h1
  BY <1>0
<1>3. PICK h3 \in Nat : h3 = H * h2
  BY <1>0
<1>4. PICK h4 \in Nat : h4 = H * h3
  BY <1>0
<1>5. PICK h5 \in Nat : h5 = H * h4
  BY <1>0
<1>6. PICK h6 \in Nat : h6 = H * h5
  BY <1>0
<1>7. PICK h7 \in Nat : h7 = H * h6
  BY <1>0
<1>8. PICK h8 \in Nat : h8 = H * h7
  BY <1>0
<1> QED
  BY <1>1, <1>2, <1>3, <1>4, <1>5, <1>6, <1>7, <1>8 DEF Powers

\* Eight half digits, as digits and as the number they stand for.
FromHalves(x0, x1, x2, x3, x4, x5, x6, x7) ==
    Vli4(x0 + H * x1, x2 + H * x3, x4 + H * x5, x6 + H * x7)
HalfSum(x0, x1, x2, x3, x4, x5, x6, x7) ==
    (x0 + H * x1) + B * ((x2 + H * x3) + B * ((x4 + H * x5) + B * (x6 + H * x7)))

HalfDigit(x) == x \in Nat /\ x < H

\* Eight half digits make a number.
LEMMA FromHalvesExact ==
    ASSUME NEW x0, NEW x1, NEW x2, NEW x3, NEW x4, NEW x5, NEW x6, NEW x7,
           HalfDigit(x0), HalfDigit(x1), HalfDigit(x2), HalfDigit(x3), HalfDigit(x4),
             HalfDigit(x5), HalfDigit(x6), HalfDigit(x7)
    PROVE  /\ FromHalves(x0, x1, x2, x3, x4, x5, x6, x7) \in Vlis
           /\ Val(FromHalves(x0, x1, x2, x3, x4, x5, x6, x7)) = HalfSum(x0, x1, x2, x3, x4, x5,
                      x6, x7)
<1>0. H \in Nat /\ B = H * H
  BY BaseFacts
<1>1. x0 \in Nat /\ x0 < H /\ x1 \in Nat /\ x1 < H /\ x2 \in Nat /\ x2 < H /\ x3 \in Nat /\ x3 < H
  BY DEF HalfDigit
<1>2. x4 \in Nat /\ x4 < H /\ x5 \in Nat /\ x5 < H /\ x6 \in Nat /\ x6 < H /\ x7 \in Nat /\ x7 < H
  BY DEF HalfDigit
<1>3. x0 + H * x1 \in Nat /\ x0 + H * x1 < H * H
  BY <1>0, <1>1, Horner
<1>4. x2 + H * x3 \in Nat /\ x2 + H * x3 < H * H
  BY <1>0, <1>1, Horner
<1>5. x4 + H * x5 \in Nat /\ x4 + H * x5 < H * H
  BY <1>0, <1>2, Horner
<1>6. x6 + H * x7 \in Nat /\ x6 + H * x7 < H * H
  BY <1>0, <1>2, Horner
<1>7. FromHalves(x0, x1, x2, x3, x4, x5, x6, x7) \in Vlis
  BY <1>0, <1>3, <1>4, <1>5, <1>6, Vli4Type DEF FromHalves, Digit
<1> QED
  BY <1>7, ValVli4 DEF FromHalves, HalfSum

\* The number eight half digits stand for, power by power.
LEMMA HalfSumIs ==
    ASSUME NEW x0 \in Int, NEW x1 \in Int, NEW x2 \in Int, NEW x3 \in Int, NEW x4 \in Int,
               NEW x5 \in Int, NEW x6 \in Int, NEW x7 \in Int,
           NEW h1 \in Int, NEW h2 \in Int, NEW h3 \in Int, NEW h4 \in Int, NEW h5 \in Int,
             NEW h6 \in Int, NEW h7 \in Int, NEW h8 \in Int,
           Powers(h1, h2, h3, h4, h5, h6, h7, h8)
    PROVE  HalfSum(x0, x1, x2, x3, x4, x5, x6, x7) =
             x0 + x1 * h1 + x2 * h2 + x3 * h3 + x4 * h4 + x5 * h5 + x6 * h6 + x7 * h7
<1>0. H \in Int /\ B \in Int /\ B = H * H
  BY BaseFacts
<1>1. h1 = H /\ h2 = H * h1 /\ h3 = H * h2 /\ h4 = H * h3 /\ h5 = H * h4 /\ h6 = H * h5 /\
           h7 = H * h6
  BY DEF Powers
<1>2. B * x6 = x6 * h2 /\ B * (H * x7) = x7 * h3
  BY <1>0, <1>1
<1>3. B * (x6 + H * x7) = x6 * h2 + x7 * h3
  BY <1>0, <1>2
<1>4. B * (x4 + H * x5 + (x6 * h2 + x7 * h3)) = x4 * h2 + x5 * h3 + x6 * h4 + x7 * h5
  BY <1>0, <1>1
<1>5. B * (x2 + H * x3 + (x4 * h2 + x5 * h3 + x6 * h4 + x7 * h5)) =
        x2 * h2 + x3 * h3 + x4 * h4 + x5 * h5 + x6 * h6 + x7 * h7
  BY <1>0, <1>1
<1> QED
  BY <1>0, <1>1, <1>3, <1>4, <1>5 DEF HalfSum

-----------------------------------------------------------------------------
(* Powers of a half digit modulo the prime.                                *)

\* From a power of H to the next: x = r modulo p.
LEMMA NextPower ==
    ASSUME NEW h \in Int, NEW p \in Int, NEW x \in Int, NEW r \in Int, NEW q \in Int, NEW c \in Int,
           x = r + p * q
    PROVE  h * x = (h * r - c * p) + p * (h * q + c)
<1>1. h * x = h * r + h * (p * q)
  OBVIOUS
<1>2. h * (p * q) = p * (h * q)
  OBVIOUS
<1>3. p * (h * q + c) = p * (h * q) + c * p
  OBVIOUS
<1> QED
  BY <1>1, <1>2, <1>3

\* y is x modulo Prime.
Same(x, y) == \E q \in Int : x = y + Prime * q

\* A multiple of equal numbers modulo Prime.
LEMMA SameTimes ==
    ASSUME NEW x \in Int, NEW y \in Int, NEW a \in Int, Same(x, y)
    PROVE  Same(a * x, a * y)
<1>1. PICK q \in Int : x = y + Prime * q
  BY DEF Same
<1>2. Prime \in Int
  BY PrimeIs
<1>3. a * x = a * y + Prime * (a * q)
  BY <1>1, <1>2
<1>4. a * q \in Int
  OBVIOUS
<1> QED
  BY <1>3, <1>4 DEF Same

\* A sum of equal numbers modulo Prime.
LEMMA SamePlus ==
    ASSUME NEW x \in Int, NEW y \in Int, NEW z \in Int, NEW w \in Int, Same(x, y), Same(z, w)
    PROVE  Same(x + z, y + w)
<1>1. PICK q \in Int : x = y + Prime * q
  BY DEF Same
<1>2. PICK s \in Int : z = w + Prime * s
  BY DEF Same
<1>3. Prime \in Int
  BY PrimeIs
<1>4. x + z = (y + w) + Prime * (q + s)
  BY <1>1, <1>2, <1>3
<1> QED
  BY <1>4 DEF Same

\* Equal numbers modulo Prime have the same remainder.
LEMMA SameModulo ==
    ASSUME NEW x \in Int, NEW y \in Int, Same(x, y)
    PROVE  x % Prime = y % Prime
<1>0. Prime \in Int /\ Prime > 0
  BY PrimeIs
<1>1. PICK q \in Int : x = y + Prime * q
  BY DEF Same
<1>2. PICK s \in Int, r \in Int : y = s * Prime + r /\ 0 <= r /\ r < Prime /\ y % Prime = r
  BY <1>0, DivMod
<1>3. PICK u \in Int : u = s + q
  OBVIOUS
<1>4. x = u * Prime + r
  BY <1>0, <1>1, <1>2, <1>3
<1>5. x % Prime = r
  BY ONLY <1>0, <1>2, <1>4, DivModUnique, x \in Int, u \in Int, r \in Int
<1> QED
  BY <1>2, <1>5

\* The next power, reduced by c times Prime.
LEMMA NextSame ==
    ASSUME NEW x \in Int, NEW r \in Int, NEW c \in Int, NEW t \in Int, Same(x, r),
               t = H * r - c * Prime
    PROVE  Same(H * x, t)
<1>1. PICK q \in Int : x = r + Prime * q
  BY DEF Same
<1>2. Prime \in Int /\ H \in Int
  BY PrimeIs, BaseFacts
<1>3. H * x = t + Prime * (H * q + c)
  BY <1>1, <1>2, NextPower
<1>4. H * q + c \in Int
  BY <1>2
<1> QED
  BY <1>3, <1>4 DEF Same

\* Prime and Word as powers of H.
LEMMA PrimePowers ==
    ASSUME NEW h1, NEW h2, NEW h3, NEW h4, NEW h5, NEW h6, NEW h7, NEW h8, Powers(h1, h2, h3, h4,
               h5, h6, h7, h8)
    PROVE  Prime = h8 - h7 + h6 + h3 - 1 /\ Word = h8
<1>0. H \in Int /\ B \in Int /\ B = H * H
  BY BaseFacts
<1>1. h1 = H /\ h2 = H * h1 /\ h3 = H * h2 /\ h4 = H * h3 /\ h5 = H * h4 /\ h6 = H * h5 /\
           h7 = H * h6 /\ h8 = H * h7
  BY DEF Powers
<1>a. h1 \in Int /\ h2 \in Int /\ h3 \in Int /\ h4 \in Int
  BY <1>0, <1>1
<1>b. h5 \in Int /\ h6 \in Int /\ h7 \in Int /\ h8 \in Int
  BY <1>0, <1>1, <1>a
<1>2. Prime = (B - 1) + B * ((H - 1) + B * (0 + B * (B - H + 1)))
  BY PrimeIs
<1>3. B * (B - H + 1) = h4 - h3 + h2
  BY <1>0, <1>1, <1>a, <1>b
<1>4. B * (h4 - h3 + h2) = h6 - h5 + h4
  BY <1>0, <1>1, <1>a, <1>b
<1>5. B * ((H - 1) + (h6 - h5 + h4)) = h3 - h2 + h8 - h7 + h6
  BY <1>0, <1>1, <1>a, <1>b
<1>6. 0 + B * (B - H + 1) = h4 - h3 + h2
  BY <1>0, <1>3, <1>a, <1>b
<1>7. Prime = (B - 1) + (h3 - h2 + h8 - h7 + h6)
  BY <1>2, <1>4, <1>5, <1>6
<1>8. B = h2
  BY <1>0, <1>1, <1>a, <1>b
<1>9. Word = h8
  <2>1. B * B = h4
    BY <1>0, <1>1, <1>a, <1>b
  <2>2. B * h4 = h6
    BY <1>0, <1>1, <1>a, <1>b
  <2>3. B * h6 = h8
    BY <1>0, <1>1, <1>a, <1>b
  <2> QED
    BY <2>1, <2>2, <2>3, WordFacts
<1> QED
  BY <1>7, <1>8, <1>9, <1>a, <1>b

\* The powers of H that the upper half of a product stands at, reduced.
LEMMA PowersReduced ==
    ASSUME NEW h1, NEW h2, NEW h3, NEW h4, NEW h5, NEW h6, NEW h7, NEW h8, Powers(h1, h2, h3, h4,
               h5, h6, h7, h8)
    PROVE  /\ Same(h8, 1 - h3 - h6 + h7)
           /\ Same(h8 * h1, 1 + h1 - h3 - h4 - h6)
           /\ Same(h8 * h2, h1 + h2 - h4 - h5 - h7)
           /\ Same(h8 * h3, 0 - 1 + h2 + 2 * h3 - h5 - h7)
           /\ Same(h8 * h4, 0 - 1 - h1 + 2 * h3 + 2 * h4 - h7)
           /\ Same(h8 * h5, 0 - 1 - h1 - h2 + h3 + 2 * h4 + 2 * h5 + h6 - h7)
           /\ Same(h8 * h6, 0 - 1 - h1 - h2 + h4 + 2 * h5 + 3 * h6)
           /\ Same(h8 * h7, 0 - h1 - h2 - h3 + h5 + 2 * h6 + 3 * h7)
<1>0. H \in Int /\ Prime \in Int /\ Prime = h8 - h7 + h6 + h3 - 1
  <2>1. H \in Int /\ Prime \in Int
    BY BaseFacts, PrimeIs
  <2>2. Prime = h8 - h7 + h6 + h3 - 1
    BY PrimePowers
  <2> QED
    BY <2>1, <2>2
<1>1. h1 = H /\ h2 = H * h1 /\ h3 = H * h2 /\ h4 = H * h3 /\ h5 = H * h4 /\ h6 = H * h5 /\
           h7 = H * h6 /\ h8 = H * h7
  BY DEF Powers
<1>a. h1 \in Int /\ h2 \in Int /\ h3 \in Int /\ h4 \in Int
  BY <1>0, <1>1
<1>b. h5 \in Int /\ h6 \in Int /\ h7 \in Int /\ h8 \in Int
  BY <1>0, <1>1, <1>a
<1>8. Same(h8, 1 - h3 - h6 + h7)
  <2>1. h8 = (1 - h3 - h6 + h7) + Prime * 1
    BY <1>0, <1>a, <1>b
  <2> QED
    BY <2>1 DEF Same
<1>9. Same(h8 * h1, 1 + h1 - h3 - h4 - h6)
  <2>1. PICK x \in Int, r \in Int, t \in Int :
          x = h8 /\ r = 1 - h3 - h6 + h7 /\ t = 1 + h1 - h3 - h4 - h6
    BY <1>a, <1>b
  <2>2. t = H * r - (1) * Prime
    <3>1. H * r = H * 1 - h4 - h7 + h8
      BY <1>0, <1>1, <1>a, <1>b, <2>1
    <3> QED
      BY <1>0, <1>1, <1>a, <1>b, <2>1, <3>1
  <2>3. Same(H * x, t)
    <3>1. Same(x, r)
      BY <1>8, <2>1
    <3>2. PICK c \in Int : c = 1
      OBVIOUS
    <3>3. t = H * r - c * Prime
      BY <2>2, <3>2
    <3> QED
      BY ONLY <3>1, <3>3, NextSame, x \in Int, r \in Int, t \in Int, c \in Int
  <2>4. H * x = h8 * h1
    BY <1>0, <1>1, <1>a, <1>b, <2>1
  <2> QED
    BY <2>1, <2>3, <2>4
<1>10. Same(h8 * h2, h1 + h2 - h4 - h5 - h7)
  <2>1. PICK x \in Int, r \in Int, t \in Int :
          x = h8 * h1 /\ r = 1 + h1 - h3 - h4 - h6 /\ t = h1 + h2 - h4 - h5 - h7
    BY <1>a, <1>b
  <2>2. t = H * r - (0) * Prime
    <3>1. H * r = H * 1 + h2 - h4 - h5 - h7
      BY <1>0, <1>1, <1>a, <1>b, <2>1
    <3> QED
      BY <1>0, <1>1, <1>a, <1>b, <2>1, <3>1
  <2>3. Same(H * x, t)
    <3>1. Same(x, r)
      BY <1>9, <2>1
    <3>2. PICK c \in Int : c = 0
      OBVIOUS
    <3>3. t = H * r - c * Prime
      BY <2>2, <3>2
    <3> QED
      BY ONLY <3>1, <3>3, NextSame, x \in Int, r \in Int, t \in Int, c \in Int
  <2>4. H * x = h8 * h2
    BY <1>0, <1>1, <1>a, <1>b, <2>1
  <2> QED
    BY <2>1, <2>3, <2>4
<1>11. Same(h8 * h3, 0 - 1 + h2 + 2 * h3 - h5 - h7)
  <2>1. PICK x \in Int, r \in Int, t \in Int :
          x = h8 * h2 /\ r = h1 + h2 - h4 - h5 - h7 /\ t = 0 - 1 + h2 + 2 * h3 - h5 - h7
    BY <1>a, <1>b
  <2>2. t = H * r - (-1) * Prime
    <3>1. H * r = h2 + h3 - h5 - h6 - h8
      BY <1>0, <1>1, <1>a, <1>b, <2>1
    <3> QED
      BY <1>0, <1>1, <1>a, <1>b, <2>1, <3>1
  <2>3. Same(H * x, t)
    <3>1. Same(x, r)
      BY <1>10, <2>1
    <3>2. PICK c \in Int : c = -1
      OBVIOUS
    <3>3. t = H * r - c * Prime
      BY <2>2, <3>2
    <3> QED
      BY ONLY <3>1, <3>3, NextSame, x \in Int, r \in Int, t \in Int, c \in Int
  <2>4. H * x = h8 * h3
    BY <1>0, <1>1, <1>a, <1>b, <2>1
  <2> QED
    BY <2>1, <2>3, <2>4
<1>12. Same(h8 * h4, 0 - 1 - h1 + 2 * h3 + 2 * h4 - h7)
  <2>1. PICK x \in Int, r \in Int, t \in Int :
          x = h8 * h3 /\ r = 0 - 1 + h2 + 2 * h3 - h5 - h7 /\ t = 0 - 1 - h1 + 2 * h3 + 2 * h4 - h7
    BY <1>a, <1>b
  <2>2. t = H * r - (-1) * Prime
    <3>1. H * r = 0 - H * 1 + h3 + 2 * h4 - h6 - h8
      BY <1>0, <1>1, <1>a, <1>b, <2>1
    <3> QED
      BY <1>0, <1>1, <1>a, <1>b, <2>1, <3>1
  <2>3. Same(H * x, t)
    <3>1. Same(x, r)
      BY <1>11, <2>1
    <3>2. PICK c \in Int : c = -1
      OBVIOUS
    <3>3. t = H * r - c * Prime
      BY <2>2, <3>2
    <3> QED
      BY ONLY <3>1, <3>3, NextSame, x \in Int, r \in Int, t \in Int, c \in Int
  <2>4. H * x = h8 * h4
    BY <1>0, <1>1, <1>a, <1>b, <2>1
  <2> QED
    BY <2>1, <2>3, <2>4
<1>13. Same(h8 * h5, 0 - 1 - h1 - h2 + h3 + 2 * h4 + 2 * h5 + h6 - h7)
  <2>1. PICK x \in Int, r \in Int, t \in Int :
          x = h8 * h4 /\ r = 0 - 1 - h1 + 2 * h3 + 2 * h4 - h7 /\ t = 0 - 1 - h1 - h2 + h3 +
            2 * h4 + 2 * h5 + h6 - h7
    BY <1>a, <1>b
  <2>2. t = H * r - (-1) * Prime
    <3>1. H * r = 0 - H * 1 - h2 + 2 * h4 + 2 * h5 - h8
      BY <1>0, <1>1, <1>a, <1>b, <2>1
    <3> QED
      BY <1>0, <1>1, <1>a, <1>b, <2>1, <3>1
  <2>3. Same(H * x, t)
    <3>1. Same(x, r)
      BY <1>12, <2>1
    <3>2. PICK c \in Int : c = -1
      OBVIOUS
    <3>3. t = H * r - c * Prime
      BY <2>2, <3>2
    <3> QED
      BY ONLY <3>1, <3>3, NextSame, x \in Int, r \in Int, t \in Int, c \in Int
  <2>4. H * x = h8 * h5
    BY <1>0, <1>1, <1>a, <1>b, <2>1
  <2> QED
    BY <2>1, <2>3, <2>4
<1>14. Same(h8 * h6, 0 - 1 - h1 - h2 + h4 + 2 * h5 + 3 * h6)
  <2>1. PICK x \in Int, r \in Int, t \in Int :
          x = h8 * h5 /\ r = 0 - 1 - h1 - h2 + h3 + 2 * h4 + 2 * h5 + h6 - h7 /\
            t = 0 - 1 - h1 - h2 + h4 + 2 * h5 + 3 * h6
    BY <1>a, <1>b
  <2>2. t = H * r - (-1) * Prime
    <3>1. H * r = 0 - H * 1 - h2 - h3 + h4 + 2 * h5 + 2 * h6 + h7 - h8
      BY <1>0, <1>1, <1>a, <1>b, <2>1
    <3> QED
      BY <1>0, <1>1, <1>a, <1>b, <2>1, <3>1
  <2>3. Same(H * x, t)
    <3>1. Same(x, r)
      BY <1>13, <2>1
    <3>2. PICK c \in Int : c = -1
      OBVIOUS
    <3>3. t = H * r - c * Prime
      BY <2>2, <3>2
    <3> QED
      BY ONLY <3>1, <3>3, NextSame, x \in Int, r \in Int, t \in Int, c \in Int
  <2>4. H * x = h8 * h6
    BY <1>0, <1>1, <1>a, <1>b, <2>1
  <2> QED
    BY <2>1, <2>3, <2>4
<1>15. Same(h8 * h7, 0 - h1 - h2 - h3 + h5 + 2 * h6 + 3 * h7)
  <2>1. PICK x \in Int, r \in Int, t \in Int :
          x = h8 * h6 /\ r = 0 - 1 - h1 - h2 + h4 + 2 * h5 + 3 * h6 /\ t = 0 - h1 - h2 - h3 +
            h5 + 2 * h6 + 3 * h7
    BY <1>a, <1>b
  <2>2. t = H * r - (0) * Prime
    <3>1. H * r = 0 - H * 1 - h2 - h3 + h5 + 2 * h6 + 3 * h7
      BY <1>0, <1>1, <1>a, <1>b, <2>1
    <3> QED
      BY <1>0, <1>1, <1>a, <1>b, <2>1, <3>1
  <2>3. Same(H * x, t)
    <3>1. Same(x, r)
      BY <1>14, <2>1
    <3>2. PICK c \in Int : c = 0
      OBVIOUS
    <3>3. t = H * r - c * Prime
      BY <2>2, <3>2
    <3> QED
      BY ONLY <3>1, <3>3, NextSame, x \in Int, r \in Int, t \in Int, c \in Int
  <2>4. H * x = h8 * h7
    BY <1>0, <1>1, <1>a, <1>b, <2>1
  <2> QED
    BY <2>1, <2>3, <2>4
<1> QED
  BY <1>8, <1>9, <1>10, <1>11, <1>12, <1>13, <1>14, <1>15

-----------------------------------------------------------------------------
(* The upper half of a product.                                            *)

\* What vli_mmod_fast adds up from the half digits of the upper half.
Combination(a8, a9, a10, a11, a12, a13, a14, a15) ==
    ((2 * HalfSum(0, 0, 0, a11, a12, a13, a14, a15) + 2 * HalfSum(0, 0, 0, a12, a13, a14, a15, 0))
     + (HalfSum(a8, a9, a10, 0, 0, 0, a14, a15) + HalfSum(a9, a10, a11, a13, a14, a15, a13, a8)))
    - ((HalfSum(a11, a12, a13, 0, 0, 0, a8, a10) + HalfSum(a12, a13, a14, a15, 0, 0, a9, a11))
       + (HalfSum(a13, a14, a15, a8, a9, a10, 0, a12) + HalfSum(a14, a15, 0, a9, a10, a11, 0, a13)))

\* The sums and differences of vli_mmod_fast are the upper half of the product
\* modulo Prime.
LEMMA UpperReduced ==
    ASSUME NEW a8 \in Int, NEW a9 \in Int, NEW a10 \in Int, NEW a11 \in Int, NEW a12 \in Int,
               NEW a13 \in Int, NEW a14 \in Int, NEW a15 \in Int
    PROVE  /\ Word * HalfSum(a8, a9, a10, a11, a12, a13, a14, a15) \in Int /\ Combination(a8, a9,
               a10, a11, a12, a13, a14, a15) \in Int
           /\ Same(Word * HalfSum(a8, a9, a10, a11, a12, a13, a14, a15), Combination(a8, a9, a10,
                      a11, a12, a13, a14, a15))
<1>0. PICK h1 \in Nat, h2 \in Nat, h3 \in Nat, h4 \in Nat, h5 \in Nat, h6 \in Nat, h7 \in Nat,
           h8 \in Nat : Powers(h1, h2, h3, h4, h5, h6, h7, h8)
  BY PowersExist
<1>1. Word = h8
  BY <1>0, PrimePowers
<1>8. PICK x8 \in Int, r8 \in Int : x8 = h8 /\ r8 = 1 - h3 - h6 + h7
  OBVIOUS
<1>9. PICK x9 \in Int, r9 \in Int : x9 = h8 * h1 /\ r9 = 1 + h1 - h3 - h4 - h6
  OBVIOUS
<1>10. PICK x10 \in Int, r10 \in Int : x10 = h8 * h2 /\ r10 = h1 + h2 - h4 - h5 - h7
  OBVIOUS
<1>11. PICK x11 \in Int, r11 \in Int : x11 = h8 * h3 /\ r11 = 0 - 1 + h2 + 2 * h3 - h5 - h7
  OBVIOUS
<1>12. PICK x12 \in Int, r12 \in Int : x12 = h8 * h4 /\ r12 = 0 - 1 - h1 + 2 * h3 + 2 * h4 - h7
  OBVIOUS
<1>13. PICK x13 \in Int, r13 \in Int : x13 = h8 * h5 /\ r13 = 0 - 1 - h1 - h2 + h3 + 2 * h4 +
           2 * h5 + h6 - h7
  OBVIOUS
<1>14. PICK x14 \in Int, r14 \in Int : x14 = h8 * h6 /\ r14 = 0 - 1 - h1 - h2 + h4 + 2 * h5 + 3 * h6
  OBVIOUS
<1>15. PICK x15 \in Int, r15 \in Int : x15 = h8 * h7 /\ r15 = 0 - h1 - h2 - h3 + h5 + 2 * h6 +
           3 * h7
  OBVIOUS
<1>18. Same(a8 * x8, a8 * r8) /\ a8 * x8 \in Int /\ a8 * r8 \in Int
  <2>1. Same(h8, 1 - h3 - h6 + h7)
    BY <1>0, PowersReduced
  <2>2. Same(x8, r8)
    BY <1>8, <2>1
  <2> QED
    BY <2>2, SameTimes
<1>19. Same(a9 * x9, a9 * r9) /\ a9 * x9 \in Int /\ a9 * r9 \in Int
  <2>1. Same(h8 * h1, 1 + h1 - h3 - h4 - h6)
    BY <1>0, PowersReduced
  <2>2. Same(x9, r9)
    BY <1>9, <2>1
  <2> QED
    BY <2>2, SameTimes
<1>20. Same(a10 * x10, a10 * r10) /\ a10 * x10 \in Int /\ a10 * r10 \in Int
  <2>1. Same(h8 * h2, h1 + h2 - h4 - h5 - h7)
    BY <1>0, PowersReduced
  <2>2. Same(x10, r10)
    BY <1>10, <2>1
  <2> QED
    BY <2>2, SameTimes
<1>21. Same(a11 * x11, a11 * r11) /\ a11 * x11 \in Int /\ a11 * r11 \in Int
  <2>1. Same(h8 * h3, 0 - 1 + h2 + 2 * h3 - h5 - h7)
    BY <1>0, PowersReduced
  <2>2. Same(x11, r11)
    BY <1>11, <2>1
  <2> QED
    BY <2>2, SameTimes
<1>22. Same(a12 * x12, a12 * r12) /\ a12 * x12 \in Int /\ a12 * r12 \in Int
  <2>1. Same(h8 * h4, 0 - 1 - h1 + 2 * h3 + 2 * h4 - h7)
    BY <1>0, PowersReduced
  <2>2. Same(x12, r12)
    BY <1>12, <2>1
  <2> QED
    BY <2>2, SameTimes
<1>23. Same(a13 * x13, a13 * r13) /\ a13 * x13 \in Int /\ a13 * r13 \in Int
  <2>1. Same(h8 * h5, 0 - 1 - h1 - h2 + h3 + 2 * h4 + 2 * h5 + h6 - h7)
    BY <1>0, PowersReduced
  <2>2. Same(x13, r13)
    BY <1>13, <2>1
  <2> QED
    BY <2>2, SameTimes
<1>24. Same(a14 * x14, a14 * r14) /\ a14 * x14 \in Int /\ a14 * r14 \in Int
  <2>1. Same(h8 * h6, 0 - 1 - h1 - h2 + h4 + 2 * h5 + 3 * h6)
    BY <1>0, PowersReduced
  <2>2. Same(x14, r14)
    BY <1>14, <2>1
  <2> QED
    BY <2>2, SameTimes
<1>25. Same(a15 * x15, a15 * r15) /\ a15 * x15 \in Int /\ a15 * r15 \in Int
  <2>1. Same(h8 * h7, 0 - h1 - h2 - h3 + h5 + 2 * h6 + 3 * h7)
    BY <1>0, PowersReduced
  <2>2. Same(x15, r15)
    BY <1>15, <2>1
  <2> QED
    BY <2>2, SameTimes
<1>28. PICK y8 \in Int, z8 \in Int : y8 = a8 * x8 /\ z8 = a8 * r8 /\ Same(y8, z8)
  BY <1>18
<1>29. PICK y9 \in Int, z9 \in Int : y9 = a9 * x9 /\ z9 = a9 * r9 /\ Same(y9, z9)
  BY <1>19
<1>30. PICK y10 \in Int, z10 \in Int : y10 = a10 * x10 /\ z10 = a10 * r10 /\ Same(y10, z10)
  BY <1>20
<1>31. PICK y11 \in Int, z11 \in Int : y11 = a11 * x11 /\ z11 = a11 * r11 /\ Same(y11, z11)
  BY <1>21
<1>32. PICK y12 \in Int, z12 \in Int : y12 = a12 * x12 /\ z12 = a12 * r12 /\ Same(y12, z12)
  BY <1>22
<1>33. PICK y13 \in Int, z13 \in Int : y13 = a13 * x13 /\ z13 = a13 * r13 /\ Same(y13, z13)
  BY <1>23
<1>34. PICK y14 \in Int, z14 \in Int : y14 = a14 * x14 /\ z14 = a14 * r14 /\ Same(y14, z14)
  BY <1>24
<1>35. PICK y15 \in Int, z15 \in Int : y15 = a15 * x15 /\ z15 = a15 * r15 /\ Same(y15, z15)
  BY <1>25
<1>40. Same(y8 + y9, z8 + z9)
  BY <1>28, <1>29, SamePlus
<1>41. Same(y10 + y11, z10 + z11)
  BY <1>30, <1>31, SamePlus
<1>42. Same(y12 + y13, z12 + z13)
  BY <1>32, <1>33, SamePlus
<1>43. Same(y14 + y15, z14 + z15)
  BY <1>34, <1>35, SamePlus
<1>44. Same((y8 + y9) + (y10 + y11), (z8 + z9) + (z10 + z11))
  BY <1>40, <1>41, SamePlus
<1>45. Same((y12 + y13) + (y14 + y15), (z12 + z13) + (z14 + z15))
  BY <1>42, <1>43, SamePlus
<1>46. Same(((y8 + y9) + (y10 + y11)) + ((y12 + y13) + (y14 + y15)),
            ((z8 + z9) + (z10 + z11)) + ((z12 + z13) + (z14 + z15)))
  BY <1>44, <1>45, SamePlus
<1>50. Word * HalfSum(a8, a9, a10, a11, a12, a13, a14, a15) = ((y8 + y9) + (y10 + y11)) +
           ((y12 + y13) + (y14 + y15))
  <2>1. HalfSum(a8, a9, a10, a11, a12, a13, a14, a15) = a8 + a9 * h1 + a10 * h2 + a11 * h3 +
             a12 * h4 + a13 * h5 + a14 * h6 + a15 * h7
    BY <1>0, HalfSumIs
  <2>2. h8 * (a8 + a9 * h1 + a10 * h2 + a11 * h3 + a12 * h4 + a13 * h5 + a14 * h6 + a15 * h7)
          = ((y8 + y9) + (y10 + y11)) + ((y12 + y13) + (y14 + y15))
    BY <1>8, <1>9, <1>10, <1>11, <1>12, <1>13, <1>14, <1>15, <1>28, <1>29, <1>30, <1>31, <1>32,
      <1>33, <1>34, <1>35
  <2> QED
    BY <1>1, <2>1, <2>2
<1>60. PICK s1 \in Int : s1 = HalfSum(0, 0, 0, a11, a12, a13, a14, a15) /\ s1 = a11 * h3 +
           a12 * h4 + a13 * h5 + a14 * h6 + a15 * h7
  <2>1. PICK z \in Int : z = 0
    OBVIOUS
  <2>2. HalfSum(z, z, z, a11, a12, a13, a14, a15) = z + z * h1 + z * h2 + a11 * h3 + a12 * h4 +
             a13 * h5 + a14 * h6 + a15 * h7
    BY <1>0, HalfSumIs
  <2> QED
    BY <2>1, <2>2
<1>61. PICK s2 \in Int : s2 = HalfSum(0, 0, 0, a12, a13, a14, a15, 0) /\ s2 = a12 * h3 +
           a13 * h4 + a14 * h5 + a15 * h6
  <2>1. PICK z \in Int : z = 0
    OBVIOUS
  <2>2. HalfSum(z, z, z, a12, a13, a14, a15, z) = z + z * h1 + z * h2 + a12 * h3 + a13 * h4 +
             a14 * h5 + a15 * h6 + z * h7
    BY <1>0, HalfSumIs
  <2> QED
    BY <2>1, <2>2
<1>62. PICK s3 \in Int : s3 = HalfSum(a8, a9, a10, 0, 0, 0, a14, a15) /\ s3 = a8 + a9 * h1 +
           a10 * h2 + a14 * h6 + a15 * h7
  <2>1. PICK z \in Int : z = 0
    OBVIOUS
  <2>2. HalfSum(a8, a9, a10, z, z, z, a14, a15) = a8 + a9 * h1 + a10 * h2 + z * h3 + z * h4 +
             z * h5 + a14 * h6 + a15 * h7
    BY <1>0, HalfSumIs
  <2> QED
    BY <2>1, <2>2
<1>63. PICK s4 \in Int : s4 = HalfSum(a9, a10, a11, a13, a14, a15, a13, a8) /\ s4 = a9 +
           a10 * h1 + a11 * h2 + a13 * h3 + a14 * h4 + a15 * h5 + a13 * h6 + a8 * h7
  <2>1. PICK z \in Int : z = 0
    OBVIOUS
  <2>2. HalfSum(a9, a10, a11, a13, a14, a15, a13, a8) = a9 + a10 * h1 + a11 * h2 + a13 * h3 +
             a14 * h4 + a15 * h5 + a13 * h6 + a8 * h7
    BY <1>0, HalfSumIs
  <2> QED
    BY <2>1, <2>2
<1>64. PICK d1 \in Int : d1 = HalfSum(a11, a12, a13, 0, 0, 0, a8, a10) /\ d1 = a11 + a12 * h1 +
           a13 * h2 + a8 * h6 + a10 * h7
  <2>1. PICK z \in Int : z = 0
    OBVIOUS
  <2>2. HalfSum(a11, a12, a13, z, z, z, a8, a10) = a11 + a12 * h1 + a13 * h2 + z * h3 +
             z * h4 + z * h5 + a8 * h6 + a10 * h7
    BY <1>0, HalfSumIs
  <2> QED
    BY <2>1, <2>2
<1>65. PICK d2 \in Int : d2 = HalfSum(a12, a13, a14, a15, 0, 0, a9, a11) /\ d2 = a12 +
           a13 * h1 + a14 * h2 + a15 * h3 + a9 * h6 + a11 * h7
  <2>1. PICK z \in Int : z = 0
    OBVIOUS
  <2>2. HalfSum(a12, a13, a14, a15, z, z, a9, a11) = a12 + a13 * h1 + a14 * h2 + a15 * h3 +
             z * h4 + z * h5 + a9 * h6 + a11 * h7
    BY <1>0, HalfSumIs
  <2> QED
    BY <2>1, <2>2
<1>66. PICK d3 \in Int : d3 = HalfSum(a13, a14, a15, a8, a9, a10, 0, a12) /\ d3 = a13 +
           a14 * h1 + a15 * h2 + a8 * h3 + a9 * h4 + a10 * h5 + a12 * h7
  <2>1. PICK z \in Int : z = 0
    OBVIOUS
  <2>2. HalfSum(a13, a14, a15, a8, a9, a10, z, a12) = a13 + a14 * h1 + a15 * h2 + a8 * h3 +
             a9 * h4 + a10 * h5 + z * h6 + a12 * h7
    BY <1>0, HalfSumIs
  <2> QED
    BY <2>1, <2>2
<1>67. PICK d4 \in Int : d4 = HalfSum(a14, a15, 0, a9, a10, a11, 0, a13) /\ d4 = a14 +
           a15 * h1 + a9 * h3 + a10 * h4 + a11 * h5 + a13 * h7
  <2>1. PICK z \in Int : z = 0
    OBVIOUS
  <2>2. HalfSum(a14, a15, z, a9, a10, a11, z, a13) = a14 + a15 * h1 + z * h2 + a9 * h3 +
             a10 * h4 + a11 * h5 + z * h6 + a13 * h7
    BY <1>0, HalfSumIs
  <2> QED
    BY <2>1, <2>2
<1>78. z8 = a8 - (a8 * h3) - (a8 * h6) + (a8 * h7)
  BY <1>8, <1>28
<1>79. z9 = a9 + (a9 * h1) - (a9 * h3) - (a9 * h4) - (a9 * h6)
  BY <1>9, <1>29
<1>80. z10 = (a10 * h1) + (a10 * h2) - (a10 * h4) - (a10 * h5) - (a10 * h7)
  BY <1>10, <1>30
<1>81. z11 = 0 - a11 + (a11 * h2) + 2 * (a11 * h3) - (a11 * h5) - (a11 * h7)
  BY <1>11, <1>31
<1>82. z12 = 0 - a12 - (a12 * h1) + 2 * (a12 * h3) + 2 * (a12 * h4) - (a12 * h7)
  BY <1>12, <1>32
<1>83. z13 = 0 - a13 - (a13 * h1) - (a13 * h2) + (a13 * h3) + 2 * (a13 * h4) + 2 * (a13 * h5) +
           (a13 * h6) - (a13 * h7)
  BY <1>13, <1>33
<1>84. z14 = 0 - a14 - (a14 * h1) - (a14 * h2) + (a14 * h4) + 2 * (a14 * h5) + 3 * (a14 * h6)
  BY <1>14, <1>34
<1>85. z15 = 0 - (a15 * h1) - (a15 * h2) - (a15 * h3) + (a15 * h5) + 2 * (a15 * h6) + 3 * (a15 * h7)
  BY <1>15, <1>35
<1>90. Combination(a8, a9, a10, a11, a12, a13, a14, a15) = ((2 * s1 + 2 * s2) + (s3 +
           s4)) - ((d1 + d2) + (d3 + d4))
  BY <1>60, <1>61, <1>62, <1>63, <1>64, <1>65, <1>66, <1>67 DEF Combination
<1>91. ((2 * s1 + 2 * s2) + (s3 + s4)) - ((d1 + d2) + (d3 + d4))
         = ((z8 + z9) + (z10 + z11)) + ((z12 + z13) + (z14 + z15))
  BY <1>60, <1>61, <1>62, <1>63, <1>64, <1>65, <1>66, <1>67, <1>78, <1>79, <1>80, <1>81, <1>82,
    <1>83, <1>84, <1>85
<1> QED
  BY <1>46, <1>50, <1>90, <1>91

-----------------------------------------------------------------------------
(* The fast reduction.                                                     *)

\* The halves of a digit, and its shifts by half a digit.
LEMMA HalvesOf ==
    ASSUME NEW x \in Nat, x < B
    PROVE  /\ HalfDigit(lo(x)) /\ HalfDigit(shr(x))
           /\ hi(x) = H * shr(x) /\ shl(x) = H * lo(x) /\ x = lo(x) + H * shr(x)
<1>0. H \in Nat /\ H > 0 /\ B = H * H /\ B \in Nat /\ B > 0
  BY BaseFacts
<1>1. PICK a \in Nat, b \in Nat : a = x % H /\ b = x \div H /\ x = b * H + a /\ a < H
  BY <1>0, DivMod, DivNat
<1>2. b < H
  BY <1>0, <1>1, DivBound
<1>3. hi(x) = H * b
  BY <1>0, <1>1 DEF hi
<1>4. shl(x) = H * a
  <2>1. PICK y \in Nat, z \in Nat : y = x * H /\ z = H * a
    BY <1>0
  <2>2. y = b * B + z
    BY <1>0, <1>1, <2>1
  <2>3. z < B /\ 0 <= z
    <3>1. H * (a + 1) <= H * H
      BY <1>0, <1>1
    <3> QED
      BY <1>0, <2>1, <3>1
  <2>4. B \in Int /\ B > 0
    BY <1>0
  <2>5. y % B = z
    BY ONLY <2>2, <2>3, <2>4, DivModUnique, y \in Nat, z \in Nat, b \in Nat
  <2> QED
    BY <2>1, <2>5 DEF shl
<1>5. x = a + H * b
  BY <1>0, <1>1
<1> QED
  BY <1>1, <1>2, <1>3, <1>4, <1>5 DEF lo, shr, HalfDigit

Vlis8 == [0 .. 7 -> 0 .. B - 1]

\* The halves of a product.
LEMMA LowHigh ==
    ASSUME NEW p \in Vlis8
    PROVE  /\ Low(p) \in Vlis /\ High(p) = Vli4(p[4], p[5], p[6], p[7])
           /\ p[4] \in Nat /\ p[4] < B /\ p[5] \in Nat /\ p[5] < B
           /\ p[6] \in Nat /\ p[6] < B /\ p[7] \in Nat /\ p[7] < B
<1>1. \A i \in 0 .. 7 : p[i] \in 0 .. B - 1
  BY DEF Vlis8
<1>2. \A i \in Digits : p[i] \in 0 .. B - 1
  BY <1>1, DigitsAre
<1>3. Low(p) \in Vlis
  BY <1>2 DEF Low, Vlis
<1>4. p[4] \in 0 .. B - 1 /\ p[5] \in 0 .. B - 1 /\ p[6] \in 0 .. B - 1 /\ p[7] \in 0 .. B - 1
  BY <1>1
<1>5. p[4] \in Nat /\ p[4] < B /\ p[5] \in Nat /\ p[5] < B /\ p[6] \in Nat /\ p[6] < B /\
           p[7] \in Nat /\ p[7] < B
  BY <1>4, BaseFacts
<1> DEFINE f == [i \in Digits |-> p[NUM_ECC_DIGITS + i]]
<1>6. f[0] = p[4] /\ f[1] = p[5] /\ f[2] = p[6] /\ f[3] = p[7]
  BY DigitsAre DEF NUM_ECC_DIGITS
<1>7. f = [i \in Digits |-> f[i]]
  OBVIOUS
<1>8. High(p) = f
  BY DEF High
<1> HIDE DEF f
<1>9. f = Vli4(f[0], f[1], f[2], f[3])
  BY <1>7, FunIsVli4
<1> QED
  BY <1>3, <1>5, <1>6, <1>8, <1>9

\* vli_mmod_fast is the remainder of every eight digit number.
LEMMA MmodFastExact ==
    ASSUME NEW p \in Vlis8
    PROVE  /\ vli_mmod_fast(p) \in Vlis
           /\ Val(vli_mmod_fast(p)) = Val8(p) % Prime
<1> DEFINE s1 == Vli4(0, hi(p[5]), p[6], p[7])
           s2 == Vli4(0, shl(p[6]), shr(p[6]) + shl(p[7]), shr(p[7]))
           s3 == Vli4(p[4], lo(p[5]), 0, p[7])
           s4 == Vli4(shr(p[4]) + shl(p[5]), shr(p[5]) + hi(p[6]), p[7], shr(p[6]) + shl(p[4]))
           d1 == Vli4(shr(p[5]) + shl(p[6]), shr(p[6]), 0, lo(p[4]) + shl(p[5]))
           d2 == Vli4(p[6], p[7], 0, shr(p[4]) + hi(p[5]))
           d3 == Vli4(shr(p[6]) + shl(p[7]), shr(p[7]) + shl(p[4]), shr(p[4]) + shl(p[5]),
             shl(p[6]))
           d4 == Vli4(p[7], hi(p[4]), p[5], hi(p[6]))
           t0 == [r |-> Low(p), carry |-> 0]
           t1 == Plus2(t0, s1)
           t2 == Plus2(t1, s2)
           t3 == Plus(t2, s3)
           t4 == Plus(t3, s4)
           t5 == Minus(t4, d1)
           t6 == Minus(t5, d2)
           t7 == Minus(t6, d3)
           t8 == Minus(t7, d4)
<1>1. vli_mmod_fast(p) = Correct(t8)
  BY DEF vli_mmod_fast
<1>0. H \in Nat /\ H > 0 /\ HalfDigit(0)
  BY BaseFacts DEF HalfDigit
<1>2. /\ Low(p) \in Vlis /\ High(p) = Vli4(p[4], p[5], p[6], p[7])
      /\ p[4] \in Nat /\ p[4] < B /\ p[5] \in Nat /\ p[5] < B
      /\ p[6] \in Nat /\ p[6] < B /\ p[7] \in Nat /\ p[7] < B
  BY LowHigh
<1>8. PICK a8 \in Nat, a9 \in Nat :
        /\ a8 = lo(p[4]) /\ a9 = shr(p[4]) /\ HalfDigit(a8) /\ HalfDigit(a9)
        /\ hi(p[4]) = H * a9 /\ shl(p[4]) = H * a8 /\ p[4] = a8 + H * a9
  <2>1. /\ HalfDigit(lo(p[4])) /\ HalfDigit(shr(p[4]))
        /\ hi(p[4]) = H * shr(p[4]) /\ shl(p[4]) = H * lo(p[4]) /\ p[4] = lo(p[4]) + H * shr(p[4])
    BY <1>2, HalvesOf
  <2>2. lo(p[4]) \in Nat /\ shr(p[4]) \in Nat
    BY <2>1 DEF HalfDigit
  <2> QED
    BY <2>1, <2>2
<1>10. PICK a10 \in Nat, a11 \in Nat :
        /\ a10 = lo(p[5]) /\ a11 = shr(p[5]) /\ HalfDigit(a10) /\ HalfDigit(a11)
        /\ hi(p[5]) = H * a11 /\ shl(p[5]) = H * a10 /\ p[5] = a10 + H * a11
  <2>1. /\ HalfDigit(lo(p[5])) /\ HalfDigit(shr(p[5]))
        /\ hi(p[5]) = H * shr(p[5]) /\ shl(p[5]) = H * lo(p[5]) /\ p[5] = lo(p[5]) + H * shr(p[5])
    BY <1>2, HalvesOf
  <2>2. lo(p[5]) \in Nat /\ shr(p[5]) \in Nat
    BY <2>1 DEF HalfDigit
  <2> QED
    BY <2>1, <2>2
<1>12. PICK a12 \in Nat, a13 \in Nat :
        /\ a12 = lo(p[6]) /\ a13 = shr(p[6]) /\ HalfDigit(a12) /\ HalfDigit(a13)
        /\ hi(p[6]) = H * a13 /\ shl(p[6]) = H * a12 /\ p[6] = a12 + H * a13
  <2>1. /\ HalfDigit(lo(p[6])) /\ HalfDigit(shr(p[6]))
        /\ hi(p[6]) = H * shr(p[6]) /\ shl(p[6]) = H * lo(p[6]) /\ p[6] = lo(p[6]) + H * shr(p[6])
    BY <1>2, HalvesOf
  <2>2. lo(p[6]) \in Nat /\ shr(p[6]) \in Nat
    BY <2>1 DEF HalfDigit
  <2> QED
    BY <2>1, <2>2
<1>14. PICK a14 \in Nat, a15 \in Nat :
        /\ a14 = lo(p[7]) /\ a15 = shr(p[7]) /\ HalfDigit(a14) /\ HalfDigit(a15)
        /\ hi(p[7]) = H * a15 /\ shl(p[7]) = H * a14 /\ p[7] = a14 + H * a15
  <2>1. /\ HalfDigit(lo(p[7])) /\ HalfDigit(shr(p[7]))
        /\ hi(p[7]) = H * shr(p[7]) /\ shl(p[7]) = H * lo(p[7]) /\ p[7] = lo(p[7]) + H * shr(p[7])
    BY <1>2, HalvesOf
  <2>2. lo(p[7]) \in Nat /\ shr(p[7]) \in Nat
    BY <2>1 DEF HalfDigit
  <2> QED
    BY <2>1, <2>2
<1>20. s1 \in Vlis /\ Val(s1) = HalfSum(0, 0, 0, a11, a12, a13, a14, a15) /\ Val(s1) \in Nat
  <2>1. s1 = FromHalves(0, 0, 0, a11, a12, a13, a14, a15)
    <3>1. 0 = 0 + H * 0 /\ hi(p[5]) = 0 + H * a11 /\ p[6] = a12 + H * a13 /\ p[7] = a14 + H * a15
      BY <1>0, <1>8, <1>10, <1>12, <1>14
    <3> QED
      BY <3>1 DEF FromHalves
  <2> HIDE DEF s1
  <2> QED
    BY <1>0, <1>8, <1>10, <1>12, <1>14, <2>1, FromHalvesExact, ValType
<1>21. s2 \in Vlis /\ Val(s2) = HalfSum(0, 0, 0, a12, a13, a14, a15, 0) /\ Val(s2) \in Nat
  <2>1. s2 = FromHalves(0, 0, 0, a12, a13, a14, a15, 0)
    <3>1. 0 = 0 + H * 0 /\ shl(p[6]) = 0 + H * a12 /\ shr(p[6]) + shl(p[7]) = a13 + H * a14 /\
               shr(p[7]) = a15 + H * 0
      BY <1>0, <1>8, <1>10, <1>12, <1>14
    <3> QED
      BY <3>1 DEF FromHalves
  <2> HIDE DEF s2
  <2> QED
    BY <1>0, <1>8, <1>10, <1>12, <1>14, <2>1, FromHalvesExact, ValType
<1>22. s3 \in Vlis /\ Val(s3) = HalfSum(a8, a9, a10, 0, 0, 0, a14, a15) /\ Val(s3) \in Nat
  <2>1. s3 = FromHalves(a8, a9, a10, 0, 0, 0, a14, a15)
    <3>1. p[4] = a8 + H * a9 /\ lo(p[5]) = a10 + H * 0 /\ 0 = 0 + H * 0 /\ p[7] = a14 + H * a15
      BY <1>0, <1>8, <1>10, <1>12, <1>14
    <3> QED
      BY <3>1 DEF FromHalves
  <2> HIDE DEF s3
  <2> QED
    BY <1>0, <1>8, <1>10, <1>12, <1>14, <2>1, FromHalvesExact, ValType
<1>23. s4 \in Vlis /\ Val(s4) = HalfSum(a9, a10, a11, a13, a14, a15, a13, a8) /\ Val(s4) \in Nat
  <2>1. s4 = FromHalves(a9, a10, a11, a13, a14, a15, a13, a8)
    <3>1. shr(p[4]) + shl(p[5]) = a9 + H * a10 /\ shr(p[5]) + hi(p[6]) = a11 + H * a13 /\
               p[7] = a14 + H * a15 /\ shr(p[6]) + shl(p[4]) = a13 + H * a8
      BY <1>0, <1>8, <1>10, <1>12, <1>14
    <3> QED
      BY <3>1 DEF FromHalves
  <2> HIDE DEF s4
  <2> QED
    BY <1>0, <1>8, <1>10, <1>12, <1>14, <2>1, FromHalvesExact, ValType
<1>24. d1 \in Vlis /\ Val(d1) = HalfSum(a11, a12, a13, 0, 0, 0, a8, a10) /\ Val(d1) \in Nat
  <2>1. d1 = FromHalves(a11, a12, a13, 0, 0, 0, a8, a10)
    <3>1. shr(p[5]) + shl(p[6]) = a11 + H * a12 /\ shr(p[6]) = a13 + H * 0 /\ 0 = 0 + H * 0 /\
               lo(p[4]) + shl(p[5]) = a8 + H * a10
      BY <1>0, <1>8, <1>10, <1>12, <1>14
    <3> QED
      BY <3>1 DEF FromHalves
  <2> HIDE DEF d1
  <2> QED
    BY <1>0, <1>8, <1>10, <1>12, <1>14, <2>1, FromHalvesExact, ValType
<1>25. d2 \in Vlis /\ Val(d2) = HalfSum(a12, a13, a14, a15, 0, 0, a9, a11) /\ Val(d2) \in Nat
  <2>1. d2 = FromHalves(a12, a13, a14, a15, 0, 0, a9, a11)
    <3>1. p[6] = a12 + H * a13 /\ p[7] = a14 + H * a15 /\ 0 = 0 + H * 0 /\ shr(p[4]) +
               hi(p[5]) = a9 + H * a11
      BY <1>0, <1>8, <1>10, <1>12, <1>14
    <3> QED
      BY <3>1 DEF FromHalves
  <2> HIDE DEF d2
  <2> QED
    BY <1>0, <1>8, <1>10, <1>12, <1>14, <2>1, FromHalvesExact, ValType
<1>26. d3 \in Vlis /\ Val(d3) = HalfSum(a13, a14, a15, a8, a9, a10, 0, a12) /\ Val(d3) \in Nat
  <2>1. d3 = FromHalves(a13, a14, a15, a8, a9, a10, 0, a12)
    <3>1. shr(p[6]) + shl(p[7]) = a13 + H * a14 /\ shr(p[7]) + shl(p[4]) = a15 + H * a8 /\
               shr(p[4]) + shl(p[5]) = a9 + H * a10 /\ shl(p[6]) = 0 + H * a12
      BY <1>0, <1>8, <1>10, <1>12, <1>14
    <3> QED
      BY <3>1 DEF FromHalves
  <2> HIDE DEF d3
  <2> QED
    BY <1>0, <1>8, <1>10, <1>12, <1>14, <2>1, FromHalvesExact, ValType
<1>27. d4 \in Vlis /\ Val(d4) = HalfSum(a14, a15, 0, a9, a10, a11, 0, a13) /\ Val(d4) \in Nat
  <2>1. d4 = FromHalves(a14, a15, 0, a9, a10, a11, 0, a13)
    <3>1. p[7] = a14 + H * a15 /\ hi(p[4]) = 0 + H * a9 /\ p[5] = a10 + H * a11 /\
               hi(p[6]) = 0 + H * a13
      BY <1>0, <1>8, <1>10, <1>12, <1>14
    <3> QED
      BY <3>1 DEF FromHalves
  <2> HIDE DEF d4
  <2> QED
    BY <1>0, <1>8, <1>10, <1>12, <1>14, <2>1, FromHalvesExact, ValType
<1> HIDE DEF s1, s2, s3, s4, d1, d2, d3, d4
<1>30. t0 \in Accs /\ Total(t0) = Val(Low(p)) /\ Val(Low(p)) \in Nat
  <2>1. Val(Low(p)) \in Nat /\ Word \in Nat
    BY <1>2, ValType, WordFacts
  <2> QED
    BY <1>2, <2>1 DEF Accs, Total
<1>31. t1 \in Accs /\ Total(t1) = Total(t0) + 2 * Val(s1)
  <2> HIDE DEF t0
  <2> QED
    BY <1>20, <1>30, Plus2Exact DEF Accs
<1>32. t2 \in Accs /\ Total(t2) = Total(t1) + 2 * Val(s2)
  <2> HIDE DEF t1
  <2> QED
    BY <1>21, <1>31, Plus2Exact DEF Accs
<1>33. t3 \in Accs /\ Total(t3) = Total(t2) + Val(s3)
  <2> HIDE DEF t2
  <2> QED
    BY <1>22, <1>32, PlusExact DEF Accs
<1>34. t4 \in Accs /\ Total(t4) = Total(t3) + Val(s4)
  <2> HIDE DEF t3
  <2> QED
    BY <1>23, <1>33, PlusExact DEF Accs
<1>35. t5 \in Accs /\ Total(t5) = Total(t4) - Val(d1)
  <2> HIDE DEF t4
  <2> QED
    BY <1>24, <1>34, MinusExact DEF Accs
<1>36. t6 \in Accs /\ Total(t6) = Total(t5) - Val(d2)
  <2> HIDE DEF t5
  <2> QED
    BY <1>25, <1>35, MinusExact DEF Accs
<1>37. t7 \in Accs /\ Total(t7) = Total(t6) - Val(d3)
  <2> HIDE DEF t6
  <2> QED
    BY <1>26, <1>36, MinusExact DEF Accs
<1>38. t8 \in Accs /\ Total(t8) = Total(t7) - Val(d4)
  <2> HIDE DEF t7
  <2> QED
    BY <1>27, <1>37, MinusExact DEF Accs
<1> HIDE DEF t0, t1, t2, t3, t4, t5, t6, t7, t8
<1>40. PICK low \in Nat, x1 \in Nat, x2 \in Nat, x3 \in Nat, x4 \in Nat, y1 \in Nat, y2 \in Nat,
           y3 \in Nat, y4 \in Nat :
        /\ low = Val(Low(p))
        /\ x1 = Val(s1) /\ x2 = Val(s2) /\ x3 = Val(s3) /\ x4 = Val(s4)
        /\ y1 = Val(d1) /\ y2 = Val(d2) /\ y3 = Val(d3) /\ y4 = Val(d4)
  BY <1>20, <1>21, <1>22, <1>23, <1>24, <1>25, <1>26, <1>27, <1>30
<1>41. Total(t4) = ((low + 2 * x1) + 2 * x2) + x3 + x4
  BY <1>30, <1>31, <1>32, <1>33, <1>34, <1>40
<1>42. Total(t8) = low + (((2 * x1 + 2 * x2) + (x3 + x4)) - ((y1 + y2) + (y3 + y4)))
  BY <1>35, <1>36, <1>37, <1>38, <1>40, <1>41
<1>43. Combination(a8, a9, a10, a11, a12, a13, a14, a15) = ((2 * x1 + 2 * x2) + (x3 +
           x4)) - ((y1 + y2) + (y3 + y4))
  BY <1>20, <1>21, <1>22, <1>23, <1>24, <1>25, <1>26, <1>27, <1>40 DEF Combination
<1>44. Val(High(p)) = HalfSum(a8, a9, a10, a11, a12, a13, a14, a15)
  <2>1. High(p) = FromHalves(a8, a9, a10, a11, a12, a13, a14, a15)
    BY <1>2, <1>8, <1>10, <1>12, <1>14 DEF FromHalves
  <2> QED
    BY <1>8, <1>10, <1>12, <1>14, <2>1, FromHalvesExact
<1>45. PICK u \in Int, c \in Int : u = Word * Val(High(p)) /\ c = Combination(a8, a9, a10, a11,
           a12, a13, a14, a15) /\ Same(u, c)
  <2>1. a8 \in Int /\ a9 \in Int /\ a10 \in Int /\ a11 \in Int /\ a12 \in Int /\ a13 \in Int /\
             a14 \in Int /\ a15 \in Int
    OBVIOUS
  <2>2. Word * HalfSum(a8, a9, a10, a11, a12, a13, a14, a15) \in Int /\ Combination(a8, a9, a10,
             a11, a12, a13, a14, a15) \in Int
    BY <2>1, UpperReduced
  <2>3. Same(Word * HalfSum(a8, a9, a10, a11, a12, a13, a14, a15), Combination(a8, a9, a10, a11,
             a12, a13, a14, a15))
    BY <2>1, UpperReduced
  <2> QED
    BY <1>44, <2>2, <2>3
<1>46. Same(low, low)
  <2>1. Prime \in Int
    BY PrimeIs
  <2>2. low = low + Prime * 0
    BY <2>1
  <2> QED
    BY <2>2 DEF Same
<1>47. Same(low + u, low + c)
  BY <1>45, <1>46, SamePlus
<1>48. Val8(p) = low + u
  BY <1>40, <1>45 DEF Val8
<1>49. Total(t8) = low + c
  BY <1>42, <1>43, <1>45
<1>50. Val8(p) % Prime = Total(t8) % Prime
  BY <1>47, <1>48, <1>49, SameModulo
<1> QED
  BY <1>1, <1>38, <1>50, CorrectExact

-----------------------------------------------------------------------------
(* Columns of a product.                                                   *)

\* A word of two digits, and a column of a product with its overflows.
Wides == [low : 0 .. B - 1, high : 0 .. B - 1]
Cols  == [r01 : Wides, r2 : Nat]
Sum(acc) == Num(acc.r01) + acc.r2 * (B * B)

\* Wide splits a number into two digits.
LEMMA WideExact ==
    ASSUME NEW x \in Nat, x < B * B
    PROVE  Wide(x) \in Wides /\ Num(Wide(x)) = x
<1>0. B \in Nat /\ B > 0
  BY BaseFacts
<1>1. PICK q \in Nat, r \in Nat : x = q * B + r /\ r < B /\ q = x \div B /\ r = x % B
  BY <1>0, DivMod, DivNat
<1>2. q < B
  BY <1>0, <1>1, DivBound
<1>3. Wide(x) = [low |-> r, high |-> q]
  BY <1>1 DEF Wide
<1>4. Wide(x) \in Wides
  BY <1>0, <1>1, <1>2, <1>3 DEF Wides
<1>5. Num(Wide(x)) = q * B + r
  BY <1>3 DEF Num
<1> QED
  BY <1>1, <1>4, <1>5

\* Two digits stand for a number below B * B.
LEMMA NumType ==
    ASSUME NEW w \in Wides
    PROVE  Num(w) \in Nat /\ Num(w) < B * B /\ Digit(w.low) /\ Digit(w.high)
<1>0. B \in Nat /\ B > 0
  BY BaseFacts
<1>1. w.low \in 0 .. B - 1 /\ w.high \in 0 .. B - 1
  BY DEF Wides
<1>2. PICK a \in Nat, b \in Nat : a = w.low /\ b = w.high /\ a < B /\ b < B
  BY <1>0, <1>1
<1>3. a + B * b \in Nat /\ a + B * b < B * B
  BY <1>0, <1>2, Horner
<1>4. Num(w) = a + B * b
  BY <1>0, <1>2 DEF Num
<1> QED
  BY <1>2, <1>3, <1>4 DEF Digit

\* Adding a product to a column counts the overflow exactly when there is one.
LEMMA AccInt128Exact ==
    ASSUME NEW acc \in Cols, NEW product \in Wides
    PROVE  /\ acc_int128(acc, product) \in Cols
           /\ Sum(acc_int128(acc, product)) = Sum(acc) + Num(product)
<1>0. PICK b2 \in Nat : b2 = B * B /\ b2 > 0
  BY WordFacts
<1>1. acc.r01 \in Wides /\ acc.r2 \in Nat
  BY DEF Cols
<1>2. PICK x \in Nat, y \in Nat : x = Num(acc.r01) /\ y = Num(product) /\ x < b2 /\ y < b2
  BY <1>0, <1>1, NumType
<1>3. PICK t \in Nat : t = x + y
  OBVIOUS
<1>4. PICK s \in Nat : s = t % b2 /\ s < b2
  BY <1>0, DivMod
<1>5. Wide(s) \in Wides /\ Num(Wide(s)) = s
  BY <1>0, <1>4, WideExact
<1>6. PICK c \in {0, 1} : c = Bool(s < y) /\ s + c * b2 = t
  <2>1. CASE t < b2
    <3>1. s = t
      BY <1>0, <1>4, <2>1, ModSmall
    <3>2. ~(s < y)
      BY <1>3, <3>1
    <3> QED
      BY <1>0, <3>1, <3>2 DEF Bool
  <2>2. CASE t >= b2
    <3>1. t < 2 * b2
      BY <1>2, <1>3
    <3>2. s = t - b2
      BY <1>0, <1>4, <2>2, <3>1, ModOnce
    <3>3. s < y
      BY <1>2, <1>3, <3>2
    <3> QED
      BY <1>0, <3>2, <3>3 DEF Bool
  <2> QED
    BY <2>1, <2>2
<1>7. acc_int128(acc, product) = [r01 |-> Wide(s), r2 |-> acc.r2 + c]
  BY <1>0, <1>2, <1>3, <1>4, <1>6 DEF acc_int128
<1>8. acc_int128(acc, product) \in Cols
  BY <1>1, <1>5, <1>7 DEF Cols
<1>9. PICK n \in Nat : n = acc.r2
  BY <1>1
<1>10. Sum(acc_int128(acc, product)) = s + (n + c) * b2
  BY <1>0, <1>5, <1>7, <1>9 DEF Sum
<1>11. Sum(acc) = x + n * b2
  BY <1>0, <1>2, <1>9 DEF Sum
<1>12. s + (n + c) * b2 = x + n * b2 + y
  BY ONLY <1>3, <1>6, b2 \in Nat, x \in Nat, y \in Nat, n \in Nat, s \in Nat, t \in Nat
<1> QED
  BY <1>2, <1>8, <1>10, <1>11, <1>12

\* The product of two digits has two digits.
LEMMA DigitProduct ==
    ASSUME NEW b \in Nat, NEW x \in Nat, NEW y \in Nat, x < b, y < b
    PROVE  x * y \in Nat /\ x * y <= (b - 1) * (b - 1) /\ x * y < b * b
<1>1. x * y <= (b - 1) * y
  OBVIOUS
<1>2. (b - 1) * y <= (b - 1) * (b - 1)
  OBVIOUS
<1>3. (b - 1) * (b - 1) < b * b
  OBVIOUS
<1> QED
  BY <1>1, <1>2, <1>3

\* A product is added to a column exactly, once or twice.
LEMMA AccumulateExact ==
    ASSUME NEW acc \in Cols, NEW x \in Nat, NEW y \in Nat, x < B, y < B, NEW twice \in BOOLEAN
    PROVE  /\ accumulate(TRUE, acc, x, y, twice) \in Cols
           /\ Sum(accumulate(TRUE, acc, x, y, twice)) = Sum(acc) +
                      (IF twice THEN 2 * (x * y) ELSE x * y)
<1>0. B \in Nat /\ B > 0 /\ Top \in Nat /\ Top > 0 /\ B = 2 * Top
  BY BaseFacts, TopFacts
<1>1. PICK xy \in Nat : xy = x * y /\ xy < B * B
  BY <1>0, DigitProduct
<1> DEFINE product == Wide(xy)
<1>2. product \in Wides /\ Num(product) = xy
  BY <1>1, WideExact
<1> HIDE DEF product
<1>3. CASE ~twice
  <2>1. accumulate(TRUE, acc, x, y, twice) = acc_int128(acc, product)
    BY <1>1, <1>3 DEF accumulate, product
  <2> QED
    BY <1>1, <1>2, <1>3, <2>1, AccInt128Exact
<1>4. CASE twice
  <2> DEFINE double == Wide((Num(product) * 2) % (B * B))
             acc2 == [acc EXCEPT !.r2 = @ + product.high \div Top]
  <2>1. accumulate(TRUE, acc, x, y, twice) = acc_int128(acc2, double)
    BY <1>1, <1>4 DEF accumulate, product
  <2>2. PICK b2 \in Nat : b2 = B * B /\ b2 > 0
    BY WordFacts
  <2>3. PICK h \in Nat, l \in Nat : h = product.high /\ l = product.low /\ h < B /\ l < B /\
             xy = h * B + l
    BY <1>2, NumType DEF Digit, Num
  <2>4. PICK c \in {0, 1}, m \in Nat : c = h \div Top /\ m = (h * 2) % B /\ m <= B - 2 /\ m +
             c * B = 2 * h
    BY <2>3, DoubleDigit
  <2>5. (xy * 2) % b2 = m * B + 2 * l
    <3>1. PICK e \in Nat, mb \in Nat : e = m * B + 2 * l /\ mb = m * B
      BY <1>0
    <3>2. mb <= (B - 2) * B
      BY <1>0, <2>4, <3>1
    <3>3. (B - 2) * B = b2 - 2 * B
      BY <1>0, <2>2
    <3>4. e < b2
      BY <1>0, <2>3, <3>1, <3>2, <3>3
    <3>5. PICK f \in Nat : f = xy * 2
      OBVIOUS
    <3>6. f = c * b2 + e
      <4>1. f = (2 * h) * B + 2 * l
        BY <1>0, <2>3, <3>5
      <4>2. (2 * h) * B = m * B + c * (B * B)
        BY <1>0, <2>4
      <4> QED
        BY <2>2, <3>1, <4>1, <4>2
    <3>7. f % b2 = e
      <4>1. b2 > 0 /\ c \in Int
        BY <2>2
      <4> QED
        BY ONLY <3>4, <3>6, <4>1, DivModUnique, b2 \in Nat, e \in Nat, f \in Nat
    <3> QED
      BY <3>1, <3>5, <3>7
  <2>6. PICK e \in Nat : e = (xy * 2) % b2 /\ e < b2
    BY <2>2, DivMod
  <2>7. double \in Wides /\ Num(double) = e
    BY <1>2, <2>2, <2>6, WideExact
  <2>8. acc2 = [r01 |-> acc.r01, r2 |-> acc.r2 + c] /\ acc2 \in Cols
    BY <2>3, <2>4 DEF Cols
  <2> HIDE DEF double, acc2
  <2>9. acc_int128(acc2, double) \in Cols /\ Sum(acc_int128(acc2, double)) = Sum(acc2) + e
    BY <2>7, <2>8, AccInt128Exact
  <2>10. PICK n \in Nat, z \in Nat : n = acc.r2 /\ z = Num(acc.r01)
    BY NumType DEF Cols
  <2>11. Sum(acc2) = z + (n + c) * b2 /\ Sum(acc) = z + n * b2
    BY <2>2, <2>8, <2>10 DEF Sum
  <2>12. c * b2 + e = 2 * xy
    <3>1. e = m * B + 2 * l
      BY <2>5, <2>6
    <3>2. (2 * h) * B = m * B + c * (B * B)
      BY <1>0, <2>4
    <3>3. 2 * xy = (2 * h) * B + 2 * l
      BY <1>0, <2>3
    <3> QED
      BY <1>0, <2>2, <3>1, <3>2, <3>3
  <2>13. z + (n + c) * b2 + e = z + n * b2 + 2 * xy
    BY ONLY <2>12, z \in Nat, n \in Nat, c \in {0, 1}, b2 \in Nat, e \in Nat, xy \in Nat
  <2> QED
    BY <1>1, <1>4, <2>1, <2>9, <2>11, <2>13
<1> QED
  BY <1>3, <1>4

-----------------------------------------------------------------------------
(* The items of a column.                                                  *)

\* What digit i of the left operand adds to column k.
Item(square, l, r, k, i) ==
    IF InColumn(k, square, i)
    THEN IF square /\ i < k - i THEN 2 * (l[i] * r[k - i]) ELSE l[i] * r[k - i]
    ELSE 0

\* An item of a column is added exactly, or there is none.
LEMMA AddItemExact ==
    ASSUME NEW acc \in Cols, NEW l \in Vlis, NEW r \in Vlis, NEW k \in 0 .. 6, NEW i \in 0 .. 3,
           NEW square \in BOOLEAN
    PROVE  /\ AddItem(TRUE, square, l, r, k, acc, i) \in Cols
           /\ Item(square, l, r, k, i) \in Nat
           /\ Sum(AddItem(TRUE, square, l, r, k, acc, i)) = Sum(acc) + Item(square, l, r, k, i)
<1>0. Sum(acc) \in Nat
  <2>1. Num(acc.r01) \in Nat /\ acc.r2 \in Nat /\ B * B \in Nat
    BY NumType, WordFacts DEF Cols
  <2> QED
    BY <2>1 DEF Sum
<1>1. CASE ~InColumn(k, square, i)
  BY <1>0, <1>1 DEF AddItem, Item
<1>2. CASE InColumn(k, square, i)
  <2>1. k - i \in 0 .. 3
    BY <1>2 DEF InColumn, l_min, NUM_ECC_DIGITS
  <2>2. PICK x \in Nat, y \in Nat : x = l[i] /\ y = r[k - i] /\ x < B /\ y < B
    <3>1. l[i] \in 0 .. B - 1 /\ r[k - i] \in 0 .. B - 1
      BY <2>1, DigitsAre DEF Vlis
    <3> QED
      BY <3>1, BaseFacts
  <2>3. PICK twice \in BOOLEAN : twice = (square /\ i < k - i)
    OBVIOUS
  <2>4. AddItem(TRUE, square, l, r, k, acc, i) = accumulate(TRUE, acc, x, y, twice)
    BY <1>2, <2>2, <2>3 DEF AddItem
  <2>5. Item(square, l, r, k, i) = IF twice THEN 2 * (x * y) ELSE x * y
    BY <1>2, <2>2, <2>3 DEF Item
  <2>6. x * y \in Nat
    OBVIOUS
  <2>7. accumulate(TRUE, acc, x, y, twice) \in Cols
    BY <2>2, AccumulateExact
  <2>8. Sum(accumulate(TRUE, acc, x, y, twice)) = Sum(acc) + (IF twice THEN 2 * (x * y) ELSE x * y)
    BY <2>2, AccumulateExact
  <2>9. Item(square, l, r, k, i) \in Nat
    BY <2>5, <2>6
  <2> QED
    BY <2>4, <2>5, <2>7, <2>8, <2>9
<1> QED
  BY <1>1, <1>2

ColumnSum(square, l, r, k) ==
    Item(square, l, r, k, 0) + Item(square, l, r, k, 1) + Item(square, l, r, k, 2) + Item(square,
      l, r, k, 3)

\* A column adds up its items.
LEMMA ColumnExact ==
    ASSUME NEW l \in Vlis, NEW r \in Vlis, NEW k \in 0 .. 6, NEW square \in BOOLEAN,
               NEW r01 \in Wides
    PROVE  /\ Column(TRUE, square, l, r, k, r01) \in Cols
           /\ Sum(Column(TRUE, square, l, r, k, r01)) = Num(r01) + ColumnSum(square, l, r, k)
<1> DEFINE add(acc, i) == AddItem(TRUE, square, l, r, k, acc, i)
           a0 == [r01 |-> r01, r2 |-> 0]
           a1 == add(a0, 0)
           a2 == add(a1, 1)
           a3 == add(a2, 2)
           a4 == add(a3, 3)
<1>0. Column(TRUE, square, l, r, k, r01) = a4
  BY DEF Column
<1>1. a0 \in Cols /\ Sum(a0) = Num(r01) /\ Num(r01) \in Nat
  <2>1. Num(r01) \in Nat /\ B * B \in Nat
    BY NumType, WordFacts
  <2> QED
    BY <2>1 DEF Cols, Sum
<1>6. 0 \in 0 .. 3 /\ 1 \in 0 .. 3 /\ 2 \in 0 .. 3 /\ 3 \in 0 .. 3
  OBVIOUS
<1>2. a1 \in Cols /\ Sum(a1) = Sum(a0) + Item(square, l, r, k, 0) /\ Item(square, l, r, k,
           0) \in Nat
  <2>1. a0 \in Cols
    BY <1>1
  <2> HIDE DEF a0
  <2>2. AddItem(TRUE, square, l, r, k, a0, 0) \in Cols
    BY <1>6, <2>1, AddItemExact
  <2>3. Item(square, l, r, k, 0) \in Nat
    BY <1>6, <2>1, AddItemExact
  <2>4. Sum(AddItem(TRUE, square, l, r, k, a0, 0)) = Sum(a0) + Item(square, l, r, k, 0)
    BY <1>6, <2>1, AddItemExact
  <2> QED
    BY <2>2, <2>3, <2>4
<1>3. a2 \in Cols /\ Sum(a2) = Sum(a1) + Item(square, l, r, k, 1) /\ Item(square, l, r, k,
           1) \in Nat
  <2>1. a1 \in Cols
    BY <1>2
  <2> HIDE DEF a1
  <2>2. AddItem(TRUE, square, l, r, k, a1, 1) \in Cols
    BY <1>6, <2>1, AddItemExact
  <2>3. Item(square, l, r, k, 1) \in Nat
    BY <1>6, <2>1, AddItemExact
  <2>4. Sum(AddItem(TRUE, square, l, r, k, a1, 1)) = Sum(a1) + Item(square, l, r, k, 1)
    BY <1>6, <2>1, AddItemExact
  <2> QED
    BY <2>2, <2>3, <2>4
<1>4. a3 \in Cols /\ Sum(a3) = Sum(a2) + Item(square, l, r, k, 2) /\ Item(square, l, r, k,
           2) \in Nat
  <2>1. a2 \in Cols
    BY <1>3
  <2> HIDE DEF a2
  <2>2. AddItem(TRUE, square, l, r, k, a2, 2) \in Cols
    BY <1>6, <2>1, AddItemExact
  <2>3. Item(square, l, r, k, 2) \in Nat
    BY <1>6, <2>1, AddItemExact
  <2>4. Sum(AddItem(TRUE, square, l, r, k, a2, 2)) = Sum(a2) + Item(square, l, r, k, 2)
    BY <1>6, <2>1, AddItemExact
  <2> QED
    BY <2>2, <2>3, <2>4
<1>5. a4 \in Cols /\ Sum(a4) = Sum(a3) + Item(square, l, r, k, 3) /\ Item(square, l, r, k,
           3) \in Nat
  <2>1. a3 \in Cols
    BY <1>4
  <2> HIDE DEF a3
  <2>2. AddItem(TRUE, square, l, r, k, a3, 3) \in Cols
    BY <1>6, <2>1, AddItemExact
  <2>3. Item(square, l, r, k, 3) \in Nat
    BY <1>6, <2>1, AddItemExact
  <2>4. Sum(AddItem(TRUE, square, l, r, k, a3, 3)) = Sum(a3) + Item(square, l, r, k, 3)
    BY <1>6, <2>1, AddItemExact
  <2> QED
    BY <2>2, <2>3, <2>4
<1> HIDE DEF a0, a1, a2, a3, a4
<1>7. PICK x0 \in Nat, x1 \in Nat, x2 \in Nat, x3 \in Nat, m \in Nat :
        /\ x0 = Item(square, l, r, k, 0) /\ x1 = Item(square, l, r, k, 1)
        /\ x2 = Item(square, l, r, k, 2) /\ x3 = Item(square, l, r, k, 3) /\ m = Num(r01)
  BY <1>1, <1>2, <1>3, <1>4, <1>5
<1>8. Sum(a4) = m + (x0 + x1 + x2 + x3)
  BY <1>1, <1>2, <1>3, <1>4, <1>5, <1>7
<1>9. ColumnSum(square, l, r, k) = x0 + x1 + x2 + x3
  BY <1>7 DEF ColumnSum
<1> QED
  BY <1>0, <1>5, <1>7, <1>8, <1>9

\* A square adds up the same columns as a product with itself.
LEMMA ColumnSumIs ==
    ASSUME NEW l \in Vlis, NEW r \in Vlis, NEW square \in BOOLEAN, square => l = r
    PROVE  /\ ColumnSum(square, l, r, 0) = l[0] * r[0]
           /\ ColumnSum(square, l, r, 1) = l[0] * r[1] + l[1] * r[0]
           /\ ColumnSum(square, l, r, 2) = l[0] * r[2] + l[1] * r[1] + l[2] * r[0]
           /\ ColumnSum(square, l, r, 3) = l[0] * r[3] + l[1] * r[2] + l[2] * r[1] + l[3] * r[0]
           /\ ColumnSum(square, l, r, 4) = l[1] * r[3] + l[2] * r[2] + l[3] * r[1]
           /\ ColumnSum(square, l, r, 5) = l[2] * r[3] + l[3] * r[2]
           /\ ColumnSum(square, l, r, 6) = l[3] * r[3]
<1>1. /\ l[0] \in Nat /\ l[1] \in Nat /\ l[2] \in Nat /\ l[3] \in Nat
      /\ r[0] \in Nat /\ r[1] \in Nat /\ r[2] \in Nat /\ r[3] \in Nat
  BY VliDigits DEF Digit
<1>2. ColumnSum(square, l, r, 0) = l[0] * r[0]
  <2>1. CASE ~square
    <3>1. Item(square, l, r, 0, 0) = l[0] * r[0]
      BY <2>1 DEF Item, InColumn, l_min, NUM_ECC_DIGITS
    <3>2. Item(square, l, r, 0, 1) = 0
      BY <2>1 DEF Item, InColumn, l_min, NUM_ECC_DIGITS
    <3>3. Item(square, l, r, 0, 2) = 0
      BY <2>1 DEF Item, InColumn, l_min, NUM_ECC_DIGITS
    <3>4. Item(square, l, r, 0, 3) = 0
      BY <2>1 DEF Item, InColumn, l_min, NUM_ECC_DIGITS
    <3> QED
      BY <1>1, <3>1, <3>2, <3>3, <3>4 DEF ColumnSum
  <2>2. CASE square
    <3>1. Item(square, l, r, 0, 0) = l[0] * r[0]
      BY <2>2 DEF Item, InColumn, l_min, NUM_ECC_DIGITS
    <3>2. Item(square, l, r, 0, 1) = 0
      BY <2>2 DEF Item, InColumn, l_min, NUM_ECC_DIGITS
    <3>3. Item(square, l, r, 0, 2) = 0
      BY <2>2 DEF Item, InColumn, l_min, NUM_ECC_DIGITS
    <3>4. Item(square, l, r, 0, 3) = 0
      BY <2>2 DEF Item, InColumn, l_min, NUM_ECC_DIGITS
    <3> QED
      BY <1>1, <3>1, <3>2, <3>3, <3>4 DEF ColumnSum
  <2> QED
    BY <2>1, <2>2
<1>3. ColumnSum(square, l, r, 1) = l[0] * r[1] + l[1] * r[0]
  <2>1. CASE ~square
    <3>1. Item(square, l, r, 1, 0) = l[0] * r[1]
      BY <2>1 DEF Item, InColumn, l_min, NUM_ECC_DIGITS
    <3>2. Item(square, l, r, 1, 1) = l[1] * r[0]
      BY <2>1 DEF Item, InColumn, l_min, NUM_ECC_DIGITS
    <3>3. Item(square, l, r, 1, 2) = 0
      BY <2>1 DEF Item, InColumn, l_min, NUM_ECC_DIGITS
    <3>4. Item(square, l, r, 1, 3) = 0
      BY <2>1 DEF Item, InColumn, l_min, NUM_ECC_DIGITS
    <3> QED
      BY <1>1, <3>1, <3>2, <3>3, <3>4 DEF ColumnSum
  <2>2. CASE square
    <3>1. Item(square, l, r, 1, 0) = 2 * (l[0] * r[1])
      BY <2>2 DEF Item, InColumn, l_min, NUM_ECC_DIGITS
    <3>2. Item(square, l, r, 1, 1) = 0
      BY <2>2 DEF Item, InColumn, l_min, NUM_ECC_DIGITS
    <3>3. Item(square, l, r, 1, 2) = 0
      BY <2>2 DEF Item, InColumn, l_min, NUM_ECC_DIGITS
    <3>4. Item(square, l, r, 1, 3) = 0
      BY <2>2 DEF Item, InColumn, l_min, NUM_ECC_DIGITS
    <3>5. l[0] * r[1] = l[1] * r[0]
      BY <1>1, <2>2
    <3> QED
      BY <1>1, <3>1, <3>2, <3>3, <3>4, <3>5 DEF ColumnSum
  <2> QED
    BY <2>1, <2>2
<1>4. ColumnSum(square, l, r, 2) = l[0] * r[2] + l[1] * r[1] + l[2] * r[0]
  <2>1. CASE ~square
    <3>1. Item(square, l, r, 2, 0) = l[0] * r[2]
      BY <2>1 DEF Item, InColumn, l_min, NUM_ECC_DIGITS
    <3>2. Item(square, l, r, 2, 1) = l[1] * r[1]
      BY <2>1 DEF Item, InColumn, l_min, NUM_ECC_DIGITS
    <3>3. Item(square, l, r, 2, 2) = l[2] * r[0]
      BY <2>1 DEF Item, InColumn, l_min, NUM_ECC_DIGITS
    <3>4. Item(square, l, r, 2, 3) = 0
      BY <2>1 DEF Item, InColumn, l_min, NUM_ECC_DIGITS
    <3> QED
      BY <1>1, <3>1, <3>2, <3>3, <3>4 DEF ColumnSum
  <2>2. CASE square
    <3>1. Item(square, l, r, 2, 0) = 2 * (l[0] * r[2])
      BY <2>2 DEF Item, InColumn, l_min, NUM_ECC_DIGITS
    <3>2. Item(square, l, r, 2, 1) = l[1] * r[1]
      BY <2>2 DEF Item, InColumn, l_min, NUM_ECC_DIGITS
    <3>3. Item(square, l, r, 2, 2) = 0
      BY <2>2 DEF Item, InColumn, l_min, NUM_ECC_DIGITS
    <3>4. Item(square, l, r, 2, 3) = 0
      BY <2>2 DEF Item, InColumn, l_min, NUM_ECC_DIGITS
    <3>5. l[0] * r[2] = l[2] * r[0]
      BY <1>1, <2>2
    <3> QED
      BY <1>1, <3>1, <3>2, <3>3, <3>4, <3>5 DEF ColumnSum
  <2> QED
    BY <2>1, <2>2
<1>5. ColumnSum(square, l, r, 3) = l[0] * r[3] + l[1] * r[2] + l[2] * r[1] + l[3] * r[0]
  <2>1. CASE ~square
    <3>1. Item(square, l, r, 3, 0) = l[0] * r[3]
      BY <2>1 DEF Item, InColumn, l_min, NUM_ECC_DIGITS
    <3>2. Item(square, l, r, 3, 1) = l[1] * r[2]
      BY <2>1 DEF Item, InColumn, l_min, NUM_ECC_DIGITS
    <3>3. Item(square, l, r, 3, 2) = l[2] * r[1]
      BY <2>1 DEF Item, InColumn, l_min, NUM_ECC_DIGITS
    <3>4. Item(square, l, r, 3, 3) = l[3] * r[0]
      BY <2>1 DEF Item, InColumn, l_min, NUM_ECC_DIGITS
    <3> QED
      BY <1>1, <3>1, <3>2, <3>3, <3>4 DEF ColumnSum
  <2>2. CASE square
    <3>1. Item(square, l, r, 3, 0) = 2 * (l[0] * r[3])
      BY <2>2 DEF Item, InColumn, l_min, NUM_ECC_DIGITS
    <3>2. Item(square, l, r, 3, 1) = 2 * (l[1] * r[2])
      BY <2>2 DEF Item, InColumn, l_min, NUM_ECC_DIGITS
    <3>3. Item(square, l, r, 3, 2) = 0
      BY <2>2 DEF Item, InColumn, l_min, NUM_ECC_DIGITS
    <3>4. Item(square, l, r, 3, 3) = 0
      BY <2>2 DEF Item, InColumn, l_min, NUM_ECC_DIGITS
    <3>5. l[0] * r[3] = l[3] * r[0] /\ l[1] * r[2] = l[2] * r[1]
      BY <1>1, <2>2
    <3> QED
      BY <1>1, <3>1, <3>2, <3>3, <3>4, <3>5 DEF ColumnSum
  <2> QED
    BY <2>1, <2>2
<1>6. ColumnSum(square, l, r, 4) = l[1] * r[3] + l[2] * r[2] + l[3] * r[1]
  <2>1. CASE ~square
    <3>1. Item(square, l, r, 4, 0) = 0
      BY <2>1 DEF Item, InColumn, l_min, NUM_ECC_DIGITS
    <3>2. Item(square, l, r, 4, 1) = l[1] * r[3]
      BY <2>1 DEF Item, InColumn, l_min, NUM_ECC_DIGITS
    <3>3. Item(square, l, r, 4, 2) = l[2] * r[2]
      BY <2>1 DEF Item, InColumn, l_min, NUM_ECC_DIGITS
    <3>4. Item(square, l, r, 4, 3) = l[3] * r[1]
      BY <2>1 DEF Item, InColumn, l_min, NUM_ECC_DIGITS
    <3> QED
      BY <1>1, <3>1, <3>2, <3>3, <3>4 DEF ColumnSum
  <2>2. CASE square
    <3>1. Item(square, l, r, 4, 0) = 0
      BY <2>2 DEF Item, InColumn, l_min, NUM_ECC_DIGITS
    <3>2. Item(square, l, r, 4, 1) = 2 * (l[1] * r[3])
      BY <2>2 DEF Item, InColumn, l_min, NUM_ECC_DIGITS
    <3>3. Item(square, l, r, 4, 2) = l[2] * r[2]
      BY <2>2 DEF Item, InColumn, l_min, NUM_ECC_DIGITS
    <3>4. Item(square, l, r, 4, 3) = 0
      BY <2>2 DEF Item, InColumn, l_min, NUM_ECC_DIGITS
    <3>5. l[1] * r[3] = l[3] * r[1]
      BY <1>1, <2>2
    <3> QED
      BY <1>1, <3>1, <3>2, <3>3, <3>4, <3>5 DEF ColumnSum
  <2> QED
    BY <2>1, <2>2
<1>7. ColumnSum(square, l, r, 5) = l[2] * r[3] + l[3] * r[2]
  <2>1. CASE ~square
    <3>1. Item(square, l, r, 5, 0) = 0
      BY <2>1 DEF Item, InColumn, l_min, NUM_ECC_DIGITS
    <3>2. Item(square, l, r, 5, 1) = 0
      BY <2>1 DEF Item, InColumn, l_min, NUM_ECC_DIGITS
    <3>3. Item(square, l, r, 5, 2) = l[2] * r[3]
      BY <2>1 DEF Item, InColumn, l_min, NUM_ECC_DIGITS
    <3>4. Item(square, l, r, 5, 3) = l[3] * r[2]
      BY <2>1 DEF Item, InColumn, l_min, NUM_ECC_DIGITS
    <3> QED
      BY <1>1, <3>1, <3>2, <3>3, <3>4 DEF ColumnSum
  <2>2. CASE square
    <3>1. Item(square, l, r, 5, 0) = 0
      BY <2>2 DEF Item, InColumn, l_min, NUM_ECC_DIGITS
    <3>2. Item(square, l, r, 5, 1) = 0
      BY <2>2 DEF Item, InColumn, l_min, NUM_ECC_DIGITS
    <3>3. Item(square, l, r, 5, 2) = 2 * (l[2] * r[3])
      BY <2>2 DEF Item, InColumn, l_min, NUM_ECC_DIGITS
    <3>4. Item(square, l, r, 5, 3) = 0
      BY <2>2 DEF Item, InColumn, l_min, NUM_ECC_DIGITS
    <3>5. l[2] * r[3] = l[3] * r[2]
      BY <1>1, <2>2
    <3> QED
      BY <1>1, <3>1, <3>2, <3>3, <3>4, <3>5 DEF ColumnSum
  <2> QED
    BY <2>1, <2>2
<1>8. ColumnSum(square, l, r, 6) = l[3] * r[3]
  <2>1. CASE ~square
    <3>1. Item(square, l, r, 6, 0) = 0
      BY <2>1 DEF Item, InColumn, l_min, NUM_ECC_DIGITS
    <3>2. Item(square, l, r, 6, 1) = 0
      BY <2>1 DEF Item, InColumn, l_min, NUM_ECC_DIGITS
    <3>3. Item(square, l, r, 6, 2) = 0
      BY <2>1 DEF Item, InColumn, l_min, NUM_ECC_DIGITS
    <3>4. Item(square, l, r, 6, 3) = l[3] * r[3]
      BY <2>1 DEF Item, InColumn, l_min, NUM_ECC_DIGITS
    <3> QED
      BY <1>1, <3>1, <3>2, <3>3, <3>4 DEF ColumnSum
  <2>2. CASE square
    <3>1. Item(square, l, r, 6, 0) = 0
      BY <2>2 DEF Item, InColumn, l_min, NUM_ECC_DIGITS
    <3>2. Item(square, l, r, 6, 1) = 0
      BY <2>2 DEF Item, InColumn, l_min, NUM_ECC_DIGITS
    <3>3. Item(square, l, r, 6, 2) = 0
      BY <2>2 DEF Item, InColumn, l_min, NUM_ECC_DIGITS
    <3>4. Item(square, l, r, 6, 3) = l[3] * r[3]
      BY <2>2 DEF Item, InColumn, l_min, NUM_ECC_DIGITS
    <3> QED
      BY <1>1, <3>1, <3>2, <3>3, <3>4 DEF ColumnSum
  <2> QED
    BY <2>1, <2>2
<1> QED
  BY <1>2, <1>3, <1>4, <1>5, <1>6, <1>7, <1>8

-----------------------------------------------------------------------------
(* What a column carries.                                                  *)

\* What a column carries into the next one.
Carried(w) == w \in Wides /\ Num(w) <= 4 * (B - 1)

\* A column has at most four products.
LEMMA ColumnBound ==
    ASSUME NEW l \in Vlis, NEW r \in Vlis, NEW square \in BOOLEAN, square => l = r, NEW k \in 0 .. 6
    PROVE  ColumnSum(square, l, r, k) \in Nat /\ ColumnSum(square, l, r,
               k) <= 4 * ((B - 1) * (B - 1))
<1>0. B \in Nat
  BY BaseFacts
<1>1. PICK m \in Nat : m = (B - 1) * (B - 1)
  BY BaseFacts
<1>2. ASSUME NEW i \in Digits, NEW j \in Digits PROVE l[i] * r[j] \in Nat /\ l[i] * r[j] <= m
  <2>1. l[i] \in 0 .. B - 1 /\ r[j] \in 0 .. B - 1
    BY DEF Vlis
  <2>2. PICK x \in Nat, y \in Nat : x = l[i] /\ y = r[j] /\ x < B /\ y < B
    BY <1>0, <2>1
  <2> QED
    BY <1>0, <1>1, <2>2, DigitProduct
<1>3. 0 \in Digits /\ 1 \in Digits /\ 2 \in Digits /\ 3 \in Digits
  BY DigitsAre
<1>4. CASE k = 0
  <2>1. PICK x0 \in Nat : x0 = l[0] * r[0] /\ x0 <= m
    BY <1>2, <1>3
  <2>5. ColumnSum(square, l, r, k) = x0
    BY <1>4, <2>1, ColumnSumIs
  <2> QED
    BY <1>1, <2>5, <2>1
<1>5. CASE k = 1
  <2>1. PICK x0 \in Nat : x0 = l[0] * r[1] /\ x0 <= m
    BY <1>2, <1>3
  <2>2. PICK x1 \in Nat : x1 = l[1] * r[0] /\ x1 <= m
    BY <1>2, <1>3
  <2>5. ColumnSum(square, l, r, k) = x0 + x1
    BY <1>5, <2>1, <2>2, ColumnSumIs
  <2> QED
    BY <1>1, <2>5, <2>1, <2>2
<1>6. CASE k = 2
  <2>1. PICK x0 \in Nat : x0 = l[0] * r[2] /\ x0 <= m
    BY <1>2, <1>3
  <2>2. PICK x1 \in Nat : x1 = l[1] * r[1] /\ x1 <= m
    BY <1>2, <1>3
  <2>3. PICK x2 \in Nat : x2 = l[2] * r[0] /\ x2 <= m
    BY <1>2, <1>3
  <2>5. ColumnSum(square, l, r, k) = x0 + x1 + x2
    BY <1>6, <2>1, <2>2, <2>3, ColumnSumIs
  <2> QED
    BY <1>1, <2>5, <2>1, <2>2, <2>3
<1>7. CASE k = 3
  <2>1. PICK x0 \in Nat : x0 = l[0] * r[3] /\ x0 <= m
    BY <1>2, <1>3
  <2>2. PICK x1 \in Nat : x1 = l[1] * r[2] /\ x1 <= m
    BY <1>2, <1>3
  <2>3. PICK x2 \in Nat : x2 = l[2] * r[1] /\ x2 <= m
    BY <1>2, <1>3
  <2>4. PICK x3 \in Nat : x3 = l[3] * r[0] /\ x3 <= m
    BY <1>2, <1>3
  <2>5. ColumnSum(square, l, r, k) = x0 + x1 + x2 + x3
    BY <1>7, <2>1, <2>2, <2>3, <2>4, ColumnSumIs
  <2> QED
    BY <1>1, <2>5, <2>1, <2>2, <2>3, <2>4
<1>8. CASE k = 4
  <2>1. PICK x0 \in Nat : x0 = l[1] * r[3] /\ x0 <= m
    BY <1>2, <1>3
  <2>2. PICK x1 \in Nat : x1 = l[2] * r[2] /\ x1 <= m
    BY <1>2, <1>3
  <2>3. PICK x2 \in Nat : x2 = l[3] * r[1] /\ x2 <= m
    BY <1>2, <1>3
  <2>5. ColumnSum(square, l, r, k) = x0 + x1 + x2
    BY <1>8, <2>1, <2>2, <2>3, ColumnSumIs
  <2> QED
    BY <1>1, <2>5, <2>1, <2>2, <2>3
<1>9. CASE k = 5
  <2>1. PICK x0 \in Nat : x0 = l[2] * r[3] /\ x0 <= m
    BY <1>2, <1>3
  <2>2. PICK x1 \in Nat : x1 = l[3] * r[2] /\ x1 <= m
    BY <1>2, <1>3
  <2>5. ColumnSum(square, l, r, k) = x0 + x1
    BY <1>9, <2>1, <2>2, ColumnSumIs
  <2> QED
    BY <1>1, <2>5, <2>1, <2>2
<1>10. CASE k = 6
  <2>1. PICK x0 \in Nat : x0 = l[3] * r[3] /\ x0 <= m
    BY <1>2, <1>3
  <2>5. ColumnSum(square, l, r, k) = x0
    BY <1>10, <2>1, ColumnSumIs
  <2> QED
    BY <1>1, <2>5, <2>1
<1> QED
  BY <1>4, <1>5, <1>6, <1>7, <1>8, <1>9, <1>10

\* A column adds s to what is carried into it and carries what is above its low digit.
Advances(c, r01, s) ==
    /\ Carried(CarryOver(c)) /\ Digit(c.r01.low) /\ Digit(c.r01.high) /\ c.r2 \in Nat
    /\ Num(CarryOver(c)) = c.r01.high + B * c.r2
    /\ c.r01.low + B * Num(CarryOver(c)) = Num(r01) + s

\* Every column advances: what it carries fits into a word of two digits.
LEMMA ColumnStep ==
    ASSUME NEW l \in Vlis, NEW r \in Vlis, NEW k \in 0 .. 6, NEW square \in BOOLEAN,
               square => l = r,
           NEW r01, Carried(r01)
    PROVE  Advances(Column(TRUE, square, l, r, k, r01), r01, ColumnSum(square, l, r, k))
<1> DEFINE c == Column(TRUE, square, l, r, k, r01)
<1>0. B \in Nat /\ B >= 4
  BY BaseFacts
<1>1. r01 \in Wides /\ Num(r01) <= 4 * (B - 1)
  BY DEF Carried
<1>b. ColumnSum(square, l, r, k) \in Nat /\ ColumnSum(square, l, r, k) <= 4 * ((B - 1) * (B - 1))
  BY ColumnBound
<1>2. c \in Cols /\ Sum(c) = Num(r01) + ColumnSum(square, l, r, k)
  BY <1>1, ColumnExact
<1> HIDE DEF c
<1>3. c.r01 \in Wides /\ c.r2 \in Nat
  BY <1>2 DEF Cols
<1>4. PICK a \in Nat, b \in Nat, n \in Nat, m \in Nat, s \in Nat :
        /\ a = c.r01.low /\ b = c.r01.high /\ n = c.r2 /\ m = Num(r01) /\ a < B /\ b < B
        /\ s = ColumnSum(square, l, r, k)
  <2>1. Digit(c.r01.low) /\ Digit(c.r01.high) /\ Num(r01) \in Nat
    BY <1>1, <1>3, NumType
  <2> QED
    BY <1>b, <1>3, <2>1 DEF Digit
<1>5. PICK t \in Nat : t = b + B * n
  BY <1>0
<1>6. Sum(c) = a + B * t
  <2>1. Sum(c) = (b * B + a) + n * (B * B)
    BY <1>4 DEF Sum, Num
  <2>2. (b * B + a) + n * (B * B) = a + B * (b + B * n)
    BY <1>0
  <2> QED
    BY <1>5, <2>1, <2>2
<1>7. a + B * t = m + s
  BY <1>2, <1>4, <1>6
<1>8. m <= 4 * (B - 1) /\ s <= 4 * ((B - 1) * (B - 1))
  BY <1>1, <1>b, <1>4
<1>9. t <= 4 * (B - 1)
  <2>1. 4 * (B - 1) + 4 * ((B - 1) * (B - 1)) = B * (4 * (B - 1))
    BY <1>0
  <2>2. B * t <= B * (4 * (B - 1))
    BY <1>0, <1>7, <1>8, <2>1
  <2>3. PICK u \in Nat : u = 4 * (B - 1)
    BY <1>0
  <2>4. ~(t >= u + 1)
    <3>1. t >= u + 1 => B * t >= B * (u + 1)
      BY <1>0
    <3>2. B * (u + 1) = B * u + B
      BY <1>0
    <3> QED
      BY <1>0, <2>2, <2>3, <3>1, <3>2
  <2> QED
    BY <2>3, <2>4
<1>10. n < B
  <2>1. n >= B => B * n >= B * B
    BY <1>0
  <2>2. B * B >= 4 * B
    BY <1>0
  <2>3. B * n <= 4 * (B - 1)
    BY <1>0, <1>5, <1>9
  <2> QED
    BY <1>0, <2>1, <2>2, <2>3
<1>11. CarryOver(c) = [low |-> b, high |-> n]
  BY <1>4 DEF CarryOver
<1>12. CarryOver(c) \in Wides
  BY <1>0, <1>4, <1>10, <1>11 DEF Wides
<1>13. Num(CarryOver(c)) = t
  BY <1>0, <1>5, <1>11 DEF Num
<1>14. Carried(CarryOver(c))
  BY <1>9, <1>12, <1>13 DEF Carried
<1>15. Digit(c.r01.low) /\ Digit(c.r01.high)
  BY <1>4 DEF Digit
<1>16. c.r01.low + B * Num(CarryOver(c)) = Num(r01) + ColumnSum(square, l, r, k)
  BY <1>4, <1>7, <1>13
<1>17. Num(CarryOver(c)) = c.r01.high + B * c.r2
  BY <1>4, <1>5, <1>13
<1> QED
  BY <1>3, <1>14, <1>15, <1>16, <1>17 DEF c, Advances

\* A number below a multiple of the base has its upper part below the multiple.
LEMMA BelowOf ==
    ASSUME NEW b \in Nat, NEW c \in Nat, NEW x \in Nat, NEW y \in Nat, x + b * y < b * c
    PROVE  y < c
<1>1. y >= c => b * y >= b * c
  OBVIOUS
<1> QED
  BY <1>1

\* The columns of a product, each at its power of the base.
LEMMA Convolution ==
    ASSUME NEW b \in Int,
           NEW l0 \in Int, NEW l1 \in Int, NEW l2 \in Int, NEW l3 \in Int,
           NEW r0 \in Int, NEW r1 \in Int, NEW r2 \in Int, NEW r3 \in Int
    PROVE  (l0 + b * (l1 + b * (l2 + b * l3))) * (r0 + b * (r1 + b * (r2 + b * r3))) =
             (l0 * r0) + b * ((l0 * r1 + l1 * r0) + b * ((l0 * r2 + l1 * r1 + l2 * r0) +
               b * ((l0 * r3 + l1 * r2 + l2 * r1 + l3 * r0) + b * ((l1 * r3 + l2 * r2 +
               l3 * r1) + b * ((l2 * r3 + l3 * r2) + b * ((l3 * r3)))))))
OBVIOUS

\* One column more: what the columns below carry is part of the sum.
LEMMA CarryChain ==
    ASSUME NEW b \in Int, NEW a \in Int, NEW n \in Int, NEW d \in Int, NEW m \in Int,
               NEW e \in Int, NEW x \in Int,
           a + b * m = n + d, x = m + e
    PROVE  a + b * x = n + (d + b * e)
<1>1. b * x = b * m + b * e
  OBVIOUS
<1> QED
  BY <1>1

-----------------------------------------------------------------------------
(* Products.                                                               *)

\* The eight digits of a product.
LEMMA ProductIs ==
    ASSUME NEW d0, NEW d1, NEW d2, NEW d3, NEW d4, NEW d5, NEW d6, NEW d7,
           Digit(d0), Digit(d1), Digit(d2), Digit(d3), Digit(d4), Digit(d5), Digit(d6), Digit(d7)
    PROVE  LET p == [i \in 0 .. 2 * NUM_ECC_DIGITS - 1 |-> <<d0, d1, d2, d3, d4, d5, d6,
               d7>>[i + 1]]
           IN  p \in Vlis8 /\ Val8(p) = Val(Vli4(d0, d1, d2, d3)) + Word * Val(Vli4(d4, d5, d6, d7))
<1> DEFINE p == [i \in 0 .. 2 * NUM_ECC_DIGITS - 1 |-> <<d0, d1, d2, d3, d4, d5, d6, d7>>[i + 1]]
<1>1. p = [i \in 0 .. 7 |-> <<d0, d1, d2, d3, d4, d5, d6, d7>>[i + 1]]
  BY DEF NUM_ECC_DIGITS
<1>2. p[0] = d0 /\ p[1] = d1 /\ p[2] = d2 /\ p[3] = d3
  BY <1>1
<1>3. p[4] = d4 /\ p[5] = d5 /\ p[6] = d6 /\ p[7] = d7
  BY <1>1
<1>4. \A i \in 0 .. 7 : <<d0, d1, d2, d3, d4, d5, d6, d7>>[i + 1] \in 0 .. B - 1
  <2>1. /\ d0 \in 0 .. B - 1 /\ d1 \in 0 .. B - 1 /\ d2 \in 0 .. B - 1 /\ d3 \in 0 .. B - 1
        /\ d4 \in 0 .. B - 1 /\ d5 \in 0 .. B - 1 /\ d6 \in 0 .. B - 1 /\ d7 \in 0 .. B - 1
    BY BaseFacts DEF Digit
  <2> QED
    BY <2>1
<1>5. p \in Vlis8
  BY <1>1, <1>4 DEF Vlis8
<1> HIDE DEF p
<1>6. High(p) = Vli4(d4, d5, d6, d7)
  BY <1>3, <1>5, LowHigh
<1>7. Low(p) = Vli4(d0, d1, d2, d3)
  <2> DEFINE f == [i \in Digits |-> p[i]]
  <2>1. f[0] = d0 /\ f[1] = d1 /\ f[2] = d2 /\ f[3] = d3
    BY <1>2, DigitsAre
  <2>2. f = [i \in Digits |-> f[i]]
    OBVIOUS
  <2>3. Low(p) = f
    BY DEF Low
  <2> HIDE DEF f
  <2>4. f = Vli4(f[0], f[1], f[2], f[3])
    BY <2>2, FunIsVli4
  <2> QED
    BY <2>1, <2>3, <2>4
<1> QED
  BY <1>5, <1>6, <1>7 DEF Val8, p

\* The array with a digit written.
Written(f, k, d) == [f EXCEPT ![k] = d]

\* A column leaves its low digit in the result and carries the rest.
LEMMA PutDigitFields ==
    ASSUME NEW x, NEW k, NEW acc
    PROVE  /\ PutDigit(x, k, acc).r01 = CarryOver(acc)
           /\ PutDigit(x, k, acc).p_result = Written(x.p_result, k, acc.r01.low)
BY DEF PutDigit, Written

\* What the last column carries becomes the last digit.
LEMMA PutLastDigit ==
    ASSUME NEW x
    PROVE  PutLast(x) = Written(x.p_result, 7, x.r01.low)
<1>1. 2 * NUM_ECC_DIGITS - 1 = 7
  BY DEF NUM_ECC_DIGITS
<1> QED
  BY <1>1, Zenon DEF PutLast, Written

\* Eight digits written one after the other are the digits of the array.
LEMMA EightDigits ==
    ASSUME NEW z, z = [i \in 0 .. 7 |-> 0],
           NEW e0, NEW e1, NEW e2, NEW e3, NEW e4, NEW e5, NEW e6, NEW e7,
           NEW f1, f1 = Written(z, 0, e0), NEW f2, f2 = Written(f1, 1, e1),
           NEW f3, f3 = Written(f2, 2, e2), NEW f4, f4 = Written(f3, 3, e3),
           NEW f5, f5 = Written(f4, 4, e4), NEW f6, f6 = Written(f5, 5, e5),
           NEW f7, f7 = Written(f6, 6, e6), NEW f, f = Written(f7, 7, e7)
    PROVE  f = [i \in 0 .. 7 |-> <<e0, e1, e2, e3, e4, e5, e6, e7>>[i + 1]]
<1> USE DEF Written
<1> DEFINE g == [i \in 0 .. 7 |-> <<e0, e1, e2, e3, e4, e5, e6, e7>>[i + 1]]
<1>1. DOMAIN f = 0 .. 7 /\ f = [i \in DOMAIN f |-> f[i]]
  OBVIOUS
<1>2. f[0] = e0 /\ f[1] = e1 /\ f[2] = e2 /\ f[3] = e3
  OBVIOUS
<1>3. f[4] = e4 /\ f[5] = e5 /\ f[6] = e6 /\ f[7] = e7
  OBVIOUS
<1>4. g[0] = e0 /\ g[1] = e1 /\ g[2] = e2 /\ g[3] = e3
  OBVIOUS
<1>5. g[4] = e4 /\ g[5] = e5 /\ g[6] = e6 /\ g[7] = e7
  OBVIOUS
<1>6. \A i \in 0 .. 7 : i \in {0, 1, 2, 3, 4, 5, 6, 7}
  OBVIOUS
<1>7. DOMAIN g = 0 .. 7 /\ g = [i \in 0 .. 7 |-> g[i]]
  OBVIOUS
<1> HIDE DEF g
<1>8. \A i \in 0 .. 7 : f[i] = g[i]
  BY <1>2, <1>3, <1>4, <1>5, <1>6
<1>9. f = g
  BY <1>1, <1>7, <1>8
<1> QED
  BY <1>9 DEF g

\* A product, or a square, has the value of the product: nothing is left above
\* its last digit.
LEMMA ProductIsExact ==
    ASSUME NEW l \in Vlis, NEW r \in Vlis, NEW square \in BOOLEAN, square => l = r
    PROVE  /\ Product(TRUE, square, l, r) \in Vlis8
           /\ Val8(Product(TRUE, square, l, r)) = Val(l) * Val(r)
<1> DEFINE col(k, r01) == Column(TRUE, square, l, r, k, r01)
           o0 == Wide(0)
           c0 == col(0, o0)
           o1 == CarryOver(c0)
           c1 == col(1, o1)
           o2 == CarryOver(c1)
           c2 == col(2, o2)
           o3 == CarryOver(c2)
           c3 == col(3, o3)
           o4 == CarryOver(c3)
           c4 == col(4, o4)
           o5 == CarryOver(c4)
           c5 == col(5, o5)
           o6 == CarryOver(c5)
           c6 == col(6, o6)
           o7 == CarryOver(c6)
           p == Product(TRUE, square, l, r)
<1>0. B \in Nat /\ B >= 4
  BY BaseFacts
<1>1. p = [i \in 0 .. 2 * NUM_ECC_DIGITS - 1 |->
            <<c0.r01.low, c1.r01.low, c2.r01.low, c3.r01.low, c4.r01.low,
              c5.r01.low, c6.r01.low, o7.low>>[i + 1]]
  <2>1. /\ c0 = Column(TRUE, square, l, r, 0, o0) /\ c1 = Column(TRUE, square, l, r, 1, o1)
        /\ c2 = Column(TRUE, square, l, r, 2, o2) /\ c3 = Column(TRUE, square, l, r, 3, o3)
        /\ c4 = Column(TRUE, square, l, r, 4, o4) /\ c5 = Column(TRUE, square, l, r, 5, o5)
        /\ c6 = Column(TRUE, square, l, r, 6, o6)
    OBVIOUS
  <2>2. /\ o0 = Wide(0) /\ o1 = CarryOver(c0) /\ o2 = CarryOver(c1) /\ o3 = CarryOver(c2)
        /\ o4 = CarryOver(c3) /\ o5 = CarryOver(c4) /\ o6 = CarryOver(c5) /\ o7 = CarryOver(c6)
    OBVIOUS
  <2> HIDE DEF col, c0, c1, c2, c3, c4, c5, c6, o0, o1, o2, o3, o4, o5, o6, o7, p
  <2>3. p = Product(TRUE, square, l, r)
    BY DEF p
  <2> DEFINE z == NoDigits.p_result
             put(x, k) == PutDigit(x, k, Column(TRUE, square, l, r, k, x.r01))
             x0 == NoDigits
             x1 == put(x0, 0)
             x2 == put(x1, 1)
             x3 == put(x2, 2)
             x4 == put(x3, 3)
             x5 == put(x4, 4)
             x6 == put(x5, 5)
             x7 == put(x6, 6)
  <2>4. z = [i \in 0 .. 7 |-> 0] /\ x0.r01 = o0 /\ x0.p_result = z
    BY <2>2 DEF NoDigits, NUM_ECC_DIGITS
  <2>last. p = PutLast(x7)
    BY <2>3 DEF Product
  <2> HIDE DEF z, x0, x1, x2, x3, x4, x5, x6, x7
  <2>5. x1 = PutDigit(x0, 0, Column(TRUE, square, l, r, 0, x0.r01))
    BY DEF x1
  <2>6. x1.r01 = o1 /\ x1.p_result = Written(x0.p_result, 0, c0.r01.low)
    <3>1. x1 = PutDigit(x0, 0, c0)
      BY ONLY <2>1, <2>5, <2>4
    <3> QED
      BY ONLY <2>2, <3>1, PutDigitFields
  <2>7. x2 = PutDigit(x1, 1, Column(TRUE, square, l, r, 1, x1.r01))
    BY DEF x2
  <2>8. x2.r01 = o2 /\ x2.p_result = Written(x1.p_result, 1, c1.r01.low)
    <3>1. x2 = PutDigit(x1, 1, c1)
      BY ONLY <2>1, <2>7, <2>6
    <3> QED
      BY ONLY <2>2, <3>1, PutDigitFields
  <2>9. x3 = PutDigit(x2, 2, Column(TRUE, square, l, r, 2, x2.r01))
    BY DEF x3
  <2>10. x3.r01 = o3 /\ x3.p_result = Written(x2.p_result, 2, c2.r01.low)
    <3>1. x3 = PutDigit(x2, 2, c2)
      BY ONLY <2>1, <2>9, <2>8
    <3> QED
      BY ONLY <2>2, <3>1, PutDigitFields
  <2>11. x4 = PutDigit(x3, 3, Column(TRUE, square, l, r, 3, x3.r01))
    BY DEF x4
  <2>12. x4.r01 = o4 /\ x4.p_result = Written(x3.p_result, 3, c3.r01.low)
    <3>1. x4 = PutDigit(x3, 3, c3)
      BY ONLY <2>1, <2>11, <2>10
    <3> QED
      BY ONLY <2>2, <3>1, PutDigitFields
  <2>13. x5 = PutDigit(x4, 4, Column(TRUE, square, l, r, 4, x4.r01))
    BY DEF x5
  <2>14. x5.r01 = o5 /\ x5.p_result = Written(x4.p_result, 4, c4.r01.low)
    <3>1. x5 = PutDigit(x4, 4, c4)
      BY ONLY <2>1, <2>13, <2>12
    <3> QED
      BY ONLY <2>2, <3>1, PutDigitFields
  <2>15. x6 = PutDigit(x5, 5, Column(TRUE, square, l, r, 5, x5.r01))
    BY DEF x6
  <2>16. x6.r01 = o6 /\ x6.p_result = Written(x5.p_result, 5, c5.r01.low)
    <3>1. x6 = PutDigit(x5, 5, c5)
      BY ONLY <2>1, <2>15, <2>14
    <3> QED
      BY ONLY <2>2, <3>1, PutDigitFields
  <2>17. x7 = PutDigit(x6, 6, Column(TRUE, square, l, r, 6, x6.r01))
    BY DEF x7
  <2>18. x7.r01 = o7 /\ x7.p_result = Written(x6.p_result, 6, c6.r01.low)
    <3>1. x7 = PutDigit(x6, 6, c6)
      BY ONLY <2>1, <2>17, <2>16
    <3> QED
      BY ONLY <2>2, <3>1, PutDigitFields
  <2>20. p = Written(x7.p_result, 7, o7.low)
    BY ONLY <2>18, <2>last, PutLastDigit
  <2>21. x1.p_result = Written(z, 0, c0.r01.low)
    BY ONLY <2>4, <2>6
  <2>22. p = [i \in 0 .. 7 |-> <<c0.r01.low, c1.r01.low, c2.r01.low, c3.r01.low, c4.r01.low,
                                c5.r01.low, c6.r01.low, o7.low>>[i + 1]]
    BY ONLY <2>4, <2>8, <2>10, <2>12, <2>14, <2>16, <2>18, <2>20, <2>21, EightDigits
  <2> QED
    BY ONLY <2>22 DEF NUM_ECC_DIGITS
<1>2. o7.low = c6.r01.high
  BY DEF CarryOver
<1>3. Carried(o0) /\ Num(o0) = 0
  <2>1. 0 < B * B
    BY <1>0
  <2>2. Wide(0) \in Wides /\ Num(Wide(0)) = 0
    BY <2>1, WideExact
  <2> QED
    BY <1>0, <2>2 DEF Carried
<1>10. /\ Carried(o1) /\ Digit(c0.r01.low) /\ Digit(c0.r01.high) /\ c0.r2 \in Nat
      /\ Num(o1) = c0.r01.high + B * c0.r2
      /\ c0.r01.low + B * Num(o1) = Num(o0) + ColumnSum(square, l, r, 0)
  <2>1. Carried(o0)
    BY <1>3
  <2> HIDE DEF o0
  <2>2. 0 \in 0 .. 6
    OBVIOUS
  <2>3. Advances(Column(TRUE, square, l, r, 0, o0), o0, ColumnSum(square, l, r, 0))
    BY <2>1, <2>2, ColumnStep
  <2> QED
    BY <2>3 DEF Advances
<1>11. /\ Carried(o2) /\ Digit(c1.r01.low) /\ Digit(c1.r01.high) /\ c1.r2 \in Nat
      /\ Num(o2) = c1.r01.high + B * c1.r2
      /\ c1.r01.low + B * Num(o2) = Num(o1) + ColumnSum(square, l, r, 1)
  <2>1. Carried(o1)
    BY <1>10
  <2> HIDE DEF o1
  <2>2. 1 \in 0 .. 6
    OBVIOUS
  <2>3. Advances(Column(TRUE, square, l, r, 1, o1), o1, ColumnSum(square, l, r, 1))
    BY <2>1, <2>2, ColumnStep
  <2> QED
    BY <2>3 DEF Advances
<1>12. /\ Carried(o3) /\ Digit(c2.r01.low) /\ Digit(c2.r01.high) /\ c2.r2 \in Nat
      /\ Num(o3) = c2.r01.high + B * c2.r2
      /\ c2.r01.low + B * Num(o3) = Num(o2) + ColumnSum(square, l, r, 2)
  <2>1. Carried(o2)
    BY <1>11
  <2> HIDE DEF o2
  <2>2. 2 \in 0 .. 6
    OBVIOUS
  <2>3. Advances(Column(TRUE, square, l, r, 2, o2), o2, ColumnSum(square, l, r, 2))
    BY <2>1, <2>2, ColumnStep
  <2> QED
    BY <2>3 DEF Advances
<1>13. /\ Carried(o4) /\ Digit(c3.r01.low) /\ Digit(c3.r01.high) /\ c3.r2 \in Nat
      /\ Num(o4) = c3.r01.high + B * c3.r2
      /\ c3.r01.low + B * Num(o4) = Num(o3) + ColumnSum(square, l, r, 3)
  <2>1. Carried(o3)
    BY <1>12
  <2> HIDE DEF o3
  <2>2. 3 \in 0 .. 6
    OBVIOUS
  <2>3. Advances(Column(TRUE, square, l, r, 3, o3), o3, ColumnSum(square, l, r, 3))
    BY <2>1, <2>2, ColumnStep
  <2> QED
    BY <2>3 DEF Advances
<1>14. /\ Carried(o5) /\ Digit(c4.r01.low) /\ Digit(c4.r01.high) /\ c4.r2 \in Nat
      /\ Num(o5) = c4.r01.high + B * c4.r2
      /\ c4.r01.low + B * Num(o5) = Num(o4) + ColumnSum(square, l, r, 4)
  <2>1. Carried(o4)
    BY <1>13
  <2> HIDE DEF o4
  <2>2. 4 \in 0 .. 6
    OBVIOUS
  <2>3. Advances(Column(TRUE, square, l, r, 4, o4), o4, ColumnSum(square, l, r, 4))
    BY <2>1, <2>2, ColumnStep
  <2> QED
    BY <2>3 DEF Advances
<1>15. /\ Carried(o6) /\ Digit(c5.r01.low) /\ Digit(c5.r01.high) /\ c5.r2 \in Nat
      /\ Num(o6) = c5.r01.high + B * c5.r2
      /\ c5.r01.low + B * Num(o6) = Num(o5) + ColumnSum(square, l, r, 5)
  <2>1. Carried(o5)
    BY <1>14
  <2> HIDE DEF o5
  <2>2. 5 \in 0 .. 6
    OBVIOUS
  <2>3. Advances(Column(TRUE, square, l, r, 5, o5), o5, ColumnSum(square, l, r, 5))
    BY <2>1, <2>2, ColumnStep
  <2> QED
    BY <2>3 DEF Advances
<1>16. /\ Carried(o7) /\ Digit(c6.r01.low) /\ Digit(c6.r01.high) /\ c6.r2 \in Nat
      /\ Num(o7) = c6.r01.high + B * c6.r2
      /\ c6.r01.low + B * Num(o7) = Num(o6) + ColumnSum(square, l, r, 6)
  <2>1. Carried(o6)
    BY <1>15
  <2> HIDE DEF o6
  <2>2. 6 \in 0 .. 6
    OBVIOUS
  <2>3. Advances(Column(TRUE, square, l, r, 6, o6), o6, ColumnSum(square, l, r, 6))
    BY <2>1, <2>2, ColumnStep
  <2> QED
    BY <2>3 DEF Advances
<1> HIDE DEF col, o0, c0, o1, c1, o2, c2, o3, c3, o4, c4, o5, c5, o6, c6, o7
<1>20. PICK a0 \in Nat, n1 \in Nat, d0 \in Nat :
        /\ a0 = c0.r01.low /\ n1 = Num(o1) /\ d0 = ColumnSum(square, l, r, 0) /\ a0 < B
  <2>1. 0 \in 0 .. 6
    OBVIOUS
  <2>2. ColumnSum(square, l, r, 0) \in Nat
    BY <2>1, ColumnBound
  <2>3. Num(o1) \in Nat
    BY <1>10, NumType DEF Carried
  <2> QED
    BY <1>10, <2>2, <2>3 DEF Digit
<1>21. PICK a1 \in Nat, n2 \in Nat, d1 \in Nat :
        /\ a1 = c1.r01.low /\ n2 = Num(o2) /\ d1 = ColumnSum(square, l, r, 1) /\ a1 < B
  <2>1. 1 \in 0 .. 6
    OBVIOUS
  <2>2. ColumnSum(square, l, r, 1) \in Nat
    BY <2>1, ColumnBound
  <2>3. Num(o2) \in Nat
    BY <1>11, NumType DEF Carried
  <2> QED
    BY <1>11, <2>2, <2>3 DEF Digit
<1>22. PICK a2 \in Nat, n3 \in Nat, d2 \in Nat :
        /\ a2 = c2.r01.low /\ n3 = Num(o3) /\ d2 = ColumnSum(square, l, r, 2) /\ a2 < B
  <2>1. 2 \in 0 .. 6
    OBVIOUS
  <2>2. ColumnSum(square, l, r, 2) \in Nat
    BY <2>1, ColumnBound
  <2>3. Num(o3) \in Nat
    BY <1>12, NumType DEF Carried
  <2> QED
    BY <1>12, <2>2, <2>3 DEF Digit
<1>23. PICK a3 \in Nat, n4 \in Nat, d3 \in Nat :
        /\ a3 = c3.r01.low /\ n4 = Num(o4) /\ d3 = ColumnSum(square, l, r, 3) /\ a3 < B
  <2>1. 3 \in 0 .. 6
    OBVIOUS
  <2>2. ColumnSum(square, l, r, 3) \in Nat
    BY <2>1, ColumnBound
  <2>3. Num(o4) \in Nat
    BY <1>13, NumType DEF Carried
  <2> QED
    BY <1>13, <2>2, <2>3 DEF Digit
<1>24. PICK a4 \in Nat, n5 \in Nat, d4 \in Nat :
        /\ a4 = c4.r01.low /\ n5 = Num(o5) /\ d4 = ColumnSum(square, l, r, 4) /\ a4 < B
  <2>1. 4 \in 0 .. 6
    OBVIOUS
  <2>2. ColumnSum(square, l, r, 4) \in Nat
    BY <2>1, ColumnBound
  <2>3. Num(o5) \in Nat
    BY <1>14, NumType DEF Carried
  <2> QED
    BY <1>14, <2>2, <2>3 DEF Digit
<1>25. PICK a5 \in Nat, n6 \in Nat, d5 \in Nat :
        /\ a5 = c5.r01.low /\ n6 = Num(o6) /\ d5 = ColumnSum(square, l, r, 5) /\ a5 < B
  <2>1. 5 \in 0 .. 6
    OBVIOUS
  <2>2. ColumnSum(square, l, r, 5) \in Nat
    BY <2>1, ColumnBound
  <2>3. Num(o6) \in Nat
    BY <1>15, NumType DEF Carried
  <2> QED
    BY <1>15, <2>2, <2>3 DEF Digit
<1>26. PICK a6 \in Nat, n7 \in Nat, d6 \in Nat :
        /\ a6 = c6.r01.low /\ n7 = Num(o7) /\ d6 = ColumnSum(square, l, r, 6) /\ a6 < B
  <2>1. 6 \in 0 .. 6
    OBVIOUS
  <2>2. ColumnSum(square, l, r, 6) \in Nat
    BY <2>1, ColumnBound
  <2>3. Num(o7) \in Nat
    BY <1>16, NumType DEF Carried
  <2> QED
    BY <1>16, <2>2, <2>3 DEF Digit
<1>30. a0 + B * n1 = 0 + d0
  BY <1>10, <1>20, <1>3
<1>31. a1 + B * n2 = n1 + d1
  BY <1>11, <1>21, <1>20
<1>32. a2 + B * n3 = n2 + d2
  BY <1>12, <1>22, <1>21
<1>33. a3 + B * n4 = n3 + d3
  BY <1>13, <1>23, <1>22
<1>34. a4 + B * n5 = n4 + d4
  BY <1>14, <1>24, <1>23
<1>35. a5 + B * n6 = n5 + d5
  BY <1>15, <1>25, <1>24
<1>36. a6 + B * n7 = n6 + d6
  BY <1>16, <1>26, <1>25
<1>46. PICK e6 \in Nat, x6 \in Nat : e6 = d6 /\ x6 = a6 + B * n7 /\ x6 = n6 + e6
  BY <1>0, <1>36
<1>45. PICK e5 \in Nat, x5 \in Nat : e5 = d5 + B * e6 /\ x5 = a5 + B * x6 /\ x5 = n5 + e5
  <2>1. B \in Int /\ x6 = n6 + e6
    BY <1>0, <1>46
  <2>2. PICK m \in Nat : m = n5
    OBVIOUS
  <2>3. a5 + B * n6 = m + d5
    BY <1>35, <2>2
  <2>4. a5 + B * x6 = m + (d5 + B * e6)
    BY ONLY <2>1, <2>3, CarryChain, a5 \in Nat, n6 \in Nat, m \in Nat, d5 \in Nat, x6 \in Nat,
      e6 \in Nat
  <2>5. d5 + B * e6 \in Nat /\ a5 + B * x6 \in Nat
    BY <1>0
  <2> QED
    BY <2>2, <2>4, <2>5
<1>44. PICK e4 \in Nat, x4 \in Nat : e4 = d4 + B * e5 /\ x4 = a4 + B * x5 /\ x4 = n4 + e4
  <2>1. B \in Int /\ x5 = n5 + e5
    BY <1>0, <1>45
  <2>2. PICK m \in Nat : m = n4
    OBVIOUS
  <2>3. a4 + B * n5 = m + d4
    BY <1>34, <2>2
  <2>4. a4 + B * x5 = m + (d4 + B * e5)
    BY ONLY <2>1, <2>3, CarryChain, a4 \in Nat, n5 \in Nat, m \in Nat, d4 \in Nat, x5 \in Nat,
      e5 \in Nat
  <2>5. d4 + B * e5 \in Nat /\ a4 + B * x5 \in Nat
    BY <1>0
  <2> QED
    BY <2>2, <2>4, <2>5
<1>43. PICK e3 \in Nat, x3 \in Nat : e3 = d3 + B * e4 /\ x3 = a3 + B * x4 /\ x3 = n3 + e3
  <2>1. B \in Int /\ x4 = n4 + e4
    BY <1>0, <1>44
  <2>2. PICK m \in Nat : m = n3
    OBVIOUS
  <2>3. a3 + B * n4 = m + d3
    BY <1>33, <2>2
  <2>4. a3 + B * x4 = m + (d3 + B * e4)
    BY ONLY <2>1, <2>3, CarryChain, a3 \in Nat, n4 \in Nat, m \in Nat, d3 \in Nat, x4 \in Nat,
      e4 \in Nat
  <2>5. d3 + B * e4 \in Nat /\ a3 + B * x4 \in Nat
    BY <1>0
  <2> QED
    BY <2>2, <2>4, <2>5
<1>42. PICK e2 \in Nat, x2 \in Nat : e2 = d2 + B * e3 /\ x2 = a2 + B * x3 /\ x2 = n2 + e2
  <2>1. B \in Int /\ x3 = n3 + e3
    BY <1>0, <1>43
  <2>2. PICK m \in Nat : m = n2
    OBVIOUS
  <2>3. a2 + B * n3 = m + d2
    BY <1>32, <2>2
  <2>4. a2 + B * x3 = m + (d2 + B * e3)
    BY ONLY <2>1, <2>3, CarryChain, a2 \in Nat, n3 \in Nat, m \in Nat, d2 \in Nat, x3 \in Nat,
      e3 \in Nat
  <2>5. d2 + B * e3 \in Nat /\ a2 + B * x3 \in Nat
    BY <1>0
  <2> QED
    BY <2>2, <2>4, <2>5
<1>41. PICK e1 \in Nat, x1 \in Nat : e1 = d1 + B * e2 /\ x1 = a1 + B * x2 /\ x1 = n1 + e1
  <2>1. B \in Int /\ x2 = n2 + e2
    BY <1>0, <1>42
  <2>2. PICK m \in Nat : m = n1
    OBVIOUS
  <2>3. a1 + B * n2 = m + d1
    BY <1>31, <2>2
  <2>4. a1 + B * x2 = m + (d1 + B * e2)
    BY ONLY <2>1, <2>3, CarryChain, a1 \in Nat, n2 \in Nat, m \in Nat, d1 \in Nat, x2 \in Nat,
      e2 \in Nat
  <2>5. d1 + B * e2 \in Nat /\ a1 + B * x2 \in Nat
    BY <1>0
  <2> QED
    BY <2>2, <2>4, <2>5
<1>40. PICK e0 \in Nat, x0 \in Nat : e0 = d0 + B * e1 /\ x0 = a0 + B * x1 /\ x0 = 0 + e0
  <2>1. B \in Int /\ x1 = n1 + e1
    BY <1>0, <1>41
  <2>2. PICK m \in Nat : m = 0
    OBVIOUS
  <2>3. a0 + B * n1 = m + d0
    BY <1>30, <2>2
  <2>4. a0 + B * x1 = m + (d0 + B * e1)
    BY ONLY <2>1, <2>3, CarryChain, a0 \in Nat, n1 \in Nat, m \in Nat, d0 \in Nat, x1 \in Nat,
      e1 \in Nat
  <2>5. d0 + B * e1 \in Nat /\ a0 + B * x1 \in Nat
    BY <1>0
  <2> QED
    BY <2>2, <2>4, <2>5
<1>50. x0 = Val(l) * Val(r)
  <2>1. PICK l0 \in Nat, l1 \in Nat, l2 \in Nat, l3 \in Nat, r0 \in Nat, r1 \in Nat, r2 \in Nat,
             r3 \in Nat :
          /\ l0 = l[0] /\ l1 = l[1] /\ l2 = l[2] /\ l3 = l[3]
          /\ r0 = r[0] /\ r1 = r[1] /\ r2 = r[2] /\ r3 = r[3]
    BY VliDigits DEF Digit
  <2>2. Val(l) = l0 + B * (l1 + B * (l2 + B * l3)) /\ Val(r) = r0 + B * (r1 + B * (r2 + B * r3))
    BY <2>1 DEF Val
  <2>3. d0 = l0 * r0
    BY <1>20, <2>1, ColumnSumIs
  <2>4. d1 = l0 * r1 + l1 * r0
    BY <1>21, <2>1, ColumnSumIs
  <2>5. d2 = l0 * r2 + l1 * r1 + l2 * r0
    BY <1>22, <2>1, ColumnSumIs
  <2>6. d3 = l0 * r3 + l1 * r2 + l2 * r1 + l3 * r0
    BY <1>23, <2>1, ColumnSumIs
  <2>7. d4 = l1 * r3 + l2 * r2 + l3 * r1
    BY <1>24, <2>1, ColumnSumIs
  <2>8. d5 = l2 * r3 + l3 * r2
    BY <1>25, <2>1, ColumnSumIs
  <2>9. d6 = l3 * r3
    BY <1>26, <2>1, ColumnSumIs
  <2>10. e0 = d0 + B * (d1 + B * (d2 + B * (d3 + B * (d4 + B * (d5 + B * d6)))))
    BY <1>40, <1>41, <1>42, <1>43, <1>44, <1>45, <1>46
  <2>11. Val(l) * Val(r) = d0 + B * (d1 + B * (d2 + B * (d3 + B * (d4 + B * (d5 + B * d6)))))
    BY <1>0, <2>2, <2>3, <2>4, <2>5, <2>6, <2>7, <2>8, <2>9, Convolution
  <2> QED
    BY <1>40, <2>10, <2>11
<1>51. PICK w4 \in Nat : w4 = Word
  BY WordFacts
<1>52. PICK w2 \in Nat, w3 \in Nat, w5 \in Nat, w6 \in Nat, w7 \in Nat :
         w2 = B * B /\ w3 = B * w2 /\ w5 = B * w4 /\ w6 = B * w5 /\ w7 = B * w6
  BY <1>0
<1>53. w4 = B * w3
  BY <1>51, <1>52, WordFacts
<1>54. w4 * w4 = B * w7
  <2>1. w4 * w4 = B * (B * (B * (B * w4)))
    BY <1>0, <1>52, <1>53
  <2> QED
    BY <1>52, <2>1
<1>55. x0 < B * w7
  <2>1. PICK x \in Nat, y \in Nat : x = Val(l) /\ y = Val(r) /\ x < w4 /\ y < w4
    BY <1>51, ValType
  <2>2. x * y < w4 * w4
    BY <2>1, DigitProduct
  <2> QED
    BY <1>50, <1>54, <2>1, <2>2
<1>56. x1 < B * w6
  <2>1. a0 + B * x1 < B * w7
    BY <1>40, <1>55
  <2>2. x1 < w7
    BY ONLY <1>0, <2>1, BelowOf, a0 \in Nat, x1 \in Nat, w7 \in Nat
  <2> QED
    BY <1>52, <1>53, <2>2
<1>57. x2 < B * w5
  <2>1. a1 + B * x2 < B * w6
    BY <1>41, <1>56
  <2>2. x2 < w6
    BY ONLY <1>0, <2>1, BelowOf, a1 \in Nat, x2 \in Nat, w6 \in Nat
  <2> QED
    BY <1>52, <1>53, <2>2
<1>58. x3 < B * w4
  <2>1. a2 + B * x3 < B * w5
    BY <1>42, <1>57
  <2>2. x3 < w5
    BY ONLY <1>0, <2>1, BelowOf, a2 \in Nat, x3 \in Nat, w5 \in Nat
  <2> QED
    BY <1>52, <1>53, <2>2
<1>59. x4 < B * w3
  <2>1. a3 + B * x4 < B * w4
    BY <1>43, <1>58
  <2>2. x4 < w4
    BY ONLY <1>0, <2>1, BelowOf, a3 \in Nat, x4 \in Nat, w4 \in Nat
  <2> QED
    BY <1>52, <1>53, <2>2
<1>60. x5 < B * w2
  <2>1. a4 + B * x5 < B * w3
    BY <1>44, <1>59
  <2>2. x5 < w3
    BY ONLY <1>0, <2>1, BelowOf, a4 \in Nat, x5 \in Nat, w3 \in Nat
  <2> QED
    BY <1>52, <1>53, <2>2
<1>61. x6 < B * B
  <2>1. a5 + B * x6 < B * w2
    BY <1>45, <1>60
  <2>2. x6 < w2
    BY ONLY <1>0, <2>1, BelowOf, a5 \in Nat, x6 \in Nat, w2 \in Nat
  <2> QED
    BY <1>52, <1>53, <2>2
<1>62. n7 < B
  <2>1. a6 + B * n7 < B * B
    BY <1>46, <1>61
  <2> QED
    BY ONLY <1>0, <2>1, BelowOf, a6 \in Nat, n7 \in Nat
<1>63. n7 = o7.low
  <2>1. PICK h \in Nat, q \in Nat : h = c6.r01.high /\ q = c6.r2 /\ n7 = h + B * q
    BY <1>16, <1>26 DEF Digit
  <2>2. q >= 1 => B * q >= B * 1
    BY <1>0
  <2>3. q = 0
    BY <1>0, <1>62, <2>1, <2>2
  <2>4. n7 = h
    BY <1>0, <2>1, <2>3
  <2> QED
    BY <1>2, <2>1, <2>4
<1>64. p = [i \in 0 .. 2 * NUM_ECC_DIGITS - 1 |-> <<a0, a1, a2, a3, a4, a5, a6, n7>>[i + 1]]
  BY <1>1, <1>20, <1>21, <1>22, <1>23, <1>24, <1>25, <1>26, <1>63
<1>65. Digit(a0) /\ Digit(a1) /\ Digit(a2) /\ Digit(a3) /\ Digit(a4) /\ Digit(a5) /\
           Digit(a6) /\ Digit(n7)
  BY <1>20, <1>21, <1>22, <1>23, <1>24, <1>25, <1>26, <1>62 DEF Digit
<1> HIDE DEF p
<1>66. p \in Vlis8 /\ Val8(p) = Val(Vli4(a0, a1, a2, a3)) + Word * Val(Vli4(a4, a5, a6, n7))
  BY <1>64, <1>65, ProductIs
<1>67. Val(Vli4(a4, a5, a6, n7)) = x4
  BY <1>44, <1>45, <1>46, ValVli4
<1>68. Val(Vli4(a0, a1, a2, a3)) = a0 + B * (a1 + B * (a2 + B * a3))
  BY ValVli4
<1>69. Word * x4 = B * (B * (B * (B * x4)))
  BY <1>0, WordFacts
<1>70. x0 = a0 + B * (a1 + B * (a2 + B * (a3 + B * x4)))
  BY <1>40, <1>41, <1>42, <1>43
<1>71. x0 = (a0 + B * (a1 + B * (a2 + B * a3))) + B * (B * (B * (B * x4)))
  BY <1>0, <1>70
<1> QED
  BY <1>50, <1>66, <1>67, <1>68, <1>69, <1>71 DEF p

\* vli_mult and vli_square are exact.
LEMMA MultExact ==
    ASSUME NEW l \in Vlis, NEW r \in Vlis
    PROVE  /\ vli_mult(l, r) \in Vlis8 /\ Val8(vli_mult(l, r)) = Val(l) * Val(r)
           /\ vli_square(l) \in Vlis8 /\ Val8(vli_square(l)) = Val(l) * Val(l)
BY ProductIsExact DEF vli_mult, vli_square

\* The words walked through.
OperandsInv == left \in Nat /\ left < Word /\ right \in Nat /\ right < Word

\* The properties hold of every two words.
LEMMA OperandsExact ==
    ASSUME OperandsInv
    PROVE  DigitsExact
<1>0. Word \in Nat
  BY WordFacts
<1>1. LeftVli \in Vlis /\ RightVli \in Vlis /\ Val(LeftVli) = left /\ Val(RightVli) = right
  BY ToVliExact DEF OperandsInv, LeftVli, RightVli
<1>2. left \in Nat /\ right \in Nat
  BY DEF OperandsInv
<1>3. AddSubExact
  BY <1>1, AddExact, SubExact DEF AddSubExact
<1>4. ShiftsExact
  <2>1. /\ Val(vli_lshift(LeftVli, 2).result) + vli_lshift(LeftVli, 2).carry * Word = 2 * left
        /\ Val(vli_rshift1(LeftVli)) = left \div 2
    BY <1>1, LshiftExact, RshiftExact
  <2>2. CmpIs(vli_cmp(LeftVli, RightVli), left, right)
    BY <1>1, CmpExact
  <2>3. vli_isZero(LeftVli) = (left = 0)
    BY <1>1, ZeroExact
  <2> QED
    BY <2>1, <2>2, <2>3 DEF ShiftsExact, CmpIs
<1>5. /\ vli_mult(LeftVli, RightVli) \in Vlis8 /\ Val8(vli_mult(LeftVli, RightVli)) = left * right
      /\ vli_square(LeftVli) \in Vlis8 /\ Val8(vli_square(LeftVli)) = left * left
  BY <1>1, MultExact
<1>6. ProductExact
  BY <1>5 DEF ProductExact
<1>7. ReductionExact
  <2>1. Val(vli_modMult_fast(LeftVli, RightVli)) = (left * right) % Prime
    BY <1>5, MmodFastExact DEF vli_modMult_fast
  <2>2. Val(vli_modSquare_fast(LeftVli)) = (left * left) % Prime
    BY <1>5, MmodFastExact DEF vli_modSquare_fast
  <2>3. ASSUME left < Prime, right < Prime
        PROVE  /\ Val(vli_modAdd(LeftVli, RightVli, curve_p_digits)) = (left + right) % Prime
               /\ Val(vli_modSub(LeftVli, RightVli, curve_p_digits)) = (left - right) % Prime
    <3>1. curve_p_digits \in Vlis /\ Val(curve_p_digits) = Prime
      BY PrimeIs DEF Prime
    <3> QED
      BY <1>1, <2>3, <3>1, ModAddExact, ModSubExact
  <2> QED
    BY <2>1, <2>2, <2>3 DEF ReductionExact
<1> QED
  BY <1>3, <1>4, <1>6, <1>7 DEF DigitsExact

\* vli_add, vli_sub, the shifts and comparisons, vli_mult, vli_square,
\* vli_mmod_fast, vli_modAdd and vli_modSub (secp256r1.cpp:148-553) compute the
\* numbers their digits stand for, whatever the size of a digit and for every
\* pair of words: no carry, bit or overflow is lost.
THEOREM DigitsCorrect == VliSpec => []DigitsExact
<1>1. VliInit(Right) => OperandsInv
  BY RightAssumption, WordFacts DEF VliInit, OperandsInv
<1>2. OperandsInv /\ [NextOperand]_operandVars => OperandsInv'
  <2>0. Word \in Nat
    BY WordFacts
  <2> QED
    BY <2>0 DEF OperandsInv, NextOperand, operandVars
<1>3. OperandsInv => DigitsExact
  BY OperandsExact
<1> QED
  BY <1>1, <1>2, <1>3, PTL DEF VliSpec
=============================================================================
