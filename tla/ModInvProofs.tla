---------------------------- MODULE ModInvProofs ----------------------------
(***************************************************************************)
(* Proofs about vli_modInv (ModInv.tla) for every word size, odd modulus   *)
(* and input.  The inductive invariant IInv adds to what the run checks    *)
(* that a divisor of both a and b divides both operands, so that a = b = 1 *)
(* at the end when the operands share none.                                *)
(***************************************************************************)
EXTENDS ModInv, TLAPS

\* x is a multiple of p.  Stated with a factor and not with %, about which
\* the provers know little when both sides vary.
Multiple(x, p) == \E k \in Int : x = p * k

\* x is the word that belongs to y: x * i = y modulo p.
Ties(x, i, y, p) == Multiple(x * i - y, p)

(* There is one quotient and one remainder.                                *)
LEMMA DivisionUnique ==
    ASSUME NEW p \in Nat \ {0}, NEW q \in Int, NEW r \in 0 .. p - 1,
           NEW x \in Int, x = p * q + r
    PROVE  x % p = r /\ x \div p = q
BY Z3

(* What EVEN and Divides test with %, as a multiple.                       *)
LEMMA RemainderZero ==
    ASSUME NEW x \in Int, NEW p \in Nat \ {0}
    PROVE  x % p = 0 <=> Multiple(x, p)
<1>1. x = p * (x \div p) + (x % p) /\ x \div p \in Int
  OBVIOUS
<1>2. ASSUME x % p = 0 PROVE Multiple(x, p)
  <2>1. PICK q \in Int : q = x \div p
    BY <1>1
  <2>2. x = p * q
    BY <1>1, <1>2, <2>1
  <2>. QED
    BY <2>2 DEF Multiple
<1>3. ASSUME NEW k \in Int, x = p * k PROVE x % p = 0
  BY <1>3, DivisionUnique
<1>. QED
  BY <1>2, <1>3 DEF Multiple

(* One more than a multiple leaves 1.                                      *)
LEMMA RemainderOne ==
    ASSUME NEW x \in Int, NEW y \in Int, NEW p \in Nat \ {0}, 2 <= p,
           Multiple(y, p), x = y + 1
    PROVE  x % p = 1
<1>1. PICK k \in Int : y = p * k
  BY DEF Multiple
<1>2. PICK r \in 0 .. p - 1 : r = 1
  OBVIOUS
<1>3. x = p * k + r
  BY <1>1, <1>2
<1>4. x % p = r
  BY <1>3, DivisionUnique
<1>. QED
  BY <1>2, <1>4

(* What a word keeps of a sum or a difference that leaves it at most once. *)
LEMMA Remainders ==
    ASSUME NEW W \in Nat \ {0}, NEW x \in Int
    PROVE  /\ 0 <= x /\ x < W => x % W = x
           /\ 0 - W <= x /\ x < 0 => x % W = x + W
OBVIOUS

LEMMA RemainderOver ==
    ASSUME NEW W \in Nat \ {0}, NEW r \in Nat, r < W
    PROVE  (W + r) % W = r
BY DivisionUnique

(* Multiples are closed under sums, products and, for odd p, halving.      *)
LEMMA MultipleSum ==
    ASSUME NEW x \in Int, NEW y \in Int, NEW p \in Int,
           Multiple(x, p), Multiple(y, p)
    PROVE  Multiple(x + y, p) /\ Multiple(x - y, p)
<1>1. PICK k \in Int : x = p * k
  BY DEF Multiple
<1>2. PICK l \in Int : y = p * l
  BY DEF Multiple
<1>3. x + y = p * (k + l) /\ k + l \in Int
  BY <1>1, <1>2
<1>4. x - y = p * (k - l) /\ k - l \in Int
  BY <1>1, <1>2
<1>. QED
  BY <1>3, <1>4 DEF Multiple

LEMMA MultipleTimes ==
    ASSUME NEW x \in Int, NEW y \in Int, NEW p \in Int, Multiple(x, p)
    PROVE  Multiple(x * y, p)
<1>1. PICK k \in Int : x = p * k
  BY DEF Multiple
<1>2. x * y = p * (k * y) /\ k * y \in Int
  BY <1>1
<1>. QED
  BY <1>2 DEF Multiple

LEMMA MultipleHalf ==
    ASSUME NEW x \in Int, NEW p \in Int, p % 2 = 1, Multiple(2 * x, p)
    PROVE  Multiple(x, p)
<1>1. PICK k \in Int : 2 * x = p * k
  BY DEF Multiple
<1>2. PICK h \in Int : p = 2 * h + 1
  OBVIOUS
<1>3. p * k = 2 * (h * k) + k /\ h * k \in Int
  BY <1>2
<1>4. PICK m \in Int : m = x - h * k
  BY <1>3
<1>5. k = 2 * m
  BY <1>1, <1>3, <1>4
<1>6. p * k = 2 * (p * m) /\ p * m \in Int
  BY <1>5
<1>7. x = p * m
  BY <1>1, <1>6
<1>. QED
  BY <1>7 DEF Multiple

(* The halvings and the difference, for words below the modulus.           *)
LEMMA HalveRight ==
    ASSUME NEW mod \in Moduli, NEW x \in 0 .. mod - 1
    PROVE  /\ Halve(x, mod) \in 0 .. mod - 1
           /\ \/ x = 2 * Halve(x, mod)
              \/ x + mod = 2 * Halve(x, mod)
<1>1. /\ WordSize \in Nat /\ WordSize % 2 = 0
      /\ mod \in Nat /\ 3 <= mod /\ mod < WordSize /\ mod % 2 = 1 /\ x \in Nat
  BY OperandsAssumption
<1>2. CASE EVEN(x)
  <2>1. Halve(x, mod) = x \div 2
    BY <1>2 DEF Halve
  <2>. QED
    BY <1>1, <1>2, <2>1 DEF EVEN
<1>3. CASE ~EVEN(x)
  <2>0. PICK s \in Nat : s = x + mod
    BY <1>1
  <2>1. s % 2 = 0
    BY <1>1, <1>3, <2>0 DEF EVEN
  <2>2. CASE s >= WordSize
    <3>0. PICK r \in Nat : s = WordSize + r /\ r < WordSize
      BY <1>1, <2>0, <2>2
    <3>1. s % WordSize = s - WordSize
      BY <1>1, <3>0, RemainderOver
    <3>2. Halve(x, mod) = (s - WordSize) \div 2 + WordSize \div 2
      BY <1>3, <2>0, <2>2, <3>1 DEF Halve
    <3>. QED
      BY <1>1, <2>0, <2>1, <2>2, <3>2
  <2>3. CASE s < WordSize
    <3>1. s % WordSize = s
      BY <1>1, <2>3, Remainders
    <3>2. Halve(x, mod) = s \div 2 + 0
      BY <1>1, <1>3, <2>0, <2>3, <3>1 DEF Halve
    <3>. QED
      BY <1>1, <2>0, <2>1, <2>3, <3>2
  <2>. QED
    BY <1>1, <2>2, <2>3
<1>. QED
  BY <1>2, <1>3

LEMMA DifferenceRight ==
    ASSUME NEW mod \in Moduli, NEW x \in 0 .. mod - 1, NEW y \in 0 .. mod - 1
    PROVE  /\ Difference(x, y, mod) \in 0 .. mod - 1
           /\ \/ Difference(x, y, mod) = x - y
              \/ Difference(x, y, mod) = x + mod - y
<1>1. /\ WordSize \in Nat \ {0}
      /\ mod \in Nat /\ 3 <= mod /\ mod < WordSize /\ x \in Nat /\ y \in Nat
  BY OperandsAssumption
<1>2. CASE x >= y
  <2>1. Difference(x, y, mod) = (x - y) % WordSize
    BY <1>1, <1>2 DEF Difference
  <2>2. PICK z \in Int : z = x - y
    BY <1>1
  <2>3. 0 <= z /\ z < WordSize
    BY <1>1, <1>2, <2>2
  <2>4. z % WordSize = z
    BY <1>1, <2>3, Remainders
  <2>. QED
    BY <1>1, <1>2, <2>1, <2>2, <2>4
<1>3. CASE x < y
  <2>0. PICK s \in Nat : s = x + mod
    BY <1>1
  <2>1. Difference(x, y, mod) = ((s % WordSize) - y) % WordSize
    BY <1>1, <1>3, <2>0 DEF Difference
  <2>2. CASE s >= WordSize
    <3>0. PICK r \in Nat : s = WordSize + r /\ r < WordSize
      BY <1>1, <2>0, <2>2
    <3>1. s % WordSize = s - WordSize
      BY <1>1, <3>0, RemainderOver
    <3>2. PICK z \in Int : z = s - WordSize - y
      BY <1>1
    <3>3. 0 - WordSize <= z /\ z < 0
      BY <1>1, <1>3, <2>0, <2>2, <3>2
    <3>4. z % WordSize = z + WordSize
      BY <1>1, <3>3, Remainders
    <3>5. Difference(x, y, mod) = z % WordSize
      BY <2>1, <3>1, <3>2
    <3>. QED
      BY <1>1, <1>3, <2>0, <3>2, <3>4, <3>5
  <2>3. CASE s < WordSize
    <3>1. s % WordSize = s
      BY <1>1, <2>3, Remainders
    <3>2. PICK z \in Int : z = s - y
      BY <1>1
    <3>3. 0 <= z /\ z < WordSize
      BY <1>1, <1>3, <2>0, <2>3, <3>2
    <3>4. z % WordSize = z
      BY <1>1, <3>3, Remainders
    <3>5. Difference(x, y, mod) = z % WordSize
      BY <2>1, <3>1, <3>2
    <3>. QED
      BY <1>1, <1>3, <2>0, <3>2, <3>4, <3>5
  <2>. QED
    BY <1>1, <2>2, <2>3
<1>. QED
  BY <1>1, <1>2, <1>3

(* What a halving and a difference do to the tie.                          *)
LEMMA TiedHalf ==
    ASSUME NEW p \in Int, p % 2 = 1, NEW i \in Int,
           NEW x \in Int, NEW y \in Int, NEW x2 \in Int, NEW y2 \in Int,
           Ties(x, i, y, p), y = 2 * y2,
           x = 2 * x2 \/ x + p = 2 * x2
    PROVE  Ties(x2, i, y2, p)
<1>1. x * i - y \in Int /\ x2 * i - y2 \in Int /\ p * i \in Int
  OBVIOUS
<1>2. Multiple(p * i, p)
  BY DEF Multiple
<1>3. Multiple(x * i - y + p * i, p)
  BY <1>1, <1>2, MultipleSum DEF Ties
<1>4. \/ 2 * (x2 * i - y2) = x * i - y
      \/ 2 * (x2 * i - y2) = x * i - y + p * i
  <2>1. 2 * (x2 * i - y2) = (2 * x2) * i - y
    OBVIOUS
  <2>2. (x + p) * i - y = x * i - y + p * i
    OBVIOUS
  <2>. QED
    BY <2>1, <2>2
<1>5. Multiple(2 * (x2 * i - y2), p)
  BY <1>3, <1>4 DEF Ties
<1>. QED
  BY <1>1, <1>5, MultipleHalf DEF Ties

LEMMA TiedDifference ==
    ASSUME NEW p \in Int, NEW i \in Int,
           NEW x \in Int, NEW y \in Int, NEW z \in Int, NEW w \in Int,
           NEW d \in Int,
           Ties(x, i, y, p), Ties(z, i, w, p),
           d = x - z \/ d = x + p - z
    PROVE  Ties(d, i, y - w, p)
<1>1. x * i - y \in Int /\ z * i - w \in Int /\ p * i \in Int
  OBVIOUS
<1>2. Multiple(p * i, p)
  BY DEF Multiple
<1>3. Multiple((x * i - y) - (z * i - w), p)
  BY <1>1, MultipleSum DEF Ties
<1>4. Multiple(((x * i - y) - (z * i - w)) + p * i, p)
  BY <1>1, <1>2, <1>3, MultipleSum
<1>5. \/ d * i - (y - w) = (x * i - y) - (z * i - w)
      \/ d * i - (y - w) = ((x * i - y) - (z * i - w)) + p * i
  <2>1. CASE d = x - z
    BY <2>1
  <2>2. CASE d = x + p - z
    BY <2>2
  <2>. QED
    BY <2>1, <2>2
<1>. QED
  BY <1>3, <1>4, <1>5 DEF Ties

(***************************************************************************)
(* The inductive invariant.                                                *)
(***************************************************************************)
Operands ==
    /\ p_mod \in Moduli
    /\ p_input \in Inputs /\ p_input < p_mod
    /\ invPc \in {"loop", "done"}

Reduced == u \in 0 .. p_mod - 1 /\ v \in 0 .. p_mod - 1

Searching ==
    p_input # 0 =>
        /\ a \in 1 .. p_mod /\ b \in 1 .. p_mod
        /\ invPc = "loop" => invResult = 0
        /\ invPc = "done" => a = b /\ invResult = u

OfZero ==
    p_input = 0 => invPc = "done" /\ invResult = 0 /\ a = 0 /\ b = p_mod

Held == Ties(u, p_input, a, p_mod) /\ Ties(v, p_input, b, p_mod)

SharedBy(d, x, y) == Multiple(x, d) /\ Multiple(y, d)

\* A divisor that a and b share is one that the operands share.
KeepsDivisors ==
    \A d \in Nat \ {0} : SharedBy(d, a, b) => SharedBy(d, p_input, p_mod)

IInv == Operands /\ Reduced /\ Searching /\ OfZero /\ Held /\ KeepsDivisors

(* What the assumption on the constants says of the operands.             *)
LEMMA OperandNumbers ==
    Operands => /\ p_mod \in Nat \ {0} /\ 3 <= p_mod /\ p_mod < WordSize
                /\ p_mod % 2 = 1 /\ p_input \in Nat /\ p_input < p_mod
BY OperandsAssumption DEF Operands

(* The invariant holds before the loop, also for the input 0.              *)
LEMMA ModInvInit == InvInit(Inputs, Moduli) => IInv
<1>. SUFFICES ASSUME InvInit(Inputs, Moduli) PROVE IInv
  OBVIOUS
<1>. USE DEF InvInit
<1>1. Operands
  BY DEF Operands
<1>2. /\ p_mod \in Nat /\ 3 <= p_mod /\ p_input \in Nat /\ p_input < p_mod
  BY <1>1, OperandNumbers
<1>3. Reduced
  BY <1>2 DEF Reduced
<1>4. Searching
  BY <1>2 DEF Searching
<1>5. OfZero
  BY DEF OfZero
<1>6. Held
  <2>1. u * p_input - a = p_mod * 0
    BY <1>2
  <2>2. v * p_input - b = p_mod * (0 - 1)
    BY <1>2
  <2>3. 0 \in Int /\ 0 - 1 \in Int
    OBVIOUS
  <2>. QED
    BY <2>1, <2>2, <2>3 DEF Held, Ties, Multiple
<1>7. KeepsDivisors
  BY DEF KeepsDivisors
<1>. QED
  BY <1>1, <1>3, <1>4, <1>5, <1>6, <1>7 DEF IInv

(* One halving, of the pair x, y or of the pair that their difference makes. *)
LEMMA HalvedPair ==
    ASSUME NEW mod \in Moduli, NEW i \in Int,
           NEW x \in 0 .. mod - 1, NEW y \in Int, NEW y2 \in Int,
           Ties(x, i, y, mod), y = 2 * y2
    PROVE  /\ Halve(x, mod) \in 0 .. mod - 1
           /\ Ties(Halve(x, mod), i, y2, mod)
<1>1. mod \in Int /\ mod % 2 = 1 /\ x \in Int
  BY OperandsAssumption
<1>2. PICK x2 \in Int : x2 = Halve(x, mod) /\ x2 \in 0 .. mod - 1
  BY <1>1, HalveRight
<1>3. x = 2 * x2 \/ x + mod = 2 * x2
  BY <1>2, HalveRight
<1>4. Ties(x2, i, y2, mod)
  BY <1>1, <1>3, TiedHalf
<1>. QED
  BY <1>2, <1>4

LEMMA HalvedDifference ==
    ASSUME NEW mod \in Moduli, NEW i \in Int,
           NEW x \in 0 .. mod - 1, NEW y \in Int,
           NEW z \in 0 .. mod - 1, NEW w \in Int, NEW y2 \in Int,
           Ties(x, i, y, mod), Ties(z, i, w, mod),
           y = w + 2 * y2
    PROVE  /\ Halve(Difference(x, z, mod), mod) \in 0 .. mod - 1
           /\ Ties(Halve(Difference(x, z, mod), mod), i, y2, mod)
<1>1. mod \in Int /\ x \in Int /\ z \in Int
  BY OperandsAssumption
<1>2. PICK d \in Int : d = Difference(x, z, mod) /\ d \in 0 .. mod - 1
  BY <1>1, DifferenceRight
<1>3. d = x - z \/ d = x + mod - z
  BY <1>2, DifferenceRight
<1>4. Ties(d, i, y - w, mod)
  BY <1>1, <1>3, TiedDifference
<1>5. PICK e \in Int : e = y - w
  OBVIOUS
<1>6. Ties(d, i, e, mod) /\ e = 2 * y2
  BY <1>4, <1>5
<1>. QED
  BY <1>2, <1>6, HalvedPair

(* A divisor of the halved number and the other one divides both as before. *)
LEMMA SharedHalf ==
    ASSUME NEW d \in Int, NEW x \in Int, NEW x2 \in Int, NEW y \in Int,
           x = 2 * x2 \/ x = y + 2 * x2,
           SharedBy(d, x2, y)
    PROVE  SharedBy(d, x, y)
<1>1. Multiple(x2 * 2, d)
  BY MultipleTimes DEF SharedBy
<1>2. Multiple(x2 * 2 + y, d)
  BY <1>1, MultipleSum DEF SharedBy
<1>3. x = x2 * 2 \/ x = x2 * 2 + y
  OBVIOUS
<1>. QED
  BY <1>1, <1>2, <1>3 DEF SharedBy

(* Each branch of the loop preserves the invariant.                        *)
LEMMA ModInvHalveA == IInv /\ HalveA => IInv'
<1>. SUFFICES ASSUME IInv, HalveA PROVE IInv'
  OBVIOUS
<1>1. /\ p_mod \in Moduli /\ p_mod \in Nat /\ 3 <= p_mod
      /\ p_input \in Nat /\ p_input # 0 /\ p_input' = p_input
      /\ p_mod' = p_mod /\ invPc' = invPc /\ invResult' = invResult
      /\ invPc = "loop" /\ u \in 0 .. p_mod - 1 /\ v \in 0 .. p_mod - 1
      /\ a \in Nat /\ b \in Nat /\ 1 <= a /\ a <= p_mod
      /\ 1 <= b /\ b <= p_mod
  BY OperandNumbers DEF IInv, Operands, OfZero, Searching, Reduced, HalveA
<1>2. /\ b' = b /\ v' = v /\ u' = Halve(u, p_mod)
      /\ a' \in Nat /\ a = 2 * a' /\ 1 <= a' /\ a' <= p_mod
  BY <1>1 DEF HalveA, EVEN
<1>3. u' \in 0 .. p_mod - 1 /\ Ties(u', p_input, a', p_mod)
  <2>1. Ties(u, p_input, a, p_mod)
    BY DEF IInv, Held
  <2>2. p_input \in Int /\ a \in Int /\ a' \in Int /\ a = 2 * a'
    BY <1>1, <1>2
  <2>3. /\ Halve(u, p_mod) \in 0 .. p_mod - 1
        /\ Ties(Halve(u, p_mod), p_input, a', p_mod)
    BY <1>1, <2>1, <2>2, HalvedPair
  <2>. QED
    BY <1>2, <2>3
<1>4. Operands'
  BY <1>1 DEF IInv, Operands
<1>5. Reduced'
  BY <1>1, <1>2, <1>3 DEF Reduced
<1>6. Searching' /\ OfZero'
  <2>1. invResult = 0
    BY <1>1 DEF IInv, Searching
  <2>. QED
    BY <1>1, <1>2, <2>1 DEF Searching, OfZero
<1>7. Held'
  BY <1>1, <1>2, <1>3 DEF IInv, Held
<1>8. ASSUME NEW d \in Nat \ {0}, SharedBy(d, a', b')
      PROVE  SharedBy(d, p_input', p_mod')
  <2>1. SharedBy(d, a, b)
    BY <1>1, <1>2, <1>8, SharedHalf
  <2>. QED
    BY <1>1, <2>1 DEF IInv, KeepsDivisors
<1>9. KeepsDivisors'
  BY <1>8 DEF KeepsDivisors
<1>. QED
  BY <1>4, <1>5, <1>6, <1>7, <1>9 DEF IInv

LEMMA ModInvHalveB == IInv /\ HalveB => IInv'
<1>. SUFFICES ASSUME IInv, HalveB PROVE IInv'
  OBVIOUS
<1>1. /\ p_mod \in Moduli /\ p_mod \in Nat /\ 3 <= p_mod
      /\ p_input \in Nat /\ p_input # 0 /\ p_input' = p_input
      /\ p_mod' = p_mod /\ invPc' = invPc /\ invResult' = invResult
      /\ invPc = "loop" /\ u \in 0 .. p_mod - 1 /\ v \in 0 .. p_mod - 1
      /\ a \in Nat /\ b \in Nat /\ 1 <= a /\ a <= p_mod
      /\ 1 <= b /\ b <= p_mod
  BY OperandNumbers DEF IInv, Operands, OfZero, Searching, Reduced, HalveB
<1>2. /\ a' = a /\ u' = u /\ v' = Halve(v, p_mod)
      /\ b' \in Nat /\ b = 2 * b' /\ 1 <= b' /\ b' <= p_mod
  BY <1>1 DEF HalveB, EVEN
<1>3. v' \in 0 .. p_mod - 1 /\ Ties(v', p_input, b', p_mod)
  <2>1. Ties(v, p_input, b, p_mod)
    BY DEF IInv, Held
  <2>2. p_input \in Int /\ b \in Int /\ b' \in Int /\ b = 2 * b'
    BY <1>1, <1>2
  <2>3. /\ Halve(v, p_mod) \in 0 .. p_mod - 1
        /\ Ties(Halve(v, p_mod), p_input, b', p_mod)
    BY <1>1, <2>1, <2>2, HalvedPair
  <2>. QED
    BY <1>2, <2>3
<1>4. Operands'
  BY <1>1 DEF IInv, Operands
<1>5. Reduced'
  BY <1>1, <1>2, <1>3 DEF Reduced
<1>6. Searching' /\ OfZero'
  <2>1. invResult = 0
    BY <1>1 DEF IInv, Searching
  <2>. QED
    BY <1>1, <1>2, <2>1 DEF Searching, OfZero
<1>7. Held'
  BY <1>1, <1>2, <1>3 DEF IInv, Held
<1>8. ASSUME NEW d \in Nat \ {0}, SharedBy(d, a', b')
      PROVE  SharedBy(d, p_input', p_mod')
  <2>1. SharedBy(d, b, a)
    BY <1>1, <1>2, <1>8, SharedHalf DEF SharedBy
  <2>. QED
    BY <1>1, <2>1 DEF IInv, KeepsDivisors, SharedBy
<1>9. KeepsDivisors'
  BY <1>8 DEF KeepsDivisors
<1>. QED
  BY <1>4, <1>5, <1>6, <1>7, <1>9 DEF IInv

LEMMA ModInvSubA == IInv /\ SubA => IInv'
<1>. SUFFICES ASSUME IInv, SubA PROVE IInv'
  OBVIOUS
<1>1. /\ p_mod \in Moduli /\ p_mod \in Nat /\ 3 <= p_mod
      /\ p_input \in Nat /\ p_input # 0 /\ p_input' = p_input
      /\ p_mod' = p_mod /\ invPc' = invPc /\ invResult' = invResult
      /\ invPc = "loop" /\ u \in 0 .. p_mod - 1 /\ v \in 0 .. p_mod - 1
      /\ a \in Nat /\ b \in Nat /\ 1 <= a /\ a <= p_mod
      /\ 1 <= b /\ b <= p_mod
  BY OperandNumbers DEF IInv, Operands, OfZero, Searching, Reduced, SubA
<1>2. /\ b' = b /\ v' = v /\ u' = Halve(Difference(u, v, p_mod), p_mod)
      /\ a' \in Nat /\ a = b + 2 * a' /\ 1 <= a' /\ a' <= p_mod
  BY <1>1 DEF SubA, EVEN
<1>3. u' \in 0 .. p_mod - 1 /\ Ties(u', p_input, a', p_mod)
  <2>1. Ties(u, p_input, a, p_mod) /\ Ties(v, p_input, b, p_mod)
    BY DEF IInv, Held
  <2>2. p_input \in Int /\ a \in Int /\ b \in Int /\ a' \in Int
    BY <1>1, <1>2
  <2>3. /\ Halve(Difference(u, v, p_mod), p_mod) \in 0 .. p_mod - 1
        /\ Ties(Halve(Difference(u, v, p_mod), p_mod), p_input, a', p_mod)
    BY <1>1, <1>2, <2>1, <2>2, HalvedDifference
  <2>. QED
    BY <1>2, <2>3
<1>4. Operands'
  BY <1>1 DEF IInv, Operands
<1>5. Reduced'
  BY <1>1, <1>2, <1>3 DEF Reduced
<1>6. Searching' /\ OfZero'
  <2>1. invResult = 0
    BY <1>1 DEF IInv, Searching
  <2>. QED
    BY <1>1, <1>2, <2>1 DEF Searching, OfZero
<1>7. Held'
  BY <1>1, <1>2, <1>3 DEF IInv, Held
<1>8. ASSUME NEW d \in Nat \ {0}, SharedBy(d, a', b')
      PROVE  SharedBy(d, p_input', p_mod')
  <2>1. SharedBy(d, a, b)
    BY <1>1, <1>2, <1>8, SharedHalf
  <2>. QED
    BY <1>1, <2>1 DEF IInv, KeepsDivisors
<1>9. KeepsDivisors'
  BY <1>8 DEF KeepsDivisors
<1>. QED
  BY <1>4, <1>5, <1>6, <1>7, <1>9 DEF IInv

LEMMA ModInvSubB == IInv /\ SubB => IInv'
<1>. SUFFICES ASSUME IInv, SubB PROVE IInv'
  OBVIOUS
<1>1. /\ p_mod \in Moduli /\ p_mod \in Nat /\ 3 <= p_mod
      /\ p_input \in Nat /\ p_input # 0 /\ p_input' = p_input
      /\ p_mod' = p_mod /\ invPc' = invPc /\ invResult' = invResult
      /\ invPc = "loop" /\ u \in 0 .. p_mod - 1 /\ v \in 0 .. p_mod - 1
      /\ a \in Nat /\ b \in Nat /\ 1 <= a /\ a <= p_mod
      /\ 1 <= b /\ b <= p_mod
  BY OperandNumbers DEF IInv, Operands, OfZero, Searching, Reduced, SubB
<1>2. /\ a' = a /\ u' = u /\ v' = Halve(Difference(v, u, p_mod), p_mod)
      /\ b' \in Nat /\ b = a + 2 * b' /\ 1 <= b' /\ b' <= p_mod
  BY <1>1 DEF SubB, EVEN
<1>3. v' \in 0 .. p_mod - 1 /\ Ties(v', p_input, b', p_mod)
  <2>1. Ties(v, p_input, b, p_mod) /\ Ties(u, p_input, a, p_mod)
    BY DEF IInv, Held
  <2>2. p_input \in Int /\ b \in Int /\ a \in Int /\ b' \in Int
    BY <1>1, <1>2
  <2>3. /\ Halve(Difference(v, u, p_mod), p_mod) \in 0 .. p_mod - 1
        /\ Ties(Halve(Difference(v, u, p_mod), p_mod), p_input, b', p_mod)
    BY <1>1, <1>2, <2>1, <2>2, HalvedDifference
  <2>. QED
    BY <1>2, <2>3
<1>4. Operands'
  BY <1>1 DEF IInv, Operands
<1>5. Reduced'
  BY <1>1, <1>2, <1>3 DEF Reduced
<1>6. Searching' /\ OfZero'
  <2>1. invResult = 0
    BY <1>1 DEF IInv, Searching
  <2>. QED
    BY <1>1, <1>2, <2>1 DEF Searching, OfZero
<1>7. Held'
  BY <1>1, <1>2, <1>3 DEF IInv, Held
<1>8. ASSUME NEW d \in Nat \ {0}, SharedBy(d, a', b')
      PROVE  SharedBy(d, p_input', p_mod')
  <2>1. SharedBy(d, b, a)
    BY <1>1, <1>2, <1>8, SharedHalf DEF SharedBy
  <2>. QED
    BY <1>1, <2>1 DEF IInv, KeepsDivisors, SharedBy
<1>9. KeepsDivisors'
  BY <1>8 DEF KeepsDivisors
<1>. QED
  BY <1>4, <1>5, <1>6, <1>7, <1>9 DEF IInv

LEMMA ModInvFinish == IInv /\ Finish => IInv'
BY DEF IInv, Finish, Operands, Reduced, Searching, OfZero, Held, KeepsDivisors

LEMMA ModInvStep == IInv /\ [InvNext]_invVars => IInv'
<1>1. IInv /\ UNCHANGED invVars => IInv'
  BY DEF IInv, invVars, Operands, Reduced, Searching, OfZero, Held,
         KeepsDivisors
<1>. QED
  BY <1>1, ModInvHalveA, ModInvHalveB, ModInvSubA, ModInvSubB, ModInvFinish
     DEF InvNext

(* Once a = b, their value divides both operands.                          *)
LEMMA CommonIsOne ==
    ASSUME NEW i \in Nat \ {0}, NEW p \in Nat \ {0}, NEW g \in Nat \ {0},
           SharedBy(g, i, p), Coprime(i, p)
    PROVE  g = 1
<1>1. i % g = 0 /\ p % g = 0
  BY RemainderZero DEF SharedBy
<1>2. PICK k \in Int : i = g * k
  BY DEF SharedBy, Multiple
<1>3. g <= i
  BY <1>2
<1>4. ASSUME g # 1 PROVE FALSE
  <2>1. g \in 2 .. i
    BY <1>3, <1>4
  <2>. QED
    BY <1>1, <2>1 DEF Coprime, Divides
<1>. QED
  BY <1>4

(* The invariant implies what the run checks.                              *)
LEMMA ModInvCorrect == IInv => InversionExact
<1>. SUFFICES ASSUME IInv PROVE InversionExact
  OBVIOUS
<1>1. /\ p_mod \in Nat \ {0} /\ 3 <= p_mod /\ p_input \in Nat
      /\ u \in 0 .. p_mod - 1 /\ v \in 0 .. p_mod - 1
      /\ a \in Int /\ b \in Int
  BY OperandNumbers DEF IInv, Searching, OfZero, Reduced
<1>2. LoopInRange
  BY <1>1 DEF IInv, Operands, Reduced, Searching, OfZero, LoopInRange
<1>3. Tied
  <2>1. /\ Multiple(u * p_input - a, p_mod) /\ u * p_input - a \in Int
        /\ Multiple(v * p_input - b, p_mod) /\ v * p_input - b \in Int
    BY <1>1 DEF IInv, Held, Ties
  <2>. QED
    BY <1>1, <2>1, RemainderZero DEF Tied
<1>4. ASSUME invPc = "done", Coprime(p_input, p_mod), p_input # 0
      PROVE  (p_input * invResult) % p_mod = 1 % p_mod
  <2>1. a = b /\ a \in Nat \ {0} /\ invResult = u
    BY <1>1, <1>4 DEF IInv, Searching
  <2>2. SharedBy(a, a, b)
    BY <1>1, <2>1 DEF SharedBy, Multiple
  <2>3. SharedBy(a, p_input, p_mod)
    BY <2>1, <2>2 DEF IInv, KeepsDivisors
  <2>4. a = 1
    BY <1>1, <1>4, <2>1, <2>3, CommonIsOne
  <2>5. PICK x \in Int : x = u * p_input /\ x = p_input * u
    BY <1>1
  <2>6. PICK y \in Int : y = x - 1 /\ x = y + 1
    BY <2>5
  <2>7. Multiple(y, p_mod) /\ p_mod \in Nat \ {0} /\ 2 <= p_mod
    BY <1>1, <2>4, <2>5, <2>6 DEF IInv, Held, Ties
  <2>8. x % p_mod = 1
    BY <2>6, <2>7, RemainderOne
  <2>9. 1 % p_mod = 1
    BY <1>1
  <2>. QED
    BY <2>1, <2>5, <2>8, <2>9
<1>5. Inverts
  BY <1>4 DEF Inverts, IInv, OfZero
<1>. QED
  BY <1>2, <1>3, <1>5 DEF InversionExact

(* vli_modInv keeps u and v reduced and tied to a and b in every iteration,*)
(* and returns the inverse of its input modulo p_mod when there is one     *)
(* (secp256r1.cpp:577-661), for every word size and odd modulus.           *)
THEOREM InversionCorrect == InvSpec => []InversionExact
<1>1. InvSpec => []IInv
  BY ModInvInit, ModInvStep, PTL DEF InvSpec
<1>. QED
  BY <1>1, ModInvCorrect, PTL
=============================================================================
