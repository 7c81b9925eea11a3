------------------------------- MODULE ModInv -------------------------------
(***************************************************************************)
(* vli_modInv of src/bryllite-core/secp256r1.cpp, one iteration of its loop*)
(* per step.  a, b, u and v are words; what leaves the top of an addition  *)
(* is lost, except the carry that the code puts back as the top bit after a*)
(* shift.                                                                  *)
(***************************************************************************)
EXTENDS Integers

CONSTANTS
    WordSize,                    \* a word is taken modulo this (2^256 in the code)
    Inputs, Moduli               \* the operands

\* The moduli are odd and not 1: curve_p and curve_n in the code.
ASSUME OperandsAssumption ==
    /\ WordSize \in Nat /\ WordSize % 2 = 0
    /\ Moduli \subseteq {x \in 3 .. WordSize - 1 : x % 2 = 1}
    /\ Inputs \subseteq 0 .. WordSize - 1

VARIABLES p_input, p_mod, a, b, u, v, invPc, invResult

invVars == <<p_input, p_mod, a, b, u, v, invPc, invResult>>

EVEN(x) == x % 2 = 0

\* vli_rshift1, after p_mod was added to an odd number; the carry of the
\* addition becomes the top bit.
Halve(x, mod) ==
    LET sum == x + mod
    IN  IF EVEN(x) THEN x \div 2
        ELSE (sum % WordSize) \div 2
             + IF sum >= WordSize THEN WordSize \div 2 ELSE 0

\* Slip: p_mod is not added first.
DifferenceWraps(x, y, mod) == (x - y) % WordSize

\* u - v modulo p_mod, through a word that may overflow and come back.
Difference(x, y, mod) ==
    LET x1 == IF x < y THEN (x + mod) % WordSize ELSE x
    IN  (x1 - y) % WordSize

InvInit(inputs, moduli) ==
    /\ p_mod \in moduli
    /\ p_input \in {x \in inputs : x < p_mod}
    /\ a = p_input /\ b = p_mod /\ u = 1 /\ v = 0
    /\ invResult = 0
    /\ invPc = IF p_input = 0 THEN "done" ELSE "loop"

HalveA == /\ invPc = "loop" /\ a # b /\ EVEN(a)
          /\ a' = a \div 2
          /\ u' = Halve(u, p_mod)
          /\ UNCHANGED <<p_input, p_mod, b, v, invPc, invResult>>

HalveB == /\ invPc = "loop" /\ a # b /\ ~EVEN(a) /\ EVEN(b)
          /\ b' = b \div 2
          /\ v' = Halve(v, p_mod)
          /\ UNCHANGED <<p_input, p_mod, a, u, invPc, invResult>>

SubA == /\ invPc = "loop" /\ ~EVEN(a) /\ ~EVEN(b) /\ a > b
        /\ a' = (a - b) \div 2
        /\ u' = Halve(Difference(u, v, p_mod), p_mod)
        /\ UNCHANGED <<p_input, p_mod, b, v, invPc, invResult>>

\* Slip: an off-by-one comparison.
SubBLate == /\ invPc = "loop" /\ ~EVEN(a) /\ ~EVEN(b) /\ a + 2 < b
            /\ b' = (b - a) \div 2
            /\ v' = Halve(Difference(v, u, p_mod), p_mod)
            /\ UNCHANGED <<p_input, p_mod, a, u, invPc, invResult>>

SubB == /\ invPc = "loop" /\ ~EVEN(a) /\ ~EVEN(b) /\ a < b
        /\ b' = (b - a) \div 2
        /\ v' = Halve(Difference(v, u, p_mod), p_mod)
        /\ UNCHANGED <<p_input, p_mod, a, u, invPc, invResult>>

Finish == /\ invPc = "loop" /\ a = b
          /\ invResult' = u
          /\ invPc' = "done"
          /\ UNCHANGED <<p_input, p_mod, a, b, u, v>>

InvNext == HalveA \/ HalveB \/ SubA \/ SubB \/ Finish

InvSpec == InvInit(Inputs, Moduli) /\ [][InvNext]_invVars

-----------------------------------------------------------------------------
Divides(d, x) == x % d = 0
Coprime(x, y) == \A d \in 2 .. x : ~(Divides(d, x) /\ Divides(d, y))

\* The words of the loop stay in the ranges its arithmetic relies on: u and v
\* reduced, a and b positive and never larger than they were.
LoopInRange ==
    /\ p_input \in Inputs /\ p_mod \in Moduli
    /\ u \in 0 .. p_mod - 1 /\ v \in 0 .. p_mod - 1
    /\ invResult \in 0 .. p_mod - 1 /\ invPc \in {"loop", "done"}
    /\ invPc = "loop" => a \in 1 .. p_mod /\ b \in 1 .. p_mod

\* The loop of vli_modInv (secp256r1.cpp:594-661) keeps both pairs tied to the
\* input: u * input = a and v * input = b modulo p_mod, although additions
\* wrap and halvings put a carry back.
Tied == /\ (u * p_input - a) % p_mod = 0
        /\ (v * p_input - b) % p_mod = 0

\* The result of vli_modInv is the inverse of its input, and 0 for 0.
Inverts ==
    invPc = "done" /\ Coprime(p_input, p_mod) =>
        IF p_input = 0 THEN invResult = 0
        ELSE (p_input * invResult) % p_mod = 1 % p_mod

\* The loop of vli_modInv keeps its numbers in range and u and v tied to a
\* and b, and so ends with the inverse.
InversionExact == LoopInRange /\ Tied /\ Inverts

\* The loop ends for every input, invertible or not.
Terminates == <>(invPc = "done")
=============================================================================
