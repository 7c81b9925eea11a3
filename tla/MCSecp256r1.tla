---------------------------- MODULE MCSecp256r1 ----------------------------
(***************************************************************************)
(* The parts of src/bryllite-core/secp256r1.cpp on words of eight bits.    *)
(* One part moves in a behaviour, the others rest in an initial state.     *)
(* "vli" walks through the operands of the digit arithmetic, one pair per  *)
(* state, and compares what the algorithms return with the numbers the     *)
(* digits stand for.                                                       *)
(***************************************************************************)
EXTENDS ModInv, Ecc

CONSTANTS Parts,                 \* the parts that move
          Orders                 \* moduli of vli_modMult, the top bit set

\* The words of vli_modInv are those that the digits make up.
ASSUME WordSizeAssumption == WordSize = Word

VARIABLE part

vars == <<part, operandVars, invVars, multVars, ecdhVars, ecdsaVars>>

\* The initial values S for the part that moves, x for a part at rest.
When(p, S, x) == IF part = p THEN S ELSE {x}

Init ==
    /\ part \in Parts
    /\ VliInit(When("vli", Right, 0))
    /\ InvInit(When("inv", Inputs, 0), When("inv", Moduli, 7))
    /\ MultInit(When("mult", Multipliers, 1), When("mult", Scalars, 2),
                When("mult", InitialZs, 1))
    /\ EcdhInit(When("ecdh", Privates, 2))
    /\ EcdsaInit(When("ecdsa", Hashes, 0), When("ecdsa", {Zero, Junk}, Zero))

Next ==
    \/ /\ part = "vli" /\ NextOperand
       /\ UNCHANGED <<part, invVars, multVars, ecdhVars, ecdsaVars>>
    \/ /\ part = "inv" /\ InvNext
       /\ UNCHANGED <<part, operandVars, multVars, ecdhVars, ecdsaVars>>
    \/ /\ part = "mult" /\ MultNext
       /\ UNCHANGED <<part, operandVars, invVars, ecdhVars, ecdsaVars>>
    \/ /\ part = "ecdh" /\ EcdhNext
       /\ UNCHANGED <<part, operandVars, invVars, multVars, ecdsaVars>>
    \/ /\ part = "ecdsa" /\ EcdsaNext
       /\ UNCHANGED <<part, operandVars, invVars, multVars, ecdhVars>>

\* vli_modInv is one uninterrupted loop.
Spec == Init /\ [][Next]_vars /\ WF_vars(part = "inv" /\ Next)

-----------------------------------------------------------------------------
(* The values of the constants.                                            *)

\* Every value of every digit, in a fifth of the words.
RightOperands == {x \in 0 .. Word - 1 : x % 5 = 0}
AllInputs   == 0 .. 254
AllScalars  == 0 .. Word - 1
\* Keys that create_key_pair can return with their public keys.
KeysInRange == {x \in 2 .. curve_n - 2 : x % 7 = 2}
\* Ordinary words, and the ones around 0, curve_n and the largest word:
\* 179 is reduced to 0, 180 to 1, 178 gives infinity, 18 a point whose x is
\* not below curve_n, 57 a point whose x is 0.
Keys   == {0, 1, 2, 18, 57, 90, 176, 177, 178, 179, 180, 255}
Nonces == {0, 1, 2, 18, 57, 100, 177, 178, 179, 200}
Alterations == {<<"none", 0>>, <<"hash", 5>>, <<"hash", 179>>, <<"r", 0>>,
                <<"r", 60>>, <<"r", 200>>, <<"s", 0>>, <<"s", 3>>, <<"s", 179>>}
JunkPoint == [x |-> 77, y |-> 11]

-----------------------------------------------------------------------------
VliMoves == part = "vli"

\* The number of bits is the position of the highest one, and vli_testBit
\* finds it there (secp256r1.cpp:162-200).
BitsExact == VliMoves =>
    LET n == vli_numBits(LeftVli)
    IN  /\ 2 ^ n > left
        /\ left > 0 => vli_testBit(LeftVli, n - 1) /\ 2 ^ (n - 1) <= left

\* vli_modMult (secp256r1.cpp:1005-1067) is the remainder of the product for
\* every modulus that fills its word: the loop shifts the modulus back under
\* the product exactly as often as it shifted it up.
RemainderExact == VliMoves =>
    \A n \in Orders : Val(vli_modMult(LeftVli, RightVli, ToVli(n))) = (left * right) % n

\* ecc_native2bytes and ecc_bytes2native (secp256r1.cpp:866-894) are inverse,
\* and the byte string is the number, most significant byte first.
BytesBigEndian == VliMoves =>
    LET bytes == ecc_native2bytes(LeftVli)
    IN  /\ ecc_bytes2native(bytes) = LeftVli
        /\ \A n \in Bytes : bytes[n] = (left \div 2 ^ (8 * W - 1 - n)) % 2

\* The same products built from half digits, as a compiler without a 128 bit
\* integer builds them (secp256r1.cpp:354-442).
Product64Exact == VliMoves =>
    /\ Val8(vli_mult_64(LeftVli, RightVli)) = left * right
    /\ Val8(vli_square_64(LeftVli)) = left * left

-----------------------------------------------------------------------------
(* The properties checked, one for each layer of the file.                 *)

(* The ladder reads the bits of its scalar right, keeps its two points on  *)
(* a common Z and multiplies by every scalar that enters it, a degenerate  *)
(* Z or product gives zeros, and two parties derive the same secret        *)
(* whatever initial Z they draw.                                           *)
PointsExact == BitsExact /\ CoZ /\ Multiplies /\ DegenerateIsZero /\ SecretsAgree

(* The arithmetic modulo the order and the byte strings are exact, a key   *)
(* that is returned matches its public key, a signature satisfies the      *)
(* equation for its hash, and verification accepts exactly those that do,  *)
(* whatever was altered.                                                   *)
SignaturesSound ==
    /\ RemainderExact /\ BytesBigEndian
    /\ KeyPairMatches /\ SignsHash /\ AcceptsValid /\ AcceptsOnlyValid
=============================================================================
