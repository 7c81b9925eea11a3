-------------------------------- MODULE Ecc --------------------------------
(***************************************************************************)
(* The curve operations of src/bryllite-core/secp256r1.cpp, on numbers.  A *)
(* vli is here the number its digits stand for, in 0 .. Word - 1: the run  *)
(* secp256r1 checks the digit algorithms of Vli against these operators.   *)
(* The curve is y^2 = x^3 - 3x + curve_b over the field of curve_p, with a *)
(* base point curve_G of order curve_n.  Then create_key_pair, do_sign and *)
(* do_verify, which use them.                                              *)
(***************************************************************************)
EXTENDS Vli

CONSTANTS curve_b, curve_n, Gx, Gy

ASSUME CurveAssumption == {curve_b, curve_n, Gx, Gy} \subseteq Nat

curve_p == H ^ 8 - H ^ 7 + H ^ 6 + H ^ 3 - 1
curve_G == [x |-> Gx, y |-> Gy]

(* The field.                                                              *)
modAdd(l, r, mod) ==
    LET s == l + r
    IN  IF s >= Word \/ s >= mod THEN (s - mod) % Word ELSE s
modSub(l, r, mod) ==
    IF l < r THEN (l - r + mod) % Word ELSE l - r
Add(l, r)  == modAdd(l, r, curve_p)
Sub(l, r)  == modSub(l, r, curve_p)
Mul(l, r)  == (l * r) % curve_p
Sqr(l)     == (l * l) % curve_p

\* What modInv returns: 0 for 0, the inverse otherwise (module ModInv).
\* Tables are sequences made by \o, which TLC evaluates once.
Inverses(m) == [x \in 1 .. m - 1 |->
                  CHOOSE y \in 1 .. m - 1 : (x * y) % m = 1] \o <<>>
InvP == Inverses(curve_p)
InvN == Inverses(curve_n)
modInv(x, table) == IF x = 0 THEN 0 ELSE table[x]

testBit(v, i) == (v \div 2 ^ i) % 2 = 1
numBits(v)    == IF v = 0 THEN 0
                     ELSE CHOOSE i \in 1 .. 8 * W : v \div 2 ^ (i - 1) = 1

-----------------------------------------------------------------------------
(* Points.  Coordinates of a pair of points that share a Z are carried     *)
(* without it (co-Z); the operators return every coordinate they modify.   *)
EccPoint_isZero(P) == P.x = 0 /\ P.y = 0

Triple(m) == Add(m, Add(m, m))
\* m/2; for an odd m it is (m + curve_p) / 2, with the carry as top bit.
Half(m) == IF testBit(m, 0) THEN (m + curve_p) \div 2 ELSE m \div 2

EccPoint_double_jacobian(X1, Y1, Z1) ==
    LET A    == Mul(X1, Sqr(Y1))
        z3   == Mul(Y1, Z1)
        zz   == Sqr(Z1)
        x_zz == Add(X1, zz)
        Bh   == Half(Triple(Mul(x_zz, Sub(x_zz, Add(zz, zz)))))
        x3   == Sub(Sub(Sqr(Bh), A), A)
        y3   == Sub(Mul(Bh, Sub(A, x3)), Sqr(Sqr(Y1)))
    IN  IF Z1 = 0 THEN [x |-> X1, y |-> Y1, z |-> Z1]
                  ELSE [x |-> x3, y |-> y3, z |-> z3]

apply_z(P, Z) ==
    LET zz == Sqr(Z) IN [x |-> Mul(P.x, zz), y |-> Mul(P.y, Mul(zz, Z))]

\* The pair <<R[0], R[1]>>: P and 2P, with a common Z.
\* Slip: P keeps the Z it came with.
initial_double_apart(P, initialZ) ==
    LET Q == apply_z(P, initialZ)
        D == EccPoint_double_jacobian(Q.x, Q.y, initialZ)
    IN  <<Q, [x |-> D.x, y |-> D.y]>>

XYcZ_initial_double(P, initialZ) ==
    LET Q == apply_z(P, initialZ)
        R(D) == <<apply_z(P, D.z), [x |-> D.x, y |-> D.y]>>
    IN  R(EccPoint_double_jacobian(Q.x, Q.y, initialZ))

\* P => P', Q => P + Q.
XYcZ_add(P, Q) ==
    LET A  == Sqr(Sub(Q.x, P.x))
        B1 == Mul(P.x, A)
        C  == Mul(Q.x, A)
        dy == Sub(Q.y, P.y)
        x3 == Sub(Sub(Sqr(dy), B1), C)
        y1 == Mul(P.y, Sub(C, B1))
    IN  [P |-> [x |-> B1, y |-> y1],
         Q |-> [x |-> x3, y |-> Sub(Mul(dy, Sub(B1, x3)), y1)]]

\* P => P - Q, Q => P + Q.
XYcZ_addC(P, Q) ==
    LET A  == Sqr(Sub(Q.x, P.x))
        B1 == Mul(P.x, A)
        C  == Mul(Q.x, A)
        sy == Add(Q.y, P.y)
        dy == Sub(Q.y, P.y)
        y1 == Mul(P.y, Sub(C, B1))
        BC == Add(B1, C)
        x3 == Sub(Sqr(dy), BC)
        xd == Sub(Sqr(sy), BC)
    IN  [P |-> [x |-> xd, y |-> Sub(Mul(Sub(xd, B1), sy), y1)],
         Q |-> [x |-> x3, y |-> Sub(Mul(dy, Sub(B1, x3)), y1)]]

-----------------------------------------------------------------------------
(* EccPoint_mult: a ladder over the bits of the scalar below the highest   *)
(* one.  R is the pair <<R0, R1>>; nb and 1 - nb index it in the code.     *)
Pair(nb, Rnb, Rother) == IF nb = 0 THEN <<Rnb, Rother>> ELSE <<Rother, Rnb>>
nb(k, i) == IF testBit(k, i) THEN 0 ELSE 1

\* What an iteration does to R, by the value b of nb, and its two halves.
addC(R, b) == XYcZ_addC(R[2 - b], R[1 + b])
add(c, b)  == LET R(a) == Pair(b, a.P, a.Q) IN R(XYcZ_add(c.Q, c.P))
LadderStep(R, k, i) == add(addC(R, nb(k, i)), nb(k, i))

\* 1/Z for R[0], from the points after the last addC.
FinalZ(c, b, P) ==
    LET S == Pair(b, c.Q, c.P)
        d == Mul(Mul(Sub(S[2].x, S[1].x), c.P.y), P.x)
    IN  Mul(Mul(modInv(d, InvP), P.y), c.P.x)

LadderLast(R, P, k) ==
    LET b == nb(k, 0)
        Result(c) == apply_z(add(c, b)[1], FinalZ(c, b, P))
    IN  Result(addC(R, b))

EccPoint_mult(P, k, initialZ) ==
    LET bits == numBits(k)
        \* R after the steps for the bits bits - 2 .. i + 1
        R[i \in 0 .. 8 * W] ==
            IF i >= bits - 2 THEN XYcZ_initial_double(P, initialZ)
                             ELSE LadderStep(R[i + 1], k, i + 1)
    IN  LadderLast(R[0], P, k)

-----------------------------------------------------------------------------
(* Compressed points: the parity of y and x.                               *)
RECURSIVE Power(_, _)
Power(a, e) == IF e = 0 THEN 1
               ELSE LET h == Sqr(Power(a, e \div 2))
                    IN  IF testBit(e, 0) THEN Mul(h, a) ELSE h

\* The loop runs over the bits of curve_p + 1 above bit 1.
mod_sqrt(a) == Power(a, (curve_p + 1) \div 4)

ecc_point_decompress(c) ==
    LET x == c.x
        y == mod_sqrt(Add(Mul(Sub(Sqr(x), 3), x), curve_b))
    IN  [x |-> x, y |-> IF y % 2 # c.parity THEN (curve_p - y) % Word ELSE y]

ecc_point_compress(P) == [parity |-> P.y % 2, x |-> P.x]

-----------------------------------------------------------------------------
(* The reference: affine addition on the curve, None its neutral element.  *)
None == [x |-> -1, y |-> -1]
AffinePlus(P, Q) ==
    LET slope == IF P = Q
                 THEN Mul(Mul(3, Sub(Sqr(P.x), 1)), modInv(Add(P.y, P.y), InvP))
                 ELSE Mul(Sub(Q.y, P.y), modInv(Sub(Q.x, P.x), InvP))
        x == Sub(Sub(Sqr(slope), P.x), Q.x)
    IN  CASE P = None -> Q
          [] Q = None -> P
          [] P # None /\ Q # None /\ P.x = Q.x /\ Add(P.y, Q.y) = 0 -> None
          [] OTHER -> [x |-> x, y |-> Sub(Mul(slope, Sub(P.x, x)), P.y)]
\* The multiples 1 .. curve_n - 1 of the base point, each the sum of its two
\* halves, and any multiple.
Table == LET m[j \in 1 .. curve_n - 1] ==
               IF j = 1 THEN curve_G ELSE AffinePlus(m[j \div 2], m[j - j \div 2])
         IN  [j \in 1 .. curve_n - 1 |-> m[j]] \o <<>>
Multiple(j) == IF j % curve_n = 0 THEN None ELSE Table[j % curve_n]

-----------------------------------------------------------------------------
(***************************************************************************)
(* EccPoint_mult of src/bryllite-core/secp256r1.cpp step by step: the      *)
(* initial doubling, one iteration of the loop per step, the last bit and  *)
(* the return to affine coordinates; and make_shared_secret, which uses it,*)
(* between two parties.                                                    *)
(***************************************************************************)

CONSTANTS Multipliers,           \* P is one of these multiples of curve_G
          Scalars,
          InitialZs              \* p_initialZ; 1 also stands for NULL

VARIABLES mult,                  \* p_point = mult * curve_G
          p_scalar, p_initialZ,
          multR, multBit, multPc, multResult

multVars == <<mult, p_scalar, p_initialZ, multR, multBit, multPc, multResult>>

p_point      == Multiple(mult)
Ref(j) == Multiple(mult * j)   \* j * p_point by affine additions

MultInit(multipliers, scalars, zs) ==
    /\ mult \in multipliers /\ p_scalar \in scalars /\ p_initialZ \in zs
    /\ multR = <<p_point, p_point>> /\ multBit = 0 /\ multPc = "start" /\ multResult = None

InitialDouble ==
    /\ multPc = "start"
    /\ multR' = XYcZ_initial_double(p_point, p_initialZ)
    /\ multBit' = numBits(p_scalar) - 2
    /\ multPc' = "loop"
    /\ UNCHANGED <<mult, p_scalar, p_initialZ, multResult>>

LoopStep ==
    /\ multPc = "loop" /\ multBit > 0
    /\ multR' = LadderStep(multR, p_scalar, multBit)
    /\ multBit' = multBit - 1
    /\ UNCHANGED <<mult, p_scalar, p_initialZ, multPc, multResult>>

LastBit ==
    /\ multPc = "loop" /\ multBit <= 0
    /\ multResult' = LadderLast(multR, p_point, p_scalar)
    /\ multPc' = "done"
    /\ UNCHANGED <<mult, p_scalar, p_initialZ, multR, multBit>>

MultNext == InitialDouble \/ LoopStep \/ LastBit

-----------------------------------------------------------------------------
\* The bits of the scalar that the loop has consumed.
Prefix == p_scalar \div 2 ^ (multBit + 1)

\* The two ladder points share a Z (co-Z coordinates, secp256r1.cpp:738-823)
\* and stand for Prefix * P and (Prefix + 1) * P: their difference is always
\* P, which is what lets the final step recover Z without having kept it.
CoZ ==
    multPc = "loop" /\ p_scalar >= 2 /\ p_initialZ % curve_p # 0 =>
        \E Z \in 1 .. curve_p - 1 :
            /\ multR[1] = apply_z(Ref(Prefix), Z)
            /\ multR[2] = apply_z(Ref(Prefix + 1), Z)

\* EccPoint_mult (secp256r1.cpp:825-864) returns k * P in affine coordinates
\* whatever initial Z randomises it.  The point at infinity comes out as
\* (0, 0), which EccPoint_isZero recognises.
\* Outside the property: scalars 0 and 1, for which the loop never sees a
\* leading bit, the scalars -1 and 0 modulo n (their last addition meets equal
\* x coordinates) and P with x = 0, by which the final step divides.
Multiplies ==
    multPc = "done" /\ p_scalar >= 2 /\ p_initialZ % curve_p # 0 /\ p_point.x # 0 =>
        IF p_scalar % curve_n \in {0, curve_n - 1} THEN EccPoint_isZero(multResult)
        ELSE multResult = Ref(p_scalar)

\* A degenerate case returns the zero point and nothing else: a Z that is a
\* multiple of curve_p or a P with x = 0 can never yield a point that looks
\* like a product (make_shared_secret returns false on it).
DegenerateIsZero ==
    multPc = "done" /\ p_scalar >= 2 /\ (p_initialZ % curve_p = 0 \/ p_point.x = 0)
        => EccPoint_isZero(multResult)

-----------------------------------------------------------------------------
(* make_shared_secret: each party sends its compressed public key and      *)
(* multiplies the one it gets by its own private key, with a random        *)
(* initial Z.                                                              *)
CONSTANTS Parties, Privates,     \* the parties and their private keys
          RandomZs               \* words getRandomNumber may deliver

VARIABLES key,                   \* the private key of a party
          wire,                  \* its public key, compressed
          secret, made           \* _secret, and what make_shared_secret returned

ecdhVars == <<key, wire, secret, made>>

Peer(p) == CHOOSE q \in Parties : q # p

EcdhInit(privates) ==
    /\ key \in [Parties -> privates]
    /\ wire = [p \in Parties |->
                 ecc_point_compress(EccPoint_mult(curve_G, key[p], 1))]
    /\ secret = [p \in Parties |-> 0]
    /\ made = [p \in Parties |-> "no"]

\* getRandomNumber delivered the word z.  The secret is written also when the
\* product is the zero point and the call returns false.
make_shared_secret(p, z) ==
    /\ made[p] = "no"
    /\ \E S \in {EccPoint_mult(ecc_point_decompress(wire[Peer(p)]), key[p], z)} :
        /\ secret' = [secret EXCEPT ![p] = S.x]
        /\ made' = [made EXCEPT ![p] = IF EccPoint_isZero(S) THEN "false"
                                                            ELSE "true"]
    /\ UNCHANGED <<key, wire>>

NoRandom(p) ==
    /\ made[p] = "no"
    /\ made' = [made EXCEPT ![p] = "false"]
    /\ UNCHANGED <<key, wire, secret>>

EcdhNext == \E p \in Parties : \/ \E z \in RandomZs : make_shared_secret(p, z)
                           \/ NoRandom(p)

-----------------------------------------------------------------------------
\* Two parties whose calls of make_shared_secret (secp256r1.cpp:980) both
\* return true hold the same secret, the x coordinate of the product of their
\* keys, whatever initial Z randomised either multiplication.  A Z that is 0 in
\* the field, or a peer point with x = 0, makes the call return false.
SecretsAgree ==
    \A p \in Parties :
        made[p] = "true" =>
            /\ secret[p] = Multiple(key[p] * key[Peer(p)]).x
            /\ made[Peer(p)] = "true" => secret[Peer(p)] = secret[p]

-----------------------------------------------------------------------------
(***************************************************************************)
(* Signatures: one key is created, one hash is signed with it, and a hash  *)
(* and a signature (those, or others) are verified.  Random words are      *)
(* drawn by the environment, and a draw may fail.                          *)
(***************************************************************************)
CONSTANTS KeyDraws, NonceDraws,  \* words that getRandomNumber may deliver
          Hashes,                \* words that are signed
          Altered,               \* the ways a signature may be altered
          Junk,                  \* content of an uninitialised point
          MAX_TRIES

ASSUME EcdsaAssumption ==
    /\ MAX_TRIES \in Nat \ {0}
    /\ (KeyDraws \cup NonceDraws \cup Hashes) \subseteq 0 .. Word - 1

VARIABLES pc,
          tries,                 \* l_tries of the loop in progress
          l_private, l_public,   \* create_key_pair
          nonce, point,          \* k and p of do_sign
          hash, sig,             \* the signature and what it signs
          signed,                \* history: <<hash, sig>> as do_sign left it
          vs,                    \* the locals of do_verify
          accepted

ecdsaVars == <<pc, tries, l_private, l_public, nonce, point, hash, sig, signed, vs,
          accepted>>

Zero == [x |-> 0, y |-> 0]
NoVerify == [u1 |-> 0, u2 |-> 0, Q |-> Zero, sum |-> Zero, r |-> Zero, z |-> 0,
             i |-> -1, met |-> FALSE]

\* A word brought into range by one subtraction of curve_n.
Reduce(x) == IF curve_n <= x THEN x - curve_n ELSE x

EcdsaInit(hashes, points) ==
    /\ pc = "create" /\ tries = 0
    /\ l_private = 0 /\ l_public \in points
    /\ nonce = 0 /\ point \in points
    /\ hash \in hashes /\ sig = [r |-> 0, s |-> 0]
    /\ signed = <<hash, sig>>
    /\ vs = NoVerify /\ accepted = FALSE

\* getRandomNumber failed, or too many draws: both loops give up alike.
GiveUp ==
    /\ pc \in {"create", "sign"}
    /\ pc' = "failed"
    /\ UNCHANGED <<tries, l_private, l_public, nonce, point, hash, sig, signed,
                   vs, accepted>>

\* The point after a draw of x in either loop: a zero word goes straight to
\* the loop condition, which reads the point whatever it holds; any other is
\* reduced and multiplied.
Drawn(x, old) == IF x = 0 THEN old ELSE EccPoint_mult(curve_G, Reduce(x), 1)

\* An iteration of create_key_pair.  The condition leaves the loop for a
\* nonzero l_public.
CreateDraw(x) ==
    /\ pc = "create" /\ tries < MAX_TRIES
    /\ l_private' = Reduce(x) /\ l_public' = Drawn(x, l_public)
    /\ IF EccPoint_isZero(l_public') THEN pc' = pc /\ tries' = tries + 1
                                     ELSE pc' = "sign" /\ tries' = 0
    /\ UNCHANGED <<nonce, point, hash, sig, signed, vs, accepted>>

\* An iteration of do_sign; when it leaves its loop it completes the
\* signature: s = (e + r * d) / k.
SignDraw(x) ==
    LET r == point'.x
        s == modAdd(hash, (r * l_private) % curve_n, curve_n)
                 * modInv(nonce', InvN)
    IN  /\ pc = "sign" /\ tries < MAX_TRIES
        /\ nonce' = Reduce(x)
        /\ point' = [Drawn(x, point) EXCEPT !.x = IF x = 0 THEN @ ELSE Reduce(@)]
        /\ IF r = 0 THEN /\ tries' = tries + 1
                         /\ UNCHANGED <<pc, sig, signed>>
                    ELSE /\ sig' = [r |-> r, s |-> s % curve_n]
                         /\ signed' = <<hash, sig'>>
                         /\ pc' = "deliver" /\ UNCHANGED tries
        /\ UNCHANGED <<l_private, l_public, hash, vs, accepted>>

\* The verifier gets the signature as it is, or with a word replaced.
Deliver(field, word) ==
    /\ pc = "deliver"
    /\ pc' = "verify"
    /\ hash' = IF field = "hash" THEN word ELSE hash
    /\ sig'  = IF field \in {"r", "s"} THEN [sig EXCEPT ![field] = word] ELSE sig
    /\ UNCHANGED <<tries, l_private, l_public, nonce, point, signed, vs, accepted>>

\* Slip: the last bit of the hash is left out.
UScalarsEven(h, g) ==
    LET w == modInv(g.s, InvN)
    IN  [u1 |-> ((2 * (h \div 2)) * w) % curve_n, u2 |-> (g.r * w) % curve_n]

UScalars(h, g) ==
    LET w == modInv(g.s, InvN)
    IN  [u1 |-> (h * w) % curve_n, u2 |-> (g.r * w) % curve_n]

\* The range checks of do_verify, then u1, u2, G + Q and the first point.
VerifyStart ==
    LET Q  == ecc_point_decompress(ecc_point_compress(l_public))
        ok == sig.r # 0 /\ sig.s # 0 /\ sig.r < curve_n /\ sig.s < curve_n
        u1 == UScalars(hash, sig).u1
        u2 == UScalars(hash, sig).u2
        a  == XYcZ_add(curve_G, Q)
        S  == apply_z(a.Q, modInv(Sub(Q.x, Gx), InvP))
        n  == IF numBits(u1) > numBits(u2) THEN numBits(u1)
                                                   ELSE numBits(u2)
        first == IF testBit(u1, n - 1)
                 THEN IF testBit(u2, n - 1) THEN S ELSE curve_G ELSE Q
    IN  /\ pc = "verify"
        /\ IF ok THEN /\ vs' = [u1 |-> u1, u2 |-> u2, Q |-> Q, sum |-> S,
                                r |-> first, z |-> 1, i |-> n - 2,
                                met |-> FALSE]
                      /\ pc' = "shamir"
                 ELSE pc' = "done" /\ UNCHANGED vs
        /\ UNCHANGED <<tries, l_private, l_public, nonce, point, hash, sig,
                       signed, accepted>>

\* One bit of u1 * G + u2 * Q.  met records (for the properties) that an
\* addition met equal x coordinates, for which the formula is not made.
ShamirStep ==
    LET b1 == testBit(vs.u1, vs.i)
        b2 == testBit(vs.u2, vs.i)
        P  == IF b1 THEN IF b2 THEN vs.sum ELSE curve_G ELSE vs.Q
    IN  /\ pc = "shamir" /\ vs.i >= 0
        /\ \E D \in {EccPoint_double_jacobian(vs.r.x, vs.r.y, vs.z)} :
             LET R  == [x |-> D.x, y |-> D.y]
                 T  == apply_z(P, D.z)
                 tz == Sub(D.x, T.x)
             IN  vs' = IF b1 \/ b2
                       THEN [vs EXCEPT !.r = XYcZ_add(T, R).Q, !.z = Mul(D.z, tz),
                                       !.i = @ - 1, !.met = @ \/ tz = 0]
                       ELSE [vs EXCEPT !.r = R, !.z = D.z, !.i = @ - 1]
        /\ UNCHANGED <<pc, tries, l_private, l_public, nonce, point, hash, sig,
                       signed, accepted>>

VerifyEnd ==
    /\ pc = "shamir" /\ vs.i < 0
    /\ accepted' = (Reduce(apply_z(vs.r, modInv(vs.z, InvP)).x) = sig.r)
    /\ pc' = "done"
    /\ UNCHANGED <<tries, l_private, l_public, nonce, point, hash, sig, signed,
                   vs>>

EcdsaNext ==
    \/ GiveUp
    \/ \E x \in KeyDraws : CreateDraw(x)
    \/ \E x \in NonceDraws : SignDraw(x)
    \/ \E alt \in Altered : Deliver(alt[1], alt[2])
    \/ VerifyStart \/ ShamirStep \/ VerifyEnd

-----------------------------------------------------------------------------
\* The reference: what a verifier must accept, by affine arithmetic.
\* d is the private key, so that u1 * G + u2 * Q is (u1 + u2 * d) * G.
Valid(d, h, g) ==
    /\ g.r \in 1 .. curve_n - 1 /\ g.s \in 1 .. curve_n - 1
    /\ LET w == modInv(g.s, InvN)
           V == Multiple(h * w + g.r * w * d)
       IN  V # None /\ V.x % curve_n = g.r

Created == pc \notin {"create", "failed"}
\* The draws that the loops turn into something else than k * G: a zero word,
\* and the words that reduce to 0 or 1.
Edge(k) == k \in {0, 1}

\* The public key that create_key_pair returns is the private key times G, and
\* never infinity or plus or minus G, so that do_verify can add G to it.
KeyPairMatches ==
    Created /\ ~Edge(l_private) =>
        /\ l_public = Multiple(l_private)
        /\ l_private \in 2 .. curve_n - 2
        /\ ecc_point_decompress(ecc_point_compress(l_public)) = l_public

\* do_verify accepts only what the reference accepts (secp256r1.cpp:1133):
\* no altered hash or signature passes, whatever degenerate additions
\* Shamir's trick met on the way.
AcceptsOnlyValid ==
    pc = "done" /\ accepted /\ ~Edge(l_private) => Valid(l_private, hash, sig)

\* do_verify accepts everything the reference accepts, unless an addition of
\* its loop met equal x coordinates.
AcceptsValid ==
    pc = "done" /\ ~vs.met /\ ~Edge(l_private) /\ Valid(l_private, hash, sig)
        => accepted

\* do_sign returns a signature of the hash it was given: it is valid for the
\* public key even when the hash is not below curve_n, unless s came out 0,
\* which do_sign does not test.
SignsHash ==
    pc = "deliver" /\ ~Edge(l_private) /\ ~Edge(nonce) /\ signed[2].s # 0
        => Valid(l_private, hash, sig)

\* The comment at secp256r1.cpp:957, "Make sure the private key is in the
\* range [1, n-1]".
PrivateKeyInRange == Created => l_private \in 1 .. curve_n - 1
=============================================================================
