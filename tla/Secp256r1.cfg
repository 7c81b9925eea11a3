\* Digits of 2 bits: the field of 199, a curve of order 179 whose 57 * G has x = 0.
\* Hashes below, at and above the order; 199 is an initial Z that is 0 in the field.
CONSTANTS
    Parts = {"vli", "inv", "mult", "ecdh", "ecdsa"}
    W = 1
    H = 2
    WordSize = 256
    Right <- RightOperands
    Orders = {179}
    Inputs <- AllInputs
    Moduli = {179, 199, 251, 255, 129, 7}
    curve_b = 40
    curve_n = 179
    Gx = 3
    Gy = 43
    Multipliers = {1, 2, 57}
    Scalars <- AllScalars
    InitialZs = {1, 7, 199}
    Parties = {a1, b1}
    Privates <- KeysInRange
    RandomZs = {0, 1, 50, 199, 255}
    KeyDraws <- Keys
    NonceDraws <- Nonces
    Hashes = {0, 7, 178, 179, 255}
    Altered <- Alterations
    Junk <- JunkPoint
    MAX_TRIES = 2
SPECIFICATION Spec
INVARIANTS DigitsExact InversionExact PointsExact SignaturesSound
PROPERTY Terminates
CHECK_DEADLOCK FALSE
