\* The keys that create_key_pair may return.
CONSTANTS
    Parts = {"ecdsa"}
    W = 1
    H = 2
    WordSize = 256
    Right = {0}
    Orders = {179}
    Inputs = {0}
    Moduli = {7}
    curve_b = 40
    curve_n = 179
    Gx = 3
    Gy = 43
    Multipliers = {1}
    Scalars = {2}
    InitialZs = {1}
    Parties = {a1, b1}
    Privates = {2}
    RandomZs = {1}
    KeyDraws = {3, 179}
    NonceDraws <- Nonces
    Hashes = {0, 7, 178, 179, 255}
    Altered <- Alterations
    Junk <- JunkPoint
    MAX_TRIES = 2
SPECIFICATION Spec
INVARIANT PrivateKeyInRange
CHECK_DEADLOCK FALSE
