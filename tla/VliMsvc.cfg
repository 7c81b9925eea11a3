\* The build without a 128 bit integer.
CONSTANTS
    Parts = {"vli"}
    W = 1
    H = 2
    WordSize = 256
    Right = {255}
    Orders = {179}
    Inputs = {0}
    Moduli = {7}
    curve_b = 40
    curve_n = 179
    Gx = 3
    Gy = 43
    Multipliers = {1}
    Scalars = {2}
    InitialZs = {1}
    Parties = {a1, b1}
    Privates = {2}
    RandomZs = {1}
    KeyDraws = {3}
    NonceDraws = {2}
    Hashes = {0}
    Altered <- Alterations
    Junk <- JunkPoint
    MAX_TRIES = 1
SPECIFICATION Spec
INVARIANT Product64Exact
CHECK_DEADLOCK FALSE
