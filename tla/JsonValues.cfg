SPECIFICATION Spec
CONSTANTS
    Chars = {"~", "/", "0", "1"}
    MaxText = 6
    IntBits = 4
    Mantissa = 2
    Inputs <- MCInputs
    Tokens <- MCTokens
    MaxTokens = 2
    AccessDocuments <- MCAccessDocuments
    Values <- MCValues
    MaxAccesses = 2
    PatchDocuments <- MCPatchDocuments
    Patches <- MCPatches
    Merges <- MCMerges
    MaxMembers = 2
    Names = {"j", "k"}
    p = p
    q = q
    Slots = {p, q}
    MaxKey = 2
    MaxElement = 5
    Start <- MCStart
SYMMETRY SlotsSymmetry
INVARIANTS OrderSound PatchesMeetRfc IteratorsSound
 
CHECK_DEADLOCK FALSE
