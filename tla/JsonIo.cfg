SPECIFICATION Spec
CONSTANTS
    Bytes <- MCBytes
    Openers <- MCOpeners
    MaxInput <- MCMaxInput
    MaxBuffer <- MCMaxBuffer
    Digits = {0, 1, 9}
    NonDigits = {"-", "+", ".", "e", "x", "eof"}
    MaxNumber = 8
    DecimalPoint = ","
    UllMax = 199
    UnsignedSize = 20
    Fragments <- MCFragments
    MaxFragments = 3
    Keys = {"a", "b"}
    Policies <- MCPolicies
    MaxTokens = 7
    Values <- MCValues
    Seeds <- MCSeeds
    FedBytes <- MCFedBytes
INVARIANTS  ParsesGrammar 
PROPERTY StringsExact
CHECK_DEADLOCK FALSE
