SPECIFICATION Spec
CONSTANTS
    Apps = {"node", "game", "bridge"}
    MaxUpdates = 2
    MaxClients = 3
    MaxPending = 2
    MaxCells = 4
    Payloads = {"p", "q"}
    MaxSends = 2
    MaxReceives = 2
    MaxBlockSize = 63488
    MaxTransactionsSize = 61440
    ArrayLengths = {1, 3, 4}
    MaxText = 5
INVARIANTS OrderlyPrograms PacketsReadable FaithfulClient
PROPERTIES ProgramsEnd
CHECK_DEADLOCK FALSE
