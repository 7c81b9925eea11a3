SPECIFICATION Spec
CONSTANTS
    PeerCount = 3
    bcp_timeout_pop = 2
    bcp_timeout_propose = 3
    bcp_timeout_vote = 4
    bcp_block_time = 6
    MaxApart = 0
    FirstSeconds = {6, 7, 8, 9, 10, 11}
    LastSecond = 23
    Orders <- MCOrders
    Leftovers = {0, 1, 4}
INVARIANTS VotedByMajority RewardsPaid
PROPERTIES MonoImplementsLedger MonoProgress
