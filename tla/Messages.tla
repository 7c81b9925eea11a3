------------------------------ MODULE Messages ------------------------------
(***************************************************************************)
(* The packets of bryllite-core/message.inl: C++ objects that are sent as  *)
(* they lie in memory.  The header is packed to one byte, the classes that *)
(* extend it are not, so their members are aligned.  A member is here a    *)
(* pair of its size and its alignment; the sizes are those of a 64-bit     *)
(* build.                                                                  *)
(***************************************************************************)
EXTENDS Integers, Sequences

CONSTANTS
    MaxBlockSize,           \* CBlock::max_block_size
    MaxTransactionsSize     \* CTransactions::max_transactions_size

\* At most what block.hpp and transaction.hpp have.
ASSUME SizesAssumption ==
    /\ MaxBlockSize \in Nat /\ MaxBlockSize <= 62 * 1024
    /\ MaxTransactionsSize \in Nat /\ MaxTransactionsSize <= 60 * 1024

max_message_length == 64 * 1024

(* enum message_id: each range counts up from its first enumerator.        *)
common_start == 100
node_start == 1000
node_user_start == node_start + 100
common_ids ==
    <<"ping", "pong", "header_sign_req", "header_sign_ack",
      "balance_req", "balance_ack", "transactions_notify">>
node_system_ids == <<"peer_id", "time_req", "time_ack">>
node_user_ids ==
    <<"block_req", "block_notify", "new_round", "propose", "vote", "commit",
      "verify_block">>

NamesOf(ids) == {ids[k] : k \in DOMAIN ids}
Names == NamesOf(common_ids) \cup NamesOf(node_system_ids) \cup NamesOf(node_user_ids)

Position(ids, name) == CHOOSE k \in DOMAIN ids : ids[k] = name

\* Slip: the messages between nodes are numbered from the start of their range.
IdsFromNodeStart(name) ==
    CASE name \in NamesOf(common_ids)      -> common_start + Position(common_ids, name)
      [] name \in NamesOf(node_system_ids) -> node_start + 1 + Position(node_system_ids, name)
      [] name \in NamesOf(node_user_ids)   -> node_start + Position(node_user_ids, name)

message_id(name) ==
    CASE name \in NamesOf(common_ids)      -> common_start + Position(common_ids, name)
      [] name \in NamesOf(node_system_ids) -> node_start + 1 + Position(node_system_ids, name)
      [] name \in NamesOf(node_user_ids)   -> node_user_start + Position(node_user_ids, name)

-----------------------------------------------------------------------------

Word == <<8, 8>>        \* size_t, time_t, uint64_t
Word32 == <<4, 4>>         \* int, NodeID, BlockIdx
Bytes(n) == <<n, 1>>    \* char[n], byte[n]
Secret == Bytes(33 + 64)
String == <<32, 8>>     \* std::string: a pointer and a small buffer

RoundUp(n, a) == ((n + a - 1) \div a) * a

(* Where the first k members end, in a class whose base takes base bytes.  *)
Ends(base, members) ==
    LET end[k \in 0 .. Len(members)] ==
            IF k = 0 THEN base ELSE RoundUp(end[k - 1], members[k][2]) + members[k][1]
    IN  end

(* The alignment of a class is the widest one of its members.              *)
Widest(members, a) ==
    /\ \A k \in DOMAIN members : members[k][2] <= a
    /\ a = 1 \/ \E k \in DOMAIN members : members[k][2] = a

Layout(base, members) ==
    RoundUp(Ends(base, members)[Len(members)], CHOOSE a \in {1, 4, 8} : Widest(members, a))

header_size == 4 + 8 + 2    \* packed: signature, size, id

BlockHeader == <<Layout(0, <<Word32, Word32, Word, Bytes(32), Bytes(32), Word, Secret, Secret>>), 8>>
Peer == <<Layout(0, <<Word32, String, <<2, 2>>>>), 8>>

CommonMembers(name) ==
    CASE name \in {"ping", "pong", "time_req"} -> <<Word>>
      [] name = "time_ack"                     -> <<Word, Word>>
      [] name \in {"header_sign_req", "header_sign_ack"} -> <<BlockHeader, Secret, Secret>>
      [] name = "balance_req"                  -> <<Bytes(36)>>
      [] name = "balance_ack"                  -> <<Bytes(36), Word>>

BlockMembers(name) ==
    CASE name = "transactions_notify"        -> <<Word, Bytes(MaxTransactionsSize + 1)>>
      [] name = "peer_id"                    -> <<Peer, Secret, Word32>>
      [] name \in {"block_req", "new_round"} -> <<Word32>>
      [] name = "block_notify"               -> <<Word32, Bytes(MaxBlockSize + 1)>>
      [] name \in {"propose", "vote"}        -> <<BlockHeader>>
      [] name = "commit"                     -> <<Bytes(MaxBlockSize + 1), Secret>>
      [] name = "verify_block"               -> <<Bytes(MaxBlockSize + 1)>>

Members(name) ==
    IF name \in {"transactions_notify", "peer_id"} \cup NamesOf(node_user_ids)
    THEN BlockMembers(name) ELSE CommonMembers(name)

(* _ctor: the header of a new message.                                     *)
ctor(name) == [signature |-> "BRC", size |-> Layout(header_size, Members(name)),
               msgid |-> message_id(name)]

valid_header(h) ==
    /\ h.signature = "BRC"
    /\ h.size >= header_size /\ h.size <= max_message_length

payload_size(h) == IF h.size > header_size THEN h.size - header_size ELSE 0

-----------------------------------------------------------------------------
(* copy_string into a zeroed array, and reading it back as a C string: up  *)
(* to the first NUL, or past the array when it holds none.                 *)

NUL == "nul"
PastEnd == "past_end"

copy_string(length, source) ==
    [k \in 1 .. length |-> IF k <= Len(source) THEN source[k] ELSE NUL]

c_string(array) ==
    IF \E k \in DOMAIN array : array[k] = NUL
    THEN SubSeq(array, 1, (CHOOSE k \in DOMAIN array :
                              array[k] = NUL /\ \A j \in 1 .. k - 1 : array[j] # NUL) - 1)
    ELSE PastEnd
=============================================================================
