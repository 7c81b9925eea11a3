------------------------------ MODULE BcpMono ------------------------------
(***************************************************************************)
(* The consensus of tests/dev/bcp_mono: nodes with a state each, polled in *)
(* turn by node_manager::run.  It differs from Bcp in what it counts: the  *)
(* boxes are vectors to which every message is added (_vector.cpp), so a   *)
(* majority is one of messages, and a round needs a majority of new_round  *)
(* messages, not all of them.                                              *)
(*                                                                         *)
(* A message is a nested call of every node's onMessage, so one poll with  *)
(* all it sends is one step.  The clocks advance between polls.            *)
(***************************************************************************)
EXTENDS Integers, Sequences, FiniteSets

CONSTANTS
    PeerCount,              \* node_manager::get_peer_count()
    bcp_timeout_pop, bcp_timeout_propose, bcp_timeout_vote, bcp_block_time,
    MaxApart,               \* bound: how far two nodes' clocks are apart
    FirstSeconds,           \* clock readings to start from
    LastSecond,             \* bound: the last clock reading
    Orders,                 \* orders of the block hashes, per value of timely
    Leftovers               \* what _current_round_time may hold uninitialised

ASSUME PeersAssumption ==
    /\ PeerCount \in Nat \ {0}
    /\ {bcp_timeout_pop, bcp_timeout_propose, bcp_timeout_vote, bcp_block_time} \subseteq Nat
    /\ FirstSeconds \subseteq Nat
    /\ 1 < bcp_timeout_pop /\ bcp_timeout_pop < bcp_timeout_propose
    /\ bcp_timeout_propose < bcp_timeout_vote /\ bcp_timeout_vote < bcp_block_time
    /\ \A s \in FirstSeconds : bcp_block_time <= s /\ s <= LastSecond
    /\ MaxApart \in Nat

Nodes == 1 .. PeerCount
NoHash == <<>>

VARIABLES
    timely,                 \* whether polls keep up with clocks that agree
    order,                  \* the order of the hashes
    second,                 \* _ntp_timer.timestamp() of each node
    sweep,                  \* the node that run() polls next
    nodeState,              \* _node_state
    roundTime,              \* _current_round_time
    messageSent,            \* _new_round_message_sent
    receivedNewRound,       \* _received_new_round
    newBlock,               \* _new_block, empty before the first one
    userHeader,             \* _user_block_header: the node's own, if any
    proposeHeader,          \* _propose_header, of which the lowest is used
    voteHeader,             \* _vote_header
    commits,                \* _commit
    blocks,                 \* _block_chain._blocks, from index to block
    balances,               \* _block_chain._balances
    cast                    \* history: who voted for which header

timeVars  == <<timely, order, second>>
roundVars == <<roundTime, messageSent, receivedNewRound>>
ownVars   == <<newBlock, userHeader>>
boxVars   == <<proposeHeader, voteHeader, commits>>
chainVars == <<blocks, balances>>
vars      == <<timeVars, sweep, nodeState, roundVars, ownVars, boxVars, chainVars, cast>>

-----------------------------------------------------------------------------
(* _vector                                                                 *)
Occurrences(box, v) == Cardinality({k \in DOMAIN box : box[k] = v})

\* Slip: half of the messages, rounded down, will do.
ReachesHalf(box, k) == Occurrences(box, box[k]) >= PeerCount \div 2

Exceeds(box, k) == Occurrences(box, box[k]) > PeerCount \div 2

\* get_value_if_count_exceeds: the first such value, in a set; empty if none.
Majority(box) ==
    {box[k] : k \in {k \in DOMAIN box :
                        Exceeds(box, k) /\ \A j \in 1 .. k - 1 : ~Exceeds(box, j)}}

HashOf(b) == <<b.owner, b.round>>
low_value(S) == {h \in S : \A g \in S : order[HashOf(h)] <= order[HashOf(g)]}

-----------------------------------------------------------------------------
Round(n) == second[n] \div bcp_block_time
StepTime(n) == second[n] % bcp_block_time
Size(n) == Cardinality(DOMAIN blocks[n])

(* block_chain of bcp_mono.  A reward is a transfer of the owner to itself, *)
(* which takes nothing from it (create_block_for, build_balance_for).      *)
block_reward == 100

\* Slip: the reward is taken from the owner first, if the balance allows it.
BuildBalanceTaking(balance, b) == balance

build_balance_for(balance, b) == [balance EXCEPT ![b.owner] = @ + block_reward]

append_block(n, b) ==
    IF b.index \in DOMAIN blocks[n] THEN UNCHANGED chainVars
    ELSE /\ blocks' = [blocks EXCEPT ![n] = [j \in DOMAIN @ \cup {b.index} |->
                                                IF j = b.index THEN b ELSE @[j]]]
         /\ balances' = [balances EXCEPT ![n] = build_balance_for(@, b)]

\* Slip: the second block is taken for the first.
create_unlinked(n, index) ==
    IF index > 2 /\ index - 1 \notin DOMAIN blocks[n] THEN {}
    ELSE {[index |-> index, owner |-> n, round |-> Round(n),
           prev |-> IF index > 2 THEN HashOf(blocks[n][index - 1]) ELSE NoHash]}

\* create_block_for, in a set; empty if the predecessor is missing.
create_block_for(n, index) ==
    IF index > 1 /\ index - 1 \notin DOMAIN blocks[n] THEN {}
    ELSE {[index |-> index, owner |-> n, round |-> Round(n),
           prev |-> IF index > 1 THEN HashOf(blocks[n][index - 1]) ELSE NoHash]}

-----------------------------------------------------------------------------
(* The begin functions of the states, with what they send.                 *)

on_state_waiting_begin(n) ==
    /\ receivedNewRound' = [receivedNewRound EXCEPT ![n] = <<>>]
    /\ userHeader' = [userHeader EXCEPT ![n] = {}]
    /\ proposeHeader' = [proposeHeader EXCEPT ![n] = {}]
    /\ voteHeader' = [voteHeader EXCEPT ![n] = <<>>]
    /\ commits' = [commits EXCEPT ![n] = <<>>]

\* When the block cannot be made the node goes on without one: the call of
\* _node_manager.stop() there is that of the getter.
on_state_new_round_begin(n, index) ==
    LET made == create_block_for(n, index)
    IN  IF made = {} THEN UNCHANGED ownVars
        ELSE \E b \in made : /\ newBlock' = [newBlock EXCEPT ![n] = {b}]
                             /\ userHeader' = [userHeader EXCEPT ![n] = @ \cup {b}]

on_state_propose_begin(n) ==
    proposeHeader' = [m \in Nodes |-> proposeHeader[m] \cup low_value(userHeader[n])]

on_state_vote_begin(n) ==
    IF proposeHeader[n] = {} THEN UNCHANGED <<voteHeader, cast>>
    ELSE \E h \in low_value(proposeHeader[n]) :
            /\ voteHeader' = [m \in Nodes |-> Append(voteHeader[m], h)]
            /\ cast' = cast \cup {<<n, h>>}

(* The request reaches the node whose _new_block it is, which answers with *)
(* the block, upon which the requester sends its commit to everybody: all  *)
(* inside the call of sendall.                                             *)
on_state_commit_begin(n, h) ==
    commits' = IF \E m \in Nodes : h \in newBlock[m]
               THEN [m \in Nodes |-> Append(commits[m], h)]
               ELSE commits

-----------------------------------------------------------------------------
(* The main functions of the states.                                       *)
Polled(n) ==
    /\ sweep = n /\ sweep' = (n % PeerCount) + 1
    /\ UNCHANGED timeVars

SetState(n, s) == nodeState' = [nodeState EXCEPT ![n] = s]

\* What follows set_state( node_state_waiting ) there changes nothing else.
on_state_sync_main(n) ==
    /\ Polled(n) /\ nodeState[n] = "sync"
    /\ SetState(n, "waiting") /\ on_state_waiting_begin(n)
    /\ UNCHANGED <<roundTime, messageSent, newBlock, chainVars, cast>>

SendsNewRound(n) ==
    /\ roundTime[n] < Round(n) \/ ~messageSent[n]
    /\ StepTime(n) < bcp_timeout_pop

request_new_round(n) ==
    /\ roundTime' = [roundTime EXCEPT ![n] = IF @ < Round(n) THEN Round(n) ELSE @]
    /\ messageSent' = [messageSent EXCEPT ![n] =
                          SendsNewRound(n) \/ (@ /\ roundTime[n] >= Round(n))]

\* What the boxes hold after request_new_round.
Received(n) ==
    IF SendsNewRound(n)
    THEN [m \in Nodes |-> Append(receivedNewRound[m], Size(n) + 1)]
    ELSE receivedNewRound

Joins(n, index) == index = Size(n) + 1

on_state_waiting_main(n) ==
    /\ Polled(n) /\ nodeState[n] = "waiting"
    /\ request_new_round(n)
    /\ receivedNewRound' = Received(n)
    /\ LET begun == Majority(Received(n)[n])
       IN  \/ \E index \in begun :
                 /\ Joins(n, index)
                 /\ SetState(n, "new_round") /\ on_state_new_round_begin(n, index)
           \/ \E index \in begun :
                 /\ ~Joins(n, index) /\ Size(n) + 1 < index
                 /\ SetState(n, "sync") /\ UNCHANGED ownVars
           \/ /\ \A index \in begun : ~Joins(n, index) /\ Size(n) + 1 > index
              /\ UNCHANGED <<nodeState, ownVars>>
    /\ UNCHANGED <<boxVars, chainVars, cast>>

Proceeds(n) ==
    \/ nodeState[n] = "new_round" /\ StepTime(n) > bcp_timeout_pop
    \/ nodeState[n] = "propose" /\ StepTime(n) > bcp_timeout_propose

on_state_new_round_main(n) ==
    /\ Polled(n) /\ nodeState[n] = "new_round" /\ Proceeds(n)
    /\ SetState(n, "propose") /\ on_state_propose_begin(n)
    /\ UNCHANGED <<roundVars, ownVars, voteHeader, commits, chainVars, cast>>

on_state_propose_main(n) ==
    /\ Polled(n) /\ nodeState[n] = "propose" /\ Proceeds(n)
    /\ SetState(n, "vote") /\ on_state_vote_begin(n)
    /\ UNCHANGED <<roundVars, ownVars, proposeHeader, commits, chainVars>>

\* Slip: the vote is given up at the time at which it begins.
TimesOutEarly(n) ==
    \/ nodeState[n] = "vote" /\ StepTime(n) > bcp_timeout_propose
    \/ nodeState[n] = "commit" /\ StepTime(n) <= 1

TimesOut(n) ==
    \/ nodeState[n] = "vote" /\ StepTime(n) > bcp_timeout_vote
    \/ nodeState[n] = "commit" /\ StepTime(n) <= 1

\* The consensus failed in on_state_vote_main or in on_state_commit_main.
ConsensusFailed(n) ==
    /\ Polled(n) /\ TimesOut(n)
    /\ SetState(n, "waiting") /\ on_state_waiting_begin(n)
    /\ UNCHANGED <<roundTime, messageSent, newBlock, chainVars, cast>>

on_state_vote_main(n) ==
    /\ Polled(n) /\ nodeState[n] = "vote" /\ ~TimesOut(n)
    /\ \E h \in Majority(voteHeader[n]) :
          SetState(n, "commit") /\ on_state_commit_begin(n, h)
    /\ UNCHANGED <<roundVars, ownVars, proposeHeader, voteHeader, chainVars, cast>>

on_state_commit_main(n) ==
    /\ Polled(n) /\ nodeState[n] = "commit" /\ ~TimesOut(n)
    /\ \E b \in Majority(commits[n]) : append_block(n, b)
    /\ SetState(n, "waiting") /\ on_state_waiting_begin(n)
    /\ UNCHANGED <<roundTime, messageSent, newBlock, cast>>

\* No branch of the main function of the node's state is taken.
Undecided(n) ==
    /\ Polled(n) /\ nodeState[n] \notin {"sync", "waiting"}
    /\ ~Proceeds(n) /\ ~TimesOut(n)
    /\ nodeState[n] = "vote" => Majority(voteHeader[n]) = {}
    /\ nodeState[n] = "commit" => Majority(commits[n]) = {}
    /\ UNCHANGED <<nodeState, roundVars, ownVars, boxVars, chainVars, cast>>

onMain(n) ==
    \/ on_state_sync_main(n) \/ on_state_waiting_main(n) \/ on_state_new_round_main(n)
    \/ on_state_propose_main(n) \/ on_state_vote_main(n) \/ on_state_commit_main(n)
    \/ ConsensusFailed(n) \/ Undecided(n)

Poll == \E n \in Nodes : onMain(n)

\* A poll of n would do more than move the sweep on.
Occupied(n) ==
    \/ nodeState[n] = "sync" \/ Proceeds(n) \/ TimesOut(n)
    \/ /\ nodeState[n] = "waiting"
       /\ \/ SendsNewRound(n) \/ roundTime[n] < Round(n)
          \/ \E index \in Majority(receivedNewRound[n]) : index > Size(n)
    \/ nodeState[n] = "vote" /\ Majority(voteHeader[n]) # {}
    \/ nodeState[n] = "commit" /\ Majority(commits[n]) # {}

(* A second begins on some clocks; in a timely behaviour on all, and only  *)
(* when the polls, one every 10 ms, have done their work.                  *)
Tick ==
    /\ timely => \A n \in Nodes : ~Occupied(n)
    /\ \E S \in (SUBSET Nodes) \ {{}} :
          second' = [n \in Nodes |-> second[n] + IF n \in S THEN 1 ELSE 0]
    /\ \A m, n \in Nodes : second'[m] - second'[n] <= IF timely THEN 0 ELSE MaxApart
    /\ \A n \in Nodes : second'[n] <= LastSecond
    /\ UNCHANGED <<timely, order, sweep, nodeState, roundVars, ownVars, boxVars, chainVars, cast>>

Next == Poll \/ Tick

(* Timely or not.  No constructor initialises _current_round_time and      *)
(* _new_round_message_sent, so a timely behaviour begins with any values.  *)
(* start() leaves the nodes in state sync.                                 *)
Init ==
    /\ timely \in BOOLEAN /\ order \in Orders[timely]
    /\ \/ /\ timely
          /\ \E s \in FirstSeconds : second = [n \in Nodes |-> s]
          /\ roundTime \in [Nodes -> Leftovers] /\ messageSent \in [Nodes -> BOOLEAN]
       \/ /\ ~timely /\ second = [n \in Nodes |-> bcp_block_time]
          /\ roundTime = [n \in Nodes |-> 0] /\ messageSent = [n \in Nodes |-> FALSE]
    /\ sweep = 1 /\ nodeState = [n \in Nodes |-> "sync"]
    /\ receivedNewRound = [n \in Nodes |-> <<>>]
    /\ newBlock = [n \in Nodes |-> {}] /\ userHeader = newBlock /\ proposeHeader = newBlock
    /\ voteHeader = receivedNewRound /\ commits = receivedNewRound /\ blocks = receivedNewRound
    /\ balances = [n \in Nodes |-> [m \in Nodes |-> 0]]
    /\ cast = {}

(* run() polls for ever, and time goes on.                                 *)
Spec == Init /\ [][Next]_vars /\ WF_vars(Poll) /\ WF_vars(Tick)

-----------------------------------------------------------------------------
(* Whatever is in a chain was voted for by a majority of the nodes, though *)
(* get_value_if_count_exceeds counts messages and not who sent them, and   *)
(* whatever rounds the messages in a box come from.                        *)
VotedByMajority ==
    \A n \in Nodes : \A j \in DOMAIN blocks[n] :
       2 * Cardinality({m \in Nodes : <<m, blocks[n][j]>> \in cast}) > PeerCount

(* The balances are the rewards of the blocks in the chain.                *)
RewardsPaid ==
    \A m, n \in Nodes :
       balances[n][m] = block_reward * Cardinality({j \in DOMAIN blocks[n] : blocks[n][j].owner = m})

(* In a timely behaviour the nodes keep one agreed chain, of which each    *)
(* block names the hash of the one before: what slower nodes send after a  *)
(* node has gone on to wait does not count in the next round.              *)
Foremost == CHOOSE n \in Nodes : \A m \in Nodes : Size(m) <= Size(n)

L == INSTANCE Ledger WITH
    None <- NoHash,
    decided <- IF timely THEN blocks[Foremost] ELSE <<>>,
    log <- IF timely THEN blocks ELSE [n \in Nodes |-> <<>>]

MonoImplementsLedger == L!LedgerSpec

(* In a timely behaviour every node gets a block in every whole time       *)
(* context, whatever _current_round_time and _new_round_message_sent were  *)
(* at first, as long as these silence no majority of the nodes.            *)
Silenced(n) == roundTime[n] > LastSecond \div bcp_block_time
MajorityHeard ==
    \E S \in SUBSET Nodes : 2 * Cardinality(S) > PeerCount /\ \A n \in S : ~Silenced(n)
WholeContexts == (LastSecond + 1) \div bcp_block_time - 2
AllExtended == \A n \in Nodes : Size(n) >= WholeContexts

MonoProgress == (timely /\ MajorityHeard) ~> AllExtended

-----------------------------------------------------------------------------
(* Three orders of the hashes for TLC; with delays the one in which a      *)
(* header left from an earlier round is the lowest.                        *)
Makers == Nodes \X (0 .. LastSecond \div bcp_block_time)

Ascending == [x \in Makers |-> x[2] * PeerCount + x[1]]
Descending == [x \in Makers |-> 0 - x[2] * PeerCount - x[1]]
ByOwner == [x \in Makers |-> x[2] - x[1] * LastSecond]

MCOrders ==
    [t \in BOOLEAN |-> IF t THEN {Ascending, Descending, ByOwner} ELSE {Ascending}]
=============================================================================
