-------------------------------- MODULE Bcp --------------------------------
(***************************************************************************)
(* The consensus of tests/dev/node-server-mono: N node servers, each with   *)
(* its own bcp_server state machine, driven by the single thread of         *)
(* node_manager::main, which polls the nodes in id order for ever.          *)
(*                                                                         *)
(* A message is a nested call (node_manager::sendall calls onPeerMessage of *)
(* every node, the sender included), so one bcp_server::process of one node *)
(* with everything it broadcasts is one atomic step here.  What interleaves *)
(* freely is time: each node reads its own NTP-synchronised clock, and a    *)
(* clock may advance between any two polls.                                 *)
(***************************************************************************)
EXTENDS Integers, FiniteSets

CONSTANTS
    N,             \* number of nodes (main.cpp starts 5)
    TPop,          \* bcp_timeout_proof_of_participation
    TPropose,      \* bcp_timeout_propose
    TVote,         \* bcp_timeout_vote
    BlockTime,     \* bcp_block_time = bcp_timeout_commit
    MaxSkew,       \* bound: how far two nodes' clocks are ever apart
    MaxClock,      \* bound: the last clock reading that is explored
    StartClocks,   \* clock readings the nodes may start from
    StartSteps,    \* steps a node may start in: "null" if its NTP sync failed
    HashOrders,    \* orders that block hashes may turn out to have
    None           \* an absent map entry, block or hash

Nodes == 0 .. N - 1

ASSUME NAssumption == N \in Nat \ {0}

ASSUME TimeAssumption ==
    /\ TPop \in Nat /\ TPropose \in Nat /\ TVote \in Nat /\ BlockTime \in Nat
    /\ 0 < TPop /\ TPop < TPropose /\ TPropose < TVote /\ TVote < BlockTime
    /\ MaxSkew \in Nat /\ MaxClock \in Nat

ASSUME StartAssumption ==
    /\ StartClocks \subseteq {t \in Nat : t >= BlockTime}
    /\ StartSteps \subseteq {"null", "waiting"}

Hash == Nodes \X Nat
Header == [idx : Nat, owner : Nodes, ctx : Nat, prev : Hash \cup {None}]

ASSUME NoneAssumption == None \notin Nat /\ None \notin Header

VARIABLES
    clock,          \* _ntp_timer.timestamp() of each node
    turn,           \* the node node_manager::main polls next
    stop,           \* node_manager::_stop
    rank,           \* the order of the block hashes, fixed in a behaviour
    step,           \* _current_step
    timeContext,    \* _time_context
    newRound,       \* _new_round_messages
    newRoundVotes,  \* _new_round_votes
    userHeader,     \* _user_block_headers: only ever holds the node's own
    candidate,      \* _candidate_block
    proposed,       \* _proposed_block_headers
    myVote,         \* _my_vote_header
    voteBox,        \* _vote_box
    voteCounts,     \* _vote_counts
    verified,       \* _verified_blocks
    commitBlock,    \* _commit_block
    chain           \* _block_chain._mapBlocks

roundVars == <<newRound, newRoundVotes>>
voteVars  == <<voteBox, voteCounts>>
blockVars == <<userHeader, candidate, proposed>>
vars == <<clock, turn, stop, rank, step, timeContext, roundVars, blockVars,
          myVote, voteVars, verified, commitBlock, chain>>

-----------------------------------------------------------------------------
(* Tallies: std::map from peer to entry (None where absent) in which the    *)
(* first entry of a peer stays, and std::map from entry to its count.       *)

NoEntries == [p \in Nodes |-> None]
EmptyMap == [v \in {} |-> 0]

(* Slip: a later entry of a peer replaces its first.                        *)
AddLatest(box, p, v) == [box EXCEPT ![p] = v]

AddOnce(box, p, v) == IF box[p] = None THEN [box EXCEPT ![p] = v] ELSE box

Bump(counts, v) ==
    [w \in DOMAIN counts \cup {v} |->
        IF w \notin DOMAIN counts THEN 1
        ELSE IF w = v THEN counts[w] + 1 ELSE counts[w]]

CountOnce(box, counts, p, v) ==
    IF box[p] = None THEN Bump(counts, v) ELSE counts

Entries(box) == {p \in Nodes : box[p] # None}
Voters(box, v) == {p \in Nodes : box[p] = v}

(* Slip: half of the peers are taken for a majority.                        *)
HalfOfPeers == N \div 2

Majority == N \div 2 + 1

-----------------------------------------------------------------------------
(* The block chain of a node: std::map from block index to block.           *)

Height(n) == Cardinality(DOMAIN chain[n])

HashOf(h) == <<h.owner, h.ctx>>

BlockHash(n, i) == IF i \in DOMAIN chain[n] THEN HashOf(chain[n][i]) ELSE None

AppendBlock(blocks, b) ==
    IF b.idx \in DOMAIN blocks THEN blocks
    ELSE [i \in DOMAIN blocks \cup {b.idx} |->
             IF i \in DOMAIN blocks THEN blocks[i] ELSE b]

(* select_proposed_block_header keeps the lowest hash of those it iterates. *)
Lowest(h, S) == h \in S /\ \A g \in S : rank[HashOf(h)] <= rank[HashOf(g)]

-----------------------------------------------------------------------------
TimeContext(n) == clock[n] \div BlockTime
TimeLine(n) == clock[n] % BlockTime

(* get_elected_block_header: the header with a majority in _vote_counts; the *)
(* set has at most one member (AtMostOneElected).                           *)
Elected(n) == {h \in DOMAIN voteCounts[n] : voteCounts[n][h] >= Majority}

(* The early returns and branch conditions of bcp_server::process.          *)
RoundReady(n) ==
    /\ step[n] = "waiting"
    /\ TimeLine(n) < TPop
    /\ TimeContext(n) > timeContext[n]

(* Slip: a round starts on a majority of new_round messages.                *)
RoundStartsByMajority(n, r) ==
    /\ step[n] = "waiting"
    /\ TimeLine(n) < TPop
    /\ TimeContext(n) <= timeContext[n]
    /\ r \in DOMAIN newRoundVotes[n]
    /\ newRoundVotes[n][r] >= Majority
    /\ r > 0

RoundStarts(n, r) ==
    /\ step[n] = "waiting"
    /\ TimeLine(n) < TPop
    /\ TimeContext(n) <= timeContext[n]
    /\ r \in DOMAIN newRoundVotes[n]
    /\ newRoundVotes[n][r] >= N
    /\ r > 0

ProposeStarts(n) == step[n] = "pop" /\ TimeLine(n) > TPop
VoteStarts(n) == step[n] = "propose" /\ TimeLine(n) > TPropose
VoteTimesOut(n) == step[n] = "vote" /\ TimeLine(n) > TVote

CommitStarts(n, h) ==
    step[n] = "vote" /\ TimeLine(n) <= TVote /\ h \in Elected(n)

CommitTimesOut(n) == step[n] = "commit" /\ TimeLine(n) < TPop

Commits(n) ==
    /\ step[n] = "commit"
    /\ TimeLine(n) >= TPop
    /\ Cardinality(Entries(verified[n])) >= Majority

(* process() has something to do: one of its branches is taken.             *)
Busy(n) ==
    \/ RoundReady(n)
    \/ \E r \in DOMAIN newRoundVotes[n] : RoundStarts(n, r)
    \/ ProposeStarts(n) \/ VoteStarts(n) \/ VoteTimesOut(n)
    \/ \E h \in Elected(n) : CommitStarts(n, h)
    \/ CommitTimesOut(n) \/ Commits(n)

-----------------------------------------------------------------------------
(* bcp_server's constructor and start(), for every node that                *)
(* node_manager::start creates: start_server's result is ignored, so a node *)
(* whose NTP sync failed stays in step null and is still a peer.            *)
Init ==
    /\ clock \in [Nodes -> StartClocks]
    /\ \A m, n \in Nodes : clock[m] - clock[n] <= MaxSkew
    /\ turn = 0
    /\ stop = FALSE
    /\ rank \in HashOrders
    /\ step \in [Nodes -> StartSteps]
    /\ timeContext = [n \in Nodes |-> 0]
    /\ newRound = [n \in Nodes |-> NoEntries]
    /\ newRoundVotes = [n \in Nodes |-> EmptyMap]
    /\ userHeader = [n \in Nodes |-> None]
    /\ candidate = [n \in Nodes |-> None]
    /\ proposed = [n \in Nodes |-> NoEntries]
    /\ myVote = [n \in Nodes |-> None]
    /\ voteBox = [n \in Nodes |-> NoEntries]
    /\ voteCounts = [n \in Nodes |-> EmptyMap]
    /\ verified = [n \in Nodes |-> NoEntries]
    /\ commitBlock = [n \in Nodes |-> None]
    /\ chain = [n \in Nodes |-> EmptyMap]

(* Slip: the sweep does not begin again at the first node.                  *)
PolledOnce(n) ==
    /\ turn = n
    /\ n = 0 => ~stop
    /\ turn' = n + 1
    /\ UNCHANGED <<clock, stop, rank>>

(* node_manager::main reaches node n: _stop is read before each sweep only. *)
Polled(n) ==
    /\ turn = n
    /\ n = 0 => ~stop
    /\ turn' = IF n = N - 1 THEN 0 ELSE n + 1
    /\ UNCHANGED <<clock, stop, rank>>

(* Slips: clear_intermediate_data forgets _vote_counts, the commits filed,   *)
(* or the new-round messages.                                               *)
ClearKeepsCounts(n) ==
    /\ newRound' = [newRound EXCEPT ![n] = NoEntries]
    /\ newRoundVotes' = [newRoundVotes EXCEPT ![n] = EmptyMap]
    /\ userHeader' = [userHeader EXCEPT ![n] = None]
    /\ proposed' = [proposed EXCEPT ![n] = NoEntries]
    /\ voteBox' = [voteBox EXCEPT ![n] = NoEntries]
    /\ verified' = [verified EXCEPT ![n] = NoEntries]
    /\ UNCHANGED voteCounts

ClearKeepsVerified(n) ==
    /\ newRound' = [newRound EXCEPT ![n] = NoEntries]
    /\ newRoundVotes' = [newRoundVotes EXCEPT ![n] = EmptyMap]
    /\ userHeader' = [userHeader EXCEPT ![n] = None]
    /\ proposed' = [proposed EXCEPT ![n] = NoEntries]
    /\ voteBox' = [voteBox EXCEPT ![n] = NoEntries]
    /\ voteCounts' = [voteCounts EXCEPT ![n] = EmptyMap]
    /\ UNCHANGED verified

ClearKeepsRounds(n) ==
    /\ userHeader' = [userHeader EXCEPT ![n] = None]
    /\ proposed' = [proposed EXCEPT ![n] = NoEntries]
    /\ voteBox' = [voteBox EXCEPT ![n] = NoEntries]
    /\ voteCounts' = [voteCounts EXCEPT ![n] = EmptyMap]
    /\ verified' = [verified EXCEPT ![n] = NoEntries]
    /\ UNCHANGED <<newRound, newRoundVotes>>

(* clear_intermediate_data: _commit_block, _candidate_block, _my_vote_header *)
(* and _time_context are not cleared.                                       *)
ClearIntermediateData(n) ==
    /\ newRound' = [newRound EXCEPT ![n] = NoEntries]
    /\ newRoundVotes' = [newRoundVotes EXCEPT ![n] = EmptyMap]
    /\ userHeader' = [userHeader EXCEPT ![n] = None]
    /\ proposed' = [proposed EXCEPT ![n] = NoEntries]
    /\ voteBox' = [voteBox EXCEPT ![n] = NoEntries]
    /\ voteCounts' = [voteCounts EXCEPT ![n] = EmptyMap]
    /\ verified' = [verified EXCEPT ![n] = NoEntries]

(* on_bcp_new_round_ready: every node gets new_round(height + 1) once.      *)
SendNewRound(n, r) ==
    /\ newRound' = [k \in Nodes |-> AddOnce(newRound[k], n, r)]
    /\ newRoundVotes' =
           [k \in Nodes |-> CountOnce(newRound[k], newRoundVotes[k], n, r)]

NewRoundReady(n) ==
    /\ Polled(n)
    /\ RoundReady(n)
    /\ timeContext' = [timeContext EXCEPT ![n] = TimeContext(n)]
    /\ SendNewRound(n, Height(n) + 1)
    /\ UNCHANGED <<step, blockVars, myVote, voteVars, verified, commitBlock,
                   chain>>

(* Slip: the predecessor hash is looked up at the new block's own index.     *)
NewBlockOwnHash(n, r) == [idx |-> r, owner |-> n, ctx |-> TimeContext(n),
                          prev |-> BlockHash(n, r)]

(* create_block_for and on_bcp_new_round_start_for: when the block exists    *)
(* there is no new candidate, but process() moves on all the same.          *)
NewBlock(n, r) == [idx |-> r, owner |-> n, ctx |-> TimeContext(n),
                   prev |-> BlockHash(n, r - 1)]

NewRoundStart(n) ==
    /\ Polled(n)
    /\ \E r \in DOMAIN newRoundVotes[n] :
          /\ RoundStarts(n, r)
          /\ IF r \in DOMAIN chain[n]
             THEN UNCHANGED <<candidate, userHeader>>
             ELSE /\ candidate' = [candidate EXCEPT ![n] = NewBlock(n, r)]
                  /\ userHeader' = [userHeader EXCEPT ![n] =
                                       IF @ = None THEN NewBlock(n, r) ELSE @]
    /\ step' = [step EXCEPT ![n] = "pop"]
    /\ UNCHANGED <<timeContext, roundVars, proposed, myVote, voteVars,
                   verified, commitBlock, chain>>

(* on_bcp_step_propose_start_for: with no user header nothing is proposed.  *)
ProposeStart(n) ==
    /\ Polled(n)
    /\ ProposeStarts(n)
    /\ IF userHeader[n] = None
       THEN UNCHANGED <<candidate, proposed>>
       ELSE /\ candidate' = [candidate EXCEPT ![n] = userHeader[n]]
            /\ proposed' =
                  [k \in Nodes |-> AddOnce(proposed[k], n, userHeader[n])]
    /\ step' = [step EXCEPT ![n] = "propose"]
    /\ UNCHANGED <<timeContext, roundVars, userHeader, myVote, voteVars,
                   verified, commitBlock, chain>>

(* vote_block_header_for at every receiver of the vote message.             *)
SendVote(n, h) ==
    /\ voteBox' = [k \in Nodes |-> AddOnce(voteBox[k], n, h)]
    /\ voteCounts' =
           [k \in Nodes |-> CountOnce(voteBox[k], voteCounts[k], n, h)]

Proposals(n) == {proposed[n][p] : p \in Entries(proposed[n])}

(* on_bcp_step_vote_start_for: with no proposal nothing is voted.           *)
VoteStart(n) ==
    /\ Polled(n)
    /\ VoteStarts(n)
    /\ \/ /\ Proposals(n) = {}
          /\ UNCHANGED <<myVote, voteVars>>
       \/ \E h \in Proposals(n) :
             /\ Lowest(h, Proposals(n))
             /\ myVote' = [myVote EXCEPT ![n] = h]
             /\ SendVote(n, h)
    /\ step' = [step EXCEPT ![n] = "vote"]
    /\ UNCHANGED <<timeContext, roundVars, blockVars, verified, commitBlock,
                   chain>>

(* on_bcp_consensus_fail, from the vote and from the commit step.           *)
ConsensusFail(n) ==
    /\ Polled(n)
    /\ VoteTimesOut(n) \/ CommitTimesOut(n)
    /\ ClearIntermediateData(n)
    /\ step' = [step EXCEPT ![n] = "waiting"]
    /\ UNCHANGED <<timeContext, candidate, myVote, commitBlock, chain>>

(* Slip: commits are filed without comparing with the elected header.       *)
FiledUnchecked(k, h) == {p \in Nodes : verified[k][p] = None /\ h \in Elected(p)}

(* The verify_block broadcast: every node that has elected header h answers  *)
(* with a commit broadcast before the call returns, and every node that has  *)
(* elected h files those commits.  The vote boxes do not change meanwhile.  *)
Filed(k, h) ==
    IF h \in Elected(k)
    THEN {p \in Nodes : verified[k][p] = None /\ h \in Elected(p)}
    ELSE {}

SendVerifyBlock(h) ==
    /\ verified' = [k \in Nodes |-> [p \in Nodes |->
                       IF p \in Filed(k, h) THEN h ELSE verified[k][p]]]
    /\ commitBlock' = [k \in Nodes |->
                          IF Filed(k, h) # {} THEN h ELSE commitBlock[k]]

(* on_bcp_step_commit_start_for: only the owner of the elected header has    *)
(* the block and asks for its verification.                                 *)
CommitStart(n) ==
    /\ Polled(n)
    /\ \E h \in Elected(n) :
          /\ CommitStarts(n, h)
          /\ IF h = candidate[n]
             THEN SendVerifyBlock(h)
             ELSE UNCHANGED <<verified, commitBlock>>
    /\ step' = [step EXCEPT ![n] = "commit"]
    /\ UNCHANGED <<timeContext, roundVars, blockVars, myVote, voteVars, chain>>

(* Slip: the node commits its own candidate instead of _commit_block.       *)
CommitCandidate(n) ==
    /\ Polled(n)
    /\ Commits(n)
    /\ chain' = [chain EXCEPT ![n] = AppendBlock(@, candidate[n])]
    /\ ClearIntermediateData(n)
    /\ step' = [step EXCEPT ![n] = "waiting"]
    /\ UNCHANGED <<timeContext, candidate, myVote, commitBlock>>

(* on_bcp_new_block_commit_for: append_block's result is ignored.           *)
NewBlockCommit(n) ==
    /\ Polled(n)
    /\ Commits(n)
    /\ chain' = [chain EXCEPT ![n] = AppendBlock(@, commitBlock[n])]
    /\ ClearIntermediateData(n)
    /\ step' = [step EXCEPT ![n] = "waiting"]
    /\ UNCHANGED <<timeContext, candidate, myVote, commitBlock>>

(* No branch of process() is taken.                                         *)
Idle(n) ==
    /\ Polled(n)
    /\ ~Busy(n)
    /\ UNCHANGED <<step, timeContext, roundVars, blockVars, myVote, voteVars,
                   verified, commitBlock, chain>>

Process(n) ==
    \/ NewRoundReady(n) \/ NewRoundStart(n) \/ ProposeStart(n)
    \/ VoteStart(n) \/ ConsensusFail(n) \/ CommitStart(n)
    \/ NewBlockCommit(n) \/ Idle(n)

(* Time passes at some nodes: a second begins on their clocks.              *)
Tick ==
    /\ \E S \in SUBSET Nodes :
          /\ S # {}
          /\ clock' = [n \in Nodes |-> IF n \in S THEN clock[n] + 1
                                                  ELSE clock[n]]
    /\ \A m, n \in Nodes : clock'[m] - clock'[n] <= MaxSkew
    /\ \A n \in Nodes : clock'[n] <= MaxClock
    /\ UNCHANGED <<turn, stop, rank, step, timeContext, roundVars, blockVars,
                   myVote, voteVars, verified, commitBlock, chain>>

(* node_manager::stop, called by the signal handler at any moment.          *)
Stop ==
    /\ ~stop
    /\ stop' = TRUE
    /\ UNCHANGED <<clock, turn, rank, step, timeContext, roundVars, blockVars,
                   myVote, voteVars, verified, commitBlock, chain>>

(* The loop of node_manager::main has ended.                                *)
Exited == stop /\ turn = 0 /\ UNCHANGED vars

Poll == \E n \in Nodes : Process(n)

Next == Poll \/ Tick \/ Stop \/ Exited

Spec == Init /\ [][Next]_vars

-----------------------------------------------------------------------------
(* Type correctness.                                                        *)
MaybeHeader == Header \cup {None}

IsTally(counts, S) ==
    /\ DOMAIN counts \subseteq S
    /\ IsFiniteSet(DOMAIN counts)
    /\ counts \in [DOMAIN counts -> Nat]

TypeOK ==
    /\ clock \in [Nodes -> Nat]
    /\ turn \in Nodes
    /\ stop \in BOOLEAN
    /\ step \in [Nodes -> {"null", "waiting", "pop", "propose", "vote",
                           "commit"}]
    /\ timeContext \in [Nodes -> Nat]
    /\ newRound \in [Nodes -> [Nodes -> Nat \cup {None}]]
    /\ userHeader \in [Nodes -> MaybeHeader]
    /\ candidate \in [Nodes -> MaybeHeader]
    /\ proposed \in [Nodes -> [Nodes -> MaybeHeader]]
    /\ myVote \in [Nodes -> MaybeHeader]
    /\ voteBox \in [Nodes -> [Nodes -> MaybeHeader]]
    /\ verified \in [Nodes -> [Nodes -> MaybeHeader]]
    /\ commitBlock \in [Nodes -> MaybeHeader]
    /\ DOMAIN newRoundVotes = Nodes /\ DOMAIN voteCounts = Nodes
    /\ DOMAIN chain = Nodes
    /\ \A n \in Nodes :
          /\ IsTally(newRoundVotes[n], Nat)
          /\ IsTally(voteCounts[n], Header)
          /\ DOMAIN chain[n] \subseteq Nat
          /\ IsFiniteSet(DOMAIN chain[n])
          /\ chain[n] \in [DOMAIN chain[n] -> Header]

-----------------------------------------------------------------------------
(* Properties that hold however long polls are delayed (Spec).              *)

(* A counter map that counts what is filed in a message map.                *)
Tallied(box, counts) ==
    /\ \A v \in DOMAIN counts : counts[v] = Cardinality(Voters(box, v))
    /\ \A p \in Entries(box) : box[p] \in DOMAIN counts

(* The counters kept beside the message maps count exactly what is filed in *)
(* them, through every refused duplicate (append_new_round_message_for,      *)
(* vote_block_header_for) and every clear_intermediate_data.                *)
TalliesAgree ==
    \A n \in Nodes : /\ Tallied(newRound[n], newRoundVotes[n])
                     /\ Tallied(voteBox[n], voteCounts[n])

(* get_elected_block_header returns the first header with a majority that    *)
(* its iteration meets: there is never a second one to prefer.              *)
AtMostOneElected ==
    \A n \in Nodes : \A g, h \in Elected(n) : g = h

(* Every commit a node has filed is for the header that its vote box elects  *)
(* now, and _commit_block, which is never cleared, is that block and not one *)
(* left from an earlier round: find_commit_block counts all filed commits    *)
(* together and returns _commit_block for them.                             *)
VerifiedIsElected ==
    \A n \in Nodes : \A p \in Entries(verified[n]) :
       verified[n][p] \in Elected(n) /\ commitBlock[n] = verified[n][p]

(* A block enters a node's chain only when a majority of votes in its own    *)
(* box elects it and a majority of peers has committed it to this node.     *)
CommitNeedsMajorities ==
    [][\A n \in Nodes : chain'[n] # chain[n] =>
          \E h \in Elected(n) :
             /\ chain'[n] = AppendBlock(chain[n], h)
             /\ Cardinality(Voters(verified[n], h)) >= Majority]_vars

(* A node whose NTP sync failed at start-up never sends new_round, and a     *)
(* round needs every peer: no node ever starts a round or gets a block.     *)
UnsyncedBlocksAll ==
    (\E n \in Nodes : step[n] = "null") =>
       \A m \in Nodes : step[m] \in {"null", "waiting"} /\ DOMAIN chain[m] = {}

(* A waiting node that has been told two different rounds stays that way:    *)
(* nothing clears _new_round_messages in step waiting and a peer's later     *)
(* message does not replace its first, so the node is out of all rounds.    *)
Conflicted(n) ==
    /\ step[n] = "waiting"
    /\ \E p, q \in Entries(newRound[n]) : newRound[n][p] # newRound[n][q]

ConflictIsPermanent ==
    [][\A n \in Nodes : Conflicted(n) => Conflicted(n)']_vars

(* A chain has a block at every index up to its height and none beyond,      *)
(* though on_bcp_new_block_commit_for ignores what append_block returns and  *)
(* votes left from an earlier round may elect the block it then appends:     *)
(* such a block may be refused, but it never leaves a gap below it.         *)
NoGaps == \A n \in Nodes : DOMAIN chain[n] = 1 .. Height(n)

(* No node is ever more than one block ahead of another.                    *)
Lockstep == \A m, n \in Nodes : Height(m) <= Height(n) + 1

=============================================================================
