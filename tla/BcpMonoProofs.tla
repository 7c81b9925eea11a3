--------------------------- MODULE BcpMonoProofs ---------------------------
(***************************************************************************)
(* What holds of bcp_mono for any number of nodes, any block times and any *)
(* order of the hashes: the rewards in the balances are those of the chain,*)
(* whatever is in a chain was voted for by a majority of the nodes as long *)
(* as their clocks read the same second, and timely behaviours implement   *)
(* Ledger.                                                                 *)
(*                                                                         *)
(* The boxes count messages, not senders.  The count of a header is a      *)
(* count of nodes because a header is proposed once (the boxes that begin  *)
(* a round are cleared after the time for filling them is over, so that a  *)
(* node begins one round per time context) and because a node votes for    *)
(* what is in a box that it clears before it votes again.                  *)
(***************************************************************************)
EXTENDS BcpMono, SequenceTheorems, FiniteSetTheorems, TLAPS

States == {"sync", "waiting", "new_round", "propose", "vote", "commit"}

Hashes == {NoHash} \cup (Nodes \X Nat)

Headers == [index : Nat, owner : Nodes, round : Nat, prev : Hashes]

BoxTypes ==
    /\ receivedNewRound \in [Nodes -> Seq(Nat)]
    /\ newBlock \in [Nodes -> SUBSET Headers]
    /\ userHeader \in [Nodes -> SUBSET Headers]
    /\ proposeHeader \in [Nodes -> SUBSET Headers]
    /\ voteHeader \in [Nodes -> Seq(Headers)]
    /\ commits \in [Nodes -> Seq(Headers)]
    /\ cast \subseteq Nodes \X Headers

ChainTypes ==
    /\ blocks = [n \in Nodes |-> blocks[n]]
    /\ \A n \in Nodes : IsFiniteSet(DOMAIN blocks[n])
    /\ \A n \in Nodes : DOMAIN blocks[n] \subseteq Nat
    /\ \A n \in Nodes : \A j \in DOMAIN blocks[n] : blocks[n][j] \in Headers
    /\ balances \in [Nodes -> [Nodes -> Nat]]

MonoTypeOK ==
    /\ second \in [Nodes -> Nat]
    /\ nodeState \in [Nodes -> States]
    /\ BoxTypes
    /\ ChainTypes

(* A header of which the nodes have heard: it is in a box or was voted for. *)
Out(h) == \/ \E m \in Nodes : h \in proposeHeader[m]
          \/ \E m \in Nodes : <<m, h>> \in cast

SameSecond == \A m, n \in Nodes : second[m] = second[n]

(* A node that waits has no header of its own; one that began a round and   *)
(* did not propose yet has one of which nobody has heard.                   *)
OwnIsFresh ==
    \A n \in Nodes :
        /\ nodeState[n] \in {"sync", "waiting"} => userHeader[n] = {}
        /\ \A h \in userHeader[n] : h.owner = n /\ h.round <= Round(n)
        /\ nodeState[n] = "new_round" => \A h \in userHeader[n] : ~Out(h)

(* The headers of which the nodes have heard are of earlier contexts, or    *)
(* the time for starting rounds in this one is over, and whoever waits      *)
(* waits for messages of the next.                                          *)
OneRoundPerContext ==
    \A h \in Headers : Out(h) =>
        \/ h.round < Round(h.owner)
        \/ /\ h.round = Round(h.owner)
           /\ StepTime(h.owner) > bcp_timeout_pop
           /\ \/ nodeState[h.owner] \in {"propose", "vote", "commit"}
              \/ receivedNewRound[h.owner] = <<>>

(* A node that has not voted yet in its round never voted for what is in    *)
(* its box.                                                                 *)
NotVotedTwice ==
    \A n \in Nodes : nodeState[n] \notin {"vote", "commit"} =>
        \A h \in proposeHeader[n] : <<n, h>> \notin cast

Voters(h) == {m \in Nodes : <<m, h>> \in cast}

(* No box holds more votes for a header than there are nodes that voted it. *)
CountsNodes ==
    \A n \in Nodes : \A h \in Headers : Occurrences(voteHeader[n], h) <= Cardinality(Voters(h))

Won(h) == 2 * Cardinality(Voters(h)) > PeerCount

(* What is to be committed, and what was, was voted for by a majority.      *)
CommitsWon ==
    /\ \A n \in Nodes : \A k \in DOMAIN commits[n] : Won(commits[n][k])
    /\ \A n \in Nodes : \A j \in DOMAIN blocks[n] : Won(blocks[n][j])

VoteInv ==
    /\ MonoTypeOK /\ SameSecond /\ OwnIsFresh /\ OneRoundPerContext
    /\ NotVotedTwice /\ CountsNodes /\ CommitsWon

-----------------------------------------------------------------------------
(* The operators.                                                           *)

LEMMA ClockTypes ==
    ASSUME NEW t \in Nat
    PROVE  t \div bcp_block_time \in Nat /\ t % bcp_block_time \in Nat
BY PeersAssumption

LEMMA OccurrencesType ==
    ASSUME NEW S, NEW box \in Seq(S), NEW v
    PROVE  Occurrences(box, v) \in Nat
<1>1. IsFiniteSet(DOMAIN box)
  <2>1. DOMAIN box = 1 .. Len(box) /\ Len(box) \in Nat
    OBVIOUS
  <2> QED
    BY <2>1, FS_Interval
<1>2. IsFiniteSet({k \in DOMAIN box : box[k] = v})
  BY <1>1, FS_Subset
<1> QED
  BY <1>2, FS_CardinalityType DEF Occurrences

(* push_back adds one to the count of what is added and of nothing else.    *)
LEMMA OccurrencesAppend ==
    ASSUME NEW S, NEW box \in Seq(S), NEW v \in S, NEW w
    PROVE  Occurrences(Append(box, v), w) = IF v = w THEN Occurrences(box, w) + 1
                                                     ELSE Occurrences(box, w)
<1> DEFINE old == {k \in DOMAIN box : box[k] = w}
           new == {k \in DOMAIN Append(box, v) : Append(box, v)[k] = w}
<1>1. DOMAIN box = 1 .. Len(box) /\ Len(box) \in Nat
  OBVIOUS
<1>2. DOMAIN Append(box, v) = 1 .. Len(box) + 1
  OBVIOUS
<1>3. IsFiniteSet(old)
  <2>1. IsFiniteSet(DOMAIN box)
    BY <1>1, FS_Interval
  <2> QED
    BY <2>1, FS_Subset
<1>4. Len(box) + 1 \notin old
  BY <1>1
<1>5. new = IF v = w THEN old \cup {Len(box) + 1} ELSE old
  BY <1>1, <1>2
<1>6. Cardinality(old \cup {Len(box) + 1}) = Cardinality(old) + 1
  <2> HIDE DEF old
  <2> QED
    BY <1>3, <1>4, FS_AddElement
<1> QED
  BY <1>5, <1>6 DEF Occurrences

(* What get_value_if_count_exceeds returns is in the box, more often than   *)
(* half of the number of nodes.                                             *)
LEMMA MajorityCounts ==
    ASSUME NEW S, NEW box \in Seq(S), NEW v \in Majority(box)
    PROVE  v \in S /\ (\E k \in DOMAIN box : box[k] = v)
           /\ Occurrences(box, v) > PeerCount \div 2 /\ box # <<>>
<1>1. PICK k \in DOMAIN box : v = box[k] /\ Exceeds(box, k)
  BY DEF Majority
<1>2. k \in 1 .. Len(box)
  BY <1>1
<1> QED
  BY <1>1, <1>2 DEF Exceeds

LEMMA SizeType ==
    ASSUME ChainTypes, NEW n \in Nodes
    PROVE  Size(n) \in Nat
BY FS_CardinalityType DEF ChainTypes, Size

LEMMA RoundTypes ==
    ASSUME MonoTypeOK, NEW n \in Nodes
    PROVE  Round(n) \in Nat /\ StepTime(n) \in Nat
<1>1. second[n] \in Nat
  BY DEF MonoTypeOK
<1> QED
  BY <1>1, ClockTypes DEF Round, StepTime

(* create_block_for makes headers of the node and of its context.           *)
LEMMA Created ==
    ASSUME MonoTypeOK, NEW n \in Nodes, NEW index \in Nat, NEW b \in create_block_for(n, index)
    PROVE  b \in Headers /\ b.owner = n /\ b.round = Round(n)
<1>1. b = [index |-> index, owner |-> n, round |-> Round(n),
           prev |-> IF index > 1 THEN HashOf(blocks[n][index - 1]) ELSE NoHash]
      /\ (index > 1 => index - 1 \in DOMAIN blocks[n])
  BY DEF create_block_for
<1>2. Round(n) \in Nat
  BY RoundTypes
<1>3. (IF index > 1 THEN HashOf(blocks[n][index - 1]) ELSE NoHash) \in Hashes
  <2>1. CASE index > 1
    <3>1. blocks[n][index - 1] \in Headers
      BY <1>1, <2>1 DEF MonoTypeOK, ChainTypes
    <3>2. HashOf(blocks[n][index - 1]) \in Nodes \X Nat
      BY <3>1 DEF Headers, HashOf
    <3> QED
      BY <2>1, <3>2 DEF Hashes
  <2>2. CASE ~(index > 1)
    BY <2>2 DEF Hashes
  <2> QED
    BY <2>1, <2>2
<1> QED
  BY <1>1, <1>2, <1>3 DEF Headers

-----------------------------------------------------------------------------
(* Types.                                                                   *)

LEMMA MonoTypeInit == Init => MonoTypeOK
<1> SUFFICES ASSUME Init PROVE MonoTypeOK
  OBVIOUS
<1>1. second \in [Nodes -> Nat]
  BY PeersAssumption DEF Init
<1>2. nodeState \in [Nodes -> States]
  BY DEF Init, States
<1>3. BoxTypes
  BY DEF Init, BoxTypes
<1>4. ChainTypes
  <2>1. \A n \in Nodes : DOMAIN blocks[n] = {}
    BY DEF Init
  <2>2. IsFiniteSet({})
    BY FS_EmptySet
  <2>3. balances \in [Nodes -> [Nodes -> Nat]]
    BY DEF Init
  <2>4. blocks = [n \in Nodes |-> blocks[n]]
    BY DEF Init
  <2> QED
    BY <2>1, <2>2, <2>3, <2>4 DEF ChainTypes
<1> QED
  BY <1>1, <1>2, <1>3, <1>4 DEF MonoTypeOK

LEMMA WaitingBeginTypes ==
    ASSUME BoxTypes, NEW n \in Nodes, on_state_waiting_begin(n), newBlock' = newBlock, cast' = cast
    PROVE  BoxTypes'
BY DEF BoxTypes, on_state_waiting_begin

LEMMA ChainTypesKept ==
    ASSUME ChainTypes, UNCHANGED chainVars
    PROVE  ChainTypes'
<1>1. blocks' = blocks /\ balances' = balances
  BY DEF chainVars
<1> QED
  BY <1>1 DEF ChainTypes

(* append_block keeps the chain a map from indexes to blocks.               *)
LEMMA AppendTypes ==
    ASSUME ChainTypes, NEW n \in Nodes, NEW b \in Headers, append_block(n, b)
    PROVE  ChainTypes'
<1>1. CASE b.index \in DOMAIN blocks[n]
  BY <1>1, ChainTypesKept DEF append_block
<1>2. CASE b.index \notin DOMAIN blocks[n]
  <2> DEFINE longer == [j \in DOMAIN blocks[n] \cup {b.index} |->
                           IF j = b.index THEN b ELSE blocks[n][j]]
  <2>1. blocks' = [blocks EXCEPT ![n] = longer]
        /\ balances' = [balances EXCEPT ![n] = build_balance_for(balances[n], b)]
    BY <1>2 DEF append_block
  <2>2. blocks = [m \in Nodes |-> blocks[m]]
    BY DEF ChainTypes
  <2>3. blocks' = [m \in Nodes |-> IF m = n THEN longer ELSE blocks[m]]
    <3> HIDE DEF longer
    <3> QED
      BY <2>1, <2>2
  <2>4. \A m \in Nodes : blocks'[m] = IF m = n THEN longer ELSE blocks[m]
    BY <2>3
  <2>5. DOMAIN longer = DOMAIN blocks[n] \cup {b.index}
        /\ \A j \in DOMAIN longer : longer[j] = IF j = b.index THEN b ELSE blocks[n][j]
    OBVIOUS
  <2>6. b.index \in Nat /\ b.owner \in Nodes
    BY DEF Headers
  <2>7. IsFiniteSet(DOMAIN blocks[n] \cup {b.index})
    BY FS_AddElement DEF ChainTypes
  <2> HIDE DEF longer
  <2>8. blocks' = [m \in Nodes |-> blocks'[m]]
    BY <2>3
  <2>9. \A m \in Nodes : IsFiniteSet(DOMAIN blocks'[m])
    BY <2>4, <2>5, <2>7 DEF ChainTypes
  <2>10. \A m \in Nodes : DOMAIN blocks'[m] \subseteq Nat
    BY <2>4, <2>5, <2>6 DEF ChainTypes
  <2>11. \A m \in Nodes : \A j \in DOMAIN blocks'[m] : blocks'[m][j] \in Headers
    BY <2>4, <2>5 DEF ChainTypes
  <2>12. balances' \in [Nodes -> [Nodes -> Nat]]
    <3>1. balances[n] \in [Nodes -> Nat]
      BY DEF ChainTypes
    <3>2. build_balance_for(balances[n], b) \in [Nodes -> Nat]
      BY <3>1, <2>6 DEF build_balance_for, block_reward
    <3> QED
      BY <2>1, <3>2 DEF ChainTypes
  <2> QED
    BY <2>8, <2>9, <2>10, <2>11, <2>12 DEF ChainTypes
<1> QED
  BY <1>1, <1>2

LEMMA ReceivedType ==
    ASSUME MonoTypeOK, NEW n \in Nodes
    PROVE  Received(n) \in [Nodes -> Seq(Nat)]
<1>1. Size(n) + 1 \in Nat
  BY SizeType DEF MonoTypeOK
<1>2. receivedNewRound \in [Nodes -> Seq(Nat)]
  BY DEF MonoTypeOK, BoxTypes
<1>3. \A m \in Nodes : Append(receivedNewRound[m], Size(n) + 1) \in Seq(Nat)
  BY <1>1, <1>2
<1> QED
  BY <1>2, <1>3 DEF Received

LEMMA StateStep ==
    ASSUME nodeState \in [Nodes -> States], NEW n \in Nodes, NEW s \in States, SetState(n, s)
    PROVE  nodeState' \in [Nodes -> States]
BY DEF SetState

LEMMA MonoTypeStep == MonoTypeOK /\ [Next]_vars => MonoTypeOK'
<1> SUFFICES ASSUME MonoTypeOK, [Next]_vars PROVE MonoTypeOK'
  OBVIOUS
<1> USE DEF MonoTypeOK
<1>1. ASSUME NEW n \in Nodes, on_state_sync_main(n) PROVE MonoTypeOK'
  <2>1. nodeState' \in [Nodes -> States]
    BY <1>1, StateStep DEF on_state_sync_main, States
  <2>2. BoxTypes'
    BY <1>1, WaitingBeginTypes DEF on_state_sync_main
  <2> QED
    BY <1>1, <2>1, <2>2, ChainTypesKept DEF on_state_sync_main, Polled, timeVars
<1>2. ASSUME NEW n \in Nodes, on_state_waiting_main(n) PROVE MonoTypeOK'
  <2>1. receivedNewRound' \in [Nodes -> Seq(Nat)]
    BY <1>2, ReceivedType DEF on_state_waiting_main
  <2>2. nodeState' \in [Nodes -> States]
    BY <1>2, StateStep DEF on_state_waiting_main, States
  <2>3. newBlock' \in [Nodes -> SUBSET Headers] /\ userHeader' \in [Nodes -> SUBSET Headers]
    <3>0. newBlock \in [Nodes -> SUBSET Headers] /\ userHeader \in [Nodes -> SUBSET Headers]
      BY DEF BoxTypes
    <3>1. CASE UNCHANGED ownVars
      BY <3>0, <3>1 DEF ownVars
    <3>2. CASE ~UNCHANGED ownVars
      <4>1. PICK index \in Majority(Received(n)[n]) : on_state_new_round_begin(n, index)
        BY <1>2, <3>2 DEF on_state_waiting_main
      <4>2. index \in Nat
        <5>1. Received(n)[n] \in Seq(Nat)
          BY ReceivedType
        <5> QED
          BY <4>1, <5>1, MajorityCounts
      <4>3. PICK b \in create_block_for(n, index) :
                   /\ newBlock' = [newBlock EXCEPT ![n] = {b}]
                   /\ userHeader' = [userHeader EXCEPT ![n] = @ \cup {b}]
        BY <4>1, <3>2 DEF on_state_new_round_begin
      <4>4. b \in Headers
        BY <4>2, Created
      <4> QED
        BY <3>0, <4>3, <4>4
    <3> QED
      BY <3>1, <3>2
  <2>4. BoxTypes'
    BY <1>2, <2>1, <2>3 DEF on_state_waiting_main, BoxTypes, boxVars
  <2> QED
    BY <1>2, <2>2, <2>4, ChainTypesKept DEF on_state_waiting_main, Polled, timeVars
<1>3. ASSUME NEW n \in Nodes, on_state_new_round_main(n) PROVE MonoTypeOK'
  <2>1. nodeState' \in [Nodes -> States]
    BY <1>3, StateStep DEF on_state_new_round_main, States
  <2>2. low_value(userHeader[n]) \subseteq Headers
    BY DEF low_value, BoxTypes
  <2>3. BoxTypes'
    BY <1>3, <2>2 DEF on_state_new_round_main, on_state_propose_begin, BoxTypes, roundVars, ownVars
  <2> QED
    BY <1>3, <2>1, <2>3, ChainTypesKept DEF on_state_new_round_main, Polled, timeVars
<1>4. ASSUME NEW n \in Nodes, on_state_propose_main(n) PROVE MonoTypeOK'
  <2>1. nodeState' \in [Nodes -> States]
    BY <1>4, StateStep DEF on_state_propose_main, States
  <2>2. voteHeader' \in [Nodes -> Seq(Headers)] /\ cast' \subseteq Nodes \X Headers
    <3>1. low_value(proposeHeader[n]) \subseteq Headers
      BY DEF low_value, BoxTypes
    <3>2. CASE proposeHeader[n] = {}
      BY <1>4, <3>2 DEF on_state_propose_main, on_state_vote_begin, BoxTypes
    <3>3. CASE proposeHeader[n] # {}
      <4>1. PICK h \in low_value(proposeHeader[n]) :
                   /\ voteHeader' = [m \in Nodes |-> Append(voteHeader[m], h)]
                   /\ cast' = cast \cup {<<n, h>>}
        BY <1>4, <3>3 DEF on_state_propose_main, on_state_vote_begin
      <4>2. h \in Headers
        BY <3>1
      <4> QED
        BY <4>1, <4>2 DEF BoxTypes
    <3> QED
      BY <3>2, <3>3
  <2>3. BoxTypes'
    BY <1>4, <2>2 DEF on_state_propose_main, BoxTypes, roundVars, ownVars
  <2> QED
    BY <1>4, <2>1, <2>3, ChainTypesKept DEF on_state_propose_main, Polled, timeVars
<1>5. ASSUME NEW n \in Nodes, on_state_vote_main(n) PROVE MonoTypeOK'
  <2>1. PICK h \in Majority(voteHeader[n]) : SetState(n, "commit") /\ on_state_commit_begin(n, h)
    BY <1>5 DEF on_state_vote_main
  <2>2. nodeState' \in [Nodes -> States]
    BY <2>1, StateStep DEF States
  <2>3. h \in Headers
    <3>1. voteHeader[n] \in Seq(Headers)
      BY DEF BoxTypes
    <3> QED
      BY <2>1, <3>1, MajorityCounts
  <2>4. commits' \in [Nodes -> Seq(Headers)]
    BY <2>1, <2>3 DEF on_state_commit_begin, BoxTypes
  <2>5. BoxTypes'
    BY <1>5, <2>4 DEF on_state_vote_main, BoxTypes, roundVars, ownVars
  <2> QED
    BY <1>5, <2>2, <2>5, ChainTypesKept DEF on_state_vote_main, Polled, timeVars
<1>6. ASSUME NEW n \in Nodes, on_state_commit_main(n) PROVE MonoTypeOK'
  <2>1. nodeState' \in [Nodes -> States]
    BY <1>6, StateStep DEF on_state_commit_main, States
  <2>2. BoxTypes'
    BY <1>6, WaitingBeginTypes DEF on_state_commit_main
  <2>3. PICK b \in Majority(commits[n]) : append_block(n, b)
    BY <1>6 DEF on_state_commit_main
  <2>4. b \in Headers
    <3>1. commits[n] \in Seq(Headers)
      BY DEF BoxTypes
    <3> QED
      BY <2>3, <3>1, MajorityCounts
  <2> QED
    BY <1>6, <2>1, <2>2, <2>3, <2>4, AppendTypes DEF on_state_commit_main, Polled, timeVars
<1>7. ASSUME NEW n \in Nodes, ConsensusFailed(n) PROVE MonoTypeOK'
  <2>1. nodeState' \in [Nodes -> States]
    BY <1>7, StateStep DEF ConsensusFailed, States
  <2>2. BoxTypes'
    BY <1>7, WaitingBeginTypes DEF ConsensusFailed
  <2> QED
    BY <1>7, <2>1, <2>2, ChainTypesKept DEF ConsensusFailed, Polled, timeVars
<1>8. ASSUME NEW n \in Nodes, Undecided(n) PROVE MonoTypeOK'
  <2>1. BoxTypes'
    BY <1>8 DEF Undecided, BoxTypes, roundVars, ownVars, boxVars
  <2> QED
    BY <1>8, <2>1, ChainTypesKept DEF Undecided, Polled, timeVars
<1>9. ASSUME Tick PROVE MonoTypeOK'
  <2>1. PICK S \in (SUBSET Nodes) \ {{}} :
               second' = [n \in Nodes |-> second[n] + IF n \in S THEN 1 ELSE 0]
    BY <1>9 DEF Tick
  <2>2. second' \in [Nodes -> Nat]
    BY <2>1
  <2>3. BoxTypes'
    BY <1>9 DEF Tick, BoxTypes, roundVars, ownVars, boxVars
  <2> QED
    BY <1>9, <2>2, <2>3, ChainTypesKept DEF Tick
<1>10. ASSUME UNCHANGED vars PROVE MonoTypeOK'
  <2>1. BoxTypes'
    BY <1>10 DEF vars, BoxTypes, roundVars, ownVars, boxVars
  <2> QED
    BY <1>10, <2>1, ChainTypesKept DEF vars, timeVars
<1> QED
  BY <1>1, <1>2, <1>3, <1>4, <1>5, <1>6, <1>7, <1>8, <1>9, <1>10 DEF Next, Poll, onMain

(* The state of bcp_mono keeps its types: in particular the headers in      *)
(* every box, and the blocks, have an owner among the nodes.                *)
THEOREM MonoTypeCorrect == Spec => []MonoTypeOK
<1>1. Init => MonoTypeOK
  BY MonoTypeInit
<1>2. MonoTypeOK /\ [Next]_vars => MonoTypeOK'
  BY MonoTypeStep
<1> QED
  BY <1>1, <1>2, PTL DEF Spec

-----------------------------------------------------------------------------
(* Rewards.                                                                 *)

Owned(n, m) == {j \in DOMAIN blocks[n] : blocks[n][j].owner = m}

LEMMA RewardsKept ==
    ASSUME RewardsPaid, UNCHANGED chainVars
    PROVE  RewardsPaid'
<1>1. blocks' = blocks /\ balances' = balances
  BY DEF chainVars
<1> QED
  BY <1>1 DEF RewardsPaid

LEMMA RewardAppended ==
    ASSUME ChainTypes, RewardsPaid, NEW n \in Nodes, NEW b \in Headers, append_block(n, b)
    PROVE  RewardsPaid'
<1>1. CASE b.index \in DOMAIN blocks[n]
  BY <1>1, RewardsKept DEF append_block
<1>2. CASE b.index \notin DOMAIN blocks[n]
  <2> DEFINE longer == [j \in DOMAIN blocks[n] \cup {b.index} |->
                           IF j = b.index THEN b ELSE blocks[n][j]]
  <2>1. blocks' = [blocks EXCEPT ![n] = longer]
        /\ balances' = [balances EXCEPT ![n] = build_balance_for(balances[n], b)]
    BY <1>2 DEF append_block
  <2>2. DOMAIN blocks = Nodes /\ balances \in [Nodes -> [Nodes -> Nat]]
    BY DEF ChainTypes
  <2>3. DOMAIN longer = DOMAIN blocks[n] \cup {b.index}
        /\ \A j \in DOMAIN longer : longer[j] = IF j = b.index THEN b ELSE blocks[n][j]
    OBVIOUS
  <2> HIDE DEF longer
  <2>4. \A k \in Nodes : blocks'[k] = IF k = n THEN longer ELSE blocks[k]
    BY <2>1, <2>2
  <2>5. \A k \in Nodes : balances'[k] = IF k = n THEN build_balance_for(balances[n], b) ELSE balances[k]
    BY <2>1, <2>2
  <2>6. b.owner \in Nodes
    BY DEF Headers
  <2>7. SUFFICES ASSUME NEW m \in Nodes, NEW k \in Nodes
                 PROVE  balances'[k][m]
                          = block_reward * Cardinality({j \in DOMAIN blocks'[k] : blocks'[k][j].owner = m})
    BY DEF RewardsPaid
  <2>8. balances[k][m] = block_reward * Cardinality(Owned(k, m))
    BY DEF RewardsPaid, Owned
  <2>9. CASE k # n
    BY <2>4, <2>5, <2>8, <2>9 DEF Owned
  <2>10. CASE k = n
    <3>1. IsFiniteSet(Owned(n, m)) /\ b.index \notin Owned(n, m)
      BY <1>2, FS_Subset DEF ChainTypes, Owned
    <3>2. {j \in DOMAIN blocks'[k] : blocks'[k][j].owner = m}
            = IF b.owner = m THEN Owned(n, m) \cup {b.index} ELSE Owned(n, m)
      BY <1>2, <2>3, <2>4, <2>10 DEF Owned
    <3>3. Cardinality(Owned(n, m) \cup {b.index}) = Cardinality(Owned(n, m)) + 1
          /\ Cardinality(Owned(n, m)) \in Nat
      BY <3>1, FS_AddElement, FS_CardinalityType
    <3>4. balances[n] \in [Nodes -> Nat]
      BY <2>2
    <3>5. balances'[k][m] = IF m = b.owner THEN balances[n][m] + block_reward ELSE balances[n][m]
      BY <2>5, <2>6, <2>10, <3>4 DEF build_balance_for
    <3>6. Cardinality({j \in DOMAIN blocks'[k] : blocks'[k][j].owner = m})
            = IF b.owner = m THEN Cardinality(Owned(n, m)) + 1 ELSE Cardinality(Owned(n, m))
      BY <3>2, <3>3
    <3>7. balances[n][m] = 100 * Cardinality(Owned(n, m))
      BY <2>8, <2>10 DEF block_reward
    <3> QED
      BY <3>3, <3>5, <3>6, <3>7 DEF block_reward
  <2> QED
    BY <2>9, <2>10
<1> QED
  BY <1>1, <1>2

(* The balances a node keeps are the rewards of the blocks in its chain,    *)
(* under any delays: a block enters both or neither.                        *)
THEOREM RewardsCorrect == Spec => []RewardsPaid
<1>1. Init => RewardsPaid
  <2> SUFFICES ASSUME Init, NEW m \in Nodes, NEW n \in Nodes
               PROVE  balances[n][m] = block_reward *
                          Cardinality({j \in DOMAIN blocks[n] : blocks[n][j].owner = m})
    BY DEF RewardsPaid
  <2>1. DOMAIN blocks[n] = {} /\ balances[n][m] = 0
    BY DEF Init
  <2>2. {j \in DOMAIN blocks[n] : blocks[n][j].owner = m} = {}
    BY <2>1
  <2> QED
    BY <2>1, <2>2, FS_EmptySet DEF block_reward
<1>2. MonoTypeOK /\ RewardsPaid /\ [Next]_vars => RewardsPaid'
  <2> SUFFICES ASSUME MonoTypeOK, RewardsPaid, [Next]_vars PROVE RewardsPaid'
    OBVIOUS
  <2>1. ASSUME NEW n \in Nodes, on_state_commit_main(n) PROVE RewardsPaid'
    <3>1. PICK b \in Majority(commits[n]) : append_block(n, b)
      BY <2>1 DEF on_state_commit_main
    <3>2. b \in Headers
      <4>1. commits[n] \in Seq(Headers)
        BY DEF MonoTypeOK, BoxTypes
      <4> QED
        BY <3>1, <4>1, MajorityCounts
    <3> QED
      BY <3>1, <3>2, RewardAppended DEF MonoTypeOK
  <2>2. ASSUME \A n \in Nodes : ~on_state_commit_main(n) PROVE UNCHANGED chainVars
    BY <2>2 DEF Next, Poll, onMain, on_state_sync_main, on_state_waiting_main, on_state_new_round_main,
          on_state_propose_main, on_state_vote_main, ConsensusFailed, Undecided, Tick, vars
  <2> QED
    BY <2>1, <2>2, RewardsKept
<1> QED
  BY <1>1, <1>2, MonoTypeCorrect, PTL DEF Spec

-----------------------------------------------------------------------------
(* Clocks.                                                                  *)

(* Time contexts follow one another, and so do the steps within one.        *)
LEMMA ClockOrder ==
    ASSUME NEW s \in Nat, NEW t \in Nat, s <= t
    PROVE  /\ s \div bcp_block_time <= t \div bcp_block_time
           /\ s \div bcp_block_time = t \div bcp_block_time =>
                  s % bcp_block_time <= t % bcp_block_time
<1> DEFINE B == bcp_block_time
           q == s \div B
           r == t \div B
<1>1. B \in Nat /\ B > 0
  BY PeersAssumption
<1>2. q \in Nat /\ r \in Nat /\ s = q * B + (s % B) /\ t = r * B + (t % B)
      /\ s % B \in 0 .. B - 1 /\ t % B \in 0 .. B - 1
  BY <1>1
<1>3. q <= r
  <2> SUFFICES ASSUME r < q PROVE FALSE
    BY <1>2
  <2>1. PICK e \in Nat : q = r + 1 + e
    <3>1. q - r - 1 \in Nat /\ q = r + 1 + (q - r - 1)
      BY <1>2
    <3> QED
      BY <3>1
  <2> HIDE DEF q, r, B
  <2>2. q * B = r * B + B + e * B /\ e * B \in Nat /\ r * B \in Nat
    BY <1>1, <1>2, <2>1
  <2> QED
    BY <1>1, <1>2, <2>2
<1>4. q = r => s % B <= t % B
  <2> HIDE DEF q, r
  <2>1. q * B \in Nat /\ r * B \in Nat
    BY <1>1, <1>2
  <2> QED
    BY <1>2, <2>1
<1> QED
  BY <1>3, <1>4

(* A clock never goes back.                                                 *)
LEMMA SecondsGrow ==
    ASSUME MonoTypeOK, [Next]_vars, NEW n \in Nodes
    PROVE  /\ Round(n) \in Nat /\ Round(n)' \in Nat
           /\ StepTime(n) \in Nat /\ StepTime(n)' \in Nat
           /\ Round(n) <= Round(n)'
           /\ Round(n) = Round(n)' => StepTime(n) <= StepTime(n)'
<1>1. second \in [Nodes -> Nat]
  BY DEF MonoTypeOK
<1>2. second'[n] \in Nat /\ second[n] <= second'[n]
  <2>1. CASE Tick
    BY <1>1, <2>1 DEF Tick
  <2>2. CASE ~Tick
    <3>1. second' = second
      BY <2>2 DEF Next, Poll, onMain, on_state_sync_main, on_state_waiting_main, on_state_new_round_main,
            on_state_propose_main, on_state_vote_main, on_state_commit_main, ConsensusFailed, Undecided,
            Polled, timeVars, vars
    <3> QED
      BY <1>1, <3>1
  <2> QED
    BY <2>1, <2>2
<1>3. second[n] \in Nat
  BY <1>1
<1> QED
  BY <1>2, <1>3, ClockTypes, ClockOrder DEF Round, StepTime

LEMMA SameSecondStep ==
    ASSUME MonoTypeOK, MonoTypeOK', SameSecond, [Next]_vars, MaxApart = 0
    PROVE  SameSecond'
<1>1. CASE Tick
  <2> SUFFICES ASSUME NEW m \in Nodes, NEW n \in Nodes PROVE second'[m] = second'[n]
    BY DEF SameSecond
  <2>1. \A i, j \in Nodes : second'[i] - second'[j] <= 0
    BY <1>1 DEF Tick
  <2>2. second'[m] \in Nat /\ second'[n] \in Nat
    BY DEF MonoTypeOK
  <2> QED
    BY <2>1, <2>2
<1>2. CASE ~Tick
  <2>1. second' = second
    BY <1>2 DEF Next, Poll, onMain, on_state_sync_main, on_state_waiting_main, on_state_new_round_main,
          on_state_propose_main, on_state_vote_main, on_state_commit_main, ConsensusFailed, Undecided,
          Polled, timeVars, vars
  <2> QED
    BY <2>1 DEF SameSecond
<1> QED
  BY <1>1, <1>2

-----------------------------------------------------------------------------
(* A header is proposed once.                                               *)

(* A header becomes known by the proposal of a node that has made it.       *)
LEMMA OutStep ==
    ASSUME MonoTypeOK, [Next]_vars, NEW h, Out(h)'
    PROVE  Out(h) \/ \E n \in Nodes : on_state_new_round_main(n) /\ h \in userHeader[n]
<1> USE DEF MonoTypeOK, BoxTypes
<1>1. ASSUME NEW n \in Nodes, on_state_sync_main(n) PROVE Out(h)
  BY <1>1 DEF on_state_sync_main, on_state_waiting_begin, Out
<1>2. ASSUME NEW n \in Nodes, on_state_waiting_main(n) PROVE Out(h)
  BY <1>2 DEF on_state_waiting_main, boxVars, Out
<1>3. ASSUME NEW n \in Nodes, on_state_new_round_main(n) PROVE Out(h) \/ h \in userHeader[n]
  BY <1>3 DEF on_state_new_round_main, on_state_propose_begin, low_value, Out
<1>4. ASSUME NEW n \in Nodes, on_state_propose_main(n) PROVE Out(h)
  <2>1. proposeHeader' = proposeHeader
    BY <1>4 DEF on_state_propose_main
  <2>2. \A m \in Nodes : <<m, h>> \in cast' => <<m, h>> \in cast \/ h \in proposeHeader[n]
    BY <1>4 DEF on_state_propose_main, on_state_vote_begin, low_value
  <2> QED
    BY <2>1, <2>2 DEF Out
<1>5. ASSUME NEW n \in Nodes, on_state_vote_main(n) PROVE Out(h)
  BY <1>5 DEF on_state_vote_main, Out
<1>6. ASSUME NEW n \in Nodes, on_state_commit_main(n) PROVE Out(h)
  BY <1>6 DEF on_state_commit_main, on_state_waiting_begin, Out
<1>7. ASSUME NEW n \in Nodes, ConsensusFailed(n) PROVE Out(h)
  BY <1>7 DEF ConsensusFailed, on_state_waiting_begin, Out
<1>8. ASSUME NEW n \in Nodes, Undecided(n) PROVE Out(h)
  BY <1>8 DEF Undecided, boxVars, Out
<1>9. ASSUME Tick PROVE Out(h)
  BY <1>9 DEF Tick, boxVars, Out
<1>10. ASSUME UNCHANGED vars PROVE Out(h)
  BY <1>10 DEF vars, boxVars, Out
<1> QED
  BY <1>1, <1>2, <1>3, <1>4, <1>5, <1>6, <1>7, <1>8, <1>9, <1>10 DEF Next, Poll, onMain

(* A node whose header of this context is out stays past the start of its   *)
(* round: nobody sends new_round any more.                                  *)
LEMMA PastStart ==
    ASSUME MonoTypeOK, SameSecond, [Next]_vars, NEW o \in Nodes,
           Round(o)' = Round(o), StepTime(o) > bcp_timeout_pop,
           nodeState[o] \in {"propose", "vote", "commit"} \/ receivedNewRound[o] = <<>>
    PROVE  nodeState'[o] \in {"propose", "vote", "commit"} \/ receivedNewRound'[o] = <<>>
<1> USE DEF MonoTypeOK, BoxTypes
<1>1. ASSUME NEW n \in Nodes, on_state_sync_main(n)
      PROVE  nodeState'[o] \in {"propose", "vote", "commit"} \/ receivedNewRound'[o] = <<>>
  BY <1>1 DEF on_state_sync_main, on_state_waiting_begin, SetState
<1>2. ASSUME NEW n \in Nodes, on_state_waiting_main(n)
      PROVE  nodeState'[o] \in {"propose", "vote", "commit"} \/ receivedNewRound'[o] = <<>>
  <2>1. StepTime(n) = StepTime(o)
    BY DEF SameSecond, StepTime
  <2>2. ~SendsNewRound(n)
    <3>1. StepTime(o) \in Nat /\ bcp_timeout_pop \in Nat
      BY RoundTypes, PeersAssumption
    <3> QED
      BY <2>1, <3>1 DEF SendsNewRound
  <2>3. receivedNewRound' = receivedNewRound
    BY <1>2, <2>2 DEF on_state_waiting_main, Received
  <2>4. nodeState[n] = "waiting" /\ \A m \in Nodes : m # n => nodeState'[m] = nodeState[m]
    BY <1>2 DEF on_state_waiting_main, SetState
  <2> QED
    BY <2>3, <2>4
<1>3. ASSUME NEW n \in Nodes, on_state_new_round_main(n)
      PROVE  nodeState'[o] \in {"propose", "vote", "commit"} \/ receivedNewRound'[o] = <<>>
  BY <1>3 DEF on_state_new_round_main, SetState, roundVars
<1>4. ASSUME NEW n \in Nodes, on_state_propose_main(n)
      PROVE  nodeState'[o] \in {"propose", "vote", "commit"} \/ receivedNewRound'[o] = <<>>
  BY <1>4 DEF on_state_propose_main, SetState, roundVars
<1>5. ASSUME NEW n \in Nodes, on_state_vote_main(n)
      PROVE  nodeState'[o] \in {"propose", "vote", "commit"} \/ receivedNewRound'[o] = <<>>
  BY <1>5 DEF on_state_vote_main, SetState, roundVars
<1>6. ASSUME NEW n \in Nodes, on_state_commit_main(n)
      PROVE  nodeState'[o] \in {"propose", "vote", "commit"} \/ receivedNewRound'[o] = <<>>
  BY <1>6 DEF on_state_commit_main, on_state_waiting_begin, SetState
<1>7. ASSUME NEW n \in Nodes, ConsensusFailed(n)
      PROVE  nodeState'[o] \in {"propose", "vote", "commit"} \/ receivedNewRound'[o] = <<>>
  BY <1>7 DEF ConsensusFailed, on_state_waiting_begin, SetState
<1>8. ASSUME NEW n \in Nodes, Undecided(n)
      PROVE  nodeState'[o] \in {"propose", "vote", "commit"} \/ receivedNewRound'[o] = <<>>
  BY <1>8 DEF Undecided, roundVars
<1>9. ASSUME Tick
      PROVE  nodeState'[o] \in {"propose", "vote", "commit"} \/ receivedNewRound'[o] = <<>>
  BY <1>9 DEF Tick, roundVars
<1>10. ASSUME UNCHANGED vars
       PROVE  nodeState'[o] \in {"propose", "vote", "commit"} \/ receivedNewRound'[o] = <<>>
  BY <1>10 DEF vars, roundVars
<1> QED
  BY <1>1, <1>2, <1>3, <1>4, <1>5, <1>6, <1>7, <1>8, <1>9, <1>10 DEF Next, Poll, onMain

LEMMA OneRoundStep ==
    ASSUME MonoTypeOK, SameSecond, OwnIsFresh, OneRoundPerContext, [Next]_vars
    PROVE  OneRoundPerContext'
<1> DEFINE Past(o) == nodeState[o] \in {"propose", "vote", "commit"} \/ receivedNewRound[o] = <<>>
<1> SUFFICES ASSUME NEW h \in Headers, Out(h)'
             PROVE  \/ h.round < Round(h.owner)'
                    \/ /\ h.round = Round(h.owner)'
                       /\ StepTime(h.owner)' > bcp_timeout_pop
                       /\ \/ nodeState'[h.owner] \in {"propose", "vote", "commit"}
                          \/ receivedNewRound'[h.owner] = <<>>
  BY DEF OneRoundPerContext
<1> DEFINE o == h.owner
<1>1. o \in Nodes /\ h.round \in Nat /\ bcp_timeout_pop \in Nat
  BY PeersAssumption DEF Headers
<1>2. /\ Round(o) \in Nat /\ Round(o)' \in Nat /\ StepTime(o) \in Nat /\ StepTime(o)' \in Nat
      /\ Round(o) <= Round(o)' /\ (Round(o) = Round(o)' => StepTime(o) <= StepTime(o)')
  BY <1>1, SecondsGrow
<1>3. CASE Out(h)
  <2>1. CASE h.round < Round(o)
    BY <1>1, <1>2, <2>1
  <2>2. CASE ~(h.round < Round(o))
    <3>1. h.round = Round(o) /\ StepTime(o) > bcp_timeout_pop
          /\ (nodeState[o] \in {"propose", "vote", "commit"} \/ receivedNewRound[o] = <<>>)
      BY <1>3, <2>2 DEF OneRoundPerContext
    <3>2. CASE Round(o)' = Round(o)
      <4>1. nodeState'[o] \in {"propose", "vote", "commit"} \/ receivedNewRound'[o] = <<>>
        BY <1>1, <3>1, <3>2, PastStart
      <4> QED
        BY <1>1, <1>2, <3>1, <3>2, <4>1
    <3>3. CASE Round(o)' # Round(o)
      BY <1>1, <1>2, <3>1, <3>3
    <3> QED
      BY <3>2, <3>3
  <2> QED
    BY <2>1, <2>2
<1>4. CASE ~Out(h)
  <2>1. PICK n \in Nodes : on_state_new_round_main(n) /\ h \in userHeader[n]
    BY <1>4, OutStep
  <2>2. o = n /\ h.round <= Round(n)
    BY <2>1 DEF OwnIsFresh
  <2>3. second' = second /\ StepTime(n) > bcp_timeout_pop /\ nodeState'[n] = "propose"
    BY <2>1 DEF on_state_new_round_main, Polled, timeVars, SetState, Proceeds, MonoTypeOK
  <2>4. Round(n)' = Round(n) /\ StepTime(n)' = StepTime(n)
    BY <2>3 DEF Round, StepTime
  <2> QED
    BY <1>1, <1>2, <2>2, <2>3, <2>4
<1> QED
  BY <1>3, <1>4

(* What a step does to the headers a node has made itself.                  *)
LEMMA OwnStep ==
    ASSUME MonoTypeOK, [Next]_vars, NEW n \in Nodes
    PROVE  \/ userHeader'[n] = {}
           \/ /\ userHeader'[n] = userHeader[n]
              /\ nodeState'[n] \in {"sync", "waiting"} => nodeState[n] \in {"sync", "waiting"}
              /\ nodeState'[n] = "new_round" =>
                     nodeState[n] \in {"waiting", "new_round"}
           \/ /\ nodeState[n] = "waiting" /\ nodeState'[n] = "new_round"
              /\ second' = second
              /\ Received(n)[n] # <<>>
              /\ \E b \in Headers : /\ b.owner = n /\ b.round = Round(n)
                                    /\ userHeader'[n] = userHeader[n] \cup {b}
<1> USE DEF MonoTypeOK, BoxTypes
<1>1. ASSUME NEW k \in Nodes, on_state_sync_main(k) PROVE userHeader'[n] = {} \/
             (userHeader'[n] = userHeader[n] /\ nodeState'[n] = nodeState[n])
  BY <1>1 DEF on_state_sync_main, on_state_waiting_begin, SetState
<1>2. ASSUME NEW k \in Nodes, k # n, on_state_waiting_main(k)
      PROVE  userHeader'[n] = userHeader[n] /\ nodeState'[n] = nodeState[n]
  BY <1>2 DEF on_state_waiting_main, on_state_new_round_begin, ownVars, SetState
<1>3. ASSUME on_state_waiting_main(n), ~UNCHANGED ownVars
      PROVE  /\ nodeState[n] = "waiting" /\ nodeState'[n] = "new_round"
             /\ second' = second /\ Received(n)[n] # <<>>
             /\ \E b \in Headers : /\ b.owner = n /\ b.round = Round(n)
                                   /\ userHeader'[n] = userHeader[n] \cup {b}
  <2>1. PICK index \in Majority(Received(n)[n]) :
               SetState(n, "new_round") /\ on_state_new_round_begin(n, index)
    BY <1>3 DEF on_state_waiting_main
  <2>2. index \in Nat /\ Received(n)[n] # <<>>
    <3>1. Received(n)[n] \in Seq(Nat)
      BY ReceivedType
    <3> QED
      BY <2>1, <3>1, MajorityCounts
  <2>3. PICK b \in create_block_for(n, index) : userHeader' = [userHeader EXCEPT ![n] = @ \cup {b}]
    BY <1>3, <2>1 DEF on_state_new_round_begin
  <2>4. b \in Headers /\ b.owner = n /\ b.round = Round(n)
    BY <2>2, Created
  <2>5. userHeader'[n] = userHeader[n] \cup {b}
    BY <2>3
  <2>6. nodeState[n] = "waiting" /\ nodeState'[n] = "new_round" /\ second' = second
    BY <1>3, <2>1 DEF on_state_waiting_main, SetState, Polled, timeVars
  <2> QED
    BY <2>2, <2>4, <2>5, <2>6
<1>4. ASSUME on_state_waiting_main(n), UNCHANGED ownVars
      PROVE  userHeader'[n] = userHeader[n] /\ nodeState[n] = "waiting"
  BY <1>4 DEF on_state_waiting_main, ownVars
<1>5. ASSUME NEW k \in Nodes, on_state_new_round_main(k) \/ on_state_propose_main(k) \/ on_state_vote_main(k)
      PROVE  /\ userHeader'[n] = userHeader[n]
             /\ nodeState'[n] = nodeState[n] \/ nodeState'[n] \in {"propose", "vote", "commit"}
  BY <1>5 DEF on_state_new_round_main, on_state_propose_main, on_state_vote_main, SetState, ownVars
<1>6. ASSUME NEW k \in Nodes, on_state_commit_main(k) \/ ConsensusFailed(k)
      PROVE  userHeader'[n] = {} \/ (userHeader'[n] = userHeader[n] /\ nodeState'[n] = nodeState[n])
  BY <1>6 DEF on_state_commit_main, ConsensusFailed, on_state_waiting_begin, SetState
<1>7. ASSUME (\E k \in Nodes : Undecided(k)) \/ Tick \/ UNCHANGED vars
      PROVE  userHeader'[n] = userHeader[n] /\ nodeState'[n] = nodeState[n]
  BY <1>7 DEF Undecided, Tick, vars, ownVars
<1>8. nodeState[n] \in States
  OBVIOUS
<1> QED
  BY <1>1, <1>2, <1>3, <1>4, <1>5, <1>6, <1>7, <1>8 DEF Next, Poll, onMain, States

LEMMA OwnFreshStep ==
    ASSUME MonoTypeOK, SameSecond, OwnIsFresh, OneRoundPerContext, [Next]_vars
    PROVE  OwnIsFresh'
<1> SUFFICES ASSUME NEW n \in Nodes
             PROVE  /\ nodeState'[n] \in {"sync", "waiting"} => userHeader'[n] = {}
                    /\ \A h \in userHeader'[n] : h.owner = n /\ h.round <= Round(n)'
                    /\ nodeState'[n] = "new_round" => \A h \in userHeader'[n] : ~Out(h)'
  BY DEF OwnIsFresh
<1>1. /\ Round(n) \in Nat /\ Round(n)' \in Nat /\ StepTime(n) \in Nat /\ Round(n) <= Round(n)'
  BY SecondsGrow
<1>2. /\ nodeState[n] \in {"sync", "waiting"} => userHeader[n] = {}
      /\ \A h \in userHeader[n] : h.owner = n /\ h.round <= Round(n)
      /\ nodeState[n] = "new_round" => \A h \in userHeader[n] : ~Out(h)
      /\ \A h \in userHeader[n] : h \in Headers
  BY DEF OwnIsFresh, MonoTypeOK, BoxTypes
<1>3. CASE userHeader'[n] = {}
  BY <1>3
<1>4. CASE /\ userHeader'[n] = userHeader[n]
           /\ nodeState'[n] \in {"sync", "waiting"} => nodeState[n] \in {"sync", "waiting"}
           /\ nodeState'[n] = "new_round" => nodeState[n] \in {"waiting", "new_round"}
  <2>1. ASSUME NEW h \in userHeader[n], nodeState'[n] = "new_round" PROVE ~Out(h)'
    <3>1. nodeState[n] = "new_round" /\ ~Out(h)
      BY <1>2, <1>4, <2>1
    <3> SUFFICES ASSUME Out(h)' PROVE FALSE
      OBVIOUS
    <3>2. PICK k \in Nodes : on_state_new_round_main(k) /\ h \in userHeader[k]
      BY <3>1, OutStep
    <3>3. k = n
      BY <1>2, <2>1, <3>2 DEF OwnIsFresh
    <3> QED
      BY <2>1, <3>2, <3>3 DEF on_state_new_round_main, SetState, MonoTypeOK
  <2>2. \A h \in userHeader[n] : h.round \in Nat
    BY <1>2 DEF Headers
  <2> QED
    BY <1>1, <1>2, <1>4, <2>1, <2>2
<1>5. CASE /\ nodeState[n] = "waiting" /\ nodeState'[n] = "new_round"
           /\ second' = second /\ Received(n)[n] # <<>>
           /\ \E b \in Headers : /\ b.owner = n /\ b.round = Round(n)
                                 /\ userHeader'[n] = userHeader[n] \cup {b}
  <2>1. PICK b \in Headers : b.owner = n /\ b.round = Round(n) /\ userHeader'[n] = {b}
    BY <1>2, <1>5
  <2>2. ~Out(b)
    <3> SUFFICES ASSUME Out(b) PROVE FALSE
      OBVIOUS
    <3>1. StepTime(n) > bcp_timeout_pop /\ receivedNewRound[n] = <<>>
      <4>1. \/ b.round < Round(b.owner)
            \/ /\ StepTime(b.owner) > bcp_timeout_pop
               /\ nodeState[b.owner] \in {"propose", "vote", "commit"} \/ receivedNewRound[b.owner] = <<>>
        BY DEF OneRoundPerContext
      <4> QED
        BY <1>1, <1>5, <2>1, <4>1
    <3>2. ~SendsNewRound(n)
      BY <1>1, <3>1, PeersAssumption DEF SendsNewRound
    <3>3. Received(n)[n] = <<>>
      BY <3>1, <3>2 DEF Received
    <3> QED
      BY <1>5, <3>3
  <2>3. ~Out(b)'
    <3> SUFFICES ASSUME Out(b)' PROVE FALSE
      OBVIOUS
    <3>1. PICK k \in Nodes : on_state_new_round_main(k) /\ b \in userHeader[k]
      BY <2>2, OutStep
    <3>2. k = n
      BY <2>1, <3>1 DEF OwnIsFresh
    <3> QED
      BY <1>5, <3>1, <3>2 DEF on_state_new_round_main
  <2> QED
    BY <1>1, <1>5, <2>1, <2>3
<1> QED
  BY <1>3, <1>4, <1>5, OwnStep

-----------------------------------------------------------------------------
(* A node votes for a header once.                                          *)

(* The votes for a header grow by the vote of one node, which has the       *)
(* header in its box.                                                       *)
LEMMA CastStep ==
    ASSUME MonoTypeOK, [Next]_vars
    PROVE  \/ cast' = cast
           \/ \E k \in Nodes : \E g \in proposeHeader[k] :
                 /\ nodeState[k] = "propose" /\ nodeState'[k] = "vote"
                 /\ cast' = cast \cup {<<k, g>>}
                 /\ voteHeader' = [m \in Nodes |-> Append(voteHeader[m], g)]
                 /\ proposeHeader' = proposeHeader
                 /\ UNCHANGED <<commits, blocks>>
<1>1. ASSUME NEW k \in Nodes, on_state_propose_main(k), cast' # cast
      PROVE  \E g \in proposeHeader[k] :
                 /\ nodeState[k] = "propose" /\ nodeState'[k] = "vote"
                 /\ cast' = cast \cup {<<k, g>>}
                 /\ voteHeader' = [m \in Nodes |-> Append(voteHeader[m], g)]
                 /\ proposeHeader' = proposeHeader
                 /\ UNCHANGED <<commits, blocks>>
  <2>1. nodeState[k] = "propose" /\ nodeState'[k] = "vote" /\ proposeHeader' = proposeHeader
        /\ UNCHANGED <<commits, blocks>>
    BY <1>1 DEF on_state_propose_main, SetState, chainVars, MonoTypeOK
  <2>2. PICK g \in low_value(proposeHeader[k]) :
                /\ voteHeader' = [m \in Nodes |-> Append(voteHeader[m], g)]
                /\ cast' = cast \cup {<<k, g>>}
    BY <1>1 DEF on_state_propose_main, on_state_vote_begin
  <2>3. g \in proposeHeader[k]
    BY <2>2 DEF low_value
  <2> QED
    BY <2>1, <2>2, <2>3
<1>2. ASSUME \A k \in Nodes : ~on_state_propose_main(k) PROVE cast' = cast
  BY <1>2 DEF Next, Poll, onMain, on_state_sync_main, on_state_waiting_main, on_state_new_round_main,
        on_state_vote_main, on_state_commit_main, ConsensusFailed, Undecided, Tick, vars
<1> QED
  BY <1>1, <1>2

(* What a step does to the headers proposed to a node.                      *)
LEMMA ProposedStep ==
    ASSUME MonoTypeOK, OwnIsFresh, [Next]_vars, NEW n \in Nodes, NEW h \in proposeHeader'[n]
    PROVE  \/ /\ h \in proposeHeader[n]
              /\ nodeState[n] \in {"vote", "commit"} => nodeState'[n] \in {"vote", "commit"}
           \/ ~Out(h) /\ cast' = cast
<1> USE DEF MonoTypeOK, BoxTypes
<1>1. ASSUME NEW k \in Nodes, on_state_sync_main(k) \/ on_state_commit_main(k) \/ ConsensusFailed(k)
      PROVE  h \in proposeHeader[n] /\ nodeState'[n] = nodeState[n]
  BY <1>1 DEF on_state_sync_main, on_state_commit_main, ConsensusFailed, on_state_waiting_begin, SetState
<1>2. ASSUME NEW k \in Nodes, on_state_waiting_main(k)
      PROVE  h \in proposeHeader[n] /\ (nodeState[n] \in {"vote", "commit"} => nodeState'[n] = nodeState[n])
  BY <1>2 DEF on_state_waiting_main, boxVars, SetState
<1>3. ASSUME NEW k \in Nodes, on_state_new_round_main(k), h \notin proposeHeader[n]
      PROVE  ~Out(h) /\ cast' = cast
  <2>1. h \in userHeader[k] /\ nodeState[k] = "new_round" /\ cast' = cast
    BY <1>3 DEF on_state_new_round_main, on_state_propose_begin, low_value
  <2> QED
    BY <2>1 DEF OwnIsFresh
<1>4. ASSUME NEW k \in Nodes, on_state_new_round_main(k)
      PROVE  nodeState[n] \in {"vote", "commit"} => nodeState'[n] = nodeState[n]
  BY <1>4 DEF on_state_new_round_main, SetState
<1>5. ASSUME NEW k \in Nodes, on_state_propose_main(k) \/ on_state_vote_main(k)
      PROVE  h \in proposeHeader[n] /\ (nodeState[n] \in {"vote", "commit"} => nodeState'[n] \in {"vote", "commit"})
  BY <1>5 DEF on_state_propose_main, on_state_vote_main, SetState
<1>6. ASSUME (\E k \in Nodes : Undecided(k)) \/ Tick \/ UNCHANGED vars
      PROVE  h \in proposeHeader[n] /\ nodeState'[n] = nodeState[n]
  BY <1>6 DEF Undecided, Tick, vars, boxVars
<1> QED
  BY <1>1, <1>2, <1>3, <1>4, <1>5, <1>6 DEF Next, Poll, onMain

LEMMA NotTwiceStep ==
    ASSUME MonoTypeOK, OwnIsFresh, NotVotedTwice, [Next]_vars
    PROVE  NotVotedTwice'
<1> SUFFICES ASSUME NEW n \in Nodes, nodeState'[n] \notin {"vote", "commit"},
                    NEW h \in proposeHeader'[n]
             PROVE  <<n, h>> \notin cast'
  BY DEF NotVotedTwice
<1>1. CASE ~Out(h) /\ cast' = cast
  BY <1>1 DEF Out
<1>2. CASE h \in proposeHeader[n] /\ nodeState[n] \notin {"vote", "commit"}
  <2>1. <<n, h>> \notin cast
    BY <1>2 DEF NotVotedTwice
  <2>2. ASSUME NEW k \in Nodes, NEW g, nodeState'[k] = "vote", cast' = cast \cup {<<k, g>>}
        PROVE  <<n, h>> \notin cast'
    BY <2>1, <2>2
  <2> QED
    BY <2>1, <2>2, CastStep
<1> QED
  BY <1>1, <1>2, ProposedStep

-----------------------------------------------------------------------------
(* The votes in a box are those of as many nodes.                           *)

LEMMA VotersFinite ==
    ASSUME NEW h
    PROVE  IsFiniteSet(Voters(h)) /\ Cardinality(Voters(h)) \in Nat
<1>1. IsFiniteSet(Nodes)
  BY PeersAssumption, FS_Interval DEF Nodes
<1>2. Voters(h) \subseteq Nodes
  BY DEF Voters
<1> QED
  BY <1>1, <1>2, FS_Subset, FS_CardinalityType

LEMMA VotersGrow ==
    ASSUME MonoTypeOK, [Next]_vars, NEW h
    PROVE  Cardinality(Voters(h)) <= Cardinality(Voters(h)') /\ Cardinality(Voters(h)') \in Nat
<1>1. cast \subseteq cast'
  BY CastStep
<1>2. Voters(h) \subseteq Voters(h)'
  BY <1>1 DEF Voters
<1>3. IsFiniteSet(Nodes)
  BY PeersAssumption, FS_Interval DEF Nodes
<1>4. Voters(h)' \subseteq Nodes
  BY DEF Voters
<1>5. IsFiniteSet(Voters(h)')
  BY <1>3, <1>4, FS_Subset
<1> QED
  BY <1>2, <1>5, FS_Subset, FS_CardinalityType

(* Without a new vote a box keeps its votes or loses them all.              *)
LEMMA BoxStep ==
    ASSUME MonoTypeOK, [Next]_vars, cast' = cast, NEW n \in Nodes,
           \A k \in Nodes : ~on_state_propose_main(k)
    PROVE  voteHeader'[n] = voteHeader[n] \/ voteHeader'[n] = <<>>
<1> USE DEF MonoTypeOK, BoxTypes
<1>1. ASSUME NEW k \in Nodes, on_state_sync_main(k) \/ on_state_commit_main(k) \/ ConsensusFailed(k)
      PROVE  voteHeader'[n] = voteHeader[n] \/ voteHeader'[n] = <<>>
  BY <1>1 DEF on_state_sync_main, on_state_commit_main, ConsensusFailed, on_state_waiting_begin
<1>2. ASSUME (\E k \in Nodes : on_state_waiting_main(k) \/ on_state_new_round_main(k)
                    \/ on_state_vote_main(k) \/ Undecided(k)) \/ Tick \/ UNCHANGED vars
      PROVE  voteHeader' = voteHeader
  BY <1>2 DEF on_state_waiting_main, on_state_new_round_main, on_state_vote_main, Undecided, Tick, vars, boxVars
<1> QED
  BY <1>1, <1>2 DEF Next, Poll, onMain

(* Whoever votes adds its vote to every box, and to its own history.        *)
LEMMA ProposeMainVotes ==
    ASSUME MonoTypeOK, NEW k \in Nodes, on_state_propose_main(k), proposeHeader[k] # {}
    PROVE  \E g \in proposeHeader[k] :
              /\ nodeState[k] = "propose"
              /\ cast' = cast \cup {<<k, g>>}
              /\ voteHeader' = [m \in Nodes |-> Append(voteHeader[m], g)]
BY DEF on_state_propose_main, on_state_vote_begin, low_value

LEMMA CountsStep ==
    ASSUME MonoTypeOK, NotVotedTwice, CountsNodes, [Next]_vars
    PROVE  CountsNodes'
<1> SUFFICES ASSUME NEW n \in Nodes, NEW h \in Headers
             PROVE  Occurrences(voteHeader'[n], h) <= Cardinality(Voters(h)')
  BY DEF CountsNodes
<1>1. voteHeader[n] \in Seq(Headers)
  BY DEF MonoTypeOK, BoxTypes
<1>2. Occurrences(voteHeader[n], h) \in Nat /\ Occurrences(voteHeader[n], h) <= Cardinality(Voters(h))
  BY <1>1, OccurrencesType DEF CountsNodes
<1>3. /\ Cardinality(Voters(h)) \in Nat /\ Cardinality(Voters(h)') \in Nat
      /\ Cardinality(Voters(h)) <= Cardinality(Voters(h)')
  BY VotersFinite, VotersGrow
<1>4. CASE voteHeader'[n] = voteHeader[n]
  BY <1>2, <1>3, <1>4
<1>5. CASE voteHeader'[n] = <<>>
  <2>1. {k \in DOMAIN <<>> : <<>>[k] = h} = {}
    OBVIOUS
  <2>2. Occurrences(voteHeader'[n], h) = 0
    BY <1>5, <2>1, FS_EmptySet DEF Occurrences
  <2> QED
    BY <1>3, <2>2
<1>6. ASSUME NEW k \in Nodes, NEW g \in proposeHeader[k], nodeState[k] = "propose",
             cast' = cast \cup {<<k, g>>},
             voteHeader' = [m \in Nodes |-> Append(voteHeader[m], g)]
      PROVE  Occurrences(voteHeader'[n], h) <= Cardinality(Voters(h)')
  <2>1. g \in Headers
    BY DEF MonoTypeOK, BoxTypes
  <2>2. Occurrences(voteHeader'[n], h) = IF g = h THEN Occurrences(voteHeader[n], h) + 1
                                                  ELSE Occurrences(voteHeader[n], h)
    <3>1. voteHeader'[n] = Append(voteHeader[n], g)
      BY <1>6
    <3> QED
      BY <1>1, <2>1, <3>1, OccurrencesAppend
  <2>3. CASE g = h
    <3>1. k \notin Voters(h)
      BY <1>6, <2>3 DEF NotVotedTwice, Voters
    <3>2. Voters(h)' = Voters(h) \cup {k}
      BY <1>6, <2>3 DEF Voters
    <3>3. Cardinality(Voters(h)') = Cardinality(Voters(h)) + 1
      BY <3>1, <3>2, VotersFinite, FS_AddElement
    <3> QED
      BY <1>2, <1>3, <2>2, <2>3, <3>3
  <2>4. CASE g # h
    BY <1>2, <1>3, <2>2, <2>4
  <2> QED
    BY <2>3, <2>4
<1>7. CASE \E k \in Nodes : on_state_propose_main(k)
  <2>1. PICK k \in Nodes : on_state_propose_main(k)
    BY <1>7
  <2>2. CASE proposeHeader[k] = {}
    BY <1>4, <2>1, <2>2 DEF on_state_propose_main, on_state_vote_begin
  <2>3. CASE proposeHeader[k] # {}
    BY <1>6, <2>1, <2>3, ProposeMainVotes
  <2> QED
    BY <2>2, <2>3
<1>8. CASE \A k \in Nodes : ~on_state_propose_main(k)
  <2>1. cast' = cast
    BY <1>8 DEF Next, Poll, onMain, on_state_sync_main, on_state_waiting_main, on_state_new_round_main,
        on_state_vote_main, on_state_commit_main, ConsensusFailed, Undecided, Tick, vars
  <2> QED
    BY <1>4, <1>5, <1>8, <2>1, BoxStep
<1> QED
  BY <1>7, <1>8

-----------------------------------------------------------------------------
(* Commits.                                                                 *)

LEMMA WonStays ==
    ASSUME MonoTypeOK, [Next]_vars, NEW h, Won(h)
    PROVE  Won(h)'
<1>1. /\ Cardinality(Voters(h)) \in Nat /\ Cardinality(Voters(h)') \in Nat
      /\ Cardinality(Voters(h)) <= Cardinality(Voters(h)')
  BY VotersFinite, VotersGrow
<1> QED
  BY <1>1, PeersAssumption DEF Won

(* A majority of the votes in a box is one of the nodes.                    *)
LEMMA MajorityWon ==
    ASSUME MonoTypeOK, CountsNodes, NEW n \in Nodes, NEW h \in Majority(voteHeader[n])
    PROVE  h \in Headers /\ Won(h)
<1>1. voteHeader[n] \in Seq(Headers)
  BY DEF MonoTypeOK, BoxTypes
<1>2. h \in Headers /\ Occurrences(voteHeader[n], h) > PeerCount \div 2
  BY <1>1, MajorityCounts
<1>3. Occurrences(voteHeader[n], h) <= Cardinality(Voters(h))
      /\ Occurrences(voteHeader[n], h) \in Nat /\ Cardinality(Voters(h)) \in Nat
  BY <1>1, <1>2, OccurrencesType, VotersFinite DEF CountsNodes
<1> QED
  BY <1>2, <1>3, PeersAssumption DEF Won

LEMMA CommitBoxStep ==
    ASSUME MonoTypeOK, CountsNodes, CommitsWon, [Next]_vars, NEW n \in Nodes,
           NEW k \in DOMAIN commits'[n]
    PROVE  Won(commits'[n][k])
<1>1. commits \in [Nodes -> Seq(Headers)]
  BY DEF MonoTypeOK, BoxTypes
<1>2. ASSUME NEW m \in Nodes, on_state_vote_main(m)
      PROVE  Won(commits'[n][k])
  <2>1. PICK h \in Majority(voteHeader[m]) : on_state_commit_begin(m, h)
    BY <1>2 DEF on_state_vote_main
  <2>2. h \in Headers /\ Won(h)
    BY <2>1, MajorityWon
  <2>3. CASE commits' = commits
    BY <2>3 DEF CommitsWon
  <2>4. CASE commits' = [i \in Nodes |-> Append(commits[i], h)]
    <3>1. commits'[n] = Append(commits[n], h) /\ commits[n] \in Seq(Headers)
      BY <1>1, <2>4
    <3>2. commits'[n][k] = h \/ (k \in DOMAIN commits[n] /\ commits'[n][k] = commits[n][k])
      BY <2>2, <3>1
    <3>3. k \in DOMAIN commits[n] => Won(commits[n][k])
      BY DEF CommitsWon
    <3> QED
      BY <2>2, <3>2, <3>3
  <2> QED
    BY <2>1, <2>3, <2>4 DEF on_state_commit_begin
<1>3. ASSUME NEW m \in Nodes, on_state_sync_main(m) \/ on_state_commit_main(m) \/ ConsensusFailed(m)
      PROVE  commits'[n] = commits[n]
  <2>1. commits'[n] = commits[n] \/ commits'[n] = <<>>
    BY <1>1, <1>3 DEF on_state_sync_main, on_state_commit_main, ConsensusFailed, on_state_waiting_begin
  <2> QED
    BY <2>1
<1>4. ASSUME (\E m \in Nodes : on_state_waiting_main(m) \/ on_state_new_round_main(m)
                    \/ on_state_propose_main(m) \/ Undecided(m)) \/ Tick \/ UNCHANGED vars
      PROVE  commits'[n] = commits[n]
  BY <1>4 DEF on_state_waiting_main, on_state_new_round_main, on_state_propose_main, Undecided, Tick, vars, boxVars
<1>5. ASSUME commits'[n] = commits[n] PROVE Won(commits'[n][k])
  BY <1>5 DEF CommitsWon
<1> QED
  BY <1>2, <1>3, <1>4, <1>5 DEF Next, Poll, onMain

LEMMA ChainBoxStep ==
    ASSUME MonoTypeOK, CommitsWon, [Next]_vars, NEW n \in Nodes, NEW j \in DOMAIN blocks'[n]
    PROVE  Won(blocks'[n][j])
<1>1. ASSUME NEW m \in Nodes, on_state_commit_main(m)
      PROVE  Won(blocks'[n][j])
  <2>1. PICK b \in Majority(commits[m]) : append_block(m, b)
    BY <1>1 DEF on_state_commit_main
  <2>2. Won(b)
    <3>1. commits[m] \in Seq(Headers)
      BY DEF MonoTypeOK, BoxTypes
    <3>2. \E k \in DOMAIN commits[m] : commits[m][k] = b
      BY <2>1, <3>1, MajorityCounts
    <3> QED
      BY <3>2 DEF CommitsWon
  <2>3. CASE UNCHANGED chainVars
    BY <2>3 DEF chainVars, CommitsWon
  <2>4. CASE ~UNCHANGED chainVars
    <3>1. blocks' = [blocks EXCEPT ![m] = [i \in DOMAIN blocks[m] \cup {b.index} |->
                                               IF i = b.index THEN b ELSE blocks[m][i]]]
      BY <2>1, <2>4 DEF append_block
    <3>2. DOMAIN blocks = Nodes
      BY DEF MonoTypeOK, ChainTypes
    <3>3. blocks'[n][j] = b \/ (j \in DOMAIN blocks[n] /\ blocks'[n][j] = blocks[n][j])
      BY <3>1, <3>2
    <3>4. j \in DOMAIN blocks[n] => Won(blocks[n][j])
      BY DEF CommitsWon
    <3> QED
      BY <2>2, <3>3, <3>4
  <2> QED
    BY <2>3, <2>4
<1>2. ASSUME \A m \in Nodes : ~on_state_commit_main(m) PROVE Won(blocks'[n][j])
  <2>1. UNCHANGED chainVars
    BY <1>2 DEF Next, Poll, onMain, on_state_sync_main, on_state_waiting_main, on_state_new_round_main,
          on_state_propose_main, on_state_vote_main, ConsensusFailed, Undecided, Tick, vars
  <2> QED
    BY <2>1 DEF chainVars, CommitsWon
<1> QED
  BY <1>1, <1>2

LEMMA CommitsWonStep ==
    ASSUME MonoTypeOK, CountsNodes, CommitsWon, [Next]_vars
    PROVE  CommitsWon'
<1>1. \A h : Won(h) => Won(h)'
  BY WonStays
<1>2. \A n \in Nodes : \A k \in DOMAIN commits'[n] : 2 * Cardinality({m \in Nodes : <<m, commits'[n][k]>> \in cast'}) > PeerCount
  BY <1>1, CommitBoxStep DEF Won, Voters
<1>3. \A n \in Nodes : \A j \in DOMAIN blocks'[n] : 2 * Cardinality({m \in Nodes : <<m, blocks'[n][j]>> \in cast'}) > PeerCount
  BY <1>1, ChainBoxStep DEF Won, Voters
<1> QED
  BY <1>2, <1>3 DEF CommitsWon, Won, Voters

-----------------------------------------------------------------------------

LEMMA VoteInit == Init => VoteInv
<1> SUFFICES ASSUME Init PROVE VoteInv
  OBVIOUS
<1>1. MonoTypeOK
  BY MonoTypeInit
<1>2. SameSecond
  BY DEF Init, SameSecond
<1>3. \A n \in Nodes : /\ userHeader[n] = {} /\ proposeHeader[n] = {} /\ voteHeader[n] = <<>>
                       /\ commits[n] = <<>> /\ DOMAIN blocks[n] = {}
  BY DEF Init
<1>4. cast = {}
  BY DEF Init
<1>5. \A h : ~Out(h)
  BY <1>3, <1>4 DEF Out
<1>6. OwnIsFresh /\ OneRoundPerContext /\ NotVotedTwice
  BY <1>3, <1>5 DEF OwnIsFresh, OneRoundPerContext, NotVotedTwice
<1>7. CountsNodes
  <2> SUFFICES ASSUME NEW n \in Nodes, NEW h \in Headers
               PROVE  Occurrences(voteHeader[n], h) <= Cardinality(Voters(h))
    BY DEF CountsNodes
  <2>1. {k \in DOMAIN voteHeader[n] : voteHeader[n][k] = h} = {}
    BY <1>3
  <2>2. Occurrences(voteHeader[n], h) = 0
    BY <2>1, FS_EmptySet DEF Occurrences
  <2> QED
    BY <2>2, VotersFinite
<1>8. CommitsWon
  BY <1>3 DEF CommitsWon
<1> QED
  BY <1>1, <1>2, <1>6, <1>7, <1>8 DEF VoteInv

(* While the clocks of the nodes read the same second, whatever is in a     *)
(* chain was voted for by a majority of the nodes, however the polls are    *)
(* delayed: get_value_if_count_exceeds counts messages, and no node's       *)
(* message is counted twice.                                                *)
THEOREM VotedByMajorityCorrect ==
    ASSUME MaxApart = 0
    PROVE  Spec => []VotedByMajority
<1>1. Init => VoteInv
  BY VoteInit
<1>2. VoteInv /\ [Next]_vars => VoteInv'
  <2> SUFFICES ASSUME VoteInv, [Next]_vars PROVE VoteInv'
    OBVIOUS
  <2>1. MonoTypeOK'
    BY MonoTypeStep DEF VoteInv
  <2> QED
    BY <2>1, SameSecondStep, OwnFreshStep, OneRoundStep, NotTwiceStep, CountsStep, CommitsWonStep
       DEF VoteInv
<1>3. VoteInv => VotedByMajority
  BY DEF VoteInv, CommitsWon, Won, Voters, VotedByMajority
<1> QED
  BY <1>1, <1>2, <1>3, PTL DEF Spec

-----------------------------------------------------------------------------
(***************************************************************************)
(* Timely behaviours.  run() polls the nodes in turn, so that a node is    *)
(* never more than one state ahead of another: the nodes that have gone on *)
(* are those that were polled last.  All the others follow before a second *)
(* passes, with boxes that are the same in every node that still uses them.*)
(***************************************************************************)

(* How many polls a node is away from its next one.                         *)
Away(n) == IF n >= sweep THEN n - sweep ELSE n - sweep + PeerCount

(* n has gone on from the state in which m still is.                        *)
Ahead(m, n) ==
    \/ nodeState[m] = "sync" /\ nodeState[n] = "waiting"
    \/ nodeState[m] = "waiting" /\ nodeState[n] = "new_round"
    \/ nodeState[m] = "new_round" /\ nodeState[n] = "propose" /\ Proceeds(m)
    \/ nodeState[m] = "propose" /\ nodeState[n] = "vote" /\ Proceeds(m)
    \/ nodeState[m] = "vote" /\ nodeState[n] = "commit" /\ ~TimesOut(m)
    \/ nodeState[m] = "vote" /\ nodeState[n] = "waiting" /\ TimesOut(m)
    \/ nodeState[m] = "commit" /\ nodeState[n] = "waiting"

InTurn ==
    /\ sweep \in Nodes
    /\ \A m, n \in Nodes : Away(m) <= Away(n) => nodeState[m] = nodeState[n] \/ Ahead(m, n)

LastHashOf(n) == IF Size(n) = 0 THEN NoHash ELSE HashOf(blocks[n][Size(n)])

(* The headers of which the block would extend the chain of n.              *)
Extensions(n) == [index : {Size(n) + 1}, owner : Nodes, round : Nat, prev : {LastHashOf(n)}]

(* n has committed the block that m will commit.                            *)
Appends(m, n) == nodeState[m] = "commit" /\ nodeState[n] = "waiting" /\ ~TimesOut(m)

OneChain ==
    /\ \A n \in Nodes : blocks[n] \in Seq(Headers)
    /\ \A m, n \in Nodes :
          Appends(m, n) => \E b \in Majority(commits[m]) : blocks[n] = Append(blocks[m], b)
    /\ \A m, n \in Nodes : ~Appends(m, n) /\ ~Appends(n, m) => blocks[m] = blocks[n]

(* The new_round messages at the nodes that wait are the same, and all of   *)
(* them are for the next block.                                             *)
RoundBoxes ==
    \A n \in Nodes : nodeState[n] = "waiting" =>
       /\ \A k \in DOMAIN receivedNewRound[n] : receivedNewRound[n][k] = Size(n) + 1
       /\ \A m \in Nodes :
             /\ nodeState[m] = "waiting" => receivedNewRound[m] = receivedNewRound[n]
             /\ nodeState[m] = "new_round" => Len(receivedNewRound[n]) > PeerCount \div 2
             /\ nodeState[m] \in {"sync", "vote", "commit"} => receivedNewRound[n] = <<>>

(* The headers that are made, proposed, voted for and committed extend the  *)
(* chain, and boxes are cleared of them before a round begins.              *)
HeaderBoxes ==
    \A n \in Nodes :
       /\ nodeState[n] \in {"sync", "waiting"} => userHeader[n] = {} /\ proposeHeader[n] = {}
       /\ nodeState[n] = "new_round" => userHeader[n] \subseteq Extensions(n)
       /\ nodeState[n] \in {"new_round", "propose"} => proposeHeader[n] \subseteq Extensions(n)

VoteBoxes ==
    \A n \in Nodes :
       /\ nodeState[n] \in {"sync", "waiting", "new_round"} => voteHeader[n] = <<>>
       /\ nodeState[n] \in {"new_round", "propose", "vote", "commit"} =>
             /\ voteHeader[n] \in Seq(Extensions(n))
             /\ \A m \in Nodes : nodeState[m] \in {"new_round", "propose", "vote", "commit"} =>
                   voteHeader[m] = voteHeader[n]
       /\ nodeState[n] = "commit" => Majority(voteHeader[n]) # {}

CommitBoxes ==
    \A n \in Nodes :
       /\ nodeState[n] \in {"sync", "waiting", "new_round", "propose"} => commits[n] = <<>>
       /\ nodeState[n] \in {"propose", "vote", "commit"} =>
             /\ commits[n] \in Seq(Extensions(n))
             /\ \A m \in Nodes : nodeState[m] \in {"propose", "vote", "commit"} =>
                   commits[m] = commits[n]

BoxInv == RoundBoxes /\ HeaderBoxes /\ VoteBoxes /\ CommitBoxes

TurnInv == timely => SameSecond /\ InTurn /\ OneChain /\ BoxInv

-----------------------------------------------------------------------------
LEMMA MajorityUnique ==
    ASSUME NEW S, NEW box \in Seq(S), NEW v \in Majority(box), NEW w \in Majority(box)
    PROVE  v = w
<1>1. PICK j \in DOMAIN box : v = box[j] /\ Exceeds(box, j) /\ \A i \in 1 .. j - 1 : ~Exceeds(box, i)
  BY DEF Majority
<1>2. PICK k \in DOMAIN box : w = box[k] /\ Exceeds(box, k) /\ \A i \in 1 .. k - 1 : ~Exceeds(box, i)
  BY DEF Majority
<1>3. j \in 1 .. Len(box) /\ k \in 1 .. Len(box) /\ Len(box) \in Nat
  OBVIOUS
<1>4. j = k
  BY <1>1, <1>2, <1>3
<1> QED
  BY <1>1, <1>2, <1>4

(* The majority of a box in which every message says the same.              *)
LEMMA ConstantBox ==
    ASSUME NEW box \in Seq(Nat), NEW v \in Nat, \A k \in DOMAIN box : box[k] = v
    PROVE  /\ \A w \in Majority(box) : w = v
           /\ Majority(box) # {} <=> Len(box) > PeerCount \div 2
<1>1. DOMAIN box = 1 .. Len(box) /\ Len(box) \in Nat
  OBVIOUS
<1>2. {k \in DOMAIN box : box[k] = v} = 1 .. Len(box)
  BY <1>1
<1>3. Occurrences(box, v) = Len(box)
  <2>1. Cardinality(1 .. Len(box)) = Len(box)
    BY <1>1, FS_Interval
  <2> QED
    BY <1>2, <2>1 DEF Occurrences
<1>4. \A w \in Majority(box) : w = v /\ Len(box) > PeerCount \div 2
  <2> SUFFICES ASSUME NEW w \in Majority(box) PROVE w = v /\ Len(box) > PeerCount \div 2
    OBVIOUS
  <2>1. w = v
    BY DEF Majority
  <2> QED
    BY <1>3, <2>1, MajorityCounts
<1>5. ASSUME Len(box) > PeerCount \div 2 PROVE Majority(box) # {}
  <2>1. PeerCount \div 2 \in Nat
    BY PeersAssumption
  <2>2. 1 \in DOMAIN box /\ box[1] = v
    BY <1>1, <1>5, <2>1
  <2>3. Exceeds(box, 1) /\ \A j \in 1 .. 1 - 1 : ~Exceeds(box, j)
    BY <1>3, <1>5, <2>2 DEF Exceeds
  <2> QED
    BY <2>2, <2>3 DEF Majority
<1> QED
  BY <1>4, <1>5

LEMMA ChainSize ==
    ASSUME NEW n \in Nodes, blocks[n] \in Seq(Headers)
    PROVE  /\ Size(n) = Len(blocks[n]) /\ Size(n) \in Nat
           /\ DOMAIN blocks[n] = 1 .. Size(n)
<1>1. DOMAIN blocks[n] = 1 .. Len(blocks[n]) /\ Len(blocks[n]) \in Nat
  OBVIOUS
<1>2. Cardinality(1 .. Len(blocks[n])) = Len(blocks[n])
  BY <1>1, FS_Interval
<1> QED
  BY <1>1, <1>2 DEF Size

(* The order of the polls.                                                  *)
LEMMA AwayType ==
    ASSUME sweep \in Nodes, NEW n \in Nodes
    PROVE  Away(n) \in 0 .. PeerCount - 1 /\ (Away(n) = 0 <=> n = sweep)
BY PeersAssumption DEF Away, Nodes

LEMMA NextSweep ==
    ASSUME NEW s \in Nodes
    PROVE  (s % PeerCount) + 1 \in Nodes /\ (s % PeerCount) + 1 = IF s = PeerCount THEN 1 ELSE s + 1
<1>1. PeerCount \in Nat /\ PeerCount > 0 /\ s \in 1 .. PeerCount
  BY PeersAssumption DEF Nodes
<1>2. s % PeerCount = IF s = PeerCount THEN 0 ELSE s
  <2>1. CASE s = PeerCount
    BY <1>1, <2>1
  <2>2. CASE s < PeerCount
    BY <1>1, <2>2
  <2> QED
    BY <1>1, <2>1, <2>2
<1> QED
  BY <1>1, <1>2 DEF Nodes

LEMMA AwayStep ==
    ASSUME NEW s \in Nodes, Polled(s)
    PROVE  /\ sweep \in Nodes /\ sweep' \in Nodes
           /\ Away(s) = 0 /\ Away(s)' = PeerCount - 1
           /\ \A n \in Nodes : n # s => Away(n)' = Away(n) - 1
<1>1. PeerCount \in Nat /\ PeerCount > 0 /\ s \in 1 .. PeerCount /\ sweep = s
  BY PeersAssumption DEF Nodes, Polled
<1>2. sweep' \in Nodes /\ sweep' = IF s = PeerCount THEN 1 ELSE s + 1
  BY NextSweep DEF Polled
<1> QED
  BY <1>1, <1>2 DEF Away, Nodes

(* Whoever is polled is behind, or all are in the same state.               *)
LEMMA PolledIsBehind ==
    ASSUME InTurn, NEW s \in Nodes, Polled(s), NEW n \in Nodes
    PROVE  nodeState[n] = nodeState[s] \/ Ahead(s, n)
<1>1. Away(s) = 0 /\ sweep \in Nodes
  BY AwayStep
<1>2. Away(n) \in 0 .. PeerCount - 1
  BY <1>1, AwayType
<1>3. Away(s) <= Away(n)
  BY <1>1, <1>2, PeersAssumption
<1> QED
  BY <1>3 DEF InTurn

(* The polled node catches up with those ahead of it.                       *)
LEMMA TurnMoves ==
    ASSUME MonoTypeOK, InTurn, NEW s \in Nodes, Polled(s), NEW q \in States, SetState(s, q),
           \A n \in Nodes : n # s => nodeState[n] = q \/ Ahead(n, s)'
    PROVE  InTurn'
<1>1. /\ sweep \in Nodes /\ sweep' \in Nodes
      /\ Away(s) = 0 /\ Away(s)' = PeerCount - 1
      /\ \A n \in Nodes : n # s => Away(n)' = Away(n) - 1
  BY AwayStep
<1>2. nodeState'[s] = q /\ \A n \in Nodes : n # s => nodeState'[n] = nodeState[n]
  BY DEF SetState, MonoTypeOK
<1>3. second' = second
  BY DEF Polled, timeVars
<1>4. \A n \in Nodes : Away(n) \in 0 .. PeerCount - 1
  BY <1>1, AwayType
<1>5. ASSUME NEW m \in Nodes, NEW n \in Nodes, m # s, n # s, Ahead(m, n) PROVE Ahead(m, n)'
  BY <1>2, <1>3, <1>5 DEF Ahead, Proceeds, TimesOut, StepTime
<1>6. ASSUME NEW m \in Nodes, NEW n \in Nodes, Away(m)' <= Away(n)'
      PROVE  nodeState'[m] = nodeState'[n] \/ Ahead(m, n)'
  <2>1. CASE m = n
    BY <2>1
  <2>2. CASE m # n /\ n = s
    BY <1>2, <2>2
  <2>3. CASE m # n /\ m = s
    <3>1. Away(n)' < PeerCount - 1
      BY <1>1, <1>4, <2>3, PeersAssumption
    <3>2. Away(m)' = PeerCount - 1 /\ Away(n)' \in Int
      BY <1>1, <1>4, <2>3
    <3> QED
      BY <1>6, <3>1, <3>2, PeersAssumption
  <2>4. CASE m # s /\ n # s
    <3>1. Away(m) <= Away(n)
      BY <1>1, <1>4, <1>6, <2>4
    <3>2. nodeState[m] = nodeState[n] \/ Ahead(m, n)
      BY <3>1 DEF InTurn
    <3> QED
      BY <1>2, <1>5, <2>4, <3>2
  <2> QED
    BY <2>1, <2>2, <2>3, <2>4
<1> QED
  BY <1>1, <1>6 DEF InTurn

LEMMA TurnStays ==
    ASSUME sweep' \in Nodes, \A m, n \in Nodes : nodeState'[m] = nodeState'[n]
    PROVE  InTurn'
BY DEF InTurn

-----------------------------------------------------------------------------
LEMMA SameTimes ==
    ASSUME SameSecond, NEW m \in Nodes, NEW n \in Nodes
    PROVE  StepTime(m) = StepTime(n)
BY DEF SameSecond, StepTime

LEMMA ExtensionsKept ==
    ASSUME NEW n \in Nodes, blocks'[n] = blocks[n]
    PROVE  Size(n)' = Size(n) /\ Extensions(n)' = Extensions(n)
BY DEF Extensions, Size, LastHashOf

LEMMA ExtensionsSame ==
    ASSUME NEW m \in Nodes, NEW n \in Nodes, blocks[m] = blocks[n]
    PROVE  Size(m) = Size(n) /\ Extensions(m) = Extensions(n)
BY DEF Extensions, Size, LastHashOf

(* Whoever is behind has work to do.                                        *)
LEMMA BehindIsOccupied ==
    ASSUME MonoTypeOK, OneChain, BoxInv, NEW m \in Nodes, NEW n \in Nodes, Ahead(m, n)
    PROVE  /\ Occupied(m)
           /\ nodeState[m] = "vote" => Majority(voteHeader[m]) # {} \/ TimesOut(m)
           /\ nodeState[m] = "commit" => Majority(commits[m]) # {} \/ TimesOut(m)
<1>1. CASE nodeState[m] = "waiting" /\ nodeState[n] = "new_round"
  <2>1. receivedNewRound[m] \in Seq(Nat) /\ Size(m) \in Nat
    BY ChainSize DEF MonoTypeOK, BoxTypes, OneChain
  <2>2. /\ \A k \in DOMAIN receivedNewRound[m] : receivedNewRound[m][k] = Size(m) + 1
        /\ Len(receivedNewRound[m]) > PeerCount \div 2
    BY <1>1 DEF BoxInv, RoundBoxes
  <2>3. PICK index \in Majority(receivedNewRound[m]) : index = Size(m) + 1
    BY <2>1, <2>2, ConstantBox
  <2> QED
    BY <1>1, <2>1, <2>3 DEF Occupied
<1>2. CASE nodeState[m] = "vote" /\ nodeState[n] = "commit"
  <2>1. Majority(voteHeader[m]) # {}
    BY <1>2 DEF BoxInv, VoteBoxes
  <2> QED
    BY <1>2, <2>1 DEF Occupied
<1>3. CASE nodeState[m] = "commit" /\ nodeState[n] = "waiting"
  <2>1. TimesOut(m) \/ Majority(commits[m]) # {}
    BY <1>3 DEF OneChain, Appends
  <2> QED
    BY <1>3, <2>1 DEF Occupied
<1>4. CASE nodeState[m] = "vote" /\ nodeState[n] = "waiting" /\ TimesOut(m)
  BY <1>4 DEF Occupied
<1>5. CASE nodeState[m] = "sync" \/ (nodeState[m] \in {"new_round", "propose"} /\ Proceeds(m))
  BY <1>5 DEF Occupied
<1> QED
  BY <1>1, <1>2, <1>3, <1>4, <1>5 DEF Ahead

(* At rest all nodes are in the same state.                                 *)
LEMMA RestIsUniform ==
    ASSUME MonoTypeOK, InTurn, OneChain, BoxInv, \A n \in Nodes : ~Occupied(n),
           NEW m \in Nodes, NEW n \in Nodes
    PROVE  nodeState[m] = nodeState[n]
<1>1. Away(m) \in Int /\ Away(n) \in Int
  BY AwayType, PeersAssumption DEF InTurn
<1>2. Away(m) <= Away(n) \/ Away(n) <= Away(m)
  BY <1>1
<1>3. ~Ahead(m, n) /\ ~Ahead(n, m)
  BY BehindIsOccupied
<1> QED
  BY <1>2, <1>3 DEF InTurn

(* Nothing but the clocks and the sweep changes while all nodes are in the  *)
(* same state.                                                              *)
LEMMA UniformStep ==
    ASSUME OneChain, BoxInv, \A m, n \in Nodes : nodeState[m] = nodeState[n],
           UNCHANGED <<nodeState, receivedNewRound, ownVars, boxVars, chainVars>>
    PROVE  OneChain' /\ BoxInv'
<1>0. /\ nodeState' = nodeState /\ receivedNewRound' = receivedNewRound /\ userHeader' = userHeader
      /\ proposeHeader' = proposeHeader /\ voteHeader' = voteHeader /\ commits' = commits /\ blocks' = blocks
  BY DEF ownVars, boxVars, chainVars
<1>1. \A m, n \in Nodes : ~Appends(m, n) /\ ~Appends(m, n)'
  BY <1>0 DEF Appends
<1>2. OneChain'
  BY <1>0, <1>1 DEF OneChain
<1>3. \A n \in Nodes : Size(n)' = Size(n) /\ Extensions(n)' = Extensions(n)
  BY <1>0, ExtensionsKept
<1>4. RoundBoxes'
  BY <1>0, <1>3 DEF BoxInv, RoundBoxes
<1>5. HeaderBoxes'
  BY <1>0, <1>3 DEF BoxInv, HeaderBoxes
<1>6. VoteBoxes'
  BY <1>0, <1>3 DEF BoxInv, VoteBoxes
<1>7. CommitBoxes'
  BY <1>0, <1>3 DEF BoxInv, CommitBoxes
<1> QED
  BY <1>2, <1>4, <1>5, <1>6, <1>7 DEF BoxInv

(* The boxes of a node that begins to wait.                                 *)
LEMMA WaitingBegins ==
    ASSUME MonoTypeOK, BoxInv, NEW s \in Nodes, SetState(s, "waiting"), on_state_waiting_begin(s),
           nodeState[s] \in {"sync", "vote", "commit"},
           \A n \in Nodes : n # s => blocks'[n] = blocks[n],
           \A n \in Nodes : nodeState[n] # "new_round"
    PROVE  BoxInv'
<1> USE DEF MonoTypeOK, BoxTypes
<1>1. /\ nodeState'[s] = "waiting" /\ receivedNewRound'[s] = <<>> /\ userHeader'[s] = {}
      /\ proposeHeader'[s] = {} /\ voteHeader'[s] = <<>> /\ commits'[s] = <<>>
  BY DEF SetState, on_state_waiting_begin
<1>2. \A n \in Nodes : n # s =>
         /\ nodeState'[n] = nodeState[n] /\ receivedNewRound'[n] = receivedNewRound[n]
         /\ userHeader'[n] = userHeader[n] /\ proposeHeader'[n] = proposeHeader[n]
         /\ voteHeader'[n] = voteHeader[n] /\ commits'[n] = commits[n]
  BY DEF SetState, on_state_waiting_begin
<1>3. \A n \in Nodes : n # s => Size(n)' = Size(n) /\ Extensions(n)' = Extensions(n)
  BY ExtensionsKept
<1>4. RoundBoxes'
  <2> SUFFICES ASSUME NEW n \in Nodes, nodeState'[n] = "waiting"
               PROVE  /\ \A k \in DOMAIN receivedNewRound'[n] : receivedNewRound'[n][k] = Size(n)' + 1
                      /\ \A m \in Nodes :
                          /\ nodeState'[m] = "waiting" => receivedNewRound'[m] = receivedNewRound'[n]
                          /\ nodeState'[m] = "new_round" => Len(receivedNewRound'[n]) > PeerCount \div 2
                          /\ nodeState'[m] \in {"sync", "vote", "commit"} => receivedNewRound'[n] = <<>>
    BY DEF RoundBoxes
  <2>1. \A m \in Nodes : nodeState'[m] = "waiting" => receivedNewRound'[m] = <<>>
    BY <1>1, <1>2 DEF BoxInv, RoundBoxes
  <2>2. \A m \in Nodes : nodeState'[m] # "new_round"
    BY <1>1, <1>2
  <2> QED
    BY <2>1, <2>2
<1>5. HeaderBoxes'
  BY <1>1, <1>2, <1>3 DEF BoxInv, HeaderBoxes
<1>6. VoteBoxes'
  <2> SUFFICES ASSUME NEW n \in Nodes
               PROVE  /\ nodeState'[n] \in {"sync", "waiting", "new_round"} => voteHeader'[n] = <<>>
                      /\ nodeState'[n] \in {"new_round", "propose", "vote", "commit"} =>
                            /\ voteHeader'[n] \in Seq(Extensions(n)')
                            /\ \A m \in Nodes : nodeState'[m] \in {"new_round", "propose", "vote", "commit"} =>
                                  voteHeader'[m] = voteHeader'[n]
                      /\ nodeState'[n] = "commit" => Majority(voteHeader'[n]) # {}
    BY DEF VoteBoxes
  <2>1. CASE n = s
    BY <1>1, <2>1
  <2>2. CASE n # s
    <3>1. /\ nodeState[n] \in {"sync", "waiting", "new_round"} => voteHeader[n] = <<>>
          /\ nodeState[n] \in {"new_round", "propose", "vote", "commit"} =>
                /\ voteHeader[n] \in Seq(Extensions(n))
                /\ \A m \in Nodes : nodeState[m] \in {"new_round", "propose", "vote", "commit"} =>
                      voteHeader[m] = voteHeader[n]
          /\ nodeState[n] = "commit" => Majority(voteHeader[n]) # {}
      BY DEF BoxInv, VoteBoxes
    <3> QED
      BY <1>1, <1>2, <1>3, <2>2, <3>1
  <2> QED
    BY <2>1, <2>2
<1>7. CommitBoxes'
  <2> SUFFICES ASSUME NEW n \in Nodes
               PROVE  /\ nodeState'[n] \in {"sync", "waiting", "new_round", "propose"} => commits'[n] = <<>>
                      /\ nodeState'[n] \in {"propose", "vote", "commit"} =>
                            /\ commits'[n] \in Seq(Extensions(n)')
                            /\ \A m \in Nodes : nodeState'[m] \in {"propose", "vote", "commit"} => commits'[m] = commits'[n]
    BY DEF CommitBoxes
  <2>1. CASE n = s
    BY <1>1, <2>1
  <2>2. CASE n # s
    <3>1. /\ nodeState[n] \in {"sync", "waiting", "new_round", "propose"} => commits[n] = <<>>
          /\ nodeState[n] \in {"propose", "vote", "commit"} =>
                /\ commits[n] \in Seq(Extensions(n))
                /\ \A m \in Nodes : nodeState[m] \in {"propose", "vote", "commit"} => commits[m] = commits[n]
      BY DEF BoxInv, CommitBoxes
    <3> QED
      BY <1>1, <1>2, <1>3, <2>2, <3>1
  <2> QED
    BY <2>1, <2>2
<1> QED
  BY <1>4, <1>5, <1>6, <1>7 DEF BoxInv

-----------------------------------------------------------------------------
(* The actions.                                                             *)

LEMMA SyncTurn ==
    ASSUME MonoTypeOK, SameSecond, InTurn, OneChain, BoxInv, NEW s \in Nodes, on_state_sync_main(s)
    PROVE  InTurn' /\ OneChain' /\ BoxInv'
<1>1. Polled(s) /\ nodeState[s] = "sync" /\ SetState(s, "waiting") /\ on_state_waiting_begin(s)
      /\ blocks' = blocks
  BY DEF on_state_sync_main, chainVars
<1>2. \A n \in Nodes : nodeState[n] \in {"sync", "waiting"}
  BY <1>1, PolledIsBehind DEF Ahead
<1>3. nodeState'[s] = "waiting" /\ \A n \in Nodes : n # s => nodeState'[n] = nodeState[n]
  BY <1>1 DEF SetState, MonoTypeOK
<1>4. InTurn'
  <2>1. \A n \in Nodes : n # s => nodeState[n] = "waiting" \/ Ahead(n, s)'
    BY <1>2, <1>3 DEF Ahead
  <2> QED
    BY <1>1, <2>1, TurnMoves DEF States
<1>5. OneChain'
  <2>1. \A m, n \in Nodes : ~Appends(m, n) /\ ~Appends(m, n)'
    BY <1>2, <1>3 DEF Appends
  <2> QED
    BY <1>1, <2>1 DEF OneChain
<1>6. BoxInv'
  BY <1>1, <1>2, WaitingBegins
<1> QED
  BY <1>4, <1>5, <1>6

LEMMA FailedTurn ==
    ASSUME MonoTypeOK, SameSecond, InTurn, OneChain, BoxInv, NEW s \in Nodes, ConsensusFailed(s)
    PROVE  InTurn' /\ OneChain' /\ BoxInv'
<1>1. Polled(s) /\ TimesOut(s) /\ SetState(s, "waiting") /\ on_state_waiting_begin(s)
      /\ blocks' = blocks /\ second' = second
  BY DEF ConsensusFailed, chainVars, Polled, timeVars
<1>2. nodeState[s] \in {"vote", "commit"}
      /\ \A n \in Nodes : nodeState[n] = nodeState[s] \/ nodeState[n] = "waiting"
  BY <1>1, PolledIsBehind DEF Ahead, TimesOut
<1>3. nodeState'[s] = "waiting" /\ \A n \in Nodes : n # s => nodeState'[n] = nodeState[n]
  BY <1>1 DEF SetState, MonoTypeOK
<1>4. \A n \in Nodes : nodeState[n] = nodeState[s] => TimesOut(n)
  BY <1>1, SameTimes DEF TimesOut
<1>5. \A n \in Nodes : n # s => (TimesOut(n)' <=> TimesOut(n))
  BY <1>1, <1>3 DEF TimesOut, StepTime
<1>6. InTurn'
  <2>1. \A n \in Nodes : n # s => nodeState[n] = "waiting" \/ Ahead(n, s)'
    BY <1>2, <1>3, <1>4, <1>5 DEF Ahead
  <2> QED
    BY <1>1, <2>1, TurnMoves DEF States
<1>7. OneChain'
  <2>1. \A m, n \in Nodes : ~Appends(m, n) /\ ~Appends(m, n)'
    BY <1>2, <1>3, <1>4, <1>5 DEF Appends
  <2> QED
    BY <1>1, <2>1 DEF OneChain
<1>8. BoxInv'
  BY <1>1, <1>2, WaitingBegins
<1> QED
  BY <1>6, <1>7, <1>8

LEMMA UndecidedTurn ==
    ASSUME MonoTypeOK, SameSecond, InTurn, OneChain, BoxInv, NEW s \in Nodes, Undecided(s)
    PROVE  InTurn' /\ OneChain' /\ BoxInv'
<1>1. /\ Polled(s) /\ nodeState[s] \notin {"sync", "waiting"} /\ ~Proceeds(s) /\ ~TimesOut(s)
      /\ nodeState[s] = "vote" => Majority(voteHeader[s]) = {}
      /\ nodeState[s] = "commit" => Majority(commits[s]) = {}
  BY DEF Undecided
<1>2. \A n \in Nodes : ~Ahead(s, n)
  <2> SUFFICES ASSUME NEW n \in Nodes, Ahead(s, n) PROVE FALSE
    OBVIOUS
  <2>1. nodeState[s] \in {"vote", "commit"}
    BY <1>1 DEF Ahead
  <2> QED
    BY <1>1, <2>1, BehindIsOccupied
<1>3. \A m, n \in Nodes : nodeState[m] = nodeState[n]
  BY <1>1, <1>2, PolledIsBehind
<1>4. nodeState' = nodeState /\ sweep' \in Nodes
  BY <1>1, AwayStep DEF Undecided
<1>5. InTurn'
  BY <1>3, <1>4, TurnStays
<1>6. UNCHANGED <<nodeState, receivedNewRound, ownVars, boxVars, chainVars>>
  BY DEF Undecided, roundVars
<1> QED
  BY <1>3, <1>5, <1>6, UniformStep

LEMMA TickTurn ==
    ASSUME MonoTypeOK, InTurn, OneChain, BoxInv, timely, Tick
    PROVE  InTurn' /\ OneChain' /\ BoxInv'
<1>1. \A n \in Nodes : ~Occupied(n)
  BY DEF Tick
<1>2. \A m, n \in Nodes : nodeState[m] = nodeState[n]
  BY <1>1, RestIsUniform
<1>3. UNCHANGED <<nodeState, receivedNewRound, ownVars, boxVars, chainVars>> /\ sweep' \in Nodes
  BY DEF Tick, roundVars, InTurn
<1> QED
  BY <1>2, <1>3, TurnStays, UniformStep

LEMMA NoVotes ==
    ASSUME \A n \in Nodes : voteHeader'[n] = <<>> /\ nodeState'[n] # "commit"
    PROVE  VoteBoxes'
<1>1. \A n \in Nodes : <<>> \in Seq(Extensions(n)')
  OBVIOUS
<1> QED
  BY <1>1 DEF VoteBoxes

LEMMA NoCommits ==
    ASSUME \A n \in Nodes : commits'[n] = <<>>
    PROVE  CommitBoxes'
<1>1. \A n \in Nodes : <<>> \in Seq(Extensions(n)')
  OBVIOUS
<1> QED
  BY <1>1 DEF CommitBoxes

(* The block made for the next round extends the chain.                     *)
LEMMA CreatedExtends ==
    ASSUME MonoTypeOK, OneChain, NEW s \in Nodes, NEW index, index = Size(s) + 1,
           NEW b \in create_block_for(s, index)
    PROVE  b \in Extensions(s)
<1>1. Size(s) \in Nat
  BY ChainSize DEF OneChain
<1>2. b = [index |-> index, owner |-> s, round |-> Round(s),
           prev |-> IF index > 1 THEN HashOf(blocks[s][index - 1]) ELSE NoHash]
  BY DEF create_block_for
<1>3. (IF index > 1 THEN HashOf(blocks[s][index - 1]) ELSE NoHash) = LastHashOf(s)
  <2>1. index - 1 = Size(s) /\ (index > 1 <=> Size(s) # 0)
    BY <1>1
  <2> QED
    BY <2>1 DEF LastHashOf
<1>4. Round(s) \in Nat
  BY RoundTypes
<1> QED
  BY <1>2, <1>3, <1>4 DEF Extensions

LEMMA WaitingTurn ==
    ASSUME MonoTypeOK, SameSecond, InTurn, OneChain, BoxInv, NEW s \in Nodes, on_state_waiting_main(s)
    PROVE  InTurn' /\ OneChain' /\ BoxInv'
<1>1. /\ Polled(s) /\ nodeState[s] = "waiting" /\ receivedNewRound' = Received(s)
      /\ UNCHANGED <<boxVars, chainVars>>
  BY DEF on_state_waiting_main
<1>2. /\ proposeHeader' = proposeHeader /\ voteHeader' = voteHeader /\ commits' = commits
      /\ blocks' = blocks /\ second' = second
  BY <1>1 DEF boxVars, chainVars, Polled, timeVars
<1>3. \A n \in Nodes : nodeState[n] \in {"waiting", "new_round"}
  BY <1>1, PolledIsBehind DEF Ahead
<1>4. \A m, n \in Nodes : blocks[m] = blocks[n]
  BY <1>3 DEF OneChain, Appends
<1>5. \A n \in Nodes : Size(n) = Size(s) /\ Extensions(n) = Extensions(s) /\ Size(n) \in Nat
  BY <1>4, ExtensionsSame, ChainSize DEF OneChain
<1>6. \A n \in Nodes : Size(n)' = Size(n) /\ Extensions(n)' = Extensions(n)
  BY <1>2, ExtensionsKept
<1>7. \A n \in Nodes : receivedNewRound'[n] \in Seq(Nat) /\ receivedNewRound[n] \in Seq(Nat)
  BY <1>1, ReceivedType DEF MonoTypeOK, BoxTypes
<1> DEFINE R == receivedNewRound'
<1>8. ASSUME NEW n \in Nodes, nodeState[n] = "waiting"
      PROVE  /\ R[n] = R[s]
             /\ \A k \in DOMAIN R[n] : R[n][k] = Size(s) + 1
             /\ Len(receivedNewRound[n]) <= Len(R[n])
  <2>1. receivedNewRound[n] = receivedNewRound[s]
        /\ \A k \in DOMAIN receivedNewRound[n] : receivedNewRound[n][k] = Size(s) + 1
    BY <1>1, <1>5, <1>8 DEF BoxInv, RoundBoxes
  <2>2. CASE ~SendsNewRound(s)
    <3>1. R = receivedNewRound
      BY <1>1, <2>2 DEF Received
    <3>2. Len(receivedNewRound[n]) \in Nat
      BY <1>7
    <3> QED
      BY <2>1, <3>1, <3>2
  <2>3. CASE SendsNewRound(s)
    <3>1. R[n] = Append(receivedNewRound[n], Size(s) + 1) /\ R[s] = Append(receivedNewRound[s], Size(s) + 1)
      BY <1>1, <2>3 DEF Received
    <3>2. Len(R[n]) = Len(receivedNewRound[n]) + 1 /\ Len(receivedNewRound[n]) \in Nat
      BY <1>7, <3>1
    <3>3. \A k \in DOMAIN R[n] : R[n][k] = Size(s) + 1
      BY <1>5, <1>7, <2>1, <3>1
    <3> QED
      BY <2>1, <3>1, <3>2, <3>3
  <2> QED
    BY <2>2, <2>3
<1>9. /\ \A w \in Majority(R[s]) : w = Size(s) + 1
      /\ Majority(R[s]) # {} <=> Len(R[s]) > PeerCount \div 2
  <2>1. R[s] \in Seq(Nat) /\ Size(s) + 1 \in Nat /\ \A k \in DOMAIN R[s] : R[s][k] = Size(s) + 1
    BY <1>1, <1>5, <1>7, <1>8
  <2> HIDE DEF R
  <2> QED
    BY <2>1, ConstantBox
<1>10. PeerCount \div 2 \in Nat /\ \A n \in Nodes : Len(R[n]) \in Nat /\ Len(receivedNewRound[n]) \in Nat
  BY <1>7, PeersAssumption
<1>11. OneChain' /\ VoteBoxes' /\ CommitBoxes'
       /\ (\A n \in Nodes : nodeState'[n] \in {"waiting", "new_round"})
       /\ InTurn' /\ HeaderBoxes'
       /\ (\A n \in Nodes : nodeState'[n] = "waiting" => nodeState[n] = "waiting")
       /\ ((\E n \in Nodes : nodeState'[n] = "new_round") => Len(R[s]) > PeerCount \div 2)
  <2>1. ASSUME \A n \in Nodes : nodeState'[n] \in {"waiting", "new_round"}
        PROVE  OneChain' /\ VoteBoxes' /\ CommitBoxes'
    <3>1. OneChain'
      BY <1>2, <1>4, <2>1 DEF OneChain, Appends
    <3>2. VoteBoxes'
      BY <1>2, <1>3, <2>1, NoVotes DEF BoxInv, VoteBoxes
    <3>3. CommitBoxes'
      BY <1>2, <1>3, NoCommits DEF BoxInv, CommitBoxes
    <3> QED
      BY <3>1, <3>2, <3>3
  <2>2. ASSUME NEW index \in Majority(R[s]), SetState(s, "new_round"), on_state_new_round_begin(s, index)
        PROVE  /\ (\A n \in Nodes : nodeState'[n] \in {"waiting", "new_round"})
               /\ InTurn' /\ HeaderBoxes'
               /\ (\A n \in Nodes : nodeState'[n] = "waiting" => nodeState[n] = "waiting")
               /\ Len(R[s]) > PeerCount \div 2
    <3>1. nodeState'[s] = "new_round" /\ \A n \in Nodes : n # s => nodeState'[n] = nodeState[n]
      BY <2>2 DEF SetState, MonoTypeOK
    <3>2. InTurn'
      <4>1. \A n \in Nodes : n # s => nodeState[n] = "new_round" \/ Ahead(n, s)'
        BY <1>3, <3>1 DEF Ahead
      <4> QED
        BY <1>1, <2>2, <4>1, TurnMoves DEF States
    <3>3. index = Size(s) + 1 /\ Len(R[s]) > PeerCount \div 2
      BY <1>9, <2>2
    <3>4. userHeader'[s] \subseteq Extensions(s) /\ \A n \in Nodes : n # s => userHeader'[n] = userHeader[n]
      <4>1. userHeader[s] = {} /\ userHeader \in [Nodes -> SUBSET Headers]
        BY <1>1 DEF BoxInv, HeaderBoxes, MonoTypeOK, BoxTypes
      <4>2. CASE create_block_for(s, index) = {}
        BY <2>2, <4>1, <4>2 DEF on_state_new_round_begin, ownVars
      <4>3. CASE create_block_for(s, index) # {}
        <5>1. PICK b \in create_block_for(s, index) : userHeader' = [userHeader EXCEPT ![s] = @ \cup {b}]
          BY <2>2, <4>3 DEF on_state_new_round_begin
        <5>2. b \in Extensions(s)
          BY <3>3, <5>1, CreatedExtends
        <5> QED
          BY <4>1, <5>1, <5>2
      <4> QED
        BY <4>2, <4>3
    <3>5. HeaderBoxes'
      <4> SUFFICES ASSUME NEW n \in Nodes
                   PROVE  /\ nodeState'[n] \in {"sync", "waiting"} => userHeader'[n] = {} /\ proposeHeader'[n] = {}
                          /\ nodeState'[n] = "new_round" => userHeader'[n] \subseteq Extensions(n)'
                          /\ nodeState'[n] \in {"new_round", "propose"} => proposeHeader'[n] \subseteq Extensions(n)'
        BY DEF HeaderBoxes
      <4>1. /\ nodeState[n] \in {"sync", "waiting"} => userHeader[n] = {} /\ proposeHeader[n] = {}
            /\ nodeState[n] = "new_round" => userHeader[n] \subseteq Extensions(n)
            /\ nodeState[n] \in {"new_round", "propose"} => proposeHeader[n] \subseteq Extensions(n)
        BY DEF BoxInv, HeaderBoxes
      <4> QED
        BY <1>1, <1>2, <1>6, <3>1, <3>4, <4>1
    <3> QED
      BY <1>3, <3>1, <3>2, <3>3, <3>5
  <2>3. ASSUME \A index \in Majority(R[s]) : ~(index = Size(s) + 1), UNCHANGED <<nodeState, ownVars>>
        PROVE  /\ (\A n \in Nodes : nodeState'[n] \in {"waiting", "new_round"})
               /\ InTurn' /\ HeaderBoxes'
               /\ (\A n \in Nodes : nodeState'[n] = "waiting" => nodeState[n] = "waiting")
               /\ ~(\E n \in Nodes : nodeState'[n] = "new_round")
    <3>1. Len(R[s]) <= PeerCount \div 2
      BY <1>9, <1>10, <2>3
    <3>2. \A n \in Nodes : nodeState[n] = "waiting"
      <4> SUFFICES ASSUME NEW n \in Nodes, nodeState[n] = "new_round" PROVE FALSE
        BY <1>3
      <4>1. Len(receivedNewRound[s]) > PeerCount \div 2
        BY <1>1 DEF BoxInv, RoundBoxes
      <4>2. Len(receivedNewRound[s]) <= Len(R[s])
        BY <1>1, <1>8
      <4> QED
        BY <1>10, <3>1, <4>1, <4>2
    <3>3. InTurn'
      <4>1. sweep' \in Nodes
        BY <1>1, AwayStep
      <4> QED
        BY <2>3, <3>2, <4>1, TurnStays
    <3>4. HeaderBoxes'
      BY <1>2, <2>3, <3>2 DEF BoxInv, HeaderBoxes, ownVars
    <3> QED
      BY <2>3, <3>2, <3>3, <3>4
  <2>4. \/ \E index \in Majority(R[s]) : SetState(s, "new_round") /\ on_state_new_round_begin(s, index)
        \/ \E index \in Majority(R[s]) : index # Size(s) + 1
        \/ (\A index \in Majority(R[s]) : ~(index = Size(s) + 1)) /\ UNCHANGED <<nodeState, ownVars>>
    BY <1>1 DEF on_state_waiting_main, Joins
  <2>5. \A index \in Majority(R[s]) : index = Size(s) + 1
    BY <1>9
  <2> HIDE DEF R
  <2> QED
    BY <2>1, <2>2, <2>3, <2>4, <2>5
<1>12. RoundBoxes'
  <2> SUFFICES ASSUME NEW n \in Nodes, nodeState'[n] = "waiting"
               PROVE  /\ \A k \in DOMAIN R[n] : R[n][k] = Size(n)' + 1
                      /\ \A m \in Nodes :
                          /\ nodeState'[m] = "waiting" => R[m] = R[n]
                          /\ nodeState'[m] = "new_round" => Len(R[n]) > PeerCount \div 2
                          /\ nodeState'[m] \in {"sync", "vote", "commit"} => R[n] = <<>>
    BY DEF RoundBoxes
  <2>1. \A m \in Nodes : nodeState'[m] = "waiting" => R[m] = R[s] /\ \A k \in DOMAIN R[m] : R[m][k] = Size(s) + 1
    BY <1>8, <1>11
  <2>2. Size(n)' = Size(s)
    BY <1>5, <1>6
  <2> HIDE DEF R
  <2> QED
    BY <1>11, <2>1, <2>2
<1> QED
  BY <1>11, <1>12 DEF BoxInv

LEMMA NewRoundTurn ==
    ASSUME MonoTypeOK, SameSecond, InTurn, OneChain, BoxInv, NEW s \in Nodes, on_state_new_round_main(s)
    PROVE  InTurn' /\ OneChain' /\ BoxInv'
<1>1. /\ Polled(s) /\ nodeState[s] = "new_round" /\ Proceeds(s) /\ SetState(s, "propose")
      /\ proposeHeader' = [m \in Nodes |-> proposeHeader[m] \cup low_value(userHeader[s])]
      /\ second' = second /\ receivedNewRound' = receivedNewRound /\ userHeader' = userHeader
      /\ voteHeader' = voteHeader /\ commits' = commits /\ blocks' = blocks
  BY DEF on_state_new_round_main, on_state_propose_begin, roundVars, ownVars, chainVars, Polled, timeVars
<1>2. \A n \in Nodes : nodeState[n] \in {"new_round", "propose"}
  BY <1>1, PolledIsBehind DEF Ahead
<1>3. nodeState'[s] = "propose" /\ \A n \in Nodes : n # s => nodeState'[n] = nodeState[n]
  BY <1>1 DEF SetState, MonoTypeOK
<1>4. InTurn'
  <2>1. \A n \in Nodes : n # s /\ nodeState[n] = "new_round" => Proceeds(n)'
    BY <1>1, <1>3, SameTimes DEF Proceeds, StepTime, SameSecond
  <2>2. \A n \in Nodes : n # s => nodeState[n] = "propose" \/ Ahead(n, s)'
    BY <1>2, <1>3, <2>1 DEF Ahead
  <2> QED
    BY <1>1, <2>2, TurnMoves DEF States
<1>5. \A m, n \in Nodes : ~Appends(m, n) /\ ~Appends(m, n)'
  BY <1>2, <1>3 DEF Appends
<1>6. OneChain'
  BY <1>1, <1>5 DEF OneChain
<1>7. \A n \in Nodes : Extensions(n) = Extensions(s) /\ Extensions(n)' = Extensions(n)
  BY <1>1, <1>5, ExtensionsSame, ExtensionsKept DEF OneChain
<1>8. low_value(userHeader[s]) \subseteq Extensions(s)
  BY <1>1 DEF low_value, BoxInv, HeaderBoxes
<1>9. \A n \in Nodes : nodeState'[n] \in {"new_round", "propose"} /\ (nodeState'[n] = "new_round" => nodeState[n] = "new_round")
  BY <1>2, <1>3
<1>10. HeaderBoxes'
  <2>1. \A n \in Nodes : proposeHeader'[n] \subseteq Extensions(n)'
    BY <1>1, <1>2, <1>7, <1>8 DEF BoxInv, HeaderBoxes
  <2>2. \A n \in Nodes : nodeState'[n] = "new_round" => userHeader'[n] \subseteq Extensions(n)'
    BY <1>1, <1>7, <1>9 DEF BoxInv, HeaderBoxes
  <2> QED
    BY <1>9, <2>1, <2>2 DEF HeaderBoxes
<1>12. VoteBoxes'
  <2>1. \A n \in Nodes : voteHeader[n] = <<>>
    BY <1>1, <1>2 DEF BoxInv, VoteBoxes
  <2> QED
    BY <1>1, <1>9, <2>1, NoVotes
<1>13. CommitBoxes'
  BY <1>1, <1>2, NoCommits DEF BoxInv, CommitBoxes
<1>14. RoundBoxes'
  BY <1>9 DEF RoundBoxes
<1> QED
  BY <1>4, <1>6, <1>10, <1>12, <1>13, <1>14 DEF BoxInv

LEMMA ProposeTurn ==
    ASSUME MonoTypeOK, SameSecond, InTurn, OneChain, BoxInv, NEW s \in Nodes, on_state_propose_main(s)
    PROVE  InTurn' /\ OneChain' /\ BoxInv'
<1>1. /\ Polled(s) /\ nodeState[s] = "propose" /\ Proceeds(s) /\ SetState(s, "vote")
      /\ on_state_vote_begin(s)
      /\ second' = second /\ receivedNewRound' = receivedNewRound /\ userHeader' = userHeader
      /\ proposeHeader' = proposeHeader /\ commits' = commits /\ blocks' = blocks
  BY DEF on_state_propose_main, roundVars, ownVars, chainVars, Polled, timeVars
<1>2. \A n \in Nodes : nodeState[n] \in {"propose", "vote"}
  BY <1>1, PolledIsBehind DEF Ahead
<1>3. nodeState'[s] = "vote" /\ \A n \in Nodes : n # s => nodeState'[n] = nodeState[n]
  BY <1>1 DEF SetState, MonoTypeOK
<1>4. \A n \in Nodes : nodeState'[n] \in {"propose", "vote"} /\ (nodeState'[n] = "propose" => nodeState[n] = "propose")
  BY <1>2, <1>3
<1>5. InTurn'
  <2>1. \A n \in Nodes : n # s /\ nodeState[n] = "propose" => Proceeds(n)'
    BY <1>1, <1>3, SameTimes DEF Proceeds, StepTime, SameSecond
  <2>2. \A n \in Nodes : n # s => nodeState[n] = "vote" \/ Ahead(n, s)'
    BY <1>2, <1>3, <2>1 DEF Ahead
  <2> QED
    BY <1>1, <2>2, TurnMoves DEF States
<1>6. \A m, n \in Nodes : ~Appends(m, n) /\ ~Appends(m, n)'
  BY <1>2, <1>4 DEF Appends
<1>7. OneChain'
  BY <1>1, <1>6 DEF OneChain
<1>8. \A n \in Nodes : Extensions(n) = Extensions(s) /\ Extensions(n)' = Extensions(n)
  BY <1>1, <1>6, ExtensionsSame, ExtensionsKept DEF OneChain
<1>9. HeaderBoxes'
  BY <1>1, <1>4, <1>8 DEF BoxInv, HeaderBoxes
<1>10. \A m, n \in Nodes : voteHeader'[n] \in Seq(Extensions(n)) /\ voteHeader'[m] = voteHeader'[n]
  <2>1. \A m, n \in Nodes : voteHeader[n] \in Seq(Extensions(s)) /\ voteHeader[m] = voteHeader[n]
    BY <1>2, <1>8 DEF BoxInv, VoteBoxes
  <2>2. CASE proposeHeader[s] = {}
    BY <1>1, <1>8, <2>1, <2>2 DEF on_state_vote_begin
  <2>3. CASE proposeHeader[s] # {}
    <3>1. PICK h \in low_value(proposeHeader[s]) : voteHeader' = [m \in Nodes |-> Append(voteHeader[m], h)]
      BY <1>1, <2>3 DEF on_state_vote_begin
    <3>2. h \in Extensions(s)
      BY <1>1, <3>1 DEF low_value, BoxInv, HeaderBoxes
    <3>3. \A n \in Nodes : voteHeader'[n] = Append(voteHeader[n], h)
      BY <3>1
    <3>4. \A n \in Nodes : Append(voteHeader[n], h) \in Seq(Extensions(s))
      BY <2>1, <3>2
    <3> QED
      BY <1>8, <2>1, <3>3, <3>4
  <2> QED
    BY <2>2, <2>3
<1>11. VoteBoxes'
  BY <1>4, <1>8, <1>10 DEF VoteBoxes
<1>12. CommitBoxes'
  <2>1. \A n \in Nodes : commits[n] = <<>>
    BY <1>1, <1>2 DEF BoxInv, CommitBoxes
  <2> QED
    BY <1>1, <2>1, NoCommits
<1>13. RoundBoxes'
  BY <1>4 DEF RoundBoxes
<1> QED
  BY <1>5, <1>7, <1>9, <1>11, <1>12, <1>13 DEF BoxInv

LEMMA VoteTurn ==
    ASSUME MonoTypeOK, SameSecond, InTurn, OneChain, BoxInv, NEW s \in Nodes, on_state_vote_main(s)
    PROVE  InTurn' /\ OneChain' /\ BoxInv'
<1>1. /\ Polled(s) /\ nodeState[s] = "vote" /\ ~TimesOut(s)
      /\ second' = second /\ receivedNewRound' = receivedNewRound /\ userHeader' = userHeader
      /\ proposeHeader' = proposeHeader /\ voteHeader' = voteHeader /\ blocks' = blocks
  BY DEF on_state_vote_main, roundVars, ownVars, chainVars, Polled, timeVars
<1>2. PICK h \in Majority(voteHeader[s]) : SetState(s, "commit") /\ on_state_commit_begin(s, h)
  BY DEF on_state_vote_main
<1>3. \A n \in Nodes : nodeState[n] \in {"vote", "commit"}
  BY <1>1, PolledIsBehind DEF Ahead
<1>4. nodeState'[s] = "commit" /\ \A n \in Nodes : n # s => nodeState'[n] = nodeState[n]
  BY <1>2 DEF SetState, MonoTypeOK
<1>5. \A n \in Nodes : nodeState'[n] \in {"vote", "commit"}
  BY <1>3, <1>4
<1>6. InTurn'
  <2>1. \A n \in Nodes : n # s /\ nodeState[n] = "vote" => ~TimesOut(n)'
    BY <1>1, <1>4, SameTimes DEF TimesOut, StepTime, SameSecond
  <2>2. \A n \in Nodes : n # s => nodeState[n] = "commit" \/ Ahead(n, s)'
    BY <1>3, <1>4, <2>1 DEF Ahead
  <2> QED
    BY <1>1, <1>2, <2>2, TurnMoves DEF States
<1>7. \A m, n \in Nodes : ~Appends(m, n) /\ ~Appends(m, n)'
  BY <1>3, <1>5 DEF Appends
<1>8. OneChain'
  BY <1>1, <1>7 DEF OneChain
<1>9. \A n \in Nodes : Extensions(n) = Extensions(s) /\ Extensions(n)' = Extensions(n)
  BY <1>1, <1>7, ExtensionsSame, ExtensionsKept DEF OneChain
<1>10. \A m, n \in Nodes : voteHeader[n] \in Seq(Extensions(n)) /\ voteHeader[m] = voteHeader[n]
  BY <1>3 DEF BoxInv, VoteBoxes
<1>11. VoteBoxes'
  <2>1. \A n \in Nodes : Majority(voteHeader[n]) # {}
    BY <1>2, <1>10
  <2> QED
    BY <1>1, <1>5, <1>9, <1>10, <2>1 DEF VoteBoxes
<1>12. CommitBoxes'
  <2>1. \A m, n \in Nodes : commits[n] \in Seq(Extensions(s)) /\ commits[m] = commits[n]
    BY <1>3, <1>9 DEF BoxInv, CommitBoxes
  <2>2. h \in Extensions(s)
    BY <1>2, <1>10, MajorityCounts
  <2>3. \A n \in Nodes : Append(commits[n], h) \in Seq(Extensions(s))
    BY <2>1, <2>2
  <2>4. commits' = commits \/ \A n \in Nodes : commits'[n] = Append(commits[n], h)
    BY <1>2 DEF on_state_commit_begin
  <2>5. \A m, n \in Nodes : commits'[n] \in Seq(Extensions(s)) /\ commits'[m] = commits'[n]
    BY <2>1, <2>3, <2>4
  <2> QED
    BY <1>5, <1>9, <2>5 DEF CommitBoxes
<1>13. RoundBoxes' /\ HeaderBoxes'
  BY <1>5 DEF RoundBoxes, HeaderBoxes
<1> QED
  BY <1>6, <1>8, <1>11, <1>12, <1>13 DEF BoxInv

(* append_block on a header that extends the chain.                         *)
LEMMA ExtensionAppended ==
    ASSUME MonoTypeOK, NEW s \in Nodes, blocks[s] \in Seq(Headers),
           NEW b \in Extensions(s), append_block(s, b)
    PROVE  /\ b \in Headers
           /\ blocks'[s] = Append(blocks[s], b)
           /\ \A n \in Nodes : n # s => blocks'[n] = blocks[n]
<1>1. Size(s) = Len(blocks[s]) /\ Size(s) \in Nat /\ DOMAIN blocks[s] = 1 .. Size(s)
  BY ChainSize
<1>2. b.index = Size(s) + 1 /\ b.index \notin DOMAIN blocks[s]
  BY <1>1 DEF Extensions
<1> DEFINE longer == [j \in DOMAIN blocks[s] \cup {b.index} |-> IF j = b.index THEN b ELSE blocks[s][j]]
<1>3. blocks' = [blocks EXCEPT ![s] = longer]
  BY <1>2 DEF append_block
<1>4. DOMAIN blocks = Nodes
  BY DEF MonoTypeOK, ChainTypes
<1>5. b \in Headers
  <2>1. LastHashOf(s) \in Hashes
    <3>1. CASE Size(s) = 0
      BY <3>1 DEF LastHashOf, Hashes
    <3>2. CASE Size(s) # 0
      <4>1. blocks[s][Size(s)] \in Headers
        BY <1>1, <3>2
      <4> QED
        BY <3>2, <4>1 DEF LastHashOf, Hashes, HashOf, Headers
    <3> QED
      BY <3>1, <3>2
  <2> QED
    BY <1>1, <2>1 DEF Extensions, Headers
<1>6. longer = Append(blocks[s], b)
  <2>1. DOMAIN longer = 1 .. Len(blocks[s]) + 1
    BY <1>1, <1>2
  <2>2. DOMAIN Append(blocks[s], b) = 1 .. Len(blocks[s]) + 1
    BY <1>5
  <2>3. \A j \in 1 .. Len(blocks[s]) + 1 : longer[j] = Append(blocks[s], b)[j]
    BY <1>1, <1>2, <1>5
  <2>4. longer = [j \in 1 .. Len(blocks[s]) + 1 |-> longer[j]]
    BY <2>1
  <2>5. Append(blocks[s], b) = [j \in 1 .. Len(blocks[s]) + 1 |-> Append(blocks[s], b)[j]]
    <3>1. Append(blocks[s], b) \in Seq(Headers)
      BY <1>5
    <3> QED
      BY <2>2, <3>1
  <2> HIDE DEF longer
  <2> QED
    BY <2>3, <2>4, <2>5
<1> HIDE DEF longer
<1> QED
  BY <1>3, <1>4, <1>5, <1>6

LEMMA CommitTurn ==
    ASSUME MonoTypeOK, SameSecond, InTurn, OneChain, BoxInv, NEW s \in Nodes, on_state_commit_main(s)
    PROVE  /\ InTurn' /\ OneChain' /\ BoxInv'
           /\ \E b \in Extensions(s) : /\ b \in Headers /\ b \in Majority(commits[s])
                                       /\ blocks'[s] = Append(blocks[s], b)
           /\ \A n \in Nodes : n # s => blocks'[n] = blocks[n]
           /\ \A n \in Nodes : blocks[n] = blocks[s] \/ blocks[n] = blocks'[s]
<1>1. /\ Polled(s) /\ nodeState[s] = "commit" /\ ~TimesOut(s) /\ SetState(s, "waiting")
      /\ on_state_waiting_begin(s) /\ second' = second
  BY DEF on_state_commit_main, Polled, timeVars
<1>2. PICK b \in Majority(commits[s]) : append_block(s, b)
  BY DEF on_state_commit_main
<1>3. \A n \in Nodes : nodeState[n] \in {"commit", "waiting"}
  BY <1>1, PolledIsBehind DEF Ahead
<1>4. nodeState'[s] = "waiting" /\ \A n \in Nodes : n # s => nodeState'[n] = nodeState[n]
  BY <1>1 DEF SetState, MonoTypeOK
<1>5. \A n \in Nodes : nodeState[n] = "commit" => commits[n] = commits[s] /\ ~TimesOut(n)
  BY <1>1, SameTimes DEF BoxInv, CommitBoxes, TimesOut
<1>6. \A n \in Nodes : n # s /\ nodeState[n] = "commit" => ~TimesOut(n)' /\ commits'[n] = commits[s]
  BY <1>1, <1>4, <1>5 DEF TimesOut, StepTime, on_state_waiting_begin, MonoTypeOK, BoxTypes
<1>7. commits[s] \in Seq(Extensions(s)) /\ b \in Extensions(s)
  BY <1>1, <1>2, MajorityCounts DEF BoxInv, CommitBoxes
<1>8. /\ b \in Headers /\ blocks'[s] = Append(blocks[s], b)
      /\ \A n \in Nodes : n # s => blocks'[n] = blocks[n]
  BY <1>2, <1>7, ExtensionAppended DEF OneChain
<1>9. \A n \in Nodes : nodeState[n] = "commit" => blocks[n] = blocks[s]
  BY <1>1 DEF OneChain, Appends
<1>10. \A n \in Nodes : nodeState[n] = "waiting" => blocks[n] = Append(blocks[s], b)
  <2> SUFFICES ASSUME NEW n \in Nodes, nodeState[n] = "waiting" PROVE blocks[n] = Append(blocks[s], b)
    OBVIOUS
  <2>1. PICK c \in Majority(commits[s]) : blocks[n] = Append(blocks[s], c)
    BY <1>1 DEF OneChain, Appends
  <2>2. b = c
    BY <1>2, <1>7, <2>1, MajorityUnique
  <2> QED
    BY <2>1, <2>2
<1>11. InTurn'
  <2>1. \A n \in Nodes : n # s => nodeState[n] = "waiting" \/ Ahead(n, s)'
    BY <1>3, <1>4 DEF Ahead
  <2> QED
    BY <1>1, <2>1, TurnMoves DEF States
<1>12. BoxInv'
  BY <1>1, <1>3, <1>8, WaitingBegins
<1>13. OneChain'
  <2> DEFINE grown == Append(blocks[s], b)
  <2>1. \A n \in Nodes : \/ /\ nodeState'[n] = "commit" /\ ~TimesOut(n)'
                            /\ blocks'[n] = blocks[s] /\ commits'[n] = commits[s]
                         \/ nodeState'[n] = "waiting" /\ blocks'[n] = grown
    BY <1>3, <1>4, <1>6, <1>8, <1>9, <1>10
  <2>2. blocks[s] \in Seq(Headers) /\ grown \in Seq(Headers)
    BY <1>8 DEF OneChain
  <2> HIDE DEF grown
  <2>3. \A n \in Nodes : blocks'[n] \in Seq(Headers)
    BY <2>1, <2>2
  <2>4. ASSUME NEW m \in Nodes, NEW n \in Nodes, Appends(m, n)'
        PROVE  \E c \in Majority(commits'[m]) : blocks'[n] = Append(blocks'[m], c)
    <3>1. blocks'[m] = blocks[s] /\ commits'[m] = commits[s] /\ blocks'[n] = grown
      BY <2>1, <2>4 DEF Appends
    <3> QED
      BY <1>2, <3>1 DEF grown
  <2>5. ASSUME NEW m \in Nodes, NEW n \in Nodes, ~Appends(m, n)', ~Appends(n, m)'
        PROVE  blocks'[m] = blocks'[n]
    BY <2>1, <2>5 DEF Appends
  <2> QED
    BY <2>3, <2>4, <2>5 DEF OneChain
<1> QED
  BY <1>2, <1>3, <1>7, <1>8, <1>9, <1>10, <1>11, <1>12, <1>13

-----------------------------------------------------------------------------
LEMMA TurnInit == Init => TurnInv
<1> SUFFICES ASSUME Init, timely PROVE SameSecond /\ InTurn /\ OneChain /\ BoxInv
  BY DEF TurnInv
<1>1. SameSecond
  BY DEF Init, SameSecond
<1>2. \A n \in Nodes : /\ nodeState[n] = "sync" /\ userHeader[n] = {} /\ proposeHeader[n] = {}
                       /\ voteHeader[n] = <<>> /\ commits[n] = <<>> /\ blocks[n] = <<>>
  BY DEF Init
<1>3. sweep \in Nodes
  BY PeersAssumption DEF Init, Nodes
<1>4. InTurn
  BY <1>2, <1>3 DEF InTurn
<1>5. OneChain
  <2>1. <<>> \in Seq(Headers)
    OBVIOUS
  <2> QED
    BY <1>2, <2>1 DEF OneChain, Appends
<1>6. BoxInv
  BY <1>2 DEF BoxInv, RoundBoxes, HeaderBoxes, VoteBoxes, CommitBoxes
<1> QED
  BY <1>1, <1>4, <1>5, <1>6

LEMMA TurnStep == MonoTypeOK /\ MonoTypeOK' /\ TurnInv /\ [Next]_vars => TurnInv'
<1> SUFFICES ASSUME MonoTypeOK, MonoTypeOK', TurnInv, [Next]_vars, timely'
             PROVE  SameSecond' /\ InTurn' /\ OneChain' /\ BoxInv'
  BY DEF TurnInv
<1>1. timely /\ (~Tick => second' = second)
  BY DEF Next, Poll, onMain, on_state_sync_main, on_state_waiting_main, on_state_new_round_main,
        on_state_propose_main, on_state_vote_main, on_state_commit_main, ConsensusFailed, Undecided,
        Polled, timeVars, Tick, vars
<1>2. SameSecond /\ InTurn /\ OneChain /\ BoxInv
  BY <1>1 DEF TurnInv
<1>3. SameSecond'
  <2>1. CASE Tick
    <3>1. \A i, j \in Nodes : second'[i] - second'[j] <= 0
      BY <1>1, <2>1 DEF Tick
    <3>2. \A i \in Nodes : second'[i] \in Nat
      BY DEF MonoTypeOK
    <3> SUFFICES ASSUME NEW m \in Nodes, NEW n \in Nodes PROVE second'[m] = second'[n]
      BY DEF SameSecond
    <3> QED
      BY <3>1, <3>2
  <2>2. CASE ~Tick
    BY <1>1, <1>2, <2>2 DEF SameSecond
  <2> QED
    BY <2>1, <2>2
<1>4. CASE UNCHANGED vars
  <2>1. /\ nodeState' = nodeState /\ receivedNewRound' = receivedNewRound /\ userHeader' = userHeader
        /\ proposeHeader' = proposeHeader /\ voteHeader' = voteHeader /\ commits' = commits
        /\ blocks' = blocks /\ second' = second /\ sweep' = sweep
    BY <1>4 DEF vars, timeVars, roundVars, ownVars, boxVars, chainVars
  <2>2. \A n \in Nodes : Size(n)' = Size(n) /\ Extensions(n)' = Extensions(n)
    BY <2>1, ExtensionsKept
  <2>3. InTurn'
    BY <1>2, <2>1 DEF InTurn, Away, Ahead, Proceeds, TimesOut, StepTime
  <2>4. OneChain'
    <3>1. \A m, n \in Nodes : Appends(m, n)' <=> Appends(m, n)
      BY <2>1 DEF Appends, TimesOut, StepTime
    <3> QED
      BY <1>2, <2>1, <3>1 DEF OneChain
  <2>5. RoundBoxes'
    BY <1>2, <2>1, <2>2 DEF BoxInv, RoundBoxes
  <2>6. HeaderBoxes'
    BY <1>2, <2>1, <2>2 DEF BoxInv, HeaderBoxes
  <2>7. VoteBoxes'
    BY <1>2, <2>1, <2>2 DEF BoxInv, VoteBoxes
  <2>8. CommitBoxes'
    BY <1>2, <2>1, <2>2 DEF BoxInv, CommitBoxes
  <2> QED
    BY <1>3, <2>3, <2>4, <2>5, <2>6, <2>7, <2>8 DEF BoxInv
<1>5. CASE Tick
  BY <1>1, <1>2, <1>3, <1>5, TickTurn
<1>6. ASSUME NEW s \in Nodes, onMain(s) PROVE InTurn' /\ OneChain' /\ BoxInv'
  BY <1>2, <1>6, SyncTurn, WaitingTurn, NewRoundTurn, ProposeTurn, VoteTurn, CommitTurn, FailedTurn,
     UndecidedTurn DEF onMain
<1> QED
  BY <1>3, <1>4, <1>5, <1>6 DEF Next, Poll

LEMMA TurnInvariance == Spec => []TurnInv
<1> QED
  BY TurnInit, TurnStep, MonoTypeCorrect, PTL DEF Spec

-----------------------------------------------------------------------------
(* The replicated chain.                                                    *)

(* The node that Foremost chooses has a chain at least as long as any, and  *)
(* so has every node with one as long.                                      *)
LEMMA ForemostIsFirst ==
    MonoTypeOK /\ TurnInv /\ timely =>
        /\ \A n \in Nodes : /\ blocks[n] \in Seq(Headers)
                            /\ Size(n) = Len(blocks[n])
        /\ Foremost \in Nodes
        /\ \A m \in Nodes : Len(blocks[m]) <= Len(blocks[Foremost])
        /\ \A m \in Nodes : Len(blocks[m]) = Len(blocks[Foremost]) => blocks[m] = blocks[Foremost]
<1> SUFFICES ASSUME MonoTypeOK, TurnInv, timely
             PROVE  /\ \A n \in Nodes : /\ blocks[n] \in Seq(Headers)
                                        /\ Size(n) = Len(blocks[n])
                    /\ Foremost \in Nodes
                    /\ \A m \in Nodes : Len(blocks[m]) <= Len(blocks[Foremost])
                    /\ \A m \in Nodes : Len(blocks[m]) = Len(blocks[Foremost]) => blocks[m] = blocks[Foremost]
  OBVIOUS
<1>1. \A n \in Nodes : blocks[n] \in Seq(Headers) /\ Size(n) = Len(blocks[n]) /\ Len(blocks[n]) \in Nat
  BY ChainSize DEF TurnInv, OneChain
<1>2. \A m, n \in Nodes : Appends(m, n) => Len(blocks[n]) = Len(blocks[m]) + 1
  <2> SUFFICES ASSUME NEW m \in Nodes, NEW n \in Nodes, Appends(m, n)
               PROVE  Len(blocks[n]) = Len(blocks[m]) + 1
    OBVIOUS
  <2>1. PICK b \in Majority(commits[m]) : blocks[n] = Append(blocks[m], b)
    BY DEF TurnInv, OneChain
  <2>2. commits[m] \in Seq(Headers)
    BY DEF MonoTypeOK, BoxTypes
  <2>3. b \in Headers
    BY <2>1, <2>2, MajorityCounts
  <2> QED
    BY <1>1, <2>1, <2>3
<1>3. \A m, n \in Nodes : \/ blocks[m] = blocks[n]
                          \/ Len(blocks[n]) = Len(blocks[m]) + 1
                          \/ Len(blocks[m]) = Len(blocks[n]) + 1
  BY <1>2 DEF TurnInv, OneChain
<1>4. \E n \in Nodes : \A m \in Nodes : Size(m) <= Size(n)
  <2>1. 1 \in Nodes
    BY PeersAssumption DEF Nodes
  <2>2. CASE \A m \in Nodes : Size(m) <= Size(1)
    BY <2>1, <2>2
  <2>3. CASE \E m \in Nodes : ~(Size(m) <= Size(1))
    <3>1. PICK m \in Nodes : ~(Size(m) <= Size(1))
      BY <2>3
    <3>2. Appends(1, m)
      <4>1. Appends(1, m) \/ Appends(m, 1)
        BY <1>1, <2>1, <3>1 DEF TurnInv, OneChain
      <4> QED
        BY <1>1, <1>2, <2>1, <3>1, <4>1
    <3>3. nodeState[1] = "commit" /\ nodeState[m] = "waiting"
      BY <3>2 DEF Appends
    <3>4. ASSUME NEW k \in Nodes PROVE Size(k) <= Size(m)
      <4>1. ~Appends(m, k)
        BY <3>3 DEF Appends
      <4>2. Appends(k, m) \/ blocks[k] = blocks[m]
        BY <4>1 DEF TurnInv, OneChain
      <4> QED
        BY <1>1, <1>2, <4>2
    <3> QED
      BY <3>4
  <2> QED
    BY <2>2, <2>3
<1>5. Foremost \in Nodes /\ \A m \in Nodes : Size(m) <= Size(Foremost)
  BY <1>4 DEF Foremost
<1> HIDE DEF Foremost
<1> QED
  BY <1>1, <1>3, <1>5

LEMMA AppendFacts ==
    ASSUME NEW c \in Seq(Headers), NEW b \in Headers
    PROVE  /\ Len(Append(c, b)) = Len(c) + 1
           /\ SubSeq(Append(c, b), 1, Len(c)) = c
           /\ Append(c, b)[Len(c) + 1] = b
<1> DEFINE g == Append(c, b)
<1>1. Len(c) \in Nat /\ DOMAIN c = 1 .. Len(c)
  BY LenProperties
<1>2. /\ g \in Seq(Headers) /\ Len(g) = Len(c) + 1
      /\ \A i \in 1 .. Len(c) : g[i] = c[i]
      /\ g[Len(c) + 1] = b
  BY AppendProperties
<1>3. SubSeq(g, 1, Len(c)) = c
  <2> HIDE DEF g
  <2>1. SubSeq(g, 1, Len(c)) \in Seq(Headers) /\ Len(SubSeq(g, 1, Len(c))) = Len(c)
        /\ \A i \in 1 .. Len(c) : SubSeq(g, 1, Len(c))[i] = g[i]
    BY <1>1, <1>2
  <2> DEFINE h == SubSeq(g, 1, Len(c))
  <2>2. h \in Seq(Headers) /\ Len(h) = Len(c) /\ \A i \in 1 .. Len(c) : h[i] = c[i]
    BY <1>2, <2>1
  <2> HIDE DEF h
  <2>3. h = c
    BY <2>2, SeqEqual
  <2> QED
    BY <2>3 DEF h
<1> QED
  BY <1>2, <1>3

LEMMA MonoLedgerInit == Init => L!LedgerInit
<1> SUFFICES ASSUME Init PROVE L!LedgerInit
  OBVIOUS
<1>1. blocks = [n \in Nodes |-> <<>>]
  BY DEF Init
<1>2. timely => Foremost \in Nodes
  BY MonoTypeInit, TurnInit, ForemostIsFirst
<1> QED
  BY <1>1, <1>2 DEF L!LedgerInit

LEMMA MonoLedgerStep ==
    MonoTypeOK /\ MonoTypeOK' /\ TurnInv /\ TurnInv' /\ [Next]_vars => [L!LedgerNext]_(L!ledgerVars)
<1> SUFFICES ASSUME MonoTypeOK, MonoTypeOK', TurnInv, TurnInv', [Next]_vars
             PROVE  [L!LedgerNext]_(L!ledgerVars)
  OBVIOUS
<1> DEFINE D == IF timely THEN blocks[Foremost] ELSE <<>>
           G == IF timely THEN blocks ELSE [n \in Nodes |-> <<>>]
<1>1. L!ledgerVars = <<D, G>> /\ (L!ledgerVars)' = <<D', G'>>
  BY DEF L!ledgerVars
<1>2. timely' = timely
  BY DEF Next, Poll, onMain, on_state_sync_main, on_state_waiting_main, on_state_new_round_main,
        on_state_propose_main, on_state_vote_main, on_state_commit_main, ConsensusFailed, Undecided,
        Polled, timeVars, Tick, vars
<1>3. CASE ~timely
  BY <1>1, <1>2, <1>3
<1>4. CASE timely
  <2>1. /\ \A n \in Nodes : blocks[n] \in Seq(Headers)
        /\ Foremost \in Nodes
        /\ \A m \in Nodes : Len(blocks[m]) <= Len(blocks[Foremost])
        /\ \A m \in Nodes : Len(blocks[m]) = Len(blocks[Foremost]) => blocks[m] = blocks[Foremost]
    BY <1>4, ForemostIsFirst
  <2>2. (MonoTypeOK /\ TurnInv /\ timely =>
           /\ \A n \in Nodes : /\ blocks[n] \in Seq(Headers)
                               /\ Size(n) = Len(blocks[n])
           /\ Foremost \in Nodes
           /\ \A m \in Nodes : Len(blocks[m]) <= Len(blocks[Foremost])
           /\ \A m \in Nodes : Len(blocks[m]) = Len(blocks[Foremost]) => blocks[m] = blocks[Foremost])'
    BY ForemostIsFirst, PTL
  <2>3. D = blocks[Foremost] /\ D' = blocks'[Foremost'] /\ G = blocks /\ G' = blocks'
    BY <1>2, <1>4
  <2>4. PICK l \in Nodes : /\ D = blocks[l]
                           /\ \A m \in Nodes : Len(blocks[m]) <= Len(blocks[l])
                           /\ \A m \in Nodes : Len(blocks[m]) = Len(blocks[l]) => blocks[m] = D
    BY <2>1, <2>3
  <2>5. PICK k \in Nodes : /\ D' = blocks'[k]
                           /\ \A m \in Nodes : Len(blocks'[m]) <= Len(blocks'[k])
                           /\ \A m \in Nodes : Len(blocks'[m]) = Len(blocks'[k]) => blocks'[m] = D'
                           /\ \A n \in Nodes : blocks'[n] \in Seq(Headers)
    BY <1>2, <1>4, <2>2, <2>3
  <2>6. \A n \in Nodes : Len(blocks[n]) \in Nat /\ Len(blocks'[n]) \in Nat
    BY <2>1, <2>5
  <2>7. CASE UNCHANGED blocks
    <3>1. Len(blocks[k]) = Len(blocks[l])
      BY <2>4, <2>5, <2>6, <2>7
    <3>2. D' = D
      BY <2>4, <2>5, <2>7, <3>1
    <3> QED
      BY <1>1, <2>3, <2>7, <3>2
  <2>8. ASSUME NEW s \in Nodes, on_state_commit_main(s) PROVE L!Decide(s) \/ L!Learn(s)
    <3>1. /\ \E b \in Extensions(s) : /\ b \in Headers /\ b \in Majority(commits[s])
                                      /\ blocks'[s] = Append(blocks[s], b)
          /\ \A n \in Nodes : n # s => blocks'[n] = blocks[n]
          /\ \A n \in Nodes : blocks[n] = blocks[s] \/ blocks[n] = blocks'[s]
      BY <1>4, <2>8, CommitTurn DEF TurnInv
    <3>2. PICK b \in Extensions(s) : b \in Headers /\ blocks'[s] = Append(blocks[s], b)
      BY <3>1
    <3> DEFINE c == blocks[s]
    <3>3. c \in Seq(Headers) /\ Len(c) \in Nat
      BY <2>1
    <3>4. /\ Len(Append(c, b)) = Len(c) + 1
          /\ SubSeq(Append(c, b), 1, Len(c)) = c
          /\ Append(c, b)[Len(c) + 1] = b
      BY <3>2, <3>3, AppendFacts
    <3>5. b.prev = L!LastHash(c)
      <4>1. Size(s) = Len(c)
        BY <3>3, ChainSize
      <4>2. b.prev = LastHashOf(s)
        BY <3>2 DEF Extensions
      <4>3. c = <<>> <=> Len(c) = 0
        BY <3>3, EmptySeq
      <4> QED
        BY <4>1, <4>2, <4>3 DEF LastHashOf, L!LastHash
    <3>6. blocks' = [blocks EXCEPT ![s] = Append(c, b)]
      <4>1. blocks = [n \in Nodes |-> blocks[n]] /\ blocks' = [n \in Nodes |-> blocks'[n]]
        BY DEF MonoTypeOK, ChainTypes
      <4> QED
        BY <3>1, <3>2, <4>1
    <3> HIDE DEF c
    <3>7. \A n \in Nodes : Len(blocks'[n]) <= Len(c) + 1
      BY <3>1, <3>2, <3>3, <3>4 DEF c
    <3>8. Len(blocks'[s]) = Len(c) + 1 /\ blocks'[s] = Append(c, b)
      BY <3>2, <3>4 DEF c
    <3>9. D' = Append(c, b)
      <4>1. Len(blocks'[k]) = Len(blocks'[s])
        BY <2>5, <2>6, <3>3, <3>7, <3>8
      <4> QED
        BY <2>5, <3>8, <4>1
    <3>10. CASE D = c
      <4>1. /\ G[s] = D /\ Len(D') = Len(D) + 1 /\ SubSeq(D', 1, Len(D)) = D
            /\ D'[Len(D')].prev = L!LastHash(D)
            /\ G' = [G EXCEPT ![s] = D']
        BY <2>3, <3>4, <3>5, <3>6, <3>9, <3>10 DEF c
      <4> QED
        BY <4>1 DEF L!Decide
    <3>11. CASE D # c
      <4>1. D = Append(c, b)
        BY <2>4, <3>1, <3>8, <3>11 DEF c
      <4>2. /\ Len(G[s]) < Len(D) /\ D' = D
            /\ G' = [G EXCEPT ![s] = Append(@, D[Len(@) + 1])]
        <5>1. G[s] = c /\ Len(D) = Len(c) + 1 /\ D[Len(c) + 1] = b /\ D' = D
          BY <2>3, <3>4, <3>9, <4>1 DEF c
        <5>2. G' = [G EXCEPT ![s] = Append(c, b)]
          BY <2>3, <3>6
        <5> HIDE DEF D, G
        <5> QED
          BY <3>3, <5>1, <5>2
      <4> QED
        BY <4>2 DEF L!Learn
    <3> QED
      BY <3>10, <3>11
  <2>9. ASSUME \A s \in Nodes : ~on_state_commit_main(s) PROVE UNCHANGED blocks
    BY <2>9 DEF Next, Poll, onMain, on_state_sync_main, on_state_waiting_main, on_state_new_round_main,
          on_state_propose_main, on_state_vote_main, ConsensusFailed, Undecided, Tick, vars, chainVars
  <2> QED
    BY <2>7, <2>8, <2>9 DEF L!LedgerNext
<1> QED
  BY <1>3, <1>4

(* In a timely behaviour bcp_mono implements the replicated chain: a step   *)
(* of append_block gives a node the next block of the agreed chain, or, to  *)
(* a node that has all of it, a new block with the hash of the last.        *)
THEOREM MonoRefinement == Spec => MonoImplementsLedger
<1> QED
  BY MonoLedgerInit, MonoLedgerStep, TurnInvariance, MonoTypeCorrect, PTL
     DEF Spec, MonoImplementsLedger, L!LedgerSpec
=============================================================================
