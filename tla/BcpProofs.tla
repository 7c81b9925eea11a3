----------------------------- MODULE BcpProofs -----------------------------
(***************************************************************************)
(* Proofs, for every number of nodes, every time-out and every bound, of    *)
(* the properties of Bcp that hold however long polls are delayed.          *)
(***************************************************************************)
EXTENDS Bcp, FiniteSetTheorems, TLAPS

(* A majority is a positive number of peers, and more than half of them.    *)
LEMMA MajorityFacts ==
    /\ N \in Nat /\ N > 0
    /\ Majority \in Nat /\ Majority > 0
    /\ 2 * Majority > N
BY NAssumption DEF Majority

(* The nodes are N in number.                                               *)
LEMMA NodesFinite == IsFiniteSet(Nodes) /\ Cardinality(Nodes) = N
<1>1. N \in Int /\ 0 \in Int /\ N - 1 \in Int /\ N > 0
  BY NAssumption
<1>2. /\ IsFiniteSet(0 .. N - 1)
      /\ Cardinality(0 .. N - 1) = IF 0 > N - 1 THEN 0 ELSE N - 1 - 0 + 1
  BY <1>1, FS_Interval
<1> QED
  BY <1>1, <1>2 DEF Nodes

(* A time context is a natural number.                                      *)
LEMMA TimeContextType ==
    ASSUME NEW t \in Nat
    PROVE  t \div BlockTime \in Nat
BY TimeAssumption

-----------------------------------------------------------------------------
(* Tallies.                                                                 *)

(* The peers that filed the same value are finitely many.                   *)
LEMMA VotersFinite ==
    ASSUME NEW box, NEW v
    PROVE  /\ IsFiniteSet(Voters(box, v))
           /\ Cardinality(Voters(box, v)) \in Nat
           /\ Cardinality(Voters(box, v)) <= N
<1>1. Voters(box, v) \in SUBSET Nodes
  BY DEF Voters
<1>2. /\ IsFiniteSet(Voters(box, v))
      /\ Cardinality(Voters(box, v)) <= Cardinality(Nodes)
  BY <1>1, NodesFinite, FS_Subset
<1> QED
  BY <1>2, NodesFinite, FS_CardinalityType

(* Filing an entry keeps a message map a map from peers to values.          *)
LEMMA AddOnceType ==
    ASSUME NEW V, NEW box \in [Nodes -> V \cup {None}], NEW p \in Nodes,
           NEW v \in V
    PROVE  AddOnce(box, p, v) \in [Nodes -> V \cup {None}]
BY DEF AddOnce

(* Filing an entry changes at most that entry.                              *)
LEMMA AddOnceValue ==
    ASSUME NEW V, NEW box \in [Nodes -> V], NEW p \in Nodes, NEW v, NEW q \in Nodes
    PROVE  AddOnce(box, p, v)[q] \in {box[q], v}
BY DEF AddOnce

LEMMA AddOnceOther ==
    ASSUME NEW V, NEW box \in [Nodes -> V], NEW p \in Nodes, NEW v, NEW q \in Nodes,
           q # p
    PROVE  AddOnce(box, p, v)[q] = box[q]
BY DEF AddOnce

(* Counting an entry keeps a counter map finite and its counts natural.     *)
LEMMA CountOnceType ==
    ASSUME NEW V, NEW box, NEW counts, IsTally(counts, V), NEW p, NEW v \in V
    PROVE  IsTally(CountOnce(box, counts, p, v), V)
<1>1. CASE box[p] # None
  BY <1>1 DEF CountOnce
<1>2. CASE box[p] = None
  <2> DEFINE c == Bump(counts, v)
  <2>1. CountOnce(box, counts, p, v) = c
    BY <1>2 DEF CountOnce
  <2>2. DOMAIN c = DOMAIN counts \cup {v}
    BY DEF Bump
  <2>3. IsFiniteSet(DOMAIN c)
    BY <2>2, FS_AddElement DEF IsTally
  <2>4. c \in [DOMAIN c -> Nat]
    BY <2>2 DEF Bump, IsTally
  <2> QED
    BY <2>1, <2>2, <2>3, <2>4 DEF IsTally
<1> QED
  BY <1>1, <1>2

(* Counting an entry never lowers a count.                                  *)
LEMMA CountOnceMonotonic ==
    ASSUME NEW V, NEW box, NEW counts, IsTally(counts, V), NEW p, NEW v \in V
    PROVE  /\ DOMAIN counts \subseteq DOMAIN CountOnce(box, counts, p, v)
           /\ \A w \in DOMAIN counts :
                 CountOnce(box, counts, p, v)[w] >= counts[w]
BY DEF CountOnce, Bump, IsTally

(* A map and its counter that agree still agree when a message is filed in   *)
(* one and counted in the other.                                            *)
LEMMA TalliedStep ==
    ASSUME NEW V, None \notin V,
           NEW box \in [Nodes -> V \cup {None}],
           NEW counts, IsTally(counts, V), Tallied(box, counts),
           NEW p \in Nodes, NEW v \in V
    PROVE  Tallied(AddOnce(box, p, v), CountOnce(box, counts, p, v))
<1>1. CASE box[p] # None
  BY <1>1 DEF AddOnce, CountOnce
<1>2. CASE box[p] = None
  <2> DEFINE b == [box EXCEPT ![p] = v]
             c == Bump(counts, v)
  <2>1. AddOnce(box, p, v) = b /\ CountOnce(box, counts, p, v) = c
    BY <1>2 DEF AddOnce, CountOnce
  <2>2. DOMAIN c = DOMAIN counts \cup {v}
    BY DEF Bump
  <2>3. v # None
    OBVIOUS
  <2>4. \A q \in Entries(b) : b[q] \in DOMAIN c
    BY <2>2 DEF Entries, Tallied
  <2>5. \A w : w # v /\ w # None => Voters(b, w) = Voters(box, w)
    BY <1>2 DEF Voters
  <2>6. Voters(b, v) = Voters(box, v) \cup {p} /\ p \notin Voters(box, v)
    BY <1>2, <2>3 DEF Voters
  <2>7. Cardinality(Voters(b, v)) = Cardinality(Voters(box, v)) + 1
    BY <2>6, VotersFinite, FS_AddElement
  <2>8. ASSUME NEW w \in DOMAIN c
        PROVE  c[w] = Cardinality(Voters(b, w))
    <3>1. CASE w # v
      <4>1. w \in DOMAIN counts /\ w # None
        BY <3>1, <2>2 DEF IsTally
      <4>2. c[w] = counts[w]
        BY <3>1, <4>1 DEF Bump
      <4> QED
        BY <3>1, <4>1, <4>2, <2>5 DEF Tallied
    <3>2. CASE w = v /\ v \in DOMAIN counts
      <4>1. c[w] = counts[v] + 1
        BY <3>2 DEF Bump
      <4> QED
        BY <3>2, <4>1, <2>7 DEF Tallied
    <3>3. CASE w = v /\ v \notin DOMAIN counts
      <4>1. c[w] = 1
        BY <3>3 DEF Bump
      <4>2. Voters(box, v) = {}
        BY <3>3, <2>3 DEF Voters, Tallied, Entries
      <4> QED
        BY <3>3, <4>1, <4>2, <2>7, FS_EmptySet
    <3> QED
      BY <3>1, <3>2, <3>3
  <2> HIDE DEF b, c
  <2> QED
    BY <2>1, <2>4, <2>8 DEF Tallied
<1> QED
  BY <1>1, <1>2

(* Two different values cannot both have a majority of the peers.           *)
LEMMA MajorityUnique ==
    ASSUME NEW box, NEW v, NEW w,
           Cardinality(Voters(box, v)) >= Majority,
           Cardinality(Voters(box, w)) >= Majority
    PROVE  v = w
<1> SUFFICES ASSUME v # w PROVE FALSE
  OBVIOUS
<1> DEFINE A == Voters(box, v)
           B == Voters(box, w)
<1>1. A \cap B = {} /\ A \cup B \in SUBSET Nodes
  BY DEF Voters
<1>2. IsFiniteSet(A) /\ IsFiniteSet(B) /\ Cardinality(A) \in Nat
      /\ Cardinality(B) \in Nat
  BY VotersFinite
<1>3. Cardinality(A \cup B) = Cardinality(A) + Cardinality(B) - Cardinality(A \cap B)
  BY <1>2, FS_Union
<1>4. Cardinality(A \cap B) = 0
  BY <1>1, FS_EmptySet
<1>5. Cardinality(A \cup B) <= N
  BY <1>1, NodesFinite, FS_Subset
<1> HIDE DEF A, B
<1> QED
  BY <1>2, <1>3, <1>4, <1>5, MajorityFacts DEF A, B

-----------------------------------------------------------------------------
(* The inductive invariant.  TypeOK is not inductive by itself: that a node  *)
(* appends a block at all, and not the blank _commit_block it starts with,   *)
(* needs VerifiedIsElected, which in turn needs the tallies.                *)
IndInv == TypeOK /\ TalliesAgree /\ VerifiedIsElected

(* The tallies make the elected header unique (AtMostOneElected).           *)
LEMMA ElectedUnique ==
    ASSUME TalliesAgree, NEW n \in Nodes, NEW g \in Elected(n),
           NEW h \in Elected(n)
    PROVE  g = h
<1>1. Cardinality(Voters(voteBox[n], g)) >= Majority
  BY DEF Elected, TalliesAgree, Tallied
<1>2. Cardinality(Voters(voteBox[n], h)) >= Majority
  BY DEF Elected, TalliesAgree, Tallied
<1> QED
  BY <1>1, <1>2, MajorityUnique

(* Only a header can be elected.                                            *)
LEMMA ElectedIsHeader ==
    ASSUME TypeOK, NEW n \in Nodes
    PROVE  Elected(n) \subseteq Header /\ None \notin Elected(n)
BY NoneAssumption DEF TypeOK, Elected, IsTally

(* The empty map counts nothing.                                            *)
LEMMA EmptyTally ==
    /\ \A V : IsTally(EmptyMap, V)
    /\ Tallied(NoEntries, EmptyMap)
    /\ Entries(NoEntries) = {}
    /\ \A V : NoEntries \in [Nodes -> V \cup {None}]
BY FS_EmptySet DEF IsTally, EmptyMap, Tallied, NoEntries, Entries

LEMMA InitInd == Init => IndInv
<1> SUFFICES ASSUME Init PROVE IndInv
  OBVIOUS
<1> USE DEF Init
<1>1. TypeOK
  <2>1. clock \in [Nodes -> Nat]
    BY StartAssumption
  <2>2. turn \in Nodes
    BY NAssumption DEF Nodes
  <2>3. step \in [Nodes -> {"null", "waiting", "pop", "propose", "vote", "commit"}]
    BY StartAssumption
  <2>4. \A n \in Nodes : /\ IsTally(newRoundVotes[n], Nat)
                         /\ IsTally(voteCounts[n], Header)
    BY EmptyTally
  <2>5. \A n \in Nodes : /\ DOMAIN chain[n] \subseteq Nat
                         /\ IsFiniteSet(DOMAIN chain[n])
                         /\ chain[n] \in [DOMAIN chain[n] -> Header]
    BY FS_EmptySet DEF EmptyMap
  <2>6. /\ newRound \in [Nodes -> [Nodes -> Nat \cup {None}]]
        /\ proposed \in [Nodes -> [Nodes -> MaybeHeader]]
        /\ voteBox \in [Nodes -> [Nodes -> MaybeHeader]]
        /\ verified \in [Nodes -> [Nodes -> MaybeHeader]]
    BY DEF NoEntries, MaybeHeader
  <2> QED
    BY <2>1, <2>2, <2>3, <2>4, <2>5, <2>6 DEF TypeOK, MaybeHeader
<1>2. TalliesAgree
  BY EmptyTally DEF TalliesAgree
<1>3. VerifiedIsElected
  BY EmptyTally DEF VerifiedIsElected
<1> QED
  BY <1>1, <1>2, <1>3 DEF IndInv

(* A poll passes the turn to a node.                                        *)
LEMMA PolledType ==
    ASSUME TypeOK, NEW n \in Nodes, Polled(n)
    PROVE  turn' \in Nodes /\ clock' = clock /\ stop' = stop /\ rank' = rank
BY NAssumption DEF TypeOK, Polled, Nodes

(* What an election depends on.                                             *)
LEMMA ElectedSame ==
    ASSUME NEW n, voteCounts'[n] = voteCounts[n]
    PROVE  Elected(n)' = Elected(n)
BY DEF Elected

(* Clearing one node's intermediate data, and nothing but it, its step and   *)
(* its chain, preserves the invariant's parts on tallies and commits.       *)
LEMMA ClearInd ==
    ASSUME IndInv, NEW n \in Nodes, ClearIntermediateData(n),
           commitBlock' = commitBlock
    PROVE  /\ newRound' \in [Nodes -> [Nodes -> Nat \cup {None}]]
           /\ userHeader' \in [Nodes -> MaybeHeader]
           /\ proposed' \in [Nodes -> [Nodes -> MaybeHeader]]
           /\ voteBox' \in [Nodes -> [Nodes -> MaybeHeader]]
           /\ verified' \in [Nodes -> [Nodes -> MaybeHeader]]
           /\ DOMAIN newRoundVotes' = Nodes /\ DOMAIN voteCounts' = Nodes
           /\ \A k \in Nodes : /\ IsTally(newRoundVotes'[k], Nat)
                               /\ IsTally(voteCounts'[k], Header)
           /\ TalliesAgree'
           /\ VerifiedIsElected'
<1> USE DEF IndInv, ClearIntermediateData
<1>1. /\ newRound' \in [Nodes -> [Nodes -> Nat \cup {None}]]
      /\ userHeader' \in [Nodes -> MaybeHeader]
      /\ proposed' \in [Nodes -> [Nodes -> MaybeHeader]]
      /\ voteBox' \in [Nodes -> [Nodes -> MaybeHeader]]
      /\ verified' \in [Nodes -> [Nodes -> MaybeHeader]]
  BY DEF TypeOK, MaybeHeader, NoEntries
<1>2. /\ DOMAIN newRoundVotes' = Nodes /\ DOMAIN voteCounts' = Nodes
      /\ \A k \in Nodes : /\ IsTally(newRoundVotes'[k], Nat)
                          /\ IsTally(voteCounts'[k], Header)
  BY EmptyTally DEF TypeOK
<1>3. TalliesAgree'
  BY EmptyTally DEF TypeOK, TalliesAgree
<1>4. ASSUME NEW k \in Nodes, NEW p \in Entries(verified'[k])
      PROVE  verified'[k][p] \in Elected(k)' /\ commitBlock'[k] = verified'[k][p]
  <2>1. k # n
    BY <1>4, EmptyTally DEF TypeOK
  <2>2. verified'[k] = verified[k] /\ voteCounts'[k] = voteCounts[k]
    BY <2>1 DEF TypeOK
  <2> QED
    BY <2>2, <1>4, ElectedSame DEF VerifiedIsElected
<1>5. VerifiedIsElected'
  BY <1>4 DEF VerifiedIsElected, Entries
<1> QED
  BY <1>1, <1>2, <1>3, <1>5

(* Steps that touch no vote, no commit and no _commit_block keep what has    *)
(* been elected and committed.                                              *)
LEMMA VerifiedSame ==
    ASSUME VerifiedIsElected, UNCHANGED <<voteCounts, verified, commitBlock>>
    PROVE  VerifiedIsElected'
BY DEF VerifiedIsElected, Elected, Entries

LEMMA NewRoundReadyInd ==
    ASSUME IndInv, NEW n \in Nodes, NewRoundReady(n)
    PROVE  IndInv'
<1> USE DEF IndInv
<1> DEFINE r == Height(n) + 1
<1>1. r \in Nat
  BY FS_CardinalityType DEF TypeOK, Height
<1>2. TimeContext(n) \in Nat
  BY TimeContextType DEF TypeOK, TimeContext
<1>3. /\ newRound' = [k \in Nodes |-> AddOnce(newRound[k], n, r)]
      /\ newRoundVotes' =
            [k \in Nodes |-> CountOnce(newRound[k], newRoundVotes[k], n, r)]
  BY DEF NewRoundReady, SendNewRound
<1>4. UNCHANGED <<clock, stop, step, userHeader, candidate, proposed, myVote,
                  voteBox, voteCounts, verified, commitBlock, chain>>
  BY PolledType DEF NewRoundReady, blockVars, voteVars
<1> HIDE DEF r
<1>5. newRound' \in [Nodes -> [Nodes -> Nat \cup {None}]]
  BY <1>1, <1>3, AddOnceType DEF TypeOK
<1>6. DOMAIN newRoundVotes' = Nodes
      /\ \A k \in Nodes : IsTally(newRoundVotes'[k], Nat)
  BY <1>1, <1>3, CountOnceType DEF TypeOK
<1>7. timeContext' \in [Nodes -> Nat]
  BY <1>2 DEF NewRoundReady, TypeOK
<1>8. turn' \in Nodes
  BY PolledType DEF NewRoundReady
<1>9. TypeOK'
  BY <1>4, <1>5, <1>6, <1>7, <1>8 DEF TypeOK
<1>10. TalliesAgree'
  <2>1. ASSUME NEW k \in Nodes
        PROVE  Tallied(newRound'[k], newRoundVotes'[k])
    <3>1. newRound[k] \in [Nodes -> Nat \cup {None}] /\ IsTally(newRoundVotes[k], Nat)
      BY DEF TypeOK
    <3>2. Tallied(newRound[k], newRoundVotes[k]) /\ None \notin Nat
      BY NoneAssumption DEF TalliesAgree
    <3>3. Tallied(AddOnce(newRound[k], n, r),
                  CountOnce(newRound[k], newRoundVotes[k], n, r))
      BY <1>1, <3>1, <3>2, TalliedStep
    <3> QED
      BY <1>3, <3>3
  <2> QED
    BY <1>4, <2>1 DEF TalliesAgree
<1>11. VerifiedIsElected'
  BY <1>4, VerifiedSame
<1> QED
  BY <1>9, <1>10, <1>11

LEMMA NewRoundStartInd ==
    ASSUME IndInv, NEW n \in Nodes, NewRoundStart(n)
    PROVE  IndInv'
<1> USE DEF IndInv
<1>1. PICK r \in DOMAIN newRoundVotes[n] :
          /\ RoundStarts(n, r)
          /\ IF r \in DOMAIN chain[n]
             THEN UNCHANGED <<candidate, userHeader>>
             ELSE /\ candidate' = [candidate EXCEPT ![n] = NewBlock(n, r)]
                  /\ userHeader' = [userHeader EXCEPT ![n] =
                                       IF @ = None THEN NewBlock(n, r) ELSE @]
  BY DEF NewRoundStart
<1>2. NewBlock(n, r) \in Header
  <2>1. r \in Nat
    BY DEF TypeOK, IsTally
  <2>2. TimeContext(n) \in Nat
    BY TimeContextType DEF TypeOK, TimeContext
  <2>3. BlockHash(n, r - 1) \in Hash \cup {None}
    BY DEF BlockHash, HashOf, TypeOK, Header, Hash
  <2> QED
    BY <2>1, <2>2, <2>3 DEF NewBlock, Header
<1>3. candidate' \in [Nodes -> MaybeHeader] /\ userHeader' \in [Nodes -> MaybeHeader]
  <2> DEFINE b == NewBlock(n, r)
  <2>1. b \in MaybeHeader
    BY <1>2 DEF MaybeHeader
  <2>2. /\ candidate \in [Nodes -> MaybeHeader]
        /\ userHeader \in [Nodes -> MaybeHeader]
    BY DEF TypeOK
  <2> HIDE DEF b
  <2>3. CASE r \in DOMAIN chain[n]
    BY <1>1, <2>2, <2>3
  <2>4. CASE r \notin DOMAIN chain[n]
    <3>1. candidate' = [candidate EXCEPT ![n] = b]
      BY <1>1, <2>4 DEF b
    <3>2. userHeader' = [userHeader EXCEPT ![n] = IF @ = None THEN b ELSE @]
      BY <1>1, <2>4 DEF b
    <3> QED
      BY <3>1, <3>2, <2>1, <2>2
  <2> QED
    BY <2>3, <2>4
<1>4. UNCHANGED <<clock, stop, timeContext, newRound, newRoundVotes, proposed,
                  myVote, voteBox, voteCounts, verified, commitBlock, chain>>
  BY PolledType DEF NewRoundStart, roundVars, voteVars
<1>5. turn' \in Nodes
  BY PolledType DEF NewRoundStart
<1>6. step' \in [Nodes -> {"null", "waiting", "pop", "propose", "vote", "commit"}]
  BY DEF NewRoundStart, TypeOK
<1>7. TypeOK'
  BY <1>3, <1>4, <1>5, <1>6 DEF TypeOK
<1>8. TalliesAgree'
  BY <1>4 DEF TalliesAgree
<1> QED
  BY <1>4, <1>7, <1>8, VerifiedSame

LEMMA ProposeStartInd ==
    ASSUME IndInv, NEW n \in Nodes, ProposeStart(n)
    PROVE  IndInv'
<1> USE DEF IndInv
<1>1. candidate' \in [Nodes -> MaybeHeader]
  BY DEF ProposeStart, TypeOK
<1>2. proposed' \in [Nodes -> [Nodes -> MaybeHeader]]
  <2>1. CASE userHeader[n] = None
    BY <2>1 DEF ProposeStart, TypeOK
  <2>2. CASE userHeader[n] # None
    <3>1. userHeader[n] \in Header
      BY <2>2 DEF TypeOK, MaybeHeader
    <3>2. proposed' = [k \in Nodes |-> AddOnce(proposed[k], n, userHeader[n])]
      BY <2>2 DEF ProposeStart
    <3>3. \A k \in Nodes : proposed[k] \in [Nodes -> Header \cup {None}]
      BY DEF TypeOK, MaybeHeader
    <3> QED
      BY <3>1, <3>2, <3>3, AddOnceType DEF MaybeHeader
  <2> QED
    BY <2>1, <2>2
<1>3. UNCHANGED <<clock, stop, timeContext, newRound, newRoundVotes, userHeader,
                  myVote, voteBox, voteCounts, verified, commitBlock, chain>>
  BY PolledType DEF ProposeStart, roundVars, voteVars
<1>4. turn' \in Nodes
  BY PolledType DEF ProposeStart
<1>5. step' \in [Nodes -> {"null", "waiting", "pop", "propose", "vote", "commit"}]
  BY DEF ProposeStart, TypeOK
<1>6. TypeOK'
  BY <1>1, <1>2, <1>3, <1>4, <1>5 DEF TypeOK
<1>7. TalliesAgree'
  BY <1>3 DEF TalliesAgree
<1> QED
  BY <1>3, <1>6, <1>7, VerifiedSame

LEMMA VoteStartInd ==
    ASSUME IndInv, NEW n \in Nodes, VoteStart(n)
    PROVE  IndInv'
<1> USE DEF IndInv
<1>1. UNCHANGED <<clock, stop, timeContext, newRound, newRoundVotes, userHeader,
                  candidate, proposed, verified, commitBlock, chain>>
  BY PolledType DEF VoteStart, roundVars, blockVars
<1>2. turn' \in Nodes
  BY PolledType DEF VoteStart
<1>3. step' \in [Nodes -> {"null", "waiting", "pop", "propose", "vote", "commit"}]
  BY DEF VoteStart, TypeOK
<1>4. CASE UNCHANGED <<myVote, voteVars>>
  <2>1. UNCHANGED <<myVote, voteBox, voteCounts>>
    BY <1>4 DEF voteVars
  <2>2. TypeOK'
    BY <1>1, <1>2, <1>3, <2>1 DEF TypeOK
  <2>3. TalliesAgree'
    BY <1>1, <2>1 DEF TalliesAgree
  <2> QED
    BY <1>1, <2>1, <2>2, <2>3, VerifiedSame
<1>5. ASSUME NEW h \in Proposals(n), myVote' = [myVote EXCEPT ![n] = h],
             SendVote(n, h)
      PROVE  IndInv'
  <2>1. h \in Header
    BY DEF Proposals, Entries, TypeOK, MaybeHeader
  <2>2. /\ voteBox' = [k \in Nodes |-> AddOnce(voteBox[k], n, h)]
        /\ voteCounts' =
              [k \in Nodes |-> CountOnce(voteBox[k], voteCounts[k], n, h)]
    BY <1>5 DEF SendVote
  <2>3. \A k \in Nodes : /\ voteBox[k] \in [Nodes -> Header \cup {None}]
                         /\ IsTally(voteCounts[k], Header)
    BY DEF TypeOK, MaybeHeader
  <2>4. voteBox' \in [Nodes -> [Nodes -> MaybeHeader]]
    BY <2>1, <2>2, <2>3, AddOnceType DEF MaybeHeader
  <2>5. DOMAIN voteCounts' = Nodes
        /\ \A k \in Nodes : IsTally(voteCounts'[k], Header)
    BY <2>1, <2>2, <2>3, CountOnceType
  <2>6. myVote' \in [Nodes -> MaybeHeader]
    BY <1>5, <2>1 DEF TypeOK, MaybeHeader
  <2>7. TypeOK'
    BY <1>1, <1>2, <1>3, <2>4, <2>5, <2>6 DEF TypeOK
  <2>8. ASSUME NEW k \in Nodes
        PROVE  Tallied(voteBox'[k], voteCounts'[k])
    <3>1. Tallied(voteBox[k], voteCounts[k]) /\ None \notin Header
      BY NoneAssumption DEF TalliesAgree
    <3>2. Tallied(AddOnce(voteBox[k], n, h),
                  CountOnce(voteBox[k], voteCounts[k], n, h))
      BY <2>1, <2>3, <3>1, TalliedStep
    <3> QED
      BY <2>2, <3>2
  <2>9. TalliesAgree'
    BY <1>1, <2>8 DEF TalliesAgree
  <2>10. ASSUME NEW k \in Nodes
         PROVE  Elected(k) \subseteq Elected(k)'
    <3>1. voteCounts'[k] = CountOnce(voteBox[k], voteCounts[k], n, h)
      BY <2>2
    <3>2. /\ DOMAIN voteCounts[k] \subseteq DOMAIN voteCounts'[k]
          /\ \A w \in DOMAIN voteCounts[k] : voteCounts'[k][w] >= voteCounts[k][w]
      <4> DEFINE c == voteCounts[k]
                 d == CountOnce(voteBox[k], c, n, h)
      <4>1. IsTally(c, Header)
        BY <2>3
      <4> HIDE DEF c
      <4>2. /\ DOMAIN c \subseteq DOMAIN d
            /\ \A w \in DOMAIN c : d[w] >= c[w]
        BY <2>1, <4>1, CountOnceMonotonic
      <4> QED
        BY <3>1, <4>2 DEF c
    <3>3. \A w \in DOMAIN voteCounts[k] : voteCounts[k][w] \in Nat
      BY <2>3 DEF IsTally
    <3>4. \A w \in DOMAIN voteCounts[k] : voteCounts'[k][w] \in Nat
      BY <2>5, <3>2 DEF IsTally
    <3> QED
      BY <3>2, <3>3, <3>4, MajorityFacts DEF Elected
  <2>11. VerifiedIsElected'
    BY <1>1, <2>10 DEF VerifiedIsElected, Entries
  <2> QED
    BY <2>7, <2>9, <2>11
<1> QED
  BY <1>4, <1>5 DEF VoteStart

LEMMA ConsensusFailInd ==
    ASSUME IndInv, NEW n \in Nodes, ConsensusFail(n)
    PROVE  IndInv'
<1>1. ClearIntermediateData(n) /\ Polled(n)
  BY DEF ConsensusFail
<1>2. UNCHANGED <<clock, stop, timeContext, candidate, myVote, commitBlock, chain>>
  BY PolledType DEF ConsensusFail, IndInv
<1>3. step' \in [Nodes -> {"null", "waiting", "pop", "propose", "vote", "commit"}]
  BY DEF ConsensusFail, IndInv, TypeOK
<1>4. turn' \in Nodes
  BY <1>1, PolledType DEF IndInv
<1>5. TypeOK'
  BY <1>1, <1>2, <1>3, <1>4, ClearInd DEF IndInv, TypeOK
<1> QED
  BY <1>1, <1>2, <1>5, ClearInd DEF IndInv

LEMMA CommitStartInd ==
    ASSUME IndInv, NEW n \in Nodes, CommitStart(n)
    PROVE  IndInv'
<1> USE DEF IndInv
<1>1. UNCHANGED <<clock, stop, timeContext, newRound, newRoundVotes, userHeader,
                  candidate, proposed, myVote, voteBox, voteCounts, chain>>
  BY PolledType DEF CommitStart, roundVars, blockVars, voteVars
<1>2. turn' \in Nodes
  BY PolledType DEF CommitStart
<1>3. step' \in [Nodes -> {"null", "waiting", "pop", "propose", "vote", "commit"}]
  BY DEF CommitStart, TypeOK
<1>4. TalliesAgree'
  BY <1>1 DEF TalliesAgree
<1>5. CASE UNCHANGED <<verified, commitBlock>>
  <2>1. TypeOK'
    BY <1>1, <1>2, <1>3, <1>5 DEF TypeOK
  <2> QED
    BY <1>1, <1>4, <1>5, <2>1, VerifiedSame
<1>6. ASSUME NEW h \in Elected(n), SendVerifyBlock(h)
      PROVE  IndInv'
  <2>1. h \in Header /\ h # None
    BY ElectedIsHeader
  <2>2. /\ verified' = [k \in Nodes |-> [p \in Nodes |->
                           IF p \in Filed(k, h) THEN h ELSE verified[k][p]]]
        /\ commitBlock' = [k \in Nodes |->
                              IF Filed(k, h) # {} THEN h ELSE commitBlock[k]]
    BY <1>6 DEF SendVerifyBlock
  <2>3. verified' \in [Nodes -> [Nodes -> MaybeHeader]]
    BY <2>1, <2>2 DEF TypeOK, MaybeHeader
  <2>4. commitBlock' \in [Nodes -> MaybeHeader]
    BY <2>1, <2>2 DEF TypeOK, MaybeHeader
  <2>5. TypeOK'
    BY <1>1, <1>2, <1>3, <2>3, <2>4 DEF TypeOK
  <2>6. ASSUME NEW k \in Nodes, NEW p \in Entries(verified'[k])
        PROVE  verified'[k][p] \in Elected(k)'
               /\ commitBlock'[k] = verified'[k][p]
    <3>1. Elected(k)' = Elected(k)
      BY <1>1, ElectedSame
    <3>2. p \in Nodes /\ verified'[k][p] # None
      BY <2>6 DEF Entries
    <3>3. CASE Filed(k, h) = {}
      BY <2>2, <3>1, <3>2, <3>3 DEF VerifiedIsElected, Entries
    <3>4. CASE Filed(k, h) # {}
      <4>1. h \in Elected(k)
        BY <3>4 DEF Filed
      <4>2. commitBlock'[k] = h
        BY <2>2, <3>4
      <4>3. verified'[k][p] = h
        <5>1. CASE p \in Filed(k, h)
          BY <2>2, <3>2, <5>1
        <5>2. CASE p \notin Filed(k, h)
          <6>1. verified'[k][p] = verified[k][p]
            BY <2>2, <3>2, <5>2
          <6>2. verified[k][p] \in Elected(k)
            BY <3>2, <6>1 DEF VerifiedIsElected, Entries
          <6> QED
            BY <4>1, <6>1, <6>2, ElectedUnique
        <5> QED
          BY <5>1, <5>2
      <4> QED
        BY <3>1, <4>1, <4>2, <4>3
    <3> QED
      BY <3>3, <3>4
  <2>7. VerifiedIsElected'
    BY <2>6 DEF VerifiedIsElected, Entries
  <2> QED
    BY <1>4, <2>5, <2>7
<1> QED
  BY <1>5, <1>6 DEF CommitStart

(* A node that commits has a filed commit, so _commit_block is a block, and  *)
(* all the commits it has filed are for that block.                         *)
LEMMA CommitBlockElected ==
    ASSUME IndInv, NEW n \in Nodes, Commits(n)
    PROVE  /\ commitBlock[n] \in Elected(n)
           /\ commitBlock[n] \in Header
           /\ Voters(verified[n], commitBlock[n]) = Entries(verified[n])
<1> USE DEF IndInv
<1>1. Entries(verified[n]) # {}
  BY MajorityFacts, FS_EmptySet DEF Commits
<1>2. \A p \in Entries(verified[n]) :
         verified[n][p] \in Elected(n) /\ commitBlock[n] = verified[n][p]
  BY DEF VerifiedIsElected
<1>3. commitBlock[n] \in Elected(n) /\ commitBlock[n] \in Header
      /\ commitBlock[n] # None
  BY <1>1, <1>2, ElectedIsHeader
<1> QED
  BY <1>2, <1>3 DEF Voters, Entries

LEMMA NewBlockCommitInd ==
    ASSUME IndInv, NEW n \in Nodes, NewBlockCommit(n)
    PROVE  IndInv'
<1>1. ClearIntermediateData(n) /\ Polled(n) /\ Commits(n)
  BY DEF NewBlockCommit
<1>2. UNCHANGED <<clock, stop, timeContext, candidate, myVote, commitBlock>>
  BY PolledType DEF NewBlockCommit, IndInv
<1>3. step' \in [Nodes -> {"null", "waiting", "pop", "propose", "vote", "commit"}]
  BY DEF NewBlockCommit, IndInv, TypeOK
<1>4. turn' \in Nodes
  BY <1>1, PolledType DEF IndInv
<1> DEFINE b == commitBlock[n]
           c == AppendBlock(chain[n], b)
<1>5. b \in Header /\ b.idx \in Nat
  BY <1>1, CommitBlockElected DEF Header
<1>6. chain' = [chain EXCEPT ![n] = c]
  BY DEF NewBlockCommit
<1>7. /\ DOMAIN c \subseteq Nat
      /\ IsFiniteSet(DOMAIN c)
      /\ c \in [DOMAIN c -> Header]
  <2>1. /\ DOMAIN chain[n] \subseteq Nat
        /\ IsFiniteSet(DOMAIN chain[n])
        /\ chain[n] \in [DOMAIN chain[n] -> Header]
    BY DEF IndInv, TypeOK
  <2>2. CASE b.idx \in DOMAIN chain[n]
    BY <2>1, <2>2 DEF AppendBlock
  <2>3. CASE b.idx \notin DOMAIN chain[n]
    <3>1. c = [i \in DOMAIN chain[n] \cup {b.idx} |->
                  IF i \in DOMAIN chain[n] THEN chain[n][i] ELSE b]
      BY <2>3 DEF AppendBlock
    <3>2. DOMAIN c = DOMAIN chain[n] \cup {b.idx}
      BY <3>1
    <3>3. IsFiniteSet(DOMAIN c)
      BY <2>1, <3>2, FS_AddElement
    <3> QED
      BY <1>5, <2>1, <3>1, <3>2, <3>3
  <2> QED
    BY <2>2, <2>3
<1> HIDE DEF b, c
<1>8. DOMAIN chain' = Nodes
      /\ \A k \in Nodes : /\ DOMAIN chain'[k] \subseteq Nat
                          /\ IsFiniteSet(DOMAIN chain'[k])
                          /\ chain'[k] \in [DOMAIN chain'[k] -> Header]
  BY <1>6, <1>7 DEF IndInv, TypeOK
<1>9. TypeOK'
  BY <1>1, <1>2, <1>3, <1>4, <1>8, ClearInd DEF IndInv, TypeOK
<1> QED
  BY <1>1, <1>2, <1>9, ClearInd DEF IndInv

LEMMA StepInd == IndInv /\ [Next]_vars => IndInv'
<1> SUFFICES ASSUME IndInv, [Next]_vars PROVE IndInv'
  OBVIOUS
<1>1. ASSUME UNCHANGED <<turn, stop, step, timeContext, roundVars, blockVars,
                         myVote, voteVars, verified, commitBlock, chain>>,
             clock' \in [Nodes -> Nat]
      PROVE  IndInv'
  <2>1. UNCHANGED <<turn, stop, step, timeContext, newRound, newRoundVotes,
                    userHeader, candidate, proposed, myVote, voteBox,
                    voteCounts, verified, commitBlock, chain>>
    BY <1>1 DEF roundVars, blockVars, voteVars
  <2>2. TypeOK'
    BY <1>1, <2>1 DEF IndInv, TypeOK
  <2>3. TalliesAgree'
    BY <2>1 DEF IndInv, TalliesAgree
  <2> QED
    BY <2>1, <2>2, <2>3, VerifiedSame DEF IndInv
<1>2. ASSUME NEW n \in Nodes, Idle(n) PROVE IndInv'
  <2>1. /\ UNCHANGED <<step, timeContext, newRound, newRoundVotes, userHeader,
                       candidate, proposed, myVote, voteBox, voteCounts,
                       verified, commitBlock, chain>>
        /\ UNCHANGED <<clock, stop>> /\ turn' \in Nodes
    BY <1>2, PolledType DEF Idle, IndInv, roundVars, blockVars, voteVars
  <2>2. TypeOK'
    BY <2>1 DEF IndInv, TypeOK
  <2>3. TalliesAgree'
    BY <2>1 DEF IndInv, TalliesAgree
  <2> QED
    BY <2>1, <2>2, <2>3, VerifiedSame DEF IndInv
<1>3. CASE Poll
  <2>1. PICK n \in Nodes : Process(n)
    BY <1>3 DEF Poll
  <2> QED
    BY <2>1, <1>2, NewRoundReadyInd, NewRoundStartInd, ProposeStartInd,
       VoteStartInd, ConsensusFailInd, CommitStartInd, NewBlockCommitInd
    DEF Process
<1>4. CASE Tick
  <2>1. clock' \in [Nodes -> Nat]
    BY <1>4 DEF Tick, IndInv, TypeOK
  <2> QED
    BY <1>1, <1>4, <2>1 DEF Tick
<1>5. CASE Stop
  <2>1. UNCHANGED <<clock, turn, step, timeContext, newRound, newRoundVotes,
                    userHeader, candidate, proposed, myVote, voteBox,
                    voteCounts, verified, commitBlock, chain>>
        /\ stop' = TRUE
    BY <1>5 DEF Stop, roundVars, blockVars, voteVars
  <2>2. TypeOK'
    BY <2>1 DEF IndInv, TypeOK
  <2>3. TalliesAgree'
    BY <2>1 DEF IndInv, TalliesAgree
  <2> QED
    BY <2>1, <2>2, <2>3, VerifiedSame DEF IndInv
<1>6. CASE UNCHANGED vars
  <2>1. clock' \in [Nodes -> Nat]
    BY <1>6 DEF vars, IndInv, TypeOK
  <2> QED
    BY <1>1, <1>6, <2>1 DEF vars
<1> QED
  BY <1>3, <1>4, <1>5, <1>6 DEF Next, Exited

(* Whatever the number of nodes, the time-outs and the delays: the state is  *)
(* well typed, the counters agree with the messages filed, and every commit  *)
(* filed is for the one elected block.                                      *)
THEOREM Invariance == Spec => []IndInv
<1> QED
  BY InitInd, StepInd, PTL DEF Spec

(* Type correctness of every reachable state.                               *)
THEOREM TypeCorrect == Spec => []TypeOK
<1>1. IndInv => TypeOK
  BY DEF IndInv
<1> QED
  BY <1>1, Invariance, PTL

(* _new_round_votes and _vote_counts never drift from the messages filed.   *)
THEOREM TalliesCorrect == Spec => []TalliesAgree
<1>1. IndInv => TalliesAgree
  BY DEF IndInv
<1> QED
  BY <1>1, Invariance, PTL

(* No node's votes ever elect two headers.                                  *)
THEOREM ElectionUnique == Spec => []AtMostOneElected
<1>1. IndInv => AtMostOneElected
  BY ElectedUnique DEF IndInv, AtMostOneElected
<1> QED
  BY <1>1, Invariance, PTL

(* The commits a node has filed, and its _commit_block, are those of the     *)
(* header its own vote box elects.                                          *)
THEOREM VerifiedCorrect == Spec => []VerifiedIsElected
<1>1. IndInv => VerifiedIsElected
  BY DEF IndInv
<1> QED
  BY <1>1, Invariance, PTL

(* A chain changes only by on_bcp_new_block_commit_for.                     *)
LEMMA ChainStep ==
    ASSUME IndInv, [Next]_vars, NEW n \in Nodes, chain'[n] # chain[n]
    PROVE  NewBlockCommit(n)
<1>1. CASE Poll
  <2>1. PICK k \in Nodes : Process(k)
    BY <1>1 DEF Poll
  <2>2. NewBlockCommit(k)
    BY <2>1 DEF Process, NewRoundReady, NewRoundStart, ProposeStart, VoteStart,
                ConsensusFail, CommitStart, Idle
  <2>3. k = n
    BY <2>2 DEF NewBlockCommit, IndInv, TypeOK
  <2> QED
    BY <2>2, <2>3
<1> QED
  BY <1>1 DEF Next, Tick, Stop, Exited, vars

(* Every block of every chain was elected by a majority of the votes its     *)
(* node had, and committed to that node by a majority of the peers.         *)
THEOREM CommitsCorrect == Spec => CommitNeedsMajorities
<1>1. ASSUME IndInv, [Next]_vars, NEW n \in Nodes, chain'[n] # chain[n]
      PROVE  \E h \in Elected(n) :
                /\ chain'[n] = AppendBlock(chain[n], h)
                /\ Cardinality(Voters(verified[n], h)) >= Majority
  <2>1. NewBlockCommit(n)
    BY <1>1, ChainStep
  <2>2. Commits(n) /\ chain'[n] = AppendBlock(chain[n], commitBlock[n])
    BY <1>1, <2>1 DEF NewBlockCommit, IndInv, TypeOK
  <2>3. Cardinality(Voters(verified[n], commitBlock[n])) >= Majority
    BY <1>1, <2>2, CommitBlockElected DEF Commits
  <2> QED
    BY <1>1, <2>2, <2>3, CommitBlockElected
<1>2. IndInv /\ [Next]_vars =>
         [\A n \in Nodes : chain'[n] # chain[n] =>
            \E h \in Elected(n) :
               /\ chain'[n] = AppendBlock(chain[n], h)
               /\ Cardinality(Voters(verified[n], h)) >= Majority]_vars
  BY <1>1
<1> QED
  BY <1>2, Invariance, PTL DEF Spec, CommitNeedsMajorities

-----------------------------------------------------------------------------
(* Rounds are unanimous.                                                    *)

(* new_round_start_for succeeds only when every peer has named that round.   *)
LEMMA RoundUnanimous ==
    ASSUME IndInv, NEW n \in Nodes, NEW r \in DOMAIN newRoundVotes[n],
           RoundStarts(n, r)
    PROVE  \A p \in Nodes : newRound[n][p] = r
<1> DEFINE V == Voters(newRound[n], r)
<1>1. newRoundVotes[n][r] = Cardinality(V) /\ newRoundVotes[n][r] >= N
  BY DEF IndInv, TalliesAgree, Tallied, RoundStarts
<1>2. V \in SUBSET Nodes
  BY DEF Voters
<1>3. Cardinality(V) \in Nat /\ Cardinality(V) <= N
  BY VotersFinite
<1>4. Cardinality(V) = Cardinality(Nodes)
  BY <1>1, <1>3, NodesFinite, MajorityFacts
<1>5. V = Nodes
  BY <1>2, <1>4, NodesFinite, FS_Subset
<1> QED
  BY <1>5 DEF Voters

(* How a step changes a node's step and the new-round messages it has filed. *)
LEMMA RoundStep ==
    ASSUME IndInv, [Next]_vars, NEW n \in Nodes, step[n] = "waiting"
    PROVE  /\ \A p \in Nodes : newRound[n][p] # None =>
                 newRound'[n][p] = newRound[n][p]
           /\ \/ step'[n] = "waiting"
              \/ \A p, q \in Nodes : newRound[n][p] = newRound[n][q]
<1>1. CASE Poll
  <2>1. PICK k \in Nodes : Process(k)
    BY <1>1 DEF Poll
  <2>2. CASE NewRoundReady(k)
    <3>1. /\ newRound' = [m \in Nodes |-> AddOnce(newRound[m], k, Height(k) + 1)]
          /\ step' = step
      BY <2>2 DEF NewRoundReady, SendNewRound
    <3> QED
      BY <3>1 DEF AddOnce, IndInv, TypeOK
  <2>3. CASE NewRoundStart(k)
    <3>1. newRound' = newRound /\ step' = [step EXCEPT ![k] = "pop"]
      BY <2>3 DEF NewRoundStart, roundVars
    <3>2. CASE k # n
      BY <3>1, <3>2 DEF IndInv, TypeOK
    <3>3. CASE k = n
      <4>1. PICK r \in DOMAIN newRoundVotes[n] : RoundStarts(n, r)
        BY <2>3, <3>3 DEF NewRoundStart
      <4> QED
        BY <3>1, <4>1, RoundUnanimous
    <3> QED
      BY <3>2, <3>3
  <2>4. CASE ProposeStart(k) \/ VoteStart(k) \/ CommitStart(k)
    BY <2>4 DEF ProposeStart, ProposeStarts, VoteStart, VoteStarts, CommitStart,
                CommitStarts, roundVars, IndInv, TypeOK
  <2>5. CASE ConsensusFail(k) \/ NewBlockCommit(k)
    BY <2>5 DEF ConsensusFail, VoteTimesOut, CommitTimesOut, NewBlockCommit,
                Commits, ClearIntermediateData, IndInv, TypeOK
  <2>6. CASE Idle(k)
    BY <2>6 DEF Idle, roundVars
  <2> QED
    BY <2>1, <2>2, <2>3, <2>4, <2>5, <2>6 DEF Process
<1> QED
  BY <1>1 DEF Next, Tick, Stop, Exited, vars, roundVars

(* A node that has filed two different rounds never takes part in a round    *)
(* again.                                                                   *)
THEOREM ConflictPermanent == Spec => ConflictIsPermanent
<1>1. ASSUME IndInv, [Next]_vars, NEW n \in Nodes, Conflicted(n)
      PROVE  Conflicted(n)'
  <2>1. PICK p \in Entries(newRound[n]), q \in Entries(newRound[n]) :
            newRound[n][p] # newRound[n][q]
    BY <1>1 DEF Conflicted
  <2>2. p \in Nodes /\ q \in Nodes /\ newRound[n][p] # None /\ newRound[n][q] # None
    BY DEF Entries
  <2>3. step[n] = "waiting"
    BY <1>1 DEF Conflicted
  <2>4. /\ newRound'[n][p] = newRound[n][p] /\ newRound'[n][q] = newRound[n][q]
        /\ step'[n] = "waiting"
    BY <1>1, <2>1, <2>2, <2>3, RoundStep
  <2> QED
    BY <2>1, <2>2, <2>4 DEF Conflicted, Entries
<1>2. IndInv /\ [Next]_vars =>
         [\A n \in Nodes : Conflicted(n) => Conflicted(n)']_vars
  BY <1>1
<1> QED
  BY <1>2, Invariance, PTL DEF Spec, ConflictIsPermanent

(* A node that never synchronised is never heard from.                      *)
Silent == \A n, m \in Nodes : step[n] = "null" => newRound[m][n] = None

LEMMA UnsyncedInit == Init => UnsyncedBlocksAll /\ Silent
BY StartAssumption DEF Init, UnsyncedBlocksAll, Silent, EmptyMap, NoEntries

LEMMA UnsyncedStep ==
    IndInv /\ UnsyncedBlocksAll /\ Silent /\ [Next]_vars =>
       (UnsyncedBlocksAll /\ Silent)'
<1> SUFFICES ASSUME IndInv, UnsyncedBlocksAll, Silent, [Next]_vars
             PROVE  (UnsyncedBlocksAll /\ Silent)'
  OBVIOUS
<1>1. ASSUME UNCHANGED <<step, newRound, chain>>
      PROVE  (UnsyncedBlocksAll /\ Silent)'
  BY <1>1 DEF UnsyncedBlocksAll, Silent
<1>2. CASE Poll
  <2>1. PICK k \in Nodes : Process(k)
    BY <1>2 DEF Poll
  <2>2. ASSUME NEW m \in Nodes, step'[m] = "null" PROVE step[m] = "null"
    BY <2>1, <2>2 DEF Process, NewRoundReady, NewRoundStart, ProposeStart,
       VoteStart, ConsensusFail, CommitStart, NewBlockCommit, Idle, IndInv,
       TypeOK
  <2>3. CASE \A m \in Nodes : step[m] # "null"
    BY <2>2, <2>3 DEF UnsyncedBlocksAll, Silent
  <2>4. CASE \E m \in Nodes : step[m] = "null"
    <3>1. PICK z \in Nodes : step[z] = "null"
      BY <2>4
    <3>2. \A m \in Nodes : step[m] \in {"null", "waiting"} /\ DOMAIN chain[m] = {}
      BY <3>1 DEF UnsyncedBlocksAll
    <3>3. CASE NewRoundReady(k)
      <4>1. /\ newRound' = [m \in Nodes |->
                               AddOnce(newRound[m], k, Height(k) + 1)]
            /\ UNCHANGED <<step, chain>>
        BY <3>3 DEF NewRoundReady, SendNewRound
      <4>2. step[k] = "waiting"
        BY <3>3 DEF NewRoundReady, RoundReady
      <4>3. Silent'
        BY <4>1, <4>2 DEF Silent, AddOnce, IndInv, TypeOK
      <4> QED
        BY <4>1, <4>3 DEF UnsyncedBlocksAll
    <3>4. CASE NewRoundStart(k)
      <4>1. PICK r \in DOMAIN newRoundVotes[k] : RoundStarts(k, r)
        BY <3>4 DEF NewRoundStart
      <4>2. newRound[k][z] = r /\ r \in Nat
        BY <4>1, RoundUnanimous DEF IndInv, TypeOK, IsTally
      <4> QED
        BY <3>1, <4>2, NoneAssumption DEF Silent
    <3>5. CASE Idle(k)
      BY <1>1, <3>5 DEF Idle, roundVars
    <3> QED
      BY <2>1, <3>2, <3>3, <3>4, <3>5
      DEF Process, ProposeStart, ProposeStarts, VoteStart, VoteStarts,
          ConsensusFail, VoteTimesOut, CommitTimesOut, CommitStart,
          CommitStarts, NewBlockCommit, Commits
  <2> QED
    BY <2>3, <2>4
<1> QED
  BY <1>1, <1>2 DEF Next, Tick, Stop, Exited, vars, roundVars

(* One node whose NTP sync failed keeps every node out of every round.      *)
THEOREM UnsyncedBlocks == Spec => []UnsyncedBlocksAll
<1> QED
  BY UnsyncedInit, UnsyncedStep, Invariance, PTL DEF Spec

-----------------------------------------------------------------------------
(* Heights.  Lockstep is not inductive: a node may only be let ahead because *)
(* every peer has told it, in the round it is in, that it is not behind.    *)

(* A node's own message is never out of date.                               *)
OwnRoundCurrent == \A n \in Nodes : newRound[n][n] \in {None, Height(n) + 1}

(* A peer's message may be out of date, but never runs ahead of the peer.   *)
RoundsNotAhead ==
    \A m, n \in Nodes : newRound[m][n] # None => newRound[m][n] <= Height(n) + 1

(* A node in a round holds the messages of all peers for that round.        *)
InRound ==
    \A n \in Nodes : step[n] \notin {"null", "waiting"} =>
       \A p \in Nodes : newRound[n][p] = Height(n) + 1

HeightInv == OwnRoundCurrent /\ RoundsNotAhead /\ InRound /\ Lockstep

(* Heights are natural numbers.                                             *)
LEMMA HeightType ==
    ASSUME TypeOK, NEW n \in Nodes
    PROVE  Height(n) \in Nat
BY FS_CardinalityType DEF TypeOK, Height

(* append_block makes a chain longer by one block or refuses it.            *)
LEMMA AppendHeight ==
    ASSUME NEW c, IsFiniteSet(DOMAIN c), NEW b
    PROVE  \/ DOMAIN AppendBlock(c, b) = DOMAIN c
           \/ Cardinality(DOMAIN AppendBlock(c, b)) = Cardinality(DOMAIN c) + 1
<1>1. CASE b.idx \in DOMAIN c
  BY <1>1 DEF AppendBlock
<1>2. CASE b.idx \notin DOMAIN c
  <2>1. DOMAIN AppendBlock(c, b) = DOMAIN c \cup {b.idx}
    BY <1>2 DEF AppendBlock
  <2> QED
    BY <1>2, <2>1, FS_AddElement
<1> QED
  BY <1>1, <1>2

LEMMA HeightInit == Init => HeightInv
<1> SUFFICES ASSUME Init PROVE HeightInv
  OBVIOUS
<1>1. \A n \in Nodes : Height(n) = 0
  BY FS_EmptySet DEF Init, Height, EmptyMap
<1>2. \A m, n \in Nodes : newRound[m][n] = None
  BY DEF Init, NoEntries
<1>3. \A n \in Nodes : step[n] \in {"null", "waiting"}
  BY StartAssumption DEF Init
<1> QED
  BY <1>1, <1>2, <1>3
  DEF HeightInv, OwnRoundCurrent, RoundsNotAhead, InRound, Lockstep

LEMMA HeightStep == IndInv /\ HeightInv /\ [Next]_vars => HeightInv'
<1> SUFFICES ASSUME IndInv, HeightInv, [Next]_vars PROVE HeightInv'
  OBVIOUS
<1> USE DEF IndInv
<1> DEFINE H(n) == Height(n)
<1>1. \A n \in Nodes : H(n) \in Nat
  BY HeightType
<1>2. ASSUME chain' = chain PROVE \A n \in Nodes : H(n)' = H(n)
  BY <1>2 DEF Height
<1>3. ASSUME chain' = chain, newRound' = newRound,
             \A n \in Nodes : step'[n] \notin {"null", "waiting"} =>
                \/ step[n] \notin {"null", "waiting"}
                \/ \A p \in Nodes : newRound[n][p] = H(n) + 1
      PROVE  HeightInv'
  <2>1. \A n \in Nodes : H(n)' = H(n)
    BY <1>2, <1>3
  <2> HIDE DEF H
  <2>2. OwnRoundCurrent' /\ RoundsNotAhead' /\ Lockstep'
    BY <1>3, <2>1 DEF HeightInv, OwnRoundCurrent, RoundsNotAhead, Lockstep, H
  <2>3. InRound'
    BY <1>3, <2>1 DEF HeightInv, InRound, H
  <2> QED
    BY <2>2, <2>3 DEF HeightInv
<1>4. ASSUME NEW k \in Nodes, NewRoundReady(k) PROVE HeightInv'
  <2>1. /\ newRound' = [m \in Nodes |-> AddOnce(newRound[m], k, H(k) + 1)]
        /\ UNCHANGED <<step, chain>>
    BY <1>4 DEF NewRoundReady, SendNewRound
  <2>2. \A n \in Nodes : H(n)' = H(n)
    BY <1>2, <2>1
  <2> HIDE DEF H
  <2>3. \A m, n \in Nodes :
           \/ newRound'[m][n] = newRound[m][n]
           \/ n = k /\ newRound[m][k] = None /\ newRound'[m][k] = H(k) + 1
    BY <2>1 DEF AddOnce, TypeOK
  <2>4. OwnRoundCurrent'
    BY <2>2, <2>3 DEF HeightInv, OwnRoundCurrent, H
  <2>5. RoundsNotAhead'
    <3> SUFFICES ASSUME NEW m \in Nodes, NEW n \in Nodes, newRound'[m][n] # None
                 PROVE  newRound'[m][n] <= H(n)'  + 1
      BY DEF RoundsNotAhead, H
    <3>1. CASE newRound'[m][n] = newRound[m][n]
      BY <3>1, <2>2 DEF HeightInv, RoundsNotAhead, H
    <3>2. CASE n = k /\ newRound'[m][k] = H(k) + 1
      BY <3>2, <2>2, <1>1
    <3> QED
      BY <3>1, <3>2, <2>3
  <2>6. InRound'
    <3> SUFFICES ASSUME NEW n \in Nodes, step[n] \notin {"null", "waiting"},
                        NEW p \in Nodes
                 PROVE  newRound'[n][p] = H(n)' + 1
      BY <2>1 DEF InRound, H
    <3>1. newRound[n][p] = H(n) + 1 /\ newRound[n][k] = H(n) + 1
      BY DEF HeightInv, InRound, H
    <3>2. newRound[n][k] # None
      BY <3>1, <1>1, NoneAssumption
    <3> QED
      BY <2>2, <2>3, <3>1, <3>2
  <2>7. Lockstep'
    BY <2>2 DEF HeightInv, Lockstep, H
  <2> QED
    BY <2>4, <2>5, <2>6, <2>7 DEF HeightInv
<1>5. ASSUME NEW k \in Nodes, NewRoundStart(k) PROVE HeightInv'
  <2>1. /\ UNCHANGED <<newRound, chain>>
        /\ step' = [step EXCEPT ![k] = "pop"]
    BY <1>5 DEF NewRoundStart, roundVars
  <2>2. PICK r \in DOMAIN newRoundVotes[k] : RoundStarts(k, r)
    BY <1>5 DEF NewRoundStart
  <2>3. \A p \in Nodes : newRound[k][p] = r
    BY <2>2, RoundUnanimous
  <2>4. r = H(k) + 1
    <3>1. newRound[k][k] = r /\ r \in Nat
      BY <2>3 DEF TypeOK, IsTally
    <3> QED
      BY <3>1, NoneAssumption DEF HeightInv, OwnRoundCurrent
  <2>5. \A n \in Nodes : step'[n] \notin {"null", "waiting"} =>
           \/ step[n] \notin {"null", "waiting"}
           \/ \A p \in Nodes : newRound[n][p] = H(n) + 1
    BY <2>1, <2>3, <2>4 DEF TypeOK
  <2> QED
    BY <2>1, <2>5, <1>3
<1>6. ASSUME NEW k \in Nodes, ProposeStart(k) \/ VoteStart(k) \/ CommitStart(k)
      PROVE  HeightInv'
  <2>1. /\ UNCHANGED <<newRound, chain>>
        /\ \A n \in Nodes : step'[n] \notin {"null", "waiting"} =>
              step[n] \notin {"null", "waiting"}
    BY <1>6 DEF ProposeStart, ProposeStarts, VoteStart, VoteStarts, CommitStart,
                CommitStarts, roundVars, TypeOK
  <2> QED
    BY <1>3, <2>1
<1>7. ASSUME NEW k \in Nodes, ConsensusFail(k) \/ NewBlockCommit(k)
      PROVE  HeightInv'
  <2>1. /\ newRound' = [newRound EXCEPT ![k] = NoEntries]
        /\ step' = [step EXCEPT ![k] = "waiting"]
        /\ step[k] \notin {"null", "waiting"}
    BY <1>7 DEF ConsensusFail, NewBlockCommit, ClearIntermediateData, Commits,
                VoteTimesOut, CommitTimesOut
  <2>2. /\ \A n \in Nodes : n # k => H(n)' = H(n)
        /\ H(k)' = H(k) \/ H(k)' = H(k) + 1
    <3>1. CASE chain' = chain
      BY <1>2, <3>1
    <3>2. CASE chain' = [chain EXCEPT ![k] = AppendBlock(@, commitBlock[k])]
      <4>1. chain'[k] = AppendBlock(chain[k], commitBlock[k])
        BY <3>2 DEF TypeOK
      <4>2. IsFiniteSet(DOMAIN chain[k])
        BY DEF TypeOK
      <4>3. H(k)' = H(k) \/ H(k)' = H(k) + 1
        BY <4>1, <4>2, AppendHeight DEF Height
      <4> QED
        BY <3>2, <4>3 DEF Height, TypeOK
    <3> QED
      BY <1>7, <3>1, <3>2 DEF ConsensusFail, NewBlockCommit
  <2> HIDE DEF H
  <2>3. \A n \in Nodes : H(k) <= H(n)
    <3> SUFFICES ASSUME NEW n \in Nodes PROVE H(k) <= H(n)
      OBVIOUS
    <3>1. newRound[k][n] = H(k) + 1
      BY <2>1 DEF HeightInv, InRound, H
    <3>2. newRound[k][n] <= H(n) + 1
      BY <3>1, <1>1, NoneAssumption DEF HeightInv, RoundsNotAhead, H
    <3> QED
      BY <3>1, <3>2, <1>1
  <2>4. /\ \A n \in Nodes : newRound'[k][n] = None
        /\ \A m \in Nodes : m # k => newRound'[m] = newRound[m]
    BY <2>1 DEF NoEntries, TypeOK
  <2>5. OwnRoundCurrent'
    BY <2>2, <2>4 DEF HeightInv, OwnRoundCurrent, H
  <2>6. RoundsNotAhead'
    <3> SUFFICES ASSUME NEW m \in Nodes, NEW n \in Nodes, newRound'[m][n] # None
                 PROVE  newRound'[m][n] <= H(n)' + 1
      BY DEF RoundsNotAhead, H
    <3>1. newRound'[m][n] = newRound[m][n] /\ newRound[m][n] <= H(n) + 1
      BY <2>4 DEF HeightInv, RoundsNotAhead, H
    <3>2. newRound[m][n] \in Nat
      BY <3>1 DEF TypeOK
    <3> QED
      BY <1>1, <2>2, <3>1, <3>2
  <2>7. InRound'
    <3> SUFFICES ASSUME NEW n \in Nodes, step'[n] \notin {"null", "waiting"}
                 PROVE  \A p \in Nodes : newRound'[n][p] = H(n)' + 1
      BY DEF InRound, H
    <3>1. n # k /\ step'[n] = step[n]
      BY <2>1 DEF TypeOK
    <3> QED
      BY <2>2, <2>4, <3>1 DEF HeightInv, InRound, H
  <2>8. Lockstep'
    <3> SUFFICES ASSUME NEW m \in Nodes, NEW n \in Nodes
                 PROVE  H(m)' <= H(n)' + 1
      BY DEF Lockstep, H
    <3>1. H(m) <= H(n) + 1
      BY DEF HeightInv, Lockstep, H
    <3> QED
      BY <1>1, <2>2, <2>3, <3>1
  <2> QED
    BY <2>5, <2>6, <2>7, <2>8 DEF HeightInv
<1>8. ASSUME UNCHANGED <<step, newRound, chain>> PROVE HeightInv'
  BY <1>3, <1>8
<1>9. CASE Poll
  <2>1. PICK k \in Nodes : Process(k)
    BY <1>9 DEF Poll
  <2>2. CASE Idle(k)
    BY <1>8, <2>2 DEF Idle, roundVars
  <2> QED
    BY <2>1, <2>2, <1>4, <1>5, <1>6, <1>7 DEF Process
<1> QED
  BY <1>8, <1>9 DEF Next, Tick, Stop, Exited, vars, roundVars

(* However polls are delayed and clocks differ, no node gets two blocks      *)
(* ahead of another.                                                        *)
THEOREM LockstepCorrect == Spec => []Lockstep
<1>1. Spec => []HeightInv
  BY HeightInit, HeightStep, Invariance, PTL DEF Spec
<1>2. HeightInv => Lockstep
  BY DEF HeightInv
<1> QED
  BY <1>1, <1>2, PTL

-----------------------------------------------------------------------------
(* Gaps.  That a chain has none is not inductive: the block appended must    *)
(* not be ahead of the chain.  No header that is under way is ahead of any   *)
(* node, because its owner was let into the round only by all the peers.    *)
InReach(h) == 0 < h.idx /\ \A m \in Nodes : h.idx <= Height(m) + 1

HeadersInReach ==
    \A n \in Nodes :
       /\ userHeader[n] # None => InReach(userHeader[n])
       /\ commitBlock[n] # None => InReach(commitBlock[n])
       /\ \A p \in Nodes :
             /\ proposed[n][p] # None => InReach(proposed[n][p])
             /\ voteBox[n][p] # None => InReach(voteBox[n][p])

GapInv == NoGaps /\ HeadersInReach

(* What is elected has been voted for.                                      *)
LEMMA ElectedVoted ==
    ASSUME IndInv, NEW n \in Nodes, NEW h \in Elected(n)
    PROVE  \E p \in Nodes : voteBox[n][p] = h /\ h # None
<1>1. voteCounts[n][h] = Cardinality(Voters(voteBox[n], h))
  BY DEF Elected, IndInv, TalliesAgree, Tallied
<1>2. Voters(voteBox[n], h) # {}
  BY <1>1, MajorityFacts, FS_EmptySet DEF Elected
<1>3. h # None
  BY ElectedIsHeader DEF IndInv
<1> QED
  BY <1>2, <1>3 DEF Voters

LEMMA GapInit == Init => GapInv
<1> SUFFICES ASSUME Init PROVE GapInv
  OBVIOUS
<1>1. \A n \in Nodes : Height(n) = 0 /\ DOMAIN chain[n] = {}
  BY FS_EmptySet DEF Init, Height, EmptyMap
<1>2. NoGaps
  BY <1>1 DEF NoGaps
<1>3. HeadersInReach
  BY DEF Init, NoEntries, HeadersInReach
<1> QED
  BY <1>2, <1>3 DEF GapInv

LEMMA GapStep == IndInv /\ HeightInv /\ GapInv /\ [Next]_vars => GapInv'
<1> SUFFICES ASSUME IndInv, HeightInv, GapInv, [Next]_vars PROVE GapInv'
  OBVIOUS
<1> USE DEF IndInv
<1>1. \A n \in Nodes : Height(n) \in Nat
  BY HeightType
<1>2. ASSUME chain' = chain
      PROVE  /\ NoGaps'
             /\ \A h : InReach(h) => InReach(h)'
  BY <1>2 DEF GapInv, NoGaps, Height, InReach
<1>3. ASSUME UNCHANGED <<userHeader, proposed, voteBox, commitBlock, chain>>
      PROVE  GapInv'
  BY <1>2, <1>3 DEF GapInv, HeadersInReach
<1>4. ASSUME NEW k \in Nodes, NewRoundStart(k) PROVE GapInv'
  <2>1. UNCHANGED <<proposed, voteBox, commitBlock, chain>>
    BY <1>4 DEF NewRoundStart, voteVars
  <2>2. PICK r \in DOMAIN newRoundVotes[k] :
            /\ RoundStarts(k, r)
            /\ \/ userHeader' = userHeader
               \/ userHeader' = [userHeader EXCEPT ![k] =
                                    IF @ = None THEN NewBlock(k, r) ELSE @]
    BY <1>4 DEF NewRoundStart
  <2>3. InReach(NewBlock(k, r))
    <3>1. \A p \in Nodes : newRound[k][p] = r
      BY <2>2, RoundUnanimous
    <3>2. r \in Nat /\ r > 0 /\ r # None
      BY <2>2, NoneAssumption DEF RoundStarts, TypeOK, IsTally
    <3>3. \A p \in Nodes : r <= Height(p) + 1
      BY <3>1, <3>2 DEF HeightInv, RoundsNotAhead
    <3> QED
      BY <3>2, <3>3 DEF InReach, NewBlock
  <2> DEFINE b == NewBlock(k, r)
  <2> HIDE DEF b
  <2>4. \A n \in Nodes : userHeader'[n] \in {userHeader[n], b}
    BY <2>2 DEF TypeOK, b
  <2>5. \A n \in Nodes : userHeader'[n] # None => InReach(userHeader'[n])
    BY <2>3, <2>4 DEF GapInv, HeadersInReach, b
  <2>6. HeadersInReach'
    BY <1>2, <2>1, <2>5 DEF GapInv, HeadersInReach
  <2> QED
    BY <1>2, <2>1, <2>6 DEF GapInv
<1>5. ASSUME NEW k \in Nodes, ProposeStart(k) PROVE GapInv'
  <2>1. UNCHANGED <<userHeader, voteBox, commitBlock, chain>>
    BY <1>5 DEF ProposeStart, voteVars
  <2>2. ASSUME NEW n \in Nodes, NEW p \in Nodes
        PROVE  proposed'[n][p] \in {proposed[n][p], userHeader[k]}
    <3>1. proposed[n] \in [Nodes -> MaybeHeader]
      BY DEF TypeOK
    <3>2. \/ proposed' = proposed
          \/ proposed'[n] = AddOnce(proposed[n], k, userHeader[k])
      BY <1>5 DEF ProposeStart
    <3> QED
      BY <3>1, <3>2, AddOnceValue
  <2>3. \A n, p \in Nodes : proposed'[n][p] # None => InReach(proposed'[n][p])
    BY <2>2 DEF GapInv, HeadersInReach
  <2>4. HeadersInReach'
    BY <1>2, <2>1, <2>3 DEF GapInv, HeadersInReach
  <2> QED
    BY <1>2, <2>1, <2>4 DEF GapInv
<1>6. ASSUME NEW k \in Nodes, VoteStart(k) PROVE GapInv'
  <2>1. UNCHANGED <<userHeader, proposed, commitBlock, chain>>
    BY <1>6 DEF VoteStart, blockVars
  <2>2. \/ voteBox' = voteBox
        \/ \E h \in Proposals(k) : voteBox' = [n \in Nodes |-> AddOnce(voteBox[n], k, h)]
    BY <1>6 DEF VoteStart, SendVote, voteVars
  <2>3. \A h \in Proposals(k) : InReach(h)
    BY DEF GapInv, HeadersInReach, Proposals, Entries
  <2>4. ASSUME NEW n \in Nodes, NEW p \in Nodes, voteBox'[n][p] # None
        PROVE  InReach(voteBox'[n][p])
    <3>1. voteBox[n] \in [Nodes -> MaybeHeader]
      BY DEF TypeOK
    <3>2. \/ voteBox'[n][p] = voteBox[n][p]
          \/ \E h \in Proposals(k) : voteBox'[n][p] \in {voteBox[n][p], h}
      BY <2>2, <3>1, AddOnceValue
    <3> QED
      BY <2>3, <2>4, <3>2 DEF GapInv, HeadersInReach
  <2>5. HeadersInReach'
    BY <1>2, <2>1, <2>4 DEF GapInv, HeadersInReach
  <2> QED
    BY <1>2, <2>1, <2>5 DEF GapInv
<1>7. ASSUME NEW k \in Nodes, CommitStart(k) PROVE GapInv'
  <2>1. UNCHANGED <<userHeader, proposed, voteBox, chain>>
    BY <1>7 DEF CommitStart, blockVars, voteVars
  <2>2. \/ commitBlock' = commitBlock
        \/ \E h \in Elected(k) : commitBlock' =
              [n \in Nodes |-> IF Filed(n, h) # {} THEN h ELSE commitBlock[n]]
    BY <1>7 DEF CommitStart, SendVerifyBlock
  <2>3. \A h \in Elected(k) : InReach(h)
    BY ElectedVoted DEF GapInv, HeadersInReach
  <2>4. \A n \in Nodes : commitBlock'[n] # None => InReach(commitBlock'[n])
    BY <2>2, <2>3 DEF GapInv, HeadersInReach
  <2>5. HeadersInReach'
    BY <1>2, <2>1, <2>4 DEF GapInv, HeadersInReach
  <2> QED
    BY <1>2, <2>1, <2>5 DEF GapInv
<1>8. ASSUME NEW k \in Nodes, ClearIntermediateData(k), commitBlock' = commitBlock,
             \A n \in Nodes : Height(n)' \in Nat /\ Height(n)' >= Height(n)
      PROVE  HeadersInReach'
  <2>1. ASSUME NEW h, h.idx \in Nat, InReach(h) PROVE InReach(h)'
    BY <1>1, <1>8, <2>1 DEF InReach
  <2>2. \A h \in Header : h.idx \in Nat
    BY DEF Header
  <2>3. ASSUME NEW n \in Nodes
        PROVE  (/\ userHeader[n] # None => InReach(userHeader[n])
                /\ commitBlock[n] # None => InReach(commitBlock[n]))'
    <3>1. userHeader'[n] \in {None, userHeader[n]}
      BY <1>8 DEF ClearIntermediateData, TypeOK
    <3>2. userHeader[n] \in Header \cup {None} /\ commitBlock[n] \in Header \cup {None}
      BY DEF TypeOK, MaybeHeader
    <3> QED
      BY <1>8, <2>1, <2>2, <3>1, <3>2 DEF GapInv, HeadersInReach
  <2>4. ASSUME NEW n \in Nodes, NEW p \in Nodes
        PROVE  (/\ proposed[n][p] # None => InReach(proposed[n][p])
                /\ voteBox[n][p] # None => InReach(voteBox[n][p]))'
    <3>1. /\ proposed'[n][p] \in {None, proposed[n][p]}
          /\ voteBox'[n][p] \in {None, voteBox[n][p]}
      BY <1>8 DEF ClearIntermediateData, NoEntries, TypeOK
    <3>2. proposed[n][p] \in Header \cup {None} /\ voteBox[n][p] \in Header \cup {None}
      BY DEF TypeOK, MaybeHeader
    <3> QED
      BY <2>1, <2>2, <3>1, <3>2 DEF GapInv, HeadersInReach
  <2> QED
    BY <2>3, <2>4 DEF HeadersInReach
<1>9. ASSUME NEW k \in Nodes, ConsensusFail(k) PROVE GapInv'
  <2>1. ClearIntermediateData(k) /\ UNCHANGED <<commitBlock, chain>>
    BY <1>9 DEF ConsensusFail
  <2>2. \A n \in Nodes : Height(n)' = Height(n)
    BY <2>1 DEF Height
  <2> QED
    BY <1>1, <1>2, <1>8, <2>1, <2>2 DEF GapInv
<1>10. ASSUME NEW k \in Nodes, NewBlockCommit(k) PROVE GapInv'
  <2> DEFINE b == commitBlock[k]
             c == AppendBlock(chain[k], b)
  <2>1. ClearIntermediateData(k) /\ UNCHANGED commitBlock
    BY <1>10 DEF NewBlockCommit
  <2>2. Commits(k) /\ chain' = [chain EXCEPT ![k] = c]
    BY <1>10 DEF NewBlockCommit
  <2>3. b \in Header /\ b # None
    BY <2>2, CommitBlockElected, NoneAssumption
  <2>4. b.idx \in Nat /\ 0 < b.idx /\ b.idx <= Height(k) + 1
    BY <2>3 DEF Header, GapInv, HeadersInReach, InReach
  <2>5. DOMAIN chain[k] = 1 .. Height(k)
    BY DEF GapInv, NoGaps
  <2>6. \/ c = chain[k]
        \/ DOMAIN c = 1 .. Height(k) + 1
    <3>1. CASE b.idx \in DOMAIN chain[k]
      BY <3>1 DEF AppendBlock
    <3>2. CASE b.idx \notin DOMAIN chain[k]
      <4>1. b.idx = Height(k) + 1
        BY <1>1, <2>4, <2>5, <3>2
      <4>2. DOMAIN c = DOMAIN chain[k] \cup {b.idx}
        BY <3>2 DEF AppendBlock
      <4> QED
        BY <1>1, <2>5, <4>1, <4>2
    <3> QED
      BY <3>1, <3>2
  <2>7. /\ chain'[k] = c
        /\ \A n \in Nodes : n # k => chain'[n] = chain[n]
    BY <2>2 DEF TypeOK
  <2> HIDE DEF b, c
  <2>8. /\ DOMAIN chain'[k] = 1 .. Height(k)'
        /\ Height(k)' \in {Height(k), Height(k) + 1}
    <3>1. CASE c = chain[k]
      BY <2>5, <2>7, <3>1 DEF Height
    <3>2. CASE DOMAIN c = 1 .. Height(k) + 1
      <4>1. Cardinality(1 .. Height(k) + 1) = Height(k) + 1
        BY <1>1, FS_Interval
      <4> QED
        BY <2>7, <3>2, <4>1 DEF Height
    <3> QED
      BY <2>6, <3>1, <3>2
  <2>9. \A n \in Nodes : n # k => Height(n)' = Height(n)
    BY <2>7 DEF Height
  <2>10. NoGaps'
    BY <2>7, <2>8, <2>9 DEF GapInv, NoGaps
  <2>11. \A n \in Nodes : Height(n)' \in Nat /\ Height(n)' >= Height(n)
    BY <1>1, <2>8, <2>9
  <2> QED
    BY <1>8, <2>1, <2>10, <2>11 DEF GapInv
<1>11. CASE Poll
  <2>1. PICK k \in Nodes : Process(k)
    BY <1>11 DEF Poll
  <2>2. CASE NewRoundReady(k) \/ Idle(k)
    BY <1>3, <2>2 DEF NewRoundReady, Idle, blockVars, voteVars
  <2> QED
    BY <2>1, <2>2, <1>4, <1>5, <1>6, <1>7, <1>9, <1>10 DEF Process
<1> QED
  BY <1>3, <1>11 DEF Next, Tick, Stop, Exited, vars, blockVars, voteVars

(* However polls are delayed, and whatever block a stale majority elects,    *)
(* no chain ever has a gap.                                                 *)
THEOREM NoGapsCorrect == Spec => []NoGaps
<1>1. Spec => []HeightInv
  BY HeightInit, HeightStep, Invariance, PTL DEF Spec
<1>2. GapInv => NoGaps
  BY DEF GapInv
<1> QED
  BY GapInit, GapStep, Invariance, <1>1, <1>2, PTL DEF Spec

=============================================================================
