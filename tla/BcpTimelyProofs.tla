-------------------------- MODULE BcpTimelyProofs --------------------------
(***************************************************************************)
(* Agreement, and the refinement of Ledger, for any number of nodes, any   *)
(* time-outs farther apart than the clocks (SkewAssumption), any start and *)
(* any order of the block hashes.                                          *)
(*                                                                         *)
(* An election is seen in the second that brought it about, since no       *)
(* second begins while a node has work to do (ElectedInTime); until then   *)
(* the voters stand by their votes (VotesStand).  A block that is decided  *)
(* has the last votes of a majority, none of which can vote for another    *)
(* block of that height (DecidedHeld), so no other block of it is elected. *)
(***************************************************************************)
EXTENDS BcpTimely, BcpProofs, SequenceTheorems

(* The clock reading at which a time context begins.                        *)
Base(c) == c * BlockTime

(* A clock reading is in one time context, at the line it has there.        *)
LEMMA ContextOf ==
    ASSUME NEW t \in Nat
    PROVE  /\ t \div BlockTime \in Nat
           /\ Base(t \div BlockTime) <= t
           /\ t < Base(t \div BlockTime) + BlockTime
           /\ t % BlockTime = t - Base(t \div BlockTime)
BY TimeAssumption DEF Base

LEMMA BaseType == \A c \in Nat : Base(c) \in Nat
BY TimeAssumption DEF Base

(* A later context begins at least a block time later.                      *)
LEMMA ContextOrder ==
    ASSUME NEW c \in Nat, NEW d \in Nat, c < d
    PROVE  Base(c) + BlockTime <= Base(d)
<1>1. PICK e \in Nat : d = c + 1 + e
  <2>1. d - c - 1 \in Nat /\ d = c + 1 + (d - c - 1)
    OBVIOUS
  <2> QED
    BY <2>1
<1>2. d * BlockTime = c * BlockTime + BlockTime + e * BlockTime
  BY <1>1, TimeAssumption
<1>3. e * BlockTime >= 0 /\ e * BlockTime \in Nat
  BY TimeAssumption
<1> QED
  BY <1>2, <1>3, TimeAssumption DEF Base

(* The line of a reading that is less than a block time after a context's    *)
(* beginning.                                                               *)
LEMMA LineIn ==
    ASSUME NEW t \in Nat, NEW c \in Nat, Base(c) <= t, t < Base(c) + BlockTime
    PROVE  t \div BlockTime = c /\ t % BlockTime = t - Base(c)
<1> DEFINE d == t \div BlockTime
<1>1. /\ d \in Nat /\ Base(d) <= t /\ t < Base(d) + BlockTime
      /\ t % BlockTime = t - Base(d)
  BY ContextOf
<1>2. Base(c) \in Nat /\ Base(d) \in Nat /\ BlockTime \in Nat
  BY <1>1, BaseType, TimeAssumption
<1> HIDE DEF d
<1>3. c < d => FALSE
  BY <1>1, <1>2, ContextOrder
<1>4. d < c => FALSE
  BY <1>1, <1>2, ContextOrder
<1>5. d = c
  BY <1>1, <1>3, <1>4
<1> QED
  BY <1>1, <1>5 DEF d

-----------------------------------------------------------------------------
(* Time.                                                                    *)

(* When a node with clock t and _time_context c may be in step s: because it *)
(* is polled in time it never stays in a step past the first reading that    *)
(* ends the step.                                                           *)
OnTime(t, c, s) ==
    /\ Base(c) <= t
    /\ s = "pop" => t <= Base(c) + TPop + 1
    /\ s = "propose" => t <= Base(c) + TPropose + 1
    /\ s = "vote" => t <= Base(c) + TVote + 1
    /\ s \in {"vote", "commit"} => t > Base(c) + TPropose

ClockInv ==
    /\ \A m, n \in Nodes : clock[m] - clock[n] <= MaxSkew
    /\ \A n \in Nodes : OnTime(clock[n], timeContext[n], step[n])

(* A timely step is a step.                                                 *)
LEMMA TimelyIsNext == [TimelyNext]_vars => [Next]_vars
BY DEF TimelyNext, TimelyTick, Next

LEMMA ClockInit == Init => ClockInv
<1> SUFFICES ASSUME Init PROVE ClockInv
  OBVIOUS
<1>1. \A n \in Nodes : clock[n] \in Nat /\ timeContext[n] = 0
                         /\ step[n] \in {"null", "waiting"}
  BY StartAssumption DEF Init
<1>2. Base(0) = 0
  BY TimeAssumption DEF Base
<1> QED
  BY <1>1, <1>2 DEF Init, ClockInv, OnTime

(* The bounds that the guards of process() put on the clock.                *)
LEMMA GuardTimes ==
    ASSUME TypeOK, ClockInv, NEW n \in Nodes
    PROVE  /\ clock[n] \in Nat /\ Base(timeContext[n]) \in Nat
           /\ \A r : RoundStarts(n, r) =>
                 /\ clock[n] < Base(timeContext[n]) + TPop
                 /\ TimeContext(n) = timeContext[n]
           /\ step[n] = "pop" =>
                 (ProposeStarts(n) <=> clock[n] = Base(timeContext[n]) + TPop + 1)
           /\ step[n] = "propose" =>
                 (VoteStarts(n) <=> clock[n] = Base(timeContext[n]) + TPropose + 1)
           /\ step[n] = "vote" =>
                 (VoteTimesOut(n) <=> clock[n] = Base(timeContext[n]) + TVote + 1)
           /\ CommitTimesOut(n) => clock[n] >= Base(timeContext[n]) + BlockTime
<1> DEFINE c == timeContext[n]
           t == clock[n]
           d == TimeContext(n)
<1>1. c \in Nat /\ t \in Nat
  BY DEF TypeOK
<1>2. /\ d \in Nat /\ Base(d) <= t /\ t < Base(d) + BlockTime
      /\ TimeLine(n) = t - Base(d)
  BY <1>1, ContextOf DEF TimeContext, TimeLine
<1>3. Base(c) \in Nat /\ Base(d) \in Nat
  BY <1>1, <1>2, BaseType
<1>4. OnTime(t, c, step[n])
  BY DEF ClockInv
<1>5. Base(c) <= t
  BY <1>4 DEF OnTime
<1> HIDE DEF c, t, d
<1>6. d < c => FALSE
  BY <1>1, <1>2, <1>3, <1>5, ContextOrder, TimeAssumption
<1>7. t < Base(c) + BlockTime => d = c
  BY <1>1, <1>2, <1>3, <1>6, ContextOrder, TimeAssumption
<1>8. ASSUME NEW r, RoundStarts(n, r)
      PROVE  t < Base(c) + TPop /\ d = c
  <2>1. d <= c /\ TimeLine(n) < TPop
    BY <1>8 DEF RoundStarts, c, d
  <2> QED
    BY <2>1, <1>1, <1>2, <1>3, <1>6, TimeAssumption
<1>9. step[n] = "pop" => (ProposeStarts(n) <=> t = Base(c) + TPop + 1)
  <2> SUFFICES ASSUME step[n] = "pop"
               PROVE  TimeLine(n) > TPop <=> t = Base(c) + TPop + 1
    BY DEF ProposeStarts
  <2>1. t <= Base(c) + TPop + 1
    BY <1>4 DEF OnTime
  <2> QED
    BY <2>1, <1>1, <1>2, <1>3, <1>5, <1>7, TimeAssumption
<1>10. step[n] = "propose" => (VoteStarts(n) <=> t = Base(c) + TPropose + 1)
  <2> SUFFICES ASSUME step[n] = "propose"
               PROVE  TimeLine(n) > TPropose <=> t = Base(c) + TPropose + 1
    BY DEF VoteStarts
  <2>1. t <= Base(c) + TPropose + 1
    BY <1>4 DEF OnTime
  <2> QED
    BY <2>1, <1>1, <1>2, <1>3, <1>5, <1>7, TimeAssumption
<1>11. step[n] = "vote" => (VoteTimesOut(n) <=> t = Base(c) + TVote + 1)
  <2> SUFFICES ASSUME step[n] = "vote"
               PROVE  TimeLine(n) > TVote <=> t = Base(c) + TVote + 1
    BY DEF VoteTimesOut
  <2>1. t <= Base(c) + TVote + 1
    BY <1>4 DEF OnTime
  <2> QED
    BY <2>1, <1>1, <1>2, <1>3, <1>5, <1>7, TimeAssumption, SkewAssumption
<1>12. CommitTimesOut(n) => t >= Base(c) + BlockTime
  <2> SUFFICES ASSUME CommitTimesOut(n), t < Base(c) + BlockTime PROVE FALSE
    BY <1>1, <1>3, TimeAssumption
  <2>1. step[n] = "commit" /\ TimeLine(n) < TPop
    BY DEF CommitTimesOut
  <2>2. t > Base(c) + TPropose
    BY <1>4, <2>1 DEF OnTime
  <2> QED
    BY <2>1, <2>2, <1>1, <1>2, <1>3, <1>7, TimeAssumption
<1> QED
  BY <1>1, <1>3, <1>8, <1>9, <1>10, <1>11, <1>12 DEF c, t, d

(* A poll of k moves nobody's clock, and of the other nodes it changes only  *)
(* what they are sent.                                                      *)
LEMMA PollFrame ==
    ASSUME TypeOK, NEW k \in Nodes, Process(k)
    PROVE  /\ clock' = clock
           /\ \A n \in Nodes : n # k =>
                 /\ step'[n] = step[n] /\ timeContext'[n] = timeContext[n]
                 /\ candidate'[n] = candidate[n] /\ userHeader'[n] = userHeader[n]
                 /\ myVote'[n] = myVote[n] /\ chain'[n] = chain[n]
                 /\ Height(n)' = Height(n)
<1>1. /\ clock' = clock
      /\ \A n \in Nodes : n # k =>
            /\ step'[n] = step[n] /\ timeContext'[n] = timeContext[n]
            /\ candidate'[n] = candidate[n] /\ userHeader'[n] = userHeader[n]
            /\ myVote'[n] = myVote[n] /\ chain'[n] = chain[n]
  <2> USE DEF Polled, TypeOK, roundVars, blockVars, voteVars
  <2>1. CASE NewRoundReady(k)
    BY <2>1 DEF NewRoundReady
  <2>2. CASE NewRoundStart(k)
    BY <2>2 DEF NewRoundStart
  <2>3. CASE ProposeStart(k)
    BY <2>3 DEF ProposeStart
  <2>4. CASE VoteStart(k)
    BY <2>4 DEF VoteStart
  <2>5. CASE ConsensusFail(k)
    BY <2>5 DEF ConsensusFail, ClearIntermediateData
  <2>6. CASE CommitStart(k)
    BY <2>6 DEF CommitStart
  <2>7. CASE NewBlockCommit(k)
    BY <2>7 DEF NewBlockCommit, ClearIntermediateData
  <2>8. CASE Idle(k)
    BY <2>8 DEF Idle
  <2> QED
    BY <2>1, <2>2, <2>3, <2>4, <2>5, <2>6, <2>7, <2>8 DEF Process
<1> QED
  BY <1>1 DEF Height

LEMMA ClockStep == IndInv /\ ClockInv /\ [TimelyNext]_vars => ClockInv'
<1> SUFFICES ASSUME IndInv, ClockInv, [TimelyNext]_vars PROVE ClockInv'
  OBVIOUS
<1>1. TypeOK
  BY DEF IndInv
<1>2. CASE Poll
  <2>1. PICK k \in Nodes : Process(k)
    BY <1>2 DEF Poll
  <2>2. /\ clock' = clock
        /\ \A n \in Nodes : n # k => /\ step'[n] = step[n]
                                     /\ timeContext'[n] = timeContext[n]
    BY <1>1, <2>1, PollFrame
  <2>3. clock[k] \in Nat /\ Base(timeContext[k]) \in Nat
    BY <1>1, GuardTimes
  <2>4. OnTime(clock[k], timeContext[k], step[k])
    BY DEF ClockInv
  <2>5. ASSUME timeContext'[k] = timeContext[k], step'[k] \in {"null", "waiting"}
        PROVE  OnTime(clock[k], timeContext'[k], step'[k])
    BY <2>4, <2>5 DEF OnTime
  <2>6. OnTime(clock[k], timeContext'[k], step'[k])
    <3>1. CASE NewRoundReady(k)
      <4>1. timeContext'[k] = TimeContext(k) /\ step'[k] = "waiting"
        BY <1>1, <3>1 DEF NewRoundReady, RoundReady, TypeOK
      <4>2. Base(TimeContext(k)) <= clock[k]
        BY <2>3, ContextOf DEF TimeContext
      <4> QED
        BY <4>1, <4>2 DEF OnTime
    <3>2. CASE NewRoundStart(k)
      <4>1. timeContext'[k] = timeContext[k] /\ step'[k] = "pop"
        BY <1>1, <3>2 DEF NewRoundStart, TypeOK
      <4>2. clock[k] < Base(timeContext[k]) + TPop
        BY <1>1, <3>2, GuardTimes DEF NewRoundStart
      <4> QED
        BY <2>3, <2>4, <4>1, <4>2, TimeAssumption DEF OnTime
    <3>3. CASE ProposeStart(k)
      <4>1. timeContext'[k] = timeContext[k] /\ step'[k] = "propose"
        BY <1>1, <3>3 DEF ProposeStart, TypeOK
      <4>2. clock[k] = Base(timeContext[k]) + TPop + 1
        BY <1>1, <3>3, GuardTimes DEF ProposeStart, ProposeStarts
      <4> QED
        BY <2>3, <2>4, <4>1, <4>2, TimeAssumption DEF OnTime
    <3>4. CASE VoteStart(k)
      <4>1. timeContext'[k] = timeContext[k] /\ step'[k] = "vote"
        BY <1>1, <3>4 DEF VoteStart, TypeOK
      <4>2. clock[k] = Base(timeContext[k]) + TPropose + 1
        BY <1>1, <3>4, GuardTimes DEF VoteStart, VoteStarts
      <4> QED
        BY <2>3, <2>4, <4>1, <4>2, TimeAssumption DEF OnTime
    <3>5. CASE CommitStart(k)
      <4>1. /\ timeContext'[k] = timeContext[k] /\ step'[k] = "commit"
            /\ step[k] = "vote"
        BY <1>1, <3>5 DEF CommitStart, CommitStarts, TypeOK
      <4> QED
        BY <2>3, <2>4, <4>1 DEF OnTime
    <3>6. CASE ConsensusFail(k) \/ NewBlockCommit(k)
      <4>1. timeContext'[k] = timeContext[k] /\ step'[k] = "waiting"
        BY <1>1, <3>6 DEF ConsensusFail, NewBlockCommit, TypeOK
      <4> QED
        BY <2>5, <4>1
    <3>7. CASE Idle(k)
      BY <2>4, <3>7 DEF Idle
    <3> QED
      BY <2>1, <3>1, <3>2, <3>3, <3>4, <3>5, <3>6, <3>7 DEF Process
  <2>7. \A n \in Nodes : OnTime(clock[n], timeContext'[n], step'[n])
    BY <2>2, <2>6 DEF ClockInv
  <2> QED
    BY <2>2, <2>7 DEF ClockInv
<1>3. CASE TimelyTick
  <2>1. /\ \A m, n \in Nodes : clock'[m] - clock'[n] <= MaxSkew
        /\ step' = step /\ timeContext' = timeContext
    BY <1>3 DEF TimelyTick, Tick
  <2>2. ASSUME NEW n \in Nodes
        PROVE  OnTime(clock'[n], timeContext[n], step[n])
    <3>1. clock'[n] = clock[n] \/ clock'[n] = clock[n] + 1
      BY <1>3 DEF TimelyTick, Tick
    <3>2. ~ProposeStarts(n) /\ ~VoteStarts(n) /\ ~VoteTimesOut(n)
      BY <1>3 DEF TimelyTick, Busy
    <3>3. /\ step[n] = "pop" => clock[n] # Base(timeContext[n]) + TPop + 1
          /\ step[n] = "propose" => clock[n] # Base(timeContext[n]) + TPropose + 1
          /\ step[n] = "vote" => clock[n] # Base(timeContext[n]) + TVote + 1
          /\ clock[n] \in Nat /\ Base(timeContext[n]) \in Nat
      BY <1>1, <3>2, GuardTimes
    <3>4. OnTime(clock[n], timeContext[n], step[n])
      BY DEF ClockInv
    <3> QED
      BY <3>1, <3>3, <3>4, TimeAssumption DEF OnTime
  <2> QED
    BY <2>1, <2>2 DEF ClockInv
<1>4. CASE UNCHANGED <<clock, step, timeContext>>
  BY <1>4 DEF ClockInv
<1> QED
  BY <1>2, <1>3, <1>4 DEF TimelyNext, Stop, Exited, vars

-----------------------------------------------------------------------------
(* The rounds a node takes part in, and the headers that are under way.     *)

Idling == {"null", "waiting"}

(* A node in a round has built the block that follows its chain, for the     *)
(* context it is in; a node in none has no user block.                      *)
OwnBlock(n) ==
    /\ step[n] \notin Idling => /\ candidate[n] \in Header
                                /\ candidate[n].owner = n
                                /\ candidate[n].ctx = timeContext[n]
                                /\ candidate[n].idx = Height(n) + 1
    /\ step[n] = "pop" => userHeader[n] = candidate[n]
    /\ step[n] \in Idling => userHeader[n] = None

(* Headers whose owner is past the time in which it builds one for their     *)
(* context.                                                                 *)
PastHeaders == {h \in Header : Base(h.ctx) + TPop < clock[h.owner]}

(* Every header that was proposed, voted for or committed is in S.          *)
Circulating(S) ==
    \A n \in Nodes :
       /\ \A p \in Nodes : /\ proposed[n][p] \in S \cup {None}
                           /\ voteBox[n][p] \in S \cup {None}
       /\ \A i \in DOMAIN chain[n] : chain[n][i] \in S

RoundInv == (\A n \in Nodes : OwnBlock(n)) /\ Circulating(PastHeaders)

(* The invariants of Bcp that hold for any delays.                          *)
DelayInv == IndInv /\ HeightInv /\ GapInv

(* A round starts only for the block that follows the node's own chain.     *)
LEMMA RoundIsNext ==
    ASSUME DelayInv, NEW n \in Nodes, NEW r \in DOMAIN newRoundVotes[n],
           RoundStarts(n, r)
    PROVE  /\ r = Height(n) + 1 /\ r \notin DOMAIN chain[n]
           /\ \A p \in Nodes : newRound[n][p] = r
<1>1. \A p \in Nodes : newRound[n][p] = r
  BY RoundUnanimous DEF DelayInv
<1>2. r \in Nat /\ r # None
  BY NoneAssumption DEF DelayInv, IndInv, TypeOK, IsTally
<1>3. r = Height(n) + 1
  BY <1>1, <1>2 DEF DelayInv, HeightInv, OwnRoundCurrent
<1>4. DOMAIN chain[n] = 1 .. Height(n) /\ Height(n) \in Nat
  BY HeightType DEF DelayInv, GapInv, NoGaps, IndInv
<1> QED
  BY <1>1, <1>3, <1>4

(* The block built for a round is a block.                                  *)
LEMMA NewBlockType ==
    ASSUME TypeOK, NEW n \in Nodes, NEW r \in DOMAIN newRoundVotes[n]
    PROVE  NewBlock(n, r) \in Header /\ NewBlock(n, r) # None
<1>1. r \in Nat /\ TimeContext(n) \in Nat
  BY TimeContextType DEF TypeOK, IsTally, TimeContext
<1>2. BlockHash(n, r - 1) \in Hash \cup {None}
  BY DEF BlockHash, HashOf, TypeOK, Header, Hash
<1> QED
  BY <1>1, <1>2, NoneAssumption DEF NewBlock, Header

LEMMA OwnInit == Init => RoundInv
<1> SUFFICES ASSUME Init PROVE RoundInv
  OBVIOUS
<1>1. \A n \in Nodes : step[n] \in Idling /\ userHeader[n] = None
  BY StartAssumption DEF Init, Idling
<1>2. Circulating(PastHeaders)
  BY DEF Init, Circulating, NoEntries, EmptyMap
<1> QED
  BY <1>1, <1>2 DEF RoundInv, OwnBlock, Idling

LEMMA OwnStep ==
    ASSUME DelayInv, ClockInv, RoundInv, NEW k \in Nodes, Process(k)
    PROVE  \A n \in Nodes : OwnBlock(n)'
<1>1. TypeOK
  BY DEF DelayInv, IndInv
<1>2. ASSUME NEW n \in Nodes, n # k PROVE OwnBlock(n)'
  <2>1. /\ step'[n] = step[n] /\ timeContext'[n] = timeContext[n]
        /\ candidate'[n] = candidate[n] /\ userHeader'[n] = userHeader[n]
        /\ Height(n)' = Height(n)
    BY <1>1, <1>2, PollFrame
  <2>2. OwnBlock(n)
    BY DEF RoundInv
  <2> QED
    BY <2>1, <2>2 DEF OwnBlock
<1>3. OwnBlock(k)
  BY DEF RoundInv
<1>4. ASSUME chain' = chain PROVE Height(k)' = Height(k)
  BY <1>4 DEF Height
<1>5. OwnBlock(k)'
  <2>1. CASE NewRoundReady(k)
    <3>1. step[k] \in Idling /\ step' = step /\ userHeader' = userHeader
      BY <2>1 DEF NewRoundReady, RoundReady, Idling, blockVars
    <3> QED
      BY <1>3, <3>1 DEF OwnBlock, Idling
  <2>2. CASE NewRoundStart(k)
    <3>1. PICK r \in DOMAIN newRoundVotes[k] :
              /\ RoundStarts(k, r)
              /\ IF r \in DOMAIN chain[k]
                 THEN UNCHANGED <<candidate, userHeader>>
                 ELSE /\ candidate' = [candidate EXCEPT ![k] = NewBlock(k, r)]
                      /\ userHeader' = [userHeader EXCEPT ![k] =
                                           IF @ = None THEN NewBlock(k, r) ELSE @]
      BY <2>2 DEF NewRoundStart
    <3>2. r = Height(k) + 1 /\ r \notin DOMAIN chain[k]
      BY <3>1, RoundIsNext
    <3>3. TimeContext(k) = timeContext[k]
      BY <1>1, <3>1, GuardTimes
    <3>4. step[k] \in Idling /\ userHeader[k] = None
      BY <3>1, <1>3 DEF RoundStarts, Idling, OwnBlock
    <3> DEFINE b == NewBlock(k, r)
    <3>5. b.owner = k /\ b.ctx = timeContext[k] /\ b.idx = Height(k) + 1
      BY <3>2, <3>3 DEF NewBlock
    <3>6. b \in Header
      BY <1>1, NewBlockType
    <3> HIDE DEF b
    <3>7. candidate'[k] = b /\ userHeader'[k] = b
      BY <1>1, <3>1, <3>2, <3>4 DEF TypeOK, b
    <3>8. step'[k] = "pop" /\ timeContext' = timeContext /\ chain' = chain
      BY <1>1, <2>2 DEF NewRoundStart, TypeOK
    <3> QED
      BY <1>4, <3>5, <3>6, <3>7, <3>8 DEF OwnBlock, Idling
  <2>3. CASE ProposeStart(k)
    <3>1. /\ step'[k] = "propose" /\ step[k] = "pop"
          /\ timeContext' = timeContext /\ chain' = chain
      BY <1>1, <2>3 DEF ProposeStart, ProposeStarts, TypeOK
    <3>2. candidate'[k] = candidate[k]
      BY <1>1, <1>3, <2>3, <3>1 DEF ProposeStart, OwnBlock, TypeOK
    <3> QED
      BY <1>3, <1>4, <3>1, <3>2 DEF OwnBlock, Idling
  <2>4. CASE VoteStart(k) \/ CommitStart(k)
    <3>1. /\ step'[k] \in {"vote", "commit"} /\ step[k] \in {"propose", "vote"}
          /\ UNCHANGED <<timeContext, candidate, chain>>
      BY <1>1, <2>4 DEF VoteStart, VoteStarts, CommitStart, CommitStarts,
                        blockVars, TypeOK
    <3> QED
      BY <1>3, <1>4, <3>1 DEF OwnBlock, Idling
  <2>5. CASE ConsensusFail(k) \/ NewBlockCommit(k)
    <3>1. step'[k] = "waiting" /\ userHeader'[k] = None
      BY <1>1, <2>5 DEF ConsensusFail, NewBlockCommit, ClearIntermediateData,
                        TypeOK
    <3> QED
      BY <3>1 DEF OwnBlock, Idling
  <2>6. CASE Idle(k)
    BY <1>3, <1>4, <2>6 DEF Idle, OwnBlock, blockVars
  <2> QED
    BY <2>1, <2>2, <2>3, <2>4, <2>5, <2>6 DEF Process
<1> QED
  BY <1>2, <1>5

(* A failed and a committed round clear the node's own maps, nobody else's.  *)
LEMMA ClearFrame ==
    ASSUME TypeOK, NEW k \in Nodes, ConsensusFail(k) \/ NewBlockCommit(k)
    PROVE  /\ newRound'[k] = NoEntries /\ proposed'[k] = NoEntries
           /\ voteBox'[k] = NoEntries /\ verified'[k] = NoEntries
           /\ step'[k] = "waiting" /\ step[k] \in {"vote", "commit"}
           /\ UNCHANGED <<commitBlock, myVote, candidate, timeContext, clock>>
           /\ \A n \in Nodes : n # k =>
                 /\ newRound'[n] = newRound[n] /\ proposed'[n] = proposed[n]
                 /\ voteBox'[n] = voteBox[n] /\ voteCounts'[n] = voteCounts[n]
                 /\ verified'[n] = verified[n]
<1>1. /\ ClearIntermediateData(k) /\ step' = [step EXCEPT ![k] = "waiting"]
      /\ UNCHANGED <<commitBlock, myVote, candidate, timeContext, clock>>
  BY DEF ConsensusFail, NewBlockCommit, Polled
<1>2. step[k] \in {"vote", "commit"}
  BY DEF ConsensusFail, NewBlockCommit, VoteTimesOut, CommitTimesOut, Commits
<1> QED
  BY <1>1, <1>2 DEF ClearIntermediateData, TypeOK

(* Headers circulate along one way: from the user block its owner proposes,  *)
(* through the proposals and the votes into the chains.                     *)
LEMMA HeaderFlow ==
    ASSUME IndInv, [Next]_vars, NEW STATE S, Circulating(S),
           \A n \in Nodes : ProposeStarts(n) => userHeader[n] \in S \cup {None}
    PROVE  \A n \in Nodes :
              /\ \A p \in Nodes : /\ proposed'[n][p] \in S \cup {None}
                                  /\ voteBox'[n][p] \in S \cup {None}
              /\ \A i \in DOMAIN chain'[n] : chain'[n][i] \in S
<1>1. TypeOK
  BY DEF IndInv
<1>2. ASSUME NEW n \in Nodes, NEW p \in Nodes
      PROVE  proposed'[n][p] \in S \cup {None}
  <2>1. proposed[n] \in [Nodes -> MaybeHeader] /\ proposed[n][p] \in S \cup {None}
    BY <1>1 DEF TypeOK, Circulating
  <2>2. ASSUME NEW k \in Nodes, ProposeStart(k) PROVE proposed'[n][p] \in S \cup {None}
    <3>1. \/ proposed' = proposed
          \/ proposed'[n] = AddOnce(proposed[n], k, userHeader[k])
      BY <2>2 DEF ProposeStart
    <3>2. userHeader[k] \in S \cup {None}
      BY <2>2 DEF ProposeStart
    <3> QED
      BY <2>1, <3>1, <3>2, AddOnceValue
  <2>3. ASSUME NEW k \in Nodes, ConsensusFail(k) \/ NewBlockCommit(k)
        PROVE  proposed'[n][p] \in {proposed[n][p], None}
    <3>1. proposed'[n] = proposed[n] \/ proposed'[n] = NoEntries
      BY <1>1, <2>3, ClearFrame
    <3> QED
      BY <3>1 DEF NoEntries
  <2>4. ASSUME NEW k \in Nodes, Process(k)
        PROVE  \/ ProposeStart(k) \/ ConsensusFail(k) \/ NewBlockCommit(k)
               \/ proposed' = proposed
    BY <2>4 DEF Process, NewRoundReady, NewRoundStart, VoteStart, CommitStart,
                Idle, blockVars
  <2>5. CASE Poll
    BY <2>1, <2>2, <2>3, <2>4, <2>5 DEF Poll
  <2> QED
    BY <2>1, <2>5 DEF Next, Tick, Stop, Exited, vars, blockVars
<1>3. ASSUME NEW n \in Nodes, NEW p \in Nodes
      PROVE  voteBox'[n][p] \in S \cup {None}
  <2>1. voteBox[n] \in [Nodes -> MaybeHeader] /\ voteBox[n][p] \in S \cup {None}
    BY <1>1 DEF TypeOK, Circulating
  <2>2. ASSUME NEW k \in Nodes, VoteStart(k) PROVE voteBox'[n][p] \in S \cup {None}
    <3>1. \/ voteBox' = voteBox
          \/ \E h \in Proposals(k) : voteBox'[n] = AddOnce(voteBox[n], k, h)
      BY <2>2 DEF VoteStart, SendVote, voteVars
    <3>2. Proposals(k) \subseteq S \cup {None}
      BY DEF Proposals, Entries, Circulating
    <3> QED
      BY <2>1, <3>1, <3>2, AddOnceValue
  <2>3. ASSUME NEW k \in Nodes, ConsensusFail(k) \/ NewBlockCommit(k)
        PROVE  voteBox'[n][p] \in {voteBox[n][p], None}
    <3>1. voteBox'[n] = voteBox[n] \/ voteBox'[n] = NoEntries
      BY <1>1, <2>3, ClearFrame
    <3> QED
      BY <3>1 DEF NoEntries
  <2>4. ASSUME NEW k \in Nodes, Process(k)
        PROVE  \/ VoteStart(k) \/ ConsensusFail(k) \/ NewBlockCommit(k)
               \/ voteBox' = voteBox
    BY <2>4 DEF Process, NewRoundReady, NewRoundStart, ProposeStart, CommitStart,
                Idle, voteVars
  <2>5. CASE Poll
    BY <2>1, <2>2, <2>3, <2>4, <2>5 DEF Poll
  <2> QED
    BY <2>1, <2>5 DEF Next, Tick, Stop, Exited, vars, voteVars
<1>4. ASSUME NEW n \in Nodes, NEW i \in DOMAIN chain'[n]
      PROVE  chain'[n][i] \in S
  <2>1. \A j \in DOMAIN chain[n] : chain[n][j] \in S
    BY DEF Circulating
  <2>2. ASSUME NEW k \in Nodes, NewBlockCommit(k) PROVE chain'[n][i] \in S
    <3> DEFINE b == commitBlock[k]
    <3>1. b \in Elected(k)
      BY <2>2, CommitBlockElected DEF NewBlockCommit
    <3>2. \E p \in Nodes : voteBox[k][p] = b /\ b # None
      BY <3>1, ElectedVoted
    <3>3. b \in S
      BY <3>2 DEF Circulating
    <3>4. chain'[n] = chain[n] \/ chain'[n] = AppendBlock(chain[n], b)
      BY <1>1, <2>2 DEF NewBlockCommit, TypeOK
    <3> HIDE DEF b
    <3> QED
      BY <1>4, <2>1, <3>3, <3>4 DEF AppendBlock
  <2>3. ASSUME NEW k \in Nodes, Process(k)
        PROVE  NewBlockCommit(k) \/ chain' = chain
    BY <2>3 DEF Process, NewRoundReady, NewRoundStart, ProposeStart, VoteStart,
                ConsensusFail, CommitStart, Idle
  <2>4. CASE Poll
    BY <1>4, <2>1, <2>2, <2>3, <2>4 DEF Poll
  <2> QED
    BY <1>4, <2>1, <2>4 DEF Next, Tick, Stop, Exited, vars
<1> QED
  BY <1>2, <1>3, <1>4

(* A clock does not go back.                                                *)
LEMMA ClockMonotonic ==
    ASSUME TypeOK, [Next]_vars
    PROVE  \A n \in Nodes : clock'[n] \in Nat /\ clock'[n] >= clock[n]
<1>1. \A n \in Nodes : clock[n] \in Nat
  BY DEF TypeOK
<1>2. CASE Poll
  BY <1>1, <1>2, PollFrame DEF Poll
<1>3. CASE Tick
  BY <1>1, <1>3 DEF Tick
<1>4. CASE UNCHANGED clock
  BY <1>1, <1>4
<1> QED
  BY <1>2, <1>3, <1>4 DEF Next, Stop, Exited, vars

LEMMA PastStep ==
    ASSUME DelayInv, ClockInv, RoundInv, [Next]_vars
    PROVE  Circulating(PastHeaders)'
<1>1. TypeOK
  BY DEF DelayInv, IndInv
<1>2. PastHeaders \subseteq PastHeaders'
  <2> SUFFICES ASSUME NEW h \in PastHeaders PROVE h \in PastHeaders'
    OBVIOUS
  <2>1. h \in Header /\ h.owner \in Nodes /\ h.ctx \in Nat
    BY DEF Header, PastHeaders
  <2>2. Base(h.ctx) \in Nat /\ clock[h.owner] \in Nat
        /\ clock'[h.owner] \in Nat /\ clock'[h.owner] >= clock[h.owner]
    BY <1>1, <2>1, BaseType, ClockMonotonic DEF TypeOK
  <2>3. Base(h.ctx) + TPop < clock[h.owner]
    BY DEF PastHeaders
  <2>4. Base(h.ctx) + TPop < clock'[h.owner]
    BY <2>2, <2>3, TimeAssumption
  <2> QED
    BY <2>1, <2>4 DEF PastHeaders, Base
<1>3. ASSUME NEW n \in Nodes, ProposeStarts(n)
      PROVE  userHeader[n] \in PastHeaders
  <2>1. step[n] = "pop"
    BY <1>3 DEF ProposeStarts
  <2>2. /\ userHeader[n] \in Header /\ userHeader[n].owner = n
        /\ userHeader[n].ctx = timeContext[n]
    BY <2>1 DEF RoundInv, OwnBlock, Idling
  <2>3. /\ clock[n] = Base(timeContext[n]) + TPop + 1
        /\ clock[n] \in Nat /\ Base(timeContext[n]) \in Nat
    BY <1>1, <1>3, <2>1, GuardTimes
  <2> QED
    BY <2>2, <2>3, TimeAssumption DEF PastHeaders
<1>4. \A n \in Nodes :
         /\ \A p \in Nodes : /\ proposed'[n][p] \in PastHeaders \cup {None}
                             /\ voteBox'[n][p] \in PastHeaders \cup {None}
         /\ \A i \in DOMAIN chain'[n] : chain'[n][i] \in PastHeaders
  BY <1>3, HeaderFlow DEF DelayInv, RoundInv
<1> QED
  BY <1>2, <1>4 DEF Circulating

LEMMA RoundStepInv == DelayInv /\ ClockInv /\ RoundInv /\ [TimelyNext]_vars => RoundInv'
<1> SUFFICES ASSUME DelayInv, ClockInv, RoundInv, [TimelyNext]_vars PROVE RoundInv'
  OBVIOUS
<1>1. [Next]_vars
  BY TimelyIsNext
<1>2. Circulating(PastHeaders)'
  BY <1>1, PastStep
<1>3. CASE Poll
  BY <1>2, <1>3, OwnStep DEF Poll, RoundInv
<1>4. CASE UNCHANGED <<step, candidate, timeContext, chain, userHeader>>
  BY <1>2, <1>4 DEF RoundInv, OwnBlock, Height
<1> QED
  BY <1>3, <1>4 DEF TimelyNext, TimelyTick, Tick, Stop, Exited, vars, blockVars

(* A header that a node builds now is nowhere yet.                          *)
LEMMA NewHeaderFresh ==
    ASSUME DelayInv, ClockInv, RoundInv, NEW n \in Nodes,
           NEW r \in DOMAIN newRoundVotes[n], RoundStarts(n, r)
    PROVE  /\ \A k, p \in Nodes : voteBox[k][p] # NewBlock(n, r)
           /\ \A k, p \in Nodes : verified[k][p] # NewBlock(n, r)
           /\ \A k \in Nodes : \A i \in DOMAIN chain[k] : chain[k][i] # NewBlock(n, r)
<1> DEFINE b == NewBlock(n, r)
<1>1. TypeOK
  BY DEF DelayInv, IndInv
<1>2. /\ b.owner = n /\ b.ctx = TimeContext(n)
      /\ TimeContext(n) = timeContext[n] /\ clock[n] < Base(timeContext[n]) + TPop
      /\ clock[n] \in Nat /\ Base(timeContext[n]) \in Nat
  BY <1>1, GuardTimes DEF NewBlock
<1>3. b # None
  BY <1>1, NewBlockType DEF DelayInv
<1> HIDE DEF b
<1>4. b \notin PastHeaders \cup {None}
  BY <1>2, <1>3, TimeAssumption DEF PastHeaders
<1>5. \A k, p \in Nodes : voteBox[k][p] # b
  BY <1>4 DEF RoundInv, Circulating
<1>6. \A k \in Nodes : \A i \in DOMAIN chain[k] : chain[k][i] # b
  BY <1>4 DEF RoundInv, Circulating
<1>7. ASSUME NEW k \in Nodes, NEW p \in Nodes, verified[k][p] = b PROVE FALSE
  <2>1. b \in Elected(k)
    BY <1>3, <1>7 DEF DelayInv, IndInv, VerifiedIsElected, Entries
  <2> QED
    BY <2>1, <1>5, ElectedVoted DEF DelayInv
<1> QED
  BY <1>5, <1>6, <1>7 DEF b
-----------------------------------------------------------------------------
(* The inductive invariant of the timely consensus.                         *)

(* Node o may still ask for its own block's verification.                   *)
Voting(o) == step[o] \in {"pop", "propose", "vote"}

(* Peer p voted for o's block and has not voted since: it is still in the    *)
(* round, or has left it because the voting time was over or because it has  *)
(* a block at that height, and cannot enter another before o sends new_round. *)
StandsBy(p, o) ==
    /\ myVote[p] = candidate[o]
    /\ \/ step[p] \in {"vote", "commit"} /\ timeContext[p] >= candidate[o].ctx
       \/ /\ step[p] = "waiting" /\ newRound[p][o] = None
          /\ \/ clock[p] > Base(candidate[o].ctx) + TVote
             \/ Height(p) >= candidate[o].idx

VotesStand ==
    \A o, k, p \in Nodes :
       Voting(o) /\ voteBox[k][p] = candidate[o] => StandsBy(p, o)

(* A block is neither verified nor committed before its owner asks for it.  *)
UnaskedIsFresh ==
    \A o, k \in Nodes : Voting(o) =>
       /\ \A p \in Nodes : verified[k][p] # candidate[o]
       /\ \A i \in DOMAIN chain[k] : chain[k][i] # candidate[o]

(* Some clock shows the second in which the votes of context c are cast.    *)
VoteSecond(c) == \E p \in Nodes : clock[p] = Base(c) + TPropose + 1

(* An election is seen in the second that brought it about: a node whose     *)
(* votes elect a block has work to do, so no second begins.                 *)
ElectedInTime ==
    \A o \in Nodes : step[o] = "vote" /\ Elected(o) # {} => VoteSecond(timeContext[o])

(* Node k has a majority of commits for block b.                            *)
Confirmed(k, b) ==
    commitBlock[k] = b /\ Cardinality(Entries(verified[k])) >= Majority

(* As long as nobody has committed a confirmed block, it is still the second *)
(* of its vote and some node is about to commit it.                         *)
ConfirmedInTime ==
    \A k \in Nodes : \A b \in Header : Confirmed(k, b) =>
       \/ \E j \in Nodes : Height(j) >= b.idx
       \/ /\ VoteSecond(b.ctx)
          /\ \E o \in Nodes : step[o] = "commit" /\ Confirmed(o, b)

(* The block a node is about to commit is the one its chain lacks.          *)
ConfirmedExtends ==
    \A k \in Nodes : \A b \in Header : Confirmed(k, b) => b.idx = Height(k) + 1

(* A node that waits for a new_round message its sender will never send.    *)
Stranded(p) ==
    /\ step[p] = "waiting"
    /\ \E j \in Nodes : Height(j) > Height(p) /\ newRound[p][j] # Height(p) + 1

(* Peer p voted for b and cannot vote for another block at b's height.      *)
Committed(p, b) ==
    /\ myVote[p] = b
    /\ \/ Height(p) >= b.idx
       \/ step[p] \in {"vote", "commit"} /\ timeContext[p] >= b.ctx
       \/ Stranded(p)

(* Block b is confirmed or committed somewhere, and somebody lacks it.      *)
Decided(b) ==
    \/ \E k \in Nodes : Confirmed(k, b) /\ Height(k) + 1 = b.idx
    \/ \E m, n \in Nodes : /\ Height(m) = b.idx /\ chain[m][b.idx] = b
                           /\ Height(n) + 1 = b.idx

(* A decided block has a majority of the nodes' last votes.                 *)
DecidedHeld ==
    \A b \in Header : Decided(b) =>
       Cardinality({p \in Nodes : Committed(p, b)}) >= Majority

(* A block is filed under its own index.                                    *)
Indexed == \A n \in Nodes : \A i \in DOMAIN chain[n] : chain[n][i].idx = i

(* Headers whose predecessor every node has, and whose prev is its hash.    *)
LinkedHeaders ==
    {h \in Header : /\ h.idx > 0
                    /\ \A m \in Nodes : /\ h.idx <= Height(m) + 1
                                        /\ h.prev = BlockHash(m, h.idx - 1)}

Linked ==
    /\ Circulating(LinkedHeaders)
    /\ \A n \in Nodes : step[n] = "pop" => candidate[n] \in LinkedHeaders

TimelyInv ==
    /\ DelayInv /\ ClockInv /\ RoundInv
    /\ VotesStand /\ UnaskedIsFresh /\ ElectedInTime
    /\ ConfirmedInTime /\ ConfirmedExtends /\ DecidedHeld
    /\ Agreement /\ Indexed /\ Linked

(* A set of nodes is finite, and a majority of them is not empty.           *)
LEMMA NodeSetFinite ==
    ASSUME NEW S, S \subseteq Nodes
    PROVE  IsFiniteSet(S) /\ Cardinality(S) \in Nat /\ Cardinality(S) <= N
<1>1. IsFiniteSet(S) /\ Cardinality(S) <= Cardinality(Nodes)
  BY NodesFinite, FS_Subset
<1> QED
  BY <1>1, NodesFinite, FS_CardinalityType

LEMMA MajorityNonempty ==
    ASSUME NEW S, S \subseteq Nodes, Cardinality(S) >= Majority
    PROVE  S # {}
<1>1. Cardinality(S) > 0
  BY NodeSetFinite, MajorityFacts
<1> QED
  BY <1>1, FS_EmptySet

(* Two majorities of the nodes have a node in common.                       *)
LEMMA MajoritiesMeet ==
    ASSUME NEW S, S \subseteq Nodes, Cardinality(S) >= Majority,
           NEW T, T \subseteq Nodes, Cardinality(T) >= Majority
    PROVE  S \cap T # {}
<1> SUFFICES ASSUME S \cap T = {} PROVE FALSE
  OBVIOUS
<1>1. IsFiniteSet(S) /\ IsFiniteSet(T)
      /\ Cardinality(S) \in Nat /\ Cardinality(T) \in Nat
  BY NodeSetFinite
<1>2. Cardinality(S \cup T) = Cardinality(S) + Cardinality(T) - Cardinality(S \cap T)
  BY <1>1, FS_Union
<1>3. Cardinality(S \cap T) = 0
  BY FS_EmptySet
<1>4. S \cup T \subseteq Nodes
  OBVIOUS
<1>5. Cardinality(S \cup T) <= N
  BY <1>4, NodeSetFinite
<1> QED
  BY <1>1, <1>2, <1>3, <1>5, MajorityFacts

LEMMA TimelyTypes ==
    ASSUME TimelyInv
    PROVE  /\ TypeOK /\ IndInv
           /\ \A n \in Nodes : /\ clock[n] \in Nat /\ timeContext[n] \in Nat
                               /\ Base(timeContext[n]) \in Nat
                               /\ Height(n) \in Nat
BY BaseType, HeightType DEF TimelyInv, DelayInv, IndInv, TypeOK

(* What a node in a round has built.                                        *)
LEMMA InRoundBlock ==
    ASSUME TimelyInv, NEW o \in Nodes, step[o] \notin Idling
    PROVE  /\ candidate[o] \in Header /\ candidate[o] # None
           /\ candidate[o].owner = o /\ candidate[o].ctx = timeContext[o]
           /\ candidate[o].idx = Height(o) + 1
           /\ \A m \in Nodes : Height(o) <= Height(m)
<1>1. /\ candidate[o] \in Header /\ candidate[o].owner = o
      /\ candidate[o].ctx = timeContext[o] /\ candidate[o].idx = Height(o) + 1
  BY DEF TimelyInv, RoundInv, OwnBlock
<1>2. ASSUME NEW m \in Nodes PROVE Height(o) <= Height(m)
  <2>1. newRound[o][m] = Height(o) + 1
    BY DEF TimelyInv, DelayInv, HeightInv, InRound, Idling
  <2>2. Height(o) + 1 \in Nat /\ Height(m) \in Nat /\ Height(o) \in Nat
    BY TimelyTypes
  <2>3. newRound[o][m] <= Height(m) + 1
    BY <2>1, <2>2, NoneAssumption DEF TimelyInv, DelayInv, HeightInv, RoundsNotAhead
  <2> QED
    BY <2>1, <2>2, <2>3
<1> QED
  BY <1>1, <1>2, NoneAssumption

(* The clock of a node that casts its vote, against a node in a round.      *)
LEMMA VoteClock ==
    ASSUME TimelyInv, NEW a \in Nodes, VoteStarts(a), NEW o \in Nodes
    PROVE  /\ clock[a] = Base(timeContext[a]) + TPropose + 1
           /\ Voting(o) => timeContext[a] >= timeContext[o]
           /\ step[o] = "vote" => timeContext[a] = timeContext[o]
<1> DEFINE c == timeContext[a]
           d == timeContext[o]
           s == clock[a]
           t == clock[o]
<1>1. c \in Nat /\ d \in Nat /\ s \in Nat /\ t \in Nat /\ Base(c) \in Nat /\ Base(d) \in Nat
  BY TimelyTypes
<1>2. s = Base(c) + TPropose + 1
  BY TimelyTypes, GuardTimes DEF TimelyInv, VoteStarts
<1>3. s - t <= MaxSkew /\ t - s <= MaxSkew
  BY DEF TimelyInv, ClockInv
<1>4. /\ Base(d) <= t
      /\ step[o] = "vote" => t <= Base(d) + TVote + 1
  BY DEF TimelyInv, ClockInv, OnTime
<1> HIDE DEF c, d, s, t
<1>5. c < d => FALSE
  BY <1>1, <1>2, <1>3, <1>4, ContextOrder, TimeAssumption, SkewAssumption
<1>6. step[o] = "vote" /\ d < c => FALSE
  BY <1>1, <1>2, <1>3, <1>4, ContextOrder, TimeAssumption, SkewAssumption
<1> QED
  BY <1>1, <1>2, <1>5, <1>6 DEF c, d, s

(* The block a node commits is the next of its chain.                       *)
LEMMA CommitAppends ==
    ASSUME TimelyInv, NEW a \in Nodes, NewBlockCommit(a)
    PROVE  /\ commitBlock[a] \in Header /\ commitBlock[a] # None
           /\ Confirmed(a, commitBlock[a])
           /\ commitBlock[a].idx = Height(a) + 1
           /\ commitBlock[a].idx \notin DOMAIN chain[a]
           /\ chain'[a] = AppendBlock(chain[a], commitBlock[a])
           /\ Height(a)' = Height(a) + 1
           /\ \E p \in Nodes : verified[a][p] = commitBlock[a]
           /\ \E p \in Nodes : voteBox[a][p] = commitBlock[a]
<1> DEFINE b == commitBlock[a]
<1>1. TypeOK /\ IndInv /\ Commits(a)
  BY TimelyTypes DEF NewBlockCommit
<1>2. b \in Header /\ b # None /\ b \in Elected(a)
  BY <1>1, CommitBlockElected, NoneAssumption
<1>3. Confirmed(a, b)
  BY <1>1 DEF Confirmed, Commits
<1>4. b.idx = Height(a) + 1
  BY <1>2, <1>3 DEF TimelyInv, ConfirmedExtends
<1>5. DOMAIN chain[a] = 1 .. Height(a) /\ Height(a) \in Nat
  BY TimelyTypes DEF TimelyInv, DelayInv, GapInv, NoGaps
<1>6. b.idx \notin DOMAIN chain[a]
  BY <1>4, <1>5
<1>7. chain'[a] = AppendBlock(chain[a], b)
  BY <1>1 DEF NewBlockCommit, TypeOK
<1>8. Height(a)' = Height(a) + 1
  <2>1. DOMAIN chain'[a] = DOMAIN chain[a] \cup {b.idx}
    BY <1>6, <1>7 DEF AppendBlock
  <2>2. IsFiniteSet(DOMAIN chain[a])
    BY <1>1 DEF TypeOK
  <2> HIDE DEF b
  <2> QED
    BY <1>6, <2>1, <2>2, FS_AddElement DEF Height
<1>9. \E p \in Nodes : verified[a][p] = b
  <2>1. Entries(verified[a]) # {}
    <3>1. Entries(verified[a]) \subseteq Nodes
      BY DEF Entries
    <3> QED
      BY <1>1, <3>1, MajorityNonempty DEF Commits
  <2> QED
    BY <1>1, <2>1 DEF IndInv, VerifiedIsElected, Entries
<1>10. \E p \in Nodes : voteBox[a][p] = b
  BY <1>1, <1>2, ElectedVoted
<1> QED
  BY <1>2, <1>3, <1>4, <1>6, <1>7, <1>8, <1>9, <1>10

-----------------------------------------------------------------------------
(* Votes stand.                                                             *)

(* Standing by is kept by a step that moves neither the voter nor the owner. *)
LEMMA StandsBySame ==
    ASSUME TimelyInv, NEW o \in Nodes, NEW p \in Nodes, StandsBy(p, o), Voting(o),
           myVote'[p] = myVote[p], candidate'[o] = candidate[o], step'[p] = step[p],
           timeContext'[p] = timeContext[p] \/ step[p] = "waiting",
           newRound'[p][o] = newRound[p][o] \/ step[p] # "waiting",
           clock'[p] \in Nat, clock'[p] >= clock[p], Height(p)' = Height(p)
    PROVE  StandsBy(p, o)'
<1>1. /\ candidate[o].ctx \in Nat /\ Base(candidate[o].ctx) \in Nat
      /\ clock[p] \in Nat
  BY InRoundBlock, TimelyTypes DEF Voting, Idling
<1> DEFINE b == Base(candidate[o].ctx)
<1>2. b' = b
  BY DEF Base
<1>3. clock[p] > b + TVote => clock'[p] > b + TVote
  BY <1>1, TimeAssumption
<1> HIDE DEF b
<1> QED
  BY <1>2, <1>3 DEF StandsBy, b

LEMMA VotesStandStep ==
    ASSUME TimelyInv, NEW a \in Nodes, Process(a)
    PROVE  VotesStand'
<1> SUFFICES ASSUME NEW o \in Nodes, NEW k \in Nodes, NEW p \in Nodes,
                    Voting(o)', voteBox'[k][p] = candidate'[o]
             PROVE  StandsBy(p, o)'
  BY DEF VotesStand
<1>1. /\ TypeOK /\ DelayInv /\ ClockInv /\ RoundInv
      /\ \A q \in Nodes : clock[q] \in Nat
  BY TimelyTypes DEF TimelyInv
<1>2. /\ clock' = clock
      /\ \A n \in Nodes : n # a =>
            /\ step'[n] = step[n] /\ timeContext'[n] = timeContext[n]
            /\ candidate'[n] = candidate[n] /\ myVote'[n] = myVote[n]
            /\ Height(n)' = Height(n)
  BY <1>1, PollFrame
<1>3. Voting(o) /\ voteBox[k][p] = candidate[o] => StandsBy(p, o)
  BY DEF TimelyInv, VotesStand
<1>4. Voting(o) => /\ candidate[o] # None /\ candidate[o].idx = Height(o) + 1
                   /\ candidate[o].ctx = timeContext[o] /\ candidate[o] \in Header
                   /\ candidate[o].owner = o
  BY InRoundBlock DEF Voting, Idling
<1>5. CASE NewRoundReady(a)
  <2>1. /\ UNCHANGED <<step, voteBox, candidate, myVote, chain>>
        /\ step[a] = "waiting"
        /\ timeContext' = [timeContext EXCEPT ![a] = TimeContext(a)]
        /\ newRound' = [n \in Nodes |-> AddOnce(newRound[n], a, Height(a) + 1)]
    BY <1>5 DEF NewRoundReady, RoundReady, SendNewRound, blockVars, voteVars
  <2>2. Voting(o) /\ StandsBy(p, o) /\ o # a
    BY <2>1, <1>3 DEF Voting
  <2>3. newRound'[p][o] = newRound[p][o]
    BY <1>1, <2>1, <2>2 DEF AddOnce, TypeOK
  <2>4. timeContext'[p] = timeContext[p] \/ step[p] = "waiting"
    BY <1>1, <2>1 DEF TypeOK
  <2>5. Height(p)' = Height(p)
    BY <2>1 DEF Height
  <2> QED
    BY <1>1, <1>2, <2>1, <2>2, <2>3, <2>4, <2>5, StandsBySame
<1>6. CASE NewRoundStart(a)
  <2>1. PICK r \in DOMAIN newRoundVotes[a] :
            /\ RoundStarts(a, r)
            /\ r \notin DOMAIN chain[a] =>
                  candidate' = [candidate EXCEPT ![a] = NewBlock(a, r)]
    BY <1>6 DEF NewRoundStart
  <2>2. /\ UNCHANGED <<voteBox, myVote, chain, newRound, timeContext>>
        /\ step' = [step EXCEPT ![a] = "pop"]
    BY <1>6 DEF NewRoundStart, voteVars, roundVars
  <2>3. /\ r \notin DOMAIN chain[a] /\ r = Height(a) + 1
        /\ \A q \in Nodes : newRound[a][q] = r
    BY <1>1, <2>1, RoundIsNext
  <2>4. candidate'[a] = NewBlock(a, r)
    BY <1>1, <2>1, <2>3 DEF TypeOK
  <2>5. o # a
    BY <1>1, <2>1, <2>2, <2>4, NewHeaderFresh
  <2>6. Voting(o) /\ StandsBy(p, o)
    BY <1>2, <1>3, <2>2, <2>5 DEF Voting
  <2>7. p # a
    <3>1. step[a] = "waiting" /\ newRound[a][o] # None
      BY <1>1, <2>1, <2>3, NoneAssumption DEF RoundStarts, TypeOK, IsTally
    <3> QED
      BY <2>6, <3>1 DEF StandsBy
  <2> QED
    BY <1>1, <1>2, <2>2, <2>5, <2>6, <2>7, StandsBySame
<1>7. CASE ProposeStart(a)
  <2>1. /\ UNCHANGED <<voteBox, myVote, chain, newRound, timeContext>>
        /\ step[a] = "pop" /\ step' = [step EXCEPT ![a] = "propose"]
    BY <1>7 DEF ProposeStart, ProposeStarts, voteVars, roundVars
  <2>2. candidate'[a] = candidate[a]
    BY <1>1, <1>7, <2>1 DEF ProposeStart, RoundInv, OwnBlock, TypeOK
  <2>3. Voting(o)
    BY <1>1, <1>2, <2>1 DEF Voting, TypeOK
  <2>4. StandsBy(p, o) /\ candidate'[o] = candidate[o]
    BY <1>2, <1>3, <2>1, <2>2, <2>3
  <2>5. p # a
    BY <2>1, <2>4 DEF StandsBy
  <2> QED
    BY <1>1, <1>2, <2>1, <2>3, <2>4, <2>5, StandsBySame
<1>8. CASE VoteStart(a)
  <2>1. /\ UNCHANGED <<candidate, chain, newRound, timeContext>>
        /\ VoteStarts(a) /\ step' = [step EXCEPT ![a] = "vote"]
    BY <1>8 DEF VoteStart, blockVars, roundVars
  <2>2. \/ UNCHANGED <<voteBox, myVote>>
        \/ \E h : /\ myVote' = [myVote EXCEPT ![a] = h]
                  /\ voteBox' = [n \in Nodes |-> AddOnce(voteBox[n], a, h)]
    BY <1>8 DEF VoteStart, SendVote, voteVars
  <2>3. Voting(o) /\ step[a] = "propose"
    BY <1>1, <2>1 DEF Voting, VoteStarts, TypeOK
  <2>4. ~StandsBy(a, o)
    BY <2>3 DEF StandsBy
  <2>5. CASE p = a
    <3>1. voteBox[k][a] # candidate[o]
      BY <1>3, <2>3, <2>4, <2>5
    <3>2. \E h : /\ myVote' = [myVote EXCEPT ![a] = h]
                 /\ voteBox' = [n \in Nodes |-> AddOnce(voteBox[n], a, h)]
      BY <2>1, <2>2, <2>5, <3>1
    <3>3. PICK h : /\ myVote' = [myVote EXCEPT ![a] = h]
                   /\ voteBox' = [n \in Nodes |-> AddOnce(voteBox[n], a, h)]
      BY <3>2
    <3>4. voteBox'[k][a] \in {voteBox[k][a], h}
      <4>1. voteBox[k] \in [Nodes -> MaybeHeader]
        BY <1>1 DEF TypeOK
      <4> QED
        BY <3>3, <4>1, AddOnceValue
    <3>5. h = candidate[o]
      BY <2>1, <2>5, <3>1, <3>4
    <3>6. myVote'[a] = h /\ step'[a] = "vote"
      BY <1>1, <2>1, <3>3 DEF TypeOK
    <3>7. timeContext[a] >= timeContext[o]
      BY <2>1, <2>3, VoteClock
    <3> QED
      BY <1>4, <2>1, <2>3, <2>5, <3>5, <3>6, <3>7 DEF StandsBy
  <2>6. CASE p # a
    <3>1. voteBox'[k][p] = voteBox[k][p]
      <4>1. voteBox[k] \in [Nodes -> MaybeHeader]
        BY <1>1 DEF TypeOK
      <4> QED
        BY <2>2, <2>6, <4>1, AddOnceOther
    <3>2. StandsBy(p, o)
      BY <1>3, <2>1, <2>3, <3>1
    <3> QED
      BY <1>1, <1>2, <2>1, <2>3, <2>6, <3>2, StandsBySame
  <2> QED
    BY <2>5, <2>6
<1>9. CASE CommitStart(a)
  <2>1. /\ UNCHANGED <<voteBox, myVote, candidate, chain, newRound, timeContext>>
        /\ step[a] = "vote" /\ step' = [step EXCEPT ![a] = "commit"]
    BY <1>9 DEF CommitStart, CommitStarts, blockVars, voteVars, roundVars
  <2>2. Voting(o) /\ StandsBy(p, o)
    BY <1>1, <1>3, <2>1 DEF Voting, TypeOK
  <2>3. CASE p = a
    BY <1>1, <2>1, <2>2, <2>3 DEF StandsBy, TypeOK
  <2>4. CASE p # a
    BY <1>1, <1>2, <2>1, <2>2, <2>4, StandsBySame
  <2> QED
    BY <2>3, <2>4
<1>10. CASE ConsensusFail(a) \/ NewBlockCommit(a)
  <2>1. /\ newRound'[a] = NoEntries /\ voteBox'[a] = NoEntries
        /\ step'[a] = "waiting" /\ step[a] \in {"vote", "commit"}
        /\ UNCHANGED <<myVote, candidate, timeContext>>
        /\ \A n \in Nodes : n # a => /\ newRound'[n] = newRound[n]
                                     /\ voteBox'[n] = voteBox[n]
    BY <1>1, <1>10, ClearFrame
  <2>2. o # a /\ Voting(o)
    BY <1>2, <2>1 DEF Voting
  <2>3. k # a
    BY <1>4, <2>1, <2>2 DEF NoEntries
  <2>4. StandsBy(p, o)
    BY <1>3, <2>1, <2>2, <2>3
  <2>5. CASE p # a
    BY <1>1, <1>2, <2>1, <2>2, <2>4, <2>5, StandsBySame
  <2>6. CASE p = a /\ ConsensusFail(a)
    <3>1. timeContext[a] >= candidate[o].ctx
      BY <2>1, <2>4, <2>6 DEF StandsBy
    <3>2. /\ timeContext[a] \in Nat /\ candidate[o].ctx \in Nat /\ clock[a] \in Nat
          /\ Base(timeContext[a]) \in Nat /\ Base(candidate[o].ctx) \in Nat
      BY <1>4, <2>2, TimelyTypes
    <3>3. Base(timeContext[a]) >= Base(candidate[o].ctx)
      BY <3>1, <3>2, ContextOrder, TimeAssumption
    <3>4. VoteTimesOut(a) \/ CommitTimesOut(a)
      BY <2>6 DEF ConsensusFail
    <3>5. clock[a] > Base(timeContext[a]) + TVote
      BY <1>1, <3>2, <3>4, GuardTimes, TimeAssumption DEF VoteTimesOut
    <3>6. clock[a] > Base(candidate[o].ctx) + TVote
      BY <3>2, <3>3, <3>5, TimeAssumption
    <3>7. newRound'[a][o] = None
      BY <2>1 DEF NoEntries
    <3> QED
      BY <1>2, <2>1, <2>4, <2>6, <3>6, <3>7 DEF StandsBy, Base
  <2>7. CASE p = a /\ NewBlockCommit(a)
    <3>1. Height(a)' = Height(a) + 1 /\ Height(o) <= Height(a)
      BY <2>2, <2>7, CommitAppends, InRoundBlock DEF Voting, Idling
    <3>2. Height(a)' >= candidate[o].idx
      BY <1>4, <2>2, <3>1, TimelyTypes
    <3>3. newRound'[a][o] = None
      BY <2>1 DEF NoEntries
    <3> QED
      BY <2>1, <2>4, <2>7, <3>2, <3>3 DEF StandsBy
  <2> QED
    BY <1>10, <2>5, <2>6, <2>7
<1>11. CASE Idle(a)
  <2>1. UNCHANGED <<step, voteBox, candidate, myVote, chain, newRound, timeContext>>
    BY <1>11 DEF Idle, blockVars, voteVars, roundVars
  <2>2. Voting(o) /\ StandsBy(p, o) /\ Height(p)' = Height(p)
    BY <1>3, <2>1 DEF Voting, Height
  <2> QED
    BY <1>1, <1>2, <2>1, <2>2, StandsBySame
<1> QED
  BY <1>5, <1>6, <1>7, <1>8, <1>9, <1>10, <1>11 DEF Process

LEMMA FreshStep ==
    ASSUME TimelyInv, NEW a \in Nodes, Process(a)
    PROVE  UnaskedIsFresh'
<1> SUFFICES ASSUME NEW o \in Nodes, NEW k \in Nodes, Voting(o)'
             PROVE  /\ \A p \in Nodes : verified'[k][p] # candidate'[o]
                    /\ \A i \in DOMAIN chain'[k] : chain'[k][i] # candidate'[o]
  BY DEF UnaskedIsFresh
<1>1. TypeOK /\ IndInv /\ DelayInv /\ ClockInv /\ RoundInv
  BY TimelyTypes DEF TimelyInv
<1>2. \A n \in Nodes : n # a => /\ step'[n] = step[n] /\ candidate'[n] = candidate[n]
                                /\ chain'[n] = chain[n]
  BY <1>1, PollFrame
<1>3. Voting(o) => /\ \A p \in Nodes : verified[k][p] # candidate[o]
                   /\ \A i \in DOMAIN chain[k] : chain[k][i] # candidate[o]
  BY DEF TimelyInv, UnaskedIsFresh
<1>4. Voting(o) => candidate[o] # None /\ candidate[o].owner = o
  BY InRoundBlock DEF Voting, Idling
<1>5. CASE NewRoundReady(a) \/ VoteStart(a) \/ Idle(a)
  <2>1. UNCHANGED <<candidate, verified, chain>>
    BY <1>5 DEF NewRoundReady, VoteStart, Idle, blockVars
  <2>2. Voting(o)
    BY <1>1, <1>5 DEF NewRoundReady, VoteStart, VoteStarts, Idle, Voting, TypeOK
  <2> QED
    BY <1>3, <2>1, <2>2
<1>6. CASE NewRoundStart(a)
  <2>1. PICK r \in DOMAIN newRoundVotes[a] :
            /\ RoundStarts(a, r)
            /\ r \notin DOMAIN chain[a] =>
                  candidate' = [candidate EXCEPT ![a] = NewBlock(a, r)]
    BY <1>6 DEF NewRoundStart
  <2>2. UNCHANGED <<verified, chain>>
    BY <1>6 DEF NewRoundStart
  <2>3. candidate'[a] = NewBlock(a, r)
    BY <1>1, <2>1, RoundIsNext DEF TypeOK
  <2>4. CASE o = a
    BY <1>1, <2>1, <2>2, <2>3, <2>4, NewHeaderFresh
  <2>5. CASE o # a
    BY <1>2, <1>3, <2>2, <2>5 DEF Voting
  <2> QED
    BY <2>4, <2>5
<1>7. CASE ProposeStart(a)
  <2>1. UNCHANGED <<verified, chain>> /\ step[a] = "pop"
    BY <1>7 DEF ProposeStart, ProposeStarts
  <2>2. candidate'[a] = candidate[a]
    BY <1>1, <1>7, <2>1 DEF ProposeStart, RoundInv, OwnBlock, TypeOK
  <2>3. Voting(o)
    BY <1>2, <2>1 DEF Voting
  <2> QED
    BY <1>2, <1>3, <2>1, <2>2, <2>3
<1>8. CASE CommitStart(a)
  <2>1. /\ UNCHANGED <<candidate, chain>>
        /\ step[a] = "vote" /\ step' = [step EXCEPT ![a] = "commit"]
    BY <1>8 DEF CommitStart, CommitStarts, blockVars
  <2>2. o # a /\ Voting(o)
    BY <1>1, <2>1 DEF Voting, TypeOK
  <2>3. candidate[a] # candidate[o]
    BY <1>4, <2>1, <2>2, InRoundBlock DEF Idling
  <2>4. \/ verified' = verified
        \/ verified' = [m \in Nodes |-> [q \in Nodes |->
                           IF q \in Filed(m, candidate[a]) THEN candidate[a]
                           ELSE verified[m][q]]]
    BY <1>8 DEF CommitStart, SendVerifyBlock
  <2>5. \A p \in Nodes : verified'[k][p] \in {verified[k][p], candidate[a]}
    BY <2>4
  <2> QED
    BY <1>3, <2>1, <2>2, <2>3, <2>5
<1>9. CASE ConsensusFail(a) \/ NewBlockCommit(a)
  <2>1. o # a /\ Voting(o) /\ candidate'[o] = candidate[o]
    BY <1>1, <1>2, <1>9, ClearFrame DEF Voting
  <2>2. verified'[k] = verified[k] \/ verified'[k] = NoEntries
    BY <1>1, <1>9, ClearFrame
  <2>3. \A p \in Nodes : verified'[k][p] # candidate'[o]
    BY <1>3, <1>4, <2>1, <2>2 DEF NoEntries
  <2>4. \A i \in DOMAIN chain'[k] : chain'[k][i] # candidate'[o]
    <3>1. CASE ConsensusFail(a)
      BY <1>3, <2>1, <3>1 DEF ConsensusFail
    <3>2. CASE NewBlockCommit(a) /\ k = a
      <4> DEFINE b == commitBlock[a]
      <4>1. chain'[a] = AppendBlock(chain[a], b) /\ b # candidate[o]
        BY <1>3, <2>1, <3>2, CommitAppends
      <4> HIDE DEF b
      <4> QED
        BY <1>3, <2>1, <3>2, <4>1 DEF AppendBlock
    <3>3. CASE k # a
      BY <1>2, <1>3, <2>1, <3>3
    <3> QED
      BY <1>9, <3>1, <3>2, <3>3
  <2> QED
    BY <2>3, <2>4
<1> QED
  BY <1>5, <1>6, <1>7, <1>8, <1>9 DEF Process

LEMMA ElectedInTimeStep ==
    ASSUME TimelyInv, NEW a \in Nodes, Process(a)
    PROVE  ElectedInTime'
<1> SUFFICES ASSUME NEW o \in Nodes, step'[o] = "vote", Elected(o)' # {}
             PROVE  VoteSecond(timeContext[o])' 
  BY DEF ElectedInTime
<1>1. TypeOK /\ IndInv /\ DelayInv /\ ClockInv
  BY TimelyTypes DEF TimelyInv
<1>2. /\ clock' = clock
      /\ \A n \in Nodes : n # a => /\ step'[n] = step[n]
                                   /\ timeContext'[n] = timeContext[n]
  BY <1>1, PollFrame
<1>3. ASSUME NEW c, VoteSecond(c), timeContext'[o] = c PROVE VoteSecond(timeContext[o])'
  BY <1>2, <1>3 DEF VoteSecond, Base
<1>4. CASE VoteStart(a)
  <2>1. VoteStarts(a) /\ timeContext' = timeContext
    BY <1>4 DEF VoteStart
  <2>2. clock[a] = Base(timeContext[a]) + TPropose + 1
    BY <2>1, VoteClock
  <2>3. timeContext[a] = timeContext[o]
    <3>1. CASE o = a
      BY <3>1
    <3>2. CASE o # a
      BY <1>2, <2>1, <3>2, VoteClock
    <3> QED
      BY <3>1, <3>2
  <2>4. VoteSecond(timeContext[o])
    BY <2>2, <2>3 DEF VoteSecond
  <2> QED
    BY <1>3, <2>1, <2>4
<1>5. ASSUME step[o] = "vote", voteCounts'[o] = voteCounts[o],
             timeContext'[o] = timeContext[o]
      PROVE  VoteSecond(timeContext[o])'
  <2>1. VoteSecond(timeContext[o])
    BY <1>5, ElectedSame DEF TimelyInv, ElectedInTime
  <2> QED
    BY <1>3, <1>5, <2>1
<1>6. CASE ConsensusFail(a) \/ NewBlockCommit(a)
  <2>1. o # a
    BY <1>1, <1>6, ClearFrame
  <2> QED
    BY <1>1, <1>2, <1>5, <1>6, <2>1, ClearFrame
<1>7. CASE NewRoundReady(a)
  <2>1. o # a /\ voteCounts' = voteCounts
    BY <1>7 DEF NewRoundReady, RoundReady, voteVars
  <2> QED
    BY <1>2, <1>5, <2>1
<1>8. CASE NewRoundStart(a) \/ ProposeStart(a) \/ CommitStart(a)
  <2>1. o # a /\ voteCounts' = voteCounts
    BY <1>1, <1>8 DEF NewRoundStart, ProposeStart, CommitStart, voteVars, TypeOK
  <2> QED
    BY <1>2, <1>5, <2>1
<1>9. CASE Idle(a)
  BY <1>5, <1>9 DEF Idle, voteVars
<1> QED
  BY <1>4, <1>6, <1>7, <1>8, <1>9 DEF Process

-----------------------------------------------------------------------------
(* Confirmed and decided blocks.                                            *)

(* A majority of last votes decides which block is meant.                   *)
LEMMA LastVotesUnique ==
    ASSUME NEW b, NEW c, NEW S, NEW T, S \subseteq Nodes, T \subseteq Nodes,
           Cardinality(S) >= Majority, Cardinality(T) >= Majority,
           \A p \in S : myVote[p] = b, \A p \in T : myVote[p] = c
    PROVE  b = c
<1>1. S \cap T # {}
  BY MajoritiesMeet
<1> QED
  BY <1>1

LEMMA DecidedUnique ==
    ASSUME TimelyInv, NEW b \in Header, NEW c \in Header, Decided(b), Decided(c)
    PROVE  b = c
<1> DEFINE S == {p \in Nodes : Committed(p, b)}
           T == {p \in Nodes : Committed(p, c)}
<1>1. Cardinality(S) >= Majority /\ Cardinality(T) >= Majority
  BY DEF TimelyInv, DecidedHeld
<1>2. /\ S \subseteq Nodes /\ T \subseteq Nodes
      /\ \A p \in S : myVote[p] = b
      /\ \A p \in T : myVote[p] = c
  BY DEF Committed
<1> HIDE DEF S, T
<1> QED
  BY <1>1, <1>2, LastVotesUnique

(* In the second of a vote every node is between the proposal and the end of *)
(* the voting time of that context.                                         *)
LEMMA VoteSecondLine ==
    ASSUME TimelyInv, NEW c \in Nat, VoteSecond(c), NEW n \in Nodes
    PROVE  TimeLine(n) >= TPop /\ clock[n] <= Base(c) + TVote
<1>1. PICK p \in Nodes : clock[p] = Base(c) + TPropose + 1
  BY DEF VoteSecond
<1>2. clock[n] \in Nat /\ clock[p] \in Nat /\ Base(c) \in Nat
  BY TimelyTypes, BaseType
<1>3. clock[p] - clock[n] <= MaxSkew /\ clock[n] - clock[p] <= MaxSkew
  BY DEF TimelyInv, ClockInv
<1>4. Base(c) + TPop <= clock[n] /\ clock[n] <= Base(c) + TVote
  BY <1>1, <1>2, <1>3, TimeAssumption, SkewAssumption
<1>5. clock[n] % BlockTime = clock[n] - Base(c)
  <2>1. Base(c) <= clock[n] /\ clock[n] < Base(c) + BlockTime
    BY <1>2, <1>4, TimeAssumption
  <2> QED
    BY <1>2, <2>1, LineIn
<1> QED
  BY <1>2, <1>4, <1>5, TimeAssumption DEF TimeLine

(* When an owner's votes elect its block, a majority of the nodes has it as  *)
(* its last vote and stays with it, and no node is ahead of the owner.      *)
LEMMA OwnElected ==
    ASSUME TimelyInv, NEW a \in Nodes, step[a] = "vote", candidate[a] \in Elected(a)
    PROVE  /\ VoteSecond(candidate[a].ctx)
           /\ Cardinality({p \in Nodes : Committed(p, candidate[a])}) >= Majority
           /\ \A n \in Nodes : Height(n) = Height(a)
<1> DEFINE h == candidate[a]
           V == Voters(voteBox[a], h)
           C == {p \in Nodes : Committed(p, h)}
<1>1. /\ h \in Header /\ h.ctx = timeContext[a] /\ h.idx = Height(a) + 1
      /\ h.ctx \in Nat
      /\ \A m \in Nodes : Height(a) <= Height(m)
  BY InRoundBlock, TimelyTypes DEF Idling
<1>2. VoteSecond(h.ctx)
  BY <1>1 DEF TimelyInv, ElectedInTime
<1>3. Cardinality(V) >= Majority /\ V \subseteq Nodes
  BY DEF TimelyInv, DelayInv, IndInv, TalliesAgree, Tallied, Elected, Voters
<1>4. ASSUME NEW p \in V PROVE Committed(p, h)
  <2>1. p \in Nodes /\ StandsBy(p, a)
    BY DEF TimelyInv, VotesStand, Voting, Voters
  <2>2. clock[p] <= Base(h.ctx) + TVote /\ clock[p] \in Nat /\ Base(h.ctx) \in Nat
    BY <1>1, <1>2, <2>1, VoteSecondLine, BaseType, TimelyTypes
  <2>3. ~(clock[p] > Base(h.ctx) + TVote)
    BY <2>2, TimeAssumption
  <2> QED
    BY <2>1, <2>3 DEF StandsBy, Committed
<1>5. Cardinality(C) >= Majority
  <2>1. V \subseteq C /\ C \subseteq Nodes
    BY <1>3, <1>4
  <2>2. IsFiniteSet(C) /\ Cardinality(C) \in Nat
    BY <2>1, NodeSetFinite
  <2>3. Cardinality(V) <= Cardinality(C)
    BY <2>1, <2>2, FS_Subset
  <2>4. Cardinality(V) \in Nat
    BY <1>3, NodeSetFinite
  <2> HIDE DEF V, C
  <2> QED
    BY <1>3, <2>2, <2>3, <2>4, MajorityFacts
<1>6. ASSUME NEW n \in Nodes, Height(n) # Height(a) PROVE FALSE
  <2>1. Height(n) = h.idx /\ Height(n) \in Nat
    BY <1>1, <1>6, TimelyTypes DEF TimelyInv, DelayInv, HeightInv, Lockstep
  <2>2. h.idx \in DOMAIN chain[n]
    BY <1>1, <2>1, TimelyTypes DEF TimelyInv, DelayInv, GapInv, NoGaps
  <2> DEFINE b == chain[n][h.idx]
  <2>3. b \in Header /\ b.idx = h.idx
    BY <2>2, TimelyTypes DEF TypeOK, TimelyInv, Indexed
  <2>4. Decided(b)
    BY <1>1, <2>1, <2>3 DEF Decided
  <2> DEFINE T == {p \in Nodes : Committed(p, b)}
  <2>5. Cardinality(T) >= Majority /\ T \subseteq Nodes
    BY <2>3, <2>4 DEF TimelyInv, DecidedHeld
  <2>6. (\A p \in C : myVote[p] = h) /\ (\A p \in T : myVote[p] = b) /\ C \subseteq Nodes
    BY DEF Committed
  <2>7. b # h
    BY <2>2 DEF TimelyInv, UnaskedIsFresh, Voting
  <2> HIDE DEF b, C, T, h
  <2> QED
    BY <1>5, <2>5, <2>6, <2>7, LastVotesUnique
<1> QED
  BY <1>2, <1>5, <1>6

(* A node that the verification of o's block reaches had filed no commits.  *)
LEMMA VerifyFindsEmpty ==
    ASSUME TimelyInv, NEW a \in Nodes, step[a] = "vote", NEW k \in Nodes,
           candidate[a] \in Elected(k)
    PROVE  Entries(verified[k]) = {}
<1> SUFFICES ASSUME NEW p \in Entries(verified[k]) PROVE FALSE
  OBVIOUS
<1>1. verified[k][p] \in Elected(k) /\ p \in Nodes
  BY DEF TimelyInv, DelayInv, IndInv, VerifiedIsElected, Entries
<1>2. verified[k][p] = candidate[a]
  BY <1>1, ElectedUnique DEF TimelyInv, DelayInv, IndInv
<1> QED
  BY <1>1, <1>2 DEF TimelyInv, UnaskedIsFresh, Voting

(* What a verify_block round changes: the nodes whose votes elect the block  *)
(* have the commits of exactly those nodes, the others what they had.       *)
LEMMA VerifyFrame ==
    ASSUME TimelyInv, NEW a \in Nodes, step[a] = "vote", NEW h, h = candidate[a],
           h \in Elected(a), SendVerifyBlock(h), NEW k \in Nodes
    PROVE  LET E == {p \in Nodes : h \in Elected(p)} IN
           /\ h \in Elected(k) => Entries(verified'[k]) = E /\ commitBlock'[k] = h
           /\ h \notin Elected(k) => /\ Entries(verified'[k]) = Entries(verified[k])
                                     /\ commitBlock'[k] = commitBlock[k]
<1> DEFINE E == {p \in Nodes : h \in Elected(p)}
<1>1. /\ \A p \in Nodes : verified'[k][p] =
            IF p \in Filed(k, h) THEN h ELSE verified[k][p]
      /\ commitBlock'[k] = IF Filed(k, h) # {} THEN h ELSE commitBlock[k]
  BY DEF SendVerifyBlock
<1>2. h # None
  BY InRoundBlock DEF Idling
<1>3. CASE h \in Elected(k)
  <2>1. \A p \in Nodes : verified[k][p] = None
    BY <1>3, VerifyFindsEmpty DEF Entries
  <2>2. Filed(k, h) = E /\ a \in E
    BY <1>3, <2>1 DEF Filed
  <2> QED
    BY <1>1, <1>2, <1>3, <2>1, <2>2 DEF Entries
<1>4. CASE h \notin Elected(k)
  <2>1. Filed(k, h) = {}
    BY <1>4 DEF Filed
  <2> QED
    BY <1>1, <1>4, <2>1 DEF Entries
<1> QED
  BY <1>3, <1>4

(* Heights never shrink, and a poll raises only the height of the polled     *)
(* node, when it commits.                                                   *)
LEMMA HeightMonotonic ==
    ASSUME TimelyInv, NEW a \in Nodes, Process(a)
    PROVE  /\ ~NewBlockCommit(a) => chain' = chain
           /\ \A n \in Nodes : /\ Height(n)' \in Nat /\ Height(n)' >= Height(n)
                               /\ n # a \/ ~NewBlockCommit(a) => Height(n)' = Height(n)
<1>1. ~NewBlockCommit(a) => chain' = chain
  BY DEF Process, NewRoundReady, NewRoundStart, ProposeStart, VoteStart,
         ConsensusFail, CommitStart, Idle
<1>2. ASSUME NEW n \in Nodes, n # a \/ ~NewBlockCommit(a)
      PROVE  Height(n)' = Height(n)
  <2>1. CASE n # a
    BY <2>1, TimelyTypes, PollFrame
  <2>2. CASE ~NewBlockCommit(a)
    BY <1>1, <2>2 DEF Height
  <2> QED
    BY <1>2, <2>1, <2>2
<1>3. NewBlockCommit(a) => Height(a)' = Height(a) + 1
  BY CommitAppends
<1>4. \A n \in Nodes : Height(n) \in Nat
  BY TimelyTypes
<1> QED
  BY <1>1, <1>2, <1>3, <1>4

(* No commits are no majority.                                              *)
LEMMA ClearedNotConfirmed ==
    ASSUME NEW a \in Nodes, verified'[a] = NoEntries, NEW b
    PROVE  ~Confirmed(a, b)'
<1>1. Entries(verified[a])' = {}
  BY EmptyTally
<1> QED
  BY <1>1, MajorityFacts, FS_EmptySet DEF Confirmed

(* Where a confirmed block comes from.                                      *)
LEMMA ConfirmedStep ==
    ASSUME TimelyInv, NEW a \in Nodes, Process(a), NEW k \in Nodes,
           NEW b \in Header, Confirmed(k, b)'
    PROVE  \/ Confirmed(k, b) /\ Height(k)' = Height(k)
           \/ /\ CommitStart(a) /\ step[a] = "vote" /\ step'[a] = "commit"
              /\ b = candidate[a] /\ b \in Elected(a) /\ Confirmed(a, b)'
<1>1. CASE CommitStart(a)
  <2>1. PICK h \in Elected(a) :
            IF h = candidate[a] THEN SendVerifyBlock(h)
                                ELSE UNCHANGED <<verified, commitBlock>>
    BY <1>1 DEF CommitStart
  <2>2. /\ step[a] = "vote" /\ step' = [step EXCEPT ![a] = "commit"]
        /\ chain' = chain
    BY <1>1 DEF CommitStart, CommitStarts
  <2>3. step'[a] = "commit" /\ Height(k)' = Height(k)
    BY <2>2, TimelyTypes DEF TypeOK, Height
  <2>4. CASE h # candidate[a]
    BY <2>1, <2>3, <2>4 DEF Confirmed
  <2>5. CASE h = candidate[a]
    <3>1. SendVerifyBlock(h)
      BY <2>1, <2>5
    <3> DEFINE E == {p \in Nodes : h \in Elected(p)}
    <3>2. /\ h \in Elected(k) => Entries(verified'[k]) = E /\ commitBlock'[k] = h
          /\ h \notin Elected(k) => /\ Entries(verified'[k]) = Entries(verified[k])
                                    /\ commitBlock'[k] = commitBlock[k]
      BY <2>2, <2>5, <3>1, VerifyFrame
    <3>3. Entries(verified'[a]) = E /\ commitBlock'[a] = h
      BY <2>2, <2>5, <3>1, VerifyFrame
    <3> HIDE DEF E
    <3>4. /\ (Cardinality(Entries(verified[k])) >= Majority)'
          /\ commitBlock'[k] = b
      BY DEF Confirmed
    <3>5. Entries(verified[k])' = Entries(verified'[k]) /\ Entries(verified[a])' = E
      BY <3>3 DEF Entries
    <3>6. CASE h \in Elected(k)
      BY <1>1, <2>2, <2>3, <2>5, <3>2, <3>3, <3>4, <3>5, <3>6 DEF Confirmed
    <3>7. CASE h \notin Elected(k)
      BY <2>3, <3>2, <3>4, <3>5, <3>7 DEF Confirmed
    <3> QED
      BY <3>6, <3>7
  <2> QED
    BY <2>4, <2>5
<1>2. CASE ConsensusFail(a) \/ NewBlockCommit(a)
  <2>1. k # a
    BY <1>2, ClearFrame, ClearedNotConfirmed, TimelyTypes
  <2>2. commitBlock'[k] = commitBlock[k] /\ verified'[k] = verified[k]
    BY <1>2, <2>1, ClearFrame, TimelyTypes
  <2>3. Height(k)' = Height(k)
    BY <2>1, HeightMonotonic
  <2> QED
    BY <2>2, <2>3 DEF Confirmed
<1>3. CASE UNCHANGED <<verified, commitBlock, chain>>
  BY <1>3 DEF Confirmed, Height
<1> QED
  BY <1>1, <1>2, <1>3 DEF Process, NewRoundReady, NewRoundStart, ProposeStart,
     VoteStart, Idle

(* A confirmation stays until the node leaves the round.                    *)
LEMMA ConfirmedKept ==
    ASSUME TimelyInv, NEW a \in Nodes, Process(a), NEW k \in Nodes,
           NEW b \in Header, Confirmed(k, b),
           k # a \/ ~(ConsensusFail(a) \/ NewBlockCommit(a))
    PROVE  Confirmed(k, b)'
<1>1. CASE CommitStart(a)
  <2>1. PICK h \in Elected(a) :
            IF h = candidate[a] THEN SendVerifyBlock(h)
                                ELSE UNCHANGED <<verified, commitBlock>>
    BY <1>1 DEF CommitStart
  <2>2. CASE h # candidate[a]
    BY <2>1, <2>2 DEF Confirmed
  <2>3. CASE h = candidate[a]
    <3>1. step[a] = "vote" /\ SendVerifyBlock(h)
      BY <1>1, <2>1, <2>3 DEF CommitStart, CommitStarts
    <3>2. Entries(verified[k]) # {}
      <4>1. Entries(verified[k]) \subseteq Nodes
        BY DEF Entries
      <4> QED
        BY <4>1, MajorityNonempty DEF Confirmed
    <3>3. h \notin Elected(k)
      BY <2>3, <3>1, <3>2, VerifyFindsEmpty
    <3>4. Entries(verified'[k]) = Entries(verified[k]) /\ commitBlock'[k] = commitBlock[k]
      BY <2>3, <3>1, <3>3, VerifyFrame
    <3>5. Entries(verified[k])' = Entries(verified'[k])
      BY DEF Entries
    <3> QED
      BY <3>4, <3>5 DEF Confirmed
  <2> QED
    BY <2>2, <2>3
<1>2. CASE ConsensusFail(a) \/ NewBlockCommit(a)
  BY <1>2, ClearFrame, TimelyTypes DEF Confirmed
<1>3. CASE UNCHANGED <<verified, commitBlock>>
  BY <1>3 DEF Confirmed
<1> QED
  BY <1>1, <1>2, <1>3 DEF Process, NewRoundReady, NewRoundStart, ProposeStart,
     VoteStart, Idle

LEMMA ConfirmedInTimeStep ==
    ASSUME TimelyInv, NEW a \in Nodes, Process(a)
    PROVE  ConfirmedInTime'
<1> SUFFICES ASSUME NEW k \in Nodes, NEW b \in Header, Confirmed(k, b)'
             PROVE  \/ \E j \in Nodes : Height(j)' >= b.idx
                    \/ /\ VoteSecond(b.ctx)'
                       /\ \E o \in Nodes : step'[o] = "commit" /\ Confirmed(o, b)'
  BY DEF ConfirmedInTime
<1>1. clock' = clock
  BY TimelyTypes, PollFrame
<1>2. VoteSecond(b.ctx) => VoteSecond(b.ctx)'
  BY <1>1 DEF VoteSecond, Base
<1>3. CASE Confirmed(k, b)
  <2>1. CASE \E j \in Nodes : Height(j) >= b.idx
    <3>1. b.idx \in Nat /\ \A j \in Nodes : Height(j) \in Nat
      BY TimelyTypes DEF Header
    <3> QED
      BY <2>1, <3>1, HeightMonotonic
  <2>2. CASE /\ VoteSecond(b.ctx)
             /\ \E o \in Nodes : step[o] = "commit" /\ Confirmed(o, b)
    <3>1. PICK o \in Nodes : step[o] = "commit" /\ Confirmed(o, b)
      BY <2>2
    <3>2. CASE o # a
      <4>1. step'[o] = "commit"
        BY <3>1, <3>2, TimelyTypes, PollFrame
      <4> QED
        BY <1>2, <2>2, <3>1, <3>2, <4>1, ConfirmedKept
    <3>3. CASE o = a /\ NewBlockCommit(a)
      <4>1. b.idx = Height(a) + 1 /\ Height(a)' = Height(a) + 1 /\ Height(a) \in Nat
        BY <3>1, <3>3, CommitAppends, TimelyTypes DEF Confirmed
      <4> QED
        BY <4>1
    <3>4. ~(o = a /\ ConsensusFail(a))
      <4>1. TimeLine(o) >= TPop /\ TimeLine(o) \in Nat
        <5>1. b.ctx \in Nat
          BY DEF Header
        <5> QED
          BY <2>2, <5>1, VoteSecondLine, TimelyTypes, TimeAssumption DEF TimeLine
      <4>2. ~VoteTimesOut(o) /\ ~CommitTimesOut(o)
        BY <3>1, <4>1, TimeAssumption DEF VoteTimesOut, CommitTimesOut
      <4> QED
        BY <4>2 DEF ConsensusFail
    <3>5. CASE o = a /\ ~NewBlockCommit(a)
      <4>1. step'[o] = "commit"
        BY <3>1, <3>4, <3>5 DEF Process, NewRoundReady, NewRoundStart, ProposeStart,
           VoteStart, CommitStart, Idle, RoundReady, RoundStarts, ProposeStarts,
           VoteStarts, CommitStarts
      <4> QED
        BY <1>2, <2>2, <3>1, <3>4, <3>5, <4>1, ConfirmedKept
    <3> QED
      BY <3>2, <3>3, <3>5
  <2> QED
    BY <1>3, <2>1, <2>2 DEF TimelyInv, ConfirmedInTime
<1>4. CASE /\ CommitStart(a) /\ step[a] = "vote" /\ step'[a] = "commit"
           /\ b = candidate[a] /\ b \in Elected(a) /\ Confirmed(a, b)'
  BY <1>2, <1>4, OwnElected
<1> QED
  BY <1>3, <1>4, ConfirmedStep

LEMMA ConfirmedExtendsStep ==
    ASSUME TimelyInv, NEW a \in Nodes, Process(a)
    PROVE  ConfirmedExtends'
<1> SUFFICES ASSUME NEW k \in Nodes, NEW b \in Header, Confirmed(k, b)'
             PROVE  b.idx = Height(k)' + 1
  BY DEF ConfirmedExtends
<1>1. CASE Confirmed(k, b) /\ Height(k)' = Height(k)
  BY <1>1 DEF TimelyInv, ConfirmedExtends
<1>2. CASE /\ CommitStart(a) /\ step[a] = "vote"
           /\ b = candidate[a] /\ b \in Elected(a)
  <2>1. b.idx = Height(a) + 1 /\ Height(k) = Height(a)
    BY <1>2, InRoundBlock, OwnElected DEF Idling
  <2>2. chain' = chain
    BY <1>2 DEF CommitStart
  <2>3. Height(k)' = Height(k)
    BY <2>2 DEF Height
  <2> QED
    BY <2>1, <2>3
<1> QED
  BY <1>1, <1>2, ConfirmedStep

(* Where a decision comes from.                                             *)
LEMMA DecidedStep ==
    ASSUME TimelyInv, NEW a \in Nodes, Process(a), NEW b \in Header, Decided(b)'
    PROVE  \/ Decided(b)
           \/ CommitStart(a) /\ step[a] = "vote" /\ b = candidate[a] /\ b \in Elected(a)
<1>1. CASE \E k \in Nodes : Confirmed(k, b)' /\ Height(k)' + 1 = b.idx
  BY <1>1, ConfirmedStep DEF Decided
<1>2. CASE \E m, n \in Nodes : /\ Height(m)' = b.idx /\ chain'[m][b.idx] = b
                               /\ Height(n)' + 1 = b.idx
  <2>1. PICK m \in Nodes, n \in Nodes :
            Height(m)' = b.idx /\ chain'[m][b.idx] = b /\ Height(n)' + 1 = b.idx
    BY <1>2
  <2>2. Height(m) \in Nat /\ Height(n) \in Nat /\ b.idx \in Nat
    BY TimelyTypes DEF Header
  <2>3. CASE ~NewBlockCommit(a)
    <3>1. chain' = chain /\ Height(m)' = Height(m) /\ Height(n)' = Height(n)
      BY <2>3, HeightMonotonic
    <3> QED
      BY <2>1, <3>1 DEF Decided
  <2>4. CASE NewBlockCommit(a) /\ m = a
    <3> DEFINE c == commitBlock[a]
    <3>1. /\ c.idx = Height(a) + 1 /\ Height(a)' = Height(a) + 1
          /\ c.idx \notin DOMAIN chain[a]
          /\ Confirmed(a, c) /\ chain'[a] = AppendBlock(chain[a], c)
      BY <2>4, CommitAppends
    <3> HIDE DEF c
    <3>2. b.idx = c.idx
      BY <2>1, <2>4, <3>1
    <3>3. chain'[a][c.idx] = c
      BY <3>1 DEF AppendBlock
    <3>4. b = c
      BY <2>1, <2>4, <3>2, <3>3
    <3> QED
      BY <3>1, <3>4 DEF Decided
  <2>5. CASE NewBlockCommit(a) /\ m # a /\ n = a
    <3>1. Height(m) = b.idx /\ Height(a) + 2 = b.idx
      <4>1. Height(m)' = Height(m) /\ Height(a)' = Height(a) + 1
        BY <2>5, HeightMonotonic, CommitAppends
      <4> QED
        BY <2>1, <2>2, <2>5, <4>1
    <3>2. Height(m) <= Height(a) + 1
      BY DEF TimelyInv, DelayInv, HeightInv, Lockstep
    <3> QED
      BY <2>2, <2>5, <3>1, <3>2
  <2>6. CASE NewBlockCommit(a) /\ m # a /\ n # a
    <3>1. chain'[m] = chain[m] /\ Height(m)' = Height(m) /\ Height(n)' = Height(n)
      BY <2>6, HeightMonotonic, PollFrame, TimelyTypes
    <3> QED
      BY <2>1, <3>1 DEF Decided
  <2> QED
    BY <2>3, <2>4, <2>5, <2>6
<1> QED
  BY <1>1, <1>2 DEF Decided

(* A stranded node stays so: the node ahead of it will only send it the      *)
(* round of a later block.                                                  *)
LEMMA StrandedStep ==
    ASSUME TimelyInv, NEW a \in Nodes, Process(a), NEW p \in Nodes, Stranded(p)
    PROVE  Stranded(p)'
<1>1. PICK j \in Nodes : Height(j) > Height(p) /\ newRound[p][j] # Height(p) + 1
  BY DEF Stranded
<1>2. TypeOK /\ DelayInv /\ Height(j) \in Nat /\ Height(p) \in Nat /\ Height(a) \in Nat
  BY TimelyTypes DEF TimelyInv
<1>3. ~NewRoundStart(p)
  <2> SUFFICES ASSUME NEW r \in DOMAIN newRoundVotes[p], RoundStarts(p, r) PROVE FALSE
    BY DEF NewRoundStart
  <2> QED
    BY <1>1, <1>2, RoundIsNext
<1>4. step[p] = "waiting" /\ ~Commits(p)
  BY DEF Stranded, Commits
<1>5. step'[p] = "waiting"
  <2>1. CASE p # a
    BY <1>2, <1>4, <2>1, PollFrame
  <2>2. CASE p = a
    BY <1>3, <1>4, <2>2 DEF Process, NewRoundReady, ProposeStart, ProposeStarts,
       VoteStart, VoteStarts, ConsensusFail, VoteTimesOut, CommitTimesOut,
       CommitStart, CommitStarts, NewBlockCommit, Idle
  <2> QED
    BY <2>1, <2>2
<1>6. Height(p)' = Height(p) /\ Height(j)' >= Height(j) /\ Height(j)' \in Nat
  BY <1>4, HeightMonotonic DEF NewBlockCommit
<1>7. newRound'[p][j] # Height(p) + 1
  <2>1. CASE NewRoundReady(a)
    <3>1. newRound'[p] = AddOnce(newRound[p], a, Height(a) + 1)
      BY <2>1 DEF NewRoundReady, SendNewRound
    <3>2. newRound[p] \in [Nodes -> Nat \cup {None}]
      BY <1>2 DEF TypeOK
    <3>3. CASE j # a
      <4>1. AddOnce(newRound[p], a, Height(a) + 1)[j] = newRound[p][j]
        BY <3>2, <3>3 DEF AddOnce
      <4> QED
        BY <1>1, <3>1, <4>1
    <3>4. CASE j = a
      <4>1. Height(a) + 1 # Height(p) + 1
        BY <1>1, <1>2, <3>4
      <4>2. AddOnce(newRound[p], a, Height(a) + 1)[j] \in {newRound[p][j], Height(a) + 1}
        BY <3>2, AddOnceValue
      <4> QED
        BY <1>1, <3>1, <4>1, <4>2
    <3> QED
      BY <3>3, <3>4
  <2>2. CASE ConsensusFail(a) \/ NewBlockCommit(a)
    <3>1. p # a
      BY <1>2, <1>4, <2>2, ClearFrame
    <3>2. newRound'[p] = newRound[p]
      BY <1>2, <2>2, <3>1, ClearFrame
    <3> QED
      BY <1>1, <3>2
  <2>3. CASE UNCHANGED newRound
    BY <1>1, <2>3
  <2> QED
    BY <2>1, <2>2, <2>3 DEF Process, NewRoundStart, ProposeStart, VoteStart,
       CommitStart, Idle, roundVars
<1>8. Height(j)' > Height(p)'
  BY <1>1, <1>2, <1>6
<1> QED
  BY <1>5, <1>6, <1>7, <1>8 DEF Stranded

(* A majority's votes for b stay as long as some node lacks b.              *)
LEMMA CommittedStep ==
    ASSUME TimelyInv, NEW a \in Nodes, Process(a), NEW b \in Header,
           \E n \in Nodes : Height(n) + 1 = b.idx,
           \A n \in Nodes : b.idx <= Height(n) + 1,
           ConsensusFail(a) /\ timeContext[a] >= b.ctx =>
              \E j \in Nodes : Height(j) >= b.idx,
           NEW p \in Nodes, Committed(p, b)
    PROVE  Committed(p, b)'
<1>1. /\ TypeOK /\ DelayInv /\ b.idx \in Nat
      /\ \A n \in Nodes : Height(n) \in Nat
  BY TimelyTypes DEF TimelyInv, Header
<1>2. \A n \in Nodes : Height(n)' \in Nat /\ Height(n)' >= Height(n)
  BY HeightMonotonic
<1>3. Height(p) >= b.idx => Height(p)' >= b.idx
  BY <1>1, <1>2
<1>4. myVote[p] = b
  BY DEF Committed
<1>5. CASE p # a
  <2>1. step'[p] = step[p] /\ timeContext'[p] = timeContext[p] /\ myVote'[p] = b
    BY <1>1, <1>4, <1>5, PollFrame
  <2> QED
    BY <1>3, <2>1, StrandedStep DEF Committed
<1>6. CASE p = a /\ VoteStart(a)
  <2>1. step[a] = "propose"
    BY <1>6 DEF VoteStart, VoteStarts
  <2>2. Height(a) >= b.idx
    BY <1>6, <2>1 DEF Committed, Stranded
  <2>3. \A n \in Nodes : Height(a) <= Height(n)
    BY <2>1, InRoundBlock DEF Idling
  <2> QED
    BY <1>1, <2>2, <2>3
<1>7. CASE p = a /\ ~VoteStart(a)
  <2>1. myVote'[a] = b
    BY <1>4, <1>7 DEF Process, NewRoundReady, NewRoundStart, ProposeStart,
       ConsensusFail, CommitStart, NewBlockCommit, Idle
  <2>2. CASE Height(a) >= b.idx
    BY <1>3, <1>7, <2>1, <2>2 DEF Committed
  <2>3. CASE Stranded(a)
    BY <1>7, <2>1, <2>3, StrandedStep DEF Committed
  <2>4. CASE Height(a) < b.idx /\ step[a] \in {"vote", "commit"}
             /\ timeContext[a] >= b.ctx
    <3>1. CASE ConsensusFail(a)
      <4>1. PICK j \in Nodes : Height(j) >= b.idx
        BY <2>4, <3>1
      <4>2. chain' = chain
        BY <3>1 DEF ConsensusFail
      <4>3. Height(a)' = Height(a) /\ Height(j)' = Height(j)
        BY <4>2 DEF Height
      <4>4. newRound'[a][j] = None /\ step'[a] = "waiting"
        BY <1>1, <3>1, ClearFrame DEF NoEntries
      <4>5. Height(j)' > Height(a)' /\ None # Height(a)' + 1
        BY <1>1, <2>4, <4>1, <4>3, NoneAssumption
      <4>6. Stranded(a)'
        BY <4>4, <4>5 DEF Stranded
      <4> QED
        BY <1>7, <2>1, <4>6 DEF Committed
    <3>2. CASE NewBlockCommit(a)
      <4>1. Height(a)' = Height(a) + 1
        BY <3>2, CommitAppends
      <4> QED
        BY <1>1, <1>7, <2>1, <4>1 DEF Committed
    <3>3. CASE CommitStart(a) \/ Idle(a)
      <4>1. step'[a] \in {"vote", "commit"} /\ timeContext' = timeContext
        BY <1>1, <2>4, <3>3 DEF CommitStart, Idle, TypeOK
      <4> QED
        BY <1>7, <2>1, <2>4, <4>1 DEF Committed
    <3> QED
      BY <1>7, <2>4, <3>1, <3>2, <3>3 DEF Process, NewRoundReady, RoundReady,
         NewRoundStart, RoundStarts, ProposeStart, ProposeStarts
  <2> QED
    BY <1>1, <1>7, <2>2, <2>3, <2>4 DEF Committed
<1> QED
  BY <1>5, <1>6, <1>7

(* A decided block is the next block of some node, and no node is further    *)
(* behind.                                                                  *)
LEMMA DecidedIsNext ==
    ASSUME TimelyInv, NEW b \in Header, Decided(b)
    PROVE  /\ \E n \in Nodes : Height(n) + 1 = b.idx
           /\ \A n \in Nodes : b.idx <= Height(n) + 1
<1>1. \A n \in Nodes : Height(n) \in Nat
  BY TimelyTypes
<1>2. CASE \E k \in Nodes : Confirmed(k, b) /\ Height(k) + 1 = b.idx
  <2>1. PICK k \in Nodes : Confirmed(k, b) /\ Height(k) + 1 = b.idx
    BY <1>2
  <2>2. commitBlock[k] = b /\ b # None
    BY <2>1, NoneAssumption DEF Confirmed
  <2>3. InReach(b)
    BY <2>2 DEF TimelyInv, DelayInv, GapInv, HeadersInReach
  <2> QED
    BY <2>1, <2>3 DEF InReach
<1>3. CASE \E m, n \in Nodes : Height(m) = b.idx /\ Height(n) + 1 = b.idx
  BY <1>1, <1>3 DEF TimelyInv, DelayInv, HeightInv, Lockstep
<1> QED
  BY <1>2, <1>3 DEF Decided

LEMMA DecidedHeldStep ==
    ASSUME TimelyInv, NEW a \in Nodes, Process(a)
    PROVE  DecidedHeld'
<1> SUFFICES ASSUME NEW b \in Header, Decided(b)'
             PROVE  (Cardinality({p \in Nodes : Committed(p, b)}) >= Majority)'
  BY DEF DecidedHeld
<1> DEFINE S == {p \in Nodes : Committed(p, b)}
<1>1. b.idx \in Nat /\ b.ctx \in Nat /\ Base(b.ctx) \in Nat
      /\ \A n \in Nodes : Height(n) \in Nat
  BY TimelyTypes, BaseType DEF Header
<1>2. /\ Cardinality(S) >= Majority
      /\ \E n \in Nodes : Height(n) + 1 = b.idx
      /\ \A n \in Nodes : b.idx <= Height(n) + 1
      /\ ConsensusFail(a) /\ timeContext[a] >= b.ctx =>
            \E j \in Nodes : Height(j) >= b.idx
  <2>1. CASE Decided(b)
    <3>1. Cardinality(S) >= Majority
      BY <2>1 DEF TimelyInv, DecidedHeld
    <3>2. ASSUME ConsensusFail(a), timeContext[a] >= b.ctx,
                 \A j \in Nodes : ~(Height(j) >= b.idx)
          PROVE  FALSE
      <4>1. PICK k \in Nodes : Confirmed(k, b)
        BY <1>1, <2>1, <3>2 DEF Decided
      <4>2. VoteSecond(b.ctx)
        BY <3>2, <4>1 DEF TimelyInv, ConfirmedInTime
      <4>3. clock[a] <= Base(b.ctx) + TVote
        BY <1>1, <4>2, VoteSecondLine
      <4>4. /\ clock[a] \in Nat /\ timeContext[a] \in Nat /\ Base(timeContext[a]) \in Nat
        BY TimelyTypes
      <4>5. VoteTimesOut(a) \/ CommitTimesOut(a)
        BY <3>2 DEF ConsensusFail
      <4>6. clock[a] > Base(timeContext[a]) + TVote
        BY <4>4, <4>5, GuardTimes, TimeAssumption, TimelyTypes
           DEF VoteTimesOut, TimelyInv
      <4>7. Base(timeContext[a]) >= Base(b.ctx)
        BY <1>1, <3>2, <4>4, ContextOrder, TimeAssumption
      <4> QED
        BY <1>1, <4>3, <4>4, <4>6, <4>7, TimeAssumption
    <3> QED
      BY <2>1, <3>1, <3>2, DecidedIsNext
  <2>2. CASE CommitStart(a) /\ step[a] = "vote" /\ b = candidate[a] /\ b \in Elected(a)
    <3>1. Cardinality(S) >= Majority /\ b.idx = Height(a) + 1
          /\ \A n \in Nodes : Height(n) = Height(a)
      BY <2>2, OwnElected, InRoundBlock DEF Idling
    <3>2. ~ConsensusFail(a)
      BY <2>2, TimelyTypes, ClearFrame DEF CommitStart, TypeOK
    <3> QED
      BY <1>1, <3>1, <3>2
  <2> QED
    BY <2>1, <2>2, DecidedStep
<1>3. \A p \in S : Committed(p, b)'
  BY <1>2, CommittedStep
<1> DEFINE T == {p \in Nodes : Committed(p, b)'}
<1>4. S \subseteq T /\ T \subseteq Nodes /\ S \subseteq Nodes
  BY <1>3
<1> HIDE DEF S, T
<1>5. IsFiniteSet(T) /\ Cardinality(T) \in Nat /\ Cardinality(S) \in Nat
  BY <1>4, NodeSetFinite
<1>6. Cardinality(S) <= Cardinality(T)
  BY <1>4, <1>5, FS_Subset
<1>7. Cardinality(T) >= Majority
  BY <1>2, <1>5, <1>6, MajorityFacts
<1> QED
  BY <1>7 DEF T, Majority

(* The chains agree: a decision for a height that another node has already   *)
(* reached is for that node's block.                                        *)
LEMMA AgreementStep ==
    ASSUME TimelyInv, NEW a \in Nodes, Process(a)
    PROVE  Agreement' /\ Indexed'
<1>1. CASE ~NewBlockCommit(a)
  <2>1. chain' = chain
    BY <1>1, HeightMonotonic
  <2> QED
    BY <2>1 DEF TimelyInv, Agreement, Indexed
<1>2. CASE NewBlockCommit(a)
  <2> DEFINE b == commitBlock[a]
  <2>1. /\ b \in Header /\ Confirmed(a, b) /\ b.idx = Height(a) + 1
        /\ chain'[a] = AppendBlock(chain[a], b) /\ b.idx \notin DOMAIN chain[a]
    BY <1>2, CommitAppends
  <2>2. \A n \in Nodes : n # a => chain'[n] = chain[n]
    BY PollFrame, TimelyTypes
  <2>3. Decided(b)
    BY <2>1 DEF Decided
  <2> HIDE DEF b
  <2>4. /\ DOMAIN chain'[a] = DOMAIN chain[a] \cup {b.idx}
        /\ \A i \in DOMAIN chain[a] : chain'[a][i] = chain[a][i]
        /\ chain'[a][b.idx] = b
    BY <2>1 DEF AppendBlock
  <2>5. ASSUME NEW n \in Nodes, n # a, b.idx \in DOMAIN chain[n]
        PROVE  chain[n][b.idx] = b
    <3> DEFINE c == chain[n][b.idx]
    <3>1. DOMAIN chain[n] = 1 .. Height(n) /\ Height(n) \in Nat /\ Height(a) \in Nat
      BY TimelyTypes DEF TimelyInv, DelayInv, GapInv, NoGaps
    <3>2. Height(n) <= Height(a) + 1
      BY DEF TimelyInv, DelayInv, HeightInv, Lockstep
    <3>3. Height(n) = b.idx
      BY <2>1, <2>5, <3>1, <3>2
    <3>4. c \in Header /\ c.idx = b.idx
      BY <2>5, TimelyTypes DEF TypeOK, TimelyInv, Indexed
    <3>5. Decided(c)
      BY <2>1, <3>3, <3>4 DEF Decided
    <3> HIDE DEF c
    <3>6. b = c
      BY <2>1, <2>3, <3>4, <3>5, DecidedUnique
    <3> QED
      BY <3>6 DEF c
  <2>6. Agreement'
    BY <2>2, <2>4, <2>5 DEF TimelyInv, Agreement
  <2>7. Indexed'
    BY <2>2, <2>4 DEF TimelyInv, Indexed
  <2> QED
    BY <2>6, <2>7
<1> QED
  BY <1>1, <1>2

-----------------------------------------------------------------------------
(* Linked chains.                                                           *)

(* A chain that grows by its next block keeps the hashes it has.            *)
LEMMA BlockHashKept ==
    ASSUME TimelyInv, NEW a \in Nodes, Process(a), NEW m \in Nodes, NEW i \in Nat,
           i <= Height(m)
    PROVE  BlockHash(m, i)' = BlockHash(m, i)
<1>1. CASE m # a \/ ~NewBlockCommit(a)
  <2>1. chain'[m] = chain[m]
    BY <1>1, HeightMonotonic, PollFrame, TimelyTypes
  <2> QED
    BY <2>1 DEF BlockHash, HashOf
<1>2. CASE m = a /\ NewBlockCommit(a)
  <2> DEFINE b == commitBlock[a]
  <2>1. /\ b.idx = Height(a) + 1 /\ b.idx \notin DOMAIN chain[a]
        /\ chain'[a] = AppendBlock(chain[a], b)
    BY <1>2, CommitAppends
  <2> HIDE DEF b
  <2>2. i # b.idx
    BY <1>2, <2>1, TimelyTypes
  <2>3. /\ DOMAIN chain'[a] = DOMAIN chain[a] \cup {b.idx}
        /\ \A j \in DOMAIN chain[a] : chain'[a][j] = chain[a][j]
    BY <2>1 DEF AppendBlock
  <2> QED
    BY <1>2, <2>2, <2>3 DEF BlockHash, HashOf
<1> QED
  BY <1>1, <1>2

LEMMA LinkedStep ==
    ASSUME TimelyInv, NEW a \in Nodes, Process(a)
    PROVE  Linked'
<1>1. TypeOK /\ IndInv /\ DelayInv /\ [Next]_vars
  BY TimelyTypes DEF TimelyInv, Next, Poll
<1>2. LinkedHeaders \subseteq LinkedHeaders'
  <2> SUFFICES ASSUME NEW h \in LinkedHeaders PROVE h \in LinkedHeaders'
    OBVIOUS
  <2>1. h \in Header /\ h.idx > 0 /\ h.idx \in Nat
    BY DEF LinkedHeaders, Header
  <2>2. ASSUME NEW m \in Nodes
        PROVE  h.idx <= Height(m)' + 1 /\ h.prev = BlockHash(m, h.idx - 1)'
    <3>1. /\ h.idx <= Height(m) + 1 /\ h.prev = BlockHash(m, h.idx - 1)
          /\ Height(m) \in Nat
      BY TimelyTypes DEF LinkedHeaders
    <3>2. Height(m)' \in Nat /\ Height(m)' >= Height(m)
      BY HeightMonotonic
    <3>3. h.idx - 1 \in Nat /\ h.idx - 1 <= Height(m)
      BY <2>1, <3>1
    <3> QED
      BY <2>1, <3>1, <3>2, <3>3, BlockHashKept
  <2> QED
    BY <2>1, <2>2 DEF LinkedHeaders
<1>3. \A n \in Nodes : ProposeStarts(n) => userHeader[n] \in LinkedHeaders \cup {None}
  BY DEF ProposeStarts, TimelyInv, Linked, RoundInv, OwnBlock
<1>4. \A n \in Nodes :
         /\ \A p \in Nodes : /\ proposed'[n][p] \in LinkedHeaders \cup {None}
                             /\ voteBox'[n][p] \in LinkedHeaders \cup {None}
         /\ \A i \in DOMAIN chain'[n] : chain'[n][i] \in LinkedHeaders
  BY <1>1, <1>3, HeaderFlow DEF TimelyInv, Linked
<1>5. Circulating(LinkedHeaders)'
  BY <1>2, <1>4 DEF Circulating
<1>6. ASSUME NEW n \in Nodes, step'[n] = "pop" PROVE candidate'[n] \in LinkedHeaders
  <2>1. CASE n # a
    BY <1>1, <1>6, <2>1, PollFrame DEF TimelyInv, Linked
  <2>2. CASE n = a /\ NewRoundStart(a)
    <3>1. PICK r \in DOMAIN newRoundVotes[a] :
              /\ RoundStarts(a, r)
              /\ r \notin DOMAIN chain[a] =>
                    candidate' = [candidate EXCEPT ![a] = NewBlock(a, r)]
      BY <2>2 DEF NewRoundStart
    <3>2. /\ r = Height(a) + 1 /\ r \notin DOMAIN chain[a]
          /\ \A p \in Nodes : newRound[a][p] = r
      BY <1>1, <3>1, RoundIsNext
    <3> DEFINE b == NewBlock(a, r)
    <3>3. candidate'[a] = b
      BY <1>1, <3>1, <3>2 DEF TypeOK
    <3>4. b \in Header /\ b.idx = r /\ b.prev = BlockHash(a, r - 1)
      BY <1>1, NewBlockType DEF NewBlock
    <3> HIDE DEF b
    <3>5. r \in Nat /\ r > 0 /\ r - 1 = Height(a) /\ Height(a) \in Nat
      BY <3>2, TimelyTypes
    <3>6. ASSUME NEW m \in Nodes
          PROVE  r <= Height(m) + 1 /\ BlockHash(m, r - 1) = BlockHash(a, r - 1)
      <4>1. r <= Height(m) + 1 /\ Height(m) \in Nat
        BY <3>2, <3>5, TimelyTypes, NoneAssumption
           DEF TimelyInv, DelayInv, HeightInv, RoundsNotAhead
      <4>2. DOMAIN chain[m] = 1 .. Height(m) /\ DOMAIN chain[a] = 1 .. Height(a)
        BY DEF TimelyInv, DelayInv, GapInv, NoGaps
      <4>3. CASE r - 1 = 0
        BY <4>2, <4>1, <3>5, <4>3 DEF BlockHash
      <4>4. CASE r - 1 > 0
        <5>1. r - 1 \in DOMAIN chain[m] /\ r - 1 \in DOMAIN chain[a]
          BY <3>5, <4>1, <4>2, <4>4
        <5>2. chain[m][r - 1] = chain[a][r - 1]
          BY <5>1 DEF TimelyInv, Agreement
        <5> QED
          BY <4>1, <5>1, <5>2 DEF BlockHash
      <4> QED
        BY <3>5, <4>1, <4>3, <4>4
    <3>7. b \in LinkedHeaders
      BY <3>4, <3>5, <3>6 DEF LinkedHeaders
    <3> QED
      BY <2>2, <3>3, <3>7
  <2>3. CASE n = a /\ ~NewRoundStart(a)
    <3>1. NewRoundReady(a) \/ Idle(a)
      BY <1>1, <1>6, <2>3 DEF Process, ProposeStart, VoteStart, ConsensusFail,
         CommitStart, NewBlockCommit, TypeOK
    <3>2. step'[a] = step[a] /\ candidate' = candidate
      BY <3>1 DEF NewRoundReady, Idle, blockVars
    <3> QED
      BY <1>6, <2>3, <3>2 DEF TimelyInv, Linked
  <2> QED
    BY <2>1, <2>2, <2>3
<1> QED
  BY <1>2, <1>5, <1>6 DEF Linked

-----------------------------------------------------------------------------
LEMMA TimelyInit == Init => TimelyInv
<1> SUFFICES ASSUME Init PROVE TimelyInv
  OBVIOUS
<1>1. DelayInv /\ ClockInv /\ RoundInv
  BY InitInd, HeightInit, GapInit, ClockInit, OwnInit DEF DelayInv
<1>2. /\ \A n \in Nodes : /\ step[n] \in Idling /\ DOMAIN chain[n] = {}
                          /\ verified[n] = NoEntries
      /\ \A n, p \in Nodes : proposed[n][p] = None /\ voteBox[n][p] = None
  BY StartAssumption DEF Init, Idling, NoEntries, EmptyMap
<1>3. \A o \in Nodes : ~Voting(o) /\ step[o] # "vote" /\ step[o] # "pop"
  BY <1>2 DEF Voting, Idling
<1>4. \A k \in Nodes : \A b : ~Confirmed(k, b)
  <2>1. Entries(NoEntries) = {} /\ ~(Cardinality({}) >= Majority)
    BY EmptyTally, FS_EmptySet, MajorityFacts
  <2> QED
    BY <1>2, <2>1 DEF Confirmed
<1>5. \A n \in Nodes : Height(n) = 0
  BY <1>2, FS_EmptySet DEF Height
<1>6. ASSUME NEW b \in Header PROVE ~Decided(b)
  BY <1>4, <1>5 DEF Decided
<1>7. Agreement /\ Indexed /\ Linked
  BY <1>2, <1>3 DEF Agreement, Indexed, Linked, Circulating
<1> QED
  BY <1>1, <1>3, <1>4, <1>6, <1>7 DEF TimelyInv, VotesStand, UnaskedIsFresh,
     ElectedInTime, ConfirmedInTime, ConfirmedExtends, DecidedHeld

(* The invariants for any delays, taken together.                           *)
LEMMA DelayStep == DelayInv /\ [Next]_vars => DelayInv'
BY StepInd, HeightStep, GapStep DEF DelayInv

(* A second that begins, and a stop, leave everything as it is but the       *)
(* clocks; and no second begins while a node is about to commit or to ask    *)
(* for a verification.                                                      *)
LEMMA TimelyClockStep ==
    ASSUME TimelyInv,
           \/ TimelyTick
           \/ UNCHANGED <<clock, step, timeContext, newRound, candidate, proposed,
                          myVote, voteBox, voteCounts, verified, commitBlock, chain>>
    PROVE  /\ VotesStand' /\ UnaskedIsFresh' /\ ElectedInTime'
           /\ ConfirmedInTime' /\ ConfirmedExtends' /\ DecidedHeld'
           /\ Agreement' /\ Indexed' /\ Linked'
<1>1. UNCHANGED <<step, timeContext, newRound, candidate, proposed, myVote, voteBox,
                  voteCounts, verified, commitBlock, chain>>
  BY DEF TimelyTick, Tick, roundVars, blockVars, voteVars
<1>2. TypeOK /\ \A n \in Nodes : clock'[n] \in Nat /\ clock'[n] >= clock[n]
  BY TimelyTypes DEF TimelyTick, Tick
<1>3. \A n \in Nodes : Height(n)' = Height(n)
  BY <1>1 DEF Height
<1>4. VotesStand'
  <2> SUFFICES ASSUME NEW o \in Nodes, NEW k \in Nodes, NEW p \in Nodes,
                      Voting(o)', voteBox'[k][p] = candidate'[o]
               PROVE  StandsBy(p, o)'
    BY DEF VotesStand
  <2>1. Voting(o) /\ StandsBy(p, o)
    BY <1>1 DEF Voting, TimelyInv, VotesStand
  <2> QED
    BY <1>1, <1>2, <1>3, <2>1, StandsBySame
<1>5. UnaskedIsFresh' /\ Agreement' /\ Indexed'
  BY <1>1 DEF TimelyInv, UnaskedIsFresh, Voting, Agreement, Indexed
<1>6. \A k \in Nodes : \A b : Confirmed(k, b)' <=> Confirmed(k, b)
  BY <1>1 DEF Confirmed
<1>7. ElectedInTime'
  <2> SUFFICES ASSUME NEW o \in Nodes, step'[o] = "vote", Elected(o)' # {}
               PROVE  VoteSecond(timeContext[o])'
    BY DEF ElectedInTime
  <2>1. step[o] = "vote" /\ Elected(o) # {}
    BY <1>1, ElectedSame
  <2>2. ~TimelyTick
    <3>1. PICK h \in Elected(o) : TRUE
      BY <2>1
    <3>2. TimeLine(o) \in Nat
      <4>1. clock[o] \in Nat
        BY <1>2 DEF TypeOK
      <4> QED
        BY <4>1, ContextOf, BaseType DEF TimeLine
    <3>3. VoteTimesOut(o) \/ CommitStarts(o, h)
      BY <2>1, <3>1, <3>2, TimeAssumption DEF VoteTimesOut, CommitStarts
    <3> QED
      BY <3>1, <3>3 DEF TimelyTick, Busy
  <2>3. VoteSecond(timeContext[o])
    BY <2>1 DEF TimelyInv, ElectedInTime
  <2> QED
    BY <2>2, <2>3 DEF VoteSecond, Base
<1>8. ConfirmedInTime'
  <2> SUFFICES ASSUME NEW k \in Nodes, NEW b \in Header, Confirmed(k, b)'
               PROVE  \/ \E j \in Nodes : Height(j)' >= b.idx
                      \/ /\ VoteSecond(b.ctx)'
                         /\ \E o \in Nodes : step'[o] = "commit" /\ Confirmed(o, b)'
    BY DEF ConfirmedInTime
  <2>1. CASE \E j \in Nodes : Height(j) >= b.idx
    BY <1>3, <2>1
  <2>2. CASE /\ VoteSecond(b.ctx)
             /\ \E o \in Nodes : step[o] = "commit" /\ Confirmed(o, b)
    <3>1. PICK o \in Nodes : step[o] = "commit" /\ Confirmed(o, b)
      BY <2>2
    <3>2. TimeLine(o) >= TPop
      BY <2>2, VoteSecondLine DEF Header
    <3>3. ~TimelyTick
      BY <3>1, <3>2 DEF TimelyTick, Busy, Commits, Confirmed
    <3>4. VoteSecond(b.ctx)'
      BY <2>2, <3>3 DEF VoteSecond, Base
    <3> QED
      BY <1>1, <1>6, <3>1, <3>4
  <2> QED
    BY <1>6, <2>1, <2>2 DEF TimelyInv, ConfirmedInTime
<1>9. ConfirmedExtends'
  BY <1>3, <1>6 DEF TimelyInv, ConfirmedExtends
<1>10. DecidedHeld'
  <2>1. \A b : Decided(b)' <=> Decided(b)
    BY <1>1, <1>3, <1>6 DEF Decided
  <2>2. \A p \in Nodes : \A b : Committed(p, b)' <=> Committed(p, b)
    BY <1>1, <1>3 DEF Committed, Stranded
  <2>3. \A b : {p \in Nodes : Committed(p, b)}' = {p \in Nodes : Committed(p, b)}
    BY <2>2
  <2> QED
    BY <2>1, <2>3 DEF TimelyInv, DecidedHeld, Majority
<1>11. Linked'
  <2>1. LinkedHeaders' = LinkedHeaders
    BY <1>1, <1>3 DEF LinkedHeaders, BlockHash
  <2> QED
    BY <1>1, <2>1 DEF TimelyInv, Linked, Circulating
<1> QED
  BY <1>4, <1>5, <1>7, <1>8, <1>9, <1>10, <1>11

LEMMA TimelyStep == TimelyInv /\ [TimelyNext]_vars => TimelyInv'
<1> SUFFICES ASSUME TimelyInv, [TimelyNext]_vars PROVE TimelyInv'
  OBVIOUS
<1>1. DelayInv' /\ ClockInv' /\ RoundInv'
  BY TimelyIsNext, DelayStep, ClockStep, RoundStepInv DEF TimelyInv, DelayInv
<1>2. CASE Poll
  <2>1. PICK a \in Nodes : Process(a)
    BY <1>2 DEF Poll
  <2> QED
    BY <1>1, <2>1, VotesStandStep, FreshStep, ElectedInTimeStep, ConfirmedInTimeStep,
       ConfirmedExtendsStep, DecidedHeldStep, AgreementStep, LinkedStep DEF TimelyInv
<1>3. CASE \/ TimelyTick
           \/ UNCHANGED <<clock, step, timeContext, newRound, candidate, proposed,
                          myVote, voteBox, voteCounts, verified, commitBlock, chain>>
  BY <1>1, <1>3, TimelyClockStep DEF TimelyInv
<1> QED
  BY <1>2, <1>3 DEF TimelyNext, Stop, Exited, vars, roundVars, blockVars, voteVars

(* Polls that keep up with the clock, and clocks closer together than the    *)
(* time-outs, are enough for the whole of TimelyInv.                        *)
THEOREM TimelyInvariance == TimelySpec => []TimelyInv
<1> QED
  BY TimelyInit, TimelyStep, PTL DEF TimelySpec

(* Two nodes never have different blocks at the same height, whatever the    *)
(* number of nodes, the time-outs, and the order of the block hashes.       *)
THEOREM AgreementCorrect == TimelySpec => []Agreement
<1>1. TimelyInv => Agreement
  BY DEF TimelyInv
<1> QED
  BY <1>1, TimelyInvariance, PTL

(* The block a node is about to commit (find_commit_block) is the next one   *)
(* of its chain, so that append_block, whose result nobody looks at, never   *)
(* refuses it.                                                              *)
THEOREM NextBlockConfirmed == TimelySpec => []ConfirmedExtends
<1>1. TimelyInv => ConfirmedExtends
  BY DEF TimelyInv
<1> QED
  BY <1>1, TimelyInvariance, PTL

-----------------------------------------------------------------------------
(* The refinement of Ledger.                                                *)

(* The chains are sequences of blocks.                                      *)
LEMMA ChainIsSeq ==
    TimelyInv => \A n \in Nodes : /\ chain[n] \in Seq(Header)
                                  /\ Len(chain[n]) = Height(n) /\ Height(n) \in Nat
                                  /\ DOMAIN chain[n] = 1 .. Height(n)
<1> SUFFICES ASSUME TimelyInv, NEW n \in Nodes
             PROVE  /\ chain[n] \in Seq(Header)
                    /\ Len(chain[n]) = Height(n) /\ Height(n) \in Nat
                    /\ DOMAIN chain[n] = 1 .. Height(n)
  OBVIOUS
<1>1. DOMAIN chain[n] = 1 .. Height(n) /\ Height(n) \in Nat
  BY TimelyTypes DEF TimelyInv, DelayInv, GapInv, NoGaps
<1>2. chain[n] \in [1 .. Height(n) -> Header]
  BY <1>1, TimelyTypes DEF TypeOK
<1>3. chain[n] \in Seq(Header)
  BY <1>1, <1>2, SeqDef
<1>4. Len(chain[n]) = Height(n)
  <2>1. Len(chain[n]) \in Nat /\ DOMAIN chain[n] = 1 .. Len(chain[n])
    BY <1>3, LenProperties
  <2> QED
    BY <1>1, <2>1
<1> QED
  BY <1>1, <1>3, <1>4

(* Longest is a node that no node is ahead of, and all such nodes have its   *)
(* chain.                                                                   *)
LEMMA LongestIsLongest ==
    TimelyInv => /\ Longest \in Nodes
                 /\ \A m \in Nodes : Height(m) <= Height(Longest)
                 /\ \A n \in Nodes : Height(n) >= Height(Longest) =>
                       chain[n] = chain[Longest]
<1> SUFFICES ASSUME TimelyInv
             PROVE  /\ Longest \in Nodes
                    /\ \A m \in Nodes : Height(m) <= Height(Longest)
                    /\ \A n \in Nodes : Height(n) >= Height(Longest) =>
                          chain[n] = chain[Longest]
  OBVIOUS
<1>1. \A n \in Nodes : Height(n) \in Nat
  BY TimelyTypes
<1>2. \E n \in Nodes : \A m \in Nodes : Height(m) <= Height(n)
  <2>1. 0 \in Nodes
    BY NAssumption DEF Nodes
  <2>2. \A m, n \in Nodes : Height(m) <= Height(n) + 1
    BY DEF TimelyInv, DelayInv, HeightInv, Lockstep
  <2>3. CASE \A m \in Nodes : Height(m) <= Height(0)
    BY <2>1, <2>3
  <2>4. CASE \E n \in Nodes : ~(Height(n) <= Height(0))
    <3>1. PICK n \in Nodes : ~(Height(n) <= Height(0))
      BY <2>4
    <3>2. \A m \in Nodes : Height(m) <= Height(n)
      BY <1>1, <2>1, <2>2, <3>1
    <3> QED
      BY <3>2
  <2> QED
    BY <2>3, <2>4
<1>3. Longest \in Nodes /\ \A m \in Nodes : Height(m) <= Height(Longest)
  BY <1>2 DEF Longest
<1>4. ASSUME NEW n \in Nodes, Height(n) >= Height(Longest)
      PROVE  chain[n] = chain[Longest]
  <2>1. Height(n) = Height(Longest)
    BY <1>1, <1>3, <1>4
  <2>2. /\ chain[n] \in Seq(Header) /\ Len(chain[n]) = Height(n)
        /\ DOMAIN chain[n] = 1 .. Height(n)
        /\ chain[Longest] \in Seq(Header) /\ Len(chain[Longest]) = Height(Longest)
        /\ DOMAIN chain[Longest] = 1 .. Height(Longest)
    BY <1>3, ChainIsSeq
  <2>3. \A i \in 1 .. Len(chain[n]) : chain[n][i] = chain[Longest][i]
    BY <1>3, <2>1, <2>2 DEF TimelyInv, Agreement
  <2> QED
    BY <2>1, <2>2, <2>3, SeqEqual
<1> QED
  BY <1>3, <1>4

(* append_block of the next block appends it to the sequence.               *)
LEMMA AppendIsAppend ==
    ASSUME NEW s \in Seq(Header), NEW b \in Header, b.idx = Len(s) + 1
    PROVE  /\ AppendBlock(s, b) = Append(s, b)
           /\ Len(Append(s, b)) = Len(s) + 1
           /\ SubSeq(Append(s, b), 1, Len(s)) = s
           /\ Append(s, b)[Len(s) + 1] = b
<1>1. Len(s) \in Nat /\ DOMAIN s = 1 .. Len(s)
  BY LenProperties
<1>2. /\ Append(s, b) \in Seq(Header) /\ Len(Append(s, b)) = Len(s) + 1
      /\ \A i \in 1 .. Len(s) : Append(s, b)[i] = s[i]
      /\ Append(s, b)[Len(s) + 1] = b
  BY AppendProperties
<1>3. AppendBlock(s, b) = Append(s, b)
  <2>1. AppendBlock(s, b) = [i \in 1 .. Len(s) + 1 |-> IF i \in 1 .. Len(s) THEN s[i] ELSE b]
    <3>1. b.idx \notin DOMAIN s /\ DOMAIN s \cup {b.idx} = 1 .. Len(s) + 1
      BY <1>1
    <3> QED
      BY <1>1, <3>1 DEF AppendBlock
  <2> DEFINE f == [i \in 1 .. Len(s) + 1 |-> IF i \in 1 .. Len(s) THEN s[i] ELSE b]
             g == Append(s, b)
  <2>2. g \in [1 .. Len(s) + 1 -> Header] /\ DOMAIN g = 1 .. Len(s) + 1
    BY <1>2, LenProperties
  <2>3. \A i \in 1 .. Len(s) + 1 : f[i] = g[i]
    BY <1>1, <1>2
  <2>4. DOMAIN f = 1 .. Len(s) + 1 /\ f = [i \in 1 .. Len(s) + 1 |-> f[i]]
    OBVIOUS
  <2> HIDE DEF f, g
  <2>5. f = g
    BY <2>2, <2>3, <2>4
  <2> QED
    BY <2>1, <2>5 DEF f, g
<1>4. SubSeq(Append(s, b), 1, Len(s)) = s
  <2> DEFINE t == SubSeq(Append(s, b), 1, Len(s))
  <2>1. \A i \in 1 .. Len(s) : Append(s, b)[i] \in Header
    BY <1>2, ElementOfSeq
  <2>2. /\ t \in Seq(Header)
        /\ Len(t) = IF 1 <= Len(s) THEN Len(s) - 1 + 1 ELSE 0
        /\ \A i \in 1 .. Len(s) - 1 + 1 : t[i] = Append(s, b)[1 + i - 1]
    BY <1>1, <2>1, SubSeqProperties
  <2>3. Len(t) = Len(s)
    BY <1>1, <2>2
  <2>4. \A i \in 1 .. Len(t) : t[i] = s[i]
    BY <1>1, <1>2, <2>2, <2>3
  <2> HIDE DEF t
  <2>5. t = s
    BY <2>2, <2>3, <2>4, SeqEqual
  <2> QED
    BY <2>5 DEF t
<1> QED
  BY <1>2, <1>3, <1>4

LEMMA LedgerInitial == Init => L!LedgerInit
<1> SUFFICES ASSUME Init PROVE L!LedgerInit
  OBVIOUS
<1>1. EmptyMap = << >>
  BY DEF EmptyMap
<1>2. chain = [n \in Nodes |-> << >>]
  BY <1>1 DEF Init
<1>3. Longest \in Nodes
  BY <1>2, TimelyInit, LongestIsLongest
<1> QED
  BY <1>2, <1>3 DEF L!LedgerInit

LEMMA LedgerStep ==
    TimelyInv /\ TimelyInv' /\ [TimelyNext]_vars => [L!LedgerNext]_(L!ledgerVars)
<1> SUFFICES ASSUME TimelyInv, TimelyInv', [TimelyNext]_vars
             PROVE  [L!LedgerNext]_(L!ledgerVars)
  OBVIOUS
<1> DEFINE D == chain[Longest]
<1>1. /\ Longest \in Nodes
      /\ \A m \in Nodes : Height(m) <= Height(Longest)
      /\ \A n \in Nodes : Height(n) >= Height(Longest) => chain[n] = D
  BY LongestIsLongest
<1>2. (/\ Longest \in Nodes
       /\ \A m \in Nodes : Height(m) <= Height(Longest)
       /\ \A n \in Nodes : Height(n) >= Height(Longest) => chain[n] = chain[Longest])'
  BY LongestIsLongest, PTL
<1>3. \A n \in Nodes : /\ chain[n] \in Seq(Header)
                       /\ Len(chain[n]) = Height(n) /\ Height(n) \in Nat
                       /\ DOMAIN chain[n] = 1 .. Height(n)
  BY ChainIsSeq
<1>4. (\A n \in Nodes : /\ chain[n] \in Seq(Header)
                        /\ Len(chain[n]) = Height(n) /\ Height(n) \in Nat
                        /\ DOMAIN chain[n] = 1 .. Height(n))'
  BY ChainIsSeq, PTL
<1>5. PICK l \in Nodes :
          /\ D = chain[l]
          /\ \A m \in Nodes : Len(chain[m]) <= Len(chain[l])
          /\ \A m \in Nodes : Len(chain[m]) >= Len(chain[l]) => chain[m] = D
  BY <1>1, <1>3
<1>6. PICK k \in Nodes :
          /\ D' = chain'[k]
          /\ \A m \in Nodes : Len(chain'[m]) <= Len(chain'[k])
          /\ \A m \in Nodes : Len(chain'[m]) >= Len(chain'[k]) => chain'[m] = D'
  BY <1>2, <1>4
<1>7. L!ledgerVars = <<D, chain>> /\ (L!ledgerVars)' = <<D', chain'>>
  BY DEF L!ledgerVars
<1>8. CASE UNCHANGED chain
  <2>1. D' = D
    BY <1>3, <1>5, <1>6, <1>8
  <2> QED
    BY <1>7, <1>8, <2>1
<1>9. ASSUME NEW a \in Nodes, NewBlockCommit(a)
      PROVE  L!Decide(a) \/ L!Learn(a)
  <2> DEFINE b == commitBlock[a]
             s == chain[a]
  <2>1. /\ b \in Header /\ b.idx = Height(a) + 1 /\ chain'[a] = AppendBlock(s, b)
        /\ \E p \in Nodes : voteBox[a][p] = b /\ b # None
    BY <1>9, CommitAppends
  <2>2. s \in Seq(Header) /\ Len(s) = Height(a) /\ Len(s) \in Nat
        /\ DOMAIN s = 1 .. Len(s)
    BY <1>3
  <2>3. /\ chain'[a] = Append(s, b) /\ Len(Append(s, b)) = Len(s) + 1
        /\ SubSeq(Append(s, b), 1, Len(s)) = s
        /\ Append(s, b)[Len(s) + 1] = b
    BY <2>1, <2>2, AppendIsAppend
  <2>4. chain' = [chain EXCEPT ![a] = Append(s, b)]
    BY <1>9, <2>1, <2>3 DEF NewBlockCommit
  <2>5. \A n \in Nodes : n # a => chain'[n] = chain[n]
    BY <2>4, TimelyTypes DEF TypeOK
  <2>6. b.prev = L!LastHash(s)
    <3>1. b \in LinkedHeaders
      BY <2>1 DEF TimelyInv, Linked, Circulating
    <3>2. b.prev = BlockHash(a, Len(s))
      BY <2>1, <2>2, <3>1 DEF LinkedHeaders
    <3>3. s = << >> <=> Len(s) = 0
      BY <2>2, EmptySeq
    <3> QED
      BY <2>2, <3>2, <3>3 DEF BlockHash, L!LastHash
  <2> HIDE DEF b, s
  <2>7. CASE \A m \in Nodes : Len(chain[m]) <= Len(s)
    <3>1. D = s
      BY <1>5, <2>7 DEF s
    <3>2. k = a
      BY <1>6, <1>3, <2>2, <2>3, <2>5, <2>7
    <3>3. D' = Append(s, b)
      BY <1>6, <2>3, <3>2
    <3>4. L!Decide(a)
      <4>1. /\ chain[a] = D
            /\ Len(D') = Len(D) + 1
            /\ SubSeq(D', 1, Len(D)) = D
            /\ D'[Len(D')].prev = L!LastHash(D)
            /\ chain' = [chain EXCEPT ![a] = D']
        BY <2>3, <2>4, <2>6, <3>1, <3>3 DEF s
      <4> QED
        BY <4>1 DEF L!Decide
    <3> QED
      BY <3>4
  <2>8. CASE \E m \in Nodes : ~(Len(chain[m]) <= Len(s))
    <3>1. Len(D) > Len(s) /\ Len(D) \in Nat /\ l # a
      BY <1>3, <1>5, <2>2, <2>8 DEF s
    <3>2. Len(D) = Len(s) + 1
      <4>1. Height(l) <= Height(a) + 1
        BY DEF TimelyInv, DelayInv, HeightInv, Lockstep
      <4> QED
        BY <1>3, <1>5, <2>2, <3>1, <4>1
    <3>3. chain'[l] = D /\ Len(chain'[a]) = Len(D)
      BY <1>5, <2>3, <2>5, <3>1, <3>2
    <3>4. Len(chain'[k]) <= Len(D)
      <4>1. CASE k = a
        BY <3>1, <3>3, <4>1
      <4>2. CASE k # a
        BY <1>5, <2>5, <4>2
      <4> QED
        BY <4>1, <4>2
    <3>5. Len(chain'[k]) \in Nat /\ Len(chain'[l]) \in Nat /\ Len(chain'[a]) \in Nat
      BY <1>4
    <3>6. D' = D /\ chain'[a] = D'
      BY <1>6, <3>1, <3>3, <3>4, <3>5
    <3>7. D[Len(s) + 1] = b
      BY <2>3, <3>6
    <3>8. L!Learn(a)
      <4>1. /\ Len(chain[a]) < Len(D)
            /\ chain' = [chain EXCEPT ![a] = Append(@, D[Len(@) + 1])]
            /\ D' = D
        BY <2>2, <2>4, <3>1, <3>6, <3>7 DEF s
      <4> QED
        BY <4>1 DEF L!Learn
    <3> QED
      BY <3>8
  <2> QED
    BY <2>7, <2>8
<1>10. CASE Poll
  <2>1. PICK a \in Nodes : Process(a)
    BY <1>10 DEF Poll
  <2>2. NewBlockCommit(a) \/ UNCHANGED chain
    BY <2>1, HeightMonotonic
  <2> QED
    BY <1>8, <1>9, <2>2 DEF L!LedgerNext
<1> QED
  BY <1>8, <1>10 DEF TimelyNext, TimelyTick, Tick, Stop, Exited, vars

(* The protocol implements the replicated chain: every step leaves the       *)
(* chains alone, lets a node append the next agreed block, or lets a node    *)
(* that has them all append a new one that carries the hash of its last.    *)
THEOREM LedgerRefinement == TimelySpec => ImplementsLedger
<1> QED
  BY LedgerInitial, LedgerStep, TimelyInvariance, PTL
     DEF TimelySpec, ImplementsLedger, L!LedgerSpec

=============================================================================
