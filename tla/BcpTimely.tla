----------------------------- MODULE BcpTimely -----------------------------
(* The consensus of Bcp when the polling thread keeps up with the clock, and *)
(* what it then promises: the replicated chain of Ledger, and progress.     *)
EXTENDS Bcp

(* The seconds between the time-outs exceed the skew of the clocks, and the  *)
(* voting time ends a second before the block time does (5, 10, 15 and 20 s  *)
(* in bcp_server.hpp, against NTP-synchronised clocks).                     *)
ASSUME SkewAssumption ==
    /\ MaxSkew < TVote - TPropose
    /\ MaxSkew <= TPropose - TPop
    /\ TVote + 1 < BlockTime

(***************************************************************************)
(* The polling thread keeps up with the clock: a sweep takes milliseconds   *)
(* and a clock reading lasts a second, so no second begins while a node has *)
(* work to do.  The clocks may still be up to MaxSkew apart, and a second   *)
(* may begin in the middle of a sweep.                                      *)
(***************************************************************************)
TimelyTick == (\A n \in Nodes : ~Busy(n)) /\ Tick

TimelyNext == Poll \/ TimelyTick \/ Stop \/ Exited

TimelySpec ==
    Init /\ [][TimelyNext]_vars /\ WF_vars(Poll) /\ WF_vars(TimelyTick)

-----------------------------------------------------------------------------
(* Two nodes never have different blocks at the same height.                *)
Agreement ==
    \A m, n \in Nodes : \A i \in DOMAIN chain[m] \cap DOMAIN chain[n] :
       chain[m][i] = chain[n][i]

(* The agreed chain is that of a node which no other node is ahead of.      *)
Longest == CHOOSE n \in Nodes : \A m \in Nodes : Height(m) <= Height(n)

L == INSTANCE Ledger WITH decided <- chain[Longest], log <- chain

(* Every step of the protocol leaves the chains alone, lets a node add the   *)
(* next block of the one agreed chain, or lets a node that is up to date     *)
(* extend it by a block that carries its last block's hash.                 *)
ImplementsLedger == L!LedgerSpec

(* The time contexts that end by MaxClock, without context 0 and context 1:  *)
(* the nodes are started somewhere in context 1 and may have to sit it out.  *)
FullContexts == (MaxClock + 1) \div BlockTime - 2

(* Unless it is stopped, the system produces its first block at every node,  *)
(* and while the clocks agree it has produced one in every whole time        *)
(* context by the end.  (After that clocks a second apart can leave votes    *)
(* of a late node in boxes already cleared for the next round, and a round   *)
(* that fails there may be the last.)                                       *)
Progress ==
    /\ <>(stop \/ \A n \in Nodes : Height(n) >= 1)
    /\ [](\A m, n \in Nodes : clock[m] = clock[n]) =>
          <>(stop \/ \A n \in Nodes : Height(n) >= FullContexts)

=============================================================================
