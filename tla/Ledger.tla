------------------------------ MODULE Ledger -------------------------------
(***************************************************************************)
(* What the consensus promises its users: one agreed chain of blocks, each  *)
(* naming the hash of its predecessor, of which every node's own chain is a *)
(* prefix that only grows, one block at a time.                             *)
(***************************************************************************)
EXTENDS Naturals, Sequences

CONSTANTS
    Nodes,        \* the nodes that keep a copy of the chain
    HashOf(_),    \* the hash of a block
    None          \* the predecessor hash of the first block

VARIABLES
    decided,      \* the agreed chain
    log           \* the chain of each node

ledgerVars == <<decided, log>>

LastHash(s) == IF s = <<>> THEN None ELSE HashOf(s[Len(s)])

LedgerInit ==
    /\ decided = <<>>
    /\ log = [n \in Nodes |-> <<>>]

(* A node that has the whole agreed chain is the first to get a new block.  *)
Decide(n) ==
    /\ log[n] = decided
    /\ Len(decided') = Len(decided) + 1
    /\ SubSeq(decided', 1, Len(decided)) = decided
    /\ decided'[Len(decided')].prev = LastHash(decided)
    /\ log' = [log EXCEPT ![n] = decided']

(* A node that lags behind appends the block that was agreed for its height. *)
Learn(n) ==
    /\ Len(log[n]) < Len(decided)
    /\ log' = [log EXCEPT ![n] = Append(@, decided[Len(@) + 1])]
    /\ UNCHANGED decided

LedgerNext == \E n \in Nodes : Decide(n) \/ Learn(n)

LedgerSpec == LedgerInit /\ [][LedgerNext]_ledgerVars

=============================================================================
