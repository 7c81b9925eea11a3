-------------------------------- MODULE Fifo -------------------------------
(* What a byte stream promises: bytes come out in the order they went in,   *)
(* each once; only an explicit cut loses bytes, and it loses the last ones. *)
EXTENDS Naturals, Sequences

VARIABLES
    queue,        \* the bytes written and not yet taken
    call          \* the last operation and the bytes it passed or returned

fifoVars == <<queue, call>>

Front(k) == SubSeq(queue, 1, k)
After(k) == SubSeq(queue, k + 1, Len(queue))

FifoInit == queue = <<>> /\ call = [op |-> "new", bytes |-> <<>>]

Put == call'.op = "write" /\ queue' = queue \o call'.bytes

Get(k) ==
    /\ call' = [op |-> "read", bytes |-> Front(k)]
    /\ queue' = After(k)

Look ==
    /\ call' = [op |-> "peek", bytes |-> queue]
    /\ UNCHANGED queue

Drop(k) ==
    /\ call' = [op |-> "read_commit", bytes |-> <<>>]
    /\ queue' = After(k)

Cut(k) ==
    /\ call'.op \in {"prepare", "resize", "clear"}
    /\ queue' = Front(k)

FifoNext ==
    \/ Put \/ Look
    \/ \E k \in 0 .. Len(queue) : Get(k) \/ Drop(k) \/ Cut(k)

FifoSpec == FifoInit /\ [][FifoNext]_fifoVars

=============================================================================
