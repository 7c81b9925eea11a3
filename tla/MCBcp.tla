------------------------------- MODULE MCBcp -------------------------------
(* Small instances of Bcp for TLC.  The configurations give the time-outs    *)
(* values that leave one clock reading in each comparison class of           *)
(* process(), and HashOrders four orders of the block hashes.               *)
EXTENDS BcpTimely

MCContexts == 0 .. (MaxClock \div BlockTime)

(* Earlier blocks, then lower owners, have the lower hashes.                *)
Ascending == [x \in Nodes \X MCContexts |-> x[2] * N + x[1]]

(* Later blocks, then higher owners, have the lower hashes.                 *)
Descending == [x \in Nodes \X MCContexts |-> MaxClock * N - x[2] * N - x[1]]

(* Higher owners, then earlier blocks, have the lower hashes.               *)
ByOwner == [x \in Nodes \X MCContexts |-> (N - x[1]) * MaxClock + x[2]]

(* A different owner has the lowest hash in each context.                   *)
Rotating == [x \in Nodes \X MCContexts |-> x[2] * N + ((x[1] + x[2]) % N)]

MCHashOrders == {Ascending, Descending, ByOwner, Rotating}

=============================================================================
