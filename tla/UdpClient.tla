----------------------------- MODULE UdpClient -----------------------------
(***************************************************************************)
(* bryllite::net::udp_client (bryllite-core/udp_client.hpp): a socket, an  *)
(* io_service with one worker thread and one outstanding receive, whose    *)
(* handler reads the message in place and receives again.                  *)
(*                                                                         *)
(* A datagram is a sequence of cells: a message has the cells signature,   *)
(* size and id, then its payload cells; its size is its number of cells.   *)
(* Other programs' datagrams begin with a cell that is no signature.  The  *)
(* network loses, repeats and reorders datagrams.                          *)
(***************************************************************************)
EXTENDS Integers, Sequences, SequencesExt

CONSTANTS
    MaxCells,       \* max_message_length, in cells
    Payloads,       \* what a payload cell may hold
    MaxSends,       \* bound: datagrams sent to this socket
    MaxReceives     \* bound: receptions

HeaderCells == 3
ASSUME UdpBoundsAssumption ==
    /\ MaxCells \in Nat /\ MaxCells > HeaderCells
    /\ MaxSends \in Nat /\ MaxReceives \in Nat

VARIABLES
    net,            \* datagrams under way to this socket
    sent,           \* the messages that were sent
    sends,          \* datagrams sent
    mem,            \* memory of _read_buffer; what was read stays there
    reads,          \* outstanding receives
    iosStopped,     \* _ios was told to stop
    udpWorker,         \* _io_thread: "none", "created", "running", "returned"
    joined,         \* _io_thread was joined and is no longer joinable
    caller,         \* what the thread that uses the client is doing
    answer,         \* what the last call returned
    delivered,      \* messages given to onUdpClientMessage, in order
    receives        \* receptions

udpVars == <<net, sent, sends, mem, reads, iosStopped, udpWorker, joined, caller,
          answer, delivered, receives>>

Message(id, payload) == <<"BRC", HeaderCells + Len(payload), id>> \o payload

(* Messages of every length up to one cell more than fits, and datagrams   *)
(* of other programs, shorter than a header ones included.                 *)
Sendable == {Message(id, p) : id \in {1, 2}, p \in SeqOf(Payloads, MaxCells - HeaderCells + 1)}
Foreign == {<<"junk">>, <<"junk", MaxCells, 1>>}

UdpInit ==
    /\ net = {}
    /\ sent = {}
    /\ sends = 0
    /\ mem = <<>>
    /\ reads = 0
    /\ iosStopped = FALSE
    /\ udpWorker = "none"
    /\ joined = FALSE
    /\ caller = "idle"
    /\ answer = TRUE
    /\ delivered = <<>>
    /\ receives = 0

(* do_read: the buffer has its memory after the first call, so only that   *)
(* one can throw.                                                          *)
do_read(ok) == reads' = IF ok THEN reads + 1 ELSE reads

(* udp_client_start.  Called again it makes a second receive and replaces  *)
(* the thread object; a thread object that is still joinable must not be.  *)
Start ==
    /\ caller = "idle"
    /\ \E ok \in IF mem = <<>> /\ reads = 0 THEN BOOLEAN ELSE {TRUE} :
          /\ do_read(ok)
          /\ answer' = ok
          /\ IF ~ok
             THEN UNCHANGED <<udpWorker, joined, caller>>
             ELSE IF udpWorker # "none" /\ ~joined
             THEN caller' = "terminated" /\ UNCHANGED <<udpWorker, joined>>
             ELSE udpWorker' = "created" /\ joined' = FALSE /\ UNCHANGED caller
    /\ reads < 2
    /\ UNCHANGED <<net, sent, sends, mem, iosStopped, delivered, receives>>

\* Slip: the io_service is not stopped before the join.
StopUnsaid ==
    /\ caller = "idle"
    /\ caller' = IF udpWorker = "none" THEN "undefined" ELSE "joining"
    /\ UNCHANGED <<net, sent, sends, mem, reads, iosStopped, udpWorker, joined, answer, delivered, receives>>

(* udp_client_stop: without a thread object the call is undefined.         *)
Stop ==
    /\ caller = "idle"
    /\ iosStopped' = TRUE
    /\ caller' = IF udpWorker = "none" THEN "undefined" ELSE "joining"
    /\ UNCHANGED <<net, sent, sends, mem, reads, udpWorker, joined, answer, delivered, receives>>

(* join throws when the thread was joined before; the exception is caught  *)
(* and the call returns false.                                             *)
UdpJoin ==
    /\ caller = "joining"
    /\ \/ joined /\ answer' = FALSE /\ UNCHANGED joined
       \/ ~joined /\ udpWorker = "returned" /\ answer' = TRUE /\ joined' = TRUE
    /\ caller' = "idle"
    /\ UNCHANGED <<net, sent, sends, mem, reads, iosStopped, udpWorker, delivered, receives>>

(* udp_sendto( message* ) of a peer, and another program's datagram.       *)
udp_sendto ==
    /\ sends < MaxSends
    /\ sends' = sends + 1
    /\ \/ \E m \in Sendable : net' = net \cup {m} /\ sent' = sent \cup {m}
       \/ \E d \in Foreign : net' = net \cup {d} /\ UNCHANGED sent
    /\ UNCHANGED <<mem, reads, iosStopped, udpWorker, joined, caller, answer, delivered, receives>>

-----------------------------------------------------------------------------

\* What a reception leaves in memory: the datagram, cut at the buffer's end,
\* over what was there.
Overlay(d) ==
    LET got == SubSeq(d, 1, IF Len(d) < MaxCells THEN Len(d) ELSE MaxCells)
    IN  IF Len(got) < Len(mem) THEN got \o SubSeq(mem, Len(got) + 1, Len(mem)) ELSE got

\* Slip: the size in the header is not compared with the largest message.
ValidAnySize(m) ==
    /\ Len(m) >= HeaderCells
    /\ m[1] = "BRC"
    /\ m[2] >= HeaderCells

(* message_header::valid on the memory of the buffer.                      *)
valid(m) ==
    /\ Len(m) >= HeaderCells
    /\ m[1] = "BRC"
    /\ m[2] >= HeaderCells /\ m[2] <= MaxCells

(* The message a handler sees: as many cells as its header says.           *)
Seen(m) == SubSeq(m, 1, IF m[2] < Len(m) THEN m[2] ELSE Len(m))

(* _on_receive_from with a datagram: the handler takes one outstanding     *)
(* receive, and do_read makes the next one.                                *)
OnReceiveFrom ==
    /\ udpWorker = "running" /\ ~iosStopped
    /\ reads > 0 /\ receives < MaxReceives
    /\ receives' = receives + 1
    /\ \E d \in net :
          /\ net' \in {net, net \ {d}}      \* the network may have a copy
          /\ mem' = Overlay(d)
          /\ delivered' = IF valid(mem') THEN Append(delivered, Seen(mem')) ELSE delivered
    /\ reads' = (reads - 1) + 1
    /\ UNCHANGED <<sent, sends, iosStopped, udpWorker, joined, caller, answer>>

(* _on_receive_from with an error or no byte: nothing is read.             *)
OnReceiveError ==
    /\ udpWorker = "running" /\ ~iosStopped
    /\ reads > 0 /\ receives < MaxReceives
    /\ receives' = receives + 1
    /\ reads' = (reads - 1) + 1
    /\ UNCHANGED <<net, sent, sends, mem, iosStopped, udpWorker, joined, caller, answer, delivered>>

UdpRunBegins ==
    /\ udpWorker = "created" /\ caller \notin {"undefined", "terminated"}
    /\ udpWorker' = IF iosStopped \/ reads = 0 THEN "returned" ELSE "running"
    /\ UNCHANGED <<net, sent, sends, mem, reads, iosStopped, joined, caller, answer, delivered, receives>>

UdpRunReturns ==
    /\ udpWorker = "running" /\ caller \notin {"undefined", "terminated"}
    /\ iosStopped \/ reads = 0
    /\ udpWorker' = "returned"
    /\ UNCHANGED <<net, sent, sends, mem, reads, iosStopped, joined, caller, answer, delivered, receives>>

Lose ==
    /\ \E d \in net : net' = net \ {d}
    /\ UNCHANGED <<sent, sends, mem, reads, iosStopped, udpWorker, joined, caller, answer, delivered, receives>>

Receiving == OnReceiveFrom \/ OnReceiveError

UdpNext ==
    \/ Start \/ Stop \/ UdpJoin \/ udp_sendto
    \/ Receiving /\ caller \notin {"undefined", "terminated"}
    \/ UdpRunBegins \/ UdpRunReturns \/ Lose

-----------------------------------------------------------------------------

(* Whatever the network does, a message handed to onUdpClientMessage is    *)
(* one that was sent, whole: what valid() accepts is neither cut off nor   *)
(* mixed with the previous datagram, whose cells are still in the buffer.  *)
DeliveredWasSent == \A k \in DOMAIN delivered : delivered[k] \in sent

(* The client keeps listening from its start to its stop: junk and errors  *)
(* do not use up the outstanding receive.                                  *)
KeepsListening ==
    udpWorker \in {"created", "running"} /\ ~iosStopped => reads > 0

(* Once a stop that answered true has returned, no callback runs, not even *)
(* after another start: the stopped io_service is never reset.             *)
QuietAfterStop ==
    [][iosStopped /\ caller = "idle" /\ joined => delivered' = delivered /\ udpWorker # "running"]_udpVars

(* A stop that was called on a started client returns.                     *)
StopReturns == caller = "joining" ~> caller = "idle"
=============================================================================
