----------------------------- MODULE MCPrograms -----------------------------
(***************************************************************************)
(* The programs of src/apps, the udp client and the packets of             *)
(* src/bryllite-core.  One part moves in a behaviour, the others rest in   *)
(* an initial state.                                                       *)
(***************************************************************************)
EXTENDS AppShell, ClientShell, UdpClient, Messages

CONSTANTS
    ArrayLengths,   \* lengths of a character array, CAddress::max_length + 1
    MaxText         \* bound: length of an address

ASSUME LengthsAssumption == ArrayLengths \subseteq Nat

VARIABLES
    part,           \* the part that moves
    packet,         \* the name of a packet
    room,           \* the length of an array of characters
    address         \* the address copied into it

packetVars == <<packet, room, address>>
vars == <<part, appVars, clientVars, udpVars, packetVars>>

Parts == {"app", "client", "udp", "packet"}

\* The initial values S for the part that moves, x for a part at rest.
When(p, S, x) == IF part = p THEN S ELSE {x}

(* Every packet of the code, and addresses in arrays of several lengths.   *)
PacketInit(packets, lengths) == packet \in packets /\ room \in lengths /\ address = <<>>

PacketNext ==
    /\ Len(address) < MaxText
    /\ \E ch \in {"a", "b"} : address' = Append(address, ch)
    /\ UNCHANGED <<packet, room>>

NoArgs == [readable |-> TRUE, id |-> "missing", help |-> FALSE, version |-> FALSE,
           config |-> "loads"]

Init ==
    /\ part \in Parts
    /\ AppInit(When("app", Apps, "node"), When("app", Args, NoArgs))
    /\ ClientInit(When("client", client_process_options, -1), When("client", 0..MaxClients, 0))
    /\ UdpInit
    /\ PacketInit(When("packet", Names, "ping"), When("packet", ArrayLengths, 1))

AppMoves(A) == part = "app" /\ A /\ UNCHANGED <<part, clientVars, udpVars, packetVars>>
ClientMoves(A) == part = "client" /\ A /\ UNCHANGED <<part, appVars, udpVars, packetVars>>
UdpMoves(A) == part = "udp" /\ A /\ UNCHANGED <<part, appVars, clientVars, packetVars>>

Next ==
    \/ AppMoves(AppNext)
    \/ ClientMoves(ClientNext)
    \/ UdpMoves(UdpNext)
    \/ /\ part = "packet" /\ PacketNext
       /\ UNCHANGED <<part, appVars, clientVars, udpVars>>

(* The operating system keeps running the threads; signals need not come.  *)
(* A worker that may return does, since a stopped io_service runs no       *)
(* further handler, and a join that may return does.                       *)
Fairness ==
    /\ WF_vars(AppMoves(AppStep))
    /\ WF_vars(ClientMoves(ClientStep))
    /\ WF_vars(ClientMoves(ClientRunBegins)) /\ WF_vars(ClientMoves(ClientRunReturns))
    /\ WF_vars(UdpMoves(UdpRunBegins)) /\ WF_vars(UdpMoves(UdpRunReturns))
    /\ WF_vars(UdpMoves(UdpJoin))

Spec == Init /\ [][Next]_vars /\ Fairness

-----------------------------------------------------------------------------

(* A message that is sent is recognised by its receiver: its header is     *)
(* valid, so the blocks and transactions it may carry fit into a packet,   *)
(* its size accounts for its members, and no other message has its id.     *)
PacketsAreRecognised ==
    /\ valid_header(ctor(packet))
    /\ payload_size(ctor(packet)) >= Members(packet)[1][1]
    /\ ctor(packet).msgid < 2 ^ 16
    /\ \A other \in Names : message_id(other) = message_id(packet) => other = packet

(* An address that leaves room for its terminator is read back as it was   *)
(* copied, in the balance messages; one that does not runs past the array. *)
AddressReadBack ==
    LET array == copy_string(room, address)
    IN  /\ Len(array) = room
        /\ c_string(array) = IF Len(address) < room THEN address ELSE PastEnd

-----------------------------------------------------------------------------
(* The properties checked.                                                 *)

(* A server is made, started, updated and stopped once and in this order,  *)
(* and the emulator stops the clients it started and leaves no thread.     *)
OrderlyPrograms == OrderlyLife /\ CleanEnd /\ OnlyStarted

(* The packets a program sends are recognised by their receiver, and the   *)
(* addresses they carry are read back.                                     *)
PacketsReadable == PacketsAreRecognised /\ AddressReadBack

(* The udp client hands up only datagrams that were sent, and those whole, *)
(* and stays ready for the next one until it is stopped.                   *)
FaithfulClient == DeliveredWasSent /\ KeepsListening

(* A signal ends a program, wherever in its life it comes;                 *)
(* udp_client::stop returns, whatever its worker is doing, and no callback *)
(* runs after it has.                                                      *)
ProgramsEnd == AppSignalEnds /\ ClientSignalEnds /\ StopReturns /\ QuietAfterStop
=============================================================================
