--------------------------- MODULE ProgramsProofs ---------------------------
(***************************************************************************)
(* What holds of the programs of src/apps and of the udp client for any    *)
(* number of clients, sends and receptions, and for any size of a packet.  *)
(*                                                                         *)
(* A server runs only behind a command line that was accepted (AppInv);    *)
(* the emulator's loops meet exactly the clients whose start succeeded,    *)
(* and the stopping loop leaves none of them behind (ClientInv); a         *)
(* datagram that valid() accepts fills the buffer exactly as far as its    *)
(* header says (UdpInv); the members of a packet, aligned one behind the   *)
(* other by a recursion, end within a packet (EndsStep, PacketFits).       *)
(***************************************************************************)
EXTENDS MCPrograms, SequenceTheorems, WellFoundedInduction, TLAPS

(* Where main() is decides what the server and the command line are.       *)
Accepted ==
    /\ args.config = "loads"
    /\ args.id # "missing"
    /\ app = "node" => args.id = "valid"

AppInv ==
    /\ app \in {"node", "game", "bridge"}
    /\ args \in Args
    /\ appPc \in {"constructed", "options", "start", "loop", "update", "stop",
                  "terminated", "killed", "aborted"}
    /\ appPc \in {"constructed", "options", "terminated"} => server # "running"
    /\ appPc \in {"start", "loop", "update", "stop"} => Accepted
    /\ server = "running" => Accepted

(* The command lines that process_options accepts.                         *)
LEMMA OnlyAcceptedGoOn ==
    ASSUME AppInv, GoesOn(app, app_process_options(app, args))
    PROVE  Accepted
<1> DEFINE r == app_process_options(app, args)
<1>1. args.config \in {"loads", "fails", "throws", "throws_other"}
      /\ args.id \in {"missing", "negative", "valid", "too_large"}
      /\ args.readable \in BOOLEAN /\ args.help \in BOOLEAN /\ args.version \in BOOLEAN
  BY DEF AppInv, Args
<1>2. CASE app = "node"
  <2>1. r = process_options_node(args) /\ r >= 0
    BY <1>2 DEF app_process_options, GoesOn
  <2> QED
    BY <1>1, <1>2, <2>1 DEF process_options_node, Loaded, Accepted
<1>3. CASE app = "game"
  <2>1. r = process_options_game(args) /\ r = 0
    BY <1>3 DEF app_process_options, GoesOn
  <2> QED
    BY <1>1, <1>3, <2>1 DEF process_options_game, Loaded, Accepted
<1>4. CASE app = "bridge"
  <2>1. r = process_options_bridge(args) /\ r >= 0
    BY <1>4 DEF app_process_options, GoesOn
  <2> QED
    BY <1>1, <1>4, <2>1 DEF process_options_bridge, Loaded, Accepted
<1> QED
  BY <1>2, <1>3, <1>4 DEF AppInv

LEMMA AppInitInv == Init => AppInv
<1> SUFFICES ASSUME Init PROVE AppInv
  OBVIOUS
<1>1. app \in When("app", Apps, "node") /\ args \in When("app", Args, NoArgs)
      /\ appPc = "constructed" /\ server \in {"idle", "none"}
  BY DEF Init, AppInit
<1>2. NoArgs \in Args
  BY DEF NoArgs, Args
<1>3. app \in {"node", "game", "bridge"} /\ args \in Args
  BY <1>1, <1>2, AppsAssumption DEF When
<1> QED
  BY <1>1, <1>3 DEF AppInv

LEMMA AppStepInv ==
    ASSUME AppInv, AppNext
    PROVE  AppInv'
<1> USE DEF AppInv
<1>1. CASE RegisterSignal
  BY <1>1 DEF RegisterSignal, Accepted
<1>2. CASE AppProcessOptions
  <2>1. /\ appPc = "options" /\ app' = app /\ args' = args /\ server' = server
        /\ appPc' = IF GoesOn(app, app_process_options(app, args)) THEN "start" ELSE "terminated"
    BY <1>2 DEF AppProcessOptions
  <2>2. GoesOn(app, app_process_options(app, args)) => Accepted
    BY OnlyAcceptedGoOn
  <2> QED
    BY <2>1, <2>2 DEF Accepted
<1>3. CASE StartNode \/ StartGame \/ StartBridge
  BY <1>3 DEF StartNode, StartGame, StartBridge, Accepted
<1>4. CASE AppLoop \/ Update
  BY <1>4 DEF AppLoop, Update, Accepted
<1>5. CASE StopNode \/ StopGame \/ StopBridge
  BY <1>5 DEF StopNode, StopGame, StopBridge, Accepted
<1>6. CASE AppInterrupt \/ AppKill
  BY <1>6 DEF AppInterrupt, AppKill, AppEnded, Accepted
<1> QED
  BY <1>1, <1>2, <1>3, <1>4, <1>5, <1>6 DEF AppNext, AppStep

-----------------------------------------------------------------------------

(* The clients in the vector are those whose start succeeded; the creating *)
(* loop has not touched numbers from i on, the stopping loop has stopped   *)
(* the clients below i.                                                    *)
ClientTypes ==
    /\ count \in 0 .. MaxClients
    /\ i \in 0 .. count
    /\ clients \subseteq Numbers
    /\ status \in [Numbers -> {"none", "started", "discarded", "stopped"}]
    /\ clientPc \in {"options", "create", "loop", "main", "stop_io", "stop_clients",
                     "terminated", "killed", "aborted"}

InVector ==
    \A n \in Numbers :
       /\ n \in clients <=> status[n] \in {"started", "stopped"}
       /\ n \in clients => n < count

Unstarted == \A n \in Numbers : status[n] # "stopped" /\ (n >= i => status[n] = "none")

AllStarted == i = 0 /\ \A n \in Numbers : status[n] # "stopped"

StoppedSoFar == \A n \in clients : n < i => status[n] = "stopped"

ClientInv ==
    /\ ClientTypes
    /\ InVector
    /\ clientPc = "options" => clients = {} /\ i = 0 /\ clientWorker = "none"
    /\ clientPc \in {"options", "create"} => Unstarted /\ clientWorker = "none"
    /\ clientPc \in {"loop", "main", "stop_io"} => AllStarted
    /\ clientPc = "stop_clients" => StoppedSoFar
    /\ clientPc = "terminated" => /\ \A n \in clients : status[n] = "stopped"
                                  /\ clientWorker \in {"none", "returned"}

LEMMA ClientInitInv == Init => ClientInv
<1> SUFFICES ASSUME Init PROVE ClientInv
  OBVIOUS
<1>1. /\ count \in When("client", 0 .. MaxClients, 0)
      /\ clientPc = "options" /\ i = 0 /\ clients = {} /\ clientWorker = "none"
      /\ status = [n \in Numbers |-> "none"]
  BY DEF Init, ClientInit
<1>2. count \in 0 .. MaxClients
  BY <1>1, ClientBoundsAssumption DEF When
<1> QED
  BY <1>1, <1>2 DEF ClientInv, ClientTypes, InVector, Unstarted

LEMMA ClientStepInv ==
    ASSUME ClientInv, ClientNext
    PROVE  ClientInv'
<1> USE ClientBoundsAssumption DEF ClientInv, ClientTypes, Numbers
<1>1. CASE ClientProcessOptions
  BY <1>1 DEF ClientProcessOptions, InVector, Unstarted
<1>2. CASE CreateClient
  <2>1. i \in Numbers /\ i' = i + 1 /\ i' \in 0 .. count
    BY <1>2 DEF CreateClient
  <2>2. /\ clientPc = "create" /\ clientPc' = clientPc /\ count' = count
        /\ clientWorker' = clientWorker
    BY <1>2 DEF CreateClient
  <2>3. \/ clients' = clients \cup {i} /\ status' = [status EXCEPT ![i] = "started"]
        \/ clients' = clients /\ status' = [status EXCEPT ![i] = "discarded"]
    BY <1>2 DEF CreateClient
  <2>4. ClientTypes'
    BY <2>1, <2>2, <2>3
  <2>5. Unstarted'
    BY <2>1, <2>2, <2>3 DEF Unstarted
  <2>6. InVector'
    BY <2>1, <2>2, <2>3 DEF Unstarted, InVector
  <2> QED
    BY <2>2, <2>4, <2>5, <2>6
<1>3. CASE StartWorker
  BY <1>3 DEF StartWorker, InVector, Unstarted, AllStarted
<1>4. CASE ClientLoop \/ OnMain
  BY <1>4 DEF ClientLoop, OnMain, InVector, AllStarted
<1>5. CASE StopIo
  BY <1>5 DEF StopIo, InVector, AllStarted, StoppedSoFar
<1>6. CASE StopClient
  <2>1. i \in Numbers /\ i' = i + 1 /\ i' \in 0 .. count
    BY <1>6 DEF StopClient
  <2>2. /\ clientPc = "stop_clients" /\ clientPc' = clientPc /\ count' = count
        /\ clients' = clients
        /\ status' = IF i \in clients THEN [status EXCEPT ![i] = "stopped"] ELSE status
    BY <1>6 DEF StopClient
  <2>3. ClientTypes'
    BY <2>1, <2>2
  <2>4. InVector'
    BY <2>1, <2>2 DEF InVector
  <2>5. StoppedSoFar'
    BY <2>1, <2>2 DEF StoppedSoFar
  <2> QED
    BY <2>2, <2>3, <2>4, <2>5
<1>7. CASE ClientJoin
  BY <1>7 DEF ClientJoin, InVector, StoppedSoFar
<1>8. CASE WorkerStep
  BY <1>8 DEF WorkerStep, ClientRunBegins, Handler, ClientRunReturns, ClientEnded,
              InVector, Unstarted, AllStarted, StoppedSoFar
<1>9. CASE ClientInterrupt \/ ClientKill
  BY <1>9 DEF ClientInterrupt, ClientKill, ClientEnded,
              InVector, Unstarted, AllStarted, StoppedSoFar
<1> QED
  BY <1>1, <1>2, <1>3, <1>4, <1>5, <1>6, <1>7, <1>8, <1>9 DEF ClientNext, ClientStep

-----------------------------------------------------------------------------

(* What is under way was sent or is another program's; a worker that was   *)
(* joined has returned, and one that was started has a receive.            *)
Cells == {"BRC", "junk"} \cup Nat \cup Payloads

UdpInv ==
    /\ sent \subseteq Sendable
    /\ net \subseteq sent \cup Foreign
    /\ mem \in Seq(Cells)
    /\ delivered \in Seq(sent)
    /\ reads \in Nat
    /\ joined => udpWorker = "returned"
    /\ KeepsListening

(* A message says in its second cell how long it is.                       *)
LEMMA MessageCells ==
    ASSUME NEW m \in Sendable
    PROVE  /\ m \in Seq(Cells)
           /\ Len(m) >= HeaderCells
           /\ m[1] = "BRC" /\ m[2] = Len(m)
<1>1. PICK id \in {1, 2}, p \in SeqOf(Payloads, MaxCells - HeaderCells + 1) : m = Message(id, p)
  BY DEF Sendable
<1>2. p \in Seq(Payloads)
  <2>1. PICK l \in 0 .. MaxCells - HeaderCells + 1 : p \in [1 .. l -> Payloads]
    BY DEF SeqOf
  <2>2. l \in Nat
    OBVIOUS
  <2> QED
    BY <2>1, <2>2
<1>3. p \in Seq(Cells) /\ Len(p) \in Nat
  BY <1>2 DEF Cells
<1> DEFINE head == <<"BRC", HeaderCells + Len(p), id>>
<1>4. HeaderCells + Len(p) \in Cells /\ "BRC" \in Cells /\ id \in Cells
  BY <1>3 DEF Cells, HeaderCells
<1>5. head \in Seq(Cells) /\ Len(head) = 3 /\ head[1] = "BRC" /\ head[2] = HeaderCells + Len(p)
  BY <1>4
<1>6. m = head \o p
  BY <1>1 DEF Message
<1> HIDE DEF head
<1>7. m \in Seq(Cells) /\ Len(m) = 3 + Len(p) /\ m[1] = head[1] /\ m[2] = head[2]
  <2>1. /\ head \o p \in Seq(Cells) /\ Len(head \o p) = Len(head) + Len(p)
        /\ \A k \in 1 .. Len(head) + Len(p) : (head \o p)[k] =
              IF k <= Len(head) THEN head[k] ELSE p[k - Len(head)]
    BY <1>3, <1>5, ConcatProperties
  <2> QED
    BY <1>3, <1>5, <1>6, <2>1
<1> QED
  BY <1>3, <1>5, <1>7 DEF HeaderCells

LEMMA ForeignCells ==
    ASSUME NEW d \in Foreign
    PROVE  d \in Seq(Cells) /\ Len(d) >= 1 /\ d[1] = "junk"
<1>1. MaxCells \in Cells /\ "junk" \in Cells /\ 1 \in Cells
  BY UdpBoundsAssumption DEF Cells
<1>2. CASE d = <<"junk">>
  BY <1>1, <1>2
<1>3. CASE d = <<"junk", MaxCells, 1>>
  BY <1>1, <1>3
<1> QED
  BY <1>2, <1>3 DEF Foreign

(* A datagram that fits lies at the beginning of the buffer, whatever was  *)
(* there; of one that does not, the first cells are there.                 *)
LEMMA OverlayCells ==
    ASSUME mem \in Seq(Cells), NEW d \in Seq(Cells)
    PROVE  /\ Overlay(d) \in Seq(Cells)
           /\ Len(d) <= MaxCells =>
                 /\ Len(Overlay(d)) >= Len(d)
                 /\ \A k \in 1 .. Len(d) : Overlay(d)[k] = d[k]
           /\ Len(d) > MaxCells =>
                 /\ Len(Overlay(d)) >= MaxCells
                 /\ \A k \in 1 .. MaxCells : Overlay(d)[k] = d[k]
<1> DEFINE l == IF Len(d) < MaxCells THEN Len(d) ELSE MaxCells
           got == SubSeq(d, 1, l)
<1>1. l \in Nat /\ l <= Len(d) /\ (Len(d) <= MaxCells => l = Len(d))
      /\ (Len(d) > MaxCells => l = MaxCells)
  BY UdpBoundsAssumption
<1>2. got \in Seq(Cells) /\ Len(got) = l /\ \A k \in 1 .. l : got[k] = d[k]
  BY <1>1
<1>3. Overlay(d) = IF Len(got) < Len(mem) THEN got \o SubSeq(mem, Len(got) + 1, Len(mem)) ELSE got
  BY DEF Overlay
<1> HIDE DEF got, l
<1>4. CASE Len(got) < Len(mem)
  <2> DEFINE rest == SubSeq(mem, Len(got) + 1, Len(mem))
  <2>1. rest \in Seq(Cells)
    BY <1>1, <1>2
  <2>2. Overlay(d) = got \o rest
    BY <1>3, <1>4
  <2> HIDE DEF rest
  <2>3. /\ got \o rest \in Seq(Cells)
        /\ Len(got \o rest) = Len(got) + Len(rest)
        /\ \A k \in 1 .. Len(got) : (got \o rest)[k] = got[k]
    <3>1. /\ got \o rest \in Seq(Cells) /\ Len(got \o rest) = Len(got) + Len(rest)
          /\ \A k \in 1 .. Len(got) + Len(rest) : (got \o rest)[k] =
                IF k <= Len(got) THEN got[k] ELSE rest[k - Len(got)]
      BY <1>2, <2>1, ConcatProperties
    <3>2. Len(got) \in Nat /\ Len(rest) \in Nat
      BY <1>2, <2>1
    <3> QED
      BY <3>1, <3>2
  <2>4. Len(rest) \in Nat
    BY <2>1
  <2> QED
    BY <1>1, <1>2, <2>2, <2>3, <2>4
<1>5. CASE ~(Len(got) < Len(mem))
  BY <1>1, <1>2, <1>3, <1>5
<1> QED
  BY <1>4, <1>5

(* message_header::valid accepts the buffer only after a message that fits *)
(* into it, and the handler then sees that message.                        *)
LEMMA ValidIsWhole ==
    ASSUME UdpInv, NEW d \in net, valid(Overlay(d))
    PROVE  d \in sent /\ Seen(Overlay(d)) = d
<1> DEFINE m == Overlay(d)
<1>1. mem \in Seq(Cells) /\ MaxCells \in Nat /\ MaxCells > 3
  BY UdpBoundsAssumption DEF UdpInv, HeaderCells
<1>2. d \in sent
  <2> SUFFICES ASSUME d \in Foreign PROVE FALSE
    BY DEF UdpInv
  <2>1. d \in Seq(Cells) /\ Len(d) >= 1 /\ d[1] = "junk"
    BY ForeignCells
  <2>2. m[1] = d[1]
    <3>1. CASE Len(d) <= MaxCells
      <4>1. \A k \in 1 .. Len(d) : m[k] = d[k]
        BY <1>1, <2>1, <3>1, OverlayCells
      <4> QED
        BY <2>1, <4>1
    <3>2. CASE Len(d) > MaxCells
      <4>1. \A k \in 1 .. MaxCells : m[k] = d[k]
        BY <1>1, <2>1, <3>2, OverlayCells
      <4> QED
        BY <1>1, <4>1
    <3> QED
      BY <1>1, <2>1, <3>1, <3>2
  <2> QED
    BY <2>1, <2>2 DEF valid
<1>3. d \in Seq(Cells) /\ Len(d) >= 3 /\ d[2] = Len(d)
  BY <1>2, MessageCells DEF UdpInv, HeaderCells
<1>4. m \in Seq(Cells)
  BY <1>1, <1>3, OverlayCells
<1>5. m[2] = d[2]
  <2>1. CASE Len(d) <= MaxCells
    <3>1. \A k \in 1 .. Len(d) : m[k] = d[k]
      BY <1>1, <1>3, <2>1, OverlayCells
    <3> QED
      BY <1>3, <3>1
  <2>2. CASE Len(d) > MaxCells
    <3>1. \A k \in 1 .. MaxCells : m[k] = d[k]
      BY <1>1, <1>3, <2>2, OverlayCells
    <3> QED
      BY <1>1, <3>1
  <2> QED
    BY <1>1, <1>3, <2>1, <2>2
<1>6. Len(d) <= MaxCells
  BY <1>3, <1>5 DEF valid
<1>7. Len(m) >= Len(d) /\ \A k \in 1 .. Len(d) : m[k] = d[k]
  BY <1>1, <1>3, <1>6, OverlayCells
<1>8. Seen(m) = SubSeq(m, 1, Len(d))
  BY <1>3, <1>4, <1>5, <1>7 DEF Seen
<1> HIDE DEF m
<1>9. /\ SubSeq(m, 1, Len(d)) \in Seq(Cells) /\ Len(SubSeq(m, 1, Len(d))) = Len(d)
      /\ \A k \in 1 .. Len(d) : SubSeq(m, 1, Len(d))[k] = m[k]
  BY <1>3, <1>4, <1>7
<1>10. SubSeq(m, 1, Len(d)) = d
  BY <1>3, <1>7, <1>9, SeqEqual
<1> QED
  BY <1>2, <1>8, <1>10 DEF m

LEMMA UdpInitInv == Init => UdpInv
  BY DEF Init, UdpInit, UdpInv, KeepsListening

LEMMA UdpStepInv ==
    ASSUME UdpInv, UdpNext
    PROVE  UdpInv'
<1> USE DEF UdpInv, KeepsListening
<1>1. CASE Start
  BY <1>1 DEF Start, do_read
<1>2. CASE Stop \/ UdpJoin
  BY <1>2 DEF Stop, UdpJoin
<1>3. CASE udp_sendto
  <2>1. sent \subseteq sent' /\ sent' \subseteq Sendable /\ net' \subseteq sent' \cup Foreign
    BY <1>3 DEF udp_sendto
  <2>2. delivered' \in Seq(sent')
    BY <1>3, <2>1 DEF udp_sendto
  <2> QED
    BY <1>3, <2>1, <2>2 DEF udp_sendto
<1>4. CASE OnReceiveFrom
  <2>1. PICK d \in net :
           /\ net' \in {net, net \ {d}}
           /\ mem' = Overlay(d)
           /\ delivered' = IF valid(mem') THEN Append(delivered, Seen(mem')) ELSE delivered
    BY <1>4 DEF OnReceiveFrom
  <2>2. d \in Seq(Cells)
    BY MessageCells, ForeignCells
  <2>3. mem' \in Seq(Cells)
    BY <2>1, <2>2, OverlayCells
  <2>4. delivered' \in Seq(sent)
    <3>1. valid(Overlay(d)) => Seen(Overlay(d)) \in sent
      BY ValidIsWhole
    <3> QED
      BY <2>1, <3>1
  <2>5. /\ sent' = sent /\ reads' = reads /\ joined' = joined
        /\ udpWorker' = udpWorker /\ iosStopped' = iosStopped
    BY <1>4 DEF OnReceiveFrom
  <2> QED
    BY <2>1, <2>3, <2>4, <2>5
<1>5. CASE OnReceiveError
  BY <1>5 DEF OnReceiveError
<1>6. CASE UdpRunBegins \/ UdpRunReturns
  BY <1>6 DEF UdpRunBegins, UdpRunReturns
<1>7. CASE Lose
  BY <1>7 DEF Lose
<1> QED
  BY <1>1, <1>2, <1>3, <1>4, <1>5, <1>6, <1>7 DEF UdpNext, Receiving

-----------------------------------------------------------------------------
(* Induction over the natural numbers, on the set of those for which       *)
(* something holds.                                                        *)
LEMMA AllNumbers ==
    ASSUME NEW S, 0 \in S, \A n \in Nat : n \in S => n + 1 \in S
    PROVE  Nat \subseteq S
<1> SUFFICES ASSUME NEW z \in Nat \ S PROVE FALSE
  OBVIOUS
<1> DEFINE R == OpToRel(<,Nat)
           T == Nat \ S
<1>1. IsWellFoundedOn(R, Nat) /\ T \subseteq Nat /\ T # {}
  BY NatLessThanWellFounded
<1> HIDE DEF R
<1>2. PICK x \in T : \A y \in T : ~ (<<y, x>> \in R)
  <2> HIDE DEF T
  <2> QED
    BY <1>1, WFMin
<1>3. x \in Nat /\ x \notin S
  OBVIOUS
<1>4. x # 0 /\ x - 1 \in Nat
  BY <1>3
<1>5. <<x - 1, x>> \in R
  BY <1>3, <1>4 DEF R, OpToRel
<1>6. x - 1 \in S
  BY <1>2, <1>3, <1>4, <1>5
<1>7. x - 1 + 1 \in S
  BY <1>4, <1>6
<1> QED
  BY <1>3, <1>7

(* The functions on 0 .. n that recursion defines: from a first value, with *)
(* a step for each number.                                                 *)
Steps(n, V) == [1 .. n -> [V -> V]]

Iterates(f, n, first, G) == f[0] = first /\ \A k \in 1 .. n : f[k] = G[k][f[k - 1]]

(* There is such a function.                                               *)
LEMMA RecursionExists ==
    ASSUME NEW n \in Nat, NEW V, NEW first \in V, NEW G \in Steps(n, V)
    PROVE  \E f \in [0 .. n -> V] : Iterates(f, n, first, G)
<1> DEFINE Upto(m) == \E f \in [0 .. m -> V] : Iterates(f, m, first, G)
           S == {m \in Nat : m <= n => Upto(m)}
<1>1. 0 \in S
  <2> DEFINE f == [k \in 0 .. 0 |-> first]
  <2>1. f \in [0 .. 0 -> V] /\ Iterates(f, 0, first, G)
    BY DEF Iterates
  <2> HIDE DEF f
  <2>2. Upto(0)
    BY <2>1
  <2> QED
    BY <2>2
<1>2. ASSUME NEW m \in Nat, m \in S PROVE m + 1 \in S
  <2> SUFFICES ASSUME m + 1 <= n PROVE Upto(m + 1)
    OBVIOUS
  <2>1. PICK f \in [0 .. m -> V] : Iterates(f, m, first, G)
    BY <1>2
  <2> DEFINE g == [k \in 0 .. m + 1 |-> IF k = m + 1 THEN G[m + 1][f[m]] ELSE f[k]]
  <2>2. g \in [0 .. m + 1 -> V] /\ g[0] = first
    BY <2>1 DEF Steps, Iterates
  <2>3. \A k \in 0 .. m : g[k] = f[k]
    OBVIOUS
  <2>4. g[m + 1] = G[m + 1][f[m]]
    OBVIOUS
  <2> HIDE DEF g
  <2>5. ASSUME NEW k \in 1 .. m + 1 PROVE g[k] = G[k][g[k - 1]]
    <3>1. k - 1 \in 0 .. m /\ g[k - 1] = f[k - 1]
      BY <2>3
    <3>2. CASE k = m + 1
      BY <2>4, <3>1, <3>2
    <3>3. CASE k \in 1 .. m
      BY <2>1, <2>3, <3>1, <3>3 DEF Iterates
    <3> QED
      BY <3>2, <3>3
  <2> QED
    BY <2>2, <2>5 DEF Iterates
<1> HIDE DEF S
<1>3. n \in S
  BY <1>1, <1>2, AllNumbers
<1> QED
  BY <1>3 DEF S

StepsOn(g, n, V, G) == \A k \in 1 .. n : g[k - 1] \in V => g[k] = G[k][g[k - 1]]

(* Whatever takes these steps has values of the right type.                *)
LEMMA RecursionType ==
    ASSUME NEW n \in Nat, NEW V, NEW first \in V, NEW G \in Steps(n, V), NEW g,
           g[0] = first, StepsOn(g, n, V, G)
    PROVE  \A k \in 0 .. n : g[k] \in V
<1> DEFINE S == {k \in Nat : k <= n => g[k] \in V}
<1>1. 0 \in S
  OBVIOUS
<1>2. ASSUME NEW k \in Nat, k \in S PROVE k + 1 \in S
  <2> SUFFICES ASSUME k + 1 <= n PROVE g[k + 1] \in V
    OBVIOUS
  <2>1. g[k] \in V
    BY <1>2
  <2>2. k + 1 \in 1 .. n /\ (k + 1) - 1 = k
    OBVIOUS
  <2>3. g[k + 1] = G[k + 1][g[k]]
    BY <2>1, <2>2 DEF StepsOn
  <2> QED
    BY <2>1, <2>2, <2>3 DEF Steps
<1> HIDE DEF S
<1>3. \A k \in 0 .. n : k \in S
  BY <1>1, <1>2, AllNumbers
<1> QED
  BY <1>3 DEF S

(* Sizes and alignments of members.                                        *)
MemberTypes == Nat \X {1, 2, 4, 8}

EndsFollow(base, members) ==
    \A k \in 1 .. Len(members), j \in 0 .. Len(members) : j + 1 = k =>
        Ends(base, members)[k] = RoundUp(Ends(base, members)[j], members[k][2]) + members[k][1]

(* Where a member ends follows from where the one before it ends.          *)
LEMMA EndsStep ==
    ASSUME NEW base \in Nat, NEW members \in Seq(MemberTypes)
    PROVE  /\ Ends(base, members)[0] = base
           /\ EndsFollow(base, members)
<1> DEFINE n == Len(members)
           G == [k \in 1 .. n |-> [x \in Nat |-> RoundUp(x, members[k][2]) + members[k][1]]]
           F(f) == f = [k \in 0 .. n |-> IF k = 0 THEN base ELSE RoundUp(f[k - 1], members[k][2]) + members[k][1]]
           e == Ends(base, members)
<1>1. n \in Nat /\ \A k \in 1 .. n : members[k][1] \in Nat /\ members[k][2] \in {1, 2, 4, 8}
  BY DEF MemberTypes
<1>2. \A x \in Nat, a \in {1, 2, 4, 8} : RoundUp(x, a) \in Nat
  BY DEF RoundUp
<1>3. G \in Steps(n, Nat)
  <2>1. ASSUME NEW k \in 1 .. n, NEW x \in Nat PROVE RoundUp(x, members[k][2]) + members[k][1] \in Nat
    <3> HIDE DEF n
    <3>1. members[k][1] \in Nat /\ members[k][2] \in {1, 2, 4, 8}
      BY <1>1
    <3>2. RoundUp(x, members[k][2]) \in Nat
      BY <1>2, <3>1
    <3> QED
      BY <3>1, <3>2
  <2> HIDE DEF n
  <2> QED
    BY <2>1 DEF Steps
<1>4. \A k \in 1 .. n, x \in Nat : G[k][x] = RoundUp(x, members[k][2]) + members[k][1]
  OBVIOUS
<1> HIDE DEF G, n
<1>5. PICK f \in [0 .. n -> Nat] : Iterates(f, n, base, G)
  BY <1>1, <1>3, RecursionExists
<1>6. \A k \in 1 .. n : f[k - 1] \in Nat
  BY <1>1
<1>7. F(f)
  <2>1. \A k \in 0 .. n : f[k] = IF k = 0 THEN base ELSE RoundUp(f[k - 1], members[k][2]) + members[k][1]
    <3> TAKE k \in 0 .. n
    <3>1. CASE k = 0
      BY <1>5, <3>1 DEF Iterates
    <3>2. CASE k \in 1 .. n
      BY <1>4, <1>5, <1>6, <3>2 DEF Iterates
    <3> QED
      BY <1>1, <3>1, <3>2
  <2> QED
    BY <2>1
<1>8. e = CHOOSE h : F(h)
  BY DEF Ends, n
<1>9. F(e)
  <2> HIDE DEF F
  <2> QED
    BY <1>7, <1>8
<1> HIDE DEF e
<1>10. e[0] = base /\ \A k \in 1 .. n : e[k] = RoundUp(e[k - 1], members[k][2]) + members[k][1]
  <2>1. 0 \in 0 .. n /\ \A k \in 1 .. n : k \in 0 .. n /\ k # 0
    BY <1>1
  <2> QED
    BY <1>9, <2>1
<1>11. \A k \in 0 .. n : e[k] \in Nat
  <2>1. StepsOn(e, n, Nat, G)
    BY <1>4, <1>10 DEF StepsOn
  <2> QED
    BY <1>1, <1>3, <1>10, <2>1, RecursionType
<1>12. ASSUME NEW k \in 1 .. n, NEW j \in 0 .. n, j + 1 = k
       PROVE  e[k] = RoundUp(e[j], members[k][2]) + members[k][1]
  <2>1. k - 1 = j
    BY <1>1, <1>12
  <2> QED
    BY <1>10, <2>1
<1> QED
  BY <1>10, <1>12 DEF e, n, EndsFollow

(* The alignment that Layout chooses is determined by the members.         *)
LEMMA LayoutIs ==
    ASSUME NEW base \in Nat, NEW members \in Seq(MemberTypes), NEW a \in {1, 4, 8}, Widest(members, a)
    PROVE  Layout(base, members) = RoundUp(Ends(base, members)[Len(members)], a)
<1>1. DOMAIN members = 1 .. Len(members)
      /\ \A k \in 1 .. Len(members) : members[k][2] \in Nat
  BY DEF MemberTypes
<1>2. \A b \in {1, 4, 8} : Widest(members, b) => b = a
  BY <1>1 DEF Widest
<1>3. (CHOOSE b \in {1, 4, 8} : Widest(members, b)) = a
  BY <1>2
<1> QED
  BY <1>3 DEF Layout

(* A class with one, two or three members.                                 *)
LEMMA LayoutOfOne ==
    ASSUME NEW base \in Nat, NEW m1 \in MemberTypes, m1[2] \in {1, 4, 8}
    PROVE  Layout(base, <<m1>>) = RoundUp(RoundUp(base, m1[2]) + m1[1], m1[2])
<1> DEFINE s == <<m1>>
<1>1. s \in Seq(MemberTypes) /\ Len(s) = 1 /\ s[1] = m1
  OBVIOUS
<1>2. Widest(s, m1[2])
  BY DEF Widest
<1> HIDE DEF s
<1>3. Layout(base, s) = RoundUp(Ends(base, s)[1], m1[2])
  BY <1>1, <1>2, LayoutIs
<1>4. Ends(base, s)[0] = base /\ EndsFollow(base, s)
  BY <1>1, EndsStep
<1>5. Ends(base, s)[1] = RoundUp(base, m1[2]) + m1[1]
  BY <1>1, <1>4 DEF EndsFollow
<1> QED
  BY <1>3, <1>5 DEF s

LEMMA LayoutOfTwo ==
    ASSUME NEW base \in Nat, NEW m1 \in MemberTypes, NEW m2 \in MemberTypes, NEW a \in {1, 4, 8},
           m1[2] <= a, m2[2] <= a, a \in {1, m1[2], m2[2]}
    PROVE  Layout(base, <<m1, m2>>) = RoundUp(RoundUp(RoundUp(base, m1[2]) + m1[1], m2[2]) + m2[1], a)
<1> DEFINE s == <<m1, m2>>
<1>1. s \in Seq(MemberTypes) /\ Len(s) = 2 /\ s[1] = m1 /\ s[2] = m2
  OBVIOUS
<1>2. Widest(s, a)
  BY DEF Widest
<1> HIDE DEF s
<1>3. Layout(base, s) = RoundUp(Ends(base, s)[2], a)
  BY <1>1, <1>2, LayoutIs
<1>4. Ends(base, s)[0] = base /\ EndsFollow(base, s)
  BY <1>1, EndsStep
<1>5. Ends(base, s)[1] = RoundUp(base, m1[2]) + m1[1]
  BY <1>1, <1>4 DEF EndsFollow
<1>6. Ends(base, s)[2] = RoundUp(Ends(base, s)[1], m2[2]) + m2[1]
  BY <1>1, <1>4 DEF EndsFollow
<1> QED
  BY <1>3, <1>5, <1>6 DEF s

LEMMA LayoutOfThree ==
    ASSUME NEW base \in Nat, NEW m1 \in MemberTypes, NEW m2 \in MemberTypes, NEW m3 \in MemberTypes,
           NEW a \in {1, 4, 8}, m1[2] <= a, m2[2] <= a, m3[2] <= a, a \in {1, m1[2], m2[2], m3[2]}
    PROVE  Layout(base, <<m1, m2, m3>>) =
               RoundUp(RoundUp(RoundUp(RoundUp(base, m1[2]) + m1[1], m2[2]) + m2[1], m3[2]) + m3[1], a)
<1> DEFINE s == <<m1, m2, m3>>
<1>1. s \in Seq(MemberTypes) /\ Len(s) = 3 /\ s[1] = m1 /\ s[2] = m2 /\ s[3] = m3
  OBVIOUS
<1>2. Widest(s, a)
  BY DEF Widest
<1> HIDE DEF s
<1>3. Layout(base, s) = RoundUp(Ends(base, s)[3], a)
  BY <1>1, <1>2, LayoutIs
<1>4. Ends(base, s)[0] = base /\ EndsFollow(base, s)
  BY <1>1, EndsStep
<1>5. Ends(base, s)[1] = RoundUp(base, m1[2]) + m1[1]
  BY <1>1, <1>4 DEF EndsFollow
<1>6. Ends(base, s)[2] = RoundUp(Ends(base, s)[1], m2[2]) + m2[1]
  BY <1>1, <1>4 DEF EndsFollow
<1>7. Ends(base, s)[3] = RoundUp(Ends(base, s)[2], m3[2]) + m3[1]
  BY <1>1, <1>4 DEF EndsFollow
<1> QED
  BY <1>3, <1>5, <1>6, <1>7 DEF s

(* A block header and a peer, as members.                                  *)
LEMMA BlockHeaderSize == BlockHeader = <<288, 8>>
<1> DEFINE s == <<Word32, Word32, Word, Bytes(32), Bytes(32), Word, Secret, Secret>>
           e(k) == Ends(0, s)[k]
<1>1. s \in Seq(MemberTypes)
  BY DEF MemberTypes, Word32, Word, Bytes, Secret
<1>2. /\ Len(s) = 8 /\ s[1] = <<4, 4>> /\ s[2] = <<4, 4>> /\ s[3] = <<8, 8>> /\ s[4] = <<32, 1>>
      /\ s[5] = <<32, 1>> /\ s[6] = <<8, 8>> /\ s[7] = <<97, 1>> /\ s[8] = <<97, 1>>
  BY DEF Word32, Word, Bytes, Secret
<1>3. Widest(s, 8)
  BY <1>2 DEF Widest
<1> HIDE DEF s
<1>4. e(0) = 0 /\ \A k \in 1 .. 8, j \in 0 .. 8 : j + 1 = k => e(k) = RoundUp(e(j), s[k][2]) + s[k][1]
  <2>1. Ends(0, s)[0] = 0 /\ EndsFollow(0, s)
    BY <1>1, EndsStep
  <2> QED
    BY <1>2, <2>1 DEF EndsFollow
<1>5. Layout(0, s) = RoundUp(e(8), 8)
  BY <1>1, <1>2, <1>3, LayoutIs
<1> HIDE DEF e
<1>6. e(1) = 4 /\ e(2) = 8
  BY <1>2, <1>4 DEF RoundUp
<1>7. e(3) = 16 /\ e(4) = 48
  BY <1>2, <1>4, <1>6 DEF RoundUp
<1>8. e(5) = 80 /\ e(6) = 88
  BY <1>2, <1>4, <1>7 DEF RoundUp
<1>9. e(7) = 185 /\ e(8) = 282
  BY <1>2, <1>4, <1>8 DEF RoundUp
<1> QED
  BY <1>5, <1>9 DEF BlockHeader, RoundUp, s

LEMMA PeerSize == Peer = <<48, 8>>
<1>1. Word32 \in MemberTypes /\ String \in MemberTypes /\ <<2, 2>> \in MemberTypes
  BY DEF MemberTypes, Word32, String
<1>2. Layout(0, <<Word32, String, <<2, 2>>>>) = 48
  BY <1>1, LayoutOfThree DEF Word32, String, RoundUp
<1> QED
  BY <1>2 DEF Peer

-----------------------------------------------------------------------------
CommonNames == {"ping", "pong", "header_sign_req", "header_sign_ack",
                "balance_req", "balance_ack", "transactions_notify"}
SystemNames == {"peer_id", "time_req", "time_ack"}
UserNames == {"block_req", "block_notify", "new_round", "propose", "vote", "commit",
              "verify_block"}

(* The enumerators of each range, as sets.                                 *)
LEMMA NamesAre ==
    /\ NamesOf(common_ids) = CommonNames
    /\ NamesOf(node_system_ids) = SystemNames
    /\ NamesOf(node_user_ids) = UserNames
    /\ Names = CommonNames \cup SystemNames \cup UserNames
<1>1. DOMAIN common_ids = 1 .. 7 /\ DOMAIN node_system_ids = 1 .. 3 /\ DOMAIN node_user_ids = 1 .. 7
  BY DEF common_ids, node_system_ids, node_user_ids
<1>2. 1 .. 7 = {1, 2, 3, 4, 5, 6, 7} /\ 1 .. 3 = {1, 2, 3}
  OBVIOUS
<1>3. NamesOf(common_ids) = {common_ids[k] : k \in {1, 2, 3, 4, 5, 6, 7}}
      /\ NamesOf(node_system_ids) = {node_system_ids[k] : k \in {1, 2, 3}}
      /\ NamesOf(node_user_ids) = {node_user_ids[k] : k \in {1, 2, 3, 4, 5, 6, 7}}
  BY <1>1, <1>2 DEF NamesOf
<1>4. NamesOf(common_ids) = CommonNames
  BY <1>3 DEF common_ids, CommonNames
<1>5. NamesOf(node_system_ids) = SystemNames
  BY <1>3 DEF node_system_ids, SystemNames
<1>6. NamesOf(node_user_ids) = UserNames
  BY <1>3 DEF node_user_ids, UserNames
<1> QED
  BY <1>4, <1>5, <1>6 DEF Names

(* The position of an enumerator.                                          *)
LEMMA PositionIn ==
    ASSUME NEW ids, NEW name \in NamesOf(ids)
    PROVE  Position(ids, name) \in DOMAIN ids /\ ids[Position(ids, name)] = name
<1>1. \E k \in DOMAIN ids : ids[k] = name
  BY DEF NamesOf
<1> QED
  BY <1>1 DEF Position

(* Each range counts up from its first enumerator.                         *)
LEMMA IdsCount ==
    ASSUME NEW name \in Names
    PROVE  \/ /\ name \in CommonNames
              /\ \E k \in 1 .. 7 : message_id(name) = 100 + k /\ common_ids[k] = name
           \/ /\ name \in SystemNames
              /\ \E k \in 1 .. 3 : message_id(name) = 1001 + k /\ node_system_ids[k] = name
           \/ /\ name \in UserNames
              /\ \E k \in 1 .. 7 : message_id(name) = 1100 + k /\ node_user_ids[k] = name
<1>1. DOMAIN common_ids = 1 .. 7 /\ DOMAIN node_system_ids = 1 .. 3 /\ DOMAIN node_user_ids = 1 .. 7
  BY DEF common_ids, node_system_ids, node_user_ids
<1>2. CommonNames \cap SystemNames = {} /\ CommonNames \cap UserNames = {} /\ SystemNames \cap UserNames = {}
  BY DEF CommonNames, SystemNames, UserNames
<1>3. CASE name \in CommonNames
  <2>1. message_id(name) = 100 + Position(common_ids, name)
    BY <1>2, <1>3, NamesAre DEF message_id, common_start
  <2> QED
    BY <1>1, <1>3, <2>1, NamesAre, PositionIn
<1>4. CASE name \in SystemNames
  <2>1. message_id(name) = 1000 + 1 + Position(node_system_ids, name)
    BY <1>2, <1>4, NamesAre DEF message_id, node_start
  <2> QED
    BY <1>1, <1>4, <2>1, NamesAre, PositionIn
<1>5. CASE name \in UserNames
  <2>1. message_id(name) = 1100 + Position(node_user_ids, name)
    BY <1>2, <1>5, NamesAre DEF message_id, node_user_start, node_start
  <2> QED
    BY <1>1, <1>5, <2>1, NamesAre, PositionIn
<1> QED
  BY <1>3, <1>4, <1>5, NamesAre

(* The ids fit into 16 bits, and no two messages share one.                *)
LEMMA IdsDiffer ==
    ASSUME NEW name \in Names
    PROVE  /\ message_id(name) < 65536
           /\ \A other \in Names : message_id(other) = message_id(name) => other = name
<1>1. message_id(name) < 65536
  BY IdsCount
<1>2. ASSUME NEW other \in Names, message_id(other) = message_id(name) PROVE other = name
  <2>1. CASE name \in CommonNames
    BY <1>2, <2>1, IdsCount, NamesAre DEF CommonNames, SystemNames, UserNames
  <2>2. CASE name \in SystemNames
    BY <1>2, <2>2, IdsCount, NamesAre DEF CommonNames, SystemNames, UserNames
  <2>3. CASE name \in UserNames
    BY <1>2, <2>3, IdsCount, NamesAre DEF CommonNames, SystemNames, UserNames
  <2> QED
    BY <2>1, <2>2, <2>3, NamesAre
<1> QED
  BY <1>1, <1>2

(* A packet of any name fits, and has room for its first member.           *)
Fits(members) ==
    /\ Layout(header_size, members) \in Nat
    /\ Layout(header_size, members) >= header_size
    /\ Layout(header_size, members) <= max_message_length
    /\ Layout(header_size, members) - header_size >= members[1][1]
    /\ members[1][1] \in Nat

(* Alignment adds fewer than eight bytes.                                  *)
LEMMA RoundUpBounds ==
    ASSUME NEW x \in Nat, NEW a \in {1, 2, 4, 8}
    PROVE  RoundUp(x, a) \in Nat /\ RoundUp(x, a) >= x /\ RoundUp(x, a) <= x + 7
  BY DEF RoundUp

(* Members that a packet may have: not padded to two bytes.                *)
Plain(m) == m[1] \in Nat /\ m[2] \in {1, 4, 8} /\ m \in MemberTypes

(* How far a member moves the end of its class.                            *)
LEMMA EndBounds ==
    ASSUME NEW x \in Nat, NEW m, Plain(m)
    PROVE  LET e == RoundUp(x, m[2]) + m[1]
           IN  e \in Nat /\ e >= x + m[1] /\ e <= x + 7 + m[1]
<1>1. m[1] \in Nat /\ m[2] \in {1, 4, 8}
  BY DEF Plain
<1>2. RoundUp(x, m[2]) \in Nat /\ RoundUp(x, m[2]) >= x /\ RoundUp(x, m[2]) <= x + 7
  BY <1>1, RoundUpBounds
<1> QED
  BY <1>1, <1>2

LEMMA Limits == header_size = 14 /\ max_message_length = 65536
  BY DEF header_size, max_message_length

LEMMA HeaderNat == header_size \in Nat
  BY DEF header_size

(* Members of no more than 65000 bytes together fit into a packet.         *)
LEMMA FitsOne ==
    ASSUME NEW m1, Plain(m1), m1[1] <= 65000
    PROVE  Fits(<<m1>>)
<1> DEFINE e1 == RoundUp(header_size, m1[2]) + m1[1]
<1>1. m1[1] \in Nat /\ m1[2] \in {1, 4, 8} /\ m1 \in MemberTypes
  BY DEF Plain
<1>2. Layout(header_size, <<m1>>) = RoundUp(e1, m1[2])
  BY <1>1, LayoutOfOne, HeaderNat
<1>3. e1 \in Nat /\ e1 >= header_size + m1[1] /\ e1 <= header_size + 7 + m1[1]
  BY EndBounds, HeaderNat
<1> HIDE DEF e1
<1> DEFINE s == <<m1>>
<1>4. Layout(header_size, s) = RoundUp(e1, m1[2]) /\ s[1] = m1
  BY <1>2
<1> HIDE DEF s
<1>5. Layout(header_size, s) \in Nat /\ Layout(header_size, s) >= e1 /\ Layout(header_size, s) <= e1 + 7
  <2>1. RoundUp(e1, m1[2]) \in Nat /\ RoundUp(e1, m1[2]) >= e1 /\ RoundUp(e1, m1[2]) <= e1 + 7
    <3>1. e1 \in Nat /\ m1[2] \in {1, 2, 4, 8}
      BY <1>1, <1>3
    <3> QED
      BY ONLY <3>1, RoundUpBounds
  <2> QED
    BY <1>4, <2>1
<1>6. Fits(s)
  BY <1>1, <1>3, <1>4, <1>5, Limits DEF Fits
<1> QED
  BY <1>6 DEF s

LEMMA FitsTwo ==
    ASSUME NEW m1, NEW m2, Plain(m1), Plain(m2), m1[1] + m2[1] <= 65000
    PROVE  Fits(<<m1, m2>>)
<1> DEFINE e1 == RoundUp(header_size, m1[2]) + m1[1]
           e2 == RoundUp(e1, m2[2]) + m2[1]
           a == IF m1[2] >= m2[2] THEN m1[2] ELSE m2[2]
           s == <<m1, m2>>
<1>1. m1[1] \in Nat /\ m1[2] \in {1, 4, 8} /\ m1 \in MemberTypes
      /\ m2[1] \in Nat /\ m2[2] \in {1, 4, 8} /\ m2 \in MemberTypes
  BY DEF Plain
<1>2. a \in {1, 4, 8} /\ m1[2] <= a /\ m2[2] <= a /\ a \in {1, m1[2], m2[2]}
  BY <1>1
<1> HIDE DEF a
<1>3. Layout(header_size, s) = RoundUp(e2, a)
  BY <1>1, <1>2, LayoutOfTwo, HeaderNat
<1>4. s[1] = m1
  OBVIOUS
<1> HIDE DEF s
<1>5. e1 \in Nat /\ e1 >= header_size + m1[1] /\ e1 <= header_size + 7 + m1[1]
  BY EndBounds, HeaderNat
<1> HIDE DEF e1
<1>6. e2 \in Nat /\ e2 >= e1 + m2[1] /\ e2 <= e1 + 7 + m2[1]
  BY <1>5, EndBounds
<1> HIDE DEF e2
<1>7. Layout(header_size, s) \in Nat /\ Layout(header_size, s) >= e2 /\ Layout(header_size, s) <= e2 + 7
  <2>1. RoundUp(e2, a) \in Nat /\ RoundUp(e2, a) >= e2 /\ RoundUp(e2, a) <= e2 + 7
    <3>1. e2 \in Nat /\ a \in {1, 2, 4, 8}
      BY <1>2, <1>6
    <3> QED
      BY ONLY <3>1, RoundUpBounds
  <2> QED
    BY <1>3, <2>1
<1>8. Fits(s)
  BY <1>1, <1>4, <1>5, <1>6, <1>7, Limits DEF Fits
<1> QED
  BY <1>8 DEF s

LEMMA FitsThree ==
    ASSUME NEW m1, NEW m2, NEW m3, Plain(m1), Plain(m2), Plain(m3), m1[1] + m2[1] + m3[1] <= 65000
    PROVE  Fits(<<m1, m2, m3>>)
<1> DEFINE e1 == RoundUp(header_size, m1[2]) + m1[1]
           e2 == RoundUp(e1, m2[2]) + m2[1]
           e3 == RoundUp(e2, m3[2]) + m3[1]
           b == IF m1[2] >= m2[2] THEN m1[2] ELSE m2[2]
           a == IF b >= m3[2] THEN b ELSE m3[2]
           s == <<m1, m2, m3>>
<1>1. m1[1] \in Nat /\ m1[2] \in {1, 4, 8} /\ m1 \in MemberTypes
      /\ m2[1] \in Nat /\ m2[2] \in {1, 4, 8} /\ m2 \in MemberTypes
      /\ m3[1] \in Nat /\ m3[2] \in {1, 4, 8} /\ m3 \in MemberTypes
  BY DEF Plain
<1>2. a \in {1, 4, 8} /\ m1[2] <= a /\ m2[2] <= a /\ m3[2] <= a /\ a \in {1, m1[2], m2[2], m3[2]}
  BY <1>1
<1> HIDE DEF a
<1>3. Layout(header_size, s) = RoundUp(e3, a)
  BY <1>1, <1>2, LayoutOfThree, HeaderNat
<1>4. s[1] = m1
  OBVIOUS
<1> HIDE DEF s
<1>5. e1 \in Nat /\ e1 >= header_size + m1[1] /\ e1 <= header_size + 7 + m1[1]
  BY EndBounds, HeaderNat
<1> HIDE DEF e1
<1>6. e2 \in Nat /\ e2 >= e1 + m2[1] /\ e2 <= e1 + 7 + m2[1]
  BY <1>5, EndBounds
<1> HIDE DEF e2
<1>7. e3 \in Nat /\ e3 >= e2 + m3[1] /\ e3 <= e2 + 7 + m3[1]
  BY <1>6, EndBounds
<1> HIDE DEF e3
<1>8. Layout(header_size, s) \in Nat /\ Layout(header_size, s) >= e3 /\ Layout(header_size, s) <= e3 + 7
  <2>1. RoundUp(e3, a) \in Nat /\ RoundUp(e3, a) >= e3 /\ RoundUp(e3, a) <= e3 + 7
    <3>1. e3 \in Nat /\ a \in {1, 2, 4, 8}
      BY <1>2, <1>7
    <3> QED
      BY ONLY <3>1, RoundUpBounds
  <2> QED
    BY <1>3, <2>1
<1>9. Fits(s)
  BY <1>1, <1>4, <1>5, <1>6, <1>7, <1>8, Limits DEF Fits
<1> QED
  BY <1>9 DEF s

(* Every packet fits: the largest block and the largest transactions leave *)
(* room for the header and for the other members beside them.              *)
LEMMA PacketFits ==
    ASSUME NEW name \in Names
    PROVE  Fits(Members(name))
<1> DEFINE Tx == Bytes(MaxTransactionsSize + 1)
           Blk == Bytes(MaxBlockSize + 1)
           Adr == Bytes(36)
<1>1. Plain(Word) /\ Word[1] = 8
  BY DEF Plain, MemberTypes, Word
<1>2. Plain(Word32) /\ Word32[1] = 4
  BY DEF Plain, MemberTypes, Word32
<1>3. Plain(Secret) /\ Secret[1] = 97
  BY DEF Plain, MemberTypes, Secret, Bytes
<1>4. Plain(Adr) /\ Adr[1] = 36
  BY DEF Plain, MemberTypes, Bytes
<1>5. /\ MaxBlockSize \in Nat /\ MaxBlockSize <= 63488
       /\ MaxTransactionsSize \in Nat /\ MaxTransactionsSize <= 61440
  BY SizesAssumption
<1>6. Plain(Blk) /\ Blk[1] \in Nat /\ Blk[1] <= 63489
  BY <1>5 DEF Plain, MemberTypes, Bytes
<1>7. Plain(Tx) /\ Tx[1] \in Nat /\ Tx[1] <= 61441
  BY <1>5 DEF Plain, MemberTypes, Bytes
<1>8. Plain(BlockHeader) /\ BlockHeader[1] = 288
  BY BlockHeaderSize DEF Plain, MemberTypes
<1>9. Plain(Peer) /\ Peer[1] = 48
  BY PeerSize DEF Plain, MemberTypes
<1> HIDE DEF Tx, Blk, Adr
<1>10. Fits(<<Word>>) /\ Fits(<<Adr>>) /\ Fits(<<Word32>>) /\ Fits(<<BlockHeader>>) /\ Fits(<<Blk>>)
  BY <1>1, <1>2, <1>4, <1>6, <1>8, FitsOne
<1>11. Fits(<<Word, Word>>) /\ Fits(<<Adr, Word>>) /\ Fits(<<Word, Tx>>)
       /\ Fits(<<Word32, Blk>>) /\ Fits(<<Blk, Secret>>)
  BY <1>1, <1>2, <1>3, <1>4, <1>6, <1>7, FitsTwo
<1>12. Fits(<<BlockHeader, Secret, Secret>>) /\ Fits(<<Peer, Secret, Word32>>)
  BY <1>2, <1>3, <1>8, <1>9, FitsThree
<1>13. CASE name \in (CommonNames \ {"transactions_notify"}) \cup {"time_req", "time_ack"}
  <2>1. Members(name) = CommonMembers(name)
    BY <1>13, NamesAre DEF Members, CommonNames, UserNames
  <2> QED
    BY <1>10, <1>11, <1>12, <1>13, <2>1 DEF CommonMembers, CommonNames, Adr
<1>14. CASE name \in UserNames \cup {"transactions_notify", "peer_id"}
  <2>1. Members(name) = BlockMembers(name)
    BY <1>14, NamesAre DEF Members
  <2> QED
    BY <1>10, <1>11, <1>12, <1>14, <2>1 DEF BlockMembers, UserNames, Blk, Tx
<1>15. name \in CommonNames \/ name \in SystemNames \/ name \in UserNames
  BY NamesAre
<1> QED
  BY <1>13, <1>14, <1>15 DEF CommonNames, SystemNames

(* So the receiver's valid() accepts the header that _ctor writes.         *)
LEMMA CtorRecognised ==
    ASSUME NEW name \in Names
    PROVE  /\ valid_header(ctor(name))
           /\ payload_size(ctor(name)) >= Members(name)[1][1]
           /\ ctor(name).msgid < 2 ^ 16
<1>1. Fits(Members(name))
  BY PacketFits
<1>2. message_id(name) < 65536
  BY IdsDiffer
<1>3. 2 ^ 16 = 65536
  OBVIOUS
<1>4. ctor(name).size = Layout(header_size, Members(name)) /\ ctor(name).signature = "BRC"
      /\ ctor(name).msgid = message_id(name)
  BY DEF ctor
<1> QED
  BY <1>1, <1>2, <1>3, <1>4, Limits DEF Fits, valid_header, payload_size

(* copy_string into a zeroed array, read as a C string: the source when it *)
(* leaves room for the terminator, and past the array when it does not.    *)
LEMMA ReadBack ==
    ASSUME NEW length \in Nat, NEW C, NUL \notin C, NEW source \in Seq(C)
    PROVE  /\ Len(copy_string(length, source)) = length
           /\ c_string(copy_string(length, source)) = IF Len(source) < length THEN source ELSE PastEnd
<1> DEFINE n == Len(source)
           array == copy_string(length, source)
<1>1. n \in Nat /\ \A k \in 1 .. n : source[k] # NUL
  OBVIOUS
<1>2. DOMAIN array = 1 .. length
      /\ \A k \in 1 .. length : array[k] = IF k <= n THEN source[k] ELSE NUL
  BY DEF copy_string
<1>3. array \in Seq(C \cup {NUL}) /\ Len(array) = length
  BY DEF copy_string
<1> HIDE DEF array
<1>4. CASE n >= length
  <2>1. \A k \in DOMAIN array : array[k] # NUL
    BY <1>1, <1>2, <1>4
  <2> QED
    BY <1>1, <1>3, <1>4, <2>1 DEF c_string, array
<1>5. CASE n < length
  <2> DEFINE First(k) == array[k] = NUL /\ \A j \in 1 .. k - 1 : array[j] # NUL
  <2>1. n + 1 \in DOMAIN array /\ First(n + 1)
    BY <1>1, <1>2, <1>5
  <2>2. \A k \in DOMAIN array : First(k) => k = n + 1
    BY <1>1, <1>2, <2>1
  <2>3. (CHOOSE k \in DOMAIN array : First(k)) = n + 1
    <3> HIDE DEF First
    <3> QED
      BY <2>1, <2>2
  <2>4. c_string(array) = SubSeq(array, 1, n)
    BY <2>1, <2>3, <1>1 DEF c_string
  <2>5. SubSeq(array, 1, n) = source
    <3>1. Len(SubSeq(array, 1, n)) = n /\ SubSeq(array, 1, n) \in Seq(C \cup {NUL})
      BY <1>1, <1>3, <1>5, SubSeqProperties
    <3>2. \A k \in 1 .. n : SubSeq(array, 1, n)[k] = source[k]
      BY <1>1, <1>2, <1>3, <1>5, SubSeqProperties
    <3>3. source \in Seq(C \cup {NUL})
      OBVIOUS
    <3> QED
      BY <3>1, <3>2, <3>3, SeqEqual
  <2> QED
    BY <1>3, <1>5, <2>4, <2>5 DEF array
<1> QED
  BY <1>1, <1>4, <1>5

-----------------------------------------------------------------------------

(* The packet, the array and the address that AddressReadBack is about.    *)
PacketInv == packet \in Names /\ room \in Nat /\ address \in Seq({"a", "b"})

ProgramsInv == AppInv /\ ClientInv /\ UdpInv /\ PacketInv

LEMMA ProgramsStep ==
    ASSUME ProgramsInv, [Next]_vars
    PROVE  ProgramsInv'
<1>1. ASSUME UNCHANGED appVars PROVE AppInv'
  BY <1>1 DEF ProgramsInv, AppInv, Accepted, appVars
<1>2. ASSUME UNCHANGED clientVars PROVE ClientInv'
  BY <1>2 DEF ProgramsInv, ClientInv, ClientTypes, InVector, Unstarted, AllStarted,
              StoppedSoFar, clientVars
<1>3. ASSUME UNCHANGED udpVars PROVE UdpInv'
  BY <1>3 DEF ProgramsInv, UdpInv, KeepsListening, udpVars
<1>4. ASSUME UNCHANGED packetVars PROVE PacketInv'
  BY <1>4 DEF ProgramsInv, PacketInv, packetVars
<1>5. CASE AppMoves(AppNext)
  BY <1>2, <1>3, <1>4, <1>5, AppStepInv DEF AppMoves, ProgramsInv
<1>6. CASE ClientMoves(ClientNext)
  BY <1>1, <1>3, <1>4, <1>6, ClientStepInv DEF ClientMoves, ProgramsInv
<1>7. CASE UdpMoves(UdpNext)
  BY <1>1, <1>2, <1>4, <1>7, UdpStepInv DEF UdpMoves, ProgramsInv
<1>8. CASE PacketNext /\ UNCHANGED <<appVars, clientVars, udpVars>>
  <2>1. PacketInv'
    BY <1>8 DEF PacketNext, ProgramsInv, PacketInv
  <2> QED
    BY <1>1, <1>2, <1>3, <1>8, <2>1 DEF ProgramsInv
<1>9. CASE UNCHANGED <<appVars, clientVars, udpVars, packetVars>>
  BY <1>1, <1>2, <1>3, <1>4, <1>9 DEF ProgramsInv
<1> QED
  BY <1>5, <1>6, <1>7, <1>8, <1>9 DEF Next, vars

(* The invariants of the programs and of the client, together.             *)
THEOREM ProgramsInvariance == Spec => []ProgramsInv
<1>1. Init => PacketInv
  <2> SUFFICES ASSUME Init PROVE PacketInv
    OBVIOUS
  <2>1. packet \in When("packet", Names, "ping") /\ room \in When("packet", ArrayLengths, 1) /\ address = <<>>
    BY DEF Init, PacketInit
  <2>2. "ping" \in Names
    BY NamesAre DEF CommonNames
  <2> QED
    BY <2>1, <2>2, LengthsAssumption DEF When, PacketInv
<1>2. Init => ProgramsInv
  BY <1>1, AppInitInv, ClientInitInv, UdpInitInv DEF ProgramsInv
<1> QED
  BY <1>2, ProgramsStep, PTL DEF Spec

(* Whatever the command line, the signals and the exceptions: main() of a  *)
(* server program runs its server only behind accepted options and stops   *)
(* it before it ends, and main() of the emulator stops exactly the clients *)
(* it started, for any number of them, and leaves no worker behind.        *)
THEOREM OrderlyCorrect == Spec => []OrderlyPrograms
<1>1. ProgramsInv => OrderlyPrograms
  <2> SUFFICES ASSUME ProgramsInv PROVE OrderlyPrograms
    OBVIOUS
  <2>1. OrderlyLife
    BY DEF ProgramsInv, AppInv, Accepted, OrderlyLife
  <2>2. CleanEnd
    BY DEF ProgramsInv, ClientInv, ClientTypes, InVector, CleanEnd
  <2>3. OnlyStarted
    BY DEF ProgramsInv, ClientInv, ClientTypes, InVector, OnlyStarted
  <2> QED
    BY <2>1, <2>2, <2>3 DEF OrderlyPrograms
<1> QED
  BY <1>1, ProgramsInvariance, PTL

(* Whatever the network loses, repeats, reorders or carries of others, and *)
(* for every size of the buffer: _on_receive_from hands up whole messages  *)
(* that were sent, and the client has a receive outstanding until it is    *)
(* stopped.                                                                *)
THEOREM FaithfulCorrect == Spec => []FaithfulClient
<1>1. ProgramsInv => FaithfulClient
  BY DEF ProgramsInv, UdpInv, DeliveredWasSent, FaithfulClient
<1> QED
  BY <1>1, ProgramsInvariance, PTL

(* For any sizes of blocks and transactions up to the code's, any array    *)
(* and any address: the packet that a program builds is one that valid()   *)
(* of its receiver accepts, under an id of its own, and the address in it  *)
(* is read back, or past its array when it leaves no room for the NUL.     *)
THEOREM PacketsCorrect == Spec => []PacketsReadable
<1>1. ProgramsInv => PacketsReadable
  <2> SUFFICES ASSUME ProgramsInv PROVE PacketsReadable
    OBVIOUS
  <2>1. packet \in Names /\ room \in Nat /\ address \in Seq({"a", "b"})
    BY DEF ProgramsInv, PacketInv
  <2>2. PacketsAreRecognised
    BY <2>1, CtorRecognised, IdsDiffer DEF PacketsAreRecognised
  <2>3. AddressReadBack
    <3>1. NUL \notin {"a", "b"}
      BY DEF NUL
    <3> QED
      BY <2>1, <3>1, ReadBack DEF AddressReadBack
  <2> QED
    BY <2>2, <2>3 DEF PacketsReadable
<1> QED
  BY <1>1, ProgramsInvariance, PTL

(* After udp_client_stop has returned true no handler runs: the worker has *)
(* returned, and nothing lets it run again.                                *)
THEOREM QuietCorrect == Spec => QuietAfterStop
<1> DEFINE Quiet == iosStopped /\ caller = "idle" /\ joined =>
                       delivered' = delivered /\ udpWorker # "running"
<1>1. ProgramsInv /\ [Next]_vars => [Quiet]_udpVars
  <2> SUFFICES ASSUME ProgramsInv, [Next]_vars, joined, udpVars' # udpVars
               PROVE  delivered' = delivered /\ udpWorker # "running"
    OBVIOUS
  <2>1. udpWorker = "returned"
    BY DEF ProgramsInv, UdpInv
  <2>2. UdpNext
    BY DEF Next, AppMoves, ClientMoves, UdpMoves, vars
  <2>3. delivered' = delivered
    BY <2>1, <2>2 DEF UdpNext, Receiving, Start, Stop, UdpJoin, udp_sendto, OnReceiveFrom,
                      OnReceiveError, UdpRunBegins, UdpRunReturns, Lose
  <2> QED
    BY <2>1, <2>3
<1> QED
  BY <1>1, ProgramsInvariance, PTL DEF Spec, QuietAfterStop
=============================================================================
