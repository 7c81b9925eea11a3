---------------------------- MODULE ClientShell ----------------------------
(***************************************************************************)
(* The main program of the game client emulator (apps/game-client-app).    *)
(* It starts a number of clients on one io_service, then a worker thread   *)
(* that runs the service, and loops over the clients until a signal; then  *)
(* it stops the service and the clients and joins the worker.              *)
(*                                                                         *)
(* game_client is a class of an application library whose source is not in *)
(* the repository: a client is what main() did with it, and its            *)
(* asynchronous operations are a number of pending handlers.               *)
(***************************************************************************)
EXTENDS Integers, FiniteSets

CONSTANTS
    MaxClients,     \* bound: largest --client-count
    MaxPending      \* bound: handlers outstanding at one time

ASSUME ClientBoundsAssumption == MaxClients \in Nat /\ MaxPending \in Nat \ {0}

VARIABLES
    clientResult,         \* what client_process_options will return
    count,          \* _client_cnt
    clientPc,             \* where main() is
    i,              \* the loop variable of the loop main() is in
    clientKeepGoing,      \* _keepGoing
    clients,        \* numbers of the clients in _clients
    status,         \* per client number, what became of it
    ioStopped,      \* the io_service was told to stop
    pending,        \* handlers the service holds for its clients
    clientWorker          \* "none", "created", "running", "returned"

clientVars == <<clientResult, count, clientPc, i, clientKeepGoing, clients, status, ioStopped, pending, clientWorker>>

Numbers == 0 .. MaxClients - 1
ClientEnded == clientPc \in {"terminated", "killed", "aborted"}

(* What client_process_options may answer, and the count it leaves; the choice    *)
(* stands for the command line and the configuration file.                 *)
client_process_options == {0, -1, -2, -100, -101}

ClientInit(results, counts) ==
    /\ clientResult \in results
    /\ count \in counts
    /\ clientPc = "options"
    /\ i = 0
    /\ clientKeepGoing = TRUE
    /\ clients = {}
    /\ status = [n \in Numbers |-> "none"]
    /\ ioStopped = FALSE
    /\ pending = 0
    /\ clientWorker = "none"

ClientProcessOptions ==
    /\ clientPc = "options"
    /\ clientPc' = IF clientResult >= 0 THEN "create" ELSE "terminated"
    /\ UNCHANGED <<clientResult, count, i, clientKeepGoing, clients, status, ioStopped, pending, clientWorker>>

(* One round of the creating loop.  A client whose constructor or start    *)
(* throws is logged and dropped with its shared pointer; the loop goes on. *)
CreateClient ==
    /\ clientPc = "create" /\ i < count
    /\ i' = i + 1
    /\ \/ /\ clients' = clients \cup {i}
          /\ status' = [status EXCEPT ![i] = "started"]
          /\ pending' = IF pending < MaxPending THEN pending + 1 ELSE pending
       \/ /\ status' = [status EXCEPT ![i] = "discarded"]
          /\ UNCHANGED <<clients, pending>>
    /\ UNCHANGED <<clientResult, count, clientPc, clientKeepGoing, ioStopped, clientWorker>>

(* The worker thread is created when every client has been started, so     *)
(* that run() does not return for want of work before.                     *)
StartWorker ==
    /\ clientPc = "create" /\ i = count
    /\ clientWorker' = "created"
    /\ clientPc' = "loop"
    /\ i' = 0
    /\ UNCHANGED <<clientResult, count, clientKeepGoing, clients, status, ioStopped, pending>>

ClientLoop ==
    /\ clientPc = "loop"
    /\ clientPc' = IF clientKeepGoing THEN "main" ELSE "stop_io"
    /\ UNCHANGED <<clientResult, count, i, clientKeepGoing, clients, status, ioStopped, pending, clientWorker>>

(* for( auto& cli : _clients ) cli->onMain(): a call may start operations, *)
(* or throw, which nothing catches.                                        *)
OnMain ==
    /\ clientPc = "main"
    /\ \/ /\ clientPc' = "loop"
          /\ pending' \in {pending} \cup
                 (IF clients # {} /\ pending < MaxPending THEN {pending + 1} ELSE {})
       \/ clients # {} /\ clientPc' = "aborted" /\ UNCHANGED pending
    /\ UNCHANGED <<clientResult, count, i, clientKeepGoing, clients, status, ioStopped, clientWorker>>

\* Slip: the service is stopped after the worker has been joined.
StopIoLate ==
    /\ clientPc = "stop_io"
    /\ ioStopped' = FALSE
    /\ clientPc' = "stop_clients"
    /\ UNCHANGED <<clientResult, count, i, clientKeepGoing, clients, status, pending, clientWorker>>

StopIo ==
    /\ clientPc = "stop_io"
    /\ ioStopped' = TRUE
    /\ clientPc' = "stop_clients"
    /\ UNCHANGED <<clientResult, count, i, clientKeepGoing, clients, status, pending, clientWorker>>

(* cli->stop() for the clients of the vector, which are in the order they  *)
(* were created in; the worker may still be in a handler of one of them.   *)
StopClient ==
    /\ clientPc = "stop_clients" /\ i < count
    /\ i' = i + 1
    /\ status' = IF i \in clients THEN [status EXCEPT ![i] = "stopped"] ELSE status
    /\ UNCHANGED <<clientResult, count, clientPc, clientKeepGoing, clients, ioStopped, pending, clientWorker>>

\* Slip: the worker is detached instead of joined.
JoinDetached ==
    /\ clientPc = "stop_clients" /\ i = count
    /\ clientPc' = "terminated"
    /\ UNCHANGED <<clientResult, count, i, clientKeepGoing, clients, status, ioStopped, pending, clientWorker>>

ClientJoin ==
    /\ clientPc = "stop_clients" /\ i = count
    /\ clientWorker = "returned"
    /\ clientPc' = "terminated"
    /\ UNCHANGED <<clientResult, count, i, clientKeepGoing, clients, status, ioStopped, pending, clientWorker>>

-----------------------------------------------------------------------------

(* The worker thread (io_service::run): it returns at once when the        *)
(* service was stopped, and when there is nothing left to wait for.        *)
ClientRunBegins ==
    /\ clientWorker = "created" /\ ~ClientEnded
    /\ clientWorker' = IF ioStopped \/ pending = 0 THEN "returned" ELSE "running"
    /\ UNCHANGED <<clientResult, count, clientPc, i, clientKeepGoing, clients, status, ioStopped, pending>>

(* A handler runs, and may start the next operation of its client.         *)
Handler ==
    /\ clientWorker = "running" /\ ~ClientEnded
    /\ ~ioStopped /\ pending > 0
    /\ pending' \in {pending, pending - 1}
    /\ UNCHANGED <<clientResult, count, clientPc, i, clientKeepGoing, clients, status, ioStopped, clientWorker>>

ClientRunReturns ==
    /\ clientWorker = "running" /\ ~ClientEnded
    /\ ioStopped \/ pending = 0
    /\ clientWorker' = "returned"
    /\ UNCHANGED <<clientResult, count, clientPc, i, clientKeepGoing, clients, status, ioStopped, pending>>

(* sig_handler and on_signal, between any two steps.                       *)
ClientInterrupt ==
    /\ ~ClientEnded
    /\ clientKeepGoing' = FALSE
    /\ UNCHANGED <<clientResult, count, clientPc, i, clients, status, ioStopped, pending, clientWorker>>

ClientKill ==
    /\ ~ClientEnded
    /\ clientPc' = "killed"
    /\ UNCHANGED <<clientResult, count, i, clientKeepGoing, clients, status, ioStopped, pending, clientWorker>>

ClientStep ==
    \/ ClientProcessOptions \/ CreateClient \/ StartWorker \/ ClientLoop \/ OnMain
    \/ StopIo \/ StopClient \/ ClientJoin
WorkerStep == ClientRunBegins \/ Handler \/ ClientRunReturns

ClientNext == ClientStep \/ WorkerStep \/ ClientInterrupt \/ ClientKill

-----------------------------------------------------------------------------

(* At a proper end every client that was started has been stopped, every   *)
(* client of the vector had started, and no worker is left running over    *)
(* the clients that main() is about to destroy.                            *)
CleanEnd ==
    clientPc = "terminated" =>
       /\ \A n \in Numbers : status[n] # "started"
       /\ \A n \in clients : status[n] = "stopped"
       /\ clientWorker \in {"none", "returned"}

(* No client is given to the loops unless its start succeeded.             *)
OnlyStarted == \A n \in clients : status[n] \in {"started", "stopped"}

(* A signal ends the emulator: the stop of the service cannot be lost on a *)
(* worker that has not yet entered run(), so that join() always returns.   *)
ClientSignalEnds == ~clientKeepGoing ~> ClientEnded
=============================================================================
