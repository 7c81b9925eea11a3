------------------------------ MODULE AppShell ------------------------------
(***************************************************************************)
(* The main programs of the three servers (apps/node-server-app,           *)
(* apps/game-server-app, apps/bridge-server-app).  Each one registers its  *)
(* signal handler, reads the command line, and, when it may go on, runs a  *)
(* server object in a loop until the handler clears an atomic flag.        *)
(*                                                                         *)
(* The server objects live in the application libraries, whose sources are *)
(* not in the repository: an object is only whether it exists and runs,    *)
(* and each call into it may return or throw.                              *)
(***************************************************************************)
EXTENDS Integers

CONSTANTS
    Apps,           \* the programs run: a subset of {"node", "game", "bridge"}
    MaxUpdates      \* bound: rounds of the loop that are told apart

ASSUME AppsAssumption == Apps \subseteq {"node", "game", "bridge"}
ASSUME MaxUpdatesAssumption == MaxUpdates \in Nat \ {0}

VARIABLES
    app,            \* which program this is
    args,           \* its command line and configuration file
    appPc,             \* where main() is
    handler,        \* "default" until register_signal, then "sig_handler"
    appKeepGoing,      \* _keepGoing
    appResult,         \* what app_process_options returned
    shown,          \* what was printed on standard output
    server,         \* the server object: "none", "idle", "running", "deleted"
    updates         \* rounds of the loop, up to MaxUpdates

appVars == <<app, args, appPc, handler, appKeepGoing, appResult, shown, server, updates>>

(***************************************************************************)
(* A command line: unreadable or not, its node id, whether help or version *)
(* is asked for; and what loadConfig will do.                              *)
(***************************************************************************)
Args ==
    [readable : BOOLEAN, id : {"missing", "negative", "valid", "too_large"},
     help : BOOLEAN, version : BOOLEAN,
     config : {"loads", "fails", "throws", "throws_other"}]

AppEnded == appPc \in {"terminated", "killed", "aborted"}

(***************************************************************************)
(* process_options.  parse_command_line throws on an unreadable command    *)
(* line and notify on a missing required option, both before the options   *)
(* that were given are looked at.                                          *)
(***************************************************************************)
Loaded(a, failure) ==
    CASE a.config = "loads"        -> 0
      [] a.config = "fails"        -> failure
      [] a.config = "throws"       -> -100
      [] a.config = "throws_other" -> -101

process_options_node(a) ==
    CASE ~a.readable \/ a.id = "missing"    -> -100
      [] a.help \/ a.version                -> -1
      [] a.id \in {"negative", "too_large"} -> -2
      [] OTHER                              -> Loaded(a, -3)

process_options_game(a) ==
    CASE ~a.readable \/ a.id = "missing" -> -100
      [] a.help \/ a.version             -> -1
      [] OTHER                           -> Loaded(a, -2)

process_options_bridge(a) ==
    CASE ~a.readable \/ a.id = "missing" -> -100
      [] a.help \/ a.version             -> -1
      [] OTHER                           -> Loaded(a, -2)

app_process_options(p, a) ==
    CASE p = "node"   -> process_options_node(a)
      [] p = "game"   -> process_options_game(a)
      [] p = "bridge" -> process_options_bridge(a)

\* The constructors go on to _main on r >= 0, the game server's on r = 0.
GoesOn(p, r) == IF p = "game" THEN 0 = r ELSE r >= 0

-----------------------------------------------------------------------------

(* A program of `programs` with a command line of `lines`.                 *)
AppInit(programs, lines) ==
    /\ app \in programs
    /\ args \in lines
    /\ appPc = "constructed"
    /\ handler = "default"
    /\ appKeepGoing = TRUE
    /\ appResult = 0
    /\ shown = "nothing"
    /\ server = IF app = "node" THEN "idle" ELSE "none"
    /\ updates = 0

(* The constructor: _app and the flag are set before the handler is.       *)
RegisterSignal ==
    /\ appPc = "constructed"
    /\ handler' = "sig_handler"
    /\ appPc' = "options"
    /\ UNCHANGED <<app, args, appKeepGoing, appResult, shown, server, updates>>

AppProcessOptions ==
    /\ appPc = "options"
    /\ appResult' = app_process_options(app, args)
    /\ shown' = CASE appResult' = -1 /\ args.help  -> "help"
                  [] appResult' = -1 /\ ~args.help -> "version"
                  [] appResult' \in {-2, -3}       -> "refusal"
                  [] appResult' \in {-100, -101}   -> "error"
                  [] OTHER                      -> shown
    /\ appPc' = IF GoesOn(app, appResult') THEN "start" ELSE "terminated"
    /\ UNCHANGED <<app, args, handler, appKeepGoing, server, updates>>

(* _main up to the loop: the node server is a member, the others are       *)
(* allocated here.  Nothing catches what start_server throws.              *)
StartNode ==
    /\ appPc = "start" /\ app = "node"
    /\ \/ server' = "running" /\ appPc' = "loop"
       \/ server' = server /\ appPc' = "aborted"
    /\ UNCHANGED <<app, args, handler, appKeepGoing, appResult, shown, updates>>

StartGame ==
    /\ appPc = "start" /\ app = "game"
    /\ \/ server' = "running" /\ appPc' = "loop"
       \/ server' \in {"none", "idle"} /\ appPc' = "aborted"
    /\ UNCHANGED <<app, args, handler, appKeepGoing, appResult, shown, updates>>

StartBridge ==
    /\ appPc = "start" /\ app = "bridge"
    /\ \/ server' = "running" /\ appPc' = "loop"
       \/ server' \in {"none", "idle"} /\ appPc' = "aborted"
    /\ UNCHANGED <<app, args, handler, appKeepGoing, appResult, shown, updates>>

(* while( keepGoing() ): the test and the round are two steps; a signal    *)
(* between them costs one more round.                                      *)
AppLoop ==
    /\ appPc = "loop"
    /\ appPc' = IF appKeepGoing THEN "update" ELSE "stop"
    /\ UNCHANGED <<app, args, handler, appKeepGoing, appResult, shown, server, updates>>

Update ==
    /\ appPc = "update"
    /\ \/ /\ updates' = IF updates < MaxUpdates THEN updates + 1 ELSE updates
          /\ appPc' = "loop"
       \/ appPc' = "aborted" /\ UNCHANGED updates
    /\ UNCHANGED <<app, args, handler, appKeepGoing, appResult, shown, server>>

StopNode ==
    /\ appPc = "stop" /\ app = "node"
    /\ \/ server' = "idle" /\ appPc' = "terminated"
       \/ appPc' = "aborted" /\ UNCHANGED server
    /\ UNCHANGED <<app, args, handler, appKeepGoing, appResult, shown, updates>>

StopGame ==
    /\ appPc = "stop" /\ app = "game"
    /\ \/ server' = "deleted" /\ appPc' = "terminated"
       \/ appPc' = "aborted" /\ UNCHANGED server
    /\ UNCHANGED <<app, args, handler, appKeepGoing, appResult, shown, updates>>

StopBridge ==
    /\ appPc = "stop" /\ app = "bridge"
    /\ \/ server' = "deleted" /\ appPc' = "terminated"
       \/ appPc' = "aborted" /\ UNCHANGED server
    /\ UNCHANGED <<app, args, handler, appKeepGoing, appResult, shown, updates>>

(* sig_handler and on_signal, which run between any two steps of main().   *)
AppInterrupt ==
    /\ ~AppEnded
    /\ handler = "sig_handler"
    /\ appKeepGoing' = FALSE
    /\ UNCHANGED <<app, args, appPc, handler, appResult, shown, server, updates>>

(* An interrupt before the handler is registered ends the process, and so  *)
(* does SIGKILL at any time: its registration has no effect.               *)
AppKill ==
    /\ ~AppEnded
    /\ appPc' = "killed"
    /\ UNCHANGED <<app, args, handler, appKeepGoing, appResult, shown, server, updates>>

AppStep ==
    \/ RegisterSignal \/ AppProcessOptions
    \/ StartNode \/ StartGame \/ StartBridge
    \/ AppLoop \/ Update
    \/ StopNode \/ StopGame \/ StopBridge

AppNext == AppStep \/ AppInterrupt \/ AppKill

-----------------------------------------------------------------------------

(* Terminated after a proper end of main() means the server was stopped    *)
(* (_main stops what it started), and a server only ever ran with a        *)
(* configuration loaded and, in the node server, an id within its limit.   *)
OrderlyLife ==
    /\ appPc = "terminated" => server # "running"
    /\ server = "running" =>
          /\ args.config = "loads"
          /\ args.id # "missing"
          /\ app = "node" => args.id = "valid"

(* on_signal: once the flag is cleared the program comes to an end, also   *)
(* when the signal came before the server was started.                     *)
AppSignalEnds == ~appKeepGoing ~> AppEnded
=============================================================================
