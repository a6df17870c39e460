------------------------------- MODULE Startup -------------------------------
(***************************************************************************)
(* main() of vtb.cpp in every vtb process of a host: the command line, the *)
(* controllers it makes, their sockets, and the way out.  Processes are    *)
(* started, told to stop, killed and started again in any order.           *)
(*                                                                         *)
(* A stage is what main does next.  What a process does with its devices   *)
(* is left to Loopback; here it writes notifications, and what is asked is *)
(* who reads them.  SIGPIPE has its default action, which the program      *)
(* does not change.                                                        *)
(***************************************************************************)
EXTENDS CmdlineParser, Rendezvous

CONSTANT
  CommandLines    \* the command lines each process may be started with

ASSUME CommandLinesAssumption == CommandLines \in [Procs -> SUBSET Seq(STRING)]

VARIABLES
  stage,
  argv,
  config,     \* the arguments that main and the controllers ask for
  heard,      \* whose records a port controller has processed
  driver,     \* whether the vhost library serves the process's -vsn path
  files       \* -vsn paths that exist in the file system

mainVars == <<stage, argv, config, driver, files>>
vars == <<mainVars, heard, hostVars>>

Stages == {"parse", "create", "server", "monitor", "backend", "eal", "driver",
           "up", "reset", "cleanup"}

(* How a process is when it is not running: left by a return or an exit(), *)
(* ended by SIGPIPE, or killed.                                            *)
Ended == {"off", "piped", "killed"}

Defaults == [mode |-> get(arguments_, "-m"), absn |-> get(arguments_, "-absn"),
             vsn |-> get(arguments_, "-vsn")]

Init ==
  /\ HostInit
  /\ stage = [p \in Procs |-> "off"]
  /\ argv = [p \in Procs |-> <<>>]
  /\ config = [p \in Procs |-> Defaults]
  /\ heard = [p \in Procs |-> {}]
  /\ driver = [p \in Procs |-> FALSE]
  /\ files = {}

(* Every variable holds a value of its kind; and a port controller is      *)
(* bound to the name of zeros or to none, never to the name of -absn.      *)
TypeOK ==
  /\ HostTypeOK
  /\ stage \in [Procs -> Stages \cup Ended]
  /\ argv \in [Procs -> Seq(STRING)]
  /\ DOMAIN config = Procs
  /\ heard \in [Procs -> SUBSET Procs]
  /\ driver \in [Procs -> BOOLEAN]

-----------------------------------------------------------------------------
Goes(p, s) == stage' = [stage EXCEPT ![p] = s]

(* The process is gone.  Nothing but the library's clean-up removes the    *)
(* file of its -vsn path.                                                  *)
Ends(p, how) ==
  /\ Goes(p, how)
  /\ argv' = [argv EXCEPT ![p] = <<>>]
  /\ config' = [config EXCEPT ![p] = Defaults]
  /\ heard' = [heard EXCEPT ![p] = {}]
  /\ driver' = [driver EXCEPT ![p] = FALSE]
  /\ HostForgets(p)

Start(p) ==
  /\ stage[p] \in Ended
  /\ Goes(p, "parse")
  /\ \E line \in CommandLines[p] : argv' = [argv EXCEPT ![p] = line]
  /\ UNCHANGED <<config, heard, driver, files, hostVars>>

(* config.init(): on a wrong command line, or --help, main returns -1.     *)
Parse(p) ==
  /\ stage[p] = "parse"
  /\ LET parsed == init(argv[p]) IN
     \/ /\ parsed.ok
        /\ Goes(p, "create")
        /\ config' = [config EXCEPT ![p] =
                        [mode |-> get(parsed.args, "-m"),
                         absn |-> get(parsed.args, "-absn"),
                         vsn |-> get(parsed.args, "-vsn")]]
        /\ argv' = [argv EXCEPT ![p] = <<>>]
        /\ UNCHANGED <<heard, driver, files, hostVars>>
     \/ ~parsed.ok /\ Ends(p, "off") /\ UNCHANGED files

(* create_controller() makes nothing for an unknown mode, and main calls   *)
(* what it made.                                                           *)
CreateController(p) ==
  /\ stage[p] = "create"
  /\ \/ /\ config[p].mode \in {"Loopback", "Back2Back", "Emulator"}
        /\ Goes(p, "server")
        /\ UNCHANGED <<argv, config, heard, driver, files, hostVars>>
     \/ /\ config[p].mode \notin {"Loopback", "Back2Back", "Emulator"}
        /\ Ends(p, "killed") /\ UNCHANGED files

(* port_controller->start(), first half: create_server().                  *)
CreateServer(p) ==
  /\ stage[p] = "server"
  /\ Goes(p, "monitor")
  /\ IF config[p].mode = "Loopback"
       THEN create_server_socket(p, config[p].absn) ELSE UNCHANGED server
  /\ UNCHANGED <<argv, config, heard, driver, files, listening, link, inbox>>

(* Second half: monitor_and_dispatch_handler().                            *)
Monitor(p) ==
  /\ stage[p] = "monitor"
  /\ Goes(p, "backend")
  /\ IF config[p].mode = "Loopback" THEN Listen(p) ELSE UNCHANGED listening
  /\ UNCHANGED <<argv, config, heard, driver, files, server, link, inbox>>

(* The constructor of the vhost controller.                                *)
MakeBackend(p) ==
  /\ stage[p] = "backend"
  /\ Goes(p, "eal")
  /\ IF config[p].mode \in {"Loopback", "Back2Back"}
       THEN create_client_socket(p, config[p].absn) ELSE UNCHANGED link
  /\ UNCHANGED <<argv, config, heard, driver, files, server, listening, inbox>>

(* backend.init().  What it throws nobody catches: the terminate handler   *)
(* calls exit(1), and no destructor of main's objects runs.                *)
InitEal(p) ==
  /\ stage[p] = "eal"
  /\ \/ /\ Goes(p, "driver")
        /\ UNCHANGED <<argv, config, heard, driver, files, hostVars>>
     \/ Ends(p, "off") /\ UNCHANGED files

(* backend.start().  The library makes the file of the socket, and refuses *)
(* to when there is one, whoever left it.                                  *)
StartDriver(p) ==
  /\ stage[p] = "driver"
  /\ \/ /\ config[p].vsn \notin files
        /\ Goes(p, "up")
        /\ driver' = [driver EXCEPT ![p] = TRUE]
        /\ files' = files \cup {config[p].vsn}
        /\ UNCHANGED <<argv, config, heard, hostVars>>
     \/ Ends(p, "off") /\ UNCHANGED files

(* notify_port_controller(), in a callback of the library.                 *)
Notify(p) ==
  \/ /\ config[p].mode \in {"Loopback", "Back2Back"}
     /\ send_packet(p)
     /\ UNCHANGED <<mainVars, heard, server, listening, link>>
  \/ /\ config[p].mode \in {"Loopback", "Back2Back"}
     /\ Killed(p)
     /\ Ends(p, "piped") /\ UNCHANGED files

Callback(p) == stage[p] = "up" /\ Notify(p)

(* The signal: main goes on from rte_eal_mp_wait_lcore().                  *)
Interrupt(p) ==
  /\ stage[p] = "up"
  /\ Goes(p, "reset")
  /\ UNCHANGED <<argv, config, heard, driver, files, hostVars>>

(* port_controller.reset(): the socket is closed, and the epoll thread is  *)
(* not heard of any more.                                                  *)
ResetController(p) ==
  /\ stage[p] = "reset"
  /\ Goes(p, "cleanup")
  /\ CloseServer(p)
  /\ UNCHANGED <<argv, config, heard, driver, files>>

(* The driver is unregistered.  A device that still runs is retired in     *)
(* main's thread, which may be one notification more.                      *)
Retire(p) == stage[p] = "cleanup" /\ Notify(p)

(* Mutant: the destructor forgets the driver. *)
Return_registered(p) ==
  /\ stage[p] = "cleanup"
  /\ UNCHANGED files
  /\ Ends(p, "off")

Return(p) ==
  /\ stage[p] = "cleanup"
  /\ files' = files \ {config[p].vsn}
  /\ Ends(p, "off")

Crash(p) ==
  /\ stage[p] \notin Ended
  /\ Ends(p, "killed")
  /\ UNCHANGED files

Main(p) ==
  \/ Parse(p) \/ CreateController(p) \/ CreateServer(p) \/ Monitor(p)
  \/ MakeBackend(p) \/ InitEal(p) \/ StartDriver(p)
  \/ ResetController(p) \/ Return(p)

(* The epoll thread of q, on the connection of p. *)
Take(q, p) == Accept(q, p) /\ UNCHANGED <<mainVars, heard, server, listening, inbox>>

(* Mutant: what is written while a record is processed is not seen. *)
Read_edge(q, p) ==
  /\ listening[q]
  /\ p \in inbox[q] /\ p \notin heard[q]
  /\ link[p] # [state |-> "waiting", to |-> q]
  /\ inbox' = [inbox EXCEPT ![q] = @ \ {p}]
  /\ heard' = [heard EXCEPT ![q] = @ \cup {p}]
  /\ UNCHANGED <<mainVars, server, listening, link>>

(* Mutant: a connection is good for one record. *)
Read_closes(q, p) ==
  /\ listening[q]
  /\ p \in inbox[q]
  /\ inbox' = [inbox EXCEPT ![q] = @ \ {p}]
  /\ heard' = [heard EXCEPT ![q] = @ \cup {p}]
  /\ link' = [link EXCEPT ![p].state = "reset"]
  /\ UNCHANGED <<mainVars, server, listening>>

Read(q, p) ==
  /\ listening[q]
  /\ p \in inbox[q]
  /\ link[p] # [state |-> "waiting", to |-> q]
  /\ inbox' = [inbox EXCEPT ![q] = @ \ {p}]
  /\ heard' = [heard EXCEPT ![q] = @ \cup {p}]
  /\ UNCHANGED <<mainVars, server, listening, link>>

EpollWorker(q, p) == Take(q, p) \/ Read(q, p)

Next ==
  \E p \in Procs :
    \/ Start(p) \/ Main(p) \/ Callback(p) \/ Interrupt(p) \/ Retire(p) \/ Crash(p)
    \/ \E q \in Procs : EpollWorker(q, p)

(* The epoll thread runs.  It is all that the liveness asked for needs;    *)
(* nobody is bound to start a process or to stop one.                      *)
Spec ==
  /\ Init /\ [][Next]_vars
  /\ \A p, q \in Procs : WF_vars(EpollWorker(q, p))

-----------------------------------------------------------------------------
(* The stages between the client's creation and the end of the server. *)
Joined(p) == stage[p] \in {"eal", "driver", "up", "reset"}

(* Whatever other processes do with the one name they all share, and in    *)
(* whatever order they start and die: a process that got the name is the   *)
(* one its own vhost controller is connected to.                           *)
HolderMeetsItself ==
  \A p \in Procs :
    Joined(p) /\ server[p] # NoAddress =>
      link[p].to = p /\ link[p].state \in {"waiting", "open"}

(* As long as it is up, such a process reads what it writes.               *)
HolderIsHeard ==
  \A p \in Procs :
    stage[p] = "up" /\ server[p] # NoAddress /\ p \in inbox[p]
      ~> p \notin inbox[p] \/ stage[p] # "up"

(* SIGPIPE ends a process that is up only through the end of another one:  *)
(* the one it is connected to.                                             *)
PipeFromOthers ==
  [][\A p \in Procs :
       stage[p] = "up" /\ stage'[p] = "piped" =>
         link[p].to # p /\ server[p] = NoAddress]_vars

(* Files without a server behind them, which keep a start from succeeding. *)
Stale == {f \in files : \A p \in Procs : driver[p] => config[p].vsn # f}

(* They are left by processes that were killed, by a signal or by SIGPIPE, *)
(* and by no other way out of main.                                        *)
OnlyTheKilledLeaveFiles ==
  [][Stale' \ Stale # {} =>
       \E p \in Procs : stage[p] \notin Ended /\ stage'[p] \in {"killed", "piped"}]_vars

(* Whatever a process is started with, it is understood as promised.       *)
CommandLinesUnderstood ==
  \A p \in Procs : stage[p] = "parse" => ParsesAsPromised(arguments_, argv[p])

(* "Specify a random name. For internal use only": a port controller acts  *)
(* on what its own process's vhost controller reports.                     *)
NotificationsStayHome == \A q \in Procs : heard[q] \subseteq {q}

=============================================================================
