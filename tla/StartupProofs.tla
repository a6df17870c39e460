---------------------------- MODULE StartupProofs ----------------------------
(***************************************************************************)
(* Theorems about Startup: types, that the process that has the one name   *)
(* is the one its own controllers meet at, and that only a kill leaves a   *)
(* file on a -vsn path, for any number of processes, command lines,        *)
(* crashes and restarts.                                                   *)
(***************************************************************************)
EXTENDS MCStartup, CmdlineParserProofs, TLAPS

(* Every socket address the callers make is the zeros, or none. *)
LEMMA AddressIsZeros ==
  ASSUME NEW absn
  PROVE  SocketAddress(sock_path(absn)) \in {NoAddress, Zeros}
BY DEF SocketAddress, sock_path

LEMMA ZerosAreAnAddress == Zeros # NoAddress
BY DEF Zeros, NoAddress

LEMMA LinkChanges ==
  ASSUME NEW l \in Link, NEW s \in {"none", "waiting", "open", "reset"}
  PROVE  [l EXCEPT !.state = s] \in Link
BY DEF Link

-----------------------------------------------------------------------------
(* Types.  The end of a process is the same from every stage.               *)

LEMMA EndsTypeOK ==
  ASSUME TypeOK, NEW p \in Procs, NEW how \in Ended, Ends(p, how)
  PROVE  TypeOK'
<1>1. /\ stage' \in [Procs -> Stages \cup Ended]
      /\ heard' \in [Procs -> SUBSET Procs]
      /\ driver' \in [Procs -> BOOLEAN]
  BY DEF TypeOK, Ends, Goes
<1>2. argv' \in [Procs -> Seq(STRING)]
  <2>1. <<>> \in Seq(STRING)
    OBVIOUS
  <2>2. QED  BY <2>1 DEF TypeOK, Ends
<1>3. DOMAIN config' = Procs
  BY DEF TypeOK, Ends
<1>4. /\ server' \in [Procs -> {NoAddress, Zeros}]
      /\ listening' \in [Procs -> BOOLEAN]
      /\ inbox' \in [Procs -> SUBSET Procs]
  BY DEF TypeOK, HostTypeOK, Ends, HostForgets
<1>5. link' \in [Procs -> Link]
  <2>1. link \in [Procs -> Link]
    BY DEF TypeOK, HostTypeOK
  <2>2. ASSUME NEW q \in Procs
        PROVE  NoLink(q) \in Link /\ [link[q] EXCEPT !.state = "reset"] \in Link
    BY <2>1, <2>2 DEF NoLink, Link
  <2>3. link' = [q \in Procs |->
                   CASE q = p -> NoLink(p)
                     [] q # p /\ Delivered(q) /\ link[q].to = p ->
                          [link[q] EXCEPT !.state = "reset"]
                     [] OTHER -> link[q]]
    BY DEF Ends, HostForgets
  <2>4. QED  BY <2>1, <2>2, <2>3
<1>6. QED  BY <1>1, <1>2, <1>3, <1>4, <1>5 DEF TypeOK, HostTypeOK

LEMMA TypeStep == TypeOK /\ [Next]_vars => TypeOK'
<1> SUFFICES ASSUME TypeOK, [Next]_vars PROVE TypeOK'
  OBVIOUS
<1>0. {"off", "piped", "killed"} \subseteq Ended
  BY DEF Ended
<1> USE DEF TypeOK, HostTypeOK, Goes
<1>1. ASSUME NEW p \in Procs, Start(p) PROVE TypeOK'
  <2>1. PICK line \in CommandLines[p] : argv' = [argv EXCEPT ![p] = line]
    BY <1>1 DEF Start
  <2>2. line \in Seq(STRING)
    BY <2>1, CommandLinesAssumption
  <2>3. argv' \in [Procs -> Seq(STRING)]
    BY <2>1, <2>2
  <2>4. QED  BY <1>1, <2>3 DEF Start, Stages, hostVars
<1>2. ASSUME NEW p \in Procs, Parse(p) PROVE TypeOK'
  <2>1. CASE Ends(p, "off")
    BY <2>1, <1>0, EndsTypeOK
  <2>2. CASE ~Ends(p, "off")
    <3>1. /\ Goes(p, "create")
          /\ DOMAIN config' = DOMAIN config
          /\ argv' = [argv EXCEPT ![p] = <<>>]
          /\ UNCHANGED <<heard, driver, files, hostVars>>
      BY <1>2, <2>2 DEF Parse
    <3>2. argv' \in [Procs -> Seq(STRING)]
      BY <3>1
    <3>3. QED  BY <3>1, <3>2 DEF Stages, hostVars
  <2>3. QED  BY <2>1, <2>2
<1>3. ASSUME NEW p \in Procs, CreateController(p) PROVE TypeOK'
  <2>1. CASE Ends(p, "killed")
    BY <2>1, <1>0, EndsTypeOK
  <2>2. CASE ~Ends(p, "killed")
    BY <1>3, <2>2 DEF CreateController, Stages, hostVars
  <2>3. QED  BY <2>1, <2>2
<1>4. ASSUME NEW p \in Procs, CreateServer(p) PROVE TypeOK'
  <2>1. server' \in [Procs -> {NoAddress, Zeros}]
    <3>1. CASE UNCHANGED server
      BY <3>1
    <3>2. CASE create_server_socket(p, config[p].absn)
      <4> DEFINE a == SocketAddress(sock_path(config[p].absn))
                 got == IF \E q \in Procs : server[q] = a THEN NoAddress ELSE a
      <4>1. server' = [server EXCEPT ![p] = got]
        BY <3>2 DEF create_server_socket
      <4>2. a \in {NoAddress, Zeros}
        BY AddressIsZeros
      <4>3. got \in {NoAddress, Zeros}
        BY <4>2
      <4> HIDE DEF got
      <4>4. QED  BY <4>1, <4>3
    <3>3. QED  BY <1>4, <3>1, <3>2 DEF CreateServer
  <2>2. QED  BY <1>4, <2>1 DEF CreateServer, Stages
<1>5. ASSUME NEW p \in Procs, Monitor(p) PROVE TypeOK'
  BY <1>5 DEF Monitor, Listen, Stages
<1>6. ASSUME NEW p \in Procs, MakeBackend(p) PROVE TypeOK'
  <2>1. ASSUME NEW q \in Procs PROVE [state |-> "waiting", to |-> q] \in Link
    BY DEF Link
  <2>2. link' \in [Procs -> Link]
    BY <1>6, <2>1 DEF MakeBackend, create_client_socket
  <2>3. QED  BY <1>6, <2>2 DEF MakeBackend, Stages
<1>7. ASSUME NEW p \in Procs, InitEal(p) PROVE TypeOK'
  <2>1. CASE Ends(p, "off")
    BY <2>1, <1>0, EndsTypeOK
  <2>2. CASE ~Ends(p, "off")
    BY <1>7, <2>2 DEF InitEal, Stages, hostVars
  <2>3. QED  BY <2>1, <2>2
<1>8. ASSUME NEW p \in Procs, StartDriver(p) PROVE TypeOK'
  <2>1. CASE Ends(p, "off")
    BY <2>1, <1>0, EndsTypeOK
  <2>2. CASE ~Ends(p, "off")
    <3>1. /\ Goes(p, "up")
          /\ driver' = [driver EXCEPT ![p] = TRUE]
          /\ UNCHANGED <<argv, config, heard, hostVars>>
      BY <1>8, <2>2 DEF StartDriver
    <3>2. QED  BY <3>1 DEF Stages, hostVars
  <2>3. QED  BY <2>1, <2>2
<1>9. ASSUME NEW p \in Procs, Notify(p) PROVE TypeOK'
  <2>1. CASE Ends(p, "piped")
    BY <2>1, <1>0, EndsTypeOK
  <2>2. CASE ~Ends(p, "piped")
    <3>1. /\ send_packet(p)
          /\ UNCHANGED <<mainVars, heard, server, listening, link>>
      BY <1>9, <2>2 DEF Notify
    <3>2. link[p].to \in Procs
      BY DEF Link
    <3>3. inbox' \in [Procs -> SUBSET Procs]
      BY <3>1, <3>2 DEF send_packet
    <3>4. QED  BY <3>1, <3>3 DEF mainVars
  <2>3. QED  BY <2>1, <2>2
<1>10. ASSUME NEW p \in Procs, Interrupt(p) PROVE TypeOK'
  BY <1>10 DEF Interrupt, Stages, hostVars
<1>11. ASSUME NEW p \in Procs, ResetController(p) PROVE TypeOK'
  <2>1. ASSUME NEW q \in Procs PROVE [link[q] EXCEPT !.state = "reset"] \in Link
    BY <2>1, LinkChanges
  <2>2. link' \in [Procs -> Link]
    BY <1>11, <2>1 DEF ResetController, CloseServer
  <2>3. QED  BY <1>11, <2>2 DEF ResetController, CloseServer, Stages
<1>12. ASSUME NEW p \in Procs, Return(p) PROVE TypeOK'
  BY <1>0, <1>12, EndsTypeOK DEF Return
<1>13. ASSUME NEW p \in Procs, Crash(p) PROVE TypeOK'
  BY <1>0, <1>13, EndsTypeOK DEF Crash
<1>14. ASSUME NEW p \in Procs, NEW q \in Procs, Take(q, p) PROVE TypeOK'
  <2>1. [link[p] EXCEPT !.state = "open"] \in Link
    BY LinkChanges
  <2>2. link' \in [Procs -> Link]
    BY <1>14, <2>1 DEF Take, Accept
  <2>3. QED  BY <1>14, <2>2 DEF Take, mainVars
<1>15. ASSUME NEW p \in Procs, NEW q \in Procs, Read(q, p) PROVE TypeOK'
  BY <1>15 DEF Read, mainVars
<1>16. CASE UNCHANGED vars
  BY <1>16 DEF vars, mainVars, hostVars
<1>17. QED
  BY <1>1, <1>2, <1>3, <1>4, <1>5, <1>6, <1>7, <1>8, <1>9, <1>10, <1>11, <1>12,
     <1>13, <1>14, <1>15, <1>16 DEF Next, Main, Callback, Retire, EpollWorker

LEMMA InitTypeOK == Init => TypeOK
<1> SUFFICES ASSUME Init PROVE TypeOK
  OBVIOUS
<1>1. link \in [Procs -> Link]
  BY DEF Init, HostInit, NoLink, Link
<1>2. argv \in [Procs -> Seq(STRING)]
  BY DEF Init
<1>3. QED  BY <1>1, <1>2 DEF Init, HostInit, TypeOK, HostTypeOK, Ended

(* Startup keeps its types, whatever the processes are started with; and a *)
(* port controller is never bound to the name that was asked for.          *)
THEOREM StartupTypeCorrect == Spec => []TypeOK
BY InitTypeOK, TypeStep, PTL DEF Spec

-----------------------------------------------------------------------------
(* The holder of the name.                                                  *)

(* What holds of one process by itself, whatever the others do. *)
Held(p) ==
  server[p] # NoAddress =>
    /\ server[p] = SocketAddress(sock_path(config[p].absn))
    /\ config[p].mode = "Loopback"
    /\ stage[p] \in {"monitor", "backend", "eal", "driver", "up", "reset"}
    /\ stage[p] # "monitor" => listening[p]

Linked(p) ==
  link[p].state # "none" =>
    stage[p] \in {"eal", "driver", "up", "reset", "cleanup"}

(* A process that can still notify has lost its peer to another's end. *)
LostToOthers(p) == Joined(p) /\ link[p].state = "reset" => link[p].to # p

MeetsItself(p) ==
  Joined(p) /\ server[p] # NoAddress =>
    link[p].to = p /\ link[p].state \in {"waiting", "open"}

OneHolder ==
  \A p, q \in Procs : server[p] # NoAddress /\ server[p] = server[q] => p = q

OnlyHoldersListen == \A p \in Procs : listening[p] => server[p] # NoAddress

HolderInv ==
  /\ TypeOK /\ OneHolder /\ OnlyHoldersListen
  /\ \A p \in Procs : Held(p) /\ Linked(p) /\ LostToOthers(p) /\ MeetsItself(p)

(* What a step of p leaves alone of another process r.  If p ends, or its  *)
(* controller does, it is the link of r that may notice.                   *)
Bystander(r, p) ==
  /\ server'[r] = server[r] /\ listening'[r] = listening[r]
  /\ stage'[r] = stage[r] /\ config'[r] = config[r]
  /\ \/ link'[r] = link[r]
     \/ /\ link[r].to = p /\ link[r].state # "none"
        /\ link'[r] = [link[r] EXCEPT !.state = "reset"]

LEMMA BystanderKeeps ==
  ASSUME HolderInv, NEW p \in Procs, NEW r \in Procs, r # p, Bystander(r, p)
  PROVE  Held(r)' /\ Linked(r)' /\ LostToOthers(r)' /\ MeetsItself(r)'
<1>1. link[r] \in Link
  BY DEF HolderInv, TypeOK, HostTypeOK
<1>2. CASE link'[r] = link[r]
  BY <1>2 DEF HolderInv, Bystander, Held, Linked, LostToOthers, MeetsItself, Joined
<1>3. CASE /\ link[r].to = p /\ link[r].state # "none"
           /\ link'[r] = [link[r] EXCEPT !.state = "reset"]
  <2>1. link'[r].state = "reset" /\ link'[r].to = p
    BY <1>1, <1>3 DEF Link
  <2>2. ~Joined(r) \/ server[r] = NoAddress
    BY <1>3 DEF HolderInv, MeetsItself
  <2>3. QED
    BY <1>3, <2>1, <2>2
    DEF HolderInv, Bystander, Held, Linked, LostToOthers, MeetsItself, Joined
<1>4. QED  BY <1>2, <1>3 DEF Bystander

(* So it is enough to look at p, when p takes no address.                  *)
LEMMA OneProcessStep ==
  ASSUME HolderInv, TypeOK', NEW p \in Procs,
         \A r \in Procs \ {p} : Bystander(r, p),
         server'[p] \in {server[p], NoAddress},
         listening'[p] => server'[p] # NoAddress,
         Held(p)', Linked(p)', LostToOthers(p)', MeetsItself(p)'
  PROVE  HolderInv'
<1>1. \A r \in Procs : Held(r)' /\ Linked(r)' /\ LostToOthers(r)' /\ MeetsItself(r)'
  BY BystanderKeeps
<1>2. \A r \in Procs : server'[r] \in {server[r], NoAddress}
  BY DEF Bystander
<1>3. OneHolder'
  BY <1>2 DEF HolderInv, OneHolder
<1>4. OnlyHoldersListen'
  BY DEF HolderInv, OnlyHoldersListen, Bystander
<1>5. QED  BY <1>1, <1>3, <1>4 DEF HolderInv

(* A step after which p has no socket, and that leaves the others alone.   *)
LEMMA EndsKeeps ==
  ASSUME HolderInv, NEW p \in Procs, NEW how \in Ended, Ends(p, how)
  PROVE  HolderInv'
<1>1. TypeOK /\ TypeOK'
  BY EndsTypeOK DEF HolderInv
<1>2. /\ server'[p] = NoAddress /\ listening'[p] = FALSE
      /\ link'[p] = NoLink(p)
  BY <1>1 DEF Ends, HostForgets, TypeOK, HostTypeOK
<1>3. link'[p].state = "none"
  BY <1>2 DEF NoLink
<1>4. ASSUME NEW r \in Procs \ {p} PROVE Bystander(r, p)
  <2>1. /\ server'[r] = server[r] /\ listening'[r] = listening[r]
        /\ stage'[r] = stage[r] /\ config'[r] = config[r]
    BY <1>1, <1>4 DEF Ends, Goes, HostForgets, TypeOK, HostTypeOK
  <2>2. link'[r] = CASE r = p -> NoLink(r)
                     [] r # p /\ Delivered(r) /\ link[r].to = p ->
                          [link[r] EXCEPT !.state = "reset"]
                     [] OTHER -> link[r]
    BY <1>4 DEF Ends, HostForgets
  <2>3. link'[r] = IF Delivered(r) /\ link[r].to = p
                     THEN [link[r] EXCEPT !.state = "reset"] ELSE link[r]
    BY <1>4, <2>2
  <2>4. QED  BY <2>1, <2>3 DEF Bystander, Delivered
<1>5. Held(p)' /\ Linked(p)' /\ LostToOthers(p)' /\ MeetsItself(p)'
  BY <1>2, <1>3 DEF Held, Linked, LostToOthers, MeetsItself
<1>6. QED  BY <1>1, <1>2, <1>4, <1>5, OneProcessStep

(* A step of main that leaves the sockets alone. *)
LEMMA QuietStep ==
  ASSUME HolderInv, TypeOK', NEW p \in Procs, NEW s, Goes(p, s),
         UNCHANGED hostVars,
         \A r \in Procs \ {p} : config'[r] = config[r],
         Held(p)', Linked(p)', LostToOthers(p)', MeetsItself(p)'
  PROVE  HolderInv'
<1>1. ASSUME NEW r \in Procs \ {p} PROVE Bystander(r, p)
  BY <1>1 DEF HolderInv, Bystander, Goes, hostVars, TypeOK
<1>2. listening'[p] => server'[p] # NoAddress
  BY DEF HolderInv, OnlyHoldersListen, hostVars
<1>3. QED  BY <1>1, <1>2, OneProcessStep DEF hostVars

(* Before it has a server, and before it has a client. *)
LEMMA Bare ==
  ASSUME HolderInv, NEW p \in Procs, stage[p] \in Ended \cup {"parse", "create"}
  PROVE  server[p] = NoAddress /\ link[p].state = "none"
BY DEF HolderInv, Held, Linked, Ended

LEMMA HolderStep == HolderInv /\ [Next]_vars => HolderInv'
<1> SUFFICES ASSUME HolderInv, [Next]_vars PROVE HolderInv'
  OBVIOUS
<1>a. TypeOK /\ TypeOK'
  BY TypeStep DEF HolderInv
<1>b. {"off", "piped", "killed"} \subseteq Ended
  BY DEF Ended
<1>c. \A p \in Procs : Held(p) /\ Linked(p) /\ LostToOthers(p) /\ MeetsItself(p)
  BY DEF HolderInv
<1>1. ASSUME NEW p \in Procs, Start(p) PROVE HolderInv'
  <2>1. Goes(p, "parse") /\ UNCHANGED hostVars /\ UNCHANGED config
    BY <1>1 DEF Start
  <2>2. server[p] = NoAddress /\ link[p].state = "none"
    BY <1>1, Bare DEF Start
  <2>3. Held(p)' /\ Linked(p)' /\ LostToOthers(p)' /\ MeetsItself(p)'
    BY <2>1, <2>2 DEF Held, Linked, LostToOthers, MeetsItself, hostVars
  <2>4. QED  BY <1>a, <2>1, <2>3, QuietStep
<1>2. ASSUME NEW p \in Procs, Parse(p) PROVE HolderInv'
  <2>1. CASE Ends(p, "off")
    BY <2>1, <1>b, EndsKeeps
  <2>2. CASE ~Ends(p, "off")
    <3>1. /\ Goes(p, "create") /\ UNCHANGED hostVars
          /\ \A r \in Procs \ {p} : config'[r] = config[r]
      BY <1>2, <1>a, <2>2 DEF Parse, TypeOK
    <3>2. server[p] = NoAddress /\ link[p].state = "none"
      BY <1>2, Bare DEF Parse
    <3>3. Held(p)' /\ Linked(p)' /\ LostToOthers(p)' /\ MeetsItself(p)'
      BY <3>1, <3>2 DEF Held, Linked, LostToOthers, MeetsItself, hostVars
    <3>4. QED  BY <1>a, <3>1, <3>3, QuietStep
  <2>3. QED  BY <2>1, <2>2
<1>3. ASSUME NEW p \in Procs, CreateController(p) PROVE HolderInv'
  <2>1. CASE Ends(p, "killed")
    BY <2>1, <1>b, EndsKeeps
  <2>2. CASE ~Ends(p, "killed")
    <3>1. Goes(p, "server") /\ UNCHANGED hostVars /\ UNCHANGED config
      BY <1>3, <2>2 DEF CreateController
    <3>2. server[p] = NoAddress /\ link[p].state = "none"
      BY <1>3, Bare DEF CreateController
    <3>3. Held(p)' /\ Linked(p)' /\ LostToOthers(p)' /\ MeetsItself(p)'
      BY <3>1, <3>2 DEF Held, Linked, LostToOthers, MeetsItself, hostVars
    <3>4. QED  BY <1>a, <3>1, <3>3, QuietStep
  <2>3. QED  BY <2>1, <2>2
<1>4. ASSUME NEW p \in Procs, CreateServer(p) PROVE HolderInv'
  <2> DEFINE a == SocketAddress(sock_path(config[p].absn))
  <2>1. /\ stage[p] = "server" /\ stage'[p] = "monitor"
        /\ UNCHANGED <<config, listening, link>>
        /\ \A r \in Procs \ {p} : stage'[r] = stage[r]
    BY <1>4, <1>a DEF CreateServer, Goes, TypeOK
  <2>2. server[p] = NoAddress /\ link[p].state = "none" /\ ~listening[p]
    BY <2>1, <1>c DEF Held, Linked, HolderInv, OnlyHoldersListen
  <2>3. \A r \in Procs \ {p} : server'[r] = server[r]
    BY <1>4, <1>a DEF CreateServer, create_server_socket, TypeOK, HostTypeOK
  <2>4. \/ server'[p] = NoAddress
        \/ /\ server'[p] = a /\ config[p].mode = "Loopback"
           /\ \A q \in Procs : server[q] # a
    <3>1. CASE config[p].mode = "Loopback"
      BY <1>4, <1>a, <3>1 DEF CreateServer, create_server_socket, TypeOK, HostTypeOK
    <3>2. CASE config[p].mode # "Loopback"
      BY <1>4, <2>2, <3>2 DEF CreateServer
    <3>3. QED  BY <3>1, <3>2
  <2>5. ASSUME NEW r \in Procs \ {p} PROVE Bystander(r, p)
    BY <2>1, <2>3, <2>5 DEF Bystander
  <2>6. Held(p)' /\ Linked(p)' /\ LostToOthers(p)' /\ MeetsItself(p)'
    BY <2>1, <2>2, <2>4 DEF Held, Linked, LostToOthers, MeetsItself, Joined
  <2>7. \A r \in Procs : Held(r)' /\ Linked(r)' /\ LostToOthers(r)' /\ MeetsItself(r)'
    BY <2>5, <2>6, BystanderKeeps
  <2>8. OneHolder'
    BY <2>3, <2>4 DEF HolderInv, OneHolder
  <2>9. OnlyHoldersListen'
    BY <2>1, <2>2, <2>3 DEF HolderInv, OnlyHoldersListen
  <2>10. QED  BY <1>a, <2>7, <2>8, <2>9 DEF HolderInv
<1>5. ASSUME NEW p \in Procs, Monitor(p) PROVE HolderInv'
  <2>1. /\ stage[p] = "monitor" /\ stage'[p] = "backend"
        /\ UNCHANGED <<config, server, link>>
        /\ \A r \in Procs \ {p} : stage'[r] = stage[r]
    BY <1>5, <1>a DEF Monitor, Goes, TypeOK
  <2>2. \A r \in Procs \ {p} : listening'[r] = listening[r]
    BY <1>5, <1>a DEF Monitor, Listen, TypeOK, HostTypeOK
  <2>3. server[p] # NoAddress => listening'[p]
    BY <1>5, <1>a, <1>c DEF Monitor, Listen, TypeOK, HostTypeOK, Held
  <2>4. listening'[p] => server'[p] # NoAddress
    BY <1>5, <1>a, <2>1
    DEF Monitor, Listen, TypeOK, HostTypeOK, HolderInv, OnlyHoldersListen
  <2>5. ASSUME NEW r \in Procs \ {p} PROVE Bystander(r, p)
    BY <2>1, <2>2, <2>5 DEF Bystander
  <2>6. Held(p)' /\ Linked(p)' /\ LostToOthers(p)' /\ MeetsItself(p)'
    BY <1>c, <2>1, <2>3 DEF Held, Linked, LostToOthers, MeetsItself, Joined
  <2>7. QED  BY <1>a, <2>1, <2>4, <2>5, <2>6, OneProcessStep
<1>6. ASSUME NEW p \in Procs, MakeBackend(p) PROVE HolderInv'
  <2> DEFINE a == SocketAddress(sock_path(config[p].absn))
  <2>1. /\ stage[p] = "backend" /\ stage'[p] = "eal"
        /\ UNCHANGED <<config, server, listening>>
        /\ \A r \in Procs \ {p} : stage'[r] = stage[r] /\ link'[r] = link[r]
    BY <1>6, <1>a
    DEF MakeBackend, create_client_socket, Goes, TypeOK, HostTypeOK
  <2>2. link[p].state = "none"
    BY <1>c, <2>1 DEF Linked
  <2>3. \/ link' = link
        \/ \E q \in Procs : /\ listening[q] /\ server[q] = a
                            /\ link'[p] = [state |-> "waiting", to |-> q]
    BY <1>6, <1>a DEF MakeBackend, create_client_socket, TypeOK, HostTypeOK
  <2>4. server[p] # NoAddress =>
          link'[p].to = p /\ link'[p].state = "waiting"
    <3> SUFFICES ASSUME server[p] # NoAddress
                 PROVE  link'[p].to = p /\ link'[p].state = "waiting"
      OBVIOUS
    <3>1. server[p] = a /\ config[p].mode = "Loopback" /\ listening[p]
      BY <1>c, <2>1 DEF Held
    <3>2. \A q \in Procs : server[q] = a => q = p
      BY <3>1 DEF HolderInv, OneHolder
    <3>3. create_client_socket(p, config[p].absn)
      BY <1>6, <3>1 DEF MakeBackend
    <3>4. \E q \in {q \in Procs : listening[q] /\ server[q] = a} :
            link' = [link EXCEPT ![p] = [state |-> "waiting", to |-> q]]
      BY <3>1, <3>3 DEF create_client_socket
    <3>5. link'[p] = [state |-> "waiting", to |-> p]
      BY <1>a, <3>2, <3>4 DEF TypeOK, HostTypeOK
    <3>6. QED  BY <3>5
  <2>5. link'[p].state # "reset"
    <3>1. CASE link' = link
      BY <2>2, <3>1
    <3>2. ASSUME NEW q \in Procs, link'[p] = [state |-> "waiting", to |-> q]
          PROVE  link'[p].state # "reset"
      BY <3>2
    <3>3. QED  BY <2>3, <3>1, <3>2
  <2>6. ASSUME NEW r \in Procs \ {p} PROVE Bystander(r, p)
    BY <2>1, <2>6 DEF Bystander
  <2>7. Held(p)' /\ Linked(p)' /\ LostToOthers(p)' /\ MeetsItself(p)'
    BY <1>c, <2>1, <2>4, <2>5 DEF Held, Linked, LostToOthers, MeetsItself, Joined
  <2>8. listening'[p] => server'[p] # NoAddress
    BY <2>1 DEF HolderInv, OnlyHoldersListen
  <2>9. QED  BY <1>a, <2>1, <2>6, <2>7, <2>8, OneProcessStep
<1>7. ASSUME NEW p \in Procs, InitEal(p) PROVE HolderInv'
  <2>1. CASE Ends(p, "off")
    BY <2>1, <1>b, EndsKeeps
  <2>2. CASE ~Ends(p, "off")
    <3>1. /\ stage[p] = "eal" /\ Goes(p, "driver")
          /\ UNCHANGED hostVars /\ UNCHANGED config
      BY <1>7, <2>2 DEF InitEal
    <3>2. stage'[p] = "driver"
      BY <3>1, <1>a DEF Goes, TypeOK
    <3>3. Held(p)' /\ Linked(p)' /\ LostToOthers(p)' /\ MeetsItself(p)'
      BY <1>c, <3>1, <3>2
      DEF Held, Linked, LostToOthers, MeetsItself, Joined, hostVars
    <3>4. QED  BY <1>a, <3>1, <3>3, QuietStep
  <2>3. QED  BY <2>1, <2>2
<1>8. ASSUME NEW p \in Procs, StartDriver(p) PROVE HolderInv'
  <2>1. CASE Ends(p, "off")
    BY <2>1, <1>b, EndsKeeps
  <2>2. CASE ~Ends(p, "off")
    <3>1. /\ stage[p] = "driver" /\ Goes(p, "up")
          /\ UNCHANGED hostVars /\ UNCHANGED config
      BY <1>8, <2>2 DEF StartDriver
    <3>2. stage'[p] = "up"
      BY <3>1, <1>a DEF Goes, TypeOK
    <3>3. Held(p)' /\ Linked(p)' /\ LostToOthers(p)' /\ MeetsItself(p)'
      BY <1>c, <3>1, <3>2
      DEF Held, Linked, LostToOthers, MeetsItself, Joined, hostVars
    <3>4. QED  BY <1>a, <3>1, <3>3, QuietStep
  <2>3. QED  BY <2>1, <2>2
<1>9. ASSUME NEW p \in Procs, Interrupt(p) PROVE HolderInv'
  <2>1. /\ stage[p] = "up" /\ Goes(p, "reset")
        /\ UNCHANGED hostVars /\ UNCHANGED config
    BY <1>9 DEF Interrupt
  <2>2. stage'[p] = "reset"
    BY <2>1, <1>a DEF Goes, TypeOK
  <2>3. Held(p)' /\ Linked(p)' /\ LostToOthers(p)' /\ MeetsItself(p)'
    BY <1>c, <2>1, <2>2 DEF Held, Linked, LostToOthers, MeetsItself, Joined, hostVars
  <2>4. QED  BY <1>a, <2>1, <2>3, QuietStep
<1>10. ASSUME NEW p \in Procs, Notify(p) PROVE HolderInv'
  <2>1. CASE Ends(p, "piped")
    BY <2>1, <1>b, EndsKeeps
  <2>2. CASE ~Ends(p, "piped")
    <3>1. UNCHANGED <<stage, config, server, listening, link>>
      BY <1>10, <2>2 DEF Notify, mainVars
    <3>2. QED
      BY <1>a, <3>1 DEF HolderInv, OneHolder, OnlyHoldersListen, Held, Linked,
                        LostToOthers, MeetsItself, Joined
  <2>3. QED  BY <2>1, <2>2
<1>11. ASSUME NEW p \in Procs, ResetController(p) PROVE HolderInv'
  <2>1. /\ stage[p] = "reset" /\ stage'[p] = "cleanup" /\ UNCHANGED config
        /\ \A r \in Procs \ {p} : stage'[r] = stage[r]
    BY <1>11, <1>a DEF ResetController, Goes, TypeOK
  <2>2. /\ server'[p] = NoAddress /\ ~listening'[p]
        /\ \A r \in Procs \ {p} : server'[r] = server[r] /\ listening'[r] = listening[r]
    BY <1>11, <1>a DEF ResetController, CloseServer, TypeOK, HostTypeOK
  <2>3. \A r \in Procs :
          link'[r] = IF link[r] = [state |-> "waiting", to |-> p]
                       THEN [link[r] EXCEPT !.state = "reset"] ELSE link[r]
    BY <1>11 DEF ResetController, CloseServer
  <2>4. ASSUME NEW r \in Procs \ {p} PROVE Bystander(r, p)
    BY <2>1, <2>2, <2>3, <2>4 DEF Bystander
  <2>5. Held(p)' /\ Linked(p)' /\ LostToOthers(p)' /\ MeetsItself(p)'
    BY <2>1, <2>2 DEF Held, Linked, LostToOthers, MeetsItself, Joined
  <2>6. QED  BY <1>a, <2>2, <2>4, <2>5, OneProcessStep
<1>12. ASSUME NEW p \in Procs, Return(p) PROVE HolderInv'
  BY <1>b, <1>12, EndsKeeps DEF Return
<1>13. ASSUME NEW p \in Procs, Crash(p) PROVE HolderInv'
  BY <1>b, <1>13, EndsKeeps DEF Crash
<1>14. ASSUME NEW p \in Procs, NEW q \in Procs, Take(q, p) PROVE HolderInv'
  <2>1. UNCHANGED <<stage, config, server, listening>>
    BY <1>14 DEF Take, mainVars
  <2>2. /\ link[p] = [state |-> "waiting", to |-> q]
        /\ link'[p] = [link[p] EXCEPT !.state = "open"]
        /\ \A r \in Procs \ {p} : link'[r] = link[r]
    BY <1>14, <1>a DEF Take, Accept, TypeOK, HostTypeOK
  <2>3. link[p].state = "waiting" /\ link'[p].state = "open" /\ link'[p].to = link[p].to
    BY <2>2
  <2>4. ASSUME NEW r \in Procs \ {p} PROVE Bystander(r, p)
    BY <2>1, <2>2, <2>4 DEF Bystander
  <2>5. Held(p)' /\ Linked(p)' /\ LostToOthers(p)' /\ MeetsItself(p)'
    BY <1>c, <2>1, <2>3 DEF Held, Linked, LostToOthers, MeetsItself, Joined
  <2>6. listening'[p] => server'[p] # NoAddress
    BY <2>1 DEF HolderInv, OnlyHoldersListen
  <2>7. QED  BY <1>a, <2>1, <2>4, <2>5, <2>6, OneProcessStep
<1>15. ASSUME UNCHANGED <<stage, config, server, listening, link>> PROVE HolderInv'
  BY <1>a, <1>15 DEF HolderInv, OneHolder, OnlyHoldersListen, Held, Linked,
                     LostToOthers, MeetsItself, Joined
<1>16. ASSUME NEW p \in Procs, NEW q \in Procs, Read(q, p) PROVE HolderInv'
  BY <1>15, <1>16 DEF Read, mainVars
<1>17. CASE UNCHANGED vars
  BY <1>15, <1>17 DEF vars, mainVars, hostVars
<1>18. QED
  BY <1>1, <1>2, <1>3, <1>4, <1>5, <1>6, <1>7, <1>8, <1>9, <1>10, <1>11, <1>12,
     <1>13, <1>14, <1>16, <1>17 DEF Next, Main, Callback, Retire, EpollWorker

LEMMA HolderInit == Init => HolderInv
<1> SUFFICES ASSUME Init PROVE HolderInv
  OBVIOUS
<1>1. TypeOK
  BY InitTypeOK
<1>2. /\ \A p \in Procs : server[p] = NoAddress /\ ~listening[p]
      /\ \A p \in Procs : link[p].state = "none"
  BY DEF Init, HostInit, NoLink
<1>3. QED
  BY <1>1, <1>2 DEF HolderInv, OneHolder, OnlyHoldersListen, Held, Linked,
                    LostToOthers, MeetsItself

(* A process that got the name is the one its own vhost controller is      *)
(* connected to, through all starts, stops and crashes of the others.      *)
THEOREM HoldersMeetThemselves == Spec => []HolderMeetsItself
<1>1. HolderInv => HolderMeetsItself
  BY DEF HolderInv, MeetsItself, HolderMeetsItself
<1>2. QED  BY <1>1, HolderInit, HolderStep, PTL DEF Spec

(* A process that is up dies of SIGPIPE only when the process it is        *)
(* connected to is another one, and never when it has the name itself.     *)
THEOREM PipesBreakAtOthers == Spec => PipeFromOthers
<1> DEFINE FromOthers ==
      \A p \in Procs : stage[p] = "up" /\ stage'[p] = "piped" =>
                         link[p].to # p /\ server[p] = NoAddress
<1>1. HolderInv /\ [Next]_vars => FromOthers
  <2> SUFFICES ASSUME HolderInv, [Next]_vars, NEW p \in Procs,
                      stage[p] = "up", stage'[p] = "piped"
               PROVE  link[p].to # p /\ server[p] = NoAddress
    OBVIOUS
  <2>1. link[p].state = "reset"
    <3>1. stage \in [Procs -> Stages \cup Ended]
      BY DEF HolderInv, TypeOK
    <3>2. ASSUME NEW q \in Procs, Notify(q) PROVE link[p].state = "reset"
      BY <3>1, <3>2 DEF Notify, Ends, Goes, Killed, mainVars
    <3>3. ASSUME NEW q \in Procs, NEW s, Goes(q, s), s # "piped" PROVE FALSE
      BY <3>1, <3>3 DEF Goes
    <3>4. ASSUME NEW q \in Procs, Main(q) PROVE FALSE
      BY <3>3, <3>4
      DEF Main, Parse, CreateController, CreateServer, Monitor, MakeBackend,
          InitEal, StartDriver, ResetController, Return, Ends
    <3>5. ASSUME NEW q \in Procs, Start(q) \/ Interrupt(q) \/ Crash(q) PROVE FALSE
      BY <3>3, <3>5 DEF Start, Interrupt, Crash, Ends
    <3>6. ASSUME UNCHANGED stage PROVE FALSE
      BY <3>6
    <3>7. ASSUME NEW q \in Procs, NEW r \in Procs, EpollWorker(q, r) PROVE FALSE
      BY <3>6, <3>7 DEF EpollWorker, Take, Read, mainVars
    <3>8. QED
      BY <3>2, <3>4, <3>5, <3>6, <3>7 DEF Next, Callback, Retire, vars, mainVars
  <2>2. Joined(p) /\ LostToOthers(p) /\ MeetsItself(p)
    BY DEF HolderInv, Joined
  <2>3. QED  BY <2>1, <2>2 DEF LostToOthers, MeetsItself
<1>2. HolderInv /\ [Next]_vars => [FromOthers]_vars
  BY <1>1
<1>3. QED  BY <1>2, HolderInit, HolderStep, PTL DEF Spec, PipeFromOthers

-----------------------------------------------------------------------------
(* The files of the -vsn paths.                                             *)

DriverInv ==
  TypeOK /\ \A p \in Procs : driver[p] => stage[p] \in {"up", "reset", "cleanup"}

(* No file becomes stale when what a process with a driver has stays. *)
LEMMA DriversKeepFiles ==
  ASSUME UNCHANGED <<driver, files>>,
         \A q \in Procs : driver[q] => config'[q] = config[q]
  PROVE  Stale' \subseteq Stale
BY DEF Stale

LEMMA EndsWithoutDriver ==
  ASSUME TypeOK, NEW p \in Procs, NEW how, Ends(p, how), ~driver[p], UNCHANGED files
  PROVE  Stale' \subseteq Stale
<1>1. driver' = driver
  BY DEF TypeOK, Ends
<1>2. \A q \in Procs : driver[q] => config'[q] = config[q]
  BY DEF TypeOK, Ends
<1>3. QED  BY <1>1, <1>2, DriversKeepFiles

(* A process without a driver yet: what its main does. *)
LEMMA EarlyStages ==
  ASSUME DriverInv, NEW p \in Procs, stage[p] \in {"parse", "eal", "driver"}
  PROVE  ~driver[p]
BY DEF DriverInv

LEMMA DriverStep == DriverInv /\ [Next]_vars => DriverInv'
<1> SUFFICES ASSUME DriverInv, [Next]_vars PROVE DriverInv'
  OBVIOUS
<1>0. TypeOK /\ TypeOK'
  BY TypeStep DEF DriverInv
<1> SUFFICES ASSUME NEW r \in Procs, driver'[r]
             PROVE  stage'[r] \in {"up", "reset", "cleanup"}
  BY <1>0 DEF DriverInv
<1>1. /\ stage \in [Procs -> Stages \cup Ended] /\ driver \in [Procs -> BOOLEAN]
      /\ driver[r] => stage[r] \in {"up", "reset", "cleanup"}
  BY DEF DriverInv, TypeOK
<1>2. ASSUME NEW p \in Procs, NEW how, Ends(p, how)
      PROVE  stage'[r] \in {"up", "reset", "cleanup"}
  BY <1>1, <1>2 DEF Ends, Goes
<1>3. ASSUME NEW p \in Procs, NEW s, Goes(p, s), UNCHANGED driver,
             stage[p] \in {"up", "reset", "cleanup"} => s \in {"up", "reset", "cleanup"}
      PROVE  stage'[r] \in {"up", "reset", "cleanup"}
  BY <1>1, <1>3 DEF Goes
<1>4. ASSUME UNCHANGED <<stage, driver>>
      PROVE  stage'[r] \in {"up", "reset", "cleanup"}
  BY <1>1, <1>4
<1>5. ASSUME NEW p \in Procs, Start(p) \/ Interrupt(p)
      PROVE  stage'[r] \in {"up", "reset", "cleanup"}
  <2>1. CASE Start(p)
    <3>1. stage[p] \notin {"up", "reset", "cleanup"}
      BY <2>1 DEF Start, Ended
    <3>2. QED  BY <1>3, <2>1, <3>1 DEF Start
  <2>2. CASE Interrupt(p)
    BY <1>3, <2>2 DEF Interrupt
  <2>3. QED  BY <1>5, <2>1, <2>2
<1>6. ASSUME NEW p \in Procs, Main(p)
      PROVE  stage'[r] \in {"up", "reset", "cleanup"}
  <2>1. CASE Parse(p) \/ CreateController(p) \/ CreateServer(p) \/ Monitor(p)
    BY <1>2, <1>3, <2>1 DEF Parse, CreateController, CreateServer, Monitor
  <2>2. CASE MakeBackend(p) \/ InitEal(p) \/ ResetController(p)
    BY <1>2, <1>3, <2>2 DEF MakeBackend, InitEal, ResetController
  <2>3. CASE StartDriver(p)
    BY <1>1, <1>2, <2>3 DEF StartDriver, Goes
  <2>4. CASE Return(p)
    BY <1>2, <2>4 DEF Return
  <2>5. QED  BY <1>6, <2>1, <2>2, <2>3, <2>4 DEF Main
<1>7. ASSUME NEW p \in Procs, Notify(p)
      PROVE  stage'[r] \in {"up", "reset", "cleanup"}
  BY <1>2, <1>4, <1>7 DEF Notify, mainVars
<1>8. ASSUME NEW p \in Procs, Crash(p)
      PROVE  stage'[r] \in {"up", "reset", "cleanup"}
  BY <1>2, <1>8 DEF Crash
<1>9. ASSUME NEW q \in Procs, NEW p \in Procs, EpollWorker(q, p)
      PROVE  stage'[r] \in {"up", "reset", "cleanup"}
  BY <1>4, <1>9 DEF EpollWorker, Take, Read, mainVars
<1>10. CASE UNCHANGED vars
  BY <1>4, <1>10 DEF vars, mainVars
<1>11. QED
  BY <1>5, <1>6, <1>7, <1>8, <1>9, <1>10 DEF Next, Callback, Retire

LEMMA MainLeavesFiles ==
  ASSUME DriverInv, NEW p \in Procs, Main(p)
  PROVE  \/ Stale' \subseteq Stale
         \/ stage[p] \notin Ended /\ stage'[p] = "killed"
<1>0. /\ TypeOK /\ stage \in [Procs -> Stages \cup Ended]
      /\ driver \in [Procs -> BOOLEAN] /\ DOMAIN config = Procs
  BY DEF DriverInv, TypeOK
<1>1. CASE Parse(p)
  <2>1. ~driver[p]
    BY <1>1, EarlyStages DEF Parse
  <2>2. CASE Ends(p, "off") /\ UNCHANGED files
    BY <1>0, <2>1, <2>2, EndsWithoutDriver
  <2>3. CASE ~(Ends(p, "off") /\ UNCHANGED files)
    <3>1. UNCHANGED <<driver, files>>
      BY <1>1, <2>3 DEF Parse
    <3>2. \A q \in Procs : q # p => config'[q] = config[q]
      BY <1>0, <1>1, <2>3 DEF Parse
    <3>3. QED  BY <2>1, <3>1, <3>2, DriversKeepFiles
  <2>4. QED  BY <2>2, <2>3
<1>2. CASE CreateController(p)
  <2>1. CASE Ends(p, "killed")
    BY <1>0, <1>2, <2>1 DEF CreateController, Ends, Goes, Ended
  <2>2. CASE ~Ends(p, "killed")
    BY <1>2, <2>2, DriversKeepFiles DEF CreateController
  <2>3. QED  BY <2>1, <2>2
<1>3. CASE CreateServer(p) \/ Monitor(p) \/ MakeBackend(p) \/ ResetController(p)
  BY <1>3, DriversKeepFiles DEF CreateServer, Monitor, MakeBackend, ResetController
<1>4. CASE InitEal(p)
  <2>1. ~driver[p]
    BY <1>4, EarlyStages DEF InitEal
  <2>2. QED  BY <1>0, <1>4, <2>1, EndsWithoutDriver, DriversKeepFiles DEF InitEal
<1>5. CASE StartDriver(p)
  <2>1. ~driver[p]
    BY <1>5, EarlyStages DEF StartDriver
  <2>2. CASE Ends(p, "off") /\ UNCHANGED files
    BY <1>0, <2>1, <2>2, EndsWithoutDriver
  <2>3. CASE ~(Ends(p, "off") /\ UNCHANGED files)
    <3>1. /\ driver' = [driver EXCEPT ![p] = TRUE]
          /\ files' = files \cup {config[p].vsn}
          /\ config' = config
      BY <1>5, <2>3 DEF StartDriver
    <3>2. driver'[p] /\ \A q \in Procs : driver[q] => driver'[q]
      BY <1>0, <3>1
    <3>3. QED  BY <3>1, <3>2 DEF Stale
  <2>4. QED  BY <2>2, <2>3
<1>6. CASE Return(p)
  <2>1. /\ files' = files \ {config[p].vsn}
        /\ \A q \in Procs : q # p => config'[q] = config[q] /\ driver'[q] = driver[q]
    BY <1>0, <1>6 DEF Return, Ends
  <2>2. QED  BY <2>1 DEF Stale
<1>7. QED  BY <1>1, <1>2, <1>3, <1>4, <1>5, <1>6 DEF Main

(* Only a killed process, or one ended by SIGPIPE, leaves a file on which  *)
(* no later start of the driver can succeed; no return of main does.       *)
THEOREM FilesAreLeftByTheKilled == Spec => OnlyTheKilledLeaveFiles
<1> DEFINE Left ==
      Stale' \ Stale # {} =>
        \E p \in Procs : stage[p] \notin Ended /\ stage'[p] \in {"killed", "piped"}
<1>1. DriverInv /\ [Next]_vars => Left
  <2> SUFFICES ASSUME DriverInv, [Next]_vars PROVE Left
    OBVIOUS
  <2>1. CASE UNCHANGED <<driver, files, config>>
    BY <2>1, DriversKeepFiles
  <2>2. ASSUME NEW p \in Procs, Main(p) PROVE Left
    BY <2>2, MainLeavesFiles
  <2>3. ASSUME NEW p \in Procs, NEW how \in {"killed", "piped"}, Ends(p, how),
               stage[p] \notin Ended
        PROVE  Left
    <3>1. stage'[p] = how
      BY <2>3 DEF DriverInv, TypeOK, Ends, Goes
    <3>2. QED  BY <2>3, <3>1
  <2>4. ASSUME NEW p \in Procs, Callback(p) \/ Retire(p) PROVE Left
    <3>1. Notify(p) /\ stage[p] \notin Ended
      BY <2>4 DEF Callback, Retire, Ended
    <3>2. QED  BY <2>1, <2>3, <3>1 DEF Notify, mainVars
  <2>5. ASSUME NEW p \in Procs, Crash(p) PROVE Left
    BY <2>3, <2>5 DEF Crash
  <2>6. ASSUME NEW p \in Procs, Start(p) \/ Interrupt(p) PROVE Left
    BY <2>1, <2>6 DEF Start, Interrupt
  <2>7. ASSUME NEW q \in Procs, NEW p \in Procs, EpollWorker(q, p) PROVE Left
    BY <2>1, <2>7 DEF EpollWorker, Take, Read, mainVars
  <2>8. CASE UNCHANGED vars
    BY <2>1, <2>8 DEF vars, mainVars
  <2>9. QED
    BY <2>2, <2>4, <2>5, <2>6, <2>7, <2>8 DEF Next
<1>2. Init => DriverInv
  BY InitTypeOK DEF DriverInv, Init
<1>3. DriverInv /\ [Next]_vars => [Left]_vars
  BY <1>1
<1>4. QED  BY <1>2, <1>3, DriverStep, PTL DEF Spec, OnlyTheKilledLeaveFiles

-----------------------------------------------------------------------------
(* Command lines.                                                           *)

(* Whatever a process is started with, parse() accepts exactly what is     *)
(* well-formed and gives every argument its last value or its default.     *)
THEOREM CommandLinesAreUnderstood == Spec => []CommandLinesUnderstood
<1>1. TypeOK => CommandLinesUnderstood
  BY ProgramTable, ParserKeepsItsPromise DEF TypeOK, CommandLinesUnderstood
<1>2. QED  BY <1>1, StartupTypeCorrect, PTL

(* The table that requires its arguments is a table, too.                  *)
LEMMA RequiringTable == IsTable(MCTable)
<1> DEFINE A1 == add_argument("--x", "-x", TRUE, "")
           A2 == add_argument("--mode", "-m", TRUE, "Loopback")
<1>1. Entry(A1, "--x", "-x") /\ Entry(A2, "--mode", "-m")
  BY AddedArgument, Literals, Zenon
<1>2. MCTable = <<A1, A2>>
  BY DEF MCTable
<1>3. {"--x", "-x", "--mode", "-m"} \cap Words = {}
  <2>1. /\ 2 \in DOMAIN arguments_
        /\ arguments_[2].long_name = "--mode"
        /\ arguments_[2].short_name = "-m"
    BY DEF arguments_, add_argument
  <2>2. QED  BY <2>1, MCTableAssumption, NamesAssumption
<1> HIDE DEF A1, A2
<1>4. /\ MCTable \in Seq(Argument) /\ DOMAIN MCTable = {1, 2}
      /\ MCTable[1] = A1 /\ MCTable[2] = A2
  BY <1>1, <1>2 DEF Entry
<1>5. QED  BY <1>1, <1>3, <1>4 DEF IsTable, Names, Entry

(* The same where the table has arguments that are required.               *)
THEOREM RequiredAreUnderstood == Spec => []RequiredUnderstood
<1>1. TypeOK => RequiredUnderstood
  BY RequiringTable, ParserKeepsItsPromise DEF TypeOK, RequiredUnderstood
<1>2. QED  BY <1>1, StartupTypeCorrect, PTL

=============================================================================
