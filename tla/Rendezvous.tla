----------------------------- MODULE Rendezvous -----------------------------
(***************************************************************************)
(* How a vhost controller finds a port controller: the socket helpers of   *)
(* src/common.cpp, what their two callers pass to them, and the part of    *)
(* the kernel that joins the sockets of all vtb processes of a host.       *)
(*                                                                         *)
(* A path is its first character and the rest.  Both callers put a NUL in  *)
(* front of the name given by -absn; the helpers look for an '@'.          *)
(***************************************************************************)
CONSTANTS
  Procs,       \* the vtb processes of one host
  LongNames    \* names that leave no room for the mark in sun_path

VARIABLES
  server,      \* the address abstract_fd_ of a port controller is bound to
  listening,   \* whether it listens there
  link,        \* where abstract_fd_ of a vhost controller leads
  inbox        \* whose records wait to be read by a port controller

hostVars == <<server, listening, link, inbox>>

(* sockaddr_un: an abstract name, a name of zeros only, or a file.         *)
NoAddress == <<"none">>
Zeros == <<"zeros">>

(* Mutant: the name is used whichever mark it carries. *)
SocketAddress_named(path) ==
  IF path.rest \in LongNames THEN NoAddress ELSE <<"abstract", path.rest>>

(* A path with an '@' is copied from its second character on.  Any other   *)
(* is copied up to its first NUL, so nothing is copied of a path that      *)
(* begins with one: the address is the zeros that were there before.       *)
SocketAddress(path) ==
  CASE path.rest \in LongNames -> NoAddress
    [] path.rest \notin LongNames /\ path.first = "@" -> <<"abstract", path.rest>>
    [] path.rest \notin LongNames /\ path.first = "NUL" -> Zeros
    [] OTHER -> <<"file", path.first, path.rest>>

sock_path(absn) == [first |-> "NUL", rest |-> absn]

(* A vhost controller has no link (or an unconnected descriptor, which     *)
(* loses what is written to it), waits in a port controller's listen       *)
(* queue, has been accepted, or has lost its peer.                         *)
Link == [state : {"none", "waiting", "open", "reset"}, to : Procs]
NoLink(p) == [state |-> "none", to |-> p]

HostInit ==
  /\ server = [p \in Procs |-> NoAddress]
  /\ listening = [p \in Procs |-> FALSE]
  /\ link = [p \in Procs |-> NoLink(p)]
  /\ inbox = [p \in Procs |-> {}]

HostTypeOK ==
  /\ server \in [Procs -> {NoAddress, Zeros}]
  /\ listening \in [Procs -> BOOLEAN]
  /\ link \in [Procs -> Link]
  /\ inbox \in [Procs -> SUBSET Procs]

-----------------------------------------------------------------------------
(* Mutant: the address is bound twice, as a path is that is unlinked first.*)
create_server_socket_shared(p, absn) ==
  server' = [server EXCEPT ![p] = SocketAddress(sock_path(absn))]

(* bind() fails when another process has the address; the descriptor is    *)
(* then -1, and the caller goes on with it.                                *)
create_server_socket(p, absn) ==
  LET a == SocketAddress(sock_path(absn)) IN
  server' = [server EXCEPT ![p] =
               IF \E q \in Procs : server[q] = a THEN NoAddress ELSE a]

(* listen() on a descriptor of -1 fails, and nobody looks.                 *)
Listen(p) == listening' = [listening EXCEPT ![p] = server[p] # NoAddress]

(* connect() finds the socket that listens at the address.  When there is  *)
(* none it fails, and the descriptor is kept although it leads nowhere.    *)
create_client_socket(p, absn) ==
  LET a == SocketAddress(sock_path(absn))
      found == {q \in Procs : listening[q] /\ server[q] = a}
  IN  \/ /\ a # NoAddress
         /\ \E q \in found :
              link' = [link EXCEPT ![p] = [state |-> "waiting", to |-> q]]
      \/ /\ a = NoAddress \/ found = {}
         /\ UNCHANGED link

(* A write: to an unconnected descriptor it fails and is lost, to a link   *)
(* without a peer it raises SIGPIPE, which ends the process.               *)
Delivered(p) == link[p].state \in {"waiting", "open"}
Killed(p) == link[p].state = "reset"

send_packet(p) ==
  /\ ~Killed(p)
  /\ inbox' = IF Delivered(p)
                THEN [inbox EXCEPT ![link[p].to] = @ \cup {p}] ELSE inbox

(* The epoll thread takes a connection, and reads a record of one it has.  *)
(* Of a process that has ended it takes and reads what is left at once.    *)
Accept(q, p) ==
  /\ listening[q]
  /\ link[p] = [state |-> "waiting", to |-> q]
  /\ link' = [link EXCEPT ![p].state = "open"]

(* close() of the listening socket resets connections not yet accepted.    *)
CloseServer(p) ==
  /\ server' = [server EXCEPT ![p] = NoAddress]
  /\ listening' = [listening EXCEPT ![p] = FALSE]
  /\ link' = [q \in Procs |-> IF link[q] = [state |-> "waiting", to |-> p]
                                THEN [link[q] EXCEPT !.state = "reset"]
                                ELSE link[q]]
  /\ UNCHANGED inbox

(* The end of a process, whatever ends it: the kernel closes everything.   *)
HostForgets(p) ==
  /\ server' = [server EXCEPT ![p] = NoAddress]
  /\ listening' = [listening EXCEPT ![p] = FALSE]
  /\ link' = [q \in Procs |->
                CASE q = p -> NoLink(p)
                  [] q # p /\ Delivered(q) /\ link[q].to = p ->
                       [link[q] EXCEPT !.state = "reset"]
                  [] OTHER -> link[q]]
  /\ inbox' = [inbox EXCEPT ![p] = {}]

=============================================================================
