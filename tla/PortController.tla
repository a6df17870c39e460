---------------------------- MODULE PortController ----------------------------
(***************************************************************************)
(* The loopback port controller: the epoll thread of                       *)
(* src/port_controller_loopback.cpp, which accepts the vhost controller's  *)
(* connection, reads one record at a time and acts on it before it reads   *)
(* the next.                                                               *)
(*                                                                         *)
(* pmap_ remembers the last state reported of each queue of each device,   *)
(* -1 for a queue not heard of.  A device the map does not have yet is a   *)
(* row of -1: an entry is made with a queue in it.                         *)
(***************************************************************************)
EXTENDS PortHandler, NotifySocket

VARIABLES
  accepted,     \* the connection is taken from the listen queue
  pmap_

portVars == <<accepted, pmap_>>

Unheard == [q \in Queues |-> -1]

PortInit ==
  /\ accepted = FALSE
  /\ pmap_ = [v \in Vids |-> Unheard]

PortTypeOK ==
  /\ accepted \in BOOLEAN
  /\ pmap_ \in [Vids -> [Queues -> {-1, 0, 1}]]

-----------------------------------------------------------------------------
(* The other queue of the pair. *)
Partner(q) == IF is_even(q) THEN q + 1 ELSE q - 1

Record(pdrs) == pmap_' = [pmap_ EXCEPT ![pdrs.device_id][pdrs.qid] = pdrs.enable]

ready_(pdrs) == pdrs.enable = 1 /\ pmap_[pdrs.device_id][Partner(pdrs.qid)] = 1

(* Mutant: the slot is picked by device id, as the code once did. *)
HandlerOf_device(pdrs) == pdrs.device_id

(* The slot of the handler that serves a pair: the same for every device. *)
HandlerOf(pdrs) == pdrs.qid \div 2

DeviceRemoved(pdrs) ==
  /\ pdrs.meta = 1
  /\ StopAll
  /\ UNCHANGED pmap_

(* Mutant: the first record only makes the entry. *)
OnlyRecorded_first_lost(pdrs) ==
  /\ pdrs.meta # 1
  /\ pmap_[pdrs.device_id] = Unheard
  /\ UNCHANGED <<pmap_, handlerVars>>

(* The odd queue completes the pair of a device that is in the map.  The   *)
(* even queue completes it only in the log.                                *)
CompletesPair(pdrs) ==
  /\ pdrs.meta # 1
  /\ pmap_[pdrs.device_id] # Unheard /\ ~is_even(pdrs.qid) /\ ready_(pdrs)

OnlyRecorded(pdrs) ==
  /\ pdrs.meta # 1
  /\ ~CompletesPair(pdrs)
  /\ Record(pdrs)
  /\ UNCHANGED handlerVars

(* The handler that is called for such a record.  What start() throws is   *)
(* caught.                                                                 *)
StartPair(pdrs) == start(HandlerOf(pdrs), pdrs.device_id, pdrs.qid - 1, pdrs.qid)

PairReady(pdrs) ==
  /\ CompletesPair(pdrs)
  /\ Record(pdrs)
  /\ StartPair(pdrs)

process_notification(pdrs) ==
  DeviceRemoved(pdrs) \/ OnlyRecorded(pdrs) \/ PairReady(pdrs)

EpollAccept ==
  /\ ~accepted
  /\ accepted' = TRUE
  /\ UNCHANGED <<pmap_, sock, handlerVars>>

EpollRead ==
  /\ accepted
  /\ Receive
  /\ process_notification(Head(sock))
  /\ UNCHANGED accepted

EpollWorker == EpollAccept \/ EpollRead

=============================================================================
