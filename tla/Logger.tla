-------------------------------- MODULE Logger --------------------------------
(***************************************************************************)
(* The logger: src/logger.cpp with src/messenger.cpp in front of it, from  *)
(* the moment main() has initialised it, and the way vtb.cpp uses it from  *)
(* its signal handler.                                                     *)
(*                                                                         *)
(* Any thread logs; a line goes into buffer_ under mutex_.  The flush      *)
(* thread takes what is there every 100 ms, and once more when the         *)
(* destructor has lowered running_.  A line above the level is dropped     *)
(* before anything is touched, so it is no step here.                      *)
(*                                                                         *)
(* SIGINT and SIGTERM are handled by the main thread, on top of whatever   *)
(* it is doing, and the handler logs.  mutex_ is not recursive.            *)
(***************************************************************************)
EXTENDS Integers, Sequences, FiniteSets

CONSTANTS
  Others,      \* the threads besides main that log
  Signals,     \* signals that arrive, each of them once
  MaxLines     \* bound: lines a thread logs, outside a signal handler

ASSUME OthersAssumption == IsFiniteSet(Others) /\ "main" \notin Others
                           /\ "flusher" \notin Others /\ "free" \notin Others
ASSUME SignalsAssumption == IsFiniteSet(Signals) /\ "none" \notin Signals
ASSUME MaxLinesAssumption == MaxLines \in Nat

Callers == Others \cup {"main"}
MaxLine == MaxLines + Cardinality(Signals)
Lines == Callers \X (1 .. MaxLine)
Frames == [sig : Signals \cup {"none"}, stage : {"locking", "locked"}, line : Lines]

VARIABLES
  calls,           \* thread -> log() calls in progress; an interrupted one is below
  sent,            \* thread -> lines handed to log() so far
  arrived,         \* signals that have arrived
  stop_blocking_,
  phase,           \* of main: "up", then the steps of ~Logger
  mutex_,          \* its owner, or "free"
  running_,
  buffer_,
  flush,           \* where the flush thread is
  to_write,        \* its copy of the buffer: to_write, then final_content
  written          \* lines that are out

callerVars == <<calls, sent, arrived, stop_blocking_>>
flushVars == <<flush, to_write, written>>
vars == <<callerVars, phase, mutex_, running_, buffer_, flushVars>>

Init ==
  /\ calls = [c \in Callers |-> <<>>]
  /\ sent = [c \in Callers |-> 0]
  /\ arrived = {}
  /\ stop_blocking_ = FALSE
  /\ phase = "up"
  /\ mutex_ = "free"
  /\ running_ = TRUE
  /\ buffer_ = <<>>
  /\ flush = "test"
  /\ to_write = <<>>
  /\ written = <<>>

-----------------------------------------------------------------------------
(* log(), called by a thread or by the signal handler.                      *)

Top(c) == calls[c][Len(calls[c])]

Enter(c, sig) ==
  /\ sent' = [sent EXCEPT ![c] = @ + 1]
  /\ calls' = [calls EXCEPT ![c] =
                 Append(@, [sig |-> sig, stage |-> "locking", line |-> <<c, sent'[c]>>])]

Call(c) ==
  /\ calls[c] = <<>>
  /\ phase # "ended" /\ (c = "main" => phase = "up")
  /\ sent[c] < MaxLines
  /\ Enter(c, "none")
  /\ UNCHANGED <<arrived, stop_blocking_, phase, mutex_, running_, buffer_, flushVars>>

Interrupt(sig) ==
  /\ sig \notin arrived
  /\ phase # "ended"
  /\ arrived' = arrived \cup {sig}
  /\ Enter("main", sig)
  /\ UNCHANGED <<stop_blocking_, phase, mutex_, running_, buffer_, flushVars>>

(* Mutant: mutex_ is recursive. *)
Lock_recursive(c) ==
  /\ calls[c] # <<>>
  /\ Top(c).stage = "locking"
  /\ mutex_ \in {"free", c}
  /\ mutex_' = c
  /\ calls' = [calls EXCEPT ![c][Len(calls[c])].stage = "locked"]
  /\ UNCHANGED <<sent, arrived, stop_blocking_, phase, running_, buffer_, flushVars>>

Lock(c) ==
  /\ calls[c] # <<>>
  /\ Top(c).stage = "locking"
  /\ mutex_ = "free"
  /\ mutex_' = c
  /\ calls' = [calls EXCEPT ![c][Len(calls[c])].stage = "locked"]
  /\ UNCHANGED <<sent, arrived, stop_blocking_, phase, running_, buffer_, flushVars>>

(* Mutant: the mutex is not given back. *)
Add_keeps_mutex(c) ==
  /\ calls[c] # <<>>
  /\ Top(c).stage = "locked"
  /\ buffer_' = Append(buffer_, Top(c).line)
  /\ calls' = [calls EXCEPT ![c] = SubSeq(@, 1, Len(@) - 1)]
  /\ stop_blocking_' = (stop_blocking_ \/ Top(c).sig # "none")
  /\ UNCHANGED <<mutex_, sent, arrived, phase, running_, flushVars>>

(* The handler raises stop_blocking_ after its line is in. *)
Add(c) ==
  /\ calls[c] # <<>>
  /\ Top(c).stage = "locked"
  /\ buffer_' = Append(buffer_, Top(c).line)
  /\ mutex_' = "free"
  /\ calls' = [calls EXCEPT ![c] = SubSeq(@, 1, Len(@) - 1)]
  /\ stop_blocking_' = (stop_blocking_ \/ Top(c).sig # "none")
  /\ UNCHANGED <<sent, arrived, phase, running_, flushVars>>

-----------------------------------------------------------------------------
(* flush_loop().                                                            *)

callerSide == <<callerVars, phase, running_>>   \* what the flush thread leaves alone

(* Mutant: the loop is left without the final drain. *)
FlushTest_no_drain ==
  /\ flush = "test"
  /\ flush' = IF running_ THEN "lock" ELSE "done"
  /\ UNCHANGED <<callerSide, mutex_, buffer_, to_write, written>>

FlushTest ==
  /\ flush = "test"
  /\ flush' = IF running_ THEN "lock" ELSE "drain"
  /\ UNCHANGED <<callerSide, mutex_, buffer_, to_write, written>>

(* wait_for evaluates its predicate with the mutex held, then gives the    *)
(* mutex back and sleeps in one step.  The destructor takes no mutex, so   *)
(* it may come in between.                                                 *)
FlushCheck ==
  /\ flush = "lock"
  /\ mutex_ = "free"
  /\ IF running_ THEN flush' = "block" /\ mutex_' = "flusher"
                 ELSE flush' = "copy" /\ UNCHANGED mutex_
  /\ UNCHANGED <<callerSide, buffer_, to_write, written>>

FlushBlock ==
  /\ flush = "block"
  /\ flush' = "asleep"
  /\ mutex_' = "free"
  /\ UNCHANGED <<callerSide, buffer_, to_write, written>>

FlushTimeout ==
  /\ flush = "asleep"
  /\ flush' = "awake"
  /\ UNCHANGED <<callerSide, mutex_, buffer_, to_write, written>>

(* wait_for takes the mutex to return, and the block gives it back. *)
FlushReturn ==
  /\ flush = "awake"
  /\ mutex_ = "free"
  /\ flush' = "copy"
  /\ UNCHANGED <<callerSide, mutex_, buffer_, to_write, written>>

(* Mutant: the buffer is not emptied. *)
FlushCopy_kept ==
  /\ flush = "copy"
  /\ mutex_ = "free"
  /\ to_write' = buffer_
  /\ flush' = IF buffer_ = <<>> THEN "test" ELSE "write"
  /\ UNCHANGED <<callerSide, mutex_, buffer_, written>>

FlushCopy ==
  /\ flush = "copy"
  /\ mutex_ = "free"
  /\ to_write' = buffer_
  /\ buffer_' = <<>>
  /\ flush' = IF buffer_ = <<>> THEN "test" ELSE "write"
  /\ UNCHANGED <<callerSide, mutex_, written>>

FlushWrite ==
  /\ flush = "write"
  /\ written' = written \o to_write
  /\ to_write' = <<>>
  /\ flush' = "test"
  /\ UNCHANGED <<callerSide, mutex_, buffer_>>

(* The final drain leaves the buffer as it is. *)
FlushDrain ==
  /\ flush = "drain"
  /\ mutex_ = "free"
  /\ to_write' = buffer_
  /\ flush' = "last"
  /\ UNCHANGED <<callerSide, mutex_, buffer_, written>>

FlushLast ==
  /\ flush = "last"
  /\ written' = written \o to_write
  /\ flush' = "done"
  /\ UNCHANGED <<callerSide, mutex_, buffer_, to_write>>

Flush ==
  FlushTest \/ FlushCheck \/ FlushBlock \/ FlushTimeout \/ FlushReturn
    \/ FlushCopy \/ FlushWrite \/ FlushDrain \/ FlushLast

-----------------------------------------------------------------------------
(* main: it returns when it is told to stop, or earlier when its start-up  *)
(* fails, and the logger is destroyed on the way out of the process.  The  *)
(* process ends without waiting for the other threads.                     *)

(* Mutant: the destructor does not lower running_. *)
Destroy_running ==
  /\ phase = "up" /\ calls["main"] = <<>>
  /\ phase' = "notify"
  /\ UNCHANGED <<callerVars, mutex_, running_, buffer_, flushVars>>

Destroy ==
  /\ phase = "up" /\ calls["main"] = <<>>
  /\ running_' = FALSE
  /\ phase' = "notify"
  /\ UNCHANGED <<callerVars, mutex_, buffer_, flushVars>>

Notify ==
  /\ phase = "notify" /\ calls["main"] = <<>>
  /\ flush' = IF flush = "asleep" THEN "awake" ELSE flush
  /\ phase' = "join"
  /\ UNCHANGED <<callerVars, mutex_, running_, buffer_, to_write, written>>

Join ==
  /\ phase = "join" /\ calls["main"] = <<>>
  /\ flush = "done"
  /\ phase' = "ended"
  /\ UNCHANGED <<callerVars, mutex_, running_, buffer_, flushVars>>

Next ==
  \/ Destroy \/ Notify \/ Join
  \/ /\ phase # "ended"
     /\ Flush \/ \E c \in Callers : Call(c) \/ Lock(c) \/ Add(c)
  \/ \E sig \in Signals : Interrupt(sig)

(* Threads run.  A thread that waits for the mutex gets it in the end: the *)
(* flush thread leaves it free for most of every 100 ms.  No thread is     *)
(* bound to log, and no signal to arrive.                                  *)
Spec ==
  /\ Init
  /\ [][Next]_vars
  /\ SF_vars(phase # "ended" /\ Flush)
  /\ \A c \in Callers : SF_vars(phase # "ended" /\ Lock(c)) /\ WF_vars(phase # "ended" /\ Add(c))
  /\ WF_vars(stop_blocking_ /\ Destroy) /\ WF_vars(Notify) /\ WF_vars(Join)

-----------------------------------------------------------------------------
(* Every variable holds a value of its kind, and mutex_ belongs to the     *)
(* call that is between taking it and giving it back.                      *)
TypeOK ==
  /\ calls \in [Callers -> Seq(Frames)]
  /\ \A c \in Callers :
       mutex_ = c <=> \E i \in 1 .. Len(calls[c]) : calls[c][i].stage = "locked"
  /\ mutex_ = "flusher" <=> flush = "block"
  /\ sent \in [Callers -> 0 .. MaxLine]
  /\ arrived \subseteq Signals
  /\ stop_blocking_ \in BOOLEAN /\ running_ \in BOOLEAN
  /\ phase \in {"up", "notify", "join", "ended"}
  /\ flush \in {"test", "lock", "block", "asleep", "awake", "copy", "write",
                "drain", "last", "done"}
  /\ buffer_ \in Seq(Lines) /\ to_write \in Seq(Lines) /\ written \in Seq(Lines)

(* The lines that have been accepted: those that are out, those on their   *)
(* way, and those in the buffer that the final drain has not taken.        *)
Taken == IF flush = "done" THEN <<>> ELSE to_write
Waiting == IF flush \in {"last", "done"}
             THEN SubSeq(buffer_, Len(to_write) + 1, Len(buffer_)) ELSE buffer_

Log == INSTANCE LineLog WITH accepted <- written \o Taken \o Waiting

(* Every line is written at most once and in the order of the calls that   *)
(* put it into the buffer, whoever interrupts or overtakes whom.           *)
WritesInOrder == Log!Spec

In(line, lines) == \E i \in 1 .. Len(lines) : lines[i] = line

(* The main thread waits for a mutex that it holds itself.                 *)
Caught ==
  mutex_ = "main" /\ calls["main"] # <<>> /\ Top("main").stage = "locking"

(* Once main is caught it stays so: nobody else can give the mutex back,   *)
(* no later handler gets further than the first, and the process never     *)
(* ends.                                                                   *)
CaughtForGood == [][Caught => Caught' /\ phase' # "ended"]_vars

(* Only main is ever kept from giving mutex_ back, and only by a signal: a *)
(* call that holds it is on top of its thread's calls, where its next step *)
(* gives it back, unless a handler has interrupted it.                     *)
HolderReleases ==
  \A c \in Callers :
    mutex_ = c =>
      /\ calls[c] # <<>>
      /\ Top(c).stage = "locked" \/ (c = "main" /\ Top(c).sig # "none")

(* A line that is in the buffer before the final drain is written in the   *)
(* end, unless a signal has caught the main thread inside log().           *)
LinesReachTheFile ==
  \A line \in Lines :
    In(line, buffer_) /\ flush \notin {"last", "done"} ~> In(line, written) \/ Caught

(* The destructor ends, and the process with it, unless a signal catches   *)
(* the main thread: a missed notification costs an interval, no more.      *)
DestructorEnds == phase # "up" ~> phase = "ended" \/ Caught

(* "assign signal handler for graceful exit": once a signal has arrived,   *)
(* the process ends.                                                       *)
GracefulExit == arrived # {} ~> phase = "ended"

=============================================================================
