---------------------------- MODULE LoggerProofs ----------------------------
(***************************************************************************)
(* The logger writes each accepted line once and in order: Logger          *)
(* implements LineLog, for any number of threads, lines and signals.       *)
(*                                                                         *)
(* The invariant says where lines are: a line belongs to one call at most, *)
(* is no longer in a call once it is accepted, and no call of a thread     *)
(* will get a number it had before; the flush thread's copy is empty       *)
(* unless it is about to be written, and what the final drain has taken is *)
(* still at the front of the buffer.                                       *)
(*                                                                         *)
(* The last section is about the mutex: who can keep it, and that a main   *)
(* thread caught by a signal inside log() stays caught.                    *)
(***************************************************************************)
EXTENDS Logger, SequenceTheorems, FiniteSetTheorems, TLAPS

Accepted == written \o Taken \o Waiting

(* Only main is interrupted, and only by signals; it returns to the end of *)
(* the process with no call in progress.                                   *)
NestOK ==
  /\ \A c \in Callers : \A i \in 2 .. Len(calls[c]) : c = "main" /\ calls[c][i].sig # "none"
  /\ phase = "ended" => calls["main"] = <<>>

CallsOK ==
  \A c \in Callers :
    /\ sent[c] <= MaxLines + (IF c = "main" THEN Cardinality(arrived) ELSE 0)
    /\ \A i \in 1 .. Len(calls[c]) :
         /\ calls[c][i].line[1] = c
         /\ calls[c][i].line[2] <= sent[c]
         /\ \A j \in 1 .. Len(calls[c]) : i # j =>
              /\ calls[c][i].line # calls[c][j].line
              /\ ~(calls[c][i].stage = "locked" /\ calls[c][j].stage = "locked")

FlushOK ==
  /\ flush \notin {"write", "last", "done"} => to_write = <<>>
  /\ flush = "write" => to_write # <<>>
  /\ flush \in {"last", "done"} => Len(to_write) <= Len(buffer_)

(* A line that is accepted has left its call and carries a number that its *)
(* thread has used.                                                        *)
AcceptedOK ==
  \A k \in 1 .. Len(Accepted) :
    /\ Accepted[k][2] <= sent[Accepted[k][1]]
    /\ \A c \in Callers : \A i \in 1 .. Len(calls[c]) : calls[c][i].line # Accepted[k]

-----------------------------------------------------------------------------
(* Sequences.                                                               *)

LEMMA ConcatAppend ==
  ASSUME NEW S, NEW s \in Seq(S), NEW t \in Seq(S), NEW e \in S
  PROVE  s \o Append(t, e) = Append(s \o t, e)
  OBVIOUS

LEMMA ConcatPrefix ==
  ASSUME NEW S, NEW s \in Seq(S), NEW t \in Seq(S)
  PROVE  SubSeq(s \o t, 1, Len(s)) = s
  OBVIOUS

LEMMA AppendElement ==
  ASSUME NEW S, NEW s \in Seq(S), NEW e \in S
  PROVE  /\ \A k \in 1 .. Len(s) : Append(s, e)[k] = s[k]
         /\ Append(s, e)[Len(s) + 1] = e
  OBVIOUS

LEMMA SubSeqAppend ==
  ASSUME NEW S, NEW s \in Seq(S), NEW e \in S, NEW n \in Nat, n <= Len(s)
  PROVE  /\ SubSeq(s, n + 1, Len(s)) \in Seq(S)
         /\ SubSeq(Append(s, e), n + 1, Len(Append(s, e)))
              = Append(SubSeq(s, n + 1, Len(s)), e)
<1> DEFINE t == Append(s, e)
           u == SubSeq(s, n + 1, Len(s))
           v == SubSeq(t, n + 1, Len(t))
<1>1. /\ t \in Seq(S) /\ Len(t) = Len(s) + 1
      /\ \A i \in 1 .. Len(s) : t[i] = s[i]
      /\ t[Len(s) + 1] = e
  OBVIOUS
<1> HIDE DEF t
<1>2. /\ u \in Seq(S)
      /\ Len(u) = Len(s) - n
      /\ \A i \in 1 .. Len(s) - n : u[i] = s[n + i]
  <2>1. /\ n + 1 \in Int /\ Len(s) \in Int
        /\ \A i \in (n + 1) .. Len(s) : s[i] \in S
    OBVIOUS
  <2> QED
    BY <2>1, SubSeqProperties
<1>3. /\ v \in Seq(S)
      /\ Len(v) = Len(s) - n + 1
      /\ \A i \in 1 .. Len(s) - n + 1 : v[i] = t[n + i]
  <2>1. /\ n + 1 \in Int /\ Len(t) \in Int
        /\ \A i \in (n + 1) .. Len(t) : t[i] \in S
    BY <1>1
  <2> QED
    BY <1>1, <2>1, SubSeqProperties
<1> HIDE DEF u, v
<1>4. /\ Append(u, e) \in Seq(S)
      /\ Len(Append(u, e)) = Len(u) + 1
      /\ \A i \in 1 .. Len(u) : Append(u, e)[i] = u[i]
      /\ Append(u, e)[Len(u) + 1] = e
  BY <1>2
<1>5. v = Append(u, e)
  <2>1. Len(v) = Len(u) + 1 /\ Len(u) \in Nat
    BY <1>2, <1>3
  <2>2. \A i \in 1 .. Len(u) : v[i] = u[i]
    <3>1. ASSUME NEW i \in 1 .. Len(u)
          PROVE  v[i] = u[i]
      <4>1. i \in 1 .. Len(s) - n /\ i \in 1 .. Len(s) - n + 1 /\ n + i \in 1 .. Len(s)
        BY <1>2
      <4> QED
        BY <1>1, <1>2, <1>3, <4>1
    <3> QED
      BY <3>1
  <2>3. v[Len(u) + 1] = e
    <3>1. Len(u) + 1 \in 1 .. Len(s) - n + 1 /\ n + (Len(u) + 1) = Len(s) + 1
      BY <1>2
    <3> QED
      BY <1>1, <1>3, <3>1
  <2>4. \A i \in 1 .. Len(v) : v[i] = Append(u, e)[i]
    BY <1>4, <2>1, <2>2, <2>3
  <2> QED
    BY <1>3, <1>4, <2>1, <2>4, SeqEqual
<1> QED
  BY <1>2, <1>5 DEF t, u, v

LEMMA SubSeqNone ==
  ASSUME NEW S, NEW s \in Seq(S)
  PROVE  SubSeq(s, Len(s) + 1, Len(s)) = <<>>
  OBVIOUS

-----------------------------------------------------------------------------
(* Calls.                                                                   *)

LEMMA Numbers ==
  /\ MaxLine \in Nat /\ MaxLines \in Nat /\ MaxLines <= MaxLine
  /\ \A T \in SUBSET Signals :
       /\ IsFiniteSet(T)
       /\ Cardinality(T) \in Nat
       /\ MaxLines + Cardinality(T) <= MaxLine
<1>1. Cardinality(Signals) \in Nat
  BY SignalsAssumption, FS_CardinalityType
<1>2. ASSUME NEW T \in SUBSET Signals
      PROVE  IsFiniteSet(T) /\ Cardinality(T) \in Nat /\ Cardinality(T) <= Cardinality(Signals)
  BY SignalsAssumption, FS_Subset, FS_CardinalityType
<1> QED
  BY <1>1, <1>2, MaxLinesAssumption DEF MaxLine

(* A new call is on top of those of its thread and has the next number. *)
LEMMA EnterEffect ==
  ASSUME TypeOK, NEW c \in Callers, NEW sig \in Signals \cup {"none"},
         Enter(c, sig), sent[c] < MaxLine
  PROVE  /\ calls' \in [Callers -> Seq(Frames)]
         /\ sent' \in [Callers -> 0 .. MaxLine]
         /\ sent'[c] = sent[c] + 1
         /\ \A d \in Callers \ {c} : calls'[d] = calls[d] /\ sent'[d] = sent[d]
         /\ Len(calls'[c]) = Len(calls[c]) + 1
         /\ \A i \in 1 .. Len(calls[c]) : calls'[c][i] = calls[c][i]
         /\ calls'[c][Len(calls[c]) + 1].line = <<c, sent[c] + 1>>
         /\ calls'[c][Len(calls[c]) + 1].stage = "locking"
         /\ calls'[c][Len(calls[c]) + 1].sig = sig
<1> DEFINE frame == [sig |-> sig, stage |-> "locking", line |-> <<c, sent'[c]>>]
<1>1. /\ calls \in [Callers -> Seq(Frames)]
      /\ sent \in [Callers -> 0 .. MaxLine]
  BY DEF TypeOK
<1>2. /\ sent' = [sent EXCEPT ![c] = sent[c] + 1]
      /\ calls' = [calls EXCEPT ![c] = Append(calls[c], frame)]
  BY DEF Enter
<1>3. sent'[c] = sent[c] + 1 /\ sent' \in [Callers -> 0 .. MaxLine]
  BY <1>1, <1>2, Numbers
<1>4. frame \in Frames
  BY <1>1, <1>3, Numbers DEF Frames, Lines
<1>5. frame.line = <<c, sent[c] + 1>> /\ frame.stage = "locking" /\ frame.sig = sig
  BY <1>3
<1> HIDE DEF frame
<1>6. calls[c] \in Seq(Frames)
  BY <1>1
<1> QED
  BY <1>1, <1>2, <1>3, <1>4, <1>5, <1>6

LEMMA LockEffect ==
  ASSUME TypeOK, NEW c \in Callers, Lock(c)
  PROVE  /\ calls' \in [Callers -> Seq(Frames)]
         /\ \A d \in Callers \ {c} : calls'[d] = calls[d]
         /\ Len(calls[c]) \in Nat \ {0}
         /\ Len(calls'[c]) = Len(calls[c])
         /\ \A i \in 1 .. Len(calls[c]) :
              /\ calls'[c][i].line = calls[c][i].line
              /\ calls'[c][i].sig = calls[c][i].sig
              /\ i # Len(calls[c]) => calls'[c][i].stage = calls[c][i].stage
         /\ calls'[c][Len(calls[c])].stage = "locked"
<1> DEFINE s == calls[c]
           n == Len(s)
           t == [s EXCEPT ![n].stage = "locked"]
<1>1. calls \in [Callers -> Seq(Frames)] /\ s \in Seq(Frames) /\ s # <<>>
  BY DEF TypeOK, Lock
<1>2. n \in Nat \ {0} /\ n \in 1 .. n /\ \A i \in 1 .. n : s[i] \in Frames
  BY <1>1, EmptySeq, LenProperties, ElementOfSeq
<1>3. calls' = [calls EXCEPT ![c] = t]
  BY DEF Lock
<1>4. [s[n] EXCEPT !.stage = "locked"] \in Frames
  BY <1>2 DEF Frames
<1>5. t = [s EXCEPT ![n] = [s[n] EXCEPT !.stage = "locked"]]
  OBVIOUS
<1> DEFINE f == [s[n] EXCEPT !.stage = "locked"]
<1>6. f.line = s[n].line /\ f.sig = s[n].sig /\ f.stage = "locked"
  BY <1>2 DEF Frames
<1> HIDE DEF f
<1>7. /\ t \in Seq(Frames)
      /\ Len(t) = n
      /\ \A i \in 1 .. n : t[i] = IF i = n THEN f ELSE s[i]
  <2>1. f \in Frames /\ t = [s EXCEPT ![n] = f]
    BY <1>4, <1>5 DEF f
  <2> HIDE DEF t
  <2> QED
    BY <1>1, <1>2, <2>1, ExceptSeq
<1> HIDE DEF t
<1> QED
  BY <1>1, <1>2, <1>3, <1>6, <1>7

LEMMA AddEffect ==
  ASSUME TypeOK, NEW c \in Callers, Add(c)
  PROVE  /\ calls' \in [Callers -> Seq(Frames)]
         /\ \A d \in Callers \ {c} : calls'[d] = calls[d]
         /\ Len(calls[c]) \in Nat \ {0}
         /\ Len(calls'[c]) = Len(calls[c]) - 1
         /\ \A i \in 1 .. Len(calls[c]) - 1 : calls'[c][i] = calls[c][i]
         /\ Top(c) \in Frames
         /\ Top(c) = calls[c][Len(calls[c])]
<1> DEFINE s == calls[c]
           n == Len(s)
<1>1. calls \in [Callers -> Seq(Frames)] /\ s \in Seq(Frames) /\ s # <<>>
  BY DEF TypeOK, Add
<1>2. n \in Nat \ {0} /\ n \in 1 .. n /\ \A i \in 1 .. n : s[i] \in Frames
  BY <1>1, EmptySeq, LenProperties, ElementOfSeq
<1>3. calls' = [calls EXCEPT ![c] = SubSeq(s, 1, n - 1)]
  BY DEF Add
<1>4. /\ SubSeq(s, 1, n - 1) \in Seq(Frames)
      /\ Len(SubSeq(s, 1, n - 1)) = n - 1
      /\ \A i \in 1 .. n - 1 : SubSeq(s, 1, n - 1)[i] = s[i]
  <2>1. 1 \in Int /\ n - 1 \in Int /\ \A i \in 1 .. (n - 1) : s[i] \in Frames
    BY <1>2
  <2> QED
    BY <1>2, <2>1, SubSeqProperties
<1> QED
  BY <1>1, <1>2, <1>3, <1>4 DEF Top

-----------------------------------------------------------------------------
(* The invariant.                                                           *)

LEMMA CallsEnter ==
  ASSUME TypeOK, CallsOK, NEW c \in Callers, NEW sig \in Signals \cup {"none"},
         Enter(c, sig), sent[c] < MaxLine,
         sent[c] + 1 <= MaxLines + (IF c = "main" THEN Cardinality(arrived') ELSE 0),
         \A d \in Callers \ {c} :
           sent[d] <= MaxLines + (IF d = "main" THEN Cardinality(arrived') ELSE 0)
  PROVE  CallsOK'
<1> SUFFICES ASSUME NEW d \in Callers
             PROVE  CallsOK!(d)'
  BY DEF CallsOK
<1>1. CASE d # c
  BY <1>1, EnterEffect, SMTT(30) DEF CallsOK
<1>2. CASE d = c
  <2> DEFINE n == Len(calls[c])
  <2>1. n \in Nat /\ sent[c] \in Nat
    BY DEF TypeOK
  <2>2. ASSUME NEW i \in 1 .. n
        PROVE  /\ calls[c][i].line[1] = c
               /\ calls[c][i].line[2] <= sent[c]
               /\ calls[c][i].line[2] \in Nat
    <3>1. calls[c][i] \in Frames
      BY DEF TypeOK
    <3>2. calls[c][i].line \in Callers \X (1 .. MaxLine)
      BY <3>1 DEF Frames, Lines
    <3> QED
      BY <3>2, Numbers DEF CallsOK
  <2>3. /\ calls'[c][n + 1].line[1] = c
        /\ calls'[c][n + 1].line[2] = sent[c] + 1
        /\ calls'[c][n + 1].stage # "locked"
    BY EnterEffect
  <2>4. ASSUME NEW i \in 1 .. Len(calls'[c])
        PROVE  /\ calls'[c][i].line[1] = c
               /\ calls'[c][i].line[2] <= sent'[c]
    <3>1. i \in 1 .. n \/ i = n + 1
      BY <2>1, EnterEffect
    <3>2. sent'[c] = sent[c] + 1
      BY EnterEffect
    <3>3. CASE i \in 1 .. n
      <4>1. calls'[c][i] = calls[c][i]
        BY <3>3, EnterEffect
      <4> QED
        BY <2>1, <2>2, <3>2, <3>3, <4>1
    <3>4. CASE i = n + 1
      BY <2>1, <2>3, <3>2, <3>4
    <3> QED
      BY <3>1, <3>3, <3>4
  <2>5. ASSUME NEW i \in 1 .. Len(calls'[c]), NEW j \in 1 .. Len(calls'[c]), i # j
        PROVE  /\ calls'[c][i].line # calls'[c][j].line
               /\ ~(calls'[c][i].stage = "locked" /\ calls'[c][j].stage = "locked")
    <3>1. i \in 1 .. n \/ i = n + 1
      BY <2>1, EnterEffect
    <3>2. j \in 1 .. n \/ j = n + 1
      BY <2>1, EnterEffect
    <3>3. CASE i \in 1 .. n /\ j \in 1 .. n
      <4>1. calls'[c][i] = calls[c][i] /\ calls'[c][j] = calls[c][j]
        BY <3>3, EnterEffect
      <4> QED
        BY <2>5, <3>3, <4>1 DEF CallsOK
    <3>4. CASE i = n + 1 /\ j \in 1 .. n
      <4>1. calls'[c][j] = calls[c][j]
        BY <3>4, EnterEffect
      <4>2. calls'[c][j].line[2] <= sent[c] /\ calls'[c][j].line[2] \in Nat
        BY <2>2, <3>4, <4>1
      <4>3. calls'[c][i].line[2] # calls'[c][j].line[2]
        BY <2>1, <2>3, <3>4, <4>2
      <4> QED
        BY <2>3, <3>4, <4>3
    <3>5. CASE j = n + 1 /\ i \in 1 .. n
      <4>1. calls'[c][i] = calls[c][i]
        BY <3>5, EnterEffect
      <4>2. calls'[c][i].line[2] <= sent[c] /\ calls'[c][i].line[2] \in Nat
        BY <2>2, <3>5, <4>1
      <4>3. calls'[c][i].line[2] # calls'[c][j].line[2]
        BY <2>1, <2>3, <3>5, <4>2
      <4> QED
        BY <2>3, <3>5, <4>3
    <3> QED
      BY <2>5, <3>1, <3>2, <3>3, <3>4, <3>5
  <2>6. sent'[c] = sent[c] + 1
    BY EnterEffect
  <2> QED
    BY <1>2, <2>4, <2>5, <2>6
<1> QED
  BY <1>1, <1>2

(* A handler's line has a number left, whatever main has logged. *)
LEMMA InterruptRoom ==
  ASSUME TypeOK, CallsOK, NEW sig \in Signals, Interrupt(sig)
  PROVE  /\ sent["main"] < MaxLine
         /\ sent["main"] + 1 <= MaxLines + Cardinality(arrived')
<1>1. /\ "main" \in Callers
      /\ arrived \in SUBSET Signals
      /\ arrived' = arrived \cup {sig}
      /\ arrived' \in SUBSET Signals
  BY DEF TypeOK, Interrupt, Callers
<1>2. Cardinality(arrived') = Cardinality(arrived) + 1
  BY <1>1, Numbers, FS_AddElement DEF Interrupt
<1>3. sent["main"] <= MaxLines + Cardinality(arrived)
  BY <1>1 DEF CallsOK
<1>4. /\ Cardinality(arrived) \in Nat
      /\ Cardinality(arrived') \in Nat
      /\ MaxLines + Cardinality(arrived') <= MaxLine
      /\ MaxLines \in Nat /\ MaxLine \in Nat /\ sent["main"] \in Nat
  BY <1>1, Numbers DEF TypeOK
<1> QED
  BY <1>2, <1>3, <1>4

LEMMA NextCalls == TypeOK /\ CallsOK /\ [Next]_vars => CallsOK'
<1> SUFFICES ASSUME TypeOK, CallsOK, [Next]_vars
             PROVE  CallsOK'
  OBVIOUS
<1>1. arrived \in SUBSET Signals /\ \A c \in Callers : sent[c] \in Nat
  BY DEF TypeOK
<1>2. ASSUME NEW c \in Callers, Call(c)
      PROVE  CallsOK'
  <2>1. /\ "none" \in Signals \cup {"none"}
        /\ Enter(c, "none")
        /\ arrived' = arrived
        /\ sent[c] < MaxLines
    BY <1>2 DEF Call
  <2>2. sent[c] < MaxLine
    BY <1>1, <2>1, Numbers
  <2>3. sent[c] + 1 <= MaxLines + (IF c = "main" THEN Cardinality(arrived') ELSE 0)
    BY <1>1, <2>1, Numbers
  <2>4. \A d \in Callers \ {c} :
          sent[d] <= MaxLines + (IF d = "main" THEN Cardinality(arrived') ELSE 0)
    BY <2>1 DEF CallsOK
  <2> QED
    BY <2>1, <2>2, <2>3, <2>4, CallsEnter
<1>3. ASSUME NEW sig \in Signals, Interrupt(sig)
      PROVE  CallsOK'
  <2>1. /\ "main" \in Callers
        /\ sig \in Signals \cup {"none"}
        /\ Enter("main", sig)
    BY <1>3 DEF Interrupt, Callers
  <2>2. /\ sent["main"] < MaxLine
        /\ sent["main"] + 1 <= MaxLines + (IF "main" = "main" THEN Cardinality(arrived') ELSE 0)
    BY <1>3, InterruptRoom
  <2>3. \A d \in Callers \ {"main"} :
          sent[d] <= MaxLines + (IF d = "main" THEN Cardinality(arrived') ELSE 0)
    BY DEF CallsOK
  <2> QED
    BY <2>1, <2>2, <2>3, CallsEnter
<1>4. ASSUME NEW c \in Callers, Lock(c)
      PROVE  CallsOK'
  <2>1. UNCHANGED <<sent, arrived>>
    BY <1>4 DEF Lock
  <2>2. \A d \in Callers : \A i \in 1 .. Len(calls[d]) : calls[d][i].stage # "locked"
    <3>1. mutex_ = "free"
      BY <1>4 DEF Lock
    <3> QED
      BY <3>1, OthersAssumption DEF TypeOK, Callers
  <2>3. ASSUME NEW d \in Callers
        PROVE  CallsOK!(d)'
    <3>1. CASE d # c
      BY <1>4, <2>1, <3>1, LockEffect DEF CallsOK
    <3>2. CASE d = c
      BY <1>4, <2>1, <2>2, <3>2, LockEffect DEF CallsOK
    <3> QED
      BY <3>1, <3>2
  <2> QED
    BY <2>3 DEF CallsOK
<1>5. ASSUME NEW c \in Callers, Add(c)
      PROVE  CallsOK'
  <2>1. UNCHANGED <<sent, arrived>>
    BY <1>5 DEF Add
  <2>2. ASSUME NEW d \in Callers
        PROVE  CallsOK!(d)'
    <3>1. CASE d # c
      BY <1>5, <2>1, <3>1, AddEffect DEF CallsOK
    <3>2. CASE d = c
      <4>1. \A i \in 1 .. Len(calls'[c]) :
              i \in 1 .. Len(calls[c]) /\ calls'[c][i] = calls[c][i]
        BY <1>5, AddEffect, SMTT(30)
      <4> QED
        BY <2>1, <3>2, <4>1, SMTT(30) DEF CallsOK
    <3> QED
      BY <3>1, <3>2
  <2> QED
    BY <2>2 DEF CallsOK
<1>6. CASE UNCHANGED callerVars
  BY <1>6 DEF CallsOK, callerVars
<1> QED
  BY <1>2, <1>3, <1>4, <1>5, <1>6
  DEF Next, vars, Flush, FlushTest, FlushCheck, FlushBlock, FlushTimeout, FlushReturn,
      FlushCopy, FlushWrite, FlushDrain, FlushLast, callerSide, Destroy, Notify, Join

LEMMA NextFlush == TypeOK /\ FlushOK /\ [Next]_vars => FlushOK'
<1> SUFFICES ASSUME TypeOK, FlushOK, [Next]_vars
             PROVE  FlushOK'
  OBVIOUS
<1>1. Len(buffer_) \in Nat /\ Len(to_write) \in Nat
  BY DEF TypeOK
<1>2. ASSUME NEW c \in Callers, Add(c)
      PROVE  FlushOK'
  <2>1. Top(c).line \in Lines
    BY <1>2, AddEffect DEF Frames
  <2>2. Len(buffer_') = Len(buffer_) + 1
    BY <1>2, <2>1 DEF Add, TypeOK
  <2> QED
    BY <1>1, <1>2, <2>2 DEF FlushOK, Add, flushVars
<1>3. CASE UNCHANGED <<buffer_, flushVars>>
  BY <1>3 DEF FlushOK, flushVars
<1>4. CASE Flush
  BY <1>1, <1>4
  DEF FlushOK, Flush, FlushTest, FlushCheck, FlushBlock, FlushTimeout, FlushReturn,
      FlushCopy, FlushWrite, FlushDrain, FlushLast
<1>5. CASE Notify
  BY <1>5 DEF FlushOK, Notify
<1> QED
  BY <1>2, <1>3, <1>4, <1>5
  DEF Next, vars, Call, Lock, Interrupt, Destroy, Join

(* mutex_ belongs to the one call that has taken it. *)
LEMMA NextType == TypeOK /\ CallsOK /\ [Next]_vars => TypeOK'
<1> SUFFICES ASSUME TypeOK, CallsOK, [Next]_vars
             PROVE  TypeOK'
  OBVIOUS
<1>1. arrived \in SUBSET Signals /\ \A c \in Callers : sent[c] \in Nat
  BY DEF TypeOK
<1>2. ASSUME NEW c \in Callers, NEW sig \in Signals \cup {"none"}, Enter(c, sig),
             sent[c] < MaxLine, arrived' \in SUBSET Signals,
             UNCHANGED <<stop_blocking_, phase, mutex_, running_, buffer_, flushVars>>
      PROVE  TypeOK'
  <2>1. calls' \in [Callers -> Seq(Frames)] /\ sent' \in [Callers -> 0 .. MaxLine]
    BY <1>2, EnterEffect
  <2>2. Len(calls[c]) \in Nat
    BY DEF TypeOK
  <2>3. ASSUME NEW d \in Callers
        PROVE  mutex_' = d <=> \E i \in 1 .. Len(calls'[d]) : calls'[d][i].stage = "locked"
    <3>1. mutex_' = mutex_
          /\ (mutex_ = d <=> \E i \in 1 .. Len(calls[d]) : calls[d][i].stage = "locked")
      BY <1>2 DEF TypeOK
    <3>2. CASE d # c
      BY <1>2, <3>1, <3>2, EnterEffect
    <3>3. CASE d = c
      <4>1. \A i \in 1 .. Len(calls[c]) : i \in 1 .. Len(calls'[c])
                                          /\ calls'[c][i] = calls[c][i]
        BY <1>2, <2>2, EnterEffect
      <4>2. \A i \in 1 .. Len(calls'[c]) :
              i \in 1 .. Len(calls[c]) \/ calls'[c][i].stage = "locking"
        BY <1>2, <2>2, EnterEffect
      <4> QED
        BY <3>1, <3>3, <4>1, <4>2
    <3> QED
      BY <3>2, <3>3
  <2> QED
    BY <1>2, <2>1, <2>3 DEF TypeOK, flushVars
<1>3. ASSUME NEW c \in Callers, Call(c)
      PROVE  TypeOK'
  <2>1. "none" \in Signals \cup {"none"} /\ arrived' = arrived
    BY <1>3 DEF Call
  <2>2. sent[c] < MaxLine
    BY <1>1, <1>3, Numbers DEF Call
  <2> QED
    BY <1>1, <1>2, <1>3, <2>1, <2>2 DEF Call
<1>4. ASSUME NEW sig \in Signals, Interrupt(sig)
      PROVE  TypeOK'
  <2>1. /\ "main" \in Callers
        /\ sig \in Signals \cup {"none"}
        /\ arrived' = arrived \cup {sig}
        /\ arrived' \in SUBSET Signals
    BY <1>1, <1>4 DEF Interrupt, Callers
  <2>2. Cardinality(arrived') = Cardinality(arrived) + 1
    BY <1>1, <1>4, <2>1, Numbers, FS_AddElement DEF Interrupt
  <2>3. sent["main"] <= MaxLines + Cardinality(arrived)
    BY <2>1 DEF CallsOK
  <2>4. /\ Cardinality(arrived) \in Nat
        /\ MaxLines + Cardinality(arrived') <= MaxLine
        /\ MaxLines \in Nat /\ MaxLine \in Nat /\ sent["main"] \in Nat
    BY <1>1, <2>1, Numbers
  <2>5. sent["main"] < MaxLine
    BY <2>2, <2>3, <2>4
  <2> QED
    BY <1>2, <1>4, <2>1, <2>5 DEF Interrupt
<1>5. ASSUME NEW c \in Callers, Lock(c)
      PROVE  TypeOK'
  <2>1. /\ mutex_ = "free" /\ mutex_' = c
        /\ c # "flusher" /\ "free" \notin Callers
        /\ UNCHANGED <<sent, arrived, stop_blocking_, phase, running_, buffer_, flushVars>>
    BY <1>5, OthersAssumption DEF Lock, Callers
  <2>2. \A d \in Callers : \A i \in 1 .. Len(calls[d]) : calls[d][i].stage # "locked"
    BY <2>1 DEF TypeOK
  <2>3. ASSUME NEW d \in Callers
        PROVE  mutex_' = d <=> \E i \in 1 .. Len(calls'[d]) : calls'[d][i].stage = "locked"
    <3>1. CASE d # c
      BY <1>5, <2>1, <2>2, <3>1, LockEffect
    <3>2. CASE d = c
      BY <1>5, <2>1, <3>2, LockEffect
    <3> QED
      BY <3>1, <3>2
  <2>4. calls' \in [Callers -> Seq(Frames)]
    BY <1>5, LockEffect
  <2> QED
    BY <2>1, <2>3, <2>4 DEF TypeOK, flushVars
<1>6. ASSUME NEW c \in Callers, Add(c)
      PROVE  TypeOK'
  <2>1. /\ mutex_' = "free"
        /\ "free" \notin Callers
        /\ buffer_' = Append(buffer_, Top(c).line)
        /\ stop_blocking_' \in BOOLEAN
        /\ UNCHANGED <<sent, arrived, phase, running_, flushVars>>
    BY <1>6, OthersAssumption DEF Add, Callers
  <2>2. /\ Top(c).stage = "locked"
        /\ Top(c) = calls[c][Len(calls[c])]
        /\ Len(calls[c]) \in 1 .. Len(calls[c])
    <3>1. Top(c).stage = "locked"
      BY <1>6 DEF Add
    <3>2. Top(c) = calls[c][Len(calls[c])]
      BY DEF Top
    <3>3. Len(calls[c]) \in Nat \ {0}
      BY <1>6, AddEffect
    <3> QED
      BY <3>1, <3>2, <3>3
  <2>3. mutex_ = c
    BY <2>2 DEF TypeOK
  <2>4. ASSUME NEW d \in Callers, NEW i \in 1 .. Len(calls'[d])
        PROVE  calls'[d][i].stage # "locked"
    <3>1. CASE d # c
      <4>1. calls'[d] = calls[d]
        BY <1>6, <3>1, AddEffect
      <4> QED
        BY <2>3, <2>4, <3>1, <4>1 DEF TypeOK
    <3>2. CASE d = c
      <4>1. i \in 1 .. Len(calls[c]) /\ i # Len(calls[c]) /\ calls'[c][i] = calls[c][i]
        BY <1>6, <2>4, <3>2, AddEffect
      <4> QED
        BY <2>2, <3>2, <4>1 DEF CallsOK
    <3> QED
      BY <3>1, <3>2
  <2>5. calls' \in [Callers -> Seq(Frames)] /\ Top(c).line \in Lines
    BY <1>6, AddEffect DEF Frames
  <2>6. buffer_' \in Seq(Lines)
    BY <2>1, <2>5 DEF TypeOK
  <2>7. flush # "block"
    BY <2>3, OthersAssumption DEF TypeOK, Callers
  <2>8. \A d \in Callers :
          mutex_' = d <=> \E i \in 1 .. Len(calls'[d]) : calls'[d][i].stage = "locked"
    BY <2>1, <2>4
  <2> QED
    BY <2>1, <2>5, <2>6, <2>7, <2>8 DEF TypeOK, flushVars
<1>7. CASE Flush
  <2>1. UNCHANGED <<calls, sent, arrived, stop_blocking_, phase, running_>>
    BY <1>7
    DEF Flush, FlushTest, FlushCheck, FlushBlock, FlushTimeout, FlushReturn, FlushCopy,
        FlushWrite, FlushDrain, FlushLast, callerSide, callerVars
  <2>2. \A c \in Callers : c # "flusher" /\ c # "free"
    BY OthersAssumption DEF Callers
  <2>3. /\ \A c \in Callers : mutex_' = c <=> mutex_ = c
        /\ mutex_' = "flusher" <=> flush' = "block"
    BY <1>7, <2>2
    DEF TypeOK, Flush, FlushTest, FlushCheck, FlushBlock, FlushTimeout, FlushReturn,
        FlushCopy, FlushWrite, FlushDrain, FlushLast
  <2>4. /\ flush' \in {"test", "lock", "block", "asleep", "awake", "copy", "write",
                       "drain", "last", "done"}
        /\ buffer_' \in Seq(Lines) /\ to_write' \in Seq(Lines)
    <3>1. <<>> \in Seq(Lines)
      BY EmptySeq
    <3> QED
      BY <1>7, <3>1
      DEF TypeOK, Flush, FlushTest, FlushCheck, FlushBlock, FlushTimeout, FlushReturn,
          FlushCopy, FlushWrite, FlushDrain, FlushLast
  <2>5. written' \in Seq(Lines)
    <3>1. written' = written \/ written' = written \o to_write
      BY <1>7
      DEF Flush, FlushTest, FlushCheck, FlushBlock, FlushTimeout, FlushReturn, FlushCopy,
          FlushWrite, FlushDrain, FlushLast
    <3>2. written \in Seq(Lines) /\ to_write \in Seq(Lines)
      BY DEF TypeOK
    <3>3. written \o to_write \in Seq(Lines)
      BY ONLY <3>2, ConcatProperties
    <3> QED
      BY ONLY <3>1, <3>2, <3>3
  <2> QED
    BY <2>1, <2>3, <2>4, <2>5 DEF TypeOK
<1>8. CASE Destroy \/ Join
  BY <1>8 DEF Destroy, Join, TypeOK, callerVars, flushVars
<1>9. CASE Notify
  BY <1>9 DEF Notify, TypeOK, callerVars
<1>10. CASE UNCHANGED vars
  BY <1>10 DEF vars, TypeOK, callerVars, flushVars
<1> QED
  BY <1>3, <1>4, <1>5, <1>6, <1>7, <1>8, <1>9, <1>10 DEF Next

-----------------------------------------------------------------------------
(* What each step does to the lines that are accepted and written.          *)

LEMMA Parts ==
  ASSUME TypeOK, FlushOK
  PROVE  /\ written \in Seq(Lines)
         /\ Taken \in Seq(Lines)
         /\ Waiting \in Seq(Lines)
         /\ written \o Taken \in Seq(Lines)
         /\ Accepted \in Seq(Lines)
<1>1. written \in Seq(Lines) /\ to_write \in Seq(Lines) /\ buffer_ \in Seq(Lines)
  BY DEF TypeOK
<1>2. Taken \in Seq(Lines)
  BY <1>1, EmptySeq DEF Taken
<1>3. Waiting \in Seq(Lines)
  <2>1. CASE flush \in {"last", "done"}
    <3>1. Len(to_write) \in Nat /\ Len(to_write) <= Len(buffer_)
      BY <1>1, <2>1 DEF FlushOK
    <3>2. \A i \in (Len(to_write) + 1) .. Len(buffer_) : buffer_[i] \in Lines
      BY <1>1, <3>1
    <3>3. SubSeq(buffer_, Len(to_write) + 1, Len(buffer_)) \in Seq(Lines)
      <4>1. Len(to_write) + 1 \in Int /\ Len(buffer_) \in Int
        BY <1>1
      <4> QED
        BY <3>2, <4>1, SubSeqProperties
    <3> QED
      BY <2>1, <3>3 DEF Waiting
  <2> QED
    BY <1>1, <2>1 DEF Waiting
<1> QED
  BY <1>1, <1>2, <1>3, ConcatProperties DEF Accepted

(* Add accepts the line on top. *)
LEMMA AddAccepts ==
  ASSUME TypeOK, FlushOK, NEW c \in Callers, Add(c)
  PROVE  /\ Accepted' = Append(Accepted, Top(c).line)
         /\ Top(c).line \in Lines
         /\ written' = written
<1> DEFINE line == Top(c).line
<1>1. /\ buffer_' = Append(buffer_, line)
      /\ UNCHANGED <<flush, to_write, written>>
  BY DEF Add, flushVars
<1>2. line \in Lines
  BY AddEffect DEF Frames
<1> HIDE DEF line
<1>3. Taken' = Taken
  BY <1>1 DEF Taken
<1>4. Waiting' = Append(Waiting, line)
  <2>1. CASE flush \in {"last", "done"}
    <3>1. /\ buffer_ \in Seq(Lines)
          /\ Len(to_write) \in Nat
          /\ Len(to_write) <= Len(buffer_)
      BY <2>1 DEF FlushOK, TypeOK
    <3>2. SubSeq(Append(buffer_, line), Len(to_write) + 1, Len(Append(buffer_, line)))
            = Append(SubSeq(buffer_, Len(to_write) + 1, Len(buffer_)), line)
      <4>1. \A s \in Seq(Lines), e \in Lines, m \in Nat : m <= Len(s) =>
              SubSeq(Append(s, e), m + 1, Len(Append(s, e)))
                = Append(SubSeq(s, m + 1, Len(s)), e)
        BY ONLY SubSeqAppend, ZenonT(60)
      <4> QED
        BY ONLY <1>2, <3>1, <4>1, Zenon
    <3> QED
      BY <1>1, <2>1, <3>2 DEF Waiting
  <2> QED
    BY <1>1, <2>1 DEF Waiting
<1>5. Accepted' = Append(Accepted, line)
  BY <1>1, <1>2, <1>3, <1>4, Parts, ConcatAppend DEF Accepted
<1> QED
  BY <1>1, <1>2, <1>5 DEF line

(* The flush thread moves lines along, and may write a longer prefix.       *)
LEMMA FlushKeeps ==
  ASSUME TypeOK, FlushOK, Flush
  PROVE  /\ Accepted' = Accepted
         /\ \/ written' = written
            \/ \E n \in (Len(written) + 1) .. Len(Accepted) :
                 written' = SubSeq(Accepted, 1, n)
<1>1. written \in Seq(Lines) /\ to_write \in Seq(Lines) /\ buffer_ \in Seq(Lines)
  BY DEF TypeOK
<1>2. <<>> \in Seq(Lines)
  BY EmptySeq
<1>3. CASE FlushTest \/ FlushCheck \/ FlushBlock \/ FlushTimeout \/ FlushReturn
  BY <1>3
  DEF FlushTest, FlushCheck, FlushBlock, FlushTimeout, FlushReturn, Accepted, Taken, Waiting
<1>4. CASE FlushCopy
  <2>1. /\ Taken = <<>> /\ Waiting = buffer_
        /\ Taken' = buffer_ /\ Waiting' = <<>>
        /\ written' = written
    BY <1>4 DEF FlushCopy, FlushOK, Taken, Waiting
  <2>2. written \o buffer_ \in Seq(Lines)
    BY <1>1, ConcatProperties
  <2>3. (written \o <<>>) \o buffer_ = (written \o buffer_) \o <<>>
    BY <1>1, <2>2, ConcatEmptySeq
  <2> QED
    BY <2>1, <2>3 DEF Accepted
<1>5. CASE FlushDrain
  <2>1. /\ Taken = <<>> /\ Waiting = buffer_
        /\ Taken' = buffer_
        /\ Waiting' = SubSeq(buffer_, Len(buffer_) + 1, Len(buffer_))
        /\ written' = written
    BY <1>5 DEF FlushDrain, FlushOK, Taken, Waiting
  <2>2. Waiting' = <<>>
    BY <1>1, <2>1, SubSeqNone
  <2>3. written \o buffer_ \in Seq(Lines)
    BY <1>1, ConcatProperties
  <2>4. (written \o <<>>) \o buffer_ = (written \o buffer_) \o <<>>
    BY <1>1, <2>3, ConcatEmptySeq
  <2> QED
    BY <2>1, <2>2, <2>4 DEF Accepted
<1>6. CASE FlushWrite \/ FlushLast
  <2>1. /\ written' = written \o to_write
        /\ Taken = to_write /\ Taken' = <<>>
        /\ Waiting' = Waiting
    BY <1>6 DEF FlushWrite, FlushLast, Taken, Waiting
  <2>2. written \o to_write \in Seq(Lines)
    BY <1>1, ConcatProperties
  <2>3. Accepted' = Accepted
    BY <1>1, <2>1, <2>2, ConcatEmptySeq DEF Accepted
  <2>4. CASE to_write = <<>>
    BY <1>1, <2>1, <2>3, <2>4, ConcatEmptySeq
  <2>5. CASE to_write # <<>>
    <3> DEFINE s == written \o to_write
               n == Len(s)
    <3>1. Len(s) = Len(written) + Len(to_write) /\ Len(written) \in Nat
          /\ Len(to_write) \in Nat \ {0}
      BY <1>1, <2>5, ConcatProperties, EmptySeq
    <3>2. Accepted = s \o Waiting /\ Waiting \in Seq(Lines)
      BY <2>1, Parts DEF Accepted
    <3> HIDE DEF s
    <3>3. Len(Accepted) = Len(s) + Len(Waiting) /\ Len(Waiting) \in Nat
      BY <2>2, <3>2, ConcatProperties DEF s
    <3>4. n \in (Len(written) + 1) .. Len(Accepted)
      BY <3>1, <3>3
    <3>5. SubSeq(Accepted, 1, n) = s
      BY <2>2, <3>2, ConcatPrefix DEF s
    <3> QED
      BY <2>1, <2>3, <3>4, <3>5 DEF s
  <2> QED
    BY <2>4, <2>5
<1> QED
  BY <1>3, <1>4, <1>5, <1>6 DEF Flush

LEMMA NextAccepted ==
  ASSUME TypeOK, CallsOK, FlushOK, [Next]_vars
  PROVE  \/ /\ Accepted' = Accepted
            /\ \/ written' = written
               \/ \E n \in (Len(written) + 1) .. Len(Accepted) :
                    written' = SubSeq(Accepted, 1, n)
         \/ \E c \in Callers : Add(c)
<1>1. CASE Flush
  BY <1>1, FlushKeeps
<1>2. CASE Notify
  <2>1. Taken' = Taken /\ Waiting' = Waiting /\ written' = written
    BY <1>2 DEF Notify, Taken, Waiting
  <2> QED
    BY <2>1 DEF Accepted
<1>3. CASE UNCHANGED <<buffer_, flushVars>>
  BY <1>3 DEF flushVars, Accepted, Taken, Waiting
<1> QED
  BY <1>1, <1>2, <1>3 DEF Next, vars, Call, Lock, Interrupt, Destroy, Join

-----------------------------------------------------------------------------
(* No line is accepted twice.                                               *)

LEMMA AcceptedEnter ==
  ASSUME TypeOK, FlushOK, AcceptedOK, NEW c \in Callers, NEW sig \in Signals \cup {"none"},
         Enter(c, sig), sent[c] < MaxLine, Accepted' = Accepted
  PROVE  AcceptedOK'
<1> SUFFICES ASSUME NEW k \in 1 .. Len(Accepted)
             PROVE  AcceptedOK!(k)'
  BY DEF AcceptedOK
<1>1. Accepted[k] \in Lines
  BY Parts, ElementOfSeq
<1> DEFINE a == Accepted[k][1]
<1>2. /\ a \in Callers /\ Accepted[k][2] \in Nat
      /\ Accepted[k][2] <= sent[a]
      /\ sent[a] \in Nat /\ sent[c] \in Nat
  BY <1>1, Numbers DEF Lines, AcceptedOK, TypeOK
<1>3. Accepted[k][2] <= sent'[a]
  <2>1. sent'[a] = sent[a] \/ sent'[a] = sent[a] + 1
    BY <1>2, EnterEffect
  <2> QED
    BY <1>2, <2>1
<1>4. ASSUME NEW d \in Callers, NEW i \in 1 .. Len(calls'[d])
      PROVE  calls'[d][i].line # Accepted[k]
  <2>1. CASE d # c
    BY <1>4, <2>1, EnterEffect DEF AcceptedOK
  <2>2. CASE d = c
    <3> DEFINE n == Len(calls[c])
    <3>1. n \in Nat
      BY DEF TypeOK
    <3>2. i \in 1 .. n \/ i = n + 1
      BY <2>2, <3>1, EnterEffect
    <3>3. CASE i \in 1 .. n
      <4>1. calls'[c][i] = calls[c][i]
        BY <3>3, EnterEffect
      <4> QED
        BY <2>2, <3>3, <4>1 DEF AcceptedOK
    <3>4. CASE i = n + 1
      <4>1. calls'[c][i].line = <<c, sent[c] + 1>>
        BY <3>4, EnterEffect
      <4>2. ASSUME Accepted[k] = <<c, sent[c] + 1>>
            PROVE  FALSE
        <5>1. a = c /\ Accepted[k][2] = sent[c] + 1
          BY <4>2
        <5> QED
          BY <1>2, <5>1
      <4> QED
        BY <2>2, <4>1, <4>2
    <3> QED
      BY <3>2, <3>3, <3>4
  <2> QED
    BY <2>1, <2>2
<1> QED
  BY <1>3, <1>4

LEMMA AddFresh ==
  ASSUME TypeOK, CallsOK, FlushOK, AcceptedOK, NEW c \in Callers, Add(c)
  PROVE  /\ \A k \in 1 .. Len(Accepted) : Accepted[k] # Top(c).line
         /\ AcceptedOK'
<1> DEFINE line == Top(c).line
           n == Len(calls[c])
<1>1. /\ n \in Nat \ {0} /\ n \in 1 .. n
      /\ line = calls[c][n].line
  <2>1. n \in Nat \ {0}
    BY AddEffect
  <2> QED
    BY <2>1 DEF Top
<1>2. \A k \in 1 .. Len(Accepted) : Accepted[k] # line
  BY <1>1 DEF AcceptedOK
<1>3. line[1] = c /\ line[2] <= sent[c]
  BY <1>1 DEF CallsOK
<1>4. sent' = sent
  BY DEF Add
<1>5. ASSUME NEW d \in Callers, NEW i \in 1 .. Len(calls'[d])
      PROVE  /\ i \in 1 .. Len(calls[d])
             /\ calls'[d][i] = calls[d][i]
             /\ calls'[d][i].line # line
  <2>1. CASE d # c
    <3>1. calls'[d] = calls[d]
      BY <2>1, AddEffect
    <3>2. calls[d][i].line[1] = d
      BY <1>5, <3>1 DEF CallsOK
    <3> HIDE DEF line
    <3> QED
      BY <1>3, <1>5, <2>1, <3>1, <3>2
  <2>2. CASE d = c
    <3>1. i \in 1 .. n /\ i # n /\ calls'[c][i] = calls[c][i]
      BY <1>1, <1>5, <2>2, AddEffect
    <3>2. calls[c][i].line # calls[c][n].line
      BY <1>1, <3>1 DEF CallsOK
    <3> QED
      BY <1>1, <2>2, <3>1, <3>2
  <2> QED
    BY <2>1, <2>2
<1> HIDE DEF line
<1>6. /\ Accepted' = Append(Accepted, line)
      /\ line \in Lines
      /\ Accepted \in Seq(Lines)
  BY AddAccepts, Parts DEF line
<1>7. ASSUME NEW k \in 1 .. Len(Accepted')
      PROVE  AcceptedOK!(k)'
  <2>1. CASE k \in 1 .. Len(Accepted)
    <3>1. Accepted'[k] = Accepted[k]
      <4>1. \A s \in Seq(Lines), e \in Lines :
              \A i \in 1 .. Len(s) : Append(s, e)[i] = s[i]
        BY ONLY AppendElement
      <4> QED
        BY ONLY <1>6, <2>1, <4>1, Zenon
    <3> QED
      <4>1. /\ Accepted[k][2] <= sent[Accepted[k][1]]
            /\ \A d \in Callers : \A i \in 1 .. Len(calls[d]) :
                 calls[d][i].line # Accepted[k]
        BY <2>1 DEF AcceptedOK
      <4>2. \A d \in Callers : \A i \in 1 .. Len(calls'[d]) :
              calls'[d][i].line # Accepted[k]
        BY ONLY <1>5, <4>1
      <4> QED
        BY ONLY <1>4, <3>1, <4>1, <4>2
  <2>2. CASE k = Len(Accepted) + 1
    <3>1. Accepted'[k] = line
      BY ONLY <1>6, <2>2, AppendElement, Zenon
    <3> QED
      BY <1>3, <1>4, <1>5, <3>1
  <2>3. k \in 1 .. Len(Accepted) \/ k = Len(Accepted) + 1
    BY <1>6, <1>7
  <2> QED
    BY <2>1, <2>2, <2>3
<1> QED
  BY <1>2, <1>7 DEF AcceptedOK, line

LEMMA NextFresh == TypeOK /\ CallsOK /\ FlushOK /\ AcceptedOK /\ [Next]_vars => AcceptedOK'
<1> SUFFICES ASSUME TypeOK, CallsOK, FlushOK, AcceptedOK, [Next]_vars
             PROVE  AcceptedOK'
  OBVIOUS
<1>1. CASE \E c \in Callers : Add(c)
  BY <1>1, AddFresh
<1>2. CASE ~\E c \in Callers : Add(c)
  <2>1. Accepted' = Accepted
    BY <1>2, NextAccepted
  <2>2. arrived \in SUBSET Signals /\ \A c \in Callers : sent[c] \in Nat
    BY DEF TypeOK
  <2>3. ASSUME NEW c \in Callers, Call(c)
        PROVE  AcceptedOK'
    <3>1. sent[c] < MaxLine /\ "none" \in Signals \cup {"none"} /\ Enter(c, "none")
      BY <2>2, <2>3, Numbers DEF Call
    <3> QED
      BY <2>1, <3>1, AcceptedEnter
  <2>4. ASSUME NEW sig \in Signals, Interrupt(sig)
        PROVE  AcceptedOK'
    <3>1. /\ "main" \in Callers
          /\ sig \in Signals \cup {"none"}
          /\ Enter("main", sig)
          /\ arrived' = arrived \cup {sig}
          /\ arrived' \in SUBSET Signals
      BY <2>2, <2>4 DEF Interrupt, Callers
    <3>2. Cardinality(arrived') = Cardinality(arrived) + 1
      BY <2>2, <2>4, <3>1, Numbers, FS_AddElement DEF Interrupt
    <3>3. sent["main"] <= MaxLines + Cardinality(arrived)
      BY <3>1 DEF CallsOK
    <3>4. /\ Cardinality(arrived) \in Nat
          /\ MaxLines + Cardinality(arrived') <= MaxLine
          /\ MaxLines \in Nat /\ MaxLine \in Nat /\ sent["main"] \in Nat
      BY <2>2, <3>1, Numbers
    <3>5. sent["main"] < MaxLine
      BY <3>2, <3>3, <3>4
    <3> QED
      BY <2>1, <3>1, <3>5, AcceptedEnter
  <2>5. ASSUME NEW c \in Callers, Lock(c)
        PROVE  AcceptedOK'
    <3>1. sent' = sent
      BY <2>5 DEF Lock
    <3>2. ASSUME NEW d \in Callers, NEW i \in 1 .. Len(calls'[d])
          PROVE  i \in 1 .. Len(calls[d]) /\ calls'[d][i].line = calls[d][i].line
      BY <2>5, <3>2, LockEffect
    <3> QED
      BY <2>1, <3>1, <3>2 DEF AcceptedOK
  <2>6. CASE UNCHANGED callerVars
    BY <2>1, <2>6 DEF AcceptedOK, callerVars
  <2> QED
    BY <1>2, <2>3, <2>4, <2>5, <2>6
    DEF Next, vars, Flush, FlushTest, FlushCheck, FlushBlock, FlushTimeout, FlushReturn,
        FlushCopy, FlushWrite, FlushDrain, FlushLast, callerSide, Destroy, Notify, Join
<1> QED
  BY <1>1, <1>2

-----------------------------------------------------------------------------
(* Theorems.                                                                *)

LEMMA InitLog == Init => TypeOK /\ CallsOK /\ FlushOK /\ AcceptedOK
<1> SUFFICES ASSUME Init
             PROVE  TypeOK /\ CallsOK /\ FlushOK /\ AcceptedOK
  OBVIOUS
<1>1. <<>> \in Seq(Lines) /\ <<>> \in Seq(Frames)
  BY EmptySeq
<1>2. TypeOK
  <2>1. \A c \in Callers :
          mutex_ = c <=> \E i \in 1 .. Len(calls[c]) : calls[c][i].stage = "locked"
    BY OthersAssumption DEF Init, Callers
  <2>2. calls \in [Callers -> Seq(Frames)] /\ sent \in [Callers -> 0 .. MaxLine]
    BY <1>1, Numbers DEF Init
  <2>3. buffer_ \in Seq(Lines) /\ to_write \in Seq(Lines) /\ written \in Seq(Lines)
    BY <1>1 DEF Init
  <2> QED
    BY <2>1, <2>2, <2>3 DEF Init, TypeOK
<1>3. CallsOK
  <2>1. Cardinality({}) = 0
    BY FS_EmptySet
  <2>2. arrived = {} /\ \A c \in Callers : sent[c] = 0 /\ Len(calls[c]) = 0
    BY DEF Init
  <2> QED
    BY <2>1, <2>2, Numbers DEF CallsOK
<1>4. FlushOK
  BY DEF Init, FlushOK
<1>5. Accepted = <<>>
  BY <1>1, ConcatEmptySeq DEF Init, Accepted, Taken, Waiting
<1>6. AcceptedOK
  BY <1>5 DEF AcceptedOK
<1> QED
  BY <1>2, <1>3, <1>4, <1>6

LEMMA LogInvariant == Spec => [](TypeOK /\ CallsOK /\ FlushOK /\ AcceptedOK)
  BY InitLog, NextType, NextCalls, NextFlush, NextFresh, PTL DEF Spec

(* Every variable of the logger keeps its type, and mutex_ is owned by the *)
(* call or the flush thread that holds it, for any number of threads, lines*)
(* and signals: what lock_guard and wait_for do.                           *)
THEOREM LoggerTypeCorrect == Spec => []TypeOK
  BY LogInvariant, PTL

LEMMA LogRefines ==
  TypeOK /\ CallsOK /\ FlushOK /\ AcceptedOK /\ [Next]_vars => [Log!Next]_(Log!vars)
<1> SUFFICES ASSUME TypeOK, CallsOK, FlushOK, AcceptedOK, [Next]_vars
             PROVE  Log!Next \/ UNCHANGED Log!vars
  OBVIOUS
<1>1. ASSUME NEW c \in Callers, Add(c)
      PROVE  Log!Accept(Top(c).line) /\ Top(c).line \in Lines
  BY <1>1, AddAccepts, AddFresh DEF Log!Accept, Accepted
<1>2. CASE Accepted' = Accepted /\ written' = written
  BY <1>2 DEF Log!vars, Accepted
<1>3. ASSUME Accepted' = Accepted,
             NEW n \in (Len(written) + 1) .. Len(Accepted),
             written' = SubSeq(Accepted, 1, n)
      PROVE  Log!Write
  BY <1>3 DEF Log!Write, Accepted
<1> QED
  BY <1>1, <1>2, <1>3, NextAccepted DEF Log!Next

(* Logger implements LineLog: whatever threads and signal handlers do, the *)
(* lines flush_loop() writes are those that log() took, once and in order. *)
THEOREM LogImplementsLineLog == Spec => WritesInOrder
<1>1. Init => Log!Init
  <2>1. <<>> \in Seq(Lines)
    BY EmptySeq
  <2> QED
    BY <2>1, ConcatEmptySeq DEF Init, Log!Init, Taken, Waiting
<1> QED
  BY <1>1, LogRefines, LogInvariant, PTL DEF Spec, WritesInOrder, Log!Spec

-----------------------------------------------------------------------------
(* Who keeps the mutex.                                                     *)

LEMMA NextNest == TypeOK /\ CallsOK /\ NestOK /\ [Next]_vars => NestOK'
<1> SUFFICES ASSUME TypeOK, CallsOK, NestOK, [Next]_vars
             PROVE  NestOK'
  OBVIOUS
<1>0. /\ \A c \in Callers : calls[c] \in Seq(Frames) /\ Len(calls[c]) \in Nat
      /\ \A c \in Callers : sent[c] \in Nat
      /\ "main" \in Callers
  BY DEF TypeOK, Callers
<1>1. ASSUME NEW c \in Callers, NEW sig \in Signals \cup {"none"}, Enter(c, sig),
             sent[c] < MaxLine, phase # "ended", phase' = phase,
             calls[c] = <<>> \/ (c = "main" /\ sig # "none")
      PROVE  NestOK'
  <2>1. ASSUME NEW d \in Callers, NEW i \in 2 .. Len(calls'[d])
        PROVE  d = "main" /\ calls'[d][i].sig # "none"
    <3>1. CASE d # c
      BY <1>1, <2>1, <3>1, EnterEffect DEF NestOK
    <3>2. CASE d = c /\ i \in 2 .. Len(calls[c])
      <4>1. calls'[c][i] = calls[c][i]
        BY <1>0, <1>1, <3>2, EnterEffect
      <4> QED
        BY <3>2, <4>1 DEF NestOK
    <3>3. CASE d = c /\ i = Len(calls[c]) + 1
      <4>1. calls[c] # <<>>
        BY <1>0, <2>1, <3>3
      <4> QED
        BY <1>1, <3>3, <4>1, EnterEffect
    <3>4. d = c => Len(calls'[c]) = Len(calls[c]) + 1
      BY <1>1, EnterEffect
    <3> QED
      BY <1>0, <2>1, <3>1, <3>2, <3>3, <3>4
  <2> QED
    BY <1>1, <2>1 DEF NestOK
<1>2. ASSUME NEW c \in Callers, Call(c), phase # "ended"
      PROVE  NestOK'
  <2>1. /\ Enter(c, "none") /\ "none" \in Signals \cup {"none"}
        /\ sent[c] < MaxLine /\ phase' = phase /\ calls[c] = <<>>
    BY <1>0, <1>2, Numbers DEF Call
  <2> QED
    BY <1>1, <1>2, <2>1
<1>3. ASSUME NEW sig \in Signals, Interrupt(sig)
      PROVE  NestOK'
  <2>1. /\ Enter("main", sig) /\ phase # "ended" /\ phase' = phase
        /\ sig # "none" /\ sig \in Signals \cup {"none"}
    BY <1>3, SignalsAssumption DEF Interrupt
  <2>2. sent["main"] < MaxLine
    BY <1>0, <1>3, InterruptRoom
  <2> QED
    BY <1>0, <1>1, <2>1, <2>2
<1>4. ASSUME NEW c \in Callers, Lock(c), phase # "ended"
      PROVE  NestOK'
  <2>1. phase' = phase
    BY <1>4 DEF Lock
  <2>2. ASSUME NEW d \in Callers, NEW i \in 2 .. Len(calls'[d])
        PROVE  i \in 2 .. Len(calls[d]) /\ calls'[d][i].sig = calls[d][i].sig
    <3>1. CASE d # c
      BY <1>4, <2>2, <3>1, LockEffect
    <3>2. CASE d = c
      <4>1. i \in 2 .. Len(calls[c]) /\ i \in 1 .. Len(calls[c])
        BY <1>0, <1>4, <2>2, <3>2, LockEffect
      <4> QED
        BY <1>4, <3>2, <4>1, LockEffect
    <3> QED
      BY <3>1, <3>2
  <2> QED
    BY <1>4, <2>1, <2>2 DEF NestOK
<1>5. ASSUME NEW c \in Callers, Add(c), phase # "ended"
      PROVE  NestOK'
  <2>1. phase' = phase
    BY <1>5 DEF Add
  <2>2. ASSUME NEW d \in Callers, NEW i \in 2 .. Len(calls'[d])
        PROVE  i \in 2 .. Len(calls[d]) /\ calls'[d][i] = calls[d][i]
    <3>1. CASE d # c
      BY <1>5, <2>2, <3>1, AddEffect
    <3>2. CASE d = c
      <4>1. i \in 2 .. Len(calls[c]) /\ i \in 1 .. Len(calls[c]) - 1
        BY <1>0, <1>5, <2>2, <3>2, AddEffect
      <4> QED
        BY <1>5, <3>2, <4>1, AddEffect
    <3> QED
      BY <3>1, <3>2
  <2> QED
    BY <1>5, <2>1, <2>2 DEF NestOK
<1>6. CASE UNCHANGED calls /\ (phase' = phase \/ phase' # "ended")
  BY <1>6 DEF NestOK
<1>7. CASE Join
  BY <1>7 DEF Join, NestOK, callerVars
<1> QED
  BY <1>2, <1>3, <1>4, <1>5, <1>6, <1>7
  DEF Next, vars, Flush, FlushTest, FlushCheck, FlushBlock, FlushTimeout, FlushReturn,
      FlushCopy, FlushWrite, FlushDrain, FlushLast, callerSide, callerVars, Destroy, Notify

LEMMA NestInvariant == Spec => []NestOK
<1>1. Init => NestOK
  BY OthersAssumption DEF Init, NestOK, Callers
<1> QED
  BY <1>1, NextNest, LogInvariant, PTL DEF Spec

(* mutex_ is given back by the next step of the call that holds it, unless *)
(* that call is main's and a signal handler has interrupted it: no thread  *)
(* but main can be stuck in log(), however many log and whatever arrives.  *)
THEOREM OnlySignalsKeepTheMutex == Spec => []HolderReleases
<1>1. TypeOK /\ NestOK => HolderReleases
  <2> SUFFICES ASSUME TypeOK, NestOK, NEW c \in Callers, mutex_ = c
               PROVE  /\ calls[c] # <<>>
                      /\ Top(c).stage = "locked" \/ (c = "main" /\ Top(c).sig # "none")
    BY DEF HolderReleases
  <2>1. PICK i \in 1 .. Len(calls[c]) : calls[c][i].stage = "locked"
    BY DEF TypeOK
  <2>2. calls[c] \in Seq(Frames) /\ Len(calls[c]) \in Nat
    BY DEF TypeOK
  <2>3. CASE i = Len(calls[c])
    BY <2>1, <2>2, <2>3 DEF Top
  <2>4. CASE i # Len(calls[c])
    <3>1. Len(calls[c]) \in 2 .. Len(calls[c])
      BY <2>1, <2>2, <2>4
    <3> QED
      BY <2>2, <3>1 DEF NestOK, Top
  <2> QED
    BY <2>3, <2>4
<1> QED
  BY <1>1, NestInvariant, LogInvariant, PTL

(* A main thread that a signal has caught inside log() is caught for good: *)
(* the handler waits for a lock_guard below it on its own stack.           *)
THEOREM CaughtIsForEver == Spec => CaughtForGood
<1>1. TypeOK /\ CallsOK /\ NestOK /\ [Next]_vars => (Caught => Caught' /\ phase' # "ended")
  <2> SUFFICES ASSUME TypeOK, CallsOK, NestOK, [Next]_vars, Caught
               PROVE  Caught' /\ phase' # "ended"
    OBVIOUS
  <2>0. /\ "main" \in Callers
        /\ mutex_ = "main" /\ calls["main"] # <<>> /\ Top("main").stage = "locking"
        /\ phase # "ended"
        /\ calls["main"] \in Seq(Frames) /\ Len(calls["main"]) \in Nat \ {0}
        /\ flush # "block"
    BY OthersAssumption DEF TypeOK, NestOK, Caught, Callers
  <2>1. ASSUME calls'["main"] = calls["main"], mutex_' = mutex_, phase' = phase
        PROVE  Caught' /\ phase' # "ended"
    BY <2>0, <2>1 DEF Caught, Top
  <2>2. ASSUME NEW c \in Callers, Call(c)
        PROVE  Caught' /\ phase' # "ended"
    <3>1. c # "main" /\ calls \in [Callers -> Seq(Frames)]
      BY <2>0, <2>2 DEF Call, TypeOK
    <3>2. calls'["main"] = calls["main"]
      BY <2>0, <2>2, <3>1 DEF Call, Enter
    <3> QED
      BY <2>1, <2>2, <3>2 DEF Call
  <2>3. ASSUME NEW sig \in Signals, Interrupt(sig)
        PROVE  Caught' /\ phase' # "ended"
    <3>1. /\ Enter("main", sig) /\ sig \in Signals \cup {"none"}
          /\ mutex_' = mutex_ /\ phase' = phase
      BY <2>3 DEF Interrupt
    <3>2. sent["main"] < MaxLine
      BY <2>3, InterruptRoom
    <3>3. /\ Len(calls'["main"]) = Len(calls["main"]) + 1
          /\ calls'["main"][Len(calls["main"]) + 1].stage = "locking"
          /\ calls'["main"] \in Seq(Frames)
      BY <2>0, <3>1, <3>2, EnterEffect
    <3> QED
      BY <2>0, <3>1, <3>3 DEF Caught, Top
  <2>4. ASSUME NEW c \in Callers, Lock(c)
        PROVE  FALSE
    BY <2>0, <2>4 DEF Lock
  <2>5. ASSUME NEW c \in Callers, Add(c)
        PROVE  FALSE
    <3>1. calls[c] \in Seq(Frames) /\ Len(calls[c]) \in 1 .. Len(calls[c])
          /\ calls[c][Len(calls[c])].stage = "locked"
      BY <2>5, AddEffect DEF Add, TypeOK, Top
    <3>2. mutex_ = c
      BY <3>1 DEF TypeOK
    <3> QED
      BY <2>0, <2>5, <3>2 DEF Add
  <2>6. CASE Flush
    BY <2>0, <2>1, <2>6
    DEF Flush, FlushTest, FlushCheck, FlushBlock, FlushTimeout, FlushReturn,
        FlushCopy, FlushWrite, FlushDrain, FlushLast, callerSide, callerVars
  <2>7. CASE Destroy \/ Notify \/ Join
    BY <2>0, <2>7 DEF Destroy, Notify, Join
  <2>8. CASE UNCHANGED vars
    BY <2>1, <2>8 DEF vars, callerVars
  <2> QED
    BY <2>2, <2>3, <2>4, <2>5, <2>6, <2>7, <2>8 DEF Next
<1> QED
  BY <1>1, NestInvariant, LogInvariant, PTL DEF Spec, CaughtForGood

=============================================================================
