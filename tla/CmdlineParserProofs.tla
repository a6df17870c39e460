-------------------------- MODULE CmdlineParserProofs --------------------------
(***************************************************************************)
(* parse() keeps its promise for every table of arguments and every        *)
(* command line, of any length.                                            *)
(*                                                                         *)
(* The promise is about a loop, so the proof is by induction on the number *)
(* of tokens.  The induction is over a set of numbers, not a predicate:    *)
(* such a set without a least missing number holds all of them.            *)
(***************************************************************************)
EXTENDS CmdlineParser, WellFoundedInduction, TLAPS

-----------------------------------------------------------------------------
(* Natural numbers.                                                         *)

LEMMA LeastNatural ==
  ASSUME NEW S \in SUBSET Nat, S # {}
  PROVE  \E n \in S : \A m \in S : n <= m
<1> DEFINE R == OpToRel(<, Nat)
<1>1. IsWellFoundedOn(R, Nat)
  BY NatLessThanWellFounded, Zenon
<1>2. \A m, n \in Nat : m < n => <<m, n>> \in R
  BY DEF OpToRel
<1> HIDE DEF R
<1>3. PICK n \in S : \A m \in S : ~ (<<m, n>> \in R)
  BY <1>1, WFMin
<1>4. ASSUME NEW m \in S PROVE n <= m
  <2>1. ~ (m < n)
    BY <1>2, <1>3
  <2>2. QED  BY <2>1
<1>5. QED  BY <1>4

LEMMA SetInduction ==
  ASSUME NEW S, 0 \in S, \A n \in Nat : n \in S => n + 1 \in S
  PROVE  Nat \subseteq S
<1> SUFFICES ASSUME Nat \ S # {} PROVE FALSE
  OBVIOUS
<1>1. PICK n \in Nat \ S : \A m \in Nat \ S : n <= m
  BY LeastNatural
<1>2. n # 0 /\ n - 1 \in Nat /\ n - 1 \in S
  BY <1>1
<1>3. (n - 1) + 1 = n
  BY <1>1
<1>4. QED  BY <1>1, <1>2, <1>3

-----------------------------------------------------------------------------
(* The loop of parse().                                                     *)

Begin(table) == [args |-> table, taken |-> FALSE, ok |-> TRUE]

(* What the loop has made of the first n tokens. *)
IsRun(after, table, app, n) ==
  after = [i \in 0 .. n |-> IF i = 0 THEN Begin(table)
                                     ELSE Iteration(after[i - 1], app, i)]

(* The loop can be run over any number of tokens. *)
LEMMA RunExists ==
  ASSUME NEW table, NEW app, NEW n \in Nat
  PROVE  \E after : IsRun(after, table, app, n)
<1> DEFINE S == {m \in Nat : \E after : IsRun(after, table, app, m)}
<1>1. 0 \in S
  <2> DEFINE f == [i \in 0 .. 0 |-> Begin(table)]
  <2>1. IsRun(f, table, app, 0)
    BY DEF IsRun
  <2> HIDE DEF f
  <2>2. QED  BY <2>1
<1>2. ASSUME NEW m \in Nat, m \in S PROVE m + 1 \in S
  <2>1. PICK g : IsRun(g, table, app, m)
    BY <1>2
  <2> DEFINE f == [i \in 0 .. m + 1 |-> IF i <= m THEN g[i] ELSE Iteration(g[m], app, i)]
  <2>2. ASSUME NEW i \in 0 .. m + 1
        PROVE  f[i] = IF i = 0 THEN Begin(table) ELSE Iteration(f[i - 1], app, i)
    <3>1. CASE i = 0  BY <2>1, <3>1 DEF IsRun
    <3>2. CASE i \in 1 .. m  BY <2>1, <3>2 DEF IsRun
    <3>3. CASE i = m + 1  BY <3>3
    <3>4. QED  BY <3>1, <3>2, <3>3
  <2>3. IsRun(f, table, app, m + 1)
    BY <2>2 DEF IsRun
  <2> HIDE DEF f
  <2>4. QED  BY <2>3
<1>3. Nat \subseteq S
  <2> HIDE DEF S
  <2>1. QED  BY <1>1, <1>2, SetInduction
<1>4. QED  BY <1>3

LEMMA RoundsIsRun ==
  ASSUME NEW table, NEW app, Len(app) \in Nat
  PROVE  IsRun(Rounds(table, app), table, app, Len(app))
<1>1. \E after : IsRun(after, table, app, Len(app))
  BY RunExists
<1>2. Rounds(table, app) = CHOOSE after : IsRun(after, table, app, Len(app))
  BY DEF Rounds, IsRun, Begin
<1>3. QED  BY <1>1, <1>2

-----------------------------------------------------------------------------
(* Tables of arguments, and what becomes of them.                           *)

(* Texts are strings.  Those written in the tables of arguments are listed *)
(* because the provers do not know that a literal is a string.             *)
Text ==
  STRING \cup {"--help", "-h", "false", "--mode", "-m", "Loopback", "--mode-threads",
               "-mth", "1", "--abstract_sockname", "-absn", "cm_to_ph_sock",
               "--port_data_sockname", "-pdsn", "/tmp/port_data.sock",
               "--port_control_sockname", "-pcsn", "/tmp/port_ctrl.sock",
               "--vhost_sockname", "-vsn", "/tmp/vhost.sock", "--x", "-x", ""}

Argument == [long_name : Text, short_name : Text, required : BOOLEAN,
             found : BOOLEAN, value : Text]

(* No token names two arguments, and no value is a name. *)
IsTable(table) ==
  /\ table \in Seq(Argument)
  /\ \A k \in DOMAIN table : ~table[k].found
  /\ \A k \in DOMAIN table : \A token \in Words : ~Names(table[k], token)
  /\ \A j, k \in DOMAIN table : \A token :
       Names(table[j], token) /\ Names(table[k], token) => j = k

Mentioned(arg, app, n) == \E i \in 1 .. n : Names(arg, app[i])

(* new is what n tokens make of arg. *)
Becomes(new, arg, app, n) ==
  /\ new \in Argument
  /\ new.long_name = arg.long_name
  /\ new.short_name = arg.short_name
  /\ new.required = arg.required
  /\ new.found <=> Mentioned(arg, app, n)
  /\ new.value = ValueAfter(arg, app, n)

(* What WellFormed asks of token i. *)
Known(table, app, i) ==
  \/ IsName(table, app[i])
  \/ i > 1 /\ app[i] \in Words /\ IsName(table, app[i - 1])

NotEmpty(table, app, i) ==
  \A k \in DOMAIN table :
    table[k].required /\ Names(table[k], app[i]) /\ ~HasValue(app, i) =>
      ValueAfter(table[k], app, i - 1) # ""

Sound(table, app, n) ==
  \A i \in 1 .. n : Known(table, app, i) /\ NotEmpty(table, app, i)

TakenAt(table, app, n) == n > 0 /\ IsName(table, app[n]) /\ HasValue(app, n)

LoopState(table) == [args : [DOMAIN table -> Argument], taken : BOOLEAN, ok : BOOLEAN]

(* The state of the loop after n tokens, up to the first mistake. *)
Tracks(state, table, app, n) ==
  /\ state \in LoopState(table)
  /\ state.ok <=> Sound(table, app, n)
  /\ state.ok => /\ state.taken <=> TakenAt(table, app, n)
                 /\ \A k \in DOMAIN table : Becomes(state.args[k], table[k], app, n)

(* One more token that does not set an argument leaves its value alone. *)
LEMMA ValueStays ==
  ASSUME NEW arg, NEW app, NEW n \in Nat \ {0},
         ~(Names(arg, app[n]) /\ HasValue(app, n))
  PROVE  ValueAfter(arg, app, n) = ValueAfter(arg, app, n - 1)
<1>1. Setters(arg, app, n) = Setters(arg, app, n - 1)
  BY DEF Setters
<1>2. QED  BY <1>1 DEF ValueAfter

(* One that does gives it the token behind. *)
LEMMA ValueSet ==
  ASSUME NEW arg, NEW app, NEW n \in Nat \ {0},
         Names(arg, app[n]) /\ HasValue(app, n)
  PROVE  ValueAfter(arg, app, n) = app[n + 1]
<1> DEFINE given == Setters(arg, app, n)
           last == CHOOSE i \in given : \A j \in given : j <= i
<1>1. given \subseteq 1 .. n /\ n \in given
  BY DEF Setters
<1>2. \A j \in given : j <= n
  BY <1>1
<1>3. last \in given /\ \A j \in given : j <= last
  <2> HIDE DEF given
  <2>1. QED  BY <1>1, <1>2
<1>4. last = n
  BY <1>1, <1>3
<1>5. ValueAfter(arg, app, n) = app[1 + last]
  BY <1>1 DEF ValueAfter
<1> HIDE DEF last
<1>6. 1 + n = n + 1
  OBVIOUS
<1>7. QED  BY <1>4, <1>5, <1>6

LEMMA MentionedStep ==
  ASSUME NEW arg, NEW app, NEW n \in Nat \ {0}
  PROVE  Mentioned(arg, app, n) <=> Mentioned(arg, app, n - 1) \/ Names(arg, app[n])
<1>1. 1 .. n = 1 .. n - 1 \cup {n}
  OBVIOUS
<1>2. QED  BY <1>1 DEF Mentioned

(* A token that is no name of an argument leaves it alone. *)
LEMMA ArgumentStays ==
  ASSUME NEW arg, NEW new, NEW app, NEW n \in Nat \ {0},
         ~Names(arg, app[n]), Becomes(new, arg, app, n - 1)
  PROVE  Becomes(new, arg, app, n)
<1>1. Mentioned(arg, app, n) <=> Mentioned(arg, app, n - 1)
  BY MentionedStep
<1>2. ValueAfter(arg, app, n) = ValueAfter(arg, app, n - 1)
  BY ValueStays
<1>3. QED  BY <1>1, <1>2 DEF Becomes

(* One that is its name gives it what is behind, if that is a value. *)
LEMMA ArgumentGiven ==
  ASSUME NEW arg, NEW new, NEW app, NEW n \in Nat \ {0},
         Names(arg, app[n]), Becomes(new, arg, app, n - 1)
  PROVE  Becomes(Given(new, app, n), arg, app, n)
<1> DEFINE value == IF HasValue(app, n) THEN app[n + 1] ELSE new.value
           given == Given(new, app, n)
<1>1. value = ValueAfter(arg, app, n)
  BY ValueSet, ValueStays DEF Becomes
<1>2. value \in Text
  BY WordsAssumption DEF HasValue, Becomes, Argument, Text
<1>3. Given(new, app, n) = [new EXCEPT !.found = TRUE, !.value = value]
  BY DEF Given
<1>4. new \in Argument
  BY DEF Becomes
<1> HIDE DEF value
<1>5. /\ given \in Argument
      /\ given.long_name = new.long_name
      /\ given.short_name = new.short_name
      /\ given.required = new.required
      /\ given.found
      /\ given.value = value
  BY <1>2, <1>3, <1>4 DEF Argument
<1>6. Mentioned(arg, app, n)
  BY DEF Mentioned
<1> HIDE DEF given
<1>7. Becomes(given, arg, app, n)
  BY <1>1, <1>5, <1>6 DEF Becomes
<1>8. QED  BY <1>7 DEF given

LEMMA SoundStep ==
  ASSUME NEW table, NEW app, NEW n \in Nat \ {0}
  PROVE  Sound(table, app, n) <=>
           Sound(table, app, n - 1) /\ Known(table, app, n) /\ NotEmpty(table, app, n)
<1>1. 1 .. n = 1 .. n - 1 \cup {n}
  OBVIOUS
<1>2. QED  BY <1>1 DEF Sound

-----------------------------------------------------------------------------
(* One iteration.                                                           *)

LEMMA NameIsNoValue ==
  ASSUME NEW table, IsTable(table), NEW token \in Words
  PROVE  ~IsName(table, token)
BY DEF IsTable, IsName

(* A token that no argument knows, and that is not taken as a value, is    *)
(* the first mistake.                                                      *)
LEMMA RoundUnknown ==
  ASSUME NEW table, NEW app, NEW n \in 1 .. Len(app), Len(app) \in Nat,
         NEW state, Tracks(state, table, app, n - 1), state.ok, ~state.taken,
         ~IsName(table, app[n])
  PROVE  Tracks(Round(state, app, n), table, app, n)
<1>1. /\ state \in LoopState(table)
      /\ ~TakenAt(table, app, n - 1)
      /\ \A k \in DOMAIN table : Becomes(state.args[k], table[k], app, n - 1)
  BY DEF Tracks
<1>2. DOMAIN state.args = DOMAIN table
  BY <1>1 DEF LoopState
<1>3. \A k \in DOMAIN state.args : ~Names(state.args[k], app[n])
  BY <1>1, <1>2 DEF IsName, Becomes, Names
<1>4. Round(state, app, n) = [state EXCEPT !.ok = FALSE]
  BY <1>3 DEF Round
<1>5. Round(state, app, n) \in LoopState(table) /\ ~Round(state, app, n).ok
  BY <1>1, <1>4 DEF LoopState
<1>6. ~Known(table, app, n)
  <2>1. SUFFICES ASSUME n > 1, app[n] \in Words, IsName(table, app[n - 1])
                 PROVE  FALSE
    BY DEF Known
  <2>2. HasValue(app, n - 1)
    BY <2>1 DEF HasValue
  <2>3. QED  BY <1>1, <2>1, <2>2 DEF TakenAt
<1>7. ~Sound(table, app, n)
  BY <1>6, SoundStep
<1>8. QED  BY <1>5, <1>7 DEF Tracks

LEMMA RoundNamed ==
  ASSUME NEW table, IsTable(table), NEW app, NEW n \in 1 .. Len(app), Len(app) \in Nat,
         NEW state, Tracks(state, table, app, n - 1), state.ok,
         IsName(table, app[n])
  PROVE  Tracks(Round(state, app, n), table, app, n)
<1> DEFINE new == Round(state, app, n)
<1>1. /\ state \in LoopState(table)
      /\ Sound(table, app, n - 1)
      /\ \A k \in DOMAIN table : Becomes(state.args[k], table[k], app, n - 1)
  BY DEF Tracks
<1>2. state.args \in [DOMAIN table -> Argument] /\ DOMAIN state.args = DOMAIN table
  BY <1>1 DEF LoopState
<1>3. PICK k \in DOMAIN table : Names(table[k], app[n])
  BY DEF IsName
<1>4. \A j \in DOMAIN table : Names(state.args[j], app[n]) <=> j = k
  <2>1. \A j \in DOMAIN table : Names(state.args[j], app[n]) <=> Names(table[j], app[n])
    BY <1>1 DEF Becomes, Names
  <2>2. QED  BY <1>3, <2>1 DEF IsTable
<1>5. \A j \in 1 .. k - 1 : j \in DOMAIN table /\ j # k
  BY DEF IsTable
<1>6. k = CHOOSE j \in DOMAIN state.args :
            /\ Names(state.args[j], app[n])
            /\ \A i \in 1 .. j - 1 : ~Names(state.args[i], app[n])
  BY <1>2, <1>4, <1>5
<1> DEFINE args == [state.args EXCEPT ![k] = Given(state.args[k], app, n)]
           ok == \/ HasValue(app, n)
                 \/ ~(state.args[k].required /\ state.args[k].value = "")
<1>7. new = [args |-> args, taken |-> HasValue(app, n), ok |-> ok]
  BY <1>2, <1>4, <1>6 DEF Round
<1>8. HasValue(app, n) \in BOOLEAN /\ ok \in BOOLEAN
  BY DEF HasValue
<1> HIDE DEF new, args, ok
<1>9. new.args = args /\ (new.taken <=> HasValue(app, n)) /\ (new.ok <=> ok)
  BY <1>7, <1>8
<1>10. \A j \in DOMAIN table : Becomes(new.args[j], table[j], app, n)
  <2>1. Becomes(Given(state.args[k], app, n), table[k], app, n)
    BY <1>1, <1>3, ArgumentGiven
  <2>2. \A j \in DOMAIN table \ {k} : Becomes(state.args[j], table[j], app, n)
    BY <1>1, <1>3, ArgumentStays DEF IsTable
  <2>3. QED  BY <1>2, <1>9, <2>1, <2>2 DEF args
<1>11. new \in LoopState(table)
  <2>1. \A j \in DOMAIN table : new.args[j] \in Argument
    BY <1>10 DEF Becomes
  <2>2. args \in [DOMAIN table -> Argument]
    BY <1>2, <1>9, <2>1 DEF args
  <2>3. QED  BY <1>7, <1>8, <2>2 DEF LoopState
<1>12. new.ok <=> Sound(table, app, n)
  <2>1. Known(table, app, n)
    BY DEF Known
  <2>2. NotEmpty(table, app, n) <=>
          HasValue(app, n) \/ ~(table[k].required /\ ValueAfter(table[k], app, n - 1) = "")
    BY <1>3 DEF NotEmpty, IsTable
  <2>3. /\ state.args[k].required = table[k].required
        /\ state.args[k].value = ValueAfter(table[k], app, n - 1)
    BY <1>1 DEF Becomes
  <2>4. new.ok <=> NotEmpty(table, app, n)
    BY <1>9, <2>2, <2>3 DEF ok
  <2>5. QED  BY <1>1, <2>1, <2>4, SoundStep
<1>13. new.taken <=> TakenAt(table, app, n)
  BY <1>9 DEF TakenAt
<1>14. Tracks(new, table, app, n)
  BY <1>10, <1>11, <1>12, <1>13 DEF Tracks
<1>15. QED  BY <1>14 DEF new

LEMMA IterationTracks ==
  ASSUME NEW table, IsTable(table), NEW app, NEW n \in 1 .. Len(app), Len(app) \in Nat,
         NEW state, Tracks(state, table, app, n - 1)
  PROVE  Tracks(Iteration(state, app, n), table, app, n)
<1>1. state \in LoopState(table) /\ (state.ok <=> Sound(table, app, n - 1))
  BY DEF Tracks
<1>2. CASE ~state.ok
  <2>1. Iteration(state, app, n) = state
    BY <1>2 DEF Iteration
  <2>2. ~Sound(table, app, n)
    BY <1>1, <1>2, SoundStep
  <2>3. QED  BY <1>1, <1>2, <2>1, <2>2 DEF Tracks
<1>3. CASE state.ok /\ state.taken
  <2>1. TakenAt(table, app, n - 1) /\ n > 1
    BY <1>3 DEF Tracks, TakenAt
  <2>2. app[n] \in Words /\ IsName(table, app[n - 1])
    BY <2>1 DEF TakenAt, HasValue
  <2>3. ~IsName(table, app[n])
    BY <2>2, NameIsNoValue
  <2>4. Sound(table, app, n)
    <3>1. Known(table, app, n)
      BY <2>1, <2>2 DEF Known
    <3>2. NotEmpty(table, app, n)
      BY <2>3 DEF NotEmpty, IsName
    <3>3. QED  BY <1>1, <1>3, <3>1, <3>2, SoundStep
  <2>5. ~TakenAt(table, app, n)
    BY <2>3 DEF TakenAt
  <2>6. \A k \in DOMAIN table : Becomes(state.args[k], table[k], app, n)
    <3>1. \A k \in DOMAIN table : Becomes(state.args[k], table[k], app, n - 1)
      BY <1>3 DEF Tracks
    <3>2. \A k \in DOMAIN table : ~Names(table[k], app[n])
      BY <2>3 DEF IsName
    <3>3. QED  BY <3>1, <3>2, ArgumentStays
  <2> DEFINE new == [state EXCEPT !.taken = FALSE]
  <2>7. Iteration(state, app, n) = new
    BY <1>3 DEF Iteration
  <2>8. new \in LoopState(table) /\ new.ok /\ ~new.taken /\ new.args = state.args
    BY <1>1, <1>3 DEF LoopState
  <2> HIDE DEF new
  <2>9. Tracks(new, table, app, n)
    BY <2>4, <2>5, <2>6, <2>8 DEF Tracks
  <2>10. QED  BY <2>7, <2>9
<1>4. CASE state.ok /\ ~state.taken
  <2>1. Iteration(state, app, n) = Round(state, app, n)
    BY <1>4 DEF Iteration
  <2>2. CASE IsName(table, app[n])
    BY <1>4, <2>1, <2>2, RoundNamed
  <2>3. CASE ~IsName(table, app[n])
    BY <1>4, <2>1, <2>3, RoundUnknown
  <2>4. QED  BY <2>2, <2>3
<1>5. QED  BY <1>2, <1>3, <1>4

-----------------------------------------------------------------------------
(* The loop, and parse().                                                   *)

LEMMA LoopTracks ==
  ASSUME NEW table, IsTable(table), NEW app, Len(app) \in Nat
  PROVE  Tracks(Rounds(table, app)[Len(app)], table, app, Len(app))
<1> DEFINE after == Rounds(table, app)
           S == {i \in Nat : i <= Len(app) => Tracks(after[i], table, app, i)}
<1>1. /\ after[0] = Begin(table)
      /\ \A i \in 1 .. Len(app) : after[i] = Iteration(after[i - 1], app, i)
  BY RoundsIsRun DEF IsRun
<1>2. Tracks(Begin(table), table, app, 0)
  <2>1. \A k \in DOMAIN table : Becomes(table[k], table[k], app, 0)
    <3>1. \A k \in DOMAIN table : table[k] \in Argument /\ ~table[k].found
      BY DEF IsTable
    <3>2. \A arg : ~Mentioned(arg, app, 0) /\ ValueAfter(arg, app, 0) = arg.value
      BY DEF Mentioned, ValueAfter, Setters
    <3>3. QED  BY <3>1, <3>2 DEF Becomes
  <2>2. table \in [DOMAIN table -> Argument]
    BY DEF IsTable
  <2>3. Sound(table, app, 0) /\ ~TakenAt(table, app, 0)
    BY DEF Sound, TakenAt
  <2>4. QED  BY <2>1, <2>2, <2>3 DEF Begin, LoopState, Tracks
<1> HIDE DEF after
<1>3. 0 \in S
  BY <1>1, <1>2
<1>4. ASSUME NEW i \in Nat, i \in S PROVE i + 1 \in S
  <2>1. SUFFICES ASSUME i + 1 \in 1 .. Len(app)
                 PROVE  Tracks(after[i + 1], table, app, i + 1)
    OBVIOUS
  <2>2. Tracks(after[(i + 1) - 1], table, app, (i + 1) - 1)
    BY <1>4, <2>1
  <2>3. after[i + 1] = Iteration(after[(i + 1) - 1], app, i + 1)
    BY <1>1, <2>1
  <2>4. QED  BY <2>1, <2>2, <2>3, IterationTracks
<1>5. Nat \subseteq S
  <2> HIDE DEF S
  <2>1. QED  BY <1>3, <1>4, SetInduction
<1>6. QED  BY <1>5 DEF after

LEMMA AppOptionsType ==
  ASSUME NEW argv \in Seq(STRING)
  PROVE  Len(AppOptions(argv)) \in Nat
<1>0. CASE Separators(argv) = {}
  <2>1. AppOptions(argv) = <<>>
    BY <1>0 DEF AppOptions
  <2>2. QED  BY <2>1
<1> SUFFICES ASSUME Separators(argv) # {} PROVE Len(AppOptions(argv)) \in Nat
  BY <1>0
<1> DEFINE first == CHOOSE i \in Separators(argv) : \A j \in Separators(argv) : i <= j
<1>1. Separators(argv) \subseteq 1 .. Len(argv) /\ Len(argv) \in Nat
  BY DEF Separators
<1>2. \E i \in Separators(argv) : \A j \in Separators(argv) : i <= j
  <2>1. Separators(argv) \in SUBSET Nat
    BY <1>1
  <2>2. QED  BY <2>1, LeastNatural
<1>3. first \in 1 .. Len(argv)
  BY <1>1, <1>2
<1>4. AppOptions(argv) = SubSeq(argv, first + 1, Len(argv))
  BY DEF AppOptions
<1> HIDE DEF first
<1>5. AppOptions(argv) \in Seq(STRING)
  BY <1>1, <1>3, <1>4
<1>6. QED  BY <1>5

(* The loop-free WellFormed and the promise, in the words of the loop.     *)
LEMMA WellFormedIsSound ==
  ASSUME NEW table, IsTable(table), NEW app, Len(app) \in Nat
  PROVE  WellFormed(table, app) <=>
           /\ Sound(table, app, Len(app))
           /\ \A k \in DOMAIN table :
                table[k].required => Mentioned(table[k], app, Len(app))
BY DEF WellFormed, Sound, Known, NotEmpty, Mentioned

(* parse() accepts exactly the command lines that are well-formed behind   *)
(* the separator, the empty one among them only if nothing is required,    *)
(* and gives every argument its last value or its default, for every table *)
(* in which a token names one argument at most and no value is a name.     *)
THEOREM ParserKeepsItsPromise ==
  ASSUME NEW table, IsTable(table), NEW argv \in Seq(STRING)
  PROVE  ParsesAsPromised(table, argv)
<1> DEFINE app == AppOptions(argv)
           end == Rounds(table, app)[Len(app)]
           parsed == parse(table, argv)
           complete == \A k \in DOMAIN table : end.args[k].required => end.args[k].found
<1>1. Len(app) \in Nat
  BY AppOptionsType
<1>2. Tracks(end, table, app, Len(app))
  BY <1>1, LoopTracks
<1>3. parsed = [ok |-> ~MissingSeparator(argv) /\ end.ok /\ complete, args |-> end.args]
  BY DEF parse
<1> HIDE DEF app, end, parsed, complete
<1>4. parsed.args = end.args /\ (parsed.ok <=> ~MissingSeparator(argv) /\ end.ok /\ complete)
  BY <1>3
<1>5. end.ok =>
        \A k \in DOMAIN table : /\ end.args[k] \in Argument
                                /\ Becomes(end.args[k], table[k], app, Len(app))
  BY <1>2 DEF Tracks, Becomes
<1>6. end.ok => (complete <=> \A k \in DOMAIN table :
                    table[k].required => Mentioned(table[k], app, Len(app)))
  BY <1>5 DEF complete, Becomes
<1>7. end.ok /\ complete <=> WellFormed(table, app)
  BY <1>1, <1>2, <1>6, WellFormedIsSound DEF Tracks
<1>8. parsed.ok <=> ~MissingSeparator(argv) /\ WellFormed(table, app)
  BY <1>4, <1>7
<1>9. parsed.ok => \A k \in DOMAIN table :
        /\ parsed.args[k].found <=> \E i \in 1 .. Len(app) : Names(table[k], app[i])
        /\ parsed.args[k].value = ValueAfter(table[k], app, Len(app))
  BY <1>4, <1>5 DEF Becomes, Mentioned, Argument
<1>10. QED
  BY <1>8, <1>9 DEF ParsesAsPromised, parsed, app

LEMMA Literals ==
  /\ "--help" \in Text /\ "-h" \in Text /\ "false" \in Text
  /\ "--mode" \in Text /\ "-m" \in Text /\ "Loopback" \in Text
  /\ "--mode-threads" \in Text /\ "-mth" \in Text /\ "1" \in Text
  /\ "--abstract_sockname" \in Text /\ "-absn" \in Text /\ "cm_to_ph_sock" \in Text
  /\ "--port_data_sockname" \in Text /\ "-pdsn" \in Text
  /\ "/tmp/port_data.sock" \in Text
  /\ "--port_control_sockname" \in Text /\ "-pcsn" \in Text
  /\ "/tmp/port_ctrl.sock" \in Text
  /\ "--vhost_sockname" \in Text /\ "-vsn" \in Text /\ "/tmp/vhost.sock" \in Text
  /\ "--x" \in Text /\ "-x" \in Text /\ "" \in Text
BY DEF Text

(* arg is an argument with these names that nobody has given yet. *)
Entry(arg, long_n, short_n) ==
  /\ arg \in Argument
  /\ ~arg.found
  /\ arg.long_name = long_n
  /\ arg.short_name = short_n

LEMMA AddedArgument ==
  ASSUME NEW long_n \in Text, NEW short_n \in Text, NEW req \in BOOLEAN,
         NEW default_v \in Text
  PROVE  Entry(add_argument(long_n, short_n, req, default_v), long_n, short_n)
BY DEF Entry, add_argument, Argument

(* The table of the program is one the theorem is about. *)
LEMMA ProgramTable == IsTable(arguments_)
<1> DEFINE A1 == add_argument("--help", "-h", FALSE, "false")
           A2 == add_argument("--mode", "-m", FALSE, "Loopback")
           A3 == add_argument("--mode-threads", "-mth", FALSE, "1")
           A4 == add_argument("--abstract_sockname", "-absn", FALSE, "cm_to_ph_sock")
           A5 == add_argument("--port_data_sockname", "-pdsn", FALSE, "/tmp/port_data.sock")
           A6 == add_argument("--port_control_sockname", "-pcsn", FALSE, "/tmp/port_ctrl.sock")
           A7 == add_argument("--vhost_sockname", "-vsn", FALSE, "/tmp/vhost.sock")
<1>1. arguments_ = <<A1, A2, A3, A4, A5, A6, A7>>
  BY DEF arguments_
<1>2. /\ Entry(A1, "--help", "-h")
      /\ Entry(A2, "--mode", "-m")
      /\ Entry(A3, "--mode-threads", "-mth")
      /\ Entry(A4, "--abstract_sockname", "-absn")
  BY AddedArgument, Literals, Zenon
<1>3. /\ Entry(A5, "--port_data_sockname", "-pdsn")
      /\ Entry(A6, "--port_control_sockname", "-pcsn")
      /\ Entry(A7, "--vhost_sockname", "-vsn")
  BY AddedArgument, Literals, Zenon
<1> HIDE DEF A1, A2, A3, A4, A5, A6, A7
<1>4. arguments_ \in Seq(Argument) /\ DOMAIN arguments_ = 1 .. 7
  BY <1>1, <1>2, <1>3 DEF Entry
<1>5. /\ arguments_[1] = A1 /\ arguments_[2] = A2 /\ arguments_[3] = A3
      /\ arguments_[4] = A4 /\ arguments_[5] = A5 /\ arguments_[6] = A6
      /\ arguments_[7] = A7
  BY <1>1
<1>6. \A k \in DOMAIN arguments_ : ~arguments_[k].found
  BY <1>2, <1>3, <1>4, <1>5 DEF Entry
<1>7. \A k \in DOMAIN arguments_ : \A token \in Words : ~Names(arguments_[k], token)
  BY NamesAssumption DEF Names
<1>8. \A j, k \in 1 .. 7 : \A token :
        Names(arguments_[j], token) /\ Names(arguments_[k], token) => j = k
  BY <1>2, <1>3, <1>5 DEF Names, Entry
<1>9. QED  BY <1>4, <1>6, <1>7, <1>8 DEF IsTable

=============================================================================
