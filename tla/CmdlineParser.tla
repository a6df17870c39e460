---------------------------- MODULE CmdlineParser ----------------------------
(***************************************************************************)
(* The command line: src/cmdline_parser.cpp with the table of arguments    *)
(* that ConfigManager's constructor puts into it.                          *)
(*                                                                         *)
(* argv is the sequence of the program's arguments without its name.  An   *)
(* argument either begins with a dash or it does not, and beyond that is   *)
(* only compared with others, so arguments are strings never taken apart.  *)
(* Which exception ends parse() is left out: it fails or it does not.      *)
(***************************************************************************)
EXTENDS Integers, Sequences

CONSTANT
  Words      \* arguments that do not begin with a dash; "" may be one

ASSUME WordsAssumption == Words \subseteq STRING /\ "--" \notin Words

add_argument(long_n, short_n, req, default_v) ==
  [long_name |-> long_n, short_name |-> short_n, required |-> req,
   found |-> FALSE, value |-> default_v]

(* arguments_ as ConfigManager fills it.  Nothing is required. *)
arguments_ ==
  << add_argument("--help", "-h", FALSE, "false"),
     add_argument("--mode", "-m", FALSE, "Loopback"),
     add_argument("--mode-threads", "-mth", FALSE, "1"),
     add_argument("--abstract_sockname", "-absn", FALSE, "cm_to_ph_sock"),
     add_argument("--port_data_sockname", "-pdsn", FALSE, "/tmp/port_data.sock"),
     add_argument("--port_control_sockname", "-pcsn", FALSE, "/tmp/port_ctrl.sock"),
     add_argument("--vhost_sockname", "-vsn", FALSE, "/tmp/vhost.sock") >>

ASSUME NamesAssumption ==
  \A k \in DOMAIN arguments_ :
    {arguments_[k].long_name, arguments_[k].short_name} \cap Words = {}

Names(arg, token) == token = arg.long_name \/ token = arg.short_name

(* The arguments behind the first "--": none if there is none. *)
Separators(argv) == {i \in 1 .. Len(argv) : argv[i] = "--"}
AppOptions(argv) ==
  IF Separators(argv) = {} THEN <<>>
  ELSE LET first == CHOOSE i \in Separators(argv) : \A j \in Separators(argv) : i <= j
       IN  SubSeq(argv, first + 1, Len(argv))

(* Any argument at all needs the separator in front of it or behind it.    *)
MissingSeparator(argv) == Separators(argv) = {} /\ argv # <<>>

-----------------------------------------------------------------------------
(* parse(), the loop over the arguments behind the separator.               *)

HasValue(app, i) == i < Len(app) /\ app[i + 1] \in Words

(* Mutant: an argument keeps the first value it is given. *)
Given_first_value(arg, app, i) ==
  [arg EXCEPT !.found = TRUE,
              !.value = IF HasValue(app, i) /\ ~arg.found THEN app[i + 1] ELSE @]

Given(arg, app, i) ==
  [arg EXCEPT !.found = TRUE, !.value = IF HasValue(app, i) THEN app[i + 1] ELSE @]

(* One round of the loop, at token i.  taken says that the next token is   *)
(* the value of this one and has no round of its own.                      *)
Round(state, app, i) ==
  IF \A k \in DOMAIN state.args : ~Names(state.args[k], app[i])
    THEN [state EXCEPT !.ok = FALSE]
    ELSE LET k == CHOOSE k \in DOMAIN state.args :
                    /\ Names(state.args[k], app[i])
                    /\ \A j \in 1 .. k - 1 : ~Names(state.args[j], app[i])
             arg == state.args[k]
         IN  [args  |-> [state.args EXCEPT ![k] = Given(arg, app, i)],
              taken |-> HasValue(app, i),
              ok    |-> HasValue(app, i) \/ ~(arg.required /\ arg.value = "")]

(* A token that was taken as a value has no round, and the first mistake   *)
(* ends the loop.                                                          *)
Iteration(was, app, i) ==
  CASE ~was.ok -> was
    [] was.ok /\ was.taken -> [was EXCEPT !.taken = FALSE]
    [] OTHER -> Round(was, app, i)

(* The state of the loop after each number of tokens. *)
Rounds(table, app) ==
  LET after[i \in 0 .. Len(app)] ==
        IF i = 0 THEN [args |-> table, taken |-> FALSE, ok |-> TRUE]
                 ELSE Iteration(after[i - 1], app, i)
  IN  after

(* Mutant: nobody checks that what is required was given. *)
parse_unchecked(table, argv) ==
  LET end == Rounds(table, AppOptions(argv))[Len(AppOptions(argv))] IN
  [ok |-> ~MissingSeparator(argv) /\ end.ok, args |-> end.args]

(* What is required must have been found, also on the empty command line,  *)
(* on which the loop has no round.                                         *)
parse(table, argv) ==
  LET end == Rounds(table, AppOptions(argv))[Len(AppOptions(argv))] IN
  [ok   |-> /\ ~MissingSeparator(argv)
            /\ end.ok
            /\ \A k \in DOMAIN table : end.args[k].required => end.args[k].found,
   args |-> end.args]

(* get<std::string>(name) and get<bool>(name). *)
get(args, name) ==
  LET k == CHOOSE k \in DOMAIN args : Names(args[k], name) IN args[k].value

get_bool(args, name) == get(args, name) \in {"true", "1", "yes", "-h", "--help"}

(* ConfigManager::init. *)
init(argv) ==
  LET parsed == parse(arguments_, argv)
  IN  [ok |-> parsed.ok /\ ~get_bool(parsed.args, "--help"), args |-> parsed.args]

-----------------------------------------------------------------------------
(* What parse() promises, said without a loop.                              *)

IsName(table, token) == \E k \in DOMAIN table : Names(table[k], token)

Setters(arg, app, n) == {i \in 1 .. n : Names(arg, app[i]) /\ HasValue(app, i)}

(* The value of an argument after n tokens: the last one given. *)
ValueAfter(arg, app, n) ==
  LET given == Setters(arg, app, n) IN
  IF given = {} THEN arg.value
  ELSE app[1 + CHOOSE i \in given : \A j \in given : j <= i]

(* Every token is a name of the table or a value right behind one, and a   *)
(* required argument is named, and never without a value while it has none.*)
WellFormed(table, app) ==
  /\ \A i \in 1 .. Len(app) :
       \/ IsName(table, app[i])
       \/ i > 1 /\ app[i] \in Words /\ IsName(table, app[i - 1])
  /\ \A k \in DOMAIN table : table[k].required =>
       /\ \E i \in 1 .. Len(app) : Names(table[k], app[i])
       /\ \A i \in 1 .. Len(app) :
            Names(table[k], app[i]) /\ ~HasValue(app, i) =>
              ValueAfter(table[k], app, i - 1) # ""

(* parse() accepts exactly the command lines that are well-formed behind   *)
(* the separator, the empty one among them if nothing is required, and     *)
(* gives every argument its last value on the line or else its default:    *)
(* flags may be repeated, mixed long and short, and given without a value. *)
ParsesAsPromised(table, argv) ==
  LET app == AppOptions(argv) IN
  /\ parse(table, argv).ok <=> ~MissingSeparator(argv) /\ WellFormed(table, app)
  /\ parse(table, argv).ok =>
       \A k \in DOMAIN table :
         /\ parse(table, argv).args[k].found <=>
              \E i \in 1 .. Len(app) : Names(table[k], app[i])
         /\ parse(table, argv).args[k].value = ValueAfter(table[k], app, Len(app))

=============================================================================
