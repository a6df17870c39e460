------------------------------ MODULE MCStartup ------------------------------
(***************************************************************************)
(* Instances of Startup for TLC: two processes.  One is started with every *)
(* command line of up to three application arguments over a few tokens, so *)
(* that names are repeated, left without a value or unknown; the other one *)
(* with a few that matter to the first.                                    *)
(***************************************************************************)
EXTENDS Startup

MCProcs == {1, 2}
MCWords == {"Loopback", "Back2Back", "Emulator", "Other", "true", "1", "", "name",
            "long", "sock"}
MCLongNames == {"long"}

Tokens == {"-m", "--mode", "-h", "-x", "Other", "true", ""}

MCAnyLine ==
  {<<"--">> \o app : app \in UNION {[1 .. n -> Tokens] : n \in 0 .. 3}}
    \cup {<<>>, <<"-x">>, <<"-x", "--", "-h", "1">>, <<"--", "--">>,
          <<"--", "-absn", "name">>, <<"--", "-absn", "long">>,
          <<"--", "-m", "Back2Back">>, <<"--", "-m", "Emulator">>}

MCFewLines ==
  {<<>>, <<"--", "-m", "Back2Back", "-vsn", "sock">>, <<"--", "-vsn", "sock">>}

MCCommandLines == <<MCAnyLine, MCFewLines>>

(* For the run about strangers: two names, two sockets for guests. *)
MCNamedLines ==
  << {<<>>}, {<<"--", "-absn", "name", "-vsn", "sock">>} >>

(* The program requires none of its arguments; the parser is asked about   *)
(* a table of its own that does.                                           *)
MCTable == << add_argument("--x", "-x", TRUE, ""),
              add_argument("--mode", "-m", TRUE, "Loopback") >>

ASSUME MCTableAssumption == {"--x", "-x"} \cap Words = {}

(* What its process is started with, such a table is understood as         *)
(* promised: what is required must be named, and not without a value.      *)
RequiredUnderstood ==
  \A p \in Procs : stage[p] = "parse" => ParsesAsPromised(MCTable, argv[p])

=============================================================================
