--------------------------- MODULE MCCommandLine ----------------------------
(***************************************************************************)
(* Instances of CommandLine for TLC: a program with options of each type,  *)
(* one command with an option and parameters of its own.                   *)
(***************************************************************************)
EXTENDS CommandLine

Option(s, n, t, d) == [short |-> s, name |-> n, type |-> t, def |-> d]
Param(n, t, opt) == [name |-> n, type |-> t, optional |-> opt]

ProgramOptions ==
  << <<Option("q", "quiet", "bool", <<>>),
       Option("n", "number", "int", <<>>),
       Option("l", "list", "ints", <<>>)>>,
     <<Option("s", "string", "string", <<"dflt">>),
       Option("none", "hidden", "int", <<>>)>> >>
ProgramCommands == << {"cmd"}, {} >>
ProgramParams ==
  << <<Param("first", "int", FALSE), Param("rest", "ints", TRUE)>>,
     <<Param("flag", "bool", FALSE), Param("what", "string", TRUE)>> >>

Ints == {"1", "2", "-2"}
Cut == [t \in {"1", "1,,x", "1,2,", "on", "x"} |->
          CASE t = "1,,x" -> <<"1", "", "x">> [] t = "1,2," -> <<"1", "2", "">> [] OTHER -> <<t>>]

LongArg(t, n, v) == [form |-> "long", text |-> t, name |-> n, value |-> v]
ShortArg(t, ns) == [form |-> "short", text |-> t, names |-> ns]
Word(t) == [form |-> "word", text |-> t]
Dashes == [form |-> "dashes", text |-> "--"]

ArgvArguments ==
  {Dashes, Word("1"), Word("x"), Word(""), Word("cmd"), Word("on"),
   LongArg("--quiet", "quiet", ""), LongArg("--list=1,,x", "list", "1,,x"),
   LongArg("--list=1,2,", "list", "1,2,"), LongArg("--quiet=x", "quiet", "x"),
   LongArg("--quiet=on", "quiet", "on"), LongArg("--string=", "string", ""),
   LongArg("--number=1", "number", "1"), LongArg("--string=x", "string", "x"),
   ShortArg("-", <<>>), ShortArg("-qn", <<"q", "n">>), ShortArg("-q", <<"q">>),
   ShortArg("-l", <<"l">>), ShortArg("-2", <<"2">>), ShortArg("-s", <<"s">>)}
=============================================================================
