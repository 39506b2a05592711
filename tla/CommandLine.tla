---------------------------- MODULE CommandLine -----------------------------
(***************************************************************************)
(* The command line (include/corecpp/cli/parser.h, command_line.h and      *)
(* src/command_line.cpp): a cursor over the arguments, shared by the       *)
(* parsers of the program and of its commands, which read options, then    *)
(* either a command or the parameters.                                     *)
(*                                                                         *)
(* One step is one turn of a loop of the code.  An argument is a record    *)
(* that says how it looks to the parser:                                   *)
(*   [form |-> "dashes", text]              two dashes                     *)
(*   [form |-> "long", text, name, value]   --name, --name=, --name=value  *)
(*   [form |-> "short", text, names]        -xyz, or a single dash         *)
(*   [form |-> "word", text]                anything else                  *)
(* where text is the argument as a whole, as a value reads it.  The value  *)
(* of an option or parameter is the sequence of the texts it was given.    *)
(***************************************************************************)
EXTENDS Naturals, Sequences, FiniteSets

CONSTANTS Arguments,     \* the arguments a command line is made of
          MaxArgs,       \* bound: how many there are
          OptionsAt,     \* OptionsAt[level]: the options, in the order they were added
          CommandsAt,    \* CommandsAt[level]: the names of the commands
          ParamsAt,      \* ParamsAt[level]: the parameters, in order
          IntTexts,      \* the texts operator>> reads an integer from
          Trues, Falses, \* the texts a bool is read from
          Items,         \* Items[text]: the text cut at its commas
          NoName         \* the short name of an option without one

\* The program, the command it runs, the command of that one and so on.
Levels == 1..Len(OptionsAt)

\* An option is [short, name, type, def], a parameter [name, type, optional];
\* def is the value given to use_default, or <<>>.
Types == {"bool", "int", "string", "ints"}
Options == [short : STRING, name : STRING, type : Types, def : Seq(STRING)]
Params  == [name : STRING, type : Types, optional : BOOLEAN]
Opts   == UNION {{OptionsAt[l][i] : i \in DOMAIN OptionsAt[l]} : l \in Levels}
Parms  == UNION {{ParamsAt[l][i] : i \in DOMAIN ParamsAt[l]} : l \in Levels}
Names  == {o.name : o \in Opts} \cup {q.name : q \in Parms}
Forms  == {"dashes", "long", "short", "word"}

\* Every option and parameter is bound to a variable of its own, which its
\* name stands for.  The innermost commands have no commands.
ASSUME CommandLineAssumption ==
  /\ MaxArgs \in Nat
  /\ "" \notin IntTexts \cup Trues \cup Falses
  /\ OptionsAt \in Seq(Seq(Options)) /\ OptionsAt # <<>>
  /\ ParamsAt \in [Levels -> Seq(Params)]
  /\ CommandsAt \in [Levels -> SUBSET STRING] /\ CommandsAt[Len(OptionsAt)] = {}
  /\ \A o, q \in Opts : o.name = q.name => o = q
  /\ \A o \in Opts, q \in Parms : o.name # q.name
  /\ \A a \in Arguments : a.form \in Forms /\ (a.form = "short" => a.names \in Seq(STRING))

VARIABLES argv,        \* the arguments, without the program's name
          m_pos,       \* how many have been read; one more once reading failed
          m_commands,  \* the positions of the commands that were read
          level,       \* which parser is at work
          phase,       \* what it is doing
          cluster,     \* the short names of the argument that are left
          target,      \* the option or parameter a sequence is being read into
          param,       \* the parameter parse_parameters has come to
          value,       \* the value of every option and parameter
          role         \* history: role[i]: what argument i was read as

vars == <<argv, m_pos, m_commands, level, phase, cluster, target, param, value, role>>

Unset == [given |-> FALSE, texts |-> <<>>]
Given(texts) == [given |-> TRUE, texts |-> texts]

Init ==
  /\ argv \in UNION {[1..n -> Arguments] : n \in 0..MaxArgs}
  /\ m_pos = 0
  /\ m_commands = <<>>
  /\ level = 1
  /\ phase = "options"
  /\ cluster = <<>>
  /\ target = "none"
  /\ param = 1
  /\ value = [n \in Names |-> Unset]
  /\ role = [i \in DOMAIN argv |-> "unread"]

\* peek() gives nullptr
AtEnd == m_pos >= Len(argv)

Peek == argv[m_pos + 1]

\* read() and consume() with an argument left: it is read as r.
Consume(r) ==
  /\ m_pos' = m_pos + 1
  /\ role' = [role EXCEPT ![m_pos + 1] = r]

\* read() at the end: the position moves once more, then stays.
ReadPastEnd ==
  /\ m_pos' = IF m_pos > Len(argv) THEN m_pos ELSE m_pos + 1
  /\ UNCHANGED role

\* get_option: the first option that matches.
First(matching) == CHOOSE o \in matching : \A q \in matching : o.rank <= q.rank
Ranked == {[rank |-> i, opt |-> OptionsAt[level][i]] : i \in DOMAIN OptionsAt[level]}
Long(name)   == {r \in Ranked : r.opt.name = name}
\* Mutant: an option without a short name matches every short name.
ShortOrNameless(short) == {r \in Ranked : r.opt.short \in {short, NoName}}

Short(short) == {r \in Ranked : r.opt.short = short}

Set(name, texts) == value' = [value EXCEPT ![name] = Given(texts)]
\* emplace_back and read: the sequence grows by one text.
Extend(name, texts) ==
  value' = [value EXCEPT ![name] = Given(value[name].texts \o texts)]

Fail == phase' = "error"

-----------------------------------------------------------------------------
\* use_default: a bool is set to its default, which is true unless another was
\* declared; anything else is only touched if it has one.
UseDefault(o) ==
  IF o.def # <<>> THEN Set(o.name, o.def)
  ELSE IF o.type = "bool" THEN Set(o.name, <<"true">>) ELSE UNCHANGED value

\* long_option_parser, for --name=value.
ReadLong(o, text) ==
  CASE o.type = "bool" ->
         IF text \in Trues \cup Falses
         THEN Set(o.name, <<IF text \in Trues THEN "true" ELSE "false">>) /\ phase' = "options"
         ELSE Set(o.name, <<"false">>) /\ Fail
    [] o.type = "int" ->
         IF text \in IntTexts THEN Set(o.name, <<text>>) /\ phase' = "options"
         ELSE Set(o.name, <<"0">>) /\ Fail
    [] o.type = "string" -> Set(o.name, <<text>>) /\ phase' = "options"
    [] o.type = "ints" ->
         LET items == Items[text]
             bad   == {i \in DOMAIN items : /\ items[i] \notin IntTexts
                                            /\ items[i] = "" => i = Len(items)}
             stop  == IF bad = {} THEN Len(items) + 1
                      ELSE CHOOSE i \in bad : \A j \in bad : i <= j
             good  == SelectSeq(SubSeq(items, 1, stop - 1), LAMBDA x : x # "")
         IN  IF bad = {} THEN Extend(o.name, good) /\ phase' = "options"
             ELSE /\ Extend(o.name, IF items[stop] = "" THEN good ELSE Append(good, "0"))
                  /\ Fail

\* short_option_parser, for the last name of a cluster: it reads the
\* arguments that follow, dashes or not.
ReadShort(o) ==
  /\ cluster' = <<>>
  /\ CASE o.type = "bool" ->
            Set(o.name, <<"true">>) /\ phase' = "options" /\ UNCHANGED <<m_pos, role, target>>
       [] o.type = "int" /\ AtEnd ->
            ReadPastEnd /\ Fail /\ UNCHANGED <<value, target>>
       [] o.type = "string" /\ AtEnd ->
            ReadPastEnd /\ phase' = "undefined" /\ UNCHANGED <<value, target>>
       [] o.type = "int" /\ ~ AtEnd ->
            /\ Consume("value")
            /\ IF Peek.text \in IntTexts THEN Set(o.name, <<Peek.text>>) /\ phase' = "options"
               ELSE Set(o.name, <<"0">>) /\ Fail
            /\ UNCHANGED target
       [] o.type = "string" /\ ~ AtEnd ->
            Consume("value") /\ Set(o.name, <<Peek.text>>) /\ phase' = "options" /\ UNCHANGED target
       [] o.type = "ints" ->
            target' = o.name /\ phase' = "elements" /\ UNCHANGED <<m_pos, role, value>>

-----------------------------------------------------------------------------
\* Mutant: two dashes are passed over.
EndOptionsAtWord ==
  /\ phase = "options"
  /\ \/ AtEnd /\ UNCHANGED <<m_pos, role>> /\ phase' = "command"
     \/ ~ AtEnd /\ Peek.form = "word" /\ UNCHANGED <<m_pos, role>> /\ phase' = "command"
     \/ ~ AtEnd /\ Peek.form = "dashes" /\ Consume("separator") /\ UNCHANGED phase
  /\ UNCHANGED <<argv, m_commands, level, cluster, target, param, value>>

\* parse_options: the loop ends at the end, at a word, or behind two dashes.
EndOptions ==
  /\ phase = "options"
  /\ \/ AtEnd /\ UNCHANGED <<m_pos, role>>
     \/ ~ AtEnd /\ Peek.form = "word" /\ UNCHANGED <<m_pos, role>>
     \/ ~ AtEnd /\ Peek.form = "dashes" /\ Consume("separator")
  /\ phase' = "command"
  /\ UNCHANGED <<argv, m_commands, level, cluster, target, param, value>>

\* Mutant: the option is looked at but not read.
LongOptionPeeked ==
  /\ phase = "options" /\ ~ AtEnd /\ Peek.form = "long"
  /\ IF Long(Peek.name) = {} THEN Fail /\ UNCHANGED value
     ELSE LET o == First(Long(Peek.name)).opt IN
          IF Peek.value = "" THEN UseDefault(o) /\ UNCHANGED phase
          ELSE ReadLong(o, Peek.value)
  /\ UNCHANGED <<argv, m_pos, role, m_commands, level, cluster, target, param>>

\* parse_options: --name or --name=value.
LongOption ==
  /\ phase = "options" /\ ~ AtEnd /\ Peek.form = "long"
  /\ Consume("option")
  /\ IF Long(Peek.name) = {} THEN Fail /\ UNCHANGED value
     ELSE LET o == First(Long(Peek.name)).opt IN
          IF Peek.value = "" THEN UseDefault(o) /\ UNCHANGED phase
          ELSE ReadLong(o, Peek.value)
  /\ UNCHANGED <<argv, m_commands, level, cluster, target, param>>

\* parse_options: -xyz.  A single dash has no first name: the code reads the
\* terminating zero, which is the short name of an option without one, and
\* then runs off the end of the argument.
ShortOptions ==
  /\ phase = "options" /\ ~ AtEnd /\ Peek.form = "short"
  /\ Consume("option")
  /\ cluster' = Peek.names
  /\ phase' = IF Peek.names # <<>> THEN "cluster"
              ELSE IF Short(NoName) = {} THEN "error" ELSE "undefined"
  /\ UNCHANGED <<argv, m_commands, level, target, param, value>>

\* parse_options: one turn of the loop over the short names.
ShortOption ==
  /\ phase = "cluster"
  /\ IF Short(Head(cluster)) = {}
     THEN Fail /\ UNCHANGED <<m_pos, role, cluster, target, value>>
     ELSE LET o == First(Short(Head(cluster))).opt IN
          IF Len(cluster) = 1 THEN ReadShort(o)
          ELSE /\ UseDefault(o)
               /\ cluster' = Tail(cluster)
               /\ UNCHANGED <<m_pos, role, phase, target>>
  /\ UNCHANGED <<argv, m_commands, level, param>>

\* read_array of the short options and of the parameters: one turn.  Empty
\* arguments are passed over.  An element that is no integer stops an option;
\* the parser of the parameters has no exceptions and makes it zero.
Element ==
  /\ phase \in {"elements", "param_elements"}
  /\ IF (IF AtEnd THEN TRUE ELSE Peek.form = "dashes")
     THEN /\ phase' = IF phase = "elements" THEN "options" ELSE "parameters"
          /\ UNCHANGED <<m_pos, role, value>>
     ELSE /\ Consume(IF phase = "elements" THEN "value" ELSE "parameter")
          /\ IF Peek.text = "" THEN UNCHANGED <<phase, value>>
             ELSE IF Peek.text \in IntTexts THEN Extend(target, <<Peek.text>>) /\ UNCHANGED phase
             ELSE /\ Extend(target, <<"0">>)
                  /\ phase' = IF phase = "elements" THEN "error" ELSE phase
  /\ UNCHANGED <<argv, m_commands, level, cluster, target, param>>

\* Mutant: the command is stored but not consumed.
RunCommandUnread ==
  /\ phase = "command" /\ ~ AtEnd
  /\ Peek.text \in CommandsAt[level]
  /\ role' = [role EXCEPT ![m_pos + 1] = "command"]
  /\ m_commands' = Append(m_commands, m_pos + 1)
  /\ level' = level + 1
  /\ phase' = "options"
  /\ UNCHANGED <<argv, m_pos, cluster, target, param, value>>

\* parse_command found a command: it is consumed and its position stored, and
\* executing it parses on behind it.
RunCommand ==
  /\ phase = "command" /\ ~ AtEnd
  /\ Peek.text \in CommandsAt[level]
  /\ Consume("command")
  /\ m_commands' = Append(m_commands, m_pos + 1)
  /\ level' = level + 1
  /\ phase' = "options"
  /\ UNCHANGED <<argv, cluster, target, param, value>>

\* parse_command found none: the caller goes on with the parameters.
NoCommand ==
  /\ phase = "command"
  /\ ~ AtEnd => Peek.text \notin CommandsAt[level]
  /\ phase' = "parameters"
  /\ UNCHANGED <<argv, m_pos, m_commands, level, cluster, target, param, value, role>>

\* argument_parser, for one argument.
ReadArgument(q) ==
  CASE q.type = "bool" ->
         /\ Consume("parameter")
         /\ IF Peek.text \in Trues \cup Falses
            THEN Set(q.name, <<IF Peek.text \in Trues THEN "true" ELSE "false">>) /\ UNCHANGED phase
            ELSE Set(q.name, <<"false">>) /\ Fail
         /\ UNCHANGED target
    [] q.type = "int" ->
         /\ Consume("parameter")
         /\ Set(q.name, <<IF Peek.text \in IntTexts THEN Peek.text ELSE "0">>)
         /\ UNCHANGED <<phase, target>>
    [] q.type = "string" ->
         Consume("parameter") /\ Set(q.name, <<Peek.text>>) /\ UNCHANGED <<phase, target>>
    [] q.type = "ints" ->
         target' = q.name /\ phase' = "param_elements" /\ UNCHANGED <<m_pos, role, value>>

\* Mutant: a required parameter is not missed.
ParameterOptional ==
  /\ phase = "parameters" /\ param <= Len(ParamsAt[level])
  /\ IF ~ AtEnd THEN ReadArgument(ParamsAt[level][param])
     ELSE UNCHANGED <<phase, m_pos, role, value, target>>
  /\ param' = param + 1
  /\ UNCHANGED <<argv, m_commands, level, cluster>>

\* parse_parameters: one turn of the loop.
Parameter ==
  /\ phase = "parameters" /\ param <= Len(ParamsAt[level])
  /\ LET q == ParamsAt[level][param] IN
     IF ~ AtEnd THEN ReadArgument(q)
     ELSE /\ phase' = IF q.optional THEN phase ELSE "error"
          /\ UNCHANGED <<m_pos, role, value, target>>
  /\ param' = param + 1
  /\ UNCHANGED <<argv, m_commands, level, cluster>>

EndParameters ==
  /\ phase = "parameters" /\ param > Len(ParamsAt[level])
  /\ phase' = "done"
  /\ UNCHANGED <<argv, m_pos, m_commands, level, cluster, target, param, value, role>>

Next == \/ EndOptions \/ LongOption \/ ShortOptions \/ ShortOption \/ Element
        \/ RunCommand \/ NoCommand \/ Parameter \/ EndParameters

Spec == Init /\ [][Next]_vars

\* A parser that has begun runs on.
FairSpec == Spec /\ WF_vars(Next)

-----------------------------------------------------------------------------
Final == {"error", "undefined", "done"}

\* Every argument is read once and from the left, by whichever parser, option
\* or sequence it is that reads it: what has been read is what is in front of
\* the cursor, and the cursor passes the end by one at most.
ReadInOrder ==
  /\ m_pos <= Len(argv) + 1
  /\ \A i \in DOMAIN argv : role[i] # "unread" <=> i <= m_pos

\* Behind two dashes that ended the options no argument is an option any more
\* unless a command has begun a new list of them.
NothingOptionalBehindSeparator ==
  \A i, j \in DOMAIN argv :
    i < j /\ role[i] = "separator" /\ role[j] = "option" =>
      \E k \in DOMAIN m_commands : i < m_commands[k] /\ m_commands[k] < j

\* Whatever is shown as the command (in a usage message) names commands, one
\* for each level entered, in the order in which they were given.
CommandsAreCommands ==
  /\ Len(m_commands) = level - 1
  /\ \A k \in DOMAIN m_commands :
       /\ m_commands[k] \in DOMAIN argv
       /\ role[m_commands[k]] = "command"
       /\ argv[m_commands[k]].text \in CommandsAt[k]

\* The option of this name or short name is mentioned in what was read as options.
Mentioned(o) ==
  \E i \in DOMAIN argv :
    /\ role[i] = "option"
    /\ \/ argv[i].form = "long" /\ argv[i].name = o.name
       \/ argv[i].form = "short" /\ \E k \in DOMAIN argv[i].names : argv[i].names[k] = o.short

\* A value that looks like an option, or an option that is read as a value,
\* never sets another option: only options that are mentioned change.
OnlyMentionedOptionsChange ==
  \A o \in Opts : value[o.name].given => Mentioned(o)

\* An argument comes behind the end of the options: two dashes, or a word that
\* was no value.
BehindOptions(j) ==
  \E i \in 1..(j - 1) : \/ role[i] = "separator"
                        \/ argv[i].form = "word" /\ role[i] \in {"parameter", "unread"}

\* When parsing ends well, each required parameter that takes one value has it,
\* no option was left in front of the command or the parameters, and the stored
\* positions are those of the arguments that were read as commands.
WellParsed ==
  phase = "done" =>
    /\ CommandsAreCommands
    /\ \A i \in DOMAIN ParamsAt[level] :
         LET q == ParamsAt[level][i] IN
         ~ q.optional /\ q.type # "ints" => value[q.name].given
    /\ \A j \in DOMAIN argv :
         role[j] \in {"parameter", "unread"} /\ argv[j].form \in {"long", "short"} => BehindOptions(j)

\* Parsing comes to an end on every command line.
Terminates == <>(phase \in Final)
=============================================================================
