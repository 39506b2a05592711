------------------------- MODULE CommandLineProofs --------------------------
(***************************************************************************)
(* Proofs about CommandLine for any options, commands and parameters, at   *)
(* any number of levels, and any command line: which argument is read as   *)
(* what, which variables change, what a successful parse has read, and a   *)
(* measure that every step makes smaller.                                  *)
(***************************************************************************)
EXTENDS CommandLine, WellFoundedInduction, TLAPS

Roles  == {"unread", "separator", "option", "value", "command", "parameter"}
Phases == {"options", "cluster", "elements", "command", "parameters", "param_elements",
           "error", "undefined", "done"}

TypeOK ==
  /\ argv \in Seq(Arguments)
  /\ m_pos \in Nat
  /\ m_commands \in Seq(Nat)
  /\ level \in Levels
  /\ phase \in Phases
  /\ cluster \in Seq(STRING)
  /\ param \in Nat \ {0}
  /\ DOMAIN value = Names /\ \A n \in Names : value[n].given \in BOOLEAN
  /\ role \in [DOMAIN argv -> Roles]

InOptions == {"options", "cluster", "elements"}

\* Nothing is read as a parameter before the command is over.
ParametersLast ==
  phase \in InOptions \cup {"command"} =>
    param = 1 /\ \A i \in DOMAIN argv : role[i] # "parameter"

\* Where options are read, a separator has a command behind it.
SeparatorsPassed ==
  phase \in InOptions =>
    \A i \in DOMAIN argv : role[i] = "separator" =>
      \E k \in DOMAIN m_commands : i < m_commands[k] /\ m_commands[k] <= m_pos

\* The short names that are left are of an argument read as options.
ClusterMentioned ==
  phase = "cluster" =>
    /\ cluster # <<>>
    /\ \E i \in DOMAIN argv :
         /\ role[i] = "option" /\ argv[i].form = "short"
         /\ \A k \in DOMAIN cluster : \E n \in DOMAIN argv[i].names : argv[i].names[n] = cluster[k]

\* A sequence is read into an option that was mentioned, or into a parameter.
TargetMentioned ==
  /\ phase = "elements" => \E o \in Opts : o.name = target /\ Mentioned(o)
  /\ phase = "param_elements" => \E q \in Parms : q.name = target

\* The required parameters in front of the one parse_parameters has come to
\* have their values.
GivenSoFar ==
  /\ phase \notin {"error", "undefined"} =>
       \A i \in DOMAIN ParamsAt[level] :
         LET q == ParamsAt[level][i] IN
         i < param /\ ~ q.optional /\ q.type # "ints" => value[q.name].given
  /\ phase = "done" => param > Len(ParamsAt[level])

\* What looks like an option and is none comes behind the end of the options.
OptionsBehind ==
  phase \in {"command", "parameters", "param_elements", "done"} =>
    \A j \in DOMAIN argv :
      role[j] \in {"parameter", "unread"} /\ argv[j].form \in {"long", "short"} => BehindOptions(j)

\* The inductive invariant.
IInv ==
  /\ TypeOK /\ ReadInOrder /\ ParametersLast /\ SeparatorsPassed
  /\ ClusterMentioned /\ TargetMentioned /\ GivenSoFar /\ OptionsBehind
  /\ CommandsAreCommands /\ NothingOptionalBehindSeparator /\ OnlyMentionedOptionsChange

-----------------------------------------------------------------------------
Less == {ss \in Nat \X Nat : ss[1] < ss[2]}

\* A set of numbers that is not empty has a least one.
LEMMA LeastNumber ==
  ASSUME NEW T, T \subseteq Nat, T # {}
  PROVE  \E x \in T : \A y \in T : x <= y
<1>1. Less = OpToRel(<, Nat)
  BY Zenon DEF Less, OpToRel
<1>2. PICK x \in T : \A y \in T : <<y, x>> \notin Less
  BY <1>1, NatLessThanWellFounded, WFMin
<1>3. ASSUME NEW y \in T PROVE x <= y
  <2>1. <<y, x>>[1] = y /\ <<y, x>>[2] = x /\ <<y, x>> \in Nat \X Nat
    OBVIOUS
  <2>2. y < x => <<y, x>> \in Less
    BY <2>1 DEF Less
  <2>3. QED BY <1>2, <2>2
<1>4. QED BY <1>3

\* The options of a level.
LEMMA OptionsType ==
  ASSUME level \in Levels PROVE OptionsAt[level] \in Seq(Options) /\ Len(OptionsAt[level]) \in Nat
<1>1. OptionsAt \in Seq(Seq(Options))
  BY CommandLineAssumption, Zenon
<1> HIDE DEF Options
<1>2. OptionsAt[level] \in Seq(Options)
  BY <1>1 DEF Levels
<1>3. QED BY <1>2

\* get_option finds an option if one matches.
LEMMA FirstMatches ==
  ASSUME level \in Levels, NEW S, S \subseteq Ranked, S # {}
  PROVE  First(S) \in S
<1>1. DOMAIN OptionsAt[level] \subseteq Nat
  BY OptionsType
<1>2. \A r \in S : r.rank \in Nat
  BY <1>1 DEF Ranked
<1> DEFINE T == {r.rank : r \in S}
<1>3. PICK x \in T : \A y \in T : x <= y
  <2>1. T \subseteq Nat /\ T # {}
    BY <1>2
  <2> HIDE DEF T
  <2>2. QED BY <2>1, LeastNumber
<1>4. PICK r \in S : r.rank = x
  BY <1>3
<1>5. \A q \in S : r.rank <= q.rank
  BY <1>3, <1>4
<1>6. QED BY <1>4, <1>5 DEF First

\* What the options and parameters are made of.
LEMMA OptionOf ==
  ASSUME level \in Levels, NEW r \in Ranked PROVE r.opt \in Opts /\ r.opt \in Options
<1>1. PICK i \in DOMAIN OptionsAt[level] : r.opt = OptionsAt[level][i]
  BY DEF Ranked
<1>2. OptionsAt[level] \in Seq(Options)
  BY OptionsType
<1>3. QED BY <1>1, <1>2 DEF Opts

\* The parameters of a level.
LEMMA ParamOf ==
  ASSUME level \in Levels, NEW i \in DOMAIN ParamsAt[level]
  PROVE  ParamsAt[level][i] \in Parms /\ ParamsAt[level][i] \in Params
<1>1. ParamsAt[level] \in Seq(Params)
  BY CommandLineAssumption
<1>2. QED BY <1>1 DEF Parms

-----------------------------------------------------------------------------
(***************************************************************************)
(* What a step reads and sets.                                             *)
(***************************************************************************)
ReadsNothing == UNCHANGED <<m_pos, role>> \/ (AtEnd /\ ReadPastEnd)
Reads(r) == ~ AtEnd /\ Consume(r)
SetsNothing == UNCHANGED value
Sets(name) == \E texts : Set(name, texts)

\* The cursor moves over what it reads.
LEMMA ReadsMoves ==
  ASSUME TypeOK, ReadInOrder, NEW r \in Roles, r # "unread", Reads(r), argv' = argv
  PROVE  /\ m_pos + 1 \in DOMAIN argv /\ role[m_pos + 1] = "unread"
         /\ m_pos' = m_pos + 1 /\ m_pos' \in Nat /\ role' \in [DOMAIN argv -> Roles]
         /\ role'[m_pos + 1] = r
         /\ \A i \in DOMAIN argv : i # m_pos + 1 => role'[i] = role[i]
         /\ ReadInOrder'
<1>1. Len(argv) \in Nat /\ DOMAIN argv = 1..Len(argv) /\ m_pos \in Nat /\ role \in [DOMAIN argv -> Roles]
  BY DEF TypeOK
<1>2. m_pos < Len(argv)
  BY <1>1 DEF Reads, AtEnd
<1>3. m_pos + 1 \in DOMAIN argv /\ role[m_pos + 1] = "unread"
  <2>1. m_pos + 1 \in DOMAIN argv /\ ~ (m_pos + 1 <= m_pos)
    BY <1>1, <1>2
  <2>2. QED BY <2>1 DEF ReadInOrder
<1>4. m_pos' = m_pos + 1 /\ role' = [role EXCEPT ![m_pos + 1] = r]
  BY DEF Reads, Consume
<1>5. /\ m_pos' \in Nat /\ role' \in [DOMAIN argv -> Roles] /\ role'[m_pos + 1] = r
      /\ \A i \in DOMAIN argv : i # m_pos + 1 => role'[i] = role[i]
  BY <1>1, <1>3, <1>4
<1>6. ReadInOrder'
  <2>1. m_pos' <= Len(argv) + 1
    BY <1>1, <1>2, <1>4
  <2>2. ASSUME NEW i \in DOMAIN argv PROVE role'[i] # "unread" <=> i <= m_pos'
    <3>1. CASE i = m_pos + 1
      BY <1>1, <1>4, <1>5, <3>1
    <3>2. CASE i # m_pos + 1
      <4>1. i <= m_pos' <=> i <= m_pos
        BY <1>1, <1>4, <3>2
      <4>2. QED BY <1>5, <3>2, <4>1 DEF ReadInOrder
    <3>3. QED BY <3>1, <3>2
  <2>3. QED BY <2>1, <2>2 DEF ReadInOrder
<1>7. QED BY <1>3, <1>4, <1>5, <1>6

\* No argument changes its role when none is read.
LEMMA ReadsNothingStays ==
  ASSUME TypeOK, ReadInOrder, ReadsNothing, argv' = argv
  PROVE  role' = role /\ m_pos' \in Nat /\ m_pos <= m_pos' /\ ReadInOrder'
<1>1. Len(argv) \in Nat /\ DOMAIN argv = 1..Len(argv) /\ m_pos \in Nat
  BY DEF TypeOK
<1>2. CASE UNCHANGED <<m_pos, role>>
  BY <1>1, <1>2 DEF ReadInOrder
<1>3. CASE AtEnd /\ ReadPastEnd
  BY <1>1, <1>3 DEF ReadInOrder, AtEnd, ReadPastEnd
<1>4. QED BY <1>2, <1>3 DEF ReadsNothing

\* What is set has a value then, and nothing else changes.
LEMMA SetsGives ==
  ASSUME TypeOK, NEW name \in Names, Sets(name)
  PROVE  /\ DOMAIN value' = Names /\ value'[name].given = TRUE
         /\ \A n \in Names : value'[n].given \in BOOLEAN
         /\ \A n \in Names : n # name => value'[n] = value[n]
<1>1. PICK texts : value' = [value EXCEPT ![name] = Given(texts)]
  BY DEF Sets, Set
<1>2. Given(texts).given = TRUE
  BY DEF Given
<1>3. QED BY <1>1, <1>2 DEF TypeOK

\* A longer sequence is one of the values a variable is set to.
LEMMA ExtendSets == ASSUME NEW name, NEW texts, Extend(name, texts) PROVE Sets(name)
  BY DEF Extend, Sets, Set

-----------------------------------------------------------------------------
(***************************************************************************)
(* What the operations do.                                                 *)
(***************************************************************************)
\* use_default.
LEMMA UseDefaultDoes ==
  ASSUME NEW o, UseDefault(o) PROVE SetsNothing \/ Sets(o.name)
  BY DEF UseDefault, Sets, SetsNothing

\* long_option_parser.
LEMMA ReadLongDoes ==
  ASSUME NEW o \in Options, NEW text, ReadLong(o, text)
  PROVE  (SetsNothing \/ Sets(o.name)) /\ phase' \in {"options", "error"}
<1>1. CASE o.type = "bool"
  BY <1>1 DEF ReadLong, Sets, Fail
<1>2. CASE o.type = "int"
  BY <1>2 DEF ReadLong, Sets, Fail
<1>3. CASE o.type = "string"
  BY <1>3 DEF ReadLong, Sets, Fail
<1>4. CASE o.type = "ints"
  BY <1>4, ExtendSets DEF ReadLong, Fail
<1>5. o.type \in Types
  BY DEF Options
<1>6. QED BY <1>1, <1>2, <1>3, <1>4, <1>5 DEF Types

\* short_option_parser.
LEMMA ReadShortDoes ==
  ASSUME NEW o \in Options, ReadShort(o)
  PROVE  /\ cluster' = <<>>
         /\ phase' \in {"options", "error", "undefined", "elements"}
         /\ ReadsNothing \/ Reads("value")
         /\ SetsNothing \/ Sets(o.name)
         /\ phase' = "elements" => target' = o.name
<1>1. CASE o.type = "bool"
  BY <1>1 DEF ReadShort, Sets, ReadsNothing
<1>2. CASE o.type = "int" /\ AtEnd
  BY <1>2 DEF ReadShort, SetsNothing, ReadsNothing, Fail
<1>3. CASE o.type = "string" /\ AtEnd
  BY <1>3 DEF ReadShort, SetsNothing, ReadsNothing
<1>4. CASE o.type = "int" /\ ~ AtEnd
  BY <1>4 DEF ReadShort, Sets, Reads, Fail
<1>5. CASE o.type = "string" /\ ~ AtEnd
  BY <1>5 DEF ReadShort, Sets, Reads
<1>6. CASE o.type = "ints"
  BY <1>6 DEF ReadShort, SetsNothing, ReadsNothing
<1>7. o.type \in Types
  BY DEF Options
<1>8. QED BY <1>1, <1>2, <1>3, <1>4, <1>5, <1>6, <1>7 DEF Types

\* argument_parser.
LEMMA ReadArgumentDoes ==
  ASSUME NEW q \in Params, phase = "parameters", ~ AtEnd, ReadArgument(q)
  PROVE  /\ phase' \in {"parameters", "param_elements", "error"}
         /\ ReadsNothing \/ Reads("parameter")
         /\ SetsNothing \/ Sets(q.name)
         /\ q.type # "ints" => Sets(q.name)
         /\ phase' = "param_elements" => target' = q.name
<1>1. CASE q.type = "bool"
  BY <1>1 DEF ReadArgument, Sets, Reads, Fail
<1>2. CASE q.type = "int"
  BY <1>2 DEF ReadArgument, Sets, Reads
<1>3. CASE q.type = "string"
  BY <1>3 DEF ReadArgument, Sets, Reads
<1>4. CASE q.type = "ints"
  BY <1>4 DEF ReadArgument, SetsNothing, ReadsNothing
<1>5. q.type \in Types
  BY DEF Params
<1>6. QED BY <1>1, <1>2, <1>3, <1>4, <1>5 DEF Types

-----------------------------------------------------------------------------
(***************************************************************************)
(* What all steps keep.                                                    *)
(***************************************************************************)
RolesStay == \A i \in DOMAIN argv : role[i] # "unread" => role'[i] = role[i]

\* The variables keep what they have, and only mentioned options get a value.
LEMMA ValuesKept ==
  ASSUME IInv, argv' = argv, RolesStay,
         \/ SetsNothing
         \/ \E o \in Opts : Sets(o.name) /\ Mentioned(o)'
         \/ \E q \in Parms : Sets(q.name)
  PROVE  /\ DOMAIN value' = Names /\ \A n \in Names : value'[n].given \in BOOLEAN
         /\ \A n \in Names : value[n].given => value'[n].given
         /\ OnlyMentionedOptionsChange'
<1>1. ASSUME NEW o \in Opts, Mentioned(o) PROVE Mentioned(o)'
  BY <1>1 DEF Mentioned, RolesStay
<1>2. TypeOK /\ OnlyMentionedOptionsChange
  BY DEF IInv
<1>3. ASSUME SetsNothing
      PROVE  /\ DOMAIN value' = Names /\ \A n \in Names : value'[n].given \in BOOLEAN
             /\ \A n \in Names : value[n].given => value'[n].given
             /\ OnlyMentionedOptionsChange'
  <2>1. value' = value
    BY <1>3 DEF SetsNothing
  <2>2. OnlyMentionedOptionsChange'
    BY <1>1, <1>2, <2>1 DEF OnlyMentionedOptionsChange
  <2>3. QED BY <1>2, <2>1, <2>2 DEF TypeOK
<1>4. ASSUME NEW name \in Names, Sets(name), \A o \in Opts : o.name = name => Mentioned(o)'
      PROVE  /\ DOMAIN value' = Names /\ \A n \in Names : value'[n].given \in BOOLEAN
             /\ \A n \in Names : value[n].given => value'[n].given
             /\ OnlyMentionedOptionsChange'
  <2>1. /\ DOMAIN value' = Names /\ value'[name].given = TRUE
        /\ \A n \in Names : value'[n].given \in BOOLEAN
        /\ \A n \in Names : n # name => value'[n] = value[n]
    BY <1>2, <1>4, SetsGives
  <2>2. \A o \in Opts : o.name \in Names
    BY DEF Names
  <2>3. ASSUME NEW o \in Opts, value'[o.name].given PROVE Mentioned(o)'
    BY <1>1, <1>2, <1>4, <2>1, <2>2, <2>3 DEF OnlyMentionedOptionsChange
  <2>4. OnlyMentionedOptionsChange'
    BY <2>3 DEF OnlyMentionedOptionsChange
  <2>5. QED BY <2>1, <2>4
<1>5. ASSUME NEW o \in Opts, Sets(o.name), Mentioned(o)'
      PROVE  o.name \in Names /\ \A p \in Opts : p.name = o.name => Mentioned(p)'
  BY <1>5, CommandLineAssumption DEF Names
<1>6. ASSUME NEW q \in Parms, Sets(q.name)
      PROVE  q.name \in Names /\ \A p \in Opts : p.name = q.name => Mentioned(p)'
  BY CommandLineAssumption DEF Names
<1>7. QED BY <1>3, <1>4, <1>5, <1>6

\* The commands stay those that were read.
LEMMA CommandsKept ==
  ASSUME IInv, argv' = argv, RolesStay, UNCHANGED <<m_commands, level>>
  PROVE  CommandsAreCommands'
  BY DEF IInv, CommandsAreCommands, RolesStay

\* The parameters in front of param keep their values.
LEMMA GivenKept ==
  ASSUME IInv, UNCHANGED <<level, param>>, phase \notin {"error", "undefined"}, phase' # "done",
         \A n \in Names : value[n].given => value'[n].given
  PROVE  GivenSoFar'
<1>1. \A i \in DOMAIN ParamsAt[level] : ParamsAt[level][i].name \in Names
  BY ParamOf DEF IInv, TypeOK, Names
<1>2. QED BY <1>1 DEF IInv, GivenSoFar

\* No option is read, or one where no separator is in force.
LEMMA NothingOptionalKept ==
  ASSUME IInv, argv' = argv, m_commands' = m_commands,
         \/ ReadsNothing
         \/ \E r \in Roles \ {"unread", "option"} : Reads(r)
         \/ phase \in InOptions /\ Reads("option")
  PROVE  NothingOptionalBehindSeparator'
<1>1. TypeOK /\ ReadInOrder /\ NothingOptionalBehindSeparator /\ SeparatorsPassed
  BY DEF IInv
<1>2. CASE ReadsNothing
  <2>1. role' = role
    BY <1>1, <1>2, ReadsNothingStays
  <2>2. QED BY <1>1, <2>1 DEF NothingOptionalBehindSeparator
<1>3. ASSUME NEW r \in Roles \ {"unread"}, Reads(r), r = "option" => phase \in InOptions
      PROVE  NothingOptionalBehindSeparator'
  <2>1. /\ m_pos + 1 \in DOMAIN argv /\ role[m_pos + 1] = "unread" /\ m_pos \in Nat
        /\ role'[m_pos + 1] = r
        /\ \A i \in DOMAIN argv : i # m_pos + 1 => role'[i] = role[i]
    BY <1>1, <1>3, ReadsMoves DEF TypeOK
  <2>2. SUFFICES ASSUME NEW i \in DOMAIN argv, NEW j \in DOMAIN argv, i < j,
                        role'[i] = "separator", role'[j] = "option"
                 PROVE  \E k \in DOMAIN m_commands : i < m_commands[k] /\ m_commands[k] < j
    BY DEF NothingOptionalBehindSeparator
  <2>3. DOMAIN argv = 1..Len(argv) /\ Len(argv) \in Nat
        /\ \A k \in DOMAIN m_commands : m_commands[k] \in Nat
    BY <1>1 DEF TypeOK
  <2>4. i # m_pos + 1
    <3>1. SUFFICES ASSUME i = m_pos + 1 PROVE FALSE
      OBVIOUS
    <3>2. role[j] = "option" /\ ~ (j <= m_pos)
      BY <2>1, <2>2, <2>3, <3>1
    <3>3. QED BY <1>1, <3>2 DEF ReadInOrder
  <2>5. role[i] = "separator"
    BY <2>1, <2>2, <2>4
  <2>6. CASE j = m_pos + 1
    <3>1. phase \in InOptions
      BY <1>3, <2>1, <2>2, <2>6
    <3>2. PICK k \in DOMAIN m_commands : i < m_commands[k] /\ m_commands[k] <= m_pos
      BY <1>1, <2>5, <3>1 DEF SeparatorsPassed
    <3>3. QED BY <2>1, <2>3, <2>6, <3>2
  <2>7. CASE j # m_pos + 1
    BY <1>1, <2>1, <2>2, <2>5, <2>7 DEF NothingOptionalBehindSeparator
  <2>8. QED BY <2>6, <2>7
<1>4. QED BY <1>2, <1>3 DEF Roles, InOptions

\* What stands behind the end of the options stays there, whether it is read
\* as a parameter or not.
LEMMA BehindKept ==
  ASSUME IInv, argv' = argv, ReadsNothing \/ Reads("parameter"),
         phase \in {"command", "parameters", "param_elements"}
  PROVE  OptionsBehind'
<1>1. TypeOK /\ ReadInOrder /\ OptionsBehind
  BY DEF IInv
<1>2. /\ role' \in [DOMAIN argv -> Roles]
      /\ \A i \in DOMAIN argv : role'[i] # role[i] => role[i] = "unread" /\ role'[i] = "parameter"
  <2>1. CASE ReadsNothing
    BY <1>1, <2>1, ReadsNothingStays DEF TypeOK
  <2>2. CASE Reads("parameter")
    <3>1. "parameter" \in Roles /\ "parameter" # "unread"
      BY DEF Roles
    <3>2. QED BY <1>1, <2>2, <3>1, ReadsMoves
  <2>3. QED BY <2>1, <2>2
<1>3. DOMAIN argv = 1..Len(argv) /\ Len(argv) \in Nat
  BY <1>1 DEF TypeOK
<1>4. ASSUME NEW j \in DOMAIN argv, BehindOptions(j) PROVE BehindOptions(j)'
  <2>1. PICK i \in 1..(j - 1) : \/ role[i] = "separator"
                                \/ argv[i].form = "word" /\ role[i] \in {"parameter", "unread"}
    BY <1>4 DEF BehindOptions
  <2>2. i \in DOMAIN argv
    BY <1>3
  <2>3. \/ role'[i] = "separator"
        \/ argv[i].form = "word" /\ role'[i] \in {"parameter", "unread"}
    BY <1>2, <2>1, <2>2
  <2>4. QED BY <2>3 DEF BehindOptions
<1>5. ASSUME NEW j \in DOMAIN argv, role'[j] \in {"parameter", "unread"}, argv[j].form \in {"long", "short"}
      PROVE  BehindOptions(j)
  BY <1>1, <1>2, <1>5 DEF OptionsBehind
<1>6. QED BY <1>4, <1>5 DEF OptionsBehind

-----------------------------------------------------------------------------
\* The initial states satisfy the invariant.
LEMMA InvInit == Init => IInv
<1> SUFFICES ASSUME Init PROVE IInv
  OBVIOUS
<1>1. argv \in Seq(Arguments) /\ DOMAIN argv = 1..Len(argv) /\ Len(argv) \in Nat
  <2>1. PICK n \in 0..MaxArgs : argv \in [1..n -> Arguments]
    BY DEF Init
  <2>2. n \in Nat
    <3>1. MaxArgs \in Nat
      BY CommandLineAssumption, Zenon
    <3>2. QED BY <3>1
  <2>3. QED BY <2>1, <2>2
<1>2. 1 \in Levels
  <2>1. OptionsAt \in Seq(Seq(Options)) /\ OptionsAt # <<>>
    BY CommandLineAssumption, Zenon
  <2> HIDE DEF Options
  <2>2. QED BY <2>1 DEF Levels
<1>3. \A n \in Names : value[n] = Unset
  BY DEF Init
<1>4. Unset.given = FALSE
  BY DEF Unset
<1>5. TypeOK
  <2>1. m_pos \in Nat /\ m_commands \in Seq(Nat) /\ cluster \in Seq(STRING) /\ param \in Nat \ {0}
    BY DEF Init
  <2>2. DOMAIN value = Names /\ \A n \in Names : value[n].given \in BOOLEAN
    BY <1>3, <1>4 DEF Init
  <2>3. role \in [DOMAIN argv -> Roles] /\ phase \in Phases /\ level \in Levels
    BY <1>2 DEF Init, Roles, Phases
  <2>4. QED BY <1>1, <2>1, <2>2, <2>3 DEF TypeOK
<1>6. \A i \in DOMAIN argv : role[i] = "unread"
  BY DEF Init
<1>7. ReadInOrder
  BY <1>1, <1>6 DEF Init, ReadInOrder
<1>8. ParametersLast /\ SeparatorsPassed /\ ClusterMentioned /\ TargetMentioned /\ OptionsBehind
  BY <1>6 DEF Init, ParametersLast, SeparatorsPassed, ClusterMentioned, TargetMentioned, OptionsBehind, InOptions
<1>9. GivenSoFar
  <2>1. ParamsAt[level] \in Seq(Params)
    BY <1>2, CommandLineAssumption DEF Init
  <2>2. QED BY <2>1 DEF Init, GivenSoFar
<1>10. CommandsAreCommands
  BY DEF Init, CommandsAreCommands
<1>11. NothingOptionalBehindSeparator
  BY <1>6 DEF NothingOptionalBehindSeparator
<1>12. OnlyMentionedOptionsChange
  <2>1. \A o \in Opts : o.name \in Names
    BY DEF Names
  <2>2. QED BY <1>3, <1>4, <2>1 DEF OnlyMentionedOptionsChange
<1>13. QED BY <1>5, <1>7, <1>8, <1>9, <1>10, <1>11, <1>12 DEF IInv

\* The end of the options.
LEMMA EndOptionsKeeps == IInv /\ EndOptions => IInv'
<1> SUFFICES ASSUME IInv, EndOptions PROVE IInv'
  OBVIOUS
<1>1. /\ UNCHANGED <<argv, m_commands, level, cluster, target, param, value>>
      /\ phase = "options" /\ phase' = "command"
      /\ \/ AtEnd /\ UNCHANGED <<m_pos, role>>
         \/ ~ AtEnd /\ Peek.form = "word" /\ UNCHANGED <<m_pos, role>>
         \/ Reads("separator")
  BY DEF EndOptions, Reads
<1>2. TypeOK /\ ReadInOrder /\ ParametersLast
  BY DEF IInv
<1>3. DOMAIN argv = 1..Len(argv) /\ Len(argv) \in Nat /\ m_pos \in Nat
  BY <1>2 DEF TypeOK
<1>4. "separator" \in Roles /\ "separator" # "unread" /\ "separator" # "option" /\ "separator" # "parameter"
  BY DEF Roles
<1>5. /\ role' \in [DOMAIN argv -> Roles] /\ m_pos' \in Nat /\ ReadInOrder' /\ RolesStay
      /\ \A i \in DOMAIN argv : role'[i] # "parameter"
  <2>1. \A i \in DOMAIN argv : role[i] # "parameter"
    BY <1>1, <1>2 DEF ParametersLast, InOptions
  <2>2. CASE Reads("separator")
    <3>1. /\ m_pos + 1 \in DOMAIN argv /\ role[m_pos + 1] = "unread"
          /\ m_pos' \in Nat /\ role' \in [DOMAIN argv -> Roles]
          /\ role'[m_pos + 1] = "separator"
          /\ \A i \in DOMAIN argv : i # m_pos + 1 => role'[i] = role[i]
          /\ ReadInOrder'
      BY <1>1, <1>2, <1>4, <2>2, ReadsMoves
    <3>2. QED BY <1>4, <2>1, <3>1 DEF RolesStay
  <2>3. CASE UNCHANGED <<m_pos, role>>
    BY <1>1, <1>2, <2>1, <2>3 DEF TypeOK, ReadInOrder, RolesStay
  <2>4. QED BY <1>1, <2>2, <2>3
<1>6. TypeOK'
  BY <1>1, <1>2, <1>5 DEF TypeOK, Phases
<1>7. ParametersLast'
  BY <1>1, <1>2, <1>5 DEF ParametersLast, InOptions
<1>8. SeparatorsPassed' /\ ClusterMentioned' /\ TargetMentioned'
  BY <1>1 DEF SeparatorsPassed, ClusterMentioned, TargetMentioned, InOptions
<1>9. SetsNothing
  BY <1>1 DEF SetsNothing
<1>10. OnlyMentionedOptionsChange' /\ GivenSoFar'
  <2>1. \A n \in Names : value[n].given => value'[n].given
    BY <1>1
  <2>2. QED BY <1>1, <1>5, <1>9, <2>1, ValuesKept, GivenKept
<1>11. CommandsAreCommands'
  BY <1>1, <1>5, CommandsKept
<1>12. NothingOptionalBehindSeparator'
  BY <1>1, <1>4, NothingOptionalKept DEF ReadsNothing
<1>13. OptionsBehind'
  <2>1. SUFFICES ASSUME NEW j \in DOMAIN argv, role'[j] = "unread", argv[j].form \in {"long", "short"}
                 PROVE  BehindOptions(j)'
    BY <1>1, <1>5 DEF OptionsBehind
  <2>2. j > m_pos'
    BY <1>1, <1>3, <1>5, <2>1 DEF ReadInOrder
  <2>3. ~ AtEnd
    BY <1>1, <1>3, <2>2 DEF AtEnd, Reads
  <2>4. CASE Peek.form = "word" /\ UNCHANGED <<m_pos, role>>
    <3>1. m_pos + 1 \in DOMAIN argv /\ argv[m_pos + 1].form = "word" /\ role'[m_pos + 1] = "unread"
      <4>1. m_pos + 1 \in DOMAIN argv /\ ~ (m_pos + 1 <= m_pos)
        BY <1>3, <2>3 DEF AtEnd
      <4>2. QED BY <1>2, <2>4, <4>1 DEF Peek, ReadInOrder
    <3>2. j # m_pos + 1
      BY <2>1, <3>1
    <3>3. m_pos + 1 \in 1..(j - 1)
      BY <1>3, <2>2, <2>4, <3>2
    <3>4. QED BY <1>1, <3>1, <3>3 DEF BehindOptions
  <2>5. CASE Reads("separator")
    <3>1. m_pos + 1 \in DOMAIN argv /\ role'[m_pos + 1] = "separator" /\ m_pos' = m_pos + 1
      BY <1>1, <1>2, <1>4, <2>5, ReadsMoves
    <3>2. m_pos + 1 \in 1..(j - 1)
      BY <1>3, <2>2, <3>1
    <3>3. QED BY <3>1, <3>2 DEF BehindOptions
  <2>6. QED BY <1>1, <2>3, <2>4, <2>5
<1>14. QED BY <1>5, <1>6, <1>7, <1>8, <1>10, <1>11, <1>12, <1>13 DEF IInv

\* What the steps of parse_options have in common: the value, the roles and
\* the phases they go to.
LEMMA OptionKeeps ==
  ASSUME IInv, UNCHANGED <<argv, m_commands, level, param>>,
         phase \in InOptions, phase' \in InOptions \cup {"error", "undefined"},
         ReadsNothing \/ Reads("option") \/ Reads("value"),
         cluster' \in Seq(STRING), ClusterMentioned', TargetMentioned',
         \/ SetsNothing
         \/ \E o \in Opts : Sets(o.name) /\ Mentioned(o)'
  PROVE  IInv'
<1>1. TypeOK /\ ReadInOrder /\ ParametersLast /\ SeparatorsPassed
  BY DEF IInv
<1>2. /\ role' \in [DOMAIN argv -> Roles] /\ m_pos' \in Nat /\ ReadInOrder' /\ m_pos <= m_pos'
      /\ \A i \in DOMAIN argv : role'[i] # role[i] => role[i] = "unread" /\ role'[i] \in {"option", "value"}
  <2>1. CASE ReadsNothing
    BY <1>1, <2>1, ReadsNothingStays DEF TypeOK
  <2>2. ASSUME NEW r \in {"option", "value"}, Reads(r)
        PROVE  /\ role' \in [DOMAIN argv -> Roles] /\ m_pos' \in Nat /\ ReadInOrder' /\ m_pos <= m_pos'
               /\ \A i \in DOMAIN argv : role'[i] # role[i] => role[i] = "unread" /\ role'[i] \in {"option", "value"}
    <3>1. r \in Roles /\ r # "unread" /\ m_pos \in Nat
      BY <1>1 DEF Roles, TypeOK
    <3>2. /\ role[m_pos + 1] = "unread" /\ m_pos' = m_pos + 1 /\ m_pos' \in Nat
          /\ role' \in [DOMAIN argv -> Roles] /\ role'[m_pos + 1] = r
          /\ \A i \in DOMAIN argv : i # m_pos + 1 => role'[i] = role[i]
          /\ ReadInOrder'
      BY <1>1, <2>2, <3>1, ReadsMoves
    <3>3. QED BY <3>1, <3>2
  <2>3. QED BY <2>1, <2>2
<1>3. RolesStay
  BY <1>2 DEF RolesStay
<1>4. /\ DOMAIN value' = Names /\ \A n \in Names : value'[n].given \in BOOLEAN
      /\ \A n \in Names : value[n].given => value'[n].given
      /\ OnlyMentionedOptionsChange'
  BY <1>3, ValuesKept
<1>5. TypeOK'
  BY <1>1, <1>2, <1>4 DEF TypeOK, Phases, InOptions
<1>6. ParametersLast'
  <2>1. param = 1 /\ \A i \in DOMAIN argv : role[i] # "parameter"
    BY <1>1 DEF ParametersLast
  <2>2. QED BY <1>2, <2>1 DEF ParametersLast
<1>7. SeparatorsPassed'
  <2>1. ASSUME NEW i \in DOMAIN argv, role'[i] = "separator"
        PROVE  \E k \in DOMAIN m_commands : i < m_commands[k] /\ m_commands[k] <= m_pos'
    <3>1. role[i] = "separator"
      BY <1>2, <2>1
    <3>2. PICK k \in DOMAIN m_commands : i < m_commands[k] /\ m_commands[k] <= m_pos
      BY <1>1, <3>1 DEF SeparatorsPassed
    <3>3. m_commands[k] \in Nat /\ m_pos \in Nat
      BY <1>1 DEF TypeOK
    <3>4. QED BY <1>2, <3>2, <3>3
  <2>2. QED BY <2>1 DEF SeparatorsPassed
<1>8. GivenSoFar'
  BY <1>4, GivenKept DEF InOptions
<1>9. CommandsAreCommands'
  BY <1>3, CommandsKept
<1>10. NothingOptionalBehindSeparator'
  <2>1. "value" \in Roles \ {"unread", "option"}
    BY DEF Roles
  <2>2. QED BY <2>1, NothingOptionalKept
<1>11. OptionsBehind'
  BY DEF OptionsBehind, InOptions
<1>12. QED BY <1>2, <1>4, <1>5, <1>6, <1>7, <1>8, <1>9, <1>10, <1>11 DEF IInv

\* --name or --name=value: the option that gets the value is the one named.
LEMMA LongOptionKeeps == IInv /\ LongOption => IInv'
<1> SUFFICES ASSUME IInv, LongOption PROVE IInv'
  OBVIOUS
<1>1. /\ UNCHANGED <<argv, m_commands, level, cluster, target, param>>
      /\ phase = "options" /\ ~ AtEnd /\ Peek.form = "long" /\ Reads("option")
  BY DEF LongOption, Reads
<1>2. /\ phase' \in {"options", "error"}
      /\ \/ SetsNothing
         \/ \E o \in Opts : Sets(o.name) /\ o.name = Peek.name
  <2>1. CASE Long(Peek.name) = {}
    BY <2>1 DEF LongOption, SetsNothing, Fail
  <2>2. CASE Long(Peek.name) # {}
    <3> DEFINE r == First(Long(Peek.name))
    <3>1. r \in Long(Peek.name)
      BY <2>2, FirstMatches DEF IInv, TypeOK, Long
    <3>2. r.opt \in Opts /\ r.opt \in Options /\ r.opt.name = Peek.name
      <4>1. r \in Ranked /\ r.opt.name = Peek.name
        BY <3>1 DEF Long
      <4> HIDE DEF r
      <4>2. QED BY <4>1, OptionOf DEF IInv, TypeOK
    <3>3. \/ UseDefault(r.opt) /\ UNCHANGED phase
          \/ ReadLong(r.opt, Peek.value)
      BY <2>2 DEF LongOption
    <3> HIDE DEF r
    <3>4. CASE UseDefault(r.opt) /\ UNCHANGED phase
      BY <1>1, <3>2, <3>4, UseDefaultDoes
    <3>5. CASE ReadLong(r.opt, Peek.value)
      BY <3>2, <3>5, ReadLongDoes
    <3>6. QED BY <3>3, <3>4, <3>5
  <2>3. QED BY <2>1, <2>2
<1>3. \A o \in Opts : o.name = Peek.name => Mentioned(o)'
  <2>1. "option" \in Roles /\ "option" # "unread" /\ TypeOK /\ ReadInOrder
    BY DEF Roles, IInv
  <2>2. m_pos + 1 \in DOMAIN argv /\ role'[m_pos + 1] = "option"
    BY <1>1, <2>1, ReadsMoves
  <2>3. argv'[m_pos + 1].form = "long" /\ argv'[m_pos + 1].name = Peek.name
    BY <1>1 DEF Peek
  <2>4. QED BY <1>1, <2>2, <2>3 DEF Mentioned
<1>4. ClusterMentioned' /\ TargetMentioned' /\ cluster' \in Seq(STRING)
  BY <1>1, <1>2 DEF ClusterMentioned, TargetMentioned, IInv, TypeOK
<1>5. phase \in InOptions /\ phase' \in InOptions \cup {"error", "undefined"}
  BY <1>1, <1>2 DEF InOptions
<1>6. \/ SetsNothing
      \/ \E o \in Opts : Sets(o.name) /\ Mentioned(o)'
  BY <1>2, <1>3
<1>7. QED BY <1>1, <1>4, <1>5, <1>6, OptionKeeps

\* -xyz: the names that are left are those of this argument.
LEMMA ShortOptionsKeeps == IInv /\ ShortOptions => IInv'
<1> SUFFICES ASSUME IInv, ShortOptions PROVE IInv'
  OBVIOUS
<1>1. /\ UNCHANGED <<argv, m_commands, level, target, param, value>>
      /\ phase = "options" /\ ~ AtEnd /\ Peek.form = "short" /\ Reads("option")
      /\ cluster' = Peek.names
      /\ phase' \in {"cluster", "error", "undefined"}
      /\ phase' = "cluster" => Peek.names # <<>>
  BY DEF ShortOptions, Reads
<1>2. TypeOK /\ ReadInOrder /\ "option" \in Roles /\ "option" # "unread"
  BY DEF IInv, Roles
<1>3. m_pos + 1 \in DOMAIN argv /\ role'[m_pos + 1] = "option" /\ argv[m_pos + 1] = Peek
  BY <1>1, <1>2, ReadsMoves DEF Peek
<1>4. cluster' \in Seq(STRING)
  <2>1. Peek \in Arguments
    BY <1>2, <1>3 DEF TypeOK
  <2>2. QED BY <1>1, <2>1, CommandLineAssumption
<1>5. ClusterMentioned'
  BY <1>1, <1>3 DEF ClusterMentioned
<1>6. TargetMentioned'
  BY <1>1 DEF TargetMentioned
<1>7. phase \in InOptions /\ phase' \in InOptions \cup {"error", "undefined"} /\ SetsNothing
  BY <1>1 DEF InOptions, SetsNothing
<1>8. QED BY <1>1, <1>4, <1>5, <1>6, <1>7, OptionKeeps

\* One of the short names: the argument it stands in mentions the option.
LEMMA ShortOptionKeeps == IInv /\ ShortOption => IInv'
<1> SUFFICES ASSUME IInv, ShortOption PROVE IInv'
  OBVIOUS
<1>1. UNCHANGED <<argv, m_commands, level, param>> /\ phase = "cluster"
  BY DEF ShortOption
<1>2. TypeOK /\ ReadInOrder /\ ClusterMentioned /\ cluster \in Seq(STRING) /\ cluster # <<>>
  BY <1>1 DEF IInv, TypeOK, ClusterMentioned
<1>3. PICK i \in DOMAIN argv :
        /\ role[i] = "option" /\ argv[i].form = "short"
        /\ \A k \in DOMAIN cluster : \E n \in DOMAIN argv[i].names : argv[i].names[n] = cluster[k]
  BY <1>1, <1>2 DEF ClusterMentioned
<1>4. Head(cluster) = cluster[1] /\ 1 \in DOMAIN cluster
  BY <1>2
<1>5. CASE Short(Head(cluster)) = {}
  <2>1. phase' = "error" /\ UNCHANGED <<m_pos, role, cluster, target, value>>
    BY <1>5 DEF ShortOption, Fail
  <2>2. ClusterMentioned' /\ TargetMentioned' /\ cluster' \in Seq(STRING)
    BY <1>2, <2>1 DEF ClusterMentioned, TargetMentioned
  <2>3. phase \in InOptions /\ phase' \in InOptions \cup {"error", "undefined"} /\ SetsNothing /\ ReadsNothing
    BY <1>1, <2>1 DEF InOptions, SetsNothing, ReadsNothing
  <2>4. QED BY <1>1, <2>2, <2>3, OptionKeeps
<1>6. CASE Short(Head(cluster)) # {}
  <2>1. PICK o \in Opts : /\ o \in Options /\ o.short = Head(cluster)
                          /\ IF Len(cluster) = 1 THEN ReadShort(o)
                             ELSE /\ UseDefault(o)
                                  /\ cluster' = Tail(cluster)
                                  /\ UNCHANGED <<m_pos, role, phase, target>>
    <3> DEFINE r == First(Short(Head(cluster)))
    <3>1. r \in Short(Head(cluster))
      BY <1>2, <1>6, FirstMatches DEF TypeOK, Short
    <3>2. r.opt \in Opts /\ r.opt \in Options /\ r.opt.short = Head(cluster)
      <4>1. r \in Ranked /\ r.opt.short = Head(cluster)
        BY <3>1 DEF Short
      <4> HIDE DEF r
      <4>2. QED BY <1>2, <4>1, OptionOf DEF TypeOK
    <3>3. QED BY <1>6, <3>2 DEF ShortOption
  <2>2. Mentioned(o)
    BY <1>3, <1>4, <2>1 DEF Mentioned
  <2>3. CASE Len(cluster) = 1
    <3>1. /\ cluster' = <<>>
          /\ phase' \in {"options", "error", "undefined", "elements"}
          /\ ReadsNothing \/ Reads("value")
          /\ SetsNothing \/ Sets(o.name)
          /\ phase' = "elements" => target' = o.name
      BY <2>1, <2>3, ReadShortDoes
    <3>2. Mentioned(o)'
      <4>1. role'[i] = "option"
        <5>1. "value" \in Roles /\ "value" # "unread"
          BY DEF Roles
        <5>2. role[i] = "option" /\ i \in DOMAIN argv
          BY <1>3
        <5>3. QED BY <1>1, <1>2, <3>1, <5>1, <5>2, ReadsMoves, ReadsNothingStays
      <4>2. \E k \in DOMAIN argv[i].names : argv[i].names[k] = o.short
        BY <1>3, <1>4, <2>1
      <4>3. QED BY <1>1, <1>3, <4>1, <4>2 DEF Mentioned
    <3>3. ClusterMentioned' /\ TargetMentioned' /\ cluster' \in Seq(STRING)
      BY <3>1, <3>2 DEF ClusterMentioned, TargetMentioned
    <3>4. phase \in InOptions /\ phase' \in InOptions \cup {"error", "undefined"}
      BY <1>1, <3>1 DEF InOptions
    <3>5. QED BY <1>1, <3>1, <3>2, <3>3, <3>4, OptionKeeps
  <2>4. CASE Len(cluster) # 1
    <3>1. /\ UNCHANGED <<m_pos, role, phase, target>> /\ cluster' = Tail(cluster)
          /\ SetsNothing \/ Sets(o.name)
      BY <2>1, <2>4, UseDefaultDoes
    <3>2. Mentioned(o)'
      BY <1>1, <2>2, <3>1 DEF Mentioned
    <3>3. /\ cluster' \in Seq(STRING) /\ cluster' # <<>>
          /\ \A k \in DOMAIN cluster' : k + 1 \in DOMAIN cluster /\ cluster'[k] = cluster[k + 1]
      <4>1. Len(cluster) \in Nat /\ Len(cluster) > 1
        <5>1. Len(cluster) \in Nat /\ Len(cluster) # 0
          BY <1>2
        <5>2. \A n \in Nat : n # 0 /\ n # 1 => n > 1
          OBVIOUS
        <5>3. QED BY <2>4, <5>1, <5>2, Zenon
      <4>2. Tail(cluster) \in Seq(STRING) /\ Len(Tail(cluster)) = Len(cluster) - 1
        BY <1>2
      <4>3. ASSUME NEW k \in DOMAIN Tail(cluster)
            PROVE  k + 1 \in DOMAIN cluster /\ Tail(cluster)[k] = cluster[k + 1]
        BY <1>2, <4>1
      <4>4. Tail(cluster) # <<>>
        <5>1. Len(Tail(cluster)) # 0 /\ Len(<<>>) = 0
          BY <4>1, <4>2
        <5>2. QED BY <5>1, Zenon
      <4>5. QED BY <3>1, <4>2, <4>3, <4>4
    <3>4. ClusterMentioned'
      BY <1>1, <1>3, <3>1, <3>3 DEF ClusterMentioned
    <3>5. TargetMentioned'
      BY <1>1, <3>1 DEF TargetMentioned
    <3>6. phase \in InOptions /\ phase' \in InOptions \cup {"error", "undefined"} /\ ReadsNothing
      BY <1>1, <3>1 DEF InOptions, ReadsNothing
    <3>7. QED BY <1>1, <3>1, <3>2, <3>3, <3>4, <3>5, <3>6, OptionKeeps
  <2>5. QED BY <2>3, <2>4
<1>7. QED BY <1>5, <1>6

\* What the steps behind the options have in common.
LEMMA ParameterSideKeeps ==
  ASSUME IInv, UNCHANGED <<argv, m_commands, level, cluster>>, param' \in Nat \ {0},
         phase \in {"command", "parameters", "param_elements"},
         phase' \in {"parameters", "param_elements", "done", "error"},
         ReadsNothing \/ Reads("parameter"),
         SetsNothing \/ \E q \in Parms : Sets(q.name),
         TargetMentioned',
         (\A n \in Names : value[n].given => value'[n].given) => GivenSoFar'
  PROVE  IInv'
<1>1. TypeOK /\ ReadInOrder
  BY DEF IInv
<1>2. "parameter" \in Roles /\ "parameter" # "unread" /\ "parameter" # "option"
  BY DEF Roles
<1>3. role' \in [DOMAIN argv -> Roles] /\ m_pos' \in Nat /\ ReadInOrder' /\ RolesStay
  <2>1. CASE ReadsNothing
    BY <1>1, <2>1, ReadsNothingStays DEF TypeOK, RolesStay
  <2>2. CASE Reads("parameter")
    BY <1>1, <1>2, <2>2, ReadsMoves DEF RolesStay
  <2>3. QED BY <2>1, <2>2
<1>4. /\ DOMAIN value' = Names /\ \A n \in Names : value'[n].given \in BOOLEAN
      /\ \A n \in Names : value[n].given => value'[n].given
      /\ OnlyMentionedOptionsChange'
  BY <1>3, ValuesKept
<1>5. TypeOK'
  BY <1>1, <1>3, <1>4 DEF TypeOK, Phases
<1>6. ParametersLast' /\ SeparatorsPassed' /\ ClusterMentioned'
  BY DEF ParametersLast, SeparatorsPassed, ClusterMentioned, InOptions
<1>7. CommandsAreCommands'
  BY <1>3, CommandsKept
<1>8. NothingOptionalBehindSeparator'
  BY <1>2, NothingOptionalKept
<1>9. OptionsBehind'
  BY BehindKept
<1>10. QED BY <1>3, <1>4, <1>5, <1>6, <1>7, <1>8, <1>9 DEF IInv

\* read_array, for an option and for a parameter.
LEMMA ElementKeeps == IInv /\ Element => IInv'
<1> SUFFICES ASSUME IInv, Element PROVE IInv'
  OBVIOUS
<1>1. UNCHANGED <<argv, m_commands, level, cluster, target, param>> /\ TypeOK /\ ReadInOrder /\ TargetMentioned
  BY DEF Element, IInv
<1>2. SetsNothing \/ Sets(target)
  BY ExtendSets DEF Element, SetsNothing
<1>3. CASE phase = "elements"
  <2>1. phase' \in {"options", "elements", "error"} /\ (ReadsNothing \/ Reads("value"))
    BY <1>3 DEF Element, ReadsNothing, Reads
  <2>2. PICK o \in Opts : o.name = target /\ Mentioned(o)
    BY <1>1, <1>3 DEF TargetMentioned
  <2>3. RolesStay
    <3>1. "value" \in Roles /\ "value" # "unread"
      BY DEF Roles
    <3>2. CASE ReadsNothing
      BY <1>1, <3>2, ReadsNothingStays DEF RolesStay
    <3>3. CASE Reads("value")
      BY <1>1, <3>1, <3>3, ReadsMoves DEF RolesStay
    <3>4. QED BY <2>1, <3>2, <3>3
  <2>4. Mentioned(o)'
    BY <1>1, <2>2, <2>3 DEF Mentioned, RolesStay
  <2>5. ClusterMentioned' /\ TargetMentioned' /\ cluster' \in Seq(STRING)
    BY <1>1, <2>1, <2>2, <2>4 DEF ClusterMentioned, TargetMentioned, TypeOK
  <2>6. phase \in InOptions /\ phase' \in InOptions \cup {"error", "undefined"}
    BY <1>3, <2>1 DEF InOptions
  <2>7. QED BY <1>1, <1>2, <2>1, <2>2, <2>4, <2>5, <2>6, OptionKeeps
<1>4. CASE phase = "param_elements"
  <2>1. phase' \in {"parameters", "param_elements"} /\ (ReadsNothing \/ Reads("parameter"))
    BY <1>4 DEF Element, ReadsNothing, Reads
  <2>2. PICK q \in Parms : q.name = target
    BY <1>1, <1>4 DEF TargetMentioned
  <2>3. TargetMentioned'
    BY <1>1, <2>1, <2>2 DEF TargetMentioned
  <2>4. (\A n \in Names : value[n].given => value'[n].given) => GivenSoFar'
    BY <1>1, <1>4, <2>1, GivenKept
  <2>5. param' \in Nat \ {0}
    BY <1>1 DEF TypeOK
  <2>6. QED BY <1>1, <1>2, <1>4, <2>1, <2>2, <2>3, <2>4, <2>5, ParameterSideKeeps
<1>5. QED BY <1>3, <1>4 DEF Element

\* parse_command, which has found none.
LEMMA NoCommandKeeps == IInv /\ NoCommand => IInv'
<1> SUFFICES ASSUME IInv, NoCommand PROVE IInv'
  OBVIOUS
<1>1. /\ UNCHANGED <<argv, m_pos, m_commands, level, cluster, target, param, value, role>>
      /\ phase = "command" /\ phase' = "parameters"
  BY DEF NoCommand
<1>2. ReadsNothing /\ SetsNothing /\ TargetMentioned' /\ param' \in Nat \ {0}
  BY <1>1 DEF ReadsNothing, SetsNothing, TargetMentioned, IInv, TypeOK
<1>3. (\A n \in Names : value[n].given => value'[n].given) => GivenSoFar'
  BY <1>1, GivenKept
<1>4. QED BY <1>1, <1>2, <1>3, ParameterSideKeeps

\* parse_parameters, with a parameter left: its own value is there then, if it
\* is required and takes one.
LEMMA ParameterKeeps == IInv /\ Parameter => IInv'
<1> SUFFICES ASSUME IInv, Parameter PROVE IInv'
  OBVIOUS
<1> DEFINE q == ParamsAt[level][param]
<1>1. /\ UNCHANGED <<argv, m_commands, level, cluster>> /\ param' = param + 1
      /\ phase = "parameters" /\ param <= Len(ParamsAt[level])
      /\ \/ ~ AtEnd /\ ReadArgument(q)
         \/ /\ phase' = IF q.optional THEN phase ELSE "error"
            /\ UNCHANGED <<m_pos, role, value, target>>
  BY DEF Parameter
<1>2. level \in Levels /\ param \in Nat \ {0} /\ GivenSoFar
  BY DEF IInv, TypeOK
<1>3. param \in DOMAIN ParamsAt[level]
  <2>1. ParamsAt[level] \in Seq(Params)
    BY <1>2, CommandLineAssumption
  <2> HIDE DEF Params
  <2>2. QED BY <1>1, <1>2, <2>1
<1>4. q \in Parms /\ q \in Params
  BY <1>2, <1>3, ParamOf
<1> HIDE DEF q
<1>5. /\ phase' \in {"parameters", "param_elements", "error"}
      /\ ReadsNothing \/ Reads("parameter")
      /\ SetsNothing \/ Sets(q.name)
      /\ phase' = "error" \/ q.optional \/ q.type = "ints" \/ Sets(q.name)
      /\ phase' = "param_elements" => target' = q.name
  <2>1. CASE ~ AtEnd /\ ReadArgument(q)
    BY <1>1, <1>4, <2>1, ReadArgumentDoes
  <2>2. CASE /\ phase' = IF q.optional THEN phase ELSE "error"
             /\ UNCHANGED <<m_pos, role, value, target>>
    BY <1>1, <2>2 DEF ReadsNothing, SetsNothing
  <2>3. QED BY <1>1, <2>1, <2>2
<1>6. TargetMentioned'
  BY <1>4, <1>5 DEF TargetMentioned
<1>7. (\A n \in Names : value[n].given => value'[n].given) => GivenSoFar'
  <2>1. SUFFICES ASSUME \A n \in Names : value[n].given => value'[n].given,
                        phase' # "error",
                        NEW i \in DOMAIN ParamsAt[level], i < param + 1,
                        ~ ParamsAt[level][i].optional, ParamsAt[level][i].type # "ints"
                 PROVE  value'[ParamsAt[level][i].name].given
    BY <1>1, <1>5 DEF GivenSoFar
  <2>2. ParamsAt[level][i].name \in Names /\ i \in Nat
    <3>1. ParamsAt[level][i] \in Parms
      BY <1>2, ParamOf
    <3>2. ParamsAt[level] \in Seq(Params)
      BY <1>2, CommandLineAssumption
    <3> HIDE DEF Params
    <3>3. QED BY <3>1, <3>2 DEF Names
  <2>3. CASE i < param
    BY <1>1, <1>2, <2>1, <2>2, <2>3 DEF GivenSoFar
  <2>4. CASE i = param
    <3>1. Sets(q.name) /\ q.name \in Names /\ q = ParamsAt[level][i]
      BY <1>5, <2>1, <2>2, <2>4 DEF q
    <3>2. value'[q.name].given = TRUE
      BY <3>1, SetsGives DEF IInv
    <3>3. QED BY <3>1, <3>2
  <2>5. QED BY <1>2, <2>1, <2>2, <2>3, <2>4
<1>8. param' \in Nat \ {0}
  BY <1>1, <1>2
<1>9. QED BY <1>1, <1>4, <1>5, <1>6, <1>7, <1>8, ParameterSideKeeps

\* parse_parameters, with none left.
LEMMA EndParametersKeeps == IInv /\ EndParameters => IInv'
<1> SUFFICES ASSUME IInv, EndParameters PROVE IInv'
  OBVIOUS
<1>1. /\ UNCHANGED <<argv, m_pos, m_commands, level, cluster, target, param, value, role>>
      /\ phase = "parameters" /\ phase' = "done" /\ param > Len(ParamsAt[level])
  BY DEF EndParameters
<1>2. ReadsNothing /\ SetsNothing /\ TargetMentioned' /\ GivenSoFar' /\ param' \in Nat \ {0}
  BY <1>1 DEF ReadsNothing, SetsNothing, TargetMentioned, GivenSoFar, IInv, TypeOK
<1>3. QED BY <1>1, <1>2, ParameterSideKeeps

\* parse_command, which has found one: the command is behind all separators
\* and begins its own options and parameters.
LEMMA RunCommandKeeps == IInv /\ RunCommand => IInv'
<1> SUFFICES ASSUME IInv, RunCommand PROVE IInv'
  OBVIOUS
<1>1. /\ UNCHANGED <<argv, cluster, target, param, value>>
      /\ phase = "command" /\ phase' = "options" /\ Reads("command")
      /\ Peek.text \in CommandsAt[level]
      /\ m_commands' = Append(m_commands, m_pos + 1) /\ level' = level + 1
  BY DEF RunCommand, Reads
<1>2. TypeOK /\ ReadInOrder /\ ParametersLast /\ CommandsAreCommands
  BY DEF IInv
<1>3. m_pos \in Nat /\ level \in Levels /\ m_commands \in Seq(Nat) /\ Len(m_commands) = level - 1
  BY <1>2 DEF TypeOK, CommandsAreCommands
<1>4. "command" \in Roles /\ "command" # "unread" /\ "command" # "parameter"
      /\ "command" # "separator" /\ "command" # "option"
  BY DEF Roles
<1>5. /\ m_pos + 1 \in DOMAIN argv /\ role[m_pos + 1] = "unread"
      /\ m_pos' = m_pos + 1 /\ m_pos' \in Nat /\ role' \in [DOMAIN argv -> Roles]
      /\ role'[m_pos + 1] = "command"
      /\ \A i \in DOMAIN argv : i # m_pos + 1 => role'[i] = role[i]
      /\ ReadInOrder'
  BY <1>1, <1>2, <1>4, ReadsMoves
<1>6. level' \in Levels /\ level \in Nat /\ level # 0
  <2>1. Len(OptionsAt) \in Nat
    <3>1. OptionsAt \in Seq(Seq(Options))
      BY CommandLineAssumption, Zenon
    <3> HIDE DEF Options
    <3>2. QED BY <3>1
  <2>2. CommandsAt[Len(OptionsAt)] = {}
    BY CommandLineAssumption, Zenon
  <2>3. level # Len(OptionsAt)
    BY <1>1, <2>2
  <2>4. QED BY <1>1, <1>3, <2>1, <2>3 DEF Levels
<1>7. /\ m_commands' \in Seq(Nat) /\ DOMAIN m_commands' = 1..level /\ Len(m_commands') = level
      /\ DOMAIN m_commands = 1..(level - 1)
      /\ \A k \in 1..(level - 1) : m_commands'[k] = m_commands[k]
      /\ m_commands'[level] = m_pos + 1
  <2>1. m_pos + 1 \in Nat /\ Len(m_commands) + 1 = level
    BY <1>3, <1>6
  <2>2. QED BY <1>1, <1>3, <1>6, <2>1
<1>8. TypeOK'
  BY <1>1, <1>2, <1>5, <1>6, <1>7 DEF TypeOK, Phases
<1>9. ParametersLast'
  <2>1. param = 1 /\ \A i \in DOMAIN argv : role[i] # "parameter"
    BY <1>1, <1>2 DEF ParametersLast
  <2>2. QED BY <1>1, <1>4, <1>5, <2>1 DEF ParametersLast
<1>10. SeparatorsPassed'
  <2>1. ASSUME NEW i \in DOMAIN argv, role'[i] = "separator"
        PROVE  i < m_commands'[level] /\ m_commands'[level] <= m_pos' /\ level \in DOMAIN m_commands'
    <3>1. i # m_pos + 1 /\ role[i] = "separator" /\ i \in Nat
      BY <1>2, <1>4, <1>5, <2>1 DEF TypeOK
    <3>2. i <= m_pos
      BY <1>2, <3>1 DEF ReadInOrder
    <3>3. QED BY <1>3, <1>5, <1>6, <1>7, <3>1, <3>2
  <2>2. QED BY <1>1, <2>1 DEF SeparatorsPassed
<1>11. ClusterMentioned' /\ TargetMentioned' /\ OptionsBehind'
  BY <1>1 DEF ClusterMentioned, TargetMentioned, OptionsBehind
<1>12. GivenSoFar'
  <2>1. param = 1
    BY <1>1, <1>2 DEF ParametersLast
  <2>2. \A i \in DOMAIN ParamsAt[level'] : ~ (i < 1)
    <3>1. ParamsAt[level'] \in Seq(Params)
      BY <1>6, CommandLineAssumption
    <3> HIDE DEF Params
    <3>2. QED BY <3>1
  <2>3. QED BY <1>1, <2>1, <2>2 DEF GivenSoFar
<1>13. CommandsAreCommands'
  <2>1. ASSUME NEW k \in DOMAIN m_commands'
        PROVE  /\ m_commands'[k] \in DOMAIN argv /\ role'[m_commands'[k]] = "command"
               /\ argv[m_commands'[k]].text \in CommandsAt[k]
    <3>1. CASE k = level
      BY <1>1, <1>5, <1>7, <3>1 DEF Peek
    <3>2. CASE k # level
      <4>1. k \in DOMAIN m_commands /\ m_commands'[k] = m_commands[k]
        BY <1>6, <1>7, <3>2
      <4>2. m_commands[k] \in DOMAIN argv /\ role[m_commands[k]] = "command"
            /\ argv[m_commands[k]].text \in CommandsAt[k]
        BY <1>2, <4>1 DEF CommandsAreCommands
      <4>3. m_commands[k] # m_pos + 1
        BY <1>4, <1>5, <4>2
      <4>4. QED BY <1>5, <4>1, <4>2, <4>3
    <3>3. QED BY <3>1, <3>2
  <2>2. Len(m_commands') = level' - 1
    BY <1>1, <1>6, <1>7
  <2>3. QED BY <1>1, <2>1, <2>2 DEF CommandsAreCommands
<1>14. NothingOptionalBehindSeparator'
  <2>1. ASSUME NEW i \in DOMAIN argv, NEW j \in DOMAIN argv, i < j,
               role'[i] = "separator", role'[j] = "option"
        PROVE  \E k \in DOMAIN m_commands' : i < m_commands'[k] /\ m_commands'[k] < j
    <3>1. role[i] = "separator" /\ role[j] = "option"
      BY <1>4, <1>5, <2>1
    <3>2. PICK k \in DOMAIN m_commands : i < m_commands[k] /\ m_commands[k] < j
      BY <2>1, <3>1 DEF IInv, NothingOptionalBehindSeparator
    <3>3. k \in DOMAIN m_commands' /\ m_commands'[k] = m_commands[k]
      BY <1>6, <1>7
    <3>4. QED BY <3>2, <3>3
  <2>2. QED BY <1>1, <2>1 DEF NothingOptionalBehindSeparator
<1>15. OnlyMentionedOptionsChange'
  <2>1. RolesStay /\ SetsNothing
    BY <1>1, <1>5 DEF RolesStay, SetsNothing
  <2>2. QED BY <1>1, <2>1, ValuesKept
<1>16. QED BY <1>5, <1>8, <1>9, <1>10, <1>11, <1>12, <1>13, <1>14, <1>15 DEF IInv

-----------------------------------------------------------------------------
\* Nothing happens in a stuttering step.
LEMMA StutterKeeps == IInv /\ UNCHANGED vars => IInv'
<1> SUFFICES ASSUME IInv, UNCHANGED vars PROVE IInv'
  OBVIOUS
<1>1. UNCHANGED <<argv, m_pos, m_commands, level, phase, cluster, target, param, value, role>>
  BY DEF vars
<1>2. TypeOK'
  BY <1>1 DEF IInv, TypeOK
<1>3. ReadInOrder' /\ ParametersLast' /\ SeparatorsPassed' /\ ClusterMentioned'
  BY <1>1 DEF IInv, ReadInOrder, ParametersLast, SeparatorsPassed, ClusterMentioned
<1>4. \A o : Mentioned(o) => Mentioned(o)'
  BY <1>1 DEF Mentioned
<1>5. TargetMentioned' /\ OnlyMentionedOptionsChange'
  BY <1>1, <1>4 DEF IInv, TargetMentioned, OnlyMentionedOptionsChange
<1>6. GivenSoFar'
  BY <1>1 DEF IInv, GivenSoFar
<1>7. \A j : BehindOptions(j) => BehindOptions(j)'
  BY <1>1 DEF BehindOptions
<1>8. OptionsBehind'
  BY <1>1, <1>7 DEF IInv, OptionsBehind
<1>9. CommandsAreCommands' /\ NothingOptionalBehindSeparator'
  BY <1>1 DEF IInv, CommandsAreCommands, NothingOptionalBehindSeparator
<1>10. QED BY <1>2, <1>3, <1>5, <1>6, <1>8, <1>9 DEF IInv

\* The invariant is inductive.
LEMMA InvNext == IInv /\ [Next]_vars => IInv'
BY EndOptionsKeeps, LongOptionKeeps, ShortOptionsKeeps, ShortOptionKeeps, ElementKeeps,
   RunCommandKeeps, NoCommandKeeps, ParameterKeeps, EndParametersKeeps, StutterKeeps DEF Next

\* The invariant holds in every reachable state.
LEMMA Invariance == Spec => []IInv
BY InvInit, InvNext, PTL DEF Spec

\* Every variable keeps its type: among others the parser at work is one that
\* exists, although a command is looked for at every level.
THEOREM TypeCorrect == Spec => []TypeOK
<1>1. IInv => TypeOK
  BY DEF IInv
<1>2. QED BY <1>1, Invariance, PTL

\* Every argument is read once and from the left, whichever of the parsers,
\* options and sequences reads it, and read() passes the end by one at most.
THEOREM OnceFromTheLeft == Spec => []ReadInOrder
<1>1. IInv => ReadInOrder
  BY DEF IInv
<1>2. QED BY <1>1, Invariance, PTL

\* No argument behind two dashes that end the options is read as an option,
\* unless a command in between begins a list of options of its own.
THEOREM DashesEndOptions == Spec => []NothingOptionalBehindSeparator
<1>1. IInv => NothingOptionalBehindSeparator
  BY DEF IInv
<1>2. QED BY <1>1, Invariance, PTL

\* Only an option that an argument read as an option mentions gets a value,
\* whatever the values that were read look like.
THEOREM OnlyMentionedChange == Spec => []OnlyMentionedOptionsChange
<1>1. IInv => OnlyMentionedOptionsChange
  BY DEF IInv
<1>2. QED BY <1>1, Invariance, PTL

\* After a parse that ends well the commands are the ones given, every
\* required parameter that takes one value has it, and what looks like an
\* option and was read as none comes behind the end of the options.
THEOREM SuccessIsComplete == Spec => []WellParsed
<1>1. IInv => WellParsed
  <2>1. SUFFICES ASSUME IInv, phase = "done"
                 PROVE  /\ CommandsAreCommands
                        /\ \A i \in DOMAIN ParamsAt[level] :
                             LET q == ParamsAt[level][i] IN
                             ~ q.optional /\ q.type # "ints" => value[q.name].given
                        /\ \A j \in DOMAIN argv :
                             role[j] \in {"parameter", "unread"} /\ argv[j].form \in {"long", "short"} =>
                               BehindOptions(j)
    BY DEF WellParsed
  <2>2. CommandsAreCommands /\ OptionsBehind /\ GivenSoFar /\ TypeOK
    BY <2>1 DEF IInv
  <2>3. \A i \in DOMAIN ParamsAt[level] : i < param
    <3>1. ParamsAt[level] \in Seq(Params)
      BY <2>2, CommandLineAssumption DEF TypeOK
    <3>2. param > Len(ParamsAt[level])
      BY <2>1, <2>2 DEF GivenSoFar
    <3>3. param \in Nat
      BY <2>2 DEF TypeOK
    <3> HIDE DEF Params
    <3>4. QED BY <3>1, <3>2, <3>3
  <2>4. QED BY <2>1, <2>2, <2>3 DEF GivenSoFar, OptionsBehind
<1>2. QED BY <1>1, Invariance, PTL

-----------------------------------------------------------------------------
(***************************************************************************)
(* What is left before a step and after it.                                *)
(***************************************************************************)
\* How much of the line is left, the end of it being read too.
LeftToRead == Len(argv) + 1 - m_pos

\* How many parameters are left to be read.
ParamsLeft == IF param > Len(ParamsAt[level]) THEN 0 ELSE Len(ParamsAt[level]) + 1 - param

Stage == [parameters |-> 1, param_elements |-> 2, command |-> 3, options |-> 4,
          elements |-> 5, cluster |-> 5]

\* How much there is to do before the next argument is read.
LeftToDo == IF phase \in Final THEN 0 ELSE Len(cluster) + 2 * ParamsLeft + Stage[phase]

\* The order in which there is less and less left.
Fewer == LexPairOrdering(Less, Less, Nat, Nat)
Left == <<LeftToRead, LeftToDo>>
Descends == <<Left', Left>> \in Fewer

\* What is left are numbers.
LEMMA LeftType ==
  ASSUME TypeOK, ReadInOrder
  PROVE  /\ Left \in Nat \X Nat /\ LeftToRead \in Nat /\ LeftToDo \in Nat
         /\ ParamsLeft \in Nat /\ Len(cluster) \in Nat /\ Len(ParamsAt[level]) \in Nat
         /\ phase \in Final <=> LeftToDo = 0
<1>1. Len(argv) \in Nat /\ m_pos \in Nat /\ Len(cluster) \in Nat /\ param \in Nat
  BY DEF TypeOK
<1>2. Len(ParamsAt[level]) \in Nat
  <2>1. ParamsAt[level] \in Seq(Params)
    BY CommandLineAssumption, Zenon DEF TypeOK
  <2> HIDE DEF Params
  <2>2. QED BY <2>1
<1>3. LeftToRead \in Nat
  BY <1>1 DEF LeftToRead, ReadInOrder
<1>4. ParamsLeft \in Nat
  BY <1>1, <1>2 DEF ParamsLeft
<1>5. phase \notin Final => Stage[phase] \in Nat \ {0}
  BY DEF TypeOK, Phases, Final, Stage
<1>6. LeftToDo \in Nat /\ (phase \in Final <=> LeftToDo = 0)
  BY <1>1, <1>4, <1>5 DEF LeftToDo
<1>7. QED BY <1>1, <1>2, <1>3, <1>4, <1>6 DEF Left

\* A step descends if it reads, or if it has less to do before it reads.
LEMMA DescendsIf ==
  ASSUME IInv, IInv', LeftToRead' <= LeftToRead,
         LeftToRead' < LeftToRead \/ LeftToDo' < LeftToDo
  PROVE  Descends
<1>1. TypeOK /\ ReadInOrder /\ TypeOK' /\ ReadInOrder'
  BY DEF IInv
<1>2. LeftToRead \in Nat /\ LeftToDo \in Nat /\ LeftToRead' \in Nat /\ LeftToDo' \in Nat
  <2>1. LeftToRead \in Nat /\ LeftToDo \in Nat
    BY <1>1, LeftType
  <2>2. LeftToRead' \in Nat /\ LeftToDo' \in Nat
    <3>1. (TypeOK /\ ReadInOrder => LeftToRead \in Nat /\ LeftToDo \in Nat)'
      BY LeftType, PTL
    <3>2. QED BY <1>1, <3>1
  <2>3. QED BY <2>1, <2>2
<1> DEFINE a == LeftToRead'  b == LeftToDo'  c == LeftToRead  d == LeftToDo
<1>3. <<a, c>> \in Less \/ (a = c /\ <<b, d>> \in Less)
  <2>1. {a, b, c, d} \subseteq Nat /\ (a < c \/ (a = c /\ b < d))
    BY <1>2
  <2> HIDE DEF a, b, c, d
  <2>2. QED BY <2>1 DEF Less
<1>4. QED BY <1>2, <1>3 DEF Descends, Left, Fewer, LexPairOrdering

\* Reading an argument.
LEMMA ReadsDescends ==
  ASSUME IInv, IInv', NEW r \in Roles, Reads(r), argv' = argv PROVE Descends
<1>1. m_pos \in Nat /\ Len(argv) \in Nat /\ m_pos' = m_pos + 1
  BY DEF IInv, TypeOK, Reads, Consume
<1>2. LeftToRead' < LeftToRead
  BY <1>1 DEF LeftToRead
<1>3. LeftToRead' <= LeftToRead
  BY <1>1 DEF LeftToRead
<1>4. QED BY <1>2, <1>3, DescendsIf

\* A step that reads nothing, for which less is left to do.
LEMMA StaysAndDescends ==
  ASSUME IInv, IInv', ReadsNothing, argv' = argv, LeftToDo' < LeftToDo PROVE Descends
<1>1. m_pos \in Nat /\ Len(argv) \in Nat /\ (m_pos' = m_pos \/ m_pos' = m_pos + 1)
  BY DEF IInv, TypeOK, ReadsNothing, ReadPastEnd
<1>2. LeftToRead' <= LeftToRead
  BY <1>1 DEF LeftToRead
<1>3. QED BY <1>2, DescendsIf

\* The end of the parsing is less than anything in front of it.
LEMMA EndsDescends ==
  ASSUME IInv, phase \notin Final, phase' \in Final PROVE LeftToDo' < LeftToDo
<1>1. LeftToDo \in Nat /\ LeftToDo # 0
  BY LeftType DEF IInv
<1>2. LeftToDo' = 0
  BY DEF LeftToDo
<1>3. QED BY <1>1, <1>2

\* A later stage, with no more parameters and short names left than before.
LEMMA StageDescends ==
  ASSUME IInv, phase \notin Final, phase' \in DOMAIN Stage,
         NEW n \in Nat, NEW k \in Nat, Len(cluster') = n, ParamsLeft' = k,
         n + 2 * k + Stage[phase'] < Len(cluster) + 2 * ParamsLeft + Stage[phase]
  PROVE  LeftToDo' < LeftToDo
<1>1. phase' \notin Final
  BY DEF Stage, Final
<1>2. LeftToDo' = n + 2 * k + Stage[phase']
  BY <1>1 DEF LeftToDo
<1>3. LeftToDo = Len(cluster) + 2 * ParamsLeft + Stage[phase]
  BY DEF LeftToDo
<1>4. QED BY <1>2, <1>3

\* One of the short names is dealt with.
LEMMA ShortOptionDescends == IInv /\ ShortOption => LeftToDo' < LeftToDo
<1> SUFFICES ASSUME IInv, ShortOption PROVE LeftToDo' < LeftToDo
  OBVIOUS
<1>1. /\ phase = "cluster" /\ UNCHANGED <<argv, level, param>> /\ ParamsLeft' = ParamsLeft
      /\ cluster \in Seq(STRING) /\ cluster # <<>> /\ phase \notin Final
  BY DEF ShortOption, ParamsLeft, IInv, TypeOK, ClusterMentioned, Final
<1>2. /\ ParamsLeft \in Nat /\ Len(cluster) \in Nat /\ Len(cluster) > 0
      /\ Stage["cluster"] = 5 /\ Stage["elements"] = 5 /\ Stage["options"] = 4
  <2>1. Len(cluster) # 0
    BY <1>1
  <2>2. ParamsLeft \in Nat /\ Len(cluster) \in Nat
    BY LeftType DEF IInv
  <2>3. QED BY <2>1, <2>2 DEF Stage
<1>3. \/ phase' = "error"
      \/ cluster' = <<>> /\ phase' \in {"options", "error", "undefined", "elements"}
      \/ cluster' = Tail(cluster) /\ phase' = "cluster"
  <2>1. CASE Short(Head(cluster)) = {}
    BY <2>1 DEF ShortOption, Fail
  <2>2. CASE Short(Head(cluster)) # {}
    <3> DEFINE q == First(Short(Head(cluster)))
    <3>1. q \in Ranked
      BY <2>2, FirstMatches DEF IInv, TypeOK, Short
    <3>2. q.opt \in Options
      <4> HIDE DEF q
      <4>1. QED BY <3>1, OptionOf DEF IInv, TypeOK
    <3>3. IF Len(cluster) = 1 THEN ReadShort(q.opt)
          ELSE cluster' = Tail(cluster) /\ UNCHANGED phase
      BY <2>2 DEF ShortOption
    <3> HIDE DEF q
    <3>4. QED BY <1>1, <3>2, <3>3, ReadShortDoes
  <2>3. QED BY <2>1, <2>2
<1>4. CASE phase' \in Final
  BY <1>1, <1>4, EndsDescends
<1>5. CASE cluster' = <<>> /\ phase' \in {"options", "elements"}
  <2>1. Len(cluster') = 0 /\ phase' \in DOMAIN Stage
    BY <1>5 DEF Stage
  <2>2. 0 + 2 * ParamsLeft + Stage[phase'] < Len(cluster) + 2 * ParamsLeft + Stage[phase]
    BY <1>1, <1>2, <1>5
  <2>3. QED BY <1>1, <1>2, <2>1, <2>2, StageDescends
<1>6. CASE cluster' = Tail(cluster) /\ phase' = "cluster"
  <2>1. Len(cluster') = Len(cluster) - 1 /\ Len(cluster) - 1 \in Nat /\ phase' \in DOMAIN Stage
    BY <1>1, <1>2, <1>6 DEF Stage
  <2>2. (Len(cluster) - 1) + 2 * ParamsLeft + Stage[phase'] < Len(cluster) + 2 * ParamsLeft + Stage[phase]
    BY <1>1, <1>2, <1>6
  <2>3. QED BY <1>1, <1>2, <2>1, <2>2, StageDescends
<1>7. QED BY <1>3, <1>4, <1>5, <1>6 DEF Final

\* A step behind the options, or at their end, to a later stage.
LEMMA LaterDescends ==
  ASSUME IInv, UNCHANGED <<cluster, level, param>>, phase \in DOMAIN Stage,
         phase' \in DOMAIN Stage, Stage[phase'] < Stage[phase]
  PROVE  LeftToDo' < LeftToDo
<1>1. ParamsLeft \in Nat /\ Len(cluster) \in Nat /\ ParamsLeft' = ParamsLeft /\ Len(cluster') = Len(cluster)
  BY LeftType DEF IInv, ParamsLeft
<1>2. Stage[phase'] \in Nat /\ Stage[phase] \in Nat /\ phase \notin Final
  BY DEF Stage, Final
<1>3. Len(cluster) + 2 * ParamsLeft + Stage[phase'] < Len(cluster) + 2 * ParamsLeft + Stage[phase]
  BY <1>1, <1>2
<1>4. QED BY <1>1, <1>2, <1>3, StageDescends

\* The parameter that was read is not left any more.
LEMMA ParameterDescends == IInv /\ Parameter => LeftToDo' < LeftToDo
<1> SUFFICES ASSUME IInv, Parameter PROVE LeftToDo' < LeftToDo
  OBVIOUS
<1>1. /\ phase = "parameters" /\ param <= Len(ParamsAt[level]) /\ param' = param + 1
      /\ UNCHANGED <<argv, level, cluster>> /\ phase \notin Final
  BY DEF Parameter, Final
<1>2. /\ param \in Nat \ {0} /\ Len(ParamsAt[level]) \in Nat /\ Len(cluster) \in Nat
      /\ ParamsAt[level] \in Seq(Params)
  <2>1. param \in Nat \ {0} /\ level \in Levels
    BY DEF IInv, TypeOK
  <2>2. ParamsAt[level] \in Seq(Params)
    BY <2>1, CommandLineAssumption, Zenon
  <2>3. QED BY <2>1, <2>2, LeftType DEF IInv
<1>3. ParamsLeft \in Nat \ {0} /\ ParamsLeft' = ParamsLeft - 1
  <2> DEFINE n == Len(ParamsAt[level])
  <2>1. /\ ParamsLeft = IF param > n THEN 0 ELSE n + 1 - param
        /\ ParamsLeft' = IF param' > n THEN 0 ELSE n + 1 - param'
    BY <1>1 DEF ParamsLeft
  <2>2. n \in Nat /\ param \in Nat /\ param <= n /\ param' = param + 1
    BY <1>1, <1>2
  <2> HIDE DEF n
  <2>3. QED BY ONLY <2>1, <2>2
<1>4. phase' \in {"parameters", "param_elements", "error"}
  <2> DEFINE q == ParamsAt[level][param]
  <2>1. q \in Params
    <3> HIDE DEF Params
    <3>1. param \in 1..Len(ParamsAt[level])
      BY <1>1, <1>2
    <3>2. QED BY <1>2, <3>1
  <2>2. CASE ~ AtEnd
    <3>1. ReadArgument(q)
      BY <2>2 DEF Parameter
    <3> HIDE DEF q
    <3>2. QED BY <1>1, <2>1, <2>2, <3>1, ReadArgumentDoes
  <2>3. CASE AtEnd
    BY <1>1, <2>3 DEF Parameter
  <2>4. QED BY <2>2, <2>3
<1>5. CASE phase' = "error"
  BY <1>1, <1>5, EndsDescends DEF Final
<1>6. CASE phase' \in {"parameters", "param_elements"}
  <2>1. phase' \in DOMAIN Stage /\ Stage[phase'] \in 1..2 /\ Stage[phase] = 1
    BY <1>1, <1>6 DEF Stage
  <2>2. ParamsLeft - 1 \in Nat
    BY <1>3
  <2>3. Len(cluster) + 2 * (ParamsLeft - 1) + Stage[phase'] < Len(cluster) + 2 * ParamsLeft + Stage[phase]
    BY <1>2, <1>3, <2>1
  <2>4. QED BY <1>1, <1>2, <1>3, <2>1, <2>2, <2>3, StageDescends
<1>7. QED BY <1>4, <1>5, <1>6

\* Whatever the parsers do, less is left then.
LEMMA StepDescends == IInv /\ Next => Descends
<1> SUFFICES ASSUME IInv, Next PROVE Descends
  OBVIOUS
<1>1. IInv'
  BY InvNext
<1>2. argv' = argv
  BY DEF Next, EndOptions, LongOption, ShortOptions, ShortOption, Element, RunCommand,
         NoCommand, Parameter, EndParameters
<1>3. {"separator", "option", "value", "command", "parameter"} \subseteq Roles
  BY DEF Roles
<1>4. CASE EndOptions
  <2>1. UNCHANGED <<cluster, level, param>> /\ phase = "options" /\ phase' = "command"
    BY <1>4 DEF EndOptions
  <2>2. LeftToDo' < LeftToDo
    BY <2>1, LaterDescends DEF Stage
  <2>3. ReadsNothing \/ Reads("separator")
    BY <1>4 DEF EndOptions, ReadsNothing, Reads
  <2>4. QED BY <1>1, <1>2, <1>3, <2>2, <2>3, ReadsDescends, StaysAndDescends
<1>5. CASE LongOption \/ ShortOptions
  <2>1. Reads("option")
    BY <1>5 DEF LongOption, ShortOptions, Reads
  <2>2. QED BY <1>1, <1>2, <1>3, <2>1, ReadsDescends
<1>6. CASE ShortOption
  <2>1. LeftToDo' < LeftToDo
    BY <1>6, ShortOptionDescends
  <2>2. ReadsNothing \/ Reads("value")
    <3>1. CASE Short(Head(cluster)) = {} \/ Len(cluster) # 1
      BY <1>6, <3>1 DEF ShortOption, ReadsNothing
    <3>2. CASE Short(Head(cluster)) # {} /\ Len(cluster) = 1
      <4> DEFINE q == First(Short(Head(cluster)))
      <4>1. q \in Ranked
        BY <3>2, FirstMatches DEF IInv, TypeOK, Short
      <4>2. q.opt \in Options
        <5> HIDE DEF q
        <5>1. QED BY <4>1, OptionOf DEF IInv, TypeOK
      <4>3. ReadShort(q.opt)
        BY <1>6, <3>2 DEF ShortOption
      <4> HIDE DEF q
      <4>4. QED BY <4>2, <4>3, ReadShortDoes
    <3>3. QED BY <3>1, <3>2
  <2>3. QED BY <1>1, <1>2, <1>3, <2>1, <2>2, ReadsDescends, StaysAndDescends
<1>7. CASE Element
  <2>1. \/ Reads("value") \/ Reads("parameter")
        \/ /\ UNCHANGED <<m_pos, role>>
           /\ \/ phase = "elements" /\ phase' = "options"
              \/ phase = "param_elements" /\ phase' = "parameters"
    BY <1>7 DEF Element, Reads
  <2>2. UNCHANGED <<cluster, level, param>>
    BY <1>7 DEF Element
  <2>3. ASSUME ~ (Reads("value") \/ Reads("parameter")) PROVE ReadsNothing /\ LeftToDo' < LeftToDo
    <3>1. phase \in DOMAIN Stage /\ phase' \in DOMAIN Stage /\ Stage[phase'] < Stage[phase]
      BY <2>1, <2>3 DEF Stage
    <3>2. QED BY <2>1, <2>2, <2>3, <3>1, LaterDescends DEF ReadsNothing
  <2>4. QED BY <1>1, <1>2, <1>3, <2>3, ReadsDescends, StaysAndDescends
<1>8. CASE RunCommand
  <2>1. Reads("command")
    BY <1>8 DEF RunCommand, Reads
  <2>2. QED BY <1>1, <1>2, <1>3, <2>1, ReadsDescends
<1>9. CASE NoCommand
  <2>1. UNCHANGED <<cluster, level, param>> /\ phase = "command" /\ phase' = "parameters" /\ ReadsNothing
    BY <1>9 DEF NoCommand, ReadsNothing
  <2>2. LeftToDo' < LeftToDo
    BY <2>1, LaterDescends DEF Stage
  <2>3. QED BY <1>1, <1>2, <2>1, <2>2, StaysAndDescends
<1>10. CASE Parameter
  <2>1. LeftToDo' < LeftToDo
    BY <1>10, ParameterDescends
  <2>2. ReadsNothing \/ Reads("parameter")
    <3>1. CASE AtEnd
      BY <1>10, <3>1 DEF Parameter, ReadsNothing
    <3>2. CASE ~ AtEnd
      <4> DEFINE q == ParamsAt[level][param]
      <4>1. q \in Params
        <5>1. param \in DOMAIN ParamsAt[level]
          BY <1>10, LeftType DEF Parameter, IInv, TypeOK
        <5>2. QED BY <5>1, ParamOf DEF IInv, TypeOK
      <4>2. ReadArgument(q) /\ phase = "parameters"
        BY <1>10, <3>2 DEF Parameter
      <4> HIDE DEF q
      <4>3. QED BY <3>2, <4>1, <4>2, ReadArgumentDoes
    <3>3. QED BY <3>1, <3>2
  <2>3. QED BY <1>1, <1>2, <1>3, <2>1, <2>2, ReadsDescends, StaysAndDescends
<1>11. CASE EndParameters
  <2>1. phase \notin Final /\ phase' \in Final /\ ReadsNothing
    BY <1>11 DEF EndParameters, Final, ReadsNothing
  <2>2. QED BY <1>1, <1>2, <2>1, EndsDescends, StaysAndDescends
<1>12. QED BY <1>4, <1>5, <1>6, <1>7, <1>8, <1>9, <1>10, <1>11 DEF Next

\* Nothing becomes less and less without an end.
LEMMA FewerEnds == IsWellFoundedOn(Fewer, Nat \X Nat)
<1>1. Less = OpToRel(<, Nat)
  BY Zenon DEF Less, OpToRel
<1>2. IsWellFoundedOn(Less, Nat)
  BY <1>1, NatLessThanWellFounded
<1>3. QED BY <1>2, WFLexPairOrdering DEF Fewer

\* Parsing cannot go on for ever: every turn of every loop leaves less to read,
\* or the same to read and less to do in front of it, and there is no endless
\* descent in this order.
THEOREM ParsingDescends ==
  /\ IsWellFoundedOn(Fewer, Nat \X Nat)
  /\ Spec => [](Left \in Nat \X Nat) /\ [][Descends]_vars
<1>1. IInv => Left \in Nat \X Nat
  BY LeftType DEF IInv
<1>2. Spec => [](Left \in Nat \X Nat)
  BY <1>1, Invariance, PTL
<1>3. IInv /\ [Next]_vars => [Descends]_vars
  BY StepDescends
<1>4. Spec => [][Descends]_vars
  BY <1>3, Invariance, PTL DEF Spec
<1>5. QED BY <1>2, <1>4, FewerEnds
=============================================================================
