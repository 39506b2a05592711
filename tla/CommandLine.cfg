CONSTANTS
  Arguments <- ArgvArguments
  MaxArgs = 3
  OptionsAt <- ProgramOptions
  CommandsAt <- ProgramCommands
  ParamsAt <- ProgramParams
  IntTexts <- Ints
  Trues = {"on", "1"}
  Falses = {"off", "0"}
  Items <- Cut
  NoName = "none"
SPECIFICATION FairSpec
INVARIANTS
  ReadInOrder
  NothingOptionalBehindSeparator
  OnlyMentionedOptionsChange
  WellParsed
PROPERTIES
  Terminates
CHECK_DEADLOCK FALSE
