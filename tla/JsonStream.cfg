CONSTANTS
  IntMin <- MinOfInt
  IntMax = 127
  LongMax = 32767
  Documents <- AllDocuments
SPECIFICATION Spec
INVARIANTS
  ReadBackAsWritten
  NothingRefused
  CutIsRefused
  OlderReaderNotMisled
  WrittenInGrammar
  XmlTellsApart
CHECK_DEADLOCK FALSE
