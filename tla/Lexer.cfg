SPECIFICATION MCSpec
CONSTANTS
  Characters <- MCCharacters
  WideStart = {"wide"}
  WideContinue = {"dot"}
  WideOther = {"odd"}
  Words <- MCWords
INVARIANTS
  TokensInPlace
  ReadAsMeant
CHECK_DEADLOCK FALSE
