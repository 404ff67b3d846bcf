SPECIFICATION Spec
CONSTANTS
  a = a
  b = b
  c = c
  Names = {a, b, c}
  NoName = NoName
  Programs <- MCPrograms
INVARIANTS
  ReportsAreCycles
  ReportsBreakEveryCycle
  OrderIsValid
