SPECIFICATION Spec
CONSTANTS
  f1 = f1
  f2 = f2
  here = here
  elsewhere = elsewhere
  broken = broken
  Files = {f1, f2}
  Contents = {here, elsewhere, broken}
  Unreadable = {broken}
  Packages = {"p", "q"}
  Names = {"g"}
  PackageOf <- MCPackageOf
  FuncsOf <- MCFuncsOf
  Uris = {"root/a.cj", "a.cj"}
  Endings <- MCEndings
  Requests <- MCRequests
  Dependencies = {}
  NoFile = NoFile
  NoTime = NoTime
  MinTick = 1
  MaxTime = 2
INVARIANTS
  TimeTellsContent
  NoOlderThanRefresh
  QuietAnswerExact
PROPERTIES
  SettledNotReread
