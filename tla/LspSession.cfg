SPECIFICATION Spec
CONSTANTS
  NL = "nl"
  Letters = {"a"}
  Uris = {u1}
  Ids = {r1}
  Running = Running
  NoAnswer = NoAnswer
  Nothing = Nothing
  Abandoned = Abandoned
  PipeSize = 2
  MaxText = 2
  MaxVersion = 2
INVARIANTS
  NoStaleRename
  AnsweredOnce
  OrderlyStop
PROPERTIES
  MirrorsTheEditor
  DiagnosticsCatchUp
  Responsive
