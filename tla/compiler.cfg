CONSTANTS
  Undef = Undef
  TRACE_DEPTH = 2
  Programs <- TwoDeep
  SourceFuel = 8
  MachineFuel = 80
  MaxLines = 3
  Uri = {"u"}
  Written <- Opened
  Inserted <- Typed
  MaxText = 3
  MaxEdits = 2
  MaxSent = 3
  NULL = NULL
SPECIFICATION MCSpec
INVARIANTS
  EveryBlockVerifies
  CompiledMeansSource
  HandlersAndTracebackBalanced
  AcceptedBuilds
  ValuesKeepTheirTypes
  CapturesResolve
  FieldsExtendBase
  MethodsAgree
  NamedValuesEscape
  LayoutIsBlockStructure
  DocumentsAgree
  AnalysisIsCurrent
CHECK_DEADLOCK FALSE
