CONSTANTS
  DefaultColumns <- MCDefault
  ViewColumns <- MCViews
  GroupOf <- MCGroupOf
  Searches <- MCSearches
  FilterKeys <- MCFilterKeys
  Words <- MCWords
  Served <- MCServed
  MaxCalls <- MCMaxCalls
  MaxFetches = 2
  Questions <- MCQuestions
  Rows <- MCRows
  TimeFields <- MCTimeFields
  PageSize = 2
  MaxLeft = 1
  Documents <- MCDocuments
  Shared <- MCShared
  PrefixNames <- MCPrefixNames
  Schemas <- MCSchemas
  DataModels <- MCDataModels
  Sources <- MCSources
  Defects = 2
  Repositories <- MCRepositories
  MaxDepth = 6
  Attributes <- MCAttributes
  Params <- MCParams
  Messages <- MCMessages
  Requests <- MCRequests
  ContextOfCall <- MCContextOfCall
  ContextInEntry <- MCContextInEntry
  Foreign = "!!"
  Falsy = Falsy
  None = None
  started = started
  done = done
  ann = ann
  bob = bob
  may = may
  june = june
SPECIFICATION Spec
CHECK_DEADLOCK FALSE
INVARIANTS
  ColumnsAreKept
  ReferencesLead
  OperationsAreKept
  OperationsAreValid
  RelationsPair
  ImportsResolve
  FlowIsDrawn
  ModuleAndSchemasAgree
  SettledShowsAsked
  LoadingMeansPending
  ChipsAreNamed
  ContextIsFirstFound
  ErrorsReachSentry
PROPERTIES
  OneColumnAtATime
