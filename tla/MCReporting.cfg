SPECIFICATION DSpec
CONSTANTS
  Metrics <- MCMetrics
  Domains <- MCDomains
  Above <- MCAbove
  StatementLines <- MCStatements
  DivisionOf <- MCDivisionOf
  CommitOrder <- MCCommits
  RolledUp = RolledUp
  Dimensions <- MCDimensions
  Universe <- MCUniverse
  Ragged = {"tree"}
  Inspectable = {"pnl"}
  AnyDimension = AnyDimension
  Inline = {"person"}
  Scenarios <- MCScenarios
  Additions <- MCAdditions
  FactTables <- MCTables
  Requests <- MCRequests
  NoName = NoName
  MaxFaults = 1
  MaxAdditions = 1
  MaxSwaps = 1
INVARIANTS DiscoveryAgreesWithReports AnswerIsTheReport NumbersAreOfOneTable ReadsWhatWasGated GoodRequestsAreAnswered
CHECK_DEADLOCK FALSE
