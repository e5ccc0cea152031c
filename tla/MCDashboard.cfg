SPECIFICATION FairSpec
CONSTANTS
  Strategies <- MCStrategies
  Viewless <- MCViewless
  Deletable = {1}
  Declares <- MCDeclares
  Tokens = 2
  Portfolios = {portfolio}
  Viewers = {view}
  None = None
  MaxPerStrategy = 1
  MaxTotal = 2
  MaxRecords = 1
CHECK_DEADLOCK FALSE
INVARIANTS
  StaleIsLatestGood
  FullMeansRendered
  CutsAreTold
PROPERTIES
  PortfolioAnswers
