SPECIFICATION ServicesSpec
CONSTANTS
  call1 = call1
  call2 = call2
  change1 = change1
  change2 = change2
  Chats <- TwoChats
  Costs <- DefaultCosts
  Confs <- SomeConfs
  Trials = 2
  ErrorPct = 50
  GuardAt = 2
  Readers <- TwoReaders
  Markers <- TwoMarkers
  Questions <- TwoQuestions
  Docs <- OneDoc
  Buckets <- ThreeBuckets
  Score <- Similarity
  Threshold = 92
  Leftovers <- NothingOrAll
  MaxEvictions = 1
  Ids <- ThreeIds
  Configs <- SomeConfigs
  Denominator = 3782
  Runs <- TwoRuns
  Asks <- SomeAsks
  Sites <- SomeSites
  Requests <- TwoRequests
  Users <- OneUser
  Contents <- TwoContents
  Loads <- TwoLoads
  MaxFacts = 1
  Installs <- SomeInstalls
  Tabs <- TwoTabs
  Sids <- TwoSids
  NormOf <- Normal
  Scenes <- SomeScenes
  Setups <- SomeSetups
  Replies <- SomeReplies
  LastTurn = 2
  Scenarios <- SomeScenarios
INVARIANTS
  TypeOK   MarkReachesAll 
  FusionRespectsDominance ServedAsAsked PoolsAccountedFor IngestTellsTruth
  PreviewsTruthful HistoryIsOfSession NoCallPassedOver 
PROPERTIES
  ImplementsTrustSwitch GuardStopsSpending ContentChangesAnnounced ForensicsTruthful
SYMMETRY Symmetry
CHECK_DEADLOCK FALSE
