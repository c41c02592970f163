CONSTANTS
  Compilations <- MCCompilations
  Configs <- MCConfigs
  Settings <- MCSettings
  RuntimeConfigs <- MCRuntimeConfigs
  Layouts <- MCLayouts
  TinyGPTConfigs <- MCTinyGPTConfigs
  Prompts <- MCPrompts
  VectorGraphs <- MCVectorGraphs
  QuantTensors <- MCQuantTensors
  GivenScales <- MCGivenScales
  Streams <- MCStreams
  Banks <- MCBanks
SPECIFICATION ToolchainSpec
INVARIANTS

  AllocationsDisjoint
  OperandsReady
  EveryProductOnce
  WorkAddsUp
  VectorsComputeProduct
  SoftmaxSeesEveryScore
  ContextIsComplete
  MacsMatchEstimate
  RuntimeFindsValues
  DecodeMatchesReference
  CacheIsWindow
  CollectorMirrorsRuntime
  QuantErrorBounded
  TimelineOrdered
  TimelineKeepsWork
  RegionsGrow
  VerdictIsExact
  OkMeansInBounds
CHECK_DEADLOCK FALSE
