CONSTANTS
  Compilations <- MCCompilations
  Configs <- MCConfigs
  Settings <- MCSettings
  RuntimeConfigs <- MCRuntimeConfigs
  Layouts <- MCLayouts
  TinyGPTConfigs <- MCTinyGPTConfigs
  Prompts <- MCPrompts
  VectorGraphs <- MCVectorGraphs
  QuantTensors <- MCQuantTensors
  GivenScales <- MCGivenScales
  Streams <- MCStreams
  Banks <- MCBanks
SPECIFICATION ToolchainSpec
INVARIANT EmittedAccessesAreChecked
CHECK_DEADLOCK FALSE
