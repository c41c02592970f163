CONSTANTS
  PROGRAM_LEN = 8
  PcSpan = 16
  CyclesSpan = 4
  GlobalSpan = 16
  AccSpan = 262144
  HostOpcodes = {}
  HostCycles = {}
  HostLengths = {}
  HostAddresses = {}
  HostTiles <- NoTiles
  Workloads <- MCWorkloads
  HostBanks = {}
  HostReads = {}
  ChecksStoredValid = FALSE
SPECIFICATION RunnerSpec
INVARIANT OutputIsProduct
PROPERTY RunnerReturns
