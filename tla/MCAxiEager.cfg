CONSTANTS
  PROGRAM_LEN = 4
  PcSpan = 8
  CyclesSpan = 4
  GlobalSpan = 2
  AccSpan = 4
  HostOpcodes = {"STORE_C"}
  HostCycles = {2}
  HostLengths = {0, 4}
  HostAddresses = {1}
  HostTiles <- MCTiles
  Programs <- TwoPrograms
  HostBanks = {1}
  HostReads = {"STATUS"}
  MaxOwed = 2
SPECIFICATION Eager
INVARIANT EveryAccessAnswered
