CONSTANTS
  PROGRAM_LEN = 2
  PcSpan = 4
  CyclesSpan = 4
  GlobalSpan = 4
  AccSpan = 8
  HostOpcodes = {"LOAD_A", "MAC_TILE"}
  HostCycles = {0, 2}
  HostLengths = {0, 1, 2, 3}
  HostOperands <- MCOperands
  Unpromised = Unpromised
SPECIFICATION MCSpec
INVARIANTS ControllerTypeOK StrobesOnlyInRun PcNeverWraps RunsProgramMemory DoneMeansEveryMac
PROPERTIES RunsEnd PlaysTheProgram
