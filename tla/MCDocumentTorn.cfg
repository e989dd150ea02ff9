SPECIFICATION Spec
CONSTANTS
  Byte <- MCByte
  Continuation <- MCContinuation
  Utf8 <- MCUtf8
  Ops <- MCOps
  InitialFiles <- MCInitialFiles
  MaxOps = 2
  MaxLen = 2
  MaxRecords = 2
  MaxNodes = 3
  MaxFaults = 3
PROPERTY
  RestartShowsAfterTorn
