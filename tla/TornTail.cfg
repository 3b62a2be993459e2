CONSTANTS
  a1 = a1
  a2 = a2
  a3 = a3
  a4 = a4
  AuditRows <- MCRows
  Ui <- MCUi
  SizeOf <- MCSizeOf
  WindowStart = 2
SPECIFICATION AuditSpec
INVARIANT
  AckedRowsReadable
