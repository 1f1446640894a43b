CONSTANTS
  ExecTypes <- MCExecTypes
  TransTypes <- MCTransTypes
  MaxSent = 2
SPECIFICATION Spec
INVARIANT CodecMatchesSpec
INVARIANT StatusIdentifiesExec
CHECK_DEADLOCK FALSE
