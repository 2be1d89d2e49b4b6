CONSTANTS
    MaxLines = 3
    PipeSize = 1
SPECIFICATION Spec
INVARIANTS OutputKept ScriptOver
PROPERTIES PhaseReturns BashEnds
CHECK_DEADLOCK FALSE
