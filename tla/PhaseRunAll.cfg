CONSTANTS
    MaxLines = 3
    PipeSize = 1
SPECIFICATION Spec
INVARIANTS AllTranscribed
CHECK_DEADLOCK FALSE
