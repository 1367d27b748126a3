CONSTANTS
    McpCap = 115
    UploadCap = 118
    MaxSize = 122
    MaxChunk = 3
SPECIFICATION Spec
INVARIANTS
    OutcomeBySize
CHECK_DEADLOCK FALSE
