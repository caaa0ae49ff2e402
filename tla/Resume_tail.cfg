\* A short last chunk, with or without a signature.
CONSTANTS
    Sizes = {5}
    Transfer = 2
    Buffer = 4
    MaxRuns = 2
    NoFile = NoFile
SPECIFICATION Spec
INVARIANT FinalIsSource
CHECK_DEADLOCK FALSE
