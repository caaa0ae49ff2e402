\* A file of whole transfer buffers and one with a short last chunk, each with
\* and without a signature; up to three of four runs are stopped and resumed.
CONSTANTS
    Sizes = {7, 8}
    Transfer = 2
    Buffer = 4
    MaxRuns = 4
    NoFile = NoFile
    Dirs <- SomeDirs
    Names <- SomeNames
SPECIFICATION FairSpecTree
INVARIANTS
    TypeOK
    FinalRight
    InPlace
    StartsInside
    DirsReady
    SeparatePaths
PROPERTIES
    Completes
    PathStable
CHECK_DEADLOCK FALSE
