CONSTANTS
    BlockSize = 4
    NDir = 2
    Ptrs = 2
    W = 8
    Widths = {8, 12}
    Near = 4
    MaxRoom = 2
    MaxLen = 14
    Files <- SomeFiles
    Dirs <- SomeDirs
    Names <- SomeNames
SPECIFICATION Spec
INVARIANTS
    DataExact
    StopsKnown
    DirectoryExact
