SPECIFICATION LabSpec
CONSTANTS
    p1 = p1
    p2 = p2
    Shells = {p1, p2}
    Dirs = {"home", "sub"}
    Home = "home"
    Base = {"f"}
    Prints <- Printing
    Inodes = {i1, i2, i3, i4, i5, i6}
    None = None
    Tty = Tty
    Scenes <- MCScenes
    MaxLines = 3 MaxBytes = 5
    Buffers = {2, 5}
    MaxForks = 2
    MaxRun = 4
    Chars = {"a", " ", ">", "+"}
    MaxLen = 5
INVARIANTS TypeOK LinesInOrder WordsAreMeant
PROPERTIES RedirectionSpec NothingLost NoClobber CommandsEnd BatchEnds
CHECK_DEADLOCK FALSE
