SPECIFICATION Spec
CONSTANTS
    p1 = p1
    p2 = p2
    Shells = {p1}
    Dirs = {"home"}
    Home = "home"
    Base = {"f"}
    Prints <- RawPrinting
    Inodes = {i1, i2, i3, i4}
    None = None
    Tty = Tty
    Scenes <- RawScenes
INVARIANT MergeKeepsAll
CHECK_DEADLOCK FALSE
