SPECIFICATION FairSpec
CONSTANTS
    h1 = h1
    h2 = h2
    d = d
    e = e
    f = f
    g = g
    root = root
    Handle <- Handles
    Path <- Names
    Root <- root
    Parent <- Parents
    Ino <- Inodes
    Fd <- Descriptors
    ReadOnly <- ReadOnlyNames
    Uses <- FilesAndTree
    ThreadCount = 3
    MaxData = 1
CHECK_DEADLOCK FALSE
INVARIANTS DescriptorsOwned CreatesAreSound
  
