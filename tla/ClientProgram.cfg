SPECIFICATION Spec
CONSTANTS
    NULL = NULL
    f1 = f1
    f2 = f2
    f3 = f3
    empty = empty
    unreadable = unreadable
    root = root
    sub = sub
    failing = failing
    broken = broken
    name1 = name1
    name2 = name2
    keep = keep
    Files <- MCFiles
    LocalSize <- MCLocalSize
    BaseName <- MCBaseName
    PrefixOf <- MCPrefixOf
    RemoteSizes = {0, 1}
    Unwritable = {}
    Stored = {f1, f3}
    Tree <- MCTree
    DefaultWait = 1
    UserFiles = {f1, f2}
    UserDirs = {keep}
    MaxCalls = 3
    CommandLines <- MCCommandLines
CHECK_DEADLOCK FALSE
INVARIANTS
    InStep
    
    
    WriteAfterCreate
    
    OptionsPaired

    
