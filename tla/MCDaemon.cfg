SPECIFICATION DaemonSpec
CONSTANTS
    p1 = p1
    p2 = p2
    NoProc = NoProc
    Proc <- MCProc
INVARIANT TypeOK
INVARIANT DataDirHasOneNode
INVARIANT ShutdownFollowsContract
PROPERTY ShutdownRequestEnds
