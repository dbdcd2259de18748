SPECIFICATION FairSpec
CONSTANTS
    f = f
    g = g
    NoScript = NoScript
    NoMirror = NoMirror
    Scripts <- MCScripts
    Visible <- UpTo2
    Hidden <- UpTo1
    Texts <- UpTo2
INVARIANTS
    IncludesLeadToCopies
    MirrorIsTheScript
    EchoIsRestored
PROPERTIES
    RewritingEnds
\* The rewriting ends.
CHECK_DEADLOCK FALSE
