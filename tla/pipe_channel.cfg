CONSTANTS
    writer = writer
    reader = reader
    both = both
    Proc = {writer, reader, both}
    Ends <- MCEnds
    PIPSIZ = 2
    Counts = {3}
    Reads = {1, 3}
    None = None
SPECIFICATION FairSpec
INVARIANTS NoConstipation
PROPERTIES EndsMeetCalls CallsEnd ImplementsChannel
CHECK_DEADLOCK FALSE
