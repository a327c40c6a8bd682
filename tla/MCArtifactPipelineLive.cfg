SPECIFICATION Spec
CONSTANTS
    p1 = p1
    p2 = p2
    long = long
    short = short
    Nobody = Nobody
    Procs <- MCProcs
    Tracks <- MCTracks
    Segs <- MCOneSegment
PROPERTIES
    RunsEnd
