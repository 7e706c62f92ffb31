SPECIFICATION FairSpec
CONSTANTS
    Moments = {m1, m2}
    Walks = {w1, w2}
    ChunkSize = 1
    CapSize = 0
    MaxDuration = 1
    StaleAfter = 1
    MaxMoves = 1
    MaxFaults = 2
INVARIANTS TypeOK OneWalk CleanMeansGone
PROPERTIES FollowsMirror EventuallyExact
