SPECIFICATION FairSpec
CONSTANTS
    first = first
    second = second
    bad = bad
    storefront = storefront
    market = market
    cronJob = cronJob
    actions = actions
    None = None
    Sales = {second, bad}
    Poison = {bad}
    Free = {}
    Sources = {storefront, market}
    Ticks = {cronJob, actions}
    BlockOf <- MCBlockOf
    SourceOf <- MCSourceOf
    Origin = 1
    MaxHeight = 3
    ChunkSize = 1
    MaxBlocks = 2
    BatchSize = 2
    MaxFaults = 1

INVARIANTS TypeOK NothingLost
PROPERTIES FollowsReplica EventuallyRecorded EventuallyPromoted
