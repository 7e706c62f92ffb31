SPECIFICATION FairSpec
CONSTANTS
    fan = fan
    friend = friend
    wallet = wallet
    dapper = dapper
    fanHome = fanHome
    friendHome = friendHome
    None = None
    Drops = {d1}
    Moments = {m1, m2}
    Sources = {dapper}
    AdminWallet = dapper
    Parent = wallet
    Controllers = {c1, c2}
    Links <- Published
    Stocks <- Shared
    Users = {fan}
    Recipients = {fanHome}
    RecipientsOf <- Household
    PackCount = 1
    PerPack = 2
    MaxBatch = 1
    Slots = {s1, s2}
    Flights = {f1}
    MaxMoves = 1
    MaxFaults = 1
CHECK_DEADLOCK FALSE
PROPERTIES EventuallyDelivered
