SPECIFICATION Spec
CONSTANTS
    fan = fan
    friend = friend
    wallet = wallet
    dapper = dapper
    fanHome = fanHome
    friendHome = friendHome
    None = None
    Drops = {d1}
    Moments = {m1, m2}
    Sources = {wallet}
    AdminWallet = wallet
    Parent = wallet
    Controllers = {c1}
    Links <- Published
    Stocks <- Shared
    Users = {fan, friend}
    Recipients = {fanHome, friendHome}
    RecipientsOf <- Separate
    PackCount = 2
    PerPack = 1
    MaxBatch = 2
    Slots = {s1, s2}
    Flights = {f1, f2}
    MaxMoves = 1
    MaxFaults = 1
CHECK_DEADLOCK FALSE
INVARIANTS TypeOK OnlyToItsWinner DeliveredReachedWinner
PROPERTIES FollowsRaffle
SYMMETRY Interchangeable
