SPECIFICATION FairSpec
CONSTANTS
    sponsor = sponsor
    dapper = dapper
    wallet = wallet
    first = first
    second = second
    m1 = m1
    m2 = m2
    topshot = topshot
    None = None
    Accounts = {sponsor, dapper, wallet}
    Moments = {m1, m2}
    Types = {topshot}
    TypeOf <- Alike
    Sponsors = {first, second}
    OwnerOf <- OneOwner
    MaxPerPack = 2
    Delay = 1
    MaxPacks = 2
    MaxMoves = 3
INVARIANTS TypeOK
PROPERTIES IdNamesOnePack EventuallyOut ImplementsSealedGift
