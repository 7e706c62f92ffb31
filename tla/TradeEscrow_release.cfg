SPECIFICATION FairSpec
CONSTANTS
    alice = alice
    bob = bob
    moment = moment
    allday = allday
    aliceHome = aliceHome
    bobHome = bobHome
    bobOther = bobOther
    Accounts = {alice, bob}
    Types = {moment}
    Ids = {1, 2}
    Receivers = {aliceHome, bobHome}
    HolderOf <- MCHolderOf
    Accepts <- MCAccepts
    NoReceiver = NoReceiver
    Vault = Vault
    IdLists <- OneEach
    MinExpiry = 1
    MaxExpiry = 1
    MaxTime = 1
    MaxTrades = 2
INVARIANTS Conservation
PROPERTIES ExpiryReleases ImplementsAtomicSwap
