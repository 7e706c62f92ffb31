SPECIFICATION Spec
CONSTANTS
    alice = alice
    bob = bob
    moment = moment
    allday = allday
    aliceHome = aliceHome
    bobHome = bobHome
    bobOther = bobOther
    Accounts = {alice, bob}
    Types = {moment, allday}
    Ids = {1}
    Receivers = {aliceHome, bobHome, bobOther}
    HolderOf <- MCHolderOf
    Accepts <- MCAccepts
    NoReceiver = NoReceiver
    Vault = Vault
    IdLists <- SingleLists
    MinExpiry = 1
    MaxExpiry = 2
    MaxTime = 2
    MaxTrades = 1
INVARIANTS TypeOK EscrowIsCommitment
PROPERTIES AllOrNothing SwapsGiveWhatTheyList
