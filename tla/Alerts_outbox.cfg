SPECIFICATION FairSpec
CONSTANTS
    w1 = w1
    w2 = w2
    a1 = a1
    a2 = a2
    s1 = s1
    s2 = s2
    owner = owner
    email = email
    Watches = {w1, w2}
    Alerts = {a1, a2}
    AskAlerts = {a1}
    Owners = {owner}
    OwnerOf <- MCOwner
    IdOf <- MCIds
    ListLimit = 1
    ScanLimit = 1
    Channels = {email}
    ChannelsOf <- MCChannels
    Prices = {5}
    Unmet = 99
    Beginnings <- MCBeginnings
    Senders = {s1, s2}
    MaxAttempts = 2
    MaxPeriod = 1
    MaxFaults = 2
INVARIANTS TypeOK ResentOnlyAfterFailure SilentHasRow
PROPERTIES FollowsOutbox RichIsTold AsksAreTold
