SPECIFICATION StagesSpec
CONSTANTS
    alice = alice
    bob = bob
    gem = gem
    rare = rare
    pin = pin
    Users = {alice, bob}
    Moments = {gem, rare, pin}
    HolderOf <- MCHolderOf
    Signable = {gem, rare}
    Bundles <- MCBundles
    ListingIds = {1, 2}
    ProposalIds = {1, 2}
    RoomIds = {1, 2}
    Slots = {s1, s2}
    None = None
    Deleted = Deleted
    MaxOpenListings = 2
    MaxPendingProposals = 2
    MaxRequests = 3
CHECK_DEADLOCK FALSE
INVARIANTS TypeOK AcceptedRoomIsReady
PROPERTIES FollowsOffers
