SPECIFICATION StagesSpec
CONSTANTS
    alice = alice
    bob = bob
    carol = carol
    aliceWallet = aliceWallet
    aliceDapper = aliceDapper
    bobWallet = bobWallet
    carolWallet = carolWallet
    gem = gem
    rare = rare
    Users = {alice, bob, carol}
    Creator = alice
    Accounts = {aliceWallet, aliceDapper, bobWallet, carolWallet}
    Wallets <- MCWallets
    Moments = {gem, rare}
    Picks <- MCPicks
    HomeOf <- MCHomeOf
    TxIds = {tx}
    Slots = {s1, s2}
    None = None
    MaxRequests = 3
    MaxRelays = 2
CHECK_DEADLOCK FALSE
INVARIANTS TypeOK OneEditPerVersion VouchersAreProven SealedIsHandedOver
PROPERTIES FollowsAgreement
