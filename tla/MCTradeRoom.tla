---------------------------- MODULE MCTradeRoom ----------------------------
(***************************************************************************)
(* Values and starting points for TLC's instances of TradeRoom.            *)
(***************************************************************************)
EXTENDS TradeRoomRefinement

CONSTANTS alice, bob, carol,
          aliceWallet, aliceDapper, bobWallet, carolWallet,
          gem, rare

(* alice's wallet links a Dapper account; the others trade from their own. *)
MCWallets == [u \in Users |->
    CASE u = alice -> {[signer |-> aliceWallet, source |-> aliceWallet],
                       [signer |-> aliceWallet, source |-> aliceDapper]}
      [] u = bob   -> {[signer |-> bobWallet, source |-> bobWallet]}
      [] OTHER     -> {[signer |-> carolWallet, source |-> carolWallet]}]

MCHomeOf == [m \in Moments |-> IF m = rare THEN bobWallet ELSE aliceWallet]

MCPicks == {{gem}, {rare}, {}}

(* A room both have joined, with proven wallets and picks: what the        *)
(* requests join, wallet, wallet, items, items leave behind.               *)
BuiltSides ==
    [s \in Side |->
        IF s = "a" THEN [user |-> alice, signer |-> aliceWallet,
                         source |-> aliceWallet, accepted |-> None]
                   ELSE [user |-> bob, signer |-> bobWallet,
                         source |-> bobWallet, accepted |-> None]]

BuiltItems == [s \in Side |-> IF s = "a" THEN {gem} ELSE {rare}]

BuiltInit ==
    /\ room = [status |-> "building", version |-> 5, tx |-> None]
    /\ expired = FALSE
    /\ sides = BuiltSides
    /\ items = BuiltItems
    /\ relays = << >>
    /\ at = HomeOf
    /\ reqs = [r \in Slots |-> None]
    /\ started = 0
    /\ everAccepted = {}
    /\ accepts = [s \in Side |-> None]
    /\ edits = <<1, 2, 3, 4>>
    /\ went = {<<m, at[m], at[m]>> : m \in Moments}
    /\ receipt = Blank

BuiltSpec == BuiltInit /\ [][HNext]_hvars

(* The same room after both accepted it and alice's wallet asked for bob's *)
(* signature: accept, accept, relay_post.                                  *)
SigningVoucher ==
    [s \in Side |-> [signer |-> BuiltSides[s].signer, source |-> BuiltSides[s].source,
                     gives  |-> BuiltItems[s]]]

SigningInit ==
    /\ room = [status |-> "signing", version |-> 5, tx |-> None]
    /\ expired = FALSE
    /\ sides = [s \in Side |-> [BuiltSides[s] EXCEPT !.accepted = 5]]
    /\ items = BuiltItems
    /\ relays = <<[cosigner |-> bobWallet, initiator |-> "a",
                   voucher |-> SigningVoucher,
                   signed |-> FALSE, fresh |-> TRUE, executed |-> FALSE]>>
    /\ at = HomeOf
    /\ reqs = [r \in Slots |-> None]
    /\ started = 0
    /\ everAccepted = {<<"a", 5>>, <<"b", 5>>}
    /\ accepts = [s \in Side |-> SigningVoucher]
    /\ edits = <<1, 2, 3, 4>>
    /\ went = {<<m, at[m], at[m]>> : m \in Moments}
    /\ receipt = Blank

(* The statuses in which a request of a kind gets past its first read.     *)
Passes(kind) ==
    CASE kind = "join" -> {"open"}
      [] kind \in {"wallet", "items", "accept", "unaccept"} ->
            {"open", "building", "accepted"}
      [] kind = "cancel" -> Statuses \ {"sealed", "cancelled"}
      [] kind \in {"relay_post", "sealed"} -> {"accepted", "signing"}
      [] kind = "relay_sign" -> {"signing"}
      [] kind = "verify" -> {"sealed"}
      [] OTHER -> Statuses

(* Nobody starts a request that is turned away by what it reads first, or  *)
(* for not being in the room: it would only take up a slot.  carol is      *)
(* there to race bob for the free side.                                    *)
NothingInVain ==
    \A r \in Slots : reqs[r] = None /\ reqs'[r] # None =>
        /\ room.status \in Passes(reqs'[r].kind)
        /\ IF reqs'[r].kind = "join"
           THEN sides["b"].user = None /\ ~expired
           ELSE \E s \in Side : sides[s].user = reqs'[r].user

(* An expired room only refuses more, and no property but the type         *)
(* invariant reads the clock: it runs out between the check of the picks  *)
(* against the chain and their upsert, where a request reads it again.     *)
LateExpiry == expired' # expired => \E r \in Slots : At(r, "save")

(* A room just opened, empty or for bob's proposal (carol's would be the   *)
(* same room with her name), or either stage, so that a bound of a few     *)
(* requests reaches every handler.                                         *)
StagesSpec ==
    /\ (HInit /\ sides["b"].user # carol) \/ BuiltInit \/ SigningInit
    /\ [][Next /\ NothingInVain /\ LateExpiry /\ Remember]_hvars
=============================================================================
