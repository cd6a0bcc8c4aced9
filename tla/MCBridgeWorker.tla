--------------------------- MODULE MCBridgeWorker ---------------------------
(* TLC instances of the bridge: two owners, a queue of one job, amounts    *)
(* small and even so that the 50/50 split is exact.                        *)
EXTENDS BridgeWorker

MCOwners == {"alice", "bob"}

\* the third deposit is too small for a share when the price is low
MCDepositOf ==
    [d \in Deposits |-> [owner |-> IF d = 1 THEN "alice" ELSE "bob",
                         eth |-> IF d = 3 THEN 1 ELSE 2]]

\* alice burns twice what she may have only once; bob redeems xTokens
MCRedeemOf ==
    [r \in Redeems |->
        CASE r = 1 -> [owner |-> "alice", token |-> "f", amount |-> 3]
          [] r = 2 -> [owner |-> "alice", token |-> "f", amount |-> 2]
          [] r = 3 -> [owner |-> "bob", token |-> "x", amount |-> 1]]

\* the monitor sees more shares than were credited, at the very next block
MCPosted == {[block |-> 101, total |-> 7]}
NonePosted == {}

MCSeedShares == [o \in Owners |-> IF o = "alice" THEN 2 ELSE 0]

=============================================================================
