---------------------------- MODULE NftOwnership ----------------------------
(***************************************************************************)
(* What the marketplace is to those who own NFTs and bid for them, without *)
(* accounts, escrow or money: each NFT has one owner, who may put it up    *)
(* for sale and take it back as long as nobody has bid for it.  A bid      *)
(* binds him: from then on the NFT can only go to the last bidder.         *)
(***************************************************************************)
CONSTANTS
    Mint,      \* the NFTs
    User,      \* who owns them
    NoBidder   \* no user

VARIABLES
    owner,    \* of each NFT, also while it is for sale
    stage,    \* "free", "for sale", or "bid for"
    bidder    \* the last bidder

ownership == <<owner, stage, bidder>>

Init ==
    /\ owner \in [Mint -> User]
    /\ stage = [m \in Mint |-> "free"]
    /\ bidder = [m \in Mint |-> NoBidder]

\* The owner gives it away.
Give(m, recipient) ==
    /\ stage[m] = "free"
    /\ owner' = [owner EXCEPT ![m] = recipient]
    /\ UNCHANGED <<stage, bidder>>

PutUp(m) ==
    /\ stage[m] = "free"
    /\ stage' = [stage EXCEPT ![m] = "for sale"]
    /\ UNCHANGED <<owner, bidder>>

TakeBack(m) ==
    /\ stage[m] = "for sale"
    /\ stage' = [stage EXCEPT ![m] = "free"]
    /\ UNCHANGED <<owner, bidder>>

Trade(m, buyer) ==
    /\ stage[m] = "for sale"
    /\ stage' = [stage EXCEPT ![m] = "free"]
    /\ owner' = [owner EXCEPT ![m] = buyer]
    /\ UNCHANGED bidder

\* Neither the owner nor the last bidder bids.
Bid(m, user) ==
    /\ stage[m] # "free"
    /\ user \notin {owner[m], bidder[m]}
    /\ stage' = [stage EXCEPT ![m] = "bid for"]
    /\ bidder' = [bidder EXCEPT ![m] = user]
    /\ UNCHANGED owner

Award(m) ==
    /\ stage[m] = "bid for"
    /\ stage' = [stage EXCEPT ![m] = "free"]
    /\ owner' = [owner EXCEPT ![m] = bidder[m]]
    /\ bidder' = [bidder EXCEPT ![m] = NoBidder]

Next ==
    \E m \in Mint :
        \/ PutUp(m) \/ TakeBack(m) \/ Award(m)
        \/ \E user \in User : Give(m, user) \/ Trade(m, user) \/ Bid(m, user)

Spec == Init /\ [][Next]_ownership
=============================================================================
