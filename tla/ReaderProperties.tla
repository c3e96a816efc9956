-------------------------- MODULE ReaderProperties --------------------------
(***************************************************************************)
(* What the readers of the client library tell a front end.                *)
(***************************************************************************)
EXTENDS Readers, MarketProperties

\* A market page made of the two scans shows every NFT the program holds and
\* no other: an NFT that is listed, up for auction, or both is found by its
\* bytes in accounts that also keep every past listing and auction.
EscrowIsVisible ==
    \E listed \in getAllListedNFTs, started \in getAllStartedAuctions :
        listed \cup started = {m \in Mint : holder[m] = GlobalAuthority}

\* Whatever offer the seller could accept now is in the scan of the offers
\* for that NFT, beside offers for other NFTs and users' pools.
AcceptableOffersShown ==
    \A m \in Mint, buyer \in User :
        Listed(m) /\ OfferStands(buyer, m) =>
            \E found \in getAllOffersForListedNFT(m) : buyer \in found
=============================================================================
