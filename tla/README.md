# MDS Marketplace in TLA+

A specification of the `Mds_Marketplace` Solana program
(`programs/Mds_Marketplace/src`): NFT listings, offers backed by escrowed
lamports, plain and reserved auctions, and the fee split among team treasuries
and royalty creators; of the client library and the command line that drive it
(`lib/`, `cli/`); and of the back end script that reads its transactions. TLC
checks small instances; TLAPS proves, for every value of the constants, the
safety of the program (treasuries, types, custody, payouts, the vault, bids and
escrow balances), that it implements abstract specifications of ownership and of
the team, what the client's scans show, that the command lines and the program
together only do what the program alone may do, and that the back end reports
what they did.

Line numbers without a file are of `programs/Mds_Marketplace/src/lib.rs`.

## 1. The system

### Components

| component | where | state | operations |
|---|---|---|---|
| account layouts | `account.rs`, `constants.rs` | `GlobalPool`, `SellData`, `OfferData`, `AuctionData`, `UserData` | `get_end_date` |
| global pool, treasuries | lib.rs 22-115 | fee, up to 8 slots (address, rate), `team_count`, super admin | `initialize`, `update_fee`, `add_team_treasury`, `remove_team_treasury` |
| listings and sales | 124-628 | one `SellData` per mint | `init_sell_data`, `list_nft_for_sale`, `delist_nft`, `set_price`, `transfer`, `transfer_from_vault`, `purchase` |
| escrow of lamports | 117-122, 630-700 | `UserData` per user; one vault PDA for all | `init_user_pool`, `deposit_to_escrow`, `withdraw_from_escrow` |
| offers | 702-1045 | one `OfferData` per mint and buyer | `init_offer_data`, `make_offer`, `cancel_offer`, `accept_offer` |
| auctions | 1047-1592 | one `AuctionData` per mint | `init_auction_data`, `create_auction`, `place_bid`, `claim_auction`, `update_reserve`, `cancel_auction` |
| fee split | inside 508-592, 941-1007, 1361-1427 | none | seller, treasuries and creators paid in this order |
| interface | `target/types/mds_marketplace.ts`, copied to `lib/` and `target/idl/` | none | accounts and arguments of each instruction, account layouts |
| client library | `lib/scripts.ts`, `lib/utils.ts`, `lib/types.ts` | none: what it reads it uses at once | one reader per account, three scans, one transaction builder per instruction |
| command line | `cli/command.ts`, `cli/scripts.ts` | where each command waits, the treasuries it read | 28 commands: options, then reads, creations, one instruction, and their confirmations |
| back end parser | `cli/be.ts` | none | `getDataFromSignature` |

### How they interact

Every instruction names its accounts; PDAs are derived from the mint, the
signer or a fixed seed, so the seeds decide which account it is, and handlers
compare the stored key again. Instructions of any number of users reach the
program in any order the cluster chooses; each runs alone and to its end, or
is undone as a whole. What is shared between components:

* the token account of the PDA `global-authority`, which holds an NFT for its
  listing **and** for its auction: `SellData.active`, `AuctionData.status` and
  the place of the token have to agree, and no handler looks at all three;
* the PDA `escrow-vault`, one balance for all users' escrow and all bids;
* the treasury slots, read by every sale;
* the clock, in seconds, which many instructions share.

Outside the program, any number of terminals run commands. A command reads
accounts, builds a transaction from what it read, lets the node simulate it,
sends it and waits. The transaction lands later, or never, and meets another
state than the one it was built from; the accounts and arguments it carries are
all that is left of the old state. The back end looks only at transactions
that have landed: positions of accounts, bytes of arguments and inner transfers.

### What is hard

* **Order of instructions.** A listing and a reserved auction of one NFT can be
  open together. A first bid, a purchase, an accepted offer, a delisting and a
  cancellation race, and each has to end exactly what the others rely on.
* **One vault for everybody.** Refunds, withdrawals, claims and accepted
  offers all pay from it; remainders of rounded shares stay in it.
* **Accounts named by the caller.** A sale pays the accounts its transaction
  lists: they are counted, the treasuries compared, and each other one paid as
  often as it stands there and is a creator's.
* **The end of an auction.** Three handlers compare the clock with the end date.
* **Reused records.** Neither listing, offer nor auction accounts are ever
  closed: old dates, prices, bidders and slots stay and are read again.
* **Aliasing.** A user can trade with himself: two copies of one account.
* **Arithmetic.** Truncating shares, subtraction without comparison, u64 and
  i64 sums, with or without overflow checks.

* **Old snapshots.** Payees, out-bidder, seller and missing token accounts are
  read when a transaction is built and compared, or not, when it lands.
* **Confirmations.** A confirmation tells that a transaction landed and not that
  it worked; it can time out although the transaction still lands.
* **Check, then create.** Two terminals find an account missing and both create it.
* **Numbers written out.** Scans and parser know sizes, offsets, positions and
  prefixes that nothing ties to the layouts they came from.

There is no crash recovery to model: the ledger is the only state, and an
instruction is atomic. A terminal that is stopped is one whose await throws.
`PROJECT.json` lists each hazard at its line.

### What makes each component correct

| component | correct when | stated as |
|---|---|---|
| treasuries | payees distinct, rates within the whole, an update touches one payee; all that counts is who gets how much | `PayeesDistinct`, `RatesWithinWhole`, `OnePayeeAtATime`, `TeamImplemented` |
| fee split | whoever is named, a sale pays out at most its price, with two exceptions it names | `PayoutWithinPrice` |
| listings and auctions | an NFT is in escrow exactly while promised; listing and auction coexist only as one user's reserved pair; a reserved auction has no bid | `EscrowCustody`, `OnlyReservedWhileListed`, `ReservedHoldsNoBid` |
| ownership | an NFT changes its owner only by his gift or sale, and past a bid only to the last bidder | `OwnershipImplemented` |
| auctions | outbid means refunded; the end is final; a started auction is settled | `OutbidIsRefunded`, `EndIsFinal`, `AuctionSettles` |
| escrow and offers | nothing takes from the vault what it owes, with two exceptions; a balance is spent by its owner, or for his own standing offer | `SurplusKept`, `EscrowSpentByOwner` |
| client library | a transaction built from an old state does what the program does now, or nothing; a sale pays the treasuries of now and each creator once; scans show what is on the market | `MarketImplemented`, `SalesPayThoseOfNow`, `EscrowIsVisible`, `AcceptableOffersShown` |
| command line | no amount moves twice; accounts exist before they are used; commands end | `DepositedOnce`, `CreatedBeforeUse`, `CommandsReturn` |
| back end parser | an activity tells what its transaction did | `ActivityTellsTheStep` |

## 2. The modules

```
Accounts -- TeamTreasury -- Payments -- Marketplace -- MarketProperties -- MCMarket
               |               |          |               |    |             |- MCCustody
               |               |          |               |    MCTreasury    |- MCOffers
               |               |          |               |                  |- MCVault
               |               |          |               |                  '- MCCommands
     Interface ....... Readers -- Client -- Builders -- Cluster -- Commands -- CommandProperties
         :                |                                          :             |
         :          ReaderProperties -- MCStartup, MCOffers   CommandLine      Tracking
         :........................................................................: BackEnd

     NftOwnership: instantiated by MarketProperties; TeamShares: by TeamTreasury

proofs:  Sums -- SumTheorems -- TreasuryProofs -- PaymentProofs -- MarketplaceProofs
                    OwnershipProofs and VaultProofs -- MarketplaceProofs
                    CommandProofs -- VaultProofs, CommandProperties
                    ReaderProofs -- CommandProofs, ReaderProperties, Tracking
```

A line is EXTENDS, dots are INSTANCE; `MCCommands` puts `Tracking` on
`MCMarket`.

* **Accounts**: keys, u64 and i64 with the largest values as constants, and the
  account layouts. `Computes(x)` says a u64 result can be computed (it traps
  otherwise, or the build does not check), `Wrapped(x)` is what is stored. An
  account never initialised is its zeroed record.
* **TeamTreasury**: the pool and its four instructions. `DropSlot` is one
  match of the removal loop, `RemovalLoop` the loop, which runs to the *old*
  count and does not stop at a match.
* **TeamShares**: what the treasuries promise, without slots: a set of members
  with shares, limited in size, of at most the whole together. `TeamTreasury`
  maps the slots in use to it (`Payees`).
* **Payments**: the legs of a sale and their execution one after another.
  `purchase`, `accept_offer` and `claim_auction` contain three copies of this
  code that differ only in the payer.
* **Marketplace**: all other instructions. `XAccounts` is the accounts struct
  `X`; one action per handler, guarded by its `require!`s, its `init`, its
  transfers and its arithmetic.
* **MarketProperties**: what is checked and proved of the program.
* **NftOwnership**: the abstract specification. An NFT has an owner, and is
  free, for sale or bid for; no accounts, escrow or money. `MarketProperties`
  maps the marketplace to it: the owner of an NFT in escrow is the seller of its
  listing or else the creator of its auction, an auction with a bidder is "bid
  for", anything else in escrow "for sale".
* **Interface**: the Anchor interface as data: the accounts of each instruction
  in order, its arguments and the fields of the accounts with their widths, from
  which `Size`, `Offset` and `Extent` compute what other code has written out.
* **Readers**: the readers of one account and the three scans of
  `lib/scripts.ts`, which filter by size, read byte ranges, and throw at a
  number past 53 bits.
* **Client**, **Builders**: addresses and the lookup of token accounts, and one
  operator for each of the 24 `create...Tx`. A builder yields the instruction,
  the named accounts, the arguments, the remaining accounts and the token
  accounts it creates first; or nothing, when it throws, which an account
  missing from the interface's list also makes it do.
* **Cluster**: a transaction lands. `AccountsFit` compares the accounts it names
  with the seeds and token accounts of now; `Run...` hands its arguments to the
  instruction of `Marketplace`, with the payees and the out-bidder it names.
* **CommandLine**: what each command makes of its options.
* **Commands**: the functions of `cli/scripts.ts`, await by await, for several
  terminals; transactions land late, in any order, or expire.
* **Tracking**, **BackEnd**: what the RPC node tells of a transaction that
  landed, and `getDataFromSignature`, case by case.
* **CommandProperties**, **ReaderProperties**: what those promise.
* **Sums**: the sum of a function over a finite set, by a recursive function.

| variable | code |
|---|---|
| `global_authority` | the `GlobalPool` account |
| `now` | `Clock::get()?.unix_timestamp` |
| `user_pool[u]`, `sell[m]`, `offer[m][u]`, `auction[m]` | the PDAs of user `u`, mint `m` |
| `lamports` | balances of the wallets and of the escrow vault |
| `holder[m]` | the owner of the token account with the NFT |
| `atas`, `aux` | the associated token accounts that exist; the NFTs that lie in another account of their owner |
| `run[t]` | the command of terminal `t` and its await, the treasuries it read, what is typed there |
| `flying` | transactions sent, neither landed nor expired |

### Abstractions

* A failing instruction changes nothing, so it is an action that is not
  enabled; which error it reports is left out.
* Seeds, bumps, rent, network fees, logging, collection keys and the closing of
  empty token accounts are left out. With rent go the vault's rent-exempt
  minimum and a creation that fails because its payer cannot pay for it, also
  one whose payer was emptied between the simulation and the landing.
* A user's token accounts of one mint are one place.
* `Purchase`, `AcceptOffer` and `ClaimAuction` let the caller name any accounts
  the program takes (`RemainingLists`): the treasuries in use, which it compares,
  then as many wallets as there are creators, whoever they are. `PurchaseNaming`
  and its like are the same with a given list, which is what a landing
  transaction brings; the repository's client lists the treasuries it read and
  each creator once (`NamedPayees`; `lib/scripts.ts` 929-943, 1154-1168,
  1420-1434).
* `Metadata` is constant and obeys the token metadata program's limits, 10000
  basis points and shares up to 100.
* The wallet that signs and pays for `init_sell_data` and the like is left out:
  anyone may.
* All reads of one builder are one snapshot, except the treasuries, which the
  command read an await earlier. Commitment levels are left out: reading an
  older, finalized state is a read made earlier.
* Sending fails when the node's simulation of the transaction fails
  (`Executable`), so a transaction in flight worked in the state it was
  sent in. One that fails when it lands changes nothing.
* A user's associated token accounts are never closed; the program closes the
  escrow's own when an NFT leaves.
* The product of doubles that makes lamports of SOL is exact or one lamport
  short. Keys typed by the user are taken to parse.
* Instruction data is its discriminator, its length and its fields: a base58
  prefix of fixed width depends on the first two.

`OverflowChecks` is a constant because the repository sets
`overflow-checks = true` in the profile of a workspace *member*
(`programs/Mds_Marketplace/Cargo.toml:19`), which cargo takes from the
workspace root only, and the root has no profile: a release build wraps. The
passing runs are of this unchecked build, except `commands`, whose
`DepositedOnce` the run `overdraft` would break, and so are the proofs, except
those marked in section 4. The other runs that refute something have the checks
on, so that what they show is not an overflow.

## 3. The runs

Behaviours of `custody`, `offers` and `vault` begin after deployment
(`DeployedInit`): the pool is configured and the PDAs exist, a state the
creation instructions reach; `startup` and `commands` explore the creation
itself.

| run | checks | instance |
|---|---|---|
| `treasury` | `TreasuryTypeOK`, `PayeesDistinct`, `RatesWithinWhole`, `OnePayeeAtATime`, `TeamImplemented`, `PayoutWithinPrice` | 3 slots, 4 candidate payees, 2 signers, rates that hit, miss and exceed the whole; at each pool royalties of 0, 7.77 and 100 percent, 5 prices, and all lists of 2 named accounts |
| `startup` | `TypeOK`, `CustodyInv`, `OwnershipImplemented`, `EscrowIsVisible` | empty ledger, 2 users, 1 NFT, all instructions interleaved but offers, which need a second price |
| `custody` | `EscrowCustody`, `OnlyReservedWhileListed`, `ReservedHoldsNoBid`, `OutbidIsRefunded`, `EndIsFinal`, `OwnershipImplemented` | 3 users, 1 NFT, 3 seconds, durations 0 and 1, prices 2 and 3, minimum increase 0 and the largest u64 (wraps) |
| `offers` | `SurplusKept`, `EscrowSpentByOwner`, `AcceptableOffersShown` | 2 users with 200 lamports and one sale each, prices 100 and 200 with fees that leave remainders, deposits and withdrawals of the same sizes, 2 creators and every list of 2 named accounts |
| `vault` | `SurplusKept`, `AuctionSettles` | 3 users, 2 NFTs in auctions at once and one after another, an escrow balance beside them, 2 creators of one NFT and none of the other, every list of named accounts, fairness |
| `trading` | `ActivityTellsTheStep`, `MarketImplemented`, `OutbidIsRefunded`, `SalesPayThoseOfNow` | 4 terminals, five sessions (below), prices that leave remainders |
| `commands` | `DepositedOnce`, `CreatedBeforeUse`, `CommandsReturn` | 2 terminals, two sessions, fairness |
| `reserve_price`, `relist`, `overdraft`, `listings_reported`, `vault_transfer` | one disagreement each | as `custody`, `offers` and the sale session |

A *session* fixes who types which lines and how often. In `Sale`, ann lists,
changes the price, delists, transfers or accepts while bob offers and buys, two
lines each, the NFT in her associated token account or in another one; in
`Bidding`, two rivals bid on a plain or a reserved auction; in `Reserve`, a
listing beside a reserved auction is delisted, updated or cancelled while it is
bid for and claimed; in `Beside`, one user lists, creates a reserved auction
beside the listing and ends one of the two, so that instructions leave the NFT
where it is; in `Reform`, the admin changes payees and fee twice while a listing
is bought and an offer accepted. In `Saving`, two users deposit, withdraw and
mistype; in `Founding`, they create and use accounts from an empty ledger. At
every await any terminal may go on, a transaction may land or expire, and a
confirmation may give up.

**Bounds.** `MaxTime` stops the clock, `MaxVolume` stops a user's traded
volume (and so the number of sales), `most` stops a terminal, `PriceInput`,
`MinIncreaseInput` and `DurationInput` are the arguments tried, `MaxU64`,
`MaxI64` and `MaxSafe` scale the widths of u64, i64 and of exact doubles, and
`MaxTeam` the 8 slots. Three slots make every kind of removal happen
(first, middle, last, and one after another). Three users are a seller and two
rivals, so an outbid bidder and his successor differ from the creator; two NFTs
are what sharing of the vault needs, and two users what offers need, since both
may take either side or both sides of a sale. Three seconds let an auction
start, end and be followed by another, and let several instructions share a
second. Custody statements do not depend on prices, which is why that run has
tiny ones, while the money runs use prices whose shares all round. In the
sessions each seller and buyer has two lines because the hazards are pairs: an
old snapshot needs one command between the reading and the landing of another,
a double deposit one retry. `PriceInput` lists each price and one lamport less
there. The clock and session bounds leave states with nothing to do, so the
market and command runs do not check deadlock. Symmetry is over users that the
initial states and constants treat alike, and in runs without liveness only.

**Fairness.** `PartiesAct` assumes that the clock runs on (`Tick`) and that a
winner, through the client (`ClaimByClient`), or the creator of an auction
without bids sends his claim or cancellation again until it succeeds: weak
fairness of each. No other user is assumed to do anything. That assumption is
about people, and the property's content is the other half: nothing anybody
else does takes away what the claim needs. It has two exceptions, both of which
the instance contains. `create_auction` looks neither at the creators nor at the
royalty of the NFT, so that there are auctions whose sale can never settle
(`CannotSettle`); and a vault that was drained cannot pay. In `vault` every user
pool and a treasury exist. A bidder without a user pool has to create it first,
and when the admin has removed the last treasury the claim waits for another
one (1347).
`TerminalsFairness` assumes that the cluster answers each await or the
connection throws (`Step`), and that `confirmTransaction` gives up in the end
(`Confirm` or `TimeOut`), as web3 does after its timeout. It assumes neither
that a transaction lands nor that anybody types.

### What the runs show

All passing properties hold. `SurplusKept` and `PayoutWithinPrice` say exactly
in which cases the program pays out more than it may: a creator who is named
twice is paid twice (571-589, 986-1003, 1407-1424); where royalty and market fee
exceed the price, the seller's amount wraps; and a withdrawal above the balance
goes through. The repository promises nothing about the first two. Five runs
refute what it does say:

* `reserve_price`: `update_reserve` raises the start price from 2 to 3 and a
  first bid of 2 is accepted: bids are compared with `highest_bid`, computed
  from the old start price (1102, 1494). README.md:107 calls `start_price` "the
  bidding start price".
* `relist`: an offer names its listing by a date in seconds. A listing
  cancelled and renewed in one second takes over the offers on the first
  (891-894), which `error.rs:90` names as a refused case.
* `overdraft`: a withdrawal above the balance succeeds while others' lamports
  are in the vault, and the balance, which `user_status` shows (README.md:69),
  grows to nearly the largest u64 (697). `programs/Mds_Marketplace/Cargo.toml:19`
  asks for the overflow checks that would refuse it, where cargo does not look.
* `listings_reported`: the parser's prefixes of `list_nft_for_sale` and
  `create_auction` (`cli/be.ts:30`, `42`) belong to data one byte shorter, from
  before a third bump was added. A listing or an auction is never recognised,
  where README.md:155 has an activity parsed "from each Txs".
* `vault_transfer`: `createTransferFromVaultTx` (`lib/scripts.ts:645`) leaves
  out the auction data account the interface lists, so `transfer` of a listed
  NFT, which README.md:73 describes, cannot be built.

Met on the way, and not given a run of their own: a bid equal to the latest bid
plus the minimum increase is accepted (1170; README.md:115 says "more than");
the parser reports a transaction that failed like one that worked, since it
never reads `meta.err` (`cli/be.ts:70`); it throws on one that created a token
account and then failed, which has one inner entry and is read at the next
(`cli/be.ts:103`); `get_all_offers_for_nft` also shows offers on listings that
have ended (`lib/scripts.ts:107`; README.md:142 says "active for accept now");
`create_auction` ends with an error without the option `reserve`
(`cli/command.ts:400`; README.md:110 says "Default 0"); one listing at a price
above 2^53, or one auction whose start price or wrapped `highest_bid` is, makes
the scan of all of them throw (`lib/scripts.ts:39`, `176`); with a minimum
increase near 2^64 a bid can replace a higher one, as the sum wraps (1170); and
in the parser's case of listings the price would be read one byte early, if it
were ever reached (`cli/be.ts:138`).

## 4. The proofs

| theorem | states | module |
|---|---|---|
| `TreasuryTypeCorrect`, `PayeesStayDistinct`, `RatesStayWithinWhole` | the invariants of the pool | TreasuryProofs |
| `OneTreasuryAtATime` | the action property of the pool | TreasuryProofs |
| `TreasuryImplementsTeam`, `MarketKeepsTeam` | `=> TeamImplemented`, of the pool's specification and of the program's | TreasuryProofs, MarketplaceProofs |
| `SettlementIsSale` | what is paid to the accounts a client named, once they pass the program's comparison, is what treasuries and creators are due now, each once | PaymentProofs |
| `TypeCorrect` | `Spec => []TypeOK` | MarketplaceProofs |
| `PoolStaysWellFormed` | the pool's invariants in the whole program | MarketplaceProofs |
| `CustodyHolds`, `EscrowCustodyHolds`, `OnlyReservedIsListed`, `ReservedAuctionsHoldNoBid` | `Spec => []CustodyInv` and its parts | MarketplaceProofs |
| `EndOfAuctionIsFinal` | `Spec => EndIsFinal` | MarketplaceProofs |
| `MarketplaceImplementsOwnership` | `Spec => OwnershipImplemented` | OwnershipProofs |
| `PayoutStaysWithinPrice`, `SurplusAlwaysKept` | `Spec =>` `[]PayoutWithinPrice`, `SurplusKept` | VaultProofs |
| `VaultAlwaysCovers` | `[]VaultCovers` of behaviours without overpaid sales and overdrafts | VaultProofs |
| `OutbidAlwaysRefunded`, `EscrowOnlySpentByOwner` | `Spec =>` `OutbidIsRefunded`, `EscrowSpentByOwner` | VaultProofs |
| `ScansShowEscrow`, `EscrowStaysVisible` *, `AcceptableOffersStayShown` | what the scans show, if they answer; that they do answer, `[]EscrowIsVisible`; `[]AcceptableOffersShown` | ReaderProofs |
| `CommandsImplementMarket` | terminals and cluster from any state of `MarketInv` `=> MarketImplemented` | CommandProofs |
| `SystemImplementsMarketplace` | terminals and cluster from an empty ledger `=> Spec`, so that all of the above holds of them | CommandProofs |
| `DepositsPaidOnce` * | terminals and cluster, with empty balances `=> []DepositedOnce` | CommandProofs |
| `AccountsCreatedBeforeUse` | terminals and cluster `=> []CreatedBeforeUse` | CommandProofs |
| `EscrowAccountsKept` | terminals and cluster `=> []EscrowAccounts`: the escrow has a token account for exactly the NFTs it holds | CommandProofs |
| `ActivitiesTellTheStep` | terminals and cluster `=> ActivityTellsTheStep` | ReaderProofs |
| `SalesAlwaysPayThoseOfNow` | terminals and cluster `=> SalesPayThoseOfNow` | ReaderProofs |
| `ListingsNeverReported` | terminals and cluster: the parser finds nothing in a listing or a new auction, in whatever state it lands (`listings_reported` finds one) | ReaderProofs |

They assume the named assumptions of the modules, which TLC evaluates in every
run: keys differ and inputs have their widths; metadata is within the limits
the token metadata program enforces, 10000 basis points, shares of at most 100
together (`SharesAssumption`) and no creator twice (`CreatorsAssumption`);
users and NFTs are finitely many (`PopulationAssumption`), as a sum over all of
them needs; a double holds the flags of the layouts (`MaxSafeAssumption`);
every terminal signs as a user (`TerminalsAssumption`). `MaxTeam`, all widths,
the sets of users, wallets, mints and terminals, prices and times are arbitrary.

Theorems with a * have the hypothesis `OverflowChecks`, and it is needed: without
it an overdraft leaves a balance nearly as large as a u64 holds, and a minimum
increase above the start price a `highest_bid` no double holds. The others hold
in every build. The scans assume
`InputsReadable`, that everybody types numbers a double holds. The theorems
about the command line assume `LinesFit` of what is typed: its options, once
converted, are among the keys and inputs the model ranges over; the theorem
quantifies over those inputs anyway. `DepositsPaidOnce` assumes that no two
terminals sign with one wallet, whose deposits would add up. `EscrowAccountsKept`
and the theorems about the parser start from any state of `MarketInv`,
`CustodyInv` and `EscrowAccounts`; an initial state in which only users have token
accounts is one (`EscrowStart`), and so are those the `trading` run begins with.

*Treasury.* The invariant is `TreasuryInv`: the type, distinct payees, rates
within the whole. Distinctness is needed for the sum: only because the removed
address occurs in one slot does the loop drop exactly one rate, although it
runs on over stale slots (`RemovalDropsOne`). That moving the last slot keeps
the sum minus the removed rate is `DropSlotSum`, from `SumTheorems`, which
proves the recursive `Sum` equal to its unfolding by induction on subsets
(its first lemmas derive the needed form of induction from a well-founded
relation, without an operator parameter).

*Team.* `TeamStep` maps every instruction to one step of `TeamShares`. Its team
is the image of the slots in use, so that its total and its size are the sum
over the slots and their count only because no two slots hold the same payee
(`PayeesCount`, from `SumImage`: renaming keeps a sum). Initialize maps to a step
that changes neither fee nor team because an account not yet initialised has
neither, which is part of `TreasuryInv`. The whole program implements the pool's
specification, as everything else leaves the pool alone (`TradingLeavesPool`).

*Types.* `MarketInv` is `TypeOK` with the treasury invariant. The work is in
`PaymentProofs`: that every leg is a natural amount to a wallet, and that a
sequence of payments, each of which its payer can afford, keeps every balance
natural (`PaidAllType`). `TypeOK` alone is not inductive: payees in use must be
wallets, not zeroed keys.

*Custody.* `EscrowCustody` is not inductive: `delist_nft` looks at the auction's
status but not at its bids, `create_auction` at no status at all, and
`cancel_auction` at the listing's seller. `CustodyInv` adds that an open
auction beside a listing is reserved and of the same user, that a reserved
auction has no bid, and that sellers and creators are users. Each instruction
changes one mint, so `CustodyOfOne` reduces a step to that mint; the two
lemmas `ListingCustody` and `AuctioningCustody` go through the instructions.

*Ownership.* `MarketplaceImplementsOwnership` states `Spec =>
Ownership!Spec`. The mapping is well-founded only under `CustodyInv`: without
`OnlyReservedWhileListed` an NFT listed by one user and auctioned by another
would have two owners, and without `ReservedHoldsNoBid` a sale of a listing
would be a trade past a bid. The proof has a lemma for each group of
instructions: what it does to the owner, the stage and the last bidder of its
one mint, and which abstract action that is, or none.

*Payouts.* Every share is a truncated product, so the treasuries' shares are at
most the market fee on the price, since their rates add up to at most the whole
(`TreasuryInv`), and the creators' at most the royalty, since their shares do.
The accounts behind the treasuries are arbitrary. That each creator stands there
at most once maps the accounts that are paid one to one into the creators
(`NamedTotal`, from `SumParts` and `SumImage`), and those that are nobody's are
paid nothing. What is left to show is that fee and royalty fit in the price: a
checked build refuses the sale where they do not, because the seller's amount is
a subtraction, and `FeesLeaveRest` names the condition otherwise, at which
`update_fee` never looks.

*Vault.* `Surplus` compares the vault with two sums over all users and NFTs,
so each instruction is reduced to the one balance and the one bid it changes
(`SumUpdate`). `claim_auction` and `accept_offer` need that payouts stay within
the price, or are overpaid; a withdrawal, that the balance is not wrapped, or
overdrawn; `create_auction`, which writes over an auction without looking at
its bid, needs `CustodyInv`: a reserved auction holds no bid, and an open
auction that is not reserved keeps the NFT in escrow. A payment that wraps a
balance lowers it, which the surplus only gains by. `VaultAlwaysCovers` is
`SurplusKept` from an empty vault.

*Auctions.* `EndOfAuctionIsFinal` and `OutbidAlwaysRefunded` look at the steps that
change an auction which has started. `CustodyInv` and `AuctionsExist` (an auction
account is created once) exclude a new auction over it and the end of a
listing beside it; that leaves bid, claim and cancellation, and the three
compute the same end date.

*Escrow.* `EscrowOnlySpentByOwner` goes through the instructions that touch a
balance. An accepted offer is the hard case: buyer and seller may be one user,
whose two copies of the account are written back one after the other
(`AcceptMoves`).

*Scans.* `EndsAddUp` and the layout lemmas compute the offset of every field from
the interface, so that the byte ranges of `lib/scripts.ts` are the fields they
are meant to be, and `SizesTellKinds` shows that the sizes filtered by tell the
kinds of account apart. What else is needed is that the records name their own
NFT (`RecordsExist`) and that the numbers stay within 53 bits
(`NumbersReadable`), which a price beyond them breaks in every build and a wrapped
`highest_bid` in an unchecked one.

*Whole system.* `TerminalsInv` says of every run and of every transaction in
flight that what it carries was typed or read (`TxFits`): one lemma for each
builder, one for each command. When a transaction lands, `ExecuteRuns` finds the
instruction of `Marketplace` it is. Treasuries read earlier are settled by
`ClientListFits`: if they pass the comparison, the list is one the program takes
now and that of the treasuries of now (`SalesAlwaysPayThoseOfNow`), and by
`SettlementIsSale` it pays each payee once. A bid whose out-bidder
has changed is refused.

*Deposits.* The invariant `PaidOnce` counts: a terminal's `Room` is the number of
commands it started, less its paying transactions that may still land, less one
if its command may still send one. No balance exceeds its owner's room times
the largest amount. A start makes room for one; sending takes the place kept
for it, because a paying transaction is the last of its command (`StepAwaits`
goes through the commands for this); a time-out only frees places; and a
landing frees the one it pays into (`BalanceGrowth`). The bound would not be
inductive without the transactions in flight: the deposit of a command that has
already thrown may still land.

*Accounts before use.* A command that finds an account missing sends its creation,
waits, and then uses it. `Prepared` says of every run, with the transactions it
still has in flight, that the accounts it has passed by exist (`Ready`), or that
it waits for the creation of the next one (`Awaited`), and then that creation is
in flight, or has landed and the account exists, or has not been sent. A confirmation
only says that the transaction has landed, perhaps without effect. What saves the
command is a lemma about the creations: one that fits can fail when it lands only
because somebody else created the account in between (`CreationLands`), and no
account is ever closed (`NextStays`). Transactions carry the number of their sending,
so that the creation of an earlier command, which lands late, is not taken for
the one awaited. `CreatedBeforeUse` alone speaks of the last step only.

`Executable` of a creation is `ENABLED Execute` written out, which no prover here
could expand: an account is created if it does not exist.

*Token accounts.* A transaction creates the recipient's token account if it found
none when it was built. That the escrow's exists exactly while the escrow holds the
NFT (`EscrowAccounts`) needs three more facts, in the invariant `FlightInv`. A
transaction in flight that takes an NFT into escrow names the escrow's account and
takes the NFT from its owner's associated account or else brings the creation of
the escrow's account along (`TxBuilt`, one lemma for each builder); a seller whose
listing stands beside a reserved auction has an account to get the NFT back
in; and `CustodyInv` says where the NFT is. Initially users have all the token
accounts there are, which is `EscrowAccounts` (`EscrowStart`).

*Activities.* The parser finds the first instruction it has a prefix for, and takes
as its calls the entry of the same *index* in a list in which only instructions that
called others have one. With a token account created first both indices are off by
one, so it never throws exactly if whatever creates an account calls out too
(`CreatesFew`): listing and auctioning call nothing when the NFT is in escrow
already, and then `EscrowAccounts` says that the escrow's account exists; delisting
and cancelling call nothing when the NFT stays, and then its seller has an account.
Positions and byte ranges are those of the interface (`KeysInOrder`,
`NumbersCutOut`). The price is the sum of the transfers whose source stands at
a fixed position; of a sale it is the total of the legs (`LegsTransferred`),
which is what its payer is left with less, if he is not a payee himself
(`BuyerSpends`, `VaultSpends`), and of a bid it leaves out the refund
(`SecondTransfer`), because the vault is nobody's wallet. One lemma for each
instruction (`PurchaseTold`, ...) puts these together; trades have nonces of the
right length (`TradesKnown`), listings and auctions do not (`ListingsUnknown`).

**Only model-checked.** `AuctionSettles` and `CommandsReturn` are liveness under
fairness, out of the provers' reach. Everything else the passing runs check is a
theorem.

## 5. Not modelled

* Error codes and messages, and which of several errors is reported.
* The tests, which are written for an older set of arguments, and the empty
  migration.
* Helpers that nothing calls: `getTokenAccount`, `airDropSOL`,
  `getTokenAccountBalance`, `getEscrowBalance`, `getGlobalNFTBalance`.
* `getAllTransactions` of `cli/be.ts`, which calls the parser once for each
  signature and prints; time stamps and signatures in activities.
* The option that chooses a cluster, and all output.

## 6. Plan

1. Done: the program, its runs, the treasury, type and custody theorems.
2. Done: `NftOwnership` and its refinement, by TLC and by proof.
3. Done: the client, the command line and the parser, composed with the program.
4. Done: `SettlementIsSale`, and on it the theorems about the whole system.
5. Done: payouts, the vault, refunds, the end of auctions, escrow balances, the
   scans, and deposits that land late.
6. Done: `TeamShares`, the treasuries without slots, and its refinement.
7. Done: accounts before use, token accounts in flight, and what the parser makes
   of a transaction.

## 7. Running

```
tlc -config MCCustody.cfg MCCustody.tla
tlc -config MCTrading.cfg MCCommands.tla
tlapm OwnershipProofs.tla
tlapm CommandProofs.tla
```

The largest runs, `trading` with about 1,000,000 states and `custody` with
590,000, take one to two minutes; `offers`, with every list of accounts in every
sale, takes about three.
