----------------------------- MODULE Contracts -----------------------------
(***************************************************************************)
(* The contracts written with the SDK: erc721, the payment contract with   *)
(* its replay cache, 0x, public_auction, payment_channel, atomic_swap, the *)
(* token of Sdk and the market maker of Cfmm.                              *)
(*                                                                         *)
(* The calls of one block all run on the state that the block before left, *)
(* and the deltas that they make are merged, so a contract is correct only *)
(* if no two of its calls that can be in one block, on a state that        *)
(* neither has changed, do together what neither may do after the other.   *)
(***************************************************************************)
EXTENDS Cfmm

CONSTANTS Accounts,    \* accounts and contracts
          Calls,       \* for each scene, the calls that may be in its blocks
          Start,       \* for each scene, the storage it starts with
          PriceUnit,   \* 2^32
          ChallengeTime, \* blocks in which a channel's closing is challenged
          MaxHeight    \* for each scene, the blocks in a behaviour

\* expiration_time, start_round and end_round are of type uint64_t.
ASSUME ContractsAssumption ==
    /\ MaxInt \in Nat \ {0}
    /\ DOMAIN Start = DOMAIN Calls
    /\ \A s \in DOMAIN Calls : \A k \in Calls[s] :
         /\ k.method = "transfer" => k.expiration_time \in Nat
         /\ k.method = "execute" => k.start_round \in Nat /\ k.end_round \in Nat
    /\ \A s \in DOMAIN Start : \A key \in DOMAIN Start[s] : IsObject(Start[s][key])

VARIABLES scene,    \* which contract the behaviour is about
          executed, \* history: how often each of the Counted calls was executed
          doubled   \* history: what two calls of the last block both took

block_vars == <<scene, needs_allowance, committed, height, executed, doubled>>

-----------------------------------------------------------------------------
(* erc721, with one object                                                 *)

OwnerKey == <<"nft", "owner">>
OperatorKey(owner, op) == <<"nft", "operator", owner, op>>
ApprovalKey == <<"nft", "approval">>

set_approval_for_all(C, sender, op, approve) ==
    int64_set_add(C, OperatorKey(sender, op), IF approve THEN 1 ELSE 0, 0)

approve_one(C, sender, approved) ==
    get_raw_memory(C, OwnerKey, LAMBDA D, owner :
      set_raw_memory(
        Require(D, LAMBDA c : sender = owner \/ int64_get(c, OperatorKey(owner, sender)) # 0),
        ApprovalKey, approved))

transferFrom_nft(C, sender, from, to) ==
    get_raw_memory(C, OwnerKey, LAMBDA D, owner :
      LET valid == Require(D, LAMBDA c : /\ owner = from
                                         /\ \/ int64_get(c, OperatorKey(owner, sender)) # 0
                                            \/ owner = sender)
      IN  acquire_transient(delete_last(set_raw_memory(valid, OwnerKey, to), ApprovalKey),
                            <<"nft", "semaphore">>))

RunNft(C, call) ==
    CASE call.method = "approve" -> approve_one(C, call.sender, call.approved)
      [] call.method = "approveAll" -> set_approval_for_all(C, call.sender, call.op, call.auth)
      [] call.method = "transferFrom" -> transferFrom_nft(C, call.sender, call.from, call.to)
      [] OTHER -> {}

-----------------------------------------------------------------------------
(* payment_experiment/payment.cc: a wallet                                 *)

init_wallet(C, self, token, pk, size_increase) ==
    LET once == Require(acquire_semaphore(C, <<self, "init">>, 1),
                        LAMBDA c : ~has_key(c, <<self, "token">>))
        set == set_raw_memory(set_raw_memory(once, <<self, "token">>, token), <<self, "pk">>, pk)
    IN  hashset_increase(allowance_delta(set, token, self, self, MaxInt),
                         <<self, "replay_cache">>, size_increase)

transfer_wallet(C, self, call) ==
    LET fresh == record_self_replay(C, self, call, call.expiration_time)
    IN  get_raw_memory(auth_single_pk_check_sig(fresh, self, call.signer), <<self, "token">>,
                       LAMBDA D, token : transferFrom(D, token, self, self, call.to, call.amount))

RunWallet(C, call) ==
    CASE call.method = "init" -> init_wallet(C, "wallet", call.token, call.pk, call.size_increase)
      [] call.method = "transfer" -> transfer_wallet(C, "wallet", call)
      [] OTHER -> {}

-----------------------------------------------------------------------------
(* 0x: the hash of an offer is the offer                                   *)

OfferBalance(offer) == <<"zerox", "balance", offer>>
OfferConfig(offer) == <<"zerox", "config", offer>>

\* A price is in units of 1 / PriceUnit.  The product is unsigned and wraps; the
\* fraction is rounded up.
get_buy_amount(sell_amount, price) ==
    LET prod == (sell_amount * price) % (MaxUint + 1)
    IN  {prod \div PriceUnit + (IF prod % PriceUnit = 0 THEN 0 ELSE 1)}

\* Mutant of create_offer: an offer that stands may be created again.
create_offer_Again(C, offer) ==
    LET once == acquire_transient(C, <<"zerox", "semaphore", offer>>)
        set == set_raw_memory(once, OfferConfig(offer), offer)
    IN  transferFrom(int64_set_add(set, OfferBalance(offer), offer.sellAmount, 0),
                     offer.sellToken, "zerox", offer.owner, "zerox", offer.sellAmount)

create_offer(C, offer) ==
    LET once == Require(acquire_transient(C, <<"zerox", "semaphore", offer>>),
                        LAMBDA c : ~has_key(c, OfferConfig(offer)))
        set == set_raw_memory(once, OfferConfig(offer), offer)
    IN  transferFrom(int64_set_add(set, OfferBalance(offer), offer.sellAmount, 0),
                     offer.sellToken, "zerox", offer.owner, "zerox", offer.sellAmount)

consume_offer(C, sender, offer, amount) ==
    get_raw_memory(IF amount < 0 THEN {} ELSE C, OfferConfig(offer), LAMBDA D, o :
      LET sold == transferFrom(D, o.sellToken, "zerox", "zerox", sender, amount)
          paid == UNION {transferFrom(sold, o.buyToken, "zerox", sender, o.owner, n)
                           : n \in get_buy_amount(amount, o.price)}
      IN  UNION {IF int64_get(c, OfferBalance(offer)) = 0
                 THEN delete_last(delete_last({c}, OfferBalance(offer)), OfferConfig(offer))
                 ELSE {c} : c \in int64_add(paid, OfferBalance(offer), -amount)})

cancel_offer(C, sender, offer) ==
    get_raw_memory(C, OfferConfig(offer), LAMBDA D, o :
      UNION {LET rest == int64_get(c, OfferBalance(offer))
                 gone == delete_last(delete_last(int64_add({c}, OfferBalance(offer), -rest),
                                                 OfferBalance(offer)), OfferConfig(offer))
             IN  transferFrom(gone, o.sellToken, "zerox", "zerox", o.owner, rest)
             : c \in Require(D, LAMBDA c : sender = o.owner)})

RunOffers(C, call) ==
    CASE call.method = "create_offer" -> create_offer(C, call.offer)
      [] call.method = "consume_offer" -> consume_offer(C, call.sender, call.offer, call.amount)
      [] call.method = "cancel_offer" -> cancel_offer(C, call.sender, call.offer)
      [] OTHER -> {}

-----------------------------------------------------------------------------
(* public_auction                                                          *)

Bids == <<"auction", "bids">>
RefundedBids == <<"auction", "refunded">>
ReservePrice == <<"auction", "reserve_price">>
AuctionConfig == <<"auction", "config">>

create_auction(C, config) ==
    set_raw_memory(transferFrom_nft(acquire_transient(C, <<"auction", "semaphore">>),
                                    "auction", config.addrSeller, "auction"),
                   AuctionConfig, config)

\* The reserve price follows the second bid that earlier blocks left.
submit_bid(C, bid) ==
    get_raw_memory(C, AuctionConfig, LAMBDA D, config :
      UNION {LET bids == Entries(c, Bids)
                 raised == IF Len(bids) >= 2 /\ bids[2].index # int64_get(c, ReservePrice)
                           THEN int64_set_add({c}, ReservePrice, bids[2].index, 0) ELSE {c}
             IN  hashset_insert(transferFrom(raised, config.token, "auction", bid.bidder,
                                             "auction", bid.amount),
                                Bids, bid, bid.amount)
             : c \in Require(D, LAMBDA c : /\ height <= config.closing_round
                                           /\ bid.amount > int64_get(c, ReservePrice))})

Closed(c, config) == height > config.closing_round /\ Entries(c, Bids) # <<>>

refund_bid(C, bid) ==
    get_raw_memory(C, AuctionConfig, LAMBDA D, config :
      LET lost == Require(D, LAMBDA c :
                    LET bids == Entries(c, Bids)
                    IN  /\ Closed(c, config)
                        /\ bids[1].hash # bid
                        /\ \E i \in DOMAIN bids : bids[i].hash = bid)
      IN  transferFrom(hashset_insert(lost, RefundedBids, bid, bid.amount),
                       config.token, "auction", "auction", bid.bidder, bid.amount))

execute_winning_bid(C, bid) ==
    get_raw_memory(C, AuctionConfig, LAMBDA D, config :
      UNION {LET bids == Entries(c, Bids)
                 second == IF Len(bids) > 1 THEN {bids[2].index} ELSE {}
                 price == Max({int64_get(c, ReservePrice)} \cup second)
                 refunded == transferFrom({c}, config.token, "auction", "auction", bid.bidder,
                                          bid.amount - price)
             IN  transferFrom_nft(transferFrom(refunded, config.token, "auction", "auction",
                                               config.addrSeller, price),
                                  "auction", "auction", bid.bidder)
             : c \in Require(D, LAMBDA c : Closed(c, config) /\ Entries(c, Bids)[1].hash = bid)})

destroy_empty_auction(C) ==
    get_raw_memory(C, AuctionConfig, LAMBDA D, config :
      transferFrom_nft(Require(D, LAMBDA c : /\ Entries(c, Bids) = <<>>
                                             /\ height > config.closing_round),
                       "auction", "auction", config.addrSeller))

RunAuction(C, call) ==
    CASE call.method = "create_auction" -> create_auction(C, call.config)
      [] call.method = "submit_bid" -> submit_bid(C, call.bid)
      [] call.method = "refund_bid" -> refund_bid(C, call.bid)
      [] call.method = "winning_bid" -> execute_winning_bid(C, call.bid)
      [] call.method = "destroy_auction" -> destroy_empty_auction(C)
      [] OTHER -> {}

-----------------------------------------------------------------------------
(* payment_channel                                                         *)

ChannelConfig == <<"channel", "config">>
Other(party) == IF party = "alice" THEN "bob" ELSE "alice"
Signed(C, sigs) == IF {"alice", "bob"} \subseteq sigs THEN C ELSE {}

initialize_channel(C, token, amounts) ==
    LET config == [token |-> token, state |-> "OPEN", maxtime |-> 0,
                   params |-> [seqno |-> 0, alice |-> 0, bob |-> 0]]
        set == set_raw_memory(acquire_flag(C, <<"channel", "initialized">>), ChannelConfig, config)
    IN  transferFrom(transferFrom(set, token, "channel", "alice", "channel", amounts.alice),
                     token, "channel", "bob", "channel", amounts.bob)

mutual_closing(C, sigs, pay) ==
    get_raw_memory(Signed(C, sigs), ChannelConfig, LAMBDA D, config :
      transferFrom(transferFrom(D, config.token, "channel", "channel", "alice", pay.alice),
                   config.token, "channel", "channel", "bob", pay.bob))

\* alice_init_close and bob_init_close
init_close(C, by, sigs, params) ==
    get_raw_memory(Signed(C, sigs), ChannelConfig, LAMBDA D, config :
      IF config.state # "OPEN" THEN {}
      ELSE set_raw_memory(D, ChannelConfig, [config EXCEPT !.params = params, !.state = by,
                                                           !.maxtime = height + ChallengeTime]))

finish_closing(C, config) ==
    CASE config.state = "CLOSED" -> C
      [] config.state = "OPEN" \/ height < config.maxtime -> {}
      [] OTHER -> set_raw_memory(C, ChannelConfig, [config EXCEPT !.state = "CLOSED"])

\* alice_claim_closed and bob_claim_closed
claim_closed(C, party) ==
    get_raw_memory(C, ChannelConfig, LAMBDA D, config :
      transferFrom(acquire_flag(finish_closing(D, config), <<"channel", "claimed", party>>),
                   config.token, "channel", "channel", party, config.params[party]))

\* bob_challenge_close and alice_challenge_close
challenge_close(C, by, sigs, params) ==
    get_raw_memory(Signed(C, sigs), ChannelConfig, LAMBDA D, config :
      IF config.state # Other(by) \/ params.seqno <= config.params.seqno THEN {}
      ELSE transferFrom(D, config.token, "channel", "channel", by, params.alice + params.bob))

RunChannel(C, call) ==
    CASE call.method = "initialize_channel" -> initialize_channel(C, call.token, call.amounts)
      [] call.method = "mutual_close" -> mutual_closing(C, call.sigs, call.pay)
      [] call.method = "init_close" -> init_close(C, call.by, call.sigs, call.params)
      [] call.method = "finish_closing" -> claim_closed(C, call.party)
      [] call.method = "challenge_close" -> challenge_close(C, call.by, call.sigs, call.params)
      [] OTHER -> {}

-----------------------------------------------------------------------------
(* atomic_swap                                                             *)

SwapConfig == <<"swap", "config">>
close_swap(C, config, to) ==
    acquire_flag(transferFrom(C, config.token, "swap", "swap", to, config.amount),
                 <<"swap", "closed">>)

initialize_swap(C, config) ==
    acquire_flag(set_raw_memory(C, SwapConfig, config), <<"swap", "initialized">>)

claim_swap(C, preimage) ==
    get_raw_memory(C, SwapConfig, LAMBDA D, config :
      IF preimage # config.commitment THEN {} ELSE close_swap(D, config, config.recipient_addr))

reclaim_expired(C) ==
    get_raw_memory(C, SwapConfig, LAMBDA D, config :
      IF config.expiry_time < height THEN {} ELSE close_swap(D, config, config.source_addr))

RunSwap(C, call) ==
    CASE call.method = "initialize_swap" -> initialize_swap(C, call.config)
      [] call.method = "claim_preimage" -> claim_swap(C, call.preimage)
      [] call.method = "reclaim_expired" -> reclaim_expired(C)
      [] OTHER -> {}

-----------------------------------------------------------------------------
(* Blocks                                                                  *)

\* The contexts that a call leaves: none if it aborts.
Run(call) ==
    LET C == {<<>>}
    IN  CASE call.contract = "token" -> RunToken(C, call)
          [] call.contract = "nft" -> RunNft(C, call)
          [] call.contract = "wallet" -> RunWallet(C, call)
          [] call.contract = "zerox" -> RunOffers(C, call)
          [] call.contract = "auction" -> RunAuction(C, call)
          [] call.contract = "channel" -> RunChannel(C, call)
          [] call.contract = "swap" -> RunSwap(C, call)
          [] call.contract = "cfmm" -> RunCfmm(C, call)
          [] OTHER -> {}

\* What the semaphore or the flag that a call takes is for.
Guarded(call) ==
    CASE \/ call.contract = "nft" /\ call.method = "transferFrom"
         \/ call.method \in {"create_auction", "winning_bid", "destroy_auction"} -> {<<"nft">>}
      [] call.method = "finish_closing" -> {<<"claim", call.party>>}
      [] call.method \in {"claim_preimage", "reclaim_expired"} -> {<<"swap">>}
      [] call.method = "create_offer" -> {<<"offer", call.offer>>}
      [] \/ call.method = "initialize_cfmm"
         \/ call.method = "execute" /\ call.start_round <= call.end_round -> {<<"market">>}
      [] call.method \in {"init", "initialize_channel", "initialize_swap"} -> {<<call.method>>}
      [] OTHER -> {}

\* The deltas of a block's transactions on a key.
BlockDeltas(contexts, key) ==
    FlattenSeq([i \in DOMAIN contexts |->
                 IF key \in DOMAIN contexts[i] THEN GetDeltas(contexts[i][key]) ELSE <<>>])

\* push_deltas_to_statedb admits them all.
AdmitsAll(object, D) == \A i \in DOMAIN D : Admits(object, D, 1 .. i - 1, {}, i)

\* A block of these calls: each runs on the state before it.
ExecBlock(calls, contexts) ==
    LET touched == UNION {DOMAIN contexts[i] : i \in DOMAIN contexts}
        D == [key \in touched |-> BlockDeltas(contexts, key)]
        after == [key \in touched \cup DOMAIN committed |->
                    IF key \in touched THEN Outcome(At(key), D[key], DOMAIN D[key])
                    ELSE committed[key]]
    IN  /\ \A key \in touched : AdmitsAll(At(key), D[key])
        /\ committed' = [key \in {k \in DOMAIN after : after[k] # NoObject} |-> after[key]]
        /\ doubled' = {g \in UNION {Guarded(calls[i]) : i \in DOMAIN calls} :
                         Cardinality({i \in DOMAIN calls : g \in Guarded(calls[i])}) > 1}
        /\ executed' = [k \in DOMAIN executed |->
                          executed[k] + Cardinality({i \in DOMAIN calls : calls[i] = k})]
        /\ height' = height + 1
        /\ UNCHANGED <<scene, needs_allowance>>

\* Signed payments, resets of the market, and what moves the auctioned object.
Counted(k) ==
    \/ k.method \in {"transfer", "initialize_cfmm", "create_auction", "winning_bid",
                     "destroy_auction"}
    \/ k.contract = "nft" /\ k.method = "transferFrom" /\ k.to = "auction"

BlocksInit ==
    /\ scene \in DOMAIN Calls
    /\ needs_allowance \in BOOLEAN
    /\ committed = Start[scene]
    /\ height = 1
    /\ executed = [k \in {k \in Calls[scene] : Counted(k)} |-> 0]
    /\ doubled = {}

\* Blocks of up to two calls that do not abort.
BlocksNext ==
    LET ran == UNION {{<<k, c>> : c \in Run(k)} : k \in Calls[scene]}
    IN  /\ height < MaxHeight[scene]
        /\ \/ ExecBlock(<<>>, <<>>)
           \/ \E x \in ran : ExecBlock(<<x[1]>>, <<x[2]>>)
           \/ \E x, y \in ran : ExecBlock(<<x[1], y[1]>>, <<x[2], y[2]>>)

BlocksSpec == BlocksInit /\ [][BlocksNext]_block_vars

-----------------------------------------------------------------------------
(* Properties                                                              *)

\* A payment that the owner of a wallet signed is executed once at most, in one
\* block and over all blocks, although the replay cache forgets it when it
\* expires.
NoReplay ==
    \A k \in DOMAIN executed : k.method = "transfer" => executed[k] <= 1

IntAt(key) == IF At(key) = NoObject THEN 0 ELSE At(key).value
Tokens == {key[1] : key \in {k \in DOMAIN committed : k[2] = "total_supply"}}
Held(token, S) == MapThenSumSet(LAMBDA a : IntAt(Balance(token, a)), S)
BidsAt(key) == IF At(key) = NoObject THEN {} ELSE {h.hash : h \in At(key).hashes}
Worth(bids) == MapThenSumSet(LAMBDA b : b.amount, bids)
Offers == {key \in DOMAIN committed : key[1] = "zerox" /\ key[2] = "balance"}

\* As long as the supply of a token is below INT64_MAX, where additions
\* saturate, tokens are made by mint only and none is lost.
SupplyConserved ==
    \A t \in Tokens : IntAt(TotalSupply(t)) < MaxInt => Held(t, Accounts) = IntAt(TotalSupply(t))

\* 0x holds the rest of every offer.
OffersBacked ==
    \A t \in Tokens :
      Held(t, {"zerox"}) = MapThenSumSet(IntAt, {key \in Offers : key[3].sellToken = t})

Times(method) == {k \in DOMAIN executed : k.method = method}
HowOften(S) == MapThenSumSet(LAMBDA k : executed[k], S)

\* The auction holds its bids, less the refunded ones and less the winning bid
\* for every time that it was executed; and it is executed no more often than
\* the object was handed to the auction.  So as long as nobody hands the object
\* back, the bids that are neither refunded nor settled are backed.
AuctionBacked ==
    scene = "auction" =>
      /\ Held("A", {"auction"}) =
           Worth(BidsAt(Bids)) - Worth(BidsAt(RefundedBids))
             - MapThenSumSet(LAMBDA k : executed[k] * k.bid.amount, Times("winning_bid"))
      /\ HowOften(Times("create_auction") \cup Times("transferFrom")) =
           HowOften(Times("winning_bid") \cup Times("destroy_auction"))
             + (IF IntAt(OwnerKey) = "auction" THEN 1 ELSE 0)

\* What the market maker was given for its events, token by token: a deposit is
\* taken in token A alone.
Events == {key[3] : key \in {key \in DOMAIN committed : key[1] = "cfmm" /\ key[2] = "event"}}
GivenA(event) ==
    CASE event.type = "swap" /\ event.obj.direction -> event.obj.sellAmount
      [] event.type = "deposit" -> event.obj.depositA + event.obj.depositB
      [] OTHER -> 0
GivenB(event) ==
    IF event.type = "swap" /\ ~event.obj.direction THEN event.obj.sellAmount ELSE 0
SharesGiven(event) == IF event.type = "withdraw" THEN event.obj.lp_shares ELSE 0

OverA ==
    Held("A", {"cfmm"}) - At(State).value.tokenA_amount - MapThenSumSet(GivenA, Events)
ShortOfB ==
    At(State).value.tokenB_amount + MapThenSumSet(GivenB, Events) - Held("B", {"cfmm"})

\* The market maker holds the fees of the events that are not yet executed.
\* Until it is initialised again or shares are withdrawn, it holds of each token
\* the amount of its state and of those events, as long as no deposit was
\* executed; from then on it holds too much of A, by what it lacks of B.
MarketBacked ==
    scene = "cfmm" =>
      /\ Held("F", {"cfmm"}) = MapThenSumSet(LAMBDA e : e.fee_bid, Events)
      /\ (/\ HowOften(Times("initialize_cfmm")) = 0
          /\ Held("L", {"cfmm"}) = MapThenSumSet(SharesGiven, Events)) =>
           /\ OverA = ShortOfB /\ OverA >= 0
           /\ IntAt(TotalSupply("L")) = 0 => OverA = 0

\* No contract makes or loses tokens, and each holds what it owes, to the extent
\* that AuctionBacked and MarketBacked say.
EscrowBacked == SupplyConserved /\ OffersBacked /\ AuctionBacked /\ MarketBacked

\* Two calls that take the same semaphore or flag are never in one block,
\* although each finds it free.
OncePerBlock == doubled = {}
=============================================================================
