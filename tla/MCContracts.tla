---------------------------- MODULE MCContracts ----------------------------
(***************************************************************************)
(* Eight scenes, each of a few accounts around one contract.               *)
(***************************************************************************)
EXTENDS Contracts

MCAccounts == {"alice", "bob", "sam", "wallet", "zerox", "auction", "channel", "swap",
            "cfmm"}

\* Amounts that were minted, and allowances and approvals that were given.
Number(n) == [type |-> "NONNEGATIVE_INT64", value |-> n]
Funded(token, holders, amount, spender) ==
    [key \in {Balance(token, a) : a \in holders}
             \cup {Allowance(token, a, spender) : a \in holders} |-> Number(amount)]
      @@ (TotalSupply(token) :> Number(amount * Cardinality(holders)))

Offer == [owner |-> "alice", sellToken |-> "A", buyToken |-> "B", sellAmount |-> 2, price |-> 3]
BidSet == {[bidder |-> "alice", amount |-> 1], [bidder |-> "alice", amount |-> 3],
           [bidder |-> "bob", amount |-> 1], [bidder |-> "bob", amount |-> 2]}
AuctionOf(n) == [addrSeller |-> "sam", token |-> "A", closing_round |-> n]
Params(n, a, b) == [seqno |-> n, alice |-> a, bob |-> b]
Both == {"alice", "bob"}
SwapOf(t) == [source_addr |-> "alice", recipient_addr |-> "bob", token |-> "A", amount |-> 1,
              commitment |-> "x", expiry_time |-> t]

MarketConfig == [feeToken |-> "F", tokenA |-> "A", tokenB |-> "B", lpshares |-> "L"]
Market(n, a, b) == [next_round |-> n, tokenA_amount |-> a, tokenB_amount |-> b]
MCUnwritten == {Market(0, 0, 0), Market(2, 4, 3)}

\* Of bids, and of the market's events.
MCHashRank(h) ==
    CASE "bidder" \in DOMAIN h -> IF h.bidder = "alice" THEN 1 ELSE 2
      [] OTHER -> CASE h.type = "swap" -> 1 [] h.type = "deposit" -> 2 [] OTHER -> 3

MCStart ==
    [token |-> Funded("A", {"alice", "bob"}, 1, "bob"),
     nft |-> (OwnerKey :> [type |-> "RAW_MEMORY", value |-> "sam"]),
     wallet |-> Funded("A", {"wallet"}, 3, "bob"),
     zerox |-> Funded("A", {"alice"}, 4, "zerox") @@ Funded("B", {"bob"}, 4, "zerox"),
     auction |-> Funded("A", {"alice", "bob"}, 4, "auction")
                   @@ (OwnerKey :> [type |-> "RAW_MEMORY", value |-> "sam"])
                   @@ (OperatorKey("sam", "auction") :> Number(1)),
     channel |-> Funded("A", {"alice", "bob"}, 2, "channel"),
     swap |-> Funded("A", {"swap"}, 2, "bob"),
     cfmm |-> Funded("F", {"alice", "bob"}, 1, "cfmm") @@ Funded("A", {"alice"}, 5, "cfmm")
                @@ Funded("B", {"bob"}, 2, "cfmm")
                @@ (Allowance("L", "alice", "cfmm") :> Number(1))
                @@ (Config :> [type |-> "RAW_MEMORY", value |-> MarketConfig])
                @@ (State :> [type |-> "RAW_MEMORY", value |-> Market(0, 0, 0)])
                @@ (Semaphore :> Number(0))]

SceneCalls ==
    [token |->
       {[method |-> "mint", token |-> "A", to |-> a, amount |-> n] : a \in Both, n \in {-1, 1}}
       \cup {[method |-> "transferFrom", token |-> "A", sender |-> "bob", from |-> "alice",
              to |-> a, amount |-> 1] : a \in Both}
       \cup {[method |-> "allowanceDelta", token |-> "A", sender |-> "alice", account |-> "bob",
              amount |-> n] : n \in {-1, 1}}
       \cup {[method |-> "initialize", token |-> "A", owner |-> "alice"],
             [method |-> "set_metadata", token |-> "A", sender |-> "alice", metadata |-> 1]},
     nft |->
       {[method |-> "approveAll", sender |-> "sam", op |-> "bob", auth |-> b] : b \in BOOLEAN}
       \cup {[method |-> "approve", sender |-> "bob", approved |-> "alice"]}
       \cup {[method |-> "transferFrom", sender |-> "bob", from |-> a, to |-> "bob"]
               : a \in {"sam", "bob"}},
     wallet |->
       {[method |-> "init", token |-> "A", pk |-> "alice", size_increase |-> 1]}
       \cup {[method |-> "transfer", to |-> "bob", amount |-> 1, nonce |-> n,
              expiration_time |-> t, signer |-> "alice"] : n \in 1 .. 2, t \in {2, 3, 5}}
       \cup {[method |-> "transfer", to |-> "bob", amount |-> 1, nonce |-> 1,
              expiration_time |-> 5, signer |-> "bob"]},
     zerox |->
       {[method |-> "create_offer", offer |-> Offer]}
       \cup {[method |-> "consume_offer", sender |-> "bob", offer |-> Offer, amount |-> n]
               : n \in -1 .. 2}
       \cup {[method |-> "cancel_offer", sender |-> a, offer |-> Offer] : a \in Both},
     auction |->
       {[method |-> "create_auction", config |-> AuctionOf(3)], [method |-> "destroy_auction"]}
       \cup {[method |-> m, bid |-> b] : m \in {"submit_bid", "refund_bid", "winning_bid"},
                                         b \in BidSet}
       \cup {[contract |-> "nft", method |-> "transferFrom", sender |-> a, from |-> a,
              to |-> "auction"] : a \in Both},
     channel |->
       {[method |-> "initialize_channel", token |-> "A", amounts |-> [alice |-> 1, bob |-> 1]]}
       \cup {[method |-> "mutual_close", sigs |-> S, pay |-> [alice |-> 1, bob |-> 0]]
               : S \in {Both, {"alice"}}}
       \cup {[method |-> m, by |-> p, sigs |-> Both, params |-> q]
               : m \in {"init_close", "challenge_close"}, p \in Both,
                 q \in {Params(1, 1, 1), Params(2, 2, 0)}}
       \cup {[method |-> "finish_closing", party |-> p] : p \in Both},
     swap |->
       {[method |-> "initialize_swap", config |-> SwapOf(t)] : t \in {2, 4}}
       \cup {[method |-> "claim_preimage", preimage |-> x] : x \in {"x", "y"}}
       \cup {[method |-> "reclaim_expired"]},
     cfmm |->
       {[method |-> "swap", sender |-> "bob", fee_bid |-> 1,
         obj |-> [direction |-> FALSE, sellAmount |-> 2, minReceive |-> 1]],
        [method |-> "swap", sender |-> "alice", fee_bid |-> 0,
         obj |-> [direction |-> TRUE, sellAmount |-> 1, minReceive |-> 0]],
        [method |-> "deposit", sender |-> "alice", fee_bid |-> 1,
         obj |-> [depositA |-> 2, depositB |-> 2]],
        [method |-> "withdraw", sender |-> "alice", fee_bid |-> 0, obj |-> [lp_shares |-> 1]],
        [method |-> "initialize_cfmm", config |-> MarketConfig]}
       \cup {[method |-> "execute", sender |-> "bob", start_round |-> r[1], end_round |-> r[2]]
               : r \in {<<0, 0>>, <<1, 1>>, <<2, 2>>, <<3, 3>>, <<0, 1>>}}]

MCCalls == [s \in DOMAIN SceneCalls |-> {k @@ [contract |-> s] : k \in SceneCalls[s]}]

MCMaxHeight == [s \in DOMAIN SceneCalls |-> IF s = "cfmm" THEN 5 ELSE 7]
=============================================================================
