-------------------------------- MODULE Cfmm --------------------------------
(***************************************************************************)
(* cfmm.cc: a constant-product market maker.  Swaps, deposits and          *)
(* withdrawals of a block are stored as events with a fee that they bid;   *)
(* execute, in a later block, applies the events of a round in the order   *)
(* of their bids and gives the fees to its caller.                         *)
(***************************************************************************)
EXTENDS Sdk

CONSTANTS Unwritten  \* what initialize may find in memory it does not write

Config == <<"cfmm", "config">>
State == <<"cfmm", "state">>
Semaphore == <<"cfmm", "semaphore">>
get_hs_key_for_round(round) == <<"cfmm", "round", round>>
EventKey(event) == <<"cfmm", "event", event>>

-----------------------------------------------------------------------------
(* Adding events                                                           *)

\* What add_swap, add_deposit and add_withdraw begin with.  The hash of an event
\* is the event.
add_event(C, config, event) ==
    LET listed == hashset_insert(C, get_hs_key_for_round(height), event, event.fee_bid)
    IN  transferFrom(set_raw_memory(listed, EventKey(event), event),
                     config.feeToken, "cfmm", event.sender, "cfmm", event.fee_bid)

EventOf(type, call) ==
    [type |-> type, fee_bid |-> call.fee_bid, round |-> height, sender |-> call.sender,
     obj |-> call.obj]

add_swap(C, call) ==
    get_raw_memory(C, Config, LAMBDA D, config :
      transferFrom(add_event(D, config, EventOf("swap", call)),
                   IF call.obj.direction THEN config.tokenA ELSE config.tokenB,
                   "cfmm", call.sender, "cfmm", call.obj.sellAmount))

\* Both amounts are taken in tokenA.
add_deposit(C, call) ==
    get_raw_memory(C, Config, LAMBDA D, config :
      transferFrom(transferFrom(add_event(D, config, EventOf("deposit", call)), config.tokenA,
                                "cfmm", call.sender, "cfmm", call.obj.depositA),
                   config.tokenA, "cfmm", call.sender, "cfmm", call.obj.depositB))

add_withdraw(C, call) ==
    get_raw_memory(C, Config, LAMBDA D, config :
      transferFrom(add_event(D, config, EventOf("withdraw", call)), config.lpshares,
                   "cfmm", call.sender, "cfmm", call.obj.lp_shares))

-----------------------------------------------------------------------------
(* Executing them.  An event maps a context and the state of the market to *)
(* the pairs of contexts and states that it may leave.                     *)

pay_out(C, token, to, amount) == transferFrom(C, token, "cfmm", "cfmm", to, amount)
Leaving(C, state) == {<<c, state>> : c \in C}

refund_swap(C, config, event) ==
    pay_out(C, IF event.obj.direction THEN config.tokenA ELSE config.tokenB,
        event.sender, event.obj.sellAmount)
refund_deposit(C, config, event) ==
    pay_out(pay_out(C, config.tokenA, event.sender, event.obj.depositA),
        config.tokenA, event.sender, event.obj.depositB)
refund_withdraw(C, config, event) ==
    pay_out(C, config.lpshares, event.sender, event.obj.lp_shares)

overflow_int64(a, b) == a + b >= MaxInt

\* The product is one of int64_t: what it is if it overflows is undefined.
Product(a, b) == IF a * b <= MaxInt THEN {a * b} ELSE 0 .. MaxUint

exec_one_swap(c, config, state, event) ==
    LET sell == IF event.obj.direction THEN state.tokenA_amount ELSE state.tokenB_amount
        buy == IF event.obj.direction THEN state.tokenB_amount ELSE state.tokenA_amount
        buytoken == IF event.obj.direction THEN config.tokenB ELSE config.tokenA
        new_sell == sell + event.obj.sellAmount
        refunded == Leaving(refund_swap({c}, config, event), state)
        swapped(prod) ==
          LET new_buy == prod \div new_sell + (IF prod % new_sell = 0 THEN 0 ELSE 1)
              payout == buy - new_buy
              A == IF event.obj.direction THEN new_sell ELSE new_buy
              B == IF event.obj.direction THEN new_buy ELSE new_sell
          IN  IF payout < event.obj.minReceive THEN refunded
              ELSE Leaving(pay_out({c}, buytoken, event.sender, payout),
                           [state EXCEPT !.tokenA_amount = A, !.tokenB_amount = B])
    IN  CASE overflow_int64(sell, event.obj.sellAmount) -> refunded
          [] new_sell = 0 -> {}
          [] OTHER -> UNION {swapped(prod) : prod \in Product(state.tokenA_amount,
                                                              state.tokenB_amount)}

\* Both factors that the search for a root ends with.
babylonian_sqrt(prod) ==
    LET search[r \in (0 .. prod + 2) \X (0 .. prod + 2)] ==
          IF Max({r[1], r[2]}) - Min({r[1], r[2]}) <= 1 THEN r
          ELSE LET r2 == (r[1] + r[2]) \div 2 IN search[<<prod \div r2, r2>>]
    IN  search[<<2, prod \div 2>>]

ub(val) == Max({val[1], val[2]})
lb(val) == Min({val[1], val[2]})

exec_one_deposit(c, config, state, event) ==
    LET A == state.tokenA_amount
        B == state.tokenB_amount
        d == event.obj
        refunded == Leaving(refund_deposit({c}, config, event), state)
        deposited(prod, prod2) ==
          LET difference == lb(babylonian_sqrt(prod2)) - ub(babylonian_sqrt(prod))
          IN  IF difference <= 0 \/ difference > MaxInt THEN refunded
              ELSE Leaving(mint({c}, config.lpshares, event.sender, difference),
                           [state EXCEPT !.tokenA_amount = A + d.depositA,
                                         !.tokenB_amount = B + d.depositB])
    IN  IF overflow_int64(A, d.depositA) \/ overflow_int64(B, d.depositB) THEN refunded
        ELSE UNION {deposited(p, q) : p \in Product(A, B),
                                      q \in Product(A + d.depositA, B + d.depositB)}

\* The state keeps the amounts that are paid out.
exec_one_withdraw(c, config, state, event) ==
    LET shares == event.obj.lp_shares
        withdrawn(old) ==
          IF shares > old THEN refund_withdraw({c}, config, event)
          ELSE pay_out(pay_out({c}, config.tokenA, event.sender,
                           (state.tokenA_amount * shares) \div old),
                   config.tokenB, event.sender, (state.tokenB_amount * shares) \div old)
    IN  UNION {Leaving(withdrawn(ub(babylonian_sqrt(prod))), state)
                 : prod \in Product(state.tokenA_amount, state.tokenB_amount)}

exec_event(c, config, state, entry) ==
    LET event == entry.hash
        due == Require({c}, LAMBDA d : has_key(d, EventKey(event)))
    IN  UNION {CASE event.type = "swap" -> exec_one_swap(d, config, state, event)
                 [] event.type = "deposit" -> exec_one_deposit(d, config, state, event)
                 [] event.type = "withdraw" -> exec_one_withdraw(d, config, state, event)
                 [] OTHER -> {}
               : d \in delete_last(due, EventKey(event))}

exec_events(c, config, state, events) ==
    FoldLeft(LAMBDA S, e : UNION {exec_event(s[1], config, s[2], e) : s \in S},
             {<<c, state>>}, events)

exec_round(C, config, sender, round) ==
    get_raw_memory(C, State, LAMBDA D, state :
      UNION {LET events == Entries(c, get_hs_key_for_round(round))
                 fee_acc == FoldSeq(LAMBDA e, sum : e.index + sum, 0, events)
                 done == exec_events(c, config, [state EXCEPT !.next_round = @ + 1], events)
                 paid(d) == pay_out({d}, config.feeToken, sender, fee_acc)
             IN  UNION {delete_last(set_raw_memory(paid(s[1]), State, s[2]),
                                    get_hs_key_for_round(round)) : s \in done}
             : c \in IF state.next_round = round THEN acquire_semaphore(D, Semaphore, 1) ELSE {}})

exec_rounds(C, config, sender, rounds) ==
    FoldLeft(LAMBDA E, round : exec_round(E, config, sender, round), C, rounds)

execute(C, sender, start_round, end_round) ==
    get_raw_memory(IF end_round >= height THEN {} ELSE C, Config, LAMBDA D, config :
      exec_rounds(D, config, sender,
                  [i \in 1 .. end_round - start_round + 1 |-> start_round + i - 1]))

\* The state that is written was never given a value.
initialize_cfmm(C, config) ==
    UNION {set_raw_memory(set_raw_memory(acquire_semaphore(C, Semaphore, 1), Config, config),
                          State, state) : state \in Unwritten}

RunCfmm(C, call) ==
    CASE call.method = "swap" -> add_swap(C, call)
      [] call.method = "deposit" -> add_deposit(C, call)
      [] call.method = "withdraw" -> add_withdraw(C, call)
      [] call.method = "execute" -> execute(C, call.sender, call.start_round, call.end_round)
      [] call.method = "initialize_cfmm" -> initialize_cfmm(C, call.config)
      [] OTHER -> {}
=============================================================================
