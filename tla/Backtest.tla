------------------------------ MODULE Backtest ------------------------------
(***************************************************************************)
(* The bar-by-bar backtests: the generic loop (src/backtest/engine.py) and  *)
(* the mean-reversion loop (src/backtest/mean_reversion_loop.py), through   *)
(* the order router (src/router/default.py), on the simulated broker        *)
(* (src/broker/simulated.py).                                               *)
(*                                                                          *)
(* One symbol, as both loops trade.  The strategy and the risk manager are  *)
(* inputs: any signal, any size.  Entry prices and the summary statistics   *)
(* are left out; nothing here reads them.                                   *)
(***************************************************************************)
EXTENDS Integers, Sequences

LOCAL INSTANCE SequencesExt
LOCAL INSTANCE FiniteSetsExt

CONSTANTS
    BtPrices, BtSizes,      \* prices of bars; quantities the risk manager asks for
    BtEquity,               \* initial_equity
    BtSlip,                 \* slippage_pct + taker_fee_pct, in percent
    BtLimit,                \* max_drawdown_pct, in percent
    BtWarm,                 \* sma_period: bars before the first signal
    BtMaxBars               \* bound

ASSUME BtAssumption ==
    /\ BtPrices \subseteq Nat \ {0} /\ BtSizes \subseteq Nat \ {0}
    /\ {BtEquity, BtSlip, BtLimit, BtWarm, BtMaxBars} \subseteq Nat

VARIABLES
    btLoop,       \* which loop runs: "generic" or "reversion"
    btAcct,       \* cash, the signed position, and what the list of fills adds up to
    btWorth,      \* equity as last marked
    btPending,    \* pending_orders
    btState,      \* PortfolioState: peak_equity, halted
    btInTrade,    \* bars_in_trade (the mean-reversion loop)
    btBars,       \* bars seen
    btBar         \* history: open and close of the last bar

btVars == <<btLoop, btAcct, btWorth, btPending, btState, btInTrade, btBars, btBar>>

BtSigns == [BUY |-> 1, SELL |-> -1]
BtAbs(n) == IF n < 0 THEN -n ELSE n

\* SimulatedBroker.__init__, and the loop's first PortfolioState
BtInit ==
    /\ btLoop \in {"generic", "reversion"}
    /\ btAcct = [cash |-> BtEquity, qty |-> 0, bought |-> 0, paid |-> 0, fills |-> 0] /\ btWorth = BtEquity
    /\ btPending = <<>> /\ btState = [peak |-> BtEquity, halted |-> FALSE]
    /\ btInTrade = 0 /\ btBars = 0 /\ btBar = [open |-> 0, close |-> 0]

-----------------------------------------------------------------------------
\* _fill_price
BtFillPrice(side, raw) == raw + BtSigns[side] * ((raw * BtSlip) \div 100)

\* int(cash / price): none is affordable with no cash.
BtAffordable(cash, price) == IF cash > 0 THEN cash \div price ELSE 0

\* The quantities filled by _open_long, _close_long, _open_short (half the notional in cash as
\* margin) and _close_short.
BtOpenLong(a, n, price) == Min({n, BtAffordable(a.cash, price)})
BtCloseLong(a, n) == IF a.qty > 0 THEN Min({n, a.qty}) ELSE 0
BtOpenShort(a, n, price) == Min({n, BtAffordable(2 * a.cash, price)})
BtCloseShort(a, n) == IF a.qty < 0 THEN Min({n, -a.qty}) ELSE 0

\* A fill of the list: the account moves by it and the list records it.
BtTake(a, side, asked, filled, price) ==
    [a EXCEPT !.cash = @ - BtSigns[side] * price * filled, !.qty = @ + BtSigns[side] * filled,
              !.bought = @ + BtSigns[side] * filled, !.paid = @ + BtSigns[side] * price * filled,
              !.fills = @ + 1]

\* One order of submit_orders: it closes the opposite position or else opens or adds, and leaves no
\* fill when nothing could be filled.
BtFill(a, order, raw) ==
    LET price == BtFillPrice(order.side, raw)
        filled == IF order.side = "BUY"
                  THEN IF a.qty < 0 THEN BtCloseShort(a, order.qty) ELSE BtOpenLong(a, order.qty, price)
                  ELSE IF a.qty > 0 THEN BtCloseLong(a, order.qty) ELSE BtOpenShort(a, order.qty, price)
    IN IF filled > 0 THEN BtTake(a, order.side, order.qty, filled, price) ELSE a

BtSubmit(a, orders, raw) == FoldLeft(LAMBDA b, o : BtFill(b, o, raw), a, orders)

\* _mark_equity
BtMark(a, mark) == a.cash + a.qty * mark

\* The halt leaves a short open.
SlipBtCloseAll(a, mark) ==
    LET price == BtFillPrice("SELL", mark)
    IN [a EXCEPT !.cash = @ + BtCloseLong(a, a.qty) * price, !.qty = @ - BtCloseLong(a, a.qty)]
\* close_all_positions at a price: no entry in the list of fills
BtCloseAll(a, mark) ==
    LET side == IF a.qty > 0 THEN "SELL" ELSE "BUY"
    IN [a EXCEPT !.cash = @ + a.qty * BtFillPrice(side, mark), !.qty = 0]

-----------------------------------------------------------------------------
\* size_order (external): it closes an opposite position and opens in the direction of the signal.
BtSizeOrder(action, qty, n) ==
    LET Order(side, k) == [side |-> side, qty |-> k]
    IN CASE action = "EXIT" /\ qty # 0 -> <<Order(IF qty > 0 THEN "SELL" ELSE "BUY", BtAbs(qty))>>
         [] action = "LONG" /\ qty < 0 -> <<Order("BUY", -qty), Order("BUY", n)>>
         [] action = "LONG" /\ qty >= 0 -> <<Order("BUY", n)>>
         [] action = "SHORT" /\ qty > 0 -> <<Order("SELL", qty), Order("SELL", n)>>
         [] action = "SHORT" /\ qty <= 0 -> <<Order("SELL", n)>>
         [] OTHER -> <<>>

\* check_drawdown_breaker (external)
BtBroken(peak, equity) == (peak - equity) * 100 >= BtLimit * peak

\* OrderRouter.route: the breaker first, then the size.
BtRoute(action, n, equity, qty, state) ==
    LET peak == IF equity > state.peak THEN equity ELSE state.peak
        halted == state.halted \/ BtBroken(peak, equity)
    IN [state |-> [peak |-> peak, halted |-> halted],
        orders |-> IF halted THEN <<>> ELSE BtSizeOrder(action, qty, n)]

\* One bar of either loop: pending orders fill at its open, and at its close a signal (if the window
\* is ready and the breaker has not tripped) goes through the router.  The router sees the equity of
\* the last mark, which is not this close.
BtStep(open, close, action, n) ==
    LET a == BtSubmit(btAcct, btPending, open)
        worth == IF btPending = <<>> THEN btWorth ELSE BtMark(a, open)
        routed == BtRoute(action, n, worth, a.qty, btState)
        signal == btBars + 1 >= BtWarm /\ ~btState.halted /\ action # "HOLD"
        trips == signal /\ routed.state.halted
        b == IF trips THEN BtCloseAll(a, close) ELSE a
    IN /\ btBars < BtMaxBars /\ btBars' = btBars + 1
       /\ btAcct' = b /\ btWorth' = BtMark(b, close)
       /\ btState' = IF signal THEN routed.state ELSE btState
       /\ btPending' = IF signal THEN routed.orders ELSE <<>>
       /\ btBar' = [open |-> open, close |-> close] /\ UNCHANGED btLoop

\* run_backtest_on_bars
BtGenericBar(open, close, action, n) ==
    /\ btLoop = "generic" /\ BtStep(open, close, action, n) /\ UNCHANGED btInTrade

\* bars_in_trade after a bar whose fills left the position qty
BtInTrade(qty, trips) == IF trips \/ qty = 0 THEN 0 ELSE btInTrade + 1

\* run_mean_reversion_backtest: it also counts the bars in a trade, and a flip does not restart the
\* count.  Signals it filters out (shorts not allowed, dates not allowed) are HOLD.
BtReversionBar(open, close, action, n) ==
    /\ btLoop = "reversion" /\ BtStep(open, close, action, n)
    /\ btInTrade' = BtInTrade(BtSubmit(btAcct, btPending, open).qty, btState'.halted /\ ~btState.halted)

BtNext ==
    \E open, close \in BtPrices, action \in {"HOLD", "LONG", "SHORT", "EXIT"}, n \in BtSizes :
        BtGenericBar(open, close, action, n) \/ BtReversionBar(open, close, action, n)

BtSpec == BtInit /\ [][BtNext]_btVars

-----------------------------------------------------------------------------
\* Types; no bar is counted in a trade before there was a fill.
BtTypeOK ==
    /\ btAcct.cash \in Int /\ btAcct.qty \in Int /\ btAcct.fills \in Nat /\ btWorth \in Int
    /\ Len(btPending) <= 2 /\ btState.halted \in BOOLEAN /\ btState.peak >= BtEquity
    /\ btInTrade \in 0..btBars /\ (btInTrade > 0 => btAcct.fills > 0)

\* Once the drawdown breaker has tripped, the account is flat and stays flat: nothing decided before
\* the halt is filled after it (mean_reversion_loop.py's and engine.py's halt branch).
BtHaltedFlat == btState.halted => btAcct.qty = 0 /\ btPending = <<>>

\* Until a halt the list of fills accounts for the whole account: replaying it gives the position and
\* the cash, orders that were clipped, refused or flipped the position included (submit_orders).
BtExplained ==
    ~btState.halted => btAcct.qty = btAcct.bought /\ btAcct.cash = BtEquity - btAcct.paid

\* Trading is never a source of money: over a bar at the price of the last mark, equity does not
\* rise, whatever was opened, closed, covered, flipped or liquidated in it.
BtNoFreeMoney ==
    [][btBar' = [open |-> btBar.close, close |-> btBar.close] => btWorth' <= btWorth]_btVars

\* What the loops promise: a halted account is flat, the fills explain the account, and a bar without a
\* move earns nothing.
BtAddsUp == [](BtTypeOK /\ BtHaltedFlat /\ BtExplained) /\ BtNoFreeMoney
=============================================================================
