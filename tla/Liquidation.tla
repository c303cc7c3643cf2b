---------------------------- MODULE Liquidation ----------------------------
(***************************************************************************)
(* Emergency flattening: UnifiedFlattenProtocol (src/engine/                *)
(* flatten_protocol.py) over the live broker (src/broker/alpaca.py).        *)
(*                                                                          *)
(* A task is one call: "all" is execute_portfolio_flatten, <<"leg", s>> is  *)
(* execute_leg_flatten, <<"rec", s>> is recover_forced_liquidation_cancel_  *)
(* timeout.  Every await is a step boundary; fills, cancels and slices of a *)
(* passive order land between any two steps.  Quantities are signed units:  *)
(* long positive, and an order moves the position by its quantity.          *)
(***************************************************************************)
EXTENDS Integers, FiniteSets, FiniteSetsExt

CONSTANTS
    LqSyms,      \* symbols, integers: the loops visit them in sorted order
    LqStocks,    \* the symbols quoted by the NBBO (the rest is crypto)
    LqLegs,      \* the symbols strategies trade, and leg and recovery calls are made for
    LqStarts,    \* the positions a run may start with
    LqMaxOrders, \* bound: orders ever sent
    LqMaxCalls,  \* bound: flatten calls ever made
    LqMaxFaults  \* bound: broker calls that raise or polls that fail

ASSUME LqAssumption ==
    /\ LqSyms \subseteq Nat /\ LqStocks \subseteq LqSyms /\ LqLegs \subseteq LqSyms
    /\ LqStarts \subseteq [LqSyms -> Int]
    /\ LqMaxOrders \in Nat /\ LqMaxCalls \in Nat /\ LqMaxFaults \in Nat

LqIds == 1..LqMaxOrders
LqTasks == {<<"all", 0>>} \cup ({"leg", "rec"} \X LqLegs)
LqNobody == <<"none", 0>>
LqStrategy == <<"strategy", 0>>
LqCauses == {"moved", "twin", "uncleared", "unheard"}
LqPlaces == {"idle", "read", "check", "cancel", "await", "again", "clear",
             "flatten", "market", "close", "done"}

VARIABLES
    lqHeld,    \* lqHeld[s]: the broker's net position
    lqBook,    \* lqBook[i]: order i: symbol, quantity still working, sender
    lqDoomed,  \* orders whose cancel the broker has accepted
    lqSent,    \* orders sent so far
    lqTwap,    \* lqTwap[s]: what a passive order has still to slice
    lqStaged,  \* symbols with a row in pending_order_stage
    lqAt,      \* lqAt[t]: where the call is; a place other than "idle" is its guard
    lqSnap,    \* lqSnap[t]: the positions it read, or was given
    lqTodo,    \* lqTodo[t]: symbols its current loop has still to visit
    lqTried,   \* symbols the portfolio flatten got a result for
    lqFailed,  \* failed_symbols
    lqSoak,    \* SOAK_TEST_MODE
    lqCalls,   \* calls made so far
    lqFaults,
    lqCause    \* lqCause[s]: why the quantity in flight may be wrong (history)

lqVars == <<lqHeld, lqBook, lqDoomed, lqSent, lqTwap, lqStaged, lqAt, lqSnap,
            lqTodo, lqTried, lqFailed, lqSoak, lqCalls, lqFaults, lqCause>>
lqMarket == <<lqHeld, lqBook, lqDoomed, lqSent, lqTwap>>
lqCall == <<lqAt, lqSnap, lqTodo, lqCalls>>

LqSign(n) == IF n > 0 THEN 1 ELSE IF n < 0 THEN -1 ELSE 0
LqOpen(s) == {i \in 1..lqSent : lqBook[i].sym = s /\ lqBook[i].qty # 0}
LqAbs(n) == IF n < 0 THEN -n ELSE n
LqFault == lqFaults < LqMaxFaults /\ lqFaults' = lqFaults + 1
LqLeast(S) == CHOOSE s \in S : \A u \in S : s <= u
LqWanted(t) == {s \in LqSyms : lqSnap[t][s] # 0}
LqActive(t, s) == lqAt[t] \notin {"idle", "read"} /\ lqSnap[t][s] # 0

LqInit ==
    /\ lqHeld \in LqStarts /\ lqSoak \in BOOLEAN
    /\ lqBook = [i \in LqIds |-> [sym |-> 0, qty |-> 0, by |-> LqNobody]]
    /\ lqDoomed = {} /\ lqSent = 0 /\ lqStaged = {}
    /\ lqTwap = [s \in LqSyms |-> 0]
    /\ lqAt = [t \in LqTasks |-> "idle"]
    /\ lqSnap = [t \in LqTasks |-> [s \in LqSyms |-> 0]]
    /\ lqTodo = [t \in LqTasks |-> {}]
    /\ lqTried = {} /\ lqFailed = {} /\ lqCalls = 0 /\ lqFaults = 0
    /\ lqCause = [s \in LqSyms |-> {}]

-----------------------------------------------------------------------------
(* The broker and the strategies' own orders.                              *)

\* One more order reaches the book.
LqPlace(s, q, t) ==
    /\ lqSent < LqMaxOrders /\ lqSent' = lqSent + 1
    /\ lqBook' = [lqBook EXCEPT ![lqSent + 1] = [sym |-> s, qty |-> q, by |-> t]]

\* Causes a movement of s adds: it was not the move of a call that holds a snapshot.
LqStale(s, by) ==
    IF \E t \in LqTasks \ {by} : LqActive(t, s) THEN {"moved"} ELSE {}

LqFill(i) ==
    /\ i <= lqSent /\ lqBook[i].qty # 0
    /\ lqHeld' = [lqHeld EXCEPT ![lqBook[i].sym] = @ + LqSign(lqBook[i].qty)]
    /\ lqBook' = [lqBook EXCEPT ![i].qty = @ - LqSign(@)]
    /\ lqCause' = [lqCause EXCEPT ![lqBook[i].sym] =
                     @ \cup LqStale(lqBook[i].sym, lqBook[i].by)]
    /\ UNCHANGED <<lqDoomed, lqSent, lqTwap, lqStaged, lqCall, lqTried,
                   lqFailed, lqSoak, lqFaults>>

LqCancelLands(i) ==
    /\ i \in lqDoomed
    /\ lqDoomed' = lqDoomed \ {i} /\ lqBook' = [lqBook EXCEPT ![i].qty = 0]
    /\ UNCHANGED <<lqHeld, lqSent, lqTwap, lqStaged, lqCall, lqTried, lqFailed,
                   lqSoak, lqFaults, lqCause>>

\* Bound: the strategies submit one order, whole or in slices.
LqTraded == \/ \E i \in LqIds : lqBook[i].by = LqStrategy
            \/ \E s \in LqSyms : lqTwap[s] # 0

\* _submit_sync: a market order, or a passive order that slices itself in its own thread.
LqSubmit(s, q, passive) ==
    /\ ~lqSoak /\ s \notin lqStaged /\ ~LqTraded
    /\ lqStaged' = lqStaged \cup {s}
    /\ IF passive /\ s \in LqStocks
       THEN lqTwap' = [lqTwap EXCEPT ![s] = q] /\ UNCHANGED <<lqBook, lqSent>>
       ELSE LqPlace(s, q, LqStrategy) /\ UNCHANGED lqTwap
    /\ UNCHANGED <<lqHeld, lqDoomed, lqCall, lqTried, lqFailed, lqSoak, lqFaults, lqCause>>


\* One turn of the slicing loop of _submit_passive_twap_sync.
LqSlice(s) ==
    /\ lqTwap[s] # 0
    /\ LqPlace(s, LqSign(lqTwap[s]), LqStrategy)
    /\ lqTwap' = [lqTwap EXCEPT ![s] = @ - LqSign(@)]
    /\ UNCHANGED <<lqHeld, lqDoomed, lqStaged, lqCall, lqTried, lqFailed,
                   lqSoak, lqFaults, lqCause>>

\* reconcile_with_broker_open_orders: rows without a working order are dropped.
LqReconcile ==
    /\ lqStaged' = {s \in lqStaged : LqOpen(s) # {}}
    /\ lqStaged' # lqStaged
    /\ UNCHANGED <<lqMarket, lqCall, lqTried, lqFailed, lqSoak, lqFaults, lqCause>>

-----------------------------------------------------------------------------
(* The calls.                                                              *)

LqStage(t, place, todo) ==
    /\ lqAt' = [lqAt EXCEPT ![t] = place]
    /\ lqTodo' = [lqTodo EXCEPT ![t] = todo]
LqGoto(t, place) == LqStage(t, place, lqTodo[t])

\* A snapshot is taken: what earlier calls did to its symbols is in it.
LqKeep(t, seen) ==
    /\ lqSnap' = [lqSnap EXCEPT ![t] = seen]
    /\ lqCause' = [s \in LqSyms |->
         IF seen[s] = 0 THEN lqCause[s]
         ELSE IF \E u \in LqTasks \ {t} : LqActive(u, s)
              THEN lqCause[s] \cup {"twin"} ELSE {}]

\* The guards _portfolio_flattening and _leg_flattening: the call is not active yet.
LqBegin(t) ==
    /\ lqAt[t] = "idle" /\ lqCalls < LqMaxCalls /\ lqCalls' = lqCalls + 1
    /\ lqBook' = [i \in LqIds |-> IF lqBook[i].by = t
                     THEN [lqBook[i] EXCEPT !.by = LqNobody] ELSE lqBook[i]]
    /\ \/ /\ t[1] = "all" /\ LqGoto(t, "read") /\ UNCHANGED <<lqSnap, lqCause>>
       \/ /\ t[1] \in {"leg", "rec"} /\ lqHeld[t[2]] # 0
          /\ LqKeep(t, [s \in LqSyms |-> IF s = t[2] THEN lqHeld[s] ELSE 0])
          /\ LqStage(t, IF t[1] = "leg" THEN "cancel" ELSE "check", {t[2]})
    /\ IF t[1] = "all" THEN lqTried' = {} /\ lqFailed' = {}
                       ELSE UNCHANGED <<lqTried, lqFailed>>
    /\ UNCHANGED <<lqHeld, lqDoomed, lqSent, lqTwap, lqStaged, lqSoak, lqFaults>>

\* A call outside the loops raises: the finally clause drops the guard.
LqAbort(t) ==
    /\ LqFault /\ lqAt[t] # "idle"
    /\ t[1] # "all" \/ lqAt[t] \in {"read", "clear", "close", "done"}
    /\ LqStage(t, "idle", {})
    /\ UNCHANGED <<lqMarket, lqSnap, lqStaged, lqTried, lqFailed, lqSoak, lqCalls, lqCause>>

LqRead(t) ==
    /\ lqAt[t] = "read" /\ LqKeep(t, lqHeld)
    /\ LqStage(t, IF lqHeld = [s \in LqSyms |-> 0] THEN "clear" ELSE "cancel",
               {s \in LqSyms : lqHeld[s] # 0})
    /\ UNCHANGED <<lqMarket, lqStaged, lqTried, lqFailed, lqSoak, lqCalls, lqFaults>>

\* The loop of t is done with s: its next turn, or the next loop over the same symbols.
LqTurn(t, s, next) ==
    IF lqTodo[t] = {s} THEN LqStage(t, next, LqWanted(t))
                       ELSE LqStage(t, lqAt[t], lqTodo[t] \ {s})

\* cancel_open_orders_for_symbol: the cancels stop at the first that raises, which a
\* portfolio flatten survives and a leg flatten does not.
LqCancel(t, s) ==
    /\ lqAt[t] = "cancel" /\ lqTodo[t] # {} /\ s = LqLeast(lqTodo[t])
    /\ \/ /\ lqDoomed' = lqDoomed \cup LqOpen(s) /\ UNCHANGED lqFaults
          /\ LqTurn(t, s, "await")
          /\ lqStaged' = IF t[1] = "leg" THEN lqStaged \ {s} ELSE lqStaged
       \/ /\ LqFault
          /\ \E i \in LqOpen(s) : lqDoomed' = lqDoomed \cup {j \in LqOpen(s) : j < i}
          /\ IF t[1] = "all" THEN LqTurn(t, s, "await") ELSE LqStage(t, "idle", {})
          /\ UNCHANGED lqStaged
    /\ UNCHANGED <<lqHeld, lqBook, lqSent, lqTwap, lqSnap, lqTried, lqFailed,
                   lqSoak, lqCalls, lqCause>>

\* await_open_orders_cleared: a poll saw no working order, or the deadline passed.
LqAwait(t, s) ==
    /\ lqAt[t] \in {"await", "again"} /\ lqTodo[t] # {} /\ s = LqLeast(lqTodo[t])
    /\ \/ /\ LqOpen(s) = {} \/ lqAt[t] = "again"
          /\ lqAt' = [lqAt EXCEPT ![t] =
                IF lqTodo[t] # {s} THEN "await"
                ELSE IF t[1] = "all" THEN "clear" ELSE "flatten"]
          /\ lqTodo' = [lqTodo EXCEPT ![t] = IF @ = {s} THEN LqWanted(t) ELSE @ \ {s}]
          /\ lqCause' = [lqCause EXCEPT ![s] =
                IF LqOpen(s) = {} THEN @ ELSE @ \cup {"uncleared"}]
          /\ UNCHANGED <<lqDoomed, lqFaults>>
       \/ /\ LqOpen(s) # {} /\ lqAt[t] = "await"             \* force cancel
          /\ \/ lqDoomed' = lqDoomed \cup LqOpen(s) /\ UNCHANGED lqFaults
             \/ LqFault /\ \E i \in LqOpen(s) : lqDoomed' = lqDoomed \cup (LqOpen(s) \ {i})
          /\ LqGoto(t, "again") /\ UNCHANGED lqCause
       \/ /\ t[1] = "all" /\ LqFault /\ LqTurn(t, s, "clear")  \* logged, next symbol
          /\ lqCause' = [lqCause EXCEPT ![s] = @ \cup {"uncleared"}]
          /\ UNCHANGED lqDoomed
    /\ UNCHANGED <<lqHeld, lqBook, lqSent, lqTwap, lqSnap, lqStaged, lqTried,
                   lqFailed, lqSoak, lqCalls>>

\* The recovery call: refuses when an order is not an exit, never waits for the cancels.
LqCheck(t) ==
    /\ lqAt[t] = "check"
    /\ LET s == t[2]  exits == {i \in LqOpen(s) :
                                  LqSign(lqBook[i].qty) = -LqSign(lqSnap[t][s])}
       IN \/ /\ LqOpen(s) = {} \/ exits # LqOpen(s)
             /\ LqStage(t, "idle", {}) /\ UNCHANGED <<lqDoomed, lqCause>>
          \/ /\ LqOpen(s) # {} /\ exits = LqOpen(s)
             /\ LqStage(t, "flatten", {s}) /\ lqDoomed' = lqDoomed \cup exits
             /\ lqCause' = [lqCause EXCEPT ![s] = @ \cup {"uncleared"}]
    /\ UNCHANGED <<lqHeld, lqBook, lqSent, lqTwap, lqSnap, lqStaged, lqTried,
                   lqFailed, lqSoak, lqCalls, lqFaults>>

LqClear(t) ==
    /\ lqAt[t] = "clear" /\ lqStaged' = {}
    /\ LqStage(t, IF LqWanted(t) = {} THEN "close" ELSE "flatten", LqWanted(t))
    /\ UNCHANGED <<lqMarket, lqSnap, lqTried, lqFailed, lqSoak, lqCalls, lqFaults, lqCause>>

\* No position was read: close_all_positions cancels every order and closes what is there.
LqClose(t) ==
    /\ lqAt[t] = "close" /\ LqGoto(t, "done")
    /\ IF lqSoak THEN UNCHANGED <<lqHeld, lqDoomed>>
       ELSE /\ lqHeld' = [s \in LqSyms |-> 0]
            /\ lqDoomed' = {i \in 1..lqSent : lqBook[i].qty # 0}
    /\ lqCause' = [s \in LqSyms |-> IF lqSoak \/ lqHeld[s] = 0 THEN lqCause[s]
                                    ELSE lqCause[s] \cup LqStale(s, t)]
    /\ UNCHANGED <<lqBook, lqSent, lqTwap, lqSnap, lqStaged, lqTried, lqFailed,
                   lqSoak, lqCalls, lqFaults>>


\* The symbol has a result, or the exception was logged as a failed symbol.
LqResult(t, s, ok) ==
    /\ LqTurn(t, s, "done")
    /\ lqTried' = IF t[1] = "all" /\ ok THEN lqTried \cup {s} ELSE lqTried
    /\ lqFailed' = IF t[1] = "all" /\ ~ok THEN lqFailed \cup {s} ELSE lqFailed

\* _get_nbbo_snapshot_sync: stocks only, and no quote is a legal answer.
LqQuoted(s) == s \in LqStocks

\* _wait_for_fill_sync: what the polls report of n units filled.
LqReported(n, heard) == IF heard THEN n ELSE 0

\* The market order is sent whatever the IOC order did.
SlipLqIoc(t, s) ==
    \E n \in 0..LqAbs(lqSnap[t][s]) :
        /\ UNCHANGED lqFaults
        /\ lqHeld' = [lqHeld EXCEPT ![s] = @ - n * LqSign(lqSnap[t][s])]
        /\ lqCause' = [lqCause EXCEPT ![s] = @ \cup (IF n > 0 THEN LqStale(s, t) ELSE {})]
        /\ LqGoto(t, "market") /\ UNCHANGED <<lqTried, lqFailed>>

\* _submit_ioc_limit_sync: some of the order fills at once, the rest is gone; the polls
\* that read the outcome may fail, which reads as "submitted" with nothing filled, and a
\* status text other than the two names the caller compares with counts the same.
LqIoc(t, s) ==
    \E n \in 0..LqAbs(lqSnap[t][s]), heard \in BOOLEAN :
        /\ IF heard THEN UNCHANGED lqFaults ELSE LqFault
        /\ lqHeld' = [lqHeld EXCEPT ![s] = @ - n * LqSign(lqSnap[t][s])]
        /\ lqCause' = [lqCause EXCEPT ![s] =
              @ \cup (IF n > 0 THEN LqStale(s, t) ELSE {})
                \cup (IF heard THEN {} ELSE {"unheard"})]
        /\ IF LqReported(n, heard) > 0
           THEN LqResult(t, s, TRUE)                 \* filled or partially_filled
           ELSE LqGoto(t, "market") /\ UNCHANGED <<lqTried, lqFailed>>

\* force_flatten_symbol_position: an IOC limit first when there is a quote.
LqFlatten(t, s) ==
    /\ lqAt[t] = "flatten" /\ lqTodo[t] # {} /\ s = LqLeast(lqTodo[t])
    /\ \/ /\ lqSoak /\ LqTurn(t, s, "done")                 \* returns None
          /\ UNCHANGED <<lqHeld, lqCause, lqTried, lqFailed, lqFaults>>
       \/ ~lqSoak /\ LqQuoted(s) /\ LqIoc(t, s)
       \/ /\ ~lqSoak /\ LqGoto(t, "market")                 \* crypto, or no quote
          /\ UNCHANGED <<lqHeld, lqCause, lqTried, lqFailed, lqFaults>>
       \/ /\ ~lqSoak /\ t[1] = "all" /\ LqFault /\ LqResult(t, s, FALSE)
          /\ UNCHANGED <<lqHeld, lqCause>>
    /\ UNCHANGED <<lqBook, lqDoomed, lqSent, lqTwap, lqSnap, lqStaged, lqSoak, lqCalls>>

\* _submit_market_sync: the whole quantity; it may still be working when the polls end.
LqSell(t, s) ==
    /\ lqAt[t] = "market" /\ s = LqLeast(lqTodo[t])
    /\ \/ /\ LqPlace(s, -lqSnap[t][s], t)
          /\ IF lqTodo[t] = {s} THEN LqStage(t, "done", LqWanted(t))
                                ELSE LqStage(t, "flatten", lqTodo[t] \ {s})
          /\ lqTried' = IF t[1] = "all" THEN lqTried \cup {s} ELSE lqTried
          /\ UNCHANGED <<lqFailed, lqFaults>>
       \/ /\ t[1] = "all" /\ LqFault
          /\ IF lqTodo[t] = {s} THEN LqStage(t, "done", LqWanted(t))
                                ELSE LqStage(t, "flatten", lqTodo[t] \ {s})
          /\ lqFailed' = lqFailed \cup {s} /\ UNCHANGED lqTried
          /\ LqPlace(s, -lqSnap[t][s], t) \/ UNCHANGED <<lqBook, lqSent>>
    /\ UNCHANGED <<lqHeld, lqDoomed, lqTwap, lqSnap, lqStaged, lqSoak, lqCalls, lqCause>>

\* The event is logged, the result returned, the guard dropped.
LqReturn(t) ==
    /\ lqAt[t] = "done" /\ LqStage(t, "idle", {})
    /\ UNCHANGED <<lqMarket, lqSnap, lqStaged, lqTried, lqFailed, lqSoak, lqCalls, lqFaults, lqCause>>

LqStep(t) ==
    \/ LqRead(t) \/ LqCheck(t) \/ LqClear(t) \/ LqClose(t) \/ LqReturn(t)
    \/ \E s \in LqSyms : LqCancel(t, s) \/ LqAwait(t, s) \/ LqFlatten(t, s) \/ LqSell(t, s)

LqNext ==
    \/ \E i \in LqIds : LqFill(i) \/ LqCancelLands(i)
    \/ \E s \in LqLegs, q \in {-1, 2}, passive \in BOOLEAN : LqSubmit(s, q, passive)
    \/ \E s \in LqSyms : LqSlice(s)
    \/ LqReconcile
    \/ \E t \in LqTasks : LqBegin(t) \/ LqAbort(t) \/ LqStep(t)

LqSpec == LqInit /\ [][LqNext]_lqVars

-----------------------------------------------------------------------------
\* Types; no call sends more than the orders it may, and every slice left over is a quantity the
\* broker takes (UnifiedFlattenProtocol, AlpacaBroker).
LqTypeOK ==
    /\ lqHeld \in [LqSyms -> Int]
    /\ lqTwap \in [LqSyms -> -1..2]            \* the quantities of LqNext
    /\ lqBook \in [LqIds -> [sym : LqSyms \cup {0}, qty : Int,
                            by : LqTasks \cup {LqNobody, LqStrategy}]]
    /\ lqDoomed \subseteq LqIds /\ lqSent \in 0..LqMaxOrders
    /\ lqStaged \subseteq LqSyms
    /\ lqAt \in [LqTasks -> LqPlaces]
    /\ lqSnap \in [LqTasks -> [LqSyms -> Int]]
    /\ lqTodo \in [LqTasks -> SUBSET LqSyms]
    /\ lqTried \subseteq LqSyms /\ lqFailed \subseteq LqSyms
    /\ lqSoak \in BOOLEAN /\ lqCalls \in 0..LqMaxCalls /\ lqFaults \in 0..LqMaxFaults
    /\ lqCause \in [LqSyms -> SUBSET LqCauses]

\* What the position becomes when the orders t sent for s fill.
LqTotal(f) == FoldSet(LAMBDA i, n : n + f[i], 0, LqIds)
LqSentBy(t, s) ==
    [i \in LqIds |-> IF lqBook[i].sym = s /\ lqBook[i].by = t THEN lqBook[i].qty ELSE 0]
LqExposure(t, s) == lqHeld[s] + LqTotal(LqSentBy(t, s))

\* A flatten never turns a position round: between its snapshot and its return, what is held
\* plus what it has sent stays between the snapshot and zero (flatten_protocol.py:88-168,
\* alpaca.py:600-640), except for one of the four recorded causes: a fill it did not send moved
\* the symbol after the snapshot, another call works the same symbol, the cancels were not
\* confirmed, or the outcome of the IOC order was not heard.
LqNeverReversed ==
    \A t \in LqTasks, s \in LqSyms :
        LqActive(t, s) /\ lqCause[s] = {}
            => LqExposure(t, s) * LqSign(lqSnap[t][s]) \in 0..LqAbs(lqSnap[t][s])

\* One symbol's broker error never leaves the later ones untried: a portfolio flatten that
\* returns has a result or a recorded failure for every position it read
\* (flatten_protocol.py:135-166).
LqEveryoneTried ==
    lqAt[<<"all", 0>>] = "done" /\ ~lqSoak
        => lqTried \cup lqFailed = LqWanted(<<"all", 0>>)

\* What an emergency flatten promises: it never turns a position round without a named cause, and no
\* position of its snapshot is left out because another one failed.
LqFlattensOnly == LqTypeOK /\ LqNeverReversed /\ LqEveryoneTried
=============================================================================
