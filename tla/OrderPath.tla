----------------------------- MODULE OrderPath -----------------------------
(***************************************************************************)
(* The live order path: IdempotentExecutionAdapter.submit_orders            *)
(* (src/execution/idempotent_execution_adapter.py) in front of              *)
(* AlpacaBroker.submit_orders (src/broker/alpaca.py).                        *)
(*                                                                          *)
(* Several submit_orders coroutines run at once and give way at each await; *)
(* the broker call runs in a worker thread.  An order stands for its        *)
(* restart-stable client_order_id.  The broker (external) keeps what it     *)
(* accepted, and takes an order that carries an id once.                    *)
(***************************************************************************)
EXTENDS Integers, Sequences

CONSTANTS
    Orders,       \* logical orders, each with its client_order_id
    Crypto,       \* those on crypto symbols
    Liquidation,  \* those with order_type "market" (forced liquidation)
    Calls,        \* concurrent submit_orders coroutines
    Batches,      \* the order lists a caller may pass
    Qty,          \* order.qty: the shares of each order
    TwapSlices,   \* TWAP_SLICES
    MaxCrashes

NoOrder == "none"
Contexts == {"none", "plain", "elevated", "critical", "force_ioc"}

ASSUME OrderPathAssumption ==
    /\ Crypto \subseteq Orders /\ Liquidation \subseteq Orders
    /\ \A b \in Batches : b \in Seq(Orders)
    /\ Qty \in [Orders -> Nat \ {0}]
    /\ TwapSlices \in Nat \ {0}
    /\ MaxCrashes \in Nat

VARIABLES
    proc,       \* "up" or "down"
    soak,       \* SOAK_TEST_MODE of the running process
    seen,       \* _seen: ids reserved by this process
    pc,         \* where each call is
    todo,       \* what its loop over orders has left
    cur,        \* the order it is looking up or slicing, NoOrder at other times
    toSubmit,   \* to_submit, then what _submit_sync has left of it
    left,       \* TWAP: shares not yet sent
    onBooks,    \* ids the broker can find
    placed,     \* shares the broker accepted for each order
    placedNow,  \* those sent by the running process (history)
    settled,    \* orders this process found at the broker, tried to send or
                \* answered in soak mode (history)
    limited,    \* orders ever sent as a limit order, IOC or TWAP (history)
    crashes

broker == <<onBooks, placed, placedNow, limited>>
process == <<proc, soak, crashes>>
vars == <<proc, soak, seen, pc, todo, cur, toSubmit, left, onBooks, placed,
          placedNow, settled, limited, crashes>>

-----------------------------------------------------------------------------
(* AlpacaBroker: tactic, slice size, id.                                   *)

\* _submit_sync's choice; crypto has no TWAP.
Tactic(o, ctx) ==
    CASE ctx = "none" \/ o \in Liquidation -> "market"
      [] ctx = "elevated" /\ o \in Orders \ (Crypto \cup Liquidation) -> "twap"
      [] OTHER -> "ioc"

\* slice_qty = max(1, int(max(qty / TWAP_SLICES, 1))).
SliceQty(o) == IF Qty[o] \div TwapSlices > 1 THEN Qty[o] \div TwapSlices ELSE 1

\* child_qty = min(slice_qty, remaining).
Child(t) == IF SliceQty(cur[t]) < left[t] THEN SliceQty(cur[t]) ELSE left[t]

\* Only the market request carries client_order_id.
SlipCarriesId(tactic) == tactic = "ioc"
CarriesId(tactic) == tactic = "market"

\* The broker takes an order, unless it carries an id that is on the books.
Accept(o, tactic, qty) ==
    /\ ~(CarriesId(tactic) /\ o \in onBooks)
    /\ placed' = [placed EXCEPT ![o] = @ + qty]
    /\ placedNow' = [placedNow EXCEPT ![o] = @ + qty]
    /\ onBooks' = IF CarriesId(tactic) THEN onBooks \cup {o} ELSE onBooks
    /\ limited' = IF tactic = "market" THEN limited ELSE limited \cup {o}

-----------------------------------------------------------------------------
(* The adapter.                                                            *)

Submit(t, batch) ==
    /\ proc = "up" /\ pc[t] = "idle"
    /\ pc' = [pc EXCEPT ![t] = "loop"]
    /\ todo' = [todo EXCEPT ![t] = batch]
    /\ toSubmit' = [toSubmit EXCEPT ![t] = {}]
    /\ UNCHANGED <<process, seen, cur, left, broker, settled>>

\* The reservation, atomic under _lock and before any await.
SlipReserved(o) == seen
Reserved(o) == seen \cup {o}

\* One turn of the loop up to its await; a seen id is answered duplicate_noop.
Reserve(t) ==
    /\ pc[t] = "loop" /\ todo[t] # <<>>
    /\ LET o == Head(todo[t])
       IN  IF o \in seen THEN UNCHANGED <<seen, pc, cur>>
           ELSE /\ seen' = Reserved(o)
                /\ cur' = [cur EXCEPT ![t] = o]
                /\ pc' = [pc EXCEPT ![t] = "lookup"]
    /\ todo' = [todo EXCEPT ![t] = Tail(@)]
    /\ UNCHANGED <<process, toSubmit, left, broker, settled>>

\* _existing_broker_order answers: a found order is a duplicate_noop, and an
\* order not found, or a query that raised (both layers return None), is new.
Lookup(t) ==
    /\ pc[t] = "lookup"
    /\ \/ /\ cur[t] \in onBooks
          /\ settled' = settled \cup {cur[t]}
          /\ UNCHANGED toSubmit
       \/ /\ toSubmit' = [toSubmit EXCEPT ![t] = @ \cup {cur[t]}]
          /\ UNCHANGED settled
    /\ pc' = [pc EXCEPT ![t] = "loop"]
    /\ cur' = [cur EXCEPT ![t] = NoOrder]
    /\ UNCHANGED <<process, seen, todo, left, broker>>

\* The loop is over: delegate what is new, if anything.
Delegate(t) ==
    /\ pc[t] = "loop" /\ todo[t] = <<>>
    /\ pc' = [pc EXCEPT ![t] = IF toSubmit[t] = {} THEN "idle" ELSE "send"]
    /\ UNCHANGED <<process, seen, todo, cur, toSubmit, left, broker, settled>>

-----------------------------------------------------------------------------
(* AlpacaBroker.submit_orders and _submit_sync.                            *)

\* Soak mode answers every order soak_blocked and sends nothing.
SoakBlocked(t) ==
    /\ pc[t] = "send" /\ soak
    /\ settled' = settled \cup toSubmit[t]
    /\ toSubmit' = [toSubmit EXCEPT ![t] = {}]
    /\ pc' = [pc EXCEPT ![t] = "idle"]
    /\ UNCHANGED <<process, seen, todo, cur, left, broker>>

\* What an order that is done with, sent or failed, leaves of the batch.
SlipRemaining(t, o, ok) == IF ok THEN toSubmit[t] \ {o} ELSE {}
Remaining(t, o, ok) == toSubmit[t] \ {o}

\* An order's result is in; an exception only ends that order
\* (submission_failed).  The batch is walked in any order.
Done(t, o, ok) ==
    LET rest == Remaining(t, o, ok)
    IN  /\ toSubmit' = [toSubmit EXCEPT ![t] = rest]
        /\ cur' = [cur EXCEPT ![t] = NoOrder]
        /\ settled' = settled \cup {o}
        /\ pc' = [pc EXCEPT ![t] = IF rest = {} THEN "idle" ELSE "send"]

\* submit_order raised: before the broker took the order, or after it (the
\* answer was lost).
Failed(o, tactic, qty) == UNCHANGED broker \/ Accept(o, tactic, qty)

\* A market or IOC order; polling for its fill never raises.
SendSingle(t) ==
    /\ pc[t] = "send" /\ ~soak
    /\ \E o \in toSubmit[t], ctx \in Contexts :
         LET tactic == Tactic(o, ctx)
         IN  /\ tactic # "twap"
             /\ \/ Accept(o, tactic, Qty[o]) /\ Done(t, o, TRUE)
                \/ Failed(o, tactic, Qty[o]) /\ Done(t, o, FALSE)
    /\ UNCHANGED <<process, seen, todo, left>>

StartTwap(t) ==
    /\ pc[t] = "send" /\ ~soak
    /\ \E o \in toSubmit[t], ctx \in Contexts :
         /\ Tactic(o, ctx) = "twap"
         /\ cur' = [cur EXCEPT ![t] = o]
         /\ left' = [left EXCEPT ![t] = Qty[o]]
    /\ pc' = [pc EXCEPT ![t] = "slice"]
    /\ UNCHANGED <<process, seen, todo, toSubmit, broker, settled>>

\* One slice; an exception drops the whole order, the slices already sent
\* included.
SendSlice(t) ==
    /\ pc[t] = "slice"
    /\ \/ /\ Accept(cur[t], "twap", Child(t))
          /\ left' = [left EXCEPT ![t] = @ - Child(t)]
          /\ IF left'[t] <= 0 THEN Done(t, cur[t], TRUE)
             ELSE UNCHANGED <<toSubmit, cur, settled, pc>>
       \/ /\ Failed(cur[t], "twap", Child(t))
          /\ left' = [left EXCEPT ![t] = 0]
          /\ Done(t, cur[t], FALSE)
    /\ UNCHANGED <<process, seen, todo>>

-----------------------------------------------------------------------------
(* Process death and restart.                                              *)

Crash ==
    /\ proc = "up" /\ crashes < MaxCrashes
    /\ proc' = "down" /\ crashes' = crashes + 1
    /\ pc' = [t \in Calls |-> "idle"]
    /\ toSubmit' = [t \in Calls |-> {}]
    /\ todo' = [t \in Calls |-> <<>>]
    /\ cur' = [t \in Calls |-> NoOrder]
    /\ left' = [t \in Calls |-> 0]
    /\ seen' = {} /\ settled' = {}
    /\ placedNow' = [o \in Orders |-> 0]
    /\ UNCHANGED <<soak, onBooks, placed, limited>>

\* A new adapter: _seen starts empty.
Boot ==
    /\ proc = "down" /\ proc' = "up"
    /\ soak' \in BOOLEAN
    /\ UNCHANGED <<seen, pc, todo, cur, toSubmit, left, broker, settled, crashes>>

Init ==
    /\ proc = "up" /\ soak \in BOOLEAN
    /\ seen = {} /\ settled = {}
    /\ pc = [t \in Calls |-> "idle"]
    /\ todo = [t \in Calls |-> <<>>]
    /\ cur = [t \in Calls |-> NoOrder]
    /\ toSubmit = [t \in Calls |-> {}]
    /\ left = [t \in Calls |-> 0]
    /\ onBooks = {} /\ limited = {}
    /\ placed = [o \in Orders |-> 0]
    /\ placedNow = [o \in Orders |-> 0]
    /\ crashes = 0

Step(t) ==
    \/ Reserve(t) \/ Lookup(t) \/ Delegate(t)
    \/ SoakBlocked(t) \/ SendSingle(t) \/ StartTwap(t) \/ SendSlice(t)

Next ==
    \/ \E t \in Calls, b \in Batches : Submit(t, b)
    \/ \E t \in Calls : Step(t)
    \/ Crash \/ Boot

Spec == Init /\ [][Next]_vars

\* The event loop and the worker thread run every call that can go on.
FairSpec == Spec /\ \A t \in Calls : WF_vars(Step(t))

-----------------------------------------------------------------------------
(* Properties.                                                             *)

\* The state stays in its ranges.
TypeOK ==
    /\ proc \in {"up", "down"} /\ soak \in BOOLEAN
    /\ seen \subseteq Orders /\ settled \subseteq Orders
    /\ pc \in [Calls -> {"idle", "loop", "lookup", "send", "slice"}]
    /\ todo \in [Calls -> Seq(Orders)]
    /\ cur \in [Calls -> Orders \cup {NoOrder}]
    /\ toSubmit \in [Calls -> SUBSET Orders]
    /\ left \in [Calls -> Nat]
    /\ onBooks \subseteq Orders /\ limited \subseteq Orders
    /\ placed \in [Orders -> Nat]
    /\ placedNow \in [Orders -> Nat]
    /\ crashes \in 0..MaxCrashes

\* "interleaved submissions of the same id cannot both pass the check (no
\* orphan dup)": a process never gives the broker more than the order's
\* quantity, whatever tactic, failed slice, lost answer or retry comes up.
OncePerProcess == \A o \in Orders : placedNow[o] <= Qty[o]

\* "a restart re-submit of the SAME logical order is a NO-OP, not a
\* duplicate": true of the orders that only went out as market orders, forced
\* liquidations among them.
MarketOnce == \A o \in Orders \ limited : placed[o] <= Qty[o]

\* A reservation is never released, so it must be honoured: a reserved order
\* is found at the broker or sent, even when its neighbours in the batch fail,
\* unless the process dies.
ReservedIsTried ==
    \A o \in Orders : o \in seen ~> o \in settled \/ o \notin seen
=============================================================================
