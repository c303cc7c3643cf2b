----------------------------- MODULE PreFlight -----------------------------
(***************************************************************************)
(* Pre-flight broker reconciliation (src/engine/pre_flight_reconciliation   *)
(* .py) inside the supervisor's start (engine/control_plane.py), with the   *)
(* lock and the deferred latch of control_plane_latches (governance.py,     *)
(* recon_recovery.py).  One strategy and symbol; time is counted in bars;   *)
(* fills are signed units, oldest first; each fill has a price, and the     *)
(* position's average price is that of its opening fill.                    *)
(***************************************************************************)
EXTENDS Integers, Sequences, FiniteSetsExt

CONSTANTS
    PfQtys,      \* signed quantities a fill may have
    PfPrices,
    PfWindows,   \* the lookbacks, in bars, tried one after the other
    PfMaxBars,   \* max_bars_in_trade
    PfMaxFills, PfMaxNow   \* bounds: fills ever made, bars ever passed

ASSUME PfAssumption ==
    /\ PfQtys \subseteq Int \ {0} /\ PfWindows \in Seq(Nat) /\ PfWindows # <<>>
    /\ PfMaxBars \in Nat \ {0} /\ PfMaxFills \in Nat /\ PfMaxNow \in Nat

VARIABLES
    pfFills,    \* the broker's fills: quantity, bar, price
    pfNow,
    pfOdd,      \* an unmapped symbol, or a quantity that is not whole shares
    pfLocal,    \* the strategy's persisted snapshot: quantity, price, bars
    pfLock,     \* PRE_FLIGHT_RECON lock
    pfDeferred, \* DEFERRED_PRE_OPEN_RECON latch
    pfDefer,    \* defer_latch of the running engine
    pfAt,       \* where the run is
    pfSeen,     \* the position it read: quantity, price
    pfWin,      \* the lookback it tries
    pfSup,      \* SupervisorState
    pfRaced     \* a fill came after the position was read (history)

pfVars == <<pfFills, pfNow, pfOdd, pfLocal, pfLock,
            pfDeferred, pfDefer, pfAt, pfSeen, pfWin, pfSup, pfRaced>>
pfBroker == <<pfFills, pfNow, pfOdd>>
pfLatches == <<pfLock, pfDeferred>>

PfFlat == [qty |-> 0, price |-> 0]

\* The inventory before fill k, and now.
PfQty == [k \in DOMAIN pfFills |-> pfFills[k].qty]
PfSum(ks) == FoldSet(LAMBDA k, n : n + PfQty[k], 0, ks)
PfBefore(k) == PfSum(1..(k - 1))
PfHeld == PfSum(DOMAIN pfFills)
PfSign(n) == IF n > 0 THEN 1 ELSE IF n < 0 THEN -1 ELSE 0

\* The fill that opened the position of today: the last one that left zero or crossed it.
PfOpening == Max({k \in DOMAIN pfFills : PfSign(PfBefore(k)) # PfSign(PfHeld)})
PfPosition == IF PfHeld = 0 THEN PfFlat ELSE [qty |-> PfHeld, price |-> pfFills[PfOpening].price]

PfInit ==
    /\ pfFills = <<>> /\ pfNow = 0 /\ pfOdd = FALSE
    /\ pfLocal = [qty |-> 0, price |-> 0, bars |-> 0]
    /\ pfLock = FALSE /\ pfDeferred = FALSE /\ pfDefer = FALSE
    /\ pfAt = "idle" /\ pfSeen = PfFlat /\ pfWin = 1 /\ pfSup = "INACTIVE"
    /\ pfRaced = FALSE

-----------------------------------------------------------------------------
(* The world.                                                              *)

PfFill(q, p) ==
    /\ Len(pfFills) < PfMaxFills
    /\ pfFills' = Append(pfFills, [qty |-> q, at |-> pfNow, price |-> p])
    /\ pfRaced' = (pfRaced \/ pfAt # "idle")
    /\ UNCHANGED <<pfNow, pfOdd, pfLocal, pfLatches, pfDefer, pfAt,
                   pfSeen, pfWin, pfSup>>

PfWorld ==
    /\ \/ pfNow < PfMaxNow /\ pfNow' = pfNow + 1 /\ pfAt = "idle" /\ UNCHANGED pfOdd
       \/ ~pfOdd /\ pfOdd' = TRUE /\ UNCHANGED pfNow
    /\ UNCHANGED <<pfFills, pfLocal, pfLatches, pfDefer, pfAt, pfSeen,
                   pfWin, pfSup, pfRaced>>

-----------------------------------------------------------------------------
(* find_position_entry_fill_ts: signed inventory, newest fill first.       *)

PfCrossed(prior, net) ==
    IF net = 0 THEN prior # 0 ELSE PfSign(prior) = -PfSign(net)

\* The fills of a lookback.
PfVisible(w) == {k \in DOMAIN pfFills : pfNow - pfFills[k].at <= PfWindows[w]}

\* The inventory after fill k, walked back from the target over the fills seen.
PfAfter(seen, target, k) == target - PfSum({j \in seen : j > k})

\* The walk stops only where the inventory is exactly zero.
SlipPfEntry(seen, target) ==
    LET hits == {k \in seen : PfAfter(seen, target, k) - PfQty[k] = 0}
    IN IF hits = {} THEN 0 ELSE Max(hits)
\* The newest fill that left zero or crossed it; 0 when the walk never gets there.
PfEntry(seen, target) ==
    LET hits == {k \in seen : PfCrossed(PfAfter(seen, target, k), PfAfter(seen, target, k) - PfQty[k])}
    IN IF hits = {} THEN 0 ELSE Max(hits)

\* deduce_bars_in_trade
PfBars(entry) ==
    LET bars == pfNow - entry + 1 IN IF bars > PfMaxBars THEN PfMaxBars ELSE bars

-----------------------------------------------------------------------------
(* ControlPlaneSupervisor.start and PreFlightReconciliationEngine.execute. *)

\* The latch rows: read at a start, engaged by a failed run, cleared by an operator.
PfLocked == pfLock
PfEngageLock == pfLock' = TRUE /\ UNCHANGED pfDeferred        \* with apply_soft_degrade
PfScheduleDeferred == pfDeferred' = TRUE /\ UNCHANGED pfLock
PfReleaseLock == pfLock /\ pfLock' = FALSE /\ UNCHANGED <<pfDeferred, pfOdd>>
PfClearDeferred == pfDeferred /\ pfDeferred' = FALSE /\ UNCHANGED <<pfLock, pfOdd>>


PfStart(defer) ==
    /\ pfSup \in {"INACTIVE", "FAILED"} /\ pfAt = "idle"
    /\ IF PfLocked THEN pfSup' = "FAILED" /\ UNCHANGED <<pfAt, pfDefer>>   \* pre_existing_lock
       ELSE pfSup' = "STARTING" /\ pfAt' = "positions" /\ pfDefer' = defer
    /\ UNCHANGED <<pfBroker, pfLocal, pfLatches, pfSeen, pfWin, pfRaced>>

PfPositions ==
    /\ pfAt = "positions" /\ pfAt' = "orders"
    /\ pfSeen' = PfPosition /\ pfRaced' = FALSE
    /\ UNCHANGED <<pfBroker, pfLocal, pfLatches, pfDefer, pfWin, pfSup>>

\* execute returns; what it read is gone.
PfOver == /\ pfAt' = "idle" /\ pfSeen' = PfFlat /\ pfWin' = 1
          /\ pfDefer' = FALSE /\ pfRaced' = FALSE

\* _latch_soft_degrade and the supervisor's FAILED.
PfLatch ==
    /\ PfOver /\ pfSup' = "FAILED"
    /\ IF pfDefer THEN PfScheduleDeferred ELSE PfEngageLock

\* _detect_irrecoverable_mismatch: a symbol of no leg, or a fraction of a share.
PfIrrecoverable == pfOdd

\* _snapshot_from_broker, persisted; the run is over.
PfPersist(bars) ==
    /\ pfLocal' = [qty |-> pfSeen.qty, price |-> pfSeen.price,
                   bars |-> IF pfSeen.qty = 0 THEN 0 ELSE bars]
    /\ PfOver /\ pfSup' = "RUNNING"

PfKept == IF pfLocal.bars = 0 THEN 1
          ELSE IF pfLocal.bars > PfMaxBars THEN PfMaxBars ELSE pfLocal.bars

\* _lacks_matching_local_telemetry
PfLacks == pfSeen.qty # 0 /\ (pfLocal.qty # pfSeen.qty \/ pfLocal.price # pfSeen.price)

\* The open orders are read: irrecoverable, to be resolved by fills, or done.
PfOrders ==
    /\ pfAt = "orders"
    /\ \/ PfIrrecoverable /\ PfLatch /\ UNCHANGED pfLocal
       \/ /\ ~PfIrrecoverable /\ PfLacks /\ pfAt' = "fills"
          /\ UNCHANGED <<pfLocal, pfLatches, pfDefer, pfSeen, pfWin, pfSup, pfRaced>>
       \/ ~PfIrrecoverable /\ ~PfLacks /\ PfPersist(PfKept) /\ UNCHANGED pfLatches
    /\ UNCHANGED pfBroker

\* resolve_position_entry_fill_ts: one lookback; none left means a deep position.
PfResolve ==
    /\ pfAt = "fills"
    /\ LET k == PfEntry(PfVisible(pfWin), pfSeen.qty)
       IN \/ k # 0 /\ PfPersist(PfBars(pfFills[k].at)) /\ UNCHANGED pfLatches
          \/ /\ k = 0 /\ pfWin < Len(PfWindows) /\ pfWin' = pfWin + 1
             /\ UNCHANGED <<pfAt, pfLocal, pfLatches, pfDefer, pfSeen, pfSup, pfRaced>>
          \/ k = 0 /\ pfWin = Len(PfWindows) /\ PfLatch /\ UNCHANGED pfLocal
    /\ UNCHANGED pfBroker

-----------------------------------------------------------------------------
(* The daemon afterwards, and the operator.                                *)

PfBar ==
    /\ pfSup \in {"RUNNING", "DEGRADED"} /\ pfNow < PfMaxNow /\ pfNow' = pfNow + 1
    /\ pfLocal' = [qty |-> PfPosition.qty, price |-> PfPosition.price,
                   bars |-> IF PfHeld = 0 THEN 0
                            ELSE IF pfLocal.bars < PfMaxBars THEN pfLocal.bars + 1 ELSE PfMaxBars]
    /\ UNCHANGED <<pfFills, pfOdd, pfLatches, pfDefer, pfAt, pfSeen,
                   pfWin, pfSup, pfRaced>>

\* escalate_liquidation_race_failure
PfEscalate ==
    /\ pfSup = "RUNNING" /\ pfSup' = "DEGRADED"
    /\ UNCHANGED <<pfBroker, pfLocal, pfLatches, pfDefer, pfAt, pfSeen, pfWin, pfRaced>>

\* stop, or a crash at any point of the start
PfStop ==
    /\ pfSup # "INACTIVE" /\ pfSup' = "INACTIVE" /\ PfOver
    /\ UNCHANGED <<pfBroker, pfLocal, pfLatches>>

\* An operator clears a latch, or repairs the book.
PfOperator ==
    /\ \/ PfReleaseLock
       \/ PfClearDeferred
       \/ pfOdd /\ pfOdd' = FALSE /\ UNCHANGED <<pfLock, pfDeferred>>
    /\ UNCHANGED <<pfFills, pfNow, pfLocal, pfDefer, pfAt,
                   pfSeen, pfWin, pfSup, pfRaced>>

PfNext ==
    \/ \E q \in PfQtys, p \in PfPrices : PfFill(q, p)
    \/ \E defer \in BOOLEAN : PfStart(defer)
    \/ PfWorld \/ PfPositions \/ PfOrders \/ PfResolve \/ PfBar \/ PfEscalate \/ PfStop \/ PfOperator

PfSpec == PfInit /\ [][PfNext]_pfVars

-----------------------------------------------------------------------------
\* Types; the local record counts bars exactly while it holds a position (reconcile).
PfTypeOK ==
    /\ Len(pfFills) <= PfMaxFills /\ pfNow \in 0..PfMaxNow 
    /\ pfLocal.bars \in 0..PfMaxBars 
    /\ (pfLocal.bars = 0) = (pfLocal.qty = 0)
    /\ {pfOdd, pfLock, pfDeferred, pfDefer, pfRaced} \subseteq BOOLEAN
    /\ pfAt \in {"idle", "positions", "orders", "fills"}
    /\ pfWin \in 1..Len(PfWindows)
    /\ pfSup \in {"INACTIVE", "STARTING", "RUNNING", "DEGRADED", "FAILED"}

\* A start that ends RUNNING has adopted the broker's position, unless a fill came after the
\* position was read; an entry that was reconstructed from fills is the one that opened the
\* position, whatever part of the history the lookback shows (pre_flight_reconciliation.py:
\* 114-243, 378-455, 545-612).
PfAdopts ==
    [][pfSup = "STARTING" /\ pfSup' = "RUNNING" /\ ~pfRaced =>
         /\ pfLocal'.qty = PfHeld
         /\ pfAt = "fills" => pfLocal'.bars = PfBars(pfFills[PfOpening].at)]_pfVars

\* A reconciliation that cannot explain the book starts nothing: while the lock, or a position
\* nobody can map, is there, no start ends RUNNING (pre_flight_reconciliation.py:115-155,
\* control_plane.py:180-190, governance.py:802-846).
PfLockedOut ==
    [][pfSup' = "RUNNING" /\ pfSup # "RUNNING" => ~pfLock /\ (pfOdd => pfAt = "fills")]_pfVars

\* What a start of the supervisor promises: it runs on the broker's position, entry and age, and never
\* past the reconciliation lock.
PfStartsTrue == []PfTypeOK /\ PfAdopts /\ PfLockedOut
=============================================================================
