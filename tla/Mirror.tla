------------------------------- MODULE Mirror -------------------------------
(***************************************************************************)
(* Rows the bot mirrors to Supabase (src/control/supabase_sync.py): an      *)
(* order and its trade, the unitized return series of a leg                 *)
(* (control/leg_return.py, engine/leg_performance.py), the risk state; and  *)
(* the age a report may claim for a copied database                         *)
(* (control/mirror_freshness.py).  One thread, one REST call per step; a    *)
(* call may fail before or after it took effect and nothing is retried but  *)
(* what the next cycle sends anyway.                                        *)
(*                                                                          *)
(* NAV is kept as the run of the series it belongs to: a run starts where   *)
(* next_nav_state seeds at START_NAV, every other step carries it on.       *)
(***************************************************************************)
EXTENDS Integers, Sequences, FiniteSets

CONSTANTS
    MrPnls,             \* realized and unrealized P&L
    MrStale,            \* stale_after_seconds, in ticks
    MrMaxSteps,         \* bound: orders, ticks of the leg, of the risk state and of the copy
    MrMaxFaults         \* bound: failed calls, restarts

ASSUME MrAssumption == 0 \in MrPnls /\ MrPnls \subseteq Int /\ {MrStale, MrMaxSteps, MrMaxFaults} \subseteq Nat

MrOuts == {"ok", "failed", "lost"}      \* lost: took effect, but the answer did not come
MrAbsent == [run |-> 0, funded |-> FALSE, pnl |-> 0]

VARIABLES
    mrPart,       \* the table this behaviour is about
    mrAt,         \* the next call
    mrOrder,      \* mirror id of the broker order under way (0 = None)
    mrOrders,     \* orders: status, by id
    mrTrades,     \* trades: how many rows
    mrFills,      \* fills at the broker
    mrLeg,        \* _leg_nav of the leg: [run, funded, pnl]; run 0 = None
    mrKnown,      \* the leg has an entry in _leg_nav
    mrRuns,       \* runs of the series started so far
    mrSeries,     \* leg_return_series: the last row (run 0 = none)
    mrBlind,      \* a cold start could not read the series
    mrRisk,       \* risk_state: rows, and the last halted flag written
    mrData, mrBeat, mrMark, \* the copy: age of its data, of its newest heartbeat, of its marker (MrOld = none)
    mrSteps, mrFaults

mrVars == <<mrPart, mrAt, mrOrder, mrOrders, mrTrades, mrFills, mrLeg, mrKnown, mrRuns, mrSeries, mrBlind, mrRisk,
            mrData, mrBeat, mrMark, mrSteps, mrFaults>>
mrOrdersVars == <<mrOrder, mrOrders, mrTrades, mrFills>>
mrLegVars == <<mrLeg, mrKnown, mrRuns, mrSeries, mrBlind>>
mrCopyVars == <<mrData, mrBeat, mrMark>>

MrOld == MrStale + 2
MrOutcome(out) == IF out = "ok" THEN UNCHANGED mrFaults ELSE mrFaults < MrMaxFaults /\ mrFaults' = mrFaults + 1
MrApplied(out) == out # "failed"
MrStep(part) == mrPart = part /\ mrSteps < MrMaxSteps /\ mrSteps' = mrSteps + 1 /\ UNCHANGED mrPart
MrGoesOn(part) == mrPart = part /\ UNCHANGED <<mrPart, mrSteps>>

MrInit ==
    /\ mrPart \in {"orders", "leg", "risk", "copy"} /\ mrAt = "idle" /\ mrOrder = 0 /\ mrOrders = <<>> /\ mrTrades = 0 /\ mrFills = 0
    /\ mrLeg = MrAbsent /\ mrKnown = FALSE /\ mrRuns = 0 /\ mrSeries = MrAbsent /\ mrBlind = FALSE
    /\ mrRisk = [rows |-> 0, halted |-> FALSE] /\ mrData = 0 /\ mrBeat \in {0, MrOld} /\ mrMark = MrOld
    /\ mrSteps = 0 /\ mrFaults = 0

-----------------------------------------------------------------------------
(* An order.                                                               *)

\* sync_order_submitted: no id where the call failed, nor where the answer was lost.
MrSubmitted(out) ==
    /\ mrAt = "idle" /\ MrStep("orders") /\ MrOutcome(out)
    /\ mrOrders' = IF MrApplied(out) THEN Append(mrOrders, "pending") ELSE mrOrders
    /\ mrOrder' = IF out = "ok" THEN Len(mrOrders) + 1 ELSE 0
    /\ mrAt' = "submitted" /\ UNCHANGED <<mrTrades, mrFills, mrLegVars, mrRisk, mrCopyVars>>

\* sync_order_rejected: a row of its own, and an event where that was written.
MrRejected(out) ==
    /\ mrAt = "idle" /\ MrStep("orders") /\ MrOutcome(out)
    /\ mrOrders' = IF MrApplied(out) THEN Append(mrOrders, "rejected") ELSE mrOrders
    /\ UNCHANGED <<mrAt, mrOrder, mrTrades, mrFills, mrLegVars, mrRisk, mrCopyVars>>

\* The trade is written also where the order could not be.
SlipMrAfter(out) == "trade"
\* sync_order_filled: an error ends it
MrAfter(out) == IF out = "ok" THEN "trade" ELSE "idle"

\* ... with an id it updates the row, without one it inserts another.
MrFilled(out) ==
    /\ mrAt = "submitted" /\ MrGoesOn("orders") /\ MrOutcome(out) /\ mrFills' = mrFills + 1
    /\ mrOrders' = IF ~MrApplied(out) THEN mrOrders
                   ELSE IF mrOrder # 0 THEN [mrOrders EXCEPT ![mrOrder] = "filled"] ELSE Append(mrOrders, "filled")
    /\ mrAt' = MrAfter(out) /\ mrOrder' = 0 /\ UNCHANGED <<mrTrades, mrLegVars, mrRisk, mrCopyVars>>

MrTrade(out) ==
    /\ mrAt = "trade" /\ MrGoesOn("orders") /\ MrOutcome(out) /\ mrAt' = "idle"
    /\ mrTrades' = mrTrades + (IF MrApplied(out) THEN 1 ELSE 0)
    /\ UNCHANGED <<mrOrder, mrOrders, mrFills, mrLegVars, mrRisk, mrCopyVars>>

-----------------------------------------------------------------------------
(* A leg.                                                                  *)

\* attribute_leg: unrealized P&L of a symbol with several owners is nobody's.
MrAttributed(realized, unrealized, unique) == realized + (IF unique THEN unrealized ELSE 0)

\* next_nav_state: capital that is gone keeps the units
MrNextNav(prev, pnl, capital) ==
    IF prev.run = 0 \/ ~prev.funded THEN [run |-> mrRuns + 1, funded |-> capital > 0, pnl |-> pnl]
    ELSE [run |-> prev.run, funded |-> TRUE, pnl |-> pnl]

\* _load_leg_nav_state: an error gives None like an empty table.
MrLoaded(read) == IF read = "ok" THEN mrSeries ELSE MrAbsent

\* _leg_realized_from_ledger: 0.0 where the ledger could not be read.
MrRealized(ledger, realized) == IF ledger = "ok" THEN realized ELSE 0

\* sync_leg_return: what is in memory moves on before the row is written, written or not.
MrReturn(read, out, pnl, capital) ==
    LET next == MrNextNav(IF mrKnown THEN mrLeg ELSE MrLoaded(read), pnl, capital)
    IN /\ mrKnown' = TRUE /\ mrLeg' = next /\ mrRuns' = IF next.run > mrRuns THEN next.run ELSE mrRuns
       /\ mrBlind' = (mrBlind \/ read # "ok")
       /\ mrSeries' = IF MrApplied(out) THEN next ELSE mrSeries

\* sync_leg_attribution: the row of the snapshot may fail, the return follows.
MrAttribution(read, ledger, out, realized, unrealized, unique, capital) ==
    /\ MrStep("leg") /\ (read = "ok" \/ ~mrKnown)
    /\ LET faults == Cardinality({x \in {<<1, read>>, <<2, ledger>>, <<3, out>>} : x[2] # "ok"})
       IN mrFaults + faults <= MrMaxFaults /\ mrFaults' = mrFaults + faults
    /\ MrReturn(read, out, MrAttributed(MrRealized(ledger, realized), unrealized, unique), capital)
    /\ UNCHANGED <<mrAt, mrOrdersVars, mrRisk, mrCopyVars>>

-----------------------------------------------------------------------------
(* The risk state.                                                         *)

\* sync_risk_state: rows after its select and its update or insert
MrRows(out) == IF MrApplied(out) /\ mrRisk.rows = 0 THEN 1 ELSE mrRisk.rows

MrRiskState(select, out, halted) ==
    /\ MrStep("risk") /\ MrOutcome(IF select = "ok" THEN out ELSE select)
    /\ mrRisk' = IF select = "ok" /\ MrApplied(out) THEN [rows |-> MrRows(out), halted |-> halted] ELSE mrRisk
    /\ UNCHANGED <<mrAt, mrOrdersVars, mrLegVars, mrCopyVars>>

-----------------------------------------------------------------------------
(* The copy.                                                               *)

MrOlder(age) == IF age < MrOld THEN age + 1 ELSE MrOld

\* A refresh brings the data and the heartbeats of the source, which may itself be down for long; only
\* a refresh that ended well is stamped.  mirror_freshness reads marker and heartbeat of the copy.
MrRefresh(beat) ==
    /\ mrPart = "copy" /\ mrAt = "idle" /\ mrAt' = "copied" /\ mrData' = 0 /\ mrBeat' = beat
    /\ UNCHANGED <<mrPart, mrOrdersVars, mrLegVars, mrRisk, mrMark, mrSteps, mrFaults>>

MrRecordSync ==
    /\ mrPart = "copy" /\ mrAt = "copied" /\ mrAt' = "idle" /\ mrMark' = 0
    /\ UNCHANGED <<mrPart, mrOrdersVars, mrLegVars, mrRisk, mrData, mrBeat, mrSteps, mrFaults>>

\* A refresh takes less than a tick.
MrTick ==
    /\ mrPart = "copy" /\ mrAt # "copied" /\ mrData' = MrOlder(mrData) /\ mrBeat' = MrOlder(mrBeat) /\ mrMark' = MrOlder(mrMark)
    /\ UNCHANGED <<mrPart, mrAt, mrOrdersVars, mrLegVars, mrRisk, mrSteps, mrFaults>>

\* mirror_freshness: the marker, else the heartbeat; no age is stale
MrIsStale == (IF mrMark # MrOld THEN mrMark ELSE mrBeat) > MrStale

-----------------------------------------------------------------------------
\* A restart forgets what was in memory, and breaks off a call.
MrRestart ==
    /\ mrFaults < MrMaxFaults /\ mrFaults' = mrFaults + 1 /\ mrAt' = "idle" /\ mrOrder' = 0 /\ mrLeg' = MrAbsent /\ mrKnown' = FALSE
    /\ UNCHANGED <<mrPart, mrOrders, mrTrades, mrFills, mrRuns, mrSeries, mrBlind, mrRisk, mrCopyVars, mrSteps>>

MrNext ==
    \/ \E out \in MrOuts : MrSubmitted(out) \/ MrRejected(out) \/ MrFilled(out) \/ MrTrade(out)
    \/ \E read, ledger \in {"ok", "failed"}, out \in MrOuts, realized, unrealized \in MrPnls, unique \in BOOLEAN, capital \in {0, 1} :
            MrAttribution(read, ledger, out, realized, unrealized, unique, capital)
    \/ \E select \in {"ok", "failed"}, out \in MrOuts, halted \in BOOLEAN : MrRiskState(select, out, halted)
    \/ \E beat \in {0, MrOld} : MrRefresh(beat)
    \/ MrRecordSync \/ MrTick \/ MrRestart

MrSpec == MrInit /\ [][MrNext]_mrVars

-----------------------------------------------------------------------------
\* Types.
MrTypeOK ==
    /\ mrAt \in {"idle", "submitted", "trade", "copied"} /\ mrOrder \in 0..Len(mrOrders)
    /\ mrOrders \in Seq({"pending", "filled", "rejected"}) /\ {mrTrades, mrFills, mrSteps, mrFaults} \subseteq Nat
    /\ {mrLeg, mrSeries} \subseteq [run : 0..mrRuns, funded : BOOLEAN, pnl : Int] /\ {mrKnown, mrBlind} \subseteq BOOLEAN
    /\ mrRisk \in [rows : 0..1, halted : BOOLEAN] /\ {mrData, mrBeat, mrMark} \subseteq 0..MrOld

\* A mirrored trade has a filled order beside it, whatever was lost on the way.
MrTradeBacked == mrTrades <= Cardinality({i \in DOMAIN mrOrders : mrOrders[i] = "filled"})

\* The curve of a leg that has once had capital is never started again, over restarts, lost rows and
\* capital taken away and given back, unless a cold start could not read the series.
MrCurveHolds == [][(mrSeries.funded /\ ~mrBlind') => mrSeries'.run = mrSeries.run]_mrVars

\* A report that calls a copy fresh is right: its data came within the limit.
MrFreshIsRecent == (mrPart = "copy" /\ ~MrIsStale) => mrData <= MrStale

\* What the mirror promises a reader: a trade has its order, the curve does not start again, and fresh
\* means recent.
MrTells == [](MrTypeOK /\ MrTradeBacked /\ MrFreshIsRecent) /\ MrCurveHolds
=============================================================================
