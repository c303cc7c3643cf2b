---------------------------- MODULE RiskGovernor ----------------------------
(***************************************************************************)
(* The per-leg drawdown governor (src/engine/portfolio_risk_governor.py)    *)
(* and its row in the database                                              *)
(* (src/persistence/portfolio_risk_state_store.py), written through the     *)
(* write-ahead stage and read back at boot.                                 *)
(*                                                                          *)
(* A leg is measured in the cycles it is due: its cumulative PnL against    *)
(* the peak of that curve, as a share of the account's high-water.  The     *)
(* bounded history of readings is left out: its maximum never exceeds the   *)
(* peak.  Correlation and cold-start clamps keep no state.                  *)
(***************************************************************************)
EXTENDS Integers, Sequences

CONSTANTS
    RgLegs, RgPnls, RgEquities,   \* legs; cumulative PnL readings; broker equities
    RgLimit,                      \* STRATEGY_MAX_DRAWDOWN, in percent
    RgMaxCycles, RgMaxFaults      \* bounds

ASSUME RgAssumption == RgPnls \subseteq Int /\ RgEquities \subseteq Nat /\ {RgLimit, RgMaxCycles, RgMaxFaults} \subseteq Nat

VARIABLES
    rgState,      \* _strategy_peaks, the fall below each, _strategy_exit_only, _peak_broker_equity
    rgSaved,      \* _last_persisted_fingerprint (<<>> = "")
    rgStage,      \* payloads in the write-ahead stage, oldest first
    rgRow,        \* portfolio_risk_strategy_state and its stamp
    rgVerdict,    \* exit_only_strategy_ids of the last verdict
    rgCycles, rgFaults,
    rgBreach,     \* history: legs whose last reading was past the limit
    rgLost        \* history: the row boot read was not the last state measured

rgVars == <<rgState, rgSaved, rgStage, rgRow, rgVerdict, rgCycles, rgFaults, rgBreach, rgLost>>

\* legs: those with a key.  A leg without one has peak 0.
RgFresh == [legs |-> {}, peak |-> [l \in RgLegs |-> 0], fall |-> [l \in RgLegs |-> 0], exit |-> {}, broker |-> 0]
RgNoRow == [stamp |-> "none", state |-> RgFresh]
\* Rows from before: peaks of the retired formula, unstamped or stamped with its version, every leg
\* locked out by them.
RgFossil == [stamp |-> "old", state |-> [RgFresh EXCEPT !.legs = RgLegs, !.peak = [l \in RgLegs |-> 9], !.exit = RgLegs]]

\* rehydrate_risk_state with baselines: a row of another formula is refused and leaves nothing; with
\* no row every leg starts at peak 0; else the row, with no high-water.
RgRehydrated(row) ==
    CASE row = RgNoRow -> [RgFresh EXCEPT !.legs = RgLegs]
      [] row.stamp = "old" -> RgFresh
      [] OTHER -> row.state

\* After a boot.
RgInit ==
    /\ rgRow \in {RgNoRow, RgFossil} /\ rgState = RgRehydrated(rgRow) /\ rgSaved = <<>> /\ rgStage = <<>> /\ rgVerdict = {}
    /\ rgCycles = 0 /\ rgFaults = 0 /\ rgBreach = {} /\ rgLost = FALSE

-----------------------------------------------------------------------------
\* _resolve_peak
RgPeak(l, pnl) == IF pnl > rgState.peak[l] THEN pnl ELSE rgState.peak[l]

\* _compute_drawdown_from_peak against the limit
RgOver(peak, pnl, broker) == broker > 0 /\ (peak - pnl) * 100 > RgLimit * broker

\* The legs that are exit-only after a cycle: a leg that is not due keeps its verdict.
RgExit(due, over) == (rgState.exit \ due) \union over

\* evaluate, for the legs in due with their readings
RgEvaluate(due, pnl, equity) ==
    LET broker == IF equity > rgState.broker THEN equity ELSE rgState.broker
        peak == [l \in RgLegs |-> IF l \in due THEN RgPeak(l, pnl[l]) ELSE rgState.peak[l]]
        over == {l \in due : RgOver(peak[l], pnl[l], broker)}
    IN /\ rgCycles < RgMaxCycles /\ rgCycles' = rgCycles + 1
       /\ rgState' = [legs |-> rgState.legs \union due, peak |-> peak,
                      fall |-> [l \in RgLegs |-> IF l \in due THEN peak[l] - pnl[l] ELSE rgState.fall[l]],
                      exit |-> RgExit(due, over), broker |-> broker]
       /\ rgVerdict' = RgExit(due, over)
       /\ rgBreach' = (rgBreach \ due) \union {l \in due : RgOver(peak[l], pnl[l], broker)}
       /\ UNCHANGED <<rgSaved, rgStage, rgRow, rgFaults, rgLost>>

\* serialize_risk_state
RgPayload == rgState

\* maybe_enqueue_persist.  The fingerprint is kept before the write is staged: when staging raises,
\* the same state is not offered again.
RgPersist(ok) ==
    /\ rgState.legs # {} /\ rgSaved # <<RgPayload>> /\ (ok \/ rgFaults < RgMaxFaults)
    /\ rgSaved' = <<RgPayload>>
    /\ rgStage' = IF ok THEN Append(rgStage, RgPayload) ELSE rgStage
    /\ rgFaults' = rgFaults + (IF ok THEN 0 ELSE 1)
    /\ UNCHANGED <<rgState, rgRow, rgVerdict, rgCycles, rgBreach, rgLost>>

\* The first of the batch is kept.
SlipRgLatest(n) == rgStage[1]
\* _flush_portfolio_risk_state_batch: the last of the batch is the state.
RgLatest(n) == rgStage[n]

\* persist_portfolio_risk_state for a batch of n: delete and insert in one transaction.  The table
\* has no column for peak_broker_equity.
RgDrain(n) ==
    /\ n \in DOMAIN rgStage
    /\ rgRow' = [stamp |-> "current", state |-> [RgLatest(n) EXCEPT !.broker = 0]]
    /\ rgStage' = SubSeq(rgStage, n + 1, Len(rgStage))
    /\ UNCHANGED <<rgState, rgSaved, rgVerdict, rgCycles, rgFaults, rgBreach, rgLost>>

\* archive_portfolio_risk_state: the operator's reset of the live rows
RgArchive ==
    /\ rgRow # RgNoRow /\ rgFaults < RgMaxFaults /\ rgFaults' = rgFaults + 1 /\ rgRow' = RgNoRow
    /\ UNCHANGED <<rgState, rgSaved, rgStage, rgVerdict, rgCycles, rgBreach, rgLost>>

\* The process goes and the next one boots from load_portfolio_risk_state; what is staged stays.
RgRestart ==
    /\ rgFaults < RgMaxFaults /\ rgFaults' = rgFaults + 1
    /\ rgState' = RgRehydrated(rgRow) /\ rgVerdict' = RgRehydrated(rgRow).exit     \* what a verdict would say
    /\ rgSaved' = IF rgRow = RgNoRow \/ rgRow.stamp = "old" THEN <<>> ELSE <<rgState'>>
    /\ rgLost' = (rgLost \/ rgStage # <<>> \/ rgRow # [stamp |-> "current", state |-> [rgState EXCEPT !.broker = 0]])
    /\ UNCHANGED <<rgStage, rgRow, rgCycles, rgBreach>>

RgNext ==
    \/ \E due \in SUBSET RgLegs, pnl \in [RgLegs -> RgPnls], e \in RgEquities : RgEvaluate(due, pnl, e)
    \/ \E ok \in BOOLEAN : RgPersist(ok)
    \/ \E n \in 1..RgMaxCycles : RgDrain(n)
    \/ RgArchive \/ RgRestart

RgSpec == RgInit /\ [][RgNext]_rgVars

-----------------------------------------------------------------------------
\* Types; no peak of a retired formula gets into the governor.
RgTypeOK ==
    /\ rgState.legs \subseteq RgLegs /\ rgState.exit \subseteq rgState.legs /\ rgVerdict \subseteq RgLegs
    /\ rgState.peak \in [RgLegs -> RgPnls \union {0}] /\ \A l \in RgLegs : rgState.fall[l] >= 0
    /\ rgRow.stamp \in {"none", "old", "current"}

\* A leg past its drawdown limit stays exit-only until a reading shows it back inside, whatever is
\* due in between and over every restart that found the last state in the row.
RgLatched == ~rgLost => rgBreach \subseteq rgVerdict

\* A state that was offered to the database is the row once the stage is drained: with nothing
\* staged, nothing failed and the fingerprint up to date, the row holds the peaks in memory.
RgRowCurrent ==
    (rgFaults = 0 /\ rgStage = <<>> /\ rgSaved # <<>> /\ rgSaved = <<RgPayload>>)
        => rgRow.state.peak = rgState.peak /\ rgRow.state.exit = rgState.exit

\* What the drawdown governor promises over restarts: a leg past its limit stays exit-only until
\* it is back inside, and the row is as new as the fingerprint says.
RgHolds == RgTypeOK /\ RgLatched /\ RgRowCurrent
=============================================================================
