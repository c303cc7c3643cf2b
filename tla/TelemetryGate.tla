---------------------------- MODULE TelemetryGate ----------------------------
(***************************************************************************)
(* The pre-trade capital gate and the bridge that feeds it the broker's     *)
(* telemetry (src/engine/telemetry_gate.py).                                *)
(*                                                                          *)
(* Three streams meet in one gate: account syncs, order rejects and         *)
(* connectivity changes.  Each runs the whole evaluation on the account     *)
(* last seen.  Multipliers are in percent; margin utilisation too.          *)
(***************************************************************************)
EXTENDS Integers, Sequences, FiniteSets, FiniteSetsExt

CONSTANTS
    TgMargins,             \* utilisations an account may show
    TgCeiling, TgAlert,    \* MARGIN_UTILIZATION_CEILING, MARGIN_ALERT_UTILIZATION
    TgWindow, TgStorm,     \* REJECT_STORM_WINDOW_SECONDS (in ticks), REJECT_STORM_THRESHOLD
    TgKept,                \* maxlen of reject_timestamps
    TgMaxNow, TgMaxRejects \* bounds

ASSUME TgAssumption ==
    /\ TgMargins \subseteq 0..100
    /\ {TgCeiling, TgAlert, TgWindow, TgStorm, TgKept, TgMaxNow, TgMaxRejects} \subseteq Nat /\ TgStorm <= TgKept

VARIABLES
    tgNow,        \* time.monotonic
    tgRejects,    \* reject_timestamps
    tgConnected,  \* connectivity_ok
    tgAccount,    \* _last_account: its utilisation and whether its buying power is short; <<>> = None
    tgBudget,     \* api_budget_remaining is above the low watermark in the risk manager's snapshot
    tgGate,       \* _emergency_active, _emergency_reason, _position_size_multiplier, _block_new_entries
    tgCount,      \* rejects so far
    tgEvent       \* history: the event last applied

tgVars == <<tgNow, tgRejects, tgConnected, tgAccount, tgBudget, tgGate, tgCount, tgEvent>>

TgOpen == [emergency |-> FALSE, reason |-> "", mult |-> 100, block |-> FALSE]

\* The risk manager has no snapshot yet: its budget reads 0.
TgInit ==
    /\ tgNow = 0 /\ tgRejects = <<>> /\ tgConnected = TRUE /\ tgAccount = <<>> /\ tgBudget = FALSE
    /\ tgGate = TgOpen /\ tgCount = 0 /\ tgEvent = "none"

-----------------------------------------------------------------------------
TgLeast(m, n) == IF m < n THEN m ELSE n

\* _activate_emergency: a second cause only tightens.
TgActivate(g, reason, mult, block) ==
    [emergency |-> TRUE, reason |-> reason, mult |-> TgLeast(g.mult, mult), block |-> g.block \/ block]

\* Which evaluations may end an emergency.
TgReleases(event, margin) == event = "account_sync" /\ margin < TgAlert

\* _prune_reject_window: rejects leave at the front, up to the first that is in the window.
TgInWindow(rejects) == {i \in DOMAIN rejects : rejects[i] >= tgNow - TgWindow}
TgPruned(rejects) ==
    IF TgInWindow(rejects) = {} THEN <<>> ELSE SubSeq(rejects, Min(TgInWindow(rejects)), Len(rejects))

\* One reject more than the threshold.
SlipTgStormy(rejects) == Len(TgPruned(rejects)) > TgStorm
TgStormy(rejects) == Len(TgPruned(rejects)) >= TgStorm

\* apply_account_telemetry: the gate after an event.
TgApplied(event, account, rejects, connected, budget) ==
    LET margin == IF account = <<>> THEN 0 ELSE account[1].margin
        alert == margin >= TgAlert
        storm == TgStormy(rejects)
        constrained == ~connected \/ margin >= TgCeiling \/ alert \/ storm \/ ~budget \/ (account # <<>> /\ account[1].short)
        g == IF alert THEN TgActivate(tgGate, "margin_alert", 35, FALSE) ELSE tgGate
        h == CASE storm -> TgActivate(g, "reject_storm", 50, TRUE)
               [] ~storm /\ g.emergency /\ TgReleases(event, margin) -> TgOpen
               [] ~storm /\ ~g.emergency /\ event # "order_reject" -> TgOpen
               [] OTHER -> g
    IN IF constrained /\ ~h.emergency THEN [h EXCEPT !.mult = TgLeast(@, 75)] ELSE h

\* What every path into apply_account_telemetry leaves.
TgApply(event, account, rejects, connected, budget) ==
    /\ tgGate' = TgApplied(event, account, rejects, connected, budget)
    /\ tgRejects' = TgPruned(rejects) /\ tgConnected' = connected /\ tgAccount' = account /\ tgBudget' = budget
    /\ tgEvent' = event

\* ingest_account, reset_cycle: the risk manager takes its snapshot of the account first.
TgSync(margin, short, budget) ==
    /\ TgApply("account_sync", <<[margin |-> margin, short |-> short]>>, tgRejects, tgConnected, budget)
    /\ UNCHANGED <<tgNow, tgCount>>

\* ingest_order_reject, note_order_reject: the deque drops its oldest at its length.
TgReject ==
    LET all == Append(tgRejects, tgNow)
    IN /\ tgCount < TgMaxRejects /\ tgCount' = tgCount + 1
       /\ TgApply("order_reject", tgAccount, IF Len(all) > TgKept THEN Tail(all) ELSE all, tgConnected, tgBudget)
       /\ UNCHANGED tgNow

\* ingest_connectivity
TgConnectivity(ok) ==
    /\ TgApply("connectivity", tgAccount, tgRejects, ok, tgBudget) /\ UNCHANGED <<tgNow, tgCount>>

\* feed_capital_gate_telemetry with none of the events above and no figures of its own
TgFeed == TgApply("telemetry", tgAccount, tgRejects, tgConnected, tgBudget) /\ UNCHANGED <<tgNow, tgCount>>

\* snapshot only prunes.
TgSnapshot ==
    /\ tgRejects' = TgPruned(tgRejects)
    /\ UNCHANGED <<tgNow, tgConnected, tgAccount, tgBudget, tgGate, tgCount, tgEvent>>

TgTick ==
    /\ tgNow < TgMaxNow /\ tgNow' = tgNow + 1
    /\ UNCHANGED <<tgRejects, tgConnected, tgAccount, tgBudget, tgGate, tgCount, tgEvent>>

TgNext ==
    \/ \E m \in TgMargins, s, b \in BOOLEAN : TgSync(m, s, b)
    \/ TgReject \/ \E ok \in BOOLEAN : TgConnectivity(ok)
    \/ TgFeed \/ TgSnapshot \/ TgTick

TgSpec == TgInit /\ [][TgNext]_tgVars

-----------------------------------------------------------------------------
\* apply_emergency_to_max_position: the share of the position limit an entry may take
TgSize == IF tgGate.block THEN 0 ELSE tgGate.mult

\* Types; an entry is reduced in an emergency and barred in a reject storm.
TgTypeOK ==
    /\ tgRejects \in Seq(0..tgNow) /\ Len(tgRejects) <= TgKept /\ tgConnected \in BOOLEAN /\ tgBudget \in BOOLEAN
    /\ tgGate.mult \in {35, 50, 75, 100} /\ (tgGate.reason # "" <=> tgGate.emergency)
    /\ (tgGate.emergency => TgSize <= 50) /\ (tgGate.reason = "reject_storm" => TgSize = 0)

\* A storm of rejects bars entries as soon as it is one, whichever event the gate is evaluated on and
\* however the rejects were spread over evaluations, and nothing but a storm bars them.
TgStormBars ==
    /\ (tgEvent # "none" /\ Len(tgRejects) >= TgStorm => TgSize = 0)
    /\ (tgGate.block => tgGate.emergency /\ tgCount >= TgStorm)

\* While an emergency lasts the gate only tightens, and it ends on an account sync that shows margin
\* below the alert level, with the storm over: a connection that comes back, a late message or a new
\* cause never reopens it.
TgOnlyTightens ==
    [][tgGate.emergency =>
         \/ tgGate'.emergency /\ TgSize' <= TgSize /\ (tgGate.block => tgGate'.block)
         \/ /\ tgEvent' = "account_sync" /\ tgAccount'[1].margin < TgAlert
            /\ Cardinality(TgInWindow(tgRejects)) < TgStorm]_tgVars

\* What the gate promises: a storm of rejects bars entries, and inside an emergency it only tightens.
TgBrakes == [](TgTypeOK /\ TgStormBars) /\ TgOnlyTightens
=============================================================================
