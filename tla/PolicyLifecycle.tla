-------------------------- MODULE PolicyLifecycle --------------------------
(***************************************************************************)
(* The AI policy lifecycle (src/engine/policy_lifecycle.py) with the        *)
(* challenger registry that feeds its recovery (challenger_registry.py).    *)
(*                                                                          *)
(* Two processes work on one row per leg: the scheduler's evening           *)
(* progression and the daemon's intraday handlers (velocity shock,          *)
(* velocity-shock recovery).  Each reads the row, evaluates ledgers for a   *)
(* while, and upserts what it made of the row it read.  The ledgers are     *)
(* inputs: a live-attribution stratum is "none", "few", "good" or "bad".    *)
(***************************************************************************)
EXTENDS Naturals, FiniteSets

CONSTANTS
    PlLegs,
    PlStrata,      \* the (regime, session) pairs of the attribution ledger
    PlLedgers,     \* bound: the ledgers an evaluation may find
    PlMinDays,     \* SOVEREIGN_MIN_VERIFIED_TRADING_DAYS
    PlMinSamples,  \* SHOCK_RECOVERY_MIN_DUAL_SHADOW_SAMPLES
    PlLockDays,    \* lockout_days of an eviction
    PlMaxDay       \* bound: the last day

ASSUME PlAssumption ==
    /\ PlLedgers \subseteq [PlStrata -> {"none", "few", "good", "bad"}]
    /\ {PlMinDays, PlMinSamples, PlLockDays, PlMaxDay} \subseteq Nat \ {0}

PlStates == {"PASSIVE_SHADOW", "PROBATIONAL", "SOVEREIGN"}
PlProcs == {"evening", "intraday"}
PlStatus == {"none", "UNREGISTERED", "REGISTERED", "ACTIVE_SHADOW"}

VARIABLES
    plRow,      \* plRow[l]: state, clean days, shock prior state, day of the last update
    plEvicted,  \* first day after the model's eviction lockout
    plDay,
    plAt,       \* plAt[p]: "idle", "pick", "held" (row read) or "write"
    plKind,     \* the intraday handler at work: "shock" or "recovery"
    plTodo,     \* plTodo[p]: legs still to visit
    plLeg, plStored,  \* plLeg[p], plStored[p]: the leg and the row it read
    plGoal,     \* what the evening is about to upsert: state, clean days
    plStatus,   \* plStatus[l]: the leg's challenger
    plQueued, plRows,  \* plQueued[l], plRows[l]: shadow rows dated since the
                       \* demotion, in the writer's queue and committed (saturating)
    plStale,    \* plStale[p]: the row it read has changed since (history)
    plPromoted, \* legs an evening promoted to SOVEREIGN (history)
    plCounted,  \* plCounted[l]: last day counted as clean (history)
    plSince     \* plSince[l]: rows logged since the last shock (history)

plVars == <<plRow, plEvicted, plDay, plAt, plKind, plTodo, plLeg, plStored, plGoal, plStatus,
            plQueued, plRows, plStale, plPromoted, plCounted, plSince>>
plShadow == <<plStatus, plQueued, plRows, plSince>>
plTask == <<plTodo, plLeg, plStored>>

PlAnyLeg == CHOOSE l \in PlLegs : TRUE
PlFresh == [state |-> "PASSIVE_SHADOW", clean |-> 0, prior |-> "none", updated |-> 0]
PlLess(a, b) == IF a < b THEN a ELSE b
PlMore(a, b) == IF a > b THEN a ELSE b

PlInit ==
    /\ plRow = [l \in PlLegs |-> PlFresh]
    /\ plEvicted = 0 /\ plDay = 1
    /\ plAt = [p \in PlProcs |-> "idle"] /\ plKind = "shock"
    /\ plTodo = [p \in PlProcs |-> {}] /\ plLeg = [p \in PlProcs |-> PlAnyLeg]
    /\ plStored = [p \in PlProcs |-> PlFresh]
    /\ plGoal = [state |-> "PASSIVE_SHADOW", clean |-> 0]
    /\ plStatus = [l \in PlLegs |-> "none"]
    /\ plQueued = [l \in PlLegs |-> 0] /\ plRows = [l \in PlLegs |-> 0]
    /\ plStale = [p \in PlProcs |-> FALSE]
    /\ plPromoted = {} /\ plCounted = [l \in PlLegs |-> 0]
    /\ plSince = [l \in PlLegs |-> 0]

-----------------------------------------------------------------------------
(* The ledgers.                                                            *)

\* The buckets in which some stratum passes: enough trades, positive mean.
PlPassed(ledger, i) == {s[i] : s \in {t \in PlStrata : ledger[t] = "good"}}

\* _compute_stratified_window over live trades: without any, only the first shadow row is
\* counted for the challenger, so the window has one sample.
PlWindow(ledger) ==
    [samples  |-> IF \A s \in PlStrata : ledger[s] = "none" THEN 1
                  ELSE 3 * Cardinality({s \in PlStrata : ledger[s] \in {"good", "bad"}}),
     regimes  |-> Cardinality(PlPassed(ledger, 1)),
     sessions |-> Cardinality(PlPassed(ledger, 2))]

\* evaluate_probation_entry; ahead: the challenger beats the rules on return and Sharpe
\* in both windows, and the shadow ledger is long enough.
PlEntry(ledger, ahead) ==
    LET w == PlWindow(ledger)
    IN ahead /\ plDay >= plEvicted /\ w.samples >= 6 /\ w.regimes >= 2 /\ w.sessions >= 2

\* evaluate_sovereign_promotion; traded: days with live trades in the ledger.
PlPromotes(traded, clean, gates) == gates /\ PlMore(traded, clean) >= PlMinDays

\* evaluate_live_attribution_slo: what is wrong with the leg's live trades; too few of them
\* breach nothing.
PlBreaches(bad) == bad # {} /\ "few" \notin bad
PlSlo == {{}, {"sharpe"}, {"sharpe", "drawdown"}, {"few", "sharpe"}}

\* evaluate_velocity_shock_shadow_recovery
PlRecovers(l, edge) == plRows[l] >= PlMinSamples /\ edge

-----------------------------------------------------------------------------
(* The rows.  A write by anybody but p makes what p read of the leg old.   *)

PlUpsert(p, l, state, clean, prior) ==
    /\ plRow' = [plRow EXCEPT ![l] = [state |-> state, clean |-> clean,
                                      prior |-> prior, updated |-> plDay]]
    /\ plStale' = [q \in PlProcs |->
                     (q # p /\ plStale[q]) \/ (q # p /\ plAt[q] \in {"held", "write"} /\ plLeg[q] = l)]

\* execute_staged_rollback, not catastrophic: one tier down, the clean days start again.
PlStagedDown(state) == IF state = "SOVEREIGN" THEN "PROBATIONAL" ELSE "PASSIVE_SHADOW"

\* execute_staged_rollback, catastrophic
PlEvict(l) ==
    /\ plEvicted' = plDay + PlLockDays
    /\ PlUpsert("none", l, "PASSIVE_SHADOW", 0, plRow[l].prior)
    /\ UNCHANGED <<plDay, plAt, plKind, plTask, plGoal, plShadow, plPromoted, plCounted>>

PlTomorrow ==
    /\ plDay < PlMaxDay /\ plDay' = plDay + 1 /\ plAt["evening"] = "idle"
    /\ UNCHANGED <<plRow, plEvicted, plAt, plKind, plTask, plGoal, plShadow, plStale,
                   plPromoted, plCounted>>

-----------------------------------------------------------------------------
(* The loop over the legs, common to the three handlers.                   *)

PlStart(p, kind) ==
    /\ plAt[p] = "idle"
    /\ plAt' = [plAt EXCEPT ![p] = "pick"] /\ plTodo' = [plTodo EXCEPT ![p] = PlLegs]
    /\ plKind' = IF p = "intraday" THEN kind ELSE plKind
    /\ UNCHANGED <<plRow, plEvicted, plDay, plLeg, plStored, plGoal, plShadow, plStale,
                   plPromoted, plCounted>>

PlRead(p) ==
    /\ plAt[p] = "pick" /\ plTodo[p] # {}
    /\ \E l \in plTodo[p] :
         /\ plLeg' = [plLeg EXCEPT ![p] = l] /\ plStored' = [plStored EXCEPT ![p] = plRow[l]]
         /\ plTodo' = [plTodo EXCEPT ![p] = @ \ {l}]
    /\ plAt' = [plAt EXCEPT ![p] = "held"] /\ plStale' = [plStale EXCEPT ![p] = FALSE]
    /\ UNCHANGED <<plRow, plEvicted, plDay, plKind, plGoal, plShadow, plPromoted, plCounted>>

PlDone(p) ==
    /\ plAt[p] = "pick" /\ plTodo[p] = {}
    /\ plAt' = [plAt EXCEPT ![p] = "idle"]
    /\ UNCHANGED <<plRow, plEvicted, plDay, plKind, plTask, plGoal, plShadow, plStale,
                   plPromoted, plCounted>>

\* The evening's manager is new every time: its decay streak never exceeds one, so a
\* PROBATIONAL leg is not rolled back for its edge.
PlStreakDegrades(maintains) == FALSE

PlRollback ==
    LET l == plLeg["evening"]
        stored == plStored["evening"]
    IN /\ PlUpsert("evening", l, PlStagedDown(stored.state), 0, plRow[l].prior)
       /\ plGoal' = [state |-> PlStagedDown(stored.state), clean |-> stored.clean]
       /\ UNCHANGED plCounted

\* Whether the day may be counted: the row was not written today.
SlipPlCounts(stored) == TRUE
PlCounts(stored) == stored.updated # plDay

\* run_evening_progression, one leg, up to the final upsert: by the state that was read.
PlEvaluated(state) ==
    /\ plAt["evening"] = "held" /\ plStored["evening"].state = state
    /\ plAt' = [plAt EXCEPT !["evening"] = "write"]
    /\ UNCHANGED <<plEvicted, plDay, plKind, plTask, plShadow, plPromoted>>

PlKeep == /\ plGoal' = [state |-> plStored["evening"].state, clean |-> plStored["evening"].clean]
          /\ UNCHANGED <<plRow, plStale, plCounted>>

PlSieve(ledger, ahead) ==
    /\ PlEvaluated("PASSIVE_SHADOW")
    /\ IF PlEntry(ledger, ahead)
       THEN /\ plGoal' = [state |-> "PROBATIONAL", clean |-> 0]
            /\ UNCHANGED <<plRow, plStale, plCounted>>
       ELSE PlKeep

PlProbation(bad, maintains, anomaly, traded, gates) ==
    /\ PlEvaluated("PROBATIONAL")
    /\ LET stored == plStored["evening"]
           clean == IF anomaly THEN 0
                    ELSE PlLess(stored.clean + (IF PlCounts(stored) THEN 1 ELSE 0), PlMinDays)
       IN IF PlBreaches(bad) \/ PlStreakDegrades(maintains) THEN PlRollback
          ELSE /\ plCounted' = [plCounted EXCEPT ![plLeg["evening"]] =
                                  IF clean > stored.clean THEN plDay ELSE @]
               /\ plGoal' = [clean |-> clean,
                             state |-> IF PlPromotes(traded, clean, gates) THEN "SOVEREIGN"
                                       ELSE "PROBATIONAL"]
               /\ UNCHANGED <<plRow, plStale>>

PlSovereign(bad, maintains) ==
    /\ PlEvaluated("SOVEREIGN")
    /\ IF PlBreaches(bad) \/ ~maintains THEN PlRollback ELSE PlKeep

\* What a pass over a leg leaves behind is not read again.
PlForget(p) ==
    /\ plAt' = [plAt EXCEPT ![p] = "pick"]
    /\ plLeg' = [plLeg EXCEPT ![p] = PlAnyLeg] /\ plStored' = [plStored EXCEPT ![p] = PlFresh]
    /\ UNCHANGED plTodo

\* The final upsert: what was made of the row read, over whatever is there now.
PlWrite ==
    /\ plAt["evening"] = "write" /\ PlForget("evening")
    /\ plGoal' = [state |-> "PASSIVE_SHADOW", clean |-> 0]
    /\ LET l == plLeg["evening"]
       IN /\ PlUpsert("evening", l, plGoal.state, plGoal.clean, plRow[l].prior)
          /\ plPromoted' = IF plGoal.state = "SOVEREIGN" /\ plStored["evening"].state # "SOVEREIGN"
                           THEN plPromoted \cup {l} ELSE plPromoted
    /\ UNCHANGED <<plEvicted, plDay, plKind, plShadow, plCounted>>

-----------------------------------------------------------------------------
(* The daemon.                                                             *)

\* The state before the shock, kept for the recovery.
PlPrior(state) == state

\* Only these states can be demoted.
PlHasAuthority(state) == state \in {"SOVEREIGN", "PROBATIONAL"}

\* execute_velocity_shock_demotion of the leg read by handle_macro_velocity_shock
PlShock ==
    /\ plAt["intraday"] = "held" /\ plKind = "shock"
    /\ PlForget("intraday")
    /\ LET l == plLeg["intraday"]
           state == plStored["intraday"].state
       IN IF PlHasAuthority(state)
          THEN /\ PlUpsert("intraday", l, "PASSIVE_SHADOW", 0, PlPrior(state))
               /\ plQueued' = [plQueued EXCEPT ![l] = 0] /\ plRows' = [plRows EXCEPT ![l] = 0]
               /\ plSince' = [plSince EXCEPT ![l] = 0]
          ELSE UNCHANGED <<plRow, plStale, plQueued, plRows, plSince>>
    /\ UNCHANGED <<plEvicted, plDay, plKind, plGoal, plStatus, plPromoted, plCounted>>


\* attempt_velocity_shock_recovery: the state it restores, or no change.
PlRestored(l, stored, stable, edge) ==
    stored.state = "PASSIVE_SHADOW" /\ stored.prior # "none" /\ stable /\ PlRecovers(l, edge)

\* process_intraday_velocity_shock_recovery, one leg
PlRecover(stable, edge) ==
    /\ plAt["intraday"] = "held" /\ plKind = "recovery"
    /\ PlForget("intraday")
    /\ LET l == plLeg["intraday"]
           stored == plStored["intraday"]
       IN IF PlRestored(l, stored, stable, edge) /\ stored.prior # "PASSIVE_SHADOW"
          THEN PlUpsert("intraday", l, stored.prior, stored.clean, "none")
          ELSE UNCHANGED <<plRow, plStale>>
    /\ UNCHANGED <<plEvicted, plDay, plKind, plGoal, plShadow, plPromoted, plCounted>>

-----------------------------------------------------------------------------
(* ChallengerRegistry.                                                     *)

\* register_challenger (also of one already in the shadow), create_unregistered_challenger
PlRegister(l, status) ==
    /\ plStatus' = [plStatus EXCEPT ![l] = status]
    /\ UNCHANGED <<plRow, plEvicted, plDay, plAt, plKind, plTask, plGoal, plQueued, plRows,
                   plStale, plPromoted, plCounted, plSince>>

\* ensure_default_challenger
PlDefault(l) == plStatus[l] = "none" /\ PlRegister(l, "ACTIVE_SHADOW")

\* log_counterfactual_state: through the writer's queue when it runs, and the activation.
PlLog(l, running) ==
    /\ plQueued[l] + plRows[l] < PlMinSamples
    /\ IF running THEN plQueued' = [plQueued EXCEPT ![l] = @ + 1] /\ UNCHANGED plRows
       ELSE plRows' = [plRows EXCEPT ![l] = @ + 1] /\ UNCHANGED plQueued
    /\ plSince' = [plSince EXCEPT ![l] = @ + 1]
    /\ plStatus' = [plStatus EXCEPT ![l] = IF @ = "REGISTERED" THEN "ACTIVE_SHADOW" ELSE @]
    /\ UNCHANGED <<plRow, plEvicted, plDay, plAt, plKind, plTask, plGoal, plStale,
                   plPromoted, plCounted>>

PlCommitted(l) ==
    /\ plQueued[l] > 0
    /\ plQueued' = [plQueued EXCEPT ![l] = @ - 1] /\ plRows' = [plRows EXCEPT ![l] = @ + 1]
    /\ UNCHANGED <<plRow, plEvicted, plDay, plAt, plKind, plTask, plGoal, plStatus, plStale,
                   plPromoted, plCounted, plSince>>

PlNext ==
    \/ \E l \in PlLegs : PlEvict(l) \/ PlDefault(l) \/ PlCommitted(l)
    \/ \E l \in PlLegs, status \in {"REGISTERED", "UNREGISTERED"} : PlRegister(l, status)
    \/ \E l \in PlLegs, running \in BOOLEAN : PlLog(l, running)
    \/ PlTomorrow \/ PlShock \/ PlWrite
    \/ PlStart("evening", "shock")
    \/ \E kind \in {"shock", "recovery"} : PlStart("intraday", kind)
    \/ \E p \in PlProcs : PlRead(p) \/ PlDone(p)
    \/ \E ledger \in PlLedgers, ahead \in BOOLEAN : PlSieve(ledger, ahead)
    \/ \E bad \in PlSlo, maintains, anomaly, gates \in BOOLEAN, traded \in {0, PlMinDays} :
         PlProbation(bad, maintains, anomaly, traded, gates)
    \/ \E bad \in PlSlo, maintains \in BOOLEAN : PlSovereign(bad, maintains)
    \/ \E stable, edge \in BOOLEAN : PlRecover(stable, edge)

PlSpec == PlInit /\ [][PlNext]_plVars

-----------------------------------------------------------------------------
\* Types; clean days stop at the minimum and a saved prior state is one that had authority.
PlTypeOK ==
    /\ \A l \in PlLegs :
         /\ plRow[l].state \in PlStates /\ plRow[l].clean \in 0..PlMinDays
         /\ plRow[l].prior \in {"none", "PROBATIONAL", "SOVEREIGN"}
         /\ plRow[l].updated \in 0..plDay /\ plStatus[l] \in PlStatus
         /\ plQueued[l] + plRows[l] \in 0..PlMinSamples
    /\ plAt \in [PlProcs -> {"idle", "pick", "held", "write"}]
    /\ plEvicted \in 0..(PlMaxDay + PlLockDays) /\ plPromoted \subseteq PlLegs

\* A day is counted as clean at most once, and only for the leg it was clean for, however
\* often the evening runs and whatever the intraday handlers write in between
\* (policy_lifecycle.py:1192-1196).
PlCountedOnce ==
    [][plAt["evening"] = "held" /\ plGoal'.clean > plStored["evening"].clean =>
         plCounted[plLeg["evening"]] < plDay]_plVars

\* A leg without authority gets it back in three ways only: the evening's sieve (probation
\* only, never during a lockout), the shock recovery, which needs the shadow rows logged
\* since the shock, or an evening or intraday pass that upserts over a row changed since it
\* read it (policy_lifecycle.py:832-893, 895-1050, 1262-1279).
PlAuthority ==
    [][\A l \in PlLegs :
         plRow[l].state = "PASSIVE_SHADOW" /\ plRow'[l].state # "PASSIVE_SHADOW" =>
           \/ \E p \in PlProcs : plLeg[p] = l /\ plAt[p] \in {"held", "write"} /\ plStale[p]
           \/ plAt["evening"] = "write" /\ plRow'[l].state = "PROBATIONAL"
           \/ plKind = "recovery" /\ plSince[l] >= PlMinSamples]_plVars

\* No leg is sovereign that an evening never promoted: neither a shock and its recovery, nor
\* a rollback, nor two writers over one row raise a leg above what it had earned
\* (policy_lifecycle.py:736-800, 947-1050, 1204-1206).
PlEarned == \A l \in PlLegs : plRow[l].state = "SOVEREIGN" => l \in plPromoted

\* What the policy lifecycle promises over two writers of one row: no leg is
\* sovereign that was never promoted, a clean day is counted once, and authority comes back in no
\* other way than the three named ones.
PlPromotesEarned == [](PlTypeOK /\ PlEarned) /\ PlCountedOnce /\ PlAuthority
=============================================================================
