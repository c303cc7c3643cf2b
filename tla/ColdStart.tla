----------------------------- MODULE ColdStart -----------------------------
(***************************************************************************)
(* The cold-start gate of src/engine/cold_start_gate.py as the dual-buffer  *)
(* coordinator drives it: a leg trades once its bars are verified against   *)
(* the shadow matrix, or, after a time bound, as its policy says.  The      *)
(* bound's clock stands still while the pre-open readiness check fails.     *)
(*                                                                          *)
(* The engine loop ticks the gate, the refresh thread evaluates each        *)
(* verification.  What they measure is chosen anew at each call: whether    *)
(* the matrices agree, the newest closed bar is fresh, and the stream is    *)
(* intact.                                                                  *)
(***************************************************************************)
EXTENDS Naturals

CONSTANTS
    CsLegs, CsSafe,   \* legs; those with FAIL_SAFE_CLOSE, the others HIGH_AVAILABILITY
    CsWait,           \* max_cold_start_wait_seconds, in ticks of the clock
    CsMaxNow, CsMaxStarts   \* bounds

ASSUME CsAssumption == CsSafe \subseteq CsLegs /\ CsWait \in Nat /\ CsMaxNow \in Nat /\ CsMaxStarts \in Nat

VARIABLES
    csState,      \* _state_by_strategy
    csLatch,      \* _divergent_latches
    csNow, csStarted, csPaused, csSince,   \* monotonic clock, start, paused total, pause begun (0: no)
    csBg,         \* _background_shadow_verification_completed
    csCleared,    \* _cold_start_gate_cleared
    csReady,      \* what the last tick was told of the readiness check
    csStarts,
    csRan,        \* ticks of the clock that passed unpaused since the start (history)
    csProof       \* per leg: verified by aligned matrices and a fresh bar, and stale at no tick since (history)

csVars == <<csState, csLatch, csNow, csStarted, csPaused, csSince, csBg, csCleared, csReady, csStarts,
            csRan, csProof>>
csClock == <<csNow, csStarted, csRan>>
csPause == <<csPaused, csSince>>

CsStates == {"PENDING", "PENDING_BLOCKED", "HEURISTIC_PARITY", "STABILIZED_VERIFIED",
             "STALE_REVERIFY", "BYPASS_OVERRIDE"}

CsInit ==
    /\ csState = [l \in CsLegs |-> "PENDING"] /\ csLatch = [l \in CsLegs |-> FALSE]
    /\ csNow = 1 /\ csStarted = 1 /\ csPaused = 0 /\ csSince = 0
    /\ csBg = FALSE /\ csCleared = FALSE /\ csReady = TRUE /\ csStarts = 1
    /\ csRan = 0 /\ csProof = [l \in CsLegs |-> FALSE]

-----------------------------------------------------------------------------
CsPassed(a, b) == IF a > b THEN a - b ELSE 0

\* The span of a pause that is still open is not taken off.
SlipCsElapsed == CsPassed(csNow, csStarted + csPaused)
\* elapsed_seconds
CsElapsed == CsPassed(csNow, csStarted + csPaused + IF csSince = 0 THEN 0 ELSE csNow - csSince)

\* set_readiness: pause and resume, both idempotent.
CsSetReadiness(ok) ==
    /\ csReady' = ok
    /\ IF ok
       THEN csPaused' = csPaused + (IF csSince = 0 THEN 0 ELSE csNow - csSince) /\ csSince' = 0
       ELSE csSince' = (IF csSince = 0 THEN csNow ELSE csSince) /\ UNCHANGED csPaused

\* _evaluate_time_bound, by the state it leaves the leg in.
CsTimeBound(l, in) ==
    LET s == csState[l] IN
    IF s = "BYPASS_OVERRIDE" THEN s
    ELSE IF s = "STABILIZED_VERIFIED" THEN IF in.fresh THEN s ELSE "STALE_REVERIFY"
    ELSE IF s = "STALE_REVERIFY" THEN IF in.fresh /\ in.aligned THEN "STABILIZED_VERIFIED" ELSE s
    ELSE IF CsElapsed < CsWait THEN s
    ELSE IF in.aligned /\ csBg /\ in.fresh /\ in.intact THEN "STABILIZED_VERIFIED"
    ELSE IF l \in CsSafe THEN IF s = "PENDING" THEN "PENDING_BLOCKED" ELSE s
    ELSE IF in.intact /\ in.fresh /\ s = "PENDING" THEN "HEURISTIC_PARITY" ELSE "BYPASS_OVERRIDE"

CsInputs == [aligned : BOOLEAN, fresh : BOOLEAN, intact : BOOLEAN]

\* What a look at these inputs means for the history; only a tick looks for a stale bar.
CsProves(l, in, ticks) ==
    csProof' = [csProof EXCEPT ![l] = (@ /\ (ticks => in.fresh)) \/ (in.fresh /\ in.aligned)]

CsBlocking(s) == s \in {"PENDING", "PENDING_BLOCKED"}

\* operational_gate_cleared
CsOperational(states) == \A l \in CsLegs : ~CsBlocking(states[l])

\* _sync_cold_start_gate_cleared: latched once every leg has left the blocked states.
CsSync == csCleared' = (csCleared \/ (csBg' /\ CsOperational(csState')))

-----------------------------------------------------------------------------
\* tick_cold_start_gates for one leg: the readiness check comes first.
CsTick(l, in, ok) ==
    /\ CsSetReadiness(ok)
    /\ IF ok
       THEN csState' = [csState EXCEPT ![l] = CsTimeBound(l, in)] /\ CsProves(l, in, TRUE)
       ELSE UNCHANGED <<csState, csProof>>
    /\ UNCHANGED <<csLatch, csClock, csBg, csStarts>>
    /\ CsSync

\* evaluate_verification of a leg that is not divergent
CsVerified(l, in) ==
    IF in.aligned /\ csBg' /\ in.fresh /\ in.intact THEN "STABILIZED_VERIFIED"
    ELSE IF in.aligned /\ ~in.fresh THEN csState[l]
    ELSE CsTimeBound(l, in)

\* verify_matrix_alignment and _apply_verdict_tape_status: the latch follows the verdict, and a
\* divergent leg is left where it is.  The refresh thread reports that it has been round.
CsVerify(l, in, background) ==
    /\ csBg' = (csBg \/ background)
    /\ csLatch' = [csLatch EXCEPT ![l] = ~in.aligned]
    /\ IF in.aligned
       THEN csState' = [csState EXCEPT ![l] = CsVerified(l, in)] /\ CsProves(l, in, FALSE)
       ELSE UNCHANGED <<csState, csProof>>
    /\ UNCHANGED <<csClock, csPause, csReady, csStarts>>
    /\ CsSync

\* initialize_cold_start_state, again after a reload: the pauses counted stay.
CsStart ==
    /\ csStarts < CsMaxStarts /\ csStarts' = csStarts + 1
    /\ csState' = [l \in CsLegs |-> "PENDING"] /\ csLatch' = [l \in CsLegs |-> FALSE]
    /\ csStarted' = csNow /\ csBg' = FALSE /\ csCleared' = FALSE
    /\ csRan' = 0 /\ csProof' = [l \in CsLegs |-> FALSE]
    /\ UNCHANGED <<csNow, csPause, csReady>>

CsTime ==
    /\ csNow < CsMaxNow /\ csNow' = csNow + 1
    /\ csRan' = csRan + IF csSince = 0 THEN 1 ELSE 0
    /\ UNCHANGED <<csState, csLatch, csStarted, csPause, csBg, csCleared, csReady, csStarts, csProof>>

CsNext ==
    \/ \E l \in CsLegs, in \in CsInputs, b \in BOOLEAN : CsTick(l, in, b) \/ CsVerify(l, in, b)
    \/ CsStart \/ CsTime

CsSpec == CsInit /\ [][CsNext]_csVars

-----------------------------------------------------------------------------
(* What the gate answers: cold_start_entry_scale, in percent.              *)

CsScale(l) ==
    IF csLatch[l] THEN 0
    ELSE CASE csState[l] = "STABILIZED_VERIFIED" -> 100
           [] csState[l] = "HEURISTIC_PARITY" /\ l \notin CsSafe -> 25
           [] csState[l] = "BYPASS_OVERRIDE" /\ l \notin CsSafe -> 15
           [] OTHER -> 0

\* Types; the pause clock runs exactly while readiness fails, a leg that must fail safe is never let
\* through by time, and the gate clears only with the background refresh running.
CsTypeOK ==
    /\ csState \in [CsLegs -> CsStates] /\ csLatch \in [CsLegs -> BOOLEAN]
    /\ csStarted <= csNow /\ csSince <= csNow /\ (csSince # 0 <=> ~csReady)
    /\ \A l \in CsSafe : csState[l] \notin {"HEURISTIC_PARITY", "BYPASS_OVERRIDE"}
    /\ csCleared => csBg

\* Full size is for legs whose matrices agreed and whose newest bar was fresh at every tick since;
\* a leg that must fail safe is never sized otherwise (cold_start_gate.py:290-345, 425-540).
CsSizedRight == \A l \in CsLegs : CsScale(l) > 0 => csProof[l] \/ (l \notin CsSafe /\ CsScale(l) < 100)

\* The time bound is reached by time the readiness check did not hold up, over any sequence of
\* pauses and restarts (cold_start_gate.py:233-262).
CsClockStands == CsElapsed <= csRan

\* Once the gate is declared cleared no leg waits to be started, and it stays so until the next
\* cold start (dual_buffer_manager.py:738-752).
CsClearedWell == csCleared => \A l \in CsLegs : ~CsBlocking(csState[l])

\* What the cold-start gate promises: a leg trades in full on verified bars only, is let in otherwise on
\* time that was its own and where its policy allows it, and a cleared gate holds nobody back.
CsLetIn == CsTypeOK /\ CsSizedRight /\ CsClockStands /\ CsClearedWell
=============================================================================
