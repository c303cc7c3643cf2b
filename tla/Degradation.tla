---------------------------- MODULE Degradation ----------------------------
(***************************************************************************)
(* The operational degradation manager (src/engine/degradation_manager.py),*)
(* its durable row (src/persistence/governance_state_store.py) and the SLO  *)
(* verdict that drives it (src/engine/slo_monitor.py).                      *)
(*                                                                          *)
(* A call mutates memory, then writes the row, then pages: a crash, or a    *)
(* failing write, may come between any two of the three.  Memory of a dead  *)
(* process keeps its last value until Boot replaces it from the row.        *)
(***************************************************************************)
EXTENDS Integers

CONSTANTS
    Legs,          \* legs whose data the SLO monitor judges
    Crypto,        \* those that trade around the clock
    SoftStreak,    \* SOFT_RECOVERY_STREAK
    HardStreak,    \* HARD_RECOVERY_STREAK
    MaxCrashes,
    MaxClock

Full == HardStreak + SoftStreak
NoTime == -1
NoRow == "none"
Modes == {"NORMAL", "SOFT_DEGRADE", "RECON_DEGRADED_MANAGE",
          "HARD_CRITICAL_DEGRADE"}
Severities == {"OK", "SOFT_BREACH", "HARD_BREACH"}

ASSUME DegradationAssumption ==
    /\ Crypto \subseteq Legs
    /\ SoftStreak \in Nat \ {0}
    /\ HardStreak \in Nat \ {0}
    /\ MaxCrashes \in Nat
    /\ MaxClock \in Nat

VARIABLES
    mode,        \* _mode
    streak,      \* _recovery_streak
    latched,     \* _flatten_latched
    entered,     \* _activated_at
    rowMode,     \* governance_state.degradation_mode
    rowStreak,   \* governance_state.recovery_streak
    rowLatched,  \* governance_state.flatten_latched
    rowEntered,  \* governance_state.entered_at
    proc,        \* "up" or "down"
    pc,          \* what the current call still has to send
    told,        \* the last message the operator was sent
    last,        \* the last verdict (history)
    run,         \* OK verdicts since the last HARD_BREACH or boot (history)
    credit,      \* OK verdicts since the last HARD_BREACH, full when none since
                 \* the last manual reset (history)
    since,       \* when the present mode was really entered (history)
    dirty,       \* the last write was refused (history)
    forgot,      \* a restart read a row that had missed a write (history)
    spent,       \* a flatten was consumed since the last HARD_BREACH (history)
    clock,
    crashes

memory == <<mode, streak, latched, entered>>
row == <<rowMode, rowStreak, rowLatched, rowEntered>>
verdicts == <<last, run, credit>>
ended == <<proc, told, clock, crashes, forgot>>  \* what no call changes
vars == <<mode, streak, latched, entered, rowMode, rowStreak, rowLatched,
          rowEntered, proc, pc, told, last, run, credit, since, dirty, forgot,
          spent, clock, crashes>>

-----------------------------------------------------------------------------
(* SLOMonitor.evaluate_data_integrity.                                     *)

\* A venue that is closed has no expected bars: dormant, not stale.
Dormant(leg, open) == leg \notin Crypto /\ ~open

\* The reasons' highest severity; a dormant leg's readings are not looked at.
Severity(leg, open, found) ==
    IF Dormant(leg, open) \/ found = {} THEN "OK"
    ELSE IF "HARD_BREACH" \in found THEN "HARD_BREACH"
    ELSE "SOFT_BREACH"

-----------------------------------------------------------------------------
(* Writing the row, and what the call does after it.                       *)

\* _persist_state; a write that raises ends the call before it pages.
Persist(after) ==
    \/ /\ rowMode' = mode' /\ rowStreak' = streak'
       /\ rowLatched' = latched' /\ rowEntered' = entered'
       /\ pc' = after /\ dirty' = FALSE
    \/ UNCHANGED row /\ pc' = "idle" /\ dirty' = TRUE

Idle == proc = "up" /\ pc = "idle"

\* What every mode change has in common with the history.
Stamped == since' = IF mode' # mode THEN clock ELSE since

Count(n, bound) == IF n < bound THEN n + 1 ELSE n

\* The verdict is counted by the history, whatever it leads to.
Judged(v) ==
    /\ last' = v
    /\ run' = IF v = "HARD_BREACH" THEN 0
              ELSE IF v = "OK" THEN Count(run, HardStreak) ELSE run
    /\ credit' = IF v = "HARD_BREACH" THEN 0
                 ELSE IF v = "OK" THEN Count(credit, Full) ELSE credit

-----------------------------------------------------------------------------
(* The transitions.                                                        *)

\* apply_hard_critical_degrade: only the transition stamps and pages.
HardEntered == IF mode # "HARD_CRITICAL_DEGRADE" THEN clock ELSE entered

ApplyHard ==
    /\ mode' = "HARD_CRITICAL_DEGRADE"
    /\ streak' = 0 /\ latched' = TRUE
    /\ entered' = HardEntered
    /\ spent' = FALSE
    /\ Persist(IF mode # "HARD_CRITICAL_DEGRADE" THEN "page" ELSE "idle")

\* apply_soft_degrade: a re-assertion keeps the streak and the stamp.
ApplySoft ==
    /\ mode # "HARD_CRITICAL_DEGRADE"
    /\ mode' = "SOFT_DEGRADE" /\ latched' = FALSE
    /\ IF mode # "SOFT_DEGRADE"
         THEN entered' = clock /\ streak' = 0
         ELSE UNCHANGED <<entered, streak>>
    /\ UNCHANGED spent
    /\ Persist("idle")

\* _downgrade_hard_to_soft.
SlipSteppedDown == "NORMAL"
SteppedDown == "SOFT_DEGRADE"

Downgrade ==
    /\ mode' = SteppedDown
    /\ streak' = 0 /\ latched' = FALSE /\ entered' = clock
    /\ Persist("recovered")

\* reset_to_normal.
ToNormal ==
    /\ mode' = "NORMAL"
    /\ streak' = 0 /\ latched' = FALSE /\ entered' = NoTime
    /\ Persist(IF mode # "NORMAL" THEN "recovered" ELSE "idle")

\* Only an OK verdict earns credit; a SOFT verdict holds it.
SlipEarned(v) == IF v = "OK" THEN streak + 1 ELSE 0
Earned(v) == IF v = "OK" THEN streak + 1 ELSE streak

Earn(v) == /\ streak' = Earned(v)
           /\ UNCHANGED <<mode, latched, entered>>
           /\ Persist("idle")

RecoverHard(v) ==
    /\ mode = "HARD_CRITICAL_DEGRADE" /\ v # "HARD_BREACH"
    /\ IF Earned(v) >= HardStreak THEN Downgrade ELSE Earn(v)
    /\ UNCHANGED spent

RecoverSoft(v) ==
    /\ mode = "SOFT_DEGRADE" /\ v # "HARD_BREACH"
    /\ IF Earned(v) >= SoftStreak THEN ToNormal ELSE Earn(v)
    /\ UNCHANGED spent

EngageSoft(v) ==
    /\ mode \in {"NORMAL", "RECON_DEGRADED_MANAGE"} /\ v = "SOFT_BREACH"
    /\ ApplySoft

\* An OK verdict in RECON changes nothing; in NORMAL it clears the streak.
Steady(v) ==
    /\ v = "OK"
    /\ \/ /\ mode = "RECON_DEGRADED_MANAGE"
          /\ UNCHANGED <<memory, row, pc, dirty>>
       \/ /\ mode = "NORMAL"
          /\ streak' = 0 /\ UNCHANGED <<mode, latched, entered>>
          /\ Persist("idle")
    /\ UNCHANGED spent

-----------------------------------------------------------------------------
(* The operations.                                                         *)

\* evaluate_from_slo, on the verdict for one leg: the manager is shared.
Evaluate ==
    /\ Idle
    /\ \E leg \in Legs, open \in BOOLEAN,
          found \in SUBSET {"SOFT_BREACH", "HARD_BREACH"} :
         LET v == Severity(leg, open, found)
         IN  /\ \/ v = "HARD_BREACH" /\ ApplyHard
                \/ RecoverHard(v) \/ RecoverSoft(v) \/ EngageSoft(v) \/ Steady(v)
             /\ Judged(v)
    /\ Stamped
    /\ UNCHANGED ended

\* apply_soft_degrade from pre-flight and from the feed-quality path.
SoftDegrade ==
    /\ Idle /\ ApplySoft /\ Stamped
    /\ UNCHANGED <<ended, verdicts>>

\* apply_recon_degraded_manage: re-stamps and overrides SOFT.
ReconDegrade ==
    /\ Idle /\ mode # "HARD_CRITICAL_DEGRADE"
    /\ mode' = "RECON_DEGRADED_MANAGE"
    /\ streak' = 0 /\ latched' = FALSE /\ entered' = clock
    /\ Persist("idle") /\ Stamped
    /\ UNCHANGED <<ended, verdicts, spent>>

\* reset_to_normal("manual_reset").
Reset ==
    /\ Idle /\ ToNormal /\ Stamped
    /\ credit' = Full
    /\ UNCHANGED <<ended, last, run, spent>>

\* consume_flatten_request: the caller flattens on TRUE, which it does not get
\* when the write raises.
SlipPersistConsumed == UNCHANGED <<row, dirty>> /\ pc' = "idle"
PersistConsumed == Persist("idle")

ConsumeFlatten ==
    /\ Idle /\ latched
    /\ latched' = FALSE
    /\ UNCHANGED <<mode, streak, entered>>
    /\ PersistConsumed
    /\ spent' = (spent \/ ~dirty')
    /\ UNCHANGED <<ended, verdicts, since>>

\* _dispatch_degradation_entered and _dispatch_degradation_recovered.
Dispatch ==
    /\ proc = "up" /\ pc # "idle" /\ pc' = "idle"
    /\ told' = IF pc = "page" THEN "hard" ELSE "recovered"
    /\ UNCHANGED <<memory, row, proc, verdicts, since, dirty, forgot, spent, clock,
                   crashes>>

Crash ==
    /\ proc = "up" /\ crashes < MaxCrashes
    /\ proc' = "down" /\ crashes' = crashes + 1 /\ pc' = "idle"
    /\ UNCHANGED <<memory, row, told, verdicts, since, dirty, forgot, spent, clock>>

\* The streak a restart begins with: health is re-earned.
SlipStreakAtBoot == IF rowMode = NoRow THEN 0 ELSE rowStreak
StreakAtBoot == 0

\* An empty vault means NORMAL.
ModeAtBoot == IF rowMode = NoRow THEN "NORMAL" ELSE rowMode

\* A new manager, hydrated from the row before anything else is called.
Boot ==
    /\ proc = "down" /\ proc' = "up"
    /\ mode' = ModeAtBoot
    /\ latched' = rowLatched
    /\ entered' = rowEntered
    /\ streak' = StreakAtBoot
    /\ run' = 0
    /\ forgot' = (forgot \/ dirty) /\ dirty' = FALSE
    /\ UNCHANGED <<row, pc, told, last, credit, since, spent, clock, crashes>>

Tick ==
    /\ clock < MaxClock /\ clock' = clock + 1
    /\ UNCHANGED <<memory, row, proc, pc, told, verdicts, since, dirty, forgot,
                   spent, crashes>>

Init ==
    /\ mode = "NORMAL" /\ streak = 0 /\ latched = FALSE /\ entered = NoTime
    /\ rowMode = NoRow /\ rowStreak = 0 /\ rowLatched = FALSE
    /\ rowEntered = NoTime
    /\ proc = "up" /\ pc = "idle" /\ told = "none"
    /\ last = "OK" /\ run = 0 /\ credit = Full
    /\ since = 0 /\ spent = TRUE /\ dirty = FALSE /\ forgot = FALSE
    /\ clock = 0 /\ crashes = 0

Next ==
    \/ Evaluate \/ SoftDegrade \/ ReconDegrade \/ Reset \/ ConsumeFlatten
    \/ Dispatch \/ Crash \/ Boot \/ Tick

Spec == Init /\ [][Next]_vars

\* The cycle keeps evaluating, a call runs to its end and a dead process is
\* restarted; breaches, operators and time owe nothing.
FairSpec ==
    /\ Spec
    /\ WF_vars(Evaluate) /\ WF_vars(Dispatch) /\ WF_vars(Boot)

-----------------------------------------------------------------------------
(* Properties.                                                             *)

\* Memory, the row and the history stay in their ranges.
TypeOK ==
    /\ mode \in Modes /\ rowMode \in Modes \cup {NoRow}
    /\ streak \in Nat /\ rowStreak \in Nat
    /\ latched \in BOOLEAN /\ rowLatched \in BOOLEAN /\ spent \in BOOLEAN
    /\ dirty \in BOOLEAN /\ forgot \in BOOLEAN
    /\ entered \in 0..MaxClock \cup {NoTime}
    /\ rowEntered \in 0..MaxClock \cup {NoTime}
    /\ proc \in {"up", "down"}
    /\ pc \in {"idle", "page", "recovered"}
    /\ told \in {"none", "hard", "recovered"}
    /\ last \in Severities
    /\ run \in 0..HardStreak /\ credit \in 0..Full
    /\ since \in 0..MaxClock /\ clock \in 0..MaxClock
    /\ crashes \in 0..MaxCrashes

\* "it steps down to SOFT (not straight to NORMAL) so health is re-proven a
\* second time": after a HARD_BREACH entries reopen only once
\* HARD_RECOVERY_STREAK + SOFT_RECOVERY_STREAK verdicts were OK, whatever
\* restarts, reconciliation degrades and soft breaches come between; only a
\* manual reset is quicker.  A restart may forget what the row refused.
EntriesAreEarned ==
    [][mode # "NORMAL" /\ mode' = "NORMAL" => Reset \/ credit' = Full \/ forgot']_vars

\* "Health must be RE-EARNED after a restart; do not inherit stale credit":
\* HARD is left for SOFT only after HARD_RECOVERY_STREAK OK verdicts of the
\* running process since its last HARD_BREACH.
HardIsReEarned ==
    [][mode = "HARD_CRITICAL_DEGRADE" /\ mode' = "SOFT_DEGRADE"
         => run' = HardStreak \/ forgot']_vars

\* A HARD_BREACH flattens the book at most once, and only while HARD lasts,
\* even if the process dies after consume_flatten_request.
OneFlattenPerBreach ==
    [][ConsumeFlatten => (~spent /\ mode = "HARD_CRITICAL_DEGRADE") \/ forgot]_vars

\* "persist the TRUE entry time ONCE, on the transition": re-assertions and
\* restarts never rejuvenate a SOFT or HARD degrade.
StampIsTrue ==
    mode \in {"SOFT_DEGRADE", "HARD_CRITICAL_DEGRADE"} =>
        entered = since \/ forgot

\* A state that blocks entries has "a proven exit": if HARD_BREACH verdicts
\* stop, OK verdicts keep coming and no reconciliation degrade is pending, the
\* manager returns to NORMAL, soft breaches in between or not.
HealthIsRestored ==
    /\ <>[](last # "HARD_BREACH" /\ mode # "RECON_DEGRADED_MANAGE")
    /\ []<>(last = "OK")
    => []<>(mode = "NORMAL")

\* "RECON can only exit via reset_to_normal()" (the escalation to HARD aside).
ReconNeedsReset ==
    [][mode = "RECON_DEGRADED_MANAGE" /\ mode' \in {"NORMAL", "SOFT_DEGRADE"}
         => Reset]_vars
=============================================================================
