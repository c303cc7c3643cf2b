----------------------------- MODULE KillSwitch -----------------------------
(***************************************************************************)
(* The risk-escalation level, the preemption latch that lets a kill command *)
(* abort the running cycle (src/engine/engine_preemption.py), and the       *)
(* heartbeat watchdogs that raise and lower the same level                  *)
(* (src/control/heartbeat_watchdog.py, liveness_watchdogs.py).              *)
(*                                                                          *)
(* Two threads matter.  The emergency listener arms commands; the event     *)
(* loop runs the cycle, the watchdogs and the emitter, one at a time and    *)
(* switching only where they await.  A strategy stands for its own symbol.  *)
(***************************************************************************)
EXTENDS Integers

CONSTANTS
    Strategies,
    Commands,      \* emergency commands the listener has claimed
    LevelOf,       \* the level each command asks for
    TargetOf,      \* the strategy each command names, or NoStrategy
    NoStrategy,
    Watchdogs,     \* components with a HeartbeatWatchdog
    Acting,        \* those wired to the real engine (not NullEscalation)
    Guards,        \* other callers of transition: hash mismatch, boot mismatch
    Live,          \* environment == "live"
    AutoRelease,   \* auto_deescalation_enabled
    Required,      \* deescalation_fresh_streak
    MarketOpens    \* the calendar has regular trading hours at all

Levels == {"NOMINAL", "ENTRY_GATE_HALT", "STRATEGY_LIQUIDATE",
           "GLOBAL_FLATTEN_AND_HALT"}
NoCommand == "none"

ASSUME KillSwitchAssumption ==
    /\ LevelOf \in [Commands -> Levels]
    /\ TargetOf \in [Commands -> Strategies \cup {NoStrategy}]
    /\ NoCommand \notin Commands
    /\ NoStrategy \notin Strategies
    /\ Acting \subseteq Watchdogs
    /\ Live \in BOOLEAN
    /\ AutoRelease \in BOOLEAN
    /\ Required \in Nat
    /\ MarketOpens \in BOOLEAN

VARIABLES
    level,       \* RiskEscalationSnapshot.level
    target,      \* RiskEscalationSnapshot.strategy_id
    by,          \* RiskEscalationSnapshot.commanded_by
    shutdown,    \* RiskEscalationSnapshot.engine_shutdown_latched
    armed,       \* the _preemption_armed event
    pending,     \* _pending_command
    arming,      \* command the listener is arming
    armpc,       \* how far arm_command has come
    cycle,       \* the orchestrator: "run", "take", "act" or "clear"
    dispatched,  \* commands given to arm_command (history)
    handled,     \* commands an owner took for terminal marking (history)
    hold,        \* the operator or a guard wants entries stopped (history)
    beat,        \* beat[w]: age of the stored heartbeat
    lastCycle,   \* lastCycle[w]: age of last_cycle_ts in its payload
    gate,        \* gate[w]: the gate state in its payload
    streak,      \* streak[w]: _fresh_streak, saturating at Required
    grace,       \* grace[w]: still within the startup grace
    check        \* check[w]: "recover" between the snapshot and the release

latch == <<armed, pending, arming, armpc>>
risk == <<level, target, by, shutdown>>
history == <<dispatched, handled, hold>>
pulse == <<beat, lastCycle, gate>>
watch == <<streak, grace, check>>
vars == <<level, target, by, shutdown, armed, pending, arming, armpc, cycle,
          dispatched, handled, hold, beat, lastCycle, gate, streak, grace, check>>

-----------------------------------------------------------------------------
(* RiskEscalationEngine.                                                   *)

Preempts(lv) == lv \in {"STRATEGY_LIQUIDATE", "GLOBAL_FLATTEN_AND_HALT"}

\* engine_shutdown_latched survives every later transition.
SlipLatched(lv) == lv = "GLOBAL_FLATTEN_AND_HALT"
Latched(lv) == shutdown \/ lv = "GLOBAL_FLATTEN_AND_HALT"

\* parse_escalation_level: only a member of the enum gets through.
Parsed(c) == LevelOf[c]

\* transition: the new level replaces the old one, whatever it was.
Transition(lv, strategy, source) ==
    /\ level' = lv
    /\ target' = strategy
    /\ by' = source
    /\ shutdown' = Latched(lv)

BlocksAll == level \in {"ENTRY_GATE_HALT", "GLOBAL_FLATTEN_AND_HALT"}
BlocksStrategy(s) == BlocksAll \/ (level = "STRATEGY_LIQUIDATE" /\ target = s)

RequiresPreemption(s) ==
    \/ level = "GLOBAL_FLATTEN_AND_HALT"
    \/ level = "STRATEGY_LIQUIDATE" /\ target \in {s, NoStrategy}

ShouldPreempt(s) == armed /\ RequiresPreemption(s)

-----------------------------------------------------------------------------
(* The listener thread: _dispatch_command calls                            *)
(* note_emergency_cycle_interrupt, which arms the latch (arm_command).     *)

ArmTransition(c) ==
    /\ armpc = "idle" /\ c \notin dispatched
    /\ Transition(Parsed(c), TargetOf[c], "command")
    /\ arming' = c /\ armpc' = "store"
    /\ dispatched' = dispatched \cup {c}
    /\ hold' = (LevelOf[c] # "NOMINAL")
    /\ UNCHANGED <<armed, pending, cycle, handled, pulse, watch>>

ArmStore ==
    /\ armpc = "store" /\ armpc' = "signal"
    /\ pending' = arming
    /\ UNCHANGED <<risk, armed, arming, cycle, history, pulse, watch>>

\* A level that does not preempt is executed, and marked, by the coroutine
\* _execute_claimed_control_command instead of the cycle's handler.
ArmSignal ==
    /\ armpc = "signal" /\ armpc' = "idle"
    /\ armed' = (armed \/ Preempts(LevelOf[arming]))
    /\ handled' = handled \cup
         (IF Preempts(LevelOf[arming]) THEN {} ELSE {arming})
    /\ arming' = NoCommand
    /\ UNCHANGED <<risk, pending, cycle, dispatched, hold, pulse, watch>>

-----------------------------------------------------------------------------
(* The event loop.  A watchdog check does not await, so nothing else of the *)
(* loop runs between its snapshot and its release; the listener may.        *)

LoopFree == \A w \in Watchdogs : check[w] = "idle"

\* The orchestrator (external) polls the latch at its checkpoints, and its
\* handler takes the pending command, acts, and clears the arm.
Checkpoint(s) ==
    /\ LoopFree /\ cycle = "run" /\ ShouldPreempt(s)
    /\ cycle' = "take"
    /\ UNCHANGED <<risk, latch, history, pulse, watch>>

TakePending ==
    /\ LoopFree /\ cycle = "take" /\ cycle' = "act"
    /\ pending' = NoCommand
    /\ handled' = handled \cup ({pending} \ {NoCommand})
    /\ UNCHANGED <<risk, armed, arming, armpc, dispatched, hold, pulse, watch>>

\* The protective action is awaited, so the listener may arm meanwhile.
Protect ==
    /\ LoopFree /\ cycle = "act" /\ cycle' = "clear"
    /\ UNCHANGED <<risk, latch, history, pulse, watch>>

ClearArm ==
    /\ LoopFree /\ cycle = "clear" /\ cycle' = "run"
    /\ armed' = FALSE /\ pending' = NoCommand
    /\ UNCHANGED <<risk, arming, armpc, history, pulse, watch>>

\* RELEASE_KILL_SWITCH, executed by the orchestrator (external).
OperatorRelease ==
    /\ LoopFree /\ hold
    /\ Transition("NOMINAL", NoStrategy, "command")
    /\ hold' = FALSE
    /\ UNCHANGED <<latch, cycle, dispatched, handled, pulse, watch>>

\* assert_running_hash, detect_out_of_band_change, reconcile_boot.
GuardTrips(g) ==
    /\ LoopFree
    /\ \E s \in Strategies \cup {NoStrategy} : Transition("ENTRY_GATE_HALT", s, g)
    /\ hold' = TRUE
    /\ UNCHANGED <<latch, cycle, dispatched, handled, pulse, watch>>

-----------------------------------------------------------------------------
(* HeartbeatEmitter and HeartbeatWatchdog.                                 *)

\* emit_once stores what the gate and the cycle report at that moment.
Emit(w) ==
    /\ LoopFree
    /\ beat' = [beat EXCEPT ![w] = "fresh"]
    /\ \E y \in {"unknown", "fresh", "stale"}, g \in {"OPEN", "BLOCKED"} :
          /\ lastCycle' = [lastCycle EXCEPT ![w] = y]
          /\ gate' = [gate EXCEPT ![w] = g]
    /\ UNCHANGED <<risk, latch, cycle, history, watch>>

\* The threshold passes: the cycle stamp is never younger than the beat.
BeatAges(w) ==
    /\ LoopFree /\ beat[w] = "fresh"
    /\ \/ beat' = [beat EXCEPT ![w] = "stale"]
       \/ lastCycle[w] = "fresh" /\ UNCHANGED beat
    /\ lastCycle' = [lastCycle EXCEPT ![w] = IF @ = "fresh" THEN "stale" ELSE @]
    /\ UNCHANGED <<risk, latch, cycle, history, gate, watch>>

GraceEnds(w) ==
    /\ LoopFree /\ grace[w]
    /\ grace' = [grace EXCEPT ![w] = FALSE]
    /\ UNCHANGED <<risk, latch, cycle, history, pulse, streak, check>>

\* The trip of check; NullEscalation ignores it.
SlipTrip(w) ==
    IF w \in Acting
      THEN Transition("ENTRY_GATE_HALT", NoStrategy, "system")
      ELSE UNCHANGED risk
Trip(w) ==
    IF w \in Acting
      THEN Transition("ENTRY_GATE_HALT", NoStrategy, "heartbeat_watchdog")
      ELSE UNCHANGED risk

SlipAllowRelease == AutoRelease
AllowRelease == AutoRelease /\ ~Live

Dead(w) == beat[w] # "fresh" \/ lastCycle[w] = "stale"

\* A check while the market is closed, or in the startup grace, does nothing;
\* a dead loop trips; a blocked gate only resets the streak.
CheckTrips(w) ==
    /\ LoopFree /\ MarketOpens /\ ~grace[w] /\ Dead(w)
    /\ streak' = [streak EXCEPT ![w] = 0]
    /\ Trip(w)
    /\ UNCHANGED <<latch, cycle, history, pulse, grace, check>>

CheckGated(w) ==
    /\ LoopFree /\ MarketOpens /\ ~grace[w] /\ ~Dead(w)
    /\ gate[w] = "BLOCKED"
    /\ streak' = [streak EXCEPT ![w] = 0]
    /\ UNCHANGED <<risk, latch, cycle, history, pulse, grace, check>>

\* A healthy check counts; a full streak releases the watchdog's own halt.
CheckHealthy(w) ==
    /\ LoopFree /\ MarketOpens /\ ~grace[w] /\ ~Dead(w)
    /\ gate[w] = "OPEN"
    /\ streak' = [streak EXCEPT ![w] = IF @ < Required THEN @ + 1 ELSE @]
    /\ check' = [check EXCEPT ![w] =
         IF /\ AllowRelease /\ w \in Acting /\ streak'[w] >= Required
            /\ level = "ENTRY_GATE_HALT" /\ by = "heartbeat_watchdog"
            /\ ~shutdown
           THEN "recover" ELSE "idle"]
    /\ UNCHANGED <<risk, latch, cycle, history, pulse, grace>>

Recover(w) ==
    /\ check[w] = "recover"
    /\ check' = [check EXCEPT ![w] = "idle"]
    /\ streak' = [streak EXCEPT ![w] = 0]
    /\ Transition("NOMINAL", NoStrategy, "heartbeat_watchdog_recovery")
    /\ UNCHANGED <<latch, cycle, history, pulse, grace>>

-----------------------------------------------------------------------------
Init ==
    /\ level = "NOMINAL" /\ target = NoStrategy /\ by = "system"
    /\ shutdown = FALSE
    /\ armed = FALSE /\ pending = NoCommand
    /\ arming = NoCommand /\ armpc = "idle"
    /\ cycle = "run"
    /\ dispatched = {} /\ handled = {} /\ hold = FALSE
    /\ beat = [w \in Watchdogs |-> "none"]
    /\ lastCycle = [w \in Watchdogs |-> "unknown"]
    /\ gate = [w \in Watchdogs |-> "OPEN"]
    /\ streak = [w \in Watchdogs |-> 0]
    /\ grace = [w \in Watchdogs |-> TRUE]
    /\ check = [w \in Watchdogs |-> "idle"]

Arm == (\E c \in Commands : ArmTransition(c)) \/ ArmStore \/ ArmSignal

Cycle == (\E s \in Strategies : Checkpoint(s)) \/ TakePending \/ Protect \/ ClearArm

Check(w) == CheckTrips(w) \/ CheckGated(w) \/ CheckHealthy(w) \/ Recover(w)

Next ==
    \/ Arm
    \/ Cycle
    \/ OperatorRelease
    \/ \E g \in Guards : GuardTrips(g)
    \/ \E w \in Watchdogs : Emit(w) \/ BeatAges(w) \/ GraceEnds(w) \/ Check(w)

Spec == Init /\ [][Next]_vars

\* The listener finishes what it arms, the cycle reaches its checkpoints and
\* the watchdog task keeps polling; operators, beats and time owe nothing.
FairSpec ==
    /\ Spec
    /\ WF_vars(ArmStore \/ ArmSignal)
    /\ WF_vars(Cycle)
    /\ \A w \in Watchdogs : WF_vars(Check(w)) /\ WF_vars(GraceEnds(w))

-----------------------------------------------------------------------------
(* Properties.                                                             *)

Sources == {"system", "command", "heartbeat_watchdog",
            "heartbeat_watchdog_recovery"} \cup Guards

\* Levels, latch phases and watchdog readings stay in their ranges.
TypeOK ==
    /\ level \in Levels
    /\ target \in Strategies \cup {NoStrategy}
    /\ by \in Sources
    /\ shutdown \in BOOLEAN /\ armed \in BOOLEAN /\ hold \in BOOLEAN
    /\ pending \in Commands \cup {NoCommand}
    /\ arming \in Commands \cup {NoCommand}
    /\ armpc \in {"idle", "store", "signal"}
    /\ armpc # "idle" => arming \in Commands
    /\ cycle \in {"run", "take", "act", "clear"}
    /\ dispatched \subseteq Commands
    /\ handled \subseteq Commands
    /\ beat \in [Watchdogs -> {"none", "fresh", "stale"}]
    /\ lastCycle \in [Watchdogs -> {"unknown", "fresh", "stale"}]
    /\ gate \in [Watchdogs -> {"OPEN", "BLOCKED"}]
    /\ streak \in [Watchdogs -> 0..Required]
    /\ grace \in [Watchdogs -> BOOLEAN]
    /\ check \in [Watchdogs -> {"idle", "recover"}]

\* A kill is remembered: once a FLATTEN_AND_HALT reached the engine, the
\* shutdown latch stays set through every later trip, guard, release and
\* recovery that overwrites the level (engine_shutdown_latched).
KillIsRemembered ==
    \A c \in dispatched : LevelOf[c] = "GLOBAL_FLATTEN_AND_HALT" => shutdown

\* "live keeps latch-until-human": entries that are blocked for all are
\* reopened in live by an operator's command only, never by a watchdog or a
\* guard, whatever the threads interleave.
LatchUntilHuman ==
    [][BlocksAll /\ ~BlocksAll' /\ Live =>
         OperatorRelease \/ \E c \in Commands : ArmTransition(c)]_vars

\* Halts must not latch for ever in paper (FINDING-7): if every watchdog's
\* readings stay healthy and neither the operator nor a guard wants entries
\* stopped, a halt is released.
Healthy == \A w \in Watchdogs : ~Dead(w) /\ gate[w] = "OPEN"
HaltIsReleased == <>[](Healthy /\ ~shutdown /\ ~hold) => []<>~BlocksAll

\* "The single owner of terminal-marking for those is the cycle-preemption
\* handler": a dispatched preempting command is eventually taken by it, unless
\* the operator releases the stop first.
KillIsHandled ==
    \A c \in Commands : (c \in dispatched) ~> (c \in handled \/ ~hold)
=============================================================================
