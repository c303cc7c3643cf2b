-------------------------- MODULE KillSwitchProofs --------------------------
(***************************************************************************)
(* Proofs about KillSwitch, for any strategies, commands, watchdogs and    *)
(* guards.                                                                 *)
(***************************************************************************)
EXTENDS KillSwitch, TLAPS

LEMMA TypeStep == TypeOK /\ [Next]_vars => TypeOK'
  <1> SUFFICES ASSUME TypeOK, [Next]_vars PROVE TypeOK'
    OBVIOUS
  <1> USE KillSwitchAssumption DEF TypeOK, Transition, Latched, Levels, Sources, LoopFree
  <1>1. ASSUME NEW c \in Commands, ArmTransition(c) PROVE TypeOK'
    BY <1>1 DEF ArmTransition, Parsed, pulse, watch
  <1>2. CASE ArmStore
    BY <1>2 DEF ArmStore, risk, history, pulse, watch
  <1>3. CASE ArmSignal
    BY <1>3 DEF ArmSignal, Preempts, risk, pulse, watch
  <1>4. ASSUME NEW s \in Strategies, Checkpoint(s) PROVE TypeOK'
    BY <1>4 DEF Checkpoint, risk, latch, history, pulse, watch
  <1>5. CASE TakePending
    BY <1>5 DEF TakePending, risk, pulse, watch
  <1>6. CASE Protect
    BY <1>6 DEF Protect, risk, latch, history, pulse, watch
  <1>7. CASE ClearArm
    BY <1>7 DEF ClearArm, risk, history, pulse, watch
  <1>8. CASE OperatorRelease
    BY <1>8 DEF OperatorRelease, latch, pulse, watch
  <1>9. ASSUME NEW g \in Guards, GuardTrips(g) PROVE TypeOK'
    BY <1>9 DEF GuardTrips, latch, pulse, watch
  <1>10. ASSUME NEW w \in Watchdogs, Emit(w) PROVE TypeOK'
    BY <1>10 DEF Emit, risk, latch, history, watch
  <1>11. ASSUME NEW w \in Watchdogs, BeatAges(w) PROVE TypeOK'
    BY <1>11 DEF BeatAges, risk, latch, history, watch
  <1>12. ASSUME NEW w \in Watchdogs, GraceEnds(w) PROVE TypeOK'
    BY <1>12 DEF GraceEnds, risk, latch, history, pulse
  <1>13. ASSUME NEW w \in Watchdogs, CheckTrips(w) PROVE TypeOK'
    BY <1>13 DEF CheckTrips, Trip, risk, latch, history, pulse
  <1>14. ASSUME NEW w \in Watchdogs, CheckGated(w) PROVE TypeOK'
    BY <1>14 DEF CheckGated, risk, latch, history, pulse
  <1>15. ASSUME NEW w \in Watchdogs, CheckHealthy(w) PROVE TypeOK'
    BY <1>15 DEF CheckHealthy, risk, latch, history, pulse
  <1>16. ASSUME NEW w \in Watchdogs, Recover(w) PROVE TypeOK'
    BY <1>16 DEF Recover, latch, history, pulse
  <1>17. CASE UNCHANGED vars
    BY <1>17 DEF vars
  <1> QED
    BY <1>1, <1>2, <1>3, <1>4, <1>5, <1>6, <1>7, <1>8, <1>9, <1>10, <1>11,
       <1>12, <1>13, <1>14, <1>15, <1>16, <1>17
    DEF Next, Arm, Cycle, Check

\* Levels, latch phases and readings stay in their ranges.
THEOREM TypeCorrect == Spec => []TypeOK
  <1>1. Init => TypeOK
    <2> SUFFICES ASSUME Init PROVE TypeOK
      OBVIOUS
    <2>1. streak \in [Watchdogs -> 0..Required]
      BY KillSwitchAssumption DEF Init
    <2>2. /\ shutdown \in BOOLEAN /\ armed \in BOOLEAN /\ hold \in BOOLEAN
          /\ grace \in [Watchdogs -> BOOLEAN]
      BY DEF Init
    <2> QED BY <2>1, <2>2 DEF Init, TypeOK, Levels, Sources
  <1> QED BY <1>1, TypeStep, PTL DEF Spec

\* Every step either leaves the risk level alone, is a transition call, and
\* only ArmTransition adds to the dispatched commands.
LEMMA RiskSteps ==
    ASSUME TypeOK, Next
    PROVE  \/ \E c \in Commands : ArmTransition(c)
           \/ OperatorRelease
           \/ \E w \in Watchdogs : Recover(w)
           \/ /\ \E s \in Strategies \cup {NoStrategy}, b \in Sources :
                    Transition("ENTRY_GATE_HALT", s, b)
              /\ UNCHANGED dispatched
           \/ UNCHANGED <<risk, dispatched>>
  <1>1. ASSUME NEW g \in Guards, GuardTrips(g)
        PROVE  /\ \E s \in Strategies \cup {NoStrategy}, b \in Sources :
                     Transition("ENTRY_GATE_HALT", s, b)
               /\ UNCHANGED dispatched
    BY <1>1 DEF GuardTrips, Sources
  <1>2. ASSUME NEW w \in Watchdogs, CheckTrips(w)
        PROVE  \/ /\ \E s \in Strategies \cup {NoStrategy}, b \in Sources :
                        Transition("ENTRY_GATE_HALT", s, b)
                  /\ UNCHANGED dispatched
               \/ UNCHANGED <<risk, dispatched>>
    BY <1>2 DEF CheckTrips, Trip, Sources, history
  <1>3. ArmStore \/ ArmSignal \/ TakePending \/ Protect \/ ClearArm
          => UNCHANGED <<risk, dispatched>>
    BY DEF ArmStore, ArmSignal, TakePending, Protect, ClearArm, history
  <1>4. ASSUME NEW s \in Strategies, Checkpoint(s) PROVE UNCHANGED <<risk, dispatched>>
    BY <1>4 DEF Checkpoint, history
  <1>5. ASSUME NEW w \in Watchdogs,
               Emit(w) \/ BeatAges(w) \/ GraceEnds(w) \/ CheckGated(w) \/ CheckHealthy(w)
        PROVE  UNCHANGED <<risk, dispatched>>
    BY <1>5 DEF Emit, BeatAges, GraceEnds, CheckGated, CheckHealthy, history
  <1> QED BY <1>1, <1>2, <1>3, <1>4, <1>5 DEF Next, Arm, Cycle, Check

\* A FLATTEN_AND_HALT that reached the engine is never forgotten: the shutdown
\* latch outlives every overwrite of the level.
THEOREM KillRemembered == Spec => []KillIsRemembered
  <1>1. Init => KillIsRemembered
    BY DEF Init, KillIsRemembered
  <1>2. TypeOK /\ KillIsRemembered /\ [Next]_vars => KillIsRemembered'
    <2> SUFFICES ASSUME TypeOK, KillIsRemembered, Next PROVE KillIsRemembered'
      BY DEF KillIsRemembered, vars
    <2> USE DEF KillIsRemembered, Transition, Latched
    <2>1. ASSUME NEW c \in Commands, ArmTransition(c) PROVE KillIsRemembered'
      BY <2>1 DEF ArmTransition, Parsed
    <2>2. CASE OperatorRelease
      BY <2>2 DEF OperatorRelease
    <2>3. ASSUME NEW w \in Watchdogs, Recover(w) PROVE KillIsRemembered'
      BY <2>3 DEF Recover, history
    <2>4. CASE /\ \E s \in Strategies \cup {NoStrategy}, b \in Sources :
                     Transition("ENTRY_GATE_HALT", s, b)
               /\ UNCHANGED dispatched
      BY <2>4
    <2>5. CASE UNCHANGED <<risk, dispatched>>
      BY <2>5 DEF risk
    <2> QED BY <2>1, <2>2, <2>3, <2>4, <2>5, RiskSteps
  <1> QED BY <1>1, <1>2, TypeCorrect, PTL DEF Spec

\* In live no watchdog is ever about to release anything.
NoReleaseInLive == Live => LoopFree

\* In live no watchdog check is ever between its snapshot and a release.
LEMMA NoRelease == Spec => []NoReleaseInLive
  <1>1. Init => NoReleaseInLive
    BY DEF Init, NoReleaseInLive, LoopFree
  <1>2. TypeOK /\ NoReleaseInLive /\ [Next]_vars => NoReleaseInLive'
    <2> SUFFICES ASSUME TypeOK, Live, LoopFree, [Next]_vars PROVE LoopFree'
      BY DEF NoReleaseInLive
    <2> USE DEF LoopFree, TypeOK
    <2>1. ASSUME NEW w \in Watchdogs, CheckHealthy(w) PROVE LoopFree'
      BY <2>1 DEF CheckHealthy, AllowRelease
    <2>2. ASSUME NEW w \in Watchdogs, Recover(w) PROVE FALSE
      BY <2>2 DEF Recover
    <2>3. CASE UNCHANGED check
      BY <2>3
    <2>4. Arm \/ Cycle \/ OperatorRelease => UNCHANGED check
      BY DEF Arm, ArmTransition, ArmStore, ArmSignal, Cycle, Checkpoint,
         TakePending, Protect, ClearArm, OperatorRelease, watch
    <2>5. ASSUME NEW g \in Guards, GuardTrips(g) PROVE UNCHANGED check
      BY <2>5 DEF GuardTrips, watch
    <2>6. ASSUME NEW w \in Watchdogs,
                 Emit(w) \/ BeatAges(w) \/ GraceEnds(w) \/ CheckTrips(w) \/ CheckGated(w)
          PROVE  UNCHANGED check
      BY <2>6 DEF Emit, BeatAges, GraceEnds, CheckTrips, CheckGated, watch
    <2> QED BY <2>1, <2>2, <2>3, <2>4, <2>5, <2>6 DEF Next, Check, vars
  <1> QED BY <1>1, <1>2, TypeCorrect, PTL DEF Spec

\* In live, blocked entries reopen by an operator's command only, for any
\* number of watchdogs and guards.
THEOREM LiveLatchHolds == Spec => LatchUntilHuman
  <1>1. TypeOK /\ NoReleaseInLive /\ [Next]_vars =>
          [BlocksAll /\ ~BlocksAll' /\ Live =>
             OperatorRelease \/ \E c \in Commands : ArmTransition(c)]_vars
    <2> SUFFICES ASSUME TypeOK, NoReleaseInLive, Next, BlocksAll, ~BlocksAll', Live
                 PROVE  OperatorRelease \/ \E c \in Commands : ArmTransition(c)
      OBVIOUS
    <2>1. ASSUME NEW w \in Watchdogs, Recover(w) PROVE FALSE
      BY <2>1 DEF Recover, NoReleaseInLive, LoopFree
    <2>2. ASSUME NEW s, NEW b, Transition("ENTRY_GATE_HALT", s, b) PROVE FALSE
      BY <2>2 DEF Transition, BlocksAll
    <2>3. ASSUME UNCHANGED <<risk, dispatched>> PROVE FALSE
      BY <2>3 DEF risk, BlocksAll
    <2> QED BY <2>1, <2>2, <2>3, RiskSteps
  <1> QED BY <1>1, TypeCorrect, NoRelease, PTL DEF Spec, LatchUntilHuman
=============================================================================
