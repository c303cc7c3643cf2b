----------------------------- MODULE Lifecycle -----------------------------
(***************************************************************************)
(* A leg's lifecycle (src/lifecycle): the state machine, the demotion       *)
(* monitors, and the hash chain of its configurations with the refit runner *)
(* that writes it.                                                          *)
(*                                                                          *)
(* Weekly returns are in units of the validated deviation around the        *)
(* validated mean; the rolling Sharpe ratio is compared with a bound of     *)
(* zero, so that only its sign matters.  A hash stands for its              *)
(* configuration.                                                           *)
(***************************************************************************)
EXTENDS Integers, Sequences, FiniteSets, SequencesExt

CONSTANTS
    LcRunners,    \* refit runners: one per process
    LcConfigs, LcNone,    \* configurations; no hash
    LcReturns,    \* weekly returns
    LcK, LcH,     \* slack and threshold of the CUSUM
    LcWindow, LcArmed, LcBreach,   \* rolling Sharpe: window, min_armed_weeks, breach_consecutive
    LcWatchWeeks, \* watch persistence: max_weeks
    LcCostDays,   \* cost divergence: consecutive_days
    LcMaxWeeks, LcMaxRefits   \* bounds

ASSUME LcAssumption ==
    /\ LcReturns \subseteq Int /\ {LcK, LcH, LcArmed, LcMaxWeeks, LcMaxRefits} \subseteq Nat
    /\ {LcWindow, LcBreach, LcCostDays, LcWatchWeeks} \subseteq Nat \ {0} /\ LcNone \notin LcConfigs

LcStates == {"CANDIDATE", "VALIDATED", "PAPER", "ACTIVE", "WATCH", "SAFE_MODE", "RETIRED"}
LcPromotions == {"VALIDATED", "PAPER", "ACTIVE"}

VARIABLES
    lcState, lcEpisodes,   \* the state machine: state, safe_mode_episodes
    lcWeeks,     \* the telemetry: a week's return and whether its cost diverged
    lcWatched,   \* weeks in WATCH
    lcChain,     \* config_hash_chain: parent, leaf, epoch
    lcAt, lcParent, lcLeaf, lcEpoch,   \* per runner: place, parent read, leaf, epoch
    lcRefits,    \* refits begun: the source of epochs
    lcCrossed    \* two refits have overlapped (history)

lcVars == <<lcState, lcEpisodes, lcWeeks, lcWatched, lcChain, lcAt, lcParent, lcLeaf, lcEpoch, lcRefits,
            lcCrossed>>
lcMachine == <<lcState, lcEpisodes, lcWatched>>
lcRefit == <<lcAt, lcParent, lcLeaf, lcEpoch, lcRefits, lcCrossed>>

LcInit ==
    /\ lcState = "CANDIDATE" /\ lcEpisodes = 0 /\ lcWeeks = <<>> /\ lcWatched = 0
    /\ lcChain = <<>> /\ lcAt = [p \in LcRunners |-> "idle"]
    /\ lcParent = [p \in LcRunners |-> LcNone] /\ lcLeaf = [p \in LcRunners |-> LcNone]
    /\ lcEpoch = [p \in LcRunners |-> 0] /\ lcRefits = 0
    /\ lcCrossed = FALSE

-----------------------------------------------------------------------------
(* The state machine.                                                      *)

\* LEGAL_TRANSITIONS
LcLegal(s) ==
    CASE s = "CANDIDATE" -> {"VALIDATED", "SAFE_MODE", "RETIRED"}
      [] s = "VALIDATED" -> {"PAPER", "SAFE_MODE", "RETIRED"}
      [] s = "PAPER" -> {"ACTIVE", "SAFE_MODE", "RETIRED"}
      [] s = "ACTIVE" -> {"WATCH", "SAFE_MODE", "RETIRED"}
      [] s = "WATCH" -> {"ACTIVE", "SAFE_MODE", "RETIRED"}
      [] s = "SAFE_MODE" -> {"RETIRED"}
      [] OTHER -> {}

LcCan(to, actor) == to \in LcLegal(lcState) /\ ~(actor = "operator" /\ to \in LcPromotions)

\* The new state, and what goes with it.
LcMoves(to) ==
    /\ lcState' = to /\ lcWatched' = IF to = "WATCH" THEN lcWatched ELSE 0
    /\ lcEpisodes' = lcEpisodes + IF to = "SAFE_MODE" THEN 1 ELSE 0

\* transition: an illegal one raises and changes nothing.
LcTransition(to, actor) ==
    /\ to # lcState /\ LcCan(to, actor) /\ LcMoves(to)
    /\ UNCHANGED <<lcWeeks, lcChain, lcRefit>>

-----------------------------------------------------------------------------
(* The demotion monitors.                                                  *)

\* One week of the CUSUM: the statistic, and whether it has been above the threshold.
LcCusumWeek(r, acc) ==
    LET up == acc[1] - r - LcK
        s == IF up > 0 THEN up ELSE 0
    IN <<s, acc[2] \/ s > LcH>>
LcCusum(weeks) == FoldLeft(LAMBDA acc, w : LcCusumWeek(w.ret, acc), <<0, FALSE>>, weeks)[2]

\* A counter of consecutive hits that is back at zero after a miss; tripped at n.
LcRun(hits, n) ==
    FoldLeft(LAMBDA acc, hit : LET run == IF hit THEN acc[1] + 1 ELSE 0 IN <<run, acc[2] \/ run >= n>>,
             <<0, FALSE>>, hits)[2]

\* _rolling_sharpe is below zero: a window without deviation counts as zero.
LcSharpeLow(weeks, end) ==
    LET window == SubSeq(weeks, end - LcWindow + 1, end)
        total == FoldLeft(LAMBDA acc, w : acc + w.ret, 0, window)
    IN total < 0 /\ \E i \in DOMAIN window : window[i].ret # window[1].ret

\* rolling_sharpe_monitor: silent until armed.
LcSharpe(weeks) ==
    /\ Len(weeks) >= LcArmed /\ Len(weeks) >= LcWindow
    /\ LcRun([i \in 1..(Len(weeks) - LcWindow + 1) |-> LcSharpeLow(weeks, i + LcWindow - 1)], LcBreach)

\* cost_divergence_monitor
LcCost(weeks) == LcRun([i \in DOMAIN weeks |-> weeks[i].dear], LcCostDays)

\* worst_tier of the verdicts, watch_persistence_trip and integrity_trip included.
LcTier(weeks, watched, sound) ==
    IF ~sound \/ LcCusum(weeks) \/ watched >= LcWatchWeeks THEN "SAFE_MODE"
    ELSE IF LcSharpe(weeks) \/ LcCost(weeks) THEN "WATCH" ELSE "NONE"

\* A week's telemetry is reviewed: a tripped tier is entered where that is legal, and a leg in
\* WATCH with nothing tripped returns to ACTIVE.
LcReview(ret, dear, sound) ==
    LET weeks == Append(lcWeeks, [ret |-> ret, dear |-> dear])
        watched == IF lcState = "WATCH" THEN lcWatched + 1 ELSE 0
        tier == LcTier(weeks, watched, sound)
        to == IF tier = "NONE" /\ lcState = "WATCH" THEN "ACTIVE" ELSE tier
    IN /\ lcState \in {"PAPER", "ACTIVE", "WATCH"} /\ Len(lcWeeks) < LcMaxWeeks /\ lcWeeks' = weeks
       /\ IF to # lcState /\ to # "NONE" /\ LcCan(to, "system")
          THEN LcMoves(to)
          ELSE lcWatched' = watched /\ UNCHANGED <<lcState, lcEpisodes>>
       /\ UNCHANGED <<lcChain, lcRefit>>

-----------------------------------------------------------------------------
(* The hash chain.                                                         *)

\* The head is read by the leaf's value instead of its row.
SlipLcHead == IF lcChain = <<>> THEN LcNone ELSE lcChain[1].leaf
\* read_latest_leaf
LcHead == IF lcChain = <<>> THEN LcNone ELSE Last(lcChain).leaf

LcEntry(parent, leaf, epoch) == [parent |-> parent, leaf |-> leaf, epoch |-> epoch]

\* promote_genesis, once
LcGenesis(c) ==
    /\ lcChain = <<>> /\ lcState = "PAPER" /\ \A p \in LcRunners : lcAt[p] = "idle"
    /\ lcChain' = <<LcEntry(LcNone, c, 0)>> 
    /\ UNCHANGED <<lcMachine, lcWeeks, lcRefit>>

\* record_refit reads the head ...
LcRefitRead(p, c) ==
    /\ lcAt[p] = "idle" /\ lcChain # <<>> /\ lcRefits < LcMaxRefits /\ lcRefits' = lcRefits + 1
    /\ lcAt' = [lcAt EXCEPT ![p] = "append"] /\ lcParent' = [lcParent EXCEPT ![p] = LcHead]
    /\ lcLeaf' = [lcLeaf EXCEPT ![p] = c] /\ lcEpoch' = [lcEpoch EXCEPT ![p] = lcRefits + 1]
    /\ lcCrossed' = (lcCrossed \/ \E q \in LcRunners : lcAt[q] # "idle")
    /\ UNCHANGED <<lcMachine, lcWeeks, lcChain>>

\* ... and appends the new leaf.
LcRefitAppend(p) ==
    /\ lcAt[p] = "append" /\ lcAt' = [lcAt EXCEPT ![p] = "idle"]
    /\ lcChain' = Append(lcChain, LcEntry(lcParent[p], lcLeaf[p], lcEpoch[p]))
    /\ UNCHANGED <<lcMachine, lcWeeks, lcParent, lcLeaf, lcEpoch, lcRefits, lcCrossed>>

\* verify_chain
LcVerifies ==
    \A i \in DOMAIN lcChain :
        IF i = 1 THEN lcChain[1].parent = LcNone
        ELSE lcChain[i].parent = lcChain[i - 1].leaf /\ lcChain[i].epoch > lcChain[i - 1].epoch

LcNext ==
    \/ \E to \in LcStates, actor \in {"system", "operator"} : LcTransition(to, actor)
    \/ \E ret \in LcReturns, dear, sound \in BOOLEAN : LcReview(ret, dear, sound)
    \/ \E c \in LcConfigs : LcGenesis(c)
    \/ \E p \in LcRunners, c \in LcConfigs : LcRefitRead(p, c)
    \/ \E p \in LcRunners : LcRefitAppend(p)

LcSpec == LcInit /\ [][LcNext]_lcVars

-----------------------------------------------------------------------------
\* Types; a watch that reaches its window is over (state_machine.py, evaluate).
LcTypeOK ==
    /\ lcState \in LcStates /\ lcEpisodes \in 0..1 /\ lcWatched \in 0..(LcWatchWeeks - 1)
    /\ lcAt \in [LcRunners -> {"idle", "append"}]
    /\ \A i \in DOMAIN lcChain : lcChain[i].leaf \in LcConfigs

\* What each week fell short by, beyond the slack; what weeks i to j did together; whether some
\* stretch of consecutive weeks fell short by more than the threshold.
LcShort(weeks) == [k \in DOMAIN weeks |-> -weeks[k].ret - LcK]
LcShortfall(weeks, i, j) == FoldSet(LAMBDA k, n : n + LcShort(weeks)[k], 0, i..j)
LcDrift(weeks) == \E i, j \in DOMAIN weeks : i <= j /\ LcShortfall(weeks, i, j) > LcH

\* The drift monitor trips exactly when some stretch of consecutive weeks fell short of the
\* validated mean by more than the threshold and the slack of each week, and stays tripped
\* (demotion_monitors.py:41-58).
LcDriftSeen == LcCusum(lcWeeks) = LcDrift(lcWeeks)

\* A leg in front of the market has never tripped the drift monitor, and has not been under
\* watch for longer than its window (demotion_monitors.py:155-176, state_machine.py:90-110).
LcFit == lcState \in {"PAPER", "ACTIVE", "WATCH"} => ~LcCusum(lcWeeks) /\ lcWatched < LcWatchWeeks

\* A leg that has been in SAFE_MODE never trades again: neither the operator, nor a gate, nor a
\* good week of telemetry brings it back (state_machine.py:29-42, 84-110).
LcGoneForGood == lcEpisodes > 0 => lcState \in {"SAFE_MODE", "RETIRED"}

\* Every configuration recorded names the one before it, unless two refits overlapped: the head
\* is read and the entry appended in two steps (hash_chain.py:41-61, 101-111).
LcLineage == ~lcCrossed => LcVerifies

\* What the lifecycle promises of a leg: every drift is seen and ends its trading, it never trades
\* again after SAFE_MODE, and its configurations form one line unless refits overlap.
LcSound == LcTypeOK /\ LcDriftSeen /\ LcFit /\ LcGoneForGood /\ LcLineage
=============================================================================
