--------------------------- MODULE MCKillFlatten ----------------------------
(***************************************************************************)
(* The live kill path, and the liquidation it leads to; and the policy     *)
(* lifecycle, whose authority a flatten does not wait for.  They share no  *)
(* state here: a behaviour moves one of them, which.                       *)
(***************************************************************************)
EXTENDS KillSwitch, Liquidation, PolicyLifecycle

VARIABLE which      \* the component that moves

CONSTANTS flatten, liquidate, halt, legA

\* One command of each kind: FLATTEN_AND_HALT, and ENGAGE_KILL_SWITCH at the
\* strategy and at the entry-gate level.
MCLevelOf == [c \in Commands |->
    IF c = flatten THEN "GLOBAL_FLATTEN_AND_HALT"
    ELSE IF c = liquidate THEN "STRATEGY_LIQUIDATE" ELSE "ENTRY_GATE_HALT"]
MCTargetOf == [c \in Commands |-> IF c = liquidate THEN legA ELSE NoStrategy]
MCStart == <<1, -1>>                    \* a long and a short position
MCStarts == {MCStart}
MCStrata == {"calm", "volatile"} \X {"open", "close"}
MCLedgers == {[s \in MCStrata |-> "none"], [s \in MCStrata |-> "good"],
              [s \in MCStrata |-> IF s[1] = "calm" THEN "good" ELSE "bad"],
              [s \in MCStrata |-> IF s \in {<<"calm", "open">>, <<"volatile", "close">>} THEN "good" ELSE "few"]}

MCVars == <<which, vars, lqVars, plVars>>

MCInit ==
    /\ which \in {"kill", "flatten", "policy"}
    /\ Init
    /\ LqInit /\ (which # "flatten" => lqHeld = MCStart /\ ~lqSoak)
    /\ PlInit

MCNext ==
    \/ which = "kill" /\ Next /\ UNCHANGED <<which, lqVars, plVars>>
    \/ which = "flatten" /\ LqNext /\ UNCHANGED <<which, vars, plVars>>
    \/ which = "policy" /\ PlNext /\ UNCHANGED <<which, vars, lqVars>>

MCSpec == MCInit /\ [][MCNext]_MCVars
=============================================================================
