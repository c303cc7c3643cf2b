---------------------------- MODULE MCKillPaging ----------------------------
(***************************************************************************)
(* The release of a paper halt, the notifications it is announced with,    *)
(* and the portfolio coordinator that exits pass through.  They share no   *)
(* state here: a behaviour moves one of them, which.  MCKillSpec is the    *)
(* kill switch by itself.                                                  *)
(***************************************************************************)
EXTENDS KillSwitch, Coordinator, Paging

VARIABLE which      \* the component that moves

CONSTANTS flatten, liquidate, halt, legA

\* One command of each kind: FLATTEN_AND_HALT, and ENGAGE_KILL_SWITCH at the
\* strategy and at the entry-gate level.
MCLevelOf == [c \in Commands |->
    IF c = flatten THEN "GLOBAL_FLATTEN_AND_HALT"
    ELSE IF c = liquidate THEN "STRATEGY_LIQUIDATE" ELSE "ENTRY_GATE_HALT"]
MCTargetOf == [c \in Commands |-> IF c = liquidate THEN legA ELSE NoStrategy]
MCSector == [qqq |-> "growth", spy |-> "blend"]
MCBeta == [qqq |-> 115, spy |-> 100]
MCSharpe == [qqq |-> 2, spy |-> 1]
MCSplits == {[qqq |-> 50, spy |-> 50], [qqq |-> 96, spy |-> 4]}
MCBackoff == <<1, 2>>
MCCap == [k \in PgKinds |-> 1]
MCMay == [p \in PgProcs |-> {"page"}]

MCVars == <<which, vars, coVars, pgVars>>

MCInit ==
    /\ which \in {"kill", "portfolio", "paging"}
    /\ Init
    /\ CoInit
    /\ PgInit

MCNext ==
    \/ which = "kill" /\ Next /\ UNCHANGED <<which, coVars, pgVars>>
    \/ which = "portfolio" /\ CoNext /\ UNCHANGED <<which, vars, pgVars>>
    \/ which = "paging" /\ PgNext /\ UNCHANGED <<which, vars, coVars>>

\* Fairness of the component that moves.
MCFair ==
    /\ WF_vars(which = "kill" /\ (ArmStore \/ ArmSignal)) /\ WF_vars(which = "kill" /\ Cycle)
    /\ \A w \in Watchdogs : WF_vars(which = "kill" /\ Check(w)) /\ WF_vars(which = "kill" /\ GraceEnds(w))
    /\ SF_pgVars(which = "paging" /\ PgTick)
    /\ \A p \in PgProcs : WF_pgVars(which = "paging" /\ (PgSteps(p) \/ PgNotify(p, "page")))

MCSpec == MCInit /\ [][MCNext]_MCVars /\ MCFair

\* The kill switch alone.
MCKillSpec == MCSpec /\ which = "kill"
=============================================================================
