--------------------------- MODULE MCDegradeRisk ----------------------------
(***************************************************************************)
(* Recovery of the degradation manager, and the limits beside it: the      *)
(* capital ledger and capacity governor, the drawdown governor and the leg *)
(* lifecycle.  They share no state: a behaviour moves one of them, which.  *)
(***************************************************************************)
EXTENDS Degradation, Capital, RiskGovernor, Lifecycle

VARIABLE which      \* the component that moves

CONSTANTS spy, btc

MCLegs == {spy, btc}
MCCrypto == {btc}
MCPnls == {-3, 1}
MCReturns == {-3, 0, 1}

MCVars == <<which, vars, cpVars, rgVars, lcVars>>

MCInit ==
    /\ which \in {"degrade", "capital", "governor", "lifecycle"}
    /\ Init
    /\ CpInit
    /\ RgInit /\ (which # "governor" => rgRow = RgNoRow)
    /\ LcInit

MCNext ==
    \/ which = "degrade" /\ Next /\ UNCHANGED <<which, cpVars, rgVars, lcVars>>
    \/ which = "capital" /\ CpNext /\ UNCHANGED <<which, vars, rgVars, lcVars>>
    \/ which = "governor" /\ RgNext /\ UNCHANGED <<which, vars, cpVars, lcVars>>
    \/ which = "lifecycle" /\ LcNext /\ UNCHANGED <<which, vars, cpVars, rgVars>>

MCSpec == MCInit /\ [][MCNext]_MCVars /\ WF_vars(Evaluate) /\ WF_vars(Dispatch) /\ WF_vars(Boot)
=============================================================================
