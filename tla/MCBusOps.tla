------------------------------ MODULE MCBusOps ------------------------------
(***************************************************************************)
(* The local command queue, and the operator's side of the platform: the   *)
(* configuration plane, the dead-man alert, sessions, the state mirror,    *)
(* the telemetry gate and the backtest.  They share no state: a behaviour  *)
(* moves one of them, which.                                               *)
(***************************************************************************)
EXTENDS CommandBus, ConfigPlane, DeadMan, Sessions, Mirror, TelemetryGate, Backtest

VARIABLE which      \* the component that moves

MCOwnKeys == [c \in Commands |-> c]      \* every request its own key

MCVars == <<which, vars, cgVars, dmVars, seVars, mrVars, tgVars, btVars>>

MCInit ==
    /\ which \in {"bus", "config", "deadman", "sessions", "mirror", "telemetry", "backtest"}
    /\ Init
    /\ CgInit /\ (which # "config" => ~cgClient)
    /\ DmInit /\ (which # "deadman" => dmHost = 0)
    /\ SeInit /\ (which # "sessions" => seEquity = 1)
    /\ MrInit /\ (which # "mirror" => mrPart = "orders" /\ mrBeat = 0)
    /\ TgInit
    /\ BtInit /\ (which # "backtest" => btLoop = "generic")

MCNext ==
    \/ which = "bus" /\ Next /\ UNCHANGED <<which, cgVars, dmVars, seVars, mrVars, tgVars, btVars>>
    \/ which = "config" /\ CgNext /\ UNCHANGED <<which, vars, dmVars, seVars, mrVars, tgVars, btVars>>
    \/ which = "deadman" /\ DmNext /\ UNCHANGED <<which, vars, cgVars, seVars, mrVars, tgVars, btVars>>
    \/ which = "sessions" /\ SeNext /\ UNCHANGED <<which, vars, cgVars, dmVars, mrVars, tgVars, btVars>>
    \/ which = "mirror" /\ MrNext /\ UNCHANGED <<which, vars, cgVars, dmVars, seVars, tgVars, btVars>>
    \/ which = "telemetry" /\ TgNext /\ UNCHANGED <<which, vars, cgVars, dmVars, seVars, mrVars, btVars>>
    \/ which = "backtest" /\ BtNext /\ UNCHANGED <<which, vars, cgVars, dmVars, seVars, mrVars, tgVars>>

\* Fairness of the component that moves.
MCFair ==
    /\ \A w \in Consumers : WF_vars(which = "bus" /\ Poll(w))
    /\ \A w \in Consumers, c \in Commands : WF_vars(which = "bus" /\ Work(w, c))
    /\ WF_vars(which = "bus" /\ Boot)
    /\ SF_cgVars(which = "config" /\ CgPoll("ok"))
    /\ WF_cgVars(which = "config" /\ (CgAbandon \/ \E out \in CgOutcomes : CgSend(FALSE, out)))
    /\ WF_dmVars(which = "deadman" /\ DmEvaluate) /\ WF_dmVars(which = "deadman" /\ DmTick)

MCSpec == MCInit /\ [][MCNext]_MCVars /\ MCFair
=============================================================================
