---------------------------- MODULE MCBusOrders -----------------------------
(***************************************************************************)
(* Retries of one request on the command bus, and the components an order  *)
(* passes: operator overrides (an implementation of HaltBoard), the        *)
(* idempotent submitter, the pre-flight reconciliation and the parameter   *)
(* commit.  They share no state: a behaviour moves one of them, which.     *)
(***************************************************************************)
EXTENDS CommandBus, Overrides, Submitter, PreFlight, ParamCommit

VARIABLE which      \* the component that moves

MCSharedKey == [c \in Commands |-> 1]    \* retries of one request
MCSide == [c \in SuIds |-> IF c = "entry" THEN 1 ELSE -1]
MCAction == [c \in SuIds |-> IF c = "entry" THEN "LONG" ELSE "EXIT"]
MCQtys == {-2, -1, 1}
MCWindows == <<0, 1>>
MCStrategies == {[regime |-> TRUE, borrow |-> 1, loop |-> 0], [regime |-> TRUE, borrow |-> 1, loop |-> 1],
                 [regime |-> TRUE, borrow |-> 0, loop |-> 0]}
MCResearch == {[regime |-> TRUE, short |-> TRUE, borrow |-> 1, loop |-> 0, row |-> TRUE],
               [regime |-> TRUE, short |-> TRUE, borrow |-> 1, loop |-> 1, row |-> TRUE], PcNoRow}
MCFirst == [s |-> [regime |-> TRUE, borrow |-> 1, loop |-> 0],
            r |-> [regime |-> TRUE, short |-> TRUE, borrow |-> 1, loop |-> 0, row |-> TRUE]]

MCVars == <<which, vars, ovVars, suVars, pfVars, pcVars>>

MCInit ==
    /\ which \in {"bus", "overrides", "submit", "preflight", "params"}
    /\ Init
    /\ OvInit
    /\ SuInit /\ (which # "submit" => suSoak = <<TRUE, TRUE>>)
    /\ PfInit
    /\ PcInit

MCNext ==
    \/ which = "bus" /\ Next /\ UNCHANGED <<which, ovVars, suVars, pfVars, pcVars>>
    \/ which = "overrides" /\ OvNext /\ UNCHANGED <<which, vars, suVars, pfVars, pcVars>>
    \/ which = "submit" /\ SuNext /\ UNCHANGED <<which, vars, ovVars, pfVars, pcVars>>
    \/ which = "preflight" /\ PfNext /\ UNCHANGED <<which, vars, ovVars, suVars, pcVars>>
    \/ which = "params" /\ PcNext /\ UNCHANGED <<which, vars, ovVars, suVars, pfVars>>

MCSpec == MCInit /\ [][MCNext]_MCVars
=============================================================================
