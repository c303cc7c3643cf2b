----------------------------- MODULE MCBusData ------------------------------
(***************************************************************************)
(* What the control bus and the market data side promise.  Two consumers   *)
(* share the command queue; the tape buffers, the feed supervisor, the     *)
(* microstructure guard and the cold-start gate each run beside them.  The *)
(* components share no state, so each behaviour moves one of them: which.  *)
(***************************************************************************)
EXTENDS CommandBus, TapeBuffers, FeedHealth, MicroGuard, ColdStart

VARIABLE which      \* the component that moves

MCOwnKeys == [c \in Commands |-> c]      \* every request its own key

MCVars == <<which, vars, tbVars, fhVars, mgVars, csVars>>

MCInit ==
    /\ which \in {"bus", "tape", "feed", "guard", "coldstart"}
    /\ Init
    /\ TbInit
    /\ FhInit
    /\ MgInit
    /\ CsInit

MCNext ==
    \/ which = "bus" /\ Next /\ UNCHANGED <<which, tbVars, fhVars, mgVars, csVars>>
    \/ which = "tape" /\ TbNext /\ UNCHANGED <<which, vars, fhVars, mgVars, csVars>>
    \/ which = "feed" /\ FhNext /\ UNCHANGED <<which, vars, tbVars, mgVars, csVars>>
    \/ which = "guard" /\ MgNext /\ UNCHANGED <<which, vars, tbVars, fhVars, csVars>>
    \/ which = "coldstart" /\ CsNext /\ UNCHANGED <<which, vars, tbVars, fhVars, mgVars>>

MCSpec == MCInit /\ [][MCNext]_MCVars
=============================================================================
