---------------------------- MODULE MCOrderSieve ----------------------------
(***************************************************************************)
(* The live order path, and the sieve that follows its orders to their     *)
(* fills.  They share no state here: a behaviour moves one of them, which. *)
(***************************************************************************)
EXTENDS OrderPath, FillSieve

VARIABLE which      \* the component that moves

CONSTANTS spy, btc, exit

MCOrders == {spy, btc, exit}
MCQty == [o \in MCOrders |-> IF o = spy THEN 5 ELSE 1]
MCBatches == {<<spy, spy>>, <<exit, btc>>, <<spy, exit>>}

MCVars == <<which, vars, fsVars>>

MCInit ==
    /\ which \in {"orders", "sieve"}
    /\ Init /\ (which # "orders" => ~soak)
    /\ FsInit

MCNext ==
    \/ which = "orders" /\ Next /\ UNCHANGED <<which, fsVars>>
    \/ which = "sieve" /\ FsNext /\ UNCHANGED <<which, vars>>

\* Fairness of the component that moves.
MCFair ==
    /\ \A t \in Calls : WF_vars(which = "orders" /\ Step(t))
    /\ WF_fsVars(which = "sieve" /\ FsProgress)

MCSpec == MCInit /\ [][MCNext]_MCVars /\ MCFair
=============================================================================
