----------------------------- MODULE HaltBoard -----------------------------
(***************************************************************************)
(* What the human override registry promises, without its two stores: a     *)
(* board of halts and the number of requests made of it.  A halt goes up    *)
(* when it is engaged and comes down when it is released.  Until a release  *)
(* has settled the halt may come back by itself, which errs on the safe     *)
(* side; afterwards only a request brings it back.                          *)
(***************************************************************************)
EXTENDS Naturals

CONSTANT HbKeys

VARIABLES
    hbHalts,   \* the halts in force
    hbLoose,   \* halts taken down whose removal has not settled
    hbAsked    \* requests made

hbVars == <<hbHalts, hbLoose, hbAsked>>

HbInit == hbHalts = {} /\ hbLoose = {} /\ hbAsked = 0

HbEngage(k) == hbAsked' = hbAsked + 1 /\ hbHalts' = hbHalts \cup {k} /\ UNCHANGED hbLoose

HbAskRelease == hbAsked' = hbAsked + 1 /\ UNCHANGED <<hbHalts, hbLoose>>

HbRelease(k) == hbHalts' = hbHalts \ {k} /\ hbLoose' = hbLoose \cup {k} /\ UNCHANGED hbAsked

HbSettle == hbLoose' = {} /\ UNCHANGED <<hbHalts, hbAsked>>

HbRevive(k) == k \in hbLoose /\ hbHalts' = hbHalts \cup {k} /\ UNCHANGED <<hbLoose, hbAsked>>

\* The store is lost: every halt that was in force may come back.
HbLose == hbHalts' = {} /\ hbLoose' = hbLoose \cup hbHalts /\ UNCHANGED hbAsked

HbNext ==
    \/ \E k \in HbKeys : HbEngage(k) \/ HbRelease(k) \/ HbRevive(k)
    \/ HbAskRelease \/ HbSettle \/ HbLose

HbSpec == HbInit /\ [][HbNext]_hbVars
=============================================================================
