------------------------------ MODULE Capital ------------------------------
(***************************************************************************)
(* What a leg may spend: the cycle's reserved-capital ledger                *)
(* (src/engine/reserved_capital_ledger.py) and the session's turnover and   *)
(* participation limits (src/engine/capacity_governor.py).                  *)
(*                                                                          *)
(* The orchestrator that calls them is not part of the repository.  Here a  *)
(* leg's plan is capped and reserved, checked against the turnover limit    *)
(* and sent; the broker holds buying power for an order it accepts and      *)
(* reports the fill later.  Legs take these steps in any order, and the     *)
(* process may restart between any two of them.  Amounts are whole units.   *)
(***************************************************************************)
EXTENDS Integers, FiniteSets, FiniteSetsExt

CONSTANTS
    CpLegs, CpPower,        \* strategy ids; the buying power at the start
    CpMultiplier,           \* equity_turnover_multiplier
    CpEquities,             \* equities the account may report
    CpMaxWant, CpMaxDay, CpMaxOrders, CpMaxFaults    \* bounds

ASSUME CpAssumption ==
    /\ {CpPower, CpMultiplier, CpMaxWant, CpMaxOrders, CpMaxFaults} \subseteq Nat /\ CpMaxDay \in Nat \ {0}
    /\ CpEquities \subseteq Nat /\ IsFiniteSet(CpLegs)

VARIABLES
    cpDay, cpBroker,        \* session date; the buying power the broker has left
    cpSnap, cpTotal, cpBook,    \* _snapshot (-1 = None), _reserved_total, _reserved_by_strategy
    cpLeg,                  \* idle, planned (reserved, not sent), sent, or done for this cycle; for how much
    cpCache, cpStore,       \* _session_cache (-1 = not loaded), capacity_daily_totals, per day
    cpLocked,               \* _session_locked
    cpSpent, cpGap,         \* history: turnover per day; a total was lost with the process
    cpSent, cpFaults        \* orders and faults so far

cpVars == <<cpDay, cpBroker, cpSnap, cpTotal, cpBook, cpLeg, cpCache, cpStore, cpLocked, cpSpent, cpGap, cpSent, cpFaults>>
cpLedger == <<cpSnap, cpTotal, cpBook>>
cpTurnover == <<cpCache, cpStore, cpLocked, cpSpent, cpGap>>

CpIdle == [at |-> "idle", n |-> 0]
CpDone == [at |-> "done", n |-> 0]
CpMin(a, b) == IF a < b THEN a ELSE b
CpMax0(n) == IF n < 0 THEN 0 ELSE n

CpInit ==
    /\ cpDay = 1 /\ cpBroker = CpPower /\ cpSnap = -1 /\ cpTotal = 0 /\ cpBook = [l \in CpLegs |-> 0]
    /\ cpLeg = [l \in CpLegs |-> CpIdle]
    /\ cpCache = [d \in 1..CpMaxDay |-> -1] /\ cpStore = [d \in 1..CpMaxDay |-> 0] /\ cpLocked = FALSE
    /\ cpSpent = [d \in 1..CpMaxDay |-> 0] /\ cpGap = FALSE /\ cpSent = 0 /\ cpFaults = 0

-----------------------------------------------------------------------------
(* The reserved-capital ledger.                                            *)

\* available_buying_power
CpAvailable == IF cpSnap = -1 THEN 0 ELSE CpMax0(cpSnap - cpTotal)

\* begin_cycle.  Plans of the cycle before are not sent any more.
CpBeginCycle ==
    /\ cpSnap' = cpBroker /\ cpTotal' = 0 /\ cpBook' = [l \in CpLegs |-> 0]
    /\ cpLeg' = [l \in CpLegs |-> IF cpLeg[l].at = "sent" THEN cpLeg[l] ELSE CpIdle]
    /\ UNCHANGED <<cpDay, cpBroker, cpTurnover, cpSent, cpFaults>>

\* reserve: what the leg had is given back first, and it gets no more than is left.
CpReserved(l, amount) == CpMin(amount, CpMax0(cpSnap - CpMax0(cpTotal - cpBook[l])))

CpReserve(l, amount) ==
    /\ cpBook' = [cpBook EXCEPT ![l] = CpReserved(l, amount)]
    /\ cpTotal' = CpMax0(cpTotal - cpBook[l]) + CpReserved(l, amount)
    /\ UNCHANGED cpSnap

\* cap_plan_for_available_capital: the commitment as it is, nothing when there is nothing left, or
\* what the scaled-down plan comes to.
CpCapped(want) == IF want <= CpAvailable THEN {want} ELSE 0..CpAvailable

\* A plan that comes to nothing is blocked.
CpPlan(l, want, n) ==
    /\ cpSnap # -1 /\ cpLeg[l].at \in {"idle", "planned"} /\ n \in CpCapped(want) /\ CpReserve(l, n)
    /\ cpLeg' = [cpLeg EXCEPT ![l] = IF cpBook'[l] = 0 THEN CpIdle ELSE [at |-> "planned", n |-> cpBook'[l]]]
    /\ UNCHANGED <<cpDay, cpBroker, cpTurnover, cpSent, cpFaults>>

\* release
CpRelease(l) ==
    /\ cpBook' = [cpBook EXCEPT ![l] = 0] /\ cpTotal' = CpMax0(cpTotal - cpBook[l])

\* release_all, when the kill switch preempts the cycle: nothing more is planned or sent in it.
CpAllReleased == cpTotal' = 0 /\ cpBook' = [l \in CpLegs |-> 0]

CpReleaseAll ==
    /\ CpAllReleased
    /\ cpLeg' = [l \in CpLegs |-> IF cpLeg[l].at = "sent" THEN cpLeg[l] ELSE CpDone]
    /\ UNCHANGED <<cpDay, cpBroker, cpSnap, cpTurnover, cpSent, cpFaults>>

\* sync_from_broker after the leg's order went out: a new snapshot, and the leg's reservation goes
CpSync(l) ==
    /\ cpSnap # -1 /\ cpLeg[l].at # "planned" /\ cpSnap' = cpBroker /\ CpRelease(l)
    /\ UNCHANGED <<cpDay, cpBroker, cpLeg, cpTurnover, cpSent, cpFaults>>

-----------------------------------------------------------------------------
(* Turnover and participation.                                             *)

\* resolve_daily_turnover_cap
CpCap(equity) == equity * CpMultiplier

\* What is not in memory has not been spent.
SlipCpLoaded(d) == IF cpCache[d] # -1 THEN cpCache[d] ELSE 0
\* _load_session_turnover_total
CpLoaded(d) == IF cpCache[d] # -1 THEN cpCache[d] ELSE cpStore[d]

\* clamp_participation_rate; room: what the volume profile leaves, -1 when there is no profile
CpClamped(n, room) == IF room = -1 THEN n ELSE CpMin(n, room)

\* enforce_daily_turnover_limits: nothing while locked, without equity or when the cap is used up,
\* else what remains of it.  Nothing is set aside for an order that has not filled.
CpAllowed(proposed, equity) ==
    IF cpLocked \/ proposed = 0 \/ CpCap(equity) = 0 THEN 0
    ELSE CpMin(proposed, CpMax0(CpCap(equity) - CpLoaded(cpDay)))

\* The check of a planned order, and the order.  A check that finds the cap used up locks the
\* session.  The broker holds the buying power of what it accepts.
CpSend(l, equity, room) ==
    LET n == CpClamped(CpAllowed(cpLeg[l].n, equity), room)
    IN /\ cpLeg[l].at = "planned" /\ cpSent < CpMaxOrders
       /\ cpCache' = [cpCache EXCEPT ![cpDay] = CpLoaded(cpDay)]
       /\ cpLocked' = (cpLocked \/ (CpCap(equity) > 0 /\ CpLoaded(cpDay) >= CpCap(equity)))
       /\ cpLeg' = [cpLeg EXCEPT ![l] = IF n = 0 THEN CpDone ELSE [at |-> "sent", n |-> n]]
       /\ cpBroker' = cpBroker - n /\ cpSent' = cpSent + (IF n = 0 THEN 0 ELSE 1)
       /\ UNCHANGED <<cpDay, cpLedger, cpStore, cpSpent, cpGap, cpFaults>>

\* record_realized_turnover for a fill of n; ok: the two rows are committed.  The total in memory
\* moves first; a failed write raises before the lock is considered.
CpFill(l, n, equity, ok) ==
    LET total == CpLoaded(cpDay) + n
    IN /\ cpLeg[l].at = "sent" /\ n \in 1..cpLeg[l].n /\ (ok \/ cpFaults < CpMaxFaults)
       /\ cpLeg' = [cpLeg EXCEPT ![l] = CpDone]
       /\ cpBroker' = cpBroker + (cpLeg[l].n - n)     \* the broker lets go of what did not fill
       /\ cpCache' = [cpCache EXCEPT ![cpDay] = total]
       /\ cpStore' = IF ok THEN [cpStore EXCEPT ![cpDay] = total] ELSE cpStore
       /\ cpLocked' = (cpLocked \/ (ok /\ CpCap(equity) > 0 /\ total > CpCap(equity)))
       /\ cpSpent' = [cpSpent EXCEPT ![cpDay] = @ + n]
       /\ cpFaults' = cpFaults + (IF ok THEN 0 ELSE 1)
       /\ UNCHANGED <<cpDay, cpLedger, cpGap, cpSent>>

-----------------------------------------------------------------------------
\* A position is closed.
CpClose ==
    /\ cpBroker < CpPower /\ cpBroker' = cpBroker + 1 /\ \A l \in CpLegs : cpLeg[l].at # "sent"
    /\ UNCHANGED <<cpDay, cpLedger, cpLeg, cpTurnover, cpSent, cpFaults>>

\* The next session.  The lock stays, whatever the date.
CpNextDay == cpDay < CpMaxDay /\ cpDay' = cpDay + 1 /\ UNCHANGED <<cpBroker, cpLedger, cpLeg, cpTurnover, cpSent, cpFaults>>

\* A new process.  restore_session_state brings the lock back if the caller saved it.
CpRestart(locked) ==
    /\ cpFaults < CpMaxFaults /\ cpFaults' = cpFaults + 1 /\ locked \in {FALSE, cpLocked}
    /\ cpSnap' = -1 /\ cpTotal' = 0 /\ cpBook' = [l \in CpLegs |-> 0] /\ cpLocked' = locked
    /\ cpLeg' = [l \in CpLegs |-> IF cpLeg[l].at = "sent" THEN cpLeg[l] ELSE CpIdle]
    /\ cpCache' = [d \in 1..CpMaxDay |-> -1]
    /\ cpGap' = (cpGap \/ \E d \in 1..CpMaxDay : cpCache[d] > cpStore[d])
    /\ UNCHANGED <<cpDay, cpBroker, cpStore, cpSpent, cpSent>>

CpNext ==
    \/ CpBeginCycle \/ CpReleaseAll \/ CpClose \/ CpNextDay
    \/ \E l \in CpLegs, want \in 1..CpMaxWant, n \in 0..CpMaxWant : CpPlan(l, want, n)
    \/ \E l \in CpLegs : CpSync(l)
    \/ \E l \in CpLegs, e \in CpEquities, room \in -1..1 : CpSend(l, e, room)
    \/ \E l \in CpLegs, n \in 1..CpMaxWant, e \in CpEquities, ok \in BOOLEAN : CpFill(l, n, e, ok)
    \/ \E locked \in BOOLEAN : CpRestart(locked)

CpSpec == CpInit /\ [][CpNext]_cpVars

-----------------------------------------------------------------------------
CpSum(f) == FoldSet(LAMBDA l, n : n + f[l], 0, CpLegs)

\* Types; the total is the sum of the reservations.
CpTypeOK ==
    /\ cpDay \in 1..CpMaxDay /\ cpBroker \in Int /\ cpSnap \in {-1} \union Nat /\ cpBook \in [CpLegs -> 0..CpMaxWant]
    /\ cpLeg \in [CpLegs -> [at : {"idle", "planned", "sent", "done"}, n : 0..CpMaxWant]]
    /\ cpCache \in [1..CpMaxDay -> {-1} \union Nat] /\ cpStore \in [1..CpMaxDay -> Nat] /\ cpLocked \in BOOLEAN
    /\ cpTotal = CpSum(cpBook)

\* What each leg has still to send.
CpPlanned == [l \in CpLegs |-> IF cpLeg[l].at = "planned" THEN cpLeg[l].n ELSE 0]

\* Whatever is still to be sent can be paid for: the plans of all legs together never exceed the
\* buying power the broker has left, with other legs' orders, syncs and a preempted cycle in between.
CpFunded == CpSum(CpPlanned) <= cpBroker

\* An order never takes the day's turnover past the cap, counting every fill before it, over a
\* restart and a failed write too - unless a failed write was the last thing before a restart.
CpWithinCap ==
    [][\A l \in CpLegs : (cpLeg[l].at = "planned" /\ cpLeg'[l].at = "sent" /\ ~cpGap) =>
        \E e \in CpEquities : cpSpent[cpDay] + cpLeg'[l].n <= CpCap(e)]_cpVars

\* What ledger and governor promise together: what is planned can be paid for, and no order
\* takes the day's turnover past its cap.
CpBudgeted == [](CpTypeOK /\ CpFunded) /\ CpWithinCap
=============================================================================
