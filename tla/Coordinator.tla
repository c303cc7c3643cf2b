---------------------------- MODULE Coordinator ----------------------------
(***************************************************************************)
(* One cycle of the portfolio coordinator over all legs                     *)
(* (src/engine/portfolio_coordinator.py) and the portfolio brain it asks    *)
(* (src/engine/portfolio_brain.py): budgets, portfolio mode, the inventory  *)
(* carried over from earlier days, conflicts between the legs' signals, the *)
(* exposure caps, and the plan each leg gets.  The inventory registry is    *)
(* the table that remembers when a position was first seen.                 *)
(*                                                                          *)
(* Notionals are whole hundredths of equity.  Budgets, the measured         *)
(* correlation, factor crowding and the macro verdict are inputs that come *)
(* from market data.  Between cycles positions change as orders fill.       *)
(***************************************************************************)
EXTENDS Integers

CONSTANTS
    CoLegs, CoQqq, CoSpy,   \* strategy ids; the QQQ and the SPY leg
    CoSector, CoBeta,       \* of each leg's symbol; beta in hundredths
    CoSharpe,               \* marginal Sharpe of each leg, all different
    CoSplits,               \* what allocate_risk_budgets may return, in percent
    CoSize,                 \* notional of a position
    CoMultiday, CoMaxDays,  \* MIN_MULTIDAY_CALENDAR_DAYS, max_multiday_holding_calendar_days
    CoDayCap,               \* max_multiday_directional_exposure_fraction, in percent
    CoMaxDay                \* bound

ASSUME CoAssumption ==
    /\ {CoQqq, CoSpy} \subseteq CoLegs /\ CoBeta \in [CoLegs -> Nat] /\ CoSharpe \in [CoLegs -> Nat]
    /\ \A a, b \in CoLegs : a # b => CoSharpe[a] # CoSharpe[b]
    /\ \A split \in CoSplits : split \in [CoLegs -> 0..100]
    /\ {CoSize, CoMaxDays, CoDayCap} \subseteq Nat /\ CoMaxDay \in Nat \ {0}
    /\ CoMultiday \in Nat /\ (CoMultiday <= 1 \/ CoMultiday <= CoMaxDays)   \* the code has 1

VARIABLES
    coDay, coPos,       \* the date; the broker's signed notional per leg
    coOpened,           \* portfolio_inventory_registry: opened_session_date (0 = no row)
    coCycle,            \* the cycle just run: its inputs and plans (<<>>: none)
    coSeen              \* history: the first cycle that saw the position that is held (0 = none)

coVars == <<coDay, coPos, coOpened, coCycle, coSeen>>

CoEntries == {"long", "short"}
CoSignals == CoEntries \union {"exit", "hold", "none"}   \* hold: evaluated without a signal; none: not due

CoInit ==
    /\ coDay = 1 /\ coPos = [l \in CoLegs |-> 0] /\ coOpened = [l \in CoLegs |-> 0]
    /\ coCycle = <<>> /\ coSeen = [l \in CoLegs |-> 0]

CoDayPasses ==
    coCycle = <<>> /\ coDay < CoMaxDay /\ coDay' = coDay + 1 /\ UNCHANGED <<coPos, coOpened, coCycle, coSeen>>

\* Orders of the cycle before fill: the position is closed, opened or turned round.
CoFills(l, q) ==
    /\ coCycle = <<>> /\ q # coPos[l] /\ coPos' = [coPos EXCEPT ![l] = q]
    /\ coSeen' = IF q * coPos[l] > 0 THEN coSeen ELSE [coSeen EXCEPT ![l] = 0]
    /\ UNCHANGED <<coDay, coOpened, coCycle>>

\* begin_cycle: the plans of the cycle before are gone.
CoBegin == coCycle # <<>> /\ coCycle' = <<>> /\ UNCHANGED <<coDay, coPos, coOpened, coSeen>>

CoAbs(n) == IF n < 0 THEN -n ELSE n
\* The sum of |f| over a set of legs
CoSum(set, f) ==
    LET sum[s \in SUBSET set] ==
            IF s = {} THEN 0 ELSE LET l == CHOOSE l \in s : TRUE IN CoAbs(f[l]) + sum[s \ {l}]
    IN sum[set]
CoSide(l) == IF coPos[l] > 0 THEN "long" ELSE "short"

-----------------------------------------------------------------------------
(* Inventory carried over.                                                 *)

\* _sync_inventory_registry: a row is opened once, and goes when the position is seen to be gone.
CoRegister(l) == IF coPos[l] = 0 THEN 0 ELSE IF coOpened[l] = 0 THEN coDay ELSE coOpened[l]

\* The first day is not counted.
SlipCoDaysHeld(l, opened) == coDay - opened[l]
\* calendar_days_between counts both ends.
CoDaysHeld(l, opened) == coDay - opened[l] + 1

\* check_inventory_path_dependency: what has been carried over, per side
CoCarried(opened, side) ==
    {l \in CoLegs : coPos[l] # 0 /\ CoSide(l) = side /\ CoDaysHeld(l, opened) >= CoMultiday}

\* ... the positions that are held too long ...
CoExhausted(opened) ==
    {l \in CoLegs : coPos[l] # 0 /\ CoDaysHeld(l, opened) >= CoMultiday /\ CoDaysHeld(l, opened) >= CoMaxDays}

\* ... and the entries locked out: more of what is over the cap or held too long.
CoLocked(opened, side) ==
    LET carried == CoCarried(opened, side)
    IN IF CoSum(carried, coPos) > CoDayCap THEN carried ELSE carried \intersect CoExhausted(opened)

-----------------------------------------------------------------------------
(* The mode and the conflicts.                                             *)

CoTop(split) == CHOOSE l \in CoLegs : \A m \in CoLegs : split[m] <= split[l]

\* resolve_portfolio_mode with several legs enabled and no explicit single leg.  spyOut: SPY is off
\* in the configuration, below its health floor, or not the winner of the capital round.
CoMode(split, spyOut) ==
    IF spyOut THEN [spy |-> FALSE, single |-> TRUE, dominant |-> CoQqq]
    ELSE IF split[CoTop(split)] >= 95 THEN [spy |-> TRUE, single |-> TRUE, dominant |-> CoTop(split)]
    ELSE [spy |-> TRUE, single |-> FALSE, dominant |-> CoSpy]

\* resolve_signal_conflicts, legs of different symbols: of two entries on one risk unit that oppose
\* each other, or in single-leg mode go the same way, the weaker leg's goes.  A leg that has lost to
\* one still beats another.
CoLosers(sig, mode, one) ==
    {l \in CoLegs : \E m \in CoLegs :
        /\ l # m /\ one /\ {sig[l], sig[m]} \subseteq CoEntries /\ CoSharpe[l] < CoSharpe[m]
        /\ sig[l] # sig[m] \/ mode.single}

\* ... then the SPY leg while it is disabled, and all but the dominant leg in single-leg mode
CoBlocked(sig, mode, one) ==
    CoLosers(sig, mode, one)
    \union {l \in CoLegs : sig[l] \in CoEntries /\ l = CoSpy /\ ~mode.spy}
    \union {l \in CoLegs : sig[l] \in CoEntries /\ mode.single /\ l # mode.dominant}

-----------------------------------------------------------------------------
(* Exposure.                                                               *)

\* estimate_proposed_positions: 95 % of the budget of every approved entry, on top of what is held;
\* in hundredths of a percent of equity
CoProposed(sig, split) ==
    [l \in CoLegs |-> CASE sig[l] = "long" -> 95 * split[l] [] sig[l] = "short" -> -95 * split[l] [] OTHER -> 0]

\* validate_global_exposure: net beta, gross exposure, concentration in a sector.  A book of one
\* sector is all in one sector, whatever its size.
CoBreach(new) ==
    LET book == [l \in CoLegs |-> 100 * CoAbs(coPos[l]) + CoAbs(new[l])]
        long == [l \in CoLegs |-> CoBeta[l] * ((IF coPos[l] > 0 THEN 100 * coPos[l] ELSE 0) + IF new[l] > 0 THEN new[l] ELSE 0)]
        short == [l \in CoLegs |-> CoBeta[l] * ((IF coPos[l] < 0 THEN 100 * coPos[l] ELSE 0) + IF new[l] < 0 THEN new[l] ELSE 0)]
        gross == CoSum(CoLegs, book)
    IN \/ CoAbs(CoSum(CoLegs, long) - CoSum(CoLegs, short)) > 125 * 10000
       \/ gross > 150 * 100
       \/ \E s \in CoLegs : 100 * CoSum({l \in CoLegs : CoSector[l] = CoSector[s]}, book) > 85 * gross

-----------------------------------------------------------------------------
(* The cycle.                                                              *)

\* A breach of the exposure caps stops entries.
CoStopped(signal, breach) == signal \in CoEntries /\ breach

\* One leg's plan: a block takes an entry away and nothing else; a forced liquidation replaces the
\* leg's signal and is blocked by nothing.
CoPlan(signal, blocked, forced) ==
    IF forced THEN [signal |-> "exit", blocked |-> FALSE, forced |-> TRUE]
    ELSE [signal |-> IF blocked /\ signal \in CoEntries THEN "none" ELSE signal, blocked |-> blocked, forced |-> FALSE]

\* coordinate_cycle; veto: the factors crowd, gross_exposure_cap_multiplier is under its breach line,
\* or the macro verdict blocks entries
CoCoordinate(sig, split, spyOut, one, veto) ==
    LET opened == [l \in CoLegs |-> CoRegister(l)]
        locked == {l \in CoLegs : sig[l] \in CoEntries /\ l \in CoLocked(opened, sig[l])}
        active == [l \in CoLegs |-> IF l \in locked THEN "none" ELSE sig[l]]
        mode == CoMode(split, spyOut)
        lost == CoBlocked(active, mode, one)
        kept == [l \in CoLegs |-> IF l \in lost THEN "none" ELSE active[l]]
        breach == veto \/ CoBreach(CoProposed(kept, split))
        due == {l \in CoLegs : sig[l] # "none"}
        plan(l) == CoPlan(kept[l], l \in locked \union lost \/ CoStopped(kept[l], breach),
                          l \in CoExhausted(opened))
    IN /\ coCycle = <<>> /\ coOpened' = opened
       /\ coSeen' = [l \in CoLegs |-> IF coPos[l] # 0 /\ coSeen[l] = 0 THEN coDay ELSE coSeen[l]]
       /\ coCycle' = <<[sig |-> sig, one |-> one, day |-> coDay,
                        plan |-> [l \in due |-> plan(l)], held |-> coPos, seen |-> coSeen']>>
       /\ UNCHANGED <<coDay, coPos>>

CoNext ==
    \/ CoDayPasses \/ CoBegin
    \/ \E l \in CoLegs, q \in {-CoSize, 0, CoSize} : CoFills(l, q)
    \/ \E sig \in [CoLegs -> CoSignals], split \in CoSplits,
       spyOut, one, veto \in BOOLEAN : CoCoordinate(sig, split, spyOut, one, veto)

CoSpec == CoInit /\ [][CoNext]_coVars

-----------------------------------------------------------------------------
\* Types; the registry has a row for every position the last cycle saw and that is still held.
CoTypeOK ==
    /\ coDay \in 1..CoMaxDay /\ coPos \in [CoLegs -> {-CoSize, 0, CoSize}]
    /\ coOpened \in [CoLegs -> 0..CoMaxDay] /\ coSeen \in [CoLegs -> 0..CoMaxDay]
    /\ coCycle # <<>> => \A l \in DOMAIN coCycle[1].plan : coCycle[1].plan[l].signal \in CoSignals
    /\ \A l \in CoLegs : coSeen[l] # 0 => coOpened[l] \in 1..coSeen[l]

\* The plans of one cycle never hold two entries that oppose each other on what is one risk unit.
CoNoWash ==
    coCycle # <<>> /\ coCycle[1].one =>
        \A l, m \in DOMAIN coCycle[1].plan :
            ~(coCycle[1].plan[l].signal = "long" /\ coCycle[1].plan[m].signal = "short")

\* A leg that wants out gets out: no conflict, lockout, breach or macro verdict takes an exit away.
CoExitsPass ==
    coCycle # <<>> => \A l \in DOMAIN coCycle[1].plan :
        coCycle[1].sig[l] = "exit" => coCycle[1].plan[l].signal = "exit"

\* A position seen by a cycle CoMaxDays ago or earlier, and held since, is forced out by every
\* cycle its leg takes part in.
CoAgedOut ==
    coCycle # <<>> => \A l \in DOMAIN coCycle[1].plan :
        (coCycle[1].held[l] # 0 /\ coCycle[1].seen[l] # 0 /\ coCycle[1].day - coCycle[1].seen[l] + 1 >= CoMaxDays)
            => coCycle[1].plan[l].forced /\ coCycle[1].plan[l].signal = "exit"

\* What a cycle of the coordinator promises: no two legs enter against each other, an exit is never
\* held back, and a position held too long gets one.
CoCoordinates == CoTypeOK /\ CoNoWash /\ CoExitsPass /\ CoAgedOut
=============================================================================
