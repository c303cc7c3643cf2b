----------------------------- MODULE FillSieve -----------------------------
(***************************************************************************)
(* Broker-primary fill reconciliation of one leg (src/engine/               *)
(* broker_fill_sieve.py and the fill helpers of execution_adaptor.py).      *)
(* Two coroutines work on the one bundle a leg may have pending: "post"     *)
(* follows a submission (reconcile_post_submit, register_ioc_residual),     *)
(* "adv" is a turn of advance_pending_cycles.  Every broker call is a step  *)
(* of its own; fills and cancels land between any two.  A bundle has one    *)
(* slice, the order itself; quantities are units, side is +1 or -1.         *)
(***************************************************************************)
EXTENDS Integers

CONSTANTS
    FsMaxOrders,  \* bound: orders ever submitted
    FsQty,        \* the quantity of each order
    FsThreshold,  \* INCOMPLETE_CYCLE_CANCEL_THRESHOLD
    FsMaxBars     \* bound: bars counted

ASSUME FsAssumption ==
    /\ FsMaxOrders \in Nat /\ FsQty \in Nat \ {0}
    /\ FsThreshold \in Nat \ {0} /\ FsMaxBars \in Nat \ {0}

FsOrders == 1..FsMaxOrders
FsTerminal == {"filled", "partially_filled", "canceled", "rejected"}
FsOpenStatus == {"new", "submitted"}
FsStatus == FsTerminal \cup FsOpenStatus \cup {"pending_cancel"}
FsNoBundle == [id |-> 0, filled |-> 0, status |-> "none", before |-> FALSE, cycles |-> 0]
FsCalls == {"post", "adv"}

VARIABLES
    fsReal,     \* fsReal[i]: what the broker has of order i: side, filled, status
    fsSent,     \* orders submitted
    fsHeld,     \* the broker's position, signed units
    fsPending,  \* _pending[key]
    fsAt,       \* fsAt[c]: where the call is
    fsWork,     \* fsWork[c]: the bundle it works on
    fsSeen,     \* fsSeen[c]: the position it read
    fsIoc,      \* the submission came through register_ioc_residual
    fsBars,     \* leg.bars_in_trade
    fsMoved,    \* the position changed after the last read (history)
    fsDoomed    \* orders a cancel was requested for (history)

fsVars == <<fsReal, fsSent, fsHeld, fsPending, fsAt, fsWork, fsSeen, fsIoc,
            fsBars, fsMoved, fsDoomed>>
fsBroker == <<fsReal, fsSent, fsHeld>>

FsInit ==
    /\ fsReal = [i \in FsOrders |-> [side |-> 1, filled |-> 0, status |-> "none"]]
    /\ fsSent = 0 /\ fsHeld = 0 /\ fsPending = FsNoBundle
    /\ fsAt = [c \in FsCalls |-> "idle"]
    /\ fsWork = [c \in FsCalls |-> FsNoBundle]
    /\ fsSeen = [c \in FsCalls |-> 0]
    /\ fsIoc = FALSE /\ fsBars = 0 /\ fsMoved = FALSE /\ fsDoomed = {}

-----------------------------------------------------------------------------
(* The broker.                                                             *)

FsWorking(i) == fsReal[i].status \in {"new", "partially_filled", "pending_cancel"}

FsFill(i) ==
    /\ FsWorking(i)
    /\ fsHeld' = fsHeld + fsReal[i].side /\ fsMoved' = TRUE
    /\ fsReal' = [fsReal EXCEPT ![i].filled = @ + 1,
         ![i].status = IF fsReal[i].filled + 1 = FsQty THEN "filled"
                       ELSE IF @ = "pending_cancel" THEN @ ELSE "partially_filled"]
    /\ UNCHANGED <<fsSent, fsPending, fsAt, fsWork, fsSeen, fsIoc, fsBars, fsDoomed>>

\* A cancel takes effect, or the order is refused (or an IOC order dies) unasked.
FsDies(i) ==
    /\ FsWorking(i)
    /\ fsReal' = [fsReal EXCEPT ![i].status =
         IF i \in fsDoomed THEN "canceled" ELSE IF fsReal[i].filled = 0 THEN "rejected"
         ELSE "canceled"]
    /\ UNCHANGED <<fsSent, fsHeld, fsPending, fsAt, fsWork, fsSeen, fsIoc, fsBars,
                   fsMoved, fsDoomed>>

\* cancel_open_orders_for_symbol.
FsCancelAll ==
    /\ fsReal' = [i \in FsOrders |-> IF FsWorking(i)
                    THEN [fsReal[i] EXCEPT !.status = "pending_cancel"] ELSE fsReal[i]]
    /\ fsDoomed' = fsDoomed \cup {i \in FsOrders : FsWorking(i)}

-----------------------------------------------------------------------------
(* The leg.                                                                *)

\* has_pending_bundle_for_leg: a leg with a pending bundle submits nothing (GD-R3).
FsMaySubmit == fsAt["post"] = "idle" /\ fsPending = FsNoBundle

FsSubmit(side, ioc) ==
    /\ FsMaySubmit /\ fsSent < FsMaxOrders
    /\ fsSent' = fsSent + 1
    /\ fsReal' = [fsReal EXCEPT ![fsSent + 1] =
                    [side |-> side, filled |-> 0, status |-> "new"]]
    /\ fsWork' = [fsWork EXCEPT !["post"] = [id |-> fsSent + 1, filled |-> FsQty,
                    status |-> "submitted", before |-> fsHeld # 0, cycles |-> 0]]
    /\ fsAt' = [fsAt EXCEPT !["post"] = "refresh"] /\ fsIoc' = ioc
    /\ UNCHANGED <<fsHeld, fsPending, fsSeen, fsBars, fsMoved, fsDoomed>>

\* A bar passes for a leg that believes it is in a trade.
FsBar ==
    /\ fsBars \in 1..(FsMaxBars - 1) /\ fsBars' = fsBars + 1
    /\ UNCHANGED <<fsBroker, fsPending, fsAt, fsWork, fsSeen, fsIoc, fsMoved, fsDoomed>>

-----------------------------------------------------------------------------
(* The sieve.                                                              *)

\* advance_pending_cycles takes the items under the lock and lets it go.
FsAdvance ==
    /\ fsAt["adv"] = "idle" /\ fsPending # FsNoBundle
    /\ fsWork' = [fsWork EXCEPT !["adv"] = fsPending]
    /\ fsAt' = [fsAt EXCEPT !["adv"] = "refresh"]
    /\ UNCHANGED <<fsBroker, fsPending, fsSeen, fsIoc, fsBars, fsMoved, fsDoomed>>

\* _resolved_fill_qty: nothing filled reads as nothing only for a dead order; an order that
\* may still fill is reported at its full quantity.
FsResolved(r) ==
    IF r.filled > 0 THEN r.filled
    ELSE IF r.status \in {"rejected", "canceled"} THEN 0 ELSE FsQty

\* refresh_order_result / short_burst_refresh_order_results and _build_slices.
FsRefresh(c) ==
    /\ fsAt[c] = "refresh"
    /\ LET r == fsReal[fsWork[c].id]
       IN fsWork' = [fsWork EXCEPT ![c].filled = FsResolved(r), ![c].status = r.status]
    /\ fsAt' = [fsAt EXCEPT ![c] = "read"]
    /\ UNCHANGED <<fsBroker, fsPending, fsSeen, fsIoc, fsBars, fsMoved, fsDoomed>>

FsPartial(b) == b.status = "partially_filled" \/ b.filled < FsQty


\* reconcile_broker_primary_fill.
FsReconciled(b, held) ==
    IF held = 0 THEN 0
    ELSE IF ~b.before THEN 1
    ELSE IF fsBars > 1 THEN fsBars ELSE 1

\* _apply_broker_authority up to its next await: positions read, leg memory set.
FsRead(c) ==
    /\ fsAt[c] = "read"
    /\ fsSeen' = [fsSeen EXCEPT ![c] = fsHeld] /\ fsMoved' = FALSE
    /\ fsBars' = FsReconciled(fsWork[c], fsHeld)
    /\ fsAt' = [fsAt EXCEPT ![c] = IF FsPartial(fsWork[c]) THEN "cancel" ELSE "drift"]
    /\ UNCHANGED <<fsBroker, fsPending, fsWork, fsIoc, fsDoomed>>

\* The bracket of a partial fill is cancelled.
FsBracket(c) ==
    /\ fsAt[c] = "cancel" /\ FsCancelAll
    /\ fsAt' = [fsAt EXCEPT ![c] = "drift"]
    /\ UNCHANGED <<fsSent, fsHeld, fsPending, fsWork, fsSeen, fsIoc, fsBars, fsMoved>>

\* detect_leg_broker_memory_drift against the position read before the cancel; a drift
\* reads the positions again (apply_broker_authority_to_leg_memory).
FsDrift(c) ==
    /\ fsAt[c] = "drift"
    /\ fsAt' = [fsAt EXCEPT ![c] = "keep"]
    /\ IF (fsBars > 0) # (fsSeen[c] # 0)
       THEN /\ fsBars' = IF fsHeld = 0 THEN 0 ELSE IF fsBars > 1 THEN fsBars ELSE 1
            /\ fsMoved' = FALSE
       ELSE UNCHANGED <<fsBars, fsMoved>>
    /\ UNCHANGED <<fsBroker, fsPending, fsWork, fsSeen, fsIoc, fsDoomed>>

\* PendingFillBundle.needs_tracking of one slice.
FsNeedsTracking(b) == b.status \in FsOpenStatus \/ FsPartial(b)

\* post: the bundle is registered or forgotten under the lock.
FsRegister ==
    /\ fsAt["post"] = "keep"
    /\ fsPending' = IF fsIoc \/ FsNeedsTracking(fsWork["post"]) THEN fsWork["post"]
                    ELSE FsNoBundle
    /\ fsAt' = [fsAt EXCEPT !["post"] = "idle"]
    /\ fsWork' = [fsWork EXCEPT !["post"] = FsNoBundle]
    /\ UNCHANGED <<fsBroker, fsSeen, fsIoc, fsBars, fsMoved, fsDoomed>>

\* The cycle that reaches the threshold abandons the bundle.
FsLastCycle(b) == b.cycles + 1 >= FsThreshold

\* adv: a resolved bundle is forgotten, an unresolved one put back with one more cycle.
SlipFsPutBack == [fsWork["adv"] EXCEPT !.cycles = 0]
FsPutBack == [fsWork["adv"] EXCEPT !.cycles = @ + 1]
FsFinish ==
    /\ fsAt["adv"] = "keep"
    /\ ~(FsNeedsTracking(fsWork["adv"]) /\ FsLastCycle(fsWork["adv"]))
    /\ fsPending' = IF FsNeedsTracking(fsWork["adv"]) THEN FsPutBack ELSE FsNoBundle
    /\ fsAt' = [fsAt EXCEPT !["adv"] = "idle"]
    /\ fsWork' = [fsWork EXCEPT !["adv"] = FsNoBundle]
    /\ UNCHANGED <<fsBroker, fsSeen, fsIoc, fsBars, fsMoved, fsDoomed>>

\* adv: after the last cycle the symbol's orders are cancelled and the residual abandoned.
FsAbandon ==
    /\ fsAt["adv"] = "keep"
    /\ FsNeedsTracking(fsWork["adv"]) /\ FsLastCycle(fsWork["adv"])
    /\ FsCancelAll /\ fsPending' = FsNoBundle
    /\ fsAt' = [fsAt EXCEPT !["adv"] = "idle"]
    /\ fsWork' = [fsWork EXCEPT !["adv"] = FsNoBundle]
    /\ UNCHANGED <<fsSent, fsHeld, fsSeen, fsIoc, fsBars, fsMoved>>

FsStep(c) == FsRefresh(c) \/ FsRead(c) \/ FsBracket(c) \/ FsDrift(c)
FsProgress == FsAdvance \/ FsRegister \/ FsFinish \/ FsAbandon \/ \E c \in FsCalls : FsStep(c)

FsNext ==
    \/ \E i \in FsOrders : FsFill(i) \/ FsDies(i)
    \/ \E side \in {-1, 1}, ioc \in BOOLEAN : FsSubmit(side, ioc)
    \/ FsBar
    \/ FsProgress

FsSpec == FsInit /\ [][FsNext]_fsVars /\ WF_fsVars(FsProgress)

-----------------------------------------------------------------------------
FsBundles == [id : 0..FsMaxOrders, filled : 0..FsQty, status : FsStatus \cup {"none"},
              before : BOOLEAN, cycles : 0..FsThreshold]

\* Types; a bundle is dropped before it reaches the cycle threshold (advance_pending_cycles).
FsTypeOK ==
    /\ fsReal \in [FsOrders -> [side : {-1, 1}, filled : 0..FsQty,
                                status : FsStatus \cup {"none"}]]
    /\ fsSent \in 0..FsMaxOrders
    /\ fsHeld \in (-(FsMaxOrders * FsQty))..(FsMaxOrders * FsQty)
    /\ fsPending \in FsBundles /\ fsPending.cycles < FsThreshold
    /\ fsAt \in [FsCalls -> {"idle", "refresh", "read", "cancel", "drift", "keep"}]
    /\ fsWork \in [FsCalls -> FsBundles]
    /\ fsIoc \in BOOLEAN /\ fsBars \in 0..FsMaxBars
    /\ fsMoved \in BOOLEAN /\ fsDoomed \subseteq FsOrders

\* No working order is out of sight: an order that can still fill belongs to the pending bundle
\* or to the call in flight, unless its cancel was requested (broker_fill_sieve.py:82-97,
\* 170-195, 300-352).  A bundle put back over a newer one would break it.
FsInSight ==
    \A i \in FsOrders : fsReal[i].status \in {"new", "partially_filled"}
        => \/ fsPending.id = i
           \/ fsAt["post"] # "idle" /\ fsWork["post"].id = i
           \/ i \in fsDoomed

\* Broker authority: when the position has not moved since a call last read it, the leg's memory
\* says "in a trade" exactly when the broker holds a position
\* (broker_fill_sieve.py:355-430, execution_adaptor.py:722-787).
FsMemory ==
    ~fsMoved => (fsBars > 0) = (fsHeld # 0)

\* A pending bundle is resolved or abandoned: the leg is not locked out of submitting for ever
\* (broker_fill_sieve.py:300-346).
FsResolves == fsPending # FsNoBundle ~> fsPending = FsNoBundle

\* What the sieve promises of every order it is told of: it stays in sight while it works, the leg's
\* memory agrees with its fills, and its bundle is resolved in the end.
FsFollowed == [](FsTypeOK /\ FsInSight /\ FsMemory) /\ FsResolves
=============================================================================
