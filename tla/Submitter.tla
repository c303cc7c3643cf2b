----------------------------- MODULE Submitter -----------------------------
(***************************************************************************)
(* The robustness layer of order execution (src/execution/                  *)
(* idempotent_execution.py, the boot half of its adapter, and the gates of  *)
(* engine/entry_authority.py and engine/commissioning_gate.py): threads     *)
(* submit intents by deterministic id, the tracker books fills once per id, *)
(* a boot compares the books with the broker and never adopts.  One symbol, *)
(* signed units.                                                            *)
(***************************************************************************)
EXTENDS Integers, FiniteSets, FiniteSetsExt

CONSTANTS
    SuThreads, SuIds,   \* submitting threads; client_order_ids
    SuSide,             \* SuSide[c]: +1 buy, -1 sell
    SuAction,           \* SuAction[c]: "LONG", "SHORT" or "EXIT"
    SuQty,              \* the quantity of an order
    SuLegs, SuAllowed,  \* strategies; soak.commissioning_legs
    SuEngaged,          \* bound: the gates a run engages
    SuMaxFaults         \* bound: crashes and failed lookups

SuNone == "none"

ASSUME SuAssumption ==
    /\ IsFiniteSet(SuIds) /\ SuNone \notin SuThreads
    /\ SuSide \in [SuIds -> {-1, 1}] /\ SuAction \in [SuIds -> {"LONG", "SHORT", "EXIT"}]
    /\ SuQty \in Nat \ {0} /\ SuAllowed \subseteq SuLegs /\ SuMaxFaults \in Nat
    /\ SuEngaged \subseteq {"preemption", "recon_lock", "risk_halt", "portfolio_halt",
         "strategy_halt", "capital", "degradation", "safe_mode", "commissioning"}

SuGateNames == {"preemption", "recon_lock", "risk_halt", "portfolio_halt",
                "strategy_halt", "capital", "degradation", "safe_mode", "commissioning"}

VARIABLES
    suStatus, suFilled, \* the broker's order for each id
    suPlaced,           \* orders placed under each id, counted to 2
    suBook,             \* the recorded position, which outlives the process
    suApplied,          \* PositionTracker._applied, which does not
    suGot,              \* ids this process has an order object of
    suLock,             \* the thread holding each id's lock
    suAt, suId,         \* where each thread is, and its intent
    suGate,             \* the gate that is engaged, one at a time
    suHalt,             \* boot reconciliation tripped ENTRY_GATE_HALT
    suUp,               \* the process is up
    suLoaded,           \* legs the commissioning gate loaded
    suSoak,             \* soak.enabled, paper
    suFaults,
    suKnown,            \* suKnown[c]: what of c the record accounts for (history)
    suRebooked,         \* ids booked again by a process that had not booked them (history)
    suBlind,            \* ids whose broker lookup failed (history)
    suExcused           \* threads past the gate when it was engaged (history)

suVars == <<suStatus, suFilled, suPlaced, suBook, suApplied, suGot, suLock, suAt, suId, suGate,
            suHalt, suUp, suLoaded, suSoak, suFaults, suKnown, suRebooked, suBlind, suExcused>>
suBroker == <<suStatus, suFilled, suPlaced>>
suBooks == <<suBook, suApplied, suKnown, suRebooked>>
suThread == <<suLock, suAt, suId, suGot>>
suGates == <<suGate, suHalt, suExcused>>
suBoot == <<suUp, suLoaded, suSoak>>

SuTotal(f) == FoldSet(LAMBDA c, n : n + f[c], 0, SuIds)
SuSigned == [c \in SuIds |-> SuSide[c] * suFilled[c]]
SuHeld == SuTotal(SuSigned)

SuInit ==
    /\ suStatus = [c \in SuIds |-> "none"] /\ suFilled = [c \in SuIds |-> 0]
    /\ suPlaced = [c \in SuIds |-> 0] /\ suBook = 0
    /\ suKnown = [c \in SuIds |-> 0] /\ suRebooked = {} /\ suApplied = {} /\ suGot = {}
    /\ suLock = [c \in SuIds |-> SuNone]
    /\ suAt = [t \in SuThreads |-> "idle"] /\ suId = [t \in SuThreads |-> SuNone]
    /\ suGate = SuNone /\ suHalt = FALSE /\ suUp = FALSE /\ suLoaded = {}
    /\ suSoak \in {<<e, p>> : e \in BOOLEAN, p \in BOOLEAN}
    /\ suFaults = 0 /\ suBlind = {} /\ suExcused = {}

-----------------------------------------------------------------------------
(* The gates.                                                              *)

\* entry_allowed: the gates that block every action, the ones that block entries only, and
\* degradation, which a forced liquidation passes.
SuBlocked(c, force) ==
    LET entry == SuAction[c] \in {"LONG", "SHORT"}
    IN \/ suHalt
       \/ suGate \in {"preemption", "recon_lock", "risk_halt", "portfolio_halt",
                      "safe_mode", "commissioning"}
       \/ suGate \in {"strategy_halt", "capital"} /\ entry
       \/ suGate = "degradation" /\ entry /\ ~force

SuEngage(g) ==
    /\ suGate = SuNone /\ suGate' = g
    /\ suExcused' = {t \in SuThreads : suAt[t] = "send"}
    /\ UNCHANGED <<suBroker, suBooks, suThread, suHalt, suBoot, suFaults, suBlind>>

SuRelease ==
    /\ suGate # SuNone /\ suGate' = SuNone
    /\ UNCHANGED <<suBroker, suBooks, suThread, suHalt, suExcused, suBoot, suFaults, suBlind>>

-----------------------------------------------------------------------------
(* IdempotentSubmitter.submit.                                             *)

SuGo(t, place) == suAt' = [suAt EXCEPT ![t] = place]


SuCall(t, c) ==
    /\ suUp /\ suAt[t] = "idle" /\ suLock[c] = SuNone
    /\ suLock' = [suLock EXCEPT ![c] = t] /\ suId' = [suId EXCEPT ![t] = c]
    /\ SuGo(t, "lookup") /\ UNCHANGED suGot
    /\ UNCHANGED <<suBroker, suBooks, suGates, suBoot, suFaults, suBlind>>

SuLeave(t, got) ==
    /\ suGot' = suGot \cup got
    /\ suLock' = [suLock EXCEPT ![suId[t]] = SuNone]
    /\ suId' = [suId EXCEPT ![t] = SuNone] /\ SuGo(t, "idle")

\* get_by_client_order_id: a lookup that raises reads as "no such order".
SuLookup(t) ==
    /\ suAt[t] = "lookup"
    /\ \/ /\ suStatus[suId[t]] # SuNone /\ SuLeave(t, {suId[t]})   \* was_noop
          /\ UNCHANGED <<suFaults, suBlind>>
       \/ /\ suStatus[suId[t]] = SuNone /\ SuGo(t, "gate")
          /\ UNCHANGED <<suLock, suId, suGot, suFaults, suBlind>>
       \/ /\ suFaults < SuMaxFaults /\ suFaults' = suFaults + 1
          /\ suBlind' = suBlind \cup {suId[t]} /\ SuGo(t, "gate")
          /\ UNCHANGED <<suLock, suId, suGot>>
    /\ UNCHANGED <<suBroker, suBooks, suGates, suBoot>>

\* The safe checkpoint: EntryBlockedException / EnginePreemptedException, or on to the send.
SuGuard(t, force) ==
    /\ suAt[t] = "gate"
    /\ IF SuBlocked(suId[t], force) THEN SuLeave(t, {})
       ELSE SuGo(t, "send") /\ UNCHANGED <<suLock, suId, suGot>>
    /\ UNCHANGED <<suBroker, suBooks, suGates, suBoot, suFaults, suBlind>>

SuSend(t, status) ==
    /\ suAt[t] = "send" /\ SuLeave(t, {suId[t]})
    /\ suPlaced' = [suPlaced EXCEPT ![suId[t]] = IF @ < 2 THEN @ + 1 ELSE @]
    /\ suStatus' = [suStatus EXCEPT ![suId[t]] = IF @ = SuNone THEN status ELSE @]
    /\ suExcused' = suExcused \ {t}
    /\ UNCHANGED <<suFilled, suBooks, suGate, suHalt, suBoot, suFaults, suBlind>>

-----------------------------------------------------------------------------
(* Fills and the tracker.                                                  *)

SuFill(c) ==
    /\ suStatus[c] \in {"new", "partially_filled"}
    /\ suFilled' = [suFilled EXCEPT ![c] = @ + 1]
    /\ suStatus' = [suStatus EXCEPT ![c] =
                      IF suFilled[c] + 1 = SuQty THEN "filled" ELSE "partially_filled"]
    /\ UNCHANGED <<suPlaced, suBooks, suThread, suGates, suBoot, suFaults, suBlind>>

\* PositionTracker.apply: once per id and process, whatever the order fills later.
SuBookIt(c) ==
    /\ suBook' = suBook + SuSigned[c]
    /\ suKnown' = [suKnown EXCEPT ![c] = SuSigned[c]]
    /\ suRebooked' = IF c \notin suApplied /\ suKnown[c] # 0 THEN suRebooked \cup {c} ELSE suRebooked
    /\ suApplied' = suApplied \cup {c}
    /\ UNCHANGED <<suBroker, suThread, suGates, suBoot, suFaults, suBlind>>

\* A retry books the same id again.
SlipSuApply(c) == suUp /\ c \in suGot /\ suFilled[c] > 0 /\ suBook < 4 /\ SuBookIt(c)
SuApply(c) == suUp /\ c \in suGot \ suApplied /\ suFilled[c] > 0 /\ SuBookIt(c)

-----------------------------------------------------------------------------
(* Crash and boot.                                                         *)


\* The process dies: locks and threads are gone, the recorded positions are not.
SuCrash ==
    /\ suUp /\ suFaults < SuMaxFaults /\ suFaults' = suFaults + 1
    /\ suUp' = FALSE /\ suHalt' = FALSE /\ suApplied' = {} /\ suGot' = {} /\ suExcused' = {}
    /\ suLock' = [c \in SuIds |-> SuNone] /\ suAt' = [t \in SuThreads |-> "idle"]
    /\ suId' = [t \in SuThreads |-> SuNone]
    /\ UNCHANGED <<suBroker, suBook, suKnown, suRebooked, suGate, suLoaded, suSoak, suBlind>>

\* resolve_active_legs for what the configuration watcher came back with.
SuResolve(enabled) ==
    IF suSoak[1] THEN IF suSoak[2] THEN SuAllowed ELSE {} ELSE enabled

\* reconcile_boot: any difference halts entries; the books are never overwritten.
SuMismatch == suBook # SuHeld

SuStart(enabled) ==
    /\ ~suUp /\ suUp' = TRUE
    /\ suHalt' = SuMismatch
    /\ suKnown' = IF SuMismatch THEN suKnown ELSE SuSigned
    /\ suRebooked' = IF SuMismatch THEN suRebooked ELSE {}
    /\ suLoaded' = SuResolve(enabled)
    /\ UNCHANGED <<suBroker, suBook, suApplied, suThread, suGate, suExcused, suSoak, suFaults, suBlind>>

SuNext ==
    \/ \E g \in SuEngaged : SuEngage(g)
    \/ SuRelease \/ SuCrash
    \/ \E t \in SuThreads :
          \/ \E c \in SuIds : SuCall(t, c)
          \/ SuLookup(t)
          \/ \E force \in BOOLEAN : SuGuard(t, force)
          \/ \E status \in {"new", "rejected"} : SuSend(t, status)
    \/ \E c \in SuIds : SuFill(c) \/ SuApply(c)
    \/ \E enabled \in SUBSET SuLegs : SuStart(enabled)

SuSpec == SuInit /\ [][SuNext]_suVars

-----------------------------------------------------------------------------
\* Types; a fill is booked only for an id the process has had an answer for (PositionTracker).
SuTypeOK ==
    /\ suStatus \in [SuIds -> {SuNone, "new", "partially_filled", "filled", "rejected"}]
    /\ suFilled \in [SuIds -> 0..SuQty] /\ suPlaced \in [SuIds -> 0..2]
    /\ suBook \in Int /\ suKnown \in [SuIds -> (-SuQty)..SuQty]
    /\ suRebooked \subseteq SuIds /\ suApplied \subseteq suGot /\ suGot \subseteq SuIds
    /\ suBlind \subseteq SuIds
    /\ suLock \in [SuIds -> SuThreads \cup {SuNone}]
    /\ suAt \in [SuThreads -> {"idle", "lookup", "gate", "send"}]
    /\ suId \in [SuThreads -> SuIds \cup {SuNone}]
    /\ suGate \in SuGateNames \cup {SuNone} /\ suLoaded \subseteq SuLegs
    /\ suHalt \in BOOLEAN /\ suUp \in BOOLEAN /\ suExcused \subseteq SuThreads
    /\ suFaults \in 0..SuMaxFaults

\* A storm of submits of one id, restarts included, places one order: only a lookup that raised,
\* which reads as "no such order", can place a second (idempotent_execution.py:147-196).
SuOnce == \A c \in SuIds : suPlaced[c] > 1 => c \in suBlind

\* The record accounts for every fill it was told of, once: no retry books a fill twice, and a
\* boot that does not halt entries has found the record equal to the broker's position
\* (idempotent_execution.py:229-262, 287-334).  Fills that follow the booking of their id, or
\* of orders still open at boot, stay outside suKnown until the next boot finds them; a process
\* that books an order an earlier one had booked is the exception recorded in suRebooked.
SuAccounted == suUp /\ ~suHalt /\ suRebooked = {} => suBook = SuTotal(suKnown)

\* Kill outranks all: an order sent while its gate is engaged had passed the checkpoint before
\* the engagement; every later submission is refused (idempotent_execution.py:176-193,
\* entry_authority.py:54-86).
SuKillOutranks ==
    [][\A t \in SuThreads, c \in SuIds :
         suId[t] = c /\ suId'[t] # c /\ suPlaced'[c] # suPlaced[c]
            => \/ t \in suExcused
               \/ ~suHalt /\ suGate \notin {"preemption", "recon_lock", "risk_halt",
                                            "portfolio_halt"}]_suVars

\* During the soak the loaded legs are those of the charter, whatever the Supabase fetch
\* returned, and none outside the paper environment (commissioning_gate.py:38-82).
SuFailClosed ==
    suUp /\ suSoak[1] => suLoaded = IF suSoak[2] THEN SuAllowed ELSE {}

\* What the submitter promises under storms of retries: one order per id
\* unless a lookup failed, a record that accounts for the fills it was told of, no leg outside the
\* soak charter, and a kill that outranks every submission.
SuSubmitsSafely == [](SuTypeOK /\ SuOnce /\ SuAccounted /\ SuFailClosed) /\ SuKillOutranks
=============================================================================
