----------------------------- MODULE MicroGuard -----------------------------
(***************************************************************************)
(* The halt and limit-up/limit-down latches of one symbol                   *)
(* (src/engine/microstructure_guard.py), the level-1 quote cache            *)
(* (src/ingestor/level1_depth_cache.py) and the stream callbacks that feed  *)
(* them (src/ingestor/market_data_stream.py).                               *)
(*                                                                          *)
(* The stream thread caches a quote and then notes it with the guard; the   *)
(* engine evaluates the symbol in two critical sections with the cache read *)
(* in between.  A quote is two-sided or not, wide or not, and carries at    *)
(* most one condition that matters.  Words and codes of status messages are *)
(* abstracted to what they are taken for.                                   *)
(***************************************************************************)
EXTENDS Integers

CONSTANTS
    MgStale,     \* max_quote_stale_seconds
    MgFresh,     \* fresh_bar_window_seconds
    MgConfirm,   \* halt_recovery_confirmation_seconds
    MgMaxNow, MgMaxEvents   \* bounds

ASSUME MgAssumption ==
    {MgStale, MgFresh, MgMaxNow, MgMaxEvents} \subseteq Nat /\ MgConfirm \in Nat \ {0}

VARIABLES
    mgNow,
    mgHalt, mgSince,     \* regulatory_halt, halt_clear_candidate_since (-1 = None)
    mgLuld,              \* luld_active
    mgBarAt, mgQuoteAt, mgQuote,   \* last bar and quote noted (-1 = None)
    mgCached,            \* the depth cache: quote and its time
    mgCarried,           \* the quote between the cache and the guard, <<>> or <<q>>
    mgRead,              \* what an evaluation read, <<>> or <<record>>
    mgVerdict,           \* the last verdict: "none", "safe" or the reason
    mgEvents,
    mgGoodFrom, mgBad    \* history: start of the run of tradeable quotes (-1), why the latch last fell

mgVars == <<mgNow, mgHalt, mgSince, mgLuld, mgBarAt, mgQuoteAt, mgQuote, mgCached, mgCarried,
            mgRead, mgVerdict, mgEvents, mgGoodFrom, mgBad>>
mgLatch == <<mgHalt, mgSince, mgBad>>
mgNoted == <<mgQuoteAt, mgQuote, mgGoodFrom>>
mgEval == <<mgRead, mgVerdict>>

\* Quotes on_quote does not refuse: one side at least has a price.  A one-sided quote has no spread.
MgQuotes == [two : BOOLEAN, wide : BOOLEAN, cond : {"none", "halt", "luld"}]
MgKnownQuotes == {q \in MgQuotes : q.wide => q.two}
MgNoQuote == [two |-> FALSE, wide |-> FALSE, cond |-> "none"]

MgInit ==
    /\ mgNow = 0 /\ mgHalt = FALSE /\ mgSince = -1 /\ mgLuld = FALSE
    /\ mgBarAt = -1 /\ mgQuoteAt = -1 /\ mgQuote = MgNoQuote
    /\ mgCached = [at |-> -1, q |-> MgNoQuote] /\ mgCarried = <<>> /\ mgRead = <<>>
    /\ mgVerdict = "none" /\ mgEvents = 0 /\ mgGoodFrom = -1 /\ mgBad = "none"

MgTick ==
    /\ mgNow < MgMaxNow /\ mgNow' = mgNow + 1
    /\ UNCHANGED <<mgLatch, mgLuld, mgBarAt, mgNoted, mgCached, mgCarried, mgEval, mgEvents>>

MgEvent == mgEvents < MgMaxEvents /\ mgEvents' = mgEvents + 1

-----------------------------------------------------------------------------
(* The latch.                                                              *)

\* _latch_halt: a latch that is set again loses its run of good quotes.
MgLatchHalt == mgHalt' = TRUE /\ mgSince' = -1 /\ mgBad' = "none"

\* _clear_halt
MgClearHalt(why) == mgHalt' = FALSE /\ mgSince' = -1 /\ mgBad' = IF mgHalt THEN why ELSE mgBad

MgTradeable(q) == q.two /\ ~q.wide /\ q.cond = "none"

\* _note_recovery_evidence
MgEvidence(halt, q) ==
    IF ~halt \/ ~MgTradeable(q) THEN -1 ELSE IF mgSince = -1 THEN mgNow ELSE mgSince

-----------------------------------------------------------------------------
(* The stream thread.                                                      *)

\* on_quote: the cache first ...
MgCache(q) ==
    /\ mgCarried = <<>> /\ MgEvent
    /\ mgCached' = [at |-> mgNow, q |-> q] /\ mgCarried' = <<q>>
    /\ UNCHANGED <<mgNow, mgLatch, mgLuld, mgBarAt, mgNoted, mgEval>>

\* ... then note_quote, under the guard's lock.
MgNoteQuote ==
    /\ mgCarried # <<>> /\ mgCarried' = <<>>
    /\ LET q == mgCarried[1]
       IN /\ mgQuoteAt' = mgNow /\ mgQuote' = q
          /\ mgHalt' = (mgHalt \/ q.cond = "halt") /\ mgSince' = MgEvidence(mgHalt \/ q.cond = "halt", q)
          /\ mgBad' = IF q.cond = "halt" THEN "none" ELSE mgBad
          /\ mgLuld' = (mgLuld \/ q.cond = "luld")
          /\ mgGoodFrom' = IF ~MgTradeable(q) THEN -1 ELSE IF mgGoodFrom = -1 THEN mgNow ELSE mgGoodFrom
    /\ UNCHANGED <<mgNow, mgBarAt, mgCached, mgEval, mgEvents>>

\* note_trade
MgNoteTrade(cond) ==
    /\ MgEvent /\ mgLuld' = (mgLuld \/ cond = "luld")
    /\ IF cond = "halt" THEN MgLatchHalt ELSE UNCHANGED mgLatch
    /\ UNCHANGED <<mgNow, mgBarAt, mgNoted, mgCached, mgCarried, mgEval>>

\* note_trading_status: a resume outranks a halt in the same message.  The bands it keeps only
\* matter while luld_active blocks entries anyway.
MgNoteStatus(kind) ==
    /\ MgEvent
    /\ CASE kind = "resume" -> MgClearHalt("resume") [] kind = "halt" -> MgLatchHalt [] OTHER -> UNCHANGED mgLatch
    /\ mgLuld' = (kind = "luld" \/ (mgLuld /\ kind # "resume"))
    /\ UNCHANGED <<mgNow, mgBarAt, mgNoted, mgCached, mgCarried, mgEval>>

MgNoteBar ==
    /\ MgEvent /\ mgBarAt' = mgNow
    /\ UNCHANGED <<mgNow, mgLatch, mgLuld, mgNoted, mgCached, mgCarried, mgEval>>

-----------------------------------------------------------------------------
(* The engine evaluates the symbol.                                        *)

\* The first critical section and the cache: a cached quote replaces the noted one.
MgReads ==
    LET q == IF mgCached.at = -1 THEN mgQuote ELSE mgCached.q
        at == IF mgCached.at = -1 THEN mgQuoteAt ELSE mgCached.at
    IN /\ mgRead = <<>>
       /\ mgRead' = <<[halt |-> mgHalt, luld |-> mgLuld, wide |-> q.wide, quoted |-> at, bar |-> mgBarAt]>>
       /\ UNCHANGED <<mgNow, mgLatch, mgLuld, mgBarAt, mgNoted, mgCached, mgCarried, mgVerdict, mgEvents>>

\* A quote is stale beside a fresh bar only.
MgStaleQuote(r) ==
    r.bar # -1 /\ r.quoted # -1 /\ mgNow - r.bar <= MgFresh /\ mgNow - r.quoted > MgStale

\* The guard of _maybe_recover_halt; evaluate passes a wide spread in as well.
MgUnknowable(r) == MgStaleQuote(r) \/ r.wide \/ mgQuoteAt = -1

\* _maybe_recover_halt
MgRecover(r) ==
    IF ~mgHalt THEN UNCHANGED mgLatch
    ELSE IF MgUnknowable(r) THEN mgSince' = -1 /\ UNCHANGED <<mgHalt, mgBad>>
    ELSE IF mgSince = -1 \/ mgNow - mgSince < MgConfirm THEN UNCHANGED mgLatch
    ELSE MgClearHalt("reverified")

\* The halt as it was first read.
SlipMgHaltSeen(r, halt) == r.halt
\* halt_status is read again after the recovery.
MgHaltSeen(r, halt) == halt

MgReason(r, halt) ==
    IF MgHaltSeen(r, halt) THEN "regulatory_halt"
    ELSE IF r.wide THEN "spread_exceeded"
    ELSE IF MgStaleQuote(r) THEN "stale_quote"
    ELSE IF r.luld THEN "luld_band" ELSE "safe"

\* The second critical section and the verdict
MgEvaluate ==
    /\ mgRead # <<>> /\ mgRead' = <<>>
    /\ MgRecover(mgRead[1]) /\ mgVerdict' = MgReason(mgRead[1], mgHalt')
    /\ UNCHANGED <<mgNow, mgLuld, mgBarAt, mgNoted, mgCached, mgCarried, mgEvents>>

MgNext ==
    \/ MgTick \/ MgNoteQuote \/ MgNoteBar \/ MgReads \/ MgEvaluate
    \/ \E q \in MgKnownQuotes : MgCache(q)
    \/ \E c \in {"none", "halt", "luld"} : MgNoteTrade(c)
    \/ \E k \in {"resume", "halt", "luld", "other"} : MgNoteStatus(k)

MgSpec == MgInit /\ [][MgNext]_mgVars

-----------------------------------------------------------------------------
\* Types; a run of good quotes is only counted under a latch that is set.
MgTypeOK ==
    /\ mgNow \in 0..MgMaxNow /\ mgHalt \in BOOLEAN /\ mgLuld \in BOOLEAN
    /\ {mgSince, mgBarAt, mgQuoteAt, mgCached.at, mgGoodFrom} \subseteq -1..MgMaxNow
    /\ mgQuote \in MgKnownQuotes /\ mgCached.q \in MgKnownQuotes
    /\ mgVerdict \in {"none", "safe", "regulatory_halt", "spread_exceeded", "stale_quote", "luld_band"}
    /\ ~mgHalt => mgSince = -1

\* The latch falls on a resume message, or on a run of tradeable quotes that nothing has broken for
\* the whole confirmation window, with neither the quote the engine reads wide nor that quote stale
\* beside a fresh bar.
MgClearedOnEvidence ==
    [][(mgHalt /\ ~mgHalt') =>
         \/ mgBad' = "resume"
         \/ /\ mgGoodFrom # -1 /\ mgNow - mgGoodFrom >= MgConfirm
            /\ mgRead # <<>> /\ ~mgRead[1].wide /\ ~MgStaleQuote(mgRead[1])]_mgVars

\* A symbol is called safe only while its halt latch is down, even when the halt is latched between
\* the two critical sections of the evaluation.
MgSafeIsUnhalted == [][(mgRead # <<>> /\ mgRead' = <<>> /\ mgVerdict' = "safe") => ~mgHalt']_mgVars

\* What the guard promises: a halt is cleared on evidence only, and no symbol is called safe while it
\* is halted.
MgHalts == []MgTypeOK /\ MgClearedOnEvidence /\ MgSafeIsUnhalted
=============================================================================
