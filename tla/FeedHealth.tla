----------------------------- MODULE FeedHealth -----------------------------
(***************************************************************************)
(* The market data stream's supervisor thread and its websockets            *)
(* (src/ingestor/market_data_stream.py), and what each bar they deliver     *)
(* feeds: the sequence guard and the lag breaker (feed_ingest_guard.py), the *)
(* connection registry (feed_stream_health.py), the exchange clock          *)
(* (exchange_clock.py), and the ingestion watchdog of                       *)
(* dual_buffer_manager.py.                                                  *)
(*                                                                          *)
(* A connection lost is a supervisor lost: logging the loss reads           *)
(* health.mode.value, mode is a method, and the AttributeError leaves the   *)
(* except clause and ends the thread.  The backoff that follows in the code *)
(* is never reached; only another start(), from a configuration reload,     *)
(* opens the feed again.                                                   *)
(*                                                                          *)
(* One leg rides on each stream type.  A bar is the tick it closed at.      *)
(***************************************************************************)
EXTENDS Integers, FiniteSets

CONSTANTS
    FhTypes, FhConfigured,   \* _KNOWN_STREAM_TYPES; the ones with symbols
    FhLegs,                  \* the streams whose legs the watchdog looks at
    FhAlways,                \* the streams that trade at all hours (crypto)
    FhDegraded,              \* FEED_RECONNECT_DEGRADED_SECONDS, in ticks
    FhCeiling, FhStreak,     \* arrival lag ceiling, INGEST_CIRCUIT_BREAKER_STREAK
    FhStall,                 \* INGESTER_STALL_MULTIPLE bar periods
    FhMaxNow, FhMaxStarts    \* bounds

ASSUME FhAssumption ==
    /\ FhConfigured \subseteq FhTypes /\ FhAlways \subseteq FhTypes /\ FhLegs \subseteq FhConfigured
    /\ {FhDegraded, FhStreak, FhStall, FhMaxNow} \subseteq Nat \ {0} /\ {FhCeiling, FhMaxStarts} \subseteq Nat

VARIABLES
    fhNow, fhOpen,         \* the clock; regular trading hours
    fhSup, fhStop,         \* where the supervisor thread is, _stop_event
    fhSock,                \* each configured stream's websocket: none, open, ended
    fhSince,               \* the registry: disconnect_since (-1 = None)
    fhSeen, fhRef,         \* the sequence guard's last bar, the exchange reference
    fhBreaches, fhTripped, \* the lag breaker
    fhPromo, fhStalled,    \* the watchdog: last promotion (-1 = None), stalled keys
    fhStarts,
    fhDark, fhAdmitted, fhLate   \* history: first loss since the last bar, bars let in, lags of each bar let in

fhVars == <<fhNow, fhOpen, fhSup, fhStop, fhSock, fhSince, fhSeen, fhRef, fhBreaches, fhTripped,
            fhPromo, fhStalled, fhStarts, fhDark, fhAdmitted, fhLate>>
fhSession == <<fhNow, fhOpen>>
fhThread == <<fhSup, fhStop, fhStarts>>
fhRegistry == <<fhSince, fhDark>>
fhGuards == <<fhSeen, fhRef, fhBreaches, fhTripped, fhAdmitted, fhLate>>
fhWatch == <<fhPromo, fhStalled>>

FhInit ==
    /\ fhNow = 1 /\ fhOpen = TRUE /\ fhSup = "off" /\ fhStop = FALSE /\ fhStarts = 0
    /\ fhSock = [s \in FhConfigured |-> "none"]
    /\ fhSince = [s \in FhTypes |-> -1] /\ fhDark = [s \in FhTypes |-> -1]
    /\ fhSeen = [s \in FhConfigured |-> 0] /\ fhRef = [s \in FhConfigured |-> 0]
    /\ fhBreaches = [s \in FhConfigured |-> 0] /\ fhTripped = [s \in FhConfigured |-> FALSE]
    /\ fhPromo = [s \in FhLegs |-> -1] /\ fhStalled = {}
    /\ fhAdmitted = [s \in FhConfigured |-> {}] /\ fhLate = [s \in FhConfigured |-> {}]

FhTick ==
    /\ fhNow < FhMaxNow /\ fhNow' = fhNow + 1 /\ fhOpen' \in BOOLEAN
    /\ UNCHANGED <<fhThread, fhSock, fhRegistry, fhGuards, fhWatch>>

-----------------------------------------------------------------------------
(* The registry.                                                           *)

\* _refresh_locked, run before every read: the stored mode never outlives the timer.
FhModeOf(since) ==
    IF since = -1 THEN "HEALTHY"
    ELSE IF fhNow - since >= FhDegraded THEN "DEGRADED_FEED" ELSE "RECONNECTING"

\* mode(stream_type), and mode() over all known streams, whether they are configured or not
FhMode(s) == FhModeOf(fhSince[s])
FhWorstMode ==
    LET modes == {FhMode(s) : s \in FhTypes}
    IN IF "DEGRADED_FEED" \in modes THEN "DEGRADED_FEED"
       ELSE IF "RECONNECTING" \in modes THEN "RECONNECTING" ELSE "HEALTHY"

\* Each attempt starts the timer again.
SlipFhNoted(since) == fhNow
\* note_disconnect() and note_reconnect_attempt(): a timer that runs is left alone.
FhNoted(since) == IF since = -1 THEN fhNow ELSE since

FhNote ==
    /\ fhSince' = [s \in FhTypes |-> FhNoted(fhSince[s])]
    /\ fhDark' = [s \in FhTypes |-> IF fhDark[s] = -1 THEN fhNow ELSE fhDark[s]]

-----------------------------------------------------------------------------
(* The supervisor thread.                                                  *)

\* start(): a thread that is still alive, stopping or not, is left as it is.
FhStart ==
    /\ fhSup = "off" /\ fhStarts < FhMaxStarts /\ fhStarts' = fhStarts + 1
    /\ fhSup' = "connect" /\ fhStop' = FALSE
    /\ UNCHANGED <<fhSession, fhSock, fhRegistry, fhGuards, fhWatch>>

\* stop(): waits a while for the thread, and returns whether or not it has ended.
FhStopped ==
    /\ fhSup # "off" /\ fhStop' = TRUE
    /\ UNCHANGED <<fhSession, fhSup, fhStarts, fhSock, fhRegistry, fhGuards, fhWatch>>

\* The top of _supervisor_loop and of _serve
FhConnect ==
    /\ fhSup = "connect"
    /\ \/ fhStop /\ fhSup' = "off" /\ UNCHANGED <<fhSock, fhRegistry>>
       \/ ~fhStop /\ fhSup' = "serve" /\ FhNote /\ fhSock' = [s \in FhConfigured |-> "open"]
    /\ UNCHANGED <<fhSession, fhStop, fhStarts, fhGuards, fhWatch>>

FhDrop(s) ==
    /\ fhSock[s] = "open" /\ fhSock' = [fhSock EXCEPT ![s] = "ended"]
    /\ UNCHANGED <<fhSession, fhThread, fhRegistry, fhGuards, fhWatch>>

\* _run_until_stopped polls: a stop or the end of its stream takes it to _close_stream, and
\* _serve's finally takes its siblings there.
FhNotice ==
    /\ fhSup = "serve" /\ (fhStop \/ \E s \in FhConfigured : fhSock[s] = "ended")
    /\ fhSup' = "unwind"
    /\ UNCHANGED <<fhSession, fhStop, fhStarts, fhSock, fhRegistry, fhGuards, fhWatch>>

\* _close_stream: every wait is bounded, the socket is released in the end.
FhClose(s) ==
    /\ fhSup = "unwind" /\ fhSock[s] # "none" /\ fhSock' = [fhSock EXCEPT ![s] = "none"]
    /\ UNCHANGED <<fhSession, fhThread, fhRegistry, fhGuards, fhWatch>>

\* _serve returns once every task of the streams has ended.
FhUnwound == \A s \in FhConfigured : fhSock[s] = "none"

FhEnd ==
    /\ fhSup = "unwind" /\ FhUnwound /\ fhSup' = "off"
    /\ IF fhStop THEN UNCHANGED fhRegistry ELSE FhNote
    /\ UNCHANGED <<fhSession, fhStop, fhStarts, fhSock, fhGuards, fhWatch>>

-----------------------------------------------------------------------------
(* A bar arrives.                                                          *)

\* FeedSequenceGuard.evaluate; without a vendor id the sequence number is the timestamp.
FhAccepts(s, n) == n > fhSeen[s]

\* IngestCircuitBreaker.note_bar_arrival
FhRun(s, n) == IF fhNow - n > FhCeiling THEN fhBreaches[s] + 1 ELSE 0

\* ExchangeClockRegistry._upsert: the reference never goes back.
FhReference(s, n) == IF fhRef[s] > n THEN fhRef[s] ELSE n

\* FeedStreamHealthRegistry.note_stream_bar
FhHeard(s) ==
    /\ fhSince' = [fhSince EXCEPT ![s] = -1] /\ fhDark' = [fhDark EXCEPT ![s] = -1]

\* on_bar; the loop runs handlers until the socket is closed
FhBar(s, n) ==
    /\ fhSup \in {"serve", "unwind"} /\ fhSock[s] = "open" /\ n \in 1..fhNow
    /\ IF FhAccepts(s, n)
       THEN /\ fhSeen' = [fhSeen EXCEPT ![s] = n]
            /\ fhBreaches' = [fhBreaches EXCEPT ![s] = FhRun(s, n)]
            /\ fhTripped' = [fhTripped EXCEPT ![s] = @ \/ FhRun(s, n) >= FhStreak]
            /\ fhRef' = [fhRef EXCEPT ![s] = FhReference(s, n)]
            /\ fhAdmitted' = [fhAdmitted EXCEPT ![s] = @ \union {n}]
            /\ fhLate' = [fhLate EXCEPT ![s] = IF n \in fhAdmitted[s] THEN @ \union {0}
                                               ELSE IF fhNow - n > FhCeiling THEN @ \union {n} ELSE @]
            /\ FhHeard(s)
       ELSE UNCHANGED <<fhGuards, fhRegistry>>
    /\ UNCHANGED <<fhSession, fhThread, fhSock, fhWatch>>

-----------------------------------------------------------------------------
(* The ingestion watchdog.                                                 *)

\* The end of reconcile_streaming_windows, when a bar was appended
FhPromoted(s) ==
    /\ fhPromo' = [fhPromo EXCEPT ![s] = fhNow] /\ fhStalled' = fhStalled \ {s}
    /\ UNCHANGED <<fhSession, fhThread, fhSock, fhRegistry, fhGuards>>

FhDormant(s) == s \notin FhAlways /\ ~fhOpen

\* _check_ingestion_watchdog
FhWatched ==
    LET live == {s \in FhLegs : ~FhDormant(s)}
        new == {s \in live : fhPromo[s] = -1}
        dead == {s \in live \ new : fhNow - fhPromo[s] > FhStall}
    IN /\ fhPromo' = [s \in FhLegs |-> IF s \in new THEN fhNow ELSE fhPromo[s]]
       /\ fhStalled' = (fhStalled \intersect live) \union dead
       /\ UNCHANGED <<fhSession, fhThread, fhSock, fhRegistry, fhGuards>>

FhNext ==
    \/ FhTick \/ FhStart \/ FhStopped \/ FhConnect \/ FhNotice \/ FhEnd \/ FhWatched
    \/ \E s \in FhConfigured : FhDrop(s) \/ FhClose(s) \/ \E n \in 1..FhMaxNow : FhBar(s, n)
    \/ \E s \in FhLegs : FhPromoted(s)

FhSpec == FhInit /\ [][FhNext]_fhVars

-----------------------------------------------------------------------------
\* Types: a socket is only open while the supervisor serves or unwinds, so a connection attempt
\* never meets a socket of the attempt before (the per-account connection cap).
FhTypeOK ==
    /\ fhNow \in 1..FhMaxNow /\ fhOpen \in BOOLEAN /\ fhStop \in BOOLEAN /\ fhStarts \in 0..FhMaxStarts
    /\ fhSup \in {"off", "connect", "serve", "unwind"}
    /\ fhSock \in [FhConfigured -> {"none", "open", "ended"}]
    /\ {fhSince, fhDark} \subseteq [FhTypes -> -1..FhMaxNow]
    /\ {fhSeen, fhRef} \subseteq [FhConfigured -> 0..FhMaxNow] /\ fhPromo \in [FhLegs -> -1..FhMaxNow]
    /\ fhBreaches \in [FhConfigured -> 0..FhMaxNow] /\ fhTripped \in [FhConfigured -> BOOLEAN]
    /\ fhStalled \subseteq FhLegs
    /\ fhSup \in {"off", "connect"} => \A s \in FhConfigured : fhSock[s] = "none"

\* A feed that has delivered nothing for the degraded period since it was first lost reads
\* DEGRADED_FEED, for the stream and for the whole, however many attempts and losses came in
\* between; and a stream that delivered after its last loss reads HEALTHY.
FhSilenceShows ==
    \A s \in FhTypes :
        /\ fhDark[s] # -1 /\ fhNow - fhDark[s] >= FhDegraded =>
               FhMode(s) = "DEGRADED_FEED" /\ FhWorstMode = "DEGRADED_FEED"
        /\ fhDark[s] = -1 => FhMode(s) = "HEALTHY"

\* The breaker has tripped only for a stream that let in as many late bars as the streak asks, in a
\* row: no bar in time stands between them.  No bar is let in twice, over reconnections as well.
FhTrippedForCause ==
    \A s \in FhConfigured :
        /\ fhTripped[s] => \E run \in SUBSET fhLate[s] :
               /\ Cardinality(run) = FhStreak
               /\ \A n \in fhAdmitted[s] \ run : (\A m \in run : n < m) \/ (\A m \in run : n > m)
        /\ 0 \notin fhLate[s]

\* A leg is held to be stalled only while nothing has reached its window for longer than the
\* threshold: a promotion between two looks of the watchdog is not missed.
FhStalledIsSilent == \A s \in fhStalled : fhPromo[s] # -1 /\ fhNow - fhPromo[s] > FhStall

\* What the feed guards promise: a silent feed shows, and what they report of a feed has a cause.
FhShows == FhTypeOK /\ FhSilenceShows /\ FhTrippedForCause /\ FhStalledIsSilent
=============================================================================
