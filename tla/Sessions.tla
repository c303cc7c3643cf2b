------------------------------ MODULE Sessions ------------------------------
(***************************************************************************)
(* Performance sessions of one strategy in the Supabase mirror              *)
(* (src/control/session_manager.py) and the equity snapshots measured       *)
(* against them (SupabaseSync.sync_equity_snapshot).  The bot is one thread *)
(* that makes one REST call per step; a call may fail before or after it    *)
(* took effect, and a session may be closed by a direct SQL UPDATE at any   *)
(* time.                                                                    *)
(***************************************************************************)
EXTENDS Integers, Sequences, FiniteSets

CONSTANTS
    SeEquities,         \* values of the account equity
    SeMaxSessions,      \* bound: rows of performance_sessions
    SeMaxFaults         \* bound: failed calls, restarts

ASSUME SeAssumption == SeEquities \subseteq Nat \ {0} /\ {SeMaxSessions, SeMaxFaults} \subseteq Nat

SeEnvs == {"paper", "live"}
SeNone == [id |-> 0, env |-> "paper", base |-> 0]
SeOuts == {"ok", "failed", "lost"}      \* lost: took effect, but the answer did not come

VARIABLES
    seRows,       \* performance_sessions: [env, base, active], by id
    seStrategy,   \* strategies.environment
    seMode,       \* the environment the bot passes
    seCache,      \* SessionManager._sessions (id 0 = no entry)
    seAt,         \* the next call of the bot
    seUses,       \* the session the call under way works with
    seEquity,     \* and the equity
    seSnap,       \* the last snapshot: [id, base]
    seRaced,      \* the session in use was closed after the query that found it
    seFaults

seVars == <<seRows, seStrategy, seMode, seCache, seAt, seUses, seEquity, seSnap, seRaced, seFaults>>

SeOutcome(out) == IF out = "ok" THEN UNCHANGED seFaults ELSE seFaults < SeMaxFaults /\ seFaults' = seFaults + 1
SeApplied(out) == out # "failed"
SeActive == {i \in DOMAIN seRows : seRows[i].active}
SeClosed(rows) == [i \in DOMAIN rows |-> [rows[i] EXCEPT !.active = FALSE]]
SeStopped == seAt' = "idle" /\ seUses' = SeNone

SeInit ==
    /\ seRows = <<>> /\ seStrategy = "paper" /\ seMode = "paper" /\ seCache = SeNone /\ seAt = "idle" /\ seUses = SeNone
    /\ seEquity \in SeEquities /\ seSnap = [id |-> 0, base |-> 0] /\ seRaced = FALSE /\ seFaults = 0

-----------------------------------------------------------------------------
\* ensure_session, the session for the open row i: the cached object if it is the same, else a new one
SeSession(i) ==
    IF seCache.id = i /\ seCache.env = seMode THEN seCache
    ELSE [id |-> i, env |-> seRows[i].env, base |-> seRows[i].base]

\* sync_equity_snapshot: ensure_session asks for an open session, with run_with_supabase_retry, which
\* gives None for a call that failed for good.
SeEnsure(out, equity) ==
    /\ seAt = "idle" /\ SeOutcome(out) /\ seEquity' = equity /\ seRaced' = FALSE
    /\ IF out # "ok" THEN SeStopped /\ UNCHANGED seCache
       ELSE \/ \E i \in SeActive : seUses' = SeSession(i) /\ seCache' = seUses' /\ seAt' = "snapshot"
            \/ SeActive = {} /\ seCache' = SeNone /\ seAt' = "create" /\ UNCHANGED seUses
    /\ UNCHANGED <<seRows, seStrategy, seMode, seSnap>>

\* _create_session: the object kept for a row just inserted
SeCreated(env, n) == [id |-> n, env |-> env, base |-> seEquity]

\* "if session": what follows the insert
SeThen(out) == IF out = "ok" THEN "snapshot" ELSE "idle"

SeCreate(out) ==
    /\ seAt \in {"create", "live_create"} /\ Len(seRows) < SeMaxSessions /\ SeOutcome(out)
    /\ LET env == IF seAt = "create" THEN seMode ELSE "live"
           n == Len(seRows) + 1
       IN /\ seRows' = IF SeApplied(out) THEN Append(seRows, [env |-> env, base |-> seEquity, active |-> TRUE]) ELSE seRows
          /\ seUses' = (IF out = "ok" THEN SeCreated(env, n) ELSE SeNone) /\ seCache' = seUses'
    /\ seAt' = SeThen(out)
    /\ seRaced' = FALSE /\ UNCHANGED <<seStrategy, seMode, seEquity, seSnap>>

\* ... and the insert into equity_snapshots, by sync_equity_snapshot or go_live.
SeSnapshot(out) ==
    /\ seAt = "snapshot" /\ SeOutcome(out) /\ SeStopped /\ seRaced' = FALSE
    /\ seSnap' = IF SeApplied(out) THEN [id |-> seUses.id, base |-> seUses.base] ELSE seSnap
    /\ UNCHANGED <<seRows, seStrategy, seMode, seCache, seEquity>>

\* The paper session stays open.
SlipSeGoLive(out, equity) ==
    /\ seAt = "idle" /\ SeOutcome(out) /\ seEquity' = equity
    /\ seAt' = IF out = "ok" THEN "live_env" ELSE "idle"
    /\ UNCHANGED <<seRows, seStrategy, seMode, seCache, seUses, seSnap, seRaced>>
\* go_live closes what is open, ...
SeGoLive(out, equity) ==
    /\ seAt = "idle" /\ SeOutcome(out) /\ seEquity' = equity
    /\ seRows' = IF SeApplied(out) THEN SeClosed(seRows) ELSE seRows
    /\ seAt' = IF out = "ok" THEN "live_env" ELSE "idle"
    /\ UNCHANGED <<seStrategy, seMode, seCache, seUses, seSnap, seRaced>>

\* ... writes the environment of the strategy, ...
SeLiveEnv(out) ==
    /\ seAt = "live_env" /\ SeOutcome(out) /\ seStrategy' = IF SeApplied(out) THEN "live" ELSE seStrategy
    /\ seAt' = IF out = "ok" THEN "live_event" ELSE "idle"
    /\ UNCHANGED <<seRows, seMode, seCache, seUses, seEquity, seSnap, seRaced>>

\* ... and an event, drops the cached session and opens one.  Whatever fails ends it there.
SeLiveEvent(out) ==
    /\ seAt = "live_event" /\ SeOutcome(out)
    /\ IF out = "ok" THEN seCache' = SeNone /\ seAt' = "live_create" ELSE seAt' = "idle" /\ UNCHANGED seCache
    /\ UNCHANGED <<seRows, seStrategy, seMode, seUses, seEquity, seSnap, seRaced>>

\* close_active: an error is raised to the caller before the entry is dropped.
SeCloseActive(out) ==
    /\ seAt = "idle" /\ SeOutcome(out) /\ seRows' = IF SeApplied(out) THEN SeClosed(seRows) ELSE seRows
    /\ seCache' = IF out = "ok" THEN SeNone ELSE seCache
    /\ UNCHANGED <<seStrategy, seMode, seAt, seUses, seEquity, seSnap, seRaced>>

SeInvalidate ==
    /\ seAt = "idle" /\ seCache' = SeNone
    /\ UNCHANGED <<seRows, seStrategy, seMode, seAt, seUses, seEquity, seSnap, seRaced, seFaults>>

\* The SQL UPDATE that ensure_session is written for.
SeExternalClose ==
    /\ SeActive # {} /\ seRows' = SeClosed(seRows) /\ seRaced' = (seAt = "snapshot")
    /\ UNCHANGED <<seStrategy, seMode, seCache, seAt, seUses, seEquity, seSnap, seFaults>>

SeRestart(mode) ==
    /\ seFaults < SeMaxFaults /\ seFaults' = seFaults + 1 /\ seCache' = SeNone /\ SeStopped /\ seMode' = mode
    /\ seRaced' = FALSE /\ UNCHANGED <<seRows, seStrategy, seEquity, seSnap>>

SeNext ==
    \/ \E out \in SeOuts :
        \/ \E equity \in SeEquities : SeEnsure(out, equity) \/ SeGoLive(out, equity)
        \/ SeCreate(out) \/ SeSnapshot(out) \/ SeLiveEnv(out) \/ SeLiveEvent(out) \/ SeCloseActive(out)
    \/ \E mode \in SeEnvs : SeRestart(mode)
    \/ SeInvalidate \/ SeExternalClose

SeSpec == SeInit /\ [][SeNext]_seVars

-----------------------------------------------------------------------------
\* Types.
SeTypeOK ==
    /\ seRows \in Seq([env : SeEnvs, base : SeEquities, active : BOOLEAN]) /\ {seStrategy, seMode} \subseteq SeEnvs
    /\ {seCache, seUses} \subseteq [id : 0..SeMaxSessions, env : SeEnvs, base : SeEquities \union {0}]
    /\ seAt \in {"idle", "create", "snapshot", "live_env", "live_event", "live_create"}
    /\ (seAt = "snapshot") <=> (seUses # SeNone)
    /\ seEquity \in SeEquities /\ seRaced \in BOOLEAN /\ seFaults \in 0..SeMaxFaults

\* A strategy never has two open sessions, however a go_live or a creation broke off.
SeOneOpen == Cardinality(SeActive) <= 1

\* A return is measured against the baseline of the session its snapshot is stored under.
SeMeasuredRight == seSnap.id # 0 => seSnap.base = seRows[seSnap.id].base

\* A snapshot lands in a session that was open when its own call asked: a close outside is missed
\* only if it comes after that.
SeLandsOpen == [][seSnap' # seSnap => (seRows[seSnap'.id].active \/ seRaced)]_seVars

\* What sessions promise over lost calls: one is open at most, and snapshots land in it against its own
\* starting equity.
SeMeasures == [](SeTypeOK /\ SeOneOpen /\ SeMeasuredRight) /\ SeLandsOpen
=============================================================================
