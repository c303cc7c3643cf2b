---------------------------- MODULE ConfigPlane ----------------------------
(***************************************************************************)
(* Strategy configuration: the cache of ConfigWatcher (src/control/         *)
(* config_watcher.py), the version lock, preflight alignment and remote     *)
(* write of ConfigurationPrecedenceResolver (src/engine/config_engine.py),  *)
(* and the NOTIFY listener (src/engine/config_listener.py), for one         *)
(* strategy row in Supabase.                                                *)
(*                                                                          *)
(* A row's content is named by its version: every update raises it (the     *)
(* table's trigger), and 0 is the content of the YAML file.  The daemon's   *)
(* code is synchronous, so only the remote side moves inside one call; a    *)
(* remote call ends "ok", "down" (it raised), or "bad" (the rows hold no    *)
(* leg with a known module).                                                *)
(***************************************************************************)
EXTENDS Naturals

CONSTANT CgMaxVersion   \* bound: the last version of the row

ASSUME CgAssumption == CgMaxVersion \in Nat \ {0}

VARIABLES
    cgClient,    \* get_supabase() returns a client
    cgRemote,    \* the row's version
    cgBad,       \* the row's module is unknown
    cgLoaded,    \* _config is not None
    cgParams,    \* the content of the cached strategy
    cgSwapped,   \* the cached params are those of a runtime override
    cgOverride,  \* _runtime_param_overrides has the strategy
    cgToken,     \* _strategy_versions, 0 when absent (its uuid is absent too)
    cgDegraded,  \* _config_fetch_degraded
    cgRequired,  \* _remote_source_required
    cgFallback,  \* _config_fallback_active
    cgReload,    \* _reload_requested
    cgAligned,   \* the last preflight verdict
    cgPending,   \* version a remote write in progress expects, or 0
    cgLink,      \* the listener: "off", "down" or "up"
    cgNote,      \* a notification on the wire
    cgDirty,     \* local_config_dirty
    cgSeen,      \* the last version the daemon fetched or wrote (history)
    cgOwn        \* it wrote since it last fetched (history)

cgVars == <<cgClient, cgRemote, cgBad, cgLoaded, cgParams, cgSwapped, cgOverride, cgToken,
            cgDegraded, cgRequired, cgFallback, cgReload, cgAligned, cgPending,
            cgLink, cgNote, cgDirty, cgSeen, cgOwn>>
cgWorld == <<cgClient, cgRemote, cgBad>>
cgCache == <<cgLoaded, cgParams, cgSwapped, cgToken, cgDegraded, cgRequired, cgReload,
             cgSeen, cgOwn>>
cgPush == <<cgLink, cgNote, cgDirty>>

CgInit ==
    /\ cgClient \in BOOLEAN /\ cgRemote = 1 /\ cgBad = FALSE
    /\ cgLoaded = FALSE /\ cgParams = 0 /\ cgSwapped = FALSE /\ cgOverride = FALSE
    /\ cgToken = 0 /\ cgDegraded = FALSE /\ cgRequired = FALSE /\ cgFallback = FALSE
    /\ cgReload = FALSE /\ cgAligned = "none" /\ cgPending = 0
    /\ cgLink = "off" /\ cgNote = FALSE /\ cgDirty = FALSE
    /\ cgSeen = 0 /\ cgOwn = FALSE

CgIdle == cgPending = 0

-----------------------------------------------------------------------------
(* The dashboard: an optimistic update of the row, and the trigger's NOTIFY. *)

CgEdit(bad) ==
    /\ cgClient /\ cgRemote < CgMaxVersion /\ cgRemote' = cgRemote + 1 /\ cgBad' = bad
    /\ cgNote' = (cgLink = "up")
    /\ UNCHANGED <<cgClient, cgCache, cgOverride, cgFallback, cgAligned, cgPending,
                   cgLink, cgDirty>>

-----------------------------------------------------------------------------
(* ConfigWatcher.                                                          *)

CgOutcomes == IF ~cgClient THEN {"none"} ELSE {"down", IF cgBad THEN "bad" ELSE "ok"}

\* _apply_runtime_overrides
CgApplied == cgOverride

\* _fetch, the rows read: uuids and versions are rebuilt, the params come from the row.
CgRowsRead ==
    /\ cgToken' = cgRemote /\ cgParams' = cgRemote /\ cgSwapped' = CgApplied
    /\ cgSeen' = cgRemote /\ cgOwn' = FALSE /\ cgDegraded' = FALSE

\* The reporting request raises after the versions were rebuilt.
SlipCgFetchFailed(out) ==
    /\ cgDegraded' = TRUE /\ cgToken' = cgRemote /\ UNCHANGED cgOwn
    /\ IF cgLoaded THEN UNCHANGED <<cgParams, cgSwapped, cgSeen>>
       ELSE cgParams' = 0 /\ cgSwapped' = CgApplied /\ cgSeen' = 0

\* _fetch, an exception: the last good configuration, or the YAML one at the first time; rows
\* without a leg have cleared the versions already.
CgFetchFailed(out) ==
    /\ cgDegraded' = TRUE /\ cgToken' = (IF out = "bad" THEN 0 ELSE cgToken) /\ UNCHANGED cgOwn
    /\ IF cgLoaded THEN UNCHANGED <<cgParams, cgSwapped, cgSeen>>
       ELSE cgParams' = 0 /\ cgSwapped' = CgApplied /\ cgSeen' = 0

\* _fetch, and what get_latest notes of it
CgFetch(out) ==
    /\ cgLoaded' = TRUE /\ cgReload' = FALSE /\ cgRequired' = (out # "none")
    /\ \/ /\ out = "none" /\ cgParams' = 0 /\ cgSwapped' = CgApplied /\ cgDegraded' = FALSE
          /\ UNCHANGED <<cgToken, cgSeen, cgOwn>>
       \/ out = "ok" /\ CgRowsRead
       \/ out \in {"down", "bad"} /\ CgFetchFailed(out)

\* get_latest: the poll interval passes sooner or later.
CgStale == TRUE

\* poll_loop, or any call of get_latest
CgPoll(out) ==
    /\ CgIdle /\ (~cgLoaded \/ cgReload \/ CgStale) /\ CgFetch(out)
    /\ UNCHANGED <<cgWorld, cgOverride, cgFallback, cgAligned, cgPending, cgPush>>

\* set_runtime_params_override: also in the cached configuration
CgSetOverride ==
    /\ CgIdle /\ cgOverride' = TRUE /\ cgSwapped' = (cgSwapped \/ cgLoaded)
    /\ UNCHANGED <<cgWorld, cgLoaded, cgParams, cgToken, cgDegraded, cgRequired, cgReload, cgSeen,
                   cgOwn, cgFallback, cgAligned, cgPending, cgPush>>

\* clear_runtime_params_override: the cached params stay swapped until the next fetch
CgClearOverride ==
    /\ CgIdle /\ cgOverride' = FALSE
    /\ UNCHANGED <<cgWorld, cgCache, cgFallback, cgAligned, cgPending, cgPush>>

-----------------------------------------------------------------------------
(* ConfigurationPrecedenceResolver.                                        *)

\* _fetch_remote_strategy_row and the tokens; row: whether the row could be read.
CgTokensAligned == cgToken = 0 \/ cgToken = cgRemote
CgMismatch(row) == IF row THEN ~CgTokensAligned ELSE cgRequired

\* note_config_fallback; its alert is a system event
CgNoteFallback(yes) == cgFallback' = (cgFallback \/ yes)

\* verify_version_lock: on a conflict the cache is reloaded and the lock refused.
CgVerify(row, out) ==
    IF row /\ ~CgTokensAligned THEN CgFetch(out) /\ UNCHANGED cgFallback
    ELSE CgNoteFallback(~row /\ cgRequired) /\ UNCHANGED cgCache

\* write_remote_strategy_update, up to the update; without a uuid there is none.
CgBeginWrite(row, out) ==
    /\ CgIdle /\ cgLoaded /\ (row => cgClient) /\ CgVerify(row, out)
    /\ cgPending' = IF (row /\ ~CgTokensAligned) \/ ~cgClient THEN 0 ELSE cgToken
    /\ UNCHANGED <<cgWorld, cgOverride, cgAligned, cgPush>>

\* .eq("version_id", local_version)
CgMatches == cgRemote = cgPending

\* The update: applied, rejected (and verified again), or applied with its answer lost.
CgSend(lost, out) ==
    /\ ~CgIdle /\ cgPending' = 0
    /\ IF CgMatches
       THEN /\ cgRemote < CgMaxVersion /\ cgRemote' = cgRemote + 1 /\ cgNote' = (cgLink = "up")
            /\ IF lost THEN UNCHANGED cgCache
               ELSE /\ cgToken' = cgRemote + 1 /\ cgSeen' = cgRemote + 1 /\ cgOwn' = TRUE
                    /\ UNCHANGED <<cgLoaded, cgParams, cgSwapped, cgDegraded, cgRequired, cgReload>>
            /\ UNCHANGED cgFallback
       ELSE CgVerify(TRUE, out) /\ UNCHANGED <<cgRemote, cgNote>>
    /\ UNCHANGED <<cgClient, cgBad, cgOverride, cgAligned, cgLink, cgDirty>>

CgAbandon == ~CgIdle /\ cgPending' = 0    \* the request raised before it reached the row
    /\ UNCHANGED <<cgWorld, cgCache, cgOverride, cgFallback, cgAligned, cgPush>>

\* enforce_preflight_config_alignment: a second look after a reload; sync_remote_version_cache
\* ends a fallback unless the fetch failed.
CgPreflight(row, out, again) ==
    /\ CgIdle /\ cgLoaded /\ ((row \/ again) => cgClient)
    /\ \/ /\ ~CgMismatch(row) /\ cgAligned' = "yes"
          /\ CgNoteFallback(FALSE) /\ UNCHANGED cgCache
       \/ /\ CgMismatch(row) /\ cgDegraded /\ cgAligned' = "no"
          /\ CgNoteFallback(TRUE) /\ UNCHANGED cgCache
       \/ /\ CgMismatch(row) /\ ~cgDegraded /\ CgFetch(out)
          /\ cgFallback' = ((~again /\ cgRequired') \/ (cgDegraded' /\ (cgFallback \/ ~row)))
          /\ cgAligned' = IF (again /\ cgToken' \in {0, cgRemote}) \/ (~again /\ ~cgRequired')
                          THEN "yes" ELSE "no"
    /\ UNCHANGED <<cgWorld, cgOverride, cgPending, cgPush>>

-----------------------------------------------------------------------------
(* SupabaseConfigListener, and the engine that reads its flag.             *)

CgListenerStart == cgLink = "off" /\ cgLink' = "down" /\ UNCHANGED <<cgNote, cgDirty>>
CgListenerStop == cgLink # "off" /\ cgLink' = "off" /\ cgNote' = FALSE /\ UNCHANGED cgDirty
CgSubscribe == cgLink = "down" /\ cgLink' = "up" /\ UNCHANGED <<cgNote, cgDirty>>
\* What was notified on a lost connection is lost with it.
CgDisconnect == cgLink = "up" /\ cgLink' = "down" /\ cgNote' = FALSE /\ UNCHANGED cgDirty
CgHandleNotify == cgNote /\ cgNote' = FALSE /\ cgDirty' = TRUE /\ UNCHANGED cgLink

CgListener ==
    /\ CgListenerStart \/ CgListenerStop \/ CgSubscribe \/ CgDisconnect \/ CgHandleNotify
    /\ UNCHANGED <<cgWorld, cgCache, cgOverride, cgFallback, cgAligned, cgPending>>

\* The flag is cleared and a reload requested.
CgConsume ==
    /\ CgIdle /\ cgDirty /\ cgDirty' = FALSE /\ cgReload' = TRUE
    /\ UNCHANGED <<cgWorld, cgLoaded, cgParams, cgSwapped, cgToken, cgDegraded, cgRequired, cgSeen,
                   cgOwn, cgOverride, cgFallback, cgAligned, cgPending, cgLink, cgNote>>

CgNext ==
    \/ \E bad \in BOOLEAN : CgEdit(bad)
    \/ \E out \in CgOutcomes : CgPoll(out)
    \/ CgSetOverride \/ CgClearOverride \/ CgListener \/ CgConsume \/ CgAbandon
    \/ \E row \in BOOLEAN, out \in CgOutcomes : CgBeginWrite(row, out)
    \/ \E lost \in BOOLEAN, out \in CgOutcomes : CgSend(lost, out)
    \/ \E row, again \in BOOLEAN, out \in CgOutcomes : CgPreflight(row, out, again)

\* The poll loop never stops, and the store answers again and again; a request ends.
CgFair == SF_cgVars(CgPoll("ok")) /\ WF_cgVars(CgAbandon \/ \E out \in CgOutcomes : CgSend(FALSE, out))
CgSpec == CgInit /\ [][CgNext]_cgVars /\ CgFair

-----------------------------------------------------------------------------
\* Types; no version held is ahead of the row, and a notification needs a connected listener.
CgTypeOK ==
    /\ cgRemote \in 1..CgMaxVersion /\ {cgParams, cgToken, cgSeen, cgPending} \subseteq 0..cgRemote
    /\ {cgClient, cgBad, cgLoaded, cgSwapped, cgOverride, cgDegraded, cgRequired, cgFallback,
        cgReload, cgNote, cgDirty, cgOwn} \subseteq BOOLEAN
    /\ cgLink \in {"off", "down", "up"} /\ cgAligned \in {"none", "yes", "no"}
    /\ cgNote => cgLink = "up"

\* The version the daemon holds is the version of the params it holds: whatever fetch fails
\* and however far it got, the lock never vouches for params of another version.  It does
\* after the daemon's own write, which moves the version and leaves the params until the next
\* fetch, and while an override is swapped in (config_watcher.py:222-305,
\* config_engine.py:318-420, 566-650).
CgTokenHonest == cgToken # 0 /\ ~cgOwn /\ ~cgSwapped => cgParams = cgToken

\* An override is in force from the moment it is set, through every outcome of a fetch
\* (config_watcher.py:113-165, 222-305).
CgOverrideHolds == cgOverride /\ cgLoaded => cgSwapped

\* A write of the daemon never replaces an edit it has not seen (config_engine.py:566-650).
CgNoLostUpdate ==
    [][~CgIdle /\ cgRemote' # cgRemote /\ cgPending' = 0 => cgRemote = cgSeen]_cgVars

\* Once the row is left alone and usable, the daemon ends with its version, though every
\* notification may be lost (config_watcher.py:173-183, 305-314).
CgConverges == <>[](cgClient /\ ~cgBad => cgToken = cgRemote)

\* What the configuration plane promises: the version held names the params held, no write overwrites
\* one it has not seen, overrides survive, and the cache catches up.
CgInStep == [](CgTypeOK /\ CgTokenHonest /\ CgOverrideHolds) /\ CgNoLostUpdate /\ CgConverges
=============================================================================
