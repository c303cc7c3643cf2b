----------------------------- MODULE Overrides -----------------------------
(***************************************************************************)
(* HumanOverrideRegistry of src/engine/governance.py: halts kept in a table *)
(* of the vault and mirrored in a state file, from which a snapshot seeds   *)
(* the table again, and the journal of engagements and releases.            *)
(*                                                                          *)
(* Several processes (engine, API, command line) use the registry with no   *)
(* lock between them: every connection and every file access is a step.     *)
(* A halt is a pair of kill level and scope, here one key.  The journal's   *)
(* rows are signed and checked when written; what it says last of a key is  *)
(* kept.                                                                    *)
(***************************************************************************)
EXTENDS Naturals

CONSTANTS
    OvProcs, OvKeys,
    OvMaxOps, OvMaxFaults   \* bounds: engagements and releases, faults

ASSUME OvAssumption == OvMaxOps \in Nat /\ OvMaxFaults \in Nat

VARIABLES
    ovDb,      \* human_override_registry: keys with active = 1
    ovRows,    \* keys that have a row
    ovFile,    \* the state file's active keys ({} when missing or unreadable)
    ovJournal, \* per key: the last journal entry says "engaged"
    ovAt, ovOp, ovKey,     \* per process: place, operation, key
    ovPrior, ovHit,        \* per process: prior.active, rowcount > 0
    ovSeen,    \* per process: keys read (of the table by a sync, of the file by a hydrate)
    ovOps, ovFaults,
    ovAcked,   \* halts acknowledged and not being released (history)
    ovLoose,   \* halts whose release has not settled (history)
    ovRaced,   \* operations overlap, or have since somebody was last idle alone (history)
    ovTorn     \* a process died in an operation, operations overlapped, or a mirror was taken of
               \* a replaced vault (history)

ovVars == <<ovDb, ovRows, ovFile, ovJournal, ovAt, ovOp, ovKey, ovPrior, ovHit, ovSeen, ovOps,
            ovFaults, ovAcked, ovLoose, ovRaced, ovTorn>>
ovTable == <<ovDb, ovRows>>
ovCall == <<ovOp, ovKey>>
ovHistory == <<ovAcked, ovLoose, ovTorn>>

OvInit ==
    /\ ovDb = {} /\ ovRows = {} /\ ovFile = {} /\ ovJournal = [k \in OvKeys |-> FALSE]
    /\ ovAt = [p \in OvProcs |-> "idle"] /\ ovOp = [p \in OvProcs |-> "snapshot"]
    /\ ovKey \in [OvProcs -> {CHOOSE k \in OvKeys : TRUE}]
    /\ ovPrior = [p \in OvProcs |-> FALSE] /\ ovHit = [p \in OvProcs |-> FALSE]
    /\ ovSeen = [p \in OvProcs |-> {}]
    /\ ovOps = 0 /\ ovFaults = 0
    /\ ovAcked = {} /\ ovLoose = {} /\ ovRaced = FALSE /\ ovTorn = FALSE

OvAlone(p) == \A q \in OvProcs \ {p} : ovAt[q] = "idle"
OvGoto(p, at) == ovAt' = [ovAt EXCEPT ![p] = at]
OvBegins(p) == ovRaced' = (ovRaced \/ ~OvAlone(p)) /\ ovTorn' = (ovTorn \/ ~OvAlone(p))

-----------------------------------------------------------------------------
(* engage and release.                                                     *)

\* The row is upserted with active = 1.
OvEngage(p, k) ==
    /\ ovAt[p] = "idle" /\ ovOps < OvMaxOps /\ ovOps' = ovOps + 1
    /\ ovDb' = ovDb \cup {k} /\ ovRows' = ovRows \cup {k}
    /\ OvGoto(p, "sync") /\ ovOp' = [ovOp EXCEPT ![p] = "engage"] /\ ovKey' = [ovKey EXCEPT ![p] = k]
    /\ OvBegins(p)
    /\ UNCHANGED <<ovFile, ovJournal, ovPrior, ovHit, ovSeen, ovFaults, ovAcked, ovLoose>>

\* The state before, as the journal will have it.
OvPrior(k) == k \in ovDb

\* release reads the state before.
OvRelease(p, k) ==
    /\ ovAt[p] = "idle" /\ ovOps < OvMaxOps /\ ovOps' = ovOps + 1
    /\ ovPrior' = [ovPrior EXCEPT ![p] = OvPrior(k)]
    /\ OvGoto(p, "update") /\ ovOp' = [ovOp EXCEPT ![p] = "release"] /\ ovKey' = [ovKey EXCEPT ![p] = k]
    /\ ovAcked' = ovAcked \ {k} /\ OvBegins(p)
    /\ UNCHANGED <<ovTable, ovFile, ovJournal, ovHit, ovSeen, ovFaults, ovLoose>>

\* The UPDATE of one key.
OvUpdated(k) == ovDb \ {k}

\* The UPDATE, committed; its rowcount is kept.
OvUpdate(p) ==
    /\ ovAt[p] = "update" /\ OvGoto(p, "sync")
    /\ ovDb' = OvUpdated(ovKey[p]) /\ ovHit' = [ovHit EXCEPT ![p] = ovKey[p] \in ovRows]
    /\ ovLoose' = ovLoose \cup {ovKey[p]}
    /\ UNCHANGED <<ovRows, ovFile, ovJournal, ovCall, ovPrior, ovSeen, ovOps, ovFaults, ovAcked,
                   ovRaced, ovTorn>>

\* _sync_state_file reads the table, not the snapshot that hydrates.
OvSyncRead(p) ==
    /\ ovAt[p] = "sync" /\ OvGoto(p, "write")
    /\ ovSeen' = [ovSeen EXCEPT ![p] = ovDb]
    /\ UNCHANGED <<ovTable, ovFile, ovJournal, ovCall, ovPrior, ovHit, ovOps, ovFaults, ovRaced, ovHistory>>

\* ... and writes the file.  An operation nobody overlapped settles what was released.
OvSyncWrite(p) ==
    /\ ovAt[p] = "write" /\ OvGoto(p, "journal") /\ ovFile' = ovSeen[p]
    /\ ovLoose' = IF ovRaced THEN ovLoose ELSE {}
    /\ ovTorn' = (ovTorn \/ ~(ovFile \ ovSeen[p] \subseteq {k \in {ovKey[p]} : ovHit[p]}))
    /\ UNCHANGED <<ovTable, ovJournal, ovCall, ovPrior, ovHit, ovSeen, ovOps, ovFaults, ovAcked, ovRaced>>

\* A release that changed nothing leaves no row; an engagement always leaves one.
OvLogged(p) == ovOp[p] = "engage" \/ (ovHit[p] /\ ovPrior[p])

\* An engagement is acknowledged; a release is verified on a fresh connection and raises
\* when the halt is there.
OvJournal(p) ==
    /\ ovAt[p] = "journal" /\ OvGoto(p, "idle")
    /\ ovJournal' = IF OvLogged(p) THEN [ovJournal EXCEPT ![ovKey[p]] = ovOp[p] = "engage"] ELSE ovJournal
    /\ ovAcked' = IF ovOp[p] = "engage" THEN ovAcked \cup {ovKey[p]} ELSE ovAcked
    /\ ovRaced' = (ovRaced /\ ~OvAlone(p))
    /\ UNCHANGED <<ovTable, ovFile, ovCall, ovPrior, ovHit, ovSeen, ovOps, ovFaults, ovLoose, ovTorn>>

-----------------------------------------------------------------------------
(* snapshot: hydrate, then read the table.                                 *)

OvHydrate(p) ==
    /\ ovAt[p] = "idle" /\ OvGoto(p, "hydrate") /\ ovOp' = [ovOp EXCEPT ![p] = "snapshot"]
    /\ ovSeen' = [ovSeen EXCEPT ![p] = ovFile] /\ OvBegins(p)
    /\ UNCHANGED <<ovTable, ovFile, ovJournal, ovKey, ovPrior, ovHit, ovOps, ovFaults, ovAcked, ovLoose>>

\* Only a row that is there is set active.
SlipOvSeeded(k) == IF k \in ovRows THEN ovDb \cup {k} ELSE ovDb
OvSeeded(k) == ovDb \cup {k}

\* One of the file's halts: an inactive row becomes active again.
OvSeed(p, k) ==
    /\ ovAt[p] = "hydrate" /\ k \in ovSeen[p]
    /\ ovSeen' = [ovSeen EXCEPT ![p] = @ \ {k}]
    /\ ovDb' = OvSeeded(k) /\ ovRows' = ovRows \cup ovDb'
    /\ UNCHANGED <<ovFile, ovJournal, ovAt, ovCall, ovPrior, ovHit, ovOps, ovFaults, ovRaced, ovHistory>>

\* A snapshot answers and writes nothing back.
OvAnswered == "idle"

\* _read_db_snapshot answers the caller.
OvAnswer(p) ==
    /\ ovAt[p] = "hydrate" /\ ovSeen[p] = {} /\ OvGoto(p, OvAnswered)
    /\ ovRaced' = (ovRaced /\ ~OvAlone(p))
    /\ UNCHANGED <<ovTable, ovFile, ovJournal, ovCall, ovPrior, ovHit, ovSeen, ovOps, ovFaults, ovHistory>>

-----------------------------------------------------------------------------
(* Faults.                                                                 *)

\* A process dies; a file it was writing is left unreadable.
OvCrash(p) ==
    /\ ovAt[p] # "idle" /\ ovFaults < OvMaxFaults /\ ovFaults' = ovFaults + 1
    /\ OvGoto(p, "idle")
    /\ \/ UNCHANGED ovFile
       \/ ovAt[p] = "write" /\ ovFile' = {}
    /\ ovTorn' = TRUE /\ ovRaced' = (ovRaced /\ ~OvAlone(p))
    /\ UNCHANGED <<ovTable, ovJournal, ovCall, ovPrior, ovHit, ovSeen, ovOps, ovAcked, ovLoose>>

\* The vault is replaced by one without the halts; the state file stays.
OvLoseVault ==
    /\ ovFaults < OvMaxFaults /\ ovFaults' = ovFaults + 1
    /\ \A p \in OvProcs : ovAt[p] = "idle"
    /\ ovDb' = {} /\ ovRows' = {} /\ ovLoose' = ovLoose \cup ovDb
    /\ UNCHANGED <<ovFile, ovJournal, ovAt, ovCall, ovPrior, ovHit, ovSeen, ovOps, ovAcked, ovRaced, ovTorn>>

OvNext ==
    \/ \E p \in OvProcs, k \in OvKeys : OvEngage(p, k) \/ OvRelease(p, k) \/ OvSeed(p, k)
    \/ \E p \in OvProcs : \/ OvUpdate(p) \/ OvSyncRead(p) \/ OvSyncWrite(p) \/ OvJournal(p)
                          \/ OvHydrate(p) \/ OvAnswer(p) \/ OvCrash(p)
    \/ OvLoseVault

OvSpec == OvInit /\ [][OvNext]_ovVars

-----------------------------------------------------------------------------
\* Types; an active halt has a row, and each step belongs to an operation that has it.
OvTypeOK ==
    /\ ovDb \subseteq ovRows /\ ovRows \subseteq OvKeys /\ ovFile \subseteq OvKeys
    /\ ovJournal \in [OvKeys -> BOOLEAN] /\ ovSeen \in [OvProcs -> SUBSET OvKeys]
    /\ ovAt \in [OvProcs -> {"idle", "update", "sync", "write", "journal", "hydrate"}]
    /\ \A p \in OvProcs : /\ ovAt[p] = "update" => ovOp[p] = "release"
                          /\ ovAt[p] \in {"sync", "write", "journal"} => ovOp[p] # "snapshot"

\* The board of halts, seen in the table.
OvBoard == INSTANCE HaltBoard WITH HbKeys <- OvKeys, hbHalts <- ovDb, hbLoose <- ovLoose, hbAsked <- ovOps

\* The table and its mirror implement the board of halts: a halt whose release was written to
\* both stores by an operation that nothing overlapped does not come back by itself, whatever
\* crashed before and whoever hydrates later (governance.py:473-515, 652-690).
OvImplements == OvBoard!HbSpec

\* A halt acknowledged to the operator is in every snapshot answered until its release, though
\* the vault be replaced, unless a process died in the registry, operations overlapped, or the
\* mirror was rewritten from the replaced vault before a snapshot seeded it
\* (governance.py:405-455, 612-650).
OvTold == [][\A p \in OvProcs : (ovAt[p] = "hydrate" /\ ovAt'[p] = "idle" /\ ~ovTorn')
                                  => ovAcked \subseteq ovDb]_ovVars

\* What the journal says last of a halt is what the stores say, once nobody is at work, unless a
\* process died halfway or operations overlapped (governance.py:480-505).
OvJournaled ==
    ~ovTorn /\ (\A p \in OvProcs : ovAt[p] = "idle")
        => \A k \in OvKeys : ovJournal[k] = (k \in ovDb \cup ovFile)

\* What the override registry promises: it implements HaltBoard, a snapshot shows every halt that was
\* confirmed, and the journal knows it.
OvStands == [](OvTypeOK /\ OvJournaled) /\ OvImplements /\ OvTold
=============================================================================
