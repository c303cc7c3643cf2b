---------------------------- MODULE ParamCommit ----------------------------
(***************************************************************************)
(* Committing strategy parameters: commit_validated_strategy_parameters of  *)
(* src/engine/config_engine.py with the audits of src/config/               *)
(* parity_auditor.py and research_validation.py, and the boot that audits   *)
(* the live files and attests the configuration it runs                     *)
(* (effective_parity.py).                                                   *)
(*                                                                          *)
(* A commit runs in a process of its own: the commit lock is a thread lock  *)
(* and does not keep two processes apart.  A file is replaced in one step.  *)
(***************************************************************************)
EXTENDS Naturals, FiniteSets

CONSTANTS
    PcProcs,       \* processes that commit
    PcStrategies,  \* strategy files: regime, borrow, loop
    PcResearch,    \* validation files: regime, short, borrow, loop, or "no row"
    PcFirst,       \* the files at the beginning: strategy, research
    PcMaxFaults, PcMaxCommits   \* bounds

PcNoRow == [regime |-> FALSE, short |-> FALSE, borrow |-> 0, loop |-> 0, row |-> FALSE]

ASSUME PcAssumption ==
    /\ PcFirst.s \in PcStrategies /\ PcFirst.r \in PcResearch
    /\ PcMaxFaults \in Nat /\ PcMaxCommits \in Nat

VARIABLES
    pcLive, pcRules,   \* the live strategy and validation files
    pcStaged, pcStagedRules,  \* the operator's staged files
    pcLog,       \* the change log: the strategies it names as committed
    pcAt, pcCand, pcCandRules, pcSchema,  \* per process: place, payloads, allow_schema_update
    pcOldS, pcOldR, pcOldLog,  \* per process: texts read before writing, rows read of the log
    pcRun,       \* what the daemon runs, or "down"
    pcAlert,     \* the attestation found a divergence
    pcFaults, pcCommits,
    pcPassed,    \* pairs the audit passed (history)
    pcTorn,      \* a crash, a failed repair or an overlap left the files half written (history)
    pcSilent     \* the same, or a failed log write, for the change log (history)

pcVars == <<pcLive, pcRules, pcStaged, pcStagedRules, pcLog, pcAt, pcCand, pcCandRules, pcSchema,
            pcOldS, pcOldR, pcOldLog, pcRun, pcAlert, pcFaults, pcCommits, pcPassed, pcTorn, pcSilent>>
pcFiles == <<pcLive, pcRules>>
pcDesk == <<pcStaged, pcStagedRules>>
pcWork == <<pcCand, pcCandRules, pcSchema, pcOldS, pcOldR, pcOldLog>>
pcDaemon == <<pcRun, pcAlert>>

-----------------------------------------------------------------------------
(* The audits.                                                             *)

\* require_research_validation_row and _assert_candidate_invariants
PcAssert(s, r) == r.row /\ s.regime = r.regime /\ s.borrow >= r.borrow

\* _audit_runtime_structure: the borrow drag only matters where shorts are allowed.
PcStructure(s, r) == s.regime = r.regime /\ (r.short => s.borrow > 0 /\ s.borrow >= r.borrow)

\* _audit_loop_settings: the validated params, to the last one.
PcLoop(s, r) == s.loop = r.loop

\* _collect_drifts is empty
PcParity(s, r) == r.row /\ PcStructure(s, r) /\ PcLoop(s, r)

\* The files at the beginning are the repository's, which pass the audit.
ASSUME PcFirstPasses == PcParity(PcFirst.s, PcFirst.r)

PcInit ==
    /\ pcLive = PcFirst.s /\ pcRules = PcFirst.r
    /\ pcStaged = PcFirst.s /\ pcStagedRules = PcFirst.r /\ pcLog = {}
    /\ pcAt = [p \in PcProcs |-> "idle"] /\ pcCand = [p \in PcProcs |-> PcFirst.s]
    /\ pcCandRules = [p \in PcProcs |-> PcFirst.r] /\ pcSchema = [p \in PcProcs |-> FALSE]
    /\ pcOldS = [p \in PcProcs |-> PcFirst.s] /\ pcOldR = [p \in PcProcs |-> PcFirst.r]
    /\ pcOldLog = [p \in PcProcs |-> {}]
    /\ pcRun = "down" /\ pcAlert = FALSE /\ pcFaults = 0 /\ pcCommits = 0
    /\ pcPassed = {<<PcFirst.s, PcFirst.r>>} /\ pcTorn = FALSE /\ pcSilent = FALSE

PcBusy(p) == pcAt[p] \notin {"idle", "audit"}
PcOverlaps(p) == \E q \in PcProcs \ {p} : PcBusy(q)

-----------------------------------------------------------------------------
(* commit_validated_strategy_parameters.                                   *)

PcStage(s, r) ==
    /\ pcStaged' = s /\ pcStagedRules' = r
    /\ UNCHANGED <<pcFiles, pcLog, pcAt, pcWork, pcDaemon, pcFaults, pcCommits, pcPassed, pcTorn, pcSilent>>

\* Under the lock: the payloads are read once.
PcBegin(p, schema) ==
    /\ pcAt[p] = "idle" /\ pcCommits < PcMaxCommits /\ pcCommits' = pcCommits + 1
    /\ pcAt' = [pcAt EXCEPT ![p] = "audit"] /\ pcSchema' = [pcSchema EXCEPT ![p] = schema]
    /\ pcCand' = [pcCand EXCEPT ![p] = pcStaged]
    /\ pcCandRules' = [pcCandRules EXCEPT ![p] = IF schema THEN pcStagedRules ELSE pcRules]
    /\ UNCHANGED <<pcFiles, pcDesk, pcLog, pcOldS, pcOldR, pcOldLog, pcDaemon, pcFaults,
                   pcPassed, pcTorn, pcSilent>>

\* The candidate is audited in a sandbox of copies; a drift raises.  Then the live texts are
\* kept for the repair.
PcAudit(p) ==
    /\ pcAt[p] = "audit"
    /\ LET r == IF pcSchema[p] THEN pcCandRules[p] ELSE pcRules
       IN IF PcAssert(pcCand[p], r) /\ PcParity(pcCand[p], r)
          THEN /\ pcAt' = [pcAt EXCEPT ![p] = "strategy"]
               /\ pcOldS' = [pcOldS EXCEPT ![p] = pcLive] /\ pcOldR' = [pcOldR EXCEPT ![p] = pcRules]
               /\ pcPassed' = pcPassed \cup {<<pcCand[p], r>>}
               /\ pcTorn' = (pcTorn \/ PcOverlaps(p)) /\ pcSilent' = (pcSilent \/ PcOverlaps(p))
          ELSE /\ pcAt' = [pcAt EXCEPT ![p] = "idle"]
               /\ UNCHANGED <<pcOldS, pcOldR, pcPassed, pcTorn, pcSilent>>
    /\ UNCHANGED <<pcFiles, pcDesk, pcLog, pcCand, pcCandRules, pcSchema, pcOldLog, pcDaemon,
                   pcFaults, pcCommits>>

\* What was read and audited is what is written.
PcWritten(p) == pcCand[p]

\* The validation file follows only when a schema update is allowed.
PcAfter(p) == IF pcSchema[p] THEN "rules" ELSE "log"

PcWriteStrategy(p) ==
    /\ pcAt[p] = "strategy" /\ pcLive' = PcWritten(p)
    /\ pcAt' = [pcAt EXCEPT ![p] = PcAfter(p)]
    /\ UNCHANGED <<pcRules, pcDesk, pcLog, pcWork, pcDaemon, pcFaults, pcCommits, pcPassed, pcTorn,
                   pcSilent>>

PcWriteRules(p) ==
    /\ pcAt[p] = "rules" /\ pcRules' = pcCandRules[p] /\ pcAt' = [pcAt EXCEPT ![p] = "log"]
    /\ UNCHANGED <<pcLive, pcDesk, pcLog, pcWork, pcDaemon, pcFaults, pcCommits, pcPassed, pcTorn,
                   pcSilent>>

\* Only the failed file is put back.
SlipPcRepair(p) == pcRules' = pcOldR[p] /\ UNCHANGED pcLive
\* The handler of a failed write: both texts are put back.
PcRepair(p) == pcLive' = pcOldS[p] /\ (IF pcSchema[p] THEN pcRules' = pcOldR[p] ELSE UNCHANGED pcRules)

\* A write raises before its file is replaced; the repair may raise too.
PcWriteFails(p, repaired) ==
    /\ pcAt[p] \in {"strategy", "rules"} /\ pcFaults < PcMaxFaults /\ pcFaults' = pcFaults + 1
    /\ pcAt' = [pcAt EXCEPT ![p] = "idle"]
    /\ IF repaired THEN PcRepair(p) /\ UNCHANGED pcTorn
       ELSE UNCHANGED pcFiles /\ pcTorn' = TRUE
    /\ pcSilent' = (pcSilent \/ ~repaired)
    /\ UNCHANGED <<pcDesk, pcLog, pcWork, pcDaemon, pcCommits, pcPassed>>

\* _write_change_log_row: the rows are read, and the file replaced.
PcReadLog(p) ==
    /\ pcAt[p] = "log" /\ pcAt' = [pcAt EXCEPT ![p] = "append"]
    /\ pcOldLog' = [pcOldLog EXCEPT ![p] = pcLog]
    /\ UNCHANGED <<pcFiles, pcDesk, pcLog, pcCand, pcCandRules, pcSchema, pcOldS, pcOldR, pcDaemon,
                   pcFaults, pcCommits, pcPassed, pcTorn, pcSilent>>

\* The rows read before, and the new one.
PcRows(p) == pcOldLog[p] \cup {pcCand[p]}

PcAppendLog(p, fails) ==
    /\ pcAt[p] = "append" /\ pcAt' = [pcAt EXCEPT ![p] = "idle"]
    /\ IF fails
       THEN /\ pcFaults < PcMaxFaults /\ pcFaults' = pcFaults + 1
            /\ pcSilent' = TRUE /\ UNCHANGED pcLog
       ELSE pcLog' = PcRows(p) /\ UNCHANGED <<pcFaults, pcSilent>>
    /\ UNCHANGED <<pcFiles, pcDesk, pcWork, pcDaemon, pcCommits, pcPassed, pcTorn>>

PcCrash(p) ==
    /\ pcAt[p] # "idle" /\ pcFaults < PcMaxFaults /\ pcFaults' = pcFaults + 1
    /\ pcAt' = [pcAt EXCEPT ![p] = "idle"]
    /\ pcTorn' = (pcTorn \/ pcAt[p] = "rules")
    /\ pcSilent' = (pcSilent \/ pcAt[p] \in {"rules", "log", "append"})
    /\ UNCHANGED <<pcFiles, pcDesk, pcLog, pcWork, pcDaemon, pcCommits, pcPassed>>

-----------------------------------------------------------------------------
(* The daemon: the audit of the live files gates its start.                *)

PcBoot(remote) ==
    /\ pcRun = "down" /\ PcParity(pcLive, pcRules)
    /\ pcRun' = "up" /\ pcAlert' = remote     \* emit_effective_config_parity: the store says otherwise
    /\ UNCHANGED <<pcFiles, pcDesk, pcLog, pcAt, pcWork, pcFaults, pcCommits, pcPassed, pcTorn, pcSilent>>

PcShutdown ==
    /\ pcRun = "up" /\ pcRun' = "down" /\ pcAlert' = FALSE
    /\ UNCHANGED <<pcFiles, pcDesk, pcLog, pcAt, pcWork, pcFaults, pcCommits, pcPassed, pcTorn, pcSilent>>

PcNext ==
    \/ \E s \in PcStrategies, r \in PcResearch : PcStage(s, r)
    \/ \E p \in PcProcs : PcAudit(p) \/ PcWriteStrategy(p) \/ PcWriteRules(p) \/ PcReadLog(p) \/ PcCrash(p)
    \/ \E p \in PcProcs, b \in BOOLEAN : PcBegin(p, b) \/ PcWriteFails(p, b) \/ PcAppendLog(p, b)
    \/ \E remote \in BOOLEAN : PcBoot(remote)
    \/ PcShutdown

PcSpec == PcInit /\ [][PcNext]_pcVars

-----------------------------------------------------------------------------
\* Types; the rules are written only by a commit whose schema check passed.
PcTypeOK ==
    /\ {pcLive, pcStaged} \cup {pcCand[p] : p \in PcProcs} \subseteq PcStrategies
    /\ {pcRules, pcStagedRules} \subseteq PcResearch /\ pcLog \subseteq PcStrategies
    /\ pcAt \in [PcProcs -> {"idle", "audit", "strategy", "rules", "log", "append"}]
    /\ \A p \in PcProcs : pcAt[p] = "rules" => pcSchema[p]
    /\ pcRun \in {"up", "down"} /\ (pcAlert => pcRun = "up")

\* What the live strategy file says has passed the audit, although the operator may stage
\* another file while a commit is under way (config_engine.py:871-940).
PcAudited == \E pair \in pcPassed : pair[1] = pcLive

\* Between commits the live strategy agrees with the live validation file: a failed second
\* write takes the first one back.  A crash or a failed repair between the two writes, or a
\* second process, breaks it, and nothing else (config_engine.py:929-949).
PcConsistent == (\A p \in PcProcs : ~PcBusy(p)) /\ ~pcTorn => PcParity(pcLive, pcRules)

\* The change log names every commit that took effect, unless its process died, its log write
\* failed or two processes overlapped (config_engine.py:777-830, 950-963).
PcLogged ==
    [][~pcSilent' => /\ pcLog \subseteq pcLog'
                     /\ (\A p \in PcProcs : ~PcBusy(p))' => pcLive' \in pcLog' \cup {PcFirst.s}]_pcVars

\* What a parameter commit promises: what is live was audited, its two files belong together, and the
\* log knows it.
PcCommitsWhole == [](PcTypeOK /\ PcAudited /\ PcConsistent) /\ PcLogged
=============================================================================
