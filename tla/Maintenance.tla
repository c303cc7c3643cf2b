---------------------------- MODULE Maintenance ----------------------------
(***************************************************************************)
(* The maintenance scheduler (src/control/maintenance_scheduler.py) and    *)
(* the runbook executor it drives (src/engine/control_plane.py).           *)
(*                                                                         *)
(* A daemon fires its jobs by the clock; an operator may at any time start *)
(* a one-shot process (maintenance-once) for any job.  Each process has a  *)
(* supervisor and a consumption block of its own, in memory; they share    *)
(* the research vault: the job ledger, the champions and their last known  *)
(* good copies.  The live-consumption gate of a trading process reads the  *)
(* ledger, so what a failed readiness run leaves there decides whether the *)
(* strategies may trade.                                                   *)
(***************************************************************************)
EXTENDS Integers, FiniteSets

CONSTANTS
    Symbols,
    Seedable,     \* symbols with baseline parameters
    WithYaml,     \* symbols whose strategy file exists
    Defaults,     \* DEFAULT_AUTO_SEED_SYMBOLS
    YamlBackup,   \* config_version_registry holds a copy of a strategy file
    Daemon,       \* the scheduler daemon
    OneShots,     \* one-shot processes
    OneShotJobs,  \* jobs the operator starts by hand
    Faults,       \* places where the vault, a worker or the pager may raise
    MaxFaults     \* bound: exceptions and process deaths explored

Procs == {Daemon} \cup OneShots
Jobs == {"pre_open", "post_close", "tuner", "policy"}
NoJob == "none"

ASSUME MaintenanceAssumption ==
    /\ Daemon \notin OneShots
    /\ Seedable \subseteq Symbols /\ WithYaml \subseteq Symbols
    /\ Defaults \subseteq Symbols
    /\ YamlBackup \in BOOLEAN
    /\ OneShotJobs \subseteq Jobs
    /\ Faults \subseteq {"seed", "audit", "snapshot", "worker", "restore",
                         "record", "alert", "crash"}
    /\ MaxFaults \in Nat

VARIABLES
    sup,       \* sup[p]: ControlPlaneSupervisor._state
    blocked,   \* blocked[p]: _consumption_blocked
    pc,        \* pc[p]: where p is in the run
    job,       \* job[p]: the job p runs
    pay,       \* pay[p]: the payload the worker returned
    raised,    \* raised[p]: p is in the except branch of execute_runbook
    tried,     \* tried[p]: the symbols p's restore found safe to re-stamp
    scope,     \* scope[p]: the symbols p's restore looked at (history)
    slot,      \* the last scheduled minute that came: 08:30 or 16:30
    stamped,   \* its job is in _last_fired for the day, or was missed
    row,       \* row[j]: ledger row of a job the gate reads
    age,       \* age[s]: freshness of s's champion, or "absent"
    origin,    \* origin[s]: by run_id, "baseline" or "tuned"
    lkg,       \* lkg[s]: origin of the last known good copy, or "none"
    enabled,   \* the enabled readiness legs of the configuration
    verdict,   \* outcome of the latest readiness run (history)
    unsaved,   \* that outcome never reached the ledger (history)
    faults     \* exceptions and process deaths so far

champions == <<age, origin, lkg>>
memory == <<sup, blocked>>
run == <<pc, job, pay, raised, tried, scope>>
clock == <<slot, stamped>>
history == <<verdict, unsaved>>
vars == <<sup, blocked, pc, job, pay, raised, tried, scope, slot, stamped, row,
          age, origin, lkg, enabled, verdict, unsaved, faults>>

-----------------------------------------------------------------------------
(* Exceptions, counted against the bound.                                  *)

NoFault == UNCHANGED faults
Fault(place) ==
    /\ place \in Faults /\ faults < MaxFaults
    /\ faults' = faults + 1

-----------------------------------------------------------------------------
(* The gate and the champions.                                             *)

\* live_consumption_gate: only the critical jobs' rows count.
Ledger == {"tuner", "pre_open"}
SlipCritical == {"tuner"}
Critical == {"tuner", "pre_open"}

LedgerPasses == \A j \in Critical : row[j] # "failed"
Gate(p) == ~blocked[p] /\ LedgerPasses

\* RUNBOOK_RESTORE_ON_FAILURE.
SlipRestores(j) == j = "tuner"
Restores(j) == j \in {"pre_open", "tuner"}

ReadinessSymbols == IF enabled = {} THEN Defaults ELSE enabled

\* auto_seed_baseline_champions_if_needed (external): a missing champion with
\* baseline parameters is stamped fresh, and recorded as last known good.
Missing(S) == {s \in S \cap Seedable : age[s] = "absent"}

\* champion_restore_is_baseline_safe (external).
BaselineSafe(s) == age[s] = "absent" \/ origin[s] = "baseline"
Restorable(S) == {s \in S : BaselineSafe(s)}

\* Seed the missing among S, then copy the fresh ones of known to the LKG.
Refresh(seeded, known) ==
    /\ age' = [s \in Symbols |-> IF s \in seeded THEN "fresh" ELSE age[s]]
    /\ origin' = [s \in Symbols |-> IF s \in seeded THEN "baseline" ELSE origin[s]]
    /\ lkg' = [s \in Symbols |-> IF s \in seeded \cup known THEN origin'[s] ELSE lkg[s]]

Promote(S) ==
    /\ age' = [s \in Symbols |-> IF s \in S THEN "fresh" ELSE age[s]]
    /\ origin' = [s \in Symbols |-> IF s \in S THEN "tuned" ELSE origin[s]]
    /\ UNCHANGED lkg

Payload == [ready: BOOLEAN, symbols: SUBSET Symbols, seeded: SUBSET Symbols,
            stale: SUBSET Symbols, audited: BOOLEAN]
NoPayload == [ready |-> FALSE, symbols |-> {}, seeded |-> {}, stale |-> {},
              audited |-> TRUE]
\* Of the other jobs' payloads only the validator's opinion matters.
Opinion(ok) == [NoPayload EXCEPT !.ready = ok]

\* _validate_pre_open_payload.
Valid(pl) == pl.ready /\ pl.stale \subseteq pl.seeded

-----------------------------------------------------------------------------
(* Starting a run.                                                         *)

\* run_daemon: assert_readiness_lkg_present heals what it can and refuses to
\* start with a leg that has no last known good champion.
Boot ==
    /\ pc[Daemon] = "off"
    /\ LET S == ReadinessSymbols IN
         \/ NoFault /\ Refresh(Missing(S), {s \in S : age[s] = "fresh"})
         \/ Fault("seed") /\ UNCHANGED champions
         \/ Fault("audit") /\ Refresh(Missing(S), {})
    /\ LET up == \A s \in ReadinessSymbols : lkg'[s] # "none" IN
         /\ pc' = [pc EXCEPT ![Daemon] = IF up THEN "ready" ELSE "off"]
         /\ sup' = [sup EXCEPT ![Daemon] = IF up THEN "running" ELSE "inactive"]
    /\ UNCHANGED <<blocked, job, pay, raised, tried, scope, clock, row,
                   enabled, history>>

\* execute_runbook up to the await of the worker.
Enter(p, j) ==
    /\ pc' = [pc EXCEPT ![p] = "work"]
    /\ job' = [job EXCEPT ![p] = j]
    /\ raised' = [raised EXCEPT ![p] = FALSE]

\* tick: the daemon carries the operational jobs, each once in its minute.
DaemonJobs == {"pre_open", "post_close"}
SlotOf(j) == IF j = "pre_open" THEN "08:30" ELSE "16:30"
Due(j) == pc[Daemon] = "ready" /\ slot = SlotOf(j) /\ ~stamped
Fire(j) ==
    /\ Due(j)
    /\ Enter(Daemon, j)
    /\ UNCHANGED <<memory, pay, tried, scope, clock, row, champions, enabled,
                   history, faults>>

\* cmd_maintenance_once: a new process, started without the pre-flight.  Under
\* RESEARCH_HALT a tuner or policy run ends at once: as if it was not started.
Once(p, j) ==
    /\ p \in OneShots /\ pc[p] = "off"
    /\ Enter(p, j)
    /\ sup' = [sup EXCEPT ![p] = "running"]
    /\ UNCHANGED <<blocked, pay, tried, scope, clock, row, champions,
                   enabled, history, faults>>

-----------------------------------------------------------------------------
(* The workers.  Each runs in a thread or a subprocess; its payload is     *)
(* judged later, when other processes may have moved on.                   *)

Working(p) == pc[p] \in {"work", "rework"}

Deliver(p, payload) ==
    /\ pay' = [pay EXCEPT ![p] = payload]
    /\ pc' = [pc EXCEPT ![p] = IF @ = "work" THEN "judge" ELSE "rejudge"]
    /\ UNCHANGED <<job, raised, tried, scope>>

\* The except branch starts from a payload of its own.
Drop(p) ==
    /\ pay' = [pay EXCEPT ![p] = NoPayload]
    /\ tried' = [tried EXCEPT ![p] = {}]
    /\ scope' = [scope EXCEPT ![p] = {}]

Throw(p) ==
    /\ pc' = [pc EXCEPT ![p] = "except"]
    /\ raised' = [raised EXCEPT ![p] = TRUE]
    /\ Drop(p)
    /\ UNCHANGED job

\* _run_pre_open_checks: seed, audit, copy the fresh champions, check files.
\* A failed audit reports every leg stale; a failed copy is only logged.
PreOpenWork(p) ==
    /\ Working(p) /\ job[p] = "pre_open"
    /\ LET seeded == Missing(enabled)
           stale == {s \in enabled : age[s] # "fresh"}
           ready == enabled # {} /\ enabled \subseteq WithYaml
           Report(sd, st, ok) ==
             Deliver(p, [ready |-> ready, symbols |-> enabled, seeded |-> sd,
                         stale |-> st, audited |-> ok])
       IN \/ /\ NoFault
             /\ Refresh(seeded, enabled \ stale)
             /\ Report(seeded, stale \ seeded, TRUE)
          \/ /\ Fault("seed")
             /\ Refresh({}, enabled \ stale)
             /\ Report({}, stale, TRUE)
          \/ /\ Fault("audit")
             /\ Refresh(seeded, {})
             /\ Report(seeded, enabled, FALSE)
          \/ /\ Fault("snapshot")
             /\ Refresh(seeded, {})
             /\ Report(seeded, stale \ seeded, TRUE)
          \/ /\ Fault("worker")  \* the alignment check comes last
             /\ Refresh(seeded, enabled \ stale) \/ UNCHANGED champions
             /\ Throw(p)
    /\ UNCHANGED <<memory, clock, row, enabled, history>>

\* The tuner may promote a champion of an enabled leg, the sweep that post-close
\* forces one of any leg that has a champion; any of the three workers may
\* report a result its validator refuses, or raise.
Promotable(j) ==
    CASE j = "tuner" -> enabled
      [] j = "post_close" -> {s \in Symbols : age[s] # "absent"}
      [] OTHER -> {}

ResearchWork(p) ==
    /\ Working(p) /\ job[p] \in {"post_close", "tuner", "policy"}
    /\ \E S \in SUBSET Promotable(job[p]) : Promote(S)
    /\ \/ NoFault /\ \E ok \in BOOLEAN : Deliver(p, Opinion(ok))
       \/ Fault("worker") /\ Throw(p)
    /\ UNCHANGED <<memory, clock, row, enabled, history>>

-----------------------------------------------------------------------------
(* The rest of execute_runbook.                                            *)

Stamped(p, outcome) ==
    IF job[p] = "pre_open" THEN verdict' = outcome ELSE UNCHANGED verdict

\* _record_job.
Record(p, outcome) ==
    /\ row' = [j \in Ledger |-> IF j = job[p] THEN outcome ELSE row[j]]
    /\ Stamped(p, outcome)
    /\ unsaved' = (unsaved /\ job[p] # "pre_open")

Unrecorded(p) ==
    /\ UNCHANGED row
    /\ Stamped(p, "failed")
    /\ unsaved' = (unsaved \/ job[p] = "pre_open")

\* The handler returned, or the exception left it: the daemon waits for its
\* next poll, a one-shot stops its supervisor and ends.
Leave(p) ==
    /\ pc' = [pc EXCEPT ![p] = IF p = Daemon THEN "ready" ELSE "off"]
    /\ job' = [job EXCEPT ![p] = NoJob]
    /\ raised' = [raised EXCEPT ![p] = FALSE]
    /\ Drop(p)

\* The supervisor and the block of a process that ends are forgotten.
Remember(p, state, block) ==
    /\ sup' = [sup EXCEPT ![p] = state]
    /\ blocked' = [blocked EXCEPT ![p] = block]
Forget(p) == Remember(p, "inactive", FALSE)

\* tick stamps _last_fired when the handler returned.
Stamp(p) == stamped' = (stamped \/ p = Daemon) /\ UNCHANGED slot

\* An exception inside the try goes to the except branch; one inside the
\* except branch leaves the handler, and tick does not stamp the job: it fires
\* again, unless the run outlasted its minute.
MayMiss(p) ==
    /\ stamped' \in {stamped, stamped \/ (p = Daemon /\ raised[p])}
    /\ UNCHANGED slot
Handle(p) ==
    IF raised[p]
      THEN Leave(p) /\ IF p = Daemon THEN UNCHANGED memory ELSE Forget(p)
      ELSE Throw(p) /\ UNCHANGED memory

\* The validator accepts: release, recover, record.
Succeed(p) ==
    /\ pc[p] \in {"judge", "rejudge"} /\ Valid(pay[p])
    /\ \/ /\ NoFault
          /\ Record(p, "passed") /\ Leave(p) /\ Stamp(p)
          /\ IF p = Daemon THEN Remember(p, "running", FALSE) ELSE Forget(p)
       \/ /\ Fault("record")
          /\ Throw(p) /\ Remember(p, "running", FALSE)
          /\ UNCHANGED <<row, history, clock>>
    /\ UNCHANGED <<champions, enabled>>

\* The validator refused, or the try raised, for the first time: restore where
\* the job asks for it.  Else, or after the re-run: fail.
Lost(p) == pc[p] = "except" \/ (pc[p] = "judge" /\ ~Valid(pay[p]))
MustRestore(p) == Lost(p) /\ Restores(job[p])
MustFail(p) ==
    \/ pc[p] = "fail"
    \/ pc[p] = "rejudge" /\ ~Valid(pay[p])
    \/ Lost(p) /\ ~Restores(job[p])

RestoreRaises(p) ==
    /\ Fault("restore")
    /\ Handle(p) /\ MayMiss(p)
    /\ IF raised[p] THEN Unrecorded(p) ELSE UNCHANGED <<row, history>>

\* _restore_last_known_good_configs reads which champions it may touch ...
RestoreRead(p) ==
    /\ MustRestore(p)
    /\ \/ /\ NoFault
          /\ pc' = [pc EXCEPT ![p] = "restamp"]
          /\ scope' = [scope EXCEPT ![p] = ReadinessSymbols]
          /\ tried' = [tried EXCEPT ![p] = Restorable(ReadinessSymbols)]
          /\ UNCHANGED <<memory, job, pay, raised, clock, row, history>>
       \/ RestoreRaises(p)
    /\ UNCHANGED <<champions, enabled>>

\* ... and re-stamps those with a copy, keeping the copy's run_id.  Then it puts
\* back the strategy files, where it may raise as well.
Restamp(p) ==
    /\ pc[p] = "restamp"
    /\ LET back == {s \in tried[p] : lkg[s] # "none"} IN
         /\ age' = [s \in Symbols |-> IF s \in back THEN "fresh" ELSE age[s]]
         /\ origin' = [s \in Symbols |-> IF s \in back THEN lkg[s] ELSE origin[s]]
         /\ \/ /\ NoFault
               /\ pc' = [pc EXCEPT ![p] =
                    IF ~raised[p] /\ (back # {} \/ YamlBackup) THEN "rework" ELSE "fail"]
               /\ tried' = [tried EXCEPT ![p] = {}]
               /\ UNCHANGED <<memory, job, pay, raised, scope, clock, row, history>>
            \/ RestoreRaises(p)
    /\ UNCHANGED <<lkg, enabled>>

\* Block, degrade, record the failure; then the page is awaited.
Fail(p) ==
    /\ MustFail(p)
    /\ \/ /\ NoFault
          /\ Remember(p, "degraded", TRUE) /\ Record(p, "failed")
          /\ pc' = [pc EXCEPT ![p] = "alert"]
          /\ Drop(p)
          /\ UNCHANGED <<job, raised, clock>>
       \/ /\ Fault("record") /\ Unrecorded(p) /\ MayMiss(p)
          /\ IF raised[p]
               THEN /\ Leave(p)
                    /\ IF p = Daemon THEN Remember(p, "degraded", TRUE) ELSE Forget(p)
               ELSE Throw(p) /\ Remember(p, "degraded", TRUE)
    /\ UNCHANGED <<champions, enabled>>

Alert(p) ==
    /\ pc[p] = "alert"
    /\ \/ /\ NoFault
          /\ Leave(p) /\ Stamp(p)
          /\ IF p = Daemon THEN UNCHANGED memory ELSE Forget(p)
       \/ Fault("alert") /\ Handle(p) /\ MayMiss(p)
    /\ UNCHANGED <<row, champions, enabled, history>>

-----------------------------------------------------------------------------
(* The environment.                                                        *)

Crash(p) ==
    /\ Fault("crash") /\ pc[p] # "off"
    /\ pc' = [pc EXCEPT ![p] = "off"]
    /\ job' = [job EXCEPT ![p] = NoJob]
    /\ raised' = [raised EXCEPT ![p] = FALSE]
    /\ Drop(p)
    /\ Forget(p)
    /\ stamped' = (stamped /\ p # Daemon)
    /\ UNCHANGED <<slot, row, champions, enabled, history>>

\* A waiting daemon polls twice in every minute, so a job's minute passes only
\* when the job has run or the daemon is down.  The two minutes are eight hours
\* apart: that a run ends before the next one is an assumption.
TimePasses ==
    /\ pc[Daemon] \in {"off", "ready"} /\ \A j \in DaemonJobs : ~Due(j)
    /\ slot' = IF slot = "08:30" THEN "16:30" ELSE "08:30"
    /\ stamped' = FALSE
    /\ UNCHANGED <<memory, run, row, champions, enabled, history, faults>>

\* CHAMPION_STALENESS_MAX_DAYS pass: no run lasts that long.
Age(s) ==
    /\ age[s] = "fresh" /\ \A p \in Procs : pc[p] \in {"off", "ready"}
    /\ age' = [age EXCEPT ![s] = "stale"]
    /\ UNCHANGED <<memory, run, clock, row, origin, lkg, enabled, history,
                   faults>>

Reconfigure(S) ==
    /\ S # enabled /\ enabled' = S
    /\ UNCHANGED <<memory, run, clock, row, champions, history,
                   faults>>

-----------------------------------------------------------------------------
Init ==
    /\ sup = [p \in Procs |-> "inactive"]
    /\ blocked = [p \in Procs |-> FALSE]
    /\ pc = [p \in Procs |-> "off"]
    /\ job = [p \in Procs |-> NoJob]
    /\ pay = [p \in Procs |-> NoPayload]
    /\ raised = [p \in Procs |-> FALSE]
    /\ tried = [p \in Procs |-> {}]
    /\ scope = [p \in Procs |-> {}]
    /\ slot = "16:30" /\ stamped = FALSE
    /\ row = [j \in Ledger |-> "absent"]
    /\ age = [s \in Symbols |-> "absent"]
    /\ origin = [s \in Symbols |-> "baseline"]
    /\ lkg = [s \in Symbols |-> "none"]
    /\ enabled \in SUBSET Symbols
    /\ verdict = "none" /\ unsaved = FALSE
    /\ faults = 0

Step(p) ==
    \/ PreOpenWork(p) \/ ResearchWork(p)
    \/ Succeed(p) \/ RestoreRead(p) \/ Restamp(p) \/ Fail(p) \/ Alert(p)

Next ==
    \/ Boot
    \/ \E j \in DaemonJobs : Fire(j)
    \/ \E p \in OneShots, j \in OneShotJobs : Once(p, j)
    \/ \E p \in Procs : Step(p) \/ Crash(p)
    \/ TimePasses
    \/ \E s \in Symbols : Age(s)
    \/ \E S \in SUBSET Symbols : Reconfigure(S)

Spec == Init /\ [][Next]_vars

\* The service manager restarts the daemon, the event loop runs what is due,
\* time passes, and workers and pages end.  The last is assumed: the forced
\* sweep and the policy optimiser are subprocesses without a timeout.
FairSpec ==
    /\ Spec
    /\ WF_vars(Boot) /\ WF_vars(TimePasses)
    /\ WF_vars(\E j \in DaemonJobs : Fire(j))
    /\ \A p \in Procs : WF_vars(Step(p))

-----------------------------------------------------------------------------
(* Properties.                                                             *)

\* The supervisor is runnable throughout a run (so none of its transitions is
\* illegal), and every other variable stays in its range.
TypeOK ==
    /\ sup \in [Procs -> {"inactive", "running", "degraded"}]
    /\ \A p \in Procs : pc[p] # "off" <=> sup[p] # "inactive"
    /\ blocked \in [Procs -> BOOLEAN]
    /\ pc \in [Procs -> {"off", "ready", "work", "judge", "restamp", "rework",
                        "rejudge", "fail", "except", "alert"}]
    /\ job \in [Procs -> Jobs \cup {NoJob}]
    /\ \A p \in Procs : pc[p] \notin {"off", "ready"} => job[p] \in Jobs
    /\ pay \in [Procs -> Payload]
    /\ raised \in [Procs -> BOOLEAN]
    /\ tried \in [Procs -> SUBSET Symbols] /\ scope \in [Procs -> SUBSET Symbols]
    /\ slot \in {"08:30", "16:30"} /\ stamped \in BOOLEAN
    /\ row \in [Ledger -> {"absent", "passed", "failed"}]
    /\ age \in [Symbols -> {"absent", "fresh", "stale"}]
    /\ origin \in [Symbols -> {"baseline", "tuned"}]
    /\ lkg \in [Symbols -> {"none", "baseline", "tuned"}]
    /\ enabled \subseteq Symbols
    /\ verdict \in {"none", "passed", "failed"} /\ unsaved \in BOOLEAN
    /\ faults \in 0..MaxFaults

\* A leg is ready only on a fresh champion: when a readiness run passes, every
\* leg it looked at still has one, whatever the other processes did between
\* the audit and the validator.
PassedMeansFresh ==
    [][\A p \in Procs : Succeed(p) /\ job[p] = "pre_open" =>
         \A s \in pay[p].symbols : age[s] = "fresh"]_vars

\* "NEVER auto-restamp a NON-baseline (real tuned) stale champion": such a
\* champion becomes fresh through a tuner or a forced sweep only.
NoLaundering ==
    [][\A s \in Symbols :
         age[s] = "stale" /\ origin[s] = "tuned" /\ age'[s] = "fresh" =>
           \E p \in Procs : ResearchWork(p)]_vars

\* The incident of 2026-08-07: a stale baseline champion with a copy is healed
\* in the cycle that finds it.  After the one restore a run is still refused
\* for legs the restore must not touch or has no copy of, and for no other; a
\* run that fails without the re-run leaves no leg stale that it could heal.
HealsInCycle ==
    \A p \in Procs :
      /\ job[p] = "pre_open" /\ pay[p].audited
      /\ pc[p] = "rejudge" \/ (pc[p] = "fail" /\ ~raised[p])
      => \A s \in pay[p].stale \cap scope[p] :
           \/ origin[s] = "tuned" \/ lkg[s] = "none"
           \/ pc[p] = "fail" /\ age[s] = "fresh"

\* A failed readiness holds: once it is in the ledger the gate of no process
\* opens again - not by another job's success, a restart or a one-shot that
\* ends - before a readiness run passes.
GateIsEarned ==
    [][\A p \in Procs :
         ~Gate(p) /\ Gate(p)' /\ verdict = "failed" /\ ~unsaved =>
           verdict' = "passed"]_vars

\* The gate is not frozen for ever: with a fixed set of legs, each on a
\* baseline champion with a copy and a strategy file, and no failed tuner
\* run in the ledger, the gate of a process without a block of its own opens
\* again and again, however often the champions go stale.
Healable(S) ==
    /\ enabled = S /\ S # {} /\ S \subseteq WithYaml
    /\ \A s \in S : origin[s] = "baseline" /\ lkg[s] # "none"
    /\ row["tuner"] # "failed"
FreezeThaws ==
    \A S \in SUBSET Symbols : <>[]Healable(S) => []<>LedgerPasses

\* What the runbooks promise of readiness: a passed run saw fresh champions, no tuned champion was
\* re-stamped, what could be healed was, and a recorded failure holds until a run passes.
ReadinessHolds ==
    [](TypeOK /\ HealsInCycle) /\ PassedMeansFresh /\ NoLaundering /\ GateIsEarned
=============================================================================
