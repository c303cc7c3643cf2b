------------------------------ MODULE DeadMan ------------------------------
(***************************************************************************)
(* The dead-man switch (src/control/alerts.py): the trading loop leaves a   *)
(* heartbeat after every clean cycle, a monitor thread compares its age     *)
(* with twice the cycle time, and dispatch_critical_page logs the incident  *)
(* and calls a webhook, at most once per cooldown.                          *)
(*                                                                          *)
(* Time is counted in ticks, as ages that stop counting once nothing        *)
(* compares them any further.  The monitor checks once a tick.              *)
(***************************************************************************)
EXTENDS Integers

CONSTANTS
    DmCycleTime,        \* cycle_interval_seconds, in ticks
    DmCooldown,         \* DEFAULT_PAGE_COOLDOWN_SECONDS, in ticks
    DmMaxFaults         \* bound: errors of the database, outages of the webhook, restarts

ASSUME DmAssumption == {DmCycleTime, DmCooldown} \subseteq Nat \ {0} /\ DmMaxFaults \in Nat

\* DEAD_MAN_CYCLE_MULTIPLIER and the grace for a heartbeat that was never written
DmStaleAfter == 2 * DmCycleTime
DmGrace == 3 * DmCycleTime
\* Nothing tells two ages above this apart.
DmOld == DmGrace + 2 * DmCooldown + 2

VARIABLES
    dmWritten,    \* the heartbeat row exists
    dmBeat,       \* ticks since the last heartbeat
    dmSince,      \* ticks since the process started its monitor
    dmHost,       \* ticks since the host booted: time.monotonic()
    dmPaged,      \* ticks since the last page of this process (DmOld = none)
    dmHeard,      \* ticks since the webhook last took one
    dmDue,        \* ticks the switch has been due: stale, with the monitor running
    dmMonitor,    \* the monitor thread lives
    dmChecked,    \* it has looked in this tick
    dmNet,        \* the webhook answers
    dmFaults

dmVars == <<dmWritten, dmBeat, dmSince, dmHost, dmPaged, dmHeard, dmDue, dmMonitor, dmChecked, dmNet, dmFaults>>
dmAges == <<dmWritten, dmBeat, dmSince, dmHost>>

DmOlder(age) == IF age < DmOld THEN age + 1 ELSE DmOld
DmFault == dmFaults < DmMaxFaults /\ dmFaults' = dmFaults + 1

DmInit ==
    /\ dmWritten = FALSE /\ dmBeat = 0 /\ dmSince = 0 /\ dmHost \in {0, DmOld} /\ dmPaged = DmOld /\ dmHeard = DmOld
    /\ dmDue = 0 /\ dmMonitor = TRUE /\ dmChecked = FALSE /\ dmNet = TRUE /\ dmFaults = 0

-----------------------------------------------------------------------------
\* record_successful_cycle_heartbeat
DmRecord ==
    /\ (~dmWritten \/ dmBeat # 0) /\ dmWritten' = TRUE /\ dmBeat' = 0 /\ dmDue' = 0
    /\ UNCHANGED <<dmSince, dmHost, dmPaged, dmHeard, dmMonitor, dmChecked, dmNet, dmFaults>>

\* is_dead_man_stale, with heartbeat_age_seconds
DmIsStale == IF dmWritten THEN dmBeat > DmStaleAfter ELSE dmSince > DmGrace

\* No page yet counts as one just now.
SlipDmCool == dmPaged \in {DmOld} \union 0..DmCooldown - 1
\* dispatch_critical_page: within the cooldown.  Where there was no page yet, last_sent is 0.0, and
\* what is compared is the time since the host booted.
DmCool == IF dmPaged = DmOld THEN dmHost < DmCooldown ELSE dmPaged < DmCooldown
\* The time dispatch_critical_page keeps, before anything is logged or sent
DmStamp == IF DmIsStale /\ ~DmCool THEN 0 ELSE dmPaged

\* evaluate_dead_man_once, with _blocking_webhook_post, which never raises.
DmEvaluate ==
    /\ dmMonitor /\ ~dmChecked /\ dmChecked' = TRUE
    /\ dmPaged' = DmStamp /\ dmHeard' = IF DmIsStale /\ ~DmCool /\ dmNet THEN 0 ELSE dmHeard
    /\ UNCHANGED <<dmAges, dmDue, dmMonitor, dmNet, dmFaults>>

\* An error of the database, in the read of the heartbeat or in log_system_event, ends the thread:
\* _monitor_loop catches nothing.
DmEvaluateFails(stamped) ==
    /\ dmMonitor /\ ~dmChecked /\ DmFault /\ dmMonitor' = FALSE /\ dmDue' = 0
    /\ dmPaged' = IF stamped THEN DmStamp ELSE dmPaged
    /\ UNCHANGED <<dmAges, dmHeard, dmChecked, dmNet>>

\* A stop and a start, of the process or of the host: the row stays, what was paged is forgotten.
DmRestart(host) ==
    /\ DmFault /\ dmSince' = 0 /\ dmHost' = (IF host THEN 0 ELSE dmHost) /\ dmPaged' = DmOld /\ dmDue' = 0
    /\ dmMonitor' = TRUE /\ dmChecked' = FALSE
    /\ UNCHANGED <<dmWritten, dmBeat, dmHeard, dmNet>>

DmWebhook(up) ==
    /\ dmNet # up /\ dmNet' = up /\ IF up THEN UNCHANGED dmFaults ELSE DmFault
    /\ UNCHANGED <<dmAges, dmPaged, dmHeard, dmDue, dmMonitor, dmChecked>>

\* A tick ends when the monitor has looked.  The age of a page stands still once it is past
\* the cooldown.
DmTick ==
    /\ dmMonitor => dmChecked
    /\ dmChecked' = FALSE /\ dmBeat' = (IF dmWritten THEN DmOlder(dmBeat) ELSE 0)
    /\ dmSince' = DmOlder(dmSince) /\ dmHost' = DmOlder(dmHost)
    /\ dmPaged' = (IF dmPaged < DmCooldown THEN dmPaged + 1 ELSE dmPaged)
    /\ dmHeard' = (IF dmHeard < DmCooldown + 1 THEN dmHeard + 1 ELSE DmOld)
    /\ dmDue' = (IF dmMonitor /\ DmIsStale THEN DmOlder(dmDue) ELSE 0)
    /\ UNCHANGED <<dmWritten, dmMonitor, dmNet, dmFaults>>

DmNext ==
    \/ DmRecord \/ DmEvaluate \/ DmTick
    \/ \E b \in BOOLEAN : DmEvaluateFails(b) \/ DmRestart(b) \/ DmWebhook(b)

\* The monitor sleeps a bounded time between checks, and time passes.
DmFair == WF_dmVars(DmEvaluate) /\ WF_dmVars(DmTick)
DmSpec == DmInit /\ [][DmNext]_dmVars /\ DmFair

-----------------------------------------------------------------------------
\* Types.
DmTypeOK ==
    /\ {dmWritten, dmMonitor, dmChecked, dmNet} \subseteq BOOLEAN
    /\ {dmBeat, dmSince, dmHost, dmDue} \subseteq 0..DmOld
    /\ dmPaged \in 0..DmCooldown \union {DmOld} /\ dmHeard \in 0..DmCooldown + 1 \union {DmOld}
    /\ dmFaults \in 0..DmMaxFaults

\* A monitor that runs over a heartbeat that stays stale has paged by the end of one cooldown, also
\* on a host that has just booted, and again in every cooldown after.
DmPagesInTime == dmDue > DmCooldown => dmPaged <= DmCooldown

\* A webhook that comes back is called again for a switch that is still due: what the first call
\* lost is not the last word.
DmInsists == []<>(dmHeard = 0 \/ ~DmIsStale \/ ~dmMonitor \/ ~dmNet)

\* What the dead-man switch promises: silence is paged in time and paged again while it lasts.
DmWatches == [](DmTypeOK /\ DmPagesInTime) /\ DmInsists
=============================================================================
