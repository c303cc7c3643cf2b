------------------------------- MODULE Paging -------------------------------
(***************************************************************************)
(* How an alert reaches a phone (src/alerts/): the durable row, the         *)
(* throttle of each process, and behind it email, ntfy under the outbound   *)
(* cap shared by the processes of one host, Telegram and Discord.           *)
(*                                                                          *)
(* Time is counted in ticks, as ages that stop counting once nothing        *)
(* compares them any further, so that nothing bounds how long the system    *)
(* runs.  A call of OutboundCap.allow takes less than a tick.  "page" is    *)
(* an alert of the priority lane, "chat" one of the routine lane.           *)
(***************************************************************************)
EXTENDS Integers, Sequences, FiniteSets

CONSTANTS
    PgProcs,            \* processes on the host
    PgBackoff,          \* _BACKOFF_SCHEDULE_S, in ticks
    PgHour,             \* an hour, in ticks; also the backoff after a 429
    PgDay,              \* a day, in ticks
    PgCap,              \* sends of each lane in an hour
    PgDayCap,           \* sends of the routine lane in a day
    PgMay,              \* the conditions each process watches
    PgMaxFaults         \* bound: database errors, channel outages

PgKinds == {"page", "chat"}

ASSUME PgAssumption ==
    /\ PgBackoff \in Seq(Nat) /\ PgBackoff # <<>> /\ PgCap \in [PgKinds -> Nat]
    /\ {PgHour, PgDay, PgDayCap, PgMaxFaults} \subseteq Nat /\ PgHour <= PgDay /\ PgMay \in [PgProcs -> SUBSET PgKinds]

VARIABLES
    pgBad,        \* conditions that hold, per process
    pgThrottle,   \* ThrottledNotifier._state: ticks since last_sent, sends (0 = no entry)
    pgAt, pgKind, \* the step a process's fan-out is at, and of which lane ("chat" when idle)
    pgRows,       \* alert_channel_sends: rows of each lane by age
    pgLimited,    \* ticks since the last 429 (PgHour = none that counts)
    pgUp,         \* the channels other than ntfy deliver
    pgHeard,      \* the last fan-out of a page by the process reached someone
    pgTurned,     \* why ntfy turned the process's alert away
    pgFaults

pgVars == <<pgBad, pgThrottle, pgAt, pgKind, pgRows, pgLimited, pgUp, pgHeard, pgTurned, pgFaults>>
pgFan == <<pgBad, pgThrottle, pgAt, pgKind, pgRows, pgLimited, pgHeard, pgTurned>>

PgFresh == [age |-> 0, sends |-> 0]
PgWait(sends) == PgBackoff[IF sends < Len(PgBackoff) THEN sends ELSE Len(PgBackoff)]
PgLongest == PgBackoff[Len(PgBackoff)]
\* How far back the rows of a lane are counted.
PgSpan(k) == IF k = "chat" THEN PgDay ELSE PgHour
PgOlder(age, limit) == IF age < limit THEN age + 1 ELSE limit

PgInit ==
    /\ pgBad = [p \in PgProcs |-> {}] /\ pgThrottle = [p \in PgProcs |-> [k \in PgKinds |-> PgFresh]]
    /\ pgAt = [p \in PgProcs |-> "idle"] /\ pgKind = [p \in PgProcs |-> "chat"]
    /\ pgRows = [k \in PgKinds |-> [a \in 0..PgSpan(k) - 1 |-> 0]] /\ pgLimited = PgHour /\ pgUp = TRUE
    /\ pgHeard = [p \in PgProcs |-> FALSE] /\ pgTurned = [p \in PgProcs |-> "no"]
    /\ pgFaults = 0

-----------------------------------------------------------------------------
(* Throttle.                                                               *)

PgArises(p, k) ==
    k \in PgMay[p] \ pgBad[p] /\ pgBad' = [pgBad EXCEPT ![p] = @ \union {k}]
    /\ UNCHANGED <<pgThrottle, pgAt, pgKind, pgRows, pgLimited, pgUp, pgHeard, pgTurned, pgFaults>>

\* ThrottledNotifier.notify: the entry after a poll that found the condition.  It counts as sent
\* before anything is sent.
PgThrottled(p, k) ==
    IF pgThrottle[p][k].sends = 0 \/ pgThrottle[p][k].age >= PgWait(pgThrottle[p][k].sends)
    THEN [age |-> 0, sends |-> IF pgThrottle[p][k].sends < Len(PgBackoff) THEN pgThrottle[p][k].sends + 1 ELSE Len(PgBackoff)]
    ELSE pgThrottle[p][k]

PgPasses(p, k) == pgThrottle[p][k].sends = 0 \/ pgThrottle[p][k].age >= PgWait(pgThrottle[p][k].sends)

\* A poll that finds the condition: CompositeNotifier writes the row (LogNotifier), then asks the throttle.
PgNotify(p, k) ==
    /\ pgAt[p] = "idle" /\ k \in pgBad[p]
    /\ pgThrottle' = [pgThrottle EXCEPT ![p][k] = PgThrottled(p, k)]
    /\ pgAt' = [pgAt EXCEPT ![p] = IF PgPasses(p, k) THEN "count" ELSE "idle"]
    /\ pgKind' = IF PgPasses(p, k) THEN [pgKind EXCEPT ![p] = k] ELSE pgKind
    /\ UNCHANGED <<pgBad, pgRows, pgLimited, pgUp, pgHeard, pgTurned, pgFaults>>

\* The condition clears.  ThrottledNotifier.resolve: the entry goes, and one message, of the routine
\* lane, says so if there was one.
PgResolve(p, k) ==
    /\ pgAt[p] = "idle" /\ k \in pgBad[p] /\ pgBad' = [pgBad EXCEPT ![p] = @ \ {k}]
    /\ pgThrottle' = [pgThrottle EXCEPT ![p][k] = PgFresh]
    /\ pgAt' = [pgAt EXCEPT ![p] = IF pgThrottle[p][k].sends = 0 THEN "idle" ELSE "count"]
    /\ UNCHANGED <<pgKind, pgRows, pgLimited, pgUp, pgHeard, pgTurned, pgFaults>>

-----------------------------------------------------------------------------
(* The outbound cap and the channels.                                      *)

\* _count_since, for a lane
PgCount(k, span) == LET sum[n \in 0..span] == IF n = 0 THEN 0 ELSE pgRows[k][n - 1] + sum[n - 1] IN sum[span]

\* Whether the lane is full
PgFull(k) == PgCount(k, PgHour) >= PgCap[k] \/ (k = "chat" /\ PgCount(k, PgDay) >= PgDayCap)

\* The backoff after a 429 stops every lane.
SlipPgVerdict(k) ==
    IF pgLimited < PgHour THEN "backoff" ELSE IF PgFull(k) THEN "full" ELSE "no"
\* OutboundCap.allow up to its insert
PgVerdict(k) ==
    IF k = "chat" /\ pgLimited < PgHour THEN "backoff" ELSE IF PgFull(k) THEN "full" ELSE "no"

PgAllow(p) ==
    /\ pgAt[p] = "count" /\ pgTurned' = [pgTurned EXCEPT ![p] = PgVerdict(pgKind[p])]
    /\ pgAt' = [pgAt EXCEPT ![p] = IF PgVerdict(pgKind[p]) = "no" THEN "insert" ELSE "others"]
    /\ UNCHANGED <<pgBad, pgThrottle, pgKind, pgRows, pgLimited, pgUp, pgHeard, pgFaults>>

\* ... and the insert: the selects before it hold no lock, the other process may have counted too.
PgInsert(p) ==
    /\ pgAt[p] = "insert" /\ pgRows' = [pgRows EXCEPT ![pgKind[p]][0] = @ + 1]
    /\ pgAt' = [pgAt EXCEPT ![p] = "post"]
    /\ UNCHANGED <<pgBad, pgThrottle, pgKind, pgLimited, pgUp, pgHeard, pgTurned, pgFaults>>

\* A database error in allow lets the alert out unrecorded.
PgFailOpen(p) ==
    /\ pgAt[p] \in {"count", "insert"} /\ pgFaults < PgMaxFaults /\ pgFaults' = pgFaults + 1
    /\ pgAt' = [pgAt EXCEPT ![p] = "post"]
    /\ UNCHANGED <<pgBad, pgThrottle, pgKind, pgRows, pgLimited, pgUp, pgHeard, pgTurned>>

\* NtfyNotifier.notify after the cap: a 429 is noted; nobody knows whether a 200 rang a phone.
PgPost(p, limited) ==
    /\ pgAt[p] = "post" /\ pgAt' = [pgAt EXCEPT ![p] = "others"]
    /\ limited => pgFaults < PgMaxFaults
    /\ pgLimited' = IF limited THEN 0 ELSE pgLimited
    /\ pgFaults' = pgFaults + (IF limited THEN 1 ELSE 0)
    /\ UNCHANGED <<pgBad, pgThrottle, pgKind, pgRows, pgUp, pgHeard, pgTurned>>

\* EmailNotifier.deliver, after its one retry; TelegramNotifier.notify and DiscordNotifier.notify,
\* which take pages only.  None knows the cap, none raises.
PgEmail(k) == pgUp
PgTelegram(k) == k = "page" /\ pgUp
PgDiscord(k) == k = "page" /\ pgUp

PgOthers(p) ==
    /\ pgAt[p] = "others" /\ pgAt' = [pgAt EXCEPT ![p] = "idle"]
    /\ pgHeard' = IF pgKind[p] # "page" THEN pgHeard
                  ELSE [pgHeard EXCEPT ![p] = PgEmail("page") \/ PgTelegram("page") \/ PgDiscord("page")]
    /\ pgKind' = [pgKind EXCEPT ![p] = "chat"] /\ pgTurned' = [pgTurned EXCEPT ![p] = "no"]
    /\ UNCHANGED <<pgBad, pgThrottle, pgRows, pgLimited, pgUp, pgFaults>>

PgOutage(up) ==
    /\ pgUp # up /\ pgUp' = up /\ (up \/ pgFaults < PgMaxFaults) /\ pgFaults' = pgFaults + (IF up THEN 0 ELSE 1)
    /\ UNCHANGED pgFan

-----------------------------------------------------------------------------
\* Time passes when nobody is inside allow.
PgTick ==
    /\ \A p \in PgProcs : pgAt[p] \notin {"count", "insert"}
    /\ pgThrottle' = [p \in PgProcs |-> [k \in PgKinds |->
                        [pgThrottle[p][k] EXCEPT !.age = IF pgThrottle[p][k].sends = 0 THEN 0 ELSE PgOlder(@, PgLongest)]]]
    /\ pgRows' = [k \in PgKinds |-> [a \in 0..PgSpan(k) - 1 |-> IF a = 0 THEN 0 ELSE pgRows[k][a - 1]]]
    /\ pgLimited' = PgOlder(pgLimited, PgHour)
    /\ UNCHANGED <<pgBad, pgAt, pgKind, pgUp, pgHeard, pgTurned, pgFaults>>

PgSteps(p) == PgAllow(p) \/ PgInsert(p) \/ PgPost(p, FALSE) \/ PgOthers(p)

PgNext ==
    \/ \E p \in PgProcs, k \in PgKinds : PgArises(p, k) \/ PgNotify(p, k) \/ PgResolve(p, k)
    \/ \E p \in PgProcs : PgSteps(p) \/ PgPost(p, TRUE) \/ PgFailOpen(p)
    \/ \E up \in BOOLEAN : PgOutage(up)
    \/ PgTick

\* Pollers poll, a fan-out under way goes on, time passes.
PgFair == SF_pgVars(PgTick) /\ \A p \in PgProcs : WF_pgVars(PgSteps(p) \/ PgNotify(p, "page"))

PgSpec == PgInit /\ [][PgNext]_pgVars /\ PgFair

-----------------------------------------------------------------------------
\* Types.
PgTypeOK ==
    /\ pgBad \in [PgProcs -> SUBSET PgKinds] /\ pgAt \in [PgProcs -> {"idle", "count", "insert", "post", "others"}]
    /\ pgThrottle \in [PgProcs -> [PgKinds -> [age : 0..PgLongest, sends : 0..Len(PgBackoff)]]]
    /\ pgKind \in [PgProcs -> PgKinds] /\ pgTurned \in [PgProcs -> {"no", "backoff", "full"}]
    /\ \A k \in PgKinds : pgRows[k] \in [0..PgSpan(k) - 1 -> 0..PgCap[k] + Cardinality(PgProcs)]
    /\ pgLimited \in 0..PgHour /\ pgFaults \in 0..PgMaxFaults

\* Two processes that count at the same time pass the cap of a lane by no more than one send each
\* but one.
PgBounded ==
    /\ \A k \in PgKinds : PgCount(k, PgHour) <= PgCap[k] + Cardinality(PgProcs) - 1
    /\ PgCount("chat", PgDay) <= PgDayCap + Cardinality(PgProcs) - 1

\* Routine chatter, and a 429 it ran into, never keep a page from ntfy: a page is turned away for
\* pages of the last hour alone.
PgLane == \A p \in PgProcs : (pgKind[p] = "page" /\ pgTurned[p] # "no") => pgTurned[p] = "full"

\* A condition of the priority lane that lasts is heard, even when the first sends met channels that
\* were down: the throttle comes back to it for ever.
PgComesBack == \A p \in PgProcs : []<>(pgHeard[p] \/ "page" \notin pgBad[p] \/ ~pgUp)

\* What paging promises: sends stay within the cap but for the named race, chatter cannot close the lane
\* of pages, and a page that keeps coming is heard again.
PgReaches == [](PgTypeOK /\ PgBounded /\ PgLane) /\ PgComesBack
=============================================================================
