----------------------------- MODULE CommandBus -----------------------------
(***************************************************************************)
(* The persistent control-command bus (src/control/command_queue.py) and   *)
(* the threads that drain it.  A command is a row in the Supabase table    *)
(* ("remote"), in the bot's own SQLite file ("local"), or in both under    *)
(* one command_id.  The control API enqueues; the emergency listener and   *)
(* the orchestrator's cycle (external: it is not published) fetch, claim,  *)
(* run and terminal-mark.                                                  *)
(*                                                                         *)
(* A command is a natural number, its rank by created_at, because the      *)
(* fetches order by created_at and cut at a limit.  Every network round    *)
(* trip is a step of its own, so that the two consumers interleave between *)
(* the calls of one try_claim_command.  A round trip can fail in two ways: *)
(* the request never arrives (FaultPoints) or it is applied and the answer *)
(* is lost (LostPoints); the code sees the same exception.                 *)
(***************************************************************************)
EXTENDS Integers, FiniteSets

CONSTANTS
    Commands,     \* command ids, numbered in created_at order
    Consumers,    \* the threads that claim commands
    Listener,     \* the consumer that only takes emergency commands
    Emergency,    \* FLATTEN_AND_HALT and ENGAGE_KILL_SWITCH commands
    Probes,       \* commands that carry expires_at
    Keys,         \* idempotency keys
    KeyOf,        \* idempotency key of each command
    Configured,   \* get_supabase() returns a client
    FaultPoints,  \* calls that may raise without taking effect
    LostPoints,   \* remote calls that may raise after taking effect
    Mirroring,    \* mirror_local_commands_to_supabase is run
    Cap,          \* the limit of a fetch
    MaxAttempts,  \* MAX_RECLAIM_ATTEMPTS
    MaxCrashes    \* bound: process deaths explored

ASSUME BusAssumption ==
    /\ Commands \subseteq Nat
    /\ Emergency \subseteq Commands
    /\ Probes \subseteq Commands
    /\ Emergency \cap Probes = {}  \* enqueue_control_command_local raises
    /\ Listener \in Consumers
    /\ KeyOf \in [Commands -> Keys]
    /\ Configured \in BOOLEAN
    /\ FaultPoints \subseteq {"insert", "fetch", "cas", "select", "mark", "sqlite"}
    /\ LostPoints \subseteq {"insert", "cas"}
    /\ Mirroring \in BOOLEAN
    /\ Cap \in Nat \ {0}
    /\ MaxAttempts \in Nat
    /\ MaxCrashes \in Nat

VARIABLES
    remote,    \* remote[c]: status of c's Supabase row, or "absent"
    local,     \* local[c]: status of c's SQLite row, or "absent"
    attempts,  \* attempts[c]: reclaim attempts recorded in the local row
    request,   \* request[c]: progress of the request that enqueues c
    pc,        \* pc[w]: where consumer w is in its poll
    cmd,       \* cmd[w]: the command w is trying to claim
    batch,     \* batch[w]: fetched commands w has still to try
    job,       \* job[w][c]: what w still has to do for c after claiming it
    mirror,    \* the local rows the running mirror pass has read
    runs,      \* runs[c]: how often c's effect was applied (history)
    aged,      \* commands created more than older_than_minutes ago
    expired,   \* commands past their expires_at
    bot,       \* the trading process: "up", "down" or "booting"
    crashes    \* process deaths so far

rows == <<remote, local, attempts>>
work == <<pc, cmd, batch, job>>
time == <<aged, expired>>
vars == <<remote, local, attempts, request, pc, cmd, batch, job, mirror,
          runs, aged, expired, bot, crashes>>

Terminal == {"completed", "failed"}
Status == {"absent", "pending", "processing"} \cup Terminal
JobState == {"none", "claimed", "dispatched", "completed", "failed",
             "completedLocal", "failedLocal"}
ClaimPc == {"idle", "next", "cas", "drive", "select", "localcas"}
NoCommand == -1

NoJobs == [c \in Commands |-> "none"]
Owners(c) == {w \in Consumers : job[w][c] # "none"}

-----------------------------------------------------------------------------
(* A remote call either answers, faults before it is applied, or loses its *)
(* answer after it is applied.                                             *)

Faults(point) == Configured /\ point \in FaultPoints
LosesAnswer(point) == Configured /\ point \in LostPoints

-----------------------------------------------------------------------------
(* The decisions the steps below turn on, each preceded by a plausible *)
(* slip in its place (Slip...: used only for mutation).                    *)

\* A row of the command in Supabase makes Supabase the owner of the claim.
SlipSupabaseOwned(c) == remote[c] = "pending"
SupabaseOwned(c) == remote[c] # "absent"

\* _mark_terminal writes the local row only while it is not terminal.
SlipMarkedLocal(row, verdict) == IF row = "absent" THEN row ELSE verdict
MarkedLocal(row, verdict) ==
    IF row = "absent" \/ row \in Terminal THEN row ELSE verdict

\* What the boot reclaim makes of a local row, and of its attempts.
SlipReclaimed(row, tried) ==
    IF row = "processing" /\ tried >= MaxAttempts THEN "failed" ELSE row
Reclaimed(row, tried) ==
    IF row # "processing" THEN row
    ELSE IF tried >= MaxAttempts THEN "failed" ELSE "pending"
SlipAttemptsAfter(row, tried) == tried
AttemptsAfter(row, tried) ==
    IF row = "processing" /\ tried < MaxAttempts THEN tried + 1 ELSE tried

\* An expired command is retired to the terminal status "failed".
ExpiredStatus == "failed"

-----------------------------------------------------------------------------
(* The control API.                                                        *)

KeyTaken(bus, c) == \E d \in Commands : bus[d] # "absent" /\ KeyOf[d] = KeyOf[c]

\* enqueue_control_command, the Supabase insert.  A duplicate idempotency
\* key is refused by the server and the existing command is returned, if the
\* lookup by key finds it (on either bus, should Supabase not answer); any
\* other exception stages the command locally under the same id.
EnqueueRemote(c) ==
    /\ request[c] = "new" /\ Configured
    /\ \/ /\ KeyTaken(remote, c)
          /\ request' = [request EXCEPT ![c] = "done"]
          /\ UNCHANGED remote
       \/ /\ ~KeyTaken(remote, c)
          /\ remote' = [remote EXCEPT ![c] = "pending"]
          /\ \/ request' = [request EXCEPT ![c] = "done"]
             \/ /\ LosesAnswer("insert")
                /\ request' = [request EXCEPT ![c] = "stage"]
       \/ /\ \/ Faults("insert")
             \/ /\ KeyTaken(remote, c) /\ Faults("select")
                /\ ~KeyTaken(local, c)
          /\ request' = [request EXCEPT ![c] = "stage"]
          /\ UNCHANGED remote
    /\ UNCHANGED <<local, attempts, work, mirror, runs, time, bot, crashes>>

\* enqueue_control_command_local: the fallback of the above, or the direct
\* path of /commands/ingest and of the probes.  idempotency_key is UNIQUE,
\* so a second row with the key raises and the request fails.
EnqueueLocal(c) ==
    /\ request[c] \in {"new", "stage"}
    /\ request' = [request EXCEPT ![c] = "done"]
    /\ IF KeyTaken(local, c)
         THEN UNCHANGED local
         ELSE local' = [local EXCEPT ![c] = "pending"]
    /\ UNCHANGED <<remote, attempts, work, mirror, runs, time, bot, crashes>>

-----------------------------------------------------------------------------
(* Fetching and claiming.                                                  *)

Oldest(S) == {c \in S : Cardinality({d \in S : d < c}) < Cap}
PendingIn(bus) == {c \in Commands : bus[c] = "pending"}

\* fetch_pending_commands merges both buses, oldest first, cut at the limit;
\* fetch_and_claim_emergency_commands filters what is left of it.
Visible(w, remoteSeen) ==
    LET merged == Oldest(Oldest(remoteSeen) \cup Oldest(PendingIn(local)))
    IN  IF w = Listener THEN merged \cap Emergency ELSE merged

Fetch(w) ==
    /\ bot = "up" /\ pc[w] = "idle"
    /\ \A c \in Commands : job[w][c] # "claimed"  \* the last list is dispatched
    /\ \/ batch' = [batch EXCEPT ![w] =
                      Visible(w, IF Configured THEN PendingIn(remote) ELSE {})]
       \/ /\ Faults("fetch")
          /\ batch' = [batch EXCEPT ![w] = Visible(w, {})]
    /\ batch'[w] # {}
    /\ pc' = [pc EXCEPT ![w] = "next"]
    /\ UNCHANGED <<rows, request, cmd, job, mirror, runs, time, bot, crashes>>

\* The loop over the fetched commands: take the oldest, or go back to polling.
NextCommand(w) ==
    /\ bot = "up" /\ pc[w] = "next"
    /\ IF batch[w] = {}
         THEN /\ pc' = [pc EXCEPT ![w] = "idle"]
              /\ UNCHANGED <<batch, cmd>>
         ELSE \E c \in batch[w] :
                /\ \A d \in batch[w] : c <= d
                /\ batch' = [batch EXCEPT ![w] = @ \ {c}]
                /\ cmd' = [cmd EXCEPT ![w] = c]
                /\ pc' = [pc EXCEPT ![w] = IF Configured THEN "cas" ELSE "localcas"]
    /\ UNCHANGED <<rows, request, job, mirror, runs, time, bot, crashes>>

\* try_claim_command returns; the loop goes on to the next command.
Return(w) ==
    /\ pc' = [pc EXCEPT ![w] = "next"]
    /\ cmd' = [cmd EXCEPT ![w] = NoCommand]

\* try_claim_command, first call: the compare-and-set on the Supabase row.
ClaimRemote(w) ==
    /\ bot = "up" /\ pc[w] = "cas"
    /\ LET c == cmd[w]
       IN  \/ /\ remote[c] = "pending"
              /\ remote' = [remote EXCEPT ![c] = "processing"]
              /\ \/ pc' = [pc EXCEPT ![w] = "drive"]
                 \/ /\ LosesAnswer("cas")
                    /\ pc' = [pc EXCEPT ![w] = "select"]
           \/ /\ remote[c] # "pending" \/ Faults("cas")
              /\ pc' = [pc EXCEPT ![w] = "select"]
              /\ UNCHANGED remote
    /\ UNCHANGED <<local, attempts, request, cmd, batch, job, mirror, runs, time,
                   bot, crashes>>

\* A won remote claim drives the local copy forward, guarded on pending
\* (_transition_local_pending_to_processing swallows its own exceptions).
DriveLocal(w) ==
    /\ bot = "up" /\ pc[w] = "drive"
    /\ LET c == cmd[w]
       IN  /\ \/ local' = [local EXCEPT ![c] =
                             IF @ = "pending" THEN "processing" ELSE @]
              \/ "sqlite" \in FaultPoints /\ UNCHANGED local
           /\ job' = [job EXCEPT ![w][c] = "claimed"]
    /\ Return(w)
    /\ UNCHANGED <<remote, attempts, request, batch, mirror, runs, time,
                   bot, crashes>>

\* try_claim_command, second call: a command that exists in Supabase is never
\* claimed locally; a fault of this read falls through to the local claim.
SelectRemote(w) ==
    /\ bot = "up" /\ pc[w] = "select"
    /\ \/ /\ SupabaseOwned(cmd[w])
          /\ Return(w)
       \/ /\ ~SupabaseOwned(cmd[w]) \/ Faults("select")
          /\ pc' = [pc EXCEPT ![w] = "localcas"]
          /\ UNCHANGED cmd
    /\ UNCHANGED <<rows, request, batch, job, mirror, runs, time, bot, crashes>>

\* try_claim_command, last call: the compare-and-set on the local row.
ClaimLocal(w) ==
    /\ bot = "up" /\ pc[w] = "localcas"
    /\ LET c == cmd[w]
       IN  IF local[c] = "pending"
             THEN /\ local' = [local EXCEPT ![c] = "processing"]
                  /\ job' = [job EXCEPT ![w][c] = "claimed"]
             ELSE UNCHANGED <<local, job>>
    /\ Return(w)
    /\ UNCHANGED <<remote, attempts, request, batch, mirror, runs, time,
                   bot, crashes>>

\* An SQLite error inside a claim, or in the loop that dispatches the claimed
\* list, unwinds the whole poll: the commands the pass had claimed and not yet
\* dispatched are forgotten and stay "processing".
PollAborts(w) ==
    /\ bot = "up" /\ "sqlite" \in FaultPoints
    /\ \/ pc[w] = "localcas"
       \/ pc[w] = "idle" /\ \E c \in Commands : job[w][c] = "claimed"
    /\ pc' = [pc EXCEPT ![w] = "idle"]
    /\ cmd' = [cmd EXCEPT ![w] = NoCommand]
    /\ batch' = [batch EXCEPT ![w] = {}]
    /\ job' = [job EXCEPT ![w] = [c \in Commands |->
                 IF @[c] = "claimed" THEN "none" ELSE @[c]]]
    /\ UNCHANGED <<rows, request, mirror, runs, time, bot, crashes>>

-----------------------------------------------------------------------------
(* Dispatch, execution and terminal marking.                               *)

\* _dispatch_command, once the claiming pass has returned its list: a listener
\* without an event loop fails the command unrun; otherwise the orchestrator
\* owns it from here on.
Dispatch(w, c) ==
    /\ bot = "up" /\ pc[w] = "idle" /\ job[w][c] = "claimed"
    /\ \E next \in {"dispatched"} \cup (IF w = Listener THEN {"failed"} ELSE {}) :
          job' = [job EXCEPT ![w][c] = next]
    /\ UNCHANGED <<rows, request, pc, cmd, batch, mirror, runs, time, bot, crashes>>

\* The orchestrator applies the effect, which may raise.
Run(w, c) ==
    /\ bot = "up" /\ job[w][c] = "dispatched"
    /\ runs' = [runs EXCEPT ![c] = @ + 1]
    /\ \E result \in Terminal : job' = [job EXCEPT ![w][c] = result]
    /\ UNCHANGED <<rows, request, pc, cmd, batch, mirror, time, bot, crashes>>

\* _mark_terminal, Supabase half: unguarded, and any fault is swallowed.
MarkRemote(w, c) ==
    /\ bot = "up" /\ job[w][c] \in Terminal
    /\ \/ /\ Configured
          /\ remote' = [remote EXCEPT ![c] =
                          IF @ = "absent" THEN @ ELSE job[w][c]]
       \/ (~Configured \/ Faults("mark")) /\ UNCHANGED remote
    /\ job' = [job EXCEPT ![w][c] =
                 IF @ = "completed" THEN "completedLocal" ELSE "failedLocal"]
    /\ UNCHANGED <<local, attempts, request, pc, cmd, batch, mirror, runs, time,
                   bot, crashes>>

\* _mark_terminal, local half: guarded on a non-terminal row; an SQLite error
\* is raised to the caller, who only logs it.
MarkLocal(w, c) ==
    /\ bot = "up" /\ job[w][c] \in {"completedLocal", "failedLocal"}
    /\ \/ local' = [local EXCEPT ![c] = MarkedLocal(@,
             IF job[w][c] = "completedLocal" THEN "completed" ELSE "failed")]
       \/ "sqlite" \in FaultPoints /\ UNCHANGED local
    /\ job' = [job EXCEPT ![w][c] = "none"]
    /\ UNCHANGED <<remote, attempts, request, pc, cmd, batch, mirror, runs, time,
                   bot, crashes>>

-----------------------------------------------------------------------------
(* Process death, boot, and the maintenance entry points.                  *)

Crash ==
    /\ bot # "down" /\ crashes < MaxCrashes
    /\ bot' = "down" /\ crashes' = crashes + 1
    /\ pc' = [w \in Consumers |-> "idle"]
    /\ cmd' = [w \in Consumers |-> NoCommand]
    /\ batch' = [w \in Consumers |-> {}]
    /\ job' = [w \in Consumers |-> NoJobs]
    /\ mirror' = [c \in Commands |-> "absent"]
    /\ UNCHANGED <<rows, request, runs, time>>

\* retire_expired_commands runs at boot before the poison ladder.
RetireExpired ==
    /\ bot = "down" /\ bot' = "booting"
    /\ local' = [c \in Commands |->
          IF local[c] \in {"pending", "processing"} /\ c \in expired
            THEN ExpiredStatus ELSE local[c]]
    /\ UNCHANGED <<remote, attempts, request, work, mirror, runs, time, crashes>>

\* reclaim_orphaned_processing_commands: every local "processing" row is an
\* orphan at boot; re-queue it, or dead-letter it when its attempts are spent.
Reclaim ==
    /\ bot = "booting" /\ bot' = "up"
    /\ local' = [c \in Commands |-> Reclaimed(local[c], attempts[c])]
    /\ attempts' = [c \in Commands |-> AttemptsAfter(local[c], attempts[c])]
    /\ UNCHANGED <<remote, request, work, mirror, runs, time, crashes>>

\* retire_stale_processing_orphans, over all commands or one class of them.
\* The age gate compares created_at, not the time of the claim.
RetireStale ==
    /\ \E scope \in {Commands, Commands \ Emergency, Emergency} :
         LET stale == {c \in scope \cap aged : local[c] = "processing"}
         IN  /\ stale # {}
             /\ local' = [c \in Commands |->
                            IF c \in stale THEN "failed" ELSE local[c]]
    /\ UNCHANGED <<remote, attempts, request, work, mirror, runs, time, bot,
                   crashes>>

\* mirror_local_commands_to_supabase reads the local rows ...
MirrorRead ==
    /\ bot = "up" /\ Mirroring /\ Configured
    /\ \A c \in Commands : mirror[c] = "absent"
    /\ \E c \in Commands : local[c] # "absent"
    /\ mirror' = local
    /\ UNCHANGED <<rows, request, work, runs, time, bot, crashes>>

\* ... and upserts them one by one, whatever the Supabase row says by then; a
\* refused upsert (another row has the key, or a fault) is logged and skipped.
MirrorUpsert(c) ==
    /\ bot = "up" /\ mirror[c] # "absent"
    /\ \/ /\ \A d \in Commands \ {c} :
                remote[d] # "absent" => KeyOf[d] # KeyOf[c]
          /\ remote' = [remote EXCEPT ![c] = mirror[c]]
       \/ /\ \/ Faults("insert")
             \/ \E d \in Commands \ {c} :
                   remote[d] # "absent" /\ KeyOf[d] = KeyOf[c]
          /\ UNCHANGED remote
    /\ mirror' = [mirror EXCEPT ![c] = "absent"]
    /\ UNCHANGED <<local, attempts, request, work, runs, time, bot, crashes>>

\* More than older_than_minutes pass: every stored command is now aged.
TimePasses ==
    /\ aged' = {c \in Commands : remote[c] # "absent" \/ local[c] # "absent"}
    /\ aged' # aged
    /\ UNCHANGED <<rows, request, work, mirror, runs, expired, bot, crashes>>

Expire(c) ==
    /\ c \in Probes \ expired /\ local[c] # "absent"
    /\ expired' = expired \cup {c}
    /\ UNCHANGED <<rows, request, work, mirror, runs, aged, bot, crashes>>

-----------------------------------------------------------------------------
Init ==
    /\ remote = [c \in Commands |-> "absent"]
    /\ local = [c \in Commands |-> "absent"]
    /\ attempts = [c \in Commands |-> 0]
    /\ request = [c \in Commands |-> "new"]
    /\ pc = [w \in Consumers |-> "idle"]
    /\ cmd = [w \in Consumers |-> NoCommand]
    /\ batch = [w \in Consumers |-> {}]
    /\ job = [w \in Consumers |-> NoJobs]
    /\ mirror = [c \in Commands |-> "absent"]
    /\ runs = [c \in Commands |-> 0]
    /\ aged = {} /\ expired = {}
    /\ bot = "up" /\ crashes = 0

Enqueue == \E c \in Commands : EnqueueRemote(c) \/ EnqueueLocal(c)

Poll(w) == \/ Fetch(w) \/ NextCommand(w) \/ ClaimRemote(w) \/ DriveLocal(w)
           \/ SelectRemote(w) \/ ClaimLocal(w)

Work(w, c) == Dispatch(w, c) \/ Run(w, c) \/ MarkRemote(w, c) \/ MarkLocal(w, c)

Boot == RetireExpired \/ Reclaim

Next ==
    \/ Enqueue
    \/ \E w \in Consumers : Poll(w) \/ PollAborts(w)
    \/ \E w \in Consumers, c \in Commands : Work(w, c)
    \/ Crash \/ Boot
    \/ RetireStale
    \/ MirrorRead
    \/ \E c \in Commands : MirrorUpsert(c)
    \/ TimePasses
    \/ \E c \in Commands : Expire(c)

Spec == Init /\ [][Next]_vars

\* Both consumer threads keep polling and a dead process is restarted
\* (systemd restarts the bot); the operator, time and faults owe nothing.
Fairness ==
    /\ \A w \in Consumers : WF_vars(Poll(w))
    /\ \A w \in Consumers, c \in Commands : WF_vars(Work(w, c))
    /\ WF_vars(Boot)

FairSpec == Spec /\ Fairness

-----------------------------------------------------------------------------
(* Properties.                                                             *)

\* Every row holds a status of ControlCommandStatus, every job and poll a
\* legal phase.
TypeOK ==
    /\ remote \in [Commands -> Status]
    /\ local \in [Commands -> Status]
    /\ attempts \in [Commands -> Nat]
    /\ request \in [Commands -> {"new", "stage", "done"}]
    /\ pc \in [Consumers -> ClaimPc]
    /\ cmd \in [Consumers -> Commands \cup {NoCommand}]
    /\ \A w \in Consumers :
          pc[w] \notin {"idle", "next"} => cmd[w] \in Commands
    /\ batch \in [Consumers -> SUBSET Commands]
    /\ job \in [Consumers -> [Commands -> JobState]]
    /\ mirror \in [Commands -> Status]
    /\ runs \in [Commands -> Nat]
    /\ aged \subseteq Commands
    /\ expired \subseteq Commands
    /\ bot \in {"up", "down", "booting"}
    /\ crashes \in 0..MaxCrashes

\* "EXACTLY ONCE across both buses": between its claim and its terminal mark
\* a command is in the hands of one thread only, however the two threads'
\* Supabase calls interleave (try_claim_command).
SingleOwner ==
    \A c \in Commands : \A v, w \in Consumers :
        v \in Owners(c) /\ w \in Owners(c) => v = w

\* A command's effect is applied at most once per recorded reclaim attempt:
\* once in a life without crashes, and never more than MaxAttempts + 1 times
\* in all (the poison bound of reclaim_orphaned_processing_commands).
RefireBound ==
    \A c \in Commands :
        runs[c] <= attempts[c] + 1 /\ attempts[c] <= MaxAttempts

\* "a command here is DONE and must never re-fire" (_TERMINAL_STATUSES): no
\* late mark of a second owner, reclaim, retirement or claim changes a terminal
\* local row, whatever the faults and the mirror do.
LocalTerminalFinal ==
    [][\A c \in Commands : local[c] \in Terminal => local'[c] = local[c]]_vars

\* The Supabase mark is unguarded, so there the same needs a single owner and
\* no mirror pass: with both, a terminal Supabase row is final too.
RemoteTerminalFinal ==
    [][\A c \in Commands : remote[c] \in Terminal => remote'[c] = remote[c]]_vars

\* With the local bus alone, every staged command reaches a terminal status:
\* crashes re-queue it and the poison bound ends the retries.
StagedIsResolved ==
    \A c \in Commands : (local[c] = "pending") ~> (local[c] \in Terminal)

\* "a crash before that owner marks it leaves the command in `processing`,
\* re-fired once by the boot reclaim": an orphan of a dead process is
\* eventually taken to a terminal status on the bus that holds it.
OrphanIsRefired ==
    \A c \in Commands :
        (remote[c] = "processing" /\ bot = "down") ~> (remote[c] \in Terminal)
=============================================================================
