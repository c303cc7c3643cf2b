------------------------------ MODULE DbQueue ------------------------------
(***************************************************************************)
(* The write-ahead database writer (src/persistence/db_queue.py).  A write  *)
(* is acknowledged once its row is in the SQLite stage; drains take the     *)
(* oldest rows, persist them group by group and delete what was committed.  *)
(*                                                                          *)
(* A write stands for its stage_id, given in increasing order.  A writer    *)
(* instance has its own worker thread and its own _flush_lock; stop() runs  *)
(* a drain of its own.  stop_async_db_writer drops the instance and the     *)
(* next enqueue makes a new one, whether or not the old worker is gone.     *)
(***************************************************************************)
EXTENDS Integers, FiniteSets

CONSTANTS
    N,           \* bound: rows ever staged, 1..N
    GroupOf,     \* the (write_kind, target_db_path) group of each row
    Groups,
    Snapshot,    \* PORTFOLIO_RISK_STATE groups: the last item replaces the row
    Replicated,  \* kinds that also insert into Postgres
    Piecewise,   \* CYCLE_METRICS groups: one transaction per row
    Poisoned,    \* groups whose persist always raises
    Unreadable,  \* rows that raise when fetched (unknown kind, broken JSON)
    Restored,    \* rows a restored vault may already have staged, 1..Restored
    Writers,     \* AsyncDBWriter instances of one process
    BatchSize,   \* WRITER_MAX_BATCH_SIZE
    BaseBatches, \* WAL_MAX_BATCHES_PER_BAR_INTERVAL
    BurstBatches,\* WAL_BURST_MAX_BATCHES_PER_INTERVAL
    HighWater,   \* WAL_BACKLOG_HIGH_WATER
    MaxFaults    \* bound: SQLite errors, Postgres errors and crashes explored

Writes == 1..N
Threads == Writers \X {"worker", "stop"}
NoWriter == "none"
NoThread == <<"none", "none">>

ASSUME DbQueueAssumption ==
    /\ N \in Nat /\ Restored \in 0..N
    /\ GroupOf \in [Writes -> Groups]
    /\ Snapshot \subseteq Groups /\ Replicated \subseteq Groups
    /\ Poisoned \subseteq Groups
    /\ Piecewise \subseteq Groups
    /\ Snapshot \cap Replicated = {} /\ Snapshot \cap Piecewise = {}
    /\ Unreadable \subseteq Writes
    /\ NoWriter \notin Writers
    /\ BatchSize \in Nat \ {0}
    /\ BaseBatches \in Nat \ {0} /\ BurstBatches \in Nat
    /\ BurstBatches >= BaseBatches
    /\ HighWater \in Nat
    /\ MaxFaults \in Nat

VARIABLES
    stage,      \* rows of local_write_ahead_stage
    last,       \* the last stage_id given
    landed,     \* landed[w]: inserts of w into its SQLite table, counted to 2
    snap,       \* snap[g]: the write the risk-state row holds, 0 when none
    current,    \* _writer
    created,    \* instances made by this process
    stopped,    \* stopped[v]: _stop_event
    lock,       \* lock[v]: the thread that holds _flush_lock
    maxBatches, \* _drain_limiter._max_batches
    tokens,     \* _drain_limiter._tokens, whole tokens
    pc,         \* where each thread is
    force,      \* the force argument of its flush
    batch,      \* the rows it fetched
    todo,       \* those of groups not yet persisted
    committed,  \* committed_ids so far
    before,     \* the count _drain_until_empty compares with
    late,       \* stop()'s deadline has passed
    producer,   \* an enqueue_* call: "idle", "got" or "started"
    holds,      \* the instance it was given
    faults,
    twin,       \* two instances had a live thread at once (history)
    cut,        \* a crash or a failing delete cut a drain short (history)
    refused     \* a Postgres insert failed (history)

tables == <<stage, landed, snap>>
limiter == <<maxBatches, tokens>>
thread == <<pc, force, batch, todo, committed>>
instance == <<current, created, stopped>>
call == <<producer, holds>>
history == <<twin, cut, refused>>
vars == <<stage, last, landed, snap, current, created, stopped, lock, maxBatches,
          tokens, pc, force, batch, todo, committed, before, late, producer,
          holds, faults, twin, cut, refused>>

-----------------------------------------------------------------------------
Oldest(S) == {w \in S : Cardinality({u \in S : u < w}) < BatchSize}
Least(S) == CHOOSE w \in S : \A u \in S : w <= u
Greatest(S) == CHOOSE w \in S : \A u \in S : u <= w

Worker(v) == <<v, "worker">>
Stopper(v) == <<v, "stop">>
Running(v) == pc[Worker(v)] # "off"          \* is_running
Stopping == \E v \in Writers : pc[Stopper(v)] # "off"
Fault == faults < MaxFaults /\ faults' = faults + 1

Live(p) == {v \in Writers : p[Worker(v)] # "off" \/ p[Stopper(v)] # "off"}
Twin(p) == twin \/ \E v, u \in Live(p) : v # u

\* Thread t leaves its flush and lets go of its instance's lock.
Leave(t, place) ==
    /\ pc' = [pc EXCEPT ![t] = place]
    /\ lock' = [lock EXCEPT ![t[1]] = NoThread]
    /\ force' = [force EXCEPT ![t] = FALSE]
    /\ batch' = [batch EXCEPT ![t] = {}]
    /\ todo' = [todo EXCEPT ![t] = {}]
    /\ committed' = [committed EXCEPT ![t] = {}]

\* The place a finished flush returns to.
After(t) == IF t[2] = "stop" THEN "compare"
            ELSE IF force[t] THEN "off" ELSE "loop"

-----------------------------------------------------------------------------
(* Producers.                                                              *)

\* get_async_db_writer; its lock is held during stop_async_db_writer.
GetWriter ==
    /\ producer = "idle" /\ ~Stopping /\ last < N
    /\ \/ /\ current # NoWriter /\ holds' = current
          /\ UNCHANGED <<current, created, stopped, limiter>>
       \/ /\ current = NoWriter
          /\ \E v \in Writers \ created :
               /\ current' = v /\ holds' = v
               /\ created' = created \cup {v}
               /\ stopped' = [stopped EXCEPT ![v] = FALSE]
               /\ maxBatches' = [maxBatches EXCEPT ![v] = BaseBatches]
               /\ tokens' = [tokens EXCEPT ![v] = BaseBatches]
    /\ producer' = "got"
    /\ UNCHANGED <<tables, last, lock, thread, before, late, faults, history>>

\* start, unless the worker is alive.
StartWorker ==
    /\ producer = "got" /\ producer' = "started"
    /\ IF Running(holds) THEN UNCHANGED <<stopped, pc, twin>>
       ELSE /\ stopped' = [stopped EXCEPT ![holds] = FALSE]
            /\ pc' = [pc EXCEPT ![Worker(holds)] = "loop"]
            /\ twin' = Twin(pc')
    /\ UNCHANGED <<tables, last, current, created, lock, limiter, force, batch,
                   todo, committed, before, late, holds, faults, cut,
                   refused>>

\* _append_write_ahead: the row is durable when enqueue returns.
Enqueue ==
    /\ producer = "started" /\ producer' = "idle" /\ holds' = NoWriter
    /\ last' = last + 1
    /\ stage' = stage \cup {last + 1}
    /\ UNCHANGED <<landed, snap, instance, lock, limiter, thread, before, late, faults, history>>

-----------------------------------------------------------------------------
(* A flush: _flush_from_write_ahead_locked.                                *)

\* The worker's loop, and its forced last flush when the stop event is set.
WorkerLoop(v) ==
    /\ pc[Worker(v)] = "loop"
    /\ pc' = [pc EXCEPT ![Worker(v)] = "flush"]
    /\ force' = [force EXCEPT ![Worker(v)] = stopped[v]]
    /\ UNCHANGED <<tables, last, instance, lock, limiter, batch, todo, committed,
                   before, late, call, faults, history>>

\* update_backlog_depth.
Target == IF Cardinality(stage) >= HighWater THEN BurstBatches ELSE BaseBatches
Smaller(a, b) == IF a < b THEN a ELSE b
UpdateBacklog(v) ==
    /\ maxBatches' = [maxBatches EXCEPT ![v] = Target]
    /\ tokens' = [tokens EXCEPT ![v] =
         IF Target = maxBatches[v] THEN @
         ELSE IF Target > maxBatches[v] THEN Target ELSE Smaller(@, Target)]

LockFree(v) == lock[v] = NoThread

TakeLock(t) ==
    /\ pc[t] = "flush" /\ LockFree(t[1])
    /\ lock' = [lock EXCEPT ![t[1]] = t]
    /\ pc' = [pc EXCEPT ![t] = "fetch"]
    /\ UpdateBacklog(t[1])
    /\ UNCHANGED <<tables, last, instance, force, batch, todo, committed, before, late,
                   call, faults, history>>

\* acquire: a forced drain needs no token.
Throttled(t) ==
    /\ pc[t] = "fetch" /\ ~force[t] /\ tokens[t[1]] = 0
    /\ Leave(t, After(t))
    /\ UNCHANGED <<tables, last, instance, limiter, before, late, call, faults, history>>

\* _fetch_staged_batch, outside the try: a row that cannot be read ends the
\* thread (stop() raises, and the instance stays in place).
Fetch(t) ==
    /\ pc[t] = "fetch" /\ (force[t] \/ tokens[t[1]] > 0)
    /\ tokens' = [tokens EXCEPT ![t[1]] = IF force[t] THEN @ ELSE @ - 1]
    /\ LET rows == Oldest(stage)
       IN  IF rows = {} THEN Leave(t, After(t))
           ELSE IF rows \cap Unreadable # {} THEN Leave(t, "off")
           ELSE /\ batch' = [batch EXCEPT ![t] = rows]
                /\ todo' = [todo EXCEPT ![t] = rows]
                /\ committed' = [committed EXCEPT ![t] = {}]
                /\ pc' = [pc EXCEPT ![t] = "group"]
                /\ UNCHANGED <<lock, force>>
    /\ UNCHANGED <<tables, last, instance, maxBatches, before, late, call, faults, history>>

\* The rows of the next group, in the order of first rows.
Group(t) == LET g == GroupOf[Least(todo[t])]
            IN  {w \in todo[t] : GroupOf[w] = g}

\* What a group that raised leaves for the rest of the batch.
SlipIsolated(t) == {}
Isolated(t) == todo[t] \ Group(t)

\* Rows are inserted.
Append(rows) == landed' = [w \in Writes |->
    IF w \in rows /\ landed[w] < 2 THEN landed[w] + 1 ELSE landed[w]]

\* _persist_group raises: the group stays staged, the others go on.  Of a
\* piecewise group the rows before the one that raised are in.
GroupRaises(t) ==
    /\ pc[t] = "group" /\ todo[t] # {}
    /\ IF GroupOf[Least(todo[t])] \in Poisoned THEN UNCHANGED faults ELSE Fault
    /\ IF GroupOf[Least(todo[t])] \in Piecewise
         THEN \E bad \in Group(t) : Append({w \in Group(t) : w < bad})
         ELSE UNCHANGED landed
    /\ todo' = [todo EXCEPT ![t] = Isolated(t)]
    /\ UNCHANGED <<stage, snap, last, instance, lock, limiter, pc, force, batch,
                   committed, before, late, call, history>>

\* The SQLite half of a flush handler: a snapshot group writes its last item
\* only, the others append every row.
CommitSqlite(rows, g) ==
    IF g \in Snapshot
      THEN /\ snap' = [snap EXCEPT ![g] = Greatest(rows)]
           /\ UNCHANGED landed
      ELSE Append(rows) /\ UNCHANGED snap

\* _persist_group; a replicated group has Postgres still to do.
PersistGroup(t) ==
    /\ pc[t] = "group" /\ todo[t] # {}
    /\ LET rows == Group(t)
           g == GroupOf[Least(todo[t])]
       IN  /\ g \notin Poisoned
           /\ CommitSqlite(rows, g)
           /\ IF g \in Replicated
                THEN /\ pc' = [pc EXCEPT ![t] = "postgres"]
                     /\ UNCHANGED <<todo, committed>>
                ELSE /\ todo' = [todo EXCEPT ![t] = @ \ rows]
                     /\ committed' = [committed EXCEPT ![t] = @ \cup rows]
                     /\ UNCHANGED pc
    /\ UNCHANGED <<stage, last, instance, lock, limiter, force, batch, before, late,
                   call, faults, history>>

\* The Postgres insert: a failure is swallowed and leaves the group staged,
\* SQLite rows and all.
Replicate(t) ==
    /\ pc[t] = "postgres"
    /\ \/ /\ committed' = [committed EXCEPT ![t] = @ \cup Group(t)]
          /\ UNCHANGED <<faults, refused>>
       \/ Fault /\ refused' = TRUE /\ UNCHANGED committed
    /\ todo' = [todo EXCEPT ![t] = @ \ Group(t)]
    /\ pc' = [pc EXCEPT ![t] = "group"]
    /\ UNCHANGED <<tables, last, instance, lock, limiter, force, batch, before, late,
                   call, twin, cut>>

\* The batch's groups are done: nothing committed ends the flush.
NoProgress(t) == committed[t] = {}

Uncommitted(t) ==
    /\ pc[t] = "group" /\ todo[t] = {} /\ NoProgress(t)
    /\ Leave(t, After(t))
    /\ UNCHANGED <<tables, last, instance, limiter, before, late, call, faults, history>>

\* _delete_staged_rows of the committed rows; a forced flush goes round again.
SlipDeleted(t) == batch[t]
Deleted(t) == committed[t]

DeleteRows(t) ==
    /\ pc[t] = "group" /\ todo[t] = {} /\ ~NoProgress(t)
    /\ \/ /\ stage' = stage \ Deleted(t)
          /\ IF force[t]
               THEN /\ pc' = [pc EXCEPT ![t] = "fetch"]
                    /\ UNCHANGED <<lock, force, batch, todo, committed>>
               ELSE Leave(t, After(t))
          /\ UNCHANGED <<faults, cut>>
       \/ /\ Fault /\ cut' = TRUE
          /\ Leave(t, After(t))
          /\ UNCHANGED stage
    /\ UNCHANGED <<last, landed, snap, instance, limiter, before, late, call,
                   twin, refused>>

-----------------------------------------------------------------------------
(* stop_async_db_writer.                                                   *)

Stop(v) ==
    /\ current = v /\ pc[Stopper(v)] = "off" /\ ~Stopping
    /\ stopped' = [stopped EXCEPT ![v] = @ \/ Running(v)]
    /\ pc' = [pc EXCEPT ![Stopper(v)] = "join"]
    /\ late' = FALSE
    /\ twin' = Twin(pc')
    /\ UNCHANGED <<tables, last, current, created, lock, limiter, force, batch, todo,
                   committed, before, call, faults, cut, refused>>

Deadline ==
    /\ Stopping /\ ~late /\ late' = TRUE
    /\ UNCHANGED <<tables, last, instance, lock, limiter, thread, before, call, faults, history>>

\* The join ends with the worker or at the deadline.
Join(v) ==
    /\ pc[Stopper(v)] = "join" /\ (~Running(v) \/ late)
    /\ pc' = [pc EXCEPT ![Stopper(v)] = "drain"]
    /\ UNCHANGED <<tables, last, instance, lock, limiter, force, batch, todo, committed,
                   before, late, call, faults, history>>

\* _drain_until_empty, and its no-progress guard after each flush.
Finished(v) ==
    /\ pc' = [pc EXCEPT ![Stopper(v)] = "off"]
    /\ current' = NoWriter
    /\ before' = 0
    /\ UNCHANGED force

Drain(v) ==
    /\ \/ /\ pc[Stopper(v)] = "drain"
          /\ IF stage = {} \/ late THEN Finished(v)
             ELSE /\ before' = Cardinality(stage)
                  /\ pc' = [pc EXCEPT ![Stopper(v)] = "flush"]
                  /\ force' = [force EXCEPT ![Stopper(v)] = TRUE]
                  /\ UNCHANGED current
       \/ /\ pc[Stopper(v)] = "compare"
          /\ IF Cardinality(stage) >= before THEN Finished(v)
             ELSE /\ pc' = [pc EXCEPT ![Stopper(v)] = "drain"]
                  /\ UNCHANGED <<before, current, force>>
    /\ UNCHANGED <<tables, last, created, stopped, lock, limiter, batch, todo, committed,
                   late, call, faults, history>>

-----------------------------------------------------------------------------
\* Tokens come back with time.
Refill(v) ==
    /\ v \in created /\ tokens[v] < maxBatches[v]
    /\ tokens' = [tokens EXCEPT ![v] = @ + 1]
    /\ UNCHANGED <<tables, last, instance, lock, maxBatches, thread, before, late, call,
                   faults, history>>

Empty == [t \in Threads |-> {}]

\* The process dies and starts again: SQLite is all that is left.
Crash ==
    /\ Fault
    /\ cut' = (cut \/ \E t \in Threads : lock[t[1]] = t)
    /\ current' = NoWriter /\ created' = {}
    /\ stopped' = [v \in Writers |-> FALSE]
    /\ lock' = [v \in Writers |-> NoThread]
    /\ maxBatches' = [v \in Writers |-> BaseBatches]
    /\ tokens' = [v \in Writers |-> BaseBatches]
    /\ pc' = [t \in Threads |-> "off"]
    /\ force' = [t \in Threads |-> FALSE]
    /\ batch' = Empty /\ todo' = Empty /\ committed' = Empty
    /\ before' = 0 /\ late' = FALSE
    /\ producer' = "idle" /\ holds' = NoWriter
    /\ UNCHANGED <<tables, last, twin, refused>>

Init ==
    /\ last = Restored /\ stage \in SUBSET (1..Restored)
    /\ landed = [w \in Writes |-> 0] /\ snap = [g \in Groups |-> 0]
    /\ current = NoWriter /\ created = {}
    /\ stopped = [v \in Writers |-> FALSE]
    /\ lock = [v \in Writers |-> NoThread]
    /\ maxBatches = [v \in Writers |-> BaseBatches]
    /\ tokens = [v \in Writers |-> BaseBatches]
    /\ pc = [t \in Threads |-> "off"]
    /\ force = [t \in Threads |-> FALSE]
    /\ batch = Empty /\ todo = Empty /\ committed = Empty
    /\ before = 0 /\ late = FALSE
    /\ producer = "idle" /\ holds = NoWriter
    /\ faults = 0 /\ twin = FALSE /\ cut = FALSE
    /\ refused = FALSE

Flush(t) ==
    \/ TakeLock(t) \/ Throttled(t) \/ Fetch(t) \/ GroupRaises(t) \/ PersistGroup(t)
    \/ Replicate(t) \/ Uncommitted(t) \/ DeleteRows(t)

Produce == GetWriter \/ StartWorker \/ Enqueue

StopStep(v) == Join(v) \/ Drain(v)

Next ==
    \/ Produce
    \/ \E t \in Threads : Flush(t)
    \/ \E v \in Writers : WorkerLoop(v) \/ Stop(v) \/ StopStep(v) \/ Refill(v)
    \/ Deadline \/ Crash

Spec == Init /\ [][Next]_vars

\* Threads run on and calls return, the lock is free for a flush interval at
\* a time, and time passes; enqueues, stops and faults owe nothing.
FairSpec ==
    /\ Spec
    /\ WF_vars(StartWorker) /\ WF_vars(Enqueue) /\ WF_vars(Deadline)
    /\ \A t \in Threads : WF_vars(Flush(t)) /\ SF_vars(TakeLock(t))
    /\ \A v \in Writers : /\ WF_vars(WorkerLoop(v)) /\ WF_vars(StopStep(v))
                          /\ WF_vars(Refill(v))

-----------------------------------------------------------------------------
(* Properties.                                                             *)

\* The state stays in its ranges; a limiter never holds more than its maximum.
TypeOK ==
    /\ stage \subseteq Writes /\ last \in 0..N
    /\ landed \in [Writes -> 0..2] /\ snap \in [Groups -> 0..N]
    /\ current \in Writers \cup {NoWriter} /\ created \subseteq Writers
    /\ stopped \in [Writers -> BOOLEAN]
    /\ lock \in [Writers -> Threads \cup {NoThread}]
    /\ maxBatches \in [Writers -> {BaseBatches, BurstBatches}]
    /\ tokens \in [Writers -> Nat]
    /\ \A v \in Writers : tokens[v] <= maxBatches[v]
    /\ pc \in [Threads -> {"off", "loop", "flush", "fetch", "group", "postgres",
                           "join", "drain", "compare"}]
    /\ force \in [Threads -> BOOLEAN]
    /\ batch \in [Threads -> SUBSET Writes]
    /\ todo \in [Threads -> SUBSET Writes]
    /\ committed \in [Threads -> SUBSET Writes]
    /\ before \in 0..N /\ late \in BOOLEAN
    /\ producer \in {"idle", "got", "started"}
    /\ holds \in Writers \cup {NoWriter}
    /\ faults \in 0..MaxFaults
    /\ twin \in BOOLEAN /\ cut \in BOOLEAN /\ refused \in BOOLEAN

\* "zero lost writes": an acknowledged write is staged until it, or a later
\* snapshot of its group, is in its table, through every failing group, crash,
\* concurrent stop() and restart.
Stored(w) == IF GroupOf[w] \in Snapshot THEN snap[GroupOf[w]] >= w ELSE landed[w] > 0
NothingLost == \A w \in (Restored + 1)..last : w \in stage \/ Stored(w) \/ twin

\* The risk-state row never goes back to an older snapshot: drains of one
\* instance are serialised, and a re-read batch starts no later than the one it
\* repeats.  Two live instances have no lock in common.
SnapshotMovesOn ==
    [][\A g \in Snapshot : snap'[g] >= snap[g] \/ twin]_vars

\* "the worker's final flush and stop()'s drain must never read/delete the same
\* staged rows concurrently", and a failing group must not undo its
\* neighbours: a write is inserted once, unless a crash or a failing delete cut
\* the drain short, or Postgres refused a row that SQLite has.  Piecewise
\* groups have no such promise.
AppendedOnce ==
    \A w \in Writes : \/ landed[w] <= 1 \/ GroupOf[w] \in Piecewise
                       \/ twin \/ cut \/ refused

\* "keep draining the rest so healthy writes still commit": while a worker
\* runs, the healthy rows all leave the stage, as long as poisoned rows do not
\* fill a whole batch (rows are finite in number here).
Draining == \E v \in Writers : Running(v) /\ ~stopped[v]
HealthyStaged == {w \in stage : GroupOf[w] \notin Poisoned}
HealthyIsStored == <>[]Draining => []<>(HealthyStaged = {})

\* "bounded best-effort drain: never hangs, even on a poison batch".
StopReturns == Stopping ~> ~Stopping

\* What the writer promises of an acknowledged write: it is not lost, not inserted twice but for the
\* causes named above, and no older snapshot replaces a newer one.
QueueKeeps == [](TypeOK /\ NothingLost /\ AppendedOnce) /\ SnapshotMovesOn

\* What the worker promises in the end: healthy rows leave the stage, and stop() returns.
QueueServes == HealthyIsStored /\ StopReturns
=============================================================================
