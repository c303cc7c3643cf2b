---------------------------- MODULE TapeBuffers ----------------------------
(***************************************************************************)
(* The bars of one leg: the closed window it decides on and the forming     *)
(* slot (src/core/rolling_window.py), and the active and shadow matrices of *)
(* src/ingestor/dual_buffer_manager.py.  The stream fills the active matrix *)
(* and the slot; a REST refresh replaces the shadow, writes it through to   *)
(* the active matrix and the window, and compares the matrices.             *)
(*                                                                          *)
(* Refreshes run on the background thread, once per close or forced by its  *)
(* watchdog, and on the main thread at boot; FeedHealth has the schedule    *)
(* and the watchdog.  A bar is its number (bars 1..tbNow have closed, the   *)
(* next one is forming) and what is known of it: "part" while it forms,     *)
(* "final", or "odd" when the stream disagrees.                             *)
(***************************************************************************)
EXTENDS Naturals, Sequences, SequencesExt

CONSTANTS
    TbThreads, TbBg,   \* refreshing threads; the background thread
    TbLocked,          \* LOCKED_BLOCK_COUNT
    TbActiveCap, TbWindowMax,   \* capacities of the active matrix and of the window
    TbMaxBars, TbMaxTicks, TbMaxRefreshes   \* bounds

ASSUME TbAssumption ==
    /\ TbBg \in TbThreads /\ {TbLocked, TbWindowMax} \subseteq Nat \ {0} /\ TbActiveCap >= TbLocked
    /\ {TbMaxBars, TbMaxTicks, TbMaxRefreshes} \subseteq Nat

VARIABLES
    tbNow,             \* bars closed
    tbActive, tbShadow, tbLastClose,   \* the matrices; last_shadow_refresh_bar_close
    tbWindow, tbForming,   \* the leg's window and its forming slot (<<>> when empty)
    tbLatch, tbTape,   \* divergence latch, tape status
    tbAt, tbGot, tbEnd, tbTodo,   \* per thread: place, bars fetched, their end, bars to upsert
    tbTicks, tbRefreshes,
    tbCrossed, tbGap   \* two refreshes overlapped; a bar was passed over (history)

tbVars == <<tbNow, tbActive, tbShadow, tbLastClose, tbWindow, tbForming, tbLatch, tbTape, tbAt,
            tbGot, tbEnd, tbTodo, tbTicks, tbRefreshes, tbCrossed, tbGap>>
tbMatrix == <<tbActive, tbShadow, tbLastClose>>
tbLeg == <<tbWindow, tbForming>>
tbVerdict == <<tbLatch, tbTape>>
tbWork == <<tbGot, tbEnd, tbTodo>>

TbBar(n, v) == [ts |-> n, val |-> v]
TbKeep(seq, n) == IF Len(seq) > n THEN SubSeq(seq, Len(seq) - n + 1, Len(seq)) ELSE seq

TbInit ==
    /\ tbNow = 1
    /\ tbActive = <<>> /\ tbShadow = <<>> /\ tbLastClose = 0
    /\ tbWindow = <<>> /\ tbForming = <<>> /\ tbLatch = FALSE /\ tbTape = "UNKNOWN"
    /\ tbAt = [t \in TbThreads |-> "idle"] /\ tbGot = [t \in TbThreads |-> <<>>]
    /\ tbEnd = [t \in TbThreads |-> 0] /\ tbTodo = [t \in TbThreads |-> <<>>]
    /\ tbTicks = 0 /\ tbRefreshes = 0 /\ tbCrossed = FALSE /\ tbGap = FALSE

-----------------------------------------------------------------------------
(* The rings and the window.                                               *)

\* _MatrixRing.upsert_bar: the newest entry is revised, anything else is put on top.
TbRingUpsert(ring, bar) ==
    IF ring # <<>> /\ Last(ring).ts = bar.ts
    THEN [ring EXCEPT ![Len(ring)] = bar]
    ELSE TbKeep(Append(ring, bar), TbActiveCap)

\* A bar older than the latest is put in as well.
SlipTbWindowUpsert(window, bar) ==
    IF window # <<>> /\ bar.ts = Last(window).ts THEN [window EXCEPT ![Len(window)] = bar]
    ELSE TbKeep(Append(window, bar), TbWindowMax)
\* RollingWindow.upsert_bar: the latest bar is revised, a newer one appended, an older one refused.
TbWindowUpsert(window, bar) ==
    IF window = <<>> \/ bar.ts > Last(window).ts THEN TbKeep(Append(window, bar), TbWindowMax)
    ELSE IF bar.ts = Last(window).ts THEN [window EXCEPT ![Len(window)] = bar]
    ELSE window

TbLastTs == IF tbWindow = <<>> THEN 0 ELSE Last(tbWindow).ts

\* set_forming
TbSetForming(bar) ==
    IF bar.ts <= TbLastTs \/ (tbForming # <<>> /\ bar.ts < tbForming[1].ts) THEN tbForming ELSE <<bar>>

\* ingest_stream_bar: never into the window.
TbStream(bar) ==
    /\ tbTicks < TbMaxTicks /\ tbTicks' = tbTicks + 1
    /\ tbActive' = TbRingUpsert(tbActive, bar) /\ tbForming' = TbSetForming(bar)
    /\ UNCHANGED <<tbNow, tbShadow, tbLastClose, tbWindow, tbVerdict, tbAt, tbWork, tbRefreshes,
                   tbCrossed, tbGap>>

-----------------------------------------------------------------------------
(* A refresh.                                                              *)

TbBegins(t) ==
    /\ tbAt[t] = "idle" /\ tbRefreshes < TbMaxRefreshes /\ tbRefreshes' = tbRefreshes + 1
    /\ tbAt' = [tbAt EXCEPT ![t] = "fetch"] /\ tbEnd' = [tbEnd EXCEPT ![t] = tbNow]
    /\ tbCrossed' = (tbCrossed \/ \E u \in TbThreads : tbAt[u] # "idle")
    /\ UNCHANGED <<tbNow, tbMatrix, tbLeg, tbVerdict, tbGot, tbTodo, tbTicks, tbGap>>

\* _refresh_due_shadow_buffers, and the watchdog of the same thread
TbScheduled == tbLastClose < tbNow /\ TbBegins(TbBg)

\* refresh_shadow_now and refresh_all_shadow_buffers
TbForced(t) == t # TbBg /\ TbBegins(t)

\* The REST answer, outside the lock: the closed bars, the last one perhaps late, and perhaps the
\* bar that opens at the end of the range.  No answer ends the refresh.
TbFetch(t, upto) ==
    LET finals == [n \in 1..upto |-> TbBar(n, IF n <= tbNow THEN "final" ELSE "part")]
    IN /\ tbAt[t] = "fetch" /\ upto \in {tbNow - 1, tbNow, tbNow + 1}
       /\ tbGot' = [tbGot EXCEPT ![t] = TbKeep(finals, TbLocked)]
       /\ tbAt' = [tbAt EXCEPT ![t] = IF upto = 0 THEN "idle" ELSE "replace"]
       /\ UNCHANGED <<tbNow, tbMatrix, tbLeg, tbVerdict, tbEnd, tbTodo, tbTicks, tbRefreshes,
                      tbCrossed, tbGap>>

\* Under the lock: the shadow is replaced by what was fetched, and the active matrix is written.
TbReplace(t) ==
    /\ tbAt[t] = "replace" /\ tbAt' = [tbAt EXCEPT ![t] = "reconcile"]
    /\ tbShadow' = tbGot[t] /\ tbLastClose' = tbEnd[t]
    /\ tbActive' = FoldLeft(TbRingUpsert, tbActive, tbGot[t])
    /\ tbTodo' = [tbTodo EXCEPT ![t] = tbGot[t]]
    /\ UNCHANGED <<tbNow, tbLeg, tbVerdict, tbGot, tbEnd, tbTicks, tbRefreshes, tbCrossed, tbGap>>

\* reconcile_streaming_windows: one bar at a time, without the lock.
TbReconcile(t) ==
    LET bar == Head(tbTodo[t]) IN
    /\ tbAt[t] = "reconcile" /\ tbTodo[t] # <<>>
    /\ tbWindow' = TbWindowUpsert(tbWindow, bar)
    /\ tbTodo' = [tbTodo EXCEPT ![t] = Tail(@)]
    /\ tbGap' = (tbGap \/ (tbWindow # <<>> /\ bar = tbGot[t][1] /\ bar.ts > TbLastTs))
    /\ UNCHANGED <<tbNow, tbMatrix, tbForming, tbVerdict, tbAt, tbGot, tbEnd, tbTicks, tbRefreshes,
                   tbCrossed>>

\* _compare_feature_matrices: bars of the same time that differ
TbMismatch(a, s) == \E i \in DOMAIN a, j \in DOMAIN s : a[i].ts = s[j].ts /\ a[i].val # s[j].val

\* verify_matrix_alignment with a strategy: skipped while a matrix is warming.
TbVerdict ==
    IF Len(tbShadow) < TbLocked \/ Len(tbActive) < TbLocked THEN UNCHANGED tbVerdict
    ELSE LET diverges == TbMismatch(TbKeep(tbActive, TbLocked), TbKeep(tbShadow, TbLocked))
         IN tbLatch' = diverges /\ tbTape' = IF diverges THEN "DIVERGENT" ELSE "VERIFIED"

TbVerify(t) ==
    /\ tbAt[t] = "reconcile" /\ tbTodo[t] = <<>> /\ tbAt' = [tbAt EXCEPT ![t] = "idle"]
    /\ TbVerdict /\ tbGot' = [tbGot EXCEPT ![t] = <<>>] /\ tbEnd' = [tbEnd EXCEPT ![t] = 0]
    /\ UNCHANGED <<tbNow, tbMatrix, tbLeg, tbTodo, tbTicks, tbRefreshes, tbCrossed, tbGap>>

\* The engine asks for a verdict in each cycle.
TbCycle ==
    /\ TbVerdict
    /\ UNCHANGED <<tbNow, tbMatrix, tbLeg, tbAt, tbWork, tbTicks, tbRefreshes, tbCrossed, tbGap>>

\* sync_active_from_window: the active matrix is rebuilt from the window.
TbSyncActive ==
    /\ tbWindow # <<>> /\ tbActive' = FoldLeft(TbRingUpsert, <<>>, tbWindow)
    /\ UNCHANGED <<tbNow, tbShadow, tbLastClose, tbLeg, tbVerdict, tbAt, tbWork, tbTicks, tbRefreshes,
                   tbCrossed, tbGap>>

TbClose ==
    /\ tbNow < TbMaxBars /\ tbNow' = tbNow + 1
    /\ UNCHANGED <<tbMatrix, tbLeg, tbVerdict, tbAt, tbWork, tbTicks, tbRefreshes, tbCrossed, tbGap>>

TbNext ==
    \/ \E n \in {tbNow, tbNow + 1}, v \in {"part", "odd"} : TbStream(TbBar(n, v))
    \/ TbScheduled \/ TbCycle \/ TbSyncActive \/ TbClose
    \/ \E t \in TbThreads : TbForced(t) \/ TbReplace(t) \/ TbReconcile(t) \/ TbVerify(t)
    \/ \E t \in TbThreads, upto \in 0..(TbMaxBars + 1) : TbFetch(t, upto)

TbSpec == TbInit /\ [][TbNext]_tbVars

-----------------------------------------------------------------------------
\* Types; no matrix outgrows its length, and the latch is set exactly while the tape is divergent.
TbTypeOK ==
    /\ tbNow \in 1..TbMaxBars
    /\ Len(tbActive) <= TbActiveCap /\ Len(tbShadow) <= TbLocked /\ Len(tbWindow) <= TbWindowMax
    /\ tbAt \in [TbThreads -> {"idle", "fetch", "replace", "reconcile"}]
    /\ tbTape \in {"UNKNOWN", "VERIFIED", "DIVERGENT"} /\ (tbLatch <=> tbTape = "DIVERGENT")

\* The window the leg decides on is in order, holds nothing from the stream, and all its bars but
\* the newest are final, though the REST answer may end with a bar that is still forming: the next
\* refresh revises it before it appends.  Two refreshes that overlap, or a pause in which the
\* locked block moved past the newest bar, can break the last part
\* (dual_buffer_manager.py:885-935, 960-985, rolling_window.py:150-185).
TbWindowSound ==
    /\ \A i, j \in DOMAIN tbWindow : i < j => tbWindow[i].ts < tbWindow[j].ts
    /\ \A i \in DOMAIN tbWindow : tbWindow[i].val # "odd"
    /\ ~tbCrossed /\ ~tbGap =>
         \A i \in DOMAIN tbWindow : i < Len(tbWindow) => tbWindow[i].val = "final"

\* The tape is only called divergent when the stream has disagreed with the REST bars, or a bar was
\* read before it had closed: bars one matrix lacks are no divergence
\* (dual_buffer_manager.py:1055-1095).
TbDivergesForCause ==
    [][tbLatch' /\ ~tbLatch =>
         \E i \in DOMAIN tbActive : tbActive[i].val \in {"odd", "part"}
            \/ \E j \in DOMAIN tbShadow : tbShadow[j].val = "part"]_tbVars

\* What the buffers promise: the window a leg decides on is in order and final but for its newest
\* bar, and the tape is called divergent for a cause.
TbSound == [](TbTypeOK /\ TbWindowSound) /\ TbDivergesForCause
=============================================================================
