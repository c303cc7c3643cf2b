-------------------------- MODULE ExecutionProofs -------------------------
(***************************************************************************)
(* Proofs about the two ways an order reaches the broker, the idempotent   *)
(* submitter's and the flatten protocol's, about what may be spent, and    *)
(* about what the books and the mirrored rows say afterwards.              *)
(***************************************************************************)
EXTENDS Submitter, Liquidation, Capital, Sessions, Mirror, Inductions

-----------------------------------------------------------------------------
(* Submitter.                                                              *)

\* A thread at work holds its id's lock; a process that is down has none at work.
SuLocked ==
    /\ \A t \in SuThreads : suAt[t] # "idle" => suId[t] \in SuIds /\ suLock[suId[t]] = t
    /\ ~suUp => \A t \in SuThreads : suAt[t] = "idle"

\* An id has an order once one was placed under it, and an open order is not full.
SuOrdered ==
    \A c \in SuIds :
        /\ suPlaced[c] = 0 <=> suStatus[c] = SuNone
        /\ suStatus[c] \in {SuNone, "new"} => suFilled[c] = 0
        /\ suStatus[c] = "partially_filled" => suFilled[c] < SuQty

\* Past a lookup that did not fail the id has no order.
SuLookedUp ==
    \A t \in SuThreads :
        suAt[t] \in {"gate", "send"} /\ suId[t] \notin suBlind => suStatus[suId[t]] = SuNone

\* A thread past the checkpoint was past it when a gate was engaged, or none is.
SuChecked ==
    \A t \in SuThreads :
        suAt[t] = "send" /\ t \notin suExcused =>
            ~suHalt /\ suGate \notin {"preemption", "recon_lock", "risk_halt", "portfolio_halt"}

SuInv == SuTypeOK /\ SuLocked /\ SuOrdered /\ SuLookedUp /\ SuChecked /\ SuOnce /\ SuAccounted /\ SuFailClosed

\* The sum of the module's fold, and what a change of one id does to it.
LEMMA SuTotalIs == ASSUME NEW f PROVE SuTotal(f) = SumFold(f, SuIds)[SuIds]
  BY DEF SuTotal, FoldSet, MapThenFoldSet, SumFold, SumTurn, Pick

\* A change of one id changes the total by as much.
LEMMA SuTotalChanges ==
    ASSUME NEW f \in [SuIds -> Int], NEW c \in SuIds, NEW v \in Int
    PROVE  SuTotal([f EXCEPT ![c] = v]) = SuTotal(f) + (v - f[c])
  <1> DEFINE h == [f EXCEPT ![c] = v]
  <1>1. h \in [SuIds -> Int] /\ h[c] = v /\ \A x \in SuIds \ {c} : h[x] = f[x]
    OBVIOUS
  <1>2. IsFiniteSet(SuIds)
    BY SuAssumption
  <1> HIDE DEF h
  <1>3. SumFold(h, SuIds)[SuIds] = SumFold(f, SuIds)[SuIds] + (h[c] - f[c])
    BY <1>1, <1>2, SumChanges
  <1>4. SuTotal(h) = SuTotal(f) + (v - f[c])
    BY <1>1, <1>3, SuTotalIs
  <1> QED BY <1>4 DEF h

\* Totals are integers.
LEMMA SuTotalIsInt == ASSUME NEW f \in [SuIds -> Int] PROVE SuTotal(f) \in Int
  <1>1. IsFiniteSet(SuIds)
    BY SuAssumption
  <1> QED BY <1>1, SumIsInt, SuTotalIs

\* What an id has filled is within its quantity, signed by its side.
LEMMA SuSignedIs ==
    ASSUME SuTypeOK PROVE SuSigned \in [SuIds -> (-SuQty)..SuQty]
  <1>1. SuQty \in Nat /\ SuSide \in [SuIds -> {-1, 1}]
    BY SuAssumption
  <1>2. ASSUME NEW c \in SuIds PROVE SuSide[c] * suFilled[c] \in (-SuQty)..SuQty
    <2>1. suFilled[c] \in 0..SuQty /\ (SuSide[c] = 1 \/ SuSide[c] = -1)
      BY <1>1 DEF SuTypeOK
    <2> QED BY <1>1, <2>1
  <1> QED BY <1>2 DEF SuSigned

LEMMA SuInvInit == SuInit => SuInv
  <1> SUFFICES ASSUME SuInit PROVE SuInv
    OBVIOUS
  <1>1. SuQty \in Nat \ {0} /\ SuMaxFaults \in Nat /\ IsFiniteSet(SuIds)
    BY SuAssumption
  <1>2. suHalt \in BOOLEAN /\ suUp \in BOOLEAN
    BY DEF SuInit
  <1>3. SuTypeOK
    BY <1>1, <1>2 DEF SuInit, SuTypeOK, SuNone, SuGateNames
  <1>4. SuLocked /\ SuLookedUp /\ SuChecked /\ SuFailClosed /\ SuAccounted
    BY DEF SuInit, SuLocked, SuLookedUp, SuChecked, SuFailClosed, SuAccounted
  <1>5. SuOrdered /\ SuOnce
    BY <1>1 DEF SuInit, SuOrdered, SuOnce, SuNone
  <1> QED BY <1>3, <1>4, <1>5 DEF SuInv

\* What is left when a thread leaves its call.
LEMMA SuLeaveKeeps ==
    ASSUME SuTypeOK, SuLocked, NEW t \in SuThreads, suAt[t] # "idle", NEW got \in SUBSET SuIds,
           SuLeave(t, got)
    PROVE  /\ suLock' \in [SuIds -> SuThreads \cup {SuNone}] /\ suId' \in [SuThreads -> SuIds \cup {SuNone}]
           /\ suAt' \in [SuThreads -> {"idle", "lookup", "gate", "send"}]
           /\ suGot' = suGot \cup got /\ suAt'[t] = "idle"
           /\ \A u \in SuThreads \ {t} : suAt'[u] = suAt[u] /\ suId'[u] = suId[u]
           /\ \A u \in SuThreads : suAt'[u] # "idle" => suId'[u] \in SuIds /\ suLock'[suId'[u]] = u
  <1>1. suId[t] \in SuIds /\ suLock[suId[t]] = t
    BY DEF SuLocked
  <1>2. /\ suLock' = [suLock EXCEPT ![suId[t]] = SuNone] /\ suId' = [suId EXCEPT ![t] = SuNone]
        /\ suAt' = [suAt EXCEPT ![t] = "idle"] /\ suGot' = suGot \cup got
    BY DEF SuLeave, SuGo
  <1>3. \A u \in SuThreads : suAt'[u] # "idle" => suId'[u] \in SuIds /\ suLock'[suId'[u]] = u
    BY <1>1, <1>2 DEF SuTypeOK, SuLocked
  <1> QED BY <1>1, <1>2, <1>3 DEF SuTypeOK

LEMMA SuCallStep ==
    ASSUME SuInv, NEW t \in SuThreads, NEW c \in SuIds, SuCall(t, c) PROVE SuInv'
  <1>1. /\ suUp /\ suLock[c] = SuNone /\ suLock' = [suLock EXCEPT ![c] = t] /\ suId' = [suId EXCEPT ![t] = c]
        /\ suAt' = [suAt EXCEPT ![t] = "lookup"] /\ suGot' = suGot
        /\ UNCHANGED <<suBroker, suBooks, suGates, suBoot, suFaults, suBlind>>
    BY DEF SuCall, SuGo
  <1> USE DEF suBroker, suBooks, suGates, suBoot
  <1>2. SuTypeOK'
    BY <1>1 DEF SuInv, SuTypeOK
  <1>3. SuLocked'
    BY <1>1, SuAssumption DEF SuInv, SuTypeOK, SuLocked
  <1>4. SuLookedUp' /\ SuChecked'
    BY <1>1 DEF SuInv, SuTypeOK, SuLookedUp, SuChecked
  <1>5. SuOrdered' /\ SuOnce' /\ SuAccounted' /\ SuFailClosed'
    BY <1>1 DEF SuInv, SuOrdered, SuOnce, SuAccounted, SuFailClosed
  <1> QED BY <1>2, <1>3, <1>4, <1>5 DEF SuInv

LEMMA SuLookupStep == ASSUME SuInv, NEW t \in SuThreads, SuLookup(t) PROVE SuInv'
  <1>1. suAt[t] = "lookup" /\ UNCHANGED <<suBroker, suBooks, suGates, suBoot>>
    BY DEF SuLookup
  <1>2. suId[t] \in SuIds
    BY <1>1 DEF SuInv, SuLocked
  <1> USE DEF suBroker, suBooks, suGates, suBoot
  <1>3. SuOrdered' /\ SuAccounted' /\ SuFailClosed'
    BY <1>1 DEF SuInv, SuOrdered, SuAccounted, SuFailClosed
  <1>4. CASE SuLeave(t, {suId[t]}) /\ UNCHANGED <<suFaults, suBlind>>
    <2>1. /\ suLock' \in [SuIds -> SuThreads \cup {SuNone}] /\ suId' \in [SuThreads -> SuIds \cup {SuNone}]
          /\ suAt' \in [SuThreads -> {"idle", "lookup", "gate", "send"}]
          /\ suGot' = suGot \cup {suId[t]} /\ suAt'[t] = "idle"
          /\ \A u \in SuThreads \ {t} : suAt'[u] = suAt[u] /\ suId'[u] = suId[u]
          /\ \A u \in SuThreads : suAt'[u] # "idle" => suId'[u] \in SuIds /\ suLock'[suId'[u]] = u
      BY <1>1, <1>2, <1>4, SuLeaveKeeps DEF SuInv
    <2>2. SuTypeOK'
      BY <1>1, <1>2, <1>4, <2>1 DEF SuInv, SuTypeOK
    <2>3. SuLocked' /\ SuLookedUp' /\ SuChecked' /\ SuOnce'
      BY <1>1, <1>4, <2>1 DEF SuInv, SuLocked, SuLookedUp, SuChecked, SuOnce
    <2> QED BY <1>3, <2>2, <2>3 DEF SuInv
  <1>5. CASE /\ SuGo(t, "gate") /\ UNCHANGED <<suLock, suId, suGot>>
             /\ \/ suStatus[suId[t]] = SuNone /\ UNCHANGED <<suFaults, suBlind>>
                \/ suFaults < SuMaxFaults /\ suFaults' = suFaults + 1 /\ suBlind' = suBlind \cup {suId[t]}
    <2>1. suAt' = [suAt EXCEPT ![t] = "gate"] /\ UNCHANGED <<suLock, suId, suGot>>
      BY <1>5 DEF SuGo
    <2>2. suFaults' \in 0..SuMaxFaults /\ suBlind' \subseteq SuIds /\ suBlind \subseteq suBlind'
      BY <1>2, <1>5, SuAssumption DEF SuInv, SuTypeOK
    <2>3. suId[t] \in suBlind' \/ suStatus[suId[t]] = SuNone
      BY <1>5
    <2>4. SuTypeOK'
      BY <1>1, <2>1, <2>2 DEF SuInv, SuTypeOK
    <2>5. SuLocked' /\ SuLookedUp' /\ SuChecked'
      BY <1>1, <2>1, <2>2, <2>3 DEF SuInv, SuTypeOK, SuLocked, SuLookedUp, SuChecked
    <2>6. SuOnce'
      BY <1>1, <2>2 DEF SuInv, SuOnce
    <2> QED BY <1>3, <2>4, <2>5, <2>6 DEF SuInv
  <1> QED BY <1>4, <1>5 DEF SuLookup

LEMMA SuGuardStep == ASSUME SuInv, NEW t \in SuThreads, NEW force \in BOOLEAN, SuGuard(t, force) PROVE SuInv'
  <1>1. suAt[t] = "gate" /\ UNCHANGED <<suBroker, suBooks, suGates, suBoot, suFaults, suBlind>>
    BY DEF SuGuard
  <1> USE DEF suBroker, suBooks, suGates, suBoot
  <1>2. SuOrdered' /\ SuOnce' /\ SuAccounted' /\ SuFailClosed'
    BY <1>1 DEF SuInv, SuOrdered, SuOnce, SuAccounted, SuFailClosed
  <1>3. CASE SuBlocked(suId[t], force)
    <2>1. SuLeave(t, {})
      BY <1>3 DEF SuGuard
    <2>2. /\ suLock' \in [SuIds -> SuThreads \cup {SuNone}] /\ suId' \in [SuThreads -> SuIds \cup {SuNone}]
          /\ suAt' \in [SuThreads -> {"idle", "lookup", "gate", "send"}]
          /\ suGot' = suGot \cup {} /\ suAt'[t] = "idle"
          /\ \A u \in SuThreads \ {t} : suAt'[u] = suAt[u] /\ suId'[u] = suId[u]
          /\ \A u \in SuThreads : suAt'[u] # "idle" => suId'[u] \in SuIds /\ suLock'[suId'[u]] = u
      BY <1>1, <2>1, SuLeaveKeeps DEF SuInv
    <2>3. SuTypeOK'
      BY <1>1, <2>2 DEF SuInv, SuTypeOK
    <2>4. SuLocked' /\ SuLookedUp' /\ SuChecked'
      BY <1>1, <2>2 DEF SuInv, SuLocked, SuLookedUp, SuChecked
    <2> QED BY <1>2, <2>3, <2>4 DEF SuInv
  <1>4. CASE ~SuBlocked(suId[t], force)
    <2>1. suAt' = [suAt EXCEPT ![t] = "send"] /\ UNCHANGED <<suLock, suId, suGot>>
      BY <1>4 DEF SuGuard, SuGo
    <2>2. ~suHalt /\ suGate \notin {"preemption", "recon_lock", "risk_halt", "portfolio_halt"}
      BY <1>4 DEF SuBlocked
    <2>3. SuTypeOK'
      BY <1>1, <2>1 DEF SuInv, SuTypeOK
    <2>4. SuLocked' /\ SuLookedUp'
      BY <1>1, <2>1 DEF SuInv, SuTypeOK, SuLocked, SuLookedUp
    <2>5. SuChecked'
      BY <1>1, <2>1, <2>2 DEF SuInv, SuTypeOK, SuChecked
    <2> QED BY <1>2, <2>3, <2>4, <2>5 DEF SuInv
  <1> QED BY <1>3, <1>4

LEMMA SuSendStep ==
    ASSUME SuInv, NEW t \in SuThreads, NEW status \in {"new", "rejected"}, SuSend(t, status) PROVE SuInv'
  <1> DEFINE c == suId[t]
  <1>1. /\ suAt[t] = "send" /\ SuLeave(t, {c}) /\ suExcused' = suExcused \ {t}
        /\ suPlaced' = [suPlaced EXCEPT ![c] = IF suPlaced[c] < 2 THEN suPlaced[c] + 1 ELSE suPlaced[c]]
        /\ suStatus' = [suStatus EXCEPT ![c] = IF suStatus[c] = SuNone THEN status ELSE suStatus[c]]
        /\ UNCHANGED <<suFilled, suBooks, suGate, suHalt, suBoot, suFaults, suBlind>>
    BY DEF SuSend
  <1>2. c \in SuIds /\ suLock[c] = t
    BY <1>1 DEF SuInv, SuLocked
  <1>3. /\ suLock' \in [SuIds -> SuThreads \cup {SuNone}] /\ suId' \in [SuThreads -> SuIds \cup {SuNone}]
        /\ suAt' \in [SuThreads -> {"idle", "lookup", "gate", "send"}]
        /\ suGot' = suGot \cup {c} /\ suAt'[t] = "idle"
        /\ \A u \in SuThreads \ {t} : suAt'[u] = suAt[u] /\ suId'[u] = suId[u]
        /\ \A u \in SuThreads : suAt'[u] # "idle" => suId'[u] \in SuIds /\ suLock'[suId'[u]] = u
    BY <1>1, <1>2, SuLeaveKeeps DEF SuInv
  <1>4. /\ suPlaced' \in [SuIds -> 0..2] /\ suPlaced'[c] # 0
        /\ suStatus' \in [SuIds -> {SuNone, "new", "partially_filled", "filled", "rejected"}] /\ suStatus'[c] # SuNone
        /\ \A d \in SuIds \ {c} : suPlaced'[d] = suPlaced[d] /\ suStatus'[d] = suStatus[d]
    BY <1>1, <1>2 DEF SuInv, SuTypeOK, SuNone
  <1>5. \/ suStatus[c] = SuNone /\ suStatus'[c] \in {"new", "rejected"}
        \/ suStatus'[c] = suStatus[c]
    BY <1>1, <1>2 DEF SuInv, SuTypeOK
  <1>6. suPlaced[c] = 0 => suPlaced'[c] = 1
    BY <1>1, <1>2 DEF SuInv, SuTypeOK
  <1>7. c \in suBlind \/ suPlaced[c] = 0
    BY <1>1, <1>2 DEF SuInv, SuLookedUp, SuOrdered
  <1> USE DEF suBooks, suBoot
  <1>8. SuTypeOK'
    BY <1>1, <1>2, <1>3, <1>4 DEF SuInv, SuTypeOK
  <1>9. ASSUME NEW u \in SuThreads, u # t, suAt[u] # "idle" PROVE suId[u] # c
    BY <1>2, <1>9 DEF SuInv, SuLocked
  <1> HIDE DEF c
  <1>10. SuLocked'
    BY <1>1, <1>3 DEF SuInv, SuLocked
  <1>11. SuLookedUp'
    <2> SUFFICES ASSUME NEW u \in SuThreads, suAt'[u] \in {"gate", "send"}, suId'[u] \notin suBlind'
                 PROVE  suStatus'[suId'[u]] = SuNone
      BY DEF SuLookedUp
    <2>1. u # t /\ suAt[u] = suAt'[u] /\ suId[u] = suId'[u] /\ suAt[u] # "idle"
      BY <1>3
    <2>2. suId[u] \in SuIds \ {c}
      BY <1>9, <2>1 DEF SuInv, SuLocked
    <2>3. suStatus[suId[u]] = SuNone
      BY <1>1, <2>1 DEF SuInv, SuLookedUp
    <2> QED BY <1>4, <2>1, <2>2, <2>3
  <1>12. SuChecked'
    BY <1>1, <1>3 DEF SuInv, SuChecked
  <1>13. SuOrdered'
    BY <1>1, <1>4, <1>5 DEF SuInv, SuOrdered, SuNone
  <1>14. SuOnce'
    BY <1>1, <1>4, <1>6, <1>7 DEF SuInv, SuOnce
  <1>15. SuAccounted' /\ SuFailClosed'
    BY <1>1 DEF SuInv, SuAccounted, SuFailClosed
  <1> QED BY <1>8, <1>10, <1>11, <1>12, <1>13, <1>14, <1>15 DEF SuInv

LEMMA SuFillStep == ASSUME SuInv, NEW c \in SuIds, SuFill(c) PROVE SuInv'
  <1>1. /\ suStatus[c] \in {"new", "partially_filled"} /\ suFilled' = [suFilled EXCEPT ![c] = suFilled[c] + 1]
        /\ suStatus' = [suStatus EXCEPT ![c] = IF suFilled[c] + 1 = SuQty THEN "filled" ELSE "partially_filled"]
        /\ UNCHANGED <<suPlaced, suBooks, suThread, suGates, suBoot, suFaults, suBlind>>
    BY DEF SuFill
  <1>2. SuQty \in Nat \ {0} /\ suFilled[c] \in 0..SuQty /\ suFilled[c] < SuQty
    BY <1>1, SuAssumption DEF SuInv, SuTypeOK, SuOrdered
  <1>3. /\ suFilled' \in [SuIds -> 0..SuQty] /\ suFilled'[c] = suFilled[c] + 1
        /\ suStatus' \in [SuIds -> {SuNone, "new", "partially_filled", "filled", "rejected"}]
        /\ suStatus'[c] \in {"partially_filled", "filled"}
        /\ suStatus'[c] = "partially_filled" => suFilled'[c] < SuQty
        /\ \A d \in SuIds \ {c} : suFilled'[d] = suFilled[d] /\ suStatus'[d] = suStatus[d]
    BY <1>1, <1>2 DEF SuInv, SuTypeOK
  <1> USE DEF suBooks, suThread, suGates, suBoot
  <1>4. SuTypeOK'
    BY <1>1, <1>3 DEF SuInv, SuTypeOK
  <1>5. SuOrdered'
    BY <1>1, <1>3 DEF SuInv, SuOrdered, SuNone
  <1>6. SuLookedUp'
    <2> SUFFICES ASSUME NEW u \in SuThreads, suAt[u] \in {"gate", "send"}, suId[u] \notin suBlind
                 PROVE  suStatus'[suId[u]] = SuNone
      BY <1>1 DEF SuLookedUp
    <2>1. suId[u] \in SuIds /\ suStatus[suId[u]] = SuNone
      BY DEF SuInv, SuLookedUp, SuLocked
    <2>2. suId[u] # c
      BY <1>1, <2>1 DEF SuNone
    <2> QED BY <1>3, <2>1, <2>2
  <1>7. SuLocked' /\ SuChecked' /\ SuOnce' /\ SuAccounted' /\ SuFailClosed'
    BY <1>1 DEF SuInv, SuLocked, SuChecked, SuOnce, SuAccounted, SuFailClosed
  <1> QED BY <1>4, <1>5, <1>6, <1>7 DEF SuInv

\* A booking adds to the record what it adds to what the record accounts for.
LEMMA SuApplyStep == ASSUME SuInv, NEW c \in SuIds, SuApply(c) PROVE SuInv'
  <1>1. /\ suUp /\ c \in suGot \ suApplied /\ suBook' = suBook + SuSigned[c]
        /\ suKnown' = [suKnown EXCEPT ![c] = SuSigned[c]]
        /\ suRebooked' = IF c \notin suApplied /\ suKnown[c] # 0 THEN suRebooked \cup {c} ELSE suRebooked
        /\ suApplied' = suApplied \cup {c}
        /\ UNCHANGED <<suBroker, suThread, suGates, suBoot, suFaults, suBlind>>
    BY DEF SuApply, SuBookIt
  <1>2. SuSigned[c] \in (-SuQty)..SuQty /\ SuSigned[c] \in Int
    BY SuSignedIs, SuAssumption DEF SuInv
  <1> USE DEF suBroker, suThread, suGates, suBoot
  <1>3. SuTypeOK'
    BY <1>1, <1>2 DEF SuInv, SuTypeOK
  <1>4. SuLocked' /\ SuOrdered' /\ SuLookedUp' /\ SuChecked' /\ SuOnce' /\ SuFailClosed'
    BY <1>1 DEF SuInv, SuLocked, SuOrdered, SuLookedUp, SuChecked, SuOnce, SuFailClosed
  <1>5. SuAccounted'
    <2> SUFFICES ASSUME ~suHalt, suRebooked' = {} PROVE suBook' = SuTotal(suKnown')
      BY <1>1 DEF SuAccounted
    <2>1. suRebooked = {} /\ suKnown[c] = 0
      BY <1>1
    <2>2. suBook = SuTotal(suKnown)
      BY <1>1, <2>1 DEF SuInv, SuAccounted
    <2>3. suKnown \in [SuIds -> Int]
      BY SuAssumption DEF SuInv, SuTypeOK
    <2>4. SuTotal(suKnown') = SuTotal(suKnown) + (SuSigned[c] - 0)
      BY <1>1, <1>2, <2>1, <2>3, SuTotalChanges
    <2>5. SuTotal(suKnown) \in Int
      BY <2>3, SuTotalIsInt
    <2> QED BY <1>1, <1>2, <2>2, <2>4, <2>5
  <1> QED BY <1>3, <1>4, <1>5 DEF SuInv

LEMMA SuCrashStep == ASSUME SuInv, SuCrash PROVE SuInv'
  <1>1. /\ suFaults < SuMaxFaults /\ suFaults' = suFaults + 1 /\ ~suUp' /\ ~suHalt'
        /\ suApplied' = {} /\ suGot' = {} /\ suExcused' = {}
        /\ suLock' = [c \in SuIds |-> SuNone] /\ suAt' = [t \in SuThreads |-> "idle"]
        /\ suId' = [t \in SuThreads |-> SuNone]
        /\ UNCHANGED <<suBroker, suBook, suKnown, suRebooked, suGate, suLoaded, suSoak, suBlind>>
    BY DEF SuCrash
  <1>2. suUp' \in BOOLEAN /\ suHalt' \in BOOLEAN
    BY DEF SuCrash
  <1>3. suFaults' \in 0..SuMaxFaults
    BY <1>1, SuAssumption DEF SuInv, SuTypeOK
  <1>4. SuTypeOK'
    BY <1>1, <1>2, <1>3 DEF SuInv, SuTypeOK, suBroker
  <1>5. SuLocked' /\ SuOrdered' /\ SuLookedUp' /\ SuChecked' /\ SuOnce' /\ SuFailClosed' /\ SuAccounted'
    BY <1>1 DEF SuInv, SuLocked, SuOrdered, SuLookedUp, SuChecked, SuOnce, SuFailClosed, SuAccounted, suBroker
  <1> QED BY <1>4, <1>5 DEF SuInv

LEMMA SuStartStep == ASSUME SuInv, NEW enabled \in SUBSET SuLegs, SuStart(enabled) PROVE SuInv'
  <1>1. /\ ~suUp /\ suUp' /\ suHalt' = SuMismatch /\ suLoaded' = SuResolve(enabled)
        /\ suKnown' = IF SuMismatch THEN suKnown ELSE SuSigned
        /\ suRebooked' = IF SuMismatch THEN suRebooked ELSE {}
        /\ UNCHANGED <<suBroker, suBook, suApplied, suThread, suGate, suExcused, suSoak, suFaults, suBlind>>
    BY DEF SuStart
  <1>2. suUp' \in BOOLEAN /\ suHalt' \in BOOLEAN
    BY DEF SuStart, SuMismatch
  <1>3. suHalt' <=> suBook # SuTotal(SuSigned)
    BY <1>1 DEF SuMismatch, SuHeld
  <1>4. suLoaded' \subseteq SuLegs
    BY <1>1, SuAssumption DEF SuResolve
  <1>5. suKnown' \in [SuIds -> (-SuQty)..SuQty]
    BY <1>1, SuSignedIs DEF SuInv, SuTypeOK
  <1> USE DEF suBroker, suThread
  <1>6. SuTypeOK'
    BY <1>1, <1>2, <1>4, <1>5 DEF SuInv, SuTypeOK
  <1>7. SuLocked' /\ SuOrdered' /\ SuLookedUp' /\ SuChecked' /\ SuOnce'
    BY <1>1 DEF SuInv, SuLocked, SuOrdered, SuLookedUp, SuChecked, SuOnce
  <1>8. SuFailClosed'
    BY <1>1 DEF SuFailClosed, SuResolve
  <1>9. SuAccounted'
    BY <1>1, <1>3 DEF SuAccounted, SuMismatch, SuHeld
  <1> QED BY <1>6, <1>7, <1>8, <1>9 DEF SuInv

LEMMA SuGateStep == ASSUME SuInv, SuRelease \/ \E g \in SuEngaged : SuEngage(g) PROVE SuInv'
  <1>1. /\ UNCHANGED <<suBroker, suBooks, suThread, suHalt, suBoot, suFaults, suBlind>>
        /\ suGate' \in SuGateNames \cup {SuNone} /\ suExcused' \subseteq SuThreads
    BY SuAssumption DEF SuRelease, SuEngage, SuInv, SuTypeOK, SuGateNames
  <1>2. \/ suGate' = SuNone /\ suExcused' = suExcused
        \/ suExcused' = {t \in SuThreads : suAt[t] = "send"}
    BY DEF SuRelease, SuEngage
  <1> USE DEF suBroker, suBooks, suThread, suBoot
  <1>3. SuTypeOK'
    BY <1>1 DEF SuInv, SuTypeOK
  <1>4. SuChecked'
    BY <1>1, <1>2 DEF SuInv, SuChecked, SuNone
  <1>5. SuLocked' /\ SuOrdered' /\ SuLookedUp' /\ SuOnce' /\ SuFailClosed' /\ SuAccounted'
    BY <1>1 DEF SuInv, SuLocked, SuOrdered, SuLookedUp, SuOnce, SuFailClosed, SuAccounted
  <1> QED BY <1>3, <1>4, <1>5 DEF SuInv

LEMMA SuInvStep == SuInv /\ [SuNext]_suVars => SuInv'
  <1> SUFFICES ASSUME SuInv, [SuNext]_suVars PROVE SuInv'
    OBVIOUS
  <1>1. CASE UNCHANGED suVars
    BY <1>1 DEF suVars, SuInv, SuTypeOK, SuLocked, SuOrdered, SuLookedUp, SuChecked, SuOnce, SuFailClosed, SuAccounted
  <1> QED
    BY <1>1, SuGateStep, SuCrashStep, SuCallStep, SuLookupStep, SuGuardStep, SuSendStep, SuFillStep, SuApplyStep,
       SuStartStep DEF SuNext

\* Orders are placed by a send.
LEMMA SuSends ==
    ASSUME SuInv, [SuNext]_suVars, NEW t \in SuThreads, NEW c \in SuIds,
           suId[t] = c, suId'[t] # c, suPlaced'[c] # suPlaced[c]
    PROVE  \/ t \in suExcused
           \/ ~suHalt /\ suGate \notin {"preemption", "recon_lock", "risk_halt", "portfolio_halt"}
  <1>1. \E u \in SuThreads, status \in {"new", "rejected"} : SuSend(u, status)
    BY DEF SuNext, suVars, suBroker, SuEngage, SuRelease, SuCrash, SuCall, SuLookup, SuGuard, SuFill, SuApply, SuBookIt, SuStart
  <1>2. PICK u \in SuThreads, status \in {"new", "rejected"} : SuSend(u, status)
    BY <1>1
  <1>3. suAt[u] = "send" /\ suId' = [suId EXCEPT ![u] = SuNone]
    BY <1>2 DEF SuSend, SuLeave
  <1>4. u = t
    BY <1>3 DEF SuInv, SuTypeOK
  <1> QED BY <1>3, <1>4 DEF SuInv, SuChecked

\* One order per id unless a lookup failed, a record that accounts for the fills it was told of, no
\* leg outside the charter and no order past an engaged gate: for any number of threads, ids,
\* crashes and restarts.
THEOREM SubmitsSafely == SuSpec => SuSubmitsSafely
  <1>1. SuInv => SuTypeOK /\ SuOnce /\ SuAccounted /\ SuFailClosed
    BY DEF SuInv
  <1>2. SuInv /\ [SuNext]_suVars =>
          [\A t \in SuThreads, c \in SuIds :
             suId[t] = c /\ suId'[t] # c /\ suPlaced'[c] # suPlaced[c]
                => \/ t \in suExcused
                   \/ ~suHalt /\ suGate \notin {"preemption", "recon_lock", "risk_halt",
                                                "portfolio_halt"}]_suVars
    BY SuSends
  <1> QED BY <1>1, <1>2, SuInvInit, SuInvStep, PTL DEF SuSpec, SuSubmitsSafely, SuKillOutranks

-----------------------------------------------------------------------------
(* Liquidation.                                                            *)

LqAll == <<"all", 0>>

\* What a call keeps of its own: slots not sent yet are nobody's, a call that is to read has no
\* order, the last two loops visit positions of the snapshot, a recovery call has one.
LqOrderly ==
    /\ \A i \in LqIds : i > lqSent => lqBook[i].by = LqNobody
    /\ \A t \in LqTasks :
         /\ lqAt[t] = "read" => \A i \in LqIds : lqBook[i].by # t
         /\ lqAt[t] \in {"flatten", "market"} => lqTodo[t] \subseteq LqWanted(t)
         /\ lqAt[t] = "market" => lqTodo[t] # {}
         /\ lqAt[t] = "close" => LqWanted(t) = {}
         /\ lqAt[t] = "check" => t[1] = "rec" /\ lqSnap[t][t[2]] # 0

\* The portfolio flatten has a result or a failure for what its loop has visited.
LqVisited ==
    /\ lqAt[LqAll] \in {"read", "cancel", "await", "again", "clear", "close"} => lqTried = {} /\ lqFailed = {}
    /\ lqAt[LqAll] \in {"flatten", "market"} /\ ~lqSoak =>
         lqTried \cup lqFailed = LqWanted(LqAll) \ lqTodo[LqAll]

\* The orders t has sent for s; whether its loop has still to come to s.
LqMine(t, s) == {i \in LqIds : lqBook[i].by = t /\ lqBook[i].sym = s}
LqPending(t, s) ==
    \/ lqAt[t] \in {"check", "cancel", "await", "again", "clear"}
    \/ lqAt[t] \in {"flatten", "market"} /\ s \in lqTodo[t]

\* v lies between the snapshot q and zero.
LqBetween(v, q) == (q > 0 => 0 <= v /\ v <= q) /\ (q < 0 => q <= v /\ v <= 0)

\* One order at most, against the position held, and not larger than it.
LqBounded(held, q, mine, book) ==
    /\ LqBetween(held, q)
    /\ \A i, j \in mine : i = j
    /\ \A i \in mine : LqBetween(held + book[i].qty, q) /\ LqBetween(-book[i].qty, q)

\* Without a cause, what a call has still to visit is as it was read.
LqHolds(t, s) ==
    /\ LqPending(t, s) => lqHeld[s] = lqSnap[t][s] /\ LqMine(t, s) = {}
    /\ LqBounded(lqHeld[s], lqSnap[t][s], LqMine(t, s), lqBook)
LqFlat == \A t \in LqTasks, s \in LqSyms : LqActive(t, s) /\ lqCause[s] = {} => LqHolds(t, s)

LqInv == LqTypeOK /\ LqOrderly /\ LqVisited /\ LqFlat /\ LqEveryoneTried

\* The kinds of task do not coincide.
LEMMA LqNames ==
    ASSUME NEW t \in LqTasks
    PROVE  /\ t # LqNobody /\ t # LqStrategy /\ (t[1] = "all" <=> t = LqAll)
           /\ t # LqAll => t[1] \in {"leg", "rec"} /\ t[2] \in LqLegs
  <1>1. CASE t = <<"all", 0>>
    BY <1>1 DEF LqNobody, LqStrategy, LqAll
  <1>2. CASE t \in {"leg", "rec"} \X LqLegs
    <2>1. t = <<t[1], t[2]>> /\ t[1] \in {"leg", "rec"} /\ t[2] \in LqLegs
      BY <1>2
    <2>2. t[1] # "none" /\ t[1] # "strategy" /\ t[1] # "all"
      BY <2>1
    <2> QED BY <2>1, <2>2 DEF LqNobody, LqStrategy, LqAll
  <1> QED BY <1>1, <1>2 DEF LqTasks

\* The portfolio flatten is a task.
LEMMA LqAllIsTask == LqAll \in LqTasks
  BY DEF LqAll, LqTasks

\* The sign of a quantity.
LEMMA LqSignIs ==
    ASSUME NEW n \in Int
    PROVE  LqSign(n) \in Int /\ (n > 0 => LqSign(n) = 1) /\ (n < 0 => LqSign(n) = -1) /\ (n = 0 => LqSign(n) = 0)
  BY DEF LqSign

\* The loops take the least symbol left, and there is one.
LEMMA LqLeastIn == ASSUME NEW T \in SUBSET LqSyms, T # {} PROVE LqLeast(T) \in T
  <1>1. T \subseteq Nat
    BY LqAssumption
  <1>2. \E x \in T : \A y \in T : ~(<<y, x>> \in OpToRel(<, Nat))
    BY <1>1, WFMin, NatLessThanWellFounded, Zenon
  <1>3. PICK x \in T : \A y \in T : ~(<<y, x>> \in OpToRel(<, Nat))
    BY <1>2, Zenon
  <1>4. \A y \in T : ~(y < x)
    <2>1. x \in Nat /\ \A y \in T : y \in Nat
      BY <1>1
    <2> QED BY <1>3, <2>1, Zenon DEF OpToRel
  <1>5. \A y \in T : x <= y
    BY <1>1, <1>4
  <1>6. \E z \in T : \A u \in T : z <= u
    BY <1>5
  <1> QED BY <1>6, Zenon DEF LqLeast

LEMMA LqInvInit == LqInit => LqInv
  <1> SUFFICES ASSUME LqInit PROVE LqInv
    OBVIOUS
  <1>1. /\ LqMaxOrders \in Nat /\ LqMaxCalls \in Nat /\ LqMaxFaults \in Nat
        /\ LqStarts \subseteq [LqSyms -> Int]
    BY LqAssumption
  <1>2. lqBook \in [LqIds -> [sym : LqSyms \cup {0}, qty : Int, by : LqTasks \cup {LqNobody, LqStrategy}]]
    BY DEF LqInit
  <1>3. lqTwap \in [LqSyms -> -1..2]
    BY DEF LqInit
  <1>4. lqSoak \in BOOLEAN
    BY DEF LqInit
  <1>5. lqAt \in [LqTasks -> LqPlaces] /\ \A t \in LqTasks : lqAt[t] = "idle"
    BY DEF LqInit, LqPlaces
  <1>6. LqTypeOK
    BY <1>1, <1>2, <1>3, <1>4, <1>5 DEF LqInit, LqTypeOK
  <1>7. LqOrderly
    BY <1>5 DEF LqInit, LqOrderly
  <1>8. LqVisited /\ LqEveryoneTried /\ LqFlat
    BY <1>5, LqAllIsTask DEF LqVisited, LqEveryoneTried, LqFlat, LqActive, LqAll
  <1> QED BY <1>6, <1>7, <1>8 DEF LqInv

-----------------------------------------------------------------------------
\* A call's hold on a symbol stands when nothing it is about changes.
LEMMA LqHoldsKept ==
    ASSUME NEW t \in LqTasks, NEW s \in LqSyms, LqHolds(t, s), lqHeld'[s] = lqHeld[s],
           lqSnap'[t][s] = lqSnap[t][s], LqMine(t, s)' = LqMine(t, s),
           \A i \in LqMine(t, s) : lqBook'[i].qty = lqBook[i].qty,
           LqPending(t, s)' => LqPending(t, s)
    PROVE  LqHolds(t, s)'
  <1>1. LqBounded(lqHeld[s], lqSnap[t][s], LqMine(t, s), lqBook')
    BY DEF LqHolds, LqBounded
  <1>2. LqBounded(lqHeld[s], lqSnap[t][s], LqMine(t, s), lqBook)'
    BY <1>1
  <1> QED BY <1>2 DEF LqHolds

\* The broker's own steps leave the calls where they are.
LEMMA LqMarketKeeps ==
    ASSUME LqOrderly, LqVisited, LqEveryoneTried, UNCHANGED <<lqCall, lqTried, lqFailed, lqSoak>>,
           \A i \in LqIds : i > lqSent' => lqBook'[i].by = LqNobody,
           \A i \in LqIds, t \in LqTasks : lqBook'[i].by = t => lqBook[i].by = t
    PROVE  LqOrderly' /\ LqVisited' /\ LqEveryoneTried'
  <1> USE DEF lqCall
  <1>1. LqVisited' /\ LqEveryoneTried'
    BY DEF LqVisited, LqEveryoneTried, LqWanted
  <1>2. LqOrderly'
    BY DEF LqOrderly, LqWanted
  <1> QED BY <1>1, <1>2

\* Orders of calls are not touched by a new order of the strategies.
LEMMA LqPlaceStep ==
    ASSUME LqInv, NEW s \in LqSyms, NEW q \in Int, LqPlace(s, q, LqStrategy),
           UNCHANGED <<lqHeld, lqCall, lqTried, lqFailed, lqSoak, lqCause>>
    PROVE  /\ lqSent' \in 0..LqMaxOrders /\ LqOrderly' /\ LqVisited' /\ LqEveryoneTried' /\ LqFlat'
           /\ lqBook' \in [LqIds -> [sym : LqSyms \cup {0}, qty : Int, by : LqTasks \cup {LqNobody, LqStrategy}]]
  <1>1. /\ lqSent < LqMaxOrders /\ lqSent' = lqSent + 1
        /\ lqBook' = [lqBook EXCEPT ![lqSent + 1] = [sym |-> s, qty |-> q, by |-> LqStrategy]]
    BY DEF LqPlace
  <1>2. lqSent \in 0..LqMaxOrders /\ LqMaxOrders \in Nat /\ lqSent + 1 \in LqIds
    BY <1>1, LqAssumption DEF LqInv, LqTypeOK, LqIds
  <1>3. lqBook \in [LqIds -> [sym : LqSyms \cup {0}, qty : Int, by : LqTasks \cup {LqNobody, LqStrategy}]]
    BY DEF LqInv, LqTypeOK
  <1>4. /\ lqBook' \in [LqIds -> [sym : LqSyms \cup {0}, qty : Int, by : LqTasks \cup {LqNobody, LqStrategy}]]
        /\ lqBook'[lqSent + 1].by = LqStrategy /\ lqBook[lqSent + 1].by = LqNobody
        /\ \A i \in LqIds : i # lqSent + 1 => lqBook'[i] = lqBook[i]
    BY <1>1, <1>2, <1>3 DEF LqInv, LqOrderly
  <1>5. \A i \in LqIds, t \in LqTasks : (lqBook'[i].by = t <=> lqBook[i].by = t)
    BY <1>4, LqNames
  <1>6. \A i \in LqIds : i > lqSent' => lqBook'[i].by = LqNobody
    BY <1>1, <1>2, <1>4 DEF LqInv, LqOrderly, LqIds
  <1>7. LqOrderly' /\ LqVisited' /\ LqEveryoneTried'
    BY <1>5, <1>6, LqMarketKeeps DEF LqInv
  <1>8. LqFlat'
    <2> SUFFICES ASSUME NEW t \in LqTasks, NEW r \in LqSyms, LqActive(t, r)', lqCause'[r] = {}
                 PROVE  LqHolds(t, r)'
      BY DEF LqFlat
    <2>1. LqHolds(t, r)
      BY DEF LqInv, LqFlat, LqActive, lqCall
    <2>2. \A i \in LqIds : lqBook[i].by = t \/ lqBook'[i].by = t => lqBook'[i] = lqBook[i]
      BY <1>4, LqNames
    <2>3. LqMine(t, r)' = LqMine(t, r)
      BY <1>5, <2>2 DEF LqMine
    <2>4. \A i \in LqMine(t, r) : lqBook'[i].qty = lqBook[i].qty
      BY <2>2 DEF LqMine
    <2>5. LqPending(t, r)' => LqPending(t, r)
      BY DEF LqPending, lqCall
    <2> QED BY <2>1, <2>3, <2>4, <2>5, LqHoldsKept DEF lqCall
  <1> QED BY <1>1, <1>2, <1>4, <1>7, <1>8

LEMMA LqSubmitStep ==
    ASSUME LqInv, NEW s \in LqLegs, NEW q \in {-1, 2}, NEW passive \in BOOLEAN, LqSubmit(s, q, passive)
    PROVE  LqInv'
  <1>1. s \in LqSyms /\ q \in Int /\ q \in -1..2
    BY LqAssumption
  <1>2. /\ lqStaged' = lqStaged \cup {s}
        /\ UNCHANGED <<lqHeld, lqDoomed, lqCall, lqTried, lqFailed, lqSoak, lqFaults, lqCause>>
    BY DEF LqSubmit
  <1>3. CASE passive /\ s \in LqStocks
    <2>1. lqTwap' = [lqTwap EXCEPT ![s] = q] /\ UNCHANGED <<lqBook, lqSent>>
      BY <1>3 DEF LqSubmit
    <2>2. LqTypeOK'
      BY <1>1, <1>2, <2>1 DEF LqInv, LqTypeOK, lqCall
    <2>3. LqOrderly' /\ LqVisited' /\ LqFlat' /\ LqEveryoneTried'
      BY <1>2, <2>1 DEF LqInv, LqOrderly, LqVisited, LqFlat, LqEveryoneTried, LqHolds, LqActive, LqPending,
                        LqMine, LqWanted, LqBounded, lqCall
    <2> QED BY <2>2, <2>3 DEF LqInv
  <1>4. CASE ~(passive /\ s \in LqStocks)
    <2>1. LqPlace(s, q, LqStrategy) /\ UNCHANGED lqTwap
      BY <1>4 DEF LqSubmit
    <2>2. /\ lqSent' \in 0..LqMaxOrders /\ LqOrderly' /\ LqVisited' /\ LqEveryoneTried' /\ LqFlat'
          /\ lqBook' \in [LqIds -> [sym : LqSyms \cup {0}, qty : Int, by : LqTasks \cup {LqNobody, LqStrategy}]]
      BY <1>1, <1>2, <2>1, LqPlaceStep
    <2>3. LqTypeOK'
      BY <1>1, <1>2, <2>1, <2>2 DEF LqInv, LqTypeOK, lqCall
    <2> QED BY <2>2, <2>3 DEF LqInv
  <1> QED BY <1>3, <1>4

LEMMA LqSliceStep == ASSUME LqInv, NEW s \in LqSyms, LqSlice(s) PROVE LqInv'
  <1>1. /\ lqTwap[s] # 0 /\ LqPlace(s, LqSign(lqTwap[s]), LqStrategy)
        /\ lqTwap' = [lqTwap EXCEPT ![s] = lqTwap[s] - LqSign(lqTwap[s])]
        /\ UNCHANGED <<lqHeld, lqDoomed, lqStaged, lqCall, lqTried, lqFailed, lqSoak, lqFaults, lqCause>>
    BY DEF LqSlice
  <1>2. lqTwap[s] \in -1..2 /\ lqTwap[s] \in Int
    BY DEF LqInv, LqTypeOK
  <1>3. LqSign(lqTwap[s]) \in Int /\ lqTwap[s] - LqSign(lqTwap[s]) \in -1..2
    BY <1>2, LqSignIs
  <1>4. /\ lqSent' \in 0..LqMaxOrders /\ LqOrderly' /\ LqVisited' /\ LqEveryoneTried' /\ LqFlat'
        /\ lqBook' \in [LqIds -> [sym : LqSyms \cup {0}, qty : Int, by : LqTasks \cup {LqNobody, LqStrategy}]]
    BY <1>1, <1>3, LqPlaceStep
  <1>5. LqTypeOK'
    BY <1>1, <1>3, <1>4 DEF LqInv, LqTypeOK, lqCall
  <1> QED BY <1>4, <1>5 DEF LqInv

\* What a step on order i that changes its quantity alone leaves.
LEMMA LqBookStep ==
    ASSUME LqInv, NEW i \in LqIds, NEW n \in Int, lqBook' = [lqBook EXCEPT ![i].qty = n],
           UNCHANGED <<lqSent, lqCall, lqTried, lqFailed, lqSoak>>
    PROVE  /\ lqBook' \in [LqIds -> [sym : LqSyms \cup {0}, qty : Int, by : LqTasks \cup {LqNobody, LqStrategy}]]
           /\ LqOrderly' /\ LqVisited' /\ LqEveryoneTried' /\ lqBook'[i].qty = n
           /\ \A j \in LqIds : lqBook'[j].by = lqBook[j].by /\ lqBook'[j].sym = lqBook[j].sym
           /\ \A j \in LqIds \ {i} : lqBook'[j].qty = lqBook[j].qty
           /\ \A t \in LqTasks, s \in LqSyms : LqMine(t, s)' = LqMine(t, s)
  <1>1. lqBook \in [LqIds -> [sym : LqSyms \cup {0}, qty : Int, by : LqTasks \cup {LqNobody, LqStrategy}]]
    BY DEF LqInv, LqTypeOK
  <1>2. /\ lqBook' \in [LqIds -> [sym : LqSyms \cup {0}, qty : Int, by : LqTasks \cup {LqNobody, LqStrategy}]]
        /\ lqBook'[i].qty = n
        /\ \A j \in LqIds : lqBook'[j].by = lqBook[j].by /\ lqBook'[j].sym = lqBook[j].sym
        /\ \A j \in LqIds \ {i} : lqBook'[j].qty = lqBook[j].qty
    BY <1>1
  <1>3. \A t \in LqTasks, s \in LqSyms : LqMine(t, s)' = LqMine(t, s)
    BY <1>2 DEF LqMine
  <1>4. LqOrderly' /\ LqVisited' /\ LqEveryoneTried'
    <2>1. \A j \in LqIds : j > lqSent' => lqBook'[j].by = LqNobody
      BY <1>2 DEF LqInv, LqOrderly
    <2>2. \A j \in LqIds, t \in LqTasks : lqBook'[j].by = t => lqBook[j].by = t
      BY <1>2
    <2> QED BY <2>1, <2>2, LqMarketKeeps DEF LqInv
  <1> QED BY <1>2, <1>3, <1>4

\* A fill of another's order is a cause; one of the call's own moves what it holds towards zero.
LEMMA LqFillStep == ASSUME LqInv, NEW i \in LqIds, LqFill(i) PROVE LqInv'
  <1> DEFINE q == lqBook[i].qty
             r == lqBook[i].sym
  <1>1. /\ q # 0 /\ lqHeld' = [lqHeld EXCEPT ![r] = lqHeld[r] + LqSign(q)]
        /\ lqBook' = [lqBook EXCEPT ![i].qty = q - LqSign(q)]
        /\ lqCause' = [lqCause EXCEPT ![r] = lqCause[r] \cup LqStale(r, lqBook[i].by)]
        /\ UNCHANGED <<lqDoomed, lqSent, lqTwap, lqStaged, lqCall, lqTried, lqFailed, lqSoak, lqFaults>>
    BY DEF LqFill
  <1>2. q \in Int
    BY DEF LqInv, LqTypeOK
  <1>3. LqSign(q) \in Int /\ (q > 0 => LqSign(q) = 1) /\ (q < 0 => LqSign(q) = -1)
    BY <1>2, LqSignIs
  <1>4. /\ lqBook' \in [LqIds -> [sym : LqSyms \cup {0}, qty : Int, by : LqTasks \cup {LqNobody, LqStrategy}]]
        /\ LqOrderly' /\ LqVisited' /\ LqEveryoneTried' /\ lqBook'[i].qty = q - LqSign(q)
        /\ \A j \in LqIds : lqBook'[j].by = lqBook[j].by /\ lqBook'[j].sym = lqBook[j].sym
        /\ \A j \in LqIds \ {i} : lqBook'[j].qty = lqBook[j].qty
        /\ \A t \in LqTasks, s \in LqSyms : LqMine(t, s)' = LqMine(t, s)
    <2>1. q - LqSign(q) \in Int
      BY <1>2, <1>3
    <2> HIDE DEF q
    <2> QED BY <1>1, <2>1, LqBookStep
  <1>5. LqStale(r, lqBook[i].by) \subseteq LqCauses
    BY DEF LqStale, LqCauses
  <1>6. lqHeld' \in [LqSyms -> Int] /\ lqCause' \in [LqSyms -> SUBSET LqCauses]
    <2>1. lqHeld \in [LqSyms -> Int] /\ lqCause \in [LqSyms -> SUBSET LqCauses]
      BY DEF LqInv, LqTypeOK
    <2> HIDE DEF q, r
    <2>2. lqHeld' \in [LqSyms -> Int]
      <3>1. CASE r \in LqSyms
        BY <1>1, <1>3, <2>1, <3>1
      <3>2. CASE r \notin LqSyms
        BY <1>1, <2>1, <3>2
      <3> QED BY <3>1, <3>2
    <2>3. lqCause' \in [LqSyms -> SUBSET LqCauses]
      BY <1>1, <1>5, <2>1
    <2> QED BY <2>2, <2>3
  <1>7. LqTypeOK'
    BY <1>1, <1>4, <1>6 DEF LqInv, LqTypeOK, lqCall
  <1>8. LqFlat'
    <2> SUFFICES ASSUME NEW t \in LqTasks, NEW s \in LqSyms, LqActive(t, s)', lqCause'[s] = {}
                 PROVE  LqHolds(t, s)'
      BY DEF LqFlat
    <2>1. LqActive(t, s) /\ (LqPending(t, s)' <=> LqPending(t, s)) /\ lqSnap' = lqSnap
      BY <1>1 DEF LqActive, LqPending, lqCall
    <2>2. lqCause[s] = {}
      BY <1>1 DEF LqInv, LqTypeOK
    <2>3. LqHolds(t, s)
      BY <2>1, <2>2 DEF LqInv, LqFlat
    <2>4. CASE s # r
      <3>1. lqHeld'[s] = lqHeld[s]
        BY <1>1, <2>4 DEF LqInv, LqTypeOK
      <3>2. \A j \in LqMine(t, s) : j \in LqIds \ {i}
        BY <2>4 DEF LqMine
      <3> HIDE DEF q, r
      <3> QED BY <1>4, <2>1, <2>3, <3>1, <3>2, LqHoldsKept
    <2>5. CASE s = r
      <3>1. LqStale(r, lqBook[i].by) = {}
        BY <1>1, <2>5 DEF LqInv, LqTypeOK
      <3>2. lqBook[i].by = t
        BY <2>1, <2>5, <3>1 DEF LqStale
      <3>3. i \in LqMine(t, s)
        BY <2>5, <3>2 DEF LqMine
      <3>4. ~LqPending(t, s) /\ \A j \in LqMine(t, s) : j = i
        BY <2>3, <3>3 DEF LqHolds, LqBounded
      <3>5. LqBetween(lqHeld[s] + q, lqSnap[t][s]) /\ LqBetween(-q, lqSnap[t][s]) /\ LqBetween(lqHeld[s], lqSnap[t][s])
        BY <2>3, <3>3 DEF LqHolds, LqBounded
      <3>6. lqHeld'[s] = lqHeld[s] + LqSign(q) /\ lqHeld[s] \in Int /\ lqSnap[t][s] \in Int /\ lqSnap[t][s] # 0
        BY <1>1, <2>1, <2>5 DEF LqInv, LqTypeOK, LqActive
      <3> HIDE DEF q, r
      <3>7. /\ LqBetween(lqHeld'[s], lqSnap[t][s]) /\ LqBetween(-(q - LqSign(q)), lqSnap[t][s])
            /\ LqBetween(lqHeld'[s] + (q - LqSign(q)), lqSnap[t][s])
        <4>1. CASE q > 0
          BY <1>2, <1>3, <3>5, <3>6, <4>1 DEF LqBetween
        <4>2. CASE q < 0
          BY <1>2, <1>3, <3>5, <3>6, <4>2 DEF LqBetween
        <4> QED BY <1>1, <1>2, <4>1, <4>2
      <3>8. LqBounded(lqHeld'[s], lqSnap'[t][s], LqMine(t, s)', lqBook')
        BY <1>4, <2>1, <3>4, <3>7 DEF LqBounded
      <3> QED BY <2>1, <3>4, <3>8 DEF LqHolds
    <2> QED BY <2>4, <2>5
  <1> QED BY <1>4, <1>7, <1>8 DEF LqInv

\* A cancel leaves the call what it holds.
LEMMA LqCancelLandsStep == ASSUME LqInv, NEW i \in LqIds, LqCancelLands(i) PROVE LqInv'
  <1>1. /\ lqDoomed' = lqDoomed \ {i} /\ lqBook' = [lqBook EXCEPT ![i].qty = 0]
        /\ UNCHANGED <<lqHeld, lqSent, lqTwap, lqStaged, lqCall, lqTried, lqFailed, lqSoak, lqFaults, lqCause>>
    BY DEF LqCancelLands
  <1>2. /\ lqBook' \in [LqIds -> [sym : LqSyms \cup {0}, qty : Int, by : LqTasks \cup {LqNobody, LqStrategy}]]
        /\ LqOrderly' /\ LqVisited' /\ LqEveryoneTried' /\ lqBook'[i].qty = 0
        /\ \A j \in LqIds : lqBook'[j].by = lqBook[j].by /\ lqBook'[j].sym = lqBook[j].sym
        /\ \A j \in LqIds \ {i} : lqBook'[j].qty = lqBook[j].qty
        /\ \A t \in LqTasks, s \in LqSyms : LqMine(t, s)' = LqMine(t, s)
    BY <1>1, 0 \in Int, LqBookStep
  <1>3. LqTypeOK'
    BY <1>1, <1>2 DEF LqInv, LqTypeOK, lqCall
  <1>4. LqFlat'
    <2> SUFFICES ASSUME NEW t \in LqTasks, NEW s \in LqSyms, LqActive(t, s)', lqCause'[s] = {}
                 PROVE  LqHolds(t, s)'
      BY DEF LqFlat
    <2>1. LqHolds(t, s) /\ (LqPending(t, s)' <=> LqPending(t, s)) /\ lqSnap' = lqSnap
      BY <1>1 DEF LqInv, LqFlat, LqActive, LqPending, lqCall
    <2>2. LqBounded(lqHeld[s], lqSnap[t][s], LqMine(t, s), lqBook')
      <3> SUFFICES ASSUME NEW j \in LqMine(t, s)
                   PROVE  LqBetween(lqHeld[s] + lqBook'[j].qty, lqSnap[t][s]) /\ LqBetween(-lqBook'[j].qty, lqSnap[t][s])
        BY <2>1 DEF LqHolds, LqBounded
      <3>1. CASE j # i
        <4>1. lqBook'[j].qty = lqBook[j].qty
          BY <1>2, <3>1 DEF LqMine
        <4> QED BY <2>1, <4>1 DEF LqHolds, LqBounded
      <3>2. CASE j = i
        <4>1. lqHeld[s] \in Int /\ lqSnap[t][s] \in Int /\ LqBetween(lqHeld[s], lqSnap[t][s])
          BY <2>1 DEF LqInv, LqTypeOK, LqHolds, LqBounded
        <4>2. LqBetween(lqHeld[s] + 0, lqSnap[t][s]) /\ LqBetween(-0, lqSnap[t][s])
          BY <4>1 DEF LqBetween
        <4> QED BY <1>2, <3>2, <4>2
      <3> QED BY <3>1, <3>2
    <2> QED BY <1>1, <1>2, <2>1, <2>2 DEF LqHolds
  <1> QED BY <1>2, <1>3, <1>4 DEF LqInv

LEMMA LqReconcileStep == ASSUME LqInv, LqReconcile PROVE LqInv'
  <1>1. /\ lqStaged' \subseteq lqStaged
        /\ UNCHANGED <<lqMarket, lqCall, lqTried, lqFailed, lqSoak, lqFaults, lqCause>>
    BY DEF LqReconcile
  <1> QED BY <1>1 DEF LqInv, LqTypeOK, LqOrderly, LqVisited, LqFlat, LqEveryoneTried, LqHolds, LqActive, LqPending,
                      LqMine, LqWanted, LqBounded, lqCall, lqMarket

-----------------------------------------------------------------------------
\* A call moves: where it is and what its loop has left.
LEMMA LqMoveTyped ==
    ASSUME LqTypeOK, NEW t \in LqTasks, NEW place \in LqPlaces, NEW todo \in SUBSET LqSyms, LqStage(t, place, todo)
    PROVE  /\ lqAt' \in [LqTasks -> LqPlaces] /\ lqTodo' \in [LqTasks -> SUBSET LqSyms]
           /\ lqAt'[t] = place /\ lqTodo'[t] = todo
           /\ \A u \in LqTasks \ {t} : lqAt'[u] = lqAt[u] /\ lqTodo'[u] = lqTodo[u]
  BY DEF LqTypeOK, LqStage

\* A task that only moves on keeps what a call keeps of its own.
LEMMA LqMoveOrderly ==
    ASSUME LqTypeOK, LqOrderly, NEW t \in LqTasks, NEW place \in LqPlaces, NEW todo \in SUBSET LqSyms,
           LqStage(t, place, todo), UNCHANGED lqSnap, place \notin {"read", "check"},
           place \in {"flatten", "market"} => todo \subseteq LqWanted(t),
           place = "market" => todo # {}, place = "close" => LqWanted(t) = {},
           \A i \in LqIds : i > lqSent' => lqBook'[i].by = LqNobody,
           \A i \in LqIds, u \in LqTasks \ {t} : lqBook'[i].by = u => lqBook[i].by = u
    PROVE  LqOrderly'
  <1>1. /\ lqAt'[t] = place /\ lqTodo'[t] = todo
        /\ \A u \in LqTasks \ {t} : lqAt'[u] = lqAt[u] /\ lqTodo'[u] = lqTodo[u]
    BY LqMoveTyped
  <1>2. \A u \in LqTasks : LqWanted(u)' = LqWanted(u)
    BY DEF LqWanted
  <1>3. ASSUME NEW u \in LqTasks
        PROVE  /\ lqAt'[u] = "read" => \A i \in LqIds : lqBook'[i].by # u
               /\ lqAt'[u] \in {"flatten", "market"} => lqTodo'[u] \subseteq LqWanted(u)'
               /\ lqAt'[u] = "market" => lqTodo'[u] # {}
               /\ lqAt'[u] = "close" => LqWanted(u)' = {}
               /\ lqAt'[u] = "check" => u[1] = "rec" /\ lqSnap'[u][u[2]] # 0
    <2>1. CASE u = t
      BY <1>1, <1>2, <2>1
    <2>2. CASE u # t
      BY <1>1, <1>2, <2>2 DEF LqOrderly
    <2> QED BY <2>1, <2>2
  <1> QED BY <1>3 DEF LqOrderly

\* A task that only moves on keeps the account of whom the portfolio flatten has visited.
LEMMA LqMoveVisited ==
    ASSUME LqTypeOK, LqVisited, LqEveryoneTried, NEW t \in LqTasks, NEW place \in LqPlaces,
           NEW todo \in SUBSET LqSyms, LqStage(t, place, todo), UNCHANGED <<lqSnap, lqSoak>>,
           t # LqAll => UNCHANGED <<lqTried, lqFailed>>,
           t = LqAll =>
             /\ place \in {"read", "cancel", "await", "again", "clear", "close"} => lqTried' = {} /\ lqFailed' = {}
             /\ place \in {"flatten", "market"} /\ ~lqSoak => lqTried' \cup lqFailed' = LqWanted(t) \ todo
             /\ place = "done" /\ ~lqSoak => lqTried' \cup lqFailed' = LqWanted(t)
    PROVE  LqVisited' /\ LqEveryoneTried'
  <1>1. /\ lqAt'[t] = place /\ lqTodo'[t] = todo
        /\ \A u \in LqTasks \ {t} : lqAt'[u] = lqAt[u] /\ lqTodo'[u] = lqTodo[u]
    BY LqMoveTyped
  <1>2. LqWanted(LqAll)' = LqWanted(LqAll) /\ lqSoak' = lqSoak
    BY DEF LqWanted
  <1>3. CASE t = LqAll
    BY <1>1, <1>2, <1>3 DEF LqVisited, LqEveryoneTried, LqAll
  <1>4. CASE t # LqAll
    <2>1. lqAt'[LqAll] = lqAt[LqAll] /\ lqTodo'[LqAll] = lqTodo[LqAll] /\ lqTried' = lqTried /\ lqFailed' = lqFailed
      BY <1>1, <1>4, LqAllIsTask
    <2> QED BY <1>2, <2>1 DEF LqVisited, LqEveryoneTried, LqAll
  <1> QED BY <1>3, <1>4

\* A move that leaves the market alone and does not turn back in its loops.
LEMMA LqMoveFlat ==
    ASSUME LqTypeOK, LqFlat, NEW t \in LqTasks, NEW place \in LqPlaces, NEW todo \in SUBSET LqSyms,
           LqStage(t, place, todo), UNCHANGED <<lqHeld, lqBook, lqSnap>>,
           \A s \in LqSyms : lqCause'[s] = {} => lqCause[s] = {},
           place = "idle" \/ lqAt[t] \notin {"idle", "read"},
           \A s \in LqSyms :
              /\ s \in LqWanted(t)
              /\ \/ place \in {"check", "cancel", "await", "again", "clear"}
                 \/ place \in {"flatten", "market"} /\ s \in todo
              => LqPending(t, s)
    PROVE  LqFlat'
  <1>1. /\ lqAt'[t] = place /\ lqTodo'[t] = todo
        /\ \A u \in LqTasks \ {t} : lqAt'[u] = lqAt[u] /\ lqTodo'[u] = lqTodo[u]
    BY LqMoveTyped
  <1> SUFFICES ASSUME NEW u \in LqTasks, NEW s \in LqSyms, LqActive(u, s)', lqCause'[s] = {}
               PROVE  LqHolds(u, s)'
    BY DEF LqFlat
  <1>2. LqActive(u, s)
    BY <1>1 DEF LqActive
  <1>3. LqHolds(u, s)
    BY <1>2 DEF LqFlat
  <1>4. LqPending(u, s)' => LqPending(u, s)
    <2>1. CASE u = t
      BY <1>1, <1>2, <2>1 DEF LqPending, LqActive, LqWanted
    <2>2. CASE u # t
      BY <1>1, <2>2 DEF LqPending
    <2> QED BY <2>1, <2>2
  <1>5. LqMine(u, s)' = LqMine(u, s)
    BY DEF LqMine
  <1> QED BY <1>3, <1>4, <1>5, LqHoldsKept

\* The moves that send nothing: to the next loop, to the next symbol, out.
LqQuiet(t, place, todo) ==
    \/ place = "idle"
    \/ place \in {"cancel", "await", "again", "clear"} /\ lqAt[t] \in {"cancel", "await", "again"}
    \/ /\ place = "flatten" /\ lqAt[t] \in {"check", "await", "again", "clear"} /\ todo \subseteq LqWanted(t)
       /\ t = LqAll => lqAt[t] = "clear" /\ todo = LqWanted(t)
    \/ place = "close" /\ lqAt[t] = "clear" /\ LqWanted(t) = {}
    \/ place = "market" /\ lqAt[t] = "flatten" /\ todo = lqTodo[t] /\ todo # {}
    \/ place = "flatten" /\ lqAt[t] = "flatten" /\ lqSoak /\ todo \subseteq lqTodo[t]
    \/ place = "done" /\ lqAt[t] = "flatten" /\ lqSoak

\* A step that sends nothing and adds no order keeps the invariant.
LEMMA LqQuietStep ==
    ASSUME LqInv, NEW t \in LqTasks, NEW place \in LqPlaces, NEW todo \in SUBSET LqSyms,
           LqStage(t, place, todo), LqQuiet(t, place, todo),
           UNCHANGED <<lqHeld, lqBook, lqSent, lqSnap, lqTried, lqFailed, lqSoak>>,
           \A s \in LqSyms : lqCause'[s] = {} => lqCause[s] = {}
    PROVE  LqOrderly' /\ LqVisited' /\ LqFlat' /\ LqEveryoneTried'
  <1>0. LqTypeOK /\ LqOrderly /\ LqVisited /\ LqFlat /\ LqEveryoneTried
    BY DEF LqInv
  <1>1. LqOrderly'
    <2>1. /\ place \notin {"read", "check"} /\ (place = "market" => todo # {})
          /\ place = "close" => LqWanted(t) = {}
      BY DEF LqQuiet
    <2>2. place \in {"flatten", "market"} => todo \subseteq LqWanted(t)
      BY <1>0 DEF LqQuiet, LqOrderly
    <2>3. \A i \in LqIds : i > lqSent' => lqBook'[i].by = LqNobody
      BY <1>0 DEF LqOrderly
    <2>4. \A i \in LqIds, u \in LqTasks \ {t} : lqBook'[i].by = u => lqBook[i].by = u
      OBVIOUS
    <2> QED BY <1>0, <2>1, <2>2, <2>3, <2>4, LqMoveOrderly
  <1>2. LqVisited' /\ LqEveryoneTried'
    <2>1. ASSUME t = LqAll
          PROVE  /\ place \in {"read", "cancel", "await", "again", "clear", "close"} => lqTried' = {} /\ lqFailed' = {}
                 /\ place \in {"flatten", "market"} /\ ~lqSoak => lqTried' \cup lqFailed' = LqWanted(t) \ todo
                 /\ place = "done" /\ ~lqSoak => lqTried' \cup lqFailed' = LqWanted(t)
      BY <1>0, <2>1 DEF LqQuiet, LqVisited
    <2> QED BY <1>0, <2>1, LqMoveVisited
  <1>3. LqFlat'
    <2>1. place = "idle" \/ lqAt[t] \notin {"idle", "read"}
      BY DEF LqQuiet
    <2>2. ASSUME NEW s \in LqSyms, s \in LqWanted(t),
                 \/ place \in {"check", "cancel", "await", "again", "clear"}
                 \/ place \in {"flatten", "market"} /\ s \in todo
          PROVE  LqPending(t, s)
      BY <2>2 DEF LqQuiet, LqPending
    <2> QED BY <1>0, <2>1, <2>2, LqMoveFlat
  <1> QED BY <1>1, <1>2, <1>3

LEMMA LqOutStep == ASSUME LqInv, NEW t \in LqTasks, LqAbort(t) \/ LqReturn(t) PROVE LqInv'
  <1>1. /\ LqStage(t, "idle", {}) /\ lqFaults' \in 0..LqMaxFaults
        /\ UNCHANGED <<lqMarket, lqSnap, lqStaged, lqTried, lqFailed, lqSoak, lqCalls, lqCause>>
    BY LqAssumption DEF LqAbort, LqReturn, LqFault, LqInv, LqTypeOK
  <1>2. "idle" \in LqPlaces /\ {} \in SUBSET LqSyms /\ LqQuiet(t, "idle", {})
    BY DEF LqPlaces, LqQuiet
  <1>3. LqOrderly' /\ LqVisited' /\ LqFlat' /\ LqEveryoneTried'
    BY <1>1, <1>2, LqQuietStep DEF lqMarket
  <1>4. lqAt' \in [LqTasks -> LqPlaces] /\ lqTodo' \in [LqTasks -> SUBSET LqSyms]
    BY <1>1, <1>2, LqMoveTyped DEF LqInv
  <1>5. LqTypeOK'
    BY <1>1, <1>4 DEF LqInv, LqTypeOK, lqMarket
  <1> QED BY <1>3, <1>5 DEF LqInv

LEMMA LqClearStep == ASSUME LqInv, NEW t \in LqTasks, LqClear(t) PROVE LqInv'
  <1> DEFINE place == IF LqWanted(t) = {} THEN "close" ELSE "flatten"
  <1>1. /\ lqAt[t] = "clear" /\ lqStaged' = {} /\ LqStage(t, place, LqWanted(t))
        /\ UNCHANGED <<lqMarket, lqSnap, lqTried, lqFailed, lqSoak, lqCalls, lqFaults, lqCause>>
    BY DEF LqClear
  <1>2. place \in LqPlaces /\ LqWanted(t) \in SUBSET LqSyms /\ LqQuiet(t, place, LqWanted(t))
    BY <1>1 DEF LqPlaces, LqQuiet, LqWanted
  <1> HIDE DEF place
  <1>3. LqOrderly' /\ LqVisited' /\ LqFlat' /\ LqEveryoneTried'
    BY <1>1, <1>2, LqQuietStep DEF lqMarket
  <1>4. lqAt' \in [LqTasks -> LqPlaces] /\ lqTodo' \in [LqTasks -> SUBSET LqSyms]
    BY <1>1, <1>2, LqMoveTyped DEF LqInv
  <1>5. LqTypeOK'
    BY <1>1, <1>4 DEF LqInv, LqTypeOK, lqMarket
  <1> QED BY <1>3, <1>5 DEF LqInv

\* Open orders are sent orders.
LEMMA LqOpenIds == ASSUME LqTypeOK, NEW s PROVE LqOpen(s) \subseteq LqIds
  <1>1. lqSent \in 0..LqMaxOrders /\ LqMaxOrders \in Nat
    BY LqAssumption DEF LqTypeOK
  <1> QED BY <1>1 DEF LqOpen, LqIds

LEMMA LqCheckStep == ASSUME LqInv, NEW t \in LqTasks, LqCheck(t) PROVE LqInv'
  <1> DEFINE s == t[2]
             exits == {i \in LqOpen(s) : LqSign(lqBook[i].qty) = -LqSign(lqSnap[t][s])}
  <1>1. /\ lqAt[t] = "check"
        /\ \/ LqStage(t, "idle", {}) /\ UNCHANGED <<lqDoomed, lqCause>>
           \/ /\ LqStage(t, "flatten", {s}) /\ lqDoomed' = lqDoomed \cup exits
              /\ lqCause' = [lqCause EXCEPT ![s] = lqCause[s] \cup {"uncleared"}]
        /\ UNCHANGED <<lqHeld, lqBook, lqSent, lqTwap, lqSnap, lqStaged, lqTried, lqFailed, lqSoak, lqCalls, lqFaults>>
    BY Zenon DEF LqCheck
  <1>2. t[1] = "rec" /\ lqSnap[t][s] # 0
    BY <1>1 DEF LqInv, LqOrderly
  <1>3. t # LqAll /\ s \in LqSyms
    BY <1>2, LqNames, LqAssumption DEF LqAll
  <1>4. exits \subseteq LqIds
    BY LqOpenIds DEF LqInv
  <1> HIDE DEF s, exits
  <1>5. /\ lqDoomed' \subseteq LqIds /\ lqCause' \in [LqSyms -> SUBSET LqCauses]
        /\ \A r \in LqSyms : lqCause'[r] = {} => lqCause[r] = {}
    BY <1>1, <1>3, <1>4 DEF LqInv, LqTypeOK, LqCauses
  <1>6. PICK place \in {"idle", "flatten"}, todo \in {{}, {s}} :
          LqStage(t, place, todo) /\ (place = "flatten" => todo = {s})
    BY <1>1
  <1>7. s \in LqWanted(t)
    BY <1>2, <1>3 DEF LqWanted, s
  <1>8. place \in LqPlaces /\ todo \in SUBSET LqSyms /\ LqQuiet(t, place, todo)
    BY <1>1, <1>3, <1>6, <1>7 DEF LqPlaces, LqQuiet
  <1>9. LqOrderly' /\ LqVisited' /\ LqFlat' /\ LqEveryoneTried'
    BY <1>1, <1>5, <1>6, <1>8, LqQuietStep
  <1>10. lqAt' \in [LqTasks -> LqPlaces] /\ lqTodo' \in [LqTasks -> SUBSET LqSyms]
    BY <1>6, <1>8, LqMoveTyped DEF LqInv
  <1>11. LqTypeOK'
    BY <1>1, <1>5, <1>10 DEF LqInv, LqTypeOK
  <1> QED BY <1>9, <1>11 DEF LqInv

LEMMA LqCancelStep == ASSUME LqInv, NEW t \in LqTasks, NEW s \in LqSyms, LqCancel(t, s) PROVE LqInv'
  <1>1. lqAt[t] = "cancel" /\ UNCHANGED <<lqHeld, lqBook, lqSent, lqTwap, lqSnap, lqTried, lqFailed, lqSoak, lqCalls, lqCause>>
    BY DEF LqCancel
  <1>2. LqTurn(t, s, "await") \/ LqStage(t, "idle", {})
    BY DEF LqCancel
  <1>3. lqDoomed' \subseteq LqIds /\ lqStaged' \subseteq LqSyms
    BY LqOpenIds DEF LqCancel, LqInv, LqTypeOK
  <1>4. lqFaults' \in 0..LqMaxFaults
    BY LqAssumption DEF LqCancel, LqFault, LqInv, LqTypeOK
  <1>5. PICK place \in {"idle", "cancel", "await"}, todo \in {{}, LqWanted(t), lqTodo[t] \ {s}} :
          LqStage(t, place, todo)
    BY <1>1, <1>2 DEF LqTurn
  <1>6. place \in LqPlaces /\ todo \in SUBSET LqSyms /\ LqQuiet(t, place, todo)
    BY <1>1 DEF LqPlaces, LqQuiet, LqWanted, LqInv, LqTypeOK
  <1>7. LqOrderly' /\ LqVisited' /\ LqFlat' /\ LqEveryoneTried'
    BY <1>1, <1>5, <1>6, LqQuietStep
  <1>8. lqAt' \in [LqTasks -> LqPlaces] /\ lqTodo' \in [LqTasks -> SUBSET LqSyms]
    BY <1>5, <1>6, LqMoveTyped DEF LqInv
  <1>9. LqTypeOK'
    BY <1>1, <1>3, <1>4, <1>8 DEF LqInv, LqTypeOK
  <1> QED BY <1>7, <1>9 DEF LqInv

LEMMA LqAwaitStep == ASSUME LqInv, NEW t \in LqTasks, NEW s \in LqSyms, LqAwait(t, s) PROVE LqInv'
  <1>1. /\ lqAt[t] \in {"await", "again"}
        /\ UNCHANGED <<lqHeld, lqBook, lqSent, lqTwap, lqSnap, lqStaged, lqTried, lqFailed, lqSoak, lqCalls>>
    BY DEF LqAwait
  <1>2. lqDoomed' \subseteq LqIds
    BY LqOpenIds DEF LqAwait, LqInv, LqTypeOK
  <1>3. lqFaults' \in 0..LqMaxFaults
    BY LqAssumption DEF LqAwait, LqFault, LqInv, LqTypeOK
  <1>4. lqCause' = lqCause \/ lqCause' = [lqCause EXCEPT ![s] = lqCause[s] \cup {"uncleared"}]
    BY DEF LqAwait, LqInv, LqTypeOK
  <1>5. lqCause' \in [LqSyms -> SUBSET LqCauses] /\ \A r \in LqSyms : lqCause'[r] = {} => lqCause[r] = {}
    <2>1. lqCause \in [LqSyms -> SUBSET LqCauses] /\ "uncleared" \in LqCauses
      BY DEF LqInv, LqTypeOK, LqCauses
    <2>2. CASE lqCause' = lqCause
      BY <2>1, <2>2
    <2>3. CASE lqCause' = [lqCause EXCEPT ![s] = lqCause[s] \cup {"uncleared"}]
      BY <2>1, <2>3
    <2> QED BY <1>4, <2>2, <2>3
  <1>6. \E place \in {"await", "again", "clear", "flatten"}, todo \in {lqTodo[t], LqWanted(t), lqTodo[t] \ {s}} :
          /\ LqStage(t, place, todo)
          /\ place = "flatten" => t[1] # "all" /\ todo = LqWanted(t)
    <2>1. CASE /\ lqAt' = [lqAt EXCEPT ![t] = IF lqTodo[t] # {s} THEN "await"
                                              ELSE IF t[1] = "all" THEN "clear" ELSE "flatten"]
               /\ lqTodo' = [lqTodo EXCEPT ![t] = IF lqTodo[t] = {s} THEN LqWanted(t) ELSE lqTodo[t] \ {s}]
      BY <2>1 DEF LqStage
    <2>2. CASE LqGoto(t, "again")
      BY <2>2 DEF LqGoto
    <2>3. CASE LqTurn(t, s, "clear")
      BY <1>1, <2>3 DEF LqTurn
    <2> QED BY <2>1, <2>2, <2>3 DEF LqAwait
  <1>7. PICK place \in {"await", "again", "clear", "flatten"}, todo \in {lqTodo[t], LqWanted(t), lqTodo[t] \ {s}} :
          /\ LqStage(t, place, todo)
          /\ place = "flatten" => t[1] # "all" /\ todo = LqWanted(t)
    BY <1>6
  <1>8. place \in LqPlaces /\ todo \in SUBSET LqSyms
    BY DEF LqPlaces, LqWanted, LqInv, LqTypeOK
  <1>9. LqQuiet(t, place, todo)
    BY <1>1, <1>7, LqNames DEF LqQuiet
  <1>10. LqOrderly' /\ LqVisited' /\ LqFlat' /\ LqEveryoneTried'
    BY <1>1, <1>5, <1>7, <1>8, <1>9, LqQuietStep
  <1>11. lqAt' \in [LqTasks -> LqPlaces] /\ lqTodo' \in [LqTasks -> SUBSET LqSyms]
    BY <1>7, <1>8, LqMoveTyped DEF LqInv
  <1>12. LqTypeOK'
    BY <1>1, <1>2, <1>3, <1>5, <1>11 DEF LqInv, LqTypeOK
  <1> QED BY <1>10, <1>12 DEF LqInv

\* A snapshot: its call holds what it read, other calls on its symbols have a twin.
LEMMA LqKeepFlat ==
    ASSUME LqTypeOK, LqFlat, NEW t \in LqTasks, NEW seen \in [LqSyms -> Int], LqKeep(t, seen),
           NEW place \in LqPlaces, NEW todo \in SUBSET LqSyms, LqStage(t, place, todo),
           UNCHANGED lqHeld, \A s \in LqSyms : seen[s] # 0 => seen[s] = lqHeld[s],
           \A i \in LqIds : lqBook'[i].by # t,
           \A u \in LqTasks \ {t}, i \in LqIds :
              lqBook[i].by = u \/ lqBook'[i].by = u => lqBook'[i] = lqBook[i]
    PROVE  LqFlat'
  <1>1. /\ lqAt'[t] = place /\ lqTodo'[t] = todo
        /\ \A u \in LqTasks \ {t} : lqAt'[u] = lqAt[u] /\ lqTodo'[u] = lqTodo[u]
    BY LqMoveTyped
  <1>2. lqSnap'[t] = seen /\ \A u \in LqTasks \ {t} : lqSnap'[u] = lqSnap[u]
    BY DEF LqKeep, LqTypeOK
  <1> SUFFICES ASSUME NEW u \in LqTasks, NEW s \in LqSyms, LqActive(u, s)', lqCause'[s] = {}
               PROVE  LqHolds(u, s)'
    BY DEF LqFlat
  <1>3. CASE u = t
    <2>1. lqSnap'[u][s] = lqHeld[s] /\ lqHeld[s] \in Int
      BY <1>2, <1>3 DEF LqActive, LqTypeOK
    <2>2. LqMine(u, s)' = {}
      BY <1>3 DEF LqMine
    <2>3. LqBetween(lqHeld[s], lqHeld[s])
      BY <2>1 DEF LqBetween
    <2>4. LqBounded(lqHeld[s], lqHeld[s], {}, lqBook')
      BY <2>3 DEF LqBounded
    <2> QED BY <2>1, <2>2, <2>4 DEF LqHolds
  <1>4. CASE u # t
    <2>1. LqActive(u, s) /\ (LqPending(u, s)' <=> LqPending(u, s))
      BY <1>1, <1>2, <1>4 DEF LqActive, LqPending
    <2>2. seen[s] = 0
      BY <1>4, <2>1 DEF LqKeep
    <2>3. lqCause[s] = {}
      BY <2>2 DEF LqKeep
    <2>4. LqHolds(u, s)
      BY <2>1, <2>3 DEF LqFlat
    <2>5. LqMine(u, s)' = LqMine(u, s) /\ \A i \in LqMine(u, s) : lqBook'[i].qty = lqBook[i].qty
      BY <1>4 DEF LqMine
    <2> QED BY <1>2, <1>4, <2>1, <2>4, <2>5, LqHoldsKept
  <1> QED BY <1>3, <1>4

\* Keeping a snapshot keeps its type.
LEMMA LqKeepTyped ==
    ASSUME LqTypeOK, NEW t \in LqTasks, NEW seen \in [LqSyms -> Int], LqKeep(t, seen)
    PROVE  lqSnap' \in [LqTasks -> [LqSyms -> Int]] /\ lqCause' \in [LqSyms -> SUBSET LqCauses]
  <1>1. "twin" \in LqCauses /\ lqCause \in [LqSyms -> SUBSET LqCauses]
    BY DEF LqCauses, LqTypeOK
  <1>2. \A s \in LqSyms : lqCause[s] \cup {"twin"} \in SUBSET LqCauses
    BY <1>1
  <1>3. lqCause' \in [LqSyms -> SUBSET LqCauses]
    BY <1>1, <1>2 DEF LqKeep
  <1> QED BY <1>3 DEF LqKeep, LqTypeOK

\* Another call's guard, and the portfolio's results, do not see the snapshot of t.
LEMMA LqKeepOrderly ==
    ASSUME LqTypeOK, LqOrderly, NEW t \in LqTasks, NEW place \in LqPlaces, NEW todo \in SUBSET LqSyms,
           LqStage(t, place, todo), \A u \in LqTasks \ {t} : lqSnap'[u] = lqSnap[u],
           place \notin {"flatten", "market", "close"},
           place = "check" => t[1] = "rec" /\ lqSnap'[t][t[2]] # 0,
           lqSent' = lqSent, \A i \in LqIds : lqBook'[i].by # t,
           \A i \in LqIds : lqBook'[i].by = lqBook[i].by \/ lqBook'[i].by = LqNobody
    PROVE  LqOrderly'
  <1>1. /\ lqAt'[t] = place /\ lqTodo'[t] = todo
        /\ \A u \in LqTasks \ {t} : lqAt'[u] = lqAt[u] /\ lqTodo'[u] = lqTodo[u]
    BY LqMoveTyped
  <1>2. \A i \in LqIds : i > lqSent' => lqBook'[i].by = LqNobody
    BY DEF LqOrderly
  <1>3. ASSUME NEW u \in LqTasks
        PROVE  /\ lqAt'[u] = "read" => \A i \in LqIds : lqBook'[i].by # u
               /\ lqAt'[u] \in {"flatten", "market"} => lqTodo'[u] \subseteq LqWanted(u)'
               /\ lqAt'[u] = "market" => lqTodo'[u] # {}
               /\ lqAt'[u] = "close" => LqWanted(u)' = {}
               /\ lqAt'[u] = "check" => u[1] = "rec" /\ lqSnap'[u][u[2]] # 0
    <2>1. CASE u = t
      BY <1>1, <2>1
    <2>2. CASE u # t
      <3>1. LqWanted(u)' = LqWanted(u)
        BY <2>2 DEF LqWanted
      <3>2. \A i \in LqIds : lqBook'[i].by = u => lqBook[i].by = u
        BY LqNames
      <3> QED BY <1>1, <2>2, <3>1, <3>2 DEF LqOrderly
    <2> QED BY <2>1, <2>2
  <1> QED BY <1>2, <1>3 DEF LqOrderly

LEMMA LqReadStep == ASSUME LqInv, NEW t \in LqTasks, LqRead(t) PROVE LqInv'
  <1> DEFINE place == IF lqHeld = [s \in LqSyms |-> 0] THEN "clear" ELSE "cancel"
             todo == {s \in LqSyms : lqHeld[s] # 0}
  <1>1. /\ lqAt[t] = "read" /\ LqKeep(t, lqHeld) /\ LqStage(t, place, todo)
        /\ UNCHANGED <<lqMarket, lqStaged, lqTried, lqFailed, lqSoak, lqCalls, lqFaults>>
    BY DEF LqRead
  <1>2. place \in {"clear", "cancel"} /\ place \in LqPlaces /\ todo \in SUBSET LqSyms
    BY DEF LqPlaces
  <1>0. LqTypeOK /\ LqOrderly /\ LqVisited /\ LqFlat /\ LqEveryoneTried /\ lqHeld \in [LqSyms -> Int]
    BY DEF LqInv, LqTypeOK
  <1> HIDE DEF place, todo
  <1>3. \A i \in LqIds : lqBook'[i].by # t
    BY <1>0, <1>1 DEF LqOrderly, lqMarket
  <1>4. lqHeld' = lqHeld /\ lqBook' = lqBook /\ lqSent' = lqSent
    BY <1>1 DEF lqMarket
  <1>5. LqFlat'
    BY <1>0, <1>1, <1>2, <1>3, <1>4, LqKeepFlat
  <1>6. \A u \in LqTasks \ {t} : lqSnap'[u] = lqSnap[u]
    BY <1>0, <1>1 DEF LqKeep, LqTypeOK
  <1>7. LqOrderly'
    BY <1>0, <1>1, <1>2, <1>3, <1>4, <1>6, LqKeepOrderly
  <1>8. /\ lqAt' \in [LqTasks -> LqPlaces] /\ lqTodo' \in [LqTasks -> SUBSET LqSyms]
        /\ lqAt'[t] = place /\ lqTodo'[t] = todo
        /\ \A u \in LqTasks \ {t} : lqAt'[u] = lqAt[u] /\ lqTodo'[u] = lqTodo[u]
    BY <1>0, <1>1, <1>2, LqMoveTyped
  <1>9. LqVisited' /\ LqEveryoneTried'
    <2>1. CASE t = LqAll
      BY <1>0, <1>1, <1>2, <1>8, <2>1 DEF LqVisited, LqEveryoneTried, LqAll
    <2>2. CASE t # LqAll
      <3>1. lqAt'[LqAll] = lqAt[LqAll] /\ lqTodo'[LqAll] = lqTodo[LqAll] /\ LqWanted(LqAll)' = LqWanted(LqAll)
        BY <1>6, <1>8, <2>2, LqAllIsTask DEF LqWanted
      <3> QED BY <1>0, <1>1, <3>1 DEF LqVisited, LqEveryoneTried, LqAll
    <2> QED BY <2>1, <2>2
  <1>10. lqSnap' \in [LqTasks -> [LqSyms -> Int]] /\ lqCause' \in [LqSyms -> SUBSET LqCauses]
    BY <1>0, <1>1, LqKeepTyped
  <1>11. LqTypeOK'
    BY <1>0, <1>1, <1>8, <1>10 DEF LqTypeOK, lqMarket
  <1> QED BY <1>5, <1>7, <1>9, <1>11 DEF LqInv

\* The orders of earlier calls are nobody's once a call begins.
LEMMA LqBeginStep == ASSUME LqInv, NEW t \in LqTasks, LqBegin(t) PROVE LqInv'
  <1>0. LqTypeOK /\ LqOrderly /\ LqVisited /\ LqFlat /\ LqEveryoneTried
    BY DEF LqInv
  <1>1. /\ lqAt[t] = "idle" /\ lqCalls < LqMaxCalls /\ lqCalls' = lqCalls + 1
        /\ lqBook' = [i \in LqIds |-> IF lqBook[i].by = t THEN [lqBook[i] EXCEPT !.by = LqNobody] ELSE lqBook[i]]
        /\ IF t[1] = "all" THEN lqTried' = {} /\ lqFailed' = {} ELSE UNCHANGED <<lqTried, lqFailed>>
        /\ UNCHANGED <<lqHeld, lqDoomed, lqSent, lqTwap, lqStaged, lqSoak, lqFaults>>
    BY DEF LqBegin
  <1>2. lqCalls' \in 0..LqMaxCalls
    BY <1>0, <1>1, LqAssumption DEF LqTypeOK
  <1>3. /\ lqBook' \in [LqIds -> [sym : LqSyms \cup {0}, qty : Int, by : LqTasks \cup {LqNobody, LqStrategy}]]
        /\ \A i \in LqIds : lqBook'[i].by = lqBook[i].by \/ lqBook'[i].by = LqNobody
        /\ \A i \in LqIds : lqBook[i].by # t => lqBook'[i] = lqBook[i]
        /\ \A i \in LqIds : lqBook[i].by = t => lqBook'[i].by = LqNobody
    <2>1. lqBook \in [LqIds -> [sym : LqSyms \cup {0}, qty : Int, by : LqTasks \cup {LqNobody, LqStrategy}]]
      BY <1>0 DEF LqTypeOK
    <2> QED BY <1>1, <2>1
  <1>4. \A i \in LqIds : lqBook'[i].by # t
    BY <1>3, LqNames
  <1>5. \A u \in LqTasks \ {t}, i \in LqIds : lqBook[i].by = u \/ lqBook'[i].by = u => lqBook'[i] = lqBook[i]
    BY <1>3, LqNames
  <1>6. CASE t[1] = "all"
    <2>1. t = LqAll /\ LqStage(t, "read", lqTodo[t]) /\ UNCHANGED <<lqSnap, lqCause>>
      BY <1>6, LqNames DEF LqBegin, LqGoto
    <2>2. "read" \in LqPlaces /\ lqTodo[t] \in SUBSET LqSyms
      BY <1>0 DEF LqPlaces, LqTypeOK
    <2>3. /\ lqAt' \in [LqTasks -> LqPlaces] /\ lqTodo' \in [LqTasks -> SUBSET LqSyms]
          /\ lqAt'[t] = "read"
          /\ \A u \in LqTasks \ {t} : lqAt'[u] = lqAt[u] /\ lqTodo'[u] = lqTodo[u]
      BY <1>0, <2>1, <2>2, LqMoveTyped
    <2>4. LqTypeOK'
      BY <1>0, <1>1, <1>2, <1>3, <1>6, <2>1, <2>3 DEF LqTypeOK
    <2>5. LqOrderly'
      <3>1. \A u \in LqTasks \ {t} : lqSnap'[u] = lqSnap[u]
        BY <2>1
      <3>2. "read" \notin {"flatten", "market", "close"} /\ "read" # "check"
        OBVIOUS
      <3> QED BY <1>0, <1>1, <1>3, <1>4, <2>1, <2>2, <3>1, <3>2, LqKeepOrderly
    <2>6. LqVisited' /\ LqEveryoneTried'
      BY <1>1, <1>6, <2>1, <2>3 DEF LqVisited, LqEveryoneTried, LqAll
    <2>7. LqFlat'
      <3> SUFFICES ASSUME NEW u \in LqTasks, NEW s \in LqSyms, LqActive(u, s)', lqCause'[s] = {}
                   PROVE  LqHolds(u, s)'
        BY DEF LqFlat
      <3>1. u # t
        BY <2>3 DEF LqActive
      <3>2. LqActive(u, s) /\ (LqPending(u, s)' <=> LqPending(u, s))
        BY <2>1, <2>3, <3>1 DEF LqActive, LqPending
      <3>3. LqHolds(u, s)
        BY <1>0, <2>1, <3>2 DEF LqFlat
      <3>4. LqMine(u, s)' = LqMine(u, s) /\ \A i \in LqMine(u, s) : lqBook'[i].qty = lqBook[i].qty
        BY <1>5, <3>1 DEF LqMine
      <3> QED BY <1>1, <2>1, <3>2, <3>3, <3>4, LqHoldsKept
    <2> QED BY <2>4, <2>5, <2>6, <2>7 DEF LqInv
  <1>7. CASE t[1] # "all"
    <2> DEFINE seen == [s \in LqSyms |-> IF s = t[2] THEN lqHeld[s] ELSE 0]
               place == IF t[1] = "leg" THEN "cancel" ELSE "check"
    <2>1. lqHeld[t[2]] # 0 /\ LqKeep(t, seen) /\ LqStage(t, place, {t[2]})
      BY <1>7 DEF LqBegin
    <2>2. t # LqAll /\ t[1] \in {"leg", "rec"} /\ t[2] \in LqSyms
      BY <1>7, LqNames, LqAssumption
    <2>3. place \in LqPlaces /\ {t[2]} \in SUBSET LqSyms /\ place \notin {"flatten", "market", "close"}
      BY <2>2 DEF LqPlaces
    <2>4. seen \in [LqSyms -> Int] /\ (\A s \in LqSyms : seen[s] # 0 => seen[s] = lqHeld[s]) /\ seen[t[2]] # 0
      BY <1>0, <2>1, <2>2 DEF LqTypeOK
    <2>5. lqSnap'[t] = seen /\ \A u \in LqTasks \ {t} : lqSnap'[u] = lqSnap[u]
      <3> HIDE DEF seen
      <3> QED BY <1>0, <2>1 DEF LqKeep, LqTypeOK
    <2>6. place = "check" => t[1] = "rec" /\ lqSnap'[t][t[2]] # 0
      BY <2>2, <2>4, <2>5
    <2> HIDE DEF seen, place
    <2>7. LqFlat'
      BY <1>0, <1>1, <1>4, <1>5, <2>1, <2>3, <2>4, LqKeepFlat
    <2>8. LqOrderly'
      BY <1>0, <1>1, <1>3, <1>4, <2>1, <2>3, <2>5, <2>6, LqKeepOrderly
    <2>9. /\ lqAt' \in [LqTasks -> LqPlaces] /\ lqTodo' \in [LqTasks -> SUBSET LqSyms]
          /\ \A u \in LqTasks \ {t} : lqAt'[u] = lqAt[u] /\ lqTodo'[u] = lqTodo[u]
      BY <1>0, <2>1, <2>3, LqMoveTyped
    <2>10. LqVisited' /\ LqEveryoneTried'
      <3>1. lqAt'[LqAll] = lqAt[LqAll] /\ lqTodo'[LqAll] = lqTodo[LqAll] /\ LqWanted(LqAll)' = LqWanted(LqAll)
        BY <2>2, <2>5, <2>9, LqAllIsTask DEF LqWanted
      <3> QED BY <1>0, <1>1, <1>7, <3>1 DEF LqVisited, LqEveryoneTried, LqAll
    <2>11. lqSnap' \in [LqTasks -> [LqSyms -> Int]] /\ lqCause' \in [LqSyms -> SUBSET LqCauses]
      BY <1>0, <2>1, <2>4, LqKeepTyped
    <2>12. LqTypeOK'
      BY <1>0, <1>1, <1>2, <1>3, <1>7, <2>9, <2>11 DEF LqTypeOK
    <2> QED BY <2>7, <2>8, <2>10, <2>12 DEF LqInv
  <1> QED BY <1>6, <1>7

\* close_all_positions is another's move to every call that holds a position.
LEMMA LqCloseStep == ASSUME LqInv, NEW t \in LqTasks, LqClose(t) PROVE LqInv'
  <1>0. LqTypeOK /\ LqOrderly /\ LqVisited /\ LqFlat /\ LqEveryoneTried
    BY DEF LqInv
  <1>1. /\ lqAt[t] = "close" /\ LqStage(t, "done", lqTodo[t])
        /\ UNCHANGED <<lqBook, lqSent, lqTwap, lqSnap, lqStaged, lqTried, lqFailed, lqSoak, lqCalls, lqFaults>>
    BY DEF LqClose, LqGoto
  <1>2. /\ IF lqSoak THEN UNCHANGED <<lqHeld, lqDoomed>>
           ELSE /\ lqHeld' = [s \in LqSyms |-> 0]
                /\ lqDoomed' = {i \in 1..lqSent : lqBook[i].qty # 0}
        /\ lqCause' = [s \in LqSyms |-> IF lqSoak \/ lqHeld[s] = 0 THEN lqCause[s]
                                        ELSE lqCause[s] \cup LqStale(s, t)]
    BY DEF LqClose
  <1>3. "done" \in LqPlaces /\ lqTodo[t] \in SUBSET LqSyms /\ LqWanted(t) = {}
    BY <1>0, <1>1 DEF LqPlaces, LqTypeOK, LqOrderly
  <1>4. /\ lqAt' \in [LqTasks -> LqPlaces] /\ lqTodo' \in [LqTasks -> SUBSET LqSyms]
        /\ lqAt'[t] = "done" /\ lqTodo'[t] = lqTodo[t]
        /\ \A u \in LqTasks \ {t} : lqAt'[u] = lqAt[u] /\ lqTodo'[u] = lqTodo[u]
    BY <1>0, <1>1, <1>3, LqMoveTyped
  <1>5. lqHeld' \in [LqSyms -> Int]
    BY <1>0, <1>2 DEF LqTypeOK
  <1>6. lqDoomed' \subseteq LqIds
    <2>1. lqSent \in 0..LqMaxOrders /\ LqMaxOrders \in Nat
      BY <1>0, LqAssumption DEF LqTypeOK
    <2>2. {i \in 1..lqSent : lqBook[i].qty # 0} \subseteq LqIds
      BY <2>1 DEF LqIds
    <2> QED BY <1>0, <1>2, <2>2 DEF LqTypeOK
  <1>7. lqCause' \in [LqSyms -> SUBSET LqCauses]
    <2>1. \A s \in LqSyms : LqStale(s, t) \subseteq LqCauses /\ lqCause[s] \subseteq LqCauses
      BY <1>0 DEF LqStale, LqCauses, LqTypeOK
    <2> QED BY <1>2, <2>1
  <1>8. LqTypeOK'
    BY <1>0, <1>1, <1>4, <1>5, <1>6, <1>7 DEF LqTypeOK
  <1>9. LqOrderly'
    <2>1. \A i \in LqIds : i > lqSent' => lqBook'[i].by = LqNobody
      BY <1>0, <1>1 DEF LqOrderly
    <2>2. \A i \in LqIds, u \in LqTasks \ {t} : lqBook'[i].by = u => lqBook[i].by = u
      BY <1>1
    <2>3. "done" \notin {"read", "check"} /\ "done" \notin {"flatten", "market"} /\ "done" # "market" /\ "done" # "close"
      OBVIOUS
    <2> QED BY <1>0, <1>1, <1>3, <2>1, <2>2, <2>3, LqMoveOrderly
  <1>10. LqVisited' /\ LqEveryoneTried'
    <2>1. t = LqAll => lqTried' \cup lqFailed' = LqWanted(t)
      BY <1>0, <1>1, <1>3 DEF LqVisited
    <2>2. /\ "done" \notin {"read", "cancel", "await", "again", "clear", "close"}
          /\ "done" \notin {"flatten", "market"}
      OBVIOUS
    <2> QED BY <1>0, <1>1, <1>3, <2>1, <2>2, LqMoveVisited
  <1>11. LqFlat'
    <2> SUFFICES ASSUME NEW u \in LqTasks, NEW s \in LqSyms, LqActive(u, s)', lqCause'[s] = {}
                 PROVE  LqHolds(u, s)'
      BY DEF LqFlat
    <2>1. u # t
      BY <1>1, <1>3 DEF LqActive, LqWanted
    <2>2. LqActive(u, s) /\ (LqPending(u, s)' <=> LqPending(u, s))
      BY <1>1, <1>4, <2>1 DEF LqActive, LqPending
    <2>3. lqCause[s] = {} /\ (lqSoak \/ lqHeld[s] = 0)
      BY <1>2, <2>1, <2>2 DEF LqStale
    <2>4. lqHeld'[s] = lqHeld[s]
      BY <1>2, <2>3
    <2>5. LqHolds(u, s)
      BY <1>0, <2>2, <2>3 DEF LqFlat
    <2>6. LqMine(u, s)' = LqMine(u, s) /\ \A i \in LqMine(u, s) : lqBook'[i].qty = lqBook[i].qty
      BY <1>1 DEF LqMine
    <2> QED BY <1>1, <2>2, <2>4, <2>5, <2>6, LqHoldsKept
  <1> QED BY <1>8, <1>9, <1>10, <1>11 DEF LqInv

\* A loop of sends is done with s: the next symbol of the same loop, or out.
LEMMA LqSentOn ==
    ASSUME LqInv, NEW t \in LqTasks, NEW s \in lqTodo[t], lqAt[t] \in {"flatten", "market"},
           NEW place \in LqPlaces, NEW todo \in SUBSET LqSyms, LqStage(t, place, todo),
           \/ place = "done" /\ lqTodo[t] = {s}
           \/ place = "flatten" /\ todo = lqTodo[t] \ {s},
           UNCHANGED <<lqSnap, lqSoak>>, t # LqAll => UNCHANGED <<lqTried, lqFailed>>,
           t = LqAll => lqTried' \cup lqFailed' = lqTried \cup lqFailed \cup {s},
           \A i \in LqIds : i > lqSent' => lqBook'[i].by = LqNobody,
           \A i \in LqIds, u \in LqTasks \ {t} : lqBook'[i].by = u => lqBook[i].by = u
    PROVE  LqOrderly' /\ LqVisited' /\ LqEveryoneTried'
  <1>0. LqTypeOK /\ LqOrderly /\ LqVisited /\ LqEveryoneTried
    BY DEF LqInv
  <1>1. lqTodo[t] \subseteq LqWanted(t)
    BY <1>0 DEF LqOrderly
  <1>2. LqOrderly'
    BY <1>0, <1>1, LqMoveOrderly
  <1>3. LqVisited' /\ LqEveryoneTried'
    <2>1. ASSUME t = LqAll, ~lqSoak PROVE lqTried' \cup lqFailed' = (LqWanted(t) \ lqTodo[t]) \cup {s}
      BY <1>0, <2>1 DEF LqVisited
    <2>2. ASSUME t = LqAll
          PROVE  /\ place \in {"read", "cancel", "await", "again", "clear", "close"} => lqTried' = {} /\ lqFailed' = {}
                 /\ place \in {"flatten", "market"} /\ ~lqSoak => lqTried' \cup lqFailed' = LqWanted(t) \ todo
                 /\ place = "done" /\ ~lqSoak => lqTried' \cup lqFailed' = LqWanted(t)
      BY <1>1, <2>1, <2>2
    <2> QED BY <1>0, <2>2, LqMoveVisited
  <1> QED BY <1>2, <1>3

\* The IOC order of t on s.
LEMMA LqIocStep ==
    ASSUME LqInv, NEW t \in LqTasks, NEW s \in lqTodo[t], lqAt[t] = "flatten", LqIoc(t, s),
           UNCHANGED <<lqBook, lqDoomed, lqSent, lqTwap, lqSnap, lqStaged, lqSoak, lqCalls>>
    PROVE  LqInv'
  <1>0. LqTypeOK /\ LqOrderly /\ LqVisited /\ LqFlat /\ LqEveryoneTried
    BY DEF LqInv
  <1>1. s \in LqSyms /\ lqSnap[t][s] \in Int /\ lqHeld[s] \in Int /\ lqSnap[t][s] # 0 /\ lqTodo[t] \in SUBSET LqSyms
    BY <1>0 DEF LqTypeOK, LqOrderly, LqWanted
  <1> DEFINE q == lqSnap[t][s]
  <1>2. PICK n \in 0..LqAbs(q), heard \in BOOLEAN :
          /\ IF heard THEN UNCHANGED lqFaults ELSE LqFault
          /\ lqHeld' = [lqHeld EXCEPT ![s] = lqHeld[s] - n * LqSign(q)]
          /\ lqCause' = [lqCause EXCEPT ![s] = lqCause[s] \cup (IF n > 0 THEN LqStale(s, t) ELSE {})
                                                  \cup (IF heard THEN {} ELSE {"unheard"})]
          /\ IF LqReported(n, heard) > 0 THEN LqResult(t, s, TRUE)
             ELSE LqGoto(t, "market") /\ UNCHANGED <<lqTried, lqFailed>>
    BY Zenon DEF LqIoc
  <1>3. n \in Int /\ n >= 0 /\ (q > 0 => n <= q /\ n * LqSign(q) = n) /\ (q < 0 => n <= -q /\ n * LqSign(q) = -n)
        /\ n * LqSign(q) \in Int
    <2>1. (q > 0 => LqAbs(q) = q /\ LqSign(q) = 1) /\ (q < 0 => LqAbs(q) = -q /\ LqSign(q) = -1)
      BY <1>1 DEF LqAbs, LqSign
    <2> HIDE DEF q
    <2>2. q > 0 \/ q < 0
      BY <1>1 DEF q
    <2>3. CASE q > 0
      BY <1>1, <2>1, <2>3 DEF q
    <2>4. CASE q < 0
      BY <1>1, <2>1, <2>4 DEF q
    <2> QED BY <2>2, <2>3, <2>4
  <1>4. lqFaults' \in 0..LqMaxFaults
    BY <1>0, <1>2, LqAssumption DEF LqFault, LqTypeOK
  <1>5. lqCause' \in [LqSyms -> SUBSET LqCauses]
    <2>1. lqCause \in [LqSyms -> SUBSET LqCauses] /\ LqStale(s, t) \subseteq LqCauses /\ "unheard" \in LqCauses
      BY <1>0 DEF LqTypeOK, LqStale, LqCauses
    <2> QED BY <1>2, <2>1
  <1> HIDE DEF q
  <1>6. lqHeld' \in [LqSyms -> Int] /\ lqHeld'[s] = lqHeld[s] - n * LqSign(q) /\ \A r \in LqSyms \ {s} : lqHeld'[r] = lqHeld[r]
    BY <1>0, <1>1, <1>2, <1>3 DEF LqTypeOK
  <1>7. PICK place \in {"market", "done", "flatten"}, todo \in {lqTodo[t], LqWanted(t), lqTodo[t] \ {s}} :
          /\ LqStage(t, place, todo)
          /\ \/ place = "market" /\ todo = lqTodo[t] /\ LqReported(n, heard) <= 0 /\ UNCHANGED <<lqTried, lqFailed>>
             \/ /\ LqReported(n, heard) > 0 /\ LqResult(t, s, TRUE)
                /\ \/ place = "done" /\ lqTodo[t] = {s}
                   \/ place = "flatten" /\ todo = lqTodo[t] \ {s}
    <2>1. CASE LqReported(n, heard) > 0
      BY <1>2, <2>1 DEF LqResult, LqTurn
    <2>2. CASE ~(LqReported(n, heard) > 0)
      <3>1. LqReported(n, heard) <= 0
        BY <1>3, <2>2 DEF LqReported
      <3> QED BY <1>2, <2>2, <3>1 DEF LqGoto
    <2> QED BY <2>1, <2>2
  <1>8. place \in LqPlaces /\ todo \in SUBSET LqSyms
    BY <1>1 DEF LqPlaces, LqWanted
  <1>9. /\ lqAt' \in [LqTasks -> LqPlaces] /\ lqTodo' \in [LqTasks -> SUBSET LqSyms]
        /\ lqAt'[t] = place /\ lqTodo'[t] = todo
        /\ \A u \in LqTasks \ {t} : lqAt'[u] = lqAt[u] /\ lqTodo'[u] = lqTodo[u]
    BY <1>0, <1>7, <1>8, LqMoveTyped
  <1>10. /\ lqTried' \subseteq LqSyms /\ lqFailed' \subseteq LqSyms
         /\ t # LqAll => UNCHANGED <<lqTried, lqFailed>>
         /\ place # "market" /\ t = LqAll => lqTried' \cup lqFailed' = lqTried \cup lqFailed \cup {s}
    BY <1>0, <1>1, <1>7, LqNames DEF LqResult, LqTypeOK
  <1>11. LqTypeOK'
    BY <1>0, <1>4, <1>5, <1>6, <1>9, <1>10 DEF LqTypeOK
  <1>12. LqOrderly' /\ LqVisited' /\ LqEveryoneTried'
    <2>1. \A i \in LqIds : i > lqSent' => lqBook'[i].by = LqNobody
      BY <1>0 DEF LqOrderly
    <2>2. \A i \in LqIds, u \in LqTasks \ {t} : lqBook'[i].by = u => lqBook[i].by = u
      OBVIOUS
    <2>3. CASE place = "market"
      <3>1. todo = lqTodo[t] /\ todo # {} /\ todo \subseteq LqWanted(t) /\ UNCHANGED <<lqTried, lqFailed>>
        BY <1>0, <1>7, <2>3 DEF LqOrderly
      <3>2. LqOrderly'
        BY <1>0, <1>7, <1>8, <2>1, <2>2, <2>3, <3>1, LqMoveOrderly
      <3>3. t = LqAll /\ ~lqSoak => lqTried' \cup lqFailed' = LqWanted(t) \ todo
        BY <1>0, <3>1 DEF LqVisited
      <3>4. LqVisited' /\ LqEveryoneTried'
        BY <1>0, <1>7, <1>8, <2>3, <3>1, <3>3, LqMoveVisited
      <3> QED BY <3>2, <3>4
    <2>4. CASE place # "market"
      BY <1>7, <1>8, <1>10, <2>1, <2>2, <2>4, LqSentOn
    <2> QED BY <2>3, <2>4
  <1>13. LqFlat'
    <2> SUFFICES ASSUME NEW u \in LqTasks, NEW r \in LqSyms, LqActive(u, r)', lqCause'[r] = {}
                 PROVE  LqHolds(u, r)'
      BY DEF LqFlat
    <2>1. LqActive(u, r)
      BY <1>9 DEF LqActive
    <2>2. lqCause[r] = {} /\ (r = s => heard /\ (n > 0 => LqStale(s, t) = {}))
      <3>1. lqCause \in [LqSyms -> SUBSET LqCauses]
        BY <1>0 DEF LqTypeOK
      <3> QED BY <1>2, <3>1
    <2>3. LqHolds(u, r)
      BY <1>0, <2>1, <2>2 DEF LqFlat
    <2>4. LqMine(u, r)' = LqMine(u, r) /\ \A i \in LqMine(u, r) : lqBook'[i].qty = lqBook[i].qty
      BY DEF LqMine
    <2>5. LqPending(u, r)' => LqPending(u, r)
      BY <1>7, <1>9 DEF LqPending
    <2>6. CASE r # s
      <3>1. lqHeld'[r] = lqHeld[r]
        BY <1>6, <2>6
      <3> QED BY <2>3, <2>4, <2>5, <3>1, LqHoldsKept
    <2>7. CASE r = s /\ n = 0
      <3>1. lqHeld'[r] = lqHeld[r]
        BY <1>1, <1>3, <1>6, <2>7 DEF q
      <3> QED BY <2>3, <2>4, <2>5, <3>1, LqHoldsKept
    <2>8. CASE r = s /\ n > 0
      <3>1. u = t
        BY <2>1, <2>2, <2>8 DEF LqStale
      <3>2. LqPending(t, s)
        BY DEF LqPending
      <3>3. lqHeld[s] = q /\ LqMine(t, s) = {}
        BY <2>3, <2>8, <3>1, <3>2 DEF LqHolds, q
      <3>4. LqReported(n, heard) > 0
        BY <2>2, <2>8 DEF LqReported
      <3>5. ~LqPending(t, s)'
        <4>1. LqReported(n, heard) \in Int
          BY <1>3 DEF LqReported
        <4>2. ~(LqReported(n, heard) <= 0)
          BY <3>4, <4>1
        <4>3. place = "done" \/ (place = "flatten" /\ todo = lqTodo[t] \ {s})
          BY Zenon, <1>7, <4>2
        <4> QED BY <1>9, <4>3 DEF LqPending
      <3>6. LqBetween(lqHeld'[s], q)
        BY <1>1, <1>3, <1>6, <3>3 DEF LqBetween
      <3>7. LqBounded(lqHeld'[s], q, {}, lqBook')
        BY <3>6 DEF LqBounded
      <3>8. LqMine(t, s)' = {} /\ lqSnap'[t][s] = q
        BY <2>4, <2>8, <3>1, <3>3 DEF q
      <3> QED BY <2>8, <3>1, <3>5, <3>7, <3>8 DEF LqHolds
    <2> QED BY <1>3, <2>6, <2>7, <2>8
  <1> QED BY <1>11, <1>12, <1>13 DEF LqInv

LEMMA LqFlattenStep == ASSUME LqInv, NEW t \in LqTasks, NEW s \in LqSyms, LqFlatten(t, s) PROVE LqInv'
  <1>0. LqTypeOK /\ LqOrderly /\ LqVisited /\ LqFlat /\ LqEveryoneTried
    BY DEF LqInv
  <1>1. /\ lqAt[t] = "flatten" /\ lqTodo[t] # {} /\ s = LqLeast(lqTodo[t])
        /\ UNCHANGED <<lqBook, lqDoomed, lqSent, lqTwap, lqSnap, lqStaged, lqSoak, lqCalls>>
    BY DEF LqFlatten
  <1>2. lqTodo[t] \in SUBSET LqSyms /\ s \in lqTodo[t]
    BY <1>0, <1>1, LqLeastIn DEF LqTypeOK
  <1>3. CASE LqIoc(t, s)
    BY <1>1, <1>2, <1>3, LqIocStep
  <1>4. CASE /\ UNCHANGED <<lqHeld, lqCause, lqTried, lqFailed, lqFaults>>
             /\ \/ lqSoak /\ LqTurn(t, s, "done")
                \/ LqGoto(t, "market")
    <2>1. PICK place \in {"done", "flatten", "market"}, todo \in {LqWanted(t), lqTodo[t] \ {s}, lqTodo[t]} :
            /\ LqStage(t, place, todo)
            /\ \/ place = "market" /\ todo = lqTodo[t]
               \/ place = "done" /\ lqSoak
               \/ place = "flatten" /\ todo = lqTodo[t] \ {s} /\ lqSoak
      BY <1>1, <1>4 DEF LqTurn, LqGoto
    <2>2. place \in LqPlaces /\ todo \in SUBSET LqSyms /\ LqQuiet(t, place, todo)
      BY <1>1, <1>2, <2>1 DEF LqPlaces, LqQuiet, LqWanted
    <2>3. LqOrderly' /\ LqVisited' /\ LqFlat' /\ LqEveryoneTried'
      BY <1>1, <1>4, <2>1, <2>2, LqQuietStep
    <2>4. lqAt' \in [LqTasks -> LqPlaces] /\ lqTodo' \in [LqTasks -> SUBSET LqSyms]
      BY <1>0, <2>1, <2>2, LqMoveTyped
    <2>5. LqTypeOK'
      BY <1>0, <1>1, <1>4, <2>4 DEF LqTypeOK
    <2> QED BY <2>3, <2>5 DEF LqInv
  <1>5. CASE t[1] = "all" /\ LqFault /\ LqResult(t, s, FALSE) /\ UNCHANGED <<lqHeld, lqCause>>
    <2>1. /\ t = LqAll /\ lqTried' = lqTried /\ lqFailed' = lqFailed \cup {s} /\ lqFaults' \in 0..LqMaxFaults
      BY <1>0, <1>5, LqNames, LqAssumption DEF LqResult, LqFault, LqTypeOK
    <2>2. PICK place \in {"done", "flatten"}, todo \in {LqWanted(t), lqTodo[t] \ {s}} :
            /\ LqStage(t, place, todo)
            /\ \/ place = "done" /\ lqTodo[t] = {s}
               \/ place = "flatten" /\ todo = lqTodo[t] \ {s}
      BY <1>1, <1>5 DEF LqResult, LqTurn
    <2>3. place \in LqPlaces /\ todo \in SUBSET LqSyms
      BY <1>2 DEF LqPlaces, LqWanted
    <2>4. LqOrderly' /\ LqVisited' /\ LqEveryoneTried'
      <3>1. \A i \in LqIds : i > lqSent' => lqBook'[i].by = LqNobody
        BY <1>0, <1>1 DEF LqOrderly
      <3>2. \A i \in LqIds, u \in LqTasks \ {t} : lqBook'[i].by = u => lqBook[i].by = u
        BY <1>1
      <3>3. lqTried' \cup lqFailed' = lqTried \cup lqFailed \cup {s}
        BY <2>1
      <3> QED BY <1>1, <1>2, <2>1, <2>2, <2>3, <3>1, <3>2, <3>3, LqSentOn
    <2>5. LqFlat'
      <3>1. \A r \in LqSyms : r \in LqWanted(t) /\ (\/ place \in {"check", "cancel", "await", "again", "clear"}
                                                    \/ place \in {"flatten", "market"} /\ r \in todo)
              => LqPending(t, r)
        BY <1>1, <2>2 DEF LqPending
      <3> QED BY <1>0, <1>1, <1>5, <2>2, <2>3, <3>1, LqMoveFlat
    <2>6. lqAt' \in [LqTasks -> LqPlaces] /\ lqTodo' \in [LqTasks -> SUBSET LqSyms]
      BY <1>0, <2>2, <2>3, LqMoveTyped
    <2>7. LqTypeOK'
      BY <1>0, <1>1, <1>5, <2>1, <2>6 DEF LqTypeOK
    <2> QED BY <2>4, <2>5, <2>7 DEF LqInv
  <1> QED BY <1>3, <1>4, <1>5 DEF LqFlatten

\* The market order closes what the snapshot held, which is still what is held.
LEMMA LqSellStep == ASSUME LqInv, NEW t \in LqTasks, NEW s \in LqSyms, LqSell(t, s) PROVE LqInv'
  <1>0. LqTypeOK /\ LqOrderly /\ LqVisited /\ LqFlat /\ LqEveryoneTried
    BY DEF LqInv
  <1>1. /\ lqAt[t] = "market" /\ s = LqLeast(lqTodo[t])
        /\ IF lqTodo[t] = {s} THEN LqStage(t, "done", LqWanted(t)) ELSE LqStage(t, "flatten", lqTodo[t] \ {s})
        /\ LqPlace(s, -lqSnap[t][s], t) \/ UNCHANGED <<lqBook, lqSent>>
        /\ UNCHANGED <<lqHeld, lqDoomed, lqTwap, lqSnap, lqStaged, lqSoak, lqCalls, lqCause>>
    BY DEF LqSell
  <1>2. lqTodo[t] \in SUBSET LqSyms /\ s \in lqTodo[t] /\ lqSnap[t][s] # 0 /\ lqSnap[t][s] \in Int
    <2>1. lqTodo[t] # {} /\ lqTodo[t] \in SUBSET LqSyms /\ lqTodo[t] \subseteq LqWanted(t)
      BY <1>0, <1>1 DEF LqTypeOK, LqOrderly
    <2>2. s \in lqTodo[t]
      BY <1>1, <2>1, LqLeastIn
    <2> QED BY <1>0, <2>1, <2>2 DEF LqWanted, LqTypeOK
  <1>3. /\ lqTried' \subseteq LqSyms /\ lqFailed' \subseteq LqSyms
        /\ t # LqAll => UNCHANGED <<lqTried, lqFailed>>
        /\ t = LqAll => lqTried' \cup lqFailed' = lqTried \cup lqFailed \cup {s}
    BY <1>0, LqNames DEF LqSell, LqTypeOK
  <1>4. lqFaults' \in 0..LqMaxFaults
    BY <1>0, LqAssumption DEF LqSell, LqFault, LqTypeOK
  <1>5. PICK place \in {"done", "flatten"}, todo \in {LqWanted(t), lqTodo[t] \ {s}} :
          /\ LqStage(t, place, todo)
          /\ \/ place = "done" /\ lqTodo[t] = {s}
             \/ place = "flatten" /\ todo = lqTodo[t] \ {s}
    BY <1>1
  <1>6. place \in LqPlaces /\ todo \in SUBSET LqSyms
    BY <1>2 DEF LqPlaces, LqWanted
  <1>7. /\ lqAt' \in [LqTasks -> LqPlaces] /\ lqTodo' \in [LqTasks -> SUBSET LqSyms]
        /\ lqAt'[t] = place /\ lqTodo'[t] = todo
        /\ \A u \in LqTasks \ {t} : lqAt'[u] = lqAt[u] /\ lqTodo'[u] = lqTodo[u]
    BY <1>0, <1>5, <1>6, LqMoveTyped
  <1>8. lqBook \in [LqIds -> [sym : LqSyms \cup {0}, qty : Int, by : LqTasks \cup {LqNobody, LqStrategy}]]
    BY <1>0 DEF LqTypeOK
  <1>9. CASE UNCHANGED <<lqBook, lqSent>>
    <2>1. LqOrderly' /\ LqVisited' /\ LqEveryoneTried'
      <3>1. \A i \in LqIds : i > lqSent' => lqBook'[i].by = LqNobody
        BY <1>0, <1>9 DEF LqOrderly
      <3>2. \A i \in LqIds, u \in LqTasks \ {t} : lqBook'[i].by = u => lqBook[i].by = u
        BY <1>9
      <3> QED BY <1>1, <1>2, <1>3, <1>5, <1>6, <3>1, <3>2, LqSentOn
    <2>2. LqFlat'
      <3>1. \A r \in LqSyms : r \in LqWanted(t) /\ (\/ place \in {"check", "cancel", "await", "again", "clear"}
                                                    \/ place \in {"flatten", "market"} /\ r \in todo)
              => LqPending(t, r)
        BY <1>1, <1>5 DEF LqPending
      <3> QED BY <1>0, <1>1, <1>5, <1>6, <1>9, <3>1, LqMoveFlat
    <2>3. LqTypeOK'
      BY <1>0, <1>1, <1>3, <1>4, <1>7, <1>9 DEF LqTypeOK
    <2> QED BY <2>1, <2>2, <2>3 DEF LqInv
  <1>10. CASE LqPlace(s, -lqSnap[t][s], t)
    <2> DEFINE k == lqSent + 1
    <2>1. /\ lqSent < LqMaxOrders /\ lqSent' = k
          /\ lqBook' = [lqBook EXCEPT ![k] = [sym |-> s, qty |-> -lqSnap[t][s], by |-> t]]
      BY <1>10 DEF LqPlace
    <2>2. lqSent \in 0..LqMaxOrders /\ LqMaxOrders \in Nat /\ k \in LqIds /\ k \in 0..LqMaxOrders /\ k > lqSent
      BY <1>0, <2>1, LqAssumption DEF LqTypeOK, LqIds
    <2>3. -lqSnap[t][s] \in Int
      BY <1>2
    <2>4. /\ lqBook' \in [LqIds -> [sym : LqSyms \cup {0}, qty : Int, by : LqTasks \cup {LqNobody, LqStrategy}]]
          /\ lqBook'[k].by = t /\ lqBook'[k].sym = s /\ lqBook'[k].qty = -lqSnap[t][s]
          /\ \A i \in LqIds \ {k} : lqBook'[i] = lqBook[i]
      <3> HIDE DEF k
      <3> QED BY <1>8, <2>1, <2>2, <2>3
    <2>5. lqBook[k].by = LqNobody
      BY <1>0, <2>2 DEF LqOrderly
    <2>6. \A i \in LqIds, u \in LqTasks \ {t} : (lqBook'[i].by = u <=> lqBook[i].by = u)
      <3> HIDE DEF k
      <3> QED BY <2>4, <2>5, LqNames
    <2>7. LqOrderly' /\ LqVisited' /\ LqEveryoneTried'
      <3>1. \A i \in LqIds : i > lqSent' => lqBook'[i].by = LqNobody
        BY <1>0, <2>1, <2>2, <2>4 DEF LqOrderly, LqIds
      <3> QED BY <1>1, <1>2, <1>3, <1>5, <1>6, <2>6, <3>1, LqSentOn
    <2>8. LqTypeOK'
      BY <1>0, <1>1, <1>3, <1>4, <1>7, <2>1, <2>2, <2>4 DEF LqTypeOK
    <2> HIDE DEF k
    <2>9. LqFlat'
      <3> SUFFICES ASSUME NEW u \in LqTasks, NEW r \in LqSyms, LqActive(u, r)', lqCause'[r] = {}
                   PROVE  LqHolds(u, r)'
        BY DEF LqFlat
      <3>1. LqActive(u, r)
        BY <1>1, <1>7 DEF LqActive
      <3>2. LqHolds(u, r)
        BY <1>0, <1>1, <3>1 DEF LqFlat
      <3>3. LqPending(u, r)' => LqPending(u, r)
        BY <1>1, <1>5, <1>7 DEF LqPending
      <3>4. CASE u # t \/ r # s
        <4>1. \A i \in LqIds : i \in LqMine(u, r)' <=> i \in LqMine(u, r)
          <5>1. k \notin LqMine(u, r)' /\ k \notin LqMine(u, r)
            BY <2>4, <2>5, <3>4, LqNames DEF LqMine
          <5> QED BY <2>4, <5>1 DEF LqMine
        <4>2. LqMine(u, r)' = LqMine(u, r)
          BY <4>1 DEF LqMine
        <4>3. \A i \in LqMine(u, r) : lqBook'[i].qty = lqBook[i].qty
          <5>1. k \notin LqMine(u, r)
            BY <2>5, LqNames DEF LqMine
          <5> QED BY <2>4, <5>1 DEF LqMine
        <4> QED BY <1>1, <3>2, <3>3, <4>2, <4>3, LqHoldsKept
      <3>5. CASE u = t /\ r = s
        <4>1. lqHeld[s] = lqSnap[t][s] /\ LqMine(t, s) = {}
          BY <1>1, <1>2, <3>2, <3>5 DEF LqHolds, LqPending
        <4>2. LqMine(t, s)' = {k}
          <5>1. k \in LqMine(t, s)'
            BY <2>2, <2>4 DEF LqMine
          <5>2. ASSUME NEW i \in LqIds \ {k} PROVE i \notin LqMine(t, s)'
            BY <2>4, <4>1 DEF LqMine
          <5>3. LqMine(t, s)' \subseteq LqIds
            BY DEF LqMine
          <5> QED BY <5>1, <5>2, <5>3
        <4>3. ~LqPending(t, s)'
          BY <1>5, <1>7 DEF LqPending
        <4> DEFINE q == lqSnap[t][s]
        <4>4. LqBetween(q, q) /\ LqBetween(q + (-q), q) /\ LqBetween(-(-q), q)
          <5> HIDE DEF q
          <5>1. q \in Int
            BY <1>2 DEF q
          <5> QED BY <5>1 DEF LqBetween
        <4>5. LqBounded(q, q, {k}, lqBook')
          BY <2>4, <4>4 DEF LqBounded
        <4>6. lqHeld'[s] = q /\ lqSnap'[t][s] = q
          BY <1>1, <4>1
        <4> HIDE DEF q
        <4> QED BY <3>5, <4>2, <4>3, <4>5, <4>6 DEF LqHolds
      <3> QED BY <3>4, <3>5
    <2> QED BY <2>7, <2>8, <2>9 DEF LqInv
  <1> QED BY <1>1, <1>9, <1>10

LEMMA LqInvStep == LqInv /\ [LqNext]_lqVars => LqInv'
  <1> SUFFICES ASSUME LqInv, [LqNext]_lqVars PROVE LqInv'
    OBVIOUS
  <1>1. CASE UNCHANGED lqVars
    BY <1>1 DEF lqVars, LqInv, LqTypeOK, LqOrderly, LqVisited, LqFlat, LqEveryoneTried, LqHolds, LqActive, LqPending,
                LqMine, LqWanted, LqBounded
  <1>2. ASSUME NEW t \in LqTasks, LqStep(t) PROVE LqInv'
    BY <1>2, LqReadStep, LqCheckStep, LqClearStep, LqCloseStep, LqOutStep, LqCancelStep, LqAwaitStep, LqFlattenStep,
       LqSellStep DEF LqStep
  <1>3. ASSUME NEW t \in LqTasks, LqBegin(t) \/ LqAbort(t) PROVE LqInv'
    BY <1>3, LqBeginStep, LqOutStep
  <1> QED BY <1>1, <1>2, <1>3, LqFillStep, LqCancelLandsStep, LqSubmitStep, LqSliceStep, LqReconcileStep DEF LqNext

\* What one order in the book, or none, adds to the position.
LEMMA LqTotalOf ==
    ASSUME NEW f \in [LqIds -> Int], NEW mine \in SUBSET LqIds, \A i, j \in mine : i = j,
           \A i \in LqIds \ mine : f[i] = 0
    PROVE  LqTotal(f) = 0 \/ \E i \in mine : LqTotal(f) = f[i]
  <1>1. LqTotal(f) = SumFold(f, LqIds)[LqIds]
    BY DEF LqTotal, FoldSet, MapThenFoldSet, SumFold, SumTurn, Pick
  <1>2. IsFiniteSet(LqIds)
    <2>1. LqMaxOrders \in Int /\ 1 \in Int
      BY LqAssumption
    <2> QED BY <2>1, FS_Interval DEF LqIds
  <1>3. CASE mine = {}
    BY <1>1, <1>2, <1>3, SumOfZeros
  <1>4. CASE mine # {}
    <2>1. PICK i \in mine : TRUE
      BY <1>4
    <2> DEFINE z == [j \in LqIds |-> 0]
    <2>2. z \in [LqIds -> Int] /\ (\A j \in LqIds : z[j] = 0) /\ \A j \in LqIds \ {i} : f[j] = z[j]
      BY <2>1
    <2> HIDE DEF z
    <2>3. SumFold(z, LqIds)[LqIds] = 0
      BY <1>2, <2>2, SumOfZeros
    <2>4. SumFold(f, LqIds)[LqIds] = SumFold(z, LqIds)[LqIds] + (f[i] - z[i])
      BY <1>2, <2>2, SumChanges
    <2>5. f[i] \in Int /\ z[i] = 0
      BY <2>1, <2>2
    <2> QED BY <1>1, <2>1, <2>3, <2>4, <2>5
  <1> QED BY <1>3, <1>4

\* A flatten never turns a position round without a recorded cause, and a portfolio flatten that
\* returns has tried every position it read: for any symbols, any positions and any number of calls,
\* orders and faults.
THEOREM FlattensOnly == LqSpec => []LqFlattensOnly
  <1>1. LqInv => LqFlattensOnly
    <2> SUFFICES ASSUME LqInv PROVE LqNeverReversed
      BY DEF LqInv, LqFlattensOnly
    <2> SUFFICES ASSUME NEW t \in LqTasks, NEW s \in LqSyms, LqActive(t, s), lqCause[s] = {}
                 PROVE  LqExposure(t, s) * LqSign(lqSnap[t][s]) \in 0..LqAbs(lqSnap[t][s])
      BY DEF LqNeverReversed
    <2> DEFINE f == LqSentBy(t, s)
               q == lqSnap[t][s]
    <2>1. LqBounded(lqHeld[s], q, LqMine(t, s), lqBook)
      BY DEF LqInv, LqFlat, LqHolds
    <2>2. lqHeld[s] \in Int /\ q \in Int /\ q # 0
      BY DEF LqInv, LqTypeOK, LqActive
    <2>3. f \in [LqIds -> Int] /\ (\A i \in LqIds \ LqMine(t, s) : f[i] = 0)
          /\ \A i \in LqMine(t, s) : f[i] = lqBook[i].qty
      BY DEF LqInv, LqTypeOK, LqSentBy, LqMine
    <2>4. LqMine(t, s) \in SUBSET LqIds /\ \A i, j \in LqMine(t, s) : i = j
      BY <2>1 DEF LqMine, LqBounded
    <2> HIDE DEF f, q
    <2>5. LqTotal(f) = 0 \/ \E i \in LqMine(t, s) : LqTotal(f) = f[i]
      BY <2>3, <2>4, LqTotalOf
    <2> DEFINE e == lqHeld[s] + LqTotal(f)
    <2>6. e \in Int /\ LqBetween(e, q)
      <3>1. CASE LqTotal(f) = 0
        BY <2>1, <2>2, <3>1 DEF LqBounded, LqBetween
      <3>2. CASE \E i \in LqMine(t, s) : LqTotal(f) = f[i]
        <4>1. PICK i \in LqMine(t, s) : LqTotal(f) = f[i]
          BY <3>2
        <4>2. e = lqHeld[s] + lqBook[i].qty /\ f[i] \in Int
          BY <2>3, <2>4, <4>1
        <4> QED BY <2>1, <2>2, <4>1, <4>2 DEF LqBounded
      <3> QED BY <2>5, <3>1, <3>2
    <2>7. LqExposure(t, s) = e
      BY DEF LqExposure, f
    <2> HIDE DEF e
    <2>8. e * LqSign(q) \in 0..LqAbs(q)
      <3>1. CASE q > 0
        <4>1. LqSign(q) = 1 /\ LqAbs(q) = q
          BY <2>2, <3>1 DEF LqSign, LqAbs
        <4> QED BY <2>2, <2>6, <3>1, <4>1 DEF LqBetween
      <3>2. CASE q < 0
        <4>1. LqSign(q) = -1 /\ LqAbs(q) = -q
          BY <2>2, <3>2 DEF LqSign, LqAbs
        <4>2. e * (-1) = -e
          BY <2>6
        <4> QED BY <2>2, <2>6, <3>2, <4>1, <4>2 DEF LqBetween
      <3> QED BY <2>2, <3>1, <3>2
    <2> QED BY <2>7, <2>8 DEF q
  <1> QED BY <1>1, LqInvInit, LqInvStep, PTL DEF LqSpec

-----------------------------------------------------------------------------
(* Capital.                                                                *)

CpDays == 1..CpMaxDay

CpRanges ==
    /\ cpDay \in CpDays /\ cpBroker \in Int /\ cpSnap \in {-1} \cup Nat /\ cpBook \in [CpLegs -> 0..CpMaxWant]
    /\ cpLeg \in [CpLegs -> [at : {"idle", "planned", "sent", "done"}, n : 0..CpMaxWant]]
    /\ cpCache \in [CpDays -> {-1} \cup Nat] /\ cpStore \in [CpDays -> Nat] /\ cpSpent \in [CpDays -> Nat]
    /\ cpLocked \in BOOLEAN /\ cpGap \in BOOLEAN

\* A plan is for what is reserved; a leg without one has nothing reserved at the start of a cycle.
CpBooked ==
    /\ cpTotal = CpSum(cpBook)
    /\ \A l \in CpLegs : (cpLeg[l].at = "planned" => cpLeg[l].n = cpBook[l]) /\ (cpLeg[l].at = "idle" => cpBook[l] = 0)

\* What is reserved for orders that are out: the snapshot may still show the money they took.
CpLoose == [l \in CpLegs |-> IF cpLeg[l].at = "planned" THEN 0 ELSE cpBook[l]]

\* While a leg may still plan, the snapshot shows no more than the broker has and such orders took.
CpBacked ==
    cpSnap # -1 /\ (\E l \in CpLegs : cpLeg[l].at \in {"idle", "planned"}) => cpSnap <= cpBroker + CpSum(CpLoose)

\* Unless a total was lost, the day's total is what was spent, and the row is not ahead of it.
CpTallied == ~cpGap => \A d \in CpDays : cpStore[d] <= cpSpent[d] /\ CpLoaded(d) = cpSpent[d]

CpInv == CpRanges /\ CpBooked /\ CpFunded /\ CpBacked /\ CpTallied

\* The ledger total as the sum of the library above it.
LEMMA CpSumIs ==
    ASSUME NEW f
    PROVE  CpSum(f) = SumFold(f, CpLegs)[CpLegs]
  BY DEF CpSum, FoldSet, MapThenFoldSet, SumFold, SumTurn, Pick

\* A total is a natural number, and no leg has more than it.
LEMMA CpSumNat ==
    ASSUME NEW f \in [CpLegs -> Nat]
    PROVE  CpSum(f) \in Nat /\ \A l \in CpLegs : f[l] <= CpSum(f)
  <1>1. IsFiniteSet(CpLegs) /\ f \in [CpLegs -> Int]
    BY CpAssumption
  <1>2. \A s \in SUBSET CpLegs : SumFold(f, CpLegs)[s] \in Nat
    BY <1>1, SumIsNat
  <1>3. ASSUME NEW l \in CpLegs PROVE f[l] <= SumFold(f, CpLegs)[CpLegs]
    <2>1. SumFold(f, CpLegs)[CpLegs] = SumFold(f, CpLegs)[CpLegs \ {l}] + f[l]
      BY <1>1, SumTakesOut
    <2> QED BY <1>2, <2>1
  <1> QED BY <1>2, <1>3, CpSumIs

\* A change of one leg changes the total by as much.
LEMMA CpSumChanges ==
    ASSUME NEW f \in [CpLegs -> Nat], NEW h \in [CpLegs -> Nat], NEW c \in CpLegs, \A l \in CpLegs \ {c} : h[l] = f[l]
    PROVE  CpSum(h) = CpSum(f) + (h[c] - f[c])
  <1>1. IsFiniteSet(CpLegs) /\ f \in [CpLegs -> Int] /\ h \in [CpLegs -> Int]
    BY CpAssumption
  <1>2. SumFold(h, CpLegs)[CpLegs] = SumFold(f, CpLegs)[CpLegs] + (h[c] - f[c])
    BY <1>1, SumChanges
  <1> QED BY <1>2, CpSumIs

\* An empty ledger has no total.
LEMMA CpSumZero ==
    ASSUME NEW f \in [CpLegs -> Nat], \A l \in CpLegs : f[l] = 0
    PROVE  CpSum(f) = 0
  <1>1. IsFiniteSet(CpLegs) /\ f \in [CpLegs -> Int]
    BY CpAssumption
  <1>2. SumFold(f, CpLegs)[CpLegs] = 0
    BY <1>1, SumOfZeros
  <1> QED BY <1>2, CpSumIs

\* The reservations are those of plans and those of orders that are out.
LEMMA CpSplit ==
    ASSUME CpInv
    PROVE  /\ cpBook \in [CpLegs -> Nat] /\ CpPlanned \in [CpLegs -> Nat] /\ CpLoose \in [CpLegs -> Nat]
           /\ CpSum(CpPlanned) \in Nat /\ CpSum(CpLoose) \in Nat /\ cpTotal = CpSum(CpPlanned) + CpSum(CpLoose)
           /\ \A l \in CpLegs : cpBook[l] <= cpTotal /\ CpPlanned[l] <= CpSum(CpPlanned)
  <1>1. CpMaxWant \in Nat /\ IsFiniteSet(CpLegs)
    BY CpAssumption
  <1>2. cpBook \in [CpLegs -> Nat] /\ CpPlanned \in [CpLegs -> Nat] /\ CpLoose \in [CpLegs -> Nat]
    BY <1>1 DEF CpInv, CpRanges, CpPlanned, CpLoose
  <1>3. \A l \in CpLegs : cpBook[l] = CpPlanned[l] + CpLoose[l]
    BY <1>2 DEF CpInv, CpBooked, CpPlanned, CpLoose
  <1>4. CpSum(cpBook) = CpSum(CpPlanned) + CpSum(CpLoose)
    <2>1. cpBook \in [CpLegs -> Int] /\ CpPlanned \in [CpLegs -> Int] /\ CpLoose \in [CpLegs -> Int]
      BY <1>2
    <2>2. SumFold(cpBook, CpLegs)[CpLegs] = SumFold(CpPlanned, CpLegs)[CpLegs] + SumFold(CpLoose, CpLegs)[CpLegs]
      BY <1>1, <1>3, <2>1, SumAdds
    <2> QED BY <2>2, CpSumIs
  <1>5. CpSum(CpPlanned) \in Nat /\ CpSum(CpLoose) \in Nat /\ \A l \in CpLegs : CpPlanned[l] <= CpSum(CpPlanned)
    BY <1>2, CpSumNat
  <1>6. \A l \in CpLegs : cpBook[l] <= CpSum(cpBook)
    BY <1>2, CpSumNat
  <1> QED BY <1>2, <1>4, <1>5, <1>6 DEF CpInv, CpBooked

LEMMA CpInvInit == CpInit => CpInv
  <1> SUFFICES ASSUME CpInit PROVE CpInv
    OBVIOUS
  <1>1. CpMaxWant \in Nat /\ CpMaxDay \in Nat \ {0} /\ CpPower \in Nat
    BY CpAssumption
  <1>2. CpRanges
    <2>1. cpLocked \in BOOLEAN /\ cpGap \in BOOLEAN
      BY Zenon DEF CpInit
    <2>2. /\ cpDay \in CpDays /\ cpBroker \in Int /\ cpSnap \in {-1} \cup Nat /\ cpBook \in [CpLegs -> 0..CpMaxWant]
          /\ cpLeg \in [CpLegs -> [at : {"idle", "planned", "sent", "done"}, n : 0..CpMaxWant]]
      BY <1>1 DEF CpInit, CpDays, CpIdle
    <2>3. cpCache \in [CpDays -> {-1} \cup Nat] /\ cpStore \in [CpDays -> Nat] /\ cpSpent \in [CpDays -> Nat]
      BY <1>1 DEF CpInit, CpDays
    <2> QED BY <2>1, <2>2, <2>3 DEF CpRanges
  <1>3. cpBook \in [CpLegs -> Nat] /\ CpPlanned \in [CpLegs -> Nat] /\ \A l \in CpLegs : cpBook[l] = 0 /\ CpPlanned[l] = 0
    BY DEF CpInit, CpPlanned, CpIdle
  <1>4. CpSum(cpBook) = 0 /\ CpSum(CpPlanned) = 0
    BY <1>3, CpSumZero
  <1>5. CpBooked /\ CpFunded /\ CpBacked
    BY <1>1, <1>4 DEF CpInit, CpBooked, CpFunded, CpBacked, CpIdle
  <1>6. CpTallied
    BY DEF CpInit, CpTallied, CpLoaded, CpDays
  <1> QED BY <1>2, <1>5, <1>6 DEF CpInv

\* Nothing is planned or reserved any more.
LEMMA CpCleared ==
    ASSUME CpInv, cpBook' = [l \in CpLegs |-> 0], cpTotal' = 0, cpBroker' = cpBroker,
           NEW none \in {CpIdle, CpDone}, cpLeg' = [l \in CpLegs |-> IF cpLeg[l].at = "sent" THEN cpLeg[l] ELSE none],
           \/ cpSnap' \in {-1, cpBroker}
           \/ cpSnap' = cpSnap /\ none = CpDone
    PROVE  /\ cpBroker \in Nat /\ cpBook' \in [CpLegs -> 0..CpMaxWant]
           /\ cpLeg' \in [CpLegs -> [at : {"idle", "planned", "sent", "done"}, n : 0..CpMaxWant]]
           /\ CpBooked' /\ CpFunded' /\ CpBacked'
  <1>1. CpMaxWant \in Nat
    BY CpAssumption
  <1>2. cpBroker \in Nat
    BY CpSplit DEF CpInv, CpRanges, CpFunded
  <1>3. cpLeg' \in [CpLegs -> [at : {"idle", "planned", "sent", "done"}, n : 0..CpMaxWant]]
    BY <1>1 DEF CpInv, CpRanges, CpIdle, CpDone
  <1>4. \A l \in CpLegs : cpLeg'[l].at # "planned" /\ (none = CpDone => cpLeg'[l].at # "idle")
    BY <1>3 DEF CpIdle, CpDone
  <1>5. /\ cpBook' \in [CpLegs -> Nat] /\ CpPlanned' \in [CpLegs -> Nat] /\ CpLoose' \in [CpLegs -> Nat]
        /\ \A l \in CpLegs : cpBook'[l] = 0 /\ CpPlanned'[l] = 0 /\ CpLoose'[l] = 0
    BY <1>4 DEF CpPlanned, CpLoose
  <1>6. CpSum(cpBook') = 0 /\ CpSum(CpPlanned') = 0 /\ CpSum(CpLoose') = 0
    BY <1>5, CpSumZero
  <1>7. CpBooked'
    BY <1>4, <1>5, <1>6 DEF CpBooked
  <1>8. CpFunded'
    BY <1>2, <1>6 DEF CpFunded
  <1>9. CpBacked'
    BY <1>2, <1>4, <1>6 DEF CpBacked
  <1> QED BY <1>1, <1>2, <1>3, <1>5, <1>7, <1>8, <1>9

\* A step that changes what one leg has.
LEMMA CpOneLeg ==
    ASSUME CpInv, NEW l \in CpLegs, cpBook' \in [CpLegs -> 0..CpMaxWant],
           cpLeg' \in [CpLegs -> [at : {"idle", "planned", "sent", "done"}, n : 0..CpMaxWant]],
           \A k \in CpLegs \ {l} : cpBook'[k] = cpBook[k] /\ cpLeg'[k] = cpLeg[k]
    PROVE  /\ CpSum(cpBook') = cpTotal + (cpBook'[l] - cpBook[l])
           /\ CpSum(CpPlanned') = CpSum(CpPlanned) + (CpPlanned'[l] - CpPlanned[l])
           /\ CpSum(CpLoose') = CpSum(CpLoose) + (CpLoose'[l] - CpLoose[l])
           /\ CpSum(CpLoose') \in Nat
           /\ CpPlanned'[l] = (IF cpLeg'[l].at = "planned" THEN cpLeg'[l].n ELSE 0)
           /\ CpLoose'[l] = (IF cpLeg'[l].at = "planned" THEN 0 ELSE cpBook'[l])
           /\ CpPlanned[l] = (IF cpLeg[l].at = "planned" THEN cpLeg[l].n ELSE 0)
           /\ CpLoose[l] = (IF cpLeg[l].at = "planned" THEN 0 ELSE cpBook[l])
  <1>1. CpMaxWant \in Nat
    BY CpAssumption
  <1>2. cpBook' \in [CpLegs -> Nat] /\ CpPlanned' \in [CpLegs -> Nat] /\ CpLoose' \in [CpLegs -> Nat]
    BY <1>1 DEF CpPlanned, CpLoose
  <1>3. \A k \in CpLegs \ {l} : CpPlanned'[k] = CpPlanned[k] /\ CpLoose'[k] = CpLoose[k] /\ cpBook'[k] = cpBook[k]
    BY DEF CpPlanned, CpLoose
  <1>4. /\ CpPlanned'[l] = (IF cpLeg'[l].at = "planned" THEN cpLeg'[l].n ELSE 0)
        /\ CpLoose'[l] = (IF cpLeg'[l].at = "planned" THEN 0 ELSE cpBook'[l])
        /\ CpPlanned[l] = (IF cpLeg[l].at = "planned" THEN cpLeg[l].n ELSE 0)
        /\ CpLoose[l] = (IF cpLeg[l].at = "planned" THEN 0 ELSE cpBook[l])
    BY DEF CpPlanned, CpLoose
  <1>5. cpBook \in [CpLegs -> Nat] /\ CpPlanned \in [CpLegs -> Nat] /\ CpLoose \in [CpLegs -> Nat]
    BY CpSplit
  <1>6. CpSum(cpBook') = CpSum(cpBook) + (cpBook'[l] - cpBook[l])
    BY <1>2, <1>3, <1>5, CpSumChanges
  <1>7. CpSum(CpPlanned') = CpSum(CpPlanned) + (CpPlanned'[l] - CpPlanned[l])
    BY <1>2, <1>3, <1>5, CpSumChanges
  <1>8. CpSum(CpLoose') = CpSum(CpLoose) + (CpLoose'[l] - CpLoose[l]) /\ CpSum(CpLoose') \in Nat
    BY <1>2, <1>3, <1>5, CpSumChanges, CpSumNat
  <1> QED BY <1>4, <1>6, <1>7, <1>8 DEF CpInv, CpBooked

\* The totals of a day are not touched.
LEMMA CpTallyKept ==
    ASSUME CpTallied, UNCHANGED <<cpCache, cpStore, cpSpent, cpGap>>
    PROVE  CpTallied'
  BY DEF CpTallied, CpLoaded

LEMMA CpPlanStep ==
    ASSUME CpInv, NEW l \in CpLegs, NEW want \in 1..CpMaxWant, NEW n \in 0..CpMaxWant, CpPlan(l, want, n)
    PROVE  CpInv'
  <1> DEFINE r == CpReserved(l, n)
             was == cpBook[l]
             planned == CpSum(CpPlanned)
             loose == CpSum(CpLoose)
  <1>1. CpRanges /\ CpBooked /\ CpFunded /\ CpBacked /\ CpTallied
    BY DEF CpInv
  <1>2. /\ cpSnap # -1 /\ cpLeg[l].at \in {"idle", "planned"} /\ cpBook' = [cpBook EXCEPT ![l] = r]
        /\ cpTotal' = CpMax0(cpTotal - was) + r /\ UNCHANGED cpSnap
        /\ cpLeg' = [cpLeg EXCEPT ![l] = IF cpBook'[l] = 0 THEN CpIdle ELSE [at |-> "planned", n |-> cpBook'[l]]]
        /\ UNCHANGED <<cpDay, cpBroker, cpTurnover, cpSent, cpFaults>>
    BY DEF CpPlan, CpReserve
  <1>3. /\ planned \in Nat /\ loose \in Nat /\ cpTotal = planned + loose /\ was \in Nat /\ was <= cpTotal
        /\ cpSnap \in Nat /\ cpBroker \in Int /\ CpMaxWant \in Nat /\ planned <= cpBroker
    BY <1>1, <1>2, CpSplit, CpAssumption DEF CpRanges, CpFunded
  <1> HIDE DEF planned, loose, was
  <1>4. r \in 0..CpMaxWant /\ (r > 0 => r <= cpSnap - (cpTotal - was)) /\ CpMax0(cpTotal - was) = cpTotal - was
    <2>1. CpMax0(cpTotal - was) = cpTotal - was
      BY <1>3 DEF CpMax0
    <2>2. r = CpMin(n, CpMax0(cpSnap - (cpTotal - was)))
      BY <2>1 DEF CpReserved, was
    <2> QED BY <1>3, <2>1, <2>2 DEF CpMin, CpMax0
  <1> HIDE DEF r
  <1>5. cpBook' \in [CpLegs -> 0..CpMaxWant] /\ cpBook'[l] = r
    BY <1>1, <1>2, <1>4 DEF CpRanges
  <1>6. /\ cpLeg' \in [CpLegs -> [at : {"idle", "planned", "sent", "done"}, n : 0..CpMaxWant]]
        /\ cpLeg'[l] = IF r = 0 THEN CpIdle ELSE [at |-> "planned", n |-> r]
    <2>1. CpIdle \in [at : {"idle", "planned", "sent", "done"}, n : 0..CpMaxWant]
      BY <1>3 DEF CpIdle
    <2>2. [at |-> "planned", n |-> r] \in [at : {"idle", "planned", "sent", "done"}, n : 0..CpMaxWant]
      BY <1>4
    <2> QED BY <1>1, <1>2, <1>5, <2>1, <2>2 DEF CpRanges
  <1>7. /\ cpLeg'[l].at = (IF r = 0 THEN "idle" ELSE "planned") /\ cpLeg'[l].n = r
    BY <1>6 DEF CpIdle
  <1>8. \A k \in CpLegs \ {l} : cpBook'[k] = cpBook[k] /\ cpLeg'[k] = cpLeg[k]
    BY <1>1, <1>2 DEF CpRanges
  <1>9. /\ CpSum(cpBook') = cpTotal + (r - was) /\ CpSum(CpPlanned') = planned + (r - was)
        /\ CpSum(CpLoose') = loose
    <2>1. /\ CpSum(cpBook') = cpTotal + (cpBook'[l] - cpBook[l])
          /\ CpSum(CpPlanned') = CpSum(CpPlanned) + (CpPlanned'[l] - CpPlanned[l])
          /\ CpSum(CpLoose') = CpSum(CpLoose) + (CpLoose'[l] - CpLoose[l])
          /\ CpPlanned'[l] = (IF cpLeg'[l].at = "planned" THEN cpLeg'[l].n ELSE 0)
          /\ CpLoose'[l] = (IF cpLeg'[l].at = "planned" THEN 0 ELSE cpBook'[l])
          /\ CpPlanned[l] = (IF cpLeg[l].at = "planned" THEN cpLeg[l].n ELSE 0)
          /\ CpLoose[l] = (IF cpLeg[l].at = "planned" THEN 0 ELSE cpBook[l])
      BY <1>5, <1>6, <1>8, CpOneLeg
    <2>2. CpPlanned'[l] = r /\ CpLoose'[l] = 0
      BY <1>5, <1>7, <2>1
    <2>3. CpPlanned[l] = was /\ CpLoose[l] = 0
      BY <1>1, <1>2, <2>1 DEF CpBooked, was
    <2> QED BY <1>3, <1>5, <2>1, <2>2, <2>3 DEF planned, loose, was
  <1>10. CpRanges'
    BY <1>1, <1>2, <1>5, <1>6 DEF CpRanges, cpTurnover
  <1>11. CpBooked'
    <2>1. cpTotal' = CpSum(cpBook')
      BY <1>2, <1>3, <1>4, <1>9
    <2>2. ASSUME NEW k \in CpLegs
          PROVE  (cpLeg'[k].at = "planned" => cpLeg'[k].n = cpBook'[k]) /\ (cpLeg'[k].at = "idle" => cpBook'[k] = 0)
      BY <1>1, <1>5, <1>7, <1>8 DEF CpBooked
    <2> QED BY <2>1, <2>2 DEF CpBooked
  <1>12. cpSnap <= cpBroker + loose
    BY <1>1, <1>2 DEF CpBacked, loose
  <1>13. CpFunded'
    <2>1. planned + (r - was) <= cpBroker
      BY <1>3, <1>4, <1>12
    <2> QED BY <1>2, <1>9, <2>1 DEF CpFunded
  <1>14. CpBacked'
    BY <1>2, <1>9, <1>12 DEF CpBacked
  <1>15. CpTallied'
    BY <1>1, <1>2, CpTallyKept DEF cpTurnover
  <1> QED BY <1>10, <1>11, <1>13, <1>14, <1>15 DEF CpInv

LEMMA CpSyncStep == ASSUME CpInv, NEW l \in CpLegs, CpSync(l) PROVE CpInv'
  <1>1. CpRanges /\ CpBooked /\ CpFunded /\ CpBacked /\ CpTallied
    BY DEF CpInv
  <1>2. /\ cpLeg[l].at # "planned" /\ cpSnap' = cpBroker /\ cpBook' = [cpBook EXCEPT ![l] = 0]
        /\ cpTotal' = CpMax0(cpTotal - cpBook[l])
        /\ UNCHANGED <<cpDay, cpBroker, cpLeg, cpTurnover, cpSent, cpFaults>>
    BY DEF CpSync, CpRelease
  <1>3. /\ CpSum(CpPlanned) \in Nat /\ cpTotal \in Nat /\ cpBook[l] \in Nat /\ cpBook[l] <= cpTotal /\ cpBroker \in Int
        /\ CpMaxWant \in Nat /\ CpSum(CpPlanned) <= cpBroker
    BY <1>1, CpSplit, CpAssumption DEF CpRanges, CpFunded
  <1>4. /\ cpBook' \in [CpLegs -> 0..CpMaxWant] /\ cpBook'[l] = 0 /\ \A k \in CpLegs \ {l} : cpBook'[k] = cpBook[k]
        /\ cpLeg' \in [CpLegs -> [at : {"idle", "planned", "sent", "done"}, n : 0..CpMaxWant]] /\ cpLeg' = cpLeg
    BY <1>1, <1>2, <1>3 DEF CpRanges
  <1>5. /\ CpSum(cpBook') = cpTotal + (cpBook'[l] - cpBook[l])
        /\ CpSum(CpPlanned') = CpSum(CpPlanned) + (CpPlanned'[l] - CpPlanned[l])
        /\ CpSum(CpLoose') \in Nat
        /\ CpPlanned'[l] = (IF cpLeg'[l].at = "planned" THEN cpLeg'[l].n ELSE 0)
        /\ CpPlanned[l] = (IF cpLeg[l].at = "planned" THEN cpLeg[l].n ELSE 0)
    BY <1>4, CpOneLeg
  <1>6. CpSum(cpBook') = cpTotal - cpBook[l] /\ CpSum(CpPlanned') = CpSum(CpPlanned)
    BY <1>2, <1>3, <1>4, <1>5
  <1>7. CpRanges'
    BY <1>1, <1>2, <1>3, <1>4 DEF CpRanges, cpTurnover
  <1>8. CpBooked'
    <2>1. cpTotal' = CpSum(cpBook')
      BY <1>2, <1>3, <1>6 DEF CpMax0
    <2> QED BY <1>1, <1>2, <1>4, <2>1 DEF CpBooked
  <1>9. CpFunded' /\ CpBacked'
    BY <1>2, <1>3, <1>5, <1>6 DEF CpFunded, CpBacked
  <1>10. CpTallied'
    BY <1>1, <1>2, CpTallyKept DEF cpTurnover
  <1> QED BY <1>7, <1>8, <1>9, <1>10 DEF CpInv

\* What the check lets through of a plan.
LEMMA CpChecked ==
    ASSUME CpRanges, NEW p \in Nat, NEW e \in CpEquities, NEW room \in -1..1
    PROVE  /\ CpClamped(CpAllowed(p, e), room) \in 0..p /\ CpLoaded(cpDay) \in Nat
           /\ CpClamped(CpAllowed(p, e), room) # 0 =>
                CpLoaded(cpDay) + CpClamped(CpAllowed(p, e), room) <= CpCap(e)
  <1> DEFINE cap == CpCap(e)
             loaded == CpLoaded(cpDay)
             a == CpAllowed(p, e)
             c == CpClamped(a, room)
  <1>1. cap \in Nat
    <2>1. e \in Nat /\ CpMultiplier \in Nat
      BY CpAssumption
    <2> QED BY <2>1 DEF CpCap
  <1>2. loaded \in Nat
    BY DEF CpRanges, CpLoaded, CpDays
  <1>3. a = (IF cpLocked \/ p = 0 \/ cap = 0 THEN 0 ELSE CpMin(p, CpMax0(cap - loaded)))
    BY DEF CpAllowed
  <1> HIDE DEF cap, loaded, a
  <1>4. a \in 0..p /\ (a # 0 => loaded + a <= cap)
    <2>1. CASE cpLocked \/ p = 0 \/ cap = 0
      BY <1>3, <2>1
    <2>2. CASE ~(cpLocked \/ p = 0 \/ cap = 0)
      <3>1. a = CpMin(p, CpMax0(cap - loaded))
        BY Zenon, <1>3, <2>2
      <3> QED BY <1>1, <1>2, <3>1 DEF CpMin, CpMax0
    <2> QED BY <2>1, <2>2
  <1>5. c \in 0..p /\ (c # 0 => loaded + c <= cap)
    BY <1>1, <1>2, <1>4 DEF CpClamped, CpMin
  <1> QED BY <1>2, <1>5 DEF cap, loaded, a

LEMMA CpSendStep ==
    ASSUME CpInv, NEW l \in CpLegs, NEW e \in CpEquities, NEW room \in -1..1, CpSend(l, e, room)
    PROVE  CpInv'
  <1> DEFINE n == CpClamped(CpAllowed(cpLeg[l].n, e), room)
             was == cpBook[l]
             planned == CpSum(CpPlanned)
             loose == CpSum(CpLoose)
  <1>1. CpRanges /\ CpBooked /\ CpFunded /\ CpBacked /\ CpTallied
    BY DEF CpInv
  <1>2. /\ cpLeg[l].at = "planned" /\ cpCache' = [cpCache EXCEPT ![cpDay] = CpLoaded(cpDay)]
        /\ cpLocked' = (cpLocked \/ (CpCap(e) > 0 /\ CpLoaded(cpDay) >= CpCap(e)))
        /\ cpLeg' = [cpLeg EXCEPT ![l] = IF n = 0 THEN CpDone ELSE [at |-> "sent", n |-> n]]
        /\ cpBroker' = cpBroker - n
        /\ UNCHANGED <<cpDay, cpLedger, cpStore, cpSpent, cpGap, cpFaults>>
    BY DEF CpSend
  <1>3. /\ planned \in Nat /\ loose \in Nat /\ was \in Nat /\ cpBroker \in Int /\ CpMaxWant \in Nat
        /\ planned <= cpBroker /\ was \in 0..CpMaxWant /\ cpLeg[l].n = was
    BY <1>1, <1>2, CpSplit, CpAssumption DEF CpRanges, CpFunded, CpBooked
  <1>4. n \in 0..was /\ CpLoaded(cpDay) \in Nat
    BY <1>1, <1>3, CpChecked
  <1> HIDE DEF n, was, planned, loose
  <1>5. /\ cpBook' = cpBook /\ cpBook' \in [CpLegs -> 0..CpMaxWant]
        /\ cpLeg' \in [CpLegs -> [at : {"idle", "planned", "sent", "done"}, n : 0..CpMaxWant]]
        /\ cpLeg'[l].at \in {"sent", "done"} /\ \A k \in CpLegs \ {l} : cpBook'[k] = cpBook[k] /\ cpLeg'[k] = cpLeg[k]
    <2>1. CpDone \in [at : {"idle", "planned", "sent", "done"}, n : 0..CpMaxWant] /\ CpDone.at = "done"
      BY <1>3 DEF CpDone
    <2>2. [at |-> "sent", n |-> n] \in [at : {"idle", "planned", "sent", "done"}, n : 0..CpMaxWant]
      BY <1>3, <1>4
    <2> QED BY <1>1, <1>2, <2>1, <2>2 DEF CpRanges, cpLedger
  <1>6. CpSum(CpPlanned') = planned - was /\ CpSum(CpLoose') = loose + was
    <2>1. /\ CpSum(CpPlanned') = CpSum(CpPlanned) + (CpPlanned'[l] - CpPlanned[l])
          /\ CpSum(CpLoose') = CpSum(CpLoose) + (CpLoose'[l] - CpLoose[l])
          /\ CpPlanned'[l] = (IF cpLeg'[l].at = "planned" THEN cpLeg'[l].n ELSE 0)
          /\ CpLoose'[l] = (IF cpLeg'[l].at = "planned" THEN 0 ELSE cpBook'[l])
          /\ CpPlanned[l] = (IF cpLeg[l].at = "planned" THEN cpLeg[l].n ELSE 0)
          /\ CpLoose[l] = (IF cpLeg[l].at = "planned" THEN 0 ELSE cpBook[l])
      BY <1>5, CpOneLeg
    <2>2. CpPlanned'[l] = 0 /\ CpLoose'[l] = was /\ CpPlanned[l] = was /\ CpLoose[l] = 0
      BY <1>2, <1>3, <1>5, <2>1 DEF was
    <2> QED BY <1>3, <2>1, <2>2 DEF planned, loose
  <1>7. CpRanges'
    <2>1. cpLocked' \in BOOLEAN
      BY <1>2
    <2>2. cpCache' \in [CpDays -> {-1} \cup Nat]
      BY <1>1, <1>2, <1>4 DEF CpRanges
    <2>3. cpBroker' \in Int
      BY <1>2, <1>3, <1>4
    <2> QED BY <1>1, <1>2, <1>5, <2>1, <2>2, <2>3 DEF CpRanges, cpLedger
  <1>8. CpBooked'
    BY <1>1, <1>2, <1>5 DEF CpBooked, cpLedger
  <1>9. CpFunded'
    BY <1>2, <1>3, <1>4, <1>6 DEF CpFunded
  <1>10. CpBacked'
    <2>1. cpSnap # -1 => cpSnap <= cpBroker + loose
      BY <1>1, <1>2 DEF CpBacked, loose
    <2>2. cpSnap \in Int
      BY <1>1 DEF CpRanges
    <2> QED BY <1>2, <1>3, <1>4, <1>6, <2>1, <2>2 DEF CpBacked, cpLedger
  <1>11. CpTallied'
    <2>1. ASSUME NEW d \in CpDays PROVE CpLoaded(d)' = CpLoaded(d)
      BY <1>1, <1>2, <1>4 DEF CpLoaded, CpRanges
    <2> QED BY <1>1, <1>2, <2>1 DEF CpTallied
  <1> QED BY <1>7, <1>8, <1>9, <1>10, <1>11 DEF CpInv

LEMMA CpFillStep ==
    ASSUME CpInv, NEW l \in CpLegs, NEW n \in 1..CpMaxWant, NEW e \in CpEquities, NEW ok \in BOOLEAN, CpFill(l, n, e, ok)
    PROVE  CpInv'
  <1> DEFINE total == CpLoaded(cpDay) + n
  <1>1. CpRanges /\ CpBooked /\ CpFunded /\ CpBacked /\ CpTallied
    BY DEF CpInv
  <1>2. /\ cpLeg[l].at = "sent" /\ n \in 1..cpLeg[l].n /\ cpLeg' = [cpLeg EXCEPT ![l] = CpDone]
        /\ cpBroker' = cpBroker + (cpLeg[l].n - n) /\ cpCache' = [cpCache EXCEPT ![cpDay] = total]
        /\ cpStore' = (IF ok THEN [cpStore EXCEPT ![cpDay] = total] ELSE cpStore)
        /\ cpLocked' = (cpLocked \/ (ok /\ CpCap(e) > 0 /\ total > CpCap(e)))
        /\ cpSpent' = [cpSpent EXCEPT ![cpDay] = @ + n]
        /\ UNCHANGED <<cpDay, cpLedger, cpGap, cpSent>>
    BY DEF CpFill
  <1>3. /\ CpSum(CpPlanned) \in Nat /\ CpSum(CpLoose) \in Nat /\ cpBroker \in Int /\ CpMaxWant \in Nat
        /\ CpSum(CpPlanned) <= cpBroker /\ cpLeg[l].n \in Nat /\ n \in Nat /\ cpSnap \in Int
    BY <1>1, CpSplit, CpAssumption DEF CpRanges, CpFunded
  <1>4. CpLoaded(cpDay) \in Nat /\ total \in Nat /\ cpDay \in CpDays
    <2>1. CpLoaded(cpDay) \in Nat /\ cpDay \in CpDays
      BY <1>1 DEF CpRanges, CpLoaded
    <2> QED BY <1>3, <2>1
  <1>5. total = CpLoaded(cpDay) + n
    OBVIOUS
  <1> HIDE DEF total
  <1>6. /\ cpBook' = cpBook /\ cpBook' \in [CpLegs -> 0..CpMaxWant]
        /\ cpLeg' \in [CpLegs -> [at : {"idle", "planned", "sent", "done"}, n : 0..CpMaxWant]]
        /\ cpLeg'[l].at = "done" /\ \A k \in CpLegs \ {l} : cpBook'[k] = cpBook[k] /\ cpLeg'[k] = cpLeg[k]
    <2>1. CpDone \in [at : {"idle", "planned", "sent", "done"}, n : 0..CpMaxWant] /\ CpDone.at = "done"
      BY <1>3 DEF CpDone
    <2> QED BY <1>1, <1>2, <2>1 DEF CpRanges, cpLedger
  <1>7. CpSum(CpPlanned') = CpSum(CpPlanned) /\ CpSum(CpLoose') = CpSum(CpLoose)
    <2>1. /\ CpSum(CpPlanned') = CpSum(CpPlanned) + (CpPlanned'[l] - CpPlanned[l])
          /\ CpSum(CpLoose') = CpSum(CpLoose) + (CpLoose'[l] - CpLoose[l])
          /\ CpPlanned'[l] = (IF cpLeg'[l].at = "planned" THEN cpLeg'[l].n ELSE 0)
          /\ CpLoose'[l] = (IF cpLeg'[l].at = "planned" THEN 0 ELSE cpBook'[l])
          /\ CpPlanned[l] = (IF cpLeg[l].at = "planned" THEN cpLeg[l].n ELSE 0)
          /\ CpLoose[l] = (IF cpLeg[l].at = "planned" THEN 0 ELSE cpBook[l])
      BY <1>6, CpOneLeg
    <2>2. CpPlanned'[l] = 0 /\ CpPlanned[l] = 0 /\ CpLoose'[l] = cpBook[l] /\ CpLoose[l] = cpBook[l] /\ cpBook[l] \in Int
      BY <1>1, <1>2, <1>3, <1>6, <2>1 DEF CpRanges
    <2> QED BY <1>3, <2>1, <2>2
  <1>8. CpRanges'
    <2>1. cpLocked' \in BOOLEAN /\ cpGap' \in BOOLEAN
      BY <1>1, <1>2 DEF CpRanges
    <2>2. cpCache' \in [CpDays -> {-1} \cup Nat] /\ cpStore' \in [CpDays -> Nat]
      BY <1>1, <1>2, <1>4 DEF CpRanges
    <2>3. cpSpent' \in [CpDays -> Nat] /\ cpBroker' \in Int
      BY <1>1, <1>2, <1>3, <1>4 DEF CpRanges
    <2> QED BY <1>1, <1>2, <1>6, <2>1, <2>2, <2>3 DEF CpRanges, cpLedger
  <1>9. CpBooked'
    BY <1>1, <1>2, <1>6 DEF CpBooked, cpLedger
  <1>10. cpBroker' >= cpBroker /\ cpBroker' \in Int
    BY <1>2, <1>3
  <1>11. CpFunded'
    BY <1>3, <1>7, <1>10 DEF CpFunded
  <1>12. CpBacked'
    <2>1. (\E k \in CpLegs : cpLeg'[k].at \in {"idle", "planned"}) => \E k \in CpLegs : cpLeg[k].at \in {"idle", "planned"}
      BY <1>6
    <2> QED BY <1>1, <1>2, <1>3, <1>7, <1>10, <2>1 DEF CpBacked, cpLedger
  <1>13. CpTallied'
    <2> SUFFICES ASSUME ~cpGap, NEW d \in CpDays
                 PROVE  cpStore'[d] <= cpSpent'[d] /\ CpLoaded(d)' = cpSpent'[d]
      BY <1>2 DEF CpTallied
    <2>1. cpStore[d] <= cpSpent[d] /\ CpLoaded(d) = cpSpent[d] /\ cpStore[d] \in Nat /\ cpSpent[d] \in Nat
      BY <1>1 DEF CpTallied, CpRanges
    <2>2. CASE d = cpDay
      <3>1. cpSpent'[d] = cpSpent[d] + n /\ cpCache'[d] = total /\ cpStore'[d] \in {cpStore[d], total}
        BY <1>1, <1>2, <1>4, <2>2 DEF CpRanges
      <3>2. total = cpSpent[d] + n
        BY <1>5, <2>1, <2>2
      <3> QED BY <1>3, <1>4, <2>1, <3>1, <3>2 DEF CpLoaded
    <2>3. CASE d # cpDay
      BY <1>1, <1>2, <2>1, <2>3 DEF CpLoaded, CpRanges
    <2> QED BY <2>2, <2>3
  <1> QED BY <1>8, <1>9, <1>11, <1>12, <1>13 DEF CpInv

LEMMA CpRestartStep == ASSUME CpInv, NEW locked \in BOOLEAN, CpRestart(locked) PROVE CpInv'
  <1>1. CpRanges /\ CpTallied
    BY DEF CpInv
  <1>2. /\ cpSnap' = -1 /\ cpTotal' = 0 /\ cpBook' = [l \in CpLegs |-> 0] /\ cpLocked' = locked
        /\ cpLeg' = [l \in CpLegs |-> IF cpLeg[l].at = "sent" THEN cpLeg[l] ELSE CpIdle]
        /\ cpCache' = [d \in CpDays |-> -1]
        /\ cpGap' = (cpGap \/ \E d \in CpDays : cpCache[d] > cpStore[d])
        /\ UNCHANGED <<cpDay, cpBroker, cpStore, cpSpent, cpSent>>
    BY DEF CpRestart, CpDays
  <1>3. /\ cpBroker \in Nat /\ cpBook' \in [CpLegs -> 0..CpMaxWant]
        /\ cpLeg' \in [CpLegs -> [at : {"idle", "planned", "sent", "done"}, n : 0..CpMaxWant]]
        /\ CpBooked' /\ CpFunded' /\ CpBacked'
    BY <1>2, CpCleared
  <1>4. CpRanges'
    <2>1. cpGap' \in BOOLEAN /\ cpLocked' \in BOOLEAN
      BY <1>2
    <2> QED BY <1>1, <1>2, <1>3, <2>1 DEF CpRanges
  <1>5. CpTallied'
    <2> SUFFICES ASSUME ~cpGap', NEW d \in CpDays
                 PROVE  cpStore'[d] <= cpSpent'[d] /\ CpLoaded(d)' = cpSpent'[d]
      BY DEF CpTallied
    <2>1. ~cpGap /\ ~(cpCache[d] > cpStore[d])
      BY <1>2
    <2>2. cpStore[d] <= cpSpent[d] /\ CpLoaded(d) = cpSpent[d]
      BY <1>1, <2>1 DEF CpTallied
    <2>3. cpStore[d] \in Nat /\ cpSpent[d] \in Nat /\ cpCache[d] \in {-1} \cup Nat
      BY <1>1 DEF CpRanges
    <2>4. cpStore[d] = cpSpent[d]
      BY <2>1, <2>2, <2>3 DEF CpLoaded
    <2> QED BY <1>2, <2>3, <2>4 DEF CpLoaded
  <1> QED BY <1>3, <1>4, <1>5 DEF CpInv

\* A new cycle and a release of all empty the ledger and keep the invariant.
LEMMA CpClearedStep == ASSUME CpInv, CpBeginCycle \/ CpReleaseAll PROVE CpInv'
  <1>1. CpRanges /\ CpTallied
    BY DEF CpInv
  <1>2. /\ cpTotal' = 0 /\ cpBook' = [l \in CpLegs |-> 0]
        /\ UNCHANGED <<cpDay, cpBroker, cpTurnover, cpSent, cpFaults>>
    BY DEF CpBeginCycle, CpReleaseAll, CpAllReleased
  <1>3. PICK none \in {CpIdle, CpDone} :
          /\ cpLeg' = [l \in CpLegs |-> IF cpLeg[l].at = "sent" THEN cpLeg[l] ELSE none]
          /\ \/ cpSnap' \in {-1, cpBroker}
             \/ cpSnap' = cpSnap /\ none = CpDone
    BY DEF CpBeginCycle, CpReleaseAll
  <1>4. /\ cpBroker \in Nat /\ cpBook' \in [CpLegs -> 0..CpMaxWant]
        /\ cpLeg' \in [CpLegs -> [at : {"idle", "planned", "sent", "done"}, n : 0..CpMaxWant]]
        /\ CpBooked' /\ CpFunded' /\ CpBacked'
    BY <1>2, <1>3, CpCleared
  <1>5. CpRanges'
    BY <1>1, <1>2, <1>3, <1>4 DEF CpRanges, cpTurnover
  <1>6. CpTallied'
    BY <1>1, <1>2, CpTallyKept DEF cpTurnover
  <1> QED BY <1>4, <1>5, <1>6 DEF CpInv

LEMMA CpInvStep == CpInv /\ [CpNext]_cpVars => CpInv'
  <1> SUFFICES ASSUME CpInv, [CpNext]_cpVars PROVE CpInv'
    OBVIOUS
  <1>1. CASE UNCHANGED cpVars
    BY <1>1 DEF cpVars, CpInv, CpRanges, CpBooked, CpFunded, CpBacked, CpTallied, CpPlanned, CpLoose, CpLoaded
  <1>2. CASE CpClose \/ CpNextDay
    <2>1. /\ UNCHANGED <<cpLedger, cpLeg, cpTurnover>> /\ cpBroker' \in {cpBroker, cpBroker + 1} /\ cpDay' \in CpDays
          /\ cpBroker \in Int /\ cpSnap \in Int
      BY <1>2, CpAssumption DEF CpClose, CpNextDay, CpInv, CpRanges, CpDays
    <2>2. cpBroker' \in Int /\ cpBroker' >= cpBroker
      BY <2>1
    <2>3. CpPlanned' = CpPlanned /\ CpLoose' = CpLoose /\ CpSum(CpPlanned) \in Nat /\ CpSum(CpLoose) \in Nat
      BY <2>1, CpSplit DEF CpPlanned, CpLoose, cpLedger
    <2>4. CpRanges' /\ CpBooked'
      BY <2>1, <2>2 DEF CpInv, CpRanges, CpBooked, cpLedger, cpTurnover
    <2>5. CpFunded' /\ CpBacked'
      BY <2>1, <2>2, <2>3 DEF CpInv, CpFunded, CpBacked, cpLedger
    <2>6. CpTallied'
      BY <2>1, CpTallyKept DEF CpInv, cpTurnover
    <2> QED BY <2>4, <2>5, <2>6 DEF CpInv
  <1>3. CASE CpBeginCycle \/ CpReleaseAll
    BY <1>3, CpClearedStep
  <1> QED BY <1>1, <1>2, <1>3, CpPlanStep, CpSyncStep, CpSendStep, CpFillStep, CpRestartStep DEF CpNext

\* Only a send takes a leg from planned to sent.
LEMMA CpOnlySends ==
    ASSUME CpInv, [CpNext]_cpVars, NEW l \in CpLegs, cpLeg[l].at = "planned", cpLeg'[l].at = "sent"
    PROVE  \E e \in CpEquities, room \in -1..1 : CpSend(l, e, room)
  <1>1. cpLeg \in [CpLegs -> [at : {"idle", "planned", "sent", "done"}, n : 0..CpMaxWant]]
    BY DEF CpInv, CpRanges
  <1>2. ~UNCHANGED cpLeg
    OBVIOUS
  <1>3. \A none \in {CpIdle, CpDone} : cpLeg' # [k \in CpLegs |-> IF cpLeg[k].at = "sent" THEN cpLeg[k] ELSE none]
    BY DEF CpIdle, CpDone
  <1>4. ASSUME NEW k \in CpLegs, NEW new, cpLeg' = [cpLeg EXCEPT ![k] = new] PROVE k = l /\ new.at = "sent"
    BY <1>1, <1>4
  <1>5. ~(UNCHANGED cpVars) /\ ~CpClose /\ ~CpNextDay /\ ~(\E k \in CpLegs : CpSync(k))
    BY <1>2 DEF cpVars, CpClose, CpNextDay, CpSync
  <1>6. ~CpBeginCycle /\ ~CpReleaseAll /\ ~(\E locked \in BOOLEAN : CpRestart(locked))
    BY <1>3 DEF CpBeginCycle, CpReleaseAll, CpRestart
  <1>7. ASSUME NEW k \in CpLegs, NEW want \in 1..CpMaxWant, NEW n \in 0..CpMaxWant, CpPlan(k, want, n) PROVE FALSE
    <2> DEFINE new == IF cpBook'[k] = 0 THEN CpIdle ELSE [at |-> "planned", n |-> cpBook'[k]]
    <2>1. new.at # "sent"
      BY DEF CpIdle
    <2>2. cpLeg' = [cpLeg EXCEPT ![k] = new]
      BY <1>7 DEF CpPlan
    <2> HIDE DEF new
    <2> QED BY <1>4, <2>1, <2>2
  <1>8. ASSUME NEW k \in CpLegs, NEW n \in 1..CpMaxWant, NEW e \in CpEquities, NEW ok \in BOOLEAN, CpFill(k, n, e, ok)
        PROVE  FALSE
    BY <1>4, <1>8 DEF CpFill, CpDone
  <1>9. PICK k \in CpLegs, e \in CpEquities, room \in -1..1 : CpSend(k, e, room)
    BY <1>5, <1>6, <1>7, <1>8 DEF CpNext
  <1>10. k = l
    BY <1>4, <1>9 DEF CpSend
  <1> QED BY <1>9, <1>10

\* What is planned can be paid for, and no order takes the day's turnover past its cap: for any legs,
\* buying power, equities and number of days, orders, restarts and failed writes.
THEOREM CapitalIsBudgeted == CpSpec => CpBudgeted
  <1>1. CpInv => CpTypeOK /\ CpFunded
    BY DEF CpInv, CpRanges, CpBooked, CpTypeOK, CpDays
  <1>2. CpInv /\ [CpNext]_cpVars =>
          [\A l \in CpLegs : (cpLeg[l].at = "planned" /\ cpLeg'[l].at = "sent" /\ ~cpGap) =>
              \E e \in CpEquities : cpSpent[cpDay] + cpLeg'[l].n <= CpCap(e)]_cpVars
    <2> SUFFICES ASSUME CpInv, [CpNext]_cpVars, NEW l \in CpLegs, cpLeg[l].at = "planned", cpLeg'[l].at = "sent", ~cpGap
                 PROVE  \E e \in CpEquities : cpSpent[cpDay] + cpLeg'[l].n <= CpCap(e)
      OBVIOUS
    <2>1. PICK e \in CpEquities, room \in -1..1 : CpSend(l, e, room)
      BY CpOnlySends
    <2> DEFINE n == CpClamped(CpAllowed(cpLeg[l].n, e), room)
    <2>2. cpLeg' = [cpLeg EXCEPT ![l] = IF n = 0 THEN CpDone ELSE [at |-> "sent", n |-> n]]
      BY <2>1 DEF CpSend
    <2>3. cpLeg[l].n \in Nat /\ CpRanges
      BY CpAssumption DEF CpInv, CpRanges
    <2>4. n # 0 => CpLoaded(cpDay) + n <= CpCap(e)
      BY <2>3, CpChecked
    <2> HIDE DEF n
    <2>5. cpLeg'[l] = IF n = 0 THEN CpDone ELSE [at |-> "sent", n |-> n]
      BY <2>2, <2>3 DEF CpRanges
    <2>6. n # 0 /\ cpLeg'[l].n = n
      BY <2>5 DEF CpDone
    <2>7. CpLoaded(cpDay) = cpSpent[cpDay]
      BY DEF CpInv, CpTallied, CpRanges
    <2> QED BY <2>4, <2>6, <2>7
  <1> QED BY <1>1, <1>2, CpInvInit, CpInvStep, PTL DEF CpSpec, CpBudgeted, CpWithinCap

-----------------------------------------------------------------------------
(* Sessions.                                                               *)

SeRow == [env : SeEnvs, base : SeEquities, active : BOOLEAN]
SeHeld == [id : 0..SeMaxSessions, env : SeEnvs, base : SeEquities \cup {0}]

\* What is kept of a session is what its row says.
SeIsRow(rows, s) == s.id # 0 => s.id \in DOMAIN rows /\ s.base = rows[s.id].base

SeKept ==
    /\ seRows \in Seq(SeRow) /\ Len(seRows) <= SeMaxSessions
    /\ SeIsRow(seRows, seCache) /\ SeIsRow(seRows, seUses) /\ SeIsRow(seRows, seSnap)

\* Nothing is open while one is about to be opened, and never are two.
SeSingle ==
    /\ seAt \in {"create", "live_env", "live_event", "live_create"} => SeActive = {}
    /\ \A i, j \in SeActive : i = j

\* The session a snapshot is made for is open, but for a close after it was found.
SeFound == seAt = "snapshot" /\ ~seRaced => seUses.id \in SeActive

SeInv == SeTypeOK /\ SeKept /\ SeSingle /\ SeFound

LEMMA SeRowClosed ==
    ASSUME NEW r \in SeRow
    PROVE  LET c == [r EXCEPT !.active = FALSE] IN c \in SeRow /\ c.base = r.base /\ c.active = FALSE
  <1>1. [r EXCEPT !.active = FALSE] \in SeRow
    BY Zenon DEF SeRow
  <1>2. [r EXCEPT !.active = FALSE].base = r.base
    BY DEF SeRow
  <1>3. [r EXCEPT !.active = FALSE].active = FALSE
    BY DEF SeRow
  <1> QED BY <1>1, <1>2, <1>3

LEMMA SeRowsClosed ==
    ASSUME SeInv, seRows' = SeClosed(seRows)
    PROVE  /\ seRows' \in Seq(SeRow) /\ Len(seRows') <= SeMaxSessions /\ SeActive' = {}
           /\ \A i \in DOMAIN seRows : i \in DOMAIN seRows' /\ seRows'[i].base = seRows[i].base
  <1>1. seRows \in Seq(SeRow) /\ Len(seRows) <= SeMaxSessions
    BY DEF SeInv, SeKept
  <1>2. \A i \in DOMAIN seRows : [seRows[i] EXCEPT !.active = FALSE] \in SeRow
    BY <1>1, SeRowClosed
  <1>3. seRows' \in [1..Len(seRows) -> SeRow]
    BY <1>1, <1>2 DEF SeClosed
  <1>4. seRows' \in Seq(SeRow) /\ Len(seRows') = Len(seRows) /\ DOMAIN seRows' = DOMAIN seRows
    BY <1>1, <1>3
  <1>5. \A i \in DOMAIN seRows : seRows'[i].base = seRows[i].base /\ seRows'[i].active = FALSE
    <2> SUFFICES ASSUME NEW i \in DOMAIN seRows PROVE seRows'[i].base = seRows[i].base /\ seRows'[i].active = FALSE
      OBVIOUS
    <2>1. seRows'[i] = [seRows[i] EXCEPT !.active = FALSE] /\ seRows[i] \in SeRow
      BY <1>1 DEF SeClosed
    <2> QED BY <2>1, SeRowClosed
  <1>6. SeActive' = {}
    BY <1>4, <1>5 DEF SeActive
  <1> QED BY <1>1, <1>4, <1>5, <1>6

LEMMA SeRowsMore ==
    ASSUME SeInv, NEW env \in SeEnvs, Len(seRows) < SeMaxSessions,
           seRows' = Append(seRows, [env |-> env, base |-> seEquity, active |-> TRUE])
    PROVE  /\ seRows' \in Seq(SeRow) /\ Len(seRows') <= SeMaxSessions /\ SeActive' = SeActive \cup {Len(seRows) + 1}
           /\ \A i \in DOMAIN seRows : i \in DOMAIN seRows' /\ seRows'[i].base = seRows[i].base
           /\ Len(seRows) + 1 \in DOMAIN seRows' /\ seRows'[Len(seRows) + 1].base = seEquity
  <1> DEFINE row == [env |-> env, base |-> seEquity, active |-> TRUE]
  <1>1. seRows \in Seq(SeRow) /\ SeMaxSessions \in Nat
    BY SeAssumption DEF SeInv, SeKept
  <1>2. row \in SeRow /\ row.active = TRUE /\ row.base = seEquity
    BY DEF SeInv, SeTypeOK, SeRow
  <1> HIDE DEF row
  <1>3. seRows' \in Seq(SeRow) /\ Len(seRows') = Len(seRows) + 1 /\ DOMAIN seRows' = DOMAIN seRows \cup {Len(seRows) + 1}
    BY <1>1, <1>2 DEF row
  <1>4. (\A i \in DOMAIN seRows : seRows'[i] = seRows[i]) /\ seRows'[Len(seRows) + 1] = row
    BY <1>1, <1>2 DEF row
  <1>5. SeActive' = SeActive \cup {Len(seRows) + 1}
    BY <1>2, <1>3, <1>4 DEF SeActive
  <1> QED BY <1>1, <1>2, <1>3, <1>4, <1>5

\* What is kept of a row is kept through a step that keeps its baseline.
LEMMA SeStaysRow ==
    ASSUME NEW s, NEW rows, NEW more, SeIsRow(rows, s), \A i \in DOMAIN rows : i \in DOMAIN more /\ more[i].base = rows[i].base
    PROVE  SeIsRow(more, s)
  BY DEF SeIsRow

LEMMA SeOutcomeTypes == ASSUME SeInv, NEW out \in SeOuts, SeOutcome(out) PROVE seFaults' \in 0..SeMaxFaults
  BY SeAssumption DEF SeInv, SeTypeOK, SeOutcome

\* A step that finds, makes or drops a session and leaves the rows alone.
LEMMA SeFinds ==
    ASSUME SeInv, UNCHANGED <<seRows, seStrategy, seSnap>>, seMode' \in SeEnvs, seEquity' \in SeEquities,
           seFaults' \in 0..SeMaxFaults, seRaced' = FALSE \/ UNCHANGED seRaced,
           seCache' \in SeHeld, seUses' \in SeHeld, SeIsRow(seRows, seCache'), SeIsRow(seRows, seUses'),
           seAt' \in {"idle", "create", "snapshot", "live_env", "live_event", "live_create"},
           (seAt' = "snapshot") <=> (seUses' # SeNone), seAt' = "snapshot" => seUses'.id \in SeActive,
           seAt' \in {"create", "live_env", "live_event", "live_create"} => SeActive = {}
    PROVE  SeInv'
  <1>1. SeActive' = SeActive
    BY DEF SeActive
  <1>2. seRaced' \in BOOLEAN
    BY DEF SeInv, SeTypeOK
  <1>3. SeTypeOK'
    BY <1>2 DEF SeInv, SeTypeOK, SeHeld
  <1>4. SeKept'
    BY DEF SeInv, SeKept
  <1>5. SeSingle' /\ SeFound'
    BY <1>1 DEF SeInv, SeSingle, SeFound
  <1> QED BY <1>3, <1>4, <1>5 DEF SeInv

\* A step that closes the rows, or leaves them.
LEMMA SeCloses ==
    ASSUME SeInv, seRows' \in {seRows, SeClosed(seRows)}, UNCHANGED <<seStrategy, seMode, seSnap, seUses>>,
           seEquity' \in SeEquities, seFaults' \in 0..SeMaxFaults, seCache' \in {seCache, SeNone}, seRaced' \in BOOLEAN,
           \/ seAt = "idle" /\ seAt' = "idle"
           \/ seAt = "idle" /\ seAt' = "live_env" /\ seRows' = SeClosed(seRows)
           \/ seAt' = seAt /\ seRows' = SeClosed(seRows) /\ (seAt = "snapshot" => seRaced')
    PROVE  SeInv'
  <1>1. /\ seRows' \in Seq(SeRow) /\ Len(seRows') <= SeMaxSessions
        /\ \A i \in DOMAIN seRows : i \in DOMAIN seRows' /\ seRows'[i].base = seRows[i].base
        /\ (seRows' = SeClosed(seRows) => SeActive' = {}) /\ (SeActive' = {} \/ SeActive' = SeActive)
    <2>1. CASE seRows' = SeClosed(seRows)
      BY <2>1, SeRowsClosed
    <2>2. CASE seRows' # SeClosed(seRows)
      BY <2>2 DEF SeInv, SeKept, SeActive
    <2> QED BY <2>1, <2>2
  <1>2. SeTypeOK'
    BY <1>1, SeAssumption DEF SeInv, SeTypeOK, SeNone, SeRow, SeEnvs
  <1>3. SeKept'
    <2>1. SeIsRow(seRows, SeNone) /\ SeIsRow(seRows, seCache) /\ SeIsRow(seRows, seUses) /\ SeIsRow(seRows, seSnap)
      BY DEF SeInv, SeKept, SeIsRow, SeNone
    <2>2. SeIsRow(seRows', SeNone) /\ SeIsRow(seRows', seCache) /\ SeIsRow(seRows', seUses) /\ SeIsRow(seRows', seSnap)
      BY <1>1, <2>1, SeStaysRow
    <2> QED BY <1>1, <2>2 DEF SeKept
  <1>4. SeSingle' /\ SeFound'
    BY <1>1 DEF SeInv, SeSingle, SeFound
  <1> QED BY <1>2, <1>3, <1>4 DEF SeInv

LEMMA SeNoneHeld == SeNone \in SeHeld /\ SeNone.id = 0 /\ \A rows : SeIsRow(rows, SeNone)
  BY SeAssumption DEF SeNone, SeHeld, SeEnvs, SeIsRow

LEMMA SeEnsureStep == ASSUME SeInv, NEW out \in SeOuts, NEW equity \in SeEquities, SeEnsure(out, equity) PROVE SeInv'
  <1>1. /\ seAt = "idle" /\ SeOutcome(out) /\ seEquity' = equity /\ seRaced' = FALSE
        /\ UNCHANGED <<seRows, seStrategy, seMode, seSnap>>
    BY DEF SeEnsure
  <1>2. /\ seFaults' \in 0..SeMaxFaults /\ seCache \in SeHeld /\ seMode \in SeEnvs /\ seUses = SeNone
        /\ SeIsRow(seRows, seCache) /\ seRows \in Seq(SeRow) /\ Len(seRows) <= SeMaxSessions
    BY <1>1, SeOutcomeTypes DEF SeInv, SeTypeOK, SeHeld, SeKept
  <1>3. CASE SeStopped /\ UNCHANGED seCache
    BY <1>1, <1>2, <1>3, SeNoneHeld, SeFinds DEF SeStopped
  <1>4. ASSUME NEW i \in SeActive, seUses' = SeSession(i), seCache' = seUses', seAt' = "snapshot" PROVE SeInv'
    <2>1. i \in DOMAIN seRows /\ i \in 1..SeMaxSessions /\ seRows[i] \in SeRow
      BY <1>2, SeAssumption DEF SeActive
    <2>2. SeSession(i) \in SeHeld /\ SeSession(i).id = i /\ SeIsRow(seRows, SeSession(i))
      <3>1. CASE seCache.id = i /\ seCache.env = seMode
        BY <1>2, <3>1 DEF SeSession
      <3>2. CASE ~(seCache.id = i /\ seCache.env = seMode)
        BY <2>1, <3>2 DEF SeSession, SeHeld, SeRow, SeIsRow
      <3> QED BY <3>1, <3>2
    <2>3. SeSession(i) # SeNone
      BY <2>1, <2>2, SeNoneHeld
    <2> QED BY <1>1, <1>2, <1>4, <2>2, <2>3, SeFinds
  <1>5. CASE SeActive = {} /\ seCache' = SeNone /\ seAt' = "create" /\ UNCHANGED seUses
    BY <1>1, <1>2, <1>5, SeNoneHeld, SeFinds
  <1> QED BY <1>3, <1>4, <1>5 DEF SeEnsure

LEMMA SeCreateStep == ASSUME SeInv, NEW out \in SeOuts, SeCreate(out) PROVE SeInv'
  <1> DEFINE env == IF seAt = "create" THEN seMode ELSE "live"
             n == Len(seRows) + 1
  <1>1. /\ seAt \in {"create", "live_create"} /\ Len(seRows) < SeMaxSessions /\ SeOutcome(out)
        /\ seRows' = (IF SeApplied(out) THEN Append(seRows, [env |-> env, base |-> seEquity, active |-> TRUE]) ELSE seRows)
        /\ seUses' = (IF out = "ok" THEN SeCreated(env, n) ELSE SeNone) /\ seCache' = seUses'
        /\ seAt' = SeThen(out) /\ seRaced' = FALSE /\ UNCHANGED <<seStrategy, seMode, seEquity, seSnap>>
    BY DEF SeCreate
  <1>2. /\ seFaults' \in 0..SeMaxFaults /\ env \in SeEnvs /\ SeActive = {} /\ seEquity \in SeEquities
        /\ seRows \in Seq(SeRow) /\ n \in 1..SeMaxSessions
    BY <1>1, SeOutcomeTypes, SeAssumption DEF SeInv, SeTypeOK, SeKept, SeSingle, SeEnvs
  <1> HIDE DEF env
  <1>3. CASE ~SeApplied(out)
    <2>1. seRows' = seRows /\ out # "ok" /\ seUses' = SeNone /\ seCache' = SeNone /\ seAt' = "idle"
      BY <1>1, <1>3 DEF SeApplied, SeThen
    <2> QED BY <1>1, <1>2, <2>1, SeNoneHeld, SeFinds DEF SeInv, SeTypeOK
  <1>4. CASE SeApplied(out)
    <2>1. seRows' = Append(seRows, [env |-> env, base |-> seEquity, active |-> TRUE])
      BY <1>1, <1>4
    <2>2. /\ seRows' \in Seq(SeRow) /\ Len(seRows') <= SeMaxSessions /\ SeActive' = {n}
          /\ \A i \in DOMAIN seRows : i \in DOMAIN seRows' /\ seRows'[i].base = seRows[i].base
          /\ n \in DOMAIN seRows' /\ seRows'[n].base = seEquity
      BY <1>1, <1>2, <2>1, SeRowsMore
    <2> HIDE DEF n
    <2>3. SeCreated(env, n) \in SeHeld /\ SeCreated(env, n).id = n /\ SeIsRow(seRows', SeCreated(env, n))
      BY <1>2, <2>2 DEF SeCreated, SeHeld, SeIsRow
    <2>4. SeCreated(env, n) # SeNone
      BY <1>2, <2>3, SeNoneHeld
    <2>5. /\ seUses' \in SeHeld /\ SeIsRow(seRows', seUses') /\ (seAt' = "snapshot" <=> seUses' # SeNone)
          /\ seAt' \in {"idle", "snapshot"} /\ (seAt' = "snapshot" => seUses'.id = n)
      BY <1>1, <2>3, <2>4, SeNoneHeld DEF SeThen
    <2>6. SeTypeOK'
      BY <1>1, <1>2, <2>2, <2>5 DEF SeInv, SeTypeOK, SeRow, SeHeld
    <2>7. SeIsRow(seRows', seSnap)
      BY <2>2, SeStaysRow DEF SeInv, SeKept
    <2>8. SeKept' /\ SeSingle' /\ SeFound'
      BY <1>1, <2>2, <2>5, <2>7 DEF SeKept, SeSingle, SeFound
    <2> QED BY <2>6, <2>8 DEF SeInv
  <1> QED BY <1>3, <1>4

LEMMA SeSnapshotStep == ASSUME SeInv, NEW out \in SeOuts, SeSnapshot(out) PROVE SeInv'
  <1>1. /\ seAt = "snapshot" /\ SeOutcome(out) /\ seAt' = "idle" /\ seUses' = SeNone /\ seRaced' = FALSE
        /\ seSnap' \in {seSnap, [id |-> seUses.id, base |-> seUses.base]}
        /\ UNCHANGED <<seRows, seStrategy, seMode, seCache, seEquity>>
    BY DEF SeSnapshot, SeStopped
  <1>2. seFaults' \in 0..SeMaxFaults /\ SeActive' = SeActive
    BY <1>1, SeOutcomeTypes DEF SeActive
  <1>3. SeIsRow(seRows, seSnap')
    BY <1>1 DEF SeInv, SeKept, SeIsRow
  <1>4. SeTypeOK'
    BY <1>1, <1>2, SeNoneHeld DEF SeInv, SeTypeOK, SeHeld
  <1>5. SeKept' /\ SeSingle' /\ SeFound'
    BY <1>1, <1>2, <1>3, SeNoneHeld DEF SeInv, SeKept, SeSingle, SeFound
  <1> QED BY <1>4, <1>5 DEF SeInv

LEMMA SeLiveStep == ASSUME SeInv, NEW out \in SeOuts, SeLiveEnv(out) \/ SeLiveEvent(out) PROVE SeInv'
  <1>1. /\ seAt \in {"live_env", "live_event"} /\ SeOutcome(out) /\ seAt' \in {"idle", "live_event", "live_create"}
        /\ seCache' \in {seCache, SeNone} /\ seStrategy' \in {seStrategy, "live"}
        /\ UNCHANGED <<seRows, seMode, seUses, seEquity, seSnap, seRaced>>
    BY DEF SeLiveEnv, SeLiveEvent
  <1>2. seFaults' \in 0..SeMaxFaults /\ SeActive' = SeActive
    BY <1>1, SeOutcomeTypes DEF SeActive
  <1>3. SeTypeOK'
    BY <1>1, <1>2, SeNoneHeld DEF SeInv, SeTypeOK, SeHeld, SeEnvs
  <1>4. SeKept' /\ SeSingle' /\ SeFound'
    BY <1>1, <1>2, SeNoneHeld DEF SeInv, SeKept, SeSingle, SeFound
  <1> QED BY <1>3, <1>4 DEF SeInv

LEMMA SeCloseStep ==
    ASSUME SeInv, \/ \E out \in SeOuts : SeCloseActive(out) \/ \E equity \in SeEquities : SeGoLive(out, equity)
                  \/ SeExternalClose
    PROVE  SeInv'
  <1>1. seEquity \in SeEquities /\ seFaults \in 0..SeMaxFaults /\ seRaced \in BOOLEAN
    BY DEF SeInv, SeTypeOK
  <1>2. ASSUME NEW out \in SeOuts, SeCloseActive(out) PROVE SeInv'
    <2>1. seFaults' \in 0..SeMaxFaults
      BY <1>2, SeOutcomeTypes DEF SeCloseActive
    <2> QED BY <1>1, <1>2, <2>1, SeCloses DEF SeCloseActive
  <1>3. ASSUME NEW out \in SeOuts, NEW equity \in SeEquities, SeGoLive(out, equity) PROVE SeInv'
    <2>1. seFaults' \in 0..SeMaxFaults
      BY <1>3, SeOutcomeTypes DEF SeGoLive
    <2>2. seAt' = "idle" \/ (seAt' = "live_env" /\ seRows' = SeClosed(seRows))
      BY <1>3 DEF SeGoLive, SeApplied
    <2> QED BY <1>1, <1>3, <2>1, <2>2, SeCloses DEF SeGoLive
  <1>4. CASE SeExternalClose
    <2>1. seRaced' \in BOOLEAN /\ (seAt = "snapshot" => seRaced')
      BY <1>4 DEF SeExternalClose
    <2> QED BY <1>1, <1>4, <2>1, SeCloses DEF SeExternalClose
  <1> QED BY <1>2, <1>3, <1>4

LEMMA SeInvInit == SeInit => SeInv
  <1> SUFFICES ASSUME SeInit PROVE SeInv
    OBVIOUS
  <1>1. seRows = <<>> /\ SeActive = {} /\ seRows \in Seq(SeRow) /\ Len(seRows) = 0
    BY DEF SeInit, SeActive
  <1>2. SeTypeOK
    <2>1. seRaced \in BOOLEAN
      BY Zenon DEF SeInit
    <2>2. seFaults \in 0..SeMaxFaults
      BY SeAssumption DEF SeInit
    <2> QED BY <1>1, <2>1, <2>2, SeNoneHeld DEF SeInit, SeTypeOK, SeHeld, SeRow, SeEnvs
  <1>3. SeKept /\ SeSingle /\ SeFound
    BY <1>1, SeNoneHeld, SeAssumption DEF SeInit, SeKept, SeSingle, SeFound, SeIsRow
  <1> QED BY <1>2, <1>3 DEF SeInv

LEMMA SeInvStep == SeInv /\ [SeNext]_seVars => SeInv'
  <1> SUFFICES ASSUME SeInv, [SeNext]_seVars PROVE SeInv'
    OBVIOUS
  <1>1. CASE UNCHANGED seVars
    BY <1>1 DEF seVars, SeInv, SeTypeOK, SeKept, SeSingle, SeFound, SeActive
  <1>2. /\ seMode \in SeEnvs /\ seEquity \in SeEquities /\ seFaults \in 0..SeMaxFaults /\ seCache \in SeHeld
        /\ SeIsRow(seRows, seUses) /\ seUses \in SeHeld /\ (seAt = "idle" => seUses = SeNone)
    BY DEF SeInv, SeTypeOK, SeHeld, SeKept
  <1>3. CASE SeInvalidate
    BY <1>2, <1>3, SeNoneHeld, SeFinds DEF SeInvalidate
  <1>4. ASSUME NEW mode \in SeEnvs, SeRestart(mode) PROVE SeInv'
    <2>1. seFaults' \in 0..SeMaxFaults
      BY <1>2, <1>4, SeAssumption DEF SeRestart
    <2> QED BY <1>2, <1>4, <2>1, SeNoneHeld, SeFinds DEF SeRestart, SeStopped
  <1> QED BY <1>1, <1>3, <1>4, SeEnsureStep, SeCreateStep, SeSnapshotStep, SeLiveStep, SeCloseStep DEF SeNext

\* However calls are lost and sessions closed from outside: one session is open at most, a snapshot is
\* measured against the baseline of its own session, and it lands in a session that was open when asked.
THEOREM SessionsMeasure == SeSpec => SeMeasures
  <1>1. SeInv => SeTypeOK /\ SeOneOpen /\ SeMeasuredRight
    <2> SUFFICES ASSUME SeInv PROVE SeOneOpen /\ SeMeasuredRight
      BY DEF SeInv
    <2>1. SeMeasuredRight
      BY DEF SeInv, SeKept, SeIsRow, SeMeasuredRight
    <2>2. CASE SeActive = {}
      BY <2>1, <2>2, FS_EmptySet DEF SeOneOpen
    <2>3. CASE SeActive # {}
      <3>1. PICK i \in SeActive : TRUE
        BY <2>3
      <3>2. SeActive = {i}
        BY <3>1 DEF SeInv, SeSingle
      <3> QED BY <2>1, <3>2, FS_Singleton DEF SeOneOpen
    <2> QED BY <2>2, <2>3
  <1>2. SeInv /\ [SeNext]_seVars => [seSnap' # seSnap => (seRows[seSnap'.id].active \/ seRaced)]_seVars
    <2> SUFFICES ASSUME SeInv, SeNext, seSnap' # seSnap PROVE seRows[seSnap'.id].active \/ seRaced
      BY DEF seVars
    <2>1. PICK out \in SeOuts : SeSnapshot(out)
      BY DEF SeNext, SeEnsure, SeGoLive, SeCreate, SeLiveEnv, SeLiveEvent, SeCloseActive, SeRestart, SeInvalidate, SeExternalClose
    <2>2. seAt = "snapshot" /\ seSnap'.id = seUses.id
      BY <2>1 DEF SeSnapshot
    <2> QED BY <2>2 DEF SeInv, SeFound, SeActive
  <1> QED BY <1>1, <1>2, SeInvInit, SeInvStep, PTL DEF SeSpec, SeMeasures, SeLandsOpen

-----------------------------------------------------------------------------
(* Mirror.                                                                 *)

MrStatuses == {"pending", "filled", "rejected"}
MrNav == [run : 0..mrRuns, funded : BOOLEAN, pnl : Int]
MrFilledRows == {i \in DOMAIN mrOrders : mrOrders[i] = "filled"}

\* The order under way is pending, and a trade about to be written has an order no other trade has.
MrBacked ==
    /\ mrOrder # 0 => mrAt = "submitted" /\ mrOrders[mrOrder] = "pending"
    /\ mrTrades <= Cardinality(MrFilledRows)
    /\ mrAt = "trade" => mrTrades < Cardinality(MrFilledRows)

\* What is in memory carries the curve of the last row on.
MrCarried ==
    /\ mrRuns \in Nat /\ (mrSeries.funded => mrSeries.run # 0)
    /\ mrSeries.funded /\ mrKnown /\ ~mrBlind => mrLeg.run = mrSeries.run /\ mrLeg.funded

\* The data of a copy are no older than its marker or its newest heartbeat.
MrAged == mrData <= mrBeat /\ mrData <= mrMark /\ (mrAt = "copied" => mrData = 0)

MrInv == MrTypeOK /\ MrBacked /\ MrCarried /\ MrAged

\* How many rows are filled, and what a written row does to that.
LEMMA MrOrdersCount ==
    ASSUME MrTypeOK
    PROVE  IsFiniteSet(MrFilledRows) /\ Cardinality(MrFilledRows) \in Nat
  <1>1. Len(mrOrders) \in Nat /\ MrFilledRows \in SUBSET (1..Len(mrOrders))
    BY DEF MrTypeOK, MrFilledRows
  <1>2. IsFiniteSet(1..Len(mrOrders))
    BY <1>1, FS_Interval
  <1>3. IsFiniteSet(MrFilledRows)
    BY <1>1, <1>2, FS_Subset
  <1> QED BY <1>3, FS_CardinalityType

LEMMA MrOneMore ==
    ASSUME MrTypeOK, NEW i, i \notin MrFilledRows, MrFilledRows' = MrFilledRows \cup {i}
    PROVE  Cardinality(MrFilledRows') = Cardinality(MrFilledRows) + 1
  BY MrOrdersCount, FS_AddElement

LEMMA MrAppended ==
    ASSUME MrTypeOK, NEW status \in MrStatuses, mrOrders' = Append(mrOrders, status)
    PROVE  /\ mrOrders' \in Seq(MrStatuses) /\ Len(mrOrders') = Len(mrOrders) + 1
           /\ mrOrders'[Len(mrOrders) + 1] = status
           /\ Cardinality(MrFilledRows') = Cardinality(MrFilledRows) + (IF status = "filled" THEN 1 ELSE 0)
  <1>1. mrOrders \in Seq(MrStatuses) /\ Len(mrOrders) \in Nat
    BY DEF MrTypeOK, MrStatuses
  <1>2. /\ mrOrders' \in Seq(MrStatuses) /\ Len(mrOrders') = Len(mrOrders) + 1
        /\ DOMAIN mrOrders' = DOMAIN mrOrders \cup {Len(mrOrders) + 1} /\ Len(mrOrders) + 1 \notin DOMAIN mrOrders
        /\ mrOrders'[Len(mrOrders) + 1] = status /\ \A i \in DOMAIN mrOrders : mrOrders'[i] = mrOrders[i]
    BY <1>1
  <1>3. CASE status = "filled"
    <2>1. MrFilledRows' = MrFilledRows \cup {Len(mrOrders) + 1} /\ Len(mrOrders) + 1 \notin MrFilledRows
      BY <1>2, <1>3 DEF MrFilledRows
    <2> QED BY <1>2, <1>3, <2>1, MrOneMore
  <1>4. CASE status # "filled"
    <2>1. MrFilledRows' = MrFilledRows
      BY <1>2, <1>4 DEF MrFilledRows
    <2> QED BY <1>2, <1>4, <2>1, MrOrdersCount
  <1> QED BY <1>3, <1>4

LEMMA MrUpdated ==
    ASSUME MrTypeOK, mrOrder # 0, mrOrders[mrOrder] = "pending", mrOrders' = [mrOrders EXCEPT ![mrOrder] = "filled"]
    PROVE  /\ mrOrders' \in Seq(MrStatuses) /\ Len(mrOrders') = Len(mrOrders)
           /\ Cardinality(MrFilledRows') = Cardinality(MrFilledRows) + 1
  <1>1. mrOrders \in Seq(MrStatuses) /\ mrOrder \in 1..Len(mrOrders) /\ "filled" \in MrStatuses
    BY DEF MrTypeOK, MrStatuses
  <1>2. /\ mrOrders' \in Seq(MrStatuses) /\ Len(mrOrders') = Len(mrOrders) /\ DOMAIN mrOrders' = DOMAIN mrOrders
        /\ mrOrders'[mrOrder] = "filled" /\ \A i \in DOMAIN mrOrders : i # mrOrder => mrOrders'[i] = mrOrders[i]
    BY <1>1
  <1>3. MrFilledRows' = MrFilledRows \cup {mrOrder} /\ mrOrder \notin MrFilledRows
    BY <1>1, <1>2 DEF MrFilledRows
  <1> QED BY <1>2, <1>3, MrOneMore

LEMMA MrOutcomeTypes == ASSUME MrTypeOK, NEW out, MrOutcome(out) PROVE mrFaults' \in Nat
  BY DEF MrTypeOK, MrOutcome

LEMMA MrOrderStep ==
    ASSUME MrInv, NEW out \in MrOuts, MrSubmitted(out) \/ MrRejected(out) \/ MrFilled(out) \/ MrTrade(out)
    PROVE  MrInv' /\ UNCHANGED mrSeries
  <1>1. MrTypeOK /\ MrBacked /\ MrCarried /\ MrAged
    BY DEF MrInv
  <1>2. UNCHANGED <<mrLeg, mrKnown, mrRuns, mrSeries, mrBlind, mrRisk, mrData, mrBeat, mrMark>>
    BY DEF MrSubmitted, MrRejected, MrFilled, MrTrade, mrLegVars, mrCopyVars
  <1>3. mrFaults' \in Nat /\ mrSteps' \in Nat
    <2>1. mrFaults' \in Nat
      BY <1>1, MrOutcomeTypes DEF MrSubmitted, MrRejected, MrFilled, MrTrade
    <2>2. mrSteps' \in Nat
      BY <1>1 DEF MrSubmitted, MrRejected, MrFilled, MrTrade, MrStep, MrGoesOn, MrTypeOK
    <2> QED BY <2>1, <2>2
  <1>4. /\ mrAt' \in {"idle", "submitted", "trade"} /\ mrTrades' \in Nat /\ mrFills' \in Nat
    BY <1>1 DEF MrSubmitted, MrRejected, MrFilled, MrTrade, MrAfter, MrTypeOK
  <1>5. mrOrder \in 0..Len(mrOrders) /\ Cardinality(MrFilledRows) \in Nat /\ mrTrades \in Nat /\ mrOrders \in Seq(MrStatuses)
    BY <1>1, MrOrdersCount DEF MrTypeOK, MrStatuses
  <1>6. mrOrders' \in Seq(MrStatuses) /\ mrOrder' \in 0..Len(mrOrders') /\ MrBacked'
    <2>1. mrOrders' = mrOrders => Cardinality(MrFilledRows') = Cardinality(MrFilledRows)
      BY DEF MrFilledRows
    <2>2. CASE MrSubmitted(out)
      <3>1. /\ mrAt = "idle" /\ mrAt' = "submitted" /\ mrTrades' = mrTrades
            /\ mrOrders' = (IF MrApplied(out) THEN Append(mrOrders, "pending") ELSE mrOrders)
            /\ mrOrder' = (IF out = "ok" THEN Len(mrOrders) + 1 ELSE 0)
        BY <2>2 DEF MrSubmitted
      <3>2. CASE MrApplied(out)
        <4>1. /\ mrOrders' \in Seq(MrStatuses) /\ Len(mrOrders') = Len(mrOrders) + 1
              /\ mrOrders'[Len(mrOrders) + 1] = "pending" /\ Cardinality(MrFilledRows') = Cardinality(MrFilledRows) + 0
          BY <1>1, <3>1, <3>2, MrAppended DEF MrStatuses
        <4> QED BY <1>1, <1>5, <3>1, <4>1 DEF MrBacked
      <3>3. CASE ~MrApplied(out)
        BY <1>1, <1>5, <2>1, <3>1, <3>3 DEF MrBacked, MrApplied
      <3> QED BY <3>2, <3>3
    <2>3. CASE MrRejected(out)
      <3>1. /\ mrAt = "idle" /\ mrAt' = mrAt /\ mrTrades' = mrTrades /\ mrOrder' = mrOrder
            /\ mrOrders' = (IF MrApplied(out) THEN Append(mrOrders, "rejected") ELSE mrOrders)
        BY <2>3 DEF MrRejected
      <3>2. mrOrder = 0
        BY <1>1, <3>1 DEF MrBacked
      <3>3. CASE MrApplied(out)
        <4>1. /\ mrOrders' \in Seq(MrStatuses) /\ Len(mrOrders') = Len(mrOrders) + 1
              /\ Cardinality(MrFilledRows') = Cardinality(MrFilledRows) + 0
          BY <1>1, <3>1, <3>3, MrAppended DEF MrStatuses
        <4> QED BY <1>1, <1>5, <3>1, <3>2, <4>1 DEF MrBacked
      <3>4. CASE ~MrApplied(out)
        BY <1>1, <1>5, <2>1, <3>1, <3>2, <3>4 DEF MrBacked
      <3> QED BY <3>3, <3>4
    <2>4. CASE MrFilled(out)
      <3>1. /\ mrAt' = MrAfter(out) /\ mrTrades' = mrTrades /\ mrOrder' = 0
            /\ mrOrders' = IF ~MrApplied(out) THEN mrOrders
                           ELSE IF mrOrder # 0 THEN [mrOrders EXCEPT ![mrOrder] = "filled"] ELSE Append(mrOrders, "filled")
        BY <2>4 DEF MrFilled
      <3>2. CASE MrApplied(out)
        <4>1. mrOrders' \in Seq(MrStatuses) /\ Len(mrOrders') \in Nat /\ Cardinality(MrFilledRows') = Cardinality(MrFilledRows) + 1
          <5>1. CASE mrOrder # 0
            BY <1>1, <1>5, <3>1, <3>2, <5>1, MrUpdated DEF MrBacked
          <5>2. CASE mrOrder = 0
            BY <1>1, <1>5, <3>1, <3>2, <5>2, MrAppended DEF MrStatuses
          <5> QED BY <5>1, <5>2
        <4> QED BY <1>1, <1>5, <3>1, <4>1 DEF MrBacked
      <3>3. CASE ~MrApplied(out)
        <4>1. mrAt' = "idle"
          BY <3>1, <3>3 DEF MrAfter, MrApplied
        <4> QED BY <1>1, <1>5, <2>1, <3>1, <3>3, <4>1 DEF MrBacked
      <3> QED BY <3>2, <3>3
    <2>5. CASE MrTrade(out)
      <3>1. /\ mrAt = "trade" /\ mrAt' = "idle" /\ mrTrades' \in {mrTrades, mrTrades + 1} /\ mrOrder' = mrOrder /\ mrOrders' = mrOrders
        BY <1>5, <2>5 DEF MrTrade
      <3> QED BY <1>1, <1>5, <2>1, <3>1 DEF MrBacked
    <2> QED BY <2>2, <2>3, <2>4, <2>5
  <1>7. MrTypeOK'
    BY <1>1, <1>2, <1>3, <1>4, <1>6 DEF MrTypeOK, MrStatuses
  <1>8. MrCarried' /\ MrAged'
    BY <1>1, <1>2, <1>4 DEF MrCarried, MrAged
  <1> QED BY <1>2, <1>6, <1>7, <1>8 DEF MrInv

\* A step of another part leaves the orders alone.
LEMMA MrOrdersKept ==
    ASSUME MrBacked, UNCHANGED <<mrOrder, mrOrders, mrTrades>>, mrAt' = mrAt \/ (mrAt \in {"idle", "copied"} /\ mrAt' \in {"idle", "copied"})
    PROVE  MrBacked'
  <1>1. MrFilledRows' = MrFilledRows
    BY DEF MrFilledRows
  <1> QED BY <1>1 DEF MrBacked

\* The next row of a leg's series.
LEMMA MrNavNext ==
    ASSUME MrInv, NEW prev \in MrNav, NEW pnl \in Int, NEW capital \in {0, 1}
    PROVE  MrNextNav(prev, pnl, capital) \in [run : 1..(mrRuns + 1), funded : BOOLEAN, pnl : Int]
  <1>1. mrRuns \in Nat /\ prev.run \in 0..mrRuns /\ prev.funded \in BOOLEAN
    BY DEF MrInv, MrCarried, MrNav
  <1>2. CASE prev.run = 0 \/ ~prev.funded
    <2>1. MrNextNav(prev, pnl, capital) = [run |-> mrRuns + 1, funded |-> capital > 0, pnl |-> pnl]
      BY <1>2, Zenon DEF MrNextNav
    <2>2. (capital > 0) \in BOOLEAN /\ mrRuns + 1 \in 1..(mrRuns + 1)
      BY <1>1
    <2> QED BY <1>2, <2>1, <2>2
  <1>3. CASE ~(prev.run = 0 \/ ~prev.funded)
    <2>1. MrNextNav(prev, pnl, capital) = [run |-> prev.run, funded |-> TRUE, pnl |-> pnl]
      BY <1>3, Zenon DEF MrNextNav
    <2>2. TRUE \in BOOLEAN /\ prev.run \in 1..(mrRuns + 1)
      BY <1>1, <1>3
    <2> QED BY <2>1, <2>2
  <1> QED BY <1>2, <1>3

\* What the return of a leg is computed from: memory, else the last row of the series, unless that could not be read.
LEMMA MrReturnStep ==
    ASSUME MrInv, NEW read \in {"ok", "failed"}, NEW out \in MrOuts, NEW pnl \in Int, NEW capital \in {0, 1},
           read = "ok" \/ ~mrKnown, MrReturn(read, out, pnl, capital)
    PROVE  /\ {mrLeg', mrSeries'} \subseteq MrNav' /\ {mrKnown', mrBlind'} \subseteq BOOLEAN
           /\ MrCarried' /\ (mrSeries.funded /\ ~mrBlind' => mrSeries'.run = mrSeries.run)
  <1> DEFINE prev == IF mrKnown THEN mrLeg ELSE MrLoaded(read)
             next == MrNextNav(prev, pnl, capital)
  <1>1. /\ mrRuns \in Nat /\ mrLeg \in MrNav /\ mrSeries \in MrNav /\ {mrKnown, mrBlind} \subseteq BOOLEAN
        /\ (mrSeries.funded => mrSeries.run # 0)
        /\ (mrSeries.funded /\ mrKnown /\ ~mrBlind => mrLeg.run = mrSeries.run /\ mrLeg.funded)
    BY DEF MrInv, MrTypeOK, MrCarried, MrNav
  <1>2. /\ mrKnown' = TRUE /\ mrLeg' = next /\ mrRuns' = (IF next.run > mrRuns THEN next.run ELSE mrRuns)
        /\ mrBlind' = (mrBlind \/ read # "ok") /\ mrSeries' = (IF MrApplied(out) THEN next ELSE mrSeries)
    BY DEF MrReturn
  <1>3. prev \in MrNav
    <2>1. MrAbsent \in MrNav
      BY <1>1 DEF MrAbsent, MrNav
    <2> QED BY <1>1, <2>1 DEF MrLoaded
  <1>4. /\ next \in [run : 1..(mrRuns + 1), funded : BOOLEAN, pnl : Int]
        /\ (prev.run # 0 /\ prev.funded => next.run = prev.run /\ next.funded)
    <2> HIDE DEF prev
    <2>1. next \in [run : 1..(mrRuns + 1), funded : BOOLEAN, pnl : Int]
      BY <1>3, MrNavNext, Zenon
    <2>2. ASSUME prev.run # 0, prev.funded PROVE next.run = prev.run /\ next.funded
      <3>1. next = [run |-> prev.run, funded |-> TRUE, pnl |-> pnl]
        BY <2>2, Zenon DEF MrNextNav
      <3> QED BY <3>1
    <2> QED BY <2>1, <2>2
  <1>5. mrSeries.funded /\ ~mrBlind' => next.run = mrSeries.run /\ next.funded
    <2> SUFFICES ASSUME mrSeries.funded, ~mrBlind'
                 PROVE  next.run = mrSeries.run /\ next.funded
      OBVIOUS
    <2>1. read = "ok" /\ ~mrBlind
      BY <1>2
    <2>2. prev.run = mrSeries.run /\ prev.funded /\ prev.run # 0
      BY <1>1, <2>1 DEF MrLoaded
    <2> QED BY <1>4, <2>2
  <1> HIDE DEF prev, next
  <1>6. next.run \in 1..(mrRuns + 1) /\ next.funded \in BOOLEAN /\ next.pnl \in Int
    BY <1>4
  <1>7. mrRuns' \in Nat /\ mrRuns <= mrRuns' /\ next.run <= mrRuns' /\ next.run # 0
    BY <1>1, <1>2, <1>6
  <1>8. next \in MrNav' /\ mrSeries \in MrNav'
    <2>1. next \in [run : 0..mrRuns', funded : BOOLEAN, pnl : Int]
      BY <1>4, <1>6, <1>7
    <2>2. mrSeries \in [run : 0..mrRuns', funded : BOOLEAN, pnl : Int]
      BY <1>1, <1>7 DEF MrNav
    <2> QED BY <2>1, <2>2 DEF MrNav
  <1>9. mrSeries' \in {next, mrSeries}
    BY <1>2
  <1>10. {mrKnown', mrBlind'} \subseteq BOOLEAN
    BY <1>1, <1>2, Zenon
  <1>11. mrSeries.funded /\ ~mrBlind' => mrSeries'.run = mrSeries.run
    BY <1>5, <1>9
  <1>12. MrCarried'
    <2>1. mrSeries'.funded => mrSeries'.run # 0
      BY <1>1, <1>7, <1>9
    <2>2. mrSeries'.funded /\ ~mrBlind' => mrLeg'.run = mrSeries'.run /\ mrLeg'.funded
      BY <1>2, <1>5, <1>9
    <2> QED BY <1>7, <2>1, <2>2 DEF MrCarried
  <1> QED BY <1>2, <1>8, <1>9, <1>10, <1>11, <1>12

LEMMA MrLegStep ==
    ASSUME MrInv, NEW read \in {"ok", "failed"}, NEW ledger \in {"ok", "failed"}, NEW out \in MrOuts,
           NEW realized \in MrPnls, NEW unrealized \in MrPnls, NEW unique \in BOOLEAN, NEW capital \in {0, 1},
           MrAttribution(read, ledger, out, realized, unrealized, unique, capital)
    PROVE  MrInv' /\ (mrSeries.funded /\ ~mrBlind' => mrSeries'.run = mrSeries.run)
  <1> DEFINE calls == {<<1, read>>, <<2, ledger>>, <<3, out>>}
             bad == {x \in calls : x[2] # "ok"}
             pnl == MrAttributed(MrRealized(ledger, realized), unrealized, unique)
  <1>1. MrTypeOK /\ MrBacked /\ MrAged
    BY DEF MrInv
  <1>2. /\ UNCHANGED <<mrAt, mrOrder, mrOrders, mrTrades, mrFills, mrRisk, mrData, mrBeat, mrMark>>
        /\ mrSteps' = mrSteps + 1 /\ mrFaults' = mrFaults + Cardinality(bad)
        /\ (read = "ok" \/ ~mrKnown) /\ MrReturn(read, out, pnl, capital)
    BY DEF MrAttribution, MrStep, mrOrdersVars, mrCopyVars
  <1>3. Cardinality(bad) \in Nat
    <2>1. IsFiniteSet({<<1, read>>})
      BY FS_Singleton
    <2>2. IsFiniteSet({<<1, read>>} \cup {<<2, ledger>>})
      BY <2>1, FS_AddElement
    <2>3. IsFiniteSet(({<<1, read>>} \cup {<<2, ledger>>}) \cup {<<3, out>>})
      BY <2>2, FS_AddElement
    <2>4. bad \subseteq ({<<1, read>>} \cup {<<2, ledger>>}) \cup {<<3, out>>}
      BY Zenon
    <2>5. IsFiniteSet(bad)
      BY <2>3, <2>4, FS_Subset
    <2> QED BY <2>5, FS_CardinalityType
  <1>4. pnl \in Int
    <2>1. realized \in Int /\ unrealized \in Int
      BY MrAssumption
    <2> QED BY <2>1 DEF MrAttributed, MrRealized
  <1> HIDE DEF bad, pnl
  <1>5. /\ {mrLeg', mrSeries'} \subseteq MrNav' /\ {mrKnown', mrBlind'} \subseteq BOOLEAN
        /\ MrCarried' /\ (mrSeries.funded /\ ~mrBlind' => mrSeries'.run = mrSeries.run)
    BY <1>2, <1>4, MrReturnStep
  <1>6. MrTypeOK'
    <2>1. {mrTrades', mrFills', mrSteps', mrFaults'} \subseteq Nat
      BY <1>1, <1>2, <1>3 DEF MrTypeOK
    <2> QED BY <1>1, <1>2, <1>5, <2>1 DEF MrTypeOK, MrNav
  <1>7. MrBacked' /\ MrAged'
    BY <1>1, <1>2, MrOrdersKept DEF MrAged
  <1> QED BY <1>5, <1>6, <1>7 DEF MrInv

LEMMA MrRiskStep ==
    ASSUME MrInv, NEW select \in {"ok", "failed"}, NEW out \in MrOuts, NEW halted \in BOOLEAN, MrRiskState(select, out, halted)
    PROVE  MrInv' /\ UNCHANGED mrSeries
  <1>1. MrTypeOK /\ MrBacked /\ MrCarried /\ MrAged
    BY DEF MrInv
  <1>2. /\ UNCHANGED <<mrAt, mrOrder, mrOrders, mrTrades, mrFills, mrLeg, mrKnown, mrRuns, mrSeries, mrBlind, mrData, mrBeat, mrMark>>
        /\ mrSteps' = mrSteps + 1 /\ MrOutcome(IF select = "ok" THEN out ELSE select)
        /\ mrRisk' = IF select = "ok" /\ MrApplied(out) THEN [rows |-> MrRows(out), halted |-> halted] ELSE mrRisk
    BY DEF MrRiskState, MrStep, mrOrdersVars, mrLegVars, mrCopyVars
  <1>3. mrRisk' \in [rows : 0..1, halted : BOOLEAN]
    BY <1>1, <1>2 DEF MrTypeOK, MrRows
  <1>4. mrFaults' \in Nat /\ mrSteps' \in Nat
    BY <1>1, <1>2, MrOutcomeTypes DEF MrTypeOK
  <1>5. MrTypeOK'
    BY <1>1, <1>2, <1>3, <1>4 DEF MrTypeOK
  <1>6. MrBacked' /\ MrCarried' /\ MrAged'
    BY <1>1, <1>2, MrOrdersKept DEF MrAged, MrCarried
  <1> QED BY <1>2, <1>5, <1>6 DEF MrInv

LEMMA MrCopyStep ==
    ASSUME MrInv, (\E beat \in {0, MrOld} : MrRefresh(beat)) \/ MrRecordSync \/ MrTick
    PROVE  MrInv' /\ UNCHANGED mrSeries
  <1>1. MrTypeOK /\ MrBacked /\ MrCarried /\ MrAged
    BY DEF MrInv
  <1>2. MrStale \in Nat /\ MrOld \in Nat
    BY MrAssumption DEF MrOld
  <1>3. /\ UNCHANGED <<mrOrder, mrOrders, mrTrades, mrFills, mrLeg, mrKnown, mrRuns, mrSeries, mrBlind, mrRisk, mrSteps, mrFaults>>
        /\ (mrAt' = mrAt \/ (mrAt \in {"idle", "copied"} /\ mrAt' \in {"idle", "copied"}))
    BY DEF MrRefresh, MrRecordSync, MrTick, mrOrdersVars, mrLegVars
  <1>4. {mrData', mrBeat', mrMark'} \subseteq 0..MrOld /\ MrAged'
    <2>1. mrData \in 0..MrOld /\ mrBeat \in 0..MrOld /\ mrMark \in 0..MrOld
      BY <1>1 DEF MrTypeOK
    <2>2. CASE \E beat \in {0, MrOld} : MrRefresh(beat)
      <3>1. mrAt' = "copied" /\ mrData' = 0 /\ mrBeat' \in {0, MrOld} /\ mrMark' = mrMark
        BY <2>2 DEF MrRefresh
      <3> QED BY <1>2, <2>1, <3>1 DEF MrAged
    <2>3. CASE MrRecordSync
      <3>1. mrAt = "copied" /\ mrAt' = "idle" /\ mrMark' = 0 /\ mrData' = mrData /\ mrBeat' = mrBeat
        BY <2>3 DEF MrRecordSync
      <3> QED BY <1>1, <1>2, <2>1, <3>1 DEF MrAged
    <2>4. CASE MrTick
      <3>1. mrAt' # "copied" /\ mrData' = MrOlder(mrData) /\ mrBeat' = MrOlder(mrBeat) /\ mrMark' = MrOlder(mrMark)
        BY <2>4 DEF MrTick
      <3> QED BY <1>1, <1>2, <2>1, <3>1 DEF MrAged, MrOlder
    <2> QED BY <2>2, <2>3, <2>4
  <1>5. MrTypeOK'
    BY <1>1, <1>3, <1>4 DEF MrTypeOK
  <1>6. MrBacked' /\ MrCarried'
    BY <1>1, <1>3, MrOrdersKept DEF MrCarried
  <1> QED BY <1>3, <1>4, <1>5, <1>6 DEF MrInv

\* A restart reads the series again, and so goes on with the curve of its last row.
LEMMA MrRestartStep == ASSUME MrInv, MrRestart PROVE MrInv' /\ UNCHANGED mrSeries
  <1>1. MrTypeOK /\ MrBacked /\ MrCarried /\ MrAged
    BY DEF MrInv
  <1>2. /\ UNCHANGED <<mrOrders, mrTrades, mrFills, mrRuns, mrSeries, mrBlind, mrRisk, mrData, mrBeat, mrMark, mrSteps>>
        /\ mrFaults' = mrFaults + 1 /\ mrAt' = "idle" /\ mrOrder' = 0 /\ mrLeg' = MrAbsent /\ mrKnown' = FALSE
    BY DEF MrRestart, mrCopyVars
  <1>3. MrAbsent \in MrNav /\ MrNav' = MrNav
    BY <1>1, <1>2 DEF MrAbsent, MrNav, MrCarried
  <1>4. MrTypeOK'
    <2>1. {mrLeg', mrSeries'} \subseteq [run : 0..mrRuns', funded : BOOLEAN, pnl : Int] /\ {mrKnown', mrBlind'} \subseteq BOOLEAN
      BY <1>1, <1>2, <1>3 DEF MrTypeOK, MrNav
    <2>2. mrOrder' \in 0..Len(mrOrders') /\ {mrTrades', mrFills', mrSteps', mrFaults'} \subseteq Nat
      BY <1>1, <1>2 DEF MrTypeOK
    <2> QED BY <1>1, <1>2, <2>1, <2>2 DEF MrTypeOK
  <1>5. MrBacked'
    <2>1. MrFilledRows' = MrFilledRows
      BY <1>2 DEF MrFilledRows
    <2> QED BY <1>1, <1>2, <2>1 DEF MrBacked
  <1>6. MrCarried' /\ MrAged'
    BY <1>1, <1>2 DEF MrCarried, MrAged
  <1> QED BY <1>2, <1>4, <1>5, <1>6 DEF MrInv

LEMMA MrStarts == MrInit => MrInv
  <1> SUFFICES ASSUME MrInit PROVE MrInv
    OBVIOUS
  <1>1. MrStale \in Nat /\ MrOld \in Nat
    BY MrAssumption DEF MrOld
  <1>2. MrTypeOK
    <2>1. mrOrders \in Seq(MrStatuses) /\ mrOrder \in 0..Len(mrOrders)
      BY DEF MrInit
    <2>2. {mrLeg, mrSeries} \subseteq [run : 0..mrRuns, funded : BOOLEAN, pnl : Int] /\ {mrKnown, mrBlind} \subseteq BOOLEAN
      <3>1. mrLeg = MrAbsent /\ mrSeries = MrAbsent /\ mrRuns = 0 /\ mrKnown = FALSE /\ mrBlind = FALSE
        BY DEF MrInit
      <3>2. MrAbsent \in [run : 0..mrRuns, funded : BOOLEAN, pnl : Int]
        BY <3>1 DEF MrAbsent
      <3> QED BY <3>1, <3>2
    <2>3. mrRisk \in [rows : 0..1, halted : BOOLEAN] /\ {mrData, mrBeat, mrMark} \subseteq 0..MrOld
      BY <1>1 DEF MrInit
    <2>4. {mrTrades, mrFills, mrSteps, mrFaults} \subseteq Nat /\ mrAt = "idle"
      BY DEF MrInit
    <2> QED BY <2>1, <2>2, <2>3, <2>4 DEF MrTypeOK, MrStatuses
  <1>3. MrBacked
    <2>1. Cardinality(MrFilledRows) \in Nat
      BY <1>2, MrOrdersCount
    <2> QED BY <2>1 DEF MrInit, MrBacked
  <1>4. MrCarried /\ MrAged
    BY <1>1 DEF MrInit, MrCarried, MrAged, MrAbsent
  <1> QED BY <1>2, <1>3, <1>4 DEF MrInv

LEMMA MrEveryStep ==
    ASSUME MrInv, [MrNext]_mrVars
    PROVE  MrInv' /\ [(mrSeries.funded /\ ~mrBlind') => mrSeries'.run = mrSeries.run]_mrVars
  <1>1. CASE UNCHANGED mrVars
    <2>1. UNCHANGED <<mrAt, mrOrder, mrOrders, mrTrades, mrFills, mrLeg, mrKnown, mrRuns, mrSeries, mrBlind, mrRisk,
                      mrData, mrBeat, mrMark, mrSteps, mrFaults>>
      BY <1>1 DEF mrVars
    <2>2. MrInv'
      BY <2>1 DEF MrInv, MrTypeOK, MrBacked, MrCarried, MrAged, MrFilledRows
    <2> QED BY <1>1, <2>2
  <1>2. ASSUME NEW out \in MrOuts, MrSubmitted(out) \/ MrRejected(out) \/ MrFilled(out) \/ MrTrade(out)
        PROVE  MrInv' /\ UNCHANGED mrSeries
    BY <1>2, MrOrderStep
  <1>3. CASE \E read, ledger \in {"ok", "failed"}, out \in MrOuts, realized, unrealized \in MrPnls, unique \in BOOLEAN, capital \in {0, 1} :
                MrAttribution(read, ledger, out, realized, unrealized, unique, capital)
    <2>1. PICK read \in {"ok", "failed"}, ledger \in {"ok", "failed"}, out \in MrOuts, realized \in MrPnls, unrealized \in MrPnls,
               unique \in BOOLEAN, capital \in {0, 1} : MrAttribution(read, ledger, out, realized, unrealized, unique, capital)
      BY <1>3, Zenon
    <2>2. MrInv' /\ (mrSeries.funded /\ ~mrBlind' => mrSeries'.run = mrSeries.run)
      BY <2>1, MrLegStep, Zenon
    <2> QED BY <2>2, Zenon
  <1>4. CASE \E select \in {"ok", "failed"}, out \in MrOuts, halted \in BOOLEAN : MrRiskState(select, out, halted)
    BY <1>4, MrRiskStep, Zenon
  <1>5. CASE (\E beat \in {0, MrOld} : MrRefresh(beat)) \/ MrRecordSync \/ MrTick
    BY <1>5, MrCopyStep, Zenon
  <1>6. CASE MrRestart
    BY <1>6, MrRestartStep
  <1> QED BY <1>1, <1>2, <1>3, <1>4, <1>5, <1>6, Zenon DEF MrNext

\* What a reader of the mirror is told (supabase_sync.py, leg_return.py, mirror_freshness.py): a mirrored
\* trade has its filled order, the curve of a funded leg is never started again while the series can be
\* read, and a copy called fresh holds recent data.
THEOREM MirrorTells == MrSpec => MrTells
  <1>1. MrInv => MrTypeOK /\ MrTradeBacked /\ MrFreshIsRecent
    <2> SUFFICES ASSUME MrInv PROVE MrTypeOK /\ MrTradeBacked /\ MrFreshIsRecent
      OBVIOUS
    <2>1. MrTypeOK /\ MrBacked /\ MrAged
      BY DEF MrInv
    <2>2. MrTradeBacked
      BY <2>1 DEF MrBacked, MrTradeBacked, MrFilledRows
    <2>3. MrFreshIsRecent
      BY <2>1, MrAssumption DEF MrTypeOK, MrAged, MrFreshIsRecent, MrIsStale, MrOld
    <2> QED BY <2>1, <2>2, <2>3
  <1>2. MrInv /\ [MrNext]_mrVars => MrInv'
    BY MrEveryStep
  <1>3. MrInv /\ [MrNext]_mrVars => [(mrSeries.funded /\ ~mrBlind') => mrSeries'.run = mrSeries.run]_mrVars
    BY MrEveryStep
  <1>4. MrInit => MrInv
    BY MrStarts
  <1> QED BY <1>1, <1>2, <1>3, <1>4, PTL DEF MrSpec, MrTells, MrCurveHolds
=============================================================================
