---------------------------- MODULE DataProofs ----------------------------
(***************************************************************************)
(* Proofs about data on its way in and out: the guards between the market  *)
(* and a decision to trade (the feed's, the cold start's and the           *)
(* microstructure's), and the write-ahead writer of what is recorded.      *)
(***************************************************************************)
EXTENDS FeedHealth, ColdStart, MicroGuard, DbQueue, Inductions

-----------------------------------------------------------------------------
(* FeedHealth.                                                             *)

FhShape ==
    /\ fhNow \in 1..FhMaxNow /\ fhOpen \in BOOLEAN /\ fhStop \in BOOLEAN /\ fhStarts \in 0..FhMaxStarts
    /\ fhSup \in {"off", "connect", "serve", "unwind"}
    /\ fhSock \in [FhConfigured -> {"none", "open", "ended"}]
    /\ fhSup \in {"off", "connect"} => \A s \in FhConfigured : fhSock[s] = "none"

\* The watchdog's keys.
FhLooked == fhPromo \in [FhLegs -> -1..FhMaxNow] /\ fhStalled \subseteq FhLegs /\ FhStalledIsSilent

\* The registry's timers are the silences.
FhTimed == fhSince \in [FhTypes -> -1..FhMaxNow] /\ fhDark = fhSince

\* k late bars in a row, the newest the last one let in.
FhLastRun(lates, in, k) ==
    \E run \in SUBSET lates :
        /\ IsFiniteSet(run) /\ Cardinality(run) = k
        /\ \A n \in in \ run, m \in run : n < m
\* As many late bars in a row as the streak asks, at any time.
FhCause(lates, in) ==
    \E run \in SUBSET lates :
        /\ Cardinality(run) = FhStreak
        /\ \A n \in in \ run : (\A m \in run : n < m) \/ (\A m \in run : n > m)

\* The bars let in rise up to the guard's last; the breaker counts the last run of late ones.
FhStreakOf(seen, breaches, tripped, in, lates) ==
    /\ breaches <= seen /\ (breaches >= FhStreak => tripped)
    /\ lates \subseteq in /\ \A n \in in : n <= seen
    /\ FhLastRun(lates, in, breaches) /\ (tripped => FhCause(lates, in))

FhCounted ==
    /\ fhSeen \in [FhConfigured -> 0..FhMaxNow] /\ fhRef \in [FhConfigured -> 0..FhMaxNow]
    /\ fhBreaches \in [FhConfigured -> 0..FhMaxNow] /\ fhTripped \in [FhConfigured -> BOOLEAN]
    /\ fhAdmitted \in [FhConfigured -> SUBSET (1..FhMaxNow)] /\ fhLate \in [FhConfigured -> SUBSET (1..FhMaxNow)]
    /\ \A s \in FhConfigured : FhStreakOf(fhSeen[s], fhBreaches[s], fhTripped[s], fhAdmitted[s], fhLate[s])

FhInv == FhShape /\ FhLooked /\ FhTimed /\ FhCounted

LEMMA FhInvInit == FhInit => FhInv
  <1> SUFFICES ASSUME FhInit PROVE FhInv
    OBVIOUS
  <1>1. FhMaxNow \in Nat \ {0} /\ FhMaxStarts \in Nat /\ FhStreak \in Nat \ {0}
    BY FhAssumption
  <1>2. FhShape
    <2>1. fhOpen \in BOOLEAN /\ fhStop \in BOOLEAN
      BY DEF FhInit
    <2> QED BY <1>1, <2>1 DEF FhInit, FhShape
  <1>3. FhLooked
    BY <1>1 DEF FhInit, FhLooked, FhStalledIsSilent
  <1>4. FhTimed
    BY <1>1 DEF FhInit, FhTimed
  <1>5. FhLastRun({}, {}, 0)
    BY FS_EmptySet DEF FhLastRun
  <1>6. FhStreakOf(0, 0, FALSE, {}, {})
    BY <1>1, <1>5 DEF FhStreakOf
  <1>7. FhCounted
    <2>1. fhTripped \in [FhConfigured -> BOOLEAN]
      BY DEF FhInit
    <2>2. \A s \in FhConfigured : fhTripped[s] = FALSE
      BY DEF FhInit
    <2>3. \A s \in FhConfigured : FhStreakOf(fhSeen[s], fhBreaches[s], fhTripped[s], fhAdmitted[s], fhLate[s])
      BY <1>6, <2>2 DEF FhInit
    <2>4. /\ fhSeen \in [FhConfigured -> 0..FhMaxNow] /\ fhRef \in [FhConfigured -> 0..FhMaxNow]
          /\ fhBreaches \in [FhConfigured -> 0..FhMaxNow]
      BY <1>1 DEF FhInit
    <2>5. /\ fhAdmitted \in [FhConfigured -> SUBSET (1..FhMaxNow)]
          /\ fhLate \in [FhConfigured -> SUBSET (1..FhMaxNow)]
      BY DEF FhInit
    <2> QED BY <2>1, <2>3, <2>4, <2>5 DEF FhCounted
  <1> QED BY <1>2, <1>3, <1>4, <1>7 DEF FhInv

\* A late bar lengthens the last run by one.
LEMMA FhRunGrows ==
    ASSUME NEW lates, NEW in, NEW k \in Nat, NEW n \in Nat, lates \subseteq in, in \subseteq Nat,
           \A m \in in : m < n, FhLastRun(lates, in, k)
    PROVE  FhLastRun(lates \cup {n}, in \cup {n}, k + 1)
  <1>1. PICK run \in SUBSET lates :
          IsFiniteSet(run) /\ Cardinality(run) = k /\ \A i \in in \ run, m \in run : i < m
    BY DEF FhLastRun
  <1>2. n \notin run
    BY <1>1
  <1>3. IsFiniteSet(run \cup {n}) /\ Cardinality(run \cup {n}) = k + 1
    BY <1>1, <1>2, FS_AddElement
  <1>4. \A i \in (in \cup {n}) \ (run \cup {n}), m \in run \cup {n} : i < m
    BY <1>1
  <1>5. run \cup {n} \in SUBSET (lates \cup {n})
    OBVIOUS
  <1> QED BY <1>3, <1>4, <1>5 DEF FhLastRun

\* A cause stays one when a later bar is let in.
LEMMA FhCauseKept ==
    ASSUME NEW lates, NEW in, NEW more, NEW n \in Nat, lates \subseteq in, in \subseteq Nat,
           lates \subseteq more, \A m \in in : m < n, FhCause(lates, in)
    PROVE  FhCause(more, in \cup {n})
  <1>1. PICK run \in SUBSET lates :
          /\ Cardinality(run) = FhStreak
          /\ \A i \in in \ run : (\A m \in run : i < m) \/ (\A m \in run : i > m)
    BY DEF FhCause
  <1>2. \A m \in run : n > m
    BY <1>1
  <1>3. \A i \in (in \cup {n}) \ run : (\A m \in run : i < m) \/ (\A m \in run : i > m)
    BY <1>1, <1>2
  <1> QED BY <1>1, <1>3 DEF FhCause

\* A full run of late bars at the end is what the breaker may trip on.
LEMMA FhRunIsCause ==
    ASSUME NEW lates, NEW in, lates \subseteq in, in \subseteq Nat, FhLastRun(lates, in, FhStreak)
    PROVE  FhCause(lates, in)
  BY DEF FhLastRun, FhCause

\* What a stream's guards hold after a bar is let in.
LEMMA FhBarCounted ==
    ASSUME NEW seen \in Nat, NEW breaches \in Nat, NEW tripped \in BOOLEAN, NEW in, NEW lates,
           NEW n \in Nat, NEW isLate \in BOOLEAN, NEW breaches2, NEW tripped2 \in BOOLEAN, NEW late2,
           in \subseteq Nat, n > seen, FhStreakOf(seen, breaches, tripped, in, lates),
           breaches2 = IF isLate THEN breaches + 1 ELSE 0,
           tripped2 <=> tripped \/ breaches2 >= FhStreak,
           late2 = IF isLate THEN lates \cup {n} ELSE lates
    PROVE  FhStreakOf(n, breaches2, tripped2, in \cup {n}, late2)
  <1>1. FhStreak \in Nat \ {0}
    BY FhAssumption
  <1>2. breaches <= seen /\ (breaches >= FhStreak => tripped) /\ lates \subseteq in /\ \A m \in in : m < n
    BY DEF FhStreakOf
  <1>3. FhLastRun(lates, in, breaches) /\ (tripped => FhCause(lates, in))
    BY DEF FhStreakOf
  <1>4. breaches2 \in Nat /\ breaches2 <= n /\ (breaches2 >= FhStreak => tripped2)
    BY <1>2
  <1>5. late2 \subseteq in \cup {n} /\ lates \subseteq late2 /\ in \cup {n} \subseteq Nat
    BY <1>2
  <1>6. \A m \in in \cup {n} : m <= n
    BY <1>2
  <1>7. FhLastRun(late2, in \cup {n}, breaches2)
    <2>1. CASE isLate
      <3>1. FhLastRun(lates \cup {n}, in \cup {n}, breaches + 1)
        BY <1>2, <1>3, FhRunGrows
      <3> QED BY <2>1, <3>1
    <2>2. CASE ~isLate
      <3>1. FhLastRun(late2, in \cup {n}, 0)
        BY FS_EmptySet DEF FhLastRun
      <3> QED BY <2>2, <3>1
    <2> QED BY <2>1, <2>2
  <1>8. ASSUME tripped2 PROVE FhCause(late2, in \cup {n})
    <2>1. CASE tripped
      BY <1>2, <1>3, <1>5, <2>1, FhCauseKept
    <2>2. CASE ~tripped
      <3>1. breaches2 = FhStreak
        BY <1>1, <1>2, <1>8, <2>2
      <3> QED BY <1>5, <1>7, <3>1, FhRunIsCause
    <2> QED BY <2>1, <2>2
  <1> QED BY <1>4, <1>5, <1>6, <1>7, <1>8 DEF FhStreakOf

\* A bar that is let in.
LEMMA FhBarStep ==
    ASSUME FhCounted, fhNow \in 1..FhMaxNow, NEW s \in FhConfigured, NEW n \in 1..FhMaxNow,
           FhAccepts(s, n), FhBar(s, n)
    PROVE  FhCounted'
  <1>1. /\ fhSeen' = [fhSeen EXCEPT ![s] = n] /\ fhBreaches' = [fhBreaches EXCEPT ![s] = FhRun(s, n)]
        /\ fhTripped' = [fhTripped EXCEPT ![s] = fhTripped[s] \/ FhRun(s, n) >= FhStreak]
        /\ fhRef' = [fhRef EXCEPT ![s] = FhReference(s, n)]
        /\ fhAdmitted' = [fhAdmitted EXCEPT ![s] = fhAdmitted[s] \union {n}]
        /\ fhLate' = [fhLate EXCEPT ![s] = IF n \in fhAdmitted[s] THEN fhLate[s] \union {0}
                                           ELSE IF fhNow - n > FhCeiling THEN fhLate[s] \union {n} ELSE fhLate[s]]
    BY DEF FhBar
  <1>2. FhMaxNow \in Nat /\ n > fhSeen[s] /\ fhAdmitted[s] \subseteq Nat
    BY FhAssumption DEF FhAccepts, FhCounted
  <1> DEFINE isLate == fhNow - n > FhCeiling
  <1>3. n \notin fhAdmitted[s]
    BY <1>2 DEF FhCounted, FhStreakOf
  <1>4. fhLate' = [fhLate EXCEPT ![s] = IF isLate THEN fhLate[s] \cup {n} ELSE fhLate[s]]
    BY <1>1, <1>3
  <1>5. isLate \in BOOLEAN
    OBVIOUS
  <1>6. FhRun(s, n) = IF isLate THEN fhBreaches[s] + 1 ELSE 0
    BY DEF FhRun
  <1> HIDE DEF isLate
  <1>7. (fhTripped[s] \/ FhRun(s, n) >= FhStreak) \in BOOLEAN
    OBVIOUS
  <1>8. FhStreakOf(fhSeen'[s], fhBreaches'[s], fhTripped'[s], fhAdmitted'[s], fhLate'[s])
    <2>1. FhStreakOf(fhSeen[s], fhBreaches[s], fhTripped[s], fhAdmitted[s], fhLate[s])
      BY DEF FhCounted
    <2>2. fhSeen[s] \in Nat /\ fhBreaches[s] \in Nat /\ fhTripped[s] \in BOOLEAN /\ n \in Nat
      BY <1>2 DEF FhCounted
    <2>3. /\ fhSeen'[s] = n /\ fhBreaches'[s] = FhRun(s, n) /\ fhAdmitted'[s] = fhAdmitted[s] \cup {n}
          /\ fhLate'[s] = IF isLate THEN fhLate[s] \cup {n} ELSE fhLate[s]
      BY <1>1, <1>4 DEF FhCounted
    <2>4. fhTripped'[s] = (fhTripped[s] \/ FhRun(s, n) >= FhStreak)
      BY <1>1 DEF FhCounted
    <2>5. fhTripped'[s] \in BOOLEAN /\ (fhTripped'[s] <=> fhTripped[s] \/ fhBreaches'[s] >= FhStreak)
      BY <1>7, <2>3, <2>4
    <2>6. fhBreaches'[s] = IF isLate THEN fhBreaches[s] + 1 ELSE 0
      BY <1>6, <2>3
    <2>7. FhStreakOf(n, fhBreaches'[s], fhTripped'[s], fhAdmitted[s] \cup {n}, fhLate'[s])
      BY <1>2, <1>5, <2>1, <2>2, <2>3, <2>5, <2>6, FhBarCounted
    <2> QED BY <2>3, <2>7
  <1>9. FhRun(s, n) \in 0..FhMaxNow
    <2>1. fhBreaches[s] \in 0..FhMaxNow /\ fhSeen[s] \in 0..FhMaxNow /\ fhBreaches[s] <= fhSeen[s]
      BY DEF FhCounted, FhStreakOf
    <2> QED BY <1>2, <1>6, <2>1
  <1>10. FhReference(s, n) \in 0..FhMaxNow
    <2>1. fhRef[s] \in 0..FhMaxNow
      BY DEF FhCounted
    <2> QED BY <1>2, <2>1 DEF FhReference
  <1>11. /\ fhSeen' \in [FhConfigured -> 0..FhMaxNow] /\ fhRef' \in [FhConfigured -> 0..FhMaxNow]
         /\ fhBreaches' \in [FhConfigured -> 0..FhMaxNow]
    BY <1>1, <1>2, <1>9, <1>10 DEF FhCounted
  <1>12. fhTripped' \in [FhConfigured -> BOOLEAN]
    BY <1>1, <1>7 DEF FhCounted
  <1>13. /\ fhAdmitted' \in [FhConfigured -> SUBSET (1..FhMaxNow)]
         /\ fhLate' \in [FhConfigured -> SUBSET (1..FhMaxNow)]
    BY <1>1, <1>4 DEF FhCounted
  <1>14. ASSUME NEW t \in FhConfigured
         PROVE  FhStreakOf(fhSeen'[t], fhBreaches'[t], fhTripped'[t], fhAdmitted'[t], fhLate'[t])
    <2>1. CASE t = s
      BY <1>8, <2>1
    <2>2. CASE t # s
      <3>1. /\ fhSeen'[t] = fhSeen[t] /\ fhBreaches'[t] = fhBreaches[t] /\ fhTripped'[t] = fhTripped[t]
            /\ fhAdmitted'[t] = fhAdmitted[t] /\ fhLate'[t] = fhLate[t]
        BY <1>1, <1>4, <2>2 DEF FhCounted
      <3> QED BY <3>1 DEF FhCounted
    <2> QED BY <2>1, <2>2
  <1> QED BY <1>11, <1>12, <1>13, <1>14 DEF FhCounted

\* Both notes write the timer and its history alike.
LEMMA FhNoteStep == ASSUME FhTimed, fhNow \in 1..FhMaxNow, FhNote PROVE FhTimed'
  <1>1. FhMaxNow \in Nat
    BY FhAssumption
  <1> QED BY <1>1 DEF FhTimed, FhNote, FhNoted

\* A look of the watchdog keeps its keys, and stalls only the silent.
LEMMA FhWatchStep == ASSUME FhShape, FhLooked, FhWatched PROVE FhLooked'
  <1> DEFINE live == {s \in FhLegs : ~FhDormant(s)}
             new == {s \in live : fhPromo[s] = -1}
             dead == {s \in live \ new : fhNow - fhPromo[s] > FhStall}
  <1>1. /\ fhPromo' = [s \in FhLegs |-> IF s \in new THEN fhNow ELSE fhPromo[s]]
        /\ fhStalled' = (fhStalled \intersect live) \union dead /\ fhNow' = fhNow
    BY Zenon DEF FhWatched, fhSession
  <1>2. FhMaxNow \in Nat
    BY FhAssumption
  <1>3. fhPromo' \in [FhLegs -> -1..FhMaxNow] /\ fhStalled' \subseteq FhLegs
    BY <1>1, <1>2 DEF FhShape, FhLooked
  <1>4. ASSUME NEW s \in fhStalled' PROVE fhPromo'[s] # -1 /\ fhNow' - fhPromo'[s] > FhStall
    <2>1. s \in FhLegs /\ s \notin new /\ fhPromo[s] # -1 /\ fhNow - fhPromo[s] > FhStall
      BY <1>1 DEF FhLooked, FhStalledIsSilent
    <2> QED BY <1>1, <2>1
  <1> QED BY <1>3, <1>4 DEF FhLooked, FhStalledIsSilent

LEMMA FhInvStep == FhInv /\ [FhNext]_fhVars => FhInv'
  <1> SUFFICES ASSUME FhInv, [FhNext]_fhVars PROVE FhInv'
    OBVIOUS
  <1>0. /\ FhMaxNow \in Nat \ {0} /\ FhMaxStarts \in Nat /\ FhStall \in Nat
        /\ fhNow \in 1..FhMaxNow /\ FhConfigured \subseteq FhTypes
    BY FhAssumption DEF FhInv, FhShape
  <1>a. ASSUME UNCHANGED fhGuards PROVE FhCounted'
    BY <1>a DEF fhGuards, FhInv, FhCounted
  <1>b. ASSUME UNCHANGED fhRegistry PROVE FhTimed'
    BY <1>b DEF fhRegistry, FhInv, FhTimed
  <1>c. ASSUME UNCHANGED <<fhSession, fhWatch>> PROVE FhLooked'
    BY <1>c DEF fhSession, fhWatch, FhInv, FhLooked, FhStalledIsSilent
  <1>d. ASSUME UNCHANGED <<fhSession, fhThread, fhSock>> PROVE FhShape'
    BY <1>d DEF fhSession, fhThread, FhInv, FhShape
  <1>1. CASE FhTick
    <2>1. fhNow' = fhNow + 1 /\ fhNow' \in 1..FhMaxNow /\ fhOpen' \in BOOLEAN
      BY <1>0, <1>1 DEF FhTick
    <2>2. UNCHANGED <<fhThread, fhSock, fhRegistry, fhGuards, fhWatch>>
      BY <1>1 DEF FhTick
    <2>3. FhShape'
      BY <2>1, <2>2 DEF fhThread, FhInv, FhShape
    <2>4. FhLooked'
      BY <1>0, <2>1, <2>2 DEF fhWatch, FhInv, FhLooked, FhStalledIsSilent
    <2> QED BY <1>a, <1>b, <2>2, <2>3, <2>4 DEF FhInv
  <1>2. CASE FhStart
    <2>0. fhStop' \in BOOLEAN
      BY <1>2 DEF FhStart
    <2>1. fhStarts' \in 0..FhMaxStarts
      BY <1>0, <1>2 DEF FhStart, FhInv, FhShape
    <2>2. FhShape'
      BY <1>2, <2>0, <2>1 DEF FhStart, fhSession, FhInv, FhShape
    <2> QED BY <1>2, <1>a, <1>b, <1>c, <2>2 DEF FhStart, FhInv
  <1>3. CASE FhStopped
    <2>1. FhShape'
      BY <1>3 DEF FhStopped, fhSession, FhInv, FhShape
    <2> QED BY <1>3, <1>a, <1>b, <1>c, <2>1 DEF FhStopped, FhInv
  <1>4. CASE FhConnect
    <2>1. FhShape'
      BY <1>4 DEF FhConnect, fhSession, FhInv, FhShape
    <2>2. FhTimed'
      BY <1>0, <1>4, <1>b, FhNoteStep DEF FhConnect, FhInv
    <2> QED BY <1>4, <1>a, <1>c, <2>1, <2>2 DEF FhConnect, FhInv
  <1>5. CASE FhNotice
    <2>1. FhShape'
      BY <1>5 DEF FhNotice, fhSession, FhInv, FhShape
    <2> QED BY <1>5, <1>a, <1>b, <1>c, <2>1 DEF FhNotice, FhInv
  <1>6. CASE FhEnd
    <2>1. FhShape'
      BY <1>6 DEF FhEnd, FhUnwound, fhSession, FhInv, FhShape
    <2>2. FhTimed'
      BY <1>0, <1>6, <1>b, FhNoteStep DEF FhEnd, FhInv
    <2> QED BY <1>6, <1>a, <1>c, <2>1, <2>2 DEF FhEnd, FhInv
  <1>7. CASE FhWatched
    <2>1. UNCHANGED <<fhSession, fhThread, fhSock, fhRegistry, fhGuards>>
      BY <1>7, Zenon DEF FhWatched
    <2>2. FhLooked'
      BY <1>7, FhWatchStep DEF FhInv
    <2> QED BY <1>a, <1>b, <1>d, <2>1, <2>2 DEF FhInv
  <1>8. ASSUME NEW s \in FhConfigured, FhDrop(s) PROVE FhInv'
    <2>1. FhShape'
      BY <1>8 DEF FhDrop, fhSession, fhThread, FhInv, FhShape
    <2> QED BY <1>8, <1>a, <1>b, <1>c, <2>1 DEF FhDrop, FhInv
  <1>9. ASSUME NEW s \in FhConfigured, FhClose(s) PROVE FhInv'
    <2>1. FhShape'
      BY <1>9 DEF FhClose, fhSession, fhThread, FhInv, FhShape
    <2> QED BY <1>9, <1>a, <1>b, <1>c, <2>1 DEF FhClose, FhInv
  <1>10. ASSUME NEW s \in FhConfigured, NEW n \in 1..FhMaxNow, FhBar(s, n) PROVE FhInv'
    <2>1. UNCHANGED <<fhSession, fhThread, fhSock, fhWatch>>
      BY <1>10, Zenon DEF FhBar
    <2>2. CASE FhAccepts(s, n)
      <3>1. FhHeard(s)
        BY <1>10, <2>2 DEF FhBar
      <3>2. FhTimed'
        BY <1>0, <3>1 DEF FhHeard, FhInv, FhTimed
      <3>3. FhCounted'
        BY <1>0, <1>10, <2>2, FhBarStep DEF FhInv
      <3> QED BY <1>c, <1>d, <2>1, <3>2, <3>3 DEF FhInv
    <2>3. CASE ~FhAccepts(s, n)
      <3>1. UNCHANGED <<fhGuards, fhRegistry>>
        BY <1>10, <2>3, Zenon DEF FhBar
      <3> QED BY <1>a, <1>b, <1>c, <1>d, <2>1, <3>1 DEF FhInv
    <2> QED BY <2>2, <2>3
  <1>11. ASSUME NEW s \in FhLegs, FhPromoted(s) PROVE FhInv'
    <2>1. UNCHANGED <<fhSession, fhThread, fhSock, fhRegistry, fhGuards>>
      BY <1>11 DEF FhPromoted
    <2>2. FhLooked'
      BY <1>0, <1>11 DEF FhPromoted, fhSession, FhInv, FhLooked, FhStalledIsSilent
    <2> QED BY <1>a, <1>b, <1>d, <2>1, <2>2 DEF FhInv
  <1>12. CASE UNCHANGED fhVars
    <2>1. UNCHANGED <<fhSession, fhThread, fhSock, fhRegistry, fhGuards, fhWatch>>
      BY <1>12 DEF fhVars, fhSession, fhThread, fhRegistry, fhGuards, fhWatch
    <2> QED BY <1>a, <1>b, <1>c, <1>d, <2>1 DEF FhInv
  <1> QED BY <1>1, <1>2, <1>3, <1>4, <1>5, <1>6, <1>7, <1>8, <1>9, <1>10, <1>11, <1>12 DEF FhNext

\* A silent feed shows for any thresholds and any number of losses and attempts, no bar is let in
\* twice, and the breaker and the watchdog report nothing without its cause.
THEOREM FeedShows == FhSpec => []FhShows
  <1>1. FhInv => FhShows
    <2> SUFFICES ASSUME FhInv PROVE FhShows
      OBVIOUS
    <2>1. FhTypeOK
      BY DEF FhInv, FhShape, FhLooked, FhTimed, FhCounted, FhTypeOK
    <2>2. FhSilenceShows
      <3> SUFFICES ASSUME NEW s \in FhTypes
                   PROVE  /\ fhDark[s] # -1 /\ fhNow - fhDark[s] >= FhDegraded =>
                                FhMode(s) = "DEGRADED_FEED" /\ FhWorstMode = "DEGRADED_FEED"
                          /\ fhDark[s] = -1 => FhMode(s) = "HEALTHY"
        BY DEF FhSilenceShows
      <3>1. fhDark[s] = fhSince[s]
        BY DEF FhInv, FhTimed
      <3>2. FhMode(s) = "DEGRADED_FEED" => FhWorstMode = "DEGRADED_FEED"
        BY DEF FhWorstMode
      <3> QED BY <3>1, <3>2 DEF FhMode, FhModeOf
    <2>3. FhTrippedForCause
      BY DEF FhInv, FhCounted, FhStreakOf, FhCause, FhTrippedForCause
    <2> QED BY <2>1, <2>2, <2>3 DEF FhInv, FhLooked, FhShows
  <1> QED BY <1>1, FhInvInit, FhInvStep, PTL DEF FhSpec

-----------------------------------------------------------------------------
(* ColdStart.                                                              *)

\* What the running time has to make up for: the span of a pause that is still open.
CsOpenPause == IF csSince = 0 THEN 0 ELSE csNow - csSince

\* The clock, its pauses and the time that ran, which covers what they leave over.
CsTimes ==
    /\ {csNow, csStarted, csPaused, csSince, csRan} \subseteq Nat /\ csNow # 0
    /\ csStarted <= csNow /\ csSince <= csNow /\ csReady \in BOOLEAN /\ (csSince # 0 <=> ~csReady)
    /\ csNow <= csRan + csStarted + csPaused + CsOpenPause

\* A leg is where its policy and its verification allow it to be.
CsPlaced ==
    /\ csState \in [CsLegs -> CsStates] /\ csLatch \in [CsLegs -> BOOLEAN] /\ csProof \in [CsLegs -> BOOLEAN]
    /\ \A l \in CsSafe : csState[l] \notin {"HEURISTIC_PARITY", "BYPASS_OVERRIDE"}
    /\ \A l \in CsLegs : csState[l] = "STABILIZED_VERIFIED" => csProof[l]

CsInv ==
    /\ CsTimes /\ CsPlaced /\ csBg \in BOOLEAN /\ csCleared \in BOOLEAN
    /\ csCleared => csBg /\ CsOperational(csState)

LEMMA CsInvInit == CsInit => CsInv
  <1> SUFFICES ASSUME CsInit PROVE CsInv
    OBVIOUS
  <1>1. CsTimes
    BY DEF CsInit, CsTimes, CsOpenPause
  <1>2. CsPlaced
    BY CsAssumption DEF CsInit, CsPlaced, CsStates
  <1> QED BY <1>1, <1>2 DEF CsInit, CsInv

\* The time bound keeps a leg within its policy, verifies on fresh and agreeing bars only, and never
\* takes a leg back to waiting.
LEMMA CsBounded ==
    ASSUME CsInv, NEW l \in CsLegs, NEW in \in CsInputs, NEW to, to = CsTimeBound(l, in)
    PROVE  /\ to \in CsStates /\ (l \in CsSafe => to \notin {"HEURISTIC_PARITY", "BYPASS_OVERRIDE"})
           /\ to = "STABILIZED_VERIFIED" =>
                \/ csState[l] = "STABILIZED_VERIFIED" /\ in.fresh
                \/ in.fresh /\ in.aligned
           /\ CsBlocking(to) => CsBlocking(csState[l])
  <1>1. csState[l] \in CsStates /\ (l \in CsSafe => csState[l] \notin {"HEURISTIC_PARITY", "BYPASS_OVERRIDE"})
    BY DEF CsInv, CsPlaced
  <1>2. CASE csState[l] = "BYPASS_OVERRIDE"
    BY <1>1, <1>2 DEF CsTimeBound, CsBlocking
  <1>3. CASE csState[l] = "STABILIZED_VERIFIED"
    <2>1. to = IF in.fresh THEN "STABILIZED_VERIFIED" ELSE "STALE_REVERIFY"
      BY <1>3 DEF CsTimeBound
    <2> QED BY <1>3, <2>1 DEF CsBlocking, CsStates
  <1>4. CASE csState[l] = "STALE_REVERIFY"
    <2>1. to = IF in.fresh /\ in.aligned THEN "STABILIZED_VERIFIED" ELSE "STALE_REVERIFY"
      BY <1>4 DEF CsTimeBound
    <2> QED BY <1>4, <2>1 DEF CsBlocking, CsStates
  <1>5. CASE csState[l] \notin {"BYPASS_OVERRIDE", "STABILIZED_VERIFIED", "STALE_REVERIFY"}
    <2> DEFINE early == CsElapsed < CsWait
               sure == in.aligned /\ csBg /\ in.fresh /\ in.intact
    <2>1. CASE early
      <3>1. to = csState[l]
        BY <1>5, <2>1 DEF CsTimeBound
      <3> QED BY <1>1, <1>5, <3>1
    <2>2. CASE ~early /\ sure
      <3>1. to = "STABILIZED_VERIFIED"
        BY <1>5, <2>2 DEF CsTimeBound
      <3> QED BY <2>2, <3>1 DEF CsBlocking, CsStates
    <2>3. CASE ~early /\ ~sure /\ l \in CsSafe
      <3>1. to = IF csState[l] = "PENDING" THEN "PENDING_BLOCKED" ELSE csState[l]
        BY <1>5, <2>3 DEF CsTimeBound
      <3> QED BY <1>1, <1>5, <3>1 DEF CsBlocking, CsStates
    <2>4. CASE ~early /\ ~sure /\ l \notin CsSafe
      <3>1. to \in {"HEURISTIC_PARITY", "BYPASS_OVERRIDE"}
        BY <1>5, <2>4 DEF CsTimeBound
      <3> QED BY <2>4, <3>1 DEF CsBlocking, CsStates
    <2> QED BY <2>1, <2>2, <2>3, <2>4
  <1> QED BY <1>2, <1>3, <1>4, <1>5

\* One leg moves, with the evidence for it.
LEMMA CsMoved ==
    ASSUME CsInv, NEW l \in CsLegs, NEW in \in CsInputs, NEW ticks \in BOOLEAN, NEW to \in CsStates,
           csState' = [csState EXCEPT ![l] = to], CsProves(l, in, ticks), csLatch' \in [CsLegs -> BOOLEAN],
           l \in CsSafe => to \notin {"HEURISTIC_PARITY", "BYPASS_OVERRIDE"},
           to = "STABILIZED_VERIFIED" =>
             \/ csState[l] = "STABILIZED_VERIFIED" /\ (ticks => in.fresh)
             \/ in.fresh /\ in.aligned,
           CsBlocking(to) => CsBlocking(csState[l])
    PROVE  CsPlaced' /\ (CsOperational(csState) => CsOperational(csState'))
  <1>1. /\ csState' \in [CsLegs -> CsStates] /\ csState'[l] = to
        /\ \A m \in CsLegs : m # l => csState'[m] = csState[m]
    BY DEF CsInv, CsPlaced
  <1>2. csProof' = [csProof EXCEPT ![l] = (csProof[l] /\ (ticks => in.fresh)) \/ (in.fresh /\ in.aligned)]
    BY DEF CsProves
  <1>3. /\ csProof' \in [CsLegs -> BOOLEAN]
        /\ csProof'[l] = ((csProof[l] /\ (ticks => in.fresh)) \/ (in.fresh /\ in.aligned))
        /\ \A m \in CsLegs : m # l => csProof'[m] = csProof[m]
    BY <1>2 DEF CsInv, CsPlaced
  <1>4. to = "STABILIZED_VERIFIED" => csProof'[l]
    BY <1>3 DEF CsInv, CsPlaced
  <1>5. CsPlaced'
    BY <1>1, <1>3, <1>4 DEF CsInv, CsPlaced
  <1>6. CsOperational(csState) => CsOperational(csState')
    BY <1>1 DEF CsOperational
  <1> QED BY <1>5, <1>6

\* The gate is cleared again from what the step leaves.
LEMMA CsSynced ==
    ASSUME CsInv, CsSync, CsTimes', CsPlaced', csBg' \in BOOLEAN, csBg => csBg',
           CsOperational(csState) => CsOperational(csState')
    PROVE  CsInv'
  <1>1. csCleared' = (csCleared \/ (csBg' /\ CsOperational(csState')))
    BY DEF CsSync
  <1>2. csCleared' \in BOOLEAN
    BY <1>1
  <1>3. csCleared' => csBg' /\ CsOperational(csState')
    BY <1>1 DEF CsInv
  <1> QED BY <1>2, <1>3 DEF CsInv, CsOperational

\* A readiness verdict opens or closes a pause and keeps the account of time.
LEMMA CsReadied == ASSUME CsTimes, NEW ok \in BOOLEAN, CsSetReadiness(ok), UNCHANGED csClock PROVE CsTimes'
  <1>1. csNow' = csNow /\ csStarted' = csStarted /\ csRan' = csRan /\ csReady' = ok
    BY DEF CsSetReadiness, csClock
  <1>2. CASE ok
    <2>1. csSince' = 0 /\ csPaused' = csPaused + CsOpenPause /\ csReady' = TRUE
      BY <1>1, <1>2 DEF CsSetReadiness, CsOpenPause
    <2>2. CsOpenPause \in Nat
      BY DEF CsTimes, CsOpenPause
    <2>3. CsOpenPause' = 0
      BY <2>1 DEF CsOpenPause
    <2> QED BY <1>1, <2>1, <2>2, <2>3 DEF CsTimes
  <1>3. CASE ~ok
    <2>1. csSince' = (IF csSince = 0 THEN csNow ELSE csSince) /\ csPaused' = csPaused /\ csReady' = FALSE
      BY <1>1, <1>3 DEF CsSetReadiness
    <2>2. csSince' \in Nat /\ csSince' # 0 /\ csSince' <= csNow
      BY <2>1 DEF CsTimes
    <2>3. CsOpenPause' = CsOpenPause
      BY <1>1, <2>1 DEF CsOpenPause, CsTimes
    <2> QED BY <1>1, <2>1, <2>2, <2>3 DEF CsTimes
  <1> QED BY <1>2, <1>3

LEMMA CsTickStep ==
    ASSUME CsInv, NEW l \in CsLegs, NEW in \in CsInputs, NEW ok \in BOOLEAN, CsTick(l, in, ok) PROVE CsInv'
  <1>1. /\ CsSetReadiness(ok) /\ UNCHANGED csClock /\ csLatch' = csLatch /\ csBg' = csBg /\ CsSync
    BY DEF CsTick
  <1>2. CsTimes'
    BY <1>1, CsReadied DEF CsInv
  <1>3. CsPlaced' /\ (CsOperational(csState) => CsOperational(csState'))
    <2>1. CASE ok
      <3>1. csState' = [csState EXCEPT ![l] = CsTimeBound(l, in)] /\ CsProves(l, in, TRUE)
        BY <2>1 DEF CsTick
      <3>2. csLatch' \in [CsLegs -> BOOLEAN]
        BY <1>1 DEF CsInv, CsPlaced
      <3> QED BY <3>1, <3>2, CsBounded, CsMoved
    <2>2. CASE ~ok
      BY <1>1, <2>2 DEF CsTick, CsInv, CsPlaced
    <2> QED BY <2>1, <2>2
  <1>4. csBg' \in BOOLEAN /\ (csBg => csBg')
    BY <1>1 DEF CsInv
  <1> QED BY <1>1, <1>2, <1>3, <1>4, CsSynced

LEMMA CsVerifyStep ==
    ASSUME CsInv, NEW l \in CsLegs, NEW in \in CsInputs, NEW background \in BOOLEAN, CsVerify(l, in, background)
    PROVE  CsInv'
  <1>1. /\ csBg' = (csBg \/ background) /\ csLatch' = [csLatch EXCEPT ![l] = ~in.aligned]
        /\ UNCHANGED <<csClock, csPause, csReady>> /\ CsSync
    BY DEF CsVerify
  <1>2. CsTimes'
    BY <1>1 DEF CsInv, CsTimes, CsOpenPause, csClock, csPause
  <1>3. csLatch' \in [CsLegs -> BOOLEAN]
    BY <1>1 DEF CsInv, CsPlaced
  <1>4. CsPlaced' /\ (CsOperational(csState) => CsOperational(csState'))
    <2>1. CASE in.aligned
      <3>1. csState' = [csState EXCEPT ![l] = CsVerified(l, in)] /\ CsProves(l, in, FALSE)
        BY <2>1 DEF CsVerify
      <3>2. csState[l] \in CsStates /\ (l \in CsSafe => csState[l] \notin {"HEURISTIC_PARITY", "BYPASS_OVERRIDE"})
        BY DEF CsInv, CsPlaced
      <3>3. /\ CsVerified(l, in) \in {"STABILIZED_VERIFIED", csState[l], CsTimeBound(l, in)}
            /\ CsVerified(l, in) # csState[l] => in.fresh
        BY <2>1 DEF CsVerified
      <3>4. CASE CsVerified(l, in) = csState[l]
        BY <1>3, <3>1, <3>2, <3>4, CsMoved
      <3>5. CASE CsVerified(l, in) = "STABILIZED_VERIFIED" /\ in.fresh
        <4>1. /\ "STABILIZED_VERIFIED" \in CsStates /\ ~CsBlocking("STABILIZED_VERIFIED")
              /\ "STABILIZED_VERIFIED" \notin {"HEURISTIC_PARITY", "BYPASS_OVERRIDE"}
          BY DEF CsStates, CsBlocking
        <4> QED BY <1>3, <2>1, <3>1, <3>5, <4>1, CsMoved
      <3>6. CASE CsVerified(l, in) = CsTimeBound(l, in) /\ in.fresh
        BY <1>3, <2>1, <3>1, <3>6, CsBounded, CsMoved
      <3> QED BY <3>3, <3>4, <3>5, <3>6
    <2>2. CASE ~in.aligned
      BY <1>3, <2>2 DEF CsVerify, CsInv, CsPlaced
    <2> QED BY <2>1, <2>2
  <1>5. csBg' \in BOOLEAN /\ (csBg => csBg')
    BY <1>1 DEF CsInv
  <1> QED BY <1>1, <1>2, <1>4, <1>5, CsSynced

LEMMA CsInvStep == CsInv /\ [CsNext]_csVars => CsInv'
  <1> SUFFICES ASSUME CsInv, [CsNext]_csVars PROVE CsInv'
    OBVIOUS
  <1>1. CASE CsStart
    <2>1. CsTimes'
      BY <1>1 DEF CsStart, CsInv, CsTimes, CsOpenPause, csPause
    <2>2. CsPlaced'
      BY <1>1, CsAssumption DEF CsStart, CsPlaced, CsStates
    <2> QED BY <1>1, <2>1, <2>2 DEF CsStart, CsInv
  <1>2. CASE CsTime
    <2>1. CsTimes'
      BY <1>2 DEF CsTime, CsInv, CsTimes, CsOpenPause, csPause
    <2> QED BY <1>2, <2>1 DEF CsTime, CsInv, CsPlaced, CsOperational
  <1>3. CASE UNCHANGED csVars
    BY <1>3 DEF csVars, CsInv, CsTimes, CsOpenPause, CsPlaced, CsOperational
  <1> QED BY <1>1, <1>2, <1>3, CsTickStep, CsVerifyStep DEF CsNext

\* A leg trades in full on verified bars only, the time bound is made of time the readiness check did
\* not hold up, and a cleared gate holds nobody back: for any legs, wait and number of restarts.
THEOREM ColdStartLetsIn == CsSpec => []CsLetIn
  <1>1. CsInv => CsLetIn
    <2> SUFFICES ASSUME CsInv PROVE CsLetIn
      OBVIOUS
    <2>1. CsTypeOK
      BY DEF CsInv, CsTimes, CsPlaced, CsTypeOK
    <2>2. CsSizedRight
      <3> SUFFICES ASSUME NEW l \in CsLegs, CsScale(l) > 0
                   PROVE  csProof[l] \/ (l \notin CsSafe /\ CsScale(l) < 100)
        BY DEF CsSizedRight
      <3>1. ~csLatch[l]
        BY DEF CsScale
      <3>2. CASE csState[l] = "STABILIZED_VERIFIED"
        BY <3>2 DEF CsInv, CsPlaced
      <3>3. CASE csState[l] # "STABILIZED_VERIFIED"
        BY <3>1, <3>3 DEF CsScale
      <3> QED BY <3>2, <3>3
    <2>3. CsClockStands
      BY DEF CsInv, CsTimes, CsOpenPause, CsClockStands, CsElapsed, CsPassed
    <2>4. CsClearedWell
      BY DEF CsInv, CsOperational, CsClearedWell
    <2> QED BY <2>1, <2>2, <2>3, <2>4 DEF CsLetIn
  <1> QED BY <1>1, CsInvInit, CsInvStep, PTL DEF CsSpec

-----------------------------------------------------------------------------
(* MicroGuard.                                                             *)

MgShape ==
    /\ mgNow \in 0..MgMaxNow /\ mgHalt \in BOOLEAN /\ mgLuld \in BOOLEAN
    /\ {mgSince, mgBarAt, mgQuoteAt, mgGoodFrom} \subseteq -1..MgMaxNow
    /\ mgCached \in [at : -1..MgMaxNow, q : MgKnownQuotes] /\ mgQuote \in MgKnownQuotes
    /\ mgCarried # <<>> => mgCarried[1] \in MgKnownQuotes
    /\ mgVerdict \in {"none", "safe", "regulatory_halt", "spread_exceeded", "stale_quote", "luld_band"}

\* A candidate for recovery is no older than the run of tradeable quotes it stands for.
MgRunKept ==
    /\ mgSince <= mgNow /\ mgGoodFrom <= mgNow
    /\ mgSince # -1 => mgHalt /\ mgGoodFrom # -1 /\ mgGoodFrom <= mgSince

MgInv == MgShape /\ MgRunKept

LEMMA MgInvInit == MgInit => MgInv
  <1> SUFFICES ASSUME MgInit PROVE MgInv
    OBVIOUS
  <1>1. MgNoQuote \in MgKnownQuotes
    BY DEF MgNoQuote, MgKnownQuotes, MgQuotes
  <1>2. MgMaxNow \in Nat /\ -1 \in -1..MgMaxNow /\ 0 \in 0..MgMaxNow
    BY MgAssumption
  <1>3. mgCached \in [at : -1..MgMaxNow, q : MgKnownQuotes]
    BY <1>1, <1>2 DEF MgInit
  <1>4. MgShape
    <2>1. mgHalt \in BOOLEAN /\ mgLuld \in BOOLEAN
      BY DEF MgInit
    <2>2. {mgSince, mgBarAt, mgQuoteAt, mgGoodFrom} \subseteq -1..MgMaxNow
      BY <1>2 DEF MgInit
    <2> QED BY <1>1, <1>2, <1>3, <2>1, <2>2 DEF MgInit, MgShape
  <1> QED BY <1>4 DEF MgInit, MgInv, MgRunKept

\* The guard takes the quote the stream carries to it.
LEMMA MgNoteQuoteStep == ASSUME MgInv, MgNoteQuote PROVE MgInv'
  <1> DEFINE q == mgCarried[1]
  <1>1. /\ mgCarried # <<>> /\ mgCarried' = <<>> /\ mgQuoteAt' = mgNow /\ mgQuote' = q
        /\ mgHalt' = (mgHalt \/ q.cond = "halt") /\ mgSince' = MgEvidence(mgHalt \/ q.cond = "halt", q)
        /\ mgLuld' = (mgLuld \/ q.cond = "luld")
        /\ mgGoodFrom' = IF ~MgTradeable(q) THEN -1 ELSE IF mgGoodFrom = -1 THEN mgNow ELSE mgGoodFrom
        /\ UNCHANGED <<mgNow, mgBarAt, mgCached, mgVerdict>>
    BY DEF MgNoteQuote, mgEval
  <1>2. q \in MgKnownQuotes
    BY <1>1 DEF MgInv, MgShape
  <1>3. mgHalt' \in BOOLEAN /\ mgLuld' \in BOOLEAN
    BY <1>1
  <1>4. CASE ~MgTradeable(q)
    <2>1. mgSince' = -1 /\ mgGoodFrom' = -1
      BY <1>1, <1>4 DEF MgEvidence
    <2> HIDE DEF q
    <2> QED BY <1>1, <1>2, <1>3, <2>1, MgAssumption DEF MgInv, MgShape, MgRunKept
  <1>5. CASE MgTradeable(q)
    <2>1. q.cond = "none"
      BY <1>5 DEF MgTradeable
    <2>2. mgHalt' <=> mgHalt
      BY <1>1, <2>1
    <2>3. mgSince' = IF ~mgHalt THEN -1 ELSE IF mgSince = -1 THEN mgNow ELSE mgSince
      BY <1>1, <1>5, <2>1 DEF MgEvidence
    <2>4. mgGoodFrom' = IF mgGoodFrom = -1 THEN mgNow ELSE mgGoodFrom
      BY <1>1, <1>5
    <2> HIDE DEF q
    <2>5. MgRunKept'
      BY <1>1, <2>2, <2>3, <2>4 DEF MgInv, MgShape, MgRunKept
    <2>6. MgShape'
      BY <1>1, <1>2, <1>3, <2>3, <2>4, MgAssumption DEF MgInv, MgShape
    <2> QED BY <2>5, <2>6 DEF MgInv
  <1> QED BY <1>4, <1>5

\* The latch after the second critical section of an evaluation.
LEMMA MgEvaluateStep == ASSUME MgInv, MgEvaluate PROVE MgInv'
  <1>1. /\ MgRecover(mgRead[1]) /\ mgVerdict' = MgReason(mgRead[1], mgHalt')
        /\ UNCHANGED <<mgNow, mgLuld, mgBarAt, mgNoted, mgCached, mgCarried>>
    BY DEF MgEvaluate
  <1>2. \/ mgHalt' = mgHalt /\ mgSince' \in {-1, mgSince}
        \/ mgHalt' = FALSE /\ mgSince' = -1
    BY <1>1 DEF MgRecover, mgLatch, MgClearHalt
  <1>3. mgVerdict' \in {"safe", "regulatory_halt", "spread_exceeded", "stale_quote", "luld_band"}
    BY <1>1 DEF MgReason
  <1>4. mgHalt' \in BOOLEAN
    BY <1>2 DEF MgInv, MgShape
  <1>5. MgShape'
    <2>1. mgSince' \in -1..MgMaxNow
      BY <1>2, MgAssumption DEF MgInv, MgShape
    <2> QED BY <1>1, <1>3, <1>4, <2>1 DEF MgInv, MgShape, mgNoted
  <1>6. MgRunKept'
    BY <1>1, <1>2 DEF MgInv, MgShape, MgRunKept, mgNoted
  <1> QED BY <1>5, <1>6 DEF MgInv

LEMMA MgInvStep == MgInv /\ [MgNext]_mgVars => MgInv'
  <1> SUFFICES ASSUME MgInv, [MgNext]_mgVars PROVE MgInv'
    OBVIOUS
  <1>1. CASE MgTick
    <2>1. /\ mgNow' \in 0..MgMaxNow /\ mgNow < mgNow'
          /\ UNCHANGED <<mgLatch, mgLuld, mgBarAt, mgNoted, mgCached, mgCarried, mgEval>>
      BY <1>1, MgAssumption DEF MgTick, MgInv, MgShape
    <2> QED BY <2>1, MgAssumption DEF MgInv, MgShape, MgRunKept, mgLatch, mgNoted, mgEval
  <1>2. ASSUME NEW q \in MgKnownQuotes, MgCache(q) PROVE MgInv'
    <2>1. /\ mgCached' = [at |-> mgNow, q |-> q] /\ mgCarried' = <<q>>
          /\ UNCHANGED <<mgNow, mgLatch, mgLuld, mgBarAt, mgNoted, mgEval>>
      BY <1>2 DEF MgCache
    <2>2. mgCached' \in [at : -1..MgMaxNow, q : MgKnownQuotes] /\ mgCarried'[1] \in MgKnownQuotes
      BY <2>1 DEF MgInv, MgShape
    <2>3. MgShape'
      BY <2>1, <2>2 DEF MgInv, MgShape, mgLatch, mgNoted, mgEval
    <2> QED BY <2>1, <2>3 DEF MgInv, MgRunKept, mgLatch, mgNoted
  <1>3. ASSUME \/ \E c \in {"none", "halt", "luld"} : MgNoteTrade(c)
               \/ \E k \in {"resume", "halt", "luld", "other"} : MgNoteStatus(k)
        PROVE  MgInv'
    <2>1. /\ UNCHANGED <<mgNow, mgBarAt, mgNoted, mgCached, mgCarried, mgEval>>
          /\ \/ mgHalt' = mgHalt /\ mgSince' = mgSince
             \/ mgHalt' \in BOOLEAN /\ mgSince' = -1
      BY <1>3 DEF MgNoteTrade, MgNoteStatus, MgLatchHalt, MgClearHalt, mgLatch
    <2>2. mgLuld' \in BOOLEAN
      BY <1>3 DEF MgNoteTrade, MgNoteStatus
    <2>3. mgHalt' \in BOOLEAN
      BY <2>1 DEF MgInv, MgShape
    <2>4. MgShape'
      BY <2>1, <2>2, <2>3, MgAssumption DEF MgInv, MgShape, mgNoted, mgEval
    <2> QED BY <2>1, <2>4 DEF MgInv, MgShape, MgRunKept, mgNoted
  <1>4. CASE MgNoteBar
    BY <1>4, MgAssumption DEF MgNoteBar, MgInv, MgShape, MgRunKept, mgLatch, mgNoted, mgEval
  <1>5. CASE MgReads
    <2>1. UNCHANGED <<mgNow, mgLatch, mgLuld, mgBarAt, mgNoted, mgCached, mgCarried, mgVerdict>>
      BY <1>5, Zenon DEF MgReads
    <2> QED BY <2>1 DEF MgInv, MgShape, MgRunKept, mgLatch, mgNoted
  <1>6. CASE UNCHANGED mgVars
    BY <1>6 DEF mgVars, MgInv, MgShape, MgRunKept
  <1> QED BY <1>1, <1>2, <1>3, <1>4, <1>5, <1>6, MgNoteQuoteStep, MgEvaluateStep DEF MgNext

\* The latch falls by a resume message or by an evaluation.
LEMMA MgLatchFalls ==
    ASSUME MgInv, [MgNext]_mgVars, mgHalt, ~mgHalt'
    PROVE  \/ mgBad' = "resume"
           \/ /\ mgGoodFrom # -1 /\ mgNow - mgGoodFrom >= MgConfirm
              /\ mgRead # <<>> /\ ~mgRead[1].wide /\ ~MgStaleQuote(mgRead[1])
  <1>1. MgEvaluate \/ \E k \in {"resume", "halt", "luld", "other"} : MgNoteStatus(k)
    BY DEF MgNext, mgVars, mgLatch, MgTick, MgNoteQuote, MgNoteBar, MgReads, MgCache, MgNoteTrade, MgLatchHalt
  <1>2. ASSUME NEW k \in {"resume", "halt", "luld", "other"}, MgNoteStatus(k) PROVE mgBad' = "resume"
    BY <1>2 DEF MgNoteStatus, MgLatchHalt, MgClearHalt, mgLatch
  <1>3. ASSUME MgEvaluate
        PROVE  /\ mgGoodFrom # -1 /\ mgNow - mgGoodFrom >= MgConfirm
               /\ mgRead # <<>> /\ ~mgRead[1].wide /\ ~MgStaleQuote(mgRead[1])
    <2>1. mgRead # <<>> /\ MgRecover(mgRead[1])
      BY <1>3 DEF MgEvaluate
    <2>2. ~MgUnknowable(mgRead[1]) /\ mgSince # -1 /\ ~(mgNow - mgSince < MgConfirm)
      BY <2>1 DEF MgRecover, mgLatch
    <2>3. mgGoodFrom # -1 /\ mgNow - mgGoodFrom >= MgConfirm
      BY <2>2, MgAssumption DEF MgInv, MgShape, MgRunKept
    <2> QED BY <2>1, <2>2, <2>3 DEF MgUnknowable
  <1> QED BY <1>1, <1>2, <1>3

\* An evaluation that ends in safe ended with the halt latch down, latched in between or not.
LEMMA MgSafeVerdict ==
    ASSUME [MgNext]_mgVars, mgRead # <<>>, mgRead' = <<>>, mgVerdict' = "safe" PROVE ~mgHalt'
  <1>1. MgEvaluate
    BY DEF MgNext, mgVars, mgEval, MgTick, MgNoteQuote, MgNoteBar, MgReads, MgCache, MgNoteTrade, MgNoteStatus
  <1>2. mgVerdict' = MgReason(mgRead[1], mgHalt')
    BY <1>1 DEF MgEvaluate
  <1> QED BY <1>2 DEF MgReason, MgHaltSeen

\* A halt is cleared on evidence only, and no symbol is called safe while it is halted, for any
\* thresholds and with the halt latched between any two steps of an evaluation.
THEOREM GuardHalts == MgSpec => MgHalts
  <1>1. MgInv => MgTypeOK
    BY DEF MgInv, MgShape, MgRunKept, MgTypeOK
  <1>2. MgInv /\ [MgNext]_mgVars =>
          [(mgHalt /\ ~mgHalt') =>
             \/ mgBad' = "resume"
             \/ /\ mgGoodFrom # -1 /\ mgNow - mgGoodFrom >= MgConfirm
                /\ mgRead # <<>> /\ ~mgRead[1].wide /\ ~MgStaleQuote(mgRead[1])]_mgVars
    BY MgLatchFalls
  <1>3. [MgNext]_mgVars => [(mgRead # <<>> /\ mgRead' = <<>> /\ mgVerdict' = "safe") => ~mgHalt']_mgVars
    BY MgSafeVerdict
  <1> QED BY <1>1, <1>2, <1>3, MgInvInit, MgInvStep, PTL DEF MgSpec, MgHalts, MgClearedOnEvidence, MgSafeIsUnhalted

-----------------------------------------------------------------------------
(* DbQueue.                                                                *)

\* The places where a thread holds its instance's flush lock.
DqInside == {"fetch", "group", "postgres"}

\* A thread inside holds the lock, one outside works on nothing, and a single instance is alive.
DqAlone ==
    /\ \A t \in Threads : pc[t] \in DqInside => lock[t[1]] = t
    /\ \A t \in Threads : pc[t] \notin DqInside => todo[t] = {} /\ committed[t] = {}
    /\ ~twin => \A v, u \in Live(pc) : v = u
    /\ producer # "idle" => holds \in Writers /\ last < N

\* Nothing is known of a row before it is staged.
DqKnown ==
    /\ stage \subseteq 1..last /\ \A t \in Threads : batch[t] \subseteq 1..last
    /\ \A w \in Writes : landed[w] > 0 => w <= last
    /\ \A g \in Snapshot : snap[g] <= last /\ (snap[g] # 0 => GroupOf[snap[g]] = g)

\* A batch is worked off a whole group at a time, and what is committed is stored.
DqWhole ==
    \A t \in Threads :
        /\ todo[t] \subseteq batch[t] /\ committed[t] \subseteq batch[t] /\ todo[t] \cap committed[t] = {}
        /\ \A w, u \in batch[t] : GroupOf[w] = GroupOf[u] =>
             (w \in todo[t] <=> u \in todo[t]) /\ (w \in committed[t] <=> u \in committed[t])
        /\ \A w \in committed[t] : Stored(w) \/ twin
        /\ pc[t] = "postgres" => todo[t] # {} /\ \A w \in Group(t) : GroupOf[w] \notin Snapshot /\ landed[w] > 0

\* A batch is the head of the stage for as long as it is worked on, a row that a risk-state row holds
\* included; what a forced drain committed is gone before it fetches again.
DqHead ==
    ~twin => \A t \in Threads :
        /\ pc[t] \in {"group", "postgres"} =>
             /\ batch[t] \subseteq Oldest(stage)
             /\ \A u \in stage, w \in batch[t] : u < w => u \in batch[t]
             /\ \A g \in Snapshot : snap[g] \in stage => snap[g] \in batch[t]
        /\ pc[t] = "fetch" => committed[t] \cap stage = {}

\* The snapshot a risk-state row holds is at the head of the stage or, once deleted, older than the rows
\* of its group that are staged.
DqSnaps ==
    ~twin => \A g \in Snapshot :
        /\ snap[g] \in stage => snap[g] \in Oldest(stage)
        /\ snap[g] \notin stage => \A u \in stage : GroupOf[u] = g => u > snap[g]

\* A row that is in its table and still staged is in the hands of the drain that put it there.
DqHandled(w) == \E t \in Threads : w \in committed[t] \/ (pc[t] = "postgres" /\ w \in Group(t))
DqOnce ==
    ~(twin \/ cut \/ refused) => \A w \in Writes : GroupOf[w] \notin Piecewise =>
        landed[w] <= 1 /\ (landed[w] = 1 /\ w \in stage => DqHandled(w))

DqInv == TypeOK /\ DqAlone /\ DqKnown /\ DqWhole /\ DqHead /\ DqSnaps /\ DqOnce /\ NothingLost

\* The last item of a group, which a snapshot group keeps.
LEMMA DqGreatest ==
    ASSUME NEW s \in SUBSET Writes, s # {}
    PROVE  Greatest(s) \in s /\ \A u \in s : u <= Greatest(s)
  <1>1. N \in Nat /\ s \in SUBSET (1..N)
    BY DbQueueAssumption DEF Writes
  <1>2. Max(s) \in s /\ \A u \in s : Max(s) >= u
    BY <1>1, MaxIs
  <1>3. Max(s) \in s /\ \A u \in s : u <= Max(s)
    BY <1>1, <1>2
  <1> HIDE <1>2
  <1>4. \E w \in s : \A u \in s : u <= w
    BY <1>3
  <1> QED BY <1>4, Zenon DEF Greatest

\* The first item, whose group is drained next.
LEMMA DqLeast ==
    ASSUME NEW s \in SUBSET Writes, s # {}
    PROVE  Least(s) \in s
  <1> DEFINE r == {N + 1 - w : w \in s}
  <1>1. N \in Nat /\ s \in SUBSET (1..N)
    BY DbQueueAssumption DEF Writes
  <1>2. r \in SUBSET (1..N) /\ r # {}
    <2>1. \A w \in s : N + 1 - w \in 1..N
      BY <1>1
    <2>2. r # {}
      OBVIOUS
    <2> QED BY <2>1, <2>2
  <1>3. Max(r) \in r /\ \A y \in r : Max(r) >= y
    BY <1>1, <1>2, MaxIs
  <1>4. PICK w \in s : Max(r) = N + 1 - w
    BY <1>3
  <1>5. \A u \in s : w <= u
    <2> SUFFICES ASSUME NEW u \in s PROVE w <= u
      OBVIOUS
    <2>1. Max(r) >= N + 1 - u
      BY <1>3
    <2> QED BY <1>1, <1>4, <2>1
  <1>6. \E x \in s : \A u \in s : x <= u
    BY <1>5
  <1> QED BY <1>6, Zenon DEF Least

\* Rows are counted by numbers.
LEMMA DqCounts ==
    ASSUME NEW s \in SUBSET Writes, NEW r \in SUBSET s
    PROVE  Cardinality(r) \in Nat /\ Cardinality(s) \in 0..N /\ Cardinality(r) <= Cardinality(s)
  <1>1. N \in Nat /\ IsFiniteSet(Writes) /\ Cardinality(Writes) = N
    BY DbQueueAssumption, FS_Interval DEF Writes
  <1>2. IsFiniteSet(s) /\ Cardinality(s) <= N
    BY <1>1, FS_Subset
  <1>3. IsFiniteSet(r) /\ Cardinality(r) <= Cardinality(s)
    BY <1>2, FS_Subset
  <1> QED BY <1>1, <1>2, <1>3, FS_CardinalityType

\* A row stays among the oldest when no older row is added.
LEMMA DqOldestStays ==
    ASSUME NEW s \in SUBSET Writes, NEW r \in SUBSET Writes, NEW w \in r, w \in Oldest(s), \A u \in r : u < w => u \in s
    PROVE  w \in Oldest(r)
  <1> DEFINE S == {u \in s : u < w}
             R == {u \in r : u < w}
  <1>1. S \in SUBSET Writes /\ R \in SUBSET S
    OBVIOUS
  <1>2. Cardinality(S) < BatchSize
    BY DEF Oldest
  <1> HIDE DEF S, R
  <1>3. Cardinality(R) < BatchSize
    BY <1>1, <1>2, DqCounts, DbQueueAssumption
  <1> QED BY <1>3 DEF Oldest, R

\* A batch is a head of the stage: whatever is older than a row of it is in it.
LEMMA DqOldestHead ==
    ASSUME NEW s \in SUBSET Writes, NEW u \in s, NEW w \in Oldest(s), u < w
    PROVE  u \in Oldest(s)
  <1> DEFINE S == {x \in s : x < w}
             R == {x \in s : x < u}
  <1>0. s \subseteq Int /\ w \in Int
    BY DbQueueAssumption DEF Writes, Oldest
  <1>1. S \in SUBSET Writes /\ R \in SUBSET S
    <2>1. \A x \in s : x < u => x < w
      BY <1>0
    <2> QED BY <2>1
  <1>2. Cardinality(S) < BatchSize
    BY DEF Oldest
  <1> HIDE DEF S, R
  <1>3. Cardinality(R) < BatchSize
    BY <1>1, <1>2, DqCounts, DbQueueAssumption
  <1> QED BY <1>3 DEF Oldest, R

DqThreadTypes ==
    /\ lock \in [Writers -> Threads \cup {NoThread}]
    /\ pc \in [Threads -> {"off", "loop", "flush", "fetch", "group", "postgres", "join", "drain", "compare"}]
    /\ force \in [Threads -> BOOLEAN] /\ batch \in [Threads -> SUBSET Writes]
    /\ todo \in [Threads -> SUBSET Writes] /\ committed \in [Threads -> SUBSET Writes]

\* A thread that leaves a drain keeps the types of its own state.
LEMMA DqLeaves ==
    ASSUME TypeOK, NEW t \in Threads, NEW place \in {"off", After(t)}, Leave(t, place)
    PROVE  DqThreadTypes' /\ place \in {"off", "loop", "compare"}
  <1>1. t[1] \in Writers
    BY DEF Threads
  <1>2. place \in {"off", "loop", "compare"}
    BY DEF After
  <1>3. force' \in [Threads -> BOOLEAN]
    BY DEF Leave, TypeOK
  <1> QED BY <1>1, <1>2, <1>3 DEF Leave, TypeOK, DqThreadTypes

\* Types over the steps of a drain.
LEMMA DqTypeDrain ==
    ASSUME TypeOK, NEW t \in Threads, Flush(t)
    PROVE  TypeOK'
  <1>1. t[1] \in Writers /\ MaxFaults \in Nat /\ faults \in 0..MaxFaults
    BY DbQueueAssumption DEF Threads, TypeOK
  <1>2. Fault => faults' \in 0..MaxFaults
    BY <1>1 DEF Fault
  <1>3. DqThreadTypes
    BY DEF TypeOK, DqThreadTypes
  <1>4. CASE TakeLock(t)
    <2>1. DqThreadTypes'
      BY <1>1, <1>3, <1>4 DEF TakeLock, DqThreadTypes
    <2>2. /\ maxBatches' \in [Writers -> {BaseBatches, BurstBatches}] /\ tokens' \in [Writers -> Nat]
          /\ \A v \in Writers : tokens'[v] <= maxBatches'[v]
      BY <1>1, <1>4, DbQueueAssumption DEF TakeLock, UpdateBacklog, Target, Smaller, TypeOK
    <2> QED BY <1>4, <2>1, <2>2 DEF TakeLock, TypeOK, DqThreadTypes, tables, instance, call, history
  <1>5. CASE Throttled(t)
    <2>1. DqThreadTypes'
      BY <1>5, DqLeaves DEF Throttled
    <2> QED BY <1>5, <2>1 DEF Throttled, TypeOK, DqThreadTypes, tables, instance, limiter, call, history
  <1>6. CASE Fetch(t)
    <2>1. Oldest(stage) \in SUBSET Writes
      BY DEF TypeOK, Oldest
    <2>2. DqThreadTypes'
      <3>1. CASE \E place \in {"off", After(t)} : Leave(t, place)
        BY <3>1, DqLeaves
      <3>2. CASE ~ \E place \in {"off", After(t)} : Leave(t, place)
        BY <1>3, <1>6, <2>1, <3>2 DEF Fetch, DqThreadTypes
      <3> QED BY <3>1, <3>2
    <2>3. tokens' \in [Writers -> Nat] /\ \A v \in Writers : tokens'[v] <= maxBatches[v]
      <3>1. tokens \in [Writers -> Nat] /\ \A v \in Writers : tokens[v] <= maxBatches[v] /\ maxBatches[v] \in Nat
        BY DbQueueAssumption DEF TypeOK
      <3>2. tokens' = [tokens EXCEPT ![t[1]] = IF force[t] THEN @ ELSE @ - 1] /\ (force[t] \/ tokens[t[1]] > 0)
        BY <1>6 DEF Fetch
      <3> QED BY <1>1, <3>1, <3>2
    <2> QED BY <1>6, <2>2, <2>3 DEF Fetch, TypeOK, DqThreadTypes, tables, instance, call, history
  <1>7. CASE GroupRaises(t)
    <2>1. landed' \in [Writes -> 0..2]
      <3>1. landed' = landed \/ \E rows : Append(rows)
        BY <1>7 DEF GroupRaises
      <3> QED BY <3>1 DEF Append, TypeOK
    <2>2. faults' \in 0..MaxFaults
      BY <1>1, <1>2, <1>7 DEF GroupRaises
    <2>3. DqThreadTypes'
      BY <1>3, <1>7 DEF GroupRaises, DqThreadTypes, Isolated
    <2> QED BY <1>7, <2>1, <2>2, <2>3 DEF GroupRaises, TypeOK, DqThreadTypes, instance, limiter, call, history
  <1>8. CASE PersistGroup(t)
    <2> DEFINE g == GroupOf[Least(todo[t])]
    <2>1. todo[t] \in SUBSET Writes /\ todo[t] # {} /\ Group(t) \in SUBSET Writes
      BY <1>8 DEF PersistGroup, TypeOK, Group
    <2>2. Least(todo[t]) \in todo[t]
      BY <2>1, DqLeast
    <2>3. g \in Groups /\ Group(t) # {}
      BY <2>1, <2>2, DbQueueAssumption DEF Group
    <2>4. Greatest(Group(t)) \in 0..N
      BY <2>1, <2>3, DqGreatest, DbQueueAssumption DEF Writes
    <2>5. CommitSqlite(Group(t), g)
      BY <1>8 DEF PersistGroup
    <2>6. landed' \in [Writes -> 0..2] /\ snap' \in [Groups -> 0..N]
      BY <2>3, <2>4, <2>5 DEF CommitSqlite, Append, TypeOK
    <2>7. DqThreadTypes'
      BY <1>3, <1>8, <2>1 DEF PersistGroup, DqThreadTypes
    <2> QED BY <1>8, <2>6, <2>7 DEF PersistGroup, TypeOK, DqThreadTypes, instance, limiter, call, history
  <1>9. CASE Replicate(t)
    <2>1. faults' \in 0..MaxFaults /\ refused' \in BOOLEAN
      BY <1>1, <1>2, <1>9 DEF Replicate, TypeOK
    <2>2. Group(t) \in SUBSET Writes
      BY DEF TypeOK, Group
    <2>3. DqThreadTypes'
      BY <1>3, <1>9, <2>2 DEF Replicate, DqThreadTypes
    <2> QED BY <1>9, <2>1, <2>3 DEF Replicate, TypeOK, DqThreadTypes, tables, instance, limiter, call
  <1>10. CASE Uncommitted(t)
    <2>1. DqThreadTypes'
      BY <1>10, DqLeaves DEF Uncommitted
    <2> QED BY <1>10, <2>1 DEF Uncommitted, TypeOK, DqThreadTypes, tables, instance, limiter, call, history
  <1>11. CASE DeleteRows(t)
    <2>1. faults' \in 0..MaxFaults /\ cut' \in BOOLEAN /\ stage' \subseteq Writes
      BY <1>1, <1>2, <1>11 DEF DeleteRows, TypeOK
    <2>2. DqThreadTypes'
      <3>1. CASE Leave(t, After(t))
        BY <3>1, DqLeaves
      <3>2. CASE ~Leave(t, After(t))
        BY <1>3, <1>11, <3>2 DEF DeleteRows, DqThreadTypes
      <3> QED BY <3>1, <3>2
    <2> QED BY <1>11, <2>1, <2>2 DEF DeleteRows, TypeOK, DqThreadTypes, instance, limiter, call
  <1> QED BY <1>4, <1>5, <1>6, <1>7, <1>8, <1>9, <1>10, <1>11 DEF Flush

\* Types over producers, calls, deadlines and crashes.
LEMMA DqTypeCalls ==
    ASSUME TypeOK, DqAlone, Produce \/ Deadline \/ Crash \/ \E v \in Writers : WorkerLoop(v) \/ Stop(v) \/ StopStep(v) \/ Refill(v)
    PROVE  TypeOK'
  <1>1. N \in Nat /\ MaxFaults \in Nat /\ faults \in 0..MaxFaults /\ Cardinality(stage) \in 0..N
    BY DbQueueAssumption, DqCounts DEF TypeOK
  <1>2. Fault => faults' \in 0..MaxFaults
    BY <1>1 DEF Fault
  <1>3. \A v \in Writers : Worker(v) \in Threads /\ Stopper(v) \in Threads
    BY DEF Threads, Worker, Stopper
  <1>4. CASE GetWriter
    <2>1. stopped' \in [Writers -> BOOLEAN]
      BY <1>4 DEF GetWriter, TypeOK
    <2>2. current' \in Writers \cup {NoWriter} /\ created' \subseteq Writers /\ holds' \in Writers \cup {NoWriter}
      BY <1>4 DEF GetWriter, TypeOK
    <2>3. /\ maxBatches' \in [Writers -> {BaseBatches, BurstBatches}] /\ tokens' \in [Writers -> Nat]
          /\ \A v \in Writers : tokens'[v] <= maxBatches'[v]
      BY <1>4, DbQueueAssumption DEF GetWriter, TypeOK, limiter
    <2> QED BY <1>4, <2>1, <2>2, <2>3 DEF GetWriter, TypeOK, tables, thread, history
  <1>5. CASE StartWorker
    <2>1. holds \in Writers
      BY <1>5 DEF StartWorker, DqAlone
    <2>2. stopped' \in [Writers -> BOOLEAN]
      BY <1>5, <2>1 DEF StartWorker, TypeOK
    <2>3. twin' \in BOOLEAN
      BY <1>5 DEF StartWorker, TypeOK, Twin
    <2>4. DqThreadTypes'
      BY <1>3, <1>5, <2>1 DEF StartWorker, TypeOK, DqThreadTypes
    <2> QED BY <1>5, <2>2, <2>3, <2>4 DEF StartWorker, TypeOK, DqThreadTypes, tables, limiter
  <1>6. CASE Enqueue
    <2>1. last' \in 0..N /\ stage' \subseteq Writes
      BY <1>1, <1>6 DEF Enqueue, TypeOK, Writes, DqAlone
    <2> QED BY <1>6, <2>1 DEF Enqueue, TypeOK, instance, limiter, thread, history
  <1>7. CASE Deadline
    BY <1>7 DEF Deadline, TypeOK, tables, instance, limiter, thread, call, history
  <1>8. CASE Crash
    <2>1. cut' \in BOOLEAN
      BY <1>8 DEF Crash
    <2>2. DqThreadTypes'
      BY <1>8 DEF Crash, DqThreadTypes, Empty
    <2>3. /\ maxBatches' \in [Writers -> {BaseBatches, BurstBatches}] /\ tokens' \in [Writers -> Nat]
          /\ \A v \in Writers : tokens'[v] <= maxBatches'[v]
      BY <1>8, DbQueueAssumption DEF Crash
    <2>4. stopped' \in [Writers -> BOOLEAN] /\ late' \in BOOLEAN
      BY <1>8, Zenon DEF Crash
    <2>5. before' \in 0..N
      BY <1>1, <1>8 DEF Crash
    <2> QED BY <1>2, <1>8, <2>1, <2>2, <2>3, <2>4, <2>5 DEF Crash, TypeOK, DqThreadTypes, tables
  <1>9. ASSUME NEW v \in Writers, WorkerLoop(v) PROVE TypeOK'
    <2>1. force' \in [Threads -> BOOLEAN]
      BY <1>3, <1>9 DEF WorkerLoop, TypeOK
    <2>2. DqThreadTypes'
      BY <1>3, <1>9, <2>1 DEF WorkerLoop, TypeOK, DqThreadTypes
    <2> QED BY <1>9, <2>2 DEF WorkerLoop, TypeOK, DqThreadTypes, tables, instance, limiter, call, history
  <1>10. ASSUME NEW v \in Writers, Stop(v) PROVE TypeOK'
    <2>1. stopped' \in [Writers -> BOOLEAN]
      BY <1>10 DEF Stop, TypeOK, Running
    <2>2. twin' \in BOOLEAN /\ late' \in BOOLEAN
      BY <1>10 DEF Stop, TypeOK, Twin
    <2>3. DqThreadTypes'
      BY <1>3, <1>10 DEF Stop, TypeOK, DqThreadTypes
    <2> QED BY <1>10, <2>1, <2>2, <2>3 DEF Stop, TypeOK, DqThreadTypes, tables, limiter, call
  <1>11. ASSUME NEW v \in Writers, Join(v) PROVE TypeOK'
    <2>1. DqThreadTypes'
      BY <1>3, <1>11 DEF Join, TypeOK, DqThreadTypes
    <2> QED BY <1>11, <2>1 DEF Join, TypeOK, DqThreadTypes, tables, instance, limiter, call, history
  <1>12. ASSUME NEW v \in Writers, Drain(v) PROVE TypeOK'
    <2>1. force' \in [Threads -> BOOLEAN]
      BY <1>3, <1>12 DEF Drain, Finished, TypeOK
    <2>2. DqThreadTypes'
      BY <1>3, <1>12, <2>1 DEF Drain, Finished, TypeOK, DqThreadTypes
    <2>3. before' \in 0..N /\ current' \in Writers \cup {NoWriter}
      BY <1>1, <1>12 DEF Drain, Finished, TypeOK
    <2> QED BY <1>12, <2>2, <2>3 DEF Drain, TypeOK, DqThreadTypes, tables, limiter, call, history
  <1>13. ASSUME NEW v \in Writers, Refill(v) PROVE TypeOK'
    <2>1. tokens' \in [Writers -> Nat] /\ \A u \in Writers : tokens'[u] <= maxBatches[u]
      BY <1>13, DbQueueAssumption DEF Refill, TypeOK
    <2> QED BY <1>13, <2>1 DEF Refill, TypeOK, tables, instance, thread, call, history
  <1> QED BY <1>4, <1>5, <1>6, <1>7, <1>8, <1>9, <1>10, <1>11, <1>12, <1>13 DEF Produce, StopStep

\* Of two instances' drains, or two threads', one at most is at work.
LEMMA DqOneInside ==
    ASSUME DqAlone, ~twin, NEW t \in Threads, NEW s \in Threads, pc[t] \in DqInside, pc[s] \in DqInside
    PROVE  s = t
  <1>1. ASSUME NEW r \in Threads, pc[r] \in DqInside PROVE r[1] \in Live(pc)
    BY <1>1 DEF Threads, Live, Worker, Stopper, DqInside
  <1>2. t[1] \in Live(pc) /\ s[1] \in Live(pc)
    BY <1>1
  <1>3. t[1] = s[1]
    BY <1>2 DEF DqAlone
  <1> QED BY <1>3 DEF DqAlone

\* Steps that neither touch the tables nor bring a thread past its fetch.
LEMMA DqQuiet ==
    ASSUME DqInv, UNCHANGED <<stage, landed, snap, last, batch, todo, committed, cut, refused>>, twin => twin',
           \A t \in Threads : pc'[t] = pc[t] \/ (pc[t] \notin DqInside /\ pc'[t] \notin {"group", "postgres"})
    PROVE  DqKnown' /\ DqWhole' /\ DqHead' /\ DqSnaps' /\ DqOnce' /\ NothingLost'
  <1>1. \A w : Stored(w)' <=> Stored(w)
    BY DEF Stored
  <1>2. \A t \in Threads : Group(t)' = Group(t)
    BY DEF Group
  <1>3. \A t \in Threads : pc'[t] \in {"group", "postgres"} => pc'[t] = pc[t]
    OBVIOUS
  <1>4. \A t \in Threads : pc[t] = "postgres" => pc'[t] = "postgres"
    BY DEF DqInside
  <1>5. DqKnown'
    BY DEF DqInv, DqKnown
  <1>6. DqWhole'
    BY <1>1, <1>2, <1>3 DEF DqInv, DqWhole
  <1>7. DqHead'
    <2>1. ASSUME NEW t \in Threads, ~twin, pc'[t] = "fetch" PROVE committed[t] \cap stage = {}
      BY <2>1 DEF DqInv, DqHead, DqAlone
    <2> QED BY <1>3, <2>1 DEF DqInv, DqHead, Oldest
  <1>8. DqSnaps'
    BY DEF DqInv, DqSnaps, Oldest
  <1>9. DqOnce'
    <2>1. \A w : DqHandled(w) => DqHandled(w)'
      BY <1>2, <1>4 DEF DqHandled
    <2> QED BY <2>1 DEF DqInv, DqOnce
  <1>10. NothingLost'
    BY <1>1 DEF DqInv, NothingLost
  <1> QED BY <1>5, <1>6, <1>7, <1>8, <1>9, <1>10

\* If no thread starts, no instance comes alive.
LEMMA DqLiveShrinks ==
    ASSUME \A t \in Threads : pc[t] = "off" => pc'[t] = "off"
    PROVE  Live(pc') \subseteq Live(pc)
  BY DEF Live, Worker, Stopper, Threads

\* Calls around the drain touch neither stage nor tables, and a second live instance is recorded as a twin.
LEMMA DqCallsAlone ==
    ASSUME DqInv, GetWriter \/ StartWorker \/ Deadline \/ \E v \in Writers : WorkerLoop(v) \/ Stop(v) \/ StopStep(v) \/ Refill(v)
    PROVE  /\ DqAlone' /\ (twin => twin')
           /\ UNCHANGED <<stage, landed, snap, last, batch, todo, committed, cut, refused>>
           /\ \A t \in Threads : pc'[t] = pc[t] \/ (pc[t] \notin DqInside /\ pc'[t] \notin DqInside)
  <1>1. /\ TypeOK /\ DqAlone
        /\ pc \in [Threads -> {"off", "loop", "flush", "fetch", "group", "postgres", "join", "drain", "compare"}]
    BY DEF DqInv, TypeOK
  <1>2. UNCHANGED <<stage, landed, snap, last, batch, todo, committed, cut, refused, lock>>
    BY DEF GetWriter, StartWorker, Deadline, WorkerLoop, Stop, StopStep, Join, Drain, Refill, tables, thread, history
  <1>3. \A v \in Writers : Worker(v) \in Threads /\ Stopper(v) \in Threads
    BY DEF Threads, Worker, Stopper
  <1> DEFINE Moved == \A t \in Threads : pc'[t] = pc[t] \/ (pc[t] \notin DqInside /\ pc'[t] \notin DqInside)
             Single == ~twin' => \A v, u \in Live(pc') : v = u
             Held == producer' # "idle" => holds' \in Writers /\ last' < N
  <1>4. CASE GetWriter
    <2>1. UNCHANGED <<pc, twin>> /\ last < N /\ holds' \in Writers
      BY <1>1, <1>4 DEF GetWriter, thread, history, TypeOK
    <2> QED BY <1>1, <1>2, <2>1 DEF DqAlone
  <1>5. CASE StartWorker
    <2>1. holds \in Writers /\ last < N /\ UNCHANGED holds
      BY <1>1, <1>5 DEF StartWorker, DqAlone
    <2>2. CASE Running(holds)
      <3>1. UNCHANGED <<pc, twin>>
        BY <1>5, <2>2 DEF StartWorker
      <3> QED BY <1>1, <1>2, <2>1, <3>1 DEF DqAlone
    <2>3. CASE ~Running(holds)
      <3>1. pc' = [pc EXCEPT ![Worker(holds)] = "loop"] /\ twin' = Twin(pc') /\ pc[Worker(holds)] = "off"
        BY <1>5, <2>3 DEF StartWorker, Running
      <3>2. Moved
        BY <1>1, <1>3, <2>1, <3>1 DEF DqInside
      <3>3. Single /\ (twin => twin')
        BY <3>1 DEF Twin
      <3> QED BY <1>1, <1>2, <2>1, <3>2, <3>3 DEF DqAlone
    <2> QED BY <2>2, <2>3
  <1>6. CASE Deadline
    <2>1. UNCHANGED <<pc, twin, producer, holds>>
      BY <1>6 DEF Deadline, thread, history, call
    <2> QED BY <1>1, <1>2, <2>1 DEF DqAlone
  <1>7. ASSUME NEW v \in Writers, Stop(v) PROVE Moved /\ Single /\ Held /\ (twin => twin')
    <2>1. /\ pc' = [pc EXCEPT ![Stopper(v)] = "join"] /\ twin' = Twin(pc') /\ pc[Stopper(v)] = "off"
          /\ UNCHANGED <<producer, holds>>
      BY <1>7 DEF Stop, call
    <2>2. Moved
      BY <1>1, <1>3, <2>1 DEF DqInside
    <2>3. Single /\ (twin => twin')
      BY <2>1 DEF Twin
    <2> QED BY <1>1, <1>2, <2>1, <2>2, <2>3 DEF DqAlone
  <1>8. ASSUME NEW v \in Writers, WorkerLoop(v) \/ StopStep(v) \/ Refill(v) PROVE Moved /\ Single /\ Held /\ (twin => twin')
    <2>1. UNCHANGED <<twin, producer, holds>>
      BY <1>8 DEF WorkerLoop, StopStep, Join, Drain, Refill, history, call
    <2>2. Moved /\ \A t \in Threads : pc[t] = "off" => pc'[t] = "off"
      <3>1. CASE WorkerLoop(v)
        BY <1>1, <1>3, <3>1 DEF WorkerLoop, DqInside
      <3>2. CASE StopStep(v)
        BY <1>1, <1>3, <3>2 DEF StopStep, Join, Drain, Finished, DqInside
      <3>3. CASE Refill(v)
        BY <3>3 DEF Refill, thread
      <3> QED BY <1>8, <3>1, <3>2, <3>3
    <2>3. Live(pc') \subseteq Live(pc)
      BY <2>2, DqLiveShrinks
    <2> QED BY <1>1, <1>2, <2>1, <2>2, <2>3 DEF DqAlone
  <1>9. ASSUME Moved, Single, Held PROVE DqAlone'
    BY <1>1, <1>2, <1>9 DEF DqAlone
  <1> QED BY <1>2, <1>4, <1>5, <1>6, <1>7, <1>8, <1>9

LEMMA DqCallStep ==
    ASSUME DqInv, GetWriter \/ StartWorker \/ Deadline \/ \E v \in Writers : WorkerLoop(v) \/ Stop(v) \/ StopStep(v) \/ Refill(v)
    PROVE  DqInv' /\ UNCHANGED snap
  <1>1. TypeOK'
    BY DqTypeCalls DEF DqInv, Produce
  <1>2. /\ DqAlone' /\ (twin => twin')
        /\ UNCHANGED <<stage, landed, snap, last, batch, todo, committed, cut, refused>>
        /\ \A t \in Threads : pc'[t] = pc[t] \/ (pc[t] \notin DqInside /\ pc'[t] \notin DqInside)
    BY DqCallsAlone
  <1>3. \A t \in Threads : pc'[t] = pc[t] \/ (pc[t] \notin DqInside /\ pc'[t] \notin {"group", "postgres"})
    BY <1>2 DEF DqInside
  <1>4. DqKnown' /\ DqWhole' /\ DqHead' /\ DqSnaps' /\ DqOnce' /\ NothingLost'
    BY <1>2, <1>3, DqQuiet
  <1> QED BY <1>1, <1>2, <1>4 DEF DqInv

LEMMA DqEnqueueStep ==
    ASSUME DqInv, Enqueue
    PROVE  DqInv' /\ UNCHANGED snap
  <1>1. TypeOK /\ DqAlone /\ DqKnown /\ DqWhole /\ DqHead /\ DqSnaps /\ DqOnce /\ NothingLost /\ TypeOK'
    BY DqTypeCalls DEF DqInv, Produce
  <1>2. /\ last' = last + 1 /\ stage' = stage \cup {last + 1} /\ producer' = "idle"
        /\ UNCHANGED <<landed, snap, lock, pc, batch, todo, committed, twin, cut, refused>>
    BY DEF Enqueue, thread, history
  <1>3. last \in Nat /\ stage \in SUBSET Writes /\ stage' \in SUBSET Writes /\ N \in Nat /\ \A u \in stage : u \in Nat /\ u <= last
    BY <1>1, DbQueueAssumption DEF TypeOK, DqKnown, Writes
  <1>4. \A w \in Oldest(stage) : w \in Oldest(stage')
    <2> SUFFICES ASSUME NEW w \in Oldest(stage) PROVE w \in Oldest(stage')
      OBVIOUS
    <2>1. w \in stage' /\ w \in stage
      BY <1>2 DEF Oldest
    <2>2. \A u \in stage' : u < w => u \in stage
      BY <1>2, <1>3, <2>1
    <2> QED BY <1>3, <2>1, <2>2, DqOldestStays
  <1>5. (\A w : Stored(w)' <=> Stored(w)) /\ \A t \in Threads : Group(t)' = Group(t)
    BY <1>2 DEF Stored, Group
  <1>6. DqAlone'
    BY <1>1, <1>2 DEF DqAlone
  <1>7. DqKnown'
    <2>1. \A n : n \in 1..last => n \in 1..last'
      BY <1>2, <1>3
    <2>2. \A w \in Writes : landed[w] > 0 => w <= last'
      BY <1>1, <1>2, <1>3 DEF DqKnown, Writes
    <2>3. \A g \in Snapshot : snap[g] <= last'
      BY <1>1, <1>2, <1>3, DbQueueAssumption DEF DqKnown, TypeOK
    <2>4. stage' \subseteq 1..last'
      <3>1. \A u \in stage : u \in 1..last
        BY <1>1 DEF DqKnown
      <3>2. last + 1 \in 1..last'
        BY <1>2, <1>3
      <3> QED BY <1>2, <2>1, <3>1, <3>2
    <2> QED BY <1>1, <1>2, <2>1, <2>2, <2>3, <2>4 DEF DqKnown
  <1>8. DqWhole'
    BY <1>1, <1>2, <1>5 DEF DqWhole
  <1>9. \A g \in Snapshot : snap[g] \in stage' => snap[g] \in stage
    BY <1>1, <1>2, <1>3, DbQueueAssumption DEF DqKnown, TypeOK
  <1>10. DqHead'
    <2> SUFFICES ASSUME ~twin, NEW t \in Threads
                 PROVE  /\ pc[t] \in {"group", "postgres"} =>
                             /\ batch[t] \subseteq Oldest(stage')
                             /\ \A u \in stage', w \in batch[t] : u < w => u \in batch[t]
                             /\ \A g \in Snapshot : snap[g] \in stage' => snap[g] \in batch[t]
                        /\ pc[t] = "fetch" => committed[t] \cap stage' = {}
      BY <1>2 DEF DqHead
    <2>1. batch[t] \subseteq 1..last /\ committed[t] \subseteq 1..last
      BY <1>1 DEF DqKnown, DqWhole
    <2>2. last + 1 \notin committed[t] /\ \A w \in batch[t] : ~(last + 1 < w)
      BY <1>3, <2>1
    <2> QED BY <1>1, <1>2, <1>4, <1>9, <2>2 DEF DqHead
  <1>11. DqSnaps'
    <2> SUFFICES ASSUME ~twin, NEW g \in Snapshot
                 PROVE  /\ snap[g] \in stage' => snap[g] \in Oldest(stage')
                        /\ snap[g] \notin stage' => \A u \in stage' : GroupOf[u] = g => u > snap[g]
      BY <1>2 DEF DqSnaps
    <2>1. snap[g] \in Nat /\ snap[g] <= last
      BY <1>1, DbQueueAssumption DEF TypeOK, DqKnown
    <2> QED BY <1>1, <1>2, <1>3, <1>4, <1>9, <2>1 DEF DqSnaps
  <1>12. DqOnce'
    <2>1. \A w : DqHandled(w) => DqHandled(w)'
      BY <1>2, <1>5 DEF DqHandled
    <2>2. \A w \in Writes : landed[w] = 1 /\ w \in stage' => w \in stage
      BY <1>1, <1>2, <1>3 DEF DqKnown
    <2> QED BY <1>1, <1>2, <2>1, <2>2 DEF DqOnce
  <1>13. NothingLost'
    <2>1. \A w \in (Restored + 1)..last' : w = last + 1 \/ w \in (Restored + 1)..last
      BY <1>2, <1>3, DbQueueAssumption
    <2> QED BY <1>1, <1>2, <1>5, <2>1 DEF NothingLost
  <1> QED BY <1>1, <1>2, <1>6, <1>7, <1>8, <1>10, <1>11, <1>12, <1>13 DEF DqInv

\* What a step of a drain does to the threads.
LEMMA DqOneMoves ==
    ASSUME DqInv, NEW t \in Threads, Flush(t)
    PROVE  /\ UNCHANGED <<last, twin, producer, holds>> /\ (cut => cut') /\ (refused => refused')
           /\ \A s \in Threads \ {t} : /\ pc'[s] = pc[s] /\ todo'[s] = todo[s]
                                       /\ committed'[s] = committed[s] /\ batch'[s] = batch[s]
           /\ \A v \in Writers \ {t[1]} : lock'[v] = lock[v]
           /\ \/ /\ pc[t] \in DqInside /\ pc'[t] \notin DqInside
                 /\ lock'[t[1]] = NoThread /\ todo'[t] = {} /\ committed'[t] = {}
              \/ pc[t] \in DqInside /\ pc'[t] \in DqInside /\ lock'[t[1]] = lock[t[1]]
              \/ pc[t] = "flush" /\ pc'[t] = "fetch" /\ lock[t[1]] = NoThread /\ lock'[t[1]] = t
  <1> DEFINE Others == \A s \in Threads \ {t} : /\ pc'[s] = pc[s] /\ todo'[s] = todo[s]
                                                /\ committed'[s] = committed[s] /\ batch'[s] = batch[s]
             Locks == \A v \in Writers \ {t[1]} : lock'[v] = lock[v]
             Left == /\ pc[t] \in DqInside /\ pc'[t] \notin DqInside
                     /\ lock'[t[1]] = NoThread /\ todo'[t] = {} /\ committed'[t] = {}
             Stayed == pc[t] \in DqInside /\ pc'[t] \in DqInside /\ lock'[t[1]] = lock[t[1]]
  <1>1. DqThreadTypes /\ t[1] \in Writers
    BY DEF DqInv, TypeOK, DqThreadTypes, Threads
  <1>2. UNCHANGED <<last, twin, producer, holds>> /\ (cut => cut') /\ (refused => refused')
    BY DEF Flush, TakeLock, Throttled, Fetch, GroupRaises, PersistGroup, Replicate, Uncommitted, DeleteRows, history, call
  <1>3. ASSUME NEW place \in {"off", After(t)}, Leave(t, place), pc[t] \in DqInside PROVE Others /\ Locks /\ Left
    <2>1. place \notin DqInside
      BY DEF After, DqInside
    <2> QED BY <1>1, <1>3, <2>1 DEF DqThreadTypes, Leave
  <1>4. CASE Throttled(t) \/ Uncommitted(t)
    BY <1>2, <1>3, <1>4 DEF Throttled, Uncommitted, DqInside
  <1>5. CASE Fetch(t)
    <2>1. CASE \E place \in {"off", After(t)} : Leave(t, place)
      BY <1>2, <1>3, <1>5, <2>1 DEF Fetch, DqInside
    <2>2. CASE ~ \E place \in {"off", After(t)} : Leave(t, place)
      <3>1. Others /\ Locks /\ Stayed
        BY <1>1, <1>5, <2>2 DEF Fetch, DqThreadTypes, DqInside
      <3> QED BY <1>2, <3>1
    <2> QED BY <1>2, <2>1, <2>2
  <1>6. CASE DeleteRows(t)
    <2>1. CASE Leave(t, After(t))
      BY <1>2, <1>3, <1>6, <2>1 DEF DeleteRows, DqInside
    <2>2. CASE ~Leave(t, After(t))
      <3>1. Others /\ Locks /\ Stayed
        BY <1>1, <1>6, <2>2 DEF DeleteRows, DqThreadTypes, DqInside
      <3> QED BY <1>2, <3>1
    <2> QED BY <1>2, <2>1, <2>2
  <1>7. CASE GroupRaises(t) \/ PersistGroup(t) \/ Replicate(t)
    <2>1. Others /\ Locks /\ Stayed
      BY <1>1, <1>7 DEF GroupRaises, PersistGroup, Replicate, DqThreadTypes, DqInside
    <2> QED BY <1>2, <2>1
  <1>8. CASE TakeLock(t)
    <2>1. Others /\ Locks /\ pc[t] = "flush" /\ pc'[t] = "fetch" /\ lock[t[1]] = NoThread /\ lock'[t[1]] = t
      BY <1>1, <1>8 DEF TakeLock, LockFree, DqThreadTypes
    <2> QED BY <1>2, <2>1
  <1> QED BY <1>2, <1>4, <1>5, <1>6, <1>7, <1>8 DEF Flush

\* A drain keeps to its flush lock.
LEMMA DqDrainAlone ==
    ASSUME DqInv, NEW t \in Threads, Flush(t)
    PROVE  DqAlone'
  <1>1. DqAlone /\ t[1] \in Writers /\ NoThread \notin Threads
    BY DEF DqInv, Threads, NoThread
  <1>2. /\ UNCHANGED <<last, twin, producer, holds>>
        /\ \A s \in Threads \ {t} : pc'[s] = pc[s] /\ todo'[s] = todo[s] /\ committed'[s] = committed[s]
        /\ \A v \in Writers \ {t[1]} : lock'[v] = lock[v]
        /\ \/ /\ pc[t] \in DqInside /\ pc'[t] \notin DqInside
              /\ lock'[t[1]] = NoThread /\ todo'[t] = {} /\ committed'[t] = {}
           \/ pc[t] \in DqInside /\ pc'[t] \in DqInside /\ lock'[t[1]] = lock[t[1]]
           \/ pc[t] = "flush" /\ pc'[t] = "fetch" /\ lock[t[1]] = NoThread /\ lock'[t[1]] = t
    BY DqOneMoves
  <1>3. ASSUME NEW s \in Threads, pc'[s] \in DqInside PROVE lock'[s[1]] = s
    <2>1. s[1] \in Writers
      BY DEF Threads
    <2>2. CASE s = t
      BY <1>1, <1>2, <1>3, <2>2 DEF DqAlone
    <2>3. CASE s # t
      <3>1. lock[s[1]] = s /\ s # NoThread
        BY <1>1, <1>2, <1>3, <2>3 DEF DqAlone
      <3>2. pc[t] \in DqInside => lock[t[1]] = t
        BY <1>1 DEF DqAlone
      <3>3. s[1] # t[1]
        BY <1>2, <2>3, <3>1, <3>2
      <3> QED BY <1>2, <2>1, <3>1, <3>3
    <2> QED BY <2>2, <2>3
  <1>4. ASSUME NEW s \in Threads, pc'[s] \notin DqInside PROVE todo'[s] = {} /\ committed'[s] = {}
    <2>1. CASE s = t
      <3>1. "fetch" \in DqInside
        BY DEF DqInside
      <3> QED BY <1>2, <1>4, <2>1, <3>1
    <2>2. CASE s # t
      BY <1>1, <1>2, <1>4, <2>2 DEF DqAlone
    <2> QED BY <2>1, <2>2
  <1>5. Live(pc') \subseteq Live(pc)
    <2>1. pc[t] # "off"
      BY <1>2 DEF DqInside
    <2>2. \A s \in Threads : pc[s] = "off" => pc'[s] = "off"
      BY <1>2, <2>1
    <2> QED BY <2>2, DqLiveShrinks
  <1> QED BY <1>1, <1>2, <1>3, <1>4, <1>5 DEF DqAlone

\* The committed rows of a batch are deleted.
LEMMA DqShrinks ==
    ASSUME DqInv, NEW t \in Threads, pc[t] = "group", stage' = stage \ committed[t], UNCHANGED <<landed, snap, last, twin>>
    PROVE  DqSnaps' /\ NothingLost'
  <1>1. TypeOK /\ DqWhole /\ DqHead /\ DqSnaps /\ NothingLost /\ DqKnown
    BY DEF DqInv
  <1>2. stage \in SUBSET Writes /\ stage' \in SUBSET Writes /\ stage \subseteq Nat
    <2>1. Writes \subseteq Nat
      BY DbQueueAssumption DEF Writes
    <2> QED BY <1>1, <2>1 DEF TypeOK
  <1>3. NothingLost'
    <2>1. \A w : Stored(w)' <=> Stored(w)
      BY DEF Stored
    <2> QED BY <1>1, <2>1 DEF NothingLost, DqWhole
  <1>4. DqSnaps'
    <2> SUFFICES ASSUME ~twin, NEW g \in Snapshot
                 PROVE  /\ snap[g] \in stage' => snap[g] \in Oldest(stage')
                        /\ snap[g] \notin stage' => \A u \in stage' : GroupOf[u] = g => u > snap[g]
      BY DEF DqSnaps
    <2>1. snap[g] \in Nat /\ (snap[g] # 0 => GroupOf[snap[g]] = g)
      BY <1>1, DbQueueAssumption DEF TypeOK, DqKnown
    <2>2. ASSUME snap[g] \in stage' PROVE snap[g] \in Oldest(stage')
      <3>1. snap[g] \in Oldest(stage) /\ \A u \in stage' : u \in stage
        BY <1>1, <2>2 DEF DqSnaps
      <3> QED BY <1>2, <2>2, <3>1, DqOldestStays
    <2>3. ASSUME snap[g] \notin stage', NEW u \in stage', GroupOf[u] = g PROVE u > snap[g]
      <3>1. CASE snap[g] \notin stage
        BY <1>1, <2>3, <3>1 DEF DqSnaps
      <3>2. CASE snap[g] \in stage
        <4>1. snap[g] \in committed[t] /\ snap[g] \in batch[t] /\ u \in stage /\ u \notin committed[t] /\ u # snap[g]
          BY <1>1, <2>3, <3>2 DEF DqWhole
        <4>2. GroupOf[snap[g]] = g
          BY <1>2, <2>1, <3>2, DbQueueAssumption, <1>1 DEF TypeOK, Writes
        <4>3. u < snap[g] => u \in batch[t]
          BY <1>1, <4>1 DEF DqHead
        <4>4. u \notin batch[t]
          BY <1>1, <2>3, <4>1, <4>2 DEF DqWhole
        <4>5. u \in Nat /\ u # snap[g] /\ ~(u < snap[g])
          BY <1>2, <4>1, <4>3, <4>4
        <4> QED BY <2>1, <4>5
      <3> QED BY <3>1, <3>2
    <2> QED BY <2>2, <2>3
  <1> QED BY <1>3, <1>4

\* A thread leaves its drain.
LEMMA DqLeft ==
    ASSUME DqInv, NEW t \in Threads, pc[t] \in {"fetch", "group"}, NEW place \in {"off", After(t)}, Leave(t, place),
           UNCHANGED <<landed, snap, last, twin, refused>>, cut => cut',
           \/ stage' = stage /\ (pc[t] = "fetch" \/ committed[t] = {} \/ cut')
           \/ stage' = stage \ committed[t] /\ pc[t] = "group"
    PROVE  DqKnown' /\ DqWhole' /\ DqHead' /\ DqSnaps' /\ DqOnce' /\ NothingLost'
  <1>1. TypeOK /\ DqAlone /\ DqWhole /\ DqHead /\ DqSnaps /\ DqOnce /\ NothingLost /\ DqKnown
    BY DEF DqInv
  <1>2. place \notin DqInside /\ pc[t] \in DqInside
    BY DEF After, DqInside
  <1>3. /\ pc' = [pc EXCEPT ![t] = place] /\ batch' = [batch EXCEPT ![t] = {}]
        /\ todo' = [todo EXCEPT ![t] = {}] /\ committed' = [committed EXCEPT ![t] = {}]
    BY DEF Leave
  <1>4. /\ pc'[t] = place /\ batch'[t] = {} /\ todo'[t] = {} /\ committed'[t] = {}
        /\ \A s \in Threads \ {t} : /\ pc'[s] = pc[s] /\ todo'[s] = todo[s]
                                    /\ committed'[s] = committed[s] /\ batch'[s] = batch[s]
    BY <1>1, <1>3 DEF TypeOK
  <1>5. (\A w : Stored(w)' <=> Stored(w)) /\ \A s \in Threads \ {t} : Group(s)' = Group(s)
    BY <1>4 DEF Stored, Group
  <1>6. DqKnown'
    BY <1>1, <1>4 DEF DqKnown
  <1>7. DqWhole'
    <2>1. pc'[t] # "postgres"
      BY <1>2, <1>4 DEF DqInside
    <2> QED BY <1>1, <1>4, <1>5, <2>1 DEF DqWhole
  <1>8. DqHead'
    <2>1. ~twin => \A s \in Threads : pc'[s] \notin DqInside
      <3> SUFFICES ASSUME ~twin, NEW s \in Threads, pc'[s] \in DqInside PROVE FALSE
        OBVIOUS
      <3>1. s # t /\ pc[s] \in DqInside
        BY <1>2, <1>4
      <3> QED BY <1>1, <1>2, <3>1, DqOneInside
    <2> QED BY <2>1 DEF DqHead, DqInside
  <1>9. DqSnaps' /\ NothingLost'
    <2>1. CASE stage' = stage
      BY <1>1, <1>5, <2>1 DEF DqSnaps, Oldest, NothingLost
    <2>2. CASE stage' = stage \ committed[t] /\ pc[t] = "group"
      BY <2>2, DqShrinks
    <2> QED BY <2>1, <2>2
  <1>10. DqOnce'
    <2> SUFFICES ASSUME ~(twin \/ cut' \/ refused), NEW w \in Writes, GroupOf[w] \notin Piecewise
                 PROVE  landed[w] <= 1 /\ ~(landed[w] = 1 /\ w \in stage')
      BY DEF DqOnce
    <2>1. landed[w] <= 1 /\ (landed[w] = 1 /\ w \in stage => DqHandled(w))
      BY <1>1 DEF DqOnce
    <2>2. ASSUME landed[w] = 1, w \in stage' PROVE FALSE
      <3>1. w \in stage
        BY <2>2
      <3>2. PICK s \in Threads : w \in committed[s] \/ pc[s] = "postgres"
        BY <2>1, <2>2, <3>1 DEF DqHandled
      <3>3. pc[s] \in DqInside
        BY <1>1, <3>2 DEF DqAlone, DqInside
      <3>4. s = t
        BY <1>1, <1>2, <3>3, DqOneInside
      <3>5. w \in committed[t]
        BY <3>2, <3>4
      <3>6. pc[t] = "fetch" => committed[t] \cap stage = {}
        BY <1>1 DEF DqHead
      <3> QED BY <2>2, <3>1, <3>5, <3>6
    <2> QED BY <2>1, <2>2
  <1> QED BY <1>6, <1>7, <1>8, <1>9, <1>10

\* The next group of a batch is whole.
LEMMA DqGroup ==
    ASSUME DqInv, NEW t \in Threads, todo[t] # {}
    PROVE  LET g == GroupOf[Least(todo[t])]
           IN /\ g \in Groups /\ Group(t) # {} /\ Group(t) \subseteq todo[t] /\ todo[t] \subseteq batch[t]
              /\ Group(t) \in SUBSET Writes
              /\ \A w \in Group(t) : GroupOf[w] = g
              /\ \A w, u \in batch[t] : GroupOf[w] = GroupOf[u] => (w \in Group(t) <=> u \in Group(t))
  <1>1. todo[t] \in SUBSET Writes /\ todo[t] \subseteq batch[t]
    BY DEF DqInv, TypeOK, DqWhole
  <1>2. Least(todo[t]) \in todo[t]
    BY <1>1, DqLeast
  <1>3. GroupOf[Least(todo[t])] \in Groups
    BY <1>1, <1>2, DbQueueAssumption
  <1>4. \A w, u \in batch[t] : GroupOf[w] = GroupOf[u] => (w \in todo[t] <=> u \in todo[t])
    BY DEF DqInv, DqWhole
  <1> QED BY <1>1, <1>2, <1>3, <1>4 DEF Group

\* An append puts each row once more into its table.
LEMMA DqAppends ==
    ASSUME TypeOK, NEW rows, Append(rows)
    PROVE  \A w \in Writes : /\ landed'[w] >= landed[w] /\ landed'[w] <= landed[w] + 1 /\ landed[w] \in 0..2
                             /\ (w \notin rows => landed'[w] = landed[w]) /\ (w \in rows => landed'[w] > 0)
  BY DEF Append, TypeOK

\* A step on the next group of a batch: it leaves the list, committed (C) or not.
LEMMA DqWorkedOff ==
    ASSUME DqInv, TypeOK', NEW t \in Threads, todo[t] # {}, NEW C \in {{}, Group(t)}, batch' = batch, twin' = twin,
           todo' = [todo EXCEPT ![t] = @ \ Group(t)], committed' = [committed EXCEPT ![t] = @ \cup C],
           pc'[t] = "group", \A s \in Threads \ {t} : pc'[s] = pc[s],
           \A w \in Writes : landed'[w] >= landed[w],
           \A w \in Writes : Stored(w) \/ twin => Stored(w)' \/ twin, \A w \in C : Stored(w)' \/ twin
    PROVE  DqWhole'
  <1>1. TypeOK /\ DqWhole
    BY DEF DqInv
  <1>2. /\ Group(t) \subseteq todo[t] /\ todo[t] \subseteq batch[t]
        /\ \A w, u \in batch[t] : GroupOf[w] = GroupOf[u] => (w \in Group(t) <=> u \in Group(t))
    BY DqGroup
  <1>3. /\ todo'[t] = todo[t] \ Group(t) /\ committed'[t] = committed[t] \cup C /\ batch'[t] = batch[t]
        /\ \A s \in Threads \ {t} : todo'[s] = todo[s] /\ committed'[s] = committed[s] /\ batch'[s] = batch[s] /\ Group(s)' = Group(s)
    BY <1>1 DEF TypeOK, Group
  <1>4. ASSUME NEW s \in Threads, s # t
        PROVE  /\ todo'[s] \subseteq batch'[s] /\ committed'[s] \subseteq batch'[s] /\ todo'[s] \cap committed'[s] = {}
               /\ \A w, u \in batch'[s] : GroupOf[w] = GroupOf[u] =>
                    (w \in todo'[s] <=> u \in todo'[s]) /\ (w \in committed'[s] <=> u \in committed'[s])
               /\ \A w \in committed'[s] : Stored(w)' \/ twin'
               /\ pc'[s] = "postgres" => todo'[s] # {} /\ \A w \in Group(s)' : GroupOf[w] \notin Snapshot /\ landed'[w] > 0
    <2>1. \A w \in committed[s] : w \in Writes
      BY <1>1 DEF TypeOK
    <2>2. \A w \in Group(s) : w \in Writes /\ landed'[w] \in Int /\ landed[w] \in Int
      <3>1. \A w \in Group(s) : w \in Writes /\ landed[w] \in Int
        BY <1>1 DEF TypeOK, Group
      <3> QED BY <3>1 DEF TypeOK
    <2> QED BY <1>1, <1>3, <1>4, <2>1, <2>2 DEF DqWhole
  <1>5. /\ todo'[t] \subseteq batch'[t] /\ committed'[t] \subseteq batch'[t] /\ todo'[t] \cap committed'[t] = {}
        /\ \A w, u \in batch'[t] : GroupOf[w] = GroupOf[u] =>
             (w \in todo'[t] <=> u \in todo'[t]) /\ (w \in committed'[t] <=> u \in committed'[t])
        /\ \A w \in committed'[t] : Stored(w)' \/ twin'
    <2>1. \A w \in committed[t] : w \in Writes
      BY <1>1 DEF TypeOK
    <2> QED BY <1>1, <1>2, <1>3, <2>1 DEF DqWhole
  <1> QED BY <1>4, <1>5 DEF DqWhole

\* A step on a batch that leaves the stage alone.
LEMMA DqHeadStays ==
    ASSUME DqInv, NEW t \in Threads, pc[t] \in {"group", "postgres"}, pc'[t] \in {"group", "postgres"},
           \A s \in Threads \ {t} : pc'[s] = pc[s], UNCHANGED <<stage, batch, twin>>,
           \A g \in Snapshot : snap'[g] = snap[g] \/ snap'[g] \in batch[t]
    PROVE  DqHead' /\ DqSnaps'
  <1> SUFFICES ASSUME ~twin PROVE DqHead' /\ DqSnaps'
    BY DEF DqHead, DqSnaps
  <1>1. DqAlone /\ DqHead /\ DqSnaps
    BY DEF DqInv
  <1>2. ASSUME NEW s \in Threads, pc'[s] \in DqInside PROVE s = t
    <2>1. s # t => pc[s] \in DqInside /\ pc[t] \in DqInside
      BY <1>2 DEF DqInside
    <2> QED BY <1>1, <2>1, DqOneInside
  <1>3. /\ batch[t] \subseteq Oldest(stage) /\ \A u \in stage, w \in batch[t] : u < w => u \in batch[t]
        /\ \A g \in Snapshot : snap[g] \in stage => snap[g] \in batch[t]
    BY <1>1 DEF DqHead
  <1>4. DqHead'
    <2>1. \A s \in Threads : pc'[s] \in {"fetch", "group", "postgres"} => s = t
      BY <1>2 DEF DqInside
    <2> QED BY <1>3, <2>1 DEF DqHead
  <1>5. DqSnaps'
    <2>1. batch[t] \subseteq stage
      BY <1>3 DEF Oldest
    <2> QED BY <1>1, <1>3, <2>1 DEF DqSnaps
  <1> QED BY <1>4, <1>5

LEMMA DqFetchStep ==
    ASSUME DqInv, NEW t \in Threads, Fetch(t)
    PROVE  DqInv' /\ UNCHANGED snap
  <1>1. TypeOK /\ DqAlone /\ DqWhole /\ DqHead /\ DqSnaps /\ DqOnce /\ NothingLost /\ DqKnown
    BY DEF DqInv
  <1>2. TypeOK' /\ DqAlone'
    BY <1>1, DqTypeDrain, DqDrainAlone DEF Flush
  <1>3. UNCHANGED <<stage, landed, snap, last, twin, cut, refused>> /\ pc[t] = "fetch" /\ pc[t] \in DqInside
    BY DEF Fetch, tables, history, DqInside
  <1>4. CASE \E place \in {"off", After(t)} : Leave(t, place)
    <2>1. PICK place \in {"off", After(t)} : Leave(t, place)
      BY <1>4
    <2>2. DqKnown' /\ DqWhole' /\ DqHead' /\ DqSnaps' /\ DqOnce' /\ NothingLost'
      BY <1>3, <2>1, DqLeft
    <2> QED BY <1>2, <1>3, <2>2 DEF DqInv
  <1>5. CASE ~ \E place \in {"off", After(t)} : Leave(t, place)
    <2> DEFINE rows == Oldest(stage)
    <2>1. /\ batch' = [batch EXCEPT ![t] = rows] /\ todo' = [todo EXCEPT ![t] = rows]
          /\ committed' = [committed EXCEPT ![t] = {}] /\ pc' = [pc EXCEPT ![t] = "group"]
      BY <1>5 DEF Fetch
    <2>2. rows \subseteq stage /\ stage \in SUBSET Writes
      BY <1>1 DEF Oldest, TypeOK
    <2>3. /\ pc'[t] = "group" /\ batch'[t] = rows /\ todo'[t] = rows /\ committed'[t] = {}
          /\ \A s \in Threads \ {t} : /\ pc'[s] = pc[s] /\ todo'[s] = todo[s]
                                      /\ committed'[s] = committed[s] /\ batch'[s] = batch[s]
      BY <1>1, <2>1 DEF TypeOK
    <2>4. (\A w : Stored(w)' <=> Stored(w)) /\ \A s \in Threads \ {t} : Group(s)' = Group(s)
      BY <1>3, <2>3 DEF Stored, Group
    <2>5. DqKnown'
      BY <1>1, <1>3, <2>2, <2>3 DEF DqKnown
    <2>6. DqWhole'
      BY <1>1, <1>3, <2>3, <2>4 DEF DqWhole
    <2>7. ASSUME ~twin, NEW s \in Threads, pc[s] \in DqInside PROVE s = t
      BY <1>1, <1>3, <2>7, DqOneInside
    <2>8. DqHead'
      <3> SUFFICES ASSUME ~twin PROVE DqHead'
        BY <1>3 DEF DqHead
      <3>1. \A s \in Threads : pc'[s] \in {"fetch", "group", "postgres"} => s = t
        BY <2>3, <2>7 DEF DqInside
      <3>2. \A u \in stage, w \in rows : u < w => u \in rows
        BY <2>2, DqOldestHead
      <3>3. \A g \in Snapshot : snap[g] \in stage => snap[g] \in rows
        BY <1>1 DEF DqSnaps
      <3> QED BY <1>3, <2>3, <3>1, <3>2, <3>3 DEF DqHead
    <2>9. DqSnaps' /\ NothingLost'
      BY <1>1, <1>3, <2>4 DEF DqSnaps, Oldest, NothingLost
    <2>10. DqOnce'
      <3> SUFFICES ASSUME ~(twin \/ cut \/ refused), NEW w \in Writes, GroupOf[w] \notin Piecewise
                   PROVE  landed[w] <= 1 /\ ~(landed[w] = 1 /\ w \in stage)
        BY <1>3 DEF DqOnce
      <3>1. landed[w] <= 1 /\ (landed[w] = 1 /\ w \in stage => DqHandled(w))
        BY <1>1 DEF DqOnce
      <3>2. ASSUME landed[w] = 1, w \in stage PROVE FALSE
        <4>1. PICK s \in Threads : w \in committed[s] \/ pc[s] = "postgres"
          BY <3>1, <3>2 DEF DqHandled
        <4>2. pc[s] \in DqInside
          BY <1>1, <4>1 DEF DqAlone, DqInside
        <4>3. s = t
          BY <2>7, <4>2
        <4>4. committed[t] \cap stage = {}
          BY <1>1, <1>3 DEF DqHead
        <4> QED BY <1>3, <3>2, <4>1, <4>3, <4>4
      <3> QED BY <3>1, <3>2
    <2> QED BY <1>2, <1>3, <2>5, <2>6, <2>8, <2>9, <2>10 DEF DqInv
  <1> QED BY <1>4, <1>5

LEMMA DqRaisesStep ==
    ASSUME DqInv, NEW t \in Threads, GroupRaises(t)
    PROVE  DqInv' /\ UNCHANGED snap
  <1> DEFINE g == GroupOf[Least(todo[t])]
  <1>1. TypeOK /\ DqAlone /\ DqWhole /\ DqHead /\ DqSnaps /\ DqOnce /\ NothingLost /\ DqKnown
    BY DEF DqInv
  <1>2. TypeOK' /\ DqAlone'
    BY <1>1, DqTypeDrain, DqDrainAlone DEF Flush
  <1>3. /\ pc[t] = "group" /\ todo[t] # {} /\ todo' = [todo EXCEPT ![t] = @ \ Group(t)]
        /\ UNCHANGED <<stage, snap, last, pc, batch, committed, twin, cut, refused>>
    BY <1>1 DEF GroupRaises, history, Isolated, TypeOK
  <1>4. /\ Group(t) \subseteq todo[t] /\ todo[t] \subseteq batch[t] /\ Group(t) \in SUBSET Writes
        /\ \A w \in Group(t) : GroupOf[w] = g
    BY <1>3, DqGroup
  <1>5. PICK rows \in SUBSET Group(t) : UNCHANGED landed \/ (Append(rows) /\ g \in Piecewise)
    BY DEF GroupRaises
  <1>6. \A w \in Writes : /\ landed'[w] >= landed[w] /\ landed[w] \in 0..2
                          /\ (w \notin rows \/ g \notin Piecewise => landed'[w] = landed[w])
    BY <1>1, <1>5, DqAppends DEF TypeOK
  <1>7. \A w \in Writes : Stored(w) => Stored(w)'
    <2>1. \A w \in Writes : landed[w] > 0 => landed'[w] > 0
      BY <1>2, <1>6 DEF TypeOK
    <2> QED BY <1>3, <2>1 DEF Stored
  <1>8. DqKnown'
    <2>1. \A w \in rows : w \in Writes /\ w <= last
      BY <1>1, <1>4 DEF DqKnown, Writes
    <2>2. \A w \in Writes : landed'[w] > 0 => w <= last
      BY <1>1, <1>6, <2>1 DEF DqKnown
    <2> QED BY <1>1, <1>3, <2>2 DEF DqKnown
  <1>9. DqWhole'
    <2>1. committed' = [committed EXCEPT ![t] = @ \cup {}]
      BY <1>1, <1>3 DEF TypeOK
    <2> QED BY <1>2, <1>3, <1>6, <1>7, <2>1, DqWorkedOff
  <1>10. DqHead' /\ DqSnaps'
    BY <1>3, DqHeadStays
  <1>11. DqOnce'
    <2>1. \A w : DqHandled(w) => DqHandled(w)'
      <3>1. \A s \in Threads : pc[s] = "postgres" => s # t /\ todo'[s] = todo[s]
        BY <1>1, <1>3 DEF TypeOK
      <3>2. \A s \in Threads : pc[s] = "postgres" => Group(s)' = Group(s)
        BY <3>1 DEF Group
      <3> QED BY <1>3, <3>2 DEF DqHandled
    <2>2. \A w \in Writes : GroupOf[w] \notin Piecewise => landed'[w] = landed[w]
      BY <1>4, <1>6
    <2> QED BY <1>1, <1>3, <2>1, <2>2 DEF DqOnce
  <1>12. NothingLost'
    <2>1. (Restored + 1)..last \subseteq Writes
      BY <1>1, DbQueueAssumption DEF TypeOK, Writes
    <2> QED BY <1>1, <1>3, <1>7, <2>1 DEF NothingLost
  <1> QED BY <1>2, <1>3, <1>8, <1>9, <1>10, <1>11, <1>12 DEF DqInv

\* A group of snapshots is persisted: what it writes is no older than what the row held.
LEMMA DqMovesOn ==
    ASSUME DqInv, NEW t \in Threads, PersistGroup(t), ~twin, GroupOf[Least(todo[t])] \in Snapshot
    PROVE  snap[GroupOf[Least(todo[t])]] <= Greatest(Group(t))
  <1> DEFINE g == GroupOf[Least(todo[t])]
             s == snap[g]
             top == Greatest(Group(t))
  <1>1. pc[t] = "group" /\ todo[t] # {}
    BY DEF PersistGroup
  <1>2. /\ Group(t) # {} /\ Group(t) \subseteq todo[t] /\ todo[t] \subseteq batch[t] /\ Group(t) \in SUBSET Writes
        /\ \A w \in Group(t) : GroupOf[w] = g
        /\ \A w, u \in batch[t] : GroupOf[w] = GroupOf[u] => (w \in Group(t) <=> u \in Group(t))
    BY <1>1, DqGroup
  <1>3. top \in Group(t) /\ \A u \in Group(t) : u <= top
    BY <1>2, DqGreatest
  <1>4. batch[t] \subseteq stage /\ (s \in stage => s \in batch[t])
    BY <1>1 DEF DqInv, DqHead, Oldest
  <1>5. s \in Nat /\ (s # 0 => GroupOf[s] = g) /\ top \in Nat
    <2>1. top \in Nat
      BY <1>2, <1>3, DbQueueAssumption DEF Writes
    <2>2. s \in Nat /\ (s # 0 => GroupOf[s] = g)
      BY DbQueueAssumption DEF DqInv, TypeOK, DqKnown
    <2> QED BY <2>1, <2>2
  <1>6. CASE s \in stage
    <2>1. s # 0
      BY <1>6, DbQueueAssumption DEF DqInv, TypeOK, Writes
    <2>2. s \in Group(t)
      <3>1. GroupOf[s] = GroupOf[top] /\ top \in batch[t] /\ s \in batch[t]
        BY <1>2, <1>3, <1>4, <1>5, <1>6, <2>1
      <3> QED BY <1>2, <1>3, <3>1
    <2> QED BY <1>3, <2>2
  <1>7. CASE s \notin stage
    <2>1. top \in stage /\ GroupOf[top] = g
      BY <1>2, <1>3, <1>4
    <2>2. top > s
      BY <1>7, <2>1 DEF DqInv, DqSnaps
    <2> QED BY <1>5, <2>2
  <1> QED BY <1>6, <1>7

LEMMA DqPersistStep ==
    ASSUME DqInv, NEW t \in Threads, PersistGroup(t)
    PROVE  DqInv' /\ \A g \in Snapshot : snap'[g] >= snap[g] \/ twin
  <1> DEFINE g == GroupOf[Least(todo[t])]
             rows == Group(t)
  <1>1. TypeOK /\ DqAlone /\ DqWhole /\ DqHead /\ DqSnaps /\ DqOnce /\ NothingLost /\ DqKnown
    BY DEF DqInv
  <1>2. TypeOK' /\ DqAlone'
    BY <1>1, DqTypeDrain, DqDrainAlone DEF Flush
  <1>3. /\ pc[t] = "group" /\ todo[t] # {} /\ CommitSqlite(rows, g)
        /\ UNCHANGED <<stage, last, batch, twin, cut, refused>>
        /\ \/ /\ g \in Replicated /\ pc' = [pc EXCEPT ![t] = "postgres"] /\ UNCHANGED <<todo, committed>>
           \/ /\ g \notin Replicated /\ todo' = [todo EXCEPT ![t] = @ \ rows]
              /\ committed' = [committed EXCEPT ![t] = @ \cup rows] /\ UNCHANGED pc
    BY DEF PersistGroup, history
  <1>4. /\ g \in Groups /\ rows # {} /\ rows \subseteq todo[t] /\ todo[t] \subseteq batch[t] /\ rows \in SUBSET Writes
        /\ \A w \in rows : GroupOf[w] = g
    BY <1>3, DqGroup
  <1>5. Greatest(rows) \in rows /\ \A u \in rows : u <= Greatest(rows)
    BY <1>4, DqGreatest
  <1>6. /\ pc' \in [Threads -> {"off", "loop", "flush", "fetch", "group", "postgres", "join", "drain", "compare"}]
        /\ pc'[t] \in {"group", "postgres"} /\ \A s \in Threads \ {t} : pc'[s] = pc[s]
    BY <1>1, <1>2, <1>3 DEF TypeOK
  <1>7. /\ g \in Snapshot => snap' = [snap EXCEPT ![g] = Greatest(rows)] /\ UNCHANGED landed
        /\ g \notin Snapshot => Append(rows) /\ UNCHANGED snap
    BY <1>3 DEF CommitSqlite
  <1> HIDE DEF g, rows
  <1>8. \A w \in Writes : /\ landed'[w] >= landed[w] /\ landed[w] \in 0..2 /\ landed'[w] \in 0..2 /\ landed'[w] <= landed[w] + 1
                          /\ (w \notin rows \/ g \in Snapshot => landed'[w] = landed[w])
                          /\ (w \in rows /\ g \notin Snapshot => landed'[w] > 0)
    <2>1. CASE g \in Snapshot
      BY <1>1, <1>7, <2>1 DEF TypeOK
    <2>2. CASE g \notin Snapshot
      BY <1>1, <1>2, <1>7, <2>2, DqAppends DEF TypeOK
    <2> QED BY <2>1, <2>2
  <1>9. \A h \in Snapshot : /\ snap[h] \in Nat /\ snap'[h] \in Nat /\ (snap'[h] >= snap[h] \/ twin)
                            /\ (snap'[h] = snap[h] \/ (h = g /\ snap'[h] = Greatest(rows)))
                            /\ (h = g => snap'[h] = Greatest(rows))
    <2>1. Snapshot \subseteq Groups /\ N \in Nat
      BY DbQueueAssumption
    <2>2. g \in Snapshot => snap[g] <= Greatest(rows) \/ twin
      BY DqMovesOn DEF g, rows
    <2>3. \A h \in Snapshot : snap[h] \in Nat /\ snap'[h] \in Nat
      BY <1>1, <1>2, <2>1 DEF TypeOK
    <2>4. snap \in [Groups -> 0..N]
      BY <1>1 DEF TypeOK
    <2> QED BY <1>4, <1>7, <2>1, <2>2, <2>3, <2>4
  <1>10. /\ \A w \in Writes : Stored(w) \/ twin => Stored(w)' \/ twin
         /\ \A w \in rows : Stored(w)'
    <2>1. ASSUME NEW w \in Writes, Stored(w) \/ twin PROVE Stored(w)' \/ twin
      <3>1. w \in Nat
        BY DbQueueAssumption DEF Writes
      <3>2. CASE GroupOf[w] \in Snapshot
        BY <1>9, <2>1, <3>1, <3>2 DEF Stored
      <3>3. CASE GroupOf[w] \notin Snapshot
        BY <1>8, <2>1, <3>3 DEF Stored
      <3> QED BY <3>2, <3>3
    <2>2. ASSUME NEW w \in rows PROVE Stored(w)'
      <3>1. w \in Writes /\ GroupOf[w] = g /\ w \in Nat /\ Greatest(rows) \in Nat /\ w <= Greatest(rows)
        BY <1>4, <1>5, DbQueueAssumption DEF Writes
      <3> QED BY <1>8, <1>9, <3>1 DEF Stored
    <2> QED BY <2>1, <2>2
  <1>11. DqKnown'
    <2>1. \A w \in rows : w <= last
      BY <1>1, <1>4 DEF DqKnown, Writes
    <2>2. \A w \in Writes : landed'[w] > 0 => w <= last
      BY <1>1, <1>8, <2>1 DEF DqKnown
    <2>3. \A h \in Snapshot : snap'[h] <= last /\ (snap'[h] # 0 => GroupOf[snap'[h]] = h)
      BY <1>1, <1>4, <1>5, <1>9, <2>1 DEF DqKnown
    <2> QED BY <1>1, <1>3, <2>2, <2>3 DEF DqKnown
  <1>12. DqHead' /\ DqSnaps'
    <2>1. \A h \in Snapshot : snap'[h] = snap[h] \/ snap'[h] \in batch[t]
      BY <1>4, <1>5, <1>9
    <2> QED BY <1>3, <1>6, <2>1, DqHeadStays
  <1>13. NothingLost'
    <2>1. (Restored + 1)..last \subseteq Writes
      BY <1>1, DbQueueAssumption DEF TypeOK, Writes
    <2> QED BY <1>1, <1>3, <1>10, <2>1 DEF NothingLost
  <1>14. DqWhole'
    <2>1. CASE g \notin Replicated
      <3>1. /\ todo' = [todo EXCEPT ![t] = @ \ rows] /\ committed' = [committed EXCEPT ![t] = @ \cup rows] /\ UNCHANGED pc
        BY <1>3, <2>1
      <3> QED BY <1>2, <1>3, <1>6, <1>8, <1>10, <3>1, DqWorkedOff DEF rows
    <2>2. CASE g \in Replicated
      <3>1. UNCHANGED <<todo, committed, batch, twin>> /\ g \notin Snapshot
        BY <1>3, <2>2, DbQueueAssumption
      <3>2. \A s \in Threads : Group(s)' = Group(s)
        BY <3>1 DEF Group
      <3>3. \A s \in Threads : /\ \A w \in committed[s] : w \in Writes
                               /\ \A w \in Group(s) : w \in Writes /\ landed'[w] \in Int /\ landed[w] \in Int
        BY <1>1, <1>8 DEF TypeOK, Group
      <3>4. ASSUME NEW s \in Threads, pc'[s] = "postgres"
            PROVE  todo'[s] # {} /\ \A w \in Group(s)' : GroupOf[w] \notin Snapshot /\ landed'[w] > 0
        <4>1. CASE s = t
          BY <1>3, <1>4, <1>8, <3>1, <3>2, <4>1 DEF rows
        <4>2. CASE s # t
          <5>1. pc[s] = "postgres"
            BY <1>6, <3>4, <4>2
          <5>2. todo[s] # {} /\ \A w \in Group(s) : GroupOf[w] \notin Snapshot /\ landed[w] > 0
            BY <1>1, <5>1 DEF DqWhole
          <5> QED BY <1>8, <3>1, <3>2, <3>3, <5>2
        <4> QED BY <4>1, <4>2
      <3>5. \A s \in Threads : \A w \in committed[s] : Stored(w)' \/ twin
        BY <1>1, <1>10, <3>3 DEF DqWhole
      <3> QED BY <1>1, <3>1, <3>4, <3>5 DEF DqWhole
    <2> QED BY <2>1, <2>2
  <1>15. DqOnce'
    <2> SUFFICES ASSUME ~(twin \/ cut \/ refused), NEW w \in Writes, GroupOf[w] \notin Piecewise
                 PROVE  landed'[w] <= 1 /\ (landed'[w] = 1 /\ w \in stage => DqHandled(w)')
      BY <1>3 DEF DqOnce
    <2>1. landed[w] <= 1 /\ (landed[w] = 1 /\ w \in stage => DqHandled(w))
      BY <1>1 DEF DqOnce
    <2>2. pc[t] \in DqInside /\ batch[t] \subseteq stage /\ todo[t] \cap committed[t] = {}
      BY <1>1, <1>3 DEF DqInside, DqHead, Oldest, DqWhole
    <2>3. \A s \in Threads : w \in committed[s] \/ pc[s] = "postgres" => s = t
      <3>1. \A s \in Threads : w \in committed[s] \/ pc[s] = "postgres" => pc[s] \in DqInside
        BY <1>1 DEF DqAlone, DqInside
      <3> QED BY <1>1, <2>2, <3>1, DqOneInside
    <2>4. CASE w \in rows
      <3>1. ~(landed[w] = 1)
        <4> SUFFICES ASSUME landed[w] = 1 PROVE FALSE
          OBVIOUS
        <4>1. DqHandled(w)
          BY <1>4, <2>1, <2>2, <2>4
        <4>2. w \in committed[t]
          BY <1>3, <2>3, <4>1 DEF DqHandled
        <4> QED BY <1>4, <2>2, <2>4, <4>2
      <3>2. landed'[w] <= 1
        BY <1>8, <2>1, <3>1
      <3>3. DqHandled(w)'
        <4>1. CASE g \notin Replicated
          <5>1. w \in committed'[t]
            BY <1>1, <1>3, <2>4, <4>1 DEF TypeOK
          <5> QED BY <5>1 DEF DqHandled
        <4>2. CASE g \in Replicated
          <5>1. pc'[t] = "postgres" /\ Group(t)' = Group(t)
            BY <1>1, <1>3, <4>2 DEF TypeOK, Group
          <5> QED BY <2>4, <5>1 DEF DqHandled, rows
        <4> QED BY <4>1, <4>2
      <3> QED BY <3>2, <3>3
    <2>5. CASE w \notin rows
      <3>1. landed'[w] = landed[w]
        BY <1>8, <2>5
      <3>2. ASSUME landed[w] = 1, w \in stage PROVE DqHandled(w)'
        <4>1. w \in committed[t]
          BY <1>3, <2>1, <2>3, <3>2 DEF DqHandled
        <4>2. w \in committed'[t]
          BY <1>1, <1>3, <4>1 DEF TypeOK
        <4> QED BY <4>2 DEF DqHandled
      <3> QED BY <2>1, <3>1, <3>2
    <2> QED BY <2>4, <2>5
  <1> QED BY <1>2, <1>9, <1>11, <1>12, <1>13, <1>14, <1>15 DEF DqInv

LEMMA DqReplicateStep ==
    ASSUME DqInv, NEW t \in Threads, Replicate(t)
    PROVE  DqInv' /\ UNCHANGED snap
  <1>1. TypeOK /\ DqAlone /\ DqWhole /\ DqHead /\ DqSnaps /\ DqOnce /\ NothingLost /\ DqKnown
    BY DEF DqInv
  <1>2. TypeOK' /\ DqAlone'
    BY <1>1, DqTypeDrain, DqDrainAlone DEF Flush
  <1>3. /\ pc[t] = "postgres" /\ todo' = [todo EXCEPT ![t] = @ \ Group(t)] /\ pc' = [pc EXCEPT ![t] = "group"]
        /\ UNCHANGED <<stage, landed, snap, last, batch, twin, cut>>
        /\ \/ committed' = [committed EXCEPT ![t] = @ \cup Group(t)] /\ UNCHANGED refused
           \/ refused' = TRUE /\ UNCHANGED committed
    BY DEF Replicate, tables
  <1>4. PICK C \in {{}, Group(t)} : /\ committed' = [committed EXCEPT ![t] = @ \cup C]
                                    /\ (refused' \/ (C = Group(t) /\ UNCHANGED refused))
    <2>1. CASE UNCHANGED committed
      <3>1. committed' = [committed EXCEPT ![t] = @ \cup {}]
        BY <1>1, <2>1 DEF TypeOK
      <3> QED BY <1>3, <3>1
    <2>2. CASE ~(UNCHANGED committed)
      BY <1>3, <2>2
    <2> QED BY <2>1, <2>2
  <1>5. todo[t] # {} /\ \A w \in Group(t) : GroupOf[w] \notin Snapshot /\ landed[w] > 0
    BY <1>1, <1>3 DEF DqWhole
  <1>6. pc'[t] = "group" /\ \A s \in Threads \ {t} : pc'[s] = pc[s]
    BY <1>1, <1>3 DEF TypeOK
  <1>7. (\A w : Stored(w)' <=> Stored(w)) /\ \A w \in C : Stored(w)'
    <2>1. \A w : Stored(w)' <=> Stored(w)
      BY <1>3 DEF Stored
    <2>2. \A w \in Group(t) : Stored(w)
      BY <1>5 DEF Stored
    <2> QED BY <2>1, <2>2
  <1>8. DqKnown'
    BY <1>1, <1>3 DEF DqKnown
  <1>9. DqWhole'
    <2>1. \A w \in Writes : landed'[w] >= landed[w]
      BY <1>1, <1>3 DEF TypeOK
    <2> QED BY <1>2, <1>3, <1>4, <1>5, <1>6, <1>7, <2>1, DqWorkedOff
  <1>10. DqHead' /\ DqSnaps'
    BY <1>3, <1>6, DqHeadStays
  <1>11. DqOnce'
    <2> SUFFICES ASSUME ~(twin \/ cut \/ refused'), NEW w \in Writes, DqHandled(w) PROVE DqHandled(w)'
      BY <1>1, <1>3, <1>4 DEF DqOnce
    <2>1. C = Group(t) /\ committed'[t] = committed[t] \cup Group(t)
      BY <1>1, <1>4 DEF TypeOK
    <2>2. PICK s \in Threads : w \in committed[s] \/ (pc[s] = "postgres" /\ w \in Group(s))
      BY DEF DqHandled
    <2>3. CASE s = t
      BY <2>1, <2>2, <2>3 DEF DqHandled
    <2>4. CASE s # t
      <3>1. committed'[s] = committed[s] /\ todo'[s] = todo[s] /\ pc'[s] = pc[s]
        BY <1>1, <1>3, <1>4, <1>6, <2>4 DEF TypeOK
      <3>2. Group(s)' = Group(s)
        BY <3>1 DEF Group
      <3> QED BY <2>2, <3>1, <3>2 DEF DqHandled
    <2> QED BY <2>3, <2>4
  <1>12. NothingLost'
    BY <1>1, <1>3, <1>7 DEF NothingLost
  <1> QED BY <1>2, <1>3, <1>8, <1>9, <1>10, <1>11, <1>12 DEF DqInv

LEMMA DqDeleteStep ==
    ASSUME DqInv, NEW t \in Threads, DeleteRows(t)
    PROVE  DqInv' /\ UNCHANGED snap
  <1>1. TypeOK /\ DqAlone /\ DqWhole /\ DqHead /\ DqOnce /\ DqKnown
    BY DEF DqInv
  <1>2. TypeOK' /\ DqAlone'
    BY <1>1, DqTypeDrain, DqDrainAlone DEF Flush
  <1>3. UNCHANGED <<landed, snap, last, twin, refused>> /\ pc[t] = "group" /\ (cut => cut')
    BY DEF DeleteRows
  <1>4. CASE Leave(t, After(t))
    <2>1. (stage' = stage /\ cut') \/ stage' = stage \ committed[t]
      BY DEF DeleteRows, Deleted
    <2>2. DqKnown' /\ DqWhole' /\ DqHead' /\ DqSnaps' /\ DqOnce' /\ NothingLost'
      BY <1>3, <1>4, <2>1, DqLeft
    <2> QED BY <1>2, <1>3, <2>2 DEF DqInv
  <1>5. CASE ~Leave(t, After(t))
    <2>1. stage' = stage \ committed[t] /\ pc' = [pc EXCEPT ![t] = "fetch"] /\ UNCHANGED <<batch, todo, committed, cut>>
      BY <1>5 DEF DeleteRows, Deleted
    <2>2. pc'[t] = "fetch" /\ \A s \in Threads \ {t} : pc'[s] = pc[s]
      BY <1>1, <2>1 DEF TypeOK
    <2>3. DqSnaps' /\ NothingLost'
      BY <1>3, <2>1, DqShrinks
    <2>4. (\A w : Stored(w)' <=> Stored(w)) /\ \A s \in Threads : Group(s)' = Group(s)
      BY <1>3, <2>1 DEF Stored, Group
    <2>5. DqKnown'
      BY <1>1, <1>3, <2>1 DEF DqKnown
    <2>6. DqWhole'
      BY <1>1, <1>3, <2>1, <2>2, <2>4 DEF DqWhole
    <2>7. DqHead'
      <3> SUFFICES ASSUME ~twin PROVE DqHead'
        BY <1>3 DEF DqHead
      <3>1. ASSUME NEW s \in Threads, pc'[s] \in DqInside PROVE s = t
        <4>1. s # t => pc[s] \in DqInside /\ pc[t] \in DqInside
          BY <1>3, <2>2, <3>1 DEF DqInside
        <4> QED BY <1>1, <4>1, DqOneInside
      <3>2. \A s \in Threads : pc'[s] \in {"fetch", "group", "postgres"} => s = t
        BY <3>1 DEF DqInside
      <3> QED BY <2>1, <2>2, <3>2 DEF DqHead
    <2>8. DqOnce'
      <3>1. \A w : DqHandled(w) => DqHandled(w)'
        BY <1>3, <2>1, <2>2, <2>4 DEF DqHandled
      <3> QED BY <1>1, <1>3, <2>1, <3>1 DEF DqOnce
    <2> QED BY <1>2, <1>3, <2>3, <2>5, <2>6, <2>7, <2>8 DEF DqInv
  <1> QED BY <1>4, <1>5

LEMMA DqDrainStep ==
    ASSUME DqInv, NEW t \in Threads, Flush(t)
    PROVE  DqInv' /\ \A g \in Snapshot : snap'[g] >= snap[g] \/ twin
  <1>1. TypeOK' /\ DqAlone' /\ TypeOK
    BY DqTypeDrain, DqDrainAlone DEF DqInv
  <1>2. ASSUME DqInv', UNCHANGED snap PROVE \A g \in Snapshot : snap'[g] >= snap[g]
    BY <1>1, <1>2, DbQueueAssumption DEF TypeOK
  <1>3. CASE TakeLock(t)
    <2>1. /\ UNCHANGED <<stage, landed, snap, last, batch, todo, committed, cut, refused, twin>>
          /\ pc[t] = "flush" /\ pc' = [pc EXCEPT ![t] = "fetch"]
      BY <1>3 DEF TakeLock, tables, history
    <2>2. \A s \in Threads : pc'[s] = pc[s] \/ (pc[s] \notin DqInside /\ pc'[s] \notin {"group", "postgres"})
      BY <1>1, <2>1 DEF TypeOK, DqInside
    <2>3. DqKnown' /\ DqWhole' /\ DqHead' /\ DqSnaps' /\ DqOnce' /\ NothingLost'
      BY <2>1, <2>2, DqQuiet
    <2>4. DqInv' /\ UNCHANGED snap
      BY <1>1, <2>1, <2>3 DEF DqInv
    <2> QED BY <1>2, <2>4
  <1>4. CASE Throttled(t) \/ Uncommitted(t)
    <2>1. /\ UNCHANGED <<stage, landed, snap, last, cut, refused, twin>> /\ Leave(t, After(t))
          /\ pc[t] \in {"fetch", "group"} /\ (pc[t] = "fetch" \/ committed[t] = {})
      BY <1>4 DEF Throttled, Uncommitted, NoProgress, tables, history
    <2>2. DqKnown' /\ DqWhole' /\ DqHead' /\ DqSnaps' /\ DqOnce' /\ NothingLost'
      BY <2>1, DqLeft
    <2>3. DqInv' /\ UNCHANGED snap
      BY <1>1, <2>1, <2>2 DEF DqInv
    <2> QED BY <1>2, <2>3
  <1>5. CASE Fetch(t) \/ GroupRaises(t) \/ Replicate(t) \/ DeleteRows(t)
    BY <1>2, <1>5, DqFetchStep, DqRaisesStep, DqReplicateStep, DqDeleteStep
  <1>6. CASE PersistGroup(t)
    BY <1>6, DqPersistStep
  <1> QED BY <1>3, <1>4, <1>5, <1>6 DEF Flush

LEMMA DqCrashStep ==
    ASSUME DqInv, Crash
    PROVE  DqInv' /\ UNCHANGED snap
  <1>1. TypeOK /\ DqAlone /\ DqWhole /\ DqHead /\ DqSnaps /\ DqOnce /\ NothingLost /\ DqKnown /\ TypeOK'
    BY DqTypeCalls DEF DqInv
  <1>2. /\ UNCHANGED <<stage, landed, snap, last, twin, refused>> /\ producer' = "idle"
        /\ cut' = (cut \/ \E t \in Threads : lock[t[1]] = t)
        /\ \A t \in Threads : pc'[t] = "off" /\ batch'[t] = {} /\ todo'[t] = {} /\ committed'[t] = {}
    BY DEF Crash, Empty, tables
  <1>3. \A w : Stored(w)' <=> Stored(w)
    BY <1>2 DEF Stored
  <1>4. DqAlone'
    BY <1>2 DEF DqAlone, DqInside, Live, Worker, Stopper, Threads
  <1>5. DqKnown' /\ DqSnaps' /\ NothingLost'
    BY <1>1, <1>2, <1>3 DEF DqKnown, DqSnaps, Oldest, NothingLost
  <1>6. DqWhole' /\ DqHead'
    BY <1>2 DEF DqWhole, DqHead
  <1>7. DqOnce'
    <2> SUFFICES ASSUME ~(twin \/ cut' \/ refused), NEW w \in Writes PROVE ~cut /\ ~DqHandled(w)
      BY <1>1, <1>2 DEF DqOnce
    <2>1. ~cut /\ \A t \in Threads : lock[t[1]] # t
      BY <1>2
    <2>2. \A t \in Threads : pc[t] \notin DqInside
      BY <1>1, <2>1 DEF DqAlone
    <2> QED BY <1>1, <2>1, <2>2 DEF DqAlone, DqHandled, DqInside
  <1> QED BY <1>1, <1>2, <1>4, <1>5, <1>6, <1>7 DEF DqInv

LEMMA DqInvInit == Init => DqInv
  <1> SUFFICES ASSUME Init PROVE DqInv
    OBVIOUS
  <1>1. N \in Nat /\ Restored \in 0..N /\ MaxFaults \in Nat /\ BaseBatches \in Nat
    BY DbQueueAssumption
  <1>2. TypeOK
    <2>1. stopped \in [Writers -> BOOLEAN] /\ late \in BOOLEAN /\ {twin, cut, refused} \subseteq BOOLEAN
      BY Zenon DEF Init
    <2>2. DqThreadTypes
      <3>1. force \in [Threads -> BOOLEAN]
        BY Zenon DEF Init
      <3> QED BY <3>1 DEF Init, DqThreadTypes, Empty
    <2>3. stage \subseteq Writes /\ last \in 0..N /\ landed \in [Writes -> 0..2] /\ snap \in [Groups -> 0..N]
      BY <1>1 DEF Init, Writes
    <2>4. /\ maxBatches \in [Writers -> {BaseBatches, BurstBatches}] /\ tokens \in [Writers -> Nat]
          /\ \A v \in Writers : tokens[v] <= maxBatches[v]
      BY <1>1 DEF Init
    <2>5. before \in 0..N /\ faults \in 0..MaxFaults
      BY <1>1 DEF Init
    <2> QED BY <2>1, <2>2, <2>3, <2>4, <2>5 DEF Init, TypeOK, DqThreadTypes
  <1>3. DqAlone
    BY DEF Init, DqAlone, DqInside, Live, Worker, Stopper, Threads, Empty
  <1>4. DqKnown
    BY <1>1, DbQueueAssumption DEF Init, DqKnown, Empty
  <1>5. DqWhole /\ DqHead
    BY DEF Init, DqWhole, DqHead, Empty
  <1>6. DqSnaps
    <2>1. \A g \in Snapshot : snap[g] = 0
      BY DbQueueAssumption DEF Init
    <2>2. \A u \in stage : u \in Nat /\ u > 0
      BY <1>1 DEF Init
    <2> QED BY <2>1, <2>2 DEF DqSnaps
  <1>7. DqOnce
    BY DEF Init, DqOnce
  <1>8. NothingLost
    BY <1>1 DEF Init, NothingLost
  <1> QED BY <1>2, <1>3, <1>4, <1>5, <1>6, <1>7, <1>8 DEF DqInv

LEMMA DqInvStep ==
    ASSUME DqInv, [Next]_vars
    PROVE  DqInv' /\ \A g \in Snapshot : snap'[g] >= snap[g] \/ twin
  <1>1. ASSUME DqInv', UNCHANGED snap PROVE \A g \in Snapshot : snap'[g] >= snap[g]
    BY <1>1, DbQueueAssumption DEF DqInv, TypeOK
  <1>2. CASE UNCHANGED vars
    <2>1. DqInv'
      <3>1. TypeOK' /\ DqAlone'
        BY <1>2 DEF vars, DqInv, TypeOK, DqAlone, Live
      <3>2. DqKnown' /\ DqWhole' /\ DqHead' /\ DqSnaps' /\ DqOnce' /\ NothingLost'
        BY <1>2, DqQuiet DEF vars
      <3> QED BY <3>1, <3>2 DEF DqInv
    <2> QED BY <1>1, <1>2, <2>1 DEF vars
  <1>3. CASE Next
    BY <1>1, <1>3, DqCallStep, DqEnqueueStep, DqDrainStep, DqCrashStep DEF Next, Produce
  <1> QED BY <1>2, <1>3

\* An acknowledged write is staged until it is stored, is inserted once but for the causes the property
\* names, and no older snapshot replaces a newer one: for any rows, groups, batch sizes and instances,
\* through every failing group, stop(), crash and restart.
THEOREM WritesAreKept == Spec => QueueKeeps
  <1>1. DqInv => TypeOK /\ NothingLost /\ AppendedOnce
    BY DEF DqInv, DqOnce, AppendedOnce
  <1>2. DqInv /\ [Next]_vars => [\A g \in Snapshot : snap'[g] >= snap[g] \/ twin]_vars
    BY DqInvStep
  <1>3. DqInv /\ [Next]_vars => DqInv'
    BY DqInvStep
  <1> QED BY <1>1, <1>2, <1>3, DqInvInit, PTL DEF Spec, QueueKeeps, SnapshotMovesOn
=============================================================================
