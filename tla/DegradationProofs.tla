-------------------------- MODULE DegradationProofs -------------------------
(* Proofs about Degradation, for any streak lengths, legs and bounds.      *)
EXTENDS Degradation, TLAPS

\* Unless the last write was refused, the row holds what memory holds (the
\* streak aside, which is written and never read back).
Synced ==
    ~dirty => /\ mode = ModeAtBoot
              /\ latched = rowLatched
              /\ entered = rowEntered

\* The streak never runs ahead of the verdicts that were really OK.
CreditHolds ==
    \/ forgot
    \/ /\ mode = "NORMAL" => credit = Full
       /\ mode = "RECON_DEGRADED_MANAGE" => credit >= HardStreak
       /\ mode = "SOFT_DEGRADE" =>
             streak < SoftStreak /\ credit >= HardStreak + streak
       /\ mode = "HARD_CRITICAL_DEGRADE" =>
             streak < HardStreak /\ run >= streak /\ credit >= streak

\* A pending flatten is one nobody has carried out yet, in HARD.
FlattenHeld ==
    forgot \/ (latched => ~spent /\ mode = "HARD_CRITICAL_DEGRADE")

\* The inductive invariant.  EntriesAreEarned and HardIsReEarned are about
\* steps; CreditHolds is what the state before the step must satisfy, and
\* Synced carries it over a restart.
IInv == TypeOK /\ Synced /\ CreditHolds /\ FlattenHeld /\ StampIsTrue

-----------------------------------------------------------------------------
(* The disjuncts of Evaluate, as steps of their own.                       *)

Rest(v) == Idle /\ Judged(v) /\ Stamped /\ UNCHANGED ended

EvalHard(v) == Rest(v) /\ v = "HARD_BREACH" /\ ApplyHard
EvalDown(v) == Rest(v) /\ mode = "HARD_CRITICAL_DEGRADE" /\ v # "HARD_BREACH"
    /\ Earned(v) >= HardStreak /\ Downgrade /\ UNCHANGED spent
EvalHeal(v) == Rest(v) /\ mode = "HARD_CRITICAL_DEGRADE" /\ v # "HARD_BREACH"
    /\ ~(Earned(v) >= HardStreak) /\ Earn(v) /\ UNCHANGED spent
EvalNormal(v) == Rest(v) /\ mode = "SOFT_DEGRADE" /\ v # "HARD_BREACH"
    /\ Earned(v) >= SoftStreak /\ ToNormal /\ UNCHANGED spent
EvalMend(v) == Rest(v) /\ mode = "SOFT_DEGRADE" /\ v # "HARD_BREACH"
    /\ ~(Earned(v) >= SoftStreak) /\ Earn(v) /\ UNCHANGED spent
EvalSoft(v) == Rest(v) /\ EngageSoft(v)
EvalSteady(v) == Rest(v) /\ Steady(v)

\* Evaluate is one of its disjuncts, for some verdict.
LEMMA EvaluateCases ==
    Evaluate => \E v \in Severities :
        \/ EvalHard(v) \/ EvalDown(v) \/ EvalHeal(v) \/ EvalNormal(v)
        \/ EvalMend(v) \/ EvalSoft(v) \/ EvalSteady(v)
<1> SUFFICES ASSUME Evaluate
             PROVE  \E v \in Severities :
                        \/ EvalHard(v) \/ EvalDown(v) \/ EvalHeal(v) \/ EvalNormal(v)
                        \/ EvalMend(v) \/ EvalSoft(v) \/ EvalSteady(v)
    OBVIOUS
<1>1. PICK leg \in Legs, open \in BOOLEAN,
           found \in SUBSET {"SOFT_BREACH", "HARD_BREACH"} :
        /\ \/ Severity(leg, open, found) = "HARD_BREACH" /\ ApplyHard
           \/ RecoverHard(Severity(leg, open, found))
           \/ RecoverSoft(Severity(leg, open, found))
           \/ EngageSoft(Severity(leg, open, found))
           \/ Steady(Severity(leg, open, found))
        /\ Judged(Severity(leg, open, found))
    BY DEF Evaluate
<1> DEFINE v == Severity(leg, open, found)
<1>2. v \in Severities
    BY DEF Severity, Severities
<1>3. Rest(v)
    BY <1>1 DEF Evaluate, Rest
<1> HIDE DEF v
<1>4. CASE v = "HARD_BREACH" /\ ApplyHard
    BY <1>2, <1>3, <1>4 DEF EvalHard
<1>5. CASE RecoverHard(v)
    BY <1>2, <1>3, <1>5 DEF RecoverHard, EvalDown, EvalHeal
<1>6. CASE RecoverSoft(v)
    BY <1>2, <1>3, <1>6 DEF RecoverSoft, EvalNormal, EvalMend
<1>7. CASE EngageSoft(v)
    BY <1>2, <1>3, <1>7 DEF EvalSoft
<1>8. CASE Steady(v)
    BY <1>2, <1>3, <1>8 DEF EvalSteady
<1> QED
    BY <1>1, <1>4, <1>5, <1>6, <1>7, <1>8 DEF v

\* A HARD_BREACH starts the count again and owes a flatten.
LEMMA EvalHardKeeps ==
    ASSUME IInv, NEW v \in Severities, EvalHard(v)
    PROVE  IInv'
<1> USE DegradationAssumption
    DEF EvalHard, Rest, ApplyHard, HardEntered,
        Idle, Judged, Stamped, Count, Persist, ended, memory, row, verdicts
<1>0. TypeOK /\ Synced /\ CreditHolds /\ FlattenHeld /\ StampIsTrue
    BY DEF IInv
<1>1. TypeOK'
  <2>1. (mode \in Modes /\ streak \in Nat)'
    BY <1>0 DEF TypeOK, Modes, NoRow
  <2>2. (entered \in 0..MaxClock \cup {NoTime})'
    BY <1>0 DEF TypeOK, NoTime
  <2>3. (rowMode \in Modes \cup {NoRow} /\ rowStreak \in Nat)'
    BY <1>0, <2>1 DEF TypeOK, Modes, NoRow
  <2>4. (rowEntered \in 0..MaxClock \cup {NoTime})'
    BY <1>0 DEF TypeOK, NoTime
  <2>5. (latched \in BOOLEAN /\ rowLatched \in BOOLEAN)'
    BY <1>0 DEF TypeOK
  <2>6. (spent \in BOOLEAN /\ dirty \in BOOLEAN /\ forgot \in BOOLEAN)'
    BY <1>0 DEF TypeOK
  <2>7. (/\ proc \in {"up", "down"} /\ pc \in {"idle", "page", "recovered"}
         /\ told \in {"none", "hard", "recovered"} /\ last \in Severities)'
    BY <1>0 DEF TypeOK, Severities
  <2>8. (run \in 0..HardStreak /\ credit \in 0..Full)'
    BY <1>0 DEF TypeOK, Full
  <2>9. (/\ since \in 0..MaxClock /\ clock \in 0..MaxClock
         /\ crashes \in 0..MaxCrashes)'
    BY <1>0 DEF TypeOK
  <2> QED
    BY <2>1, <2>2, <2>3, <2>4, <2>5, <2>6, <2>7, <2>8, <2>9 DEF TypeOK
<1>2. Synced'
    BY <1>0 DEF Synced, TypeOK, ModeAtBoot, NoRow, NoTime, Modes
<1>3. CreditHolds'
    BY <1>0 DEF CreditHolds, TypeOK, Full, Synced
<1>4. FlattenHeld'
    BY <1>0 DEF FlattenHeld, TypeOK, Synced
<1>5. StampIsTrue'
    BY <1>0 DEF StampIsTrue, TypeOK, Synced
<1> QED
    BY <1>1, <1>2, <1>3, <1>4, <1>5 DEF IInv

\* The downgrade: HardStreak OK verdicts are credited when HARD ends.
LEMMA EvalDownKeeps ==
    ASSUME IInv, NEW v \in Severities, EvalDown(v)
    PROVE  IInv'
<1> USE DegradationAssumption
    DEF EvalDown, Rest, Downgrade, SteppedDown, Earned,
        Idle, Judged, Stamped, Count, Persist, ended, memory, row, verdicts
<1>0. TypeOK /\ Synced /\ CreditHolds /\ FlattenHeld /\ StampIsTrue
    BY DEF IInv
<1>1. TypeOK'
  <2>1. (mode \in Modes /\ streak \in Nat)'
    BY <1>0 DEF TypeOK, Modes, NoRow
  <2>2. (entered \in 0..MaxClock \cup {NoTime})'
    BY <1>0 DEF TypeOK, NoTime
  <2>3. (rowMode \in Modes \cup {NoRow} /\ rowStreak \in Nat)'
    BY <1>0, <2>1 DEF TypeOK, Modes, NoRow
  <2>4. (rowEntered \in 0..MaxClock \cup {NoTime})'
    BY <1>0 DEF TypeOK, NoTime
  <2>5. (latched \in BOOLEAN /\ rowLatched \in BOOLEAN)'
    BY <1>0 DEF TypeOK
  <2>6. (spent \in BOOLEAN /\ dirty \in BOOLEAN /\ forgot \in BOOLEAN)'
    BY <1>0 DEF TypeOK
  <2>7. (/\ proc \in {"up", "down"} /\ pc \in {"idle", "page", "recovered"}
         /\ told \in {"none", "hard", "recovered"} /\ last \in Severities)'
    BY <1>0 DEF TypeOK, Severities
  <2>8. (run \in 0..HardStreak /\ credit \in 0..Full)'
    BY <1>0 DEF TypeOK, Full
  <2>9. (/\ since \in 0..MaxClock /\ clock \in 0..MaxClock
         /\ crashes \in 0..MaxCrashes)'
    BY <1>0 DEF TypeOK
  <2> QED
    BY <2>1, <2>2, <2>3, <2>4, <2>5, <2>6, <2>7, <2>8, <2>9 DEF TypeOK
<1>2. Synced'
    BY <1>0 DEF Synced, TypeOK, ModeAtBoot, NoRow, NoTime, Modes
<1>3. CreditHolds'
    BY <1>0 DEF CreditHolds, TypeOK, Full, Synced
<1>4. FlattenHeld'
    BY <1>0 DEF FlattenHeld, TypeOK, Synced
<1>5. StampIsTrue'
    BY <1>0 DEF StampIsTrue, TypeOK, Synced
<1> QED
    BY <1>1, <1>2, <1>3, <1>4, <1>5 DEF IInv

\* An evaluation in HARD adds at most what the verdict earned.
LEMMA EvalHealKeeps ==
    ASSUME IInv, NEW v \in Severities, EvalHeal(v)
    PROVE  IInv'
<1> USE DegradationAssumption
    DEF EvalHeal, Rest, Earn, Earned,
        Idle, Judged, Stamped, Count, Persist, ended, memory, row, verdicts
<1>0. TypeOK /\ Synced /\ CreditHolds /\ FlattenHeld /\ StampIsTrue
    BY DEF IInv
<1>1. TypeOK'
  <2>1. (mode \in Modes /\ streak \in Nat)'
    BY <1>0 DEF TypeOK, Modes, NoRow
  <2>2. (entered \in 0..MaxClock \cup {NoTime})'
    BY <1>0 DEF TypeOK, NoTime
  <2>3. (rowMode \in Modes \cup {NoRow} /\ rowStreak \in Nat)'
    BY <1>0, <2>1 DEF TypeOK, Modes, NoRow
  <2>4. (rowEntered \in 0..MaxClock \cup {NoTime})'
    BY <1>0 DEF TypeOK, NoTime
  <2>5. (latched \in BOOLEAN /\ rowLatched \in BOOLEAN)'
    BY <1>0 DEF TypeOK
  <2>6. (spent \in BOOLEAN /\ dirty \in BOOLEAN /\ forgot \in BOOLEAN)'
    BY <1>0 DEF TypeOK
  <2>7. (/\ proc \in {"up", "down"} /\ pc \in {"idle", "page", "recovered"}
         /\ told \in {"none", "hard", "recovered"} /\ last \in Severities)'
    BY <1>0 DEF TypeOK, Severities
  <2>8. (run \in 0..HardStreak /\ credit \in 0..Full)'
    BY <1>0 DEF TypeOK, Full
  <2>9. (/\ since \in 0..MaxClock /\ clock \in 0..MaxClock
         /\ crashes \in 0..MaxCrashes)'
    BY <1>0 DEF TypeOK
  <2> QED
    BY <2>1, <2>2, <2>3, <2>4, <2>5, <2>6, <2>7, <2>8, <2>9 DEF TypeOK
<1>2. Synced'
    BY <1>0 DEF Synced, TypeOK, ModeAtBoot, NoRow, NoTime, Modes
<1>3. CreditHolds'
    BY <1>0 DEF CreditHolds, TypeOK, Full, Synced
<1>4. FlattenHeld'
    BY <1>0 DEF FlattenHeld, TypeOK, Synced
<1>5. StampIsTrue'
    BY <1>0 DEF StampIsTrue, TypeOK, Synced
<1> QED
    BY <1>1, <1>2, <1>3, <1>4, <1>5 DEF IInv

\* The return to NORMAL: all of Full is credited by then.
LEMMA EvalNormalKeeps ==
    ASSUME IInv, NEW v \in Severities, EvalNormal(v)
    PROVE  IInv'
<1> USE DegradationAssumption
    DEF EvalNormal, Rest, ToNormal, Earned,
        Idle, Judged, Stamped, Count, Persist, ended, memory, row, verdicts
<1>0. TypeOK /\ Synced /\ CreditHolds /\ FlattenHeld /\ StampIsTrue
    BY DEF IInv
<1>1. TypeOK'
  <2>1. (mode \in Modes /\ streak \in Nat)'
    BY <1>0 DEF TypeOK, Modes, NoRow
  <2>2. (entered \in 0..MaxClock \cup {NoTime})'
    BY <1>0 DEF TypeOK, NoTime
  <2>3. (rowMode \in Modes \cup {NoRow} /\ rowStreak \in Nat)'
    BY <1>0, <2>1 DEF TypeOK, Modes, NoRow
  <2>4. (rowEntered \in 0..MaxClock \cup {NoTime})'
    BY <1>0 DEF TypeOK, NoTime
  <2>5. (latched \in BOOLEAN /\ rowLatched \in BOOLEAN)'
    BY <1>0 DEF TypeOK
  <2>6. (spent \in BOOLEAN /\ dirty \in BOOLEAN /\ forgot \in BOOLEAN)'
    BY <1>0 DEF TypeOK
  <2>7. (/\ proc \in {"up", "down"} /\ pc \in {"idle", "page", "recovered"}
         /\ told \in {"none", "hard", "recovered"} /\ last \in Severities)'
    BY <1>0 DEF TypeOK, Severities
  <2>8. (run \in 0..HardStreak /\ credit \in 0..Full)'
    BY <1>0 DEF TypeOK, Full
  <2>9. (/\ since \in 0..MaxClock /\ clock \in 0..MaxClock
         /\ crashes \in 0..MaxCrashes)'
    BY <1>0 DEF TypeOK
  <2> QED
    BY <2>1, <2>2, <2>3, <2>4, <2>5, <2>6, <2>7, <2>8, <2>9 DEF TypeOK
<1>2. Synced'
    BY <1>0 DEF Synced, TypeOK, ModeAtBoot, NoRow, NoTime, Modes
<1>3. CreditHolds'
    BY <1>0 DEF CreditHolds, TypeOK, Full, Synced
<1>4. FlattenHeld'
    BY <1>0 DEF FlattenHeld, TypeOK, Synced
<1>5. StampIsTrue'
    BY <1>0 DEF StampIsTrue, TypeOK, Synced
<1> QED
    BY <1>1, <1>2, <1>3, <1>4, <1>5 DEF IInv

\* An evaluation in SOFT adds at most what the verdict earned.
LEMMA EvalMendKeeps ==
    ASSUME IInv, NEW v \in Severities, EvalMend(v)
    PROVE  IInv'
<1> USE DegradationAssumption
    DEF EvalMend, Rest, Earn, Earned,
        Idle, Judged, Stamped, Count, Persist, ended, memory, row, verdicts
<1>0. TypeOK /\ Synced /\ CreditHolds /\ FlattenHeld /\ StampIsTrue
    BY DEF IInv
<1>1. TypeOK'
  <2>1. (mode \in Modes /\ streak \in Nat)'
    BY <1>0 DEF TypeOK, Modes, NoRow
  <2>2. (entered \in 0..MaxClock \cup {NoTime})'
    BY <1>0 DEF TypeOK, NoTime
  <2>3. (rowMode \in Modes \cup {NoRow} /\ rowStreak \in Nat)'
    BY <1>0, <2>1 DEF TypeOK, Modes, NoRow
  <2>4. (rowEntered \in 0..MaxClock \cup {NoTime})'
    BY <1>0 DEF TypeOK, NoTime
  <2>5. (latched \in BOOLEAN /\ rowLatched \in BOOLEAN)'
    BY <1>0 DEF TypeOK
  <2>6. (spent \in BOOLEAN /\ dirty \in BOOLEAN /\ forgot \in BOOLEAN)'
    BY <1>0 DEF TypeOK
  <2>7. (/\ proc \in {"up", "down"} /\ pc \in {"idle", "page", "recovered"}
         /\ told \in {"none", "hard", "recovered"} /\ last \in Severities)'
    BY <1>0 DEF TypeOK, Severities
  <2>8. (run \in 0..HardStreak /\ credit \in 0..Full)'
    BY <1>0 DEF TypeOK, Full
  <2>9. (/\ since \in 0..MaxClock /\ clock \in 0..MaxClock
         /\ crashes \in 0..MaxCrashes)'
    BY <1>0 DEF TypeOK
  <2> QED
    BY <2>1, <2>2, <2>3, <2>4, <2>5, <2>6, <2>7, <2>8, <2>9 DEF TypeOK
<1>2. Synced'
    BY <1>0 DEF Synced, TypeOK, ModeAtBoot, NoRow, NoTime, Modes
<1>3. CreditHolds'
    BY <1>0 DEF CreditHolds, TypeOK, Full, Synced
<1>4. FlattenHeld'
    BY <1>0 DEF FlattenHeld, TypeOK, Synced
<1>5. StampIsTrue'
    BY <1>0 DEF StampIsTrue, TypeOK, Synced
<1> QED
    BY <1>1, <1>2, <1>3, <1>4, <1>5 DEF IInv

\* A soft breach from NORMAL or RECON starts with the credit there is.
LEMMA EvalSoftKeeps ==
    ASSUME IInv, NEW v \in Severities, EvalSoft(v)
    PROVE  IInv'
<1> USE DegradationAssumption
    DEF EvalSoft, Rest, EngageSoft, ApplySoft,
        Idle, Judged, Stamped, Count, Persist, ended, memory, row, verdicts
<1>0. TypeOK /\ Synced /\ CreditHolds /\ FlattenHeld /\ StampIsTrue
    BY DEF IInv
<1>1. TypeOK'
  <2>1. (mode \in Modes /\ streak \in Nat)'
    BY <1>0 DEF TypeOK, Modes, NoRow
  <2>2. (entered \in 0..MaxClock \cup {NoTime})'
    BY <1>0 DEF TypeOK, NoTime
  <2>3. (rowMode \in Modes \cup {NoRow} /\ rowStreak \in Nat)'
    BY <1>0, <2>1 DEF TypeOK, Modes, NoRow
  <2>4. (rowEntered \in 0..MaxClock \cup {NoTime})'
    BY <1>0 DEF TypeOK, NoTime
  <2>5. (latched \in BOOLEAN /\ rowLatched \in BOOLEAN)'
    BY <1>0 DEF TypeOK
  <2>6. (spent \in BOOLEAN /\ dirty \in BOOLEAN /\ forgot \in BOOLEAN)'
    BY <1>0 DEF TypeOK
  <2>7. (/\ proc \in {"up", "down"} /\ pc \in {"idle", "page", "recovered"}
         /\ told \in {"none", "hard", "recovered"} /\ last \in Severities)'
    BY <1>0 DEF TypeOK, Severities
  <2>8. (run \in 0..HardStreak /\ credit \in 0..Full)'
    BY <1>0 DEF TypeOK, Full
  <2>9. (/\ since \in 0..MaxClock /\ clock \in 0..MaxClock
         /\ crashes \in 0..MaxCrashes)'
    BY <1>0 DEF TypeOK
  <2> QED
    BY <2>1, <2>2, <2>3, <2>4, <2>5, <2>6, <2>7, <2>8, <2>9 DEF TypeOK
<1>2. Synced'
    BY <1>0 DEF Synced, TypeOK, ModeAtBoot, NoRow, NoTime, Modes
<1>3. CreditHolds'
    BY <1>0 DEF CreditHolds, TypeOK, Full, Synced
<1>4. FlattenHeld'
    BY <1>0 DEF FlattenHeld, TypeOK, Synced
<1>5. StampIsTrue'
    BY <1>0 DEF StampIsTrue, TypeOK, Synced
<1> QED
    BY <1>1, <1>2, <1>3, <1>4, <1>5 DEF IInv

\* An OK verdict with nothing to recover changes no mode.
LEMMA EvalSteadyKeeps ==
    ASSUME IInv, NEW v \in Severities, EvalSteady(v)
    PROVE  IInv'
<1> USE DegradationAssumption
    DEF EvalSteady, Rest, Steady,
        Idle, Judged, Stamped, Count, Persist, ended, memory, row, verdicts
<1>0. TypeOK /\ Synced /\ CreditHolds /\ FlattenHeld /\ StampIsTrue
    BY DEF IInv
<1>1. TypeOK'
  <2>1. (mode \in Modes /\ streak \in Nat)'
    BY <1>0 DEF TypeOK, Modes, NoRow
  <2>2. (entered \in 0..MaxClock \cup {NoTime})'
    BY <1>0 DEF TypeOK, NoTime
  <2>3. (rowMode \in Modes \cup {NoRow} /\ rowStreak \in Nat)'
    BY <1>0, <2>1 DEF TypeOK, Modes, NoRow
  <2>4. (rowEntered \in 0..MaxClock \cup {NoTime})'
    BY <1>0 DEF TypeOK, NoTime
  <2>5. (latched \in BOOLEAN /\ rowLatched \in BOOLEAN)'
    BY <1>0 DEF TypeOK
  <2>6. (spent \in BOOLEAN /\ dirty \in BOOLEAN /\ forgot \in BOOLEAN)'
    BY <1>0 DEF TypeOK
  <2>7. (/\ proc \in {"up", "down"} /\ pc \in {"idle", "page", "recovered"}
         /\ told \in {"none", "hard", "recovered"} /\ last \in Severities)'
    BY <1>0 DEF TypeOK, Severities
  <2>8. (run \in 0..HardStreak /\ credit \in 0..Full)'
    BY <1>0 DEF TypeOK, Full
  <2>9. (/\ since \in 0..MaxClock /\ clock \in 0..MaxClock
         /\ crashes \in 0..MaxCrashes)'
    BY <1>0 DEF TypeOK
  <2> QED
    BY <2>1, <2>2, <2>3, <2>4, <2>5, <2>6, <2>7, <2>8, <2>9 DEF TypeOK
<1>2. Synced'
    BY <1>0 DEF Synced, TypeOK, ModeAtBoot, NoRow, NoTime, Modes
<1>3. CreditHolds'
    BY <1>0 DEF CreditHolds, TypeOK, Full, Synced
<1>4. FlattenHeld'
    BY <1>0 DEF FlattenHeld, TypeOK, Synced
<1>5. StampIsTrue'
    BY <1>0 DEF StampIsTrue, TypeOK, Synced
<1> QED
    BY <1>1, <1>2, <1>3, <1>4, <1>5 DEF IInv

\* apply_soft_degrade keeps the credit of the mode it leaves.
LEMMA SoftDegradeKeeps ==
    ASSUME IInv, SoftDegrade
    PROVE  IInv'
<1> USE DegradationAssumption
    DEF SoftDegrade, ApplySoft,
        Idle, Judged, Stamped, Count, Persist, ended, memory, row, verdicts
<1>0. TypeOK /\ Synced /\ CreditHolds /\ FlattenHeld /\ StampIsTrue
    BY DEF IInv
<1>1. TypeOK'
  <2>1. (mode \in Modes /\ streak \in Nat)'
    BY <1>0 DEF TypeOK, Modes, NoRow
  <2>2. (entered \in 0..MaxClock \cup {NoTime})'
    BY <1>0 DEF TypeOK, NoTime
  <2>3. (rowMode \in Modes \cup {NoRow} /\ rowStreak \in Nat)'
    BY <1>0, <2>1 DEF TypeOK, Modes, NoRow
  <2>4. (rowEntered \in 0..MaxClock \cup {NoTime})'
    BY <1>0 DEF TypeOK, NoTime
  <2>5. (latched \in BOOLEAN /\ rowLatched \in BOOLEAN)'
    BY <1>0 DEF TypeOK
  <2>6. (spent \in BOOLEAN /\ dirty \in BOOLEAN /\ forgot \in BOOLEAN)'
    BY <1>0 DEF TypeOK
  <2>7. (/\ proc \in {"up", "down"} /\ pc \in {"idle", "page", "recovered"}
         /\ told \in {"none", "hard", "recovered"} /\ last \in Severities)'
    BY <1>0 DEF TypeOK, Severities
  <2>8. (run \in 0..HardStreak /\ credit \in 0..Full)'
    BY <1>0 DEF TypeOK, Full
  <2>9. (/\ since \in 0..MaxClock /\ clock \in 0..MaxClock
         /\ crashes \in 0..MaxCrashes)'
    BY <1>0 DEF TypeOK
  <2> QED
    BY <2>1, <2>2, <2>3, <2>4, <2>5, <2>6, <2>7, <2>8, <2>9 DEF TypeOK
<1>2. Synced'
    BY <1>0 DEF Synced, TypeOK, ModeAtBoot, NoRow, NoTime, Modes
<1>3. CreditHolds'
  <2>1. (forgot => forgot') /\ Full \in Nat
    BY <1>0 DEF TypeOK, Full
  <2>2. /\ mode' = "SOFT_DEGRADE" /\ credit' = credit
        /\ mode = "SOFT_DEGRADE" => streak' = streak
        /\ mode # "SOFT_DEGRADE" => streak' = 0
    BY <1>0
  <2>3. mode \in Modes \ {"HARD_CRITICAL_DEGRADE"} /\ credit \in Nat /\ streak \in Nat
    BY <1>0, <2>1 DEF TypeOK
  <2>4. forgot \/ credit >= HardStreak
    BY <1>0, <2>1, <2>3 DEF CreditHolds, Modes, Full
  <2>5. CASE mode = "SOFT_DEGRADE"
    BY <1>0, <2>1, <2>2, <2>5 DEF CreditHolds
  <2>6. CASE mode # "SOFT_DEGRADE"
    BY <2>1, <2>2, <2>3, <2>4, <2>6 DEF CreditHolds
  <2> QED
    BY <2>5, <2>6
<1>4. FlattenHeld'
    BY <1>0 DEF FlattenHeld, TypeOK, Synced
<1>5. StampIsTrue'
    BY <1>0 DEF StampIsTrue, TypeOK, Synced
<1> QED
    BY <1>1, <1>2, <1>3, <1>4, <1>5 DEF IInv

\* apply_recon_degraded_manage keeps at least HardStreak of credit.
LEMMA ReconDegradeKeeps ==
    ASSUME IInv, ReconDegrade
    PROVE  IInv'
<1> USE DegradationAssumption
    DEF ReconDegrade,
        Idle, Judged, Stamped, Count, Persist, ended, memory, row, verdicts
<1>0. TypeOK /\ Synced /\ CreditHolds /\ FlattenHeld /\ StampIsTrue
    BY DEF IInv
<1>1. TypeOK'
  <2>1. (mode \in Modes /\ streak \in Nat)'
    BY <1>0 DEF TypeOK, Modes, NoRow
  <2>2. (entered \in 0..MaxClock \cup {NoTime})'
    BY <1>0 DEF TypeOK, NoTime
  <2>3. (rowMode \in Modes \cup {NoRow} /\ rowStreak \in Nat)'
    BY <1>0, <2>1 DEF TypeOK, Modes, NoRow
  <2>4. (rowEntered \in 0..MaxClock \cup {NoTime})'
    BY <1>0 DEF TypeOK, NoTime
  <2>5. (latched \in BOOLEAN /\ rowLatched \in BOOLEAN)'
    BY <1>0 DEF TypeOK
  <2>6. (spent \in BOOLEAN /\ dirty \in BOOLEAN /\ forgot \in BOOLEAN)'
    BY <1>0 DEF TypeOK
  <2>7. (/\ proc \in {"up", "down"} /\ pc \in {"idle", "page", "recovered"}
         /\ told \in {"none", "hard", "recovered"} /\ last \in Severities)'
    BY <1>0 DEF TypeOK, Severities
  <2>8. (run \in 0..HardStreak /\ credit \in 0..Full)'
    BY <1>0 DEF TypeOK, Full
  <2>9. (/\ since \in 0..MaxClock /\ clock \in 0..MaxClock
         /\ crashes \in 0..MaxCrashes)'
    BY <1>0 DEF TypeOK
  <2> QED
    BY <2>1, <2>2, <2>3, <2>4, <2>5, <2>6, <2>7, <2>8, <2>9 DEF TypeOK
<1>2. Synced'
    BY <1>0 DEF Synced, TypeOK, ModeAtBoot, NoRow, NoTime, Modes
<1>3. CreditHolds'
  <2>1. (forgot => forgot') /\ Full \in Nat
    BY <1>0 DEF TypeOK, Full
  <2>2. mode' = "RECON_DEGRADED_MANAGE" /\ credit' = credit
    BY <1>0
  <2>3. mode \in Modes \ {"HARD_CRITICAL_DEGRADE"} /\ credit \in Nat /\ streak \in Nat
    BY <1>0, <2>1 DEF TypeOK
  <2>4. forgot \/ credit >= HardStreak
    BY <1>0, <2>1, <2>3 DEF CreditHolds, Modes, Full
  <2> QED
    BY <2>1, <2>2, <2>4 DEF CreditHolds
<1>4. FlattenHeld'
    BY <1>0 DEF FlattenHeld, TypeOK, Synced
<1>5. StampIsTrue'
    BY <1>0 DEF StampIsTrue, TypeOK, Synced
<1> QED
    BY <1>1, <1>2, <1>3, <1>4, <1>5 DEF IInv

\* A manual reset counts as full credit.
LEMMA ResetKeeps ==
    ASSUME IInv, Reset
    PROVE  IInv'
<1> USE DegradationAssumption
    DEF Reset, ToNormal,
        Idle, Judged, Stamped, Count, Persist, ended, memory, row, verdicts
<1>0. TypeOK /\ Synced /\ CreditHolds /\ FlattenHeld /\ StampIsTrue
    BY DEF IInv
<1>1. TypeOK'
  <2>1. (mode \in Modes /\ streak \in Nat)'
    BY <1>0 DEF TypeOK, Modes, NoRow
  <2>2. (entered \in 0..MaxClock \cup {NoTime})'
    BY <1>0 DEF TypeOK, NoTime
  <2>3. (rowMode \in Modes \cup {NoRow} /\ rowStreak \in Nat)'
    BY <1>0, <2>1 DEF TypeOK, Modes, NoRow
  <2>4. (rowEntered \in 0..MaxClock \cup {NoTime})'
    BY <1>0 DEF TypeOK, NoTime
  <2>5. (latched \in BOOLEAN /\ rowLatched \in BOOLEAN)'
    BY <1>0 DEF TypeOK
  <2>6. (spent \in BOOLEAN /\ dirty \in BOOLEAN /\ forgot \in BOOLEAN)'
    BY <1>0 DEF TypeOK
  <2>7. (/\ proc \in {"up", "down"} /\ pc \in {"idle", "page", "recovered"}
         /\ told \in {"none", "hard", "recovered"} /\ last \in Severities)'
    BY <1>0 DEF TypeOK, Severities
  <2>8. (run \in 0..HardStreak /\ credit \in 0..Full)'
    BY <1>0 DEF TypeOK, Full
  <2>9. (/\ since \in 0..MaxClock /\ clock \in 0..MaxClock
         /\ crashes \in 0..MaxCrashes)'
    BY <1>0 DEF TypeOK
  <2> QED
    BY <2>1, <2>2, <2>3, <2>4, <2>5, <2>6, <2>7, <2>8, <2>9 DEF TypeOK
<1>2. Synced'
    BY <1>0 DEF Synced, TypeOK, ModeAtBoot, NoRow, NoTime, Modes
<1>3. CreditHolds'
  <2>1. (forgot => forgot') /\ Full \in Nat
    BY <1>0 DEF TypeOK, Full
  <2> QED
    BY <1>0, <2>1 DEF CreditHolds, TypeOK, Full, Synced
<1>4. FlattenHeld'
    BY <1>0 DEF FlattenHeld, TypeOK, Synced
<1>5. StampIsTrue'
    BY <1>0 DEF StampIsTrue, TypeOK, Synced
<1> QED
    BY <1>1, <1>2, <1>3, <1>4, <1>5 DEF IInv

\* Consuming clears the latch in memory and, unless refused, in the row.
LEMMA ConsumeFlattenKeeps ==
    ASSUME IInv, ConsumeFlatten
    PROVE  IInv'
<1> USE DegradationAssumption
    DEF ConsumeFlatten, PersistConsumed,
        Idle, Judged, Stamped, Count, Persist, ended, memory, row, verdicts
<1>0. TypeOK /\ Synced /\ CreditHolds /\ FlattenHeld /\ StampIsTrue
    BY DEF IInv
<1>1. TypeOK'
    BY <1>0 DEF TypeOK, Modes, Severities, Full, NoTime, NoRow
<1>2. Synced'
    BY <1>0 DEF Synced, TypeOK, ModeAtBoot, NoRow, NoTime, Modes
<1>3. CreditHolds'
  <2>1. (forgot => forgot') /\ Full \in Nat
    BY <1>0 DEF TypeOK, Full
  <2> QED
    BY <1>0, <2>1 DEF CreditHolds, TypeOK, Full, Synced
<1>4. FlattenHeld'
    BY <1>0 DEF FlattenHeld, TypeOK, Synced
<1>5. StampIsTrue'
    BY <1>0 DEF StampIsTrue, TypeOK, Synced
<1> QED
    BY <1>1, <1>2, <1>3, <1>4, <1>5 DEF IInv

\* Paging changes nothing the invariant is about.
LEMMA DispatchKeeps ==
    ASSUME IInv, Dispatch
    PROVE  IInv'
<1> USE DegradationAssumption
    DEF Dispatch,
        Idle, Judged, Stamped, Count, Persist, ended, memory, row, verdicts
<1>0. TypeOK /\ Synced /\ CreditHolds /\ FlattenHeld /\ StampIsTrue
    BY DEF IInv
<1>1. TypeOK'
    BY <1>0 DEF TypeOK, Modes, Severities, Full, NoTime, NoRow
<1>2. Synced'
    BY <1>0 DEF Synced, TypeOK, ModeAtBoot, NoRow, NoTime, Modes
<1>3. CreditHolds'
  <2>1. (forgot => forgot') /\ Full \in Nat
    BY <1>0 DEF TypeOK, Full
  <2> QED
    BY <1>0, <2>1 DEF CreditHolds, TypeOK, Full, Synced
<1>4. FlattenHeld'
    BY <1>0 DEF FlattenHeld, TypeOK, Synced
<1>5. StampIsTrue'
    BY <1>0 DEF StampIsTrue, TypeOK, Synced
<1> QED
    BY <1>1, <1>2, <1>3, <1>4, <1>5 DEF IInv

\* A crash leaves the row, and with it all that Synced says.
LEMMA CrashKeeps ==
    ASSUME IInv, Crash
    PROVE  IInv'
<1> USE DegradationAssumption
    DEF Crash,
        Idle, Judged, Stamped, Count, Persist, ended, memory, row, verdicts
<1>0. TypeOK /\ Synced /\ CreditHolds /\ FlattenHeld /\ StampIsTrue
    BY DEF IInv
<1>1. TypeOK'
    BY <1>0 DEF TypeOK, Modes, Severities, Full, NoTime, NoRow
<1>2. Synced'
    BY <1>0 DEF Synced, TypeOK, ModeAtBoot, NoRow, NoTime, Modes
<1>3. CreditHolds'
  <2>1. (forgot => forgot') /\ Full \in Nat
    BY <1>0 DEF TypeOK, Full
  <2> QED
    BY <1>0, <2>1 DEF CreditHolds, TypeOK, Full, Synced
<1>4. FlattenHeld'
    BY <1>0 DEF FlattenHeld, TypeOK, Synced
<1>5. StampIsTrue'
    BY <1>0 DEF StampIsTrue, TypeOK, Synced
<1> QED
    BY <1>1, <1>2, <1>3, <1>4, <1>5 DEF IInv

\* A restart takes over what the row holds: the same mode, unless a write was lost.
LEMMA BootKeeps ==
    ASSUME IInv, Boot
    PROVE  IInv'
<1> USE DegradationAssumption
    DEF Boot, ModeAtBoot, StreakAtBoot,
        Idle, Judged, Stamped, Count, Persist, ended, memory, row, verdicts
<1>0. TypeOK /\ Synced /\ CreditHolds /\ FlattenHeld /\ StampIsTrue
    BY DEF IInv
<1>1. TypeOK'
  <2>1. (mode \in Modes /\ streak \in Nat)'
    BY <1>0 DEF TypeOK, Modes, NoRow
  <2>2. (entered \in 0..MaxClock \cup {NoTime})'
    BY <1>0 DEF TypeOK, NoTime
  <2>3. (rowMode \in Modes \cup {NoRow} /\ rowStreak \in Nat)'
    BY <1>0, <2>1 DEF TypeOK, Modes, NoRow
  <2>4. (rowEntered \in 0..MaxClock \cup {NoTime})'
    BY <1>0 DEF TypeOK, NoTime
  <2>5. (latched \in BOOLEAN /\ rowLatched \in BOOLEAN)'
    BY <1>0 DEF TypeOK
  <2>6. (spent \in BOOLEAN /\ dirty \in BOOLEAN /\ forgot \in BOOLEAN)'
    BY <1>0 DEF TypeOK
  <2>7. (/\ proc \in {"up", "down"} /\ pc \in {"idle", "page", "recovered"}
         /\ told \in {"none", "hard", "recovered"} /\ last \in Severities)'
    BY <1>0 DEF TypeOK, Severities
  <2>8. (run \in 0..HardStreak /\ credit \in 0..Full)'
    BY <1>0 DEF TypeOK, Full
  <2>9. (/\ since \in 0..MaxClock /\ clock \in 0..MaxClock
         /\ crashes \in 0..MaxCrashes)'
    BY <1>0 DEF TypeOK
  <2> QED
    BY <2>1, <2>2, <2>3, <2>4, <2>5, <2>6, <2>7, <2>8, <2>9 DEF TypeOK
<1>2. Synced'
    BY <1>0 DEF Synced, TypeOK, ModeAtBoot, NoRow, NoTime, Modes
<1>3. CreditHolds'
  <2>1. (forgot => forgot') /\ Full \in Nat
    BY <1>0 DEF TypeOK, Full
  <2> QED
    BY <1>0, <2>1 DEF CreditHolds, TypeOK, Full, Synced
<1>4. FlattenHeld'
    BY <1>0 DEF FlattenHeld, TypeOK, Synced
<1>5. StampIsTrue'
    BY <1>0 DEF StampIsTrue, TypeOK, Synced
<1> QED
    BY <1>1, <1>2, <1>3, <1>4, <1>5 DEF IInv

\* The clock does not touch the stamps.
LEMMA TickKeeps ==
    ASSUME IInv, Tick
    PROVE  IInv'
<1> USE DegradationAssumption
    DEF Tick,
        Idle, Judged, Stamped, Count, Persist, ended, memory, row, verdicts
<1>0. TypeOK /\ Synced /\ CreditHolds /\ FlattenHeld /\ StampIsTrue
    BY DEF IInv
<1>1. TypeOK'
    BY <1>0 DEF TypeOK, Modes, Severities, Full, NoTime, NoRow
<1>2. Synced'
    BY <1>0 DEF Synced, TypeOK, ModeAtBoot, NoRow, NoTime, Modes
<1>3. CreditHolds'
  <2>1. (forgot => forgot') /\ Full \in Nat
    BY <1>0 DEF TypeOK, Full
  <2> QED
    BY <1>0, <2>1 DEF CreditHolds, TypeOK, Full, Synced
<1>4. FlattenHeld'
    BY <1>0 DEF FlattenHeld, TypeOK, Synced
<1>5. StampIsTrue'
    BY <1>0 DEF StampIsTrue, TypeOK, Synced
<1> QED
    BY <1>1, <1>2, <1>3, <1>4, <1>5 DEF IInv

-----------------------------------------------------------------------------
(* The invariant and what follows from it.                                 *)

\* The initial state, with an empty vault.
LEMMA InitEstablishes == Init => IInv
<1> SUFFICES ASSUME Init PROVE IInv
    OBVIOUS
<1> USE DegradationAssumption DEF Init
<1>1. TypeOK
  <2>1. mode \in Modes /\ rowMode \in Modes \cup {NoRow} /\ last \in Severities
    BY DEF Modes, Severities
  <2>2. /\ streak \in Nat /\ rowStreak \in Nat /\ crashes \in 0..MaxCrashes
        /\ run \in 0..HardStreak /\ credit \in 0..Full
        /\ since \in 0..MaxClock /\ clock \in 0..MaxClock
    BY DEF Full
  <2>3. entered \in 0..MaxClock \cup {NoTime} /\ rowEntered \in 0..MaxClock \cup {NoTime}
    OBVIOUS
  <2> QED
    BY <2>1, <2>2, <2>3 DEF TypeOK
<1>2. Synced
    BY DEF Synced, ModeAtBoot, NoTime
<1>3. CreditHolds
    BY DEF CreditHolds
<1>4. FlattenHeld /\ StampIsTrue
    BY DEF FlattenHeld, StampIsTrue
<1> QED
    BY <1>1, <1>2, <1>3, <1>4 DEF IInv

\* Every step keeps the invariant.
LEMMA StepKeeps == IInv /\ [Next]_vars => IInv'
<1> SUFFICES ASSUME IInv, [Next]_vars PROVE IInv'
    OBVIOUS
<1>1. CASE Evaluate
  <2>1. PICK v \in Severities :
            \/ EvalHard(v) \/ EvalDown(v) \/ EvalHeal(v) \/ EvalNormal(v)
            \/ EvalMend(v) \/ EvalSoft(v) \/ EvalSteady(v)
    BY <1>1, EvaluateCases
  <2> QED
    BY <2>1, EvalHardKeeps, EvalDownKeeps, EvalHealKeeps, EvalNormalKeeps,
       EvalMendKeeps, EvalSoftKeeps, EvalSteadyKeeps
<1>2. CASE UNCHANGED vars
    BY <1>2 DEF vars, IInv, TypeOK, Synced, ModeAtBoot, CreditHolds, FlattenHeld, StampIsTrue
<1> QED
    BY <1>1, <1>2, SoftDegradeKeeps, ReconDegradeKeeps, ResetKeeps,
       ConsumeFlattenKeeps, DispatchKeeps, CrashKeeps, BootKeeps, TickKeeps DEF Next

\* The invariant holds throughout.
LEMMA Inductive == Spec => []IInv
<1> QED
    BY InitEstablishes, StepKeeps, PTL DEF Spec

\* Memory, row and history stay in their ranges.
THEOREM TypeCorrect == Spec => []TypeOK
<1>1. IInv => TypeOK
    BY DEF IInv
<1> QED
    BY Inductive, <1>1, PTL

\* Re-assertions and restarts keep the true entry time.
THEOREM StampStaysTrue == Spec => []StampIsTrue
<1>1. IInv => StampIsTrue
    BY DEF IInv
<1> QED
    BY Inductive, <1>1, PTL

\* Entries reopen after a HARD_BREACH only on HardStreak + SoftStreak OK
\* verdicts, or by hand, for any streak lengths and any number of restarts.
THEOREM EntriesEarned == Spec => EntriesAreEarned
<1> USE DegradationAssumption
    DEF Idle, Judged, Stamped, Count, Persist, ended, memory, row, verdicts
<1>1. ASSUME IInv, [Next]_vars, mode # "NORMAL", mode' = "NORMAL"
      PROVE  Reset \/ credit' = Full \/ forgot'
  <2>0. TypeOK /\ Synced /\ CreditHolds
    BY <1>1 DEF IInv
  <2>1. CASE Evaluate
    <3>1. PICK v \in Severities :
              \/ EvalHard(v) \/ EvalDown(v) \/ EvalHeal(v) \/ EvalNormal(v)
              \/ EvalMend(v) \/ EvalSoft(v) \/ EvalSteady(v)
      BY <2>1, EvaluateCases
    <3>2. CASE EvalNormal(v)
      BY <2>0, <3>2 DEF EvalNormal, Rest, ToNormal, Earned, CreditHolds, TypeOK, Full
    <3>3. ~EvalHard(v) /\ ~EvalDown(v)
      BY <1>1 DEF EvalHard, ApplyHard, EvalDown, Downgrade, SteppedDown
    <3>4. ~EvalHeal(v) /\ ~EvalMend(v)
      BY <1>1 DEF EvalHeal, EvalMend, Earn
    <3>5. ~EvalSoft(v) /\ ~EvalSteady(v)
      BY <1>1 DEF EvalSoft, EngageSoft, ApplySoft, EvalSteady, Steady
    <3> QED
      BY <3>1, <3>2, <3>3, <3>4, <3>5
  <2>2. CASE Boot
    BY <1>1, <2>0, <2>2 DEF Boot, Synced, TypeOK
  <2>3. ~SoftDegrade /\ ~ReconDegrade
    BY <1>1 DEF SoftDegrade, ApplySoft, ReconDegrade
  <2>4. ~ConsumeFlatten /\ ~Dispatch /\ ~Crash /\ ~Tick /\ ~UNCHANGED vars
    BY <1>1 DEF ConsumeFlatten, Dispatch, Crash, Tick, vars
  <2> QED
    BY <1>1, <2>1, <2>2, <2>3, <2>4 DEF Next
<1>2. IInv /\ [Next]_vars =>
        [mode # "NORMAL" /\ mode' = "NORMAL" => Reset \/ credit' = Full \/ forgot']_vars
    BY <1>1
<1> QED
    BY Inductive, <1>2, PTL DEF Spec, EntriesAreEarned

\* HARD steps down only on HardStreak OK verdicts of the running process.
THEOREM HardReEarned == Spec => HardIsReEarned
<1> USE DegradationAssumption
    DEF Idle, Judged, Stamped, Count, Persist, ended, memory, row, verdicts
<1>1. ASSUME IInv, [Next]_vars, mode = "HARD_CRITICAL_DEGRADE", mode' = "SOFT_DEGRADE"
      PROVE  run' = HardStreak \/ forgot'
  <2>0. TypeOK /\ Synced /\ CreditHolds
    BY <1>1 DEF IInv
  <2>1. CASE Evaluate
    <3>1. PICK v \in Severities :
              \/ EvalHard(v) \/ EvalDown(v) \/ EvalHeal(v) \/ EvalNormal(v)
              \/ EvalMend(v) \/ EvalSoft(v) \/ EvalSteady(v)
      BY <2>1, EvaluateCases
    <3>2. CASE EvalDown(v)
      BY <1>1, <2>0, <3>2 DEF EvalDown, Rest, Downgrade, Earned, CreditHolds, TypeOK
    <3>3. ~EvalHard(v) /\ ~EvalNormal(v)
      BY <1>1 DEF EvalHard, ApplyHard, EvalNormal
    <3>4. ~EvalHeal(v) /\ ~EvalMend(v)
      BY <1>1 DEF EvalHeal, EvalMend, Earn
    <3>5. ~EvalSoft(v) /\ ~EvalSteady(v)
      BY <1>1 DEF EvalSoft, EngageSoft, EvalSteady, Steady
    <3> QED
      BY <3>1, <3>2, <3>3, <3>4, <3>5
  <2>2. CASE Boot
    BY <1>1, <2>0, <2>2 DEF Boot, Synced, TypeOK
  <2>3. ~SoftDegrade /\ ~ReconDegrade /\ ~Reset
    BY <1>1 DEF SoftDegrade, ApplySoft, ReconDegrade, Reset, ToNormal
  <2>4. ~ConsumeFlatten /\ ~Dispatch /\ ~Crash /\ ~Tick /\ ~UNCHANGED vars
    BY <1>1 DEF ConsumeFlatten, Dispatch, Crash, Tick, vars
  <2> QED
    BY <1>1, <2>1, <2>2, <2>3, <2>4 DEF Next
<1>2. IInv /\ [Next]_vars =>
        [mode = "HARD_CRITICAL_DEGRADE" /\ mode' = "SOFT_DEGRADE"
            => run' = HardStreak \/ forgot']_vars
    BY <1>1
<1> QED
    BY Inductive, <1>2, PTL DEF Spec, HardIsReEarned

\* No HARD_BREACH is flattened twice, not even across a restart.
THEOREM FlattenedOnce == Spec => OneFlattenPerBreach
<1>1. IInv /\ [Next]_vars =>
        [ConsumeFlatten => (~spent /\ mode = "HARD_CRITICAL_DEGRADE") \/ forgot]_vars
    BY DEF IInv, FlattenHeld, ConsumeFlatten
<1> QED
    BY Inductive, <1>1, PTL DEF Spec, OneFlattenPerBreach
=============================================================================
